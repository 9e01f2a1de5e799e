------------------------ MODULE StrategyOrderTracker ------------------------
(***************************************************************************)
(* The order tracker of a strategy (strategy/order_tracker.pyx) and the     *)
(* order handlers of strategy/strategy_base.pyx that drive it.  It is a     *)
(* second view of the orders, kept from the market events alone: limit and  *)
(* market orders, the cancellations asked for, and shadow copies of limit   *)
(* orders kept for late fills.  Times are clock ticks.                      *)
(***************************************************************************)
EXTENDS Integers, Sequences

CONSTANTS Orders,
          CANCEL_EXPIRY_DURATION,
          SHADOW_MAKER_ORDER_KEEP_ALIVE_DURATION,
          MaxTime    \* bound: when the model's clock stops

ASSUME DurationsAssumption ==
    CANCEL_EXPIRY_DURATION \in Nat /\ SHADOW_MAKER_ORDER_KEEP_ALIVE_DURATION \in Nat
ASSUME MaxTimeAssumption == MaxTime \in Nat

VARIABLES
    now,        \* _current_timestamp
    limit,      \* ids in _tracked_limit_orders
    market,     \* ids in _tracked_market_orders
    pair,       \* keys of _order_id_to_market_pair
    shadow,     \* ids in the two shadow dictionaries
    gc,         \* _shadow_gc_requests
    cancels,    \* _in_flight_cancels: when the cancellation was asked for
    pending,    \* _in_flight_pending_created
    kind,       \* history: the type each order was placed with
    ended,      \* history: the end event delivered first, or "live"
    stopped,    \* history: when the tracking of a limit order stopped
    asked       \* history: when the market was last asked to cancel

tracked == <<limit, market, pair>>
vars == <<now, limit, market, pair, shadow, gc, cancels, pending, kind, ended, stopped, asked>>

None  == -1
Ends  == {"failed", "cancelled", "expired", "completed"}

Init ==
    /\ now = 0
    /\ limit = {} /\ market = {} /\ pair = {} /\ shadow = {} /\ gc = <<>> /\ pending = {}
    /\ cancels = [o \in Orders |-> None]
    /\ kind = [o \in Orders |-> "new"] /\ ended = [o \in Orders |-> "live"]
    /\ stopped = [o \in Orders |-> None] /\ asked = [o \in Orders |-> None]

----------------------------------------------------------------------------
(* buy/sell_with_specific_market, and orders restored when the strategy     *)
(* starts.  A strategy may wait for the creation event before it cancels.   *)
Track(o, type) ==
    /\ kind[o] = "new"
    /\ kind' = [kind EXCEPT ![o] = type]
    /\ pair' = pair \cup {o}
    /\ pending' \in {pending, pending \cup {o}}
    /\ UNCHANGED <<now, gc, cancels, ended, stopped, asked>>

start_tracking_limit_order(o) ==
    /\ Track(o, "limit")
    /\ limit' = limit \cup {o} /\ shadow' = shadow \cup {o}
    /\ UNCHANGED market

start_tracking_market_order(o) ==
    /\ Track(o, "market")
    /\ market' = market \cup {o}
    /\ UNCHANGED <<limit, shadow>>

remove_create_order_pending(o) ==
    /\ o \in pending
    /\ pending' = pending \ {o}
    /\ UNCHANGED <<now, tracked, shadow, gc, cancels, kind, ended, stopped, asked>>

----------------------------------------------------------------------------
(* An order with a cancellation in flight is left out of the active orders. *)
has_in_flight_cancel(o) ==
    cancels[o] # None /\ cancels[o] + CANCEL_EXPIRY_DURATION > now
active_limit_orders == {o \in limit : ~has_in_flight_cancel(o)}

(* Mutant of expired_cancel: entries expire a tick early.                   *)
expires_early(o) == cancels[o] # None /\ cancels[o] <= now - CANCEL_EXPIRY_DURATION

expired_cancel(o) == cancels[o] # None /\ cancels[o] < now - CANCEL_EXPIRY_DURATION

(* c_check_and_track_cancel: an order whose creation is awaited is refused; *)
(* expired entries are dropped, and an order without an entry gets one.     *)
unexpired == [o \in Orders |-> IF expired_cancel(o) THEN None ELSE cancels[o]]

track_cancel(o) == [unexpired EXCEPT ![o] = now]

check_and_track_cancel(o) == o \notin pending /\ unexpired[o] = None

cancel_order(o) ==
    /\ o \in limit \cup market
    /\ cancels' = CASE check_and_track_cancel(o) -> track_cancel(o)
                    [] o \in pending -> cancels
                    [] OTHER -> unexpired
    /\ asked' = IF check_and_track_cancel(o) THEN [asked EXCEPT ![o] = now] ELSE asked
    /\ UNCHANGED <<now, tracked, shadow, gc, pending, kind, ended, stopped>>

----------------------------------------------------------------------------
(* The end events.  They may be repeated, and come for orders that are no   *)
(* longer tracked.                                                          *)
NoteEnd(o, how) == ended' = [ended EXCEPT ![o] = IF @ = "live" THEN how ELSE @]

(* The market pair under which the order is looked up is itself looked up   *)
(* by the order's id: without one nothing is found.                         *)
drop_limit_order(o) ==
    /\ pair' = pair \ {o}
    /\ IF o \in pair \cap limit
       THEN /\ limit' = limit \ {o}
            /\ gc' = Append(gc, [at |-> now + SHADOW_MAKER_ORDER_KEEP_ALIVE_DURATION, order |-> o])
            /\ stopped' = [stopped EXCEPT ![o] = now]
       ELSE UNCHANGED <<limit, gc, stopped>>
    /\ UNCHANGED market

(* Mutant of stop_tracking_limit_order: the cancellation stays in flight.   *)
stop_tracking_but_cancelling(o) == drop_limit_order(o) /\ UNCHANGED cancels

stop_tracking_limit_order(o) ==
    /\ drop_limit_order(o)
    /\ cancels' = [cancels EXCEPT ![o] = None]

stop_tracking_market_order(o) ==
    /\ market' = IF o \in pair THEN market \ {o} ELSE market
    /\ pair' = pair \ {o}
    /\ UNCHANGED <<limit, gc, stopped, cancels>>

did_fail_order(o) ==
    /\ kind[o] # "new" /\ NoteEnd(o, "failed")
    /\ IF kind[o] = "limit" THEN stop_tracking_limit_order(o) ELSE stop_tracking_market_order(o)
    /\ UNCHANGED <<now, shadow, pending, kind, asked>>

(* A cancelled order is taken for a limit order, whatever its type.         *)
did_cancel_order(o) ==
    /\ kind[o] # "new"
    /\ NoteEnd(o, "cancelled") \/ NoteEnd(o, "expired")
    /\ stop_tracking_limit_order(o)
    /\ UNCHANGED <<now, shadow, pending, kind, asked>>

(* Mutant of did_complete_order: the order is dropped as a limit order.     *)
did_complete_as_limit(o) ==
    /\ kind[o] # "new" /\ NoteEnd(o, "completed")
    /\ IF o \in pair THEN stop_tracking_limit_order(o)
                     ELSE UNCHANGED <<tracked, gc, stopped, cancels>>
    /\ UNCHANGED <<now, shadow, pending, kind, asked>>

did_complete_order(o) ==
    /\ kind[o] # "new" /\ NoteEnd(o, "completed")
    /\ CASE o \notin pair      -> UNCHANGED <<tracked, gc, stopped, cancels>>
         [] kind[o] = "limit"  -> stop_tracking_limit_order(o)
         [] OTHER              -> stop_tracking_market_order(o)
    /\ UNCHANGED <<now, shadow, pending, kind, asked>>

(* Mutant of Due: records are dropped when half their time is over.         *)
DueEarly(request) == request.at - SHADOW_MAKER_ORDER_KEEP_ALIVE_DURATION < now'

(* c_tick: the shadow records that are due go, oldest request first.        *)
Due(request) == request.at < now'

tick ==
    /\ now < MaxTime /\ now' = now + 1
    /\ \E n \in 0 .. Len(gc) :
        /\ \A i \in 1 .. n : Due(gc[i])
        /\ n < Len(gc) => ~Due(gc[n + 1])
        /\ gc' = SubSeq(gc, n + 1, Len(gc))
        /\ shadow' = shadow \ {gc[i].order : i \in 1 .. n}
    /\ UNCHANGED <<tracked, cancels, pending, kind, ended, stopped, asked>>

Next ==
    \/ \E o \in Orders :
        \/ start_tracking_limit_order(o) \/ start_tracking_market_order(o)
        \/ remove_create_order_pending(o)
        \/ cancel_order(o)
        \/ did_fail_order(o) \/ did_cancel_order(o) \/ did_complete_order(o)
    \/ tick

Spec == Init /\ [][Next]_vars

----------------------------------------------------------------------------
Times == Nat \cup {None}

TypeOK ==
    /\ now \in Nat /\ now <= MaxTime
    /\ limit \subseteq Orders /\ market \subseteq Orders /\ pair \subseteq Orders
    /\ shadow \subseteq Orders /\ pending \subseteq Orders
    /\ gc \in Seq([at : Nat, order : Orders])
    /\ cancels \in [Orders -> Times] /\ asked \in [Orders -> Times] /\ stopped \in [Orders -> Times]
    /\ kind \in [Orders -> {"new", "limit", "market"}]
    /\ ended \in [Orders -> {"live"} \cup Ends]

(* After its end event an order is tracked no more, whatever events follow  *)
(* or are repeated, with one exception: a market order that was cancelled   *)
(* or expired is dropped from the ids but stays in the market orders.       *)
EndedOrdersAreDropped ==
    \A o \in Orders : ended[o] # "live" =>
        /\ o \notin limit /\ o \notin pair
        /\ o \in market => kind[o] = "market" /\ ended[o] \in {"cancelled", "expired"}

(* An order that has not ended is tracked, and its market pair is known.    *)
LiveOrdersAreTracked ==
    \A o \in Orders : kind[o] # "new" /\ ended[o] = "live" =>
        o \in pair /\ (IF kind[o] = "limit" THEN o \in limit ELSE o \in market)

(* The strategy's orders are those that live on the market.                 *)
TrackingFollowsEvents == EndedOrdersAreDropped /\ LiveOrdersAreTracked

(* A limit order has its shadow record while it is tracked and for the keep *)
(* alive duration after, so a late fill still finds its order; and no       *)
(* longer than a tick after that.                                           *)
ShadowOutlivesTracking ==
    /\ limit \subseteq shadow
    /\ \A o \in Orders : stopped[o] # None =>
          (o \in shadow <=> now <= stopped[o] + SHADOW_MAKER_ORDER_KEEP_ALIVE_DURATION)

(* The cancellations in flight are of limit orders that are still tracked,  *)
(* or of market orders: a strategy that waits until none is in flight       *)
(* (pure_market_making.pyx:1243) is not held up by an order that ended.     *)
CancelsAreOfTrackedOrders ==
    \A o \in Orders : cancels[o] # None => o \in limit \/ kind[o] = "market"

(* While an order lives the market is not asked to cancel it again before   *)
(* the last request expired.  (A cancelled market order stays among the     *)
(* market orders without its entry and may be asked for at once.)           *)
CancelsAreSpaced ==
    [][\A o \in Orders : ended[o] = "live" /\ asked'[o] # asked[o] /\ asked[o] # None
                           => now > asked[o] + CANCEL_EXPIRY_DURATION]_vars
=============================================================================
