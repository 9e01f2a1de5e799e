--------------------------- MODULE ExchangePyBase ---------------------------
(***************************************************************************)
(* The connector base (connector/exchange_py_base.py) around its order      *)
(* tracker, with the parts a connector fills in taken from                  *)
(* connector/exchange/binance/binance_exchange.py, beside an exchange.      *)
(*                                                                         *)
(* Coroutines of the connector: one placement per order (placing), the      *)
(* polling loop, the loop of the lost orders and the cancellations the      *)
(* strategy asks for (pass).  Each awaits one REST request at a time; an    *)
(* answer shows the exchange as it was when it answered.  The user stream   *)
(* (stream) delivers reports in order and may lose them.  What a callback   *)
(* calls on the tracker before it suspends again waits in calls; no other   *)
(* callback runs meanwhile.                                                 *)
(***************************************************************************)
EXTENDS ClientOrderTracker

CONSTANTS is_cancel_request_in_exchange_synchronous,
          Cancellable,   \* orders the strategy may ask to cancel
          MaxStream      \* bound: reports of the user stream on their way

ASSUME SynchronousAssumption == is_cancel_request_in_exchange_synchronous \in BOOLEAN
ASSUME MaxStreamAssumption == MaxStream \in Nat

VARIABLES
    exchange,   \* what the exchange holds of each order
    traded,     \* the trades the exchange made for each order
    wire,       \* orders whose placement request may still reach the exchange
    placing,    \* orders whose _create_order awaits the exchange's answer
    stream,     \* reports on their way through the user stream
    calls,      \* calls the running callback has still to make on the tracker
    pass,       \* where each polling coroutine is
    unsure      \* history: orders given up without the exchange's word

outside == <<exchange, traded, wire>>
xvars == <<vars, exchange, traded, wire, placing, stream, calls, pass, unsure>>

ExchangeStates == {"absent", "open", "filled", "canceled", "expired"}
Ended == {"filled", "canceled", "expired"}

(* ORDER_STATE: how the connector reads the exchange's status.              *)
ORDER_STATE(state, trades) ==
    CASE state = "filled"   -> "FILLED"
      [] state = "canceled" -> "CANCELED"
      [] state = "expired"  -> "FAILED"
      [] OTHER -> IF trades = {} THEN "OPEN" ELSE "PARTIALLY_FILLED"

----------------------------------------------------------------------------
(* The calls on the tracker.                                                *)
TradeCall(o, trades)    == [kind |-> "trade", order |-> o, trades |-> trades]
UpdateCall(u)           == [kind |-> "update", update |-> u]
StreamCall(u)           == [kind |-> "report", update |-> u]
NotFoundCall(o, guess)  == [kind |-> "not_found", order |-> o, guess |-> guess]

Reported(o, state) == [order |-> o, client_order_id |-> TRUE,
                       exchange_order_id |-> TRUE, new_state |-> state]
Guessed(o, state)  == [Reported(o, state) EXCEPT !.exchange_order_id = FALSE]

TradeCalls(o, trades) == IF trades = {} THEN <<>> ELSE <<TradeCall(o, trades)>>

(* A callback starts when no other one runs; it schedules one update at     *)
(* most, for which the bound on tasks leaves room.                          *)
LoopIsFree == calls = <<>> /\ Len(tasks) + Len(waiting) < MaxTasks

(* Scheduled tasks run before any callback that input makes ready later,    *)
(* and touch nothing outside.  So the exchange moves, and answers arrive,   *)
(* only while none is scheduled: other orders of these steps differ in      *)
(* nothing the connector sees.                                              *)
LoopWaits == calls = <<>> /\ tasks = <<>>

(* The polling coroutines, the requests each makes in turn, and for which   *)
(* orders: the lists are copied when a round of requests begins.            *)
Loops   == {"status", "lost"}
Workers == Loops \cup {"cancel"}

(* Mutant of NextPhase: the statuses of lost orders are not asked for.      *)
NextPhaseWithoutStatuses(w, phase) ==
    CASE phase = "idle"     -> IF w = "status" THEN "fills" ELSE "cancel"
      [] phase = "cancel"   -> IF w = "lost" THEN "fills" ELSE "idle"
      [] phase = "fills"    -> IF w = "lost" THEN "idle" ELSE "statuses"
      [] phase = "statuses" -> "idle"

NextPhase(w, phase) ==
    CASE phase = "idle"     -> IF w = "status" THEN "fills" ELSE "cancel"
      [] phase = "cancel"   -> IF w = "lost" THEN "fills" ELSE "idle"
      [] phase = "fills"    -> "statuses"
      [] phase = "statuses" -> "idle"

(* Mutant of Todo: fills are asked for active orders only.                  *)
TodoOfActive(w, phase) ==
    CASE phase = "idle" -> {}
      [] w = "lost"     -> lost
      [] OTHER -> active

Todo(w, phase) ==
    CASE phase = "idle" -> {}
      [] w = "lost"     -> lost
      [] phase = "fills" -> all_fillable_orders
      [] OTHER -> active

NoReply == [order |-> "none"]
Reply(o, kind, trades, state) ==
    [order |-> o, kind |-> kind, trades |-> trades, state |-> state]

Idle == [phase |-> "idle", todo |-> {}, reply |-> NoReply]

XInit ==
    /\ Init
    /\ exchange = [o \in Orders |-> "absent"] /\ traded = [o \in Orders |-> {}]
    /\ wire = {} /\ placing = {} /\ stream = <<>> /\ calls = <<>>
    /\ pass = [w \in Workers |-> Idle]
    /\ unsure = {}

----------------------------------------------------------------------------
(* The exchange.                                                            *)

(* A report is sent, and delivered or lost (also when the stream is full).  *)
Publish(o, trades) ==
    \/ UNCHANGED stream
    \/ /\ Len(stream) < MaxStream
       /\ stream' = Append(stream, [order |-> o, trades |-> trades,
                             state |-> ORDER_STATE(exchange'[o], traded'[o])])

exchange_accepts(o) ==
    /\ LoopWaits /\ o \in wire
    /\ wire' = wire \ {o}
    /\ exchange' = [exchange EXCEPT ![o] = "open"]
    /\ UNCHANGED <<vars, traded, placing, calls, pass, unsure>>
    /\ Publish(o, {})

(* The request is lost, or the exchange refuses the order.                  *)
exchange_refuses(o) ==
    /\ LoopWaits /\ o \in wire
    /\ wire' = wire \ {o}
    /\ UNCHANGED <<vars, exchange, traded, placing, stream, calls, pass, unsure>>

Filled(o, trades) == SumFunctionOnSet(FillAmount, trades) >= Amount[o]

exchange_trades(o, t) ==
    /\ LoopWaits /\ exchange[o] = "open" /\ t \notin traded[o]
    /\ traded' = [traded EXCEPT ![o] = @ \cup {t}]
    /\ exchange' = [exchange EXCEPT ![o] = IF Filled(o, traded'[o]) THEN "filled" ELSE @]
    /\ UNCHANGED <<vars, wire, placing, calls, pass, unsure>>
    /\ Publish(o, {t})

(* It expires, or its owner cancels it elsewhere, or a cancellation whose   *)
(* answer nobody awaits any more arrives.                                   *)
exchange_ends(o) ==
    /\ LoopWaits /\ exchange[o] = "open"
    /\ \E end \in {"canceled", "expired"} :
           exchange' = [exchange EXCEPT ![o] = end]
    /\ UNCHANGED <<vars, traded, wire, placing, calls, pass, unsure>>
    /\ Publish(o, {})

----------------------------------------------------------------------------
(* _create_order: the order is tracked, then refused by a trading rule or   *)
(* sent to the exchange.                                                    *)
_create_order(o) ==
    /\ LoopIsFree
    /\ start_tracking_order(o)
    /\ \/ /\ calls' = <<UpdateCall(FailedUpdate(o))>>
          /\ UNCHANGED <<wire, placing>>
       \/ /\ wire' = wire \cup {o} /\ placing' = placing \cup {o}
          /\ UNCHANGED calls
    /\ UNCHANGED <<exchange, traded, stream, pass, unsure>>

(* _place_order returns: the order is there, or the exchange was overloaded *)
(* (a 503 whose outcome is unknown) and the order is taken as placed.       *)
place_order_returns(o) ==
    /\ LoopIsFree /\ o \in placing
    /\ placing' = placing \ {o}
    /\ calls' = <<UpdateCall(Reported(o, "OPEN"))>>
    /\ UNCHANGED <<vars, outside, stream, pass, unsure>>

(* Mutant of place_order_fails: the tracking ends at once.                  *)
place_order_fails_untracked(o) ==
    /\ LoopIsFree /\ o \in placing
    /\ placing' = placing \ {o}
    /\ active' = active \ {o}
    /\ unsure' = unsure \cup {o}
    /\ UNCHANGED <<order, started, cached, lost, not_found, tasks, waiting, history>>
    /\ UNCHANGED <<outside, stream, calls, pass>>

(* _place_order raises, whatever became of the request.                     *)
place_order_fails(o) ==
    /\ LoopIsFree /\ o \in placing
    /\ placing' = placing \ {o}
    /\ calls' = <<UpdateCall(FailedUpdate(o))>>
    /\ unsure' = unsure \cup {o}
    /\ UNCHANGED <<vars, outside, stream, pass>>

----------------------------------------------------------------------------
(* A coroutine begins a round of requests: the loops over and over, the     *)
(* cancellation when the strategy asks for it.                              *)
next_round(w) ==
    LET next == NextPhase(w, pass[w].phase) IN
    /\ LoopIsFree /\ pass[w].todo = {} /\ pass[w].reply = NoReply
    /\ \E todo \in IF w = "cancel" /\ next = "cancel" THEN {{o} : o \in active \cap Cancellable}
                                                     ELSE {Todo(w, next)} :
           pass' = [pass EXCEPT ![w] = [phase |-> next, todo |-> todo, reply |-> NoReply]]
    /\ UNCHANGED <<vars, outside, placing, stream, calls, unsure>>

Awaits(w, o) == LoopWaits /\ o \in pass[w].todo /\ pass[w].reply = NoReply

Answer(w, reply) ==
    pass' = [pass EXCEPT ![w] = [pass[w] EXCEPT !.todo = @ \ {reply.order}, !.reply = reply]]

(* The fills are asked for by exchange id: without it nothing is asked.     *)
fills_answered(w, o) ==
    /\ pass[w].phase = "fills" /\ Awaits(w, o)
    /\ Answer(w, Reply(o, "fills", IF order[o].exchange_order_id THEN traded[o] ELSE {}, "OPEN"))
    /\ UNCHANGED <<vars, outside, placing, stream, calls, unsure>>

(* The status is asked for by client id.  A status asked for before the     *)
(* placement arrived says that there is no such order.                      *)
status_answered(w, o) ==
    /\ pass[w].phase = "statuses" /\ Awaits(w, o)
    /\ Answer(w, IF exchange[o] = "absent"
                   THEN Reply(o, "not_found", {}, "FAILED")
                   ELSE Reply(o, "status", {}, ORDER_STATE(exchange[o], traded[o])))
    /\ unsure' = IF o \in wire THEN unsure \cup {o} ELSE unsure
    /\ UNCHANGED <<vars, outside, placing, stream, calls>>

(* An open order is cancelled; of any other the exchange knows nothing.     *)
cancel_answered(w, o) ==
    /\ pass[w].phase = "cancel" /\ Awaits(w, o)
    /\ IF exchange[o] = "open"
         THEN /\ Answer(w, Reply(o, "canceled", {}, "CANCELED"))
              /\ exchange' = [exchange EXCEPT ![o] = "canceled"]
         ELSE /\ Answer(w, Reply(o, "not_found", {}, "FAILED"))
              /\ exchange' = exchange
    /\ unsure' = IF o \in wire THEN unsure \cup {o} ELSE unsure
    /\ UNCHANGED <<vars, traded, wire, placing, calls>>
    /\ IF exchange[o] = "open" THEN Publish(o, {}) ELSE UNCHANGED stream

(* A request fails.  A failed request for fills is logged and yields none;  *)
(* only a cancellation tells a timeout from other errors.                   *)
FailedReplies(o, phase) ==
    CASE phase = "fills"    -> {Reply(o, "fills", {}, "OPEN")}
      [] phase = "statuses" -> {Reply(o, "error", {}, "FAILED")}
      [] OTHER -> {Reply(o, kind, {}, "FAILED") : kind \in {"error", "timeout"}}

request_fails(w, o) ==
    /\ Awaits(w, o)
    /\ \E reply \in FailedReplies(o, pass[w].phase) : Answer(w, reply)
    /\ UNCHANGED <<vars, outside, placing, stream, calls, unsure>>

answered(w, o) == fills_answered(w, o) \/ status_answered(w, o) \/ cancel_answered(w, o)

----------------------------------------------------------------------------
(* What each coroutine does with an answer.                                 *)
FillsCalls(r) == TradeCalls(r.order, r.trades)

(* Mutant of StatusCalls: an error is only logged.                          *)
StatusCallsOrLog(r) == IF r.kind = "status"
                         THEN <<UpdateCall(Reported(r.order, r.state))>> ELSE <<>>

StatusCalls(r) == <<IF r.kind = "status" THEN UpdateCall(Reported(r.order, r.state))
                    ELSE NotFoundCall(r.order, r.kind # "not_found")>>

(* Mutant of LostStatusCalls: any error counts as "not found".              *)
LostStatusCallsOnAnyError(r) ==
    CASE r.kind = "status" -> <<UpdateCall(Reported(r.order, r.state))>>
      [] OTHER -> <<UpdateCall(FailedUpdate(r.order))>>

LostStatusCalls(r) ==
    CASE r.kind = "status"    -> <<UpdateCall(Reported(r.order, r.state))>>
      [] r.kind = "not_found" -> <<UpdateCall(FailedUpdate(r.order))>>
      [] OTHER -> <<>>

(* Mutant of CancelCalls: an order not found is taken as cancelled.         *)
CancelCallsIfMissing(r) ==
    CASE r.kind \in {"canceled", "not_found"} -> <<UpdateCall(Guessed(r.order, "CANCELED"))>>
      [] r.kind = "timeout"   -> <<NotFoundCall(r.order, TRUE)>>
      [] OTHER -> <<>>

CancelCalls(r) ==
    CASE r.kind = "canceled" ->
            <<UpdateCall(Guessed(r.order, IF is_cancel_request_in_exchange_synchronous
                                            THEN "CANCELED" ELSE "PENDING_CANCEL"))>>
      [] r.kind = "not_found" -> <<NotFoundCall(r.order, FALSE)>>
      [] r.kind = "timeout"   -> <<NotFoundCall(r.order, TRUE)>>
      [] OTHER -> <<>>

handle_answer(w) ==
    LET r == pass[w].reply IN
    /\ LoopIsFree /\ r # NoReply
    /\ calls' = CASE pass[w].phase = "fills"  -> FillsCalls(r)
                  [] pass[w].phase = "cancel" -> CancelCalls(r)
                  [] w = "lost"               -> LostStatusCalls(r)
                  [] OTHER                    -> StatusCalls(r)
    /\ pass' = [pass EXCEPT ![w].reply = NoReply]
    /\ UNCHANGED <<vars, outside, placing, stream, unsure>>

(* _user_stream_event_listener: the trade, then the state.                  *)
handle_report ==
    LET m == Head(stream) IN
    /\ LoopIsFree /\ stream # <<>>
    /\ stream' = Tail(stream)
    /\ calls' = Append(TradeCalls(m.order, m.trades), StreamCall(Reported(m.order, m.state)))
    /\ UNCHANGED <<vars, outside, placing, pass, unsure>>

(* stop_network, then start_network: the loops are cancelled wherever they  *)
(* are and begin again; reports sent meanwhile are lost.                    *)
restart_network ==
    /\ calls = <<>>
    /\ pass' = [w \in Workers |-> IF w \in Loops THEN Idle ELSE pass[w]]
    /\ stream' = <<>>
    /\ UNCHANGED <<vars, outside, placing, calls, unsure>>

(* The running callback makes its next call; trades one by one, as listed.  *)
call_trade(c) ==
    /\ c.kind = "trade"
    /\ \E o \in Orders, t \in Trades :
          /\ o = c.order /\ t \in c.trades
          /\ \/ process_trade_update(o, t)
             \/ o \notin all_fillable_orders /\ UNCHANGED vars
          /\ calls' = TradeCalls(o, c.trades \ {t}) \o Tail(calls)
    /\ UNCHANGED unsure

call_update(c) ==
    /\ c.kind # "report" => c.kind = "update"
    /\ c.kind = "report" => c.update.order \in all_updatable_orders
    /\ \E u \in OrderUpdate : u = c.update /\ process_order_update(u)
    /\ calls' = Tail(calls) /\ UNCHANGED unsure

call_ignored(c) ==
    /\ c.kind = "report" /\ c.update.order \notin all_updatable_orders
    /\ calls' = Tail(calls) /\ UNCHANGED <<vars, unsure>>

call_not_found(c) ==
    /\ c.kind = "not_found"
    /\ \E o \in Orders : o = c.order /\
         ( \/ count_not_found(o)
           \/ declare_lost(o)
           \/ lost_not_found(o)
           \/ o \notin active \cup lost /\ UNCHANGED vars )
    /\ unsure' = IF c.guess /\ c.order \in lost THEN unsure \cup {c.order} ELSE unsure
    /\ calls' = Tail(calls)

make_call ==
    /\ calls # <<>>
    /\ LET c == Head(calls) IN
         call_trade(c) \/ call_update(c) \/ call_ignored(c) \/ call_not_found(c)
    /\ UNCHANGED <<outside, placing, stream, pass>>

(* The tracker's own tasks, and its cache.                                  *)
RunTracker ==
    /\ calls = <<>>
    /\ BeginWait \/ RunTask \/ FillsArrived \/ WaitTimesOut
    /\ UNCHANGED <<outside, placing, stream, calls, pass, unsure>>

ExpireCache ==
    /\ \E o \in Orders : expire_cached(o)
    /\ UNCHANGED <<outside, placing, stream, calls, pass, unsure>>

XNext ==
    \/ \E o \in Orders : \/ exchange_accepts(o) \/ exchange_refuses(o) \/ exchange_ends(o)
                         \/ \E t \in Trades : exchange_trades(o, t)
                         \/ _create_order(o)
                         \/ place_order_returns(o) \/ place_order_fails(o)
                         \/ \E w \in Workers : answered(w, o) \/ request_fails(w, o)
    \/ \E w \in Workers : next_round(w) \/ handle_answer(w)
    \/ handle_report \/ restart_network
    \/ make_call \/ RunTracker \/ ExpireCache

(* The event loop runs what is ready in turn, timers fire, every request is *)
(* answered or fails, the two loops go round; the network is not restarted  *)
(* for ever, nor do all requests for an order's fills, or for the status of *)
(* a lost order, fail.                                                      *)
LoopRuns(w) == next_round(w) \/ handle_answer(w)

XFairness ==
    /\ WF_xvars(make_call)
    /\ WF_xvars(RunTracker /\ (BeginWait \/ RunTask)) /\ SF_xvars(RunTracker /\ WaitTimesOut)
    /\ \A w \in Loops : /\ SF_xvars(LoopRuns(w))
                        /\ SF_xvars(\E o \in Orders : answered(w, o) \/ request_fails(w, o))
    /\ \A o \in Orders : SF_xvars(status_answered("lost", o)) /\ SF_xvars(fills_answered("status", o))
    /\ <>[][~restart_network]_xvars

XSpec     == XInit /\ [][XNext]_xvars
FairXSpec == XSpec /\ XFairness

----------------------------------------------------------------------------
Call == [kind : {"trade"}, order : Orders, trades : SUBSET Trades]
        \cup [kind : {"update", "report"}, update : OrderUpdate]
        \cup [kind : {"not_found"}, order : Orders, guess : BOOLEAN]

ReplyKinds == {"fills", "status", "not_found", "canceled", "error", "timeout"}

Report  == [order : Orders, trades : SUBSET Trades, state : OrderState]
Replies == [order : Orders, kind : ReplyKinds, trades : SUBSET Trades, state : OrderState]
Phases  == {"idle", "cancel", "fills", "statuses"}

XTypeOK ==
    /\ exchange \in [Orders -> ExchangeStates] /\ traded \in [Orders -> SUBSET Trades]
    /\ wire \in SUBSET Orders /\ placing \in SUBSET Orders /\ unsure \in SUBSET Orders
    /\ calls \in Seq(Call) /\ stream \in Seq(Report)
    /\ pass \in [Workers -> [phase : Phases, todo : SUBSET Orders, reply : Replies \cup {NoReply}]]

(* No order lives on the exchange unwatched: it is polled as an active or   *)
(* as a lost order, unless the connector gave it up without the exchange's  *)
(* word.  Those guesses are three: a placement that raised although the     *)
(* request arrives, a status or a cancellation answered before the          *)
(* placement arrived, and a lost order removed by a request that failed.    *)
LiveOrdersAreWatched ==
    \A o \in started : exchange[o] = "open" \/ o \in wire
                          => o \in active \cup lost \cup unsure

(* What is announced as cancelled or completed is over on the exchange: no  *)
(* stale answer, lost report or failed request makes a live order look      *)
(* ended, except as a failure.                                              *)
AnnouncedEndsAreReal ==
    \A o \in Orders : notified[o] \cap {"Cancelled", "Completed"} # {} => exchange[o] \in Ended

(* The connector is a user of the order tracker like any other: what is     *)
(* proved of the tracker holds inside the connector.                        *)
ImplementsTracker == Init /\ [][Next]_vars

(* An order that is over on the exchange stops being active, even when the  *)
(* user stream loses every report and any request fails.                    *)
EndedOrdersStopBeingActive == \A o \in Orders : exchange[o] \in Ended ~> o \notin active

(* A lost order that is over on the exchange stops being polled.            *)
EndedOrdersStopBeingLost == \A o \in Orders : exchange[o] \in Ended ~> o \notin lost

(* A trade of an order whose exchange id is known is counted, even when the *)
(* stream loses it and the order ends first, unless the tracker forgets the *)
(* order before the next round of requests.                                 *)
TradesAreCounted ==
    \A o \in Orders, t \in Trades :
        t \in traded[o] /\ order[o].exchange_order_id
            ~> t \in order[o].fills \/ o \notin all_fillable_orders

(* exchange_py_base.py:813 says that a lost order is watched "until we are  *)
(* totally sure the order is no longer alive in the exchange".  A           *)
(* cancellation of it that times out removes it.                            *)
LostOrdersAreWatchedUntilDead ==
    [][\A o \in lost \ unsure : o \notin lost' => exchange[o] # "open"]_xvars
=============================================================================
