-------------------------- MODULE MarketsRecorder --------------------------
(***************************************************************************)
(* Persistence of the tracked orders and recovery from it                   *)
(* (connector/markets_recorder.py, ClientOrderTracker.restore_tracking_states). *)
(*                                                                         *)
(* The recorder listens to the market events.  Events are delivered inside  *)
(* the tracker's step, after the order object changed and before the order  *)
(* moves to another container, and most of them save the serialized         *)
(* updatable orders.  The process may stop between any two steps; the next  *)
(* one starts from the last committed save.                                 *)
(***************************************************************************)
EXTENDS ClientOrderTracker

VARIABLES
    order_rows,     \* ids with a row in the Order table (its primary key)
    saved,          \* MarketState.saved_state: a function from ids to objects
    used,           \* client ids handed out so far, by any run of the program
    declared_lost   \* history: ids the tracker itself declared lost

db    == <<order_rows, saved>>
rvars == <<vars, order_rows, saved, used, declared_lost>>

RInit == /\ Init
         /\ order_rows = {} /\ saved = << >>
         /\ used = {} /\ declared_lost = {}

----------------------------------------------------------------------------
(* The events the step triggers for an order.                               *)
Fired(o) ==
    IF order'[o].state # order[o].state
       \/ order'[o].exchange_order_id # order[o].exchange_order_id
      THEN EventsOf(order[o], order'[o])
      ELSE {}

NewlyCreated == {o \in Orders : "Created" \in Fired(o)}
NewlyEnded   == {o \in Orders : Fired(o) \cap TerminalEvents # {}}
NewTradeRows == {o \in Orders : \E t \in Trades : fill_events[o][t] = 0 /\ fill_events'[o][t] = 1}

(* ExchangePyBase.tracking_states, as it is while the listeners run: the    *)
(* objects are already changed, the dictionaries are not.                   *)
tracking_states == [o \in all_updatable_orders |-> order'[o]]

(* Mutants of record_events: the end of an order, or a fill, saves nothing. *)
record_without_ends ==
    /\ order_rows' = order_rows \cup NewlyCreated
    /\ saved' = IF ~(NewlyCreated \subseteq order_rows) \/ NewTradeRows # {}
                  THEN tracking_states ELSE saved

record_without_fills ==
    /\ order_rows' = order_rows \cup NewlyCreated
    /\ saved' = IF ~(NewlyCreated \subseteq order_rows) \/ NewlyEnded \cap order_rows' # {}
                  THEN tracking_states ELSE saved

(* _did_create_order, _did_fill_order and _update_order_status.  A second   *)
(* row with the same key makes the transaction fail, so nothing is saved;   *)
(* the end of an order that has no row is not recorded.                     *)
record_events ==
    /\ order_rows' = order_rows \cup NewlyCreated
    /\ saved' = IF \/ ~ (NewlyCreated \subseteq order_rows)
                   \/ NewlyEnded \cap order_rows' # {}
                   \/ NewTradeRows # {}
                  THEN tracking_states
                  ELSE saved

(* A step of the tracker with the recorder listening.  Client ids are not   *)
(* reused, also not after a restart.                                        *)
Track ==
    /\ Next
    /\ started' \cap used \subseteq started
    /\ used' = used \cup started'
    /\ declared_lost' = declared_lost \cup (lost' \ lost)
    /\ record_events

(* The process stops, at any point, and the next one restores the last      *)
(* saved state.  Scheduled and suspended tasks, the cache and the counters  *)
(* are gone.  What an earlier run announced is kept for lost orders only.   *)
restore_tracking_states ==
    /\ active' = {o \in DOMAIN saved : is_open(saved[o])}
    /\ lost' = {o \in DOMAIN saved : is_failure(saved[o])}
    /\ order' = [o \in Orders |-> IF o \in active' \cup lost' THEN saved[o] ELSE order[o]]

Restart ==
    /\ restore_tracking_states
    /\ started' = active' \cup lost'
    /\ cached' = {} /\ not_found' = [o \in Orders |-> 0]
    /\ tasks' = <<>> /\ waiting' = <<>>
    /\ notified' = [o \in Orders |-> IF o \in lost' THEN notified[o] ELSE {}]
    /\ UNCHANGED <<fill_events, db, used, declared_lost>>

RNext == Track \/ Restart
RSpec == RInit /\ [][RNext]_rvars

----------------------------------------------------------------------------
RTypeOK == /\ order_rows \in SUBSET Orders /\ used \in SUBSET Orders
           /\ declared_lost \in SUBSET Orders
           /\ DOMAIN saved \in SUBSET Orders
           /\ \A o \in DOMAIN saved : saved[o] \in Object

(* A stop at any moment recovers, of the orders announced as created,       *)
(* exactly those that are still active: none is left unwatched on the       *)
(* exchange, and none whose end was announced comes back to life.           *)
RecoveryMatchesTracking ==
    \A o \in order_rows : o \in active <=> o \in DOMAIN saved /\ is_open(saved[o])

(* The saved fills of an order are its fills, whatever was saved last and   *)
(* wherever the order went since.                                           *)
SavedFillsAreCurrent ==
    \A o \in DOMAIN saved : /\ saved[o].fills = order[o].fills
                            /\ saved[o].executed = order[o].executed

(* client_order_tracker.py:163 says of restore_tracking_states that a       *)
(* FAILED order in the tracking states was a lost order.  The save made by  *)
(* the OrderFailure event of an order the exchange rejected or expired      *)
(* still lists it, so a restart restores it as lost although it never was.  *)
RestoredLostWereLost == lost \subseteq declared_lost
=============================================================================
