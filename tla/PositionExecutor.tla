-------------------------- MODULE PositionExecutor --------------------------
(***************************************************************************)
(* strategy_v2/executors/position_executor: a coroutine that opens a        *)
(* position with one order, watches its barriers and closes the position    *)
(* with another, beside the connector, whose events come between any two    *)
(* of its steps, and the strategy that stops it.                            *)
(*                                                                         *)
(* An order is what the connector's InFlightOrder holds, with "known" when  *)
(* the executor's TrackedOrder has found it.  Which barriers are hit and    *)
(* whether the price is within the activation bounds is chosen at each pass.*)
(***************************************************************************)
EXTENDS Naturals

CONSTANTS Setups,        \* [barriers, bounds, stopped_by] an executor may have
          Amount,        \* config.amount, in units
          MinOrderSize,  \* trading_rules.min_order_size
          _max_retries

Barriers == {"stop_loss", "take_profit", "take_profit_limit", "trailing_stop", "time_limit"}
Stoppers == {"strategy", "orchestrator"}

ASSUME SetupsAssumption ==
    Setups \subseteq [barriers : SUBSET Barriers, bounds : BOOLEAN, stopped_by : SUBSET Stoppers]
ASSUME ConstantsAssumption == {Amount, MinOrderSize} \subseteq Nat \ {0} /\ _max_retries \in Nat

VARIABLES
    setup,     \* its setup
    stopped,   \* who stopped it early already: each once
    executor,  \* the object
    loop,      \* where its control_loop is
    opened,    \* what its opening orders filled on the exchange
    closed     \* what its closing orders filled

given == <<setup, stopped>>
vars  == <<given, executor, loop, opened, closed>>

NoOrder   == [amount |-> 0, filled |-> 0, known |-> FALSE, completed |-> FALSE, cancelled |-> FALSE]
Placed(a) == [NoOrder EXCEPT !.amount = a]
Slots     == {"open", "close", "take_profit"}

Init ==
    /\ setup \in Setups /\ stopped = {}
    /\ executor = [status |-> "RUNNING", close_type |-> "none", retries |-> 0, armed |-> FALSE,
                   terminated |-> FALSE, registered |-> TRUE, stray |-> 0,
                   open |-> NoOrder, close |-> NoOrder, take_profit |-> NoOrder]
    /\ loop = "starting"
    /\ opened = 0 /\ closed = 0

----------------------------------------------------------------------------
(* TrackedOrder.                                                            *)
exists(o)    == o.amount > 0
executed(o)  == IF o.known THEN o.filled ELSE 0
is_filled(o) == o.known /\ exists(o) /\ o.filled >= o.amount
is_open(o)   == o.known /\ ~o.completed
Live(o)      == IF o.completed THEN 0 ELSE o.amount - o.filled

amount_to_close(x) ==
    IF executed(x.open) > executed(x.close) THEN executed(x.open) - executed(x.close) ELSE 0

stop(x) == [x EXCEPT !.status = "TERMINATED", !.terminated = TRUE, !.registered = FALSE]

StopAs(x, type) == [stop(x) EXCEPT !.close_type = type]

evaluate_max_retries(x) == IF x.retries > _max_retries THEN StopAs(x, "FAILED") ELSE x

cancel(x, slot) == [x EXCEPT ![slot].cancelled = TRUE]

CancelIfOpen(x, slot) == IF is_open(x[slot]) THEN cancel(x, slot) ELSE x

cancel_open_orders(x) == CancelIfOpen(CancelIfOpen(x, "open"), "take_profit")

(* A close order that is placed takes the place of one that may be live.    *)
place_close_order(x) ==
    [x EXCEPT !.close = Placed(amount_to_close(x)), !.stray = @ + Live(x.close)]

place_close_order_and_cancel_open_orders(x, type) ==
    LET y == cancel_open_orders(x)
        z == IF amount_to_close(y) >= MinOrderSize THEN place_close_order(y) ELSE y
    IN [z EXCEPT !.close_type = type, !.status = "SHUTTING_DOWN"]

----------------------------------------------------------------------------
(* control_task while RUNNING.                                              *)
control_open_order(x, within) ==
    IF ~exists(x.open)
      THEN IF within THEN [x EXCEPT !.open = Placed(Amount)] ELSE x
      ELSE IF x.open.known /\ ~is_filled(x.open) /\ ~within THEN cancel(x, "open") ELSE x

Barrier(x, hit, type) ==
    IF type \in hit THEN place_close_order_and_cancel_open_orders(x, type) ELSE x

(* The trailing stop is armed by one pass and closes in a later one.        *)
control_trailing_stop(x, hit) ==
    IF x.armed THEN Barrier(x, hit, "trailing_stop")
               ELSE [x EXCEPT !.armed = "trailing_stop" \in hit]

control_take_profit(x, hit, within) ==
    IF "take_profit_limit" \notin setup.barriers THEN Barrier(x, hit, "take_profit")
    ELSE IF ~exists(x.take_profit)
      THEN IF within THEN [x EXCEPT !.take_profit = Placed(amount_to_close(x))] ELSE x
      ELSE IF is_open(x.take_profit) /\ ~is_filled(x.take_profit) /\ ~within
             THEN cancel(x, "take_profit") ELSE x

control_barriers(x, hit, within) ==
    LET a == Barrier(x, hit, "stop_loss")
        b == control_trailing_stop(a, hit)
        c == control_take_profit(b, hit, within)
    IN Barrier(IF is_filled(x.open) /\ x.open.filled >= MinOrderSize THEN c ELSE x, hit, "time_limit")

(* The profit cannot be below the one limit and above the other.            *)
Hits == {hit \in SUBSET setup.barriers : ~({"stop_loss", "take_profit"} \subseteq hit)}

run_pass ==
    /\ loop = "ready" /\ ~executor.terminated /\ executor.status = "RUNNING"
    /\ \E hit \in Hits, within \in IF setup.bounds THEN BOOLEAN ELSE {TRUE} :
           executor' = evaluate_max_retries(
                           control_barriers(control_open_order(executor, within), hit, within))
    /\ UNCHANGED <<given, loop, opened, closed>>

----------------------------------------------------------------------------
(* control_loop: on_start, which checks the balance and the time, and the   *)
(* test of its condition.                                                   *)
on_start ==
    /\ loop = "starting"
    /\ loop' = "ready"
    /\ \/ executor' \in {executor, StopAs(executor, "INSUFFICIENT_BALANCE")}
       \/ "time_limit" \in setup.barriers /\ executor' = StopAs(executor, "EXPIRED")
    /\ UNCHANGED <<given, opened, closed>>

loop_ends ==
    /\ loop = "ready" /\ executor.terminated
    /\ loop' = "over"
    /\ UNCHANGED <<given, executor, opened, closed>>

(* control_shutdown_process.                                                *)
Gone(o) == ~exists(o) \/ is_filled(o)

open_orders_completed(x)     == Gone(x.open) /\ Gone(x.take_profit)
open_and_close_volume_match(x) == executed(x.open) = 0 \/ is_filled(x.close)

Retry(x) == [cancel_open_orders(x) EXCEPT !.retries = @ + 1]

(* Mutant of shutdown_pass: only the position counts, not the orders.       *)
shutdown_pass_volumes ==
    /\ loop = "ready" /\ ~executor.terminated /\ executor.status = "SHUTTING_DOWN"
    /\ IF open_and_close_volume_match(executor)
         THEN executor' = stop(executor) /\ loop' = "resting"
         ELSE IF exists(executor.close)
           THEN executor' = [executor EXCEPT !.close.known = TRUE] /\ loop' = "updating"
           ELSE /\ executor' = Retry(place_close_order_and_cancel_open_orders(executor, executor.close_type))
                /\ loop' = "resting"
    /\ UNCHANGED <<given, opened, closed>>

(* Mutant of shutdown_pass: a close order that is live is placed again.     *)
shutdown_pass_again ==
    /\ loop = "ready" /\ ~executor.terminated /\ executor.status = "SHUTTING_DOWN"
    /\ IF open_orders_completed(executor) /\ open_and_close_volume_match(executor)
         THEN executor' = stop(executor) /\ loop' = "resting"
         ELSE /\ executor' = Retry(place_close_order_and_cancel_open_orders(executor, executor.close_type))
              /\ loop' = "resting"
    /\ UNCHANGED <<given, opened, closed>>

(* The close order is found as long as the tracker holds it; one that ended *)
(* is gone from its slot before that.                                       *)
shutdown_pass ==
    /\ loop = "ready" /\ ~executor.terminated /\ executor.status = "SHUTTING_DOWN"
    /\ IF open_orders_completed(executor) /\ open_and_close_volume_match(executor)
         THEN executor' = stop(executor) /\ loop' = "resting"
         ELSE IF exists(executor.close)
           THEN executor' = [executor EXCEPT !.close.known = TRUE] /\ loop' = "updating"
           ELSE /\ executor' = Retry(place_close_order_and_cancel_open_orders(executor, executor.close_type))
                /\ loop' = "resting"
    /\ UNCHANGED <<given, opened, closed>>

(* Mutant of close_order_updated: an update is no attempt.                  *)
close_order_updated_only ==
    /\ loop = "updating"
    /\ loop' = "resting"
    /\ executor' = cancel_open_orders(executor)
    /\ UNCHANGED <<given, opened, closed>>

close_order_updated ==
    /\ loop = "updating"
    /\ loop' = "resting"
    /\ executor' = Retry(executor)
    /\ UNCHANGED <<given, opened, closed>>

rested ==
    /\ loop = "resting"
    /\ loop' = "ready"
    /\ executor' = evaluate_max_retries(executor)
    /\ UNCHANGED <<given, opened, closed>>

----------------------------------------------------------------------------
(* The orders: what happens on the exchange, and the events' handlers.      *)
Known(o) == [o EXCEPT !.known = o.known \/ executor.registered]

order_created(slot) ==
    /\ exists(executor[slot]) /\ ~executor[slot].known
    /\ executor' = [executor EXCEPT ![slot] = Known(@)]
    /\ UNCHANGED <<given, loop, opened, closed>>

order_filled(slot) ==
    /\ executor[slot].filled < executor[slot].amount
    /\ executor' = [executor EXCEPT ![slot] = [Known(executor[slot]) EXCEPT !.filled = @ + 1]]
    /\ IF slot = "open" THEN opened' = opened + 1 /\ UNCHANGED closed
                        ELSE closed' = closed + 1 /\ UNCHANGED opened
    /\ UNCHANGED <<given, loop>>

stray_filled ==
    /\ executor.stray > 0
    /\ executor' = [executor EXCEPT !.stray = @ - 1]
    /\ closed' = closed + 1
    /\ UNCHANGED <<given, loop, opened>>

(* The take profit order becomes the close order.                           *)
TakesProfit(x) == [x EXCEPT !.close_type = "take_profit_limit", !.close = x.take_profit,
                            !.stray = @ + Live(x.close), !.status = "SHUTTING_DOWN"]

order_completed(slot) ==
    /\ exists(executor[slot]) /\ ~executor[slot].completed
    /\ executor[slot].filled = executor[slot].amount
    /\ LET x == [executor EXCEPT ![slot] = [Known(executor[slot]) EXCEPT !.completed = TRUE]]
       IN executor' = IF slot = "take_profit" /\ executor.registered THEN TakesProfit(x) ELSE x
    /\ UNCHANGED <<given, loop, opened, closed>>

Without(slot) == [executor EXCEPT ![slot] = NoOrder]

(* With or without a request; what was filled before is not looked at.      *)
order_cancelled(slot) ==
    /\ executor[slot].known /\ executor[slot].filled < executor[slot].amount
    /\ executor' = Without(slot)
    /\ UNCHANGED <<given, loop, opened, closed>>

order_failed(slot) ==
    /\ exists(executor[slot]) /\ ~executor[slot].known /\ executor[slot].filled = 0
    /\ executor' = [Without(slot) EXCEPT !.retries = IF executor.registered THEN @ + 1 ELSE @]
    /\ UNCHANGED <<given, loop, opened, closed>>

----------------------------------------------------------------------------
(* early_stop, by a strategy that stops what is active, or by the           *)
(* orchestrator's stop, which stops what is not closed; each once.          *)
early_stop(by) ==
    /\ by \in setup.stopped_by \ stopped
    /\ IF by = "orchestrator" THEN executor.status # "TERMINATED" ELSE executor.status = "RUNNING"
    /\ executor' = place_close_order_and_cancel_open_orders(executor, "EARLY_STOP")
    /\ stopped' = stopped \cup {by}
    /\ UNCHANGED <<setup, loop, opened, closed>>

LoopStep   == on_start \/ run_pass \/ shutdown_pass \/ close_order_updated \/ rested \/ loop_ends
OrderEvent == \E slot \in Slots : \/ order_created(slot) \/ order_filled(slot) \/ order_completed(slot)
                                  \/ order_cancelled(slot) \/ order_failed(slot)

Next == LoopStep \/ OrderEvent \/ stray_filled \/ \E by \in Stoppers : early_stop(by)

(* The event loop resumes the coroutine; requests for an update end.        *)
Spec     == Init /\ [][Next]_vars
FairSpec == Spec /\ WF_vars(LoopStep)

----------------------------------------------------------------------------
TypeOK ==
    /\ setup \in Setups /\ stopped \subseteq setup.stopped_by
    /\ executor.status \in {"RUNNING", "SHUTTING_DOWN", "TERMINATED"}
    /\ executor.retries \in Nat /\ executor.stray \in Nat
    /\ {executor.armed, executor.terminated, executor.registered} \subseteq BOOLEAN
    /\ \A slot \in Slots : LET o == executor[slot] IN
          /\ o.filled \in 0 .. o.amount /\ {o.known, o.completed, o.cancelled} \subseteq BOOLEAN
          /\ ~exists(o) => o = NoOrder
    /\ loop \in {"starting", "ready", "updating", "resting", "over"}
    /\ opened \in Nat /\ closed \in Nat

(* One way to close at a time: the strategy stops only what is active, and  *)
(* the stop loss and a take profit at market are never hit together.        *)
ClosesOneWay ==
    /\ \/ setup.barriers \subseteq {"stop_loss", "take_profit"}
       \/ \E barrier \in setup.barriers : setup.barriers = {barrier}
    /\ "orchestrator" \notin setup.stopped_by
    /\ "take_profit_limit" \in setup.barriers => setup.stopped_by = {}

(* control_close_order places the close order "if the close order is not    *)
(* placed": with one way to close at a time, what may still be closed never *)
(* exceeds the position, whatever fails, fills late or is stopped.          *)
ClosesOnce ==
    ClosesOneWay =>
        closed + executor.stray + Live(executor.close) + Live(executor.take_profit) <= opened

(* place_close_order_and_cancel_open_orders:456: "If the difference between *)
(* the open filled amount and the close filled amount is greater than the   *)
(* minimum order size, it places the close order": an executor that ends    *)
(* without giving up has closed all it opened and opens nothing more; with  *)
(* one way to close at a time, it closed it once and left no order.         *)
EndsFlat ==
    executor.status = "TERMINATED" /\ executor.close_type # "FAILED" =>
        /\ opened <= closed /\ Live(executor.open) = 0
        /\ ClosesOneWay => opened = closed /\ \A slot \in Slots : Live(executor[slot]) = 0

(* Line 335: "If the close order is not placed, it places the close order", *)
(* and stop ends "all active executors": the same of every setup.           *)
AlwaysClosesOnce ==
    closed + executor.stray + Live(executor.close) + Live(executor.take_profit) <= opened

(* An executor that shuts down ends: its position closed, or given up.      *)
ShutdownEnds == executor.status = "SHUTTING_DOWN" ~> loop = "over"

(* Line 43: max_retries is "The maximum number of retries": the pass that   *)
(* gives up does not leave one more order behind.                           *)
GivesUpCleanly ==
    executor.status = "TERMINATED" => Live(executor.open) = 0 \/ executor.open.cancelled
=============================================================================
