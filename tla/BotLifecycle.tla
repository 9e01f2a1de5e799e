---------------------------- MODULE BotLifecycle ----------------------------
(***************************************************************************)
(* How the application starts and stops a bot: the coroutines of            *)
(* client/command/start_command.py and stop_command.py, the clock           *)
(* (core/clock.pyx) with the market and the strategy it drives, and the     *)
(* kill switch.  Commands come at any time, and run beside each other: each *)
(* is a coroutine that shares the application's fields with the others and  *)
(* suspends where it awaits.                                                *)
(*                                                                         *)
(* A run is one start command that got past the check; the objects it       *)
(* creates (strategy, market, clock, task, kill switch) are named by it.    *)
(***************************************************************************)
EXTENDS Naturals

CONSTANTS Stops,     \* stop commands that may be under way at a time
          MaxRuns,   \* bound: runs
          Gateways   \* whether a connector may be a gateway's

ASSUME ConstantsAssumption == MaxRuns \in Nat /\ Gateways \subseteq BOOLEAN

Runs == 1 .. MaxRuns
None == 0
Some == {None} \cup Runs

VARIABLES
    in_start_check,  \* _in_start_check
    start,           \* where start_check is: [at, run]; a gateway's user is asked
    stops,           \* where each stop_loop is: [at, market]
    strategy, markets, clock, strategy_task, kill_switch,   \* the fields
    children,        \* run -> _child_iterators of its clock
    context,         \* run -> _current_context of its clock
    running,         \* run -> the state of its task _run_clock
    live,            \* run -> iterators that were started and not stopped
    switch           \* run -> the state of its kill switch

fields   == <<strategy, markets, clock, strategy_task, kill_switch>>
clocks   == <<children, context, running, live>>
commands == <<in_start_check, start, stops>>
vars     == <<commands, fields, clocks, switch>>

Iterators == {"market", "strategy"}

Init ==
    /\ in_start_check = FALSE
    /\ \E asks \in Gateways : start = [at |-> "over", run |-> 0, asks |-> asks]
    /\ stops = [s \in Stops |-> [at |-> "over", market |-> None]]
    /\ strategy = None /\ markets = None /\ clock = None
    /\ strategy_task = None /\ kill_switch = None
    /\ children = [r \in Runs |-> {}] /\ context = [r \in Runs |-> {}]
    /\ running = [r \in Runs |-> "new"] /\ live = [r \in Runs |-> {}]
    /\ switch = [r \in Runs |-> "off"]

----------------------------------------------------------------------------
(* start_check.                                                             *)
StartAt(place) == start' = [start EXCEPT !.at = place]
StartReturns == StartAt("over") /\ in_start_check' = FALSE

(* Mutant of start_is_refused: a running task does not refuse.              *)
only_a_start_refuses == in_start_check

start_is_refused ==
    in_start_check \/ (strategy_task # None /\ running[strategy_task] # "done")

start_command ==
    /\ ~start_is_refused
    /\ start.run < MaxRuns
    /\ start' = [start EXCEPT !.at = "checking", !.run = @ + 1]
    /\ in_start_check' = TRUE
    /\ UNCHANGED <<stops, fields, clocks, switch>>

(* status_check_all says no, or the strategy is not implemented.            *)
checks_fail ==
    /\ start.at = "checking"
    /\ StartReturns
    /\ UNCHANGED <<stops, fields, clocks, switch>>

(* Loading the script or its configuration, or creating the strategy after  *)
(* the markets, raises: nothing resets _in_start_check.                     *)
checks_raise ==
    /\ start.at = "checking"
    /\ StartAt("over")
    /\ markets' \in {markets, start.run}
    /\ UNCHANGED <<in_start_check, stops, strategy, clock, strategy_task, kill_switch>>
    /\ UNCHANGED <<clocks, switch>>

(* The end of start_market_making: the strategy is added, the clock's task  *)
(* is scheduled, and the kill switch waits until the markets are ready.     *)
launch(added) ==
    LET r == start.run IN
    /\ children' = [children EXCEPT ![r] = added \cup IF strategy' = r THEN {"strategy"} ELSE {}]
    /\ strategy_task' = r /\ running' = [running EXCEPT ![r] = "scheduled"]
    /\ kill_switch' = r
    /\ StartAt("waiting_ready")
    /\ UNCHANGED <<in_start_check, stops, context, live, switch>>

(* start_market_making: the clock is created and the markets are added.     *)
(* Orders that dangle from an earlier run are cancelled first; without a    *)
(* recorder (a stop command took it away) the states cannot be restored.    *)
start_market_making ==
    LET r == start.run
        added == IF markets' = None THEN {} ELSE {"market"}
    IN /\ clock' = r
       /\ \/ /\ markets' = None \/ strategy' # None
             /\ launch(added)
          \/ /\ markets' # None /\ strategy' # None
             /\ children' = [children EXCEPT ![r] = added]
             /\ StartAt("cancelling_dangling")
             /\ UNCHANGED <<in_start_check, stops, strategy_task, kill_switch>>
             /\ UNCHANGED <<context, running, live, switch>>
          \/ /\ markets' # None
             /\ children' = [children EXCEPT ![r] = added]
             /\ StartReturns
             /\ UNCHANGED <<stops, strategy_task, kill_switch, context, running, live, switch>>

(* _initialize_strategy; a gateway connector is then asked for its          *)
(* balances, and the user for a confirmation.                               *)
checks_pass ==
    /\ start.at = "checking"
    /\ strategy' = start.run /\ markets' = start.run
    /\ IF start.asks
         THEN /\ StartAt("confirming")
              /\ UNCHANGED <<in_start_check, stops, clock, strategy_task, kill_switch>>
              /\ UNCHANGED <<clocks, switch>>
         ELSE start_market_making

confirmed ==
    /\ start.at = "confirming"
    /\ UNCHANGED <<strategy, markets>>
    /\ start_market_making

declined ==
    /\ start.at = "confirming"
    /\ StartReturns
    /\ UNCHANGED <<stops, fields, clocks, switch>>

(* cancel_all(10.0) returns.                                                *)
dangling_cancelled ==
    /\ start.at = "cancelling_dangling"
    /\ UNCHANGED <<strategy, markets, clock>>
    /\ launch(children[start.run])

dangling_raises ==
    /\ start.at = "cancelling_dangling"
    /\ StartReturns
    /\ UNCHANGED <<stops, fields, clocks, switch>>

(* wait_till_ready: all the markets there are now are ready.                *)
markets_ready ==
    /\ start.at = "waiting_ready"
    /\ StartReturns
    /\ switch' = [switch EXCEPT ![start.run] = "starting"]
    /\ UNCHANGED <<stops, fields, clocks>>

----------------------------------------------------------------------------
(* _run_clock: the context of the clock is entered, its iterators start.    *)
(* A task cancelled earlier is resumed earlier.                             *)
run_clock(r) ==
    /\ running[r] = "scheduled"
    /\ \A other \in Runs : running[other] # "cancelled"
    /\ IF clock = None
         THEN /\ running' = [running EXCEPT ![r] = "done"]
              /\ UNCHANGED <<context, live>>
         ELSE /\ running' = [running EXCEPT ![r] = "running"]
              /\ context' = [context EXCEPT ![r] = children[r]]
              /\ live' = [live EXCEPT ![r] = children[r]]
    /\ UNCHANGED <<commands, fields, children, switch>>

(* Mutant of clock_exits: the children are stopped, not the context.        *)
clock_exits_strategy_only(r) ==
    /\ running[r] = "cancelled"
    /\ running' = [running EXCEPT ![r] = "done"]
    /\ context' = [context EXCEPT ![r] = {}]
    /\ live' = [live EXCEPT ![r] = @ \ (context[r] \cap {"strategy"})]
    /\ UNCHANGED <<commands, fields, children, switch>>

clock_exits(r) ==
    /\ running[r] = "cancelled"
    /\ running' = [running EXCEPT ![r] = "done"]
    /\ context' = [context EXCEPT ![r] = {}]
    /\ live' = [live EXCEPT ![r] = @ \ context[r]]
    /\ UNCHANGED <<commands, fields, children, switch>>

(* Task.cancel: a task that has not begun never does.                       *)
Cancel(r) == running' = [running EXCEPT ![r] = CASE @ = "scheduled" -> "done"
                                                [] @ = "running"   -> "cancelled"
                                                [] OTHER -> @]

Ticking(r) == running[r] = "running" /\ "strategy" \in context[r]

----------------------------------------------------------------------------
(* stop_loop.                                                               *)
StopAt(s, place, market) == stops' = [stops EXCEPT ![s] = [at |-> place, market |-> market]]

(* The user's command, or the kill switch's; a script's on_stop comes first.*)
stop_command(s) ==
    /\ stops[s].at = "over"
    /\ StopAt(s, "stopping_script", None)
    /\ UNCHANGED <<in_start_check, start, fields, clocks, switch>>

CanRemove == strategy # None /\ strategy = clock /\ "strategy" \in children[clock]

(* Mutant of remove_iterator: the strategy stays in the clock's context.    *)
remove_child ==
    /\ CanRemove
    /\ children' = [children EXCEPT ![clock] = @ \ {"strategy"}]
    /\ UNCHANGED <<context, live>>

remove_iterator ==
    /\ CanRemove
    /\ children' = [children EXCEPT ![clock] = @ \ {"strategy"}]
    /\ context' = [context EXCEPT ![clock] = @ \ {"strategy"}]
    /\ live' = [live EXCEPT ![clock] = @ \ (context[clock] \cap {"strategy"})]

cancel_outstanding_orders(s) ==
    /\ stops[s].at = "stopping_script"
    /\ IF clock # None THEN remove_iterator ELSE UNCHANGED <<children, context, live>>
    /\ StopAt(s, "cancelling", markets)
    /\ UNCHANGED <<in_start_check, start, fields, running, switch>>

(* Removing an iterator the clock does not have raises, and the command     *)
(* ends there.                                                              *)
stop_raises(s) ==
    /\ stops[s].at = "stopping_script"
    /\ clock # None /\ ~CanRemove
    /\ StopAt(s, "over", None)
    /\ UNCHANGED <<in_start_check, start, fields, clocks, switch>>

(* Mutant of stop_finishes: the clock is dropped, but not cancelled.        *)
stop_forgets(s) ==
    /\ stops[s].at \in {"stopping_script", "cancelling"}
    /\ markets' \in IF stops[s].at = "cancelling" THEN {None, markets} ELSE {markets}
    /\ switch' = IF kill_switch # None /\ switch[kill_switch] = "on"
                   THEN [switch EXCEPT ![kill_switch] = "off"] ELSE switch
    /\ strategy_task' = None /\ strategy' = None /\ clock' = None
    /\ StopAt(s, "over", None)
    /\ UNCHANGED <<in_start_check, start, kill_switch, clocks>>

(* With skip_order_cancellation at once, else when the orders are cancelled *)
(* and two seconds are over; the markets go if every order was cancelled.   *)
stop_finishes(s) ==
    /\ stops[s].at \in {"stopping_script", "cancelling"}
    /\ markets' \in IF stops[s].at = "cancelling" THEN {None, markets} ELSE {markets}
    /\ IF strategy_task # None THEN Cancel(strategy_task) ELSE UNCHANGED running
    /\ switch' = IF kill_switch # None /\ switch[kill_switch] = "on"
                   THEN [switch EXCEPT ![kill_switch] = "off"] ELSE switch
    /\ strategy_task' = None /\ strategy' = None /\ clock' = None
    /\ StopAt(s, "over", None)
    /\ UNCHANGED <<in_start_check, start, kill_switch, children, context, live>>

(* The kill switch: start_loop begins, and its loop finds the threshold     *)
(* reached and issues a stop command.                                       *)
switch_starts(r) ==
    /\ switch[r] = "starting"
    /\ switch' = [switch EXCEPT ![r] = "on"]
    /\ UNCHANGED <<commands, fields, clocks>>

threshold_reached(r, s) ==
    /\ switch[r] = "on"
    /\ switch' = [switch EXCEPT ![r] = "off"]
    /\ stops[s].at = "over" /\ StopAt(s, "stopping_script", None)
    /\ UNCHANGED <<in_start_check, start, fields, clocks>>

StartStep ==
    \/ checks_fail \/ checks_raise \/ checks_pass \/ confirmed \/ declined
    \/ dangling_cancelled \/ dangling_raises \/ markets_ready
StopStep(s) == cancel_outstanding_orders(s) \/ stop_raises(s) \/ stop_finishes(s)
ClockStep(r) == run_clock(r) \/ clock_exits(r)

Next ==
    \/ start_command \/ StartStep
    \/ \E s \in Stops : stop_command(s) \/ StopStep(s)
    \/ \E r \in Runs : ClockStep(r) \/ switch_starts(r)
    \/ \E r \in Runs, s \in Stops : threshold_reached(r, s)

(* The event loop resumes what is ready; requests to cancel orders end.     *)
Fairness ==
    /\ \A s \in Stops : WF_vars(StopStep(s))
    /\ \A r \in Runs : WF_vars(ClockStep(r))

Spec     == Init /\ [][Next]_vars
FairSpec == Spec /\ Fairness

----------------------------------------------------------------------------
(* The types of all but the kill switch.                                    *)
Places    == {"over", "checking", "confirming", "cancelling_dangling", "waiting_ready"}
States    == {"new", "scheduled", "running", "cancelled", "done"}

TypeOK ==
    /\ start \in [at : Places, run : Some, asks : BOOLEAN]
    /\ stops \in [Stops -> [at : {"over", "stopping_script", "cancelling"}, market : Some]]
    /\ strategy \in Some /\ markets \in Some /\ clock \in Some /\ strategy_task \in Some
    /\ children \in [Runs -> SUBSET Iterators] /\ context \in [Runs -> SUBSET Iterators]
    /\ live \in [Runs -> SUBSET Iterators] /\ running \in [Runs -> States]
    /\ in_start_check \in BOOLEAN

(* What a clock started is stopped when its run is over: the strategy is    *)
(* stopped as it is removed, the markets when the context is left, and no   *)
(* network loop outlives its clock.                                         *)
OverIsStopped ==
    \A r \in Runs : /\ running[r] \in {"new", "scheduled", "done"} => live[r] = {}
                    /\ running[r] = "running" => live[r] = context[r]

(* However starts and stops are mixed, a clock that runs can be stopped, as *)
(* the application still knows its task: so two clocks never run side by    *)
(* side, and no two strategies trade at once.                               *)
RunningIsKnown ==
    \A r \in Runs : running[r] \in {"scheduled", "running"} => strategy_task = r

(* stop_command.py:36: the strategy is removed "from clock before           *)
(* cancelling orders, to prevent race condition where the strategy tries to *)
(* create more orders during cancellation".  It holds unless a start        *)
(* command has to ask the user, and the clock is created after that.        *)
StrategyAlwaysRests == \A s \in Stops : stops[s].market # None => ~Ticking(stops[s].market)

StrategyRestsDuringCancellation == ~start.asks => StrategyAlwaysRests

(* A bot whose orders are being cancelled stops.                            *)
CancellationsEndRuns ==
    \A s \in Stops, r \in Runs :
        stops[s].market = r /\ running[r] = "running" ~> running[r] = "done"

(* parser.py:79 says that stop will "Stop the current bot".  A stop command *)
(* that comes while the start command cancels dangling orders raises, and   *)
(* the bot starts.                                                          *)
StopsAreNotLost ==
    [][\A s \in Stops : stop_raises(s) => start.at # "cancelling_dangling"]_vars

(* start_command.py:78 tells the user who starts a bot that it "is already  *)
(* running - please run "stop" first"; but a start command that raised      *)
(* leaves every later one refused, with nothing running.                    *)
RefusedStartsHaveABot ==
    in_start_check => start.at # "over"
=============================================================================
