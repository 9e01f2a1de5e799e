------------------------ MODULE ClientOrderTracker ------------------------
(***************************************************************************)
(* The order tracker every ExchangePyBase connector owns                    *)
(* (connector/client_order_tracker.py), under the most general caller: any  *)
(* report, in any order, any number of times, and order objects that the    *)
(* code keeps using after a suspension.                                     *)
(*                                                                         *)
(* process_order_update only schedules an asyncio task; the event loop runs *)
(* scheduled tasks first in, first out (tasks).  A FILLED report for an     *)
(* order that is not done suspends its task until every fill has arrived or *)
(* five seconds pass (waiting); all waits have the same timeout, so they    *)
(* time out in the order they began.                                        *)
(***************************************************************************)
EXTENDS InFlightOrder, Sequences, Functions

CONSTANTS ReportedStates,   \* the states the callers' updates can carry
          LostOrderLimit,   \* lost_order_count_limit
          MaxTasks          \* bound: updates scheduled or waiting at a time

ASSUME ReportedAssumption == ReportedStates \subseteq OpenStates \cup FinalStates
ASSUME LimitAssumption == LostOrderLimit \in Nat
ASSUME MaxTasksAssumption == MaxTasks \in Nat \ {0}

VARIABLES
    order,        \* the InFlightOrder object of each client id
    started,      \* client ids that were ever tracked
    active,       \* keys of _in_flight_orders
    cached,       \* keys of _cached_orders (a TTL cache)
    lost,         \* keys of _lost_orders
    not_found,    \* _order_not_found_records, 0 where there is no record
    tasks,        \* scheduled _process_order_update tasks
    waiting,      \* tasks suspended in wait_until_completely_filled
    notified,     \* the kinds of market event triggered for each order
    fill_events   \* OrderFilled events per trade: 0, 1, or 2 for "repeated"

containers == <<active, cached, lost, not_found>>
history    == <<notified, fill_events>>
vars == <<order, started, active, cached, lost, not_found, tasks, waiting,
          notified, fill_events>>

TerminalEvents == {"Cancelled", "Completed", "Failure"}
EventKinds     == {"Created"} \cup TerminalEvents

Init ==
    /\ order = [o \in Orders |-> NewInFlightOrder(o)]
    /\ started = {} /\ active = {} /\ cached = {} /\ lost = {}
    /\ not_found = [o \in Orders |-> 0]
    /\ tasks = <<>> /\ waiting = <<>>
    /\ notified = [o \in Orders |-> {}]
    /\ fill_events = [o \in Orders |-> [t \in Trades |-> 0]]

----------------------------------------------------------------------------
(* Lookups.  all_orders is active and cached; a client id wins, then the    *)
(* exchange id is searched among the objects that know theirs.              *)
Names(u, orders) ==
    u.order \in orders /\ ( \/ u.client_order_id
                            \/ u.exchange_order_id /\ order[u.order].exchange_order_id )

fetch_order(u)      == Names(u, active \cup cached)
fetch_lost_order(u) == Names(u, lost)
all_fillable_orders  == active \cup cached \cup lost
all_updatable_orders == active \cup lost

(* _trigger_order_creation and _trigger_order_completion: the events of an  *)
(* update that changed the object from old to new.                          *)
CreatedEvent(old, new) ==
    IF /\ old.state = "PENDING_CREATE"
       /\ new.state \notin {"PENDING_CREATE", "CANCELED", "FAILED", "PENDING_CANCEL"}
      THEN {"Created"} ELSE {}

(* Mutant of CompletionEvent: failures are not announced.                   *)
CompletionEventUnlessFailed(new) ==
    IF is_open(new) THEN {} ELSE IF is_cancelled(new) THEN {"Cancelled"}
    ELSE IF is_filled(new) THEN {"Completed"} ELSE {}

CompletionEvent(new) ==
    IF is_open(new) THEN {}
    ELSE IF is_cancelled(new) THEN {"Cancelled"}
    ELSE IF is_filled(new) THEN {"Completed"}
    ELSE IF is_failure(new) THEN {"Failure"}
    ELSE {}

EventsOf(old, new) == CreatedEvent(old, new) \cup CompletionEvent(new)

updated(old, new) == old # new

(* Mutant of Untracked: failed orders stay tracked.                         *)
UntrackedUnlessFailed(u) ==
    LET old == order[u.order]
        new == update_with_order_update(old, u)
    IN IF updated(old, new) /\ (is_cancelled(new) \/ is_filled(new))
         THEN active \cap {u.order} ELSE {}

(* stop_tracking_order, when the update closed an order still tracked.      *)
Untracked(u) ==
    LET old == order[u.order]
        new == update_with_order_update(old, u)
    IN IF updated(old, new) /\ ~is_open(new) THEN active \cap {u.order} ELSE {}

(* The part of _process_order_update after the wait: it changes the object  *)
(* it holds a reference to, wherever that object is now.                    *)
ApplyUpdate(u) ==
    LET old == order[u.order]
        new == update_with_order_update(old, u)
    IN /\ order' = [order EXCEPT ![u.order] = new]
       /\ notified' = [notified EXCEPT ![u.order] =
                          @ \cup (IF updated(old, new) THEN EventsOf(old, new) ELSE {})]
       /\ active' = active \ Untracked(u)
       /\ cached' = cached \cup Untracked(u)
       /\ not_found' = [o \in Orders |-> IF o \in Untracked(u) THEN 0 ELSE not_found[o]]
       /\ UNCHANGED <<lost, fill_events>>

(* Mutant of ForgetLost: an order leaving the lost list is cached again.    *)
ForgetLostIntoCache(u) ==
    /\ ~fetch_order(u) /\ fetch_lost_order(u)
    /\ lost' = IF u.new_state \in FinalStates THEN lost \ {u.order} ELSE lost
    /\ cached' = cached \cup (lost \ lost')
    /\ UNCHANGED <<order, active, not_found, notified, fill_events>>

(* An update for an order that is only in the lost list: a final state      *)
(* removes it, without touching the object.                                 *)
ForgetLost(u) ==
    /\ ~fetch_order(u) /\ fetch_lost_order(u)
    /\ lost' = IF u.new_state \in FinalStates THEN lost \ {u.order} ELSE lost
    /\ UNCHANGED <<order, active, cached, not_found, notified, fill_events>>

IgnoreUpdate(u) ==
    /\ ~fetch_order(u) /\ ~fetch_lost_order(u)
    /\ UNCHANGED <<order, containers, history>>

----------------------------------------------------------------------------
(* start_tracking_order, from _create_order: a fresh object.                *)
start_tracking_order(o) ==
    /\ o \notin started
    /\ started' = started \cup {o}
    /\ active' = active \cup {o}
    /\ order' = [order EXCEPT ![o] = NewInFlightOrder(o)]
    /\ UNCHANGED <<cached, lost, not_found, tasks, waiting, history>>

(* process_order_update: the update becomes a task of the event loop.       *)
process_order_update(u) ==
    /\ u.order \in started /\ u.new_state \in ReportedStates
    /\ Len(tasks) + Len(waiting) < MaxTasks
    /\ tasks' = Append(tasks, u)
    /\ UNCHANGED <<order, started, containers, waiting, history>>

(* A FILLED report for an order that is not done waits for its fills.       *)
MustWait(u) == u.new_state = "FILLED" /\ ~is_done(order[u.order])

BeginWait ==
    /\ tasks # <<>> /\ fetch_order(Head(tasks)) /\ MustWait(Head(tasks))
    /\ waiting' = Append(waiting, Head(tasks))
    /\ tasks' = Tail(tasks)
    /\ UNCHANGED <<order, started, containers, history>>

RunTask ==
    /\ tasks # <<>>
    /\ LET u == Head(tasks) IN
         \/ fetch_order(u) /\ ~MustWait(u) /\ ApplyUpdate(u)
         \/ ForgetLost(u)
         \/ IgnoreUpdate(u)
    /\ tasks' = Tail(tasks)
    /\ UNCHANGED <<started, waiting>>

(* The wait ends: the fills arrived (in whatever order the waiters run), or *)
(* the oldest wait timed out.  The fetched object is used as it is now.     *)
StopWaiting(i) ==
    waiting' = [k \in 1 .. Len(waiting) - 1 |->
                   IF k < i THEN waiting[k] ELSE waiting[k + 1]]

FillsArrived ==
    \E i \in 1 .. Len(waiting) :
        /\ completely_filled(order[waiting[i].order])
        /\ ApplyUpdate(waiting[i]) /\ StopWaiting(i)
        /\ UNCHANGED <<started, tasks>>

(* Mutant of WaitTimesOut: the timeout ends the task, and its update.       *)
WaitGivesUp ==
    /\ waiting # <<>>
    /\ StopWaiting(1)
    /\ UNCHANGED <<order, started, containers, history, tasks>>

WaitTimesOut ==
    /\ waiting # <<>>
    /\ ApplyUpdate(Head(waiting)) /\ StopWaiting(1)
    /\ UNCHANGED <<started, tasks>>

(* process_trade_update: active, cached and lost orders accept fills.       *)
process_trade_update(o, t) ==
    LET old == order[o]
        new == update_with_trade_update(old, t)
    IN /\ o \in all_fillable_orders
       /\ order' = [order EXCEPT ![o] = new]
       /\ fill_events' = IF old.executed < new.executed
                           THEN [fill_events EXCEPT ![o][t] = IF @ = 0 THEN 1 ELSE 2]
                           ELSE fill_events
       /\ UNCHANGED <<started, containers, tasks, waiting, notified>>

(* process_order_not_found on an active order: count, and past the limit    *)
(* fail the order, take it out of the cache and call it lost.  Its FAILED   *)
(* update runs inside the call: only FILLED updates suspend.                *)
FailedUpdate(o) == [order |-> o, client_order_id |-> TRUE,
                    exchange_order_id |-> FALSE, new_state |-> "FAILED"]

GivesUpOn(o) == /\ not_found[o] + 1 > LostOrderLimit
                /\ order[o].state \notin FinalStates

count_not_found(o) ==
    /\ o \in active /\ ~GivesUpOn(o)
    /\ not_found' = [not_found EXCEPT ![o] = @ + 1]
    /\ UNCHANGED <<order, started, active, cached, lost, tasks, waiting, history>>

(* Mutant of declare_lost: the order is not taken out of the cache.         *)
declare_lost_but_cached(o) ==
    LET failed == [order[o] EXCEPT !.state = "FAILED"] IN
    /\ o \in active /\ GivesUpOn(o)
    /\ order' = [order EXCEPT ![o] = failed]
    /\ notified' = [notified EXCEPT ![o] = @ \cup EventsOf(order[o], failed)]
    /\ active' = active \ {o}
    /\ cached' = cached \cup {o}
    /\ lost' = lost \cup {o}
    /\ not_found' = [not_found EXCEPT ![o] = 0]
    /\ UNCHANGED <<started, tasks, waiting, fill_events>>

declare_lost(o) ==
    LET failed == [order[o] EXCEPT !.state = "FAILED"] IN
    /\ o \in active /\ GivesUpOn(o)
    /\ order' = [order EXCEPT ![o] = failed]
    /\ notified' = [notified EXCEPT ![o] = @ \cup EventsOf(order[o], failed)]
    /\ active' = active \ {o}
    /\ cached' = cached \ {o}
    /\ lost' = lost \cup {o}
    /\ not_found' = [not_found EXCEPT ![o] = 0]
    /\ UNCHANGED <<started, tasks, waiting, fill_events>>

(* process_order_not_found on a lost order: a FAILED update, which removes  *)
(* it from the lost list (unless the cache still holds the client id).      *)
lost_not_found(o) ==
    /\ o \in lost \ active
    /\ IF fetch_order(FailedUpdate(o)) THEN ApplyUpdate(FailedUpdate(o))
                                       ELSE ForgetLost(FailedUpdate(o))
    /\ UNCHANGED <<started, tasks, waiting>>

(* The cache drops an entry: its time to live passed, or it is full.        *)
expire_cached(o) ==
    /\ o \in cached
    /\ cached' = cached \ {o}
    /\ UNCHANGED <<order, started, active, lost, not_found, tasks, waiting, history>>

Next ==
    \/ \E o \in Orders : \/ start_tracking_order(o)
                         \/ count_not_found(o)
                         \/ declare_lost(o)
                         \/ lost_not_found(o)
                         \/ expire_cached(o)
                         \/ \E t \in Trades : process_trade_update(o, t)
    \/ \E u \in OrderUpdate : process_order_update(u)
    \/ BeginWait \/ RunTask \/ FillsArrived \/ WaitTimesOut

(* The event loop runs every scheduled task, and asyncio.wait_for fires its *)
(* timeout; nothing is promised of the callers.                             *)
Fairness == WF_vars(BeginWait \/ RunTask) /\ WF_vars(WaitTimesOut)

Spec     == Init /\ [][Next]_vars
FairSpec == Spec /\ Fairness

----------------------------------------------------------------------------
TypeOK ==
    /\ order \in [Orders -> Object]
    /\ started \in SUBSET Orders
    /\ active \in SUBSET Orders /\ cached \in SUBSET Orders /\ lost \in SUBSET Orders
    /\ not_found \in [Orders -> Nat]
    /\ tasks \in Seq(OrderUpdate) /\ waiting \in Seq(OrderUpdate)
    /\ notified \in [Orders -> SUBSET EventKinds]
    /\ fill_events \in [Orders -> [Trades -> 0 .. 2]]

(* Every tracked order is open: no interleaving of reports, suspended tasks *)
(* and lookup failures leaves a closed order among the active ones, where   *)
(* polling, cancel_all and the strategy would keep working on it.           *)
ActiveAreOpen == \A o \in active : is_open(order[o])

(* An order is in one container at most: the dictionaries are merged with   *)
(* {**active, **cached, **lost}, so a second copy would shadow the first,   *)
(* and `del _cached_orders[id]` relies on finding its entry.                *)
TrackedOnce ==
    /\ active \cap cached = {} /\ active \cap lost = {} /\ cached \cap lost = {}
    /\ active \cup cached \cup lost \subseteq started

(* Lookup failures are only remembered for active orders and never exceed   *)
(* the limit, however the calls interleave with updates: the call that      *)
(* passes it always declares the order lost.                                *)
NotFoundBounded ==
    \A o \in Orders : /\ not_found[o] <= LostOrderLimit
                      /\ not_found[o] > 0 => o \in active

(* An order that left the active ones was announced as ended, and no active *)
(* order was: a strategy neither waits for an event that never comes nor    *)
(* forgets an order that is still live.                                     *)
EndedAreAnnounced ==
    \A o \in started : o \in active <=> notified[o] \cap TerminalEvents = {}

(* The executed amount is the sum of the distinct trades, and each of these *)
(* was announced exactly once, wherever the order was when it came.         *)
FillsAddUp ==
    \A o \in Orders :
        /\ order[o].executed = SumFunctionOnSet(FillAmount, order[o].fills)
        /\ \A t \in Trades : fill_events[o][t] = IF t \in order[o].fills THEN 1 ELSE 0

(* client_order_tracker.py:302 says that a lost order that officially       *)
(* reaches a final state is removed from the lost list.  A FILLED update    *)
(* that was waiting for its fills when the order was declared lost changes  *)
(* the object to FILLED and leaves it in the list.                          *)
FinalLostOrderIsRemoved ==
    [][\A o \in lost : order'[o].state \in FinalStates /\ order'[o].state # order[o].state
                           => o \notin lost']_vars

(* A final report handed to process_order_update with the client id ends    *)
(* the tracking of the order, whatever happens while its task is scheduled  *)
(* or waits for fills.                                                      *)
FinalReportPending(o) ==
    \E u \in OrderUpdate : /\ u.order = o /\ u.client_order_id
                           /\ u.new_state \in FinalStates
                           /\ \E i \in 1 .. Len(tasks) : tasks[i] = u
FinalReportEndsTracking ==
    \A o \in Orders : FinalReportPending(o) ~> o \notin active

(* The tracker implements the life cycle its users rely on.                 *)
phaseOf(o) == CASE o \in active    -> "tracked"
                [] o \in lost \ active -> "lost"
                [] o \in cached \ (active \cup lost) -> "archived"
                [] o \in started \ (active \cup lost \cup cached) -> "forgotten"
                [] OTHER -> "new"

Lifecycle == INSTANCE OrderLifecycle
    WITH phase <- [o \in Orders |-> phaseOf(o)],
         told  <- {o \in Orders : notified[o] \cap TerminalEvents # {}}
ImplementsLifecycle == Lifecycle!LSpec
=============================================================================
