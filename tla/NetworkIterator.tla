--------------------------- MODULE NetworkIterator ---------------------------
(***************************************************************************)
(* core/network_iterator.pyx: the loop by which a connector follows whether *)
(* its exchange can be reached, started and stopped by the clock, and       *)
(* starting and stopping the connector's background tasks (start_network    *)
(* and stop_network, which do not suspend).                                 *)
(*                                                                         *)
(* The event loop resumes coroutines in the order in which they became      *)
(* ready.  Each c_start makes a loop of its own; they are numbered.         *)
(***************************************************************************)
EXTENDS Naturals, Sequences

CONSTANTS MaxStarts,   \* bound: calls of c_start
          StopsFirst,  \* whether start_network stops what runs, as ExchangePyBase's does
          Swallows     \* whether wait_for loses a cancellation, as before Python 3.12

ASSUME ConstantsAssumption == MaxStarts \in Nat /\ {StopsFirst, Swallows} \subseteq BOOLEAN

Loops == 1 .. MaxStarts
None  == 0
NetworkStatus == {"STOPPED", "NOT_CONNECTED", "CONNECTED"}
Failures      == {"timeout", "exception"}
Stop          == 0  \* in ready: the task of stop_network

VARIABLES
    _network_status,
    _check_network_task,  \* the loop c_stop would cancel
    loops,      \* loop -> [at, last_status, new_status]
    cancelled,  \* loops whose cancellation was requested
    ready,      \* what the event loop resumes next: loops and stop_network
    network,    \* whether the connector holds a set of background tasks
    orphans,    \* sets of background tasks it lost hold of
    up          \* whether the exchange answers

connector == <<network, orphans>>
vars == <<_network_status, _check_network_task, loops, cancelled, ready, connector, up>>

Init ==
    /\ _network_status = "STOPPED" /\ _check_network_task = None
    /\ loops = [l \in Loops |-> [at |-> "new", last_status |-> "STOPPED", new_status |-> "STOPPED"]]
    /\ cancelled = {} /\ ready = <<>>
    /\ network = FALSE /\ orphans = 0
    /\ up \in BOOLEAN

Queued(task) == \E i \in DOMAIN ready : ready[i] = task
Started      == {l \in Loops : loops[l].at # "new"}
LoopAt(l, place)        == loops' = [loops EXCEPT ![l].at = place]
ResumeAt(l, place)      == LoopAt(l, place) /\ ready' = Append(ready, l)

----------------------------------------------------------------------------
(* The connector.                                                           *)
stop_network == network' = FALSE /\ UNCHANGED orphans

(* Mutant of start_network: what runs is not stopped first.                 *)
start_network_again ==
    /\ network' = TRUE
    /\ orphans' = IF network THEN orphans + 1 ELSE orphans

start_network ==
    /\ network' = TRUE
    /\ orphans' = IF network /\ ~StopsFirst THEN orphans + 1 ELSE orphans

----------------------------------------------------------------------------
(* The clock.                                                               *)
c_start ==
    \E l \in Loops \ Started :
        /\ \A k \in 1 .. l - 1 : k \in Started
        /\ _check_network_task = None
        /\ ResumeAt(l, "starting")
        /\ _check_network_task' = l
        /\ _network_status' = "NOT_CONNECTED"
        /\ UNCHANGED <<cancelled, connector, up>>

(* A cancelled task becomes ready, if it is not already.                    *)
Woken(l) == IF Queued(l) THEN ready ELSE Append(ready, l)

(* Mutant of c_stop: the background tasks are left to the loop.             *)
c_stop_loop ==
    /\ _check_network_task # None
    /\ cancelled' = cancelled \cup {_check_network_task}
    /\ ready' = Woken(_check_network_task)
    /\ _check_network_task' = None
    /\ _network_status' = "STOPPED"
    /\ UNCHANGED <<loops, connector, up>>

c_stop ==
    /\ _check_network_task # None
    /\ cancelled' = cancelled \cup {_check_network_task}
    /\ ready' = Append(Woken(_check_network_task), Stop)
    /\ _check_network_task' = None
    /\ _network_status' = "STOPPED"
    /\ UNCHANGED <<loops, connector, up>>

----------------------------------------------------------------------------
(* _check_network_loop.                                                     *)
NextIs(l) == ready # <<>> /\ Head(ready) = l /\ ready' = Tail(ready)
LoopIs(l, place) == loops[l].at = place /\ l \notin cancelled

(* The loop reads the status and awaits the check.                          *)
begin_check(l) ==
    /\ NextIs(l)
    /\ LoopIs(l, "starting") \/ LoopIs(l, "rested")
    /\ loops' = [loops EXCEPT ![l].at = "checking", ![l].last_status = _network_status]
    /\ UNCHANGED <<_network_status, _check_network_task, cancelled, connector, up>>

(* Outside: the exchange answers, or does not, or in time; the check's own  *)
(* errors are answers too, but for those of a connector that does not catch *)
(* them.                                                                    *)
check_ends(l) ==
    /\ LoopIs(l, "checking")
    /\ \E answer \in IF up THEN {"CONNECTED"} ELSE {"NOT_CONNECTED"} \cup Failures :
           /\ loops' = [loops EXCEPT ![l].at = "checked", ![l].new_status = answer]
           /\ ready' = Append(ready, l)
    /\ UNCHANGED <<_network_status, _check_network_task, cancelled, connector, up>>

(* The cancellation of a loop whose check is done is lost in wait_for.      *)
Resumed(l) == loops[l].at = "checked" /\ (l \in cancelled => Swallows /\ loops[l].new_status # "timeout")

status_changes(l) ==
    /\ _network_status' = loops[l].new_status
    /\ IF loops[l].new_status = "CONNECTED" THEN start_network ELSE stop_network

check_returns(l) ==
    /\ NextIs(l) /\ Resumed(l)
    /\ loops[l].new_status \notin Failures
    /\ IF loops[l].new_status = loops[l].last_status
         THEN UNCHANGED <<_network_status, connector>>
         ELSE status_changes(l)
    /\ LoopAt(l, "sleeping") /\ cancelled' = cancelled \ {l}
    /\ UNCHANGED <<_check_network_task, up>>

(* Mutant of check_fails: the exception ends the loop.                      *)
check_fails_for_good(l) ==
    /\ NextIs(l) /\ Resumed(l)
    /\ loops[l].new_status \in Failures
    /\ _network_status' = "NOT_CONNECTED"
    /\ LoopAt(l, IF loops[l].new_status = "exception" THEN "over" ELSE "sleeping")
    /\ UNCHANGED <<_check_network_task, cancelled, connector, up>>

check_fails(l) ==
    /\ NextIs(l) /\ Resumed(l)
    /\ loops[l].new_status \in Failures
    /\ _network_status' = "NOT_CONNECTED"
    /\ LoopAt(l, "sleeping") /\ cancelled' = cancelled \ {l}
    /\ UNCHANGED <<_check_network_task, connector, up>>

sleep_ends(l) ==
    /\ LoopIs(l, "sleeping")
    /\ ResumeAt(l, "rested")
    /\ UNCHANGED <<_network_status, _check_network_task, cancelled, connector, up>>

loop_cancelled(l) ==
    /\ NextIs(l) /\ l \in cancelled /\ ~Resumed(l)
    /\ LoopAt(l, "over")
    /\ UNCHANGED <<_network_status, _check_network_task, cancelled, connector, up>>

run_stop_network ==
    /\ NextIs(Stop)
    /\ stop_network
    /\ UNCHANGED <<_network_status, _check_network_task, loops, cancelled, up>>

exchange_flips ==
    /\ up' = ~up
    /\ UNCHANGED <<_network_status, _check_network_task, loops, cancelled, ready, connector>>

LoopStep(l) ==
    begin_check(l) \/ check_ends(l) \/ check_returns(l) \/ check_fails(l) \/ sleep_ends(l) \/ loop_cancelled(l)

Next ==
    \/ c_start \/ c_stop \/ run_stop_network \/ exchange_flips
    \/ \E l \in Loops : LoopStep(l)

(* The event loop resumes what is ready, sleeps end and checks time out.    *)
Fairness == WF_vars(run_stop_network) /\ \A l \in Loops : WF_vars(LoopStep(l))

Spec     == Init /\ [][Next]_vars
FairSpec == Spec /\ Fairness

----------------------------------------------------------------------------
Places == {"new", "starting", "checking", "checked", "sleeping", "rested", "over"}
LoopRecord == [at : Places, last_status : NetworkStatus, new_status : NetworkStatus \cup Failures]

TypeOK ==
    /\ _network_status \in NetworkStatus
    /\ _check_network_task \in {None} \cup Loops
    /\ loops \in [Loops -> LoopRecord]
    /\ cancelled \subseteq Loops
    /\ ready \in Seq({Stop} \cup Loops)
    /\ network \in BOOLEAN /\ orphans \in Nat /\ up \in BOOLEAN

(* exchange_py_base.py:679: stop_network "is executed when the connector is *)
(* stopped" and "stops all background tasks that require the connection     *)
(* with the exchange": once it ran, a stopped connector has none, and none  *)
(* come back.                                                               *)
StoppedIsStopped ==
    _check_network_task = None /\ ~Queued(Stop) => ~network

(* A connector that reports CONNECTED has its background tasks, and however *)
(* the status flickers and starts and stops follow each other no other set  *)
(* of them is forgotten while it runs: two polling loops would work on the  *)
(* same orders.                                                             *)
OneSetOfTasks == (_network_status = "CONNECTED" => network) /\ orphans = 0

(* An exchange that answers for good is found, after any failure.           *)
ExchangeIsFound ==
    <>[](up /\ _check_network_task # None) => <>[](_network_status = "CONNECTED" /\ network)
=============================================================================
