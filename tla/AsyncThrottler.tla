-------------------------- MODULE AsyncThrottler --------------------------
(***************************************************************************)
(* The rate limiter in front of every API request                           *)
(* (core/api_throttler).  Coroutines enter AsyncRequestContext.acquire,     *)
(* which flushes the shared log, checks the capacity of every limit the     *)
(* request counts against, and either logs the request and returns or       *)
(* sleeps and tries again.                                                  *)
(*                                                                         *)
(* Neither of the two sections that hold the asyncio lock awaits anything,  *)
(* so the lock is always free when a coroutine of the loop asks for it, and *)
(* taking it twice does not suspend: one attempt is one step.  Time moves   *)
(* in ticks between the steps; an entry of the log keeps its age.           *)
(***************************************************************************)
EXTENDS Integers, Sequences

CONSTANTS Requests,       \* the requests made, each once
          LimitIds,       \* the limits of the connector
          Limit,          \* calls * weight per interval, as configured
          Interval,       \* time_interval of each limit, in ticks
          Margin,         \* time_interval * safety margin, in ticks
          Counts,         \* per request: the limits it counts against, with weights
          LimitsPct,      \* limits_share_percentage
          RetryInterval   \* ticks between two attempts

ASSUME LimitAssumption ==
    /\ Limit \in [LimitIds -> Nat \ {0}] /\ Interval \in [LimitIds -> Nat]
    /\ Margin \in [LimitIds -> Nat] /\ RetryInterval \in Nat \ {0}
    /\ LimitsPct \in 1 .. 100

(* A request counts once against a limit, as the connectors configure it    *)
(* (all but Tegro, which links one limit to itself).                        *)
ASSUME CountsAssumption ==
    \A r \in Requests :
        /\ Counts[r] \in Seq([limit : LimitIds, weight : Nat \ {0}])
        /\ \A i, j \in 1 .. Len(Counts[r]) : Counts[r][i].limit = Counts[r][j].limit => i = j

VARIABLES task_logs,   \* the shared log: [limit, weight, age]
          waiting,     \* requests asleep in acquire
          sleep,       \* ticks until a sleeping request tries again
          granted,     \* requests whose acquire returned
          sent         \* history: per limit and age, the weight of the calls not older

throttler == <<task_logs, waiting, sleep, granted, sent>>

(* set_rate_limits: the share of the limit this instance may use.           *)
limit_of(l) == LET share == (Limit[l] * LimitsPct) \div 100
               IN IF share > 1 THEN share ELSE 1

OldAge(l) == Interval[l] + Margin[l]

ThrottlerInit ==
    /\ task_logs = <<>>
    /\ sent = [l \in LimitIds |-> [age \in 0 .. OldAge(l) |-> 0]]
    /\ waiting = {} /\ granted = {}
    /\ sleep = [r \in Requests |-> 0]

----------------------------------------------------------------------------
(* Mutant of expired: an entry is dropped when it reaches the interval.     *)
expires_early(task) == task.age >= OldAge(task.limit)

(* flush removes from the list it is iterating over: list.remove takes the  *)
(* first entry that equals the one in hand, and the iterator skips the one  *)
(* that moves up.                                                           *)
expired(task) == task.age > OldAge(task.limit)

first_equal(log, i) == CHOOSE j \in 1 .. i : log[j] = log[i] /\ \A k \in 1 .. j - 1 : log[k] # log[i]

without(log, j) == SubSeq(log, 1, j - 1) \o SubSeq(log, j + 1, Len(log))

flush(log) ==
    LET visit(l, i) == IF i <= Len(l) /\ expired(l[i]) THEN without(l, first_equal(l, i)) ELSE l
        after[i \in 0 .. Len(log)] == IF i = 0 THEN log ELSE visit(after[i - 1], i)
    IN after[Len(log)]

(* The weight of the entries of a limit that are not older than an age.     *)
used(log, l, age) ==
    LET sum[i \in 0 .. Len(log)] ==
            IF i = 0 THEN 0
            ELSE sum[i - 1] + IF log[i].limit = l /\ log[i].age <= age THEN log[i].weight ELSE 0
    IN sum[Len(log)]

(* within_capacity: each limit is checked on its own, over the entries of   *)
(* the log that are young enough.                                           *)
capacity_used(log, l) == used(log, l, OldAge(l))

(* Mutant of within_capacity: the last call of the limit is never used.     *)
below_capacity(log, r) ==
    \A i \in 1 .. Len(Counts[r]) :
        capacity_used(log, Counts[r][i].limit) + Counts[r][i].weight < limit_of(Counts[r][i].limit)

within_capacity(log, r) ==
    \A i \in 1 .. Len(Counts[r]) :
        capacity_used(log, Counts[r][i].limit) + Counts[r][i].weight <= limit_of(Counts[r][i].limit)

Entries(r) == [i \in 1 .. Len(Counts[r]) |->
                 [limit |-> Counts[r][i].limit, weight |-> Counts[r][i].weight, age |-> 0]]

(* One attempt of acquire, by a new request or by one that wakes up.        *)
attempt(r) ==
    LET log == flush(task_logs) IN
    \/ /\ within_capacity(log, r)
       /\ task_logs' = log \o Entries(r)
       /\ sent' = [l \in LimitIds |->
                     [age \in 0 .. OldAge(l) |-> sent[l][age] + used(Entries(r), l, 0)]]
       /\ granted' = granted \cup {r}
       /\ waiting' = waiting \ {r}
       /\ UNCHANGED sleep
    \/ /\ ~within_capacity(log, r)
       /\ task_logs' = log
       /\ waiting' = waiting \cup {r}
       /\ sleep' = [sleep EXCEPT ![r] = RetryInterval]
       /\ UNCHANGED <<granted, sent>>

execute_task(r) == r \notin granted /\ r \notin waiting /\ attempt(r)

retry(r) == r \in waiting /\ sleep[r] = 0 /\ attempt(r)

(* Time passes.  Ages stop at the first value that is too old to matter.    *)
Tick ==
    /\ task_logs' = [i \in 1 .. Len(task_logs) |->
                        [task_logs[i] EXCEPT !.age = IF expired(task_logs[i]) THEN @ ELSE @ + 1]]
    /\ sent' = [l \in LimitIds |->
                  [age \in 0 .. OldAge(l) |-> IF age = 0 THEN 0 ELSE sent[l][age - 1]]]
    /\ sleep' = [r \in Requests |-> IF sleep[r] > 0 THEN sleep[r] - 1 ELSE 0]
    /\ UNCHANGED <<waiting, granted>>

ThrottlerNext == Tick \/ \E r \in Requests : execute_task(r) \/ retry(r)

(* asyncio.sleep returns and time passes; nobody has to make a request.     *)
ThrottlerFairness == WF_throttler(Tick) /\ \A r \in Requests : WF_throttler(retry(r))

ThrottlerSpec == ThrottlerInit /\ [][ThrottlerNext]_throttler /\ ThrottlerFairness

----------------------------------------------------------------------------
Task == [limit : LimitIds, weight : Nat, age : Nat]

ThrottlerTypeOK ==
    /\ task_logs \in Seq(Task)
    /\ \A l \in LimitIds, age \in Nat : age <= OldAge(l) => sent[l][age] \in Nat
    /\ waiting \subseteq Requests /\ granted \subseteq Requests
    /\ sleep \in [Requests -> 0 .. RetryInterval]

(* In no window as long as a limit's interval plus its margin do the calls  *)
(* that count against it weigh more than the share of the limit: entries    *)
(* flush skips, retries of several sleepers at once and calls logged in     *)
(* several limits included.                                                 *)
CallsStayWithinLimits == \A l \in LimitIds : sent[l][OldAge(l)] <= limit_of(l)

(* Every request gets its turn: no waiter starves while others retry and    *)
(* requests that count against several limits compete with single ones.     *)
EveryRequestIsGranted ==
    \A r \in Requests : r \in waiting ~> r \in granted
=============================================================================
