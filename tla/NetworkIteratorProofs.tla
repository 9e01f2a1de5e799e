----------------------- MODULE NetworkIteratorProofs -----------------------
(***************************************************************************)
(* The network loop with any number of starts, for a connector whose        *)
(* start_network stops what runs and a wait_for that keeps cancellations.   *)
(* The argument: at most one loop is neither cancelled nor over, the one    *)
(* c_stop would cancel; and since the event loop resumes in order, that     *)
(* loop has not yet begun its first check while a stop_network is queued.   *)
(***************************************************************************)
EXTENDS NetworkIterator, TLAPS

(* No set of background tasks is forgotten.                                 *)
Types == TypeOK /\ orphans = 0

(* Only the loop the connector knows runs on.                               *)
OneLoopRuns ==
    /\ \A l \in Loops : loops[l].at \notin {"new", "over"} /\ l \notin cancelled => l = _check_network_task
    /\ _check_network_task # None =>
          _check_network_task \notin cancelled /\ loops[_check_network_task].at \notin {"new", "over"}
    /\ \A l \in Loops : l \in cancelled \/ Queued(l) => loops[l].at # "new"

(* What c_stop left to do is done before the next loop begins.              *)
StopsComeFirst ==
    Queued(Stop) =>
        /\ _network_status # "CONNECTED"
        /\ _check_network_task # None =>
              /\ loops[_check_network_task].at = "starting"
              /\ \A i, j \in 1 .. Len(ready) : ready[i] = Stop /\ ready[j] = _check_network_task => i < j

TasksAreKnown ==
    /\ network => _check_network_task # None \/ Queued(Stop)
    /\ _network_status = "CONNECTED" => network /\ _check_network_task # None

IInv == Types /\ OneLoopRuns /\ StopsComeFirst /\ TasksAreKnown

----------------------------------------------------------------------------
LEMMA AppendFacts ==
    ASSUME NEW S, NEW s \in Seq(S), NEW e \in S
    PROVE  /\ Append(s, e) \in Seq(S) /\ Len(s) \in Nat /\ Len(Append(s, e)) = Len(s) + 1
           /\ Append(s, e)[Len(s) + 1] = e
           /\ \A i \in 1 .. Len(s) : Append(s, e)[i] = s[i]
  OBVIOUS

LEMMA DomainIs == ASSUME NEW S, NEW s \in Seq(S) PROVE DOMAIN s = 1 .. Len(s)
  OBVIOUS

LEMMA TailFacts ==
    ASSUME NEW S, NEW s \in Seq(S), s # <<>>
    PROVE  /\ Tail(s) \in Seq(S) /\ Len(s) \in Nat \ {0} /\ Len(Tail(s)) = Len(s) - 1
           /\ Head(s) = s[1]
           /\ \A i \in 1 .. Len(s) - 1 : Tail(s)[i] = s[i + 1]
  OBVIOUS

LEMMA QueuedIs == Types => \A t : Queued(t) <=> \E i \in 1 .. Len(ready) : ready[i] = t
  BY DEF Types, TypeOK, Queued

LEMMA InitIInv == Init => IInv
  <1> SUFFICES ASSUME Init PROVE IInv
    OBVIOUS
  <1>1. ready = <<>> /\ ready \in Seq({Stop} \cup Loops) /\ Len(ready) = 0
    BY DEF Init
  <1>2. Types
    BY <1>1 DEF Init, Types, TypeOK, None, Places, LoopRecord, NetworkStatus
  <1>3. \A t : ~Queued(t)
    BY <1>1, <1>2, QueuedIs
  <1>4. OneLoopRuns
    BY <1>3 DEF Init, OneLoopRuns, None
  <1>5. StopsComeFirst /\ TasksAreKnown
    BY <1>3 DEF Init, StopsComeFirst, TasksAreKnown
  <1> QED BY <1>2, <1>4, <1>5 DEF IInv

(* No loop is the task of stop_network.                                     *)
LEMMA LoopsAreNumbered == \A l \in Loops : l # Stop /\ l # None
  BY ConstantsAssumption DEF Loops, Stop, None

(* What the queue holds after a step.                                       *)
LEMMA QueueGrows ==
    ASSUME Types, NEW t \in {Stop} \cup Loops, ready' = Append(ready, t)
    PROVE  /\ ready' \in Seq({Stop} \cup Loops) /\ Len(ready) \in Nat
           /\ Len(ready') = Len(ready) + 1 /\ ready'[Len(ready) + 1] = t
           /\ \A i \in 1 .. Len(ready) : ready'[i] = ready[i]
           /\ \A u : Queued(u)' <=> Queued(u) \/ u = t
  <1> DEFINE S == {Stop} \cup Loops
  <1>1. ready \in Seq(S) /\ t \in S
    BY DEF Types, TypeOK
  <1> HIDE DEF S
  <1>2. /\ Append(ready, t) \in Seq(S) /\ Len(ready) \in Nat /\ Len(Append(ready, t)) = Len(ready) + 1
        /\ Append(ready, t)[Len(ready) + 1] = t
        /\ \A i \in 1 .. Len(ready) : Append(ready, t)[i] = ready[i]
    BY <1>1, AppendFacts
  <1>3. /\ ready' \in Seq(S) /\ Len(ready) \in Nat /\ Len(ready') = Len(ready) + 1
        /\ ready'[Len(ready) + 1] = t /\ \A i \in 1 .. Len(ready) : ready'[i] = ready[i]
    BY <1>2
  <1>4. \A u : Queued(u)' <=> \E i \in 1 .. Len(ready') : ready'[i] = u
    BY <1>3 DEF Queued
  <1>5. \A i \in 1 .. Len(ready') : i \in 1 .. Len(ready) \/ i = Len(ready) + 1
    BY <1>3
  <1>6. Len(ready) + 1 \in 1 .. Len(ready') /\ \A i \in 1 .. Len(ready) : i \in 1 .. Len(ready')
    BY <1>3
  <1>7. \A u : Queued(u)' <=> Queued(u) \/ u = t
    BY <1>3, <1>4, <1>5, <1>6, QueuedIs
  <1> QED BY <1>3, <1>7 DEF S

LEMMA QueueShrinks ==
    ASSUME Types, NEW t, ready # <<>>, Head(ready) = t, ready' = Tail(ready)
    PROVE  /\ ready' \in Seq({Stop} \cup Loops) /\ Len(ready') \in Nat /\ Len(ready) = Len(ready') + 1
           /\ ready[1] = t /\ 1 \in 1 .. Len(ready)
           /\ \A i \in 1 .. Len(ready') : ready'[i] = ready[i + 1] /\ i + 1 \in 1 .. Len(ready)
           /\ \A u : Queued(u) <=> Queued(u)' \/ u = t
  <1> DEFINE S == {Stop} \cup Loops
  <1>1. ready \in Seq(S)
    BY DEF Types, TypeOK
  <1> HIDE DEF S
  <1>2. /\ Tail(ready) \in Seq(S) /\ Len(ready) \in Nat \ {0} /\ Len(Tail(ready)) = Len(ready) - 1
        /\ Head(ready) = ready[1]
        /\ \A i \in 1 .. Len(ready) - 1 : Tail(ready)[i] = ready[i + 1]
    BY <1>1, TailFacts
  <1>3. /\ ready' \in Seq(S) /\ Len(ready') \in Nat /\ Len(ready) = Len(ready') + 1
        /\ ready[1] = t /\ 1 \in 1 .. Len(ready)
        /\ \A i \in 1 .. Len(ready') : ready'[i] = ready[i + 1] /\ i + 1 \in 1 .. Len(ready)
    BY <1>2
  <1>4. \A u : Queued(u)' <=> \E i \in 1 .. Len(ready') : ready'[i] = u
    <2>1. ready' \in Seq(S)
      BY <1>3
    <2>2. DOMAIN ready' = 1 .. Len(ready')
      BY <2>1, DomainIs
    <2> QED BY <2>2 DEF Queued
  <1>5. ASSUME NEW i \in 1 .. Len(ready), i # 1
        PROVE  \E j \in 1 .. Len(ready') : ready'[j] = ready[i]
    <2>1. i - 1 \in 1 .. Len(ready') /\ (i - 1) + 1 = i
      BY <1>3, <1>5
    <2> QED BY <1>3, <2>1
  <1>6. \A u : Queued(u) <=> Queued(u)' \/ u = t
    BY <1>3, <1>4, <1>5, QueuedIs
  <1> QED BY <1>3, <1>6 DEF S

----------------------------------------------------------------------------
LEMMA StartStep == IInv /\ c_start => IInv'
  <1> SUFFICES ASSUME IInv, c_start PROVE IInv'
    OBVIOUS
  <1> USE DEF IInv
  <1>1. PICK l \in Loops \ Started :
            /\ _check_network_task = None /\ _check_network_task' = l
            /\ loops' = [loops EXCEPT ![l].at = "starting"] /\ ready' = Append(ready, l)
            /\ _network_status' = "NOT_CONNECTED"
            /\ UNCHANGED <<cancelled, network, orphans, up>>
    BY DEF c_start, ResumeAt, LoopAt, connector
  <1>2. loops[l].at = "new" /\ l # Stop /\ l # None
    BY LoopsAreNumbered DEF Started
  <1>3. /\ loops'[l].at = "starting" /\ \A k \in Loops \ {l} : loops'[k] = loops[k]
        /\ loops' \in [Loops -> LoopRecord]
    BY <1>1 DEF Types, TypeOK, LoopRecord, Places
  <1>4. /\ ready' \in Seq({Stop} \cup Loops) /\ Len(ready) \in Nat
        /\ Len(ready') = Len(ready) + 1 /\ ready'[Len(ready) + 1] = l
        /\ \A i \in 1 .. Len(ready) : ready'[i] = ready[i]
        /\ \A u : Queued(u)' <=> Queued(u) \/ u = l
    BY <1>1, QueueGrows
  <1>5. Types'
    BY <1>1, <1>3, <1>4 DEF Types, TypeOK, NetworkStatus
  <1>6. \A i \in 1 .. Len(ready') : i \in 1 .. Len(ready) \/ i = Len(ready) + 1
    BY <1>4
  <1>7. \A i \in 1 .. Len(ready) : ready[i] # l
    BY <1>2, QueuedIs DEF OneLoopRuns
  <1>8. OneLoopRuns'
    <2>1. l \notin cancelled /\ \A k \in Loops : k \in cancelled \/ Queued(k) => k # l
      BY <1>2 DEF OneLoopRuns
    <2>2. \A k \in Loops : k \in cancelled' \/ Queued(k)' => loops'[k].at # "new"
      BY <1>1, <1>3, <1>4 DEF OneLoopRuns
    <2>3. \A k \in Loops : loops'[k].at \notin {"new", "over"} /\ k \notin cancelled' => k = l
      BY <1>1, <1>2, <1>3 DEF OneLoopRuns, Types, TypeOK, None, Loops
    <2> QED BY <1>1, <1>3, <2>1, <2>2, <2>3 DEF OneLoopRuns
  <1>9. StopsComeFirst'
    <2>1. \A i, j \in 1 .. Len(ready') : ready'[i] = Stop /\ ready'[j] = l => i < j
      BY <1>2, <1>4, <1>6, <1>7
    <2> QED BY <1>1, <1>3, <2>1 DEF StopsComeFirst
  <1>10. TasksAreKnown'
    BY <1>1, <1>2, <1>4 DEF TasksAreKnown
  <1> QED BY <1>5, <1>8, <1>9, <1>10

LEMMA StopStep == IInv /\ c_stop => IInv'
  <1> SUFFICES ASSUME IInv, c_stop PROVE IInv'
    OBVIOUS
  <1> USE DEF IInv
  <1> DEFINE c == _check_network_task
  <1>1. /\ c # None /\ cancelled' = cancelled \cup {c} /\ ready' = Append(Woken(c), Stop)
        /\ _check_network_task' = None /\ _network_status' = "STOPPED"
        /\ UNCHANGED <<loops, network, orphans, up>>
    BY DEF c_stop, connector
  <1>2. c \in Loops /\ c # Stop
    BY <1>1, LoopsAreNumbered DEF Types, TypeOK
  <1>3. ready' \in Seq({Stop} \cup Loops) /\ Queued(Stop)' /\ \A u : Queued(u)' => Queued(u) \/ u \in {c, Stop}
    <2> DEFINE S == {Stop} \cup Loops
    <2>0. ready \in Seq(S) /\ c \in S /\ Stop \in S
      BY <1>2 DEF Types, TypeOK
    <2> HIDE DEF S
    <2>1. /\ Woken(c) \in Seq(S) /\ Len(Woken(c)) \in Nat
          /\ \A i \in 1 .. Len(Woken(c)) : Woken(c)[i] = c \/ Queued(Woken(c)[i])
      <3>1. CASE Queued(c)
        BY <2>0, <3>1, QueuedIs DEF Woken
      <3>2. CASE ~Queued(c)
        <4>1. /\ Append(ready, c) \in Seq(S) /\ Len(ready) \in Nat /\ Len(Append(ready, c)) = Len(ready) + 1
              /\ Append(ready, c)[Len(ready) + 1] = c
              /\ \A i \in 1 .. Len(ready) : Append(ready, c)[i] = ready[i]
          BY <2>0, AppendFacts
        <4>2. \A i \in 1 .. Len(ready) + 1 : i \in 1 .. Len(ready) \/ i = Len(ready) + 1
          BY <4>1
        <4> QED BY <3>2, <4>1, <4>2, QueuedIs DEF Woken
      <3> QED BY <3>1, <3>2
    <2>2. /\ ready' \in Seq(S) /\ Len(ready') = Len(Woken(c)) + 1 /\ ready'[Len(Woken(c)) + 1] = Stop
          /\ \A i \in 1 .. Len(Woken(c)) : ready'[i] = Woken(c)[i]
      BY <1>1, <2>0, <2>1, AppendFacts
    <2>3. \A i \in 1 .. Len(ready') : i \in 1 .. Len(Woken(c)) \/ i = Len(Woken(c)) + 1
      BY <2>1, <2>2
    <2>4. Len(Woken(c)) + 1 \in 1 .. Len(ready')
      BY <2>1, <2>2
    <2>5. \A u : Queued(u)' <=> \E i \in 1 .. Len(ready') : ready'[i] = u
      BY <2>2 DEF Queued
    <2> QED BY <2>1, <2>2, <2>3, <2>4, <2>5 DEF S
  <1>4. Types'
    BY <1>1, <1>2, <1>3 DEF Types, TypeOK, NetworkStatus, None
  <1>5. OneLoopRuns'
    BY <1>1, <1>2, <1>3, LoopsAreNumbered DEF OneLoopRuns
  <1>6. StopsComeFirst' /\ TasksAreKnown'
    BY <1>1, <1>3 DEF StopsComeFirst, TasksAreKnown
  <1> QED BY <1>4, <1>5, <1>6

(* A step of the loop the connector knows, when no stop_network is queued.  *)
LEMMA LoopRuns ==
    ASSUME IInv, NEW l \in Loops, l = _check_network_task, ~Queued(Stop),
           NEW record \in LoopRecord, record.at \notin {"new", "over"},
           loops' = [loops EXCEPT ![l] = record],
           cancelled' = cancelled, UNCHANGED _check_network_task,
           ready' \in Seq({Stop} \cup Loops), \A u : Queued(u)' => Queued(u) \/ u = l,
           _network_status' \in NetworkStatus, network' \in BOOLEAN, UNCHANGED <<orphans, up>>,
           _network_status' = "CONNECTED" => network'
    PROVE  IInv'
  <1> USE DEF IInv
  <1>1. l # Stop /\ l # None
    BY LoopsAreNumbered
  <1>2. loops'[l] = record /\ \A k \in Loops \ {l} : loops'[k] = loops[k]
    BY DEF Types, TypeOK
  <1>3. ~Queued(Stop)'
    BY <1>1
  <1>4. Types'
    BY <1>2 DEF Types, TypeOK
  <1>5. OneLoopRuns'
    BY <1>1, <1>2 DEF OneLoopRuns
  <1>6. StopsComeFirst' /\ TasksAreKnown'
    BY <1>1, <1>3 DEF StopsComeFirst, TasksAreKnown
  <1> QED BY <1>4, <1>5, <1>6

LEMMA LoopStepKeeps ==
    ASSUME IInv, StopsFirst, ~Swallows, NEW l \in Loops, LoopStep(l)
    PROVE  IInv'
  <1> USE DEF IInv
  <1>1. l # Stop /\ l # None /\ loops[l] \in LoopRecord
    BY LoopsAreNumbered DEF Types, TypeOK
  <1>2. CASE begin_check(l)
    <2> DEFINE record == [loops[l] EXCEPT !.at = "checking", !.last_status = _network_status]
    <2>1. /\ NextIs(l) /\ l \notin cancelled /\ loops[l].at \in {"starting", "rested"}
          /\ loops' = [loops EXCEPT ![l].at = "checking", ![l].last_status = _network_status]
          /\ UNCHANGED <<_network_status, _check_network_task, cancelled, network, orphans, up>>
      BY <1>2 DEF begin_check, LoopIs, connector
    <2>2. l = _check_network_task
      BY <2>1 DEF OneLoopRuns
    <2>3. record \in LoopRecord /\ record.at = "checking" /\ loops' = [loops EXCEPT ![l] = record]
      BY <1>1, <2>1 DEF Types, TypeOK, LoopRecord, Places
    <2>4. /\ ready' \in Seq({Stop} \cup Loops) /\ Len(ready') \in Nat /\ Len(ready) = Len(ready') + 1
          /\ ready[1] = l /\ 1 \in 1 .. Len(ready)
          /\ \A u : Queued(u) <=> Queued(u)' \/ u = l
      BY <2>1, QueueShrinks DEF NextIs
    <2>5. ~Queued(Stop)
      BY <1>1, <2>2, <2>4, QueuedIs DEF StopsComeFirst
    <2> HIDE DEF record
    <2>6. _network_status' \in NetworkStatus /\ network' \in BOOLEAN
          /\ (_network_status' = "CONNECTED" => network')
      BY <2>1 DEF Types, TypeOK, TasksAreKnown
    <2> QED BY <2>1, <2>2, <2>3, <2>4, <2>5, <2>6, LoopRuns
  <1>3. CASE check_ends(l)
    <2>1. PICK answer \in NetworkStatus \cup Failures :
              /\ loops' = [loops EXCEPT ![l].at = "checked", ![l].new_status = answer]
              /\ loops[l].at = "checking" /\ l \notin cancelled /\ ready' = Append(ready, l)
              /\ UNCHANGED <<_network_status, _check_network_task, cancelled, network, orphans, up>>
      BY <1>3 DEF check_ends, LoopIs, connector, NetworkStatus
    <2> DEFINE record == [loops[l] EXCEPT !.at = "checked", !.new_status = answer]
    <2>2. l = _check_network_task
      BY <2>1 DEF OneLoopRuns
    <2>3. record \in LoopRecord /\ record.at = "checked" /\ loops' = [loops EXCEPT ![l] = record]
      BY <1>1, <2>1 DEF Types, TypeOK, LoopRecord, Places
    <2>4. ready' \in Seq({Stop} \cup Loops) /\ \A u : Queued(u)' <=> Queued(u) \/ u = l
      BY <2>1, QueueGrows
    <2>5. ~Queued(Stop)
      BY <1>1, <2>1, <2>2 DEF StopsComeFirst
    <2> HIDE DEF record
    <2>6. _network_status' \in NetworkStatus /\ network' \in BOOLEAN
          /\ (_network_status' = "CONNECTED" => network')
      BY <2>1 DEF Types, TypeOK, TasksAreKnown
    <2> QED BY <2>1, <2>2, <2>3, <2>4, <2>5, <2>6, LoopRuns
  <1>4. CASE check_returns(l) \/ check_fails(l)
    <2> DEFINE record == [loops[l] EXCEPT !.at = "sleeping"]
    <2>1. /\ NextIs(l) /\ Resumed(l)
          /\ loops' = [loops EXCEPT ![l].at = "sleeping"] /\ cancelled' = cancelled \ {l}
          /\ UNCHANGED <<_check_network_task, up>>
      BY <1>4 DEF check_returns, check_fails, LoopAt
    <2>2. l = _check_network_task /\ l \notin cancelled /\ loops[l].at = "checked"
      BY <2>1 DEF OneLoopRuns, Resumed
    <2>3. record \in LoopRecord /\ record.at = "sleeping" /\ loops' = [loops EXCEPT ![l] = record]
      BY <1>1, <2>1 DEF Types, TypeOK, LoopRecord, Places
    <2>4. ready' \in Seq({Stop} \cup Loops) /\ \A u : Queued(u) <=> Queued(u)' \/ u = l
      BY <2>1, QueueShrinks DEF NextIs
    <2>5. ~Queued(Stop)
      BY <1>1, <2>2 DEF StopsComeFirst
    <2>6. /\ _network_status' \in NetworkStatus /\ network' \in BOOLEAN /\ UNCHANGED orphans
          /\ (_network_status' = "CONNECTED" => network')
      <3>1. CASE check_fails(l)
        BY <3>1 DEF check_fails, connector, Types, TypeOK, NetworkStatus
      <3>2. CASE check_returns(l)
        <4>1. loops[l].new_status \in NetworkStatus
          BY <1>1, <3>2 DEF check_returns, LoopRecord
        <4>2. CASE UNCHANGED <<_network_status, connector>>
          BY <4>2 DEF connector, Types, TypeOK, TasksAreKnown
        <4>3. CASE status_changes(l)
          BY <4>1, <4>3 DEF status_changes, start_network, stop_network
        <4> QED BY <3>2, <4>2, <4>3 DEF check_returns
      <3> QED BY <1>4, <3>1, <3>2
    <2> HIDE DEF record
    <2>7. cancelled' = cancelled
      BY <2>1, <2>2
    <2> QED BY <2>1, <2>2, <2>3, <2>4, <2>5, <2>6, <2>7, LoopRuns
  <1>5. CASE sleep_ends(l)
    <2> DEFINE record == [loops[l] EXCEPT !.at = "rested"]
    <2>1. /\ loops[l].at = "sleeping" /\ l \notin cancelled /\ ready' = Append(ready, l)
          /\ loops' = [loops EXCEPT ![l].at = "rested"]
          /\ UNCHANGED <<_network_status, _check_network_task, cancelled, network, orphans, up>>
      BY <1>5 DEF sleep_ends, LoopIs, ResumeAt, LoopAt, connector
    <2>2. l = _check_network_task
      BY <2>1 DEF OneLoopRuns
    <2>3. record \in LoopRecord /\ record.at = "rested" /\ loops' = [loops EXCEPT ![l] = record]
      BY <1>1, <2>1 DEF Types, TypeOK, LoopRecord, Places
    <2>4. ready' \in Seq({Stop} \cup Loops) /\ \A u : Queued(u)' <=> Queued(u) \/ u = l
      BY <2>1, QueueGrows
    <2>5. ~Queued(Stop)
      BY <1>1, <2>1, <2>2 DEF StopsComeFirst
    <2> HIDE DEF record
    <2>6. _network_status' \in NetworkStatus /\ network' \in BOOLEAN
          /\ (_network_status' = "CONNECTED" => network')
      BY <2>1 DEF Types, TypeOK, TasksAreKnown
    <2> QED BY <2>1, <2>2, <2>3, <2>4, <2>5, <2>6, LoopRuns
  <1>6. CASE loop_cancelled(l)
    <2>1. /\ NextIs(l) /\ l \in cancelled /\ loops' = [loops EXCEPT ![l].at = "over"]
          /\ UNCHANGED <<_network_status, _check_network_task, cancelled, network, orphans, up>>
      BY <1>6 DEF loop_cancelled, LoopAt, connector
    <2>2. /\ loops'[l].at = "over" /\ \A k \in Loops \ {l} : loops'[k] = loops[k]
          /\ loops' \in [Loops -> LoopRecord] /\ l # _check_network_task
      <3>1. [loops[l] EXCEPT !.at = "over"] \in LoopRecord
        BY <1>1 DEF LoopRecord, Places
      <3>2. l # _check_network_task
        BY <1>1, <2>1 DEF OneLoopRuns
      <3>3. loops' = [loops EXCEPT ![l] = [loops[l] EXCEPT !.at = "over"]]
        BY <2>1
      <3> QED BY <3>1, <3>2, <3>3 DEF Types, TypeOK
    <2>3. /\ ready' \in Seq({Stop} \cup Loops) /\ Len(ready') \in Nat /\ Len(ready) = Len(ready') + 1
          /\ \A i \in 1 .. Len(ready') : ready'[i] = ready[i + 1] /\ i + 1 \in 1 .. Len(ready)
          /\ \A u : Queued(u) <=> Queued(u)' \/ u = l
      BY <2>1, QueueShrinks DEF NextIs
    <2>4. Types'
      BY <2>1, <2>2, <2>3 DEF Types, TypeOK
    <2>5. OneLoopRuns'
      BY <2>1, <2>2, <2>3 DEF OneLoopRuns, Types, TypeOK
    <2>6. StopsComeFirst'
      <3> SUFFICES ASSUME Queued(Stop)', _check_network_task # None
                   PROVE  /\ loops'[_check_network_task].at = "starting"
                          /\ \A i, j \in 1 .. Len(ready') :
                                ready'[i] = Stop /\ ready'[j] = _check_network_task => i < j
        BY <1>1, <2>1, <2>3 DEF StopsComeFirst
      <3>1. Queued(Stop) /\ _check_network_task \in Loops
        BY <2>3 DEF Types, TypeOK
      <3>2. loops'[_check_network_task].at = "starting"
        BY <2>2, <3>1 DEF StopsComeFirst
      <3>3. ASSUME NEW i \in 1 .. Len(ready'), NEW j \in 1 .. Len(ready'),
                   ready'[i] = Stop, ready'[j] = _check_network_task
            PROVE  i < j
        <4>1. i + 1 < j + 1
          BY <2>3, <3>1, <3>3 DEF StopsComeFirst
        <4> QED BY <4>1
      <3> QED BY <3>2, <3>3
    <2>7. TasksAreKnown'
      BY <1>1, <2>1, <2>3 DEF TasksAreKnown
    <2> QED BY <2>4, <2>5, <2>6, <2>7
  <1> QED BY <1>2, <1>3, <1>4, <1>5, <1>6 DEF LoopStep

LEMMA RunStopStep == IInv /\ run_stop_network => IInv'
  <1> SUFFICES ASSUME IInv, run_stop_network PROVE IInv'
    OBVIOUS
  <1> USE DEF IInv
  <1>1. /\ NextIs(Stop) /\ network' = FALSE
        /\ UNCHANGED <<_network_status, _check_network_task, loops, cancelled, orphans, up>>
    BY DEF run_stop_network, stop_network
  <1>2. /\ ready' \in Seq({Stop} \cup Loops) /\ Len(ready') \in Nat /\ Len(ready) = Len(ready') + 1
        /\ ready[1] = Stop /\ 1 \in 1 .. Len(ready)
        /\ \A i \in 1 .. Len(ready') : ready'[i] = ready[i + 1] /\ i + 1 \in 1 .. Len(ready)
        /\ \A u : Queued(u) <=> Queued(u)' \/ u = Stop
    BY <1>1, QueueShrinks DEF NextIs
  <1>3. _network_status # "CONNECTED"
    BY <1>2 DEF StopsComeFirst
  <1>4. Types' /\ OneLoopRuns' /\ TasksAreKnown'
    BY <1>1, <1>2, <1>3 DEF Types, TypeOK, OneLoopRuns, TasksAreKnown
  <1>5. StopsComeFirst'
    <2>1. ASSUME NEW i \in 1 .. Len(ready'), NEW j \in 1 .. Len(ready'),
                 ready'[i] = Stop, ready'[j] = _check_network_task, _check_network_task # None
          PROVE  i < j
      <3>1. i + 1 < j + 1
        BY <1>2, <2>1 DEF StopsComeFirst
      <3> QED BY <3>1
    <2> QED BY <1>1, <1>2, <2>1 DEF StopsComeFirst
  <1> QED BY <1>4, <1>5

LEMMA Invariance ==
    ASSUME StopsFirst, ~Swallows
    PROVE  Spec => []IInv
  <1>1. IInv /\ [Next]_vars => IInv'
    <2> SUFFICES ASSUME IInv, [Next]_vars PROVE IInv'
      OBVIOUS
    <2>1. CASE exchange_flips
      BY <2>1 DEF exchange_flips, IInv, Types, TypeOK, OneLoopRuns, StopsComeFirst, TasksAreKnown, Queued, connector
    <2>2. CASE UNCHANGED vars
      BY <2>2 DEF vars, IInv, Types, TypeOK, OneLoopRuns, StopsComeFirst, TasksAreKnown, Queued, connector
    <2>3. CASE \E l \in Loops : LoopStep(l)
      BY <2>3, LoopStepKeeps
    <2> QED BY <2>1, <2>2, <2>3, StartStep, StopStep, RunStopStep DEF Next
  <1> QED BY <1>1, InitIInv, PTL DEF Spec

----------------------------------------------------------------------------
(* A connector that c_stop stopped, and whose stop_network has run, has no  *)
(* background tasks, and gets none until it is started again.               *)
THEOREM StoppedConnectorsHaveNoTasks ==
    ASSUME StopsFirst, ~Swallows
    PROVE  Spec => []StoppedIsStopped
  <1>1. IInv => StoppedIsStopped
    BY DEF IInv, TasksAreKnown, StoppedIsStopped
  <1> QED BY <1>1, Invariance, PTL

(* A connector that says CONNECTED has its tasks, and start_network forgets *)
(* none that run, however starts, stops and checks interleave.              *)
THEOREM TasksAreNeverDoubled ==
    ASSUME StopsFirst, ~Swallows
    PROVE  Spec => []OneSetOfTasks
  <1>1. IInv => OneSetOfTasks
    BY DEF IInv, Types, TypeOK, TasksAreKnown, OneSetOfTasks
  <1> QED BY <1>1, Invariance, PTL
=============================================================================
