------------------------- MODULE StatusPollingProofs -------------------------
(***************************************************************************)
(* The polling loop for any intervals, the long one a multiple of the short *)
(* one, and any ticks.  While the loop rests, no boundary of the long       *)
(* interval has gone by since it last polled, and none of the short one     *)
(* since the stream fell silent: a tick that passes one sets the event.     *)
(***************************************************************************)
EXTENDS StatusPolling, TLAPS

(* The loop updates because of an event, and only ticks set it.             *)
EventsAreTicks ==
    /\ loop = "updating" => _poll_notifier
    /\ _poll_notifier => _last_timestamp # 0

SameInterval(a, b, interval) == a \div interval = b \div interval

NoBoundaryPassed ==
    Resting =>
        /\ SameInterval(polled, now, LONG_POLL_INTERVAL)
        /\ silent <= polled => SameInterval(polled, now, SHORT_POLL_INTERVAL)
        /\ polled <= silent /\ silent <= now => SameInterval(silent, now, SHORT_POLL_INTERVAL)

IInv == TypeOK /\ EventsAreTicks /\ NoBoundaryPassed

----------------------------------------------------------------------------
(* Arithmetic of intervals.                                                 *)
LEMMA DivType ==
    ASSUME NEW a \in Nat, NEW k \in Nat \ {0}
    PROVE  a \div k \in Nat
  BY SMT

LEMMA DivBounds ==
    ASSUME NEW a \in Nat, NEW k \in Nat \ {0}
    PROVE  k * (a \div k) <= a /\ a < k * (a \div k) + k
  BY Z3

LEMMA DivIs ==
    ASSUME NEW y \in Nat, NEW k \in Nat \ {0}, NEW s \in Nat, s < k
    PROVE  (k * y + s) \div k = y
  BY Z3

LEMMA DivMonotone ==
    ASSUME NEW a \in Nat, NEW b \in Nat, NEW k \in Nat \ {0}, a <= b
    PROVE  a \div k <= b \div k
  BY Z3

LEMMA DivPositive ==
    ASSUME NEW a \in Nat, NEW k \in Nat \ {0}, k <= a
    PROVE  a \div k > 0
  BY Z3

(* Times in one interval are closer than its length.                        *)
LEMMA SameIntervalIsShort ==
    ASSUME NEW a \in Nat, NEW b \in Nat, NEW k \in Nat \ {0}, SameInterval(a, b, k)
    PROVE  b - a < k
  BY SMT DEF SameInterval

(* A multiple of an interval has no other boundaries than its own.          *)
LEMMA DivOfMultiple ==
    ASSUME NEW k \in Nat \ {0}, NEW q \in Nat \ {0}, NEW m \in Nat \ {0}, m = k * q, NEW a \in Nat
    PROVE  a \div m = (a \div k) \div q
  <1> DEFINE x == a \div k
             r == a - k * x
             y == x \div q
             z == x - q * y
  <1>1. x \in Nat /\ r \in Nat /\ r < k /\ a = k * x + r
    BY DivType, DivBounds
  <1> HIDE DEF x, r
  <1>2. y \in Nat /\ z \in Nat /\ z < q /\ x = q * y + z
    <2>1. y \in Nat /\ q * y <= x /\ x < q * y + q
      BY <1>1, DivType, DivBounds
    <2> HIDE DEF y
    <2> QED BY <1>1, <2>1
  <1> HIDE DEF y, z
  <1>3. a = m * y + (k * z + r)
    BY <1>1, <1>2
  <1>4. k * z + r \in Nat /\ k * z + r < m
    <2>1. k * z + k <= k * q
      BY <1>2
    <2> QED BY <1>1, <1>2, <2>1
  <1>5. a \div m = y
    BY <1>2, <1>3, <1>4, DivIs
  <1> QED BY <1>5 DEF y, x

LEMMA LongFollowsShort ==
    ASSUME NEW a \in Nat, NEW b \in Nat, SameInterval(a, b, SHORT_POLL_INTERVAL)
    PROVE  SameInterval(a, b, LONG_POLL_INTERVAL)
  <1>1. PICK times \in 1 .. LONG_POLL_INTERVAL : LONG_POLL_INTERVAL = SHORT_POLL_INTERVAL * times
    BY IntervalsAssumption
  <1>2. SHORT_POLL_INTERVAL \in Nat \ {0} /\ LONG_POLL_INTERVAL \in Nat \ {0} /\ times \in Nat \ {0}
    BY IntervalsAssumption
  <1>3. /\ a \div LONG_POLL_INTERVAL = (a \div SHORT_POLL_INTERVAL) \div times
        /\ b \div LONG_POLL_INTERVAL = (b \div SHORT_POLL_INTERVAL) \div times
    BY <1>1, <1>2, DivOfMultiple
  <1> QED BY <1>3 DEF SameInterval

(* What is between two times of one interval is in it.                      *)
LEMMA SameIntervalInside ==
    ASSUME NEW a \in Nat, NEW b \in Nat, NEW c \in Nat, NEW k \in Nat \ {0},
           a <= b, b <= c, SameInterval(a, c, k)
    PROVE  SameInterval(a, b, k) /\ SameInterval(b, c, k)
  BY DivMonotone, DivType DEF SameInterval

----------------------------------------------------------------------------
LEMMA InitIInv == Init => IInv
  <1> SUFFICES ASSUME Init PROVE IInv
    OBVIOUS
  <1>1. Start \in Nat
    BY TimeAssumption
  <1>2. now = Start /\ polled = Start /\ _last_timestamp = 0 /\ last_recv_time = 0
        /\ _poll_notifier = FALSE /\ loop = "stopped"
    BY DEF Init
  <1>3. /\ polled \in Start .. now /\ last_recv_time \in 0 .. now /\ now \in Nat /\ Start <= now
    <2>1. now = Start /\ polled = Start /\ last_recv_time = 0
      BY <1>2
    <2> QED BY <1>1, <2>1
  <1>4. _poll_notifier \in BOOLEAN
    BY <1>2
  <1>5. TypeOK
    BY <1>2, <1>3, <1>4 DEF TypeOK
  <1>6. EventsAreTicks /\ ~Resting
    BY DEF Init, EventsAreTicks, Resting
  <1> QED BY <1>6, <1>5 DEF IInv, NoBoundaryPassed

(* A tick that leaves the loop at rest passed no boundary.                  *)
LEMMA QuietTick ==
    ASSUME IInv, NEW jump \in 1 .. MaxJump, tick(now + jump), Resting'
    PROVE  /\ Resting /\ _last_timestamp = now
           /\ SameInterval(now, now', LONG_POLL_INTERVAL)
           /\ silent < now' => SameInterval(now, now', SHORT_POLL_INTERVAL)
  <1>1. /\ now \in Nat /\ jump \in Nat \ {0} /\ now' = now + jump /\ now' \in Nat
        /\ SHORT_POLL_INTERVAL \in Nat \ {0} /\ LONG_POLL_INTERVAL \in Nat \ {0}
        /\ last_recv_time \in Nat /\ TICK_INTERVAL_LIMIT \in Nat
        /\ LONG_POLL_INTERVAL <= now' /\ SHORT_POLL_INTERVAL <= now'
    BY IntervalsAssumption, TimeAssumption DEF IInv, TypeOK, tick
  <1>2. loop = "waiting" /\ ~_poll_notifier /\ ~PollIsDue(now')
    BY <1>1 DEF tick, Resting
  <1>3. /\ _get_poll_interval(now') \in {SHORT_POLL_INTERVAL, LONG_POLL_INTERVAL}
        /\ silent < now' => _get_poll_interval(now') = SHORT_POLL_INTERVAL
    BY <1>1 DEF _get_poll_interval, silent
  <1>4. PICK k \in {SHORT_POLL_INTERVAL, LONG_POLL_INTERVAL} : k = _get_poll_interval(now')
    BY <1>3
  <1>5. ~(now' \div k > _last_timestamp \div k)
    BY <1>2, <1>4 DEF PollIsDue
  <1>6. _last_timestamp # 0
    <2>1. 0 \div k = 0 /\ now' \div k > 0
      BY <1>1, <1>4, DivPositive, Z3
    <2> QED BY <1>5, <2>1
  <1>7. _last_timestamp = now
    BY <1>6 DEF IInv, TypeOK
  <1>8. SameInterval(now, now', k)
    BY <1>1, <1>4, <1>5, <1>7, DivMonotone, DivType DEF SameInterval
  <1> QED BY <1>1, <1>2, <1>3, <1>4, <1>6, <1>7, <1>8, LongFollowsShort DEF Resting

LEMMA TickKeepsIInv ==
    ASSUME IInv, NEW jump \in 1 .. MaxJump, tick(now + jump) PROVE IInv'
  <1>1. /\ now \in Nat /\ jump \in Nat \ {0} /\ now' = now + jump /\ now' \in Nat
        /\ SHORT_POLL_INTERVAL \in Nat \ {0} /\ LONG_POLL_INTERVAL \in Nat \ {0}
        /\ _last_timestamp' = now' /\ now' # 0
        /\ UNCHANGED <<last_recv_time, loop, polled>>
        /\ _poll_notifier \in BOOLEAN /\ (_poll_notifier => _poll_notifier') /\ _poll_notifier' \in BOOLEAN
    BY IntervalsAssumption, TimeAssumption DEF IInv, TypeOK, tick, PollIsDue
  <1>2. TypeOK'
    BY <1>1, TimeAssumption DEF IInv, TypeOK
  <1>3. EventsAreTicks'
    BY <1>1 DEF IInv, EventsAreTicks
  <1>4. NoBoundaryPassed'
    <2> SUFFICES ASSUME Resting' PROVE NoBoundaryPassed'
      BY DEF NoBoundaryPassed
    <2>1. /\ Resting /\ SameInterval(now, now', LONG_POLL_INTERVAL)
          /\ silent < now' => SameInterval(now, now', SHORT_POLL_INTERVAL)
      BY QuietTick
    <2>2. /\ silent' = silent /\ silent \in Nat /\ polled \in Nat /\ polled <= now /\ polled' = polled
      BY <1>1, IntervalsAssumption, TimeAssumption DEF silent, IInv, TypeOK
    <2>3. SameInterval(polled, now', LONG_POLL_INTERVAL)
      BY <2>1 DEF IInv, NoBoundaryPassed, SameInterval
    <2>4. silent <= polled => SameInterval(polled, now', SHORT_POLL_INTERVAL)
      BY <1>1, <2>1, <2>2 DEF IInv, NoBoundaryPassed, SameInterval
    <2>5. ASSUME polled <= silent, silent <= now' PROVE SameInterval(silent, now', SHORT_POLL_INTERVAL)
      <3>1. CASE silent <= now
        BY <1>1, <2>1, <2>2, <2>5, <3>1 DEF IInv, NoBoundaryPassed, SameInterval
      <3>2. CASE now < silent /\ silent < now'
        BY <1>1, <2>1, <2>2, <3>2, SameIntervalInside
      <3>3. CASE silent = now'
        BY <3>3 DEF SameInterval
      <3> QED BY <1>1, <2>2, <2>5, <3>1, <3>2, <3>3
    <2> QED BY <2>2, <2>3, <2>4, <2>5 DEF NoBoundaryPassed, SameInterval
  <1> QED BY <1>2, <1>3, <1>4 DEF IInv

LEMMA NextKeepsIInv == IInv /\ [Next]_vars => IInv'
  <1> SUFFICES ASSUME IInv, [Next]_vars PROVE IInv'
    OBVIOUS
  <1>1. /\ TypeOK /\ EventsAreTicks /\ NoBoundaryPassed /\ now \in Nat /\ now # 0
        /\ SHORT_POLL_INTERVAL \in Nat \ {0} /\ TICK_INTERVAL_LIMIT \in Nat /\ Start \in Nat /\ Start <= now
    BY IntervalsAssumption, TimeAssumption DEF IInv, TypeOK
  <1>2. ASSUME NEW jump \in 1 .. MaxJump, tick(now + jump) PROVE IInv'
    BY <1>2, TickKeepsIInv
  <1>3. CASE receive_message
    <2>1. /\ last_recv_time' = now /\ now' = now /\ polled' = polled /\ silent' = now + TICK_INTERVAL_LIMIT
          /\ Resting' <=> Resting
      BY <1>3 DEF receive_message, silent, Resting
    <2>2. TypeOK' /\ EventsAreTicks'
      BY <1>1, <1>3 DEF receive_message, TypeOK, EventsAreTicks
    <2>3. silent' <= now => silent' = now
      BY <1>1, <2>1
    <2>4. silent' <= polled => polled = now
      BY <1>1, <2>1 DEF TypeOK
    <2> QED BY <1>1, <2>1, <2>2, <2>3, <2>4 DEF IInv, NoBoundaryPassed, SameInterval
  <1>4. CASE notifier_awakes
    BY <1>1, <1>4 DEF notifier_awakes, IInv, TypeOK, EventsAreTicks, NoBoundaryPassed, Resting
  <1>5. CASE updates_fetched
    <2>0. /\ now' = now /\ polled' = now /\ silent' = silent /\ loop' = "waiting" /\ _poll_notifier' = FALSE
          /\ UNCHANGED <<_last_timestamp, last_recv_time>>
      BY <1>5 DEF updates_fetched, silent
    <2>1. TypeOK' /\ EventsAreTicks' /\ now' = now /\ polled' = now /\ silent' = silent
      <3>1. now' = now /\ polled' = now /\ last_recv_time' = last_recv_time /\ _last_timestamp' = _last_timestamp
        BY <2>0
      <3>2. last_recv_time \in 0 .. now /\ _last_timestamp \in {0, now}
        BY <1>1 DEF TypeOK
      <3>3. polled' \in Start .. now' /\ now' \in Nat /\ Start <= now'
        BY <1>1, <3>1
      <3>4. _poll_notifier' \in BOOLEAN
        BY <2>0
      <3>5. _last_timestamp' \in {0, now'} /\ last_recv_time' \in 0 .. now'
        BY <3>1, <3>2
      <3>6. TypeOK'
        BY <2>0, <3>3, <3>4, <3>5 DEF TypeOK
      <3> QED BY <2>0, <3>6 DEF EventsAreTicks
    <2>2. silent \in Nat
      BY <1>1 DEF silent, TypeOK
    <2>3. now <= silent /\ silent <= now => silent = now
      BY <1>1, <2>2
    <2> QED BY <2>1, <2>3 DEF IInv, NoBoundaryPassed, SameInterval
  <1>6. CASE update_fails
    BY <1>1, <1>6 DEF update_fails, IInv, TypeOK, EventsAreTicks, NoBoundaryPassed, Resting
  <1>7. CASE start_network \/ stop_network
    <2>1. /\ _last_timestamp' = 0 /\ _poll_notifier' = FALSE /\ loop' \in {"waiting", "stopped"}
          /\ UNCHANGED <<now, last_recv_time, polled>>
      BY <1>7 DEF start_network, stop_network, _stop_network
    <2> QED BY <1>1, <2>1 DEF IInv, TypeOK, EventsAreTicks, NoBoundaryPassed, Resting
  <1>8. CASE UNCHANGED vars
    BY <1>1, <1>8 DEF vars, IInv, TypeOK, EventsAreTicks, NoBoundaryPassed, Resting, silent, SameInterval
  <1> QED BY <1>2, <1>3, <1>4, <1>5, <1>6, <1>7, <1>8 DEF Next

----------------------------------------------------------------------------
THEOREM PollingInvariant == Spec => []IInv
  BY InitIInv, NextKeepsIInv, PTL DEF Spec

(* The loop never rests for as long as the long interval, whatever ticks    *)
(* are lost, skipped or fall on a restart of the network                    *)
(* (exchange_py_base._status_polling_loop).                                 *)
THEOREM RestsAreBounded == Spec => []RestIsBounded
  <1>1. IInv => RestIsBounded
    BY IntervalsAssumption, TimeAssumption, SameIntervalIsShort
       DEF IInv, TypeOK, NoBoundaryPassed, RestIsBounded
  <1> QED BY <1>1, PollingInvariant, PTL

(* While the stream is silent, nor for as long as the short interval        *)
(* (exchange_py_base._get_poll_interval).                                   *)
THEOREM SilencesArePolled == Spec => []SilenceIsPolled
  <1>1. ASSUME IInv, Resting
        PROVE  now - polled < SHORT_POLL_INTERVAL \/ now - silent < SHORT_POLL_INTERVAL
    <2>1. /\ now \in Nat /\ polled \in Nat /\ silent \in Nat /\ SHORT_POLL_INTERVAL \in Nat \ {0}
          /\ NoBoundaryPassed
      BY <1>1, IntervalsAssumption, TimeAssumption DEF IInv, TypeOK, silent
    <2>2. CASE silent <= polled
      BY <1>1, <2>1, <2>2, SameIntervalIsShort DEF NoBoundaryPassed
    <2>3. CASE polled <= silent /\ silent <= now
      BY <1>1, <2>1, <2>3, SameIntervalIsShort DEF NoBoundaryPassed
    <2>4. CASE now < silent
      BY <2>1, <2>4
    <2> QED BY <2>1, <2>2, <2>3, <2>4
  <1>2. IInv => SilenceIsPolled
    BY <1>1 DEF SilenceIsPolled
  <1> QED BY <1>2, PollingInvariant, PTL
=============================================================================
