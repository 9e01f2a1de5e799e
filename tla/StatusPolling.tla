---------------------------- MODULE StatusPolling ----------------------------
(***************************************************************************)
(* When the connector polls the exchange (connector/exchange_py_base.py):   *)
(* the clock's tick sets _poll_notifier when a multiple of the poll         *)
(* interval goes by, and the polling loop waits for it, updates, and then   *)
(* replaces it by a new event.  A tick that comes between the wait and the  *)
(* replacement sets the event that is thrown away.                          *)
(***************************************************************************)
EXTENDS Integers

CONSTANTS SHORT_POLL_INTERVAL, LONG_POLL_INTERVAL, TICK_INTERVAL_LIMIT,
          Start,     \* the time at which the connector is created
          MaxJump,   \* bound: ticks the clock may skip when the loop is busy
          MaxTime    \* bound: when the model's clock stops

(* Every boundary of the long interval is one of the short interval.  Time  *)
(* is the time of day in seconds: no interval is as long as it is old.      *)
ASSUME IntervalsAssumption ==
    /\ SHORT_POLL_INTERVAL \in Nat \ {0} /\ LONG_POLL_INTERVAL \in Nat \ {0}
    /\ \E times \in 1 .. LONG_POLL_INTERVAL : LONG_POLL_INTERVAL = SHORT_POLL_INTERVAL * times
    /\ TICK_INTERVAL_LIMIT \in Nat
ASSUME TimeAssumption ==
    /\ Start \in Nat /\ MaxTime \in Nat /\ MaxJump \in Nat
    /\ LONG_POLL_INTERVAL <= Start /\ SHORT_POLL_INTERVAL <= Start

VARIABLES
    now,              \* the timestamp of the clock's last tick
    _last_timestamp,
    last_recv_time,   \* when the user stream last delivered a message
    _poll_notifier,   \* whether the present event is set
    loop,             \* where _status_polling_loop is
    polled            \* history: when the last pass of the loop ended

vars == <<now, _last_timestamp, last_recv_time, _poll_notifier, loop, polled>>

Init ==
    /\ now = Start
    /\ _last_timestamp = 0 /\ last_recv_time = 0
    /\ _poll_notifier = FALSE
    /\ loop = "stopped" /\ polled = Start

----------------------------------------------------------------------------
_get_poll_interval(timestamp) ==
    IF timestamp - last_recv_time > TICK_INTERVAL_LIMIT THEN SHORT_POLL_INTERVAL
                                                        ELSE LONG_POLL_INTERVAL

(* Mutant of PollIsDue: looks for a multiple of the interval.               *)
OnTheInterval(timestamp) == timestamp % _get_poll_interval(timestamp) = 0

PollIsDue(timestamp) ==
    LET poll_interval == _get_poll_interval(timestamp) IN
    timestamp \div poll_interval > _last_timestamp \div poll_interval

tick(timestamp) ==
    /\ timestamp <= MaxTime
    /\ now' = timestamp
    /\ _poll_notifier' = (_poll_notifier \/ PollIsDue(timestamp))
    /\ _last_timestamp' = timestamp
    /\ UNCHANGED <<last_recv_time, loop, polled>>

(* The user stream's websocket receives a message, or ping.                 *)
receive_message ==
    /\ last_recv_time' = now
    /\ UNCHANGED <<now, _last_timestamp, _poll_notifier, loop, polled>>

----------------------------------------------------------------------------
notifier_awakes ==
    /\ loop = "waiting" /\ _poll_notifier
    /\ loop' = "updating"
    /\ UNCHANGED <<now, _last_timestamp, last_recv_time, _poll_notifier, polled>>

(* Mutant of updates_fetched: the event is not replaced.                    *)
updates_fetched_only ==
    /\ loop = "updating"
    /\ loop' = "waiting" /\ polled' = now
    /\ UNCHANGED <<now, _last_timestamp, last_recv_time, _poll_notifier>>

updates_fetched ==
    /\ loop = "updating"
    /\ loop' = "waiting"
    /\ _poll_notifier' = FALSE
    /\ polled' = now
    /\ UNCHANGED <<now, _last_timestamp, last_recv_time>>

(* Half a second later, in the same tick or not, the loop awaits the event, *)
(* which is still set.                                                      *)
update_fails ==
    /\ loop = "updating"
    /\ loop' = "waiting"
    /\ UNCHANGED <<now, _last_timestamp, last_recv_time, _poll_notifier, polled>>

(* Mutant of _stop_network: the time of the last tick is kept.              *)
_stop_network_keeping_time ==
    /\ _poll_notifier' = FALSE /\ UNCHANGED _last_timestamp

_stop_network ==
    /\ _last_timestamp' = 0
    /\ _poll_notifier' = FALSE

start_network ==
    /\ _stop_network
    /\ loop' = "waiting"
    /\ UNCHANGED <<now, last_recv_time, polled>>

stop_network ==
    /\ _stop_network
    /\ loop' = "stopped"
    /\ UNCHANGED <<now, last_recv_time, polled>>

Next ==
    \/ \E jump \in 1 .. MaxJump : tick(now + jump)
    \/ receive_message
    \/ notifier_awakes \/ updates_fetched \/ update_fails
    \/ start_network \/ stop_network

(* The event loop resumes what is ready, and not every update fails.        *)
Fairness == WF_vars(notifier_awakes) /\ SF_vars(updates_fetched)

Spec     == Init /\ [][Next]_vars
FairSpec == Spec /\ Fairness

----------------------------------------------------------------------------
TypeOK ==
    /\ now \in Nat /\ Start <= now
    /\ _last_timestamp \in {0, now} /\ last_recv_time \in 0 .. now
    /\ _poll_notifier \in BOOLEAN
    /\ loop \in {"stopped", "waiting", "updating"}
    /\ polled \in Start .. now

(* The loop rests when it waits for an event that is not set; after         *)
(* (re)starting the network the next tick sets it.                          *)
Resting == loop = "waiting" /\ ~_poll_notifier /\ _last_timestamp # 0

(* Whatever ticks were lost, skipped or fell on a restart, the loop never   *)
(* rests for as long as the long interval.                                  *)
RestIsBounded == Resting => now - polled < LONG_POLL_INTERVAL

(* While the user stream is silent, it never rests for as long as the short *)
(* interval.                                                                *)
silent == last_recv_time + TICK_INTERVAL_LIMIT

SilenceIsPolled ==
    Resting => now - polled < SHORT_POLL_INTERVAL \/ now - silent < SHORT_POLL_INTERVAL

(* What a tick asked for is done: the loop gets to a pass that succeeds,    *)
(* unless the network is stopped or restarted.                              *)
RequestsAreServed ==
    _poll_notifier /\ loop # "stopped" ~> ~_poll_notifier \/ loop = "stopped"
=============================================================================
