------------------------- MODULE BotLifecycleProofs -------------------------
(***************************************************************************)
(* Starting and stopping a bot, for any number of runs and of stop commands *)
(* under way.  A start command gets past its check only when no clock runs, *)
(* and none starts to run before it creates its own, so the one task that   *)
(* may run is the one the application knows.  Where no user is asked, the   *)
(* strategy and the clock are of the same run, and a stop command that      *)
(* cancels orders has removed the strategy of the run whose markets it has. *)
(***************************************************************************)
EXTENDS BotLifecycle, TLAPS

Underway  == {"checking", "confirming", "cancelling_dangling"}
CanTick   == {"scheduled", "running"}

(* No run has begun that no start command made.                             *)
RunsInOrder ==
    /\ strategy <= start.run /\ markets <= start.run /\ clock <= start.run /\ strategy_task <= start.run
    /\ \A r \in Runs : running[r] # "new" => r <= start.run
    /\ \A s \in Stops : stops[s].market <= start.run
    /\ start.at # "over" => in_start_check /\ start.run \in Runs

(* While a start command is under way no clock may run.                     *)
OneRun ==
    /\ \A r \in Runs : running[r] \in CanTick => strategy_task = r /\ start.at \notin Underway
    /\ start.at \in Underway => running[start.run] = "new"

ContextsAreLive ==
    \A r \in Runs :
        /\ running[r] \in {"new", "scheduled", "done"} => live[r] = {} /\ context[r] = {}
        /\ running[r] = "running" => live[r] = context[r]
        /\ running[r] = "cancelled" => live[r] \subseteq context[r]

(* Without a question to the user.                                          *)
OneClock ==
    /\ strategy = clock /\ start.at # "confirming"
    /\ start.at = "checking" => markets # start.run
    /\ start.at = "cancelling_dangling" =>
          clock \in {start.run, None} /\ "strategy" \notin children[start.run]
    /\ \A r \in Runs :
          /\ running[r] = "running" => clock = r
          /\ running[r] = "scheduled" => clock = r \/ (clock = None /\ "strategy" \notin children[r])

(* The strategy of the markets a stop command has does not trade.           *)
StopsRest ==
    \A s \in Stops : \A m \in Runs : stops[s].market = m =>
        /\ running[m] \in CanTick => "strategy" \notin children[m] \cup context[m]
        /\ start.at = "cancelling_dangling" /\ start.run = m => strategy # m
        /\ start.at = "checking" => start.run # m

IInv == /\ TypeOK /\ RunsInOrder /\ OneRun /\ ContextsAreLive
        /\ ~start.asks => OneClock /\ StopsRest

----------------------------------------------------------------------------
LEMMA RunNumbers == \A r \in Runs : r \in Nat /\ r # None /\ r \in Some /\ Some \subseteq Nat /\ None \in Some
  BY ConstantsAssumption DEF Runs, Some, None

LEMMA InitIInv == Init => IInv
  <1> SUFFICES ASSUME Init PROVE IInv
    OBVIOUS
  <1>1. PICK asks \in Gateways : start = [at |-> "over", run |-> 0, asks |-> asks]
    BY DEF Init
  <1>2. start.at = "over" /\ start.run = 0 /\ start \in [at : Places, run : Some, asks : BOOLEAN]
    BY <1>1, ConstantsAssumption DEF Places, Some, None
  <1>3. TypeOK
    BY <1>2 DEF Init, TypeOK, Some, None, States
  <1>4. RunsInOrder /\ OneRun /\ ContextsAreLive
    BY <1>2, RunNumbers DEF Init, RunsInOrder, OneRun, ContextsAreLive, None, Underway, CanTick
  <1>5. OneClock /\ StopsRest
    BY <1>2, RunNumbers DEF Init, OneClock, StopsRest, None
  <1> QED BY <1>3, <1>4, <1>5 DEF IInv

(* The start command moves on, or ends, and no other part changes.          *)
LEMMA StartMoves ==
    ASSUME IInv, NEW place \in Places \ {"checking", "confirming", "cancelling_dangling"},
           start' = [start EXCEPT !.at = place],
           in_start_check' \in BOOLEAN, place # "over" => in_start_check' = in_start_check /\ start.at # "over",
           markets' \in {markets, start.run}, markets' = markets \/ start.at # "over",
           UNCHANGED <<stops, strategy, clock, strategy_task, children, context, running, live>>
    PROVE  IInv'
  <1> USE DEF IInv
  <1>1. /\ start' \in [at : Places, run : Some, asks : BOOLEAN]
        /\ start'.at = place /\ start'.run = start.run /\ start'.asks = start.asks
    BY DEF TypeOK
  <1>2. TypeOK'
    BY <1>1 DEF TypeOK
  <1>3. RunsInOrder' /\ OneRun' /\ ContextsAreLive'
    BY <1>1, RunNumbers DEF RunsInOrder, OneRun, ContextsAreLive, TypeOK, Underway, Some
  <1>4. ~start.asks => OneClock' /\ StopsRest'
    BY <1>1 DEF OneClock, StopsRest
  <1> QED BY <1>1, <1>2, <1>3, <1>4

LEMMA StartCommandStep == IInv /\ start_command => IInv'
  <1> SUFFICES ASSUME IInv, start_command PROVE IInv'
    OBVIOUS
  <1> USE DEF IInv
  <1>1. /\ ~in_start_check /\ (strategy_task # None => running[strategy_task] = "done")
        /\ start.run < MaxRuns /\ start' = [start EXCEPT !.at = "checking", !.run = @ + 1]
        /\ in_start_check' = TRUE
        /\ UNCHANGED <<stops, strategy, markets, clock, strategy_task, children, context, running, live>>
    BY DEF start_command, start_is_refused, fields, clocks
  <1>2. /\ start' \in [at : Places, run : Some, asks : BOOLEAN] /\ start.run \in Nat
        /\ start'.at = "checking" /\ start'.run = start.run + 1 /\ start'.asks = start.asks
        /\ start'.run \in Runs
    <2>1. start \in [at : Places, run : Some, asks : BOOLEAN] /\ start.run \in Nat
      BY DEF TypeOK, Some, None, Runs
    <2>2. start.run + 1 \in Runs /\ start.run + 1 \in Some
      BY <1>1, <2>1, ConstantsAssumption DEF Runs, Some
    <2>3. start' = [start EXCEPT !.at = "checking", !.run = start.run + 1]
      BY <1>1
    <2>4. "checking" \in Places
      BY DEF Places
    <2> QED BY <2>1, <2>2, <2>3, <2>4
  <1>3. \A r \in Runs : running[r] \notin CanTick
    BY <1>1, RunNumbers DEF OneRun, CanTick
  <1>4. TypeOK'
    BY <1>1, <1>2 DEF TypeOK
  <1>5. RunsInOrder'
    BY <1>1, <1>2, RunNumbers DEF RunsInOrder, TypeOK, Some, None
  <1>6. running[start.run + 1] = "new"
    BY <1>2 DEF RunsInOrder
  <1>7. OneRun' /\ ContextsAreLive'
    BY <1>1, <1>2, <1>3, <1>6 DEF OneRun, ContextsAreLive, TypeOK
  <1>8. ~start.asks => OneClock' /\ StopsRest'
    <2> SUFFICES ASSUME ~start.asks PROVE OneClock' /\ StopsRest'
      OBVIOUS
    <2>1. markets # start'.run
      BY <1>2, RunNumbers DEF RunsInOrder, TypeOK, Some, None
    <2>2. OneClock'
      BY <1>1, <1>2, <2>1 DEF OneClock
    <2>3. \A s \in Stops : stops[s].market # start'.run
      <3>1. \A s \in Stops : stops[s].market \in Nat
        BY DEF TypeOK, Some, None, Runs
      <3> QED BY <1>2, <3>1 DEF RunsInOrder
    <2>4. StopsRest'
      BY <1>1, <1>2, <2>3 DEF StopsRest
    <2> QED BY <2>2, <2>4
  <1> QED BY <1>2, <1>4, <1>5, <1>7, <1>8

(* What the last part of a start command keeps, whoever calls it.           *)
LEMMA LaunchKeepsRuns ==
    ASSUME IInv, start.at \in Underway, NEW added \in SUBSET Iterators, launch(added),
           strategy' \in {strategy, start.run}, markets' \in {markets, start.run},
           clock' \in {clock, start.run}
    PROVE  /\ TypeOK' /\ RunsInOrder' /\ OneRun' /\ ContextsAreLive'
           /\ start'.at = "waiting_ready" /\ start'.run = start.run /\ start'.asks = start.asks
           /\ \A r \in Runs : running'[r] \in CanTick => r = start.run
           /\ running[start.run] = "new" /\ start.run \in Runs
  <1> USE DEF IInv
  <1> DEFINE run == start.run
             child == added \cup IF strategy' = run THEN {"strategy"} ELSE {}
  <1>1. /\ children' = [children EXCEPT ![run] = child]
        /\ strategy_task' = run /\ running' = [running EXCEPT ![run] = "scheduled"]
        /\ start' = [start EXCEPT !.at = "waiting_ready"]
        /\ UNCHANGED <<in_start_check, stops, context, live>>
    BY DEF launch, StartAt
  <1>2. /\ start.at # "over" /\ in_start_check /\ run \in Runs /\ running[run] = "new"
        /\ \A r \in Runs : running[r] \notin CanTick
    BY DEF Underway, RunsInOrder, OneRun
  <1>3. /\ start' \in [at : Places, run : Some, asks : BOOLEAN]
        /\ start'.at = "waiting_ready" /\ start'.run = run /\ start'.asks = start.asks
    BY <1>1 DEF TypeOK, Places
  <1>4. child \in SUBSET Iterators
    BY DEF Iterators
  <1>5. run \in Some
    BY <1>2 DEF Some
  <1>6. TypeOK'
    <2>1. children' \in [Runs -> SUBSET Iterators] /\ running' \in [Runs -> States]
      BY <1>1, <1>4 DEF TypeOK, States
    <2> QED BY <1>1, <1>3, <1>5, <2>1 DEF TypeOK
  <1>7. \A r \in Runs : running'[r] = IF r = run THEN "scheduled" ELSE running[r]
    BY <1>1 DEF TypeOK
  <1>8. RunsInOrder'
    <2>1. run <= run
      BY <1>2, RunNumbers
    <2> QED BY <1>1, <1>2, <1>3, <1>7, <2>1 DEF RunsInOrder
  <1>9. OneRun'
    BY <1>1, <1>2, <1>3, <1>7 DEF OneRun, Underway
  <1>10. ContextsAreLive'
    BY <1>1, <1>2, <1>7 DEF ContextsAreLive
  <1> QED BY <1>2, <1>3, <1>6, <1>7, <1>8, <1>9, <1>10

(* The clock is created, from a check that has just passed or a user's yes. *)
LEMMA StartMarketMakingStep ==
    ASSUME IInv, start_market_making,
           \/ start.at = "checking" /\ ~start.asks /\ strategy' = start.run /\ markets' = start.run
           \/ start.at = "confirming" /\ UNCHANGED <<strategy, markets>>
    PROVE  IInv'
  <1> USE DEF IInv
  <1> DEFINE run   == start.run
             added == IF markets' = None THEN {} ELSE {"market"}
  <1>1. /\ start.at \in Underway /\ in_start_check /\ run \in Runs /\ running[run] = "new"
        /\ \A r \in Runs : running[r] \notin CanTick
        /\ strategy' \in {strategy, run} /\ markets' \in {markets, run} /\ clock' = run
        /\ added \in SUBSET Iterators
    BY DEF start_market_making, Underway, RunsInOrder, OneRun, Iterators
  <1>2. ASSUME ~start.asks
        PROVE  start.at = "checking" /\ strategy' = run /\ \A s \in Stops : stops[s].market # run
    BY <1>1, <1>2 DEF OneClock, StopsRest
  <1>3. CASE launch(added)
    <2>1. /\ TypeOK' /\ RunsInOrder' /\ OneRun' /\ ContextsAreLive'
          /\ start'.at = "waiting_ready" /\ start'.run = run /\ start'.asks = start.asks
          /\ \A r \in Runs : running'[r] \in CanTick => r = run
      BY <1>1, <1>3, LaunchKeepsRuns
    <2>2. UNCHANGED stops
      BY <1>3 DEF launch
    <2>3. ~start.asks => OneClock'
      BY <1>1, <1>2, <2>1 DEF OneClock, CanTick
    <2>4. ~start.asks => StopsRest'
      BY <1>2, <2>1, <2>2 DEF StopsRest
    <2> QED BY <2>1, <2>3, <2>4
  <1>4. ASSUME NEW place \in {"over", "cancelling_dangling"}, start' = [start EXCEPT !.at = place],
               children' = [children EXCEPT ![run] = {"market"}],
               in_start_check' \in BOOLEAN, place # "over" => in_start_check',
               UNCHANGED <<stops, strategy_task, context, running, live>>
        PROVE  IInv'
    <2>1. /\ start' \in [at : Places, run : Some, asks : BOOLEAN]
          /\ start'.at = place /\ start'.run = run /\ start'.asks = start.asks
      BY <1>4 DEF TypeOK, Places
    <2>2. children' \in [Runs -> SUBSET Iterators] /\ children'[run] = {"market"}
      BY <1>1, <1>4 DEF TypeOK, Iterators
    <2>3. TypeOK'
      BY <1>1, <1>4, <2>1, <2>2 DEF TypeOK, Some
    <2>4. RunsInOrder'
      BY <1>1, <1>4, <2>1, RunNumbers DEF RunsInOrder
    <2>5. OneRun' /\ ContextsAreLive'
      BY <1>1, <1>4, <2>1 DEF OneRun, ContextsAreLive
    <2>6. ~start.asks => OneClock'
      BY <1>1, <1>2, <1>4, <2>1, <2>2 DEF OneClock, CanTick
    <2>7. ~start.asks => StopsRest'
      BY <1>1, <1>2, <1>4, <2>1 DEF StopsRest
    <2> QED BY <2>1, <2>3, <2>4, <2>5, <2>6, <2>7
  <1>5. CASE markets' # None /\ children' = [children EXCEPT ![run] = added] /\ StartReturns
             /\ UNCHANGED <<stops, strategy_task, kill_switch, context, running, live, switch>>
    BY <1>4, <1>5 DEF StartReturns, StartAt
  <1>6. CASE markets' # None /\ children' = [children EXCEPT ![run] = added]
             /\ StartAt("cancelling_dangling")
             /\ UNCHANGED <<in_start_check, stops, strategy_task, kill_switch>>
             /\ UNCHANGED <<context, running, live, switch>>
    BY <1>1, <1>4, <1>6 DEF StartAt, TypeOK
  <1> QED BY <1>3, <1>5, <1>6 DEF start_market_making

LEMMA ChecksPassStep == IInv /\ checks_pass => IInv'
  <1> SUFFICES ASSUME IInv, checks_pass PROVE IInv'
    OBVIOUS
  <1>1. start.at = "checking" /\ strategy' = start.run /\ markets' = start.run
    BY DEF checks_pass
  <1>2. CASE ~start.asks
    BY <1>1, <1>2, StartMarketMakingStep DEF checks_pass
  <1>3. CASE start.asks
    <2> USE DEF IInv
    <2>1. /\ start' = [start EXCEPT !.at = "confirming"]
          /\ UNCHANGED <<in_start_check, stops, clock, strategy_task, children, context, running, live>>
      BY <1>3 DEF checks_pass, StartAt, clocks
    <2>2. /\ start' \in [at : Places, run : Some, asks : BOOLEAN]
          /\ start'.at = "confirming" /\ start'.run = start.run /\ start'.asks = start.asks
      BY <2>1 DEF TypeOK, Places
    <2>3. start.run \in Runs /\ start.run \in Some
      BY <1>1 DEF RunsInOrder, Some
    <2>4. TypeOK'
      BY <1>1, <2>1, <2>2, <2>3 DEF TypeOK
    <2>5. RunsInOrder'
      BY <1>1, <2>1, <2>2, <2>3, RunNumbers DEF RunsInOrder
    <2>6. OneRun' /\ ContextsAreLive'
      BY <1>1, <2>1, <2>2 DEF OneRun, ContextsAreLive, Underway
    <2> QED BY <1>3, <2>2, <2>4, <2>5, <2>6
  <1> QED BY <1>2, <1>3 DEF IInv, TypeOK

LEMMA DanglingCancelledStep == IInv /\ dangling_cancelled => IInv'
  <1> SUFFICES ASSUME IInv, dangling_cancelled PROVE IInv'
    OBVIOUS
  <1> USE DEF IInv
  <1> DEFINE run == start.run
  <1>1. /\ start.at = "cancelling_dangling" /\ launch(children[run])
        /\ UNCHANGED <<strategy, markets, clock, stops, context>>
    BY DEF dangling_cancelled, launch
  <1>2. run \in Runs /\ children[run] \in SUBSET Iterators
    BY <1>1 DEF RunsInOrder, TypeOK
  <1>3. /\ TypeOK' /\ RunsInOrder' /\ OneRun' /\ ContextsAreLive'
        /\ start'.at = "waiting_ready" /\ start'.run = run /\ start'.asks = start.asks
        /\ \A r \in Runs : running'[r] \in CanTick => r = run
        /\ running[run] = "new"
    BY <1>1, <1>2, LaunchKeepsRuns DEF Underway
  <1>4. /\ running'[run] = "scheduled"
        /\ strategy # run => children'[run] = children[run]
    BY <1>1, <1>2 DEF launch, TypeOK
  <1>5. ~start.asks => OneClock'
    <2> SUFFICES ASSUME ~start.asks PROVE OneClock'
      OBVIOUS
    <2>1. strategy = clock /\ clock \in {run, None} /\ "strategy" \notin children[run] /\ run # None
      BY <1>1, <1>2, RunNumbers DEF OneClock
    <2>2. \A r \in Runs : running'[r] # "running"
      BY <1>3, <1>4 DEF CanTick
    <2>3. \A r \in Runs : running'[r] = "scheduled" => r = run
      BY <1>3 DEF CanTick
    <2> QED BY <1>1, <1>3, <1>4, <2>1, <2>2, <2>3 DEF OneClock
  <1>6. ~start.asks => StopsRest'
    <2> SUFFICES ASSUME ~start.asks, NEW s \in Stops, NEW m \in Runs, stops[s].market = m,
                        running'[m] \in CanTick
                 PROVE  "strategy" \notin children'[m] \cup context'[m]
      BY <1>1, <1>3 DEF StopsRest
    <2>1. m = run /\ strategy # m
      BY <1>1, <1>3 DEF StopsRest
    <2>2. children'[m] = children[run] /\ context[m] = {} /\ "strategy" \notin children[run]
      BY <1>1, <1>3, <1>4, <2>1 DEF ContextsAreLive, OneClock
    <2> QED BY <1>1, <2>2
  <1> QED BY <1>3, <1>5, <1>6

(* The other steps of a start command.                                      *)
LEMMA StartStepKeepsIInv == IInv /\ StartStep => IInv'
  <1> SUFFICES ASSUME IInv, StartStep PROVE IInv'
    OBVIOUS
  <1> USE DEF fields, clocks
  <1>1. "over" \in Places \ {"checking", "confirming", "cancelling_dangling"}
    BY DEF Places
  <1>2. ASSUME checks_fail \/ declined \/ dangling_raises \/ markets_ready PROVE IInv'
    BY <1>1, <1>2, StartMoves DEF checks_fail, declined, dangling_raises, markets_ready, StartReturns, StartAt
  <1>3. CASE checks_raise
    <2>1. in_start_check' \in BOOLEAN /\ start.at # "over"
      BY <1>3 DEF checks_raise, IInv, TypeOK
    <2> QED BY <1>1, <1>3, <2>1, StartMoves DEF checks_raise, StartAt
  <1>4. CASE checks_pass
    BY <1>4, ChecksPassStep
  <1>5. CASE confirmed
    BY <1>5, StartMarketMakingStep DEF confirmed
  <1>6. CASE dangling_cancelled
    BY <1>6, DanglingCancelledStep
  <1> QED BY <1>2, <1>3, <1>4, <1>5, <1>6 DEF StartStep

LEMMA RunClockStep == ASSUME IInv, NEW r \in Runs, run_clock(r) PROVE IInv'
  <1> USE DEF IInv
  <1>1. /\ running[r] = "scheduled"
        /\ UNCHANGED <<in_start_check, start, stops, strategy, markets, clock, strategy_task, children>>
    BY DEF run_clock, commands, fields
  <1>2. /\ strategy_task = r /\ start.at \notin Underway /\ live[r] = {} /\ context[r] = {}
        /\ r <= start.run
    BY <1>1 DEF OneRun, ContextsAreLive, RunsInOrder, CanTick
  <1>3. CASE clock = None
    <2>1. running' = [running EXCEPT ![r] = "done"] /\ UNCHANGED <<context, live>>
      BY <1>3 DEF run_clock
    <2>2. TypeOK'
      BY <1>1, <2>1 DEF TypeOK, States
    <2>3. RunsInOrder' /\ OneRun' /\ ContextsAreLive'
      BY <1>1, <1>2, <2>1 DEF RunsInOrder, OneRun, ContextsAreLive, TypeOK, CanTick
    <2>4. ~start.asks => OneClock' /\ StopsRest'
      BY <1>1, <2>1 DEF OneClock, StopsRest, TypeOK, CanTick
    <2> QED BY <1>1, <2>2, <2>3, <2>4
  <1>4. CASE clock # None
    <2>1. /\ running' = [running EXCEPT ![r] = "running"]
          /\ context' = [context EXCEPT ![r] = children[r]]
          /\ live' = [live EXCEPT ![r] = children[r]]
      BY <1>4 DEF run_clock
    <2>2. TypeOK'
      BY <1>1, <2>1 DEF TypeOK, States
    <2>3. RunsInOrder' /\ OneRun' /\ ContextsAreLive'
      BY <1>1, <1>2, <2>1 DEF RunsInOrder, OneRun, ContextsAreLive, TypeOK, CanTick
    <2>4. ~start.asks => OneClock' /\ StopsRest'
      BY <1>1, <1>4, <2>1 DEF OneClock, StopsRest, TypeOK, CanTick
    <2> QED BY <1>1, <2>2, <2>3, <2>4
  <1> QED BY <1>3, <1>4

LEMMA ClockExitsStep == ASSUME IInv, NEW r \in Runs, clock_exits(r) PROVE IInv'
  <1> USE DEF IInv
  <1>1. /\ running[r] = "cancelled" /\ running' = [running EXCEPT ![r] = "done"]
        /\ context' = [context EXCEPT ![r] = {}] /\ live' = [live EXCEPT ![r] = @ \ context[r]]
        /\ UNCHANGED <<in_start_check, start, stops, strategy, markets, clock, strategy_task, children>>
    BY DEF clock_exits, commands, fields
  <1>2. live[r] \subseteq context[r] /\ r <= start.run
    BY <1>1 DEF ContextsAreLive, RunsInOrder
  <1>3. TypeOK'
    BY <1>1 DEF TypeOK, States
  <1>4. RunsInOrder' /\ OneRun'
    BY <1>1, <1>2 DEF RunsInOrder, OneRun, TypeOK, CanTick
  <1>5. ContextsAreLive'
    BY <1>1, <1>2 DEF ContextsAreLive, TypeOK
  <1>6. ~start.asks => OneClock' /\ StopsRest'
    BY <1>1 DEF OneClock, StopsRest, TypeOK, CanTick
  <1> QED BY <1>1, <1>3, <1>4, <1>5, <1>6

(* Entering the phase in which orders are cancelled.                        *)
LEMMA CancelOrdersStep == ASSUME IInv, NEW s \in Stops, cancel_outstanding_orders(s) PROVE IInv'
  <1> USE DEF IInv
  <1>1. /\ stops' = [stops EXCEPT ![s] = [at |-> "cancelling", market |-> markets]]
        /\ IF clock # None THEN remove_iterator ELSE UNCHANGED <<children, context, live>>
        /\ UNCHANGED <<in_start_check, start, strategy, markets, clock, strategy_task, running>>
    BY DEF cancel_outstanding_orders, StopAt, fields
  <1>2. /\ stops' \in [Stops -> [at : {"over", "stopping_script", "cancelling"}, market : Some]]
        /\ \A q \in Stops : stops'[q].market = IF q = s THEN markets ELSE stops[q].market
    BY <1>1 DEF TypeOK
  <1>3. clock # None => /\ clock \in Runs /\ strategy = clock /\ "strategy" \in children[clock]
    BY <1>1 DEF remove_iterator, CanRemove, TypeOK, Some
  <1>4. \A r \in Runs :
           LET gone == IF r = clock THEN {"strategy"} ELSE {} IN
           /\ children'[r] = children[r] \ gone /\ context'[r] = context[r] \ gone
           /\ live'[r] = live[r] \ (context[r] \cap gone)
    BY <1>1, <1>3, RunNumbers DEF remove_iterator, TypeOK
  <1>5. /\ children' \in [Runs -> SUBSET Iterators] /\ context' \in [Runs -> SUBSET Iterators]
        /\ live' \in [Runs -> SUBSET Iterators]
    BY <1>1 DEF remove_iterator, TypeOK
  <1>6. TypeOK'
    BY <1>1, <1>2, <1>5 DEF TypeOK
  <1>7. RunsInOrder' /\ OneRun'
    BY <1>1, <1>2 DEF RunsInOrder, OneRun
  <1>8. ContextsAreLive'
    <2> SUFFICES ASSUME NEW r \in Runs
                 PROVE  /\ running[r] \in {"new", "scheduled", "done"} => live'[r] = {} /\ context'[r] = {}
                        /\ running[r] = "running" => live'[r] = context'[r]
                        /\ running[r] = "cancelled" => live'[r] \subseteq context'[r]
      BY <1>1 DEF ContextsAreLive
    <2>1. PICK gone : /\ context'[r] = context[r] \ gone
                      /\ live'[r] = live[r] \ (context[r] \cap gone)
      BY <1>4
    <2> QED BY <2>1 DEF ContextsAreLive
  <1>9. ~start.asks => OneClock'
    <2> SUFFICES ASSUME ~start.asks PROVE OneClock'
      OBVIOUS
    <2>1. \A r \in Runs : children'[r] \subseteq children[r]
      BY <1>4
    <2>2. start.at = "cancelling_dangling" => start.run \in Runs
      BY DEF RunsInOrder
    <2> QED BY <1>1, <2>1, <2>2 DEF OneClock
  <1>10. ~start.asks => StopsRest'
    <2> SUFFICES ASSUME ~start.asks, NEW q \in Stops, NEW m \in Runs, stops'[q].market = m
                 PROVE  /\ running[m] \in CanTick => "strategy" \notin children'[m] \cup context'[m]
                        /\ start.at = "cancelling_dangling" /\ start.run = m => strategy # m
                        /\ start.at = "checking" => start.run # m
      BY <1>1 DEF StopsRest
    <2>1. CASE q # s
      BY <1>2, <1>4, <2>1 DEF StopsRest
    <2>2. CASE q = s
      <3>1. markets = m
        BY <1>2, <2>2
      <3>2. running[m] \in CanTick => "strategy" \notin children'[m] \cup context'[m]
        <4>1. CASE running[m] = "running"
          BY <1>4, <4>1 DEF OneClock
        <4>2. CASE running[m] = "scheduled"
          BY <1>4, <4>2 DEF OneClock, ContextsAreLive
        <4> QED BY <4>1, <4>2 DEF CanTick
      <3>3. start.at = "cancelling_dangling" /\ start.run = m => strategy # m
        BY <1>3, RunNumbers DEF OneClock
      <3> QED BY <3>1, <3>2, <3>3 DEF OneClock
    <2> QED BY <2>1, <2>2
  <1> QED BY <1>1, <1>6, <1>7, <1>8, <1>9, <1>10

LEMMA StopFinishesStep == ASSUME IInv, NEW s \in Stops, stop_finishes(s) PROVE IInv'
  <1> USE DEF IInv
  <1>1. /\ stops' = [stops EXCEPT ![s] = [at |-> "over", market |-> None]]
        /\ IF strategy_task # None THEN Cancel(strategy_task) ELSE UNCHANGED running
        /\ markets' \in {None, markets} /\ strategy_task' = None /\ strategy' = None /\ clock' = None
        /\ UNCHANGED <<in_start_check, start, children, context, live>>
    BY DEF stop_finishes, StopAt
  <1>2. /\ stops' \in [Stops -> [at : {"over", "stopping_script", "cancelling"}, market : Some]]
        /\ \A q \in Stops : stops'[q].market = IF q = s THEN None ELSE stops[q].market
    BY <1>1, RunNumbers DEF TypeOK, Some
  <1>3. /\ running' \in [Runs -> States]
        /\ \A r \in Runs : running'[r] = CASE r = strategy_task /\ running[r] = "scheduled" -> "done"
                                           [] r = strategy_task /\ running[r] = "running" -> "cancelled"
                                           [] OTHER -> running[r]
    BY <1>1, RunNumbers DEF Cancel, TypeOK, States, Some
  <1>4. \A r \in Runs : running'[r] \notin CanTick
    BY <1>3 DEF OneRun, CanTick
  <1>5. TypeOK'
    BY <1>1, <1>2, <1>3 DEF TypeOK, Some
  <1>6. start.run \in Nat /\ None <= start.run
    BY DEF TypeOK, Some, Runs, None
  <1>7. RunsInOrder'
    BY <1>1, <1>2, <1>3, <1>6 DEF RunsInOrder
  <1>8. OneRun'
    <2>1. start.at \in Underway => start.run \in Runs
      BY DEF RunsInOrder, Underway
    <2> QED BY <1>1, <1>3, <1>4, <2>1 DEF OneRun
  <1>9. ContextsAreLive'
    BY <1>1, <1>3 DEF ContextsAreLive
  <1>10. ~start.asks => OneClock' /\ StopsRest'
    <2> SUFFICES ASSUME ~start.asks PROVE OneClock' /\ StopsRest'
      OBVIOUS
    <2>1. start.at = "checking" => markets' # start.run
      BY <1>1, RunNumbers DEF OneClock, RunsInOrder
    <2>2. OneClock'
      BY <1>1, <1>4, <2>1 DEF OneClock, CanTick
    <2>3. StopsRest'
      BY <1>1, <1>2, <1>4, RunNumbers DEF StopsRest
    <2> QED BY <2>2, <2>3
  <1> QED BY <1>1, <1>5, <1>7, <1>8, <1>9, <1>10

(* The steps that only begin or end a stop command.                         *)
LEMMA StopMoves ==
    ASSUME IInv, NEW s \in Stops, NEW place \in {"over", "stopping_script"}, StopAt(s, place, None),
           UNCHANGED <<in_start_check, start, strategy, markets, clock, strategy_task,
                       children, context, running, live>>
    PROVE  IInv'
  <1> USE DEF IInv
  <1>1. /\ stops' \in [Stops -> [at : {"over", "stopping_script", "cancelling"}, market : Some]]
        /\ \A q \in Stops : stops'[q].market = IF q = s THEN None ELSE stops[q].market
    BY RunNumbers DEF StopAt, TypeOK, Some
  <1>2. TypeOK'
    BY <1>1 DEF TypeOK
  <1>3. start.run \in Nat /\ None <= start.run
    BY DEF TypeOK, Some, Runs, None
  <1>4. RunsInOrder' /\ OneRun' /\ ContextsAreLive'
    BY <1>1, <1>3 DEF RunsInOrder, OneRun, ContextsAreLive
  <1>5. ~start.asks => OneClock' /\ StopsRest'
    BY <1>1, RunNumbers DEF OneClock, StopsRest
  <1> QED BY <1>2, <1>4, <1>5

LEMMA NothingMoves ==
    ASSUME IInv, UNCHANGED <<commands, fields, clocks>> PROVE IInv'
  BY DEF IInv, commands, fields, clocks, TypeOK, RunsInOrder, OneRun, ContextsAreLive, OneClock, StopsRest

LEMMA NextKeepsIInv == IInv /\ [Next]_vars => IInv'
  <1> SUFFICES ASSUME IInv, [Next]_vars PROVE IInv'
    OBVIOUS
  <1> USE DEF commands, fields, clocks
  <1>1. CASE start_command
    BY <1>1, StartCommandStep
  <1>2. CASE StartStep
    BY <1>2, StartStepKeepsIInv
  <1>3. ASSUME NEW s \in Stops, stop_command(s) \/ stop_raises(s) PROVE IInv'
    BY <1>3, StopMoves DEF stop_command, stop_raises
  <1>4. ASSUME NEW s \in Stops, cancel_outstanding_orders(s) \/ stop_finishes(s) PROVE IInv'
    BY <1>4, CancelOrdersStep, StopFinishesStep
  <1>5. ASSUME NEW r \in Runs, ClockStep(r) PROVE IInv'
    BY <1>5, RunClockStep, ClockExitsStep DEF ClockStep
  <1>6. ASSUME NEW r \in Runs, switch_starts(r) PROVE IInv'
    BY <1>6, NothingMoves DEF switch_starts
  <1>7. ASSUME NEW r \in Runs, NEW s \in Stops, threshold_reached(r, s) PROVE IInv'
    BY <1>7, StopMoves DEF threshold_reached
  <1>8. CASE UNCHANGED vars
    BY <1>8, NothingMoves DEF vars
  <1> QED BY <1>1, <1>2, <1>3, <1>4, <1>5, <1>6, <1>7, <1>8 DEF Next, StopStep

LEMMA IInvHolds == Spec => []IInv
  <1>1. Init => IInv
    BY InitIInv
  <1>2. IInv /\ [Next]_vars => IInv'
    BY NextKeepsIInv
  <1> QED BY <1>1, <1>2, PTL DEF Spec

----------------------------------------------------------------------------
(* No market or strategy outlives the clock that started it.                *)
THEOREM RunsLeaveNothingBehind == Spec => []OverIsStopped
  <1>1. IInv => OverIsStopped
    BY DEF IInv, ContextsAreLive, OverIsStopped
  <1> QED BY <1>1, IInvHolds, PTL

(* Two clocks never run side by side, and the one that runs can be stopped. *)
THEOREM OneBotAtATime == Spec => []RunningIsKnown
  <1>1. IInv => RunningIsKnown
    BY DEF IInv, OneRun, RunningIsKnown, CanTick
  <1> QED BY <1>1, IInvHolds, PTL

(* A strategy rests while its orders are being cancelled, unless the start  *)
(* command of its run had a question to the user.                           *)
THEOREM StrategiesRestWhileOrdersAreCancelled == Spec => []StrategyRestsDuringCancellation
  <1>1. IInv => StrategyRestsDuringCancellation
    <2> SUFFICES ASSUME IInv, ~start.asks, NEW s \in Stops, stops[s].market # None
                 PROVE  ~Ticking(stops[s].market)
      BY DEF StrategyRestsDuringCancellation, StrategyAlwaysRests
    <2>1. stops[s].market \in Runs
      BY DEF IInv, TypeOK, Some
    <2> QED BY <2>1 DEF IInv, StopsRest, Ticking, CanTick
  <1> QED BY <1>1, IInvHolds, PTL
=============================================================================
