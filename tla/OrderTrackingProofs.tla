------------------------ MODULE OrderTrackingProofs ------------------------
(***************************************************************************)
(* The order tracker and the two modules that use it, for every set of      *)
(* orders and trades, every limit and every bound: the tracker's safety     *)
(* invariants and its refinement of OrderLifecycle; crash recovery, for     *)
(* which what the recorder saves while its listeners run is enough; and the *)
(* connector beside an exchange, which uses the tracker as the tracker's    *)
(* module says, and announces no end that is not real.                      *)
(***************************************************************************)
EXTENDS MarketsRecorder, ExchangePyBase, WellFoundedInduction, FiniteSetTheorems, TLAPS

(* Induction on the subsets of a finite set, with a set for the predicate.  *)
LEMMA LeastNatural ==
    ASSUME NEW T, T \subseteq Nat, T # {}
    PROVE  \E n \in T : \A m \in T : n <= m
  <1> DEFINE R == {ss \in Nat \X Nat : ss[1] < ss[2]}
  <1>1. \E n \in T : \A m \in T : <<m, n>> \notin R
    <2>1. IsWellFoundedOn(R, Nat)
      BY NatLessThanWellFounded DEF OpToRel
    <2> HIDE DEF R
    <2> QED BY <2>1, WFMin
  <1>2. ASSUME NEW m \in Nat, NEW n \in Nat, m < n PROVE <<m, n>> \in R
    <2> DEFINE p == <<m, n>>
    <2>1. p \in Nat \X Nat /\ p[1] = m /\ p[2] = n
      OBVIOUS
    <2>2. p[1] < p[2]
      BY <2>1, <1>2
    <2> HIDE DEF p
    <2>3. p \in R
      BY <2>1, <2>2
    <2> QED BY <2>3 DEF p
  <1> HIDE DEF R
  <1>3. PICK n \in T : \A m \in T : <<m, n>> \notin R
    BY <1>1
  <1>4. ASSUME NEW m \in T PROVE n <= m
    <2>1. m \in Nat /\ n \in Nat /\ ~(m < n)
      BY <1>2, <1>3
    <2> QED BY <2>1
  <1> QED BY <1>4

LEMMA SubsetInduction ==
    ASSUME NEW S, IsFiniteSet(S), NEW B,
           \A T \in SUBSET S : (\A r \in SUBSET T : r # T => r \in B) => T \in B
    PROVE  S \in B
  <1> SUFFICES ASSUME S \notin B PROVE FALSE
    OBVIOUS
  <1> DEFINE Missing == {T \in SUBSET S : T \notin B}
             sizes   == {Cardinality(T) : T \in Missing}
  <1>1. \A T \in SUBSET S : IsFiniteSet(T) /\ Cardinality(T) \in Nat
    BY FS_Subset, FS_CardinalityType
  <1>2. sizes \subseteq Nat
    BY <1>1
  <1>3. sizes # {}
    OBVIOUS
  <1>4. PICK n \in sizes : \A m \in sizes : n <= m
    BY <1>2, <1>3, LeastNatural
  <1>5. PICK T \in Missing : n = Cardinality(T)
    BY <1>4
  <1>6. ASSUME NEW r \in SUBSET T, r # T PROVE r \in B
    <2>1. r \in SUBSET S /\ IsFiniteSet(T) /\ Cardinality(r) \in Nat /\ Cardinality(T) \in Nat
      BY <1>1
    <2>2. Cardinality(r) < Cardinality(T)
      BY <1>6, <2>1, FS_Subset
    <2>3. r \notin Missing
      <3>1. ASSUME r \in Missing PROVE FALSE
        <4>1. Cardinality(r) \in sizes
          BY <3>1
        <4>2. Cardinality(T) <= Cardinality(r)
          BY <1>4, <1>5, <4>1
        <4> QED BY <2>1, <2>2, <4>2
      <3> QED BY <3>1
    <2> QED BY <2>1, <2>3
  <1> QED BY <1>5, <1>6

Choice(s)   == CHOOSE x \in s : TRUE
Rest(s)     == s \ {Choice(s)}
Sums(g, f, T) == g = [s \in SUBSET T |-> IF s = {} THEN 0 ELSE f[Choice(s)] + g[Rest(s)]]
Sum(f, s)   == SumFunctionOnSet(f, s)
ChosenSum(f, s)  == IF s = {} THEN 0 ELSE f[Choice(s)] + Sum(f, Rest(s))

LEMMA SumIsChosen ==
    ASSUME NEW f, NEW S PROVE Sum(f, S) = (CHOOSE g : Sums(g, f, S))[S]
  BY DEF Sum, SumFunctionOnSet, FoldFunctionOnSet, MapThenFoldSet, Choice, Sums, Rest

LEMMA SumStep ==
    ASSUME NEW f, NEW S, IsFiniteSet(S)
    PROVE  Sum(f, S) = ChosenSum(f, S)
  <1> DEFINE B == {s \in SUBSET S : /\ Sum(f, s) = ChosenSum(f, s)
                                    /\ \A T \in SUBSET S : \A g :
                                          s \subseteq T /\ Sums(g, f, T) => g[s] = ChosenSum(f, s)}
  <1>1. ASSUME NEW s \in SUBSET S, s # {}
        PROVE  /\ Rest(s) \in SUBSET S /\ Rest(s) \in SUBSET s /\ Rest(s) # s
    BY <1>1 DEF Rest, Choice
  <1>2. ASSUME NEW T \in SUBSET S, \A r \in SUBSET T : r # T => r \in B
        PROVE  T \in B
    <2>1. ASSUME NEW U \in SUBSET S, NEW g, T \subseteq U, Sums(g, f, U)
          PROVE  g[T] = ChosenSum(f, T)
      <3>1. g[T] = IF T = {} THEN 0 ELSE f[Choice(T)] + g[Rest(T)]
        BY <2>1 DEF Sums
      <3>2. ASSUME T # {} PROVE g[Rest(T)] = Sum(f, Rest(T))
        <4>1. Rest(T) \in B /\ Rest(T) \subseteq U
          BY <1>1, <1>2, <2>1, <3>2
        <4>2. g[Rest(T)] = ChosenSum(f, Rest(T))
          BY <2>1, <4>1
        <4> QED BY <4>1, <4>2
      <3> QED BY <3>1, <3>2 DEF ChosenSum
    <2>2. \E g : Sums(g, f, T)
      <3> DEFINE G == [s \in SUBSET T |-> ChosenSum(f, s)]
      <3>1. ASSUME NEW s \in SUBSET T, s # {}
            PROVE  G[Rest(s)] = Sum(f, Rest(s))
        <4>1. Rest(s) \in SUBSET T /\ Rest(s) # T
          BY <1>1, <3>1
        <4>2. Rest(s) \in B
          BY <1>2, <4>1
        <4> QED BY <4>1, <4>2
      <3>2. \A s \in SUBSET T : G[s] = IF s = {} THEN 0 ELSE f[Choice(s)] + G[Rest(s)]
        BY <3>1 DEF ChosenSum
      <3>3. G = [s \in SUBSET T |-> IF s = {} THEN 0 ELSE f[Choice(s)] + G[Rest(s)]]
        BY <3>2
      <3> HIDE DEF G
      <3> QED BY <3>3 DEF Sums
    <2> DEFINE h == CHOOSE g : Sums(g, f, T)
    <2>3. Sums(h, f, T)
      BY <2>2
    <2>4. Sum(f, T) = h[T]
      BY SumIsChosen
    <2> HIDE DEF h
    <2>5. Sum(f, T) = ChosenSum(f, T)
      BY <2>1, <2>3, <2>4
    <2> QED BY <2>1, <2>5
  <1> HIDE DEF B
  <1>3. S \in B
    BY <1>2, SubsetInduction
  <1> QED BY <1>3 DEF B

LEMMA SumOfNothing == ASSUME NEW f PROVE SumFunctionOnSet(f, {}) = 0
  BY SumStep, FS_EmptySet DEF ChosenSum, Sum

LEMMA SumType ==
    ASSUME NEW S, IsFiniteSet(S), NEW f, \A x \in S : f[x] \in Nat
    PROVE  SumFunctionOnSet(f, S) \in Nat
  <1> DEFINE B == {s \in SUBSET S : Sum(f, s) \in Nat}
  <1>1. ASSUME NEW T \in SUBSET S, \A r \in SUBSET T : r # T => r \in B
        PROVE  T \in B
    <2>1. Sum(f, T) = ChosenSum(f, T)
      BY SumStep, FS_Subset
    <2>2. CASE T = {}
      BY <2>1, <2>2 DEF ChosenSum
    <2>3. CASE T # {}
      <3>1. Choice(T) \in T /\ Rest(T) \in SUBSET T /\ Rest(T) # T
        BY <2>3 DEF Rest, Choice
      <3>2. Sum(f, Rest(T)) \in Nat /\ f[Choice(T)] \in Nat
        BY <1>1, <3>1
      <3> QED BY <2>1, <2>3, <3>2 DEF ChosenSum
    <2> QED BY <2>2, <2>3
  <1> HIDE DEF B
  <1>2. S \in B
    BY <1>1, SubsetInduction
  <1> QED BY <1>2 DEF B, Sum

(* Any element can be taken out first.                                      *)
LEMMA SumWithout ==
    ASSUME NEW S, IsFiniteSet(S), NEW f, \A x \in S : f[x] \in Nat, NEW e \in S
    PROVE  SumFunctionOnSet(f, S) = SumFunctionOnSet(f, S \ {e}) + f[e]
  <1> DEFINE B == {s \in SUBSET S : \A x \in s : Sum(f, s) = Sum(f, s \ {x}) + f[x]}
  <1>0. \A s \in SUBSET S : IsFiniteSet(s) /\ Sum(f, s) \in Nat /\ Sum(f, s) = ChosenSum(f, s)
    BY SumStep, SumType, FS_Subset DEF Sum
  <1>1. ASSUME NEW T \in SUBSET S, \A r \in SUBSET T : r # T => r \in B
        PROVE  T \in B
    <2>1. ASSUME NEW x \in T PROVE Sum(f, T) = Sum(f, T \ {x}) + f[x]
      <3> DEFINE c == Choice(T)
      <3>1. c \in T /\ f[c] \in Nat /\ f[x] \in Nat
        BY DEF Choice
      <3>2. Sum(f, T) = f[c] + Sum(f, T \ {c})
        BY <1>0 DEF ChosenSum, Rest
      <3> HIDE DEF c
      <3>3. CASE x = c
        BY <1>0, <3>1, <3>2, <3>3
      <3>4. CASE x # c
        <4> DEFINE Q == T \ {x, c}
        <4>1. T \ {c} \in B /\ T \ {x} \in B
          BY <1>1, <3>1
        <4>2. (T \ {c}) \ {x} = Q /\ (T \ {x}) \ {c} = Q /\ x \in T \ {c} /\ c \in T \ {x}
          BY <3>1, <3>4
        <4>3. Sum(f, T \ {c}) = Sum(f, Q) + f[x] /\ Sum(f, T \ {x}) = Sum(f, Q) + f[c]
          BY <4>1, <4>2
        <4>4. Sum(f, Q) \in Nat
          BY <1>0
        <4> HIDE DEF Q
        <4> QED BY <3>1, <3>2, <4>3, <4>4
      <3> QED BY <3>3, <3>4
    <2> QED BY <2>1
  <1> HIDE DEF B
  <1>2. S \in B
    BY <1>1, SubsetInduction
  <1> QED BY <1>2 DEF B, Sum

LEMMA SumOfSubset ==
    ASSUME NEW S, IsFiniteSet(S), NEW f, \A x \in S : f[x] \in Nat, NEW R \in SUBSET S
    PROVE  SumFunctionOnSet(f, R) <= SumFunctionOnSet(f, S)
  <1> DEFINE B == {s \in SUBSET S : \A r \in SUBSET s : Sum(f, r) <= Sum(f, s)}
  <1>0. \A s \in SUBSET S : IsFiniteSet(s) /\ Sum(f, s) \in Nat
    BY SumType, FS_Subset DEF Sum
  <1>1. ASSUME NEW T \in SUBSET S, \A r \in SUBSET T : r # T => r \in B
        PROVE  T \in B
    <2>1. ASSUME NEW r \in SUBSET T PROVE Sum(f, r) <= Sum(f, T)
      <3>1. CASE r = T
        BY <1>0, <3>1
      <3>2. CASE r # T
        <4>1. PICK e \in T : e \notin r
          BY <3>2
        <4>2. Sum(f, T) = Sum(f, T \ {e}) + f[e]
          BY <1>0, SumWithout DEF Sum
        <4>3. Sum(f, r) <= Sum(f, T \ {e})
          BY <1>1, <4>1
        <4>4. Sum(f, r) \in Nat /\ Sum(f, T \ {e}) \in Nat /\ f[e] \in Nat
          BY <1>0
        <4> QED BY <4>2, <4>3, <4>4
      <3> QED BY <3>1, <3>2
    <2> QED BY <2>1
  <1> HIDE DEF B
  <1>2. S \in B
    BY <1>1, SubsetInduction
  <1> QED BY <1>2 DEF B, Sum

----------------------------------------------------------------------------
(* What the scheduled and the suspended tasks carry.                        *)
CarriesReport(u) == /\ u.order \in started
                    /\ u.new_state \in OpenStates \cup FinalStates

TasksCarryReports ==
    /\ \A i \in 1 .. Len(tasks) : CarriesReport(tasks[i])
    /\ \A i \in 1 .. Len(waiting) : CarriesReport(waiting[i])

NothingSaidOfNewOrders == \A o \in Orders \ started : notified[o] = {}

IInv == /\ TypeOK /\ ActiveAreOpen /\ TrackedOnce /\ NotFoundBounded
        /\ EndedAreAnnounced /\ TasksCarryReports /\ NothingSaidOfNewOrders

----------------------------------------------------------------------------
(* Applying an update or a trade to an object gives an object, and the      *)
(* state it has is the old one or the reported one.                         *)
LEMMA UpdateType ==
    ASSUME NEW ord \in Object, NEW u \in OrderUpdate
    PROVE  /\ update_with_order_update(ord, u) \in Object
           /\ update_with_order_update(ord, u) # ord
                => update_with_order_update(ord, u).state = u.new_state
  BY DEF update_with_order_update, Object, OrderUpdate

LEMMA TradeType ==
    ASSUME NEW ord \in Object, NEW t \in Trades
    PROVE  /\ update_with_trade_update(ord, t) \in Object
           /\ update_with_trade_update(ord, t).state = ord.state
  <1>1. FillAmount[t] \in Nat
    BY FillAmountAssumption
  <1>2. ord.fills \cup {t} \in SUBSET Trades /\ ord.executed + FillAmount[t] \in Nat
    BY <1>1 DEF Object
  <1>3. update_with_trade_update(ord, t) \in Object
    BY <1>2 DEF update_with_trade_update, Object
  <1>4. update_with_trade_update(ord, t).state = ord.state
    BY DEF update_with_trade_update, Object
  <1> QED BY <1>3, <1>4

(* The events of a change: none that ends the order while it is open, and   *)
(* exactly then.                                                            *)
LEMMA EventsEndClosedOrders ==
    ASSUME NEW old \in Object, NEW new \in Object,
           new.state \in OpenStates \cup FinalStates
    PROVE  /\ EventsOf(old, new) \in SUBSET EventKinds
           /\ is_open(new) <=> EventsOf(old, new) \cap TerminalEvents = {}
  <1> DEFINE T == EventsOf(old, new) \cap TerminalEvents
  <1>1. EventsOf(old, new) \in SUBSET EventKinds
    BY DEF EventsOf, CreatedEvent, CompletionEvent, EventKinds, TerminalEvents
  <1>2. CASE is_open(new)
    BY <1>1, <1>2 DEF EventsOf, CreatedEvent, CompletionEvent, TerminalEvents
  <1>3. CASE ~is_open(new)
    <2>1. new.state \in FinalStates
      BY <1>3 DEF is_open
    <2>2. CompletionEvent(new) \cap TerminalEvents # {}
      BY <1>3, <2>1 DEF CompletionEvent, TerminalEvents, FinalStates,
         is_cancelled, is_filled, is_failure
    <2> QED BY <1>1, <1>3, <2>2 DEF EventsOf
  <1> QED BY <1>2, <1>3

(* The core of the induction: applying a report, now or after a wait, to    *)
(* an object that may have changed since it was fetched.                    *)
Core == /\ ActiveAreOpen /\ TrackedOnce /\ NotFoundBounded
        /\ EndedAreAnnounced /\ NothingSaidOfNewOrders

LEMMA ApplyUpdateKeepsCore ==
    ASSUME TypeOK, Core, NEW u \in OrderUpdate, CarriesReport(u),
           ApplyUpdate(u), started' = started
    PROVE  Core'
  <1> DEFINE o == u.order
             old == order[o]
             new == update_with_order_update(old, u)
  <1>0. o \in Orders /\ o \in started /\ old \in Object
    BY DEF OrderUpdate, CarriesReport, TypeOK
  <1>1. /\ new \in Object
        /\ new # old => new.state \in OpenStates \cup FinalStates
    BY <1>0, UpdateType DEF CarriesReport
  <1> HIDE DEF new
  <1>2. /\ order' = [order EXCEPT ![o] = new]
        /\ notified' = [notified EXCEPT ![o] =
                           @ \cup (IF old # new THEN EventsOf(old, new) ELSE {})]
        /\ active' = active \ Untracked(u)
        /\ cached' = cached \cup Untracked(u)
        /\ not_found' = [p \in Orders |-> IF p \in Untracked(u) THEN 0 ELSE not_found[p]]
        /\ lost' = lost
    BY DEF ApplyUpdate, updated, new
  <1>3. Untracked(u) = IF old # new /\ ~is_open(new) THEN active \cap {o} ELSE {}
    BY DEF Untracked, updated, new
  <1>4. order'[o] = new /\ \A p \in Orders \ {o} : order'[p] = order[p]
    BY <1>0, <1>2 DEF TypeOK
  <1>5. /\ notified'[o] = notified[o] \cup (IF old # new THEN EventsOf(old, new) ELSE {})
        /\ \A p \in Orders \ {o} : notified'[p] = notified[p]
    BY <1>0, <1>2 DEF TypeOK
  <1>6. ActiveAreOpen'
    BY <1>2, <1>3, <1>4 DEF Core, ActiveAreOpen, TypeOK
  <1>7. TrackedOnce'
    BY <1>2, <1>3 DEF Core, TrackedOnce
  <1>8. NotFoundBounded'
    BY <1>2, <1>3, LimitAssumption DEF Core, NotFoundBounded, TypeOK
  <1>9. NothingSaidOfNewOrders'
    BY <1>0, <1>5 DEF Core, NothingSaidOfNewOrders
  <1>10. EndedAreAnnounced'
    <2> SUFFICES ASSUME NEW p \in started
                 PROVE  p \in active' <=> notified'[p] \cap TerminalEvents = {}
      BY DEF EndedAreAnnounced
    <2>0. p \in Orders
      BY DEF TypeOK
    <2>1. CASE p # o
      <3>1. p \in active' <=> p \in active
        BY <1>2, <1>3, <2>1
      <3>2. notified'[p] = notified[p]
        BY <1>5, <2>0, <2>1
      <3> QED BY <3>1, <3>2 DEF Core, EndedAreAnnounced
    <2>2. CASE p = o /\ old = new
      BY <1>2, <1>3, <1>5, <2>2 DEF Core, EndedAreAnnounced
    <2>3. CASE p = o /\ old # new
      <3>1. is_open(new) <=> EventsOf(old, new) \cap TerminalEvents = {}
        BY <1>0, <1>1, <2>3, EventsEndClosedOrders
      <3>2. o \in active' <=> o \in active /\ is_open(new)
        BY <1>2, <1>3, <2>3
      <3>3. o \in active <=> notified[o] \cap TerminalEvents = {}
        BY <1>0 DEF Core, EndedAreAnnounced
      <3> QED BY <1>5, <2>3, <3>1, <3>2, <3>3
    <2> QED BY <2>1, <2>2, <2>3
  <1> QED BY <1>6, <1>7, <1>8, <1>9, <1>10 DEF Core

(* The types, under the same step.                                          *)
LEMMA ApplyUpdateType ==
    ASSUME TypeOK, NEW u \in OrderUpdate, CarriesReport(u), ApplyUpdate(u)
    PROVE  /\ order' \in [Orders -> Object]
           /\ active' \in SUBSET Orders /\ cached' \in SUBSET Orders
           /\ lost' = lost /\ not_found' \in [Orders -> Nat]
           /\ notified' \in [Orders -> SUBSET EventKinds]
           /\ fill_events' = fill_events
  <1> DEFINE o == u.order
             old == order[o]
             new == update_with_order_update(old, u)
  <1>0. o \in Orders /\ old \in Object
    BY DEF OrderUpdate, TypeOK
  <1>1. /\ new \in Object
        /\ new # old => new.state \in OpenStates \cup FinalStates
    BY <1>0, UpdateType DEF CarriesReport
  <1>2. old # new => EventsOf(old, new) \in SUBSET EventKinds
    BY <1>0, <1>1, EventsEndClosedOrders
  <1>3. order' = [order EXCEPT ![o] = new]
    BY DEF ApplyUpdate
  <1>4. notified' = [notified EXCEPT ![o] =
                       @ \cup (IF old # new THEN EventsOf(old, new) ELSE {})]
    BY DEF ApplyUpdate, updated
  <1> HIDE DEF new
  <1>5. order' \in [Orders -> Object]
    BY <1>0, <1>1, <1>3 DEF TypeOK
  <1>6. notified' \in [Orders -> SUBSET EventKinds]
    BY <1>0, <1>2, <1>4 DEF TypeOK
  <1>7. Untracked(u) \subseteq active
    BY DEF Untracked
  <1>8. /\ active' \in SUBSET Orders /\ cached' \in SUBSET Orders
        /\ not_found' \in [Orders -> Nat]
    BY <1>7 DEF ApplyUpdate, TypeOK
  <1> QED BY <1>5, <1>6, <1>8 DEF ApplyUpdate

(* A task carries a report of an order that stays started.                  *)
LEMMA HeadCarriesReport ==
    ASSUME TypeOK, TasksCarryReports
    PROVE  /\ tasks # <<>> => Head(tasks) \in OrderUpdate /\ CarriesReport(Head(tasks))
           /\ waiting # <<>> => Head(waiting) \in OrderUpdate /\ CarriesReport(Head(waiting))
  <1>1. ASSUME NEW q \in Seq(OrderUpdate), q # <<>>
        PROVE  Head(q) \in OrderUpdate /\ Head(q) = q[1] /\ 1 \in 1 .. Len(q)
    BY <1>1
  <1> QED BY <1>1 DEF TypeOK, TasksCarryReports

LEMMA TailCarriesReports ==
    ASSUME TypeOK, TasksCarryReports, tasks # <<>>
    PROVE  /\ Tail(tasks) \in Seq(OrderUpdate)
           /\ \A i \in 1 .. Len(Tail(tasks)) : CarriesReport(Tail(tasks)[i])
  BY DEF TypeOK, TasksCarryReports

LEMMA StopWaitingCarriesReports ==
    ASSUME TypeOK, TasksCarryReports, NEW i \in 1 .. Len(waiting), StopWaiting(i)
    PROVE  /\ waiting' \in Seq(OrderUpdate)
           /\ \A k \in 1 .. Len(waiting') : CarriesReport(waiting'[k])
  <1> DEFINE n == Len(waiting) - 1
  <1>1. n \in Nat /\ \A k \in 1 .. n : k \in 1 .. Len(waiting) /\ k + 1 \in 1 .. Len(waiting)
    BY DEF TypeOK
  <1>2. \A k \in 1 .. n : /\ waiting[k] \in OrderUpdate /\ waiting[k + 1] \in OrderUpdate
                          /\ CarriesReport(waiting[k]) /\ CarriesReport(waiting[k + 1])
    BY <1>1 DEF TypeOK, TasksCarryReports
  <1>3. waiting' = [k \in 1 .. n |-> IF k < i THEN waiting[k] ELSE waiting[k + 1]]
    BY DEF StopWaiting
  <1>4. waiting' \in Seq(OrderUpdate) /\ Len(waiting') = n
    BY <1>1, <1>2, <1>3
  <1>5. \A k \in 1 .. n : waiting'[k].order \in started /\ waiting'[k].new_state \in OpenStates \cup FinalStates
    BY <1>2, <1>3 DEF CarriesReport
  <1> QED BY <1>4, <1>5 DEF CarriesReport

----------------------------------------------------------------------------
LEMMA InitIInv == Init => IInv
  <1> SUFFICES ASSUME Init PROVE IInv
    OBVIOUS
  <1>1. \A o \in Orders : NewInFlightOrder(o) \in Object
    BY AmountAssumption DEF NewInFlightOrder, Object, OrderState
  <1>2. TypeOK
    BY <1>1 DEF Init, TypeOK
  <1>3. Core
    BY LimitAssumption DEF Init, Core, ActiveAreOpen, TrackedOnce, NotFoundBounded,
       EndedAreAnnounced, NothingSaidOfNewOrders
  <1>4. TasksCarryReports
    BY DEF Init, TasksCarryReports
  <1> QED BY <1>2, <1>3, <1>4 DEF IInv, Core

(* The steps that apply a report keep the invariant.                        *)
LEMMA RunTaskKeepsIInv == IInv /\ RunTask => IInv'
  <1> SUFFICES ASSUME IInv, RunTask PROVE IInv'
    OBVIOUS
  <1> DEFINE u == Head(tasks)
  <1>0. u \in OrderUpdate /\ CarriesReport(u)
    BY HeadCarriesReport DEF IInv, RunTask
  <1>1. TasksCarryReports' /\ tasks' \in Seq(OrderUpdate) /\ waiting' = waiting
    BY TailCarriesReports DEF IInv, RunTask, TasksCarryReports, CarriesReport
  <1>2. started' = started
    BY DEF RunTask
  <1>3. CASE ApplyUpdate(u)
    <2>1. Core'
      BY <1>0, <1>2, <1>3, ApplyUpdateKeepsCore DEF IInv, Core
    <2>2. TypeOK'
      BY <1>0, <1>1, <1>2, <1>3, ApplyUpdateType DEF IInv, TypeOK
    <2> QED BY <1>1, <2>1, <2>2 DEF IInv, Core
  <1>4. CASE ForgetLost(u)
    <2>1. lost' \subseteq lost
      BY <1>4 DEF ForgetLost
    <2>2. Core'
      BY <1>2, <1>4, <2>1 DEF IInv, Core, ForgetLost, ActiveAreOpen, TrackedOnce,
         NotFoundBounded, EndedAreAnnounced, NothingSaidOfNewOrders
    <2>3. TypeOK'
      BY <1>1, <1>2, <1>4, <2>1 DEF IInv, TypeOK, ForgetLost
    <2> QED BY <1>1, <2>2, <2>3 DEF IInv, Core
  <1>5. CASE IgnoreUpdate(u)
    <2>1. Core'
      BY <1>2, <1>5 DEF IInv, Core, IgnoreUpdate, containers, history, ActiveAreOpen,
         TrackedOnce, NotFoundBounded, EndedAreAnnounced, NothingSaidOfNewOrders
    <2>2. TypeOK'
      BY <1>1, <1>2, <1>5 DEF IInv, TypeOK, IgnoreUpdate, containers, history
    <2> QED BY <1>1, <2>1, <2>2 DEF IInv, Core
  <1> QED BY <1>3, <1>4, <1>5 DEF RunTask

LEMMA StopWaitingKeepsIInv ==
    ASSUME IInv, NEW i \in 1 .. Len(waiting), ApplyUpdate(waiting[i]), StopWaiting(i),
           UNCHANGED <<started, tasks>>
    PROVE  IInv'
  <1>1. waiting[i] \in OrderUpdate /\ CarriesReport(waiting[i])
    BY DEF IInv, TypeOK, TasksCarryReports
  <1>2. Core'
    BY <1>1, ApplyUpdateKeepsCore DEF IInv, Core
  <1>3. /\ waiting' \in Seq(OrderUpdate)
        /\ \A k \in 1 .. Len(waiting') : CarriesReport(waiting'[k])
    BY StopWaitingCarriesReports DEF IInv
  <1>4. TypeOK'
    BY <1>1, <1>3, ApplyUpdateType DEF IInv, TypeOK
  <1>5. TasksCarryReports'
    BY <1>3 DEF IInv, TasksCarryReports, CarriesReport
  <1> QED BY <1>2, <1>4, <1>5 DEF IInv, Core

(* The lookup failure that passes the limit moves the order as a whole.     *)
LEMMA DeclareLostKeepsIInv ==
    ASSUME IInv, NEW o \in Orders, declare_lost(o)
    PROVE  IInv'
  <1> DEFINE failed == [order[o] EXCEPT !.state = "FAILED"]
  <1>1. order[o] \in Object /\ failed \in Object /\ failed.state = "FAILED" /\ ~is_open(failed)
    BY DEF IInv, TypeOK, Object, OrderState, is_open, OpenStates
  <1> HIDE DEF failed
  <1>2. /\ EventsOf(order[o], failed) \in SUBSET EventKinds
        /\ EventsOf(order[o], failed) \cap TerminalEvents # {}
    BY <1>1, EventsEndClosedOrders DEF FinalStates
  <1>3. /\ o \in active
        /\ order' = [order EXCEPT ![o] = failed]
        /\ notified' = [notified EXCEPT ![o] = @ \cup EventsOf(order[o], failed)]
        /\ active' = active \ {o} /\ cached' = cached \ {o} /\ lost' = lost \cup {o}
        /\ not_found' = [not_found EXCEPT ![o] = 0]
        /\ UNCHANGED <<started, tasks, waiting, fill_events>>
    BY DEF declare_lost, failed
  <1>4. TypeOK'
    BY <1>1, <1>2, <1>3 DEF IInv, TypeOK
  <1>5. ActiveAreOpen' /\ TrackedOnce'
    BY <1>3 DEF IInv, TypeOK, ActiveAreOpen, TrackedOnce
  <1>6. NotFoundBounded'
    BY <1>3, LimitAssumption DEF IInv, TypeOK, NotFoundBounded
  <1>7. EndedAreAnnounced' /\ NothingSaidOfNewOrders'
    BY <1>2, <1>3 DEF IInv, TypeOK, EndedAreAnnounced, NothingSaidOfNewOrders, TrackedOnce
  <1>8. TasksCarryReports'
    BY <1>3 DEF IInv, TasksCarryReports, CarriesReport
  <1> QED BY <1>4, <1>5, <1>6, <1>7, <1>8 DEF IInv

LEMMA CountNotFoundKeepsIInv ==
    ASSUME IInv, NEW o \in Orders, count_not_found(o)
    PROVE  IInv'
  <1>1. order[o].state \notin FinalStates
    BY DEF IInv, ActiveAreOpen, is_open, OpenStates, FinalStates, count_not_found
  <1>2. not_found[o] \in Nat /\ not_found[o] + 1 <= LostOrderLimit
    BY <1>1, LimitAssumption DEF IInv, TypeOK, count_not_found, GivesUpOn
  <1>3. NotFoundBounded'
    BY <1>2 DEF IInv, TypeOK, NotFoundBounded, count_not_found
  <1>4. TypeOK'
    BY <1>2 DEF IInv, TypeOK, count_not_found, history
  <1> QED BY <1>3, <1>4 DEF IInv, count_not_found, history, ActiveAreOpen, TrackedOnce,
       EndedAreAnnounced, NothingSaidOfNewOrders, TasksCarryReports, CarriesReport

LEMMA LostNotFoundKeepsIInv ==
    ASSUME IInv, NEW o \in Orders, lost_not_found(o)
    PROVE  IInv'
  <1> DEFINE u == FailedUpdate(o)
  <1>0. u \in OrderUpdate /\ CarriesReport(u)
    BY DEF FailedUpdate, OrderUpdate, OrderState, CarriesReport, FinalStates,
       lost_not_found, IInv, TrackedOnce
  <1>1. UNCHANGED <<started, tasks, waiting>>
    BY DEF lost_not_found
  <1>2. TasksCarryReports'
    BY <1>1 DEF IInv, TasksCarryReports, CarriesReport
  <1>3. CASE ApplyUpdate(u)
    <2>1. Core'
      BY <1>0, <1>1, <1>3, ApplyUpdateKeepsCore DEF IInv, Core
    <2>2. TypeOK'
      BY <1>0, <1>1, <1>3, ApplyUpdateType DEF IInv, TypeOK
    <2> QED BY <1>2, <2>1, <2>2 DEF IInv, Core
  <1>4. CASE ForgetLost(u)
    <2>1. lost' \subseteq lost /\ UNCHANGED <<order, active, cached, not_found, notified, fill_events>>
      BY <1>4 DEF ForgetLost
    <2> QED BY <1>1, <1>2, <2>1 DEF IInv, TypeOK, ActiveAreOpen, TrackedOnce,
       NotFoundBounded, EndedAreAnnounced, NothingSaidOfNewOrders
  <1> QED BY <1>3, <1>4 DEF lost_not_found

LEMMA TradeKeepsIInv ==
    ASSUME IInv, NEW o \in Orders, NEW t \in Trades, process_trade_update(o, t)
    PROVE  IInv'
  <1> DEFINE new == update_with_trade_update(order[o], t)
  <1>0. order[o] \in Object
    BY DEF IInv, TypeOK
  <1>1. new \in Object /\ new.state = order[o].state
    BY <1>0, TradeType
  <1>2. /\ order' = [order EXCEPT ![o] = new]
        /\ UNCHANGED <<started, active, cached, lost, not_found, tasks, waiting, notified>>
    BY DEF process_trade_update, containers
  <1>3. fill_events' \in [Orders -> [Trades -> 0 .. 2]]
    BY DEF IInv, TypeOK, process_trade_update
  <1> HIDE DEF new
  <1>4. TypeOK'
    BY <1>1, <1>2, <1>3 DEF IInv, TypeOK
  <1>5. ActiveAreOpen'
    BY <1>1, <1>2 DEF IInv, TypeOK, ActiveAreOpen, is_open
  <1> QED BY <1>2, <1>4, <1>5 DEF IInv, TrackedOnce, NotFoundBounded,
       EndedAreAnnounced, NothingSaidOfNewOrders, TasksCarryReports, CarriesReport

LEMMA StartKeepsIInv ==
    ASSUME IInv, NEW o \in Orders, start_tracking_order(o)
    PROVE  IInv'
  <1> DEFINE new == NewInFlightOrder(o)
  <1>1. new \in Object /\ is_open(new)
    BY AmountAssumption DEF NewInFlightOrder, Object, OrderState, is_open, OpenStates
  <1>2. /\ o \notin started /\ started' = started \cup {o} /\ active' = active \cup {o}
        /\ order' = [order EXCEPT ![o] = new]
        /\ UNCHANGED <<cached, lost, not_found, tasks, waiting, notified, fill_events>>
    BY DEF start_tracking_order, history
  <1> HIDE DEF new
  <1>3. TypeOK'
    BY <1>1, <1>2 DEF IInv, TypeOK
  <1>4. ActiveAreOpen' /\ TrackedOnce'
    BY <1>1, <1>2 DEF IInv, TypeOK, ActiveAreOpen, TrackedOnce
  <1>5. EndedAreAnnounced' /\ NothingSaidOfNewOrders' /\ NotFoundBounded'
    BY <1>2 DEF IInv, TypeOK, EndedAreAnnounced, NothingSaidOfNewOrders, NotFoundBounded
  <1>6. TasksCarryReports'
    BY <1>2 DEF IInv, TasksCarryReports, CarriesReport
  <1> QED BY <1>3, <1>4, <1>5, <1>6 DEF IInv

LEMMA ScheduleKeepsIInv ==
    ASSUME IInv, NEW u \in OrderUpdate, process_order_update(u)
    PROVE  IInv'
  <1>1. /\ CarriesReport(u) /\ tasks' = Append(tasks, u)
        /\ UNCHANGED <<order, started, active, cached, lost, not_found, waiting,
                       notified, fill_events>>
    BY ReportedAssumption DEF process_order_update, CarriesReport, containers, history
  <1>2. tasks' \in Seq(OrderUpdate) /\ \A i \in 1 .. Len(tasks') : CarriesReport(tasks'[i])
    BY <1>1 DEF IInv, TypeOK, TasksCarryReports
  <1> QED BY <1>1, <1>2 DEF IInv, TypeOK, ActiveAreOpen, TrackedOnce, NotFoundBounded,
       EndedAreAnnounced, NothingSaidOfNewOrders, TasksCarryReports, CarriesReport

LEMMA BeginWaitKeepsIInv == IInv /\ BeginWait => IInv'
  <1> SUFFICES ASSUME IInv, BeginWait PROVE IInv'
    OBVIOUS
  <1>1. /\ Head(tasks) \in OrderUpdate /\ CarriesReport(Head(tasks))
        /\ waiting' = Append(waiting, Head(tasks)) /\ tasks' = Tail(tasks)
        /\ UNCHANGED <<order, started, active, cached, lost, not_found,
                       notified, fill_events>>
    BY HeadCarriesReport DEF IInv, BeginWait, containers, history
  <1>2. waiting' \in Seq(OrderUpdate) /\ \A i \in 1 .. Len(waiting') : CarriesReport(waiting'[i])
    BY <1>1 DEF IInv, TypeOK, TasksCarryReports
  <1>3. tasks' \in Seq(OrderUpdate) /\ \A i \in 1 .. Len(tasks') : CarriesReport(tasks'[i])
    BY <1>1, TailCarriesReports DEF IInv, BeginWait
  <1> QED BY <1>1, <1>2, <1>3 DEF IInv, TypeOK, ActiveAreOpen, TrackedOnce,
       NotFoundBounded, EndedAreAnnounced, NothingSaidOfNewOrders, TasksCarryReports,
       CarriesReport

LEMMA ExpireKeepsIInv ==
    ASSUME IInv, NEW o \in Orders, expire_cached(o)
    PROVE  IInv'
  BY DEF expire_cached, history, IInv, TypeOK, ActiveAreOpen, TrackedOnce, NotFoundBounded,
     EndedAreAnnounced, NothingSaidOfNewOrders, TasksCarryReports, CarriesReport

LEMMA NextKeepsIInv == IInv /\ [Next]_vars => IInv'
  <1> SUFFICES ASSUME IInv, [Next]_vars PROVE IInv'
    OBVIOUS
  <1>1. ASSUME NEW o \in Orders, start_tracking_order(o) PROVE IInv'
    BY <1>1, StartKeepsIInv
  <1>2. ASSUME NEW o \in Orders, count_not_found(o) PROVE IInv'
    BY <1>2, CountNotFoundKeepsIInv
  <1>3. ASSUME NEW o \in Orders, declare_lost(o) PROVE IInv'
    BY <1>3, DeclareLostKeepsIInv
  <1>4. ASSUME NEW o \in Orders, lost_not_found(o) PROVE IInv'
    BY <1>4, LostNotFoundKeepsIInv
  <1>5. ASSUME NEW o \in Orders, expire_cached(o) PROVE IInv'
    BY <1>5, ExpireKeepsIInv
  <1>6. ASSUME NEW o \in Orders, NEW t \in Trades, process_trade_update(o, t) PROVE IInv'
    BY <1>6, TradeKeepsIInv
  <1>7. ASSUME NEW u \in OrderUpdate, process_order_update(u) PROVE IInv'
    BY <1>7, ScheduleKeepsIInv
  <1>8. CASE BeginWait
    BY <1>8, BeginWaitKeepsIInv
  <1>9. CASE RunTask
    BY <1>9, RunTaskKeepsIInv
  <1>10. CASE FillsArrived
    BY <1>10, StopWaitingKeepsIInv DEF FillsArrived
  <1>11. CASE WaitTimesOut
    <2>1. 1 \in 1 .. Len(waiting) /\ Head(waiting) = waiting[1]
      BY <1>11 DEF WaitTimesOut, IInv, TypeOK
    <2> QED BY <1>11, <2>1, StopWaitingKeepsIInv DEF WaitTimesOut
  <1>12. CASE UNCHANGED vars
    BY <1>12 DEF vars, IInv, TypeOK, ActiveAreOpen, TrackedOnce, NotFoundBounded,
       EndedAreAnnounced, NothingSaidOfNewOrders, TasksCarryReports, CarriesReport
  <1> QED BY <1>1, <1>2, <1>3, <1>4, <1>5, <1>6, <1>7, <1>8, <1>9, <1>10, <1>11, <1>12
       DEF Next

(* The invariant holds in every behaviour of the tracker.                   *)
THEOREM TrackerInvariant == Spec => []IInv
  BY InitIInv, NextKeepsIInv, PTL DEF Spec

(* The state stays well typed.                                              *)
THEOREM TypeCorrect == Spec => []TypeOK
  BY TrackerInvariant, PTL DEF IInv

(* Every tracked order is open (client_order_tracker._trigger_order_completion). *)
THEOREM ActiveOrdersAreOpen == Spec => []ActiveAreOpen
  BY TrackerInvariant, PTL DEF IInv

(* The three dictionaries never share an order.                             *)
THEOREM OrdersAreTrackedOnce == Spec => []TrackedOnce
  BY TrackerInvariant, PTL DEF IInv

(* Lookup failures are counted for active orders only, up to the limit.     *)
THEOREM LookupFailuresAreBounded == Spec => []NotFoundBounded
  BY TrackerInvariant, PTL DEF IInv

(* An order is announced as ended exactly when it is no longer active.      *)
THEOREM EndedOrdersAreAnnounced == Spec => []EndedAreAnnounced
  BY TrackerInvariant, PTL DEF IInv

----------------------------------------------------------------------------
(* Refinement.  Under the invariant the abstract state is a function of the *)
(* containers alone, and each of them changes by one order at a time.       *)
phases == [o \in Orders |-> phaseOf(o)]
toldOf == {o \in Orders : notified[o] \cap TerminalEvents # {}}

LEMMA ToldAreClosed == IInv => toldOf = started \ active
  BY DEF IInv, TypeOK, EndedAreAnnounced, NothingSaidOfNewOrders, TrackedOnce, toldOf

LEMMA ToldAreClosedNext == (IInv => toldOf = started \ active)'
  BY ToldAreClosed, PTL

LEMMA PhaseMeaning ==
    ASSUME IInv, NEW o \in Orders
    PROVE  /\ o \in active <=> phaseOf(o) = "tracked"
           /\ o \in lost <=> phaseOf(o) = "lost"
           /\ o \in cached <=> phaseOf(o) = "archived"
           /\ o \in started \ (active \cup cached \cup lost) <=> phaseOf(o) = "forgotten"
           /\ o \notin started <=> phaseOf(o) = "new"
  BY DEF IInv, TrackedOnce, phaseOf

LEMMA OthersKeepTheirPhase ==
    ASSUME NEW o \in Orders,
           \A p \in Orders \ {o} :
               /\ p \in started' <=> p \in started
               /\ p \in active' <=> p \in active
               /\ p \in cached' <=> p \in cached
               /\ p \in lost' <=> p \in lost
    PROVE  phases' = [phases EXCEPT ![o] = phaseOf(o)']
  <1>1. \A p \in Orders \ {o} : phaseOf(p)' = phaseOf(p)
    BY DEF phaseOf
  <1> QED BY <1>1 DEF phases

LEMMA SameContainersStutter ==
    ASSUME IInv, IInv', UNCHANGED <<started, active, cached, lost>>
    PROVE  UNCHANGED <<phases, toldOf>>
  <1>1. UNCHANGED toldOf
    BY ToldAreClosed, ToldAreClosedNext
  <1>2. \A p \in Orders : phaseOf(p)' = phaseOf(p)
    BY DEF phaseOf
  <1> QED BY <1>1, <1>2 DEF phases

(* The three kinds of container step map to the abstract actions.           *)
LEMMA ClosingEnds ==
    ASSUME IInv, IInv', NEW o \in active, started' = started, active' = active \ {o},
           \/ cached' = cached \cup {o} /\ lost' = lost
           \/ cached' = cached \ {o} /\ lost' = lost \cup {o}
    PROVE  Lifecycle!LNext
  <1>0. o \in Orders /\ o \in started /\ phases[o] = "tracked"
    BY PhaseMeaning DEF IInv, TypeOK, TrackedOnce, phases
  <1>1. phases' = [phases EXCEPT ![o] = phaseOf(o)']
    BY <1>0, OthersKeepTheirPhase
  <1>2. phaseOf(o)' \in {"archived", "lost"}
    BY <1>0 DEF phaseOf
  <1>3. toldOf' = toldOf \cup {o}
    BY <1>0, ToldAreClosed, ToldAreClosedNext DEF IInv, TrackedOnce
  <1> QED BY <1>0, <1>1, <1>2, <1>3 DEF Lifecycle!LNext, Lifecycle!End, phases, toldOf

LEMMA LeavingForgets ==
    ASSUME IInv, IInv', NEW o \in cached \cup lost, started' = started, active' = active,
           cached' = cached \ {o}, lost' = lost \ {o}
    PROVE  Lifecycle!LNext
  <1>0. o \in Orders /\ o \in started /\ phases[o] \in {"archived", "lost"}
    BY PhaseMeaning DEF IInv, TypeOK, TrackedOnce, phases
  <1>1. phases' = [phases EXCEPT ![o] = phaseOf(o)']
    BY <1>0, OthersKeepTheirPhase
  <1>2. phaseOf(o)' = "forgotten"
    BY <1>0 DEF phaseOf, IInv, TrackedOnce
  <1>3. toldOf' = toldOf
    BY ToldAreClosed, ToldAreClosedNext
  <1> QED BY <1>0, <1>1, <1>2, <1>3 DEF Lifecycle!LNext, Lifecycle!Forget, phases, toldOf

LEMMA StartingTracks ==
    ASSUME IInv, IInv', NEW o \in Orders, start_tracking_order(o)
    PROVE  Lifecycle!LNext
  <1>0. /\ o \notin started /\ started' = started \cup {o} /\ active' = active \cup {o}
        /\ cached' = cached /\ lost' = lost /\ notified' = notified
    BY DEF start_tracking_order, history
  <1>1. phases' = [phases EXCEPT ![o] = phaseOf(o)']
    BY <1>0, OthersKeepTheirPhase
  <1>2. phases[o] = "new" /\ phaseOf(o)' = "tracked"
    BY <1>0, PhaseMeaning DEF phases, phaseOf
  <1>3. toldOf' = toldOf
    BY <1>0 DEF toldOf
  <1> QED BY <1>1, <1>2, <1>3 DEF Lifecycle!LNext, Lifecycle!Track, phases, toldOf

LEMMA ApplyUpdateRefines ==
    ASSUME IInv, IInv', NEW u \in OrderUpdate, ApplyUpdate(u), started' = started
    PROVE  [Lifecycle!LNext]_<<phases, toldOf>>
  <1>1. Untracked(u) = {} \/ (Untracked(u) = {u.order} /\ u.order \in active)
    BY DEF Untracked
  <1>2. active' = active \ Untracked(u) /\ cached' = cached \cup Untracked(u) /\ lost' = lost
    BY DEF ApplyUpdate
  <1>3. CASE Untracked(u) = {}
    BY <1>2, <1>3, SameContainersStutter
  <1>4. CASE Untracked(u) = {u.order} /\ u.order \in active
    BY <1>2, <1>4, ClosingEnds
  <1> QED BY <1>1, <1>3, <1>4

LEMMA ForgetLostRefines ==
    ASSUME IInv, IInv', NEW u \in OrderUpdate, ForgetLost(u), started' = started
    PROVE  [Lifecycle!LNext]_<<phases, toldOf>>
  <1>1. u.order \in lost /\ u.order \notin cached
    BY DEF ForgetLost, fetch_lost_order, Names, IInv, TrackedOnce
  <1>2. active' = active /\ cached' = cached /\ (lost' = lost \/ lost' = lost \ {u.order})
    BY DEF ForgetLost
  <1>3. CASE lost' = lost
    BY <1>2, <1>3, SameContainersStutter
  <1>4. CASE lost' = lost \ {u.order}
    <2>1. cached' = cached \ {u.order}
      BY <1>1, <1>2
    <2> QED BY <1>1, <1>2, <1>4, <2>1, LeavingForgets
  <1> QED BY <1>2, <1>3, <1>4

LEMMA NextRefines ==
    ASSUME IInv, IInv', [Next]_vars
    PROVE  [Lifecycle!LNext]_<<phases, toldOf>>
  <1> DEFINE Goal == [Lifecycle!LNext]_<<phases, toldOf>>
  <1>1. ASSUME NEW o \in Orders, start_tracking_order(o) PROVE Goal
    BY <1>1, StartingTracks
  <1>2. ASSUME NEW o \in Orders, count_not_found(o) PROVE Goal
    BY <1>2, SameContainersStutter DEF count_not_found
  <1>3. ASSUME NEW o \in Orders, declare_lost(o) PROVE Goal
    BY <1>3, ClosingEnds DEF declare_lost
  <1>4. ASSUME NEW o \in Orders, lost_not_found(o) PROVE Goal
    <2>1. FailedUpdate(o) \in OrderUpdate
      BY DEF FailedUpdate, OrderUpdate, OrderState
    <2> QED BY <1>4, <2>1, ApplyUpdateRefines, ForgetLostRefines DEF lost_not_found
  <1>5. ASSUME NEW o \in Orders, expire_cached(o) PROVE Goal
    <2>1. /\ o \in cached /\ started' = started /\ active' = active
          /\ cached' = cached \ {o} /\ lost' = lost \ {o}
      BY <1>5 DEF expire_cached, IInv, TrackedOnce
    <2> QED BY <2>1, LeavingForgets
  <1>6. ASSUME NEW o \in Orders, NEW t \in Trades, process_trade_update(o, t) PROVE Goal
    BY <1>6, SameContainersStutter DEF process_trade_update, containers
  <1>7. ASSUME NEW u \in OrderUpdate, process_order_update(u) PROVE Goal
    BY <1>7, SameContainersStutter DEF process_order_update, containers
  <1>8. CASE BeginWait
    BY <1>8, SameContainersStutter DEF BeginWait, containers
  <1>9. CASE RunTask
    <2>1. Head(tasks) \in OrderUpdate /\ started' = started
      BY <1>9, HeadCarriesReport DEF RunTask, IInv
    <2>2. CASE IgnoreUpdate(Head(tasks))
      BY <2>1, <2>2, SameContainersStutter DEF IgnoreUpdate, containers
    <2> QED BY <1>9, <2>1, <2>2, ApplyUpdateRefines, ForgetLostRefines DEF RunTask
  <1>10. CASE FillsArrived
    <2>1. \A i \in 1 .. Len(waiting) : waiting[i] \in OrderUpdate
      BY DEF IInv, TypeOK
    <2> QED BY <1>10, <2>1, ApplyUpdateRefines DEF FillsArrived
  <1>11. CASE WaitTimesOut
    <2>1. Head(waiting) \in OrderUpdate
      BY <1>11, HeadCarriesReport DEF WaitTimesOut, IInv
    <2> QED BY <1>11, <2>1, ApplyUpdateRefines DEF WaitTimesOut
  <1>12. CASE UNCHANGED vars
    BY <1>12, SameContainersStutter DEF vars
  <1> QED BY <1>1, <1>2, <1>3, <1>4, <1>5, <1>6, <1>7, <1>8, <1>9, <1>10, <1>11, <1>12
       DEF Next

LEMMA InitRefines == Init => Lifecycle!LInit
  BY DEF Init, Lifecycle!LInit, phaseOf

(* The tracker implements the abstract life cycle.                          *)
THEOREM TrackerImplementsLifecycle == Spec => ImplementsLifecycle
  <1>1. IInv /\ IInv' /\ [Next]_vars => [Lifecycle!LNext]_Lifecycle!lifecycle
    BY NextRefines DEF Lifecycle!lifecycle, phases, toldOf
  <1> QED BY <1>1, InitRefines, TrackerInvariant, PTL
       DEF Spec, ImplementsLifecycle, Lifecycle!LSpec

----------------------------------------------------------------------------
(* What was filled.                                                         *)
FillsInv == /\ \A o \in Orders : order[o].amount = Amount[o] /\ IsFiniteSet(order[o].fills)
            /\ \A o \in Orders \ started : order[o].fills = {}
            /\ FillsAddUp

SameFills == /\ fill_events' = fill_events
             /\ \A o \in Orders : /\ order'[o].amount = order[o].amount
                                  /\ order'[o].fills = order[o].fills
                                  /\ order'[o].executed = order[o].executed

LEMMA SameFillsKeepFillsInv ==
    ASSUME FillsInv, SameFills, started \subseteq started' PROVE FillsInv'
  BY DEF FillsInv, SameFills, FillsAddUp

LEMMA SameOrdersKeepFills ==
    ASSUME UNCHANGED <<order, fill_events>> PROVE SameFills
  BY DEF SameFills

LEMMA ApplyUpdateKeepsFills ==
    ASSUME TypeOK, NEW u \in OrderUpdate, ApplyUpdate(u) PROVE SameFills
  <1> DEFINE o == u.order
             new == update_with_order_update(order[o], u)
  <1>1. o \in Orders /\ order[o] \in Object
    BY DEF OrderUpdate, TypeOK
  <1>2. order' = [order EXCEPT ![o] = new] /\ fill_events' = fill_events
    BY DEF ApplyUpdate
  <1>3. /\ new.amount = order[o].amount /\ new.fills = order[o].fills
        /\ new.executed = order[o].executed
    BY <1>1 DEF update_with_order_update, Object
  <1> HIDE DEF new
  <1> QED BY <1>1, <1>2, <1>3 DEF SameFills, TypeOK

LEMMA StartKeepsFills ==
    ASSUME TypeOK, FillsInv, NEW o \in Orders, start_tracking_order(o) PROVE SameFills
  <1>1. order' = [order EXCEPT ![o] = NewInFlightOrder(o)] /\ fill_events' = fill_events
    BY DEF start_tracking_order, history
  <1>2. order[o].fills = {} /\ order[o].amount = Amount[o]
    BY DEF start_tracking_order, FillsInv
  <1>3. order[o].executed = 0
    BY <1>2, SumOfNothing DEF FillsInv, FillsAddUp
  <1>4. /\ NewInFlightOrder(o).fills = {} /\ NewInFlightOrder(o).executed = 0
        /\ NewInFlightOrder(o).amount = Amount[o]
    BY DEF NewInFlightOrder
  <1> QED BY <1>1, <1>2, <1>3, <1>4 DEF SameFills, TypeOK

LEMMA DeclareLostKeepsFills ==
    ASSUME TypeOK, NEW o \in Orders, declare_lost(o) PROVE SameFills
  <1> DEFINE failed == [order[o] EXCEPT !.state = "FAILED"]
  <1>1. order' = [order EXCEPT ![o] = failed] /\ fill_events' = fill_events
    BY DEF declare_lost
  <1>2. order[o] \in Object
    BY DEF TypeOK
  <1>3. /\ failed.amount = order[o].amount /\ failed.fills = order[o].fills
        /\ failed.executed = order[o].executed
    BY <1>2 DEF Object
  <1> HIDE DEF failed
  <1> QED BY <1>1, <1>3 DEF SameFills, TypeOK

(* A trade that is new adds its amount and its event; another adds nothing. *)
LEMMA TradeKeepsFillsInv ==
    ASSUME TypeOK, TrackedOnce, FillsInv, NEW o \in Orders, NEW t \in Trades,
           process_trade_update(o, t)
    PROVE  FillsInv'
  <1> DEFINE old == order[o]
             new == update_with_trade_update(old, t)
  <1>1. /\ order' = [order EXCEPT ![o] = new] /\ started' = started
        /\ fill_events' = IF old.executed < new.executed
                            THEN [fill_events EXCEPT ![o][t] = IF @ = 0 THEN 1 ELSE 2]
                            ELSE fill_events
        /\ o \in started
    BY DEF process_trade_update, all_fillable_orders, TrackedOnce
  <1>2. old \in Object /\ FillAmount[t] \in Nat /\ FillAmount[t] > 0
    BY FillAmountAssumption DEF TypeOK
  <1>3. CASE t \in old.fills
    <2>1. new = old
      BY <1>3 DEF update_with_trade_update
    <2>2. order' = order /\ fill_events' = fill_events
      BY <1>1, <1>2, <2>1 DEF TypeOK, Object
    <2> QED BY <1>1, <2>2, SameOrdersKeepFills, SameFillsKeepFillsInv
  <1>4. CASE t \notin old.fills
    <2>1. /\ new.fills = old.fills \cup {t} /\ new.executed = old.executed + FillAmount[t]
          /\ new.amount = old.amount
      BY <1>2, <1>4 DEF update_with_trade_update, Object
    <2>2. old.executed < new.executed
      BY <1>2, <2>1 DEF Object
    <2> HIDE DEF new
    <2>3. order'[o] = new /\ \A p \in Orders \ {o} : order'[p] = order[p]
      BY <1>1 DEF TypeOK
    <2>4. /\ fill_events'[o] = [fill_events[o] EXCEPT ![t] = IF @ = 0 THEN 1 ELSE 2]
          /\ \A p \in Orders \ {o} : fill_events'[p] = fill_events[p]
      BY <1>1, <2>2 DEF TypeOK
    <2>5. fill_events[o] \in [Trades -> 0 .. 2]
      BY DEF TypeOK
    <2>6. \A s \in Trades : fill_events[o][s] = IF s \in old.fills THEN 1 ELSE 0
      BY DEF FillsInv, FillsAddUp
    <2>7. \A s \in Trades : fill_events'[o][s] = IF s \in new.fills THEN 1 ELSE 0
      BY <1>4, <2>1, <2>4, <2>5, <2>6
    <2>8. IsFiniteSet(old.fills) /\ IsFiniteSet(new.fills)
      BY <2>1, FS_AddElement DEF FillsInv
    <2>9. new.executed = SumFunctionOnSet(FillAmount, new.fills)
      <3>1. \A s \in new.fills : FillAmount[s] \in Nat
        BY <1>2, <2>1, FillAmountAssumption DEF Object
      <3>2. t \in new.fills /\ new.fills \ {t} = old.fills
        BY <1>4, <2>1
      <3>3. SumFunctionOnSet(FillAmount, new.fills)
              = SumFunctionOnSet(FillAmount, old.fills) + FillAmount[t]
        BY <2>8, <3>1, <3>2, SumWithout
      <3>4. old.executed = SumFunctionOnSet(FillAmount, old.fills)
        BY DEF FillsInv, FillsAddUp
      <3> QED BY <2>1, <3>3, <3>4
    <2>10. FillsAddUp'
      <3> SUFFICES ASSUME NEW p \in Orders
                   PROVE  /\ order'[p].executed = SumFunctionOnSet(FillAmount, order'[p].fills)
                          /\ \A s \in Trades :
                                fill_events'[p][s] = IF s \in order'[p].fills THEN 1 ELSE 0
        BY DEF FillsAddUp
      <3>1. CASE p = o
        BY <2>3, <2>7, <2>9, <3>1
      <3>2. CASE p # o
        BY <2>3, <2>4, <3>2 DEF FillsInv, FillsAddUp
      <3> QED BY <3>1, <3>2
    <2>11. \A p \in Orders : order'[p].amount = Amount[p] /\ IsFiniteSet(order'[p].fills)
      BY <2>1, <2>3, <2>8 DEF FillsInv
    <2>12. \A p \in Orders \ started' : order'[p].fills = {}
      BY <1>1, <2>3 DEF FillsInv
    <2> QED BY <2>10, <2>11, <2>12 DEF FillsInv
  <1> QED BY <1>3, <1>4

LEMMA InitFillsInv == Init => FillsInv
  <1> SUFFICES ASSUME Init PROVE FillsInv
    OBVIOUS
  <1>1. \A o \in Orders : /\ order[o].amount = Amount[o] /\ order[o].fills = {}
                          /\ order[o].executed = 0
    BY DEF Init, NewInFlightOrder
  <1>2. FillsAddUp
    BY <1>1, SumOfNothing DEF Init, FillsAddUp
  <1> QED BY <1>1, <1>2, FS_EmptySet DEF FillsInv

(* Every step of the tracker but a trade leaves what was filled alone.      *)
NextButTrades ==
    \/ \E o \in Orders : \/ start_tracking_order(o) \/ count_not_found(o) \/ declare_lost(o)
                         \/ lost_not_found(o) \/ expire_cached(o)
    \/ \E u \in OrderUpdate : process_order_update(u)
    \/ BeginWait \/ RunTask \/ FillsArrived \/ WaitTimesOut
    \/ UNCHANGED vars

LEMMA OtherStepsKeepFills ==
    ASSUME IInv, FillsInv, NextButTrades PROVE SameFills /\ started \subseteq started'
  <1>0. TypeOK
    BY DEF IInv
  <1>1. ASSUME NEW o \in Orders, start_tracking_order(o) PROVE SameFills /\ started \subseteq started'
    <2>1. started \subseteq started'
      BY <1>1 DEF start_tracking_order
    <2> QED BY <1>0, <1>1, <2>1, StartKeepsFills
  <1>2. ASSUME NEW o \in Orders, declare_lost(o) PROVE SameFills /\ started \subseteq started'
    BY <1>0, <1>2, DeclareLostKeepsFills DEF declare_lost
  <1>3. ASSUME NEW u \in OrderUpdate, ApplyUpdate(u) \/ ForgetLost(u) \/ IgnoreUpdate(u),
               started' = started
        PROVE  SameFills /\ started \subseteq started'
    BY <1>0, <1>3, ApplyUpdateKeepsFills, SameOrdersKeepFills DEF ForgetLost, IgnoreUpdate, history
  <1>4. ASSUME NEW o \in Orders, lost_not_found(o) PROVE SameFills /\ started \subseteq started'
    <2>1. FailedUpdate(o) \in OrderUpdate
      BY DEF FailedUpdate, OrderUpdate, OrderState
    <2> QED BY <1>3, <1>4, <2>1 DEF lost_not_found
  <1>5. ASSUME NEW o \in Orders, count_not_found(o) \/ expire_cached(o)
        PROVE  SameFills /\ started \subseteq started'
    BY <1>5, SameOrdersKeepFills DEF count_not_found, expire_cached, history
  <1>6. ASSUME NEW u \in OrderUpdate, process_order_update(u)
        PROVE  SameFills /\ started \subseteq started'
    BY <1>6, SameOrdersKeepFills DEF process_order_update, history
  <1>7. CASE BeginWait \/ UNCHANGED vars
    BY <1>7, SameOrdersKeepFills DEF BeginWait, vars, history
  <1>8. CASE RunTask
    <2>1. Head(tasks) \in OrderUpdate
      BY <1>8, HeadCarriesReport DEF IInv, RunTask
    <2> QED BY <1>3, <1>8, <2>1 DEF RunTask
  <1>9. CASE FillsArrived
    <2>1. \A i \in 1 .. Len(waiting) : waiting[i] \in OrderUpdate
      BY <1>0 DEF TypeOK
    <2> QED BY <1>3, <1>9, <2>1 DEF FillsArrived
  <1>10. CASE WaitTimesOut
    <2>1. Head(waiting) \in OrderUpdate
      BY <1>10, HeadCarriesReport DEF IInv, WaitTimesOut
    <2> QED BY <1>3, <1>10, <2>1 DEF WaitTimesOut
  <1> QED BY <1>1, <1>2, <1>4, <1>5, <1>6, <1>7, <1>8, <1>9, <1>10 DEF NextButTrades

LEMMA NextKeepsFillsInv == IInv /\ FillsInv /\ [Next]_vars => FillsInv'
  <1> SUFFICES ASSUME IInv, FillsInv, [Next]_vars PROVE FillsInv'
    OBVIOUS
  <1>1. CASE NextButTrades
    BY <1>1, OtherStepsKeepFills, SameFillsKeepFillsInv
  <1>2. ASSUME NEW o \in Orders, NEW t \in Trades, process_trade_update(o, t) PROVE FillsInv'
    BY <1>2, TradeKeepsFillsInv DEF IInv
  <1> QED BY <1>1, <1>2 DEF Next, NextButTrades

LEMMA TrackerFills == Spec => []FillsInv
  <1>1. IInv /\ FillsInv /\ [Next]_vars => FillsInv'
    BY NextKeepsFillsInv
  <1> QED BY <1>1, InitFillsInv, TrackerInvariant, PTL DEF Spec

(* The executed amount of an order is the sum of its distinct trades, and   *)
(* each of these was announced exactly once, wherever the order was when it *)
(* came: process_trade_update and update_with_trade_update agree on what is *)
(* new.                                                                     *)
THEOREM ExecutedAmountsAddUp == Spec => []FillsAddUp
  <1>1. FillsInv => FillsAddUp
    BY DEF FillsInv
  <1> QED BY <1>1, TrackerFills, PTL

----------------------------------------------------------------------------
(* Crash recovery of the tracked orders.                                    *)
LostAreClosed    == \A o \in lost : ~is_open(order[o])
WaitersAreFilled == \A i \in 1 .. Len(waiting) : waiting[i].new_state = "FILLED"
FillsAreRecorded == \A o \in Orders, t \in Trades :
                        fill_events[o][t] = 0 <=> t \notin order[o].fills
Tracker2 == LostAreClosed /\ WaitersAreFilled /\ FillsAreRecorded

IdsAreUsed == /\ started \subseteq used /\ order_rows \subseteq used
              /\ DOMAIN saved \subseteq used
UnusedAreFresh == \A o \in Orders \ used : order[o] = NewInFlightOrder(o)
SavedFailedAreAnnounced ==
    \A o \in DOMAIN saved : is_failure(saved[o]) => notified[o] \cap TerminalEvents # {}

RInv == /\ IInv /\ Tracker2 /\ RTypeOK /\ IdsAreUsed /\ UnusedAreFresh
        /\ SavedFailedAreAnnounced /\ RecoveryMatchesTracking /\ SavedFillsAreCurrent

----------------------------------------------------------------------------
(* What a step of the tracker may do to an order, whichever step it is.     *)
StepFacts ==
    /\ \A o \in active \ active' : ~is_open(order'[o]) /\ Fired(o) \cap TerminalEvents # {}
    /\ active' \ active \subseteq started' \ started
    /\ started \subseteq started'
    /\ \A o \in Orders : notified[o] \subseteq notified'[o]
    /\ \A o \in lost : ~is_open(order'[o])
    /\ \A o \in Orders \ started' : order'[o] = order[o]
    /\ \A o \in started' \ started : order'[o] = NewInFlightOrder(o)
    /\ \A o \in started : order'[o].fills # order[o].fills \/ order'[o].executed # order[o].executed
                          => o \in NewTradeRows

(* A step that applies a report.                                            *)
LEMMA ApplyStepFacts ==
    ASSUME IInv, Tracker2, NEW u \in OrderUpdate, CarriesReport(u), ApplyUpdate(u),
           started' = started, u.order \in lost => u.new_state = "FILLED"
    PROVE  StepFacts /\ LostAreClosed' /\ FillsAreRecorded'
  <1> DEFINE o == u.order
             old == order[o]
             new == update_with_order_update(old, u)
  <1>0. o \in Orders /\ o \in started /\ old \in Object
    BY DEF OrderUpdate, CarriesReport, IInv, TypeOK
  <1>1. /\ new \in Object /\ new.fills = old.fills /\ new.executed = old.executed
        /\ new # old => new.state \in OpenStates \cup FinalStates
        /\ new # old => new.state = u.new_state
    BY <1>0, UpdateType DEF CarriesReport, update_with_order_update, Object
  <1>1a. new # old => \/ new.state # old.state
                      \/ new.exchange_order_id # old.exchange_order_id
    BY <1>0 DEF update_with_order_update, Object
  <1>2. /\ order' = [order EXCEPT ![o] = new]
        /\ active' = active \ Untracked(u) /\ lost' = lost /\ fill_events' = fill_events
        /\ Untracked(u) = IF old # new /\ ~is_open(new) THEN active \cap {o} ELSE {}
    BY DEF ApplyUpdate, Untracked, updated
  <1>3. \A p \in Orders : notified[p] \subseteq notified'[p]
    BY DEF ApplyUpdate, IInv, TypeOK
  <1> HIDE DEF new
  <1>4. order'[o] = new /\ \A p \in Orders \ {o} : order'[p] = order[p]
    BY <1>0, <1>2 DEF IInv, TypeOK
  <1>5. \A p \in active \ active' : ~is_open(order'[p]) /\ Fired(p) \cap TerminalEvents # {}
    <2> SUFFICES ASSUME NEW p \in active \ active'
                 PROVE  ~is_open(order'[p]) /\ Fired(p) \cap TerminalEvents # {}
      OBVIOUS
    <2>1. p = o /\ old # new /\ ~is_open(new)
      BY <1>2
    <2>2. Fired(o) = EventsOf(old, new)
      BY <1>1a, <1>4, <2>1 DEF Fired
    <2> QED BY <1>0, <1>1, <1>4, <2>1, <2>2, EventsEndClosedOrders
  <1>6. LostAreClosed'
    <2>1. o \in lost => ~is_open(new)
      BY <1>1, <1>0 DEF Tracker2, LostAreClosed, is_open, OpenStates
    <2> QED BY <1>2, <1>4, <2>1 DEF Tracker2, LostAreClosed, IInv, TypeOK
  <1>7. FillsAreRecorded'
    BY <1>1, <1>2, <1>4 DEF Tracker2, FillsAreRecorded
  <1>8. \A p \in Orders : order'[p].fills = order[p].fills /\ order'[p].executed = order[p].executed
    BY <1>1, <1>4
  <1>9. \A p \in Orders \ started' : order'[p] = order[p]
    BY <1>0, <1>4
  <1>10. StepFacts
    <2>1. \A p \in lost : ~is_open(order'[p])
      BY <1>2, <1>6 DEF LostAreClosed
    <2> QED BY <1>2, <1>3, <1>5, <1>8, <1>9, <2>1 DEF StepFacts, IInv, TypeOK
  <1> QED BY <1>6, <1>7, <1>10

(* A step that leaves the objects and the active orders alone.              *)
LEMMA QuietStepFacts ==
    ASSUME IInv, Tracker2, UNCHANGED <<order, active, notified, fill_events, started>>,
           lost' \subseteq lost
    PROVE  StepFacts /\ LostAreClosed' /\ FillsAreRecorded'
  BY DEF StepFacts, Tracker2, LostAreClosed, FillsAreRecorded, NewTradeRows

LEMMA RunTaskStepFacts ==
    ASSUME IInv, Tracker2, RunTask
    PROVE  StepFacts /\ LostAreClosed' /\ FillsAreRecorded'
  <1> DEFINE u == Head(tasks)
  <1>0. u \in OrderUpdate /\ CarriesReport(u) /\ started' = started
    BY HeadCarriesReport DEF IInv, RunTask
  <1>1. CASE fetch_order(u) /\ ApplyUpdate(u)
    <2>1. u.order \notin lost
      BY <1>1 DEF fetch_order, Names, IInv, TrackedOnce
    <2> QED BY <1>0, <1>1, <2>1, ApplyStepFacts
  <1>2. CASE ForgetLost(u)
    <2>1. lost' \subseteq lost /\ UNCHANGED <<order, active, notified, fill_events>>
      BY <1>2 DEF ForgetLost
    <2> QED BY <1>0, <2>1, QuietStepFacts
  <1>3. CASE IgnoreUpdate(u)
    BY <1>0, <1>3, QuietStepFacts DEF IgnoreUpdate, containers, history
  <1> QED BY <1>1, <1>2, <1>3 DEF RunTask

LEMMA StopWaitingStepFacts ==
    ASSUME IInv, Tracker2, NEW i \in 1 .. Len(waiting), ApplyUpdate(waiting[i]),
           started' = started
    PROVE  StepFacts /\ LostAreClosed' /\ FillsAreRecorded'
  <1>1. /\ waiting[i] \in OrderUpdate /\ CarriesReport(waiting[i])
        /\ waiting[i].new_state = "FILLED"
    BY DEF IInv, TypeOK, TasksCarryReports, Tracker2, WaitersAreFilled
  <1> QED BY <1>1, ApplyStepFacts

LEMMA TradeStepFacts ==
    ASSUME IInv, Tracker2, NEW o \in Orders, NEW t \in Trades, process_trade_update(o, t)
    PROVE  StepFacts /\ LostAreClosed' /\ FillsAreRecorded'
  <1> DEFINE old == order[o]
             new == update_with_trade_update(old, t)
  <1>0. old \in Object /\ FillAmount[t] \in Nat \ {0} /\ o \in started
    BY FillAmountAssumption DEF IInv, TypeOK, TrackedOnce, process_trade_update,
       all_fillable_orders
  <1>1. new \in Object /\ new.state = old.state
    BY <1>0, TradeType
  <1>2. /\ order' = [order EXCEPT ![o] = new]
        /\ UNCHANGED <<started, active, lost, notified>>
    BY DEF process_trade_update, containers
  <1>3. CASE t \in old.fills
    <2>1. new = old /\ ~(old.executed < new.executed)
      BY <1>0, <1>3 DEF update_with_trade_update, Object
    <2>2. order' = order /\ fill_events' = fill_events
      BY <1>2, <2>1 DEF process_trade_update, IInv, TypeOK
    <2> QED BY <1>2, <2>2, QuietStepFacts
  <1>4. CASE t \notin old.fills
    <2>1. new.fills = old.fills \cup {t} /\ new.executed = old.executed + FillAmount[t]
      BY <1>0, <1>4 DEF update_with_trade_update, Object
    <2>2. old.executed < new.executed
      <3>1. old.executed \in Nat
        BY <1>0 DEF Object
      <3> QED BY <1>0, <2>1, <3>1
    <2>3. fill_events[o][t] = 0
      BY <1>4 DEF Tracker2, FillsAreRecorded
    <2>4. fill_events' = [fill_events EXCEPT ![o][t] = 1]
      BY <2>2, <2>3 DEF process_trade_update, IInv, TypeOK
    <2> HIDE DEF new
    <2>5. /\ fill_events'[o][t] = 1
          /\ \A p \in Orders, s \in Trades : p # o \/ s # t => fill_events'[p][s] = fill_events[p][s]
      BY <2>4 DEF IInv, TypeOK
    <2>6. order'[o] = new /\ \A p \in Orders \ {o} : order'[p] = order[p]
      BY <1>2 DEF IInv, TypeOK
    <2>7. o \in NewTradeRows
      BY <2>3, <2>5 DEF NewTradeRows
    <2>8. FillsAreRecorded'
      BY <2>1, <2>5, <2>6 DEF Tracker2, FillsAreRecorded
    <2>9. LostAreClosed'
      BY <1>1, <1>2, <2>6 DEF Tracker2, LostAreClosed, is_open, IInv, TypeOK
    <2>10. StepFacts
      <3>1. \A p \in lost : ~is_open(order'[p])
        BY <1>2, <2>9 DEF LostAreClosed
      <3> QED BY <1>0, <1>2, <2>6, <2>7, <3>1 DEF StepFacts, IInv, TypeOK
    <2> QED BY <2>8, <2>9, <2>10
  <1> QED BY <1>3, <1>4

LEMMA DeclareLostStepFacts ==
    ASSUME IInv, Tracker2, NEW o \in Orders, declare_lost(o)
    PROVE  StepFacts /\ LostAreClosed' /\ FillsAreRecorded'
  <1> DEFINE failed == [order[o] EXCEPT !.state = "FAILED"]
  <1>1. /\ order[o] \in Object /\ failed \in Object /\ failed.state = "FAILED"
        /\ failed.fills = order[o].fills /\ failed.executed = order[o].executed
        /\ ~is_open(failed) /\ order[o].state # "FAILED"
    BY DEF IInv, TypeOK, Object, OrderState, is_open, OpenStates, declare_lost, GivesUpOn,
       FinalStates
  <1> HIDE DEF failed
  <1>2. /\ order' = [order EXCEPT ![o] = failed] /\ o \in active /\ o \in started
        /\ active' = active \ {o} /\ lost' = lost \cup {o}
        /\ started' = started /\ fill_events' = fill_events
        /\ \A p \in Orders : notified[p] \subseteq notified'[p]
    BY DEF declare_lost, failed, IInv, TypeOK, TrackedOnce
  <1>3. order'[o] = failed /\ \A p \in Orders \ {o} : order'[p] = order[p]
    BY <1>2 DEF IInv, TypeOK
  <1>4. Fired(o) \cap TerminalEvents # {}
    <2>1. Fired(o) = EventsOf(order[o], failed)
      BY <1>1, <1>3 DEF Fired
    <2> QED BY <1>1, <2>1, EventsEndClosedOrders DEF FinalStates
  <1>5. LostAreClosed' /\ FillsAreRecorded'
    BY <1>1, <1>2, <1>3 DEF Tracker2, LostAreClosed, FillsAreRecorded, IInv, TypeOK
  <1>6. StepFacts
    <2>1. \A p \in lost : ~is_open(order'[p])
      BY <1>2, <1>5 DEF LostAreClosed
    <2> QED BY <1>1, <1>2, <1>3, <1>4, <2>1 DEF StepFacts, IInv, TypeOK
  <1> QED BY <1>5, <1>6

LEMMA StartStepFacts ==
    ASSUME IInv, Tracker2, NEW o \in Orders, start_tracking_order(o),
           order[o] = NewInFlightOrder(o)
    PROVE  StepFacts /\ LostAreClosed' /\ FillsAreRecorded'
  <1>1. /\ order' = order /\ UNCHANGED <<lost, notified, fill_events>>
        /\ started' = started \cup {o} /\ active' = active \cup {o} /\ o \notin started
    BY DEF start_tracking_order, history, IInv, TypeOK
  <1> QED BY <1>1 DEF StepFacts, Tracker2, LostAreClosed, FillsAreRecorded

LEMMA NextStepFacts ==
    ASSUME IInv, Tracker2, UnusedAreFresh, Next, started' \cap used \subseteq started
    PROVE  StepFacts /\ LostAreClosed' /\ FillsAreRecorded'
  <1> DEFINE Goal == StepFacts /\ LostAreClosed' /\ FillsAreRecorded'
  <1>1. ASSUME NEW o \in Orders, start_tracking_order(o) PROVE Goal
    <2>1. o \in Orders \ used
      BY <1>1 DEF start_tracking_order
    <2> QED BY <1>1, <2>1, StartStepFacts DEF UnusedAreFresh
  <1>2. ASSUME NEW o \in Orders, count_not_found(o) PROVE Goal
    BY <1>2, QuietStepFacts DEF count_not_found, history
  <1>3. ASSUME NEW o \in Orders, declare_lost(o) PROVE Goal
    BY <1>3, DeclareLostStepFacts
  <1>4. ASSUME NEW o \in Orders, lost_not_found(o) PROVE Goal
    <2>1. o \notin cached /\ o \notin active
      BY <1>4 DEF lost_not_found, IInv, TrackedOnce
    <2>2. ~fetch_order(FailedUpdate(o))
      BY <2>1 DEF fetch_order, Names, FailedUpdate
    <2>3. /\ lost' \subseteq lost
          /\ UNCHANGED <<started, order, active, notified, fill_events>>
      BY <1>4, <2>2 DEF lost_not_found, ForgetLost
    <2> QED BY <2>3, QuietStepFacts
  <1>5. ASSUME NEW o \in Orders, expire_cached(o) PROVE Goal
    BY <1>5, QuietStepFacts DEF expire_cached, history
  <1>6. ASSUME NEW o \in Orders, NEW t \in Trades, process_trade_update(o, t) PROVE Goal
    BY <1>6, TradeStepFacts
  <1>7. ASSUME NEW u \in OrderUpdate, process_order_update(u) PROVE Goal
    BY <1>7, QuietStepFacts DEF process_order_update, containers, history
  <1>8. CASE BeginWait
    BY <1>8, QuietStepFacts DEF BeginWait, containers, history
  <1>9. CASE RunTask
    BY <1>9, RunTaskStepFacts
  <1>10. CASE FillsArrived
    BY <1>10, StopWaitingStepFacts DEF FillsArrived
  <1>11. CASE WaitTimesOut
    <2>1. 1 \in 1 .. Len(waiting) /\ Head(waiting) = waiting[1]
      BY <1>11 DEF WaitTimesOut, IInv, TypeOK
    <2> QED BY <1>11, <2>1, StopWaitingStepFacts DEF WaitTimesOut
  <1> QED BY <1>1, <1>2, <1>3, <1>4, <1>5, <1>6, <1>7, <1>8, <1>9, <1>10, <1>11 DEF Next

(* Only FILLED reports wait.                                                *)
LEMMA WaitersStayFilled ==
    ASSUME IInv, WaitersAreFilled, Next
    PROVE  WaitersAreFilled'
  <1>1. CASE waiting' = waiting
    BY <1>1 DEF WaitersAreFilled
  <1>2. CASE BeginWait
    <2>1. waiting' = Append(waiting, Head(tasks)) /\ Head(tasks).new_state = "FILLED"
      BY <1>2 DEF BeginWait, MustWait
    <2>2. waiting \in Seq(OrderUpdate) /\ Head(tasks) \in OrderUpdate
      BY <1>2, HeadCarriesReport DEF IInv, TypeOK, BeginWait
    <2> QED BY <2>1, <2>2 DEF WaitersAreFilled
  <1>3. ASSUME NEW i \in 1 .. Len(waiting), StopWaiting(i) PROVE WaitersAreFilled'
    <2> DEFINE n == Len(waiting) - 1
    <2>1. n \in Nat /\ \A k \in 1 .. n : k \in 1 .. Len(waiting) /\ k + 1 \in 1 .. Len(waiting)
      BY <1>3 DEF IInv, TypeOK
    <2>2. waiting' = [k \in 1 .. n |-> IF k < i THEN waiting[k] ELSE waiting[k + 1]]
      BY <1>3 DEF StopWaiting
    <2>3. Len(waiting') = n
      BY <2>1, <2>2
    <2> QED BY <2>1, <2>2, <2>3 DEF WaitersAreFilled
  <1>4. CASE FillsArrived \/ WaitTimesOut
    <2>1. WaitTimesOut => 1 \in 1 .. Len(waiting) /\ StopWaiting(1)
      BY DEF WaitTimesOut, IInv, TypeOK
    <2> QED BY <1>3, <1>4, <2>1 DEF FillsArrived
  <1>5. Next => waiting' = waiting \/ BeginWait \/ FillsArrived \/ WaitTimesOut
    BY DEF Next, start_tracking_order, count_not_found, declare_lost, lost_not_found,
       expire_cached, process_trade_update, process_order_update, RunTask
  <1> QED BY <1>1, <1>2, <1>4, <1>5

----------------------------------------------------------------------------
LEMMA RInitInv == RInit => RInv
  <1> SUFFICES ASSUME RInit PROVE RInv
    OBVIOUS
  <1>1. IInv
    BY InitIInv DEF RInit
  <1>2. DOMAIN saved = {}
    BY DEF RInit
  <1>3. Tracker2
    BY DEF RInit, Init, Tracker2, LostAreClosed, WaitersAreFilled, FillsAreRecorded,
       NewInFlightOrder
  <1> QED BY <1>1, <1>2, <1>3 DEF RInit, Init, RInv, RTypeOK, IdsAreUsed, UnusedAreFresh,
       SavedFailedAreAnnounced, RecoveryMatchesTracking, SavedFillsAreCurrent

(* A step of the tracker, with the listeners.                               *)
LEMMA TrackKeepsRInv ==
    ASSUME RInv, Track
    PROVE  RInv'
  <1>1. IInv'
    BY NextKeepsIInv DEF RInv, Track
  <1>2. StepFacts /\ LostAreClosed' /\ FillsAreRecorded' /\ WaitersAreFilled'
    BY NextStepFacts, WaitersStayFilled DEF RInv, Track, Tracker2
  <1>3. used' = used \cup started' /\ order_rows' = order_rows \cup NewlyCreated
    BY DEF Track, record_events
  <1>4. NewlyCreated \subseteq started
    <2> SUFFICES ASSUME NEW o \in NewlyCreated PROVE o \in started
      OBVIOUS
    <2>1. o \in Orders /\ order'[o] # order[o]
      BY DEF NewlyCreated, Fired
    <2>2. o \in started' \ started => o \in Orders \ used
      BY <2>1 DEF Track
    <2>3. o \in started' \ started => order'[o] = order[o]
      BY <1>2, <2>2 DEF StepFacts, RInv, UnusedAreFresh
    <2> QED BY <1>2, <2>1, <2>3 DEF StepFacts
  <1>5. \/ saved' = saved /\ NewlyCreated \subseteq order_rows
             /\ NewlyEnded \cap order_rows' = {} /\ NewTradeRows = {}
        \/ saved' = [o \in active \cup lost |-> order'[o]]
    BY DEF Track, record_events, tracking_states, all_updatable_orders
  <1>6. /\ active \cup lost \subseteq started /\ started \subseteq started' /\ started \subseteq used
        /\ started' \subseteq Orders
    BY <1>1, <1>2 DEF RInv, IInv, TrackedOnce, StepFacts, IdsAreUsed, TypeOK
  <1>7. RTypeOK' /\ IdsAreUsed'
    <2>1. \A o \in active \cup lost : order'[o] \in Object
      BY <1>1, <1>6 DEF IInv, TypeOK
    <2>2. declared_lost' \in SUBSET Orders /\ used' \in SUBSET Orders
      BY <1>1, <1>3, <1>6 DEF Track, RInv, RTypeOK, IInv, TypeOK
    <2> QED BY <1>3, <1>4, <1>5, <1>6, <2>1, <2>2 DEF RInv, RTypeOK, IdsAreUsed
  <1>8. UnusedAreFresh'
    BY <1>2, <1>3 DEF StepFacts, RInv, UnusedAreFresh
  <1>9. SavedFailedAreAnnounced'
    <2>1. CASE saved' = saved
      BY <1>2, <2>1 DEF StepFacts, RInv, SavedFailedAreAnnounced, RTypeOK
    <2>2. CASE saved' = [o \in active \cup lost |-> order'[o]]
      <3> SUFFICES ASSUME NEW o \in active \cup lost, is_failure(order'[o])
                   PROVE  notified'[o] \cap TerminalEvents # {}
        BY <2>2 DEF SavedFailedAreAnnounced
      <3>1. o \in started'
        BY <1>6
      <3>2. ~is_open(order'[o])
        BY DEF is_failure, is_open, OpenStates
      <3>3. o \notin active'
        BY <1>1, <3>2 DEF IInv, ActiveAreOpen
      <3> QED BY <1>1, <3>1, <3>3 DEF IInv, EndedAreAnnounced
    <2> QED BY <1>5, <2>1, <2>2
  <1>10. SavedFillsAreCurrent'
    <2>1. CASE saved' = saved /\ NewTradeRows = {}
      <3> SUFFICES ASSUME NEW o \in DOMAIN saved
                   PROVE  /\ saved[o].fills = order'[o].fills
                          /\ saved[o].executed = order'[o].executed
        BY <2>1 DEF SavedFillsAreCurrent
      <3>1. o \in Orders /\ o \in used
        BY DEF RInv, RTypeOK, IdsAreUsed
      <3>2. o \in started \/ o \notin started'
        BY <3>1 DEF Track
      <3>3. order'[o].fills = order[o].fills /\ order'[o].executed = order[o].executed
        BY <1>2, <2>1, <3>1, <3>2 DEF StepFacts
      <3> QED BY <3>3 DEF RInv, SavedFillsAreCurrent
    <2>2. CASE saved' = [o \in active \cup lost |-> order'[o]]
      BY <2>2 DEF SavedFillsAreCurrent
    <2> QED BY <1>5, <2>1, <2>2
  <1>11. RecoveryMatchesTracking'
    <2> SUFFICES ASSUME NEW o \in order_rows'
                 PROVE  o \in active' <=> o \in DOMAIN saved' /\ is_open(saved'[o])
      BY DEF RecoveryMatchesTracking
    <2>1. o \in used /\ o \in Orders
      BY <1>3, <1>4, <1>6 DEF RInv, IdsAreUsed, RTypeOK
    <2>2. o \in active' => o \in active
      <3>1. o \in active' \ active => o \in started' \ started
        BY <1>2 DEF StepFacts
      <3> QED BY <2>1, <3>1 DEF Track
    <2>3. CASE saved' = saved /\ NewlyCreated \subseteq order_rows /\ NewlyEnded \cap order_rows' = {}
      <3>1. o \in order_rows /\ o \notin NewlyEnded
        BY <1>3, <2>3
      <3>2. o \in active => o \in active'
        BY <1>2, <2>1, <3>1 DEF StepFacts, NewlyEnded
      <3> QED BY <2>2, <2>3, <3>1, <3>2 DEF RInv, RecoveryMatchesTracking
    <2>4. CASE saved' = [p \in active \cup lost |-> order'[p]]
      <3>1. o \in active' => is_open(order'[o])
        BY <1>1 DEF IInv, ActiveAreOpen
      <3>2. o \in active \ active' => ~is_open(order'[o])
        BY <1>2 DEF StepFacts
      <3>3. o \in lost \ active => o \notin active' /\ ~is_open(order'[o])
        BY <1>2, <2>2 DEF StepFacts
      <3> QED BY <2>2, <2>4, <3>1, <3>2, <3>3
    <2> QED BY <1>5, <2>3, <2>4
  <1>12. Tracker2'
    BY <1>2 DEF Tracker2
  <1> QED BY <1>1, <1>7, <1>8, <1>9, <1>10, <1>11, <1>12 DEF RInv

(* A restart rebuilds a state of the tracker that satisfies its invariant.  *)
LEMMA RestartKeepsRInv ==
    ASSUME RInv, Restart
    PROVE  RInv'
  <1>1. /\ active' = {o \in DOMAIN saved : is_open(saved[o])}
        /\ lost' = {o \in DOMAIN saved : is_failure(saved[o])}
        /\ order' = [o \in Orders |-> IF o \in active' \cup lost' THEN saved[o] ELSE order[o]]
    BY DEF Restart, restore_tracking_states
  <1>2. /\ started' = active' \cup lost' /\ cached' = {}
        /\ not_found' = [o \in Orders |-> 0] /\ tasks' = <<>> /\ waiting' = <<>>
        /\ notified' = [o \in Orders |-> IF o \in lost' THEN notified[o] ELSE {}]
        /\ UNCHANGED <<fill_events, order_rows, saved, used, declared_lost>>
    BY DEF Restart, db
  <1>3. /\ active' \in SUBSET Orders /\ lost' \in SUBSET Orders
        /\ active' \cup lost' \subseteq DOMAIN saved
        /\ active' \cap lost' = {}
    BY <1>1 DEF RInv, RTypeOK, is_open, is_failure, OpenStates
  <1>4. /\ \A o \in active' \cup lost' : order'[o] = saved[o] /\ order'[o] \in Object
        /\ \A o \in Orders \ (active' \cup lost') : order'[o] = order[o]
    BY <1>1, <1>3 DEF RInv, RTypeOK
  <1>5. TypeOK'
    <2>1. order' \in [Orders -> Object]
      BY <1>1, <1>3, <1>4 DEF RInv, IInv, TypeOK
    <2>2. notified' \in [Orders -> SUBSET EventKinds]
      BY <1>2 DEF RInv, IInv, TypeOK
    <2>3. tasks' \in Seq(OrderUpdate) /\ waiting' \in Seq(OrderUpdate)
      BY <1>2
    <2> QED BY <1>2, <1>3, <2>1, <2>2, <2>3 DEF RInv, IInv, TypeOK
  <1>6. ActiveAreOpen' /\ TrackedOnce'
    BY <1>1, <1>2, <1>3, <1>4 DEF ActiveAreOpen, TrackedOnce
  <1>7. NotFoundBounded'
    BY <1>2, LimitAssumption DEF NotFoundBounded
  <1>8. EndedAreAnnounced' /\ NothingSaidOfNewOrders'
    BY <1>1, <1>2, <1>3 DEF RInv, SavedFailedAreAnnounced, EndedAreAnnounced,
       NothingSaidOfNewOrders
  <1>9. TasksCarryReports' /\ WaitersAreFilled'
    BY <1>2 DEF TasksCarryReports, WaitersAreFilled
  <1>10. LostAreClosed'
    BY <1>1, <1>4 DEF LostAreClosed, is_open, is_failure, OpenStates
  <1>11. \A o \in Orders : order'[o].fills = order[o].fills /\ order'[o].executed = order[o].executed
    BY <1>3, <1>4 DEF RInv, SavedFillsAreCurrent
  <1>12. FillsAreRecorded' /\ SavedFillsAreCurrent'
    BY <1>2, <1>11 DEF RInv, Tracker2, FillsAreRecorded, SavedFillsAreCurrent, RTypeOK
  <1>13. RTypeOK' /\ IdsAreUsed' /\ UnusedAreFresh'
    BY <1>2, <1>3, <1>4 DEF RInv, RTypeOK, IdsAreUsed, UnusedAreFresh
  <1>14. SavedFailedAreAnnounced' /\ RecoveryMatchesTracking'
    BY <1>1, <1>2, <1>3 DEF RInv, SavedFailedAreAnnounced, RecoveryMatchesTracking,
       IdsAreUsed, RTypeOK
  <1> QED BY <1>5, <1>6, <1>7, <1>8, <1>9, <1>10, <1>12, <1>13, <1>14
       DEF RInv, IInv, Tracker2

LEMMA RNextKeepsRInv == RInv /\ [RNext]_rvars => RInv'
  <1> SUFFICES ASSUME RInv, [RNext]_rvars PROVE RInv'
    OBVIOUS
  <1>1. CASE Track
    BY <1>1, TrackKeepsRInv
  <1>2. CASE Restart
    BY <1>2, RestartKeepsRInv
  <1>3. CASE UNCHANGED rvars
    <2>1. IInv'
      BY <1>3, NextKeepsIInv DEF rvars, RInv
    <2> QED BY <1>3, <2>1 DEF rvars, vars, RInv, Tracker2, LostAreClosed, WaitersAreFilled,
         FillsAreRecorded, RTypeOK, IdsAreUsed, UnusedAreFresh, SavedFailedAreAnnounced,
         RecoveryMatchesTracking, SavedFillsAreCurrent
  <1> QED BY <1>1, <1>2, <1>3 DEF RNext

THEOREM RecorderInvariant == RSpec => []RInv
  BY RInitInv, RNextKeepsRInv, PTL DEF RSpec

(* Stopping at any moment and restarting recovers exactly the announced     *)
(* orders that are active (MarketsRecorder saving from inside the events).  *)
THEOREM RecoveryIsExact == RSpec => []RecoveryMatchesTracking
  BY RecorderInvariant, PTL DEF RInv

(* The fills in the last saved state are never behind the tracked ones.     *)
THEOREM SavedFillsStayCurrent == RSpec => []SavedFillsAreCurrent
  BY RecorderInvariant, PTL DEF RInv

(* The tracker's own guarantees survive restarts.                           *)
THEOREM TrackerGuaranteesSurviveRestarts ==
    RSpec => [](ActiveAreOpen /\ TrackedOnce /\ NotFoundBounded)
  BY RecorderInvariant, PTL DEF RInv, IInv

----------------------------------------------------------------------------
(* The connector.  The argument is about what travels: every report,        *)
(* answer, call and task that ends an order was true of the exchange when   *)
(* it was made, and stays true, as an order that is over is over for good.  *)
Over(o)   == exchange[o] \in Ended
Living(o) == exchange[o] = "open" \/ o \in wire
(* Nothing lives on the exchange, or the connector has guessed so.          *)
Dead(o)   == ~Living(o) \/ o \in unsure

TruthOf(o, state) == /\ o \in started
                     /\ state \in {"CANCELED", "FILLED"} => Over(o)
                     /\ state \in FinalStates => Dead(o)

Truthful(u) == TruthOf(u.order, u.new_state)

TruthfulCall(c) ==
    /\ c.kind \in {"update", "report"} => Truthful(c.update)
    /\ c.kind = "not_found" => c.order \in started /\ (c.guess \/ Dead(c.order))

TruthfulReply(r) ==
    /\ r.order \in started
    /\ r.kind = "status" => TruthOf(r.order, r.state)
    /\ r.kind = "canceled" => Over(r.order) /\ Dead(r.order)
    /\ r.kind = "not_found" => Dead(r.order)

(* The exchange knows no order that was never started.                      *)
OnlyStarted ==
    /\ \A o \in Orders \ started : exchange[o] = "absent"
    /\ \A o \in wire : o \in started /\ exchange[o] = "absent"
    /\ placing \subseteq started
    /\ \A w \in Workers : pass[w].todo \subseteq started

TasksAreTrue   == /\ \A i \in 1 .. Len(tasks) : Truthful(tasks[i])
                  /\ \A i \in 1 .. Len(waiting) : Truthful(waiting[i])
CallsAreTrue   == \A i \in 1 .. Len(calls) : TruthfulCall(calls[i])
StreamIsTrue   == \A i \in 1 .. Len(stream) : TruthOf(stream[i].order, stream[i].state)
RepliesAreTrue == \A w \in Workers : pass[w].reply # NoReply => TruthfulReply(pass[w].reply)

TravellersAreTrue == TasksAreTrue /\ CallsAreTrue /\ StreamIsTrue /\ RepliesAreTrue

ObjectsAreTrue ==
    \A o \in Orders : /\ order[o].state \in {"CANCELED", "FILLED"} => Over(o)
                      /\ "Cancelled" \in notified[o] => Over(o)

Watched == \A o \in started : o \in active \cup lost \/ Dead(o)

XIInv == /\ IInv /\ XTypeOK /\ OnlyStarted
         /\ TravellersAreTrue /\ ObjectsAreTrue /\ Watched

----------------------------------------------------------------------------
(* What was true of an order stays true.                                    *)
Steady == \A o \in started : /\ o \in started'
                             /\ Over(o) => Over(o)'
                             /\ Dead(o) => Dead(o)'

LEMMA TruthStays ==
    ASSUME XIInv, Steady
    PROVE  /\ \A o \in Orders, s \in OrderState : TruthOf(o, s) => TruthOf(o, s)'
           /\ \A u \in OrderUpdate : Truthful(u) => Truthful(u)'
           /\ \A c \in Call : TruthfulCall(c) => TruthfulCall(c)'
           /\ \A r \in Replies : TruthfulReply(r) => TruthfulReply(r)'
  <1>1. \A o, s : TruthOf(o, s) => TruthOf(o, s)'
    BY DEF Steady, TruthOf
  <1>2. \A u \in OrderUpdate : Truthful(u) => Truthful(u)'
    BY <1>1 DEF Truthful
  <1>3. \A c \in Call : TruthfulCall(c) => TruthfulCall(c)'
    BY <1>2 DEF TruthfulCall, Steady, Call
  <1>4. \A r \in Replies : TruthfulReply(r) => TruthfulReply(r)'
    BY <1>1 DEF TruthfulReply, Steady
  <1> QED BY <1>1, <1>2, <1>3, <1>4

LEMMA UnmovedStayTrue ==
    ASSUME XIInv, Steady
    PROVE  /\ UNCHANGED <<tasks, waiting>> => TasksAreTrue'
           /\ UNCHANGED calls => CallsAreTrue'
           /\ UNCHANGED stream => StreamIsTrue'
           /\ UNCHANGED pass => RepliesAreTrue'
           /\ UNCHANGED <<order, notified>> => ObjectsAreTrue'
           /\ UNCHANGED <<active, lost, started>> => Watched'
  <1>1. TypeOK /\ XTypeOK /\ TravellersAreTrue /\ ObjectsAreTrue /\ Watched
    BY DEF XIInv, IInv
  <1>2. UNCHANGED <<tasks, waiting>> => TasksAreTrue'
    <2> SUFFICES ASSUME UNCHANGED <<tasks, waiting>>
                 PROVE  /\ \A i \in 1 .. Len(tasks) : Truthful(tasks[i])'
                        /\ \A i \in 1 .. Len(waiting) : Truthful(waiting[i])'
      BY DEF TasksAreTrue
    <2>1. /\ \A i \in 1 .. Len(tasks) : tasks[i] \in OrderUpdate /\ Truthful(tasks[i])
          /\ \A i \in 1 .. Len(waiting) : waiting[i] \in OrderUpdate /\ Truthful(waiting[i])
      BY <1>1 DEF TypeOK, TravellersAreTrue, TasksAreTrue
    <2> QED BY <2>1, TruthStays DEF Truthful, TruthOf
  <1>3. UNCHANGED calls => CallsAreTrue'
    BY <1>1, TruthStays DEF XTypeOK, TravellersAreTrue, CallsAreTrue, TruthfulCall, Truthful
  <1>4. UNCHANGED stream => StreamIsTrue'
    <2> SUFFICES ASSUME UNCHANGED stream, NEW i \in 1 .. Len(stream)
                 PROVE  TruthOf(stream[i].order, stream[i].state)'
      BY DEF StreamIsTrue
    <2>1. stream[i] \in Report /\ TruthOf(stream[i].order, stream[i].state)
      BY <1>1 DEF XTypeOK, TravellersAreTrue, StreamIsTrue
    <2>2. stream[i].order \in Orders /\ stream[i].state \in OrderState
      BY <2>1 DEF Report
    <2> QED BY <2>1, <2>2, TruthStays DEF TruthOf
  <1>5. UNCHANGED pass => RepliesAreTrue'
    <2>1. \A w \in Workers : pass[w].reply # NoReply => pass[w].reply \in Replies /\ TruthfulReply(pass[w].reply)
      BY <1>1 DEF XTypeOK, TravellersAreTrue, RepliesAreTrue
    <2> QED BY <2>1, TruthStays DEF RepliesAreTrue, TruthfulReply
  <1>6. UNCHANGED <<order, notified>> => ObjectsAreTrue'
    <2>1. \A o \in Orders : Over(o) => Over(o)'
      BY DEF XIInv, OnlyStarted, Steady, Over, Ended
    <2> QED BY <1>1, <2>1 DEF ObjectsAreTrue
  <1>7. UNCHANGED <<active, lost, started>> => Watched'
    BY <1>1 DEF Watched, Steady
  <1> QED BY <1>2, <1>3, <1>4, <1>5, <1>6, <1>7

----------------------------------------------------------------------------
(* The elements of a queue that moved on.                                   *)
LEMMA TailElements ==
    ASSUME NEW S, NEW q \in Seq(S), q # <<>>
    PROVE  /\ Head(q) = q[1] /\ 1 \in 1 .. Len(q) /\ Head(q) \in S /\ Tail(q) \in Seq(S)
           /\ \A i \in 1 .. Len(Tail(q)) : Tail(q)[i] = q[i + 1] /\ i + 1 \in 1 .. Len(q)
  OBVIOUS

LEMMA AppendElements ==
    ASSUME NEW S, NEW q \in Seq(S), NEW e \in S
    PROVE  /\ Append(q, e) \in Seq(S)
           /\ \A i \in 1 .. Len(Append(q, e)) :
                  \/ i \in 1 .. Len(q) /\ Append(q, e)[i] = q[i]
                  \/ Append(q, e)[i] = e
  OBVIOUS

----------------------------------------------------------------------------
(* Each step of the connector is one of the tracker, or none.               *)
LEMMA XNextIsNext == [XNext]_xvars => [Next]_vars
  <1> SUFFICES ASSUME [XNext]_xvars PROVE [Next]_vars
    OBVIOUS
  <1>1. ASSUME NEW o \in Orders, _create_order(o) PROVE Next
    BY <1>1 DEF _create_order, Next
  <1>2. CASE make_call
    <2>1. PICK c : call_trade(c) \/ call_update(c) \/ call_ignored(c) \/ call_not_found(c)
      BY <1>2 DEF make_call
    <2>2. CASE call_trade(c)
      BY <2>2 DEF call_trade, Next
    <2>3. CASE call_update(c)
      BY <2>3 DEF call_update, Next
    <2>4. CASE call_ignored(c)
      BY <2>4 DEF call_ignored
    <2>5. CASE call_not_found(c)
      BY <2>5 DEF call_not_found, Next
    <2> QED BY <2>1, <2>2, <2>3, <2>4, <2>5
  <1>3. CASE RunTracker
    BY <1>3 DEF RunTracker, Next
  <1>4. CASE ExpireCache
    BY <1>4 DEF ExpireCache, Next
  <1>5. ASSUME NEW o \in Orders,
               \/ exchange_accepts(o) \/ exchange_refuses(o) \/ exchange_ends(o)
               \/ \E t \in Trades : exchange_trades(o, t)
               \/ place_order_returns(o) \/ place_order_fails(o)
               \/ \E w \in Workers : answered(w, o) \/ request_fails(w, o)
        PROVE  UNCHANGED vars
    BY <1>5 DEF exchange_accepts, exchange_refuses, exchange_ends, exchange_trades,
       place_order_returns, place_order_fails, answered, fills_answered, status_answered,
       cancel_answered, request_fails
  <1>6. ASSUME NEW w \in Workers, next_round(w) \/ handle_answer(w) PROVE UNCHANGED vars
    BY <1>6 DEF next_round, handle_answer
  <1>7. CASE handle_report \/ restart_network
    BY <1>7 DEF handle_report, restart_network
  <1>8. CASE UNCHANGED xvars
    BY <1>8 DEF xvars
  <1> QED BY <1>1, <1>2, <1>3, <1>4, <1>5, <1>6, <1>7, <1>8 DEF XNext

----------------------------------------------------------------------------
(* The tracker's steps, while nothing else moves but the guesses.           *)
LEMMA ApplyUpdateIsTrue ==
    ASSUME XIInv, Steady, NEW u \in OrderUpdate, CarriesReport(u), ApplyUpdate(u),
           NEW o, NEW state, o = u.order, state = u.new_state, TruthOf(o, state)',
           started' = started
    PROVE  ObjectsAreTrue' /\ Watched'
  <1> DEFINE old == order[o]
             new == update_with_order_update(old, u)
  <1>0. o \in Orders /\ o \in started /\ old \in Object
    BY DEF OrderUpdate, CarriesReport, XIInv, IInv, TypeOK
  <1>1. new \in Object /\ (new # old => new.state = u.new_state)
    BY <1>0, UpdateType
  <1>2. /\ order' = [order EXCEPT ![o] = new]
        /\ notified' = [notified EXCEPT ![o] =
                           @ \cup (IF old # new THEN EventsOf(old, new) ELSE {})]
        /\ active' = active \ Untracked(u) /\ lost' = lost
        /\ Untracked(u) = IF old # new /\ ~is_open(new) THEN active \cap {o} ELSE {}
    BY DEF ApplyUpdate, Untracked, updated
  <1>3. "Cancelled" \in EventsOf(old, new) => new.state = "CANCELED"
    BY DEF EventsOf, CreatedEvent, CompletionEvent, is_cancelled
  <1>4. u.new_state \in OpenStates \cup FinalStates
    BY DEF CarriesReport
  <1> HIDE DEF new
  <1>5. /\ order'[o] = new /\ \A p \in Orders \ {o} : order'[p] = order[p]
        /\ notified'[o] = notified[o] \cup (IF old # new THEN EventsOf(old, new) ELSE {})
        /\ \A p \in Orders \ {o} : notified'[p] = notified[p]
    BY <1>0, <1>2 DEF XIInv, IInv, TypeOK
  <1>6. \A p \in Orders : Over(p) => Over(p)'
    BY DEF XIInv, OnlyStarted, Steady, Over, Ended
  <1>7. /\ u.new_state \in {"CANCELED", "FILLED"} => Over(o)'
        /\ u.new_state \in FinalStates => Dead(o)'
    BY DEF TruthOf
  <1>8. ObjectsAreTrue'
    BY <1>0, <1>1, <1>3, <1>5, <1>6, <1>7 DEF ObjectsAreTrue, XIInv
  <1>9. Watched'
    <2> SUFFICES ASSUME NEW p \in started PROVE p \in active' \cup lost' \/ Dead(p)'
      BY DEF Watched
    <2>1. p \in active \cup lost \/ Dead(p)
      BY DEF XIInv, Watched
    <2>2. p \in active \ active' => p = o /\ u.new_state \in FinalStates
      BY <1>1, <1>2, <1>4 DEF is_open
    <2> QED BY <1>2, <1>7, <2>1, <2>2 DEF Steady
  <1> QED BY <1>8, <1>9

LEMMA ForgetLostIsTrue ==
    ASSUME XIInv, Steady, NEW u \in OrderUpdate, ForgetLost(u),
           NEW o, NEW state, o = u.order, state = u.new_state, TruthOf(o, state)',
           started' = started
    PROVE  ObjectsAreTrue' /\ Watched'
  <1>1. /\ UNCHANGED <<order, notified, active>>
        /\ lost' = IF u.new_state \in FinalStates THEN lost \ {u.order} ELSE lost
    BY DEF ForgetLost
  <1>2. u.new_state \in FinalStates => Dead(o)'
    BY DEF TruthOf
  <1>3. Watched'
    BY <1>1, <1>2 DEF XIInv, Watched, Steady
  <1> QED BY <1>1, <1>3, UnmovedStayTrue

LEMMA RunTrackerKeeps == XIInv /\ RunTracker => XIInv'
  <1> SUFFICES ASSUME XIInv, RunTracker PROVE XIInv'
    OBVIOUS
  <1>1. /\ BeginWait \/ RunTask \/ FillsArrived \/ WaitTimesOut
        /\ UNCHANGED <<exchange, traded, wire, placing, stream, calls, pass, unsure>>
    BY DEF RunTracker, outside
  <1>2. started' = started
    BY <1>1 DEF BeginWait, RunTask, FillsArrived, WaitTimesOut
  <1>3. Steady
    BY <1>1, <1>2 DEF Steady, Over, Dead, Living
  <1>4. IInv'
    BY <1>1, NextKeepsIInv DEF Next, XIInv
  <1>5. XTypeOK' /\ OnlyStarted'
    BY <1>1, <1>2 DEF XIInv, XTypeOK, OnlyStarted
  <1>6. CallsAreTrue' /\ StreamIsTrue' /\ RepliesAreTrue'
    BY <1>1, <1>3, UnmovedStayTrue
  <1>7. /\ \A i \in 1 .. Len(tasks) : tasks[i] \in OrderUpdate /\ CarriesReport(tasks[i]) /\ Truthful(tasks[i])
        /\ \A i \in 1 .. Len(waiting) :
              waiting[i] \in OrderUpdate /\ CarriesReport(waiting[i]) /\ Truthful(waiting[i])
        /\ tasks \in Seq(OrderUpdate) /\ waiting \in Seq(OrderUpdate)
    BY DEF XIInv, IInv, TypeOK, TasksCarryReports, TravellersAreTrue, TasksAreTrue
  <1>8. \A u \in OrderUpdate : Truthful(u) => Truthful(u)'
    BY <1>3, TruthStays
  <1>9. CASE BeginWait
    <2>1. /\ tasks # <<>> /\ waiting' = Append(waiting, Head(tasks)) /\ tasks' = Tail(tasks)
          /\ UNCHANGED <<order, active, lost, notified>>
      BY <1>9 DEF BeginWait, containers, history
    <2>2. /\ \A i \in 1 .. Len(tasks') : \E k \in 1 .. Len(tasks) : tasks'[i] = tasks[k]
          /\ \A i \in 1 .. Len(waiting') : \/ \E k \in 1 .. Len(waiting) : waiting'[i] = waiting[k]
                                           \/ waiting'[i] = tasks[1] /\ 1 \in 1 .. Len(tasks)
      <3>1. Head(tasks) \in OrderUpdate /\ Head(tasks) = tasks[1] /\ 1 \in 1 .. Len(tasks)
        BY <1>7, <2>1, TailElements
      <3>2. \A i \in 1 .. Len(tasks') : \E k \in 1 .. Len(tasks) : tasks'[i] = tasks[k]
        BY <1>7, <2>1, TailElements
      <3>3. \A i \in 1 .. Len(waiting') : \/ \E k \in 1 .. Len(waiting) : waiting'[i] = waiting[k]
                                          \/ waiting'[i] = Head(tasks)
        BY <1>7, <2>1, <3>1, AppendElements
      <3> QED BY <3>1, <3>2, <3>3
    <2>3. TasksAreTrue'
      BY <1>7, <1>8, <2>2 DEF TasksAreTrue, Truthful
    <2> QED BY <1>2, <1>3, <1>4, <1>5, <1>6, <2>1, <2>3, UnmovedStayTrue DEF XIInv, TravellersAreTrue
  <1>10. CASE RunTask
    <2>1. tasks # <<>> /\ tasks' = Tail(tasks) /\ waiting' = waiting
      BY <1>10 DEF RunTask
    <2>2. \A i \in 1 .. Len(tasks') : \E k \in 1 .. Len(tasks) : tasks'[i] = tasks[k]
      BY <1>7, <2>1, TailElements
    <2>3. TasksAreTrue'
      BY <1>7, <1>8, <2>1, <2>2 DEF TasksAreTrue, Truthful
    <2> DEFINE u == Head(tasks)
    <2>4. u \in OrderUpdate /\ CarriesReport(u) /\ Truthful(u)
      BY <1>7, <2>1, TailElements
    <2>5. PICK o \in Orders, state \in OrderState : o = u.order /\ state = u.new_state /\ TruthOf(o, state)
      BY <2>4 DEF OrderUpdate, Truthful
    <2>6. TruthOf(o, state)'
      BY <1>3, <2>5, TruthStays
    <2>7. ASSUME ApplyUpdate(u) PROVE ObjectsAreTrue' /\ Watched'
      BY <1>2, <1>3, <2>4, <2>5, <2>6, <2>7, ApplyUpdateIsTrue
    <2>8. ASSUME ForgetLost(u) PROVE ObjectsAreTrue' /\ Watched'
      BY <1>2, <1>3, <2>4, <2>5, <2>6, <2>8, ForgetLostIsTrue
    <2>9. ASSUME IgnoreUpdate(u) PROVE ObjectsAreTrue' /\ Watched'
      BY <1>2, <1>3, <2>9, UnmovedStayTrue DEF IgnoreUpdate, containers, history
    <2>10. ObjectsAreTrue' /\ Watched'
      BY <1>10, <2>7, <2>8, <2>9 DEF RunTask
    <2> QED BY <1>4, <1>5, <1>6, <2>3, <2>10 DEF XIInv, TravellersAreTrue
  <1>11. ASSUME NEW i \in 1 .. Len(waiting), ApplyUpdate(waiting[i]), StopWaiting(i), tasks' = tasks
         PROVE  XIInv'
    <2>1. \A k \in 1 .. Len(waiting') : \E m \in 1 .. Len(waiting) : waiting'[k] = waiting[m]
      <3> DEFINE n == Len(waiting) - 1
      <3>1. n \in Nat /\ \A k \in 1 .. n : k \in 1 .. Len(waiting) /\ k + 1 \in 1 .. Len(waiting)
        BY <1>7
      <3>2. waiting' = [k \in 1 .. n |-> IF k < i THEN waiting[k] ELSE waiting[k + 1]]
        BY <1>11 DEF StopWaiting
      <3>3. waiting' \in Seq(OrderUpdate) /\ Len(waiting') = n
        BY <1>7, <3>1, <3>2
      <3> QED BY <3>1, <3>2, <3>3
    <2>2. TasksAreTrue'
      BY <1>7, <1>8, <1>11, <2>1 DEF TasksAreTrue, Truthful
    <2>3. waiting[i] \in OrderUpdate /\ CarriesReport(waiting[i]) /\ Truthful(waiting[i])
      BY <1>7
    <2>4. PICK o \in Orders, state \in OrderState :
             o = waiting[i].order /\ state = waiting[i].new_state /\ TruthOf(o, state)
      BY <2>3 DEF OrderUpdate, Truthful
    <2>5. TruthOf(o, state)'
      BY <1>3, <2>4, TruthStays
    <2>6. ObjectsAreTrue' /\ Watched'
      BY <1>2, <1>3, <1>11, <2>3, <2>4, <2>5, ApplyUpdateIsTrue
    <2> QED BY <1>4, <1>5, <1>6, <2>2, <2>6 DEF XIInv, TravellersAreTrue
  <1>12. CASE FillsArrived
    BY <1>11, <1>12 DEF FillsArrived
  <1>13. CASE WaitTimesOut
    <2>1. waiting # <<>> /\ Head(waiting) = waiting[1] /\ 1 \in 1 .. Len(waiting)
      BY <1>7, <1>13, TailElements DEF WaitTimesOut
    <2> QED BY <1>11, <1>13, <2>1 DEF WaitTimesOut
  <1> QED BY <1>1, <1>9, <1>10, <1>12, <1>13

LEMMA ExpireCacheKeeps == XIInv /\ ExpireCache => XIInv'
  <1> SUFFICES ASSUME XIInv, NEW o \in Orders, expire_cached(o),
                      UNCHANGED <<exchange, traded, wire, placing, stream, calls, pass, unsure>>
               PROVE  XIInv'
    BY DEF ExpireCache, outside
  <1>1. UNCHANGED <<order, started, active, lost, tasks, waiting, notified>>
    BY DEF expire_cached, history
  <1>2. Steady
    BY <1>1 DEF Steady, Over, Dead, Living
  <1>3. IInv'
    BY ExpireKeepsIInv DEF XIInv
  <1>4. XTypeOK' /\ OnlyStarted'
    BY <1>1 DEF XIInv, XTypeOK, OnlyStarted
  <1> QED BY <1>1, <1>2, <1>3, <1>4, UnmovedStayTrue DEF XIInv, TravellersAreTrue

----------------------------------------------------------------------------
(* The calls of a callback.                                                 *)
LEMMA PrependElements ==
    ASSUME NEW S, NEW q \in Seq(S), NEW e \in S
    PROVE  /\ <<>> \o q = q /\ <<e>> \o q \in Seq(S)
           /\ \A i \in 1 .. Len(<<e>> \o q) :
                  \/ (<<e>> \o q)[i] = e
                  \/ \E k \in 1 .. Len(q) : (<<e>> \o q)[i] = q[k]
  <1>1. <<>> \o q = q
    OBVIOUS
  <1>2. /\ <<e>> \o q \in Seq(S) /\ Len(<<e>> \o q) = Len(q) + 1
        /\ \A i \in 1 .. Len(q) + 1 : (<<e>> \o q)[i] = IF i = 1 THEN e ELSE q[i - 1]
    OBVIOUS
  <1>3. Len(q) \in Nat /\ \A i \in 1 .. Len(q) + 1 : i # 1 => i - 1 \in 1 .. Len(q)
    OBVIOUS
  <1> QED BY <1>1, <1>2, <1>3

LEMMA TradeCallsAreTrue ==
    ASSUME NEW o \in Orders, NEW trades \in SUBSET Trades, NEW q \in Seq(Call),
           \A i \in 1 .. Len(q) : TruthfulCall(q[i])
    PROVE  /\ TradeCalls(o, trades) \o q \in Seq(Call)
           /\ \A i \in 1 .. Len(TradeCalls(o, trades) \o q) : TruthfulCall((TradeCalls(o, trades) \o q)[i])
  <1> DEFINE e == TradeCall(o, trades)
  <1>1. e \in Call /\ TruthfulCall(e)
    BY DEF TradeCall, Call, TruthfulCall
  <1> HIDE DEF e
  <1>2. CASE trades = {}
    BY <1>2, <1>1, PrependElements DEF TradeCalls
  <1>3. CASE trades # {}
    <2>1. TradeCalls(o, trades) = <<e>>
      BY <1>3 DEF TradeCalls, e
    <2> QED BY <1>1, <2>1, PrependElements
  <1> QED BY <1>2, <1>3

LEMMA CallTradeIsTrue ==
    ASSUME XIInv, Steady, NEW o \in Orders, NEW t \in Trades, process_trade_update(o, t)
    PROVE  ObjectsAreTrue' /\ Watched' /\ UNCHANGED <<started, tasks, waiting>>
  <1> DEFINE new == update_with_trade_update(order[o], t)
  <1>1. order[o] \in Object /\ new.state = order[o].state
    BY TradeType DEF XIInv, IInv, TypeOK
  <1>2. /\ order' = [order EXCEPT ![o] = new]
        /\ UNCHANGED <<started, active, lost, tasks, waiting, notified>>
    BY DEF process_trade_update, containers
  <1> HIDE DEF new
  <1>3. \A p \in Orders : order'[p].state = order[p].state
    BY <1>1, <1>2 DEF XIInv, IInv, TypeOK
  <1>4. \A p \in Orders : Over(p) => Over(p)'
    BY DEF XIInv, OnlyStarted, Steady, Over, Ended
  <1>5. ObjectsAreTrue'
    BY <1>2, <1>3, <1>4 DEF XIInv, ObjectsAreTrue
  <1> QED BY <1>2, <1>5, UnmovedStayTrue

LEMMA CallUpdateIsTrue ==
    ASSUME XIInv, Steady, NEW u \in OrderUpdate, Truthful(u), process_order_update(u)
    PROVE  TasksAreTrue' /\ ObjectsAreTrue' /\ Watched' /\ UNCHANGED started
  <1>1. /\ tasks' = Append(tasks, u)
        /\ UNCHANGED <<order, started, active, lost, waiting, notified>>
    BY DEF process_order_update, containers, history
  <1>2. /\ tasks \in Seq(OrderUpdate) /\ \A i \in 1 .. Len(tasks) : Truthful(tasks[i])
        /\ waiting \in Seq(OrderUpdate) /\ \A i \in 1 .. Len(waiting) : Truthful(waiting[i])
    BY DEF XIInv, IInv, TypeOK, TravellersAreTrue, TasksAreTrue
  <1>3. \A i \in 1 .. Len(tasks') : tasks'[i] \in OrderUpdate /\ Truthful(tasks'[i])
    BY <1>1, <1>2, AppendElements
  <1>4. \A v \in OrderUpdate : Truthful(v) => Truthful(v)'
    BY TruthStays
  <1>5. TasksAreTrue'
    BY <1>1, <1>2, <1>3, <1>4 DEF TasksAreTrue, Truthful
  <1> QED BY <1>1, <1>5, UnmovedStayTrue

(* A lookup failure: the order is counted, lost or, when it was lost        *)
(* already, given up.                                                       *)
LEMMA CallNotFoundIsTrue ==
    ASSUME XIInv, Steady, NEW o \in Orders, o \in started, o \in lost => Dead(o)',
           \/ count_not_found(o) \/ declare_lost(o) \/ lost_not_found(o)
           \/ UNCHANGED vars
    PROVE  ObjectsAreTrue' /\ Watched' /\ UNCHANGED <<started, tasks, waiting>>
  <1>1. CASE count_not_found(o)
    BY <1>1, UnmovedStayTrue DEF count_not_found, history
  <1>2. CASE UNCHANGED vars
    BY <1>2, UnmovedStayTrue DEF vars
  <1>3. CASE declare_lost(o)
    <2> DEFINE failed == [order[o] EXCEPT !.state = "FAILED"]
    <2>1. /\ order' = [order EXCEPT ![o] = failed]
          /\ notified' = [notified EXCEPT ![o] = @ \cup EventsOf(order[o], failed)]
          /\ active' = active \ {o} /\ lost' = lost \cup {o}
          /\ UNCHANGED <<started, tasks, waiting>>
      BY <1>3 DEF declare_lost
    <2>2. failed.state = "FAILED"
      BY DEF XIInv, IInv, TypeOK, Object
    <2>3. "Cancelled" \notin EventsOf(order[o], failed)
      BY <2>2 DEF EventsOf, CreatedEvent, CompletionEvent, is_cancelled
    <2> HIDE DEF failed
    <2>4. \A p \in Orders : Over(p) => Over(p)'
      BY DEF XIInv, OnlyStarted, Steady, Over, Ended
    <2>5. ObjectsAreTrue'
      BY <2>1, <2>2, <2>3, <2>4 DEF XIInv, IInv, TypeOK, ObjectsAreTrue
    <2>6. Watched'
      BY <2>1 DEF XIInv, Watched, Steady
    <2> QED BY <2>1, <2>5, <2>6
  <1>4. CASE lost_not_found(o)
    <2>1. /\ o \in lost /\ UNCHANGED <<started, tasks, waiting>>
          /\ ApplyUpdate(FailedUpdate(o)) \/ ForgetLost(FailedUpdate(o))
      BY <1>4 DEF lost_not_found
    <2>2. /\ FailedUpdate(o) \in OrderUpdate /\ CarriesReport(FailedUpdate(o))
          /\ FailedUpdate(o).order = o /\ FailedUpdate(o).new_state = "FAILED"
      BY DEF FailedUpdate, OrderUpdate, OrderState, CarriesReport, FinalStates
    <2>3. TruthOf(o, "FAILED")'
      BY <2>1 DEF TruthOf, Steady
    <2> QED BY <2>1, <2>2, <2>3, ApplyUpdateIsTrue, ForgetLostIsTrue
  <1> QED BY <1>1, <1>2, <1>3, <1>4

LEMMA MakeCallKeeps == XIInv /\ make_call => XIInv'
  <1> SUFFICES ASSUME XIInv, make_call PROVE XIInv'
    OBVIOUS
  <1> DEFINE c == Head(calls)
  <1>1. /\ calls # <<>> /\ calls \in Seq(Call)
        /\ call_trade(c) \/ call_update(c) \/ call_ignored(c) \/ call_not_found(c)
        /\ UNCHANGED <<exchange, traded, wire, placing, stream, pass>>
    BY DEF make_call, XIInv, XTypeOK, outside
  <1>2. \A i \in 1 .. Len(calls) : calls[i] \in Call /\ TruthfulCall(calls[i])
    BY <1>1 DEF XIInv, TravellersAreTrue, CallsAreTrue
  <1>3. c \in Call /\ TruthfulCall(c)
    BY <1>1, <1>2, TailElements
  <1>4. /\ Tail(calls) \in Seq(Call)
        /\ \A i \in 1 .. Len(Tail(calls)) : TruthfulCall(Tail(calls)[i])
    BY <1>1, <1>2, TailElements
  <1>5. /\ unsure \subseteq unsure' /\ unsure' \in SUBSET Orders
        /\ c.kind = "not_found" /\ c.guess /\ c.order \in lost => c.order \in unsure'
    <2>1. c.kind = "not_found" => c.order \in Orders
      BY <1>3 DEF Call
    <2> QED BY <1>1, <2>1 DEF call_trade, call_update, call_ignored, call_not_found, XIInv, XTypeOK
  <1>6. started' = started
    BY <1>1 DEF call_trade, call_update, call_ignored, call_not_found, process_trade_update,
       process_order_update, vars, count_not_found, declare_lost, lost_not_found
  <1>7. Steady
    BY <1>1, <1>5, <1>6 DEF Steady, Over, Dead, Living
  <1>8. IInv'
    <2>1. [Next]_vars
      BY XNextIsNext DEF XNext
    <2> QED BY <2>1, NextKeepsIInv DEF XIInv
  <1>9. /\ calls' \in Seq(Call)
        /\ \A i \in 1 .. Len(calls') : TruthfulCall(calls'[i])
    <2>1. CASE call_trade(c)
      <3>1. PICK o \in Orders, t \in Trades :
               calls' = TradeCalls(o, c.trades \ {t}) \o Tail(calls) /\ c.kind = "trade"
        BY <2>1 DEF call_trade
      <3>2. c.trades \ {t} \in SUBSET Trades
        BY <1>3, <3>1 DEF Call
      <3> DEFINE more == c.trades \ {t}
                 rest == Tail(calls)
      <3> HIDE DEF more, rest
      <3>3. /\ TradeCalls(o, more) \o rest \in Seq(Call)
            /\ \A i \in 1 .. Len(TradeCalls(o, more) \o rest) :
                  TruthfulCall((TradeCalls(o, more) \o rest)[i])
        BY <1>4, <3>2, TradeCallsAreTrue DEF more, rest
      <3> QED BY <3>1, <3>3 DEF more, rest
    <2>2. CASE calls' = Tail(calls)
      BY <1>4, <2>2
    <2> QED BY <1>1, <2>1, <2>2 DEF call_update, call_ignored, call_not_found
  <1>10. CallsAreTrue'
    BY <1>7, <1>9, TruthStays DEF CallsAreTrue, TruthfulCall, Truthful
  <1>11. XTypeOK' /\ OnlyStarted'
    BY <1>1, <1>5, <1>6, <1>9 DEF XIInv, XTypeOK, OnlyStarted
  <1>12. StreamIsTrue' /\ RepliesAreTrue'
    BY <1>1, <1>7, UnmovedStayTrue
  <1>13. TasksAreTrue' /\ ObjectsAreTrue' /\ Watched'
    <2>1. ASSUME call_trade(c) PROVE TasksAreTrue' /\ ObjectsAreTrue' /\ Watched'
      <3>1. PICK o \in Orders, t \in Trades : process_trade_update(o, t) \/ UNCHANGED vars
        BY <2>1 DEF call_trade
      <3>2. CASE process_trade_update(o, t)
        BY <1>7, <3>2, CallTradeIsTrue, UnmovedStayTrue
      <3>3. CASE UNCHANGED vars
        BY <1>7, <3>3, UnmovedStayTrue DEF vars
      <3> QED BY <3>1, <3>2, <3>3
    <2>2. ASSUME call_update(c) PROVE TasksAreTrue' /\ ObjectsAreTrue' /\ Watched'
      <3>1. PICK u \in OrderUpdate : u = c.update /\ process_order_update(u)
        BY <2>2 DEF call_update
      <3>2. Truthful(u)
        BY <1>3, <2>2, <3>1 DEF call_update, TruthfulCall
      <3> QED BY <1>7, <3>1, <3>2, CallUpdateIsTrue
    <2>3. ASSUME call_ignored(c) PROVE TasksAreTrue' /\ ObjectsAreTrue' /\ Watched'
      BY <1>7, <2>3, UnmovedStayTrue DEF call_ignored, vars
    <2>4. ASSUME call_not_found(c) PROVE TasksAreTrue' /\ ObjectsAreTrue' /\ Watched'
      <3>1. PICK o \in Orders : /\ o = c.order /\ c.kind = "not_found"
                                /\ \/ count_not_found(o) \/ declare_lost(o) \/ lost_not_found(o)
                                   \/ UNCHANGED vars
        BY <2>4 DEF call_not_found
      <3>2. o \in started /\ (c.guess \/ Dead(o))
        BY <1>3, <3>1 DEF TruthfulCall
      <3>3. o \in lost => Dead(o)'
        BY <1>5, <1>7, <3>1, <3>2 DEF Dead, Steady
      <3> QED BY <1>7, <3>1, <3>2, <3>3, CallNotFoundIsTrue, UnmovedStayTrue
    <2> QED BY <1>1, <2>1, <2>2, <2>3, <2>4
  <1> QED BY <1>8, <1>10, <1>11, <1>12, <1>13 DEF XIInv, TravellersAreTrue

----------------------------------------------------------------------------
(* The exchange.                                                            *)
LEMMA PublishIsTrue ==
    ASSUME XIInv, Steady, NEW o \in Orders, o \in started, NEW trades \in SUBSET Trades,
           exchange' \in [Orders -> ExchangeStates], exchange'[o] \in Ended => o \notin wire',
           stream \in Seq(Report), Publish(o, trades)
    PROVE  stream' \in Seq(Report) /\ StreamIsTrue'
  <1>1. CASE UNCHANGED stream
    BY <1>1, UnmovedStayTrue
  <1>2. ASSUME stream' = Append(stream, [order |-> o, trades |-> trades,
                                         state |-> ORDER_STATE(exchange'[o], traded'[o])])
        PROVE  stream' \in Seq(Report) /\ StreamIsTrue'
    <2>1. PICK state \in OrderState : /\ state = ORDER_STATE(exchange'[o], traded'[o])
                                      /\ state \in FinalStates => exchange'[o] \in Ended
      BY DEF ORDER_STATE, OrderState, FinalStates, Ended, ExchangeStates
    <2>2. TruthOf(o, state)'
      <3>1. exchange'[o] \in Ended => Over(o)' /\ Dead(o)'
        BY DEF Over, Dead, Living, Ended
      <3>2. {"CANCELED", "FILLED"} \subseteq FinalStates /\ o \in started'
        BY DEF FinalStates, Steady
      <3> QED BY <2>1, <3>1, <3>2 DEF TruthOf
    <2> DEFINE e == [order |-> o, trades |-> trades, state |-> state]
    <2>3. e \in Report /\ e.order = o /\ e.state = state
      BY DEF Report
    <2>4. \A i \in 1 .. Len(stream) : stream[i] \in Report /\ TruthOf(stream[i].order, stream[i].state)
      BY DEF XIInv, TravellersAreTrue, StreamIsTrue
    <2> HIDE DEF e
    <2>5. stream' = Append(stream, e)
      BY <1>2, <2>1 DEF e
    <2>6. /\ stream' \in Seq(Report)
          /\ \A i \in 1 .. Len(stream') :
                 (i \in 1 .. Len(stream) /\ stream'[i] = stream[i]) \/ stream'[i] = e
      BY <2>3, <2>5, AppendElements
    <2>7. \A r \in Report : TruthOf(r.order, r.state) => TruthOf(r.order, r.state)'
      BY TruthStays DEF Report
    <2>8. StreamIsTrue'
      BY <2>2, <2>3, <2>4, <2>6, <2>7 DEF StreamIsTrue, TruthOf
    <2> QED BY <2>6, <2>8
  <1> QED BY <1>1, <1>2 DEF Publish

LEMMA TrackerRests ==
    ASSUME XIInv, Steady, UNCHANGED vars, XTypeOK', OnlyStarted',
           CallsAreTrue', StreamIsTrue', RepliesAreTrue'
    PROVE  XIInv'
  <1>1. IInv'
    BY NextKeepsIInv DEF XIInv
  <1>2. TasksAreTrue' /\ ObjectsAreTrue' /\ Watched'
    BY UnmovedStayTrue DEF vars
  <1> QED BY <1>1, <1>2 DEF XIInv, TravellersAreTrue

(* A step of the exchange on an order that is on its way to it, or open.    *)
LEMMA ExchangeMoves ==
    ASSUME XIInv, NEW o \in Orders, o \in wire \/ exchange[o] = "open",
           NEW state \in ExchangeStates, exchange' = [exchange EXCEPT ![o] = state],
           wire' \in {wire, wire \ {o}}, state = "absent" \/ o \notin wire',
           state = "open" => exchange[o] = "open" \/ o \in wire,
           traded' \in [Orders -> SUBSET Trades],
           NEW trades \in SUBSET Trades, UNCHANGED stream \/ Publish(o, trades),
           UNCHANGED <<vars, placing, calls, pass, unsure>>
    PROVE  XIInv'
  <1>1. /\ XTypeOK /\ OnlyStarted /\ started' = started /\ o \in started
        /\ exchange' \in [Orders -> ExchangeStates] /\ exchange'[o] = state
        /\ \A p \in Orders \ {o} : exchange'[p] = exchange[p]
    BY DEF XIInv, XTypeOK, OnlyStarted, vars
  <1>2. exchange[o] \notin Ended
    BY <1>1 DEF OnlyStarted, Ended
  <1>3. Steady
    BY <1>1, <1>2 DEF Steady, Over, Dead, Living, XIInv, IInv, TypeOK
  <1>4. OnlyStarted'
    BY <1>1 DEF OnlyStarted
  <1>5. stream' \in Seq(Report) /\ StreamIsTrue'
    BY <1>1, <1>3, PublishIsTrue, UnmovedStayTrue DEF XTypeOK, Ended
  <1>6. XTypeOK'
    BY <1>1, <1>5 DEF XTypeOK
  <1> QED BY <1>3, <1>4, <1>5, <1>6, TrackerRests, UnmovedStayTrue

LEMMA ExchangeKeeps ==
    ASSUME XIInv, NEW o \in Orders,
           \/ exchange_accepts(o) \/ exchange_refuses(o) \/ exchange_ends(o)
           \/ \E t \in Trades : exchange_trades(o, t)
    PROVE  XIInv'
  <1>1. /\ exchange \in [Orders -> ExchangeStates] /\ traded \in [Orders -> SUBSET Trades]
        /\ \A p \in wire : exchange[p] = "absent"
    BY DEF XIInv, XTypeOK, OnlyStarted
  <1>2. CASE exchange_accepts(o)
    <2>1. /\ o \in wire /\ wire' = wire \ {o} /\ exchange' = [exchange EXCEPT ![o] = "open"]
          /\ traded' = traded /\ Publish(o, {}) /\ UNCHANGED <<vars, placing, calls, pass, unsure>>
      BY <1>2 DEF exchange_accepts
    <2>2. "open" \in ExchangeStates /\ {} \in SUBSET Trades /\ o \notin wire'
      BY <2>1 DEF ExchangeStates
    <2> QED BY <1>1, <2>1, <2>2, ExchangeMoves
  <1>3. CASE exchange_refuses(o)
    <2>1. exchange' = [exchange EXCEPT ![o] = "absent"]
      BY <1>1, <1>3 DEF exchange_refuses
    <2> QED BY <1>1, <1>3, <2>1, ExchangeMoves DEF exchange_refuses, ExchangeStates
  <1>4. CASE exchange_ends(o)
    <2>1. PICK state \in {"canceled", "expired"} : exchange' = [exchange EXCEPT ![o] = state]
      BY <1>4 DEF exchange_ends
    <2>2. /\ exchange[o] = "open" /\ wire' = wire /\ traded' = traded /\ Publish(o, {})
          /\ UNCHANGED <<vars, placing, calls, pass, unsure>>
      BY <1>4 DEF exchange_ends
    <2>3. state \in ExchangeStates /\ {} \in SUBSET Trades /\ o \notin wire'
      BY <1>1, <2>2 DEF ExchangeStates
    <2> QED BY <1>1, <2>1, <2>2, <2>3, ExchangeMoves
  <1>5. ASSUME NEW t \in Trades, exchange_trades(o, t) PROVE XIInv'
    <2>1. PICK state \in {"open", "filled"} : exchange' = [exchange EXCEPT ![o] = state]
      BY <1>1, <1>5 DEF exchange_trades
    <2>2. traded' \in [Orders -> SUBSET Trades] /\ {t} \in SUBSET Trades
      BY <1>1, <1>5 DEF exchange_trades
    <2>3. /\ exchange[o] = "open" /\ wire' = wire /\ Publish(o, {t})
          /\ UNCHANGED <<vars, placing, calls, pass, unsure>>
      BY <1>5 DEF exchange_trades
    <2>4. state \in ExchangeStates /\ o \notin wire'
      BY <1>1, <2>3 DEF ExchangeStates
    <2> QED BY <2>1, <2>2, <2>3, <2>4, ExchangeMoves
  <1> QED BY <1>2, <1>3, <1>4, <1>5

----------------------------------------------------------------------------
(* The connector's coroutines.  A callback that begins has one call, or     *)
(* several: all that matters of them is that they are true.                 *)
LEMMA CallbackBegins ==
    ASSUME XIInv, Steady, UNCHANGED vars, UNCHANGED <<exchange, traded, wire>>,
           calls' \in Seq(Call), CallsAreTrue', StreamIsTrue', RepliesAreTrue',
           stream' \in Seq(Report), placing' \in SUBSET placing,
           unsure' \in SUBSET Orders,
           pass' \in [Workers -> [phase : Phases, todo : SUBSET Orders, reply : Replies \cup {NoReply}]],
           \A w \in Workers : pass'[w].todo \subseteq started
    PROVE  XIInv'
  <1>1. started' = started
    BY DEF vars
  <1>2. XTypeOK' /\ OnlyStarted'
    BY <1>1 DEF XIInv, XTypeOK, OnlyStarted
  <1> QED BY <1>2, TrackerRests

LEMMA OneCallIsTrue ==
    ASSUME NEW c \in Call, calls' = <<c>>
    PROVE  calls' \in Seq(Call) /\ Len(calls') = 1 /\ calls'[1] = c
  OBVIOUS

(* An update about a started order, as a call.                              *)
LEMMA UpdateCallType ==
    ASSUME NEW o \in Orders, NEW state \in OrderState
    PROVE  /\ UpdateCall(Reported(o, state)) \in Call /\ UpdateCall(Guessed(o, state)) \in Call
           /\ StreamCall(Reported(o, state)) \in Call /\ UpdateCall(FailedUpdate(o)) \in Call
           /\ \A guess \in BOOLEAN : NotFoundCall(o, guess) \in Call
  <1>1. /\ Reported(o, state) \in OrderUpdate /\ Guessed(o, state) \in OrderUpdate
        /\ FailedUpdate(o) \in OrderUpdate
    BY DEF Reported, Guessed, FailedUpdate, OrderUpdate, OrderState
  <1> QED BY <1>1 DEF UpdateCall, StreamCall, NotFoundCall, Call

LEMMA UpdateCallIsTrue ==
    ASSUME NEW o \in Orders, NEW state \in OrderState, TruthOf(o, state)
    PROVE  /\ TruthfulCall(UpdateCall(Reported(o, state))) /\ TruthfulCall(UpdateCall(Guessed(o, state)))
           /\ TruthfulCall(StreamCall(Reported(o, state)))
  BY DEF UpdateCall, StreamCall, Reported, Guessed, TruthfulCall, Truthful

LEMMA OneTrueCall ==
    ASSUME XIInv, Steady, NEW c \in Call, TruthfulCall(c) \/ TruthfulCall(c)', calls' = <<c>>
    PROVE  calls' \in Seq(Call) /\ CallsAreTrue'
  <1>1. TruthfulCall(c)'
    BY TruthStays
  <1> QED BY <1>1, OneCallIsTrue DEF CallsAreTrue, TruthfulCall, Truthful

LEMMA NoCallIsTrue ==
    ASSUME calls' = <<>> PROVE calls' \in Seq(Call) /\ CallsAreTrue'
  BY DEF CallsAreTrue

LEMMA PlacementEnds ==
    ASSUME XIInv, NEW o \in Orders, place_order_returns(o) \/ place_order_fails(o)
    PROVE  XIInv'
  <1>1. /\ o \in placing /\ placing' = placing \ {o} /\ UNCHANGED vars
        /\ UNCHANGED <<exchange, traded, wire, stream, pass>>
    BY DEF place_order_returns, place_order_fails, outside
  <1>2. unsure' \in {unsure, unsure \cup {o}} /\ o \in started
    BY <1>1 DEF place_order_returns, place_order_fails, XIInv, OnlyStarted
  <1>3. Steady
    BY <1>1, <1>2 DEF Steady, Over, Dead, Living, vars
  <1>4. calls' \in Seq(Call) /\ CallsAreTrue'
    <2>1. CASE place_order_returns(o)
      <3>1. TruthOf(o, "OPEN") /\ "OPEN" \in OrderState
        BY <1>2 DEF TruthOf, OrderState, FinalStates
      <3>2. calls' = <<UpdateCall(Reported(o, "OPEN"))>>
        BY <2>1 DEF place_order_returns
      <3> QED BY <1>3, <3>1, <3>2, OneTrueCall, UpdateCallType, UpdateCallIsTrue
    <2>2. CASE place_order_fails(o)
      <3>1. calls' = <<UpdateCall(FailedUpdate(o))>> /\ unsure' = unsure \cup {o}
        BY <2>2 DEF place_order_fails
      <3>2. o \in started' /\ Dead(o)'
        BY <1>2, <1>3, <3>1 DEF Steady, Dead
      <3>3. TruthfulCall(UpdateCall(FailedUpdate(o)))'
        BY <3>2 DEF TruthfulCall, UpdateCall, FailedUpdate, Truthful, TruthOf
      <3>4. UpdateCall(FailedUpdate(o)) \in Call
        BY UpdateCallType DEF OrderState
      <3> QED BY <1>3, <3>1, <3>3, <3>4, OneTrueCall
    <2> QED BY <2>1, <2>2
  <1>5. StreamIsTrue' /\ RepliesAreTrue'
    BY <1>1, <1>3, UnmovedStayTrue
  <1>6. XTypeOK /\ OnlyStarted
    BY DEF XIInv
  <1> QED BY <1>1, <1>2, <1>3, <1>4, <1>5, <1>6, CallbackBegins DEF XTypeOK, OnlyStarted

(* What is called after an answer is as true as the answer.                 *)
LEMMA AnswersAreTrue ==
    ASSUME NEW r \in Replies, TruthfulReply(r),
           NEW q \in {FillsCalls(r), CancelCalls(r), LostStatusCalls(r), StatusCalls(r)}
    PROVE  q = <<>> \/ \E c \in Call : q = <<c>> /\ TruthfulCall(c)
  <1> DEFINE o == r.order
  <1>1. /\ o \in Orders /\ o \in started /\ r.state \in OrderState /\ r.trades \in SUBSET Trades
    BY DEF Replies, TruthfulReply
  <1>2. CASE q = FillsCalls(r)
    <2>1. TradeCall(o, r.trades) \in Call /\ TruthfulCall(TradeCall(o, r.trades))
      BY <1>1 DEF TradeCall, Call, TruthfulCall
    <2> QED BY <1>2, <2>1 DEF FillsCalls, TradeCalls
  <1>3. r.kind = "not_found" => TruthfulCall(UpdateCall(FailedUpdate(o)))
    BY <1>1 DEF TruthfulReply, TruthfulCall, UpdateCall, FailedUpdate, Truthful, TruthOf
  <1>4. \A guess \in BOOLEAN : guess \/ r.kind = "not_found" => TruthfulCall(NotFoundCall(o, guess))
    BY <1>1 DEF TruthfulReply, TruthfulCall, NotFoundCall
  <1>5. r.kind = "status" => TruthfulCall(UpdateCall(Reported(o, r.state)))
    BY <1>1, UpdateCallIsTrue DEF TruthfulReply
  <1>6. ASSUME NEW state \in {"CANCELED", "PENDING_CANCEL"}, r.kind = "canceled"
        PROVE  TruthfulCall(UpdateCall(Guessed(o, state))) /\ UpdateCall(Guessed(o, state)) \in Call
    <2>1. TruthOf(o, state) /\ state \in OrderState
      BY <1>1, <1>6 DEF TruthfulReply, TruthOf, FinalStates, OrderState
    <2> QED BY <1>1, <2>1, UpdateCallIsTrue, UpdateCallType
  <1>7. /\ UpdateCall(FailedUpdate(o)) \in Call /\ UpdateCall(Reported(o, r.state)) \in Call
        /\ \A guess \in BOOLEAN : NotFoundCall(o, guess) \in Call
    BY <1>1, UpdateCallType
  <1>8. CASE q = CancelCalls(r)
    BY <1>4, <1>6, <1>7, <1>8 DEF CancelCalls
  <1>9. CASE q = LostStatusCalls(r)
    BY <1>3, <1>5, <1>7, <1>9 DEF LostStatusCalls
  <1>10. CASE q = StatusCalls(r)
    BY <1>4, <1>5, <1>7, <1>10 DEF StatusCalls
  <1> QED BY <1>2, <1>8, <1>9, <1>10

LEMMA HandleAnswerKeeps ==
    ASSUME XIInv, NEW w \in Workers, handle_answer(w) PROVE XIInv'
  <1>1. PICK r : r = pass[w].reply
    OBVIOUS
  <1>2. r \in Replies /\ TruthfulReply(r)
    BY <1>1 DEF handle_answer, XIInv, XTypeOK, TravellersAreTrue, RepliesAreTrue
  <1>3. /\ calls' \in {FillsCalls(r), CancelCalls(r), LostStatusCalls(r), StatusCalls(r)}
        /\ pass' = [pass EXCEPT ![w].reply = NoReply]
        /\ UNCHANGED <<vars, exchange, traded, wire, placing, stream, unsure>>
    BY <1>1 DEF handle_answer, outside
  <1>4. Steady
    BY <1>3 DEF Steady, Over, Dead, Living, vars
  <1>5. calls' \in Seq(Call) /\ CallsAreTrue'
    <2>1. PICK q \in {FillsCalls(r), CancelCalls(r), LostStatusCalls(r), StatusCalls(r)} : calls' = q
      BY <1>3
    <2>2. q = <<>> \/ \E c \in Call : q = <<c>> /\ TruthfulCall(c)
      BY <1>2, AnswersAreTrue
    <2> QED BY <1>4, <2>1, <2>2, OneTrueCall, NoCallIsTrue
  <1>6. /\ pass' \in [Workers -> [phase : Phases, todo : SUBSET Orders, reply : Replies \cup {NoReply}]]
        /\ pass'[w].reply = NoReply /\ \A v \in Workers \ {w} : pass'[v] = pass[v]
        /\ \A v \in Workers : pass'[v].todo = pass[v].todo
    BY <1>3 DEF XIInv, XTypeOK
  <1>7. RepliesAreTrue'
    <2>1. \A v \in Workers : pass[v].reply # NoReply => pass[v].reply \in Replies /\ TruthfulReply(pass[v].reply)
      BY DEF XIInv, XTypeOK, TravellersAreTrue, RepliesAreTrue
    <2> QED BY <1>4, <1>6, <2>1, TruthStays DEF RepliesAreTrue, TruthfulReply
  <1>8. StreamIsTrue'
    BY <1>3, <1>4, UnmovedStayTrue
  <1> QED BY <1>3, <1>4, <1>5, <1>6, <1>7, <1>8, CallbackBegins DEF XIInv, XTypeOK, OnlyStarted

LEMMA HandleReportKeeps == XIInv /\ handle_report => XIInv'
  <1> SUFFICES ASSUME XIInv, handle_report PROVE XIInv'
    OBVIOUS
  <1>1. PICK m : m = Head(stream)
    OBVIOUS
  <1>2. /\ stream # <<>> /\ stream' = Tail(stream)
        /\ calls' = Append(TradeCalls(m.order, m.trades), StreamCall(Reported(m.order, m.state)))
        /\ UNCHANGED <<vars, exchange, traded, wire, placing, pass, unsure>>
    BY <1>1 DEF handle_report, outside
  <1>3. Steady
    BY <1>2 DEF Steady, Over, Dead, Living, vars
  <1>4. /\ stream \in Seq(Report)
        /\ \A i \in 1 .. Len(stream) : stream[i] \in Report /\ TruthOf(stream[i].order, stream[i].state)
    BY DEF XIInv, XTypeOK, TravellersAreTrue, StreamIsTrue
  <1>5. m \in Report /\ TruthOf(m.order, m.state)
    BY <1>1, <1>2, <1>4, TailElements
  <1>6. stream' \in Seq(Report) /\ StreamIsTrue'
    <2>1. /\ stream' \in Seq(Report)
          /\ \A i \in 1 .. Len(stream') : \E k \in 1 .. Len(stream) : stream'[i] = stream[k]
      BY <1>2, <1>4, TailElements
    <2>2. \A r \in Report : TruthOf(r.order, r.state) => TruthOf(r.order, r.state)'
      BY <1>3, TruthStays DEF Report
    <2>3. StreamIsTrue'
      BY <1>4, <2>1, <2>2 DEF StreamIsTrue, TruthOf
    <2> QED BY <2>1, <2>3
  <1>7. calls' \in Seq(Call) /\ CallsAreTrue'
    <2> DEFINE t == TradeCall(m.order, m.trades)
               c == StreamCall(Reported(m.order, m.state))
    <2>1. t \in Call /\ TruthfulCall(t) /\ TruthfulCall(t)'
      BY <1>5 DEF Report, TradeCall, Call, TruthfulCall
    <2>2. c \in Call /\ TruthfulCall(c)
      BY <1>5, UpdateCallType, UpdateCallIsTrue DEF Report
    <2>3. TruthfulCall(c)'
      BY <1>3, <2>2, TruthStays
    <2>4. CASE m.trades = {}
      <3>1. calls' = <<c>>
        BY <1>2, <2>4 DEF TradeCalls
      <3> QED BY <1>3, <2>2, <3>1, OneTrueCall
    <2>5. CASE m.trades # {}
      <3>1. calls' = Append(<<t>>, c)
        BY <1>2, <2>5 DEF TradeCalls
      <3> HIDE DEF t, c
      <3>2. calls' \in Seq(Call) /\ \A i \in 1 .. Len(calls') : calls'[i] = t \/ calls'[i] = c
        BY <2>1, <2>2, <3>1, AppendElements
      <3> QED BY <2>1, <2>3, <3>2 DEF CallsAreTrue, TruthfulCall, Truthful
    <2> QED BY <2>4, <2>5
  <1>8. RepliesAreTrue'
    BY <1>2, <1>3, UnmovedStayTrue
  <1> QED BY <1>2, <1>3, <1>6, <1>7, <1>8, CallbackBegins DEF XIInv, XTypeOK, OnlyStarted

LEMMA RestartKeeps == XIInv /\ restart_network => XIInv'
  <1> SUFFICES ASSUME XIInv, restart_network PROVE XIInv'
    OBVIOUS
  <1>1. /\ pass' = [w \in Workers |-> IF w \in Loops THEN Idle ELSE pass[w]] /\ stream' = <<>>
        /\ UNCHANGED <<vars, exchange, traded, wire, placing, calls, unsure>>
    BY DEF restart_network, outside
  <1>2. Steady
    BY <1>1 DEF Steady, Over, Dead, Living, vars
  <1>3. XTypeOK /\ OnlyStarted
    BY DEF XIInv
  <1>4. Idle \in [phase : Phases, todo : SUBSET Orders, reply : Replies \cup {NoReply}]
    BY DEF Idle, Phases
  <1>5. /\ pass' \in [Workers -> [phase : Phases, todo : SUBSET Orders, reply : Replies \cup {NoReply}]]
        /\ \A w \in Workers : pass'[w].todo \subseteq started
        /\ \A w \in Workers : pass'[w].reply # NoReply => pass'[w] = pass[w]
    BY <1>1, <1>3, <1>4 DEF XTypeOK, OnlyStarted, Idle
  <1>6. RepliesAreTrue'
    <2>1. \A v \in Workers : pass[v].reply # NoReply => pass[v].reply \in Replies /\ TruthfulReply(pass[v].reply)
      BY DEF XIInv, XTypeOK, TravellersAreTrue, RepliesAreTrue
    <2> QED BY <1>2, <1>5, <2>1, TruthStays DEF RepliesAreTrue, TruthfulReply
  <1>7. stream' \in Seq(Report) /\ StreamIsTrue'
    BY <1>1 DEF StreamIsTrue
  <1>8. calls' \in Seq(Call) /\ CallsAreTrue'
    BY <1>1, <1>2, <1>3, UnmovedStayTrue DEF XTypeOK
  <1> QED BY <1>1, <1>2, <1>3, <1>5, <1>6, <1>7, <1>8, CallbackBegins DEF XTypeOK

LEMMA NextRoundKeeps ==
    ASSUME XIInv, NEW w \in Workers, next_round(w) PROVE XIInv'
  <1>1. /\ pass[w].reply = NoReply
        /\ UNCHANGED <<vars, exchange, traded, wire, placing, stream, calls, unsure>>
    BY DEF next_round, outside
  <1>2. PICK todo : pass' = [pass EXCEPT ![w] = [phase |-> NextPhase(w, pass[w].phase),
                                                 todo |-> todo, reply |-> NoReply]]
                    /\ todo \in {{o} : o \in active} \cup {Todo(w, NextPhase(w, pass[w].phase))}
    BY DEF next_round
  <1>3. Steady
    BY <1>1 DEF Steady, Over, Dead, Living, vars
  <1>4. XTypeOK /\ OnlyStarted /\ active \cup cached \cup lost \subseteq started /\ started \subseteq Orders
    BY DEF XIInv, IInv, TrackedOnce, TypeOK
  <1>5. NextPhase(w, pass[w].phase) \in Phases
    BY <1>4 DEF NextPhase, Phases, XTypeOK
  <1>6. todo \subseteq started
    <2>1. CASE todo \in {{o} : o \in active}
      BY <1>4, <2>1
    <2>2. ASSUME NEW p, todo = Todo(w, p), p \in Phases PROVE todo \subseteq started
      BY <1>4, <2>2 DEF Todo, all_fillable_orders, Phases
    <2> QED BY <1>2, <1>5, <2>1, <2>2
  <1>7. /\ pass' \in [Workers -> [phase : Phases, todo : SUBSET Orders, reply : Replies \cup {NoReply}]]
        /\ pass'[w].todo \subseteq started /\ pass'[w].reply = NoReply
        /\ \A v \in Workers \ {w} : pass'[v] = pass[v]
    BY <1>2, <1>4, <1>5, <1>6 DEF XTypeOK
  <1>8. RepliesAreTrue'
    <2>1. \A v \in Workers : pass[v].reply # NoReply => pass[v].reply \in Replies /\ TruthfulReply(pass[v].reply)
      BY DEF XIInv, XTypeOK, TravellersAreTrue, RepliesAreTrue
    <2> QED BY <1>3, <1>7, <2>1, TruthStays DEF RepliesAreTrue, TruthfulReply
  <1>9. calls' \in Seq(Call) /\ CallsAreTrue' /\ stream' \in Seq(Report) /\ StreamIsTrue'
    BY <1>1, <1>3, <1>4, UnmovedStayTrue DEF XTypeOK
  <1> QED BY <1>1, <1>3, <1>4, <1>7, <1>8, <1>9, CallbackBegins DEF XTypeOK, OnlyStarted

(* An answer arrives, or the news that there will be none.                  *)
LEMMA AnswerArrives ==
    ASSUME XIInv, Steady, NEW w \in Workers, NEW r \in Replies, Answer(w, r), TruthfulReply(r)',
           exchange' \in [Orders -> ExchangeStates], unsure' \in SUBSET Orders,
           \A o \in Orders : exchange'[o] # exchange[o] => exchange[o] = "open",
           stream' \in Seq(Report), StreamIsTrue',
           UNCHANGED <<vars, traded, wire, placing, calls>>
    PROVE  XIInv'
  <1>1. XTypeOK /\ OnlyStarted /\ started' = started
    BY DEF XIInv, vars
  <1> DEFINE rec == [pass[w] EXCEPT !.todo = @ \ {r.order}, !.reply = r]
  <1>a. /\ rec \in [phase : Phases, todo : SUBSET Orders, reply : Replies \cup {NoReply}]
        /\ rec.reply = r /\ rec.todo \subseteq pass[w].todo
    BY <1>1 DEF XTypeOK
  <1>b. pass' = [pass EXCEPT ![w] = rec]
    BY DEF Answer
  <1> HIDE DEF rec
  <1>2. /\ pass' \in [Workers -> [phase : Phases, todo : SUBSET Orders, reply : Replies \cup {NoReply}]]
        /\ pass'[w].reply = r /\ \A v \in Workers \ {w} : pass'[v] = pass[v]
        /\ \A v \in Workers : pass'[v].todo \subseteq pass[v].todo
    BY <1>1, <1>a, <1>b DEF XTypeOK
  <1>3. RepliesAreTrue'
    <2>1. \A v \in Workers : pass[v].reply # NoReply => pass[v].reply \in Replies /\ TruthfulReply(pass[v].reply)
      BY DEF XIInv, XTypeOK, TravellersAreTrue, RepliesAreTrue
    <2> QED BY <1>2, <2>1, TruthStays DEF RepliesAreTrue, TruthfulReply
  <1>4. XTypeOK'
    BY <1>1, <1>2 DEF XTypeOK
  <1>5. OnlyStarted'
    BY <1>1, <1>2 DEF OnlyStarted, XTypeOK
  <1>6. CallsAreTrue'
    BY UnmovedStayTrue
  <1> QED BY <1>3, <1>4, <1>5, <1>6, TrackerRests

LEMMA ReplyType ==
    ASSUME NEW o \in Orders, NEW kind \in ReplyKinds, NEW trades \in SUBSET Trades,
           NEW state \in OrderState
    PROVE  /\ Reply(o, kind, trades, state) \in Replies
           /\ Reply(o, kind, trades, state).order = o /\ Reply(o, kind, trades, state).kind = kind
           /\ Reply(o, kind, trades, state).state = state
  BY DEF Reply, Replies

LEMMA RequestsKeep ==
    ASSUME XIInv, NEW w \in Workers, NEW o \in Orders, answered(w, o) \/ request_fails(w, o)
    PROVE  XIInv'
  <1>1. o \in started /\ UNCHANGED <<vars, traded, wire, placing, calls>>
    BY DEF answered, fills_answered, status_answered, cancel_answered, request_fails, Awaits,
       XIInv, OnlyStarted, outside
  <1>2. XTypeOK /\ OnlyStarted /\ started' = started
    BY <1>1 DEF XIInv, vars
  <1>3. {"OPEN", "FAILED", "CANCELED"} \subseteq OrderState /\ {} \in SUBSET Trades /\ traded[o] \in SUBSET Trades
    BY <1>2 DEF OrderState, XTypeOK
  <1>4. CASE UNCHANGED <<exchange, stream, unsure>>
             /\ \E kind \in {"fills", "error", "timeout"}, trades \in SUBSET Trades, state \in {"OPEN", "FAILED"} :
                   Answer(w, Reply(o, kind, trades, state))
    <2>1. PICK kind \in {"fills", "error", "timeout"}, trades \in SUBSET Trades, state \in {"OPEN", "FAILED"} :
                   Answer(w, Reply(o, kind, trades, state))
      BY <1>4
    <2>2. Steady
      BY <1>1, <1>2, <1>4 DEF Steady, Over, Dead, Living
    <2>3. Reply(o, kind, trades, state) \in Replies /\ TruthfulReply(Reply(o, kind, trades, state))'
      BY <1>1, <1>2, <1>3, ReplyType DEF ReplyKinds, TruthfulReply
    <2> QED BY <1>1, <1>2, <1>4, <2>1, <2>2, <2>3, AnswerArrives, UnmovedStayTrue DEF XTypeOK
  <1>5. CASE fills_answered(w, o)
    BY <1>1, <1>3, <1>4, <1>5 DEF fills_answered, outside
  <1>6. CASE request_fails(w, o)
    <2>1. \E kind \in {"fills", "error", "timeout"}, state \in {"OPEN", "FAILED"} : Answer(w, Reply(o, kind, {}, state))
      BY <1>6 DEF request_fails, FailedReplies
    <2> QED BY <1>3, <1>4, <1>6, <2>1 DEF request_fails, outside
  <1>7. CASE status_answered(w, o)
    <2>1. /\ UNCHANGED <<exchange, stream>> /\ unsure' = IF o \in wire THEN unsure \cup {o} ELSE unsure
          /\ Answer(w, IF exchange[o] = "absent"
                          THEN Reply(o, "not_found", {}, "FAILED")
                          ELSE Reply(o, "status", {}, ORDER_STATE(exchange[o], traded[o])))
      BY <1>7 DEF status_answered, outside
    <2>2. Steady
      BY <1>1, <1>2, <2>1 DEF Steady, Over, Dead, Living
    <2>3. StreamIsTrue'
      BY <2>1, <2>2, UnmovedStayTrue
    <2>4. CASE exchange[o] = "absent"
      <3>1. Dead(o)'
        BY <1>1, <2>1, <2>4 DEF Dead, Living
      <3>2. /\ Reply(o, "not_found", {}, "FAILED") \in Replies
            /\ TruthfulReply(Reply(o, "not_found", {}, "FAILED"))'
        BY <1>1, <1>2, <1>3, <3>1, ReplyType DEF ReplyKinds, TruthfulReply
      <3> QED BY <1>1, <1>2, <2>1, <2>2, <2>3, <2>4, <3>2, AnswerArrives DEF XTypeOK
    <2>5. CASE exchange[o] # "absent"
      <3>1. PICK state \in OrderState : /\ state = ORDER_STATE(exchange[o], traded[o])
                                        /\ state \in FinalStates => exchange[o] \in Ended
        BY <1>2 DEF ORDER_STATE, OrderState, FinalStates, Ended, XTypeOK, ExchangeStates
      <3>2. TruthOf(o, state)
        <4>1. Over(o) => Dead(o)
          BY <1>2, <2>5 DEF OnlyStarted, Over, Dead, Living, Ended
        <4>2. {"CANCELED", "FILLED"} \subseteq FinalStates
          BY DEF FinalStates
        <4> QED BY <1>1, <3>1, <4>1, <4>2 DEF TruthOf, Over
      <3>3. TruthOf(o, state)'
        BY <2>2, <3>2, TruthStays
      <3>4. Reply(o, "status", {}, state) \in Replies /\ TruthfulReply(Reply(o, "status", {}, state))'
        BY <1>1, <1>2, <3>3, ReplyType DEF ReplyKinds, TruthfulReply
      <3>5. Answer(w, Reply(o, "status", {}, state))
        BY <2>1, <2>5, <3>1
      <3> QED BY <1>1, <1>2, <2>1, <2>2, <2>3, <3>4, <3>5, AnswerArrives DEF XTypeOK
    <2> QED BY <2>4, <2>5
  <1>8. CASE cancel_answered(w, o)
    <2>1. unsure' = IF o \in wire THEN unsure \cup {o} ELSE unsure
      BY <1>8 DEF cancel_answered
    <2>2. CASE exchange[o] = "open"
      <3>1. /\ Answer(w, Reply(o, "canceled", {}, "CANCELED")) /\ Publish(o, {})
            /\ exchange' = [exchange EXCEPT ![o] = "canceled"]
        BY <1>8, <2>2 DEF cancel_answered
      <3>2. /\ exchange' \in [Orders -> ExchangeStates] /\ exchange'[o] = "canceled" /\ o \notin wire'
            /\ \A p \in Orders \ {o} : exchange'[p] = exchange[p]
        BY <1>1, <1>2, <2>2, <3>1 DEF XTypeOK, ExchangeStates, OnlyStarted
      <3>3. Steady
        BY <1>1, <1>2, <2>1, <2>2, <3>2 DEF Steady, Over, Dead, Living, Ended, XIInv, IInv, TypeOK
      <3>4. Over(o)' /\ Dead(o)'
        BY <3>2 DEF Over, Dead, Living, Ended
      <3>5. /\ Reply(o, "canceled", {}, "CANCELED") \in Replies
            /\ TruthfulReply(Reply(o, "canceled", {}, "CANCELED"))'
        BY <1>1, <1>2, <1>3, <3>4, ReplyType DEF ReplyKinds, TruthfulReply
      <3>6. stream' \in Seq(Report) /\ StreamIsTrue'
        BY <1>1, <1>2, <1>3, <3>1, <3>2, <3>3, PublishIsTrue DEF XTypeOK
      <3> QED BY <1>1, <1>2, <2>1, <2>2, <3>1, <3>2, <3>3, <3>5, <3>6, AnswerArrives DEF XTypeOK
    <2>3. CASE exchange[o] # "open"
      <3>1. Answer(w, Reply(o, "not_found", {}, "FAILED")) /\ UNCHANGED <<exchange, stream>>
        BY <1>8, <2>3 DEF cancel_answered
      <3>2. Steady
        BY <1>1, <1>2, <2>1, <3>1 DEF Steady, Over, Dead, Living
      <3>3. Dead(o)'
        BY <1>1, <2>1, <2>3, <3>1 DEF Dead, Living
      <3>4. /\ Reply(o, "not_found", {}, "FAILED") \in Replies
            /\ TruthfulReply(Reply(o, "not_found", {}, "FAILED"))'
        BY <1>1, <1>2, <1>3, <3>3, ReplyType DEF ReplyKinds, TruthfulReply
      <3> QED BY <1>1, <1>2, <2>1, <3>1, <3>2, <3>4, AnswerArrives, UnmovedStayTrue DEF XTypeOK
    <2> QED BY <2>2, <2>3
  <1> QED BY <1>5, <1>6, <1>7, <1>8 DEF answered

----------------------------------------------------------------------------
(* _create_order: nothing of the order is on the exchange yet.              *)
LEMMA CreateKeeps ==
    ASSUME XIInv, NEW o \in Orders, _create_order(o) PROVE XIInv'
  <1>1. /\ start_tracking_order(o) /\ calls = <<>>
        /\ UNCHANGED <<exchange, traded, stream, pass, unsure>>
        /\ \/ calls' = <<UpdateCall(FailedUpdate(o))>> /\ UNCHANGED <<wire, placing>>
           \/ wire' = wire \cup {o} /\ placing' = placing \cup {o} /\ UNCHANGED calls
    BY DEF _create_order, LoopIsFree
  <1>2. /\ o \notin started /\ started' = started \cup {o} /\ active' = active \cup {o}
        /\ order' = [order EXCEPT ![o] = NewInFlightOrder(o)]
        /\ UNCHANGED <<lost, tasks, waiting, notified>>
    BY <1>1 DEF start_tracking_order, history
  <1>3. XTypeOK /\ OnlyStarted /\ ObjectsAreTrue /\ Watched /\ TypeOK /\ NothingSaidOfNewOrders
    BY DEF XIInv, IInv
  <1>4. exchange[o] = "absent" /\ o \notin wire
    BY <1>2, <1>3 DEF OnlyStarted
  <1>5. Steady
    BY <1>1, <1>2 DEF Steady, Over, Dead, Living
  <1>6. IInv'
    BY <1>1, StartKeepsIInv DEF XIInv
  <1>7. calls' \in Seq(Call) /\ CallsAreTrue'
    <2>1. CASE UNCHANGED calls
      BY <1>3, <1>5, <2>1, UnmovedStayTrue DEF XTypeOK
    <2>2. CASE calls' = <<UpdateCall(FailedUpdate(o))>> /\ UNCHANGED wire
      <3>1. Dead(o)' /\ o \in started'
        BY <1>1, <1>2, <1>4, <2>2 DEF Dead, Living
      <3>2. TruthfulCall(UpdateCall(FailedUpdate(o)))'
        BY <3>1 DEF TruthfulCall, UpdateCall, FailedUpdate, Truthful, TruthOf
      <3>3. UpdateCall(FailedUpdate(o)) \in Call
        BY UpdateCallType DEF OrderState
      <3> QED BY <1>5, <2>2, <3>2, <3>3, OneTrueCall
    <2> QED BY <1>1, <2>1, <2>2
  <1>8. XTypeOK'
    BY <1>1, <1>3, <1>7 DEF XTypeOK
  <1>9. OnlyStarted'
    BY <1>1, <1>2, <1>3, <1>4 DEF OnlyStarted, XTypeOK
  <1>10. TravellersAreTrue'
    BY <1>1, <1>2, <1>5, <1>7, UnmovedStayTrue DEF TravellersAreTrue
  <1>11. ObjectsAreTrue'
    <2>1. \A p \in Orders \ {o} : order'[p] = order[p]
      BY <1>2, <1>3 DEF TypeOK
    <2>2. order'[o].state = "PENDING_CREATE" /\ notified'[o] = {}
      BY <1>2, <1>3 DEF TypeOK, NewInFlightOrder, NothingSaidOfNewOrders
    <2> QED BY <1>1, <1>2, <1>3, <2>1, <2>2 DEF ObjectsAreTrue, Over
  <1>12. Watched'
    BY <1>1, <1>2, <1>3 DEF Watched, Dead, Living
  <1> QED BY <1>6, <1>8, <1>9, <1>10, <1>11, <1>12 DEF XIInv

----------------------------------------------------------------------------
LEMMA XNextKeeps == XIInv /\ [XNext]_xvars => XIInv'
  <1> SUFFICES ASSUME XIInv, [XNext]_xvars PROVE XIInv'
    OBVIOUS
  <1>1. ASSUME NEW o \in Orders,
               \/ exchange_accepts(o) \/ exchange_refuses(o) \/ exchange_ends(o)
               \/ \E t \in Trades : exchange_trades(o, t)
        PROVE  XIInv'
    BY <1>1, ExchangeKeeps
  <1>2. ASSUME NEW o \in Orders, _create_order(o) PROVE XIInv'
    BY <1>2, CreateKeeps
  <1>3. ASSUME NEW o \in Orders, place_order_returns(o) \/ place_order_fails(o) PROVE XIInv'
    BY <1>3, PlacementEnds
  <1>4. ASSUME NEW o \in Orders, NEW w \in Workers, answered(w, o) \/ request_fails(w, o) PROVE XIInv'
    BY <1>4, RequestsKeep
  <1>5. ASSUME NEW w \in Workers, next_round(w) \/ handle_answer(w) PROVE XIInv'
    BY <1>5, NextRoundKeeps, HandleAnswerKeeps
  <1>6. CASE handle_report \/ restart_network \/ make_call
    BY <1>6, HandleReportKeeps, RestartKeeps, MakeCallKeeps
  <1>7. CASE RunTracker
    BY <1>7, RunTrackerKeeps
  <1>8. CASE ExpireCache
    BY <1>8, ExpireCacheKeeps
  <1>9. CASE UNCHANGED xvars
    <2>1. UNCHANGED <<vars, exchange, traded, wire, placing, stream, calls, pass, unsure>>
      BY <1>9 DEF xvars
    <2>2. Steady
      BY <2>1 DEF Steady, Over, Dead, Living, vars
    <2>3. XTypeOK /\ OnlyStarted
      BY DEF XIInv
    <2>4. XTypeOK' /\ OnlyStarted'
      BY <2>1, <2>3 DEF XTypeOK, OnlyStarted, vars
    <2> QED BY <2>1, <2>2, <2>4, TrackerRests, UnmovedStayTrue
  <1> QED BY <1>1, <1>2, <1>3, <1>4, <1>5, <1>6, <1>7, <1>8, <1>9 DEF XNext

LEMMA XInitXIInv == XInit => XIInv
  <1> SUFFICES ASSUME XInit PROVE XIInv
    OBVIOUS
  <1>1. Init /\ IInv
    BY InitIInv DEF XInit
  <1>2. /\ started = {} /\ tasks = <<>> /\ waiting = <<>> /\ active = {} /\ lost = {}
        /\ \A o \in Orders : order[o].state = "PENDING_CREATE" /\ notified[o] = {}
    BY <1>1 DEF Init, NewInFlightOrder
  <1>3. XTypeOK /\ OnlyStarted
    BY <1>2 DEF XInit, XTypeOK, OnlyStarted, ExchangeStates, Idle, Phases
  <1>4. TravellersAreTrue
    BY <1>2 DEF XInit, TravellersAreTrue, TasksAreTrue, CallsAreTrue, StreamIsTrue, RepliesAreTrue, Idle
  <1>5. ObjectsAreTrue /\ Watched
    BY <1>2 DEF ObjectsAreTrue, Watched
  <1> QED BY <1>1, <1>3, <1>4, <1>5 DEF XIInv

(* The inductive invariant holds throughout.                                *)
THEOREM ConnectorInvariant == XSpec => []XIInv
  BY XInitXIInv, XNextKeeps, PTL DEF XSpec

(* The state of the connector stays well typed.                             *)
THEOREM ConnectorTypeCorrect == XSpec => []XTypeOK
  BY ConnectorInvariant, PTL DEF XIInv

(* The connector uses the tracker as the tracker's own module allows        *)
(* (exchange_py_base.py calls it from its placements, its two polling loops *)
(* and its stream listener, in any order).                                  *)
THEOREM ConnectorImplementsTracker == XSpec => ImplementsTracker
  <1>1. XInit => Init
    BY DEF XInit
  <1> QED BY <1>1, XNextIsNext, PTL DEF XSpec, ImplementsTracker

(* So what is proved of the tracker holds inside the connector: tracked     *)
(* orders are open, ended ones announced, none is in two containers.        *)
THEOREM ConnectorKeepsTheTrackersPromises ==
    XSpec => [](ActiveAreOpen /\ EndedAreAnnounced /\ TrackedOnce)
  <1>1. XIInv => ActiveAreOpen /\ EndedAreAnnounced /\ TrackedOnce
    BY DEF XIInv, IInv
  <1> QED BY <1>1, ConnectorInvariant, PTL

(* No order lives on the exchange unwatched, unless the connector gave it   *)
(* up without the exchange's word (_update_orders, _update_lost_orders).    *)
THEOREM LiveOrdersStayWatched == XSpec => []LiveOrdersAreWatched
  <1>1. XIInv => LiveOrdersAreWatched
    BY DEF XIInv, Watched, Dead, Living, LiveOrdersAreWatched
  <1> QED BY <1>1, ConnectorInvariant, PTL

(* An order announced as cancelled is over on the exchange, whatever        *)
(* reports were lost and in whatever order the answers came                 *)
(* (client_order_tracker._trigger_order_completion).                        *)
THEOREM CancellationsAreReal ==
    XSpec => [](\A o \in Orders : "Cancelled" \in notified[o] => exchange[o] \in Ended)
  <1>1. XIInv => \A o \in Orders : "Cancelled" \in notified[o] => exchange[o] \in Ended
    BY DEF XIInv, ObjectsAreTrue, Over
  <1> QED BY <1>1, ConnectorInvariant, PTL

----------------------------------------------------------------------------
(* What the connector was told of trades is what the exchange made.         *)
TradedIsSound ==
    \A o \in Orders : /\ IsFiniteSet(traded[o])
                      /\ exchange[o] = "absent" => traded[o] = {}
                      /\ traded[o] # {} /\ Filled(o, traded[o]) => Over(o)

CallsAreReal   == \A i \in 1 .. Len(calls) :
                      calls[i].kind = "trade" => calls[i].trades \subseteq traded[calls[i].order]
StreamIsReal   == \A i \in 1 .. Len(stream) : stream[i].trades \subseteq traded[stream[i].order]
RepliesAreReal == \A w \in Workers : pass[w].reply # NoReply
                      => pass[w].reply.trades \subseteq traded[pass[w].reply.order]

FillsAreReal     == \A o \in Orders : order[o].fills \subseteq traded[o]
CompletedAreOver == \A o \in Orders : "Completed" \in notified[o] => Over(o)

XFills == /\ TradedIsSound /\ CallsAreReal /\ StreamIsReal /\ RepliesAreReal
          /\ FillsAreReal /\ CompletedAreOver

TradedGrows == /\ \A o \in Orders : traded[o] \subseteq traded'[o]
               /\ \A o \in Orders : Over(o) => Over(o)'

LEMMA StreamOrders ==
    ASSUME XTypeOK PROVE \A i \in 1 .. Len(stream) : stream[i].order \in Orders
  <1>1. \A i \in 1 .. Len(stream) : stream[i] \in Report
    BY DEF XTypeOK
  <1>2. \A r \in Report : r.order \in Orders
    BY DEF Report
  <1> QED BY <1>1, <1>2

LEMMA UnmovedStayReal ==
    ASSUME XIInv, XFills, TradedGrows
    PROVE  /\ UNCHANGED calls => CallsAreReal'
           /\ UNCHANGED stream => StreamIsReal'
           /\ UNCHANGED pass => RepliesAreReal'
           /\ SameFills => FillsAreReal'
           /\ UNCHANGED notified => CompletedAreOver'
  <1>1. XTypeOK /\ TypeOK
    BY DEF XIInv, IInv
  <1>2. UNCHANGED calls => CallsAreReal'
    <2>1. \A c \in Call : c.kind = "trade" => c.order \in Orders
      BY DEF Call
    <2>2. \A i \in 1 .. Len(calls) : calls[i] \in Call
      BY <1>1 DEF XTypeOK
    <2> QED BY <2>1, <2>2 DEF XFills, CallsAreReal, TradedGrows
  <1>3. UNCHANGED stream => StreamIsReal'
    <2>1. \A i \in 1 .. Len(stream) : stream[i].order \in Orders
      BY <1>1, StreamOrders
    <2> QED BY <2>1 DEF XFills, StreamIsReal, TradedGrows
  <1>4. UNCHANGED pass => RepliesAreReal'
    <2>1. \A w \in Workers : pass[w].reply # NoReply => pass[w].reply.order \in Orders
      BY <1>1 DEF XTypeOK, Replies
    <2> QED BY <2>1 DEF XFills, RepliesAreReal, TradedGrows
  <1>5. SameFills => FillsAreReal'
    BY DEF XFills, FillsAreReal, TradedGrows, SameFills
  <1>6. UNCHANGED notified => CompletedAreOver'
    BY DEF XFills, CompletedAreOver, TradedGrows
  <1> QED BY <1>2, <1>3, <1>4, <1>5, <1>6

(* An order is announced as completed when it is filled.                    *)
LEMMA AppliedCompletions ==
    ASSUME TypeOK, NEW u \in OrderUpdate, ApplyUpdate(u), NEW o \in Orders,
           "Completed" \in notified'[o], "Completed" \notin notified[o]
    PROVE  is_filled(order'[o])
  <1> DEFINE p == u.order
             old == order[p]
             new == update_with_order_update(old, u)
  <1>1. /\ order' = [order EXCEPT ![p] = new]
        /\ notified' = [notified EXCEPT ![p] =
                           @ \cup (IF updated(old, new) THEN EventsOf(old, new) ELSE {})]
    BY DEF ApplyUpdate
  <1> HIDE DEF new
  <1>2. p \in Orders
    BY DEF OrderUpdate
  <1>3. o = p /\ "Completed" \in EventsOf(old, new)
    BY <1>1, <1>2 DEF TypeOK
  <1>4. is_filled(new)
    BY <1>3 DEF EventsOf, CreatedEvent, CompletionEvent
  <1> QED BY <1>1, <1>2, <1>3, <1>4 DEF TypeOK

LEMMA DeclaredCompletions ==
    ASSUME TypeOK, NEW p \in Orders, declare_lost(p), NEW o \in Orders,
           "Completed" \in notified'[o], "Completed" \notin notified[o]
    PROVE  is_filled(order'[o])
  <1> DEFINE failed == [order[p] EXCEPT !.state = "FAILED"]
  <1>1. /\ order' = [order EXCEPT ![p] = failed]
        /\ notified' = [notified EXCEPT ![p] = @ \cup EventsOf(order[p], failed)]
    BY DEF declare_lost
  <1> HIDE DEF failed
  <1>2. o = p /\ "Completed" \in EventsOf(order[p], failed)
    BY <1>1 DEF TypeOK
  <1>3. is_filled(failed)
    BY <1>2 DEF EventsOf, CreatedEvent, CompletionEvent
  <1> QED BY <1>1, <1>2, <1>3 DEF TypeOK

LEMMA CompletionsAreOfFilledOrders ==
    ASSUME IInv, [Next]_vars, NEW o \in Orders,
           "Completed" \in notified'[o], "Completed" \notin notified[o]
    PROVE  is_filled(order'[o])
  <1>0. TypeOK
    BY DEF IInv
  <1>1. ASSUME NEW u \in OrderUpdate, ApplyUpdate(u) \/ ForgetLost(u) \/ IgnoreUpdate(u)
        PROVE  is_filled(order'[o])
    BY <1>0, <1>1, AppliedCompletions DEF ForgetLost, IgnoreUpdate, history
  <1>2. ASSUME NEW p \in Orders,
               \/ start_tracking_order(p) \/ count_not_found(p) \/ expire_cached(p)
               \/ \E t \in Trades : process_trade_update(p, t)
        PROVE  FALSE
    BY <1>2 DEF start_tracking_order, count_not_found, expire_cached, process_trade_update, history
  <1>3. ASSUME NEW p \in Orders, declare_lost(p) PROVE is_filled(order'[o])
    BY <1>0, <1>3, DeclaredCompletions
  <1>4. ASSUME NEW p \in Orders, lost_not_found(p) PROVE is_filled(order'[o])
    <2>1. FailedUpdate(p) \in OrderUpdate
      BY DEF FailedUpdate, OrderUpdate, OrderState
    <2> QED BY <1>1, <1>4, <2>1 DEF lost_not_found
  <1>5. ASSUME NEW u \in OrderUpdate, process_order_update(u) PROVE FALSE
    BY <1>5 DEF process_order_update, history
  <1>6. CASE BeginWait \/ UNCHANGED vars
    BY <1>6 DEF BeginWait, vars, history
  <1>7. CASE RunTask
    <2>1. Head(tasks) \in OrderUpdate
      BY <1>7, HeadCarriesReport DEF IInv, RunTask
    <2> QED BY <1>1, <1>7, <2>1 DEF RunTask
  <1>8. CASE FillsArrived
    <2>1. \A i \in 1 .. Len(waiting) : waiting[i] \in OrderUpdate
      BY <1>0 DEF TypeOK
    <2> QED BY <1>1, <1>8, <2>1 DEF FillsArrived
  <1>9. CASE WaitTimesOut
    <2>1. Head(waiting) \in OrderUpdate
      BY <1>9, HeadCarriesReport DEF IInv, WaitTimesOut
    <2> QED BY <1>1, <1>9, <2>1 DEF WaitTimesOut
  <1> QED BY <1>2, <1>3, <1>4, <1>5, <1>6, <1>7, <1>8, <1>9 DEF Next

(* An order whose own trades fill it is over: they are the exchange's.      *)
FilledFromReal == XTypeOK /\ FillsInv /\ ObjectsAreTrue /\ TradedIsSound /\ FillsAreReal
FilledAreOver  == \A o \in Orders : is_filled(order[o]) => Over(o)

LEMMA FilledOrdersAreOver == FilledFromReal => FilledAreOver
  <1> SUFFICES ASSUME FilledFromReal, NEW o \in Orders, is_filled(order[o]) PROVE Over(o)
    BY DEF FilledAreOver
  <1> USE DEF FilledFromReal
  <1>1. CASE order[o].state = "FILLED"
    BY <1>1 DEF ObjectsAreTrue
  <1>2. CASE order[o].amount # 0 /\ order[o].executed >= order[o].amount
    <2>1. /\ order[o].amount = Amount[o] /\ Amount[o] \in Nat
          /\ order[o].executed = SumFunctionOnSet(FillAmount, order[o].fills)
      BY AmountAssumption DEF FillsInv, FillsAddUp
    <2>2. /\ order[o].fills \in SUBSET traded[o] /\ IsFiniteSet(traded[o])
          /\ IsFiniteSet(order[o].fills)
          /\ \A t \in traded[o] : FillAmount[t] \in Nat
      BY FillAmountAssumption DEF FillsAreReal, TradedIsSound, FillsInv, XTypeOK
    <2>3. SumFunctionOnSet(FillAmount, order[o].fills) <= SumFunctionOnSet(FillAmount, traded[o])
      BY <2>2, SumOfSubset
    <2>4. /\ SumFunctionOnSet(FillAmount, order[o].fills) \in Nat
          /\ SumFunctionOnSet(FillAmount, traded[o]) \in Nat
      BY <2>2, SumType
    <2>5. ASSUME traded[o] = {} PROVE FALSE
      <3>1. order[o].fills = {}
        BY <2>2, <2>5
      <3>2. order[o].executed = 0
        BY <2>1, <3>1, SumOfNothing
      <3> QED BY <1>2, <2>1, <3>2
    <2>6. Filled(o, traded[o])
      BY <1>2, <2>1, <2>3, <2>4 DEF Filled
    <2> QED BY <2>5, <2>6 DEF TradedIsSound
  <1> QED BY <1>1, <1>2 DEF is_filled

----------------------------------------------------------------------------
(* The steps, with the invariants that are known to hold after them.        *)
Known == XIInv /\ XIInv' /\ FillsInv /\ FillsInv' /\ XFills

LEMMA CompletionsStayReal ==
    ASSUME Known, [Next]_vars, TradedGrows, TradedIsSound', FillsAreReal'
    PROVE  CompletedAreOver'
  <1> SUFFICES ASSUME NEW o \in Orders, "Completed" \in notified'[o] PROVE Over(o)'
    BY DEF CompletedAreOver
  <1>1. CASE "Completed" \in notified[o]
    BY <1>1 DEF Known, XFills, CompletedAreOver, TradedGrows
  <1>2. CASE "Completed" \notin notified[o]
    <2>1. is_filled(order'[o])
      BY <1>2, CompletionsAreOfFilledOrders DEF Known, XIInv
    <2>2. FilledFromReal'
      BY DEF Known, XIInv, FilledFromReal
    <2>3. FilledFromReal' => FilledAreOver'
      BY FilledOrdersAreOver, PTL
    <2> QED BY <2>1, <2>2, <2>3 DEF FilledAreOver, is_filled
  <1> QED BY <1>1, <1>2

LEMMA StillOutside ==
    ASSUME XFills, UNCHANGED <<exchange, traded>> PROVE TradedGrows /\ TradedIsSound'
  BY DEF XFills, TradedIsSound, TradedGrows, Over

(* The tracker moves, and the exchange does not.                            *)
LEMMA TrackerStaysReal ==
    ASSUME Known, UNCHANGED <<exchange, traded>>, [Next]_vars, SameFills,
           CallsAreReal', StreamIsReal', RepliesAreReal'
    PROVE  XFills'
  <1>1. TradedGrows /\ TradedIsSound'
    BY StillOutside DEF Known
  <1>2. FillsAreReal'
    BY <1>1, UnmovedStayReal DEF Known
  <1> QED BY <1>1, <1>2, CompletionsStayReal DEF XFills

LEMMA RestStaysReal ==
    ASSUME Known, UNCHANGED <<vars, exchange, traded>>,
           CallsAreReal', StreamIsReal', RepliesAreReal'
    PROVE  XFills'
  BY SameOrdersKeepFills, TrackerStaysReal DEF vars

LEMMA PublishIsReal ==
    ASSUME XTypeOK, StreamIsReal, TradedGrows, NEW o \in Orders, NEW trades \in SUBSET Trades,
           trades \subseteq traded'[o], Publish(o, trades), XTypeOK'
    PROVE  StreamIsReal'
  <1>1. \A i \in 1 .. Len(stream) : stream[i].trades \subseteq traded'[stream[i].order]
    BY StreamOrders DEF StreamIsReal, TradedGrows
  <1>2. CASE UNCHANGED stream
    BY <1>1, <1>2 DEF StreamIsReal
  <1>3. ASSUME NEW state, stream' = Append(stream, [order |-> o, trades |-> trades, state |-> state])
        PROVE  StreamIsReal'
    <2> DEFINE e == [order |-> o, trades |-> trades, state |-> state]
    <2>1. Len(stream') = Len(stream) + 1 /\ Len(stream) \in Nat
      BY <1>3 DEF XTypeOK
    <2>2. \A i \in 1 .. Len(stream') : (i \in 1 .. Len(stream) /\ stream'[i] = stream[i]) \/ stream'[i] = e
      BY <1>3, <2>1 DEF XTypeOK
    <2>3. e.trades \subseteq traded'[e.order]
      OBVIOUS
    <2> HIDE DEF e
    <2> QED BY <1>1, <2>2, <2>3 DEF StreamIsReal
  <1> QED BY <1>2, <1>3 DEF Publish

(* The exchange moves, and the tracker does not.                            *)
LEMMA ExchangeStaysReal ==
    ASSUME Known, NEW o \in Orders,
           \/ exchange_accepts(o) \/ exchange_refuses(o) \/ exchange_ends(o)
           \/ \E t \in Trades : exchange_trades(o, t)
    PROVE  XFills'
  <1>1. /\ XTypeOK /\ XTypeOK' /\ OnlyStarted /\ TradedIsSound /\ StreamIsReal
    BY DEF Known, XIInv, XFills
  <1>2. UNCHANGED <<vars, calls, pass>>
    BY DEF exchange_accepts, exchange_refuses, exchange_ends, exchange_trades
  <1>3. TradedGrows /\ TradedIsSound' /\ StreamIsReal'
    <2>1. CASE exchange_accepts(o)
      <3>1. /\ exchange[o] = "absent" /\ exchange' = [exchange EXCEPT ![o] = "open"]
            /\ traded' = traded /\ Publish(o, {})
        BY <1>1, <2>1 DEF exchange_accepts, OnlyStarted
      <3>2. TradedGrows /\ TradedIsSound'
        BY <1>1, <3>1 DEF TradedGrows, TradedIsSound, XTypeOK, Over, Ended
      <3> QED BY <1>1, <3>1, <3>2, PublishIsReal
    <2>2. CASE exchange_refuses(o)
      BY <1>1, <2>2 DEF exchange_refuses, TradedGrows, TradedIsSound, StreamIsReal, Over
    <2>3. CASE exchange_ends(o)
      <3>1. PICK end \in {"canceled", "expired"} : exchange' = [exchange EXCEPT ![o] = end]
        BY <2>3 DEF exchange_ends
      <3>2. traded' = traded /\ Publish(o, {})
        BY <2>3 DEF exchange_ends
      <3>3. TradedGrows /\ TradedIsSound'
        BY <1>1, <3>1, <3>2 DEF TradedGrows, TradedIsSound, XTypeOK, Over, Ended
      <3> QED BY <1>1, <3>2, <3>3, PublishIsReal
    <2>4. ASSUME NEW t \in Trades, exchange_trades(o, t)
          PROVE  TradedGrows /\ TradedIsSound' /\ StreamIsReal'
      <3>1. /\ exchange[o] = "open" /\ traded' = [traded EXCEPT ![o] = @ \cup {t}]
            /\ exchange' = [exchange EXCEPT ![o] = IF Filled(o, traded'[o]) THEN "filled" ELSE @]
            /\ Publish(o, {t})
        BY <2>4 DEF exchange_trades
      <3>2. /\ traded'[o] = traded[o] \cup {t} /\ \A p \in Orders \ {o} : traded'[p] = traded[p]
            /\ exchange'[o] = IF Filled(o, traded'[o]) THEN "filled" ELSE "open"
            /\ \A p \in Orders \ {o} : exchange'[p] = exchange[p]
        BY <1>1, <3>1 DEF XTypeOK
      <3>3. IsFiniteSet(traded'[o])
        BY <1>1, <3>2, FS_AddElement DEF TradedIsSound
      <3>4. TradedGrows
        BY <3>1, <3>2 DEF TradedGrows, Over, Ended
      <3>5. TradedIsSound'
        BY <1>1, <3>2, <3>3 DEF TradedIsSound, Over, Ended, Filled
      <3>6. {t} \subseteq traded'[o] /\ {t} \in SUBSET Trades
        BY <3>2
      <3> QED BY <1>1, <3>1, <3>4, <3>5, <3>6, PublishIsReal
    <2> QED BY <2>1, <2>2, <2>3, <2>4
  <1>4. SameFills /\ UNCHANGED notified
    BY <1>2, SameOrdersKeepFills DEF vars
  <1> QED BY <1>2, <1>3, <1>4, UnmovedStayReal DEF Known, XFills

(* An answer carries trades the exchange made.                              *)
LEMMA AnswerIsReal ==
    ASSUME Known, TradedGrows, NEW w \in Workers, NEW r \in Replies, Answer(w, r),
           r.trades \subseteq traded'[r.order]
    PROVE  RepliesAreReal'
  <1>1. \A v \in Workers : pass[v].reply # NoReply
           => pass[v].reply.trades \subseteq traded'[pass[v].reply.order]
    <2>1. \A v \in Workers : pass[v].reply # NoReply => pass[v].reply.order \in Orders
      BY DEF Known, XIInv, XTypeOK, Replies
    <2> QED BY <2>1 DEF Known, XFills, RepliesAreReal, TradedGrows
  <1>2. pass'[w].reply = r /\ \A v \in Workers \ {w} : pass'[v] = pass[v]
    <2> DEFINE rec == [pass[w] EXCEPT !.todo = @ \ {r.order}, !.reply = r]
    <2>1. rec.reply = r
      BY DEF Known, XIInv, XTypeOK
    <2>2. pass' = [pass EXCEPT ![w] = rec]
      BY DEF Answer
    <2> HIDE DEF rec
    <2> QED BY <2>1, <2>2 DEF Known, XIInv, XTypeOK
  <1> QED BY <1>1, <1>2 DEF RepliesAreReal

LEMMA RequestsStayReal ==
    ASSUME Known, NEW w \in Workers, NEW o \in Orders, answered(w, o) \/ request_fails(w, o)
    PROVE  XFills'
  <1>1. UNCHANGED <<vars, traded, calls>>
    BY DEF answered, fills_answered, status_answered, cancel_answered, request_fails, outside
  <1>2. XTypeOK /\ XTypeOK' /\ StreamIsReal /\ TradedIsSound
    BY DEF Known, XIInv, XFills
  <1>3. {} \in SUBSET Trades /\ traded[o] \in SUBSET Trades /\ {"OPEN", "FAILED", "CANCELED"} \subseteq OrderState
    BY <1>2 DEF XTypeOK, OrderState
  <1>4. \E kind \in ReplyKinds, trades \in SUBSET traded[o], state \in OrderState :
           Answer(w, Reply(o, kind, trades, state))
    <2>1. CASE fills_answered(w, o)
      BY <1>3, <2>1 DEF fills_answered, ReplyKinds
    <2>2. CASE request_fails(w, o)
      BY <1>3, <2>2 DEF request_fails, FailedReplies, ReplyKinds
    <2>3. CASE status_answered(w, o)
      <3>1. ORDER_STATE(exchange[o], traded[o]) \in OrderState
        BY DEF ORDER_STATE, OrderState
      <3> QED BY <1>3, <2>3, <3>1 DEF status_answered, ReplyKinds
    <2>4. CASE cancel_answered(w, o)
      BY <1>3, <2>4 DEF cancel_answered, ReplyKinds
    <2> QED BY <2>1, <2>2, <2>3, <2>4 DEF answered
  <1>5. PICK kind \in ReplyKinds, trades \in SUBSET traded[o], state \in OrderState :
           Answer(w, Reply(o, kind, trades, state))
    BY <1>4
  <1>6. TradedGrows => RepliesAreReal'
    <2>1. Reply(o, kind, trades, state) \in Replies /\ Reply(o, kind, trades, state).order = o
      BY <1>3, <1>5, ReplyType
    <2>2. Reply(o, kind, trades, state).trades = trades
      BY DEF Reply
    <2> QED BY <1>1, <1>5, <2>1, <2>2, AnswerIsReal
  <1>7. CASE UNCHANGED <<exchange, stream>>
    <2>1. TradedGrows
      BY <1>1, <1>7, StillOutside DEF Known
    <2>2. CallsAreReal' /\ StreamIsReal'
      BY <1>1, <1>7, <2>1, UnmovedStayReal DEF Known
    <2> QED BY <1>1, <1>6, <1>7, <2>1, <2>2, RestStaysReal
  <1>8. CASE cancel_answered(w, o) /\ exchange[o] = "open"
    <2>1. exchange' = [exchange EXCEPT ![o] = "canceled"] /\ Publish(o, {})
      BY <1>8 DEF cancel_answered
    <2>2. TradedGrows /\ TradedIsSound'
      BY <1>1, <1>2, <1>8, <2>1 DEF TradedGrows, TradedIsSound, XTypeOK, Over, Ended
    <2>3. StreamIsReal'
      BY <1>1, <1>2, <2>1, <2>2, PublishIsReal
    <2>4. CallsAreReal' /\ FillsAreReal' /\ CompletedAreOver'
      BY <1>1, <2>2, SameOrdersKeepFills, UnmovedStayReal DEF Known, vars
    <2> QED BY <1>6, <2>2, <2>3, <2>4 DEF XFills
  <1> QED BY <1>7, <1>8 DEF answered, fills_answered, status_answered, cancel_answered,
       request_fails, outside

----------------------------------------------------------------------------
(* A callback begins, with trades of an answer or of a report.              *)
LEMMA NoTradeIsReal ==
    ASSUME NEW c, c.kind # "trade", calls' = <<>> \/ calls' = <<c>> PROVE CallsAreReal'
  BY DEF CallsAreReal

LEMMA TradesAreReal ==
    ASSUME NEW o \in Orders, NEW trades \in SUBSET Trades, trades \subseteq traded'[o],
           NEW c, c.kind # "trade",
           calls' = TradeCalls(o, trades) \/ calls' = Append(TradeCalls(o, trades), c)
    PROVE  CallsAreReal'
  <1> DEFINE t == TradeCall(o, trades)
  <1>1. t.trades \subseteq traded'[t.order]
    BY DEF TradeCall
  <1>2. TradeCalls(o, trades) = <<>> \/ TradeCalls(o, trades) = <<t>>
    BY DEF TradeCalls
  <1> HIDE DEF t
  <1>3. calls' = <<>> \/ calls' = <<c>> \/ calls' = <<t>> \/ calls' = <<t, c>>
    <2>1. CASE TradeCalls(o, trades) = <<>>
      BY <2>1
    <2>2. CASE TradeCalls(o, trades) = <<t>>
      BY <2>2
    <2> QED BY <1>2, <2>1, <2>2
  <1> QED BY <1>1, <1>3 DEF CallsAreReal

LEMMA OtherCalls ==
    ASSUME NEW o, NEW state, NEW guess
    PROVE  /\ UpdateCall(Reported(o, state)).kind # "trade"
           /\ UpdateCall(Guessed(o, state)).kind # "trade"
           /\ UpdateCall(FailedUpdate(o)).kind # "trade"
           /\ StreamCall(Reported(o, state)).kind # "trade"
           /\ NotFoundCall(o, guess).kind # "trade"
  BY DEF UpdateCall, StreamCall, NotFoundCall

LEMMA CreateStaysReal ==
    ASSUME Known, NEW o \in Orders, _create_order(o) PROVE XFills'
  <1>1. /\ start_tracking_order(o) /\ UNCHANGED <<exchange, traded, stream, pass>>
        /\ calls' = <<UpdateCall(FailedUpdate(o))>> \/ UNCHANGED calls
    BY DEF _create_order
  <1>2. [Next]_vars /\ SameFills
    BY <1>1, StartKeepsFills DEF Next, Known, XIInv, IInv
  <1>3. CallsAreReal'
    <2>1. TradedGrows
      BY <1>1, StillOutside DEF Known
    <2>2. CASE UNCHANGED calls
      BY <2>1, <2>2, UnmovedStayReal DEF Known
    <2>3. CASE calls' = <<UpdateCall(FailedUpdate(o))>>
      BY <2>3, OtherCalls, NoTradeIsReal
    <2> QED BY <1>1, <2>2, <2>3
  <1>4. StreamIsReal' /\ RepliesAreReal'
    BY <1>1, StillOutside, UnmovedStayReal DEF Known
  <1> QED BY <1>1, <1>2, <1>3, <1>4, TrackerStaysReal

LEMMA PlacementStaysReal ==
    ASSUME Known, NEW o \in Orders, place_order_returns(o) \/ place_order_fails(o)
    PROVE  XFills'
  <1>1. /\ UNCHANGED <<vars, exchange, traded, stream, pass>>
        /\ calls' = <<UpdateCall(Reported(o, "OPEN"))>> \/ calls' = <<UpdateCall(FailedUpdate(o))>>
    BY DEF place_order_returns, place_order_fails, outside
  <1>2. CallsAreReal'
    BY <1>1, OtherCalls, NoTradeIsReal
  <1>3. StreamIsReal' /\ RepliesAreReal'
    BY <1>1, StillOutside, UnmovedStayReal DEF Known
  <1> QED BY <1>1, <1>2, <1>3, RestStaysReal

LEMMA RoundStaysReal ==
    ASSUME Known, NEW w \in Workers, next_round(w) PROVE XFills'
  <1>1. /\ UNCHANGED <<vars, exchange, traded, stream, calls>>
        /\ \E rec : pass' = [pass EXCEPT ![w] = rec] /\ rec.reply = NoReply
    BY DEF next_round, outside
  <1>2. \A v \in Workers : pass'[v].reply # NoReply => pass'[v] = pass[v]
    BY <1>1 DEF Known, XIInv, XTypeOK
  <1>3. RepliesAreReal'
    BY <1>1, <1>2 DEF Known, XFills, RepliesAreReal
  <1>4. CallsAreReal' /\ StreamIsReal'
    BY <1>1, StillOutside, UnmovedStayReal DEF Known
  <1> QED BY <1>1, <1>3, <1>4, RestStaysReal

LEMMA HandleAnswerStaysReal ==
    ASSUME Known, NEW w \in Workers, handle_answer(w) PROVE XFills'
  <1>1. PICK r : r = pass[w].reply
    OBVIOUS
  <1>2. /\ r # NoReply /\ pass' = [pass EXCEPT ![w].reply = NoReply]
        /\ UNCHANGED <<vars, exchange, traded, stream>>
        /\ calls' \in {FillsCalls(r), CancelCalls(r), LostStatusCalls(r), StatusCalls(r)}
    BY <1>1 DEF handle_answer, outside
  <1>3. r.order \in Orders /\ r.trades \in SUBSET Trades /\ r.trades \subseteq traded'[r.order]
    <2>1. r \in Replies
      BY <1>1, <1>2 DEF Known, XIInv, XTypeOK
    <2> QED BY <1>1, <1>2, <2>1 DEF Known, XFills, RepliesAreReal, Replies
  <1>4. CallsAreReal'
    <2>1. CASE calls' = FillsCalls(r)
      <3>1. NotFoundCall(r.order, TRUE).kind # "trade"
        BY OtherCalls
      <3> QED BY <1>3, <2>1, <3>1, TradesAreReal DEF FillsCalls
    <2>2. CASE calls' \in {CancelCalls(r), LostStatusCalls(r), StatusCalls(r)}
      <3>1. \E c : c.kind # "trade" /\ (calls' = <<>> \/ calls' = <<c>>)
        BY <2>2, OtherCalls DEF CancelCalls, LostStatusCalls, StatusCalls
      <3> QED BY <3>1, NoTradeIsReal
    <2> QED BY <1>2, <2>1, <2>2
  <1>5. RepliesAreReal'
    <2>1. \A v \in Workers : pass'[v].reply # NoReply => pass'[v] = pass[v]
      BY <1>2 DEF Known, XIInv, XTypeOK
    <2> QED BY <1>2, <2>1 DEF Known, XFills, RepliesAreReal
  <1>6. StreamIsReal'
    BY <1>2, StillOutside, UnmovedStayReal DEF Known
  <1> QED BY <1>2, <1>4, <1>5, <1>6, RestStaysReal

LEMMA ReportStaysReal ==
    ASSUME Known, handle_report PROVE XFills'
  <1>1. PICK m : m = Head(stream)
    OBVIOUS
  <1>2. /\ stream # <<>> /\ stream' = Tail(stream)
        /\ calls' = Append(TradeCalls(m.order, m.trades), StreamCall(Reported(m.order, m.state)))
        /\ UNCHANGED <<vars, exchange, traded, pass>>
    BY <1>1 DEF handle_report, outside
  <1>3. /\ stream \in Seq(Report)
        /\ \A i \in 1 .. Len(stream) : stream[i].trades \subseteq traded[stream[i].order]
    BY DEF Known, XIInv, XTypeOK, XFills, StreamIsReal
  <1>4. m \in Report /\ m.trades \subseteq traded[m.order]
    BY <1>1, <1>2, <1>3, TailElements
  <1>5. StreamIsReal'
    BY <1>2, <1>3, TailElements DEF StreamIsReal
  <1>6. CallsAreReal'
    <2>1. m.order \in Orders /\ m.trades \in SUBSET Trades
      BY <1>4 DEF Report
    <2>2. StreamCall(Reported(m.order, m.state)).kind # "trade"
      BY OtherCalls
    <2> QED BY <1>2, <1>4, <2>1, <2>2, TradesAreReal
  <1>7. RepliesAreReal'
    BY <1>2, StillOutside, UnmovedStayReal DEF Known
  <1> QED BY <1>2, <1>5, <1>6, <1>7, RestStaysReal

LEMMA RestartStaysReal ==
    ASSUME Known, restart_network PROVE XFills'
  <1>1. /\ pass' = [w \in Workers |-> IF w \in Loops THEN Idle ELSE pass[w]] /\ stream' = <<>>
        /\ UNCHANGED <<vars, exchange, traded, calls>>
    BY DEF restart_network, outside
  <1>2. RepliesAreReal'
    BY <1>1 DEF Known, XFills, RepliesAreReal, Idle
  <1>3. StreamIsReal'
    BY <1>1 DEF StreamIsReal
  <1>4. CallsAreReal'
    BY <1>1, StillOutside, UnmovedStayReal DEF Known
  <1> QED BY <1>1, <1>2, <1>3, <1>4, RestStaysReal

LEMMA TrackerRunsReal ==
    ASSUME Known, RunTracker \/ ExpireCache PROVE XFills'
  <1>1. NextButTrades /\ UNCHANGED <<exchange, traded, stream, calls, pass>>
    BY DEF RunTracker, ExpireCache, NextButTrades, outside
  <1>2. [Next]_vars /\ SameFills
    BY <1>1, OtherStepsKeepFills DEF NextButTrades, Next, Known, XIInv
  <1>3. CallsAreReal' /\ StreamIsReal' /\ RepliesAreReal'
    BY <1>1, StillOutside, UnmovedStayReal DEF Known
  <1> QED BY <1>1, <1>2, <1>3, TrackerStaysReal

(* The next call: a trade is one of those that the exchange made.           *)
LEMMA CallStaysReal ==
    ASSUME Known, make_call PROVE XFills'
  <1> DEFINE c == Head(calls)
  <1>1. /\ calls # <<>> /\ calls \in Seq(Call)
        /\ call_trade(c) \/ call_update(c) \/ call_ignored(c) \/ call_not_found(c)
        /\ UNCHANGED <<exchange, traded, stream, pass>>
    BY DEF make_call, Known, XIInv, XTypeOK, outside
  <1>2. [Next]_vars
    BY XNextIsNext DEF XNext
  <1>3. TradedGrows /\ TradedIsSound' /\ StreamIsReal' /\ RepliesAreReal'
    BY <1>1, StillOutside, UnmovedStayReal DEF Known
  <1>4. \A i \in 1 .. Len(calls) : calls[i].kind = "trade"
           => calls[i].trades \subseteq traded'[calls[i].order]
    BY <1>1 DEF Known, XFills, CallsAreReal
  <1>5. /\ c \in Call /\ (c.kind = "trade" => c.trades \subseteq traded'[c.order])
        /\ Tail(calls) \in Seq(Call)
        /\ \A i \in 1 .. Len(Tail(calls)) : Tail(calls)[i].kind = "trade"
              => Tail(calls)[i].trades \subseteq traded'[Tail(calls)[i].order]
    BY <1>1, <1>4, TailElements
  <1>6. CASE calls' = Tail(calls) /\ NextButTrades
    <2>1. CallsAreReal'
      BY <1>5, <1>6 DEF CallsAreReal
    <2>2. SameFills
      BY <1>6, OtherStepsKeepFills DEF Known, XIInv
    <2> QED BY <1>1, <1>2, <1>3, <2>1, <2>2, TrackerStaysReal
  <1>7. CASE call_trade(c)
    <2>1. PICK o \in Orders, t \in Trades :
             /\ o = c.order /\ t \in c.trades /\ c.kind = "trade"
             /\ process_trade_update(o, t) \/ UNCHANGED vars
             /\ calls' = TradeCalls(o, c.trades \ {t}) \o Tail(calls)
      BY <1>7 DEF call_trade
    <2>2. t \in traded'[o] /\ c.trades \ {t} \in SUBSET Trades /\ c.trades \ {t} \subseteq traded'[o]
      BY <1>5, <2>1 DEF Call
    <2>3. CallsAreReal'
      <3> DEFINE more == c.trades \ {t}
                 rest == Tail(calls)
                 s    == TradeCall(o, more)
      <3>1. calls' = TradeCalls(o, more) \o rest
        BY <2>1
      <3>2. s.trades \subseteq traded'[s.order] /\ s \in Call
        BY <2>2 DEF TradeCall, Call
      <3>3. TradeCalls(o, more) = <<>> \/ TradeCalls(o, more) = <<s>>
        BY DEF TradeCalls
      <3>4. /\ rest \in Seq(Call)
            /\ \A i \in 1 .. Len(rest) : rest[i].kind = "trade" => rest[i].trades \subseteq traded'[rest[i].order]
        BY <1>5
      <3> HIDE DEF more, rest, s
      <3>5. CASE TradeCalls(o, more) = <<>>
        BY <3>1, <3>4, <3>5 DEF CallsAreReal
      <3>6. CASE TradeCalls(o, more) = <<s>>
        <4>1. \A i \in 1 .. Len(calls') : calls'[i] = s \/ \E k \in 1 .. Len(rest) : calls'[i] = rest[k]
          BY <3>1, <3>2, <3>4, <3>6, PrependElements
        <4> QED BY <3>2, <3>4, <4>1 DEF CallsAreReal
      <3> QED BY <3>3, <3>5, <3>6
    <2>4. FillsAreReal'
      <3>1. CASE UNCHANGED vars
        BY <1>3, <3>1, SameOrdersKeepFills, UnmovedStayReal DEF Known, vars
      <3>2. CASE process_trade_update(o, t)
        <4> DEFINE new == update_with_trade_update(order[o], t)
        <4>1. order' = [order EXCEPT ![o] = new]
          BY <3>2 DEF process_trade_update
        <4>2. new.fills \subseteq order[o].fills \cup {t}
          BY DEF update_with_trade_update, Known, XIInv, IInv, TypeOK, Object
        <4> HIDE DEF new
        <4>3. order'[o] = new /\ \A p \in Orders \ {o} : order'[p] = order[p]
          BY <4>1 DEF Known, XIInv, IInv, TypeOK
        <4> QED BY <1>3, <2>2, <4>2, <4>3 DEF Known, XFills, FillsAreReal, TradedGrows
      <3> QED BY <2>1, <3>1, <3>2
    <2> QED BY <1>2, <1>3, <2>3, <2>4, CompletionsStayReal DEF XFills
  <1>8. CASE call_update(c) \/ call_ignored(c) \/ call_not_found(c)
    BY <1>6, <1>8 DEF call_update, call_ignored, call_not_found, NextButTrades
  <1> QED BY <1>1, <1>7, <1>8

LEMMA XNextKeepsXFills == Known /\ [XNext]_xvars => XFills'
  <1> SUFFICES ASSUME Known, [XNext]_xvars PROVE XFills'
    OBVIOUS
  <1>1. CASE UNCHANGED xvars
    <2>1. UNCHANGED <<vars, exchange, traded, stream, calls, pass>>
      BY <1>1 DEF xvars
    <2>2. CallsAreReal' /\ StreamIsReal' /\ RepliesAreReal'
      BY <2>1, StillOutside, UnmovedStayReal DEF Known
    <2> QED BY <2>1, <2>2, RestStaysReal
  <1>2. ASSUME NEW o \in Orders,
               \/ exchange_accepts(o) \/ exchange_refuses(o) \/ exchange_ends(o)
               \/ \E t \in Trades : exchange_trades(o, t)
        PROVE  XFills'
    BY <1>2, ExchangeStaysReal
  <1>3. ASSUME NEW o \in Orders,
               \/ _create_order(o) \/ place_order_returns(o) \/ place_order_fails(o)
               \/ \E w \in Workers : answered(w, o) \/ request_fails(w, o)
        PROVE  XFills'
    BY <1>3, CreateStaysReal, PlacementStaysReal, RequestsStayReal
  <1>4. ASSUME NEW w \in Workers, next_round(w) \/ handle_answer(w) PROVE XFills'
    BY <1>4, RoundStaysReal, HandleAnswerStaysReal
  <1>5. CASE handle_report \/ restart_network \/ make_call \/ RunTracker \/ ExpireCache
    BY <1>5, ReportStaysReal, RestartStaysReal, CallStaysReal, TrackerRunsReal
  <1> QED BY <1>1, <1>2, <1>3, <1>4, <1>5 DEF XNext

LEMMA XInitXFills == XInit => XFills
  <1> SUFFICES ASSUME XInit PROVE XFills
    OBVIOUS
  <1>1. \A o \in Orders : order[o].fills = {} /\ notified[o] = {}
    BY DEF XInit, Init, NewInFlightOrder
  <1>2. \A o \in Orders : traded[o] = {} /\ IsFiniteSet(traded[o])
    BY FS_EmptySet DEF XInit
  <1>3. CallsAreReal /\ StreamIsReal /\ RepliesAreReal
    BY DEF XInit, CallsAreReal, StreamIsReal, RepliesAreReal, Idle
  <1> QED BY <1>1, <1>2, <1>3 DEF XFills, TradedIsSound, FillsAreReal, CompletedAreOver

(* No order is announced as cancelled or completed while it lives on the    *)
(* exchange, whatever reports were lost and in whatever order the answers   *)
(* came: the states that travel were true when they were read, and an order *)
(* that its own trades complete has been filled by trades that the exchange *)
(* made (_trigger_order_completion, update_with_trade_update).              *)
THEOREM AnnouncedEndsWereReal == XSpec => []AnnouncedEndsAreReal
  <1>1. XInit => XIInv /\ FillsInv /\ XFills
    BY XInitXIInv, XInitXFills, InitFillsInv DEF XInit
  <1>2. XIInv /\ FillsInv /\ XFills /\ [XNext]_xvars => (XIInv /\ FillsInv /\ XFills)'
    <2>1. XIInv /\ FillsInv /\ [XNext]_xvars => XIInv' /\ FillsInv'
      BY XNextKeeps, XNextIsNext, NextKeepsFillsInv DEF XIInv
    <2> QED BY <2>1, XNextKeepsXFills DEF Known
  <1>3. XIInv /\ XFills => AnnouncedEndsAreReal
    BY DEF XIInv, ObjectsAreTrue, XFills, CompletedAreOver, AnnouncedEndsAreReal, Over
  <1> QED BY <1>1, <1>2, <1>3, PTL DEF XSpec
=============================================================================
