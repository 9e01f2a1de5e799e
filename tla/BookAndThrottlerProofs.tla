----------------------- MODULE BookAndThrottlerProofs -----------------------
(***************************************************************************)
(* The two components whose operators are recursive functions, and the      *)
(* lemmas on recursion their proofs share.                                  *)
(*                                                                         *)
(* One local order book and its pipeline, for any finite set of prices, any *)
(* amounts, books to begin with, lengths of the two deques, and any number  *)
(* of updates and snapshots: no bid reaches an ask, the quotes are live, a  *)
(* diff that is newer than the book keeps its levels, and the book that has *)
(* processed every message, none missed, is the exchange's.                 *)
(*                                                                         *)
(* The throttler, for any limits, links, weights and requests: the calls    *)
(* stay within the limits.                                                  *)
(***************************************************************************)
EXTENDS OrderBookTracker, AsyncThrottler,
        WellFoundedInduction, FiniteSetTheorems, SequenceTheorems, TLAPS

(* Induction on the natural numbers, with a set for the predicate.          *)
LEMMA SmallestNumber ==
    ASSUME NEW T, T \subseteq Nat, T # {}
    PROVE  \E n \in T : \A m \in T : n <= m
  <1> DEFINE Less == {ss \in Nat \X Nat : ss[1] < ss[2]}
  <1>1. \E n \in T : \A m \in T : <<m, n>> \notin Less
    <2>1. IsWellFoundedOn(Less, Nat)
      BY NatLessThanWellFounded DEF OpToRel
    <2> HIDE DEF Less
    <2> QED BY <2>1, WFMin
  <1>2. ASSUME NEW m \in Nat, NEW n \in Nat, m < n PROVE <<m, n>> \in Less
    <2> DEFINE p == <<m, n>>
    <2>1. p \in Nat \X Nat /\ p[1] = m /\ p[2] = n
      OBVIOUS
    <2>2. p[1] < p[2]
      BY <2>1, <1>2
    <2> HIDE DEF p
    <2>3. p \in Less
      BY <2>1, <2>2
    <2> QED BY <2>3 DEF p
  <1> HIDE DEF Less
  <1>3. PICK n \in T : \A m \in T : <<m, n>> \notin Less
    BY <1>1
  <1>4. ASSUME NEW m \in T PROVE n <= m
    <2>1. m \in Nat /\ n \in Nat /\ ~(m < n)
      BY <1>2, <1>3
    <2> QED BY <2>1
  <1> QED BY <1>4

LEMMA CountingUp ==
    ASSUME NEW N \in Nat, NEW B, 0 \in B, \A n \in 1 .. N : n - 1 \in B => n \in B
    PROVE  \A n \in 0 .. N : n \in B
  <1> DEFINE Out == {n \in 0 .. N : n \notin B}
  <1> SUFFICES ASSUME Out # {} PROVE FALSE
    OBVIOUS
  <1>1. Out \subseteq Nat
    OBVIOUS
  <1>2. PICK n \in Out : \A m \in Out : n <= m
    BY <1>1, SmallestNumber
  <1>3. n \in 1 .. N
    BY <1>2
  <1>4. n - 1 \in B
    <2>1. n - 1 \in 0 .. N /\ ~(n <= n - 1)
      BY <1>3
    <2> QED BY <1>2, <2>1
  <1> QED BY <1>2, <1>3, <1>4

(* A function defined by recursion from 0 to N exists, when its values have *)
(* a type that each step keeps.                                             *)
Recurses(f, N, base, step) ==
    f = [n \in 0 .. N |-> IF n = 0 THEN base ELSE step[n][f[n - 1]]]

LEMMA RecursionExists ==
    ASSUME NEW N \in Nat, NEW X, NEW base \in X, NEW step \in [1 .. N -> [X -> X]]
    PROVE  \E f \in [0 .. N -> X] : Recurses(f, N, base, step)
  <1> DEFINE B == {m \in 0 .. N : \E f \in [0 .. m -> X] : Recurses(f, m, base, step)}
  <1>1. 0 \in B
    <2> DEFINE f == [n \in 0 .. 0 |-> base]
    <2>1. f \in [0 .. 0 -> X] /\ f = [n \in 0 .. 0 |-> IF n = 0 THEN base ELSE step[n][f[n - 1]]]
      OBVIOUS
    <2> HIDE DEF f
    <2>2. \E g \in [0 .. 0 -> X] : Recurses(g, 0, base, step)
      BY <2>1 DEF Recurses
    <2> QED BY <2>2
  <1>2. ASSUME NEW n \in 1 .. N, n - 1 \in B PROVE n \in B
    <2>1. PICK f \in [0 .. n - 1 -> X] : Recurses(f, n - 1, base, step)
      BY <1>2
    <2>2. /\ f[0] = base
          /\ \A m \in 1 .. n - 1 : f[m] = step[m][f[m - 1]]
      BY <2>1 DEF Recurses
    <2> DEFINE g == [m \in 0 .. n |-> IF m = n THEN step[n][f[n - 1]] ELSE f[m]]
    <2>3. \A m \in 0 .. n - 1 : m \in 0 .. n /\ m # n /\ g[m] = f[m]
      OBVIOUS
    <2>4. g \in [0 .. n -> X]
      <3>1. step[n][f[n - 1]] \in X
        BY <2>1
      <3> QED BY <2>1, <3>1
    <2>5. \A m \in 0 .. n : g[m] = IF m = 0 THEN base ELSE step[m][g[m - 1]]
      <3> SUFFICES ASSUME NEW m \in 0 .. n PROVE g[m] = IF m = 0 THEN base ELSE step[m][g[m - 1]]
        OBVIOUS
      <3>1. g[n] = step[n][f[n - 1]]
        OBVIOUS
      <3>2. g[n - 1] = f[n - 1]
        BY <2>3
      <3> HIDE DEF g
      <3>3. CASE m = n
        BY <3>1, <3>2, <3>3
      <3>4. CASE m # n /\ m # 0
        <4>1. m \in 1 .. n - 1 /\ m - 1 \in 0 .. n - 1 /\ m \in 0 .. n - 1
          BY <3>4
        <4> QED BY <2>2, <2>3, <3>4, <4>1
      <3>5. CASE m = 0
        BY <2>2, <2>3, <3>5
      <3> QED BY <3>3, <3>4, <3>5
    <2> HIDE DEF g
    <2>6. Recurses(g, n, base, step)
      BY <2>4, <2>5 DEF Recurses
    <2> QED BY <2>4, <2>6
  <1> HIDE DEF B
  <1>3. \A n \in 0 .. N : n \in B
    BY <1>1, <1>2, CountingUp
  <1>4. N \in B
    BY <1>3
  <1> QED BY <1>4 DEF B

----------------------------------------------------------------------------
(* The best levels.                                                         *)
BookSide == {side \in SUBSET Entry : IsFiniteSet(side)}

LEMMA HighestIsHighest ==
    ASSUME NEW side \in BookSide, side # {}
    PROVE  highest(side) \in side /\ \A f \in side : f.price <= highest(side).price
  <1> DEFINE above(e) == {f \in side : e.price < f.price}
             counts   == {Cardinality(above(e)) : e \in side}
  <1>1. \A e \in side : e.price \in Nat
    BY DEF BookSide, Entry
  <1>2. \A e \in side : IsFiniteSet(above(e)) /\ Cardinality(above(e)) \in Nat
    BY FS_Subset, FS_CardinalityType DEF BookSide
  <1>3. PICK n \in counts : \A m \in counts : n <= m
    <2>1. counts \subseteq Nat /\ counts # {}
      BY <1>2
    <2> HIDE DEF counts
    <2> QED BY <2>1, SmallestNumber
  <1>4. PICK e \in side : n = Cardinality(above(e))
    BY <1>3
  <1>5. ASSUME NEW f \in side, ~(f.price <= e.price) PROVE FALSE
    <2>1. above(f) \in SUBSET above(e) /\ f \in above(e) /\ f \notin above(f)
      BY <1>1, <1>5
    <2>2. Cardinality(above(f)) <= Cardinality(above(e)) /\ Cardinality(above(f)) # Cardinality(above(e))
      <3> HIDE DEF above
      <3> QED BY <1>2, <2>1, FS_Subset
    <2>3. n <= Cardinality(above(f))
      BY <1>3
    <2> HIDE DEF above, counts
    <2> QED BY <1>2, <1>4, <2>2, <2>3
  <1>6. \E b \in side : \A f \in side : f.price <= b.price
    BY <1>5
  <1> QED BY <1>6 DEF highest

LEMMA LowestIsLowest ==
    ASSUME NEW side \in BookSide, side # {}
    PROVE  lowest(side) \in side /\ \A f \in side : lowest(side).price <= f.price
  <1> DEFINE prices == {e.price : e \in side}
  <1>1. prices \subseteq Nat /\ prices # {}
    BY DEF BookSide, Entry
  <1>2. PICK n \in prices : \A m \in prices : n <= m
    <2> HIDE DEF prices
    <2> QED BY <1>1, SmallestNumber
  <1>3. \E b \in side : \A f \in side : b.price <= f.price
    BY <1>2
  <1> QED BY <1>3 DEF lowest

----------------------------------------------------------------------------
(* Truncation: each round drops one level, until no bid reaches an ask.     *)
TwoSides == [bids : BookSide, asks : BookSide]

Size(s) == Cardinality(s.bids) + Cardinality(s.asks)

LEMMA SizeType ==
    ASSUME NEW s \in TwoSides
    PROVE  /\ Cardinality(s.bids) \in Nat /\ Cardinality(s.asks) \in Nat /\ Size(s) \in Nat
           /\ Size(s) = 0 => s.bids = {} /\ s.asks = {}
  <1>1. IsFiniteSet(s.bids) /\ IsFiniteSet(s.asks)
    BY DEF TwoSides, BookSide
  <1>2. Cardinality(s.bids) \in Nat /\ Cardinality(s.asks) \in Nat
    BY <1>1, FS_CardinalityType
  <1>3. Size(s) = 0 => Cardinality(s.bids) = 0 /\ Cardinality(s.asks) = 0
    BY <1>2 DEF Size
  <1> QED BY <1>1, <1>2, <1>3, FS_EmptySet DEF Size

LEMMA EraseOneErases ==
    ASSUME NEW s \in TwoSides
    PROVE  /\ eraseOne(s) \in TwoSides
           /\ eraseOne(s).bids \subseteq s.bids /\ eraseOne(s).asks \subseteq s.asks
           /\ ~Overlaps(s) => eraseOne(s) = s
           /\ Overlaps(s) => Size(eraseOne(s)) = Size(s) - 1
  <1>1. CASE ~Overlaps(s)
    BY <1>1 DEF eraseOne
  <1>2. CASE Overlaps(s)
    <2> DEFINE h == highest(s.bids)
               l == lowest(s.asks)
    <2>1. h \in s.bids /\ l \in s.asks
      BY <1>2, HighestIsHighest, LowestIsLowest DEF Overlaps, TwoSides
    <2>2. /\ s.bids \ {h} \in BookSide /\ Cardinality(s.bids \ {h}) = Cardinality(s.bids) - 1
          /\ s.asks \ {l} \in BookSide /\ Cardinality(s.asks \ {l}) = Cardinality(s.asks) - 1
      <3>1. IsFiniteSet(s.bids) /\ IsFiniteSet(s.asks) /\ s.bids \in SUBSET Entry /\ s.asks \in SUBSET Entry
        BY DEF TwoSides, BookSide
      <3> HIDE DEF h, l
      <3> QED BY <2>1, <3>1, FS_RemoveElement DEF BookSide
    <2>3. eraseOne(s) = [s EXCEPT !.asks = @ \ {l}] \/ eraseOne(s) = [s EXCEPT !.bids = @ \ {h}]
      BY <1>2 DEF eraseOne
    <2> HIDE DEF h, l
    <2>4. \/ /\ eraseOne(s) = [bids |-> s.bids, asks |-> s.asks \ {l}]
             /\ eraseOne(s).bids = s.bids /\ eraseOne(s).asks = s.asks \ {l}
          \/ /\ eraseOne(s) = [bids |-> s.bids \ {h}, asks |-> s.asks]
             /\ eraseOne(s).bids = s.bids \ {h} /\ eraseOne(s).asks = s.asks
      BY <2>3 DEF TwoSides
    <2>5. eraseOne(s) \in TwoSides
      BY <2>2, <2>4 DEF TwoSides
    <2>6. Size(eraseOne(s)) = Size(s) - 1
      <3>1. Cardinality(s.bids) \in Nat /\ Cardinality(s.asks) \in Nat
        BY SizeType
      <3>2. \/ /\ Cardinality(eraseOne(s).bids) = Cardinality(s.bids)
               /\ Cardinality(eraseOne(s).asks) = Cardinality(s.asks) - 1
            \/ /\ Cardinality(eraseOne(s).bids) = Cardinality(s.bids) - 1
               /\ Cardinality(eraseOne(s).asks) = Cardinality(s.asks)
        BY <2>2, <2>4
      <3> QED BY <3>1, <3>2 DEF Size
    <2> QED BY <1>2, <2>4, <2>5, <2>6
  <1> QED BY <1>1, <1>2

Erases(a, s) == a = [n \in 0 .. Size(s) |-> IF n = 0 THEN s ELSE eraseOne(a[n - 1])]

LEMMA TruncationIsChosen ==
    ASSUME NEW s PROVE truncateOverlapEntries(s) = (CHOOSE a : Erases(a, s))[Size(s)]
  BY DEF truncateOverlapEntries, Erases, Size

LEMMA TruncationRounds ==
    ASSUME NEW s \in TwoSides
    PROVE  \E a \in [0 .. Size(s) -> TwoSides] :
              /\ a[0] = s /\ truncateOverlapEntries(s) = a[Size(s)]
              /\ \A n \in 1 .. Size(s) : a[n] = eraseOne(a[n - 1])
  <1> DEFINE N == Size(s)
             step == [n \in 1 .. N |-> [t \in TwoSides |-> eraseOne(t)]]
             a == CHOOSE f : Erases(f, s)
  <1>1. N \in Nat
    BY SizeType
  <1>2. step \in [1 .. N -> [TwoSides -> TwoSides]]
    BY EraseOneErases
  <1>3. \A n \in 1 .. N, t \in TwoSides : step[n][t] = eraseOne(t)
    OBVIOUS
  <1> HIDE DEF step
  <1>4. PICK f \in [0 .. N -> TwoSides] : Recurses(f, N, s, step)
    <2> HIDE DEF N
    <2> QED BY <1>1, <1>2, RecursionExists
  <1>5. Erases(f, s)
    <2>1. f = [n \in 0 .. N |-> IF n = 0 THEN s ELSE step[n][f[n - 1]]]
      BY <1>4 DEF Recurses
    <2>2. \A n \in 0 .. N : n # 0 => step[n][f[n - 1]] = eraseOne(f[n - 1])
      BY <1>1, <1>3, <1>4
    <2> QED BY <2>1, <2>2 DEF Erases
  <1>6. Erases(a, s)
    BY <1>5
  <1>7. truncateOverlapEntries(s) = a[N]
    BY TruncationIsChosen
  <1> HIDE DEF a
  <1>8. a = [n \in 0 .. N |-> IF n = 0 THEN s ELSE eraseOne(a[n - 1])]
    BY <1>6 DEF Erases
  <1>9. a[0] = s /\ \A n \in 1 .. N : a[n] = eraseOne(a[n - 1])
    BY <1>1, <1>8
  <1>10. \A n \in 0 .. N : a[n] \in TwoSides
    <2> DEFINE B == {n \in 0 .. N : a[n] \in TwoSides}
    <2>1. 0 \in B /\ \A n \in 1 .. N : n - 1 \in B => n \in B
      BY <1>1, <1>9, EraseOneErases
    <2> HIDE DEF B
    <2>2. \A n \in 0 .. N : n \in B
      <3> HIDE DEF N
      <3> QED BY <1>1, <2>1, CountingUp
    <2> QED BY <2>2 DEF B
  <1>11. a \in [0 .. N -> TwoSides]
    <2> HIDE DEF N
    <2> QED BY <1>8, <1>10
  <1> QED BY <1>7, <1>9, <1>11

Crossed(s) == \E bid \in s.bids, ask \in s.asks : bid.price >= ask.price

LEMMA OverlapsIsCrossed ==
    ASSUME NEW s \in TwoSides PROVE Overlaps(s) <=> Crossed(s)
  <1>0. /\ s.bids \in BookSide /\ s.asks \in BookSide
        /\ \A e \in s.bids \cup s.asks : e.price \in Nat
    BY DEF TwoSides, BookSide, Entry
  <1>1. ASSUME Overlaps(s) PROVE Crossed(s)
    BY <1>0, <1>1, HighestIsHighest, LowestIsLowest DEF Overlaps, Crossed
  <1>2. ASSUME Crossed(s) PROVE Overlaps(s)
    <2>1. PICK bid \in s.bids, ask \in s.asks : bid.price >= ask.price
      BY <1>2 DEF Crossed
    <2>2. /\ highest(s.bids) \in s.bids /\ bid.price <= highest(s.bids).price
          /\ lowest(s.asks) \in s.asks /\ lowest(s.asks).price <= ask.price
      BY <1>0, HighestIsHighest, LowestIsLowest
    <2>3. /\ bid.price \in Nat /\ ask.price \in Nat
          /\ highest(s.bids).price \in Nat /\ lowest(s.asks).price \in Nat
      BY <1>0, <2>2
    <2>4. highest(s.bids).price >= lowest(s.asks).price
      BY <2>1, <2>2, <2>3
    <2> QED BY <2>4 DEF Overlaps
  <1> QED BY <1>1, <1>2

(* What is kept: rows newer than all others, none of which reaches another. *)
Newest(bids, asks, u) ==
    /\ \A e \in bids \cup asks : e.update_id = u
    /\ \A bid \in bids, ask \in asks : bid.price < ask.price

Keeps(s, bids, asks, u) ==
    /\ bids \subseteq s.bids /\ asks \subseteq s.asks
    /\ \A e \in (s.bids \ bids) \cup (s.asks \ asks) : e.update_id < u

LEMMA EraseOneKeepsNewest ==
    ASSUME NEW s \in TwoSides, NEW bids, NEW asks, NEW u \in Nat,
           Newest(bids, asks, u), Keeps(s, bids, asks, u)
    PROVE  Keeps(eraseOne(s), bids, asks, u)
  <1>1. CASE ~Overlaps(s)
    BY <1>1 DEF eraseOne
  <1>2. CASE Overlaps(s)
    <2> DEFINE h == highest(s.bids)
               l == lowest(s.asks)
    <2>1. h \in s.bids /\ l \in s.asks /\ h.price >= l.price
      BY <1>2, HighestIsHighest, LowestIsLowest DEF Overlaps, TwoSides
    <2>2. /\ h.price \in Nat /\ h.update_id \in Nat /\ l.price \in Nat /\ l.update_id \in Nat
      BY <2>1 DEF TwoSides, BookSide, Entry
    <2>3. IF h.update_id > l.update_id
            THEN eraseOne(s) = [s EXCEPT !.asks = @ \ {l}]
            ELSE eraseOne(s) = [s EXCEPT !.bids = @ \ {h}]
      BY <1>2 DEF eraseOne, bidIsNewer
    <2> HIDE DEF h, l
    <2>4. IF h.update_id > l.update_id
            THEN eraseOne(s).bids = s.bids /\ eraseOne(s).asks = s.asks \ {l}
            ELSE eraseOne(s).bids = s.bids \ {h} /\ eraseOne(s).asks = s.asks
      BY <2>3 DEF TwoSides
    <2>5. ~(h \in bids /\ l \in asks)
      BY <2>1, <2>2 DEF Newest
    <2>6. CASE h.update_id > l.update_id
      <3>1. l \notin asks
        BY <2>1, <2>2, <2>5, <2>6 DEF Newest, Keeps
      <3> QED BY <2>4, <2>6, <3>1 DEF Keeps
    <2>7. CASE ~(h.update_id > l.update_id)
      <3>1. h \notin bids
        BY <2>1, <2>2, <2>5, <2>7 DEF Newest, Keeps
      <3> QED BY <2>4, <2>7, <3>1 DEF Keeps
    <2> QED BY <2>6, <2>7
  <1> QED BY <1>1, <1>2

LEMMA TruncationKeepsNewest ==
    ASSUME NEW s \in TwoSides, NEW bids, NEW asks, NEW u \in Nat,
           Newest(bids, asks, u), Keeps(s, bids, asks, u)
    PROVE  Keeps(truncateOverlapEntries(s), bids, asks, u)
  <1>1. PICK a \in [0 .. Size(s) -> TwoSides] :
              /\ a[0] = s /\ truncateOverlapEntries(s) = a[Size(s)]
              /\ \A n \in 1 .. Size(s) : a[n] = eraseOne(a[n - 1])
    BY TruncationRounds
  <1>2. Size(s) \in Nat
    BY SizeType
  <1> DEFINE B == {n \in 0 .. Size(s) : Keeps(a[n], bids, asks, u)}
  <1>3. 0 \in B
    BY <1>1, <1>2
  <1>4. \A n \in 1 .. Size(s) : n - 1 \in B => n \in B
    BY <1>1, <1>2, EraseOneKeepsNewest
  <1> HIDE DEF B
  <1>5. \A n \in 0 .. Size(s) : n \in B
    BY <1>2, <1>3, <1>4, CountingUp
  <1> QED BY <1>1, <1>2, <1>5 DEF B

LEMMA TruncationUncrosses ==
    ASSUME NEW s \in TwoSides
    PROVE  truncateOverlapEntries(s) \in TwoSides /\ ~Crossed(truncateOverlapEntries(s))
  <1>1. PICK a \in [0 .. Size(s) -> TwoSides] :
              /\ a[0] = s /\ truncateOverlapEntries(s) = a[Size(s)]
              /\ \A n \in 1 .. Size(s) : a[n] = eraseOne(a[n - 1])
    BY TruncationRounds
  <1>2. Size(s) \in Nat /\ \A n \in 0 .. Size(s) : a[n] \in TwoSides /\ Size(a[n]) \in Nat
    BY <1>1, SizeType
  <1> DEFINE B == {n \in 0 .. Size(s) : ~Overlaps(a[n]) \/ Size(a[n]) <= Size(s) - n}
  <1>3. 0 \in B
    BY <1>1, <1>2
  <1>4. ASSUME NEW n \in 1 .. Size(s), n - 1 \in B PROVE n \in B
    <2>1. a[n - 1] \in TwoSides /\ Size(a[n - 1]) \in Nat /\ a[n] = eraseOne(a[n - 1])
      BY <1>1, <1>2
    <2>2. CASE ~Overlaps(a[n - 1])
      <3>1. a[n] = a[n - 1]
        BY <2>1, <2>2, EraseOneErases
      <3> QED BY <2>2, <3>1
    <2>3. CASE Overlaps(a[n - 1])
      <3>1. Size(a[n]) = Size(a[n - 1]) - 1
        BY <2>1, <2>3, EraseOneErases
      <3>2. Size(a[n - 1]) <= Size(s) - (n - 1)
        BY <1>4, <2>3
      <3>3. Size(a[n]) <= Size(s) - n
        BY <1>2, <2>1, <3>1, <3>2
      <3> QED BY <3>3
    <2> QED BY <2>2, <2>3
  <1> HIDE DEF B
  <1>5. Size(s) \in B
    <2>1. \A n \in 0 .. Size(s) : n \in B
      BY <1>2, <1>3, <1>4, CountingUp
    <2> QED BY <1>2, <2>1
  <1>6. ~Overlaps(a[Size(s)])
    <2>1. CASE Size(a[Size(s)]) <= Size(s) - Size(s)
      <3>1. Size(a[Size(s)]) = 0
        BY <1>2, <2>1
      <3> QED BY <1>2, <3>1, SizeType DEF Overlaps
    <2> QED BY <1>5, <2>1 DEF B
  <1>7. a[Size(s)] \in TwoSides
    BY <1>2
  <1> QED BY <1>1, <1>6, <1>7, OverlapsIsCrossed

----------------------------------------------------------------------------
(* The operations of the book: whatever they are applied to, the sides they *)
(* leave do not reach each other and the cached prices are the best ones.   *)
Books == [bids : BookSide, asks : BookSide, best_bid : Nat, best_ask : Nat,
          snapshot_uid : Nat, last_diff_uid : Nat]

Quoted(b) == /\ b.asks # {} => b.best_ask = lowest(b.asks).price
             /\ b.bids # {} => b.best_bid = highest(b.bids).price

GoodBooks == {b \in Books : ~Crossed(b) /\ Quoted(b)}

LEMMA MergeType ==
    ASSUME NEW side \in BookSide, NEW rows \in BookSide
    PROVE  merge(side, rows) \in BookSide
  <1> DEFINE kept == {e \in side : \A row \in rows : row.price # e.price}
             new  == {row \in rows : row.amount > 0}
  <1>1. kept \in SUBSET side /\ new \in SUBSET rows
    OBVIOUS
  <1>2. merge(side, rows) = kept \cup new
    BY DEF merge
  <1> HIDE DEF kept, new
  <1>3. IsFiniteSet(kept) /\ IsFiniteSet(new)
    BY <1>1, FS_Subset DEF BookSide
  <1> QED BY <1>1, <1>2, <1>3, FS_Union DEF BookSide

LEMMA BestPrices ==
    ASSUME NEW side \in BookSide, side # {}
    PROVE  highest(side).price \in Nat /\ lowest(side).price \in Nat
  BY HighestIsHighest, LowestIsLowest DEF BookSide, Entry

LEMMA ApplyDiffsGood ==
    ASSUME NEW b \in Books, NEW bids \in BookSide, NEW asks \in BookSide, NEW u \in Nat
    PROVE  apply_diffs(b, bids, asks, u) \in GoodBooks
  <1> DEFINE merged == [bids |-> merge(b.bids, bids), asks |-> merge(b.asks, asks)]
             sides == truncateOverlapEntries(merged)
             best_bid == IF sides.bids = {} THEN b.best_bid ELSE highest(sides.bids).price
             best_ask == IF sides.asks = {} THEN b.best_ask ELSE lowest(sides.asks).price
             after == [b EXCEPT !.bids = sides.bids, !.asks = sides.asks, !.last_diff_uid = u,
                                !.best_bid = best_bid, !.best_ask = best_ask]
  <1>1. apply_diffs(b, bids, asks, u) = after
    BY DEF apply_diffs, Books
  <1>2. merged \in TwoSides
    BY MergeType DEF TwoSides, Books
  <1> HIDE DEF merged
  <1>3. sides \in TwoSides /\ ~Crossed(sides)
    BY <1>2, TruncationUncrosses
  <1> HIDE DEF sides
  <1>4. sides.bids \in BookSide /\ sides.asks \in BookSide
    BY <1>3 DEF TwoSides
  <1>5. best_bid \in Nat /\ best_ask \in Nat
    BY <1>4, BestPrices DEF Books
  <1>6. /\ sides.bids # {} => best_bid = highest(sides.bids).price
        /\ sides.asks # {} => best_ask = lowest(sides.asks).price
    OBVIOUS
  <1> HIDE DEF best_bid, best_ask
  <1>7. /\ after \in Books
        /\ after.bids = sides.bids /\ after.asks = sides.asks
        /\ after.best_bid = best_bid /\ after.best_ask = best_ask
    BY <1>4, <1>5 DEF Books
  <1> HIDE DEF after
  <1>8. ~Crossed(after) /\ Quoted(after)
    BY <1>3, <1>6, <1>7 DEF Crossed, Quoted
  <1> QED BY <1>1, <1>7, <1>8 DEF GoodBooks

LEMMA ApplySnapshotGood ==
    ASSUME NEW b \in Books, NEW bids \in BookSide, NEW asks \in BookSide, NEW u \in Nat,
           \A bid \in bids, ask \in asks : bid.price < ask.price
    PROVE  /\ apply_snapshot(b, bids, asks, u) \in GoodBooks
           /\ apply_snapshot(b, bids, asks, u).snapshot_uid = u
  <1> DEFINE best_bid == IF bids = {} THEN NaN ELSE highest(bids).price
             best_ask == IF asks = {} THEN NaN ELSE lowest(asks).price
             after == [b EXCEPT !.bids = bids, !.asks = asks, !.snapshot_uid = u,
                                !.best_bid = best_bid, !.best_ask = best_ask]
  <1>1. apply_snapshot(b, bids, asks, u) = after
    BY DEF apply_snapshot, Books
  <1>2. best_bid \in Nat /\ best_ask \in Nat
    BY BestPrices DEF NaN
  <1>3. /\ bids # {} => best_bid = highest(bids).price
        /\ asks # {} => best_ask = lowest(asks).price
    OBVIOUS
  <1> HIDE DEF best_bid, best_ask
  <1>4. /\ after \in Books
        /\ after.bids = bids /\ after.asks = asks /\ after.snapshot_uid = u
        /\ after.best_bid = best_bid /\ after.best_ask = best_ask
    BY <1>2 DEF Books
  <1> HIDE DEF after
  <1>5. ~Crossed(after)
    <2>1. \A bid \in bids, ask \in asks : bid.price \in Nat /\ ask.price \in Nat
      BY DEF BookSide, Entry
    <2> QED BY <1>4, <2>1 DEF Crossed
  <1>6. Quoted(after)
    BY <1>3, <1>4 DEF Quoted
  <1> QED BY <1>1, <1>4, <1>5, <1>6 DEF GoodBooks

(* The messages of the pipeline.  A snapshot is of a book of the exchange.  *)
Messages == {m \in [type : {"DIFF", "SNAPSHOT"}, update_id : Nat, bids : BookSide, asks : BookSide] :
               m.type = "SNAPSHOT" => \A bid \in m.bids, ask \in m.asks : bid.price < ask.price}

Replays(f, first, later) ==
    f = [n \in 0 .. Len(later) |->
            IF n = 0 THEN first
            ELSE apply_diffs(f[n - 1], later[n].bids, later[n].asks, later[n].update_id)]

LEMMA RestoreIsChosen ==
    ASSUME NEW b, NEW snapshot, NEW diffs
    PROVE  restore_from_snapshot_and_diffs(b, snapshot, diffs) =
           (CHOOSE f : Replays(f, apply_snapshot(b, snapshot.bids, snapshot.asks, snapshot.update_id),
                               replay_diffs(diffs, snapshot)))[Len(replay_diffs(diffs, snapshot))]
  BY DEF restore_from_snapshot_and_diffs, Replays

(* A snapshot precedes every diff, so all of the window is replayed.        *)
LEMMA AllIsReplayed ==
    ASSUME NEW snapshot, snapshot.type = "SNAPSHOT", NEW S, NEW diffs \in Seq(S)
    PROVE  replay_diffs(diffs, snapshot) = diffs
  <1>1. \A m : precedes(snapshot, m)
    BY DEF precedes, has_update_id
  <1>2. {i \in 1 .. Len(diffs) : ~precedes(snapshot, diffs[i])} = {}
    BY <1>1
  <1>3. replay_position(diffs, snapshot) = 0
    BY <1>2, FS_EmptySet DEF replay_position
  <1>4. replay_diffs(diffs, snapshot) = SubSeq(diffs, 1, Len(diffs))
    BY <1>3 DEF replay_diffs
  <1> QED BY <1>4

LEMMA RestoreRounds ==
    ASSUME NEW b \in Books, NEW snapshot \in Messages, snapshot.type = "SNAPSHOT",
           NEW diffs \in Seq(Messages)
    PROVE  \E a \in [0 .. Len(diffs) -> GoodBooks] :
              /\ a[0] = apply_snapshot(b, snapshot.bids, snapshot.asks, snapshot.update_id)
              /\ \A n \in 1 .. Len(diffs) :
                    a[n] = apply_diffs(a[n - 1], diffs[n].bids, diffs[n].asks, diffs[n].update_id)
              /\ restore_from_snapshot_and_diffs(b, snapshot, diffs) = a[Len(diffs)]
  <1> DEFINE first == apply_snapshot(b, snapshot.bids, snapshot.asks, snapshot.update_id)
             N == Len(diffs)
             step == [n \in 1 .. N |-> [t \in GoodBooks |->
                         apply_diffs(t, diffs[n].bids, diffs[n].asks, diffs[n].update_id)]]
             a == CHOOSE f : Replays(f, first, diffs)
  <1>1. restore_from_snapshot_and_diffs(b, snapshot, diffs) = a[N]
    BY RestoreIsChosen, AllIsReplayed
  <1>3. first \in GoodBooks
    <2>1. /\ snapshot.bids \in BookSide /\ snapshot.asks \in BookSide /\ snapshot.update_id \in Nat
          /\ \A bid \in snapshot.bids, ask \in snapshot.asks : bid.price < ask.price
      BY DEF Messages
    <2> QED BY <2>1, ApplySnapshotGood
  <1> HIDE DEF first
  <1>4. N \in Nat /\ \A n \in 1 .. N : diffs[n] \in Messages
    OBVIOUS
  <1>5. ASSUME NEW n \in 1 .. N, NEW t \in GoodBooks
        PROVE  apply_diffs(t, diffs[n].bids, diffs[n].asks, diffs[n].update_id) \in GoodBooks
    <2>1. diffs[n].bids \in BookSide /\ diffs[n].asks \in BookSide /\ diffs[n].update_id \in Nat
      BY <1>4 DEF Messages
    <2>2. t \in Books
      BY DEF GoodBooks
    <2> QED BY <2>1, <2>2, ApplyDiffsGood
  <1>6. step \in [1 .. N -> [GoodBooks -> GoodBooks]]
    BY <1>5
  <1>7. \A n \in 1 .. N, t \in GoodBooks :
           step[n][t] = apply_diffs(t, diffs[n].bids, diffs[n].asks, diffs[n].update_id)
    OBVIOUS
  <1> HIDE DEF step
  <1>8. PICK f \in [0 .. N -> GoodBooks] : Recurses(f, N, first, step)
    <2> HIDE DEF N
    <2> QED BY <1>3, <1>4, <1>6, RecursionExists
  <1>9. Replays(f, first, diffs)
    <2>1. f = [n \in 0 .. N |-> IF n = 0 THEN first ELSE step[n][f[n - 1]]]
      BY <1>8 DEF Recurses
    <2>2. \A n \in 0 .. N : n # 0 =>
             step[n][f[n - 1]] =
                 apply_diffs(f[n - 1], diffs[n].bids, diffs[n].asks, diffs[n].update_id)
      BY <1>4, <1>7, <1>8
    <2> QED BY <2>1, <2>2 DEF Replays
  <1>10. Replays(a, first, diffs)
    BY <1>9
  <1> HIDE DEF a
  <1>11. a[0] = first /\ \A n \in 1 .. N :
             a[n] = apply_diffs(a[n - 1], diffs[n].bids, diffs[n].asks, diffs[n].update_id)
    BY <1>4, <1>10 DEF Replays
  <1> DEFINE B == {n \in 0 .. N : a[n] \in GoodBooks}
  <1>12. 0 \in B /\ \A n \in 1 .. N : n - 1 \in B => n \in B
    BY <1>3, <1>4, <1>5, <1>11
  <1> HIDE DEF B
  <1>13. \A n \in 0 .. N : n \in B
    <2> HIDE DEF N
    <2> QED BY <1>4, <1>12, CountingUp
  <1>14. a \in [0 .. N -> GoodBooks]
    BY <1>10, <1>13 DEF B, Replays
  <1> QED BY <1>1, <1>11, <1>14 DEF first

LEMMA RestoreGood ==
    ASSUME NEW b \in Books, NEW snapshot \in Messages, snapshot.type = "SNAPSHOT",
           NEW diffs \in Seq(Messages)
    PROVE  restore_from_snapshot_and_diffs(b, snapshot, diffs) \in GoodBooks
  <1>1. PICK a \in [0 .. Len(diffs) -> GoodBooks] :
              restore_from_snapshot_and_diffs(b, snapshot, diffs) = a[Len(diffs)]
    BY RestoreRounds
  <1>2. Len(diffs) \in 0 .. Len(diffs)
    OBVIOUS
  <1> QED BY <1>1, <1>2

LEMMA DequeAppend ==
    ASSUME NEW S, NEW deque \in Seq(S), NEW maxlen \in Nat \ {0}, NEW e \in S
    PROVE  /\ deque_append(deque, maxlen, e) \in Seq(S)
           /\ deque_append(deque, maxlen, e)[Len(deque_append(deque, maxlen, e))] = e
  <1> DEFINE longer == Append(deque, e)
  <1>1. /\ longer \in Seq(S) /\ Len(longer) = Len(deque) + 1 /\ Len(deque) \in Nat
        /\ longer[Len(longer)] = e
    OBVIOUS
  <1> HIDE DEF longer
  <1>2. CASE Len(longer) > maxlen
    <2>1. Len(longer) >= 2
      BY <1>1, <1>2
    <2>2. /\ Tail(longer) \in Seq(S) /\ Len(Tail(longer)) = Len(longer) - 1
          /\ Tail(longer)[Len(longer) - 1] = longer[Len(longer)]
      BY <1>1, <2>1
    <2>3. deque_append(deque, maxlen, e) = Tail(longer)
      BY <1>2 DEF deque_append, longer
    <2> QED BY <1>1, <2>2, <2>3
  <1>3. CASE ~(Len(longer) > maxlen)
    <2>1. deque_append(deque, maxlen, e) = longer
      BY <1>3 DEF deque_append, longer
    <2> QED BY <1>1, <2>1
  <1> QED BY <1>2, <1>3

----------------------------------------------------------------------------
(* The rows of a version of the exchange's book.                            *)
RowsOf(books, n, side, prices) ==
    {[price |-> p, amount |-> books[n][side][p], update_id |-> n] : p \in prices}

LEMMA RowsAreASide ==
    ASSUME NEW books \in Seq(MarketBooks), NEW n \in 1 .. Len(books), NEW side \in Sides,
           NEW prices \in SUBSET Prices
    PROVE  RowsOf(books, n, side, prices) \in BookSide
  <1> DEFINE row(p) == [price |-> p, amount |-> books[n][side][p], update_id |-> n]
             f == [p \in prices |-> row(p)]
  <1>1. books[n] \in MarketBooks /\ n \in Nat
    OBVIOUS
  <1>2. books[n][side] \in [Prices -> Amounts]
    <2>1. books[n].bids \in [Prices -> Amounts] /\ books[n].asks \in [Prices -> Amounts]
      BY <1>1 DEF MarketBooks
    <2> QED BY <2>1 DEF Sides
  <1>3. \A p \in prices : p \in Nat /\ books[n][side][p] \in Nat
    BY <1>2, LevelsAssumption
  <1>4. \A p \in prices : row(p) \in Entry
    BY <1>1, <1>3 DEF Entry
  <1>5. f \in Surjection(prices, RowsOf(books, n, side, prices))
    BY DEF Surjection, RowsOf
  <1>6. IsFiniteSet(prices)
    BY PricesAssumption, FS_Subset
  <1>7. IsFiniteSet(RowsOf(books, n, side, prices))
    <2> HIDE DEF f
    <2> QED BY <1>5, <1>6, FS_Surjection
  <1>8. RowsOf(books, n, side, prices) \subseteq Entry
    BY <1>4 DEF RowsOf
  <1> QED BY <1>7, <1>8 DEF BookSide

LEMMA RowsDoNotReach ==
    ASSUME NEW books \in Seq(MarketBooks), NEW n \in 1 .. Len(books),
           NEW P \in SUBSET Prices, NEW Q \in SUBSET Prices,
           NEW bid \in RowsOf(books, n, "bids", P), NEW ask \in RowsOf(books, n, "asks", Q),
           bid.amount > 0, ask.amount > 0
    PROVE  bid.price < ask.price
  <1>1. books[n] \in MarketBooks
    OBVIOUS
  <1>2. PICK p \in P : bid = [price |-> p, amount |-> books[n]["bids"][p], update_id |-> n]
    BY DEF RowsOf
  <1>3. PICK q \in Q : ask = [price |-> q, amount |-> books[n]["asks"][q], update_id |-> n]
    BY DEF RowsOf
  <1>4. books[n].bids[p] > 0 /\ books[n].asks[q] > 0
    BY <1>2, <1>3
  <1>5. p < q
    BY <1>1, <1>4 DEF MarketBooks
  <1> QED BY <1>2, <1>3, <1>5

ChangesOf(books, n, side) ==
    RowsOf(books, n, side, {p \in Prices : books[n][side][p] # books[n - 1][side][p]})
LevelsOf(books, n, side) == RowsOf(books, n, side, {p \in Prices : books[n][side][p] > 0})

(* The messages of the exchange, by their books.                            *)
DiffOf(books, n) == [type |-> "DIFF", update_id |-> n,
                     bids |-> ChangesOf(books, n, "bids"), asks |-> ChangesOf(books, n, "asks")]
SnapshotOf(books, n) == [type |-> "SNAPSHOT", update_id |-> n,
                         bids |-> LevelsOf(books, n, "bids"), asks |-> LevelsOf(books, n, "asks")]

LEMMA DiffsAreMessages ==
    ASSUME NEW books \in Seq(MarketBooks), NEW n \in 1 .. Len(books)
    PROVE  DiffOf(books, n) \in Messages
  <1>1. ChangesOf(books, n, "bids") \in BookSide /\ ChangesOf(books, n, "asks") \in BookSide
    BY RowsAreASide DEF ChangesOf, Sides
  <1> QED BY <1>1 DEF DiffOf, Messages

LEMMA SnapshotsAreMessages ==
    ASSUME NEW books \in Seq(MarketBooks), NEW n \in 1 .. Len(books)
    PROVE  SnapshotOf(books, n) \in Messages
  <1>1. LevelsOf(books, n, "bids") \in BookSide /\ LevelsOf(books, n, "asks") \in BookSide
    BY RowsAreASide DEF LevelsOf, Sides
  <1>2. \A side \in Sides : \A e \in LevelsOf(books, n, side) : e.amount > 0
    BY DEF LevelsOf, RowsOf
  <1>3. \A bid \in LevelsOf(books, n, "bids"), ask \in LevelsOf(books, n, "asks") : bid.price < ask.price
    BY <1>2, RowsDoNotReach DEF LevelsOf, Sides
  <1> QED BY <1>1, <1>3 DEF SnapshotOf, Messages

LEMMA DiffIsDiffOf == \A n : Diff(n) = DiffOf(exchange_book, n)
  BY DEF Diff, Changes, Rows, DiffOf, ChangesOf, RowsOf

LEMMA SnapshotIsSnapshotOf == \A n : Snapshot(n) = SnapshotOf(exchange_book, n)
  BY DEF Snapshot, Levels, Rows, SnapshotOf, LevelsOf, RowsOf

LEMMA DiffIsMessage ==
    ASSUME exchange_book \in Seq(MarketBooks), NEW n \in 1 .. Latest
    PROVE  Diff(n) \in Messages
  BY DiffsAreMessages, DiffIsDiffOf DEF Latest

LEMMA SnapshotIsMessage ==
    ASSUME exchange_book \in Seq(MarketBooks), NEW n \in 1 .. Latest
    PROVE  Snapshot(n) \in Messages /\ Snapshot(n).type = "SNAPSHOT"
  BY SnapshotsAreMessages, SnapshotIsSnapshotOf DEF Latest, SnapshotOf

----------------------------------------------------------------------------
(* The inductive invariant: the exchange's books are market books, all that *)
(* is queued was read from them, and the local book is good.                *)
ExchangeOK == exchange_book \in Seq(MarketBooks) /\ Latest >= 1

QueuesOK == /\ diff_stream \in Seq(Messages) /\ snapshot_stream \in Seq(Messages)
            /\ saved_messages \in Seq(Messages) /\ message_queue \in Seq(Messages)
            /\ past_diffs_window \in Seq(Messages)
            /\ initial_snapshot \in 0 .. Latest

BookInv == ExchangeOK /\ QueuesOK /\ order_book \in GoodBooks

LEMMA EmptyBookIsGood == EmptyBook \in GoodBooks
  <1>1. {} \in BookSide
    BY FS_EmptySet DEF BookSide
  <1>2. EmptyBook \in Books
    BY <1>1 DEF EmptyBook, Books, NaN
  <1> QED BY <1>2 DEF GoodBooks, EmptyBook, Crossed, Quoted

LEMMA FunctionsAreSequences ==
    ASSUME NEW S, NEW s \in [1 .. 1 -> S]
    PROVE  s \in Seq(S) /\ Len(s) = 1
  <1>1. s \in Seq(S)
    BY SeqDef, Zenon
  <1>2. 1 .. Len(s) = 1 .. 1 /\ Len(s) \in Nat
    BY <1>1, LenProperties
  <1> QED BY <1>1, <1>2

LEMMA InitBook == Init => BookInv
  <1> SUFFICES ASSUME Init PROVE BookInv
    OBVIOUS
  <1>1. exchange_book \in [1 .. 1 -> MarketBooks]
    BY FirstBooksAssumption DEF Init
  <1>2. exchange_book \in Seq(MarketBooks) /\ Len(exchange_book) = 1
    BY <1>1, FunctionsAreSequences
  <1> QED BY <1>2, EmptyBookIsGood DEF Init, BookInv, ExchangeOK, QueuesOK, Latest

LEMMA ProcessGood ==
    ASSUME BookInv, NEW message \in Messages, process(message)
    PROVE  order_book' \in GoodBooks /\ past_diffs_window' \in Seq(Messages)
  <1>1. order_book \in Books /\ past_diffs_window \in Seq(Messages)
    BY DEF BookInv, QueuesOK, GoodBooks
  <1>2. CASE message.type = "DIFF"
    <2>1. /\ order_book' = apply_diffs(order_book, message.bids, message.asks, message.update_id)
          /\ past_diffs_window' = deque_append(past_diffs_window, PAST_DIFF_WINDOW_SIZE, message)
      BY <1>2 DEF process
    <2>2. message.bids \in BookSide /\ message.asks \in BookSide /\ message.update_id \in Nat
      BY DEF Messages
    <2> QED BY <1>1, <2>1, <2>2, ApplyDiffsGood, DequeAppend, LimitsAssumption
  <1>3. CASE message.type # "DIFF"
    <2>1. message.type = "SNAPSHOT"
      BY <1>3 DEF Messages
    <2>2. /\ order_book' = restore_from_snapshot_and_diffs(order_book, message, past_diffs_window)
          /\ past_diffs_window' = past_diffs_window
      BY <1>3 DEF process
    <2> QED BY <1>1, <2>1, <2>2, RestoreGood
  <1> QED BY <1>2, <1>3

LEMMA HeadsAndTails ==
    ASSUME NEW S, NEW s \in Seq(S), s # <<>>
    PROVE  Head(s) \in S /\ Tail(s) \in Seq(S)
  OBVIOUS

(* One step per action; an action leaves alone what it does not mention.    *)
LEMMA BookStep == BookInv /\ [Next]_vars => BookInv'
  <1> SUFFICES ASSUME BookInv, [Next]_vars PROVE BookInv'
    OBVIOUS
  <1>0. /\ exchange_book \in Seq(MarketBooks) /\ Latest >= 1 /\ Latest \in Nat
        /\ diff_stream \in Seq(Messages) /\ snapshot_stream \in Seq(Messages)
        /\ saved_messages \in Seq(Messages) /\ message_queue \in Seq(Messages)
        /\ past_diffs_window \in Seq(Messages)
        /\ initial_snapshot \in 0 .. Latest
        /\ order_book \in GoodBooks /\ order_book \in Books
    BY DEF BookInv, ExchangeOK, QueuesOK, Latest, GoodBooks
  <1>1. ASSUME NEW next \in MarketBooks, exchange_changes(next) PROVE BookInv'
    <2>1. exchange_book' \in Seq(MarketBooks) /\ Latest' = Latest + 1
      BY <1>0, <1>1 DEF exchange_changes, Latest
    <2>2. Diff(Latest)' \in Messages
      <3>1. Latest' \in 1 .. Len(exchange_book')
        BY <1>0, <2>1 DEF Latest
      <3> HIDE DEF Latest
      <3> QED BY <2>1, <3>1, DiffsAreMessages DEF Diff, Changes, Rows, DiffOf, ChangesOf, RowsOf
    <2>3. diff_stream' \in Seq(Messages)
      <3>1. PICK message \in Messages :
               diff_stream' = Append(diff_stream, message) \/ diff_stream' = diff_stream
        BY <1>1, <2>2 DEF exchange_changes
      <3>2. diff_stream \in Seq(Messages) /\ Append(diff_stream, message) \in Seq(Messages)
        BY <1>0
      <3> QED BY <3>1, <3>2
    <2>4. /\ UNCHANGED <<snapshot_stream, initial_snapshot, message_queue>>
          /\ UNCHANGED <<order_book, saved_messages, past_diffs_window>>
      BY <1>1 DEF exchange_changes, book
    <2>5. initial_snapshot' \in 0 .. Latest'
      BY <1>0, <2>1, <2>4
    <2> QED BY <1>0, <2>1, <2>3, <2>4, <2>5 DEF BookInv, ExchangeOK, QueuesOK
  <1>2. ASSUME answer_initial_snapshot PROVE BookInv'
    <2>1. /\ initial_snapshot' = Latest
          /\ UNCHANGED <<exchange_book, diff_stream, snapshot_stream, order_book,
                         saved_messages, past_diffs_window, message_queue>>
      BY <1>2 DEF answer_initial_snapshot, external, book
    <2> QED BY <1>0, <2>1 DEF BookInv, ExchangeOK, QueuesOK, Latest
  <1>3. ASSUME answer_snapshot PROVE BookInv'
    <2>1. Snapshot(Latest) \in Messages
      BY <1>0, SnapshotIsMessage
    <2>2. /\ snapshot_stream' = Append(snapshot_stream, Snapshot(Latest))
          /\ UNCHANGED <<exchange_book, diff_stream, initial_snapshot, order_book,
                         saved_messages, past_diffs_window, message_queue>>
      BY <1>3 DEF answer_snapshot, book
    <2>3. snapshot_stream' \in Seq(Messages)
      BY <1>0, <2>1, <2>2
    <2> QED BY <1>0, <2>2, <2>3 DEF BookInv, ExchangeOK, QueuesOK, Latest
  <1>4. ASSUME init_order_book PROVE BookInv'
    <2> DEFINE snapshot == Snapshot(initial_snapshot)
    <2>1. initial_snapshot \in 1 .. Latest
      BY <1>0, <1>4 DEF init_order_book
    <2>2. snapshot \in Messages /\ snapshot.type = "SNAPSHOT"
      BY <1>0, <2>1, SnapshotIsMessage
    <2>3. /\ order_book' = apply_snapshot(order_book, snapshot.bids, snapshot.asks, snapshot.update_id)
          /\ UNCHANGED <<exchange_book, diff_stream, snapshot_stream, initial_snapshot,
                         saved_messages, past_diffs_window, message_queue>>
      BY <1>4 DEF init_order_book, external
    <2> HIDE DEF snapshot
    <2>4. /\ snapshot.bids \in BookSide /\ snapshot.asks \in BookSide /\ snapshot.update_id \in Nat
          /\ \A bid \in snapshot.bids, ask \in snapshot.asks : bid.price < ask.price
      BY <2>2 DEF Messages
    <2>5. order_book' \in GoodBooks
      BY <1>0, <2>3, <2>4, ApplySnapshotGood
    <2> QED BY <1>0, <2>3, <2>5 DEF BookInv, ExchangeOK, QueuesOK, Latest
  <1>5. ASSUME route_diff PROVE BookInv'
    <2> DEFINE message == Head(diff_stream)
    <2>1. /\ diff_stream # <<>> /\ diff_stream' = Tail(diff_stream)
          /\ \/ saved_messages' = deque_append(saved_messages, SavedLimit, message)
                /\ UNCHANGED message_queue
             \/ UNCHANGED <<saved_messages, message_queue>>
             \/ message_queue' = Append(message_queue, message) /\ UNCHANGED saved_messages
          /\ UNCHANGED <<exchange_book, snapshot_stream, initial_snapshot, order_book, past_diffs_window>>
      BY <1>5 DEF route_diff, external
    <2>2. message \in Messages /\ diff_stream' \in Seq(Messages)
      BY <1>0, <2>1
    <2> HIDE DEF message
    <2>3. saved_messages' \in Seq(Messages) /\ message_queue' \in Seq(Messages)
      <3>1. deque_append(saved_messages, SavedLimit, message) \in Seq(Messages)
        BY <1>0, <2>2, DequeAppend, LimitsAssumption
      <3>2. Append(message_queue, message) \in Seq(Messages)
        BY <1>0, <2>2
      <3> QED BY <1>0, <2>1, <3>1, <3>2
    <2> QED BY <1>0, <2>1, <2>2, <2>3 DEF BookInv, ExchangeOK, QueuesOK, Latest
  <1>6. ASSUME route_snapshot PROVE BookInv'
    <2>1. /\ snapshot_stream # <<>> /\ snapshot_stream' = Tail(snapshot_stream)
          /\ message_queue' = Append(message_queue, Head(snapshot_stream))
          /\ UNCHANGED <<exchange_book, diff_stream, initial_snapshot, order_book,
                         saved_messages, past_diffs_window>>
      BY <1>6 DEF route_snapshot, external, book
    <2>2. snapshot_stream' \in Seq(Messages) /\ message_queue' \in Seq(Messages)
      BY <1>0, <2>1
    <2> QED BY <1>0, <2>1, <2>2 DEF BookInv, ExchangeOK, QueuesOK, Latest
  <1>7. ASSUME process_saved PROVE BookInv'
    <2>1. /\ saved_messages # <<>> /\ saved_messages' = Tail(saved_messages)
          /\ process(Head(saved_messages))
          /\ UNCHANGED <<exchange_book, diff_stream, snapshot_stream, initial_snapshot, message_queue>>
      BY <1>7 DEF process_saved, external
    <2>2. Head(saved_messages) \in Messages /\ saved_messages' \in Seq(Messages)
      BY <1>0, <2>1
    <2>3. order_book' \in GoodBooks /\ past_diffs_window' \in Seq(Messages)
      BY <2>1, <2>2, ProcessGood
    <2> QED BY <1>0, <2>1, <2>2, <2>3 DEF BookInv, ExchangeOK, QueuesOK, Latest
  <1>8. ASSUME process_queued PROVE BookInv'
    <2>1. /\ message_queue # <<>> /\ message_queue' = Tail(message_queue)
          /\ process(Head(message_queue))
          /\ UNCHANGED <<exchange_book, diff_stream, snapshot_stream, initial_snapshot, saved_messages>>
      BY <1>8 DEF process_queued, external
    <2>2. Head(message_queue) \in Messages /\ message_queue' \in Seq(Messages)
      BY <1>0, <2>1
    <2>3. order_book' \in GoodBooks /\ past_diffs_window' \in Seq(Messages)
      BY <2>1, <2>2, ProcessGood
    <2> QED BY <1>0, <2>1, <2>2, <2>3 DEF BookInv, ExchangeOK, QueuesOK, Latest
  <1>9. ASSUME UNCHANGED vars PROVE BookInv'
    BY <1>0, <1>9 DEF vars, BookInv, ExchangeOK, QueuesOK, Latest
  <1> QED BY <1>1, <1>2, <1>3, <1>4, <1>5, <1>6, <1>7, <1>8, <1>9 DEF Next

(* The books, queues and messages of every reachable state are good ones.   *)
THEOREM BookInvariant == Spec => []BookInv
  BY InitBook, BookStep, PTL DEF Spec

LEMMA GoodIsNotCrossed == BookInv => BookIsNotCrossed
  <1> SUFFICES ASSUME BookInv,
                      NEW bid \in order_book.bids, NEW ask \in order_book.asks
               PROVE  bid.price < ask.price
    BY DEF BookIsNotCrossed
  <1>1. ~Crossed(order_book) /\ order_book.bids \in BookSide /\ order_book.asks \in BookSide
    BY DEF BookInv, GoodBooks, Books
  <1>2. bid.price \in Nat /\ ask.price \in Nat
    BY <1>1 DEF BookSide, Entry
  <1> QED BY <1>1, <1>2 DEF Crossed

LEMMA GoodIsQuoted == BookInv => QuotesAreLive
  BY DEF BookInv, GoodBooks, Quoted, QuotesAreLive, can_get_price, get_price

(* No bid reaches an ask (truncateOverlapEntriesCentralised after each      *)
(* diff; a snapshot is of a market book), whatever is lost or replayed.     *)
THEOREM NeverCrossed == Spec => []BookIsNotCrossed
  BY BookInvariant, GoodIsNotCrossed, PTL

(* c_get_price returns the best level of the book whenever there is one.    *)
THEOREM QuotesStayLive == Spec => []QuotesAreLive
  BY BookInvariant, GoodIsQuoted, PTL

----------------------------------------------------------------------------
(* A diff newer than the book.                                              *)
LEMMA ApplyDiffsKeeps ==
    ASSUME NEW b \in Books, NEW bids \in BookSide, NEW asks \in BookSide, NEW u \in Nat,
           \A e \in bids \cup asks : e.update_id = u,
           \A bid \in bids, ask \in asks : bid.amount > 0 /\ ask.amount > 0 => bid.price < ask.price,
           \A e \in b.bids \cup b.asks : e.update_id < u
    PROVE  /\ {row \in bids : row.amount > 0} \subseteq apply_diffs(b, bids, asks, u).bids
           /\ {row \in asks : row.amount > 0} \subseteq apply_diffs(b, bids, asks, u).asks
  <1> DEFINE merged == [bids |-> merge(b.bids, bids), asks |-> merge(b.asks, asks)]
             sides == truncateOverlapEntries(merged)
             newBids == {row \in bids : row.amount > 0}
             newAsks == {row \in asks : row.amount > 0}
  <1>1. merged \in TwoSides
    BY MergeType DEF TwoSides, Books
  <1>2. Newest(newBids, newAsks, u)
    BY DEF Newest
  <1>3. Keeps(merged, newBids, newAsks, u)
    BY DEF Keeps, merge
  <1>4. Keeps(sides, newBids, newAsks, u)
    <2> HIDE DEF merged, newBids, newAsks
    <2> QED BY <1>1, <1>2, <1>3, TruncationKeepsNewest
  <1>5. apply_diffs(b, bids, asks, u).bids = sides.bids /\ apply_diffs(b, bids, asks, u).asks = sides.asks
    BY DEF apply_diffs, Books
  <1> HIDE DEF sides, newBids, newAsks
  <1>6. newBids \subseteq sides.bids /\ newAsks \subseteq sides.asks
    BY <1>4 DEF Keeps
  <1> QED BY <1>5, <1>6 DEF newBids, newAsks

NewerWins ==
    \A message \in {Diff(n) : n \in 2 .. Latest} :
       /\ past_diffs_window' # past_diffs_window
       /\ past_diffs_window'[Len(past_diffs_window')] = message
       /\ \A e \in order_book.bids \cup order_book.asks : e.update_id < message.update_id
       => \A side \in Sides :
             {row \in message[side] : row.amount > 0} \subseteq order_book'[side]

LEMMA ProcessDiff ==
    ASSUME BookInv, NEW message \in Messages, process(message),
           past_diffs_window' # past_diffs_window
    PROVE  /\ order_book' = apply_diffs(order_book, message.bids, message.asks, message.update_id)
           /\ past_diffs_window'[Len(past_diffs_window')] = message
  <1>1. past_diffs_window \in Seq(Messages)
    BY DEF BookInv, QueuesOK
  <1>2. /\ order_book' = apply_diffs(order_book, message.bids, message.asks, message.update_id)
        /\ past_diffs_window' = deque_append(past_diffs_window, PAST_DIFF_WINDOW_SIZE, message)
    BY DEF process
  <1> QED BY <1>1, <1>2, DequeAppend, LimitsAssumption

LEMMA NewerWinsStep == BookInv /\ Next => NewerWins
  <1> SUFFICES ASSUME BookInv, Next, NEW n \in 2 .. Latest,
                      past_diffs_window' # past_diffs_window,
                      past_diffs_window'[Len(past_diffs_window')] = Diff(n),
                      \A e \in order_book.bids \cup order_book.asks : e.update_id < Diff(n).update_id,
                      NEW side \in Sides
               PROVE  {row \in Diff(n)[side] : row.amount > 0} \subseteq order_book'[side]
    BY DEF NewerWins
  <1>1. PICK message \in Messages : process(message)
    <2>1. saved_messages \in Seq(Messages) /\ message_queue \in Seq(Messages)
      BY DEF BookInv, QueuesOK
    <2>2. \/ saved_messages # <<>> /\ process(Head(saved_messages))
          \/ message_queue # <<>> /\ process(Head(message_queue))
      BY DEF Next, exchange_changes, answer_initial_snapshot, answer_snapshot, init_order_book,
             route_diff, route_snapshot, process_saved, process_queued, book
    <2> QED BY <2>1, <2>2
  <1>2. /\ order_book' = apply_diffs(order_book, message.bids, message.asks, message.update_id)
        /\ message = Diff(n)
    BY <1>1, ProcessDiff
  <1>3. /\ order_book \in Books
        /\ exchange_book \in Seq(MarketBooks) /\ n \in 1 .. Latest /\ n \in Nat
    BY DEF BookInv, ExchangeOK, GoodBooks, Latest
  <1>4. Diff(n) \in Messages
    BY <1>3, DiffIsMessage
  <1>5. /\ Diff(n).update_id = n
        /\ Diff(n).bids = Changes(n, "bids") /\ Diff(n).asks = Changes(n, "asks")
        /\ Diff(n)["bids"] = Changes(n, "bids") /\ Diff(n)["asks"] = Changes(n, "asks")
    BY DEF Diff
  <1>6. Changes(n, "bids") \in BookSide /\ Changes(n, "asks") \in BookSide
    BY <1>4, <1>5 DEF Messages
  <1>7. \A e \in Changes(n, "bids") \cup Changes(n, "asks") : e.update_id = n
    BY DEF Changes, Rows
  <1>8. \A bid \in Changes(n, "bids"), ask \in Changes(n, "asks") :
           bid.amount > 0 /\ ask.amount > 0 => bid.price < ask.price
    BY <1>3, RowsDoNotReach DEF Changes, Rows, RowsOf, Latest
  <1>9. /\ {row \in Changes(n, "bids") : row.amount > 0} \subseteq order_book'.bids
        /\ {row \in Changes(n, "asks") : row.amount > 0} \subseteq order_book'.asks
    BY <1>2, <1>3, <1>5, <1>6, <1>7, <1>8, ApplyDiffsKeeps
  <1> QED BY <1>5, <1>9 DEF Sides

(* The entries a diff brings survive the truncation when it is newer than   *)
(* every entry of the book: what they overlap goes.                         *)
THEOREM NewerLevelsAreKept == Spec => NewerLevelsWin
  <1>1. BookInv /\ [Next]_vars => [NewerWins]_vars
    BY NewerWinsStep
  <1> QED BY <1>1, BookInvariant, PTL DEF Spec, NewerLevelsWin, NewerWins

----------------------------------------------------------------------------
(* What a local side knows of the exchange's books up to the update j:      *)
(* every entry is a level of the book of its id; a level that is quiet      *)
(* since j has been quiet since its entry's id, and is not missing.         *)
Quiet(books, side, p, j) ==
    \A m \in j .. Len(books) : books[m][side][p] = books[Len(books)][side][p]

IsLevel(e, books, side) ==
    /\ e.price \in Prices /\ e.update_id \in 1 .. Len(books) /\ e.amount > 0
    /\ books[e.update_id][side][e.price] = e.amount

SideFollows(es, books, side, j) ==
    /\ \A e \in es : /\ IsLevel(e, books, side)
                     /\ Quiet(books, side, e.price, j) => Quiet(books, side, e.price, e.update_id)
    /\ \A p \in Prices : Quiet(books, side, p, j) /\ books[Len(books)][side][p] > 0
                            => \E e \in es : e.price = p

BothFollow(s, books, j) == /\ SideFollows(s.bids, books, "bids", j)
                           /\ SideFollows(s.asks, books, "asks", j)

LEMMA LevelType ==
    ASSUME NEW books \in Seq(MarketBooks), NEW m \in 1 .. Len(books), NEW p \in Prices
    PROVE  /\ p \in Nat /\ books[m].bids[p] \in Nat /\ books[m].asks[p] \in Nat
           /\ \A q \in Prices : books[m].bids[p] > 0 /\ books[m].asks[q] > 0 => p < q
  <1>1. books[m] \in MarketBooks
    OBVIOUS
  <1>2. books[m].bids[p] \in Amounts /\ books[m].asks[p] \in Amounts
    BY <1>1 DEF MarketBooks
  <1> QED BY <1>1, <1>2, LevelsAssumption DEF MarketBooks

(* An entry that truncation drops is older than one of the other side that  *)
(* it reaches: its level was gone by then.                                  *)
LEMMA OverlappedAreStale ==
    ASSUME NEW books \in Seq(MarketBooks), NEW j \in 1 .. Len(books),
           NEW bid, NEW ask, bid.price >= ask.price,
           IsLevel(bid, books, "bids"), IsLevel(ask, books, "asks")
    PROVE  /\ bid.update_id <= ask.update_id => ~ Quiet(books, "bids", bid.price, bid.update_id)
           /\ ask.update_id <= bid.update_id => ~ Quiet(books, "asks", ask.price, ask.update_id)
  <1> DEFINE L == Len(books)
             i == bid.update_id
             k == ask.update_id
  <1>1. /\ L \in Nat /\ i \in 1 .. L /\ k \in 1 .. L
        /\ bid.price \in Prices /\ ask.price \in Prices
        /\ books[i].bids[bid.price] > 0 /\ books[k].asks[ask.price] > 0
    BY DEF IsLevel
  <1>2. bid.price \in Nat /\ ask.price \in Nat /\ ~(bid.price < ask.price)
    BY <1>1, LevelType
  <1> HIDE DEF L, i, k
  <1>3. ASSUME i <= k, Quiet(books, "bids", bid.price, i) PROVE FALSE
    <2>1. k \in i .. L /\ i \in i .. L
      BY <1>1, <1>3
    <2>2. books[k].bids[bid.price] = books[i].bids[bid.price]
      BY <1>3, <2>1 DEF Quiet, L
    <2> QED BY <1>1, <1>2, <2>2, LevelType DEF L
  <1>4. ASSUME k <= i, Quiet(books, "asks", ask.price, k) PROVE FALSE
    <2>1. i \in k .. L /\ k \in k .. L
      BY <1>1, <1>4
    <2>2. books[i].asks[ask.price] = books[k].asks[ask.price]
      BY <1>4, <2>1 DEF Quiet, L
    <2> QED BY <1>1, <1>2, <2>2, LevelType DEF L
  <1> QED BY <1>3, <1>4 DEF i, k

LEMMA DroppingStale ==
    ASSUME NEW es, NEW books, NEW side, NEW j, NEW e \in es,
           SideFollows(es, books, side, j), ~ Quiet(books, side, e.price, e.update_id)
    PROVE  SideFollows(es \ {e}, books, side, j)
  BY DEF SideFollows

LEMMA EraseOneFollows ==
    ASSUME NEW books \in Seq(MarketBooks), NEW j \in 1 .. Len(books),
           NEW s \in TwoSides, BothFollow(s, books, j)
    PROVE  BothFollow(eraseOne(s), books, j)
  <1>1. CASE ~Overlaps(s)
    BY <1>1 DEF eraseOne
  <1>2. CASE Overlaps(s)
    <2> DEFINE h == highest(s.bids)
               l == lowest(s.asks)
    <2>1. h \in s.bids /\ l \in s.asks /\ h.price >= l.price
      BY <1>2, HighestIsHighest, LowestIsLowest DEF Overlaps, TwoSides
    <2>2. h.update_id \in Nat /\ l.update_id \in Nat
      BY <2>1 DEF TwoSides, BookSide, Entry
    <2>3. IF h.update_id > l.update_id
            THEN eraseOne(s) = [s EXCEPT !.asks = @ \ {l}]
            ELSE eraseOne(s) = [s EXCEPT !.bids = @ \ {h}]
      BY <1>2 DEF eraseOne, bidIsNewer
    <2> HIDE DEF h, l
    <2>4. IF h.update_id > l.update_id
            THEN eraseOne(s).bids = s.bids /\ eraseOne(s).asks = s.asks \ {l}
            ELSE eraseOne(s).bids = s.bids \ {h} /\ eraseOne(s).asks = s.asks
      BY <2>3 DEF TwoSides
    <2>5. /\ h.update_id <= l.update_id => ~ Quiet(books, "bids", h.price, h.update_id)
          /\ l.update_id <= h.update_id => ~ Quiet(books, "asks", l.price, l.update_id)
      <3>1. IsLevel(h, books, "bids") /\ IsLevel(l, books, "asks")
        BY <2>1 DEF BothFollow, SideFollows
      <3> QED BY <2>1, <3>1, OverlappedAreStale
    <2>6. CASE h.update_id > l.update_id
      <3>1. ~ Quiet(books, "asks", l.price, l.update_id)
        BY <2>2, <2>5, <2>6
      <3> QED BY <2>1, <2>4, <2>6, <3>1, DroppingStale DEF BothFollow
    <2>7. CASE ~(h.update_id > l.update_id)
      <3>1. ~ Quiet(books, "bids", h.price, h.update_id)
        BY <2>2, <2>5, <2>7
      <3> QED BY <2>1, <2>4, <2>7, <3>1, DroppingStale DEF BothFollow
    <2> QED BY <2>6, <2>7
  <1> QED BY <1>1, <1>2

LEMMA TruncationFollows ==
    ASSUME NEW books \in Seq(MarketBooks), NEW j \in 1 .. Len(books),
           NEW s \in TwoSides, BothFollow(s, books, j)
    PROVE  BothFollow(truncateOverlapEntries(s), books, j)
  <1>1. PICK a \in [0 .. Size(s) -> TwoSides] :
              /\ a[0] = s /\ truncateOverlapEntries(s) = a[Size(s)]
              /\ \A n \in 1 .. Size(s) : a[n] = eraseOne(a[n - 1])
    BY TruncationRounds
  <1>2. Size(s) \in Nat
    BY SizeType
  <1> DEFINE B == {n \in 0 .. Size(s) : BothFollow(a[n], books, j)}
  <1>3. 0 \in B
    BY <1>1, <1>2
  <1>4. \A n \in 1 .. Size(s) : n - 1 \in B => n \in B
    BY <1>1, <1>2, EraseOneFollows
  <1> HIDE DEF B
  <1>5. \A n \in 0 .. Size(s) : n \in B
    BY <1>2, <1>3, <1>4, CountingUp
  <1> QED BY <1>1, <1>2, <1>5 DEF B

LEMMA FollowsEarlier ==
    ASSUME NEW books, NEW side, NEW es, NEW i \in Nat, NEW j \in Nat, i <= j,
           Len(books) \in Nat, SideFollows(es, books, side, j)
    PROVE  SideFollows(es, books, side, i)
  <1>1. \A p : Quiet(books, side, p, i) => Quiet(books, side, p, j)
    BY DEF Quiet
  <1> QED BY <1>1 DEF SideFollows

LEMMA AppendKeepsFirst ==
    ASSUME NEW books \in Seq(MarketBooks), NEW next \in MarketBooks
    PROVE  /\ Append(books, next) \in Seq(MarketBooks)
           /\ Len(Append(books, next)) = Len(books) + 1
           /\ \A m \in 1 .. Len(books) : Append(books, next)[m] = books[m]
           /\ Append(books, next)[Len(books) + 1] = next
  OBVIOUS

LEMMA FollowsOn ==
    ASSUME NEW books \in Seq(MarketBooks), NEW next \in MarketBooks, NEW side \in Sides,
           NEW j \in 1 .. Len(books), NEW es, SideFollows(es, books, side, j)
    PROVE  SideFollows(es, Append(books, next), side, j)
  <1> DEFINE more == Append(books, next)
             L == Len(books)
  <1>1. /\ L \in Nat /\ L >= 1 /\ Len(more) = L + 1
        /\ \A m \in 1 .. L : more[m] = books[m]
    BY AppendKeepsFirst
  <1> HIDE DEF more, L
  <1>2. ASSUME NEW p, NEW i \in 1 .. L
        PROVE  Quiet(more, side, p, i) <=>
                  Quiet(books, side, p, i) /\ more[L + 1][side][p] = books[L][side][p]
    <2>1. ASSUME Quiet(more, side, p, i)
          PROVE  Quiet(books, side, p, i) /\ more[L + 1][side][p] = books[L][side][p]
      <3>1. \A m \in i .. L + 1 : more[m][side][p] = more[L + 1][side][p]
        BY <1>1, <2>1 DEF Quiet
      <3>2. L \in i .. L + 1 /\ L \in 1 .. L
        BY <1>1
      <3>3. more[L + 1][side][p] = books[L][side][p]
        BY <1>1, <3>1, <3>2
      <3>4. ASSUME NEW m \in i .. L PROVE books[m][side][p] = books[L][side][p]
        <4>1. m \in i .. L + 1 /\ m \in 1 .. L
          BY <1>1
        <4> QED BY <1>1, <3>1, <3>3, <4>1
      <3> QED BY <3>3, <3>4 DEF Quiet, L
    <2>2. ASSUME Quiet(books, side, p, i), more[L + 1][side][p] = books[L][side][p]
          PROVE  Quiet(more, side, p, i)
      <3>1. ASSUME NEW m \in i .. L + 1 PROVE more[m][side][p] = more[L + 1][side][p]
        <4>1. CASE m = L + 1
          BY <4>1
        <4>2. CASE m # L + 1
          <5>1. m \in i .. L /\ m \in 1 .. L
            BY <1>1, <4>2
          <5>2. books[m][side][p] = books[L][side][p]
            BY <2>2, <5>1 DEF Quiet, L
          <5> QED BY <1>1, <2>2, <5>1, <5>2
        <4> QED BY <4>1, <4>2
      <3> QED BY <1>1, <3>1 DEF Quiet
    <2> QED BY <2>1, <2>2
  <1>3. ASSUME NEW e \in es
        PROVE  /\ IsLevel(e, more, side)
               /\ Quiet(more, side, e.price, j) => Quiet(more, side, e.price, e.update_id)
    <2>1. /\ IsLevel(e, books, side) /\ e.update_id \in 1 .. L
          /\ Quiet(books, side, e.price, j) => Quiet(books, side, e.price, e.update_id)
      BY DEF SideFollows, IsLevel, L
    <2>2. IsLevel(e, more, side)
      BY <1>1, <2>1 DEF IsLevel
    <2> QED BY <1>2, <2>1, <2>2 DEF L
  <1>4. ASSUME NEW p \in Prices, Quiet(more, side, p, j), more[L + 1][side][p] > 0
        PROVE  \E e \in es : e.price = p
    BY <1>2, <1>4 DEF SideFollows, L
  <1> QED BY <1>1, <1>3, <1>4 DEF SideFollows, more

LEMMA SnapshotFollows ==
    ASSUME NEW books, NEW side, NEW n \in 1 .. Len(books), Len(books) \in Nat
    PROVE  SideFollows(LevelsOf(books, n, side), books, side, n)
  <1> DEFINE es == LevelsOf(books, n, side)
             level(p) == [price |-> p, amount |-> books[n][side][p], update_id |-> n]
  <1>1. \A e \in es : \E p \in Prices : e = level(p) /\ books[n][side][p] > 0
    BY DEF LevelsOf, RowsOf
  <1>2. \A p \in Prices : books[n][side][p] > 0 => level(p) \in es
    BY DEF LevelsOf, RowsOf
  <1> HIDE DEF es
  <1>3. \A e \in es : IsLevel(e, books, side) /\ e.update_id = n
    BY <1>1 DEF IsLevel
  <1>4. ASSUME NEW p \in Prices, Quiet(books, side, p, n), books[Len(books)][side][p] > 0
        PROVE  \E e \in es : e.price = p
    <2>1. books[n][side][p] = books[Len(books)][side][p]
      BY <1>4 DEF Quiet
    <2>2. level(p) \in es /\ level(p).price = p
      BY <1>2, <1>4, <2>1
    <2> QED BY <2>2
  <1> QED BY <1>3, <1>4 DEF SideFollows, es

(* The rows of the next diff take a side one update further.                *)
LEMMA MergeFollows ==
    ASSUME NEW books \in Seq(MarketBooks), NEW side \in Sides, NEW n \in 2 .. Len(books),
           NEW es, SideFollows(es, books, side, n - 1)
    PROVE  SideFollows(merge(es, ChangesOf(books, n, side)), books, side, n)
  <1> DEFINE L == Len(books)
             rows == ChangesOf(books, n, side)
             merged == merge(es, rows)
             level(p) == [price |-> p, amount |-> books[n][side][p], update_id |-> n]
  <1>1. L \in Nat /\ n \in 1 .. L /\ n - 1 \in 1 .. L
    OBVIOUS
  <1>2. \A r \in rows : \E p \in Prices : r = level(p) /\ books[n][side][p] # books[n - 1][side][p]
    BY DEF ChangesOf, RowsOf
  <1>3. \A p \in Prices : books[n][side][p] # books[n - 1][side][p] => level(p) \in rows
    BY DEF ChangesOf, RowsOf
  <1>4. \A e : e \in merged <=> \/ e \in es /\ \A r \in rows : r.price # e.price
                                \/ e \in rows /\ e.amount > 0
    BY DEF merge
  <1> HIDE DEF rows, merged
  <1>5. ASSUME NEW p \in Prices, Quiet(books, side, p, n), \A r \in rows : r.price # p
        PROVE  Quiet(books, side, p, n - 1)
    <2>1. books[n][side][p] = books[n - 1][side][p]
      <3>1. level(p) \notin rows
        BY <1>5
      <3> QED BY <1>3, <3>1
    <2>2. ASSUME NEW m \in n - 1 .. L PROVE books[m][side][p] = books[L][side][p]
      <3>1. n \in n .. L /\ (m = n - 1 \/ m \in n .. L)
        BY <1>1
      <3> QED BY <1>5, <2>1, <3>1 DEF Quiet
    <2> QED BY <2>2 DEF Quiet
  <1>6. ASSUME NEW e \in merged
        PROVE  /\ IsLevel(e, books, side)
               /\ Quiet(books, side, e.price, n) => Quiet(books, side, e.price, e.update_id)
    <2>1. CASE e \in rows /\ e.amount > 0
      <3>1. PICK p \in Prices : e = level(p)
        BY <1>2, <2>1
      <3> QED BY <1>1, <2>1, <3>1 DEF IsLevel
    <2>2. CASE e \in es /\ \A r \in rows : r.price # e.price
      <3>1. /\ IsLevel(e, books, side) /\ e.price \in Prices
            /\ Quiet(books, side, e.price, n - 1) => Quiet(books, side, e.price, e.update_id)
        BY <2>2 DEF SideFollows, IsLevel
      <3> QED BY <1>5, <2>2, <3>1
    <2> QED BY <1>4, <2>1, <2>2
  <1>7. ASSUME NEW p \in Prices, Quiet(books, side, p, n), books[L][side][p] > 0
        PROVE  \E e \in merged : e.price = p
    <2>1. books[n][side][p] = books[L][side][p]
      BY <1>1, <1>7 DEF Quiet
    <2>2. CASE \A r \in rows : r.price # p
      <3>1. PICK e \in es : e.price = p
        BY <1>5, <1>7, <2>2 DEF SideFollows
      <3> QED BY <1>4, <2>2, <3>1
    <2>3. CASE \E r \in rows : r.price = p
      <3>1. PICK r \in rows : r.price = p
        BY <2>3
      <3>2. r = level(p)
        BY <1>2, <3>1
      <3>3. r.amount > 0
        BY <1>7, <2>1, <3>2
      <3> QED BY <1>4, <3>1, <3>3
    <2> QED BY <2>2, <2>3
  <1> QED BY <1>6, <1>7 DEF SideFollows, merged, rows

LEMMA ApplyDiffFollows ==
    ASSUME NEW books \in Seq(MarketBooks), NEW n \in 2 .. Len(books),
           NEW b \in Books, BothFollow(b, books, n - 1),
           NEW m, m = DiffOf(books, n)
    PROVE  LET after == apply_diffs(b, m.bids, m.asks, m.update_id)
           IN /\ BothFollow(after, books, n)
              /\ after.last_diff_uid = n /\ after.snapshot_uid = b.snapshot_uid
  <1> DEFINE bids == ChangesOf(books, n, "bids")
             asks == ChangesOf(books, n, "asks")
             merged == [bids |-> merge(b.bids, bids), asks |-> merge(b.asks, asks)]
             sides == truncateOverlapEntries(merged)
             after == apply_diffs(b, bids, asks, n)
  <1>1. m.bids = bids /\ m.asks = asks /\ m.update_id = n
    BY DEF DiffOf
  <1>2. bids \in BookSide /\ asks \in BookSide
    <2>1. n \in 1 .. Len(books)
      OBVIOUS
    <2> QED BY <2>1, RowsAreASide DEF ChangesOf, Sides
  <1>3. BothFollow(merged, books, n)
    <2>1. SideFollows(b.bids, books, "bids", n - 1) /\ SideFollows(b.asks, books, "asks", n - 1)
      BY DEF BothFollow
    <2>2. SideFollows(merge(b.bids, bids), books, "bids", n)
      BY <2>1, MergeFollows DEF Sides
    <2>3. SideFollows(merge(b.asks, asks), books, "asks", n)
      BY <2>1, MergeFollows DEF Sides
    <2> HIDE DEF bids, asks
    <2> QED BY <2>2, <2>3 DEF BothFollow
  <1> HIDE DEF bids, asks
  <1>4. merged \in TwoSides
    BY <1>2, MergeType DEF TwoSides, Books
  <1>5. /\ after.bids = sides.bids /\ after.asks = sides.asks
        /\ after.last_diff_uid = n /\ after.snapshot_uid = b.snapshot_uid
    BY DEF apply_diffs, Books
  <1> HIDE DEF merged, after
  <1>6. BothFollow(sides, books, n)
    <2>1. n \in 1 .. Len(books)
      OBVIOUS
    <2> QED BY <1>3, <1>4, <2>1, TruncationFollows
  <1> HIDE DEF sides
  <1>7. BothFollow(after, books, n)
    BY <1>5, <1>6 DEF BothFollow
  <1> QED BY <1>1, <1>5, <1>7 DEF after

LEMMA ApplySnapshotFollows ==
    ASSUME NEW books \in Seq(MarketBooks), NEW n \in 1 .. Len(books), NEW b \in Books,
           NEW m, m = SnapshotOf(books, n)
    PROVE  LET after == apply_snapshot(b, m.bids, m.asks, m.update_id)
           IN /\ BothFollow(after, books, n)
              /\ after.last_diff_uid = b.last_diff_uid /\ after.snapshot_uid = n
  <1> DEFINE bids == LevelsOf(books, n, "bids")
             asks == LevelsOf(books, n, "asks")
             after == apply_snapshot(b, bids, asks, n)
  <1>1. m.bids = bids /\ m.asks = asks /\ m.update_id = n
    BY DEF SnapshotOf
  <1>2. SideFollows(bids, books, "bids", n) /\ SideFollows(asks, books, "asks", n)
    BY SnapshotFollows
  <1> HIDE DEF bids, asks
  <1>3. /\ after.bids = bids /\ after.asks = asks
        /\ after.last_diff_uid = b.last_diff_uid /\ after.snapshot_uid = n
    BY DEF apply_snapshot, Books
  <1> HIDE DEF after
  <1>4. BothFollow(after, books, n)
    BY <1>2, <1>3 DEF BothFollow
  <1> QED BY <1>1, <1>3, <1>4 DEF after

DiffsFrom(books, s, n) == \A i \in 1 .. Len(s) : s[i] = DiffOf(books, n + i)

(* A window of diffs that begins no later than the snapshot, replayed over  *)
(* it, leads to where the window ends.                                      *)
LEMMA RestoreFollows ==
    ASSUME NEW books \in Seq(MarketBooks), NEW d \in 1 .. Len(books), NEW b \in Books,
           NEW diffs \in Seq(Messages), Len(diffs) <= d - 1,
           DiffsFrom(books, diffs, d - Len(diffs)),
           NEW n \in 1 .. Len(books), d - Len(diffs) <= n,
           NEW snapshot \in Messages, snapshot = SnapshotOf(books, n)
    PROVE  LET after == restore_from_snapshot_and_diffs(b, snapshot, diffs)
           IN /\ BothFollow(after, books, d)
              /\ after.last_diff_uid = IF Len(diffs) = 0 THEN b.last_diff_uid ELSE d
              /\ after.snapshot_uid = n
  <1> DEFINE N == Len(diffs)
             after == restore_from_snapshot_and_diffs(b, snapshot, diffs)
  <1>1. snapshot.type = "SNAPSHOT"
    BY DEF SnapshotOf
  <1>2. PICK a \in [0 .. N -> GoodBooks] :
              /\ a[0] = apply_snapshot(b, snapshot.bids, snapshot.asks, snapshot.update_id)
              /\ \A i \in 1 .. N :
                    a[i] = apply_diffs(a[i - 1], diffs[i].bids, diffs[i].asks, diffs[i].update_id)
              /\ after = a[N]
    BY <1>1, RestoreRounds
  <1>3. N \in Nat /\ Len(books) \in Nat
    OBVIOUS
  <1> HIDE DEF after
  <1> DEFINE Done(i) == /\ BothFollow(a[i], books, d - N + i)
                        /\ a[i].last_diff_uid = IF i = 0 THEN b.last_diff_uid ELSE d - N + i
                        /\ a[i].snapshot_uid = n
             B == {i \in 0 .. N : Done(i)}
  <1>4. Done(0)
    <2>1. /\ BothFollow(a[0], books, n)
          /\ a[0].last_diff_uid = b.last_diff_uid /\ a[0].snapshot_uid = n
      BY <1>2, ApplySnapshotFollows
    <2>2. d - N + 0 \in Nat /\ d - N + 0 <= n /\ n \in Nat
      BY <1>3
    <2>3. BothFollow(a[0], books, d - N + 0)
      BY <1>3, <2>1, <2>2, FollowsEarlier DEF BothFollow
    <2> QED BY <2>1, <2>3
  <1>5. ASSUME NEW i \in 1 .. N, Done(i - 1) PROVE Done(i)
    <2> DEFINE k == d - N + i
    <2>1. k \in 2 .. Len(books) /\ d - N + (i - 1) = k - 1 /\ i - 1 \in 0 .. N
      BY <1>3
    <2>2. a[i - 1] \in Books
      BY <1>2, <2>1 DEF GoodBooks
    <2>3. diffs[i] = DiffOf(books, k)
      BY DEF DiffsFrom
    <2>4. BothFollow(a[i - 1], books, k - 1) /\ a[i - 1].snapshot_uid = n
      BY <1>5, <2>1
    <2> HIDE DEF k
    <2>5. /\ BothFollow(a[i], books, k)
          /\ a[i].last_diff_uid = k /\ a[i].snapshot_uid = a[i - 1].snapshot_uid
      <3>1. a[i] = apply_diffs(a[i - 1], diffs[i].bids, diffs[i].asks, diffs[i].update_id)
        BY <1>2
      <3> HIDE DEF N
      <3> QED BY <2>1, <2>2, <2>3, <2>4, <3>1, ApplyDiffFollows
    <2> QED BY <2>4, <2>5 DEF k
  <1>6. 0 \in B /\ \A i \in 1 .. N : i - 1 \in B => i \in B
    <2> HIDE DEF Done
    <2> QED BY <1>3, <1>4, <1>5
  <1> HIDE DEF B, Done
  <1>7. \A i \in 0 .. N : i \in B
    <2> HIDE DEF N
    <2> QED BY <1>3, <1>6, CountingUp
  <1>8. N \in B
    BY <1>3, <1>7
  <1>9. /\ BothFollow(a[N], books, d - N + N)
        /\ a[N].last_diff_uid = IF N = 0 THEN b.last_diff_uid ELSE d - N + N
        /\ a[N].snapshot_uid = n
    BY <1>8 DEF B, Done
  <1>10. d - N + N = d
    BY <1>3
  <1> QED BY <1>2, <1>9, <1>10 DEF after

(* Runs of diffs.                                                           *)
LEMMA MessagesStay ==
    ASSUME NEW books \in Seq(MarketBooks), NEW next \in MarketBooks
    PROVE  /\ \A n \in 2 .. Len(books) : DiffOf(Append(books, next), n) = DiffOf(books, n)
           /\ \A n \in 1 .. Len(books) : SnapshotOf(Append(books, next), n) = SnapshotOf(books, n)
  <1> DEFINE more == Append(books, next)
  <1>1. Len(books) \in Nat /\ \A m \in 1 .. Len(books) : more[m] = books[m]
    BY AppendKeepsFirst
  <1> HIDE DEF more
  <1>2. ASSUME NEW n \in 2 .. Len(books) PROVE DiffOf(more, n) = DiffOf(books, n)
    <2>1. more[n] = books[n] /\ more[n - 1] = books[n - 1]
      BY <1>1
    <2> QED BY <2>1 DEF DiffOf, ChangesOf, RowsOf
  <1>3. ASSUME NEW n \in 1 .. Len(books) PROVE SnapshotOf(more, n) = SnapshotOf(books, n)
    BY <1>1 DEF SnapshotOf, LevelsOf, RowsOf
  <1> QED BY <1>2, <1>3 DEF more

LEMMA DiffsStay ==
    ASSUME NEW books \in Seq(MarketBooks), NEW next \in MarketBooks, NEW S, NEW s \in Seq(S),
           NEW n \in Nat \ {0}, n + Len(s) <= Len(books), DiffsFrom(books, s, n)
    PROVE  DiffsFrom(Append(books, next), s, n)
  <1> SUFFICES ASSUME NEW i \in 1 .. Len(s) PROVE s[i] = DiffOf(Append(books, next), n + i)
    BY DEF DiffsFrom
  <1>1. n + i \in 2 .. Len(books)
    OBVIOUS
  <1> QED BY <1>1, MessagesStay DEF DiffsFrom

LEMMA DiffsAppend ==
    ASSUME NEW books, NEW S, NEW s \in Seq(S), NEW n \in Nat, NEW m \in S,
           DiffsFrom(books, s, n), m = DiffOf(books, n + Len(s) + 1)
    PROVE  DiffsFrom(books, Append(s, m), n)
  <1> SUFFICES ASSUME NEW i \in 1 .. Len(Append(s, m))
               PROVE  Append(s, m)[i] = DiffOf(books, n + i)
    BY DEF DiffsFrom
  <1>1. Len(s) \in Nat /\ Len(Append(s, m)) = Len(s) + 1
    OBVIOUS
  <1>2. CASE i = Len(s) + 1
    <2>1. Append(s, m)[i] = m /\ n + i = n + Len(s) + 1
      BY <1>1, <1>2
    <2> QED BY <2>1
  <1>3. CASE i # Len(s) + 1
    <2>1. i \in 1 .. Len(s) /\ Append(s, m)[i] = s[i]
      BY <1>1, <1>3
    <2> QED BY <2>1 DEF DiffsFrom
  <1> QED BY <1>2, <1>3

LEMMA DiffsTail ==
    ASSUME NEW books, NEW S, NEW s \in Seq(S), s # <<>>, NEW n \in Nat, DiffsFrom(books, s, n)
    PROVE  /\ Head(s) = DiffOf(books, n + 1) /\ Tail(s) \in Seq(S)
           /\ Len(s) >= 1 /\ Len(Tail(s)) = Len(s) - 1
           /\ DiffsFrom(books, Tail(s), n + 1)
  <1>1. /\ Len(s) \in Nat /\ Len(s) >= 1 /\ Head(s) = s[1] /\ Tail(s) \in Seq(S)
        /\ Len(Tail(s)) = Len(s) - 1 /\ \A i \in 1 .. Len(s) - 1 : Tail(s)[i] = s[i + 1]
    OBVIOUS
  <1>2. s[1] = DiffOf(books, n + 1)
    BY <1>1 DEF DiffsFrom
  <1>3. ASSUME NEW i \in 1 .. Len(s) - 1 PROVE Tail(s)[i] = DiffOf(books, n + 1 + i)
    <2>1. i + 1 \in 1 .. Len(s) /\ n + (i + 1) = n + 1 + i
      BY <1>1
    <2> QED BY <1>1, <2>1 DEF DiffsFrom
  <1> QED BY <1>1, <1>2, <1>3 DEF DiffsFrom

(* The window holds the last diffs applied, all of them or as many as fit.  *)
WindowFollows(books, window, d) ==
    /\ DiffsFrom(books, window, d - Len(window))
    /\ Len(window) <= d - 1 /\ Len(window) <= PAST_DIFF_WINDOW_SIZE
    /\ Len(window) = PAST_DIFF_WINDOW_SIZE \/ Len(window) = d - 1

LEMMA WindowGrows ==
    ASSUME NEW books, NEW window \in Seq(Messages), NEW d \in Nat \ {0},
           WindowFollows(books, window, d), NEW m \in Messages, m = DiffOf(books, d + 1)
    PROVE  WindowFollows(books, deque_append(window, PAST_DIFF_WINDOW_SIZE, m), d + 1)
  <1> DEFINE w == Len(window)
             W == PAST_DIFF_WINDOW_SIZE
             longer == Append(window, m)
  <1>1. w \in Nat /\ W \in Nat \ {0} /\ longer \in Seq(Messages) /\ Len(longer) = w + 1
    BY LimitsAssumption
  <1>2. /\ DiffsFrom(books, window, d - w) /\ w <= d - 1 /\ w <= W /\ d - w \in Nat
        /\ w = W \/ w = d - 1
    BY <1>1 DEF WindowFollows
  <1>3. DiffsFrom(books, longer, d - w)
    <2>1. d - w + w + 1 = d + 1
      BY <1>1
    <2> QED BY <1>2, <2>1, DiffsAppend
  <1> HIDE DEF longer
  <1>4. CASE Len(longer) > W
    <2>1. deque_append(window, W, m) = Tail(longer)
      BY <1>4 DEF deque_append, longer
    <2>2. PICK k \in Nat : k = d - w
      BY <1>2
    <2>3. longer # <<>> /\ DiffsFrom(books, longer, k)
      BY <1>1, <1>3, <2>2
    <2>4. Len(Tail(longer)) = Len(longer) - 1 /\ DiffsFrom(books, Tail(longer), k + 1)
      BY <1>1, <2>3, DiffsTail
    <2>5. /\ w = W /\ k + 1 = d + 1 - w /\ w <= d + 1 - 1 /\ Len(longer) - 1 = w
      <3> HIDE DEF w, W
      <3> QED BY <1>1, <1>2, <1>4, <2>2
    <2> DEFINE t == Tail(longer)
    <2>6. Len(t) = w /\ DiffsFrom(books, t, d + 1 - w)
      BY <2>4, <2>5
    <2> HIDE DEF t, w, W
    <2>7. WindowFollows(books, t, d + 1)
      BY <1>2, <2>5, <2>6 DEF WindowFollows, W
    <2> QED BY <2>1, <2>7 DEF t, W
  <1>5. CASE ~(Len(longer) > W)
    <2>1. deque_append(window, W, m) = longer
      BY <1>5 DEF deque_append, longer
    <2>2. w = d - 1 /\ w + 1 <= W /\ d + 1 - (w + 1) = d - w /\ w + 1 = d + 1 - 1
      BY <1>1, <1>2, <1>5
    <2> HIDE DEF w, W
    <2>3. w + 1 <= d + 1 - 1
      BY <1>1, <2>2
    <2> QED BY <1>1, <1>3, <2>1, <2>2, <2>3 DEF WindowFollows, W
  <1> QED BY <1>4, <1>5

(* A queue of the diffs from first to last, in order, and of snapshots.     *)
IsDiff(m, books, first, last) == m.update_id \in first .. last /\ m = DiffOf(books, m.update_id)
IsSnapshot(m, books, last)    == m.update_id \in 1 .. last /\ m = SnapshotOf(books, m.update_id)

QueueFollows(books, q, first, last) ==
    /\ \A i \in 1 .. Len(q) : IsDiff(q[i], books, first, last) \/ IsSnapshot(q[i], books, last)
    /\ \A i, k \in 1 .. Len(q) : /\ i < k
                                 /\ IsDiff(q[i], books, first, last) /\ IsDiff(q[k], books, first, last)
                                 => q[i].update_id < q[k].update_id
    /\ \A n \in first .. last : \E i \in 1 .. Len(q) : q[i] = DiffOf(books, n)

LEMMA MessageKinds ==
    ASSUME NEW books, NEW n, NEW m
    PROVE  /\ DiffOf(books, n).type = "DIFF" /\ DiffOf(books, n).update_id = n
           /\ SnapshotOf(books, n).type = "SNAPSHOT" /\ SnapshotOf(books, n).update_id = n
  BY DEF DiffOf, SnapshotOf

LEMMA QueueStays ==
    ASSUME NEW books \in Seq(MarketBooks), NEW next \in MarketBooks, NEW q,
           NEW first \in Nat, first >= 2, NEW last \in Nat, last <= Len(books),
           QueueFollows(books, q, first, last)
    PROVE  QueueFollows(Append(books, next), q, first, last)
  <1>1. Len(books) \in Nat
    OBVIOUS
  <1>2. \A m : IsDiff(m, books, first, last) <=> IsDiff(m, Append(books, next), first, last)
    BY <1>1, MessagesStay DEF IsDiff
  <1>3. \A m : IsSnapshot(m, books, last) <=> IsSnapshot(m, Append(books, next), last)
    BY <1>1, MessagesStay DEF IsSnapshot
  <1>4. \A n \in first .. last : DiffOf(Append(books, next), n) = DiffOf(books, n)
    BY <1>1, MessagesStay
  <1> QED BY <1>2, <1>3, <1>4 DEF QueueFollows

LEMMA QueueDiff ==
    ASSUME NEW books, NEW S, NEW q \in Seq(S), NEW first \in Nat, NEW last \in Nat, first <= last + 1,
           QueueFollows(books, q, first, last), NEW m \in S, m = DiffOf(books, last + 1)
    PROVE  QueueFollows(books, Append(q, m), first, last + 1)
  <1> DEFINE N == Len(q)
             r == Append(q, m)
  <1>1. /\ N \in Nat /\ Len(r) = N + 1 /\ r[N + 1] = m
        /\ \A i \in 1 .. N : r[i] = q[i]
    OBVIOUS
  <1> HIDE DEF N, r
  <1>2. m.update_id = last + 1 /\ IsDiff(m, books, first, last + 1) /\ ~IsSnapshot(m, books, last + 1)
    BY MessageKinds DEF IsDiff, IsSnapshot
  <1>3. ASSUME NEW i \in 1 .. N
        PROVE  /\ IsDiff(q[i], books, first, last) \/ IsSnapshot(q[i], books, last)
               /\ IsDiff(q[i], books, first, last + 1) => IsDiff(q[i], books, first, last)
               /\ IsDiff(q[i], books, first, last) => IsDiff(q[i], books, first, last + 1)
               /\ IsSnapshot(q[i], books, last) => IsSnapshot(q[i], books, last + 1)
    <2>1. IsDiff(q[i], books, first, last) \/ IsSnapshot(q[i], books, last)
      BY DEF QueueFollows, N
    <2>2. ~(IsDiff(q[i], books, first, last + 1) /\ IsSnapshot(q[i], books, last))
      BY MessageKinds DEF IsDiff, IsSnapshot
    <2> QED BY <2>1, <2>2 DEF IsDiff, IsSnapshot
  <1>4. \A i \in 1 .. N + 1 : IsDiff(r[i], books, first, last + 1) \/ IsSnapshot(r[i], books, last + 1)
    <2> SUFFICES ASSUME NEW i \in 1 .. N + 1
                 PROVE  IsDiff(r[i], books, first, last + 1) \/ IsSnapshot(r[i], books, last + 1)
      OBVIOUS
    <2>1. i = N + 1 \/ i \in 1 .. N
      BY <1>1
    <2> QED BY <1>1, <1>2, <1>3, <2>1
  <1>5. ASSUME NEW i \in 1 .. N + 1, NEW k \in 1 .. N + 1, i < k,
               IsDiff(r[i], books, first, last + 1), IsDiff(r[k], books, first, last + 1)
        PROVE  r[i].update_id < r[k].update_id
    <2>1. i \in 1 .. N /\ IsDiff(q[i], books, first, last) /\ r[i] = q[i]
      <3>1. i \in 1 .. N
        BY <1>1, <1>5
      <3> QED BY <1>1, <1>3, <1>5, <3>1
    <2>2. CASE k = N + 1
      BY <1>1, <1>2, <2>1, <2>2 DEF IsDiff
    <2>3. CASE k \in 1 .. N
      <3>1. IsDiff(q[k], books, first, last) /\ r[k] = q[k]
        BY <1>1, <1>3, <1>5, <2>3
      <3> QED BY <1>5, <2>1, <2>3, <3>1 DEF QueueFollows, N
    <2> QED BY <1>1, <2>2, <2>3
  <1>6. ASSUME NEW n \in first .. last + 1 PROVE \E i \in 1 .. N + 1 : r[i] = DiffOf(books, n)
    <2>1. CASE n = last + 1
      BY <1>1, <2>1
    <2>2. CASE n \in first .. last
      <3>1. PICK i \in 1 .. N : q[i] = DiffOf(books, n)
        BY <2>2 DEF QueueFollows, N
      <3>2. i \in 1 .. N + 1 /\ r[i] = q[i]
        BY <1>1
      <3> QED BY <3>1, <3>2
    <2> QED BY <2>1, <2>2
  <1> QED BY <1>1, <1>4, <1>5, <1>6 DEF QueueFollows, r

LEMMA QueueSnapshot ==
    ASSUME NEW books, NEW S, NEW q \in Seq(S), NEW first \in Nat, NEW last \in Nat,
           QueueFollows(books, q, first, last), NEW m \in S, IsSnapshot(m, books, last)
    PROVE  QueueFollows(books, Append(q, m), first, last)
  <1> DEFINE N == Len(q)
             r == Append(q, m)
  <1>1. /\ N \in Nat /\ Len(r) = N + 1 /\ r[N + 1] = m
        /\ \A i \in 1 .. N : r[i] = q[i]
    OBVIOUS
  <1> HIDE DEF N, r
  <1>2. ~IsDiff(m, books, first, last)
    BY MessageKinds DEF IsDiff, IsSnapshot
  <1>3. \A i \in 1 .. N + 1 : i = N + 1 \/ i \in 1 .. N
    BY <1>1
  <1>4. \A i \in 1 .. N + 1 : IsDiff(r[i], books, first, last) \/ IsSnapshot(r[i], books, last)
    BY <1>1, <1>3 DEF QueueFollows, N
  <1>5. ASSUME NEW i \in 1 .. N + 1, NEW k \in 1 .. N + 1, i < k,
               IsDiff(r[i], books, first, last), IsDiff(r[k], books, first, last)
        PROVE  r[i].update_id < r[k].update_id
    <2>1. i \in 1 .. N /\ k \in 1 .. N
      BY <1>1, <1>2, <1>3, <1>5
    <2> QED BY <1>1, <1>5, <2>1 DEF QueueFollows, N
  <1>6. ASSUME NEW n \in first .. last PROVE \E i \in 1 .. N + 1 : r[i] = DiffOf(books, n)
    <2>1. PICK i \in 1 .. N : q[i] = DiffOf(books, n)
      BY DEF QueueFollows, N
    <2>2. i \in 1 .. N + 1 /\ r[i] = q[i]
      BY <1>1
    <2> QED BY <2>1, <2>2
  <1> QED BY <1>1, <1>4, <1>5, <1>6 DEF QueueFollows, r

LEMMA QueueHead ==
    ASSUME NEW books, NEW S, NEW q \in Seq(S), NEW first \in Nat, NEW last \in Nat,
           QueueFollows(books, q, first, last), q # <<>>
    PROVE  /\ Head(q).type = "DIFF" =>
                 /\ Head(q) = DiffOf(books, first) /\ first <= last
                 /\ QueueFollows(books, Tail(q), first + 1, last)
           /\ Head(q).type # "DIFF" =>
                 /\ IsSnapshot(Head(q), books, last)
                 /\ QueueFollows(books, Tail(q), first, last)
  <1> DEFINE N == Len(q)
             h == Head(q)
             t == Tail(q)
  <1>1. /\ N \in Nat /\ N >= 1 /\ h = q[1] /\ Len(t) = N - 1
        /\ \A i \in 1 .. N - 1 : t[i] = q[i + 1]
    OBVIOUS
  <1> HIDE DEF N, h, t
  <1>2. \A i \in 1 .. N - 1 : i + 1 \in 1 .. N /\ t[i] = q[i + 1]
    BY <1>1
  <1>3. \A i \in 2 .. N : i - 1 \in 1 .. N - 1 /\ t[i - 1] = q[i]
    BY <1>1
  <1>4. 1 \in 1 .. N
    BY <1>1
  <1>5. IsDiff(h, books, first, last) \/ IsSnapshot(h, books, last)
    BY <1>1, <1>4 DEF QueueFollows, N
  <1>6. /\ IsDiff(h, books, first, last) => h.type = "DIFF"
        /\ IsSnapshot(h, books, last) => h.type # "DIFF"
    BY MessageKinds DEF IsDiff, IsSnapshot
  <1>7. \A n : IsDiff(DiffOf(books, n), books, first, last) <=> n \in first .. last
    BY MessageKinds DEF IsDiff
  <1>8. ASSUME h.type = "DIFF"
        PROVE  h = DiffOf(books, first) /\ first <= last /\ QueueFollows(books, t, first + 1, last)
    <2>1. IsDiff(h, books, first, last)
      BY <1>5, <1>6, <1>8
    <2>2. h.update_id \in first .. last /\ first <= last /\ first \in first .. last
      BY <2>1 DEF IsDiff
    <2>3. \A i \in 2 .. N : IsDiff(q[i], books, first, last) => h.update_id < q[i].update_id
      BY <1>1, <2>1 DEF QueueFollows, N
    <2>4. h.update_id = first
      <3>1. PICK i \in 1 .. N : q[i] = DiffOf(books, first)
        BY <2>2 DEF QueueFollows, N
      <3>2. IsDiff(q[i], books, first, last) /\ q[i].update_id = first
        BY <1>7, <2>2, <3>1, MessageKinds
      <3>3. CASE i = 1
        BY <1>1, <3>2, <3>3
      <3>4. CASE i # 1
        <4>1. i \in 2 .. N
          BY <1>1, <3>4
        <4>2. h.update_id < first
          BY <2>3, <3>2, <4>1
        <4> QED BY <2>2, <4>2
      <3> QED BY <3>3, <3>4
    <2>5. h = DiffOf(books, first)
      BY <2>1, <2>4 DEF IsDiff
    <2>6. ASSUME NEW i \in 1 .. N - 1
          PROVE  /\ IsDiff(t[i], books, first + 1, last) \/ IsSnapshot(t[i], books, last)
                 /\ IsDiff(t[i], books, first + 1, last) => IsDiff(t[i], books, first, last)
      <3>1. IsDiff(t[i], books, first, last) \/ IsSnapshot(t[i], books, last)
        BY <1>2 DEF QueueFollows, N
      <3>2. ASSUME IsDiff(t[i], books, first, last) PROVE t[i].update_id \in first + 1 .. last
        <4>1. i + 1 \in 2 .. N /\ t[i] = q[i + 1]
          BY <1>1
        <4>2. first < t[i].update_id
          BY <2>3, <2>4, <3>2, <4>1
        <4> QED BY <3>2, <4>2 DEF IsDiff
      <3> QED BY <3>1, <3>2 DEF IsDiff
    <2>7. ASSUME NEW i \in 1 .. N - 1, NEW k \in 1 .. N - 1, i < k,
                 IsDiff(t[i], books, first + 1, last), IsDiff(t[k], books, first + 1, last)
          PROVE  t[i].update_id < t[k].update_id
      <3>1. /\ i + 1 \in 1 .. N /\ k + 1 \in 1 .. N /\ i + 1 < k + 1
            /\ t[i] = q[i + 1] /\ t[k] = q[k + 1]
        BY <1>1, <1>2, <2>7
      <3>2. IsDiff(q[i + 1], books, first, last) /\ IsDiff(q[k + 1], books, first, last)
        BY <2>6, <2>7, <3>1
      <3> QED BY <3>1, <3>2 DEF QueueFollows, N
    <2>8. ASSUME NEW n \in first + 1 .. last PROVE \E i \in 1 .. N - 1 : t[i] = DiffOf(books, n)
      <3>1. n \in first .. last /\ n # first
        OBVIOUS
      <3>2. PICK i \in 1 .. N : q[i] = DiffOf(books, n)
        BY <3>1 DEF QueueFollows, N
      <3>3. i # 1
        BY <1>1, <2>4, <3>1, <3>2, MessageKinds
      <3>4. i \in 2 .. N
        BY <1>1, <3>3
      <3> QED BY <1>3, <3>2, <3>4
    <2> QED BY <1>1, <2>2, <2>5, <2>6, <2>7, <2>8 DEF QueueFollows
  <1>9. ASSUME h.type # "DIFF"
        PROVE  IsSnapshot(h, books, last) /\ QueueFollows(books, t, first, last)
    <2>1. IsSnapshot(h, books, last) /\ ~IsDiff(h, books, first, last)
      BY <1>5, <1>6, <1>9
    <2>2. \A i \in 1 .. N - 1 : IsDiff(t[i], books, first, last) \/ IsSnapshot(t[i], books, last)
      BY <1>2 DEF QueueFollows, N
    <2>3. ASSUME NEW i \in 1 .. N - 1, NEW k \in 1 .. N - 1, i < k,
                 IsDiff(t[i], books, first, last), IsDiff(t[k], books, first, last)
          PROVE  t[i].update_id < t[k].update_id
      <3>1. /\ i + 1 \in 1 .. N /\ k + 1 \in 1 .. N /\ i + 1 < k + 1
            /\ t[i] = q[i + 1] /\ t[k] = q[k + 1]
        BY <1>1, <1>2, <2>3
      <3> QED BY <2>3, <3>1 DEF QueueFollows, N
    <2>4. ASSUME NEW n \in first .. last PROVE \E i \in 1 .. N - 1 : t[i] = DiffOf(books, n)
      <3>1. PICK i \in 1 .. N : q[i] = DiffOf(books, n)
        BY DEF QueueFollows, N
      <3>2. i # 1
        BY <1>1, <1>7, <2>1, <3>1
      <3>3. i \in 2 .. N
        BY <1>1, <3>2
      <3> QED BY <1>3, <3>1, <3>3
    <2> QED BY <1>1, <2>1, <2>2, <2>3, <2>4 DEF QueueFollows
  <1> QED BY <1>8, <1>9 DEF h, t

----------------------------------------------------------------------------
(* While nothing was missed: which update each message and each part of the *)
(* book's state stands at.  Applied is the last diff in the local book,     *)
(* Routed the last one that left the stream.                                *)
Applied(b) == IF b.last_diff_uid = 0 THEN 1 ELSE b.last_diff_uid
Routed(books, stream) == Len(books) - Len(stream)

InStep(books, stream, saved, queue, window, b, tracked) ==
    /\ Applied(b) + Len(saved) <= Routed(books, stream)
    /\ DiffsFrom(books, stream, Routed(books, stream))
    /\ DiffsFrom(books, saved, Applied(b)) /\ Len(saved) <= SavedLimit
    /\ QueueFollows(books, queue, Applied(b) + Len(saved) + 1, Routed(books, stream))
    /\ WindowFollows(books, window, Applied(b))
    /\ IF tracked THEN BothFollow(b, books, Applied(b)) /\ b.snapshot_uid <= Routed(books, stream)
                  ELSE queue = <<>> /\ b.last_diff_uid = 0

LEMMA AppliedType == ASSUME NEW b \in Books PROVE Applied(b) \in Nat \ {0}
  BY DEF Applied, Books

LEMMA AppliedDiff ==
    ASSUME NEW books \in Seq(MarketBooks), NEW b \in Books, NEW window \in Seq(Messages),
           BothFollow(b, books, Applied(b)), WindowFollows(books, window, Applied(b)),
           Applied(b) < Len(books),
           NEW m \in Messages, m = DiffOf(books, Applied(b) + 1),
           NEW after, after = apply_diffs(b, m.bids, m.asks, m.update_id)
    PROVE  /\ Applied(after) = Applied(b) + 1 /\ after.snapshot_uid = b.snapshot_uid
           /\ BothFollow(after, books, Applied(after))
           /\ WindowFollows(books, deque_append(window, PAST_DIFF_WINDOW_SIZE, m), Applied(after))
  <1>1. PICK d \in Nat \ {0} : d = Applied(b)
    BY AppliedType
  <1>2. PICK n \in 2 .. Len(books) : n = d + 1 /\ n - 1 = d
    BY <1>1
  <1>3. BothFollow(after, books, n) /\ after.last_diff_uid = n /\ after.snapshot_uid = b.snapshot_uid
    BY <1>1, <1>2, ApplyDiffFollows
  <1>4. Applied(after) = n
    BY <1>2, <1>3 DEF Applied
  <1>5. WindowFollows(books, deque_append(window, PAST_DIFF_WINDOW_SIZE, m), n)
    BY <1>1, <1>2, WindowGrows
  <1> QED BY <1>1, <1>2, <1>3, <1>4, <1>5

LEMMA AppliedSnapshot ==
    ASSUME NEW books \in Seq(MarketBooks), NEW b \in Books, NEW window \in Seq(Messages),
           WindowFollows(books, window, Applied(b)), Applied(b) <= Len(books),
           NEW last \in Nat, last <= Len(books),
           NEW m \in Messages, IsSnapshot(m, books, last),
           b.last_diff_uid <= m.update_id + PAST_DIFF_WINDOW_SIZE,
           NEW after, after = restore_from_snapshot_and_diffs(b, m, window)
    PROVE  /\ Applied(after) = Applied(b) /\ after.snapshot_uid <= last
           /\ BothFollow(after, books, Applied(b))
  <1>1. PICK d \in 1 .. Len(books) : d = Applied(b)
    BY AppliedType
  <1>2. PICK n \in 1 .. Len(books) : n = m.update_id /\ n <= last /\ m = SnapshotOf(books, n)
    BY DEF IsSnapshot
  <1>3. PICK w \in Nat : w = Len(window)
    OBVIOUS
  <1>4. w <= d - 1 /\ DiffsFrom(books, window, d - w) /\ (w = PAST_DIFF_WINDOW_SIZE \/ w = d - 1)
    BY <1>1, <1>3 DEF WindowFollows
  <1>5. d - w <= n
    <2>1. d <= n + PAST_DIFF_WINDOW_SIZE
      BY <1>1, <1>2, LimitsAssumption DEF Applied
    <2> QED BY <1>4, <2>1, LimitsAssumption
  <1>6. /\ BothFollow(after, books, d) /\ after.snapshot_uid = n
        /\ after.last_diff_uid = IF w = 0 THEN b.last_diff_uid ELSE d
    BY <1>2, <1>3, <1>4, <1>5, RestoreFollows
  <1>7. Applied(after) = d
    BY <1>1, <1>6 DEF Applied
  <1> QED BY <1>1, <1>2, <1>6, <1>7

SnapshotsFollow(books, s) == \A i \in 1 .. Len(s) : IsSnapshot(s[i], books, Len(books))

ConvergenceInv ==
    /\ SnapshotsFollow(exchange_book, snapshot_stream)
    /\ ~missed => InStep(exchange_book, diff_stream, saved_messages, message_queue,
                         past_diffs_window, order_book, tracking)

LEMMA EmptyFollow ==
    ASSUME NEW books, NEW n \in Int
    PROVE  DiffsFrom(books, <<>>, n)
  BY DEF DiffsFrom

LEMMA InitConverges == Init => ConvergenceInv
  <1> SUFFICES ASSUME Init PROVE ConvergenceInv
    OBVIOUS
  <1>1. BookInv
    BY InitBook
  <1>2. exchange_book \in Seq(MarketBooks) /\ Len(exchange_book) = 1
    BY FunctionsAreSequences, FirstBooksAssumption DEF Init
  <1>3. Applied(order_book) = 1 /\ order_book.last_diff_uid = 0
    BY DEF Init, EmptyBook, Applied
  <1>4. Len(<<>>) = 0 /\ 1 - 0 = 1 /\ 1 .. 0 = {} /\ 2 .. 1 = {}
    OBVIOUS
  <1>5. DiffsFrom(exchange_book, <<>>, 1)
    BY EmptyFollow
  <1>6. QueueFollows(exchange_book, <<>>, 2, 1)
    BY <1>4 DEF QueueFollows
  <1>7. WindowFollows(exchange_book, <<>>, 1)
    BY <1>4, <1>5, LimitsAssumption DEF WindowFollows
  <1>8. SnapshotsFollow(exchange_book, <<>>)
    BY <1>4 DEF SnapshotsFollow
  <1>9. InStep(exchange_book, <<>>, <<>>, <<>>, <<>>, order_book, FALSE)
    BY <1>2, <1>3, <1>4, <1>5, <1>6, <1>7, LimitsAssumption DEF InStep, Routed
  <1> QED BY <1>8, <1>9 DEF Init, ConvergenceInv

(* The queue and the books' sizes as numbers, for the steps below.          *)
LEMMA Positions ==
    ASSUME BookInv, InStep(exchange_book, diff_stream, saved_messages, message_queue,
                           past_diffs_window, order_book, tracking)
    PROVE  /\ exchange_book \in Seq(MarketBooks) /\ order_book \in Books
           /\ diff_stream \in Seq(Messages) /\ saved_messages \in Seq(Messages)
           /\ message_queue \in Seq(Messages) /\ past_diffs_window \in Seq(Messages)
           /\ Applied(order_book) \in Nat \ {0} /\ Latest \in Nat
           /\ Routed(exchange_book, diff_stream) \in Nat
           /\ Routed(exchange_book, diff_stream) + Len(diff_stream) = Latest
           /\ Applied(order_book) + Len(saved_messages) <= Routed(exchange_book, diff_stream)
  <1>1. /\ exchange_book \in Seq(MarketBooks) /\ order_book \in Books
        /\ diff_stream \in Seq(Messages) /\ saved_messages \in Seq(Messages)
        /\ message_queue \in Seq(Messages) /\ past_diffs_window \in Seq(Messages)
    BY DEF BookInv, ExchangeOK, QueuesOK, GoodBooks
  <1>2. PICK d \in Nat \ {0} : d = Applied(order_book)
    BY <1>1, AppliedType
  <1>3. Len(exchange_book) \in Nat /\ Len(diff_stream) \in Nat /\ Len(saved_messages) \in Nat
    BY <1>1
  <1>4. d + Len(saved_messages) <= Len(exchange_book) - Len(diff_stream)
    BY <1>2 DEF InStep, Routed
  <1> QED BY <1>1, <1>2, <1>3, <1>4 DEF Routed, Latest

LEMMA NotOvertaken ==
    ASSUME BookInv, InStep(exchange_book, diff_stream, saved_messages, message_queue,
                           past_diffs_window, order_book, tracking),
           NEW n \in 1 .. Latest, ~Overtakes(n)
    PROVE  n <= Routed(exchange_book, diff_stream)
  <1>1. PICK r \in Nat : r = Routed(exchange_book, diff_stream) /\ r + Len(diff_stream) = Latest
    BY Positions
  <1>2. Len(diff_stream) \in Nat /\ Latest \in Nat
    BY Positions
  <1>3. CASE Len(diff_stream) = 0
    BY <1>1, <1>2, <1>3
  <1>4. CASE Len(diff_stream) # 0
    <2>1. 1 \in 1 .. Len(diff_stream)
      BY <1>2, <1>4
    <2>2. diff_stream[1] = DiffOf(exchange_book, r + 1)
      BY <1>1, <2>1 DEF InStep, DiffsFrom
    <2>3. ~(r + 1 <= n)
      BY <2>1, <2>2, MessageKinds DEF Overtakes
    <2> QED BY <1>1, <2>3
  <1> QED BY <1>3, <1>4

LEMMA SnapshotsStay ==
    ASSUME NEW books \in Seq(MarketBooks), NEW next \in MarketBooks, NEW s, SnapshotsFollow(books, s)
    PROVE  SnapshotsFollow(Append(books, next), s)
  <1>1. Len(books) \in Nat /\ Len(Append(books, next)) = Len(books) + 1
    OBVIOUS
  <1>2. \A m : IsSnapshot(m, books, Len(books)) => IsSnapshot(m, Append(books, next), Len(books) + 1)
    BY <1>1, MessagesStay DEF IsSnapshot
  <1> QED BY <1>1, <1>2 DEF SnapshotsFollow

LEMMA BothFollowOn ==
    ASSUME NEW books \in Seq(MarketBooks), NEW next \in MarketBooks, NEW b,
           NEW j \in 1 .. Len(books), BothFollow(b, books, j)
    PROVE  BothFollow(b, Append(books, next), j)
  BY FollowsOn DEF BothFollow, Sides

LEMMA ExchangeChangesConverges ==
    ASSUME BookInv, ConvergenceInv, NEW next \in MarketBooks, exchange_changes(next)
    PROVE  ConvergenceInv'
  <1>1. /\ exchange_book' = Append(exchange_book, next)
        /\ \/ diff_stream' = Append(diff_stream, Diff(Latest)') /\ UNCHANGED missed
           \/ missed' = TRUE /\ UNCHANGED diff_stream
        /\ UNCHANGED <<snapshot_stream, tracking, order_book, saved_messages,
                       past_diffs_window, message_queue>>
    BY DEF exchange_changes, book
  <1>2. exchange_book \in Seq(MarketBooks)
    BY DEF BookInv, ExchangeOK
  <1>3. SnapshotsFollow(exchange_book, snapshot_stream)'
    BY <1>1, <1>2, SnapshotsStay DEF ConvergenceInv
  <1>4. ASSUME ~missed'
        PROVE  InStep(exchange_book, diff_stream, saved_messages, message_queue,
                      past_diffs_window, order_book, tracking)'
    <2>1. InStep(exchange_book, diff_stream, saved_messages, message_queue,
                 past_diffs_window, order_book, tracking)
      BY <1>1, <1>4 DEF ConvergenceInv
    <2>2. PICK d \in Nat \ {0}, r \in Nat, L \in Nat :
             /\ d = Applied(order_book) /\ r = Routed(exchange_book, diff_stream)
             /\ L = Len(exchange_book) /\ r + Len(diff_stream) = L
             /\ d + Len(saved_messages) <= r
      BY <2>1, Positions DEF Latest
    <2> DEFINE more == Append(exchange_book, next)
               m == DiffOf(more, L + 1)
    <2>3. /\ more \in Seq(MarketBooks) /\ Len(more) = L + 1
          /\ diff_stream \in Seq(Messages) /\ Len(diff_stream) \in Nat
          /\ saved_messages \in Seq(Messages) /\ Len(saved_messages) \in Nat
          /\ past_diffs_window \in Seq(Messages) /\ Len(past_diffs_window) \in Nat
      BY <1>2, <2>1, <2>2, Positions
    <2>4. m \in Messages
      <3>1. L + 1 \in 1 .. Len(more)
        BY <2>3
      <3> HIDE DEF more
      <3> QED BY <2>3, <3>1, DiffsAreMessages
    <2>5. diff_stream' = Append(diff_stream, m)
      <3>1. Latest' = L + 1
        BY <1>1, <2>3 DEF Latest
      <3>2. Diff(Latest)' = DiffOf(exchange_book', Latest')
        BY DEF Diff, Changes, Rows, DiffOf, ChangesOf, RowsOf
      <3>3. diff_stream' = Append(diff_stream, Diff(Latest)')
        BY <1>1, <1>4
      <3> QED BY <1>1, <3>1, <3>2, <3>3
    <2> HIDE DEF m
    <2>6. Len(diff_stream') = Len(diff_stream) + 1 /\ diff_stream' \in Seq(Messages)
      BY <2>3, <2>4, <2>5
    <2>7. Routed(exchange_book, diff_stream)' = r
      BY <1>1, <2>2, <2>3, <2>6 DEF Routed
    <2>8. DiffsFrom(more, Append(diff_stream, m), r)
      <3>1. r + Len(diff_stream) + 1 = L + 1 /\ r \in Nat \ {0} /\ r + Len(diff_stream) <= L
        BY <2>2, <2>3
      <3>2. DiffsFrom(exchange_book, diff_stream, r)
        BY <2>1, <2>2 DEF InStep
      <3>3. DiffsFrom(more, diff_stream, r)
        BY <1>2, <2>2, <2>3, <3>1, <3>2, DiffsStay
      <3> HIDE DEF more
      <3> QED BY <2>3, <2>4, <3>1, <3>3, DiffsAppend DEF m
    <2>9. DiffsFrom(more, saved_messages, d) /\ Len(saved_messages) <= SavedLimit
      <3>1. d + Len(saved_messages) <= L
        BY <2>2, <2>3
      <3>2. DiffsFrom(exchange_book, saved_messages, d) /\ Len(saved_messages) <= SavedLimit
        BY <2>1, <2>2 DEF InStep
      <3> QED BY <1>2, <2>2, <2>3, <3>1, <3>2, DiffsStay
    <2>10. QueueFollows(more, message_queue, d + Len(saved_messages) + 1, r)
      <3>1. PICK first \in Nat : first = d + Len(saved_messages) + 1 /\ first >= 2
        BY <2>2, <2>3
      <3>2. QueueFollows(exchange_book, message_queue, first, r)
        BY <2>1, <2>2, <3>1 DEF InStep
      <3>3. r <= Len(exchange_book)
        BY <2>2, <2>3
      <3> QED BY <1>2, <3>1, <3>2, <3>3, QueueStays
    <2>11. WindowFollows(more, past_diffs_window, d)
      <3>1. WindowFollows(exchange_book, past_diffs_window, d)
        BY <2>1, <2>2 DEF InStep
      <3>2. PICK k \in Nat \ {0} : k = d - Len(past_diffs_window)
        <4>1. Len(past_diffs_window) <= d - 1
          BY <3>1 DEF WindowFollows
        <4>2. d - Len(past_diffs_window) \in Nat \ {0}
          BY <2>3, <4>1
        <4> QED BY <4>2
      <3>3. k + Len(past_diffs_window) <= Len(exchange_book)
        BY <2>2, <2>3, <3>2
      <3>4. DiffsFrom(exchange_book, past_diffs_window, k)
        BY <3>1, <3>2 DEF WindowFollows
      <3>5. DiffsFrom(more, past_diffs_window, k)
        BY <1>2, <2>3, <3>3, <3>4, DiffsStay
      <3> HIDE DEF more
      <3> QED BY <3>1, <3>2, <3>5 DEF WindowFollows
    <2>12. IF tracking THEN BothFollow(order_book, more, d) /\ order_book.snapshot_uid <= r
                       ELSE message_queue = <<>> /\ order_book.last_diff_uid = 0
      <3>1. d \in 1 .. Len(exchange_book)
        BY <2>2, <2>3
      <3>2. IF tracking THEN BothFollow(order_book, exchange_book, d) /\ order_book.snapshot_uid <= r
                        ELSE message_queue = <<>> /\ order_book.last_diff_uid = 0
        BY <2>1, <2>2 DEF InStep
      <3> QED BY <1>2, <3>1, <3>2, BothFollowOn
    <2>13. Applied(order_book)' = d /\ exchange_book' = more
      BY <1>1, <2>2
    <2> HIDE DEF more
    <2> QED
      BY <1>1, <2>2, <2>5, <2>7, <2>8, <2>9, <2>10, <2>11, <2>12, <2>13 DEF InStep
  <1> QED BY <1>3, <1>4 DEF ConvergenceInv

(* The exchange's answers change nothing else.                              *)
LEMMA AnswersConverge ==
    ASSUME BookInv, ConvergenceInv, answer_initial_snapshot \/ answer_snapshot
    PROVE  ConvergenceInv'
  <1>1. /\ UNCHANGED <<exchange_book, diff_stream, tracking, order_book, saved_messages,
                       past_diffs_window, message_queue, missed>>
        /\ \/ UNCHANGED snapshot_stream
           \/ snapshot_stream' = Append(snapshot_stream, Snapshot(Latest))
    BY DEF answer_initial_snapshot, answer_snapshot, external, book
  <1>2. SnapshotsFollow(exchange_book, snapshot_stream)'
    <2>1. CASE UNCHANGED snapshot_stream
      BY <1>1, <2>1 DEF ConvergenceInv
    <2>2. CASE snapshot_stream' = Append(snapshot_stream, Snapshot(Latest))
      <3>1. /\ snapshot_stream \in Seq(Messages) /\ Latest \in Nat /\ Latest >= 1
            /\ Snapshot(Latest) \in Messages
        BY SnapshotIsMessage DEF BookInv, ExchangeOK, QueuesOK, Latest
      <3>2. /\ IsSnapshot(Snapshot(Latest), exchange_book, Latest)
            /\ SnapshotsFollow(exchange_book, snapshot_stream)
        BY <3>1, SnapshotIsSnapshotOf, MessageKinds DEF IsSnapshot, ConvergenceInv
      <3>3. /\ Len(snapshot_stream') = Len(snapshot_stream) + 1
            /\ \A i \in 1 .. Len(snapshot_stream) + 1 :
                  snapshot_stream'[i] = IF i = Len(snapshot_stream) + 1 THEN Snapshot(Latest)
                                                                        ELSE snapshot_stream[i]
        <4> DEFINE m == Snapshot(Latest)
        <4> HIDE DEF m
        <4> QED BY <2>2, <3>1 DEF m
      <3>4. \A i \in 1 .. Len(snapshot_stream) + 1 :
               i = Len(snapshot_stream) + 1 \/ i \in 1 .. Len(snapshot_stream)
        BY <3>1
      <3> QED BY <1>1, <3>2, <3>3, <3>4 DEF SnapshotsFollow, Latest
    <2> QED BY <1>1, <2>1, <2>2
  <1> QED BY <1>1, <1>2 DEF ConvergenceInv

(* The first snapshot has not overtaken a diff, so it is of an update that  *)
(* was routed.                                                              *)
LEMMA InitOrderBookConverges ==
    ASSUME BookInv, ConvergenceInv, init_order_book
    PROVE  ConvergenceInv'
  <1> DEFINE m == Snapshot(initial_snapshot)
  <1>1. /\ initial_snapshot > 0 /\ ~tracking /\ tracking' = TRUE
        /\ order_book' = apply_snapshot(order_book, m.bids, m.asks, m.update_id)
        /\ missed' = (missed \/ Overtakes(initial_snapshot))
        /\ UNCHANGED <<exchange_book, diff_stream, snapshot_stream, saved_messages,
                       past_diffs_window, message_queue>>
    BY DEF init_order_book, external
  <1>2. initial_snapshot \in 1 .. Latest /\ exchange_book \in Seq(MarketBooks) /\ order_book \in Books
    BY <1>1 DEF BookInv, ExchangeOK, QueuesOK, Latest, GoodBooks
  <1>3. m = SnapshotOf(exchange_book, initial_snapshot)
    BY SnapshotIsSnapshotOf
  <1> HIDE DEF m
  <1>4. /\ BothFollow(order_book', exchange_book, initial_snapshot)
        /\ order_book'.last_diff_uid = order_book.last_diff_uid
        /\ order_book'.snapshot_uid = initial_snapshot
    BY <1>1, <1>2, <1>3, ApplySnapshotFollows DEF Latest
  <1>5. ASSUME ~missed'
        PROVE  InStep(exchange_book, diff_stream, saved_messages, message_queue,
                      past_diffs_window, order_book, tracking)'
    <2>1. ~Overtakes(initial_snapshot)
          /\ InStep(exchange_book, diff_stream, saved_messages, message_queue,
                    past_diffs_window, order_book, tracking)
      BY <1>1, <1>5 DEF ConvergenceInv
    <2>2. initial_snapshot <= Routed(exchange_book, diff_stream)
      BY <1>2, <2>1, NotOvertaken
    <2>3. order_book.last_diff_uid = 0 /\ Applied(order_book) = 1 /\ Applied(order_book') = 1
      BY <1>1, <1>4, <2>1 DEF InStep, Applied
    <2>4. BothFollow(order_book', exchange_book, 1)
      <3>1. 1 <= initial_snapshot /\ initial_snapshot \in Nat /\ Len(exchange_book) \in Nat
        BY <1>2
      <3> QED BY <1>4, <3>1, FollowsEarlier DEF BothFollow
    <2> QED BY <1>1, <1>4, <2>1, <2>2, <2>3, <2>4 DEF InStep, Applied
  <1>6. SnapshotsFollow(exchange_book, snapshot_stream)'
    BY <1>1 DEF ConvergenceInv
  <1> QED BY <1>5, <1>6 DEF ConvergenceInv

(* The diff router saves the next diff or queues it; it rejects none, for   *)
(* the book's snapshot is not newer than what was routed.                   *)
LEMMA RouteDiffConverges ==
    ASSUME BookInv, ConvergenceInv, route_diff
    PROVE  ConvergenceInv'
  <1> DEFINE m == Head(diff_stream)
  <1>1. /\ diff_stream # <<>> /\ diff_stream' = Tail(diff_stream)
        /\ UNCHANGED <<exchange_book, snapshot_stream, tracking, order_book, past_diffs_window>>
        /\ \/ /\ ~tracking
              /\ saved_messages' = deque_append(saved_messages, SavedLimit, m)
              /\ missed' = (missed \/ Len(saved_messages) = SavedLimit)
              /\ UNCHANGED message_queue
           \/ /\ tracking /\ order_book.snapshot_uid > m.update_id
              /\ UNCHANGED <<saved_messages, message_queue, missed>>
           \/ /\ tracking
              /\ message_queue' = Append(message_queue, m)
              /\ UNCHANGED <<saved_messages, missed>>
    BY DEF route_diff, external
  <1> HIDE DEF m
  <1>2. SnapshotsFollow(exchange_book, snapshot_stream)'
    BY <1>1 DEF ConvergenceInv
  <1>3. ASSUME ~missed'
        PROVE  InStep(exchange_book, diff_stream, saved_messages, message_queue,
                      past_diffs_window, order_book, tracking)'
    <2>1. InStep(exchange_book, diff_stream, saved_messages, message_queue,
                 past_diffs_window, order_book, tracking)
      <3>1. ~missed
        BY <1>1, <1>3
      <3> QED BY <3>1 DEF ConvergenceInv
    <2>2. PICK d \in Nat \ {0}, r \in Nat :
             /\ d = Applied(order_book) /\ r = Routed(exchange_book, diff_stream)
             /\ r + Len(diff_stream) = Len(exchange_book)
             /\ d + Len(saved_messages) <= r
      BY <2>1, Positions DEF Latest
    <2>3. /\ diff_stream \in Seq(Messages) /\ saved_messages \in Seq(Messages)
          /\ message_queue \in Seq(Messages) /\ order_book \in Books
          /\ Len(saved_messages) \in Nat /\ Len(diff_stream) \in Nat
      BY <2>1, Positions
    <2>4. /\ m = DiffOf(exchange_book, r + 1) /\ Len(diff_stream') = Len(diff_stream) - 1
          /\ DiffsFrom(exchange_book, diff_stream', r + 1)
      <3>1. DiffsFrom(exchange_book, diff_stream, r)
        BY <2>1, <2>2 DEF InStep
      <3> QED BY <1>1, <2>3, <3>1, DiffsTail DEF m
    <2>5. m \in Messages /\ m.update_id = r + 1
      BY <1>1, <2>3, <2>4, MessageKinds DEF m
    <2>6. Routed(exchange_book, diff_stream)' = r + 1
      <3>1. Len(exchange_book) \in Nat /\ Len(exchange_book) = r + Len(diff_stream)
        BY <2>2, <2>3
      <3>2. Routed(exchange_book, diff_stream)' = Len(exchange_book) - (Len(diff_stream) - 1)
        BY <1>1, <2>4 DEF Routed
      <3> QED BY <2>2, <2>3, <3>1, <3>2
    <2>7. /\ DiffsFrom(exchange_book, saved_messages, d) /\ Len(saved_messages) <= SavedLimit
          /\ QueueFollows(exchange_book, message_queue, d + Len(saved_messages) + 1, r)
          /\ WindowFollows(exchange_book, past_diffs_window, d)
          /\ IF tracking THEN BothFollow(order_book, exchange_book, d) /\ order_book.snapshot_uid <= r
                         ELSE message_queue = <<>> /\ order_book.last_diff_uid = 0
      BY <2>1, <2>2 DEF InStep
    <2>8. Applied(order_book)' = d
      BY <1>1, <2>2
    <2>9. CASE ~tracking
      <3>1. /\ saved_messages' = deque_append(saved_messages, SavedLimit, m)
            /\ Len(saved_messages) # SavedLimit /\ message_queue' = message_queue
        BY <1>1, <1>3, <2>9
      <3>2. d + Len(saved_messages) = r
        <4>1. ASSUME d + Len(saved_messages) + 1 <= r PROVE FALSE
          <5>1. r \in d + Len(saved_messages) + 1 .. r
            BY <2>2, <2>3, <4>1
          <5>2. message_queue = <<>> /\ Len(<<>>) = 0 /\ 1 .. 0 = {}
            BY <2>7, <2>9
          <5> QED BY <2>7, <5>1, <5>2 DEF QueueFollows
        <4>2. PICK k \in Nat : k = Len(saved_messages)
          BY <2>3
        <4>3. ~(d + k + 1 <= r) /\ d + k <= r
          BY <2>2, <4>1, <4>2
        <4> QED BY <2>2, <4>2, <4>3
      <3>3. /\ saved_messages' = Append(saved_messages, m)
            /\ Len(saved_messages') = Len(saved_messages) + 1 /\ Len(saved_messages') <= SavedLimit
        <4>1. Len(Append(saved_messages, m)) = Len(saved_messages) + 1
          BY <2>3, <2>5
        <4>2. ~(Len(saved_messages) + 1 > SavedLimit)
          BY <2>3, <2>7, <3>1, LimitsAssumption
        <4> QED BY <2>3, <3>1, <4>1, <4>2, LimitsAssumption DEF deque_append
      <3>4. DiffsFrom(exchange_book, saved_messages', d)
        <4>1. m = DiffOf(exchange_book, d + Len(saved_messages) + 1)
          BY <2>4, <3>2
        <4> QED BY <2>2, <2>3, <2>5, <2>7, <3>3, <4>1, DiffsAppend
      <3>5. QueueFollows(exchange_book, message_queue', d + Len(saved_messages') + 1, r + 1)
        <4>1. message_queue' = <<>> /\ Len(<<>>) = 0 /\ 1 .. 0 = {}
          BY <2>7, <2>9, <3>1
        <4>2. (d + Len(saved_messages') + 1) .. (r + 1) = {}
          BY <2>2, <2>3, <3>2, <3>3
        <4> QED BY <4>1, <4>2 DEF QueueFollows
      <3>6. d + Len(saved_messages') <= r + 1
        BY <2>2, <2>3, <3>2, <3>3
      <3> QED BY <1>1, <2>4, <2>6, <2>7, <2>8, <2>9, <3>1, <3>3, <3>4, <3>5, <3>6 DEF InStep
    <2>10. CASE tracking
      <3>1. order_book.snapshot_uid \in Nat /\ order_book.snapshot_uid <= r
        BY <2>3, <2>7, <2>10 DEF Books
      <3>2. message_queue' = Append(message_queue, m) /\ saved_messages' = saved_messages
        BY <1>1, <2>2, <2>5, <2>10, <3>1
      <3>3. QueueFollows(exchange_book, message_queue', d + Len(saved_messages) + 1, r + 1)
        <4>1. PICK first \in Nat : first = d + Len(saved_messages) + 1 /\ first <= r + 1
          BY <2>2, <2>3
        <4> QED BY <2>2, <2>3, <2>4, <2>5, <2>7, <3>2, <4>1, QueueDiff
      <3>4. d + Len(saved_messages) <= r + 1 /\ order_book.snapshot_uid <= r + 1
        BY <2>2, <2>3, <3>1
      <3> QED BY <1>1, <2>4, <2>6, <2>7, <2>8, <2>10, <3>2, <3>3, <3>4 DEF InStep
    <2> QED BY <2>9, <2>10
  <1> QED BY <1>2, <1>3 DEF ConvergenceInv

LEMMA RouteSnapshotConverges ==
    ASSUME BookInv, ConvergenceInv, route_snapshot
    PROVE  ConvergenceInv'
  <1> DEFINE m == Head(snapshot_stream)
             n == m.update_id
  <1>1. /\ tracking /\ snapshot_stream # <<>> /\ snapshot_stream' = Tail(snapshot_stream)
        /\ message_queue' = Append(message_queue, m)
        /\ missed' = (missed \/ Overtakes(n))
        /\ UNCHANGED <<exchange_book, diff_stream, tracking, order_book, saved_messages,
                       past_diffs_window>>
    BY DEF route_snapshot, external, book
  <1>2. snapshot_stream \in Seq(Messages) /\ m \in Messages
    BY <1>1 DEF BookInv, QueuesOK
  <1>3. /\ Len(snapshot_stream) >= 1 /\ m = snapshot_stream[1]
        /\ Len(snapshot_stream') = Len(snapshot_stream) - 1
        /\ \A i \in 1 .. Len(snapshot_stream) - 1 : snapshot_stream'[i] = snapshot_stream[i + 1]
    BY <1>1, <1>2
  <1> HIDE DEF m
  <1>4. \A i \in 1 .. Len(snapshot_stream) - 1 : i + 1 \in 1 .. Len(snapshot_stream)
    BY <1>2
  <1>5. SnapshotsFollow(exchange_book, snapshot_stream)'
    BY <1>1, <1>3, <1>4 DEF ConvergenceInv, SnapshotsFollow
  <1>6. n \in 1 .. Latest /\ m = SnapshotOf(exchange_book, n)
    <2>1. 1 \in 1 .. Len(snapshot_stream)
      BY <1>2, <1>3
    <2> QED BY <1>3, <2>1 DEF ConvergenceInv, SnapshotsFollow, IsSnapshot, Latest
  <1> HIDE DEF n
  <1>7. ASSUME ~missed'
        PROVE  InStep(exchange_book, diff_stream, saved_messages, message_queue,
                      past_diffs_window, order_book, tracking)'
    <2>1. /\ InStep(exchange_book, diff_stream, saved_messages, message_queue,
                    past_diffs_window, order_book, tracking)
          /\ ~Overtakes(n)
      BY <1>1, <1>7 DEF ConvergenceInv
    <2>2. PICK first \in Nat, r \in Nat :
             /\ first = Applied(order_book) + Len(saved_messages) + 1
             /\ r = Routed(exchange_book, diff_stream)
             /\ message_queue \in Seq(Messages)
      <3>1. Len(saved_messages) \in Nat
        BY <2>1, Positions
      <3> QED BY <2>1, <3>1, Positions
    <2>3. n <= r
      BY <1>6, <2>1, <2>2, NotOvertaken
    <2>4. IsSnapshot(m, exchange_book, r)
      BY <1>6, <2>2, <2>3 DEF IsSnapshot, n
    <2>5. QueueFollows(exchange_book, message_queue', first, r)
      <3>1. QueueFollows(exchange_book, message_queue, first, r)
        BY <2>1, <2>2 DEF InStep
      <3> QED BY <1>1, <1>2, <2>2, <2>4, <3>1, QueueSnapshot
    <2> QED BY <1>1, <2>1, <2>2, <2>5 DEF InStep
  <1> QED BY <1>5, <1>7 DEF ConvergenceInv

LEMMA ProcessSavedConverges ==
    ASSUME BookInv, ConvergenceInv, process_saved
    PROVE  ConvergenceInv'
  <1> DEFINE m == Head(saved_messages)
  <1>1. /\ tracking /\ saved_messages # <<>> /\ process(m) /\ saved_messages' = Tail(saved_messages)
        /\ UNCHANGED <<exchange_book, diff_stream, snapshot_stream, tracking, message_queue>>
    BY DEF process_saved, external
  <1> HIDE DEF m
  <1>2. SnapshotsFollow(exchange_book, snapshot_stream)'
    BY <1>1 DEF ConvergenceInv
  <1>3. ASSUME ~missed'
        PROVE  InStep(exchange_book, diff_stream, saved_messages, message_queue,
                      past_diffs_window, order_book, tracking)'
    <2>1. InStep(exchange_book, diff_stream, saved_messages, message_queue,
                 past_diffs_window, order_book, tracking)
      BY <1>1, <1>3 DEF ConvergenceInv, process
    <2>2. PICK d \in Nat \ {0}, r \in Nat :
             /\ d = Applied(order_book) /\ r = Routed(exchange_book, diff_stream)
             /\ r + Len(diff_stream) = Len(exchange_book)
             /\ d + Len(saved_messages) <= r
      BY <2>1, Positions DEF Latest
    <2>3. /\ saved_messages \in Seq(Messages) /\ past_diffs_window \in Seq(Messages)
          /\ order_book \in Books /\ exchange_book \in Seq(MarketBooks)
          /\ Len(saved_messages) \in Nat /\ Len(diff_stream) \in Nat
      BY <2>1, Positions
    <2>4. /\ DiffsFrom(exchange_book, saved_messages, d) /\ Len(saved_messages) <= SavedLimit
          /\ QueueFollows(exchange_book, message_queue, d + Len(saved_messages) + 1, r)
          /\ WindowFollows(exchange_book, past_diffs_window, d)
          /\ BothFollow(order_book, exchange_book, d) /\ order_book.snapshot_uid <= r
          /\ DiffsFrom(exchange_book, diff_stream, r)
      BY <1>1, <2>1, <2>2 DEF InStep
    <2>5. /\ m = DiffOf(exchange_book, d + 1) /\ m \in Messages /\ m.type = "DIFF"
          /\ Len(saved_messages) >= 1 /\ Len(saved_messages') = Len(saved_messages) - 1
          /\ DiffsFrom(exchange_book, saved_messages', d + 1)
      <3>1. /\ Head(saved_messages) = DiffOf(exchange_book, d + 1) /\ Len(saved_messages) >= 1
            /\ Len(Tail(saved_messages)) = Len(saved_messages) - 1
            /\ DiffsFrom(exchange_book, Tail(saved_messages), d + 1)
        BY <1>1, <2>2, <2>3, <2>4, DiffsTail
      <3>2. m \in Messages
        BY <1>1, <2>3 DEF m
      <3> QED BY <1>1, <3>1, <3>2, MessageKinds DEF m
    <2>6. /\ order_book' = apply_diffs(order_book, m.bids, m.asks, m.update_id)
          /\ past_diffs_window' = deque_append(past_diffs_window, PAST_DIFF_WINDOW_SIZE, m)
      BY <1>1, <2>5 DEF process
    <2>7. /\ Applied(order_book') = d + 1 /\ order_book'.snapshot_uid = order_book.snapshot_uid
          /\ BothFollow(order_book', exchange_book, d + 1)
          /\ WindowFollows(exchange_book, past_diffs_window', d + 1)
      <3>1. d < Len(exchange_book)
        BY <2>2, <2>3, <2>5
      <3> QED BY <2>2, <2>3, <2>4, <2>5, <2>6, <3>1, AppliedDiff
    <2>8. d + 1 + Len(saved_messages') = d + Len(saved_messages) /\ Len(saved_messages') <= SavedLimit
      BY <2>3, <2>4, <2>5, LimitsAssumption
    <2>9. QueueFollows(exchange_book, message_queue', d + 1 + Len(saved_messages') + 1, r)
      BY <1>1, <2>4, <2>8
    <2> QED
      BY <1>1, <2>2, <2>4, <2>5, <2>7, <2>8, <2>9 DEF InStep, Routed
  <1> QED BY <1>2, <1>3 DEF ConvergenceInv

LEMMA ProcessQueuedConverges ==
    ASSUME BookInv, ConvergenceInv, process_queued
    PROVE  ConvergenceInv'
  <1> DEFINE m == Head(message_queue)
  <1>1. /\ tracking /\ saved_messages = <<>> /\ message_queue # <<>>
        /\ process(m) /\ message_queue' = Tail(message_queue)
        /\ UNCHANGED <<exchange_book, diff_stream, snapshot_stream, tracking, saved_messages>>
    BY DEF process_queued, external
  <1> HIDE DEF m
  <1>2. SnapshotsFollow(exchange_book, snapshot_stream)'
    BY <1>1 DEF ConvergenceInv
  <1>3. ASSUME ~missed'
        PROVE  InStep(exchange_book, diff_stream, saved_messages, message_queue,
                      past_diffs_window, order_book, tracking)'
    <2>1. InStep(exchange_book, diff_stream, saved_messages, message_queue,
                 past_diffs_window, order_book, tracking)
      BY <1>1, <1>3 DEF ConvergenceInv, process
    <2>2. PICK d \in Nat \ {0}, r \in Nat :
             /\ d = Applied(order_book) /\ r = Routed(exchange_book, diff_stream)
             /\ r + Len(diff_stream) = Len(exchange_book)
             /\ d + Len(saved_messages) <= r
      BY <2>1, Positions DEF Latest
    <2>3. /\ message_queue \in Seq(Messages) /\ past_diffs_window \in Seq(Messages)
          /\ order_book \in Books /\ exchange_book \in Seq(MarketBooks)
          /\ Len(saved_messages) = 0 /\ Len(diff_stream) \in Nat
      BY <1>1, <2>1, Positions
    <2>4. d + Len(saved_messages) + 1 = d + 1 /\ d + 1 + Len(saved_messages) + 1 = d + 1 + 1
          /\ d + Len(saved_messages) = d /\ d + 1 + Len(saved_messages) = d + 1
      BY <2>2, <2>3
    <2>5. /\ QueueFollows(exchange_book, message_queue, d + 1, r)
          /\ WindowFollows(exchange_book, past_diffs_window, d)
          /\ BothFollow(order_book, exchange_book, d) /\ order_book.snapshot_uid <= r
          /\ DiffsFrom(exchange_book, diff_stream, r) /\ Len(saved_messages) <= SavedLimit
      BY <1>1, <2>1, <2>2, <2>4 DEF InStep
    <2>6. \A n : DiffsFrom(exchange_book, saved_messages, n)
      BY <2>3 DEF DiffsFrom
    <2>7. m \in Messages
      BY <1>1, <2>3 DEF m
    <2> HIDE DEF m
    <2>10. PICK first \in Nat : first = d + 1
      OBVIOUS
    <2>11. /\ m.type = "DIFF" =>
                 /\ m = DiffOf(exchange_book, first) /\ first <= r
                 /\ QueueFollows(exchange_book, message_queue', first + 1, r)
           /\ m.type # "DIFF" =>
                 /\ IsSnapshot(m, exchange_book, r)
                 /\ QueueFollows(exchange_book, message_queue', first, r)
      <3>1. QueueFollows(exchange_book, message_queue, first, r)
        BY <2>5, <2>10
      <3> QED BY <1>1, <2>2, <2>3, <2>10, <3>1, QueueHead DEF m
    <2>8. CASE m.type = "DIFF"
      <3>1. /\ m = DiffOf(exchange_book, d + 1) /\ d + 1 <= r
            /\ QueueFollows(exchange_book, message_queue', d + 1 + 1, r)
        BY <2>8, <2>10, <2>11
      <3>2. /\ order_book' = apply_diffs(order_book, m.bids, m.asks, m.update_id)
            /\ past_diffs_window' = deque_append(past_diffs_window, PAST_DIFF_WINDOW_SIZE, m)
        BY <1>1, <2>8 DEF process
      <3>3. /\ Applied(order_book') = d + 1 /\ order_book'.snapshot_uid = order_book.snapshot_uid
            /\ BothFollow(order_book', exchange_book, d + 1)
            /\ WindowFollows(exchange_book, past_diffs_window', d + 1)
        <4>1. d < Len(exchange_book)
          BY <2>2, <2>3, <3>1
        <4> QED BY <2>2, <2>3, <2>5, <2>7, <3>1, <3>2, <4>1, AppliedDiff
      <3> QED BY <1>1, <2>2, <2>4, <2>5, <2>6, <3>1, <3>3 DEF InStep, Routed
    <2>9. CASE m.type # "DIFF"
      <3>1. /\ IsSnapshot(m, exchange_book, r)
            /\ QueueFollows(exchange_book, message_queue', d + 1, r)
        BY <2>9, <2>10, <2>11
      <3>2. /\ order_book' = restore_from_snapshot_and_diffs(order_book, m, past_diffs_window)
            /\ ~(order_book.last_diff_uid > m.update_id + PAST_DIFF_WINDOW_SIZE)
            /\ past_diffs_window' = past_diffs_window
        BY <1>1, <1>3, <2>9 DEF process
      <3>3. /\ Applied(order_book') = d /\ order_book'.snapshot_uid <= r
            /\ BothFollow(order_book', exchange_book, d)
        <4>1. d <= Len(exchange_book) /\ r <= Len(exchange_book)
          BY <2>2, <2>3
        <4>2. order_book.last_diff_uid <= m.update_id + PAST_DIFF_WINDOW_SIZE
          BY <2>3, <2>7, <3>2, LimitsAssumption DEF Books, Messages
        <4> QED BY <2>2, <2>3, <2>5, <2>7, <3>1, <3>2, <4>1, <4>2, AppliedSnapshot
      <3> QED BY <1>1, <2>2, <2>4, <2>5, <2>6, <3>1, <3>2, <3>3 DEF InStep, Routed
    <2> QED BY <2>8, <2>9
  <1> QED BY <1>2, <1>3 DEF ConvergenceInv

LEMMA ConvergenceStep == BookInv /\ ConvergenceInv /\ [Next]_vars => ConvergenceInv'
  <1> SUFFICES ASSUME BookInv, ConvergenceInv, [Next]_vars PROVE ConvergenceInv'
    OBVIOUS
  <1>1. CASE Next
    BY <1>1, ExchangeChangesConverges, AnswersConverge, InitOrderBookConverges, RouteDiffConverges,
       RouteSnapshotConverges, ProcessSavedConverges, ProcessQueuedConverges DEF Next
  <1>2. CASE UNCHANGED vars
    BY <1>2 DEF vars, ConvergenceInv
  <1> QED BY <1>1, <1>2

(* With every diff applied every level is quiet.                            *)
LEMMA FollowedIsShown ==
    ASSUME NEW books \in Seq(MarketBooks), Len(books) >= 1, NEW side \in Sides, NEW es,
           SideFollows(es, books, side, Len(books))
    PROVE  {Level(e) : e \in es} = {Level(e) : e \in LevelsOf(books, Len(books), side)}
  <1> DEFINE L == Len(books)
             level(p) == [price |-> p, amount |-> books[L][side][p], update_id |-> L]
             shown == [p \in Prices |-> [price |-> p, amount |-> books[L][side][p]]]
  <1>1. L \in Nat /\ L \in 1 .. L
    OBVIOUS
  <1>2. \A p \in Prices : Quiet(books, side, p, L)
    BY <1>1 DEF Quiet
  <1>3. ASSUME NEW e \in es
        PROVE  e.price \in Prices /\ books[L][side][e.price] = e.amount /\ e.amount > 0
    <2>1. IsLevel(e, books, side) /\ Quiet(books, side, e.price, e.update_id)
      BY <1>2 DEF SideFollows, IsLevel
    <2>2. e.update_id \in e.update_id .. L
      BY <1>1, <2>1 DEF IsLevel
    <2> QED BY <2>1, <2>2 DEF IsLevel, Quiet
  <1>4. \A p \in Prices : books[L][side][p] > 0 => \E e \in es : e.price = p
    BY <1>2 DEF SideFollows
  <1>5. \A e \in LevelsOf(books, L, side) : \E p \in Prices : e = level(p) /\ books[L][side][p] > 0
    BY DEF LevelsOf, RowsOf
  <1>6. \A p \in Prices : books[L][side][p] > 0 => level(p) \in LevelsOf(books, L, side)
    BY DEF LevelsOf, RowsOf
  <1>7. \A p \in Prices : Level(level(p)) = shown[p]
    BY DEF Level
  <1>8. \A e \in es : Level(e) = shown[e.price]
    BY <1>3 DEF Level
  <1> HIDE DEF shown
  <1>9. ASSUME NEW e \in es PROVE Level(e) \in {Level(f) : f \in LevelsOf(books, L, side)}
    <2>1. level(e.price) \in LevelsOf(books, L, side)
      BY <1>3, <1>6
    <2> QED BY <1>3, <1>7, <1>8, <2>1
  <1>10. ASSUME NEW f \in LevelsOf(books, L, side) PROVE Level(f) \in {Level(e) : e \in es}
    <2>1. PICK p \in Prices : f = level(p) /\ books[L][side][p] > 0
      BY <1>5
    <2>2. PICK e \in es : e.price = p
      BY <1>4, <2>1
    <2>3. Level(f) = Level(e)
      BY <1>7, <1>8, <2>1, <2>2
    <2> QED BY <2>3
  <1> QED BY <1>9, <1>10

LEMMA InStepIsCurrent == BookInv /\ ConvergenceInv => ProcessedBookIsCurrent
  <1> SUFFICES ASSUME BookInv, ConvergenceInv, tracking, ~missed,
                      diff_stream = <<>>, saved_messages = <<>>, message_queue = <<>>
               PROVE  Shows(order_book, Latest)
    BY DEF ProcessedBookIsCurrent
  <1>1. InStep(exchange_book, <<>>, <<>>, <<>>, past_diffs_window, order_book, tracking)
    BY DEF ConvergenceInv
  <1>2. /\ exchange_book \in Seq(MarketBooks) /\ Latest \in Nat /\ Latest >= 1
        /\ Applied(order_book) \in Nat \ {0}
    BY AppliedType DEF BookInv, ExchangeOK, GoodBooks, Latest
  <1>3. Len(<<>>) = 0 /\ Routed(exchange_book, <<>>) = Latest
    BY <1>2 DEF Routed, Latest
  <1>4. Applied(order_book) = Latest
    <2>1. Applied(order_book) <= Latest
      BY <1>1, <1>2, <1>3 DEF InStep
    <2>2. ASSUME Applied(order_book) < Latest PROVE FALSE
      <3>1. Latest \in Applied(order_book) + 0 + 1 .. Latest
        BY <1>2, <2>2
      <3>2. QueueFollows(exchange_book, <<>>, Applied(order_book) + 0 + 1, Latest)
        BY <1>1, <1>3 DEF InStep
      <3>3. 1 .. 0 = {}
        OBVIOUS
      <3> QED BY <1>3, <3>1, <3>2, <3>3 DEF QueueFollows
    <2> QED BY <1>2, <2>1, <2>2
  <1>5. BothFollow(order_book, exchange_book, Latest)
    BY <1>1, <1>4 DEF InStep
  <1>6. ASSUME NEW side \in Sides
        PROVE  {Level(e) : e \in order_book[side]} = {Level(e) : e \in Levels(Latest, side)}
    <2>1. SideFollows(order_book[side], exchange_book, side, Latest)
      BY <1>5 DEF BothFollow, Sides
    <2>2. Levels(Latest, side) = LevelsOf(exchange_book, Latest, side)
      BY DEF Levels, Rows, LevelsOf, RowsOf
    <2> QED BY <1>2, <2>1, <2>2, FollowedIsShown DEF Latest
  <1> QED BY <1>6 DEF Shows

(* Once every message is processed the local book is the exchange's, if no  *)
(* diff was lost, overtaken or dropped from a full deque while needed: for  *)
(* any lengths of the deques and any order in which messages arrive.        *)
THEOREM ProcessedBooksAreCurrent == Spec => []ProcessedBookIsCurrent
  <1>1. Spec => []BookInv
    BY BookInvariant
  <1>2. BookInv /\ BookInv' /\ ConvergenceInv /\ [Next]_vars => ConvergenceInv'
    BY ConvergenceStep
  <1> QED BY <1>1, <1>2, InitConverges, InStepIsCurrent, PTL DEF Spec

----------------------------------------------------------------------------
(* The weight of a log, as a function that adds it up entry by entry.       *)
Counted(task, l, age) == IF task.limit = l /\ task.age <= age THEN task.weight ELSE 0

AddsUp(f, log, l, age) ==
    /\ f \in [0 .. Len(log) -> Nat] /\ f[0] = 0
    /\ \A i \in 1 .. Len(log) : f[i] = f[i - 1] + Counted(log[i], l, age)

Sums(f, log, l, age) ==
    f = [i \in 0 .. Len(log) |->
            IF i = 0 THEN 0
            ELSE f[i - 1] + IF log[i].limit = l /\ log[i].age <= age THEN log[i].weight ELSE 0]

LEMMA UsedIsChosen ==
    ASSUME NEW log, NEW l, NEW age
    PROVE  used(log, l, age) = (CHOOSE f : Sums(f, log, l, age))[Len(log)]
  BY DEF used, Sums

LEMMA CountedType ==
    ASSUME NEW log \in Seq(Task), NEW l, NEW age, NEW i \in 1 .. Len(log)
    PROVE  Counted(log[i], l, age) \in Nat
  <1>1. log[i] \in Task
    OBVIOUS
  <1> QED BY <1>1 DEF Task, Counted

LEMMA UsedAddsUp ==
    ASSUME NEW log \in Seq(Task), NEW l, NEW age
    PROVE  \E f : AddsUp(f, log, l, age) /\ used(log, l, age) = f[Len(log)]
  <1> DEFINE N == Len(log)
             step == [i \in 1 .. N |-> [n \in Nat |-> n + Counted(log[i], l, age)]]
             s == CHOOSE f : Sums(f, log, l, age)
  <1>1. N \in Nat /\ \A i \in 1 .. N : Counted(log[i], l, age) \in Nat
    <2>1. N \in Nat
      OBVIOUS
    <2> QED BY <2>1, CountedType
  <1>2. step \in [1 .. N -> [Nat -> Nat]]
    BY <1>1
  <1>3. \A i \in 1 .. N, n \in Nat : step[i][n] = n + Counted(log[i], l, age)
    OBVIOUS
  <1> HIDE DEF step
  <1>4. PICK f \in [0 .. N -> Nat] : Recurses(f, N, 0, step)
    <2> HIDE DEF N
    <2> QED BY <1>1, <1>2, RecursionExists
  <1>5. Sums(f, log, l, age)
    <2>1. f = [i \in 0 .. N |-> IF i = 0 THEN 0 ELSE step[i][f[i - 1]]]
      BY <1>4 DEF Recurses
    <2>2. \A i \in 0 .. N : i # 0 => step[i][f[i - 1]] = f[i - 1] + Counted(log[i], l, age)
      <3> HIDE DEF N
      <3>1. ASSUME NEW i \in 0 .. N, i # 0
            PROVE  step[i][f[i - 1]] = f[i - 1] + Counted(log[i], l, age)
        <4>1. i \in 1 .. N /\ i - 1 \in 0 .. N
          BY <1>1, <3>1
        <4>2. f[i - 1] \in Nat
          BY <1>4, <4>1
        <4> QED BY <1>3, <4>1, <4>2
      <3> QED BY <3>1
    <2> QED BY <2>1, <2>2 DEF Sums, Counted
  <1>6. Sums(s, log, l, age)
    BY <1>5
  <1>7. used(log, l, age) = s[N]
    BY UsedIsChosen
  <1> HIDE DEF s
  <1>8. s = [i \in 0 .. N |-> IF i = 0 THEN 0 ELSE s[i - 1] + Counted(log[i], l, age)]
    BY <1>6 DEF Sums, Counted
  <1>9. s[0] = 0 /\ \A i \in 1 .. N : s[i] = s[i - 1] + Counted(log[i], l, age)
    BY <1>1, <1>8
  <1> DEFINE B == {i \in 0 .. N : s[i] \in Nat}
  <1>10. 0 \in B /\ \A i \in 1 .. N : i - 1 \in B => i \in B
    BY <1>1, <1>9
  <1> HIDE DEF B
  <1>11. \A i \in 0 .. N : i \in B
    <2> HIDE DEF N
    <2> QED BY <1>1, <1>10, CountingUp
  <1>12. s \in [0 .. N -> Nat]
    <2>1. \A i \in 0 .. N : s[i] \in Nat
      BY <1>11 DEF B
    <2> HIDE DEF N
    <2> QED BY <1>8, <2>1
  <1> QED BY <1>7, <1>9, <1>12 DEF AddsUp

(* Two logs compared entry by entry.                                        *)
LEMMA UsedIsMonotone ==
    ASSUME NEW log \in Seq(Task), NEW more \in Seq(Task), Len(log) = Len(more),
           NEW l, NEW age, NEW later,
           \A i \in 1 .. Len(log) : Counted(log[i], l, age) <= Counted(more[i], l, later)
    PROVE  used(log, l, age) <= used(more, l, later)
  <1> DEFINE N == Len(log)
  <1>1. PICK f : AddsUp(f, log, l, age) /\ used(log, l, age) = f[N]
    BY UsedAddsUp
  <1>2. PICK g : AddsUp(g, more, l, later) /\ used(more, l, later) = g[N]
    BY UsedAddsUp
  <1>3. N \in Nat /\ \A i \in 1 .. N : /\ Counted(log[i], l, age) \in Nat
                                       /\ Counted(more[i], l, later) \in Nat
    BY CountedType
  <1>4. /\ f \in [0 .. N -> Nat] /\ f[0] = 0
        /\ \A i \in 1 .. N : f[i] = f[i - 1] + Counted(log[i], l, age)
        /\ g \in [0 .. N -> Nat] /\ g[0] = 0
        /\ \A i \in 1 .. N : g[i] = g[i - 1] + Counted(more[i], l, later)
    BY <1>1, <1>2 DEF AddsUp
  <1> DEFINE B == {i \in 0 .. N : f[i] <= g[i]}
  <1>5. 0 \in B
    BY <1>3, <1>4
  <1>6. ASSUME NEW i \in 1 .. N, i - 1 \in B PROVE i \in B
    <2> HIDE DEF N
    <2>1. i \in 0 .. N /\ i - 1 \in 0 .. N
      BY <1>3
    <2>2. f[i - 1] <= g[i - 1] /\ f[i - 1] \in Nat /\ g[i - 1] \in Nat
      BY <1>4, <1>6, <2>1
    <2>3. f[i] <= g[i]
      <3>1. f[i] = f[i - 1] + Counted(log[i], l, age) /\ g[i] = g[i - 1] + Counted(more[i], l, later)
        BY <1>4
      <3>2. /\ Counted(log[i], l, age) \in Nat /\ Counted(more[i], l, later) \in Nat
            /\ Counted(log[i], l, age) <= Counted(more[i], l, later)
        BY <1>3 DEF N
      <3> QED BY <2>2, <3>1, <3>2
    <2> QED BY <2>1, <2>3
  <1> HIDE DEF B
  <1>7. N \in B
    <2>1. \A i \in 0 .. N : i \in B
      <3> HIDE DEF N
      <3> QED BY <1>3, <1>5, <1>6, CountingUp
    <2> QED BY <1>3, <2>1
  <1> QED BY <1>1, <1>2, <1>7 DEF B

LEMMA UsedIsWeight ==
    ASSUME NEW log \in Seq(Task), NEW l, NEW age
    PROVE  used(log, l, age) \in Nat
  <1>1. PICK f : AddsUp(f, log, l, age) /\ used(log, l, age) = f[Len(log)]
    BY UsedAddsUp
  <1>2. Len(log) \in 0 .. Len(log) /\ f \in [0 .. Len(log) -> Nat]
    BY <1>1 DEF AddsUp
  <1> QED BY <1>1, <1>2

LEMMA UsedIsSame ==
    ASSUME NEW log \in Seq(Task), NEW more \in Seq(Task), Len(log) = Len(more),
           NEW l, NEW age, NEW later,
           \A i \in 1 .. Len(log) : Counted(log[i], l, age) = Counted(more[i], l, later)
    PROVE  used(log, l, age) = used(more, l, later)
  <1>1. \A i \in 1 .. Len(log) : Counted(log[i], l, age) \in Nat
    BY CountedType
  <1>2. \A i \in 1 .. Len(log) : /\ Counted(log[i], l, age) <= Counted(more[i], l, later)
                                 /\ Counted(more[i], l, later) <= Counted(log[i], l, age)
    BY <1>1
  <1>3. used(log, l, age) <= used(more, l, later) /\ used(more, l, later) <= used(log, l, age)
    BY <1>2, UsedIsMonotone
  <1> QED BY <1>3, UsedIsWeight

(* A sum is the one function that adds up.                                  *)
LEMMA SumIsUsed ==
    ASSUME NEW log \in Seq(Task), NEW l, NEW age, NEW g, AddsUp(g, log, l, age)
    PROVE  used(log, l, age) = g[Len(log)]
  <1> DEFINE N == Len(log)
  <1>1. PICK f : AddsUp(f, log, l, age) /\ used(log, l, age) = f[N]
    BY UsedAddsUp
  <1>2. N \in Nat
    OBVIOUS
  <1>3. /\ f[0] = 0 /\ \A i \in 1 .. N : f[i] = f[i - 1] + Counted(log[i], l, age)
        /\ g[0] = 0 /\ \A i \in 1 .. N : g[i] = g[i - 1] + Counted(log[i], l, age)
    BY <1>1 DEF AddsUp
  <1> DEFINE B == {i \in 0 .. N : f[i] = g[i]}
  <1> HIDE DEF N
  <1>4. 0 \in B /\ \A i \in 1 .. N : i - 1 \in B => i \in B
    BY <1>2, <1>3
  <1> HIDE DEF B
  <1>5. N \in B
    <2>1. \A i \in 0 .. N : i \in B
      BY <1>2, <1>4, CountingUp
    <2> QED BY <1>2, <2>1
  <1> QED BY <1>1, <1>5 DEF B, N

LEMMA UsedOfNothing ==
    ASSUME NEW log \in Seq(Task), NEW l, NEW age,
           \A i \in 1 .. Len(log) : Counted(log[i], l, age) = 0
    PROVE  used(log, l, age) = 0
  <1> DEFINE g == [i \in 0 .. Len(log) |-> 0]
  <1>0. Len(log) \in Nat
    OBVIOUS
  <1>1. /\ g \in [0 .. Len(log) -> Nat] /\ g[0] = 0 /\ g[Len(log)] = 0
        /\ \A i \in 1 .. Len(log) : i \in 0 .. Len(log) /\ i - 1 \in 0 .. Len(log)
    BY <1>0
  <1>2. \A i \in 1 .. Len(log) : g[i] = 0 /\ g[i - 1] = 0
    BY <1>1
  <1> HIDE DEF g
  <1>3. AddsUp(g, log, l, age)
    BY <1>1, <1>2 DEF AddsUp
  <1> QED BY <1>1, <1>3, SumIsUsed

LEMMA UsedOfBoth ==
    ASSUME NEW log \in Seq(Task), NEW more \in Seq(Task), NEW l, NEW age
    PROVE  used(log \o more, l, age) = used(log, l, age) + used(more, l, age)
  <1> DEFINE N == Len(log)
             M == Len(more)
             both == log \o more
  <1>1. PICK f : AddsUp(f, log, l, age) /\ used(log, l, age) = f[N]
    BY UsedAddsUp
  <1>2. PICK g : AddsUp(g, more, l, age) /\ used(more, l, age) = g[M]
    BY UsedAddsUp
  <1>3. /\ f \in [0 .. N -> Nat] /\ f[0] = 0
        /\ \A i \in 1 .. N : f[i] = f[i - 1] + Counted(log[i], l, age)
        /\ g \in [0 .. M -> Nat] /\ g[0] = 0
        /\ \A i \in 1 .. M : g[i] = g[i - 1] + Counted(more[i], l, age)
    BY <1>1, <1>2 DEF AddsUp
  <1>4. /\ N \in Nat /\ M \in Nat /\ both \in Seq(Task) /\ Len(both) = N + M
        /\ \A i \in 1 .. N : both[i] = log[i]
        /\ \A i \in N + 1 .. N + M : both[i] = more[i - N]
    OBVIOUS
  <1> HIDE DEF both, N, M
  <1> DEFINE h == [i \in 0 .. N + M |-> IF i <= N THEN f[i] ELSE f[N] + g[i - N]]
  <1>5. h \in [0 .. N + M -> Nat] /\ h[0] = 0
    <2>1. f[N] \in Nat
      BY <1>3, <1>4
    <2>2. ASSUME NEW i \in 0 .. N + M PROVE (IF i <= N THEN f[i] ELSE f[N] + g[i - N]) \in Nat
      <3>1. CASE i <= N
        <4>1. i \in 0 .. N
          BY <1>4, <3>1
        <4> QED BY <1>3, <3>1, <4>1
      <3>2. CASE ~(i <= N)
        <4>1. i - N \in 0 .. M
          BY <1>4, <3>2
        <4>2. g[i - N] \in Nat
          BY <1>3, <4>1
        <4> QED BY <2>1, <3>2, <4>2
      <3> QED BY <3>1, <3>2
    <2>3. 0 \in 0 .. N + M /\ 0 <= N
      BY <1>4
    <2> QED BY <1>3, <2>2, <2>3
  <1>6. ASSUME NEW i \in 1 .. N + M PROVE h[i] = h[i - 1] + Counted(both[i], l, age)
    <2>1. i \in 0 .. N + M /\ i - 1 \in 0 .. N + M
      BY <1>4
    <2>2. CASE i <= N
      <3>1. i \in 1 .. N /\ i - 1 <= N
        BY <1>4, <2>2
      <3>2. h[i] = f[i] /\ h[i - 1] = f[i - 1]
        BY <2>1, <2>2, <3>1
      <3> QED BY <1>3, <1>4, <3>1, <3>2
    <2>3. CASE i = N + 1
      <3>0. ~(i <= N) /\ i - 1 <= N /\ i - 1 = N /\ i - N = 1
        BY <1>4, <2>3
      <3>1. h[i] = f[N] + g[1] /\ h[i - 1] = f[N]
        BY <2>1, <3>0
      <3>2. 1 \in 1 .. M /\ 1 - 1 = 0 /\ i - N = 1 /\ i \in N + 1 .. N + M
        BY <1>4, <2>3
      <3>3. g[1] = g[0] + Counted(more[1], l, age)
        BY <1>3, <3>2
      <3>4. Counted(more[1], l, age) \in Nat
        BY <3>2, CountedType DEF M
      <3>5. both[i] = more[1]
        BY <1>4, <3>2
      <3> QED BY <1>3, <3>1, <3>3, <3>4, <3>5
    <2>4. CASE i > N + 1
      <3>1. /\ ~(i <= N) /\ ~(i - 1 <= N) /\ i - N \in 1 .. M /\ i \in N + 1 .. N + M
            /\ (i - 1) - N = (i - N) - 1 /\ (i - N) - 1 \in 0 .. M
        BY <1>4, <2>4
      <3>2. h[i] = f[N] + g[i - N] /\ h[i - 1] = f[N] + g[(i - N) - 1]
        BY <2>1, <3>1
      <3>3. g[i - N] = g[(i - N) - 1] + Counted(more[i - N], l, age)
        BY <1>3, <3>1
      <3>4. Counted(more[i - N], l, age) \in Nat
        BY <3>1, CountedType DEF M
      <3>5. g[(i - N) - 1] \in Nat /\ f[N] \in Nat
        BY <1>3, <1>4, <3>1
      <3>6. both[i] = more[i - N]
        BY <1>4, <3>1
      <3> HIDE DEF h
      <3> QED BY <3>2, <3>3, <3>4, <3>5, <3>6
    <2> QED BY <1>4, <2>2, <2>3, <2>4
  <1>7. h[N + M] = f[N] + g[M]
    <2>1. CASE M = 0
      BY <1>3, <1>4, <2>1
    <2>2. CASE M # 0
      <3>1. ~(N + M <= N) /\ N + M \in 0 .. N + M /\ (N + M) - N = M
        BY <1>4, <2>2
      <3> QED BY <3>1
    <2> QED BY <2>1, <2>2
  <1> HIDE DEF h
  <1>8. AddsUp(h, both, l, age)
    BY <1>4, <1>5, <1>6 DEF AddsUp
  <1>9. used(both, l, age) = h[N + M]
    BY <1>4, <1>8, SumIsUsed
  <1> QED BY <1>1, <1>2, <1>7, <1>9 DEF both

LEMMA Concatenation ==
    ASSUME NEW S, NEW s \in Seq(S), NEW t \in Seq(S)
    PROVE  /\ s \o t \in Seq(S) /\ Len(s \o t) = Len(s) + Len(t)
           /\ \A i \in 1 .. Len(s) : (s \o t)[i] = s[i]
           /\ \A i \in Len(s) + 1 .. Len(s) + Len(t) : (s \o t)[i] = t[i - Len(s)]
  OBVIOUS

(* Taking out an entry that does not count leaves the weight as it is.      *)
LEMMA WithoutType ==
    ASSUME NEW log \in Seq(Task), NEW j \in 1 .. Len(log)
    PROVE  /\ without(log, j) \in Seq(Task) /\ Len(without(log, j)) = Len(log) - 1
           /\ \A i \in 1 .. j - 1 : without(log, j)[i] = log[i]
           /\ \A i \in j .. Len(log) - 1 : without(log, j)[i] = log[i + 1]
  <1> DEFINE before == SubSeq(log, 1, j - 1)
             after == SubSeq(log, j + 1, Len(log))
  <1>1. Len(log) \in Nat
    OBVIOUS
  <1>2. /\ before \in Seq(Task) /\ Len(before) = j - 1
        /\ \A i \in 1 .. j - 1 : before[i] = log[i]
    BY <1>1
  <1>3. /\ after \in Seq(Task) /\ Len(after) = Len(log) - j
        /\ \A i \in 1 .. Len(log) - j : after[i] = log[i + j]
    BY <1>1
  <1> HIDE DEF before, after
  <1>4. /\ before \o after \in Seq(Task) /\ Len(before \o after) = Len(log) - 1
        /\ \A i \in 1 .. j - 1 : (before \o after)[i] = before[i]
        /\ \A i \in j .. Len(log) - 1 : (before \o after)[i] = after[i - (j - 1)]
    <2>1. /\ before \o after \in Seq(Task) /\ Len(before \o after) = Len(before) + Len(after)
          /\ \A i \in 1 .. Len(before) : (before \o after)[i] = before[i]
          /\ \A i \in Len(before) + 1 .. Len(before) + Len(after) :
                (before \o after)[i] = after[i - Len(before)]
      BY <1>2, <1>3, Concatenation
    <2>2. j \in Nat /\ Len(before) + 1 = j /\ Len(before) + Len(after) = Len(log) - 1
      BY <1>1, <1>2, <1>3
    <2> QED BY <1>2, <2>1, <2>2
  <1>5. \A i \in j .. Len(log) - 1 : after[i - (j - 1)] = log[i + 1]
    <2> SUFFICES ASSUME NEW i \in j .. Len(log) - 1 PROVE after[i - (j - 1)] = log[i + 1]
      OBVIOUS
    <2>1. i - (j - 1) \in 1 .. Len(log) - j /\ (i - (j - 1)) + j = i + 1
      BY <1>1
    <2>2. after[i - (j - 1)] = log[(i - (j - 1)) + j]
      BY <1>3, <2>1
    <2> QED BY <2>1, <2>2
  <1> QED BY <1>2, <1>4, <1>5 DEF without, before, after

LEMMA UsedWithout ==
    ASSUME NEW log \in Seq(Task), NEW j \in 1 .. Len(log), NEW l, NEW age,
           Counted(log[j], l, age) = 0
    PROVE  used(without(log, j), l, age) = used(log, l, age)
  <1> DEFINE N == Len(log)
             rest == without(log, j)
  <1>1. PICK f : AddsUp(f, log, l, age) /\ used(log, l, age) = f[N]
    BY UsedAddsUp
  <1>2. /\ f \in [0 .. N -> Nat] /\ f[0] = 0
        /\ \A i \in 1 .. N : f[i] = f[i - 1] + Counted(log[i], l, age)
    BY <1>1 DEF AddsUp
  <1>3. /\ N \in Nat /\ j \in 1 .. N /\ rest \in Seq(Task) /\ Len(rest) = N - 1
        /\ \A i \in 1 .. j - 1 : rest[i] = log[i]
        /\ \A i \in j .. N - 1 : rest[i] = log[i + 1]
    <2>1. N \in Nat
      OBVIOUS
    <2> QED BY <2>1, WithoutType
  <1> HIDE DEF N, rest
  <1> DEFINE h == [i \in 0 .. N - 1 |-> IF i < j THEN f[i] ELSE f[i + 1]]
  <1>4. h \in [0 .. N - 1 -> Nat] /\ h[0] = 0
    <2>1. ASSUME NEW i \in 0 .. N - 1 PROVE (IF i < j THEN f[i] ELSE f[i + 1]) \in Nat
      <3>1. i \in 0 .. N /\ i + 1 \in 0 .. N
        BY <1>3
      <3> QED BY <1>2, <3>1
    <2>2. 0 \in 0 .. N - 1 /\ 0 < j
      BY <1>3
    <2> QED BY <1>2, <2>1, <2>2
  <1>5. f[j] = f[j - 1]
    <2>1. f[j] = f[j - 1] + 0
      BY <1>2, <1>3
    <2>2. f[j - 1] \in Nat
      <3>1. j - 1 \in 0 .. N
        BY <1>3
      <3> QED BY <1>2, <3>1
    <2> QED BY <2>1, <2>2
  <1>6. ASSUME NEW i \in 1 .. N - 1 PROVE h[i] = h[i - 1] + Counted(rest[i], l, age)
    <2>1. i \in 0 .. N - 1 /\ i - 1 \in 0 .. N - 1 /\ i \in 1 .. N /\ i + 1 \in 1 .. N
      BY <1>3
    <2>2. CASE i < j
      <3>1. i - 1 < j /\ i \in 1 .. j - 1
        BY <1>3, <2>2
      <3>2. h[i] = f[i] /\ h[i - 1] = f[i - 1]
        BY <2>1, <2>2, <3>1
      <3> QED BY <1>2, <1>3, <2>1, <3>1, <3>2
    <2>3. CASE i = j
      <3>0. ~(i < j) /\ i - 1 < j /\ i \in j .. N - 1
        BY <1>3, <2>3
      <3>1. h[i] = f[i + 1] /\ h[i - 1] = f[j - 1]
        BY <2>1, <2>3, <3>0
      <3>2. f[i + 1] = f[j] + Counted(log[i + 1], l, age)
        <4>1. (i + 1) - 1 = j
          BY <1>3, <2>3
        <4> QED BY <1>2, <2>1, <4>1
      <3>3. rest[i] = log[i + 1]
        BY <1>3, <3>0
      <3> HIDE DEF h
      <3> QED BY <1>5, <3>1, <3>2, <3>3
    <2>4. CASE i > j
      <3>0. ~(i < j) /\ ~(i - 1 < j) /\ i \in j .. N - 1 /\ (i - 1) + 1 = i /\ (i + 1) - 1 = i
        BY <1>3, <2>4
      <3>1. h[i] = f[i + 1] /\ h[i - 1] = f[i]
        BY <2>1, <3>0
      <3>2. f[i + 1] = f[i] + Counted(log[i + 1], l, age)
        BY <1>2, <2>1, <3>0
      <3>3. rest[i] = log[i + 1]
        BY <1>3, <3>0
      <3> HIDE DEF h
      <3> QED BY <3>1, <3>2, <3>3
    <2> QED BY <1>3, <2>2, <2>3, <2>4
  <1>7. h[N - 1] = f[N]
    <2>0. N - 1 \in 0 .. N - 1 /\ (N - 1) + 1 = N
      BY <1>3
    <2>1. CASE N = j
      <3>1. N - 1 < j
        BY <1>3, <2>1
      <3>2. h[N - 1] = f[N - 1]
        BY <2>0, <3>1
      <3> HIDE DEF h
      <3> QED BY <1>5, <2>1, <3>2
    <2>2. CASE N # j
      <3>1. ~(N - 1 < j)
        BY <1>3, <2>2
      <3> QED BY <2>0, <3>1
    <2> QED BY <2>1, <2>2
  <1> HIDE DEF h
  <1>8. AddsUp(h, rest, l, age)
    BY <1>3, <1>4, <1>6 DEF AddsUp
  <1>9. used(rest, l, age) = h[N - 1]
    BY <1>3, <1>8, SumIsUsed
  <1> QED BY <1>1, <1>7, <1>9 DEF rest

(* Whatever the log's length and however many entries it skips, flush takes *)
(* out none that is young enough to count.                                  *)
Same(log, more) == \A l \in LimitIds, age \in Nat :
                      age <= OldAge(l) => used(log, l, age) = used(more, l, age)

LEMMA OldAgeType == \A l \in LimitIds : OldAge(l) \in Nat
  BY LimitAssumption DEF OldAge

LEMMA FirstEqual ==
    ASSUME NEW log \in Seq(Task), NEW i \in 1 .. Len(log)
    PROVE  first_equal(log, i) \in 1 .. Len(log) /\ log[first_equal(log, i)] = log[i]
  <1> DEFINE T == {j \in 1 .. i : log[j] = log[i]}
  <1>1. Len(log) \in Nat /\ i \in Nat
    OBVIOUS
  <1>2. T \subseteq Nat /\ i \in T
    BY <1>1
  <1>3. PICK n \in T : \A m \in T : n <= m
    <2> HIDE DEF T
    <2> QED BY <1>2, SmallestNumber
  <1>4. ASSUME NEW k \in 1 .. n - 1, log[k] = log[i] PROVE FALSE
    <2>1. k \in 1 .. i /\ k \in Nat /\ n \in Nat /\ k < n
      BY <1>1, <1>2, <1>3
    <2>2. k \in T
      BY <1>4, <2>1
    <2>3. n <= k
      BY <1>3, <2>2
    <2> QED BY <2>1, <2>3
  <1>5. first_equal(log, i) \in 1 .. i /\ log[first_equal(log, i)] = log[i]
    BY <1>3, <1>4 DEF first_equal
  <1> QED BY <1>1, <1>5

Visit(log, i) == IF i <= Len(log) /\ expired(log[i]) THEN without(log, first_equal(log, i)) ELSE log

LEMMA VisitKeeps ==
    ASSUME NEW log \in Seq(Task), NEW i \in Nat \ {0}
    PROVE  Visit(log, i) \in Seq(Task) /\ Same(Visit(log, i), log)
  <1>1. CASE ~(i <= Len(log) /\ expired(log[i]))
    BY <1>1 DEF Visit, Same
  <1>2. CASE i <= Len(log) /\ expired(log[i])
    <2> DEFINE j == first_equal(log, i)
    <2>1. i \in 1 .. Len(log)
      BY <1>2
    <2>2. j \in 1 .. Len(log) /\ log[j] = log[i]
      BY <2>1, FirstEqual
    <2>3. Visit(log, i) = without(log, j)
      BY <1>2 DEF Visit
    <2> HIDE DEF j
    <2>4. ASSUME NEW l \in LimitIds, NEW age \in Nat, age <= OldAge(l)
          PROVE  Counted(log[j], l, age) = 0
      <3>1. log[j] \in Task
        BY <2>2
      <3>2. log[j].age \in Nat /\ log[j].limit \in LimitIds
        BY <3>1 DEF Task
      <3>3. log[j].age > OldAge(log[j].limit)
        BY <1>2, <2>2 DEF expired
      <3>4. log[j].limit = l => ~(log[j].age <= age)
        BY <2>4, <3>2, <3>3, OldAgeType
      <3> QED BY <3>4 DEF Counted
    <2> QED BY <2>2, <2>3, <2>4, UsedWithout, WithoutType DEF Same
  <1> QED BY <1>1, <1>2

Flushes(f, log) == f = [i \in 0 .. Len(log) |-> IF i = 0 THEN log ELSE Visit(f[i - 1], i)]

LEMMA FlushIsChosen ==
    ASSUME NEW log PROVE flush(log) = (CHOOSE f : Flushes(f, log))[Len(log)]
  BY DEF flush, Flushes, Visit

LEMMA FlushKeeps ==
    ASSUME NEW log \in Seq(Task)
    PROVE  flush(log) \in Seq(Task) /\ Same(flush(log), log)
  <1> DEFINE N == Len(log)
             step == [i \in 1 .. N |-> [t \in Seq(Task) |-> Visit(t, i)]]
             a == CHOOSE f : Flushes(f, log)
  <1>1. N \in Nat
    OBVIOUS
  <1>2. flush(log) = a[N]
    BY FlushIsChosen
  <1> HIDE DEF N
  <1>3. step \in [1 .. N -> [Seq(Task) -> Seq(Task)]]
    BY <1>1, VisitKeeps
  <1>4. \A i \in 1 .. N, t \in Seq(Task) : step[i][t] = Visit(t, i)
    OBVIOUS
  <1> HIDE DEF step
  <1>5. PICK f \in [0 .. N -> Seq(Task)] : Recurses(f, N, log, step)
    BY <1>1, <1>3, RecursionExists
  <1>6. Flushes(f, log)
    <2>1. f = [i \in 0 .. N |-> IF i = 0 THEN log ELSE step[i][f[i - 1]]]
      BY <1>5 DEF Recurses
    <2>2. \A i \in 0 .. N : i # 0 => step[i][f[i - 1]] = Visit(f[i - 1], i)
      BY <1>1, <1>4, <1>5
    <2> QED BY <2>1, <2>2 DEF Flushes, N
  <1>7. Flushes(a, log)
    BY <1>6
  <1> HIDE DEF a
  <1>8. a[0] = log /\ \A i \in 1 .. N : a[i] = Visit(a[i - 1], i)
    BY <1>1, <1>7 DEF Flushes, N
  <1> DEFINE B == {i \in 0 .. N : a[i] \in Seq(Task) /\ Same(a[i], log)}
  <1>9. 0 \in B
    BY <1>1, <1>8 DEF Same
  <1>10. ASSUME NEW i \in 1 .. N, i - 1 \in B PROVE i \in B
    <2>1. a[i - 1] \in Seq(Task) /\ Same(a[i - 1], log) /\ i \in Nat \ {0}
      BY <1>1, <1>10
    <2>2. a[i] \in Seq(Task) /\ Same(a[i], a[i - 1])
      BY <1>8, <2>1, VisitKeeps
    <2>3. Same(a[i], log)
      BY <2>1, <2>2 DEF Same
    <2> QED BY <1>1, <2>2, <2>3
  <1> HIDE DEF B
  <1>11. N \in B
    <2>1. \A i \in 0 .. N : i \in B
      BY <1>1, <1>9, <1>10, CountingUp
    <2> QED BY <1>1, <2>1
  <1> QED BY <1>2, <1>11 DEF B

(* What a call adds to the log weighs what it was checked with.             *)
LEMMA EntriesType ==
    ASSUME NEW r \in Requests
    PROVE  /\ Entries(r) \in Seq(Task) /\ Len(Entries(r)) = Len(Counts[r])
           /\ Len(Counts[r]) \in Nat
           /\ \A i \in 1 .. Len(Counts[r]) :
                /\ Counts[r][i].limit \in LimitIds /\ Counts[r][i].weight \in Nat
                /\ Entries(r)[i].limit = Counts[r][i].limit
                /\ Entries(r)[i].weight = Counts[r][i].weight /\ Entries(r)[i].age = 0
  <1> DEFINE c == Counts[r]
             entry(i) == [limit |-> c[i].limit, weight |-> c[i].weight, age |-> 0]
  <1>1. c \in Seq([limit : LimitIds, weight : Nat \ {0}])
    BY CountsAssumption
  <1>2. Len(c) \in Nat
    BY <1>1
  <1>3. \A i \in 1 .. Len(c) : c[i] \in [limit : LimitIds, weight : Nat \ {0}]
    <2> DEFINE S == [limit : LimitIds, weight : Nat \ {0}]
    <2>1. c \in Seq(S)
      BY <1>1
    <2> HIDE DEF c, S
    <2>2. \A i \in 1 .. Len(c) : c[i] \in S
      BY <2>1
    <2> QED BY <2>2 DEF S
  <1>4. \A i \in 1 .. Len(c) : c[i].limit \in LimitIds /\ c[i].weight \in Nat
    BY <1>3
  <1>5. \A i \in 1 .. Len(c) : /\ entry(i) \in Task
                                /\ entry(i).limit = c[i].limit
                                /\ entry(i).weight = c[i].weight /\ entry(i).age = 0
    <2> SUFFICES ASSUME NEW i \in 1 .. Len(c)
                 PROVE  /\ entry(i) \in Task
                        /\ entry(i).limit = c[i].limit
                        /\ entry(i).weight = c[i].weight /\ entry(i).age = 0
      OBVIOUS
    <2>1. c[i].limit \in LimitIds /\ c[i].weight \in Nat
      BY <1>4
    <2> HIDE DEF c
    <2> QED BY <2>1 DEF Task
  <1>6. Entries(r) = [i \in 1 .. Len(c) |-> entry(i)]
    BY DEF Entries
  <1> HIDE DEF entry, c
  <1>7. Entries(r) \in Seq(Task) /\ Len(Entries(r)) = Len(c)
    BY <1>2, <1>5, <1>6
  <1>8. \A i \in 1 .. Len(c) : Entries(r)[i] = entry(i)
    BY <1>6
  <1>9. \A i \in 1 .. Len(c) : /\ Entries(r)[i].limit = c[i].limit
                                /\ Entries(r)[i].weight = c[i].weight /\ Entries(r)[i].age = 0
    BY <1>5, <1>8
  <1> QED BY <1>2, <1>4, <1>7, <1>9 DEF c

LEMMA EntriesWeigh ==
    ASSUME NEW r \in Requests, NEW l, NEW age \in Nat
    PROVE  /\ used(Entries(r), l, age) = used(Entries(r), l, 0)
           /\ \A i \in 1 .. Len(Counts[r]) :
                 Counts[r][i].limit = l => used(Entries(r), l, age) = Counts[r][i].weight
           /\ (\A i \in 1 .. Len(Counts[r]) : Counts[r][i].limit # l)
                 => used(Entries(r), l, age) = 0
  <1> DEFINE c == Counts[r]
             N == Len(c)
             log == Entries(r)
  <1>0. /\ log \in Seq(Task) /\ Len(log) = N /\ N \in Nat
        /\ \A i \in 1 .. N : /\ c[i].weight \in Nat
                             /\ log[i].limit = c[i].limit /\ log[i].weight = c[i].weight
                             /\ log[i].age = 0
    BY EntriesType
  <1>1. \A i, k \in 1 .. N : c[i].limit = c[k].limit => i = k
    BY CountsAssumption
  <1> HIDE DEF c, N, log
  <1>2. \A i \in 1 .. N : /\ Counted(log[i], l, age) = IF c[i].limit = l THEN c[i].weight ELSE 0
                          /\ Counted(log[i], l, 0) = IF c[i].limit = l THEN c[i].weight ELSE 0
    BY <1>0 DEF Counted
  <1>3. used(log, l, age) = used(log, l, 0)
    BY <1>0, <1>2, UsedIsSame
  <1>4. ASSUME NEW i \in 1 .. N, c[i].limit = l PROVE used(log, l, age) = c[i].weight
    <2> DEFINE g == [n \in 0 .. N |-> IF n < i THEN 0 ELSE c[i].weight]
    <2>1. c[i].weight \in Nat
      BY <1>0
    <2>2. g \in [0 .. N -> Nat] /\ g[0] = 0 /\ g[N] = c[i].weight
      BY <1>0, <2>1
    <2>3. ASSUME NEW n \in 1 .. N PROVE g[n] = g[n - 1] + Counted(log[n], l, age)
      <3>0. n \in 0 .. N /\ n - 1 \in 0 .. N /\ n \in Nat /\ i \in Nat
        BY <1>0
      <3>1. CASE n = i
        <4>1. ~(n < i) /\ n - 1 < i
          BY <3>0, <3>1
        <4>2. g[n] = c[i].weight /\ g[n - 1] = 0
          BY <3>0, <4>1
        <4>3. Counted(log[n], l, age) = c[i].weight
          BY <1>2, <1>4, <3>1
        <4> HIDE DEF g
        <4> QED BY <2>1, <4>2, <4>3
      <3>2. CASE n # i
        <4>1. n < i <=> n - 1 < i
          BY <3>0, <3>2
        <4>2. g[n] = g[n - 1] /\ g[n - 1] \in Nat
          BY <2>2, <3>0, <4>1
        <4>3. Counted(log[n], l, age) = 0
          BY <1>1, <1>2, <1>4, <3>2
        <4> HIDE DEF g
        <4> QED BY <4>2, <4>3
      <3> QED BY <3>1, <3>2
    <2> HIDE DEF g
    <2>4. AddsUp(g, log, l, age)
      BY <1>0, <2>2, <2>3 DEF AddsUp
    <2>5. used(log, l, age) = g[Len(log)]
      BY <1>0, <2>4, SumIsUsed
    <2> QED BY <1>0, <2>2, <2>5
  <1>5. (\A i \in 1 .. N : c[i].limit # l) => used(log, l, age) = 0
    BY <1>0, <1>2, UsedOfNothing
  <1> QED BY <1>3, <1>4, <1>5 DEF c, N, log

----------------------------------------------------------------------------
(* The inductive invariant: the log counts, for every age that matters, all *)
(* the calls that are not older.                                            *)
LogIsComplete == \A l \in LimitIds, age \in Nat :
                    age <= OldAge(l) => sent[l][age] = used(task_logs, l, age)

LimitsInv == task_logs \in Seq(Task) /\ LogIsComplete /\ CallsStayWithinLimits

LEMMA LimitType == \A l \in LimitIds : limit_of(l) \in Nat
  <1> SUFFICES ASSUME NEW l \in LimitIds PROVE limit_of(l) \in Nat
    OBVIOUS
  <1> DEFINE product == Limit[l] * LimitsPct
  <1>1. product \in Nat
    <2>1. Limit[l] \in Nat /\ LimitsPct \in Nat
      BY LimitAssumption
    <2> QED BY <2>1
  <1> HIDE DEF product
  <1>2. product \div 100 \in Int
    BY <1>1
  <1>3. limit_of(l) = IF product \div 100 > 1 THEN product \div 100 ELSE 1
    BY DEF limit_of, product
  <1> QED BY <1>2, <1>3

LEMMA InitLimits == ThrottlerInit => LimitsInv
  <1> SUFFICES ASSUME ThrottlerInit PROVE LimitsInv
    OBVIOUS
  <1>1. task_logs \in Seq(Task) /\ Len(task_logs) = 0
    BY DEF ThrottlerInit
  <1>2. ASSUME NEW l \in LimitIds, NEW age \in Nat, age <= OldAge(l)
        PROVE  sent[l][age] = 0 /\ used(task_logs, l, age) = 0
    <2>1. \A i \in 1 .. Len(task_logs) : Counted(task_logs[i], l, age) = 0
      BY <1>1
    <2>2. used(task_logs, l, age) = 0
      BY <1>1, <2>1, UsedOfNothing
    <2>3. age \in 0 .. OldAge(l)
      BY <1>2, OldAgeType
    <2> QED BY <2>2, <2>3 DEF ThrottlerInit
  <1>3. CallsStayWithinLimits
    <2> SUFFICES ASSUME NEW l \in LimitIds PROVE sent[l][OldAge(l)] <= limit_of(l)
      BY DEF CallsStayWithinLimits
    <2>1. OldAge(l) \in Nat /\ OldAge(l) <= OldAge(l) /\ limit_of(l) \in Nat
      BY OldAgeType, LimitType
    <2> QED BY <1>2, <2>1
  <1> QED BY <1>1, <1>2, <1>3 DEF LimitsInv, LogIsComplete

(* A call is logged, and sent, when it fits every limit it counts against.  *)
LEMMA AttemptKeepsLimits ==
    ASSUME LimitsInv, NEW r \in Requests, attempt(r)
    PROVE  LimitsInv'
  <1> DEFINE log == flush(task_logs)
  <1>1. log \in Seq(Task) /\ Same(log, task_logs)
    BY FlushKeeps DEF LimitsInv
  <1>2. \A l \in LimitIds, age \in Nat : age <= OldAge(l) => sent[l][age] = used(log, l, age)
    BY <1>1 DEF LimitsInv, LogIsComplete, Same
  <1>3. CASE /\ within_capacity(log, r)
             /\ task_logs' = log \o Entries(r)
             /\ sent' = [l \in LimitIds |->
                          [age \in 0 .. OldAge(l) |-> sent[l][age] + used(Entries(r), l, 0)]]
    <2> HIDE DEF log
    <2>1. Entries(r) \in Seq(Task)
      BY EntriesType
    <2>2. task_logs' \in Seq(Task)
      BY <1>1, <1>3, <2>1
    <2>3. ASSUME NEW l \in LimitIds, NEW age \in Nat, age <= OldAge(l)
          PROVE  sent'[l][age] = used(task_logs', l, age)
      <3>1. age \in 0 .. OldAge(l)
        BY <2>3, OldAgeType
      <3>2. sent'[l][age] = sent[l][age] + used(Entries(r), l, 0)
        BY <1>3, <3>1
      <3>3. used(log \o Entries(r), l, age) = used(log, l, age) + used(Entries(r), l, age)
        BY <1>1, <2>1, UsedOfBoth
      <3>4. used(Entries(r), l, age) = used(Entries(r), l, 0)
        BY EntriesWeigh
      <3>5. sent[l][age] = used(log, l, age)
        BY <1>2, <2>3
      <3> QED BY <1>3, <3>2, <3>3, <3>4, <3>5
    <2>4. ASSUME NEW l \in LimitIds PROVE sent'[l][OldAge(l)] <= limit_of(l)
      <3>1. OldAge(l) \in Nat /\ OldAge(l) \in 0 .. OldAge(l) /\ OldAge(l) <= OldAge(l)
        BY OldAgeType
      <3>2. sent'[l][OldAge(l)] = sent[l][OldAge(l)] + used(Entries(r), l, 0)
        BY <1>3, <3>1
      <3>3. sent[l][OldAge(l)] = used(log, l, OldAge(l)) /\ sent[l][OldAge(l)] \in Nat
        BY <1>1, <1>2, <3>1, UsedIsWeight
      <3>4. CASE \E i \in 1 .. Len(Counts[r]) : Counts[r][i].limit = l
        <4>1. PICK i \in 1 .. Len(Counts[r]) : Counts[r][i].limit = l
          BY <3>4
        <4>2. used(Entries(r), l, 0) = Counts[r][i].weight
          BY <4>1, EntriesWeigh
        <4>3. used(log, l, OldAge(l)) + Counts[r][i].weight <= limit_of(l)
          BY <1>3, <4>1 DEF within_capacity, capacity_used
        <4> QED BY <3>2, <3>3, <4>2, <4>3
      <3>5. CASE \A i \in 1 .. Len(Counts[r]) : Counts[r][i].limit # l
        <4>1. used(Entries(r), l, 0) = 0
          BY <3>5, EntriesWeigh
        <4>2. sent[l][OldAge(l)] <= limit_of(l)
          BY DEF LimitsInv, CallsStayWithinLimits
        <4> QED BY <3>2, <3>3, <4>1, <4>2
      <3> QED BY <3>4, <3>5
    <2>5. LogIsComplete'
      BY <2>3 DEF LogIsComplete
    <2>6. CallsStayWithinLimits'
      BY <2>4 DEF CallsStayWithinLimits
    <2> QED BY <2>2, <2>5, <2>6 DEF LimitsInv
  <1>4. CASE task_logs' = log /\ sent' = sent
    <2> HIDE DEF log
    <2> QED BY <1>1, <1>2, <1>4 DEF LimitsInv, LogIsComplete, CallsStayWithinLimits
  <1> QED BY <1>3, <1>4 DEF attempt

(* A call that is one tick older counts up to one tick more.                *)
LEMMA TickKeepsLimits == LimitsInv /\ Tick => LimitsInv'
  <1> SUFFICES ASSUME LimitsInv, Tick PROVE LimitsInv'
    OBVIOUS
  <1> DEFINE older(i) == [task_logs[i] EXCEPT !.age = IF expired(task_logs[i]) THEN @ ELSE @ + 1]
             log == [i \in 1 .. Len(task_logs) |-> older(i)]
  <1>0. /\ task_logs \in Seq(Task) /\ Len(task_logs) \in Nat
        /\ \A i \in 1 .. Len(task_logs) : task_logs[i] \in Task
    BY DEF LimitsInv
  <1>1. ASSUME NEW i \in 1 .. Len(task_logs)
        PROVE  /\ older(i) \in Task
               /\ older(i).limit = task_logs[i].limit /\ older(i).weight = task_logs[i].weight
               /\ older(i).age = IF expired(task_logs[i]) THEN task_logs[i].age
                                                         ELSE task_logs[i].age + 1
    <2>1. task_logs[i] \in Task
      BY <1>0
    <2> QED BY <2>1 DEF Task
  <1>2. task_logs' = log
    BY DEF Tick
  <1> HIDE DEF older
  <1>3. log \in Seq(Task) /\ Len(log) = Len(task_logs) /\ \A i \in 1 .. Len(log) : log[i] = older(i)
    BY <1>0, <1>1
  <1> HIDE DEF log
  <1>4. ASSUME NEW l \in LimitIds, NEW age \in Nat, age <= OldAge(l), NEW i \in 1 .. Len(log)
        PROVE  /\ age = 0 => Counted(log[i], l, age) = 0
               /\ age # 0 => Counted(log[i], l, age) = Counted(task_logs[i], l, age - 1)
    <2>1. /\ task_logs[i] \in Task /\ log[i] = older(i) /\ i \in 1 .. Len(task_logs)
      BY <1>0, <1>3
    <2>2. /\ task_logs[i].age \in Nat /\ task_logs[i].limit \in LimitIds
          /\ log[i].limit = task_logs[i].limit /\ log[i].weight = task_logs[i].weight
      BY <1>1, <2>1 DEF Task
    <2>3. CASE expired(task_logs[i])
      <3>1. log[i].age = task_logs[i].age
        BY <1>1, <2>1, <2>3
      <3>2. log[i].limit = l => log[i].age > age
        BY <1>4, <2>2, <2>3, <3>1, OldAgeType DEF expired
      <3>3. log[i].limit = l => ~(log[i].age <= age) /\ ~(task_logs[i].age <= age - 1)
        BY <2>2, <3>1, <3>2
      <3> QED BY <2>2, <3>3 DEF Counted
    <2>4. CASE ~expired(task_logs[i])
      <3>1. log[i].age = task_logs[i].age + 1
        BY <1>1, <2>1, <2>4
      <3>2. /\ log[i].age <= age <=> task_logs[i].age <= age - 1
            /\ age = 0 => ~(log[i].age <= age)
        BY <2>2, <3>1
      <3> QED BY <2>2, <3>2 DEF Counted
    <2> QED BY <2>3, <2>4
  <1>5. ASSUME NEW l \in LimitIds, NEW age \in Nat, age <= OldAge(l)
        PROVE  sent'[l][age] = used(task_logs', l, age)
    <2>1. age \in 0 .. OldAge(l)
      BY <1>5, OldAgeType
    <2>2. sent'[l][age] = IF age = 0 THEN 0 ELSE sent[l][age - 1]
      BY <2>1 DEF Tick
    <2>3. CASE age = 0
      <3>1. used(log, l, age) = 0
        BY <1>3, <1>4, <1>5, <2>3, UsedOfNothing
      <3> QED BY <1>2, <2>2, <2>3, <3>1
    <2>4. CASE age # 0
      <3>1. used(log, l, age) = used(task_logs, l, age - 1)
        BY <1>0, <1>3, <1>4, <1>5, <2>4, UsedIsSame
      <3>2. age - 1 \in Nat /\ age - 1 <= OldAge(l)
        BY <1>5, <2>4, OldAgeType
      <3>3. sent[l][age - 1] = used(task_logs, l, age - 1)
        BY <3>2 DEF LimitsInv, LogIsComplete
      <3> QED BY <1>2, <2>2, <2>4, <3>1, <3>3
    <2> QED BY <2>3, <2>4
  <1>6. ASSUME NEW l \in LimitIds PROVE sent'[l][OldAge(l)] <= limit_of(l)
    <2> DEFINE old == OldAge(l)
    <2>1. /\ old \in Nat /\ old \in 0 .. old /\ limit_of(l) \in Nat
          /\ old # 0 => old - 1 \in Nat /\ old - 1 <= old
      BY OldAgeType, LimitType
    <2>2. sent'[l][old] = IF old = 0 THEN 0 ELSE sent[l][old - 1]
      BY <2>1 DEF Tick
    <2>3. sent[l][old] <= limit_of(l)
      BY DEF LimitsInv, CallsStayWithinLimits
    <2> HIDE DEF old
    <2>4. CASE old # 0
      <3>1. sent[l][old - 1] = used(task_logs, l, old - 1) /\ sent[l][old] = used(task_logs, l, old)
        BY <2>1, <2>4 DEF LimitsInv, LogIsComplete, old
      <3>2. used(task_logs, l, old - 1) <= used(task_logs, l, old)
        <4>1. ASSUME NEW i \in 1 .. Len(task_logs)
              PROVE  Counted(task_logs[i], l, old - 1) <= Counted(task_logs[i], l, old)
          <5>1. task_logs[i].age \in Nat /\ task_logs[i].weight \in Nat
            BY <1>0 DEF Task
          <5>2. task_logs[i].age <= old - 1 => task_logs[i].age <= old
            BY <2>1, <5>1
          <5> QED BY <5>1, <5>2 DEF Counted
        <4> QED BY <1>0, <4>1, UsedIsMonotone
      <3>3. used(task_logs, l, old - 1) \in Nat /\ used(task_logs, l, old) \in Nat
        BY <1>0, UsedIsWeight
      <3>4. used(task_logs, l, old - 1) <= limit_of(l)
        BY <2>1, <2>3, <3>1, <3>2, <3>3
      <3> QED BY <2>2, <2>4, <3>1, <3>4 DEF old
    <2>5. CASE old = 0
      BY <2>1, <2>2, <2>5 DEF old
    <2> QED BY <2>4, <2>5
  <1> QED BY <1>2, <1>3, <1>5, <1>6 DEF LimitsInv, LogIsComplete, CallsStayWithinLimits

LEMMA LimitsStep == LimitsInv /\ [ThrottlerNext]_throttler => LimitsInv'
  <1> SUFFICES ASSUME LimitsInv, [ThrottlerNext]_throttler PROVE LimitsInv'
    OBVIOUS
  <1>1. CASE Tick
    BY <1>1, TickKeepsLimits
  <1>2. ASSUME NEW r \in Requests, execute_task(r) \/ retry(r) PROVE LimitsInv'
    BY <1>2, AttemptKeepsLimits DEF execute_task, retry
  <1>3. CASE UNCHANGED throttler
    BY <1>3 DEF throttler, LimitsInv, LogIsComplete, CallsStayWithinLimits
  <1> QED BY <1>1, <1>2, <1>3 DEF ThrottlerNext

(* AsyncThrottler "makes sure calls stay within defined limits": in every   *)
(* window of a limit's interval and margin, for any limits, links, weights, *)
(* share and number of requests that retry.                                 *)
THEOREM LimitsHold == ThrottlerSpec => []CallsStayWithinLimits
  <1>1. LimitsInv => CallsStayWithinLimits
    BY DEF LimitsInv
  <1> QED BY <1>1, InitLimits, LimitsStep, PTL DEF ThrottlerSpec
=============================================================================
