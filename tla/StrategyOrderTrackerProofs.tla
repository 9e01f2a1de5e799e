--------------------- MODULE StrategyOrderTrackerProofs ---------------------
(***************************************************************************)
(* The strategy's view of its orders, for any orders, durations and length  *)
(* of the run: orders, cancellations and shadow records follow the events.  *)
(***************************************************************************)
EXTENDS StrategyOrderTracker, TLAPS

TimesArePast == \A o \in Orders : cancels[o] <= now /\ asked[o] <= now /\ stopped[o] <= now

(* An order nobody placed yet left no trace.                                *)
NewOrdersAreUnknown ==
    \A o \in Orders : kind[o] = "new" =>
        /\ o \notin limit \cup market \cup pair \cup shadow
        /\ ended[o] = "live" /\ cancels[o] = None /\ asked[o] = None /\ stopped[o] = None

KindsAreKept ==
    /\ \A o \in limit : kind[o] = "limit"
    /\ \A o \in market : kind[o] = "market"

(* The entry of a living order is its last request, until it expired.       *)
CancelsAreNoted ==
    \A o \in Orders : ended[o] = "live" =>
        cancels[o] = asked[o] \/ (cancels[o] = None /\ asked[o] + CANCEL_EXPIRY_DURATION < now)

(* The requests to drop shadow records are in order, one for each order     *)
(* whose tracking stopped, and none is overdue.                             *)
RequestsAreInOrder ==
    /\ \A i \in 1 .. Len(gc) :
          /\ stopped[gc[i].order] # None
          /\ gc[i].at = stopped[gc[i].order] + SHADOW_MAKER_ORDER_KEEP_ALIVE_DURATION
          /\ now <= gc[i].at
    /\ \A i, j \in 1 .. Len(gc) : i < j => gc[i].at <= gc[j].at /\ gc[i].order # gc[j].order

ShadowsFollow ==
    /\ \A o \in limit : o \in shadow /\ stopped[o] = None
    /\ \A o \in Orders : stopped[o] # None =>
          /\ o \in shadow <=> \E i \in 1 .. Len(gc) : gc[i].order = o
          /\ o \in shadow \/ stopped[o] + SHADOW_MAKER_ORDER_KEEP_ALIVE_DURATION < now

IInv == /\ TypeOK /\ TimesArePast /\ NewOrdersAreUnknown /\ KindsAreKept /\ CancelsAreNoted
        /\ EndedOrdersAreDropped /\ LiveOrdersAreTracked /\ CancelsAreOfTrackedOrders
        /\ RequestsAreInOrder /\ ShadowsFollow

----------------------------------------------------------------------------
LEMMA InitIInv == Init => IInv
  BY MaxTimeAssumption
     DEF Init, IInv, TypeOK, Times, None, TimesArePast, NewOrdersAreUnknown, KindsAreKept,
         CancelsAreNoted, EndedOrdersAreDropped, LiveOrdersAreTracked,
         CancelsAreOfTrackedOrders, RequestsAreInOrder, ShadowsFollow

(* Steps that leave the clock, the requests and the end of tracking alone.  *)
LEMMA QuietShadows ==
    ASSUME RequestsAreInOrder, ShadowsFollow, UNCHANGED <<now, gc, stopped>>,
           shadow \subseteq shadow',
           \A o \in limit' : o \in limit \/ (o \in shadow' /\ stopped[o] = None),
           \A o \in shadow' \ shadow : o \in Orders => stopped[o] = None
    PROVE  RequestsAreInOrder' /\ ShadowsFollow'
  BY DEF RequestsAreInOrder, ShadowsFollow

LEMMA TrackStep ==
    ASSUME IInv, NEW o \in Orders,
           start_tracking_limit_order(o) \/ start_tracking_market_order(o)
    PROVE  IInv'
  <1> USE DEF IInv
  <1>1. PICK type \in {"limit", "market"} :
            /\ Track(o, type)
            /\ type = "limit" => limit' = limit \cup {o} /\ shadow' = shadow \cup {o} /\ market' = market
            /\ type = "market" => market' = market \cup {o} /\ limit' = limit /\ shadow' = shadow
    BY DEF start_tracking_limit_order, start_tracking_market_order
  <1>2. /\ kind[o] = "new" /\ kind' = [kind EXCEPT ![o] = type] /\ pair' = pair \cup {o}
        /\ pending' \subseteq pending \cup {o}
        /\ UNCHANGED <<now, gc, cancels, ended, stopped, asked>>
    BY <1>1 DEF Track
  <1>3. TypeOK' /\ TimesArePast'
    BY <1>1, <1>2 DEF TypeOK, TimesArePast
  <1>4. NewOrdersAreUnknown' /\ KindsAreKept'
    BY <1>1, <1>2 DEF TypeOK, NewOrdersAreUnknown, KindsAreKept
  <1>5. CancelsAreNoted'
    BY <1>2 DEF CancelsAreNoted
  <1>6. EndedOrdersAreDropped' /\ LiveOrdersAreTracked' /\ CancelsAreOfTrackedOrders'
    BY <1>1, <1>2 DEF TypeOK, NewOrdersAreUnknown, EndedOrdersAreDropped,
                      LiveOrdersAreTracked, CancelsAreOfTrackedOrders
  <1>7. RequestsAreInOrder' /\ ShadowsFollow'
    BY <1>1, <1>2, QuietShadows DEF NewOrdersAreUnknown
  <1> QED BY <1>3, <1>4, <1>5, <1>6, <1>7

LEMMA CancelStep ==
    ASSUME IInv, NEW o \in Orders, cancel_order(o)
    PROVE  IInv'
  <1> USE DEF IInv
  <1>1. /\ o \in limit \cup market
        /\ UNCHANGED <<now, limit, market, pair, shadow, gc, pending, kind, ended, stopped>>
    BY DEF cancel_order, tracked
  <1>2. unexpired \in [Orders -> Times] /\ \A p \in Orders : unexpired[p] \in {None, cancels[p]}
    BY DEF unexpired, TypeOK, Times
  <1>3. \A p \in Orders : cancels[p] # None /\ unexpired[p] = None
                             => cancels[p] + CANCEL_EXPIRY_DURATION < now
    BY DurationsAssumption DEF unexpired, expired_cancel, TypeOK, Times, None
  <1>4. \/ check_and_track_cancel(o) /\ cancels' = [unexpired EXCEPT ![o] = now]
           /\ asked' = [asked EXCEPT ![o] = now]
        \/ (cancels' = cancels \/ cancels' = unexpired) /\ asked' = asked
    BY DEF cancel_order, track_cancel, check_and_track_cancel
  <1>5. TypeOK' /\ TimesArePast'
    <2>1. /\ cancels' \in [Orders -> Times] /\ asked' \in [Orders -> Times]
          /\ \A p \in Orders : /\ cancels'[p] \in {None, cancels[p], now}
                             /\ asked'[p] \in {asked[p], now}
      BY <1>2, <1>4 DEF TypeOK, Times
    <2>2. None <= now
      BY DEF TypeOK, None
    <2> QED BY <1>1, <2>1, <2>2 DEF TypeOK, TimesArePast
  <1>6. \A p \in Orders : \/ cancels'[p] \in {None, cancels[p]}
                          \/ p = o
    BY <1>2, <1>4 DEF TypeOK
  <1>7. NewOrdersAreUnknown' /\ KindsAreKept'
    <2>1. kind[o] # "new"
      BY <1>1 DEF KindsAreKept
    <2>2. \A p \in Orders \ {o} : asked'[p] = asked[p]
      BY <1>4 DEF TypeOK
    <2> QED BY <1>1, <1>6, <2>1, <2>2 DEF NewOrdersAreUnknown, KindsAreKept
  <1>8. CancelsAreNoted'
    <2> SUFFICES ASSUME NEW p \in Orders, ended[p] = "live"
                 PROVE  \/ cancels'[p] = asked'[p]
                        \/ cancels'[p] = None /\ asked'[p] + CANCEL_EXPIRY_DURATION < now
      BY <1>1 DEF CancelsAreNoted
    <2>1. CASE asked' = [asked EXCEPT ![o] = now] /\ cancels' = [unexpired EXCEPT ![o] = now]
      <3>1. CASE p = o
        BY <1>2, <2>1, <3>1 DEF TypeOK
      <3>2. CASE p # o
        BY <1>2, <1>3, <2>1, <3>2 DEF TypeOK, CancelsAreNoted
      <3> QED BY <3>1, <3>2
    <2>2. CASE asked' = asked /\ cancels' = cancels
      BY <2>2 DEF CancelsAreNoted
    <2>3. CASE asked' = asked /\ cancels' = unexpired
      BY <1>2, <1>3, <2>3 DEF CancelsAreNoted
    <2> QED BY <1>4, <2>1, <2>2, <2>3
  <1>9. EndedOrdersAreDropped' /\ LiveOrdersAreTracked'
    BY <1>1 DEF EndedOrdersAreDropped, LiveOrdersAreTracked
  <1>10. CancelsAreOfTrackedOrders'
    BY <1>1, <1>6 DEF CancelsAreOfTrackedOrders, KindsAreKept
  <1>11. RequestsAreInOrder' /\ ShadowsFollow'
    BY <1>1, QuietShadows
  <1> QED BY <1>5, <1>7, <1>8, <1>9, <1>10, <1>11

LEMMA AppendFacts ==
    ASSUME NEW S, NEW s \in Seq(S), NEW e \in S
    PROVE  /\ Append(s, e) \in Seq(S) /\ Len(s) \in Nat /\ Len(Append(s, e)) = Len(s) + 1
           /\ Append(s, e)[Len(s) + 1] = e
           /\ \A i \in 1 .. Len(s) : Append(s, e)[i] = s[i] /\ s[i] \in S
  OBVIOUS

Request == [at : Nat, order : Orders]
RequestFor(o) == [at |-> now + SHADOW_MAKER_ORDER_KEEP_ALIVE_DURATION, order |-> o]

LEMMA RequestType == IInv => \A o \in Orders : RequestFor(o) \in Request
  BY DurationsAssumption DEF IInv, TypeOK, Request, RequestFor

(* An end event of a limit order, or of an order taken for one.             *)
LEMMA LimitOrderEnds ==
    ASSUME IInv, NEW o \in Orders, kind[o] # "new", NEW how \in Ends, NoteEnd(o, how),
           stop_tracking_limit_order(o),
           o \in limit \/ how \in {"cancelled", "expired"} \/ o \notin pair,
           kind[o] = "limit" \/ how \in {"cancelled", "expired"},
           UNCHANGED <<now, shadow, pending, kind, asked>>
    PROVE  IInv'
  <1> USE DEF IInv
  <1>1. /\ ended' = [ended EXCEPT ![o] = IF @ = "live" THEN how ELSE @]
        /\ cancels' = [cancels EXCEPT ![o] = None] /\ pair' = pair \ {o} /\ market' = market
    BY DEF NoteEnd, stop_tracking_limit_order, drop_limit_order
  <1>2. \A p \in Orders : p \in limit => p \in pair
    BY DEF EndedOrdersAreDropped, LiveOrdersAreTracked, KindsAreKept, TypeOK
  <1>3. limit' = limit \ {o}
    BY <1>2 DEF stop_tracking_limit_order, drop_limit_order, TypeOK
  <1>4. \/ o \notin limit /\ gc' = gc /\ stopped' = stopped
        \/ /\ o \in limit /\ stopped' = [stopped EXCEPT ![o] = now]
           /\ gc' = Append(gc, RequestFor(o))
    BY <1>2 DEF stop_tracking_limit_order, drop_limit_order, RequestFor
  <1>5. ended'[o] # "live" /\ \A p \in Orders \ {o} : ended'[p] = ended[p]
    BY <1>1 DEF TypeOK, Ends
  <1>6. TypeOK'
    <2>1. gc' \in Seq([at : Nat, order : Orders]) /\ stopped' \in [Orders -> Times]
      <3>1. gc' \in Seq(Request)
        <4>1. gc \in Seq(Request) /\ RequestFor(o) \in Request
          BY RequestType DEF TypeOK, Request
        <4>2. Append(gc, RequestFor(o)) \in Seq(Request)
          BY <4>1, AppendFacts
        <4> QED BY <1>4, <4>1, <4>2
      <3>2. stopped' \in [Orders -> Times]
        BY <1>4 DEF TypeOK, Times
      <3> QED BY <3>1, <3>2 DEF Request
    <2>2. cancels' \in [Orders -> Times] /\ ended' \in [Orders -> {"live"} \cup Ends]
      BY <1>1 DEF TypeOK, Times
    <2> QED BY <1>1, <1>3, <2>1, <2>2 DEF TypeOK
  <1>7. TimesArePast'
    <2>1. \A p \in Orders : /\ stopped'[p] \in {stopped[p], now}
                            /\ cancels'[p] \in {None, cancels[p]}
      BY <1>1, <1>4 DEF TypeOK
    <2> QED BY <2>1 DEF TypeOK, TimesArePast, None
  <1>8. NewOrdersAreUnknown' /\ KindsAreKept'
    <2>1. \A p \in Orders \ {o} : cancels'[p] = cancels[p] /\ stopped'[p] = stopped[p]
      BY <1>1, <1>4 DEF TypeOK
    <2> QED BY <1>1, <1>3, <1>5, <2>1 DEF NewOrdersAreUnknown, KindsAreKept
  <1>9. CancelsAreNoted'
    BY <1>1, <1>5 DEF CancelsAreNoted, TypeOK
  <1>10. EndedOrdersAreDropped'
    BY <1>1, <1>3, <1>5 DEF EndedOrdersAreDropped, KindsAreKept, LiveOrdersAreTracked, TypeOK
  <1>11. LiveOrdersAreTracked'
    BY <1>1, <1>3, <1>5 DEF LiveOrdersAreTracked
  <1>12. CancelsAreOfTrackedOrders'
    BY <1>1, <1>3 DEF CancelsAreOfTrackedOrders, TypeOK
  <1>13. RequestsAreInOrder' /\ ShadowsFollow'
    <2>1. CASE o \notin limit
      BY <1>3, <1>4, <2>1, QuietShadows
    <2>2. CASE o \in limit
      <3> DEFINE e == RequestFor(o)
      <3>1. /\ gc' = Append(gc, e) /\ Len(gc') = Len(gc) + 1 /\ gc'[Len(gc) + 1] = e
            /\ \A i \in 1 .. Len(gc) : gc'[i] = gc[i] /\ gc[i].order \in Orders
            /\ Len(gc) \in Nat
        <4>1. gc \in Seq(Request) /\ RequestFor(o) \in Request
          BY RequestType DEF TypeOK, Request
        <4>2. \A r \in Request : r.order \in Orders
          BY DEF Request
        <4> QED BY <1>4, <2>2, <4>1, <4>2, AppendFacts
      <3>2. stopped'[o] = now /\ \A p \in Orders \ {o} : stopped'[p] = stopped[p]
        BY <1>4, <2>2 DEF TypeOK
      <3>3. stopped[o] = None /\ o \in shadow
        BY <2>2 DEF ShadowsFollow
      <3>4. \A i \in 1 .. Len(gc) : gc[i].order # o /\ gc[i].at <= e.at
        <4> SUFFICES ASSUME NEW i \in 1 .. Len(gc)
                     PROVE  gc[i].order # o /\ gc[i].at <= e.at
          OBVIOUS
        <4>1. gc[i].order \in Orders /\ stopped[gc[i].order] # None
          BY <3>1 DEF RequestsAreInOrder
        <4>2. stopped[gc[i].order] \in Nat /\ stopped[gc[i].order] <= now
          BY <4>1 DEF TypeOK, Times, TimesArePast
        <4> QED BY <3>3, <4>1, <4>2, DurationsAssumption DEF RequestsAreInOrder, TypeOK, RequestFor
      <3>5. now # None /\ now <= e.at
        BY DurationsAssumption DEF TypeOK, None, RequestFor
      <3> HIDE DEF e
      <3>6. e.order = o /\ e.at = now + SHADOW_MAKER_ORDER_KEEP_ALIVE_DURATION
        BY DEF e, RequestFor
      <3>7. \A i \in 1 .. Len(gc') : i \in 1 .. Len(gc) \/ i = Len(gc) + 1
        BY <3>1
      <3>8. RequestsAreInOrder'
        <4>1. \A i \in 1 .. Len(gc') :
                  /\ stopped'[gc'[i].order] # None
                  /\ gc'[i].at = stopped'[gc'[i].order] + SHADOW_MAKER_ORDER_KEEP_ALIVE_DURATION
                  /\ now <= gc'[i].at
          BY <3>1, <3>2, <3>4, <3>5, <3>6, <3>7 DEF RequestsAreInOrder
        <4>2. \A i, j \in 1 .. Len(gc') :
                  i < j => gc'[i].at <= gc'[j].at /\ gc'[i].order # gc'[j].order
          BY <3>1, <3>4, <3>6, <3>7 DEF RequestsAreInOrder
        <4> QED BY <4>1, <4>2 DEF RequestsAreInOrder
      <3>9. ShadowsFollow'
        <4>1. \A p \in limit' : p \in shadow' /\ stopped'[p] = None
          BY <1>3, <3>2 DEF ShadowsFollow, TypeOK
        <4>2. \A p \in Orders \ {o} : (\E i \in 1 .. Len(gc') : gc'[i].order = p)
                                        <=> (\E i \in 1 .. Len(gc) : gc[i].order = p)
          BY <3>1, <3>6, <3>7
        <4>3. \E i \in 1 .. Len(gc') : gc'[i].order = o
          <5>1. Len(gc) + 1 \in 1 .. Len(gc')
            BY <3>1
          <5> QED BY <3>1, <3>6, <5>1
        <4> QED BY <3>2, <3>3, <4>1, <4>2, <4>3 DEF ShadowsFollow
      <3> QED BY <3>8, <3>9
    <2> QED BY <2>1, <2>2
  <1> QED BY <1>6, <1>7, <1>8, <1>9, <1>10, <1>11, <1>12, <1>13

(* An end event that drops no limit order and starts no request.            *)
LEMMA MarketOrderEnds ==
    ASSUME IInv, NEW o \in Orders, kind[o] = "market", NEW how \in Ends, NoteEnd(o, how),
           stop_tracking_market_order(o), UNCHANGED <<now, shadow, pending, kind, asked>>
    PROVE  IInv'
  <1> USE DEF IInv
  <1>1. /\ ended' = [ended EXCEPT ![o] = IF @ = "live" THEN how ELSE @]
        /\ market' = (IF o \in pair THEN market \ {o} ELSE market) /\ pair' = pair \ {o}
        /\ UNCHANGED <<limit, gc, stopped, cancels>>
    BY DEF NoteEnd, stop_tracking_market_order
  <1>2. ended'[o] # "live" /\ \A p \in Orders \ {o} : ended'[p] = ended[p]
    BY <1>1 DEF TypeOK, Ends
  <1>3. TypeOK' /\ TimesArePast'
    BY <1>1 DEF TypeOK, TimesArePast
  <1>4. NewOrdersAreUnknown' /\ KindsAreKept' /\ CancelsAreOfTrackedOrders'
    BY <1>1, <1>2 DEF NewOrdersAreUnknown, KindsAreKept, CancelsAreOfTrackedOrders
  <1>5. CancelsAreNoted' /\ LiveOrdersAreTracked'
    BY <1>1, <1>2 DEF CancelsAreNoted, LiveOrdersAreTracked
  <1>6. EndedOrdersAreDropped'
    BY <1>1, <1>2 DEF EndedOrdersAreDropped, LiveOrdersAreTracked, KindsAreKept, TypeOK
  <1>7. RequestsAreInOrder' /\ ShadowsFollow'
    BY <1>1, QuietShadows
  <1> QED BY <1>3, <1>4, <1>5, <1>6, <1>7

(* A repeated event of an order that is dropped already.                    *)
LEMMA EndRepeated ==
    ASSUME IInv, NEW o \in Orders, kind[o] # "new", NEW how \in Ends, NoteEnd(o, how),
           o \notin pair,
           UNCHANGED <<now, limit, market, pair, shadow, gc, cancels, pending, kind, stopped, asked>>
    PROVE  IInv'
  <1> USE DEF IInv
  <1>1. ended[o] # "live"
    BY DEF LiveOrdersAreTracked
  <1>2. ended' = ended
    BY <1>1 DEF NoteEnd, TypeOK
  <1> QED
    <2>1. TypeOK' /\ TimesArePast' /\ NewOrdersAreUnknown' /\ KindsAreKept' /\ CancelsAreNoted'
      BY <1>2 DEF TypeOK, TimesArePast, NewOrdersAreUnknown, KindsAreKept, CancelsAreNoted
    <2>2. EndedOrdersAreDropped' /\ LiveOrdersAreTracked' /\ CancelsAreOfTrackedOrders'
      BY <1>2 DEF EndedOrdersAreDropped, LiveOrdersAreTracked, CancelsAreOfTrackedOrders
    <2>3. RequestsAreInOrder' /\ ShadowsFollow'
      BY QuietShadows
    <2> QED BY <2>1, <2>2, <2>3

LEMMA EndStep ==
    ASSUME IInv, NEW o \in Orders,
           did_fail_order(o) \/ did_cancel_order(o) \/ did_complete_order(o)
    PROVE  IInv'
  <1>1. PICK how \in Ends : NoteEnd(o, how) /\
            \/ how = "failed" /\ did_fail_order(o)
            \/ how \in {"cancelled", "expired"} /\ did_cancel_order(o)
            \/ how = "completed" /\ did_complete_order(o)
    BY DEF did_fail_order, did_cancel_order, did_complete_order, Ends
  <1>2. kind[o] # "new" /\ UNCHANGED <<now, shadow, pending, kind, asked>>
    BY <1>1 DEF did_fail_order, did_cancel_order, did_complete_order
  <1>3. kind[o] = "limit" => o \in limit \/ o \notin pair
    BY DEF IInv, LiveOrdersAreTracked, EndedOrdersAreDropped
  <1>4. kind[o] \in {"new", "limit", "market"}
    BY DEF IInv, TypeOK
  <1>5. \/ stop_tracking_limit_order(o) /\ (kind[o] = "limit" \/ how \in {"cancelled", "expired"})
        \/ stop_tracking_market_order(o) /\ kind[o] = "market"
        \/ o \notin pair /\ UNCHANGED <<limit, market, pair, gc, stopped, cancels>>
    <2>1. CASE did_fail_order(o)
      BY <1>2, <1>4, <2>1 DEF did_fail_order
    <2>2. CASE how \in {"cancelled", "expired"} /\ did_cancel_order(o)
      BY <2>2 DEF did_cancel_order
    <2>3. CASE did_complete_order(o)
      BY <1>2, <1>4, <2>3 DEF did_complete_order, tracked
    <2> QED BY <1>1, <2>1, <2>2, <2>3
  <1>6. CASE stop_tracking_limit_order(o) /\ (kind[o] = "limit" \/ how \in {"cancelled", "expired"})
    BY <1>1, <1>2, <1>3, <1>6, LimitOrderEnds
  <1>7. CASE stop_tracking_market_order(o) /\ kind[o] = "market"
    BY <1>1, <1>2, <1>7, MarketOrderEnds
  <1>8. CASE o \notin pair /\ UNCHANGED <<limit, market, pair, gc, stopped, cancels>>
    BY <1>1, <1>2, <1>8, EndRepeated
  <1> QED BY <1>5, <1>6, <1>7, <1>8

LEMMA SubSeqFacts ==
    ASSUME NEW S, NEW s \in Seq(S), NEW n \in 0 .. Len(s)
    PROVE  /\ SubSeq(s, n + 1, Len(s)) \in Seq(S) /\ Len(s) \in Nat
           /\ Len(SubSeq(s, n + 1, Len(s))) = Len(s) - n
           /\ \A i \in 1 .. Len(s) - n : SubSeq(s, n + 1, Len(s))[i] = s[n + i]
           /\ \A i \in 1 .. Len(s) : s[i] \in S
  OBVIOUS

LEMMA TickStep == IInv /\ tick => IInv'
  <1> SUFFICES ASSUME IInv, tick PROVE IInv'
    OBVIOUS
  <1> USE DEF IInv
  <1>1. PICK n \in 0 .. Len(gc) :
            /\ \A i \in 1 .. n : gc[i].at < now'
            /\ n < Len(gc) => ~(gc[n + 1].at < now')
            /\ gc' = SubSeq(gc, n + 1, Len(gc))
            /\ shadow' = shadow \ {gc[i].order : i \in 1 .. n}
    BY DEF tick, Due
  <1>2. /\ now' = now + 1 /\ now < MaxTime
        /\ UNCHANGED <<limit, market, pair, cancels, pending, kind, ended, stopped, asked>>
    BY DEF tick, tracked
  <1>3. /\ gc' \in Seq(Request) /\ Len(gc) \in Nat /\ n \in Nat /\ n <= Len(gc)
        /\ Len(gc') = Len(gc) - n
        /\ \A i \in 1 .. Len(gc') : gc'[i] = gc[n + i] /\ n + i \in 1 .. Len(gc)
        /\ \A i \in 1 .. Len(gc) : gc[i].order \in Orders /\ gc[i].at \in Nat
    <2>1. gc \in Seq(Request) /\ \A r \in Request : r.order \in Orders /\ r.at \in Nat
      BY DEF TypeOK, Request
    <2> HIDE DEF IInv
    <2> QED BY <1>1, <2>1, SubSeqFacts
  <1>4. TypeOK'
    BY <1>1, <1>2, <1>3, MaxTimeAssumption DEF TypeOK, Request
  <1>5. TimesArePast'
    BY <1>2 DEF TypeOK, Times, None, TimesArePast
  <1>6. NewOrdersAreUnknown' /\ KindsAreKept'
    BY <1>1, <1>2 DEF NewOrdersAreUnknown, KindsAreKept
  <1>7. CancelsAreNoted'
    BY <1>2, DurationsAssumption DEF CancelsAreNoted, TypeOK, Times, None
  <1>8. EndedOrdersAreDropped' /\ LiveOrdersAreTracked' /\ CancelsAreOfTrackedOrders'
    BY <1>2 DEF EndedOrdersAreDropped, LiveOrdersAreTracked, CancelsAreOfTrackedOrders
  <1>9. \A i \in 1 .. Len(gc) : i > n => now' <= gc[i].at
    <2> SUFFICES ASSUME NEW i \in 1 .. Len(gc), i > n
                 PROVE  now' <= gc[i].at
      OBVIOUS
    <2>1. n + 1 \in 1 .. Len(gc) /\ now' <= gc[n + 1].at
      BY <1>1, <1>2, <1>3 DEF TypeOK
    <2>2. gc[n + 1].at <= gc[i].at
      BY <1>3, <2>1 DEF RequestsAreInOrder
    <2> QED BY <1>2, <1>3, <2>1, <2>2 DEF TypeOK
  <1>10. RequestsAreInOrder'
    <2>1. ASSUME NEW i \in 1 .. Len(gc')
          PROVE  /\ stopped'[gc'[i].order] # None
                 /\ gc'[i].at = stopped'[gc'[i].order] + SHADOW_MAKER_ORDER_KEEP_ALIVE_DURATION
                 /\ now' <= gc'[i].at
      <3>1. gc'[i] = gc[n + i] /\ n + i \in 1 .. Len(gc) /\ n + i > n
        BY <1>3
      <3> QED BY <1>2, <1>9, <3>1 DEF RequestsAreInOrder
    <2>2. ASSUME NEW i \in 1 .. Len(gc'), NEW j \in 1 .. Len(gc'), i < j
          PROVE  gc'[i].at <= gc'[j].at /\ gc'[i].order # gc'[j].order
      <3>1. /\ gc'[i] = gc[n + i] /\ n + i \in 1 .. Len(gc)
            /\ gc'[j] = gc[n + j] /\ n + j \in 1 .. Len(gc) /\ n + i < n + j
        BY <1>3, <2>2
      <3> QED BY <3>1 DEF RequestsAreInOrder
    <2> QED BY <2>1, <2>2 DEF RequestsAreInOrder
  <1>11. ShadowsFollow'
    <2>1. \A o \in limit' : o \in shadow' /\ stopped'[o] = None
      BY <1>1, <1>2, <1>3 DEF ShadowsFollow, RequestsAreInOrder
    <2> SUFFICES ASSUME NEW o \in Orders, stopped[o] # None
                 PROVE  /\ o \in shadow' <=> \E i \in 1 .. Len(gc') : gc'[i].order = o
                        /\ o \in shadow' \/ stopped[o] + SHADOW_MAKER_ORDER_KEEP_ALIVE_DURATION < now'
      BY <1>2, <2>1 DEF ShadowsFollow
    <2>2. stopped[o] \in Nat
      BY DEF TypeOK, Times
    <2>3. CASE \E i \in 1 .. n : gc[i].order = o
      <3>1. PICK i \in 1 .. n : gc[i].order = o
        BY <2>3
      <3>2. i \in 1 .. Len(gc) /\ gc[i].at < now'
        BY <1>1, <1>3
      <3>3. o \notin shadow' /\ stopped[o] + SHADOW_MAKER_ORDER_KEEP_ALIVE_DURATION < now'
        BY <1>1, <3>1, <3>2 DEF RequestsAreInOrder
      <3>4. \A j \in 1 .. Len(gc') : gc'[j].order # o
        BY <1>3, <3>1, <3>2 DEF RequestsAreInOrder
      <3> QED BY <3>3, <3>4
    <2>4. CASE ~ \E i \in 1 .. n : gc[i].order = o
      <3>1. o \in shadow' <=> o \in shadow
        BY <1>1, <2>4
      <3>2. (\E i \in 1 .. Len(gc') : gc'[i].order = o) => (\E i \in 1 .. Len(gc) : gc[i].order = o)
        BY <1>3
      <3>3. ASSUME NEW i \in 1 .. Len(gc), gc[i].order = o
            PROVE  \E j \in 1 .. Len(gc') : gc'[j].order = o
        <4>1. i > n
          BY <1>3, <2>4, <3>3
        <4>2. i - n \in 1 .. Len(gc') /\ n + (i - n) = i
          BY <1>3, <4>1
        <4> QED BY <1>3, <3>3, <4>2
      <3>4. (\E i \in 1 .. Len(gc) : gc[i].order = o) <=> o \in shadow
        BY DEF ShadowsFollow
      <3>5. o \in shadow \/ stopped[o] + SHADOW_MAKER_ORDER_KEEP_ALIVE_DURATION < now'
        BY <1>2, <2>2, DurationsAssumption DEF ShadowsFollow, TypeOK
      <3> QED BY <3>1, <3>2, <3>3, <3>4, <3>5
    <2> QED BY <2>3, <2>4
  <1> QED BY <1>4, <1>5, <1>6, <1>7, <1>8, <1>10, <1>11

LEMMA NextIInv == IInv /\ [Next]_vars => IInv'
  <1> SUFFICES ASSUME IInv, [Next]_vars PROVE IInv'
    OBVIOUS
  <1>1. CASE Next
    <2>1. ASSUME NEW o \in Orders,
                 start_tracking_limit_order(o) \/ start_tracking_market_order(o)
          PROVE  IInv'
      BY <2>1, TrackStep
    <2>2. ASSUME NEW o \in Orders, remove_create_order_pending(o)
          PROVE  IInv'
      <3>1. pending' = pending \ {o} /\ UNCHANGED <<now, limit, market, pair, shadow, gc, cancels, kind, ended, stopped, asked>>
        BY <2>2 DEF remove_create_order_pending, tracked
      <3>2. TypeOK' /\ TimesArePast' /\ NewOrdersAreUnknown' /\ KindsAreKept' /\ CancelsAreNoted'
        BY <3>1 DEF IInv, TypeOK, TimesArePast, NewOrdersAreUnknown, KindsAreKept, CancelsAreNoted
      <3>3. EndedOrdersAreDropped' /\ LiveOrdersAreTracked' /\ CancelsAreOfTrackedOrders'
        BY <3>1 DEF IInv, EndedOrdersAreDropped, LiveOrdersAreTracked, CancelsAreOfTrackedOrders
      <3>4. RequestsAreInOrder' /\ ShadowsFollow'
        BY <3>1, QuietShadows DEF IInv
      <3> QED BY <3>2, <3>3, <3>4 DEF IInv
    <2>3. ASSUME NEW o \in Orders, cancel_order(o)
          PROVE  IInv'
      BY <2>3, CancelStep
    <2>4. ASSUME NEW o \in Orders,
                 did_fail_order(o) \/ did_cancel_order(o) \/ did_complete_order(o)
          PROVE  IInv'
      BY <2>4, EndStep
    <2>5. CASE tick
      BY <2>5, TickStep
    <2> QED BY <1>1, <2>1, <2>2, <2>3, <2>4, <2>5 DEF Next
  <1>2. CASE UNCHANGED vars
    <2>1. UNCHANGED <<now, limit, market, pair, shadow, gc, cancels, pending, kind, ended, stopped, asked>>
      BY <1>2 DEF vars
    <2>2. TypeOK' /\ TimesArePast' /\ NewOrdersAreUnknown' /\ KindsAreKept' /\ CancelsAreNoted'
      BY <2>1 DEF IInv, TypeOK, TimesArePast, NewOrdersAreUnknown, KindsAreKept, CancelsAreNoted
    <2>3. EndedOrdersAreDropped' /\ LiveOrdersAreTracked' /\ CancelsAreOfTrackedOrders'
      BY <2>1 DEF IInv, EndedOrdersAreDropped, LiveOrdersAreTracked, CancelsAreOfTrackedOrders
    <2>4. RequestsAreInOrder' /\ ShadowsFollow'
      BY <2>1, QuietShadows DEF IInv
    <2> QED BY <2>2, <2>3, <2>4 DEF IInv
  <1> QED BY <1>1, <1>2

LEMMA Invariance == Spec => []IInv
  BY InitIInv, NextIInv, PTL DEF Spec

----------------------------------------------------------------------------
(* However end events are repeated, late or of the wrong kind, the orders   *)
(* the strategy tracks are those that were placed and have not ended; only  *)
(* cancelled market orders stay behind (order_tracker.pyx, c_stop_tracking).*)
THEOREM TheStrategyTracksLiveOrders == Spec => []TrackingFollowsEvents
  <1>1. IInv => TrackingFollowsEvents
    BY DEF IInv, TrackingFollowsEvents
  <1> QED BY <1>1, Invariance, PTL

(* No cancellation is in flight of a limit order that is not tracked.       *)
THEOREM CancellationsAreOfTrackedOrders == Spec => []CancelsAreOfTrackedOrders
  <1>1. IInv => CancelsAreOfTrackedOrders
    BY DEF IInv
  <1> QED BY <1>1, Invariance, PTL

(* A late fill within the keep-alive duration finds its limit order in the  *)
(* shadow records, and the records are dropped a tick after it.             *)
THEOREM ShadowsOutliveTracking == Spec => []ShadowOutlivesTracking
  <1>1. IInv => ShadowOutlivesTracking
    <2> SUFFICES ASSUME IInv PROVE ShadowOutlivesTracking
      OBVIOUS
    <2> SUFFICES ASSUME NEW o \in Orders, stopped[o] # None
                 PROVE  o \in shadow <=> now <= stopped[o] + SHADOW_MAKER_ORDER_KEEP_ALIVE_DURATION
      BY DEF IInv, ShadowsFollow, ShadowOutlivesTracking
    <2>1. stopped[o] \in Nat /\ now \in Nat
      BY DEF IInv, TypeOK, Times
    <2>2. o \in shadow => now <= stopped[o] + SHADOW_MAKER_ORDER_KEEP_ALIVE_DURATION
      BY DEF IInv, ShadowsFollow, RequestsAreInOrder
    <2>3. o \in shadow \/ stopped[o] + SHADOW_MAKER_ORDER_KEEP_ALIVE_DURATION < now
      BY DEF IInv, ShadowsFollow
    <2> QED BY <2>1, <2>2, <2>3, DurationsAssumption
  <1> QED BY <1>1, Invariance, PTL

(* The market is not asked twice within the expiry duration to cancel an    *)
(* order that lives: c_check_and_track_cancel refuses.                      *)
THEOREM CancellationsAreSpaced == Spec => CancelsAreSpaced
  <1> DEFINE Spaced == \A o \in Orders : ended[o] = "live" /\ asked'[o] # asked[o] /\ asked[o] # None
                                          => now > asked[o] + CANCEL_EXPIRY_DURATION
  <1>1. IInv /\ [Next]_vars => [Spaced]_vars
    <2> SUFFICES ASSUME IInv, Next, NEW o \in Orders,
                        ended[o] = "live", asked'[o] # asked[o], asked[o] # None
                 PROVE  now > asked[o] + CANCEL_EXPIRY_DURATION
      OBVIOUS
    <2>1. cancel_order(o) /\ check_and_track_cancel(o)
      <3>1. asked' # asked
        OBVIOUS
      <3>2. PICK p \in Orders : cancel_order(p)
        BY <3>1 DEF Next, start_tracking_limit_order, start_tracking_market_order, Track,
                    remove_create_order_pending, did_fail_order, did_cancel_order,
                    did_complete_order, tick
      <3>3. check_and_track_cancel(p) /\ asked' = [asked EXCEPT ![p] = now]
        BY <3>1, <3>2 DEF cancel_order
      <3>4. p = o
        BY <3>3 DEF IInv, TypeOK
      <3> QED BY <3>2, <3>3, <3>4
    <2>2. unexpired[o] = None
      BY <2>1 DEF check_and_track_cancel
    <2>3. cancels[o] = None \/ cancels[o] < now - CANCEL_EXPIRY_DURATION
      BY <2>2 DEF unexpired, expired_cancel
    <2>4. cancels[o] = asked[o] \/ (cancels[o] = None /\ asked[o] + CANCEL_EXPIRY_DURATION < now)
      BY DEF IInv, CancelsAreNoted
    <2>5. asked[o] \in Nat /\ now \in Nat
      BY DEF IInv, TypeOK, Times
    <2> QED BY <2>3, <2>4, <2>5, DurationsAssumption
  <1>2. Spec => [][Spaced]_vars
    BY <1>1, Invariance, PTL DEF Spec
  <1> QED BY <1>2 DEF CancelsAreSpaced
=============================================================================
