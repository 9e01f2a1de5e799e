------------------------------ MODULE OrderBook ------------------------------
(***************************************************************************)
(* One local order book (core/data_type/order_book.pyx over                 *)
(* core/cpp/OrderBookEntry.cpp), as pure operators on its value.  A side is *)
(* a set of entries with distinct prices.  No connector creates a book with *)
(* dex = True, so only the centralised rules are here.  Volume queries,     *)
(* which change nothing, and trades are left out.                           *)
(***************************************************************************)
EXTENDS Integers, Sequences, FiniteSets

Entry == [price : Nat, amount : Nat, update_id : Nat]

(* The best prices start as NaN, which no comparison equals.                *)
NaN == 0

EmptyBook == [bids |-> {}, asks |-> {}, best_bid |-> NaN, best_ask |-> NaN,
              snapshot_uid |-> 0, last_diff_uid |-> 0]

highest(side) == CHOOSE e \in side : \A f \in side : f.price <= e.price
lowest(side)  == CHOOSE e \in side : \A f \in side : e.price <= f.price

----------------------------------------------------------------------------
(* Mutant of Overlaps: equal prices do not overlap.                         *)
Crosses(s) == s.bids # {} /\ s.asks # {} /\ highest(s.bids).price > lowest(s.asks).price

(* truncateOverlapEntriesCentralised: while the best bid reaches the best   *)
(* ask, the one with the older update id goes, the bid if they are equal.   *)
Overlaps(s) == s.bids # {} /\ s.asks # {} /\ highest(s.bids).price >= lowest(s.asks).price

(* Mutant of bidIsNewer: the older entry wins.                              *)
bidIsOlder(s) == highest(s.bids).update_id < lowest(s.asks).update_id

bidIsNewer(s) == highest(s.bids).update_id > lowest(s.asks).update_id

eraseOne(s) ==
    IF ~Overlaps(s) THEN s
    ELSE IF bidIsNewer(s)
           THEN [s EXCEPT !.asks = @ \ {lowest(@)}]
           ELSE [s EXCEPT !.bids = @ \ {highest(@)}]

truncateOverlapEntries(s) ==
    LET after[n \in 0 .. Cardinality(s.bids) + Cardinality(s.asks)] ==
            IF n = 0 THEN s ELSE eraseOne(after[n - 1])
    IN after[Cardinality(s.bids) + Cardinality(s.asks)]

(* A row replaces the entry with its price; an amount of zero deletes it.   *)
merge(side, rows) ==
    {e \in side : \A row \in rows : row.price # e.price} \cup {row \in rows : row.amount > 0}

(* Mutant of apply_diffs: the best prices are recorded before truncating.   *)
quote_before_truncating(book, bids, asks, update_id) ==
    LET merged == [bids |-> merge(book.bids, bids), asks |-> merge(book.asks, asks)]
        sides  == truncateOverlapEntries(merged)
    IN [book EXCEPT !.bids = sides.bids, !.asks = sides.asks, !.last_diff_uid = update_id,
                    !.best_bid = IF merged.bids = {} THEN @ ELSE highest(merged.bids).price,
                    !.best_ask = IF merged.asks = {} THEN @ ELSE lowest(merged.asks).price]

(* c_apply_diffs.  The cached best price of a side that became empty stays. *)
apply_diffs(book, bids, asks, update_id) ==
    LET sides == truncateOverlapEntries([bids |-> merge(book.bids, bids),
                                         asks |-> merge(book.asks, asks)])
    IN [book EXCEPT !.bids = sides.bids, !.asks = sides.asks, !.last_diff_uid = update_id,
                    !.best_bid = IF sides.bids = {} THEN @ ELSE highest(sides.bids).price,
                    !.best_ask = IF sides.asks = {} THEN @ ELSE lowest(sides.asks).price]

(* c_apply_snapshot: the book is replaced, and not truncated.               *)
apply_snapshot(book, bids, asks, update_id) ==
    [book EXCEPT
     !.bids = bids, !.asks = asks, !.snapshot_uid = update_id,
     !.best_bid = IF bids = {} THEN NaN ELSE highest(bids).price,
     !.best_ask = IF asks = {} THEN NaN ELSE lowest(asks).price]

----------------------------------------------------------------------------
(* OrderBookMessage.__lt__, for the messages that carry an update id        *)
(* (snapshots and diffs): its last disjunct holds for every such left side, *)
(* whatever the ids and the timestamps are.                                 *)
has_update_id(message) == message.type \in {"DIFF", "SNAPSHOT"}

(* Mutant of precedes: the order is reversed.                               *)
follows(a, b) == has_update_id(a) /\ has_update_id(b) /\ a.update_id > b.update_id

precedes(a, b) == \/ has_update_id(a) /\ has_update_id(b) /\ a.update_id < b.update_id
                  \/ has_update_id(a)

(* bisect_right: how many of the past diffs the snapshot does not precede.  *)
replay_position(diffs, snapshot) ==
    Cardinality({i \in 1 .. Len(diffs) : ~precedes(snapshot, diffs[i])})

replay_diffs(diffs, snapshot) ==
    SubSeq(diffs, replay_position(diffs, snapshot) + 1, Len(diffs))

restore_from_snapshot_and_diffs(book, snapshot, diffs) ==
    LET later == replay_diffs(diffs, snapshot)
        after[n \in 0 .. Len(later)] ==
            IF n = 0 THEN apply_snapshot(book, snapshot.bids, snapshot.asks, snapshot.update_id)
            ELSE apply_diffs(after[n - 1], later[n].bids, later[n].asks, later[n].update_id)
    IN after[Len(later)]

(* c_get_price raises when the side is empty.                               *)
can_get_price(book, is_buy) == (IF is_buy THEN book.asks ELSE book.bids) # {}
get_price(book, is_buy)     == IF is_buy THEN book.best_ask ELSE book.best_bid
=============================================================================
