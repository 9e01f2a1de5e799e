--------------------------- MODULE OrderBookTracker ---------------------------
(***************************************************************************)
(* Keeping one local order book in step with the exchange                   *)
(* (core/data_type/order_book_tracker.py).  Diffs come over a websocket     *)
(* that can lose them, snapshots over REST calls that take their time; the  *)
(* two routers and the coroutine of the book share queues on one loop.      *)
(*                                                                         *)
(* Update ids number the versions of the exchange's book, so a message is   *)
(* its type and its id.  The path from the websocket to the diff router is  *)
(* one queue, and so is the path of the periodic snapshots.                 *)
(***************************************************************************)
EXTENDS OrderBook

CONSTANTS Prices, Amounts,     \* of the exchange's levels; amount 0: no level
          FirstBooks,          \* the books the exchange may start with
          PAST_DIFF_WINDOW_SIZE,
          SavedLimit,          \* maxlen of the deque of saved diffs
          MaxUpdates,          \* bound: versions of the exchange's book
          MaxSnapshots         \* bound: periodic snapshots

ASSUME LevelsAssumption == Prices \subseteq Nat \ {0} /\ Amounts \subseteq Nat /\ 0 \in Amounts
ASSUME PricesAssumption == IsFiniteSet(Prices)
ASSUME LimitsAssumption == PAST_DIFF_WINDOW_SIZE \in Nat \ {0} /\ SavedLimit \in Nat \ {0}

VARIABLES
    exchange_book,      \* every version of the exchange's book, by update id
    diff_stream,        \* _order_book_diff_stream, with all that feeds it
    snapshot_stream,    \* _order_book_snapshot_stream, with the REST calls in flight
    snapshots_asked,
    initial_snapshot,   \* answer to get_new_order_book in flight, 0 for none
    tracking,           \* the book, its queue and its task exist
    order_book, saved_messages, message_queue, past_diffs_window,
    missed              \* history: see ProcessedBookIsCurrent

external == <<exchange_book, snapshots_asked>>
book     == <<tracking, order_book, saved_messages, past_diffs_window>>
vars == <<exchange_book, diff_stream, snapshot_stream, snapshots_asked, initial_snapshot,
          tracking, order_book, saved_messages, message_queue, past_diffs_window, missed>>

Latest == Len(exchange_book)

(* The books the matching engine can show: no bid reaches an ask.           *)
MarketBooks == {b \in [bids : [Prices -> Amounts], asks : [Prices -> Amounts]] :
                  \A p, q \in Prices : b.bids[p] > 0 /\ b.asks[q] > 0 => p < q}

ASSUME FirstBooksAssumption == FirstBooks \subseteq MarketBooks

(* The rows of a message: a snapshot lists the levels of its version, a     *)
(* diff the levels that changed with it.                                    *)
Rows(n, side, prices) ==
    {[price |-> p, amount |-> exchange_book[n][side][p], update_id |-> n] : p \in prices}
Levels(n, side)  == Rows(n, side, {p \in Prices : exchange_book[n][side][p] > 0})
Changes(n, side) == Rows(n, side, {p \in Prices : exchange_book[n][side][p] # exchange_book[n - 1][side][p]})

Diff(n)     == [type |-> "DIFF", update_id |-> n, bids |-> Changes(n, "bids"), asks |-> Changes(n, "asks")]
Snapshot(n) == [type |-> "SNAPSHOT", update_id |-> n, bids |-> Levels(n, "bids"), asks |-> Levels(n, "asks")]

(* Appending to a deque with a maximal length drops its first element.      *)
deque_append(deque, maxlen, element) ==
    LET longer == Append(deque, element)
    IN IF Len(longer) > maxlen THEN Tail(longer) ELSE longer

Init ==
    /\ exchange_book \in [1 .. 1 -> FirstBooks]
    /\ diff_stream = <<>> /\ snapshot_stream = <<>> /\ snapshots_asked = 0
    /\ initial_snapshot = 0 /\ tracking = FALSE
    /\ order_book = EmptyBook
    /\ saved_messages = <<>> /\ message_queue = <<>> /\ past_diffs_window = <<>>
    /\ missed = FALSE

----------------------------------------------------------------------------
(* The exchange's book changes; the diff is queued, or the websocket is     *)
(* down and it is lost.                                                     *)
exchange_changes(next) ==
    /\ Latest < MaxUpdates /\ next # exchange_book[Latest]
    /\ exchange_book' = Append(exchange_book, next)
    /\ \/ diff_stream' = Append(diff_stream, Diff(Latest)') /\ UNCHANGED missed
       \/ missed' = TRUE /\ UNCHANGED diff_stream
    /\ UNCHANGED <<snapshot_stream, snapshots_asked, initial_snapshot, book, message_queue>>

(* The exchange answers the REST call of get_new_order_book, or of a        *)
(* periodic snapshot, with its book as it is.                               *)
answer_initial_snapshot ==
    /\ initial_snapshot = 0 /\ ~tracking
    /\ initial_snapshot' = Latest
    /\ UNCHANGED <<external, diff_stream, snapshot_stream, book, message_queue, missed>>

answer_snapshot ==
    /\ snapshots_asked < MaxSnapshots
    /\ snapshots_asked' = snapshots_asked + 1
    /\ snapshot_stream' = Append(snapshot_stream, Snapshot(Latest))
    /\ UNCHANGED <<exchange_book, diff_stream, initial_snapshot, book, message_queue, missed>>

(* An answer overtakes a diff it already includes.                          *)
Overtakes(n) == \E i \in 1 .. Len(diff_stream) : diff_stream[i].update_id <= n

(* _init_order_books, when the answer arrives.                              *)
init_order_book ==
    LET snapshot == Snapshot(initial_snapshot) IN
    /\ initial_snapshot > 0 /\ ~tracking
    /\ tracking' = TRUE
    /\ order_book' = apply_snapshot(order_book, snapshot.bids, snapshot.asks, snapshot.update_id)
    /\ missed' = (missed \/ Overtakes(initial_snapshot))
    /\ UNCHANGED <<external, diff_stream, snapshot_stream, initial_snapshot,
                   saved_messages, message_queue, past_diffs_window>>

(* _order_book_diff_router: save before there is a book, reject what is     *)
(* older than its snapshot, queue the rest.                                 *)
route_diff ==
    LET message == Head(diff_stream) IN
    /\ diff_stream # <<>>
    /\ diff_stream' = Tail(diff_stream)
    /\ \/ /\ ~tracking
          /\ saved_messages' = deque_append(saved_messages, SavedLimit, message)
          /\ missed' = (missed \/ Len(saved_messages) = SavedLimit)
          /\ UNCHANGED message_queue
       \/ /\ tracking /\ order_book.snapshot_uid > message.update_id
          /\ UNCHANGED <<saved_messages, message_queue, missed>>
       \/ /\ tracking /\ order_book.snapshot_uid <= message.update_id
          /\ message_queue' = Append(message_queue, message)
          /\ UNCHANGED <<saved_messages, missed>>
    /\ UNCHANGED <<external, snapshot_stream, initial_snapshot, tracking, order_book,
                   past_diffs_window>>

(* _order_book_snapshot_router.  The event it waits for is set a second     *)
(* after the book was created; the book's task has long taken its saved     *)
(* messages then, for it takes them without suspending.                     *)
route_snapshot ==
    /\ tracking /\ saved_messages = <<>> /\ snapshot_stream # <<>>
    /\ snapshot_stream' = Tail(snapshot_stream)
    /\ message_queue' = Append(message_queue, Head(snapshot_stream))
    /\ missed' = (missed \/ Overtakes(Head(snapshot_stream).update_id))
    /\ UNCHANGED <<external, diff_stream, initial_snapshot, book>>

(* One round of _track_single_book, saved messages first.                   *)
process(message) ==
    IF message.type = "DIFF"
      THEN /\ order_book' = apply_diffs(order_book, message.bids, message.asks, message.update_id)
           /\ past_diffs_window' =
                  deque_append(past_diffs_window, PAST_DIFF_WINDOW_SIZE, message)
           /\ UNCHANGED missed
      ELSE /\ order_book' = restore_from_snapshot_and_diffs(order_book, message, past_diffs_window)
           /\ missed' = (missed \/ order_book.last_diff_uid
                                     > message.update_id + PAST_DIFF_WINDOW_SIZE)
           /\ UNCHANGED past_diffs_window

process_saved ==
    /\ tracking /\ saved_messages # <<>>
    /\ process(Head(saved_messages))
    /\ saved_messages' = Tail(saved_messages)
    /\ UNCHANGED <<external, diff_stream, snapshot_stream, initial_snapshot, tracking, message_queue>>

process_queued ==
    /\ tracking /\ saved_messages = <<>> /\ message_queue # <<>>
    /\ process(Head(message_queue))
    /\ message_queue' = Tail(message_queue)
    /\ UNCHANGED <<external, diff_stream, snapshot_stream, initial_snapshot, tracking, saved_messages>>

Next ==
    \/ \E b \in MarketBooks : exchange_changes(b)
    \/ answer_initial_snapshot \/ answer_snapshot
    \/ init_order_book \/ route_diff \/ route_snapshot
    \/ process_saved \/ process_queued

Spec == Init /\ [][Next]_vars

----------------------------------------------------------------------------
Sides == {"bids", "asks"}

TypeOK ==
    /\ order_book \in [bids : SUBSET Entry, asks : SUBSET Entry, best_bid : Nat, best_ask : Nat,
                       snapshot_uid : 0 .. Latest, last_diff_uid : 0 .. Latest]
    /\ Len(past_diffs_window) <= PAST_DIFF_WINDOW_SIZE /\ Len(saved_messages) <= SavedLimit
    /\ \A i \in 1 .. Len(past_diffs_window) : past_diffs_window[i].type = "DIFF"

(* No bid reaches an ask, whatever diffs were lost, repeated by the replay  *)
(* of a snapshot or applied after a newer snapshot.                         *)
BookIsNotCrossed ==
    \A bid \in order_book.bids, ask \in order_book.asks : bid.price < ask.price

(* get_price quotes the best level of the book, although it returns a       *)
(* price cached by the last message, also after a side was empty.           *)
QuotesAreLive ==
    /\ can_get_price(order_book, TRUE) =>
           get_price(order_book, TRUE) = lowest(order_book.asks).price
    /\ can_get_price(order_book, FALSE) =>
           get_price(order_book, FALSE) = highest(order_book.bids).price

(* A diff newer than all of the book keeps its levels: where they overlap   *)
(* levels that are gone from the exchange, those are dropped.               *)
NewerLevelsWin ==
    [][\A message \in {Diff(n) : n \in 2 .. Latest} :
          /\ past_diffs_window' # past_diffs_window
          /\ past_diffs_window'[Len(past_diffs_window')] = message
          /\ \A e \in order_book.bids \cup order_book.asks : e.update_id < message.update_id
          => \A side \in Sides :
                {row \in message[side] : row.amount > 0} \subseteq order_book'[side]]_vars

(* The local book shows the levels of a version of the exchange's book.     *)
Level(e)    == [price |-> e.price, amount |-> e.amount]
Shows(b, n) == \A side \in Sides : {Level(e) : e \in b[side]} = {Level(e) : e \in Levels(n, side)}

(* Saved diffs replayed over the first snapshot, the window replayed over   *)
(* every later one and the diffs the router rejects cancel out: once every  *)
(* message is processed the book is the exchange's.  This needs that no     *)
(* diff was missed: none lost on the websocket, none overtaken by a         *)
(* snapshot, none dropped from a full deque that was still needed.          *)
ProcessedBookIsCurrent ==
    /\ tracking /\ ~missed
    /\ diff_stream = <<>> /\ saved_messages = <<>> /\ message_queue = <<>>
    => Shows(order_book, Latest)

(* order_book_tracker.py:208 says not to bother with a diff when the update *)
(* id of the order book is larger.  The router does; saved diffs are        *)
(* applied over the newer snapshot all the same.                            *)
OlderDiffsAreNotApplied ==
    [][past_diffs_window' # past_diffs_window
         => past_diffs_window'[Len(past_diffs_window')].update_id >= order_book.snapshot_uid]_vars

(* order_book_message.py:94 orders messages by update id, and only then,    *)
(* for equal timestamps, by kind.  Its last disjunct does not test for      *)
(* equal timestamps, so a snapshot precedes every diff, diffs older than    *)
(* the snapshot are replayed over it, and one that a lost diff had undone   *)
(* comes back.                                                              *)
NewSnapshotReplacesBook ==
    [][/\ message_queue # <<>> /\ message_queue' = Tail(message_queue)
       /\ Head(message_queue).type = "SNAPSHOT"
       /\ Head(message_queue).update_id >= order_book.last_diff_uid
       => Shows(order_book', Head(message_queue).update_id)]_vars
=============================================================================
