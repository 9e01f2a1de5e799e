--------------------------- MODULE InFlightOrder ---------------------------
(***************************************************************************)
(* The order object the connectors share (core/data_type/in_flight_order).  *)
(* A record keeps the attributes the tracker's decisions read; prices,      *)
(* fees, timestamps and the asset names are left out.  Every operator here  *)
(* is a pure function of the object and of the update applied to it.        *)
(***************************************************************************)
EXTENDS Integers, FiniteSets

CONSTANTS Orders,      \* client order ids, each used once by the connector
          Trades,      \* exchange trade ids of one order
          Amount,      \* base amount of each order; quantization can make it 0
          FillAmount   \* base amount of each trade

ASSUME AmountAssumption == Amount \in [Orders -> Nat]
ASSUME FillAmountAssumption == FillAmount \in [Trades -> Nat \ {0}]

OrderState == {"PENDING_CREATE", "OPEN", "PENDING_CANCEL", "CANCELED",
               "PARTIALLY_FILLED", "FILLED", "FAILED", "PENDING_APPROVAL",
               "APPROVED", "CREATED", "COMPLETED"}

OpenStates  == {"PENDING_CREATE", "OPEN", "PARTIALLY_FILLED", "PENDING_CANCEL"}
FinalStates == {"CANCELED", "FILLED", "FAILED"}

(* The exchange order id is unique per order, so an object only tells       *)
(* whether it has learnt its id.  executed_amount_base and order_fills are  *)
(* separate attributes in the code and stay separate here.                  *)
Object == [state : OrderState, amount : Nat, executed : Nat,
           fills : SUBSET Trades, exchange_order_id : BOOLEAN]

(* An update names its order by client id, by exchange id, by both, or (an  *)
(* error the tracker logs) by neither.                                      *)
OrderUpdate == [order : Orders, client_order_id : BOOLEAN,
                exchange_order_id : BOOLEAN, new_state : OrderState]

(* A fresh object: PENDING_CREATE, nothing executed, no exchange id.        *)
NewInFlightOrder(o) ==
    [state |-> "PENDING_CREATE", amount |-> Amount[o], executed |-> 0,
     fills |-> {}, exchange_order_id |-> FALSE]

is_open(ord)      == ord.state \in OpenStates
is_failure(ord)   == ord.state = "FAILED"
is_cancelled(ord) == ord.state = "CANCELED"
is_done(ord)      == ord.state \in FinalStates \/ ord.executed >= ord.amount
is_filled(ord)    == \/ ord.state = "FILLED"
                     \/ ord.amount # 0 /\ ord.executed >= ord.amount

(* completely_filled_event, as seen by a task that started waiting on it    *)
(* (only orders that are not done are waited for).                          *)
completely_filled(ord) == ord.executed >= ord.amount

(* update_with_order_update: the new object, and whether it was "updated".  *)
accepts(ord, u) ==
    u.client_order_id \/ u.exchange_order_id = ord.exchange_order_id

update_with_order_update(ord, u) ==
    IF accepts(ord, u)
      THEN [ord EXCEPT !.state = u.new_state,
                       !.exchange_order_id = @ \/ u.exchange_order_id]
      ELSE ord

(* Mutants of update_with_trade_update: a repeated trade id is counted      *)
(* again; a fill is subtracted.                                             *)
count_every_trade_update(ord, t) ==
    [ord EXCEPT !.fills = @ \cup {t}, !.executed = @ + FillAmount[t]]

subtract_trade_update(ord, t) ==
    IF t \in ord.fills
      THEN ord
      ELSE [ord EXCEPT !.fills = @ \cup {t}, !.executed = @ - FillAmount[t]]

(* update_with_trade_update: a trade id is counted once.                    *)
update_with_trade_update(ord, t) ==
    IF t \in ord.fills
      THEN ord
      ELSE [ord EXCEPT !.fills = @ \cup {t}, !.executed = @ + FillAmount[t]]
=============================================================================
