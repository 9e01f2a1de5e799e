----------------------- MODULE PositionExecutorProofs -----------------------
(***************************************************************************)
(* An executor of one unit, which an order fills at once or not at all: for *)
(* any setups, order size and retries, with one way to close at a time its  *)
(* position is closed once, and an executor that ends without giving up has *)
(* closed it.  PInv says what the object's fields say together: where the   *)
(* fills of the slots are in the totals, and which slots can be taken.      *)
(***************************************************************************)
EXTENDS PositionExecutor, TLAPS

CloseTypes == Barriers \cup {"none", "EARLY_STOP", "INSUFFICIENT_BALANCE", "EXPIRED", "FAILED"}

Order == [amount : {0, 1}, filled : {0, 1},
          known : BOOLEAN, completed : BOOLEAN, cancelled : BOOLEAN]

Executor == [status : {"RUNNING", "SHUTTING_DOWN", "TERMINATED"}, close_type : CloseTypes,
             retries : Nat, armed : BOOLEAN, terminated : BOOLEAN, registered : BOOLEAN,
             stray : Nat, open : Order, close : Order, take_profit : Order]

(* An order is filled or not; an empty slot holds NoOrder.                  *)
SoundOrder(o) == /\ o \in Order
                 /\ o.filled <= o.amount
                 /\ o.amount = 0 => o = NoOrder
                 /\ o.completed => o.filled = o.amount

Sound(x) == /\ x \in Executor
            /\ SoundOrder(x.open) /\ SoundOrder(x.close) /\ SoundOrder(x.take_profit)

(* The listeners of an executor go when it ends; it closes from then on     *)
(* only what it asked for while it shut down.                               *)
StatusIsSound(x) ==
    /\ x.terminated <=> x.status = "TERMINATED"
    /\ x.registered <=> x.status # "TERMINATED"
    /\ x.status = "RUNNING" => x.close = NoOrder /\ x.stray = 0

PType == /\ setup \in Setups /\ Sound(executor) /\ StatusIsSound(executor)
         /\ loop \in {"starting", "ready", "updating", "resting", "over"}
         /\ opened = executor.open.filled /\ closed \in Nat

(* Before on_start no order is placed.                                      *)
NothingYet ==
    loop = "starting" => /\ executor.open = NoOrder /\ executor.close = NoOrder
                         /\ executor.take_profit = NoOrder /\ executor.stray = 0 /\ closed = 0

(* A slot's fill is in the total as long as the slot holds its order.       *)
FillsAreCounted == executor.close.filled <= closed /\ executor.take_profit.filled <= closed

(* The first half of EndsFlat, for every setup: late fills only add to      *)
(* what is closed.                                                          *)
EndsCovered ==
    executor.status = "TERMINATED" /\ executor.close_type # "FAILED" =>
        opened <= closed /\ Live(executor.open) = 0

(* With one way to close, no order was displaced by another, what closes    *)
(* comes after what opens, and all that is closed is in one slot; a limit   *)
(* order that takes profit becomes the close order when it completes.       *)
ClosedOneWay(x, c) ==
    /\ x.stray = 0
    /\ exists(x.close) \/ exists(x.take_profit) => x.open.filled = 1
    /\ IF "take_profit_limit" \in setup.barriers
         THEN /\ c = x.take_profit.filled
              /\ exists(x.close) => x.close.filled = 1 /\ x.take_profit.filled = 1
              /\ x.status = "SHUTTING_DOWN" => exists(x.close)
         ELSE x.take_profit = NoOrder /\ c = x.close.filled

OneWay == ClosesOneWay => ClosedOneWay(executor, closed)

PInv == PType /\ NothingYet /\ FillsAreCounted /\ EndsCovered /\ OneWay

----------------------------------------------------------------------------
(* Orders.                                                                  *)
SameRun(x, y)   == /\ y.retries = x.retries /\ y.armed = x.armed
                   /\ y.terminated = x.terminated /\ y.registered = x.registered
SameState(x, y) == /\ SameRun(x, y) /\ y.status = x.status
                   /\ y.close_type = x.close_type /\ y.stray = x.stray
SameOrder(o, p) == /\ p.amount = o.amount /\ p.filled = o.filled
                   /\ p.known = o.known /\ p.completed = o.completed

LEMMA NoOrderIsSound ==
    SoundOrder(NoOrder) /\ Live(NoOrder) = 0 /\ ~exists(NoOrder) /\ NoOrder.filled = 0
  BY DEF SoundOrder, NoOrder, Order, Live, exists

LEMMA PlacedIsSound ==
    ASSUME NEW a \in {0, 1}
    PROVE  /\ SoundOrder(Placed(a)) /\ Placed(a).filled = 0 /\ Placed(a).amount = a
           /\ a = 0 => Placed(a) = NoOrder
  <1>1. NoOrder \in Order
    BY DEF NoOrder, Order
  <1>2. /\ Placed(a) \in Order /\ Placed(a).amount = a
        /\ Placed(a).filled = NoOrder.filled /\ Placed(a).completed = NoOrder.completed
    BY <1>1 DEF Placed, Order
  <1>3. NoOrder.filled = 0 /\ NoOrder.completed = FALSE /\ NoOrder.amount = 0
    BY DEF NoOrder
  <1>4. a = 0 => Placed(a) = NoOrder
    BY <1>1, <1>3 DEF Placed, Order
  <1> QED BY <1>2, <1>3, <1>4 DEF SoundOrder

LEMMA OrderFacts ==
    ASSUME NEW o, SoundOrder(o)
    PROVE  /\ Live(o) = o.amount - o.filled /\ Live(o) \in {0, 1}
           /\ o.amount \in {0, 1} /\ o.filled \in {0, 1}
           /\ exists(o) <=> o.amount = 1
           /\ ~exists(o) => o = NoOrder /\ o.filled = 0
           /\ executed(o) \in {0, 1} /\ (executed(o) = 1 => o.filled = 1)
           /\ is_filled(o) <=> o.known /\ o.filled = 1
           /\ o.known => executed(o) = o.filled
           /\ o.known => o.amount = 1
  <1>1. o \in Order /\ o.filled <= o.amount /\ (o.completed => o.filled = o.amount)
    BY DEF SoundOrder
  <1>2. o.amount \in {0, 1} /\ o.filled \in {0, 1} /\ o.known \in BOOLEAN
    BY <1>1 DEF Order
  <1>3. o.amount = 0 => o = NoOrder
    BY DEF SoundOrder
  <1>4. o.known => o.amount = 1
    BY <1>2, <1>3 DEF NoOrder
  <1> QED
    BY <1>1, <1>2, <1>3, <1>4 DEF Live, exists, executed, is_filled, NoOrder

LEMMA SameOrderFacts ==
    ASSUME NEW o, NEW p, SoundOrder(o), SoundOrder(p), SameOrder(o, p)
    PROVE  /\ p.filled = o.filled /\ Live(p) = Live(o) /\ (exists(p) <=> exists(o))
           /\ executed(p) = executed(o) /\ (o = NoOrder => p = NoOrder)
  <1>1. o = NoOrder => p.amount = 0
    BY DEF SameOrder, NoOrder
  <1> QED
    BY <1>1 DEF SameOrder, Live, exists, executed, SoundOrder

Cancelled(o) == [o EXCEPT !.cancelled = TRUE]

LEMMA CancelledOrder ==
    ASSUME NEW o, SoundOrder(o), o.known
    PROVE  SoundOrder(Cancelled(o)) /\ SameOrder(o, Cancelled(o))
  <1>1. o \in Order /\ o.amount # 0
    BY DEF SoundOrder, NoOrder
  <1>2. Cancelled(o) \in Order /\ SameOrder(o, Cancelled(o))
    BY <1>1 DEF Cancelled, Order, SameOrder
  <1> QED BY <1>1, <1>2 DEF SoundOrder, SameOrder

LEMMA CancelOpen ==
    ASSUME NEW x, Sound(x), x.open.known
    PROVE  LET y == cancel(x, "open") IN
           /\ Sound(y) /\ SameState(x, y) /\ SameOrder(x.open, y.open)
           /\ y.close = x.close /\ y.take_profit = x.take_profit
  <1> DEFINE y == cancel(x, "open")
  <1>1. y = [x EXCEPT !.open = Cancelled(x.open)]
    BY DEF cancel, Cancelled
  <1>2. SoundOrder(Cancelled(x.open)) /\ SameOrder(x.open, Cancelled(x.open))
    BY CancelledOrder DEF Sound
  <1>3. Cancelled(x.open) \in Order
    BY <1>2 DEF SoundOrder
  <1> HIDE DEF y
  <1>4. /\ y \in Executor /\ y.open = Cancelled(x.open) /\ y.close = x.close
        /\ y.take_profit = x.take_profit /\ SameState(x, y)
    BY <1>1, <1>3 DEF Sound, Executor, SameState, SameRun
  <1> QED BY <1>2, <1>4 DEF Sound, y

LEMMA CancelTakeProfit ==
    ASSUME NEW x, Sound(x), x.take_profit.known
    PROVE  LET y == cancel(x, "take_profit") IN
           /\ Sound(y) /\ SameState(x, y) /\ SameOrder(x.take_profit, y.take_profit)
           /\ y.close = x.close /\ y.open = x.open
  <1> DEFINE y == cancel(x, "take_profit")
  <1>1. y = [x EXCEPT !.take_profit = Cancelled(x.take_profit)]
    BY DEF cancel, Cancelled
  <1>2. SoundOrder(Cancelled(x.take_profit)) /\ SameOrder(x.take_profit, Cancelled(x.take_profit))
    BY CancelledOrder DEF Sound
  <1>3. Cancelled(x.take_profit) \in Order
    BY <1>2 DEF SoundOrder
  <1> HIDE DEF y
  <1>4. /\ y \in Executor /\ y.take_profit = Cancelled(x.take_profit) /\ y.close = x.close
        /\ y.open = x.open /\ SameState(x, y)
    BY <1>1, <1>3 DEF Sound, Executor, SameState, SameRun
  <1> QED BY <1>2, <1>4 DEF Sound, y

(* What the cancellations of the open orders and of the take profit order   *)
(* leave as it was.                                                         *)
OnlyCancelled(x, y) ==
    /\ Sound(y) /\ SameState(x, y) /\ y.close = x.close
    /\ SameOrder(x.open, y.open) /\ SameOrder(x.take_profit, y.take_profit)

LEMMA CancelOpenOrders ==
    ASSUME NEW x, Sound(x)
    PROVE  OnlyCancelled(x, cancel_open_orders(x))
  <1> DEFINE y == CancelIfOpen(x, "open")
             z == CancelIfOpen(y, "take_profit")
  <1>1. Sound(y) /\ SameState(x, y) /\ SameOrder(x.open, y.open) /\ y.close = x.close
        /\ y.take_profit = x.take_profit
    BY CancelOpen DEF CancelIfOpen, is_open, SameState, SameRun, SameOrder
  <1>2. z = cancel_open_orders(x)
    BY DEF cancel_open_orders
  <1> HIDE DEF y
  <1>3. Sound(z) /\ SameState(y, z) /\ SameOrder(y.take_profit, z.take_profit) /\ z.close = y.close
        /\ z.open = y.open
    BY <1>1, CancelTakeProfit DEF CancelIfOpen, is_open, SameState, SameRun, SameOrder
  <1> HIDE DEF z
  <1> QED BY <1>1, <1>2, <1>3 DEF OnlyCancelled, SameState, SameRun, SameOrder

(* What a pass that closes the position does: the close order is left, or a *)
(* new one is placed for an open order that is filled and not closed.       *)
Closes(x, y, type) ==
    /\ Sound(y) /\ SameOrder(x.open, y.open) /\ SameOrder(x.take_profit, y.take_profit)
    /\ y.status = "SHUTTING_DOWN" /\ y.close_type = type /\ SameRun(x, y)
    /\ \/ y.close = x.close /\ y.stray = x.stray
       \/ /\ executed(x.open) = 1 /\ executed(x.close) = 0
          /\ y.close = Placed(1) /\ y.stray = x.stray + Live(x.close)

LEMMA AmountToClose ==
    ASSUME NEW x, Sound(x)
    PROVE  amount_to_close(x) = IF executed(x.open) = 1 /\ executed(x.close) = 0 THEN 1 ELSE 0
  <1>1. executed(x.open) \in {0, 1} /\ executed(x.close) \in {0, 1}
    BY OrderFacts DEF Sound
  <1> QED BY <1>1 DEF amount_to_close

LEMMA ClosingCloses ==
    ASSUME NEW x, Sound(x), NEW type \in CloseTypes
    PROVE  Closes(x, place_close_order_and_cancel_open_orders(x, type), type)
  <1> DEFINE y == cancel_open_orders(x)
             p == place_close_order(y)
             z == IF amount_to_close(y) >= MinOrderSize THEN p ELSE y
             w == [z EXCEPT !.close_type = type, !.status = "SHUTTING_DOWN"]
  <1>1. w = place_close_order_and_cancel_open_orders(x, type)
    BY DEF place_close_order_and_cancel_open_orders
  <1>2. OnlyCancelled(x, y)
    BY CancelOpenOrders
  <1> HIDE DEF y
  <1>3. Sound(y) /\ SoundOrder(y.close) /\ y \in Executor /\ y.stray \in Nat
    BY <1>2 DEF OnlyCancelled, Sound, Executor
  <1>4. y.stray + Live(y.close) \in Nat
    <2>1. Live(y.close) \in {0, 1}
      BY <1>3, OrderFacts
    <2> QED BY <1>3, <2>1
  <1>5. /\ Sound(z) /\ SameRun(y, z) /\ z.open = y.open /\ z.take_profit = y.take_profit
        /\ \/ z.close = y.close /\ z.stray = y.stray
           \/ /\ executed(y.open) = 1 /\ executed(y.close) = 0
              /\ z.close = Placed(1) /\ z.stray = y.stray + Live(y.close)
    <2>1. CASE amount_to_close(y) >= MinOrderSize
      <3>1. amount_to_close(y) = 1 /\ executed(y.open) = 1 /\ executed(y.close) = 0
        BY <1>3, <2>1, AmountToClose, ConstantsAssumption
      <3>2. p = [y EXCEPT !.close = Placed(1), !.stray = y.stray + Live(y.close)]
        BY <3>1 DEF place_close_order
      <3>3. Placed(1) \in Order /\ SoundOrder(Placed(1))
        BY PlacedIsSound DEF SoundOrder
      <3> HIDE DEF p
      <3>4. p \in Executor
        BY <1>3, <1>4, <3>2, <3>3 DEF Executor
      <3>5. /\ p.open = y.open /\ p.take_profit = y.take_profit /\ SameRun(y, p)
            /\ p.close = Placed(1) /\ p.stray = y.stray + Live(y.close)
        BY <1>3, <3>2 DEF Executor, SameRun
      <3> QED BY <1>3, <2>1, <3>1, <3>3, <3>4, <3>5 DEF Sound
    <2>2. CASE ~(amount_to_close(y) >= MinOrderSize)
      BY <1>3, <2>2 DEF SameRun
    <2> QED BY <2>1, <2>2
  <1> HIDE DEF z
  <1>6. /\ w \in Executor /\ w.open = z.open /\ w.close = z.close /\ w.take_profit = z.take_profit
        /\ w.stray = z.stray /\ w.status = "SHUTTING_DOWN" /\ w.close_type = type /\ SameRun(z, w)
    BY <1>5 DEF Sound, Executor, SameRun
  <1>7. executed(y.open) = executed(x.open) /\ y.close = x.close /\ y.stray = x.stray
    BY <1>2, SameOrderFacts DEF OnlyCancelled, Sound, SameState
  <1>8. Sound(w) /\ SameRun(x, w)
    BY <1>2, <1>5, <1>6 DEF Sound, OnlyCancelled, SameState, SameRun
  <1> HIDE DEF w
  <1> QED BY <1>1, <1>2, <1>5, <1>6, <1>7, <1>8 DEF Closes, OnlyCancelled

----------------------------------------------------------------------------
(* One pass while the executor runs, part by part: what was filled stays    *)
(* filled, and no close order lies in the slot while the status is RUNNING. *)
Active(x) ==
    /\ Sound(x) /\ x.status # "TERMINATED" /\ ~x.terminated /\ x.registered
    /\ x.close.filled = 0
    /\ x.status = "RUNNING" => x.close = NoOrder /\ x.stray = 0

KeepsFills(x, y) == y.open.filled = x.open.filled /\ y.take_profit.filled = x.take_profit.filled

LEMMA ClosesKeepsActive ==
    ASSUME NEW x, NEW y, NEW type, Active(x), Closes(x, y, type)
    PROVE  Active(y) /\ KeepsFills(x, y)
  <1>1. y.close.filled = 0
    BY PlacedIsSound DEF Closes, Active
  <1>2. y.terminated = x.terminated /\ y.registered = x.registered
    BY DEF Closes, SameRun
  <1>3. Sound(y) /\ y.status = "SHUTTING_DOWN" /\ KeepsFills(x, y)
    BY DEF Closes, SameOrder, KeepsFills
  <1> QED BY <1>1, <1>2, <1>3 DEF Active

LEMMA BarrierKeepsActive ==
    ASSUME NEW x, Active(x), NEW hit, NEW type \in CloseTypes
    PROVE  Active(Barrier(x, hit, type)) /\ KeepsFills(x, Barrier(x, hit, type))
  <1>1. CASE type \in hit
    BY <1>1, ClosingCloses, ClosesKeepsActive DEF Barrier, Active
  <1>2. CASE type \notin hit
    BY <1>2 DEF Barrier, KeepsFills
  <1> QED BY <1>1, <1>2

(* y is x but for the trailing stop's arming.                               *)
OnlyArmed(x, y) ==
    /\ Sound(y) /\ y.open = x.open /\ y.close = x.close /\ y.take_profit = x.take_profit
    /\ y.stray = x.stray /\ y.status = x.status
    /\ y.terminated = x.terminated /\ y.registered = x.registered

LEMMA TrailingStop ==
    ASSUME NEW x, Sound(x), NEW hit
    PROVE  \/ control_trailing_stop(x, hit) = Barrier(x, hit, "trailing_stop")
           \/ OnlyArmed(x, control_trailing_stop(x, hit))
  <1> DEFINE y == [x EXCEPT !.armed = "trailing_stop" \in hit]
  <1>1. ("trailing_stop" \in hit) \in BOOLEAN
    OBVIOUS
  <1>2. OnlyArmed(x, y)
    BY <1>1 DEF OnlyArmed, Sound, Executor
  <1> HIDE DEF y
  <1> QED BY <1>2 DEF control_trailing_stop, y

LEMMA TrailingStopKeepsActive ==
    ASSUME NEW x, Active(x), NEW hit
    PROVE  /\ Active(control_trailing_stop(x, hit))
           /\ KeepsFills(x, control_trailing_stop(x, hit))
  <1> DEFINE y == control_trailing_stop(x, hit)
  <1>1. y = Barrier(x, hit, "trailing_stop") \/ OnlyArmed(x, y)
    BY TrailingStop DEF Active
  <1> HIDE DEF y
  <1>2. CASE y = Barrier(x, hit, "trailing_stop")
    BY <1>2, BarrierKeepsActive DEF CloseTypes, Barriers, y
  <1>3. CASE OnlyArmed(x, y)
    BY <1>3 DEF OnlyArmed, Active, KeepsFills, y
  <1> QED BY <1>1, <1>2, <1>3 DEF y

(* What the pass may do to the take profit order: place it for an open      *)
(* order that is filled, or cancel it.                                      *)
TakeProfitOnly(x, y) ==
    /\ Sound(y) /\ SameState(x, y) /\ y.open = x.open /\ y.close = x.close
    /\ \/ SameOrder(x.take_profit, y.take_profit)
       \/ /\ ~exists(x.take_profit)
          /\ y.take_profit = NoOrder \/ (y.take_profit = Placed(1) /\ executed(x.open) = 1)

LEMMA TakeProfit ==
    ASSUME NEW x, Sound(x), NEW hit, NEW within
    PROVE  \/ /\ "take_profit_limit" \notin setup.barriers
              /\ control_take_profit(x, hit, within) = Barrier(x, hit, "take_profit")
           \/ /\ "take_profit_limit" \in setup.barriers
              /\ TakeProfitOnly(x, control_take_profit(x, hit, within))
  <1> DEFINE a == amount_to_close(x)
             y == [x EXCEPT !.take_profit = Placed(a)]
             z == cancel(x, "take_profit")
  <1>1. CASE "take_profit_limit" \notin setup.barriers
    BY <1>1 DEF control_take_profit
  <1>2. TakeProfitOnly(x, x)
    BY DEF TakeProfitOnly, SameState, SameRun, SameOrder
  <1>3. ASSUME ~exists(x.take_profit) PROVE TakeProfitOnly(x, y)
    <2>1. a = 0 \/ (a = 1 /\ executed(x.open) = 1)
      BY AmountToClose
    <2>2. SoundOrder(Placed(a)) /\ (a = 0 => Placed(a) = NoOrder)
      BY <2>1, PlacedIsSound
    <2> HIDE DEF a
    <2>3. y \in Executor /\ y.take_profit = Placed(a) /\ SameState(x, y)
          /\ y.open = x.open /\ y.close = x.close
      BY <2>2 DEF Sound, SoundOrder, Executor, SameState, SameRun
    <2> HIDE DEF y
    <2> QED BY <1>3, <2>1, <2>2, <2>3 DEF TakeProfitOnly, Sound
  <1>4. ASSUME is_open(x.take_profit) PROVE TakeProfitOnly(x, z)
    BY <1>4, CancelTakeProfit DEF is_open, TakeProfitOnly
  <1>5. CASE "take_profit_limit" \in setup.barriers
    BY <1>2, <1>3, <1>4, <1>5 DEF control_take_profit
  <1> QED BY <1>1, <1>5

LEMMA TakeProfitKeepsActive ==
    ASSUME NEW x, Active(x), NEW hit, NEW within
    PROVE  /\ Active(control_take_profit(x, hit, within))
           /\ KeepsFills(x, control_take_profit(x, hit, within))
  <1> DEFINE y == control_take_profit(x, hit, within)
  <1>1. y = Barrier(x, hit, "take_profit") \/ TakeProfitOnly(x, y)
    BY TakeProfit DEF Active
  <1> HIDE DEF y
  <1>2. CASE y = Barrier(x, hit, "take_profit")
    BY <1>2, BarrierKeepsActive DEF CloseTypes, Barriers, y
  <1>3. CASE TakeProfitOnly(x, y)
    <2>1. y.take_profit.filled = x.take_profit.filled
      BY <1>3, PlacedIsSound, NoOrderIsSound, OrderFacts
         DEF TakeProfitOnly, SameOrder, Active, Sound, NoOrder
    <2> QED BY <1>3, <2>1 DEF TakeProfitOnly, SameState, SameRun, Active, KeepsFills, y
  <1> QED BY <1>1, <1>2, <1>3 DEF y

(* What the pass may do to the open order: place it, or cancel it.          *)
LEMMA OpenOrder ==
    ASSUME NEW x, Sound(x), NEW within, Amount = 1
    PROVE  LET y == control_open_order(x, within) IN
           /\ Sound(y) /\ SameState(x, y) /\ y.close = x.close /\ y.take_profit = x.take_profit
           /\ y.open.filled = x.open.filled
  <1> DEFINE y == [x EXCEPT !.open = Placed(1)]
             z == cancel(x, "open")
             Outcome(v) == /\ Sound(v) /\ SameState(x, v) /\ v.close = x.close
                           /\ v.take_profit = x.take_profit /\ v.open.filled = x.open.filled
  <1>1. Outcome(x)
    BY DEF SameState, SameRun
  <1>2. ASSUME ~exists(x.open) PROVE Outcome(y)
    <2>1. SoundOrder(Placed(1)) /\ Placed(1).filled = 0 /\ x.open.filled = 0
      BY <1>2, PlacedIsSound, OrderFacts DEF Sound
    <2>2. y \in Executor /\ y.open = Placed(1) /\ SameState(x, y)
          /\ y.take_profit = x.take_profit /\ y.close = x.close
      BY <2>1 DEF Sound, SoundOrder, Executor, SameState, SameRun
    <2> HIDE DEF y
    <2> QED BY <2>1, <2>2 DEF Sound
  <1>3. ASSUME x.open.known PROVE Outcome(z)
    BY <1>3, CancelOpen DEF SameOrder
  <1> HIDE DEF Outcome, y, z
  <1>4. Outcome(control_open_order(x, within))
    BY <1>1, <1>2, <1>3 DEF control_open_order, y, z
  <1> QED BY <1>4 DEF Outcome

LEMMA OpenOrderKeepsActive ==
    ASSUME NEW x, Active(x), NEW within, Amount = 1
    PROVE  /\ Active(control_open_order(x, within))
           /\ KeepsFills(x, control_open_order(x, within))
  BY OpenOrder DEF Active, KeepsFills, SameState, SameRun

LEMMA PassKeepsActive ==
    ASSUME NEW x, Active(x), NEW hit, NEW within, Amount = 1
    PROVE  LET y == control_barriers(control_open_order(x, within), hit, within) IN
           Active(y) /\ KeepsFills(x, y)
  <1> DEFINE o == control_open_order(x, within)
             a == Barrier(o, hit, "stop_loss")
             b == control_trailing_stop(a, hit)
             c == control_take_profit(b, hit, within)
  <1>1. Active(o) /\ KeepsFills(x, o)
    BY OpenOrderKeepsActive
  <1> HIDE DEF o
  <1>2. Active(a) /\ KeepsFills(o, a)
    BY <1>1, BarrierKeepsActive DEF CloseTypes, Barriers
  <1> HIDE DEF a
  <1>3. Active(b) /\ KeepsFills(a, b)
    BY <1>2, TrailingStopKeepsActive
  <1> HIDE DEF b
  <1>4. Active(c) /\ KeepsFills(b, c)
    BY <1>3, TakeProfitKeepsActive
  <1> HIDE DEF c
  <1>5. \A z : Active(z) => /\ Active(Barrier(z, hit, "time_limit"))
                            /\ KeepsFills(z, Barrier(z, hit, "time_limit"))
    BY BarrierKeepsActive DEF CloseTypes, Barriers
  <1> QED
    BY <1>1, <1>2, <1>3, <1>4, <1>5 DEF KeepsFills, control_barriers, o, a, b, c

----------------------------------------------------------------------------
(* With one way to close at a time, at most one barrier is hit in a pass,   *)
(* so the pass places at most one close order.                              *)
Unclosed(x)   == x.close = NoOrder /\ x.stray = 0 /\ x.take_profit = NoOrder
ClosedOnce(x) == x.close = Placed(1) /\ x.stray = 0 /\ x.take_profit = NoOrder /\ x.open.filled = 1

(* Of the types in tried, only one in hit can have placed a close order.    *)
ClosedFor(x, hit, tried) ==
    /\ Active(x)
    /\ Unclosed(x) \/ ClosedOnce(x)
    /\ tried \cap hit = {} => Unclosed(x)

LEMMA OneHit ==
    ASSUME PType, ClosesOneWay, "take_profit_limit" \notin setup.barriers,
           NEW hit \in Hits
    PROVE  \A s, t \in hit : s = t
  <1>1. hit \subseteq setup.barriers /\ ~({"stop_loss", "take_profit"} \subseteq hit)
    BY DEF Hits
  <1>2. CASE setup.barriers \subseteq {"stop_loss", "take_profit"}
    BY <1>1, <1>2
  <1>3. CASE \E barrier \in setup.barriers : setup.barriers = {barrier}
    BY <1>1, <1>3
  <1> QED BY <1>2, <1>3 DEF ClosesOneWay

LEMMA BarrierClosesFor ==
    ASSUME NEW x, NEW hit, NEW tried, ClosedFor(x, hit, tried),
           \A s, t \in hit : s = t,
           NEW type \in CloseTypes, type \notin tried
    PROVE  ClosedFor(Barrier(x, hit, type), hit, tried \cup {type})
  <1> DEFINE y == Barrier(x, hit, type)
  <1>1. Active(y) /\ KeepsFills(x, y)
    BY BarrierKeepsActive DEF ClosedFor
  <1>2. CASE type \notin hit
    BY <1>2 DEF Barrier, ClosedFor
  <1>3. CASE type \in hit
    <2>1. Unclosed(x) /\ Sound(x)
      BY <1>3 DEF ClosedFor, Active
    <2>2. Closes(x, y, type)
      BY <1>3, <2>1, ClosingCloses DEF Barrier
    <2>3. Sound(y) /\ y.take_profit = NoOrder
      BY <2>1, <2>2, SameOrderFacts DEF Closes, Unclosed, Sound
    <2>4. /\ y.close = NoOrder /\ y.stray = 0
          \/ /\ y.close = Placed(1) /\ y.stray = 0 /\ executed(x.open) = 1
      BY <2>1, <2>2, NoOrderIsSound DEF Closes, Unclosed
    <2> HIDE DEF y
    <2>5. executed(x.open) = 1 => y.open.filled = 1
      <3>1. SoundOrder(x.open) /\ y.open.filled = x.open.filled
        BY <2>1, <1>1 DEF Sound, KeepsFills
      <3>2. executed(x.open) = 1 => x.open.filled = 1
        BY <3>1, OrderFacts
      <3> QED BY <3>1, <3>2
    <2>6. Unclosed(y) \/ ClosedOnce(y)
      BY <2>3, <2>4, <2>5 DEF Unclosed, ClosedOnce
    <2> QED BY <1>1, <1>3, <2>6 DEF ClosedFor, y
  <1> QED BY <1>2, <1>3

LEMMA TrailingStopClosesFor ==
    ASSUME NEW x, NEW hit, NEW tried, ClosedFor(x, hit, tried),
           \A s, t \in hit : s = t, "trailing_stop" \notin tried
    PROVE  ClosedFor(control_trailing_stop(x, hit), hit, tried \cup {"trailing_stop"})
  <1> DEFINE y == control_trailing_stop(x, hit)
  <1>1. y = Barrier(x, hit, "trailing_stop") \/ OnlyArmed(x, y)
    BY TrailingStop DEF ClosedFor, Active
  <1>2. Active(y)
    BY TrailingStopKeepsActive DEF ClosedFor
  <1> HIDE DEF y
  <1>3. ASSUME y = Barrier(x, hit, "trailing_stop")
        PROVE ClosedFor(y, hit, tried \cup {"trailing_stop"})
    <2>1. "trailing_stop" \in CloseTypes
      BY DEF CloseTypes, Barriers
    <2>2. ClosedFor(Barrier(x, hit, "trailing_stop"), hit, tried \cup {"trailing_stop"})
      BY <2>1, BarrierClosesFor
    <2> QED BY <1>3, <2>2
  <1>4. ASSUME OnlyArmed(x, y)
        PROVE ClosedFor(y, hit, tried \cup {"trailing_stop"})
    BY <1>2, <1>4 DEF OnlyArmed, ClosedFor, Unclosed, ClosedOnce
  <1>5. ClosedFor(y, hit, tried \cup {"trailing_stop"})
    BY <1>1, <1>3, <1>4
  <1> QED BY <1>5 DEF y

LEMMA PassClosesOnce ==
    ASSUME PType, ClosesOneWay, "take_profit_limit" \notin setup.barriers, Amount = 1,
           NEW hit \in Hits, NEW within, NEW x, Active(x), Unclosed(x)
    PROVE  LET y == control_barriers(control_open_order(x, within), hit, within) IN
           Unclosed(y) \/ ClosedOnce(y)
  <1> DEFINE o == control_open_order(x, within)
             a == Barrier(o, hit, "stop_loss")
             b == control_trailing_stop(a, hit)
             c == control_take_profit(b, hit, within)
             After(z, tried) == ClosedFor(z, hit, tried)
  <1>0. \A s, t \in hit : s = t
    BY OneHit
  <1>1. After(o, {})
    <2>1. Active(o)
      BY OpenOrderKeepsActive
    <2>2. o.close = x.close /\ o.stray = x.stray /\ o.take_profit = x.take_profit
      BY OpenOrder DEF Active, SameState
    <2> QED BY <2>1, <2>2 DEF ClosedFor, Unclosed
  <1> HIDE DEF o
  <1>2. After(a, {"stop_loss"})
    <2>1. "stop_loss" \in CloseTypes
      BY DEF CloseTypes, Barriers
    <2>2. ClosedFor(a, hit, {} \cup {"stop_loss"})
      BY <1>0, <1>1, <2>1, BarrierClosesFor
    <2> QED BY <2>2
  <1> HIDE DEF a
  <1>3. After(b, {"stop_loss", "trailing_stop"})
    <2>1. ClosedFor(b, hit, {"stop_loss"} \cup {"trailing_stop"})
      BY <1>0, <1>2, TrailingStopClosesFor
    <2>2. {"stop_loss"} \cup {"trailing_stop"} = {"stop_loss", "trailing_stop"}
      OBVIOUS
    <2> QED BY <2>1, <2>2
  <1> HIDE DEF b
  <1>4. After(c, {"stop_loss", "trailing_stop", "take_profit"})
    <2>1. c = Barrier(b, hit, "take_profit")
      BY DEF control_take_profit
    <2>2. "take_profit" \in CloseTypes
      BY DEF CloseTypes, Barriers
    <2>3. ClosedFor(Barrier(b, hit, "take_profit"), hit, {"stop_loss", "trailing_stop"} \cup {"take_profit"})
      BY <1>0, <1>3, <2>2, BarrierClosesFor
    <2>4. {"stop_loss", "trailing_stop"} \cup {"take_profit"} = {"stop_loss", "trailing_stop", "take_profit"}
      OBVIOUS
    <2> QED BY <2>1, <2>3, <2>4
  <1> HIDE DEF c
  <1>5. ASSUME NEW z, NEW tried, After(z, tried), "time_limit" \notin tried
        PROVE  Unclosed(Barrier(z, hit, "time_limit")) \/ ClosedOnce(Barrier(z, hit, "time_limit"))
    <2>1. "time_limit" \in CloseTypes
      BY DEF CloseTypes, Barriers
    <2> QED BY <1>0, <1>5, <2>1, BarrierClosesFor DEF ClosedFor
  <1> HIDE DEF After
  <1>6. \A z : z \in {o, c} => Unclosed(Barrier(z, hit, "time_limit")) \/ ClosedOnce(Barrier(z, hit, "time_limit"))
    BY <1>1, <1>4, <1>5
  <1> QED BY <1>6 DEF control_barriers, o, a, b, c

(* A limit order that takes profit is the only order the pass may place.    *)
LEMMA PassTakesProfit ==
    ASSUME PType, ClosesOneWay, "take_profit_limit" \in setup.barriers, Amount = 1,
           NEW hit \in Hits, NEW within, NEW x, Active(x), x.status = "RUNNING",
           exists(x.take_profit) => x.open.filled = 1
    PROVE  LET y == control_barriers(control_open_order(x, within), hit, within) IN
           /\ y.status = "RUNNING"
           /\ exists(y.take_profit) => y.open.filled = 1
  <1> DEFINE o == control_open_order(x, within)
             c == control_take_profit(o, hit, within)
  <1>1. \A type \in {"stop_loss", "trailing_stop", "time_limit"} : type \notin hit
    BY DEF Hits, ClosesOneWay
  <1>2. \A z : /\ Barrier(z, hit, "stop_loss") = z /\ Barrier(z, hit, "time_limit") = z
               /\ Barrier(z, hit, "trailing_stop") = z
    BY <1>1 DEF Barrier
  <1>3. Sound(o) /\ SameState(x, o) /\ o.take_profit = x.take_profit /\ o.open.filled = x.open.filled
    BY OpenOrder DEF Active
  <1> HIDE DEF o
  <1>4. ASSUME NEW z, Sound(z), z.status = "RUNNING", exists(z.take_profit) => z.open.filled = 1
        PROVE  LET w == control_take_profit(z, hit, within) IN
               w.status = "RUNNING" /\ (exists(w.take_profit) => w.open.filled = 1)
    <2> DEFINE w == control_take_profit(z, hit, within)
    <2>1. TakeProfitOnly(z, w)
      BY <1>4, TakeProfit
    <2> HIDE DEF w
    <2>2. w.status = "RUNNING" /\ w.open = z.open
      BY <1>4, <2>1 DEF TakeProfitOnly, SameState
    <2>3. ASSUME exists(w.take_profit) PROVE z.open.filled = 1
      <3>1. CASE SameOrder(z.take_profit, w.take_profit)
        BY <1>4, <2>3, <3>1 DEF SameOrder, exists
      <3>2. CASE w.take_profit = NoOrder
        BY <2>3, <3>2, NoOrderIsSound
      <3>3. CASE executed(z.open) = 1
        BY <1>4, <3>3, OrderFacts DEF Sound
      <3> QED BY <2>1, <3>1, <3>2, <3>3 DEF TakeProfitOnly
    <2> QED BY <2>2, <2>3 DEF w
  <1>5. ASSUME NEW z, Sound(z), z.status = "RUNNING", exists(z.take_profit) => z.open.filled = 1
        PROVE  LET t == control_trailing_stop(z, hit) IN
               Sound(t) /\ t.status = "RUNNING" /\ (exists(t.take_profit) => t.open.filled = 1)
    <2> DEFINE t == control_trailing_stop(z, hit)
    <2>1. t = z \/ OnlyArmed(z, t)
      BY <1>2, <1>5, TrailingStop
    <2> HIDE DEF t
    <2>2. Sound(t) /\ t.status = "RUNNING" /\ (exists(t.take_profit) => t.open.filled = 1)
      BY <1>5, <2>1 DEF OnlyArmed
    <2> QED BY <2>2 DEF t
  <1>6. o.status = "RUNNING" /\ (exists(o.take_profit) => o.open.filled = 1)
    BY <1>3 DEF SameState
  <1> DEFINE t == control_trailing_stop(o, hit)
             w == control_take_profit(t, hit, within)
  <1>7. Sound(t) /\ t.status = "RUNNING" /\ (exists(t.take_profit) => t.open.filled = 1)
    BY <1>3, <1>5, <1>6
  <1> HIDE DEF t
  <1>8. w.status = "RUNNING" /\ (exists(w.take_profit) => w.open.filled = 1)
    BY <1>4, <1>7
  <1> HIDE DEF w
  <1>9. control_barriers(o, hit, within) \in {o, w}
    BY <1>2 DEF control_barriers, w, t
  <1> QED BY <1>6, <1>8, <1>9 DEF o

----------------------------------------------------------------------------
(* The steps of the control loop.                                           *)
LEMMA InitPInv == Init => PInv
  <1> SUFFICES ASSUME Init PROVE PInv
    OBVIOUS
  <1>1. NoOrder \in Order
    BY NoOrderIsSound DEF SoundOrder
  <1>2. executor \in Executor
    BY <1>1 DEF Init, Executor, CloseTypes
  <1>3. Sound(executor) /\ StatusIsSound(executor)
    BY <1>2, NoOrderIsSound DEF Init, Sound, StatusIsSound
  <1>4. /\ executor.open = NoOrder /\ executor.close = NoOrder /\ executor.take_profit = NoOrder
        /\ executor.status = "RUNNING" /\ executor.stray = 0 /\ closed = 0 /\ opened = 0
        /\ loop = "starting" /\ setup \in Setups
    BY DEF Init
  <1>5. PType
    BY <1>3, <1>4, NoOrderIsSound DEF PType
  <1>6. NothingYet /\ FillsAreCounted /\ EndsCovered
    BY <1>4, NoOrderIsSound DEF NothingYet, FillsAreCounted, EndsCovered
  <1>7. OneWay
    BY <1>4, NoOrderIsSound DEF OneWay, ClosedOneWay
  <1> QED BY <1>5, <1>6, <1>7 DEF PInv

LEMMA StopType ==
    ASSUME NEW x, Sound(x), NEW type \in CloseTypes
    PROVE  /\ Sound(StopAs(x, type)) /\ StatusIsSound(StopAs(x, type))
           /\ StopAs(x, type).open = x.open /\ StopAs(x, type).close = x.close
           /\ StopAs(x, type).take_profit = x.take_profit /\ StopAs(x, type).stray = x.stray
           /\ StopAs(x, type).status = "TERMINATED" /\ StopAs(x, type).close_type = type
  <1> DEFINE y == StopAs(x, type)
  <1>1. y = [x EXCEPT !.status = "TERMINATED", !.terminated = TRUE, !.registered = FALSE,
                      !.close_type = type]
    BY DEF StopAs, stop, Sound, Executor
  <1> HIDE DEF y
  <1>2. /\ y \in Executor /\ y.open = x.open /\ y.close = x.close
        /\ y.take_profit = x.take_profit /\ y.stray = x.stray
        /\ y.status = "TERMINATED" /\ y.close_type = type
        /\ y.terminated = TRUE /\ y.registered = FALSE
    BY <1>1 DEF Sound, Executor
  <1>3. Sound(y) /\ StatusIsSound(y)
    BY <1>2 DEF Sound, StatusIsSound
  <1> QED BY <1>2, <1>3 DEF y

LEMMA JustStopType ==
    ASSUME NEW x, Sound(x)
    PROVE  /\ Sound(stop(x)) /\ StatusIsSound(stop(x))
           /\ stop(x).open = x.open /\ stop(x).close = x.close
           /\ stop(x).take_profit = x.take_profit /\ stop(x).stray = x.stray
           /\ stop(x).status = "TERMINATED" /\ stop(x).close_type = x.close_type
  <1> DEFINE y == stop(x)
  <1>1. /\ y \in Executor /\ y.open = x.open /\ y.close = x.close
        /\ y.take_profit = x.take_profit /\ y.stray = x.stray
        /\ y.status = "TERMINATED" /\ y.close_type = x.close_type
        /\ y.terminated = TRUE /\ y.registered = FALSE
    BY DEF Sound, Executor, stop
  <1> HIDE DEF y
  <1>2. Sound(y) /\ StatusIsSound(y)
    BY <1>1 DEF Sound, StatusIsSound
  <1> QED BY <1>1, <1>2 DEF y

LEMMA OnStartKeepsPInv == PInv /\ on_start => PInv'
  <1> SUFFICES ASSUME PInv, on_start PROVE PInv'
    OBVIOUS
  <1>1. /\ Sound(executor) /\ StatusIsSound(executor) /\ executor.open = NoOrder
        /\ executor.close = NoOrder /\ executor.take_profit = NoOrder
        /\ executor.stray = 0 /\ closed = 0 /\ opened = 0 /\ ~exists(NoOrder)
        /\ NoOrder.filled = 0 /\ Live(NoOrder) = 0
    BY NoOrderIsSound DEF PInv, PType, NothingYet, on_start
  <1>2. PICK type \in CloseTypes : executor' = executor \/ executor' = StopAs(executor, type)
    BY DEF on_start, CloseTypes
  <1>3. /\ setup' = setup /\ closed' = closed /\ opened' = opened /\ loop' = "ready"
    BY DEF on_start, given
  <1>4. CASE executor' = executor
    BY <1>3, <1>4 DEF PInv, PType, NothingYet, FillsAreCounted, EndsCovered, OneWay, ClosesOneWay, ClosedOneWay
  <1>5. CASE executor' = StopAs(executor, type)
    <2>1. /\ Sound(executor') /\ StatusIsSound(executor')
          /\ executor'.open = NoOrder /\ executor'.close = NoOrder
          /\ executor'.take_profit = NoOrder /\ executor'.stray = 0
          /\ executor'.status = "TERMINATED"
      BY <1>1, <1>5, StopType
    <2> QED
      BY <1>1, <1>3, <2>1
         DEF PInv, PType, NothingYet, FillsAreCounted, EndsCovered, OneWay, ClosesOneWay, ClosedOneWay
  <1> QED BY <1>2, <1>4, <1>5

(* The orders as they are, or stopped for good: nothing more is closed.     *)
LEMMA MaxRetriesKeepsPInv ==
    ASSUME PInv, loop # "starting", NEW x, Sound(x), StatusIsSound(x),
           executor' = evaluate_max_retries(x),
           x.open.filled = opened', x.close.filled <= closed', x.take_profit.filled <= closed',
           x.status = "TERMINATED" /\ x.close_type # "FAILED" => opened' <= closed' /\ Live(x.open) = 0,
           ClosesOneWay => ClosedOneWay(x, closed'),
           setup' = setup, loop' \in {"ready", "resting"}, closed' \in Nat
    PROVE  PInv'
  <1>1. "FAILED" \in CloseTypes
    BY DEF CloseTypes
  <1>2. \/ executor' = x
        \/ /\ Sound(executor') /\ StatusIsSound(executor')
           /\ executor'.open = x.open /\ executor'.close = x.close
           /\ executor'.take_profit = x.take_profit /\ executor'.stray = x.stray
           /\ executor'.status = "TERMINATED" /\ executor'.close_type = "FAILED"
    BY <1>1, StopType DEF evaluate_max_retries
  <1>3. PType'
    BY <1>2 DEF PInv, PType
  <1>4. NothingYet' /\ FillsAreCounted'
    BY <1>2 DEF NothingYet, FillsAreCounted
  <1>5. EndsCovered'
    BY <1>2 DEF EndsCovered
  <1>6. OneWay'
    BY <1>2 DEF OneWay, ClosesOneWay, ClosedOneWay
  <1> QED BY <1>3, <1>4, <1>5, <1>6 DEF PInv

LEMMA RunPassKeepsPInv == ASSUME Amount = 1 PROVE PInv /\ run_pass => PInv'
  <1> SUFFICES ASSUME PInv, run_pass PROVE PInv'
    OBVIOUS
  <1>1. PICK hit \in Hits, within \in BOOLEAN :
            executor' = evaluate_max_retries(
                            control_barriers(control_open_order(executor, within), hit, within))
    BY DEF run_pass
  <1> DEFINE y == control_barriers(control_open_order(executor, within), hit, within)
  <1>2. /\ Sound(executor) /\ executor.status = "RUNNING" /\ executor.close = NoOrder
        /\ executor.stray = 0 /\ ~executor.terminated /\ executor.registered
        /\ executor.close.filled = 0
    BY DEF PInv, PType, StatusIsSound, run_pass, NoOrder
  <1>3. Active(executor)
    BY <1>2 DEF Active
  <1>4. Active(y) /\ KeepsFills(executor, y)
    BY <1>3, PassKeepsActive
  <1>5. ASSUME ClosesOneWay
        PROVE  ClosedOneWay(y, closed)
    <2>1. CASE "take_profit_limit" \in setup.barriers
      <3>1. exists(executor.take_profit) => executor.open.filled = 1
        BY <1>5 DEF PInv, OneWay, ClosedOneWay
      <3>2. y.status = "RUNNING" /\ (exists(y.take_profit) => y.open.filled = 1)
        BY <1>2, <1>3, <1>5, <2>1, <3>1, PassTakesProfit DEF PInv
      <3>3. closed = executor.take_profit.filled
        BY <1>5, <2>1 DEF PInv, OneWay, ClosedOneWay
      <3> HIDE DEF y
      <3> QED BY <1>4, <2>1, <3>2, <3>3, NoOrderIsSound DEF Active, KeepsFills, ClosedOneWay
    <2>2. CASE "take_profit_limit" \notin setup.barriers
      <3>1. executor.take_profit = NoOrder /\ closed = 0
        BY <1>2, <1>5, <2>2 DEF PInv, OneWay, ClosedOneWay
      <3>2. Unclosed(y) \/ ClosedOnce(y)
        BY <1>2, <1>3, <1>5, <2>2, <3>1, PassClosesOnce DEF PInv, Unclosed
      <3> HIDE DEF y
      <3> QED
        BY <1>4, <2>2, <3>1, <3>2, NoOrderIsSound
           DEF Unclosed, ClosedOnce, Active, ClosedOneWay
    <2> QED BY <2>1, <2>2
  <1> HIDE DEF y
  <1>6. /\ setup' = setup /\ closed' = closed /\ opened' = opened /\ loop' = loop /\ loop = "ready"
    BY DEF run_pass, given
  <1>7. Sound(y) /\ StatusIsSound(y) /\ y.status # "TERMINATED" /\ y.close.filled = 0
    BY <1>4 DEF Active, StatusIsSound
  <1>8. y.open.filled = opened /\ y.take_profit.filled <= closed /\ closed \in Nat
    BY <1>4 DEF KeepsFills, PInv, PType, FillsAreCounted
  <1> QED BY <1>1, <1>5, <1>6, <1>7, <1>8, MaxRetriesKeepsPInv DEF y

LEMMA RestedKeepsPInv == PInv /\ rested => PInv'
  <1> SUFFICES ASSUME PInv, rested PROVE PInv'
    OBVIOUS
  <1>1. /\ setup' = setup /\ closed' = closed /\ opened' = opened
        /\ loop' = "ready" /\ loop = "resting" /\ executor' = evaluate_max_retries(executor)
    BY DEF rested, given
  <1> QED
    BY <1>1, MaxRetriesKeepsPInv
       DEF PInv, PType, FillsAreCounted, EndsCovered, OneWay

LEMMA LoopEndsKeepsPInv == PInv /\ loop_ends => PInv'
  BY DEF PInv, PType, NothingYet, FillsAreCounted, EndsCovered, OneWay, ClosesOneWay, ClosedOneWay,
         loop_ends, given

(* A round of the shutdown that goes on: cancellations and one more retry.  *)
LEMMA RetryType ==
    ASSUME NEW x, Sound(x)
    PROVE  LET y == Retry(x) IN
           /\ Sound(y) /\ y.close = x.close /\ y.stray = x.stray /\ y.status = x.status
           /\ y.close_type = x.close_type
           /\ y.terminated = x.terminated /\ y.registered = x.registered
           /\ SameOrder(x.open, y.open) /\ SameOrder(x.take_profit, y.take_profit)
  <1> DEFINE z == cancel_open_orders(x)
             y == [z EXCEPT !.retries = z.retries + 1]
  <1>1. OnlyCancelled(x, z)
    BY CancelOpenOrders
  <1>2. y = Retry(x)
    BY DEF Retry
  <1> HIDE DEF z
  <1>3. Sound(z) /\ z \in Executor /\ z.retries + 1 \in Nat
    BY <1>1 DEF OnlyCancelled, Sound, Executor
  <1>4. /\ y \in Executor /\ y.open = z.open /\ y.close = z.close /\ y.take_profit = z.take_profit
        /\ y.stray = z.stray /\ y.status = z.status /\ y.close_type = z.close_type
        /\ y.terminated = z.terminated /\ y.registered = z.registered
    BY <1>3 DEF Executor
  <1> HIDE DEF y
  <1> QED BY <1>1, <1>2, <1>3, <1>4 DEF OnlyCancelled, SameState, SameRun, Sound

LEMMA CloseOrderUpdatedKeepsPInv == PInv /\ close_order_updated => PInv'
  <1> SUFFICES ASSUME PInv, close_order_updated PROVE PInv'
    OBVIOUS
  <1>1. /\ setup' = setup /\ closed' = closed /\ opened' = opened /\ loop' = "resting"
        /\ executor' = Retry(executor)
    BY DEF close_order_updated, given
  <1>2. Sound(executor)
    BY DEF PInv, PType
  <1>3. /\ Sound(executor') /\ executor'.close = executor.close /\ executor'.stray = executor.stray
        /\ executor'.status = executor.status /\ executor'.close_type = executor.close_type
        /\ executor'.terminated = executor.terminated
        /\ executor'.registered = executor.registered
        /\ SameOrder(executor.open, executor'.open)
        /\ SameOrder(executor.take_profit, executor'.take_profit)
    BY <1>1, <1>2, RetryType
  <1>4. /\ executor'.open.filled = executor.open.filled
        /\ executor'.take_profit.filled = executor.take_profit.filled
        /\ Live(executor'.open) = Live(executor.open)
        /\ exists(executor'.take_profit) <=> exists(executor.take_profit)
        /\ executor.take_profit = NoOrder => executor'.take_profit = NoOrder
    BY <1>2, <1>3, SameOrderFacts DEF Sound
  <1>5. PType'
    BY <1>1, <1>3, <1>4 DEF PInv, PType, StatusIsSound
  <1>6. NothingYet' /\ FillsAreCounted' /\ EndsCovered'
    BY <1>1, <1>3, <1>4 DEF PInv, NothingYet, FillsAreCounted, EndsCovered
  <1>7. OneWay'
    BY <1>1, <1>3, <1>4 DEF PInv, OneWay, ClosesOneWay, ClosedOneWay
  <1> QED BY <1>5, <1>6, <1>7 DEF PInv

(* Closing an executor that is not closed yet, by a stop or a barrier.      *)
LEMMA ClosingKeepsPInv ==
    ASSUME PInv, NEW type \in CloseTypes, NEW y, Closes(executor, y, type),
           executor.status # "TERMINATED",
           ClosesOneWay => /\ ~exists(executor.close)
                           /\ "take_profit_limit" \notin setup.barriers,
           Sound(executor'),
           executor'.close = y.close, executor'.stray = y.stray, executor'.status = y.status,
           executor'.terminated = y.terminated, executor'.registered = y.registered,
           SameOrder(y.open, executor'.open), SameOrder(y.take_profit, executor'.take_profit),
           setup' = setup, opened' = opened, closed' = closed,
           loop' \in {"starting", "ready", "updating", "resting", "over"},
           loop' = "starting" => loop = "starting"
    PROVE  PInv'
  <1>1. Sound(executor) /\ Sound(y)
    BY DEF PInv, PType, Closes
  <1>2. /\ executor'.open.filled = executor.open.filled
        /\ executor'.take_profit.filled = executor.take_profit.filled
        /\ executor.open = NoOrder => executor'.open = NoOrder
        /\ executor.take_profit = NoOrder => executor'.take_profit = NoOrder
    <2>1. /\ SameOrder(executor.open, executor'.open)
          /\ SameOrder(executor.take_profit, executor'.take_profit)
      BY DEF Closes, SameOrder
    <2> QED BY <1>1, <2>1, SameOrderFacts DEF Sound
  <1>3. /\ executor'.status = "SHUTTING_DOWN" /\ executor'.terminated = executor.terminated
        /\ executor'.registered = executor.registered
    BY DEF Closes, SameRun
  <1>4. \/ executor'.close = executor.close /\ executor'.stray = executor.stray
        \/ /\ executed(executor.open) = 1 /\ executor'.close = Placed(1)
           /\ executor'.stray = executor.stray + Live(executor.close)
    BY DEF Closes
  <1>5. executed(executor.open) = 1 => executor.open.filled = 1
    BY <1>1, OrderFacts DEF Sound
  <1>6. Placed(1).filled = 0
    BY PlacedIsSound
  <1>7. PType'
    BY <1>2, <1>3 DEF PInv, PType, StatusIsSound
  <1>8. FillsAreCounted'
    <2>1. executor'.close.filled <= closed
      BY <1>4, <1>6 DEF PInv, PType, FillsAreCounted
    <2> QED BY <1>2, <2>1 DEF PInv, FillsAreCounted
  <1>9. NothingYet'
    <2>1. SUFFICES ASSUME loop = "starting"
                   PROVE  /\ executor'.open = NoOrder /\ executor'.close = NoOrder
                          /\ executor'.take_profit = NoOrder /\ executor'.stray = 0 /\ closed' = 0
      BY DEF NothingYet
    <2>2. /\ executor.open = NoOrder /\ executor.close = NoOrder
          /\ executor.take_profit = NoOrder /\ executor.stray = 0 /\ closed = 0
      BY <2>1 DEF PInv, NothingYet
    <2>3. executed(executor.open) # 1
      BY <1>5, <2>2, NoOrderIsSound
    <2> QED BY <1>2, <1>4, <2>2, <2>3
  <1>10. EndsCovered'
    BY <1>3 DEF EndsCovered
  <1>11. OneWay'
    <2>1. SUFFICES ASSUME ClosesOneWay PROVE ClosedOneWay(executor, closed)'
      BY DEF OneWay, ClosesOneWay
    <2>2. /\ executor.close = NoOrder /\ Live(executor.close) = 0
          /\ executor.stray = 0 /\ executor.take_profit = NoOrder /\ closed = executor.close.filled
          /\ executor.close.filled = 0
      BY <1>1, <2>1, OrderFacts, NoOrderIsSound DEF PInv, OneWay, ClosedOneWay, Sound
    <2>3. /\ executor'.take_profit = NoOrder /\ ~exists(executor'.take_profit)
          /\ executor'.stray = 0 /\ executor'.close.filled = 0
      <3>1. executor'.take_profit = NoOrder /\ ~exists(NoOrder)
        BY <1>2, <2>2, NoOrderIsSound
      <3>2. executor'.stray = 0 /\ executor'.close.filled = 0
        BY <1>4, <1>6, <2>2
      <3> QED BY <3>1, <3>2
    <2>4. exists(executor'.close) => executor'.open.filled = 1
      BY <1>2, <1>4, <1>5, <2>2, NoOrderIsSound
    <2>5. "take_profit_limit" \notin setup'.barriers /\ closed' = 0
      BY <2>1, <2>2
    <2> QED BY <2>3, <2>4, <2>5 DEF ClosedOneWay
  <1> QED BY <1>7, <1>8, <1>9, <1>10, <1>11 DEF PInv

LEMMA EarlyStopKeepsPInv == ASSUME NEW by \in Stoppers PROVE PInv /\ early_stop(by) => PInv'
  <1> SUFFICES ASSUME PInv, early_stop(by) PROVE PInv'
    OBVIOUS
  <1> DEFINE y == place_close_order_and_cancel_open_orders(executor, "EARLY_STOP")
  <1>1. /\ setup' = setup /\ closed' = closed /\ opened' = opened /\ loop' = loop
        /\ executor' = y
    BY DEF early_stop
  <1>2. Sound(executor) /\ "EARLY_STOP" \in CloseTypes
    BY DEF PInv, PType, CloseTypes
  <1>3. Closes(executor, y, "EARLY_STOP")
    BY <1>2, ClosingCloses
  <1> HIDE DEF y
  <1>4. executor.status # "TERMINATED"
    BY DEF early_stop
  <1>5. ClosesOneWay => ~exists(executor.close) /\ "take_profit_limit" \notin setup.barriers
    <2>1. SUFFICES ASSUME ClosesOneWay
                   PROVE  ~exists(executor.close) /\ "take_profit_limit" \notin setup.barriers
      OBVIOUS
    <2>2. by # "orchestrator" /\ by \in setup.stopped_by
      BY <2>1 DEF ClosesOneWay, early_stop
    <2>3. executor.status = "RUNNING"
      BY <2>2 DEF early_stop
    <2> QED BY <2>1, <2>2, <2>3, NoOrderIsSound DEF PInv, PType, StatusIsSound, ClosesOneWay
  <1>6. Sound(y) /\ SameOrder(y.open, y.open) /\ SameOrder(y.take_profit, y.take_profit)
    BY <1>3 DEF Closes, SameOrder
  <1>7. loop \in {"starting", "ready", "updating", "resting", "over"}
    BY DEF PInv, PType
  <1> QED BY <1>1, <1>2, <1>3, <1>4, <1>5, <1>6, <1>7, ClosingKeepsPInv

LEMMA ShutdownPassKeepsPInv == PInv /\ shutdown_pass => PInv'
  <1> SUFFICES ASSUME PInv, shutdown_pass PROVE PInv'
    OBVIOUS
  <1>1. /\ setup' = setup /\ closed' = closed /\ opened' = opened
        /\ loop = "ready" /\ executor.status = "SHUTTING_DOWN" /\ loop' \in {"resting", "updating"}
    BY DEF shutdown_pass, given
  <1>2. /\ Sound(executor) /\ StatusIsSound(executor) /\ opened = executor.open.filled
        /\ closed \in Nat
    BY DEF PInv, PType
  <1>3. CASE open_orders_completed(executor) /\ open_and_close_volume_match(executor)
    <2>1. executor' = stop(executor)
      BY <1>3 DEF shutdown_pass
    <2>2. /\ Sound(executor') /\ StatusIsSound(executor')
          /\ executor'.open = executor.open /\ executor'.close = executor.close
          /\ executor'.take_profit = executor.take_profit /\ executor'.stray = executor.stray
          /\ executor'.status = "TERMINATED"
      BY <1>2, <2>1, JustStopType
    <2>3. opened <= closed /\ Live(executor.open) = 0
      <3>1. SoundOrder(executor.open) /\ SoundOrder(executor.close)
        BY <1>2 DEF Sound
      <3>2. executor.close.filled <= closed /\ executor.open.filled \in {0, 1}
        BY <3>1, OrderFacts DEF PInv, FillsAreCounted
      <3>3. Gone(executor.open)
        BY <1>3 DEF open_orders_completed
      <3>4. Live(executor.open) = 0
        <4>1. CASE ~exists(executor.open)
          BY <3>1, <4>1, OrderFacts, NoOrderIsSound
        <4>2. CASE is_filled(executor.open)
          <5>1. executor.open.amount = 1 /\ executor.open.filled = 1
            BY <3>1, <4>2, OrderFacts
          <5>2. Live(executor.open) = executor.open.amount - executor.open.filled
            BY <3>1, OrderFacts
          <5> QED BY <5>1, <5>2
        <4> QED BY <3>3, <4>1, <4>2 DEF Gone
      <3>5. CASE executed(executor.open) = 0
        <4>1. ~is_filled(executor.open)
          <5>1. ASSUME is_filled(executor.open) PROVE FALSE
            <6>1. executor.open.known /\ executor.open.filled = 1
              BY <3>1, <5>1, OrderFacts
            <6> QED BY <3>5, <6>1 DEF executed
          <5> QED BY <5>1
        <4>2. executor.open.filled = 0
          BY <3>1, <3>3, <4>1, OrderFacts DEF Gone
        <4> QED BY <1>2, <3>4, <4>2
      <3>6. CASE is_filled(executor.close)
        <4>1. executor.close.filled = 1
          BY <3>1, <3>6, OrderFacts
        <4> QED BY <1>2, <3>2, <3>4, <4>1
      <3> QED BY <1>3, <3>5, <3>6 DEF open_and_close_volume_match
    <2>4. PType'
      BY <1>1, <1>2, <2>2 DEF PInv, PType
    <2>5. NothingYet' /\ FillsAreCounted' /\ EndsCovered'
      BY <1>1, <2>2, <2>3 DEF PInv, NothingYet, FillsAreCounted, EndsCovered
    <2>6. OneWay'
      BY <1>1, <2>2 DEF PInv, OneWay, ClosesOneWay, ClosedOneWay
    <2> QED BY <2>4, <2>5, <2>6 DEF PInv
  <1>4. ASSUME ~(open_orders_completed(executor) /\ open_and_close_volume_match(executor)),
               exists(executor.close)
        PROVE  PInv'
    <2> DEFINE o == [executor.close EXCEPT !.known = TRUE]
    <2>1. executor' = [executor EXCEPT !.close = o]
      BY <1>4 DEF shutdown_pass
    <2>2. SoundOrder(executor.close) /\ executor.close.amount # 0 /\ executor.close \in Order
      <3>1. SoundOrder(executor.close)
        BY <1>2 DEF Sound
      <3>2. executor.close.amount = 1
        BY <1>4, <3>1, OrderFacts
      <3> QED BY <3>1, <3>2 DEF SoundOrder
    <2>3. o \in Order /\ o.amount = executor.close.amount /\ o.filled = executor.close.filled
          /\ o.completed = executor.close.completed
      BY <2>2 DEF Order
    <2>4. SoundOrder(o) /\ Live(o) = Live(executor.close) /\ (exists(o) <=> exists(executor.close))
      BY <2>2, <2>3 DEF SoundOrder, Live, exists
    <2> HIDE DEF o
    <2>5. /\ executor' \in Executor /\ executor'.close = o /\ executor'.open = executor.open
          /\ executor'.take_profit = executor.take_profit /\ executor'.stray = executor.stray
          /\ executor'.status = executor.status /\ executor'.close_type = executor.close_type
          /\ executor'.terminated = executor.terminated
          /\ executor'.registered = executor.registered
      BY <1>2, <2>1, <2>3 DEF Sound, Executor
    <2>6. PType'
      BY <1>1, <1>2, <2>4, <2>5 DEF PInv, PType, Sound, StatusIsSound
    <2>7. NothingYet' /\ FillsAreCounted' /\ EndsCovered'
      BY <1>1, <2>3, <2>5 DEF PInv, NothingYet, FillsAreCounted, EndsCovered
    <2>8. OneWay'
      BY <1>1, <2>3, <2>4, <2>5 DEF PInv, OneWay, ClosesOneWay, ClosedOneWay
    <2> QED BY <2>6, <2>7, <2>8 DEF PInv
  <1>5. ASSUME ~(open_orders_completed(executor) /\ open_and_close_volume_match(executor)),
               ~exists(executor.close)
        PROVE  PInv'
    <2> DEFINE type == executor.close_type
               y == place_close_order_and_cancel_open_orders(executor, type)
    <2>1. executor' = Retry(y)
      BY <1>5 DEF shutdown_pass
    <2>2. type \in CloseTypes
      BY <1>2 DEF Sound, Executor
    <2> HIDE DEF type
    <2>3. Closes(executor, y, type)
      BY <1>2, <2>2, ClosingCloses
    <2> HIDE DEF y
    <2>4. Sound(y)
      BY <2>3 DEF Closes
    <2>5. /\ Sound(executor') /\ executor'.close = y.close /\ executor'.stray = y.stray
          /\ executor'.status = y.status
          /\ executor'.terminated = y.terminated /\ executor'.registered = y.registered
          /\ SameOrder(y.open, executor'.open) /\ SameOrder(y.take_profit, executor'.take_profit)
      BY <2>1, <2>4, RetryType
    <2>6. executor.status # "TERMINATED"
      BY <1>1
    <2>7. ClosesOneWay => "take_profit_limit" \notin setup.barriers
      BY <1>1, <1>5 DEF PInv, OneWay, ClosedOneWay
    <2>8. loop' \in {"starting", "ready", "updating", "resting", "over"} /\ loop' # "starting"
      BY <1>1
    <2> QED BY <1>1, <1>5, <2>2, <2>3, <2>5, <2>6, <2>7, <2>8, ClosingKeepsPInv
  <1> QED BY <1>3, <1>4, <1>5

----------------------------------------------------------------------------
(* The events of the orders.                                                *)
(* What a change of one order leaves of the rest.                           *)
OnlySlot(x, y, slot, o) ==
    /\ y.open = IF slot = "open" THEN o ELSE x.open
    /\ y.close = IF slot = "close" THEN o ELSE x.close
    /\ y.take_profit = IF slot = "take_profit" THEN o ELSE x.take_profit
    /\ y.stray = x.stray /\ y.status = x.status /\ y.close_type = x.close_type
    /\ y.terminated = x.terminated /\ y.registered = x.registered

LEMMA SetSlot ==
    ASSUME NEW x, Sound(x), NEW slot \in Slots, NEW o, SoundOrder(o)
    PROVE  /\ Sound([x EXCEPT ![slot] = o])
           /\ OnlySlot(x, [x EXCEPT ![slot] = o], slot, o)
  <1> DEFINE y == [x EXCEPT ![slot] = o]
  <1>1. o \in Order /\ x \in Executor
    BY DEF SoundOrder, Sound
  <1>2. CASE slot = "open"
    <2>1. y = [x EXCEPT !.open = o]
      BY <1>2
    <2> HIDE DEF y
    <2>2. y \in Executor /\ OnlySlot(x, y, slot, o)
      BY <1>1, <1>2, <2>1 DEF Executor, OnlySlot
    <2>3. Sound(y)
      BY <1>2, <2>2 DEF Sound, OnlySlot
    <2> QED BY <2>2, <2>3 DEF y
  <1>3. CASE slot = "close"
    <2>1. y = [x EXCEPT !.close = o]
      BY <1>3
    <2> HIDE DEF y
    <2>2. y \in Executor /\ OnlySlot(x, y, slot, o)
      BY <1>1, <1>3, <2>1 DEF Executor, OnlySlot
    <2>3. Sound(y)
      BY <1>3, <2>2 DEF Sound, OnlySlot
    <2> QED BY <2>2, <2>3 DEF y
  <1>4. CASE slot = "take_profit"
    <2>1. y = [x EXCEPT !.take_profit = o]
      BY <1>4
    <2> HIDE DEF y
    <2>2. y \in Executor /\ OnlySlot(x, y, slot, o)
      BY <1>1, <1>4, <2>1 DEF Executor, OnlySlot
    <2>3. Sound(y)
      BY <1>4, <2>2 DEF Sound, OnlySlot
    <2> QED BY <2>2, <2>3 DEF y
  <1> QED BY <1>2, <1>3, <1>4 DEF Slots

(* A slot read by its name holds one of the three orders.                   *)
LEMMA SlotOrder ==
    ASSUME NEW x, Sound(x), NEW slot \in Slots
    PROVE  /\ SoundOrder(x[slot])
           /\ slot = "open" => x[slot] = x.open
           /\ slot = "close" => x[slot] = x.close
           /\ slot = "take_profit" => x[slot] = x.take_profit
  BY DEF Sound, Slots

LEMMA OrderCreatedKeepsPInv ==
    ASSUME NEW slot \in Slots PROVE PInv /\ order_created(slot) => PInv'
  <1> SUFFICES ASSUME PInv, order_created(slot) PROVE PInv'
    OBVIOUS
  <1> DEFINE o == executor[slot]
             p == Known(o)
  <1>1. /\ setup' = setup /\ closed' = closed /\ opened' = opened /\ loop' = loop
        /\ executor' = [executor EXCEPT ![slot] = p] /\ exists(o)
    BY DEF order_created, given
  <1>2. Sound(executor) /\ SoundOrder(o) /\ executor.registered \in BOOLEAN
    BY SlotOrder DEF PInv, PType, Sound, Executor
  <1>3. o \in Order /\ o.amount = 1
    BY <1>1, <1>2, OrderFacts DEF SoundOrder
  <1>4. p \in Order /\ p.amount = o.amount /\ p.filled = o.filled /\ p.completed = o.completed
    BY <1>2, <1>3 DEF Known, Order
  <1>5. SoundOrder(p) /\ Live(p) = Live(o) /\ exists(p)
    BY <1>2, <1>3, <1>4 DEF SoundOrder, Live, exists
  <1>6. Sound(executor') /\ OnlySlot(executor, executor', slot, p)
    BY <1>1, <1>2, <1>5, SetSlot
  <1> HIDE DEF p
  <1>7. /\ executor'.open.filled = executor.open.filled
        /\ executor'.close.filled = executor.close.filled
        /\ executor'.take_profit.filled = executor.take_profit.filled
        /\ Live(executor'.open) = Live(executor.open)
        /\ exists(executor'.close) <=> exists(executor.close)
        /\ exists(executor'.take_profit) <=> exists(executor.take_profit)
        /\ executor.open = NoOrder => executor'.open = NoOrder
        /\ executor.close = NoOrder => executor'.close = NoOrder
        /\ executor.take_profit = NoOrder => executor'.take_profit = NoOrder
    BY <1>1, <1>2, <1>4, <1>5, <1>6, SlotOrder, NoOrderIsSound DEF OnlySlot, Slots
  <1>8. PType'
    BY <1>1, <1>6, <1>7 DEF PInv, PType, StatusIsSound, OnlySlot
  <1>9. NothingYet' /\ FillsAreCounted' /\ EndsCovered'
    BY <1>1, <1>6, <1>7 DEF PInv, NothingYet, FillsAreCounted, EndsCovered, OnlySlot
  <1>10. OneWay'
    BY <1>1, <1>6, <1>7 DEF PInv, OneWay, ClosesOneWay, ClosedOneWay, OnlySlot
  <1> QED BY <1>8, <1>9, <1>10 DEF PInv

LEMMA OrderFilledKeepsPInv ==
    ASSUME NEW slot \in Slots PROVE PInv /\ order_filled(slot) => PInv'
  <1> SUFFICES ASSUME PInv, order_filled(slot) PROVE PInv'
    OBVIOUS
  <1> DEFINE o == executor[slot]
             q == Known(o)
             p == [q EXCEPT !.filled = @ + 1]
  <1>1. /\ setup' = setup /\ loop' = loop
        /\ executor' = [executor EXCEPT ![slot] = p] /\ o.filled < o.amount
        /\ IF slot = "open" THEN opened' = opened + 1 /\ closed' = closed
                            ELSE closed' = closed + 1 /\ opened' = opened
    BY DEF order_filled, given
  <1>2. Sound(executor) /\ SoundOrder(o) /\ executor.registered \in BOOLEAN
    BY SlotOrder DEF PInv, PType, Sound, Executor
  <1>3. o \in Order /\ o.amount = 1 /\ o.filled = 0 /\ Live(o) = 1 /\ exists(o)
    <2>1. /\ o.amount \in {0, 1} /\ o.filled \in {0, 1} /\ Live(o) = o.amount - o.filled
          /\ exists(o) <=> o.amount = 1
      BY <1>2, OrderFacts
    <2>2. o.amount = 1 /\ o.filled = 0
      BY <1>1, <2>1
    <2>3. o \in Order
      BY <1>2 DEF SoundOrder
    <2> HIDE DEF o
    <2>4. Live(o) = 1
      BY <2>1, <2>2
    <2> QED BY <2>1, <2>2, <2>3, <2>4
  <1>4. q \in Order /\ q.amount = 1 /\ q.filled = 0
    BY <1>2, <1>3 DEF Known, Order
  <1> HIDE DEF q
  <1>5. p \in Order /\ p.amount = 1 /\ p.filled = 1
    BY <1>4 DEF Order
  <1> HIDE DEF p
  <1>6. SoundOrder(p) /\ exists(p)
    BY <1>5 DEF SoundOrder, exists
  <1>7. Sound(executor') /\ OnlySlot(executor, executor', slot, p)
    BY <1>1, <1>2, <1>6, SetSlot
  <1>8. /\ o # NoOrder
        /\ slot = "open" => o = executor.open
        /\ slot = "close" => o = executor.close
        /\ slot = "take_profit" => o = executor.take_profit
    BY <1>2, <1>3, SlotOrder, NoOrderIsSound
  <1> HIDE DEF o
  <1>9. PType'
    <2>1. opened' = executor'.open.filled /\ closed' \in Nat
      BY <1>1, <1>3, <1>5, <1>7, <1>8 DEF PInv, PType, OnlySlot, Slots
    <2>2. StatusIsSound(executor')
      BY <1>7, <1>8 DEF PInv, PType, StatusIsSound, OnlySlot
    <2> QED BY <1>1, <1>7, <2>1, <2>2 DEF PInv, PType
  <1>10. NothingYet'
    BY <1>1, <1>8 DEF PInv, NothingYet, Slots
  <1>11. FillsAreCounted'
    <2>1. closed' \in Nat /\ closed \in Nat
      BY <1>9 DEF PInv, PType
    <2>2. CASE slot = "open"
      BY <1>1, <1>7, <2>2 DEF PInv, FillsAreCounted, OnlySlot
    <2>3. CASE slot # "open"
      <3>1. executor.close.filled \in {0, 1} /\ executor.take_profit.filled \in {0, 1}
        BY <1>2, OrderFacts DEF Sound
      <3>2. executor'.close.filled \in {1, executor.close.filled}
        BY <1>5, <1>7 DEF OnlySlot
      <3>3. executor'.take_profit.filled \in {1, executor.take_profit.filled}
        BY <1>5, <1>7 DEF OnlySlot
      <3>4. closed' = closed + 1
        BY <1>1, <2>3
      <3>5. executor'.close.filled <= 1 /\ executor'.take_profit.filled <= 1
        BY <3>1, <3>2, <3>3
      <3> QED BY <2>1, <3>1, <3>2, <3>3, <3>4, <3>5 DEF FillsAreCounted
    <2> QED BY <2>2, <2>3
  <1>12. EndsCovered'
    <2>1. SUFFICES ASSUME executor'.status = "TERMINATED" /\ executor'.close_type # "FAILED"
                   PROVE  opened' <= closed' /\ Live(executor'.open) = 0
      BY DEF EndsCovered
    <2>2. opened <= closed /\ Live(executor.open) = 0
      BY <1>7, <2>1 DEF PInv, EndsCovered, OnlySlot
    <2>3. slot # "open"
      BY <1>3, <1>8, <2>2
    <2>4. opened \in Nat /\ closed \in Nat
      <3>1. executor.open.filled \in {0, 1}
        BY <1>2, OrderFacts DEF Sound
      <3> QED BY <3>1 DEF PInv, PType
    <2> QED BY <1>1, <1>7, <2>2, <2>3, <2>4 DEF OnlySlot
  <1>13. OneWay'
    <2>1. SUFFICES ASSUME ClosesOneWay PROVE ClosedOneWay(executor, closed)'
      BY <1>1 DEF OneWay, ClosesOneWay
    <2>2. ClosedOneWay(executor, closed)
      BY <2>1 DEF PInv, OneWay
    <2>3. CASE slot = "open"
      BY <1>1, <1>5, <1>7, <2>2, <2>3 DEF ClosedOneWay, OnlySlot
    <2>4. CASE slot = "close"
      <3>1. /\ o = executor.close /\ executor'.close = p /\ closed' = closed + 1
            /\ executor'.open = executor.open /\ executor'.take_profit = executor.take_profit
            /\ executor'.stray = executor.stray
        BY <1>1, <1>7, <1>8, <2>4 DEF OnlySlot
      <3>2. exists(executor.close) /\ executor.close.filled = 0
        BY <1>3, <3>1
      <3>3. /\ "take_profit_limit" \notin setup.barriers /\ executor.stray = 0
            /\ executor.open.filled = 1 /\ executor.take_profit = NoOrder
            /\ closed = executor.close.filled
        BY <2>2, <3>2 DEF ClosedOneWay
      <3>4. closed' = p.filled
        BY <1>5, <3>1, <3>2, <3>3
      <3> QED BY <1>1, <3>1, <3>3, <3>4 DEF ClosedOneWay
    <2>5. CASE slot = "take_profit"
      <3>1. /\ o = executor.take_profit /\ executor'.take_profit = p /\ closed' = closed + 1
            /\ executor'.open = executor.open /\ executor'.close = executor.close
            /\ executor'.stray = executor.stray /\ executor'.status = executor.status
        BY <1>1, <1>7, <1>8, <2>5 DEF OnlySlot
      <3>2. exists(executor.take_profit) /\ executor.take_profit.filled = 0
        BY <1>3, <3>1
      <3>3. "take_profit_limit" \in setup.barriers
        BY <1>8, <2>2, <2>5 DEF ClosedOneWay
      <3>4. /\ executor.stray = 0 /\ executor.open.filled = 1 /\ ~exists(executor.close)
            /\ closed = 0 /\ executor.status # "SHUTTING_DOWN"
        <4>1. /\ executor.stray = 0 /\ closed = executor.take_profit.filled
              /\ exists(executor.close) => executor.take_profit.filled = 1
              /\ executor.status = "SHUTTING_DOWN" => exists(executor.close)
          BY <2>2, <3>3 DEF ClosedOneWay
        <4>2. executor.open.filled = 1
          BY <2>2, <3>2 DEF ClosedOneWay
        <4>3. ~exists(executor.close)
          <5>1. 0 # 1
            OBVIOUS
          <5> QED BY <3>2, <4>1, <5>1
        <4> QED BY <3>2, <4>1, <4>2, <4>3
      <3>5. closed' = p.filled
        BY <1>5, <3>1, <3>4
      <3> QED BY <1>1, <3>1, <3>3, <3>4, <3>5 DEF ClosedOneWay
    <2> QED BY <2>3, <2>4, <2>5 DEF Slots
  <1> QED BY <1>9, <1>10, <1>11, <1>12, <1>13 DEF PInv

LEMMA StrayFilledKeepsPInv == PInv /\ stray_filled => PInv'
  <1> SUFFICES ASSUME PInv, stray_filled PROVE PInv'
    OBVIOUS
  <1>1. /\ setup' = setup /\ loop' = loop /\ opened' = opened /\ closed' = closed + 1
        /\ executor.stray > 0 /\ executor' = [executor EXCEPT !.stray = executor.stray - 1]
    BY DEF stray_filled, given
  <1>2. Sound(executor) /\ executor \in Executor /\ executor.stray - 1 \in Nat
    BY <1>1 DEF PInv, PType, Sound, Executor
  <1>3. /\ executor' \in Executor /\ executor'.open = executor.open
        /\ executor'.close = executor.close /\ executor'.take_profit = executor.take_profit
        /\ executor'.status = executor.status /\ executor'.close_type = executor.close_type
        /\ executor'.terminated = executor.terminated
        /\ executor'.registered = executor.registered
    BY <1>1, <1>2 DEF Executor
  <1>4. PType'
    BY <1>1, <1>2, <1>3 DEF PInv, PType, Sound, StatusIsSound
  <1>5. NothingYet'
    BY <1>1 DEF PInv, NothingYet
  <1>6. /\ executor.close.filled \in {0, 1} /\ executor.take_profit.filled \in {0, 1}
        /\ executor.open.filled \in {0, 1} /\ closed \in Nat /\ opened = executor.open.filled
    BY <1>2, OrderFacts DEF Sound, PInv, PType
  <1>7. FillsAreCounted' /\ EndsCovered'
    BY <1>1, <1>3, <1>6 DEF PInv, FillsAreCounted, EndsCovered
  <1>8. OneWay'
    <2>1. SUFFICES ASSUME ClosesOneWay PROVE FALSE
      BY <1>1 DEF OneWay, ClosesOneWay
    <2>2. executor.stray = 0
      BY <2>1 DEF PInv, OneWay, ClosedOneWay
    <2> QED BY <1>1, <2>2
  <1> QED BY <1>4, <1>5, <1>7, <1>8 DEF PInv

LEMMA OrderCompletedKeepsPInv ==
    ASSUME NEW slot \in Slots PROVE PInv /\ order_completed(slot) => PInv'
  <1> SUFFICES ASSUME PInv, order_completed(slot) PROVE PInv'
    OBVIOUS
  <1> DEFINE o == executor[slot]
             q == Known(o)
             p == [q EXCEPT !.completed = TRUE]
             x == [executor EXCEPT ![slot] = p]
  <1>1. /\ setup' = setup /\ loop' = loop /\ closed' = closed /\ opened' = opened
        /\ executor' = IF slot = "take_profit" /\ executor.registered THEN TakesProfit(x) ELSE x
        /\ exists(o) /\ o.filled = o.amount
    BY DEF order_completed, given
  <1>2. Sound(executor) /\ SoundOrder(o) /\ executor.registered \in BOOLEAN
    BY SlotOrder DEF PInv, PType, Sound, Executor
  <1>3. o \in Order /\ o.amount = 1 /\ o.filled = 1 /\ Live(o) = 0
    <2>1. o.amount = 1 /\ Live(o) = o.amount - o.filled
      BY <1>1, <1>2, OrderFacts
    <2> QED BY <1>1, <1>2, <2>1 DEF SoundOrder
  <1>4. q \in Order /\ q.amount = 1 /\ q.filled = 1
    BY <1>2, <1>3 DEF Known, Order
  <1> HIDE DEF q
  <1>5. p \in Order /\ p.amount = 1 /\ p.filled = 1
    BY <1>4 DEF Order
  <1> HIDE DEF p
  <1>6. SoundOrder(p) /\ exists(p) /\ Live(p) = 0
    <2>1. SoundOrder(p) /\ exists(p)
      BY <1>5 DEF SoundOrder, exists
    <2>2. Live(p) = p.amount - p.filled
      BY <2>1, OrderFacts
    <2> QED BY <1>5, <2>1, <2>2
  <1>7. Sound(x) /\ OnlySlot(executor, x, slot, p)
    BY <1>2, <1>6, SetSlot
  <1>8. /\ o # NoOrder
        /\ slot = "open" => o = executor.open
        /\ slot = "close" => o = executor.close
        /\ slot = "take_profit" => o = executor.take_profit
    BY <1>1, <1>2, SlotOrder, NoOrderIsSound
  <1> HIDE DEF o, x
  <1>9. /\ x.open.filled = executor.open.filled
        /\ x.close.filled = executor.close.filled
        /\ x.take_profit.filled = executor.take_profit.filled
        /\ Live(x.open) = Live(executor.open) /\ Live(x.close) = Live(executor.close)
        /\ exists(x.close) <=> exists(executor.close)
        /\ exists(x.take_profit) <=> exists(executor.take_profit)
        /\ executor.open = NoOrder => x.open = NoOrder
        /\ executor.close = NoOrder => x.close = NoOrder
        /\ executor.take_profit = NoOrder => x.take_profit = NoOrder
    BY <1>1, <1>3, <1>5, <1>6, <1>7, <1>8, NoOrderIsSound DEF OnlySlot
  <1>10. CASE executor' = x
    <2>1. PType'
      BY <1>1, <1>7, <1>9, <1>10 DEF PInv, PType, StatusIsSound, OnlySlot
    <2>2. NothingYet' /\ FillsAreCounted' /\ EndsCovered'
      BY <1>1, <1>7, <1>9, <1>10 DEF PInv, NothingYet, FillsAreCounted, EndsCovered, OnlySlot
    <2>3. OneWay'
      BY <1>1, <1>7, <1>9, <1>10 DEF PInv, OneWay, ClosesOneWay, ClosedOneWay, OnlySlot
    <2> QED BY <2>1, <2>2, <2>3 DEF PInv
  <1>11. ASSUME slot = "take_profit", executor.registered, executor' = TakesProfit(x)
         PROVE  PInv'
    <2>1. /\ x \in Executor /\ SoundOrder(x.open) /\ SoundOrder(x.close) /\ SoundOrder(p)
          /\ x.take_profit = p /\ x.stray = executor.stray
          /\ x.terminated = executor.terminated /\ x.registered = executor.registered
      BY <1>6, <1>7, <1>11 DEF Sound, OnlySlot
    <2>2. Live(x.close) \in {0, 1} /\ x.stray \in Nat
      BY <2>1, OrderFacts DEF Executor
    <2>3. x.stray + Live(x.close) \in Nat
      BY <2>2
    <2>4. executor' = [x EXCEPT !.close_type = "take_profit_limit", !.close = p,
                                !.stray = x.stray + Live(x.close), !.status = "SHUTTING_DOWN"]
      BY <1>11, <2>1 DEF TakesProfit
    <2>5. "take_profit_limit" \in CloseTypes
      BY DEF CloseTypes, Barriers
    <2>6. executor' \in Executor
      BY <1>5, <2>1, <2>3, <2>4, <2>5 DEF Executor
    <2>7. /\ executor'.open = x.open /\ executor'.close = p /\ executor'.take_profit = p
          /\ executor'.stray = x.stray + Live(x.close) /\ executor'.status = "SHUTTING_DOWN"
          /\ executor'.terminated = x.terminated /\ executor'.registered = x.registered
      BY <2>1, <2>4 DEF Executor
    <2>8. executor.status # "TERMINATED" /\ ~executor.terminated
      BY <1>11 DEF PInv, PType, StatusIsSound
    <2>9. PType'
      <3>1. Sound(executor') /\ StatusIsSound(executor')
        BY <1>11, <2>1, <2>6, <2>7, <2>8 DEF Sound, StatusIsSound
      <3> QED BY <1>1, <1>9, <2>7, <3>1 DEF PInv, PType
    <2>10. NothingYet'
      BY <1>1, <1>8, <1>11 DEF PInv, NothingYet
    <2>11. FillsAreCounted'
      BY <1>1, <1>3, <1>5, <1>8, <1>11, <2>7 DEF PInv, FillsAreCounted
    <2>12. EndsCovered'
      BY <2>7 DEF EndsCovered
    <2>13. OneWay'
      <3>1. SUFFICES ASSUME ClosesOneWay PROVE ClosedOneWay(executor, closed)'
        BY <1>1 DEF OneWay, ClosesOneWay
      <3>2. ClosedOneWay(executor, closed)
        BY <3>1 DEF PInv, OneWay
      <3>3. "take_profit_limit" \in setup.barriers /\ executor.stray = 0
            /\ closed = executor.take_profit.filled
        BY <1>8, <1>11, <3>2 DEF ClosedOneWay
      <3>4. exists(executor.take_profit) /\ executor.take_profit.filled = 1
        BY <1>1, <1>3, <1>8, <1>11
      <3>5. executor.open.filled = 1 /\ (exists(executor.close) => executor.close.filled = 1)
        BY <3>2, <3>3, <3>4 DEF ClosedOneWay
      <3>6. Live(executor.close) = 0
        <4>1. SoundOrder(executor.close)
          BY <1>2 DEF Sound
        <4>2. CASE exists(executor.close)
          <5>1. /\ executor.close.amount = 1 /\ executor.close.filled = 1
                /\ Live(executor.close) = executor.close.amount - executor.close.filled
            BY <3>5, <4>1, <4>2, OrderFacts
          <5> QED BY <5>1
        <4>3. CASE ~exists(executor.close)
          BY <4>1, <4>3, OrderFacts, NoOrderIsSound
        <4> QED BY <4>2, <4>3
      <3>7. executor'.stray = 0
        BY <1>9, <2>1, <2>7, <3>3, <3>6
      <3> QED
        BY <1>1, <1>5, <1>6, <1>9, <2>7, <3>3, <3>4, <3>5, <3>7 DEF ClosedOneWay
    <2> QED BY <2>9, <2>10, <2>11, <2>12, <2>13 DEF PInv
  <1> QED BY <1>1, <1>10, <1>11

(* An order that ends unfilled leaves its slot empty.                       *)
LEMMA EmptiedSlotKeepsPInv ==
    ASSUME PInv, NEW slot \in Slots, exists(executor[slot]), executor[slot].filled = 0,
           Sound(executor'), OnlySlot(executor, executor', slot, NoOrder),
           setup' = setup, loop' = loop, opened' = opened, closed' = closed
    PROVE  PInv'
  <1> DEFINE o == executor[slot]
  <1>1. Sound(executor) /\ SoundOrder(o)
    BY SlotOrder DEF PInv, PType
  <1>2. /\ o # NoOrder
        /\ slot = "open" => o = executor.open
        /\ slot = "close" => o = executor.close
        /\ slot = "take_profit" => o = executor.take_profit
    BY <1>1, SlotOrder, NoOrderIsSound
  <1>3. o.filled = 0 /\ exists(o) /\ Live(o) = 1
    <2>1. o.filled = 0 /\ exists(o)
      OBVIOUS
    <2> HIDE DEF o
    <2>2. o.amount = 1 /\ Live(o) = o.amount - o.filled
      BY <1>1, <2>1, OrderFacts
    <2> QED BY <2>1, <2>2
  <1> HIDE DEF o
  <1>4. /\ executor'.open.filled = executor.open.filled
        /\ executor'.close.filled = executor.close.filled
        /\ executor'.take_profit.filled = executor.take_profit.filled
    BY <1>2, <1>3, NoOrderIsSound DEF OnlySlot
  <1>5. /\ exists(executor'.close) => exists(executor.close)
        /\ exists(executor'.take_profit) => exists(executor.take_profit)
        /\ executor.open = NoOrder => executor'.open = NoOrder
        /\ executor.close = NoOrder => executor'.close = NoOrder
        /\ executor.take_profit = NoOrder => executor'.take_profit = NoOrder
        /\ Live(executor.open) = 0 => Live(executor'.open) = 0
    BY NoOrderIsSound DEF OnlySlot
  <1>6. PType'
    BY <1>4, <1>5 DEF PInv, PType, StatusIsSound, OnlySlot
  <1>7. NothingYet' /\ FillsAreCounted' /\ EndsCovered'
    BY <1>4, <1>5 DEF PInv, NothingYet, FillsAreCounted, EndsCovered, OnlySlot
  <1>8. OneWay'
    <2>1. SUFFICES ASSUME ClosesOneWay PROVE ClosedOneWay(executor, closed)'
      BY DEF OneWay, ClosesOneWay
    <2>2. ClosedOneWay(executor, closed)
      BY <2>1 DEF PInv, OneWay
    <2>3. CASE "take_profit_limit" \notin setup.barriers
      BY <1>4, <1>5, <2>2, <2>3 DEF ClosedOneWay, OnlySlot
    <2>4. CASE "take_profit_limit" \in setup.barriers
      <3>1. slot = "close" => FALSE
        BY <1>2, <1>3, <2>2, <2>4 DEF ClosedOneWay
      <3>2. executor'.close = executor.close
        BY <3>1 DEF OnlySlot
      <3> QED BY <1>4, <1>5, <2>2, <2>4, <3>2 DEF ClosedOneWay, OnlySlot
    <2> QED BY <2>3, <2>4
  <1> QED BY <1>6, <1>7, <1>8 DEF PInv

LEMMA OrderCancelledKeepsPInv ==
    ASSUME NEW slot \in Slots PROVE PInv /\ order_cancelled(slot) => PInv'
  <1> SUFFICES ASSUME PInv, order_cancelled(slot) PROVE PInv'
    OBVIOUS
  <1>1. /\ setup' = setup /\ loop' = loop /\ closed' = closed /\ opened' = opened
        /\ executor' = [executor EXCEPT ![slot] = NoOrder]
        /\ executor[slot].filled < executor[slot].amount
    BY DEF order_cancelled, given, Without
  <1>2. Sound(executor) /\ SoundOrder(executor[slot])
    BY SlotOrder DEF PInv, PType
  <1>3. exists(executor[slot]) /\ executor[slot].filled = 0
    BY <1>1, <1>2, OrderFacts DEF exists
  <1>4. Sound(executor') /\ OnlySlot(executor, executor', slot, NoOrder)
    BY <1>1, <1>2, NoOrderIsSound, SetSlot
  <1> QED BY <1>1, <1>3, <1>4, EmptiedSlotKeepsPInv

LEMMA OrderFailedKeepsPInv ==
    ASSUME NEW slot \in Slots PROVE PInv /\ order_failed(slot) => PInv'
  <1> SUFFICES ASSUME PInv, order_failed(slot) PROVE PInv'
    OBVIOUS
  <1> DEFINE x == [executor EXCEPT ![slot] = NoOrder]
             n == IF executor.registered THEN x.retries + 1 ELSE x.retries
             y == [x EXCEPT !.retries = n]
  <1>1. /\ setup' = setup /\ loop' = loop /\ closed' = closed /\ opened' = opened
        /\ executor' = y /\ exists(executor[slot]) /\ executor[slot].filled = 0
    BY DEF order_failed, given, Without
  <1>2. Sound(executor)
    BY DEF PInv, PType
  <1>3. Sound(x) /\ OnlySlot(executor, x, slot, NoOrder)
    BY <1>2, NoOrderIsSound, SetSlot
  <1> HIDE DEF x
  <1>4. x \in Executor /\ n \in Nat
    BY <1>3 DEF Sound, Executor
  <1> HIDE DEF n
  <1>5. /\ y \in Executor /\ y.open = x.open /\ y.close = x.close /\ y.take_profit = x.take_profit
        /\ y.stray = x.stray /\ y.status = x.status /\ y.close_type = x.close_type
        /\ y.terminated = x.terminated /\ y.registered = x.registered
    BY <1>4 DEF Executor
  <1> HIDE DEF y
  <1>6. Sound(executor') /\ OnlySlot(executor, executor', slot, NoOrder)
    BY <1>1, <1>3, <1>5 DEF Sound, OnlySlot
  <1> QED BY <1>1, <1>6, EmptiedSlotKeepsPInv

----------------------------------------------------------------------------
LEMMA NextKeepsPInv == ASSUME Amount = 1 PROVE PInv /\ [Next]_vars => PInv'
  <1> SUFFICES ASSUME PInv, [Next]_vars PROVE PInv'
    OBVIOUS
  <1>1. CASE LoopStep
    BY <1>1, OnStartKeepsPInv, RunPassKeepsPInv, ShutdownPassKeepsPInv,
       CloseOrderUpdatedKeepsPInv, RestedKeepsPInv, LoopEndsKeepsPInv DEF LoopStep
  <1>2. CASE OrderEvent
    BY <1>2, OrderCreatedKeepsPInv, OrderFilledKeepsPInv, OrderCompletedKeepsPInv,
       OrderCancelledKeepsPInv, OrderFailedKeepsPInv DEF OrderEvent
  <1>3. CASE stray_filled
    BY <1>3, StrayFilledKeepsPInv
  <1>4. CASE \E by \in Stoppers : early_stop(by)
    BY <1>4, EarlyStopKeepsPInv
  <1>5. CASE UNCHANGED vars
    BY <1>5 DEF vars, given, PInv, PType, NothingYet, FillsAreCounted, EndsCovered,
                OneWay, ClosedOneWay, ClosesOneWay
  <1> QED BY <1>1, <1>2, <1>3, <1>4, <1>5 DEF Next

LEMMA PInvImpliesClosesOnce == PInv => ClosesOnce
  <1> SUFFICES ASSUME PInv, ClosesOneWay
               PROVE  closed + executor.stray + Live(executor.close) + Live(executor.take_profit)
                          <= opened
    BY DEF ClosesOnce
  <1>1. /\ SoundOrder(executor.open) /\ SoundOrder(executor.close)
        /\ SoundOrder(executor.take_profit) /\ opened = executor.open.filled
        /\ ClosedOneWay(executor, closed)
    BY DEF PInv, PType, Sound, OneWay
  <1> DEFINE o == executor.open  c == executor.close  t == executor.take_profit
  <1>0. SoundOrder(o) /\ SoundOrder(c) /\ SoundOrder(t)
    BY <1>1
  <1>2. /\ Live(c) = c.amount - c.filled /\ c.amount \in {0, 1} /\ c.filled \in {0, 1}
        /\ Live(t) = t.amount - t.filled /\ t.amount \in {0, 1} /\ t.filled \in {0, 1}
        /\ o.filled \in {0, 1}
        /\ (exists(c) <=> c.amount = 1) /\ (~exists(c) => c.filled = 0)
        /\ (exists(t) <=> t.amount = 1) /\ (~exists(t) => t.filled = 0)
    <2> HIDE DEF o, c, t
    <2> QED BY <1>0, OrderFacts
  <1>3. /\ executor.stray = 0 /\ (exists(c) \/ exists(t) => o.filled = 1)
    BY <1>1 DEF ClosedOneWay
  <1>5. CASE "take_profit_limit" \in setup.barriers
    <2>1. closed = t.filled /\ (exists(c) => c.filled = 1 /\ t.filled = 1)
      BY <1>1, <1>5 DEF ClosedOneWay
    <2> HIDE DEF o, c, t
    <2>2. Live(c) = 0
      <3>1. CASE exists(c)
        BY <1>2, <2>1, <3>1
      <3>2. CASE ~exists(c)
        BY <1>0, <3>2, OrderFacts, NoOrderIsSound
      <3> QED BY <3>1, <3>2
    <2>3. closed + Live(t) = t.amount
      BY <1>2, <2>1
    <2>4. t.amount <= o.filled
      <3>1. CASE t.amount = 1
        BY <1>2, <1>3, <3>1
      <3>2. CASE t.amount = 0
        BY <1>2, <3>2
      <3> QED BY <1>2, <3>1, <3>2
    <2>5. closed + 0 + Live(c) + Live(t) <= o.filled
      BY <1>2, <2>1, <2>2, <2>3, <2>4
    <2> QED BY <1>1, <1>3, <2>5 DEF o, c, t
  <1>6. CASE "take_profit_limit" \notin setup.barriers
    <2>1. closed = c.filled /\ t = NoOrder
      BY <1>1, <1>6 DEF ClosedOneWay
    <2> HIDE DEF o, c, t
    <2>2. Live(t) = 0
      BY <2>1, NoOrderIsSound
    <2>3. closed + Live(c) = c.amount
      BY <1>2, <2>1
    <2>4. c.amount <= o.filled
      <3>1. CASE c.amount = 1
        BY <1>2, <1>3, <3>1
      <3>2. CASE c.amount = 0
        BY <1>2, <3>2
      <3> QED BY <1>2, <3>1, <3>2
    <2>5. closed + 0 + Live(c) + Live(t) <= o.filled
      BY <1>2, <2>1, <2>2, <2>3, <2>4
    <2> QED BY <1>1, <1>3, <2>5 DEF o, c, t
  <1> QED BY <1>5, <1>6

LEMMA PInvImpliesEndsFlat == PInv => EndsFlat
  <1> SUFFICES ASSUME PInv, executor.status = "TERMINATED", executor.close_type # "FAILED"
               PROVE  /\ opened <= closed /\ Live(executor.open) = 0
                      /\ ClosesOneWay =>
                            opened = closed /\ \A slot \in Slots : Live(executor[slot]) = 0
    BY DEF EndsFlat
  <1>1. opened <= closed /\ Live(executor.open) = 0
    BY DEF PInv, EndsCovered
  <1>2. ASSUME ClosesOneWay
        PROVE  opened = closed /\ \A slot \in Slots : Live(executor[slot]) = 0
    <2>1. closed + executor.stray + Live(executor.close) + Live(executor.take_profit) <= opened
      BY <1>2, PInvImpliesClosesOnce DEF ClosesOnce
    <2>2. /\ SoundOrder(executor.open) /\ SoundOrder(executor.close)
          /\ SoundOrder(executor.take_profit) /\ opened = executor.open.filled
          /\ closed \in Nat /\ executor.stray = 0
      BY <1>2 DEF PInv, PType, Sound, OneWay, ClosedOneWay
    <2>3. /\ Live(executor.close) \in {0, 1} /\ Live(executor.take_profit) \in {0, 1}
          /\ executor.open.filled \in {0, 1}
      BY <2>2, OrderFacts
    <2>4. opened = closed /\ Live(executor.close) = 0 /\ Live(executor.take_profit) = 0
      BY <1>1, <2>1, <2>2, <2>3
    <2> QED BY <1>1, <2>4 DEF Slots
  <1> QED BY <1>1, <1>2

(* The inductive invariant, with an amount that is filled at once.          *)
THEOREM ExecutorInvariant == ASSUME Amount = 1 PROVE Spec => []PInv
  <1>1. Init => PInv
    BY InitPInv
  <1>2. PInv /\ [Next]_vars => PInv'
    BY NextKeepsPInv
  <1> QED BY <1>1, <1>2, PTL DEF Spec

(* With one way to close at a time, what was closed and what orders may     *)
(* still close never exceed what was opened, whatever fails, fills late or  *)
(* is stopped: control_close_order's "not placed" is never wrong.           *)
THEOREM PositionIsClosedOnce == ASSUME Amount = 1 PROVE Spec => []ClosesOnce
  BY ExecutorInvariant, PInvImpliesClosesOnce, PTL

(* An executor that ends without giving up has closed all it opened and     *)
(* opens nothing more; with one way to close at a time, exactly once and    *)
(* with no order left, as stop after control_shutdown_process takes for     *)
(* granted.                                                                 *)
THEOREM ExecutorsEndFlat == ASSUME Amount = 1 PROVE Spec => []EndsFlat
  BY ExecutorInvariant, PInvImpliesEndsFlat, PTL
=============================================================================
