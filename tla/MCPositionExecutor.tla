------------------------- MODULE MCPositionExecutor -------------------------
(* PositionExecutor with executors of several setups for TLC.               *)
EXTENDS PositionExecutor

Setup(barriers, bounds, stopped_by) ==
    [barriers |-> barriers, bounds |-> bounds, stopped_by |-> stopped_by]

(* One barrier at a time is hit, no limit order takes profit beside another *)
(* way to close, and the strategy stops only what is active.                *)
PlainSetups == {Setup({"stop_loss", "take_profit"}, TRUE, {"strategy"}),
                Setup({"time_limit"}, TRUE, {"strategy"}),
                Setup({"trailing_stop"}, FALSE, {"strategy"}),
                Setup({"take_profit_limit"}, TRUE, {})}

TimedSetup   == {Setup({"stop_loss", "time_limit"}, FALSE, {})}
StoppedSetup == {Setup({"stop_loss"}, FALSE, {"orchestrator"})}
BoundedSetup == {Setup({"time_limit"}, TRUE, {})}
OpeningSetup == {Setup({}, FALSE, {})}

(* Everything at once, by whoever.                                          *)
MixedSetups == {Setup({"stop_loss", "trailing_stop", tp, "time_limit"}, TRUE, {"strategy", "orchestrator"}) :
                    tp \in {"take_profit", "take_profit_limit"}}

AllSetups == PlainSetups \cup MixedSetups
=============================================================================
