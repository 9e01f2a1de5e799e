----------------------- MODULE MCStrategyOrderTracker -----------------------
(* Values of the constants for TLC.                                        *)
EXTENDS StrategyOrderTracker, TLC

CONSTANTS o1, o2

OrderSymmetry == Permutations(Orders)
=============================================================================
