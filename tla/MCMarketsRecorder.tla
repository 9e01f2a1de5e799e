----------------------- MODULE MCMarketsRecorder -----------------------
(* Values of the constants for TLC.                                        *)
EXTENDS MarketsRecorder, TLC

CONSTANTS o1, o2, t1, t2

MCAmount      == [o \in Orders |-> 1]
MCFillAmount  == [t \in Trades |-> 1]
OrderSymmetry == Permutations(Orders)
=============================================================================
