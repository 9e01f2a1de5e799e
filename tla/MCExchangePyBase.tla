-------------------------- MODULE MCExchangePyBase --------------------------
(* Values of the constants for TLC.                                        *)
EXTENDS ExchangePyBase, TLC

CONSTANTS o1, o2, t1, t2

MCAmount     == [o \in Orders |-> 2]
MCFillAmount == [t \in Trades |-> 1]
MCWholeFill  == [t \in Trades |-> 2]
TradeSymmetry == Permutations(Trades)
=============================================================================
