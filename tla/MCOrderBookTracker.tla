----------------------- MODULE MCOrderBookTracker -----------------------
(* Values of the constants for TLC.                                        *)
EXTENDS OrderBookTracker

MCPrices  == 1 .. 2
MCAmounts == 0 .. 1

NoLevels     == [p \in MCPrices |-> 0]
MCFirstBooks == {[bids |-> NoLevels, asks |-> NoLevels]}
=============================================================================
