-------------------------- MODULE MCNetworkIterator --------------------------
(* NetworkIterator with bounds for TLC.                                     *)
EXTENDS NetworkIterator
=============================================================================
