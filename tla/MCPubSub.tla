------------------------------ MODULE MCPubSub ------------------------------
(* Model-checking instance of PubSub: listeners are interchangeable.          *)
EXTENDS PubSub, TLC

ListenerSymmetry == Permutations(Listeners)
=============================================================================
