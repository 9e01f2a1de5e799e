--------------------------- MODULE OrderLifecycle ---------------------------
(***************************************************************************)
(* What the order tracker promises its users about one order, without       *)
(* saying how: an order is tracked once, its end is announced in the very   *)
(* step that stops tracking it and not before, it is then kept for late     *)
(* reports or as a lost order, and once forgotten it never comes back.      *)
(***************************************************************************)
CONSTANT Orders

VARIABLES phase,   \* where each order is in its life
          told     \* orders whose end was announced by a terminal event

Phases == {"new", "tracked", "archived", "lost", "forgotten"}

lifecycle == <<phase, told>>

LInit == phase = [o \in Orders |-> "new"] /\ told = {}

Track(o) ==
    /\ phase[o] = "new"
    /\ phase' = [phase EXCEPT ![o] = "tracked"]
    /\ told' = told

End(o, kept) ==
    /\ phase[o] = "tracked"
    /\ phase' = [phase EXCEPT ![o] = kept]
    /\ told' = told \cup {o}

Forget(o) ==
    /\ phase[o] \in {"archived", "lost"}
    /\ phase' = [phase EXCEPT ![o] = "forgotten"]
    /\ told' = told

LNext == \E o \in Orders : \/ Track(o)
                           \/ End(o, "archived") \/ End(o, "lost")
                           \/ Forget(o)

LSpec == LInit /\ [][LNext]_lifecycle
=============================================================================
