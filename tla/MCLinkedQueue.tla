---------------------------- MODULE MCLinkedQueue ----------------------------
(* An instance of LinkedQueue for TLC. *)
EXTENDS LinkedQueue, TLC

CONSTANTS small, other, large, a1, a2, a3, a4

Three == {small, other, large}
Bytes == (small :> 1) @@ (other :> 1) @@ (large :> 2)
Cells == {a1, a2, a3, a4}
=============================================================================
