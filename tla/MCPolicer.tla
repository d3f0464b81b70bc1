------------------------------ MODULE MCPolicer ------------------------------
(* Instances of Policer for TLC. *)
EXTENDS Policer

Exact(last, time) == FALSE
Lossy(last, time) == TRUE
=============================================================================
