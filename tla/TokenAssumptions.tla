-------------------------- MODULE TokenAssumptions --------------------------
(***************************************************************************)
(* What is assumed of the constants of Tokens and TokenBucket.  The        *)
(* assumptions on the parts of a switch are in modules of their own,       *)
(* because Network has an instance of Switch for each of its switches, and *)
(* the prover reads no such instance of a module with assumptions.         *)
(***************************************************************************)
EXTENDS TokenBucket

ASSUME WordAssumption == WordSize \in Nat \ {0}

ASSUME CapacityAssumption == Capacity \in Nat \ {0}
=============================================================================
