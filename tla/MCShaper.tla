------------------------------ MODULE MCShaper ------------------------------
(* Instances of Shaper for TLC. *)
EXTENDS Shaper

\* Exact arithmetic, and a product that always loses its last bit.
Exact(last, time) == FALSE
Lossy(last, time) == TRUE
=============================================================================
