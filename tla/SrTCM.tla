-------------------------------- MODULE SrTCM --------------------------------
(***************************************************************************)
(* What a single rate three colour meter promises (the algorithm the       *)
(* structure srTCM of network.h is named after): tokens arrive one by one  *)
(* at the committed rate, go to bucket C while it has room and else to     *)
(* bucket E while that has room, and a packet is green, yellow or red by   *)
(* what the buckets hold when it arrives.                                  *)
(***************************************************************************)
EXTENDS Integers

CONSTANTS
  Committed,   \* capacity of bucket C
  Excess,      \* capacity of bucket E
  Period,      \* time between two tokens
  Lengths      \* lengths in bits of the packets offered

VARIABLES
  tc, te,      \* tokens in the buckets
  phase        \* time since the period of the next token started

svars == <<tc, te, phase>>

SInit == tc = Committed /\ te = Excess /\ phase = 0

\* One unit of time; at the end of a period a token is dropped in.
STick ==
  /\ phase' = phase + 1
  /\ IF phase' % Period # 0 THEN UNCHANGED <<tc, te>>
     ELSE \/ tc < Committed /\ tc' = tc + 1 /\ UNCHANGED te
          \/ tc = Committed /\ te < Excess /\ te' = te + 1 /\ UNCHANGED tc
          \/ tc = Committed /\ te = Excess /\ UNCHANGED <<tc, te>>

\* A packet is marked; the tokens earned so far are settled.
SMark(bits) ==
  /\ phase' = IF phase >= Period THEN 0 ELSE phase
  /\ \/ bits <= tc /\ tc' = tc - bits /\ UNCHANGED te
     \/ bits > tc /\ bits <= te /\ te' = te - bits /\ UNCHANGED tc
     \/ bits > tc /\ bits > te /\ UNCHANGED <<tc, te>>

SNext == STick \/ \E bits \in Lengths : SMark(bits)

SSpec == SInit /\ [][SNext]_svars
=============================================================================
