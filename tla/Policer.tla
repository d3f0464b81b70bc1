------------------------------- MODULE Policer -------------------------------
(***************************************************************************)
(* One meter of a switch, called by handle_arrive_event for every packet   *)
(* of its port and class.  The meter is lazy: it only looks at the clock   *)
(* when a packet arrives.                                                  *)
(***************************************************************************)
EXTENDS Meter

CONSTANTS
  Sizes,   \* sizes in bytes of the packets that may arrive
  Ticks,   \* ticks per token (the committed information rate)
  EndTime  \* g_tw_ts_end

ASSUME MeterAssumption ==
  /\ CBS \in Nat /\ CBS < WordSize
  /\ EBS \in Nat /\ EBS < WordSize

ASSUME PolicerAssumption ==
  /\ WordSize \in Nat \ {0}
  /\ Sizes \subseteq Nat \ {0}
  /\ Ticks \in Nat \ {0}
  /\ EndTime \in Nat

VARIABLES
  meter,   \* the srTCM
  clock,   \* tw_now of the switch
  passed,  \* history: bits marked [green, yellow] since the mark
  mark     \* history: the time from which marked bits are counted

vars == <<meter, clock, passed, mark>>

Init ==
  /\ meter = FullMeter
  /\ clock = 0
  /\ passed = [green |-> 0, yellow |-> 0]
  /\ mark = 0

Advance ==
  /\ clock + 1 < EndTime
  /\ clock' = clock + 1
  /\ UNCHANGED <<meter, passed, mark>>

\* srTCM_update on a packet of this size.
Update(size) ==
  LET color == MeterColor(meter, size, clock, Ticks)
  IN  /\ meter' = MeterUpdate(meter, size, clock, Ticks)
      /\ passed' = [c \in {"green", "yellow"} |->
                      passed[c] + IF c = color THEN size * BitsPerByte ELSE 0]
      /\ UNCHANGED <<clock, mark>>

\* History only: start counting from this moment (once).
StartWindow ==
  /\ mark = 0
  /\ mark' = clock
  /\ passed' = [green |-> 0, yellow |-> 0]
  /\ UNCHANGED <<meter, clock>>

Next ==
  \/ Advance
  \/ \E size \in Sizes : Update(size)
  \/ StartWindow

Spec == Init /\ [][Next]_vars
-----------------------------------------------------------------------------
\* Types and bounds: neither bucket ever exceeds its burst size.
TypeOK ==
  /\ meter \in Meters
  /\ clock \in Nat
  /\ passed \in [{"green", "yellow"} -> Nat]
  /\ mark \in Nat
  /\ meter.last_update_time <= clock
  /\ mark <= clock

(***************************************************************************)
(* The traffic contract.  In every window the green bits of a class are    *)
(* at most CBS plus the committed rate, and green and yellow together at   *)
(* most CBS + EBS plus the committed rate, up to the token in progress     *)
(* when the window opened.                                                 *)
(***************************************************************************)
GreenConforms ==
  passed["green"] * Ticks <= (CBS + 1) * Ticks + (clock - mark)

MarkedConforms ==
  (passed["green"] + passed["yellow"]) * Ticks
     <= (CBS + EBS + 1) * Ticks + (clock - mark)

(***************************************************************************)
(* The lazy meter implements the eager one: what it would hold if asked    *)
(* now is what a meter that receives its tokens one by one holds.          *)
(***************************************************************************)
Eager == INSTANCE SrTCM WITH
  Committed <- CBS,
  Excess    <- EBS,
  Period    <- Ticks,
  Lengths   <- {size * BitsPerByte : size \in Sizes},
  tc        <- AddTokens(meter, clock, Ticks).T_c,
  te        <- AddTokens(meter, clock, Ticks).T_e,
  phase     <- clock - meter.last_update_time

ImplementsSrTCM == Eager!SSpec

(***************************************************************************)
(* The comment of meter.c:33, "Add tokens to the bucket(s)": the update    *)
(* of an idle meter never takes tokens away.                               *)
(***************************************************************************)
AddsTokens ==
  /\ AddTokens(meter, clock, Ticks).T_c >= meter.T_c
  /\ AddTokens(meter, clock, Ticks).T_e >= meter.T_e
=============================================================================
