-------------------------------- MODULE Meter --------------------------------
(***************************************************************************)
(* The single rate three colour meter of model/qos/meter.c, as operators   *)
(* on a meter record [T_c, T_e, last_update_time].  One token is one bit;  *)
(* the committed information rate of a meter is given by the ticks it      *)
(* takes to earn one token.                                                *)
(***************************************************************************)
EXTENDS Tokens

CONSTANTS
  CBS,   \* params->CBS: capacity of bucket C, in bits
  EBS    \* params->EBS: capacity of bucket E, in bits; can be 0

Meters == [T_c : 0 .. CBS, T_e : 0 .. EBS, last_update_time : Nat]

Colors == {"green", "yellow", "red"}

\* srTCM_init
FullMeter == [T_c |-> CBS, T_e |-> EBS, last_update_time |-> 0]

\* Faults: bucket E overflows; new tokens go to both buckets.
AddTokensUncapped(m, now, ticks) ==
  LET sum == m.T_c + Earned(m.last_update_time, now, ticks)
  IN  [T_c |-> Least(sum, CBS),
       T_e |-> m.T_e + sum - Least(sum, CBS),
       last_update_time |-> UpdateTime(m.last_update_time, now, ticks)]
AddTokensToBoth(m, now, ticks) ==
  LET new == Earned(m.last_update_time, now, ticks)
  IN  [T_c |-> Least(m.T_c + new, CBS),
       T_e |-> Least(m.T_e + new, EBS),
       last_update_time |-> UpdateTime(m.last_update_time, now, ticks)]

(***************************************************************************)
(* The first half of srTCM_update: all the tokens earned since the last    *)
(* update are added to bucket C at once, and what does not fit spills into *)
(* bucket E.  The sums are sums of uint32_t.                               *)
(***************************************************************************)
AddTokens(m, now, ticks) ==
  LET sum   == (m.T_c + Earned(m.last_update_time, now, ticks)) % WordSize
      delta == sum - Least(sum, CBS)
  IN  [T_c |-> Least(sum, CBS),
       T_e |-> IF delta > 0 THEN Least((m.T_e + delta) % WordSize, EBS) ELSE m.T_e,
       last_update_time |-> UpdateTime(m.last_update_time, now, ticks)]

\* Fault: bucket E is used first.
ColorExcessFirst(m, bits) ==
  IF bits <= m.T_e THEN "yellow" ELSE IF bits <= m.T_c THEN "green" ELSE "red"

\* The second half, in colour-blind mode: mark a packet of this many bits.
Color(m, bits) ==
  IF bits <= m.T_c THEN "green" ELSE IF bits <= m.T_e THEN "yellow" ELSE "red"

Mark(m, bits) ==
  [T_c |-> IF Color(m, bits) = "green" THEN m.T_c - bits ELSE m.T_c,
   T_e |-> IF Color(m, bits) = "yellow" THEN m.T_e - bits ELSE m.T_e,
   last_update_time |-> m.last_update_time]

\* srTCM_update: the meter it leaves and the colour it returns.
MeterUpdate(m, size, now, ticks) == Mark(AddTokens(m, now, ticks), size * BitsPerByte)
MeterColor(m, size, now, ticks)  == Color(AddTokens(m, now, ticks), size * BitsPerByte)
=============================================================================
