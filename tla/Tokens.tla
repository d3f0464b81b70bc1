------------------------------- MODULE Tokens -------------------------------
(***************************************************************************)
(* How the meter (srTCM_update, meter.c) and the shaper                    *)
(* (token_bucket_consume, shaper.c) turn elapsed simulation time into      *)
(* tokens.  Both compute                                                   *)
(*     uint32_t num_new_tokens = floor(rate * (current_time - last));      *)
(*     if (num_new_tokens > 0) last_update_time = current_time;            *)
(*                                                                         *)
(* tw_stime is a double.  A tick is a unit of time so small that every     *)
(* rate of the model is one token per whole number of ticks, so that       *)
(* rate * elapsed is elapsed / ticks and only the floor, the narrowing to  *)
(* 32 bits and the rounding of the product remain to be modelled.          *)
(***************************************************************************)
EXTENDS Integers

CONSTANTS
  WordSize,          \* 2^32 in the code: the modulus of uint32_t
  RoundsDown(_, _)   \* RoundsDown(last, now): the double product is rounded
                     \* below the whole number it stands for

BitsPerByte == 8

(***************************************************************************)
(* num_new_tokens.  Rounding can only be seen where the exact product is a *)
(* whole number; an out-of-range double is converted modulo 2^32, which is *)
(* what the x86-64 builds of the model do.                                 *)
(***************************************************************************)
Earned(last, now, ticks) ==
  LET elapsed == now - last
      whole   == elapsed \div ticks
      short   == /\ whole > 0
                 /\ elapsed % ticks = 0
                 /\ RoundsDown(last, now)
  IN  (IF short THEN whole - 1 ELSE whole) % WordSize

\* Fault: the time of the update is not recorded.
UpdateTimeForgotten(last, now, ticks) == last

\* last_update_time moves only when at least one token was earned.
UpdateTime(last, now, ticks) ==
  IF Earned(last, now, ticks) > 0 THEN now ELSE last

Least(a, b) == IF a <= b THEN a ELSE b
Most(a, b)  == IF a >= b THEN a ELSE b
=============================================================================
