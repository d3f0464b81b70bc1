------------------------------- MODULE Dropper -------------------------------
(***************************************************************************)
(* The RED dropper of model/qos/REDdropper.c, as operators on a record     *)
(* [avg, q_time].  avg, a double in the code, is counted in fractions of a *)
(* packet: AvgUnit of them make one packet.  maxp is 0 in this program, so *)
(* the dropper is a threshold on the average length of its queue.          *)
(***************************************************************************)
EXTENDS Integers

CONSTANTS
  AvgUnit,    \* resolution of avg
  Gain,       \* 1 / wq: weight of one observation
  HalfLife,   \* idle time in which pow(1 - wq, m) halves the average
  Mtu         \* 1400 in YELLOW_DROPPER_MAXTH and GREEN_DROPPER_MAXTH

\* REDdropper_init
NewDropper == [avg |-> 0, q_time |-> 0]

\* maxth, in packets, of the two droppers of a queue of this many bytes
YellowMaxth(capacity) == (capacity * 6) \div (Mtu * 10)
GreenMaxth(capacity)  == (capacity * 9) \div (Mtu * 10)

\* The average of a queue that has been empty for this long.  The exponent
\* of pow is a signed double: a q_time in the future makes the average grow.
Aged(avg, idle) ==
  IF idle >= 0 THEN avg \div 2 ^ (idle \div HalfLife)
               ELSE avg * 2 ^ ((-idle) \div HalfLife)

\* REDdropper_update: the dropper it leaves, and whether it drops.
DropperUpdate(d, qlen, now) ==
  IF qlen > 0
  THEN [d EXCEPT !.avg = @ + (qlen * AvgUnit - @) \div Gain]
  ELSE [avg |-> Aged(d.avg, now - d.q_time), q_time |-> now]

Drops(d, qlen, now, maxth) == DropperUpdate(d, qlen, now).avg >= maxth * AvgUnit

\* REDdropper_time_update
DropperTimeUpdate(d, now) == [d EXCEPT !.q_time = now]
=============================================================================
