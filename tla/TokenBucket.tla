----------------------------- MODULE TokenBucket -----------------------------
(***************************************************************************)
(* The port shaper of model/qos/shaper.c, as operators on a bucket record  *)
(* [tokens, last_update_time].  One token is one bit.  The rate of a       *)
(* bucket is given by the ticks it takes to earn one token.                *)
(***************************************************************************)
EXTENDS Tokens

CONSTANT Capacity   \* bucket->capacity, in bits (2*1400*8 in switch_init)

Bucket == [tokens : 0 .. Capacity, last_update_time : Nat]

\* token_bucket_init
FullBucket == [tokens |-> Capacity, last_update_time |-> 0]

\* Fault: the bucket overflows.
RefillUncapped(b, now, ticks) ==
  [tokens |-> b.tokens + Earned(b.last_update_time, now, ticks),
   last_update_time |-> UpdateTime(b.last_update_time, now, ticks)]

\* token_bucket_consume(bucket, NULL, now): earn tokens, consume none.
Refill(b, now, ticks) ==
  [tokens |-> Least(b.tokens + Earned(b.last_update_time, now, ticks), Capacity),
   last_update_time |-> UpdateTime(b.last_update_time, now, ticks)]

\* token_bucket_consume(bucket, pkt, now) for a packet of this size.
Consume(b, size, now, ticks) ==
  [Refill(b, now, ticks) EXCEPT !.tokens = @ - size * BitsPerByte]

\* token_bucket_ready
Ready(b, size) == size * BitsPerByte <= b.tokens

\* Faults: bytes are taken for bits; the tokens in the bucket are not counted.
NextAvailableTimeInBytes(b, size, ticks) ==
  IF Ready(b, size) THEN b.last_update_time
                    ELSE b.last_update_time + (size - b.tokens) * ticks
NextAvailableTimeFromEmpty(b, size, ticks) ==
  IF Ready(b, size) THEN b.last_update_time
                    ELSE b.last_update_time + size * BitsPerByte * ticks

\* token_bucket_next_available_time
NextAvailableTime(b, size, ticks) ==
  IF Ready(b, size)
  THEN b.last_update_time
  ELSE b.last_update_time + (size * BitsPerByte - b.tokens) * ticks
=============================================================================
