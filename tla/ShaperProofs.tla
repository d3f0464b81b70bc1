---------------------------- MODULE ShaperProofs ----------------------------
(* Proofs about the port shaper, for every capacity, rate and packet size. *)
EXTENDS Shaper, PartsProofs

-----------------------------------------------------------------------------
(* The inductive invariant: once a bit has been sent in the window, the     *)
(* bits sent and the bits still in the bucket are together paid for by a    *)
(* full bucket and by the time up to the last refill.                       *)
Paid ==
  \/ sent = mark.sent
  \/ (sent - mark.sent + bucket.tokens) * Ticks
       <= Capacity * Ticks + (bucket.last_update_time - mark.time) + Ticks

InTime == clock = 0 \/ clock < EndTime

-----------------------------------------------------------------------------
(* shaper.c:56 never fails and the bucket never overflows nor runs ahead of *)
(* the clock: no assumption on the rounding or on the width of the word.    *)
THEOREM TypeCorrect == Spec => []TypeOK
  <1>1. Init => TypeOK
    BY CapacityAssumption DEF Init, TypeOK, FullBucket, Bucket
  <1>2. TypeOK /\ [Next]_vars => TypeOK'
    <2> SUFFICES ASSUME TypeOK, [Next]_vars PROVE TypeOK'
      OBVIOUS
    <2> DEFINE r == Refill(bucket, clock, Ticks)
    <2>1. /\ r \in Bucket
          /\ r.last_update_time <= clock
      BY RefillBound, ShaperAssumption DEF TypeOK
    <2>2. CASE Advance
      BY <2>2 DEF Advance, TypeOK, Bucket
    <2>3. ASSUME NEW size \in Sizes, Send(size) PROVE TypeOK'
      <3>1. size \in Nat
        BY ShaperAssumption
      <3>2. Refill(r, clock, Ticks) \in Bucket /\ r.tokens <= Refill(r, clock, Ticks).tokens
              /\ Refill(r, clock, Ticks).last_update_time <= clock
        BY <2>1, RefillBound, ShaperAssumption DEF TypeOK
      <3>3. bucket' = [Refill(r, clock, Ticks) EXCEPT !.tokens = @ - size * BitsPerByte]
        BY <2>3 DEF Send, Consume
      <3>4. size * BitsPerByte <= r.tokens
        BY <2>3 DEF Send, Ready
      <3> HIDE DEF r
      <3>5. bucket' \in Bucket /\ bucket'.last_update_time <= clock
        BY <2>1, <3>1, <3>2, <3>3, <3>4, CapacityAssumption DEF Bucket, BitsPerByte
      <3>6. QED
        BY <2>3, <3>1, <3>5 DEF Send, TypeOK, BitsPerByte
    <2>4. ASSUME NEW size \in Sizes, Refuse(size) PROVE TypeOK'
      BY <2>1, <2>4 DEF Refuse, TypeOK
    <2>5. CASE StartWindow
      BY <2>5 DEF StartWindow, TypeOK
    <2>6. CASE UNCHANGED vars
      BY <2>6 DEF vars, TypeOK
    <2>7. QED
      BY <2>2, <2>3, <2>4, <2>5, <2>6 DEF Next
  <1>3. QED
    BY <1>1, <1>2, PTL DEF Spec

(* The window bound, for every rounding of the products, provided that no   *)
(* port can stay idle long enough to overflow num_new_tokens.               *)
THEOREM ShaperConforms ==
  ASSUME EndTime <= WordSize * Ticks
  PROVE  Spec => []Conforms
  <1>1. Init => InTime /\ Paid
    BY DEF Init, InTime, Paid
  <1>2. TypeOK /\ InTime /\ Paid /\ [Next]_vars => InTime' /\ Paid'
    <2> SUFFICES ASSUME TypeOK, InTime, Paid, [Next]_vars PROVE InTime' /\ Paid'
      OBVIOUS
    <2> DEFINE r == Refill(bucket, clock, Ticks)
    <2>1. /\ r \in Bucket
          /\ r.last_update_time <= clock
          /\ bucket.tokens <= r.tokens
          /\ (r.tokens - bucket.tokens) * Ticks
                <= r.last_update_time - bucket.last_update_time
      BY RefillBound, ShaperAssumption DEF TypeOK
    <2>2. /\ clock - bucket.last_update_time < WordSize * Ticks
          /\ clock - r.last_update_time < WordSize * Ticks
      <3>1. clock < WordSize * Ticks
        BY WordAssumption, ShaperAssumption DEF InTime, TypeOK
      <3>2. bucket.last_update_time \in Nat /\ r.last_update_time \in Nat
        BY <2>1 DEF TypeOK, Bucket
      <3> HIDE DEF r
      <3>3. QED
        BY <3>1, <3>2, WordAssumption, ShaperAssumption DEF TypeOK
    <2>3. clock - r.last_update_time <= Ticks
      BY <2>2, RefillRecent, ShaperAssumption DEF TypeOK
    <2>4. CASE Advance
      BY <2>4 DEF Advance, InTime, Paid
    <2>5. ASSUME NEW size \in Sizes, Send(size) PROVE InTime' /\ Paid'
      <3> DEFINE q == Refill(r, clock, Ticks)
      <3>1. /\ q \in Bucket
            /\ q.last_update_time <= clock
            /\ r.tokens <= q.tokens
            /\ (q.tokens - r.tokens) * Ticks
                  <= q.last_update_time - r.last_update_time
            /\ clock - q.last_update_time <= Ticks
        BY <2>1, <2>2, RefillBound, RefillRecent, ShaperAssumption DEF TypeOK
      <3>2. size \in Nat
        BY ShaperAssumption
      <3>3. /\ bucket'.tokens = q.tokens - size * BitsPerByte
            /\ bucket'.last_update_time = q.last_update_time
        BY <2>5, <3>1 DEF Send, Consume, Bucket
      <3>4. sent' - mark'.sent + bucket'.tokens = sent - mark.sent + q.tokens
        BY <2>5, <3>1, <3>2, <3>3 DEF Send, TypeOK, Bucket, BitsPerByte
      <3> HIDE DEF q, r
      <3>5. (sent - mark.sent + q.tokens) * Ticks
              <= Capacity * Ticks + (q.last_update_time - mark.time) + Ticks
        <4>1. CASE sent = mark.sent
          <5>1. (sent - mark.sent + q.tokens) * Ticks <= Capacity * Ticks
            BY <3>1, <4>1, CapacityAssumption, ShaperAssumption DEF TypeOK, Bucket
          <5>2. QED
            BY <3>1, <5>1, CapacityAssumption, ShaperAssumption DEF TypeOK, Bucket
        <4>2. CASE (sent - mark.sent + bucket.tokens) * Ticks
                 <= Capacity * Ticks + (bucket.last_update_time - mark.time) + Ticks
          <5>1. (sent - mark.sent + q.tokens) * Ticks
                  = (sent - mark.sent + bucket.tokens) * Ticks
                      + (r.tokens - bucket.tokens) * Ticks
                      + (q.tokens - r.tokens) * Ticks
            BY <2>1, <3>1, ShaperAssumption DEF TypeOK, Bucket
          <5>2. QED
            BY <2>1, <3>1, <4>2, <5>1, ShaperAssumption, CapacityAssumption
            DEF TypeOK, Bucket
        <4>3. QED
          BY <4>1, <4>2 DEF Paid
      <3>6. QED
        BY <2>5, <3>3, <3>4, <3>5 DEF Send, InTime, Paid
    <2>6. ASSUME NEW size \in Sizes, Refuse(size) PROVE InTime' /\ Paid'
      <3> HIDE DEF r
      <3>1. CASE sent = mark.sent
        BY <2>6, <3>1 DEF Refuse, InTime, Paid
      <3>2. CASE (sent - mark.sent + bucket.tokens) * Ticks
       <= Capacity * Ticks + (bucket.last_update_time - mark.time) + Ticks
        <4>1. (sent - mark.sent + r.tokens) * Ticks
                = (sent - mark.sent + bucket.tokens) * Ticks
                    + (r.tokens - bucket.tokens) * Ticks
          BY <2>1, ShaperAssumption DEF TypeOK, Bucket
        <4>2. (sent - mark.sent + r.tokens) * Ticks
               <= Capacity * Ticks + (r.last_update_time - mark.time) + Ticks
          BY <2>1, <3>2, <4>1, ShaperAssumption, CapacityAssumption DEF TypeOK, Bucket
        <4>3. QED
          BY <2>6, <4>2 DEF Refuse, InTime, Paid, r
      <3>3. QED
        BY <3>1, <3>2 DEF Paid
    <2>7. CASE StartWindow
      BY <2>7 DEF StartWindow, InTime, Paid
    <2>8. CASE UNCHANGED vars
      BY <2>8 DEF vars, InTime, Paid
    <2>9. QED
      BY <2>4, <2>5, <2>6, <2>7, <2>8 DEF Next
  <1>3. TypeOK /\ Paid => Conforms
    <2> SUFFICES ASSUME TypeOK, Paid PROVE Conforms
      OBVIOUS
    <2>1. CASE sent = mark.sent
      BY <2>1, CapacityAssumption, ShaperAssumption DEF Conforms, TypeOK
    <2>2. CASE (sent - mark.sent + bucket.tokens) * Ticks
       <= Capacity * Ticks + (bucket.last_update_time - mark.time) + Ticks
      <3>1. (sent - mark.sent) * Ticks <= (sent - mark.sent + bucket.tokens) * Ticks
        BY ShaperAssumption DEF TypeOK, Bucket
      <3>2. (Capacity + 1) * Ticks = Capacity * Ticks + Ticks
        BY CapacityAssumption, ShaperAssumption
      <3>3. QED
        BY <2>2, <3>1, <3>2, CapacityAssumption, ShaperAssumption
        DEF Conforms, TypeOK, Bucket
    <2>3. QED
      BY <2>1, <2>2 DEF Paid
  <1>4. QED
    BY <1>1, <1>2, <1>3, TypeCorrect, PTL DEF Spec
-----------------------------------------------------------------------------
(* The one SEND event of a port is scheduled for the first moment at which   *)
(* the head packet can go, when products are exact and no word overflows.    *)
THEOREM ShaperWaitIsExact ==
  ASSUME EndTime <= WordSize * Ticks,
         Capacity < WordSize,
         ExactProducts
  PROVE  Spec => []WaitIsExact
  <1>1. Init => InTime
    BY DEF Init, InTime
  <1>2. InTime /\ [Next]_vars => InTime'
    BY DEF InTime, Next, vars, Advance, Send, Refuse, StartWindow
  <1>3. TypeOK /\ InTime => WaitIsExact
    <2> SUFFICES ASSUME TypeOK, InTime,
                        NEW size \in Sizes,
                        size * BitsPerByte <= Capacity,
                        ~ Ready(Refill(bucket, clock, Ticks), size)
                 PROVE  LET b == Refill(bucket, clock, Ticks)
                            due == NextAvailableTime(b, size, Ticks)
                        IN  /\ due > clock
                            /\ Ready(Refill(b, due, Ticks), size)
                            /\ ~ Ready(Refill(b, due - 1, Ticks), size)
      BY DEF WaitIsExact
    <2> DEFINE b == Refill(bucket, clock, Ticks)
               k == size * BitsPerByte - b.tokens
               due == b.last_update_time + k * Ticks
    <2>1. /\ b \in Bucket
          /\ b.last_update_time <= clock
      BY RefillBound, ShaperAssumption DEF TypeOK
    <2>2. clock < WordSize * Ticks
      BY WordAssumption, ShaperAssumption DEF InTime, TypeOK
    <2>3. clock - b.last_update_time < Ticks
      <3>1. clock - bucket.last_update_time < WordSize * Ticks
        BY <2>2, WordAssumption, ShaperAssumption DEF TypeOK, Bucket
      <3> QED
        BY <3>1, RefillCurrent, ShaperAssumption DEF TypeOK
    <2>4. k \in Nat \ {0} /\ k < WordSize
      BY <2>1, ShaperAssumption, CapacityAssumption, WordAssumption
      DEF Ready, Bucket, BitsPerByte
    <2>5. NextAvailableTime(b, size, Ticks) = due
      BY DEF NextAvailableTime
    <2>6. /\ Earned(b.last_update_time, due, Ticks) = k
          /\ Earned(b.last_update_time, due - 1, Ticks) = k - 1
      <3>1. b.last_update_time \in Nat
        BY <2>1 DEF Bucket
      <3> HIDE DEF b, k
      <3>2. /\ due - b.last_update_time = k * Ticks
            /\ (due - 1) - b.last_update_time = k * Ticks - 1
        BY <2>4, <3>1, ShaperAssumption
      <3>3. /\ (k * Ticks) \div Ticks = k
            /\ (k * Ticks - 1) \div Ticks = k - 1
        BY <2>4, DivExact, ShaperAssumption
      <3>4. k % WordSize = k /\ (k - 1) % WordSize = k - 1
        BY <2>4, ModBound, WordAssumption
      <3>5. QED
        BY <3>2, <3>3, <3>4 DEF Earned, ExactProducts
    <2>7. /\ Refill(b, due, Ticks).tokens = Least(b.tokens + k, Capacity)
          /\ Refill(b, due - 1, Ticks).tokens = Least(b.tokens + k - 1, Capacity)
      BY <2>1, <2>4, <2>6 DEF Refill, Bucket
    <2>8. due > clock
      <3>1. k * Ticks >= Ticks
        BY <2>4, ShaperAssumption
      <3>2. b.last_update_time \in Nat /\ k * Ticks \in Nat
        BY <2>1, <2>4, ShaperAssumption DEF Bucket
      <3> HIDE DEF k, b
      <3>3. QED
        BY <2>3, <3>1, <3>2, ShaperAssumption DEF TypeOK
    <2>9. /\ Ready(Refill(b, due, Ticks), size)
          /\ ~ Ready(Refill(b, due - 1, Ticks), size)
      <3>1. b.tokens \in Nat /\ size * BitsPerByte \in Nat
        BY <2>1, ShaperAssumption DEF Bucket, BitsPerByte
      <3>2. QED
        BY <2>7, <3>1, CapacityAssumption DEF Ready, Least
    <2>10. QED
      BY <2>5, <2>8, <2>9
  <1>4. QED
    BY <1>1, <1>2, <1>3, TypeCorrect, PTL DEF Spec
=============================================================================
