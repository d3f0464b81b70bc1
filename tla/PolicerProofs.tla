---------------------------- MODULE PolicerProofs ----------------------------
(* Proofs about one meter, for every rate, burst size and packet size. *)
EXTENDS Policer, PartsProofs

\* Adding tokens keeps a meter a meter, and adds to bucket C, and to both
\* buckets together, no more than the time is worth.  A sum that wraps round
\* only makes it less.
LEMMA AddTokensBound ==
  ASSUME NEW m \in Meters, NEW time \in Nat, NEW ticks \in Nat \ {0},
         m.last_update_time <= time
  PROVE  LET r == AddTokens(m, time, ticks)
         IN  /\ r \in Meters
             /\ m.last_update_time <= r.last_update_time
             /\ r.last_update_time <= time
             /\ (r.T_c - m.T_c) * ticks <= r.last_update_time - m.last_update_time
             /\ ((r.T_c + r.T_e) - (m.T_c + m.T_e)) * ticks
                  <= r.last_update_time - m.last_update_time
  <1> DEFINE n == Earned(m.last_update_time, time, ticks)
             sum == (m.T_c + n) % WordSize
             spilt == (m.T_e + (sum - Least(sum, CBS))) % WordSize
             r == AddTokens(m, time, ticks)
  <1>1. /\ m.last_update_time \in Nat
        /\ m.T_c \in Nat /\ m.T_c <= CBS
        /\ m.T_e \in Nat /\ m.T_e <= EBS
    BY MeterAssumption DEF Meters
  <1>2. n \in Nat /\ n * ticks <= time - m.last_update_time
    BY <1>1, EarnedBound
  <1>3. /\ r.last_update_time = IF n > 0 THEN time ELSE m.last_update_time
        /\ r.T_c = IF sum <= CBS THEN sum ELSE CBS
        /\ r.T_e = IF sum - r.T_c > 0
                   THEN IF spilt <= EBS THEN spilt ELSE EBS
                   ELSE m.T_e
        /\ r = [T_c |-> r.T_c, T_e |-> r.T_e, last_update_time |-> r.last_update_time]
    BY DEF AddTokens, UpdateTime, Least
  <1>4. sum \in Nat /\ sum <= m.T_c + n
    <2>1. m.T_c + n \in Nat
      BY <1>1, <1>2
    <2>2. PICK k \in Nat : k = m.T_c + n
      BY <2>1
    <2>3. k % WordSize \in Nat /\ k % WordSize <= k
      BY ONLY k \in Nat, ModBound, WordAssumption
    <2>4. QED
      BY ONLY <2>2, <2>3
  <1>5. /\ spilt \in Nat
        /\ spilt <= m.T_e + (sum - (IF sum <= CBS THEN sum ELSE CBS))
    <2> DEFINE d == sum - Least(sum, CBS)
    <2>1. /\ d \in Nat
          /\ d = sum - (IF sum <= CBS THEN sum ELSE CBS)
      BY <1>4, MeterAssumption DEF Least
    <2> HIDE DEF d
    <2>2. m.T_e + d \in Nat
      BY <1>1, <2>1
    <2>3. (m.T_e + d) % WordSize \in Nat /\ (m.T_e + d) % WordSize <= m.T_e + d
      BY <2>2, ModBound, WordAssumption
    <2>4. QED
      BY <2>1, <2>3 DEF d
  <1> HIDE DEF n, sum, spilt, r
  <1>6. r \in Meters
    BY <1>1, <1>2, <1>3, <1>4, <1>5, MeterAssumption DEF Meters
  <1>7. /\ r.T_c \in Nat /\ r.T_e \in Nat
        /\ r.T_c - m.T_c <= n
        /\ (r.T_c + r.T_e) - (m.T_c + m.T_e) <= n
    BY <1>1, <1>2, <1>3, <1>4, <1>5, MeterAssumption
  <1>8. m.last_update_time <= r.last_update_time /\ r.last_update_time <= time
    BY <1>1, <1>3
  <1>9. n * ticks <= r.last_update_time - m.last_update_time
    BY <1>1, <1>2, <1>3
  <1>10. \A k \in Int : k <= n => k * ticks <= n * ticks
    BY <1>2
  <1>11. /\ (r.T_c - m.T_c) * ticks <= n * ticks
         /\ ((r.T_c + r.T_e) - (m.T_c + m.T_e)) * ticks <= n * ticks
    BY <1>1, <1>7, <1>10
  <1>12. /\ (r.T_c - m.T_c) * ticks <= r.last_update_time - m.last_update_time
         /\ ((r.T_c + r.T_e) - (m.T_c + m.T_e)) * ticks
              <= r.last_update_time - m.last_update_time
    <2> DEFINE x == (r.T_c - m.T_c) * ticks
               y == ((r.T_c + r.T_e) - (m.T_c + m.T_e)) * ticks
               z == n * ticks
    <2>1. x \in Int /\ y \in Int /\ z \in Int
      BY <1>1, <1>2, <1>7
    <2>2. r.last_update_time \in Int
      BY <1>1, <1>3
    <2>3. x <= z /\ y <= z /\ z <= r.last_update_time - m.last_update_time
      BY <1>9, <1>11
    <2> HIDE DEF x, y, z
    <2>4. x <= r.last_update_time - m.last_update_time
            /\ y <= r.last_update_time - m.last_update_time
      BY <1>1, <2>1, <2>2, <2>3
    <2>5. QED
      BY <2>4 DEF x, y
  <1>13. QED
    BY <1>6, <1>8, <1>12 DEF r

\* What marking a packet takes out of the buckets.
LEMMA MarkBound ==
  ASSUME NEW m \in Meters, NEW bits \in Nat
  PROVE  /\ Mark(m, bits) \in Meters
         /\ Mark(m, bits).last_update_time = m.last_update_time
         /\ Mark(m, bits).T_c = m.T_c - (IF Color(m, bits) = "green" THEN bits ELSE 0)
         /\ Mark(m, bits).T_e = m.T_e - (IF Color(m, bits) = "yellow" THEN bits ELSE 0)
  <1>1. /\ m.T_c \in 0 .. CBS /\ m.T_e \in 0 .. EBS /\ m.last_update_time \in Nat
        /\ CBS \in Nat /\ EBS \in Nat
    BY MeterAssumption DEF Meters
  <1>2. CASE bits <= m.T_c
    BY <1>1, <1>2 DEF Mark, Color, Meters
  <1>3. CASE bits > m.T_c /\ bits <= m.T_e
    BY <1>1, <1>3 DEF Mark, Color, Meters
  <1>4. CASE bits > m.T_c /\ bits > m.T_e
    BY <1>1, <1>4 DEF Mark, Color, Meters
  <1>5. QED
    BY <1>1, <1>2, <1>3, <1>4

\* After an update without overflow, the meter is at most one token behind.
LEMMA AddTokensRecent ==
  ASSUME NEW m \in Meters, NEW time \in Nat, NEW ticks \in Nat \ {0},
         m.last_update_time <= time,
         time - m.last_update_time < WordSize * ticks
  PROVE  time - AddTokens(m, time, ticks).last_update_time <= ticks
  <1>1. m.last_update_time \in Nat
    BY DEF Meters
  <1>2. Earned(m.last_update_time, time, ticks) \in Nat
    BY <1>1, EarnedBound
  <1>3. CASE Earned(m.last_update_time, time, ticks) > 0
    BY <1>1, <1>3 DEF AddTokens, UpdateTime
  <1>4. CASE Earned(m.last_update_time, time, ticks) = 0
    BY <1>1, <1>4, EarnedNothing DEF AddTokens, UpdateTime
  <1>5. QED
    BY <1>2, <1>3, <1>4
-----------------------------------------------------------------------------
(* Neither bucket exceeds its burst size, whatever the rounding and whether  *)
(* or not a sum of tokens wraps round.                                       *)
THEOREM TypeCorrect == Spec => []TypeOK
  <1>1. Init => TypeOK
    BY MeterAssumption DEF Init, TypeOK, FullMeter, Meters
  <1>2. TypeOK /\ [Next]_vars => TypeOK'
    <2> SUFFICES ASSUME TypeOK, [Next]_vars PROVE TypeOK'
      OBVIOUS
    <2>1. CASE Advance
      BY <2>1 DEF Advance, TypeOK, Meters
    <2>2. ASSUME NEW size \in Sizes, Update(size) PROVE TypeOK'
      <3> DEFINE r == AddTokens(meter, clock, Ticks)
      <3>1. r \in Meters /\ r.last_update_time <= clock
        BY AddTokensBound, PolicerAssumption DEF TypeOK
      <3>2. size * BitsPerByte \in Nat
        BY PolicerAssumption DEF BitsPerByte
      <3>3. meter' = Mark(r, size * BitsPerByte)
        BY <2>2 DEF Update, MeterUpdate
      <3> HIDE DEF r
      <3>4. meter' \in Meters /\ meter'.last_update_time <= clock
        BY <3>1, <3>2, <3>3, MarkBound
      <3>5. passed' \in [{"green", "yellow"} -> Nat]
        BY <2>2, <3>2 DEF Update, TypeOK
      <3>6. QED
        BY <2>2, <3>4, <3>5 DEF Update, TypeOK
    <2>3. CASE StartWindow
      BY <2>3 DEF StartWindow, TypeOK
    <2>4. CASE UNCHANGED vars
      BY <2>4 DEF vars, TypeOK
    <2>5. QED
      BY <2>1, <2>2, <2>3, <2>4 DEF Next
  <1>3. QED
    BY <1>1, <1>2, PTL DEF Spec

(* The inductive invariants of the two contracts: once bits have passed in   *)
(* the window, they and the tokens still in the buckets are together paid    *)
(* for by full buckets and by the time up to the last update.                *)
GreenPaid ==
  \/ passed["green"] = 0
  \/ (passed["green"] + meter.T_c) * Ticks
       <= CBS * Ticks + (meter.last_update_time - mark) + Ticks

MarkedPaid ==
  \/ passed["green"] + passed["yellow"] = 0
  \/ (passed["green"] + passed["yellow"] + (meter.T_c + meter.T_e)) * Ticks
       <= (CBS + EBS) * Ticks + (meter.last_update_time - mark) + Ticks

InTime == clock = 0 \/ clock < EndTime

\* The step that both contracts have in common: u bits have passed, k is the
\* capacity of the buckets that paid for them, and t1, t2 and t3 are their
\* tokens before the update, after tokens were added, and at the end.
LEMMA PaidStep ==
  ASSUME NEW ticks \in Nat \ {0}, NEW k \in Nat, NEW start \in Nat,
         NEW u \in Nat, NEW u1 \in Nat,
         NEW t1 \in Nat, NEW t2 \in Nat, NEW t3 \in Nat,
         NEW last \in Nat, NEW last1 \in Nat, NEW time \in Nat,
         (t2 - t1) * ticks <= last1 - last,
         t2 <= k,
         u1 + t3 = u + t2,
         time - last1 <= ticks, start <= time,
         \/ u = 0
         \/ (u + t1) * ticks <= k * ticks + (last - start) + ticks
  PROVE  (u1 + t3) * ticks <= k * ticks + (last1 - start) + ticks
  <1>1. CASE u = 0
    <2>1. (u1 + t3) * ticks <= k * ticks
      BY <1>1
    <2>2. QED
      BY <2>1
  <1>2. CASE (u + t1) * ticks <= k * ticks + (last - start) + ticks
    <2>1. (u1 + t3) * ticks = (u + t1) * ticks + (t2 - t1) * ticks
      OBVIOUS
    <2>2. QED
      BY <1>2, <2>1
  <1>3. QED
    BY <1>1, <1>2

\* One update of the meter keeps both of them.
LEMMA UpdatePaid ==
  ASSUME EndTime <= WordSize * Ticks,
         TypeOK, InTime,
         NEW size \in Sizes, Update(size)
  PROVE  /\ GreenPaid => GreenPaid'
         /\ MarkedPaid => MarkedPaid'
  <1> DEFINE r == AddTokens(meter, clock, Ticks)
             bits == size * BitsPerByte
             g == passed["green"]
             y == passed["yellow"]
  <1>1. /\ r \in Meters
        /\ r.last_update_time <= clock
        /\ (r.T_c - meter.T_c) * Ticks <= r.last_update_time - meter.last_update_time
        /\ ((r.T_c + r.T_e) - (meter.T_c + meter.T_e)) * Ticks
             <= r.last_update_time - meter.last_update_time
    BY AddTokensBound, PolicerAssumption DEF TypeOK
  <1>2. clock - r.last_update_time <= Ticks
    <2>1. clock < WordSize * Ticks
      BY WordAssumption, PolicerAssumption DEF InTime, TypeOK
    <2>2. meter.last_update_time \in Nat
      BY DEF TypeOK, Meters
    <2>3. clock - meter.last_update_time < WordSize * Ticks
      BY <2>1, <2>2, WordAssumption, PolicerAssumption DEF TypeOK
    <2>4. QED
      BY <2>3, AddTokensRecent, PolicerAssumption DEF TypeOK
  <1>3. bits \in Nat
    BY PolicerAssumption DEF BitsPerByte
  <1>4. /\ meter' = Mark(r, bits)
        /\ passed'["green"] = g + (IF Color(r, bits) = "green" THEN bits ELSE 0)
        /\ passed'["yellow"] = y + (IF Color(r, bits) = "yellow" THEN bits ELSE 0)
        /\ mark' = mark
    BY DEF Update, MeterUpdate, MeterColor
  <1> HIDE DEF r, bits
  <1>5. /\ meter'.last_update_time = r.last_update_time
        /\ meter' \in Meters
        /\ meter'.T_c = r.T_c - (IF Color(r, bits) = "green" THEN bits ELSE 0)
        /\ meter'.T_e = r.T_e - (IF Color(r, bits) = "yellow" THEN bits ELSE 0)
    BY <1>1, <1>3, <1>4, MarkBound
  <1>6. /\ r.T_c \in Nat /\ r.T_c <= CBS /\ r.T_e \in Nat /\ r.T_e <= EBS
        /\ meter.T_c \in Nat /\ meter.T_e \in Nat
        /\ meter'.T_c \in Nat /\ meter'.T_e \in Nat
        /\ meter.last_update_time \in Nat /\ r.last_update_time \in Nat
        /\ g \in Nat /\ y \in Nat
        /\ passed'["green"] \in Nat /\ passed'["yellow"] \in Nat
        /\ CBS \in Nat /\ EBS \in Nat /\ mark \in Nat /\ clock \in Nat /\ mark <= clock
    BY <1>1, <1>3, <1>4, <1>5, MeterAssumption DEF TypeOK, Meters
  <1>7. ASSUME GreenPaid PROVE GreenPaid'
    <2>1. passed'["green"] + meter'.T_c = g + r.T_c
      BY <1>3, <1>4, <1>5, <1>6
    <2>2. \/ g = 0
          \/ (g + meter.T_c) * Ticks
               <= CBS * Ticks + (meter.last_update_time - mark) + Ticks
      BY <1>7 DEF GreenPaid
    <2>3. (passed'["green"] + meter'.T_c) * Ticks
             <= CBS * Ticks + (r.last_update_time - mark) + Ticks
      BY <1>1, <1>2, <1>6, <2>1, <2>2, PaidStep, PolicerAssumption
    <2>4. QED
      BY <1>4, <1>5, <2>3 DEF GreenPaid
  <1>8. ASSUME MarkedPaid PROVE MarkedPaid'
    <2> DEFINE u1 == passed'["green"] + passed'["yellow"]
               t1 == meter.T_c + meter.T_e
               t2 == r.T_c + r.T_e
               t3 == meter'.T_c + meter'.T_e
    <2>1. u1 + t3 = (g + y) + t2
      BY <1>3, <1>4, <1>5, <1>6
    <2>2. \/ g + y = 0
          \/ ((g + y) + t1) * Ticks
               <= (CBS + EBS) * Ticks + (meter.last_update_time - mark) + Ticks
      BY <1>8 DEF MarkedPaid
    <2>3. /\ u1 \in Nat /\ t1 \in Nat /\ t2 \in Nat /\ t3 \in Nat /\ g + y \in Nat
          /\ t2 <= CBS + EBS /\ CBS + EBS \in Nat
          /\ (t2 - t1) * Ticks <= r.last_update_time - meter.last_update_time
      BY <1>1, <1>6
    <2> HIDE DEF u1, t1, t2, t3
    <2>4. (u1 + t3) * Ticks
             <= (CBS + EBS) * Ticks + (r.last_update_time - mark) + Ticks
      BY <1>2, <1>6, <2>1, <2>2, <2>3, PaidStep, PolicerAssumption
    <2>5. QED
      BY <1>4, <1>5, <2>4 DEF MarkedPaid, u1, t3
  <1>9. QED
    BY <1>7, <1>8

\* The invariants imply the contracts.
LEMMA PaidConforms ==
  ASSUME TypeOK
  PROVE  /\ GreenPaid => GreenConforms
         /\ MarkedPaid => MarkedConforms
  <1> DEFINE g == passed["green"]
             y == passed["yellow"]
  <1>1. /\ g \in Nat /\ y \in Nat /\ meter.T_c \in Nat /\ meter.T_e \in Nat
        /\ meter.last_update_time \in Nat /\ meter.last_update_time <= clock
        /\ mark \in Nat /\ clock \in Nat /\ mark <= clock
        /\ CBS \in Nat /\ EBS \in Nat /\ Ticks \in Nat \ {0}
    BY MeterAssumption, PolicerAssumption DEF TypeOK, Meters
  <1>2. \A u, t, k \in Nat :
          \/ u = 0
          \/ (u + t) * Ticks <= k * Ticks + (meter.last_update_time - mark) + Ticks
          => u * Ticks <= (k + 1) * Ticks + (clock - mark)
    <2> TAKE u, t, k \in Nat
    <2>1. /\ (k + 1) * Ticks = k * Ticks + Ticks
          /\ (u + t) * Ticks = u * Ticks + t * Ticks
          /\ t * Ticks \in Nat /\ k * Ticks \in Nat /\ u * Ticks \in Nat
          /\ u = 0 => u * Ticks = 0
      BY <1>1
    <2>2. QED
      BY <1>1, <2>1
  <1>3. GreenPaid => GreenConforms
    BY <1>1, <1>2 DEF GreenPaid, GreenConforms
  <1>4. MarkedPaid => MarkedConforms
    <2>1. /\ g + y \in Nat /\ meter.T_c + meter.T_e \in Nat /\ CBS + EBS \in Nat
      BY <1>1
    <2>2. QED
      BY <1>2, <2>1 DEF MarkedPaid, MarkedConforms
  <1>5. QED
    BY <1>3, <1>4

(* The traffic contract of a meter, for every rounding of the products,      *)
(* provided that no meter can stay idle long enough to overflow              *)
(* num_new_tokens.                                                           *)
THEOREM PolicerConforms ==
  ASSUME EndTime <= WordSize * Ticks
  PROVE  Spec => [](GreenConforms /\ MarkedConforms)
  <1> DEFINE IInv == InTime /\ GreenPaid /\ MarkedPaid
  <1>1. Init => IInv
    BY DEF Init, InTime, GreenPaid, MarkedPaid
  <1>2. TypeOK /\ IInv /\ [Next]_vars => IInv'
    <2> SUFFICES ASSUME TypeOK, IInv, [Next]_vars PROVE IInv'
      OBVIOUS
    <2>1. CASE Advance
      BY <2>1 DEF Advance, InTime, GreenPaid, MarkedPaid
    <2>2. ASSUME NEW size \in Sizes, Update(size) PROVE IInv'
      <3>1. InTime'
        BY <2>2 DEF Update, InTime
      <3>2. QED
        BY <2>2, <3>1, UpdatePaid
    <2>3. CASE StartWindow
      BY <2>3 DEF StartWindow, InTime, GreenPaid, MarkedPaid
    <2>4. CASE UNCHANGED vars
      BY <2>4 DEF vars, InTime, GreenPaid, MarkedPaid
    <2>5. QED
      BY <2>1, <2>2, <2>3, <2>4 DEF Next
  <1>3. TypeOK /\ IInv => GreenConforms /\ MarkedConforms
    BY PaidConforms
  <1>4. QED
    BY <1>1, <1>2, <1>3, TypeCorrect, PTL DEF Spec
-----------------------------------------------------------------------------
(* That the lazy meter implements the eager one, when products are exact    *)
(* and no sum of tokens overflows.                                          *)
NoOverflow ==
  /\ CBS + EBS < WordSize
  /\ EndTime <= (WordSize - CBS - EBS) * Ticks

\* What the meter would hold at a time, had it no word to overflow.
Whole(m, time) == (time - m.last_update_time) \div Ticks
IdealC(m, n) == Least(m.T_c + n, CBS)
IdealE(m, n) == Least(m.T_e + (m.T_c + n - IdealC(m, n)), EBS)

\* The whole tokens since an update fit into a word.
LEMMA WholeBound ==
  ASSUME NoOverflow, NEW m \in Meters, NEW time \in Nat,
         time = 0 \/ time < EndTime, m.last_update_time <= time
  PROVE  Whole(m, time) \in Nat /\ Whole(m, time) + CBS + EBS < WordSize
  <1> DEFINE e == time - m.last_update_time
             q == Whole(m, time)
             room == WordSize - CBS - EBS
  <1>1. e \in Nat /\ e <= time
    BY DEF Meters
  <1>2. q \in Nat /\ q * Ticks <= e
    BY <1>1, DivBound, PolicerAssumption DEF Whole
  <1>3. /\ room \in Int /\ EndTime <= room * Ticks
        /\ CBS \in Nat /\ EBS \in Nat /\ CBS < WordSize /\ EBS < WordSize
        /\ Ticks \in Nat \ {0} /\ EndTime \in Nat /\ WordSize \in Nat
    BY MeterAssumption, PolicerAssumption, WordAssumption DEF NoOverflow
  <1> HIDE DEF q, room, e
  <1>4. CASE time = 0
    <2>1. e = 0
      BY <1>1, <1>4
    <2>2. q = 0
      BY <1>2, <1>3, <2>1
    <2>3. QED
      BY <1>3, <2>2 DEF q, NoOverflow
  <1>5. CASE time < EndTime
    <2>1. q * Ticks < room * Ticks
      BY <1>1, <1>2, <1>3, <1>5
    <2>2. q < room
      <3>1. q >= room => q * Ticks >= room * Ticks
        BY <1>2, <1>3
      <3>2. QED
        BY <1>2, <1>3, <2>1, <3>1
    <2>3. QED
      BY <1>2, <1>3, <2>2 DEF q, room
  <1>6. QED
    BY <1>4, <1>5

\* srTCM_update fills the buckets as the ideal marker does.
LEMMA AddTokensIdeal ==
  ASSUME NoOverflow, ExactProducts, NEW m \in Meters, NEW time \in Nat,
         time = 0 \/ time < EndTime, m.last_update_time <= time
  PROVE  LET n == Whole(m, time)
             r == AddTokens(m, time, Ticks)
         IN  /\ r.T_c = IdealC(m, n)
             /\ r.T_e = IdealE(m, n)
             /\ r.last_update_time = IF n > 0 THEN time ELSE m.last_update_time
  <1> DEFINE n == Whole(m, time)
             sum == m.T_c + n
             c == Least(sum, CBS)
             spilt == m.T_e + (sum - c)
  <1>1. n \in Nat /\ n + CBS + EBS < WordSize
    BY WholeBound
  <1>2. Earned(m.last_update_time, time, Ticks) = n
    <2>1. m.last_update_time \in Nat
      BY DEF Meters
    <2>2. n < WordSize
      BY <1>1, MeterAssumption, WordAssumption
    <2>3. QED
      BY <2>1, <2>2, EarnedExact, PolicerAssumption DEF Whole
  <1> HIDE DEF n
  <1>3. /\ m.T_c \in Nat /\ m.T_c <= CBS /\ m.T_e \in Nat /\ m.T_e <= EBS
        /\ CBS \in Nat /\ EBS \in Nat
    BY MeterAssumption DEF Meters
  <1>4. /\ sum \in Nat /\ sum < WordSize
        /\ c \in Nat /\ c <= sum /\ c <= CBS
        /\ spilt \in Nat /\ spilt < WordSize
        /\ sum = c => spilt = m.T_e
    BY <1>1, <1>3, WordAssumption DEF Least
  <1> HIDE DEF sum, spilt, c
  <1>5. sum % WordSize = sum /\ spilt % WordSize = spilt
    BY <1>4, ModBound, WordAssumption
  <1>6. AddTokens(m, time, Ticks) =
          [T_c |-> c,
           T_e |-> IF sum - c > 0 THEN Least(spilt % WordSize, EBS) ELSE m.T_e,
           last_update_time |-> IF n > 0 THEN time ELSE m.last_update_time]
    BY <1>2, <1>5 DEF AddTokens, UpdateTime, sum, c, spilt
  <1>7. (IF sum - c > 0 THEN Least(spilt % WordSize, EBS) ELSE m.T_e) = Least(spilt, EBS)
    BY <1>3, <1>4, <1>5 DEF Least
  <1>8. /\ c = IdealC(m, n)
        /\ Least(spilt, EBS) = IdealE(m, n)
    <2>1. c = IdealC(m, n)
      BY DEF IdealC, sum, c
    <2>2. spilt = m.T_e + (m.T_c + n - c)
      BY <1>1, <1>3, <1>4 DEF sum, spilt
    <2>3. QED
      BY <2>1, <2>2 DEF IdealE
  <1>9. /\ AddTokens(m, time, Ticks).T_c = c
        /\ AddTokens(m, time, Ticks).T_e = Least(spilt, EBS)
        /\ AddTokens(m, time, Ticks).last_update_time =
             IF n > 0 THEN time ELSE m.last_update_time
    BY <1>6, <1>7
  <1>10. QED
    BY <1>8, <1>9 DEF n

\* A tick of the eager meter: nothing, or one more token.
LEMMA OneMoreToken ==
  ASSUME NEW m \in Meters, NEW n \in Nat
  PROVE  \/ /\ IdealC(m, n) < CBS
            /\ IdealC(m, n + 1) = IdealC(m, n) + 1
            /\ IdealE(m, n + 1) = IdealE(m, n)
         \/ /\ IdealC(m, n) = CBS
            /\ IdealE(m, n) < EBS
            /\ IdealC(m, n + 1) = IdealC(m, n)
            /\ IdealE(m, n + 1) = IdealE(m, n) + 1
         \/ /\ IdealC(m, n) = CBS
            /\ IdealE(m, n) = EBS
            /\ IdealC(m, n + 1) = IdealC(m, n)
            /\ IdealE(m, n + 1) = IdealE(m, n)
  <1>1. /\ m.T_c \in Nat /\ m.T_c <= CBS /\ m.T_e \in Nat /\ m.T_e <= EBS
        /\ CBS \in Nat /\ EBS \in Nat
    BY MeterAssumption DEF Meters
  <1>2. CASE m.T_c + n < CBS
    BY <1>1, <1>2 DEF IdealC, IdealE, Least
  <1>3. CASE m.T_c + n >= CBS
    BY <1>1, <1>3 DEF IdealC, IdealE, Least
  <1>4. QED
    BY <1>1, <1>2, <1>3

\* What the eager meter holds, in terms of the lazy one.
LEMMA EagerView ==
  ASSUME NoOverflow, ExactProducts, TypeOK, InTime
  PROVE  /\ AddTokens(meter, clock, Ticks).T_c = IdealC(meter, Whole(meter, clock))
         /\ AddTokens(meter, clock, Ticks).T_e = IdealE(meter, Whole(meter, clock))
         /\ Whole(meter, clock) \in Nat
  BY AddTokensIdeal, WholeBound DEF TypeOK, InTime

\* A step of time is a step of the ideal marker.
LEMMA TickRefines ==
  ASSUME NoOverflow, ExactProducts, TypeOK, InTime, TypeOK', InTime', Advance
  PROVE  Eager!STick
  <1> DEFINE phase == clock - meter.last_update_time
             n == Whole(meter, clock)
  <1>1. meter' = meter /\ clock' = clock + 1
    BY DEF Advance
  <1>2. /\ phase \in Nat
        /\ clock - meter.last_update_time = phase
        /\ clock' - meter'.last_update_time = phase + 1
        /\ (clock + 1) - meter.last_update_time = phase + 1
    <2>1. clock \in Nat /\ meter.last_update_time \in Nat /\ meter.last_update_time <= clock
      BY DEF TypeOK, Meters
    <2>2. QED
      BY <1>1, <2>1
  <1> HIDE DEF phase
  <1>3. /\ AddTokens(meter, clock, Ticks).T_c = IdealC(meter, n)
        /\ AddTokens(meter, clock, Ticks).T_e = IdealE(meter, n)
        /\ n \in Nat
    BY EagerView
  <1>4. n = phase \div Ticks /\ Whole(meter, clock + 1) = (phase + 1) \div Ticks
    BY <1>2 DEF Whole
  <1>5. Whole(meter, clock + 1) = IF (phase + 1) % Ticks = 0 THEN n + 1 ELSE n
    BY <1>2, <1>4, DivNext, PolicerAssumption
  <1> HIDE DEF n
  <1>6. /\ AddTokens(meter', clock', Ticks).T_c = IdealC(meter, Whole(meter, clock + 1))
        /\ AddTokens(meter', clock', Ticks).T_e = IdealE(meter, Whole(meter, clock + 1))
    BY <1>1, AddTokensIdeal DEF TypeOK, InTime
  <1>7. CASE (phase + 1) % Ticks # 0
    BY <1>2, <1>3, <1>5, <1>7, <1>6 DEF Eager!STick
  <1>8. CASE (phase + 1) % Ticks = 0
    <2>1. meter \in Meters
      BY DEF TypeOK
    <2>2. \/ /\ IdealC(meter, n) < CBS
             /\ IdealC(meter, n + 1) = IdealC(meter, n) + 1
             /\ IdealE(meter, n + 1) = IdealE(meter, n)
          \/ /\ IdealC(meter, n) = CBS
             /\ IdealE(meter, n) < EBS
             /\ IdealC(meter, n + 1) = IdealC(meter, n)
             /\ IdealE(meter, n + 1) = IdealE(meter, n) + 1
          \/ /\ IdealC(meter, n) = CBS
             /\ IdealE(meter, n) = EBS
             /\ IdealC(meter, n + 1) = IdealC(meter, n)
             /\ IdealE(meter, n + 1) = IdealE(meter, n)
      BY <1>3, <2>1, OneMoreToken
    <2>3. QED
      BY <1>2, <1>3, <1>5, <1>8, <1>6, <2>2 DEF Eager!STick
  <1>9. QED
    BY <1>7, <1>8

\* Marking a packet is a step of the ideal marker.
LEMMA MarkRefines ==
  ASSUME NoOverflow, ExactProducts, TypeOK, InTime, TypeOK', InTime',
         NEW size \in Sizes, Update(size)
  PROVE  Eager!SMark(size * BitsPerByte)
  <1> DEFINE r == AddTokens(meter, clock, Ticks)
             bits == size * BitsPerByte
             n == Whole(meter, clock)
  <1>1. /\ clock' = clock
        /\ meter' = Mark(r, bits)
    BY DEF Update, MeterUpdate
  <1>2. /\ r \in Meters
        /\ r.last_update_time <= clock
        /\ r.last_update_time = IF n > 0 THEN clock ELSE meter.last_update_time
        /\ n \in Nat
    BY AddTokensBound, AddTokensIdeal, WholeBound, PolicerAssumption DEF TypeOK, InTime
  <1>3. bits \in Nat
    BY PolicerAssumption DEF BitsPerByte
  <1>4. /\ n > 0 <=> clock - meter.last_update_time >= Ticks
        /\ clock - meter.last_update_time \in Nat
    <2> DEFINE e == clock - meter.last_update_time
    <2>1. e \in Nat
      BY DEF TypeOK, Meters
    <2>2. n * Ticks <= e /\ e < n * Ticks + Ticks
      BY <2>1, DivBound, PolicerAssumption DEF Whole
    <2> HIDE DEF n, e
    <2>3. n > 0 => n * Ticks >= Ticks
      BY <1>2, PolicerAssumption
    <2>4. n = 0 => n * Ticks = 0
      BY PolicerAssumption
    <2>5. QED
      BY <1>2, <2>1, <2>2, <2>3, <2>4, PolicerAssumption DEF e
  <1> HIDE DEF r, bits, n
  <1>5. /\ meter'.last_update_time = r.last_update_time
        /\ meter'.T_c = r.T_c - (IF Color(r, bits) = "green" THEN bits ELSE 0)
        /\ meter'.T_e = r.T_e - (IF Color(r, bits) = "yellow" THEN bits ELSE 0)
    BY <1>1, <1>2, <1>3, MarkBound
  <1>6. meter' \in Meters /\ Whole(meter', clock) = 0
    <2>1. clock - r.last_update_time \in Nat /\ clock - r.last_update_time < Ticks
      BY <1>2, <1>4, PolicerAssumption DEF TypeOK, Meters
    <2> DEFINE e == clock - r.last_update_time
               w == e \div Ticks
    <2>2. w \in Nat /\ w * Ticks <= e
      BY <2>1, DivBound, PolicerAssumption
    <2> HIDE DEF w
    <2>3. w > 0 => w * Ticks >= Ticks
      BY <2>2, PolicerAssumption
    <2>4. w = 0
      BY <2>1, <2>2, <2>3, PolicerAssumption
    <2>5. QED
      BY <1>5, <2>4 DEF TypeOK, Whole, w
  <1>7. /\ AddTokens(meter', clock, Ticks).T_c = meter'.T_c
        /\ AddTokens(meter', clock, Ticks).T_e = meter'.T_e
    <2>1. /\ AddTokens(meter', clock, Ticks).T_c = IdealC(meter', 0)
          /\ AddTokens(meter', clock, Ticks).T_e = IdealE(meter', 0)
      BY <1>1, <1>2, <1>5, <1>6, AddTokensIdeal DEF TypeOK, InTime
    <2>2. IdealC(meter', 0) = meter'.T_c /\ IdealE(meter', 0) = meter'.T_e
      BY <1>6, MeterAssumption DEF IdealC, IdealE, Least, Meters
    <2>3. QED
      BY <2>1, <2>2
  <1>8. clock' - meter'.last_update_time =
          IF clock - meter.last_update_time >= Ticks
          THEN 0 ELSE clock - meter.last_update_time
    BY <1>1, <1>2, <1>4, <1>5 DEF TypeOK, Meters
  <1>9. \/ bits <= r.T_c /\ meter'.T_c = r.T_c - bits /\ meter'.T_e = r.T_e
        \/ bits > r.T_c /\ bits <= r.T_e /\ meter'.T_e = r.T_e - bits /\ meter'.T_c = r.T_c
        \/ bits > r.T_c /\ bits > r.T_e /\ meter'.T_c = r.T_c /\ meter'.T_e = r.T_e
    <2>1. r.T_c \in Nat /\ r.T_e \in Nat
      BY <1>2, MeterAssumption DEF Meters
    <2>2. QED
      BY <1>3, <1>5, <2>1 DEF Color
  <1>10. QED
    BY <1>1, <1>7, <1>8, <1>9 DEF Eager!SMark, r, bits

(* The lazy meter, which adds all its tokens at once and only when a packet  *)
(* arrives, implements the eager meter.                                      *)
THEOREM PolicerImplementsSrTCM ==
  ASSUME NoOverflow, ExactProducts
  PROVE  Spec => ImplementsSrTCM
  <1>1. Init => InTime
    BY DEF Init, InTime
  <1>2. InTime /\ [Next]_vars => InTime'
    BY DEF InTime, Next, vars, Advance, Update, StartWindow
  <1>3. Init /\ TypeOK /\ InTime => Eager!SInit
    <2> SUFFICES ASSUME Init, TypeOK, InTime PROVE Eager!SInit
      OBVIOUS
    <2>1. meter = FullMeter /\ clock = 0
      BY DEF Init
    <2>2. 0 \div Ticks = 0
      BY PolicerAssumption
    <2>3. Whole(meter, clock) = 0
      BY <2>1, <2>2 DEF Whole, FullMeter
    <2>4. IdealC(meter, 0) = CBS /\ IdealE(meter, 0) = EBS
      BY <2>1, MeterAssumption DEF IdealC, IdealE, Least, FullMeter
    <2>5. QED
      BY <2>1, <2>3, <2>4, EagerView DEF Eager!SInit, FullMeter
  <1>4. TypeOK /\ InTime /\ TypeOK' /\ InTime' /\ [Next]_vars => [Eager!SNext]_(Eager!svars)
    <2> SUFFICES ASSUME TypeOK, InTime, TypeOK', InTime', [Next]_vars
                 PROVE  [Eager!SNext]_(Eager!svars)
      OBVIOUS
    <2>1. CASE Advance
      BY <2>1, TickRefines DEF Eager!SNext
    <2>2. ASSUME NEW size \in Sizes, Update(size) PROVE Eager!SNext
      BY <2>2, MarkRefines DEF Eager!SNext
    <2>3. CASE StartWindow
      BY <2>3 DEF StartWindow, Eager!svars
    <2>4. CASE UNCHANGED vars
      BY <2>4 DEF vars, Eager!svars
    <2>5. QED
      BY <2>1, <2>2, <2>3, <2>4 DEF Next
  <1>5. QED
    BY <1>1, <1>2, <1>3, <1>4, TypeCorrect, PTL DEF Spec, ImplementsSrTCM, Eager!SSpec
=============================================================================
