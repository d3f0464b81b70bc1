-------------------------- MODULE LinkedQueueProofs --------------------------
(***************************************************************************)
(* Theorems about LinkedQueue.                                             *)
(***************************************************************************)
EXTENDS LinkedQueue, WellFoundedInduction, SequenceTheorems, TLAPS

\* A set of natural numbers has a least member.
LEMMA Least ==
  ASSUME NEW T, T \subseteq Nat, T # {}
  PROVE  \E x \in T : \A y \in T : x <= y
  <1>1. PICK R : R = {ss \in Nat \X Nat : ss[1] < ss[2]}
    OBVIOUS
  <1>2. IsWellFoundedOn(R, Nat)
    BY <1>1, NatLessThanWellFounded DEF OpToRel
  <1>3. PICK x \in T : \A y \in T : ~ (<<y, x>> \in R)
    BY <1>2, WFMin
  <1>4. \A y \in T : ~ (y < x)
    BY <1>1, <1>3
  <1> QED
    BY <1>3, <1>4

\* A walk of n steps along a pointer.
Walk(f, n, first, h, way) ==
  /\ f = [i \in 1 .. n |-> f[i]]
  /\ n > 0 => f[1] = first
  /\ \A i \in 1 .. n : i > 1 => f[i] = h[f[i - 1]][way]

\* There is only one walk.
LEMMA OneWalk ==
  ASSUME NEW n \in Nat, NEW first, NEW h, NEW way, NEW f, NEW s,
         Walk(f, n, first, h, way), Walk(s, n, first, h, way)
  PROVE  f = s
  <1>1. ASSUME NEW j \in 1 .. n, f[j] # s[j] PROVE FALSE
    <2>1. PICK T : T = {i \in 1 .. n : f[i] # s[i]}
      OBVIOUS
    <2>2. T \subseteq Nat /\ T # {}
      BY <1>1, <2>1
    <2>3. PICK m \in T : \A i \in T : m <= i
      BY <2>2, Least
    <2>4. m \in 1 .. n /\ f[m] # s[m]
      BY <2>1, <2>3
    <2>5. CASE m = 1
      BY <2>4, <2>5 DEF Walk
    <2>6. CASE m # 1
      <3>1. m - 1 \in 1 .. n /\ m > 1
        BY <2>4, <2>6
      <3>2. f[m - 1] = s[m - 1]
        BY <2>1, <2>3, <3>1
      <3>3. f[m] = h[f[m - 1]][way] /\ s[m] = h[s[m - 1]][way]
        BY <2>4, <3>1 DEF Walk
      <3> QED
        BY <2>4, <3>2, <3>3
    <2> QED
      BY <2>5, <2>6
  <1> QED
    BY <1>1 DEF Walk

\* A walk satisfies the definition of one, and what satisfies it is a walk.
LEMMA WalkEquation ==
  ASSUME NEW n \in Nat, NEW first, NEW h, NEW way, NEW s
  PROVE  Walk(s, n, first, h, way)
           <=> s = [i \in 1 .. n |-> IF i = 1 THEN first ELSE h[s[i - 1]][way]]
  <1>1. ASSUME Walk(s, n, first, h, way)
        PROVE  s = [i \in 1 .. n |-> IF i = 1 THEN first ELSE h[s[i - 1]][way]]
    <2>1. \A i \in 1 .. n : s[i] = IF i = 1 THEN first ELSE h[s[i - 1]][way]
      <3> TAKE i \in 1 .. n
      <3>1. CASE i = 1
        BY <1>1, <3>1 DEF Walk
      <3>2. CASE i # 1
        <4>1. i > 1
          BY <3>2
        <4>2. s[i] = h[s[i - 1]][way]
          BY <1>1, <4>1 DEF Walk
        <4> QED
          BY ONLY <3>2, <4>2
      <3> QED
        BY <3>1, <3>2
    <2> QED
      BY <1>1, <2>1 DEF Walk
  <1>2. ASSUME s = [i \in 1 .. n |-> IF i = 1 THEN first ELSE h[s[i - 1]][way]]
        PROVE  Walk(s, n, first, h, way)
    <2>1. s = [i \in 1 .. n |-> s[i]]
      BY <1>2
    <2>2. \A i \in 1 .. n : s[i] = IF i = 1 THEN first ELSE h[s[i - 1]][way]
      BY <1>2
    <2>3. n > 0 => s[1] = first
      BY <2>2
    <2>4. \A i \in 1 .. n : i > 1 => s[i] = h[s[i - 1]][way]
      BY <2>2
    <2> QED
      BY ONLY <2>1, <2>3, <2>4 DEF Walk
  <1> QED
    BY <1>1, <1>2

(***************************************************************************)
(* The list as it should be: s[lo + 1], ..., s[hi] are the addresses of    *)
(* the nodes from head to tail.  Packets leave and are put back at lo,     *)
(* and come and are undone at hi, so that no position ever changes.        *)
(***************************************************************************)
Places(lo, hi) == lo + 1 .. hi

After(s, hi, i)  == IF i = hi THEN NULL ELSE s[i + 1]
Before(s, lo, i) == IF i = lo + 1 THEN NULL ELSE s[i - 1]

IsNode(node) ==
  /\ node = [data |-> node.data, next |-> node.next, prev |-> node.prev]
  /\ node.data \in Packets

List(s, lo, hi, h, hd, tl) ==
  /\ lo \in Int /\ hi \in Int /\ lo <= hi
  /\ h = [a \in DOMAIN h |-> h[a]]
  /\ \A a : a \in DOMAIN h <=> \E i \in Places(lo, hi) : a = s[i]
  /\ \A i \in Places(lo, hi) :
        /\ s[i] \in Addresses
        /\ IsNode(h[s[i]])
        /\ h[s[i]].next = After(s, hi, i)
        /\ h[s[i]].prev = Before(s, lo, i)
  /\ \A i, j \in Places(lo, hi) : s[i] = s[j] => i = j
  /\ IF lo = hi THEN hd = NULL /\ tl = NULL ELSE hd = s[lo + 1] /\ tl = s[hi]

\* b[i] - b[j] are the bytes of the packets after position j up to position i.
Weighed(s, b, lo, hi, h, size) ==
  /\ \A i \in lo .. hi : b[i] \in Int
  /\ \A i \in Places(lo, hi) : b[i] = b[i - 1] + SizeOf[h[s[i]].data]
  /\ \A i, j \in lo .. hi : i <= j => b[i] <= b[j]
  /\ size = b[hi] - b[lo]
  /\ size <= MaxBytes

LinkInv ==
  \E s, b, lo, hi :
     /\ List(s, lo, hi, heap, head, tail)
     /\ Weighed(s, b, lo, hi, heap, size_in_bytes)
     /\ num_packets = hi - lo

\* A new node at either end.
LEMMA NewNode ==
  ASSUME NEW p \in Packets, NEW x, NEW y, NEW node, node = [data |-> p, next |-> x, prev |-> y]
  PROVE  IsNode(node) /\ node.data = p /\ node.next = x /\ node.prev = y
  BY DEF IsNode

\* A write to the field next of a node.
LEMMA WriteNext ==
  ASSUME NEW node, IsNode(node), NEW x, NEW node2, node2 = [node EXCEPT !.next = x]
  PROVE  IsNode(node2) /\ node2.data = node.data /\ node2.next = x /\ node2.prev = node.prev
  BY DEF IsNode

\* A write to the field prev of a node.
LEMMA WritePrev ==
  ASSUME NEW node, IsNode(node), NEW x, NEW node2, node2 = [node EXCEPT !.prev = x]
  PROVE  IsNode(node2) /\ node2.data = node.data /\ node2.next = node.next /\ node2.prev = x
  BY DEF IsNode

\* The heap after a node is allocated.
LEMMA WithFacts ==
  ASSUME NEW h, NEW new, new \notin DOMAIN h, NEW node, NEW h2, h2 = With(h, new, node)
  PROVE  /\ h2 = [a \in DOMAIN h2 |-> h2[a]]
         /\ \A a : a \in DOMAIN h2 <=> a \in DOMAIN h \/ a = new
         /\ h2[new] = node
         /\ \A a \in DOMAIN h : h2[a] = h[a]
  BY DEF With

\* The heap after a node is freed.
LEMMA WithoutFacts ==
  ASSUME NEW h, NEW old, NEW h2, h2 = Without(h, old)
  PROVE  /\ h2 = [a \in DOMAIN h2 |-> h2[a]]
         /\ \A a : a \in DOMAIN h2 <=> a \in DOMAIN h /\ a # old
         /\ \A a \in DOMAIN h : a # old => h2[a] = h[a]
  BY DEF Without

\* A write to one node.
LEMMA WriteFacts ==
  ASSUME NEW h, h = [a \in DOMAIN h |-> h[a]], NEW at \in DOMAIN h, NEW node, NEW h2,
         h2 = [h EXCEPT ![at] = node]
  PROVE  /\ h2 = [a \in DOMAIN h2 |-> h2[a]]
         /\ DOMAIN h2 = DOMAIN h
         /\ h2[at] = node
         /\ \A a \in DOMAIN h : a # at => h2[a] = h[a]
  OBVIOUS

\* A node more at the tail.
LEMMA LastAdded ==
  ASSUME NEW s, NEW lo, NEW hi, NEW h, NEW hd, NEW tl, List(s, lo, hi, h, hd, tl),
         NEW new \in Addresses, new \notin DOMAIN h, NEW h2, h2 = [a \in DOMAIN h2 |-> h2[a]],
         \A a : a \in DOMAIN h2 <=> a \in DOMAIN h \/ a = new,
         IsNode(h2[new]), h2[new].next = NULL, h2[new].prev = tl,
         \A i \in Places(lo, hi) :
            /\ IsNode(h2[s[i]])
            /\ h2[s[i]].next = IF i = hi THEN new ELSE h[s[i]].next
            /\ h2[s[i]].prev = h[s[i]].prev,
         NEW hd2, hd2 = IF lo = hi THEN new ELSE hd,
         NEW s2, s2 = [i \in Places(lo, hi + 1) |-> IF i = hi + 1 THEN new ELSE s[i]]
  PROVE  List(s2, lo, hi + 1, h2, hd2, new)
  <1>1. /\ lo \in Int /\ hi \in Int /\ lo <= hi /\ lo <= hi + 1 /\ lo # hi + 1
        /\ s2[hi + 1] = new
        /\ \A i \in Places(lo, hi) : i # hi + 1 /\ s2[i] = s[i] /\ s[i] \in DOMAIN h /\ s2[i] # new
        /\ \A i : i \in Places(lo, hi + 1) <=> i \in Places(lo, hi) \/ i = hi + 1
    BY DEF List, Places
  <1>2. \A a : a \in DOMAIN h2 <=> \E i \in Places(lo, hi + 1) : a = s2[i]
    BY <1>1 DEF List
  <1>3. ASSUME NEW i \in Places(lo, hi + 1)
        PROVE  /\ s2[i] \in Addresses
               /\ IsNode(h2[s2[i]])
               /\ h2[s2[i]].next = After(s2, hi + 1, i)
               /\ h2[s2[i]].prev = Before(s2, lo, i)
    <2>1. CASE i = hi + 1
      <3>1. tl = Before(s2, lo, hi + 1)
        BY <1>1 DEF List, Before, Places
      <3> QED
        BY <1>1, <2>1, <3>1 DEF After
    <2>2. CASE i \in Places(lo, hi)
      <3>1. s[i] \in Addresses /\ h[s[i]].next = After(s, hi, i) /\ h[s[i]].prev = Before(s, lo, i)
        BY <2>2 DEF List
      <3>2. Before(s2, lo, i) = Before(s, lo, i)
        BY <1>1, <2>2 DEF Before, Places
      <3>3. After(s2, hi + 1, i) = IF i = hi THEN new ELSE After(s, hi, i)
        BY <1>1, <2>2 DEF After, Places
      <3>4. s2[i] = s[i]
        BY <1>1, <2>2
      <3> QED
        BY <2>2, <3>1, <3>2, <3>3, <3>4
    <2> QED
      BY <1>1, <2>1, <2>2
  <1>4. \A i, j \in Places(lo, hi + 1) : s2[i] = s2[j] => i = j
    BY <1>1 DEF List
  <1>5. hd2 = s2[lo + 1]
    BY <1>1 DEF List, Places
  <1> QED
    BY <1>1, <1>2, <1>3, <1>4, <1>5 DEF List

\* A node more at the head.
LEMMA FirstAdded ==
  ASSUME NEW s, NEW lo, NEW hi, NEW h, NEW hd, NEW tl, List(s, lo, hi, h, hd, tl),
         NEW new \in Addresses, new \notin DOMAIN h, NEW h2, h2 = [a \in DOMAIN h2 |-> h2[a]],
         \A a : a \in DOMAIN h2 <=> a \in DOMAIN h \/ a = new,
         IsNode(h2[new]), h2[new].next = hd, h2[new].prev = NULL,
         \A i \in Places(lo, hi) :
            /\ IsNode(h2[s[i]])
            /\ h2[s[i]].next = h[s[i]].next
            /\ h2[s[i]].prev = IF i = lo + 1 THEN new ELSE h[s[i]].prev,
         NEW tl2, tl2 = IF lo = hi THEN new ELSE tl,
         NEW s2, s2 = [i \in Places(lo - 1, hi) |-> IF i = lo THEN new ELSE s[i]]
  PROVE  List(s2, lo - 1, hi, h2, new, tl2)
  <1>1. /\ lo \in Int /\ hi \in Int /\ lo <= hi /\ lo - 1 <= hi /\ lo - 1 # hi
        /\ lo - 1 \in Int /\ (lo - 1) + 1 = lo
        /\ s2[lo] = new
        /\ \A i \in Places(lo, hi) : i # lo /\ s2[i] = s[i] /\ s[i] \in DOMAIN h /\ s2[i] # new
        /\ \A i : i \in Places(lo - 1, hi) <=> i \in Places(lo, hi) \/ i = lo
    BY DEF List, Places
  <1>2. \A a : a \in DOMAIN h2 <=> \E i \in Places(lo - 1, hi) : a = s2[i]
    <2>1. \A a : a \in DOMAIN h <=> \E i \in Places(lo, hi) : a = s[i]
      BY DEF List
    <2>2. \A a : a \in DOMAIN h2 <=> a \in DOMAIN h \/ a = new
      OBVIOUS
    <2> QED
      BY ONLY <1>1, <2>1, <2>2
  <1>3. ASSUME NEW i \in Places(lo - 1, hi)
        PROVE  /\ s2[i] \in Addresses
               /\ IsNode(h2[s2[i]])
               /\ h2[s2[i]].next = After(s2, hi, i)
               /\ h2[s2[i]].prev = Before(s2, lo - 1, i)
    <2>1. CASE i = lo
      <3>1. hd = After(s2, hi, lo)
        BY <1>1 DEF List, After, Places
      <3> QED
        BY <1>1, <2>1, <3>1 DEF Before
    <2>2. CASE i \in Places(lo, hi)
      <3>1. s[i] \in Addresses /\ h[s[i]].next = After(s, hi, i) /\ h[s[i]].prev = Before(s, lo, i)
        BY <2>2 DEF List
      <3>2. After(s2, hi, i) = After(s, hi, i)
        BY <1>1, <2>2 DEF After, Places
      <3>3. Before(s2, lo - 1, i) = IF i = lo + 1 THEN new ELSE Before(s, lo, i)
        BY <1>1, <2>2 DEF Before, Places
      <3>4. s2[i] = s[i]
        BY <1>1, <2>2
      <3> QED
        BY <2>2, <3>1, <3>2, <3>3, <3>4
    <2> QED
      BY <1>1, <2>1, <2>2
  <1>4. \A i, j \in Places(lo - 1, hi) : s2[i] = s2[j] => i = j
    BY <1>1 DEF List
  <1>5. tl2 = s2[hi]
    BY <1>1 DEF List, Places
  <1> QED
    BY <1>1, <1>2, <1>3, <1>4, <1>5 DEF List

\* A node less at the tail.
LEMMA LastRemoved ==
  ASSUME NEW s, NEW lo, NEW hi, NEW h, NEW hd, NEW tl, List(s, lo, hi, h, hd, tl), lo # hi,
         NEW h2, h2 = [a \in DOMAIN h2 |-> h2[a]],
         \A a : a \in DOMAIN h2 <=> a \in DOMAIN h /\ a # tl,
         \A i \in Places(lo, hi - 1) :
            /\ IsNode(h2[s[i]])
            /\ h2[s[i]].next = IF i = hi - 1 THEN NULL ELSE h[s[i]].next
            /\ h2[s[i]].prev = h[s[i]].prev,
         NEW hd2, hd2 = IF lo = hi - 1 THEN NULL ELSE hd
  PROVE  List(s, lo, hi - 1, h2, hd2, h[tl].prev)
  <1>1. /\ lo \in Int /\ hi \in Int /\ lo <= hi - 1 /\ hi - 1 \in Int
        /\ tl = s[hi] /\ hd = s[lo + 1]
        /\ \A i : i \in Places(lo, hi) <=> i \in Places(lo, hi - 1) \/ i = hi
        /\ hi \in Places(lo, hi)
        /\ \A i \in Places(lo, hi - 1) : i # hi
    BY DEF List, Places
  <1>2. \A i \in Places(lo, hi - 1) : s[i] # tl
    BY <1>1 DEF List
  <1>3. \A a : a \in DOMAIN h2 <=> \E i \in Places(lo, hi - 1) : a = s[i]
    BY <1>1, <1>2 DEF List
  <1>4. ASSUME NEW i \in Places(lo, hi - 1)
        PROVE  /\ s[i] \in Addresses
               /\ IsNode(h2[s[i]])
               /\ h2[s[i]].next = After(s, hi - 1, i)
               /\ h2[s[i]].prev = Before(s, lo, i)
    <2>1. s[i] \in Addresses /\ h[s[i]].next = After(s, hi, i) /\ h[s[i]].prev = Before(s, lo, i)
      BY <1>1 DEF List
    <2>2. After(s, hi - 1, i) = IF i = hi - 1 THEN NULL ELSE After(s, hi, i)
      BY <1>1 DEF After
    <2> QED
      BY <2>1, <2>2
  <1>5. \A i, j \in Places(lo, hi - 1) : s[i] = s[j] => i = j
    BY <1>1 DEF List
  <1>6. h[tl].prev = Before(s, lo, hi)
    BY <1>1 DEF List
  <1>7. h[tl].prev = IF lo = hi - 1 THEN NULL ELSE s[hi - 1]
    BY <1>1, <1>6 DEF Before
  <1> QED
    BY <1>1, <1>3, <1>4, <1>5, <1>7 DEF List

\* A node less at the head.
LEMMA FirstRemoved ==
  ASSUME NEW s, NEW lo, NEW hi, NEW h, NEW hd, NEW tl, List(s, lo, hi, h, hd, tl), lo # hi,
         NEW h2, h2 = [a \in DOMAIN h2 |-> h2[a]],
         \A a : a \in DOMAIN h2 <=> a \in DOMAIN h /\ a # hd,
         \A i \in Places(lo + 1, hi) :
            /\ IsNode(h2[s[i]])
            /\ h2[s[i]].next = h[s[i]].next
            /\ h2[s[i]].prev = IF i = lo + 2 THEN NULL ELSE h[s[i]].prev,
         NEW tl2, tl2 = IF lo + 1 = hi THEN NULL ELSE tl
  PROVE  List(s, lo + 1, hi, h2, h[hd].next, tl2)
  <1>1. /\ lo \in Int /\ hi \in Int /\ lo + 1 <= hi /\ lo + 1 \in Int /\ (lo + 1) + 1 = lo + 2
        /\ tl = s[hi] /\ hd = s[lo + 1]
        /\ \A i : i \in Places(lo, hi) <=> i \in Places(lo + 1, hi) \/ i = lo + 1
        /\ lo + 1 \in Places(lo, hi)
        /\ \A i \in Places(lo + 1, hi) : i # lo + 1
    BY DEF List, Places
  <1>2. \A i \in Places(lo + 1, hi) : s[i] # hd
    BY <1>1 DEF List
  <1>3. \A a : a \in DOMAIN h2 <=> \E i \in Places(lo + 1, hi) : a = s[i]
    BY <1>1, <1>2 DEF List
  <1>4. ASSUME NEW i \in Places(lo + 1, hi)
        PROVE  /\ s[i] \in Addresses
               /\ IsNode(h2[s[i]])
               /\ h2[s[i]].next = After(s, hi, i)
               /\ h2[s[i]].prev = Before(s, lo + 1, i)
    <2>1. s[i] \in Addresses /\ h[s[i]].next = After(s, hi, i) /\ h[s[i]].prev = Before(s, lo, i)
      BY <1>1 DEF List
    <2>2. Before(s, lo + 1, i) = IF i = lo + 2 THEN NULL ELSE Before(s, lo, i)
      BY <1>1 DEF Before
    <2> QED
      BY <2>1, <2>2
  <1>5. \A i, j \in Places(lo + 1, hi) : s[i] = s[j] => i = j
    BY <1>1 DEF List
  <1>6. h[hd].next = After(s, hi, lo + 1)
    BY <1>1 DEF List
  <1>7. h[hd].next = IF lo + 1 = hi THEN NULL ELSE s[lo + 2]
    BY <1>1, <1>6 DEF After
  <1> QED
    BY <1>1, <1>3, <1>4, <1>5, <1>7 DEF List

\* The bytes, when a packet comes at the tail.
LEMMA LastWeighed ==
  ASSUME NEW s, NEW b, NEW lo \in Int, NEW hi \in Int, lo <= hi, NEW h, NEW size,
         Weighed(s, b, lo, hi, h, size),
         NEW h2, NEW s2, NEW w \in Nat, size + w <= MaxBytes,
         \A i \in Places(lo, hi) : h2[s2[i]].data = h[s[i]].data,
         SizeOf[h2[s2[hi + 1]].data] = w,
         NEW b2, b2 = [i \in lo .. hi + 1 |-> IF i = hi + 1 THEN b[hi] + w ELSE b[i]]
  PROVE  Weighed(s2, b2, lo, hi + 1, h2, size + w)
  <1>1. /\ \A i \in lo .. hi : i # hi + 1 /\ b2[i] = b[i] /\ b[i] \in Int /\ b[i] <= b[hi]
        /\ b2[hi + 1] = b[hi] + w /\ b[hi] \in Int /\ b[lo] \in Int /\ b2[lo] = b[lo]
        /\ \A i : i \in lo .. hi + 1 <=> i \in lo .. hi \/ i = hi + 1
        /\ \A i : i \in Places(lo, hi + 1) <=> i \in Places(lo, hi) \/ i = hi + 1
        /\ \A i \in Places(lo, hi) : i \in lo .. hi /\ i - 1 \in lo .. hi
        /\ hi \in lo .. hi /\ (hi + 1) - 1 = hi
    BY DEF Weighed, Places
  <1>2. \A i \in lo .. hi + 1 : b2[i] \in Int
    <2>1. b[hi] + w \in Int
      BY <1>1
    <2> QED
      BY ONLY <1>1, <2>1
  <1>3. \A i \in Places(lo, hi + 1) : b2[i] = b2[i - 1] + SizeOf[h2[s2[i]].data]
    <2>1. ASSUME NEW i \in Places(lo, hi)
          PROVE  b2[i] = b2[i - 1] + SizeOf[h2[s2[i]].data]
      <3>1. b[i] = b[i - 1] + SizeOf[h[s[i]].data]
        BY DEF Weighed
      <3>2. b2[i] = b[i] /\ b2[i - 1] = b[i - 1]
        BY ONLY <1>1, <2>1
      <3> QED
        BY ONLY <3>1, <3>2, <2>1, \A k \in Places(lo, hi) : h2[s2[k]].data = h[s[k]].data
    <2>2. b2[hi + 1] = b2[(hi + 1) - 1] + SizeOf[h2[s2[hi + 1]].data]
      BY <1>1
    <2> QED
      BY ONLY <1>1, <2>1, <2>2
  <1>4. \A i, j \in lo .. hi + 1 : i <= j => b2[i] <= b2[j]
    BY <1>1 DEF Weighed
  <1>5. size + w = b2[hi + 1] - b2[lo]
    BY <1>1 DEF Weighed
  <1> QED
    BY <1>2, <1>3, <1>4, <1>5 DEF Weighed

\* The bytes, when a packet is put back at the head.
LEMMA FirstWeighed ==
  ASSUME NEW s, NEW b, NEW lo \in Int, NEW hi \in Int, lo <= hi, NEW h, NEW size,
         Weighed(s, b, lo, hi, h, size),
         NEW h2, NEW s2, NEW w \in Nat, size + w <= MaxBytes,
         \A i \in Places(lo, hi) : h2[s2[i]].data = h[s[i]].data,
         SizeOf[h2[s2[lo]].data] = w,
         NEW b2, b2 = [i \in lo - 1 .. hi |-> IF i = lo - 1 THEN b[lo] - w ELSE b[i]]
  PROVE  Weighed(s2, b2, lo - 1, hi, h2, size + w)
  <1>1. /\ \A i \in lo .. hi : i # lo - 1 /\ b2[i] = b[i] /\ b[i] \in Int /\ b[lo] <= b[i]
        /\ b2[lo - 1] = b[lo] - w /\ b[hi] \in Int /\ b[lo] \in Int /\ b2[hi] = b[hi] /\ b2[lo] = b[lo]
        /\ \A i : i \in lo - 1 .. hi <=> i \in lo .. hi \/ i = lo - 1
        /\ \A i : i \in Places(lo - 1, hi) <=> i \in Places(lo, hi) \/ i = lo
        /\ \A i \in Places(lo, hi) : i \in lo .. hi /\ i - 1 \in lo .. hi
        /\ lo \in lo .. hi
    BY DEF Weighed, Places
  <1>2. \A i \in lo - 1 .. hi : b2[i] \in Int
    <2>1. b2[lo - 1] \in Int
      BY <1>1
    <2> QED
      BY ONLY <1>1, <2>1
  <1>3. \A i \in Places(lo - 1, hi) : b2[i] = b2[i - 1] + SizeOf[h2[s2[i]].data]
    <2>1. ASSUME NEW i \in Places(lo, hi)
          PROVE  b2[i] = b2[i - 1] + SizeOf[h2[s2[i]].data]
      <3>1. b[i] = b[i - 1] + SizeOf[h[s[i]].data]
        BY DEF Weighed
      <3>2. b2[i] = b[i] /\ b2[i - 1] = b[i - 1]
        BY ONLY <1>1, <2>1
      <3> QED
        BY ONLY <3>1, <3>2, <2>1, \A k \in Places(lo, hi) : h2[s2[k]].data = h[s[k]].data
    <2>2. b2[lo] = b2[lo - 1] + SizeOf[h2[s2[lo]].data]
      BY <1>1
    <2> QED
      BY ONLY <1>1, <2>1, <2>2
  <1>4. \A i, j \in lo - 1 .. hi : i <= j => b2[i] <= b2[j]
    BY <1>1 DEF Weighed
  <1>5. size + w = b2[hi] - b2[lo - 1]
    BY <1>1 DEF Weighed
  <1> QED
    BY <1>2, <1>3, <1>4, <1>5 DEF Weighed

\* The bytes, when packets leave at either end.
LEMMA FewerWeighed ==
  ASSUME NEW s, NEW b, NEW lo \in Int, NEW hi \in Int, NEW h, NEW size,
         Weighed(s, b, lo, hi, h, size),
         NEW lo2 \in lo .. hi, NEW hi2 \in lo2 .. hi, NEW h2,
         \A i \in Places(lo2, hi2) : h2[s[i]].data = h[s[i]].data
  PROVE  Weighed(s, b, lo2, hi2, h2, b[hi2] - b[lo2])
  <1>1. /\ \A i \in lo2 .. hi2 : i \in lo .. hi
        /\ \A i \in Places(lo2, hi2) : i \in Places(lo, hi)
        /\ lo \in lo .. hi /\ hi \in lo .. hi /\ lo2 <= hi2
    BY DEF Places
  <1>2. b[hi2] - b[lo2] <= b[hi] - b[lo]
    <2>1. /\ b[hi2] <= b[hi] /\ b[lo] <= b[lo2]
          /\ b[hi2] \in Int /\ b[hi] \in Int /\ b[lo] \in Int /\ b[lo2] \in Int
      BY <1>1 DEF Weighed
    <2> QED
      BY <2>1
  <1>3. b[hi2] - b[lo2] <= MaxBytes
    <2>1. size = b[hi] - b[lo] /\ size <= MaxBytes
      BY DEF Weighed
    <2>2. /\ b[hi2] \in Int /\ b[hi] \in Int /\ b[lo] \in Int /\ b[lo2] \in Int
      BY <1>1 DEF Weighed
    <2> QED
      BY <1>2, <2>1, <2>2, QueueAssumption
  <1> QED
    BY <1>1, <1>3 DEF Weighed

\* The packets of a list, in order.
Data(s, lo, hi, h) == [i \in 1 .. hi - lo |-> h[s[lo + i]].data]

\* queue_append_to_tail adds its node at the tail of the list.
LEMMA PutKeepsList ==
  ASSUME NEW s, NEW b, NEW lo, NEW hi, List(s, lo, hi, heap, head, tail),
         Weighed(s, b, lo, hi, heap, size_in_bytes),
         NEW p \in Packets, NEW new \in Addresses, Put(p, new),
         NEW s2, s2 = [i \in Places(lo, hi + 1) |-> IF i = hi + 1 THEN new ELSE s[i]],
         NEW b2, b2 = [i \in lo .. hi + 1 |-> IF i = hi + 1 THEN b[hi] + SizeOf[p] ELSE b[i]]
  PROVE  /\ List(s2, lo, hi + 1, heap', head', tail')
         /\ Weighed(s2, b2, lo, hi + 1, heap', size_in_bytes')
         /\ heap'[new].data = p
         /\ \A i \in Places(lo, hi) : heap'[s2[i]].data = heap[s[i]].data
  <1>1. /\ new \notin DOMAIN heap /\ tail' = new
        /\ size_in_bytes' = size_in_bytes + SizeOf[p] /\ size_in_bytes + SizeOf[p] <= MaxBytes
    BY DEF Put, Room
  <1>2. /\ lo \in Int /\ hi \in Int /\ lo <= hi
        /\ \A i \in Places(lo, hi) : s[i] \in DOMAIN heap /\ s2[i] = s[i] /\ i # hi + 1
        /\ s2[hi + 1] = new
    BY DEF List, Places
  <1>3. PICK node : node = [data |-> p, next |-> NULL, prev |-> tail]
    OBVIOUS
  <1>4. IsNode(node) /\ node.data = p /\ node.next = NULL /\ node.prev = tail
    BY <1>3, NewNode
  <1>5. /\ heap' = [a \in DOMAIN heap' |-> heap'[a]]
        /\ \A a : a \in DOMAIN heap' <=> a \in DOMAIN heap \/ a = new
        /\ heap'[new] = node
        /\ \A i \in Places(lo, hi) :
              /\ IsNode(heap'[s[i]])
              /\ heap'[s[i]].data = heap[s[i]].data
              /\ heap'[s[i]].next = IF i = hi THEN new ELSE heap[s[i]].next
              /\ heap'[s[i]].prev = heap[s[i]].prev
        /\ head' = IF lo = hi THEN new ELSE head
    <2>1. CASE lo = hi
      <3>1. head = NULL /\ tail = NULL /\ Places(lo, hi) = {}
        BY <1>2, <2>1 DEF List, Places
      <3>2. heap' = With(heap, new, node) /\ head' = new
        BY <1>3, <3>1 DEF Put
      <3> QED
        BY <1>1, <2>1, <3>1, <3>2, WithFacts
    <2>2. CASE lo # hi
      <3>1. /\ lo + 1 \in Places(lo, hi) /\ hi \in Places(lo, hi)
            /\ head = s[lo + 1] /\ tail = s[hi] /\ head # NULL
        BY <1>2, <2>2, QueueAssumption DEF List, Places
      <3>2. PICK at : at = [heap[tail] EXCEPT !.next = new]
        OBVIOUS
      <3>3. PICK h1 : h1 = [heap EXCEPT ![tail] = at]
        OBVIOUS
      <3>4. heap' = With(h1, new, node) /\ head' = head
        BY <1>3, <3>1, <3>2, <3>3 DEF Put
      <3>5. /\ heap = [a \in DOMAIN heap |-> heap[a]] /\ tail \in DOMAIN heap
        BY <3>1 DEF List
      <3>6. /\ DOMAIN h1 = DOMAIN heap /\ h1[tail] = at
            /\ \A a \in DOMAIN heap : a # tail => h1[a] = heap[a]
        BY <3>3, <3>5, WriteFacts
      <3>7. /\ heap' = [a \in DOMAIN heap' |-> heap'[a]]
            /\ \A a : a \in DOMAIN heap' <=> a \in DOMAIN heap \/ a = new
            /\ heap'[new] = node
            /\ \A a \in DOMAIN heap : heap'[a] = h1[a]
        BY <1>1, <3>4, <3>6, WithFacts
      <3>8. IsNode(at) /\ at.data = heap[tail].data /\ at.next = new /\ at.prev = heap[tail].prev
        <4>1. IsNode(heap[tail])
          BY <3>1 DEF List
        <4> QED
          BY <3>2, <4>1, WriteNext
      <3>9. \A i \in Places(lo, hi) : i # hi => s[i] # tail
        BY <3>1 DEF List
      <3>10. \A i \in Places(lo, hi) :
               /\ IsNode(heap'[s[i]])
               /\ heap'[s[i]].data = heap[s[i]].data
               /\ heap'[s[i]].next = IF i = hi THEN new ELSE heap[s[i]].next
               /\ heap'[s[i]].prev = heap[s[i]].prev
        <4> TAKE i \in Places(lo, hi)
        <4>1. CASE i = hi
          BY <1>2, <3>1, <3>6, <3>7, <3>8, <4>1
        <4>2. CASE i # hi
          <5>1. heap'[s[i]] = heap[s[i]] /\ IsNode(heap[s[i]])
            BY <1>2, <3>6, <3>7, <3>9, <4>2 DEF List
          <5> QED
            BY <4>2, <5>1
        <4> QED
          BY <4>1, <4>2
      <3> QED
        BY <2>2, <3>4, <3>7, <3>10
    <2> QED
      BY <2>1, <2>2
  <1>6. List(s2, lo, hi + 1, heap', head', tail')
    BY <1>1, <1>4, <1>5, LastAdded
  <1>7. SizeOf[p] \in Nat
    BY QueueAssumption
  <1>8. Weighed(s2, b2, lo, hi + 1, heap', size_in_bytes + SizeOf[p])
    <2>1. \A i \in Places(lo, hi) : heap'[s2[i]].data = heap[s[i]].data
      BY <1>2, <1>5
    <2>2. SizeOf[heap'[s2[hi + 1]].data] = SizeOf[p]
      BY <1>2, <1>4, <1>5
    <2>3. PICK w : w = SizeOf[p]
      OBVIOUS
    <2>4. b2 = [i \in lo .. hi + 1 |-> IF i = hi + 1 THEN b[hi] + w ELSE b[i]]
      BY <2>3
    <2>5. w \in Nat /\ size_in_bytes + w <= MaxBytes /\ SizeOf[heap'[s2[hi + 1]].data] = w
      BY <1>1, <1>7, <2>2, <2>3
    <2>6. Weighed(s, b, lo, hi, heap, size_in_bytes)
      OBVIOUS
    <2>7. lo \in Int /\ hi \in Int /\ lo <= hi
      BY <1>2
    <2>8. Weighed(s2, b2, lo, hi + 1, heap', size_in_bytes + w)
      BY ONLY <2>7, <2>1, <2>4, <2>5, <2>6, LastWeighed
    <2> QED
      BY <2>3, <2>8
  <1> QED
    BY <1>1, <1>2, <1>4, <1>5, <1>6, <1>8

\* queue_append_to_head adds its node at the head of the list.
LEMMA TakeReverseKeepsList ==
  ASSUME NEW s, NEW b, NEW lo, NEW hi, List(s, lo, hi, heap, head, tail),
         Weighed(s, b, lo, hi, heap, size_in_bytes),
         NEW p \in Packets, NEW new \in Addresses, TakeReverse(p, new),
         NEW s2, s2 = [i \in Places(lo - 1, hi) |-> IF i = lo THEN new ELSE s[i]],
         NEW b2, b2 = [i \in lo - 1 .. hi |-> IF i = lo - 1 THEN b[lo] - SizeOf[p] ELSE b[i]]
  PROVE  /\ List(s2, lo - 1, hi, heap', head', tail')
         /\ Weighed(s2, b2, lo - 1, hi, heap', size_in_bytes')
         /\ heap'[new].data = p
         /\ \A i \in Places(lo, hi) : heap'[s2[i]].data = heap[s[i]].data
  <1>1. /\ new \notin DOMAIN heap /\ head' = new
        /\ size_in_bytes' = size_in_bytes + SizeOf[p] /\ size_in_bytes + SizeOf[p] <= MaxBytes
    BY DEF TakeReverse, Room
  <1>2. /\ lo \in Int /\ hi \in Int /\ lo <= hi
        /\ \A i \in Places(lo, hi) : s[i] \in DOMAIN heap /\ s2[i] = s[i] /\ i # lo
        /\ s2[lo] = new
    BY DEF List, Places
  <1>3. PICK node : node = [data |-> p, next |-> head, prev |-> NULL]
    OBVIOUS
  <1>4. IsNode(node) /\ node.data = p /\ node.next = head /\ node.prev = NULL
    BY <1>3, NewNode
  <1>5. /\ heap' = [a \in DOMAIN heap' |-> heap'[a]]
        /\ \A a : a \in DOMAIN heap' <=> a \in DOMAIN heap \/ a = new
        /\ heap'[new] = node
        /\ \A i \in Places(lo, hi) :
              /\ IsNode(heap'[s[i]])
              /\ heap'[s[i]].data = heap[s[i]].data
              /\ heap'[s[i]].next = heap[s[i]].next
              /\ heap'[s[i]].prev = IF i = lo + 1 THEN new ELSE heap[s[i]].prev
        /\ tail' = IF lo = hi THEN new ELSE tail
    <2>1. CASE lo = hi
      <3>1. head = NULL /\ tail = NULL /\ Places(lo, hi) = {}
        BY <1>2, <2>1 DEF List, Places
      <3>2. heap' = With(heap, new, node) /\ tail' = new
        BY <1>3, <3>1 DEF TakeReverse
      <3> QED
        BY <1>1, <2>1, <3>1, <3>2, WithFacts
    <2>2. CASE lo # hi
      <3>1. /\ lo + 1 \in Places(lo, hi)
            /\ head = s[lo + 1] /\ head # NULL
        BY <1>2, <2>2, QueueAssumption DEF List, Places
      <3>2. PICK at : at = [heap[head] EXCEPT !.prev = new]
        OBVIOUS
      <3>3. PICK h1 : h1 = [heap EXCEPT ![head] = at]
        OBVIOUS
      <3>4. heap' = With(h1, new, node) /\ tail' = tail
        BY <1>3, <3>1, <3>2, <3>3 DEF TakeReverse
      <3>5. /\ heap = [a \in DOMAIN heap |-> heap[a]] /\ head \in DOMAIN heap
        BY <3>1 DEF List
      <3>6. /\ DOMAIN h1 = DOMAIN heap /\ h1[head] = at
            /\ \A a \in DOMAIN heap : a # head => h1[a] = heap[a]
        BY <3>3, <3>5, WriteFacts
      <3>7. /\ heap' = [a \in DOMAIN heap' |-> heap'[a]]
            /\ \A a : a \in DOMAIN heap' <=> a \in DOMAIN heap \/ a = new
            /\ heap'[new] = node
            /\ \A a \in DOMAIN heap : heap'[a] = h1[a]
        BY <1>1, <3>4, <3>6, WithFacts
      <3>8. IsNode(at) /\ at.data = heap[head].data /\ at.next = heap[head].next /\ at.prev = new
        <4>1. IsNode(heap[head])
          BY <3>1 DEF List
        <4> QED
          BY <3>2, <4>1, WritePrev
      <3>9. \A i \in Places(lo, hi) : i # lo + 1 => s[i] # head
        BY <3>1 DEF List
      <3>10. \A i \in Places(lo, hi) :
               /\ IsNode(heap'[s[i]])
               /\ heap'[s[i]].data = heap[s[i]].data
               /\ heap'[s[i]].next = heap[s[i]].next
               /\ heap'[s[i]].prev = IF i = lo + 1 THEN new ELSE heap[s[i]].prev
        <4> TAKE i \in Places(lo, hi)
        <4>1. CASE i = lo + 1
          BY <1>2, <3>1, <3>6, <3>7, <3>8, <4>1
        <4>2. CASE i # lo + 1
          <5>1. heap'[s[i]] = heap[s[i]] /\ IsNode(heap[s[i]])
            BY <1>2, <3>6, <3>7, <3>9, <4>2 DEF List
          <5> QED
            BY <4>2, <5>1
        <4> QED
          BY <4>1, <4>2
      <3> QED
        BY <2>2, <3>4, <3>7, <3>10
    <2> QED
      BY <2>1, <2>2
  <1>6. List(s2, lo - 1, hi, heap', head', tail')
    BY <1>1, <1>4, <1>5, FirstAdded
  <1>7. SizeOf[p] \in Nat
    BY QueueAssumption
  <1>8. Weighed(s2, b2, lo - 1, hi, heap', size_in_bytes + SizeOf[p])
    <2>1. \A i \in Places(lo, hi) : heap'[s2[i]].data = heap[s[i]].data
      BY <1>2, <1>5
    <2>2. SizeOf[heap'[s2[lo]].data] = SizeOf[p]
      BY <1>2, <1>4, <1>5
    <2>3. PICK w : w = SizeOf[p]
      OBVIOUS
    <2>4. b2 = [i \in lo - 1 .. hi |-> IF i = lo - 1 THEN b[lo] - w ELSE b[i]]
      BY <2>3
    <2>5. w \in Nat /\ size_in_bytes + w <= MaxBytes /\ SizeOf[heap'[s2[lo]].data] = w
      BY <1>1, <1>7, <2>2, <2>3
    <2>6. Weighed(s, b, lo, hi, heap, size_in_bytes)
      OBVIOUS
    <2>7. lo \in Int /\ hi \in Int /\ lo <= hi
      BY <1>2
    <2>8. Weighed(s2, b2, lo - 1, hi, heap', size_in_bytes + w)
      BY ONLY <2>7, <2>1, <2>4, <2>5, <2>6, FirstWeighed
    <2> QED
      BY <2>3, <2>8
  <1> QED
    BY <1>1, <1>2, <1>4, <1>5, <1>6, <1>8

\* queue_return_from_tail removes the last node of the list.
LEMMA PutReverseKeepsList ==
  ASSUME NEW s, NEW b, NEW lo, NEW hi, List(s, lo, hi, heap, head, tail),
         Weighed(s, b, lo, hi, heap, size_in_bytes), lo # hi, PutReverse
  PROVE  /\ List(s, lo, hi - 1, heap', head', tail')
         /\ Weighed(s, b, lo, hi - 1, heap', size_in_bytes')
         /\ \A i \in Places(lo, hi - 1) : heap'[s[i]].data = heap[s[i]].data
  <1>1. /\ lo \in Int /\ hi \in Int /\ lo < hi
        /\ hi \in Places(lo, hi) /\ tail = s[hi] /\ head = s[lo + 1] /\ head # NULL
        /\ lo + 1 \in Places(lo, hi)
        /\ \A i \in Places(lo, hi - 1) : i \in Places(lo, hi) /\ i # hi /\ s[i] # tail /\ s[i] \in DOMAIN heap
        /\ heap = [a \in DOMAIN heap |-> heap[a]] /\ tail \in DOMAIN heap
    BY QueueAssumption DEF List, Places
  <1>2. tail' = heap[tail].prev /\ heap[tail].prev = IF lo = hi - 1 THEN NULL ELSE s[hi - 1]
    BY <1>1 DEF PutReverse, List, Before
  <1>3. /\ heap' = [a \in DOMAIN heap' |-> heap'[a]]
        /\ \A a : a \in DOMAIN heap' <=> a \in DOMAIN heap /\ a # tail
        /\ \A i \in Places(lo, hi - 1) :
              /\ IsNode(heap'[s[i]])
              /\ heap'[s[i]].data = heap[s[i]].data
              /\ heap'[s[i]].next = IF i = hi - 1 THEN NULL ELSE heap[s[i]].next
              /\ heap'[s[i]].prev = heap[s[i]].prev
        /\ head' = IF lo = hi - 1 THEN NULL ELSE head
    <2>1. CASE lo = hi - 1
      <3>1. heap' = Without(heap, tail) /\ head' = NULL
        BY <1>2, <2>1 DEF PutReverse
      <3>2. Places(lo, hi - 1) = {}
        BY <1>1, <2>1 DEF Places
      <3> QED
        BY <2>1, <3>1, <3>2, WithoutFacts
    <2>2. CASE lo # hi - 1
      <3>1. hi - 1 \in Places(lo, hi) /\ s[hi - 1] # NULL /\ s[hi - 1] \in DOMAIN heap /\ s[hi - 1] # tail
        BY <1>1, <2>2, QueueAssumption DEF List, Places
      <3>2. PICK last : last = s[hi - 1]
        OBVIOUS
      <3>3. tail' = last /\ last # NULL /\ last \in DOMAIN heap /\ last # tail
        BY <1>2, <2>2, <3>1, <3>2
      <3>4. PICK at : at = [heap[last] EXCEPT !.next = NULL]
        OBVIOUS
      <3>5. PICK h1 : h1 = [heap EXCEPT ![last] = at]
        OBVIOUS
      <3>6. heap' = Without(h1, tail) /\ head' = head
        BY <3>3, <3>4, <3>5 DEF PutReverse
      <3>7. /\ DOMAIN h1 = DOMAIN heap /\ h1[last] = at
            /\ \A a \in DOMAIN heap : a # last => h1[a] = heap[a]
        BY <1>1, <3>3, <3>5, WriteFacts
      <3>8. /\ heap' = [a \in DOMAIN heap' |-> heap'[a]]
            /\ \A a : a \in DOMAIN heap' <=> a \in DOMAIN heap /\ a # tail
            /\ \A a \in DOMAIN heap : a # tail => heap'[a] = h1[a]
        BY <3>6, <3>7, WithoutFacts
      <3>9. IsNode(at) /\ at.data = heap[last].data /\ at.next = NULL /\ at.prev = heap[last].prev
        <4>1. IsNode(heap[last])
          BY <3>1, <3>2 DEF List
        <4> QED
          BY <3>4, <4>1, WriteNext
      <3>10. \A i \in Places(lo, hi - 1) : i # hi - 1 => s[i] # last
        BY <1>1, <3>1, <3>2 DEF List
      <3>11. \A i \in Places(lo, hi - 1) :
               /\ IsNode(heap'[s[i]])
               /\ heap'[s[i]].data = heap[s[i]].data
               /\ heap'[s[i]].next = IF i = hi - 1 THEN NULL ELSE heap[s[i]].next
               /\ heap'[s[i]].prev = heap[s[i]].prev
        <4> TAKE i \in Places(lo, hi - 1)
        <4>1. CASE i = hi - 1
          BY <3>2, <3>3, <3>7, <3>8, <3>9, <4>1
        <4>2. CASE i # hi - 1
          <5>1. heap'[s[i]] = heap[s[i]] /\ IsNode(heap[s[i]])
            BY <1>1, <3>7, <3>8, <3>10, <4>2 DEF List
          <5> QED
            BY <4>2, <5>1
        <4> QED
          BY <4>1, <4>2
      <3> QED
        BY <2>2, <3>6, <3>8, <3>11
    <2> QED
      BY <2>1, <2>2
  <1>4. List(s, lo, hi - 1, heap', head', heap[tail].prev)
    BY <1>1, <1>3, LastRemoved
  <1>5. size_in_bytes' = b[hi - 1] - b[lo]
    <2>1. size_in_bytes' = size_in_bytes - SizeOf[heap[tail].data]
      BY DEF PutReverse
    <2>2. /\ size_in_bytes = b[hi] - b[lo] /\ b[hi] = b[hi - 1] + SizeOf[heap[s[hi]].data]
          /\ b[hi - 1] \in Int /\ b[lo] \in Int
      BY <1>1 DEF Weighed
    <2>3. SizeOf[heap[s[hi]].data] \in Int
      <3>1. heap[s[hi]].data \in Packets
        BY <1>1 DEF List, IsNode
      <3> QED
        BY <1>1, <3>1, QueueAssumption
    <2> QED
      BY ONLY <1>1, <2>1, <2>2, <2>3
  <1>6. Weighed(s, b, lo, hi - 1, heap', b[hi - 1] - b[lo])
    <2>1. lo \in lo .. hi /\ hi - 1 \in lo .. hi /\ lo \in Int /\ hi \in Int
      BY <1>1
    <2>2. \A i \in Places(lo, hi - 1) : heap'[s[i]].data = heap[s[i]].data
      BY <1>3
    <2>3. hi - 1 \in lo .. hi
      BY <1>1
    <2> QED
      BY <2>1, <2>2, <2>3, FewerWeighed
  <1> QED
    BY <1>2, <1>3, <1>4, <1>5, <1>6

\* queue_return_from_head removes the first node of the list.
LEMMA TakeKeepsList ==
  ASSUME NEW s, NEW b, NEW lo, NEW hi, List(s, lo, hi, heap, head, tail),
         Weighed(s, b, lo, hi, heap, size_in_bytes), lo # hi, Take
  PROVE  /\ List(s, lo + 1, hi, heap', head', tail')
         /\ Weighed(s, b, lo + 1, hi, heap', size_in_bytes')
         /\ \A i \in Places(lo + 1, hi) : heap'[s[i]].data = heap[s[i]].data
  <1>1. /\ lo \in Int /\ hi \in Int /\ lo < hi /\ (lo + 1) + 1 = lo + 2
        /\ hi \in Places(lo, hi) /\ tail = s[hi] /\ head = s[lo + 1]
        /\ lo + 1 \in Places(lo, hi)
        /\ \A i \in Places(lo + 1, hi) : i \in Places(lo, hi) /\ i # lo + 1 /\ s[i] # head /\ s[i] \in DOMAIN heap
        /\ heap = [a \in DOMAIN heap |-> heap[a]] /\ head \in DOMAIN heap
    BY DEF List, Places
  <1>2. head' = heap[head].next /\ heap[head].next = IF lo + 1 = hi THEN NULL ELSE s[lo + 2]
    BY <1>1 DEF Take, List, After
  <1>3. /\ heap' = [a \in DOMAIN heap' |-> heap'[a]]
        /\ \A a : a \in DOMAIN heap' <=> a \in DOMAIN heap /\ a # head
        /\ \A i \in Places(lo + 1, hi) :
              /\ IsNode(heap'[s[i]])
              /\ heap'[s[i]].data = heap[s[i]].data
              /\ heap'[s[i]].next = heap[s[i]].next
              /\ heap'[s[i]].prev = IF i = lo + 2 THEN NULL ELSE heap[s[i]].prev
        /\ tail' = IF lo + 1 = hi THEN NULL ELSE tail
    <2>1. CASE lo + 1 = hi
      <3>1. heap' = Without(heap, head) /\ tail' = NULL
        BY <1>2, <2>1 DEF Take
      <3>2. Places(lo + 1, hi) = {}
        BY <1>1, <2>1 DEF Places
      <3> QED
        BY <2>1, <3>1, <3>2, WithoutFacts
    <2>2. CASE lo + 1 # hi
      <3>1. lo + 2 \in Places(lo, hi) /\ s[lo + 2] # NULL /\ s[lo + 2] \in DOMAIN heap /\ s[lo + 2] # head
        BY <1>1, <2>2, QueueAssumption DEF List, Places
      <3>2. PICK first : first = s[lo + 2]
        OBVIOUS
      <3>3. head' = first /\ first # NULL /\ first \in DOMAIN heap /\ first # head
        BY <1>2, <2>2, <3>1, <3>2
      <3>4. PICK at : at = [heap[first] EXCEPT !.prev = NULL]
        OBVIOUS
      <3>5. PICK h1 : h1 = [heap EXCEPT ![first] = at]
        OBVIOUS
      <3>6. heap' = Without(h1, head) /\ tail' = tail
        BY <3>3, <3>4, <3>5 DEF Take
      <3>7. /\ DOMAIN h1 = DOMAIN heap /\ h1[first] = at
            /\ \A a \in DOMAIN heap : a # first => h1[a] = heap[a]
        BY <1>1, <3>3, <3>5, WriteFacts
      <3>8. /\ heap' = [a \in DOMAIN heap' |-> heap'[a]]
            /\ \A a : a \in DOMAIN heap' <=> a \in DOMAIN heap /\ a # head
            /\ \A a \in DOMAIN heap : a # head => heap'[a] = h1[a]
        BY <3>6, <3>7, WithoutFacts
      <3>9. IsNode(at) /\ at.data = heap[first].data /\ at.next = heap[first].next /\ at.prev = NULL
        <4>1. IsNode(heap[first])
          BY <3>1, <3>2 DEF List
        <4> QED
          BY <3>4, <4>1, WritePrev
      <3>10. \A i \in Places(lo + 1, hi) : i # lo + 2 => s[i] # first
        BY <1>1, <3>1, <3>2 DEF List
      <3>11. \A i \in Places(lo + 1, hi) :
               /\ IsNode(heap'[s[i]])
               /\ heap'[s[i]].data = heap[s[i]].data
               /\ heap'[s[i]].next = heap[s[i]].next
               /\ heap'[s[i]].prev = IF i = lo + 2 THEN NULL ELSE heap[s[i]].prev
        <4> TAKE i \in Places(lo + 1, hi)
        <4>1. CASE i = lo + 2
          BY <3>2, <3>3, <3>7, <3>8, <3>9, <4>1
        <4>2. CASE i # lo + 2
          <5>1. heap'[s[i]] = heap[s[i]] /\ IsNode(heap[s[i]])
            BY <1>1, <3>7, <3>8, <3>10, <4>2 DEF List
          <5> QED
            BY <4>2, <5>1
        <4> QED
          BY <4>1, <4>2
      <3> QED
        BY <2>2, <3>6, <3>8, <3>11
    <2> QED
      BY <2>1, <2>2
  <1>4. List(s, lo + 1, hi, heap', heap[head].next, tail')
    BY <1>1, <1>3, FirstRemoved
  <1>5. size_in_bytes' = b[hi] - b[lo + 1]
    <2>1. size_in_bytes' = size_in_bytes - SizeOf[heap[head].data]
      BY DEF Take
    <2>2. /\ size_in_bytes = b[hi] - b[lo] /\ b[lo + 1] = b[(lo + 1) - 1] + SizeOf[heap[s[lo + 1]].data]
          /\ b[hi] \in Int /\ b[lo] \in Int
      BY <1>1 DEF Weighed
    <2>3. SizeOf[heap[s[lo + 1]].data] \in Int /\ (lo + 1) - 1 = lo
      <3>1. heap[s[lo + 1]].data \in Packets
        BY <1>1 DEF List, IsNode
      <3> QED
        BY <1>1, <3>1, QueueAssumption
    <2> QED
      BY ONLY <1>1, <2>1, <2>2, <2>3
  <1>6. Weighed(s, b, lo + 1, hi, heap', b[hi] - b[lo + 1])
    <2>1. lo + 1 \in lo .. hi /\ hi \in (lo + 1) .. hi /\ lo \in Int /\ hi \in Int
      BY <1>1
    <2>2. \A i \in Places(lo + 1, hi) : heap'[s[i]].data = heap[s[i]].data
      BY <1>3
    <2> QED
      BY <2>1, <2>2, FewerWeighed
  <1> QED
    BY <1>2, <1>3, <1>4, <1>5, <1>6

\* The empty list.
LEMMA LinkInit == Init => LinkInv
  <1> SUFFICES ASSUME Init PROVE LinkInv
    OBVIOUS
  <1>1. PICK s, b : s = <<>> /\ b = [i \in {0} |-> 0]
    OBVIOUS
  <1>2. /\ Places(0, 0) = {} /\ 0 .. 0 = {0} /\ b[0] = 0 /\ MaxBytes >= 0
        /\ DOMAIN heap = {} /\ heap = [a \in DOMAIN heap |-> heap[a]]
    BY <1>1, QueueAssumption DEF Places, Init
  <1>3. List(s, 0, 0, heap, head, tail)
    BY <1>2 DEF List, Init
  <1>4. Weighed(s, b, 0, 0, heap, size_in_bytes)
    BY <1>2 DEF Weighed, Init
  <1> QED
    BY <1>3, <1>4 DEF LinkInv, Init

\* Every function of queue_fifo.c keeps the list a list.
LEMMA LinkNext == LinkInv /\ [Next]_vars => LinkInv'
  <1> SUFFICES ASSUME LinkInv, [Next]_vars PROVE LinkInv'
    OBVIOUS
  <1>1. PICK s, b, lo, hi :
          /\ List(s, lo, hi, heap, head, tail)
          /\ Weighed(s, b, lo, hi, heap, size_in_bytes)
          /\ num_packets = hi - lo
    BY DEF LinkInv
  <1>2. lo \in Int /\ hi \in Int /\ lo <= hi
    BY <1>1 DEF List
  <1>3. ASSUME NEW p \in Packets, NEW new \in Addresses, Put(p, new)
        PROVE  LinkInv'
    <2>1. PICK s2 : s2 = [i \in Places(lo, hi + 1) |-> IF i = hi + 1 THEN new ELSE s[i]]
      OBVIOUS
    <2>2. PICK b2 : b2 = [i \in lo .. hi + 1 |-> IF i = hi + 1 THEN b[hi] + SizeOf[p] ELSE b[i]]
      OBVIOUS
    <2>3. /\ List(s2, lo, hi + 1, heap', head', tail')
          /\ Weighed(s2, b2, lo, hi + 1, heap', size_in_bytes')
      BY <1>1, <1>3, <2>1, <2>2, PutKeepsList
    <2>4. num_packets' = (hi + 1) - lo
      BY <1>1, <1>2, <1>3 DEF Put
    <2> QED
      BY <2>3, <2>4 DEF LinkInv
  <1>4. ASSUME NEW p \in Packets, NEW new \in Addresses, TakeReverse(p, new)
        PROVE  LinkInv'
    <2>1. PICK s2 : s2 = [i \in Places(lo - 1, hi) |-> IF i = lo THEN new ELSE s[i]]
      OBVIOUS
    <2>2. PICK b2 : b2 = [i \in lo - 1 .. hi |-> IF i = lo - 1 THEN b[lo] - SizeOf[p] ELSE b[i]]
      OBVIOUS
    <2>3. /\ List(s2, lo - 1, hi, heap', head', tail')
          /\ Weighed(s2, b2, lo - 1, hi, heap', size_in_bytes')
      BY <1>1, <1>4, <2>1, <2>2, TakeReverseKeepsList
    <2>4. num_packets' = hi - (lo - 1)
      BY <1>1, <1>2, <1>4 DEF TakeReverse
    <2> QED
      BY <2>3, <2>4 DEF LinkInv
  <1>5. ASSUME PutReverse PROVE LinkInv'
    <2>1. lo # hi /\ num_packets' = (hi - 1) - lo
      BY <1>1, <1>2, <1>5 DEF PutReverse
    <2>2. /\ List(s, lo, hi - 1, heap', head', tail')
          /\ Weighed(s, b, lo, hi - 1, heap', size_in_bytes')
      BY <1>1, <1>5, <2>1, PutReverseKeepsList
    <2> QED
      BY <2>1, <2>2 DEF LinkInv
  <1>6. ASSUME Take PROVE LinkInv'
    <2>1. lo # hi /\ num_packets' = hi - (lo + 1)
      BY <1>1, <1>2, <1>6 DEF Take
    <2>2. /\ List(s, lo + 1, hi, heap', head', tail')
          /\ Weighed(s, b, lo + 1, hi, heap', size_in_bytes')
      BY <1>1, <1>6, <2>1, TakeKeepsList
    <2> QED
      BY <2>1, <2>2 DEF LinkInv
  <1>7. CASE UNCHANGED vars
    BY <1>1, <1>7 DEF vars, LinkInv
  <1> QED
    BY <1>3, <1>4, <1>5, <1>6, <1>7 DEF Next

(***************************************************************************)
(* The nodes of a queue of the switch are always one list: the addresses   *)
(* on the heap are those of its places, every next and prev is that of the *)
(* neighbouring place, head and tail are its ends, and num_packets and     *)
(* size_in_bytes are its length and its bytes.                             *)
(***************************************************************************)
THEOREM QueueIsList == Spec => []LinkInv
  <1> QED
    BY LinkInit, LinkNext, PTL DEF Spec

\* The fields of a list.
LEMMA LinkType == LinkInv => TypeOK
  <1> SUFFICES ASSUME LinkInv PROVE TypeOK
    OBVIOUS
  <1>1. PICK s, b, lo, hi :
          /\ List(s, lo, hi, heap, head, tail)
          /\ Weighed(s, b, lo, hi, heap, size_in_bytes)
          /\ num_packets = hi - lo
    BY DEF LinkInv
  <1>2. lo \in Int /\ hi \in Int /\ lo <= hi /\ num_packets \in Nat
    BY <1>1 DEF List
  <1>3. size_in_bytes \in 0 .. MaxBytes
    <2>1. /\ b[lo] \in Int /\ b[hi] \in Int /\ b[lo] <= b[hi]
          /\ size_in_bytes = b[hi] - b[lo] /\ size_in_bytes <= MaxBytes
      BY <1>1, <1>2 DEF Weighed
    <2> QED
      BY <2>1, QueueAssumption
  <1>4. ASSUME NEW a \in DOMAIN heap PROVE a \in Addresses /\ heap[a] \in Node
    <2>1. PICK i \in Places(lo, hi) : a = s[i]
      BY <1>1 DEF List
    <2>2. /\ s[i] \in Addresses /\ IsNode(heap[s[i]])
          /\ heap[s[i]].next = After(s, hi, i) /\ heap[s[i]].prev = Before(s, lo, i)
      BY <1>1 DEF List
    <2>3. i # hi => i + 1 \in Places(lo, hi)
      BY <1>2 DEF Places
    <2>4. i # lo + 1 => i - 1 \in Places(lo, hi)
      BY <1>2 DEF Places
    <2>5. After(s, hi, i) \in Addresses \cup {NULL} /\ Before(s, lo, i) \in Addresses \cup {NULL}
      BY <1>1, <2>3, <2>4 DEF List, After, Before
    <2> QED
      BY <2>1, <2>2, <2>5 DEF IsNode, Node
  <1>5. heap \in [DOMAIN heap -> Node]
    <2>1. heap = [a \in DOMAIN heap |-> heap[a]]
      BY <1>1 DEF List
    <2> QED
      BY <1>4, <2>1
  <1>6. {head, tail} \subseteq Addresses \cup {NULL}
    <2>1. lo # hi => lo + 1 \in Places(lo, hi) /\ hi \in Places(lo, hi)
      BY <1>2 DEF Places
    <2> QED
      BY <1>1, <2>1 DEF List
  <1> QED
    BY <1>2, <1>3, <1>4, <1>5, <1>6 DEF TypeOK

\* The walk from the head along next.
LEMMA HeadWalk ==
  ASSUME NEW s, num_packets \in Nat, Walk(s, num_packets, head, heap, "next")
  PROVE  FromHead = s
  <1>1. s = [i \in 1 .. num_packets |-> IF i = 1 THEN head ELSE heap[s[i - 1]]["next"]]
    BY WalkEquation
  <1>2. FromHead = [i \in 1 .. num_packets |-> IF i = 1 THEN head ELSE heap[FromHead[i - 1]]["next"]]
    BY <1>1 DEF FromHead
  <1>3. Walk(FromHead, num_packets, head, heap, "next")
    BY <1>2, WalkEquation
  <1> QED
    BY <1>3, OneWalk

\* The walk from the tail along prev.
LEMMA TailWalk ==
  ASSUME NEW s, num_packets \in Nat, Walk(s, num_packets, tail, heap, "prev")
  PROVE  FromTail = s
  <1>1. s = [i \in 1 .. num_packets |-> IF i = 1 THEN tail ELSE heap[s[i - 1]]["prev"]]
    BY WalkEquation
  <1>2. FromTail = [i \in 1 .. num_packets |-> IF i = 1 THEN tail ELSE heap[FromTail[i - 1]]["prev"]]
    BY <1>1 DEF FromTail
  <1>3. Walk(FromTail, num_packets, tail, heap, "prev")
    BY <1>2, WalkEquation
  <1> QED
    BY <1>3, OneWalk

\* The walk from the head passes the places of the list in order.
LEMMA HeadPlaces ==
  ASSUME NEW s, NEW lo, NEW hi, List(s, lo, hi, heap, head, tail), num_packets = hi - lo
  PROVE  FromHead = [i \in 1 .. num_packets |-> s[lo + i]]
  <1>1. /\ lo \in Int /\ hi \in Int /\ num_packets \in Nat
        /\ \A i \in 1 .. num_packets : lo + i \in Places(lo, hi)
    BY DEF List, Places
  <1>2. PICK w : w = [i \in 1 .. num_packets |-> s[lo + i]]
    OBVIOUS
  <1>3. num_packets > 0 => w[1] = head
    BY <1>1, <1>2 DEF List
  <1>4. ASSUME NEW i \in 1 .. num_packets, i > 1
        PROVE  w[i] = heap[w[i - 1]].next
    <2>1. PICK k : k = lo + (i - 1)
      OBVIOUS
    <2>2. k \in Places(lo, hi) /\ k # hi /\ k + 1 = lo + i /\ i - 1 \in 1 .. num_packets
      BY <1>1, <1>4, <2>1 DEF Places
    <2>3. w[i - 1] = s[k] /\ w[i] = s[k + 1]
      BY <1>2, <2>1, <2>2
    <2>4. heap[s[k]].next = s[k + 1]
      BY <2>2 DEF List, After
    <2> QED
      BY ONLY <2>3, <2>4
  <1>5. w = [i \in 1 .. num_packets |-> w[i]]
    BY <1>2
  <1>6. \A i \in 1 .. num_packets : i > 1 => w[i] = heap[w[i - 1]].next
    BY <1>4
  <1>7. Walk(w, num_packets, head, heap, "next")
    BY ONLY <1>3, <1>5, <1>6 DEF Walk
  <1>8. FromHead = w
    BY ONLY <1>1, <1>7, HeadWalk
  <1> QED
    BY <1>2, <1>8

\* The walk from the tail passes the places of the list from the last.
LEMMA TailPlaces ==
  ASSUME NEW s, NEW lo, NEW hi, List(s, lo, hi, heap, head, tail), num_packets = hi - lo
  PROVE  FromTail = [i \in 1 .. num_packets |-> s[hi + 1 - i]]
  <1>1. /\ lo \in Int /\ hi \in Int /\ num_packets \in Nat
        /\ \A i \in 1 .. num_packets : hi + 1 - i \in Places(lo, hi)
    BY DEF List, Places
  <1>2. PICK w : w = [i \in 1 .. num_packets |-> s[hi + 1 - i]]
    OBVIOUS
  <1>3. num_packets > 0 => w[1] = tail
    BY <1>1, <1>2 DEF List
  <1>4. ASSUME NEW i \in 1 .. num_packets, i > 1
        PROVE  w[i] = heap[w[i - 1]].prev
    <2>1. PICK k : k = hi + 1 - (i - 1)
      OBVIOUS
    <2>2. k \in Places(lo, hi) /\ k # lo + 1 /\ k - 1 = hi + 1 - i /\ i - 1 \in 1 .. num_packets
      BY <1>1, <1>4, <2>1 DEF Places
    <2>3. w[i - 1] = s[k] /\ w[i] = s[k - 1]
      BY <1>2, <2>1, <2>2
    <2>4. heap[s[k]].prev = s[k - 1]
      BY <2>2 DEF List, Before
    <2> QED
      BY ONLY <2>3, <2>4
  <1>5. w = [i \in 1 .. num_packets |-> w[i]]
    BY <1>2
  <1>6. \A i \in 1 .. num_packets : i > 1 => w[i] = heap[w[i - 1]].prev
    BY <1>4
  <1>7. Walk(w, num_packets, tail, heap, "prev")
    BY ONLY <1>3, <1>5, <1>6 DEF Walk
  <1>8. FromTail = w
    BY ONLY <1>1, <1>7, TailWalk
  <1> QED
    BY <1>2, <1>8

\* A list is well linked.
LEMMA LinkWell == LinkInv => WellLinked
  <1> SUFFICES ASSUME LinkInv PROVE WellLinked
    OBVIOUS
  <1>1. PICK s, b, lo, hi :
          List(s, lo, hi, heap, head, tail) /\ num_packets = hi - lo
    BY DEF LinkInv
  <1>2. /\ lo \in Int /\ hi \in Int /\ num_packets \in Nat
        /\ \A i \in 1 .. num_packets :
              /\ lo + i \in Places(lo, hi)
              /\ num_packets + 1 - i \in 1 .. num_packets
              /\ hi + 1 - i = lo + (num_packets + 1 - i)
        /\ \A k \in Places(lo, hi) : k - lo \in 1 .. num_packets /\ k = lo + (k - lo)
    BY <1>1 DEF List, Places
  <1>3. FromHead = [i \in 1 .. num_packets |-> s[lo + i]]
    BY <1>1, HeadPlaces
  <1>4. FromTail = [i \in 1 .. num_packets |-> s[hi + 1 - i]]
    BY <1>1, TailPlaces
  <1>5. \A i \in 1 .. num_packets :
          FromHead[i] = s[lo + i] /\ FromTail[i] = FromHead[num_packets + 1 - i]
    BY <1>2, <1>3, <1>4
  <1>6. ASSUME num_packets = 0
        PROVE  head = NULL /\ tail = NULL /\ DOMAIN heap = {}
    <2>1. lo = hi /\ Places(lo, hi) = {}
      BY <1>1, <1>2, <1>6 DEF Places
    <2> QED
      BY <1>1, <2>1 DEF List
  <1>7. {FromHead[i] : i \in 1 .. num_packets} = DOMAIN heap
    <2>1. ASSUME NEW a \in DOMAIN heap
          PROVE  \E i \in 1 .. num_packets : a = FromHead[i]
      <3>1. PICK k \in Places(lo, hi) : a = s[k]
        BY <1>1 DEF List
      <3> QED
        BY <1>2, <1>5, <3>1
    <2>2. \A i \in 1 .. num_packets : FromHead[i] \in DOMAIN heap
      <3>1. \A k \in Places(lo, hi) : s[k] \in DOMAIN heap
        BY <1>1 DEF List
      <3> QED
        BY ONLY <1>2, <1>5, <3>1
    <2>3. PICK N, D : N = 1 .. num_packets /\ D = DOMAIN heap
      OBVIOUS
    <2>4. (\A a \in D : \E i \in N : a = FromHead[i]) /\ \A i \in N : FromHead[i] \in D
      BY ONLY <2>1, <2>2, <2>3
    <2>5. {FromHead[i] : i \in N} = D
      BY ONLY <2>4
    <2> QED
      BY ONLY <2>3, <2>5
  <1>8. \A i, j \in 1 .. num_packets : i # j => FromHead[i] # FromHead[j]
    <2> TAKE i, j \in 1 .. num_packets
    <2>1. i # j => lo + i # lo + j
      BY <1>2
    <2> QED
      BY <1>1, <1>2, <1>5, <2>1 DEF List
  <1>9. ASSUME num_packets > 0
        PROVE  heap[tail].next = NULL /\ heap[head].prev = NULL
    <2>1. lo # hi /\ hi \in Places(lo, hi) /\ lo + 1 \in Places(lo, hi)
      BY <1>1, <1>2, <1>9 DEF Places
    <2> QED
      BY <1>1, <2>1 DEF List, After, Before
  <1> QED
    BY <1>5, <1>6, <1>7, <1>8, <1>9 DEF WellLinked

(***************************************************************************)
(* After any sequence of forward and reverse calls the queue is a doubly   *)
(* linked list: no node is leaked, lost or linked in one direction only,   *)
(* and the counters agree with the nodes.                                  *)
(***************************************************************************)
THEOREM QueueWellLinked == Spec => [](TypeOK /\ WellLinked)
  <1>1. LinkInv => TypeOK /\ WellLinked
    BY LinkType, LinkWell
  <1> QED
    BY <1>1, QueueIsList, PTL

\* The packets of a list are a sequence.
LEMMA DataFacts ==
  ASSUME NEW s, NEW lo, NEW hi, NEW h, NEW hd, NEW tl, List(s, lo, hi, h, hd, tl)
  PROVE  /\ Data(s, lo, hi, h) \in Seq(Packets)
         /\ Len(Data(s, lo, hi, h)) = hi - lo
         /\ \A i \in 1 .. hi - lo : Data(s, lo, hi, h)[i] = h[s[lo + i]].data
  <1>1. /\ lo \in Int /\ hi \in Int /\ hi - lo \in Nat
        /\ \A i \in 1 .. hi - lo : lo + i \in Places(lo, hi)
    BY DEF List, Places
  <1>2. \A i \in 1 .. hi - lo : h[s[lo + i]].data \in Packets
    BY <1>1 DEF List, IsNode
  <1> QED
    BY <1>1, <1>2 DEF Data

\* The packets, when one comes at the tail.
LEMMA DataAppend ==
  ASSUME NEW s, NEW lo, NEW hi, NEW h, NEW hd, NEW tl, List(s, lo, hi, h, hd, tl),
         NEW s2, NEW h2, NEW hd2, NEW tl2, List(s2, lo, hi + 1, h2, hd2, tl2), NEW p \in Packets,
         h2[s2[hi + 1]].data = p,
         \A i \in Places(lo, hi) : h2[s2[i]].data = h[s[i]].data
  PROVE  Data(s2, lo, hi + 1, h2) = Append(Data(s, lo, hi, h), p)
  <1>1. PICK w, w2 : w = Data(s, lo, hi, h) /\ w2 = Data(s2, lo, hi + 1, h2)
    OBVIOUS
  <1>2. /\ w \in Seq(Packets) /\ Len(w) = hi - lo
        /\ \A i \in 1 .. hi - lo : w[i] = h[s[lo + i]].data
    BY <1>1, DataFacts
  <1>3. /\ w2 \in Seq(Packets) /\ Len(w2) = (hi + 1) - lo
        /\ \A i \in 1 .. (hi + 1) - lo : w2[i] = h2[s2[lo + i]].data
    BY <1>1, DataFacts
  <1>4. /\ lo \in Int /\ hi \in Int /\ hi - lo \in Nat /\ (hi + 1) - lo = (hi - lo) + 1
        /\ \A i \in 1 .. hi - lo : lo + i \in Places(lo, hi)
        /\ lo + ((hi - lo) + 1) = hi + 1
    BY DEF List, Places
  <1>5. ASSUME NEW i \in 1 .. hi - lo PROVE w2[i] = w[i]
    <2>1. lo + i \in Places(lo, hi) /\ i \in 1 .. (hi + 1) - lo
      BY <1>4
    <2>2. w2[i] = h2[s2[lo + i]].data /\ w[i] = h[s[lo + i]].data
      BY <1>2, <1>3, <2>1
    <2> QED
      BY <2>1, <2>2
  <1>6. w2[(hi - lo) + 1] = p
    BY <1>3, <1>4
  <1>7. w2 = Append(w, p)
    <2>1. PICK n \in Nat : n = hi - lo
      BY <1>4
    <2>2. Len(w) = n /\ Len(w2) = n + 1 /\ w2[n + 1] = p /\ \A i \in 1 .. n : w2[i] = w[i]
      BY <1>2, <1>3, <1>4, <1>5, <1>6, <2>1
    <2>3. /\ Append(w, p) \in Seq(Packets) /\ Len(Append(w, p)) = n + 1
          /\ Append(w, p)[n + 1] = p
          /\ \A i \in 1 .. n : Append(w, p)[i] = w[i]
      BY <1>2, <2>2, AppendProperties
    <2>4. \A i \in 1 .. n + 1 : w2[i] = Append(w, p)[i]
      <3> TAKE i \in 1 .. n + 1
      <3>1. i = n + 1 \/ i \in 1 .. n
        OBVIOUS
      <3> QED
        BY <2>2, <2>3, <3>1
    <2> QED
      BY ONLY <1>3, <2>2, <2>3, <2>4, SeqEqual
  <1> QED
    BY <1>1, <1>7

\* The packets, when the last one is undone.
LEMMA DataFront ==
  ASSUME NEW s, NEW lo, NEW hi, NEW h, NEW hd, NEW tl, List(s, lo, hi, h, hd, tl),
         NEW h2, NEW hd2, NEW tl2, List(s, lo, hi - 1, h2, hd2, tl2), lo # hi,
         \A i \in Places(lo, hi - 1) : h2[s[i]].data = h[s[i]].data
  PROVE  LET w == Data(s, lo, hi, h)
         IN  Data(s, lo, hi - 1, h2) = SubSeq(w, 1, Len(w) - 1)
  <1>1. PICK w, w2 : w = Data(s, lo, hi, h) /\ w2 = Data(s, lo, hi - 1, h2)
    OBVIOUS
  <1>2. /\ w \in Seq(Packets) /\ Len(w) = hi - lo
        /\ \A i \in 1 .. hi - lo : w[i] = h[s[lo + i]].data
    BY <1>1, DataFacts
  <1>3. /\ w2 \in Seq(Packets) /\ Len(w2) = (hi - 1) - lo
        /\ \A i \in 1 .. (hi - 1) - lo : w2[i] = h2[s[lo + i]].data
    BY <1>1, DataFacts
  <1>4. /\ lo \in Int /\ hi \in Int /\ (hi - 1) - lo \in Nat /\ (hi - 1) - lo = (hi - lo) - 1
        /\ \A i \in 1 .. (hi - 1) - lo : lo + i \in Places(lo, hi - 1) /\ i \in 1 .. hi - lo
    BY DEF List, Places
  <1>5. \A i \in 1 .. (hi - 1) - lo : w2[i] = w[i]
    BY <1>2, <1>3, <1>4
  <1>6. PICK n \in Nat : n = (hi - 1) - lo
    BY <1>4
  <1>7. Len(w) = n + 1 /\ Len(w) - 1 = n /\ Len(w2) = n /\ \A i \in 1 .. n : w2[i] = w[i]
    BY <1>2, <1>3, <1>4, <1>5, <1>6
  <1>8. \A i \in 1 .. n : w[i] \in Packets
    BY <1>2, <1>7, ElementOfSeq
  <1>9. /\ SubSeq(w, 1, n) \in Seq(Packets) /\ Len(SubSeq(w, 1, n)) = n
        /\ \A i \in 1 .. n : SubSeq(w, 1, n)[i] = w[i]
    BY <1>8, SubSeqProperties
  <1>10. w2 = SubSeq(w, 1, n)
    BY ONLY <1>3, <1>7, <1>9, SeqEqual
  <1> QED
    BY ONLY <1>1, <1>7, <1>10

\* The packets, when the first one is taken.
LEMMA DataTail ==
  ASSUME NEW s, NEW lo, NEW hi, NEW h, NEW hd, NEW tl, List(s, lo, hi, h, hd, tl),
         NEW h2, NEW hd2, NEW tl2, List(s, lo + 1, hi, h2, hd2, tl2), lo # hi,
         \A i \in Places(lo + 1, hi) : h2[s[i]].data = h[s[i]].data
  PROVE  /\ Data(s, lo + 1, hi, h2) = Tail(Data(s, lo, hi, h))
         /\ Head(Data(s, lo, hi, h)) = h[hd].data
  <1>1. PICK w, w2 : w = Data(s, lo, hi, h) /\ w2 = Data(s, lo + 1, hi, h2)
    OBVIOUS
  <1>2. /\ w \in Seq(Packets) /\ Len(w) = hi - lo
        /\ \A i \in 1 .. hi - lo : w[i] = h[s[lo + i]].data
    BY <1>1, DataFacts
  <1>3. /\ w2 \in Seq(Packets) /\ Len(w2) = hi - (lo + 1)
        /\ \A i \in 1 .. hi - (lo + 1) : w2[i] = h2[s[(lo + 1) + i]].data
    BY <1>1, DataFacts
  <1>4. /\ lo \in Int /\ hi \in Int /\ hi - (lo + 1) \in Nat /\ hi - lo = (hi - (lo + 1)) + 1
        /\ \A i \in 1 .. hi - (lo + 1) :
              /\ (lo + 1) + i \in Places(lo + 1, hi) /\ i + 1 \in 1 .. hi - lo
              /\ (lo + 1) + i = lo + (i + 1)
    BY DEF List, Places
  <1>5. \A i \in 1 .. hi - (lo + 1) : w2[i] = w[i + 1]
    <2> TAKE i \in 1 .. hi - (lo + 1)
    <2>1. w2[i] = h2[s[lo + (i + 1)]].data /\ lo + (i + 1) \in Places(lo + 1, hi)
      BY ONLY <1>3, <1>4
    <2>2. h2[s[lo + (i + 1)]].data = h[s[lo + (i + 1)]].data
      BY <2>1
    <2>3. w[i + 1] = h[s[lo + (i + 1)]].data
      BY ONLY <1>2, <1>4
    <2> QED
      BY ONLY <2>1, <2>2, <2>3
  <1>6. PICK n \in Nat : n = hi - (lo + 1)
    BY <1>4
  <1>7. Len(w) = n + 1 /\ Len(w2) = n /\ \A i \in 1 .. n : w2[i] = w[i + 1]
    BY <1>2, <1>3, <1>4, <1>5, <1>6
  <1>8. w # <<>> /\ n = Len(w) - 1
    BY <1>2, <1>7, EmptySeq
  <1>9. /\ Tail(w) \in Seq(Packets) /\ Len(Tail(w)) = n
        /\ \A i \in 1 .. n : Tail(w)[i] = w[i + 1]
    BY <1>2, <1>7, <1>8, HeadTailProperties
  <1>10. w2 = Tail(w)
    BY ONLY <1>3, <1>7, <1>9, SeqEqual
  <1>11. Head(w) = w[1] /\ 1 \in 1 .. hi - lo
    BY <1>2, <1>4, <1>8
  <1>12. w[1] = h[s[lo + 1]].data /\ hd = s[lo + 1]
    BY <1>2, <1>11 DEF List
  <1> QED
    BY ONLY <1>1, <1>10, <1>11, <1>12

\* The packets, when one is put back at the head.
LEMMA DataPrepend ==
  ASSUME NEW s, NEW lo, NEW hi, NEW h, NEW hd, NEW tl, List(s, lo, hi, h, hd, tl),
         NEW s2, NEW h2, NEW hd2, NEW tl2, List(s2, lo - 1, hi, h2, hd2, tl2), NEW p \in Packets,
         h2[s2[lo]].data = p,
         \A i \in Places(lo, hi) : h2[s2[i]].data = h[s[i]].data
  PROVE  Data(s2, lo - 1, hi, h2) = <<p>> \o Data(s, lo, hi, h)
  <1>1. PICK w, w2 : w = Data(s, lo, hi, h) /\ w2 = Data(s2, lo - 1, hi, h2)
    OBVIOUS
  <1>2. /\ w \in Seq(Packets) /\ Len(w) = hi - lo
        /\ \A i \in 1 .. hi - lo : w[i] = h[s[lo + i]].data
    BY <1>1, DataFacts
  <1>3. /\ w2 \in Seq(Packets) /\ Len(w2) = hi - (lo - 1)
        /\ \A i \in 1 .. hi - (lo - 1) : w2[i] = h2[s2[(lo - 1) + i]].data
    BY <1>1, DataFacts
  <1>4. /\ lo \in Int /\ hi \in Int /\ hi - lo \in Nat /\ hi - (lo - 1) = 1 + (hi - lo)
        /\ (lo - 1) + 1 = lo /\ 1 \in 1 .. hi - (lo - 1)
        /\ \A i \in 1 .. hi - (lo - 1) : i # 1 =>
              /\ i - 1 \in 1 .. hi - lo /\ lo + (i - 1) \in Places(lo, hi)
              /\ (lo - 1) + i = lo + (i - 1)
    <2>1. lo \in Int /\ hi \in Int /\ lo <= hi
      BY DEF List
    <2> QED
      BY ONLY <2>1 DEF Places
  <1>5. w2[1] = p
    <2>1. w2[1] = h2[s2[(lo - 1) + 1]].data
      BY <1>3, <1>4
    <2> QED
      BY <1>4, <2>1
  <1>6. \A i \in 1 .. hi - (lo - 1) : i # 1 => w2[i] = w[i - 1]
    BY <1>2, <1>3, <1>4
  <1>7. PICK n \in Nat : n = hi - lo
    BY <1>4
  <1>8. Len(w) = n /\ Len(w2) = 1 + n /\ w2[1] = p /\ \A i \in 1 .. 1 + n : i # 1 => w2[i] = w[i - 1]
    BY <1>2, <1>3, <1>4, <1>5, <1>6, <1>7
  <1>9. <<p>> \in Seq(Packets) /\ Len(<<p>>) = 1 /\ <<p>>[1] = p
    OBVIOUS
  <1>10. /\ <<p>> \o w \in Seq(Packets) /\ Len(<<p>> \o w) = 1 + n
         /\ \A i \in 1 .. 1 + n : (<<p>> \o w)[i] = IF i <= 1 THEN <<p>>[i] ELSE w[i - 1]
    BY <1>2, <1>8, <1>9, ConcatProperties
  <1>11. \A i \in 1 .. 1 + n : w2[i] = (<<p>> \o w)[i]
    <2> TAKE i \in 1 .. 1 + n
    <2>1. CASE i = 1
      BY <1>8, <1>9, <1>10, <2>1
    <2>2. CASE i # 1
      <3>1. ~ (i <= 1)
        BY <2>2
      <3> QED
        BY <1>8, <1>10, <2>2, <3>1
    <2> QED
      BY <2>1, <2>2
  <1>12. w2 = <<p>> \o w
    BY ONLY <1>3, <1>8, <1>10, <1>11, SeqEqual
  <1> QED
    BY ONLY <1>1, <1>12

\* The refinement mapping: the packets the walk from the head passes.
LEMMA Waiting ==
  ASSUME NEW s, NEW lo, NEW hi, List(s, lo, hi, heap, head, tail), num_packets = hi - lo
  PROVE  [i \in 1 .. num_packets |-> heap[FromHead[i]].data] = Data(s, lo, hi, heap)
  <1>1. \A i \in 1 .. num_packets : FromHead[i] = s[lo + i]
    BY HeadPlaces
  <1> QED
    BY <1>1 DEF Data

\* The refinement mapping in the new state.
LEMMA WaitingNext ==
  ASSUME NEW s, NEW lo, NEW hi, List(s, lo, hi, heap', head', tail'), num_packets' = hi - lo
  PROVE  [i \in 1 .. num_packets' |-> heap'[FromHead'[i]].data] = Data(s, lo, hi, heap')
  <1>1. /\ lo \in Int /\ hi \in Int /\ num_packets' \in Nat
        /\ \A i \in 1 .. num_packets' : lo + i \in Places(lo, hi)
    BY DEF List, Places
  <1>2. PICK w : w = [i \in 1 .. num_packets' |-> s[lo + i]]
    OBVIOUS
  <1>3. num_packets' > 0 => w[1] = head'
    BY <1>1, <1>2 DEF List
  <1>4. ASSUME NEW i \in 1 .. num_packets', i > 1
        PROVE  w[i] = heap'[w[i - 1]].next
    <2>1. PICK k : k = lo + (i - 1)
      OBVIOUS
    <2>2. k \in Places(lo, hi) /\ k # hi /\ k + 1 = lo + i /\ i - 1 \in 1 .. num_packets'
      BY <1>1, <1>4, <2>1 DEF Places
    <2>3. w[i - 1] = s[k] /\ w[i] = s[k + 1]
      BY <1>2, <2>1, <2>2
    <2>4. heap'[s[k]].next = s[k + 1]
      BY <2>2 DEF List, After
    <2> QED
      BY ONLY <2>3, <2>4
  <1>5. w = [i \in 1 .. num_packets' |-> w[i]]
    BY <1>2
  <1>6. \A i \in 1 .. num_packets' : i > 1 => w[i] = heap'[w[i - 1]].next
    BY <1>4
  <1>7. Walk(w, num_packets', head', heap', "next")
    BY ONLY <1>3, <1>5, <1>6 DEF Walk
  <1>8. w = [i \in 1 .. num_packets' |-> IF i = 1 THEN head' ELSE heap'[w[i - 1]]["next"]]
    BY <1>1, <1>7, WalkEquation
  <1>9. FromHead' = [i \in 1 .. num_packets' |-> IF i = 1 THEN head' ELSE heap'[FromHead'[i - 1]]["next"]]
    BY <1>8 DEF FromHead
  <1>10. Walk(FromHead', num_packets', head', heap', "next")
    BY <1>1, <1>9, WalkEquation
  <1>11. FromHead' = w
    BY <1>1, <1>7, <1>10, OneWalk
  <1> QED
    BY <1>2, <1>11 DEF Data

\* Every call on the list is the call of the same name on the queue.
LEMMA CallRefines ==
  ASSUME LinkInv, [Next]_vars
  PROVE  [Queue!QNext]_(Queue!qvars)
  <1>1. PICK s, b, lo, hi :
          /\ List(s, lo, hi, heap, head, tail)
          /\ Weighed(s, b, lo, hi, heap, size_in_bytes)
          /\ num_packets = hi - lo
    BY DEF LinkInv
  <1>2. lo \in Int /\ hi \in Int /\ lo <= hi
    BY <1>1 DEF List
  <1> DEFINE waiting == [i \in 1 .. num_packets |-> heap[FromHead[i]].data]
  <1>3. PICK w : w = waiting /\ w = Data(s, lo, hi, heap)
    BY <1>1, Waiting
  <1>4. w \in Seq(Packets) /\ Len(w) = num_packets
    BY <1>1, <1>3, DataFacts
  <1>5. List(s, lo, hi, heap, head, tail) /\ w = Data(s, lo, hi, heap)
    BY <1>1, <1>3
  <1>6. ASSUME NEW p \in Packets, NEW new \in Addresses, Put(p, new)
        PROVE  Queue!QPut(p)
    <2>1. PICK s2 : s2 = [i \in Places(lo, hi + 1) |-> IF i = hi + 1 THEN new ELSE s[i]]
      OBVIOUS
    <2>2. PICK b2 : b2 = [i \in lo .. hi + 1 |-> IF i = hi + 1 THEN b[hi] + SizeOf[p] ELSE b[i]]
      OBVIOUS
    <2>3. /\ List(s2, lo, hi + 1, heap', head', tail')
          /\ heap'[new].data = p
          /\ \A i \in Places(lo, hi) : heap'[s2[i]].data = heap[s[i]].data
      BY <1>1, <1>6, <2>1, <2>2, PutKeepsList
    <2>4. num_packets' = (hi + 1) - lo /\ s2[hi + 1] = new
      BY <1>1, <1>2, <1>6, <2>1 DEF Put, Places
    <2>5. waiting' = Data(s2, lo, hi + 1, heap')
      BY <2>3, <2>4, WaitingNext
    <2>6. heap'[s2[hi + 1]].data = p
      BY <2>3, <2>4
    <2>7. Data(s2, lo, hi + 1, heap') = Append(w, p)
      <3>1. Data(s2, lo, hi + 1, heap') = Append(Data(s, lo, hi, heap), p)
        BY ONLY <1>5, <1>6, <2>3, <2>6, DataAppend
      <3> QED
        BY ONLY <1>5, <3>1
    <2>8. waiting' = Append(waiting, p)
      BY <1>3, <2>5, <2>7
    <2> QED
      BY <1>6, <2>8 DEF Queue!QPut, Queue!Fits, Put, Room
  <1>7. ASSUME NEW p \in Packets, NEW new \in Addresses, TakeReverse(p, new)
        PROVE  Queue!QTakeReverse(p)
    <2>1. PICK s2 : s2 = [i \in Places(lo - 1, hi) |-> IF i = lo THEN new ELSE s[i]]
      OBVIOUS
    <2>2. PICK b2 : b2 = [i \in lo - 1 .. hi |-> IF i = lo - 1 THEN b[lo] - SizeOf[p] ELSE b[i]]
      OBVIOUS
    <2>3. /\ List(s2, lo - 1, hi, heap', head', tail')
          /\ heap'[new].data = p
          /\ \A i \in Places(lo, hi) : heap'[s2[i]].data = heap[s[i]].data
      BY <1>1, <1>7, <2>1, <2>2, TakeReverseKeepsList
    <2>4. num_packets' = hi - (lo - 1) /\ s2[lo] = new
      BY <1>1, <1>2, <1>7, <2>1 DEF TakeReverse, Places
    <2>5. waiting' = Data(s2, lo - 1, hi, heap')
      BY <2>3, <2>4, WaitingNext
    <2>6. heap'[s2[lo]].data = p
      BY <2>3, <2>4
    <2>7. Data(s2, lo - 1, hi, heap') = <<p>> \o w
      <3>1. Data(s2, lo - 1, hi, heap') = <<p>> \o Data(s, lo, hi, heap)
        BY ONLY <1>5, <1>7, <2>3, <2>6, DataPrepend
      <3> QED
        BY ONLY <1>5, <3>1
    <2>8. waiting' = <<p>> \o waiting
      BY <1>3, <2>5, <2>7
    <2> QED
      BY <1>7, <2>8 DEF Queue!QTakeReverse, Queue!Fits, TakeReverse, Room
  <1>8. ASSUME PutReverse PROVE Queue!QPutReverse
    <2>1. lo # hi /\ num_packets' = (hi - 1) - lo
      BY <1>1, <1>2, <1>8 DEF PutReverse
    <2>2. /\ List(s, lo, hi - 1, heap', head', tail')
          /\ \A i \in Places(lo, hi - 1) : heap'[s[i]].data = heap[s[i]].data
      BY <1>1, <1>8, <2>1, PutReverseKeepsList
    <2>3. waiting' = Data(s, lo, hi - 1, heap')
      BY <2>1, <2>2, WaitingNext
    <2>4. Data(s, lo, hi - 1, heap') = SubSeq(w, 1, Len(w) - 1)
      <3>1. Data(s, lo, hi - 1, heap')
              = SubSeq(Data(s, lo, hi, heap), 1, Len(Data(s, lo, hi, heap)) - 1)
        BY ONLY <1>5, <2>1, <2>2, DataFront
      <3> QED
        BY ONLY <1>5, <3>1
    <2>5. waiting' = SubSeq(waiting, 1, Len(waiting) - 1)
      BY <1>3, <2>3, <2>4
    <2>6. waiting # <<>> /\ waiting[Len(waiting)] = heap[tail].data
      <3>1. w # <<>> /\ Len(w) = hi - lo /\ hi - lo \in 1 .. hi - lo /\ lo + (hi - lo) = hi
        BY <1>1, <1>2, <1>4, <2>1
      <3>2. w[hi - lo] = heap[s[lo + (hi - lo)]].data
        BY <1>1, <1>3, <3>1, DataFacts
      <3>3. tail = s[hi]
        BY <1>1, <2>1 DEF List
      <3> QED
        BY <1>3, <3>1, <3>2, <3>3
    <2> QED
      BY <1>8, <2>5, <2>6 DEF Queue!QPutReverse, PutReverse
  <1>9. ASSUME Take PROVE Queue!QTake
    <2>1. lo # hi /\ num_packets' = hi - (lo + 1)
      BY <1>1, <1>2, <1>9 DEF Take
    <2>2. /\ List(s, lo + 1, hi, heap', head', tail')
          /\ \A i \in Places(lo + 1, hi) : heap'[s[i]].data = heap[s[i]].data
      BY <1>1, <1>9, <2>1, TakeKeepsList
    <2>3. waiting' = Data(s, lo + 1, hi, heap')
      BY <2>1, <2>2, WaitingNext
    <2>4. Data(s, lo + 1, hi, heap') = Tail(w) /\ Head(w) = heap[head].data
      <3>1. /\ Data(s, lo + 1, hi, heap') = Tail(Data(s, lo, hi, heap))
            /\ Head(Data(s, lo, hi, heap)) = heap[head].data
        BY ONLY <1>5, <2>1, <2>2, DataTail
      <3> QED
        BY ONLY <1>5, <3>1
    <2>5. waiting' = Tail(waiting) /\ Head(waiting) = heap[head].data
      BY <1>3, <2>3, <2>4
    <2>6. waiting # <<>>
      <3>1. w # <<>>
        BY <1>1, <1>2, <1>4, <2>1
      <3> QED
        BY <1>3, <3>1
    <2> QED
      BY <1>9, <2>5, <2>6 DEF Queue!QTake, Take
  <1>10. CASE UNCHANGED vars
    <2>1. num_packets' = num_packets /\ heap' = heap /\ head' = head /\ tail' = tail
      BY <1>10 DEF vars
    <2>2. waiting' = Data(s, lo, hi, heap')
      BY <1>1, <2>1, WaitingNext
    <2>3. waiting' = waiting
      BY <1>3, <2>1, <2>2
    <2> QED
      BY <1>10, <2>3 DEF vars, Queue!qvars
  <1> QED
    BY <1>6, <1>7, <1>8, <1>9, <1>10 DEF Next, Queue!QNext

\* The queue of queue_init is the empty queue.
LEMMA InitRefines == Init => Queue!QInit
  <1> SUFFICES ASSUME Init PROVE Queue!QInit
    OBVIOUS
  <1>1. [i \in 1 .. num_packets |-> heap[FromHead[i]].data] = <<>>
    BY DEF Init
  <1> QED
    BY <1>1 DEF Init, Queue!QInit

(***************************************************************************)
(* The linked list of queue_fifo.c implements the bounded first-in-        *)
(* first-out queue that the models of the switch use, with the undo of     *)
(* each operation, what is returned and how many bytes there are.          *)
(***************************************************************************)
THEOREM QueueImplementsFifo == Spec => ImplementsFifo
  <1> QED
    BY QueueIsList, InitRefines, CallRefines, PTL DEF Spec, ImplementsFifo, Queue!QSpec
=============================================================================
