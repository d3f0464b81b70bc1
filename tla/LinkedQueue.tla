----------------------------- MODULE LinkedQueue -----------------------------
(***************************************************************************)
(* model/qos/queue_fifo.c: a queue of the switch as a doubly linked list   *)
(* of nodes on the heap.  Packets enter at the tail (queue_put) and leave  *)
(* at the head (queue_take); a rollback removes the last packet from the   *)
(* tail (queue_put_reverse) and puts a packet back at the head             *)
(* (queue_take_reverse).  A node lives from malloc to free; the node that  *)
(* queue_take returns is freed by its caller in the same event handler.    *)
(***************************************************************************)
EXTENDS Integers, Sequences

CONSTANTS
  Packets, SizeOf, MaxBytes,   \* as in Fifo
  Addresses,                   \* what malloc may return
  NULL

ASSUME QueueAssumption ==
  /\ SizeOf \in [Packets -> Nat \ {0}]
  /\ MaxBytes \in Nat
  /\ NULL \notin Addresses

VARIABLES
  num_packets, size_in_bytes,
  head, tail,
  heap,       \* the live nodes: [DOMAIN heap -> Node]
  call        \* history: the last call, with the packet it was given or returned

vars == <<num_packets, size_in_bytes, head, tail, heap, call>>

Node == [data : Packets, next : Addresses \cup {NULL}, prev : Addresses \cup {NULL}]

\* The heap after malloc(a), and after free(a).
With(h, a, n)  == [b \in DOMAIN h \cup {a} |-> IF b = a THEN n ELSE h[b]]
Without(h, a)  == [b \in DOMAIN h \ {a} |-> h[b]]

\* queue_init
Init ==
  /\ num_packets = 0 /\ size_in_bytes = 0
  /\ head = NULL /\ tail = NULL
  /\ heap = <<>>
  /\ call = <<"init">>

\* Fault: packets are put into a full queue.
RoomUnchecked(p) == TRUE

\* The assertion at the top of queue_append_to_tail and queue_append_to_head,
\* which handle_arrive_event makes sure of before it puts a packet.
Room(p) == size_in_bytes + SizeOf[p] <= MaxBytes

\* queue_append_to_tail
Put(p, new) ==
  /\ Room(p)
  /\ new \notin DOMAIN heap
  /\ IF head = NULL
     THEN /\ head' = new
          /\ heap' = With(heap, new, [data |-> p, next |-> NULL, prev |-> NULL])
     ELSE /\ UNCHANGED head
          /\ heap' = With([heap EXCEPT ![tail].next = new], new,
                          [data |-> p, next |-> NULL, prev |-> tail])
  /\ tail' = new
  /\ num_packets' = num_packets + 1
  /\ size_in_bytes' = size_in_bytes + SizeOf[p]
  /\ call' = <<"put", p>>

\* queue_return_from_tail, then free
PutReverse ==
  /\ num_packets > 0
  /\ tail' = heap[tail].prev
  /\ IF tail' # NULL
     THEN /\ heap' = Without([heap EXCEPT ![tail'].next = NULL], tail)
          /\ UNCHANGED head
     ELSE /\ heap' = Without(heap, tail)
          /\ head' = NULL
  /\ num_packets' = num_packets - 1
  /\ size_in_bytes' = size_in_bytes - SizeOf[heap[tail].data]
  /\ call' = <<"put_reverse">>

\* Fault: the new head still points back to the node that has been freed.
TakeKeepsPrev ==
  /\ num_packets > 0
  /\ head' = heap[head].next
  /\ heap' = Without(heap, head)
  /\ tail' = IF head' = NULL THEN NULL ELSE tail
  /\ num_packets' = num_packets - 1
  /\ size_in_bytes' = size_in_bytes - SizeOf[heap[head].data]
  /\ call' = <<"take", heap[head].data>>

\* queue_return_from_head, then the caller's free
Take ==
  /\ num_packets > 0
  /\ head' = heap[head].next
  /\ IF head' # NULL
     THEN /\ heap' = Without([heap EXCEPT ![head'].prev = NULL], head)
          /\ UNCHANGED tail
     ELSE /\ heap' = Without(heap, head)
          /\ tail' = NULL
  /\ num_packets' = num_packets - 1
  /\ size_in_bytes' = size_in_bytes - SizeOf[heap[head].data]
  /\ call' = <<"take", heap[head].data>>

\* Fault: a packet that was taken is put back at the wrong end.
TakeReverseAtTail(p, new) ==
  /\ Room(p)
  /\ new \notin DOMAIN heap
  /\ IF head = NULL
     THEN /\ head' = new
          /\ heap' = With(heap, new, [data |-> p, next |-> NULL, prev |-> NULL])
     ELSE /\ UNCHANGED head
          /\ heap' = With([heap EXCEPT ![tail].next = new], new,
                          [data |-> p, next |-> NULL, prev |-> tail])
  /\ tail' = new
  /\ num_packets' = num_packets + 1
  /\ size_in_bytes' = size_in_bytes + SizeOf[p]
  /\ call' = <<"take_reverse", p>>

\* queue_append_to_head
TakeReverse(p, new) ==
  /\ Room(p)
  /\ new \notin DOMAIN heap
  /\ LET front == [data |-> p, next |-> head, prev |-> NULL]
     IN  IF head # NULL
         THEN /\ heap' = With([heap EXCEPT ![head].prev = new], new, front)
              /\ UNCHANGED tail
         ELSE /\ heap' = With(heap, new, front)
              /\ tail' = new
  /\ head' = new
  /\ num_packets' = num_packets + 1
  /\ size_in_bytes' = size_in_bytes + SizeOf[p]
  /\ call' = <<"take_reverse", p>>

Next ==
  \/ \E p \in Packets, new \in Addresses : Put(p, new) \/ TakeReverse(p, new)
  \/ PutReverse
  \/ Take

Spec == Init /\ [][Next]_vars
-----------------------------------------------------------------------------
TypeOK ==
  /\ num_packets \in Nat
  /\ size_in_bytes \in 0 .. MaxBytes
  /\ {head, tail} \subseteq Addresses \cup {NULL}
  /\ DOMAIN heap \subseteq Addresses
  /\ heap \in [DOMAIN heap -> Node]

\* The i-th node from the head along next, and from the tail along prev.
FromHead[i \in 1 .. num_packets] ==
  IF i = 1 THEN head ELSE heap[FromHead[i - 1]].next
FromTail[i \in 1 .. num_packets] ==
  IF i = 1 THEN tail ELSE heap[FromTail[i - 1]].prev

(***************************************************************************)
(* The list is well linked after every sequence of forward and reverse     *)
(* calls: the walk along next visits every live node once and ends at the  *)
(* tail, the walk along prev is the same walk backwards, and the counter   *)
(* num_packets agrees with it.  A dangling pointer, a leaked node or a     *)
(* pointer that one of the four functions forgets to reset breaks it.      *)
(***************************************************************************)
WellLinked ==
  LET n == num_packets
  IN  /\ n = 0 => head = NULL /\ tail = NULL /\ DOMAIN heap = {}
      /\ n > 0 =>
           /\ {FromHead[i] : i \in 1 .. n} = DOMAIN heap
           /\ \A i \in 1 .. n : FromTail[i] = FromHead[n + 1 - i]
           /\ \A i, j \in 1 .. n : i # j => FromHead[i] # FromHead[j]
           /\ heap[tail].next = NULL /\ heap[head].prev = NULL

(***************************************************************************)
(* The linked list implements the bounded queue, undo operations included: *)
(* every function does to the list, and returns, what the operation of its *)
(* name does to the queue.                                                 *)
(***************************************************************************)
Queue == INSTANCE Fifo WITH
  waiting <- [i \in 1 .. num_packets |-> heap[FromHead[i]].data],
  load    <- size_in_bytes

ImplementsFifo == Queue!QSpec
=============================================================================
