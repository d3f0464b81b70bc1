--------------------------- MODULE StrictPriority ---------------------------
(***************************************************************************)
(* The scheduler of a port, model/qos/scheduler/strict_priority.c, as      *)
(* operators on the queues of the switch.  The switch keeps one array of   *)
(* queues; a port owns NUM_QOS_LEVEL consecutive ones, and the first of    *)
(* them that holds a packet is served.  Priority 0 is the highest.         *)
(***************************************************************************)
EXTENDS Integers, Sequences, FiniteSetsExt

\* size_in_bytes of a queue
Bytes(queue) == MapThenSumSet(LAMBDA i : queue[i].size, DOMAIN queue)

NUM_QOS_LEVEL == 3
Levels == 0 .. NUM_QOS_LEVEL - 1

\* Index of a port's queue and meter for packets of this type.
MeterIndex(port, type) == port * NUM_QOS_LEVEL + type

\* Some queue of the port holds a packet.
Backlogged(queues, port) ==
  \E level \in Levels : queues[MeterIndex(port, level)] # <<>>

\* The priority that the loops of sp_update and sp_has_next stop at.
NextLevel(queues, port) ==
  CHOOSE level \in Levels :
    /\ queues[MeterIndex(port, level)] # <<>>
    /\ \A higher \in Levels :
         queues[MeterIndex(port, higher)] # <<>> => level <= higher

NextPacket(queues, port) == Head(queues[MeterIndex(port, NextLevel(queues, port))])

\* Fault: the last packet of the queue is served.
ServeLast(queues, port) ==
  [queues EXCEPT ![MeterIndex(port, NextLevel(queues, port))] = SubSeq(@, 1, Len(@) - 1)]

\* sp_update, on a port with a backlog
Serve(queues, port) ==
  [queues EXCEPT ![MeterIndex(port, NextLevel(queues, port))] = Tail(@)]

\* sp_update_reverse
ServeReverse(queues, port, state) ==
  [queues EXCEPT ![MeterIndex(port, state.last_priority)] = <<state.packet>> \o @]
=============================================================================
