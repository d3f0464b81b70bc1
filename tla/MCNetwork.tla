------------------------------ MODULE MCNetwork ------------------------------
(* A line of three switches, and traces for it. *)
EXTENDS Network

Exact(last, time) == FALSE
Capacities == [level \in 0 .. 2 |-> IF level = 0 THEN 2 ELSE 3]

Port(name, ticks) == [name |-> name, bandwidth |-> ticks]
To(dest, nextHop, portName) == [dest |-> dest, nextHop |-> nextHop, portName |-> portName]

\* 0 -- 1 -- 2.  The port from 1 to 2 is the slow one; the first route of
\* switch 1 to switch 2 is replaced by a later one.
Line ==
  [s \in 0 .. 2 |->
     CASE s = 0 -> [type |-> "access", ports |-> <<Port("a", 1)>>,
                    routes |-> <<To(2, 1, "a"), To(1, 1, "a")>>]
       [] s = 1 -> [type |-> "core", ports |-> <<Port("b", 1), Port("c", 2)>>,
                    routes |-> <<To(2, 0, "b"), To(0, 0, "b"), To(2, 2, "c")>>]
       [] s = 2 -> [type |-> "access", ports |-> <<Port("d", 1)>>,
                    routes |-> <<To(0, 1, "d"), To(1, 1, "d")>>]]

\* A line of a trace: two ids, and a packet of one byte.
Packet(id, src, dest, time, priority) == <<id, 1, src, dest, 1, time, priority>>

\* The packets from 0 and from 1 meet at the slow port at time 13.  A trace
\* may hold several at one time, be out of order, and go on after its end.
SomeTraces ==
  {<<Packet(1, 0, 2, 0, a), Packet(2, 0, 2, w[1], a), Packet(3, 1, 2, w[2], 2 - a),
     Packet(4, 1, 2, 13, 0), Packet(5, v[1], v[2], v[3], 0)>> :
     a \in {0, 2}, w \in {<<0, 13>>, <<9, 13>>, <<9, 5>>},
     v \in {<<0, 2, 8>>, <<0, 1, 13>>, <<1, 2, 13>>, <<2, 0, 3>>, <<1, 0, 40>>}}
=============================================================================
