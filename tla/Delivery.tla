------------------------------ MODULE Delivery ------------------------------
(***************************************************************************)
(* What a network of switches promises about its packets, whatever happens *)
(* in the queues: a packet goes from switch to switch as the routing       *)
(* tables say, one hop at a time, is received only where it was sent to,   *)
(* may be dropped anywhere before, and has no more than one end.           *)
(***************************************************************************)
EXTENDS Integers

CONSTANT NextHop   \* NextHop[switch][dest], where there is a route

VARIABLE place   \* place[pid] = [dest, at, fate]: at, or on the wire to, a switch

Init == place = <<>>

\* All packets begin at once, and none has had its end.
Generate ==
  /\ place = <<>>
  /\ \A pid \in DOMAIN place' : place'[pid].fate = "under way"

UnderWay(pid) == place[pid].fate = "under way"
There(pid)    == place[pid].at = place[pid].dest

Forward(pid) ==
  /\ UnderWay(pid) /\ ~ There(pid)
  /\ place' = [place EXCEPT ![pid].at = NextHop[@][place[pid].dest]]

Receive(pid) ==
  /\ UnderWay(pid) /\ There(pid)
  /\ place' = [place EXCEPT ![pid].fate = "received"]

Drop(pid) ==
  /\ UnderWay(pid) /\ ~ There(pid)
  /\ place' = [place EXCEPT ![pid].fate = "dropped"]

Next ==
  \/ Generate
  \/ \E pid \in DOMAIN place : Forward(pid) \/ Receive(pid) \/ Drop(pid)

Spec == Init /\ [][Next]_place
=============================================================================
