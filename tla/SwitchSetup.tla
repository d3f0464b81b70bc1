----------------------------- MODULE SwitchSetup -----------------------------
(* Topologies and packets that the TLC instances of the switch share. *)
EXTENDS Integers, TLC

CONSTANTS here, east, north, west, unset

Exact(last, time) == FALSE

\* One port with two next hops behind it, as a switched segment has; and a
\* second port of another speed.
OnePort  == (east :> [port_id |-> 0, nextHop |-> east])
              @@ (north :> [port_id |-> 0, nextHop |-> north])
TwoPorts == OnePort @@ (west :> [port_id |-> 1, nextHop |-> west])
OneSpeed  == 0 :> 1
TwoSpeeds == (0 :> 1) @@ (1 :> 2)

Capacities     == [level \in 0 .. 2 |-> IF level = 0 THEN 2 ELSE 3]
EvenCapacities == [level \in 0 .. 2 |-> 3]

Offer(dest, type, size) == [dest |-> dest, type |-> type, size |-> size]

\* Packets of one size for two ports, and one that has reached its switch.
Uniform == {Offer(east, 0, 1), Offer(north, 2, 1), Offer(west, 1, 1), Offer(here, 0, 1)}
\* A small urgent packet that can overtake a large one, and a final one.
Mixed   == {Offer(east, 0, 1), Offer(north, 2, 2), Offer(here, 0, 1)}
\* Small packets for two next hops behind one port, and a large one.
TwoHops == {Offer(east, 0, 1), Offer(north, 1, 1), Offer(north, 2, 2)}

SomeTimes == {0, 8, 20}
FewTimes  == {0, 3, 20}
\* A refill that is enough for a small packet, but not for a large one.
RefillTimes == {0, 3, 10}
=============================================================================
