-------------------------- MODULE SwitchAssumptions --------------------------
(* What is assumed of the constants of a switch and of its parts.           *)
EXTENDS Switch, TokenAssumptions

ASSUME MeterAssumption ==
  /\ CBS \in Nat /\ CBS < WordSize
  /\ EBS \in Nat /\ EBS < WordSize

ASSUME DropperAssumption ==
  /\ AvgUnit \in Nat \ {0} /\ Gain \in Nat \ {0}
  /\ HalfLife \in Nat \ {0} /\ Mtu \in Nat \ {0}

ASSUME StatsAssumption == MaxRecords \in Nat \ {0}

ASSUME SwitchAssumption ==
  /\ NumPorts \in Nat \ {0}
  /\ Ticks \in [Ports -> Nat \ {0}]
  /\ PropagationDelay \in Nat \ {0}
  /\ QueueCapacity \in [Levels -> Nat]
  /\ \A dest \in DOMAIN Routing : dest # Self /\ Routing[dest].port_id \in Ports
==============================================================================
