------------------------------- MODULE Mapping -------------------------------
(***************************************************************************)
(* Where the LPs live, model/network_map.c.  The ids 0, 1, ... of the      *)
(* switches and then the terminals are dealt to the processors (MPI ranks) *)
(* like cards.  Each rank fills its own array of LPs; an event for an id   *)
(* is taken to a rank and an index by arithmetic alone.                    *)
(***************************************************************************)
EXTENDS Integers

CONSTANTS
  total_switches, total_terminals,
  g_tw_nkp,     \* kernel processes per rank
  NodeCounts    \* the values of tw_nnodes() to consider

ASSUME MappingAssumption ==
  /\ total_switches \in Nat /\ total_terminals \in Nat
  /\ g_tw_nkp \in Nat \ {0}
  /\ NodeCounts \subseteq Nat \ {0}

VARIABLES
  nnodes,   \* tw_nnodes()
  lps       \* lps[node][local index] = [gid, type, kp], for the ranks set up

mapvars == <<nnodes, lps>>

total_lps == total_terminals + total_switches
LPs       == 0 .. total_lps - 1
Nodes     == 0 .. nnodes - 1

lpTypeMapper(gid) == IF gid < total_switches THEN "SWITCH" ELSE "TERMINAL"

\* Fault: the first ids that are left over are given to nobody.
LpsPerPeRoundedDown(node) == total_lps \div nnodes

min_num_lps_per_pe == total_lps \div nnodes
pes_with_extra_lp  == total_lps - min_num_lps_per_pe * nnodes
lps_per_pe(node) ==
  IF node < pes_with_extra_lp THEN min_num_lps_per_pe + 1 ELSE min_num_lps_per_pe

\* The length of the array g_tw_lp of a rank, which network_main works out itself.
num_LPs_per_pe(node) ==
  LET each == total_lps \div nnodes
  IN  IF node < total_lps - each * nnodes THEN each + 1 ELSE each

custom_mapping_lp_to_pe(gid)      == gid % nnodes
custom_mapping_lpgid_to_local(gid) == gid \div nnodes

MapInit == nnodes \in NodeCounts /\ lps = <<>>

\* The LPs of a rank.
LpTable(node) ==
  [index \in 0 .. lps_per_pe(node) - 1 |->
     LET gid == node + index * nnodes
     IN  [gid |-> gid, type |-> lpTypeMapper(gid), kp |-> index % g_tw_nkp]]

\* custom_mapping_setup on a rank.  The ranks run it independently.
custom_mapping_setup(node) ==
  /\ node \notin DOMAIN lps
  /\ lps' = [n \in DOMAIN lps \cup {node} |-> IF n = node THEN LpTable(node) ELSE lps[n]]
  /\ UNCHANGED nnodes

MapNext == \E node \in Nodes : custom_mapping_setup(node)
MapSpec == MapInit /\ [][MapNext]_mapvars

Mapped == DOMAIN lps = Nodes
-----------------------------------------------------------------------------
(***************************************************************************)
(* The arithmetic that sends an event to a rank and an index finds the     *)
(* LP, however many ranks there are: what a rank has put at an index has   *)
(* an id that is looked up there and nowhere else, and every id has its    *)
(* place once its rank is set up.  So no LP is missing and none is doubled.*)
(* The array that a rank has asked ROSS for is filled, and not overrun,    *)
(* although its length is worked out in another file.                      *)
(***************************************************************************)
LPsAreFound ==
  /\ \A node \in DOMAIN lps : \A index \in DOMAIN lps[node] :
       LET gid == lps[node][index].gid
       IN  /\ gid \in LPs
           /\ custom_mapping_lp_to_pe(gid) = node
           /\ custom_mapping_lpgid_to_local(gid) = index
  /\ \A gid \in LPs :
       custom_mapping_lp_to_pe(gid) \in DOMAIN lps =>
         custom_mapping_lpgid_to_local(gid) \in DOMAIN lps[custom_mapping_lp_to_pe(gid)]
  /\ \A node \in DOMAIN lps : DOMAIN lps[node] = 0 .. num_LPs_per_pe(node) - 1
=============================================================================
