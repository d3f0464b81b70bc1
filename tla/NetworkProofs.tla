---------------------------- MODULE NetworkProofs ----------------------------
(***************************************************************************)
(* What is set up before the first event: every id is found where its rank *)
(* has put it, for any number of ranks, switches and terminals; and what   *)
(* the terminal schedules, for every trace and every end time.  Then the   *)
(* whole program: all its files are in one directory; no packet is lost;   *)
(* every step keeps the promise of Delivery; a flow stays in order; no     *)
(* packet is faster than its path; the files add up; and every switch has  *)
(* the configuration that its file describes.                              *)
(***************************************************************************)
EXTENDS Network, PartsProofs

(***************************************************************************)
(* What a remainder and a quotient are: the card number i that player k    *)
(* of n gets has the number k + i * n, and the other way round.            *)
(***************************************************************************)
LEMMA Dealt ==
  ASSUME NEW n \in Nat \ {0}, NEW k \in 0 .. n - 1, NEW i \in Nat
  PROVE  /\ k + i * n \in Nat
         /\ (k + i * n) % n = k
         /\ (k + i * n) \div n = i
<1> DEFINE p == i * n
<1>1. p \in Nat
  BY SMT
<1>2. p = n * i
  BY SMT
<1>3. (k + n * i) % n = k /\ (k + n * i) \div n = i
  BY Z3T(30)
<1> QED
  BY <1>1, <1>2, <1>3

\* A number is made of its quotient and its remainder.
LEMMA Division ==
  ASSUME NEW n \in Nat \ {0}, NEW t \in Nat
  PROVE  /\ t \div n \in Nat
         /\ t % n \in 0 .. n - 1
         /\ t = (t % n) + (t \div n) * n
<1>1. t \div n \in Nat /\ t % n \in 0 .. n - 1 /\ t = n * (t \div n) + (t % n)
  BY Z3T(30)
<1>2. PICK q \in Nat : q = t \div n
  BY <1>1
<1>3. q * n = n * q /\ n * q \in Nat
  BY SMT
<1> QED
  BY <1>1, <1>2, <1>3

\* A product grows with its factor.
LEMMA Monotone ==
  ASSUME NEW n \in Nat \ {0}, NEW a \in Int, NEW b \in Int, a <= b
  PROVE  a * n <= b * n /\ a * n \in Int /\ b * n \in Int
BY SMT

(***************************************************************************)
(* The card numbers below t are just those of the first q cards of every   *)
(* player, and of one more of each of the first e players.                 *)
(***************************************************************************)
LEMMA Share ==
  ASSUME NEW n \in Nat \ {0}, NEW q \in Nat, NEW e \in 0 .. n - 1,
         NEW k \in 0 .. n - 1, NEW i \in Nat,
         NEW t \in Nat, t = e + q * n
  PROVE  k + i * n < t <=> i < (IF k < e THEN q + 1 ELSE q)
<1>0. q * n \in Int /\ i * n \in Int
  BY Monotone
<1>1. CASE i < q
  <2>1. (i + 1) * n <= q * n
    BY <1>1, Monotone
  <2>2. (i + 1) * n = i * n + n
    BY SMT
  <2> QED
    BY <1>0, <1>1, <2>1, <2>2
<1>2. CASE i = q
  BY <1>0, <1>2
<1>3. CASE i > q
  <2>1. (q + 1) * n <= i * n
    BY <1>3, Monotone
  <2>2. (q + 1) * n = q * n + n
    BY SMT
  <2> QED
    BY <1>0, <1>3, <2>1, <2>2
<1> QED
  BY <1>1, <1>2, <1>3

(***************************************************************************)
(* A rank holds index i just if the id that belongs there exists.          *)
(***************************************************************************)
LEMMA HasRoom ==
  ASSUME nnodes \in Nat \ {0}, NEW k \in Nodes, NEW i \in Nat
  PROVE  k + i * nnodes < total_lps <=> i < lps_per_pe(k)
<1> USE MappingAssumption
<1>1. PICK n \in Nat \ {0} : n = nnodes
  OBVIOUS
<1>2. PICK t \in Nat : t = total_lps
  BY DEF total_lps
<1>3. PICK q \in Nat : q = t \div n
  BY Division
<1>4. PICK e \in 0 .. n - 1 : e = t % n
  BY Division
<1>5. t = e + q * n
  BY <1>3, <1>4, Division
<1>6. k \in 0 .. n - 1
  BY <1>1 DEF Nodes
<1>7. k + i * n < t <=> i < (IF k < e THEN q + 1 ELSE q)
  BY <1>5, <1>6, Share
<1>8. q * n \in Int
  BY Monotone
<1>9. t - q * n = e
  BY <1>5, <1>8
<1>10. lps_per_pe(k) = IF k < e THEN q + 1 ELSE q
  BY <1>1, <1>2, <1>3, <1>9 DEF lps_per_pe, pes_with_extra_lp, min_num_lps_per_pe
<1> QED
  BY <1>1, <1>2, <1>7, <1>10

\* The number of LPs of a rank.
LEMMA LpsType ==
  ASSUME nnodes \in Nat \ {0}, NEW k \in Nodes
  PROVE  lps_per_pe(k) \in Nat
<1> USE MappingAssumption
<1>1. PICK n \in Nat \ {0} : n = nnodes
  OBVIOUS
<1>2. PICK t \in Nat : t = total_lps
  BY DEF total_lps
<1>3. t \div n \in Nat
  BY Division
<1> QED
  BY <1>1, <1>2, <1>3 DEF lps_per_pe, min_num_lps_per_pe

(***************************************************************************)
(* What the ranks that are set up hold.                                    *)
(***************************************************************************)
MappingInv ==
  /\ nnodes \in Nat \ {0}
  /\ DOMAIN lps \subseteq Nodes
  /\ \A node \in DOMAIN lps : lps[node] = LpTable(node)

\* The set-up starts with nothing set up.
LEMMA MappingInit == MapInit => MappingInv
BY MappingAssumption DEF MapInit, MappingInv

\* Setting up one more LP keeps what is known of those set up.
LEMMA MappingNext == MappingInv /\ [MapNext]_mapvars => MappingInv'
<1> SUFFICES ASSUME MappingInv, [MapNext]_mapvars PROVE MappingInv'
  OBVIOUS
<1> USE DEF MappingInv
<1>0. nnodes' = nnodes
  BY DEF MapNext, custom_mapping_setup, mapvars
<1>1. \A node : LpTable(node)' = LpTable(node)
  BY <1>0 DEF LpTable, lps_per_pe, min_num_lps_per_pe, pes_with_extra_lp
<1>2. Nodes' = Nodes
  BY <1>0 DEF Nodes
<1>3. CASE UNCHANGED mapvars
  BY <1>0, <1>1, <1>2, <1>3 DEF mapvars
<1>4. ASSUME NEW node \in Nodes, custom_mapping_setup(node) PROVE MappingInv'
  <2>1. DOMAIN lps' = DOMAIN lps \cup {node}
    BY <1>4 DEF custom_mapping_setup
  <2>2. ASSUME NEW m \in DOMAIN lps' PROVE lps'[m] = LpTable(m)
    BY <1>4, <2>1 DEF custom_mapping_setup
  <2> QED
    BY <1>0, <1>1, <1>2, <2>1, <2>2
<1> QED
  BY <1>3, <1>4 DEF MapNext

\* What is set up is what the look-ups find.
LEMMA MappingFound == MappingInv => LPsAreFound
<1> SUFFICES ASSUME MappingInv PROVE LPsAreFound
  OBVIOUS
<1> USE MappingAssumption DEF MappingInv
<1>0. total_lps \in Nat
  BY DEF total_lps
<1>1. ASSUME NEW node \in DOMAIN lps, NEW index \in DOMAIN lps[node]
      PROVE  /\ lps[node][index].gid \in LPs
             /\ custom_mapping_lp_to_pe(lps[node][index].gid) = node
             /\ custom_mapping_lpgid_to_local(lps[node][index].gid) = index
  <2>1. node \in 0 .. nnodes - 1
    BY DEF Nodes
  <2>2. index \in Nat /\ index < lps_per_pe(node)
    BY <2>1, LpsType DEF LpTable
  <2>3. lps[node][index].gid = node + index * nnodes
    <3>1. lps[node] = LpTable(node) /\ index \in 0 .. lps_per_pe(node) - 1
      BY DEF LpTable
    <3>2. LpTable(node)[index].gid = node + index * nnodes
      BY <3>1, Zenon DEF LpTable
    <3> QED
      BY <3>1, <3>2
  <2>4. PICK gid \in Nat : gid = node + index * nnodes
    BY <2>1, <2>2, Dealt
  <2>5. gid < total_lps
    BY <2>2, <2>4, HasRoom
  <2>6. gid % nnodes = node /\ gid \div nnodes = index
    BY <2>1, <2>2, <2>4, Dealt
  <2> QED
    BY <1>0, <2>3, <2>4, <2>5, <2>6
    DEF LPs, custom_mapping_lp_to_pe, custom_mapping_lpgid_to_local
<1>2. ASSUME NEW gid \in LPs, custom_mapping_lp_to_pe(gid) \in DOMAIN lps
      PROVE  custom_mapping_lpgid_to_local(gid) \in DOMAIN lps[custom_mapping_lp_to_pe(gid)]
  <2>1. gid \in Nat /\ gid < total_lps
    BY <1>0 DEF LPs
  <2>2. PICK node \in 0 .. nnodes - 1 : node = gid % nnodes
    BY <2>1, Division
  <2>3. PICK index \in Nat : index = gid \div nnodes
    BY <2>1, Division
  <2>4. gid = node + index * nnodes
    BY <2>1, <2>2, <2>3, Division
  <2>5. index < lps_per_pe(node)
    BY <2>1, <2>2, <2>4, HasRoom DEF Nodes
  <2>6. index \in 0 .. lps_per_pe(node) - 1
    BY <2>2, <2>5, LpsType DEF Nodes
  <2>7. node \in DOMAIN lps
    BY <1>2, <2>2 DEF custom_mapping_lp_to_pe
  <2>8. DOMAIN lps[node] = 0 .. lps_per_pe(node) - 1
    BY <2>7 DEF LpTable
  <2> QED
    BY <2>2, <2>3, <2>6, <2>8 DEF custom_mapping_lp_to_pe, custom_mapping_lpgid_to_local
<1>3. ASSUME NEW node \in DOMAIN lps
      PROVE  DOMAIN lps[node] = 0 .. num_LPs_per_pe(node) - 1
  BY DEF LpTable, lps_per_pe, min_num_lps_per_pe, pes_with_extra_lp, num_LPs_per_pe
<1> QED
  BY <1>1, <1>2, <1>3 DEF LPsAreFound

(***************************************************************************)
(* For every number of ranks, switches and terminals, in whatever order    *)
(* the ranks are set up, the mapping functions of network_map.c find       *)
(* exactly the LPs that custom_mapping_setup has put in the arrays.        *)
(***************************************************************************)
THEOREM MappingFindsLPs == MapSpec => []LPsAreFound
<1>1. MapSpec => []MappingInv
  BY MappingInit, MappingNext, PTL DEF MapSpec
<1> QED
  BY <1>1, MappingFound, PTL
-----------------------------------------------------------------------------
\* What is known of a trace that has been read.
IsWorkload(w) ==
  /\ \E n \in Nat : DOMAIN w = 1 .. n
  /\ \A i \in DOMAIN w : w[i].timestamp \in Nat
  /\ \A i, j \in DOMAIN w : w[i].id = w[j].id => i = j

\* What the parser returns is a workload.
LEMMA Parsed ==
  ASSUME NEW w \in Workloads PROVE IsWorkload(w)
<1>1. PICK lines \in Traces : w = parseWorkload(lines)
  BY DEF Workloads
<1>2. /\ lines \in Seq(Seq(Nat))
      /\ \A i, j \in DOMAIN lines : Len(lines[i]) = 7 /\ (lines[i][1] = lines[j][1] => i = j)
  BY TerminalAssumption
<1>3. DOMAIN w = DOMAIN lines
  BY <1>1 DEF parseWorkload
<1>4. \E n \in Nat : DOMAIN lines = 1 .. n
  BY <1>2
<1>5. ASSUME NEW i \in DOMAIN lines
      PROVE  w[i].id = lines[i][1] /\ w[i].timestamp = lines[i][6] /\ lines[i][6] \in Nat
  <2>1. PICK line : line = lines[i]
    OBVIOUS
  <2>2. w[i] = packetFromLine(line)
    BY <1>1, <2>1 DEF parseWorkload
  <2>3. line \in Seq(Nat)
    BY <1>2, <2>1
  <2>4. Len(line) = 7
    BY <1>2, <2>1
  <2>5. 6 \in 1 .. Len(line)
    BY <2>4
  <2>6. line[6] \in Nat
    BY ONLY <2>3, <2>5, ElementOfSeq, Zenon
  <2> QED
    BY <2>1, <2>2, <2>6 DEF packetFromLine
<1> QED
  BY <1>2, <1>3, <1>4, <1>5 DEF IsWorkload

\* The packets that the loop reaches in a trace.
Reach(w, end) == {i \in DOMAIN w : \A j \in 1 .. i : w[j].timestamp < end}

\* There are as many events as packets reached.
LEMMA AsManyEvents ==
  ASSUME NEW w, IsWorkload(w), NEW end \in Nat
  PROVE  Cardinality({ArriveEvent(w[i]) : i \in Reach(w, end)}) = Cardinality(Reach(w, end))
<1> DEFINE A == Reach(w, end)
           B == {ArriveEvent(w[i]) : i \in A}
           f == [i \in A |-> ArriveEvent(w[i])]
<1>1. IsFiniteSet(A)
  <2>1. PICK n \in Nat : DOMAIN w = 1 .. n
    BY DEF IsWorkload
  <2>2. IsFiniteSet(1 .. n)
    BY FS_Interval
  <2>3. A \in SUBSET (1 .. n)
    BY <2>1 DEF Reach
  <2> HIDE DEF A
  <2> QED
    BY <2>2, <2>3, FS_Subset
<1>2. \A i, j \in A : ArriveEvent(w[i]) = ArriveEvent(w[j]) => i = j
  <2> SUFFICES ASSUME NEW i \in A, NEW j \in A, ArriveEvent(w[i]) = ArriveEvent(w[j])
               PROVE  i = j
    OBVIOUS
  <2>1. ArriveEvent(w[i]).packet.pid = w[i].id /\ ArriveEvent(w[j]).packet.pid = w[j].id
    BY DEF ArriveEvent
  <2>2. w[i].id = w[j].id
    BY <2>1
  <2> QED
    BY <2>2 DEF IsWorkload, Reach
<1> HIDE DEF A
<1>3. f \in Bijection(A, B)
  <2>1. f \in [A -> B]
    OBVIOUS
  <2>2. \A i, j \in A : f[i] = f[j] => i = j
    BY <1>2
  <2>3. \A e \in B : \E i \in A : f[i] = e
    OBVIOUS
  <2> QED
    BY <2>1, <2>2, <2>3 DEF Bijection, Injection, Surjection, IsInjective
<1>4. Cardinality(B) = Cardinality(A)
  BY <1>1, <1>3, FS_Bijection DEF ExistsBijection
<1> QED
  BY <1>4 DEF A

(***************************************************************************)
(* The trace is one that was read, and once the loop has run the events    *)
(* are those of the packets it reached.                                    *)
(***************************************************************************)
TerminalInv ==
  /\ g_tw_ts_end \in Nat
  /\ pks = Unread \/ IsWorkload(pks)
  /\ count # Unread =>
       /\ pks # Unread
       /\ scheduled = {ArriveEvent(pks[i]) : i \in Reach(pks, g_tw_ts_end)}
       /\ num_packets_sent = Cardinality(Reach(pks, g_tw_ts_end))

\* The terminal starts with nothing scheduled.
LEMMA TerminalInit == TermInit => TerminalInv
BY TerminalAssumption DEF TermInit, TerminalInv

\* Scheduling one more packet keeps the count and the order.
LEMMA TerminalNext == TerminalInv /\ [TermNext]_termvars => TerminalInv'
<1> SUFFICES ASSUME TerminalInv, [TermNext]_termvars PROVE TerminalInv'
  OBVIOUS
<1>1. ASSUME NEW w \in Workloads, terminal_init(w) PROVE TerminalInv'
  <2>1. IsWorkload(w)
    BY Parsed
  <2> QED
    BY <1>1, <2>1 DEF TerminalInv, terminal_init
<1>2. CASE pks # Unread /\ terminal_prerun
  <2>1. {i \in DOMAIN pks : Reached(i)} = Reach(pks, g_tw_ts_end)
    BY DEF Reached, Reach
  <2>2. g_tw_ts_end' = g_tw_ts_end /\ pks' = pks
    BY <1>2 DEF terminal_prerun
  <2>3. /\ scheduled' = {ArriveEvent(pks[i]) : i \in Reach(pks, g_tw_ts_end)}
        /\ num_packets_sent' = Cardinality(Reach(pks, g_tw_ts_end))
    BY <1>2, <2>1 DEF terminal_prerun
  <2> QED
    BY <1>2, <2>2, <2>3 DEF TerminalInv
<1>3. CASE UNCHANGED termvars
  BY <1>3 DEF termvars, TerminalInv
<1> QED
  BY <1>1, <1>2, <1>3 DEF TermNext

\* When the trace is read, what is due is scheduled.
LEMMA TerminalDue == TerminalInv => SendsWhatIsDue
<1> SUFFICES ASSUME TerminalInv, count # Unread
             PROVE  /\ num_packets_sent = Cardinality(scheduled)
                    /\ \A e \in scheduled : e.at < g_tw_ts_end
                    /\ Sorted => \A i \in DOMAIN pks :
                         pks[i].timestamp < g_tw_ts_end => ArriveEvent(pks[i]) \in scheduled
  BY DEF SendsWhatIsDue
<1>1. PICK w, end : w = pks /\ end = g_tw_ts_end
  OBVIOUS
<1>2. /\ end \in Nat /\ IsWorkload(w)
      /\ scheduled = {ArriveEvent(w[i]) : i \in Reach(w, end)}
      /\ num_packets_sent = Cardinality(Reach(w, end))
  BY <1>1 DEF TerminalInv
<1>3. PICK n \in Nat : DOMAIN w = 1 .. n
  BY <1>2 DEF IsWorkload
<1>4. \A i \in DOMAIN w : w[i].timestamp \in Nat
  BY <1>2 DEF IsWorkload
<1>5. num_packets_sent = Cardinality(scheduled)
  BY <1>2, AsManyEvents
<1>6. ASSUME NEW e \in scheduled PROVE e.at < end
  <2>1. PICK i \in Reach(w, end) : e = ArriveEvent(w[i])
    BY <1>2
  <2>2. w[i].timestamp < end
    BY <1>3 DEF Reach
  <2> QED
    BY <2>1, <2>2 DEF ArriveEvent
<1>7. ASSUME Sorted, NEW i \in DOMAIN w, w[i].timestamp < end
      PROVE  ArriveEvent(w[i]) \in scheduled
  <2>1. ASSUME NEW j \in 1 .. i PROVE w[j].timestamp < end
    <3>1. j \in DOMAIN w /\ j <= i /\ i \in Nat /\ j \in Nat
      BY <1>3
    <3>2. w[j].timestamp <= w[i].timestamp
      BY <1>1, <1>4, <1>7, <3>1 DEF Sorted
    <3> QED
      BY <1>2, <1>4, <1>7, <3>1, <3>2
  <2>2. i \in Reach(w, end)
    BY <2>1 DEF Reach
  <2> QED
    BY <1>2, <2>2
<1> QED
  BY <1>1, <1>5, <1>6, <1>7

(***************************************************************************)
(* For every trace with unique ids and every end time: what the terminal   *)
(* counts is what it schedules, all before the end; and of a sorted trace  *)
(* the early end of the loop loses no packet that is due.                  *)
(***************************************************************************)
THEOREM TerminalSendsWhatIsDue == TermSpec => []SendsWhatIsDue
<1>1. TermSpec => []TerminalInv
  BY TerminalInit, TerminalNext, PTL DEF TermSpec
<1> QED
  BY <1>1, TerminalDue, PTL
-----------------------------------------------------------------------------
(***************************************************************************)
(* The directory of the results.  Only rank 0 makes one, under the name    *)
(* that it gives it.  A rank that finds it has the same name for it; and   *)
(* no rank that an LP is on forgets its name.                              *)
(***************************************************************************)
DirsInv ==
  /\ DOMAIN out_dir = DOMAIN lps
  /\ made \subseteq {0}
  /\ pks # Unread => Mapped
  /\ phase \in {"events", "over"} => pks # Unread /\ Opens(total_switches)
  /\ \A s \in DOMAIN output : pks # Unread /\ Opens(s)
  /\ phase = "over" => Switches \subseteq DOMAIN output

\* The actions that leave the directories and the traces as they are.
Still == UNCHANGED <<mapvars, dirs, pks>>

\* An LP finds its directory as long as nothing changes.
LEMMA OpensStill ==
  ASSUME Still, NEW gid
  PROVE  Opens(gid) <=> Opens(gid)'
  BY DEF Still, Opens, mapvars, dirs, custom_mapping_lp_to_pe

\* What is Mapped stays so.
LEMMA MappedStill ==
  ASSUME Still
  PROVE  Mapped <=> Mapped'
  BY DEF Still, Mapped, mapvars, Nodes

\* A function with one value more.
LEMMA ExtendedFacts ==
  ASSUME NEW f, NEW x, NEW v
  PROVE  /\ DOMAIN Extended(f, x, v) = DOMAIN f \cup {x}
         /\ Extended(f, x, v)[x] = v
         /\ \A y \in DOMAIN f : y # x => Extended(f, x, v)[y] = f[y]
  BY DEF Extended

\* A step that changes only the phase from events to failed keeps the invariant.
LEMMA DirsKept ==
  ASSUME DirsInv, Still, UNCHANGED output,
         phase' = phase \/ phase' \in {"start", "failed"}
  PROVE  DirsInv'
  <1>1. out_dir' = out_dir /\ lps' = lps /\ made' = made /\ pks' = pks
    BY DEF Still, mapvars, dirs
  <1>2. Mapped' <=> Mapped
    BY MappedStill
  <1>3. \A gid : Opens(gid) => Opens(gid)'
    BY OpensStill
  <1>4. phase' \in {"events", "over"} => phase' = phase
    OBVIOUS
  <1>5. Switches' = Switches
    BY DEF Switches
  <1>6. DOMAIN out_dir' = DOMAIN lps' /\ made' \subseteq {0} /\ (pks' # Unread => Mapped')
    BY <1>1, <1>2 DEF DirsInv
  <1>7. phase' \in {"events", "over"} => pks' # Unread /\ Opens(total_switches)'
    BY <1>1, <1>3, <1>4 DEF DirsInv
  <1>8. \A s \in DOMAIN output' : pks' # Unread /\ Opens(s)'
    BY <1>1, <1>3 DEF DirsInv
  <1>9. phase' = "over" => Switches' \subseteq DOMAIN output'
    BY <1>4, <1>5 DEF DirsInv
  <1> QED
    BY <1>6, <1>7, <1>8, <1>9 DEF DirsInv

\* Setting up one more rank.
LEMMA SetUpKeepsDirs ==
  ASSUME DirsInv, NEW node \in Nodes, SetUpRank(node)
  PROVE  DirsInv'
  <1>1. /\ node \notin DOMAIN lps /\ DOMAIN lps' = DOMAIN lps \cup {node}
        /\ UNCHANGED <<pks, phase, output>>
    BY DEF SetUpRank, custom_mapping_setup, termvars
  <1>2. ~ Mapped
    BY <1>1 DEF Mapped
  <1>3. pks = Unread
    BY <1>2 DEF DirsInv
  <1>4. PICK second \in IF node = 0 THEN {0} ELSE Seconds : create_out_dir(node, second)
    BY DEF SetUpRank
  <1>5. DOMAIN out_dir' = DOMAIN out_dir \cup {node}
    BY <1>4, ExtendedFacts DEF create_out_dir
  <1>6. made' \subseteq {0}
    BY <1>4 DEF create_out_dir, DirsInv
  <1> QED
    BY <1>1, <1>3, <1>5, <1>6 DEF DirsInv

\* The terminal reads its trace.
LEMMA InitTerminalKeepsDirs ==
  ASSUME DirsInv, InitTerminal
  PROVE  DirsInv'
  <1>1. /\ Mapped /\ pks = Unread
        /\ UNCHANGED <<out_dir, made, lps, nnodes, phase, output>>
    BY DEF InitTerminal, terminal_init, mapvars, dirs
  <1>2. Mapped'
    BY <1>1 DEF Mapped, Nodes
  <1>3. phase \notin {"events", "over"} /\ DOMAIN output = {}
    BY <1>1 DEF DirsInv
  <1> QED
    BY <1>1, <1>2, <1>3 DEF DirsInv

\* The terminal opens its file.
LEMMA PrerunKeepsDirs ==
  ASSUME DirsInv, Prerun
  PROVE  DirsInv'
  <1>1. Still /\ UNCHANGED output /\ pks # Unread
    BY DEF Prerun, Still, terminal_prerun
  <1>2. CASE Opens(total_switches)
    <2>1. phase' = "events"
      BY <1>2 DEF Prerun
    <2>2. out_dir' = out_dir /\ lps' = lps /\ made' = made /\ pks' = pks
      BY <1>1 DEF Still, mapvars, dirs
    <2>3. Mapped' <=> Mapped
      BY <1>1, MappedStill
    <2>4. \A gid : Opens(gid) => Opens(gid)'
      BY <1>1, OpensStill
    <2> QED
      BY <1>1, <1>2, <2>1, <2>2, <2>3, <2>4 DEF DirsInv
  <1>3. CASE ~ Opens(total_switches)
    BY <1>1, <1>3, DirsKept DEF Prerun
  <1> QED
    BY <1>2, <1>3

\* A switch opens its file and writes its records.
LEMMA FinishKeepsDirs ==
  ASSUME DirsInv, total_switches \in Nat, NEW s \in Switches, FinishSwitch(s)
  PROVE  DirsInv'
  <1>1. Still /\ phase = "events" /\ 0 .. s - 1 \subseteq DOMAIN output
    BY DEF FinishSwitch, Still, termvars
  <1>2. CASE ~ Opens(s)
    BY <1>1, <1>2, DirsKept DEF FinishSwitch
  <1>3. CASE Opens(s)
    <2>1. PICK rs : output' = Extended(output, s, rs)
      BY <1>3 DEF FinishSwitch
    <2>2. phase' = IF s = total_switches - 1 THEN "over" ELSE phase
      BY <1>3 DEF FinishSwitch
    <2>3. DOMAIN output' = DOMAIN output \cup {s}
      BY <2>1, ExtendedFacts
    <2>4. out_dir' = out_dir /\ lps' = lps /\ made' = made /\ pks' = pks
      BY <1>1 DEF Still, mapvars, dirs
    <2>5. Mapped' <=> Mapped
      BY <1>1, MappedStill
    <2>6. \A gid : Opens(gid) => Opens(gid)'
      BY <1>1, OpensStill
    <2>7. s = total_switches - 1 => Switches \subseteq DOMAIN output'
      BY <1>1, <2>3 DEF Switches
    <2>8. Switches' = Switches
      BY DEF Switches
    <2>9. \A r \in DOMAIN output' : pks' # Unread /\ Opens(r)'
      BY <1>1, <1>3, <2>3, <2>4, <2>6 DEF DirsInv
    <2>10. phase' = "over" => Switches' \subseteq DOMAIN output'
      BY <1>1, <2>2, <2>7, <2>8
    <2>11. pks' # Unread /\ Opens(total_switches)'
      BY <1>1, <2>4, <2>6 DEF DirsInv
    <2>12. DOMAIN out_dir' = DOMAIN lps' /\ made' \subseteq {0} /\ (pks' # Unread => Mapped')
      BY <2>4, <2>5 DEF DirsInv
    <2> QED
      BY <2>9, <2>10, <2>11, <2>12 DEF DirsInv
  <1> QED
    BY <1>2, <1>3

\* Every step keeps what is known of the directories.
LEMMA DirsNext == DirsInv /\ [Next]_vars => DirsInv'
<1> SUFFICES ASSUME DirsInv, [Next]_vars PROVE DirsInv'
  OBVIOUS
<1>0. total_switches \in Nat
  BY MappingAssumption
<1>1. ASSUME NEW node \in Nodes, SetUpRank(node) PROVE DirsInv'
  BY <1>1, SetUpKeepsDirs
<1>2. ASSUME NEW s \in Switches, InitSwitch(s) PROVE DirsInv'
  BY <1>2, DirsKept DEF InitSwitch, Still, termvars
<1>3. CASE InitTerminal
  BY <1>3, InitTerminalKeepsDirs
<1>4. CASE Prerun
  BY <1>4, PrerunKeepsDirs
<1>5. ASSUME NEW e, Dispatch(e) PROVE DirsInv'
  BY <1>5, DirsKept DEF Dispatch, Still, termvars
<1>6. CASE Handle
  BY <1>6, DirsKept DEF Handle, Still, termvars
<1>7. ASSUME NEW s \in Switches, FinishSwitch(s) PROVE DirsInv'
  BY <1>0, <1>7, FinishKeepsDirs
<1>8. CASE UNCHANGED vars
  BY <1>8, DirsKept DEF vars, Still, termvars
<1> QED
  BY <1>1, <1>2, <1>3, <1>4, <1>5, <1>6, <1>7, <1>8 DEF Next, StartUp, EventLoop

\* In the beginning there is no directory.
LEMMA DirsInit == Init => DirsInv
BY DEF Init, MapInit, TermInit, DirsInv

\* When the program is over, all LPs have found the directory of rank 0.
LEMMA DirsOneReport == DirsInv => OneReport
<1> SUFFICES ASSUME DirsInv, phase = "over"
             PROVE  Cardinality({out_dir[custom_mapping_lp_to_pe(gid)] : gid \in LPs}) = 1
  BY DEF OneReport
<1>1. total_switches \in Nat /\ total_terminals = 1
  BY MappingAssumption, NetworkAssumption
<1>2. ASSUME NEW gid \in LPs PROVE out_dir[custom_mapping_lp_to_pe(gid)] = 0
  <2>1. gid = total_switches \/ gid \in Switches
    BY <1>1 DEF LPs, total_lps, Switches
  <2>2. Opens(gid)
    BY <2>1 DEF DirsInv
  <2> QED
    BY <2>2 DEF Opens, DirsInv
<1>3. total_switches \in LPs
  BY <1>1 DEF LPs, total_lps
<1>4. {out_dir[custom_mapping_lp_to_pe(gid)] : gid \in LPs} = {0}
  BY <1>2, <1>3
<1> QED
  BY <1>4, FS_Singleton

(***************************************************************************)
(* The results of a run are in one directory, or the run fails, for every  *)
(* number of ranks and whatever their clocks show.                         *)
(***************************************************************************)
THEOREM NetworkHasOneReport == Spec => []OneReport
<1> QED
  BY DirsInit, DirsNext, DirsOneReport, PTL DEF Spec

(***************************************************************************)
(* What Mapping and Terminal promise, the whole program keeps: no other    *)
(* part of it writes their variables.                                      *)
(***************************************************************************)
LEMMA StartUpNext ==
  ASSUME [Next]_vars
  PROVE  [MapNext]_mapvars /\ [TermNext]_termvars
<1>1. ASSUME NEW node \in Nodes, SetUpRank(node) PROVE MapNext /\ UNCHANGED termvars
  BY <1>1 DEF SetUpRank, MapNext
<1>2. ASSUME NEW s \in Switches, InitSwitch(s) PROVE UNCHANGED mapvars /\ UNCHANGED termvars
  BY <1>2 DEF InitSwitch, termvars
<1>3. CASE InitTerminal
  BY <1>3 DEF InitTerminal, TermNext
<1>4. CASE Prerun
  BY <1>4 DEF Prerun, TermNext
<1>5. ASSUME NEW e, Dispatch(e) PROVE UNCHANGED mapvars /\ UNCHANGED termvars
  BY <1>5 DEF Dispatch
<1>6. CASE Handle
  BY <1>6 DEF Handle
<1>7. ASSUME NEW s \in Switches, FinishSwitch(s) PROVE UNCHANGED mapvars /\ UNCHANGED termvars
  BY <1>7 DEF FinishSwitch
<1>8. CASE UNCHANGED vars
  BY <1>8 DEF vars
<1> QED
  BY <1>1, <1>2, <1>3, <1>4, <1>5, <1>6, <1>7, <1>8 DEF Next, StartUp, EventLoop

\* In the whole program the look-ups find every LP and the terminal sends what is due.
THEOREM NetworkStartsUp == Spec => [](LPsAreFound /\ SendsWhatIsDue)
<1>1. Init => MappingInv /\ TerminalInv
  BY MappingInit, TerminalInit DEF Init
<1>2. MappingInv /\ TerminalInv /\ [Next]_vars => (MappingInv /\ TerminalInv)'
  BY StartUpNext, MappingNext, TerminalNext
<1>3. MappingInv /\ TerminalInv => LPsAreFound /\ SendsWhatIsDue
  BY MappingFound, TerminalDue
<1> QED
  BY <1>1, <1>2, <1>3, PTL DEF Spec
-----------------------------------------------------------------------------
(***************************************************************************)
(* The packets.  What is known of every switch, of the events, and of both *)
(* together: where the packets are.                                        *)
(***************************************************************************)
PortsOf(s)  == 0 .. Len(Config[s].ports) - 1
QueuesOf(s) == 0 .. NUM_QOS_LEVEL * Len(Config[s].ports) - 1

\* The queue of switch s for packets like p.
HomeOf(s, p) == MeterIndex(Route[s][p.dest].port_id, p.type)

\* The queues of a switch hold packets that were sent, none twice, each in
\* the queue that the routing table and its class name.
QueuesOK(s, qs) ==
  /\ qs \in [QueuesOf(s) -> Seq(Sent)]
  /\ DistinctAt(qs, QueuesOf(s))
  /\ \A i \in QueuesOf(s) : \A k \in DOMAIN qs[i] : qs[i][k].dest # s /\ i = HomeOf(s, qs[i][k])

\* The counters say how many records there are; no packet has two.
RecordsOK(st) ==
  /\ st = [received |-> st.received, num_packets_recvd |-> st.num_packets_recvd,
           num_packets_dropped |-> st.num_packets_dropped,
           num_packets_sent |-> st.num_packets_sent, records |-> st.records,
           records_capacity |-> st.records_capacity]
  /\ st.records \in Seq({st.records[i] : i \in DOMAIN st.records})
  /\ st.num_packets_recvd \in Nat /\ st.num_packets_dropped \in Nat
  /\ Len(st.records) = st.num_packets_recvd + st.num_packets_dropped
  /\ \A i, j \in DOMAIN st.records : st.records[i].pid = st.records[j].pid => i = j

SwitchOK(s) ==
  /\ QueuesOK(s, StateOf(s).queues)
  /\ RecordsOK(StateOf(s).stats)
  /\ StateOf(s).port_flags \in [PortsOf(s) -> {0, 1}]

\* All events, and how many there are of each.
Live == BagToSet(pending) \cup BagToSet(discarded) \cup handling

NumberOf(e, B) == IF e \in BagToSet(B) THEN B[e] ELSE 0

Copies(e) ==
  NumberOf(e, pending) + NumberOf(e, discarded) + (IF e \in handling THEN 1 ELSE 0)

\* An event is for a switch, and about a packet that was sent or a port.
EventOK(e) ==
  /\ e.to \in Switches
  /\ \/ e.type = "ARRIVE" /\ e.packet \in Sent
     \/ e.type = "SEND" /\ e.port \in PortsOf(e.to)

EventsInv ==
  /\ IsABag(pending) /\ IsABag(discarded) /\ \A e, f \in handling : e = f
  /\ \A e \in Live : EventOK(e)
  /\ \A e \in Live : e.type = "ARRIVE" => Copies(e) = 1
  /\ \A e, f \in Live :
       e.type = "ARRIVE" /\ f.type = "ARRIVE" /\ e.packet.pid = f.packet.pid => e = f

\* A port that is busy or says so is waited for.
Watched(s, qs, flags, events) ==
  \A port \in PortsOf(s) :
    flags[port] # 0 \/ Backlogged(qs, port) =>
      \E e \in events : e.type = "SEND" /\ e.to = s /\ e.port = port

Guarded(s) == Watched(s, StateOf(s).queues, StateOf(s).port_flags, Live)

\* No packet waits at W, has a record at R or is on its way in O more than
\* once; all together they are All.
Apart(W, R, O, All) ==
  /\ \A s, t \in Switches : s # t => W[s] \cap W[t] = {} /\ R[s] \cap R[t] = {}
  /\ \A s, t \in Switches : W[s] \cap R[t] = {}
  /\ \A s \in Switches : W[s] \cap O = {} /\ R[s] \cap O = {}
  /\ All = O \cup UNION {W[s] \cup R[s] : s \in Switches}

WaitingPids  == [s \in Switches |-> WaitingAt(StateOf(s).queues, QueuesOf(s))]
RecordedPids == [s \in Switches |-> Recorded(s)]
MovingPids   == {e.packet.pid : e \in {f \in Live : f.type = "ARRIVE"}}

\* The terminal has sent what it reaches of a trace.
AllSent ==
  /\ pks # Unread /\ pks \in Workloads
  /\ scheduled = {ArriveEvent(pks[i]) : i \in Reach(pks, g_tw_ts_end)}
  /\ num_packets_sent = Cardinality(Reach(pks, g_tw_ts_end))

\* The loop: before it there are no events and no packets, after it nothing is left to do.
LoopInv ==
  /\ current \in Switches /\ DOMAIN parked = Switches
  /\ \A e \in handling : e.to = current
  /\ pks = Unread \/ pks \in Workloads
  /\ phase = "start" => Live = {} /\ scheduled = {} /\ num_packets_sent = 0
  /\ phase # "start" => AllSent
  /\ phase = "over" => pending = EmptyBag /\ handling = {}

PacketsInv ==
  /\ LoopInv /\ EventsInv
  /\ \A s \in Switches : SwitchOK(s) /\ Guarded(s)
  /\ Apart(WaitingPids, RecordedPids, MovingPids, Pids(Sent))

NetworkInv == MappingInv /\ TerminalInv /\ DirsInv /\ PacketsInv
-----------------------------------------------------------------------------
(* Bags: how many copies there are of an event.                            *)

\* The bag of a set.
LEMMA BagOfSet ==
  ASSUME NEW T
  PROVE  /\ IsABag(SetToBag(T)) /\ BagToSet(SetToBag(T)) = T
         /\ \A e : NumberOf(e, SetToBag(T)) = IF e \in T THEN 1 ELSE 0
  BY DEF IsABag, SetToBag, BagToSet, NumberOf

\* A copy is a natural number of copies, of an element one at least.
LEMMA CopiesType ==
  ASSUME NEW B, IsABag(B), NEW e
  PROVE  NumberOf(e, B) \in Nat /\ (e \in BagToSet(B) <=> NumberOf(e, B) # 0)
  BY DEF IsABag, BagToSet, NumberOf

\* The sum of two bags.
LEMMA BagSum ==
  ASSUME NEW A, IsABag(A), NEW B, IsABag(B)
  PROVE  /\ IsABag(A (+) B) /\ BagToSet(A (+) B) = BagToSet(A) \cup BagToSet(B)
         /\ \A e : NumberOf(e, A (+) B) = NumberOf(e, A) + NumberOf(e, B)
  <1>1. PICK C : C = A (+) B
    OBVIOUS
  <1>2. /\ DOMAIN C = DOMAIN A \cup DOMAIN B
        /\ \A e \in DOMAIN C : C[e] = (IF e \in DOMAIN A THEN A[e] ELSE 0)
                                        + (IF e \in DOMAIN B THEN B[e] ELSE 0)
    BY <1>1 DEF (+)
  <1>3. /\ \A e \in DOMAIN A : A[e] \in Nat /\ A[e] > 0
        /\ \A e \in DOMAIN B : B[e] \in Nat /\ B[e] > 0
    BY DEF IsABag
  <1>4. C = [e \in DOMAIN C |-> C[e]]
    BY <1>1 DEF (+)
  <1>5. \A e \in DOMAIN C : C[e] \in Nat /\ C[e] > 0
    BY <1>2, <1>3
  <1>6. IsABag(C)
    BY <1>4, <1>5 DEF IsABag
  <1>7. \A e : NumberOf(e, C) = NumberOf(e, A) + NumberOf(e, B)
    BY <1>2, <1>3 DEF NumberOf, BagToSet
  <1> QED
    BY <1>1, <1>2, <1>6, <1>7 DEF BagToSet

\* A bag without one copy of an element.
LEMMA BagLess ==
  ASSUME NEW A, IsABag(A), NEW x \in BagToSet(A)
  PROVE  LET C == A (-) SetToBag({x})
         IN  /\ IsABag(C) /\ BagToSet(C) \subseteq BagToSet(A)
             /\ BagToSet(A) \subseteq BagToSet(C) \cup {x}
             /\ \A e : NumberOf(e, C) = NumberOf(e, A) - (IF e = x THEN 1 ELSE 0)
  <1> DEFINE B == [e \in DOMAIN A |-> IF e = x THEN A[e] - 1 ELSE A[e]]
  <1>1. PICK C : C = A (-) SetToBag({x})
    OBVIOUS
  <1>2. \A e \in DOMAIN A : A[e] \in Nat /\ A[e] > 0
    BY DEF IsABag
  <1>3. C = [e \in {d \in DOMAIN A : B[d] > 0} |-> B[e]]
    BY <1>1 DEF (-), SetToBag
  <1>4. IsABag(C)
    BY <1>2, <1>3 DEF IsABag
  <1>5. BagToSet(C) \subseteq BagToSet(A) /\ BagToSet(A) \subseteq BagToSet(C) \cup {x}
    BY <1>2, <1>3 DEF BagToSet
  <1>6. \A e : NumberOf(e, C) = NumberOf(e, A) - (IF e = x THEN 1 ELSE 0)
    BY <1>2, <1>3 DEF NumberOf, BagToSet
  <1> QED
    BY <1>1, <1>4, <1>5, <1>6

\* An event is live if there is a copy of it.
LEMMA LiveFacts ==
  ASSUME IsABag(pending), IsABag(discarded), NEW e
  PROVE  Copies(e) \in Nat /\ (e \in Live <=> Copies(e) # 0)
  <1>1. PICK a, b : a = NumberOf(e, pending) /\ b = NumberOf(e, discarded)
    OBVIOUS
  <1>2. /\ a \in Nat /\ (e \in BagToSet(pending) <=> a # 0)
        /\ b \in Nat /\ (e \in BagToSet(discarded) <=> b # 0)
    BY <1>1, CopiesType
  <1>3. Copies(e) = a + b + (IF e \in handling THEN 1 ELSE 0)
    BY <1>1 DEF Copies
  <1>4. e \in Live <=> e \in BagToSet(pending) \/ e \in BagToSet(discarded) \/ e \in handling
    BY DEF Live
  <1> QED
    BY ONLY <1>2, <1>3, <1>4

\* The same for every event, as a fact about a state.
LEMMA AllLive ==
  IsABag(pending) /\ IsABag(discarded)
    => \A g : Copies(g) \in Nat /\ (g \in Live <=> Copies(g) # 0)
  BY LiveFacts

LEMMA AllLiveNext ==
  (IsABag(pending) /\ IsABag(discarded)
     => \A g : Copies(g) \in Nat /\ (g \in Live <=> Copies(g) # 0))'
  BY AllLive, PTL

\* Taking an event from the pending ones to handle it.
LEMMA DispatchKeepsEvents ==
  ASSUME IsABag(pending), IsABag(discarded), NEW e \in BagToSet(pending), Dispatch(e)
  PROVE  /\ IsABag(pending') /\ IsABag(discarded') /\ handling' = {e}
         /\ Live' = Live /\ \A f : Copies(f)' = Copies(f)
  <1>1. /\ handling = {} /\ handling' = {e} /\ discarded' = discarded
        /\ pending' = pending (-) SetToBag({e})
    BY DEF Dispatch
  <1>2. PICK C : C = pending'
    OBVIOUS
  <1>3. /\ IsABag(C) /\ BagToSet(C) \subseteq BagToSet(pending)
        /\ BagToSet(pending) \subseteq BagToSet(C) \cup {e}
        /\ \A f : NumberOf(f, C) = NumberOf(f, pending) - (IF f = e THEN 1 ELSE 0)
    BY <1>1, <1>2, BagLess
  <1>4. Live' = BagToSet(C) \cup BagToSet(discarded) \cup {e}
    BY <1>1, <1>2 DEF Live
  <1>5. Live = BagToSet(pending) \cup BagToSet(discarded)
    BY <1>1 DEF Live
  <1>6. Live' = Live
    BY <1>3, <1>4, <1>5
  <1>7. ASSUME NEW f PROVE Copies(f)' = Copies(f)
    <2>1. PICK a, b, c : a = NumberOf(f, pending) /\ b = NumberOf(f, discarded) /\ c = NumberOf(f, C)
      OBVIOUS
    <2>2. a \in Nat /\ b \in Nat
      BY <2>1, CopiesType
    <2>3. c = a - (IF f = e THEN 1 ELSE 0)
      BY <1>3, <2>1
    <2>4. NumberOf(f, pending)' = c /\ NumberOf(f, discarded)' = b
      BY <1>1, <1>2, <2>1 DEF NumberOf
    <2>5. Copies(f)' = c + b + (IF f = e THEN 1 ELSE 0)
      BY <1>1, <2>4 DEF Copies
    <2>6. Copies(f) = a + b
      BY <1>1, <2>1, <2>2 DEF Copies
    <2> QED
      BY ONLY <2>2, <2>3, <2>5, <2>6
  <1> QED
    BY <1>1, <1>2, <1>3, <1>6, <1>7

\* Handling e, which sends the events T, some of them beyond the end.
HandlesEvent(e, T) ==
  /\ IsABag(pending) /\ IsABag(discarded) /\ handling = {e} /\ handling' = {}
  /\ \E late \in SUBSET T : /\ pending' = pending (+) SetToBag(T \ late)
                            /\ discarded' = discarded (+) SetToBag(late)

\* There is one copy less of e, and one more of each of T.
LEMMA HandleChangesEvents ==
  ASSUME NEW e, NEW T, HandlesEvent(e, T)
  PROVE  /\ IsABag(pending') /\ IsABag(discarded')
         /\ \A f : Copies(f)' = Copies(f) - (IF f = e THEN 1 ELSE 0) + (IF f \in T THEN 1 ELSE 0)
         /\ T \subseteq Live' /\ Live' \subseteq Live \cup T /\ Live \subseteq Live' \cup {e}
  <1> USE DEF HandlesEvent
  <1>1. PICK late \in SUBSET T : /\ pending' = pending (+) SetToBag(T \ late)
                                 /\ discarded' = discarded (+) SetToBag(late)
    OBVIOUS
  <1>2. PICK A, B, C, D : A = pending /\ B = discarded /\ C = pending' /\ D = discarded'
    OBVIOUS
  <1>3. /\ IsABag(SetToBag(T \ late)) /\ BagToSet(SetToBag(T \ late)) = T \ late
        /\ \A f : NumberOf(f, SetToBag(T \ late)) = IF f \in T \ late THEN 1 ELSE 0
    BY BagOfSet
  <1>4. /\ IsABag(SetToBag(late)) /\ BagToSet(SetToBag(late)) = late
        /\ \A f : NumberOf(f, SetToBag(late)) = IF f \in late THEN 1 ELSE 0
    BY BagOfSet
  <1>5. /\ IsABag(C) /\ BagToSet(C) = BagToSet(A) \cup (T \ late)
        /\ \A f : NumberOf(f, C) = NumberOf(f, A) + (IF f \in T \ late THEN 1 ELSE 0)
    <2>1. PICK X : X = SetToBag(T \ late)
      OBVIOUS
    <2>2. /\ IsABag(X) /\ BagToSet(X) = T \ late
          /\ \A f : NumberOf(f, X) = IF f \in T \ late THEN 1 ELSE 0
      BY <1>3, <2>1
    <2>3. IsABag(A) /\ C = A (+) X
      BY <1>1, <1>2, <2>1
    <2>4. /\ IsABag(A (+) X) /\ BagToSet(A (+) X) = BagToSet(A) \cup BagToSet(X)
          /\ \A f : NumberOf(f, A (+) X) = NumberOf(f, A) + NumberOf(f, X)
      BY ONLY <2>2, <2>3, BagSum
    <2> QED
      BY ONLY <2>2, <2>3, <2>4
  <1>6. /\ IsABag(D) /\ BagToSet(D) = BagToSet(B) \cup late
        /\ \A f : NumberOf(f, D) = NumberOf(f, B) + (IF f \in late THEN 1 ELSE 0)
    <2>1. PICK X : X = SetToBag(late)
      OBVIOUS
    <2>2. /\ IsABag(X) /\ BagToSet(X) = late
          /\ \A f : NumberOf(f, X) = IF f \in late THEN 1 ELSE 0
      BY <1>4, <2>1
    <2>3. IsABag(B) /\ D = B (+) X
      BY <1>1, <1>2, <2>1
    <2>4. /\ IsABag(B (+) X) /\ BagToSet(B (+) X) = BagToSet(B) \cup BagToSet(X)
          /\ \A f : NumberOf(f, B (+) X) = NumberOf(f, B) + NumberOf(f, X)
      BY ONLY <2>2, <2>3, BagSum
    <2> QED
      BY ONLY <2>2, <2>3, <2>4
  <1>7. Live = BagToSet(A) \cup BagToSet(B) \cup {e} /\ Live' = BagToSet(C) \cup BagToSet(D)
    BY <1>2 DEF Live
  <1>8. T \subseteq Live' /\ Live' \subseteq Live \cup T /\ Live \subseteq Live' \cup {e}
    BY ONLY <1>1, <1>5, <1>6, <1>7
  <1>9. ASSUME NEW f
        PROVE  Copies(f)' = Copies(f) - (IF f = e THEN 1 ELSE 0) + (IF f \in T THEN 1 ELSE 0)
    <2>1. PICK a, b, c, d : /\ a = NumberOf(f, A) /\ b = NumberOf(f, B)
                            /\ c = NumberOf(f, C) /\ d = NumberOf(f, D)
      OBVIOUS
    <2>2. a \in Nat /\ b \in Nat
      BY <1>2, <2>1, CopiesType
    <2>3. /\ c = a + (IF f \in T \ late THEN 1 ELSE 0)
          /\ d = b + (IF f \in late THEN 1 ELSE 0)
      BY <1>5, <1>6, <2>1
    <2>4. NumberOf(f, pending)' = c /\ NumberOf(f, discarded)' = d
      BY <1>2, <2>1 DEF NumberOf
    <2>5. Copies(f)' = c + d
      <3>1. c \in Nat /\ d \in Nat
        BY ONLY <2>2, <2>3
      <3>2. Copies(f)' = c + d + 0
        BY <2>4 DEF Copies
      <3> QED
        BY <3>1, <3>2
    <2>6. Copies(f) = a + b + (IF f = e THEN 1 ELSE 0)
      BY <1>2, <2>1 DEF Copies
    <2> QED
      BY ONLY <1>1, <2>2, <2>3, <2>5, <2>6
  <1> QED
    BY <1>2, <1>5, <1>6, <1>8, <1>9
-----------------------------------------------------------------------------
\* Whether an event is in order depends on what was sent only.
LEMMA EventStaysOK ==
  ASSUME Sent' = Sent, NEW e
  PROVE  EventOK(e)' <=> EventOK(e)
  BY DEF EventOK, Switches, PortsOf

\* The loop takes an event: the same events are there.
LEMMA DispatchKeepsEventsInv ==
  ASSUME EventsInv, NEW e \in BagToSet(pending), Dispatch(e), Sent' = Sent
  PROVE  EventsInv' /\ MovingPids' = MovingPids
  <1>1. /\ IsABag(pending') /\ IsABag(discarded') /\ handling' = {e}
        /\ Live' = Live /\ \A f : Copies(f)' = Copies(f)
    BY DispatchKeepsEvents DEF EventsInv
  <1>2. \A f \in Live' : EventOK(f)'
    BY <1>1, EventStaysOK DEF EventsInv
  <1>3. \A f \in Live' : f.type = "ARRIVE" => Copies(f)' = 1
    BY <1>1 DEF EventsInv
  <1>4. \A f, g \in Live' :
          f.type = "ARRIVE" /\ g.type = "ARRIVE" /\ f.packet.pid = g.packet.pid => f = g
    BY <1>1 DEF EventsInv
  <1>5. EventsInv'
    BY <1>1, <1>2, <1>3, <1>4 DEF EventsInv
  <1> QED
    BY <1>1, <1>5 DEF MovingPids

\* What is sent is in order, one packet at most, and none that is on its way
\* but the one that has arrived.
SentOK(e, T) ==
  /\ \A f \in T : EventOK(f)
  /\ \A f, g \in T : f.type = "ARRIVE" /\ g.type = "ARRIVE" => f = g
  /\ \A f \in T, g \in Live :
       f.type = "ARRIVE" /\ g.type = "ARRIVE" /\ f.packet.pid = g.packet.pid => g = e

\* The ids of the packets in the events T.
PidsIn(T) == {f.packet.pid : f \in {g \in T : g.type = "ARRIVE"}}

\* Handling an event that is in order and sends such events.
LEMMA EventsKept ==
  ASSUME EventsInv, NEW e, NEW T, HandlesEvent(e, T), SentOK(e, T), Sent' = Sent
  PROVE  EventsInv' /\ MovingPids' = (MovingPids \ PidsIn({e})) \cup PidsIn(T)
  <1>1. /\ IsABag(pending') /\ IsABag(discarded')
        /\ \A f : Copies(f)' = Copies(f) - (IF f = e THEN 1 ELSE 0) + (IF f \in T THEN 1 ELSE 0)
        /\ T \subseteq Live' /\ Live' \subseteq Live \cup T /\ Live \subseteq Live' \cup {e}
    BY HandleChangesEvents
  <1>2. /\ IsABag(pending) /\ IsABag(discarded) /\ handling = {e} /\ handling' = {}
    BY DEF HandlesEvent
  <1>3. /\ e \in Live
        /\ \A f \in Live : EventOK(f)
        /\ \A f \in Live : f.type = "ARRIVE" => Copies(f) = 1
        /\ \A f, g \in Live :
             f.type = "ARRIVE" /\ g.type = "ARRIVE" /\ f.packet.pid = g.packet.pid => f = g
    BY <1>2 DEF EventsInv, Live
  <1>4. /\ \A f \in T : EventOK(f)
        /\ \A f, g \in T : f.type = "ARRIVE" /\ g.type = "ARRIVE" => f = g
        /\ \A f \in T, g \in Live :
             f.type = "ARRIVE" /\ g.type = "ARRIVE" /\ f.packet.pid = g.packet.pid => g = e
    BY DEF SentOK
  <1>5. \A f \in Live' : EventOK(f)'
    BY <1>1, <1>3, <1>4, EventStaysOK
  <1>6. ASSUME NEW f, f \in Live', f.type = "ARRIVE"
        PROVE  Copies(f)' = 1 /\ (f \in T \/ f # e)
    <2>1. Copies(f) \in Nat /\ (f \in Live <=> Copies(f) # 0)
      BY <1>2, LiveFacts
    <2>2. Copies(f)' \in Nat /\ Copies(f)' # 0
      BY <1>1, <1>6, AllLiveNext
    <2>3. PICK n, m : n = Copies(f) /\ m = Copies(f)'
      OBVIOUS
    <2>4. m = n - (IF f = e THEN 1 ELSE 0) + (IF f \in T THEN 1 ELSE 0)
      BY <1>1, <2>3
    <2>5. CASE f \in T
      <3>1. f \in Live => f = e
        BY <1>4, <1>6, <2>5
      <3>2. f \in Live => n = 1
        BY <1>3, <1>6, <2>3
      <3>3. f \notin Live => n = 0 /\ f # e
        BY <1>3, <2>1, <2>3
      <3> QED
        BY ONLY <2>3, <2>4, <2>5, <3>1, <3>2, <3>3
    <2>6. CASE f \notin T
      <3>1. f \in Live
        BY <1>1, <1>6, <2>6
      <3>2. n = 1
        BY <1>3, <1>6, <2>3, <3>1
      <3> QED
        BY ONLY <2>2, <2>3, <2>4, <2>6, <3>2
    <2> QED
      BY <2>5, <2>6
  <1>7. ASSUME NEW f \in Live', NEW g \in Live', f.type = "ARRIVE", g.type = "ARRIVE",
               f.packet.pid = g.packet.pid
        PROVE  f = g
    <2>1. (f \in T \/ (f \in Live /\ f # e)) /\ (g \in T \/ (g \in Live /\ g # e))
      BY <1>1, <1>6, <1>7
    <2> QED
      BY <1>3, <1>4, <1>7, <2>1
  <1>8. EventsInv'
    BY <1>1, <1>2, <1>5, <1>6, <1>7 DEF EventsInv
  <1>9. ASSUME NEW x PROVE x \in MovingPids' <=> x \in (MovingPids \ PidsIn({e})) \cup PidsIn(T)
    <2>1. ASSUME x \in MovingPids'
          PROVE  x \in (MovingPids \ PidsIn({e})) \cup PidsIn(T)
      <3>1. PICK f \in Live' : f.type = "ARRIVE" /\ x = f.packet.pid
        BY <2>1 DEF MovingPids
      <3>2. CASE f \in T
        BY <3>1, <3>2 DEF PidsIn
      <3>3. CASE f \notin T
        <4>1. f \in Live /\ f # e
          BY <1>1, <1>6, <3>1, <3>3
        <4>2. x \notin PidsIn({e})
          BY <1>3, <3>1, <4>1 DEF PidsIn
        <4> QED
          BY <3>1, <4>1, <4>2 DEF MovingPids
      <3> QED
        BY <3>2, <3>3
    <2>2. ASSUME x \in PidsIn(T) PROVE x \in MovingPids'
      BY <1>1, <2>2 DEF PidsIn, MovingPids
    <2>3. ASSUME x \in MovingPids, x \notin PidsIn({e}) PROVE x \in MovingPids'
      <3>1. PICK f \in Live : f.type = "ARRIVE" /\ x = f.packet.pid
        BY <2>3 DEF MovingPids
      <3>2. f # e
        BY <2>3, <3>1 DEF PidsIn
      <3> QED
        BY <1>1, <3>1, <3>2 DEF MovingPids
    <2> QED
      BY <2>1, <2>2, <2>3
  <1>10. MovingPids' = (MovingPids \ PidsIn({e})) \cup PidsIn(T)
    BY <1>9
  <1> QED
    BY <1>8, <1>10
-----------------------------------------------------------------------------
(* What the handlers of a switch do, as far as packets and events go.      *)

\* The parts of a switch are the same for all switches.
LEMMA SameParts ==
  ASSUME NEW s
  PROVE  /\ \A port, type : S(s)!MeterIndex(port, type) = MeterIndex(port, type)
         /\ \A qs, port : S(s)!NextLevel(qs, port) = NextLevel(qs, port)
         /\ \A qs, port : S(s)!Serve(qs, port) = Serve(qs, port)
         /\ \A qs, port : S(s)!NextPacket(qs, port) = NextPacket(qs, port)
         /\ \A qs, port : S(s)!Backlogged(qs, port) <=> Backlogged(qs, port)
         /\ \A st, pid, delay, drop :
              S(s)!UpdateStats(st, pid, delay, drop) = UpdateStats(st, pid, delay, drop)
  <1>1. \A port, type : S(s)!MeterIndex(port, type) = MeterIndex(port, type)
    BY DEF S!MeterIndex, S!NUM_QOS_LEVEL, MeterIndex, NUM_QOS_LEVEL
  <1>2. S(s)!Levels = Levels
    BY DEF S!Levels, S!NUM_QOS_LEVEL, Levels, NUM_QOS_LEVEL
  <1>3. \A qs, port : S(s)!NextLevel(qs, port) = NextLevel(qs, port)
    BY <1>1, <1>2 DEF S!NextLevel, NextLevel
  <1>4. \A qs, port : S(s)!Serve(qs, port) = Serve(qs, port)
    BY <1>1, <1>3 DEF S!Serve, Serve
  <1>5. \A qs, port : S(s)!NextPacket(qs, port) = NextPacket(qs, port)
    BY <1>1, <1>3 DEF S!NextPacket, NextPacket
  <1>6. \A qs, port : S(s)!Backlogged(qs, port) <=> Backlogged(qs, port)
    BY <1>1, <1>2 DEF S!Backlogged, Backlogged
  <1>7. \A st, pid, delay, drop :
          S(s)!UpdateStats(st, pid, delay, drop) = UpdateStats(st, pid, delay, drop)
    BY DEF S!UpdateStats, UpdateStats
  <1> QED
    BY <1>1, <1>3, <1>4, <1>5, <1>6, <1>7

\* The queues of s with p in its place, and its port.
PortOf(s, p)    == Route[s][p.dest].port_id
QueuedAt(s, p)  == [queues EXCEPT ![HomeOf(s, p)] = Append(@, p)]

\* The event d takes the packet p to the next hop of q; the event d wakes the port up.
TakesOn(s, d, p, q) ==
  d.type = "ARRIVE" /\ d.packet = p /\ d.to = Route[s][q.dest].nextHop
WakesUp(d, port) == {"type", "port"} \subseteq DOMAIN d /\ d.type = "SEND" /\ d.port = port

\* Packets are counted, but none is recorded.
OnlyCounted ==
  \/ stats' = stats
  \/ stats' = [stats EXCEPT !.received = @ + 1]
  \/ stats' = [stats EXCEPT !.received = @ + 1, !.num_packets_sent = @ + 1]

\* The outcomes of an ARRIVE event.
PacketRecorded(s, p) ==
  /\ queues' = queues /\ port_flags' = port_flags /\ done'.sent = {}
  /\ \E st, delay, drop :
       /\ st = stats \/ st = [stats EXCEPT !.received = @ + 1]
       /\ stats' = UpdateStats(st, p.pid, delay, drop)
       /\ (drop = FALSE /\ p.dest = s) \/ (drop = TRUE /\ p.dest # s)

PacketPasses(s, p) ==
  /\ p.dest # s /\ OnlyCounted
  /\ queues' = Serve(QueuedAt(s, p), PortOf(s, p)) /\ port_flags' = port_flags
  /\ \E d : /\ done'.sent = {d}
            /\ TakesOn(s, d, NextPacket(QueuedAt(s, p), PortOf(s, p)), p)

PacketWaits(s, p) ==
  /\ p.dest # s /\ OnlyCounted
  /\ queues' = QueuedAt(s, p)
  /\ \/ /\ port_flags' = [port_flags EXCEPT ![PortOf(s, p)] = 1]
        /\ \E d : done'.sent = {d} /\ WakesUp(d, PortOf(s, p))
     \/ /\ port_flags[PortOf(s, p)] # 0
        /\ port_flags' = port_flags /\ done'.sent = {}

LEMMA ArriveDoes ==
  ASSUME NEW s, NEW p, NEW now, S(s)!Arrive(p, now)
  PROVE  PacketRecorded(s, p) \/ PacketPasses(s, p) \/ PacketWaits(s, p)
  <1>1. S(s)!OutPort(p) = PortOf(s, p)
    BY DEF S!OutPort, PortOf
  <1>2. S(s)!PacketMeter(p) = HomeOf(s, p)
    BY <1>1, SameParts DEF S!PacketMeter, HomeOf, PortOf
  <1>3. S(s)!Enqueued(p) = QueuedAt(s, p)
    BY <1>2 DEF S!Enqueued, QueuedAt
  <1>4. CASE S(s)!ArriveFinal(p, now)
    <2>1. stats' = UpdateStats(stats, p.pid, now - p.send_time, FALSE)
      <3>1. stats' = S(s)!UpdateStats(stats, p.pid, now - p.send_time, FALSE)
        BY <1>4 DEF S!ArriveFinal
      <3>2. \A st, pid, delay, drop :
              S(s)!UpdateStats(st, pid, delay, drop) = UpdateStats(st, pid, delay, drop)
        BY SameParts
      <3> QED
        BY ONLY <3>1, <3>2, Zenon
    <2>2. queues' = queues /\ port_flags' = port_flags /\ done'.sent = {} /\ p.dest = s
      BY <1>4 DEF S!ArriveFinal, S!arrays, S!ports
    <2> QED
      BY <2>1, <2>2, Zenon DEF PacketRecorded
  <1>5. CASE S(s)!ArriveDropped(p, now)
    <2>1. stats' = UpdateStats([stats EXCEPT !.received = @ + 1], p.pid, 0, TRUE)
      <3>1. stats' = S(s)!UpdateStats([stats EXCEPT !.received = @ + 1], p.pid, 0, TRUE)
        BY <1>5 DEF S!ArriveDropped
      <3>2. \A st, pid, delay, drop :
              S(s)!UpdateStats(st, pid, delay, drop) = UpdateStats(st, pid, delay, drop)
        BY SameParts
      <3> QED
        BY ONLY <3>1, <3>2, Zenon
    <2>2. queues' = queues /\ port_flags' = port_flags /\ done'.sent = {} /\ p.dest # s
      BY <1>5 DEF S!ArriveDropped, S!ports
    <2> QED
      BY <2>1, <2>2, Zenon DEF PacketRecorded
  <1>6. CASE S(s)!ArriveSendsNow(p, now)
    <2>1. PICK qs, port, d :
            /\ qs = QueuedAt(s, p) /\ port = PortOf(s, p)
            /\ d = S(s)!Departure(qs, port, S(s)!NextHop(p), now)
      OBVIOUS
    <2>2. p.dest # s /\ port_flags' = port_flags
      BY <1>6 DEF S!ArriveSendsNow
    <2>3. OnlyCounted
      BY <1>6 DEF S!ArriveSendsNow, OnlyCounted
    <2>4. done'.sent = {d}
      BY <1>1, <1>3, <1>6, <2>1 DEF S!ArriveSendsNow
    <2>5. queues' = Serve(qs, port)
      BY <1>1, <1>3, <1>6, <2>1, SameParts DEF S!ArriveSendsNow, S!SendNextPacket
    <2>6. TakesOn(s, d, NextPacket(qs, port), p)
      BY <2>1, SameParts DEF S!Departure, S!NextHop, TakesOn
    <2> QED
      BY <2>1, <2>2, <2>3, <2>4, <2>5, <2>6 DEF PacketPasses
  <1>7. ASSUME S(s)!ArriveWaits(p, now)
        PROVE  p.dest # s /\ queues' = QueuedAt(s, p) /\ OnlyCounted
    BY <1>3, <1>7 DEF S!ArriveWaits, OnlyCounted
  <1>8. CASE S(s)!ArriveSchedulesSend(p, now)
    <2>1. PICK d : d = S(s)!Wakeup(S(s)!Refilled(PortOf(s, p), now), QueuedAt(s, p), PortOf(s, p))
      OBVIOUS
    <2>2. /\ port_flags' = [port_flags EXCEPT ![PortOf(s, p)] = 1]
          /\ done'.sent = {d} /\ S(s)!ArriveWaits(p, now)
      BY <1>1, <1>3, <1>8, <2>1 DEF S!ArriveSchedulesSend
    <2>3. WakesUp(d, PortOf(s, p))
      BY <2>1 DEF S!Wakeup, WakesUp
    <2> QED
      BY <1>7, <2>2, <2>3 DEF PacketWaits
  <1>9. CASE S(s)!ArriveJoinsQueue(p, now)
    <2>1. /\ S(s)!ArriveWaits(p, now) /\ port_flags[PortOf(s, p)] # 0
          /\ port_flags' = port_flags /\ done'.sent = {}
      BY <1>1, <1>9 DEF S!ArriveJoinsQueue
    <2> QED
      BY <1>7, <2>1 DEF PacketWaits
  <1> QED
    BY <1>4, <1>5, <1>6, <1>8, <1>9 DEF S!Arrive

\* The outcomes of a SEND event.
PacketSent(s, port) ==
  /\ Backlogged(queues, port) /\ queues' = Serve(queues, port) /\ OnlyCounted
  /\ \E d : /\ TakesOn(s, d, NextPacket(queues, port), NextPacket(queues, port))
            /\ \/ /\ ~ Backlogged(Serve(queues, port), port)
                  /\ port_flags' = [port_flags EXCEPT ![port] = 0]
                  /\ done'.sent = {d}
               \/ \E w : WakesUp(w, port) /\ port_flags' = port_flags /\ done'.sent = {d, w}

SendingPutOff(port) ==
  /\ queues' = queues /\ port_flags' = port_flags /\ OnlyCounted
  /\ \E w : WakesUp(w, port) /\ done'.sent = {w}

LEMMA SendDoes ==
  ASSUME NEW s, NEW port, NEW now, S(s)!Send(port, now)
  PROVE  PacketSent(s, port) \/ SendingPutOff(port)
  <1>1. CASE S(s)!SendLast(port, now)
    <2>1. PICK d : d = S(s)!OwnDeparture(port, now)
      OBVIOUS
    <2>2. TakesOn(s, d, NextPacket(queues, port), NextPacket(queues, port))
      BY <2>1, SameParts DEF S!OwnDeparture, S!Departure, S!NextHop, TakesOn
    <2>3. /\ Backlogged(queues, port) /\ ~ Backlogged(Serve(queues, port), port)
          /\ queues' = Serve(queues, port)
      BY <1>1, SameParts DEF S!SendLast, S!SendNextPacket
    <2>4. /\ port_flags' = [port_flags EXCEPT ![port] = 0]
          /\ done'.sent = {d} /\ OnlyCounted
      BY <1>1, <2>1 DEF S!SendLast, S!FlagCleared, OnlyCounted
    <2> QED
      BY <2>2, <2>3, <2>4 DEF PacketSent
  <1>2. CASE S(s)!SendOneOfMany(port, now)
    <2>1. PICK d, w : /\ d = S(s)!OwnDeparture(port, now)
                      /\ w = S(s)!Wakeup(shapers'[port], S(s)!Serve(queues, port), port)
      OBVIOUS
    <2>2. TakesOn(s, d, NextPacket(queues, port), NextPacket(queues, port)) /\ WakesUp(w, port)
      BY <2>1, SameParts DEF S!OwnDeparture, S!Departure, S!NextHop, S!Wakeup, TakesOn, WakesUp
    <2>3. Backlogged(queues, port) /\ queues' = Serve(queues, port)
      BY <1>2, SameParts DEF S!SendOneOfMany, S!SendNextPacket
    <2>4. port_flags' = port_flags /\ done'.sent = {d, w} /\ OnlyCounted
      BY <1>2, <2>1 DEF S!SendOneOfMany, OnlyCounted
    <2> QED
      BY <2>2, <2>3, <2>4 DEF PacketSent
  <1>3. CASE S(s)!SendPostponed(port, now)
    <2>1. PICK w : w = S(s)!Wakeup(S(s)!Refilled(port, now), queues, port)
      OBVIOUS
    <2>2. WakesUp(w, port)
      BY <2>1 DEF S!Wakeup, WakesUp
    <2>3. queues' = queues /\ port_flags' = port_flags /\ OnlyCounted /\ done'.sent = {w}
      BY <1>3, <2>1 DEF S!SendPostponed, S!Postponed, S!ports, OnlyCounted
    <2> QED
      BY <2>2, <2>3 DEF SendingPutOff
  <1> QED
    BY <1>1, <1>2, <1>3 DEF S!Send
-----------------------------------------------------------------------------
(* The records of a switch, and its queues.                                *)

\* The ids that there are records of.
IdsOf(st) == {st.records[i].pid : i \in DOMAIN st.records}

\* Counting a packet leaves the records as they are.
LEMMA CountKeepsRecords ==
  ASSUME RecordsOK(stats), OnlyCounted
  PROVE  RecordsOK(stats') /\ stats'.records = stats.records
  <1>1. PICK st, st2 : st = stats /\ st2 = stats'
    OBVIOUS
  <1>2. RecordsOK(st)
    BY <1>1
  <1>3. \/ st2 = st
        \/ st2 = [st EXCEPT !.received = @ + 1]
        \/ st2 = [st EXCEPT !.received = @ + 1, !.num_packets_sent = @ + 1]
    BY <1>1 DEF OnlyCounted
  <1>4. /\ st2.records = st.records
        /\ st2.num_packets_recvd = st.num_packets_recvd
        /\ st2.num_packets_dropped = st.num_packets_dropped
        /\ st2 = [received |-> st2.received, num_packets_recvd |-> st2.num_packets_recvd,
                  num_packets_dropped |-> st2.num_packets_dropped,
                  num_packets_sent |-> st2.num_packets_sent, records |-> st2.records,
                  records_capacity |-> st2.records_capacity]
    BY ONLY <1>2, <1>3 DEF RecordsOK
  <1> QED
    BY <1>1, <1>2, <1>4 DEF RecordsOK

\* A new record is behind the others.
LEMMA RecordAdded ==
  ASSUME NEW st, RecordsOK(st), NEW pid, pid \notin IdsOf(st), NEW delay, NEW drop,
         NEW st2, st2 = UpdateStats(st, pid, delay, drop)
  PROVE  /\ RecordsOK(st2) /\ IdsOf(st2) = IdsOf(st) \cup {pid}
         /\ \A i \in DOMAIN st.records :
              i \in DOMAIN st2.records /\ st2.records[i] = st.records[i]
         /\ \E i \in DOMAIN st2.records :
              st2.records[i].pid = pid /\ st2.records[i].drop = drop
  <1>1. PICK rs, a, b, X :
          /\ rs = st.records /\ a = st.num_packets_recvd /\ b = st.num_packets_dropped
          /\ X = {rs[i] : i \in DOMAIN rs}
    OBVIOUS
  <1>2. /\ rs \in Seq(X) /\ a \in Nat /\ b \in Nat /\ Len(rs) = a + b
        /\ \A i, j \in DOMAIN rs : rs[i].pid = rs[j].pid => i = j
    BY <1>1 DEF RecordsOK
  <1>3. PICK r, Y, n : /\ r = [pid |-> pid, delay |-> delay, drop |-> drop]
                       /\ Y = X \cup {r} /\ n = Len(rs) + 1
    OBVIOUS
  <1>4. PICK rs2 : rs2 = Append(rs, r)
    OBVIOUS
  <1>5. rs \in Seq(Y) /\ r \in Y
    BY <1>2, <1>3
  <1>6. /\ rs2 \in Seq(Y) /\ DOMAIN rs2 = DOMAIN rs \cup {n} /\ rs2[n] = r
        /\ \A i \in DOMAIN rs : i <= Len(rs) /\ i \in Nat /\ rs2[i] = rs[i] /\ rs[i] \in Y
        /\ Len(rs) \in Nat
    BY <1>3, <1>4, <1>5, AppendFacts
  <1>7. SubSeq(rs, 1, a + b) \o <<r>> = rs2
    <2>1. SubSeq(rs, 1, Len(rs)) = rs
      BY <1>2
    <2>2. rs \o <<r>> = Append(rs, r)
      BY <1>5
    <2> QED
      BY <1>2, <1>4, <2>1, <2>2
  <1>8. /\ st2 = [received |-> st2.received, num_packets_recvd |-> st2.num_packets_recvd,
                  num_packets_dropped |-> st2.num_packets_dropped,
                  num_packets_sent |-> st2.num_packets_sent, records |-> st2.records,
                  records_capacity |-> st2.records_capacity]
        /\ st2.records = SubSeq(rs, 1, a + b) \o <<r>>
        /\ st2.num_packets_recvd = IF drop THEN a ELSE a + 1
        /\ st2.num_packets_dropped = IF drop THEN b + 1 ELSE b
    BY <1>1, <1>3 DEF UpdateStats, RecordsOK
  <1>9. \A i, j \in DOMAIN rs2 : rs2[i].pid = rs2[j].pid => i = j
    <2>1. r.pid = pid /\ \A i \in DOMAIN rs : rs[i].pid # pid
      BY <1>1, <1>3 DEF IdsOf
    <2> QED
      BY <1>2, <1>6, <2>1
  <1>10. rs2 \in Seq({rs2[i] : i \in DOMAIN rs2})
    <2>1. Len(rs2) = n /\ n \in Nat /\ DOMAIN rs2 = 1 .. n
      BY <1>3, <1>4, <1>5, <1>6, AppendProperties
    <2>2. rs2 = [i \in 1 .. n |-> rs2[i]]
      BY <1>6, <2>1
    <2>3. \A i \in 1 .. n : rs2[i] \in {rs2[j] : j \in DOMAIN rs2}
      BY <2>1
    <2>4. rs2 \in [1 .. n -> {rs2[j] : j \in DOMAIN rs2}]
      BY ONLY <2>2, <2>3
    <2> QED
      BY <2>1, <2>4, SeqDef
  <1>11. Len(rs2) = n
    BY <1>3, <1>4, <1>5, AppendProperties
  <1>12. st2.records = rs2
    BY <1>7, <1>8
  <1>13. RecordsOK(st2)
    <2>1. st2.num_packets_recvd \in Nat /\ st2.num_packets_dropped \in Nat
      BY <1>2, <1>8
    <2>2. Len(st2.records) = st2.num_packets_recvd + st2.num_packets_dropped
      BY <1>2, <1>3, <1>8, <1>11, <1>12
    <2> QED
      BY <1>8, <1>9, <1>10, <1>12, <2>1, <2>2 DEF RecordsOK
  <1>14. IdsOf(st2) = IdsOf(st) \cup {pid}
    <2>1. r.pid = pid
      BY <1>3
    <2>2. IdsOf(st2) = {rs2[i].pid : i \in DOMAIN rs2} /\ IdsOf(st) = {rs[i].pid : i \in DOMAIN rs}
      BY <1>1, <1>12 DEF IdsOf
    <2> QED
      BY <1>6, <2>1, <2>2
  <1>15. \A i \in DOMAIN st.records :
           i \in DOMAIN st2.records /\ st2.records[i] = st.records[i]
    BY <1>1, <1>6, <1>12
  <1>16. n \in DOMAIN st2.records /\ st2.records[n].pid = pid /\ st2.records[n].drop = drop
    <2>1. r.pid = pid /\ r.drop = drop
      BY <1>3
    <2> QED
      BY <1>6, <1>12, <2>1
  <1> QED
    BY <1>13, <1>14, <1>15, <1>16

\* A switch has as many queues for each of its ports as there are classes.
LEMMA SwitchIndexed ==
  ASSUME NEW s \in Switches PROVE Indexed(QueuesOf(s), PortsOf(s))
  <1>1. PICK n \in Nat : n = Len(Config[s].ports)
    BY RouteAssumption
  <1>2. PortsOf(s) = 0 .. n - 1 /\ QueuesOf(s) = 0 .. 3 * n - 1
    BY <1>1 DEF PortsOf, QueuesOf, NUM_QOS_LEVEL
  <1>3. ASSUME NEW port \in 0 .. n - 1, NEW level \in Levels
        PROVE  MeterIndex(port, level) \in 0 .. 3 * n - 1
    BY DEF MeterIndex, Levels, NUM_QOS_LEVEL
  <1> QED
    BY <1>2, <1>3 DEF Indexed

\* A packet that goes on has a queue at s.
Routed(s, p) ==
  /\ p \in Sent /\ p.dest # s
  /\ PortOf(s, p) \in PortsOf(s) /\ p.type \in Levels
  /\ Route[s][p.dest].nextHop \in Switches

\* The queues qs2 are the queues qs with p at the end of one queue of port.
JoinsQueue(qs, qs2, I, N, port, level, p) ==
  /\ Indexed(I, N) /\ port \in N /\ level \in Levels /\ p \in Sent
  /\ qs \in [I -> Seq(Sent)] /\ qs2 \in [I -> Seq(Sent)]
  /\ qs2[MeterIndex(port, level)] = Append(qs[MeterIndex(port, level)], p)
  /\ \A j \in I : j # MeterIndex(port, level) => qs2[j] = qs[j]

LEMMA JoinChanges ==
  ASSUME NEW qs, NEW qs2, NEW I, NEW N, NEW port, NEW level, NEW p,
         JoinsQueue(qs, qs2, I, N, port, level, p)
  PROVE  /\ Backlogged(qs2, port)
         /\ Backlogged(Serve(qs2, port), port) <=> Backlogged(qs, port)
         /\ \A other \in N : other # port =>
              /\ Backlogged(qs2, other) <=> Backlogged(qs, other)
              /\ Backlogged(Serve(qs2, port), other) <=> Backlogged(qs, other)
  <1>1. PICK P : P = Sent
    OBVIOUS
  <1>2. /\ Indexed(I, N) /\ port \in N /\ level \in Levels /\ p \in P
        /\ qs \in [I -> Seq(P)] /\ qs2 \in [I -> Seq(P)]
        /\ qs2[MeterIndex(port, level)] = Append(qs[MeterIndex(port, level)], p)
        /\ \A j \in I : j # MeterIndex(port, level) => qs2[j] = qs[j]
    BY <1>1 DEF JoinsQueue
  <1> QED
    BY ONLY <1>2, EnqueueChanges

\* A packet that is queued at s.
LEMMA QueueIn ==
  ASSUME NEW s \in Switches, QueuesOK(s, queues),
         NEW p, Routed(s, p), p.pid \notin WaitingAt(queues, QueuesOf(s))
  PROVE  /\ QueuesOK(s, QueuedAt(s, p))
         /\ WaitingAt(QueuedAt(s, p), QueuesOf(s)) = WaitingAt(queues, QueuesOf(s)) \cup {p.pid}
         /\ Backlogged(QueuedAt(s, p), PortOf(s, p))
         /\ Backlogged(Serve(QueuedAt(s, p), PortOf(s, p)), PortOf(s, p))
              <=> Backlogged(queues, PortOf(s, p))
         /\ \A other \in PortsOf(s) : other # PortOf(s, p) =>
              /\ Backlogged(QueuedAt(s, p), other) <=> Backlogged(queues, other)
              /\ Backlogged(Serve(QueuedAt(s, p), PortOf(s, p)), other)
                   <=> Backlogged(queues, other)
  <1>1. PICK I, N, qs, qs2, port, c :
          /\ I = QueuesOf(s) /\ N = PortsOf(s) /\ qs = queues /\ qs2 = QueuedAt(s, p)
          /\ port = PortOf(s, p) /\ c = HomeOf(s, p)
    OBVIOUS
  <1>2. /\ qs \in [I -> Seq(Sent)] /\ DistinctAt(qs, I)
        /\ \A i \in I : \A k \in DOMAIN qs[i] : qs[i][k].dest # s /\ i = HomeOf(s, qs[i][k])
    BY <1>1 DEF QueuesOK
  <1>3. Indexed(I, N)
    BY <1>1, SwitchIndexed
  <1>4. port \in N /\ p.type \in Levels /\ p \in Sent /\ p.dest # s
    BY <1>1 DEF Routed
  <1>5. c = MeterIndex(port, p.type)
    BY <1>1 DEF HomeOf, PortOf
  <1>6. c \in I
    BY <1>3, <1>4, <1>5, IndexedFacts
  <1>7. qs2 = [qs EXCEPT ![c] = Append(@, p)]
    BY <1>1 DEF QueuedAt
  <1>8. /\ Append(qs[c], p) \in Seq(Sent)
        /\ \A k \in DOMAIN Append(qs[c], p) :
             (k \in DOMAIN qs[c] /\ Append(qs[c], p)[k] = qs[c][k]) \/ Append(qs[c], p)[k] = p
    <2>1. PICK queue \in Seq(Sent) : queue = qs[c]
      BY <1>2, <1>6
    <2>2. /\ Append(queue, p) \in Seq(Sent)
          /\ DOMAIN Append(queue, p) = DOMAIN queue \cup {Len(queue) + 1}
          /\ Append(queue, p)[Len(queue) + 1] = p
          /\ \A i \in DOMAIN queue : Append(queue, p)[i] = queue[i]
      BY <1>4, AppendFacts
    <2> QED
      BY <2>1, <2>2
  <1>9. /\ qs2 \in [I -> Seq(Sent)] /\ qs2[c] = Append(qs[c], p)
        /\ \A j \in I : j # c => qs2[j] = qs[j]
    BY <1>2, <1>6, <1>7, <1>8
  <1>10. Joined(qs, qs2, I, Sent, c, p)
    BY <1>2, <1>4, <1>6, <1>9 DEF Joined
  <1>11. WaitingAt(qs2, I) = WaitingAt(qs, I) \cup {p.pid} /\ DistinctAt(qs2, I)
    BY <1>1, <1>2, <1>10, EnqueueAdds
  <1>12. ASSUME NEW i \in I, NEW k \in DOMAIN qs2[i]
         PROVE  qs2[i][k].dest # s /\ i = HomeOf(s, qs2[i][k])
    <2>1. CASE i = c
      <3>1. (k \in DOMAIN qs[c] /\ qs2[c][k] = qs[c][k]) \/ qs2[c][k] = p
        BY <1>8, <1>9, <1>12, <2>1
      <3> QED
        BY <1>1, <1>2, <1>4, <2>1, <3>1
    <2>2. CASE i # c
      BY <1>2, <1>9, <2>2
    <2> QED
      BY <2>1, <2>2
  <1>13. QueuesOK(s, qs2)
    BY <1>1, <1>9, <1>11, <1>12 DEF QueuesOK
  <1>14. /\ Backlogged(qs2, port)
         /\ Backlogged(Serve(qs2, port), port) <=> Backlogged(qs, port)
         /\ \A other \in N : other # port =>
              /\ Backlogged(qs2, other) <=> Backlogged(qs, other)
              /\ Backlogged(Serve(qs2, port), other) <=> Backlogged(qs, other)
    <2>1. PICK level : level \in Levels /\ c = MeterIndex(port, level)
      BY <1>4, <1>5
    <2>2. /\ qs2[MeterIndex(port, level)] = Append(qs[MeterIndex(port, level)], p)
          /\ \A j \in I : j # MeterIndex(port, level) => qs2[j] = qs[j]
      BY ONLY <1>9, <2>1
    <2>3. JoinsQueue(qs, qs2, I, N, port, level, p)
      BY ONLY <1>2, <1>3, <1>4, <1>9, <2>1, <2>2 DEF JoinsQueue
    <2> QED
      BY ONLY <2>3, JoinChanges
  <1> QED
    BY <1>1, <1>11, <1>13, <1>14

\* A packet that is sent from s.
LEMMA QueueOut ==
  ASSUME NEW s \in Switches, NEW qs, QueuesOK(s, qs),
         NEW port \in PortsOf(s), Backlogged(qs, port)
  PROVE  /\ QueuesOK(s, Serve(qs, port))
         /\ NextPacket(qs, port) \in Sent /\ NextPacket(qs, port).dest # s
         /\ NextPacket(qs, port).pid \in WaitingAt(qs, QueuesOf(s))
         /\ WaitingAt(Serve(qs, port), QueuesOf(s))
              = WaitingAt(qs, QueuesOf(s)) \ {NextPacket(qs, port).pid}
         /\ \A other \in PortsOf(s) : other # port =>
              (Backlogged(Serve(qs, port), other) <=> Backlogged(qs, other))
  <1>1. PICK I, N, qs2, p, c :
          /\ I = QueuesOf(s) /\ N = PortsOf(s) /\ qs2 = Serve(qs, port)
          /\ p = NextPacket(qs, port) /\ c = MeterIndex(port, NextLevel(qs, port))
    OBVIOUS
  <1>2. /\ qs \in [I -> Seq(Sent)] /\ DistinctAt(qs, I)
        /\ \A i \in I : \A k \in DOMAIN qs[i] : qs[i][k].dest # s /\ i = HomeOf(s, qs[i][k])
    BY <1>1 DEF QueuesOK
  <1>3. Indexed(I, N) /\ port \in N
    BY <1>1, SwitchIndexed
  <1>4. /\ c \in I /\ qs2 \in [I -> Seq(Sent)] /\ qs2[c] = Tail(qs[c])
        /\ \A j \in I : j # c => qs2[j] = qs[j]
        /\ \A other \in N : other # port => (Backlogged(qs2, other) <=> Backlogged(qs, other))
    BY <1>1, <1>2, <1>3, ServeChanges
  <1>5. /\ qs[c] # <<>> /\ p = qs[c][1] /\ p \in Sent
    BY <1>1, <1>2, <1>3, HeadOfLine
  <1>6. /\ p.pid \in WaitingAt(qs, I)
        /\ WaitingAt(qs2, I) = WaitingAt(qs, I) \ {p.pid}
        /\ DistinctAt(qs2, I)
    BY <1>1, <1>2, <1>3, ServeTakes
  <1>7. PICK queue \in Seq(Sent) : queue = qs[c]
    BY <1>2, <1>4
  <1>8. /\ 1 \in DOMAIN queue
        /\ \A k \in DOMAIN Tail(queue) : k + 1 \in DOMAIN queue /\ Tail(queue)[k] = queue[k + 1]
    BY <1>5, <1>7
  <1>9. p.dest # s
    BY <1>2, <1>4, <1>5, <1>7, <1>8
  <1>10. ASSUME NEW i \in I, NEW k \in DOMAIN qs2[i]
         PROVE  qs2[i][k].dest # s /\ i = HomeOf(s, qs2[i][k])
    <2>1. CASE i = c
      <3>1. k + 1 \in DOMAIN qs[c] /\ qs2[c][k] = qs[c][k + 1]
        BY <1>4, <1>7, <1>8, <1>10, <2>1
      <3> QED
        BY <1>2, <1>4, <2>1, <3>1
    <2>2. CASE i # c
      BY <1>2, <1>4, <2>2
    <2> QED
      BY <2>1, <2>2
  <1>11. QueuesOK(s, qs2)
    BY <1>1, <1>4, <1>6, <1>10 DEF QueuesOK
  <1> QED
    BY <1>1, <1>4, <1>5, <1>6, <1>9, <1>11
-----------------------------------------------------------------------------
(* Where the packets are: three moves that lose and double none.           *)

LEMMA ApartFacts ==
  ASSUME NEW W, NEW R, NEW O, NEW All, Apart(W, R, O, All)
  PROVE  /\ \A s, t \in Switches : s # t => W[s] \cap W[t] = {} /\ R[s] \cap R[t] = {}
         /\ \A s, t \in Switches : W[s] \cap R[t] = {}
         /\ \A s \in Switches : W[s] \cap O = {} /\ R[s] \cap O = {}
         /\ \A x : x \in All <=> x \in O \/ \E s \in Switches : x \in W[s] \/ x \in R[s]
  BY DEF Apart

\* The same, the other way round.
LEMMA ApartBy ==
  ASSUME NEW W, NEW R, NEW O, NEW All,
         \A s, t \in Switches : s # t => W[s] \cap W[t] = {} /\ R[s] \cap R[t] = {},
         \A s, t \in Switches : W[s] \cap R[t] = {},
         \A s \in Switches : W[s] \cap O = {} /\ R[s] \cap O = {},
         \A x : x \in All <=> x \in O \/ \E s \in Switches : x \in W[s] \/ x \in R[s]
  PROVE  Apart(W, R, O, All)
  <1>1. All = O \cup UNION {W[s] \cup R[s] : s \in Switches}
    OBVIOUS
  <1> QED
    BY <1>1 DEF Apart

\* From the way into a record.
LEMMA ApartRecord ==
  ASSUME NEW W, NEW R, NEW O, NEW All, Apart(W, R, O, All), DOMAIN R = Switches,
         NEW s \in Switches, NEW x \in O
  PROVE  x \notin R[s] /\ Apart(W, [R EXCEPT ![s] = R[s] \cup {x}], O \ {x}, All)
  <1>1. PICK R2, O2 : R2 = [R EXCEPT ![s] = R[s] \cup {x}] /\ O2 = O \ {x}
    OBVIOUS
  <1>2. /\ R2[s] = R[s] \cup {x}
        /\ \A t \in Switches : t # s => R2[t] = R[t]
    BY <1>1
  <1>3. \A t \in Switches : x \notin W[t] /\ x \notin R[t]
    BY ApartFacts
  <1>4. \A t, u \in Switches : t # u => W[t] \cap W[u] = {} /\ R2[t] \cap R2[u] = {}
    <2>1. \A t, u \in Switches : t # u => W[t] \cap W[u] = {} /\ R[t] \cap R[u] = {}
      BY ApartFacts
    <2> QED
      BY <1>2, <1>3, <2>1
  <1>5. \A t, u \in Switches : W[t] \cap R2[u] = {}
    <2>1. \A t, u \in Switches : W[t] \cap R[u] = {}
      BY ApartFacts
    <2> QED
      BY <1>2, <1>3, <2>1
  <1>6. \A t \in Switches : W[t] \cap O2 = {} /\ R2[t] \cap O2 = {}
    <2>1. \A t \in Switches : W[t] \cap O = {} /\ R[t] \cap O = {}
      BY ApartFacts
    <2> QED
      BY <1>1, <1>2, <1>3, <2>1
  <1>7. \A y : y \in All <=> y \in O2 \/ \E t \in Switches : y \in W[t] \/ y \in R2[t]
    <2>1. \A y : y \in All <=> y \in O \/ \E t \in Switches : y \in W[t] \/ y \in R[t]
      BY ApartFacts
    <2>2. \A t \in Switches : R2[t] = IF t = s THEN R[t] \cup {x} ELSE R[t]
      BY <1>2
    <2> QED
      BY <1>1, <2>1, <2>2
  <1>8. Apart(W, R2, O2, All)
    BY ONLY <1>4, <1>5, <1>6, <1>7, ApartBy
  <1> QED
    BY ONLY <1>1, <1>3, <1>8

\* From the way into a queue.
LEMMA ApartIn ==
  ASSUME NEW W, NEW R, NEW O, NEW All, Apart(W, R, O, All), DOMAIN W = Switches,
         NEW s \in Switches, NEW x \in O
  PROVE  x \notin W[s] /\ Apart([W EXCEPT ![s] = W[s] \cup {x}], R, O \ {x}, All)
  <1>1. PICK W2, O2 : W2 = [W EXCEPT ![s] = W[s] \cup {x}] /\ O2 = O \ {x}
    OBVIOUS
  <1>2. /\ W2[s] = W[s] \cup {x}
        /\ \A t \in Switches : t # s => W2[t] = W[t]
    BY <1>1
  <1>3. \A t \in Switches : x \notin W[t] /\ x \notin R[t]
    BY ApartFacts
  <1>4. \A t, u \in Switches : t # u => W2[t] \cap W2[u] = {} /\ R[t] \cap R[u] = {}
    <2>1. \A t, u \in Switches : t # u => W[t] \cap W[u] = {} /\ R[t] \cap R[u] = {}
      BY ApartFacts
    <2> QED
      BY <1>2, <1>3, <2>1
  <1>5. \A t, u \in Switches : W2[t] \cap R[u] = {}
    <2>1. \A t, u \in Switches : W[t] \cap R[u] = {}
      BY ApartFacts
    <2> QED
      BY <1>2, <1>3, <2>1
  <1>6. \A t \in Switches : W2[t] \cap O2 = {} /\ R[t] \cap O2 = {}
    <2>1. \A t \in Switches : W[t] \cap O = {} /\ R[t] \cap O = {}
      BY ApartFacts
    <2> QED
      BY <1>1, <1>2, <1>3, <2>1
  <1>7. \A y : y \in All <=> y \in O2 \/ \E t \in Switches : y \in W2[t] \/ y \in R[t]
    <2>1. \A y : y \in All <=> y \in O \/ \E t \in Switches : y \in W[t] \/ y \in R[t]
      BY ApartFacts
    <2>2. \A t \in Switches : W2[t] = IF t = s THEN W[t] \cup {x} ELSE W[t]
      BY <1>2
    <2> QED
      BY <1>1, <2>1, <2>2
  <1>8. Apart(W2, R, O2, All)
    BY ONLY <1>4, <1>5, <1>6, <1>7, ApartBy
  <1> QED
    BY ONLY <1>1, <1>3, <1>8

\* From a queue on its way.
LEMMA ApartOut ==
  ASSUME NEW W, NEW R, NEW O, NEW All, Apart(W, R, O, All), DOMAIN W = Switches,
         NEW s \in Switches, NEW y \in W[s]
  PROVE  y \notin O /\ Apart([W EXCEPT ![s] = W[s] \ {y}], R, O \cup {y}, All)
  <1>1. PICK W2, O2 : W2 = [W EXCEPT ![s] = W[s] \ {y}] /\ O2 = O \cup {y}
    OBVIOUS
  <1>2. /\ W2[s] = W[s] \ {y}
        /\ \A t \in Switches : t # s => W2[t] = W[t]
    BY <1>1
  <1>3. /\ y \notin O /\ \A t \in Switches : y \notin R[t]
        /\ \A t \in Switches : t # s => y \notin W[t]
    BY ApartFacts
  <1>4. \A t, u \in Switches : t # u => W2[t] \cap W2[u] = {} /\ R[t] \cap R[u] = {}
    <2>1. \A t, u \in Switches : t # u => W[t] \cap W[u] = {} /\ R[t] \cap R[u] = {}
      BY ApartFacts
    <2> QED
      BY <1>2, <1>3, <2>1
  <1>5. \A t, u \in Switches : W2[t] \cap R[u] = {}
    <2>1. \A t, u \in Switches : W[t] \cap R[u] = {}
      BY ApartFacts
    <2> QED
      BY <1>2, <1>3, <2>1
  <1>6. \A t \in Switches : W2[t] \cap O2 = {} /\ R[t] \cap O2 = {}
    <2>1. \A t \in Switches : W[t] \cap O = {} /\ R[t] \cap O = {}
      BY ApartFacts
    <2> QED
      BY <1>1, <1>2, <1>3, <2>1
  <1>7. \A x : x \in All <=> x \in O2 \/ \E t \in Switches : x \in W2[t] \/ x \in R[t]
    <2>1. \A x : x \in All <=> x \in O \/ \E t \in Switches : x \in W[t] \/ x \in R[t]
      BY ApartFacts
    <2>2. \A t \in Switches : W2[t] = IF t = s THEN W[t] \ {y} ELSE W[t]
      BY <1>2
    <2> QED
      BY <1>1, <2>1, <2>2
  <1>8. Apart(W2, R, O2, All)
    BY ONLY <1>4, <1>5, <1>6, <1>7, ApartBy
  <1> QED
    BY ONLY <1>1, <1>3, <1>8
-----------------------------------------------------------------------------
(* One event at one switch.                                                *)

\* The packets that the terminal sent can go on from every switch.
SentRouted ==
  \A p \in Sent : p.dest \in Switches /\ p.type \in Levels

\* The routing table knows the way of such a packet.
LEMMA WayOn ==
  ASSUME SentRouted, NEW s \in Switches, NEW p \in Sent, p.dest # s
  PROVE  Routed(s, p)
  BY RouteAssumption DEF SentRouted, Routed, PortOf, PortsOf

\* The next packet of a port waits in one of its queues, and serving the port
\* leaves nothing that did not wait.
LEMMA NextWaits ==
  ASSUME SentRouted, NEW s \in Switches, NEW qs, QueuesOK(s, qs),
         NEW port \in PortsOf(s), Backlogged(qs, port), NEW n, n = NextPacket(qs, port)
  PROVE  /\ n \in Sent /\ n.dest # s /\ PortOf(s, n) = port
         /\ \E i \in DOMAIN qs : \E k \in DOMAIN qs[i] : qs[i][k] = n
         /\ \A i \in DOMAIN Serve(qs, port) : \A k \in DOMAIN Serve(qs, port)[i] :
              i \in DOMAIN qs /\ \E h \in DOMAIN qs[i] : qs[i][h] = Serve(qs, port)[i][k]
  <1>1. PICK I, N, qs2, level, c : /\ I = QueuesOf(s) /\ N = PortsOf(s) /\ qs2 = Serve(qs, port)
                                   /\ level = NextLevel(qs, port) /\ c = MeterIndex(port, level)
    OBVIOUS
  <1>2. /\ qs \in [I -> Seq(Sent)]
        /\ \A i \in I : \A k \in DOMAIN qs[i] : qs[i][k].dest # s /\ i = HomeOf(s, qs[i][k])
    BY <1>1 DEF QueuesOK
  <1>3. Indexed(I, N) /\ port \in N
    BY <1>1, SwitchIndexed
  <1>4. /\ c \in I /\ qs2 \in [I -> Seq(Sent)] /\ qs2[c] = Tail(qs[c])
        /\ \A j \in I : j # c => qs2[j] = qs[j]
    BY <1>1, <1>2, <1>3, ServeChanges
  <1>5. qs[c] # <<>> /\ n = qs[c][1] /\ n \in Sent
    BY <1>1, <1>2, <1>3, HeadOfLine
  <1>6. PICK queue \in Seq(Sent) : queue = qs[c]
    BY <1>2, <1>4
  <1>7. /\ 1 \in DOMAIN queue
        /\ \A k \in DOMAIN Tail(queue) : k + 1 \in DOMAIN queue /\ Tail(queue)[k] = queue[k + 1]
    BY <1>5, <1>6
  <1>8. n.dest # s /\ c = HomeOf(s, n)
    BY <1>2, <1>4, <1>5, <1>6, <1>7
  <1>9. PortOf(s, n) = port
    <2>1. Routed(s, n)
      BY <1>5, <1>8, WayOn
    <2>2. PICK port2 \in N, type2 \in Levels : port2 = PortOf(s, n) /\ type2 = n.type
      BY <1>1, <2>1 DEF Routed
    <2>3. c = MeterIndex(port2, type2)
      BY <1>8, <2>2 DEF HomeOf, PortOf
    <2>4. level \in Levels
      BY <1>1, FirstLevel
    <2>5. \A p1, p2 \in N : \A l1, l2 \in Levels :
            MeterIndex(p1, l1) = MeterIndex(p2, l2) => p1 = p2 /\ l1 = l2
      BY <1>3, IndexedFacts
    <2>6. MeterIndex(port, level) = MeterIndex(port2, type2)
      BY ONLY <1>1, <2>3
    <2>7. port = port2
      BY ONLY <1>3, <2>4, <2>5, <2>6
    <2> QED
      BY ONLY <2>2, <2>7
  <1>10. ASSUME NEW i \in DOMAIN qs2, NEW k \in DOMAIN qs2[i]
         PROVE  i \in DOMAIN qs /\ \E h \in DOMAIN qs[i] : qs[i][h] = qs2[i][k]
    <2>1. i \in I /\ DOMAIN qs = I
      BY <1>2, <1>4
    <2>2. CASE i = c
      BY <1>4, <1>6, <1>7, <1>10, <2>1, <2>2
    <2>3. CASE i # c
      BY <1>4, <2>1, <2>3
    <2> QED
      BY <2>1, <2>2, <2>3
  <1>11. \E i \in DOMAIN qs : \E k \in DOMAIN qs[i] : qs[i][k] = n
    BY <1>2, <1>4, <1>5, <1>6, <1>7
  <1> QED
    BY <1>1, <1>5, <1>8, <1>9, <1>10, <1>11

\* All routes by a port have the same next hop, so a packet that is taken to
\* the next hop of another one goes where its own route says.
LEMMA SharedHop ==
  ASSUME SentRouted, NEW s \in Switches, NEW qs, QueuesOK(s, qs),
         NEW p, Routed(s, p), p.dest # s, Backlogged(qs, PortOf(s, p)),
         NEW d, TakesOn(s, d, NextPacket(qs, PortOf(s, p)), p)
  PROVE  TakesOn(s, d, NextPacket(qs, PortOf(s, p)), NextPacket(qs, PortOf(s, p)))
  <1>1. PICK n : n = NextPacket(qs, PortOf(s, p))
    OBVIOUS
  <1>2. n \in Sent /\ n.dest # s /\ PortOf(s, n) = PortOf(s, p)
    BY <1>1, NextWaits DEF Routed
  <1>3. n.dest \in Switches /\ p.dest \in Switches
    BY <1>2 DEF SentRouted, Routed
  <1>4. Route[s][n.dest].nextHop = Route[s][p.dest].nextHop
    BY <1>2, <1>3, PortAssumption DEF PortOf
  <1> QED
    BY <1>1, <1>4 DEF TakesOn

\* The event e is handled by the switch it is for, which sends T.
Setting(e, T) ==
  /\ HandlesEvent(e, T) /\ EventsInv /\ SentRouted
  /\ current \in Switches /\ e.to = current /\ EventOK(e)
  /\ QueuesOK(current, queues) /\ RecordsOK(stats)
  /\ port_flags \in [PortsOf(current) -> {0, 1}]
  /\ Watched(current, queues, port_flags, Live)
  /\ Apart(WaitingPids, RecordedPids, MovingPids, Pids(Sent))

\* Afterwards the switch is in order again and nothing is lost.
Outcome(e, T) ==
  /\ QueuesOK(current, queues') /\ RecordsOK(stats')
  /\ port_flags' \in [PortsOf(current) -> {0, 1}]
  /\ Watched(current, queues', port_flags', Live')
  /\ SentOK(e, T)
  /\ Apart([WaitingPids EXCEPT ![current] = WaitingAt(queues', QueuesOf(current))],
           [RecordedPids EXCEPT ![current] = IdsOf(stats')],
           (MovingPids \ PidsIn({e})) \cup PidsIn(T), Pids(Sent))

\* What the switch that is loaded contributes.
LEMMA OwnPids ==
  ASSUME current \in Switches
  PROVE  /\ WaitingPids[current] = WaitingAt(queues, QueuesOf(current))
         /\ RecordedPids[current] = IdsOf(stats)
         /\ DOMAIN WaitingPids = Switches /\ DOMAIN RecordedPids = Switches
  BY DEF WaitingPids, RecordedPids, Recorded, Records, StateOf, CurrentState, IdsOf

\* The event that is handled is one of all; an arriving packet is on its way.
LEMMA SettingFacts ==
  ASSUME NEW e, NEW T, Setting(e, T)
  PROVE  /\ e \in Live /\ T \subseteq Live' /\ Live \subseteq Live' \cup {e}
         /\ e.type = "ARRIVE" => /\ e.packet \in Sent /\ e.packet.pid \in MovingPids
                                 /\ PidsIn({e}) = {e.packet.pid}
         /\ e.type = "SEND" => PidsIn({e}) = {} /\ e.port \in PortsOf(current)
  <1>1. e \in Live
    BY DEF Setting, HandlesEvent, Live
  <1>2. T \subseteq Live' /\ Live \subseteq Live' \cup {e}
    BY HandleChangesEvents DEF Setting
  <1> QED
    BY <1>1, <1>2 DEF Setting, EventOK, MovingPids, PidsIn

\* What is sent to a next hop is in order if its packet is not on its way.
LEMMA DepartureOK ==
  ASSUME NEW e, NEW T, Setting(e, T),
         NEW d, NEW p \in Sent, NEW q \in Sent, q.dest # current, TakesOn(current, d, p, q),
         \A f \in T : f = d \/ (f.type = "SEND" /\ EventOK(f)),
         \A g \in Live : g.type = "ARRIVE" /\ g.packet.pid = p.pid => g = e
  PROVE  SentOK(e, T)
  <1>1. Routed(current, q)
    BY WayOn DEF Setting
  <1>2. d.type = "ARRIVE" /\ d.packet = p /\ d.to \in Switches
    BY <1>1 DEF TakesOn, Routed
  <1>3. EventOK(d)
    BY <1>2 DEF EventOK
  <1> QED
    BY <1>2, <1>3 DEF SentOK

\* The SEND event of a port, as it is delivered.
WakesUpAt(f, port) == f.type = "SEND" /\ f.to = current /\ f.port = port

\* A packet on its way has no record yet; the new one is behind the others.
LEMMA RecordMade ==
  ASSUME NEW e, NEW T, Setting(e, T), e.type = "ARRIVE", PacketRecorded(current, e.packet)
  PROVE  /\ RecordsOK(stats') /\ IdsOf(stats') = IdsOf(stats) \cup {e.packet.pid}
         /\ \A i \in DOMAIN stats.records :
              i \in DOMAIN stats'.records /\ stats'.records[i] = stats.records[i]
         /\ \E i \in DOMAIN stats'.records :
              /\ stats'.records[i].pid = e.packet.pid
              /\ \/ stats'.records[i].drop = FALSE /\ e.packet.dest = current
                 \/ stats'.records[i].drop = TRUE /\ e.packet.dest # current
  <1>1. PICK x, W, R, O, s : /\ x = e.packet.pid /\ W = WaitingPids /\ R = RecordedPids
                             /\ O = MovingPids /\ s = current
    OBVIOUS
  <1>2. PICK st, delay, drop :
          /\ st = stats \/ st = [stats EXCEPT !.received = @ + 1]
          /\ stats' = UpdateStats(st, x, delay, drop)
          /\ (drop = FALSE /\ e.packet.dest = s) \/ (drop = TRUE /\ e.packet.dest # s)
    BY <1>1, Zenon DEF PacketRecorded
  <1>3. RecordsOK(st) /\ IdsOf(st) = IdsOf(stats) /\ st.records = stats.records
    <2>1. PICK st0 : st0 = stats
      OBVIOUS
    <2>2. RecordsOK(st0)
      BY <2>1 DEF Setting
    <2>3. st = st0 \/ st = [st0 EXCEPT !.received = @ + 1]
      BY <1>2, <2>1
    <2>4. /\ st.records = st0.records
          /\ st.num_packets_recvd = st0.num_packets_recvd
          /\ st.num_packets_dropped = st0.num_packets_dropped
          /\ st = [received |-> st.received, num_packets_recvd |-> st.num_packets_recvd,
                   num_packets_dropped |-> st.num_packets_dropped,
                   num_packets_sent |-> st.num_packets_sent, records |-> st.records,
                   records_capacity |-> st.records_capacity]
      BY ONLY <2>2, <2>3 DEF RecordsOK
    <2> QED
      BY <2>1, <2>2, <2>4 DEF RecordsOK, IdsOf
  <1>4. /\ s \in Switches /\ R[s] = IdsOf(stats) /\ DOMAIN W = Switches /\ DOMAIN R = Switches
        /\ Apart(W, R, O, Pids(Sent)) /\ x \in O
    BY <1>1, OwnPids, SettingFacts DEF Setting
  <1>5. x \notin IdsOf(st)
    <2>1. x \notin R[s] /\ Apart(W, [R EXCEPT ![s] = R[s] \cup {x}], O \ {x}, Pids(Sent))
      BY <1>4, ApartRecord
    <2> QED
      BY <1>3, <1>4, <2>1
  <1>6. PICK st2 : st2 = stats'
    OBVIOUS
  <1>7. /\ RecordsOK(st2) /\ IdsOf(st2) = IdsOf(st) \cup {x}
        /\ \A i \in DOMAIN st.records :
             i \in DOMAIN st2.records /\ st2.records[i] = st.records[i]
        /\ \E i \in DOMAIN st2.records : st2.records[i].pid = x /\ st2.records[i].drop = drop
    BY <1>2, <1>3, <1>5, <1>6, RecordAdded
  <1> QED
    BY <1>1, <1>2, <1>3, <1>6, <1>7

\* An ARRIVE event recorded.
LEMMA RecordedOutcome ==
  ASSUME NEW e, Setting(e, {}), e.type = "ARRIVE", PacketRecorded(current, e.packet)
  PROVE  Outcome(e, {})
  <1>1. PICK x, W, R, O, s : /\ x = e.packet.pid /\ W = WaitingPids /\ R = RecordedPids
                             /\ O = MovingPids /\ s = current
    OBVIOUS
  <1>2. queues' = queues /\ port_flags' = port_flags
    BY DEF PacketRecorded
  <1>3. RecordsOK(stats') /\ IdsOf(stats') = IdsOf(stats) \cup {x}
    BY <1>1, RecordMade
  <1>4. /\ s \in Switches /\ W[s] = WaitingAt(queues, QueuesOf(s)) /\ R[s] = IdsOf(stats)
        /\ DOMAIN W = Switches /\ DOMAIN R = Switches /\ Apart(W, R, O, Pids(Sent))
    BY <1>1, OwnPids DEF Setting
  <1>5. x \in O /\ PidsIn({e}) = {x} /\ PidsIn({}) = {} /\ Live \subseteq Live' \cup {e}
    BY <1>1, SettingFacts DEF PidsIn
  <1>6. Apart(W, [R EXCEPT ![s] = R[s] \cup {x}], O \ {x}, Pids(Sent))
    BY <1>4, <1>5, ApartRecord
  <1>7. [W EXCEPT ![s] = WaitingAt(queues', QueuesOf(s))] = W
    <2>1. W = [t \in Switches |-> W[t]]
      BY <1>1 DEF WaitingPids
    <2>2. WaitingAt(queues', QueuesOf(s)) = W[s]
      BY <1>2, <1>4
    <2> QED
      BY ONLY <1>4, <2>1, <2>2
  <1>8. Apart([W EXCEPT ![s] = WaitingAt(queues', QueuesOf(s))], [R EXCEPT ![s] = IdsOf(stats')],
              (O \ {x}) \cup {}, Pids(Sent))
    BY <1>3, <1>4, <1>6, <1>7
  <1>9. Watched(s, queues', port_flags', Live')
    BY <1>1, <1>2, <1>5 DEF Setting, Watched
  <1>10. SentOK(e, {})
    BY DEF SentOK
  <1>11. QueuesOK(s, queues') /\ port_flags' \in [PortsOf(s) -> {0, 1}]
    BY <1>1, <1>2 DEF Setting
  <1> QED
    BY <1>1, <1>3, <1>5, <1>8, <1>9, <1>10, <1>11 DEF Outcome

\* An arriving packet that is not for this switch has a queue here, and is
\* not in it yet.
LEMMA ArrivalFacts ==
  ASSUME NEW e, NEW T, Setting(e, T), e.type = "ARRIVE", e.packet.dest # current
  PROVE  /\ Routed(current, e.packet)
         /\ QueuesOK(current, queues)
         /\ e.packet.pid \notin WaitingAt(queues, QueuesOf(current))
         /\ Apart([WaitingPids EXCEPT ![current] =
                     WaitingAt(queues, QueuesOf(current)) \cup {e.packet.pid}],
                  RecordedPids, MovingPids \ {e.packet.pid}, Pids(Sent))
         /\ \A g \in Live : g.type = "ARRIVE" /\ g.packet.pid = e.packet.pid => g = e
  <1>1. /\ current \in Switches /\ SentRouted /\ EventsInv /\ QueuesOK(current, queues)
        /\ Apart(WaitingPids, RecordedPids, MovingPids, Pids(Sent))
    BY DEF Setting
  <1>2. e \in Live /\ e.packet \in Sent /\ e.packet.pid \in MovingPids
    BY SettingFacts
  <1>3. Routed(current, e.packet)
    BY <1>1, <1>2, WayOn
  <1>4. /\ WaitingPids[current] = WaitingAt(queues, QueuesOf(current))
        /\ DOMAIN WaitingPids = Switches
    BY <1>1, OwnPids
  <1>5. PICK x, W, R, O, s, All : /\ x = e.packet.pid /\ W = WaitingPids /\ R = RecordedPids
                                  /\ O = MovingPids /\ s = current /\ All = Pids(Sent)
    OBVIOUS
  <1>6. x \notin W[s] /\ Apart([W EXCEPT ![s] = W[s] \cup {x}], R, O \ {x}, All)
    BY <1>1, <1>2, <1>4, <1>5, ApartIn
  <1>7. \A g \in Live : g.type = "ARRIVE" /\ g.packet.pid = x => g = e
    BY <1>1, <1>2, <1>5 DEF EventsInv
  <1> QED
    BY <1>1, <1>3, <1>4, <1>5, <1>6, <1>7

\* An ARRIVE event whose packet waits.
LEMMA WaitsOutcome ==
  ASSUME NEW e, NEW T, Setting(e, T), e.type = "ARRIVE", e.packet.dest # current,
         queues' = QueuedAt(current, e.packet), OnlyCounted,
         \/ /\ port_flags' = [port_flags EXCEPT ![PortOf(current, e.packet)] = 1]
            /\ \E w : T = {w} /\ WakesUpAt(w, PortOf(current, e.packet))
         \/ /\ port_flags[PortOf(current, e.packet)] # 0
            /\ port_flags' = port_flags /\ T = {}
  PROVE  Outcome(e, T)
  <1>1. PICK p, s, port, qs : /\ p = e.packet /\ s = current /\ port = PortOf(s, p)
                              /\ qs = QueuedAt(s, p)
    OBVIOUS
  <1>2. /\ s \in Switches /\ RecordsOK(stats) /\ port_flags \in [PortsOf(s) -> {0, 1}]
        /\ Watched(s, queues, port_flags, Live)
    BY <1>1 DEF Setting
  <1>3. /\ Routed(s, p) /\ QueuesOK(s, queues) /\ p.pid \notin WaitingAt(queues, QueuesOf(s))
        /\ Apart([WaitingPids EXCEPT ![s] = WaitingAt(queues, QueuesOf(s)) \cup {p.pid}],
                 RecordedPids, MovingPids \ {p.pid}, Pids(Sent))
    BY <1>1, ArrivalFacts
  <1>4. /\ QueuesOK(s, qs)
        /\ WaitingAt(qs, QueuesOf(s)) = WaitingAt(queues, QueuesOf(s)) \cup {p.pid}
        /\ \A other \in PortsOf(s) : other # port =>
              (Backlogged(qs, other) <=> Backlogged(queues, other))
    BY <1>1, <1>2, <1>3, QueueIn
  <1>5. queues' = qs
    BY <1>1
  <1>6. RecordsOK(stats') /\ stats'.records = stats.records
    BY <1>2, CountKeepsRecords
  <1>7. [RecordedPids EXCEPT ![s] = IdsOf(stats')] = RecordedPids
    <2>1. IdsOf(stats') = IdsOf(stats)
      BY <1>6 DEF IdsOf
    <2>2. RecordedPids[s] = IdsOf(stats) /\ DOMAIN RecordedPids = Switches
      BY <1>1, <1>2, OwnPids
    <2>3. RecordedPids = [t \in Switches |-> RecordedPids[t]]
      BY DEF RecordedPids
    <2> QED
      BY ONLY <1>2, <2>1, <2>2, <2>3
  <1>8. /\ PidsIn({e}) = {p.pid} /\ T \subseteq Live' /\ Live \subseteq Live' \cup {e}
    BY <1>1, SettingFacts
  <1>9. port \in PortsOf(s)
    BY <1>1, <1>3 DEF Routed
  <1>10. \/ /\ port_flags' = [port_flags EXCEPT ![port] = 1]
            /\ \E w : T = {w} /\ WakesUpAt(w, port)
         \/ port_flags[port] # 0 /\ port_flags' = port_flags /\ T = {}
    BY <1>1
  <1>11. \A w \in T : WakesUpAt(w, port)
    BY <1>10
  <1>12. PidsIn(T) = {}
    BY <1>11 DEF PidsIn, WakesUpAt
  <1>13. SentOK(e, T)
    BY <1>1, <1>2, <1>9, <1>11 DEF SentOK, WakesUpAt, EventOK
  <1>14. port_flags' \in [PortsOf(s) -> {0, 1}]
    BY <1>2, <1>9, <1>10
  <1>15. Watched(s, qs, port_flags', Live')
    <2> SUFFICES ASSUME NEW q \in PortsOf(s), port_flags'[q] # 0 \/ Backlogged(qs, q)
                 PROVE  \E f \in Live' : f.type = "SEND" /\ f.to = s /\ f.port = q
      BY DEF Watched
    <2>1. \A f \in Live : f.type = "SEND" => f \in Live'
      BY <1>8
    <2>2. CASE q # port
      <3>1. port_flags[q] # 0 \/ Backlogged(queues, q)
        BY <1>2, <1>4, <1>10, <2>2
      <3> QED
        BY <1>2, <2>1, <3>1 DEF Watched
    <2>3. CASE q = port /\ T # {}
      <3>1. PICK w \in T : WakesUpAt(w, port)
        BY <1>11, <2>3
      <3> QED
        BY <1>1, <1>8, <2>3, <3>1 DEF WakesUpAt
    <2>4. CASE q = port /\ T = {}
      <3>1. port_flags[q] # 0
        BY <1>10, <2>4
      <3> QED
        BY <1>2, <2>1, <3>1 DEF Watched
    <2> QED
      BY <2>2, <2>3, <2>4
  <1>16. Apart([WaitingPids EXCEPT ![s] = WaitingAt(qs, QueuesOf(s))],
               [RecordedPids EXCEPT ![s] = IdsOf(stats')],
               (MovingPids \ PidsIn({e})) \cup PidsIn(T), Pids(Sent))
    <2>1. (MovingPids \ PidsIn({e})) \cup PidsIn(T) = MovingPids \ {p.pid}
      BY <1>8, <1>12
    <2> QED
      BY <1>3, <1>4, <1>7, <2>1
  <1> QED
    BY <1>1, <1>4, <1>5, <1>6, <1>13, <1>14, <1>15, <1>16 DEF Outcome

\* An ARRIVE event that makes the port send, this packet or another.
LEMMA PassesOutcome ==
  ASSUME NEW e, NEW d, Setting(e, {d}), e.type = "ARRIVE", e.packet.dest # current,
         queues' = Serve(QueuedAt(current, e.packet), PortOf(current, e.packet)),
         OnlyCounted, port_flags' = port_flags,
         TakesOn(current, d, NextPacket(QueuedAt(current, e.packet), PortOf(current, e.packet)),
                 e.packet)
  PROVE  Outcome(e, {d})
  <1>1. PICK p, s, port, qs, n :
          /\ p = e.packet /\ s = current /\ port = PortOf(s, p)
          /\ qs = QueuedAt(s, p) /\ n = NextPacket(qs, port)
    OBVIOUS
  <1>2. /\ s \in Switches /\ RecordsOK(stats) /\ port_flags \in [PortsOf(s) -> {0, 1}]
        /\ Watched(s, queues, port_flags, Live)
    BY <1>1 DEF Setting
  <1>3. /\ Routed(s, p) /\ QueuesOK(s, queues) /\ p.pid \notin WaitingAt(queues, QueuesOf(s))
        /\ Apart([WaitingPids EXCEPT ![s] = WaitingAt(queues, QueuesOf(s)) \cup {p.pid}],
                 RecordedPids, MovingPids \ {p.pid}, Pids(Sent))
        /\ \A g \in Live : g.type = "ARRIVE" /\ g.packet.pid = p.pid => g = e
    BY <1>1, ArrivalFacts
  <1>4. /\ QueuesOK(s, qs) /\ Backlogged(qs, port)
        /\ WaitingAt(qs, QueuesOf(s)) = WaitingAt(queues, QueuesOf(s)) \cup {p.pid}
        /\ Backlogged(Serve(qs, port), port) <=> Backlogged(queues, port)
        /\ \A other \in PortsOf(s) : other # port =>
              (Backlogged(Serve(qs, port), other) <=> Backlogged(queues, other))
    BY <1>1, <1>2, <1>3, QueueIn
  <1>5. port \in PortsOf(s)
    BY <1>1, <1>3 DEF Routed
  <1>6. /\ QueuesOK(s, Serve(qs, port)) /\ n \in Sent /\ n.dest # s
        /\ n.pid \in WaitingAt(qs, QueuesOf(s))
        /\ WaitingAt(Serve(qs, port), QueuesOf(s)) = WaitingAt(qs, QueuesOf(s)) \ {n.pid}
    BY <1>1, <1>2, <1>4, <1>5, QueueOut
  <1>7. queues' = Serve(qs, port) /\ TakesOn(s, d, n, p)
    BY <1>1
  <1>8. RecordsOK(stats') /\ stats'.records = stats.records
    BY <1>2, CountKeepsRecords
  <1>9. [RecordedPids EXCEPT ![s] = IdsOf(stats')] = RecordedPids
    <2>1. IdsOf(stats') = IdsOf(stats)
      BY <1>8 DEF IdsOf
    <2>2. RecordedPids[s] = IdsOf(stats) /\ DOMAIN RecordedPids = Switches
      BY <1>1, <1>2, OwnPids
    <2>3. RecordedPids = [t \in Switches |-> RecordedPids[t]]
      BY DEF RecordedPids
    <2> QED
      BY ONLY <1>2, <2>1, <2>2, <2>3
  <1>10. PidsIn({e}) = {p.pid} /\ Live \subseteq Live' \cup {e}
    BY <1>1, SettingFacts
  <1>11. PidsIn({d}) = {n.pid}
    BY <1>7 DEF PidsIn, TakesOn
  <1>12. PICK W, A, O : /\ A = WaitingAt(qs, QueuesOf(s))
                        /\ W = [WaitingPids EXCEPT ![s] = A] /\ O = MovingPids \ {p.pid}
    OBVIOUS
  <1>13. /\ Apart(W, RecordedPids, O, Pids(Sent)) /\ DOMAIN W = Switches /\ W[s] = A
    <2>1. DOMAIN WaitingPids = Switches
      BY <1>1, <1>2, OwnPids
    <2> QED
      BY <1>2, <1>3, <1>4, <1>12, <2>1
  <1>14. n.pid \notin O /\ Apart([W EXCEPT ![s] = W[s] \ {n.pid}], RecordedPids, O \cup {n.pid}, Pids(Sent))
    BY <1>2, <1>6, <1>12, <1>13, ApartOut
  <1>15. [W EXCEPT ![s] = W[s] \ {n.pid}]
           = [WaitingPids EXCEPT ![s] = WaitingAt(Serve(qs, port), QueuesOf(s))]
    <2>1. PICK B : B = WaitingAt(Serve(qs, port), QueuesOf(s)) /\ B = W[s] \ {n.pid}
      BY <1>6, <1>12, <1>13
    <2>2. [W EXCEPT ![s] = B] = [WaitingPids EXCEPT ![s] = B]
      BY ONLY <1>12
    <2> QED
      BY ONLY <2>1, <2>2
  <1>16. Apart([WaitingPids EXCEPT ![s] = WaitingAt(Serve(qs, port), QueuesOf(s))],
               [RecordedPids EXCEPT ![s] = IdsOf(stats')],
               (MovingPids \ PidsIn({e})) \cup PidsIn({d}), Pids(Sent))
    BY <1>9, <1>10, <1>11, <1>12, <1>14, <1>15
  <1>17. ASSUME NEW g \in Live, g.type = "ARRIVE", g.packet.pid = n.pid PROVE g = e
    <2>1. g.packet.pid \in MovingPids
      BY <1>17 DEF MovingPids
    <2>2. n.pid = p.pid
      BY <1>12, <1>14, <1>17, <2>1
    <2> QED
      BY <1>3, <1>17, <2>2
  <1>18. SentOK(e, {d})
    BY <1>1, <1>3, <1>6, <1>7, <1>17, DepartureOK DEF Routed
  <1>19. Watched(s, Serve(qs, port), port_flags', Live')
    <2> SUFFICES ASSUME NEW q \in PortsOf(s), port_flags'[q] # 0 \/ Backlogged(Serve(qs, port), q)
                 PROVE  \E f \in Live' : f.type = "SEND" /\ f.to = s /\ f.port = q
      BY DEF Watched
    <2>1. \A f \in Live : f.type = "SEND" => f \in Live'
      BY <1>10
    <2>2. port_flags[q] # 0 \/ Backlogged(queues, q)
      BY <1>4
    <2> QED
      BY <1>2, <2>1, <2>2 DEF Watched
  <1> QED
    BY <1>1, <1>2, <1>6, <1>7, <1>8, <1>16, <1>18, <1>19 DEF Outcome

\* A SEND event with nothing sent but the next SEND event.
LEMMA PutOffOutcome ==
  ASSUME NEW e, NEW w, Setting(e, {w}), e.type = "SEND", WakesUpAt(w, e.port),
         queues' = queues, port_flags' = port_flags, OnlyCounted
  PROVE  Outcome(e, {w})
  <1>1. PICK s : s = current
    OBVIOUS
  <1>2. /\ s \in Switches /\ RecordsOK(stats) /\ QueuesOK(s, queues)
        /\ Watched(s, queues, port_flags, Live)
        /\ port_flags \in [PortsOf(s) -> {0, 1}]
        /\ Apart(WaitingPids, RecordedPids, MovingPids, Pids(Sent))
    BY <1>1 DEF Setting
  <1>3. /\ PidsIn({e}) = {} /\ e.port \in PortsOf(s)
        /\ w \in Live' /\ Live \subseteq Live' \cup {e}
    BY <1>1, SettingFacts
  <1>4. RecordsOK(stats') /\ stats'.records = stats.records
    BY <1>2, CountKeepsRecords
  <1>5. /\ [RecordedPids EXCEPT ![s] = IdsOf(stats')] = RecordedPids
        /\ [WaitingPids EXCEPT ![s] = WaitingAt(queues', QueuesOf(s))] = WaitingPids
    <2>1. IdsOf(stats') = IdsOf(stats)
      BY <1>4 DEF IdsOf
    <2>2. /\ RecordedPids[s] = IdsOf(stats) /\ DOMAIN RecordedPids = Switches
          /\ WaitingPids[s] = WaitingAt(queues, QueuesOf(s)) /\ DOMAIN WaitingPids = Switches
      BY <1>1, <1>2, OwnPids
    <2>3. /\ RecordedPids = [t \in Switches |-> RecordedPids[t]]
          /\ WaitingPids = [t \in Switches |-> WaitingPids[t]]
      BY DEF RecordedPids, WaitingPids
    <2> QED
      BY ONLY <1>2, <2>1, <2>2, <2>3, queues' = queues
  <1>6. PidsIn({w}) = {}
    BY DEF PidsIn, WakesUpAt
  <1>7. SentOK(e, {w})
    BY <1>1, <1>2, <1>3 DEF SentOK, WakesUpAt, EventOK
  <1>8. Watched(s, queues', port_flags', Live')
    <2> SUFFICES ASSUME NEW q \in PortsOf(s), port_flags[q] # 0 \/ Backlogged(queues, q)
                 PROVE  \E f \in Live' : f.type = "SEND" /\ f.to = s /\ f.port = q
      BY DEF Watched
    <2>1. PICK f \in Live : f.type = "SEND" /\ f.to = s /\ f.port = q
      BY <1>2 DEF Watched
    <2>2. CASE f = e
      BY <1>1, <1>3, <2>1, <2>2 DEF WakesUpAt
    <2>3. CASE f # e
      BY <1>3, <2>1, <2>3
    <2> QED
      BY <2>2, <2>3
  <1>9. Apart([WaitingPids EXCEPT ![s] = WaitingAt(queues', QueuesOf(s))],
              [RecordedPids EXCEPT ![s] = IdsOf(stats')],
              (MovingPids \ PidsIn({e})) \cup PidsIn({w}), Pids(Sent))
    <2>1. (MovingPids \ PidsIn({e})) \cup PidsIn({w}) = MovingPids
      BY <1>3, <1>6
    <2> QED
      BY <1>2, <1>5, <2>1
  <1> QED
    BY <1>1, <1>2, <1>4, <1>7, <1>8, <1>9 DEF Outcome

\* A SEND event that sends a packet.
LEMMA SentOutcome ==
  ASSUME NEW e, NEW d, NEW T, Setting(e, T), e.type = "SEND",
         Backlogged(queues, e.port), queues' = Serve(queues, e.port), OnlyCounted,
         TakesOn(current, d, NextPacket(queues, e.port), NextPacket(queues, e.port)),
         \/ /\ ~ Backlogged(Serve(queues, e.port), e.port)
            /\ port_flags' = [port_flags EXCEPT ![e.port] = 0] /\ T = {d}
         \/ \E w : WakesUpAt(w, e.port) /\ port_flags' = port_flags /\ T = {d, w}
  PROVE  Outcome(e, T)
  <1>1. PICK s, port, qs, n : /\ s = current /\ port = e.port /\ qs = Serve(queues, port)
                              /\ n = NextPacket(queues, port)
    OBVIOUS
  <1>2. /\ s \in Switches /\ RecordsOK(stats) /\ QueuesOK(s, queues)
        /\ Watched(s, queues, port_flags, Live)
        /\ port_flags \in [PortsOf(s) -> {0, 1}]
        /\ Apart(WaitingPids, RecordedPids, MovingPids, Pids(Sent))
    BY <1>1 DEF Setting
  <1>3. /\ PidsIn({e}) = {} /\ port \in PortsOf(s)
        /\ T \subseteq Live' /\ Live \subseteq Live' \cup {e}
    BY <1>1, SettingFacts
  <1>4. /\ QueuesOK(s, qs) /\ n \in Sent /\ n.dest # s
        /\ n.pid \in WaitingAt(queues, QueuesOf(s))
        /\ WaitingAt(qs, QueuesOf(s)) = WaitingAt(queues, QueuesOf(s)) \ {n.pid}
        /\ \A other \in PortsOf(s) : other # port =>
             (Backlogged(qs, other) <=> Backlogged(queues, other))
    BY <1>1, <1>2, <1>3, QueueOut
  <1>5. queues' = qs /\ TakesOn(s, d, n, n)
    BY <1>1
  <1>6. RecordsOK(stats') /\ stats'.records = stats.records
    BY <1>2, CountKeepsRecords
  <1>7. [RecordedPids EXCEPT ![s] = IdsOf(stats')] = RecordedPids
    <2>1. IdsOf(stats') = IdsOf(stats)
      BY <1>6 DEF IdsOf
    <2>2. RecordedPids[s] = IdsOf(stats) /\ DOMAIN RecordedPids = Switches
      BY <1>1, <1>2, OwnPids
    <2>3. RecordedPids = [t \in Switches |-> RecordedPids[t]]
      BY DEF RecordedPids
    <2> QED
      BY ONLY <1>2, <2>1, <2>2, <2>3
  <1>8. \/ /\ ~ Backlogged(qs, port)
           /\ port_flags' = [port_flags EXCEPT ![port] = 0] /\ T = {d}
        \/ \E w : WakesUpAt(w, port) /\ port_flags' = port_flags /\ T = {d, w}
    BY <1>1
  <1>9. \A f \in T : f = d \/ WakesUpAt(f, port)
    BY <1>8
  <1>10. PidsIn(T) = {n.pid}
    <2>1. d \in T /\ d.type = "ARRIVE" /\ d.packet = n
      BY <1>5, <1>8 DEF TakesOn
    <2> QED
      BY <1>9, <2>1 DEF PidsIn, WakesUpAt
  <1>11. /\ DOMAIN WaitingPids = Switches
         /\ WaitingPids[s] = WaitingAt(queues, QueuesOf(s))
    BY <1>1, <1>2, OwnPids
  <1>12. /\ n.pid \notin MovingPids
         /\ Apart([WaitingPids EXCEPT ![s] = WaitingPids[s] \ {n.pid}], RecordedPids,
                  MovingPids \cup {n.pid}, Pids(Sent))
    <2>1. PICK W, R, O, All, y : /\ W = WaitingPids /\ R = RecordedPids /\ O = MovingPids
                                 /\ All = Pids(Sent) /\ y = n.pid
      OBVIOUS
    <2>2. Apart(W, R, O, All) /\ DOMAIN W = Switches /\ s \in Switches /\ y \in W[s]
      BY <1>2, <1>4, <1>11, <2>1
    <2>3. y \notin O /\ Apart([W EXCEPT ![s] = W[s] \ {y}], R, O \cup {y}, All)
      BY ONLY <2>2, ApartOut
    <2> QED
      BY ONLY <2>1, <2>3
  <1>13. Apart([WaitingPids EXCEPT ![s] = WaitingAt(qs, QueuesOf(s))],
               [RecordedPids EXCEPT ![s] = IdsOf(stats')],
               (MovingPids \ PidsIn({e})) \cup PidsIn(T), Pids(Sent))
    <2>1. (MovingPids \ PidsIn({e})) \cup PidsIn(T) = MovingPids \cup {n.pid}
      BY <1>3, <1>10
    <2> QED
      BY <1>4, <1>7, <1>11, <1>12, <2>1
  <1>14. \A g \in Live : g.type = "ARRIVE" /\ g.packet.pid = n.pid => g = e
    BY <1>12 DEF MovingPids
  <1>15. \A f \in T : f = d \/ (f.type = "SEND" /\ EventOK(f))
    BY <1>1, <1>2, <1>3, <1>9 DEF WakesUpAt, EventOK
  <1>16. SentOK(e, T)
    BY <1>1, <1>4, <1>5, <1>14, <1>15, DepartureOK
  <1>17. port_flags' \in [PortsOf(s) -> {0, 1}]
    BY <1>2, <1>3, <1>8
  <1>18. Watched(s, qs, port_flags', Live')
    <2> SUFFICES ASSUME NEW q \in PortsOf(s), port_flags'[q] # 0 \/ Backlogged(qs, q)
                 PROVE  \E f \in Live' : f.type = "SEND" /\ f.to = s /\ f.port = q
      BY DEF Watched
    <2>1. CASE q # port
      <3>1. port_flags[q] # 0 \/ Backlogged(queues, q)
        BY <1>2, <1>4, <1>8, <2>1
      <3>2. PICK f \in Live : f.type = "SEND" /\ f.to = s /\ f.port = q
        BY <1>2, <3>1 DEF Watched
      <3>3. f # e
        BY <1>1, <2>1, <3>2
      <3> QED
        BY <1>3, <3>2, <3>3
    <2>2. CASE q = port
      <3>1. PICK w : WakesUpAt(w, port) /\ T = {d, w}
        BY <1>2, <1>3, <1>8, <2>2
      <3> QED
        BY <1>1, <1>3, <2>2, <3>1 DEF WakesUpAt
    <2> QED
      BY <2>1, <2>2
  <1> QED
    BY <1>1, <1>4, <1>5, <1>6, <1>13, <1>16, <1>17, <1>18 DEF Outcome

\* What the terminal has sent comes from a trace.
LEMMA SentIsRouted ==
  ASSUME LoopInv
  PROVE  SentRouted
  <1>1. CASE phase = "start"
    BY <1>1 DEF LoopInv, SentRouted, Sent
  <1>2. CASE phase # "start"
    <2>1. /\ pks \in Workloads
          /\ scheduled = {ArriveEvent(pks[i]) : i \in Reach(pks, g_tw_ts_end)}
      BY <1>2 DEF LoopInv, AllSent
    <2> SUFFICES ASSUME NEW p \in Sent PROVE p.dest \in Switches /\ p.type \in Levels
      BY DEF SentRouted
    <2>2. PICK i \in DOMAIN pks : p = ArriveEvent(pks[i]).packet
      BY <2>1 DEF Sent, Reach
    <2>3. pks[i].dest \in Switches /\ pks[i].priority_level \in Levels
      BY <2>1, RouteAssumption
    <2> QED
      BY <2>2, <2>3 DEF ArriveEvent
  <1> QED
    BY <1>1, <1>2

\* What an event is when it has got its address.
LEMMA AddressedFacts ==
  ASSUME NEW f
  PROVE  /\ \A p, q : TakesOn(current, f, p, q) => Addressed(f) = f
         /\ \A port : WakesUp(f, port) => WakesUpAt(Addressed(f), port)
  BY DEF TakesOn, WakesUp, WakesUpAt, Addressed, Extended

\* The outcomes of an event, whatever it is.
LEMMA HandleOutcome ==
  ASSUME NEW e, NEW T, Setting(e, T), T = {Addressed(f) : f \in done'.sent},
         NEW s, s = current,
         \/ e.type = "ARRIVE" /\ S(s)!Arrive(e.packet, clock)
         \/ e.type = "SEND" /\ S(s)!Send(e.port, clock)
  PROVE  Outcome(e, T)
  <1>1. PICK p, port : p = e.packet /\ port = e.port
    OBVIOUS
  <1>2. \A d, n, q : done'.sent = {d} /\ TakesOn(current, d, n, q) => T = {d}
    BY AddressedFacts
  <1>3. \A d, q : done'.sent = {d} /\ WakesUp(d, q) => \E w : T = {w} /\ WakesUpAt(w, q)
    BY AddressedFacts
  <1>4. done'.sent = {} => T = {}
    OBVIOUS
  <1>5. CASE e.type = "ARRIVE" /\ PacketRecorded(current, p)
    <2>1. T = {}
      BY <1>4, <1>5 DEF PacketRecorded
    <2> QED
      BY <1>1, <1>5, <2>1, RecordedOutcome
  <1>6. CASE e.type = "ARRIVE" /\ PacketPasses(current, p)
    <2>1. PICK d : /\ done'.sent = {d}
                   /\ TakesOn(current, d, NextPacket(QueuedAt(current, p), PortOf(current, p)), p)
      BY <1>6 DEF PacketPasses
    <2>2. T = {d}
      BY <1>2, <2>1
    <2>3. /\ p.dest # current /\ OnlyCounted /\ port_flags' = port_flags
          /\ queues' = Serve(QueuedAt(current, p), PortOf(current, p))
      BY <1>6 DEF PacketPasses
    <2> QED
      BY <1>1, <1>6, <2>1, <2>2, <2>3, PassesOutcome
  <1>7. CASE e.type = "ARRIVE" /\ PacketWaits(current, p)
    <2>1. p.dest # current /\ OnlyCounted /\ queues' = QueuedAt(current, p)
      BY <1>7 DEF PacketWaits
    <2>2. \/ /\ port_flags' = [port_flags EXCEPT ![PortOf(current, p)] = 1]
             /\ \E w : T = {w} /\ WakesUpAt(w, PortOf(current, p))
          \/ /\ port_flags[PortOf(current, p)] # 0
             /\ port_flags' = port_flags /\ T = {}
      BY <1>3, <1>4, <1>7 DEF PacketWaits
    <2> QED
      BY <1>1, <1>7, <2>1, <2>2, WaitsOutcome
  <1>8. CASE e.type = "SEND" /\ PacketSent(current, port)
    <2>1. PICK d : /\ TakesOn(current, d, NextPacket(queues, port), NextPacket(queues, port))
                   /\ \/ /\ ~ Backlogged(Serve(queues, port), port)
                         /\ port_flags' = [port_flags EXCEPT ![port] = 0]
                         /\ done'.sent = {d}
                      \/ \E w : WakesUp(w, port) /\ port_flags' = port_flags /\ done'.sent = {d, w}
      BY <1>8 DEF PacketSent
    <2>2. Backlogged(queues, port) /\ queues' = Serve(queues, port) /\ OnlyCounted
      BY <1>8 DEF PacketSent
    <2>3. ASSUME NEW w, WakesUp(w, port), port_flags' = port_flags, done'.sent = {d, w}
          PROVE  \E v : WakesUpAt(v, port) /\ port_flags' = port_flags /\ T = {d, v}
      <3>1. T = {Addressed(d), Addressed(w)}
        BY <2>3
      <3>2. Addressed(d) = d /\ WakesUpAt(Addressed(w), port)
        BY <2>1, <2>3, AddressedFacts
      <3> QED
        BY <2>3, <3>1, <3>2
    <2>4. \/ /\ ~ Backlogged(Serve(queues, port), port)
             /\ port_flags' = [port_flags EXCEPT ![port] = 0] /\ T = {d}
          \/ \E w : WakesUpAt(w, port) /\ port_flags' = port_flags /\ T = {d, w}
      BY <1>2, <2>1, <2>3
    <2> QED
      BY <1>1, <1>8, <2>1, <2>2, <2>4, SentOutcome
  <1>9. CASE e.type = "SEND" /\ SendingPutOff(port)
    <2>1. PICK w : T = {w} /\ WakesUpAt(w, port)
      BY <1>3, <1>9 DEF SendingPutOff
    <2>2. queues' = queues /\ port_flags' = port_flags /\ OnlyCounted
      BY <1>9 DEF SendingPutOff
    <2> QED
      BY <1>1, <1>9, <2>1, <2>2, PutOffOutcome
  <1>10. CASE e.type = "ARRIVE" /\ S(s)!Arrive(e.packet, clock)
    <2>1. PacketRecorded(s, e.packet) \/ PacketPasses(s, e.packet) \/ PacketWaits(s, e.packet)
      BY <1>10, ArriveDoes
    <2> QED
      BY <1>1, <1>5, <1>6, <1>7, <1>10, <2>1
  <1>11. CASE e.type = "SEND" /\ S(s)!Send(e.port, clock)
    <2>1. PacketSent(s, e.port) \/ SendingPutOff(e.port)
      BY <1>11, SendDoes
    <2> QED
      BY <1>1, <1>8, <1>9, <1>11, <2>1
  <1> QED
    BY <1>10, <1>11
-----------------------------------------------------------------------------
(* The steps of the program.                                               *)

\* A switch whose queues, records and flags will be in order.
LEMMA SwitchWillBeOK ==
  ASSUME Sent' = Sent, NEW s, NEW qs, NEW st, NEW flags,
         qs = StateOf(s)'.queues, st = StateOf(s)'.stats, flags = StateOf(s)'.port_flags,
         QueuesOK(s, qs), RecordsOK(st), flags \in [PortsOf(s) -> {0, 1}]
  PROVE  SwitchOK(s)'
  <1>1. QueuesOK(s, qs)' <=> QueuesOK(s, qs)
    BY DEF QueuesOK, HomeOf
  <1>2. QueuesOK(s, StateOf(s).queues)'
    BY <1>1
  <1>3. RecordsOK(StateOf(s).stats)'
    BY DEF RecordsOK
  <1>4. (StateOf(s).port_flags \in [PortsOf(s) -> {0, 1}])'
    BY DEF PortsOf
  <1> QED
    BY <1>2, <1>3, <1>4 DEF SwitchOK

\* The state of the switch that is loaded, after a step that loads no other.
LEMMA LoadedState ==
  ASSUME current' = current, parked' = parked
  PROVE  /\ StateOf(current).queues = queues /\ StateOf(current)'.queues = queues'
         /\ StateOf(current).stats = stats /\ StateOf(current)'.stats = stats'
         /\ StateOf(current).port_flags = port_flags
         /\ StateOf(current)'.port_flags = port_flags'
         /\ StateOf(current).shapers = shapers /\ StateOf(current)'.shapers = shapers'
         /\ StateOf(current).ports_available_time = ports_available_time
         /\ StateOf(current)'.ports_available_time = ports_available_time'
         /\ \A t : t # current => StateOf(t)' = StateOf(t)
  <1>1. StateOf(current) = CurrentState /\ StateOf(current)' = CurrentState'
    BY DEF StateOf
  <1>2. /\ CurrentState.queues = queues /\ CurrentState'.queues = queues'
        /\ CurrentState.stats = stats /\ CurrentState'.stats = stats'
        /\ CurrentState.port_flags = port_flags /\ CurrentState'.port_flags = port_flags'
        /\ CurrentState.shapers = shapers /\ CurrentState'.shapers = shapers'
        /\ CurrentState.ports_available_time = ports_available_time
        /\ CurrentState'.ports_available_time = ports_available_time'
    BY DEF CurrentState
  <1>3. \A t : t # current => StateOf(t)' = StateOf(t)
    BY DEF StateOf
  <1> QED
    BY <1>1, <1>2, <1>3

\* What Handle starts from.
LEMMA HandleSetting ==
  ASSUME NetworkInv, Handle,
         NEW e \in handling, NEW T, T = {Addressed(f) : f \in done'.sent}
  PROVE  Setting(e, T)
  <1>1. EventsInv /\ LoopInv
    BY DEF NetworkInv, PacketsInv
  <1>2. HandlesEvent(e, T)
    <2>1. IsABag(pending) /\ IsABag(discarded) /\ handling = {e}
      BY <1>1 DEF EventsInv
    <2>2. PICK late : late = {f \in T : f.at >= g_tw_ts_end}
      OBVIOUS
    <2>3. /\ handling' = {}
          /\ pending' = pending (+) SetToBag(T \ late)
          /\ discarded' = discarded (+) SetToBag(late)
      BY <2>2 DEF Handle
    <2>4. late \in SUBSET T
      BY <2>2
    <2> QED
      BY <2>1, <2>3, <2>4 DEF HandlesEvent
  <1>3. current \in Switches /\ e.to = current
    BY <1>1 DEF LoopInv
  <1>4. EventOK(e)
    BY <1>1 DEF EventsInv, Live
  <1>5. SwitchOK(current) /\ Guarded(current)
    BY <1>3 DEF NetworkInv, PacketsInv
  <1>6. /\ StateOf(current).queues = queues /\ StateOf(current).stats = stats
        /\ StateOf(current).port_flags = port_flags
    BY DEF StateOf, CurrentState
  <1>7. /\ QueuesOK(current, queues) /\ RecordsOK(stats)
        /\ port_flags \in [PortsOf(current) -> {0, 1}]
        /\ Watched(current, queues, port_flags, Live)
    BY <1>5, <1>6 DEF SwitchOK, Guarded
  <1>8. SentRouted
    BY <1>1, SentIsRouted
  <1> QED
    BY <1>1, <1>2, <1>3, <1>4, <1>7, <1>8 DEF Setting, NetworkInv, PacketsInv

\* Handling an event.
LEMMA HandleKeepsPackets ==
  ASSUME NetworkInv, Handle
  PROVE  PacketsInv'
  <1>1. PICK e \in handling, s \in Switches :
          /\ s = current
          /\ \/ e.type = "ARRIVE" /\ S(s)!Arrive(e.packet, clock)
             \/ e.type = "SEND" /\ S(s)!Send(e.port, clock)
    BY DEF Handle
  <1>2. PICK T : T = {Addressed(f) : f \in done'.sent}
    OBVIOUS
  <1>3. Setting(e, T)
    BY <1>2, HandleSetting
  <1>4. Outcome(e, T)
    BY <1>1, <1>2, <1>3, HandleOutcome
  <1>5. /\ current' = current /\ parked' = parked /\ phase' = phase /\ handling' = {}
        /\ scheduled' = scheduled /\ num_packets_sent' = num_packets_sent
        /\ pks' = pks /\ g_tw_ts_end' = g_tw_ts_end
    BY DEF Handle, termvars
  <1>6. Sent' = Sent
    BY <1>5 DEF Sent
  <1>7. /\ HandlesEvent(e, T) /\ EventsInv /\ current \in Switches
        /\ Apart(WaitingPids, RecordedPids, MovingPids, Pids(Sent))
    BY <1>3 DEF Setting
  <1>8. SentOK(e, T)
    BY <1>4 DEF Outcome
  <1>9. EventsInv' /\ MovingPids' = (MovingPids \ PidsIn({e})) \cup PidsIn(T)
    BY <1>6, <1>7, <1>8, EventsKept
  <1>10. s = current
    BY <1>1
  <1>11. /\ StateOf(s).queues = queues /\ StateOf(s)'.queues = queues'
         /\ StateOf(s).stats = stats /\ StateOf(s)'.stats = stats'
         /\ StateOf(s).port_flags = port_flags /\ StateOf(s)'.port_flags = port_flags'
         /\ \A t : t # s => StateOf(t)' = StateOf(t)
    BY <1>5, <1>10, LoadedState
  <1>12. /\ QueuesOK(s, queues') /\ RecordsOK(stats')
         /\ port_flags' \in [PortsOf(s) -> {0, 1}]
         /\ Watched(s, queues', port_flags', Live')
    BY <1>4, <1>10 DEF Outcome
  <1>13. ASSUME NEW t \in Switches PROVE SwitchOK(t)'
    <2>1. SwitchOK(t)
      BY DEF NetworkInv, PacketsInv
    <2>2. PICK qs, st, flags : /\ qs = StateOf(t)'.queues /\ st = StateOf(t)'.stats
                               /\ flags = StateOf(t)'.port_flags
      OBVIOUS
    <2>3. QueuesOK(t, qs) /\ RecordsOK(st) /\ flags \in [PortsOf(t) -> {0, 1}]
      <3>1. CASE t = s
        BY <1>11, <1>12, <2>2, <3>1
      <3>2. CASE t # s
        BY <1>11, <2>1, <2>2, <3>2 DEF SwitchOK
      <3> QED
        BY <3>1, <3>2
    <2> QED
      BY <1>6, <2>2, <2>3, SwitchWillBeOK
  <1>14. ASSUME NEW t \in Switches PROVE Guarded(t)'
    <2>1. Guarded(t)' <=> Watched(t, StateOf(t)'.queues, StateOf(t)'.port_flags, Live')
      BY DEF Guarded, Watched, PortsOf, Backlogged
    <2>2. CASE t = s
      BY <1>11, <1>12, <2>1, <2>2
    <2>3. CASE t # s
      <3>1. Watched(t, StateOf(t).queues, StateOf(t).port_flags, Live)
        BY DEF NetworkInv, PacketsInv, Guarded
      <3>2. Live \subseteq Live' \cup {e} /\ e.to = s
        BY <1>3, <1>10, SettingFacts DEF Setting
      <3>3. Watched(t, StateOf(t).queues, StateOf(t).port_flags, Live')
        BY <2>3, <3>1, <3>2 DEF Watched
      <3> QED
        BY <1>11, <2>1, <2>3, <3>3
    <2> QED
      BY <2>2, <2>3
  <1>15. /\ WaitingPids' = [WaitingPids EXCEPT ![s] = WaitingAt(queues', QueuesOf(s))]
         /\ RecordedPids' = [RecordedPids EXCEPT ![s] = IdsOf(stats')]
    <2>1. s \in Switches /\ Switches' = Switches
      BY <1>7, <1>10 DEF Switches
    <2>2. WaitingPids' = [t \in Switches |-> WaitingAt(StateOf(t)'.queues, QueuesOf(t))]
      BY DEF WaitingPids, WaitingAt, QueuesOf, Switches
    <2>3. RecordedPids' = [t \in Switches |-> IdsOf(StateOf(t)'.stats)]
      BY DEF RecordedPids, Recorded, Records, IdsOf, Switches
    <2>4. WaitingPids = [t \in Switches |-> WaitingAt(StateOf(t).queues, QueuesOf(t))]
      BY DEF WaitingPids
    <2>5. RecordedPids = [t \in Switches |-> IdsOf(StateOf(t).stats)]
      BY DEF RecordedPids, Recorded, Records, IdsOf
    <2>6. \A t \in Switches \ {s} : WaitingAt(StateOf(t)'.queues, QueuesOf(t)) = WaitingPids[t]
      BY <1>11, <2>4
    <2>7. \A t \in Switches \ {s} : IdsOf(StateOf(t)'.stats) = RecordedPids[t]
      BY <1>11, <2>5
    <2>8. WaitingPids' = [WaitingPids EXCEPT ![s] = WaitingAt(queues', QueuesOf(s))]
      BY <1>11, <2>1, <2>2, <2>4, <2>6
    <2>9. RecordedPids' = [RecordedPids EXCEPT ![s] = IdsOf(stats')]
      BY <1>11, <2>1, <2>3, <2>5, <2>7
    <2> QED
      BY <2>8, <2>9
  <1>16. Apart(WaitingPids', RecordedPids', MovingPids', Pids(Sent'))
    BY <1>4, <1>6, <1>9, <1>10, <1>15 DEF Outcome
  <1>17. Apart(WaitingPids, RecordedPids, MovingPids, Pids(Sent))'
    BY <1>16 DEF Apart, Switches, Pids
  <1>18. LoopInv'
    <2>1. phase # "start" /\ phase # "over"
      BY DEF NetworkInv, PacketsInv, LoopInv, Live
    <2>2. Workloads' = Workloads /\ Switches' = Switches
      BY DEF Workloads, Switches
    <2>3. AllSent => AllSent'
      BY <1>5, <2>2 DEF AllSent, Reach
    <2> QED
      BY <1>5, <2>1, <2>2, <2>3 DEF NetworkInv, PacketsInv, LoopInv
  <1> QED
    BY <1>9, <1>13, <1>14, <1>17, <1>18 DEF PacketsInv, Switches

\* A step that leaves every switch, the events and what was sent as they are.
StatesKept ==
  /\ Live' = Live /\ Sent' = Sent
  /\ \A s \in Switches : /\ StateOf(s)'.queues = StateOf(s).queues
                         /\ StateOf(s)'.stats = StateOf(s).stats
                         /\ StateOf(s)'.port_flags = StateOf(s).port_flags
                         /\ StateOf(s)'.shapers = StateOf(s).shapers
                         /\ StateOf(s)'.ports_available_time = StateOf(s).ports_available_time

LEMMA PacketsStill ==
  ASSUME PacketsInv, LoopInv', EventsInv', StatesKept
  PROVE  PacketsInv'
  <1> USE DEF StatesKept
  <1>1. ASSUME NEW s \in Switches PROVE SwitchOK(s)'
    <2>1. SwitchOK(s)
      BY DEF PacketsInv
    <2>2. PICK qs, st, flags : /\ qs = StateOf(s)'.queues /\ st = StateOf(s)'.stats
                               /\ flags = StateOf(s)'.port_flags
      OBVIOUS
    <2>3. QueuesOK(s, qs) /\ RecordsOK(st) /\ flags \in [PortsOf(s) -> {0, 1}]
      BY <2>1, <2>2 DEF SwitchOK
    <2> QED
      BY <2>2, <2>3, SwitchWillBeOK
  <1>2. ASSUME NEW s \in Switches PROVE Guarded(s)'
    <2>1. Guarded(s)' <=> Watched(s, StateOf(s)'.queues, StateOf(s)'.port_flags, Live')
      BY DEF Guarded, Watched, PortsOf, Backlogged
    <2>2. Guarded(s)
      BY DEF PacketsInv
    <2> QED
      BY <2>1, <2>2 DEF Guarded
  <1>3. /\ WaitingPids' = WaitingPids /\ RecordedPids' = RecordedPids
    <2>1. WaitingPids' = [t \in Switches |-> WaitingAt(StateOf(t)'.queues, QueuesOf(t))]
      BY DEF WaitingPids, WaitingAt, QueuesOf, Switches
    <2>2. RecordedPids' = [t \in Switches |-> IdsOf(StateOf(t)'.stats)]
      BY DEF RecordedPids, Recorded, Records, IdsOf, Switches
    <2>3. WaitingPids = [t \in Switches |-> WaitingAt(StateOf(t).queues, QueuesOf(t))]
      BY DEF WaitingPids
    <2>4. RecordedPids = [t \in Switches |-> IdsOf(StateOf(t).stats)]
      BY DEF RecordedPids, Recorded, Records, IdsOf
    <2> QED
      BY <2>1, <2>2, <2>3, <2>4
  <1>4. MovingPids' = MovingPids
    BY DEF MovingPids
  <1>5. Apart(WaitingPids, RecordedPids, MovingPids, Pids(Sent))'
    <2>1. Apart(WaitingPids', RecordedPids', MovingPids', Pids(Sent'))
      BY <1>3, <1>4 DEF PacketsInv
    <2> QED
      BY <2>1 DEF Apart, Switches, Pids
  <1> QED
    BY <1>1, <1>2, <1>5 DEF PacketsInv, Switches

\* A step outside the loop.
LEMMA LoopKeepsStates ==
  ASSUME UNCHANGED <<swvars, loop, scheduled>>
  PROVE  StatesKept
  <1>1. /\ current' = current /\ parked' = parked /\ handling' = handling
        /\ pending' = pending /\ discarded' = discarded
        /\ queues' = queues /\ stats' = stats /\ port_flags' = port_flags
        /\ shapers' = shapers /\ ports_available_time' = ports_available_time
    BY DEF loop, swvars, state
  <1>2. Sent' = Sent
    BY DEF Sent
  <1>3. Live' = Live
    BY <1>1 DEF Live
  <1>4. ASSUME NEW s \in Switches
        PROVE  /\ StateOf(s)'.queues = StateOf(s).queues
               /\ StateOf(s)'.stats = StateOf(s).stats
               /\ StateOf(s)'.port_flags = StateOf(s).port_flags
               /\ StateOf(s)'.shapers = StateOf(s).shapers
               /\ StateOf(s)'.ports_available_time = StateOf(s).ports_available_time
    <2>1. CASE s = current
      BY <1>1, <2>1, LoadedState
    <2>2. CASE s # current
      BY <1>1, <2>2, LoadedState
    <2> QED
      BY <2>1, <2>2
  <1> QED
    BY <1>2, <1>3, <1>4 DEF StatesKept

LEMMA LoopStill ==
  ASSUME PacketsInv, LoopInv', UNCHANGED <<swvars, loop, scheduled>>
  PROVE  PacketsInv'
  <1>1. handling' = handling /\ pending' = pending /\ discarded' = discarded
    BY DEF loop
  <1>2. StatesKept
    BY LoopKeepsStates
  <1>3. EventsInv'
    <2>1. \A e : Copies(e)' = Copies(e)
      BY <1>1 DEF Copies, NumberOf
    <2>2. \A e : EventOK(e)' <=> EventOK(e)
      BY <1>2, EventStaysOK DEF StatesKept
    <2>3. EventsInv
      BY DEF PacketsInv
    <2> QED
      BY <1>1, <1>2, <2>1, <2>2, <2>3 DEF EventsInv, StatesKept
  <1> QED
    BY <1>2, <1>3, PacketsStill

\* The LP that the mapping finds is the one that an event is for.
LEMMA AddresseeFound ==
  ASSUME MappingInv, Mapped, NEW e, e.to \in Switches
  PROVE  Addressee(e) = e.to
  <1> USE MappingAssumption DEF MappingInv
  <1>1. PICK gid : gid = e.to
    OBVIOUS
  <1>2. total_switches \in Nat /\ gid \in 0 .. total_switches - 1
    BY <1>1 DEF Switches
  <1>3. gid \in Nat /\ gid < total_lps /\ gid \in LPs
    BY <1>2 DEF LPs, total_lps
  <1>4. PICK node \in 0 .. nnodes - 1 : node = gid % nnodes
    BY <1>3, Division
  <1>5. PICK index \in Nat : index = gid \div nnodes
    BY <1>3, Division
  <1>6. gid = node + index * nnodes
    BY <1>3, <1>4, <1>5, Division
  <1>7. node \in Nodes /\ node \in DOMAIN lps
    BY <1>4 DEF Mapped, Nodes
  <1>8. index < lps_per_pe(node) /\ lps_per_pe(node) \in Nat
    BY <1>3, <1>4, <1>6, <1>7, HasRoom, LpsType
  <1>9. index \in 0 .. lps_per_pe(node) - 1
    BY <1>8
  <1>10. LpTable(node)[index].gid = node + index * nnodes
    BY <1>9, Zenon DEF LpTable
  <1>11. lps[node] = LpTable(node)
    BY <1>7
  <1> QED
    BY <1>1, <1>4, <1>5, <1>6, <1>10, <1>11
    DEF Addressee, custom_mapping_lp_to_pe, custom_mapping_lpgid_to_local

\* The loop takes an event: every switch keeps its state, loaded or parked.
LEMMA DispatchKeepsStates ==
  ASSUME PacketsInv, NEW e \in BagToSet(pending), Dispatch(e)
  PROVE  StatesKept
  <1>1. Live' = Live
    BY DispatchKeepsEvents DEF PacketsInv, EventsInv
  <1>2. Sent' = Sent
    BY DEF Dispatch, termvars, Sent
  <1>3. /\ current \in Switches /\ DOMAIN parked = Switches
    BY DEF PacketsInv, LoopInv
  <1>4. ASSUME NEW s \in Switches
        PROVE  /\ StateOf(s)'.queues = StateOf(s).queues
               /\ StateOf(s)'.stats = StateOf(s).stats
               /\ StateOf(s)'.port_flags = StateOf(s).port_flags
               /\ StateOf(s)'.shapers = StateOf(s).shapers
               /\ StateOf(s)'.ports_available_time = StateOf(s).ports_available_time
    <2>1. CASE current' = current
      <3>1. /\ parked' = parked /\ queues' = queues /\ stats' = stats /\ port_flags' = port_flags
            /\ shapers' = shapers /\ ports_available_time' = ports_available_time
        BY <2>1 DEF Dispatch, state
      <3>2. CASE s = current
        BY <2>1, <3>1, <3>2, LoadedState
      <3>3. CASE s # current
        BY <2>1, <3>1, <3>3, LoadedState
      <3> QED
        BY <3>2, <3>3
    <2>2. CASE current' # current
      <3>1. PICK c : c = current'
        OBVIOUS
      <3>2. /\ queues' = parked[c].queues /\ stats' = parked[c].stats
            /\ port_flags' = parked[c].port_flags /\ shapers' = parked[c].shapers
            /\ ports_available_time' = parked[c].ports_available_time
            /\ parked' = [parked EXCEPT ![current] = CurrentState, ![c] = None]
        BY <2>2, <3>1 DEF Dispatch, Load
      <3>3. CASE s = c
        <4>1. /\ CurrentState'.queues = queues' /\ CurrentState'.stats = stats'
              /\ CurrentState'.port_flags = port_flags' /\ CurrentState'.shapers = shapers'
              /\ CurrentState'.ports_available_time = ports_available_time'
          BY DEF CurrentState
        <4>2. StateOf(s) = parked[s] /\ StateOf(s)' = CurrentState'
          BY <2>2, <3>1, <3>3 DEF StateOf
        <4> QED
          BY <3>2, <3>3, <4>1, <4>2
      <3>4. CASE s = current
        <4>1. StateOf(s) = CurrentState /\ StateOf(s)' = parked'[s]
          BY <2>2, <3>4 DEF StateOf
        <4>2. parked'[s] = CurrentState
          BY <1>3, <2>2, <3>1, <3>2, <3>4
        <4> QED
          BY <4>1, <4>2
      <3>5. CASE s # c /\ s # current
        <4>1. StateOf(s) = parked[s] /\ StateOf(s)' = parked'[s]
          BY <3>1, <3>5 DEF StateOf
        <4>2. parked'[s] = parked[s]
          BY <1>3, <3>2, <3>5
        <4> QED
          BY <4>1, <4>2
      <3> QED
        BY <3>3, <3>4, <3>5
    <2> QED
      BY <2>1, <2>2
  <1> QED
    BY <1>1, <1>2, <1>4 DEF StatesKept

LEMMA DispatchKeepsPackets ==
  ASSUME NetworkInv, NEW e \in BagToSet(pending), Dispatch(e)
  PROVE  PacketsInv'
  <1>1. PacketsInv /\ LoopInv /\ EventsInv /\ MappingInv /\ DirsInv
    BY DEF NetworkInv, PacketsInv
  <1>2. /\ phase = "events" /\ phase' = phase /\ handling' = {e}
        /\ current' = Addressee(e)
        /\ UNCHANGED <<scheduled, num_packets_sent, pks, g_tw_ts_end>>
    BY DEF Dispatch, termvars
  <1>3. /\ current \in Switches /\ DOMAIN parked = Switches
    BY <1>1 DEF LoopInv
  <1>4. Mapped
    BY <1>1, <1>2 DEF DirsInv
  <1>5. e.to \in Switches
    BY <1>1 DEF EventsInv, Live, EventOK
  <1>6. current' = e.to
    BY <1>1, <1>2, <1>4, <1>5, AddresseeFound
  <1>7. Sent' = Sent
    BY <1>2 DEF Sent
  <1>8. EventsInv'
    BY <1>1, <1>7, DispatchKeepsEventsInv
  <1>9. StatesKept
    BY <1>1, DispatchKeepsStates
  <1>10. DOMAIN parked' = Switches
    <2>1. CASE current' = current
      BY <1>3, <2>1 DEF Dispatch
    <2>2. CASE current' # current
      <3>1. parked' = [parked EXCEPT ![current] = CurrentState, ![current'] = None]
        BY <2>2 DEF Dispatch
      <3> QED
        BY <1>3, <3>1
    <2> QED
      BY <2>1, <2>2
  <1>11. LoopInv'
    <2>1. Workloads' = Workloads /\ Switches' = Switches
      BY DEF Workloads, Switches
    <2>2. AllSent => AllSent'
      BY <1>2, <2>1 DEF AllSent, Reach
    <2> QED
      BY <1>1, <1>2, <1>5, <1>6, <1>10, <2>1, <2>2 DEF LoopInv
  <1> QED
    BY <1>1, <1>8, <1>9, <1>11, PacketsStill

\* The packets that the terminal sends: as many as it reaches, all apart.
LEMMA AllSentFacts ==
  ASSUME g_tw_ts_end \in Nat, AllSent
  PROVE  /\ num_packets_sent = Cardinality(Pids(Sent))
         /\ \A e \in scheduled : /\ e.type = "ARRIVE" /\ e.to \in Switches
                                 /\ e.packet \in Sent
         /\ \A e, f \in scheduled : e.packet.pid = f.packet.pid => e = f
  <1>1. PICK w, A : w = pks /\ A = Reach(w, g_tw_ts_end)
    OBVIOUS
  <1>2. /\ w \in Workloads /\ scheduled = {ArriveEvent(w[i]) : i \in A}
        /\ num_packets_sent = Cardinality(A)
    BY <1>1 DEF AllSent
  <1>3. IsWorkload(w)
    BY <1>2, Parsed
  <1>4. A \subseteq DOMAIN w
    BY <1>1 DEF Reach
  <1>5. \A i \in A : /\ ArriveEvent(w[i]).packet.pid = w[i].id
                     /\ ArriveEvent(w[i]).type = "ARRIVE" /\ ArriveEvent(w[i]).to = w[i].src
    BY DEF ArriveEvent
  <1>6. \A i, j \in A : w[i].id = w[j].id => i = j
    BY <1>3, <1>4 DEF IsWorkload
  <1>7. ASSUME NEW e \in scheduled
        PROVE  e.type = "ARRIVE" /\ e.to \in Switches /\ e.packet \in Sent
    <2>1. PICK i \in A : e = ArriveEvent(w[i])
      BY <1>2
    <2>2. w[i].src \in Switches
      BY <1>2, <1>4, RouteAssumption
    <2> QED
      BY <1>5, <2>1, <2>2 DEF Sent
  <1>8. ASSUME NEW e \in scheduled, NEW f \in scheduled, e.packet.pid = f.packet.pid
        PROVE  e = f
    <2>1. PICK i \in A, j \in A : e = ArriveEvent(w[i]) /\ f = ArriveEvent(w[j])
      BY <1>2
    <2> QED
      BY <1>5, <1>6, <1>8, <2>1
  <1>9. Pids(Sent) = {w[i].id : i \in A}
    BY <1>2, <1>5 DEF Pids, Sent
  <1>10. IsFiniteSet(A)
    <2>1. PICK n \in Nat : DOMAIN w = 1 .. n
      BY <1>3 DEF IsWorkload
    <2>2. IsFiniteSet(1 .. n)
      BY FS_Interval
    <2>3. A \in SUBSET (1 .. n)
      BY <1>4, <2>1
    <2> QED
      BY <2>2, <2>3, FS_Subset
  <1>11. Cardinality(Pids(Sent)) = Cardinality(A)
    <2> DEFINE f == [i \in A |-> w[i].id]
    <2>1. f \in [A -> Pids(Sent)]
      BY <1>9
    <2>2. \A i, j \in A : f[i] = f[j] => i = j
      BY <1>6
    <2>3. \A x \in Pids(Sent) : \E i \in A : f[i] = x
      BY <1>9
    <2>4. f \in Bijection(A, Pids(Sent))
      BY <2>1, <2>2, <2>3 DEF Bijection, Injection, Surjection, IsInjective
    <2> HIDE DEF f
    <2> QED
      BY <1>10, <2>4, FS_Bijection DEF ExistsBijection
  <1> QED
    BY <1>2, <1>7, <1>8, <1>11

\* Before the events there are no packets anywhere.
LEMMA NothingYet ==
  ASSUME PacketsInv, phase = "start"
  PROVE  /\ Sent = {} /\ MovingPids = {} /\ Pids(Sent) = {}
         /\ \A s \in Switches : WaitingPids[s] = {} /\ RecordedPids[s] = {}
         /\ BagToSet(pending) = {} /\ BagToSet(discarded) = {} /\ handling = {}
  <1>1. Live = {} /\ scheduled = {}
    BY DEF PacketsInv, LoopInv
  <1>2. Sent = {} /\ MovingPids = {} /\ Pids(Sent) = {}
    BY <1>1 DEF Sent, MovingPids, Pids
  <1>3. \A s \in Switches : WaitingPids[s] = {} /\ RecordedPids[s] = {}
    <2>1. PICK W, R, O, All : /\ W = WaitingPids /\ R = RecordedPids
                              /\ O = MovingPids /\ All = Pids(Sent)
      OBVIOUS
    <2>2. Apart(W, R, O, All) /\ All = {}
      BY <1>2, <2>1 DEF PacketsInv
    <2>3. \A s \in Switches : W[s] = {} /\ R[s] = {}
      BY <2>2, ApartFacts
    <2> QED
      BY <2>1, <2>3
  <1> QED
    BY <1>1, <1>2, <1>3 DEF Live

\* A switch without packets.
LEMMA EmptySwitch ==
  ASSUME NEW s \in Switches, NEW qs, QueuesOK(s, qs), Sent = {}
  PROVE  qs \in [QueuesOf(s) -> {<<>>}] /\ ~ \E port \in PortsOf(s) : Backlogged(qs, port)
  <1>1. qs \in [QueuesOf(s) -> Seq({})]
    BY DEF QueuesOK
  <1>2. \A queue \in Seq({}) : queue = <<>>
    <2> SUFFICES ASSUME NEW queue \in Seq({}), queue # <<>> PROVE FALSE
      OBVIOUS
    <2>1. Head(queue) \in {}
      OBVIOUS
    <2> QED
      BY <2>1
  <1>3. qs \in [QueuesOf(s) -> {<<>>}]
    BY <1>1, <1>2
  <1>4. Indexed(QueuesOf(s), PortsOf(s))
    BY SwitchIndexed
  <1>5. \A port \in PortsOf(s), level \in Levels : MeterIndex(port, level) \in QueuesOf(s)
    BY <1>4, IndexedFacts
  <1> QED
    BY <1>3, <1>5 DEF Backlogged

\* What was sent is on its way to a switch, as a fact about a state.
LEMMA SentAreEvents ==
  g_tw_ts_end \in Nat /\ AllSent =>
    /\ \A e \in scheduled : e.type = "ARRIVE" /\ e.to \in Switches /\ e.packet \in Sent
    /\ \A e, f \in scheduled : e.packet.pid = f.packet.pid => e = f
  BY AllSentFacts

\* The terminal schedules its packets: they are all on their way.
LEMMA PrerunKeepsPackets ==
  ASSUME NetworkInv, Prerun
  PROVE  PacketsInv'
  <1>1. PacketsInv /\ LoopInv /\ EventsInv /\ TerminalInv /\ phase = "start"
    BY DEF NetworkInv, PacketsInv, Prerun
  <1>2. /\ current' = current /\ parked' = parked /\ handling' = handling
        /\ discarded' = discarded /\ pks' = pks /\ g_tw_ts_end' = g_tw_ts_end
        /\ pending' = SetToBag(scheduled') /\ phase' \in {"events", "failed"} /\ pks # Unread
        /\ queues' = queues /\ stats' = stats /\ port_flags' = port_flags
    BY DEF Prerun, swvars, state, terminal_prerun
  <1>3. AllSent'
    <2>1. {i \in DOMAIN pks : Reached(i)} = Reach(pks, g_tw_ts_end)
      BY DEF Reached, Reach
    <2>2. /\ scheduled' = {ArriveEvent(pks[i]) : i \in Reach(pks, g_tw_ts_end)}
          /\ num_packets_sent' = Cardinality(Reach(pks, g_tw_ts_end))
      BY <2>1 DEF Prerun, terminal_prerun
    <2>3. pks \in Workloads
      BY <1>1, <1>2 DEF LoopInv
    <2>4. Workloads' = Workloads /\ Reach(pks, g_tw_ts_end)' = Reach(pks, g_tw_ts_end)
      BY <1>2 DEF Workloads, Reach
    <2> QED
      BY <1>2, <2>2, <2>3, <2>4 DEF AllSent
  <1>4. g_tw_ts_end' \in Nat
    BY <1>1, <1>2 DEF TerminalInv
  <1>5. /\ \A e \in scheduled' : e.type = "ARRIVE" /\ e.to \in Switches /\ e.packet \in Sent'
        /\ \A e, f \in scheduled' : e.packet.pid = f.packet.pid => e = f
    <2>1. (g_tw_ts_end \in Nat /\ AllSent =>
             /\ \A e \in scheduled : e.type = "ARRIVE" /\ e.to \in Switches /\ e.packet \in Sent
             /\ \A e, f \in scheduled : e.packet.pid = f.packet.pid => e = f)'
      BY SentAreEvents, PTL
    <2>2. Switches' = Switches
      BY DEF Switches
    <2> QED
      BY <1>3, <1>4, <2>1, <2>2
  <1>6. /\ Sent = {} /\ BagToSet(discarded) = {} /\ handling = {}
        /\ \A s \in Switches : WaitingPids[s] = {} /\ RecordedPids[s] = {}
    BY <1>1, NothingYet
  <1>7. PICK B : B = scheduled'
    OBVIOUS
  <1>8. /\ IsABag(pending') /\ BagToSet(pending') = B
        /\ \A e : NumberOf(e, pending') = IF e \in B THEN 1 ELSE 0
    BY <1>2, <1>7, BagOfSet
  <1>9. Live' = B
    BY <1>2, <1>6, <1>8 DEF Live
  <1>10. EventsInv'
    <2>1. IsABag(discarded')
      BY <1>1, <1>2 DEF EventsInv
    <2>2. \A e \in B : EventOK(e)'
      BY <1>5, <1>7 DEF EventOK, Switches
    <2>3. \A e \in B : Copies(e)' = 1
      <3>1. \A e : NumberOf(e, discarded') = 0
        BY <1>2, <1>6 DEF NumberOf
      <3>2. \A e \in B : Copies(e)' = 1 + 0 + 0
        BY <1>2, <1>6, <1>8, <3>1 DEF Copies, NumberOf
      <3> QED
        BY <3>2
    <2> QED
      BY <1>2, <1>5, <1>6, <1>7, <1>8, <1>9, <2>1, <2>2, <2>3 DEF EventsInv
  <1>11. ASSUME NEW s \in Switches
         PROVE  /\ StateOf(s)'.queues = StateOf(s).queues
                /\ StateOf(s)'.stats = StateOf(s).stats
                /\ StateOf(s)'.port_flags = StateOf(s).port_flags
    <2>1. CASE s = current
      BY <1>2, <2>1, LoadedState
    <2>2. CASE s # current
      BY <1>2, <2>2, LoadedState
    <2> QED
      BY <2>1, <2>2
  <1>12. ASSUME NEW s \in Switches PROVE SwitchOK(s)' /\ Guarded(s)'
    <2>1. PICK qs, st, flags : /\ qs = StateOf(s)'.queues /\ st = StateOf(s)'.stats
                               /\ flags = StateOf(s)'.port_flags
      OBVIOUS
    <2>2. /\ QueuesOK(s, qs) /\ RecordsOK(st) /\ flags \in [PortsOf(s) -> {0, 1}]
          /\ Watched(s, qs, flags, Live) /\ Live = {}
      BY <1>1, <1>11, <2>1 DEF PacketsInv, SwitchOK, Guarded, LoopInv
    <2>3. /\ qs \in [QueuesOf(s) -> {<<>>}] /\ ~ \E port \in PortsOf(s) : Backlogged(qs, port)
      BY <1>6, <2>2, EmptySwitch
    <2>4. QueuesOK(s, qs)'
      <3>1. \A i \in QueuesOf(s) : qs[i] = <<>>
        BY <2>3
      <3>2. qs \in [QueuesOf(s) -> Seq(Sent')]
        <4>1. <<>> \in Seq(Sent')
          OBVIOUS
        <4> QED
          BY ONLY <2>3, <4>1
      <3>3. DistinctAt(qs, QueuesOf(s))
        BY <2>2 DEF QueuesOK
      <3>4. \A i \in QueuesOf(s) : DOMAIN qs[i] = {}
        BY <3>1
      <3>5. \A i \in QueuesOf(s) : \A k \in DOMAIN qs[i] : qs[i][k].dest # s /\ i = HomeOf(s, qs[i][k])
        BY <3>4
      <3> QED
        BY <3>2, <3>3, <3>5 DEF QueuesOK, QueuesOf, HomeOf
    <2>5. SwitchOK(s)'
      BY <2>1, <2>2, <2>4 DEF SwitchOK, RecordsOK, PortsOf
    <2>6. \A port \in PortsOf(s) : flags[port] = 0 /\ ~ Backlogged(qs, port)
      BY <2>2, <2>3 DEF Watched
    <2>7. Guarded(s)' <=> Watched(s, qs, flags, Live')
      BY <2>1 DEF Guarded, Watched, PortsOf, Backlogged
    <2> QED
      BY <2>5, <2>6, <2>7 DEF Watched
  <1>13. Apart(WaitingPids, RecordedPids, MovingPids, Pids(Sent))'
    <2>1. WaitingPids' = [t \in Switches |-> WaitingAt(StateOf(t)'.queues, QueuesOf(t))]
      BY DEF WaitingPids, WaitingAt, QueuesOf, Switches
    <2>2. RecordedPids' = [t \in Switches |-> IdsOf(StateOf(t)'.stats)]
      BY DEF RecordedPids, Recorded, Records, IdsOf, Switches
    <2>3. \A s \in Switches : WaitingPids'[s] = {} /\ RecordedPids'[s] = {}
      <3>1. ASSUME NEW s \in Switches PROVE WaitingPids'[s] = {} /\ RecordedPids'[s] = {}
        <4>1. WaitingPids[s] = WaitingAt(StateOf(s).queues, QueuesOf(s))
          BY DEF WaitingPids
        <4>2. RecordedPids[s] = IdsOf(StateOf(s).stats)
          BY DEF RecordedPids, Recorded, Records, IdsOf
        <4> QED
          BY <1>6, <1>11, <2>1, <2>2, <4>1, <4>2
      <3> QED
        BY <3>1
    <2>4. MovingPids' = Pids(Sent')
      <3>1. MovingPids' = {e.packet.pid : e \in B}
        BY <1>5, <1>7, <1>9 DEF MovingPids
      <3>2. Pids(Sent') = {e.packet.pid : e \in B}
        BY <1>7 DEF Pids, Sent
      <3> QED
        BY <3>1, <3>2
    <2>5. PICK W, R, All : W = WaitingPids' /\ R = RecordedPids' /\ All = Pids(Sent')
      OBVIOUS
    <2>6. \A s \in Switches : W[s] = {} /\ R[s] = {}
      BY <2>3, <2>5
    <2>7. Apart(W, R, All, All)
      BY <2>6, ApartBy
    <2>8. Apart(WaitingPids', RecordedPids', MovingPids', Pids(Sent'))
      BY <2>4, <2>5, <2>7
    <2> QED
      BY <2>8 DEF Apart, Switches, Pids
  <1>14. LoopInv'
    <2>1. Workloads' = Workloads /\ Switches' = Switches
      BY DEF Workloads, Switches
    <2> QED
      BY <1>1, <1>2, <1>3, <1>6, <2>1 DEF LoopInv
  <1> QED
    BY <1>10, <1>12, <1>13, <1>14 DEF PacketsInv, Switches

\* A step that neither handles an event nor sends a packet.
LEMMA QuietKeepsPackets ==
  ASSUME PacketsInv, UNCHANGED <<swvars, loop, scheduled, num_packets_sent, g_tw_ts_end>>,
         \/ UNCHANGED <<pks, phase>>
         \/ pks = Unread /\ pks' \in Workloads /\ phase' = phase
         \/ /\ pks' = pks /\ phase = "events" /\ phase' \in {"events", "over", "failed"}
            /\ pending = EmptyBag /\ handling = {}
  PROVE  PacketsInv'
  <1>1. LoopInv
    BY DEF PacketsInv
  <1>2. /\ current' = current /\ parked' = parked /\ handling' = handling
        /\ pending' = pending /\ discarded' = discarded
    BY DEF loop
  <1>3. Workloads' = Workloads /\ Switches' = Switches
    BY DEF Workloads, Switches
  <1>4. Live' = Live
    BY <1>2 DEF Live
  <1>5. AllSent => pks # Unread
    BY DEF AllSent
  <1>6. pks' = pks /\ AllSent => AllSent'
    BY <1>3 DEF AllSent, Reach
  <1>7. LoopInv'
    BY <1>1, <1>2, <1>3, <1>4, <1>5, <1>6 DEF LoopInv
  <1> QED
    BY <1>7, LoopStill

\* What is known of the packets stays true.
LEMMA PacketsNext == NetworkInv /\ [Next]_vars => PacketsInv'
<1> SUFFICES ASSUME NetworkInv, [Next]_vars PROVE PacketsInv'
  OBVIOUS
<1>0. PacketsInv
  BY DEF NetworkInv
<1>1. ASSUME NEW node \in Nodes, SetUpRank(node) PROVE PacketsInv'
  <2>1. UNCHANGED <<swvars, loop, scheduled, num_packets_sent, g_tw_ts_end, pks, phase>>
    BY <1>1 DEF SetUpRank, termvars
  <2> QED
    BY <1>0, <2>1, QuietKeepsPackets
<1>2. ASSUME NEW s \in Switches, InitSwitch(s) PROVE PacketsInv'
  <2>1. UNCHANGED <<swvars, loop, scheduled, num_packets_sent, g_tw_ts_end, pks, phase>>
    BY <1>2 DEF InitSwitch, termvars
  <2> QED
    BY <1>0, <2>1, QuietKeepsPackets
<1>3. CASE InitTerminal
  <2>1. /\ UNCHANGED <<swvars, loop, scheduled, num_packets_sent, g_tw_ts_end>>
        /\ pks = Unread /\ pks' \in Workloads /\ phase' = phase
    BY <1>3 DEF InitTerminal, terminal_init
  <2> QED
    BY <1>0, <2>1, QuietKeepsPackets
<1>4. CASE Prerun
  BY <1>4, PrerunKeepsPackets
<1>5. ASSUME NEW e \in BagToSet(pending), Dispatch(e) PROVE PacketsInv'
  BY <1>5, DispatchKeepsPackets
<1>6. CASE Handle
  BY <1>6, HandleKeepsPackets
<1>7. ASSUME NEW s \in Switches, FinishSwitch(s) PROVE PacketsInv'
  <2>1. /\ UNCHANGED <<swvars, loop, scheduled, num_packets_sent, g_tw_ts_end, pks>>
        /\ phase = "events" /\ pending = EmptyBag /\ handling = {}
    BY <1>7 DEF FinishSwitch, termvars
  <2>2. phase' \in {"events", "over", "failed"}
    BY <1>7, <2>1 DEF FinishSwitch
  <2> QED
    BY <1>0, <2>1, <2>2, QuietKeepsPackets
<1>8. CASE UNCHANGED vars
  <2>1. UNCHANGED <<swvars, loop, scheduled, num_packets_sent, g_tw_ts_end, pks, phase>>
    BY <1>8 DEF vars, termvars
  <2> QED
    BY <1>0, <2>1, QuietKeepsPackets
<1> QED
  BY <1>1, <1>2, <1>3, <1>4, <1>5, <1>6, <1>7, <1>8 DEF Next, StartUp, EventLoop

\* A switch that has just been made.
LEMMA FreshIsOK ==
  ASSUME NEW s \in Switches, NEW qs, NEW st, NEW flags,
         qs = [i \in S(s)!Queues |-> <<>>], st = S(s)!NewStats,
         flags = [port \in S(s)!Ports |-> 0]
  PROVE  /\ QueuesOK(s, qs) /\ RecordsOK(st) /\ flags \in [PortsOf(s) -> {0, 1}]
         /\ \A events : Watched(s, qs, flags, events)
         /\ WaitingAt(qs, QueuesOf(s)) = {} /\ IdsOf(st) = {}
  <1>1. S(s)!Queues = QueuesOf(s) /\ S(s)!Ports = PortsOf(s)
    BY DEF S!Queues, S!Ports, S!NUM_QOS_LEVEL, NUM_QOS_LEVEL, QueuesOf, PortsOf
  <1>2. /\ qs \in [QueuesOf(s) -> Seq(Sent)]
        /\ \A i \in QueuesOf(s) : qs[i] = <<>> /\ DOMAIN qs[i] = {}
    BY <1>1
  <1>3. QueuesOK(s, qs)
    BY <1>2 DEF QueuesOK, DistinctAt
  <1>4. WaitingAt(qs, QueuesOf(s)) = {}
    BY <1>2 DEF WaitingAt
  <1>5. st = [received |-> 0, num_packets_recvd |-> 0, num_packets_dropped |-> 0,
              num_packets_sent |-> 0, records |-> <<>>, records_capacity |-> MaxRecords]
    BY DEF S!NewStats
  <1>6. IdsOf(st) = {} /\ RecordsOK(st)
    BY <1>5 DEF IdsOf, RecordsOK
  <1>7. flags \in [PortsOf(s) -> {0, 1}] /\ \A port \in PortsOf(s) : flags[port] = 0
    BY <1>1
  <1>8. \A port \in PortsOf(s) : ~ Backlogged(qs, port)
    <2>1. Indexed(QueuesOf(s), PortsOf(s))
      BY SwitchIndexed
    <2>2. \A port \in PortsOf(s), level \in Levels : MeterIndex(port, level) \in QueuesOf(s)
      BY <2>1, IndexedFacts
    <2> QED
      BY <1>2, <2>2 DEF Backlogged
  <1>9. \A events : Watched(s, qs, flags, events)
    BY <1>7, <1>8 DEF Watched
  <1> QED
    BY <1>3, <1>4, <1>6, <1>7, <1>9

\* In the beginning there are no packets.
LEMMA PacketsInit == Init => PacketsInv
<1> SUFFICES ASSUME Init PROVE PacketsInv
  OBVIOUS
<1>1. /\ current = 0 /\ parked = [s \in Switches |-> FreshSwitch(s)]
      /\ handling = {} /\ pending = EmptyBag /\ discarded = EmptyBag
      /\ phase = "start" /\ scheduled = {} /\ num_packets_sent = 0 /\ pks = Unread
  BY DEF Init, TermInit
<1>2. IsABag(EmptyBag) /\ BagToSet(EmptyBag) = {}
  BY BagOfSet DEF EmptyBag
<1>3. Live = {} /\ Sent = {} /\ MovingPids = {} /\ Pids(Sent) = {}
  BY <1>1, <1>2 DEF Live, Sent, MovingPids, Pids
<1>4. 0 \in Switches
  BY MappingAssumption, NetworkAssumption DEF Switches
<1>5. LoopInv
  BY <1>1, <1>3, <1>4 DEF LoopInv
<1>6. EventsInv
  BY <1>1, <1>2, <1>3 DEF EventsInv
<1>7. ASSUME NEW s \in Switches
      PROVE  /\ StateOf(s).queues = [i \in S(s)!Queues |-> <<>>]
             /\ StateOf(s).stats = S(s)!NewStats
             /\ StateOf(s).port_flags = [port \in S(s)!Ports |-> 0]
  <2>1. CASE s = 0
    <3>1. /\ queues = [i \in S(0)!Queues |-> <<>>] /\ stats = S(0)!NewStats
          /\ port_flags = [port \in S(0)!Ports |-> 0]
      BY DEF Init, S!SwitchInit
    <3> QED
      BY <1>1, <2>1, <3>1 DEF StateOf, CurrentState
  <2>2. CASE s # 0
    <3>1. StateOf(s) = FreshSwitch(s)
      BY <1>1, <2>2 DEF StateOf
    <3>2. NewStats = S(s)!NewStats
      BY DEF NewStats, S!NewStats
    <3> QED
      BY <3>1, <3>2 DEF FreshSwitch
  <2> QED
    BY <2>1, <2>2
<1>8. ASSUME NEW s \in Switches
      PROVE  SwitchOK(s) /\ Guarded(s) /\ WaitingPids[s] = {} /\ RecordedPids[s] = {}
  <2>1. PICK qs, st, flags : /\ qs = StateOf(s).queues /\ st = StateOf(s).stats
                             /\ flags = StateOf(s).port_flags
    OBVIOUS
  <2>2. /\ QueuesOK(s, qs) /\ RecordsOK(st) /\ flags \in [PortsOf(s) -> {0, 1}]
        /\ \A events : Watched(s, qs, flags, events)
        /\ WaitingAt(qs, QueuesOf(s)) = {} /\ IdsOf(st) = {}
    BY <1>7, <2>1, FreshIsOK
  <2>3. SwitchOK(s) /\ Guarded(s)
    BY <2>1, <2>2 DEF SwitchOK, Guarded
  <2>4. WaitingPids[s] = {} /\ RecordedPids[s] = {}
    BY <2>1, <2>2 DEF WaitingPids, RecordedPids, Recorded, Records, IdsOf
  <2> QED
    BY <2>3, <2>4
<1>9. Apart(WaitingPids, RecordedPids, MovingPids, Pids(Sent))
  <2>1. PICK W, R, O, All : /\ W = WaitingPids /\ R = RecordedPids
                            /\ O = MovingPids /\ All = Pids(Sent)
    OBVIOUS
  <2>2. O = {} /\ All = {} /\ \A s \in Switches : W[s] = {} /\ R[s] = {}
    BY <1>3, <1>8, <2>1
  <2>3. Apart(W, R, O, All)
    BY <2>2, ApartBy
  <2> QED
    BY <2>1, <2>3
<1> QED
  BY <1>5, <1>6, <1>8, <1>9 DEF PacketsInv
-----------------------------------------------------------------------------
(* Nothing is lost.                                                        *)

\* The places of a packet in queues, in records and in events.
InQueues(pid) ==
  UNION {UNION {{<<s, i, k>> : k \in {k \in DOMAIN StateOf(s).queues[i] :
                                        StateOf(s).queues[i][k].pid = pid}} :
                  i \in DOMAIN StateOf(s).queues} : s \in Switches}
InRecords(pid) ==
  UNION {{<<s, i>> : i \in {i \in DOMAIN Records(s) : Records(s)[i].pid = pid}} :
           s \in Switches}
InEvents(pid) == {e \in OnTheWay : e.packet.pid = pid}

\* The bag of all events.
LEMMA EventsFacts ==
  ASSUME EventsInv
  PROVE  /\ OnTheWay = {e \in Live : e.type = "ARRIVE"}
         /\ \A e \in OnTheWay : Events[e] = 1
  <1>1. IsABag(pending) /\ IsABag(discarded)
    BY DEF EventsInv
  <1>2. PICK A, B, C : A = pending (+) discarded /\ B = SetToBag(handling) /\ C = A (+) B
    OBVIOUS
  <1>3. /\ IsABag(A) /\ BagToSet(A) = BagToSet(pending) \cup BagToSet(discarded)
        /\ \A e : NumberOf(e, A) = NumberOf(e, pending) + NumberOf(e, discarded)
    BY <1>1, <1>2, BagSum
  <1>4. /\ IsABag(B) /\ BagToSet(B) = handling
        /\ \A e : NumberOf(e, B) = IF e \in handling THEN 1 ELSE 0
    BY <1>2, BagOfSet
  <1>5. /\ IsABag(C) /\ BagToSet(C) = BagToSet(A) \cup BagToSet(B)
        /\ \A e : NumberOf(e, C) = NumberOf(e, A) + NumberOf(e, B)
    BY <1>2, <1>3, <1>4, BagSum
  <1>6. Events = C
    BY <1>2 DEF Events
  <1>7. BagToSet(Events) = Live
    BY <1>3, <1>4, <1>5, <1>6 DEF Live
  <1>8. OnTheWay = {e \in Live : e.type = "ARRIVE"}
    BY <1>7 DEF OnTheWay
  <1>9. ASSUME NEW e \in OnTheWay PROVE Events[e] = 1
    <2>1. e \in Live /\ Copies(e) = 1 /\ e \in BagToSet(C)
      BY <1>6, <1>7, <1>8 DEF EventsInv
    <2>2. C[e] = NumberOf(e, C)
      BY <2>1 DEF NumberOf
    <2>3. NumberOf(e, C) = Copies(e)
      BY <1>3, <1>4, <1>5 DEF Copies
    <2> QED
      BY <1>6, <2>1, <2>2, <2>3
  <1> QED
    BY <1>8, <1>9

\* Where W, R and O say that a packet is.
LEMMA PlacesFacts ==
  ASSUME PacketsInv, NEW x
  PROVE  /\ \A q : q \in InQueues(x) <=>
                     \E s \in Switches : \E i \in QueuesOf(s) :
                       \E k \in DOMAIN StateOf(s).queues[i] :
                         StateOf(s).queues[i][k].pid = x /\ q = <<s, i, k>>
         /\ \A q : q \in InRecords(x) <=>
                     \E s \in Switches : \E i \in DOMAIN Records(s) :
                       Records(s)[i].pid = x /\ q = <<s, i>>
         /\ \A s \in Switches :
              /\ x \in WaitingPids[s] <=>
                   \E i \in QueuesOf(s) : \E k \in DOMAIN StateOf(s).queues[i] :
                     StateOf(s).queues[i][k].pid = x
              /\ x \in RecordedPids[s] <=> \E i \in DOMAIN Records(s) : Records(s)[i].pid = x
         /\ x \in MovingPids <=> InEvents(x) # {}
         /\ \A e, f \in InEvents(x) : e = f
  <1>1. \A s \in Switches : DOMAIN StateOf(s).queues = QueuesOf(s)
    BY DEF PacketsInv, SwitchOK, QueuesOK
  <1>2. \A q : q \in InQueues(x) <=>
                 \E s \in Switches : \E i \in QueuesOf(s) :
                   \E k \in DOMAIN StateOf(s).queues[i] :
                     StateOf(s).queues[i][k].pid = x /\ q = <<s, i, k>>
    BY <1>1 DEF InQueues
  <1>3. \A q : q \in InRecords(x) <=>
                 \E s \in Switches : \E i \in DOMAIN Records(s) :
                   Records(s)[i].pid = x /\ q = <<s, i>>
    BY DEF InRecords
  <1>4. ASSUME NEW s \in Switches
        PROVE  /\ x \in WaitingPids[s] <=>
                    \E i \in QueuesOf(s) : \E k \in DOMAIN StateOf(s).queues[i] :
                      StateOf(s).queues[i][k].pid = x
               /\ x \in RecordedPids[s] <=> \E i \in DOMAIN Records(s) : Records(s)[i].pid = x
    <2>1. WaitingPids[s] = WaitingAt(StateOf(s).queues, QueuesOf(s)) /\ RecordedPids[s] = Recorded(s)
      BY DEF WaitingPids, RecordedPids
    <2>2. x \in WaitingAt(StateOf(s).queues, QueuesOf(s)) <=>
            \E i \in QueuesOf(s) : \E k \in DOMAIN StateOf(s).queues[i] :
              x = StateOf(s).queues[i][k].pid
      BY WaitingAtFacts
    <2>3. x \in Recorded(s) <=> \E i \in DOMAIN Records(s) : Records(s)[i].pid = x
      BY DEF Recorded
    <2> QED
      BY <2>1, <2>2, <2>3
  <1>5. OnTheWay = {e \in Live : e.type = "ARRIVE"} /\ EventsInv
    BY EventsFacts DEF PacketsInv
  <1>6. x \in MovingPids <=> InEvents(x) # {}
    BY <1>5 DEF MovingPids, InEvents
  <1>7. \A e, f \in InEvents(x) : e = f
    BY <1>5 DEF InEvents, EventsInv
  <1> QED
    BY <1>2, <1>3, <1>4, <1>6, <1>7

\* A packet that was sent is in one place.
LEMMA OnePlace ==
  ASSUME PacketsInv, NEW x \in Pids(Sent)
  PROVE  Places(x) = 1
  <1>1. PICK W, R, O, All : /\ W = WaitingPids /\ R = RecordedPids
                            /\ O = MovingPids /\ All = Pids(Sent)
    OBVIOUS
  <1>2. Apart(W, R, O, All)
    BY <1>1 DEF PacketsInv
  <1>3. x \in O \/ \E s \in Switches : x \in W[s] \/ x \in R[s]
    BY <1>1, <1>2, ApartFacts
  <1>4. PICK Q, E, G : Q = InQueues(x) /\ E = InEvents(x) /\ G = InRecords(x)
    OBVIOUS
  <1>5. Places(x) = Cardinality(Q) + Cardinality(G) + Cardinality(E)
    BY <1>4 DEF Places, InQueues, InEvents, InRecords
  <1>6. Cardinality({}) = 0
    BY FS_EmptySet
  <1>7. \A y : Cardinality({y}) = 1
    BY FS_Singleton
  <1>8. /\ x \in O <=> E # {}
        /\ \A e, f \in E : e = f
        /\ Q # {} => \E s \in Switches : x \in W[s]
        /\ G # {} => \E s \in Switches : x \in R[s]
    BY <1>1, <1>4, PlacesFacts
  <1>9. CASE x \in O
    <2>1. \A s \in Switches : x \notin W[s] /\ x \notin R[s]
      BY <1>2, <1>9, ApartFacts
    <2>2. Q = {} /\ G = {} /\ \E e : E = {e}
      BY <1>8, <1>9, <2>1
    <2> QED
      BY ONLY <1>5, <1>6, <1>7, <2>2
  <1>10. ASSUME NEW s \in Switches, x \in W[s] PROVE Places(x) = 1
    <2>1. /\ x \notin O /\ \A t \in Switches : x \notin R[t]
          /\ \A t \in Switches : t # s => x \notin W[t]
      BY <1>2, <1>10, ApartFacts
    <2>2. E = {} /\ G = {}
      BY <1>8, <2>1
    <2>3. PICK i, k : /\ i \in QueuesOf(s) /\ k \in DOMAIN StateOf(s).queues[i]
                      /\ StateOf(s).queues[i][k].pid = x
      <3>1. x \in WaitingPids[s]
        BY <1>1, <1>10
      <3>2. \E i \in QueuesOf(s) : \E k \in DOMAIN StateOf(s).queues[i] :
              StateOf(s).queues[i][k].pid = x
        BY <3>1, PlacesFacts
      <3> QED
        BY ONLY <3>2
    <2>4. <<s, i, k>> \in Q
      BY <1>4, <2>3, PlacesFacts
    <2>5. ASSUME NEW q \in Q PROVE q = <<s, i, k>>
      <3>1. PICK t, j, l :
              /\ t \in Switches /\ j \in QueuesOf(t) /\ l \in DOMAIN StateOf(t).queues[j]
              /\ StateOf(t).queues[j][l].pid = x /\ q = <<t, j, l>>
        BY <1>4, PlacesFacts
      <3>2. x \in W[t]
        BY <1>1, <3>1, PlacesFacts
      <3>3. t = s
        BY <2>1, <3>1, <3>2
      <3>4. DistinctAt(StateOf(s).queues, QueuesOf(s))
        BY DEF PacketsInv, SwitchOK, QueuesOK
      <3>5. PICK qs : qs = StateOf(s).queues
        OBVIOUS
      <3>6. /\ DistinctAt(qs, QueuesOf(s)) /\ i \in QueuesOf(s) /\ j \in QueuesOf(s)
            /\ k \in DOMAIN qs[i] /\ l \in DOMAIN qs[j] /\ qs[i][k].pid = qs[j][l].pid
        BY ONLY <2>3, <3>1, <3>3, <3>4, <3>5
      <3>7. i = j /\ k = l
        BY ONLY <3>6 DEF DistinctAt
      <3> QED
        BY <3>1, <3>3, <3>7
    <2>6. Q = {<<s, i, k>>}
      BY <2>4, <2>5
    <2>7. Cardinality(Q) = 1
      BY <1>7, <2>6
    <2> QED
      BY ONLY <1>5, <1>6, <2>2, <2>7
  <1>11. ASSUME NEW s \in Switches, x \in R[s] PROVE Places(x) = 1
    <2>1. /\ x \notin O /\ \A t \in Switches : x \notin W[t]
          /\ \A t \in Switches : t # s => x \notin R[t]
      BY <1>2, <1>11, ApartFacts
    <2>2. E = {} /\ Q = {}
      BY <1>8, <2>1
    <2>3. PICK i \in DOMAIN Records(s) : Records(s)[i].pid = x
      BY <1>1, <1>11, PlacesFacts
    <2>4. <<s, i>> \in G
      BY <1>4, <2>3, PlacesFacts
    <2>5. ASSUME NEW q \in G PROVE q = <<s, i>>
      <3>1. PICK t, j : /\ t \in Switches /\ j \in DOMAIN Records(t)
                        /\ Records(t)[j].pid = x /\ q = <<t, j>>
        BY <1>4, PlacesFacts
      <3>2. x \in R[t]
        BY <1>1, <3>1, PlacesFacts
      <3>3. t = s
        BY <2>1, <3>1, <3>2
      <3>4. RecordsOK(StateOf(s).stats)
        BY DEF PacketsInv, SwitchOK
      <3>5. i = j
        BY <2>3, <3>1, <3>3, <3>4 DEF RecordsOK, Records
      <3> QED
        BY <3>1, <3>3, <3>5
    <2>6. G = {<<s, i>>}
      BY <2>4, <2>5
    <2>7. Cardinality(G) = 1
      BY <1>7, <2>6
    <2> QED
      BY ONLY <1>5, <1>6, <2>2, <2>7
  <1> QED
    BY <1>3, <1>9, <1>10, <1>11

\* When it is over, a port with a packet waits for an event that was discarded.
LEMMA LeftWaiting ==
  ASSUME PacketsInv, phase = "over", NEW s \in Switches, NEW p \in Waiting(s)
  PROVE  \E e \in BagToSet(discarded) :
           e.type = "SEND" /\ e.to = s /\ e.port = Route[s][p.dest].port_id
  <1>1. PICK qs, I : qs = StateOf(s).queues /\ I = QueuesOf(s)
    OBVIOUS
  <1>2. QueuesOK(s, qs) /\ Watched(s, qs, StateOf(s).port_flags, Live)
    BY <1>1 DEF PacketsInv, SwitchOK, Guarded
  <1>3. DOMAIN qs = I
    BY <1>1, <1>2 DEF QueuesOK
  <1>4. PICK i, k : i \in I /\ k \in DOMAIN qs[i] /\ p = qs[i][k]
    BY <1>1, <1>3 DEF Waiting
  <1>5. /\ p.dest # s /\ i = HomeOf(s, p) /\ qs[i] \in Seq(Sent)
    BY <1>1, <1>2, <1>4 DEF QueuesOK
  <1>6. p \in Sent /\ qs[i] # <<>>
    <2>1. PICK queue \in Seq(Sent) : queue = qs[i]
      BY <1>5
    <2>2. k \in 1 .. Len(queue)
      BY <1>4, <2>1
    <2>3. queue[k] \in Sent
      BY <2>1, <2>2, ElementOfSeq
    <2>4. queue # <<>>
      BY <2>2
    <2> QED
      BY <1>4, <2>1, <2>3, <2>4
  <1>7. SentRouted
    BY SentIsRouted DEF PacketsInv
  <1>8. Routed(s, p)
    BY <1>5, <1>6, <1>7, WayOn
  <1>9. PICK port \in PortsOf(s) : port = Route[s][p.dest].port_id
    BY <1>8 DEF Routed, PortOf
  <1>10. Backlogged(qs, port)
    BY <1>5, <1>6, <1>8, <1>9 DEF Backlogged, HomeOf, Routed
  <1>11. PICK e \in Live : e.type = "SEND" /\ e.to = s /\ e.port = port
    BY <1>2, <1>10 DEF Watched
  <1>12. BagToSet(pending) = {} /\ handling = {}
    <2>1. pending = EmptyBag /\ handling = {}
      BY DEF PacketsInv, LoopInv
    <2> QED
      BY <2>1, BagOfSet DEF EmptyBag
  <1> QED
    BY <1>9, <1>11, <1>12 DEF Live

LEMMA NothingIsLost == NetworkInv => NothingLost
<1> SUFFICES ASSUME NetworkInv PROVE NothingLost
  OBVIOUS
<1>1. PacketsInv /\ LoopInv /\ EventsInv /\ TerminalInv
  BY DEF NetworkInv, PacketsInv
<1>2. num_packets_sent = Cardinality(Pids(Sent))
  <2>1. CASE phase = "start"
    <3>1. num_packets_sent = 0 /\ Pids(Sent) = {}
      BY <1>1, <2>1, NothingYet DEF LoopInv
    <3> QED
      BY <3>1, FS_EmptySet
  <2>2. CASE phase # "start"
    <3>1. AllSent /\ g_tw_ts_end \in Nat
      BY <1>1, <2>2 DEF LoopInv, TerminalInv
    <3> QED
      BY <3>1, AllSentFacts
  <2> QED
    BY <2>1, <2>2
<1>3. OnTheWay = {e \in Live : e.type = "ARRIVE"} /\ \A e \in OnTheWay : Events[e] = 1
  BY <1>1, EventsFacts
<1>4. Pids(Sent) = (UNION {Pids(Waiting(s)) \cup Recorded(s) : s \in Switches})
                     \cup {e.packet.pid : e \in OnTheWay}
  <2>1. {e.packet.pid : e \in OnTheWay} = MovingPids
    BY <1>3 DEF MovingPids
  <2>2. ASSUME NEW s \in Switches
        PROVE  Pids(Waiting(s)) = WaitingPids[s] /\ Recorded(s) = RecordedPids[s]
    <3>1. DOMAIN StateOf(s).queues = QueuesOf(s)
      BY <1>1 DEF PacketsInv, SwitchOK, QueuesOK
    <3>2. PICK qs : qs = StateOf(s).queues /\ DOMAIN qs = QueuesOf(s)
      BY <3>1
    <3>3. Waiting(s) = UNION {{qs[i][k] : k \in DOMAIN qs[i]} : i \in DOMAIN qs}
      BY <3>2 DEF Waiting
    <3>4. WaitingPids[s] = UNION {{qs[i][k].pid : k \in DOMAIN qs[i]} : i \in DOMAIN qs}
      BY <3>2 DEF WaitingPids, WaitingAt
    <3>5. \A x : x \in Pids(Waiting(s)) <=> x \in WaitingPids[s]
      BY <3>3, <3>4 DEF Pids
    <3> QED
      BY <3>5 DEF RecordedPids
  <2>3. PICK W, R, O, All : /\ W = WaitingPids /\ R = RecordedPids
                            /\ O = MovingPids /\ All = Pids(Sent)
    OBVIOUS
  <2>4. Apart(W, R, O, All)
    BY <1>1, <2>3 DEF PacketsInv
  <2>5. All = O \cup UNION {W[s] \cup R[s] : s \in Switches}
    BY ONLY <2>4 DEF Apart
  <2>6. {Pids(Waiting(s)) \cup Recorded(s) : s \in Switches} = {W[s] \cup R[s] : s \in Switches}
    <3>1. \A s \in Switches : Pids(Waiting(s)) \cup Recorded(s) = W[s] \cup R[s]
      BY <2>2, <2>3
    <3> QED
      BY ONLY <3>1
  <2>7. PICK U, V : /\ U = {Pids(Waiting(s)) \cup Recorded(s) : s \in Switches}
                    /\ V = {W[s] \cup R[s] : s \in Switches}
    OBVIOUS
  <2>8. All = O \cup (UNION V) /\ U = V
    BY ONLY <2>5, <2>6, <2>7
  <2>9. Pids(Sent) = (UNION U) \cup {e.packet.pid : e \in OnTheWay}
    BY ONLY <2>1, <2>3, <2>8
  <2> QED
    BY ONLY <2>7, <2>9
<1>5. \A pid \in Pids(Sent) : Places(pid) = 1
  BY <1>1, OnePlace
<1>6. phase = "over" =>
        \A s \in Switches : \A p \in Waiting(s) :
          \E e \in BagToSet(discarded) :
            e.type = "SEND" /\ e.to = s /\ e.port = Route[s][p.dest].port_id
  BY <1>1, LeftWaiting
<1> QED
  BY <1>2, <1>3, <1>4, <1>5, <1>6 DEF NothingLost

(***************************************************************************)
(* For every network in which the switches have routes to each other,      *)
(* every trace and every end time: no step of the program, at whatever     *)
(* switch, loses a packet or doubles one.  And when it is over, a packet   *)
(* that still waits does so for a SEND event that the end time cut off.    *)
(***************************************************************************)
THEOREM NetworkLosesNothing == Spec => []NothingLost
<1>1. Init => NetworkInv
  BY MappingInit, TerminalInit, DirsInit, PacketsInit DEF Init, NetworkInv
<1>2. NetworkInv /\ [Next]_vars => NetworkInv'
  BY StartUpNext, MappingNext, TerminalNext, DirsNext, PacketsNext DEF NetworkInv
<1> QED
  BY <1>1, <1>2, NothingIsLost, PTL DEF Spec
-----------------------------------------------------------------------------
(* Where a packet is, as Delivery sees it.                                 *)

At(p, s)          == [dest |-> p.dest, fate |-> "under way", at |-> s]
Ended(p, s, drop) == [dest |-> p.dest, at |-> s,
                      fate |-> IF drop THEN "dropped" ELSE "received"]

\* A record, an event or a queue says that p is at w.
Located(p, w) ==
  \/ \E s \in Switches : \E i \in DOMAIN Records(s) :
       Records(s)[i].pid = p.pid /\ w = Ended(p, s, Records(s)[i].drop)
  \/ \E e \in Live : e.type = "ARRIVE" /\ e.packet.pid = p.pid /\ w = At(p, e.to)
  \/ \E s \in Switches : p.pid \in WaitingPids[s] /\ w = At(p, s)

\* What was sent is known by its id.
LEMMA SentUnique ==
  ASSUME NetworkInv
  PROVE  \A p, q \in Sent : p.pid = q.pid => p = q
  <1>1. CASE phase = "start"
    <2>1. Sent = {}
      BY <1>1 DEF NetworkInv, PacketsInv, LoopInv, Sent
    <2> QED
      BY <2>1
  <1>2. CASE phase # "start"
    <2>1. AllSent /\ g_tw_ts_end \in Nat
      BY <1>2 DEF NetworkInv, PacketsInv, LoopInv, TerminalInv
    <2>2. \A e, f \in scheduled : e.packet.pid = f.packet.pid => e = f
      BY <2>1, AllSentFacts
    <2> QED
      BY <2>2 DEF Sent
  <1> QED
    BY <1>1, <1>2

\* A place of a packet is the place that Whereabouts finds.
LEMMA RecordedThere ==
  ASSUME PacketsInv, NEW p \in Sent, NEW s \in Switches, NEW i \in DOMAIN Records(s),
         Records(s)[i].pid = p.pid
  PROVE  Whereabouts(p) = Ended(p, s, Records(s)[i].drop)
  <1>1. PICK x, W, R, O, All : /\ x = p.pid /\ W = WaitingPids /\ R = RecordedPids
                               /\ O = MovingPids /\ All = Pids(Sent)
    OBVIOUS
  <1>2. x \in R[s] /\ Apart(W, R, O, All)
    BY <1>1 DEF RecordedPids, Recorded, PacketsInv
  <1>3. \A t \in Switches : x \in R[t] => t = s
    BY <1>2, ApartFacts
  <1>4. {t \in Switches : p.pid \in Recorded(t)} = {s}
    BY <1>1, <1>2, <1>3 DEF RecordedPids
  <1>5. RecordsOK(StateOf(s).stats)
    BY DEF PacketsInv, SwitchOK
  <1>6. \A j \in DOMAIN Records(s) : Records(s)[j].pid = p.pid => j = i
    BY <1>5 DEF RecordsOK, Records
  <1>7. PICK rs : rs = Records(s)
    OBVIOUS
  <1>8. (CHOOSE r \in {rs[j] : j \in DOMAIN rs} : r.pid = p.pid) = rs[i]
    <2>1. \A r \in {rs[j] : j \in DOMAIN rs} : r.pid = p.pid => r = rs[i]
      BY <1>6, <1>7
    <2>2. rs[i] \in {rs[j] : j \in DOMAIN rs} /\ rs[i].pid = p.pid
      BY <1>7
    <2> QED
      BY ONLY <2>1, <2>2
  <1>9. (CHOOSE t \in {s} : TRUE) = s
    OBVIOUS
  <1> QED
    BY <1>4, <1>7, <1>8, <1>9 DEF Whereabouts, Ended

LEMMA MovingThere ==
  ASSUME PacketsInv, NEW p \in Sent, NEW e \in Live, e.type = "ARRIVE",
         e.packet.pid = p.pid
  PROVE  Whereabouts(p) = At(p, e.to)
  <1>1. PICK x, W, R, O, All : /\ x = p.pid /\ W = WaitingPids /\ R = RecordedPids
                               /\ O = MovingPids /\ All = Pids(Sent)
    OBVIOUS
  <1>2. x \in O /\ Apart(W, R, O, All)
    BY <1>1 DEF MovingPids, PacketsInv
  <1>3. \A t \in Switches : x \notin R[t]
    BY <1>2, ApartFacts
  <1>4. {t \in Switches : p.pid \in Recorded(t)} = {}
    BY <1>1, <1>3 DEF RecordedPids
  <1>5. OnTheWay = {f \in Live : f.type = "ARRIVE"}
    BY EventsFacts DEF PacketsInv
  <1>6. \A f \in Live : f.type = "ARRIVE" /\ f.packet.pid = p.pid => f = e
    BY DEF PacketsInv, EventsInv
  <1>7. {f \in OnTheWay : f.packet.pid = p.pid} = {e}
    BY <1>5, <1>6
  <1>8. (CHOOSE f \in {e} : TRUE) = e
    OBVIOUS
  <1> QED
    BY <1>4, <1>7, <1>8 DEF Whereabouts, At

\* What waits is known by its id.
LEMMA WaitingIs ==
  ASSUME PacketsInv, \A q, r \in Sent : q.pid = r.pid => q = r, NEW t \in Switches
  PROVE  \A p : p \in Waiting(t) <=> p \in Sent /\ p.pid \in WaitingPids[t]
  <1>1. PICK qs : qs = StateOf(t).queues
    OBVIOUS
  <1>2. QueuesOK(t, qs)
    BY <1>1 DEF PacketsInv, SwitchOK
  <1>3. DOMAIN qs = QueuesOf(t) /\ \A i \in QueuesOf(t) : qs[i] \in Seq(Sent)
    BY <1>2 DEF QueuesOK
  <1>4. \A p : p \in Waiting(t) <=> \E i \in QueuesOf(t) : \E k \in DOMAIN qs[i] : qs[i][k] = p
    BY <1>1, <1>3 DEF Waiting
  <1>5. \A p : p.pid \in WaitingPids[t]
                <=> \E i \in QueuesOf(t) : \E k \in DOMAIN qs[i] : qs[i][k].pid = p.pid
    BY <1>1 DEF WaitingPids, WaitingAt
  <1>6. ASSUME NEW i \in QueuesOf(t), NEW k \in DOMAIN qs[i] PROVE qs[i][k] \in Sent
    <2>1. PICK queue \in Seq(Sent) : queue = qs[i]
      BY <1>3
    <2>2. queue[k] \in Sent
      BY <1>6, <2>1, ElementOfSeq
    <2> QED
      BY <2>1, <2>2
  <1> QED
    BY <1>4, <1>5, <1>6

LEMMA WaitingThere ==
  ASSUME PacketsInv, \A q, r \in Sent : q.pid = r.pid => q = r,
         NEW p \in Sent, NEW s \in Switches, p.pid \in WaitingPids[s]
  PROVE  Whereabouts(p) = At(p, s)
  <1>1. PICK x, W, R, O, All : /\ x = p.pid /\ W = WaitingPids /\ R = RecordedPids
                               /\ O = MovingPids /\ All = Pids(Sent)
    OBVIOUS
  <1>2. x \in W[s] /\ Apart(W, R, O, All)
    BY <1>1 DEF PacketsInv
  <1>3. /\ x \notin O /\ \A t \in Switches : x \notin R[t]
        /\ \A t \in Switches : x \in W[t] => t = s
    BY <1>2, ApartFacts
  <1>4. {t \in Switches : p.pid \in Recorded(t)} = {}
    BY <1>1, <1>3 DEF RecordedPids
  <1>5. OnTheWay = {f \in Live : f.type = "ARRIVE"}
    BY EventsFacts DEF PacketsInv
  <1>6. {f \in OnTheWay : f.packet.pid = p.pid} = {}
    BY <1>1, <1>3, <1>5 DEF MovingPids
  <1>7. \A t \in Switches : p \in Waiting(t) <=> p.pid \in WaitingPids[t]
    BY WaitingIs
  <1>8. \A t \in Switches : p \in Waiting(t) <=> t = s
    BY <1>1, <1>2, <1>3, <1>7
  <1>9. (CHOOSE t \in Switches : p \in Waiting(t)) = s
    BY <1>8
  <1> QED
    BY <1>4, <1>6, <1>9 DEF Whereabouts, At

\* What place says of a packet, and that it says something of each.
LEMMA PlaceIs ==
  NetworkInv /\ phase # "start" =>
    /\ place = [pid \in Pids(Sent) |-> place[pid]]
    /\ \A p \in Sent : \A w : Located(p, w) => place[p.pid] = w
    /\ \A p \in Sent : \E w : Located(p, w)
  <1> SUFFICES ASSUME NetworkInv, phase # "start"
               PROVE  /\ place = [pid \in Pids(Sent) |-> place[pid]]
                      /\ \A p \in Sent : \A w : Located(p, w) => place[p.pid] = w
                      /\ \A p \in Sent : \E w : Located(p, w)
    OBVIOUS
  <1>1. PacketsInv /\ \A p, q \in Sent : p.pid = q.pid => p = q
    BY SentUnique DEF NetworkInv
  <1>2. place = [pid \in Pids(Sent) |-> Whereabouts(PacketOf(pid))]
    BY DEF place
  <1>3. place = [pid \in Pids(Sent) |-> place[pid]]
    BY <1>2
  <1>4. ASSUME NEW p \in Sent PROVE place[p.pid] = Whereabouts(p)
    <2>1. p.pid \in Pids(Sent)
      BY DEF Pids
    <2>2. PacketOf(p.pid) = p
      BY <1>1 DEF PacketOf
    <2> QED
      BY <1>2, <2>1, <2>2
  <1>5. ASSUME NEW p \in Sent, NEW w, Located(p, w) PROVE place[p.pid] = w
    <2>1. CASE \E s \in Switches : \E i \in DOMAIN Records(s) :
                 Records(s)[i].pid = p.pid /\ w = Ended(p, s, Records(s)[i].drop)
      BY <1>1, <1>4, <2>1, RecordedThere
    <2>2. CASE \E e \in Live : e.type = "ARRIVE" /\ e.packet.pid = p.pid /\ w = At(p, e.to)
      BY <1>1, <1>4, <2>2, MovingThere
    <2>3. CASE \E s \in Switches : p.pid \in WaitingPids[s] /\ w = At(p, s)
      BY <1>1, <1>4, <2>3, WaitingThere
    <2> QED
      BY <1>5, <2>1, <2>2, <2>3 DEF Located
  <1>6. ASSUME NEW p \in Sent PROVE \E w : Located(p, w)
    <2>1. PICK W, R, O, All : /\ W = WaitingPids /\ R = RecordedPids
                              /\ O = MovingPids /\ All = Pids(Sent)
      OBVIOUS
    <2>2. Apart(W, R, O, All) /\ p.pid \in All
      BY <1>1, <2>1 DEF PacketsInv, Pids
    <2>3. p.pid \in O \/ \E s \in Switches : p.pid \in W[s] \/ p.pid \in R[s]
      BY <2>2, ApartFacts
    <2>4. CASE p.pid \in O
      BY <2>1, <2>4 DEF MovingPids, Located
    <2>5. CASE \E s \in Switches : p.pid \in W[s]
      BY <2>1, <2>5 DEF Located
    <2>6. CASE \E s \in Switches : p.pid \in R[s]
      <3>1. PICK s \in Switches : p.pid \in Recorded(s)
        BY <2>1, <2>6 DEF RecordedPids
      <3>2. PICK i \in DOMAIN Records(s) : Records(s)[i].pid = p.pid
        BY <3>1 DEF Recorded
      <3> QED
        BY <3>2 DEF Located
    <2> QED
      BY <2>3, <2>4, <2>5, <2>6
  <1> QED
    BY <1>3, <1>5, <1>6

\* The same of the next state.
LEMMA PlaceWillBe ==
  (NetworkInv /\ phase # "start" =>
     /\ place = [pid \in Pids(Sent) |-> place[pid]]
     /\ \A p \in Sent : \A w : Located(p, w) => place[p.pid] = w
     /\ \A p \in Sent : \E w : Located(p, w))'
  BY PlaceIs, PTL

(***************************************************************************)
(* What a handler does with the places of packets: only those in G are     *)
(* elsewhere afterwards.                                                   *)
(***************************************************************************)
Moved(e, G) ==
  /\ \A i \in DOMAIN stats.records :
       i \in DOMAIN stats'.records /\ stats'.records[i] = stats.records[i]
  /\ WaitingAt(queues, QueuesOf(current)) \cup PidsIn({e})
       \subseteq WaitingAt(queues', QueuesOf(current)) \cup G

\* The packet of e has its end here, as its destination says.
EndsHere(e) ==
  /\ e.type = "ARRIVE" /\ e.packet \in Sent
  /\ \E i \in DOMAIN stats'.records :
       /\ stats'.records[i].pid = e.packet.pid
       /\ \/ stats'.records[i].drop = FALSE /\ e.packet.dest = current
          \/ stats'.records[i].drop = TRUE /\ e.packet.dest # current

\* The packet n goes on.
GoesOn(e, T, n) ==
  /\ n \in Sent /\ n.dest # current
  /\ n.pid \in WaitingAt(queues, QueuesOf(current)) \cup PidsIn({e})
  /\ \E d \in T : TakesOn(current, d, n, n)

Move(e, T) ==
  \/ Moved(e, {})
  \/ Moved(e, {e.packet.pid}) /\ EndsHere(e)
  \/ \E n : Moved(e, {n.pid}) /\ GoesOn(e, T, n)

\* A packet that is only counted leaves the records as they are.
LEMMA CountedMoves ==
  ASSUME NEW e, NEW T, Setting(e, T), OnlyCounted, NEW G,
         WaitingAt(queues, QueuesOf(current)) \cup PidsIn({e})
           \subseteq WaitingAt(queues', QueuesOf(current)) \cup G
  PROVE  Moved(e, G)
  <1>1. stats'.records = stats.records
    BY CountKeepsRecords DEF Setting
  <1> QED
    BY <1>1 DEF Moved

LEMMA HandleMoves ==
  ASSUME NEW e, NEW T, Setting(e, T), T = {Addressed(f) : f \in done'.sent},
         NEW s, s = current,
         \/ e.type = "ARRIVE" /\ S(s)!Arrive(e.packet, clock)
         \/ e.type = "SEND" /\ S(s)!Send(e.port, clock)
  PROVE  Move(e, T)
  <1>1. \A d, n, q : d \in done'.sent /\ TakesOn(current, d, n, q) => d \in T
    BY AddressedFacts
  <1>2. s \in Switches /\ QueuesOK(s, queues)
    BY DEF Setting
  <1>3. /\ e.type = "ARRIVE" => e.packet \in Sent /\ PidsIn({e}) = {e.packet.pid}
        /\ e.type = "SEND" => PidsIn({e}) = {} /\ e.port \in PortsOf(s)
    BY SettingFacts
  <1>4. CASE e.type = "ARRIVE" /\ PacketRecorded(s, e.packet)
    <2>1. EndsHere(e)
      BY <1>3, <1>4, RecordMade DEF EndsHere
    <2>2. queues' = queues
      BY <1>4 DEF PacketRecorded
    <2>3. Moved(e, {e.packet.pid})
      BY <1>3, <1>4, <2>2, RecordMade DEF Moved
    <2> QED
      BY <2>1, <2>3 DEF Move
  <1>5. CASE e.type = "ARRIVE" /\ PacketPasses(s, e.packet)
    <2>1. PICK p, port, qs, n : /\ p = e.packet /\ port = PortOf(s, p)
                                /\ qs = QueuedAt(s, p) /\ n = NextPacket(qs, port)
      OBVIOUS
    <2>2. p.dest # s /\ OnlyCounted /\ queues' = Serve(qs, port)
      BY <1>5, <2>1 DEF PacketPasses
    <2>3. PICK d \in done'.sent : TakesOn(s, d, n, p)
      BY <1>5, <2>1 DEF PacketPasses
    <2>4. Routed(s, p) /\ p.pid \notin WaitingAt(queues, QueuesOf(s))
      BY <1>5, <2>1, <2>2, ArrivalFacts
    <2>5. /\ QueuesOK(s, qs) /\ Backlogged(qs, port)
          /\ WaitingAt(qs, QueuesOf(s)) = WaitingAt(queues, QueuesOf(s)) \cup {p.pid}
      BY <1>2, <2>1, <2>4, QueueIn
    <2>6. port \in PortsOf(s)
      BY <2>1, <2>4 DEF Routed
    <2>7. /\ n \in Sent /\ n.dest # s /\ n.pid \in WaitingAt(qs, QueuesOf(s))
          /\ WaitingAt(Serve(qs, port), QueuesOf(s)) = WaitingAt(qs, QueuesOf(s)) \ {n.pid}
      BY <1>2, <2>1, <2>5, <2>6, QueueOut
    <2>8. PidsIn({e}) = {p.pid}
      BY <1>3, <1>5, <2>1
    <2>9. PICK A, B, X : /\ A = WaitingAt(queues, QueuesOf(s)) /\ X = PidsIn({e})
                         /\ B = WaitingAt(queues', QueuesOf(s))
      OBVIOUS
    <2>10. A \cup X \subseteq B \cup {n.pid} /\ n.pid \in A \cup X
      BY ONLY <2>2, <2>5, <2>7, <2>8, <2>9
    <2>11. Moved(e, {n.pid})
      BY <2>2, <2>9, <2>10, CountedMoves
    <2>12. TakesOn(s, d, n, n)
      BY <1>2, <2>1, <2>3, <2>4, <2>5, SharedHop DEF Routed, Setting
    <2>13. GoesOn(e, T, n)
      BY <1>1, <2>7, <2>9, <2>10, <2>12 DEF GoesOn
    <2> QED
      BY <2>11, <2>13 DEF Move
  <1>6. CASE e.type = "ARRIVE" /\ PacketWaits(s, e.packet)
    <2>1. PICK p, qs : p = e.packet /\ qs = QueuedAt(s, p)
      OBVIOUS
    <2>2. p.dest # s /\ OnlyCounted /\ queues' = qs
      BY <1>6, <2>1 DEF PacketWaits
    <2>3. Routed(s, p) /\ p.pid \notin WaitingAt(queues, QueuesOf(s))
      BY <1>6, <2>1, <2>2, ArrivalFacts
    <2>4. WaitingAt(qs, QueuesOf(s)) = WaitingAt(queues, QueuesOf(s)) \cup {p.pid}
      BY <1>2, <2>1, <2>3, QueueIn
    <2>5. PidsIn({e}) = {p.pid}
      BY <1>3, <1>6, <2>1
    <2>6. Moved(e, {})
      BY <2>2, <2>4, <2>5, CountedMoves
    <2> QED
      BY <2>6 DEF Move
  <1>7. CASE e.type = "SEND" /\ PacketSent(s, e.port)
    <2>1. PICK port, qs, n : /\ port = e.port /\ qs = Serve(queues, port)
                             /\ n = NextPacket(queues, port)
      OBVIOUS
    <2>2. Backlogged(queues, port) /\ OnlyCounted /\ queues' = qs
      BY <1>7, <2>1 DEF PacketSent
    <2>3. PICK d \in done'.sent : TakesOn(s, d, n, n)
      BY <1>7, <2>1 DEF PacketSent
    <2>4. /\ n \in Sent /\ n.dest # s /\ n.pid \in WaitingAt(queues, QueuesOf(s))
          /\ WaitingAt(qs, QueuesOf(s)) = WaitingAt(queues, QueuesOf(s)) \ {n.pid}
      BY <1>2, <1>3, <1>7, <2>1, <2>2, QueueOut
    <2>5. PidsIn({e}) = {}
      BY <1>3, <1>7
    <2>6. Moved(e, {n.pid})
      BY <2>2, <2>4, <2>5, CountedMoves
    <2>7. GoesOn(e, T, n)
      BY <1>1, <2>3, <2>4 DEF GoesOn
    <2> QED
      BY <2>6, <2>7 DEF Move
  <1>8. CASE e.type = "SEND" /\ SendingPutOff(e.port)
    <2>1. queues' = queues /\ OnlyCounted
      BY <1>8 DEF SendingPutOff
    <2>2. Moved(e, {})
      BY <1>3, <1>8, <2>1, CountedMoves
    <2> QED
      BY <2>2 DEF Move
  <1>9. CASE e.type = "ARRIVE" /\ S(s)!Arrive(e.packet, clock)
    <2>1. PacketRecorded(s, e.packet) \/ PacketPasses(s, e.packet) \/ PacketWaits(s, e.packet)
      BY <1>9, ArriveDoes
    <2> QED
      BY <1>4, <1>5, <1>6, <1>9, <2>1
  <1>10. CASE e.type = "SEND" /\ S(s)!Send(e.port, clock)
    <2>1. PacketSent(s, e.port) \/ SendingPutOff(e.port)
      BY <1>10, SendDoes
    <2> QED
      BY <1>7, <1>8, <1>10, <2>1
  <1> QED
    BY <1>9, <1>10

\* A packet that is not in G is found where it was.
LEMMA OthersStay ==
  ASSUME NEW e, NEW T, Setting(e, T), current' = current, parked' = parked,
         NEW G, Moved(e, G), NEW p, p.pid \notin G, NEW w, Located(p, w)
  PROVE  Located(p, w)'
  <1>1. PICK s : s = current
    OBVIOUS
  <1>2. s \in Switches /\ e.to = s
    BY <1>1 DEF Setting
  <1>3. /\ StateOf(s).queues = queues /\ StateOf(s)'.queues = queues'
        /\ StateOf(s).stats = stats /\ StateOf(s)'.stats = stats'
        /\ \A t : t # s => StateOf(t)' = StateOf(t)
    BY <1>1, LoadedState
  <1>4. ASSUME NEW t \in Switches, NEW i \in DOMAIN Records(t)
        PROVE  i \in DOMAIN Records(t)' /\ Records(t)'[i] = Records(t)[i]
    <2>1. CASE t = s
      BY <1>3, <1>4, <2>1 DEF Moved, Records
    <2>2. CASE t # s
      BY <1>3, <1>4, <2>2 DEF Records
    <2> QED
      BY <2>1, <2>2
  <1>5. \A t \in Switches :
          /\ WaitingPids[t] = WaitingAt(StateOf(t).queues, QueuesOf(t))
          /\ WaitingPids'[t] = WaitingAt(StateOf(t)'.queues, QueuesOf(t))
    BY DEF WaitingPids, WaitingAt, QueuesOf, Switches
  <1>6. WaitingPids[s] \cup PidsIn({e}) \subseteq WaitingPids'[s] \cup G
    BY <1>1, <1>2, <1>3, <1>5 DEF Moved
  <1>7. \A t \in Switches : t # s => WaitingPids'[t] = WaitingPids[t]
    BY <1>3, <1>5
  <1>8. Live \subseteq Live' \cup {e}
    BY SettingFacts
  <1>9. Switches' = Switches
    BY DEF Switches
  <1>10. CASE \E t \in Switches : \E i \in DOMAIN Records(t) :
                Records(t)[i].pid = p.pid /\ w = Ended(p, t, Records(t)[i].drop)
    BY <1>4, <1>9, <1>10 DEF Located, Ended
  <1>11. CASE \E f \in Live : f.type = "ARRIVE" /\ f.packet.pid = p.pid /\ w = At(p, f.to)
    <2>1. PICK f \in Live : f.type = "ARRIVE" /\ f.packet.pid = p.pid /\ w = At(p, f.to)
      BY <1>11
    <2>2. CASE f = e
      <3>1. p.pid \in PidsIn({e})
        BY <2>1, <2>2 DEF PidsIn
      <3>2. p.pid \in WaitingPids'[s] /\ w = At(p, s)
        BY <1>2, <1>6, <2>1, <2>2, <3>1
      <3> QED
        BY <1>2, <1>9, <3>2 DEF Located, At
    <2>3. CASE f # e
      BY <1>8, <2>1, <2>3 DEF Located, At
    <2> QED
      BY <2>2, <2>3
  <1>12. CASE \E t \in Switches : p.pid \in WaitingPids[t] /\ w = At(p, t)
    <2>1. PICK t \in Switches : p.pid \in WaitingPids[t] /\ w = At(p, t)
      BY <1>12
    <2>2. p.pid \in WaitingPids'[t]
      BY <1>6, <1>7, <2>1
    <2> QED
      BY <1>9, <2>1, <2>2 DEF Located, At
  <1> QED
    BY <1>10, <1>11, <1>12 DEF Located

\* Both states are those of a program that has started, with the same packets.
Started ==
  NetworkInv /\ NetworkInv' /\ phase # "start" /\ phase' # "start" /\ Sent' = Sent

\* If every packet is found where it was, place stays as it is; if all are
\* but one, it changes for that one.
LEMMA NoneMoves ==
  ASSUME Started, \A p \in Sent : \A w : Located(p, w) => Located(p, w)'
  PROVE  place' = place
  <1>1. /\ place = [pid \in Pids(Sent) |-> place[pid]]
        /\ \A p \in Sent : \A w : Located(p, w) => place[p.pid] = w
        /\ \A p \in Sent : \E w : Located(p, w)
    BY PlaceIs DEF Started
  <1>2. /\ place' = [pid \in Pids(Sent)' |-> place'[pid]]
        /\ \A p \in Sent' : \A w : Located(p, w)' => place'[p.pid] = w
    BY PlaceWillBe DEF Started
  <1>3. Sent' = Sent /\ Pids(Sent)' = Pids(Sent)
    BY DEF Started, Pids
  <1>4. ASSUME NEW x \in Pids(Sent) PROVE place'[x] = place[x]
    <2>1. PICK p \in Sent : p.pid = x
      BY DEF Pids
    <2>2. PICK w : Located(p, w)
      BY <1>1
    <2>3. Located(p, w)'
      BY <2>2
    <2> QED
      BY <1>1, <1>2, <1>3, <2>1, <2>2, <2>3
  <1>5. PICK f, g, D : f = place /\ g = place' /\ D = Pids(Sent)
    OBVIOUS
  <1>6. f = [x \in D |-> f[x]] /\ g = [x \in D |-> g[x]] /\ \A x \in D : g[x] = f[x]
    BY <1>1, <1>2, <1>3, <1>4, <1>5
  <1>7. g = f
    BY ONLY <1>6
  <1> QED
    BY <1>5, <1>7

LEMMA OneMoves ==
  ASSUME Started, NEW n \in Sent, NEW v, Located(n, v)',
         \A p \in Sent : p.pid # n.pid => \A w : Located(p, w) => Located(p, w)'
  PROVE  place' = [place EXCEPT ![n.pid] = v] /\ n.pid \in DOMAIN place
  <1>1. /\ place = [pid \in Pids(Sent) |-> place[pid]]
        /\ \A p \in Sent : \A w : Located(p, w) => place[p.pid] = w
        /\ \A p \in Sent : \E w : Located(p, w)
    BY PlaceIs DEF Started
  <1>2. /\ place' = [pid \in Pids(Sent)' |-> place'[pid]]
        /\ \A p \in Sent' : \A w : Located(p, w)' => place'[p.pid] = w
    BY PlaceWillBe DEF Started
  <1>3. Sent' = Sent /\ Pids(Sent)' = Pids(Sent)
    BY DEF Started, Pids
  <1>4. place'[n.pid] = v
    BY <1>2, <1>3
  <1>5. ASSUME NEW x \in Pids(Sent), x # n.pid PROVE place'[x] = place[x]
    <2>1. PICK p \in Sent : p.pid = x
      BY DEF Pids
    <2>2. PICK w : Located(p, w)
      BY <1>1
    <2>3. Located(p, w)'
      BY <1>5, <2>1, <2>2
    <2> QED
      BY <1>1, <1>2, <1>3, <2>1, <2>2, <2>3
  <1>6. PICK f, g, D, y : f = place /\ g = place' /\ D = Pids(Sent) /\ y = n.pid
    OBVIOUS
  <1>7. /\ f = [x \in D |-> f[x]] /\ g = [x \in D |-> g[x]] /\ y \in D
        /\ g[y] = v /\ \A x \in D : x # y => g[x] = f[x]
    BY <1>1, <1>2, <1>3, <1>4, <1>5, <1>6 DEF Pids
  <1>8. g = [f EXCEPT ![y] = v] /\ y \in DOMAIN f
    BY ONLY <1>7
  <1> QED
    BY <1>6, <1>8

\* A packet that waits here, or has just arrived, is here.
LEMMA FoundHere ==
  ASSUME NEW e, NEW T, Setting(e, T), NEW n \in Sent,
         n.pid \in WaitingAt(queues, QueuesOf(current)) \cup PidsIn({e})
  PROVE  Located(n, At(n, current))
  <1>1. e \in Live /\ e.to = current /\ current \in Switches
    BY SettingFacts DEF Setting
  <1>2. CASE n.pid \in WaitingAt(queues, QueuesOf(current))
    BY <1>1, <1>2, OwnPids DEF Located
  <1>3. CASE n.pid \in PidsIn({e})
    <2>1. e.type = "ARRIVE" /\ e.packet.pid = n.pid
      BY <1>3 DEF PidsIn
    <2> QED
      BY <1>1, <2>1 DEF Located
  <1> QED
    BY <1>2, <1>3

\* A packet that goes on is sent to the next hop of the table.
LEMMA GoingOn ==
  ASSUME Started, NEW e, NEW T, Setting(e, T), NEW n, GoesOn(e, T, n),
         place' = [place EXCEPT ![n.pid] = At(n, Route[current][n.dest].nextHop)],
         n.pid \in DOMAIN place
  PROVE  Abstract!Forward(n.pid) /\ n.pid \in DOMAIN place
  <1>1. /\ n \in Sent /\ n.dest # current
        /\ n.pid \in WaitingAt(queues, QueuesOf(current)) \cup PidsIn({e})
    BY DEF GoesOn
  <1>2. place[n.pid] = At(n, current)
    <2>1. Located(n, At(n, current))
      BY <1>1, FoundHere
    <2> QED
      BY <1>1, <2>1, PlaceIs DEF Started
  <1>3. Tables[current][n.dest] = Route[current][n.dest].nextHop
    <2>1. current \in Switches /\ n.dest \in Switches
      BY <1>1 DEF Setting, SentRouted
    <2>2. n.dest \in DOMAIN Route[current]
      BY <1>1, <2>1, RouteAssumption
    <2> QED
      BY <2>1, <2>2 DEF Tables
  <1>4. PICK f, y, s, d, h : /\ f = place /\ y = n.pid /\ s = current /\ d = n.dest
                             /\ h = Route[s][d].nextHop
    OBVIOUS
  <1>5. /\ f[y] = [dest |-> d, fate |-> "under way", at |-> s] /\ y \in DOMAIN f /\ s # d
        /\ place' = [f EXCEPT ![y] = [dest |-> d, fate |-> "under way", at |-> h]]
        /\ Tables[s][d] = h
    BY <1>1, <1>2, <1>3, <1>4 DEF At
  <1>6. PICK r, r2 : r = f[y] /\ r2 = [dest |-> d, fate |-> "under way", at |-> h]
    OBVIOUS
  <1>7. /\ r = [dest |-> d, fate |-> "under way", at |-> s]
        /\ r2 = [dest |-> d, fate |-> "under way", at |-> h]
    BY <1>5, <1>6
  <1>8. r.fate = "under way" /\ r.at = s /\ r.dest = d /\ r2 = [r EXCEPT !.at = h]
    <2>1. r.fate = "under way" /\ r.at = s /\ r.dest = d
      BY ONLY <1>7
    <2>2. PICK g : g = "under way"
      OBVIOUS
    <2>3. r = [dest |-> d, fate |-> g, at |-> s] /\ r2 = [dest |-> d, fate |-> g, at |-> h]
      BY ONLY <1>7, <2>2
    <2>4. r2 = [r EXCEPT !.at = h]
      BY ONLY <2>3
    <2> QED
      BY ONLY <2>1, <2>4
  <1>9. place' = [f EXCEPT ![y].at = Tables[@][f[y].dest]]
    <2>1. place' = [f EXCEPT ![y] = r2]
      BY <1>5, <1>6
    <2>2. [f EXCEPT ![y].at = Tables[@][f[y].dest]]
            = [f EXCEPT ![y] = [f[y] EXCEPT !.at = Tables[f[y].at][f[y].dest]]]
      OBVIOUS
    <2>3. [f[y] EXCEPT !.at = Tables[f[y].at][f[y].dest]] = r2
      BY <1>5, <1>6, <1>8
    <2> QED
      BY ONLY <2>1, <2>2, <2>3
  <1>10. f[y].fate = "under way" /\ f[y].at # f[y].dest
    BY <1>5, <1>6, <1>8
  <1> QED
    BY <1>4, <1>9, <1>10 DEF Abstract!Forward, Abstract!UnderWay, Abstract!There

\* A packet that has its end here is received at its destination, or dropped.
LEMMA EndingHere ==
  ASSUME Started, NEW e, NEW T, Setting(e, T), EndsHere(e), NEW drop,
         (drop = FALSE /\ e.packet.dest = current) \/ (drop = TRUE /\ e.packet.dest # current),
         place' = [place EXCEPT ![e.packet.pid] = Ended(e.packet, current, drop)],
         e.packet.pid \in DOMAIN place
  PROVE  \E pid \in DOMAIN place : Abstract!Receive(pid) \/ Abstract!Drop(pid)
  <1>1. e.packet \in Sent /\ PidsIn({e}) = {e.packet.pid}
    BY SettingFacts DEF EndsHere
  <1>2. place[e.packet.pid] = At(e.packet, current)
    <2>1. Located(e.packet, At(e.packet, current))
      BY <1>1, FoundHere
    <2> QED
      BY <1>1, <2>1, PlaceIs DEF Started
  <1>3. PICK f, y, s, d : f = place /\ y = e.packet.pid /\ s = current /\ d = e.packet.dest
    OBVIOUS
  <1>4. /\ f[y] = [dest |-> d, fate |-> "under way", at |-> s] /\ y \in DOMAIN f
        /\ f[y].fate = "under way" /\ f[y].at = s /\ f[y].dest = d
    <2>1. PICK r : r = f[y]
      OBVIOUS
    <2>2. r = [dest |-> d, fate |-> "under way", at |-> s] /\ y \in DOMAIN f
      BY <1>2, <1>3, <2>1 DEF At
    <2>3. r.fate = "under way" /\ r.at = s /\ r.dest = d
      BY ONLY <2>2
    <2> QED
      BY <2>1, <2>2, <2>3
  <1>5. CASE drop = FALSE /\ d = s
    <2>1. place' = [f EXCEPT ![y] = [dest |-> d, at |-> s, fate |-> "received"]]
      BY <1>3, <1>5 DEF Ended
    <2>2. place' = [f EXCEPT ![y].fate = "received"]
      BY ONLY <1>4, <2>1
    <2>3. Abstract!Receive(y)
      BY <1>3, <1>4, <1>5, <2>2 DEF Abstract!Receive, Abstract!UnderWay, Abstract!There
    <2> QED
      BY <1>3, <1>4, <2>3
  <1>6. CASE drop = TRUE /\ d # s
    <2>1. place' = [f EXCEPT ![y] = [dest |-> d, at |-> s, fate |-> "dropped"]]
      BY <1>3, <1>6 DEF Ended
    <2>2. place' = [f EXCEPT ![y].fate = "dropped"]
      BY ONLY <1>4, <2>1
    <2>3. Abstract!Drop(y)
      BY <1>3, <1>4, <1>6, <2>2 DEF Abstract!Drop, Abstract!UnderWay, Abstract!There
    <2> QED
      BY <1>3, <1>4, <2>3
  <1> QED
    BY <1>3, <1>5, <1>6

\* Handling an event forwards a packet, receives or drops one, or moves none.
LEMMA HandleDelivers ==
  ASSUME NetworkInv, NetworkInv', Handle
  PROVE  [Abstract!Next]_place
  <1>1. PICK e \in handling, s \in Switches :
          /\ s = current
          /\ \/ e.type = "ARRIVE" /\ S(s)!Arrive(e.packet, clock)
             \/ e.type = "SEND" /\ S(s)!Send(e.port, clock)
    BY DEF Handle
  <1>2. PICK T : T = {Addressed(f) : f \in done'.sent}
    OBVIOUS
  <1>3. Setting(e, T)
    BY <1>2, HandleSetting
  <1>4. Move(e, T)
    BY <1>1, <1>2, <1>3, HandleMoves
  <1>5. /\ current' = current /\ parked' = parked /\ phase' = phase /\ scheduled' = scheduled
    BY DEF Handle, termvars
  <1>6. Started
    <2>1. Sent' = Sent
      BY <1>5 DEF Sent
    <2>2. phase # "start"
      BY DEF NetworkInv, PacketsInv, LoopInv, Live
    <2> QED
      BY <1>5, <2>1, <2>2 DEF Started
  <1>7. ASSUME NEW G, Moved(e, G), NEW p, p.pid \notin G, NEW w, Located(p, w)
        PROVE  Located(p, w)'
    BY <1>3, <1>5, <1>7, OthersStay
  <1>8. CASE Moved(e, {})
    <2>1. \A p \in Sent : \A w : Located(p, w) => Located(p, w)'
      BY <1>7, <1>8
    <2> QED
      BY <1>6, <2>1, NoneMoves
  <1>9. CASE Moved(e, {e.packet.pid}) /\ EndsHere(e)
    <2>1. PICK n, i : /\ n = e.packet /\ n \in Sent /\ i \in DOMAIN stats'.records
                      /\ stats'.records[i].pid = n.pid
                      /\ \/ stats'.records[i].drop = FALSE /\ n.dest = current
                         \/ stats'.records[i].drop = TRUE /\ n.dest # current
      BY <1>9, Zenon DEF EndsHere
    <2>2. \A p \in Sent : p.pid # n.pid => \A w : Located(p, w) => Located(p, w)'
      BY <1>7, <1>9, <2>1
    <2>3. PICK drop : drop = stats'.records[i].drop
      OBVIOUS
    <2>4. Located(n, Ended(n, s, drop))'
      <3>1. StateOf(s)'.stats = stats'
        BY <1>1, <1>5, LoadedState
      <3>2. Records(s)' = stats'.records /\ Switches' = Switches
        BY <3>1 DEF Records, Switches
      <3> QED
        BY <2>1, <2>3, <3>2 DEF Located, Ended
    <2>5. /\ place' = [place EXCEPT ![n.pid] = Ended(n, s, drop)]
          /\ n.pid \in DOMAIN place
      BY <1>6, <2>1, <2>2, <2>4, OneMoves
    <2>6. \E pid \in DOMAIN place : Abstract!Receive(pid) \/ Abstract!Drop(pid)
      BY <1>1, <1>3, <1>6, <1>9, <2>1, <2>3, <2>5, EndingHere
    <2> QED
      BY <2>6 DEF Abstract!Next
  <1>10. ASSUME NEW n, Moved(e, {n.pid}), GoesOn(e, T, n)
         PROVE  Abstract!Next
    <2>1. n \in Sent
      BY <1>10 DEF GoesOn
    <2>2. \A p \in Sent : p.pid # n.pid => \A w : Located(p, w) => Located(p, w)'
      BY <1>7, <1>10
    <2>3. PICK v : v = At(n, Route[current][n.dest].nextHop)
      OBVIOUS
    <2>4. Located(n, v)'
      <3>1. PICK d \in T : TakesOn(current, d, n, n)
        BY <1>10 DEF GoesOn
      <3>2. d \in Live'
        BY <1>3, <3>1, SettingFacts
      <3> QED
        BY <2>3, <3>1, <3>2 DEF Located, At, TakesOn
    <2>5. place' = [place EXCEPT ![n.pid] = v] /\ n.pid \in DOMAIN place
      BY <1>6, <2>1, <2>2, <2>4, OneMoves
    <2>6. Abstract!Forward(n.pid) /\ n.pid \in DOMAIN place
      BY <1>3, <1>6, <1>10, <2>3, <2>5, GoingOn
    <2> QED
      BY <2>6 DEF Abstract!Next
  <1> QED
    BY <1>4, <1>8, <1>9, <1>10 DEF Move

\* A step that leaves every switch and the events as they are moves no packet.
LEMMA KeptStates ==
  ASSUME NetworkInv, NetworkInv', StatesKept, phase # "start", phase' # "start"
  PROVE  place' = place
  <1>1. Started
    BY DEF Started, StatesKept
  <1>2. ASSUME NEW s \in Switches
        PROVE  Records(s)' = Records(s) /\ WaitingPids'[s] = WaitingPids[s]
    <2>1. WaitingPids[s] = WaitingAt(StateOf(s).queues, QueuesOf(s))
      BY DEF WaitingPids
    <2>2. WaitingPids'[s] = WaitingAt(StateOf(s)'.queues, QueuesOf(s))
      BY DEF WaitingPids, WaitingAt, QueuesOf, Switches
    <2> QED
      BY <2>1, <2>2 DEF StatesKept, Records
  <1>3. Live' = Live /\ Switches' = Switches
    BY DEF StatesKept, Switches
  <1>4. ASSUME NEW p \in Sent, NEW w, Located(p, w) PROVE Located(p, w)'
    BY <1>2, <1>3, <1>4 DEF Located, At, Ended
  <1> QED
    BY <1>1, <1>4, NoneMoves

\* Before the events Delivery has not begun.
LEMMA NotBegun ==
  ASSUME phase = "start"
  PROVE  place = <<>>
  BY DEF place

\* The terminal schedules its packets: none of them has an end yet.
LEMMA PrerunDelivers ==
  ASSUME NetworkInv, NetworkInv', Prerun
  PROVE  Abstract!Generate
  <1>1. phase = "start" /\ phase' # "start" /\ PacketsInv
    BY DEF Prerun, NetworkInv
  <1>2. place = <<>>
    BY <1>1, NotBegun
  <1>3. \A s \in Switches : RecordedPids[s] = {}
    BY <1>1, NothingYet
  <1>4. ASSUME NEW s \in Switches PROVE Records(s)' = Records(s) /\ DOMAIN Records(s) = {}
    <2>1. current' = current /\ parked' = parked /\ stats' = stats
      BY DEF Prerun, swvars, state
    <2>2. StateOf(s)'.stats = StateOf(s).stats
      <3>1. CASE s = current
        BY <2>1, <3>1, LoadedState
      <3>2. CASE s # current
        BY <2>1, <3>2, LoadedState
      <3> QED
        BY <3>1, <3>2
    <2>3. Recorded(s) = {}
      BY <1>3 DEF RecordedPids
    <2>4. DOMAIN Records(s) = {}
      BY <2>3 DEF Recorded
    <2> QED
      BY <2>2, <2>4 DEF Records
  <1>5. /\ place' = [pid \in Pids(Sent)' |-> place'[pid]]
        /\ \A p \in Sent' : \A w : Located(p, w)' => place'[p.pid] = w
        /\ \A p \in Sent' : \E w : Located(p, w)'
    BY <1>1, PlaceWillBe
  <1>6. ASSUME NEW p \in Sent', NEW w, Located(p, w)' PROVE w.fate = "under way"
    <2>1. \E s : w = At(p, s)
      BY <1>4, <1>6 DEF Located, At, Switches
    <2>2. PICK s : w = [dest |-> p.dest, fate |-> "under way", at |-> s]
      BY <2>1 DEF At
    <2> QED
      BY ONLY <2>2
  <1>7. ASSUME NEW x \in DOMAIN place' PROVE place'[x].fate = "under way"
    <2>1. x \in Pids(Sent')
      <3>1. PICK f, D : f = place' /\ D = Pids(Sent)' /\ f = [pid \in D |-> f[pid]] /\ x \in DOMAIN f
        BY <1>5, <1>7
      <3>2. x \in D
        BY ONLY <3>1
      <3> QED
        BY <3>1, <3>2 DEF Pids
    <2>2. PICK p \in Sent' : p.pid = x
      BY <2>1 DEF Pids
    <2>3. PICK w : Located(p, w)'
      BY <1>5, <2>2
    <2> QED
      BY <1>5, <1>6, <2>2, <2>3
  <1> QED
    BY <1>2, <1>7 DEF Abstract!Generate

\* Every step of the program is a step of Delivery, or none.
LEMMA StepDelivers ==
  NetworkInv /\ NetworkInv' /\ [Next]_vars => [Abstract!Next]_place
<1> SUFFICES ASSUME NetworkInv, NetworkInv', [Next]_vars PROVE [Abstract!Next]_place
  OBVIOUS
<1>1. ASSUME UNCHANGED <<swvars, loop, scheduled>>,
             phase' = phase \/ (phase = "events" /\ phase' \in {"events", "over", "failed"})
      PROVE  place' = place
  <2>1. StatesKept
    BY <1>1, LoopKeepsStates
  <2>2. CASE phase = "start"
    <3>1. place' = <<>>
      BY <1>1, <2>2 DEF place
    <3> QED
      BY <2>2, <3>1, NotBegun
  <2>3. CASE phase # "start"
    BY <1>1, <2>1, <2>3, KeptStates
  <2> QED
    BY <2>2, <2>3
<1>2. ASSUME NEW node \in Nodes, SetUpRank(node) PROVE place' = place
  BY <1>1, <1>2 DEF SetUpRank, termvars
<1>3. ASSUME NEW s \in Switches, InitSwitch(s) PROVE place' = place
  BY <1>1, <1>3 DEF InitSwitch, termvars
<1>4. CASE InitTerminal
  BY <1>1, <1>4 DEF InitTerminal, terminal_init
<1>5. CASE Prerun
  BY <1>5, PrerunDelivers DEF Abstract!Next
<1>6. ASSUME NEW e \in BagToSet(pending), Dispatch(e) PROVE place' = place
  <2>1. StatesKept /\ phase = "events" /\ phase' = phase
    BY <1>6, DispatchKeepsStates DEF NetworkInv, Dispatch
  <2> QED
    BY <2>1, KeptStates
<1>7. CASE Handle
  BY <1>7, HandleDelivers
<1>8. ASSUME NEW s \in Switches, FinishSwitch(s) PROVE place' = place
  <2>1. UNCHANGED <<swvars, loop, scheduled>> /\ phase = "events"
    BY <1>8 DEF FinishSwitch, termvars
  <2>2. phase' \in {"events", "over", "failed"}
    BY <1>8, <2>1 DEF FinishSwitch
  <2> QED
    BY <1>1, <2>1, <2>2
<1>9. CASE UNCHANGED vars
  BY <1>1, <1>9 DEF vars, termvars
<1> QED
  BY <1>2, <1>3, <1>4, <1>5, <1>6, <1>7, <1>8, <1>9 DEF Next, StartUp, EventLoop

(***************************************************************************)
(* For every such network in which the routes by one port have one next    *)
(* hop (PortAssumption), every trace and end time, the program does what   *)
(* Delivery promises: a packet goes hop by hop as the tables say, is       *)
(* received only where it was sent to, is dropped only elsewhere, and has  *)
(* at most one end.  Without that assumption handle_arrive_event sends a   *)
(* packet that has waited where the one that arrives should go.            *)
(***************************************************************************)
THEOREM NetworkImplementsDelivery == Spec => ImplementsDelivery
<1>1. Init => NetworkInv
  BY MappingInit, TerminalInit, DirsInit, PacketsInit DEF Init, NetworkInv
<1>2. NetworkInv /\ [Next]_vars => NetworkInv'
  BY StartUpNext, MappingNext, TerminalNext, DirsNext, PacketsNext DEF NetworkInv
<1>3. Init => Abstract!Init
  BY NotBegun DEF Init, Abstract!Init
<1> QED
  BY <1>1, <1>2, <1>3, StepDelivers, PTL DEF Spec, ImplementsDelivery, Abstract!Spec
-----------------------------------------------------------------------------
(* The ways of the routing tables.                                         *)

\* The next switch on the way from s to d.
Hop(s, d) == Route[s][d].nextHop

(***************************************************************************)
(* The way from x to d passes y: whatever contains x and goes on as the    *)
(* tables say contains y.  A way may run in a circle and never reach d.    *)
(***************************************************************************)
Passes(x, y, d) ==
  \A X \in SUBSET Switches : x \in X /\ (\A z \in X \ {d} : Hop(z, d) \in X) => y \in X

\* A way has a next switch.
LEMMA HopType ==
  ASSUME NEW d \in Switches, NEW s \in Switches, s # d
  PROVE  Hop(s, d) \in Switches
  BY RouteAssumption DEF Hop

\* A way passes the switch where it begins.
LEMMA WayBegins ==
  ASSUME NEW d, NEW x
  PROVE  Passes(x, x, d)
  BY DEF Passes

\* It goes on from each that it passes to the next.
LEMMA WayGoesOn ==
  ASSUME NEW d, NEW x, NEW y, Passes(x, y, d), y # d
  PROVE  Passes(x, Hop(y, d), d)
  BY DEF Passes

\* It stops at its end.
LEMMA WayEnds ==
  ASSUME NEW d \in Switches, NEW y, Passes(d, y, d)
  PROVE  y = d
  <1>1. {d} \in SUBSET Switches /\ \A z \in {d} \ {d} : Hop(z, d) \in {d}
    OBVIOUS
  <1> QED
    BY <1>1 DEF Passes

\* What is passed and is not the first is passed by the way from the second.
LEMMA WayAfterFirst ==
  ASSUME NEW d \in Switches, NEW x \in Switches, NEW y, Passes(x, y, d), x # y
  PROVE  x # d /\ Passes(Hop(x, d), y, d)
  <1>1. x # d
    BY WayEnds
  <1>2. ASSUME NEW X \in SUBSET Switches, Hop(x, d) \in X,
               \A z \in X \ {d} : Hop(z, d) \in X
        PROVE  y \in X
    <2>1. PICK Y : Y = X \cup {x}
      OBVIOUS
    <2>2. Y \in SUBSET Switches /\ x \in Y /\ \A z \in Y \ {d} : Hop(z, d) \in Y
      BY <1>2, <2>1
    <2>3. y \in Y
      BY <2>2 DEF Passes
    <2> QED
      BY <2>1, <2>3
  <1> QED
    BY <1>1, <1>2 DEF Passes

\* Of two switches on one way, one is on the way from the other.
LEMMA WayIsLine ==
  ASSUME NEW d \in Switches, NEW x \in Switches, NEW y, NEW z,
         Passes(x, y, d), Passes(x, z, d)
  PROVE  Passes(y, z, d) \/ Passes(z, y, d)
  <1>1. PICK X : X = {w \in Switches : Passes(w, y, d) \/ Passes(y, w, d)}
    OBVIOUS
  <1>2. X \in SUBSET Switches /\ x \in X
    BY <1>1
  <1>3. ASSUME NEW w \in X \ {d} PROVE Hop(w, d) \in X
    <2>1. w \in Switches /\ (Passes(w, y, d) \/ Passes(y, w, d))
      BY <1>1
    <2>2. Hop(w, d) \in Switches
      BY <2>1, HopType
    <2>3. CASE Passes(w, y, d) /\ w # y
      BY <1>1, <2>1, <2>2, <2>3, WayAfterFirst
    <2>4. CASE w = y
      BY <1>1, <1>3, <2>2, <2>4, WayBegins, WayGoesOn
    <2>5. CASE Passes(y, w, d)
      BY <1>1, <1>3, <2>2, <2>5, WayGoesOn
    <2> QED
      BY <2>1, <2>3, <2>4, <2>5
  <1>4. z \in X
    BY <1>2, <1>3 DEF Passes
  <1> QED
    BY <1>1, <1>4

\* A way that comes to its end does not come back to a switch.
LEMMA WayDoesNotReturn ==
  ASSUME NEW d \in Switches, NEW x \in Switches, x # d, Passes(x, d, d),
         Passes(Hop(x, d), x, d)
  PROVE  FALSE
  <1>1. PICK X : X = {w \in Switches : Passes(w, x, d)}
    OBVIOUS
  <1>2. X \in SUBSET Switches /\ x \in X
    BY <1>1, WayBegins
  <1>3. ASSUME NEW w \in X \ {d} PROVE Hop(w, d) \in X
    <2>1. w \in Switches /\ Passes(w, x, d) /\ Hop(w, d) \in Switches
      BY <1>1, HopType
    <2>2. CASE w = x
      BY <1>1, <2>1, <2>2
    <2>3. CASE w # x
      BY <1>1, <2>1, <2>3, WayAfterFirst
    <2> QED
      BY <2>2, <2>3
  <1>4. Passes(d, x, d)
    BY <1>1, <1>2, <1>3 DEF Passes
  <1> QED
    BY <1>4, WayEnds

\* What is passed by a way that comes to its end comes there too.
LEMMA WayComesToEnd ==
  ASSUME NEW d \in Switches, NEW x \in Switches, NEW y, Passes(x, d, d), Passes(x, y, d)
  PROVE  Passes(y, d, d)
  <1>1. Passes(y, d, d) \/ Passes(d, y, d)
    BY WayIsLine
  <1>2. Passes(d, y, d) => y = d
    BY WayEnds
  <1> QED
    BY <1>1, <1>2, WayBegins

\* On such a way there is one switch before a switch.
LEMMA WayComesFromOne ==
  ASSUME NEW d \in Switches, NEW x \in Switches, Passes(x, d, d),
         NEW q \in Switches, Passes(x, q, d), q # d,
         NEW r \in Switches, Passes(x, r, d), r # d, Hop(q, d) = Hop(r, d)
  PROVE  q = r
  <1>1. ASSUME NEW v \in Switches, NEW w \in Switches, Passes(x, v, d), Passes(x, w, d),
               w # d, Hop(v, d) = Hop(w, d), Passes(v, w, d), v # w
        PROVE  FALSE
    <2>1. Passes(Hop(w, d), w, d)
      BY <1>1, WayAfterFirst
    <2>2. Passes(w, d, d)
      BY <1>1, WayComesToEnd
    <2> QED
      BY <1>1, <2>1, <2>2, WayDoesNotReturn
  <1>2. Passes(q, r, d) \/ Passes(r, q, d)
    BY WayIsLine
  <1> QED
    BY <1>1, <1>2
-----------------------------------------------------------------------------
(***************************************************************************)
(* The order of a flow.  The ARRIVE events E, the queues Q, the records R  *)
(* and the times A at which the ports become free, of all switches, say    *)
(* where a packet is that was not dropped.                                 *)
(***************************************************************************)
Lies(E, Q, R, p, w) ==
  \/ \E e \in E : e.packet = p /\ e.to = w
  \/ \E i \in DOMAIN Q[w] : \E k \in DOMAIN Q[w][i] : Q[w][i][k] = p
  \/ \E j \in DOMAIN R[w] : R[w][j].pid = p.pid /\ ~ R[w][j].drop

From(p) == SourceOf(p.pid)

\* a and b are packets of one flow that comes to its end, and a was sent first.
Before(a, b) ==
  /\ a \in Sent /\ b \in Sent
  /\ From(a) = From(b) /\ a.dest = b.dest /\ a.type = b.type
  /\ a.send_time < b.send_time
  /\ Passes(From(a), a.dest, a.dest)

\* Every packet is on the way from its source to its destination.
OnItsWay(E, Q, R) ==
  \A p \in Sent : \A w \in Switches : Lies(E, Q, R, p, w) => Passes(From(p), w, p.dest)

\* No packet is ahead of one that was sent before it.
NotAhead(E, Q, R) ==
  \A a, b : Before(a, b) =>
    \A v, w \in Switches : Lies(E, Q, R, a, v) /\ Lies(E, Q, R, b, w) => Passes(w, v, a.dest)

\* Where both are at one switch and the second waits, the first waits before it;
\* and where the second has been received, the first has a record before it.
InLine(E, Q, R) ==
  \A a, b : Before(a, b) =>
    \A w \in Switches : Lies(E, Q, R, a, w) =>
      /\ \A i \in DOMAIN Q[w] : \A k \in DOMAIN Q[w][i] : Q[w][i][k] = b =>
           \E h \in DOMAIN Q[w][i] : h < k /\ Q[w][i][h] = a
      /\ \A j \in DOMAIN R[w] : R[w][j].pid = b.pid /\ ~ R[w][j].drop =>
           \E h \in DOMAIN R[w] : h < j /\ R[w][h].pid = a.pid /\ ~ R[w][h].drop

\* Where both are on their way to one switch, the first arrives first.
InTime(E) ==
  \A e, f \in E : Before(e.packet, f.packet) /\ e.to = f.to => e.at < f.at

\* A packet that is on its way has left the switch before.
HasLeft(E, A) ==
  \A e \in E : \A q \in Switches :
    LET p == e.packet
    IN  /\ q # p.dest /\ Hop(q, p.dest) = e.to
        /\ Passes(From(p), q, p.dest) /\ Passes(From(p), p.dest, p.dest)
        => e.at <= A[q][PortOf(q, p)] + PropagationDelay

\* A packet is received where it was sent to.
IsHome(R) ==
  \A w \in Switches : \A j \in DOMAIN R[w] : \A p \in Sent :
    R[w][j].pid = p.pid /\ ~ R[w][j].drop => p.dest = w

Flows(E, Q, R, A) ==
  /\ OnItsWay(E, Q, R) /\ NotAhead(E, Q, R) /\ InLine(E, Q, R)
  /\ InTime(E) /\ HasLeft(E, A) /\ IsHome(R)

\* All ARRIVE events, and the parts of all switches.
Arrivals == {e \in Live : e.type = "ARRIVE"}
AllQueues == [s \in Switches |-> StateOf(s).queues]
AllRecords == [s \in Switches |-> StateOf(s).stats.records]
AllTimes == [s \in Switches |-> StateOf(s).ports_available_time]

\* The times of a switch.
TimesOK(s, buckets, times) ==
  /\ buckets \in [PortsOf(s) -> [tokens : Int, last_update_time : Int]]
  /\ times \in [PortsOf(s) -> Int]

\* What is handled is the earliest; what is at the end time or after it is not handled.
InTurn ==
  /\ g_tw_ts_end \in Int
  /\ \A e \in Live : e.at \in Int
  /\ \A e \in handling : /\ clock = e.at /\ e.at < g_tw_ts_end
                         /\ \A f \in BagToSet(pending) : e.at <= f.at
  /\ \A e \in BagToSet(pending) : e.at < g_tw_ts_end
  /\ \A e \in BagToSet(discarded) : e.at >= g_tw_ts_end

FlowInv ==
  /\ InTurn
  /\ \A s \in Switches : TimesOK(s, StateOf(s).shapers, StateOf(s).ports_available_time)
  /\ Flows(Arrivals, AllQueues, AllRecords, AllTimes)

\* What was sent: where it comes from, and that an id names one packet.
FlowSetting ==
  /\ SentRouted
  /\ \A p, q \in Sent : p.pid = q.pid => p = q
  /\ \A p \in Sent : From(p) \in Switches /\ p.send_time \in Int

\* What E, Q and A are made of.
FlowTypes(E, Q, A) ==
  /\ \A e \in E : e.to \in Switches /\ e.packet \in Sent /\ e.at \in Int
  /\ \A w \in Switches : QueuesOK(w, Q[w])
  /\ \A w \in Switches : A[w] \in [PortsOf(w) -> Int]

\* A packet is not sent before itself.
LEMMA BeforeFacts ==
  ASSUME FlowSetting, NEW a, NEW b, Before(a, b)
  PROVE  /\ a \in Sent /\ b \in Sent /\ a # b /\ a.pid # b.pid
         /\ a.dest = b.dest /\ a.type = b.type /\ a.dest \in Switches
         /\ From(a) = From(b) /\ From(a) \in Switches
         /\ Passes(From(a), a.dest, a.dest)
  BY DEF Before, FlowSetting, SentRouted

\* The packet of the earliest event gets a record, and is nowhere else.
LEMMA FlowsRecord ==
  ASSUME FlowSetting, NEW E, NEW Q, NEW R, NEW A, FlowTypes(E, Q, A), Flows(E, Q, R, A),
         NEW e \in E, \A f \in E : e.at <= f.at,
         NEW E2, E2 = E \ {e}, NEW R2, NEW m, NEW w, w = e.to, NEW p, p = e.packet,
         \A v \in Switches : v # w => R2[v] = R[v],
         DOMAIN R2[w] = DOMAIN R[w] \cup {m},
         \A j \in DOMAIN R[w] : j < m /\ R2[w][j] = R[w][j],
         R2[w][m].pid = p.pid, R2[w][m].drop \/ p.dest = w
  PROVE  Flows(E2, Q, R2, A)
  <1>1. /\ w \in Switches /\ p \in Sent /\ e.at \in Int /\ E2 \subseteq E
        /\ \A f \in E : f.at \in Int
    BY DEF FlowTypes
  <1>2. Lies(E, Q, R, p, w)
    BY DEF Lies
  <1>3. \A q \in Sent : q.pid = p.pid => q = p
    BY <1>1 DEF FlowSetting
  <1>4. ASSUME NEW q \in Sent, NEW v \in Switches, Lies(E2, Q, R2, q, v)
        PROVE  Lies(E, Q, R, q, v)
    <2>1. CASE \E f \in E2 : f.packet = q /\ f.to = v
      BY <1>1, <2>1 DEF Lies
    <2>2. CASE \E i \in DOMAIN Q[v] : \E k \in DOMAIN Q[v][i] : Q[v][i][k] = q
      BY <2>2 DEF Lies
    <2>3. CASE \E j \in DOMAIN R2[v] : R2[v][j].pid = q.pid /\ ~ R2[v][j].drop
      <3>1. PICK j \in DOMAIN R2[v] : R2[v][j].pid = q.pid /\ ~ R2[v][j].drop
        BY <2>3
      <3>2. CASE v = w /\ j = m
        BY <1>2, <1>3, <3>1, <3>2
      <3>3. CASE ~ (v = w /\ j = m)
        <4>1. j \in DOMAIN R[v] /\ R2[v][j] = R[v][j]
          BY <3>1, <3>3
        <4> QED
          BY <3>1, <4>1 DEF Lies
      <3> QED
        BY <3>2, <3>3
    <2> QED
      BY <1>4, <2>1, <2>2, <2>3 DEF Lies
  <1>5. OnItsWay(E2, Q, R2)
    BY <1>4 DEF Flows, OnItsWay
  <1>6. NotAhead(E2, Q, R2)
    <2>1. ASSUME NEW a, NEW b, Before(a, b), NEW v \in Switches, NEW u \in Switches,
                 Lies(E2, Q, R2, a, v), Lies(E2, Q, R2, b, u)
          PROVE  Passes(u, v, a.dest)
      <3>1. Lies(E, Q, R, a, v) /\ Lies(E, Q, R, b, u)
        BY <1>4, <2>1, BeforeFacts
      <3> QED
        BY <2>1, <3>1 DEF Flows, NotAhead
    <2> QED
      BY <2>1 DEF NotAhead
  <1>7. InLine(E2, Q, R2)
    <2> SUFFICES ASSUME NEW a, NEW b, Before(a, b), NEW v \in Switches,
                        Lies(E2, Q, R2, a, v)
                 PROVE  /\ \A i \in DOMAIN Q[v] : \A k \in DOMAIN Q[v][i] : Q[v][i][k] = b =>
                             \E h \in DOMAIN Q[v][i] : h < k /\ Q[v][i][h] = a
                        /\ \A j \in DOMAIN R2[v] : R2[v][j].pid = b.pid /\ ~ R2[v][j].drop =>
                             \E h \in DOMAIN R2[v] :
                               h < j /\ R2[v][h].pid = a.pid /\ ~ R2[v][h].drop
      BY DEF InLine
    <2>1. /\ a \in Sent /\ b \in Sent /\ a # b /\ a.pid # b.pid /\ a.dest = b.dest
      BY BeforeFacts
    <2>2. Lies(E, Q, R, a, v)
      BY <1>4, <2>1
    <2>3. /\ \A i \in DOMAIN Q[v] : \A k \in DOMAIN Q[v][i] : Q[v][i][k] = b =>
               \E h \in DOMAIN Q[v][i] : h < k /\ Q[v][i][h] = a
          /\ \A j \in DOMAIN R[v] : R[v][j].pid = b.pid /\ ~ R[v][j].drop =>
               \E h \in DOMAIN R[v] : h < j /\ R[v][h].pid = a.pid /\ ~ R[v][h].drop
      BY <2>2 DEF Flows, InLine
    <2>4. ASSUME NEW j \in DOMAIN R2[v], R2[v][j].pid = b.pid, ~ R2[v][j].drop
          PROVE  \E h \in DOMAIN R2[v] : h < j /\ R2[v][h].pid = a.pid /\ ~ R2[v][h].drop
      <3>1. CASE v = w /\ j = m
        <4>1. b = p /\ p.dest = w
          BY <1>3, <2>1, <2>4, <3>1
        <4>2. ASSUME NEW f \in E2, f.packet = a, f.to = w PROVE FALSE
          <5>1. f.at < e.at
            BY <1>1, <4>1, <4>2 DEF Flows, InTime
          <5> QED
            BY <1>1, <4>2, <5>1
        <4>3. ASSUME NEW i \in DOMAIN Q[w], NEW k \in DOMAIN Q[w][i], Q[w][i][k] = a
              PROVE  FALSE
          BY <1>1, <2>1, <4>1, <4>3 DEF FlowTypes, QueuesOK
        <4>4. PICK h \in DOMAIN R2[w] : R2[w][h].pid = a.pid /\ ~ R2[w][h].drop
          BY <3>1, <4>2, <4>3 DEF Lies
        <4>5. h # m
          BY <2>1, <4>1, <4>4
        <4> QED
          BY <3>1, <4>4, <4>5
      <3>2. CASE ~ (v = w /\ j = m)
        <4>1. j \in DOMAIN R[v] /\ R2[v][j] = R[v][j]
          BY <2>4, <3>2
        <4>2. PICK h \in DOMAIN R[v] : h < j /\ R[v][h].pid = a.pid /\ ~ R[v][h].drop
          BY <2>3, <2>4, <4>1
        <4>3. h \in DOMAIN R2[v] /\ R2[v][h] = R[v][h]
          BY <4>2
        <4> QED
          BY <4>2, <4>3
      <3> QED
        BY <3>1, <3>2
    <2> QED
      BY <2>3, <2>4
  <1>8. InTime(E2) /\ HasLeft(E2, A)
    BY <1>1 DEF Flows, InTime, HasLeft
  <1>9. IsHome(R2)
    <2>1. ASSUME NEW v \in Switches, NEW j \in DOMAIN R2[v], NEW q \in Sent,
                 R2[v][j].pid = q.pid, ~ R2[v][j].drop
          PROVE  q.dest = v
      <3>1. CASE v = w /\ j = m
        BY <1>3, <2>1, <3>1
      <3>2. CASE ~ (v = w /\ j = m)
        <4>1. j \in DOMAIN R[v] /\ R2[v][j] = R[v][j]
          BY <2>1, <3>2
        <4> QED
          BY <2>1, <4>1 DEF Flows, IsHome
      <3> QED
        BY <3>1, <3>2
    <2> QED
      BY <2>1 DEF IsHome
  <1> QED
    BY <1>5, <1>6, <1>7, <1>8, <1>9 DEF Flows

\* The packet p has got the place m, behind the others, in the queue c of w.
TakenIn(Q, Q2, w, c, m, p) ==
  /\ \A v \in Switches : v # w => Q2[v] = Q[v]
  /\ DOMAIN Q2[w] = DOMAIN Q[w] /\ \A i \in DOMAIN Q[w] : i # c => Q2[w][i] = Q[w][i]
  /\ DOMAIN Q2[w][c] = DOMAIN Q[w][c] \cup {m}
  /\ \A k \in DOMAIN Q[w][c] : k < m /\ Q2[w][c][k] = Q[w][c][k]
  /\ Q2[w][c][m] = p

\* The packet of the earliest event goes to the end of its queue.
LEMMA FlowsIn ==
  ASSUME FlowSetting, NEW E, NEW Q, NEW R, NEW A, FlowTypes(E, Q, A), Flows(E, Q, R, A),
         NEW e \in E, \A f \in E : e.at <= f.at,
         NEW E2, E2 = E \ {e}, NEW Q2, NEW m, NEW w, w = e.to, NEW p, p = e.packet,
         p.dest # w, NEW c, c = HomeOf(w, p), TakenIn(Q, Q2, w, c, m, p)
  PROVE  Flows(E2, Q2, R, A)
  <1> USE DEF TakenIn
  <1>1. /\ w \in Switches /\ p \in Sent /\ e.at \in Int /\ E2 \subseteq E
        /\ \A f \in E : f.at \in Int
    BY DEF FlowTypes
  <1>2. Lies(E, Q, R, p, w)
    BY DEF Lies
  <1>3. ASSUME NEW v \in Switches, NEW i \in DOMAIN Q2[v], NEW k \in DOMAIN Q2[v][i],
               ~ (v = w /\ i = c /\ k = m)
        PROVE  i \in DOMAIN Q[v] /\ k \in DOMAIN Q[v][i] /\ Q2[v][i][k] = Q[v][i][k]
    BY <1>3
  <1>4. ASSUME NEW v \in Switches, NEW i \in DOMAIN Q[v], NEW k \in DOMAIN Q[v][i]
        PROVE  i \in DOMAIN Q2[v] /\ k \in DOMAIN Q2[v][i] /\ Q2[v][i][k] = Q[v][i][k]
    BY <1>4
  <1>5. ASSUME NEW q \in Sent, NEW v \in Switches, Lies(E2, Q2, R, q, v)
        PROVE  Lies(E, Q, R, q, v)
    <2>1. CASE \E f \in E2 : f.packet = q /\ f.to = v
      BY <1>1, <2>1 DEF Lies
    <2>2. CASE \E i \in DOMAIN Q2[v] : \E k \in DOMAIN Q2[v][i] : Q2[v][i][k] = q
      <3>1. PICK i \in DOMAIN Q2[v] : \E k \in DOMAIN Q2[v][i] : Q2[v][i][k] = q
        BY <2>2
      <3>4. PICK k \in DOMAIN Q2[v][i] : Q2[v][i][k] = q
        BY <3>1
      <3>2. CASE v = w /\ i = c /\ k = m
        BY <1>2, <3>4, <3>2
      <3>3. CASE ~ (v = w /\ i = c /\ k = m)
        BY <1>3, <3>4, <3>3 DEF Lies
      <3> QED
        BY <3>2, <3>3
    <2>3. CASE \E j \in DOMAIN R[v] : R[v][j].pid = q.pid /\ ~ R[v][j].drop
      BY <2>3 DEF Lies
    <2> QED
      BY <1>5, <2>1, <2>2, <2>3 DEF Lies
  <1>6. OnItsWay(E2, Q2, R)
    BY <1>5 DEF Flows, OnItsWay
  <1>7. NotAhead(E2, Q2, R)
    <2>1. ASSUME NEW a, NEW b, Before(a, b), NEW v \in Switches, NEW u \in Switches,
                 Lies(E2, Q2, R, a, v), Lies(E2, Q2, R, b, u)
          PROVE  Passes(u, v, a.dest)
      <3>1. Lies(E, Q, R, a, v) /\ Lies(E, Q, R, b, u)
        BY <1>5, <2>1, BeforeFacts
      <3> QED
        BY <2>1, <3>1 DEF Flows, NotAhead
    <2> QED
      BY <2>1 DEF NotAhead
  <1>8. InLine(E2, Q2, R)
    <2> SUFFICES ASSUME NEW a, NEW b, Before(a, b), NEW v \in Switches,
                        Lies(E2, Q2, R, a, v)
                 PROVE  /\ \A i \in DOMAIN Q2[v] : \A k \in DOMAIN Q2[v][i] : Q2[v][i][k] = b =>
                             \E h \in DOMAIN Q2[v][i] : h < k /\ Q2[v][i][h] = a
                        /\ \A j \in DOMAIN R[v] : R[v][j].pid = b.pid /\ ~ R[v][j].drop =>
                             \E h \in DOMAIN R[v] :
                               h < j /\ R[v][h].pid = a.pid /\ ~ R[v][h].drop
      BY DEF InLine
    <2>1. /\ a \in Sent /\ b \in Sent /\ a # b /\ a.dest = b.dest /\ a.type = b.type
      BY BeforeFacts
    <2>2. Lies(E, Q, R, a, v)
      BY <1>5, <2>1
    <2>3. /\ \A i \in DOMAIN Q[v] : \A k \in DOMAIN Q[v][i] : Q[v][i][k] = b =>
               \E h \in DOMAIN Q[v][i] : h < k /\ Q[v][i][h] = a
          /\ \A j \in DOMAIN R[v] : R[v][j].pid = b.pid /\ ~ R[v][j].drop =>
               \E h \in DOMAIN R[v] : h < j /\ R[v][h].pid = a.pid /\ ~ R[v][h].drop
      BY <2>2 DEF Flows, InLine
    <2>4. ASSUME NEW i \in DOMAIN Q2[v], NEW k \in DOMAIN Q2[v][i], Q2[v][i][k] = b
          PROVE  \E h \in DOMAIN Q2[v][i] : h < k /\ Q2[v][i][h] = a
      <3>1. CASE v = w /\ i = c /\ k = m
        <4>1. b = p
          BY <2>4, <3>1
        <4>2. ASSUME NEW f \in E2, f.packet = a, f.to = w PROVE FALSE
          <5>1. f.at < e.at
            BY <1>1, <4>1, <4>2 DEF Flows, InTime
          <5> QED
            BY <1>1, <4>2, <5>1
        <4>3. ASSUME NEW j \in DOMAIN R[w], R[w][j].pid = a.pid, ~ R[w][j].drop
              PROVE  FALSE
          BY <1>1, <2>1, <4>1, <4>3 DEF Flows, IsHome
        <4>9. PICK i2 \in DOMAIN Q2[w] : \E h \in DOMAIN Q2[w][i2] : Q2[w][i2][h] = a
          BY <3>1, <4>2, <4>3 DEF Lies
        <4>4. PICK h \in DOMAIN Q2[w][i2] : Q2[w][i2][h] = a
          BY <4>9
        <4>5. ~ (i2 = c /\ h = m)
          BY <2>1, <4>1, <4>4
        <4>6. i2 \in DOMAIN Q[w] /\ h \in DOMAIN Q[w][i2] /\ Q[w][i2][h] = a
          BY <1>1, <1>3, <4>4, <4>5
        <4>7. i2 = HomeOf(w, a)
          BY <1>1, <4>6 DEF FlowTypes, QueuesOK
        <4>8. i2 = c
          BY <2>1, <4>1, <4>7 DEF HomeOf
        <4> QED
          BY <3>1, <4>4, <4>6, <4>8
      <3>2. CASE ~ (v = w /\ i = c /\ k = m)
        <4>1. i \in DOMAIN Q[v] /\ k \in DOMAIN Q[v][i] /\ Q[v][i][k] = b
          BY <1>3, <2>4, <3>2
        <4>2. PICK h \in DOMAIN Q[v][i] : h < k /\ Q[v][i][h] = a
          BY <2>3, <4>1
        <4>3. h \in DOMAIN Q2[v][i] /\ Q2[v][i][h] = Q[v][i][h]
          BY <1>4, <4>1, <4>2
        <4> QED
          BY <4>2, <4>3
      <3> QED
        BY <3>1, <3>2
    <2> QED
      BY <2>3, <2>4
  <1>9. InTime(E2) /\ HasLeft(E2, A)
    BY <1>1 DEF Flows, InTime, HasLeft
  <1> QED
    BY <1>6, <1>7, <1>8, <1>9 DEF Flows

\* Nothing moves, and no port becomes free earlier.
LEMMA FlowsTime ==
  ASSUME FlowSetting, NEW E, NEW Q, NEW R, NEW A, FlowTypes(E, Q, A), Flows(E, Q, R, A),
         NEW A2, FlowTypes(E, Q, A2),
         \A w \in Switches : \A port \in PortsOf(w) : A[w][port] <= A2[w][port]
  PROVE  Flows(E, Q, R, A2)
  <1>1. ASSUME NEW e \in E, NEW q \in Switches, NEW p, p = e.packet,
               q # p.dest, Hop(q, p.dest) = e.to,
               Passes(From(p), q, p.dest), Passes(From(p), p.dest, p.dest)
        PROVE  e.at <= A2[q][PortOf(q, p)] + PropagationDelay
    <2>1. p \in Sent /\ e.at \in Int
      BY <1>1 DEF FlowTypes
    <2>2. PICK port \in PortsOf(q) : port = PortOf(q, p)
      BY <1>1, <2>1, WayOn DEF FlowSetting, Routed
    <2>3. A[q][port] \in Int /\ A2[q][port] \in Int /\ A[q][port] <= A2[q][port]
      BY DEF FlowTypes
    <2>4. e.at <= A[q][port] + PropagationDelay
      BY <1>1, <2>2 DEF Flows, HasLeft
    <2> QED
      BY <2>1, <2>2, <2>3, <2>4, TimeAssumption
  <1>2. HasLeft(E, A2)
    BY <1>1 DEF HasLeft
  <1> QED
    BY <1>2 DEF Flows

\* The packet n was the first of the queue c of w, and the others have moved up.
TakenOut(Q, Q2, w, c, n) ==
  /\ \A v \in Switches : v # w => Q2[v] = Q[v]
  /\ DOMAIN Q2[w] = DOMAIN Q[w] /\ \A i \in DOMAIN Q[w] : i # c => Q2[w][i] = Q[w][i]
  /\ 1 \in DOMAIN Q[w][c] /\ Q[w][c][1] = n /\ DOMAIN Q[w][c] \subseteq Nat \ {0}
  /\ \A k \in Nat \ {0} : k \in DOMAIN Q2[w][c] <=> k + 1 \in DOMAIN Q[w][c]
  /\ \A k \in DOMAIN Q2[w][c] : k \in Nat \ {0} /\ Q2[w][c][k] = Q[w][c][k + 1]

\* The first packet of a queue goes on to the next switch, and is nowhere else.
LEMMA FlowsOut ==
  ASSUME FlowSetting, NEW E, NEW Q, NEW R, NEW A, FlowTypes(E, Q, A), Flows(E, Q, R, A),
         NEW w \in Switches, NEW c \in DOMAIN Q[w], NEW n \in Sent, n.dest # w,
         NEW Q2, TakenOut(Q, Q2, w, c, n),
         \A v \in Switches : ~ Lies(E, Q2, R, n, v),
         NEW d, d.packet = n, d.to = Hop(w, n.dest), d.at \in Int,
         NEW E2, E2 = E \cup {d},
         NEW A2, FlowTypes(E, Q, A2),
         \A v \in Switches : \A port \in PortsOf(v) : A[v][port] <= A2[v][port],
         d.at > A[w][PortOf(w, n)] + PropagationDelay,
         d.at <= A2[w][PortOf(w, n)] + PropagationDelay
  PROVE  Flows(E2, Q2, R, A2)
  <1> USE DEF TakenOut
  <1>1. PICK t : t = d.to
    OBVIOUS
  <1>2. /\ n.dest \in Switches /\ From(n) \in Switches /\ t \in Switches
        /\ t = Hop(w, n.dest)
    BY <1>1, HopType DEF FlowSetting, SentRouted
  <1>3. Flows(E, Q, R, A2)
    BY FlowsTime
  <1>4. Lies(E, Q, R, n, w)
    BY DEF Lies
  <1>5. Passes(From(n), w, n.dest)
    BY <1>4 DEF Flows, OnItsWay
  <1>6. ASSUME NEW v \in Switches, NEW i \in DOMAIN Q2[v], NEW k \in DOMAIN Q2[v][i]
        PROVE  /\ i \in DOMAIN Q[v]
               /\ \E h \in DOMAIN Q[v][i] : Q2[v][i][k] = Q[v][i][h]
    <2>1. CASE v = w /\ i = c
      BY <1>6, <2>1
    <2>2. CASE ~ (v = w /\ i = c)
      BY <1>6, <2>2
    <2> QED
      BY <2>1, <2>2
  <1>7. ASSUME NEW q \in Sent, NEW v \in Switches, Lies(E2, Q2, R, q, v)
        PROVE  (q = n /\ v = t) \/ (q # n /\ Lies(E, Q, R, q, v))
    <2>1. CASE \E f \in E2 : f = d /\ f.packet = q /\ f.to = v
      BY <1>1, <2>1
    <2>2. CASE Lies(E, Q2, R, q, v)
      <3>1. q # n
        BY <2>2
      <3>2. CASE \E i \in DOMAIN Q2[v] : \E k \in DOMAIN Q2[v][i] : Q2[v][i][k] = q
        BY <1>6, <3>1, <3>2 DEF Lies
      <3>3. CASE ~ \E i \in DOMAIN Q2[v] : \E k \in DOMAIN Q2[v][i] : Q2[v][i][k] = q
        BY <2>2, <3>1, <3>3 DEF Lies
      <3> QED
        BY <3>2, <3>3
    <2>3. (\E f \in E2 : f = d /\ f.packet = q /\ f.to = v) \/ Lies(E, Q2, R, q, v)
      BY <1>7 DEF Lies
    <2> QED
      BY <2>1, <2>2, <2>3
  <1>8. ASSUME NEW a, Before(a, n), Lies(E, Q, R, a, w) PROVE FALSE
    <2>1. \E h \in DOMAIN Q[w][c] : h < 1 /\ Q[w][c][h] = a
      BY <1>8 DEF Flows, InLine
    <2> QED
      BY <2>1
  <1>9. ASSUME NEW b, Before(n, b), Lies(E, Q, R, b, t) PROVE FALSE
    <2>1. Passes(t, w, n.dest)
      BY <1>2, <1>4, <1>9 DEF Flows, NotAhead
    <2>2. Passes(w, n.dest, n.dest)
      BY <1>2, <1>5, <1>9, BeforeFacts, WayComesToEnd
    <2> QED
      BY <1>2, <2>1, <2>2, WayDoesNotReturn
  <1>10. OnItsWay(E2, Q2, R)
    <2>1. ASSUME NEW q \in Sent, NEW v \in Switches, Lies(E2, Q2, R, q, v)
          PROVE  Passes(From(q), v, q.dest)
      <3>1. CASE q = n /\ v = t
        BY <1>2, <1>5, <3>1, WayGoesOn
      <3>2. CASE Lies(E, Q, R, q, v)
        BY <3>2 DEF Flows, OnItsWay
      <3> QED
        BY <1>7, <2>1, <3>1, <3>2
    <2> QED
      BY <2>1 DEF OnItsWay
  <1>11. NotAhead(E2, Q2, R)
    <2>1. ASSUME NEW a, NEW b, Before(a, b), NEW v \in Switches, NEW u \in Switches,
                 Lies(E2, Q2, R, a, v), Lies(E2, Q2, R, b, u)
          PROVE  Passes(u, v, a.dest)
      <3>1. a \in Sent /\ b \in Sent /\ a # b /\ a.dest = b.dest
        BY <2>1, BeforeFacts
      <3>2. CASE a = n /\ v = t
        <4>1. Lies(E, Q, R, b, u)
          BY <1>7, <2>1, <3>1, <3>2
        <4>2. Passes(u, w, n.dest)
          BY <1>4, <2>1, <3>2, <4>1 DEF Flows, NotAhead
        <4> QED
          BY <1>2, <3>2, <4>2, WayGoesOn
      <3>3. CASE b = n /\ u = t
        <4>1. Lies(E, Q, R, a, v)
          BY <1>7, <2>1, <3>1, <3>3
        <4>2. Passes(w, v, n.dest)
          BY <1>4, <2>1, <3>1, <3>3, <4>1 DEF Flows, NotAhead
        <4>3. w # v
          BY <1>8, <2>1, <3>3, <4>1
        <4> QED
          BY <1>2, <3>1, <3>3, <4>2, <4>3, WayAfterFirst
      <3>4. CASE Lies(E, Q, R, a, v) /\ Lies(E, Q, R, b, u)
        BY <2>1, <3>4 DEF Flows, NotAhead
      <3> QED
        BY <1>7, <2>1, <3>1, <3>2, <3>3, <3>4
    <2> QED
      BY <2>1 DEF NotAhead
  <1>12. InLine(E2, Q2, R)
    <2> SUFFICES ASSUME NEW a, NEW b, Before(a, b), NEW v \in Switches,
                        Lies(E2, Q2, R, a, v)
                 PROVE  /\ \A i \in DOMAIN Q2[v] : \A k \in DOMAIN Q2[v][i] : Q2[v][i][k] = b =>
                             \E h \in DOMAIN Q2[v][i] : h < k /\ Q2[v][i][h] = a
                        /\ \A j \in DOMAIN R[v] : R[v][j].pid = b.pid /\ ~ R[v][j].drop =>
                             \E h \in DOMAIN R[v] :
                               h < j /\ R[v][h].pid = a.pid /\ ~ R[v][h].drop
      BY DEF InLine
    <2>1. a \in Sent /\ b \in Sent /\ a # b
      BY BeforeFacts
    <2>2. CASE a = n /\ v = t
      <3>1. ~ Lies(E, Q, R, b, t)
        BY <1>9, <2>2
      <3>2. ASSUME NEW i \in DOMAIN Q2[t], NEW k \in DOMAIN Q2[t][i], Q2[t][i][k] = b
            PROVE  FALSE
        BY <1>2, <1>6, <3>1, <3>2 DEF Lies
      <3>3. ASSUME NEW j \in DOMAIN R[t], R[t][j].pid = b.pid, ~ R[t][j].drop
            PROVE  FALSE
        BY <3>1, <3>3 DEF Lies
      <3> QED
        BY <2>2, <3>2, <3>3
    <2>3. CASE a # n /\ Lies(E, Q, R, a, v)
      <3>1. /\ \A i \in DOMAIN Q[v] : \A k \in DOMAIN Q[v][i] : Q[v][i][k] = b =>
                 \E h \in DOMAIN Q[v][i] : h < k /\ Q[v][i][h] = a
            /\ \A j \in DOMAIN R[v] : R[v][j].pid = b.pid /\ ~ R[v][j].drop =>
                 \E h \in DOMAIN R[v] : h < j /\ R[v][h].pid = a.pid /\ ~ R[v][h].drop
        BY <2>3 DEF Flows, InLine
      <3>2. ASSUME NEW i \in DOMAIN Q2[v], NEW k \in DOMAIN Q2[v][i], Q2[v][i][k] = b
            PROVE  \E h \in DOMAIN Q2[v][i] : h < k /\ Q2[v][i][h] = a
        <4>1. CASE v = w /\ i = c
          <5>1. k \in Nat \ {0} /\ k + 1 \in DOMAIN Q[w][c] /\ Q[w][c][k + 1] = b
            BY <3>2, <4>1
          <5>2. PICK h \in DOMAIN Q[w][c] : h < k + 1 /\ Q[w][c][h] = a
            BY <3>1, <4>1, <5>1
          <5>3. h \in Nat \ {0} /\ h # 1
            BY <2>3, <5>2
          <5>4. PICK g \in Nat \ {0} : h = g + 1
            BY <5>3
          <5>5. g \in DOMAIN Q2[w][c] /\ Q2[w][c][g] = a /\ g < k
            BY <5>1, <5>2, <5>4
          <5> QED
            BY <4>1, <5>5
        <4>2. CASE ~ (v = w /\ i = c)
          BY <3>1, <3>2, <4>2
        <4> QED
          BY <4>1, <4>2
      <3> QED
        BY <3>1, <3>2
    <2> QED
      BY <1>7, <2>1, <2>2, <2>3
  <1>13. ASSUME NEW e \in E, Before(e.packet, n), e.to = t PROVE e.at < d.at
    <2>1. PICK a : a = e.packet
      OBVIOUS
    <2>2. /\ a \in Sent /\ a.dest = n.dest /\ From(a) = From(n)
          /\ Passes(From(a), a.dest, a.dest)
      BY <1>13, <2>1, BeforeFacts
    <2>3. PortOf(w, a) = PortOf(w, n)
      BY <2>2 DEF PortOf
    <2>4. e.at <= A[w][PortOf(w, n)] + PropagationDelay
      BY <1>2, <1>5, <1>13, <2>1, <2>2, <2>3 DEF Flows, HasLeft
    <2>5. A[w][PortOf(w, n)] \in Int /\ e.at \in Int
      BY WayOn DEF FlowTypes, FlowSetting, Routed
    <2> QED
      BY <2>4, <2>5, TimeAssumption
  <1>14. InTime(E2)
    <2>1. ASSUME NEW e \in E2, NEW f \in E2, Before(e.packet, f.packet), e.to = f.to
          PROVE  e.at < f.at
      <3>1. CASE e \in E /\ f \in E
        BY <2>1, <3>1 DEF Flows, InTime
      <3>2. CASE e \in E /\ f = d
        BY <1>1, <1>13, <2>1, <3>2
      <3>3. CASE e = d /\ f \in E
        <4>1. Lies(E, Q, R, f.packet, t)
          BY <1>1, <2>1, <3>3 DEF Lies
        <4> QED
          BY <1>9, <2>1, <3>3, <4>1
      <3>4. CASE e = d /\ f = d
        BY <2>1, <3>4, BeforeFacts
      <3> QED
        BY <3>1, <3>2, <3>3, <3>4
    <2> QED
      BY <2>1 DEF InTime
  <1>15. HasLeft(E2, A2)
    <2>1. ASSUME NEW e \in E2, NEW q \in Switches, NEW p, p = e.packet,
                 q # p.dest, Hop(q, p.dest) = e.to,
                 Passes(From(p), q, p.dest), Passes(From(p), p.dest, p.dest)
          PROVE  e.at <= A2[q][PortOf(q, p)] + PropagationDelay
      <3>1. CASE e \in E
        BY <1>3, <2>1, <3>1 DEF Flows, HasLeft
      <3>2. CASE e = d
        <4>1. p = n /\ q = w
          BY <1>2, <1>5, <2>1, <3>2, WayComesFromOne
        <4> QED
          BY <3>2, <4>1
      <3> QED
        BY <3>1, <3>2
    <2> QED
      BY <2>1 DEF HasLeft
  <1>16. IsHome(R)
    BY DEF Flows
  <1> QED
    BY <1>10, <1>11, <1>12, <1>14, <1>15, <1>16 DEF Flows
-----------------------------------------------------------------------------
(* The times of a switch.                                                  *)

TimedBucket == [tokens : Int, last_update_time : Int]

\* What a bucket is after a refill, and when it is asked to be full enough.
LEMMA BucketTimes ==
  ASSUME NEW s, NEW b \in TimedBucket, NEW now \in Int, NEW ticks \in Nat \ {0}, NEW size \in Nat
  PROVE  /\ S(s)!Refill(b, now, ticks) \in TimedBucket
         /\ S(s)!Consume(b, size, now, ticks) \in TimedBucket
         /\ S(s)!NextAvailableTime(b, size, ticks) \in Int
  <1> USE DEF TimedBucket
  <1>1. PICK t, last : t = b.tokens /\ last = b.last_update_time /\ t \in Int /\ last \in Int
    OBVIOUS
  <1>2. PICK earned : earned = S(s)!Earned(last, now, ticks)
    OBVIOUS
  <1>3. earned \in Int
    <2>1. PICK whole \in Int : whole = (now - last) \div ticks
      BY <1>1
    <2>2. whole % WordSize \in Int /\ (whole - 1) % WordSize \in Int
      BY <2>1, WordAssumption
    <2> QED
      BY <1>2, <2>1, <2>2 DEF S!Earned
  <1>4. PICK t2 \in Int, last2 \in Int :
          S(s)!Refill(b, now, ticks) = [tokens |-> t2, last_update_time |-> last2]
    <2>1. S(s)!Least(t + earned, Capacity) \in Int
      BY <1>1, <1>3, CapacityAssumption DEF S!Least
    <2>2. S(s)!UpdateTime(last, now, ticks) \in Int
      BY <1>1 DEF S!UpdateTime
    <2> QED
      BY <1>1, <1>2, <2>1, <2>2 DEF S!Refill
  <1>5. S(s)!Consume(b, size, now, ticks)
          = [tokens |-> t2 - size * BitsPerByte, last_update_time |-> last2]
    BY <1>4 DEF S!Consume, S!BitsPerByte, BitsPerByte
  <1>6. t2 - size * BitsPerByte \in Int
    BY DEF BitsPerByte
  <1>7. S(s)!NextAvailableTime(b, size, ticks) \in Int
    <2>1. PICK need \in Int : need = (size * S(s)!BitsPerByte - t) * ticks
      BY <1>1 DEF S!BitsPerByte
    <2> QED
      BY <1>1, <2>1 DEF S!NextAvailableTime
  <1> QED
    BY <1>4, <1>5, <1>6, <1>7

\* The buckets and the times of the switch that is loaded are in order, and a
\* packet that is sent now leaves port when the next one may.
OnTime(s, port, sent) ==
  /\ TimesOK(s, shapers', ports_available_time')
  /\ \A other \in PortsOf(s) : ports_available_time[other] <= ports_available_time'[other]
  /\ \A f \in sent :
       /\ {"type", "at"} \subseteq DOMAIN f /\ f.at \in Int
       /\ f.type = "ARRIVE" =>
            /\ f.at > ports_available_time[port] + PropagationDelay
            /\ f.at <= ports_available_time'[port] + PropagationDelay

\* A port that waits for its shaper.
LEMMA WaitingTimes ==
  ASSUME NEW s \in Switches, NEW port \in PortsOf(s), NEW now \in Int, NEW size \in Nat,
         TimesOK(s, shapers, ports_available_time)
  PROVE  /\ TimesOK(s, [shapers EXCEPT ![port] = S(s)!Refilled(port, now)], ports_available_time)
         /\ S(s)!NextAvailableTime(S(s)!Refilled(port, now), size, Bandwidths[s][port]) \in Int
         /\ S(s)!Consume(S(s)!Refilled(port, now), size, now, Bandwidths[s][port]) \in TimedBucket
  <1>1. PICK N, sh, av, ticks : /\ N = PortsOf(s) /\ sh = shapers /\ av = ports_available_time
                                /\ ticks = Bandwidths[s][port]
    OBVIOUS
  <1>2. sh \in [N -> TimedBucket] /\ av \in [N -> Int]
    BY <1>1 DEF TimesOK, TimedBucket
  <1>3. ticks \in Nat \ {0}
    <2>1. DOMAIN Bandwidths[s] = PortsOf(s)
      BY DEF Bandwidths, PortsOf
    <2> QED
      BY <1>1, <2>1, TimeAssumption
  <1>4. PICK b : b = S(s)!Refilled(port, now)
    OBVIOUS
  <1>5. b = S(s)!Refill(sh[port], now, ticks)
    BY <1>1, <1>4 DEF S!Refilled
  <1>6. b \in TimedBucket
    BY <1>1, <1>2, <1>3, <1>5, BucketTimes
  <1>7. S(s)!NextAvailableTime(b, size, ticks) \in Int /\ S(s)!Consume(b, size, now, ticks) \in TimedBucket
    BY <1>3, <1>6, BucketTimes
  <1>8. [sh EXCEPT ![port] = b] \in [N -> TimedBucket]
    BY ONLY <1>2, <1>6
  <1> QED
    BY <1>1, <1>2, <1>4, <1>7, <1>8 DEF TimesOK, TimedBucket

\* A port that sends its next packet.
LEMMA SendingTimes ==
  ASSUME NEW s \in Switches, NEW port \in PortsOf(s), NEW now \in Int, NEW qs, NEW ds, NEW hop,
         NextPacket(qs, port).size \in Nat \ {0},
         TimesOK(s, shapers, ports_available_time),
         S(s)!SendNextPacket(qs, ds, port, now)
  PROVE  OnTime(s, port, {S(s)!Departure(qs, port, hop, now)})
  <1>1. PICK N, sh, av, ticks, sh2, av2, size, d :
          /\ N = PortsOf(s) /\ sh = shapers /\ av = ports_available_time
          /\ ticks = Bandwidths[s][port] /\ sh2 = shapers' /\ av2 = ports_available_time'
          /\ size = NextPacket(qs, port).size /\ d = S(s)!Departure(qs, port, hop, now)
    OBVIOUS
  <1>2. sh \in [N -> TimedBucket] /\ av \in [N -> Int] /\ size \in Nat \ {0}
    BY <1>1 DEF TimesOK, TimedBucket
  <1>3. ticks \in Nat \ {0}
    <2>1. DOMAIN Bandwidths[s] = PortsOf(s)
      BY DEF Bandwidths, PortsOf
    <2> QED
      BY <1>1, <2>1, TimeAssumption
  <1>4. S(s)!NextPacket(qs, port) = NextPacket(qs, port)
    BY SameParts
  <1>5. PICK b, t : /\ b = S(s)!Consume(S(s)!Refilled(port, now), size, now, ticks)
                    /\ t = S(s)!InjectedAt(qs, port, now)
    OBVIOUS
  <1>6. sh2 = [sh EXCEPT ![port] = b] /\ av2 = [av EXCEPT ![port] = t]
    BY <1>1, <1>4, <1>5 DEF S!SendNextPacket
  <1>7. b \in TimedBucket
    BY <1>1, <1>2, <1>5, WaitingTimes
  <1>8. t \in Int /\ t > av[port]
    <2>1. PICK bits \in Nat \ {0} : bits = size * BitsPerByte
      BY <1>2 DEF BitsPerByte
    <2>2. PICK delay : delay = bits * ticks
      OBVIOUS
    <2>3. delay \in Int /\ delay > 0
      BY <1>3, <2>1, <2>2
    <2>4. t = S(s)!Most(now, av[port]) + delay
      BY <1>1, <1>4, <1>5, <2>1, <2>2 DEF S!InjectedAt, S!InjectionDelay, S!BitsPerByte, BitsPerByte
    <2>5. PICK a \in Int : a = av[port]
      BY <1>1, <1>2
    <2>6. S(s)!Most(now, a) \in Int /\ S(s)!Most(now, a) >= a
      BY DEF S!Most
    <2> QED
      BY ONLY <2>3, <2>4, <2>5, <2>6
  <1>9. sh2 \in [N -> TimedBucket] /\ av2 \in [N -> Int] /\ av2[port] = t
    BY <1>1, <1>2, <1>6, <1>7, <1>8
  <1>10. \A other \in N : av[other] <= av2[other]
    BY <1>1, <1>2, <1>6, <1>8
  <1>11. {"type", "at"} \subseteq DOMAIN d /\ d.at = t + PropagationDelay
    BY <1>1, <1>5 DEF S!Departure
  <1> QED
    BY <1>1, <1>2, <1>8, <1>9, <1>10, <1>11, TimeAssumption DEF OnTime, TimesOK, TimedBucket

\* The packets that were sent have a size.
SentSized == \A p \in Sent : p.size \in Nat \ {0}

\* A switch that handles an ARRIVE event, and one that handles a SEND event.
LEMMA ArriveOnTime ==
  ASSUME NEW s \in Switches, NEW p, NEW now \in Int, S(s)!Arrive(p, now),
         p.dest # s => Routed(s, p), SentSized, QueuesOK(s, queues),
         p.pid \notin WaitingAt(queues, QueuesOf(s)),
         TimesOK(s, shapers, ports_available_time)
  PROVE  OnTime(s, PortOf(s, p), done'.sent)
  <1>0. \A other \in PortsOf(s) : ports_available_time[other] \in Int
    BY DEF TimesOK
  <1>1. CASE S(s)!ArriveFinal(p, now)
    <2>1. shapers' = shapers /\ ports_available_time' = ports_available_time /\ done'.sent = {}
      BY <1>1 DEF S!ArriveFinal, S!arrays, S!ports
    <2> QED
      BY <1>0, <2>1 DEF OnTime
  <1>2. CASE S(s)!ArriveDropped(p, now)
    <2>1. shapers' = shapers /\ ports_available_time' = ports_available_time /\ done'.sent = {}
      BY <1>2 DEF S!ArriveDropped, S!ports
    <2> QED
      BY <1>0, <2>1 DEF OnTime
  <1> SUFFICES ASSUME ~ S(s)!ArriveFinal(p, now), ~ S(s)!ArriveDropped(p, now)
               PROVE  OnTime(s, PortOf(s, p), done'.sent)
    BY <1>1, <1>2
  <1>3. Routed(s, p)
    BY DEF S!Arrive, S!ArriveSendsNow, S!ArriveSchedulesSend, S!ArriveJoinsQueue, S!ArriveWaits
  <1>4. PICK port, qs : port = PortOf(s, p) /\ qs = QueuedAt(s, p)
    OBVIOUS
  <1>5. S(s)!OutPort(p) = port /\ S(s)!Enqueued(p) = qs
    <2>1. S(s)!OutPort(p) = port
      BY <1>4 DEF S!OutPort, PortOf
    <2>2. S(s)!PacketMeter(p) = HomeOf(s, p)
      BY <1>4, <2>1, SameParts DEF S!PacketMeter, HomeOf, PortOf
    <2> QED
      BY <1>4, <2>1, <2>2 DEF S!Enqueued, QueuedAt
  <1>6. port \in PortsOf(s) /\ QueuesOK(s, qs) /\ Backlogged(qs, port)
    BY <1>3, <1>4, QueueIn DEF Routed
  <1>7. NextPacket(qs, port).size \in Nat \ {0}
    <2>1. NextPacket(qs, port) \in Sent
      BY <1>6, QueueOut
    <2> QED
      BY <2>1 DEF SentSized
  <1>8. CASE S(s)!ArriveSendsNow(p, now)
    <2>1. PICK ds : ds = S(s)!Judged(p, now)
      OBVIOUS
    <2>2. /\ S(s)!SendNextPacket(qs, ds, port, now)
          /\ done'.sent = {S(s)!Departure(qs, port, S(s)!NextHop(p), now)}
      BY <1>5, <1>8, <2>1 DEF S!ArriveSendsNow
    <2> QED
      BY <1>4, <1>6, <1>7, <2>2, SendingTimes
  <1>9. ASSUME S(s)!ArriveWaits(p, now)
        PROVE  /\ TimesOK(s, shapers', ports_available_time')
               /\ ports_available_time' = ports_available_time
    <2>1. /\ shapers' = [shapers EXCEPT ![port] = S(s)!Refilled(port, now)]
          /\ ports_available_time' = ports_available_time
      BY <1>5, <1>9 DEF S!ArriveWaits
    <2> QED
      BY <1>6, <1>7, <2>1, WaitingTimes
  <1>10. CASE S(s)!ArriveSchedulesSend(p, now)
    <2>1. PICK f : f = S(s)!Wakeup(S(s)!Refilled(port, now), qs, port)
      OBVIOUS
    <2>2. S(s)!ArriveWaits(p, now) /\ done'.sent = {f}
      BY <1>5, <1>10, <2>1 DEF S!ArriveSchedulesSend
    <2>3. f.type = "SEND" /\ {"type", "at"} \subseteq DOMAIN f /\ f.at \in Int
      <3>1. PICK size \in Nat : size = NextPacket(qs, port).size
        BY <1>7
      <3>2. f.type = "SEND" /\ {"type", "at"} \subseteq DOMAIN f
        BY <2>1 DEF S!Wakeup
      <3>3. f.at = S(s)!NextAvailableTime(S(s)!Refilled(port, now), size, Bandwidths[s][port])
        BY <2>1, <3>1, SameParts DEF S!Wakeup
      <3> QED
        BY <1>6, <3>1, <3>2, <3>3, WaitingTimes
    <2> QED
      BY <1>0, <1>9, <2>2, <2>3 DEF OnTime
  <1>11. CASE S(s)!ArriveJoinsQueue(p, now)
    <2>1. S(s)!ArriveWaits(p, now) /\ done'.sent = {}
      BY <1>11 DEF S!ArriveJoinsQueue
    <2> QED
      BY <1>0, <1>9, <2>1 DEF OnTime
  <1> QED
    BY <1>8, <1>10, <1>11 DEF S!Arrive

\* The same for a port that a SEND event wakes up.
LEMMA SendOnTime ==
  ASSUME NEW s \in Switches, NEW port \in PortsOf(s), NEW now \in Int, S(s)!Send(port, now),
         SentSized, QueuesOK(s, queues),
         TimesOK(s, shapers, ports_available_time)
  PROVE  OnTime(s, port, done'.sent)
  <1>0. \A other \in PortsOf(s) : ports_available_time[other] \in Int
    BY DEF TimesOK
  <1>1. Backlogged(queues, port)
    BY SameParts DEF S!Send, S!SendLast, S!SendOneOfMany, S!SendPostponed
  <1>2. NextPacket(queues, port).size \in Nat \ {0} /\ QueuesOK(s, Serve(queues, port))
    <2>1. NextPacket(queues, port) \in Sent /\ QueuesOK(s, Serve(queues, port))
      BY <1>1, QueueOut
    <2> QED
      BY <2>1 DEF SentSized
  <1>3. PICK d : d = S(s)!OwnDeparture(port, now)
    OBVIOUS
  <1>4. S(s)!SendNextPacket(queues, droppers, port, now) => OnTime(s, port, {d})
    BY <1>2, <1>3, SendingTimes DEF S!OwnDeparture
  <1>5. CASE S(s)!SendLast(port, now)
    <2>1. S(s)!SendNextPacket(queues, droppers, port, now) /\ done'.sent = {d}
      BY <1>3, <1>5 DEF S!SendLast
    <2> QED
      BY <1>4, <2>1
  <1>6. CASE S(s)!SendOneOfMany(port, now)
    <2>1. PICK qs, f, b : /\ qs = Serve(queues, port) /\ b = shapers'[port]
                          /\ f = S(s)!Wakeup(b, S(s)!Serve(queues, port), port)
      OBVIOUS
    <2>2. /\ S(s)!SendNextPacket(queues, droppers, port, now) /\ done'.sent = {d, f}
          /\ Backlogged(qs, port)
      BY <1>3, <1>6, <2>1, SameParts DEF S!SendOneOfMany
    <2>3. NextPacket(qs, port).size \in Nat \ {0}
      <3>1. NextPacket(qs, port) \in Sent
        BY <1>2, <2>1, <2>2, QueueOut
      <3> QED
        BY <3>1 DEF SentSized
    <2>4. f.type = "SEND" /\ {"type", "at"} \subseteq DOMAIN f /\ f.at \in Int
      <3>1. PICK size \in Nat : size = NextPacket(qs, port).size
        BY <2>3
      <3>2. f.type = "SEND" /\ {"type", "at"} \subseteq DOMAIN f
        BY <2>1 DEF S!Wakeup
      <3>3. f.at = S(s)!NextAvailableTime(b, size, Bandwidths[s][port])
        BY <2>1, <3>1, SameParts DEF S!Wakeup
      <3>4. b \in TimedBucket
        <4>1. TimesOK(s, shapers', ports_available_time')
          BY <1>4, <2>2 DEF OnTime
        <4> QED
          BY <2>1, <4>1 DEF TimesOK, TimedBucket
      <3>5. Bandwidths[s][port] \in Nat \ {0}
        <4>1. DOMAIN Bandwidths[s] = PortsOf(s)
          BY DEF Bandwidths, PortsOf
        <4> QED
          BY <4>1, TimeAssumption
      <3> QED
        BY <3>1, <3>2, <3>3, <3>4, <3>5, BucketTimes
    <2> QED
      BY <1>4, <2>2, <2>4 DEF OnTime
  <1>7. CASE S(s)!SendPostponed(port, now)
    <2>1. PICK f : f = S(s)!Wakeup(S(s)!Refilled(port, now), queues, port)
      OBVIOUS
    <2>2. /\ shapers' = [shapers EXCEPT ![port] = S(s)!Refilled(port, now)]
          /\ ports_available_time' = ports_available_time /\ done'.sent = {f}
      BY <1>7, <2>1 DEF S!SendPostponed, S!Postponed, S!ports
    <2>3. PICK size \in Nat : size = NextPacket(queues, port).size
      BY <1>2
    <2>4. f.type = "SEND" /\ {"type", "at"} \subseteq DOMAIN f
      BY <2>1 DEF S!Wakeup
    <2>5. f.at = S(s)!NextAvailableTime(S(s)!Refilled(port, now), size, Bandwidths[s][port])
      BY <2>1, <2>3, SameParts DEF S!Wakeup
    <2>6. /\ TimesOK(s, shapers', ports_available_time')
          /\ f.at \in Int
      BY <2>2, <2>3, <2>5, WaitingTimes
    <2> QED
      BY <1>0, <2>2, <2>4, <2>6 DEF OnTime
  <1> QED
    BY <1>5, <1>6, <1>7 DEF S!Send
-----------------------------------------------------------------------------
(* One event at one switch, as far as the order of the flows goes.         *)

\* What was sent comes from a trace: it has a source, a time and a size.
LEMMA SentFacts ==
  ASSUME g_tw_ts_end \in Nat, AllSent, NEW e \in scheduled
  PROVE  /\ From(e.packet) = e.to /\ e.at = e.packet.send_time
         /\ e.at \in Nat /\ e.at < g_tw_ts_end /\ e.packet.size \in Nat \ {0}
  <1>1. PICK i \in Reach(pks, g_tw_ts_end) : e = ArriveEvent(pks[i])
    BY DEF AllSent
  <1>2. pks \in Workloads /\ IsWorkload(pks)
    BY Parsed DEF AllSent
  <1>3. i \in DOMAIN pks /\ pks[i].timestamp \in Nat /\ i \in 1 .. i
    BY <1>1, <1>2 DEF Reach, IsWorkload
  <1>4. pks[i].timestamp < g_tw_ts_end
    BY <1>1, <1>3 DEF Reach
  <1>5. pks[i].size \in Nat \ {0}
    BY <1>2, <1>3, TimeAssumption
  <1>6. \A f \in scheduled : f.packet.pid = e.packet.pid => f = e
    BY AllSentFacts
  <1>7. (CHOOSE f \in scheduled : f.packet.pid = e.packet.pid) = e
    BY <1>6
  <1> QED
    BY <1>1, <1>3, <1>4, <1>5, <1>7 DEF From, SourceOf, ArriveEvent

\* What the flows need to know of the packets that were sent.
LEMMA NetworkSettles ==
  NetworkInv => FlowSetting /\ SentSized
  <1> SUFFICES ASSUME NetworkInv PROVE FlowSetting /\ SentSized
    OBVIOUS
  <1>1. LoopInv /\ g_tw_ts_end \in Nat
    BY DEF NetworkInv, PacketsInv, TerminalInv
  <1>2. \A p, q \in Sent : p.pid = q.pid => p = q
    BY SentUnique
  <1>3. SentRouted
    BY <1>1, SentIsRouted
  <1>4. ASSUME NEW p \in Sent
        PROVE  From(p) \in Switches /\ p.send_time \in Int /\ p.size \in Nat \ {0}
    <2>1. PICK e \in scheduled : p = e.packet
      BY DEF Sent
    <2>2. AllSent
      BY <1>1, <2>1 DEF LoopInv
    <2>3. e.to \in Switches
      BY <1>1, <2>2, AllSentFacts
    <2> QED
      BY <1>1, <2>1, <2>2, <2>3, SentFacts
  <1> QED
    BY <1>2, <1>3, <1>4 DEF FlowSetting, SentSized

\* The switch s handles an event, and E, Q, R and A are those before it.
FlowsAt(s, E, Q, R, A) ==
  /\ FlowSetting /\ FlowTypes(E, Q, A) /\ Flows(E, Q, R, A)
  /\ s \in Switches /\ s = current /\ E = Arrivals
  /\ Q[s] = queues /\ R[s] = stats.records /\ A[s] = ports_available_time
  /\ Q = AllQueues /\ R = AllRecords

\* The part of the switch s is v now, those of the others are the same.
Changed(F, G, s, v) == G = [t \in Switches |-> IF t = s THEN v ELSE F[t]]

\* The packet that has arrived is recorded.
LEMMA RecordedFlows ==
  ASSUME NEW e, NEW T, Setting(e, T), e.type = "ARRIVE", PacketRecorded(current, e.packet),
         NEW s, NEW E, NEW Q, NEW R, NEW A, FlowsAt(s, E, Q, R, A), \A f \in E : e.at <= f.at,
         NEW R2, Changed(R, R2, s, stats'.records)
  PROVE  Flows(E \ {e}, Q, R2, A)
  <1>1. PICK p, x, rs, rs2 : /\ p = e.packet /\ x = p.pid
                             /\ rs = stats.records /\ rs2 = stats'.records
    OBVIOUS
  <1>2. e \in E /\ e.to = s /\ s \in Switches /\ x \in MovingPids
    BY <1>1, SettingFacts DEF FlowsAt, Arrivals, Setting
  <1>3. RecordsOK(stats) /\ RecordsOK(stats')
    BY RecordMade DEF Setting
  <1>4. /\ \A i \in DOMAIN rs : i \in DOMAIN rs2 /\ rs2[i] = rs[i]
        /\ {rs2[i].pid : i \in DOMAIN rs2} = {rs[i].pid : i \in DOMAIN rs} \cup {x}
    <2>1. /\ IdsOf(stats') = {rs2[i].pid : i \in DOMAIN rs2}
          /\ IdsOf(stats) = {rs[i].pid : i \in DOMAIN rs}
      BY <1>1 DEF IdsOf
    <2>2. /\ IdsOf(stats') = IdsOf(stats) \cup {x}
          /\ \A i \in DOMAIN rs : i \in DOMAIN rs2 /\ rs2[i] = rs[i]
      BY <1>1, RecordMade
    <2> QED
      BY ONLY <2>1, <2>2
  <1>5. PICK m \in DOMAIN rs2 : rs2[m].pid = x /\ (rs2[m].drop \/ p.dest = s)
    <2>1. \E i \in DOMAIN rs2 : /\ rs2[i].pid = x
                                /\ \/ rs2[i].drop = FALSE /\ p.dest = s
                                   \/ rs2[i].drop = TRUE /\ p.dest # s
      BY <1>1, RecordMade DEF FlowsAt
    <2> QED
      BY <2>1
  <1>6. x \notin {rs[i].pid : i \in DOMAIN rs}
    <2>1. PICK W, RP, O, All : /\ W = WaitingPids /\ RP = RecordedPids
                               /\ O = MovingPids /\ All = Pids(Sent)
      OBVIOUS
    <2>2. Apart(W, RP, O, All)
      BY <2>1 DEF Setting
    <2>3. x \notin RP[s]
      BY <1>2, <2>1, <2>2, ApartFacts
    <2>4. RP[s] = IdsOf(stats)
      BY <2>1, OwnPids DEF Setting, FlowsAt
    <2> QED
      BY <1>1, <2>3, <2>4 DEF IdsOf
  <1>7. \A i, j \in DOMAIN rs2 : rs2[i].pid = rs2[j].pid => i = j
    BY <1>1, <1>3 DEF RecordsOK
  <1>8. DOMAIN rs2 = DOMAIN rs \cup {m} /\ m \notin DOMAIN rs
    <2>1. m \notin DOMAIN rs
      BY <1>4, <1>5, <1>6
    <2>2. ASSUME NEW i \in DOMAIN rs2, i # m PROVE i \in DOMAIN rs
      <3>1. rs2[i].pid # x
        BY <1>5, <1>7, <2>2
      <3>2. PICK j \in DOMAIN rs : rs[j].pid = rs2[i].pid
        BY <1>4, <3>1
      <3> QED
        BY <1>4, <1>7, <3>2
    <2> QED
      BY <1>4, <2>1, <2>2
  <1>9. \A j \in DOMAIN rs : j < m
    <2>1. PICK k \in Nat : DOMAIN rs = 1 .. k
      BY <1>1, <1>3 DEF RecordsOK
    <2>2. PICK l \in Nat : DOMAIN rs2 = 1 .. l
      BY <1>1, <1>3 DEF RecordsOK
    <2> QED
      BY <1>5, <1>8, <2>1, <2>2
  <1>10. R[s] = rs /\ R2[s] = rs2 /\ \A v \in Switches : v # s => R2[v] = R[v]
    BY <1>1, <1>2 DEF FlowsAt, Changed
  <1>11. FlowSetting /\ FlowTypes(E, Q, A) /\ Flows(E, Q, R, A)
    BY DEF FlowsAt
  <1> QED
    BY <1>1, <1>2, <1>4, <1>5, <1>8, <1>9, <1>10, <1>11, FlowsRecord

\* The packet that has arrived is queued.
LEMMA QueuedFlows ==
  ASSUME NEW e, NEW T, Setting(e, T), e.type = "ARRIVE", e.packet.dest # current,
         NEW s, NEW E, NEW Q, NEW R, NEW A, FlowsAt(s, E, Q, R, A), \A f \in E : e.at <= f.at,
         NEW Q2, Changed(Q, Q2, s, QueuedAt(s, e.packet))
  PROVE  Flows(E \ {e}, Q2, R, A) /\ FlowTypes(E \ {e}, Q2, A)
  <1>1. PICK p, qs, qs2, c : /\ p = e.packet /\ qs = queues /\ qs2 = QueuedAt(s, e.packet)
                             /\ c = HomeOf(s, p)
    OBVIOUS
  <1>2. e \in E /\ e.to = s /\ s \in Switches /\ s = current
    BY SettingFacts DEF FlowsAt, Arrivals, Setting
  <1>3. /\ Routed(s, p) /\ QueuesOK(s, qs) /\ p.pid \notin WaitingAt(qs, QueuesOf(s))
        /\ p.dest # s
    BY <1>1, <1>2, ArrivalFacts
  <1>4. QueuesOK(s, qs2)
    BY <1>1, <1>2, <1>3, QueueIn
  <1>5. c \in QueuesOf(s) /\ qs \in [QueuesOf(s) -> Seq(Sent)] /\ p \in Sent
    <2>1. Indexed(QueuesOf(s), PortsOf(s))
      BY <1>2, SwitchIndexed
    <2>2. c = MeterIndex(PortOf(s, p), p.type)
      BY <1>1 DEF HomeOf, PortOf
    <2> QED
      BY <1>3, <2>1, <2>2, IndexedFacts DEF Routed, QueuesOK
  <1>6. PICK queue \in Seq(Sent) : queue = qs[c]
    BY <1>5
  <1>7. PICK m, queue2 : m = Len(queue) + 1 /\ queue2 = Append(queue, p)
    OBVIOUS
  <1>8. /\ DOMAIN queue2 = DOMAIN queue \cup {m} /\ queue2[m] = p
        /\ \A k \in DOMAIN queue : k < m /\ queue2[k] = queue[k]
    BY <1>5, <1>7, AppendFacts
  <1>9. /\ DOMAIN qs2 = DOMAIN qs /\ qs2[c] = queue2
        /\ \A i \in DOMAIN qs : i # c => qs2[i] = qs[i]
    BY <1>1, <1>5, <1>6, <1>7 DEF QueuedAt
  <1>10. Q[s] = qs /\ Q2[s] = qs2 /\ \A v \in Switches : v # s => Q2[v] = Q[v]
    BY <1>1, <1>2 DEF FlowsAt, Changed
  <1>11. FlowSetting /\ FlowTypes(E, Q, A) /\ Flows(E, Q, R, A)
    BY DEF FlowsAt
  <1>12. Flows(E \ {e}, Q2, R, A)
    <2>1. PICK E2 : E2 = E \ {e}
      OBVIOUS
    <2>2. TakenIn(Q, Q2, s, c, m, p)
      BY ONLY <1>6, <1>8, <1>9, <1>10 DEF TakenIn
    <2>3. c = HomeOf(s, p) /\ p = e.packet /\ s = e.to /\ e \in E /\ p.dest # s
      BY <1>1, <1>2, <1>3
    <2>4. \A f \in E : e.at <= f.at
      OBVIOUS
    <2>5. Flows(E2, Q2, R, A)
      BY ONLY <1>11, <2>1, <2>2, <2>3, <2>4, FlowsIn
    <2> QED
      BY <2>1, <2>5
  <1>13. FlowTypes(E \ {e}, Q2, A)
    BY <1>4, <1>10, <1>11 DEF FlowTypes
  <1> QED
    BY <1>12, <1>13

\* The next packet of a port goes on to the next switch.
LEMMA ServedFlows ==
  ASSUME FlowSetting, NEW E, NEW Q, NEW R, NEW A, FlowTypes(E, Q, A), Flows(E, Q, R, A),
         NEW s \in Switches, NEW port \in PortsOf(s), NEW qs, Q[s] = qs, Backlogged(qs, port),
         NEW n, n = NextPacket(qs, port), NEW d, TakesOn(s, d, n, n), d.at \in Int,
         NEW Q2, Changed(Q, Q2, s, Serve(qs, port)),
         \A v \in Switches : ~ Lies(E, Q2, R, n, v),
         NEW E2, E2 = E \cup {d},
         NEW A2, FlowTypes(E, Q, A2),
         \A v \in Switches : \A other \in PortsOf(v) : A[v][other] <= A2[v][other],
         d.at > A[s][port] + PropagationDelay, d.at <= A2[s][port] + PropagationDelay
  PROVE  Flows(E2, Q2, R, A2)
  <1>1. PICK I, N, qs2, level, c : /\ I = QueuesOf(s) /\ N = PortsOf(s) /\ qs2 = Serve(qs, port)
                                   /\ level = NextLevel(qs, port) /\ c = MeterIndex(port, level)
    OBVIOUS
  <1>2. QueuesOK(s, qs)
    BY DEF FlowTypes
  <1>3. /\ qs \in [I -> Seq(Sent)]
        /\ \A i \in I : \A k \in DOMAIN qs[i] : qs[i][k].dest # s /\ i = HomeOf(s, qs[i][k])
    BY <1>1, <1>2 DEF QueuesOK
  <1>4. Indexed(I, N) /\ port \in N
    BY <1>1, SwitchIndexed
  <1>5. /\ c \in I /\ qs2 \in [I -> Seq(Sent)] /\ qs2[c] = Tail(qs[c])
        /\ \A j \in I : j # c => qs2[j] = qs[j]
    BY <1>1, <1>3, <1>4, ServeChanges
  <1>6. qs[c] # <<>> /\ n = qs[c][1] /\ n \in Sent
    BY <1>1, <1>3, <1>4, HeadOfLine
  <1>7. PICK queue \in Seq(Sent) : queue = qs[c]
    BY <1>3, <1>5
  <1>8. /\ 1 \in DOMAIN queue /\ DOMAIN queue \subseteq Nat \ {0}
        /\ \A k \in Nat \ {0} : k \in DOMAIN Tail(queue) <=> k + 1 \in DOMAIN queue
        /\ \A k \in DOMAIN Tail(queue) : k \in Nat \ {0} /\ Tail(queue)[k] = queue[k + 1]
    BY <1>6, <1>7
  <1>9. n.dest # s /\ c = HomeOf(s, n)
    BY <1>3, <1>5, <1>6, <1>7, <1>8
  <1>10. PortOf(s, n) = port
    BY <1>2, NextWaits DEF FlowSetting
  <1>11. Q2[s] = qs2 /\ \A v \in Switches : v # s => Q2[v] = Q[v]
    BY <1>1 DEF Changed
  <1>12. DOMAIN qs = I /\ DOMAIN qs2 = I
    BY <1>3, <1>5
  <1>13. TakenOut(Q, Q2, s, c, n)
    BY ONLY <1>5, <1>6, <1>7, <1>8, <1>11, <1>12, Q[s] = qs DEF TakenOut
  <1>14. d.packet = n /\ d.to = Hop(s, n.dest)
    BY DEF TakesOn, Hop
  <1>15. d.at > A[s][PortOf(s, n)] + PropagationDelay /\ d.at <= A2[s][PortOf(s, n)] + PropagationDelay
    BY <1>10
  <1>16. c \in DOMAIN Q[s]
    BY <1>5, <1>12
  <1> QED
    BY <1>6, <1>9, <1>13, <1>14, <1>15, <1>16, FlowsOut

\* Handling an ARRIVE event changes the events on their way by what is sent.
LEMMA ArrivalsChange ==
  ASSUME NEW e, NEW T, HandlesEvent(e, T), EventsInv
  PROVE  Arrivals' = (Arrivals \ {e}) \cup {f \in T : f.type = "ARRIVE"}
  <1>1. /\ IsABag(pending') /\ IsABag(discarded')
        /\ \A f : Copies(f)' = Copies(f) - (IF f = e THEN 1 ELSE 0) + (IF f \in T THEN 1 ELSE 0)
        /\ T \subseteq Live' /\ Live' \subseteq Live \cup T /\ Live \subseteq Live' \cup {e}
    BY HandleChangesEvents
  <1>2. ASSUME NEW f, f.type = "ARRIVE", f = e, f \notin T
        PROVE  f \notin Live'
    <2>1. (IsABag(pending) /\ IsABag(discarded)
             => \A g : Copies(g) \in Nat /\ (g \in Live <=> Copies(g) # 0))'
      BY AllLiveNext
    <2>2. f \in Live' <=> Copies(f)' # 0
      BY <1>1, <2>1
    <2>3. Copies(e) = 1
      BY <1>2 DEF HandlesEvent, Live, EventsInv
    <2> QED
      BY <1>1, <1>2, <2>2, <2>3
  <1> QED
    BY <1>1, <1>2 DEF Arrivals

\* What is sent is delivered when the handler says.
LEMMA AddressedOnTime ==
  ASSUME NEW s, NEW port, OnTime(s, port, done'.sent),
         NEW T, T = {Addressed(f) : f \in done'.sent}
  PROVE  OnTime(s, port, T)
  <1>1. ASSUME NEW f \in done'.sent
        PROVE  /\ {"type", "at"} \subseteq DOMAIN Addressed(f)
               /\ Addressed(f).type = f.type /\ Addressed(f).at = f.at
    <2>1. {"type", "at"} \subseteq DOMAIN f
      BY DEF OnTime
    <2>2. PICK to, x, y : to = "to" /\ x = "type" /\ y = "at"
      OBVIOUS
    <2>3. to # x /\ to # y /\ x \in DOMAIN f /\ y \in DOMAIN f
      BY <2>1, <2>2
    <2>4. /\ DOMAIN Extended(f, to, current) = DOMAIN f \cup {to}
          /\ Extended(f, to, current)[x] = f[x] /\ Extended(f, to, current)[y] = f[y]
      BY ONLY <2>3 DEF Extended
    <2>5. PICK g : g = Addressed(f)
      OBVIOUS
    <2>6. g = Extended(f, to, current) \/ g = f
      BY <2>2, <2>5 DEF Addressed
    <2>7. x \in DOMAIN g /\ y \in DOMAIN g /\ g[x] = f[x] /\ g[y] = f[y]
      BY ONLY <2>3, <2>4, <2>6
    <2>8. /\ "type" \in DOMAIN g /\ "at" \in DOMAIN g
          /\ g["type"] = f["type"] /\ g["at"] = f["at"]
      BY ONLY <2>2, <2>7
    <2> QED
      BY <2>5, <2>8
  <1> QED
    BY <1>1 DEF OnTime

\* The switch s handles the event e, the earliest, and sends T.
Handles(e, T, s, E, Q, R, A) ==
  /\ Setting(e, T) /\ Outcome(e, T) /\ SentSized /\ clock \in Int
  /\ T = {Addressed(f) : f \in done'.sent}
  /\ FlowsAt(s, E, Q, R, A) /\ \A f \in E : e.at <= f.at
  /\ TimesOK(s, shapers, ports_available_time)

\* It does so in time.
LEMMA HandledOnTime ==
  ASSUME NEW e, NEW T, NEW s, NEW E, NEW Q, NEW R, NEW A, Handles(e, T, s, E, Q, R, A),
         NEW port, port = IF e.type = "ARRIVE" THEN PortOf(s, e.packet) ELSE e.port,
         \/ e.type = "ARRIVE" /\ S(s)!Arrive(e.packet, clock)
         \/ e.type = "SEND" /\ S(s)!Send(e.port, clock)
  PROVE  OnTime(s, port, T)
  <1>1. /\ Setting(e, T) /\ SentSized /\ clock \in Int /\ s \in Switches /\ s = current
        /\ T = {Addressed(f) : f \in done'.sent} /\ TimesOK(s, shapers, ports_available_time)
    BY DEF Handles, FlowsAt
  <1>2. QueuesOK(s, queues)
    BY <1>1 DEF Setting
  <1>3. CASE e.type = "ARRIVE"
    <2>1. S(s)!Arrive(e.packet, clock) /\ port = PortOf(s, e.packet)
      BY <1>3
    <2>2. e.packet.dest # s =>
            Routed(s, e.packet)
      BY <1>1, <1>3, ArrivalFacts
    <2>3. e.packet.pid \notin WaitingAt(queues, QueuesOf(s))
      <3>1. PICK W, RP, O, All : /\ W = WaitingPids /\ RP = RecordedPids
                                 /\ O = MovingPids /\ All = Pids(Sent)
        OBVIOUS
      <3>2. Apart(W, RP, O, All)
        BY <1>1, <3>1 DEF Setting
      <3>3. e.packet.pid \in O /\ W[s] = WaitingAt(queues, QueuesOf(s))
        BY <1>1, <1>3, <3>1, SettingFacts, OwnPids
      <3> QED
        BY <1>1, <3>2, <3>3, ApartFacts
    <2>4. OnTime(s, port, done'.sent)
      BY <1>1, <1>2, <2>1, <2>2, <2>3, ArriveOnTime
    <2> QED
      BY <1>1, <2>4, AddressedOnTime
  <1>4. CASE e.type # "ARRIVE"
    <2>1. S(s)!Send(port, clock) /\ port = e.port /\ e.type = "SEND"
      BY <1>4
    <2>2. port \in PortsOf(s)
      BY <1>1, <2>1, SettingFacts
    <2>3. OnTime(s, port, done'.sent)
      BY <1>1, <1>2, <2>1, <2>2, SendOnTime
    <2> QED
      BY <1>1, <2>3, AddressedOnTime
  <1> QED
    BY <1>3, <1>4

\* Time does not run back.
LEMMA TimesRise ==
  ASSUME NEW e, NEW T, NEW s, NEW E, NEW Q, NEW R, NEW A, Handles(e, T, s, E, Q, R, A),
         NEW port, OnTime(s, port, T),
         NEW A2, Changed(A, A2, s, ports_available_time')
  PROVE  /\ \A v \in Switches : \A other \in PortsOf(v) : A[v][other] <= A2[v][other]
         /\ \A X, Y : FlowTypes(X, Y, A) => FlowTypes(X, Y, A2)
  <1>1. /\ s \in Switches /\ FlowTypes(E, Q, A) /\ A[s] = ports_available_time
        /\ A2[s] = ports_available_time' /\ \A t \in Switches : t # s => A2[t] = A[t]
    BY DEF Handles, FlowsAt, Changed
  <1>2. /\ A2[s] \in [PortsOf(s) -> Int]
        /\ \A other \in PortsOf(s) : A[s][other] <= A2[s][other]
    BY <1>1 DEF OnTime, TimesOK
  <1>3. \A v \in Switches : A[v] \in [PortsOf(v) -> Int] /\ A2[v] \in [PortsOf(v) -> Int]
    BY <1>1, <1>2 DEF FlowTypes
  <1>4. ASSUME NEW v \in Switches, NEW other \in PortsOf(v) PROVE A[v][other] <= A2[v][other]
    <2>1. CASE v = s
      BY <1>2, <2>1
    <2>2. CASE v # s
      <3>1. A2[v] = A[v] /\ A[v][other] \in Int
        BY <1>1, <1>3, <2>2
      <3> QED
        BY <3>1
    <2> QED
      BY <2>1, <2>2
  <1> QED
    BY <1>3, <1>4 DEF FlowTypes

\* What all outcomes have in common.
LEMMA HandledFacts ==
  ASSUME NEW e, NEW T, NEW s, NEW E, NEW Q, NEW R, NEW A, Handles(e, T, s, E, Q, R, A),
         NEW Q2, Changed(Q, Q2, s, queues'), NEW R2, Changed(R, R2, s, stats'.records)
  PROVE  /\ Setting(e, T) /\ Outcome(e, T) /\ FlowsAt(s, E, Q, R, A)
         /\ s \in Switches /\ s = current /\ e.to = s
         /\ FlowSetting /\ FlowTypes(E, Q, A) /\ Flows(E, Q, R, A)
         /\ E = Arrivals /\ Q[s] = queues
         /\ queues' = queues => Q2 = Q
         /\ OnlyCounted => R2 = R
         /\ e.type # "ARRIVE" => E \ {e} = E
  <1>1. /\ Setting(e, T) /\ Outcome(e, T) /\ FlowsAt(s, E, Q, R, A)
    BY DEF Handles
  <1>2. /\ FlowSetting /\ FlowTypes(E, Q, A) /\ Flows(E, Q, R, A) /\ s \in Switches /\ s = current
        /\ E = Arrivals /\ Q[s] = queues /\ R[s] = stats.records
        /\ Q = [t \in Switches |-> Q[t]] /\ R = [t \in Switches |-> R[t]]
    BY <1>1 DEF FlowsAt, AllQueues, AllRecords
  <1>3. /\ Q2 = [t \in Switches |-> IF t = s THEN queues' ELSE Q[t]]
        /\ R2 = [t \in Switches |-> IF t = s THEN stats'.records ELSE R[t]]
    BY DEF Changed
  <1>4. queues' = queues => Q2 = Q
    BY ONLY <1>2, <1>3
  <1>5. ASSUME OnlyCounted PROVE R2 = R
    <2>1. stats'.records = stats.records
      BY <1>1, <1>5, CountKeepsRecords DEF Setting
    <2> QED
      BY ONLY <1>2, <1>3, <2>1
  <1>6. e.type # "ARRIVE" => E \ {e} = E
    BY <1>2 DEF Arrivals
  <1> QED
    BY <1>1, <1>2, <1>4, <1>5, <1>6 DEF Setting

\* The packet that has arrived is recorded, as received or as dropped.
LEMMA RecordedIsFine ==
  ASSUME NEW e, NEW T, NEW s, NEW E, NEW Q, NEW R, NEW A, Handles(e, T, s, E, Q, R, A),
         e.type = "ARRIVE", PacketRecorded(s, e.packet), NEW port, OnTime(s, port, T),
         NEW Q2, Changed(Q, Q2, s, queues'), NEW R2, Changed(R, R2, s, stats'.records),
         NEW A2, Changed(A, A2, s, ports_available_time')
  PROVE  Flows((E \ {e}) \cup {f \in T : f.type = "ARRIVE"}, Q2, R2, A2)
  <1>1. /\ Setting(e, T) /\ FlowsAt(s, E, Q, R, A) /\ s = current
        /\ FlowSetting /\ FlowTypes(E, Q, A) /\ \A f \in E : e.at <= f.at
    BY HandledFacts DEF Handles
  <1>2. /\ \A v \in Switches : \A other \in PortsOf(v) : A[v][other] <= A2[v][other]
        /\ \A X, Y : FlowTypes(X, Y, A) => FlowTypes(X, Y, A2)
    BY TimesRise
  <1>3. PICK E2 : E2 = E \ {e}
    OBVIOUS
  <1>4. T = {} /\ queues' = queues
    BY DEF PacketRecorded, Handles
  <1>5. Q2 = Q
    BY <1>4, HandledFacts
  <1>6. Flows(E2, Q, R2, A)
    BY <1>1, <1>3, RecordedFlows
  <1>7. FlowTypes(E2, Q, A)
    BY <1>1, <1>3 DEF FlowTypes
  <1>8. FlowTypes(E2, Q, A2)
    BY <1>2, <1>7
  <1>9. Flows(E2, Q, R2, A2)
    BY <1>1, <1>2, <1>6, <1>7, <1>8, FlowsTime
  <1>10. (E \ {e}) \cup {f \in T : f.type = "ARRIVE"} = E2
    BY <1>3, <1>4
  <1> QED
    BY <1>5, <1>9, <1>10

\* The packet waits in its queue.
LEMMA WaitsIsFine ==
  ASSUME NEW e, NEW T, NEW s, NEW E, NEW Q, NEW R, NEW A, Handles(e, T, s, E, Q, R, A),
         e.type = "ARRIVE", PacketWaits(s, e.packet), NEW port, OnTime(s, port, T),
         NEW Q2, Changed(Q, Q2, s, queues'), NEW R2, Changed(R, R2, s, stats'.records),
         NEW A2, Changed(A, A2, s, ports_available_time')
  PROVE  Flows((E \ {e}) \cup {f \in T : f.type = "ARRIVE"}, Q2, R2, A2)
  <1>1. /\ Setting(e, T) /\ FlowsAt(s, E, Q, R, A) /\ s = current
        /\ FlowSetting /\ FlowTypes(E, Q, A) /\ \A f \in E : e.at <= f.at
    BY HandledFacts DEF Handles
  <1>2. /\ \A v \in Switches : \A other \in PortsOf(v) : A[v][other] <= A2[v][other]
        /\ \A X, Y : FlowTypes(X, Y, A) => FlowTypes(X, Y, A2)
    BY TimesRise
  <1>3. PICK E2 : E2 = E \ {e}
    OBVIOUS
  <1>4. queues' = QueuedAt(s, e.packet) /\ OnlyCounted /\ e.packet.dest # s
    BY DEF PacketWaits
  <1>5. R2 = R
    BY <1>4, HandledFacts
  <1>6. Flows(E2, Q2, R, A) /\ FlowTypes(E2, Q2, A)
    BY <1>1, <1>3, <1>4, QueuedFlows
  <1>7. Flows(E2, Q2, R, A2)
    BY <1>1, <1>2, <1>6, FlowsTime
  <1>8. {f \in T : f.type = "ARRIVE"} = {}
    <2>1. T = {Addressed(f) : f \in done'.sent}
      BY DEF Handles
    <2>2. CASE done'.sent = {}
      BY <2>1, <2>2
    <2>3. CASE \E d : done'.sent = {d} /\ WakesUp(d, PortOf(s, e.packet))
      <3>1. PICK d : done'.sent = {d} /\ WakesUp(d, PortOf(s, e.packet))
        BY <2>3
      <3>2. T = {Addressed(d)} /\ Addressed(d).type = "SEND"
        BY <2>1, <3>1, AddressedFacts DEF WakesUpAt
      <3> QED
        BY <3>2
    <2> QED
      BY <2>2, <2>3 DEF PacketWaits
  <1> QED
    BY <1>3, <1>5, <1>7, <1>8

\* The outcomes of a SEND event that moves no packet.
LEMMA PutOffIsFine ==
  ASSUME NEW e, NEW T, NEW s, NEW E, NEW Q, NEW R, NEW A, Handles(e, T, s, E, Q, R, A),
         e.type = "SEND", SendingPutOff(e.port), NEW port, OnTime(s, port, T),
         NEW Q2, Changed(Q, Q2, s, queues'), NEW R2, Changed(R, R2, s, stats'.records),
         NEW A2, Changed(A, A2, s, ports_available_time')
  PROVE  Flows((E \ {e}) \cup {f \in T : f.type = "ARRIVE"}, Q2, R2, A2)
  <1>1. /\ FlowSetting /\ FlowTypes(E, Q, A) /\ Flows(E, Q, R, A) /\ E \ {e} = E
    BY HandledFacts
  <1>2. /\ \A v \in Switches : \A other \in PortsOf(v) : A[v][other] <= A2[v][other]
        /\ \A X, Y : FlowTypes(X, Y, A) => FlowTypes(X, Y, A2)
    BY TimesRise
  <1>3. queues' = queues /\ OnlyCounted
    BY DEF SendingPutOff
  <1>4. Q2 = Q /\ R2 = R
    BY <1>3, HandledFacts
  <1>5. Flows(E, Q, R, A2)
    BY <1>1, <1>2, FlowsTime
  <1>6. {f \in T : f.type = "ARRIVE"} = {}
    <2>1. T = {Addressed(f) : f \in done'.sent}
      BY DEF Handles
    <2>2. PICK d : done'.sent = {d} /\ WakesUp(d, e.port)
      BY DEF SendingPutOff
    <2>3. T = {Addressed(d)} /\ Addressed(d).type = "SEND"
      BY <2>1, <2>2, AddressedFacts DEF WakesUpAt
    <2> QED
      BY <2>3
  <1> QED
    BY <1>1, <1>4, <1>5, <1>6

\* A packet that goes on is nowhere else.
LEMMA NowhereElse ==
  ASSUME NEW e, NEW T, NEW s, NEW E, NEW Q, NEW R, NEW A, Handles(e, T, s, E, Q, R, A),
         NEW d \in T, d.type = "ARRIVE", NEW n, n = d.packet, OnlyCounted,
         NEW Q2, Changed(Q, Q2, s, queues')
  PROVE  \A v \in Switches : ~ Lies(E \ {e}, Q2, R, n, v)
  <1>1. /\ Setting(e, T) /\ Outcome(e, T) /\ s \in Switches /\ s = current /\ E = Arrivals
        /\ Q = AllQueues /\ R = AllRecords
    BY DEF Handles, FlowsAt
  <1>2. PICK W, RP, O, All, x :
          /\ W = [WaitingPids EXCEPT ![s] = WaitingAt(queues', QueuesOf(s))]
          /\ RP = [RecordedPids EXCEPT ![s] = IdsOf(stats')]
          /\ O = (MovingPids \ PidsIn({e})) \cup PidsIn(T) /\ All = Pids(Sent) /\ x = n.pid
    OBVIOUS
  <1>3. Apart(W, RP, O, All) /\ QueuesOK(s, queues') /\ SentOK(e, T)
    BY <1>1, <1>2 DEF Outcome
  <1>4. x \in O
    BY <1>2 DEF PidsIn
  <1>5. \A v \in Switches : x \notin W[v] /\ x \notin RP[v]
    BY <1>3, <1>4, ApartFacts
  <1>6. ASSUME NEW f \in E \ {e}, f.packet = n PROVE FALSE
    <2>1. f \in Live /\ f.type = "ARRIVE" /\ f # e
      BY <1>1, <1>6 DEF Arrivals
    <2> QED
      BY <1>3, <1>6, <2>1 DEF SentOK
  <1>7. ASSUME NEW v \in Switches, NEW i \in DOMAIN Q2[v], NEW k \in DOMAIN Q2[v][i], Q2[v][i][k] = n
        PROVE  FALSE
    <2>1. Q2[v] = IF v = s THEN queues' ELSE Q[v]
      BY DEF Changed
    <2>2. W[v] = WaitingAt(Q2[v], QueuesOf(v))
      <3>1. DOMAIN WaitingPids = Switches /\ WaitingPids[v] = WaitingAt(StateOf(v).queues, QueuesOf(v))
        BY DEF WaitingPids
      <3>2. Q[v] = StateOf(v).queues
        BY <1>1 DEF AllQueues
      <3>3. CASE v = s
        BY <1>2, <2>1, <3>1, <3>3
      <3>4. CASE v # s
        BY <1>2, <2>1, <3>1, <3>2, <3>4
      <3> QED
        BY <3>3, <3>4
    <2>3. DOMAIN Q2[v] = QueuesOf(v)
      <3>1. CASE v = s
        BY <1>3, <2>1, <3>1 DEF QueuesOK
      <3>2. CASE v # s
        <4>1. FlowTypes(E, Q, A)
          BY DEF Handles, FlowsAt
        <4> QED
          BY <2>1, <3>2, <4>1 DEF FlowTypes, QueuesOK
      <3> QED
        BY <3>1, <3>2
    <2>4. x \in W[v]
      BY <1>2, <1>7, <2>2, <2>3 DEF WaitingAt
    <2> QED
      BY <1>5, <2>4
  <1>8. ASSUME NEW v \in Switches, NEW j \in DOMAIN R[v], R[v][j].pid = x PROVE FALSE
    <2>1. RP[v] = RecordedPids[v]
      <3>1. stats'.records = stats.records
        BY <1>1, CountKeepsRecords DEF Setting
      <3>2. IdsOf(stats') = RecordedPids[s] /\ DOMAIN RecordedPids = Switches
        BY <1>1, <3>1, OwnPids DEF IdsOf
      <3> QED
        BY <1>1, <1>2, <3>2
    <2>2. RecordedPids[v] = Recorded(v) /\ Recorded(v) = {R[v][i].pid : i \in DOMAIN R[v]}
      BY <1>1 DEF RecordedPids, Recorded, Records, AllRecords
    <2> QED
      BY <1>5, <1>8, <2>1, <2>2
  <1> QED
    BY <1>2, <1>6, <1>7, <1>8 DEF Lies

\* The packet is queued, and the next one of its port goes on at once.
LEMMA PassesIsFine ==
  ASSUME NEW e, NEW T, NEW s, NEW E, NEW Q, NEW R, NEW A, Handles(e, T, s, E, Q, R, A),
         e.type = "ARRIVE", PacketPasses(s, e.packet),
         NEW port, port = PortOf(s, e.packet), OnTime(s, port, T),
         NEW Q2, Changed(Q, Q2, s, queues'), NEW R2, Changed(R, R2, s, stats'.records),
         NEW A2, Changed(A, A2, s, ports_available_time')
  PROVE  Flows((E \ {e}) \cup {f \in T : f.type = "ARRIVE"}, Q2, R2, A2)
  <1>1. /\ Setting(e, T) /\ FlowsAt(s, E, Q, R, A) /\ s = current /\ s \in Switches
        /\ FlowSetting /\ FlowTypes(E, Q, A) /\ \A f \in E : e.at <= f.at
    BY HandledFacts DEF Handles
  <1>2. /\ \A v \in Switches : \A other \in PortsOf(v) : A[v][other] <= A2[v][other]
        /\ \A X, Y : FlowTypes(X, Y, A) => FlowTypes(X, Y, A2)
    BY TimesRise
  <1>3. PICK qs, n, E1, Q1 : /\ qs = QueuedAt(s, e.packet) /\ n = NextPacket(qs, port)
                             /\ E1 = E \ {e}
                             /\ Q1 = [t \in Switches |-> IF t = s THEN qs ELSE Q[t]]
    OBVIOUS
  <1>4. /\ e.packet.dest # s /\ OnlyCounted /\ queues' = Serve(qs, port)
        /\ \E d : done'.sent = {d} /\ TakesOn(s, d, n, e.packet)
    BY <1>3 DEF PacketPasses
  <1>5. PICK d : T = {d} /\ TakesOn(s, d, n, e.packet)
    <2>1. PICK d : done'.sent = {d} /\ TakesOn(s, d, n, e.packet)
      BY <1>4
    <2>2. Addressed(d) = d
      BY <1>1, <2>1, AddressedFacts
    <2>3. T = {d}
      BY <2>1, <2>2 DEF Handles
    <2> QED
      BY <2>1, <2>3
  <1>6. R2 = R
    BY <1>4, HandledFacts
  <1>7. Flows(E1, Q1, R, A) /\ FlowTypes(E1, Q1, A) /\ FlowTypes(E1, Q1, A2)
    <2>1. Changed(Q, Q1, s, qs)
      BY <1>3 DEF Changed
    <2> QED
      BY <1>1, <1>2, <1>3, <1>4, <2>1, QueuedFlows
  <1>8. d.type = "ARRIVE" /\ d.packet = n /\ {f \in T : f.type = "ARRIVE"} = {d}
    BY <1>5 DEF TakesOn
  <1>9. \A v \in Switches : ~ Lies(E1, Q2, R, n, v)
    BY <1>3, <1>4, <1>5, <1>8, NowhereElse
  <1>10. /\ d.at \in Int /\ port \in PortsOf(s)
         /\ d.at > A[s][port] + PropagationDelay /\ d.at <= A2[s][port] + PropagationDelay
    <2>1. A[s] = ports_available_time /\ A2[s] = ports_available_time'
      BY <1>1 DEF FlowsAt, Changed
    <2>2. port \in PortsOf(s)
      BY <1>1, <1>4, ArrivalFacts DEF Routed
    <2> QED
      BY <1>5, <1>8, <2>1, <2>2 DEF OnTime
  <1>11. Backlogged(qs, port) /\ Q1[s] = qs /\ TakesOn(s, d, n, n)
    <2>1. /\ Routed(s, e.packet) /\ QueuesOK(s, queues) /\ SentRouted
          /\ e.packet.pid \notin WaitingAt(queues, QueuesOf(s))
      BY <1>1, <1>4, ArrivalFacts DEF FlowSetting
    <2>2. QueuesOK(s, qs) /\ Backlogged(qs, port)
      BY <1>1, <1>3, <2>1, QueueIn
    <2>3. TakesOn(s, d, n, n)
      BY <1>1, <1>3, <1>4, <1>5, <2>1, <2>2, SharedHop
    <2> QED
      BY <1>1, <1>3, <2>2, <2>3
  <1>12. Changed(Q1, Q2, s, Serve(qs, port))
    <2>1. Q2 = [t \in Switches |-> IF t = s THEN queues' ELSE Q[t]]
      BY DEF Changed
    <2>2. Q2 = [t \in Switches |-> IF t = s THEN Serve(qs, port) ELSE Q1[t]]
      BY ONLY <1>3, <1>4, <2>1
    <2> QED
      BY <2>2 DEF Changed
  <1>13. PICK E2 : E2 = E1 \cup {d}
    OBVIOUS
  <1>14. Flows(E2, Q2, R, A2)
    BY <1>1, <1>2, <1>3, <1>5, <1>7, <1>9, <1>10, <1>11, <1>12, <1>13, ServedFlows
  <1> QED
    BY <1>3, <1>6, <1>8, <1>13, <1>14

\* A SEND event sends the next packet of its port.
LEMMA SentIsFine ==
  ASSUME NEW e, NEW T, NEW s, NEW E, NEW Q, NEW R, NEW A, Handles(e, T, s, E, Q, R, A),
         e.type = "SEND", NEW port, port = e.port, PacketSent(s, port), OnTime(s, port, T),
         NEW Q2, Changed(Q, Q2, s, queues'), NEW R2, Changed(R, R2, s, stats'.records),
         NEW A2, Changed(A, A2, s, ports_available_time')
  PROVE  Flows((E \ {e}) \cup {f \in T : f.type = "ARRIVE"}, Q2, R2, A2)
  <1>1. /\ Setting(e, T) /\ FlowsAt(s, E, Q, R, A) /\ s = current /\ s \in Switches
        /\ FlowSetting /\ FlowTypes(E, Q, A) /\ Flows(E, Q, R, A) /\ E \ {e} = E
    BY HandledFacts
  <1>2. /\ \A v \in Switches : \A other \in PortsOf(v) : A[v][other] <= A2[v][other]
        /\ \A X, Y : FlowTypes(X, Y, A) => FlowTypes(X, Y, A2)
    BY TimesRise
  <1>3. PICK qs, n : qs = queues /\ n = NextPacket(queues, port)
    OBVIOUS
  <1>4. Backlogged(qs, port) /\ OnlyCounted /\ queues' = Serve(qs, port)
    BY <1>3 DEF PacketSent
  <1>5. PICK d \in T : TakesOn(s, d, n, n) /\ {f \in T : f.type = "ARRIVE"} = {d}
    <2>1. T = {Addressed(f) : f \in done'.sent}
      BY DEF Handles
    <2>2. PICK d : /\ TakesOn(s, d, n, n)
                   /\ \/ done'.sent = {d}
                      \/ \E w : WakesUp(w, port) /\ done'.sent = {d, w}
      BY <1>3 DEF PacketSent
    <2>3. Addressed(d) = d /\ d.type = "ARRIVE"
      BY <1>1, <2>2, AddressedFacts DEF TakesOn
    <2>4. CASE done'.sent = {d}
      BY <2>1, <2>2, <2>3, <2>4
    <2>5. CASE \E w : WakesUp(w, port) /\ done'.sent = {d, w}
      <3>1. PICK w : WakesUp(w, port) /\ done'.sent = {d, w}
        BY <2>5
      <3>2. Addressed(w).type = "SEND"
        BY <3>1, AddressedFacts DEF WakesUpAt
      <3>3. T = {d, Addressed(w)}
        BY <2>1, <2>3, <3>1
      <3> QED
        BY <2>2, <2>3, <3>2, <3>3
    <2> QED
      BY <2>2, <2>4, <2>5
  <1>6. R2 = R
    BY <1>4, HandledFacts
  <1>7. d.type = "ARRIVE" /\ d.packet = n
    BY <1>5 DEF TakesOn
  <1>8. \A v \in Switches : ~ Lies(E, Q2, R, n, v)
    <2>1. \A v \in Switches : ~ Lies(E \ {e}, Q2, R, n, v)
      BY <1>4, <1>7, NowhereElse
    <2> QED
      BY <1>1, <2>1
  <1>9. /\ d.at \in Int /\ port \in PortsOf(s)
        /\ d.at > A[s][port] + PropagationDelay /\ d.at <= A2[s][port] + PropagationDelay
    <2>1. A[s] = ports_available_time /\ A2[s] = ports_available_time'
      BY <1>1 DEF FlowsAt, Changed
    <2>2. port \in PortsOf(s)
      BY <1>1, SettingFacts
    <2> QED
      BY <1>7, <2>1, <2>2 DEF OnTime
  <1>10. Changed(Q, Q2, s, Serve(qs, port)) /\ Q[s] = qs
    BY <1>1, <1>3, <1>4 DEF FlowsAt
  <1>11. PICK E2 : E2 = E \cup {d}
    OBVIOUS
  <1>12. FlowTypes(E, Q, A2)
    BY <1>1, <1>2
  <1>13. n = NextPacket(qs, port)
    BY <1>3
  <1>14. Flows(E2, Q2, R, A2)
    BY ONLY <1>1, <1>2, <1>4, <1>5, <1>8, <1>9, <1>10, <1>11, <1>12, <1>13, ServedFlows
  <1> QED
    BY <1>1, <1>5, <1>6, <1>11, <1>14

\* An event that is handled leaves the flows in order, and the switch in time.
LEMMA HandledFlows ==
  ASSUME NEW e, NEW T, NEW s, NEW E, NEW Q, NEW R, NEW A, Handles(e, T, s, E, Q, R, A),
         \/ e.type = "ARRIVE" /\ S(s)!Arrive(e.packet, clock)
         \/ e.type = "SEND" /\ S(s)!Send(e.port, clock),
         NEW Q2, Changed(Q, Q2, s, queues'), NEW R2, Changed(R, R2, s, stats'.records),
         NEW A2, Changed(A, A2, s, ports_available_time')
  PROVE  /\ Flows((E \ {e}) \cup {f \in T : f.type = "ARRIVE"}, Q2, R2, A2)
         /\ TimesOK(s, shapers', ports_available_time') /\ \A f \in T : f.at \in Int
  <1>1. PICK port : port = IF e.type = "ARRIVE" THEN PortOf(s, e.packet) ELSE e.port
    OBVIOUS
  <1>2. OnTime(s, port, T)
    BY <1>1, HandledOnTime
  <1>3. TimesOK(s, shapers', ports_available_time') /\ \A f \in T : f.at \in Int
    BY <1>2 DEF OnTime
  <1>4. PICK F : F = (E \ {e}) \cup {f \in T : f.type = "ARRIVE"}
    OBVIOUS
  <1>5. CASE e.type = "ARRIVE" /\ S(s)!Arrive(e.packet, clock)
    <2>1. PacketRecorded(s, e.packet) \/ PacketPasses(s, e.packet) \/ PacketWaits(s, e.packet)
      BY <1>5, ArriveDoes
    <2>2. port = PortOf(s, e.packet)
      BY <1>1, <1>5
    <2>3. CASE PacketRecorded(s, e.packet)
      BY <1>2, <1>3, <1>5, <2>3, RecordedIsFine
    <2>4. CASE PacketPasses(s, e.packet)
      BY <1>2, <1>3, <1>5, <2>2, <2>4, PassesIsFine
    <2>5. CASE PacketWaits(s, e.packet)
      BY <1>2, <1>3, <1>5, <2>5, WaitsIsFine
    <2> QED
      BY <2>1, <2>3, <2>4, <2>5
  <1>6. CASE e.type = "SEND" /\ S(s)!Send(e.port, clock)
    <2>1. PacketSent(s, e.port) \/ SendingPutOff(e.port)
      BY <1>6, SendDoes
    <2>2. port = e.port
      BY <1>1, <1>6
    <2>3. CASE PacketSent(s, e.port)
      BY <1>2, <1>3, <1>6, <2>2, <2>3, SentIsFine
    <2>4. CASE SendingPutOff(e.port)
      BY <1>2, <1>3, <1>6, <2>4, PutOffIsFine
    <2> QED
      BY <2>1, <2>3, <2>4
  <1> QED
    BY <1>5, <1>6
-----------------------------------------------------------------------------
(* The steps of the program, as far as the order of the flows goes.        *)

\* Whether the flows are in order depends on the parts and on what was sent.
LEMMA FlowsNext ==
  ASSUME scheduled' = scheduled,
         Flows(Arrivals', AllQueues', AllRecords', AllTimes')
  PROVE  Flows(Arrivals, AllQueues, AllRecords, AllTimes)'
  <1>1. Sent' = Sent /\ Switches' = Switches
    BY DEF Sent, Switches
  <1>2. \A p : From(p)' = From(p)
    BY DEF From, SourceOf
  <1>3. \A x, y, d : Passes(x, y, d)' <=> Passes(x, y, d)
    BY <1>1 DEF Passes, Hop
  <1>4. \A a, b : Before(a, b)' <=> Before(a, b)
    BY <1>1, <1>2, <1>3 DEF Before
  <1>5. PICK E, Q, R, A : /\ E = Arrivals' /\ Q = AllQueues' /\ R = AllRecords' /\ A = AllTimes'
    OBVIOUS
  <1>6. Flows(E, Q, R, A)
    BY <1>5
  <1>7. \A p, w : Lies(E, Q, R, p, w)' <=> Lies(E, Q, R, p, w)
    BY DEF Lies
  <1>8. OnItsWay(E, Q, R)'
    BY <1>1, <1>2, <1>3, <1>6, <1>7 DEF Flows, OnItsWay
  <1>9. NotAhead(E, Q, R)'
    BY <1>1, <1>3, <1>4, <1>6, <1>7 DEF Flows, NotAhead
  <1>10. InLine(E, Q, R)'
    BY <1>1, <1>4, <1>6, <1>7 DEF Flows, InLine
  <1>11. InTime(E)'
    BY <1>4, <1>6 DEF Flows, InTime
  <1>12. HasLeft(E, A)'
    BY <1>1, <1>2, <1>3, <1>6 DEF Flows, HasLeft, Hop, PortOf
  <1>13. IsHome(R)'
    BY <1>1, <1>6 DEF Flows, IsHome
  <1>14. Flows(E, Q, R, A)'
    BY <1>8, <1>9, <1>10, <1>11, <1>12, <1>13 DEF Flows
  <1> QED
    BY <1>5, <1>14

\* The switch that is loaded has its part of the flows.
LEMMA FlowsNow ==
  ASSUME NetworkInv, FlowInv, NEW s, s = current
  PROVE  /\ FlowsAt(s, Arrivals, AllQueues, AllRecords, AllTimes)
         /\ TimesOK(s, shapers, ports_available_time) /\ SentSized
  <1>1. LoopInv /\ EventsInv /\ s \in Switches
    BY DEF NetworkInv, PacketsInv, LoopInv
  <1>2. FlowSetting /\ SentSized
    BY NetworkSettles
  <1>3. /\ StateOf(s).queues = queues /\ StateOf(s).stats = stats /\ StateOf(s).shapers = shapers
        /\ StateOf(s).ports_available_time = ports_available_time
    BY DEF StateOf, CurrentState
  <1>4. \A t \in Switches : TimesOK(t, StateOf(t).shapers, StateOf(t).ports_available_time)
    BY DEF FlowInv
  <1>5. FlowTypes(Arrivals, AllQueues, AllTimes)
    <2>1. ASSUME NEW e \in Arrivals PROVE e.to \in Switches /\ e.packet \in Sent /\ e.at \in Int
      <3>1. e \in Live /\ e.type = "ARRIVE" /\ EventOK(e)
        BY <1>1 DEF Arrivals, EventsInv
      <3> QED
        BY <3>1 DEF EventOK, FlowInv, InTurn
    <2>2. ASSUME NEW w \in Switches PROVE QueuesOK(w, AllQueues[w])
      BY DEF NetworkInv, PacketsInv, SwitchOK, AllQueues
    <2>3. ASSUME NEW w \in Switches PROVE AllTimes[w] \in [PortsOf(w) -> Int]
      BY <1>4 DEF TimesOK, AllTimes
    <2> QED
      BY <2>1, <2>2, <2>3 DEF FlowTypes
  <1>6. AllQueues[s] = queues /\ AllRecords[s] = stats.records /\ AllTimes[s] = ports_available_time
    BY <1>1, <1>3 DEF AllQueues, AllRecords, AllTimes
  <1>7. Flows(Arrivals, AllQueues, AllRecords, AllTimes)
    BY DEF FlowInv
  <1> QED
    BY <1>1, <1>2, <1>3, <1>4, <1>5, <1>6, <1>7 DEF FlowsAt

\* The event that is handled is the earliest of all.
LEMMA HandledIsEarliest ==
  ASSUME InTurn, EventsInv, NEW e \in handling
  PROVE  clock = e.at /\ e.at \in Int /\ \A f \in Live : e.at <= f.at
  <1>1. /\ g_tw_ts_end \in Int /\ clock = e.at /\ e.at < g_tw_ts_end
        /\ \A f \in BagToSet(pending) : e.at <= f.at
        /\ \A f \in BagToSet(discarded) : f.at >= g_tw_ts_end
        /\ \A f \in Live : f.at \in Int
    BY DEF InTurn
  <1>2. e \in Live /\ \A f \in handling : f = e
    BY DEF Live, EventsInv
  <1>3. ASSUME NEW f \in Live PROVE e.at <= f.at
    <2>1. CASE f \in BagToSet(pending)
      BY <1>1, <2>1
    <2>2. CASE f \in BagToSet(discarded)
      BY <1>1, <1>2, <2>2
    <2>3. CASE f \in handling
      BY <1>1, <1>2, <2>3
    <2> QED
      BY <2>1, <2>2, <2>3 DEF Live
  <1> QED
    BY <1>1, <1>2, <1>3

\* What is sent is pending if it is due before the end, and discarded if not.
LEMMA HandleStaysInTurn ==
  ASSUME InTurn, NetworkInv, Handle,
         NEW e \in handling, NEW T, T = {Addressed(f) : f \in done'.sent},
         \A f \in T : f.at \in Int
  PROVE  InTurn'
  <1>1. /\ IsABag(pending) /\ IsABag(discarded) /\ handling' = {} /\ g_tw_ts_end' = g_tw_ts_end
    BY DEF NetworkInv, PacketsInv, EventsInv, Handle, termvars
  <1>2. PICK late : late = {f \in T : f.at >= g_tw_ts_end}
    OBVIOUS
  <1>3. /\ pending' = pending (+) SetToBag(T \ late)
        /\ discarded' = discarded (+) SetToBag(late)
    BY <1>2 DEF Handle
  <1>4. BagToSet(pending') = BagToSet(pending) \cup (T \ late)
    <2>1. PICK X : X = SetToBag(T \ late)
      OBVIOUS
    <2>2. IsABag(X) /\ BagToSet(X) = T \ late
      BY <2>1, BagOfSet
    <2>3. BagToSet(pending (+) X) = BagToSet(pending) \cup BagToSet(X)
      BY <1>1, <2>2, BagSum
    <2> QED
      BY <1>3, <2>1, <2>2, <2>3
  <1>5. BagToSet(discarded') = BagToSet(discarded) \cup late
    <2>1. PICK X : X = SetToBag(late)
      OBVIOUS
    <2>2. IsABag(X) /\ BagToSet(X) = late
      BY <2>1, BagOfSet
    <2>3. BagToSet(discarded (+) X) = BagToSet(discarded) \cup BagToSet(X)
      BY <1>1, <2>2, BagSum
    <2> QED
      BY <1>3, <2>1, <2>2, <2>3
  <1>6. /\ g_tw_ts_end \in Int /\ \A f \in Live : f.at \in Int
        /\ \A f \in BagToSet(pending) : f.at < g_tw_ts_end
        /\ \A f \in BagToSet(discarded) : f.at >= g_tw_ts_end
    BY DEF InTurn
  <1>7. \A f \in Live' : f.at \in Int
    BY <1>1, <1>4, <1>5, <1>6, <1>2 DEF Live
  <1>8. \A f \in BagToSet(pending') : f.at < g_tw_ts_end
    BY <1>2, <1>4, <1>6
  <1>9. \A f \in BagToSet(discarded') : f.at >= g_tw_ts_end
    BY <1>2, <1>5, <1>6
  <1> QED
    BY <1>1, <1>6, <1>7, <1>8, <1>9 DEF InTurn

\* Handling an event.
LEMMA HandleKeepsFlows ==
  ASSUME NetworkInv, FlowInv, Handle
  PROVE  FlowInv'
  <1>1. PICK e \in handling, s \in Switches :
          /\ s = current
          /\ \/ e.type = "ARRIVE" /\ S(s)!Arrive(e.packet, clock)
             \/ e.type = "SEND" /\ S(s)!Send(e.port, clock)
    BY DEF Handle
  <1>2. PICK T : T = {Addressed(f) : f \in done'.sent}
    OBVIOUS
  <1>3. Setting(e, T)
    BY <1>2, HandleSetting
  <1>4. Outcome(e, T)
    BY <1>1, <1>2, <1>3, HandleOutcome
  <1>5. current' = current /\ parked' = parked /\ scheduled' = scheduled
    BY DEF Handle, termvars
  <1>6. HandlesEvent(e, T) /\ EventsInv /\ InTurn
    BY <1>3 DEF Setting, FlowInv
  <1>7. clock \in Int /\ \A f \in Arrivals : e.at <= f.at
    BY <1>6, HandledIsEarliest DEF Arrivals
  <1>8. PICK E, Q, R, A : /\ E = Arrivals /\ Q = AllQueues /\ R = AllRecords /\ A = AllTimes
    OBVIOUS
  <1>9. Handles(e, T, s, E, Q, R, A)
    <2>1. /\ FlowsAt(s, E, Q, R, A) /\ TimesOK(s, shapers, ports_available_time) /\ SentSized
      BY <1>1, <1>8, FlowsNow
    <2> QED
      BY <1>2, <1>3, <1>4, <1>7, <1>8, <2>1 DEF Handles
  <1>10. /\ StateOf(s)'.queues = queues' /\ StateOf(s)'.stats = stats'
         /\ StateOf(s)'.shapers = shapers'
         /\ StateOf(s)'.ports_available_time = ports_available_time'
         /\ \A t : t # s => StateOf(t)' = StateOf(t)
    BY <1>1, <1>5, LoadedState
  <1>11. PICK Q2, R2, A2 : Q2 = AllQueues' /\ R2 = AllRecords' /\ A2 = AllTimes'
    OBVIOUS
  <1>12. Changed(Q, Q2, s, queues')
    <2>1. Q2 = [t \in Switches |-> StateOf(t)'.queues]
      BY <1>11 DEF AllQueues, Switches
    <2>2. \A t \in Switches : t # s => StateOf(t)'.queues = Q[t]
      BY <1>8, <1>10 DEF AllQueues
    <2> QED
      BY <1>10, <2>1, <2>2 DEF Changed
  <1>13. Changed(R, R2, s, stats'.records)
    <2>1. R2 = [t \in Switches |-> StateOf(t)'.stats.records]
      BY <1>11 DEF AllRecords, Switches
    <2>2. \A t \in Switches : t # s => StateOf(t)'.stats.records = R[t]
      BY <1>8, <1>10 DEF AllRecords
    <2> QED
      BY <1>10, <2>1, <2>2 DEF Changed
  <1>14. Changed(A, A2, s, ports_available_time')
    <2>1. A2 = [t \in Switches |-> StateOf(t)'.ports_available_time]
      BY <1>11 DEF AllTimes, Switches
    <2>2. \A t \in Switches : t # s => StateOf(t)'.ports_available_time = A[t]
      BY <1>8, <1>10 DEF AllTimes
    <2> QED
      BY <1>10, <2>1, <2>2 DEF Changed
  <1>15. PICK F : F = (E \ {e}) \cup {f \in T : f.type = "ARRIVE"}
    OBVIOUS
  <1>16. /\ Flows(F, Q2, R2, A2) /\ TimesOK(s, shapers', ports_available_time')
         /\ \A f \in T : f.at \in Int
    BY <1>1, <1>9, <1>12, <1>13, <1>14, <1>15, HandledFlows
  <1>17. Flows(Arrivals, AllQueues, AllRecords, AllTimes)'
    <2>1. Arrivals' = F
      BY <1>6, <1>8, <1>15, ArrivalsChange
    <2> QED
      BY <1>5, <1>11, <1>16, <2>1, FlowsNext
  <1>18. InTurn'
    BY <1>2, <1>6, <1>16, HandleStaysInTurn
  <1>19. ASSUME NEW t \in Switches
         PROVE  TimesOK(t, StateOf(t)'.shapers, StateOf(t)'.ports_available_time)
    <2>1. CASE t = s
      BY <1>10, <1>16, <2>1
    <2>2. CASE t # s
      BY <1>10, <2>2 DEF FlowInv
    <2> QED
      BY <2>1, <2>2
  <1>20. ASSUME NEW t \in Switches
         PROVE  TimesOK(t, StateOf(t).shapers, StateOf(t).ports_available_time)'
    BY <1>19 DEF TimesOK, PortsOf
  <1> QED
    BY <1>17, <1>18, <1>20 DEF FlowInv, Switches

\* A step that leaves every switch and the events as they are.
LEMMA FlowsStill ==
  ASSUME FlowInv, InTurn', StatesKept, scheduled' = scheduled
  PROVE  FlowInv'
  <1>1. Switches' = Switches /\ Arrivals' = Arrivals
    BY DEF Switches, StatesKept, Arrivals
  <1>2. /\ AllQueues' = [s \in Switches |-> StateOf(s)'.queues]
        /\ AllRecords' = [s \in Switches |-> StateOf(s)'.stats.records]
        /\ AllTimes' = [s \in Switches |-> StateOf(s)'.ports_available_time]
    BY DEF AllQueues, AllRecords, AllTimes, Switches
  <1>3. AllQueues' = AllQueues /\ AllRecords' = AllRecords /\ AllTimes' = AllTimes
    BY <1>2 DEF AllQueues, AllRecords, AllTimes, StatesKept
  <1>4. Flows(Arrivals, AllQueues, AllRecords, AllTimes)'
    BY <1>1, <1>3, FlowsNext DEF FlowInv
  <1>5. ASSUME NEW s \in Switches
        PROVE  TimesOK(s, StateOf(s).shapers, StateOf(s).ports_available_time)'
    <2>1. TimesOK(s, StateOf(s)'.shapers, StateOf(s)'.ports_available_time)
      BY DEF FlowInv, StatesKept
    <2> QED
      BY <2>1 DEF TimesOK, PortsOf
  <1> QED
    BY <1>1, <1>4, <1>5 DEF FlowInv

\* The loop takes the earliest event.
LEMMA DispatchKeepsFlows ==
  ASSUME NetworkInv, FlowInv, NEW e \in BagToSet(pending), Dispatch(e)
  PROVE  FlowInv'
  <1>1. PacketsInv /\ EventsInv /\ IsABag(pending) /\ IsABag(discarded) /\ InTurn
    BY DEF NetworkInv, PacketsInv, EventsInv, FlowInv
  <1>2. StatesKept
    BY <1>1, DispatchKeepsStates
  <1>3. Live' = Live /\ handling' = {e}
    BY <1>1, DispatchKeepsEvents
  <1>4. /\ clock' = e.at /\ discarded' = discarded /\ g_tw_ts_end' = g_tw_ts_end
        /\ scheduled' = scheduled /\ \A f \in BagToSet(pending) : e.at <= f.at
        /\ pending' = pending (-) SetToBag({e})
    BY DEF Dispatch, termvars
  <1>5. BagToSet(pending') \subseteq BagToSet(pending)
    BY <1>1, <1>4, BagLess
  <1>6. InTurn'
    BY <1>1, <1>3, <1>4, <1>5 DEF InTurn
  <1> QED
    BY <1>2, <1>4, <1>6, FlowsStill

\* A step outside the loop.
LEMMA QuietKeepsFlows ==
  ASSUME FlowInv, UNCHANGED <<swvars, loop, scheduled, g_tw_ts_end>>
  PROVE  FlowInv'
  <1>1. StatesKept
    BY LoopKeepsStates
  <1>2. InTurn'
    <2>1. /\ clock' = clock /\ handling' = handling /\ pending' = pending
          /\ discarded' = discarded /\ Live' = Live
      BY <1>1 DEF loop, StatesKept
    <2> QED
      BY <2>1 DEF FlowInv, InTurn
  <1> QED
    BY <1>1, <1>2, FlowsStill

\* The packets are at their sources.
Begun ==
  /\ AllSent /\ Live = scheduled
  /\ \A s \in Switches : WaitingPids[s] = {} /\ RecordedPids[s] = {}

\* There they are in order, as a fact about a state.
LEMMA FlowsBegin ==
  NetworkInv /\ Begun => Flows(Arrivals, AllQueues, AllRecords, AllTimes)
  <1> SUFFICES ASSUME NetworkInv, Begun
               PROVE  Flows(Arrivals, AllQueues, AllRecords, AllTimes)
    OBVIOUS
  <1>1. PICK E, Q, R, A : /\ E = Arrivals /\ Q = AllQueues /\ R = AllRecords /\ A = AllTimes
    OBVIOUS
  <1>2. FlowSetting
    BY NetworkSettles
  <1>3. ASSUME NEW e \in E
        PROVE  /\ From(e.packet) = e.to /\ e.at = e.packet.send_time /\ e.at \in Int
               /\ e.packet \in Sent /\ e.to \in Switches /\ e.packet.dest \in Switches
    <2>1. e \in scheduled /\ AllSent /\ g_tw_ts_end \in Nat
      BY <1>1 DEF Arrivals, Begun, NetworkInv, TerminalInv
    <2>2. From(e.packet) = e.to /\ e.at = e.packet.send_time /\ e.at \in Int
      BY <2>1, SentFacts
    <2>3. e.packet \in Sent /\ e.to \in Switches
      BY <2>1, AllSentFacts
    <2> QED
      BY <1>2, <2>2, <2>3 DEF FlowSetting, SentRouted
  <1>4. ASSUME NEW p \in Sent, NEW w \in Switches, NEW i \in DOMAIN Q[w],
               NEW k \in DOMAIN Q[w][i], Q[w][i][k] = p
        PROVE  FALSE
    <2>1. Q[w] = StateOf(w).queues /\ QueuesOK(w, Q[w])
      BY <1>1 DEF AllQueues, NetworkInv, PacketsInv, SwitchOK
    <2>2. i \in QueuesOf(w)
      BY <2>1 DEF QueuesOK
    <2>3. p.pid \in WaitingPids[w]
      BY <1>4, <2>1, <2>2 DEF WaitingPids, WaitingAt
    <2> QED
      BY <2>3 DEF Begun
  <1>5. ASSUME NEW w \in Switches, NEW j \in DOMAIN R[w]
        PROVE  FALSE
    <2>1. R[w][j].pid \in RecordedPids[w]
      BY <1>1 DEF AllRecords, RecordedPids, Recorded, Records
    <2> QED
      BY <2>1 DEF Begun
  <1>6. ASSUME NEW p \in Sent, NEW w \in Switches, Lies(E, Q, R, p, w)
        PROVE  w = From(p)
    <2>1. PICK e \in E : e.packet = p /\ e.to = w
      BY <1>4, <1>5, <1>6 DEF Lies
    <2> QED
      BY <1>3, <2>1
  <1>7. OnItsWay(E, Q, R)
    BY <1>6, WayBegins DEF OnItsWay
  <1>8. NotAhead(E, Q, R)
    <2>1. ASSUME NEW a, NEW b, Before(a, b), NEW v \in Switches, NEW w \in Switches,
                 Lies(E, Q, R, a, v), Lies(E, Q, R, b, w)
          PROVE  Passes(w, v, a.dest)
      <3>1. a \in Sent /\ b \in Sent /\ From(a) = From(b)
        BY <1>2, <2>1, BeforeFacts
      <3>2. v = w
        BY <1>6, <2>1, <3>1
      <3> QED
        BY <3>2, WayBegins
    <2> QED
      BY <2>1 DEF NotAhead
  <1>9. InLine(E, Q, R)
    <2>1. ASSUME NEW a, NEW b, Before(a, b), NEW w \in Switches
          PROVE  /\ \A i \in DOMAIN Q[w] : \A k \in DOMAIN Q[w][i] : Q[w][i][k] # b
                 /\ \A j \in DOMAIN R[w] : FALSE
      <3>1. b \in Sent
        BY <1>2, <2>1, BeforeFacts
      <3> QED
        BY <1>4, <1>5, <3>1
    <2> QED
      BY <2>1 DEF InLine
  <1>10. InTime(E)
    BY <1>3 DEF InTime, Before
  <1>11. HasLeft(E, A)
    <2>1. ASSUME NEW e \in E, NEW q \in Switches, NEW p, p = e.packet, q # p.dest,
                 Hop(q, p.dest) = e.to,
                 Passes(From(p), q, p.dest), Passes(From(p), p.dest, p.dest)
          PROVE  FALSE
      <3>1. From(p) = e.to /\ From(p) \in Switches /\ p.dest \in Switches
        BY <1>3, <2>1
      <3>2. Passes(Hop(q, p.dest), q, p.dest)
        BY <2>1, <3>1
      <3>3. Passes(q, p.dest, p.dest)
        BY <2>1, <3>1, WayComesToEnd
      <3> QED
        BY <2>1, <3>1, <3>2, <3>3, WayDoesNotReturn
    <2> QED
      BY <2>1 DEF HasLeft
  <1>12. IsHome(R)
    BY <1>5 DEF IsHome
  <1> QED
    BY <1>1, <1>7, <1>8, <1>9, <1>10, <1>11, <1>12 DEF Flows

\* What a packet has before the events, as a fact about a state.
LEMMA SentInTime ==
  g_tw_ts_end \in Nat /\ AllSent =>
    \A e \in scheduled : e.at \in Nat /\ e.at < g_tw_ts_end
  BY SentFacts

\* The terminal schedules its packets: they are at their sources.
LEMMA PrerunBegins ==
  ASSUME NetworkInv, NetworkInv', Prerun
  PROVE  /\ Begun' /\ g_tw_ts_end' = g_tw_ts_end
         /\ handling' = {} /\ BagToSet(discarded') = {}
         /\ BagToSet(pending') = scheduled' /\ Live' = scheduled'
         /\ \A s \in Switches :
              /\ StateOf(s)'.shapers = StateOf(s).shapers
              /\ StateOf(s)'.ports_available_time = StateOf(s).ports_available_time
  <1>1. PacketsInv /\ TerminalInv /\ phase = "start"
    BY DEF NetworkInv, Prerun
  <1>2. /\ current' = current /\ parked' = parked /\ handling' = handling
        /\ discarded' = discarded /\ g_tw_ts_end' = g_tw_ts_end
        /\ pending' = SetToBag(scheduled') /\ phase' # "start"
        /\ queues' = queues /\ stats' = stats /\ shapers' = shapers
        /\ ports_available_time' = ports_available_time
    BY DEF Prerun, swvars, state, terminal_prerun
  <1>3. /\ BagToSet(discarded) = {} /\ handling = {}
        /\ \A s \in Switches : WaitingPids[s] = {} /\ RecordedPids[s] = {}
    BY <1>1, NothingYet
  <1>4. BagToSet(pending') = scheduled'
    BY <1>2, BagOfSet
  <1>5. Live' = scheduled'
    BY <1>2, <1>3, <1>4 DEF Live
  <1>6. AllSent' /\ g_tw_ts_end' \in Nat
    BY <1>2 DEF NetworkInv, PacketsInv, LoopInv, TerminalInv
  <1>7. ASSUME NEW s \in Switches
        PROVE  /\ StateOf(s)'.queues = StateOf(s).queues /\ StateOf(s)'.stats = StateOf(s).stats
               /\ StateOf(s)'.shapers = StateOf(s).shapers
               /\ StateOf(s)'.ports_available_time = StateOf(s).ports_available_time
    <2>1. CASE s = current
      BY <1>2, <2>1, LoadedState
    <2>2. CASE s # current
      BY <1>2, <2>2, LoadedState
    <2> QED
      BY <2>1, <2>2
  <1>8. ASSUME NEW s \in Switches PROVE WaitingPids'[s] = {} /\ RecordedPids'[s] = {}
    <2>1. WaitingPids[s] = WaitingAt(StateOf(s).queues, QueuesOf(s))
      BY DEF WaitingPids
    <2>2. WaitingPids'[s] = WaitingAt(StateOf(s)'.queues, QueuesOf(s))
      BY DEF WaitingPids, WaitingAt, QueuesOf, Switches
    <2>3. RecordedPids[s] = IdsOf(StateOf(s).stats)
      BY DEF RecordedPids, Recorded, Records, IdsOf
    <2>4. RecordedPids'[s] = IdsOf(StateOf(s)'.stats)
      BY DEF RecordedPids, Recorded, Records, IdsOf, Switches
    <2> QED
      BY <1>3, <1>7, <2>1, <2>2, <2>3, <2>4
  <1>9. Begun'
    BY <1>5, <1>6, <1>8 DEF Begun, Switches
  <1> QED
    BY <1>2, <1>3, <1>4, <1>5, <1>7, <1>9

LEMMA PrerunKeepsFlows ==
  ASSUME NetworkInv, NetworkInv', FlowInv, Prerun
  PROVE  FlowInv'
  <1>1. /\ Begun' /\ AllSent' /\ g_tw_ts_end' = g_tw_ts_end /\ g_tw_ts_end' \in Nat
        /\ handling' = {} /\ BagToSet(discarded') = {}
        /\ BagToSet(pending') = scheduled' /\ Live' = scheduled'
    BY PrerunBegins DEF Begun, NetworkInv, TerminalInv
  <1>2. (NetworkInv /\ Begun => Flows(Arrivals, AllQueues, AllRecords, AllTimes))'
    BY FlowsBegin, PTL
  <1>3. Flows(Arrivals, AllQueues, AllRecords, AllTimes)'
    BY <1>1, <1>2
  <1>4. InTurn'
    <2>1. (g_tw_ts_end \in Nat /\ AllSent =>
             \A e \in scheduled : e.at \in Nat /\ e.at < g_tw_ts_end)'
      BY SentInTime, PTL
    <2>2. \A e \in scheduled' : e.at \in Nat /\ e.at < g_tw_ts_end'
      BY <1>1, <2>1
    <2> QED
      BY <1>1, <2>2 DEF InTurn
  <1>5. ASSUME NEW s \in Switches
        PROVE  TimesOK(s, StateOf(s).shapers, StateOf(s).ports_available_time)'
    <2>1. TimesOK(s, StateOf(s)'.shapers, StateOf(s)'.ports_available_time)
      BY PrerunBegins DEF FlowInv
    <2> QED
      BY <2>1 DEF TimesOK, PortsOf
  <1> QED
    BY <1>3, <1>4, <1>5 DEF FlowInv, Switches

\* What is known of the order of the flows stays true.
LEMMA FlowNext == NetworkInv /\ NetworkInv' /\ FlowInv /\ [Next]_vars => FlowInv'
<1> SUFFICES ASSUME NetworkInv, NetworkInv', FlowInv, [Next]_vars PROVE FlowInv'
  OBVIOUS
<1>1. ASSUME NEW node \in Nodes, SetUpRank(node) PROVE FlowInv'
  <2>1. UNCHANGED <<swvars, loop, scheduled, g_tw_ts_end>>
    BY <1>1 DEF SetUpRank, termvars
  <2> QED
    BY <2>1, QuietKeepsFlows
<1>2. ASSUME NEW s \in Switches, InitSwitch(s) PROVE FlowInv'
  <2>1. UNCHANGED <<swvars, loop, scheduled, g_tw_ts_end>>
    BY <1>2 DEF InitSwitch, termvars
  <2> QED
    BY <2>1, QuietKeepsFlows
<1>3. CASE InitTerminal
  <2>1. UNCHANGED <<swvars, loop, scheduled, g_tw_ts_end>>
    BY <1>3 DEF InitTerminal, terminal_init
  <2> QED
    BY <2>1, QuietKeepsFlows
<1>4. CASE Prerun
  BY <1>4, PrerunKeepsFlows
<1>5. ASSUME NEW e \in BagToSet(pending), Dispatch(e) PROVE FlowInv'
  BY <1>5, DispatchKeepsFlows
<1>6. CASE Handle
  BY <1>6, HandleKeepsFlows
<1>7. ASSUME NEW s \in Switches, FinishSwitch(s) PROVE FlowInv'
  <2>1. UNCHANGED <<swvars, loop, scheduled, g_tw_ts_end>>
    BY <1>7 DEF FinishSwitch, termvars
  <2> QED
    BY <2>1, QuietKeepsFlows
<1>8. CASE UNCHANGED vars
  <2>1. UNCHANGED <<swvars, loop, scheduled, g_tw_ts_end>>
    BY <1>8 DEF vars, termvars
  <2> QED
    BY <2>1, QuietKeepsFlows
<1> QED
  BY <1>1, <1>2, <1>3, <1>4, <1>5, <1>6, <1>7, <1>8 DEF Next, StartUp, EventLoop

\* In the beginning nothing has a place, and no port has sent.
LEMMA FlowInit == Init => FlowInv
<1> SUFFICES ASSUME Init PROVE FlowInv
  OBVIOUS
<1>1. /\ current = 0 /\ parked = [s \in Switches |-> FreshSwitch(s)]
      /\ handling = {} /\ pending = EmptyBag /\ discarded = EmptyBag
      /\ scheduled = {} /\ g_tw_ts_end \in Nat
  BY TerminalInit DEF Init, TermInit, TerminalInv
<1>2. BagToSet(EmptyBag) = {}
  BY BagOfSet DEF EmptyBag
<1>3. Live = {} /\ Sent = {} /\ Arrivals = {}
  BY <1>1, <1>2 DEF Live, Sent, Arrivals
<1>4. InTurn
  BY <1>1, <1>2, <1>3 DEF InTurn
<1>5. \A a, b : ~ Before(a, b)
  BY <1>3 DEF Before
<1>6. PICK E, Q, R, A : /\ E = Arrivals /\ Q = AllQueues /\ R = AllRecords /\ A = AllTimes
  OBVIOUS
<1>7. E = {}
  BY <1>3, <1>6
<1>8. Flows(E, Q, R, A)
  BY <1>3, <1>5, <1>7 DEF Flows, OnItsWay, NotAhead, InLine, InTime, HasLeft, IsHome
<1>9. ASSUME NEW s \in Switches
      PROVE  TimesOK(s, StateOf(s).shapers, StateOf(s).ports_available_time)
  <2>1. S(s)!Ports = PortsOf(s) /\ S(s)!FullBucket = FullBucket
    BY DEF S!Ports, PortsOf, S!FullBucket, FullBucket
  <2>2. /\ StateOf(s).shapers = [port \in S(s)!Ports |-> FullBucket]
        /\ StateOf(s).ports_available_time = [port \in S(s)!Ports |-> 0]
    <3>1. CASE s = 0
      <4>1. /\ shapers = [port \in S(0)!Ports |-> S(0)!FullBucket]
            /\ ports_available_time = [port \in S(0)!Ports |-> 0]
        BY DEF Init, S!SwitchInit
      <4> QED
        BY <1>1, <2>1, <3>1, <4>1 DEF StateOf, CurrentState
    <3>2. CASE s # 0
      <4>1. StateOf(s) = FreshSwitch(s)
        BY <1>1, <3>2 DEF StateOf
      <4> QED
        BY <4>1 DEF FreshSwitch
    <3> QED
      BY <3>1, <3>2
  <2>3. FullBucket \in [tokens : Int, last_update_time : Int]
    BY CapacityAssumption DEF FullBucket
  <2> QED
    BY <2>1, <2>2, <2>3 DEF TimesOK
<1> QED
  BY <1>4, <1>6, <1>8, <1>9 DEF FlowInv

\* Where the flows are in order, the records are.
LEMMA FlowsAreInOrder == NetworkInv /\ FlowInv => FlowOrder
<1> SUFFICES ASSUME NetworkInv, FlowInv,
                    NEW s \in Switches, NEW i \in DOMAIN Records(s), NEW j \in DOMAIN Records(s),
                    NEW a, a = Records(s)[i], NEW b, b = Records(s)[j],
                    i < j, ~ a.drop, ~ b.drop,
                    SourceOf(a.pid) = SourceOf(b.pid),
                    PacketOf(a.pid).type = PacketOf(b.pid).type
             PROVE  PacketOf(a.pid).send_time <= PacketOf(b.pid).send_time
  BY DEF FlowOrder
<1>1. PICK E, Q, R, A : /\ E = Arrivals /\ Q = AllQueues /\ R = AllRecords /\ A = AllTimes
  OBVIOUS
<1>2. Flows(E, Q, R, A) /\ FlowSetting
  BY <1>1, NetworkSettles DEF FlowInv
<1>3. PICK rs : rs = Records(s)
  OBVIOUS
<1>4. R[s] = rs /\ i \in DOMAIN rs /\ j \in DOMAIN rs /\ rs[i] = a /\ rs[j] = b
  BY <1>1, <1>3 DEF AllRecords, Records
<1>5. ASSUME NEW k \in DOMAIN rs, ~ rs[k].drop
      PROVE  \E p \in Sent : /\ p.pid = rs[k].pid /\ PacketOf(rs[k].pid) = p
                             /\ p.dest = s /\ Lies(E, Q, R, p, s)
  <2>1. rs[k].pid \in RecordedPids[s]
    BY <1>3 DEF RecordedPids, Recorded
  <2>2. rs[k].pid \in Pids(Sent)
    BY <2>1 DEF NetworkInv, PacketsInv, Apart
  <2>3. PICK p \in Sent : p.pid = rs[k].pid
    BY <2>2 DEF Pids
  <2>4. \A q \in Sent : q.pid = rs[k].pid => q = p
    BY <1>2, <2>3 DEF FlowSetting
  <2>5. PacketOf(rs[k].pid) = p
    BY <2>3, <2>4 DEF PacketOf
  <2>6. p.dest = s
    BY <1>2, <1>4, <1>5, <2>3 DEF Flows, IsHome
  <2>7. Lies(E, Q, R, p, s)
    BY <1>4, <1>5, <2>3 DEF Lies
  <2> QED
    BY <2>3, <2>5, <2>6, <2>7
<1>6. PICK p \in Sent : /\ p.pid = a.pid /\ PacketOf(a.pid) = p
                        /\ p.dest = s /\ Lies(E, Q, R, p, s)
  BY <1>4, <1>5
<1>7. PICK q \in Sent : /\ q.pid = b.pid /\ PacketOf(b.pid) = q
                        /\ q.dest = s /\ Lies(E, Q, R, q, s)
  BY <1>4, <1>5
<1>8. From(p) = From(q) /\ p.type = q.type /\ Passes(From(p), s, s)
  BY <1>2, <1>6, <1>7 DEF From, Flows, OnItsWay
<1>9. p.send_time \in Int /\ q.send_time \in Int
  BY <1>2 DEF FlowSetting
<1>10. ASSUME q.send_time < p.send_time PROVE FALSE
  <2>1. Before(q, p)
    BY <1>6, <1>7, <1>8, <1>10 DEF Before
  <2>2. PICK h \in DOMAIN rs : h < i /\ rs[h].pid = q.pid
    BY <1>2, <1>4, <1>6, <1>7, <2>1 DEF Flows, InLine
  <2>3. SwitchOK(s) /\ rs = StateOf(s).stats.records
    BY <1>3 DEF NetworkInv, PacketsInv, Records
  <2>4. \A k, l \in DOMAIN rs : rs[k].pid = rs[l].pid => k = l
    BY <2>3 DEF SwitchOK, RecordsOK
  <2>5. h = j
    BY <1>4, <1>7, <2>2, <2>4
  <2>6. DOMAIN rs = 1 .. Len(rs) /\ Len(rs) \in Nat
    BY <2>3 DEF SwitchOK, RecordsOK
  <2> QED
    BY <1>4, <2>2, <2>5, <2>6
<1> QED
  BY <1>6, <1>7, <1>9, <1>10

(***************************************************************************)
(* For every network in which the switches have routes to each other, with *)
(* one next hop by a port, and nothing is sent in no time, every trace and *)
(* every end time: the packets of one source, destination and class have   *)
(* their records in the order in which they were sent, whatever is         *)
(* dropped, queued or passed in between.                                   *)
(***************************************************************************)
THEOREM NetworkKeepsFlowOrder == Spec => []FlowOrder
<1>1. Init => NetworkInv /\ FlowInv
  BY MappingInit, TerminalInit, DirsInit, PacketsInit, FlowInit DEF Init, NetworkInv
<1>2. NetworkInv /\ FlowInv /\ [Next]_vars => NetworkInv' /\ FlowInv'
  <2>1. NetworkInv /\ [Next]_vars => NetworkInv'
    BY StartUpNext, MappingNext, TerminalNext, DirsNext, PacketsNext DEF NetworkInv
  <2> QED
    BY <2>1, FlowNext
<1> QED
  BY <1>1, <1>2, FlowsAreInOrder, PTL DEF Spec
-----------------------------------------------------------------------------
(* The time of a way.  PathTime is a recursive function; what says that it *)
(* is there are its parts, each on one way, which agree where they meet.   *)

\* The function g says for the switches of D how far it is to d.
Measures(g, D, d, size) ==
  g = [s \in D |-> IF s = d THEN 0 ELSE HopTime(s, d, size) + g[Hop(s, d)]]

\* The switches that lead to d, and those that the way from x to d passes.
Leading(d) == {s \in Switches : Leads(s, d)}
Passed(x, d) == {s \in Switches : Passes(x, s, d)}

\* A way that leads to d is one that comes to its end.
LEMMA LeadsIsPasses ==
  ASSUME NEW x, NEW d
  PROVE  Leads(x, d) <=> Passes(x, d, d)
  BY DEF Leads, Passes, Hop

\* What holds on the way to d until it is lost is lost at d: a set of switches
\* that lead to d, and that goes on with its switches, contains d.
LEMMA WayInduction ==
  ASSUME NEW d \in Switches, NEW X \in SUBSET Switches, NEW x \in X, Leads(x, d),
         \A z \in X \ {d} : Hop(z, d) \in X
  PROVE  d \in X
  BY LeadsIsPasses DEF Passes

\* What leads to d goes on with what leads to d.
LEMMA LeadsOn ==
  ASSUME NEW d \in Switches, NEW x \in Leading(d), x # d
  PROVE  Hop(x, d) \in Leading(d)
  <1>1. x \in Switches /\ Passes(x, d, d) /\ Hop(x, d) \in Switches
    BY LeadsIsPasses, HopType DEF Leading
  <1>2. Passes(Hop(x, d), d, d)
    BY <1>1, WayAfterFirst
  <1> QED
    BY <1>1, <1>2, LeadsIsPasses DEF Leading

\* A way is its first switch and the way from the second.
LEMMA PassedIs ==
  ASSUME NEW d \in Switches, NEW x \in Leading(d)
  PROVE  /\ x \in Passed(x, d) /\ Passed(x, d) \subseteq Leading(d)
         /\ \A y \in Passed(x, d) \ {d} : Hop(y, d) \in Passed(x, d)
         /\ x = d => Passed(x, d) = {d}
         /\ x # d => /\ Passed(x, d) = {x} \cup Passed(Hop(x, d), d)
                     /\ x \notin Passed(Hop(x, d), d)
  <1>1. x \in Switches /\ Passes(x, d, d)
    BY LeadsIsPasses DEF Leading
  <1>2. x \in Passed(x, d)
    BY <1>1, WayBegins DEF Passed
  <1>3. Passed(x, d) \subseteq Leading(d)
    BY <1>1, WayComesToEnd, LeadsIsPasses DEF Passed, Leading
  <1>4. ASSUME NEW y \in Passed(x, d) \ {d} PROVE Hop(y, d) \in Passed(x, d)
    BY WayGoesOn, HopType DEF Passed
  <1>5. x = d => Passed(x, d) = {d}
    BY <1>2, WayEnds DEF Passed
  <1>6. ASSUME x # d
        PROVE  Passed(x, d) = {x} \cup Passed(Hop(x, d), d) /\ x \notin Passed(Hop(x, d), d)
    <2>1. x \notin Passed(Hop(x, d), d)
      BY <1>1, <1>6, WayDoesNotReturn DEF Passed
    <2>2. ASSUME NEW y \in Passed(x, d), y # x PROVE y \in Passed(Hop(x, d), d)
      BY <1>1, <2>2, WayAfterFirst DEF Passed
    <2>3. ASSUME NEW y \in Passed(Hop(x, d), d) PROVE y \in Passed(x, d)
      <3>1. y \in Switches /\ Passes(Hop(x, d), y, d)
        BY DEF Passed
      <3>2. ASSUME NEW X \in SUBSET Switches, x \in X, \A z \in X \ {d} : Hop(z, d) \in X
            PROVE  y \in X
        BY <1>6, <3>1, <3>2 DEF Passes
      <3>3. Passes(x, y, d)
        BY <3>2 DEF Passes
      <3> QED
        BY <3>1, <3>3 DEF Passed
    <2> QED
      BY <1>2, <2>1, <2>2, <2>3
  <1> QED
    BY <1>2, <1>3, <1>4, <1>5, <1>6

\* What a function that measures says of a switch.
LEMMA MeasuresFacts ==
  ASSUME NEW g, NEW D, NEW d, NEW size, Measures(g, D, d, size)
  PROVE  /\ d \in D => g[d] = 0
         /\ \A s \in D : s # d => g[s] = HopTime(s, d, size) + g[Hop(s, d)]
  BY DEF Measures

\* Two parts say the same where they meet.
LEMMA PartsAgree ==
  ASSUME NEW d \in Switches, NEW size, NEW x \in Leading(d), NEW y \in Leading(d),
         NEW g, Measures(g, Passed(x, d), d, size), NEW h, Measures(h, Passed(y, d), d, size),
         NEW s \in Passed(x, d) \cap Passed(y, d)
  PROVE  g[s] = h[s]
  <1> SUFFICES ASSUME g[s] # h[s] PROVE FALSE
    OBVIOUS
  <1>1. PICK X : X = {z \in Passed(x, d) \cap Passed(y, d) : g[z] # h[z]}
    OBVIOUS
  <1>2. s \in X /\ X \in SUBSET Switches /\ Leads(s, d)
    BY <1>1, PassedIs DEF Passed, Leading
  <1>3. ASSUME NEW z \in X \ {d} PROVE Hop(z, d) \in X
    <2>1. z \in Passed(x, d) /\ z \in Passed(y, d) /\ z # d /\ g[z] # h[z]
      BY <1>1
    <2>2. Hop(z, d) \in Passed(x, d) /\ Hop(z, d) \in Passed(y, d)
      BY <2>1, PassedIs
    <2>3. PICK t, n : t = HopTime(z, d, size) /\ n = Hop(z, d)
      OBVIOUS
    <2>4. g[z] = t + g[n] /\ h[z] = t + h[n]
      BY <2>1, <2>3, MeasuresFacts
    <2>5. g[n] # h[n]
      BY ONLY <2>1, <2>4
    <2> QED
      BY <1>1, <2>2, <2>3, <2>5
  <1>4. d \in X
    BY <1>2, <1>3, WayInduction
  <1>5. d \in Passed(x, d) /\ d \in Passed(y, d) /\ g[d] # h[d]
    BY <1>1, <1>4
  <1> QED
    BY <1>5, MeasuresFacts

\* A part on the way from the second switch is one from the first, made longer.
LEMMA PartGrows ==
  ASSUME NEW d \in Switches, NEW size, NEW x \in Leading(d), x # d,
         NEW g, Measures(g, Passed(Hop(x, d), d), d, size)
  PROVE  \E h : Measures(h, Passed(x, d), d, size)
  <1>1. PICK D, C, n, t : /\ D = Passed(x, d) /\ C = Passed(Hop(x, d), d)
                          /\ n = Hop(x, d) /\ t = HopTime(x, d, size)
    OBVIOUS
  <1>2. n \in Leading(d)
    BY <1>1, LeadsOn
  <1>3. D = {x} \cup C /\ x \notin C
    BY <1>1, PassedIs
  <1>4. n \in C /\ \A y \in C \ {d} : Hop(y, d) \in C
    BY <1>1, <1>2, PassedIs
  <1>5. \A s \in C : g[s] = IF s = d THEN 0 ELSE HopTime(s, d, size) + g[Hop(s, d)]
    BY <1>1, MeasuresFacts
  <1>6. PICK h : h = [s \in D |-> IF s = x THEN t + g[n] ELSE g[s]]
    OBVIOUS
  <1>7. ASSUME NEW s \in D
        PROVE  h[s] = IF s = d THEN 0 ELSE HopTime(s, d, size) + h[Hop(s, d)]
    <2>1. CASE s = x
      <3>1. h[x] = t + g[n] /\ h[n] = g[n]
        BY <1>3, <1>4, <1>6
      <3> QED
        BY <1>1, <2>1, <3>1
    <2>2. CASE s # x
      <3>1. s \in C /\ h[s] = g[s]
        BY <1>3, <1>6, <2>2
      <3>2. s # d => Hop(s, d) \in C /\ h[Hop(s, d)] = g[Hop(s, d)]
        BY <1>3, <1>4, <1>6, <3>1
      <3> QED
        BY <1>5, <3>1, <3>2
    <2> QED
      BY <2>1, <2>2
  <1>8. h = [s \in D |-> h[s]]
    BY <1>6
  <1>9. Measures(h, D, d, size)
    BY <1>7, <1>8 DEF Measures
  <1> QED
    BY <1>1, <1>9

\* There is a part on every way that leads to d.
LEMMA PartExists ==
  ASSUME NEW d \in Switches, NEW size, NEW x \in Leading(d)
  PROVE  \E g : Measures(g, Passed(x, d), d, size)
  <1> SUFFICES ASSUME ~ \E g : Measures(g, Passed(x, d), d, size) PROVE FALSE
    OBVIOUS
  <1>1. PICK X : X = {z \in Leading(d) : ~ \E g : Measures(g, Passed(z, d), d, size)}
    OBVIOUS
  <1>2. x \in X /\ X \in SUBSET Switches /\ Leads(x, d)
    BY <1>1 DEF Leading
  <1>3. ASSUME NEW z \in X \ {d} PROVE Hop(z, d) \in X
    BY <1>1, LeadsOn, PartGrows
  <1>4. d \in X
    BY <1>2, <1>3, WayInduction
  <1>5. d \in Leading(d) /\ ~ \E g : Measures(g, Passed(d, d), d, size)
    BY <1>1, <1>4
  <1>6. Passed(d, d) = {d}
    BY <1>5, PassedIs
  <1>7. PICK g : g = [s \in {d} |-> 0]
    OBVIOUS
  <1>8. g = [s \in {d} |-> IF s = d THEN 0 ELSE HopTime(s, d, size) + g[Hop(s, d)]]
    BY <1>7
  <1>9. Measures(g, {d}, d, size)
    BY <1>8 DEF Measures
  <1> QED
    BY <1>5, <1>6, <1>9

\* The parts make a whole.
LEMMA WholeExists ==
  ASSUME NEW d \in Switches, NEW size
  PROVE  \E g : Measures(g, Leading(d), d, size)
  <1>1. PICK part : part = [x \in Leading(d) |-> CHOOSE g : Measures(g, Passed(x, d), d, size)]
    OBVIOUS
  <1>2. \A x \in Leading(d) : Measures(part[x], Passed(x, d), d, size)
    BY <1>1, PartExists
  <1>3. PICK h : h = [x \in Leading(d) |-> part[x][x]]
    OBVIOUS
  <1>4. ASSUME NEW s \in Leading(d)
        PROVE  h[s] = IF s = d THEN 0 ELSE HopTime(s, d, size) + h[Hop(s, d)]
    <2>1. s \in Passed(s, d) /\ Measures(part[s], Passed(s, d), d, size) /\ h[s] = part[s][s]
      BY <1>2, <1>3, PassedIs
    <2>2. CASE s = d
      BY <2>1, <2>2, MeasuresFacts
    <2>3. CASE s # d
      <3>1. PICK n, g, f : n = Hop(s, d) /\ g = part[s] /\ f = part[n]
        OBVIOUS
      <3>2. n \in Leading(d) /\ n \in Passed(s, d)
        BY <2>1, <2>3, <3>1, LeadsOn, PassedIs
      <3>3. n \in Passed(n, d) /\ Measures(f, Passed(n, d), d, size) /\ h[n] = f[n]
        BY <1>2, <1>3, <3>1, <3>2, PassedIs
      <3>4. g[n] = f[n]
        BY <2>1, <3>1, <3>2, <3>3, PartsAgree
      <3>5. g[s] = HopTime(s, d, size) + g[n]
        BY <2>1, <2>3, <3>1, MeasuresFacts
      <3> QED
        BY <2>1, <2>3, <3>1, <3>3, <3>4, <3>5
    <2> QED
      BY <2>2, <2>3
  <1>5. h = [s \in Leading(d) |-> h[s]]
    BY <1>3
  <1>6. Measures(h, Leading(d), d, size)
    BY <1>4, <1>5 DEF Measures
  <1> QED
    BY <1>6

\* The time of a hop is a number.
LEMMA HopTimeType ==
  ASSUME NEW d \in Switches, NEW s \in Switches, s # d, NEW size \in Nat
  PROVE  HopTime(s, d, size) \in Nat
  <1>1. PICK port : port = Route[s][d].port_id
    OBVIOUS
  <1>2. port \in DOMAIN Bandwidths[s]
    BY <1>1, RouteAssumption DEF Bandwidths
  <1>3. PICK ticks \in Nat : ticks = Bandwidths[s][port]
    BY <1>2, TimeAssumption
  <1>4. PICK bits \in Nat : bits = size * BitsPerByte
    BY DEF BitsPerByte
  <1>5. PICK delay \in Nat : delay = bits * ticks
    OBVIOUS
  <1>6. HopTime(s, d, size) = delay + PropagationDelay
    BY <1>1, <1>3, <1>4, <1>5 DEF HopTime
  <1> QED
    BY <1>6, TimeAssumption

(***************************************************************************)
(* Every way that leads to its end has a time, however long it is: nothing *)
(* from the end, and a hop more than from the next switch.                 *)
(***************************************************************************)
THEOREM PathTimeAddsHops ==
  ASSUME NEW d \in Switches, NEW size \in Nat
  PROVE  /\ PathTime(d, d, size) = 0
         /\ \A s \in Leading(d) : PathTime(s, d, size) \in Int
         /\ \A s \in Leading(d) \ {d} :
              PathTime(s, d, size) = HopTime(s, d, size) + PathTime(Hop(s, d), d, size)
  <1>1. PICK f : f = CHOOSE g : Measures(g, Leading(d), d, size)
    OBVIOUS
  <1>2. Measures(f, Leading(d), d, size)
    BY <1>1, WholeExists
  <1>3. \A s : PathTime(s, d, size) = f[s]
    BY <1>1 DEF PathTime, Measures, Leading, Hop
  <1>4. d \in Leading(d)
    BY WayBegins, LeadsIsPasses DEF Leading
  <1>5. f[d] = 0 /\ \A s \in Leading(d) : s # d => f[s] = HopTime(s, d, size) + f[Hop(s, d)]
    BY <1>2, <1>4, MeasuresFacts
  <1>6. ASSUME NEW s \in Leading(d), f[s] \notin Int PROVE FALSE
    <2>1. PICK X : X = {z \in Leading(d) : f[z] \notin Int}
      OBVIOUS
    <2>2. s \in X /\ X \in SUBSET Switches /\ Leads(s, d)
      BY <1>6, <2>1 DEF Leading
    <2>3. ASSUME NEW z \in X \ {d} PROVE Hop(z, d) \in X
      <3>1. z \in Leading(d) /\ z # d /\ z \in Switches /\ f[z] \notin Int
        BY <2>1 DEF Leading
      <3>2. PICK t \in Nat : t = HopTime(z, d, size)
        BY <3>1, HopTimeType
      <3>3. PICK n : n = Hop(z, d)
        OBVIOUS
      <3>4. f[z] = t + f[n] /\ n \in Leading(d)
        BY <1>5, <3>1, <3>2, <3>3, LeadsOn
      <3>5. f[n] \notin Int
        BY ONLY <3>1, <3>4
      <3> QED
        BY <2>1, <3>3, <3>4, <3>5
    <2>4. d \in X
      BY <2>2, <2>3, WayInduction
    <2> QED
      BY <1>5, <2>1, <2>4
  <1> QED
    BY <1>3, <1>5, <1>6
-----------------------------------------------------------------------------
(* The delays.  A bucket is never asked for a time that is over, as long   *)
(* as it has not earned a whole word of tokens at once.                    *)
EndsInTime ==
  \A s \in Switches : \A port \in PortsOf(s) : g_tw_ts_end <= WordSize * Bandwidths[s][port]

LaterBucket == [tokens : Int, last_update_time : Nat]

LEMMA BucketDue ==
  ASSUME NEW s, NEW b \in LaterBucket, NEW now \in Nat, NEW ticks \in Nat \ {0}, NEW size \in Nat,
         now < WordSize * ticks
  PROVE  /\ S(s)!Refill(b, now, ticks) \in LaterBucket
         /\ S(s)!Consume(b, size, now, ticks) \in LaterBucket
         /\ S(s)!NextAvailableTime(b, size, ticks) \in Nat
         /\ ~ S(s)!Ready(S(s)!Refill(b, now, ticks), size) =>
              now <= S(s)!NextAvailableTime(S(s)!Refill(b, now, ticks), size, ticks)
  <1> USE DEF LaterBucket
  <1>1. PICK t \in Int, last \in Nat : t = b.tokens /\ last = b.last_update_time
    OBVIOUS
  <1>2. PICK earned : earned = S(s)!Earned(last, now, ticks)
    OBVIOUS
  <1>3. earned = Earned(last, now, ticks)
    BY <1>2 DEF S!Earned, Earned
  <1>4. earned \in Int /\ earned >= 0
    <2>1. PICK whole \in Int : whole = (now - last) \div ticks
      OBVIOUS
    <2>2. /\ whole % WordSize \in Int /\ whole % WordSize >= 0
          /\ (whole - 1) % WordSize \in Int /\ (whole - 1) % WordSize >= 0
      BY WordAssumption
    <2> QED
      BY <1>2, <2>1, <2>2 DEF S!Earned
  <1>5. earned = 0 => now <= last + ticks
    <2>1. CASE now <= last
      BY <2>1
    <2>2. CASE now > last
      <3>1. last <= now /\ now - last < WordSize * ticks
        BY <2>2, WordAssumption
      <3>2. ASSUME Earned(last, now, ticks) = 0 PROVE now - last <= ticks
        BY ONLY <3>1, <3>2, EarnedNothing, last \in Nat, now \in Nat, ticks \in Nat \ {0}
      <3> QED
        BY <1>3, <3>2
    <2> QED
      BY <2>1, <2>2
  <1>6. PICK t2 \in Int, last2 \in Nat :
          /\ S(s)!Refill(b, now, ticks) = [tokens |-> t2, last_update_time |-> last2]
          /\ last2 = now \/ now <= last2 + ticks
    <2>1. S(s)!Least(t + earned, Capacity) \in Int
      BY <1>4, CapacityAssumption DEF S!Least
    <2>2. PICK last3 : last3 = S(s)!UpdateTime(last, now, ticks)
      OBVIOUS
    <2>3. last3 = IF earned > 0 THEN now ELSE last
      BY <1>2, <2>2 DEF S!UpdateTime
    <2>4. last3 \in Nat /\ (last3 = now \/ now <= last3 + ticks)
      BY <1>4, <1>5, <2>3
    <2> QED
      BY <1>1, <1>2, <2>1, <2>2, <2>4 DEF S!Refill
  <1>7. S(s)!Consume(b, size, now, ticks)
          = [tokens |-> t2 - size * BitsPerByte, last_update_time |-> last2]
    BY <1>6 DEF S!Consume, S!BitsPerByte, BitsPerByte
  <1>8. PICK bits \in Nat : bits = size * BitsPerByte
    BY DEF BitsPerByte
  <1>9. ASSUME NEW tokens \in Int, tokens < bits
        PROVE  (bits - tokens) * ticks \in Nat /\ (bits - tokens) * ticks >= ticks
    <2>1. PICK more \in Nat : bits - tokens = more + 1
      BY <1>9
    <2>2. (more + 1) * ticks = more * ticks + ticks /\ more * ticks \in Nat
      OBVIOUS
    <2> QED
      BY <2>1, <2>2
  <1>10. S(s)!NextAvailableTime(b, size, ticks) \in Nat
    <2>1. CASE bits <= t
      BY <1>1, <1>8, <2>1 DEF S!NextAvailableTime, S!Ready, S!BitsPerByte, BitsPerByte
    <2>2. CASE t < bits
      <3>1. PICK wait \in Nat : wait = (bits - t) * ticks
        BY <1>9, <2>2
      <3>2. S(s)!NextAvailableTime(b, size, ticks) = last + wait
        BY <1>1, <1>8, <2>2, <3>1 DEF S!NextAvailableTime, S!Ready, S!BitsPerByte, BitsPerByte
      <3> QED
        BY <3>2
    <2> QED
      BY <2>1, <2>2
  <1>11. ASSUME ~ S(s)!Ready(S(s)!Refill(b, now, ticks), size)
         PROVE  now <= S(s)!NextAvailableTime(S(s)!Refill(b, now, ticks), size, ticks)
    <2>1. t2 < bits
      BY <1>6, <1>8, <1>11 DEF S!Ready, S!BitsPerByte, BitsPerByte
    <2>2. PICK wait \in Nat : wait = (bits - t2) * ticks /\ wait >= ticks
      BY <1>9, <2>1
    <2>3. S(s)!NextAvailableTime(S(s)!Refill(b, now, ticks), size, ticks) = last2 + wait
      BY <1>6, <1>8, <2>1, <2>2 DEF S!NextAvailableTime, S!Ready, S!BitsPerByte, BitsPerByte
    <2> QED
      BY <1>6, <2>2, <2>3
  <1>12. t2 - size * BitsPerByte \in Int
    BY DEF BitsPerByte
  <1> QED
    BY <1>6, <1>7, <1>10, <1>11, <1>12

\* What is sent is due at this time or later, and what is waited for, at a port
\* that is free at the time free, is not sent before both times.
IsDue(s, port, now, free, free2, f) ==
  /\ f.at \in Nat
  /\ f.type = "ARRIVE" =>
       f.at >= Most(now, free) + HopTime(s, f.packet.dest, f.packet.size)
  /\ f.type = "SEND" =>
       /\ {"type", "port", "at"} \subseteq DOMAIN f /\ f.port = port
       /\ Most(f.at, free2) >= Most(now, free)

\* The buckets of a switch.
BucketsOK(s, buckets) == \A port \in PortsOf(s) : buckets[port] \in LaterBucket

\* The switch that is loaded sends nothing too early.
Due(s, port, now, sent) ==
  /\ BucketsOK(s, shapers')
  /\ \A f \in sent :
       IsDue(s, port, now, ports_available_time[port], ports_available_time'[port], f)

\* What a port does with its bucket.
LEMMA PortDue ==
  ASSUME NEW s \in Switches, EndsInTime, NEW port \in PortsOf(s),
         NEW now \in Nat, now < g_tw_ts_end, NEW size \in Nat, g_tw_ts_end \in Nat,
         shapers \in [PortsOf(s) -> TimedBucket], BucketsOK(s, shapers),
         NEW b, b = S(s)!Refilled(port, now), NEW c, c = S(s)!Consume(b, size, now, Bandwidths[s][port])
  PROVE  /\ BucketsOK(s, [shapers EXCEPT ![port] = b]) /\ BucketsOK(s, [shapers EXCEPT ![port] = c])
         /\ \A other \in Nat :
              S(s)!NextAvailableTime(c, other, Bandwidths[s][port]) \in Nat
         /\ S(s)!NextAvailableTime(b, size, Bandwidths[s][port]) \in Nat
         /\ ~ S(s)!Ready(b, size) => now <= S(s)!NextAvailableTime(b, size, Bandwidths[s][port])
  <1>1. PICK N, sh, ticks : N = PortsOf(s) /\ sh = shapers /\ ticks = Bandwidths[s][port]
    OBVIOUS
  <1>2. ticks \in Nat \ {0}
    <2>1. DOMAIN Bandwidths[s] = PortsOf(s)
      BY DEF Bandwidths, PortsOf
    <2> QED
      BY <1>1, <2>1, TimeAssumption
  <1>3. now < WordSize * ticks
    <2>1. PICK word \in Nat : word = WordSize * ticks
      BY <1>2, WordAssumption
    <2>2. g_tw_ts_end <= word
      BY <1>1, <2>1 DEF EndsInTime
    <2> QED
      BY <2>1, <2>2
  <1>4. sh[port] \in LaterBucket /\ b = S(s)!Refill(sh[port], now, ticks)
    BY <1>1 DEF BucketsOK, S!Refilled
  <1>5. /\ b \in LaterBucket
        /\ ~ S(s)!Ready(b, size) => now <= S(s)!NextAvailableTime(b, size, ticks)
    BY <1>2, <1>3, <1>4, BucketDue
  <1>6. c \in LaterBucket /\ S(s)!NextAvailableTime(b, size, ticks) \in Nat
    BY <1>1, <1>2, <1>3, <1>5, BucketDue
  <1>7. \A other \in Nat : S(s)!NextAvailableTime(c, other, ticks) \in Nat
    BY <1>2, <1>3, <1>6, BucketDue
  <1>8. ASSUME NEW x \in LaterBucket PROVE BucketsOK(s, [sh EXCEPT ![port] = x])
    <2>1. sh \in [N -> TimedBucket] /\ \A q \in N : sh[q] \in LaterBucket
      BY <1>1 DEF BucketsOK
    <2>2. \A q \in N : [sh EXCEPT ![port] = x][q] \in LaterBucket
      BY ONLY <2>1, <1>8
    <2> QED
      BY <1>1, <2>2 DEF BucketsOK
  <1> QED
    BY <1>1, <1>5, <1>6, <1>7, <1>8

\* The switch s, at this time.
AtTime(s, now) ==
  /\ SentRouted /\ SentSized /\ EndsInTime /\ s \in Switches
  /\ now \in Nat /\ g_tw_ts_end \in Nat /\ now < g_tw_ts_end
  /\ TimesOK(s, shapers, ports_available_time) /\ BucketsOK(s, shapers)

\* A port that sends its next packet.
LEMMA SendingDue ==
  ASSUME NEW s, NEW now, AtTime(s, now), NEW port \in PortsOf(s),
         NEW qs, QueuesOK(s, qs), Backlogged(qs, port),
         NEW hop, NEW ds, S(s)!SendNextPacket(qs, ds, port, now)
  PROVE  /\ Due(s, port, now, {S(s)!Departure(qs, port, hop, now)})
         /\ ports_available_time'[port] >= Most(now, ports_available_time[port])
         /\ ports_available_time'[port] \in Int
         /\ \A size \in Nat :
              S(s)!NextAvailableTime(shapers'[port], size, Bandwidths[s][port]) \in Nat
  <1>1. PICK N, sh, av, ticks, sh2, av2, n, d :
          /\ N = PortsOf(s) /\ sh = shapers /\ av = ports_available_time
          /\ ticks = Bandwidths[s][port] /\ sh2 = shapers' /\ av2 = ports_available_time'
          /\ n = NextPacket(qs, port) /\ d = S(s)!Departure(qs, port, hop, now)
    OBVIOUS
  <1>2. /\ sh \in [N -> TimedBucket] /\ av \in [N -> Int] /\ port \in N /\ now \in Nat
        /\ s \in Switches
    BY <1>1 DEF AtTime, TimesOK, TimedBucket
  <1>3. n \in Sent /\ PortOf(s, n) = port
    BY <1>1, NextWaits DEF AtTime
  <1>4. PICK size \in Nat \ {0} : size = n.size
    BY <1>3 DEF AtTime, SentSized
  <1>5. ticks \in Nat \ {0}
    <2>1. DOMAIN Bandwidths[s] = PortsOf(s)
      BY <1>2 DEF Bandwidths, PortsOf
    <2> QED
      BY <1>1, <1>2, <2>1, TimeAssumption
  <1>6. S(s)!NextPacket(qs, port) = n
    BY <1>1, SameParts
  <1>7. PICK b, t : /\ b = S(s)!Consume(S(s)!Refilled(port, now), size, now, ticks)
                    /\ t = S(s)!InjectedAt(qs, port, now)
    OBVIOUS
  <1>8. sh2 = [sh EXCEPT ![port] = b] /\ av2 = [av EXCEPT ![port] = t]
    BY <1>1, <1>4, <1>6, <1>7 DEF S!SendNextPacket
  <1>9. /\ BucketsOK(s, sh2)
        /\ \A other \in Nat : S(s)!NextAvailableTime(b, other, ticks) \in Nat
    <2>1. shapers \in [PortsOf(s) -> TimedBucket]
      BY <1>1, <1>2
    <2>2. PICK r : r = S(s)!Refilled(port, now)
      OBVIOUS
    <2>3. b = S(s)!Consume(r, size, now, Bandwidths[s][port]) /\ size \in Nat
      BY <1>1, <1>7, <2>2
    <2>4. /\ BucketsOK(s, [shapers EXCEPT ![port] = b])
          /\ \A other \in Nat : S(s)!NextAvailableTime(b, other, Bandwidths[s][port]) \in Nat
      BY <2>1, <2>2, <2>3, PortDue DEF AtTime
    <2> QED
      BY <1>1, <1>8, <2>4
  <1>10. PICK bits \in Nat \ {0} : bits = size * BitsPerByte
    BY <1>4 DEF BitsPerByte
  <1>11. PICK delay \in Nat : delay = bits * ticks
    BY <1>5, <1>10
  <1>12. PICK a \in Int : a = av[port]
    BY <1>2
  <1>13. PICK m \in Int : m = Most(now, a) /\ m >= now
    BY <1>2 DEF Most
  <1>14. t = m + delay
    <2>1. S(s)!Most(now, a) = Most(now, a)
      BY DEF S!Most, Most
    <2> QED
      BY <1>1, <1>4, <1>6, <1>7, <1>10, <1>11, <1>12, <1>13, <2>1
      DEF S!InjectedAt, S!InjectionDelay, S!BitsPerByte, BitsPerByte
  <1>15. /\ d.type = "ARRIVE" /\ d.packet = n /\ d.at = t + PropagationDelay
    BY <1>1, <1>6, <1>7 DEF S!Departure
  <1>16. HopTime(s, n.dest, n.size) = delay + PropagationDelay
    BY <1>1, <1>3, <1>4, <1>10, <1>11 DEF HopTime, PortOf
  <1>17. d.at \in Nat /\ d.at >= m + HopTime(s, n.dest, n.size)
    BY <1>2, <1>13, <1>14, <1>15, <1>16, TimeAssumption
  <1>18. IsDue(s, port, now, a, av2[port], d)
    BY <1>13, <1>15, <1>17 DEF IsDue
  <1>19. av2[port] = t /\ sh2[port] = b
    BY <1>2, <1>8
  <1>20. t >= m /\ t \in Int
    BY <1>13, <1>14
  <1>21. Due(s, port, now, {d})
    BY <1>1, <1>9, <1>12, <1>18 DEF Due
  <1> QED
    BY <1>1, <1>9, <1>12, <1>13, <1>19, <1>20, <1>21

\* A port that puts its next packet off.
LEMMA WaitingDue ==
  ASSUME NEW s, NEW now, AtTime(s, now), NEW port \in PortsOf(s),
         NEW qs, QueuesOK(s, qs), Backlogged(qs, port), ~ S(s)!ReadyToSend(qs, port, now),
         shapers' = [shapers EXCEPT ![port] = S(s)!Refilled(port, now)],
         ports_available_time' = ports_available_time
  PROVE  Due(s, port, now, {S(s)!Wakeup(S(s)!Refilled(port, now), qs, port)})
  <1>1. PICK b, n, f, ticks : /\ b = S(s)!Refilled(port, now) /\ n = NextPacket(qs, port)
                              /\ f = S(s)!Wakeup(b, qs, port) /\ ticks = Bandwidths[s][port]
    OBVIOUS
  <1>2. n \in Sent
    BY <1>1, NextWaits DEF AtTime
  <1>3. PICK size \in Nat \ {0} : size = n.size
    BY <1>2 DEF AtTime, SentSized
  <1>4. S(s)!NextPacket(qs, port) = n
    BY <1>1, SameParts
  <1>5. f = [type |-> "SEND", port |-> port, at |-> S(s)!NextAvailableTime(b, size, ticks)]
    BY <1>1, <1>3, <1>4 DEF S!Wakeup
  <1>6. ~ S(s)!Ready(b, size)
    BY <1>1, <1>3, <1>4 DEF S!ReadyToSend
  <1>7. /\ BucketsOK(s, [shapers EXCEPT ![port] = b])
        /\ S(s)!NextAvailableTime(b, size, ticks) \in Nat
        /\ now <= S(s)!NextAvailableTime(b, size, ticks)
    <2>1. PICK c : c = S(s)!Consume(b, size, now, Bandwidths[s][port])
      OBVIOUS
    <2>2. shapers \in [PortsOf(s) -> TimedBucket] /\ size \in Nat
      BY DEF AtTime, TimesOK, TimedBucket
    <2> QED
      BY <1>1, <1>6, <2>1, <2>2, PortDue DEF AtTime
  <1>8. PICK a \in Int : a = ports_available_time[port]
    BY DEF AtTime, TimesOK
  <1>9. PICK t \in Nat : t = S(s)!NextAvailableTime(b, size, ticks) /\ now <= t /\ f.at = t
    BY <1>5, <1>7
  <1>10. Most(t, a) >= Most(now, a)
    BY <1>8, <1>9 DEF Most, AtTime
  <1>11. {"type", "port", "at"} \subseteq DOMAIN f /\ f.port = port /\ f.type = "SEND"
    BY <1>5
  <1>12. IsDue(s, port, now, a, a, f)
    BY <1>9, <1>10, <1>11 DEF IsDue
  <1> QED
    BY <1>1, <1>7, <1>8, <1>12 DEF Due

\* A switch that handles an ARRIVE event, and one that handles a SEND event.
LEMMA ArriveDue ==
  ASSUME NEW s, NEW now, AtTime(s, now), NEW p, S(s)!Arrive(p, now),
         p.dest # s => Routed(s, p), QueuesOK(s, queues),
         p.pid \notin WaitingAt(queues, QueuesOf(s))
  PROVE  Due(s, PortOf(s, p), now, done'.sent)
  <1>1. CASE S(s)!ArriveFinal(p, now) \/ S(s)!ArriveDropped(p, now)
    <2>1. shapers' = shapers /\ done'.sent = {}
      <3>1. CASE S(s)!ArriveFinal(p, now)
        BY <3>1 DEF S!ArriveFinal, S!arrays, S!ports
      <3>2. CASE S(s)!ArriveDropped(p, now)
        BY <3>2 DEF S!ArriveDropped, S!ports
      <3> QED
        BY <1>1, <3>1, <3>2
    <2>2. \A port \in PortsOf(s) : shapers'[port] \in LaterBucket
      BY <2>1 DEF AtTime, BucketsOK
    <2> QED
      BY <2>1, <2>2 DEF Due, BucketsOK
  <1> SUFFICES ASSUME ~ S(s)!ArriveFinal(p, now), ~ S(s)!ArriveDropped(p, now)
               PROVE  Due(s, PortOf(s, p), now, done'.sent)
    BY <1>1
  <1>2. Routed(s, p) /\ s \in Switches
    BY DEF S!Arrive, S!ArriveSendsNow, S!ArriveSchedulesSend, S!ArriveJoinsQueue,
           S!ArriveWaits, AtTime
  <1>3. PICK port, qs : port = PortOf(s, p) /\ qs = QueuedAt(s, p)
    OBVIOUS
  <1>4. S(s)!OutPort(p) = port /\ S(s)!Enqueued(p) = qs
    <2>1. S(s)!OutPort(p) = port
      BY <1>3 DEF S!OutPort, PortOf
    <2>2. S(s)!PacketMeter(p) = HomeOf(s, p)
      BY <1>3, <2>1, SameParts DEF S!PacketMeter, HomeOf, PortOf
    <2> QED
      BY <1>3, <2>1, <2>2 DEF S!Enqueued, QueuedAt
  <1>5. port \in PortsOf(s) /\ QueuesOK(s, qs) /\ Backlogged(qs, port)
    BY <1>2, <1>3, QueueIn DEF Routed
  <1>6. CASE S(s)!ArriveSendsNow(p, now)
    <2>1. PICK ds : ds = S(s)!Judged(p, now)
      OBVIOUS
    <2>2. /\ S(s)!SendNextPacket(qs, ds, port, now)
          /\ done'.sent = {S(s)!Departure(qs, port, S(s)!NextHop(p), now)}
      BY <1>4, <1>6, <2>1 DEF S!ArriveSendsNow
    <2> QED
      BY <1>3, <1>5, <2>2, SendingDue
  <1>7. ASSUME S(s)!ArriveWaits(p, now)
        PROVE  Due(s, port, now, {S(s)!Wakeup(S(s)!Refilled(port, now), qs, port)})
    <2>1. /\ shapers' = [shapers EXCEPT ![port] = S(s)!Refilled(port, now)]
          /\ ports_available_time' = ports_available_time
          /\ ~ S(s)!ReadyToSend(qs, port, now)
      BY <1>4, <1>7 DEF S!ArriveWaits
    <2> QED
      BY <1>5, <2>1, WaitingDue
  <1>8. CASE S(s)!ArriveSchedulesSend(p, now)
    <2>1. /\ S(s)!ArriveWaits(p, now)
          /\ done'.sent = {S(s)!Wakeup(S(s)!Refilled(port, now), qs, port)}
      BY <1>4, <1>8 DEF S!ArriveSchedulesSend
    <2> QED
      BY <1>3, <1>7, <2>1
  <1>9. CASE S(s)!ArriveJoinsQueue(p, now)
    <2>1. S(s)!ArriveWaits(p, now) /\ done'.sent = {}
      BY <1>9 DEF S!ArriveJoinsQueue
    <2> QED
      BY <1>7, <2>1 DEF Due
  <1> QED
    BY <1>6, <1>8, <1>9 DEF S!Arrive

LEMMA SendDue ==
  ASSUME NEW s, NEW now, AtTime(s, now), NEW port \in PortsOf(s), S(s)!Send(port, now),
         QueuesOK(s, queues)
  PROVE  Due(s, port, now, done'.sent)
  <1>1. Backlogged(queues, port) /\ s \in Switches
    BY SameParts DEF S!Send, S!SendLast, S!SendOneOfMany, S!SendPostponed, AtTime
  <1>2. PICK d : d = S(s)!OwnDeparture(port, now)
    OBVIOUS
  <1>3. ASSUME S(s)!SendNextPacket(queues, droppers, port, now)
        PROVE  /\ Due(s, port, now, {d})
               /\ ports_available_time'[port] >= Most(now, ports_available_time[port])
               /\ ports_available_time'[port] \in Int
               /\ \A size \in Nat :
                    S(s)!NextAvailableTime(shapers'[port], size, Bandwidths[s][port]) \in Nat
    BY <1>1, <1>2, <1>3, SendingDue DEF S!OwnDeparture
  <1>4. CASE S(s)!SendLast(port, now)
    <2>1. S(s)!SendNextPacket(queues, droppers, port, now) /\ done'.sent = {d}
      BY <1>2, <1>4 DEF S!SendLast
    <2> QED
      BY <1>3, <2>1
  <1>5. CASE S(s)!SendOneOfMany(port, now)
    <2>1. PICK qs, f, b, a, a2 : /\ qs = Serve(queues, port) /\ b = shapers'[port]
                                 /\ f = S(s)!Wakeup(b, S(s)!Serve(queues, port), port)
                                 /\ a = ports_available_time[port]
                                 /\ a2 = ports_available_time'[port]
      OBVIOUS
    <2>2. /\ S(s)!SendNextPacket(queues, droppers, port, now) /\ done'.sent = {d, f}
          /\ Backlogged(qs, port)
      BY <1>2, <1>5, <2>1, SameParts DEF S!SendOneOfMany
    <2>3. PICK size \in Nat : size = NextPacket(qs, port).size
      <3>1. QueuesOK(s, qs)
        BY <1>1, <2>1, QueueOut
      <3>2. NextPacket(qs, port) \in Sent
        BY <1>1, <2>2, <3>1, QueueOut
      <3> QED
        BY <3>2 DEF AtTime, SentSized
    <2>4. f = [type |-> "SEND", port |-> port,
               at |-> S(s)!NextAvailableTime(b, size, Bandwidths[s][port])]
      BY <2>1, <2>3, SameParts DEF S!Wakeup
    <2>5. PICK t \in Nat : t = S(s)!NextAvailableTime(b, size, Bandwidths[s][port])
      BY <1>3, <2>1, <2>2
    <2>6. f.type = "SEND" /\ f.at = t /\ {"type", "port", "at"} \subseteq DOMAIN f /\ f.port = port
      BY <2>4, <2>5
    <2>7. a2 \in Int /\ a2 >= Most(now, a) /\ Most(now, a) \in Int
      <3>1. a2 \in Int /\ a2 >= Most(now, a)
        BY <1>3, <2>1, <2>2
      <3>2. a \in Int /\ now \in Int
        BY <2>1 DEF AtTime, TimesOK
      <3> QED
        BY <3>1, <3>2 DEF Most
    <2>8. Most(t, a2) >= Most(now, a)
      BY ONLY <2>7, t \in Nat DEF Most
    <2>9. IsDue(s, port, now, a, a2, f)
      BY <2>5, <2>6, <2>8 DEF IsDue
    <2>10. BucketsOK(s, shapers') /\ IsDue(s, port, now, a, a2, d)
      BY <1>3, <2>1, <2>2 DEF Due
    <2> QED
      BY <2>1, <2>2, <2>9, <2>10 DEF Due
  <1>6. CASE S(s)!SendPostponed(port, now)
    <2>1. /\ shapers' = [shapers EXCEPT ![port] = S(s)!Refilled(port, now)]
          /\ ports_available_time' = ports_available_time
          /\ ~ S(s)!ReadyToSend(queues, port, now)
          /\ done'.sent = {S(s)!Wakeup(S(s)!Refilled(port, now), queues, port)}
      BY <1>6 DEF S!SendPostponed, S!Postponed, S!ports
    <2> QED
      BY <1>1, <2>1, WaitingDue
  <1> QED
    BY <1>4, <1>5, <1>6 DEF S!Send

\* What is sent is delivered when the handler says.
LEMMA AddressedDue ==
  ASSUME NEW s, s = current, NEW port, NEW now, Due(s, port, now, done'.sent),
         NEW T, T = {Addressed(f) : f \in done'.sent},
         \A f \in done'.sent : f.type \in {"ARRIVE", "SEND"}
  PROVE  /\ Due(s, port, now, T)
         /\ \A f \in T : f.type = "ARRIVE" => f \in done'.sent
         /\ \A f \in T : f.type # "ARRIVE" => f.type = "SEND" /\ f.to = s
  <1>1. PICK a, a2 : a = ports_available_time[port] /\ a2 = ports_available_time'[port]
    OBVIOUS
  <1>2. ASSUME NEW f \in done'.sent, NEW g, g = Addressed(f)
        PROVE  /\ IsDue(s, port, now, a, a2, g)
               /\ g.type = "ARRIVE" => g \in done'.sent
               /\ g.type # "ARRIVE" => g.type = "SEND" /\ g.to = s
    <2>1. IsDue(s, port, now, a, a2, f)
      BY <1>1 DEF Due
    <2>2. CASE f.type = "ARRIVE"
      <3>1. g = f
        BY <1>2, <2>2 DEF Addressed
      <3> QED
        BY <2>1, <2>2, <3>1
    <2>3. CASE f.type = "SEND"
      <3>1. g = [y \in DOMAIN f \cup {"to"} |-> IF y = "to" THEN s ELSE f[y]]
        BY <1>2, <2>3 DEF Addressed, Extended
      <3>2. {"type", "port", "at"} \subseteq DOMAIN f
        BY <2>1, <2>3 DEF IsDue
      <3>3. g["to"] = s /\ g["port"] = f["port"] /\ g["at"] = f["at"]
            /\ {"type", "port", "at"} \subseteq DOMAIN g
        BY <3>1, <3>2
      <3>4. g["type"] = "SEND"
        <4>1. WakesUp(f, f.port)
          BY <2>3, <3>2 DEF WakesUp
        <4> QED
          BY <1>2, <4>1, AddressedFacts DEF WakesUpAt
      <3> QED
        BY <2>1, <2>3, <3>3, <3>4 DEF IsDue
    <2> QED
      BY <2>2, <2>3
  <1>3. \A f \in T : IsDue(s, port, now, a, a2, f)
    BY <1>2
  <1> QED
    BY <1>1, <1>2, <1>3 DEF Due
-----------------------------------------------------------------------------
(***************************************************************************)
(* No packet is early.  The earliest that p can be at w is its send time   *)
(* and the time from its source to w; and an event, if it is the turn of a *)
(* port that is still sending, has its turn when the port is free.         *)
(***************************************************************************)
Soonest(p, w) ==
  p.send_time + PathTime(From(p), p.dest, p.size) - PathTime(w, p.dest, p.size)

Turn(f, A) == IF f.type = "ARRIVE" THEN f.at ELSE Most(f.at, A[f.to][f.port])

WaitsAt(Q, p, w) == \E i \in DOMAIN Q[w] : \E k \in DOMAIN Q[w][i] : Q[w][i][k] = p

\* A packet does not arrive early; where it waits, no event has its turn before
\* the packet can be there; and its record says that it took its time.
Delayed(L, Q, R, A) ==
  \A p \in Sent : \A w \in Switches : Leads(From(p), p.dest) =>
    /\ \A e \in L : e.type = "ARRIVE" /\ e.packet = p /\ e.to = w => Soonest(p, w) <= e.at
    /\ WaitsAt(Q, p, w) => \A f \in L : Soonest(p, w) <= Turn(f, A)
    /\ \A j \in DOMAIN R[w] : R[w][j].pid = p.pid /\ ~ R[w][j].drop =>
         R[w][j].delay >= PathTime(From(p), p.dest, p.size)

\* The packet waits, or it is the one that arrives.
Held(e, Q, p, w) ==
  WaitsAt(Q, p, w) \/ (e.type = "ARRIVE" /\ e.packet = p /\ e.to = w)

\* The event e is handled at the time M or before, and L2 is left of the
\* events L and the events T that it sends.
Turns(e, M, L, T, L2, A, A2) ==
  /\ e \in L /\ e.at \in Int /\ M \in Int /\ L2 \subseteq L \cup T
  /\ Turn(e, A) <= M /\ e.at <= M
  /\ \A f \in L : /\ f.at \in Int /\ Turn(f, A) \in Int /\ Turn(f, A2) \in Int
                  /\ e.at <= Turn(f, A) /\ Turn(f, A) <= Turn(f, A2)
  /\ \A f \in T : f.at \in Int /\ Turn(f, A2) \in Int /\ M <= Turn(f, A2)

\* What goes on has been held, and what is recorded is what has arrived.
GoOn(e, M, T, Q, Q2, R, R2) ==
  /\ \A d \in T : d.type = "ARRIVE" =>
       \E w \in Switches :
         /\ d.packet \in Sent /\ Held(e, Q, d.packet, w) /\ w # d.packet.dest
         /\ d.to = Hop(w, d.packet.dest)
         /\ d.at >= M + HopTime(w, d.packet.dest, d.packet.size)
  /\ \A p \in Sent : \A w \in Switches : WaitsAt(Q2, p, w) => Held(e, Q, p, w)
  /\ \A p \in Sent : \A w \in Switches : \A j \in DOMAIN R2[w] :
       R2[w][j].pid = p.pid /\ ~ R2[w][j].drop =>
         \/ \E i \in DOMAIN R[w] : R[w][i] = R2[w][j]
         \/ /\ e.type = "ARRIVE" /\ e.packet = p /\ e.to = w /\ p.dest = w
            /\ R2[w][j].delay = e.at - p.send_time

\* What is on its way leads on, and the time that it needs is a number.
LEMMA SoonestIs ==
  ASSUME FlowSetting, SentSized, NEW p \in Sent, Leads(From(p), p.dest),
         NEW w \in Switches, Passes(From(p), w, p.dest)
  PROVE  /\ p.dest \in Switches /\ p.size \in Nat /\ p.send_time \in Int
         /\ w \in Leading(p.dest) /\ Soonest(p, w) \in Int
         /\ PathTime(From(p), p.dest, p.size) \in Int
         /\ w = p.dest => Soonest(p, w) = p.send_time + PathTime(From(p), p.dest, p.size)
         /\ w # p.dest =>
              /\ HopTime(w, p.dest, p.size) \in Nat
              /\ Soonest(p, Hop(w, p.dest)) = Soonest(p, w) + HopTime(w, p.dest, p.size)
  <1>1. PICK d, size, from, sent : /\ d = p.dest /\ size = p.size /\ from = From(p)
                                   /\ sent = p.send_time
    OBVIOUS
  <1>2. d \in Switches /\ size \in Nat /\ from \in Switches /\ sent \in Int
    BY <1>1 DEF FlowSetting, SentRouted, SentSized
  <1>3. w \in Leading(d) /\ from \in Leading(d)
    <2>1. Passes(from, d, d) /\ Passes(from, w, d)
      BY <1>1, LeadsIsPasses
    <2>2. Passes(w, d, d)
      BY <1>2, <2>1, WayComesToEnd
    <2> QED
      BY <1>2, <2>1, <2>2, LeadsIsPasses DEF Leading
  <1>4. /\ PathTime(d, d, size) = 0
        /\ \A s \in Leading(d) : PathTime(s, d, size) \in Int
        /\ \A s \in Leading(d) \ {d} :
             PathTime(s, d, size) = HopTime(s, d, size) + PathTime(Hop(s, d), d, size)
    BY <1>2, PathTimeAddsHops
  <1>5. PICK whole \in Int, rest \in Int : /\ whole = PathTime(from, d, size)
                                           /\ rest = PathTime(w, d, size)
    BY <1>3, <1>4
  <1>6. Soonest(p, w) = sent + whole - rest
    BY <1>1, <1>5 DEF Soonest
  <1>7. w = d => rest = 0
    BY <1>4, <1>5
  <1>8. ASSUME w # d
        PROVE  /\ HopTime(w, d, size) \in Nat
               /\ Soonest(p, Hop(w, d)) = Soonest(p, w) + HopTime(w, d, size)
    <2>1. PICK t \in Nat : t = HopTime(w, d, size)
      BY <1>2, <1>8, HopTimeType
    <2>2. Hop(w, d) \in Leading(d)
      BY <1>2, <1>3, <1>8, LeadsOn
    <2>3. PICK rest2 \in Int : rest2 = PathTime(Hop(w, d), d, size)
      BY <1>4, <2>2
    <2>4. rest = t + rest2
      BY <1>3, <1>4, <1>5, <1>8, <2>1, <2>3
    <2>5. Soonest(p, Hop(w, d)) = sent + whole - rest2
      BY <1>1, <1>5, <2>3 DEF Soonest
    <2> QED
      BY <1>2, <1>6, <2>1, <2>4, <2>5
  <1> QED
    BY <1>1, <1>2, <1>3, <1>5, <1>6, <1>7, <1>8

\* Handling an event keeps every packet from being early.
LEMMA DelayStep ==
  ASSUME FlowSetting, SentSized,
         NEW e, NEW M, NEW L, NEW T, NEW L2, NEW Q, NEW Q2, NEW R, NEW R2, NEW A, NEW A2,
         OnItsWay({f \in L : f.type = "ARRIVE"}, Q, R), Delayed(L, Q, R, A),
         Turns(e, M, L, T, L2, A, A2), GoOn(e, M, T, Q, Q2, R, R2)
  PROVE  Delayed(L2, Q2, R2, A2)
  <1>1. /\ e \in L /\ e.at \in Int /\ M \in Int /\ L2 \subseteq L \cup T
        /\ Turn(e, A) <= M /\ e.at <= M
        /\ \A f \in L : /\ f.at \in Int /\ Turn(f, A) \in Int /\ Turn(f, A2) \in Int
                        /\ e.at <= Turn(f, A) /\ Turn(f, A) <= Turn(f, A2)
        /\ \A f \in T : f.at \in Int /\ Turn(f, A2) \in Int /\ M <= Turn(f, A2)
    BY DEF Turns
  <1>2. ASSUME NEW p \in Sent, NEW w \in Switches, Leads(From(p), p.dest), Held(e, Q, p, w)
        PROVE  /\ Passes(From(p), w, p.dest) /\ Soonest(p, w) \in Int
               /\ Soonest(p, w) <= M /\ \A f \in L : Soonest(p, w) <= Turn(f, A)
    <2>1. Lies({f \in L : f.type = "ARRIVE"}, Q, R, p, w)
      BY <1>1, <1>2 DEF Held, WaitsAt, Lies
    <2>2. Passes(From(p), w, p.dest)
      BY <2>1 DEF OnItsWay
    <2>3. PICK t \in Int : t = Soonest(p, w)
      BY <1>2, <2>2, SoonestIs
    <2>4. CASE WaitsAt(Q, p, w)
      <3>1. \A f \in L : t <= Turn(f, A)
        BY <1>2, <2>3, <2>4 DEF Delayed
      <3>2. t <= Turn(e, A)
        BY <1>1, <3>1
      <3>3. t <= M
        BY <1>1, <2>3, <3>2
      <3> QED
        BY <2>2, <2>3, <3>1, <3>3
    <2>5. CASE e.type = "ARRIVE" /\ e.packet = p /\ e.to = w
      <3>1. t <= e.at
        BY <1>1, <1>2, <2>3, <2>5 DEF Delayed
      <3>2. t <= M /\ \A f \in L : t <= Turn(f, A)
        BY <1>1, <2>3, <3>1
      <3> QED
        BY <2>2, <2>3, <3>2
    <2> QED
      BY <1>2, <2>4, <2>5 DEF Held
  <1>3. ASSUME NEW p \in Sent, NEW w \in Switches, Leads(From(p), p.dest),
               NEW d \in L2, d.type = "ARRIVE", d.packet = p, d.to = w
        PROVE  Soonest(p, w) <= d.at
    <2>1. CASE d \in L
      BY <1>3, <2>1 DEF Delayed
    <2>2. CASE d \in T
      <3>1. PICK v \in Switches : /\ Held(e, Q, p, v) /\ v # p.dest /\ w = Hop(v, p.dest)
                                  /\ d.at >= M + HopTime(v, p.dest, p.size)
        BY <1>3, <2>2 DEF GoOn
      <3>2. Passes(From(p), v, p.dest) /\ Soonest(p, v) \in Int /\ Soonest(p, v) <= M
        BY <1>2, <1>3, <3>1
      <3>3. /\ HopTime(v, p.dest, p.size) \in Nat
            /\ Soonest(p, w) = Soonest(p, v) + HopTime(v, p.dest, p.size)
        BY <1>3, <3>1, <3>2, SoonestIs
      <3>4. PICK t \in Int, hop \in Nat : t = Soonest(p, v) /\ hop = HopTime(v, p.dest, p.size)
        BY <3>2, <3>3
      <3>5. d.at \in Int /\ d.at >= M + hop /\ t <= M /\ Soonest(p, w) = t + hop
        BY <1>1, <2>2, <3>1, <3>2, <3>3, <3>4
      <3> QED
        BY <1>1, <3>4, <3>5
    <2> QED
      BY <1>1, <1>3, <2>1, <2>2
  <1>4. ASSUME NEW p \in Sent, NEW w \in Switches, Leads(From(p), p.dest), WaitsAt(Q2, p, w),
               NEW f \in L2
        PROVE  Soonest(p, w) <= Turn(f, A2)
    <2>1. Held(e, Q, p, w)
      BY <1>4 DEF GoOn
    <2>2. PICK t \in Int : /\ t = Soonest(p, w) /\ t <= M /\ \A g \in L : t <= Turn(g, A)
      BY <1>2, <1>4, <2>1
    <2>3. CASE f \in L
      BY <1>1, <2>2, <2>3
    <2>4. CASE f \in T
      BY <1>1, <2>2, <2>4
    <2> QED
      BY <1>1, <1>4, <2>3, <2>4
  <1>5. ASSUME NEW p \in Sent, NEW w \in Switches, Leads(From(p), p.dest),
               NEW j \in DOMAIN R2[w], R2[w][j].pid = p.pid, ~ R2[w][j].drop
        PROVE  R2[w][j].delay >= PathTime(From(p), p.dest, p.size)
    <2>1. CASE \E i \in DOMAIN R[w] : R[w][i] = R2[w][j]
      BY <1>5, <2>1 DEF Delayed
    <2>2. CASE /\ e.type = "ARRIVE" /\ e.packet = p /\ e.to = w /\ p.dest = w
               /\ R2[w][j].delay = e.at - p.send_time
      <3>1. Held(e, Q, p, w)
        BY <2>2 DEF Held
      <3>2. Passes(From(p), w, p.dest)
        BY <1>2, <1>5, <3>1
      <3>3. PICK time \in Int, sent \in Int :
              /\ time = PathTime(From(p), p.dest, p.size) /\ sent = p.send_time
              /\ Soonest(p, w) = sent + time
        BY <1>5, <2>2, <3>2, SoonestIs
      <3>4. sent + time <= e.at
        BY <1>1, <1>5, <2>2, <3>3 DEF Delayed
      <3> QED
        BY <1>1, <2>2, <3>3, <3>4
    <2> QED
      BY <1>5, <2>1, <2>2 DEF GoOn
  <1> QED
    BY <1>3, <1>4, <1>5 DEF Delayed
\* What a switch handles is due when it says.
LEMMA HandledDue ==
  ASSUME NEW e, NEW T, NEW s, NEW E, NEW Q, NEW R, NEW A, Handles(e, T, s, E, Q, R, A),
         AtTime(s, clock),
         NEW port, port = IF e.type = "ARRIVE" THEN PortOf(s, e.packet) ELSE e.port,
         \/ e.type = "ARRIVE" /\ S(s)!Arrive(e.packet, clock)
         \/ e.type = "SEND" /\ S(s)!Send(e.port, clock)
  PROVE  /\ Due(s, port, clock, T)
         /\ \A f \in T : f.type = "ARRIVE" => f \in done'.sent
         /\ \A f \in T : f.type # "ARRIVE" => f.type = "SEND" /\ f.to = s
  <1>1. /\ Setting(e, T) /\ s \in Switches /\ s = current
        /\ T = {Addressed(f) : f \in done'.sent}
    BY DEF Handles, FlowsAt
  <1>2. QueuesOK(s, queues)
    BY <1>1 DEF Setting
  <1>3. \A f \in done'.sent : f.type \in {"ARRIVE", "SEND"}
    <2>1. CASE e.type = "ARRIVE" /\ S(s)!Arrive(e.packet, clock)
      <3>1. PacketRecorded(s, e.packet) \/ PacketPasses(s, e.packet) \/ PacketWaits(s, e.packet)
        BY <2>1, ArriveDoes
      <3> QED
        BY <3>1 DEF PacketRecorded, PacketPasses, PacketWaits, TakesOn, WakesUp
    <2>2. CASE e.type = "SEND" /\ S(s)!Send(e.port, clock)
      <3>1. PacketSent(s, e.port) \/ SendingPutOff(e.port)
        BY <2>2, SendDoes
      <3> QED
        BY <3>1 DEF PacketSent, SendingPutOff, TakesOn, WakesUp
    <2> QED
      BY <2>1, <2>2
  <1>4. Due(s, port, clock, done'.sent)
    <2>1. CASE e.type = "ARRIVE" /\ S(s)!Arrive(e.packet, clock)
      <3>1. S(s)!Arrive(e.packet, clock) /\ port = PortOf(s, e.packet)
        BY <2>1
      <3>2. e.packet.dest # s => Routed(s, e.packet)
        BY <1>1, <2>1, ArrivalFacts
      <3>3. e.packet.pid \notin WaitingAt(queues, QueuesOf(s))
        <4>1. PICK W, RP, O, All : /\ W = WaitingPids /\ RP = RecordedPids
                                   /\ O = MovingPids /\ All = Pids(Sent)
          OBVIOUS
        <4>2. Apart(W, RP, O, All)
          BY <1>1, <4>1 DEF Setting
        <4>3. e.packet.pid \in O /\ W[s] = WaitingAt(queues, QueuesOf(s))
          BY <1>1, <2>1, <4>1, SettingFacts, OwnPids
        <4> QED
          BY <1>1, <4>2, <4>3, ApartFacts
      <3> QED
        BY <1>2, <3>1, <3>2, <3>3, ArriveDue
    <2>2. CASE e.type = "SEND" /\ S(s)!Send(e.port, clock)
      <3>1. S(s)!Send(port, clock) /\ port = e.port
        BY <2>2
      <3>2. port \in PortsOf(s)
        BY <1>1, <2>2, <3>1, SettingFacts
      <3> QED
        BY <1>2, <3>1, <3>2, SendDue
    <2> QED
      BY <2>1, <2>2
  <1> QED
    BY <1>1, <1>3, <1>4, AddressedDue

\* A new record is what was recorded.
LEMMA RecordSays ==
  ASSUME NEW st, RecordsOK(st), NEW pid, NEW delay, NEW drop,
         NEW st2, st2 = UpdateStats(st, pid, delay, drop), NEW j \in DOMAIN st2.records
  PROVE  \/ \E i \in DOMAIN st.records : st.records[i] = st2.records[j]
         \/ /\ st2.records[j].pid = pid /\ st2.records[j].delay = delay
            /\ st2.records[j].drop = drop
  <1>1. PICK rs, a, b, X :
          /\ rs = st.records /\ a = st.num_packets_recvd /\ b = st.num_packets_dropped
          /\ X = {rs[i] : i \in DOMAIN rs}
    OBVIOUS
  <1>2. rs \in Seq(X) /\ a \in Nat /\ b \in Nat /\ Len(rs) = a + b
    BY <1>1 DEF RecordsOK
  <1>3. PICK r, Y, n : /\ r = [pid |-> pid, delay |-> delay, drop |-> drop]
                       /\ Y = X \cup {r} /\ n = Len(rs) + 1
    OBVIOUS
  <1>4. PICK rs2 : rs2 = Append(rs, r)
    OBVIOUS
  <1>5. rs \in Seq(Y) /\ r \in Y
    BY <1>2, <1>3
  <1>6. /\ DOMAIN rs2 = DOMAIN rs \cup {n} /\ rs2[n] = r
        /\ \A i \in DOMAIN rs : rs2[i] = rs[i]
    BY <1>3, <1>4, <1>5, AppendFacts
  <1>7. SubSeq(rs, 1, a + b) \o <<r>> = rs2
    <2>1. SubSeq(rs, 1, Len(rs)) = rs
      BY <1>2
    <2>2. rs \o <<r>> = Append(rs, r)
      BY <1>5
    <2> QED
      BY <1>2, <1>4, <2>1, <2>2
  <1>8. st2.records = rs2
    BY <1>1, <1>3, <1>7 DEF UpdateStats, RecordsOK
  <1>9. r.pid = pid /\ r.delay = delay /\ r.drop = drop
    BY ONLY <1>3
  <1> QED
    BY <1>1, <1>6, <1>8, <1>9

\* The delay in a record is the time since the packet was sent.
LEMMA HandledRecords ==
  ASSUME NEW e, NEW T, Setting(e, T), NEW s, s = current,
         \/ e.type = "ARRIVE" /\ S(s)!Arrive(e.packet, clock)
         \/ e.type = "SEND" /\ S(s)!Send(e.port, clock),
         NEW j \in DOMAIN stats'.records, ~ stats'.records[j].drop
  PROVE  \/ \E i \in DOMAIN stats.records : stats.records[i] = stats'.records[j]
         \/ /\ e.type = "ARRIVE" /\ e.packet.dest = s
            /\ stats'.records[j].pid = e.packet.pid
            /\ stats'.records[j].delay = clock - e.packet.send_time
  <1>1. PICK st, st2, p : st = stats /\ st2 = stats' /\ p = e.packet
    OBVIOUS
  <1>2. RecordsOK(st) /\ j \in DOMAIN st2.records /\ ~ st2.records[j].drop
    BY <1>1 DEF Setting
  <1>3. CASE OnlyCounted
    <2>1. st2.records = st.records
      BY <1>1, <1>2, <1>3, CountKeepsRecords
    <2> QED
      BY <1>1, <1>2, <2>1
  <1>4. CASE e.type = "ARRIVE" /\ S(s)!ArriveFinal(p, clock)
    <2>1. PICK delay : delay = clock - p.send_time
      OBVIOUS
    <2>2. p.dest = s /\ st2 = S(s)!UpdateStats(st, p.pid, delay, FALSE)
      BY <1>1, <1>4, <2>1 DEF S!ArriveFinal
    <2>3. \A x, pid, time, drop :
            S(s)!UpdateStats(x, pid, time, drop) = UpdateStats(x, pid, time, drop)
      BY SameParts
    <2>4. PICK pid, no : pid = p.pid /\ no = FALSE /\ st2 = UpdateStats(st, pid, delay, no)
      <3>1. PICK pid, no : pid = p.pid /\ no = FALSE
        OBVIOUS
      <3>2. st2 = UpdateStats(st, pid, delay, no)
        BY ONLY <2>2, <2>3, <3>1, Zenon
      <3> QED
        BY <3>1, <3>2
    <2>5. \/ \E i \in DOMAIN st.records : st.records[i] = st2.records[j]
          \/ st2.records[j].pid = pid /\ st2.records[j].delay = delay
      BY ONLY <1>2, <2>4, RecordSays
    <2> QED
      BY <1>1, <1>4, <2>1, <2>2, <2>4, <2>5
  <1>5. CASE e.type = "ARRIVE" /\ S(s)!ArriveDropped(p, clock)
    <2>1. PICK st0 : st0 = [st EXCEPT !.received = @ + 1]
      OBVIOUS
    <2>2. st2 = S(s)!UpdateStats(st0, p.pid, 0, TRUE)
      BY <1>1, <1>5, <2>1 DEF S!ArriveDropped
    <2>3. \A x, pid, time, drop :
            S(s)!UpdateStats(x, pid, time, drop) = UpdateStats(x, pid, time, drop)
      BY SameParts
    <2>4. PICK pid, nothing, yes : /\ pid = p.pid /\ nothing = 0 /\ yes = TRUE
                                   /\ st2 = UpdateStats(st0, pid, nothing, yes)
      <3>1. PICK pid, nothing, yes : pid = p.pid /\ nothing = 0 /\ yes = TRUE
        OBVIOUS
      <3>2. st2 = UpdateStats(st0, pid, nothing, yes)
        BY ONLY <2>2, <2>3, <3>1, Zenon
      <3> QED
        BY <3>1, <3>2
    <2>5. /\ st0.records = st.records
          /\ st0.num_packets_recvd = st.num_packets_recvd
          /\ st0.num_packets_dropped = st.num_packets_dropped
          /\ st0 = [received |-> st0.received, num_packets_recvd |-> st0.num_packets_recvd,
                    num_packets_dropped |-> st0.num_packets_dropped,
                    num_packets_sent |-> st0.num_packets_sent, records |-> st0.records,
                    records_capacity |-> st0.records_capacity]
      BY ONLY <1>2, <2>1 DEF RecordsOK
    <2>6. RecordsOK(st0)
      BY <1>2, <2>5 DEF RecordsOK
    <2>7. \/ \E i \in DOMAIN st0.records : st0.records[i] = st2.records[j]
          \/ st2.records[j].drop = yes
      <3>1. RecordsOK(st0) /\ st2 = UpdateStats(st0, pid, nothing, yes) /\ j \in DOMAIN st2.records
        BY <1>2, <2>4, <2>6
      <3> QED
        BY ONLY <3>1, RecordSays
    <2> QED
      BY <1>1, <1>2, <2>4, <2>5, <2>7
  <1>6. CASE e.type = "ARRIVE" /\ ~ OnlyCounted
    <2>1. S(s)!ArriveFinal(p, clock) \/ S(s)!ArriveDropped(p, clock)
      <3>1. S(s)!Arrive(p, clock)
        BY <1>1, <1>6
      <3> QED
        BY <1>6, <3>1 DEF S!Arrive, S!ArriveSendsNow, S!ArriveSchedulesSend,
                          S!ArriveJoinsQueue, S!ArriveWaits, OnlyCounted
    <2> QED
      BY <1>4, <1>5, <1>6, <2>1
  <1>7. CASE e.type = "SEND"
    <2>1. PacketSent(s, e.port) \/ SendingPutOff(e.port)
      BY <1>7, SendDoes
    <2> QED
      BY <1>3, <2>1 DEF PacketSent, SendingPutOff
  <1> QED
    BY <1>3, <1>6, <1>7
\* What waits where p has been queued is p or waited before.
LEMMA QueuedHas ==
  ASSUME NEW s, QueuesOK(s, queues), NEW p,
         NEW i \in DOMAIN QueuedAt(s, p), NEW k \in DOMAIN QueuedAt(s, p)[i]
  PROVE  \/ QueuedAt(s, p)[i][k] = p
         \/ i \in DOMAIN queues /\ \E h \in DOMAIN queues[i] : queues[i][h] = QueuedAt(s, p)[i][k]
  <1>1. PICK qs, c, qs2 : qs = queues /\ c = HomeOf(s, p) /\ qs2 = QueuedAt(s, p)
    OBVIOUS
  <1>2. qs \in [QueuesOf(s) -> Seq(Sent)] /\ qs2 = [qs EXCEPT ![c] = Append(@, p)]
    BY <1>1 DEF QueuesOK, QueuedAt
  <1>3. i \in DOMAIN qs /\ i \in QueuesOf(s) /\ qs[i] \in Seq(Sent) /\ k \in DOMAIN qs2[i]
    BY <1>1, <1>2
  <1>4. CASE i # c
    BY <1>1, <1>2, <1>3, <1>4
  <1>5. CASE i = c
    <2>1. PICK X, queue : X = Sent \cup {p} /\ queue = qs[i] /\ qs2[i] = Append(queue, p)
      BY <1>2, <1>3, <1>5
    <2>2. queue \in Seq(X) /\ p \in X
      BY <1>3, <2>1
    <2>3. /\ DOMAIN Append(queue, p) = DOMAIN queue \cup {Len(queue) + 1}
          /\ Append(queue, p)[Len(queue) + 1] = p
          /\ \A h \in DOMAIN queue : Append(queue, p)[h] = queue[h]
      BY <2>2, AppendFacts
    <2> QED
      BY <1>1, <1>3, <2>1, <2>3
  <1> QED
    BY <1>4, <1>5

\* The packet waits here or arrives.
Here(e, p) ==
  \/ \E i \in DOMAIN queues : \E k \in DOMAIN queues[i] : queues[i][k] = p
  \/ e.type = "ARRIVE" /\ e.packet = p

\* What the handler leaves in the queues, and what it takes out of them.
LEMMA HandledQueues ==
  ASSUME NEW e, NEW T, Setting(e, T), NEW s, s = current,
         NEW port, port = IF e.type = "ARRIVE" THEN PortOf(s, e.packet) ELSE e.port,
         \/ e.type = "ARRIVE" /\ S(s)!Arrive(e.packet, clock)
         \/ e.type = "SEND" /\ S(s)!Send(e.port, clock),
         NEW p
  PROVE  /\ (\E i \in DOMAIN queues' : \E k \in DOMAIN queues'[i] : queues'[i][k] = p) => Here(e, p)
         /\ \A d \in done'.sent : d.type = "ARRIVE" /\ d.packet = p =>
              /\ Here(e, p) /\ p \in Sent /\ p.dest # s /\ PortOf(s, p) = port
              /\ d.to = Hop(s, p.dest)
  <1>1. s \in Switches /\ QueuesOK(s, queues) /\ SentRouted
    BY DEF Setting
  <1>2. ASSUME e.type = "ARRIVE", e.packet.dest # s, NEW i \in DOMAIN QueuedAt(s, e.packet),
               NEW k \in DOMAIN QueuedAt(s, e.packet)[i], QueuedAt(s, e.packet)[i][k] = p
        PROVE  Here(e, p)
    BY <1>1, <1>2, QueuedHas DEF Here
  <1>3. ASSUME NEW qs, QueuesOK(s, qs), port \in PortsOf(s), Backlogged(qs, port),
               \A i \in DOMAIN qs : \A k \in DOMAIN qs[i] : qs[i][k] = p => Here(e, p)
        PROVE  /\ \A i \in DOMAIN Serve(qs, port) : \A k \in DOMAIN Serve(qs, port)[i] :
                    Serve(qs, port)[i][k] = p => Here(e, p)
               /\ NextPacket(qs, port) = p =>
                    Here(e, p) /\ p \in Sent /\ p.dest # s /\ PortOf(s, p) = port
    <2>1. PICK n, qs2 : n = NextPacket(qs, port) /\ qs2 = Serve(qs, port)
      OBVIOUS
    <2>2. /\ n \in Sent /\ n.dest # s /\ PortOf(s, n) = port
          /\ \E i \in DOMAIN qs : \E k \in DOMAIN qs[i] : qs[i][k] = n
          /\ \A i \in DOMAIN qs2 : \A k \in DOMAIN qs2[i] :
               i \in DOMAIN qs /\ \E h \in DOMAIN qs[i] : qs[i][h] = qs2[i][k]
      BY <1>1, <1>3, <2>1, NextWaits
    <2> QED
      BY <1>3, <2>1, <2>2
  <1>4. \A i \in DOMAIN queues : \A k \in DOMAIN queues[i] : queues[i][k] = p => Here(e, p)
    BY DEF Here
  <1>5. CASE e.type = "ARRIVE" /\ S(s)!Arrive(e.packet, clock)
    <2>1. PICK x, qs : x = e.packet /\ qs = QueuedAt(s, x)
      OBVIOUS
    <2>2. PacketRecorded(s, x) \/ PacketPasses(s, x) \/ PacketWaits(s, x)
      BY <1>5, <2>1, ArriveDoes
    <2>3. CASE PacketRecorded(s, x)
      BY <1>4, <2>3 DEF PacketRecorded
    <2>4. ASSUME x.dest # s
          PROVE  /\ port \in PortsOf(s) /\ QueuesOK(s, qs) /\ Backlogged(qs, port)
                 /\ \A i \in DOMAIN qs : \A k \in DOMAIN qs[i] : qs[i][k] = p => Here(e, p)
      <3>1. Routed(s, x) /\ x.pid \notin WaitingAt(queues, QueuesOf(s)) /\ port = PortOf(s, x)
        BY <1>5, <2>1, <2>4, ArrivalFacts
      <3>2. port \in PortsOf(s) /\ QueuesOK(s, qs) /\ Backlogged(qs, port)
        BY <1>1, <2>1, <3>1, QueueIn DEF Routed
      <3> QED
        BY <1>2, <1>5, <2>1, <2>4, <3>2
    <2>5. CASE PacketPasses(s, x)
      <3>1. x.dest # s /\ queues' = Serve(qs, port)
        BY <1>5, <2>1, <2>5 DEF PacketPasses
      <3>2. PICK d : done'.sent = {d} /\ TakesOn(s, d, NextPacket(qs, port), x)
        BY <1>5, <2>1, <2>5 DEF PacketPasses
      <3>3. /\ \A i \in DOMAIN queues' : \A k \in DOMAIN queues'[i] : queues'[i][k] = p =>
                 Here(e, p)
            /\ NextPacket(qs, port) = p =>
                 Here(e, p) /\ p \in Sent /\ p.dest # s /\ PortOf(s, p) = port
        BY <1>3, <2>4, <3>1
      <3>4. d.packet = NextPacket(qs, port) /\ d.to = Hop(s, d.packet.dest)
        <4>1. Routed(s, x) /\ port = PortOf(s, x)
          BY <1>5, <2>1, <3>1, ArrivalFacts
        <4>2. TakesOn(s, d, NextPacket(qs, port), NextPacket(qs, port))
          BY <1>1, <2>4, <3>1, <3>2, <4>1, SharedHop
        <4> QED
          BY <4>2 DEF TakesOn, Hop
      <3> QED
        BY <3>2, <3>3, <3>4
    <2>6. CASE PacketWaits(s, x)
      <3>1. x.dest # s /\ queues' = qs
        BY <2>1, <2>6 DEF PacketWaits
      <3>2. \A d \in done'.sent : d.type # "ARRIVE"
        BY <2>6 DEF PacketWaits, WakesUp
      <3> QED
        BY <2>4, <3>1, <3>2
    <2> QED
      BY <2>2, <2>3, <2>5, <2>6
  <1>6. CASE e.type = "SEND" /\ S(s)!Send(e.port, clock)
    <2>1. PacketSent(s, port) \/ SendingPutOff(port)
      BY <1>6, SendDoes
    <2>2. port \in PortsOf(s)
      BY <1>6, SettingFacts
    <2>3. CASE PacketSent(s, port)
      <3>1. Backlogged(queues, port) /\ queues' = Serve(queues, port)
        BY <2>3 DEF PacketSent
      <3>2. PICK d : /\ TakesOn(s, d, NextPacket(queues, port), NextPacket(queues, port))
                     /\ \A f \in done'.sent : f.type = "ARRIVE" => f = d
        BY <2>3 DEF PacketSent, WakesUp
      <3>3. /\ \A i \in DOMAIN queues' : \A k \in DOMAIN queues'[i] : queues'[i][k] = p =>
                 Here(e, p)
            /\ NextPacket(queues, port) = p =>
                 Here(e, p) /\ p \in Sent /\ p.dest # s /\ PortOf(s, p) = port
        BY <1>1, <1>3, <1>4, <2>2, <3>1
      <3>4. d.packet = NextPacket(queues, port) /\ d.to = Hop(s, d.packet.dest)
        BY <3>2 DEF TakesOn, Hop
      <3> QED
        BY <3>2, <3>3, <3>4
    <2>4. CASE SendingPutOff(port)
      <3>1. queues' = queues /\ \A d \in done'.sent : d.type # "ARRIVE"
        BY <2>4 DEF SendingPutOff, WakesUp
      <3> QED
        BY <1>4, <3>1
    <2> QED
      BY <2>1, <2>3, <2>4
  <1> QED
    BY <1>5, <1>6
\* What a handler sends on was held here, and what it records as received arrived.
LEMMA HandledGoesOn ==
  ASSUME NEW e, NEW T, NEW s, NEW E, NEW Q, NEW R, NEW A, Handles(e, T, s, E, Q, R, A),
         AtTime(s, clock), clock = e.at,
         NEW port, port = IF e.type = "ARRIVE" THEN PortOf(s, e.packet) ELSE e.port,
         \/ e.type = "ARRIVE" /\ S(s)!Arrive(e.packet, clock)
         \/ e.type = "SEND" /\ S(s)!Send(e.port, clock),
         NEW M, T = {} \/ M = Most(clock, A[s][port]),
         NEW Q2, Changed(Q, Q2, s, queues'), NEW R2, Changed(R, R2, s, stats'.records)
  PROVE  GoOn(e, M, T, Q, Q2, R, R2)
  <1>1. /\ Setting(e, T) /\ FlowSetting /\ s \in Switches /\ s = current /\ e.to = s
        /\ Q[s] = queues /\ R[s] = stats.records /\ A[s] = ports_available_time
    BY HandledFacts DEF Handles, FlowsAt
  <1>2. /\ Due(s, port, clock, T)
        /\ \A f \in T : f.type = "ARRIVE" => f \in done'.sent
    BY HandledDue
  <1>3. ASSUME NEW p
        PROVE  /\ WaitsAt(Q, p, s) \/ (e.type = "ARRIVE" /\ e.packet = p) <=> Here(e, p)
               /\ Held(e, Q, p, s) <=> Here(e, p)
    BY <1>1 DEF Here, Held, WaitsAt
  <1>4. ASSUME NEW d \in T, d.type = "ARRIVE"
        PROVE  /\ d.packet \in Sent /\ Held(e, Q, d.packet, s) /\ s # d.packet.dest
               /\ d.to = Hop(s, d.packet.dest)
               /\ d.at >= M + HopTime(s, d.packet.dest, d.packet.size)
    <2>1. PICK p : p = d.packet
      OBVIOUS
    <2>2. d \in done'.sent
      BY <1>2, <1>4
    <2>3. Here(e, p) /\ p \in Sent /\ p.dest # s /\ d.to = Hop(s, p.dest)
      BY <1>1, <1>4, <2>1, <2>2, HandledQueues
    <2>4. d.at >= M + HopTime(s, p.dest, p.size)
      BY <1>1, <1>2, <1>4, <2>1 DEF Due, IsDue
    <2> QED
      BY <1>3, <2>1, <2>3, <2>4
  <1>5. ASSUME NEW p \in Sent, NEW w \in Switches, WaitsAt(Q2, p, w)
        PROVE  Held(e, Q, p, w)
    <2>1. Q2[w] = IF w = s THEN queues' ELSE Q[w]
      BY DEF Changed
    <2>2. CASE w = s
      <3>1. \E i \in DOMAIN queues' : \E k \in DOMAIN queues'[i] : queues'[i][k] = p
        BY <1>5, <2>1, <2>2 DEF WaitsAt
      <3>2. Here(e, p)
        BY <1>1, <3>1, HandledQueues
      <3> QED
        BY <1>3, <2>2, <3>2
    <2>3. CASE w # s
      BY <1>5, <2>1, <2>3 DEF WaitsAt, Held
    <2> QED
      BY <2>2, <2>3
  <1>6. ASSUME NEW p \in Sent, NEW w \in Switches, NEW j \in DOMAIN R2[w],
               R2[w][j].pid = p.pid, ~ R2[w][j].drop
        PROVE  \/ \E i \in DOMAIN R[w] : R[w][i] = R2[w][j]
               \/ /\ e.type = "ARRIVE" /\ e.packet = p /\ e.to = w /\ p.dest = w
                  /\ R2[w][j].delay = e.at - p.send_time
    <2>1. R2[w] = IF w = s THEN stats'.records ELSE R[w]
      BY DEF Changed
    <2>2. CASE w = s
      <3>1. j \in DOMAIN stats'.records /\ ~ stats'.records[j].drop
        BY <1>6, <2>1, <2>2
      <3>2. \/ \E i \in DOMAIN stats.records : stats.records[i] = stats'.records[j]
            \/ /\ e.type = "ARRIVE" /\ e.packet.dest = s
               /\ stats'.records[j].pid = e.packet.pid
               /\ stats'.records[j].delay = clock - e.packet.send_time
        BY <1>1, <3>1, HandledRecords
      <3>3. ASSUME e.type = "ARRIVE", stats'.records[j].pid = e.packet.pid PROVE e.packet = p
        <4>1. e.packet \in Sent
          BY <1>1, <3>3, SettingFacts
        <4>2. e.packet.pid = p.pid
          BY <1>6, <2>1, <2>2, <3>3
        <4> QED
          BY <1>1, <4>1, <4>2 DEF FlowSetting
      <3> QED
        BY <1>1, <2>1, <2>2, <3>2, <3>3
    <2>3. CASE w # s
      BY <1>6, <2>1, <2>3
    <2> QED
      BY <2>2, <2>3
  <1> QED
    BY <1>1, <1>4, <1>5, <1>6 DEF GoOn

\* The turns of the events.
LEMMA HandledTurns ==
  ASSUME NEW e, NEW T, NEW s, NEW E, NEW Q, NEW R, NEW A, Handles(e, T, s, E, Q, R, A),
         AtTime(s, clock), clock = e.at,
         NEW port, port = IF e.type = "ARRIVE" THEN PortOf(s, e.packet) ELSE e.port,
         \/ e.type = "ARRIVE" /\ S(s)!Arrive(e.packet, clock)
         \/ e.type = "SEND" /\ S(s)!Send(e.port, clock),
         NEW A2, Changed(A, A2, s, ports_available_time'),
         NEW Q2, Changed(Q, Q2, s, queues'), NEW R2, Changed(R, R2, s, stats'.records),
         \A f \in Live : f.at \in Int /\ e.at <= f.at,
         NEW L2, L2 \subseteq Live \cup T,
         NEW M, M = IF port \in PortsOf(s) THEN Most(clock, A[s][port]) ELSE clock
  PROVE  Turns(e, M, Live, T, L2, A, A2) /\ GoOn(e, M, T, Q, Q2, R, R2)
  <1>1. /\ Setting(e, T) /\ EventsInv /\ FlowSetting /\ FlowTypes(E, Q, A) /\ SentSized
        /\ s \in Switches /\ s = current /\ e.to = s
        /\ A[s] = ports_available_time /\ A2[s] = ports_available_time'
        /\ T = {Addressed(f) : f \in done'.sent}
    BY HandledFacts DEF Handles, FlowsAt, Setting, Changed
  <1>2. /\ e \in Live /\ e.at \in Int /\ clock = e.at /\ clock \in Nat
    BY <1>1, SettingFacts DEF AtTime
  <1>3. /\ Due(s, port, clock, T)
        /\ \A f \in T : f.type # "ARRIVE" => f.type = "SEND" /\ f.to = s
    BY HandledDue
  <1>4. ASSUME NEW w \in Switches, NEW other \in PortsOf(w)
        PROVE  A[w][other] \in Int /\ A2[w][other] \in Int /\ A[w][other] <= A2[w][other]
    <2>1. OnTime(s, port, T)
      BY HandledOnTime
    <2>2. A[w][other] <= A2[w][other] /\ FlowTypes(E, Q, A2)
      BY <1>1, <1>4, <2>1, TimesRise
    <2> QED
      BY <1>1, <1>4, <2>2 DEF FlowTypes
  <1>5. ASSUME port \notin PortsOf(s)
        PROVE  e.type = "ARRIVE" /\ T = {}
    <2>1. e.type = "ARRIVE" /\ S(s)!Arrive(e.packet, clock)
      BY <1>1, <1>5, SettingFacts
    <2>2. e.packet.dest = s
      BY <1>1, <1>5, <2>1, ArrivalFacts DEF Routed
    <2>3. PacketRecorded(s, e.packet)
      BY <2>1, <2>2, ArriveDoes DEF PacketPasses, PacketWaits
    <2> QED
      BY <1>1, <2>1, <2>3 DEF PacketRecorded
  <1>6. M \in Int /\ clock <= M /\ (T = {} \/ M = Most(clock, A[s][port]))
    <2>1. CASE port \in PortsOf(s)
      <3>1. PICK a \in Int : a = A[s][port]
        BY <1>1, <1>4, <2>1
      <3> QED
        BY <1>2, <2>1, <3>1 DEF Most
    <2>2. CASE port \notin PortsOf(s)
      BY <1>2, <1>5, <2>2
    <2> QED
      BY <2>1, <2>2
  <1>7. GoOn(e, M, T, Q, Q2, R, R2)
    BY <1>6, HandledGoesOn
  <1>8. Turn(e, A) <= M
    <2>1. CASE e.type = "ARRIVE"
      BY <1>2, <1>6, <2>1 DEF Turn
    <2>2. CASE e.type # "ARRIVE"
      <3>1. port = e.port /\ port \in PortsOf(s)
        BY <1>5, <2>2
      <3>2. Turn(e, A) = M
        BY <1>1, <1>2, <2>2, <3>1 DEF Turn
      <3> QED
        BY <1>6, <3>2
    <2> QED
      BY <2>1, <2>2
  <1>9. ASSUME NEW f \in Live
        PROVE  /\ f.at \in Int /\ Turn(f, A) \in Int /\ Turn(f, A2) \in Int
               /\ e.at <= Turn(f, A) /\ Turn(f, A) <= Turn(f, A2)
    <2>1. f.at \in Int /\ e.at <= f.at /\ EventOK(f)
      BY <1>1 DEF EventsInv
    <2>2. CASE f.type = "ARRIVE"
      BY <2>1, <2>2 DEF Turn
    <2>3. CASE f.type # "ARRIVE"
      <3>1. f.to \in Switches /\ f.port \in PortsOf(f.to)
        BY <2>1, <2>3 DEF EventOK
      <3>2. PICK a \in Int, a2 \in Int : a = A[f.to][f.port] /\ a2 = A2[f.to][f.port] /\ a <= a2
        BY <1>4, <3>1
      <3>3. Turn(f, A) = Most(f.at, a) /\ Turn(f, A2) = Most(f.at, a2)
        BY <2>3, <3>2 DEF Turn
      <3> QED
        BY <1>2, <2>1, <3>2, <3>3 DEF Most
    <2> QED
      BY <2>2, <2>3
  <1>10. ASSUME NEW f \in T
         PROVE  f.at \in Int /\ Turn(f, A2) \in Int /\ M <= Turn(f, A2)
    <2>1. port \in PortsOf(s)
      BY <1>5
    <2>2. PICK a \in Int, a2 \in Int : a = A[s][port] /\ a2 = A2[s][port] /\ M = Most(clock, a)
      BY <1>1, <1>4, <1>6, <2>1
    <2>3. IsDue(s, port, clock, a, a2, f)
      BY <1>1, <1>3, <2>2 DEF Due
    <2>4. f.at \in Nat
      BY <2>3 DEF IsDue
    <2>5. CASE f.type = "ARRIVE"
      <3>1. PICK w \in Switches : /\ f.packet \in Sent /\ w # f.packet.dest
                                  /\ f.at >= M + HopTime(w, f.packet.dest, f.packet.size)
        BY <1>7, <2>5 DEF GoOn
      <3>2. HopTime(w, f.packet.dest, f.packet.size) \in Nat
        <4>1. f.packet.dest \in Switches /\ f.packet.size \in Nat
          BY <1>1, <3>1 DEF FlowSetting, SentRouted, SentSized
        <4> QED
          BY <3>1, <4>1, HopTimeType
      <3> QED
        BY <1>6, <2>4, <2>5, <3>1, <3>2 DEF Turn
    <2>6. CASE f.type # "ARRIVE"
      <3>1. f.type = "SEND" /\ f.to = s /\ f.port = port
        BY <1>3, <2>3, <2>6 DEF IsDue
      <3>2. Turn(f, A2) = Most(f.at, a2) /\ Most(f.at, a2) >= Most(clock, a)
        BY <2>2, <2>3, <2>6, <3>1 DEF Turn, IsDue
      <3>3. Most(f.at, a2) \in Int
        BY <2>2, <2>4 DEF Most
      <3> QED
        BY <2>2, <2>4, <3>2, <3>3
    <2> QED
      BY <2>5, <2>6
  <1> QED
    BY <1>2, <1>6, <1>7, <1>8, <1>9, <1>10 DEF Turns
-----------------------------------------------------------------------------
(* The steps of the program, as far as the delays go.                      *)

DelayInv ==
  /\ EndsInTime
  /\ \A e \in Live : e.at \in Nat
  /\ \A s \in Switches : BucketsOK(s, StateOf(s).shapers)
  /\ Delayed(Live, AllQueues, AllRecords, AllTimes)

\* Whether the packets are delayed depends on the parts and on what was sent.
LEMMA DelaysNext ==
  ASSUME scheduled' = scheduled,
         Delayed(Live', AllQueues', AllRecords', AllTimes')
  PROVE  Delayed(Live, AllQueues, AllRecords, AllTimes)'
  <1>1. Sent' = Sent /\ Switches' = Switches
    BY DEF Sent, Switches
  <1>2. \A p : From(p)' = From(p)
    BY DEF From, SourceOf
  <1>3. PICK L, Q, R, A : /\ L = Live' /\ Q = AllQueues' /\ R = AllRecords' /\ A = AllTimes'
    OBVIOUS
  <1>4. Delayed(L, Q, R, A)
    BY <1>3
  <1>5. \A p, w : Soonest(p, w)' = Soonest(p, w)
    BY <1>2 DEF Soonest
  <1>6. Delayed(L, Q, R, A)'
    BY <1>1, <1>2, <1>4, <1>5 DEF Delayed, WaitsAt, Turn
  <1> QED
    BY <1>3, <1>6

\* Handling an event.
LEMMA HandleKeepsDelays ==
  ASSUME NetworkInv, FlowInv, DelayInv, Handle
  PROVE  DelayInv'
  <1>1. PICK e \in handling, s \in Switches :
          /\ s = current
          /\ \/ e.type = "ARRIVE" /\ S(s)!Arrive(e.packet, clock)
             \/ e.type = "SEND" /\ S(s)!Send(e.port, clock)
    BY DEF Handle
  <1>2. PICK T : T = {Addressed(f) : f \in done'.sent}
    OBVIOUS
  <1>3. Setting(e, T)
    BY <1>2, HandleSetting
  <1>4. Outcome(e, T)
    BY <1>1, <1>2, <1>3, HandleOutcome
  <1>5. /\ current' = current /\ parked' = parked /\ scheduled' = scheduled
        /\ g_tw_ts_end' = g_tw_ts_end
    BY DEF Handle, termvars
  <1>6. HandlesEvent(e, T) /\ EventsInv /\ InTurn /\ e \in Live
    BY <1>3, SettingFacts DEF Setting, FlowInv
  <1>7. /\ clock = e.at /\ clock \in Int /\ \A f \in Live : e.at <= f.at /\ f.at \in Int
        /\ \A f \in Arrivals : e.at <= f.at
    BY <1>6, HandledIsEarliest DEF Arrivals, InTurn
  <1>8. PICK E, Q, R, A : /\ E = Arrivals /\ Q = AllQueues /\ R = AllRecords /\ A = AllTimes
    OBVIOUS
  <1>9. /\ FlowsAt(s, E, Q, R, A) /\ TimesOK(s, shapers, ports_available_time) /\ SentSized
    BY <1>1, <1>8, FlowsNow
  <1>10. Handles(e, T, s, E, Q, R, A)
    BY <1>2, <1>3, <1>4, <1>7, <1>8, <1>9 DEF Handles
  <1>11. /\ StateOf(s)'.queues = queues' /\ StateOf(s)'.stats = stats'
         /\ StateOf(s)'.shapers = shapers' /\ StateOf(s).shapers = shapers
         /\ StateOf(s)'.ports_available_time = ports_available_time'
         /\ \A t : t # s => StateOf(t)' = StateOf(t)
    BY <1>1, <1>5, LoadedState
  <1>12. PICK Q2, R2, A2 : Q2 = AllQueues' /\ R2 = AllRecords' /\ A2 = AllTimes'
    OBVIOUS
  <1>13. Changed(Q, Q2, s, queues')
    <2>1. Q2 = [t \in Switches |-> StateOf(t)'.queues]
      BY <1>12 DEF AllQueues, Switches
    <2>2. \A t \in Switches : t # s => StateOf(t)'.queues = Q[t]
      BY <1>8, <1>11 DEF AllQueues
    <2> QED
      BY <1>11, <2>1, <2>2 DEF Changed
  <1>14. Changed(R, R2, s, stats'.records)
    <2>1. R2 = [t \in Switches |-> StateOf(t)'.stats.records]
      BY <1>12 DEF AllRecords, Switches
    <2>2. \A t \in Switches : t # s => StateOf(t)'.stats.records = R[t]
      BY <1>8, <1>11 DEF AllRecords
    <2> QED
      BY <1>11, <2>1, <2>2 DEF Changed
  <1>15. Changed(A, A2, s, ports_available_time')
    <2>1. A2 = [t \in Switches |-> StateOf(t)'.ports_available_time]
      BY <1>12 DEF AllTimes, Switches
    <2>2. \A t \in Switches : t # s => StateOf(t)'.ports_available_time = A[t]
      BY <1>8, <1>11 DEF AllTimes
    <2> QED
      BY <1>11, <2>1, <2>2 DEF Changed
  <1>16. AtTime(s, clock)
    <2>1. clock \in Nat /\ EndsInTime /\ BucketsOK(s, shapers)
      BY <1>6, <1>7, <1>11 DEF DelayInv
    <2>2. clock < g_tw_ts_end /\ g_tw_ts_end \in Nat
      BY <1>7 DEF FlowInv, InTurn, NetworkInv, TerminalInv
    <2> QED
      BY <1>3, <1>9, <2>1, <2>2 DEF AtTime, Setting
  <1>17. PICK port, M :
           /\ port = IF e.type = "ARRIVE" THEN PortOf(s, e.packet) ELSE e.port
           /\ M = IF port \in PortsOf(s) THEN Most(clock, A[s][port]) ELSE clock
    OBVIOUS
  <1>18. Live' \subseteq Live \cup T
    BY <1>6, HandleChangesEvents
  <1>19. Turns(e, M, Live, T, Live', A, A2) /\ GoOn(e, M, T, Q, Q2, R, R2)
    BY <1>1, <1>7, <1>10, <1>13, <1>14, <1>15, <1>16, <1>17, <1>18, HandledTurns
  <1>20. Delayed(Live', Q2, R2, A2)
    <2>1. FlowSetting /\ OnItsWay({f \in Live : f.type = "ARRIVE"}, Q, R)
      BY <1>8, <1>9 DEF FlowsAt, Flows, Arrivals
    <2>2. Delayed(Live, Q, R, A)
      BY <1>8 DEF DelayInv
    <2> QED
      BY <1>9, <1>19, <2>1, <2>2, DelayStep
  <1>21. Delayed(Live, AllQueues, AllRecords, AllTimes)'
    BY <1>5, <1>12, <1>20, DelaysNext
  <1>22. Due(s, port, clock, T)
    BY <1>1, <1>10, <1>16, <1>17, HandledDue
  <1>23. \A f \in Live' : f.at \in Nat
    BY <1>18, <1>22 DEF DelayInv, Due, IsDue
  <1>24. ASSUME NEW t \in Switches PROVE BucketsOK(t, StateOf(t).shapers)'
    <2>1. CASE t = s
      <3>1. BucketsOK(t, StateOf(t)'.shapers)
        BY <1>11, <1>22, <2>1 DEF Due
      <3> QED
        BY <3>1 DEF BucketsOK, PortsOf
    <2>2. CASE t # s
      <3>1. BucketsOK(t, StateOf(t)'.shapers)
        BY <1>11, <2>2 DEF DelayInv
      <3> QED
        BY <3>1 DEF BucketsOK, PortsOf
    <2> QED
      BY <2>1, <2>2
  <1>25. EndsInTime'
    BY <1>5 DEF DelayInv, EndsInTime, Switches, PortsOf
  <1> QED
    BY <1>21, <1>23, <1>24, <1>25 DEF DelayInv, Switches

\* A step that leaves every switch and the events as they are.
LEMMA DelaysStill ==
  ASSUME DelayInv, StatesKept, scheduled' = scheduled, g_tw_ts_end' = g_tw_ts_end
  PROVE  DelayInv'
  <1>1. Switches' = Switches /\ Live' = Live
    BY DEF Switches, StatesKept
  <1>2. /\ AllQueues' = [s \in Switches |-> StateOf(s)'.queues]
        /\ AllRecords' = [s \in Switches |-> StateOf(s)'.stats.records]
        /\ AllTimes' = [s \in Switches |-> StateOf(s)'.ports_available_time]
    BY DEF AllQueues, AllRecords, AllTimes, Switches
  <1>3. AllQueues' = AllQueues /\ AllRecords' = AllRecords /\ AllTimes' = AllTimes
    BY <1>2 DEF AllQueues, AllRecords, AllTimes, StatesKept
  <1>4. Delayed(Live, AllQueues, AllRecords, AllTimes)'
    BY <1>1, <1>3, DelaysNext DEF DelayInv
  <1>5. ASSUME NEW s \in Switches PROVE BucketsOK(s, StateOf(s).shapers)'
    <2>1. BucketsOK(s, StateOf(s)'.shapers)
      BY DEF DelayInv, StatesKept
    <2> QED
      BY <2>1 DEF BucketsOK, PortsOf
  <1>6. EndsInTime'
    BY DEF DelayInv, EndsInTime, Switches, PortsOf
  <1> QED
    BY <1>1, <1>4, <1>5, <1>6 DEF DelayInv

\* A step outside the loop.
LEMMA QuietKeepsDelays ==
  ASSUME DelayInv, UNCHANGED <<swvars, loop, scheduled, g_tw_ts_end>>
  PROVE  DelayInv'
  BY LoopKeepsStates, DelaysStill

\* At their sources the packets are not early, as a fact about a state.
LEMMA DelaysBegin ==
  NetworkInv /\ Begun =>
    (\A e \in Live : e.at \in Nat) /\ Delayed(Live, AllQueues, AllRecords, AllTimes)
  <1> SUFFICES ASSUME NetworkInv, Begun
               PROVE  /\ \A e \in Live : e.at \in Nat
                      /\ Delayed(Live, AllQueues, AllRecords, AllTimes)
    OBVIOUS
  <1>1. FlowSetting /\ SentSized
    BY NetworkSettles
  <1>2. ASSUME NEW e \in Live
        PROVE  /\ From(e.packet) = e.to /\ e.at = e.packet.send_time /\ e.at \in Nat
    <2>1. e \in scheduled /\ AllSent /\ g_tw_ts_end \in Nat
      BY DEF Begun, NetworkInv, TerminalInv
    <2> QED
      BY <2>1, SentFacts
  <1>3. ASSUME NEW p \in Sent, NEW w \in Switches, WaitsAt(AllQueues, p, w)
        PROVE  FALSE
    <2>1. PICK qs : qs = AllQueues[w]
      OBVIOUS
    <2>2. qs = StateOf(w).queues /\ QueuesOK(w, qs)
      BY <2>1 DEF AllQueues, NetworkInv, PacketsInv, SwitchOK
    <2>3. PICK i \in DOMAIN qs : \E k \in DOMAIN qs[i] : qs[i][k] = p
      BY <1>3, <2>1 DEF WaitsAt
    <2>4. i \in QueuesOf(w)
      BY <2>2, <2>3 DEF QueuesOK
    <2>5. p.pid \in WaitingPids[w]
      BY <2>2, <2>3, <2>4 DEF WaitingPids, WaitingAt
    <2> QED
      BY <2>5 DEF Begun
  <1>4. ASSUME NEW w \in Switches, NEW j \in DOMAIN AllRecords[w]
        PROVE  FALSE
    <2>1. AllRecords[w][j].pid \in RecordedPids[w]
      BY DEF AllRecords, RecordedPids, Recorded, Records
    <2> QED
      BY <2>1 DEF Begun
  <1>5. ASSUME NEW p \in Sent, NEW w \in Switches, Leads(From(p), p.dest),
               NEW e \in Live, e.packet = p, e.to = w
        PROVE  Soonest(p, w) <= e.at
    <2>1. w = From(p) /\ e.at = p.send_time /\ e.at \in Nat
      BY <1>2, <1>5
    <2>2. Passes(From(p), w, p.dest)
      BY <2>1, WayBegins
    <2>3. PICK time \in Int : time = PathTime(w, p.dest, p.size)
      BY <1>1, <1>5, <2>1, <2>2, SoonestIs
    <2>4. Soonest(p, w) = e.at + time - time
      BY <2>1, <2>3 DEF Soonest
    <2> QED
      BY <2>1, <2>3, <2>4
  <1>6. Delayed(Live, AllQueues, AllRecords, AllTimes)
    BY <1>3, <1>4, <1>5 DEF Delayed
  <1> QED
    BY <1>2, <1>6
\* The terminal schedules its packets.
LEMMA PrerunKeepsDelays ==
  ASSUME NetworkInv, NetworkInv', DelayInv, Prerun
  PROVE  DelayInv'
  <1>1. /\ Begun' /\ g_tw_ts_end' = g_tw_ts_end
        /\ \A s \in Switches : StateOf(s)'.shapers = StateOf(s).shapers
    BY PrerunBegins
  <1>2. (NetworkInv /\ Begun =>
           (\A e \in Live : e.at \in Nat) /\ Delayed(Live, AllQueues, AllRecords, AllTimes))'
    BY DelaysBegin, PTL
  <1>3. (\A e \in Live : e.at \in Nat)' /\ Delayed(Live, AllQueues, AllRecords, AllTimes)'
    BY <1>1, <1>2
  <1>4. ASSUME NEW s \in Switches PROVE BucketsOK(s, StateOf(s).shapers)'
    <2>1. BucketsOK(s, StateOf(s)'.shapers)
      BY <1>1 DEF DelayInv
    <2> QED
      BY <2>1 DEF BucketsOK, PortsOf
  <1>5. EndsInTime'
    BY <1>1 DEF DelayInv, EndsInTime, Switches, PortsOf
  <1> QED
    BY <1>3, <1>4, <1>5 DEF DelayInv, Switches

\* The loop takes the earliest event.
LEMMA DispatchKeepsDelays ==
  ASSUME NetworkInv, DelayInv, NEW e \in BagToSet(pending), Dispatch(e)
  PROVE  DelayInv'
  <1>1. PacketsInv
    BY DEF NetworkInv
  <1>2. StatesKept
    BY <1>1, DispatchKeepsStates
  <1>3. g_tw_ts_end' = g_tw_ts_end /\ scheduled' = scheduled
    BY DEF Dispatch, termvars
  <1> QED
    BY <1>2, <1>3, DelaysStill

\* What is known of the delays stays true.
LEMMA DelayNext == NetworkInv /\ NetworkInv' /\ FlowInv /\ DelayInv /\ [Next]_vars => DelayInv'
<1> SUFFICES ASSUME NetworkInv, NetworkInv', FlowInv, DelayInv, [Next]_vars PROVE DelayInv'
  OBVIOUS
<1>1. ASSUME NEW node \in Nodes, SetUpRank(node) PROVE DelayInv'
  <2>1. UNCHANGED <<swvars, loop, scheduled, g_tw_ts_end>>
    BY <1>1 DEF SetUpRank, termvars
  <2> QED
    BY <2>1, QuietKeepsDelays
<1>2. ASSUME NEW s \in Switches, InitSwitch(s) PROVE DelayInv'
  <2>1. UNCHANGED <<swvars, loop, scheduled, g_tw_ts_end>>
    BY <1>2 DEF InitSwitch, termvars
  <2> QED
    BY <2>1, QuietKeepsDelays
<1>3. CASE InitTerminal
  <2>1. UNCHANGED <<swvars, loop, scheduled, g_tw_ts_end>>
    BY <1>3 DEF InitTerminal, terminal_init
  <2> QED
    BY <2>1, QuietKeepsDelays
<1>4. CASE Prerun
  BY <1>4, PrerunKeepsDelays
<1>5. ASSUME NEW e \in BagToSet(pending), Dispatch(e) PROVE DelayInv'
  BY <1>5, DispatchKeepsDelays
<1>6. CASE Handle
  BY <1>6, HandleKeepsDelays
<1>7. ASSUME NEW s \in Switches, FinishSwitch(s) PROVE DelayInv'
  <2>1. UNCHANGED <<swvars, loop, scheduled, g_tw_ts_end>>
    BY <1>7 DEF FinishSwitch, termvars
  <2> QED
    BY <2>1, QuietKeepsDelays
<1>8. CASE UNCHANGED vars
  <2>1. UNCHANGED <<swvars, loop, scheduled, g_tw_ts_end>>
    BY <1>8 DEF vars, termvars
  <2> QED
    BY <2>1, QuietKeepsDelays
<1> QED
  BY <1>1, <1>2, <1>3, <1>4, <1>5, <1>6, <1>7, <1>8 DEF Next, StartUp, EventLoop

\* No port can stay idle until it earns a whole word of tokens at once.
NoWholeWord ==
  \A end \in EndTimes : \A s \in Switches : \A port \in PortsOf(s) :
    end <= WordSize * Bandwidths[s][port]

\* In the beginning nothing is anywhere, and the buckets are full.
LEMMA DelayInit == NoWholeWord /\ Init => DelayInv
<1> SUFFICES ASSUME NoWholeWord, Init PROVE DelayInv
  OBVIOUS
<1>1. /\ current = 0 /\ parked = [s \in Switches |-> FreshSwitch(s)]
      /\ handling = {} /\ pending = EmptyBag /\ discarded = EmptyBag
      /\ scheduled = {} /\ g_tw_ts_end \in EndTimes
  BY DEF Init, TermInit
<1>2. BagToSet(EmptyBag) = {}
  BY BagOfSet DEF EmptyBag
<1>3. Live = {} /\ Sent = {}
  BY <1>1, <1>2 DEF Live, Sent
<1>4. EndsInTime
  BY <1>1 DEF NoWholeWord, EndsInTime
<1>5. Delayed(Live, AllQueues, AllRecords, AllTimes)
  BY <1>3 DEF Delayed
<1>6. ASSUME NEW s \in Switches PROVE BucketsOK(s, StateOf(s).shapers)
  <2>1. S(s)!Ports = PortsOf(s) /\ S(s)!FullBucket = FullBucket
    BY DEF S!Ports, PortsOf, S!FullBucket, FullBucket
  <2>2. StateOf(s).shapers = [port \in S(s)!Ports |-> FullBucket]
    <3>1. CASE s = 0
      <4>1. shapers = [port \in S(0)!Ports |-> S(0)!FullBucket]
        BY DEF Init, S!SwitchInit
      <4> QED
        BY <1>1, <2>1, <3>1, <4>1 DEF StateOf, CurrentState
    <3>2. CASE s # 0
      <4>1. StateOf(s) = FreshSwitch(s)
        BY <1>1, <3>2 DEF StateOf
      <4> QED
        BY <4>1 DEF FreshSwitch
    <3> QED
      BY <3>1, <3>2
  <2>3. FullBucket \in LaterBucket
    BY CapacityAssumption DEF FullBucket, LaterBucket
  <2> QED
    BY <2>1, <2>2, <2>3 DEF BucketsOK
<1> QED
  BY <1>3, <1>4, <1>5, <1>6 DEF DelayInv

\* Where no packet is early, the records say so.
LEMMA DelaysArePhysical == NetworkInv /\ FlowInv /\ DelayInv => DelayIsPhysical
<1> SUFFICES ASSUME NetworkInv, FlowInv, DelayInv,
                    NEW s \in Switches, NEW i \in DOMAIN Records(s),
                    NEW r, r = Records(s)[i], ~ r.drop
             PROVE  /\ PacketOf(r.pid).dest = s
                    /\ r.delay >= PathTime(SourceOf(r.pid), s, PacketOf(r.pid).size)
  BY DEF DelayIsPhysical
<1>1. PICK E, Q, R, A : /\ E = Arrivals /\ Q = AllQueues /\ R = AllRecords /\ A = AllTimes
  OBVIOUS
<1>2. Flows(E, Q, R, A) /\ FlowSetting
  BY <1>1, NetworkSettles DEF FlowInv
<1>3. R[s] = Records(s) /\ i \in DOMAIN R[s] /\ R[s][i] = r
  BY <1>1 DEF AllRecords, Records
<1>4. PICK p \in Sent : p.pid = r.pid
  <2>1. r.pid \in RecordedPids[s]
    BY DEF RecordedPids, Recorded
  <2>2. r.pid \in Pids(Sent)
    BY <2>1 DEF NetworkInv, PacketsInv, Apart
  <2> QED
    BY <2>2 DEF Pids
<1>5. PacketOf(r.pid) = p
  <2>1. \A q \in Sent : q.pid = r.pid => q = p
    BY <1>2, <1>4 DEF FlowSetting
  <2> QED
    BY <1>4, <2>1 DEF PacketOf
<1>6. p.dest = s
  BY <1>2, <1>3, <1>4 DEF Flows, IsHome
<1>7. Lies(E, Q, R, p, s)
  BY <1>3, <1>4 DEF Lies
<1>8. Leads(From(p), p.dest)
  BY <1>2, <1>6, <1>7, LeadsIsPasses DEF Flows, OnItsWay
<1>9. r.delay >= PathTime(From(p), p.dest, p.size)
  BY <1>1, <1>3, <1>4, <1>8 DEF DelayInv, Delayed
<1> QED
  BY <1>4, <1>5, <1>6, <1>9 DEF From

(***************************************************************************)
(* No packet is faster than its path, in every network in which the routes *)
(* by one port have one next hop: each delay that a switch records is at   *)
(* least the injection and the propagation time of all hops, whatever the  *)
(* routes, the trace and the classes are, provided that no port can stay   *)
(* idle so long that num_new_tokens wraps to nothing: the SEND event of    *)
(* such a port is for a time that is over.                                 *)
(***************************************************************************)
THEOREM NetworkDelaysArePhysical ==
  ASSUME NoWholeWord
  PROVE  Spec => []DelayIsPhysical
<1>1. Init => NetworkInv /\ FlowInv /\ DelayInv
  BY MappingInit, TerminalInit, DirsInit, PacketsInit, FlowInit, DelayInit DEF Init, NetworkInv
<1>2. NetworkInv /\ FlowInv /\ DelayInv /\ [Next]_vars => NetworkInv' /\ FlowInv' /\ DelayInv'
  <2>1. NetworkInv /\ [Next]_vars => NetworkInv'
    BY StartUpNext, MappingNext, TerminalNext, DirsNext, PacketsNext DEF NetworkInv
  <2> QED
    BY <2>1, FlowNext, DelayNext
<1> QED
  BY <1>1, <1>2, DelaysArePhysical, PTL DEF Spec
-----------------------------------------------------------------------------
(* The report.  A sum over a set is a recursive function on its subsets;   *)
(* what it adds up to is said of all of them at once.                      *)

\* The function f adds up the numbers n[x] in every subset of W.
AddsUp(f, n, W) ==
  f = [s \in SUBSET W |-> IF s = {} THEN 0
                          ELSE LET x == CHOOSE x \in s : TRUE IN n[x] + f[s \ {x}]]

\* Two functions that add up the same numbers are the same.
LEMMA SumIsOne ==
  ASSUME NEW W, IsFiniteSet(W), NEW n, NEW f, AddsUp(f, n, W), NEW g, AddsUp(g, n, W)
  PROVE  f[W] = g[W]
  <1> DEFINE Differ == {s \in SUBSET W : f[s] # g[s]}
             Sizes == {Cardinality(s) : s \in Differ}
  <1>1. SUFFICES ASSUME Differ # {} PROVE FALSE
    <2>1. W \in SUBSET W
      OBVIOUS
    <2> QED
      BY <2>1
  <1>2. ASSUME NEW s \in SUBSET W PROVE IsFiniteSet(s) /\ Cardinality(s) \in Nat
    BY FS_Subset, FS_CardinalityType
  <1>3. Sizes \in SUBSET Nat /\ Sizes # {}
    BY <1>1, <1>2
  <1>4. PICK k \in Sizes : \A l \in Sizes : k <= l
    <2> HIDE DEF Sizes
    <2> QED
      BY <1>3, HasLeast
  <1>5. PICK s \in Differ : k = Cardinality(s)
    BY <1>4
  <1>6. CASE s = {}
    <2>1. f[s] = 0 /\ g[s] = 0
      BY <1>6 DEF AddsUp
    <2> QED
      BY <1>5, <2>1
  <1>7. CASE s # {}
    <2>1. PICK x : x = CHOOSE y \in s : TRUE
      OBVIOUS
    <2>2. x \in s
      BY <1>7, <2>1
    <2>3. f[s] = n[x] + f[s \ {x}] /\ g[s] = n[x] + g[s \ {x}]
      BY <1>7, <2>1 DEF AddsUp
    <2>4. s \ {x} \in SUBSET W /\ Cardinality(s \ {x}) = Cardinality(s) - 1
      BY <1>2, <2>2, FS_RemoveElement
    <2>5. s \ {x} \notin Differ
      <3>1. SUFFICES ASSUME s \ {x} \in Differ PROVE FALSE
        OBVIOUS
      <3>2. k <= Cardinality(s \ {x}) /\ Cardinality(s) \in Nat
        BY <1>2, <1>4, <3>1
      <3> QED
        BY <1>5, <2>4, <3>2
    <2>6. f[s \ {x}] = g[s \ {x}]
      BY <2>4, <2>5
    <2> QED
      BY <1>5, <2>3, <2>6
  <1> QED
    BY <1>6, <1>7

\* The parts of a set that is cut up add up to it.
LEMMA PartsAddUp ==
  ASSUME NEW X, IsFiniteSet(X), NEW W, NEW F, \A s \in W : F[s] \subseteq X,
         \A s, t \in W : s # t => F[s] \cap F[t] = {}
  PROVE  AddsUp([p \in SUBSET W |-> Cardinality(UNION {F[s] : s \in p})],
                [s \in W |-> Cardinality(F[s])], W)
  <1> DEFINE All(p) == UNION {F[s] : s \in p}
             n == [s \in W |-> Cardinality(F[s])]
             g == [p \in SUBSET W |-> Cardinality(All(p))]
  <1>1. ASSUME NEW p \in SUBSET W PROVE IsFiniteSet(All(p)) /\ Cardinality(All(p)) \in Nat
    <2>1. All(p) \in SUBSET X
      OBVIOUS
    <2> QED
      BY <2>1, FS_Subset, FS_CardinalityType
  <1>2. ASSUME NEW p \in SUBSET W, p = {} PROVE g[p] = 0
    <2>1. All(p) = {}
      BY <1>2
    <2> QED
      BY <2>1, FS_EmptySet
  <1>3. ASSUME NEW p \in SUBSET W, p # {}
        PROVE  g[p] = LET x == CHOOSE x \in p : TRUE IN n[x] + g[p \ {x}]
    <2>1. PICK x : x = CHOOSE y \in p : TRUE
      OBVIOUS
    <2>2. x \in p /\ x \in W
      BY <1>3, <2>1
    <2>3. PICK A, B : A = F[x] /\ B = All(p \ {x})
      OBVIOUS
    <2>4. All(p) = A \cup B
      BY <2>2, <2>3
    <2>5. A \cap B = {}
      BY <2>2, <2>3
    <2>6. p \ {x} \in SUBSET W
      OBVIOUS
    <2>7. IsFiniteSet(A) /\ Cardinality(A) \in Nat
      BY <2>2, <2>3, FS_Subset, FS_CardinalityType
    <2>8. IsFiniteSet(B) /\ Cardinality(B) \in Nat
      BY <1>1, <2>3, <2>6
    <2>9. Cardinality(A \cup B) = Cardinality(A) + Cardinality(B)
      <3> HIDE DEF All
      <3>1. Cardinality(A \cap B) = 0
        BY <2>5, FS_EmptySet
      <3>2. Cardinality(A \cup B) = Cardinality(A) + Cardinality(B) - Cardinality(A \cap B)
        BY <2>7, <2>8, FS_Union
      <3>3. PICK a \in Nat, b \in Nat, c \in Int : a = Cardinality(A) /\ b = Cardinality(B)
                                           /\ c = Cardinality(A \cap B)
        BY <2>7, <2>8, <3>1
      <3> QED
        BY <3>1, <3>2, <3>3
    <2>10. g[p] = Cardinality(A \cup B) /\ g[p \ {x}] = Cardinality(B) /\ n[x] = Cardinality(A)
      BY <2>2, <2>3, <2>4, <2>6
    <2> HIDE DEF g, n
    <2> QED
      BY <2>1, <2>9, <2>10
  <1>4. g = [p \in SUBSET W |-> g[p]]
    OBVIOUS
  <1>5. AddsUp(g, n, W)
    <2> HIDE DEF g, n
    <2> QED
      BY <1>2, <1>3, <1>4 DEF AddsUp
  <1> QED
    BY <1>5

\* The lines about a flow in the file of s, and the packets that they are about.
LinesOf(s, flow) == {i \in DOMAIN output[s] : FlowOf(output[s][i].pid) = flow}

\* Whatever adds up the lines is what ReportAddsUp adds up.
LEMMA LinesAddUp ==
  ASSUME NEW flow, IsFiniteSet(Switches), NEW n, NEW g, AddsUp(g, n, Switches),
         \A s \in Switches : n[s] = Cardinality(LinesOf(s, flow))
  PROVE  MapThenSumSet(LAMBDA s : Cardinality({i \in DOMAIN output[s] :
                                                FlowOf(output[s][i].pid) = flow}), Switches)
           = g[Switches]
  <1> DEFINE First(p) == CHOOSE x \in p : TRUE
             Is(f) == f = [p \in SUBSET Switches |->
                             IF p = {} THEN 0
                             ELSE Cardinality({i \in DOMAIN output[First(p)] :
                                                 FlowOf(output[First(p)][i].pid) = flow})
                                    + f[p \ {First(p)}]]
  <1>1. MapThenSumSet(LAMBDA s : Cardinality({i \in DOMAIN output[s] :
                                                FlowOf(output[s][i].pid) = flow}), Switches)
          = (CHOOSE f : Is(f))[Switches]
    BY DEF MapThenSumSet, MapThenFoldSet
  <1>2. ASSUME NEW f PROVE Is(f) <=> AddsUp(f, n, Switches)
    <2>1. ASSUME NEW p \in SUBSET Switches, p # {}
          PROVE  Cardinality({i \in DOMAIN output[First(p)] :
                                FlowOf(output[First(p)][i].pid) = flow}) = n[First(p)]
      <3>1. First(p) \in Switches
        BY <2>1
      <3> HIDE DEF First
      <3> QED
        BY <3>1 DEF LinesOf
    <2>2. [p \in SUBSET Switches |->
             IF p = {} THEN 0
             ELSE Cardinality({i \in DOMAIN output[First(p)] :
                                 FlowOf(output[First(p)][i].pid) = flow})
                    + f[p \ {First(p)}]]
          = [p \in SUBSET Switches |-> IF p = {} THEN 0 ELSE n[First(p)] + f[p \ {First(p)}]]
      <3> HIDE DEF First
      <3> QED
        BY <2>1
    <2> QED
      BY <2>2 DEF AddsUp
  <1>3. PICK f : f = CHOOSE h : Is(h)
    OBVIOUS
  <1>4. Is(f)
    <2>1. Is(g)
      BY <1>2
    <2> HIDE DEF Is
    <2> QED
      BY <1>3, <2>1
  <1>5. f[Switches] = g[Switches]
    <2>1. AddsUp(f, n, Switches)
      BY <1>2, <1>4
    <2> QED
      BY <2>1, SumIsOne
  <1> HIDE DEF Is
  <1> QED
    BY <1>1, <1>3, <1>5
-----------------------------------------------------------------------------
\* What a bijection counts.
LEMMA SameSize ==
  ASSUME NEW A, IsFiniteSet(A), NEW B, NEW f \in [A -> B],
         \A x, y \in A : f[x] = f[y] => x = y, \A z \in B : \E x \in A : f[x] = z
  PROVE  IsFiniteSet(B) /\ Cardinality(B) = Cardinality(A)
  <1>1. f \in Bijection(A, B)
    BY DEF Bijection, Injection, Surjection, IsInjective
  <1> QED
    BY <1>1, FS_Bijection DEF ExistsBijection

\* The packets that were sent and are about a flow, and those of them with a record at s.
About(flow) == {p \in Sent : FlowOf(p.pid) = flow}
RecordedAt(s, flow) == {p \in About(flow) : p.pid \in Recorded(s)}

(***************************************************************************)
(* The files: a switch that has written its own has its records there and  *)
(* no event will change them; and generate.csv has what was sent.          *)
(***************************************************************************)
ReportInv ==
  /\ phase # "start" =>
       LET reached == Reach(pks, g_tw_ts_end)
       IN  count = [flow \in {Flow(pks[i]) : i \in reached} |->
                      Cardinality({i \in reached : Flow(pks[i]) = flow})]
  /\ DOMAIN output # {} => phase # "start" /\ BagToSet(pending) = {} /\ handling = {}
  /\ \A s \in DOMAIN output : s \in Switches /\ output[s] = Written(StateOf(s).stats)

\* The flow of a packet is that of its line of the trace.
LEMMA FlowIs ==
  ASSUME IsWorkload(pks), NEW i \in DOMAIN pks
  PROVE  FlowOf(pks[i].id) = Flow(pks[i])
  <1>1. pks[i] \in Range(pks)
    BY DEF Range
  <1>2. \A k \in Range(pks) : k.id = pks[i].id => k = pks[i]
    BY DEF IsWorkload, Range
  <1>3. (CHOOSE k \in Range(pks) : k.id = pks[i].id) = pks[i]
    BY <1>1, <1>2
  <1> QED
    BY <1>3 DEF FlowOf

\* As many packets are about a flow as the terminal has counted.
LEMMA SentCounted ==
  ASSUME AllSent, g_tw_ts_end \in Nat, NEW flow
  PROVE  /\ IsFiniteSet(About(flow))
         /\ Cardinality(About(flow))
              = Cardinality({i \in Reach(pks, g_tw_ts_end) : Flow(pks[i]) = flow})
  <1>1. PICK w, R : w = pks /\ R = Reach(pks, g_tw_ts_end)
    OBVIOUS
  <1>2. IsWorkload(w) /\ scheduled = {ArriveEvent(w[i]) : i \in R}
    BY <1>1, Parsed DEF AllSent
  <1>3. R \subseteq DOMAIN w
    BY <1>1 DEF Reach
  <1>4. PICK I : I = {i \in R : Flow(w[i]) = flow}
    OBVIOUS
  <1>5. IsFiniteSet(I)
    <2>1. PICK n \in Nat : DOMAIN w = 1 .. n
      BY <1>2 DEF IsWorkload
    <2>2. I \in SUBSET (1 .. n)
      BY <1>3, <1>4, <2>1
    <2>3. IsFiniteSet(1 .. n)
      BY FS_Interval
    <2> QED
      BY <2>2, <2>3, FS_Subset
  <1>6. PICK f : f = [i \in I |-> ArriveEvent(w[i]).packet]
    OBVIOUS
  <1>7. \A i \in R : ArriveEvent(w[i]).packet.pid = w[i].id
    BY DEF ArriveEvent
  <1>8. Sent = {ArriveEvent(w[i]).packet : i \in R}
    BY <1>2 DEF Sent
  <1>9. \A i \in R : FlowOf(w[i].id) = Flow(w[i])
    BY <1>1, <1>2, <1>3, FlowIs
  <1>10. f \in [I -> About(flow)]
    BY <1>4, <1>6, <1>7, <1>8, <1>9 DEF About
  <1>11. \A i, j \in I : f[i] = f[j] => i = j
    <2>1. ASSUME NEW i \in I, NEW j \in I, f[i] = f[j] PROVE i = j
      <3>1. w[i].id = w[j].id
        BY <1>4, <1>6, <1>7, <2>1
      <3> QED
        BY <1>2, <1>3, <1>4, <3>1 DEF IsWorkload
    <2> QED
      BY <2>1
  <1>12. \A p \in About(flow) : \E i \in I : f[i] = p
    <2>1. ASSUME NEW p \in About(flow) PROVE \E i \in I : f[i] = p
      <3>1. PICK i \in R : p = ArriveEvent(w[i]).packet
        BY <1>8 DEF About
      <3>2. i \in I
        BY <1>4, <1>7, <1>9, <3>1 DEF About
      <3> QED
        BY <1>6, <3>1, <3>2
    <2> QED
      BY <2>1
  <1> QED
    BY <1>1, <1>4, <1>5, <1>10, <1>11, <1>12, SameSize

\* As many lines of the file of s are about a flow as packets have a record there.
LEMMA LinesCounted ==
  ASSUME NetworkInv, ReportInv, NEW s \in DOMAIN output, NEW flow
  PROVE  Cardinality(LinesOf(s, flow)) = Cardinality(RecordedAt(s, flow))
  <1>1. s \in Switches /\ output[s] = Written(StateOf(s).stats)
    BY DEF ReportInv
  <1>2. PICK st, recs : st = StateOf(s).stats /\ recs = Records(s)
    OBVIOUS
  <1>3. RecordsOK(st) /\ recs = st.records
    BY <1>1, <1>2 DEF NetworkInv, PacketsInv, SwitchOK, Records
  <1>4. PICK n \in Nat : n = Len(recs) /\ recs \in [1 .. n -> {recs[i] : i \in 1 .. n}]
    <2>1. recs \in Seq({recs[i] : i \in DOMAIN recs}) /\ Len(recs) \in Nat
      BY <1>3 DEF RecordsOK
    <2>2. DOMAIN recs = 1 .. Len(recs)
      BY <2>1
    <2> QED
      BY <2>1, <2>2
  <1>5. DOMAIN output[s] = 1 .. n /\ \A i \in 1 .. n : output[s][i] = recs[i]
    <2>1. output[s] = SubSeq(recs, 1, n)
      BY <1>1, <1>2, <1>3, <1>4 DEF Written, RecordsOK
    <2> QED
      BY <1>4, <2>1
  <1>6. PICK I : I = LinesOf(s, flow)
    OBVIOUS
  <1>7. I = {i \in 1 .. n : FlowOf(recs[i].pid) = flow}
    BY <1>5, <1>6 DEF LinesOf
  <1>8. \A p, q \in Sent : p.pid = q.pid => p = q
    BY SentUnique
  <1>9. ASSUME NEW i \in 1 .. n
        PROVE  PacketOf(recs[i].pid) \in Sent /\ PacketOf(recs[i].pid).pid = recs[i].pid
    <2>1. recs[i].pid \in RecordedPids[s]
      BY <1>1, <1>2, <1>4 DEF RecordedPids, Recorded
    <2>2. recs[i].pid \in Pids(Sent)
      BY <1>1, <2>1 DEF NetworkInv, PacketsInv, Apart
    <2> QED
      BY <2>2 DEF Pids, PacketOf
  <1>10. Recorded(s) = {recs[i].pid : i \in 1 .. n}
    BY <1>2, <1>4 DEF Recorded
  <1>11. PICK f : f = [i \in I |-> PacketOf(recs[i].pid)]
    OBVIOUS
  <1>12. f \in [I -> RecordedAt(s, flow)]
    <2>1. ASSUME NEW i \in I PROVE f[i] \in RecordedAt(s, flow)
      <3>1. i \in 1 .. n /\ FlowOf(recs[i].pid) = flow
        BY <1>7
      <3>2. f[i] \in Sent /\ f[i].pid = recs[i].pid
        BY <1>9, <1>11, <3>1
      <3> QED
        BY <1>10, <3>1, <3>2 DEF RecordedAt, About
    <2> QED
      BY <1>11, <2>1
  <1>13. \A i, j \in I : f[i] = f[j] => i = j
    <2>1. ASSUME NEW i \in I, NEW j \in I, f[i] = f[j] PROVE i = j
      <3>1. i \in 1 .. n /\ j \in 1 .. n
        BY <1>7
      <3>2. recs[i].pid = recs[j].pid
        BY <1>9, <1>11, <2>1, <3>1
      <3> QED
        BY <1>3, <1>4, <3>1, <3>2 DEF RecordsOK
    <2> QED
      BY <2>1
  <1>14. \A p \in RecordedAt(s, flow) : \E i \in I : f[i] = p
    <2>1. ASSUME NEW p \in RecordedAt(s, flow) PROVE \E i \in I : f[i] = p
      <3>1. p \in Sent /\ FlowOf(p.pid) = flow /\ p.pid \in Recorded(s)
        BY DEF RecordedAt, About
      <3>2. PICK i \in 1 .. n : recs[i].pid = p.pid
        BY <1>10, <3>1
      <3>3. i \in I
        BY <1>7, <3>1, <3>2
      <3>4. PacketOf(recs[i].pid) = p
        BY <1>8, <1>9, <3>1, <3>2
      <3> QED
        BY <1>11, <3>3, <3>4
    <2> QED
      BY <2>1
  <1>15. IsFiniteSet(I)
    <2>1. I \in SUBSET (1 .. n)
      BY <1>7
    <2>2. IsFiniteSet(1 .. n)
      BY FS_Interval
    <2> QED
      BY <2>1, <2>2, FS_Subset
  <1> QED
    BY <1>6, <1>12, <1>13, <1>14, <1>15, SameSize
\* A packet that is left waits or is on its way.
LEMMA LeftIs ==
  ASSUME NetworkInv
  PROVE  \A p : p \in Left <=>
                  p \in Sent /\ (p.pid \in MovingPids \/ \E s \in Switches : p.pid \in WaitingPids[s])
  <1>1. PacketsInv /\ EventsInv
    BY DEF NetworkInv, PacketsInv
  <1>2. \A p, q \in Sent : p.pid = q.pid => p = q
    BY SentUnique
  <1>3. \A s \in Switches : \A p : p \in Waiting(s) <=> p \in Sent /\ p.pid \in WaitingPids[s]
    BY <1>1, <1>2, WaitingIs
  <1>4. OnTheWay = {e \in Live : e.type = "ARRIVE"}
    BY <1>1, EventsFacts
  <1>5. \A e \in OnTheWay : e.packet \in Sent
    BY <1>1, <1>4 DEF EventsInv, EventOK
  <1>6. MovingPids = {e.packet.pid : e \in OnTheWay}
    BY <1>4 DEF MovingPids
  <1>7. \A p : p \in {e.packet : e \in OnTheWay} <=> p \in Sent /\ p.pid \in MovingPids
    BY <1>2, <1>5, <1>6
  <1>8. \A p : p \in UNION {Waiting(s) : s \in Switches} <=> \E s \in Switches : p \in Waiting(s)
    OBVIOUS
  <1> QED
    BY <1>3, <1>7, <1>8 DEF Left

\* The files add up.
LEMMA ReportIsComplete == NetworkInv /\ ReportInv => ReportAddsUp
<1> SUFFICES ASSUME NetworkInv, ReportInv, phase = "over", NEW flow \in DOMAIN count
             PROVE  count[flow] =
                      MapThenSumSet(LAMBDA s : Cardinality({i \in DOMAIN output[s] :
                                                FlowOf(output[s][i].pid) = flow}), Switches)
                        + Cardinality({p \in Left : FlowOf(p.pid) = flow})
  BY DEF ReportAddsUp
<1>1. AllSent /\ g_tw_ts_end \in Nat
  BY DEF NetworkInv, PacketsInv, LoopInv, TerminalInv
<1>2. PICK All : All = About(flow)
  OBVIOUS
<1>3. IsFiniteSet(All) /\ count[flow] = Cardinality(All)
  <2>1. PICK R : R = Reach(pks, g_tw_ts_end)
    OBVIOUS
  <2>2. count = [fl \in {Flow(pks[i]) : i \in R} |-> Cardinality({i \in R : Flow(pks[i]) = fl})]
    BY <2>1 DEF ReportInv
  <2>3. count[flow] = Cardinality({i \in R : Flow(pks[i]) = flow})
    BY <2>2
  <2> QED
    BY <1>1, <1>2, <2>1, <2>3, SentCounted
<1>4. DOMAIN output = Switches
  <2>1. Switches \subseteq DOMAIN output
    BY DEF NetworkInv, DirsInv
  <2> QED
    BY <2>1 DEF ReportInv
<1>5. IsFiniteSet(Switches)
  BY MappingAssumption, FS_Interval DEF Switches
<1>6. PICK F : F = [s \in Switches |-> RecordedAt(s, flow)]
  OBVIOUS
<1>7. PICK W, R, O, Ids : /\ W = WaitingPids /\ R = RecordedPids
                          /\ O = MovingPids /\ Ids = Pids(Sent)
  OBVIOUS
<1>8. Apart(W, R, O, Ids)
  BY <1>7 DEF NetworkInv, PacketsInv
<1>9. \A s \in Switches : \A p : p \in F[s] <=> p \in All /\ p.pid \in R[s]
  BY <1>2, <1>6, <1>7 DEF RecordedAt, RecordedPids
<1>10. PICK rest : rest = {p \in Left : FlowOf(p.pid) = flow}
  OBVIOUS
<1>11. \A p : p \in rest <=> p \in All /\ (p.pid \in O \/ \E s \in Switches : p.pid \in W[s])
  BY <1>2, <1>7, <1>10, LeftIs DEF About
<1>12. PICK written : written = UNION {F[s] : s \in Switches}
  OBVIOUS
<1>13. \A p : p \in written <=> p \in All /\ \E s \in Switches : p.pid \in R[s]
  <2>1. \A p : p \in written <=> \E s \in Switches : p \in F[s]
    BY <1>12
  <2> QED
    BY <1>9, <2>1
<1>14. All = written \cup rest /\ written \cap rest = {}
  <2>1. \A p \in All : p.pid \in Ids
    BY <1>2, <1>7 DEF About, Pids
  <2>2. \A x \in Ids : x \in O \/ (\E s \in Switches : x \in W[s]) \/ \E s \in Switches : x \in R[s]
    BY <1>8, ApartFacts
  <2>3. \A s \in Switches : \A x \in R[s] : x \notin O /\ \A t \in Switches : x \notin W[t]
    BY <1>8, ApartFacts
  <2> QED
    BY <1>11, <1>13, <2>1, <2>2, <2>3
<1>15. Cardinality(All) = Cardinality(written) + Cardinality(rest)
  <2>1. IsFiniteSet(written) /\ IsFiniteSet(rest)
    BY <1>3, <1>14, FS_Subset
  <2>2. Cardinality(written) \in Nat /\ Cardinality(rest) \in Nat
    BY <2>1, FS_CardinalityType
  <2>3. Cardinality(written \cup rest)
          = Cardinality(written) + Cardinality(rest) - Cardinality(written \cap rest)
    BY <2>1, FS_Union
  <2>4. Cardinality(written \cap rest) = 0
    BY <1>14, FS_EmptySet
  <2>5. PICK a \in Nat, b \in Nat, c \in Int :
          a = Cardinality(written) /\ b = Cardinality(rest) /\ c = Cardinality(written \cap rest)
    BY <2>2, <2>4
  <2> QED
    BY <1>14, <2>3, <2>4, <2>5
<1>16. PICK n : n = [s \in Switches |-> Cardinality(F[s])]
  OBVIOUS
<1>17. PICK g : g = [p \in SUBSET Switches |-> Cardinality(UNION {F[s] : s \in p})]
  OBVIOUS
<1>18. AddsUp(g, n, Switches)
  <2>1. \A s \in Switches : F[s] \subseteq All
    BY <1>9
  <2>2. \A s, t \in Switches : s # t => F[s] \cap F[t] = {}
    BY <1>8, <1>9, ApartFacts
  <2> QED
    BY <1>3, <1>16, <1>17, <2>1, <2>2, PartsAddUp
<1>19. \A s \in Switches : n[s] = Cardinality(LinesOf(s, flow))
  BY <1>4, <1>6, <1>16, LinesCounted
<1>20. MapThenSumSet(LAMBDA s : Cardinality({i \in DOMAIN output[s] :
                                                FlowOf(output[s][i].pid) = flow}), Switches)
         = g[Switches]
  BY <1>5, <1>18, <1>19, LinesAddUp
<1>21. g[Switches] = Cardinality(written)
  BY <1>12, <1>17
<1> QED
  BY <1>3, <1>10, <1>15, <1>20, <1>21
-----------------------------------------------------------------------------
\* A step that leaves the events, the switches and the files as they are.
LEMMA QuietKeepsReport ==
  ASSUME ReportInv, UNCHANGED <<swvars, loop, scheduled, g_tw_ts_end, count, output>>,
         phase = "start" <=> phase' = "start", pks' = pks \/ phase = "start"
  PROVE  ReportInv'
  <1>1. /\ pending' = pending /\ handling' = handling /\ Switches' = Switches
    BY DEF loop, Switches
  <1>2. \A s \in Switches : StateOf(s)'.stats = StateOf(s).stats
    BY LoopKeepsStates DEF StatesKept
  <1>3. \A s \in Switches : Written(StateOf(s).stats)' = Written(StateOf(s).stats)
    BY <1>2 DEF Written
  <1> QED
    BY <1>1, <1>3 DEF ReportInv, Reach

\* A step of the loop, before the first file is written.
LEMMA LoopKeepsReport ==
  ASSUME ReportInv, DOMAIN output = {},
         UNCHANGED <<pks, g_tw_ts_end, count, output, phase>>
  PROVE  ReportInv'
  BY DEF ReportInv, Reach

\* The terminal has counted its packets; there are no files yet.
LEMMA PrerunKeepsReport ==
  ASSUME ReportInv, Prerun
  PROVE  ReportInv'
  <1>1. /\ phase = "start" /\ terminal_prerun /\ output' = output
    BY DEF Prerun
  <1>2. DOMAIN output = {}
    BY <1>1 DEF ReportInv
  <1>3. {i \in DOMAIN pks : Reached(i)} = Reach(pks, g_tw_ts_end)
    BY DEF Reached, Reach
  <1>4. /\ pks' = pks /\ g_tw_ts_end' = g_tw_ts_end
        /\ count' = LET reached == Reach(pks, g_tw_ts_end)
                    IN  [flow \in {Flow(pks[i]) : i \in reached} |->
                           Cardinality({i \in reached : Flow(pks[i]) = flow})]
    BY <1>1, <1>3 DEF terminal_prerun
  <1>5. Reach(pks', g_tw_ts_end') = Reach(pks, g_tw_ts_end)
    BY <1>4
  <1> QED
    BY <1>1, <1>2, <1>4, <1>5 DEF ReportInv, Reach

\* One more file is written, when nothing happens any more.
LEMMA FinishKeepsReport ==
  ASSUME ReportInv, NEW s \in Switches, FinishSwitch(s)
  PROVE  ReportInv'
  <1>1. /\ UNCHANGED <<swvars, loop, scheduled, g_tw_ts_end, count, pks>>
        /\ phase = "events" /\ phase' # "start" /\ handling = {} /\ pending = EmptyBag
    BY DEF FinishSwitch, termvars
  <1>2. CASE ~ Opens(s)
    <2>1. output' = output
      BY <1>2 DEF FinishSwitch
    <2> QED
      BY <1>1, <2>1, QuietKeepsReport
  <1>3. CASE Opens(s)
    <2>1. PICK lines : /\ lines = Written(StateOf(s).stats)
                       /\ output' = Extended(output, s, lines)
      BY <1>3 DEF FinishSwitch
    <2>2. /\ DOMAIN output' = DOMAIN output \cup {s}
          /\ output'[s] = lines
          /\ \A t \in DOMAIN output : t # s => output'[t] = output[t]
      <3>1. PICK out, out2 : out = output /\ out2 = output'
        OBVIOUS
      <3>2. out2 = [t \in DOMAIN out \cup {s} |-> IF t = s THEN lines ELSE out[t]]
        BY <2>1, <3>1 DEF Extended
      <3> QED
        BY <3>1, <3>2
    <2>3. \A t \in Switches : StateOf(t)'.stats = StateOf(t).stats
      BY <1>1, LoopKeepsStates DEF StatesKept
    <2>4. \A t \in Switches : Written(StateOf(t).stats)' = Written(StateOf(t).stats)
      BY <2>3 DEF Written
    <2>5. \A t \in DOMAIN output' : t \in Switches' /\ output'[t] = Written(StateOf(t).stats)'
      BY <2>1, <2>2, <2>4 DEF ReportInv, Switches
    <2>6. BagToSet(pending') = {} /\ handling' = {}
      BY <1>1, BagOfSet DEF loop, EmptyBag
    <2> QED
      BY <1>1, <2>5, <2>6 DEF ReportInv, Reach
  <1> QED
    BY <1>2, <1>3

\* Every step keeps the account of the files.
LEMMA ReportNext == NetworkInv /\ ReportInv /\ [Next]_vars => ReportInv'
<1> SUFFICES ASSUME NetworkInv, ReportInv, [Next]_vars PROVE ReportInv'
  OBVIOUS
<1>0. phase # "start" => pks # Unread
  BY DEF NetworkInv, PacketsInv, LoopInv, AllSent
<1>1. ASSUME NEW node \in Nodes, SetUpRank(node) PROVE ReportInv'
  BY <1>1, QuietKeepsReport DEF SetUpRank, termvars
<1>2. ASSUME NEW s \in Switches, InitSwitch(s) PROVE ReportInv'
  BY <1>2, QuietKeepsReport DEF InitSwitch, termvars
<1>3. CASE InitTerminal
  BY <1>0, <1>3, QuietKeepsReport DEF InitTerminal, terminal_init
<1>4. CASE Prerun
  BY <1>4, PrerunKeepsReport
<1>5. ASSUME NEW e \in BagToSet(pending), Dispatch(e) PROVE ReportInv'
  BY <1>5, LoopKeepsReport DEF ReportInv, Dispatch, termvars
<1>6. CASE Handle
  <2>1. handling # {}
    BY <1>6 DEF Handle
  <2>2. UNCHANGED <<termvars, output, phase>>
    BY <1>6 DEF Handle
  <2> QED
    BY <2>1, <2>2, LoopKeepsReport DEF ReportInv, termvars
<1>7. ASSUME NEW s \in Switches, FinishSwitch(s) PROVE ReportInv'
  BY <1>7, FinishKeepsReport
<1>8. CASE UNCHANGED vars
  BY <1>8, QuietKeepsReport DEF vars, termvars
<1> QED
  BY <1>1, <1>2, <1>3, <1>4, <1>5, <1>6, <1>7, <1>8 DEF Next, StartUp, EventLoop

(***************************************************************************)
(* The files add up, in every network: whatever the routing tables, the    *)
(* trace, the classes and the end time are, what generate.csv counts for a *)
(* source, a destination and a class are the lines about it in the files   *)
(* of all switches and the packets that the end of the simulation found in *)
(* queues or on the wire.                                                  *)
(***************************************************************************)
THEOREM NetworkReportAddsUp == Spec => []ReportAddsUp
<1>1. Init => NetworkInv /\ ReportInv
  <2>1. Init => ReportInv
    BY DEF Init, ReportInv
  <2> QED
    BY <2>1, MappingInit, TerminalInit, DirsInit, PacketsInit DEF Init, NetworkInv
<1>2. NetworkInv /\ ReportInv /\ [Next]_vars => NetworkInv' /\ ReportInv'
  <2>1. NetworkInv /\ [Next]_vars => NetworkInv'
    BY StartUpNext, MappingNext, TerminalNext, DirsNext, PacketsNext DEF NetworkInv
  <2> QED
    BY <2>1, ReportNext
<1> QED
  BY <1>1, <1>2, ReportIsComplete, PTL DEF Spec
-----------------------------------------------------------------------------
\* What has been read is one of the readings of a file of the plan.
ConfInv ==
  /\ DOMAIN conf = Switches
  /\ \A s \in Switches : conf[s] # Unread => conf[s] \in Configs[s]

LEMMA ConfInit == Init => ConfInv
BY DEF Init, ConfInv

\* A switch reads its file once, and nothing else changes what it has read.
LEMMA ConfNext == ConfInv /\ [Next]_vars => ConfInv'
<1> SUFFICES ASSUME ConfInv, [Next]_vars PROVE ConfInv'
  OBVIOUS
<1>1. CASE \E s \in Switches : InitSwitch(s)
  <2>1. PICK s \in Switches : \E c \in Configs[s] : conf' = [conf EXCEPT ![s] = c]
    BY <1>1 DEF InitSwitch
  <2> QED
    BY <2>1 DEF ConfInv
<1>2. CASE UNCHANGED conf
  BY <1>2 DEF ConfInv
<1>3. \/ \E s \in Switches : InitSwitch(s)
      \/ UNCHANGED conf
  <2>1. CASE StartUp
    BY <2>1 DEF StartUp, SetUpRank, InitTerminal, Prerun
  <2>2. CASE EventLoop
    BY <2>2 DEF EventLoop, Dispatch, Handle, FinishSwitch
  <2>3. CASE UNCHANGED vars
    BY <2>3 DEF vars
  <2> QED
    BY <2>1, <2>2, <2>3 DEF Next
<1> QED
  BY <1>1, <1>2, <1>3

\* Any of the readings is right.
LEMMA ConfIsRight == ConfInv => ConfigIsRight
<1> SUFFICES ASSUME ConfInv, NEW s \in Switches, conf[s] # Unread
             PROVE  conf[s] = Config[s] /\ Says(conf[s], Plan[s], s)
  BY DEF ConfigIsRight
<1>1. IsPlan(Plan[s])
  BY PlanAssumption
<1>2. Configs[s] = {parseConfigFile(file, s) : file \in FilesOf(Plan[s])}
  BY DEF Configs
<1>3. conf[s] \in Configs[s]
  BY DEF ConfInv
<1>4. PICK f \in FilesOf(Plan[s]) : conf[s] = parseConfigFile(f, s)
  BY <1>2, <1>3
<1>5. Config[s] \in Configs[s]
  <2>1. PICK c : c = CHOOSE d \in Configs[s] : TRUE
    OBVIOUS
  <2>2. c \in Configs[s]
    BY <1>3, <2>1
  <2> QED
    BY <2>1, <2>2 DEF Config
<1>6. PICK g \in FilesOf(Plan[s]) : Config[s] = parseConfigFile(g, s)
  BY <1>2, <1>5
<1>7. conf[s] = Config[s]
  BY <1>1, <1>4, <1>6, OrderIsFree
<1>8. Says(conf[s], Plan[s], s)
  BY <1>1, <1>4, ParserReadsPlan
<1> QED
  BY <1>7, <1>8

(***************************************************************************)
(* For every network: the configuration that a switch has after            *)
(* switch_init is the one that the rest of the model uses, and says what   *)
(* its file says, whatever the order of its segments.                      *)
(***************************************************************************)
THEOREM NetworkReadsItsConfig == Spec => []ConfigIsRight
BY ConfInit, ConfNext, ConfIsRight, PTL DEF Spec
==============================================================================
