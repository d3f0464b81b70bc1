---------------------------- MODULE ConfigParser ----------------------------
(***************************************************************************)
(* model/util/config_parser.c: how the description of a switch becomes its *)
(* list of ports and its routing table.  The file is read line by line; a  *)
(* line that is not indented opens a segment, and the lines of the routing *)
(* segment come in groups of three.  A line is [indented, word, value];    *)
(* the cutting of its text into words is left out.                         *)
(***************************************************************************)
EXTENDS Integers, SequencesExt

null_route == [dest |-> -1, nextHop |-> -1, portName |-> "", port_id |-> -1]

\* The parser's variables before the first line.
Parser ==
  [segment |-> "", lineInGroup |-> 0, currentGroup |-> 0, maxDestId |-> 0,
   type |-> "", ports |-> <<>>, routes |-> <<>>]

OpenSegment(p, line) ==
  CASE line.word = "ports"   -> [p EXCEPT !.segment = "ports", !.ports = <<>>]
    [] line.word = "routing" -> [p EXCEPT !.segment = "routing", !.lineInGroup = 0, !.routes = <<>>]
    [] line.word = "type"    -> [p EXCEPT !.segment = "type", !.type = line.value]
    [] OTHER                 -> [p EXCEPT !.segment = line.word]

PortLine(p, line) ==
  [p EXCEPT !.ports = Append(@, [id |-> Len(@), name |-> line.word, bandwidth |-> line.value])]

RouteLine(p, line) ==
  CASE p.lineInGroup = 0 ->
         [p EXCEPT !.routes = Append(@, [null_route EXCEPT !.dest = line.word]),
                   !.maxDestId = IF line.word > @ THEN line.word ELSE @,
                   !.lineInGroup = 1]
    [] p.lineInGroup = 1 ->
         [p EXCEPT !.routes[p.currentGroup + 1].nextHop = line.value, !.lineInGroup = 2]
    [] p.lineInGroup = 2 ->
         [p EXCEPT !.routes[p.currentGroup + 1].portName = line.value,
                   !.lineInGroup = 0, !.currentGroup = @ + 1]

ReadLine(p, line) ==
  IF ~ line.indented THEN OpenSegment(p, line)
  ELSE CASE p.segment = "ports"   -> PortLine(p, line)
         [] p.segment = "routing" -> RouteLine(p, line)
         [] OTHER                 -> p

\* The id of the first port of that name.
getPortIDByName(ports, name) ==
  LET named == {i \in DOMAIN ports : ports[i].name = name}
  IN  IF named = {} THEN -1 ELSE ports[Min(named)].id

\* Fault: a route that is given again does not replace the first.
RoutingTableKeepsFirst(p) ==
  LET put(table, r) ==
        IF table[r.dest] # null_route THEN table
        ELSE [table EXCEPT ![r.dest] = [r EXCEPT !.port_id = getPortIDByName(p.ports, r.portName)]]
  IN  FoldLeft(put, [dest \in 0 .. p.maxDestId |-> null_route], SubSeq(p.routes, 1, p.currentGroup))

\* The routes, each with the id of its port, go to the entries of their
\* destinations, one after the other.
RoutingTable(p) ==
  LET put(table, r) ==
        [table EXCEPT ![r.dest] = [r EXCEPT !.port_id = getPortIDByName(p.ports, r.portName)]]
  IN  FoldLeft(put, [dest \in 0 .. p.maxDestId |-> null_route], SubSeq(p.routes, 1, p.currentGroup))

parseConfigFile(lines, id) ==
  LET p == FoldLeft(ReadLine, Parser, lines)
  IN  [id |-> id, type |-> p.type, ports |-> p.ports, routing |-> RoutingTable(p)]
-----------------------------------------------------------------------------
(***************************************************************************)
(* The files that say what a plan [type, ports, routes] says: its segments *)
(* in any order, the ports and the routes in theirs.                       *)
(***************************************************************************)
Top(word, value)      == [indented |-> FALSE, word |-> word, value |-> value]
Indented(word, value) == [indented |-> TRUE, word |-> word, value |-> value]

Segments(plan) ==
  LET group(r) == <<Indented(r.dest, ""), Indented("next_hop", r.nextHop),
                    Indented("port", r.portName)>>
  IN  {<<Top("type", plan.type)>>,
       <<Top("ports", "")>> \o
         [i \in DOMAIN plan.ports |-> Indented(plan.ports[i].name, plan.ports[i].bandwidth)],
       <<Top("routing", "")>> \o
         FlattenSeq([i \in DOMAIN plan.routes |-> group(plan.routes[i])])}

FilesOf(plan) == {FlattenSeq(order) : order \in SetToSeqs(Segments(plan))}

\* What the files are written from: routes to ids, out of ports that there are.
IsPlan(plan) ==
  /\ plan.ports \in Seq(Range(plan.ports)) /\ plan.routes \in Seq(Range(plan.routes))
  /\ \A r \in Range(plan.routes) :
       r.dest \in Nat /\ \E port \in Range(plan.ports) : port.name = r.portName

\* The entry for a destination is the last route to it, out of the port
\* that has the name the route gives.
EntryIsRight(entry, plan, dest) ==
  LET those == {i \in DOMAIN plan.routes : plan.routes[i].dest = dest}
      r     == plan.routes[Max(those)]
  IN  IF those = {} THEN entry = null_route
      ELSE /\ <<entry.dest, entry.nextHop>> = <<dest, r.nextHop>>
           /\ plan.ports[entry.port_id + 1].name = r.portName

\* The configuration of switch id says what the plan says.
Says(config, plan, id) ==
  /\ config.id = id /\ config.type = plan.type
  /\ [i \in DOMAIN config.ports |-> <<config.ports[i].name, config.ports[i].bandwidth>>]
       = [i \in DOMAIN plan.ports |-> <<plan.ports[i].name, plan.ports[i].bandwidth>>]
  /\ \A i \in DOMAIN config.ports : config.ports[i].id = i - 1
  /\ \A r \in Range(plan.routes) : r.dest \in DOMAIN config.routing
  /\ \A dest \in DOMAIN config.routing : EntryIsRight(config.routing[dest], plan, dest)
=============================================================================
