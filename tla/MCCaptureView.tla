--------------------------- MODULE MCCaptureView ---------------------------
(* Documents of at most two machines, addresses and edges: well-shaped ones *)
(* with every way for their lists to disagree, and sound ones with one      *)
(* entry damaged.                                                           *)
EXTENDS CaptureView

MCAddress == 1..7
MCMachine == 11..14
MCEdgeId == 1..8

MachineLists ==
  LET Lists == {<<>>, <<1>>, <<2>>, <<1, 2>>, <<1, 1>>}
  IN {<<>>, <<MachineEntry(11, <<1>>), MachineEntry(11, <<2>>)>>}
       \cup {<<MachineEntry(11, s)>> : s \in Lists}
       \cup {<<MachineEntry(11, s), MachineEntry(12, t)>> : s \in Lists, t \in {<<>>, <<1>>, <<2>>}}

NodeLists ==
  LET Bindings == {{}, {11}, {12}}
  IN {<<>>, <<NodeEntry(1, {}), NodeEntry(1, {11})>>}
       \cup {<<NodeEntry(1, b)>> : b \in Bindings}
       \cup {<<NodeEntry(1, b), NodeEntry(2, c)>> : b, c \in Bindings}

EdgeLists ==
  LET Pair(id) == EdgeEntry(id, "l3", 1, 2)
      Loop(id) == EdgeEntry(id, "l3", 1, 1)
      Arp(id) == EdgeEntry(id, "l2", 11, 12)
  IN {<<>>, <<Pair(1)>>, <<Loop(1)>>, <<Arp(1)>>, <<Pair(1), Arp(2)>>, <<Pair(1), Loop(1)>>, <<Arp(1), Pair(1)>>}

WellShaped == {Document(ms, ns, es) : ms \in MachineLists, ns \in NodeLists, es \in EdgeLists}

\* An entry gone wrong in one way.
Damaged(v) ==
  {[v EXCEPT !.kind = k] : k \in {"null", "scalar"}} \cup
  {[v EXCEPT !.id = Junk], [v EXCEPT !.missing = {"seen"}]}

DamagedMachine(v) ==
  Damaged(v) \cup
  {[v EXCEPT !.node_ids = [kind |-> k, items |-> <<>>]] : k \in {"absent", "scalar"}} \cup
  {[v EXCEPT !.node_ids = List(<<Junk>>)], [v EXCEPT !.traffic = FALSE], [v EXCEPT !.missing = {"hostnames"}]}

DamagedNode(v) ==
  Damaged(v) \cup {[v EXCEPT !.machine_id = {b}] : b \in {Junk, 13}} \cup
  {[v EXCEPT !.traffic = FALSE], [v EXCEPT !.missing = {"hostnames"}], [v EXCEPT !.missing = {"bindings"}]}

DamagedEdge(v) ==
  Damaged(v) \cup
  {[v EXCEPT !.endpoints = [kind |-> k, items |-> <<>>]] : k \in {"absent", "scalar"}} \cup
  {[v EXCEPT !.endpoints = List(s)] : s \in {<<1>>, <<2, 1>>, <<1, 11>>, <<1, 3>>}} \cup
  {[v EXCEPT !.tcp_health = h] : h \in {"null", "absent", "scalar"}} \cup
  {[v EXCEPT !.layer = "l4"], [v EXCEPT !.counters = FALSE],
   [v EXCEPT !.missing = {"services"}], [v EXCEPT !.missing = {"counts"}]}

DamagedDocuments(d) ==
  {[d EXCEPT !.head = FALSE], [d EXCEPT !.missing = {"packets_total"}]} \cup
  (UNION {{[d EXCEPT !.machines[i] = v] : v \in DamagedMachine(d.machines[i])} : i \in DOMAIN d.machines}) \cup
  (UNION {{[d EXCEPT !.nodes[i] = v] : v \in DamagedNode(d.nodes[i])} : i \in DOMAIN d.nodes}) \cup
  (UNION {{[d EXCEPT !.edges[i] = v] : v \in DamagedEdge(d.edges[i])} : i \in DOMAIN d.edges})

\* Two machines with an address each, one machine with both, none at all.
Sound ==
  {Document(<<MachineEntry(11, <<1>>), MachineEntry(12, <<2>>)>>,
            <<NodeEntry(1, {11}), NodeEntry(2, {12})>>, <<EdgeEntry(1, "l3", 1, 2), EdgeEntry(2, "l2", 11, 12)>>),
   Document(<<MachineEntry(11, <<1, 2>>)>>, <<NodeEntry(1, {11}), NodeEntry(2, {11})>>, <<EdgeEntry(1, "l3", 1, 2)>>),
   Document(<<>>, <<NodeEntry(1, {}), NodeEntry(2, {})>>, <<EdgeEntry(1, "l3", 1, 2)>>)}

MCRawDocuments == WellShaped \cup UNION {DamagedDocuments(d) : d \in Sound}

\* Tried over a picked document: one that is let through and one that is not.
MCRepicked ==
  {Document(<<MachineEntry(12, <<1>>)>>, <<NodeEntry(1, {12})>>, <<EdgeEntry(2, "l3", 1, 1)>>),
   Document(<<MachineEntry(11, <<2>>)>>, <<NodeEntry(1, {11})>>, <<>>)}
=============================================================================
