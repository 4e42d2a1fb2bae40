---------------------------- MODULE CaptureView ----------------------------
(***************************************************************************)
(* From a JSON value to what is on screen: the parser (api/parse.ts), the  *)
(* layout (lib/layout.ts), what the canvas draws of it (useForceLayout,    *)
(* Graph, MachineGroup, EdgeLine) and what the panel shows of a selection  *)
(* (DetailsPanel.tsx).                                                     *)
(*                                                                         *)
(* A document is checked once and then trusted by all of them. The fields  *)
(* nobody checks are the set of those an entry lacks, or has of a kind     *)
(* that cannot be shown. Positions, radii and words are left out.          *)
(***************************************************************************)
EXTENDS Naturals, Sequences

CONSTANTS
  Address,       \* the "ip:" ids, in the order of their strings
  Machine,       \* the "mac:" ids, which sort after them
  EdgeId,        \* the "edge_" ids
  RawDocuments,  \* the values a file or an answer may hold
  Repicked       \* those picked while another picked document is drawn

\* A string that is no id of this schema.
Junk == 0

ASSUME ViewAssumption ==
  /\ 1..7 \subseteq Address /\ 11..14 \subseteq Machine /\ 1..8 \subseteq EdgeId
  /\ Address \subseteq Nat \ {Junk} /\ Machine \subseteq Nat \ {Junk}
  /\ \A a \in Address, m \in Machine : a < m
  /\ EdgeId \subseteq Nat \ {Junk}

VARIABLES
  doc,        \* the document drawn
  selection,  \* empty, or the kind and the id selected
  page,       \* "drawn", or "blank" once a render has thrown
  verdict     \* what the parser made of the last value

vars == <<doc, selection, page, verdict>>

Members(s) == {s[i] : i \in DOMAIN s}

-----------------------------------------------------------------------------
(* Entries. A list or an entry that is not what it should be is a scalar,  *)
(* or null, or missing; the other fields of such an entry mean nothing.    *)

List(s) == [kind |-> "array", items |-> s]

MachineEntry(id, ids) ==
  [kind |-> "object", id |-> id, node_ids |-> List(ids), traffic |-> TRUE, missing |-> {}]

\* machine_id is null, {}, or the id it names.
NodeEntry(id, machine) ==
  [kind |-> "object", id |-> id, machine_id |-> machine, traffic |-> TRUE, missing |-> {}]

EdgeEntry(id, layer, a, b) ==
  [kind |-> "object", id |-> id, layer |-> layer, endpoints |-> List(<<a, b>>),
   counters |-> TRUE, tcp_health |-> "record", missing |-> {}]

\* head: schema_version is 2.x, capture a record and the three lists arrays.
Document(machines, nodes, edges) ==
  [head |-> TRUE, missing |-> {}, machines |-> machines, nodes |-> nodes, edges |-> edges]

Objects(entries) == {entries[i] : i \in {j \in DOMAIN entries : entries[j].kind = "object"}}

Ids(entries) == {v.id : v \in Objects(entries)}

\* Lists are sequences, and machine_id names one machine at most.
Readable(d) ==
  /\ DOMAIN d.machines \subseteq Nat /\ DOMAIN d.edges \subseteq Nat
  /\ \A v \in Members(d.nodes) : \A a, b \in v.machine_id : a = b

ASSUME DocumentAssumption == \A d \in RawDocuments \cup Repicked : Readable(d)

-----------------------------------------------------------------------------
(* sampleCapture, which is drawn without being parsed.                     *)

SampleMachines ==
  <<MachineEntry(12, <<5, 2>>), MachineEntry(14, <<3>>), MachineEntry(11, <<4>>),
    MachineEntry(13, <<6>>)>>

SampleNodes ==
  <<NodeEntry(5, {12}), NodeEntry(2, {12}), NodeEntry(3, {14}), NodeEntry(4, {11}),
    NodeEntry(6, {13}), NodeEntry(1, {}), NodeEntry(7, {})>>

\* The fourth is a scan: SYNs and not one SYN/ACK.
SampleEdgesOfWorkstation ==
  <<EdgeEntry(1, "l3", 3, 5), EdgeEntry(2, "l3", 4, 5), EdgeEntry(3, "l3", 5, 7),
    EdgeEntry(4, "l3", 5, 6), EdgeEntry(5, "l3", 1, 2)>>

SampleEdges ==
  SampleEdgesOfWorkstation \o
  <<EdgeEntry(6, "l3", 2, 7), EdgeEntry(7, "l3", 3, 6), EdgeEntry(8, "l3", 3, 7)>>

SampleCapture == Document(SampleMachines, SampleNodes, SampleEdges)

-----------------------------------------------------------------------------
(* parse.ts.                                                               *)

IsMachineId(id) == id \in Machine
IsAddressId(id) == id \in Address
IsEdgeId(id) == id \in EdgeId

MachineFaulty(v) ==
  \/ v.kind # "object"
  \/ ~IsMachineId(v.id)
  \/ v.node_ids.kind # "array" \/ \E id \in Members(v.node_ids.items) : ~IsAddressId(id)
  \/ ~v.traffic

NodeFaulty(v) ==
  \/ v.kind # "object"
  \/ ~IsAddressId(v.id)
  \/ \E id \in v.machine_id : ~IsMachineId(id)
  \/ ~v.traffic

EndsFaulty(layer, s) ==
  \/ Len(s) # 2
  \/ layer = "l3" /\ \E id \in Members(s) : ~IsAddressId(id)
  \/ layer = "l2" /\ \E id \in Members(s) : ~IsMachineId(id)
  \/ s[1] > s[2]

EdgeFaulty(v) ==
  \/ v.kind # "object"
  \/ ~IsEdgeId(v.id)
  \/ v.layer \notin {"l3", "l2"}
  \/ v.endpoints.kind # "array" \/ EndsFaulty(v.layer, v.endpoints.items)
  \/ ~v.counters
  \/ v.tcp_health = "scalar"

\* Two entries with one id. Entries whose id is no id of their kind are not
\* remembered, and edges are not compared.
Duplicates(entries, ids) ==
  \E i, j \in DOMAIN entries : /\ i # j
                               /\ entries[i] \in Objects(entries)
                               /\ entries[j] \in Objects(entries)
                               /\ entries[i].id = entries[j].id
                               /\ entries[i].id \in ids

\* Mutation of CrossFaulty: machine_id is not looked up in machines[].
CrossFaultyWithoutMachines(raw) ==
  \/ \E v \in Objects(raw.machines) : \E id \in Members(v.node_ids.items) : id \notin Ids(raw.nodes)
  \/ \E v \in Objects(raw.edges) :
       v.layer = "l3" /\ \E id \in Members(v.endpoints.items) : id \notin Ids(raw.nodes)

\* Cross-references; those of an l2 edge are not looked up.
CrossFaulty(raw) ==
  \/ \E v \in Objects(raw.machines) : \E id \in Members(v.node_ids.items) : id \notin Ids(raw.nodes)
  \/ \E v \in Objects(raw.nodes) : \E id \in v.machine_id : id \notin Ids(raw.machines)
  \/ \E v \in Objects(raw.edges) :
       v.layer = "l3" /\ \E id \in Members(v.endpoints.items) : id \notin Ids(raw.nodes)

\* The cross-references are followed whatever the checks before them found: a
\* null entry has no fields, and a number cannot be iterated over.
Throws(raw) ==
  \/ \E v \in Members(raw.machines) :
       v.kind = "null" \/ (v.kind = "object" /\ v.node_ids.kind = "scalar")
  \/ \E v \in Members(raw.nodes) : v.kind = "null"
  \/ \E v \in Members(raw.edges) :
       v.kind = "null" \/ (v.kind = "object" /\ v.layer = "l3" /\ v.endpoints.kind = "scalar")

Faulty(raw) ==
  \/ \E v \in Members(raw.machines) : MachineFaulty(v)
  \/ \E v \in Members(raw.nodes) : NodeFaulty(v)
  \/ \E v \in Members(raw.edges) : EdgeFaulty(v)
  \/ Duplicates(raw.machines, Machine)
  \/ Duplicates(raw.nodes, Address)
  \/ CrossFaulty(raw)

Parsed(raw) ==
  IF ~raw.head THEN "rejected"
  ELSE IF Throws(raw) THEN "threw"
  ELSE IF Faulty(raw) THEN "rejected" ELSE "accepted"

-----------------------------------------------------------------------------
(* layout.ts: what is drawn of a document, and where.                      *)

\* The places in a machine's list whose address resolves: its children.
Children(d, m) == {i \in DOMAIN m.node_ids.items : m.node_ids.items[i] \in Ids(d.nodes)}

ChildIds(d, m) == {m.node_ids.items[i] : i \in Children(d, m)}

MachineBodies(d) == {m \in Members(d.machines) : Children(d, m) # {}}

\* Mutation of StandsAlone: the pass over the addresses skips none.
StandsAloneAlways(d, n) == n.id \in Ids(d.nodes)

\* No observed binding, or one to a machine that is not there.
StandsAlone(d, n) == n.machine_id \cap Ids(d.machines) = {}

AddressBodies(d) == {n \in Members(d.nodes) : StandsAlone(d, n)}

BodyIds(d) == {m.id : m \in MachineBodies(d)} \cup {n.id : n \in AddressBodies(d)}

\* The circles that stand for an address: pairs of body and place in it.
Circles(d, a) ==
  (UNION {{<<m.id, i>> : i \in {j \in Children(d, m) : m.node_ids.items[j] = a}} : m \in MachineBodies(d)})
    \cup {<<n.id, 1>> : n \in {x \in AddressBodies(d) : x.id = a}}

Listing(d, id) == {i \in DOMAIN d.machines : id \in ChildIds(d, d.machines[i])}

\* placement[id].bodyId: empty when there is none, the last write otherwise.
PlacedIn(d, id) ==
  IF id \in {n.id : n \in AddressBodies(d)} THEN {id}
  ELSE {d.machines[i].id : i \in {j \in Listing(d, id) : \A k \in Listing(d, id) : k <= j}}

LastOfItsId(d, i) == \A j \in DOMAIN d.edges : d.edges[j].id = d.edges[i].id => j <= i

\* Mutation of Links: springs between addresses, as edges have them.
LinksOfAddresses(d) ==
  {<<{d.edges[i].endpoints.items[1]}, {d.edges[i].endpoints.items[2]}>> :
     i \in {j \in DOMAIN d.edges : d.edges[j].layer = "l3" /\ LastOfItsId(d, j)}}

\* The springs: l3 edges, one per id, between bodies that differ.
Links(d) ==
  {l \in {<<PlacedIn(d, d.edges[i].endpoints.items[1]), PlacedIn(d, d.edges[i].endpoints.items[2])>> :
            i \in {j \in DOMAIN d.edges : d.edges[j].layer = "l3" /\ LastOfItsId(d, j)}} :
     l[1] # {} /\ l[2] # {} /\ l[1] # l[2]}

\* Mutation of DrawnEdges: the ends are looked up among the bodies.
DrawnEdgesOfBodies(d) ==
  {d.edges[i] : i \in {j \in DOMAIN d.edges :
     \A id \in Members(d.edges[j].endpoints.items) : id \in BodyIds(d)}}

\* A line needs a place for both of its ends.
DrawnEdges(d) ==
  {d.edges[i] : i \in {j \in DOMAIN d.edges :
     \A id \in Members(d.edges[j].endpoints.items) : PlacedIn(d, id) # {}}}

\* A render that throws leaves a blank page: there is no error boundary.
\* formatCount and isScanLike throw on undefined, forceLink on an id it lacks.
DrawingThrows(d) ==
  \/ "packets_total" \in d.missing
  \/ \E v \in Members(d.edges) : v.tcp_health = "absent"
  \/ \E l \in Links(d) : ~(l[1] \cup l[2] \subseteq BodyIds(d))

-----------------------------------------------------------------------------
(* DetailsPanel.tsx: what is found of a selection, and what is missing.    *)

\* The entries a selection names; the panel shows the first.
Named(d, s) ==
  CASE s.kind = "machine" -> {v \in Members(d.machines) : v.id = s.id}
    [] s.kind = "node" -> {v \in Members(d.nodes) : v.id = s.id}
    [] s.kind = "edge" ->
         {d.edges[i] : i \in {j \in DOMAIN d.edges :
                                /\ d.edges[j].id = s.id
                                /\ \A k \in DOMAIN d.edges : k < j => d.edges[k].id # s.id}}

\* The ids the panel reports as referenced and not in the document.
DanglingIn(d, s) ==
  CASE Named(d, s) = {} -> {s.id}
    [] s.kind = "machine" -> (UNION {Members(v.node_ids.items) : v \in Named(d, s)}) \ Ids(d.nodes)
    [] s.kind = "node" -> (UNION {v.machine_id : v \in Named(d, s)}) \ Ids(d.machines)
    [] s.kind = "edge" -> (UNION {Members(v.endpoints.items) : v \in Named(d, s)}) \ Ids(d.nodes)

\* seen: first_seen and last_seen, which formatTime takes apart.
MachinePanelThrows(v) == v.missing \cap {"hostnames", "seen"} # {}

\* bindings: an observed binding lacks its times. Having none is no matter.
NodePanelThrows(v) == v.missing \cap {"hostnames", "seen", "bindings"} # {}

\* services: an entry of services lacks its counts or protocols; counts: a
\* tcp_health that is a record, but an empty one.
EdgePanelThrows(v) ==
  \/ v.missing \cap {"seen", "services"} # {}
  \/ v.tcp_health = "record" /\ "counts" \in v.missing

PanelThrows(d, s) ==
  \E v \in Named(d, s) :
    CASE s.kind = "machine" -> MachinePanelThrows(v)
      [] s.kind = "node" -> NodePanelThrows(v)
      [] s.kind = "edge" -> EdgePanelThrows(v)

-----------------------------------------------------------------------------
(* The page.                                                               *)

Selections == {{}} \cup {{s} : s \in [kind : {"machine"}, id : Machine]
                                  \cup [kind : {"node"}, id : Address]
                                  \cup [kind : {"edge"}, id : EdgeId]}

Init ==
  /\ doc = SampleCapture
  /\ selection = {}
  /\ page = "drawn"
  /\ verdict = "none"

Select(kind, id) ==
  /\ selection' = {[kind |-> kind, id |-> id]}
  /\ page' = IF PanelThrows(doc, [kind |-> kind, id |-> id]) THEN "blank" ELSE "drawn"
  /\ UNCHANGED <<doc, verdict>>

\* A machine's circle selects the machine; the circles in it are inert.
ClickMachine ==
  /\ page = "drawn"
  /\ \E m \in MachineBodies(doc) : Select("machine", m.id)

ClickAddress ==
  /\ page = "drawn"
  /\ \E n \in AddressBodies(doc) : Select("node", n.id)

ClickEdge ==
  /\ page = "drawn"
  /\ \E e \in DrawnEdges(doc) : Select("edge", e.id)

\* The panel of a machine lists its addresses ...
FollowAddress ==
  /\ page = "drawn"
  /\ \E s \in selection : /\ s.kind = "machine"
                          /\ \E v \in Named(doc, s) : \E id \in ChildIds(doc, v) : Select("node", id)

\* ... and that of an address its machine.
FollowMachine ==
  /\ page = "drawn"
  /\ \E s \in selection : /\ s.kind = "node"
                          /\ \E v \in Named(doc, s) :
                               \E id \in v.machine_id \cap Ids(doc.machines) : Select("machine", id)

ClearSelection ==
  /\ page = "drawn"
  /\ selection # {}
  /\ selection' = {}
  /\ UNCHANGED <<doc, page, verdict>>

\* A value arrives and is parsed: loadDocument, or the reasons it is none.
Load(raw) ==
  /\ page = "drawn"
  /\ verdict' = Parsed(raw)
  /\ IF verdict' = "accepted"
     THEN /\ doc' = raw /\ selection' = {}
          /\ page' = IF DrawingThrows(raw) THEN "blank" ELSE "drawn"
     ELSE UNCHANGED <<doc, selection, page>>

\* Bound: few values are tried with a picked document on screen.
LoadDocument == \E raw \in IF doc = SampleCapture THEN RawDocuments ELSE Repicked : Load(raw)

\* Back to sample, and the browser's reload, which is all a blank page offers.
Reset ==
  /\ page = "drawn"
  /\ doc # SampleCapture
  /\ doc' = SampleCapture /\ selection' = {}
  /\ UNCHANGED <<page, verdict>>

Reload == doc' = SampleCapture /\ selection' = {} /\ page' = "drawn" /\ verdict' = "none"

Next ==
  \/ ClickMachine \/ ClickAddress \/ ClickEdge
  \/ FollowAddress \/ FollowMachine \/ ClearSelection
  \/ LoadDocument \/ Reset \/ Reload

Spec == Init /\ [][Next]_vars

-----------------------------------------------------------------------------
(* Properties.                                                             *)

\* machines[].node_ids and nodes[].machine_id say the same, which the parser
\* does not compare.
ListsAgree(d) ==
  /\ \A m \in Members(d.machines) : \A i, j \in DOMAIN m.node_ids.items :
       m.node_ids.items[i] = m.node_ids.items[j] => i = j
  /\ \A m \in Members(d.machines), n \in Members(d.nodes) :
       n.id \in Members(m.node_ids.items) <=> m.id \in n.machine_id

\* Every address of a document that was let through is one circle, and that
\* circle is in the body its edges are tied to: the pass over the machines and
\* the pass over the addresses neither miss one nor draw one twice ("Never
\* invent a parent", layout.ts), as long as the two lists agree.
DrawnOnce ==
  page = "drawn" /\ ListsAgree(doc) =>
    \A n \in Members(doc.nodes) :
      \E c \in Circles(doc, n.id) : Circles(doc, n.id) = {c} /\ PlacedIn(doc, n.id) = {c[1]}

\* An edge id that several edges carry, which the parser does not look for: the
\* panel shows the first of them, whichever line was clicked, and looks the
\* machines of an l2 edge up among the addresses.
EdgeIdRepeats(d, id) == \E i, j \in DOMAIN d.edges : i # j /\ d.edges[i].id = id /\ d.edges[j].id = id

\* What the parser lets through has no dangling reference the panel could
\* meet, along any path of clicks, with documents replaced in between, unless
\* an edge id repeats.
NoDanglingShown ==
  \A s \in selection : DanglingIn(doc, s) = {} \/ (s.kind = "edge" /\ EdgeIdRepeats(doc, s.id))

\* The page goes blank only over a field the parser leaves unchecked: the
\* references between machines, addresses, edges and the simulation's links
\* never do it, however the lists disagree and whatever ids repeat.
OnlyUncheckedFieldsCrash ==
  page = "blank" =>
    \/ doc.missing # {}
    \/ \E v \in Members(doc.machines) \cup Members(doc.nodes) \cup Members(doc.edges) : v.missing # {}
    \/ \E v \in Members(doc.edges) : v.tcp_health = "absent"

\* "draws every conversation" (Graph.test.tsx): both ends of every l3 edge have
\* a place, whichever address is grouped and whichever stands alone, as long as
\* the two lists agree. The ends of an l2 edge are machines, which have none.
EveryConversationDrawn ==
  page = "drawn" /\ ListsAgree(doc) =>
    \A e \in Members(doc.edges) : e.layer = "l3" => e \in DrawnEdges(doc)
=============================================================================
