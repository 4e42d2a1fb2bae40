-------------------------- MODULE CaptureViewProofs --------------------------
(***************************************************************************)
(* What holds of every document the parser lets through, however many      *)
(* machines, addresses and edges it has and whatever is clicked: it is     *)
(* trusted by the layout and the panel, and this is what the trust rests   *)
(* on.                                                                     *)
(***************************************************************************)
EXTENDS CaptureView, SequenceTheorems, TLAPS

USE ViewAssumption

\* A document whose entries the parser found nothing wrong with.
Trusted(d) == ~Faulty(d) /\ Readable(d)

-----------------------------------------------------------------------------
(* The sample passes the parser.                                           *)

LEMMA MembersOfConcat ==
  ASSUME NEW S, NEW s \in Seq(S), NEW t \in Seq(S)
  PROVE  Members(s \o t) = Members(s) \cup Members(t)
<1>1. /\ Len(s) \in Nat /\ Len(t) \in Nat
      /\ DOMAIN s = 1..Len(s) /\ DOMAIN t = 1..Len(t)
  BY LenProperties
<1>2. /\ DOMAIN (s \o t) = 1..(Len(s) + Len(t))
      /\ \A i \in 1..(Len(s) + Len(t)) : (s \o t)[i] = IF i <= Len(s) THEN s[i] ELSE t[i - Len(s)]
  BY ConcatProperties, LenProperties
<1>3. ASSUME NEW i \in 1..Len(t) PROVE t[i] \in Members(s \o t)
  <2>1. i + Len(s) \in 1..(Len(s) + Len(t)) /\ (s \o t)[i + Len(s)] = t[i]
    BY <1>1, <1>2
  <2>. QED BY <1>2, <2>1 DEF Members
<1>4. Members(s) \subseteq Members(s \o t)
  BY <1>1, <1>2 DEF Members
<1>5. Members(s \o t) \subseteq Members(s) \cup Members(t)
  BY <1>1, <1>2 DEF Members
<1>. QED BY <1>1, <1>3, <1>4, <1>5 DEF Members

LEMMA SampleEntries ==
  /\ Members(SampleMachines) =
       {MachineEntry(12, <<5, 2>>), MachineEntry(14, <<3>>), MachineEntry(11, <<4>>), MachineEntry(13, <<6>>)}
  /\ Members(SampleNodes) =
       {NodeEntry(5, {12}), NodeEntry(2, {12}), NodeEntry(3, {14}), NodeEntry(4, {11}),
        NodeEntry(6, {13}), NodeEntry(1, {}), NodeEntry(7, {})}
  /\ Members(SampleEdges) =
       {EdgeEntry(1, "l3", 3, 5), EdgeEntry(2, "l3", 4, 5), EdgeEntry(3, "l3", 5, 7),
        EdgeEntry(4, "l3", 5, 6), EdgeEntry(5, "l3", 1, 2),
        EdgeEntry(6, "l3", 2, 7), EdgeEntry(7, "l3", 3, 6), EdgeEntry(8, "l3", 3, 7)}
<1>1. Members(SampleMachines) =
        {MachineEntry(12, <<5, 2>>), MachineEntry(14, <<3>>), MachineEntry(11, <<4>>), MachineEntry(13, <<6>>)}
  BY DEF Members, SampleMachines
<1>2. Members(SampleNodes) =
        {NodeEntry(5, {12}), NodeEntry(2, {12}), NodeEntry(3, {14}), NodeEntry(4, {11}),
         NodeEntry(6, {13}), NodeEntry(1, {}), NodeEntry(7, {})}
  BY DEF Members, SampleNodes
<1>3. Members(SampleEdges) =
        {EdgeEntry(1, "l3", 3, 5), EdgeEntry(2, "l3", 4, 5), EdgeEntry(3, "l3", 5, 7),
         EdgeEntry(4, "l3", 5, 6), EdgeEntry(5, "l3", 1, 2),
         EdgeEntry(6, "l3", 2, 7), EdgeEntry(7, "l3", 3, 6), EdgeEntry(8, "l3", 3, 7)}
  <2>. DEFINE others == <<EdgeEntry(6, "l3", 2, 7), EdgeEntry(7, "l3", 3, 6), EdgeEntry(8, "l3", 3, 7)>>
              S == Members(SampleEdgesOfWorkstation) \cup Members(others)
  <2>1. /\ Members(SampleEdgesOfWorkstation) =
             {EdgeEntry(1, "l3", 3, 5), EdgeEntry(2, "l3", 4, 5), EdgeEntry(3, "l3", 5, 7),
              EdgeEntry(4, "l3", 5, 6), EdgeEntry(5, "l3", 1, 2)}
        /\ Members(others) = {EdgeEntry(6, "l3", 2, 7), EdgeEntry(7, "l3", 3, 6), EdgeEntry(8, "l3", 3, 7)}
    BY DEF Members, SampleEdgesOfWorkstation
  <2>2. SampleEdgesOfWorkstation \in Seq(S) /\ others \in Seq(S)
    BY <2>1 DEF SampleEdgesOfWorkstation
  <2>3. Members(SampleEdges) = Members(SampleEdgesOfWorkstation) \cup Members(others)
    <3>1. SampleEdges = SampleEdgesOfWorkstation \o others
      BY DEF SampleEdges
    <3>. HIDE DEF others, S
    <3>. QED BY <2>2, <3>1, MembersOfConcat
  <2>. QED BY <2>1, <2>3
<1>. QED BY <1>1, <1>2, <1>3

\* The sample's edges are one list.
LEMMA SampleEdgesAreASequence == SampleEdges \in Seq(Members(SampleEdges))
<1>. DEFINE others == <<EdgeEntry(6, "l3", 2, 7), EdgeEntry(7, "l3", 3, 6), EdgeEntry(8, "l3", 3, 7)>>
<1>1. /\ EdgeEntry(1, "l3", 3, 5) \in Members(SampleEdges) /\ EdgeEntry(2, "l3", 4, 5) \in Members(SampleEdges)
      /\ EdgeEntry(3, "l3", 5, 7) \in Members(SampleEdges) /\ EdgeEntry(4, "l3", 5, 6) \in Members(SampleEdges)
      /\ EdgeEntry(5, "l3", 1, 2) \in Members(SampleEdges) /\ EdgeEntry(6, "l3", 2, 7) \in Members(SampleEdges)
      /\ EdgeEntry(7, "l3", 3, 6) \in Members(SampleEdges) /\ EdgeEntry(8, "l3", 3, 7) \in Members(SampleEdges)
  <2>. HIDE DEF others
  <2>. QED BY SampleEntries, Zenon
<1>2. SampleEdgesOfWorkstation \in Seq(Members(SampleEdges)) /\ others \in Seq(Members(SampleEdges))
  <2>1. SampleEdgesOfWorkstation \in Seq(Members(SampleEdges))
    BY <1>1 DEF SampleEdgesOfWorkstation
  <2>2. others \in Seq(Members(SampleEdges))
    BY <1>1
  <2>. QED BY <2>1, <2>2
<1>3. SampleEdges = SampleEdgesOfWorkstation \o others
  BY DEF SampleEdges
<1>. HIDE DEF others
<1>. QED BY <1>2, <1>3, ConcatProperties

\* The parser finds nothing wrong with the sample, although it never sees it.
LEMMA SampleIsTrusted == Trusted(SampleCapture)
<1>. DEFINE raw == SampleCapture
<1>1. /\ raw.machines = SampleMachines /\ raw.nodes = SampleNodes /\ raw.edges = SampleEdges
      /\ raw.missing = {}
  BY DEF SampleCapture, Document
<1>2. /\ Objects(SampleMachines) = Members(SampleMachines)
      /\ Objects(SampleNodes) = Members(SampleNodes)
      /\ Objects(SampleEdges) = Members(SampleEdges)
  <2>1. /\ \A v \in Members(SampleMachines) : v.kind = "object"
        /\ \A v \in Members(SampleNodes) : v.kind = "object"
        /\ \A v \in Members(SampleEdges) : v.kind = "object"
    BY SampleEntries DEF MachineEntry, NodeEntry, EdgeEntry
  <2>. QED BY <2>1 DEF Objects, Members
<1>3. Ids(SampleMachines) = {11, 12, 13, 14} /\ Ids(SampleNodes) = 1..7
  BY <1>2, SampleEntries DEF Ids, MachineEntry, NodeEntry
<1>4. \A v \in Members(SampleMachines) : ~MachineFaulty(v) /\ Members(v.node_ids.items) \subseteq 1..7
  BY SampleEntries DEF MachineEntry, MachineFaulty, List, Members, IsMachineId, IsAddressId
<1>5. \A v \in Members(SampleNodes) : ~NodeFaulty(v) /\ v.machine_id \subseteq {11, 12, 13, 14}
  BY SampleEntries DEF NodeEntry, NodeFaulty, IsMachineId, IsAddressId
<1>6. \A v \in Members(SampleEdges) : ~EdgeFaulty(v) /\ Members(v.endpoints.items) \subseteq 1..7
  BY SampleEntries DEF EdgeEntry, EdgeFaulty, EndsFaulty, List, Members, IsEdgeId, IsAddressId
<1>7. ~Duplicates(SampleMachines, Machine)
  BY DEF Duplicates, SampleMachines, MachineEntry
<1>8. ~Duplicates(SampleNodes, Address)
  BY DEF Duplicates, SampleNodes, NodeEntry
<1>9. ~CrossFaulty(raw)
  BY <1>1, <1>2, <1>3, <1>4, <1>5, <1>6 DEF CrossFaulty
<1>10. Readable(raw)
  <2>1. DOMAIN SampleMachines \subseteq Nat
    BY DEF SampleMachines
  <2>2. DOMAIN SampleEdges \subseteq Nat
    BY SampleEdgesAreASequence, LenProperties
  <2>. QED BY <1>1, <2>1, <2>2, SampleEntries DEF Readable, NodeEntry
<1>. QED BY <1>1, <1>4, <1>5, <1>6, <1>7, <1>8, <1>9, <1>10 DEF Trusted, Faulty

-----------------------------------------------------------------------------
(* The parser and the layout.                                              *)

\* What is on screen was let through, or is the sample.
TrustedDoc == Trusted(doc)

\* What follows from an entry the parser found nothing wrong with.
LEMMA TrustedEntries ==
  ASSUME NEW d, Trusted(d)
  PROVE  /\ Objects(d.machines) = Members(d.machines)
         /\ Objects(d.nodes) = Members(d.nodes)
         /\ Objects(d.edges) = Members(d.edges)
         /\ \A v \in Members(d.machines) : v.id \in Machine /\ Members(v.node_ids.items) \subseteq Ids(d.nodes)
         /\ \A v \in Members(d.nodes) : v.id \in Address /\ v.machine_id \subseteq Ids(d.machines)
         /\ \A i, j \in DOMAIN d.machines : d.machines[i].id = d.machines[j].id => i = j
         /\ \A i, j \in DOMAIN d.nodes : d.nodes[i].id = d.nodes[j].id => i = j
<1>1. /\ \A v \in Members(d.machines) : v.kind = "object" /\ v.id \in Machine
      /\ \A v \in Members(d.nodes) : v.kind = "object" /\ v.id \in Address
      /\ \A v \in Members(d.edges) : v.kind = "object"
  BY DEF Trusted, Faulty, MachineFaulty, NodeFaulty, EdgeFaulty, IsMachineId, IsAddressId
<1>2. /\ Objects(d.machines) = Members(d.machines)
      /\ Objects(d.nodes) = Members(d.nodes)
      /\ Objects(d.edges) = Members(d.edges)
  BY <1>1 DEF Objects, Members
<1>3. /\ \A v \in Members(d.machines) : Members(v.node_ids.items) \subseteq Ids(d.nodes)
      /\ \A v \in Members(d.nodes) : v.machine_id \subseteq Ids(d.machines)
  BY <1>2 DEF Trusted, Faulty, CrossFaulty
<1>4. ASSUME NEW i \in DOMAIN d.machines, NEW j \in DOMAIN d.machines, d.machines[i].id = d.machines[j].id
      PROVE  i = j
  <2>1. /\ d.machines[i] \in Objects(d.machines) /\ d.machines[j] \in Objects(d.machines)
        /\ d.machines[i].id \in Machine
    BY <1>1, <1>2 DEF Members
  <2>. QED BY <1>4, <2>1 DEF Trusted, Faulty, Duplicates
<1>5. ASSUME NEW i \in DOMAIN d.nodes, NEW j \in DOMAIN d.nodes, d.nodes[i].id = d.nodes[j].id
      PROVE  i = j
  <2>1. /\ d.nodes[i] \in Objects(d.nodes) /\ d.nodes[j] \in Objects(d.nodes)
        /\ d.nodes[i].id \in Address
    BY <1>1, <1>2 DEF Members
  <2>. QED BY <1>5, <2>1 DEF Trusted, Faulty, Duplicates
<1>. QED BY <1>1, <1>2, <1>3, <1>4, <1>5

\* A place is that of a body, and only an address of the document has one.
LEMMA PlacesAreBodies ==
  ASSUME NEW d, NEW id
  PROVE  /\ PlacedIn(d, id) \subseteq BodyIds(d)
         /\ PlacedIn(d, id) # {} =>
              \/ \E n \in Members(d.nodes) : n.id = id
              \/ id \in Ids(d.nodes)
<1>1. CASE id \in {n.id : n \in AddressBodies(d)}
  <2>1. PlacedIn(d, id) = {id} /\ id \in BodyIds(d)
    BY <1>1 DEF PlacedIn, BodyIds
  <2>2. \E n \in Members(d.nodes) : n.id = id
    BY <1>1 DEF AddressBodies
  <2>. QED BY <2>1, <2>2
<1>2. CASE id \notin {n.id : n \in AddressBodies(d)}
  <2>1. PlacedIn(d, id) =
          {d.machines[i].id : i \in {j \in Listing(d, id) : \A k \in Listing(d, id) : k <= j}}
    BY <1>2 DEF PlacedIn
  <2>2. ASSUME NEW i \in Listing(d, id)
        PROVE  d.machines[i].id \in BodyIds(d) /\ id \in Ids(d.nodes)
    <3>1. d.machines[i] \in Members(d.machines) /\ id \in ChildIds(d, d.machines[i])
      BY DEF Listing, Members
    <3>2. Children(d, d.machines[i]) # {} /\ id \in Ids(d.nodes)
      BY <3>1 DEF ChildIds, Children
    <3>3. d.machines[i] \in MachineBodies(d)
      BY <3>1, <3>2 DEF MachineBodies
    <3>. QED BY <3>2, <3>3 DEF BodyIds
  <2>. QED BY <2>1, <2>2
<1>. QED BY <1>1, <1>2

\* What is drawn was let through.
THEOREM DrawnIsTrusted == Spec => []TrustedDoc
<1>1. Init => TrustedDoc
  BY SampleIsTrusted DEF Init, TrustedDoc
<1>2. TrustedDoc /\ [Next]_vars => TrustedDoc'
  <2>. SUFFICES ASSUME TrustedDoc, [Next]_vars PROVE TrustedDoc'
    OBVIOUS
  <2>1. ASSUME NEW raw \in RawDocuments \cup Repicked, Load(raw) PROVE TrustedDoc'
    <3>1. CASE Parsed(raw) = "accepted"
      <4>1. ~Faulty(raw)
        BY <3>1 DEF Parsed
      <4>2. doc' = raw
        BY <2>1, <3>1 DEF Load
      <4>. QED BY <4>1, <4>2, DocumentAssumption DEF Trusted, TrustedDoc
    <3>2. CASE Parsed(raw) # "accepted"
      BY <2>1, <3>2 DEF Load, TrustedDoc
    <3>. QED BY <3>1, <3>2
  <2>2. CASE LoadDocument
    BY <2>1, <2>2 DEF LoadDocument
  <2>3. CASE doc' = SampleCapture
    BY <2>3, SampleIsTrusted DEF TrustedDoc
  <2>4. CASE UNCHANGED doc
    BY <2>4 DEF TrustedDoc
  <2>. QED BY <2>2, <2>3, <2>4
       DEF Next, ClickMachine, ClickAddress, ClickEdge, FollowAddress, FollowMachine, ClearSelection,
           Select, Reset, Reload, vars
<1>. QED BY <1>1, <1>2, PTL DEF Spec

\* Drawing a document throws over an unchecked field, or not at all: the ends
\* of a link are bodies.
LEMMA DrawingThrowsOverAField ==
  ASSUME NEW d, DrawingThrows(d)
  PROVE  \/ d.missing # {}
         \/ \E v \in Members(d.edges) : v.tcp_health = "absent"
<1>1. ASSUME NEW l \in Links(d) PROVE l[1] \cup l[2] \subseteq BodyIds(d)
  <2>1. PICK i \in DOMAIN d.edges :
          l = <<PlacedIn(d, d.edges[i].endpoints.items[1]), PlacedIn(d, d.edges[i].endpoints.items[2])>>
    BY DEF Links
  <2>2. \A id : PlacedIn(d, id) \subseteq BodyIds(d)
    BY PlacesAreBodies
  <2>3. l[1] = PlacedIn(d, d.edges[i].endpoints.items[1]) /\ l[2] = PlacedIn(d, d.edges[i].endpoints.items[2])
    BY <2>1
  <2>. QED BY <2>2, <2>3
<1>. QED BY <1>1 DEF DrawingThrows

\* So does showing the details of a selection.
LEMMA PanelThrowsOverAField ==
  ASSUME NEW d, NEW s, s.kind \in {"machine", "node", "edge"}, PanelThrows(d, s)
  PROVE  \E v \in Members(d.machines) \cup Members(d.nodes) \cup Members(d.edges) : v.missing # {}
<1>1. PICK v \in Named(d, s) :
        CASE s.kind = "machine" -> MachinePanelThrows(v)
          [] s.kind = "node" -> NodePanelThrows(v)
          [] s.kind = "edge" -> EdgePanelThrows(v)
  BY DEF PanelThrows
<1>2. v.missing # {}
  BY <1>1 DEF MachinePanelThrows, NodePanelThrows, EdgePanelThrows
<1>3. v \in Members(d.machines) \cup Members(d.nodes) \cup Members(d.edges)
  BY DEF Named, Members
<1>. QED BY <1>2, <1>3

\* The page goes blank only over a field the parser leaves unchecked,
\* whatever the document and whatever is clicked: lists that disagree, ids that
\* repeat and bindings to machines that list nothing never do it.
THEOREM BlankOverAField == Spec => []OnlyUncheckedFieldsCrash
<1>1. Init => OnlyUncheckedFieldsCrash
  BY DEF Init, OnlyUncheckedFieldsCrash
<1>2. OnlyUncheckedFieldsCrash /\ [Next]_vars => OnlyUncheckedFieldsCrash'
  <2>. SUFFICES ASSUME OnlyUncheckedFieldsCrash, [Next]_vars PROVE OnlyUncheckedFieldsCrash'
    OBVIOUS
  <2>1. ASSUME NEW kind \in {"machine", "node", "edge"}, NEW id, Select(kind, id)
        PROVE  OnlyUncheckedFieldsCrash'
    <3>. DEFINE s == [kind |-> kind, id |-> id]
    <3>1. doc' = doc /\ page' = IF PanelThrows(doc, s) THEN "blank" ELSE "drawn"
      BY <2>1 DEF Select
    <3>2. CASE PanelThrows(doc, s)
      <4>1. s.kind \in {"machine", "node", "edge"}
        OBVIOUS
      <4>. HIDE DEF s
      <4>. QED BY <3>1, <3>2, <4>1, PanelThrowsOverAField DEF OnlyUncheckedFieldsCrash
    <3>3. CASE ~PanelThrows(doc, s)
      BY <3>1, <3>3 DEF OnlyUncheckedFieldsCrash
    <3>. QED BY <3>2, <3>3
  <2>2. CASE ClickMachine \/ ClickAddress \/ ClickEdge
    BY <2>1, <2>2 DEF ClickMachine, ClickAddress, ClickEdge
  <2>3. CASE FollowAddress \/ FollowMachine
    BY <2>1, <2>3 DEF FollowAddress, FollowMachine
  <2>4. ASSUME NEW raw, Load(raw) PROVE OnlyUncheckedFieldsCrash'
    <3>1. CASE verdict' = "accepted"
      <4>1. doc' = raw /\ page' = IF DrawingThrows(raw) THEN "blank" ELSE "drawn"
        BY <2>4, <3>1 DEF Load
      <4>. QED BY <4>1, DrawingThrowsOverAField DEF OnlyUncheckedFieldsCrash
    <3>2. CASE verdict' # "accepted"
      BY <2>4, <3>2 DEF Load, OnlyUncheckedFieldsCrash
    <3>. QED BY <3>1, <3>2
  <2>5. CASE LoadDocument
    BY <2>4, <2>5 DEF LoadDocument
  <2>6. CASE ClearSelection \/ Reset \/ Reload
    BY <2>6 DEF ClearSelection, Reset, Reload, OnlyUncheckedFieldsCrash
  <2>7. CASE UNCHANGED vars
    BY <2>7 DEF vars, OnlyUncheckedFieldsCrash
  <2>. QED BY <2>2, <2>3, <2>5, <2>6, <2>7 DEF Next
<1>. QED BY <1>1, <1>2, PTL DEF Spec

\* An address that has a place is in the document.
LEMMA PlacedIsListed ==
  ASSUME NEW d, Trusted(d), NEW id, PlacedIn(d, id) # {}
  PROVE  id \in Ids(d.nodes)
BY PlacesAreBodies, TrustedEntries DEF Ids

\* What the panel finds missing of a line that can be clicked: nothing, unless
\* its id is another edge's too.
LEMMA DrawnEdgeResolves ==
  ASSUME NEW d, Trusted(d), NEW e \in DrawnEdges(d), ~EdgeIdRepeats(d, e.id)
  PROVE  DanglingIn(d, [kind |-> "edge", id |-> e.id]) = {}
<1>. DEFINE s == [kind |-> "edge", id |-> e.id]
<1>1. PICK j \in DOMAIN d.edges :
        e = d.edges[j] /\ \A id \in Members(d.edges[j].endpoints.items) : PlacedIn(d, id) # {}
  BY DEF DrawnEdges
<1>2. Members(e.endpoints.items) \subseteq Ids(d.nodes)
  BY <1>1, PlacedIsListed
<1>3. DOMAIN d.edges \subseteq Nat
  BY DEF Trusted, Readable
<1>4. \A k \in DOMAIN d.edges : d.edges[k].id = e.id => k = j
  BY <1>1 DEF EdgeIdRepeats
<1>5. Named(d, s) = {e}
  <2>1. s.kind = "edge" /\ s.id = e.id
    OBVIOUS
  <2>2. \A k \in DOMAIN d.edges : k < j => d.edges[k].id # s.id
    BY <1>3, <1>4, <2>1
  <2>3. j \in {i \in DOMAIN d.edges : /\ d.edges[i].id = s.id
                                      /\ \A k \in DOMAIN d.edges : k < i => d.edges[k].id # s.id}
    BY <1>1, <2>1, <2>2
  <2>4. Named(d, s) =
          {d.edges[i] : i \in {x \in DOMAIN d.edges :
             d.edges[x].id = s.id /\ \A k \in DOMAIN d.edges : k < x => d.edges[k].id # s.id}}
    BY <2>1 DEF Named
  <2>. HIDE DEF s
  <2>. QED BY <1>1, <1>4, <2>1, <2>3, <2>4
<1>6. DanglingIn(d, s) = (UNION {Members(v.endpoints.items) : v \in Named(d, s)}) \ Ids(d.nodes)
  BY <1>5 DEF DanglingIn
<1>7. \A v \in Named(d, s) : Members(v.endpoints.items) \subseteq Ids(d.nodes)
  BY <1>2, <1>5
<1>8. UNION {Members(v.endpoints.items) : v \in Named(d, s)} \subseteq Ids(d.nodes)
  BY <1>7
<1>9. DanglingIn(d, s) = {}
  <2>. HIDE DEF s
  <2>. QED BY <1>6, <1>8
<1>. QED BY <1>9

\* Nor of a machine or an address that is in the document.
LEMMA ListedResolves ==
  ASSUME NEW d, Trusted(d), NEW id
  PROVE  /\ id \in Ids(d.machines) => DanglingIn(d, [kind |-> "machine", id |-> id]) = {}
         /\ id \in Ids(d.nodes) => DanglingIn(d, [kind |-> "node", id |-> id]) = {}
<1>1. ASSUME id \in Ids(d.machines) PROVE DanglingIn(d, [kind |-> "machine", id |-> id]) = {}
  <2>. DEFINE s == [kind |-> "machine", id |-> id]
  <2>1. Named(d, s) = {v \in Members(d.machines) : v.id = id}
    BY DEF Named
  <2>2. Named(d, s) # {}
    BY <1>1, <2>1, TrustedEntries DEF Ids
  <2>3. DanglingIn(d, s) = (UNION {Members(v.node_ids.items) : v \in Named(d, s)}) \ Ids(d.nodes)
    BY <2>2 DEF DanglingIn
  <2>4. \A v \in Named(d, s) : Members(v.node_ids.items) \subseteq Ids(d.nodes)
    BY <2>1, TrustedEntries
  <2>5. UNION {Members(v.node_ids.items) : v \in Named(d, s)} \subseteq Ids(d.nodes)
    BY <2>4
  <2>6. DanglingIn(d, s) = {}
    <3>. HIDE DEF s
    <3>. QED BY <2>3, <2>5
  <2>. QED BY <2>6
<1>2. ASSUME id \in Ids(d.nodes) PROVE DanglingIn(d, [kind |-> "node", id |-> id]) = {}
  <2>. DEFINE s == [kind |-> "node", id |-> id]
  <2>1. Named(d, s) = {v \in Members(d.nodes) : v.id = id}
    BY DEF Named
  <2>2. Named(d, s) # {}
    BY <1>2, <2>1, TrustedEntries DEF Ids
  <2>3. DanglingIn(d, s) = (UNION {v.machine_id : v \in Named(d, s)}) \ Ids(d.machines)
    BY <2>2 DEF DanglingIn
  <2>4. \A v \in Named(d, s) : v.machine_id \subseteq Ids(d.machines)
    BY <2>1, TrustedEntries
  <2>5. UNION {v.machine_id : v \in Named(d, s)} \subseteq Ids(d.machines)
    BY <2>4
  <2>6. DanglingIn(d, s) = {}
    <3>. HIDE DEF s
    <3>. QED BY <2>3, <2>5
  <2>. QED BY <2>6
<1>. QED BY <1>1, <1>2

\* Along every path of clicks, with documents replaced in between, the panel
\* meets no reference that is not in the document, unless an edge id repeats.
THEOREM NothingDangles == Spec => []NoDanglingShown
<1>1. Init => NoDanglingShown
  BY DEF Init, NoDanglingShown
<1>2. TrustedDoc /\ NoDanglingShown /\ [Next]_vars => NoDanglingShown'
  <2>. SUFFICES ASSUME TrustedDoc, NoDanglingShown, [Next]_vars PROVE NoDanglingShown'
    OBVIOUS
  <2>. USE DEF TrustedDoc
  <2>1. ASSUME NEW id, id \in Ids(doc.machines), Select("machine", id) PROVE NoDanglingShown'
    <3>1. doc' = doc /\ selection' = {[kind |-> "machine", id |-> id]}
      BY <2>1 DEF Select
    <3>2. DanglingIn(doc, [kind |-> "machine", id |-> id]) = {}
      BY <2>1, ListedResolves
    <3>. QED BY <3>1, <3>2 DEF NoDanglingShown
  <2>2. ASSUME NEW id, id \in Ids(doc.nodes), Select("node", id) PROVE NoDanglingShown'
    <3>1. doc' = doc /\ selection' = {[kind |-> "node", id |-> id]}
      BY <2>2 DEF Select
    <3>2. DanglingIn(doc, [kind |-> "node", id |-> id]) = {}
      BY <2>2, ListedResolves
    <3>. QED BY <3>1, <3>2 DEF NoDanglingShown
  <2>3. ASSUME NEW e \in DrawnEdges(doc), Select("edge", e.id) PROVE NoDanglingShown'
    <3>. DEFINE s == [kind |-> "edge", id |-> e.id]
    <3>1. doc' = doc /\ selection' = {s} /\ s.kind = "edge" /\ s.id = e.id
      BY <2>3 DEF Select
    <3>2. DanglingIn(doc, s) = {} \/ EdgeIdRepeats(doc, e.id)
      BY DrawnEdgeResolves
    <3>. HIDE DEF s
    <3>. QED BY <3>1, <3>2 DEF NoDanglingShown
  <2>4. CASE ClickMachine
    BY <2>1, <2>4, TrustedEntries DEF ClickMachine, MachineBodies, Ids
  <2>5. CASE ClickAddress
    BY <2>2, <2>5, TrustedEntries DEF ClickAddress, AddressBodies, Ids
  <2>6. CASE ClickEdge
    BY <2>3, <2>6 DEF ClickEdge
  <2>7. CASE FollowAddress
    BY <2>2, <2>7 DEF FollowAddress, ChildIds, Children
  <2>8. CASE FollowMachine
    BY <2>1, <2>8 DEF FollowMachine
  <2>9. CASE UNCHANGED <<doc, selection>>
    <3>1. doc' = doc /\ selection' = selection
      BY <2>9
    <3>. QED BY <3>1 DEF NoDanglingShown
  <2>10. CASE selection' = {}
    BY <2>10 DEF NoDanglingShown
  <2>11. CASE LoadDocument
    BY <2>9, <2>10, <2>11 DEF LoadDocument, Load
  <2>. QED BY <2>4, <2>5, <2>6, <2>7, <2>8, <2>9, <2>10, <2>11
       DEF Next, ClearSelection, Reset, Reload, vars
<1>. QED BY <1>1, <1>2, DrawnIsTrusted, PTL DEF Spec

\* An address without a binding is drawn on its own, and nowhere else.
LEMMA UnboundIsDrawnOnce ==
  ASSUME NEW d, Trusted(d), ListsAgree(d), NEW n \in Members(d.nodes), n.machine_id = {}
  PROVE  Circles(d, n.id) = {<<n.id, 1>>} /\ PlacedIn(d, n.id) = {n.id}
<1>1. n \in AddressBodies(d)
  BY DEF AddressBodies, StandsAlone
<1>2. \A m \in Members(d.machines) : n.id \notin Members(m.node_ids.items)
  BY DEF ListsAgree
<1>3. \A m \in MachineBodies(d) : {j \in Children(d, m) : m.node_ids.items[j] = n.id} = {}
  BY <1>2 DEF MachineBodies, Children, Members
<1>4. UNION {{<<m.id, i>> : i \in {j \in Children(d, m) : m.node_ids.items[j] = n.id}} : m \in MachineBodies(d)} = {}
  BY <1>3
<1>5. {<<x.id, 1>> : x \in {y \in AddressBodies(d) : y.id = n.id}} = {<<n.id, 1>>}
  BY <1>1
<1>6. Circles(d, n.id) = {<<n.id, 1>>}
  <2>. DEFINE inMachines == UNION {{<<m.id, i>> : i \in {j \in Children(d, m) : m.node_ids.items[j] = n.id}} :
                                       m \in MachineBodies(d)}
              alone == {<<x.id, 1>> : x \in {y \in AddressBodies(d) : y.id = n.id}}
  <2>1. Circles(d, n.id) = inMachines \cup alone
    BY DEF Circles
  <2>2. inMachines = {} /\ alone = {<<n.id, 1>>}
    BY <1>4, <1>5
  <2>. HIDE DEF inMachines, alone
  <2>. QED BY <2>1, <2>2
<1>7. PlacedIn(d, n.id) = {n.id}
  BY <1>1 DEF PlacedIn
<1>. QED BY <1>6, <1>7

\* One that a machine carries is drawn in that machine, and nowhere else.
LEMMA BoundIsDrawnOnce ==
  ASSUME NEW d, Trusted(d), ListsAgree(d), NEW n \in Members(d.nodes), NEW mid \in n.machine_id
  PROVE  \E i : Circles(d, n.id) = {<<mid, i>>} /\ PlacedIn(d, n.id) = {mid}
<1>1. n.machine_id = {mid}
  BY DEF Trusted, Readable
<1>2. mid \in Ids(d.machines) /\ n.id \in Ids(d.nodes)
  BY TrustedEntries DEF Ids
<1>3. PICK k \in DOMAIN d.machines : d.machines[k].id = mid
  <2>1. \E v \in Members(d.machines) : v.id = mid
    BY <1>2, TrustedEntries DEF Ids
  <2>. QED BY <2>1 DEF Members
<1>. DEFINE m == d.machines[k]
<1>4. m \in Members(d.machines)
  BY DEF Members
<1>5. PICK i \in DOMAIN m.node_ids.items : m.node_ids.items[i] = n.id
  BY <1>1, <1>3, <1>4 DEF ListsAgree, Members
<1>6. i \in Children(d, m) /\ m \in MachineBodies(d)
  BY <1>2, <1>4, <1>5 DEF Children, MachineBodies
<1>7. ASSUME NEW x \in Members(d.nodes), x.id = n.id PROVE x = n
  BY <1>7, TrustedEntries DEF Members
<1>8. n.id \notin {x.id : x \in AddressBodies(d)}
  BY <1>1, <1>2, <1>7 DEF AddressBodies, StandsAlone
<1>9. ASSUME NEW l \in DOMAIN d.machines, n.id \in Members(d.machines[l].node_ids.items) PROVE l = k
  <2>1. d.machines[l].id = mid
    BY <1>1, <1>9 DEF ListsAgree, Members
  <2>. QED BY <1>3, <2>1, TrustedEntries
<1>10. {<<x.id, 1>> : x \in {y \in AddressBodies(d) : y.id = n.id}} = {}
  BY <1>8
<1>11. {j \in Children(d, m) : m.node_ids.items[j] = n.id} = {i}
  <2>1. \A j \in DOMAIN m.node_ids.items : m.node_ids.items[j] = m.node_ids.items[i] => j = i
    BY <1>4 DEF ListsAgree
  <2>. QED BY <1>5, <1>6, <2>1 DEF Children
<1>12. ASSUME NEW x \in MachineBodies(d), x # m PROVE {j \in Children(d, x) : x.node_ids.items[j] = n.id} = {}
  BY <1>9, <1>12 DEF MachineBodies, Children, Members
<1>13. UNION {{<<x.id, p>> : p \in {j \in Children(d, x) : x.node_ids.items[j] = n.id}} : x \in MachineBodies(d)}
         = {<<mid, i>>}
  <2>. DEFINE In(x) == {j \in Children(d, x) : x.node_ids.items[j] = n.id}
  <2>1. In(m) = {i} /\ m.id = mid /\ m \in MachineBodies(d) /\ \A x \in MachineBodies(d) : x # m => In(x) = {}
    BY <1>3, <1>6, <1>11, <1>12
  <2>. HIDE DEF In, m
  <2>2. UNION {{<<x.id, p>> : p \in In(x)} : x \in MachineBodies(d)} = {<<mid, i>>}
    BY <2>1
  <2>. QED BY <2>2 DEF In
<1>14. Circles(d, n.id) = {<<mid, i>>}
  BY <1>10, <1>13 DEF Circles
<1>15. Listing(d, n.id) = {k}
  <2>1. k \in Listing(d, n.id)
    BY <1>5, <1>6 DEF Listing, ChildIds
  <2>2. \A l \in Listing(d, n.id) : l = k
    BY <1>9 DEF Listing, ChildIds, Children, Members
  <2>. QED BY <2>1, <2>2
<1>16. {j \in Listing(d, n.id) : \A l \in Listing(d, n.id) : l <= j} = {k}
  <2>1. k \in Nat
    BY DEF Trusted, Readable
  <2>. QED BY <1>15, <2>1
<1>17. PlacedIn(d, n.id) = {mid}
  BY <1>3, <1>8, <1>16 DEF PlacedIn
<1>. QED BY <1>14, <1>17

\* Where the two lists of a document say the same, every address is one
\* circle, in the body that its edges are tied to.
THEOREM EveryAddressDrawnOnce == Spec => []DrawnOnce
<1>1. TrustedDoc => DrawnOnce
  <2>. SUFFICES ASSUME TrustedDoc, ListsAgree(doc), NEW n \in Members(doc.nodes)
                PROVE  \E c \in Circles(doc, n.id) : Circles(doc, n.id) = {c} /\ PlacedIn(doc, n.id) = {c[1]}
    BY DEF DrawnOnce
  <2>. USE DEF TrustedDoc
  <2>1. CASE n.machine_id = {}
    <3>. DEFINE c == <<n.id, 1>>
    <3>1. Circles(doc, n.id) = {c} /\ PlacedIn(doc, n.id) = {n.id} /\ c[1] = n.id
      BY <2>1, UnboundIsDrawnOnce
    <3>. QED BY <3>1
  <2>2. ASSUME NEW mid \in n.machine_id
        PROVE  \E c \in Circles(doc, n.id) : Circles(doc, n.id) = {c} /\ PlacedIn(doc, n.id) = {c[1]}
    <3>1. PICK i : Circles(doc, n.id) = {<<mid, i>>} /\ PlacedIn(doc, n.id) = {mid}
      BY BoundIsDrawnOnce
    <3>2. <<mid, i>>[1] = mid
      OBVIOUS
    <3>. QED BY <3>1, <3>2
  <2>. QED BY <2>1, <2>2
<1>. QED BY <1>1, DrawnIsTrusted, PTL

\* Where they do, both ends of every l3 edge have a place, so that no
\* conversation the parser let through is missing from the canvas.
THEOREM EveryL3EdgeDrawn == Spec => []EveryConversationDrawn
<1>1. TrustedDoc => EveryConversationDrawn
  <2>. SUFFICES ASSUME TrustedDoc, ListsAgree(doc), NEW e \in Members(doc.edges), e.layer = "l3"
                PROVE  e \in DrawnEdges(doc)
    BY DEF EveryConversationDrawn
  <2>. USE DEF TrustedDoc
  <2>1. PICK j \in DOMAIN doc.edges : doc.edges[j] = e
    BY DEF Members
  <2>2. Members(e.endpoints.items) \subseteq Ids(doc.nodes)
    BY TrustedEntries DEF Trusted, Faulty, CrossFaulty
  <2>3. ASSUME NEW n \in Members(doc.nodes) PROVE PlacedIn(doc, n.id) # {}
    <3>1. CASE n.machine_id = {}
      BY <3>1, UnboundIsDrawnOnce
    <3>2. ASSUME NEW mid \in n.machine_id PROVE PlacedIn(doc, n.id) # {}
      BY BoundIsDrawnOnce
    <3>. QED BY <3>1, <3>2
  <2>4. \A id \in Members(e.endpoints.items) : PlacedIn(doc, id) # {}
    BY <2>2, <2>3, TrustedEntries DEF Ids
  <2>. QED BY <2>1, <2>4 DEF DrawnEdges
<1>. QED BY <1>1, DrawnIsTrusted, PTL
=============================================================================
