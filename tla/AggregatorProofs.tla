-------------------------- MODULE AggregatorProofs --------------------------
(***************************************************************************)
(* Theorems about the aggregator, for every set of addresses, MACs, VLANs  *)
(* and frames and captures of every length: what binds an address and how  *)
(* the windows nest; what the tables count; that the aggregator implements *)
(* CaptureGraph.                                                           *)
(***************************************************************************)
EXTENDS AggregatorRefinement, FiniteSetTheorems, WellFoundedInduction, TLAPS

-----------------------------------------------------------------------------
(* The definitions of Addressing                                            *)

LEMMA FrameTypes ==
  ASSUME NEW r \in Frames
  PROVE  /\ r.epoch_ns \in Nat
         /\ r.eth_src \in Maybe(Mac) /\ r.eth_dst \in Maybe(Mac)
         /\ r.vlan_id \in Maybe(Vlan)
         /\ r.ip_src \in Maybe(Address) /\ r.ip_dst \in Maybe(Address)
         /\ r.transport \in Transports
         /\ r.src_port \in Maybe(Port) /\ r.dst_port \in Maybe(Port)
         /\ r.flags \subseteq Flags
         /\ r.arp_sender_ip \in Maybe(Address)
         /\ r.arp_reply_ip \in Maybe(Address) /\ r.arp_reply_mac \in Maybe(Mac)
         /\ r.ndp_advertised_ip \in Maybe(Address)
         /\ r.ndp_advertised_mac \in Maybe(Mac)
         /\ r.ndp_solicited_ip \in Maybe(Address)
         /\ r.dhcp_assigned_ip \in Maybe(Address)
         /\ r.dhcp_assigned_mac \in Maybe(Mac)
         /\ r.hostnames \subseteq Address \X Name
  BY FramesAssumption DEF PacketRecord

LEMMA KeyTypes ==
  ASSUME NEW r \in Frames, NEW m \in Mac
  PROVE  MachineKey(m, r) \in MachineKeys /\ VlanOf(r) \in Maybe(Vlan)
  BY FrameTypes DEF MachineKey, MachineKeys, VlanOf, Maybe

\* A non-empty set of bases has a strongest member.
LEMMA StrongestInSet ==
  ASSUME NEW S \in SUBSET Bases, S # {}
  PROVE  /\ Strongest(S) \in S
         /\ \A b \in S : BasisRank[Strongest(S)] >= BasisRank[b]
<1>1. \E b \in S : \A c \in S : BasisRank[b] >= BasisRank[c]
  <2>1. CASE "arp_reply" \in S
    BY <2>1 DEF Bases, BasisRank
  <2>2. CASE "arp_reply" \notin S /\ "ndp_advertisement" \in S
    BY <2>2 DEF Bases, BasisRank
  <2>3. CASE S \subseteq {"dhcp_ack", "source_mac"} /\ "dhcp_ack" \in S
    BY <2>3 DEF Bases, BasisRank
  <2>4. CASE S = {"source_mac"}
    BY <2>4 DEF Bases, BasisRank
  <2> QED
    BY <2>1, <2>2, <2>3, <2>4 DEF Bases
<1> QED
  BY <1>1 DEF Strongest

LEMMA ClaimTypes ==
  ASSUME NEW r \in Frames, NEW s, NEW R, NEW c \in Claims(r, s, R)
  PROVE  c.address \in Address /\ c.mac \in Mac /\ c.basis \in Bases
  BY FrameTypes DEF Claims, ClaimSet, Maybe, Bases

LEMMA TouchedTypes ==
  ASSUME NEW r \in Frames, NEW s, NEW R
  PROVE  Touched(r, s, R) \subseteq Address
<1>1. {c.address : c \in Claims(r, s, R)} \subseteq Address
  BY ClaimTypes
<1>2. {h[1] : h \in r.hostnames} \subseteq Address
  BY FrameTypes
<1>3. HasIp(r) => {r.ip_src, r.ip_dst} \subseteq Address
  BY FrameTypes DEF HasIp, Maybe
<1> QED
  BY <1>1, <1>2, <1>3 DEF Touched

LEMMA SegmentTypes ==
  ASSUME NEW S \in SUBSET Frames
  PROVE  /\ SegmentOf(S).addresses \subseteq Address
         /\ SegmentOf(S).on_link_prefixes \subseteq Nat
<1>1. \A r \in S : NamedBy(r) \subseteq Address
  BY FrameTypes DEF NamedBy, Maybe
<1>2. UNION {NamedBy(r) : r \in S} \subseteq Address
  BY <1>1
<1>3. \A T \in SUBSET Address : OnLinkPrefixes(T) \subseteq Nat
  BY ValuesAssumption, KindsAssumption DEF OnLinkPrefixes, None
<1> QED
  BY <1>2, <1>3 DEF SegmentOf

LEMMA RouterTypes ==
  ASSUME NEW S \in SUBSET Frames, NEW s
  PROVE  RouterMacs(S, s) \subseteq Mac
<1>1. \A r \in S : RoutersIn(r, s) \subseteq Mac
  BY FrameTypes DEF RoutersIn, Forwards, Maybe
<1> QED
  BY <1>1 DEF RouterMacs

LEMMA ConversationTypes ==
  ASSUME NEW r \in Frames, Conversation(r)
  PROVE  /\ r.ip_src \in Address /\ r.ip_dst \in Address /\ r.ip_src # r.ip_dst
         /\ FlowKey(r) \in FlowKeys
         /\ L3Key(r) \in EdgeKeys
<1>1. r.ip_src \in Address /\ r.ip_dst \in Address /\ r.ip_src # r.ip_dst
  BY FrameTypes DEF Conversation, HasIp, Maybe
<1>2. FlowKey(r) \in FlowKeys
  BY <1>1, FrameTypes DEF FlowKey, FlowKeys
<1>3. L3Key(r) \in EdgeKeys
  <2>1. r.ip_src \in Nat /\ r.ip_dst \in Nat
    BY <1>1, ValuesAssumption, KindsAssumption
  <2>2. SortedPair(r.ip_src, r.ip_dst) \in {q \in Address \X Address : q[1] < q[2]}
    BY <1>1, <2>1 DEF SortedPair
  <2> QED
    BY <2>2 DEF L3Key, EdgeKeys
<1> QED
  BY <1>1, <1>2, <1>3

LEMMA BetweenMachinesTypes ==
  ASSUME NEW r \in Frames, BetweenMachines(r)
  PROVE  /\ r.eth_src \in Mac /\ r.eth_dst \in Mac /\ r.eth_src # r.eth_dst
         /\ L2Key(r) \in EdgeKeys
<1>1. r.eth_src \in Mac /\ r.eth_dst \in Mac /\ r.eth_src # r.eth_dst
  BY FrameTypes DEF BetweenMachines, Maybe
<1>2. r.eth_src \in Nat /\ r.eth_dst \in Nat
  BY <1>1, ValuesAssumption, KindsAssumption
<1>3. SortedPair(r.eth_src, r.eth_dst) \in {q \in Mac \X Mac : q[1] < q[2]}
  BY <1>1, <1>2 DEF SortedPair
<1> QED
  BY <1>1, <1>3 DEF L2Key, EdgeKeys

-----------------------------------------------------------------------------
(* Type correctness                                                         *)

LEMMA ExtendTypes ==
  ASSUME NEW w \in Window, NEW t \in Nat
  PROVE  At(t) \in Window /\ Extend(w, t) \in Window
  BY DEF Window, At, Extend

LEMMA ReboundTypes ==
  ASSUME NEW r \in Frames, NEW B, IsDict(B, MachineKeys, Binding),
         NEW C, C \subseteq Claims(r, segment, routers)
  PROVE  IsDict(Rebound(B, C, r), MachineKeys, Binding)
<1> DEFINE keys == {MachineKey(c.mac, r) : c \in C}
           BasesFor(k) == {c.basis : c \in {d \in C : MachineKey(d.mac, r) = k}}
<1>1. keys \subseteq MachineKeys
  BY ClaimTypes, KeyTypes
<1>2. \A k \in keys : BasesFor(k) \in SUBSET Bases /\ BasesFor(k) # {}
  BY ClaimTypes
<1>3. \A k \in keys : Strongest(BasesFor(k)) \in Bases
  BY <1>2, StrongestInSet
<1>4. \A k \in DOMAIN B : B[k] \in Binding
  BY DEF IsDict
<1>5. \A k \in keys \cap DOMAIN B : Strongest(BasesFor(k) \cup {B[k].basis}) \in Bases
  <2> SUFFICES ASSUME NEW k \in keys \cap DOMAIN B
               PROVE  Strongest(BasesFor(k) \cup {B[k].basis}) \in Bases
    OBVIOUS
  <2>1. BasesFor(k) \cup {B[k].basis} \in SUBSET Bases
    BY <1>2, <1>4 DEF Binding
  <2> QED
    BY <2>1, StrongestInSet
<1>6. r.epoch_ns \in Nat
  BY FrameTypes
<1>7. \A k \in DOMAIN B \cup keys : Rebound(B, C, r)[k] \in Binding
  <2> SUFFICES ASSUME NEW k \in DOMAIN B \cup keys
               PROVE  Rebound(B, C, r)[k] \in Binding
    OBVIOUS
  <2>1. CASE k \notin keys
    BY <2>1, <1>4 DEF Rebound
  <2>2. CASE k \in keys /\ k \notin DOMAIN B
    BY <2>2, <1>3, <1>6 DEF Rebound, Binding, At, Window
  <2>3. CASE k \in keys /\ k \in DOMAIN B
    <3>1. Extend(B[k].window, r.epoch_ns) \in Window
      BY <2>3, <1>4, <1>6, ExtendTypes DEF Binding
    <3> QED
      BY <2>3, <3>1, <1>5 DEF Rebound, Binding
  <2> QED
    BY <2>1, <2>2, <2>3
<1>8. DOMAIN Rebound(B, C, r) = DOMAIN B \cup keys
  BY DEF Rebound
<1>9. Rebound(B, C, r) \in [DOMAIN Rebound(B, C, r) -> Binding]
  BY <1>7, <1>8 DEF Rebound
<1> QED
  BY <1>1, <1>8, <1>9 DEF IsDict

LEMMA NewAddressTypes ==
  ASSUME NEW t \in Nat
  PROVE  IsAddressAcc(NewAddress(t))
  BY DEF NewAddress, IsAddressAcc, IsDict, Window, At

LEMMA TouchedAccTypes ==
  ASSUME NEW r \in Frames, NEW a, NEW acc, IsAddressAcc(acc)
  PROVE  IsAddressAcc(TouchedAcc(acc, a, r))
<1> DEFINE C == {c \in Claims(r, segment, routers) : c.address = a}
<1>1. IsDict(Rebound(acc.bindings, C, r), MachineKeys, Binding)
  BY ReboundTypes DEF IsAddressAcc
<1>2. {c.mac : c \in C} \subseteq Mac
  BY ClaimTypes
<1>3. Extend(acc.window, r.epoch_ns) \in Window
  BY ExtendTypes, FrameTypes DEF IsAddressAcc
<1>4. (acc.seen_on_segment \/ Holds(segment, a)) \in BOOLEAN
  OBVIOUS
<1> QED
  BY <1>1, <1>2, <1>3, <1>4 DEF TouchedAcc, IsAddressAcc

LEMMA NoteAddressesTypes ==
  ASSUME NEW r \in Frames, TypeOK, NoteAddresses(r)
  PROVE  /\ DOMAIN addresses' \subseteq Address
         /\ \A a \in DOMAIN addresses' : IsAddressAcc(addresses'[a])
<1>1. DOMAIN addresses' = DOMAIN addresses \cup Touched(r, segment, routers)
  BY DEF NoteAddresses
<1>2. DOMAIN addresses' \subseteq Address
  BY <1>1, TouchedTypes DEF TypeOK
<1>3. \A a : IsAddressAcc(AccOf(a, r.epoch_ns))
  BY NewAddressTypes, FrameTypes DEF AccOf, TypeOK
<1>4. ASSUME NEW a \in DOMAIN addresses'
      PROVE  IsAddressAcc(addresses'[a])
  <2>1. CASE a \in Touched(r, segment, routers)
    <3>1. addresses'[a] = TouchedAcc(AccOf(a, r.epoch_ns), a, r)
      BY <2>1, <1>1 DEF NoteAddresses
    <3> QED
      BY <3>1, <1>3, TouchedAccTypes
  <2>2. CASE a \notin Touched(r, segment, routers)
    BY <2>2, <1>1, <1>4 DEF NoteAddresses, TypeOK
  <2> QED
    BY <2>1, <2>2
<1> QED
  BY <1>2, <1>4

LEMMA NoteMacsTypes ==
  ASSUME NEW r \in Frames, TypeOK, NoteMacs(r)
  PROVE  /\ IsDict(machines', MachineKeys, Window)
         /\ IsDict(vlans', Mac, SUBSET Maybe(Vlan))
<1> DEFINE macs == {r.eth_src, r.eth_dst} \ {None}
           keys == {MachineKey(m, r) : m \in macs}
<1>1. macs \subseteq Mac /\ keys \subseteq MachineKeys /\ VlanOf(r) \in Maybe(Vlan)
  BY FrameTypes, KeyTypes DEF Maybe, VlanOf
<1>2. IsDict(machines', MachineKeys, Window)
  <2>1. \A k \in DOMAIN machines : machines[k] \in Window
    BY DEF TypeOK, IsDict
  <2>2. At(r.epoch_ns) \in Window
    BY FrameTypes DEF At, Window
  <2>3. \A k \in DOMAIN machines : Extend(machines[k], r.epoch_ns) \in Window
    BY <2>1, FrameTypes, ExtendTypes
  <2> QED
    BY <1>1, <2>1, <2>2, <2>3 DEF NoteMacs, IsDict, TypeOK
<1>3. IsDict(vlans', Mac, SUBSET Maybe(Vlan))
  <2>1. \A m \in DOMAIN vlans : vlans[m] \subseteq Maybe(Vlan)
    BY DEF TypeOK, IsDict
  <2> QED
    BY <1>1, <2>1 DEF NoteMacs, IsDict, TypeOK
<1> QED
  BY <1>2, <1>3

LEMMA FactsTypes ==
  ASSUME NEW r \in Frames, TypeOK
  PROVE  FactsAfter(r) \in FlowFacts
<1>1. OpenedBy(r) \in FlowFacts
  BY FrameTypes DEF OpenedBy, FlowFacts, Maybe
<1>2. \A k \in DOMAIN flows : flows[k] \in FlowFacts
  BY DEF TypeOK, IsDict
<1>3. \A f \in FlowFacts : ObservedBy(f, r) \in FlowFacts
  BY FrameTypes DEF ObservedBy, FlowFacts
<1> QED
  BY <1>1, <1>2, <1>3 DEF FactsAfter

LEMMA ServicesTypes ==
  ASSUME NEW r \in Frames, Conversation(r),
         NEW D, IsDict(D, Transports \X Port, Service), NEW p \in Maybe(Port)
  PROVE  IsDict(ServicesAfter(D, r, p), Transports \X Port, Service)
<1>1. CASE p = None \/ r.transport = "none"
  BY <1>1 DEF ServicesAfter
<1>2. CASE p # None /\ r.transport # "none"
  <2> DEFINE key == <<r.transport, p>>
             old == IF key \in DOMAIN D THEN D[key] ELSE NewService
             new == [packets |-> old.packets + 1, flows |-> old.flows \cup {FlowKey(r)}]
  <2>1. ServicesAfter(D, r, p) =
          [k \in DOMAIN D \cup {key} |-> IF k = key THEN new ELSE D[k]]
    BY <1>2 DEF ServicesAfter
  <2>2. key \in Transports \X Port
    BY <1>2, FrameTypes DEF Maybe
  <2>3. \A k \in DOMAIN D : D[k] \in Service
    BY DEF IsDict
  <2>4. old \in Service
    BY <2>3 DEF NewService, Service
  <2>5. new \in Service
    BY <2>4, ConversationTypes DEF Service
  <2> HIDE DEF key, new
  <2> QED
    BY <2>1, <2>2, <2>3, <2>5 DEF IsDict
<1> QED
  BY <1>1, <1>2

LEMMA HealthTypes ==
  ASSUME NEW r \in Frames, NEW h \in Health
  PROVE  HealthAfter(h, r) \in Health
  BY DEF HealthAfter, Health, One

LEMMA EdgeOfTypes ==
  ASSUME NEW key, NEW t \in Nat, TypeOK
  PROVE  IsEdgeAcc(EdgeOf(key, t))
<1>1. IsEdgeAcc(NewEdge(t))
  BY DEF NewEdge, IsEdgeAcc, IsDict, Window, At, Health, NoHealth
<1> QED
  BY <1>1 DEF EdgeOf, TypeOK

LEMMA L3EdgeTypes ==
  ASSUME NEW r \in Frames, TypeOK, Conversation(r), NEW e, IsEdgeAcc(e)
  PROVE  IsEdgeAcc(L3Edge(e, r))
<1>1. ServerPort(FactsAfter(r)) \in Maybe(Port)
  BY FactsTypes DEF ServerPort, FlowFacts
<1>2. IsDict(L3Edge(e, r).services, Transports \X Port, Service)
  BY <1>1, ServicesTypes DEF IsEdgeAcc, L3Edge
<1>3. HealthAfter(e.health, r) \in Health
  BY HealthTypes DEF IsEdgeAcc
<1>4. Extend(e.window, r.epoch_ns) \in Window
  BY ExtendTypes, FrameTypes DEF IsEdgeAcc
<1>5. e.flows \cup {FlowKey(r)} \subseteq FlowKeys
  BY ConversationTypes DEF IsEdgeAcc
<1>6. e.forward + One(r.ip_src < r.ip_dst) \in Nat /\ e.reverse + One(r.ip_dst < r.ip_src) \in Nat
  BY DEF IsEdgeAcc, One
<1> QED
  BY <1>2, <1>3, <1>4, <1>5, <1>6 DEF L3Edge, IsEdgeAcc

LEMMA L2EdgeTypes ==
  ASSUME NEW r \in Frames, NEW e, IsEdgeAcc(e)
  PROVE  IsEdgeAcc(L2Edge(e, r))
<1>1. Extend(e.window, r.epoch_ns) \in Window
  BY ExtendTypes, FrameTypes DEF IsEdgeAcc
<1>2. e.forward + One(r.eth_src < r.eth_dst) \in Nat /\ e.reverse + One(r.eth_dst < r.eth_src) \in Nat
  BY DEF IsEdgeAcc, One
<1> QED
  BY <1>1, <1>2 DEF L2Edge, IsEdgeAcc

LEMMA SetEdgeTypes ==
  ASSUME TypeOK, NEW key \in EdgeKeys, NEW e, IsEdgeAcc(e), SetEdge(key, e)
  PROVE  /\ DOMAIN edges' \subseteq EdgeKeys
         /\ \A k \in DOMAIN edges' : IsEdgeAcc(edges'[k])
<1>1. DOMAIN edges' = DOMAIN edges \cup {key}
  BY DEF SetEdge
<1>2. ASSUME NEW k \in DOMAIN edges' PROVE IsEdgeAcc(edges'[k])
  <2>1. CASE k = key
    <3>1. edges'[k] = e
      BY <2>1, <1>1 DEF SetEdge
    <3> QED
      BY <3>1
  <2>2. CASE k # key
    <3>1. edges'[k] = edges[k] /\ k \in DOMAIN edges
      BY <2>2, <1>1, <1>2 DEF SetEdge
    <3> QED
      BY <3>1 DEF TypeOK
  <2> QED
    BY <2>1, <2>2
<1> QED
  BY <1>1, <1>2 DEF TypeOK

\* The tables a frame with or without an edge leaves behind.
LEMMA ConsumeEdgesTypes ==
  ASSUME NEW r \in Frames, TypeOK, ConsumeL3(r) \/ ConsumeL2(r) \/ ConsumeNoEdge(r)
  PROVE  /\ DOMAIN edges' \subseteq EdgeKeys
         /\ \A k \in DOMAIN edges' : IsEdgeAcc(edges'[k])
         /\ IsDict(flows', FlowKeys, FlowFacts)
<1>1. CASE ConsumeL3(r)
  <2>1. Conversation(r)
    BY <1>1 DEF ConsumeL3
  <2>2. L3Key(r) \in EdgeKeys /\ FlowKey(r) \in FlowKeys
    BY <2>1, ConversationTypes
  <2>3. IsEdgeAcc(L3Edge(EdgeOf(L3Key(r), r.epoch_ns), r))
    BY <2>1, EdgeOfTypes, L3EdgeTypes, FrameTypes
  <2>4. SetEdge(L3Key(r), L3Edge(EdgeOf(L3Key(r), r.epoch_ns), r))
    BY <1>1 DEF ConsumeL3
  <2>5. IsDict(flows', FlowKeys, FlowFacts)
    <3>1. FactsAfter(r) \in FlowFacts
      BY FactsTypes
    <3> QED
      BY <1>1, <2>2, <3>1 DEF ConsumeL3, IsDict, TypeOK
  <2> QED
    BY <2>2, <2>3, <2>4, <2>5, SetEdgeTypes
<1>2. CASE ConsumeL2(r)
  <2>1. BetweenMachines(r)
    BY <1>2 DEF ConsumeL2
  <2>2. L2Key(r) \in EdgeKeys
    BY <2>1, BetweenMachinesTypes
  <2>3. IsEdgeAcc(L2Edge(EdgeOf(L2Key(r), r.epoch_ns), r))
    BY EdgeOfTypes, L2EdgeTypes, FrameTypes
  <2>4. SetEdge(L2Key(r), L2Edge(EdgeOf(L2Key(r), r.epoch_ns), r))
    BY <1>2 DEF ConsumeL2
  <2> QED
    BY <1>2, <2>2, <2>3, <2>4, SetEdgeTypes DEF ConsumeL2, TypeOK
<1>3. CASE ConsumeNoEdge(r)
  BY <1>3 DEF ConsumeNoEdge, TypeOK
<1> QED
  BY <1>1, <1>2, <1>3

LEMMA PacketAt ==
  ASSUME TypeOK, position <= Len(packets)
  PROVE  packets[position] \in Frames
  BY DEF TypeOK

LEMMA TypeStep == TypeOK /\ [Next]_vars => TypeOK'
<1> SUFFICES ASSUME TypeOK, [Next]_vars PROVE TypeOK'
  OBVIOUS
<1>1. CASE Read
  BY <1>1 DEF Read, TypeOK, tables
<1>2. CASE Refuse
  BY <1>2 DEF Refuse, TypeOK, tables, Phases
<1>3. CASE Survey
  <2>1. Elements(packets) \subseteq Frames
    BY DEF TypeOK, Elements
  <2>2. segment'.addresses \subseteq Address /\ segment'.on_link_prefixes \subseteq Nat
    BY <1>3, <2>1, SegmentTypes DEF Survey
  <2>3. routers' \subseteq Mac
    BY <1>3, <2>1, RouterTypes DEF Survey
  <2> QED
    BY <1>3, <2>2, <2>3 DEF Survey, TypeOK, tables, Phases
<1>4. CASE Consume
  <2> DEFINE r == packets[position]
  <2>1. r \in Frames
    BY <1>4, PacketAt DEF Consume
  <2>2. NoteMacs(r) /\ NoteAddresses(r) /\ (ConsumeL3(r) \/ ConsumeL2(r) \/ ConsumeNoEdge(r))
    BY <1>4 DEF Consume, ConsumeFrame
  <2>3. window' \in Window \cup {NoWindow}
    <3>1. window \in Window => Extend(window, r.epoch_ns) \in Window
      BY <2>1, ExtendTypes, FrameTypes
    <3>2. At(r.epoch_ns) \in Window
      BY <2>1, FrameTypes DEF At, Window
    <3> QED
      BY <1>4, <3>1, <3>2 DEF Consume, ConsumeFrame, TypeOK
  <2> HIDE DEF r
  <2>4. IsDict(machines', MachineKeys, Window) /\ IsDict(vlans', Mac, SUBSET Maybe(Vlan))
    BY <2>1, <2>2, NoteMacsTypes
  <2>5. /\ DOMAIN addresses' \subseteq Address
        /\ \A a \in DOMAIN addresses' : IsAddressAcc(addresses'[a])
    BY <2>1, <2>2, NoteAddressesTypes
  <2>6. /\ DOMAIN edges' \subseteq EdgeKeys
        /\ \A k \in DOMAIN edges' : IsEdgeAcc(edges'[k])
        /\ IsDict(flows', FlowKeys, FlowFacts)
    BY <2>1, <2>2, ConsumeEdgesTypes
  <2> QED
    BY <1>4, <2>3, <2>4, <2>5, <2>6 DEF Consume, TypeOK
<1>5. CASE Finish
  BY <1>5 DEF Finish, TypeOK, tables, Phases
<1>6. CASE Crash
  BY <1>6 DEF Crash, TypeOK, tables, Phases
<1>7. CASE UNCHANGED vars
  BY <1>7 DEF vars, tables, TypeOK
<1> QED
  BY <1>1, <1>2, <1>3, <1>4, <1>5, <1>6, <1>7 DEF Next

\* Type correctness: every table of the aggregator holds what it should, for
\* every capture of every length.
THEOREM TypeCorrect == Spec => []TypeOK
<1>1. Init => TypeOK
  BY DEF Init, TypeOK, Phases, IsDict
<1> QED
  BY <1>1, TypeStep, PTL DEF Spec

-----------------------------------------------------------------------------
(* Bindings, the segment and the routers                                    *)

(***************************************************************************)
(* The strengthening that carries both binding theorems.  Once the survey  *)
(* is made, every address a frame names is in the segment; every binding   *)
(* has the support the guard demands of the weakest evidence, which the    *)
(* strong claims have because the survey read the same frames; and the     *)
(* evidence locality is judged by is recorded with the binding.            *)
(***************************************************************************)
Supported ==
  /\ phase = "reading" => addresses = <<>>
  /\ phase # "reading" =>
       \A r \in Elements(packets) : NamedBy(r) \subseteq segment.addresses
  /\ \A a \in DOMAIN addresses :
       /\ Holds(segment, a) => addresses[a].seen_on_segment
       /\ \A k \in DOMAIN addresses[a].bindings :
            /\ CouldBeLocal(a, k[1], segment, routers)
            /\ k[1] \in addresses[a].sourced_from_macs

\* Every claim that survives the guard satisfies the guard, whatever its basis:
\* an ARP reply, an advertisement or a lease names its address to the survey.
LEMMA ClaimsSupported ==
  ASSUME NEW r \in Frames, NEW R, NEW s, NamedBy(r) \subseteq s.addresses,
         NEW c \in Claims(r, s, R)
  PROVE  CouldBeLocal(c.address, c.mac, s, R)
<1>1. CASE c \in ClaimSet(r.arp_reply_ip, r.arp_reply_mac, "arp_reply")
  <2>1. c.address = r.arp_reply_ip /\ c.address # None
    BY <1>1 DEF ClaimSet
  <2>2. c.address = r.arp_sender_ip
    BY <2>1, FramesAssumption DEF WellDecoded
  <2> QED
    BY <2>1, <2>2 DEF NamedBy, CouldBeLocal, Holds
<1>2. CASE c \in ClaimSet(r.ndp_advertised_ip, r.ndp_advertised_mac, "ndp_advertisement")
  BY <1>2 DEF ClaimSet, NamedBy, CouldBeLocal, Holds
<1>3. CASE c \in ClaimSet(r.dhcp_assigned_ip, r.dhcp_assigned_mac, "dhcp_ack")
  BY <1>3 DEF ClaimSet, NamedBy, CouldBeLocal, Holds
<1>4. CASE CouldBeLocal(c.address, c.mac, s, R)
  BY <1>4
<1> QED
  BY <1>1, <1>2, <1>3, <1>4 DEF Claims

LEMMA TouchedSeen ==
  ASSUME NEW acc, NEW a, NEW r, Holds(segment, a)
  PROVE  TouchedAcc(acc, a, r).seen_on_segment
<1>1. TouchedAcc(acc, a, r).seen_on_segment = (acc.seen_on_segment \/ Holds(segment, a))
  BY Zenon DEF TouchedAcc
<1> QED
  BY <1>1, Zenon

LEMMA SupportedStep == TypeOK /\ Supported /\ [Next]_vars => Supported'
<1> SUFFICES ASSUME TypeOK, Supported, [Next]_vars PROVE Supported'
  OBVIOUS
<1>1. CASE Read
  BY <1>1 DEF Read, Supported, tables
<1>2. CASE Refuse
  <2>1. addresses' = <<>> /\ Elements(packets') = {}
    BY <1>2 DEF Refuse, Supported, tables, Elements
  <2> QED
    BY <1>2, <2>1 DEF Refuse, Supported
<1>3. CASE Survey
  <2>1. addresses' = <<>>
    BY <1>3 DEF Survey, Supported, tables
  <2>2. \A r \in Elements(packets) : NamedBy(r) \subseteq SegmentOf(Elements(packets)).addresses
    BY DEF SegmentOf
  <2> QED
    BY <1>3, <2>1, <2>2 DEF Survey, Supported
<1>4. CASE Consume
  <2> DEFINE r == packets[position]
             C(a) == {c \in Claims(r, segment, routers) : c.address = a}
  <2>1. r \in Frames /\ r \in Elements(packets)
    BY <1>4, PacketAt DEF Consume, TypeOK, Elements
  <2>2. NamedBy(r) \subseteq segment.addresses
    BY <1>4, <2>1 DEF Consume, Supported
  <2>3. NoteAddresses(r) /\ UNCHANGED <<phase, packets, segment, routers>>
    BY <1>4 DEF Consume, ConsumeFrame
  <2> HIDE DEF r
  <2>4. ASSUME NEW a \in DOMAIN addresses'
        PROVE  /\ Holds(segment, a) => addresses'[a].seen_on_segment
               /\ \A k \in DOMAIN addresses'[a].bindings :
                    /\ CouldBeLocal(a, k[1], segment, routers)
                    /\ k[1] \in addresses'[a].sourced_from_macs
    <3>1. CASE a \notin Touched(r, segment, routers)
      BY <2>3, <2>4, <3>1 DEF NoteAddresses, Supported
    <3>2. CASE a \in Touched(r, segment, routers)
      <4> DEFINE acc == AccOf(a, r.epoch_ns)
                 keys == {MachineKey(c.mac, r) : c \in C(a)}
      <4>1. addresses'[a] = TouchedAcc(acc, a, r)
        BY <2>3, <2>4, <3>2 DEF NoteAddresses
      <4>2. DOMAIN addresses'[a].bindings = DOMAIN acc.bindings \cup keys
        BY <4>1 DEF TouchedAcc, Rebound
      <4>3. addresses'[a].sourced_from_macs = acc.sourced_from_macs \cup {c.mac : c \in C(a)}
        BY <4>1 DEF TouchedAcc
      <4>4. \A k \in DOMAIN acc.bindings :
              CouldBeLocal(a, k[1], segment, routers) /\ k[1] \in acc.sourced_from_macs
        BY DEF AccOf, NewAddress, Supported
      <4>5. \A k \in keys :
              CouldBeLocal(a, k[1], segment, routers) /\ k[1] \in {c.mac : c \in C(a)}
        <5> SUFFICES ASSUME NEW c \in C(a)
                     PROVE  CouldBeLocal(a, c.mac, segment, routers)
          BY DEF MachineKey
        <5> QED
          BY <2>1, <2>2, ClaimsSupported
      <4>6. Holds(segment, a) => addresses'[a].seen_on_segment
        BY <4>1, TouchedSeen
      <4> HIDE DEF acc, keys, C
      <4> QED
        BY <4>2, <4>3, <4>4, <4>5, <4>6
    <3> QED
      BY <3>1, <3>2
  <2>5. phase = "consuming"
    BY <1>4 DEF Consume
  <2> QED
    BY <2>3, <2>4, <2>5 DEF Supported
<1>5. CASE Finish
  BY <1>5 DEF Finish, Consumed, Supported, tables
<1>6. CASE Crash
  BY <1>6 DEF Crash, Consumed, Supported, tables
<1>7. CASE UNCHANGED vars
  BY <1>7 DEF vars, tables, Supported
<1> QED
  BY <1>1, <1>2, <1>3, <1>4, <1>5, <1>6, <1>7 DEF Next

THEOREM SupportedAlways == Spec => []Supported
<1>1. Init => Supported
  BY DEF Init, Supported
<1> QED
  BY <1>1, SupportedStep, TypeCorrect, PTL DEF Spec

\* The gateway never swallows the internet: whatever frames a capture holds and
\* in whatever order, no off-segment address is bound to a machine.
THEOREM GatewayIsNotAHub == Spec => []OffSegmentUnbound
<1>1. Supported => OffSegmentUnbound
  <2> SUFFICES ASSUME Supported, NEW a \in DOMAIN addresses,
                      IsOffSegment(a, segment), NEW k \in DOMAIN addresses[a].bindings
               PROVE  FALSE
    BY DEF OffSegmentUnbound
  <2>1. CouldBeLocal(a, k[1], segment, routers)
    BY DEF Supported
  <2> QED
    BY <2>1 DEF CouldBeLocal, IsOffSegment, IsLocalScope
<1> QED
  BY <1>1, SupportedAlways, PTL

LEMMA BoundIsLocalStep ==
  TypeOK /\ Supported /\ BoundIsLocal /\ [Next]_vars => BoundIsLocal'
<1> SUFFICES ASSUME TypeOK, Supported, BoundIsLocal, [Next]_vars PROVE BoundIsLocal'
  OBVIOUS
<1>1. CASE Finish
  <2>1. document'.nodes = [a \in DOMAIN addresses |-> BuildNode(a)]
    BY <1>1 DEF Finish
  <2> SUFFICES ASSUME NEW a \in DOMAIN addresses
               PROVE  /\ BuildNode(a).machine_id # NoMachine /\ Scope[a] # "multicast"
                            => BuildNode(a).locality.is_local
                      /\ BuildNode(a).node_type = "router" => BuildNode(a).locality.is_local
    BY <2>1 DEF BoundIsLocal
  <2>2. /\ BuildNode(a).machine_id = Bound(a)
        /\ BuildNode(a).locality = LocalityOf(a)
        /\ BuildNode(a).node_type =
             ClassifyNodeType(a, LocalityOf(a).is_local, Bound(a) \in RouterIds)
    BY DEF BuildNode
  <2>3. ASSUME Bound(a) # NoMachine, Scope[a] # "multicast"
        PROVE  LocalityOf(a).is_local
    <3>1. PICK k \in DOMAIN addresses[a].bindings : TRUE
      BY <2>3 DEF Bound
    <3>2. /\ CouldBeLocal(a, k[1], segment, routers)
          /\ k[1] \in addresses[a].sourced_from_macs
          /\ Holds(segment, a) => addresses[a].seen_on_segment
      BY <3>1 DEF Supported
    <3>3. Scope[a] \in Scopes
      BY ValuesAssumption, KindsAssumption DEF TypeOK
    <3>4. \/ Scope[a] = "loopback" \/ addresses[a].seen_on_segment
          \/ Covers(segment, a) \/ Scope[a] = "link_local"
          \/ Scope[a] = "private" /\ addresses[a].sourced_from_macs \ routers # {}
      BY <3>2 DEF CouldBeLocal, IsPrivate
    <3> QED
      BY <2>3, <3>3, <3>4 DEF LocalityOf, ClassifyLocality, Scopes
  <2>4. Bound(a) \in RouterIds => Bound(a) # NoMachine
    <3>1. \A x, y : <<x>> # <<>> /\ <<x, y>> # <<>>
      OBVIOUS
    <3>2. \A k : MachineId(k) # NoMachine
      BY <3>1 DEF MachineId, NoMachine
    <3> QED
      BY <3>2 DEF RouterIds
  <2>5. BuildNode(a).node_type = "router" => Bound(a) \in RouterIds /\ Scope[a] # "multicast"
    BY <2>2 DEF ClassifyNodeType
  <2> QED
    BY <2>2, <2>3, <2>4, <2>5
<1>2. CASE UNCHANGED document
  BY <1>2 DEF BoundIsLocal
<1> QED
  BY <1>1, <1>2 DEF Next, vars, Read, Refuse, Survey, Consume, Crash

\* Binding and locality agree in every document: a bound address is local unless
\* it is a multicast group, and whatever is typed a router is local.
THEOREM BoundAddressesAreLocal == Spec => []BoundIsLocal
<1>1. Init => BoundIsLocal
  BY DEF Init, BoundIsLocal, NoDocument
<1> QED
  BY <1>1, BoundIsLocalStep, TypeCorrect, SupportedAlways, PTL DEF Spec

-----------------------------------------------------------------------------
(* Windows                                                                  *)

\* Extending the outer window, or both, keeps one window inside the other.
LEMMA WithinExtend ==
  ASSUME NEW v \in Window, NEW w \in Window, NEW t \in Nat, Within(v, w)
  PROVE  Within(v, Extend(w, t)) /\ Within(Extend(v, t), Extend(w, t))
  BY DEF Within, Window, Extend

\* The moment of the frame lies in every window the frame extends.
LEMMA WithinAt ==
  ASSUME NEW w \in Window, w.first <= w.last, NEW t \in Nat
  PROVE  /\ Within(At(t), Extend(w, t)) /\ Within(At(t), At(t))
         /\ Extend(At(t), t) = At(t)
  BY DEF Within, Window, Extend, At

LEMMA WithinTransitive ==
  ASSUME NEW u \in Window, NEW v \in Window, NEW w \in Window, Within(u, v), Within(v, w)
  PROVE  Within(u, w)
  BY DEF Within, Window

\* The accumulated windows before a frame: known and ordered, or just opened.
AccWindows(acc) ==
  /\ acc.window \in Window /\ acc.window.first <= acc.window.last
  /\ \A k \in DOMAIN acc.bindings :
       acc.bindings[k] \in Binding /\ Within(acc.bindings[k].window, acc.window)

LEMMA ReboundWindows ==
  ASSUME NEW r \in Frames, NEW acc, AccWindows(acc), NEW C,
         NEW k \in DOMAIN Rebound(acc.bindings, C, r)
  PROVE  /\ Within(Rebound(acc.bindings, C, r)[k].window, Extend(acc.window, r.epoch_ns))
         /\ k \in DOMAIN acc.bindings =>
              Within(acc.bindings[k].window, Rebound(acc.bindings, C, r)[k].window)
<1> DEFINE B == acc.bindings
           keys == {MachineKey(c.mac, r) : c \in C}
           BasesFor(j) == {c.basis : c \in {d \in C : MachineKey(d.mac, r) = j}}
           t == r.epoch_ns
<1>0. t \in Nat
  BY FrameTypes
<1>1. CASE k \notin keys
  <2>1. k \in DOMAIN B /\ Rebound(B, C, r)[k] = B[k]
    BY <1>1 DEF Rebound
  <2>2. B[k].window \in Window /\ Within(B[k].window, acc.window)
    BY <2>1 DEF AccWindows, Binding
  <2>3. Within(B[k].window, B[k].window)
    BY <2>2 DEF Within, Window
  <2> QED
    BY <1>0, <2>1, <2>2, <2>3, WithinExtend DEF AccWindows
<1>2. CASE k \in keys /\ k \notin DOMAIN B
  <2>1. Rebound(B, C, r)[k].window = At(t)
    BY <1>2 DEF Rebound
  <2> QED
    BY <1>0, <1>2, <2>1, WithinAt DEF AccWindows
<1>3. CASE k \in keys /\ k \in DOMAIN B
  <2>1. Rebound(B, C, r)[k].window = Extend(B[k].window, t)
    BY <1>3 DEF Rebound
  <2>2. B[k].window \in Window /\ Within(B[k].window, acc.window)
    BY <1>3 DEF AccWindows, Binding
  <2>3. Within(B[k].window, B[k].window)
    BY <2>2 DEF Within, Window
  <2> QED
    BY <1>0, <2>1, <2>2, <2>3, WithinExtend DEF AccWindows
<1> QED
  BY <1>1, <1>2, <1>3

-----------------------------------------------------------------------------
(* The invariant                                                            *)

(***************************************************************************)
(* WindowsNest and EdgesClosed need each other, because an edge can only   *)
(* lie within the windows of addresses that are there; and before the      *)
(* first frame the capture has no window, and nothing else is there.       *)
(***************************************************************************)
Nested ==
  /\ EdgesClosed
  /\ WindowsNest
  /\ window = NoWindow => addresses = <<>> /\ machines = <<>> /\ edges = <<>>
  /\ window.first <= window.last

\* The window of the capture after a frame.
LEMMA WindowStep ==
  ASSUME TypeOK, Nested, NEW r \in Frames, ConsumeFrame(r)
  PROVE  /\ window' \in Window /\ window'.first <= window'.last
         /\ Within(At(r.epoch_ns), window')
         /\ \A v \in Window : window # NoWindow /\ Within(v, window) =>
              /\ Within(v, window')
              /\ Within(Extend(v, r.epoch_ns), window')
<1>1. r.epoch_ns \in Nat
  BY FrameTypes
<1>2. CASE window = NoWindow
  <2>1. window' = At(r.epoch_ns)
    BY <1>2 DEF ConsumeFrame
  <2> QED
    BY <1>1, <1>2, <2>1 DEF At, Window, Within
<1>3. CASE window # NoWindow
  <2>1. window \in Window /\ window.first <= window.last
    BY <1>3 DEF TypeOK, Nested
  <2>2. window' = Extend(window, r.epoch_ns)
    BY <1>3 DEF ConsumeFrame
  <2>3. window' \in Window /\ window'.first <= window'.last
    BY <1>1, <2>1, <2>2 DEF Extend, Window
  <2> QED
    BY <1>1, <2>1, <2>2, <2>3, WithinExtend, WithinAt
<1> QED
  BY <1>2, <1>3

\* One touched address: its window and those of its bindings before the frame.
LEMMA AccBefore ==
  ASSUME TypeOK, Nested, NEW r \in Frames, NEW a
  PROVE  AccWindows(AccOf(a, r.epoch_ns))
<1>1. CASE a \in DOMAIN addresses
  <2>1. IsAddressAcc(addresses[a]) /\ AccOf(a, r.epoch_ns) = addresses[a]
    BY <1>1 DEF TypeOK, AccOf
  <2>2. Within(addresses[a].window, window)
    BY <1>1 DEF Nested, WindowsNest
  <2>3. \A k \in DOMAIN addresses[a].bindings :
          Within(addresses[a].bindings[k].window, addresses[a].window)
    BY <1>1 DEF Nested, WindowsNest
  <2> QED
    BY <2>1, <2>2, <2>3 DEF AccWindows, IsAddressAcc, IsDict, Within
<1>2. CASE a \notin DOMAIN addresses
  BY <1>2, FrameTypes DEF AccOf, NewAddress, AccWindows, At, Window
<1> QED
  BY <1>1, <1>2

\* Every address after a frame.
LEMMA AddressStep ==
  ASSUME TypeOK, Nested, NEW r \in Frames, ConsumeFrame(r), NEW a \in DOMAIN addresses'
  PROVE  /\ addresses'[a].window \in Window
         /\ Within(addresses'[a].window, window')
         /\ \A k \in DOMAIN addresses'[a].bindings :
              Within(addresses'[a].bindings[k].window, addresses'[a].window)
         /\ a \in DOMAIN addresses =>
              Within(addresses[a].window, addresses'[a].window)
         /\ a \in Touched(r, segment, routers) =>
              addresses'[a].window = Extend(AccOf(a, r.epoch_ns).window, r.epoch_ns)
<1> DEFINE acc == AccOf(a, r.epoch_ns)
           C == {c \in Claims(r, segment, routers) : c.address = a}
<1>1. NoteAddresses(r) /\ r.epoch_ns \in Nat
  BY FrameTypes DEF ConsumeFrame
<1>2. CASE a \in Touched(r, segment, routers)
  <2>1. addresses'[a] = TouchedAcc(acc, a, r)
    BY <1>1, <1>2 DEF NoteAddresses
  <2>2. /\ addresses'[a].window = Extend(acc.window, r.epoch_ns)
        /\ addresses'[a].bindings = Rebound(acc.bindings, C, r)
    BY <2>1 DEF TouchedAcc
  <2>3. AccWindows(acc)
    BY AccBefore
  <2> HIDE DEF C, acc
  <2>4. \A k \in DOMAIN addresses'[a].bindings :
          Within(addresses'[a].bindings[k].window, addresses'[a].window)
    BY <2>2, <2>3, ReboundWindows
  <2>5. addresses'[a].window \in Window
    BY <1>1, <2>2, <2>3, ExtendTypes DEF AccWindows
  <2>6. CASE a \in DOMAIN addresses
    <3>1. acc = addresses[a] /\ Within(acc.window, window) /\ window # NoWindow
      BY <2>6 DEF acc, AccOf, Nested, WindowsNest
    <3>2. Within(acc.window, acc.window)
      BY <2>3 DEF AccWindows, Within, Window
    <3>3. Within(addresses[a].window, addresses'[a].window)
      BY <1>1, <2>2, <2>3, <3>1, <3>2, WithinExtend DEF AccWindows
    <3>4. Within(addresses'[a].window, window')
      BY <2>2, <2>3, <3>1, WindowStep DEF AccWindows
    <3> QED
      BY <2>2, <2>4, <2>5, <3>3, <3>4 DEF acc
  <2>7. CASE a \notin DOMAIN addresses
    <3>1. acc.window = At(r.epoch_ns)
      BY <2>7 DEF acc, AccOf, NewAddress
    <3>2. addresses'[a].window = At(r.epoch_ns)
      BY <1>1, <2>2, <3>1 DEF At, Extend
    <3>3. Within(addresses'[a].window, window')
      BY <3>2, WindowStep
    <3> QED
      BY <2>2, <2>4, <2>5, <2>7, <3>3 DEF acc
  <2> QED
    BY <2>6, <2>7
<1>3. CASE a \notin Touched(r, segment, routers)
  <2>1. a \in DOMAIN addresses /\ addresses'[a] = addresses[a]
    BY <1>1, <1>3 DEF NoteAddresses
  <2>2. IsAddressAcc(addresses[a]) /\ window # NoWindow
    BY <2>1 DEF TypeOK, Nested
  <2>3. Within(addresses[a].window, window)
    BY <2>1 DEF Nested, WindowsNest
  <2>4. \A k \in DOMAIN addresses[a].bindings :
          Within(addresses[a].bindings[k].window, addresses[a].window)
    BY <2>1 DEF Nested, WindowsNest
  <2>5. Within(addresses[a].window, addresses[a].window)
    BY <2>2, <2>3 DEF Within, IsAddressAcc, Window
  <2> QED
    BY <1>3, <2>1, <2>2, <2>3, <2>4, <2>5, WindowStep DEF IsAddressAcc
<1> QED
  BY <1>2, <1>3

\* Every machine after a frame, and the frame's own MACs among them.
LEMMA MachineStep ==
  ASSUME TypeOK, Nested, NEW r \in Frames, ConsumeFrame(r)
  PROVE  /\ \A k \in DOMAIN machines' : Within(machines'[k], window')
         /\ DOMAIN machines \subseteq DOMAIN machines'
         /\ \A m \in {r.eth_src, r.eth_dst} \ {None} : MachineKey(m, r) \in DOMAIN machines'
<1> DEFINE macs == {r.eth_src, r.eth_dst} \ {None}
           keys == {MachineKey(m, r) : m \in macs}
<1>1. machines' = [k \in DOMAIN machines \cup keys |->
                     IF k \notin DOMAIN machines THEN At(r.epoch_ns)
                     ELSE IF k \in keys THEN Extend(machines[k], r.epoch_ns)
                     ELSE machines[k]]
  BY DEF ConsumeFrame, NoteMacs
<1>2. \A k \in DOMAIN machines :
        machines[k] \in Window /\ Within(machines[k], window) /\ window # NoWindow
  BY DEF TypeOK, IsDict, Nested, WindowsNest
<1>3. \A k \in DOMAIN machines :
        Within(machines[k], window') /\ Within(Extend(machines[k], r.epoch_ns), window')
  BY <1>2, WindowStep
<1>4. Within(At(r.epoch_ns), window')
  BY WindowStep
<1> QED
  BY <1>1, <1>3, <1>4

\* Every address a frame touches is a key of the address table afterwards, and
\* no key is ever lost.
LEMMA AddressKeys ==
  ASSUME NEW r, NoteAddresses(r)
  PROVE  DOMAIN addresses' = DOMAIN addresses \cup Touched(r, segment, routers)
  BY DEF NoteAddresses

LEMMA PairElements ==
  ASSUME NEW x, NEW y
  PROVE  Elements(SortedPair(x, y)) = {x, y}
<1>1. ASSUME NEW u, NEW v PROVE Elements(<<u, v>>) = {u, v}
  <2> DEFINE p == <<u, v>>
  <2>1. DOMAIN p = {1, 2} /\ p[1] = u /\ p[2] = v
    OBVIOUS
  <2> HIDE DEF p
  <2>2. Elements(p) = {p[1], p[2]}
    BY <2>1 DEF Elements
  <2> QED
    BY <2>1, <2>2 DEF p
<1> QED
  BY <1>1 DEF SortedPair

\* What an edge must satisfy, stated of its key and its window.
EdgeClosed(key) ==
  \A x \in Elements(key[2]) :
    IF key[1] = "l3" THEN x \in DOMAIN addresses
    ELSE \E v \in Maybe(Vlan) : <<x, v>> \in DOMAIN machines

EdgeNested(key, w) ==
  /\ Within(w, window)
  /\ key[1] = "l3" => \A x \in Elements(key[2]) : Within(w, addresses[x].window)

\* An edge the frame does not belong to stays closed and nested.
LEMMA OtherEdge ==
  ASSUME TypeOK, Nested, NEW r \in Frames, ConsumeFrame(r),
         NEW key \in DOMAIN edges, NEW w, w = edges[key].window
  PROVE  EdgeClosed(key)' /\ EdgeNested(key, w)'
<1>1. /\ EdgeClosed(key) /\ edges[key].window \in Window /\ window # NoWindow
      /\ Within(edges[key].window, window)
      /\ key[1] = "l3" =>
           \A x \in Elements(key[2]) : Within(edges[key].window, addresses[x].window)
  <2>1. EdgeClosed(key)
    BY DEF Nested, EdgesClosed, EdgeClosed
  <2>2. edges[key].window \in Window
    BY DEF TypeOK, IsEdgeAcc
  <2>3. window # NoWindow
    BY DEF Nested
  <2>4. /\ Within(edges[key].window, window)
        /\ key[1] = "l3" =>
             \A x \in Elements(key[2]) : Within(edges[key].window, addresses[x].window)
    BY DEF Nested, WindowsNest
  <2> QED
    BY <2>1, <2>2, <2>3, <2>4
<1>2. DOMAIN addresses \subseteq DOMAIN addresses'
  BY AddressKeys DEF ConsumeFrame
<1>3. DOMAIN machines \subseteq DOMAIN machines'
  BY MachineStep
<1>4. EdgeClosed(key)'
  BY <1>1, <1>2, <1>3 DEF EdgeClosed
<1>5. Within(edges[key].window, window')
  BY <1>1, WindowStep
<1>6. ASSUME key[1] = "l3", NEW x \in Elements(key[2])
      PROVE  Within(edges[key].window, addresses'[x].window)
  <2>1. x \in DOMAIN addresses
    BY <1>1, <1>6 DEF EdgeClosed
  <2>2. /\ addresses[x].window \in Window /\ addresses'[x].window \in Window
        /\ Within(addresses[x].window, addresses'[x].window)
    BY <1>2, <2>1, AddressStep DEF TypeOK, IsAddressAcc
  <2> QED
    BY <1>1, <1>6, <2>2, WithinTransitive
<1> QED
  BY <1>4, <1>5, <1>6 DEF EdgeNested

\* The edge the packet of a conversation is counted on.
LEMMA OwnL3Edge ==
  ASSUME TypeOK, Nested, NEW r \in Frames, ConsumeFrame(r), Conversation(r),
         NEW w, w = Extend(EdgeOf(L3Key(r), r.epoch_ns).window, r.epoch_ns)
  PROVE  EdgeClosed(L3Key(r))' /\ EdgeNested(L3Key(r), w)'
<1> DEFINE key == L3Key(r)
           t == r.epoch_ns
           old == EdgeOf(key, t)
<1>1. key[1] = "l3" /\ Elements(key[2]) = {r.ip_src, r.ip_dst}
  BY PairElements DEF L3Key
<1>2. {r.ip_src, r.ip_dst} \subseteq Touched(r, segment, routers)
  BY DEF Touched, Conversation
<1>3. {r.ip_src, r.ip_dst} \subseteq DOMAIN addresses'
  BY <1>2, AddressKeys DEF ConsumeFrame
<1>4. t \in Nat
  BY FrameTypes
<1>5. CASE key \in DOMAIN edges
  <2>1. old = edges[key] /\ old.window \in Window /\ window # NoWindow
    BY <1>5 DEF EdgeOf, TypeOK, IsEdgeAcc, Nested
  <2>2. Within(old.window, window)
    BY <1>5, <2>1 DEF Nested, WindowsNest
  <2>3. \A x \in {r.ip_src, r.ip_dst} :
          x \in DOMAIN addresses /\ Within(old.window, addresses[x].window)
    BY <1>1, <1>5, <2>1 DEF Nested, WindowsNest, EdgesClosed
  <2>4. \A x \in {r.ip_src, r.ip_dst} :
          addresses[x].window \in Window /\ addresses'[x].window = Extend(addresses[x].window, t)
    BY <1>2, <1>3, <2>3, AddressStep DEF AccOf, TypeOK, IsAddressAcc
  <2>5. \A x \in {r.ip_src, r.ip_dst} : Within(Extend(old.window, t), addresses'[x].window)
    BY <1>4, <2>1, <2>3, <2>4, WithinExtend
  <2>6. Within(Extend(old.window, t), window')
    BY <2>1, <2>2, WindowStep
  <2> QED
    BY <1>1, <1>3, <2>5, <2>6 DEF EdgeClosed, EdgeNested
<1>6. CASE key \notin DOMAIN edges
  <2>1. Extend(old.window, t) = At(t)
    BY <1>4, <1>6 DEF EdgeOf, NewEdge, At, Extend
  <2>2. Within(At(t), window')
    BY WindowStep
  <2>3. ASSUME NEW x \in {r.ip_src, r.ip_dst}
        PROVE  Within(At(t), addresses'[x].window)
    <3>1. AccWindows(AccOf(x, t))
      BY AccBefore
    <3>2. addresses'[x].window = Extend(AccOf(x, t).window, t)
      BY <1>2, <1>3, AddressStep
    <3> QED
      BY <1>4, <3>1, <3>2, WithinAt DEF AccWindows
  <2> QED
    BY <1>1, <1>3, <2>1, <2>2, <2>3 DEF EdgeClosed, EdgeNested
<1> QED
  BY <1>5, <1>6

LEMMA OwnL2Edge ==
  ASSUME TypeOK, Nested, NEW r \in Frames, ConsumeFrame(r), BetweenMachines(r),
         NEW w, w = Extend(EdgeOf(L2Key(r), r.epoch_ns).window, r.epoch_ns)
  PROVE  EdgeClosed(L2Key(r))' /\ EdgeNested(L2Key(r), w)'
<1> DEFINE key == L2Key(r)
           t == r.epoch_ns
           old == EdgeOf(key, t)
<1>1. key[1] = "l2" /\ Elements(key[2]) = {r.eth_src, r.eth_dst}
  BY PairElements DEF L2Key
<1>2. EdgeClosed(key)'
  <2>1. \A x \in {r.eth_src, r.eth_dst} : x \in Mac /\ x # None
    BY BetweenMachinesTypes DEF BetweenMachines
  <2>2. \A x \in {r.eth_src, r.eth_dst} : <<x, VlanOf(r)>> \in DOMAIN machines'
    BY <2>1, MachineStep DEF MachineKey
  <2>3. VlanOf(r) \in Maybe(Vlan)
    BY <2>1, KeyTypes
  <2> QED
    BY <1>1, <2>2, <2>3 DEF EdgeClosed
<1>3. Within(Extend(old.window, t), window')
  <2>1. CASE key \in DOMAIN edges
    <3>1. old = edges[key] /\ old.window \in Window /\ window # NoWindow
      BY <2>1 DEF EdgeOf, TypeOK, IsEdgeAcc, Nested
    <3>2. Within(old.window, window)
      BY <2>1, <3>1 DEF Nested, WindowsNest
    <3> QED
      BY <3>1, <3>2, WindowStep
  <2>2. CASE key \notin DOMAIN edges
    <3>1. Extend(old.window, t) = At(t)
      BY <2>2, FrameTypes DEF EdgeOf, NewEdge, At, Extend
    <3> QED
      BY <3>1, WindowStep
  <2> QED
    BY <2>1, <2>2
<1> QED
  BY <1>1, <1>2, <1>3 DEF EdgeNested

LEMMA EdgesStep ==
  ASSUME TypeOK, Nested, NEW r \in Frames, ConsumeFrame(r)
  PROVE  \A key \in DOMAIN edges' :
           \A w : w = edges'[key].window => EdgeClosed(key)' /\ EdgeNested(key, w)'
<1> SUFFICES ASSUME NEW key \in DOMAIN edges', NEW w, w = edges'[key].window
             PROVE  EdgeClosed(key)' /\ EdgeNested(key, w)'
  OBVIOUS
<1>1. ConsumeL3(r) \/ ConsumeL2(r) \/ ConsumeNoEdge(r)
  BY DEF ConsumeFrame
<1>2. CASE ConsumeL3(r) /\ key = L3Key(r)
  <2>1. w = Extend(EdgeOf(L3Key(r), r.epoch_ns).window, r.epoch_ns)
    BY <1>2 DEF ConsumeL3, SetEdge, L3Edge
  <2> QED
    BY <1>2, <2>1, OwnL3Edge DEF ConsumeL3
<1>3. CASE ConsumeL2(r) /\ key = L2Key(r)
  <2>1. w = Extend(EdgeOf(L2Key(r), r.epoch_ns).window, r.epoch_ns)
    BY <1>3 DEF ConsumeL2, SetEdge, L2Edge
  <2> QED
    BY <1>3, <2>1, OwnL2Edge DEF ConsumeL2
<1>4. CASE key \in DOMAIN edges /\ edges'[key] = edges[key]
  BY <1>4, OtherEdge
<1> QED
  BY <1>1, <1>2, <1>3, <1>4 DEF ConsumeL3, ConsumeL2, ConsumeNoEdge, SetEdge

LEMMA NestedStep == TypeOK /\ Nested /\ [Next]_vars => Nested'
<1> SUFFICES ASSUME TypeOK, Nested, [Next]_vars PROVE Nested'
  OBVIOUS
<1>1. CASE Consume
  <2> DEFINE r == packets[position]
  <2>1. r \in Frames /\ ConsumeFrame(r)
    BY <1>1, PacketAt DEF Consume
  <2> HIDE DEF r
  <2>2. window' \in Window /\ window'.first <= window'.last
    BY <2>1, WindowStep
  <2>3. window' # NoWindow
    BY <2>2 DEF NoWindow, Window, None
  <2>4. EdgesClosed'
    BY <2>1, EdgesStep DEF EdgesClosed, EdgeClosed
  <2>5. WindowsNest'
    BY <2>1, AddressStep, MachineStep, EdgesStep DEF WindowsNest, EdgeNested
  <2> QED
    BY <2>2, <2>3, <2>4, <2>5 DEF Nested
<1>2. CASE UNCHANGED tables
  BY <1>2 DEF tables, Nested, EdgesClosed, WindowsNest
<1> QED
  BY <1>1, <1>2 DEF Next, vars, Read, Refuse, Survey, Finish, Crash

THEOREM NestedAlways == Spec => []Nested
<1>1. Init => Nested
  BY DEF Init, Nested, EdgesClosed, WindowsNest, NoWindow, None
<1> QED
  BY <1>1, NestedStep, TypeCorrect, PTL DEF Spec

\* No edge dangles in the tables: the ends of an l3 edge are addresses the
\* aggregator knows, those of an l2 edge MACs it registered on some VLAN.
THEOREM EdgesAlwaysClosed == Spec => []EdgesClosed
<1>1. Nested => EdgesClosed
  BY DEF Nested
<1> QED
  BY <1>1, NestedAlways, PTL

\* Windows nest for every order of timestamps: bindings within their address,
\* l3 edges within both ends, everything within the capture.
THEOREM WindowsAlwaysNest == Spec => []WindowsNest
<1>1. Nested => WindowsNest
  BY DEF Nested
<1> QED
  BY <1>1, NestedAlways, PTL

-----------------------------------------------------------------------------
(* Evidence                                                                 *)

\* A claim never lowers the rank of a binding it repeats.
LEMMA ReboundRanks ==
  ASSUME NEW r \in Frames, NEW B, IsDict(B, MachineKeys, Binding),
         NEW C, C \subseteq Claims(r, segment, routers), NEW k \in DOMAIN B
  PROVE  /\ k \in DOMAIN Rebound(B, C, r)
         /\ BasisRank[Rebound(B, C, r)[k].basis] >= BasisRank[B[k].basis]
<1> DEFINE keys == {MachineKey(c.mac, r) : c \in C}
           BasesFor(j) == {c.basis : c \in {d \in C : MachineKey(d.mac, r) = j}}
<1>1. B[k].basis \in Bases
  BY DEF IsDict, Binding
<1>2. CASE k \notin keys
  BY <1>1, <1>2 DEF Rebound, BasisRank, Bases
<1>3. CASE k \in keys
  <2>1. Rebound(B, C, r)[k].basis = Strongest(BasesFor(k) \cup {B[k].basis})
    BY <1>3 DEF Rebound
  <2>2. BasesFor(k) \cup {B[k].basis} \in SUBSET Bases
    BY <1>1, ClaimTypes
  <2> QED
    BY <1>3, <2>1, <2>2, StrongestInSet DEF Rebound
<1> QED
  BY <1>2, <1>3

LEMMA EvidenceStep == TypeOK /\ Nested /\ [Next]_vars => [EvidenceGrows]_vars
<1> SUFFICES ASSUME TypeOK, Nested, Next,
                    NEW a \in DOMAIN addresses, NEW k \in DOMAIN addresses[a].bindings
             PROVE  /\ a \in DOMAIN addresses' /\ k \in DOMAIN addresses'[a].bindings
                    /\ BasisRank[addresses'[a].bindings[k].basis]
                          >= BasisRank[addresses[a].bindings[k].basis]
                    /\ Within(addresses[a].bindings[k].window,
                              addresses'[a].bindings[k].window)
  BY DEF EvidenceGrows
<1>1. /\ IsDict(addresses[a].bindings, MachineKeys, Binding)
      /\ addresses[a].bindings[k] \in Binding
  BY DEF TypeOK, IsAddressAcc, IsDict
<1>2. CASE addresses' = addresses
  <2>1. BasisRank[addresses[a].bindings[k].basis] \in Nat
    BY <1>1 DEF Binding, Bases, BasisRank
  <2>2. Within(addresses[a].bindings[k].window, addresses[a].window)
    BY DEF Nested, WindowsNest
  <2>3. Within(addresses[a].bindings[k].window, addresses[a].bindings[k].window)
    BY <1>1, <2>2 DEF Within, Binding, Window
  <2> QED
    BY <1>2, <2>1, <2>3
<1>3. CASE Consume
  <2> DEFINE r == packets[position]
             C == {c \in Claims(r, segment, routers) : c.address = a}
  <2>1. r \in Frames /\ NoteAddresses(r)
    BY <1>3, PacketAt DEF Consume, ConsumeFrame
  <2> HIDE DEF r
  <2>2. CASE a \notin Touched(r, segment, routers)
    <3>1. a \in DOMAIN addresses' /\ addresses'[a] = addresses[a]
      BY <2>1, <2>2 DEF NoteAddresses
    <3>2. BasisRank[addresses[a].bindings[k].basis] \in Nat
      BY <1>1 DEF Binding, Bases, BasisRank
    <3>3. Within(addresses[a].bindings[k].window, addresses[a].window)
      BY DEF Nested, WindowsNest
    <3>4. Within(addresses[a].bindings[k].window, addresses[a].bindings[k].window)
      BY <1>1, <3>3 DEF Within, Binding, Window
    <3> QED
      BY <3>1, <3>2, <3>4
  <2>3. CASE a \in Touched(r, segment, routers)
    <3>1. a \in DOMAIN addresses' /\ addresses'[a] = TouchedAcc(addresses[a], a, r)
      BY <2>1, <2>3 DEF NoteAddresses, AccOf
    <3>2. addresses'[a].bindings = Rebound(addresses[a].bindings, C, r)
      BY <3>1 DEF TouchedAcc
    <3>3. AccWindows(addresses[a])
      BY <2>1, AccBefore DEF AccOf
    <3>4. C \subseteq Claims(r, segment, routers)
      OBVIOUS
    <3> HIDE DEF C
    <3> QED
      BY <1>1, <2>1, <3>1, <3>2, <3>3, <3>4, ReboundRanks, ReboundWindows
  <2> QED
    BY <2>2, <2>3
<1> QED
  BY <1>2, <1>3 DEF Next, Read, Refuse, Survey, Finish, Crash, tables

\* Whatever arrives later, a binding is never resolved away, never weakened and
\* never shortened.
THEOREM EvidenceNeverLost == Spec => EvidenceOnlyGrows
BY EvidenceStep, TypeCorrect, NestedAlways, PTL DEF Spec, EvidenceOnlyGrows

-----------------------------------------------------------------------------
(***************************************************************************)
(* What the tables of the aggregator count: packets, flows, services and   *)
(* machine ids.                                                            *)
(***************************************************************************)
(* Induction over a finite set, with the property given as the set of the   *)
(* subsets it holds of.                                                     *)

LEMMA SetInduction ==
  ASSUME NEW S, IsFiniteSet(S), NEW C, {} \in C,
         \A T \in SUBSET S : \A x \in S : T \in C /\ x \notin T => T \cup {x} \in C
  PROVE  S \in C
<1> DEFINE bad == {T \in SUBSET S : T \notin C}
<1> SUFFICES ASSUME S \notin C PROVE FALSE
  OBVIOUS
<1>1. FiniteSubsetsOf(S) = SUBSET S
  BY FS_FiniteSubsetsOfFinite
<1>2. IsWellFoundedOn(StrictSubsetOrdering(S), SUBSET S)
  BY <1>1, FS_StrictSubsetOrderingWellFounded
<1>3. bad \subseteq SUBSET S /\ S \in bad
  OBVIOUS
<1>4. PICK T \in bad : \A U \in bad : ~(<<U, T>> \in StrictSubsetOrdering(S))
  <2> HIDE DEF bad
  <2> QED
    BY <1>2, <1>3, WFMin
<1>5. PICK x \in T : TRUE
  <2>1. T # {}
    BY <1>4
  <2> QED
    BY <2>1
<1>6. <<T \ {x}, T>> \in StrictSubsetOrdering(S)
  BY <1>4, <1>5 DEF StrictSubsetOrdering
<1>7. T \ {x} \in C
  BY <1>4, <1>6
<1>8. (T \ {x}) \cup {x} = T
  BY <1>5
<1> QED
  BY <1>4, <1>5, <1>7, <1>8

-----------------------------------------------------------------------------
(* The least and the greatest element of a finite set                       *)

LEMMA MinInSet ==
  ASSUME NEW S, IsFiniteSet(S), S \subseteq Int, S # {}
  PROVE  Min(S) \in S /\ \A y \in S : Min(S) <= y
<1> DEFINE C == {T \in SUBSET S : T = {} \/ \E x \in T : \A y \in T : x <= y}
<1>1. {} \in C
  OBVIOUS
<1>2. ASSUME NEW T \in SUBSET S, NEW z \in S, T \in C, z \notin T
      PROVE  T \cup {z} \in C
  <2>1. CASE T = {}
    BY <2>1
  <2>2. CASE T # {}
    <3>1. PICK x \in T : \A y \in T : x <= y
      BY <1>2, <2>2
    <3>2. x \in Int /\ z \in Int /\ \A y \in T : y \in Int
      OBVIOUS
    <3>3. CASE x <= z
      BY <3>1, <3>3
    <3>4. CASE z < x
      <4>1. \A y \in T \cup {z} : z <= y
        BY <3>1, <3>2, <3>4
      <4> QED
        BY <4>1
    <3> QED
      BY <3>2, <3>3, <3>4
  <2> QED
    BY <2>1, <2>2
<1> HIDE DEF C
<1>3. S \in C
  BY <1>1, <1>2, SetInduction
<1>4. \E x \in S : \A y \in S : x <= y
  BY <1>3 DEF C
<1> QED
  BY <1>4 DEF Min

LEMMA MaxInSet ==
  ASSUME NEW S, IsFiniteSet(S), S \subseteq Int, S # {}
  PROVE  Max(S) \in S /\ \A y \in S : Max(S) >= y
<1> DEFINE C == {T \in SUBSET S : T = {} \/ \E x \in T : \A y \in T : x >= y}
<1>1. {} \in C
  OBVIOUS
<1>2. ASSUME NEW T \in SUBSET S, NEW z \in S, T \in C, z \notin T
      PROVE  T \cup {z} \in C
  <2>1. CASE T = {}
    BY <2>1
  <2>2. CASE T # {}
    <3>1. PICK x \in T : \A y \in T : x >= y
      BY <1>2, <2>2
    <3>2. x \in Int /\ z \in Int /\ \A y \in T : y \in Int
      OBVIOUS
    <3>3. CASE x >= z
      BY <3>1, <3>3
    <3>4. CASE z > x
      <4>1. \A y \in T \cup {z} : z >= y
        BY <3>1, <3>2, <3>4
      <4> QED
        BY <4>1
    <3> QED
      BY <3>2, <3>3, <3>4
  <2> QED
    BY <2>1, <2>2
<1> HIDE DEF C
<1>3. S \in C
  BY <1>1, <1>2, SetInduction
<1>4. \E x \in S : \A y \in S : x >= y
  BY <1>3 DEF C
<1> QED
  BY <1>4 DEF Max

LEMMA MinIs ==
  ASSUME NEW S, S \subseteq Int, NEW x \in S, \A y \in S : x <= y
  PROVE  Min(S) = x
<1> DEFINE m == Min(S)
<1>1. m \in S /\ \A y \in S : m <= y
  BY DEF Min
<1> HIDE DEF m
<1>2. m \in Int /\ x \in Int /\ m <= x /\ x <= m
  BY <1>1
<1>3. m = x
  BY <1>2
<1> QED
  BY <1>3 DEF m

LEMMA MaxIs ==
  ASSUME NEW S, S \subseteq Int, NEW x \in S, \A y \in S : x >= y
  PROVE  Max(S) = x
<1> DEFINE m == Max(S)
<1>1. m \in S /\ \A y \in S : m >= y
  BY DEF Max
<1> HIDE DEF m
<1>2. m \in Int /\ x \in Int /\ m >= x /\ x >= m
  BY <1>1
<1>3. m = x
  BY <1>2
<1> QED
  BY <1>3 DEF m

\* One element more moves the least and the greatest by one comparison.
LEMMA MinMore ==
  ASSUME NEW S, IsFiniteSet(S), S \subseteq Int, S # {}, NEW t \in Int
  PROVE  Min(S \cup {t}) = IF t < Min(S) THEN t ELSE Min(S)
<1>1. Min(S) \in S /\ (\A y \in S : Min(S) <= y) /\ Min(S) \in Int
  BY MinInSet
<1> DEFINE x == IF t < Min(S) THEN t ELSE Min(S)
<1>2. x \in S \cup {t} /\ \A y \in S \cup {t} : x <= y
  BY <1>1
<1> HIDE DEF x
<1>3. Min(S \cup {t}) = x
  BY <1>2, MinIs
<1> QED
  BY <1>3 DEF x

LEMMA MaxMore ==
  ASSUME NEW S, IsFiniteSet(S), S \subseteq Int, S # {}, NEW t \in Int
  PROVE  Max(S \cup {t}) = IF t > Max(S) THEN t ELSE Max(S)
<1>1. Max(S) \in S /\ (\A y \in S : Max(S) >= y) /\ Max(S) \in Int
  BY MaxInSet
<1> DEFINE x == IF t > Max(S) THEN t ELSE Max(S)
<1>2. x \in S \cup {t} /\ \A y \in S \cup {t} : x >= y
  BY <1>1
<1> HIDE DEF x
<1>3. Max(S \cup {t}) = x
  BY <1>2, MaxIs
<1> QED
  BY <1>3 DEF x

-----------------------------------------------------------------------------
(* A sum of natural numbers is the number of pairs <<x, n>> with n in       *)
(* 1 .. f[x], which turns every fact about sums into one about cardinality. *)

Pairs(f, S) == UNION {{x} \X (1 .. f[x]) : x \in S}

LEMMA ColumnCounts ==
  ASSUME NEW x, NEW n \in Nat
  PROVE  IsFiniteSet({x} \X (1 .. n)) /\ Cardinality({x} \X (1 .. n)) = n
<1>1. IsFiniteSet({x}) /\ Cardinality({x}) = 1
  BY FS_Singleton
<1>2. IsFiniteSet(1 .. n) /\ Cardinality(1 .. n) = n
  BY FS_Interval
<1>3. /\ IsFiniteSet({x} \X (1 .. n))
      /\ Cardinality({x} \X (1 .. n)) = Cardinality({x}) * Cardinality(1 .. n)
  BY <1>1, <1>2, FS_Product
<1> QED
  BY <1>1, <1>2, <1>3

LEMMA PairsAdd ==
  ASSUME NEW S, NEW x, x \notin S, NEW f, \A y \in S \cup {x} : f[y] \in Nat,
         IsFiniteSet(Pairs(f, S))
  PROVE  /\ IsFiniteSet(Pairs(f, S \cup {x}))
         /\ Cardinality(Pairs(f, S \cup {x})) = f[x] + Cardinality(Pairs(f, S))
<1> DEFINE column == {x} \X (1 .. f[x])
<1>1. IsFiniteSet(column) /\ Cardinality(column) = f[x]
  BY ColumnCounts
<1>2. Pairs(f, S \cup {x}) = Pairs(f, S) \cup column
  BY DEF Pairs
<1>3. Pairs(f, S) \cap column = {}
  BY DEF Pairs
<1>4. Cardinality({}) = 0 /\ Cardinality(Pairs(f, S)) \in Nat
  BY FS_EmptySet, FS_CardinalityType
<1>5. f[x] \in Nat
  OBVIOUS
<1> HIDE DEF column
<1>6. /\ IsFiniteSet(Pairs(f, S) \cup column)
      /\ Cardinality(Pairs(f, S) \cup column) =
           Cardinality(Pairs(f, S)) + Cardinality(column) - Cardinality(Pairs(f, S) \cap column)
  BY <1>1, FS_Union
<1>7. Cardinality(Pairs(f, S) \cup column) = f[x] + Cardinality(Pairs(f, S))
  <2>1. Cardinality(Pairs(f, S) \cup column) = Cardinality(Pairs(f, S)) + f[x] - 0
    BY <1>1, <1>3, <1>4, <1>6, Zenon
  <2> QED
    BY <2>1, <1>4, <1>5
<1> QED
  BY <1>2, <1>6, <1>7, Zenon

LEMMA PairsFinite ==
  ASSUME NEW S, IsFiniteSet(S), NEW f, \A y \in S : f[y] \in Nat
  PROVE  IsFiniteSet(Pairs(f, S)) /\ Cardinality(Pairs(f, S)) \in Nat
<1> DEFINE C == {T \in SUBSET S : IsFiniteSet(Pairs(f, T))}
<1>1. {} \in C
  <2>1. Pairs(f, {}) = {}
    BY DEF Pairs
  <2> QED
    BY <2>1, FS_EmptySet
<1>2. \A T \in SUBSET S : \A x \in S : T \in C /\ x \notin T => T \cup {x} \in C
  BY PairsAdd
<1>3. S \in C
  <2> HIDE DEF C
  <2> QED
    BY <1>1, <1>2, SetInduction
<1> QED
  BY <1>3, FS_CardinalityType

\* The equation that defines a sum by the recursion of the library.
IsSum(g, f, S) ==
  g = [s \in SUBSET S |->
         IF s = {} THEN 0
         ELSE f[CHOOSE x \in s : TRUE] + g[s \ {CHOOSE x \in s : TRUE}]]

LEMMA SumByRecursion ==
  ASSUME NEW f, NEW S
  PROVE  SumFunctionOnSet(f, S) = (CHOOSE g : IsSum(g, f, S))[S]
  BY DEF SumFunctionOnSet, FoldFunctionOnSet, MapThenFoldSet, IsSum

LEMMA PairsAreSum ==
  ASSUME NEW S, IsFiniteSet(S), NEW f, \A y \in S : f[y] \in Nat
  PROVE  IsSum([s \in SUBSET S |-> Cardinality(Pairs(f, s))], f, S)
<1> DEFINE g == [s \in SUBSET S |-> Cardinality(Pairs(f, s))]
<1>1. ASSUME NEW s \in SUBSET S, s # {}
      PROVE  g[s] = f[CHOOSE x \in s : TRUE] + g[s \ {CHOOSE x \in s : TRUE}]
  <2> DEFINE x == CHOOSE y \in s : TRUE
             t == s \ {x}
  <2>1. x \in s
    BY <1>1
  <2>2. s = t \cup {x} /\ x \notin t /\ t \in SUBSET S /\ x \in S
    BY <2>1
  <2>3. IsFiniteSet(t)
    BY <2>2, FS_Subset
  <2> HIDE DEF x, t
  <2>4. IsFiniteSet(Pairs(f, t))
    BY <2>2, <2>3, PairsFinite
  <2>5. Cardinality(Pairs(f, t \cup {x})) = f[x] + Cardinality(Pairs(f, t))
    BY <2>2, <2>4, PairsAdd
  <2>6. g[s] = f[x] + g[t]
    BY <2>2, <2>5
  <2> QED
    BY <2>6 DEF x, t
<1>2. g[{}] = 0
  <2>1. Pairs(f, {}) = {}
    BY DEF Pairs
  <2> QED
    BY <2>1, FS_EmptySet
<1>3. g = [s \in SUBSET S |->
             IF s = {} THEN 0
             ELSE f[CHOOSE x \in s : TRUE] + g[s \ {CHOOSE x \in s : TRUE}]]
  <2>1. \A s \in SUBSET S :
          g[s] = IF s = {} THEN 0
                 ELSE f[CHOOSE x \in s : TRUE] + g[s \ {CHOOSE x \in s : TRUE}]
    <3> HIDE DEF g
    <3> QED
      BY <1>1, <1>2
  <2>2. g = [s \in SUBSET S |-> g[s]]
    OBVIOUS
  <2> HIDE DEF g
  <2> QED
    BY <2>1, <2>2, Zenon
<1> QED
  BY <1>3 DEF IsSum

LEMMA SumUnique ==
  ASSUME NEW S, IsFiniteSet(S), NEW f, NEW g, NEW h, IsSum(g, f, S), IsSum(h, f, S)
  PROVE  g[S] = h[S]
<1> DEFINE bad == {s \in SUBSET S : g[s] # h[s]}
<1> SUFFICES ASSUME S \in bad PROVE FALSE
  OBVIOUS
<1>1. IsWellFoundedOn(StrictSubsetOrdering(S), SUBSET S)
  BY FS_FiniteSubsetsOfFinite, FS_StrictSubsetOrderingWellFounded
<1>2. PICK s \in bad : \A t \in bad : ~(<<t, s>> \in StrictSubsetOrdering(S))
  <2>1. bad \subseteq SUBSET S
    OBVIOUS
  <2> HIDE DEF bad
  <2> QED
    BY <1>1, <2>1, WFMin
<1> DEFINE x == CHOOSE y \in s : TRUE
<1>3. s = {} => g[s] = 0 /\ h[s] = 0
  BY Zenon DEF IsSum
<1>4. s # {} => g[s] = f[x] + g[s \ {x}] /\ h[s] = f[x] + h[s \ {x}]
  BY Zenon DEF IsSum
<1>5. s # {} => <<s \ {x}, s>> \in StrictSubsetOrdering(S)
  <2>1. s # {} => x \in s
    OBVIOUS
  <2> HIDE DEF x
  <2> QED
    BY <2>1, <1>2 DEF StrictSubsetOrdering
<1> HIDE DEF x
<1>6. s # {} => s \ {x} \in SUBSET S /\ s \ {x} \notin bad
  BY <1>2, <1>5
<1>7. s # {} => g[s \ {x}] = h[s \ {x}]
  BY <1>6
<1> QED
  BY <1>2, <1>3, <1>4, <1>7

\* What a sum over a finite set is.
LEMMA SumCountsPairs ==
  ASSUME NEW S, IsFiniteSet(S), NEW f, \A y \in S : f[y] \in Nat
  PROVE  SumFunctionOnSet(f, S) = Cardinality(Pairs(f, S))
<1> DEFINE g == [s \in SUBSET S |-> Cardinality(Pairs(f, s))]
           h == CHOOSE k : IsSum(k, f, S)
<1>1. IsSum(g, f, S)
  BY PairsAreSum
<1>2. IsSum(h, f, S)
  <2> HIDE DEF g
  <2> QED
    BY <1>1
<1>3. g[S] = h[S]
  <2> HIDE DEF g, h
  <2> QED
    BY <1>1, <1>2, SumUnique
<1> QED
  BY <1>3, SumByRecursion

-----------------------------------------------------------------------------
(* The lemmas the counting proofs cite.                                      *)

LEMMA SumType ==
  ASSUME NEW S, IsFiniteSet(S), NEW f, \A y \in S : f[y] \in Nat
  PROVE  SumFunctionOnSet(f, S) \in Nat
  BY SumCountsPairs, PairsFinite

LEMMA SumEmpty ==
  ASSUME NEW f
  PROVE  SumFunctionOnSet(f, {}) = 0
<1>1. Pairs(f, {}) = {}
  BY DEF Pairs
<1> QED
  BY <1>1, SumCountsPairs, FS_EmptySet

LEMMA SumAdd ==
  ASSUME NEW S, IsFiniteSet(S), NEW x, x \notin S, NEW f, \A y \in S \cup {x} : f[y] \in Nat
  PROVE  SumFunctionOnSet(f, S \cup {x}) = f[x] + SumFunctionOnSet(f, S)
<1>1. IsFiniteSet(S \cup {x})
  BY FS_AddElement
<1>2. SumFunctionOnSet(f, S \cup {x}) = Cardinality(Pairs(f, S \cup {x}))
  BY <1>1, SumCountsPairs
<1>3. SumFunctionOnSet(f, S) = Cardinality(Pairs(f, S)) /\ IsFiniteSet(Pairs(f, S))
  BY SumCountsPairs, PairsFinite
<1> QED
  BY <1>2, <1>3, PairsAdd

LEMMA SumSame ==
  ASSUME NEW S, IsFiniteSet(S), NEW f, NEW g,
         \A y \in S : f[y] \in Nat /\ g[y] = f[y]
  PROVE  SumFunctionOnSet(g, S) = SumFunctionOnSet(f, S)
<1>1. Pairs(f, S) = Pairs(g, S)
  BY DEF Pairs
<1> QED
  BY <1>1, SumCountsPairs

\* One entry of a table grows by n, or is made with n.
LEMMA SumGrows ==
  ASSUME NEW S, IsFiniteSet(S), NEW f, \A y \in S : f[y] \in Nat,
         NEW x, NEW n \in Nat, NEW g,
         \A y \in S \ {x} : g[y] = f[y],
         g[x] = (IF x \in S THEN f[x] ELSE 0) + n
  PROVE  SumFunctionOnSet(g, S \cup {x}) = SumFunctionOnSet(f, S) + n
<1> DEFINE T == S \ {x}
<1>1. IsFiniteSet(T) /\ x \notin T /\ T \cup {x} = S \cup {x}
  BY FS_RemoveElement
<1>2. g[x] \in Nat
  OBVIOUS
<1>3. \A y \in T : f[y] \in Nat /\ g[y] = f[y]
  OBVIOUS
<1>4. x \notin S => T = S
  OBVIOUS
<1>5. x \in S => T \cup {x} = S /\ f[x] \in Nat
  OBVIOUS
<1> HIDE DEF T
<1>6. SumFunctionOnSet(g, T \cup {x}) = g[x] + SumFunctionOnSet(g, T)
  BY <1>1, <1>2, <1>3, SumAdd
<1>7. SumFunctionOnSet(g, T) = SumFunctionOnSet(f, T)
  BY <1>1, <1>3, SumSame
<1>8. SumFunctionOnSet(f, T) \in Nat
  BY <1>1, <1>3, SumType
<1>9. x \in S => SumFunctionOnSet(f, T \cup {x}) = f[x] + SumFunctionOnSet(f, T)
  BY <1>1, <1>3, <1>5, SumAdd
<1>10. SumFunctionOnSet(g, S \cup {x}) = g[x] + SumFunctionOnSet(f, T)
  BY <1>1, <1>6, <1>7, Zenon
<1>11. CASE x \in S
  <2>1. SumFunctionOnSet(f, S) = f[x] + SumFunctionOnSet(f, T)
    BY <1>11, <1>5, <1>9, Zenon
  <2>2. g[x] = f[x] + n /\ f[x] \in Nat
    BY <1>11
  <2> QED
    BY <2>1, <2>2, <1>8, <1>10
<1>12. CASE x \notin S
  <2>1. SumFunctionOnSet(f, S) = SumFunctionOnSet(f, T) /\ g[x] = n
    BY <1>12, <1>4
  <2> QED
    BY <2>1, <1>8, <1>10
<1> QED
  BY <1>11, <1>12

\* Two entries of a table grow.
LEMMA SumGrowsTwice ==
  ASSUME NEW S, IsFiniteSet(S), NEW f, \A a \in S : f[a] \in Nat,
         NEW x \in S, NEW y \in S, x # y, NEW m \in Nat, NEW n \in Nat,
         NEW g, \A a \in S \ {x, y} : g[a] = f[a], g[x] = m + f[x], g[y] = n + f[y]
  PROVE  SumFunctionOnSet(g, S) = SumFunctionOnSet(f, S) + (m + n)
<1> DEFINE h == [a \in S |-> IF a = x THEN f[x] + m ELSE f[a]]
<1>1. /\ \A a \in S \ {x} : h[a] = f[a]
      /\ h[x] = (IF x \in S THEN f[x] ELSE 0) + m
      /\ \A a \in S : h[a] \in Nat
  OBVIOUS
<1>2. /\ \A a \in S \ {y} : g[a] = h[a]
      /\ g[y] = (IF y \in S THEN h[y] ELSE 0) + n
  OBVIOUS
<1> HIDE DEF h
<1>3. SumFunctionOnSet(h, S \cup {x}) = SumFunctionOnSet(f, S) + m
  BY <1>1, SumGrows
<1>4. SumFunctionOnSet(g, S \cup {y}) = SumFunctionOnSet(h, S) + n
  BY <1>1, <1>2, SumGrows
<1>5. S \cup {x} = S /\ S \cup {y} = S /\ SumFunctionOnSet(f, S) \in Nat
  BY SumType
<1>6. SumFunctionOnSet(g, S) = (SumFunctionOnSet(f, S) + m) + n
  BY <1>3, <1>4, <1>5, Zenon
<1> QED
  BY <1>5, <1>6

\* Every k in K has two ends u[k] and v[k] in D, which get w of it and t together.
HasEnds(D, K, u, v, w, t) ==
  \A k \in K : /\ u[k] \in D /\ v[k] \in D /\ u[k] # v[k]
              /\ w[u[k]][k] \in Nat /\ w[v[k]][k] \in Nat
              /\ t[k] = w[u[k]][k] + w[v[k]][k]

\* What each end gets of the elements of T.
Got(D, T, u, v, w) ==
  [a \in D |-> SumFunctionOnSet(w[a], {k \in T : a = u[k] \/ a = v[k]})]

LEMMA GotType ==
  ASSUME NEW D, NEW K, IsFiniteSet(K), NEW u, NEW v, NEW w, NEW t, HasEnds(D, K, u, v, w, t),
         NEW T \in SUBSET K, NEW a \in D
  PROVE  Got(D, T, u, v, w)[a] \in Nat
<1> DEFINE f == w[a]
           B == {k \in T : a = u[k] \/ a = v[k]}
<1>1. IsFiniteSet(B)
  BY FS_Subset
<1>2. \A k \in B : f[k] \in Nat
  BY DEF HasEnds
<1>3. Got(D, T, u, v, w)[a] = SumFunctionOnSet(f, B)
  BY DEF Got
<1> HIDE DEF f, B
<1> QED
  BY <1>1, <1>2, <1>3, SumType

LEMMA GotMore ==
  ASSUME NEW D, NEW K, IsFiniteSet(K), NEW u, NEW v, NEW w, NEW t, HasEnds(D, K, u, v, w, t),
         NEW T \in SUBSET K, NEW x \in K, x \notin T, NEW a \in D
  PROVE  Got(D, T \cup {x}, u, v, w)[a] =
           (IF a = u[x] \/ a = v[x] THEN w[a][x] ELSE 0) + Got(D, T, u, v, w)[a]
<1> DEFINE f == w[a]
           B == {k \in T : a = u[k] \/ a = v[k]}
           A == {k \in T \cup {x} : a = u[k] \/ a = v[k]}
<1>1. IsFiniteSet(B) /\ x \notin B
  BY FS_Subset
<1>2. \A k \in A : f[k] \in Nat
  BY DEF HasEnds
<1>3. Got(D, T, u, v, w)[a] = SumFunctionOnSet(f, B)
  BY DEF Got
<1>4. Got(D, T \cup {x}, u, v, w)[a] = SumFunctionOnSet(f, A)
  BY DEF Got
<1>5. Got(D, T, u, v, w)[a] \in Nat
  BY GotType
<1>6. CASE a = u[x] \/ a = v[x]
  <2>1. A = B \cup {x}
    BY <1>6
  <2> HIDE DEF A, B, f
  <2>2. SumFunctionOnSet(f, B \cup {x}) = f[x] + SumFunctionOnSet(f, B)
    BY <1>1, <1>2, <2>1, SumAdd
  <2> QED
    BY <1>3, <1>4, <1>6, <2>1, <2>2 DEF f
<1>7. CASE ~(a = u[x] \/ a = v[x])
  <2>1. A = B
    BY <1>7
  <2>2. Got(D, T \cup {x}, u, v, w)[a] = Got(D, T, u, v, w)[a]
    BY <1>3, <1>4, <2>1, Zenon
  <2> HIDE DEF A, B, f
  <2> QED
    BY <1>5, <1>7, <2>2
<1> QED
  BY <1>6, <1>7

LEMMA GotStep ==
  ASSUME NEW D, IsFiniteSet(D), NEW K, IsFiniteSet(K), NEW u, NEW v, NEW w, NEW t,
         HasEnds(D, K, u, v, w, t), NEW T \in SUBSET K, NEW x \in K, x \notin T,
         SumFunctionOnSet(Got(D, T, u, v, w), D) = SumFunctionOnSet(t, T)
  PROVE  SumFunctionOnSet(Got(D, T \cup {x}, u, v, w), D) = SumFunctionOnSet(t, T \cup {x})
<1> DEFINE f == Got(D, T, u, v, w)
           g == Got(D, T \cup {x}, u, v, w)
           m == w[u[x]][x]
           n == w[v[x]][x]
           y == u[x]
           z == v[x]
<1>1. y \in D /\ z \in D /\ y # z /\ m \in Nat /\ n \in Nat /\ t[x] = m + n
  BY DEF HasEnds
<1>2. \A a \in D : f[a] \in Nat
  BY GotType
<1>3. \A a \in D : g[a] = (IF a = y \/ a = z THEN w[a][x] ELSE 0) + f[a]
  BY GotMore
<1>4. \A k \in K : t[k] \in Nat
  BY DEF HasEnds
<1>5. IsFiniteSet(T)
  BY FS_Subset
<1>6. m = w[y][x] /\ n = w[z][x]
  OBVIOUS
<1> HIDE DEF f, g, m, n, y, z
<1>7. /\ \A a \in D \ {y, z} : g[a] = f[a]
      /\ g[y] = m + f[y] /\ g[z] = n + f[z]
  BY <1>1, <1>2, <1>3, <1>6
<1>8. SumFunctionOnSet(g, D) = SumFunctionOnSet(f, D) + (m + n)
  BY <1>1, <1>2, <1>7, SumGrowsTwice
<1>9. SumFunctionOnSet(t, T \cup {x}) = t[x] + SumFunctionOnSet(t, T) /\ SumFunctionOnSet(t, T) \in Nat
  BY <1>4, <1>5, SumAdd, SumType
<1>10. SumFunctionOnSet(f, D) = SumFunctionOnSet(t, T)
  BY DEF f
<1>11. SumFunctionOnSet(g, D) = SumFunctionOnSet(t, T \cup {x})
  BY <1>1, <1>8, <1>9, <1>10
<1> QED
  BY <1>11 DEF g

\* What the two ends of every k get of it, added up by end or by k.
LEMMA SumByEnds ==
  ASSUME NEW D, IsFiniteSet(D), NEW K, IsFiniteSet(K), NEW u, NEW v, NEW w, NEW t,
         HasEnds(D, K, u, v, w, t)
  PROVE  SumFunctionOnSet(Got(D, K, u, v, w), D) = SumFunctionOnSet(t, K)
<1> DEFINE C == {T \in SUBSET K : SumFunctionOnSet(Got(D, T, u, v, w), D) = SumFunctionOnSet(t, T)}
<1>1. {} \in C
  <2> DEFINE f == Got(D, {}, u, v, w)
  <2>1. \A a \in D : f[a] = 0
    <3> SUFFICES ASSUME NEW a \in D PROVE f[a] = 0
      OBVIOUS
    <3>1. f[a] = SumFunctionOnSet(w[a], {})
      BY DEF Got
    <3> QED
      BY <3>1, SumEmpty
  <2> HIDE DEF f
  <2>2. Pairs(f, D) = {}
    BY <2>1 DEF Pairs
  <2>3. SumFunctionOnSet(f, D) = Cardinality(Pairs(f, D))
    BY <2>1, SumCountsPairs
  <2>4. SumFunctionOnSet(f, D) = 0 /\ SumFunctionOnSet(t, {}) = 0
    BY <2>2, <2>3, FS_EmptySet, SumEmpty
  <2> QED
    BY <2>4 DEF f
<1>2. ASSUME NEW T \in SUBSET K, NEW x \in K, T \in C, x \notin T
      PROVE  T \cup {x} \in C
  BY <1>2, GotStep
<1> HIDE DEF C
<1>3. K \in C
  BY <1>1, <1>2, SetInduction
<1> QED
  BY <1>3 DEF C

-----------------------------------------------------------------------------
(* The tables as counts of the consumed prefix of the list.                 *)

\* The prefix that was consumed is a prefix of what was read.
ReadAhead == position - 1 <= Len(packets)

\* Every machine key is noted with its MAC, on finitely many VLANs.
VlansNoted ==
  /\ \A k \in DOMAIN machines : k[1] \in DOMAIN vlans /\ k[2] \in vlans[k[1]]
  /\ \A m \in DOMAIN vlans : IsFiniteSet(vlans[m])

\* An l3 edge knows the flows of its packets, an l2 edge none.
FlowsKnown ==
  /\ \A i \in SoFar : Conversation(packets[i]) => L3Key(packets[i]) \in DOMAIN edges
  /\ \A key \in DOMAIN edges :
       edges[key].flows = {FlowKey(packets[i]) : i \in PacketsOn(key)}

FlowPackets(key) == {i \in SoFar : Conversation(packets[i]) /\ FlowKey(packets[i]) = key}

Syns(key) == {i \in FlowPackets(key) : IsSynOnly(packets[i])}

\* What a flow remembers: the port of its first packet, and of its first SYN.
FirstRemembered ==
  /\ DOMAIN flows = {FlowKey(packets[i]) : i \in {j \in SoFar : Conversation(packets[j])}}
  /\ \A key \in DOMAIN flows :
       /\ flows[key].opening_dst_port = packets[Min(FlowPackets(key))].dst_port
       /\ flows[key].syn_dst_port =
            IF Syns(key) = {} THEN None ELSE packets[Min(Syns(key))].dst_port

\* The packets of one edge that a service counts.
Served(key) ==
  {i \in PacketsOn(key) : packets[i].transport \in {"tcp", "udp"} /\ packets[i].dst_port # None}

ServicesCounted ==
  \A key \in DOMAIN edges :
    /\ IsFiniteSet(DOMAIN edges[key].services)
    /\ ServicePackets(key) = Cardinality(Served(key))
    /\ \A s \in DOMAIN edges[key].services :
         edges[key].services[s].flows \subseteq edges[key].flows

\* The direction counters of an edge count its packets.
EdgesCounted ==
  /\ IsFiniteSet(DOMAIN edges)
  /\ Packets("l3") = Cardinality({i \in SoFar : Conversation(packets[i])})
  /\ Packets("l2") = Cardinality({i \in SoFar : BetweenMachines(packets[i])})

-----------------------------------------------------------------------------
(* Steps that consume, and the others                                       *)

LEMMA SoFarFinite ==
  ASSUME TypeOK
  PROVE  /\ IsFiniteSet(SoFar) /\ SoFar \subseteq Nat \ {0}
         /\ \A S \in SUBSET SoFar : IsFiniteSet(S) /\ Cardinality(S) \in Nat
<1>1. position \in Nat \ {0}
  BY DEF TypeOK
<1>2. IsFiniteSet(SoFar) /\ SoFar \subseteq Nat \ {0}
  BY <1>1, FS_Interval DEF SoFar
<1> QED
  BY <1>2, FS_Subset, FS_CardinalityType

LEMMA ConsumedSoFar ==
  ASSUME TypeOK, Consume
  PROVE  /\ SoFar' = SoFar \cup {position} /\ position \notin SoFar
         /\ packets' = packets /\ packets[position] \in Frames
         /\ \A i \in SoFar : i < position
<1>1. position \in Nat \ {0} /\ position' = position + 1
  BY DEF TypeOK, Consume
<1> QED
  BY <1>1, PacketAt DEF Consume, SoFar

LEMMA SoFarFrames ==
  ASSUME TypeOK, ReadAhead
  PROVE  \A i \in SoFar : i \in DOMAIN packets /\ packets[i] \in Frames
  BY DEF TypeOK, ReadAhead, SoFar

\* A step that does not consume leaves the tables and the prefix they count.
LEMMA IdleStep ==
  ASSUME TypeOK, ReadAhead, [Next]_vars, ~Consume
  PROVE  /\ SoFar' = SoFar /\ UNCHANGED <<position, window, addresses, machines, vlans, edges, flows>>
         /\ \A i \in SoFar : packets'[i] = packets[i]
         /\ Len(packets') >= Len(packets)
<1>1. UNCHANGED <<position, window, addresses, machines, vlans, edges, flows>>
  BY DEF Next, vars, tables, Read, Refuse, Survey, Finish, Crash
<1>2. SoFar' = SoFar
  BY <1>1 DEF SoFar
<1>3. CASE Read
  <2>1. PICK r \in Frames : packets' = Append(packets, r)
    BY <1>3 DEF Read
  <2>2. packets \in Seq(Frames)
    BY DEF TypeOK
  <2>3. Len(packets') = Len(packets) + 1 /\ \A i \in 1 .. Len(packets) : packets'[i] = packets[i]
    BY <2>1, <2>2
  <2>4. SoFar \subseteq 1 .. Len(packets)
    BY DEF SoFar, ReadAhead, TypeOK
  <2>5. Len(packets') >= Len(packets)
    BY <2>2, <2>3
  <2>6. \A i \in SoFar : packets'[i] = packets[i]
    BY <2>3, <2>4
  <2> QED
    BY <1>1, <1>2, <2>5, <2>6, Zenon
<1>4. CASE packets' = packets
  BY <1>1, <1>2, <1>4 DEF TypeOK
<1> QED
  BY <1>3, <1>4 DEF Next, vars, tables, Refuse, Survey, Finish, Crash

LEMMA ReadAheadStep == TypeOK /\ ReadAhead /\ [Next]_vars => ReadAhead'
<1> SUFFICES ASSUME TypeOK, ReadAhead, [Next]_vars PROVE ReadAhead'
  OBVIOUS
<1>1. CASE Consume
  BY <1>1 DEF Consume, TypeOK, ReadAhead
<1>2. CASE ~Consume
  <2>1. position' = position /\ Len(packets') >= Len(packets)
    BY <1>2, IdleStep
  <2>2. TypeOK'
    BY TypeStep
  <2> QED
    BY <2>1, <2>2 DEF TypeOK, ReadAhead
<1> QED
  BY <1>1, <1>2

THEOREM ReadsAhead == Spec => []ReadAhead
<1>1. Init => ReadAhead
  BY DEF Init, ReadAhead
<1> QED
  BY <1>1, ReadAheadStep, TypeCorrect, PTL DEF Spec

-----------------------------------------------------------------------------
(* Machine ids                                                              *)

LEMMA VlansNotedStep == TypeOK /\ ReadAhead /\ VlansNoted /\ [Next]_vars => VlansNoted'
<1> SUFFICES ASSUME TypeOK, ReadAhead, VlansNoted, [Next]_vars PROVE VlansNoted'
  OBVIOUS
<1>1. CASE Consume
  <2> DEFINE r == packets[position]
             macs == {r.eth_src, r.eth_dst} \ {None}
             keys == {MachineKey(m, r) : m \in macs}
  <2>1. NoteMacs(r)
    BY <1>1 DEF Consume, ConsumeFrame
  <2> HIDE DEF r
  <2>2. DOMAIN machines' = DOMAIN machines \cup keys /\ DOMAIN vlans' = DOMAIN vlans \cup macs
    BY <2>1 DEF NoteMacs
  <2>3. \A m \in DOMAIN vlans' :
          vlans'[m] = (IF m \in DOMAIN vlans THEN vlans[m] ELSE {})
                        \cup (IF m \in macs THEN {VlanOf(r)} ELSE {})
    BY <2>1 DEF NoteMacs
  <2>4. \A k \in keys : k[1] \in macs /\ k[2] = VlanOf(r)
    BY DEF MachineKey
  <2> HIDE DEF macs, keys
  <2>5. ASSUME NEW m \in DOMAIN vlans' PROVE IsFiniteSet(vlans'[m])
    <3> DEFINE old == IF m \in DOMAIN vlans THEN vlans[m] ELSE {}
    <3>1. IsFiniteSet(old)
      BY FS_EmptySet DEF VlansNoted
    <3>2. vlans'[m] = old \/ vlans'[m] = old \cup {VlanOf(r)}
      BY <2>3, <2>5
    <3> HIDE DEF old
    <3> QED
      BY <3>1, <3>2, FS_AddElement
  <2>6. ASSUME NEW k \in DOMAIN machines' PROVE k[1] \in DOMAIN vlans' /\ k[2] \in vlans'[k[1]]
    <3>1. CASE k \in DOMAIN machines
      BY <3>1, <2>2, <2>3 DEF VlansNoted
    <3>2. CASE k \in keys
      BY <3>2, <2>2, <2>3, <2>4
    <3> QED
      BY <2>2, <3>1, <3>2
  <2> QED
    BY <2>5, <2>6 DEF VlansNoted
<1>2. CASE ~Consume
  BY <1>2, IdleStep DEF VlansNoted
<1> QED
  BY <1>1, <1>2

THEOREM VlansAlwaysNoted == Spec => []VlansNoted
<1>1. Init => VlansNoted
  BY DEF Init, VlansNoted
<1> QED
  BY <1>1, VlansNotedStep, ReadsAhead, TypeCorrect, PTL DEF Spec

\* The ids of two machine keys differ.
LEMMA IdsDiffer ==
  ASSUME TypeOK, VlansNoted, NEW j \in DOMAIN machines, NEW k \in DOMAIN machines,
         MachineId(j) = MachineId(k)
  PROVE  j = k
<1>1. /\ j = <<j[1], j[2]>> /\ k = <<k[1], k[2]>>
  BY DEF TypeOK, IsDict, MachineKeys
<1>2. \A a, b, c : <<a>> # <<b, c>>
  <2> SUFFICES ASSUME NEW a, NEW b, NEW c, <<a>> = <<b, c>> PROVE FALSE
    OBVIOUS
  <2>1. Len(<<a>>) = 1 /\ Len(<<b, c>>) = 2
    OBVIOUS
  <2> QED
    BY <2>1
<1>3. CASE Cardinality(vlans[j[1]]) <= 1 /\ Cardinality(vlans[k[1]]) <= 1
  <2>1. MachineId(j) = <<j[1]>> /\ MachineId(k) = <<k[1]>>
    BY <1>3 DEF MachineId
  <2>2. j[1] = k[1]
    <3>1. <<j[1]>> = <<k[1]>>
      BY <2>1
    <3>2. \A a : <<a>>[1] = a
      OBVIOUS
    <3> QED
      BY <3>1, <3>2, Zenon
  <2> DEFINE V == vlans[j[1]]
  <2>3. j[2] \in V /\ k[2] \in V /\ IsFiniteSet(V)
    BY <2>2 DEF VlansNoted
  <2>4. Cardinality(V) <= 1
    BY <1>3
  <2> HIDE DEF V
  <2>5. j[2] = k[2]
    <3>1. Cardinality(V) \in Nat /\ V # {}
      BY <2>3, FS_CardinalityType
    <3>2. Cardinality(V) # 0
      BY <2>3, <3>1, FS_EmptySet
    <3>3. Cardinality(V) = 1
      BY <2>4, <3>1, <3>2
    <3>4. PICK v : V = {v}
      BY <2>3, <3>3, FS_Singleton
    <3> QED
      BY <2>3, <3>4
  <2> QED
    BY <1>1, <2>2, <2>5
<1>4. CASE ~(Cardinality(vlans[j[1]]) <= 1) /\ ~(Cardinality(vlans[k[1]]) <= 1)
  <2>1. MachineId(j) = <<j[1], j[2]>> /\ MachineId(k) = <<k[1], k[2]>>
    BY <1>4 DEF MachineId
  <2> QED
    BY <1>1, <2>1
<1>5. CASE (Cardinality(vlans[j[1]]) <= 1) # (Cardinality(vlans[k[1]]) <= 1)
  BY <1>2, <1>5 DEF MachineId
<1> QED
  BY <1>3, <1>4, <1>5

LEMMA MachineIdsUniqueStep ==
  TypeOK /\ VlansNoted /\ MachineIdsUnique /\ [Next]_vars => MachineIdsUnique'
<1> SUFFICES ASSUME TypeOK, VlansNoted, MachineIdsUnique, [Next]_vars PROVE MachineIdsUnique'
  OBVIOUS
<1>1. CASE Finish
  <2>1. document'.machines = [k \in DOMAIN machines |-> BuildMachine(k)]
    BY <1>1 DEF Finish
  <2>2. \A k : BuildMachine(k).id = MachineId(k)
    BY DEF BuildMachine
  <2> QED
    BY <2>1, <2>2, IdsDiffer DEF MachineIdsUnique
<1>2. CASE UNCHANGED document
  BY <1>2 DEF MachineIdsUnique
<1> QED
  BY <1>1, <1>2 DEF Next, vars, Read, Refuse, Survey, Consume, Crash

\* No two machines of a document share an id, whatever mix of tagged, untagged
\* and priority-tagged frames a MAC was seen in.
THEOREM MachineIdsAlwaysUnique == Spec => []MachineIdsUnique
<1>1. Init => MachineIdsUnique
  BY DEF Init, MachineIdsUnique, NoDocument
<1> QED
  BY <1>1, MachineIdsUniqueStep, VlansAlwaysNoted, TypeCorrect, PTL DEF Spec

-----------------------------------------------------------------------------
(* Packets on edges                                                         *)

LEMMA PacketsSum ==
  ASSUME NEW layer
  PROVE  /\ Packets(layer) =
              SumFunctionOnSet([key \in {k \in DOMAIN edges : k[1] = layer} |->
                                  edges[key].forward + edges[key].reverse],
                               {k \in DOMAIN edges : k[1] = layer})
         /\ Packets(layer)' =
              SumFunctionOnSet([key \in {k \in DOMAIN edges' : k[1] = layer} |->
                                  edges'[key].forward + edges'[key].reverse],
                               {k \in DOMAIN edges' : k[1] = layer})
  BY DEF Packets, SumFunction

\* One packet more on one edge is one packet more on its layer.
LEMMA PacketAdded ==
  ASSUME TypeOK, IsFiniteSet(DOMAIN edges), NEW key, NEW e, SetEdge(key, e),
         e.forward + e.reverse =
           (IF key \in DOMAIN edges THEN edges[key].forward + edges[key].reverse ELSE 0) + 1
  PROVE  /\ IsFiniteSet(DOMAIN edges')
         /\ \A layer : Packets(layer)' = Packets(layer) + (IF key[1] = layer THEN 1 ELSE 0)
<1>1. DOMAIN edges' = DOMAIN edges \cup {key}
  BY DEF SetEdge
<1>2. edges'[key] = e /\ \A k \in DOMAIN edges \ {key} : edges'[k] = edges[k]
  BY DEF SetEdge
<1>3. IsFiniteSet(DOMAIN edges')
  BY <1>1, FS_AddElement
<1> SUFFICES ASSUME NEW layer
             PROVE  Packets(layer)' = Packets(layer) + (IF key[1] = layer THEN 1 ELSE 0)
  BY <1>3
<1> DEFINE S == {k \in DOMAIN edges : k[1] = layer}
           T == {k \in DOMAIN edges' : k[1] = layer}
           f == [k \in S |-> edges[k].forward + edges[k].reverse]
           g == [k \in T |-> edges'[k].forward + edges'[k].reverse]
<1>4. Packets(layer) = SumFunctionOnSet(f, S) /\ Packets(layer)' = SumFunctionOnSet(g, T)
  BY PacketsSum
<1>5. IsFiniteSet(S)
  BY FS_Subset
<1>6. \A k \in S : f[k] \in Nat
  BY DEF TypeOK, IsEdgeAcc
<1>7. CASE key[1] = layer
  <2>1. T = S \cup {key}
    BY <1>1, <1>7
  <2>2. \A k \in S \ {key} : g[k] = f[k]
    BY <1>2, <2>1
  <2>3. key \in S <=> key \in DOMAIN edges
    BY <1>7
  <2>4. g[key] = (IF key \in S THEN f[key] ELSE 0) + 1
    BY <1>2, <2>1, <2>3
  <2> HIDE DEF f, g, S, T
  <2>5. SumFunctionOnSet(g, S \cup {key}) = SumFunctionOnSet(f, S) + 1
    BY <1>5, <1>6, <2>2, <2>4, SumGrows
  <2> QED
    BY <1>4, <1>7, <2>1, <2>5
<1>8. CASE key[1] # layer
  <2>1. T = S
    BY <1>1, <1>8
  <2>2. \A k \in S : g[k] = f[k]
    BY <1>2, <1>8, <2>1
  <2> HIDE DEF f, g, S, T
  <2>3. SumFunctionOnSet(g, S) = SumFunctionOnSet(f, S) /\ SumFunctionOnSet(f, S) \in Nat
    BY <1>5, <1>6, <2>2, SumSame, SumType
  <2> QED
    BY <1>4, <1>8, <2>1, <2>3
<1> QED
  BY <1>7, <1>8

\* A packet counts once, whichever way it goes.
LEMMA L3Packet ==
  ASSUME TypeOK, NEW r \in Frames, Conversation(r)
  PROVE  LET key == L3Key(r)
             e == L3Edge(EdgeOf(key, r.epoch_ns), r)
         IN  e.forward + e.reverse =
               (IF key \in DOMAIN edges THEN edges[key].forward + edges[key].reverse ELSE 0) + 1
<1> DEFINE key == L3Key(r)
           old == EdgeOf(key, r.epoch_ns)
<1>1. r.ip_src \in Nat /\ r.ip_dst \in Nat /\ r.ip_src # r.ip_dst
  BY ConversationTypes, KindsAssumption
<1>2. One(r.ip_src < r.ip_dst) + One(r.ip_dst < r.ip_src) = 1
  BY <1>1 DEF One
<1>3. One(r.ip_src < r.ip_dst) \in Nat /\ One(r.ip_dst < r.ip_src) \in Nat
  BY DEF One
<1>4. old.forward \in Nat /\ old.reverse \in Nat
  BY EdgeOfTypes, FrameTypes DEF IsEdgeAcc
<1>5. old.forward + old.reverse =
        IF key \in DOMAIN edges THEN edges[key].forward + edges[key].reverse ELSE 0
  BY DEF EdgeOf, NewEdge
<1> HIDE DEF old, key
<1>6. /\ L3Edge(old, r).forward = old.forward + One(r.ip_src < r.ip_dst)
      /\ L3Edge(old, r).reverse = old.reverse + One(r.ip_dst < r.ip_src)
  BY DEF L3Edge
<1>7. L3Edge(old, r).forward + L3Edge(old, r).reverse = (old.forward + old.reverse) + 1
  BY <1>2, <1>3, <1>4, <1>6
<1> QED
  BY <1>5, <1>7, Zenon DEF old, key

LEMMA L2Packet ==
  ASSUME TypeOK, NEW r \in Frames, BetweenMachines(r)
  PROVE  LET key == L2Key(r)
             e == L2Edge(EdgeOf(key, r.epoch_ns), r)
         IN  e.forward + e.reverse =
               (IF key \in DOMAIN edges THEN edges[key].forward + edges[key].reverse ELSE 0) + 1
<1> DEFINE key == L2Key(r)
           old == EdgeOf(key, r.epoch_ns)
<1>1. r.eth_src \in Nat /\ r.eth_dst \in Nat /\ r.eth_src # r.eth_dst
  BY BetweenMachinesTypes, KindsAssumption
<1>2. One(r.eth_src < r.eth_dst) + One(r.eth_dst < r.eth_src) = 1
  BY <1>1 DEF One
<1>3. One(r.eth_src < r.eth_dst) \in Nat /\ One(r.eth_dst < r.eth_src) \in Nat
  BY DEF One
<1>4. old.forward \in Nat /\ old.reverse \in Nat
  BY EdgeOfTypes, FrameTypes DEF IsEdgeAcc
<1>5. old.forward + old.reverse =
        IF key \in DOMAIN edges THEN edges[key].forward + edges[key].reverse ELSE 0
  BY DEF EdgeOf, NewEdge
<1> HIDE DEF old, key
<1>6. /\ L2Edge(old, r).forward = old.forward + One(r.eth_src < r.eth_dst)
      /\ L2Edge(old, r).reverse = old.reverse + One(r.eth_dst < r.eth_src)
  BY DEF L2Edge
<1>7. L2Edge(old, r).forward + L2Edge(old, r).reverse = (old.forward + old.reverse) + 1
  BY <1>2, <1>3, <1>4, <1>6
<1> QED
  BY <1>5, <1>7, Zenon DEF old, key

\* How many packets of the prefix have a property, one packet later.
LEMMA CountStep ==
  ASSUME TypeOK, Consume, NEW S \in SUBSET SoFar, NEW T, NEW b \in BOOLEAN,
         T = S \cup (IF b THEN {position} ELSE {})
  PROVE  Cardinality(T) = Cardinality(S) + One(b)
<1>1. IsFiniteSet(S) /\ Cardinality(S) \in Nat
  BY SoFarFinite
<1>2. position \notin S
  BY ConsumedSoFar
<1>3. Cardinality(S \cup {position}) = Cardinality(S) + 1
  BY <1>1, <1>2, FS_AddElement
<1>4. CASE b
  BY <1>3, <1>4 DEF One
<1>5. CASE ~b
  <2>1. T = S
    BY <1>5
  <2>2. One(b) = 0
    BY <1>5 DEF One
  <2> QED
    BY <1>1, <2>1, <2>2
<1> QED
  BY <1>4, <1>5

LEMMA EdgesCountedStep == TypeOK /\ ReadAhead /\ EdgesCounted /\ [Next]_vars => EdgesCounted'
<1> SUFFICES ASSUME TypeOK, ReadAhead, EdgesCounted, [Next]_vars PROVE EdgesCounted'
  OBVIOUS
<1>1. CASE Consume
  <2> DEFINE r == packets[position]
             A == {i \in SoFar : Conversation(packets[i])}
             B == {i \in SoFar : BetweenMachines(packets[i])}
  <2>1. /\ SoFar' = SoFar \cup {position} /\ packets' = packets /\ r \in Frames
    BY <1>1, ConsumedSoFar
  <2>2. A' = A \cup (IF Conversation(r) THEN {position} ELSE {})
    BY <2>1
  <2>3. B' = B \cup (IF BetweenMachines(r) THEN {position} ELSE {})
    BY <2>1
  <2>4. Conversation(r) \in BOOLEAN /\ BetweenMachines(r) \in BOOLEAN
    BY DEF Conversation, BetweenMachines, HasIp
  <2>5. /\ Cardinality(A') = Cardinality(A) + One(Conversation(r))
        /\ Cardinality(B') = Cardinality(B) + One(BetweenMachines(r))
    <3>1. A \in SUBSET SoFar /\ B \in SUBSET SoFar
      OBVIOUS
    <3> HIDE DEF A, B, r
    <3> QED
      BY <1>1, <2>2, <2>3, <2>4, <3>1, CountStep
  <2>6. /\ Packets("l3") = Cardinality(A) /\ Packets("l2") = Cardinality(B)
        /\ IsFiniteSet(DOMAIN edges)
    BY DEF EdgesCounted
  <2>7. Cardinality(A) \in Nat /\ Cardinality(B) \in Nat
    BY SoFarFinite
  <2>8. ConsumeL3(r) \/ ConsumeL2(r) \/ ConsumeNoEdge(r)
    BY <1>1 DEF Consume, ConsumeFrame
  <2> SUFFICES /\ IsFiniteSet(DOMAIN edges')
               /\ Packets("l3")' = Cardinality(A') /\ Packets("l2")' = Cardinality(B')
    BY DEF EdgesCounted
  <2> HIDE DEF A, B, r
  <2>9. CASE ConsumeL3(r)
    <3>1. Conversation(r) /\ ~BetweenMachines(r)
      BY <2>9 DEF ConsumeL3, Conversation, BetweenMachines
    <3>2. SetEdge(L3Key(r), L3Edge(EdgeOf(L3Key(r), r.epoch_ns), r)) /\ L3Key(r)[1] = "l3"
      BY <2>9 DEF ConsumeL3, L3Key
    <3>3. /\ IsFiniteSet(DOMAIN edges')
          /\ \A layer : Packets(layer)' = Packets(layer) + (IF L3Key(r)[1] = layer THEN 1 ELSE 0)
      BY <2>1, <2>6, <3>1, <3>2, L3Packet, PacketAdded
    <3>4. Packets("l3")' = Packets("l3") + 1 /\ Packets("l2")' = Packets("l2") + 0
      BY <3>2, <3>3
    <3> QED
      BY <2>5, <2>6, <2>7, <3>1, <3>3, <3>4 DEF One
  <2>10. CASE ConsumeL2(r)
    <3>1. ~Conversation(r) /\ BetweenMachines(r)
      BY <2>10 DEF ConsumeL2, Conversation, BetweenMachines
    <3>2. SetEdge(L2Key(r), L2Edge(EdgeOf(L2Key(r), r.epoch_ns), r)) /\ L2Key(r)[1] = "l2"
      BY <2>10 DEF ConsumeL2, L2Key
    <3>3. /\ IsFiniteSet(DOMAIN edges')
          /\ \A layer : Packets(layer)' = Packets(layer) + (IF L2Key(r)[1] = layer THEN 1 ELSE 0)
      BY <2>1, <2>6, <3>1, <3>2, L2Packet, PacketAdded
    <3>4. Packets("l3")' = Packets("l3") + 0 /\ Packets("l2")' = Packets("l2") + 1
      BY <3>2, <3>3
    <3> QED
      BY <2>5, <2>6, <2>7, <3>1, <3>3, <3>4 DEF One
  <2>11. CASE ConsumeNoEdge(r)
    <3>1. ~Conversation(r) /\ ~BetweenMachines(r) /\ edges' = edges
      BY <2>11 DEF ConsumeNoEdge
    <3>2. Packets("l3")' = Packets("l3") /\ Packets("l2")' = Packets("l2")
      BY <3>1 DEF Packets
    <3> QED
      BY <2>5, <2>6, <2>7, <3>1, <3>2 DEF One
  <2> QED
    BY <2>8, <2>9, <2>10, <2>11
<1>2. CASE ~Consume
  <2>1. /\ SoFar' = SoFar /\ edges' = edges /\ \A i \in SoFar : packets'[i] = packets[i]
    BY <1>2, IdleStep
  <2>2. /\ {i \in SoFar' : Conversation(packets'[i])} = {i \in SoFar : Conversation(packets[i])}
        /\ {i \in SoFar' : BetweenMachines(packets'[i])} = {i \in SoFar : BetweenMachines(packets[i])}
    BY <2>1
  <2>3. Packets("l3")' = Packets("l3") /\ Packets("l2")' = Packets("l2")
    BY <2>1 DEF Packets
  <2> QED
    BY <2>1, <2>2, <2>3 DEF EdgesCounted
<1> QED
  BY <1>1, <1>2

THEOREM EdgesAlwaysCounted == Spec => []EdgesCounted
<1>1. Init => EdgesCounted
  <2> SUFFICES ASSUME Init PROVE EdgesCounted
    OBVIOUS
  <2>1. SoFar = {} /\ DOMAIN edges = {}
    BY DEF Init, SoFar
  <2>2. \A layer : Packets(layer) = 0
    <3> SUFFICES ASSUME NEW layer PROVE Packets(layer) = 0
      OBVIOUS
    <3>1. {k \in DOMAIN edges : k[1] = layer} = {}
      BY <2>1
    <3> QED
      BY <3>1, PacketsSum, SumEmpty
  <2>3. /\ {i \in SoFar : Conversation(packets[i])} = {}
        /\ {i \in SoFar : BetweenMachines(packets[i])} = {}
    BY <2>1
  <2> QED
    BY <2>1, <2>2, <2>3, FS_EmptySet DEF EdgesCounted
<1> QED
  BY <1>1, EdgesCountedStep, ReadsAhead, TypeCorrect, PTL DEF Spec

-----------------------------------------------------------------------------
(* Traffic in the document                                                  *)

LEMMA L3Ends ==
  ASSUME TypeOK, EdgesClosed, NEW key \in DOMAIN edges, key[1] = "l3"
  PROVE  /\ key[2][1] \in DOMAIN addresses /\ key[2][2] \in DOMAIN addresses
         /\ key[2][1] # key[2][2]
         /\ Elements(key[2]) = {key[2][1], key[2][2]}
         /\ edges[key].forward \in Nat /\ edges[key].reverse \in Nat
<1>1. key \in {<<"l3", p>> : p \in {q \in Address \X Address : q[1] < q[2]}}
  BY DEF TypeOK, EdgeKeys
<1>2. PICK p \in Address \X Address : key = <<"l3", p>> /\ p[1] < p[2]
  BY <1>1
<1>3. p[1] \in Nat /\ p[2] \in Nat
  BY KindsAssumption
<1>4. Elements(p) = {p[1], p[2]}
  <2>1. DOMAIN p = {1, 2}
    OBVIOUS
  <2> QED
    BY <2>1 DEF Elements
<1>5. key[2] = p
  BY <1>2
<1>6. \A x \in Elements(p) : x \in DOMAIN addresses
  BY <1>5 DEF EdgesClosed
<1>7. p[1] # p[2]
  BY <1>2, <1>3
<1>8. edges[key].forward \in Nat /\ edges[key].reverse \in Nat
  BY DEF TypeOK, IsEdgeAcc
<1> QED
  BY <1>4, <1>5, <1>6, <1>7, <1>8

\* Each packet is sent by one address of the document and received by one.
LEMMA TrafficRollsUp ==
  ASSUME TypeOK, EdgesClosed, EdgesCounted
  PROVE  /\ SumFunction([a \in DOMAIN addresses |-> TrafficOf(a).sent]) = Packets("l3")
         /\ SumFunction([a \in DOMAIN addresses |-> TrafficOf(a).received]) = Packets("l3")
<1> DEFINE D == DOMAIN addresses
           K == {k \in DOMAIN edges : k[1] = "l3"}
           u == [k \in K |-> k[2][1]]
           v == [k \in K |-> k[2][2]]
           t == [k \in K |-> edges[k].forward + edges[k].reverse]
           ends == [a \in D |-> {k \in K : a \in {u[k], v[k]}}]
<1>1. IsFiniteSet(D)
  BY AddressesAssumption, FS_Subset DEF TypeOK
<1>2. IsFiniteSet(K)
  BY FS_Subset DEF EdgesCounted
<1>3. Packets("l3") = SumFunctionOnSet(t, K)
  BY PacketsSum
<1>4. \A k \in K : /\ u[k] \in D /\ v[k] \in D /\ u[k] # v[k]
                   /\ u[k] = k[2][1] /\ v[k] = k[2][2] /\ Elements(k[2]) = {u[k], v[k]}
                   /\ edges[k].forward \in Nat /\ edges[k].reverse \in Nat
                   /\ t[k] = edges[k].forward + edges[k].reverse
  BY L3Ends
<1>5. \A a \in D : EdgesAt(a) = ends[a]
  <2> SUFFICES ASSUME NEW a \in D PROVE EdgesAt(a) = ends[a]
    OBVIOUS
  <2>1. EdgesAt(a) = {k \in K : a \in Elements(k[2])}
    BY DEF EdgesAt
  <2>2. ends[a] = {k \in K : a \in {u[k], v[k]}}
    OBVIOUS
  <2> HIDE DEF K, u, v, t, ends
  <2> QED
    BY <1>4, <2>1, <2>2
<1>6. \A a \in D : /\ ends[a] \subseteq K /\ IsFiniteSet(ends[a])
                  /\ \A k \in K : k \in ends[a] <=> a = u[k] \/ a = v[k]
  <2>1. \A a \in D : ends[a] = {k \in K : a \in {u[k], v[k]}}
    OBVIOUS
  <2> HIDE DEF K, u, v, t, ends
  <2> QED
    BY <1>2, <2>1, FS_Subset
<1>7. SumFunction([a \in D |-> TrafficOf(a).sent]) = Packets("l3")
  <2> DEFINE w == [a \in D |-> [k \in K |-> PacketsFrom(a, k)]]
             s == [a \in D |-> TrafficOf(a).sent]
  <2>1. \A k \in K : /\ w[u[k]][k] = edges[k].forward /\ w[v[k]][k] = edges[k].reverse
    <3> HIDE DEF K, u, v, t
    <3> QED
      BY <1>4 DEF PacketsFrom
  <2>2. \A k \in K : w[u[k]][k] \in Nat /\ w[v[k]][k] \in Nat /\ t[k] = w[u[k]][k] + w[v[k]][k]
    <3> HIDE DEF K, u, v, t, w
    <3> QED
      BY <1>4, <2>1
  <2>3. ASSUME NEW a \in D PROVE s[a] = SumFunctionOnSet(w[a], ends[a])
    <3> DEFINE f == w[a]
               g == [k \in EdgesAt(a) |-> PacketsFrom(a, k)]
    <3>1. s[a] = SumFunctionOnSet(g, EdgesAt(a))
      BY DEF TrafficOf, SumFunction
    <3>2. \A k \in EdgesAt(a) : k \in K /\ a \in {u[k], v[k]}
      <4> HIDE DEF K, u, v, ends
      <4> QED
        BY <1>5, <1>6
    <3>3. \A k \in EdgesAt(a) : g[k] = f[k] /\ f[k] = PacketsFrom(a, k)
      BY <3>2
    <3>4. \A k \in EdgesAt(a) : f[k] \in Nat /\ g[k] = f[k]
      <4> HIDE DEF K, u, v, t, w, f, g
      <4> QED
        BY <1>4, <3>2, <3>3 DEF PacketsFrom
    <3>5. IsFiniteSet(EdgesAt(a)) /\ EdgesAt(a) = ends[a]
      <4> HIDE DEF K, u, v, ends
      <4> QED
        BY <1>5, <1>6
    <3> HIDE DEF f, g, s
    <3>6. SumFunctionOnSet(g, EdgesAt(a)) = SumFunctionOnSet(f, EdgesAt(a))
      BY <3>4, <3>5, SumSame
    <3> HIDE DEF w, ends
    <3> QED
      BY <3>1, <3>5, <3>6 DEF f
  <2> DEFINE got == Got(D, K, u, v, w)
  <2>4. SumFunctionOnSet(s, D) = SumFunctionOnSet(t, K)
    <3>1. HasEnds(D, K, u, v, w, t)
      <4> HIDE DEF D, K, u, v, t, w, s, ends
      <4> QED
        BY <1>4, <2>2 DEF HasEnds
    <3>2. \A a \in D : got[a] = SumFunctionOnSet(w[a], ends[a])
      <4> HIDE DEF D, K, u, v, t, w, s
      <4> SUFFICES ASSUME NEW a \in D PROVE ends[a] = {k \in K : a = u[k] \/ a = v[k]}
        BY DEF Got
      <4> HIDE DEF ends
      <4> QED
        BY <1>6
    <3>3. \A a \in D : s[a] = got[a]
      <4> HIDE DEF D, K, u, v, t, w, s, ends, got
      <4> QED
        BY <2>3, <3>2
    <3>4. \A a \in D : got[a] \in Nat
      <4> HIDE DEF D, K, u, v, t, w, s, ends
      <4> QED
        BY <1>2, <3>1, GotType
    <3> HIDE DEF D, K, u, v, t, w, s, ends
    <3>5. SumFunctionOnSet(got, D) = SumFunctionOnSet(t, K)
      BY <1>1, <1>2, <3>1, SumByEnds
    <3> HIDE DEF got
    <3> QED
      BY <1>1, <3>3, <3>4, <3>5, SumSame
  <2> HIDE DEF D, K, u, v, t, w, s, ends
  <2>5. SumFunction(s) = SumFunctionOnSet(s, D)
    BY DEF SumFunction, s
  <2> QED
    BY <1>3, <2>4, <2>5 DEF s
<1>8. SumFunction([a \in D |-> TrafficOf(a).received]) = Packets("l3")
  <2> DEFINE w == [a \in D |-> [k \in K |-> edges[k].forward + edges[k].reverse - PacketsFrom(a, k)]]
             s == [a \in D |-> TrafficOf(a).received]
  <2>1. \A k \in K : /\ w[u[k]][k] = edges[k].reverse /\ w[v[k]][k] = edges[k].forward
    <3>1. \A k \in K : /\ w[u[k]][k] = edges[k].forward + edges[k].reverse - PacketsFrom(u[k], k)
                       /\ w[v[k]][k] = edges[k].forward + edges[k].reverse - PacketsFrom(v[k], k)
      <4> HIDE DEF K, u, v, t
      <4> QED
        BY <1>4
    <3>2. \A k \in K : PacketsFrom(u[k], k) = edges[k].forward /\ PacketsFrom(v[k], k) = edges[k].reverse
      <4> HIDE DEF K, u, v, t
      <4> QED
        BY <1>4 DEF PacketsFrom
    <3> HIDE DEF K, u, v, t, w
    <3> QED
      BY <1>4, <3>1, <3>2
  <2>2. \A k \in K : w[u[k]][k] \in Nat /\ w[v[k]][k] \in Nat /\ t[k] = w[u[k]][k] + w[v[k]][k]
    <3> HIDE DEF K, u, v, t, w
    <3> QED
      BY <1>4, <2>1
  <2>3. ASSUME NEW a \in D PROVE s[a] = SumFunctionOnSet(w[a], ends[a])
    <3> DEFINE f == w[a]
               g == [k \in EdgesAt(a) |-> edges[k].forward + edges[k].reverse - PacketsFrom(a, k)]
    <3>1. s[a] = SumFunctionOnSet(g, EdgesAt(a))
      BY DEF TrafficOf, SumFunction
    <3>2. \A k \in EdgesAt(a) : k \in K /\ a \in {u[k], v[k]}
      <4> HIDE DEF K, u, v, ends
      <4> QED
        BY <1>5, <1>6
    <3>3. \A k \in EdgesAt(a) : g[k] = f[k]
      BY <3>2
    <3>4. \A k \in EdgesAt(a) : f[k] \in Nat
      <4> HIDE DEF K, u, v, t, w, g
      <4> QED
        BY <2>2, <3>2
    <3>5. IsFiniteSet(EdgesAt(a)) /\ EdgesAt(a) = ends[a]
      <4> HIDE DEF K, u, v, ends
      <4> QED
        BY <1>5, <1>6
    <3> HIDE DEF f, g, s
    <3>6. SumFunctionOnSet(g, EdgesAt(a)) = SumFunctionOnSet(f, EdgesAt(a))
      BY <3>3, <3>4, <3>5, SumSame
    <3> HIDE DEF w, ends
    <3> QED
      BY <3>1, <3>5, <3>6 DEF f
  <2> DEFINE got == Got(D, K, u, v, w)
  <2>4. SumFunctionOnSet(s, D) = SumFunctionOnSet(t, K)
    <3>1. HasEnds(D, K, u, v, w, t)
      <4> HIDE DEF D, K, u, v, t, w, s, ends
      <4> QED
        BY <1>4, <2>2 DEF HasEnds
    <3>2. \A a \in D : got[a] = SumFunctionOnSet(w[a], ends[a])
      <4> HIDE DEF D, K, u, v, t, w, s
      <4> SUFFICES ASSUME NEW a \in D PROVE ends[a] = {k \in K : a = u[k] \/ a = v[k]}
        BY DEF Got
      <4> HIDE DEF ends
      <4> QED
        BY <1>6
    <3>3. \A a \in D : s[a] = got[a]
      <4> HIDE DEF D, K, u, v, t, w, s, ends, got
      <4> QED
        BY <2>3, <3>2
    <3>4. \A a \in D : got[a] \in Nat
      <4> HIDE DEF D, K, u, v, t, w, s, ends
      <4> QED
        BY <1>2, <3>1, GotType
    <3> HIDE DEF D, K, u, v, t, w, s, ends
    <3>5. SumFunctionOnSet(got, D) = SumFunctionOnSet(t, K)
      BY <1>1, <1>2, <3>1, SumByEnds
    <3> HIDE DEF got
    <3> QED
      BY <1>1, <3>3, <3>4, <3>5, SumSame
  <2> HIDE DEF D, K, u, v, t, w, s, ends
  <2>5. SumFunction(s) = SumFunctionOnSet(s, D)
    BY DEF SumFunction, s
  <2> QED
    BY <1>3, <2>4, <2>5 DEF s
<1> QED
  BY <1>7, <1>8

\* What the built document says is what the tables said when it was built.
TrafficShown ==
  phase = "built" =>
    LET nodes == document.nodes
    IN  /\ SumFunction([a \in DOMAIN nodes |-> nodes[a].traffic.sent]) = Packets("l3")
        /\ SumFunction([a \in DOMAIN nodes |-> nodes[a].traffic.received]) = Packets("l3")

LEMMA TrafficShownStep ==
  TypeOK /\ EdgesClosed /\ EdgesCounted /\ TrafficShown /\ [Next]_vars => TrafficShown'
<1> SUFFICES ASSUME TypeOK, EdgesClosed, EdgesCounted, TrafficShown, [Next]_vars
             PROVE  TrafficShown'
  OBVIOUS
<1>1. CASE Finish
  <2> DEFINE n == [a \in DOMAIN addresses |-> BuildNode(a)]
  <2>1. document'.nodes = n /\ edges' = edges
    BY <1>1 DEF Finish, tables
  <2>2. DOMAIN n = DOMAIN addresses /\ \A a \in DOMAIN addresses : n[a].traffic = TrafficOf(a)
    BY DEF BuildNode
  <2>3. Packets("l3")' = Packets("l3")
    BY <2>1 DEF Packets
  <2> HIDE DEF n
  <2>4. /\ [a \in DOMAIN n |-> n[a].traffic.sent] = [a \in DOMAIN addresses |-> TrafficOf(a).sent]
        /\ [a \in DOMAIN n |-> n[a].traffic.received] =
             [a \in DOMAIN addresses |-> TrafficOf(a).received]
    BY <2>2
  <2> QED
    BY <2>1, <2>3, <2>4, TrafficRollsUp, Zenon DEF TrafficShown
<1>2. CASE ~Finish
  <2>1. phase' = "built" => UNCHANGED <<phase, document, edges>>
    BY <1>2 DEF Next, vars, tables, Read, Refuse, Survey, Consume, Crash
  <2>2. UNCHANGED edges => Packets("l3")' = Packets("l3")
    BY DEF Packets
  <2> QED
    BY <2>1, <2>2 DEF TrafficShown
<1> QED
  BY <1>1, <1>2

\* Traffic rolls up without loss: every packet of a conversation is on one l3
\* edge, every other frame between two MACs on one l2 edge, and in the document
\* every packet is sent by one address and received by one.
THEOREM PacketsAlwaysConserved == Spec => []PacketsConserved
<1>1. Init => TrafficShown
  BY DEF Init, TrafficShown
<1>2. Spec => []TrafficShown
  BY <1>1, TrafficShownStep, EdgesAlwaysCounted, EdgesAlwaysClosed, TypeCorrect, PTL DEF Spec
<1>3. EdgesCounted /\ TrafficShown => PacketsConserved
  BY Zenon DEF EdgesCounted, TrafficShown, PacketsConserved
<1> QED
  BY <1>2, <1>3, EdgesAlwaysCounted, PTL

-----------------------------------------------------------------------------
(* Edges, packet by packet                                                  *)

\* A step that consumes a packet sets one edge, or none.
LEMMA EdgesAfter ==
  ASSUME TypeOK, Consume, NEW r, r = packets[position]
  PROVE  \/ /\ Conversation(r) /\ ~BetweenMachines(r)
            /\ SetEdge(L3Key(r), L3Edge(EdgeOf(L3Key(r), r.epoch_ns), r))
            /\ flows' = [k \in DOMAIN flows \cup {FlowKey(r)} |->
                           IF k = FlowKey(r) THEN FactsAfter(r) ELSE flows[k]]
         \/ /\ ~Conversation(r) /\ BetweenMachines(r)
            /\ SetEdge(L2Key(r), L2Edge(EdgeOf(L2Key(r), r.epoch_ns), r)) /\ flows' = flows
         \/ /\ ~Conversation(r) /\ ~BetweenMachines(r) /\ edges' = edges /\ flows' = flows
<1>1. ConsumeL3(r) \/ ConsumeL2(r) \/ ConsumeNoEdge(r)
  BY DEF Consume, ConsumeFrame
<1>2. Conversation(r) => ~BetweenMachines(r)
  BY DEF Conversation, BetweenMachines
<1> QED
  BY <1>1, <1>2, Zenon DEF ConsumeL3, ConsumeL2, ConsumeNoEdge

LEMMA PacketsOnStep ==
  ASSUME TypeOK, Consume, NEW r, r = packets[position], NEW key
  PROVE  PacketsOn(key)' =
           PacketsOn(key) \cup (IF Conversation(r) /\ L3Key(r) = key THEN {position} ELSE {})
  BY ConsumedSoFar DEF PacketsOn

LEMMA PacketsOnIdle ==
  ASSUME TypeOK, ReadAhead, [Next]_vars, ~Consume, NEW key
  PROVE  PacketsOn(key)' = PacketsOn(key)
  BY IdleStep DEF PacketsOn

LEMMA NoPacketsOn ==
  ASSUME FlowsKnown, NEW key, key \notin DOMAIN edges
  PROVE  PacketsOn(key) = {}
  BY DEF FlowsKnown, PacketsOn

LEMMA FlowsKnownStep == TypeOK /\ ReadAhead /\ FlowsKnown /\ [Next]_vars => FlowsKnown'
<1> SUFFICES ASSUME TypeOK, ReadAhead, FlowsKnown, [Next]_vars PROVE FlowsKnown'
  OBVIOUS
<1> DEFINE r == packets[position]
           FlowsOf(key) == {FlowKey(packets[i]) : i \in PacketsOn(key)}
<1>1. CASE Consume
  <2>1. packets' = packets /\ SoFar' = SoFar \cup {position}
    BY <1>1, ConsumedSoFar
  <2>2. \A key : FlowsOf(key)' =
          FlowsOf(key) \cup (IF Conversation(r) /\ L3Key(r) = key THEN {FlowKey(r)} ELSE {})
    <3> SUFFICES ASSUME NEW key
                 PROVE  FlowsOf(key)' = FlowsOf(key) \cup
                          (IF Conversation(r) /\ L3Key(r) = key THEN {FlowKey(r)} ELSE {})
      OBVIOUS
    <3>1. PacketsOn(key)' =
            PacketsOn(key) \cup (IF Conversation(r) /\ L3Key(r) = key THEN {position} ELSE {})
      BY <1>1, PacketsOnStep
    <3>2. FlowsOf(key)' = {FlowKey(packets[i]) : i \in PacketsOn(key)'}
      BY <2>1
    <3> QED
      BY <3>1, <3>2
  <2>3. \A key, t : EdgeOf(key, t).flows = FlowsOf(key)
    <3> SUFFICES ASSUME NEW key, NEW t PROVE EdgeOf(key, t).flows = FlowsOf(key)
      OBVIOUS
    <3>1. CASE key \in DOMAIN edges
      BY <3>1 DEF EdgeOf, FlowsKnown
    <3>2. CASE key \notin DOMAIN edges
      <4>1. PacketsOn(key) = {} /\ EdgeOf(key, t) = NewEdge(t)
        BY <3>2, NoPacketsOn DEF EdgeOf
      <4> QED
        BY <4>1 DEF NewEdge
    <3> QED
      BY <3>1, <3>2
  <2>4. \A key \in DOMAIN edges : edges[key].flows = FlowsOf(key)
    BY DEF FlowsKnown
  <2>5. \A i \in SoFar' : Conversation(packets'[i]) =>
          L3Key(packets'[i]) \in DOMAIN edges \/ (Conversation(r) /\ L3Key(packets'[i]) = L3Key(r))
    BY <2>1 DEF FlowsKnown
  <2> SUFFICES /\ \A key \in DOMAIN edges' : edges'[key].flows = FlowsOf(key)'
               /\ DOMAIN edges \subseteq DOMAIN edges'
               /\ Conversation(r) => L3Key(r) \in DOMAIN edges'
    BY <2>5 DEF FlowsKnown
  <2> HIDE DEF FlowsOf, r
  <2>6. CASE /\ Conversation(r) /\ ~BetweenMachines(r)
             /\ SetEdge(L3Key(r), L3Edge(EdgeOf(L3Key(r), r.epoch_ns), r))
    <3>1. DOMAIN edges' = DOMAIN edges \cup {L3Key(r)}
      BY <2>6 DEF SetEdge
    <3>2. edges'[L3Key(r)].flows = EdgeOf(L3Key(r), r.epoch_ns).flows \cup {FlowKey(r)}
      BY <2>6 DEF SetEdge, L3Edge
    <3>3. \A key \in DOMAIN edges \ {L3Key(r)} : edges'[key] = edges[key]
      BY <2>6 DEF SetEdge
    <3> QED
      BY <2>2, <2>3, <2>4, <2>6, <3>1, <3>2, <3>3
  <2>7. CASE /\ ~Conversation(r) /\ BetweenMachines(r)
             /\ SetEdge(L2Key(r), L2Edge(EdgeOf(L2Key(r), r.epoch_ns), r))
    <3>1. DOMAIN edges' = DOMAIN edges \cup {L2Key(r)}
      BY <2>7 DEF SetEdge
    <3>2. edges'[L2Key(r)].flows = EdgeOf(L2Key(r), r.epoch_ns).flows
      BY <2>7 DEF SetEdge, L2Edge
    <3>3. \A key \in DOMAIN edges \ {L2Key(r)} : edges'[key] = edges[key]
      BY <2>7 DEF SetEdge
    <3> QED
      BY <2>2, <2>3, <2>4, <2>7, <3>1, <3>2, <3>3
  <2>8. CASE ~Conversation(r) /\ edges' = edges
    BY <2>2, <2>4, <2>8
  <2> QED
    BY <1>1, <2>6, <2>7, <2>8, EdgesAfter DEF r
<1>2. CASE ~Consume
  <2>1. /\ SoFar' = SoFar /\ edges' = edges /\ \A i \in SoFar : packets'[i] = packets[i]
    BY <1>2, IdleStep
  <2>2. \A key : FlowsOf(key)' = FlowsOf(key)
    <3> SUFFICES ASSUME NEW key PROVE FlowsOf(key)' = FlowsOf(key)
      OBVIOUS
    <3>1. PacketsOn(key)' = PacketsOn(key) /\ PacketsOn(key) \subseteq SoFar
      BY <1>2, PacketsOnIdle DEF PacketsOn
    <3> QED
      BY <2>1, <3>1
  <2> QED
    BY <2>1, <2>2 DEF FlowsKnown
<1> QED
  BY <1>1, <1>2

THEOREM FlowsAlwaysKnown == Spec => []FlowsKnown
<1>1. Init => FlowsKnown
  BY DEF Init, FlowsKnown, SoFar
<1> QED
  BY <1>1, FlowsKnownStep, ReadsAhead, TypeCorrect, PTL DEF Spec

\* Two packets belong to one flow exactly when one's two ends are the other's.
LEMMA SameFlowKey ==
  ASSUME NEW q, NEW r
  PROVE  SameFlow(q, r) <=> FlowKey(q) = FlowKey(r)
<1> DEFINE qs == <<q.ip_src, q.src_port>>
           qd == <<q.ip_dst, q.dst_port>>
           rs == <<r.ip_src, r.src_port>>
           rd == <<r.ip_dst, r.dst_port>>
<1>1. Tuple(q) = <<q.transport, qs, qd>> /\ Tuple(r) = <<r.transport, rs, rd>>
  BY DEF Tuple
<1>2. FlowKey(q) = <<q.transport, {qs, qd}>> /\ FlowKey(r) = <<r.transport, {rs, rd}>>
  BY DEF FlowKey
<1> HIDE DEF qs, qd, rs, rd
<1>3. Tuple(r)[2] = rs /\ Tuple(r)[3] = rd
  BY <1>1
<1>4. SameFlow(q, r) <=>
        \/ q.transport = r.transport /\ qs = rs /\ qd = rd
        \/ q.transport = r.transport /\ qs = rd /\ qd = rs
  <2>1. Tuple(q) = Tuple(r) <=> q.transport = r.transport /\ qs = rs /\ qd = rd
    BY <1>1
  <2>2. Tuple(q) = <<r.transport, rd, rs>> <=> q.transport = r.transport /\ qs = rd /\ qd = rs
    BY <1>1
  <2> QED
    BY <1>3, <2>1, <2>2 DEF SameFlow
<1>5. FlowKey(q) = FlowKey(r) <=> q.transport = r.transport /\ {qs, qd} = {rs, rd}
  BY <1>2
<1>6. {qs, qd} = {rs, rd} <=> (qs = rs /\ qd = rd) \/ (qs = rd /\ qd = rs)
  OBVIOUS
<1> QED
  BY <1>4, <1>5, <1>6

\* A set has as many classes as there are values that tell its members apart.
LEMMA ClassesAreValues ==
  ASSUME NEW P, IsFiniteSet(P), NEW h, NEW V, NEW K,
         V = {h[i] : i \in P}, K = {{j \in P : h[j] = h[i]} : i \in P}
  PROVE  Cardinality(V) = Cardinality(K)
<1> DEFINE f == [v \in V |-> {j \in P : h[j] = v}]
           g == [i \in P |-> h[i]]
<1>1. g \in Surjection(P, V)
  BY DEF Surjection
<1>2. IsFiniteSet(V)
  <2> HIDE DEF g
  <2> QED
    BY <1>1, FS_Surjection
<1>3. \A v \in V : f[v] \in K
  OBVIOUS
<1>4. \A k \in K : \E v \in V : f[v] = k
  OBVIOUS
<1>5. \A v \in V, w \in V : f[v] = f[w] => v = w
  <2> SUFFICES ASSUME NEW v \in V, NEW w \in V, f[v] = f[w] PROVE v = w
    OBVIOUS
  <2>1. PICK i \in P : h[i] = v
    OBVIOUS
  <2>2. i \in f[v]
    BY <2>1
  <2>3. i \in f[w]
    BY <2>2
  <2> QED
    BY <2>1, <2>3
<1>6. f \in Bijection(V, K)
  BY <1>3, <1>4, <1>5 DEF Bijection, Injection, IsInjective, Surjection
<1> HIDE DEF f
<1> QED
  BY <1>2, <1>6, FS_Bijection DEF ExistsBijection

\* Both directions of a conversation are one flow, and nothing else is: an edge
\* counts as many flows as its packets have 5-tuples, up to direction.
THEOREM FlowCountAlwaysExact == Spec => []FlowCountExact
<1>1. TypeOK /\ FlowsKnown => FlowCountExact
  <2> SUFFICES ASSUME TypeOK, FlowsKnown, NEW key \in DOMAIN edges
               PROVE  Cardinality(edges[key].flows) =
                        Cardinality({{j \in PacketsOn(key) : SameFlow(packets[j], packets[i])} :
                                       i \in PacketsOn(key)})
    BY DEF FlowCountExact
  <2> DEFINE P == PacketsOn(key)
             h == [i \in P |-> FlowKey(packets[i])]
             V == {h[i] : i \in P}
             K == {{j \in P : h[j] = h[i]} : i \in P}
  <2>1. IsFiniteSet(P)
    BY SoFarFinite, FS_Subset DEF PacketsOn
  <2>2. edges[key].flows = V
    BY DEF FlowsKnown
  <2>3. {{j \in P : SameFlow(packets[j], packets[i])} : i \in P} = K
    <3>1. \A i \in P, j \in P : SameFlow(packets[j], packets[i]) <=> h[j] = h[i]
      BY SameFlowKey
    <3> HIDE DEF h, P
    <3> QED
      BY <3>1
  <2>4. Cardinality(V) = Cardinality(K)
    <3> HIDE DEF h, P
    <3> QED
      BY <2>1, ClassesAreValues
  <2> QED
    BY <2>2, <2>3, <2>4, Zenon
<1> QED
  BY <1>1, FlowsAlwaysKnown, TypeCorrect, PTL

-----------------------------------------------------------------------------
(* What a flow remembers                                                    *)

\* The packets of one flow all have a destination port, or none has.
LEMMA SamePorts ==
  ASSUME NEW q \in Frames, NEW r \in Frames, FlowKey(q) = FlowKey(r)
  PROVE  q.transport = r.transport /\ (q.dst_port = None <=> r.dst_port = None)
<1> DEFINE qs == <<q.ip_src, q.src_port>>
           qd == <<q.ip_dst, q.dst_port>>
           rs == <<r.ip_src, r.src_port>>
           rd == <<r.ip_dst, r.dst_port>>
<1>1. q.transport = r.transport /\ {qs, qd} = {rs, rd}
  <2>1. <<q.transport, {qs, qd}>> = <<r.transport, {rs, rd}>>
    BY DEF FlowKey
  <2> HIDE DEF qs, qd, rs, rd
  <2> QED
    BY <2>1
<1>2. CASE q.transport \in {"tcp", "udp"}
  <2>1. q.src_port # None /\ r.src_port # None
    BY <1>1, <1>2, FramesAssumption DEF WellDecoded
  <2>2. qd \in {rs, rd} /\ rd \in {qs, qd}
    <3> HIDE DEF qs, qd, rs, rd
    <3> QED
      BY <1>1
  <2> QED
    BY <1>1, <2>1, <2>2
<1>3. CASE q.transport \in {"icmp", "none"}
  BY <1>1, <1>3, FramesAssumption DEF WellDecoded
<1> QED
  BY <1>1, <1>2, <1>3, FrameTypes DEF Transports

\* A position after all others changes the least one only when there was none.
LEMMA MinOfLater ==
  ASSUME TypeOK, NEW S, S \subseteq SoFar, NEW p \in Nat, \A i \in SoFar : i < p
  PROVE  Min(S \cup {p}) = IF S = {} THEN p ELSE Min(S)
<1>1. IsFiniteSet(S) /\ S \subseteq Int
  BY SoFarFinite
<1>2. CASE S = {}
  <2>1. Min({p}) = p
    BY MinIs
  <2>2. S \cup {p} = {p}
    BY <1>2
  <2> QED
    BY <1>2, <2>1, <2>2
<1>3. CASE S # {}
  <2>1. Min(S) \in S
    BY <1>1, <1>3, MinInSet
  <2>2. Min(S) < p /\ Min(S) \in Int
    BY <1>1, <2>1
  <2>3. Min(S \cup {p}) = IF p < Min(S) THEN p ELSE Min(S)
    <3>1. p \in Int
      OBVIOUS
    <3> QED
      BY <1>1, <1>3, <3>1, MinMore
  <2> QED
    BY <1>3, <2>2, <2>3
<1> QED
  BY <1>2, <1>3

LEMMA FirstOfFlow ==
  ASSUME TypeOK, ReadAhead, NEW key
  PROVE  /\ FlowPackets(key) \subseteq SoFar /\ Syns(key) \subseteq FlowPackets(key)
         /\ FlowPackets(key) # {} =>
              Min(FlowPackets(key)) \in FlowPackets(key)
         /\ Syns(key) # {} => Min(Syns(key)) \in Syns(key)
<1>1. FlowPackets(key) \subseteq SoFar /\ Syns(key) \subseteq FlowPackets(key)
  BY DEF FlowPackets, Syns
<1>2. /\ IsFiniteSet(FlowPackets(key)) /\ FlowPackets(key) \subseteq Int
      /\ IsFiniteSet(Syns(key)) /\ Syns(key) \subseteq Int
  BY <1>1, SoFarFinite
<1> QED
  BY <1>1, <1>2, MinInSet

LEMMA FlowPacketsStep ==
  ASSUME TypeOK, Consume, NEW r, r = packets[position], NEW key
  PROVE  /\ FlowPackets(key)' =
              FlowPackets(key) \cup (IF Conversation(r) /\ FlowKey(r) = key THEN {position} ELSE {})
         /\ Syns(key)' =
              Syns(key) \cup (IF Conversation(r) /\ FlowKey(r) = key /\ IsSynOnly(r)
                              THEN {position} ELSE {})
<1>1. FlowPackets(key)' =
        FlowPackets(key) \cup (IF Conversation(r) /\ FlowKey(r) = key THEN {position} ELSE {})
  BY ConsumedSoFar DEF FlowPackets
<1>2. packets' = packets
  BY ConsumedSoFar
<1>3. Syns(key)' = {i \in FlowPackets(key)' : IsSynOnly(packets[i])}
  BY <1>2 DEF Syns
<1>4. Syns(key) = {i \in FlowPackets(key) : IsSynOnly(packets[i])}
  BY DEF Syns
<1> QED
  BY <1>1, <1>3, <1>4

LEMMA FlowPacketsIdle ==
  ASSUME TypeOK, ReadAhead, [Next]_vars, ~Consume, NEW key
  PROVE  FlowPackets(key)' = FlowPackets(key) /\ Syns(key)' = Syns(key)
<1>1. SoFar' = SoFar /\ \A i \in SoFar : packets'[i] = packets[i]
  BY IdleStep
<1>2. FlowPackets(key)' = FlowPackets(key)
  BY <1>1 DEF FlowPackets
<1>3. FlowPackets(key) \subseteq SoFar
  BY DEF FlowPackets
<1>4. Syns(key)' = {i \in FlowPackets(key)' : IsSynOnly(packets'[i])}
  BY DEF Syns
<1>5. Syns(key) = {i \in FlowPackets(key) : IsSynOnly(packets[i])}
  BY DEF Syns
<1> QED
  BY <1>1, <1>2, <1>3, <1>4, <1>5

\* What the packets of a flow say it should remember.
Remembers(facts, key) ==
  /\ facts.opening_dst_port = packets[Min(FlowPackets(key))].dst_port
  /\ facts.syn_dst_port = IF Syns(key) = {} THEN None ELSE packets[Min(Syns(key))].dst_port

\* One packet more of its own flow.
LEMMA RemembersStep ==
  ASSUME TypeOK, ReadAhead, FirstRemembered, Consume, NEW r, r = packets[position],
         Conversation(r), NEW key, key = FlowKey(r)
  PROVE  /\ FactsAfter(r).opening_dst_port = packets'[Min(FlowPackets(key)')].dst_port
         /\ FactsAfter(r).syn_dst_port =
              IF Syns(key)' = {} THEN None ELSE packets'[Min(Syns(key)')].dst_port
<1> DEFINE old == IF key \in DOMAIN flows THEN flows[key] ELSE OpenedBy(r)
           S == FlowPackets(key)
           Y == Syns(key)
<1>1. /\ SoFar' = SoFar \cup {position} /\ packets' = packets /\ r \in Frames
      /\ position \in Nat /\ \A i \in SoFar : i < position
  BY ConsumedSoFar DEF TypeOK
<1>2. /\ S' = S \cup {position} /\ Y' = Y \cup (IF IsSynOnly(r) THEN {position} ELSE {})
  BY FlowPacketsStep
<1>3. S \subseteq SoFar /\ Y \subseteq S /\ (Y # {} => Min(Y) \in Y)
  BY FirstOfFlow
<1>4. Min(S \cup {position}) = (IF S = {} THEN position ELSE Min(S))
  BY <1>1, <1>3, MinOfLater
<1>5. Min(Y \cup {position}) = (IF Y = {} THEN position ELSE Min(Y))
  BY <1>1, <1>3, MinOfLater
<1>6. S = {} <=> key \notin DOMAIN flows
  BY DEF FirstRemembered, FlowPackets
<1>7. Remembers(old, key) \/ (S = {} /\ old = OpenedBy(r))
  BY <1>6 DEF FirstRemembered, Remembers
<1>8. FactsAfter(r) = ObservedBy(old, r)
  BY DEF FactsAfter
<1>9. Y # {} => (packets[Min(Y)].dst_port = None <=> r.dst_port = None)
  <2> SUFFICES ASSUME Y # {} PROVE packets[Min(Y)].dst_port = None <=> r.dst_port = None
    OBVIOUS
  <2>1. Min(Y) \in SoFar /\ Min(Y) \in S
    BY <1>3
  <2>2. FlowKey(packets[Min(Y)]) = FlowKey(r)
    BY <2>1 DEF FlowPackets
  <2>3. packets[Min(Y)] \in Frames
    BY <2>1, SoFarFrames
  <2> QED
    BY <1>1, <2>2, <2>3, SamePorts
<1>10. old \in FlowFacts
  BY <1>1, <1>6, FrameTypes DEF TypeOK, IsDict, OpenedBy, FlowFacts, Maybe
<1> DEFINE new == ObservedBy(old, r)
<1>11. new.opening_dst_port = old.opening_dst_port
  BY <1>10 DEF ObservedBy, FlowFacts
<1>12. new.syn_dst_port =
         (IF IsSynOnly(r) /\ old.syn_dst_port = None THEN r.dst_port ELSE old.syn_dst_port)
  BY <1>10 DEF ObservedBy, FlowFacts
<1>13. FactsAfter(r) = new /\ packets' = packets
  BY <1>1, <1>8
<1> HIDE DEF new, old, S, Y
<1>14. new.opening_dst_port = packets[Min(S')].dst_port
  <2>1. CASE S = {}
    <3>1. Min(S') = position
      BY <1>2, <1>4, <2>1
    <3>2. old.opening_dst_port = r.dst_port
      BY <1>6, <2>1 DEF old, OpenedBy
    <3> QED
      BY <1>11, <3>1, <3>2
  <2>2. CASE S # {}
    <3>1. Min(S') = Min(S)
      BY <1>2, <1>4, <2>2
    <3> QED
      BY <1>7, <1>11, <2>2, <3>1 DEF Remembers, S
  <2> QED
    BY <2>1, <2>2
<1>15. old.syn_dst_port = IF Y = {} THEN None ELSE packets[Min(Y)].dst_port
  <2>1. CASE S = {}
    <3>1. Y = {} /\ old = OpenedBy(r)
      BY <1>3, <1>6, <2>1 DEF old
    <3> QED
      BY <3>1 DEF OpenedBy
  <2>2. CASE S # {}
    BY <1>7, <2>2 DEF Remembers, Y
  <2> QED
    BY <2>1, <2>2
<1>16. new.syn_dst_port = IF Y' = {} THEN None ELSE packets[Min(Y')].dst_port
  <2>1. CASE ~IsSynOnly(r)
    <3>1. Y' = Y
      BY <1>2, <2>1
    <3> QED
      BY <1>12, <1>15, <2>1, <3>1
  <2>2. CASE IsSynOnly(r) /\ Y = {}
    <3>1. Y' # {} /\ Min(Y') = position
      BY <1>2, <1>5, <2>2
    <3> QED
      BY <1>12, <1>15, <2>2, <3>1
  <2>3. CASE IsSynOnly(r) /\ Y # {}
    <3>1. Y' # {} /\ Min(Y') = Min(Y)
      BY <1>2, <1>5, <2>3
    <3> QED
      BY <1>9, <1>12, <1>15, <2>3, <3>1
  <2> QED
    BY <2>1, <2>2, <2>3
<1> QED
  BY <1>13, <1>14, <1>16 DEF S, Y

LEMMA FirstRememberedStep ==
  TypeOK /\ ReadAhead /\ FirstRemembered /\ [Next]_vars => FirstRemembered'
<1> SUFFICES ASSUME TypeOK, ReadAhead, FirstRemembered, [Next]_vars PROVE FirstRemembered'
  OBVIOUS
<1> DEFINE r == packets[position]
           Keys == {FlowKey(packets[i]) : i \in {j \in SoFar : Conversation(packets[j])}}
<1>1. CASE Consume
  <2>1. SoFar' = SoFar \cup {position} /\ packets' = packets
    BY <1>1, ConsumedSoFar
  <2>2. Keys' = Keys \cup (IF Conversation(r) THEN {FlowKey(r)} ELSE {})
    <3>1. {j \in SoFar' : Conversation(packets'[j])} =
            {j \in SoFar : Conversation(packets[j])} \cup (IF Conversation(r) THEN {position} ELSE {})
      BY <2>1
    <3>2. Keys' = {FlowKey(packets[i]) : i \in {j \in SoFar' : Conversation(packets'[j])}}
      BY <2>1
    <3> QED
      BY <3>1, <3>2
  <2>3. DOMAIN flows = Keys /\ \A key \in DOMAIN flows : Remembers(flows[key], key)
    BY DEF FirstRemembered, Remembers
  <2>4. \A key : ~Conversation(r) \/ FlowKey(r) # key =>
          FlowPackets(key)' = FlowPackets(key) /\ Syns(key)' = Syns(key)
    BY <1>1, FlowPacketsStep
  <2>5. \A key, facts : Remembers(facts, key) /\ (~Conversation(r) \/ FlowKey(r) # key) =>
          /\ facts.opening_dst_port = packets'[Min(FlowPackets(key)')].dst_port
          /\ facts.syn_dst_port = IF Syns(key)' = {} THEN None
                                  ELSE packets'[Min(Syns(key)')].dst_port
    BY <2>1, <2>4 DEF Remembers
  <2>6. CASE Conversation(r) /\ flows' = [k \in DOMAIN flows \cup {FlowKey(r)} |->
                                            IF k = FlowKey(r) THEN FactsAfter(r) ELSE flows[k]]
    <3>1. DOMAIN flows' = Keys'
      BY <2>2, <2>3, <2>6
    <3>3. flows'[FlowKey(r)] = FactsAfter(r)
      BY <2>6
    <3> SUFFICES ASSUME NEW key \in DOMAIN flows'
                 PROVE  /\ flows'[key].opening_dst_port = packets'[Min(FlowPackets(key)')].dst_port
                        /\ flows'[key].syn_dst_port =
                             IF Syns(key)' = {} THEN None ELSE packets'[Min(Syns(key)')].dst_port
      BY <3>1 DEF FirstRemembered
    <3>4. CASE key = FlowKey(r)
      BY <1>1, <2>6, <3>3, <3>4, RemembersStep
    <3>5. CASE key # FlowKey(r)
      <4>1. key \in DOMAIN flows /\ flows'[key] = flows[key]
        BY <2>6, <3>5
      <4> QED
        BY <2>3, <2>5, <3>5, <4>1
    <3> QED
      BY <3>4, <3>5
  <2>7. CASE ~Conversation(r) /\ flows' = flows
    <3>1. DOMAIN flows' = Keys'
      BY <2>2, <2>3, <2>7
    <3> QED
      BY <2>3, <2>5, <2>7, <3>1 DEF FirstRemembered
  <2> QED
    BY <1>1, <2>6, <2>7, EdgesAfter
<1>2. CASE ~Consume
  <2>1. /\ SoFar' = SoFar /\ flows' = flows /\ \A i \in SoFar : packets'[i] = packets[i]
    BY <1>2, IdleStep
  <2>2. Keys' = Keys
    <3>1. {j \in SoFar' : Conversation(packets'[j])} = {j \in SoFar : Conversation(packets[j])}
      BY <2>1
    <3> QED
      BY <2>1, <3>1
  <2>3. ASSUME NEW key \in DOMAIN flows
        PROVE  /\ flows'[key].opening_dst_port = packets'[Min(FlowPackets(key)')].dst_port
               /\ flows'[key].syn_dst_port =
                    IF Syns(key)' = {} THEN None ELSE packets'[Min(Syns(key)')].dst_port
    <3>1. FlowPackets(key)' = FlowPackets(key) /\ Syns(key)' = Syns(key)
      BY <1>2, FlowPacketsIdle
    <3>2. FlowPackets(key) # {}
      BY DEF FirstRemembered, FlowPackets
    <3>3. Min(FlowPackets(key)) \in SoFar /\ (Syns(key) # {} => Min(Syns(key)) \in SoFar)
      BY <3>2, FirstOfFlow
    <3> QED
      BY <2>1, <3>1, <3>3 DEF FirstRemembered
  <2> QED
    BY <2>1, <2>2, <2>3 DEF FirstRemembered
<1> QED
  BY <1>1, <1>2

THEOREM FirstAlwaysRemembered == Spec => []FirstRemembered
<1>1. Init => FirstRemembered
  BY DEF Init, FirstRemembered, SoFar
<1> QED
  BY <1>1, FirstRememberedStep, ReadsAhead, TypeCorrect, PTL DEF Spec

\* A flow with a connection attempt is served by the port the first attempt went
\* to; one without, by the destination of its first packet.
THEOREM SynAlwaysDecides == Spec => []SynDecides
<1>1. TypeOK /\ ReadAhead /\ FirstRemembered => SynDecides
  <2> SUFFICES ASSUME TypeOK, ReadAhead, FirstRemembered, NEW key \in DOMAIN flows
               PROVE  ServerPort(flows[key]) =
                        packets[Min(IF Syns(key) # {} THEN Syns(key)
                                    ELSE FlowPackets(key))].dst_port
    BY DEF SynDecides, Syns, FlowPackets
  <2>1. Remembers(flows[key], key)
    BY DEF FirstRemembered, Remembers
  <2>2. CASE Syns(key) = {}
    BY <2>1, <2>2 DEF Remembers, ServerPort
  <2>3. CASE Syns(key) # {}
    <3>1. FlowPackets(key) # {}
      BY <2>3 DEF Syns
    <3>2. Min(FlowPackets(key)) \in FlowPackets(key) /\ Min(Syns(key)) \in FlowPackets(key)
      BY <2>3, <3>1, FirstOfFlow
    <3>3. \A i \in FlowPackets(key) : packets[i] \in Frames /\ FlowKey(packets[i]) = key
      BY SoFarFrames DEF FlowPackets
    <3>4. packets[Min(Syns(key))].dst_port = None <=>
            packets[Min(FlowPackets(key))].dst_port = None
      BY <3>2, <3>3, SamePorts
    <3> QED
      BY <2>1, <2>3, <3>4 DEF Remembers, ServerPort
  <2> QED
    BY <2>2, <2>3
<1> QED
  BY <1>1, FirstAlwaysRemembered, ReadsAhead, TypeCorrect, PTL

-----------------------------------------------------------------------------
(* Services                                                                 *)

\* A packet finds a service exactly when it has a destination port.
LEMMA PortKnown ==
  ASSUME TypeOK, ReadAhead, FirstRemembered, Consume, NEW r, r = packets[position],
         Conversation(r)
  PROVE  ServerPort(FactsAfter(r)) = None <=> r.dst_port = None
<1> DEFINE key == FlowKey(r)
           old == flows[key]
<1>1. r \in Frames
  BY ConsumedSoFar
<1>2. ASSUME NEW i \in FlowPackets(key)
      PROVE  packets[i].dst_port = None <=> r.dst_port = None
  <2>1. packets[i] \in Frames /\ FlowKey(packets[i]) = FlowKey(r)
    BY SoFarFrames DEF FlowPackets
  <2> QED
    BY <1>1, <2>1, SamePorts
<1>3. ObservedBy(OpenedBy(r), r) = OpenedBy(r)
        \/ ObservedBy(OpenedBy(r), r) = [OpenedBy(r) EXCEPT !.syn_dst_port = r.dst_port]
  BY DEF ObservedBy
<1>4. CASE key \notin DOMAIN flows
  <2>1. FactsAfter(r) = ObservedBy(OpenedBy(r), r)
    BY <1>4 DEF FactsAfter
  <2> QED
    BY <1>3, <2>1 DEF OpenedBy, ServerPort
<1>5. CASE key \in DOMAIN flows
  <2>1. FactsAfter(r) = ObservedBy(old, r)
    BY <1>5 DEF FactsAfter
  <2>2. Remembers(old, key)
    BY <1>5 DEF FirstRemembered, Remembers
  <2>3. FlowPackets(key) # {}
    BY <1>5 DEF FirstRemembered, FlowPackets
  <2>4. Min(FlowPackets(key)) \in FlowPackets(key)
    BY <2>3, FirstOfFlow
  <2>5. Syns(key) # {} => Min(Syns(key)) \in FlowPackets(key)
    BY FirstOfFlow
  <2>6. old \in FlowFacts
    BY <1>5 DEF TypeOK, IsDict
  <2> HIDE DEF key, old
  <2>7. old.opening_dst_port = None <=> r.dst_port = None
    BY <1>2, <2>2, <2>4 DEF Remembers
  <2>8. old.syn_dst_port # None => r.dst_port # None
    BY <1>2, <2>2, <2>5 DEF Remembers
  <2>9. \/ FactsAfter(r) = old
        \/ /\ FactsAfter(r).syn_dst_port = r.dst_port
           /\ FactsAfter(r).opening_dst_port = old.opening_dst_port
    BY <2>1, <2>6 DEF ObservedBy, FlowFacts
  <2> QED
    BY <2>7, <2>8, <2>9 DEF ServerPort
<1> QED
  BY <1>4, <1>5

\* The packets a table of services counts.
PacketsIn(services) == SumFunction([s \in DOMAIN services |-> services[s].packets])

\* A packet adds one to the table of services exactly when its flow has a port.
LEMMA ServicesCount ==
  ASSUME NEW r \in Frames, NEW D, IsDict(D, Transports \X Port, Service),
         IsFiniteSet(DOMAIN D), NEW p \in Maybe(Port), NEW F, FlowKey(r) \in F,
         \A s \in DOMAIN D : D[s].flows \subseteq F
  PROVE  LET new == ServicesAfter(D, r, p)
         IN  /\ IsFiniteSet(DOMAIN new)
             /\ PacketsIn(new) = PacketsIn(D) + (IF p = None \/ r.transport = "none" THEN 0 ELSE 1)
             /\ \A s \in DOMAIN new : new[s].flows \subseteq F
<1> DEFINE new == ServicesAfter(D, r, p)
           f == [s \in DOMAIN D |-> D[s].packets]
           g == [s \in DOMAIN new |-> new[s].packets]
           S == DOMAIN D
<1>1. PacketsIn(D) = SumFunctionOnSet(f, S) /\ PacketsIn(new) = SumFunctionOnSet(g, DOMAIN new)
  BY DEF PacketsIn, SumFunction
<1>2. \A s \in S : f[s] \in Nat
  BY DEF IsDict, Service
<1>3. SumFunctionOnSet(f, S) \in Nat
  <2> HIDE DEF f
  <2> QED
    BY <1>2, SumType
<1>4. CASE p = None \/ r.transport = "none"
  <2>1. new = D
    BY <1>4 DEF ServicesAfter
  <2> QED
    BY <1>1, <1>3, <1>4, <2>1
<1>5. CASE ~(p = None \/ r.transport = "none")
  <2> DEFINE key == <<r.transport, p>>
             old == IF key \in S THEN D[key] ELSE NewService
             entry == [packets |-> old.packets + 1, flows |-> old.flows \cup {FlowKey(r)}]
  <2>1. new = [k \in S \cup {key} |-> IF k = key THEN entry ELSE D[k]]
    BY <1>5, Zenon DEF ServicesAfter
  <2>2. old.packets = (IF key \in S THEN f[key] ELSE 0) /\ old.flows \subseteq F
    BY DEF NewService
  <2> HIDE DEF old
  <2>3. entry.packets = old.packets + 1 /\ entry.flows \subseteq F
    BY <2>2
  <2> HIDE DEF entry, new, key
  <2>4. DOMAIN new = S \cup {key} /\ \A s \in S \ {key} : new[s] = D[s]
    BY <2>1
  <2>5. new[key] = entry
    BY <2>1
  <2>6. \A s \in DOMAIN new : new[s].flows \subseteq F
    BY <2>3, <2>4, <2>5
  <2>7. IsFiniteSet(DOMAIN new)
    BY <2>4, FS_AddElement
  <2>8. \A s \in S \ {key} : g[s] = f[s]
    BY <2>4
  <2>9. g[key] = (IF key \in S THEN f[key] ELSE 0) + 1
    BY <2>2, <2>3, <2>4, <2>5
  <2>10. SumFunctionOnSet(g, S \cup {key}) = SumFunctionOnSet(f, S) + 1
    <3>1. IsFiniteSet(S) /\ 1 \in Nat
      OBVIOUS
    <3> HIDE DEF f, g, S
    <3> QED
      BY <1>2, <2>8, <2>9, <3>1, SumGrows
  <2> HIDE DEF f, g
  <2> QED
    BY <1>1, <1>5, <2>4, <2>6, <2>7, <2>10 DEF new
<1> QED
  BY <1>4, <1>5

\* The services of one edge, told by its packets.
ServicesTold(services, own, served) ==
  /\ IsFiniteSet(DOMAIN services)
  /\ PacketsIn(services) = Cardinality(served)
  /\ \A s \in DOMAIN services : services[s].flows \subseteq own

LEMMA ServedStep ==
  ASSUME TypeOK, Consume, NEW r, r = packets[position], NEW key
  PROVE  Served(key)' = Served(key) \cup
           (IF /\ Conversation(r) /\ L3Key(r) = key
               /\ r.transport \in {"tcp", "udp"} /\ r.dst_port # None
            THEN {position} ELSE {})
<1>1. packets' = packets
  BY ConsumedSoFar
<1>2. Served(key)' = {i \in PacketsOn(key)' : /\ packets[i].transport \in {"tcp", "udp"}
                                             /\ packets[i].dst_port # None}
  BY <1>1 DEF Served
<1>3. Served(key) = {i \in PacketsOn(key) : /\ packets[i].transport \in {"tcp", "udp"}
                                           /\ packets[i].dst_port # None}
  BY DEF Served
<1> QED
  BY <1>2, <1>3, PacketsOnStep

LEMMA ServedIdle ==
  ASSUME TypeOK, ReadAhead, [Next]_vars, ~Consume, NEW key
  PROVE  Served(key)' = Served(key)
<1>1. PacketsOn(key)' = PacketsOn(key) /\ PacketsOn(key) \subseteq SoFar
  BY PacketsOnIdle DEF PacketsOn
<1>2. \A i \in SoFar : packets'[i] = packets[i]
  BY IdleStep
<1>3. Served(key)' = {i \in PacketsOn(key)' : /\ packets'[i].transport \in {"tcp", "udp"}
                                             /\ packets'[i].dst_port # None}
  BY DEF Served
<1>4. Served(key) = {i \in PacketsOn(key) : /\ packets[i].transport \in {"tcp", "udp"}
                                           /\ packets[i].dst_port # None}
  BY DEF Served
<1> QED
  BY <1>1, <1>2, <1>3, <1>4

LEMMA ServicesCountedStep ==
  /\ TypeOK /\ ReadAhead /\ FlowsKnown /\ FirstRemembered /\ ServicesCounted
  /\ [Next]_vars
  => ServicesCounted'
<1> SUFFICES ASSUME TypeOK, ReadAhead, FlowsKnown, FirstRemembered, ServicesCounted, [Next]_vars
             PROVE  ServicesCounted'
  OBVIOUS
<1>1. \A key \in DOMAIN edges : ServicesTold(edges[key].services, edges[key].flows, Served(key))
  BY DEF ServicesCounted, ServicesTold, ServicePackets, PacketsIn
<1>2. (\A key \in DOMAIN edges' :
         ServicesTold(edges'[key].services, edges'[key].flows, Served(key)')) => ServicesCounted'
  BY DEF ServicesCounted, ServicesTold, ServicePackets, PacketsIn
<1> SUFFICES ASSUME NEW key \in DOMAIN edges'
             PROVE  ServicesTold(edges'[key].services, edges'[key].flows, Served(key)')
  BY <1>2
<1>3. CASE Consume
  <2>1. PICK r : r = packets[position]
    OBVIOUS
  <2>2. r \in Frames
    BY <1>3, <2>1, ConsumedSoFar
  <2>3. \A t : ServicesTold(EdgeOf(key, t).services, EdgeOf(key, t).flows, Served(key))
    <3> SUFFICES ASSUME NEW t
                 PROVE  ServicesTold(EdgeOf(key, t).services, EdgeOf(key, t).flows, Served(key))
      OBVIOUS
    <3>1. CASE key \in DOMAIN edges
      BY <1>1, <3>1 DEF EdgeOf
    <3>2. CASE key \notin DOMAIN edges
      <4>1. Served(key) = {}
        BY <3>2, NoPacketsOn DEF Served
      <4>2. EdgeOf(key, t).services = <<>>
        BY <3>2 DEF EdgeOf, NewEdge
      <4>3. DOMAIN EdgeOf(key, t).services = {}
        BY <4>2
      <4>4. PacketsIn(EdgeOf(key, t).services) = 0
        BY <4>3, SumEmpty DEF PacketsIn, SumFunction
      <4> QED
        BY <4>1, <4>3, <4>4, FS_EmptySet DEF ServicesTold
    <3> QED
      BY <3>1, <3>2
  <2>4. Served(key)' = Served(key) \cup
          (IF /\ Conversation(r) /\ L3Key(r) = key
              /\ r.transport \in {"tcp", "udp"} /\ r.dst_port # None
           THEN {position} ELSE {})
    BY <1>3, <2>1, ServedStep
  <2>5. CASE key \in DOMAIN edges /\ edges'[key] = edges[key] /\ Served(key)' = Served(key)
    BY <1>1, <2>5
  <2>6. CASE /\ Conversation(r) /\ key = L3Key(r)
             /\ SetEdge(L3Key(r), L3Edge(EdgeOf(L3Key(r), r.epoch_ns), r))
    <3> DEFINE old == EdgeOf(key, r.epoch_ns)
               D == old.services
               F == old.flows \cup {FlowKey(r)}
               p == ServerPort(FactsAfter(r))
    <3>1. edges'[key].services = ServicesAfter(D, r, p) /\ edges'[key].flows = F
      BY <2>6 DEF SetEdge, L3Edge
    <3>2. IsDict(D, Transports \X Port, Service)
      BY <2>2, EdgeOfTypes, FrameTypes DEF IsEdgeAcc
    <3>3. p \in Maybe(Port)
      BY <2>2, FactsTypes DEF ServerPort, FlowFacts
    <3>4. ServicesTold(D, old.flows, Served(key))
      BY <2>3
    <3>5. p = None <=> r.dst_port = None
      BY <1>3, <2>1, <2>6, PortKnown
    <3> HIDE DEF old, D, p
    <3>6. /\ IsFiniteSet(DOMAIN D) /\ PacketsIn(D) = Cardinality(Served(key))
          /\ \A s \in DOMAIN D : D[s].flows \subseteq F
      BY <3>4 DEF ServicesTold
    <3>7. FlowKey(r) \in F
      OBVIOUS
    <3> HIDE DEF F
    <3>8. LET new == ServicesAfter(D, r, p)
          IN  /\ IsFiniteSet(DOMAIN new)
              /\ PacketsIn(new) = PacketsIn(D) + (IF p = None \/ r.transport = "none" THEN 0 ELSE 1)
              /\ \A s \in DOMAIN new : new[s].flows \subseteq F
      BY <2>2, <3>2, <3>3, <3>6, <3>7, ServicesCount
    <3>9. r.transport \in {"icmp", "none"} => r.dst_port = None
      BY <2>2, FramesAssumption DEF WellDecoded
    <3>10. Served(key) \in SUBSET SoFar
      BY DEF Served, PacketsOn
    <3>11. r.dst_port # None =>
             /\ PacketsIn(ServicesAfter(D, r, p)) = PacketsIn(D) + 1
             /\ Served(key)' = Served(key) \cup {position}
      BY <2>2, <2>4, <2>6, <3>5, <3>8, <3>9, FrameTypes DEF Transports
    <3>12. r.dst_port = None =>
             /\ PacketsIn(ServicesAfter(D, r, p)) = PacketsIn(D) + 0
             /\ Served(key)' = Served(key)
      BY <2>4, <3>5, <3>8
    <3>13. Cardinality(Served(key)) \in Nat
      BY <3>10, SoFarFinite
    <3>14. Cardinality(Served(key) \cup {position}) = Cardinality(Served(key)) + 1
      <4>1. IsFiniteSet(Served(key)) /\ position \notin Served(key)
        BY <1>3, <3>10, SoFarFinite, ConsumedSoFar
      <4> QED
        BY <4>1, FS_AddElement
    <3>15. PacketsIn(ServicesAfter(D, r, p)) = Cardinality(Served(key)')
      <4>1. CASE r.dst_port # None
        BY <3>6, <3>11, <3>14, <4>1
      <4>2. CASE r.dst_port = None
        BY <3>6, <3>12, <3>13, <4>2
      <4> QED
        BY <4>1, <4>2
    <3> QED
      BY <3>1, <3>8, <3>15 DEF ServicesTold
  <2>7. CASE /\ ~Conversation(r) /\ key = L2Key(r)
             /\ SetEdge(L2Key(r), L2Edge(EdgeOf(L2Key(r), r.epoch_ns), r))
    <3>1. /\ edges'[key].services = EdgeOf(key, r.epoch_ns).services
          /\ edges'[key].flows = EdgeOf(key, r.epoch_ns).flows
      BY <2>7 DEF SetEdge, L2Edge
    <3>2. Served(key)' = Served(key)
      BY <2>4, <2>7
    <3> QED
      BY <2>3, <3>1, <3>2
  <2> QED
    <3>1. CASE /\ Conversation(r)
               /\ SetEdge(L3Key(r), L3Edge(EdgeOf(L3Key(r), r.epoch_ns), r))
      <4>1. key = L3Key(r) \/ (key \in DOMAIN edges /\ edges'[key] = edges[key])
        BY <3>1 DEF SetEdge
      <4> QED
        BY <2>4, <2>5, <2>6, <3>1, <4>1
    <3>2. CASE /\ ~Conversation(r)
               /\ SetEdge(L2Key(r), L2Edge(EdgeOf(L2Key(r), r.epoch_ns), r))
      <4>1. key = L2Key(r) \/ (key \in DOMAIN edges /\ edges'[key] = edges[key])
        BY <3>2 DEF SetEdge
      <4> QED
        BY <2>4, <2>5, <2>7, <3>2, <4>1
    <3>3. CASE ~Conversation(r) /\ edges' = edges
      BY <2>4, <2>5, <3>3
    <3> QED
      BY <1>3, <2>1, <3>1, <3>2, <3>3, EdgesAfter
<1>4. CASE ~Consume
  BY <1>1, <1>4, IdleStep, ServedIdle
<1> QED
  BY <1>3, <1>4

THEOREM ServicesAlwaysCounted == Spec => []ServicesCounted
<1>1. Init => ServicesCounted
  BY DEF Init, ServicesCounted
<1> QED
  BY <1>1, ServicesCountedStep, FlowsAlwaysKnown, FirstAlwaysRemembered, ReadsAhead,
     TypeCorrect, PTL DEF Spec

\* The services of an edge divide its TCP and UDP packets: each is counted for
\* exactly one service, unless its line ended before the destination port.
THEOREM ServicesAlwaysPartition == Spec => []ServicesPartition
<1>1. ServicesCounted => ServicesPartition
  <2> SUFFICES ASSUME ServicesCounted, NEW key \in DOMAIN edges
               PROVE  Served(key) = {i \in SoFar : LET r == packets[i] IN
                        /\ Conversation(r) /\ L3Key(r) = key
                        /\ r.transport \in {"tcp", "udp"} /\ r.dst_port # None}
    BY Zenon DEF ServicesCounted, ServicesPartition
  <2> QED
    BY DEF Served, PacketsOn
<1> QED
  BY <1>1, ServicesAlwaysCounted, PTL

-----------------------------------------------------------------------------
(***************************************************************************)
(* The aggregator implements CaptureGraph: the tables hold, at every       *)
(* moment, what CaptureGraph would say of the frames consumed so far, and  *)
(* finish reads the graph off the tables.                                  *)
(***************************************************************************)
(* What a set S of frames says of an address, given a segment s and a set R *)
(* of routers.                                                              *)

KnownIn(S, s, R) == UNION {Touched(r, s, R) : r \in S}

ClaimsOn(r, a, s, R) == {c \in Claims(r, s, R) : c.address = a}

KeysIn(r, a, s, R) == {MachineKey(c.mac, r) : c \in ClaimsOn(r, a, s, R)}

BasesBy(r, a, k, s, R) ==
  {c.basis : c \in {d \in ClaimsOn(r, a, s, R) : MachineKey(d.mac, r) = k}}

ClaimedIn(S, a, s, R) == UNION {KeysIn(r, a, s, R) : r \in S}

BasesIn(S, a, k, s, R) == UNION {BasesBy(r, a, k, s, R) : r \in S}

ClaimTimes(S, a, k, s, R) == {r.epoch_ns : r \in {q \in S : k \in KeysIn(q, a, s, R)}}

Times(S, a, s, R) == {r.epoch_ns : r \in {q \in S : a \in Touched(q, s, R)}}

\* The entry of an address says what the frames of S say of it.
AccTells(acc, S, a, s, R) ==
  /\ DOMAIN acc.bindings = ClaimedIn(S, a, s, R)
  /\ \A k \in ClaimedIn(S, a, s, R) :
       /\ acc.bindings[k].basis = Strongest(BasesIn(S, a, k, s, R))
       /\ acc.bindings[k].window.last = Max(ClaimTimes(S, a, k, s, R))
  /\ acc.seen_on_segment = Holds(s, a)
  /\ acc.sourced_from_macs = {k[1] : k \in ClaimedIn(S, a, s, R)}
  /\ acc.window.first = Min(Times(S, a, s, R))
  /\ acc.window.last = Max(Times(S, a, s, R))

-----------------------------------------------------------------------------
(* The inductive invariant.                                                 *)

\* The frames consumed so far.
Eaten == {packets[i] : i \in SoFar}

\* The survey is of the whole list, and precedes everything else.
Surveyed ==
  /\ phase = "reading" => position = 1
  /\ phase \in {"consuming", "built", "crashed"} =>
       /\ segment = SegmentOf(Elements(packets))
       /\ routers = RouterMacs(Elements(packets), segment)
  /\ phase # "built" => document = NoDocument

AddressesTold ==
  /\ DOMAIN addresses = KnownIn(Eaten, segment, routers)
  /\ \A a \in DOMAIN addresses : AccTells(addresses[a], Eaten, a, segment, routers)

\* The packets seen from one end of an edge to the other.
Along(d) == {i \in SoFar : HasIp(packets[i]) /\ <<packets[i].ip_src, packets[i].ip_dst>> = d}

\* An l3 edge counts its packets by direction, and has some.
DirectionsCounted ==
  \A key \in DOMAIN edges : key[1] = "l3" =>
    /\ PacketsOn(key) # {}
    /\ edges[key].forward = Cardinality(Along(key[2]))
    /\ edges[key].reverse = Cardinality(Along(<<key[2][2], key[2][1]>>))

\* The inductive invariant: what the tables say is what the frames consumed say.
Told ==
  /\ TypeOK /\ ReadAhead /\ Surveyed /\ AddressesTold
  /\ VlansNoted /\ FlowsKnown /\ DirectionsCounted

-----------------------------------------------------------------------------
(* The survey                                                               *)

LEMMA SurveyedStep == TypeOK /\ Surveyed /\ [Next]_vars => Surveyed'
<1> SUFFICES ASSUME TypeOK, Surveyed, [Next]_vars PROVE Surveyed'
  OBVIOUS
<1>1. CASE Read
  BY <1>1 DEF Read, Surveyed, TypeOK
<1>2. CASE Refuse
  BY <1>2 DEF Refuse, Surveyed
<1>3. CASE Survey
  BY <1>3 DEF Survey, Surveyed
<1>4. CASE Consume
  BY <1>4 DEF Consume, Surveyed
<1>5. CASE Finish
  BY <1>5 DEF Finish, Consumed, Surveyed
<1>6. CASE Crash
  BY <1>6 DEF Crash, Consumed, Surveyed
<1>7. CASE UNCHANGED vars
  BY <1>7 DEF vars, Surveyed
<1> QED
  BY <1>1, <1>2, <1>3, <1>4, <1>5, <1>6, <1>7 DEF Next

LEMMA ValuesFinite ==
  ASSUME NEW P, IsFiniteSet(P), NEW h, NEW V, V = {h[i] : i \in P}
  PROVE  IsFiniteSet(V)
<1> DEFINE g == [i \in P |-> h[i]]
<1>1. g \in Surjection(P, V)
  BY DEF Surjection
<1> HIDE DEF g
<1> QED
  BY <1>1, FS_Surjection

LEMMA EatenStep ==
  ASSUME TypeOK, ReadAhead
  PROVE  /\ Eaten \subseteq Frames /\ IsFiniteSet(Eaten)
         /\ Consume => Eaten' = Eaten \cup {packets[position]} /\ packets[position] \in Frames
         /\ [Next]_vars /\ ~Consume => Eaten' = Eaten
<1>1. Eaten \subseteq Frames
  BY SoFarFrames DEF Eaten
<1>2. IsFiniteSet(Eaten)
  BY SoFarFinite, ValuesFinite DEF Eaten
<1>3. ASSUME Consume
      PROVE  Eaten' = Eaten \cup {packets[position]} /\ packets[position] \in Frames
  BY <1>3, ConsumedSoFar DEF Eaten
<1>4. ASSUME [Next]_vars, ~Consume
      PROVE  Eaten' = Eaten
  BY <1>4, IdleStep DEF Eaten
<1> QED
  BY <1>1, <1>2, <1>3, <1>4

-----------------------------------------------------------------------------
(* One frame more                                                           *)

LEMMA MoreFrames ==
  ASSUME NEW S, NEW r, NEW s, NEW R
  PROVE  /\ KnownIn(S \cup {r}, s, R) = KnownIn(S, s, R) \cup Touched(r, s, R)
         /\ \A a : ClaimedIn(S \cup {r}, a, s, R) = ClaimedIn(S, a, s, R) \cup KeysIn(r, a, s, R)
         /\ \A a, k : BasesIn(S \cup {r}, a, k, s, R)
                        = BasesIn(S, a, k, s, R) \cup BasesBy(r, a, k, s, R)
         /\ \A a, k : ClaimTimes(S \cup {r}, a, k, s, R) = ClaimTimes(S, a, k, s, R) \cup
                        (IF k \in KeysIn(r, a, s, R) THEN {r.epoch_ns} ELSE {})
         /\ \A a : Times(S \cup {r}, a, s, R) = Times(S, a, s, R) \cup
                     (IF a \in Touched(r, s, R) THEN {r.epoch_ns} ELSE {})
<1>1. KnownIn(S \cup {r}, s, R) = KnownIn(S, s, R) \cup Touched(r, s, R)
  BY DEF KnownIn
<1>2. \A a : ClaimedIn(S \cup {r}, a, s, R) = ClaimedIn(S, a, s, R) \cup KeysIn(r, a, s, R)
  BY DEF ClaimedIn
<1>3. \A a, k : BasesIn(S \cup {r}, a, k, s, R)
                  = BasesIn(S, a, k, s, R) \cup BasesBy(r, a, k, s, R)
  BY DEF BasesIn
<1>4. \A a, k : ClaimTimes(S \cup {r}, a, k, s, R) = ClaimTimes(S, a, k, s, R) \cup
                  (IF k \in KeysIn(r, a, s, R) THEN {r.epoch_ns} ELSE {})
  BY DEF ClaimTimes
<1>5. \A a : Times(S \cup {r}, a, s, R) = Times(S, a, s, R) \cup
               (IF a \in Touched(r, s, R) THEN {r.epoch_ns} ELSE {})
  BY DEF Times
<1> QED
  BY <1>1, <1>2, <1>3, <1>4, <1>5

\* A frame that does not touch an address says nothing of it.
LEMMA Untouched ==
  ASSUME NEW r, NEW a, NEW s, NEW R, a \notin Touched(r, s, R)
  PROVE  KeysIn(r, a, s, R) = {} /\ \A k : BasesBy(r, a, k, s, R) = {}
<1>1. ClaimsOn(r, a, s, R) = {}
  BY DEF ClaimsOn, Touched
<1> QED
  BY <1>1 DEF KeysIn, BasesBy

LEMMA NothingKnown ==
  ASSUME NEW S, NEW a, NEW s, NEW R, a \notin KnownIn(S, s, R)
  PROVE  /\ ClaimedIn(S, a, s, R) = {} /\ Times(S, a, s, R) = {}
         /\ \A k : BasesIn(S, a, k, s, R) = {} /\ ClaimTimes(S, a, k, s, R) = {}
<1>1. \A r \in S : a \notin Touched(r, s, R)
  BY DEF KnownIn
<1> QED
  BY <1>1, Untouched DEF ClaimedIn, Times, BasesIn, ClaimTimes

\* A key is claimed for an address exactly when some basis is, at some time.
LEMMA KeyHasBasis ==
  ASSUME NEW S \in SUBSET Frames, NEW a, NEW k, NEW s, NEW R
  PROVE  /\ k \in ClaimedIn(S, a, s, R) <=> BasesIn(S, a, k, s, R) # {}
         /\ k \in ClaimedIn(S, a, s, R) <=> ClaimTimes(S, a, k, s, R) # {}
         /\ BasesIn(S, a, k, s, R) \subseteq Bases
         /\ \A r \in S : k \in KeysIn(r, a, s, R) <=> BasesBy(r, a, k, s, R) # {}
<1>1. \A r \in S : k \in KeysIn(r, a, s, R) <=> BasesBy(r, a, k, s, R) # {}
  BY DEF KeysIn, BasesBy
<1>2. \A r \in S : BasesBy(r, a, k, s, R) \subseteq Bases
  BY ClaimTypes DEF BasesBy, ClaimsOn
<1> QED
  BY <1>1, <1>2 DEF ClaimedIn, BasesIn, ClaimTimes

LEMMA TimesTypes ==
  ASSUME NEW S \in SUBSET Frames, IsFiniteSet(S), NEW a, NEW k, NEW s, NEW R
  PROVE  /\ Times(S, a, s, R) \subseteq Int /\ IsFiniteSet(Times(S, a, s, R))
         /\ ClaimTimes(S, a, k, s, R) \subseteq Int /\ IsFiniteSet(ClaimTimes(S, a, k, s, R))
<1> DEFINE A == {q \in S : a \in Touched(q, s, R)}
           B == {q \in S : k \in KeysIn(q, a, s, R)}
<1>1. IsFiniteSet(A) /\ IsFiniteSet(B) /\ \A r \in S : r.epoch_ns \in Int
  BY FS_Subset, FrameTypes
<1>2. A \subseteq S /\ B \subseteq S
  OBVIOUS
<1>3. Times(S, a, s, R) = {r.epoch_ns : r \in A} /\ ClaimTimes(S, a, k, s, R) = {r.epoch_ns : r \in B}
  BY DEF Times, ClaimTimes
<1> HIDE DEF A, B
<1>4. IsFiniteSet({r.epoch_ns : r \in A}) /\ IsFiniteSet({r.epoch_ns : r \in B})
  <2> DEFINE h == [r \in Frames |-> r.epoch_ns]
  <2>1. /\ {r.epoch_ns : r \in A} = {h[r] : r \in A}
        /\ {r.epoch_ns : r \in B} = {h[r] : r \in B}
    BY <1>2
  <2> HIDE DEF h
  <2>2. \A P : IsFiniteSet(P) => IsFiniteSet({h[r] : r \in P})
    BY ValuesFinite
  <2>3. IsFiniteSet({h[r] : r \in A}) /\ IsFiniteSet({h[r] : r \in B})
    BY <1>1, <2>2
  <2> QED
    BY <2>1, <2>3, Zenon
<1> QED
  BY <1>1, <1>2, <1>3, <1>4

-----------------------------------------------------------------------------
(* The entry of an address after one frame more                             *)

\* The ranks tell the bases apart.
LEMMA StrongestIs ==
  ASSUME NEW T \in SUBSET Bases, NEW b \in T, \A c \in T : BasisRank[b] >= BasisRank[c]
  PROVE  Strongest(T) = b
<1>1. Strongest(T) \in T /\ \A c \in T : BasisRank[Strongest(T)] >= BasisRank[c]
  BY StrongestInSet
<1>2. BasisRank[Strongest(T)] = BasisRank[b]
  <2>1. \A c \in Bases : BasisRank[c] \in Nat
    BY DEF Bases, BasisRank
  <2> QED
    BY <1>1, <2>1
<1>3. \A c, d \in Bases : BasisRank[c] = BasisRank[d] => c = d
  BY DEF Bases, BasisRank
<1> QED
  BY <1>1, <1>2, <1>3

LEMMA StrongestMore ==
  ASSUME NEW T \in SUBSET Bases, T # {}, NEW U \in SUBSET Bases
  PROVE  Strongest(U \cup {Strongest(T)}) = Strongest(T \cup U)
<1> DEFINE t == Strongest(T)
           b == Strongest(U \cup {t})
<1>1. t \in T /\ \A c \in T : BasisRank[t] >= BasisRank[c]
  BY StrongestInSet
<1>2. b \in U \cup {t} /\ \A c \in U \cup {t} : BasisRank[b] >= BasisRank[c]
  BY <1>1, StrongestInSet
<1>3. \A c \in Bases : BasisRank[c] \in Nat
  BY DEF Bases, BasisRank
<1> HIDE DEF b, t
<1>4. b \in T \cup U
  BY <1>1, <1>2
<1>5. \A c \in T \cup U : BasisRank[b] >= BasisRank[c]
  <2> SUFFICES ASSUME NEW c \in T \cup U PROVE BasisRank[b] >= BasisRank[c]
    OBVIOUS
  <2>1. CASE c \in U
    BY <2>1, <1>2
  <2>2. CASE c \in T
    <3>1. BasisRank[b] >= BasisRank[t] /\ BasisRank[t] >= BasisRank[c]
      BY <1>1, <1>2, <2>2
    <3>2. BasisRank[b] \in Nat /\ BasisRank[t] \in Nat /\ BasisRank[c] \in Nat
      BY <1>1, <1>3, <1>4
    <3> QED
      BY <3>1, <3>2
  <2> QED
    BY <2>1, <2>2
<1>6. Strongest(T \cup U) = b
  BY <1>4, <1>5, StrongestIs
<1> QED
  BY <1>6 DEF b, t

\* The entry an address has before the frame: what it was told, or a new one.
AccBeforeTells(acc, S, a, t, s, R) ==
  \/ a \in KnownIn(S, s, R) /\ AccTells(acc, S, a, s, R)
  \/ a \notin KnownIn(S, s, R) /\ acc = NewAddress(t)

LEMMA BindingsTold ==
  ASSUME NEW S \in SUBSET Frames, IsFiniteSet(S), NEW r \in Frames, NEW a, NEW s, NEW R,
         NEW B, DOMAIN B = ClaimedIn(S, a, s, R),
         \A k \in ClaimedIn(S, a, s, R) :
           /\ B[k].basis = Strongest(BasesIn(S, a, k, s, R))
           /\ B[k].window.last = Max(ClaimTimes(S, a, k, s, R)),
         NEW C, C = ClaimsOn(r, a, s, R)
  PROVE  /\ DOMAIN Rebound(B, C, r) = ClaimedIn(S \cup {r}, a, s, R)
         /\ \A k \in ClaimedIn(S \cup {r}, a, s, R) :
              /\ Rebound(B, C, r)[k].basis = Strongest(BasesIn(S \cup {r}, a, k, s, R))
              /\ Rebound(B, C, r)[k].window.last = Max(ClaimTimes(S \cup {r}, a, k, s, R))
<1> DEFINE new == Rebound(B, C, r)
           keys == KeysIn(r, a, s, R)
           olds == ClaimedIn(S, a, s, R)
<1>1. ClaimedIn(S \cup {r}, a, s, R) = olds \cup keys
  BY DEF ClaimedIn
<1>2. new = [k \in olds \cup keys |->
         IF k \notin keys THEN B[k]
         ELSE IF k \notin olds
         THEN [basis |-> Strongest(BasesBy(r, a, k, s, R)), window |-> At(r.epoch_ns)]
         ELSE [basis |-> Strongest(BasesBy(r, a, k, s, R) \cup {B[k].basis}),
               window |-> Extend(B[k].window, r.epoch_ns)]]
  BY DEF Rebound, KeysIn, BasesBy
<1> HIDE DEF new
<1>3. DOMAIN new = olds \cup keys
  BY <1>2
<1>4. ASSUME NEW k \in olds \cup keys
      PROVE  /\ new[k].basis = Strongest(BasesIn(S \cup {r}, a, k, s, R))
             /\ new[k].window.last = Max(ClaimTimes(S \cup {r}, a, k, s, R))
  <2> DEFINE T == BasesIn(S, a, k, s, R)
             U == BasesBy(r, a, k, s, R)
             W == ClaimTimes(S, a, k, s, R)
  <2>1. BasesIn(S \cup {r}, a, k, s, R) = T \cup U
    BY MoreFrames
  <2>2. ClaimTimes(S \cup {r}, a, k, s, R) = W \cup (IF k \in keys THEN {r.epoch_ns} ELSE {})
    BY MoreFrames
  <2>3. T \subseteq Bases /\ (k \in olds <=> T # {}) /\ (k \in olds <=> W # {})
    BY KeyHasBasis
  <2>4. U \subseteq Bases /\ (k \in keys <=> U # {})
    <3>1. /\ BasesIn({r}, a, k, s, R) \subseteq Bases
          /\ \A q \in {r} : k \in KeysIn(q, a, s, R) <=> BasesBy(q, a, k, s, R) # {}
      BY KeyHasBasis
    <3>2. BasesIn({r}, a, k, s, R) = U
      BY DEF BasesIn
    <3> QED
      BY <3>1, <3>2
  <2>5. W \subseteq Int /\ IsFiniteSet(W) /\ r.epoch_ns \in Int
    BY TimesTypes, FrameTypes
  <2>6. /\ k \in olds => B[k].basis = Strongest(T) /\ B[k].window.last = Max(W)
        /\ k \in keys /\ k \notin olds =>
             new[k] = [basis |-> Strongest(U), window |-> At(r.epoch_ns)]
        /\ k \in keys /\ k \in olds =>
             new[k] = [basis |-> Strongest(U \cup {B[k].basis}),
                       window |-> Extend(B[k].window, r.epoch_ns)]
    BY <1>2
  <2> HIDE DEF T, U, W, keys, olds
  <2>7. CASE k \notin keys
    <3>1. new[k] = B[k] /\ k \in olds
      BY <1>2, <2>7
    <3>2. U = {} /\ T \cup U = T /\ W \cup {} = W
      BY <2>4, <2>7
    <3> QED
      BY <2>1, <2>2, <2>6, <2>7, <3>1, <3>2
  <2>8. CASE k \in keys /\ k \notin olds
    <3>1. new[k] = [basis |-> Strongest(U), window |-> At(r.epoch_ns)]
      BY <2>6, <2>8
    <3>2. T \cup U = U /\ W \cup {r.epoch_ns} = {r.epoch_ns}
      BY <2>3, <2>8
    <3>3. Max({r.epoch_ns}) = r.epoch_ns
      BY <2>5, MaxIs
    <3>4. new[k].basis = Strongest(U) /\ new[k].window.last = r.epoch_ns
      BY <3>1 DEF At
    <3> QED
      BY <2>1, <2>2, <2>8, <3>2, <3>3, <3>4, Zenon
  <2>9. CASE k \in keys /\ k \in olds
    <3>1. new[k] = [basis |-> Strongest(U \cup {B[k].basis}),
                    window |-> Extend(B[k].window, r.epoch_ns)]
      BY <2>6, <2>9
    <3>2. Strongest(U \cup {B[k].basis}) = Strongest(T \cup U)
      BY <2>3, <2>4, <2>6, <2>9, StrongestMore
    <3>3. new[k].window.last = IF r.epoch_ns > Max(W) THEN r.epoch_ns ELSE Max(W)
      BY <2>6, <2>9, <3>1 DEF Extend
    <3>4. Max(W \cup {r.epoch_ns}) = IF r.epoch_ns > Max(W) THEN r.epoch_ns ELSE Max(W)
      BY <2>3, <2>5, <2>9, MaxMore
    <3>5. new[k].basis = Strongest(T \cup U)
      BY <3>1, <3>2
    <3> QED
      BY <2>1, <2>2, <2>9, <3>3, <3>4, <3>5, Zenon
  <2> QED
    BY <2>7, <2>8, <2>9
<1> QED
  BY <1>1, <1>3, <1>4 DEF new

LEMMA AccStep ==
  ASSUME NEW S \in SUBSET Frames, IsFiniteSet(S), NEW r \in Frames, NEW a,
         a \in Touched(r, segment, routers), NEW acc,
         AccBeforeTells(acc, S, a, r.epoch_ns, segment, routers)
  PROVE  AccTells(TouchedAcc(acc, a, r), S \cup {r}, a, segment, routers)
<1> DEFINE s == segment
           R == routers
           t == r.epoch_ns
           C == ClaimsOn(r, a, s, R)
           new == TouchedAcc(acc, a, r)
           olds == ClaimedIn(S, a, s, R)
           W == Times(S, a, s, R)
<1>1. t \in Int
  BY FrameTypes
<1>2. /\ DOMAIN acc.bindings = olds
      /\ \A k \in olds :
           /\ acc.bindings[k].basis = Strongest(BasesIn(S, a, k, s, R))
           /\ acc.bindings[k].window.last = Max(ClaimTimes(S, a, k, s, R))
      /\ acc.sourced_from_macs = {k[1] : k \in olds}
      /\ acc.seen_on_segment = FALSE \/ acc.seen_on_segment = Holds(s, a)
  <2>1. CASE a \in KnownIn(S, s, R) /\ AccTells(acc, S, a, s, R)
    BY <2>1 DEF AccTells
  <2>2. CASE a \notin KnownIn(S, s, R) /\ acc = NewAddress(t)
    <3>1. olds = {}
      BY <2>2, NothingKnown
    <3>2. DOMAIN acc.bindings = {} /\ acc.sourced_from_macs = {} /\ acc.seen_on_segment = FALSE
      BY <2>2 DEF NewAddress
    <3> HIDE DEF olds
    <3> QED
      BY <3>1, <3>2
  <2> QED
    BY <2>1, <2>2 DEF AccBeforeTells
<1>3. new = [window |-> Extend(acc.window, t),
             bindings |-> Rebound(acc.bindings, C, r),
             hostnames |-> acc.hostnames \cup {n \in Name : <<a, n>> \in r.hostnames},
             seen_on_segment |-> acc.seen_on_segment \/ Holds(s, a),
             sourced_from_macs |-> acc.sourced_from_macs \cup {c.mac : c \in C}]
  BY DEF TouchedAcc, ClaimsOn
<1>4. /\ DOMAIN new.bindings = ClaimedIn(S \cup {r}, a, s, R)
      /\ \A k \in ClaimedIn(S \cup {r}, a, s, R) :
           /\ new.bindings[k].basis = Strongest(BasesIn(S \cup {r}, a, k, s, R))
           /\ new.bindings[k].window.last = Max(ClaimTimes(S \cup {r}, a, k, s, R))
  <2> DEFINE B == acc.bindings
  <2>1. new.bindings = Rebound(B, C, r)
    BY <1>3
  <2>2. /\ DOMAIN B = ClaimedIn(S, a, s, R)
        /\ \A k \in ClaimedIn(S, a, s, R) :
             /\ B[k].basis = Strongest(BasesIn(S, a, k, s, R))
             /\ B[k].window.last = Max(ClaimTimes(S, a, k, s, R))
    BY <1>2
  <2> HIDE DEF B, new, s, R
  <2>3. /\ DOMAIN Rebound(B, C, r) = ClaimedIn(S \cup {r}, a, s, R)
        /\ \A k \in ClaimedIn(S \cup {r}, a, s, R) :
             /\ Rebound(B, C, r)[k].basis = Strongest(BasesIn(S \cup {r}, a, k, s, R))
             /\ Rebound(B, C, r)[k].window.last = Max(ClaimTimes(S \cup {r}, a, k, s, R))
    BY <2>2, BindingsTold
  <2> QED
    BY <2>1, <2>3, Zenon
<1>5. new.seen_on_segment = Holds(s, a)
  <2>1. new.seen_on_segment = (acc.seen_on_segment \/ Holds(s, a))
    BY <1>3
  <2>2. Holds(s, a) \in BOOLEAN
    BY DEF Holds
  <2> HIDE DEF new
  <2>3. CASE acc.seen_on_segment = FALSE
    BY <2>1, <2>2, <2>3, Zenon
  <2>4. CASE acc.seen_on_segment = Holds(s, a)
    BY <2>1, <2>2, <2>4, Zenon
  <2> QED
    BY <1>2, <2>3, <2>4
<1>6. new.sourced_from_macs = {k[1] : k \in ClaimedIn(S \cup {r}, a, s, R)}
  <2>1. ClaimedIn(S \cup {r}, a, s, R) = olds \cup KeysIn(r, a, s, R)
    BY DEF ClaimedIn
  <2>2. {k[1] : k \in KeysIn(r, a, s, R)} = {c.mac : c \in C}
    <3>1. KeysIn(r, a, s, R) = {MachineKey(c.mac, r) : c \in C}
      BY DEF KeysIn
    <3>2. \A c : MachineKey(c.mac, r)[1] = c.mac
      BY DEF MachineKey
    <3> HIDE DEF C
    <3> QED
      BY <3>1, <3>2
  <2>3. new.sourced_from_macs = {k[1] : k \in olds} \cup {c.mac : c \in C}
    BY <1>2, <1>3
  <2> HIDE DEF olds, C, new
  <2> QED
    BY <2>1, <2>2, <2>3
<1>7. new.window = Extend(acc.window, t)
  BY <1>3
<1>8. Times(S \cup {r}, a, s, R) = W \cup {t}
  BY DEF Times
<1>9. new.window.first = Min(W \cup {t}) /\ new.window.last = Max(W \cup {t})
  <2>1. CASE a \in KnownIn(S, s, R) /\ AccTells(acc, S, a, s, R)
    <3>1. W # {}
      BY <2>1 DEF KnownIn, Times
    <3>2. W \subseteq Int /\ IsFiniteSet(W)
      BY TimesTypes
    <3>3. acc.window.first = Min(W) /\ acc.window.last = Max(W)
      BY <2>1 DEF AccTells
    <3> HIDE DEF W, new, t
    <3>4. /\ Min(W \cup {t}) = IF t < Min(W) THEN t ELSE Min(W)
          /\ Max(W \cup {t}) = IF t > Max(W) THEN t ELSE Max(W)
      BY <1>1, <3>1, <3>2, MinMore, MaxMore
    <3>5. /\ new.window.first = IF t < acc.window.first THEN t ELSE acc.window.first
          /\ new.window.last = IF t > acc.window.last THEN t ELSE acc.window.last
      BY <1>7 DEF Extend
    <3> DEFINE w == acc.window
               v == new.window
    <3> HIDE DEF w, v
    <3>6. CASE t < Min(W)
      BY <3>3, <3>4, <3>5, <3>6
    <3>7. CASE ~(t < Min(W))
      BY <3>3, <3>4, <3>5, <3>7
    <3> QED
      BY <3>6, <3>7
  <2>2. CASE a \notin KnownIn(S, s, R) /\ acc = NewAddress(t)
    <3>1. W = {}
      BY <2>2, NothingKnown
    <3>2. acc.window = At(t)
      BY <2>2 DEF NewAddress
    <3> HIDE DEF W, new, t
    <3>3. new.window.first = t /\ new.window.last = t
      BY <1>1, <1>7, <3>2 DEF Extend, At
    <3>4. Min({t}) = t /\ Max({t}) = t
      BY <1>1, MinIs, MaxIs
    <3>5. W \cup {t} = {t}
      BY <3>1
    <3> QED
      BY <3>3, <3>4, <3>5, Zenon
  <2> QED
    BY <2>1, <2>2 DEF AccBeforeTells
<1> HIDE DEF new, W
<1> QED
  BY <1>4, <1>5, <1>6, <1>8, <1>9, Zenon DEF AccTells, new

\* The entry of an address the frame does not touch stays true of it.
LEMMA AccKept ==
  ASSUME NEW S, NEW r, NEW a, NEW s, NEW R, a \notin Touched(r, s, R),
         NEW acc, AccTells(acc, S, a, s, R)
  PROVE  AccTells(acc, S \cup {r}, a, s, R)
<1>1. KeysIn(r, a, s, R) = {} /\ \A k : BasesBy(r, a, k, s, R) = {}
  BY Untouched
<1>2. ClaimedIn(S \cup {r}, a, s, R) = ClaimedIn(S, a, s, R)
  BY <1>1 DEF ClaimedIn
<1>3. \A k : BasesIn(S \cup {r}, a, k, s, R) = BasesIn(S, a, k, s, R)
  BY <1>1 DEF BasesIn
<1>4. \A k : ClaimTimes(S \cup {r}, a, k, s, R) = ClaimTimes(S, a, k, s, R)
  BY <1>1 DEF ClaimTimes
<1>5. Times(S \cup {r}, a, s, R) = Times(S, a, s, R)
  BY DEF Times
<1> QED
  BY <1>2, <1>3, <1>4, <1>5, Zenon DEF AccTells

LEMMA AddressesToldStep ==
  TypeOK /\ ReadAhead /\ Surveyed /\ AddressesTold /\ [Next]_vars => AddressesTold'
<1> SUFFICES ASSUME TypeOK, ReadAhead, Surveyed, AddressesTold, [Next]_vars
             PROVE  AddressesTold'
  OBVIOUS
<1>1. CASE Consume
  <2>1. PICK r : r = packets[position]
    OBVIOUS
  <2>2. /\ Eaten \subseteq Frames /\ IsFiniteSet(Eaten)
        /\ Eaten' = Eaten \cup {r} /\ r \in Frames
    BY <1>1, <2>1, EatenStep
  <2>3. NoteAddresses(r) /\ segment' = segment /\ routers' = routers
    BY <1>1, <2>1 DEF Consume, ConsumeFrame
  <2> DEFINE s == segment
             R == routers
             touched == Touched(r, s, R)
  <2>4. DOMAIN addresses' = DOMAIN addresses \cup touched
    BY <2>3, AddressKeys
  <2>5. DOMAIN addresses = KnownIn(Eaten, s, R)
    BY DEF AddressesTold
  <2>6. DOMAIN addresses' = KnownIn(Eaten \cup {r}, s, R)
    <3>1. KnownIn(Eaten \cup {r}, s, R) = KnownIn(Eaten, s, R) \cup touched
      BY DEF KnownIn
    <3> QED
      BY <2>4, <2>5, <3>1, Zenon
  <2>7. ASSUME NEW a \in DOMAIN addresses'
        PROVE  AccTells(addresses'[a], Eaten \cup {r}, a, s, R)
    <3>1. CASE a \in touched
      <4> DEFINE acc == AccOf(a, r.epoch_ns)
      <4>1. addresses'[a] = TouchedAcc(acc, a, r)
        BY <2>3, <3>1 DEF NoteAddresses
      <4>2. AccBeforeTells(acc, Eaten, a, r.epoch_ns, s, R)
        BY <2>5 DEF AccBeforeTells, AccOf, AddressesTold
      <4> HIDE DEF acc
      <4>3. AccTells(TouchedAcc(acc, a, r), Eaten \cup {r}, a, s, R)
        BY <2>2, <3>1, <4>2, AccStep
      <4> QED
        BY <4>1, <4>3, Zenon
    <3>2. CASE a \notin touched
      <4>1. a \in DOMAIN addresses /\ addresses'[a] = addresses[a]
        BY <2>3, <2>4, <3>2 DEF NoteAddresses
      <4>2. AccTells(addresses[a], Eaten, a, s, R)
        BY <4>1 DEF AddressesTold
      <4> QED
        BY <3>2, <4>1, <4>2, AccKept
    <3> QED
      BY <3>1, <3>2
  <2> QED
    BY <2>2, <2>3, <2>6, <2>7 DEF AddressesTold
<1>2. CASE ~Consume
  <2>1. Eaten' = Eaten /\ addresses' = addresses
    BY <1>2, EatenStep, IdleStep
  <2>2. CASE Survey
    <3>1. position = 1
      BY <2>2 DEF Survey, Surveyed
    <3>2. Eaten = {}
      BY <3>1 DEF Eaten, SoFar
    <3>3. DOMAIN addresses = {} /\ KnownIn(Eaten', segment', routers') = {}
      BY <2>1, <3>2 DEF AddressesTold, KnownIn
    <3> QED
      BY <2>1, <3>3 DEF AddressesTold
  <2>3. CASE segment' = segment /\ routers' = routers
    BY <2>1, <2>3 DEF AddressesTold
  <2> QED
    BY <1>2, <2>2, <2>3 DEF Next, Read, Refuse, Finish, Crash, vars
<1> QED
  BY <1>1, <1>2

-----------------------------------------------------------------------------
(* Traffic by direction                                                     *)

Ends(r) == <<r.ip_src, r.ip_dst>>

Turned(d) == <<d[2], d[1]>>

LEMMA L3KeyShape ==
  ASSUME NEW key \in EdgeKeys, key[1] = "l3"
  PROVE  /\ key = <<"l3", key[2]>> /\ key[2] = <<key[2][1], key[2][2]>>
         /\ key[2][1] \in Address /\ key[2][2] \in Address /\ key[2][1] < key[2][2]
         /\ key[2][1] \in Nat /\ key[2][2] \in Nat
<1>1. PICK p \in Address \X Address : p[1] < p[2] /\ key = <<"l3", p>>
  BY DEF EdgeKeys
<1>2. p = <<p[1], p[2]>> /\ p[1] \in Address /\ p[2] \in Address
  OBVIOUS
<1>3. p[1] \in Nat /\ p[2] \in Nat
  BY <1>2, KindsAssumption
<1> QED
  BY <1>1, <1>2, <1>3

\* A packet of a conversation goes along its edge or against it.
LEMMA EndsOfKey ==
  ASSUME NEW r \in Frames, NEW key \in EdgeKeys, key[1] = "l3"
  PROVE  /\ HasIp(r) /\ Ends(r) \in {key[2], Turned(key[2])} <=> Conversation(r) /\ L3Key(r) = key
         /\ Conversation(r) /\ L3Key(r) = key =>
              /\ Ends(r) = key[2] <=> r.ip_src < r.ip_dst
              /\ Ends(r) = Turned(key[2]) <=> r.ip_dst < r.ip_src
<1> DEFINE x == key[2][1]
           y == key[2][2]
           a == r.ip_src
           b == r.ip_dst
<1>1. key = <<"l3", <<x, y>>>> /\ x \in Nat /\ y \in Nat /\ x < y
  BY L3KeyShape
<1>2. Conversation(r) <=> HasIp(r) /\ a # b
  BY DEF Conversation
<1>3. HasIp(r) => a \in Nat /\ b \in Nat
  BY FrameTypes, KindsAssumption DEF HasIp, Maybe
<1>4. L3Key(r) = <<"l3", IF a < b THEN <<a, b>> ELSE <<b, a>>>>
  BY DEF L3Key, SortedPair
<1>5. Ends(r) = <<a, b>> /\ key[2] = <<x, y>> /\ Turned(key[2]) = <<y, x>>
  BY <1>1 DEF Ends, Turned
<1> HIDE DEF x, y, a, b
<1>6. ASSUME HasIp(r), a < b
      PROVE  L3Key(r) = key <=> a = x /\ b = y
  BY <1>1, <1>4, <1>6
<1>7. ASSUME HasIp(r), ~(a < b)
      PROVE  L3Key(r) = key <=> a = y /\ b = x
  BY <1>1, <1>4, <1>7
<1>8. /\ Ends(r) = key[2] <=> a = x /\ b = y
      /\ Ends(r) = Turned(key[2]) <=> a = y /\ b = x
  BY <1>5
<1>9. HasIp(r) /\ Ends(r) \in {key[2], Turned(key[2])} <=> Conversation(r) /\ L3Key(r) = key
  BY <1>1, <1>2, <1>3, <1>6, <1>7, <1>8
<1>10. Conversation(r) /\ L3Key(r) = key =>
         /\ Ends(r) = key[2] <=> a < b
         /\ Ends(r) = Turned(key[2]) <=> b < a
  BY <1>1, <1>2, <1>3, <1>6, <1>7, <1>8
<1> QED
  BY <1>9, <1>10 DEF a, b

LEMMA AlongStep ==
  ASSUME TypeOK, Consume, NEW r, r = packets[position], NEW d
  PROVE  Cardinality(Along(d)') = Cardinality(Along(d)) + One(HasIp(r) /\ Ends(r) = d)
<1> DEFINE b == HasIp(r) /\ Ends(r) = d
<1>1. SoFar' = SoFar \cup {position} /\ packets' = packets
  BY ConsumedSoFar
<1>2. Along(d)' = Along(d) \cup (IF b THEN {position} ELSE {})
  BY <1>1 DEF Along, Ends
<1>3. Along(d) \in SUBSET SoFar /\ b \in BOOLEAN
  BY DEF Along
<1> HIDE DEF b
<1>4. \A T : T = Along(d) \cup (IF b THEN {position} ELSE {}) =>
        Cardinality(T) = Cardinality(Along(d)) + One(b)
  BY <1>3, CountStep
<1> QED
  BY <1>2, <1>4 DEF b

LEMMA AlongIdle ==
  ASSUME TypeOK, ReadAhead, [Next]_vars, ~Consume, NEW d
  PROVE  Along(d)' = Along(d)
<1>1. SoFar' = SoFar /\ \A i \in SoFar : packets'[i] = packets[i]
  BY IdleStep
<1> QED
  BY <1>1 DEF Along

LEMMA NoneAlong ==
  ASSUME TypeOK, ReadAhead, FlowsKnown, NEW key \in EdgeKeys, key[1] = "l3", key \notin DOMAIN edges
  PROVE  Cardinality(Along(key[2])) = 0 /\ Cardinality(Along(Turned(key[2]))) = 0
<1>1. PacketsOn(key) = {}
  BY NoPacketsOn
<1>2. \A i \in SoFar : ~(HasIp(packets[i]) /\ Ends(packets[i]) \in {key[2], Turned(key[2])})
  <2> SUFFICES ASSUME NEW i \in SoFar, HasIp(packets[i]),
                      Ends(packets[i]) \in {key[2], Turned(key[2])}
               PROVE  FALSE
    OBVIOUS
  <2>1. packets[i] \in Frames
    BY SoFarFrames
  <2>2. Conversation(packets[i]) /\ L3Key(packets[i]) = key
    BY <2>1, EndsOfKey
  <2> QED
    BY <1>1, <2>2 DEF PacketsOn
<1>3. Along(key[2]) = {} /\ Along(Turned(key[2])) = {}
  BY <1>2 DEF Along, Ends
<1> QED
  BY <1>3, FS_EmptySet

LEMMA DirectionsCountedStep ==
  TypeOK /\ ReadAhead /\ FlowsKnown /\ DirectionsCounted /\ [Next]_vars => DirectionsCounted'
<1> SUFFICES ASSUME TypeOK, ReadAhead, FlowsKnown, DirectionsCounted, [Next]_vars,
                    NEW key \in DOMAIN edges', key[1] = "l3"
             PROVE  /\ PacketsOn(key)' # {}
                    /\ edges'[key].forward = Cardinality(Along(key[2])')
                    /\ edges'[key].reverse = Cardinality(Along(Turned(key[2]))')
  BY Zenon DEF DirectionsCounted, Turned
<1>1. TypeOK' /\ key \in EdgeKeys
  <2>1. TypeOK'
    BY TypeStep
  <2> QED
    BY <2>1 DEF TypeOK
<1>2. ASSUME key \in DOMAIN edges
      PROVE  /\ PacketsOn(key) # {}
             /\ edges[key].forward = Cardinality(Along(key[2]))
             /\ edges[key].reverse = Cardinality(Along(Turned(key[2])))
  BY <1>2, Zenon DEF DirectionsCounted, Turned
<1>3. CASE Consume
  <2>1. PICK r : r = packets[position]
    OBVIOUS
  <2>2. r \in Frames
    BY <1>3, <2>1, ConsumedSoFar
  <2>3. PacketsOn(key)' =
          PacketsOn(key) \cup (IF Conversation(r) /\ L3Key(r) = key THEN {position} ELSE {})
    BY <1>3, <2>1, PacketsOnStep
  <2>4. /\ Cardinality(Along(key[2])') = Cardinality(Along(key[2])) + One(HasIp(r) /\ Ends(r) = key[2])
        /\ Cardinality(Along(Turned(key[2]))') =
             Cardinality(Along(Turned(key[2]))) + One(HasIp(r) /\ Ends(r) = Turned(key[2]))
    BY <1>3, <2>1, AlongStep
  <2>5. Cardinality(Along(key[2])) \in Nat /\ Cardinality(Along(Turned(key[2]))) \in Nat
    BY SoFarFinite DEF Along
  <2>6. CASE Conversation(r) /\ L3Key(r) = key
    <3> DEFINE old == EdgeOf(key, r.epoch_ns)
    <3>1. /\ Conversation(r) /\ ~BetweenMachines(r)
          /\ SetEdge(key, L3Edge(old, r))
      BY <1>3, <2>1, <2>6, EdgesAfter
    <3>2. edges'[key] = L3Edge(old, r)
      BY <3>1 DEF SetEdge
    <3>3. /\ edges'[key].forward = old.forward + One(r.ip_src < r.ip_dst)
          /\ edges'[key].reverse = old.reverse + One(r.ip_dst < r.ip_src)
      BY <3>2 DEF L3Edge
    <3>4. /\ old.forward = Cardinality(Along(key[2]))
          /\ old.reverse = Cardinality(Along(Turned(key[2])))
      <4>1. CASE key \in DOMAIN edges
        BY <1>2, <4>1 DEF EdgeOf
      <4>2. CASE key \notin DOMAIN edges
        <5>1. old.forward = 0 /\ old.reverse = 0
          BY <4>2 DEF EdgeOf, NewEdge
        <5> QED
          BY <1>1, <4>2, <5>1, NoneAlong
      <4> QED
        BY <4>1, <4>2
    <3>5. /\ Ends(r) = key[2] <=> r.ip_src < r.ip_dst
          /\ Ends(r) = Turned(key[2]) <=> r.ip_dst < r.ip_src
      BY <1>1, <2>2, <2>6, EndsOfKey
    <3>6. HasIp(r)
      BY <2>6 DEF Conversation
    <3> HIDE DEF old
    <3>7. /\ One(HasIp(r) /\ Ends(r) = key[2]) = One(r.ip_src < r.ip_dst)
          /\ One(HasIp(r) /\ Ends(r) = Turned(key[2])) = One(r.ip_dst < r.ip_src)
      BY <3>5, <3>6 DEF One
    <3>8. PacketsOn(key)' # {}
      BY <2>3, <2>6
    <3> QED
      BY <2>4, <3>3, <3>4, <3>7, <3>8, Zenon
  <2>7. CASE ~(Conversation(r) /\ L3Key(r) = key)
    <3>1. key \in DOMAIN edges /\ edges'[key] = edges[key]
      <4>1. CASE Conversation(r) /\ SetEdge(L3Key(r), L3Edge(EdgeOf(L3Key(r), r.epoch_ns), r))
        BY <2>7, <4>1 DEF SetEdge
      <4>2. CASE SetEdge(L2Key(r), L2Edge(EdgeOf(L2Key(r), r.epoch_ns), r))
        <5>1. key # L2Key(r)
          BY DEF L2Key
        <5> QED
          BY <4>2, <5>1 DEF SetEdge
      <4>3. CASE edges' = edges
        BY <4>3
      <4> QED
        BY <1>3, <2>1, <4>1, <4>2, <4>3, EdgesAfter
    <3>2. ~(HasIp(r) /\ Ends(r) \in {key[2], Turned(key[2])})
      BY <1>1, <2>2, <2>7, EndsOfKey
    <3>3. /\ One(HasIp(r) /\ Ends(r) = key[2]) = 0
          /\ One(HasIp(r) /\ Ends(r) = Turned(key[2])) = 0
      BY <3>2 DEF One
    <3>4. /\ Cardinality(Along(key[2])') = Cardinality(Along(key[2]))
          /\ Cardinality(Along(Turned(key[2]))') = Cardinality(Along(Turned(key[2])))
      BY <2>4, <2>5, <3>3
    <3> QED
      BY <1>2, <2>3, <3>1, <3>4
  <2> QED
    BY <2>6, <2>7
<1>4. CASE ~Consume
  <2>1. /\ PacketsOn(key)' = PacketsOn(key) /\ edges' = edges
        /\ Along(key[2])' = Along(key[2]) /\ Along(Turned(key[2]))' = Along(Turned(key[2]))
    BY <1>4, PacketsOnIdle, AlongIdle, IdleStep
  <2> QED
    BY <1>2, <2>1
<1> QED
  BY <1>3, <1>4

-----------------------------------------------------------------------------
(* CaptureGraph of the whole list                                           *)

LEMMA SameFrames ==
  /\ \A r, s, R : Promise!Claims(r, s, R) = Claims(r, s, R)
  /\ \A r, s, R : Promise!Touched(r, s, R) = Touched(r, s, R)
  /\ \A m, r : Promise!MachineKey(m, r) = MachineKey(m, r)
  /\ \A r : Promise!HasIp(r) = HasIp(r) /\ Promise!Conversation(r) = Conversation(r)
<1>1. \A r, s, R : Promise!Claims(r, s, R) = Claims(r, s, R)
  BY DEF Promise!Claims, Claims, Promise!ClaimSet, ClaimSet, Promise!None, None,
     Promise!IsGroupMac, IsGroupMac, Promise!CouldBeLocal, CouldBeLocal, Promise!Holds, Holds,
     Promise!Covers, Covers, Promise!IsPrivate, IsPrivate
<1>2. \A r : Promise!HasIp(r) = HasIp(r) /\ Promise!Conversation(r) = Conversation(r)
  BY DEF Promise!HasIp, HasIp, Promise!Conversation, Conversation, Promise!None, None
<1>3. \A r, s, R : Promise!Touched(r, s, R) = Touched(r, s, R)
  BY <1>1, <1>2, Zenon DEF Promise!Touched, Touched
<1>4. \A m, r : Promise!MachineKey(m, r) = MachineKey(m, r)
  BY DEF Promise!MachineKey, MachineKey, Promise!VlanOf, VlanOf, Promise!None, None
<1> QED
  BY <1>1, <1>2, <1>3, <1>4

LEMMA SameSurvey ==
  /\ \A S : Promise!SegmentOf(S) = SegmentOf(S)
  /\ \A S, s : Promise!RouterMacs(S, s) = RouterMacs(S, s)
<1>1. \A S : Promise!SegmentOf(S) = SegmentOf(S)
  BY DEF Promise!SegmentOf, SegmentOf, Promise!NamedBy, NamedBy, Promise!None, None,
     Promise!OnLinkPrefixes, OnLinkPrefixes, Promise!IsLocalScope, IsLocalScope
<1>2. \A S, s : Promise!RouterMacs(S, s) = RouterMacs(S, s)
  BY DEF Promise!RouterMacs, RouterMacs, Promise!RoutersIn, RoutersIn, Promise!HasIp, HasIp,
     Promise!None, None, Promise!Forwards, Forwards, Promise!IsGroupMac, IsGroupMac,
     Promise!IsOffSegment, IsOffSegment, Promise!Holds, Holds, Promise!IsLocalScope, IsLocalScope,
     Promise!Covers, Covers, Promise!IsPrivate, IsPrivate
<1> QED
  BY <1>1, <1>2

LEMMA SameChoices ==
  /\ \A T : Promise!Strongest(T) = Strongest(T)
  /\ \A T : Promise!Min(T) = Min(T) /\ Promise!Max(T) = Max(T)
  /\ \A f : Promise!SumFunction(f) = SumFunction(f)
<1>1. \A T : Promise!Strongest(T) = Strongest(T)
  BY DEF Promise!Strongest, Strongest, Promise!BasisRank, BasisRank
<1>2. \A T : Promise!Min(T) = Min(T) /\ Promise!Max(T) = Max(T)
  BY DEF Promise!Min, Min, Promise!Max, Max
<1>3. \A f : Promise!SumFunction(f) = SumFunction(f)
  BY DEF Promise!SumFunction, SumFunction, Promise!SumFunctionOnSet, SumFunctionOnSet,
     Promise!FoldFunctionOnSet, FoldFunctionOnSet, Promise!MapThenFoldSet, MapThenFoldSet
<1> QED
  BY <1>1, <1>2, <1>3

\* How often a frame is in the list.
Occurrences(r) == {i \in DOMAIN packets : packets[i] = r}

LEMMA OccurrencesFinite ==
  ASSUME TypeOK, NEW r
  PROVE  /\ IsFiniteSet(Occurrences(r)) /\ Cardinality(Occurrences(r)) \in Nat
         /\ Cardinality(Occurrences(r)) > 0 <=> r \in Elements(packets)
<1>1. DOMAIN packets = 1 .. Len(packets) /\ Len(packets) \in Nat
  BY DEF TypeOK
<1>2. IsFiniteSet(DOMAIN packets)
  BY <1>1, FS_Interval
<1>3. IsFiniteSet(Occurrences(r)) /\ Cardinality(Occurrences(r)) \in Nat
  <2>1. Occurrences(r) \subseteq DOMAIN packets
    BY DEF Occurrences
  <2> QED
    BY <1>2, <2>1, FS_Subset, FS_CardinalityType
<1>4. Cardinality(Occurrences(r)) = 0 <=> Occurrences(r) = {}
  BY <1>3, FS_EmptySet
<1>5. r \in Elements(packets) <=> Occurrences(r) # {}
  BY DEF Occurrences, Elements
<1> QED
  BY <1>3, <1>4, <1>5

LEMMA SeenAreElements ==
  ASSUME TypeOK
  PROVE  Promise!Seen = Elements(packets)
<1>1. \A r \in Frames : Multiset[r] = Cardinality(Occurrences(r))
  BY DEF Multiset, Occurrences
<1>2. Promise!Seen = {r \in Frames : Multiset[r] > 0}
  BY DEF Promise!Seen
<1>3. Elements(packets) \subseteq Frames
  BY DEF Elements, TypeOK
<1> QED
  BY <1>1, <1>2, <1>3, OccurrencesFinite

LEMMA ListConsumed ==
  ASSUME TypeOK, ReadAhead, Surveyed, Consumed
  PROVE  /\ SoFar = DOMAIN packets
         /\ Promise!Seen = Eaten /\ Eaten \subseteq Frames /\ IsFiniteSet(Eaten)
         /\ Promise!Segment = segment /\ Promise!Routers = routers
<1>1. SoFar = DOMAIN packets
  <2>1. position \in Nat /\ Len(packets) \in Nat /\ DOMAIN packets = 1 .. Len(packets)
    BY DEF TypeOK
  <2>2. position - 1 = Len(packets)
    BY <2>1 DEF ReadAhead, Consumed
  <2> QED
    BY <2>1, <2>2 DEF SoFar
<1>2. Promise!Seen = Eaten
  BY <1>1, SeenAreElements DEF Eaten, Elements
<1>3. segment = SegmentOf(Eaten) /\ routers = RouterMacs(Eaten, segment)
  BY <1>1 DEF Surveyed, Consumed, Eaten, Elements
<1>4. Promise!Segment = segment
  BY <1>2, <1>3, SameSurvey DEF Promise!Segment
<1>5. Promise!Routers = routers
  BY <1>2, <1>3, <1>4, SameSurvey DEF Promise!Routers
<1> QED
  BY <1>1, <1>2, <1>4, <1>5, EatenStep

\* What CaptureGraph says of an address is what the frames consumed say of it.
LEMMA GraphOfFrames ==
  ASSUME TypeOK, ReadAhead, Surveyed, Consumed
  PROVE  /\ Promise!KnownAddresses = KnownIn(Eaten, segment, routers)
         /\ \A a : Promise!Claimed(a) = ClaimedIn(Eaten, a, segment, routers)
         /\ \A a, k : Promise!BasisOf(a, k) = Strongest(BasesIn(Eaten, a, k, segment, routers))
         /\ \A a, k : Promise!LastClaim(a, k) = Max(ClaimTimes(Eaten, a, k, segment, routers))
         /\ \A a : Promise!Sightings(a) = Times(Eaten, a, segment, routers)
<1> DEFINE s == segment
           R == routers
<1>1. Promise!Seen = Eaten /\ Promise!Segment = s /\ Promise!Routers = R
  BY ListConsumed
<1>2. \A r, a : {c \in Promise!ClaimsOf(r) : c.address = a} = ClaimsOn(r, a, s, R)
  BY <1>1, SameFrames DEF Promise!ClaimsOf, ClaimsOn
<1>3. \A m, r : Promise!MachineKey(m, r) = MachineKey(m, r)
  BY SameFrames
<1>4. Promise!KnownAddresses = KnownIn(Eaten, s, R)
  <2>1. \A r : Promise!Touched(r, s, R) = Touched(r, s, R)
    BY SameFrames
  <2> QED
    BY <1>1, <2>1, Zenon DEF Promise!KnownAddresses, KnownIn
<1>5. \A a : Promise!Claimed(a) = ClaimedIn(Eaten, a, s, R)
  <2> SUFFICES ASSUME NEW a
               PROVE  Promise!Claimed(a) = ClaimedIn(Eaten, a, s, R)
    OBVIOUS
  <2> DEFINE D(r) == {d \in Promise!ClaimsOf(r) : d.address = a}
             F(r) == {Promise!MachineKey(c.mac, r) : c \in D(r)}
  <2>1. \A r : D(r) = ClaimsOn(r, a, s, R)
    BY <1>2
  <2>2. Promise!Claimed(a) = UNION {F(r) : r \in Eaten}
    BY <1>1 DEF Promise!Claimed
  <2> HIDE DEF D
  <2>3. \A r : F(r) = KeysIn(r, a, s, R)
    BY <1>3, <2>1 DEF KeysIn
  <2> HIDE DEF F
  <2> QED
    BY <2>2, <2>3 DEF ClaimedIn
<1>6. \A a, k : Promise!BasisOf(a, k) = Strongest(BasesIn(Eaten, a, k, s, R))
  <2> SUFFICES ASSUME NEW a, NEW k
               PROVE  Promise!BasisOf(a, k) = Strongest(BasesIn(Eaten, a, k, s, R))
    OBVIOUS
  <2> DEFINE D(r) == {d \in Promise!ClaimsOf(r) : d.address = a /\ Promise!MachineKey(d.mac, r) = k}
             F(r) == {c.basis : c \in D(r)}
  <2>1. \A r : D(r) = {d \in ClaimsOn(r, a, s, R) : MachineKey(d.mac, r) = k}
    BY <1>1, <1>3, SameFrames DEF Promise!ClaimsOf, ClaimsOn
  <2>2. Promise!BasisOf(a, k) = Promise!Strongest(UNION {F(r) : r \in Eaten})
    BY <1>1 DEF Promise!BasisOf
  <2> HIDE DEF D
  <2>3. \A r : F(r) = BasesBy(r, a, k, s, R)
    BY <2>1 DEF BasesBy
  <2> HIDE DEF F
  <2>4. UNION {F(r) : r \in Eaten} = BasesIn(Eaten, a, k, s, R)
    BY <2>3 DEF BasesIn
  <2> QED
    BY <2>2, <2>4, SameChoices
<1>7. \A a, k : Promise!LastClaim(a, k) = Max(ClaimTimes(Eaten, a, k, s, R))
  <2> SUFFICES ASSUME NEW a, NEW k
               PROVE  Promise!LastClaim(a, k) = Max(ClaimTimes(Eaten, a, k, s, R))
    OBVIOUS
  <2>1. \A r : Promise!Bears(r, a, k) <=> k \in KeysIn(r, a, s, R)
    BY <1>1, <1>3, SameFrames DEF Promise!Bears, Promise!ClaimsOf, KeysIn, ClaimsOn
  <2>2. Promise!LastClaim(a, k) = Promise!Max(ClaimTimes(Eaten, a, k, s, R))
    BY <1>1, <2>1, Zenon DEF Promise!LastClaim, ClaimTimes
  <2> QED
    BY <2>2, SameChoices
<1>8. \A a : Promise!Sightings(a) = Times(Eaten, a, s, R)
  <2>1. \A r : Promise!Touched(r, s, R) = Touched(r, s, R)
    BY SameFrames
  <2> QED
    BY <1>1, <2>1 DEF Promise!Sightings, Times
<1> QED
  BY <1>4, <1>5, <1>6, <1>7, <1>8

-----------------------------------------------------------------------------
(* The binding in effect                                                    *)

LEMMA OutranksOrder ==
  ASSUME NEW b, IsDict(b, MachineKeys, Binding)
  PROVE  /\ \A i, j \in DOMAIN b : Outranks(b, i, j) \/ Outranks(b, j, i)
         /\ \A i, j, k \in DOMAIN b : Outranks(b, i, j) /\ Outranks(b, j, k) => Outranks(b, i, k)
         /\ \A i, j \in DOMAIN b : Outranks(b, i, j) /\ Outranks(b, j, i) => i = j
<1> DEFINE D == DOMAIN b
           rank(i) == BasisRank[b[i].basis]
           last(i) == b[i].window.last
<1>1. \A i \in D : b[i] \in Binding
  BY DEF IsDict
<1>2. \A i \in D : rank(i) \in Int /\ last(i) \in Int
  <2>1. \A i \in D : b[i].basis \in Bases /\ last(i) \in Int
    BY <1>1 DEF Binding, Window
  <2>2. \A c \in Bases : BasisRank[c] \in Int
    BY DEF Bases, BasisRank
  <2> QED
    BY <2>1, <2>2
<1>3. \A i \in D : i[1] \in Int /\ i[2] \in Int /\ i = <<i[1], i[2]>>
  BY KindsAssumption DEF IsDict, MachineKeys, Maybe, None
<1>4. \A i, j : Outranks(b, i, j) <=>
        \/ rank(i) > rank(j)
        \/ rank(i) = rank(j) /\ last(i) > last(j)
        \/ rank(i) = rank(j) /\ last(i) = last(j)
             /\ (j = i \/ j[1] < i[1] \/ (j[1] = i[1] /\ j[2] < i[2]))
  BY DEF Outranks, KeyBefore
<1> HIDE DEF rank, last
<1>5. \A i, j \in D : Outranks(b, i, j) \/ Outranks(b, j, i)
  BY <1>2, <1>3, <1>4
<1>6. \A i, j, k \in D : Outranks(b, i, j) /\ Outranks(b, j, k) => Outranks(b, i, k)
  BY <1>2, <1>3, <1>4
<1>7. \A i, j \in D : Outranks(b, i, j) /\ Outranks(b, j, i) => i = j
  BY <1>2, <1>3, <1>4
<1> QED
  BY <1>5, <1>6, <1>7

\* The binding that outranks the others exists and is the only one.
LEMMA InEffectIs ==
  ASSUME NEW b, IsDict(b, MachineKeys, Binding), IsFiniteSet(DOMAIN b), DOMAIN b # {}
  PROVE  /\ InEffect(b) \in DOMAIN b
         /\ \A k \in DOMAIN b :
              k = InEffect(b) <=> \A j \in DOMAIN b \ {k} : Outranks(b, k, j)
<1> DEFINE D == DOMAIN b
           C == {T \in SUBSET D : T = {} \/ \E k \in T : \A j \in T : Outranks(b, k, j)}
           m == InEffect(b)
<1>1. /\ \A i, j \in D : Outranks(b, i, j) \/ Outranks(b, j, i)
      /\ \A i, j, k \in D : Outranks(b, i, j) /\ Outranks(b, j, k) => Outranks(b, i, k)
      /\ \A i, j \in D : Outranks(b, i, j) /\ Outranks(b, j, i) => i = j
  BY OutranksOrder
<1>2. \A T \in SUBSET D : \A x \in D : T \in C /\ x \notin T => T \cup {x} \in C
  <2> SUFFICES ASSUME NEW T \in SUBSET D, NEW x \in D, T \in C
               PROVE  \E k \in T \cup {x} : \A j \in T \cup {x} : Outranks(b, k, j)
    OBVIOUS
  <2>1. CASE T = {}
    BY <1>1, <2>1
  <2>2. CASE T # {}
    <3>1. PICK k \in T : \A j \in T : Outranks(b, k, j)
      BY <2>2
    <3>2. CASE Outranks(b, k, x)
      BY <3>1, <3>2
    <3>3. CASE Outranks(b, x, k)
      BY <1>1, <3>1, <3>3
    <3> QED
      BY <1>1, <3>2, <3>3
  <2> QED
    BY <2>1, <2>2
<1>3. {} \in C /\ IsFiniteSet(D) /\ D # {}
  OBVIOUS
<1> HIDE DEF C
<1>4. D \in C
  BY <1>2, <1>3, SetInduction
<1>5. \E k \in D : \A j \in D : Outranks(b, k, j)
  BY <1>3, <1>4 DEF C
<1>6. m \in D /\ \A j \in D : Outranks(b, m, j)
  BY <1>5 DEF InEffect
<1> HIDE DEF m, D
<1>7. \A k \in D : k = m <=> \A j \in D \ {k} : Outranks(b, k, j)
  BY <1>1, <1>6
<1> QED
  BY <1>6, <1>7 DEF m, D

\* Finitely many frames claim finitely many machines.
LEMMA ClaimedFinite ==
  ASSUME NEW S, IsFiniteSet(S), NEW a, NEW s, NEW R
  PROVE  IsFiniteSet(ClaimedIn(S, a, s, R))
<1> DEFINE h == [r \in S |-> KeysIn(r, a, s, R)]
<1>1. \A r : IsFiniteSet(KeysIn(r, a, s, R))
  <2> SUFFICES ASSUME NEW r PROVE IsFiniteSet(KeysIn(r, a, s, R))
    OBVIOUS
  <2> DEFINE A == {MachineKey(r.arp_reply_mac, r)} \cup {MachineKey(r.ndp_advertised_mac, r)}
             B == {MachineKey(r.dhcp_assigned_mac, r)} \cup {MachineKey(r.eth_src, r)}
  <2>1. KeysIn(r, a, s, R) \subseteq A \cup B
    BY DEF KeysIn, ClaimsOn, Claims, ClaimSet
  <2>2. IsFiniteSet(A) /\ IsFiniteSet(B)
    BY FS_Singleton, FS_Union
  <2>3. IsFiniteSet(A \cup B)
    BY <2>2, FS_Union
  <2> QED
    BY <2>1, <2>3, FS_Subset
<1>2. ClaimedIn(S, a, s, R) = UNION {h[r] : r \in S}
  BY DEF ClaimedIn
<1>3. \A r \in S : IsFiniteSet(h[r])
  BY <1>1
<1> HIDE DEF h
<1>4. IsFiniteSet({h[r] : r \in S})
  BY ValuesFinite
<1> QED
  BY <1>2, <1>3, <1>4, FS_UNION

\* At the end: everything is told, and every claimed key is a machine.
Ready == Told /\ Consumed /\ BoundKeys \subseteq DOMAIN machines

LEMMA BeatsIsOutranks ==
  ASSUME Ready, NEW a \in DOMAIN addresses
  PROVE  /\ DOMAIN addresses[a].bindings = Promise!Claimed(a)
         /\ IsDict(addresses[a].bindings, MachineKeys, Binding)
         /\ IsFiniteSet(DOMAIN addresses[a].bindings)
         /\ \A k, j \in Promise!Claimed(a) :
              j # k => (Promise!Beats(a, k, j) <=> Outranks(addresses[a].bindings, k, j))
<1> DEFINE b == addresses[a].bindings
           D == ClaimedIn(Eaten, a, segment, routers)
<1>1. AccTells(addresses[a], Eaten, a, segment, routers)
  BY DEF Ready, Told, AddressesTold
<1>2. DOMAIN b = D
  BY <1>1 DEF AccTells
<1>3. Promise!Claimed(a) = D
  BY GraphOfFrames DEF Ready, Told
<1>4. IsDict(b, MachineKeys, Binding)
  BY DEF Ready, Told, TypeOK, IsAddressAcc
<1>5. IsFiniteSet(D)
  <2>1. IsFiniteSet(Eaten)
    BY EatenStep DEF Ready, Told
  <2> QED
    BY <2>1, ClaimedFinite
<1>6. \A k \in D : /\ Promise!BasisRank[Promise!BasisOf(a, k)] = BasisRank[b[k].basis]
                   /\ Promise!LastClaim(a, k) = b[k].window.last
  <2>1. \A k \in D : /\ b[k].basis = Strongest(BasesIn(Eaten, a, k, segment, routers))
                     /\ b[k].window.last = Max(ClaimTimes(Eaten, a, k, segment, routers))
    BY <1>1 DEF AccTells
  <2>2. \A k : /\ Promise!BasisOf(a, k) = Strongest(BasesIn(Eaten, a, k, segment, routers))
               /\ Promise!LastClaim(a, k) = Max(ClaimTimes(Eaten, a, k, segment, routers))
    BY GraphOfFrames DEF Ready, Told
  <2>3. Promise!BasisRank = BasisRank
    BY DEF Promise!BasisRank, BasisRank
  <2> QED
    BY <2>1, <2>2, <2>3, Zenon
<1> HIDE DEF b, D
<1>7. \A k, j \in D : j # k => (Promise!Beats(a, k, j) <=> Outranks(b, k, j))
  BY <1>6 DEF Promise!Beats, Outranks, KeyBefore
<1> QED
  BY <1>2, <1>3, <1>4, <1>5, <1>7 DEF b

\* The id of a node belongs to the machine CaptureGraph names, or to none.
LEMMA MachineShown ==
  ASSUME Ready, NEW a \in DOMAIN addresses
  PROVE  {k \in DOMAIN machines : MachineId(k) = Bound(a)} = Promise!MachineOf(a)
<1> DEFINE b == addresses[a].bindings
           D == DOMAIN b
           m == InEffect(b)
<1>1. /\ Promise!Claimed(a) = D /\ IsDict(b, MachineKeys, Binding) /\ IsFiniteSet(D)
      /\ \A k, j \in D : j # k => (Promise!Beats(a, k, j) <=> Outranks(b, k, j))
  BY BeatsIsOutranks
<1>2. D \subseteq DOMAIN machines
  BY DEF Ready, Told, BoundKeys
<1>3. CASE D = {}
  <2>1. Bound(a) = <<>>
    BY <1>3 DEF Bound, NoMachine
  <2>2. \A k : MachineId(k) # <<>>
    BY DEF MachineId
  <2>3. Promise!MachineOf(a) = {}
    BY <1>1, <1>3 DEF Promise!MachineOf
  <2> QED
    BY <2>1, <2>2, <2>3
<1>4. CASE D # {}
  <2>1. m \in D /\ \A k \in D : k = m <=> \A j \in D \ {k} : Outranks(b, k, j)
    BY <1>1, <1>4, InEffectIs
  <2>2. Bound(a) = MachineId(m)
    BY <1>4 DEF Bound
  <2> HIDE DEF m, D, b
  <2>3. \A k \in DOMAIN machines : MachineId(k) = MachineId(m) => k = m
    BY <1>2, <2>1, IdsDiffer DEF Ready, Told
  <2>4. {k \in DOMAIN machines : MachineId(k) = Bound(a)} = {m}
    BY <1>2, <2>1, <2>2, <2>3
  <2>5. Promise!MachineOf(a) = {k \in D : \A j \in D \ {k} : Promise!Beats(a, k, j)}
    BY <1>1 DEF Promise!MachineOf
  <2>6. \A k \in D : (\A j \in D \ {k} : Promise!Beats(a, k, j)) <=> k = m
    BY <1>1, <2>1
  <2>7. Promise!MachineOf(a) = {m}
    BY <2>1, <2>5, <2>6
  <2> QED
    BY <2>4, <2>7
<1> QED
  BY <1>3, <1>4

\* The rungs of classify_locality, read as one condition.
LEMMA LocalityShown ==
  ASSUME Ready, NEW a \in DOMAIN addresses
  PROVE  LocalityOf(a).is_local = Promise!IsLocalAddress(a)
<1> DEFINE seen == addresses[a].seen_on_segment
           link == Covers(segment, a)
           bound == addresses[a].sourced_from_macs \ routers # {}
           D == ClaimedIn(Eaten, a, segment, routers)
<1>1. AccTells(addresses[a], Eaten, a, segment, routers)
  BY DEF Ready, Told, AddressesTold
<1>2. seen = Holds(segment, a) /\ addresses[a].sourced_from_macs = {k[1] : k \in D}
  BY <1>1 DEF AccTells
<1>3. Promise!Claimed(a) = D
  BY GraphOfFrames DEF Ready, Told
<1>4. bound <=> \E k \in D : k[1] \notin routers
  BY <1>2
<1>5. Promise!Segment = segment /\ Promise!Routers = routers
  BY ListConsumed DEF Ready, Told
<1>6. /\ Promise!Holds(segment, a) = Holds(segment, a)
      /\ Promise!Covers(segment, a) = Covers(segment, a)
      /\ Promise!IsPrivate(a) = IsPrivate(a)
  BY DEF Promise!Holds, Holds, Promise!Covers, Covers, Promise!IsPrivate, IsPrivate, Promise!None, None
<1>7. Promise!IsLocalAddress(a) =
        (/\ Scope[a] # "multicast"
         /\ \/ Scope[a] \in {"loopback", "link_local"}
            \/ seen \/ link
            \/ IsPrivate(a) /\ bound)
  BY <1>2, <1>3, <1>4, <1>5, <1>6 DEF Promise!IsLocalAddress
<1>8. LocalityOf(a) = ClassifyLocality(a, seen, link, bound)
  BY DEF LocalityOf
<1>9. Scope[a] \in Scopes
  BY ValuesAssumption DEF Ready, Told, TypeOK
<1>10. seen \in BOOLEAN
  BY DEF Ready, Told, TypeOK, IsAddressAcc
<1>11. link \in BOOLEAN /\ bound \in BOOLEAN
  BY DEF Covers
<1> HIDE DEF seen, link, bound
<1>12. ClassifyLocality(a, seen, link, bound).is_local =
        (/\ Scope[a] # "multicast"
         /\ \/ Scope[a] \in {"loopback", "link_local"}
            \/ seen \/ link
            \/ IsPrivate(a) /\ bound)
  BY <1>9, <1>10, <1>11 DEF ClassifyLocality, Scopes, IsPrivate
<1> QED
  BY <1>7, <1>8, <1>12

LEMMA WindowShown ==
  ASSUME Ready, NEW a \in DOMAIN addresses
  PROVE  addresses[a].window =
           [first |-> Promise!Min(Promise!Sightings(a)), last |-> Promise!Max(Promise!Sightings(a))]
<1> DEFINE T == Times(Eaten, a, segment, routers)
<1>1. AccTells(addresses[a], Eaten, a, segment, routers)
  BY DEF Ready, Told, AddressesTold
<1>2. addresses[a].window.first = Min(T) /\ addresses[a].window.last = Max(T)
  BY <1>1 DEF AccTells
<1>3. Promise!Sightings(a) = T
  BY GraphOfFrames DEF Ready, Told
<1>4. Promise!Min(T) = Min(T) /\ Promise!Max(T) = Max(T)
  BY SameChoices
<1>5. addresses[a].window \in Window
  BY DEF Ready, Told, TypeOK, IsAddressAcc
<1> HIDE DEF T
<1> QED
  BY <1>2, <1>3, <1>4, <1>5 DEF Window

-----------------------------------------------------------------------------
(* The traffic                                                              *)

\* f counts the members of I by the value h gives them, and K has every value.
Classes(f, K, h, I) ==
  /\ \A i \in I : h[i] \in K
  /\ \A k \in K : f[k] = Cardinality({i \in I : h[i] = k})

\* Counting by classes counts everything.
LEMMA SumOfClasses ==
  ASSUME NEW K, IsFiniteSet(K), NEW I, IsFiniteSet(I), NEW h, NEW f,
         Classes(f, K, h, I)
  PROVE  SumFunctionOnSet(f, K) = Cardinality(I)
<1> DEFINE In(T) == {i \in I : h[i] \in T}
           C == {T \in SUBSET K : SumFunctionOnSet(f, T) = Cardinality(In(T))}
<1>0. /\ \A i \in I : h[i] \in K
      /\ \A k \in K : f[k] = Cardinality({i \in I : h[i] = k})
  BY DEF Classes
<1>1. {} \in C
  <2>1. In({}) = {}
    OBVIOUS
  <2> HIDE DEF In
  <2> QED
    BY <2>1, SumEmpty, FS_EmptySet
<1>2. ASSUME NEW T \in SUBSET K, NEW x \in K, T \in C, x \notin T
      PROVE  T \cup {x} \in C
  <2> DEFINE D == {i \in I : h[i] = x}
  <2>1. IsFiniteSet(T)
    BY FS_Subset
  <2>2. \A k \in K : f[k] \in Nat
    <3>1. \A k \in K : IsFiniteSet({i \in I : h[i] = k})
      BY FS_Subset
    <3> QED
      BY <1>0, <3>1, FS_CardinalityType
  <2>3. SumFunctionOnSet(f, T \cup {x}) = f[x] + SumFunctionOnSet(f, T)
    BY <1>2, <2>1, <2>2, SumAdd
  <2>4. IsFiniteSet(In(T)) /\ IsFiniteSet(D)
    BY FS_Subset
  <2>5. In(T \cup {x}) = In(T) \cup D /\ In(T) \cap D = {}
    BY <1>2
  <2>6. f[x] = Cardinality(D)
    BY <1>0
  <2>7. SumFunctionOnSet(f, T) = Cardinality(In(T))
    BY <1>2
  <2> HIDE DEF In, D
  <2>8. Cardinality(In(T) \cup D) = Cardinality(In(T)) + Cardinality(D) - Cardinality(In(T) \cap D)
    BY <2>4, FS_Union
  <2>9. Cardinality(In(T)) \in Nat /\ Cardinality(D) \in Nat /\ Cardinality({}) = 0
    BY <2>4, FS_CardinalityType, FS_EmptySet
  <2>10. Cardinality(In(T \cup {x})) = Cardinality(In(T)) + Cardinality(D) - 0
    BY <2>5, <2>8, <2>9, Zenon
  <2>11. SumFunctionOnSet(f, T \cup {x}) = Cardinality(D) + Cardinality(In(T))
    BY <2>3, <2>6, <2>7, Zenon
  <2>12. SumFunctionOnSet(f, T \cup {x}) = Cardinality(In(T \cup {x}))
    BY <2>9, <2>10, <2>11
  <2> QED
    BY <2>12
<1>3. K \in C
  <2> HIDE DEF C
  <2> QED
    BY <1>1, <1>2, SetInduction
<1>4. In(K) = I
  BY <1>0
<1> QED
  BY <1>3, <1>4

L3Edges == {k \in DOMAIN edges : k[1] = "l3"}

LEMMA TrafficCounts ==
  ASSUME Ready, NEW d
  PROVE  Promise!PacketsAlong(d) = Cardinality(Along(d))
<1> DEFINE K == {q \in Eaten : HasIp(q) /\ <<q.ip_src, q.ip_dst>> = d}
           f == [r \in K |-> Multiset[r]]
           I == Along(d)
<1>1. Promise!Seen = Eaten /\ SoFar = DOMAIN packets /\ Eaten \subseteq Frames /\ IsFiniteSet(Eaten)
  BY ListConsumed DEF Ready, Told
<1>2. Promise!PacketsAlong(d) = SumFunctionOnSet(f, K)
  <2>1. \A q : Promise!HasIp(q) = HasIp(q)
    BY SameFrames
  <2>2. {q \in Promise!Seen : Promise!HasIp(q) /\ <<q.ip_src, q.ip_dst>> = d} = K
    BY <1>1, <2>1
  <2>3. Promise!PacketsAlong(d) = Promise!SumFunction(f)
    BY <2>2, Zenon DEF Promise!PacketsAlong
  <2>4. Promise!SumFunction(f) = SumFunction(f)
    BY SameChoices
  <2>5. DOMAIN f = K
    OBVIOUS
  <2>6. SumFunction(f) = SumFunctionOnSet(f, DOMAIN f)
    BY DEF SumFunction
  <2> QED
    BY <2>3, <2>4, <2>5, <2>6, Zenon
<1>3. IsFiniteSet(K) /\ K \subseteq Frames
  BY <1>1, FS_Subset
<1>4. IsFiniteSet(I)
  <2>1. I \in SUBSET SoFar
    BY DEF Along
  <2> QED
    BY <2>1, SoFarFinite DEF Ready, Told
<1>5. \A i \in I : packets[i] \in K
  BY DEF Along, Eaten
<1>6. \A k \in K : f[k] = Cardinality({i \in I : packets[i] = k})
  <2> SUFFICES ASSUME NEW k \in K PROVE f[k] = Cardinality({i \in I : packets[i] = k})
    OBVIOUS
  <2>1. f[k] = Cardinality({i \in DOMAIN packets : packets[i] = k})
    BY <1>3 DEF Multiset
  <2>2. {i \in I : packets[i] = k} = {i \in DOMAIN packets : packets[i] = k}
    BY <1>1 DEF Along
  <2> QED
    BY <2>1, <2>2
<1> HIDE DEF K, f, I
<1>7. Classes(f, K, packets, I)
  BY <1>5, <1>6, Zenon DEF Classes
<1>8. SumFunctionOnSet(f, K) = Cardinality(I)
  BY <1>3, <1>4, <1>7, SumOfClasses
<1> QED
  BY <1>2, <1>8 DEF I

\* The ends of the edges are the directions of the conversations.
LEMMA DirectionsShown ==
  ASSUME Ready
  PROVE  Promise!Directions = UNION {{k[2], Turned(k[2])} : k \in L3Edges}
<1> DEFINE E == UNION {{k[2], Turned(k[2])} : k \in L3Edges}
           C == {q \in Eaten : Conversation(q)}
           F == UNION {{Ends(q), Turned(Ends(q))} : q \in C}
<1>1. Promise!Seen = Eaten /\ SoFar = DOMAIN packets /\ Eaten \subseteq Frames
  BY ListConsumed DEF Ready, Told
<1>2. Promise!Directions = F
  <2>1. \A q : Promise!Conversation(q) = Conversation(q)
    BY SameFrames
  <2>2. {q \in Promise!Seen : Promise!Conversation(q)} = C
    BY <1>1, <2>1
  <2>3. \A q : {<<q.ip_src, q.ip_dst>>, <<q.ip_dst, q.ip_src>>} = {Ends(q), Turned(Ends(q))}
    BY DEF Ends, Turned
  <2> HIDE DEF C
  <2> QED
    BY <2>2, <2>3 DEF Promise!Directions
<1>3. L3Edges \subseteq EdgeKeys
  BY DEF L3Edges, Ready, Told, TypeOK
<1>4. \A key \in L3Edges : key[2] = <<key[2][1], key[2][2]>>
  BY <1>3, L3KeyShape DEF L3Edges
<1>5. ASSUME NEW q \in C
      PROVE  \E key \in L3Edges : {Ends(q), Turned(Ends(q))} = {key[2], Turned(key[2])}
  <2> DEFINE key == L3Key(q)
  <2>1. q \in Frames /\ Conversation(q)
    BY <1>1, <1>5
  <2>2. key \in DOMAIN edges
    BY <1>5 DEF Eaten, Ready, Told, FlowsKnown
  <2>3. key \in L3Edges
    BY <2>2 DEF L3Edges, L3Key
  <2>4. Ends(q) \in {key[2], Turned(key[2])}
    BY <1>3, <2>1, <2>3, EndsOfKey DEF L3Edges
  <2>5. key[2] = <<key[2][1], key[2][2]>>
    BY <1>4, <2>3
  <2> HIDE DEF key
  <2>6. {Ends(q), Turned(Ends(q))} = {key[2], Turned(key[2])}
    BY <2>4, <2>5 DEF Turned
  <2> QED
    BY <2>3, <2>6
<1>6. ASSUME NEW key \in L3Edges
      PROVE  \E q \in C : {Ends(q), Turned(Ends(q))} = {key[2], Turned(key[2])}
  <2>1. PacketsOn(key) # {}
    BY <1>6 DEF Ready, Told, DirectionsCounted, L3Edges
  <2>2. PICK i \in SoFar : Conversation(packets[i]) /\ L3Key(packets[i]) = key
    BY <2>1 DEF PacketsOn
  <2>3. packets[i] \in C /\ packets[i] \in Frames
    BY <1>1, <2>2 DEF Eaten
  <2>4. Ends(packets[i]) \in {key[2], Turned(key[2])}
    BY <1>3, <2>2, <2>3, EndsOfKey DEF L3Edges
  <2>5. key[2] = <<key[2][1], key[2][2]>>
    BY <1>4
  <2>6. {Ends(packets[i]), Turned(Ends(packets[i]))} = {key[2], Turned(key[2])}
    BY <2>4, <2>5 DEF Turned
  <2> QED
    BY <2>3, <2>6
<1> DEFINE A(k) == {k[2], Turned(k[2])}
           B(q) == {Ends(q), Turned(Ends(q))}
<1>7. E = UNION {A(k) : k \in L3Edges} /\ F = UNION {B(q) : q \in C}
  OBVIOUS
<1>8. /\ \A q \in C : \E key \in L3Edges : B(q) = A(key)
      /\ \A key \in L3Edges : \E q \in C : B(q) = A(key)
  BY <1>5, <1>6
<1> HIDE DEF A, B, C, E, F
<1>9. E = F
  BY <1>7, <1>8
<1> QED
  BY <1>2, <1>9 DEF E

\* The counter of an edge in one direction, found by its two ends.
LEMMA CounterShown ==
  ASSUME Ready, NEW key \in L3Edges, NEW d \in {key[2], Turned(key[2])}
  PROVE  /\ <<"l3", SortedPair(d[1], d[2])>> = key
         /\ (IF d[1] < d[2] THEN edges[key].forward ELSE edges[key].reverse)
              = Promise!PacketsAlong(d)
<1> DEFINE x == key[2][1]
           y == key[2][2]
<1>1. key \in EdgeKeys /\ key \in DOMAIN edges /\ key[1] = "l3"
  BY DEF L3Edges, Ready, Told, TypeOK
<1>2. key = <<"l3", <<x, y>>>> /\ x \in Nat /\ y \in Nat /\ x < y
  BY <1>1, L3KeyShape
<1>3. key[2] = <<x, y>> /\ Turned(key[2]) = <<y, x>>
  BY <1>2 DEF Turned
<1>4. /\ edges[key].forward = Cardinality(Along(key[2]))
      /\ edges[key].reverse = Cardinality(Along(Turned(key[2])))
  BY <1>1, Zenon DEF Ready, Told, DirectionsCounted, Turned
<1>5. Promise!PacketsAlong(d) = Cardinality(Along(d))
  BY TrafficCounts
<1> HIDE DEF x, y
<1>6. CASE d = key[2]
  <2>1. d[1] = x /\ d[2] = y
    BY <1>3, <1>6
  <2> QED
    BY <1>2, <1>4, <1>5, <1>6, <2>1 DEF SortedPair
<1>7. CASE d = Turned(key[2])
  <2>1. d[1] = y /\ d[2] = x
    BY <1>3, <1>7
  <2>2. ~(d[1] < d[2])
    BY <1>2, <2>1
  <2> QED
    BY <1>2, <1>4, <1>5, <1>7, <2>1, <2>2 DEF SortedPair
<1> QED
  BY <1>6, <1>7

-----------------------------------------------------------------------------
(* The document                                                             *)

LEMMA PairsAreDirections ==
  ASSUME Ready, Finish
  PROVE  /\ DOMAIN document'.edges = DOMAIN edges
         /\ \A k \in DOMAIN edges : /\ document'.edges[k].forward = edges[k].forward
                                    /\ document'.edges[k].reverse = edges[k].reverse
         /\ PairsShown' = Promise!Directions
<1>1. document'.edges = [e \in DOMAIN edges |-> BuildEdge(e)]
  BY DEF Finish
<1>2. \A k \in L3Edges : /\ k[1] = "l3" /\ k[2] = <<k[2][1], k[2][2]>>
  <2>1. L3Edges \subseteq EdgeKeys /\ \A k \in L3Edges : k[1] = "l3"
    BY DEF L3Edges, Ready, Told, TypeOK
  <2> QED
    BY <2>1, L3KeyShape
<1>3. \A k \in L3Edges : document'.edges[k].endpoints = k[2]
  <2>1. \A k \in L3Edges : document'.edges[k] = BuildEdge(k)
    BY <1>1 DEF L3Edges
  <2>2. \A k \in L3Edges : BuildEdge(k).endpoints = <<k[2][1], k[2][2]>>
    BY <1>2 DEF BuildEdge, EndpointId
  <2> QED
    BY <1>2, <2>1, <2>2
<1>4. {j \in DOMAIN document'.edges : j[1] = "l3"} = L3Edges
  BY <1>1 DEF L3Edges
<1>5. PairsShown' = UNION {{k[2], Turned(k[2])} : k \in L3Edges}
  <2> DEFINE P(e) == {e.endpoints, <<e.endpoints[2], e.endpoints[1]>>}
             G == document'.edges
  <2>1. PairsShown' = UNION {P(e) : e \in {G[k] : k \in L3Edges}}
    BY <1>4, Zenon DEF PairsShown
  <2>2. \A k \in L3Edges : P(G[k]) = {k[2], Turned(k[2])}
    BY <1>3 DEF Turned
  <2> HIDE DEF P, G
  <2> QED
    BY <2>1, <2>2
<1>6. PairsShown' = Promise!Directions
  BY <1>5, DirectionsShown
<1>7. \A k \in DOMAIN edges : /\ document'.edges[k].forward = edges[k].forward
                              /\ document'.edges[k].reverse = edges[k].reverse
  BY <1>1 DEF BuildEdge
<1> QED
  BY <1>1, <1>6, <1>7

LEMMA NodesShown ==
  ASSUME Ready, Finish
  PROVE  /\ DOMAIN document'.nodes = DOMAIN addresses
         /\ DOMAIN addresses = Promise!KnownAddresses
         /\ \A a \in DOMAIN addresses :
              /\ KeysOf(document.nodes[a].machine_id)' = Promise!MachineOf(a)
              /\ document'.nodes[a].locality.is_local = Promise!IsLocalAddress(a)
              /\ document'.nodes[a].window =
                   [first |-> Promise!Min(Promise!Sightings(a)),
                    last |-> Promise!Max(Promise!Sightings(a))]
<1>1. /\ document'.nodes = [a \in DOMAIN addresses |-> BuildNode(a)]
      /\ document'.machines = [k \in DOMAIN machines |-> BuildMachine(k)]
  BY DEF Finish
<1>2. DOMAIN addresses = Promise!KnownAddresses
  BY GraphOfFrames DEF Ready, Told, AddressesTold
<1>3. \A a \in DOMAIN addresses :
        /\ document'.nodes[a].machine_id = Bound(a)
        /\ document'.nodes[a].locality = LocalityOf(a)
        /\ document'.nodes[a].window = addresses[a].window
  BY <1>1 DEF BuildNode
<1>4. \A k \in DOMAIN machines : document'.machines[k].id = MachineId(k)
  BY <1>1 DEF BuildMachine
<1>5. ASSUME NEW a \in DOMAIN addresses
      PROVE  KeysOf(document.nodes[a].machine_id)' = Promise!MachineOf(a)
  <2>1. KeysOf(document.nodes[a].machine_id)'
          = {k \in DOMAIN machines : MachineId(k) = Bound(a)}
    BY <1>1, <1>3, <1>4 DEF KeysOf
  <2> QED
    BY <2>1, MachineShown
<1>6. DOMAIN document'.nodes = DOMAIN addresses
  BY <1>1
<1>7. ASSUME NEW a \in DOMAIN addresses
      PROVE  /\ document'.nodes[a].locality.is_local = Promise!IsLocalAddress(a)
             /\ document'.nodes[a].window =
                   [first |-> Promise!Min(Promise!Sightings(a)),
                    last |-> Promise!Max(Promise!Sightings(a))]
  <2>1. document'.nodes[a].locality = LocalityOf(a) /\ document'.nodes[a].window = addresses[a].window
    BY <1>3
  <2>2. document'.nodes[a].locality.is_local = LocalityOf(a).is_local
    BY <2>1, Zenon
  <2> QED
    BY <2>1, <2>2, LocalityShown, WindowShown, Zenon
<1> QED
  BY <1>2, <1>5, <1>6, <1>7

LEMMA GraphShown ==
  ASSUME Ready, Finish
  PROVE  Graph' = Promise!GraphOf
<1> DEFINE K == Promise!KnownAddresses
           n == document'.nodes
           MO(a) == KeysOf(document.nodes[a].machine_id)'
           TA(d) == TrafficAlong(d[1], d[2])'
<1>1. Graph' = [machine_of |-> [a \in DOMAIN n |-> MO(a)],
                is_local |-> [a \in DOMAIN n |-> n[a].locality.is_local],
                window |-> [a \in DOMAIN n |-> n[a].window],
                traffic |-> [d \in PairsShown' |-> TA(d)]]
  BY DEF Graph
<1>2. DOMAIN n = K
  BY NodesShown
<1>3. \A a \in K : /\ MO(a) = Promise!MachineOf(a)
                   /\ n[a].locality.is_local = Promise!IsLocalAddress(a)
                   /\ n[a].window = [first |-> Promise!Min(Promise!Sightings(a)),
                                     last |-> Promise!Max(Promise!Sightings(a))]
  BY NodesShown
<1>4. PairsShown' = Promise!Directions
  BY PairsAreDirections
<1>5. \A d \in Promise!Directions : TA(d) = Promise!PacketsAlong(d)
  <2> SUFFICES ASSUME NEW d \in Promise!Directions
               PROVE  TA(d) = Promise!PacketsAlong(d)
    OBVIOUS
  <2>1. PICK key \in L3Edges : d \in {key[2], Turned(key[2])}
    BY DirectionsShown
  <2>2. /\ <<"l3", SortedPair(d[1], d[2])>> = key
        /\ (IF d[1] < d[2] THEN edges[key].forward ELSE edges[key].reverse)
             = Promise!PacketsAlong(d)
    BY <2>1, CounterShown
  <2>3. TA(d) = IF d[1] < d[2] THEN document'.edges[key].forward
                               ELSE document'.edges[key].reverse
    BY <2>2, Zenon DEF TrafficAlong, SortedPair
  <2>4. key \in DOMAIN edges
    BY <2>1 DEF L3Edges
  <2>5. /\ document'.edges[key].forward = edges[key].forward
        /\ document'.edges[key].reverse = edges[key].reverse
    BY <2>4, PairsAreDirections
  <2>6. CASE d[1] < d[2]
    BY <2>2, <2>3, <2>5, <2>6
  <2>7. CASE ~(d[1] < d[2])
    BY <2>2, <2>3, <2>5, <2>7
  <2> QED
    BY <2>6, <2>7
<1> HIDE DEF K, n, MO, TA
<1>6. /\ [a \in DOMAIN n |-> MO(a)] = [a \in K |-> Promise!MachineOf(a)]
      /\ [a \in DOMAIN n |-> n[a].window] =
           [a \in K |-> [first |-> Promise!Min(Promise!Sightings(a)),
                         last |-> Promise!Max(Promise!Sightings(a))]]
      /\ [d \in PairsShown' |-> TA(d)] = [d \in Promise!Directions |-> Promise!PacketsAlong(d)]
  BY <1>2, <1>3, <1>4, <1>5
<1>7. [a \in DOMAIN n |-> n[a].locality.is_local] = [a \in K |-> Promise!IsLocalAddress(a)]
  BY <1>2, <1>3, Zenon
<1> QED
  BY <1>1, <1>6, <1>7, Zenon DEF Promise!GraphOf, K

-----------------------------------------------------------------------------
(* The refinement                                                           *)

LEMMA NothingPublished ==
  ASSUME document = NoDocument
  PROVE  Graph = Promise!Unpublished
<1> DEFINE n == document.nodes
<1>1. DOMAIN n = {} /\ DOMAIN document.machines = {} /\ DOMAIN document.edges = {}
  BY DEF NoDocument
<1>2. PairsShown = {}
  BY <1>1 DEF PairsShown
<1>3. [d \in PairsShown |-> TrafficAlong(d[1], d[2])] = <<>>
  BY <1>2
<1>4. /\ [a \in DOMAIN n |-> KeysOf(n[a].machine_id)] = <<>>
      /\ [a \in DOMAIN n |-> n[a].locality.is_local] = <<>>
      /\ [a \in DOMAIN n |-> n[a].window] = <<>>
  BY <1>1
<1> QED
  BY <1>3, <1>4 DEF Graph, Promise!Unpublished

\* A graph without addresses has no traffic either: it is the unpublished one.
LEMMA NoAddresses ==
  ASSUME Ready, Promise!KnownAddresses = {}
  PROVE  Promise!GraphOf = Promise!Unpublished
<1>1. Promise!Seen = Eaten /\ KnownIn(Eaten, segment, routers) = {}
  BY ListConsumed, GraphOfFrames DEF Ready, Told
<1>2. \A r \in Eaten : ~HasIp(r)
  <2>1. \A r \in Eaten : Touched(r, segment, routers) = {}
    BY <1>1 DEF KnownIn
  <2>2. \A r : HasIp(r) => r.ip_src \in Touched(r, segment, routers)
    BY DEF Touched
  <2> QED
    BY <2>1, <2>2
<1>3. \A r : Promise!Conversation(r) = Conversation(r)
  BY SameFrames
<1>4. Promise!Directions = {}
  BY <1>1, <1>2, <1>3 DEF Promise!Directions, Conversation
<1>5. [d \in Promise!Directions |-> Promise!PacketsAlong(d)] = <<>>
  BY <1>4
<1>6. /\ [a \in Promise!KnownAddresses |-> Promise!MachineOf(a)] = <<>>
      /\ [a \in Promise!KnownAddresses |-> Promise!IsLocalAddress(a)] = <<>>
      /\ [a \in Promise!KnownAddresses |->
            [first |-> Promise!Min(Promise!Sightings(a)),
             last |-> Promise!Max(Promise!Sightings(a))]] = <<>>
  OBVIOUS
<1> QED
  BY <1>5, <1>6 DEF Promise!GraphOf, Promise!Unpublished

\* One more record in the list is one more in the multiset.
LEMMA OneMore ==
  ASSUME TypeOK, NEW r \in Frames, packets' = Append(packets, r)
  PROVE  Multiset' = [Multiset EXCEPT ![r] = @ + 1]
<1> DEFINE n == Len(packets) + 1
<1>1. /\ DOMAIN packets' = DOMAIN packets \cup {n} /\ n \notin DOMAIN packets
      /\ packets'[n] = r /\ \A i \in DOMAIN packets : packets'[i] = packets[i]
  BY DEF TypeOK
<1> HIDE DEF n
<1>2. \A q : Occurrences(q)' = Occurrences(q) \cup (IF q = r THEN {n} ELSE {})
  BY <1>1 DEF Occurrences
<1>3. \A q : n \notin Occurrences(q) /\ IsFiniteSet(Occurrences(q)) /\ Cardinality(Occurrences(q)) \in Nat
  BY <1>1, OccurrencesFinite DEF Occurrences
<1>4. ASSUME NEW q
      PROVE  Cardinality(Occurrences(q)') = Cardinality(Occurrences(q)) + (IF q = r THEN 1 ELSE 0)
  <2>1. CASE q = r
    <3>1. Cardinality(Occurrences(q) \cup {n}) = Cardinality(Occurrences(q)) + 1
      BY <1>3, FS_AddElement
    <3> QED
      BY <1>2, <2>1, <3>1
  <2>2. CASE q # r
    BY <1>2, <1>3, <2>2
  <2> QED
    BY <2>1, <2>2
<1>5. /\ Multiset = [q \in Frames |-> Cardinality(Occurrences(q))]
      /\ Multiset' = [q \in Frames |-> Cardinality(Occurrences(q)')]
  BY DEF Multiset, Occurrences
<1> QED
  BY <1>3, <1>4, <1>5

LEMMA ToldInit == Init => Told
<1> SUFFICES ASSUME Init PROVE Told
  OBVIOUS
<1>1. SoFar = {} /\ DOMAIN addresses = {} /\ DOMAIN vlans = {} /\ DOMAIN machines = {} /\ DOMAIN edges = {}
  BY DEF Init, SoFar
<1>2. TypeOK
  BY DEF Init, TypeOK, Phases, IsDict
<1>3. Eaten = {} /\ KnownIn({}, segment, routers) = {}
  BY <1>1 DEF Eaten, KnownIn
<1> QED
  BY <1>1, <1>2, <1>3 DEF Told, Init, ReadAhead, Surveyed, AddressesTold, VlansNoted, FlowsKnown, DirectionsCounted

LEMMA ToldStep == Told /\ [Next]_vars => Told'
  BY TypeStep, ReadAheadStep, SurveyedStep, AddressesToldStep, VlansNotedStep, FlowsKnownStep,
     DirectionsCountedStep DEF Told

LEMMA FinishPublishes ==
  ASSUME Told, Finish
  PROVE  Promise!Publish \/ UNCHANGED <<Multiset, Graph>>
<1>1. Ready
  BY DEF Ready, Finish
<1>2. Graph' = Promise!GraphOf
  BY <1>1, GraphShown
<1>3. document = NoDocument
  BY DEF Told, Surveyed, Finish, Consumed
<1>4. Graph = Promise!Unpublished
  BY <1>3, NothingPublished
<1>5. Multiset' = Multiset
  BY DEF Finish, Multiset
<1>6. CASE Promise!KnownAddresses = {}
  BY <1>1, <1>2, <1>4, <1>5, <1>6, NoAddresses
<1>7. CASE Promise!KnownAddresses # {}
  <2>1. Promise!Seen # {}
    BY <1>7 DEF Promise!KnownAddresses
  <2>2. DOMAIN Promise!GraphOf.machine_of = Promise!KnownAddresses
    BY DEF Promise!GraphOf
  <2>3. DOMAIN Promise!Unpublished.machine_of = {}
    BY DEF Promise!Unpublished
  <2>4. Graph' # Promise!Unpublished
    BY <1>2, <1>7, <2>2, <2>3, Zenon
  <2> QED
    BY <1>2, <1>4, <1>5, <2>1, <2>4 DEF Promise!Publish
<1> QED
  BY <1>6, <1>7

LEMMA PromisedStep == Told /\ [Next]_vars => [Promise!Next]_<<Multiset, Graph>>
<1> SUFFICES ASSUME Told, [Next]_vars
             PROVE  [Promise!Next]_<<Multiset, Graph>>
  OBVIOUS
<1>1. ASSUME packets' = packets, document' = document
      PROVE  UNCHANGED <<Multiset, Graph>>
  BY <1>1 DEF Multiset, Graph, KeysOf, PairsShown, TrafficAlong
<1>2. CASE Read
  <2>1. PICK r \in Frames : packets' = Append(packets, r)
    BY <1>2 DEF Read
  <2>2. document' = document /\ document = NoDocument
    BY <1>2 DEF Read, Told, Surveyed
  <2>3. Graph' = Graph /\ Graph = Promise!Unpublished
    <3>1. Graph' = Graph
      BY <2>2 DEF Graph, KeysOf, PairsShown, TrafficAlong
    <3> QED
      BY <2>2, <3>1, NothingPublished
  <2>4. Multiset' = [Multiset EXCEPT ![r] = @ + 1]
    BY <2>1, OneMore DEF Told
  <2>5. Promise!Observe(r)
    BY <2>3, <2>4 DEF Promise!Observe
  <2> QED
    BY <2>5 DEF Promise!Next
<1>3. CASE Finish
  BY <1>3, FinishPublishes DEF Promise!Next
<1>4. CASE Refuse \/ Survey \/ Consume \/ Crash \/ UNCHANGED vars
  <2>1. packets' = packets /\ document' = document
    BY <1>4 DEF Refuse, Survey, Consume, Crash, vars
  <2> QED
    BY <1>1, <2>1
<1> QED
  BY <1>2, <1>3, <1>4 DEF Next

LEMMA PromisedInit == Init => Promise!Init
<1> SUFFICES ASSUME Init PROVE Promise!Init
  OBVIOUS
<1>1. Graph = Promise!Unpublished
  BY NothingPublished DEF Init
<1>2. \A r \in Frames : {i \in DOMAIN packets : packets[i] = r} = {}
  BY DEF Init
<1>3. Multiset = [r \in Frames |-> 0]
  BY <1>2, FS_EmptySet DEF Multiset
<1> QED
  BY <1>1, <1>3 DEF Promise!Init

\* The tables hold what the frames consumed so far say, in whatever order they came.
THEOREM TablesTell == Spec => []Told
  BY ToldInit, ToldStep, PTL DEF Spec

\* The aggregator implements CaptureGraph.
THEOREM AggregationIsPromised == Spec => Promised
<1>1. Spec => []Told
  BY TablesTell
<1> QED
  BY <1>1, PromisedInit, PromisedStep, PTL DEF Spec, Promised, Promise!Spec
=============================================================================
