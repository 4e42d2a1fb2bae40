----------------------------- MODULE Aggregator -----------------------------
(***************************************************************************)
(* backend/app/aggregation/build.py: build_document and its _Aggregator.   *)
(*                                                                         *)
(* build_document first collects every record the parser yields, then      *)
(* derives the segment and the router MACs from all of them, then consumes *)
(* them one by one into tables (addresses, machines, edges, flows), and    *)
(* finally assembles the document.  A dict of the code is a function whose *)
(* domain is the set of its keys.  Byte totals move with the packet counts *)
(* and are left out, as are vendors, labels and layer-7 names.             *)
(***************************************************************************)
EXTENDS Addressing, FiniteSetsExt

CONSTANT MaxPackets   \* bound on the length of a capture

ASSUME MaxPacketsAssumption == MaxPackets \in Nat

VARIABLES
  phase,       \* how far build_document has come
  packets,     \* the list of records read so far
  position,    \* index of the next record to consume
  segment,     \* Segment: what is on the captured broadcast domain
  routers,     \* _router_macs: MACs that forwarded off-segment traffic
  window,      \* _window: first and last time of the capture
  addresses,   \* _addresses: address -> _AddressAcc
  machines,    \* _machines: (MAC, VLAN) -> the window of its _MachineAcc
  vlans,       \* _vlans_per_mac: MAC -> the VLANs it was seen on
  edges,       \* _edges: (layer, sorted pair) -> _EdgeAcc
  flows,       \* _flows: flow key -> FlowFacts
  document     \* the CaptureDocument once it is built

tables == <<window, addresses, machines, vlans, edges, flows>>

vars == <<phase, packets, position, segment, routers, tables, document>>

-----------------------------------------------------------------------------
(* Accumulators (aggregation/accumulators.py).                              *)

NoWindow == [first |-> None, last |-> None]

At(t) == [first |-> t, last |-> t]

\* Mutation of Extend: a packet out of order does not move the start back.
ExtendForward(w, t) == [w EXCEPT !.last = IF t > w.last THEN t ELSE w.last]

Extend(w, t) ==
  [first |-> IF t < w.first THEN t ELSE w.first,
   last  |-> IF t > w.last THEN t ELSE w.last]

One(b) == IF b THEN 1 ELSE 0

NoHealth ==
  [syn_count |-> 0, syn_ack_count |-> 0, reset_count |-> 0,
   retransmission_count |-> 0, seen_tcp |-> FALSE]

\* failed_handshakes: clamped at zero.
FailedHandshakes(health) ==
  IF health.syn_count > health.syn_ack_count
  THEN health.syn_count - health.syn_ack_count ELSE 0

NewAddress(t) ==
  [window |-> At(t), bindings |-> <<>>, hostnames |-> {},
   seen_on_segment |-> FALSE, sourced_from_macs |-> {}]

NewEdge(t) ==
  [window |-> At(t), forward |-> 0, reverse |-> 0, health |-> NoHealth,
   flows |-> {}, services |-> <<>>]

NewService == [packets |-> 0, flows |-> {}]

NoDocument == [nodes |-> <<>>, machines |-> <<>>, edges |-> <<>>]

-----------------------------------------------------------------------------
(* Reading and the survey of the whole capture.                             *)

Init ==
  /\ phase = "reading"
  /\ packets = <<>>
  /\ position = 1
  /\ segment = [addresses |-> {}, on_link_prefixes |-> {}]
  /\ routers = {}
  /\ window = NoWindow
  /\ addresses = <<>>
  /\ machines = <<>>
  /\ vlans = <<>>
  /\ edges = <<>>
  /\ flows = <<>>
  /\ document = NoDocument

\* list(records): the parser yields one more record.
Read ==
  /\ phase = "reading"
  /\ Len(packets) < MaxPackets
  /\ \E r \in Frames : packets' = Append(packets, r)
  /\ UNCHANGED <<phase, position, segment, routers, tables, document>>

\* "the capture contained no frames this tool could read".
Refuse ==
  /\ phase = "reading"
  /\ packets = <<>>
  /\ phase' = "refused"
  /\ UNCHANGED <<packets, position, segment, routers, tables, document>>

\* Both passes over the whole list that precede the counting pass.
Survey ==
  /\ phase = "reading"
  /\ packets # <<>>
  /\ phase' = "consuming"
  /\ segment' = SegmentOf(Elements(packets))
  /\ routers' = RouterMacs(Elements(packets), SegmentOf(Elements(packets)))
  /\ UNCHANGED <<packets, position, tables, document>>

-----------------------------------------------------------------------------
(* _Aggregator.consume                                                      *)

\* Every MAC of the frame, as a machine on the frame's VLAN.
NoteMacs(r) ==
  LET macs == {r.eth_src, r.eth_dst} \ {None}
      keys == {MachineKey(m, r) : m \in macs}
  IN  /\ machines' = [k \in DOMAIN machines \cup keys |->
                        IF k \notin DOMAIN machines THEN At(r.epoch_ns)
                        ELSE IF k \in keys THEN Extend(machines[k], r.epoch_ns)
                        ELSE machines[k]]
      /\ vlans' = [m \in DOMAIN vlans \cup macs |->
                     (IF m \in DOMAIN vlans THEN vlans[m] ELSE {})
                       \cup (IF m \in macs THEN {VlanOf(r)} ELSE {})]

\* Mutation of Rebound: the evidence of the latest frame replaces the earlier.
ReboundAnew(bindings, claims, r) ==
  LET keys == {MachineKey(c.mac, r) : c \in claims}
  IN  [k \in DOMAIN bindings \cup keys |->
         IF k \notin keys THEN bindings[k]
         ELSE [basis |-> Strongest({c.basis : c \in {d \in claims : MachineKey(d.mac, r) = k}}),
               window |-> At(r.epoch_ns)]]

\* The binding table of one address after the claims a frame makes about it:
\* a binding is never replaced, its basis only ever improves.
Rebound(bindings, claims, r) ==
  LET keys == {MachineKey(c.mac, r) : c \in claims}
      BasesFor(k) == {c.basis : c \in {d \in claims : MachineKey(d.mac, r) = k}}
  IN  [k \in DOMAIN bindings \cup keys |->
         IF k \notin keys THEN bindings[k]
         ELSE IF k \notin DOMAIN bindings
         THEN [basis |-> Strongest(BasesFor(k)), window |-> At(r.epoch_ns)]
         ELSE [basis |-> Strongest(BasesFor(k) \cup {bindings[k].basis}),
               window |-> Extend(bindings[k].window, r.epoch_ns)]]

\* _address, _note_bindings and _note_hostnames on one touched address.
TouchedAcc(acc, a, r) ==
  LET claims == {c \in Claims(r, segment, routers) : c.address = a}
  IN  [window |-> Extend(acc.window, r.epoch_ns),
       bindings |-> Rebound(acc.bindings, claims, r),
       hostnames |-> acc.hostnames \cup {n \in Name : <<a, n>> \in r.hostnames},
       seen_on_segment |-> acc.seen_on_segment \/ Holds(segment, a),
       sourced_from_macs |-> acc.sourced_from_macs \cup {c.mac : c \in claims}]

AccOf(a, t) == IF a \in DOMAIN addresses THEN addresses[a] ELSE NewAddress(t)

NoteAddresses(r) ==
  addresses' =
    [a \in DOMAIN addresses \cup Touched(r, segment, routers) |->
       IF a \in Touched(r, segment, routers)
       THEN TouchedAcc(AccOf(a, r.epoch_ns), a, r)
       ELSE addresses[a]]

\* Mutation of SortedPair: the pair keeps the direction of the packet.
UnsortedPair(x, y) == <<x, y>>

SortedPair(x, y) == IF x < y THEN <<x, y>> ELSE <<y, x>>

HealthAfter(h, r) ==
  IF r.transport # "tcp" THEN h
  ELSE [seen_tcp |-> TRUE,
        syn_count |-> h.syn_count + One(IsSynOnly(r)),
        syn_ack_count |-> h.syn_ack_count + One(IsSynAck(r)),
        reset_count |-> h.reset_count + One("rst" \in r.flags),
        retransmission_count |->
          h.retransmission_count + One("retransmission" \in r.flags)]

\* Mutation of ServicesAfter: only the first packet of a flow is counted.
ServicesPerFlow(services, r, port) ==
  IF port = None \/ r.transport = "none" THEN services
  ELSE LET key == <<r.transport, port>>
           old == IF key \in DOMAIN services THEN services[key] ELSE NewService
           new == [packets |-> old.packets + One(FlowKey(r) \notin old.flows),
                   flows |-> old.flows \cup {FlowKey(r)}]
       IN  [k \in DOMAIN services \cup {key} |-> IF k = key THEN new ELSE services[k]]

\* _note_service: the packet counts for the port its flow has at this moment.
ServicesAfter(services, r, port) ==
  IF port = None \/ r.transport = "none" THEN services
  ELSE LET key == <<r.transport, port>>
           old == IF key \in DOMAIN services THEN services[key] ELSE NewService
           new == [packets |-> old.packets + 1, flows |-> old.flows \cup {FlowKey(r)}]
       IN  [k \in DOMAIN services \cup {key} |-> IF k = key THEN new ELSE services[k]]

\* What the flow of a frame remembers once the frame was observed.
FactsAfter(r) ==
  ObservedBy(IF FlowKey(r) \in DOMAIN flows THEN flows[FlowKey(r)] ELSE OpenedBy(r), r)

EdgeOf(key, t) == IF key \in DOMAIN edges THEN edges[key] ELSE NewEdge(t)

\* An l3 edge after one more packet: its direction, TCP health, flow and service.
L3Edge(old, r) ==
  [window |-> Extend(old.window, r.epoch_ns),
   forward |-> old.forward + One(r.ip_src < r.ip_dst),
   reverse |-> old.reverse + One(r.ip_dst < r.ip_src),
   health |-> HealthAfter(old.health, r),
   flows |-> old.flows \cup {FlowKey(r)},
   services |-> ServicesAfter(old.services, r, ServerPort(FactsAfter(r)))]

\* An l2 edge has no flows, services or TCP health.
L2Edge(old, r) ==
  [window |-> Extend(old.window, r.epoch_ns),
   forward |-> old.forward + One(r.eth_src < r.eth_dst),
   reverse |-> old.reverse + One(r.eth_dst < r.eth_src),
   health |-> old.health, flows |-> old.flows, services |-> old.services]

SetEdge(key, edge) ==
  edges' = [k \in DOMAIN edges \cup {key} |-> IF k = key THEN edge ELSE edges[k]]

L3Key(r) == <<"l3", SortedPair(r.ip_src, r.ip_dst)>>

ConsumeL3(r) ==
  /\ Conversation(r)
  /\ flows' = [k \in DOMAIN flows \cup {FlowKey(r)} |->
                 IF k = FlowKey(r) THEN FactsAfter(r) ELSE flows[k]]
  /\ SetEdge(L3Key(r), L3Edge(EdgeOf(L3Key(r), r.epoch_ns), r))

BetweenMachines(r) ==
  /\ ~HasIp(r)
  /\ r.eth_src # None /\ r.eth_dst # None
  /\ r.eth_src # r.eth_dst

\* The ends are the bare MACs: the VLAN is not part of an l2 edge.
L2Key(r) == <<"l2", SortedPair(r.eth_src, r.eth_dst)>>

ConsumeL2(r) ==
  /\ BetweenMachines(r)
  /\ SetEdge(L2Key(r), L2Edge(EdgeOf(L2Key(r), r.epoch_ns), r))
  /\ UNCHANGED flows

\* A frame to itself, or without two MACs, makes no edge.
ConsumeNoEdge(r) ==
  /\ ~Conversation(r) /\ ~BetweenMachines(r)
  /\ UNCHANGED <<edges, flows>>

ConsumeFrame(r) ==
  /\ window' = IF window = NoWindow THEN At(r.epoch_ns) ELSE Extend(window, r.epoch_ns)
  /\ NoteMacs(r)
  /\ NoteAddresses(r)
  /\ ConsumeL3(r) \/ ConsumeL2(r) \/ ConsumeNoEdge(r)

Consume ==
  /\ phase = "consuming"
  /\ position <= Len(packets)
  /\ ConsumeFrame(packets[position])
  /\ position' = position + 1
  /\ UNCHANGED <<phase, packets, segment, routers, document>>

-----------------------------------------------------------------------------
(* _Aggregator.finish                                                       *)

NoMachine == <<>>

\* Mutation of MachineId: the suffix only from the third VLAN on.
MachineIdFromThree(key) ==
  IF Cardinality(vlans[key[1]]) <= 2 THEN <<key[1]>> ELSE <<key[1], key[2]>>

\* _assign_machine_ids: the plain id unless the MAC was seen on several VLANs.
MachineId(key) ==
  IF Cardinality(vlans[key[1]]) <= 1 THEN <<key[1]>> ELSE <<key[1], key[2]>>

\* The order of the key texts breaks the last tie.
KeyBefore(j, k) == j[1] < k[1] \/ (j[1] = k[1] /\ j[2] < k[2])

\* Mutation of Outranks: a tie between bases is broken by the key alone.
OutranksByKey(bindings, k, j) ==
  LET rank(i) == BasisRank[bindings[i].basis]
  IN  rank(k) > rank(j) \/ (rank(k) = rank(j) /\ (j = k \/ KeyBefore(j, k)))

\* (rank, last_ns, key) of binding j is no greater than that of k.
Outranks(bindings, k, j) ==
  LET rank(i) == BasisRank[bindings[i].basis]
      last(i) == bindings[i].window.last
  IN  \/ rank(k) > rank(j)
      \/ rank(k) = rank(j) /\ last(k) > last(j)
      \/ rank(k) = rank(j) /\ last(k) = last(j) /\ (j = k \/ KeyBefore(j, k))

InEffect(bindings) ==
  CHOOSE k \in DOMAIN bindings : \A j \in DOMAIN bindings : Outranks(bindings, k, j)

\* _resolve_bindings
Bound(a) ==
  IF DOMAIN addresses[a].bindings = {} THEN NoMachine
  ELSE MachineId(InEffect(addresses[a].bindings))

\* _resolve_localities
LocalityOf(a) ==
  ClassifyLocality(a, addresses[a].seen_on_segment, Covers(segment, a),
                   addresses[a].sourced_from_macs \ routers # {})

RouterIds == {MachineId(k) : k \in {j \in DOMAIN machines : j[1] \in routers}}

\* Mutation of PacketsFrom: every address rolls up the forward counter.
PacketsForward(a, key) == edges[key].forward

\* _roll_up_traffic: the l3 edges that end in a, seen from a.
PacketsFrom(a, key) == IF key[2][1] = a THEN edges[key].forward ELSE edges[key].reverse

EdgesAt(a) == {key \in DOMAIN edges : key[1] = "l3" /\ a \in Elements(key[2])}

TrafficOf(a) ==
  [sent |-> SumFunction([key \in EdgesAt(a) |-> PacketsFrom(a, key)]),
   received |-> SumFunction([key \in EdgesAt(a) |->
                               edges[key].forward + edges[key].reverse - PacketsFrom(a, key)]),
   peers |-> (UNION {Elements(key[2]) : key \in EdgesAt(a)}) \ {a}]

BuildNode(a) ==
  [machine_id |-> Bound(a),
   locality |-> LocalityOf(a),
   node_type |-> ClassifyNodeType(a, LocalityOf(a).is_local, Bound(a) \in RouterIds),
   window |-> addresses[a].window,
   hostnames |-> addresses[a].hostnames,
   traffic |-> TrafficOf(a),
   machine_bindings |-> addresses[a].bindings]

NodesOf(key) == {a \in DOMAIN addresses : Bound(a) = MachineId(key)}

BuildMachine(key) ==
  LET mine == NodesOf(key)
  IN  [id |-> MachineId(key),
       node_ids |-> mine,
       window |-> machines[key],
       is_local |-> mine = {} \/ \E a \in mine : LocalityOf(a).is_local,
       hostnames |-> UNION {addresses[a].hostnames : a \in mine},
       traffic |->
         [sent |-> SumFunction([a \in mine |-> TrafficOf(a).sent]),
          received |-> SumFunction([a \in mine |-> TrafficOf(a).received]),
          peers |-> UNION {TrafficOf(a).peers : a \in mine}]]

\* The id an edge carries for one of its ends.
EndpointId(layer, x) == IF layer = "l3" THEN x ELSE <<x>>

BuildEdge(key) ==
  [layer |-> key[1],
   endpoints |-> <<EndpointId(key[1], key[2][1]), EndpointId(key[1], key[2][2])>>,
   window |-> edges[key].window,
   forward |-> edges[key].forward,
   reverse |-> edges[key].reverse,
   flow_count |-> Cardinality(edges[key].flows),
   services |-> edges[key].services,
   tcp_health |-> edges[key].health,
   failed_handshakes |-> FailedHandshakes(edges[key].health)]

BoundKeys == UNION {DOMAIN addresses[a].bindings : a \in DOMAIN addresses}

Consumed == phase = "consuming" /\ position > Len(packets)

Finish ==
  /\ Consumed
  /\ BoundKeys \subseteq DOMAIN machines
  /\ phase' = "built"
  /\ document' = [nodes |-> [a \in DOMAIN addresses |-> BuildNode(a)],
                  machines |-> [k \in DOMAIN machines |-> BuildMachine(k)],
                  edges |-> [e \in DOMAIN edges |-> BuildEdge(e)]]
  /\ UNCHANGED <<packets, position, segment, routers, tables>>

\* machine_ids[key] on a key that _note_macs never registered: KeyError.
Crash ==
  /\ Consumed
  /\ ~(BoundKeys \subseteq DOMAIN machines)
  /\ phase' = "crashed"
  /\ UNCHANGED <<packets, position, segment, routers, tables, document>>

Next == Read \/ Refuse \/ Survey \/ Consume \/ Finish \/ Crash

Spec == Init /\ [][Next]_vars

-----------------------------------------------------------------------------
(* Types                                                                    *)

IsDict(f, K, V) == DOMAIN f \subseteq K /\ f \in [DOMAIN f -> V]

Phases == {"reading", "consuming", "built", "refused", "crashed"}

Window == [first : Nat, last : Nat]

Binding == [basis : Bases, window : Window]

Health ==
  [syn_count : Nat, syn_ack_count : Nat, reset_count : Nat,
   retransmission_count : Nat, seen_tcp : BOOLEAN]

Service == [packets : Nat, flows : SUBSET FlowKeys]

IsAddressAcc(acc) ==
  /\ acc.window \in Window
  /\ IsDict(acc.bindings, MachineKeys, Binding)
  /\ acc.hostnames \subseteq Name
  /\ acc.seen_on_segment \in BOOLEAN
  /\ acc.sourced_from_macs \subseteq Mac

IsEdgeAcc(edge) ==
  /\ edge.window \in Window
  /\ edge.forward \in Nat /\ edge.reverse \in Nat
  /\ edge.health \in Health
  /\ edge.flows \subseteq FlowKeys
  /\ IsDict(edge.services, Transports \X Port, Service)

EdgeKeys ==
  {<<"l3", p>> : p \in {q \in Address \X Address : q[1] < q[2]}}
    \cup {<<"l2", p>> : p \in {q \in Mac \X Mac : q[1] < q[2]}}

\* Every table holds what its annotation in build.py says: keys of the right
\* kind, sorted endpoint pairs, counters that are natural numbers.
TypeOK ==
  /\ phase \in Phases
  /\ packets \in Seq(Frames)
  /\ position \in Nat \ {0}
  /\ segment.addresses \subseteq Address /\ segment.on_link_prefixes \subseteq Nat
  /\ routers \subseteq Mac
  /\ window \in Window \cup {NoWindow}
  /\ DOMAIN addresses \subseteq Address
  /\ \A a \in DOMAIN addresses : IsAddressAcc(addresses[a])
  /\ IsDict(machines, MachineKeys, Window)
  /\ IsDict(vlans, Mac, SUBSET Maybe(Vlan))
  /\ DOMAIN edges \subseteq EdgeKeys
  /\ \A k \in DOMAIN edges : IsEdgeAcc(edges[k])
  /\ IsDict(flows, FlowKeys, FlowFacts)

-----------------------------------------------------------------------------
(* Properties                                                               *)

\* No address that lies off the segment is ever bound to a machine, whatever
\* MAC its packets carried and whatever a frame claimed: the gateway never
\* swallows the internet (_could_be_local against _is_off_segment).
OffSegmentUnbound ==
  \A a \in DOMAIN addresses :
    IsOffSegment(a, segment) => DOMAIN addresses[a].bindings = {}

\* Binding and locality, decided by different code from different tables,
\* agree: an address that is bound to a machine is local unless it is a
\* multicast group, and one typed as a router is local.
BoundIsLocal ==
  \A a \in DOMAIN document.nodes :
    LET node == document.nodes[a]
    IN  /\ node.machine_id # NoMachine /\ Scope[a] # "multicast" => node.locality.is_local
        /\ node.node_type = "router" => node.locality.is_local

\* Every l3 edge joins two known addresses, every l2 edge two MACs that are
\* machines on some VLAN, and no address is an end of an l2 edge.
EdgesClosed ==
  \A key \in DOMAIN edges :
    \A x \in Elements(key[2]) :
      IF key[1] = "l3" THEN x \in DOMAIN addresses
      ELSE \E v \in Maybe(Vlan) : <<x, v>> \in DOMAIN machines

Within(v, w) == w.first <= v.first /\ v.first <= v.last /\ v.last <= w.last

\* However the timestamps are ordered: a binding was observed while its address
\* was, an l3 edge while both its ends were, everything while the capture ran.
WindowsNest ==
  /\ \A a \in DOMAIN addresses :
       /\ Within(addresses[a].window, window)
       /\ \A k \in DOMAIN addresses[a].bindings :
            Within(addresses[a].bindings[k].window, addresses[a].window)
  /\ \A k \in DOMAIN machines : Within(machines[k], window)
  /\ \A key \in DOMAIN edges :
       /\ Within(edges[key].window, window)
       /\ key[1] = "l3" =>
            \A x \in Elements(key[2]) : Within(edges[key].window, addresses[x].window)

Packets(layer) ==
  SumFunction([key \in {k \in DOMAIN edges : k[1] = layer} |->
                 edges[key].forward + edges[key].reverse])

SoFar == 1 .. (position - 1)

\* Traffic rolls up without loss: every packet of a conversation is on exactly
\* one l3 edge, every other frame between two MACs on one l2 edge, and in the
\* document each packet is sent by one address and received by one.
PacketsConserved ==
  /\ Packets("l3") = Cardinality({i \in SoFar : Conversation(packets[i])})
  /\ Packets("l2") = Cardinality({i \in SoFar : BetweenMachines(packets[i])})
  /\ phase = "built" =>
       LET nodes == document.nodes
       IN  /\ SumFunction([a \in DOMAIN nodes |-> nodes[a].traffic.sent]) = Packets("l3")
           /\ SumFunction([a \in DOMAIN nodes |-> nodes[a].traffic.received]) = Packets("l3")

\* Two (MAC, VLAN) keys never share a machine id, also when a MAC was seen
\* tagged, untagged and priority-tagged.
MachineIdsUnique ==
  \A j, k \in DOMAIN document.machines :
    document.machines[j].id = document.machines[k].id => j = k

EvidenceGrows ==
  \A a \in DOMAIN addresses : \A k \in DOMAIN addresses[a].bindings :
    /\ a \in DOMAIN addresses' /\ k \in DOMAIN addresses'[a].bindings
    /\ BasisRank[addresses'[a].bindings[k].basis] >= BasisRank[addresses[a].bindings[k].basis]
    /\ Within(addresses[a].bindings[k].window, addresses'[a].bindings[k].window)

\* Evidence is never resolved away: once an address was bound to a machine the
\* binding stays, its basis never weakens and its window never shrinks.
EvidenceOnlyGrows == [][EvidenceGrows]_vars

ServicePackets(key) ==
  SumFunction([s \in DOMAIN edges[key].services |-> edges[key].services[s].packets])

\* The services of an edge divide its TCP and UDP packets: each is counted for
\* exactly one service, unless its line ended before the destination port, and
\* no service knows a flow its edge does not.
ServicesPartition ==
  \A key \in DOMAIN edges :
    /\ ServicePackets(key) =
         Cardinality({i \in SoFar : LET r == packets[i] IN
                        /\ Conversation(r) /\ L3Key(r) = key
                        /\ r.transport \in {"tcp", "udp"} /\ r.dst_port # None})
    /\ \A s \in DOMAIN edges[key].services :
         edges[key].services[s].flows \subseteq edges[key].flows

\* The two ends of a packet, in the direction it went.
Tuple(r) == <<r.transport, <<r.ip_src, r.src_port>>, <<r.ip_dst, r.dst_port>>>>

SameFlow(q, r) == Tuple(q) = Tuple(r) \/ Tuple(q) = <<r.transport, Tuple(r)[3], Tuple(r)[2]>>

PacketsOn(key) == {i \in SoFar : Conversation(packets[i]) /\ L3Key(packets[i]) = key}

\* Both directions of a conversation are one flow, and nothing else is: an edge
\* counts as many flows as its packets have 5-tuples, up to direction.
FlowCountExact ==
  \A key \in DOMAIN edges :
    Cardinality(edges[key].flows) =
      Cardinality({{j \in PacketsOn(key) : SameFlow(packets[j], packets[i])} :
                     i \in PacketsOn(key)})

\* A flow with a connection attempt is served by the port the first attempt
\* went to; one without, by the destination of its first packet; and neither
\* the direction nor the packets of other flows change that.
SynDecides ==
  \A key \in DOMAIN flows :
    LET mine == {i \in SoFar : Conversation(packets[i]) /\ FlowKey(packets[i]) = key}
        syns == {i \in mine : IsSynOnly(packets[i])}
    IN  ServerPort(flows[key]) = packets[Min(IF syns # {} THEN syns ELSE mine)].dst_port

\* test_aggregation.py: every edge endpoint exists in the document.
EndpointsExist ==
  \A e \in DOMAIN document.edges :
    \A x \in Elements(document.edges[e].endpoints) :
      \/ document.edges[e].layer = "l3" /\ x \in DOMAIN document.nodes
      \/ document.edges[e].layer = "l2"
           /\ \E k \in DOMAIN document.machines : document.machines[k].id = x

\* "Every binding is still emitted": no capture with frames ends without a
\* document.
EveryBindingEmitted == phase # "crashed"
=============================================================================
