----------------------------- MODULE Addressing -----------------------------
(***************************************************************************)
(* What the aggregation knows about one decoded frame before it counts     *)
(* anything: the scope of an address and whether a MAC is a group          *)
(* (backend/app/aggregation/classify.py), and the two facts a whole        *)
(* capture yields before the counting pass: the captured segment and the   *)
(* MACs that act as routers (aggregation/build.py).  Everything here is a  *)
(* pure definition.                                                        *)
(*                                                                         *)
(* Every address of Address is one that ipaddress.ip_address accepts, so   *)
(* parse_address never fails here.                                         *)
(***************************************************************************)
EXTENDS PacketRecords, FiniteSets

CONSTANTS
  Scope,             \* Address -> the class classify.py puts it in
  Prefix,            \* Address -> its /64 for IPv6, None for IPv4
  GroupMac,          \* the broadcast and multicast MACs
  LimitedBroadcast,  \* the addresses equal to 255.255.255.255
  Frames             \* the records the decoder yields for this capture

Scopes == {"private", "public", "link_local", "loopback", "multicast"}

ASSUME ValuesAssumption ==
  /\ Scope \in [Address -> Scopes]
  /\ Prefix \in [Address -> Nat \cup {None}]
  /\ GroupMac \subseteq Mac
  /\ LimitedBroadcast \subseteq Address

\* Addresses are numbers of 32 or 128 bits.
ASSUME AddressesAssumption == IsFiniteSet(Address)

ASSUME FramesAssumption ==
  /\ Frames \subseteq PacketRecord
  /\ \A r \in Frames : WellDecoded(r)

-----------------------------------------------------------------------------
(* classify.py                                                             *)

\* Python's is_private holds of loopback and link-local addresses as well.
IsPrivate(a) == Scope[a] \in {"private", "link_local", "loopback"}

IsLocalScope(a) == Scope[a] \in {"multicast", "loopback", "link_local"}

IsGroupMac(m) == m \in GroupMac

\* Mutation of ClassifyLocality: the public rung tried before the on-link one.
ClassifyPublicFirst(a, onSegment, onLinkPrefix, boundToNonRouter) ==
  IF Scope[a] = "public" /\ ~onSegment
  THEN [is_local |-> FALSE, basis |-> "routed_via_gateway"]
  ELSE [is_local |-> onSegment \/ onLinkPrefix \/ Scope[a] = "link_local" \/ boundToNonRouter,
        basis |-> "observed_in_arp_or_ndp"]

\* classify_locality: the rungs in the order they are tried, with their basis.
ClassifyLocality(a, onSegment, onLinkPrefix, boundToNonRouter) ==
  CASE Scope[a] = "loopback"   -> [is_local |-> TRUE,  basis |-> "loopback"]
    [] Scope[a] = "multicast"  -> [is_local |-> FALSE, basis |-> "multicast_group"]
    [] Scope[a] \notin {"loopback", "multicast"} ->
         IF onSegment THEN [is_local |-> TRUE, basis |-> "observed_in_arp_or_ndp"]
         ELSE IF onLinkPrefix THEN [is_local |-> TRUE, basis |-> "inside_on_link_prefix"]
         ELSE IF Scope[a] = "link_local" THEN [is_local |-> TRUE, basis |-> "link_local"]
         ELSE IF Scope[a] = "public" THEN [is_local |-> FALSE, basis |-> "routed_via_gateway"]
         ELSE IF boundToNonRouter THEN [is_local |-> TRUE, basis |-> "sourced_from_a_local_mac"]
         ELSE [is_local |-> FALSE, basis |-> "private_but_never_seen"]

ClassifyNodeType(a, isLocal, isRouter) ==
  IF Scope[a] = "multicast" THEN "multicast"
  ELSE IF a \in LimitedBroadcast THEN "broadcast"
  ELSE IF isRouter THEN "router"
  ELSE IF isLocal THEN "host"
  ELSE "external"

-----------------------------------------------------------------------------
(* The segment: the addresses ARP, NDP and DHCP named and the /64 prefixes  *)
(* of the IPv6 ones among them.                                            *)

\* Mutation of NamedBy: an address leased by DHCP is forgotten.
NamedByNeighbours(r) ==
  {r.arp_sender_ip, r.ndp_advertised_ip, r.ndp_solicited_ip} \ {None}

NamedBy(r) ==
  {r.arp_sender_ip, r.ndp_advertised_ip, r.ndp_solicited_ip, r.dhcp_assigned_ip} \ {None}

OnLinkPrefixes(found) ==
  {Prefix[a] : a \in {b \in found : Prefix[b] # None /\ ~IsLocalScope(b)}}

SegmentOf(records) ==
  LET found == UNION {NamedBy(r) : r \in records}
  IN  [addresses |-> found, on_link_prefixes |-> OnLinkPrefixes(found)]

Holds(segment, a) == a \in segment.addresses

Covers(segment, a) == Prefix[a] # None /\ Prefix[a] \in segment.on_link_prefixes

IsOffSegment(a, segment) ==
  /\ ~Holds(segment, a)
  /\ ~IsLocalScope(a)
  /\ ~Covers(segment, a)
  /\ ~IsPrivate(a)

-----------------------------------------------------------------------------
(* The routers: MACs next to an off-segment address, in either direction.   *)

HasIp(r) == r.ip_src # None /\ r.ip_dst # None

Forwards(mac, ip, segment) ==
  /\ mac # None
  /\ ~IsGroupMac(mac)
  /\ IsOffSegment(ip, segment)

RoutersIn(r, segment) ==
  IF ~HasIp(r) THEN {}
  ELSE {m \in {r.eth_src} : Forwards(m, r.ip_src, segment)}
         \cup {m \in {r.eth_dst} : Forwards(m, r.ip_dst, segment)}

RouterMacs(records, segment) ==
  UNION {RoutersIn(r, segment) : r \in records}

-----------------------------------------------------------------------------
(* The address-to-machine claims one frame makes.                           *)

Bases == {"arp_reply", "ndp_advertisement", "dhcp_ack", "source_mac"}

BasisRank ==
  [arp_reply |-> 3, ndp_advertisement |-> 2, dhcp_ack |-> 1, source_mac |-> 0]

\* A priority tag (VID 0) claims no VLAN membership.
VlanOf(r) == IF r.vlan_id = 0 THEN None ELSE r.vlan_id

MachineKeys == Mac \X Maybe(Vlan)

MachineKey(mac, r) == <<mac, VlanOf(r)>>

Strongest(bases) ==
  CHOOSE b \in bases : \A c \in bases : BasisRank[b] >= BasisRank[c]

\* The guard on source_mac evidence.
CouldBeLocal(a, mac, segment, routers) ==
  \/ Holds(segment, a)
  \/ /\ Scope[a] # "multicast"
     /\ \/ Scope[a] = "link_local"
        \/ Covers(segment, a)
        \/ mac \notin routers /\ IsPrivate(a)

ClaimSet(address, mac, basis) ==
  {c \in {[address |-> address, mac |-> mac, basis |-> basis]} :
     address # None /\ mac # None}

\* The claims that survive the guard.
Claims(r, segment, routers) ==
  ClaimSet(r.arp_reply_ip, r.arp_reply_mac, "arp_reply")
    \cup ClaimSet(r.ndp_advertised_ip, r.ndp_advertised_mac, "ndp_advertisement")
    \cup ClaimSet(r.dhcp_assigned_ip, r.dhcp_assigned_mac, "dhcp_ack")
    \cup {c \in ClaimSet(r.ip_src, r.eth_src, "source_mac") :
            /\ ~IsGroupMac(c.mac)
            /\ CouldBeLocal(c.address, c.mac, segment, routers)}

\* The addresses one frame touches: claimed, named by a hostname, or an end of it.
Touched(r, segment, routers) ==
  {c.address : c \in Claims(r, segment, routers)}
    \cup {h[1] : h \in r.hostnames}
    \cup (IF HasIp(r) THEN {r.ip_src, r.ip_dst} ELSE {})

\* A frame that is one packet of a conversation between two addresses.
Conversation(r) == HasIp(r) /\ r.ip_src # r.ip_dst

-----------------------------------------------------------------------------
(* Flows (aggregation/flows.py).                                            *)

IsSynOnly(r) == r.transport = "tcp" /\ "syn" \in r.flags /\ "ack" \notin r.flags

IsSynAck(r) == r.transport = "tcp" /\ "syn" \in r.flags /\ "ack" \in r.flags

\* Mutation of FlowKey: the ends left in the order of the packet.
FlowKeyDirected(r) ==
  <<r.transport, <<r.ip_src, r.src_port>>, <<r.ip_dst, r.dst_port>>>>

\* The 5-tuple without direction: the two ends as a set, not as a sorted pair.
FlowKey(r) ==
  <<r.transport, {<<r.ip_src, r.src_port>>, <<r.ip_dst, r.dst_port>>}>>

FlowKeys == Transports \X SUBSET (Address \X Maybe(Port))

FlowFacts == [opening_dst_port : Maybe(Port), syn_dst_port : Maybe(Port)]

OpenedBy(r) == [opening_dst_port |-> r.dst_port, syn_dst_port |-> None]

\* Mutation of ObservedBy: every SYN overwrites the port the first one named.
ObservedByEverySyn(facts, r) ==
  IF IsSynOnly(r) THEN [facts EXCEPT !.syn_dst_port = r.dst_port] ELSE facts

\* A SYN without ACK names the listening side, once.
ObservedBy(facts, r) ==
  IF IsSynOnly(r) /\ facts.syn_dst_port = None
  THEN [facts EXCEPT !.syn_dst_port = r.dst_port]
  ELSE facts

ServerPort(facts) ==
  IF facts.syn_dst_port # None THEN facts.syn_dst_port ELSE facts.opening_dst_port

=============================================================================
