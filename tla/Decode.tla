------------------------------- MODULE Decode -------------------------------
(***************************************************************************)
(* From a line tshark prints to a packet record                            *)
(* (backend/app/parsing/tshark.py, decode and what it calls).              *)
(*                                                                         *)
(* A line is a sequence of columns in the order of Fields, shorter when it *)
(* was truncated, and a column the sequence of the values its field had in *)
(* the frame. Values are numbers; Junk is a text where a number should be. *)
(* Vendors, lengths, the interface and the spelling of MACs and names are  *)
(* left out.                                                               *)
(***************************************************************************)
EXTENDS PacketRecords

CONSTANTS
  Lines,  \* what tshark may print for one frame
  Text,   \* hostnames, and the names DNS questions ask about
  Arpa    \* Text -> the address an in-addr.arpa question encodes, or None

VARIABLES
  line,    \* the line read last
  yielded  \* its record, if there is one

vars == <<line, yielded>>

Junk == -2

\* What frame.protocols holds of a frame with an mdns layer, a DHCP ACK, an ARP
\* reply, a neighbour solicitation and its advertisement.
MdnsChain == 1
DhcpAck == 5
ArpReply == 2
NdpSolicitation == 135
NdpAdvertisement == 136
MdnsPort == 5353

Sources == {"dns_ptr", "mdns", "nbns", "dhcp_option_12", "tls_sni", "http_host"}

\* Mutation of Fields: the DHCP columns in another order.
FieldsNameFirst ==
  <<"frame.number", "frame.time_epoch", "frame.len", "frame.protocols", "eth.src", "eth.dst", "vlan.id",
    "ip.src", "ip.dst", "ipv6.src", "ipv6.dst", "tcp.srcport", "tcp.dstport", "tcp.flags.syn",
    "tcp.flags.ack", "tcp.flags.reset", "tcp.analysis.retransmission", "udp.srcport", "udp.dstport",
    "icmp.type", "icmpv6.type", "arp.opcode", "arp.src.hw_mac", "arp.src.proto_ipv4",
    "icmpv6.nd.na.target_address", "icmpv6.nd.ns.target_address", "icmpv6.opt.linkaddr",
    "dhcp.option.hostname", "dhcp.option.dhcp", "dhcp.ip.your", "dhcp.hw.mac_addr",
    "tls.handshake.extensions_server_name", "http.host", "dns.qry.name", "dns.a", "dns.ptr.domain_name",
    "nbns.name">>

\* FIELDS: the order tshark is asked for and the decoder reads by.
Fields ==
  <<"frame.number", "frame.time_epoch", "frame.len", "frame.protocols", "eth.src", "eth.dst", "vlan.id",
    "ip.src", "ip.dst", "ipv6.src", "ipv6.dst", "tcp.srcport", "tcp.dstport", "tcp.flags.syn",
    "tcp.flags.ack", "tcp.flags.reset", "tcp.analysis.retransmission", "udp.srcport", "udp.dstport",
    "icmp.type", "icmpv6.type", "arp.opcode", "arp.src.hw_mac", "arp.src.proto_ipv4",
    "icmpv6.nd.na.target_address", "icmpv6.nd.ns.target_address", "icmpv6.opt.linkaddr",
    "dhcp.option.dhcp", "dhcp.ip.your", "dhcp.hw.mac_addr", "dhcp.option.hostname",
    "tls.handshake.extensions_server_name", "http.host", "dns.qry.name", "dns.a", "dns.ptr.domain_name",
    "nbns.name">>

Index == [f \in Elements(Fields) |-> CHOOSE i \in DOMAIN Fields : Fields[i] = f]

\* A short line is padded with empty columns.
Get(l, f) == IF Index[f] <= Len(l) THEN l[Index[f]] ELSE <<>>

\* Mutation of First: the last occurrence.
LastOf(l, f) == IF Get(l, f) = <<>> THEN None ELSE Get(l, f)[Len(Get(l, f))]

\* The first occurrence, for a field that may repeat within a frame.
First(l, f) == IF Get(l, f) = <<>> THEN None ELSE Get(l, f)[1]

AsInt(v) == IF v = Junk THEN None ELSE v

IntOf(l, f) == AsInt(First(l, f))

\* tshark prints addresses and MACs or nothing; ports, tags and times may be junk.
AddressFields ==
  {"ip.src", "ip.dst", "ipv6.src", "ipv6.dst", "arp.src.proto_ipv4", "icmpv6.nd.na.target_address",
   "icmpv6.nd.ns.target_address", "dhcp.ip.your", "dns.a"}
MacFields == {"eth.src", "eth.dst", "arp.src.hw_mac", "icmpv6.opt.linkaddr", "dhcp.hw.mac_addr"}
PortFields == {"tcp.srcport", "tcp.dstport", "udp.srcport", "udp.dstport"}
TextFields ==
  {"dhcp.option.hostname", "tls.handshake.extensions_server_name", "http.host", "dns.qry.name",
   "dns.ptr.domain_name", "nbns.name"}

ASSUME LinesAssumption ==
  \A l \in Lines :
    /\ l \in Seq(Seq(Int))
    /\ \A f \in AddressFields : Get(l, f) \in Seq(Address)
    /\ \A f \in MacFields : Get(l, f) \in Seq(Mac)
    /\ \A f \in PortFields : Get(l, f) \in Seq(Port \cup {Junk})
    /\ \A f \in TextFields : Get(l, f) \in Seq(Text)
    /\ Get(l, "vlan.id") \in Seq(Vlan \cup {Junk})
    /\ Get(l, "frame.time_epoch") \in Seq(Nat \cup {Junk})

ASSUME TextAssumption ==
  /\ Arpa \in [Text -> Maybe(Address)]
  /\ Text \X Sources \subseteq Name

-----------------------------------------------------------------------------
(* The parts of a record.                                                  *)

Usable(l) ==
  \A f \in {"frame.number", "frame.len", "frame.time_epoch"} : IntOf(l, f) # None

\* Mutation of EndsOf: each end from the version that has it.
EndsApart(l) ==
  [src |-> IF First(l, "ip.src") # None THEN First(l, "ip.src") ELSE First(l, "ipv6.src"),
   dst |-> IF First(l, "ip.dst") # None THEN First(l, "ip.dst") ELSE First(l, "ipv6.dst")]

\* _addresses: IPv4 if both of its ends were printed, or else IPv6.
EndsOf(l) ==
  IF None \notin {First(l, "ip.src"), First(l, "ip.dst")}
  THEN [src |-> First(l, "ip.src"), dst |-> First(l, "ip.dst")]
  ELSE IF None \notin {First(l, "ipv6.src"), First(l, "ipv6.dst")}
       THEN [src |-> First(l, "ipv6.src"), dst |-> First(l, "ipv6.dst")]
       ELSE [src |-> None, dst |-> None]

TransportOf(l) ==
  IF IntOf(l, "tcp.srcport") # None
  THEN [name |-> "tcp", src |-> IntOf(l, "tcp.srcport"), dst |-> IntOf(l, "tcp.dstport")]
  ELSE IF IntOf(l, "udp.srcport") # None
       THEN [name |-> "udp", src |-> IntOf(l, "udp.srcport"), dst |-> IntOf(l, "udp.dstport")]
       ELSE [name |-> IF Get(l, "icmp.type") # <<>> \/ Get(l, "icmpv6.type") # <<>> THEN "icmp" ELSE "none",
             src |-> None, dst |-> None]

FlagsOf(l) ==
  {f \in Flags :
     CASE f = "syn" -> First(l, "tcp.flags.syn") = 1
       [] f = "ack" -> First(l, "tcp.flags.ack") = 1
       [] f = "rst" -> First(l, "tcp.flags.reset") = 1
       [] f = "retransmission" -> Get(l, "tcp.analysis.retransmission") # <<>>}

NoPair == [ip |-> None, mac |-> None]

\* Half an assertion is not evidence.
BindingPair(ip, mac, rejected) ==
  IF ip = None \/ mac = None \/ ip \in rejected THEN NoPair ELSE [ip |-> ip, mac |-> mac]

Sender(l) == BindingPair(First(l, "arp.src.proto_ipv4"), First(l, "arp.src.hw_mac"), {Unspecified})

Replied(l) == IF First(l, "arp.opcode") = ArpReply THEN Sender(l) ELSE NoPair

\* Mutation of Advertised: the link-layer option of a solicitation is taken too.
AdvertisedOrSolicited(l) ==
  IF First(l, "icmpv6.type") = NdpAdvertisement
  THEN BindingPair(First(l, "icmpv6.nd.na.target_address"), First(l, "icmpv6.opt.linkaddr"), {})
  ELSE BindingPair(First(l, "icmpv6.nd.ns.target_address"), First(l, "icmpv6.opt.linkaddr"), {})

Advertised(l) ==
  IF First(l, "icmpv6.type") = NdpAdvertisement
  THEN BindingPair(First(l, "icmpv6.nd.na.target_address"), First(l, "icmpv6.opt.linkaddr"), {})
  ELSE NoPair

Assigned(l) ==
  IF First(l, "dhcp.option.dhcp") = DhcpAck
  THEN BindingPair(First(l, "dhcp.ip.your"), First(l, "dhcp.hw.mac_addr"), {Unspecified})
  ELSE NoPair

\* Only ever sent for an on-link target, which it does not bind.
Solicited(l) ==
  IF First(l, "icmpv6.type") = NdpSolicitation THEN First(l, "icmpv6.nd.ns.target_address") ELSE None

-----------------------------------------------------------------------------
(* Names.                                                                  *)

Claimed(address, text, source) ==
  {c \in {<<address, <<text, source>>>>} : address # None /\ text # None}

\* Mutation of Client: the sender, also of an ACK.
SenderIsClient(l) == IF EndsOf(l).src = Unspecified THEN None ELSE EndsOf(l).src

\* A DHCP hostname names the address being leased, or the source.
Client(l) ==
  IF Assigned(l).ip # None THEN Assigned(l).ip
  ELSE IF EndsOf(l).src = Unspecified THEN None ELSE EndsOf(l).src

IsMdns(l) ==
  \/ First(l, "frame.protocols") = MdnsChain
  \/ MdnsPort \in {TransportOf(l).src, TransportOf(l).dst}

\* Mutation of Question: always the first.
FirstQuestion(l, i) == {Get(l, "dns.qry.name")[j] : j \in DOMAIN Get(l, "dns.qry.name") \cap {1}}

\* The question an answer is paired with: the one at its index, or the first.
Question(l, i) ==
  LET queries == Get(l, "dns.qry.name")
  IN  IF i <= Len(queries) THEN {queries[i]} ELSE {queries[j] : j \in DOMAIN queries \cap {1}}

DnsClaims(l) ==
  LET source == IF IsMdns(l) THEN "mdns" ELSE "dns_ptr"
      answers == Get(l, "dns.ptr.domain_name")
  IN  UNION {UNION {Claimed(Arpa[q], answers[i], source) : q \in Question(l, i)} : i \in DOMAIN answers}

\* An address answers to the name that was asked for. Only over mDNS.
MdnsClaims(l) ==
  IF IsMdns(l)
  THEN UNION {Claimed(a, First(l, "dns.qry.name"), "mdns") : a \in Elements(Get(l, "dns.a"))}
  ELSE {}

HostnamesOf(l) ==
  Claimed(EndsOf(l).dst, First(l, "tls.handshake.extensions_server_name"), "tls_sni")
    \cup Claimed(EndsOf(l).dst, First(l, "http.host"), "http_host")
    \cup Claimed(Client(l), First(l, "dhcp.option.hostname"), "dhcp_option_12")
    \cup Claimed(EndsOf(l).src, First(l, "nbns.name"), "nbns")
    \cup DnsClaims(l) \cup MdnsClaims(l)

RecordOf(l) ==
  [epoch_ns |-> First(l, "frame.time_epoch"),
   eth_src |-> First(l, "eth.src"), eth_dst |-> First(l, "eth.dst"), vlan_id |-> IntOf(l, "vlan.id"),
   ip_src |-> EndsOf(l).src, ip_dst |-> EndsOf(l).dst,
   transport |-> TransportOf(l).name, src_port |-> TransportOf(l).src, dst_port |-> TransportOf(l).dst,
   flags |-> FlagsOf(l),
   arp_sender_ip |-> Sender(l).ip,
   arp_reply_ip |-> Replied(l).ip, arp_reply_mac |-> Replied(l).mac,
   ndp_advertised_ip |-> Advertised(l).ip, ndp_advertised_mac |-> Advertised(l).mac,
   ndp_solicited_ip |-> Solicited(l),
   dhcp_assigned_ip |-> Assigned(l).ip, dhcp_assigned_mac |-> Assigned(l).mac,
   hostnames |-> HostnamesOf(l)]

Decoded(l) == IF Usable(l) THEN {RecordOf(l)} ELSE {}

-----------------------------------------------------------------------------
(* The loop over the lines.                                                *)

Init == line = <<>> /\ yielded = {}

\* Blank, or without a usable number, length or time: not fatal.
Skip(l) == ~Usable(l) /\ line' = l /\ yielded' = {}

Yield(l) == Usable(l) /\ line' = l /\ yielded' = {RecordOf(l)}

Next == \E l \in Lines : Skip(l) \/ Yield(l)

Spec == Init /\ [][Next]_vars

-----------------------------------------------------------------------------
(* Properties.                                                             *)

\* What aggregation relies on holds of every record that is yielded, whatever
\* the line lacks: FramesAssumption of Addressing is no more than this.
RecordsAreWellDecoded == \A r \in yielded : r \in PacketRecord /\ WellDecoded(r)
=============================================================================
