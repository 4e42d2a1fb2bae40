----------------------------- MODULE Dissection -----------------------------
(***************************************************************************)
(* What the lines are printed from, and what their records should say of   *)
(* it. A frame is the sequence of its layers, the outermost first, and a   *)
(* layer says the fields it has. tshark prints, for every field, what each *)
(* layer in turn says of it (-E occurrence=a), so that which layer said    *)
(* what, and which of an IPv4 and an IPv6 layer is the outer one, is lost. *)
(***************************************************************************)
EXTENDS Decode, SequencesExt

CONSTANT Captured  \* the frames of the capture

Layer(kind, says) == [kind |-> kind, says |-> says]

Said(layer, f) == IF f \in DOMAIN layer.says THEN layer.says[f] ELSE <<>>

Says(layer, f) == IF Said(layer, f) = <<>> THEN None ELSE Said(layer, f)[1]

Printed(frame) ==
  [i \in DOMAIN Fields |-> FlattenSeq([j \in DOMAIN frame |-> Said(frame[j], Fields[i])])]

\* Any line may end early, between two columns.
LinesOf(frame) == {SubSeq(Printed(frame), 1, n) : n \in 0..Len(Fields)}

PrintedFor(frame) == IsPrefix(line, Printed(frame))

IsNetwork(layer) == layer.kind \in {"ip", "ipv6"}

Source(layer) == IF layer.kind = "ip" THEN Says(layer, "ip.src") ELSE Says(layer, "ipv6.src")

Destination(layer) == IF layer.kind = "ip" THEN Says(layer, "ip.dst") ELSE Says(layer, "ipv6.dst")

Networks(frame) == {i \in DOMAIN frame : IsNetwork(frame[i])}

\* The network layer that carries the j-th layer.
Carrier(frame, j) == frame[Max({i \in Networks(frame) : i < j})]

Tunnelled(frame) == \E i, j \in Networks(frame) : i # j

\* DNS messages, over port 5353 or not. Of such a layer owners[i] is the name that
\* its i-th pointer answers, and hosts[i] the name that has its i-th address.
Messages(frame) == {j \in DOMAIN frame : frame[j].kind \in {"dns", "mdns"}}

-----------------------------------------------------------------------------
(* What Wireshark's dissectors say.                                        *)

ProtocolFields ==
  [ip |-> {"ip.src", "ip.dst"},
   ipv6 |-> {"ipv6.src", "ipv6.dst"},
   arp |-> {"arp.opcode", "arp.src.hw_mac", "arp.src.proto_ipv4"},
   icmpv6 |-> {"icmpv6.type", "icmpv6.nd.na.target_address", "icmpv6.opt.linkaddr"},
   dhcp |-> {"dhcp.option.dhcp", "dhcp.ip.your", "dhcp.hw.mac_addr", "dhcp.option.hostname"},
   tls |-> {"tls.handshake.extensions_server_name"},
   http |-> {"http.host"},
   nbns |-> {"nbns.name"}]

\* A message that carries no packet of another conversation.
Innermost(layer) ==
  \/ layer.kind \in {"arp", "dhcp"}
  \/ layer.kind = "icmpv6" /\ Says(layer, "icmpv6.type") = NdpAdvertisement

\* Every frame may be printed, and cut. A field is said by the layers of its
\* protocol; an IP layer has both its ends and an ICMPv6 layer its type; nothing
\* of its own protocol follows a message that carries no packet, and no network
\* layer a layer that names a host. Wireshark takes a DNS message for mDNS by its
\* port, and says so in frame.protocols.
ASSUME CapturedAssumption ==
  \A frame \in Captured :
    /\ LinesOf(frame) \subseteq Lines
    /\ frame \in Seq(Elements(frame))
    /\ \A j \in DOMAIN frame :
         /\ \A f \in Elements(Fields) : Said(frame[j], f) \in Seq(Int)
         /\ \A kind \in DOMAIN ProtocolFields : \A f \in ProtocolFields[kind] :
              Said(frame[j], f) # <<>> => frame[j].kind = kind
         /\ \A kind \in {"ip", "ipv6"} : frame[j].kind = kind =>
              \A f \in ProtocolFields[kind] : Said(frame[j], f) # <<>>
         /\ frame[j].kind = "icmpv6" => Said(frame[j], "icmpv6.type") # <<>>
         /\ Innermost(frame[j]) => \A i \in DOMAIN frame : i > j => frame[i].kind # frame[j].kind
         /\ frame[j].kind \in {"tls", "http", "nbns", "dhcp"} => \A i \in Networks(frame) : i < j
         /\ \A f \in {"dns.qry.name", "dns.a", "dns.ptr.domain_name"} :
              Said(frame[j], f) # <<>> => j \in Messages(frame)
         /\ Messages(frame) = {j} /\ ~Tunnelled(frame) =>
              (frame[j].kind = "mdns" <=> IsMdns(Printed(frame)))

-----------------------------------------------------------------------------
(* Who a name is about, by the layer that says it.                         *)

\* A pointer names the address its owner encodes; an address is that of its owner.
Pointed(message, source) ==
  LET pointers == Said(message, "dns.ptr.domain_name")
  IN  {<<Arpa[message.owners[i]], <<pointers[i], source>>>> : i \in DOMAIN pointers}

Resolved(message) ==
  LET addresses == Said(message, "dns.a")
  IN  {<<addresses[i], <<message.hosts[i], "mdns">>>> : i \in DOMAIN addresses}

NamedBy(frame, j) ==
  LET layer == frame[j]
  IN  CASE layer.kind = "tls" ->
             {<<Destination(Carrier(frame, j)),
                <<Says(layer, "tls.handshake.extensions_server_name"), "tls_sni">>>>}
        [] layer.kind = "http" ->
             {<<Destination(Carrier(frame, j)), <<Says(layer, "http.host"), "http_host">>>>}
        [] layer.kind = "nbns" ->
             {<<Source(Carrier(frame, j)), <<Says(layer, "nbns.name"), "nbns">>>>}
        [] layer.kind = "dhcp" ->
             {<<IF Says(layer, "dhcp.option.dhcp") = DhcpAck
                THEN Says(layer, "dhcp.ip.your") ELSE Source(Carrier(frame, j)),
                <<Says(layer, "dhcp.option.hostname"), "dhcp_option_12">>>>}
        [] layer.kind = "dns" -> Pointed(layer, "dns_ptr")
        [] layer.kind = "mdns" -> Pointed(layer, "mdns") \cup Resolved(layer)
        [] OTHER -> {}

\* A DHCP server speaks of a client without leasing it an address: an offer, a
\* refusal, the acknowledgement of one that has its address already.
Unleased(layer) ==
  /\ layer.kind = "dhcp"
  /\ Says(layer, "dhcp.option.dhcp") \notin {1, 3, 4, 7, 8}
  /\ \/ Says(layer, "dhcp.option.dhcp") # DhcpAck
     \/ Says(layer, "dhcp.ip.your") \in {None, Unspecified}
     \/ Says(layer, "dhcp.hw.mac_addr") = None

\* "tshark lists queries and answers in order" (tshark.py): each pointer answers the
\* question at its place or the only one, each mDNS address the first. A message
\* that repeats no question is no exception, as it names nothing.
InOrder(message) ==
  LET asked == Said(message, "dns.qry.name")
  IN  asked # <<>> =>
        /\ \A i \in DOMAIN Said(message, "dns.ptr.domain_name") :
             \/ asked = <<message.owners[i]>>
             \/ i \in DOMAIN asked /\ asked[i] = message.owners[i]
        /\ message.kind = "mdns" =>
             \A i \in DOMAIN Said(message, "dns.a") : asked[1] = message.hosts[i]

\* What is left of a frame in one line tells whom its names are about.
Attributable(frame) ==
  /\ ~Tunnelled(frame)
  /\ \A j \in DOMAIN frame : ~Unleased(frame[j])
  /\ \A j \in Messages(frame) : Messages(frame) = {j} /\ InOrder(frame[j])

NamesIn(frame) == UNION {NamedBy(frame, j) : j \in DOMAIN frame}

\* The claims a layer makes, as pairs of an address and a MAC.
Asserted(layer) ==
  CASE layer.kind = "arp" /\ Says(layer, "arp.opcode") = ArpReply ->
         {<<Says(layer, "arp.src.proto_ipv4"), Says(layer, "arp.src.hw_mac")>>}
    [] layer.kind = "icmpv6" /\ Says(layer, "icmpv6.type") = NdpAdvertisement ->
         {<<Says(layer, "icmpv6.nd.na.target_address"), Says(layer, "icmpv6.opt.linkaddr")>>}
    [] layer.kind = "dhcp" /\ Says(layer, "dhcp.option.dhcp") = DhcpAck ->
         {<<Says(layer, "dhcp.ip.your"), Says(layer, "dhcp.hw.mac_addr")>>}
    [] OTHER -> {}

Evidence(r) ==
  {<<r.arp_reply_ip, r.arp_reply_mac>>, <<r.ndp_advertised_ip, r.ndp_advertised_mac>>,
   <<r.dhcp_assigned_ip, r.dhcp_assigned_mac>>} \ {<<None, None>>}

-----------------------------------------------------------------------------
(* Properties.                                                             *)

\* r says nothing that w does not.
Loses(r, w) ==
  /\ \A f \in DOMAIN w \ {"flags", "hostnames", "transport"} : r[f] \in {None, w[f]}
  /\ r.transport \in {"none", w.transport}
  /\ r.flags \subseteq w.flags
  /\ r.hostnames \subseteq w.hostnames

\* A truncated line says less of its frame, never something else: what a column
\* is read for does not fall back on another because a later one was lost. It
\* depends on the order of FIELDS.
TruncationOnlyLoses ==
  \A frame \in Captured : PrintedFor(frame) =>
    \A r \in yielded : \E w \in Decoded(Printed(frame)) : Loses(r, w)

\* Both halves of a binding come from one layer, which asserts it, although each
\* is read from a column of its own, the first value of it: not from a
\* solicitation, an offer, a request or a packet quoted in an error.
OnlyAssertedPairsBind ==
  \A frame \in Captured : PrintedFor(frame) =>
    \A r \in yielded : Evidence(r) \subseteq UNION {Asserted(frame[j]) : j \in DOMAIN frame}

\* "Which address a name belongs to is the whole difficulty" (tshark.py): every
\* name is claimed for the address its layer is about, in frames that are not
\* tunnelled, in which no DHCP server speaks of a client without a lease (which
\* names the server), and with at most one DNS message, its answers in order.
NamesTheRightHost ==
  \A frame \in Captured : PrintedFor(frame) /\ Attributable(frame) =>
    \A r \in yielded : r.hostnames \subseteq NamesIn(frame)

\* "A tunnelled frame has two IP layers; the outer one is the conversation"
\* (test_parsing.py): also of a frame within a tunnel or an error that quotes
\* the packet it is about, unless it is IPv4 within IPv6, where the code takes
\* IPv4 wherever it is.
OuterIsTheConversation ==
  \A frame \in Captured : line = Printed(frame) /\ Networks(frame) # {} =>
    LET outer == frame[Min(Networks(frame))]
    IN  \A r \in yielded :
          \/ r.ip_src = Source(outer) /\ r.ip_dst = Destination(outer)
          \/ outer.kind = "ipv6" /\ \E i \in Networks(frame) : frame[i].kind = "ip"
=============================================================================
