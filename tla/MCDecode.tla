------------------------------ MODULE MCDecode ------------------------------
(* One frame of every kind the decoder tells apart, tunnels and errors that *)
(* quote another packet included, each cut short after every column.       *)
EXTENDS Dissection

\* Addresses
Nobody == 0     \* 0.0.0.0
PC == 1
Server == 2
Gateway == 3
Everyone == 4
HostV6 == 5
PeerV6 == 6
FarEnd == 7     \* of a tunnel

MCAddress == 0..7
MCMac == {1, 2, 9}
MCVlan == {0, 10, 20}
MCPort == {53, 67, 68, 137, 443, 5353, 40000}

\* Texts: two names, the questions that encode PC and Server, and one that
\* encodes nothing.
Host == 1
Site == 2
AskPC == 3
AskServer == 4
AskSite == 5

MCText == 1..5
MCArpa == [t \in MCText |-> CASE t = AskPC -> PC [] t = AskServer -> Server [] OTHER -> None]
MCName == MCText \X Sources

Frame == Layer("frame", ("frame.number" :> <<1>>) @@ ("frame.time_epoch" :> <<7>>) @@ ("frame.len" :> <<60>>))
Timeless == Layer("frame", ("frame.number" :> <<1>>) @@ ("frame.time_epoch" :> <<Junk>>) @@ ("frame.len" :> <<60>>))
MdnsFrame == [Frame EXCEPT !.says = @ @@ ("frame.protocols" :> <<MdnsChain>>)]
Eth == Layer("eth", ("eth.src" :> <<1>>) @@ ("eth.dst" :> <<2>>))
Tag(v) == Layer("vlan", "vlan.id" :> <<v>>)
Ip(s, d) == Layer("ip", ("ip.src" :> <<s>>) @@ ("ip.dst" :> <<d>>))
Ip6(s, d) == Layer("ipv6", ("ipv6.src" :> <<s>>) @@ ("ipv6.dst" :> <<d>>))
Tcp(s, d, syn, ack) ==
  Layer("tcp", ("tcp.srcport" :> <<s>>) @@ ("tcp.dstport" :> <<d>>) @@ ("tcp.flags.syn" :> <<syn>>)
                 @@ ("tcp.flags.ack" :> <<ack>>) @@ ("tcp.flags.reset" :> <<0>>))
Udp(s, d) == Layer("udp", ("udp.srcport" :> <<s>>) @@ ("udp.dstport" :> <<d>>))
Icmp(t) == Layer("icmp", "icmp.type" :> <<t>>)
Icmp6(t) == Layer("icmpv6", "icmpv6.type" :> <<t>>)
Solicitation(target, mac) ==
  Layer("icmpv6", ("icmpv6.type" :> <<NdpSolicitation>>) @@ ("icmpv6.nd.ns.target_address" :> <<target>>)
                    @@ ("icmpv6.opt.linkaddr" :> <<mac>>))
Advertisement(target, macs) ==
  Layer("icmpv6", ("icmpv6.type" :> <<NdpAdvertisement>>) @@ ("icmpv6.nd.na.target_address" :> <<target>>)
                    @@ ("icmpv6.opt.linkaddr" :> macs))
Arp(op, mac, ip) ==
  Layer("arp", ("arp.opcode" :> <<op>>) @@ ("arp.src.hw_mac" :> <<mac>>) @@ ("arp.src.proto_ipv4" :> <<ip>>))
Dhcp(type, your, names) ==
  Layer("dhcp", ("dhcp.option.dhcp" :> <<type>>) @@ ("dhcp.ip.your" :> <<your>>) @@ ("dhcp.hw.mac_addr" :> <<1>>)
                  @@ ("dhcp.option.hostname" :> names))
Tls(name) == Layer("tls", "tls.handshake.extensions_server_name" :> <<name>>)
Http(name) == Layer("http", "http.host" :> <<name>>)
Nbns(name) == Layer("nbns", "nbns.name" :> <<name>>)
\* answers: pairs of a name and what it points to; addresses: of a name and its own.
Dns(kind, asked, addresses, answers) ==
  [kind |-> kind,
   owners |-> [i \in DOMAIN answers |-> answers[i][1]],
   hosts |-> [i \in DOMAIN addresses |-> addresses[i][1]],
   says |-> ("dns.qry.name" :> asked)
              @@ ("dns.a" :> [i \in DOMAIN addresses |-> addresses[i][2]])
              @@ ("dns.ptr.domain_name" :> [i \in DOMAIN answers |-> answers[i][2]])]

Neighbours ==
  {<<Frame, Eth, Arp(op, 1, ip)>> : op \in {1, ArpReply}, ip \in {Nobody, PC}} \cup
  {<<Frame, Eth, Tag(10), Tag(20), Arp(ArpReply, 2, Gateway)>>,
   <<Frame, Eth, Ip6(HostV6, PeerV6), Solicitation(PeerV6, 1)>>,
   <<Frame, Eth, Ip6(PeerV6, HostV6), Advertisement(PeerV6, <<2>>)>>,
   <<Frame, Eth, Ip6(PeerV6, HostV6), Advertisement(PeerV6, <<>>)>>,
   <<Frame, Eth, Ip6(PeerV6, HostV6), Icmp6(1), Ip6(HostV6, PeerV6), Advertisement(HostV6, <<1>>)>>}

Leases ==
  {<<Frame, Eth, Ip(Nobody, Everyone), Udp(68, 67), Dhcp(1, Nobody, <<Host>>)>>,
   <<Frame, Eth, Ip(PC, Gateway), Udp(68, 67), Dhcp(3, Nobody, <<Host>>)>>,
   <<Frame, Eth, Ip(Gateway, Everyone), Udp(67, 68), Dhcp(2, PC, <<Host>>)>>,
   <<Frame, Eth, Ip(Gateway, PC), Udp(67, 68), Dhcp(DhcpAck, Nobody, <<Host>>)>>,
   <<Frame, Eth, Ip(Gateway, Everyone), Udp(67, 68), Dhcp(DhcpAck, PC, <<Host>>)>>}

Conversations ==
  {<<Frame, Eth, Tag(0), Ip(PC, Server), Tcp(40000, 443, 1, 0)>>,
   <<Frame, Eth, Ip(PC, Server), Tcp(40000, 443, 0, 1), Tls(Site)>>,
   <<Frame, Eth, Ip6(HostV6, PeerV6), Tcp(40000, 443, 0, 1), Http(Site)>>,
   <<Frame, Eth, Ip(PC, Gateway), Udp(137, 137), Nbns(Host)>>,
   <<Frame, Eth, Ip(PC, Server), Icmp(8)>>,
   <<Frame, Eth, Ip(PC, Server), Tcp(Junk, 443, 0, 1)>>,
   <<Timeless, Eth, Ip(PC, Server), Icmp(8)>>}

Unicast(port, message) == <<Frame, Eth, Ip(Gateway, PC), Udp(port, 40000), message>>

\* One question with two answers, two with one each, questions and answers that
\* are about no address, answers in another order, two messages in one segment;
\* mDNS told by its layer or its port, with and without the question repeated.
Lookups ==
  {Unicast(53, Dns("dns", <<AskServer>>, <<>>, <<<<AskServer, Site>>, <<AskServer, Host>>>>)),
   Unicast(53, Dns("dns", <<AskPC, AskServer>>, <<>>, <<<<AskPC, Host>>, <<AskServer, Site>>>>)),
   Unicast(53, Dns("dns", <<AskPC, AskServer>>, <<>>, <<<<AskServer, Site>>, <<AskPC, Host>>>>)),
   Unicast(53, Dns("dns", <<AskSite>>, <<<<Site, Server>>>>, <<<<AskSite, Host>>>>)),
   <<Frame, Eth, Ip(Gateway, PC), Tcp(53, 40000, 0, 1),
     Dns("dns", <<AskServer>>, <<>>, <<<<AskServer, Site>>, <<AskServer, Host>>>>),
     Dns("dns", <<AskPC>>, <<>>, <<<<AskPC, Host>>>>)>>,
   Unicast(5353, Dns("mdns", <<Host, AskPC>>, <<<<Host, PC>>>>, <<>>)),
   <<MdnsFrame, Eth, Ip(PC, Everyone), Udp(5353, 5353), Dns("mdns", <<Host>>, <<<<Host, PC>>>>, <<>>)>>,
   <<MdnsFrame, Eth, Ip(PC, Everyone), Udp(5353, 5353),
     Dns("mdns", <<>>, <<<<Host, PC>>>>, <<<<AskPC, Host>>>>)>>,
   <<Frame, Eth, Ip(PC, Everyone), Udp(5353, 5353), Dns("mdns", <<AskPC>>, <<>>, <<<<AskPC, Host>>>>)>>}

\* IP in IP of either version, an ARP reply in a tunnel, and an error that quotes
\* the packet it is about.
Tunnels ==
  {<<Frame, Eth, Ip(PC, FarEnd), Ip6(HostV6, PeerV6), Tcp(40000, 443, 0, 1)>>,
   <<Frame, Eth, Ip(PC, FarEnd), Ip(Gateway, Server), Tcp(40000, 443, 0, 1), Tls(Site)>>,
   <<Frame, Eth, Ip(PC, FarEnd), Udp(40000, 443), Eth, Arp(ArpReply, 2, Server)>>,
   <<Frame, Eth, Ip(Gateway, PC), Icmp(3), Ip(PC, Server), Tcp(40000, 443, 1, 0)>>}

DsLite == {<<Frame, Eth, Ip6(HostV6, PeerV6), Ip(PC, Server), Tcp(40000, 443, 0, 1)>>}

MCCaptured == Neighbours \cup Leases \cup Conversations \cup Lookups \cup Tunnels \cup DsLite

MCLines == UNION {LinesOf(frame) : frame \in MCCaptured}
=============================================================================
