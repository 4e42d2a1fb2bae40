---------------------------- MODULE MCAggregator ----------------------------
(***************************************************************************)
(* Small captures for TLC: the cast of tests/test_aggregation.py (a PC, a  *)
(* gateway, a remote host, an IPv6 neighbour) and the frames they send.    *)
(***************************************************************************)
EXTENDS AggregatorRefinement

\* Addresses
Nobody   == 0   \* 0.0.0.0, which Python calls private
PC       == 1   \* private IPv4
Gateway  == 2   \* private IPv4 of the router
Remote   == 3   \* public IPv4
HostV6   == 4   \* global IPv6 of a host on the segment
PeerV6   == 5   \* global IPv6 in the same /64
PeerLL   == 6   \* link-local IPv6
AllNodes == 7   \* IPv6 multicast
Everyone == 8   \* 255.255.255.255, which Python calls private

\* MACs
PcMac      == 1
RouterMac  == 2
OtherMac   == 3
Broadcast  == 9

MCAddress == 0 .. 8

MCMac == {PcMac, RouterMac, OtherMac, Broadcast}

MCVlan == {0, 10}

MCPort == {443, 40000}

MCName == {"pc.local"}

MCScope ==
  [a \in MCAddress |->
     CASE a \in {Nobody, PC, Gateway, Everyone} -> "private"
       [] a \in {Remote, HostV6, PeerV6} -> "public"
       [] a = PeerLL -> "link_local"
       [] a = AllNodes -> "multicast"]

MCPrefix ==
  [a \in MCAddress |->
     CASE a \in {Nobody, PC, Gateway, Remote, Everyone} -> None
       [] a \in {HostV6, PeerV6} -> 64
       [] a = PeerLL -> 65
       [] a = AllNodes -> 66]

MCGroupMac == {Broadcast}

MCLimitedBroadcast == {Everyone}

Blank ==
  [epoch_ns |-> 1, eth_src |-> None, eth_dst |-> None, vlan_id |-> None,
   ip_src |-> None, ip_dst |-> None,
   transport |-> "none", src_port |-> None, dst_port |-> None, flags |-> {},
   arp_sender_ip |-> None, arp_reply_ip |-> None, arp_reply_mac |-> None,
   ndp_advertised_ip |-> None, ndp_advertised_mac |-> None, ndp_solicited_ip |-> None,
   dhcp_assigned_ip |-> None, dhcp_assigned_mac |-> None, hostnames |-> {}]

ArpReply(mac, ip, to) ==
  [Blank EXCEPT !.eth_src = mac, !.eth_dst = to,
                !.arp_sender_ip = ip, !.arp_reply_ip = ip, !.arp_reply_mac = mac]

Ip(mac, to, src, dst) ==
  [Blank EXCEPT !.eth_src = mac, !.eth_dst = to, !.ip_src = src, !.ip_dst = dst]

OnVlan(r, v) == [r EXCEPT !.vlan_id = v]

At2(S) == S \cup {[r EXCEPT !.epoch_ns = 2] : r \in S}

\* A LAN with a gateway: ARP on two VLANs, traffic to and from the internet,
\* neighbour discovery, a host without an address, a broadcast DHCP lease of a
\* public address, a second MAC for the PC's address, a host that talks to itself.
LanFrames ==
  At2({ArpReply(PcMac, PC, RouterMac),
       OnVlan(ArpReply(PcMac, PC, Broadcast), 10),
       Ip(PcMac, RouterMac, PC, Remote),
       Ip(RouterMac, PcMac, Remote, PC),
       OnVlan(Ip(OtherMac, RouterMac, PC, Gateway), 0)})
   \cup
      {[Ip(OtherMac, Broadcast, PeerLL, AllNodes) EXCEPT !.ndp_solicited_ip = HostV6],
       Ip(OtherMac, RouterMac, PeerV6, HostV6),
       Ip(None, None, PC, PC),
       Ip(OtherMac, Broadcast, Nobody, Everyone),
       [Ip(RouterMac, Broadcast, Gateway, Everyone)
          EXCEPT !.dhcp_assigned_ip = Remote, !.dhcp_assigned_mac = PcMac,
                 !.hostnames = {<<Remote, "pc.local">>}],
       [Ip(OtherMac, RouterMac, HostV6, PeerV6)
          EXCEPT !.ndp_advertised_ip = HostV6, !.ndp_advertised_mac = OtherMac]}

-----------------------------------------------------------------------------
(* One client and two servers: handshakes, a reused 5-tuple, a datagram.    *)

Tcp(src, sport, dst, dport, flags) ==
  [Ip(PcMac, RouterMac, src, dst)
     EXCEPT !.transport = "tcp", !.src_port = sport, !.dst_port = dport, !.flags = flags]

FlowFrames ==
  {Tcp(PC, 40000, Remote, 443, {"syn"}),
   Tcp(Remote, 443, PC, 40000, {"syn", "ack"}),
   Tcp(PC, 40000, Remote, 443, {"ack", "retransmission"}),
   Tcp(Remote, 443, PC, 40000, {"ack", "rst"}),
   Tcp(Remote, 443, PC, 40000, {"syn"}),
   Tcp(PC, 40000, Gateway, 443, {"ack"}),
   [Tcp(PC, 443, Remote, 443, {}) EXCEPT !.transport = "udp"],
   Tcp(PC, 40000, Remote, None, {}),
   [Ip(PcMac, RouterMac, PC, Remote) EXCEPT !.transport = "icmp"]}

-----------------------------------------------------------------------------
(* The two casts in one run, each with the length its cases need.           *)

LanAndFlowFrames == LanFrames \cup FlowFrames

OneCast ==
  \/ packets \in Seq(LanFrames) /\ Len(packets) <= 3
  \/ packets \in Seq(FlowFrames)

-----------------------------------------------------------------------------
(* Captures of the known disagreements.                                     *)

\* The PC answers ARP on two VLANs.
TwoVlanFrames ==
  {ArpReply(PcMac, PC, RouterMac), OnVlan(ArpReply(PcMac, PC, RouterMac), 10)}

\* The gateway broadcasts a DHCP ACK to a client none of whose own frames were
\* captured, and talks to another host.
BroadcastAckFrames ==
  {[Ip(RouterMac, Broadcast, Gateway, Everyone)
      EXCEPT !.dhcp_assigned_ip = PC, !.dhcp_assigned_mac = PcMac],
   Ip(RouterMac, OtherMac, Gateway, PC)}
=============================================================================
