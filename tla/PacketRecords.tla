---------------------------- MODULE PacketRecords ----------------------------
(***************************************************************************)
(* The boundary between parsing and aggregation                            *)
(* (backend/app/parsing/records.py): what a dissected frame is reduced to. *)
(* Decode makes these records, Aggregator counts them.                     *)
(*                                                                         *)
(* Addresses, MACs, VLAN ids and ports are natural numbers whose order     *)
(* stands for the order of the texts the code sorts; None stands for       *)
(* Python's None.                                                          *)
(***************************************************************************)
EXTENDS Integers, Sequences

CONSTANTS
  Address,      \* IP addresses that can occur in the capture
  Unspecified,  \* the address 0.0.0.0
  Mac,          \* MAC addresses that can occur in the capture
  Vlan,         \* 802.1Q VLAN ids; 0 is a priority tag
  Port,         \* TCP and UDP ports
  Name          \* a hostname together with the source that claimed it

None == -1

Maybe(S) == S \cup {None}

Elements(s) == {s[i] : i \in DOMAIN s}

ASSUME KindsAssumption ==
  /\ Address \subseteq Nat /\ Unspecified \in Nat
  /\ Mac \subseteq Nat
  /\ Vlan \subseteq Nat
  /\ Port \subseteq Nat

Transports == {"tcp", "udp", "icmp", "none"}

Flags == {"syn", "ack", "rst", "retransmission"}

PacketRecord ==
  [epoch_ns : Nat,
   eth_src : Maybe(Mac), eth_dst : Maybe(Mac), vlan_id : Maybe(Vlan),
   ip_src : Maybe(Address), ip_dst : Maybe(Address),
   transport : Transports, src_port : Maybe(Port), dst_port : Maybe(Port),
   flags : SUBSET Flags,
   arp_sender_ip : Maybe(Address),
   arp_reply_ip : Maybe(Address), arp_reply_mac : Maybe(Mac),
   ndp_advertised_ip : Maybe(Address), ndp_advertised_mac : Maybe(Mac),
   ndp_solicited_ip : Maybe(Address),
   dhcp_assigned_ip : Maybe(Address), dhcp_assigned_mac : Maybe(Mac),
   hostnames : SUBSET (Address \X Name)]

(***************************************************************************)
(* What aggregation relies on and Decode provides: a claim has both halves *)
(* or none, an ARP reply repeats the sender of the same frame, no ARP or   *)
(* DHCP claim is about the unspecified address, an IP frame has both       *)
(* addresses, and only a TCP or UDP frame has ports, its source port at    *)
(* least.                                                                  *)
(***************************************************************************)
WellDecoded(r) ==
  /\ r.arp_reply_ip \in {None, r.arp_sender_ip}
  /\ (r.arp_reply_ip = None) <=> (r.arp_reply_mac = None)
  /\ (r.ndp_advertised_ip = None) <=> (r.ndp_advertised_mac = None)
  /\ (r.dhcp_assigned_ip = None) <=> (r.dhcp_assigned_mac = None)
  /\ Unspecified \notin {r.arp_sender_ip, r.dhcp_assigned_ip}
  /\ (r.ip_src = None) <=> (r.ip_dst = None)
  /\ r.transport \in {"icmp", "none"} => r.src_port = None /\ r.dst_port = None
  /\ r.transport \in {"tcp", "udp"} => r.src_port # None
=============================================================================
