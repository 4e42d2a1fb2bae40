---------------------------- MODULE DecodeProofs ----------------------------
(***************************************************************************)
(* Theorems about the decoder, for every set of lines tshark may print and *)
(* every frame it may print them from.                                     *)
(***************************************************************************)
EXTENDS Dissection, SequenceTheorems, WellFoundedInduction, TLAPS

-----------------------------------------------------------------------------
(* Columns.                                                                *)

LEMMA FirstTypes ==
  ASSUME NEW l, NEW f, NEW S, Get(l, f) \in Seq(S)
  PROVE  /\ First(l, f) \in Maybe(S)
         /\ Elements(Get(l, f)) \subseteq S
<1>1. ASSUME Get(l, f) # <<>>
      PROVE  Get(l, f)[1] \in S
  <2> DEFINE g == Get(l, f)
  <2>1. g \in Seq(S) /\ g # <<>>
    BY <1>1
  <2> HIDE DEF g
  <2>2. g[1] \in S
    BY <2>1
  <2> QED
    BY <2>2 DEF g
<1>2. Elements(Get(l, f)) \subseteq S
  BY DEF Elements
<1> QED
  BY <1>1, <1>2 DEF First, Maybe

LEMMA AddressTypes ==
  ASSUME NEW l \in Lines, NEW f \in AddressFields
  PROVE  First(l, f) \in Maybe(Address)
  BY LinesAssumption, FirstTypes

LEMMA MacTypes ==
  ASSUME NEW l \in Lines, NEW f \in MacFields
  PROVE  First(l, f) \in Maybe(Mac)
  BY LinesAssumption, FirstTypes

LEMMA TextTypes ==
  ASSUME NEW l \in Lines, NEW f \in TextFields
  PROVE  First(l, f) \in Maybe(Text)
  BY LinesAssumption, FirstTypes

\* A text where a number should be counts as nothing.
LEMMA IntTypes ==
  ASSUME NEW l, NEW f, NEW S, Get(l, f) \in Seq(S \cup {Junk})
  PROVE  IntOf(l, f) \in Maybe(S)
<1>1. First(l, f) \in Maybe(S \cup {Junk})
  BY FirstTypes
<1> QED
  BY <1>1 DEF IntOf, AsInt, Maybe

LEMMA PortTypes ==
  ASSUME NEW l \in Lines, NEW f \in PortFields
  PROVE  IntOf(l, f) \in Maybe(Port)
  BY LinesAssumption, IntTypes

LEMMA TimeTypes ==
  ASSUME NEW l \in Lines, Usable(l)
  PROVE  First(l, "frame.time_epoch") \in Nat
<1>1. First(l, "frame.time_epoch") \in Maybe(Nat \cup {Junk})
  BY LinesAssumption, FirstTypes
<1>2. IntOf(l, "frame.time_epoch") # None
  BY DEF Usable
<1> QED
  BY <1>1, <1>2 DEF IntOf, AsInt, Maybe

-----------------------------------------------------------------------------
(* The parts of a record.                                                  *)

\* An IP frame has both addresses.
LEMMA EndsTypes ==
  ASSUME NEW l \in Lines
  PROVE  /\ EndsOf(l).src \in Maybe(Address)
         /\ EndsOf(l).dst \in Maybe(Address)
         /\ (EndsOf(l).src = None) <=> (EndsOf(l).dst = None)
<1>1. /\ First(l, "ip.src") \in Maybe(Address) /\ First(l, "ip.dst") \in Maybe(Address)
      /\ First(l, "ipv6.src") \in Maybe(Address) /\ First(l, "ipv6.dst") \in Maybe(Address)
  BY AddressTypes DEF AddressFields
<1> QED
  BY <1>1 DEF EndsOf, Maybe

\* Only a TCP or UDP frame has ports, and it has a source port.
LEMMA TransportTypes ==
  ASSUME NEW l \in Lines
  PROVE  /\ TransportOf(l).name \in Transports
         /\ TransportOf(l).src \in Maybe(Port)
         /\ TransportOf(l).dst \in Maybe(Port)
         /\ TransportOf(l).name \in {"icmp", "none"} =>
              TransportOf(l).src = None /\ TransportOf(l).dst = None
         /\ TransportOf(l).name \in {"tcp", "udp"} => TransportOf(l).src # None
<1>1. /\ IntOf(l, "tcp.srcport") \in Maybe(Port) /\ IntOf(l, "tcp.dstport") \in Maybe(Port)
      /\ IntOf(l, "udp.srcport") \in Maybe(Port) /\ IntOf(l, "udp.dstport") \in Maybe(Port)
  BY PortTypes DEF PortFields
<1>2. None \in Maybe(Port)
  BY DEF Maybe
<1> QED
  BY <1>1, <1>2 DEF TransportOf, Transports

\* Both halves of a claim, or none.
LEMMA PairTypes ==
  ASSUME NEW ip \in Maybe(Address), NEW mac \in Maybe(Mac), NEW rejected
  PROVE  LET pair == BindingPair(ip, mac, rejected)
         IN  /\ pair.ip \in Maybe(Address) \ (rejected \ {None})
             /\ pair.mac \in Maybe(Mac)
             /\ (pair.ip = None) <=> (pair.mac = None)
<1>1. None \in Maybe(Address) /\ None \in Maybe(Mac)
  BY DEF Maybe
<1> QED
  BY <1>1 DEF BindingPair, NoPair

LEMMA NoPairTypes ==
  /\ NoPair.ip = None /\ NoPair.mac = None
  /\ None \in Maybe(Address) /\ None \in Maybe(Mac)
  BY DEF NoPair, Maybe

LEMMA SenderTypes ==
  ASSUME NEW l \in Lines
  PROVE  /\ Sender(l).ip \in Maybe(Address) \ {Unspecified}
         /\ Sender(l).mac \in Maybe(Mac)
         /\ (Sender(l).ip = None) <=> (Sender(l).mac = None)
<1>1. First(l, "arp.src.proto_ipv4") \in Maybe(Address) /\ First(l, "arp.src.hw_mac") \in Maybe(Mac)
  BY AddressTypes, MacTypes DEF AddressFields, MacFields
<1>2. Unspecified # None
  BY KindsAssumption DEF None
<1> QED
  BY <1>1, <1>2, PairTypes DEF Sender

LEMMA RepliedTypes ==
  ASSUME NEW l \in Lines
  PROVE  /\ Replied(l).ip \in {None, Sender(l).ip}
         /\ Replied(l).ip \in Maybe(Address)
         /\ Replied(l).mac \in Maybe(Mac)
         /\ (Replied(l).ip = None) <=> (Replied(l).mac = None)
  BY SenderTypes, NoPairTypes DEF Replied

LEMMA AdvertisedTypes ==
  ASSUME NEW l \in Lines
  PROVE  /\ Advertised(l).ip \in Maybe(Address)
         /\ Advertised(l).mac \in Maybe(Mac)
         /\ (Advertised(l).ip = None) <=> (Advertised(l).mac = None)
<1>1. /\ First(l, "icmpv6.nd.na.target_address") \in Maybe(Address)
      /\ First(l, "icmpv6.opt.linkaddr") \in Maybe(Mac)
  BY AddressTypes, MacTypes DEF AddressFields, MacFields
<1> QED
  BY <1>1, PairTypes, NoPairTypes DEF Advertised

LEMMA AssignedTypes ==
  ASSUME NEW l \in Lines
  PROVE  /\ Assigned(l).ip \in Maybe(Address) \ {Unspecified}
         /\ Assigned(l).mac \in Maybe(Mac)
         /\ (Assigned(l).ip = None) <=> (Assigned(l).mac = None)
<1>1. First(l, "dhcp.ip.your") \in Maybe(Address) /\ First(l, "dhcp.hw.mac_addr") \in Maybe(Mac)
  BY AddressTypes, MacTypes DEF AddressFields, MacFields
<1>2. Unspecified # None
  BY KindsAssumption DEF None
<1> QED
  BY <1>1, <1>2, PairTypes, NoPairTypes DEF Assigned

LEMMA SolicitedTypes ==
  ASSUME NEW l \in Lines
  PROVE  Solicited(l) \in Maybe(Address)
<1>1. First(l, "icmpv6.nd.ns.target_address") \in Maybe(Address)
  BY AddressTypes DEF AddressFields
<1> QED
  BY <1>1 DEF Solicited, Maybe

-----------------------------------------------------------------------------
(* Names.                                                                  *)

LEMMA ClaimedTypes ==
  ASSUME NEW a \in Maybe(Address), NEW t \in Maybe(Text), NEW s \in Sources
  PROVE  Claimed(a, t, s) \subseteq Address \X Name
<1>1. ASSUME a # None, t # None
      PROVE  <<a, <<t, s>>>> \in Address \X Name
  <2>1. <<t, s>> \in Name
    BY <1>1, TextAssumption DEF Maybe
  <2> QED
    BY <1>1, <2>1 DEF Maybe
<1> QED
  BY <1>1 DEF Claimed

LEMMA DnsTypes ==
  ASSUME NEW l \in Lines
  PROVE  DnsClaims(l) \subseteq Address \X Name
<1> DEFINE source == IF IsMdns(l) THEN "mdns" ELSE "dns_ptr"
           answers == Get(l, "dns.ptr.domain_name")
<1>1. source \in Sources
  BY DEF Sources
<1>2. /\ Get(l, "dns.qry.name") \in Seq(Text)
      /\ answers \in Seq(Text)
  BY LinesAssumption DEF TextFields
<1>3. \A i \in DOMAIN answers : answers[i] \in Maybe(Text)
  <2> HIDE DEF answers
  <2> QED
    BY <1>2 DEF Maybe
<1>4. \A i \in DOMAIN answers : Question(l, i) \subseteq Text
  <2>1. ASSUME NEW i \in DOMAIN answers
        PROVE  Question(l, i) \subseteq Text
    <3> DEFINE queries == Get(l, "dns.qry.name")
    <3>1. queries \in Seq(Text)
      BY <1>2
    <3>2. i \in Nat \ {0}
      <4> HIDE DEF answers
      <4> QED
        BY <1>2
    <3> HIDE DEF queries
    <3>3. /\ i <= Len(queries) => queries[i] \in Text
          /\ \A j \in DOMAIN queries : queries[j] \in Text
      BY <3>1, <3>2
    <3> QED
      BY <3>3 DEF Question, queries
  <2> QED
    BY <2>1
<1>5. \A q \in Text : Arpa[q] \in Maybe(Address)
  BY TextAssumption
<1>6. \A i \in DOMAIN answers : \A q \in Question(l, i) :
        Claimed(Arpa[q], answers[i], source) \subseteq Address \X Name
  <2> HIDE DEF source, answers
  <2> QED
    BY <1>1, <1>3, <1>4, <1>5, ClaimedTypes
<1>7. DnsClaims(l) =
        UNION {UNION {Claimed(Arpa[q], answers[i], source) : q \in Question(l, i)} : i \in DOMAIN answers}
  BY DEF DnsClaims
<1> HIDE DEF source, answers
<1> QED
  BY <1>6, <1>7

LEMMA MdnsTypes ==
  ASSUME NEW l \in Lines
  PROVE  MdnsClaims(l) \subseteq Address \X Name
<1>1. Get(l, "dns.a") \in Seq(Address)
  BY LinesAssumption DEF AddressFields
<1>2. Elements(Get(l, "dns.a")) \subseteq Maybe(Address)
  BY <1>1, FirstTypes DEF Maybe
<1>3. First(l, "dns.qry.name") \in Maybe(Text)
  BY TextTypes DEF TextFields
<1>4. \A a \in Elements(Get(l, "dns.a")) :
        Claimed(a, First(l, "dns.qry.name"), "mdns") \subseteq Address \X Name
  BY <1>2, <1>3, ClaimedTypes DEF Sources
<1> QED
  BY <1>4 DEF MdnsClaims

LEMMA NameTypes ==
  ASSUME NEW l \in Lines
  PROVE  HostnamesOf(l) \subseteq Address \X Name
<1>1. /\ First(l, "tls.handshake.extensions_server_name") \in Maybe(Text)
      /\ First(l, "http.host") \in Maybe(Text)
      /\ First(l, "dhcp.option.hostname") \in Maybe(Text)
      /\ First(l, "nbns.name") \in Maybe(Text)
  BY TextTypes DEF TextFields
<1>2. EndsOf(l).src \in Maybe(Address) /\ EndsOf(l).dst \in Maybe(Address)
  BY EndsTypes
<1>3. Client(l) \in Maybe(Address)
  BY <1>2, AssignedTypes DEF Client, Maybe
<1>4. {"tls_sni", "http_host", "dhcp_option_12", "nbns"} \subseteq Sources
  BY DEF Sources
<1>5. Claimed(EndsOf(l).dst, First(l, "tls.handshake.extensions_server_name"), "tls_sni")
        \subseteq Address \X Name
  BY <1>1, <1>2, <1>4, ClaimedTypes
<1>6. Claimed(EndsOf(l).dst, First(l, "http.host"), "http_host") \subseteq Address \X Name
  BY <1>1, <1>2, <1>4, ClaimedTypes
<1>7. Claimed(Client(l), First(l, "dhcp.option.hostname"), "dhcp_option_12") \subseteq Address \X Name
  BY <1>1, <1>3, <1>4, ClaimedTypes
<1>8. Claimed(EndsOf(l).src, First(l, "nbns.name"), "nbns") \subseteq Address \X Name
  BY <1>1, <1>2, <1>4, ClaimedTypes
<1> QED
  BY <1>5, <1>6, <1>7, <1>8, DnsTypes, MdnsTypes DEF HostnamesOf

-----------------------------------------------------------------------------
(* The record.                                                             *)

LEMMA RecordTypes ==
  ASSUME NEW l \in Lines, Usable(l)
  PROVE  RecordOf(l) \in PacketRecord
<1>1. First(l, "frame.time_epoch") \in Nat
  BY TimeTypes
<1>2. First(l, "eth.src") \in Maybe(Mac) /\ First(l, "eth.dst") \in Maybe(Mac)
  BY MacTypes DEF MacFields
<1>3. IntOf(l, "vlan.id") \in Maybe(Vlan)
  BY LinesAssumption, IntTypes
<1>4. FlagsOf(l) \subseteq Flags
  BY DEF FlagsOf
<1>5. /\ Sender(l).ip \in Maybe(Address)
      /\ Assigned(l).ip \in Maybe(Address) /\ Assigned(l).mac \in Maybe(Mac)
  BY SenderTypes, AssignedTypes
<1> QED
  BY <1>1, <1>2, <1>3, <1>4, <1>5, EndsTypes, TransportTypes, RepliedTypes, AdvertisedTypes,
     SolicitedTypes, NameTypes
  DEF RecordOf, PacketRecord

LEMMA RecordWellDecoded ==
  ASSUME NEW l \in Lines
  PROVE  WellDecoded(RecordOf(l))
<1>1. Unspecified \notin {Sender(l).ip, Assigned(l).ip}
  BY SenderTypes, AssignedTypes
<1>2. (Assigned(l).ip = None) <=> (Assigned(l).mac = None)
  BY AssignedTypes
<1> QED
  BY <1>1, <1>2, EndsTypes, TransportTypes, RepliedTypes, AdvertisedTypes DEF RecordOf, WellDecoded

\* Whatever the lines lack or hold, aggregation gets only records in which both
\* halves of a claim are there or neither is, no ARP or DHCP claim is about
\* 0.0.0.0, both ends of an IP frame are known, ports come with TCP or UDP, and
\* every name is claimed for an address of the capture.
THEOREM AggregationIsFedWellDecoded == Spec => []RecordsAreWellDecoded
<1>1. Init => RecordsAreWellDecoded
  BY DEF Init, RecordsAreWellDecoded
<1>2. RecordsAreWellDecoded /\ [Next]_vars => RecordsAreWellDecoded'
  <2> SUFFICES ASSUME RecordsAreWellDecoded, [Next]_vars
               PROVE  RecordsAreWellDecoded'
    OBVIOUS
  <2>1. ASSUME NEW l \in Lines, Skip(l)
        PROVE  RecordsAreWellDecoded'
    BY <2>1 DEF Skip, RecordsAreWellDecoded
  <2>2. ASSUME NEW l \in Lines, Yield(l)
        PROVE  RecordsAreWellDecoded'
    <3>1. Usable(l) /\ yielded' = {RecordOf(l)}
      BY <2>2 DEF Yield
    <3>2. RecordOf(l) \in PacketRecord /\ WellDecoded(RecordOf(l))
      BY <3>1, RecordTypes, RecordWellDecoded
    <3> QED
      BY <3>1, <3>2 DEF RecordsAreWellDecoded
  <2>3. CASE UNCHANGED vars
    BY <2>3 DEF vars, RecordsAreWellDecoded
  <2> QED
    BY <2>1, <2>2, <2>3 DEF Next
<1> QED
  BY <1>1, <1>2, PTL DEF Spec

-----------------------------------------------------------------------------
(* Truncated lines.                                                        *)

LEMMA FieldsDistinct ==
  /\ DOMAIN Fields = 1 .. 37
  /\ \A i, j \in 1 .. 37 : Fields[i] = Fields[j] => i = j
  BY DEF Fields

\* Column n of a line holds field f.
Column(f, n) == f \in Elements(Fields) /\ Index[f] = n /\ n \in 1 .. 37

LEMMA ColumnAt ==
  ASSUME NEW n \in 1 .. 37
  PROVE  Column(Fields[n], n)
<1>1. Fields[n] \in Elements(Fields)
  BY FieldsDistinct DEF Elements
<1>2. Index[Fields[n]] = CHOOSE i \in DOMAIN Fields : Fields[i] = Fields[n]
  BY <1>1 DEF Index
<1> QED
  BY <1>1, <1>2, FieldsDistinct DEF Column

LEMMA Columns ==
  /\ Column("frame.number", 1) /\ Column("frame.time_epoch", 2)
  /\ Column("frame.len", 3) /\ Column("frame.protocols", 4)
  /\ Column("eth.src", 5) /\ Column("eth.dst", 6)
  /\ Column("vlan.id", 7) /\ Column("ip.src", 8)
  /\ Column("ip.dst", 9) /\ Column("ipv6.src", 10)
  /\ Column("ipv6.dst", 11) /\ Column("tcp.srcport", 12)
  /\ Column("tcp.dstport", 13) /\ Column("tcp.flags.syn", 14)
  /\ Column("tcp.flags.ack", 15) /\ Column("tcp.flags.reset", 16)
  /\ Column("tcp.analysis.retransmission", 17) /\ Column("udp.srcport", 18)
  /\ Column("udp.dstport", 19) /\ Column("icmp.type", 20)
  /\ Column("icmpv6.type", 21) /\ Column("arp.opcode", 22)
  /\ Column("arp.src.hw_mac", 23) /\ Column("arp.src.proto_ipv4", 24)
  /\ Column("icmpv6.nd.na.target_address", 25) /\ Column("icmpv6.nd.ns.target_address", 26)
  /\ Column("icmpv6.opt.linkaddr", 27) /\ Column("dhcp.option.dhcp", 28)
  /\ Column("dhcp.ip.your", 29) /\ Column("dhcp.hw.mac_addr", 30)
  /\ Column("dhcp.option.hostname", 31) /\ Column("tls.handshake.extensions_server_name", 32)
  /\ Column("http.host", 33) /\ Column("dns.qry.name", 34)
  /\ Column("dns.a", 35) /\ Column("dns.ptr.domain_name", 36)
  /\ Column("nbns.name", 37)
<1> USE ColumnAt
<1> QED
  BY DEF Fields

\* l is w, or what is left of it.
CutOf(l, w) ==
  /\ l \in Seq(Seq(Int)) /\ Len(w) = 37 /\ Len(l) <= Len(w)
  /\ \A i \in 1 .. Len(l) : l[i] = w[i]

\* What was cut off is empty, and what was not is as it was.
LEMMA CutColumns ==
  ASSUME NEW l, NEW w, CutOf(l, w), NEW f, NEW i, Column(f, i)
  PROVE  IF i <= Len(l)
         THEN Get(l, f) = Get(w, f) /\ First(l, f) = First(w, f) /\ IntOf(l, f) = IntOf(w, f)
         ELSE Get(l, f) = <<>> /\ First(l, f) = None /\ IntOf(l, f) = None
<1>1. Len(l) \in Nat /\ i \in 1 .. 37 /\ Index[f] = i /\ Len(w) = 37
  BY DEF CutOf, Column
<1>2. CASE i <= Len(l)
  <2>1. Get(l, f) = Get(w, f)
    BY <1>1, <1>2 DEF Get, CutOf
  <2> QED
    BY <1>2, <2>1 DEF First, IntOf
<1>3. CASE ~(i <= Len(l))
  <2>1. Get(l, f) = <<>>
    BY <1>1, <1>3 DEF Get
  <2>2. First(l, f) = None
    BY <2>1 DEF First
  <2>3. IntOf(l, f) = None
    BY <2>2 DEF IntOf, AsInt, None, Junk
  <2> QED
    BY <1>3, <2>1, <2>2, <2>3
<1> QED
  BY <1>2, <1>3

LEMMA EndsCut ==
  ASSUME NEW l, NEW w, CutOf(l, w)
  PROVE  EndsOf(l) = EndsOf(w) \/ (Len(l) < 11 /\ EndsOf(l) = [src |-> None, dst |-> None])
<1>1. /\ Len(l) \in Nat /\ Column("ip.src", 8) /\ Column("ip.dst", 9)
      /\ Column("ipv6.src", 10) /\ Column("ipv6.dst", 11)
  BY Columns DEF CutOf
<1>2. CASE Len(l) >= 11
  <2>1. /\ First(l, "ip.src") = First(w, "ip.src") /\ First(l, "ip.dst") = First(w, "ip.dst")
        /\ First(l, "ipv6.src") = First(w, "ipv6.src")
        /\ First(l, "ipv6.dst") = First(w, "ipv6.dst")
    BY <1>1, <1>2, CutColumns
  <2> QED
    BY <2>1 DEF EndsOf
<1>3. CASE 9 <= Len(l) /\ Len(l) < 11
  <2>1. /\ First(l, "ip.src") = First(w, "ip.src") /\ First(l, "ip.dst") = First(w, "ip.dst")
        /\ First(l, "ipv6.dst") = None
    BY <1>1, <1>3, CutColumns
  <2> QED
    BY <1>3, <2>1 DEF EndsOf
<1>4. CASE Len(l) < 9
  <2>1. First(l, "ip.dst") = None /\ First(l, "ipv6.dst") = None
    BY <1>1, <1>4, CutColumns
  <2> QED
    BY <1>1, <1>4, <2>1 DEF EndsOf
<1> QED
  BY <1>1, <1>2, <1>3, <1>4

LEMMA TransportCut ==
  ASSUME NEW l, NEW w, CutOf(l, w)
  PROVE  /\ Len(l) >= 21 => TransportOf(l) = TransportOf(w)
         /\ TransportOf(l).name \in {"none", TransportOf(w).name}
         /\ TransportOf(l).src \in {None, TransportOf(w).src}
         /\ TransportOf(l).dst \in {None, TransportOf(w).dst}
<1> DEFINE n == Len(l)
<1>1. n \in Nat
  BY DEF CutOf
<1>2. IF 12 <= n THEN IntOf(l, "tcp.srcport") = IntOf(w, "tcp.srcport")
      ELSE IntOf(l, "tcp.srcport") = None
  <2>1. Column("tcp.srcport", 12)
    BY Columns
  <2> QED
    BY <2>1, CutColumns
<1>3. IF 13 <= n THEN IntOf(l, "tcp.dstport") = IntOf(w, "tcp.dstport")
      ELSE IntOf(l, "tcp.dstport") = None
  <2>1. Column("tcp.dstport", 13)
    BY Columns
  <2> QED
    BY <2>1, CutColumns
<1>4. IF 18 <= n THEN IntOf(l, "udp.srcport") = IntOf(w, "udp.srcport")
      ELSE IntOf(l, "udp.srcport") = None
  <2>1. Column("udp.srcport", 18)
    BY Columns
  <2> QED
    BY <2>1, CutColumns
<1>5. IF 19 <= n THEN IntOf(l, "udp.dstport") = IntOf(w, "udp.dstport")
      ELSE IntOf(l, "udp.dstport") = None
  <2>1. Column("udp.dstport", 19)
    BY Columns
  <2> QED
    BY <2>1, CutColumns
<1>6. IF 20 <= n THEN Get(l, "icmp.type") = Get(w, "icmp.type") ELSE Get(l, "icmp.type") = <<>>
  <2>1. Column("icmp.type", 20)
    BY Columns
  <2> QED
    BY <2>1, CutColumns
<1>7. IF 21 <= n THEN Get(l, "icmpv6.type") = Get(w, "icmpv6.type") ELSE Get(l, "icmpv6.type") = <<>>
  <2>1. Column("icmpv6.type", 21)
    BY Columns
  <2> QED
    BY <2>1, CutColumns
<1> HIDE DEF n
<1>8. CASE n >= 21
  BY <1>1, <1>2, <1>3, <1>4, <1>5, <1>6, <1>7, <1>8 DEF TransportOf, n
<1>9. CASE n < 21
  <2>1. CASE IntOf(l, "tcp.srcport") # None
    <3>1. 12 <= n /\ IntOf(w, "tcp.srcport") = IntOf(l, "tcp.srcport")
      BY <1>2, <2>1
    <3>2. TransportOf(w) = [name |-> "tcp", src |-> IntOf(l, "tcp.srcport"),
                            dst |-> IntOf(w, "tcp.dstport")]
      BY <2>1, <3>1 DEF TransportOf
    <3>3. TransportOf(l) = [name |-> "tcp", src |-> IntOf(l, "tcp.srcport"),
                            dst |-> IntOf(l, "tcp.dstport")]
      BY <2>1 DEF TransportOf
    <3> QED
      BY <1>1, <1>3, <1>9, <3>2, <3>3 DEF n
  <2>2. CASE IntOf(l, "tcp.srcport") = None /\ IntOf(l, "udp.srcport") # None
    <3>1. 18 <= n /\ IntOf(w, "udp.srcport") = IntOf(l, "udp.srcport")
      BY <1>4, <2>2
    <3>2. IntOf(w, "tcp.srcport") = None
      BY <1>1, <1>2, <2>2, <3>1
    <3>3. TransportOf(w) = [name |-> "udp", src |-> IntOf(l, "udp.srcport"),
                            dst |-> IntOf(w, "udp.dstport")]
      BY <2>2, <3>1, <3>2 DEF TransportOf
    <3>4. TransportOf(l) = [name |-> "udp", src |-> IntOf(l, "udp.srcport"),
                            dst |-> IntOf(l, "udp.dstport")]
      BY <2>2 DEF TransportOf
    <3> QED
      BY <1>1, <1>5, <1>9, <3>3, <3>4 DEF n
  <2>3. CASE IntOf(l, "tcp.srcport") = None /\ IntOf(l, "udp.srcport") = None
    <3>1. TransportOf(l).src = None /\ TransportOf(l).dst = None
      BY <2>3 DEF TransportOf
    <3>2. CASE Get(l, "icmp.type") = <<>>
      <4>1. Get(l, "icmpv6.type") = <<>>
        BY <1>1, <1>7, <1>9
      <4>2. TransportOf(l).name = "none"
        BY <2>3, <3>2, <4>1 DEF TransportOf
      <4> QED
        BY <1>1, <1>9, <3>1, <4>2 DEF n
    <3>3. CASE Get(l, "icmp.type") # <<>>
      <4>1. 20 <= n /\ Get(w, "icmp.type") = Get(l, "icmp.type")
        BY <1>6, <3>3
      <4>2. IntOf(w, "tcp.srcport") = None /\ IntOf(w, "udp.srcport") = None
        BY <1>1, <1>2, <1>4, <2>3, <4>1
      <4>3. TransportOf(w).name = "icmp" /\ TransportOf(l).name = "icmp"
        BY <2>3, <3>3, <4>1, <4>2 DEF TransportOf
      <4> QED
        BY <1>1, <1>9, <3>1, <4>3 DEF n
    <3> QED
      BY <3>2, <3>3
  <2> QED
    BY <2>1, <2>2, <2>3
<1> QED
  BY <1>1, <1>8, <1>9

LEMMA FlagsCut ==
  ASSUME NEW l, NEW w, CutOf(l, w)
  PROVE  FlagsOf(l) \subseteq FlagsOf(w)
<1>1. /\ First(l, "tcp.flags.syn") \in {None, First(w, "tcp.flags.syn")}
      /\ First(l, "tcp.flags.ack") \in {None, First(w, "tcp.flags.ack")}
      /\ First(l, "tcp.flags.reset") \in {None, First(w, "tcp.flags.reset")}
  <2>1. /\ Column("tcp.flags.syn", 14)
        /\ Column("tcp.flags.ack", 15)
        /\ Column("tcp.flags.reset", 16)
    BY Columns
  <2> QED
    BY <2>1, CutColumns
<1>2. Get(l, "tcp.analysis.retransmission") \in {<<>>, Get(w, "tcp.analysis.retransmission")}
  <2>1. Column("tcp.analysis.retransmission", 17)
    BY Columns
  <2> QED
    BY <2>1, CutColumns
<1> SUFFICES ASSUME NEW f \in FlagsOf(l)
             PROVE  f \in FlagsOf(w)
  OBVIOUS
<1>3. CASE f = "retransmission"
  BY <1>2, <1>3 DEF FlagsOf
<1>4. CASE f = "syn"
  BY <1>1, <1>4 DEF FlagsOf, None
<1>5. CASE f = "ack"
  BY <1>1, <1>5 DEF FlagsOf, None
<1>6. CASE f = "rst"
  BY <1>1, <1>6 DEF FlagsOf, None
<1> QED
  BY <1>3, <1>4, <1>5, <1>6 DEF FlagsOf, Flags

LEMMA SenderCut ==
  ASSUME NEW l, NEW w, CutOf(l, w)
  PROVE  Sender(l) = Sender(w) \/ (Len(l) < 24 /\ Sender(l) = NoPair)
<1>1. /\ Len(l) \in Nat /\ Column("arp.src.hw_mac", 23) /\ Column("arp.src.proto_ipv4", 24)
  BY Columns DEF CutOf
<1>2. CASE Len(l) >= 24
  <2>1. /\ First(l, "arp.src.hw_mac") = First(w, "arp.src.hw_mac")
        /\ First(l, "arp.src.proto_ipv4") = First(w, "arp.src.proto_ipv4")
    BY <1>1, <1>2, CutColumns
  <2> QED
    BY <2>1 DEF Sender
<1>3. CASE Len(l) < 24
  <2>1. First(l, "arp.src.proto_ipv4") = None
    BY <1>1, <1>3, CutColumns
  <2> QED
    BY <1>3, <2>1 DEF Sender, BindingPair
<1> QED
  BY <1>1, <1>2, <1>3

LEMMA RepliedCut ==
  ASSUME NEW l, NEW w, CutOf(l, w)
  PROVE  Replied(l) \in {NoPair, Replied(w)}
<1>1. First(l, "arp.opcode") \in {None, First(w, "arp.opcode")}
  <2>1. Column("arp.opcode", 22)
    BY Columns
  <2> QED
    BY <2>1, CutColumns
<1> QED
  BY <1>1, SenderCut DEF Replied, ArpReply, None

LEMMA AdvertisedCut ==
  ASSUME NEW l, NEW w, CutOf(l, w)
  PROVE  Advertised(l) \in {NoPair, Advertised(w)}
<1>1. /\ Len(l) \in Nat /\ Column("icmpv6.type", 21) /\ Column("icmpv6.nd.na.target_address", 25)
      /\ Column("icmpv6.opt.linkaddr", 27)
  BY Columns DEF CutOf
<1>2. CASE Len(l) >= 27
  <2>1. /\ First(l, "icmpv6.type") = First(w, "icmpv6.type")
        /\ First(l, "icmpv6.nd.na.target_address") = First(w, "icmpv6.nd.na.target_address")
        /\ First(l, "icmpv6.opt.linkaddr") = First(w, "icmpv6.opt.linkaddr")
    BY <1>1, <1>2, CutColumns
  <2> QED
    BY <2>1 DEF Advertised
<1>3. CASE Len(l) < 27
  <2>1. First(l, "icmpv6.opt.linkaddr") = None
    BY <1>1, <1>3, CutColumns
  <2> QED
    BY <2>1 DEF Advertised, BindingPair
<1> QED
  BY <1>1, <1>2, <1>3

LEMMA AssignedCut ==
  ASSUME NEW l, NEW w, CutOf(l, w)
  PROVE  Assigned(l) = Assigned(w) \/ (Len(l) < 30 /\ Assigned(l) = NoPair)
<1>1. /\ Len(l) \in Nat /\ Column("dhcp.option.dhcp", 28) /\ Column("dhcp.ip.your", 29)
      /\ Column("dhcp.hw.mac_addr", 30)
  BY Columns DEF CutOf
<1>2. CASE Len(l) >= 30
  <2>1. /\ First(l, "dhcp.option.dhcp") = First(w, "dhcp.option.dhcp")
        /\ First(l, "dhcp.ip.your") = First(w, "dhcp.ip.your")
        /\ First(l, "dhcp.hw.mac_addr") = First(w, "dhcp.hw.mac_addr")
    BY <1>1, <1>2, CutColumns
  <2> QED
    BY <2>1 DEF Assigned
<1>3. CASE Len(l) < 30
  <2>1. First(l, "dhcp.hw.mac_addr") = None
    BY <1>1, <1>3, CutColumns
  <2> QED
    BY <1>3, <2>1 DEF Assigned, BindingPair
<1> QED
  BY <1>1, <1>2, <1>3

LEMMA SolicitedCut ==
  ASSUME NEW l, NEW w, CutOf(l, w)
  PROVE  Solicited(l) \in {None, Solicited(w)}
<1>1. /\ Len(l) \in Nat /\ Column("icmpv6.type", 21) /\ Column("icmpv6.nd.ns.target_address", 26)
  BY Columns DEF CutOf
<1>2. CASE Len(l) >= 26
  <2>1. /\ First(l, "icmpv6.type") = First(w, "icmpv6.type")
        /\ First(l, "icmpv6.nd.ns.target_address") = First(w, "icmpv6.nd.ns.target_address")
    BY <1>1, <1>2, CutColumns
  <2> QED
    BY <2>1 DEF Solicited
<1>3. CASE Len(l) < 26
  <2>1. First(l, "icmpv6.nd.ns.target_address") = None
    BY <1>1, <1>3, CutColumns
  <2> QED
    BY <2>1 DEF Solicited
<1> QED
  BY <1>1, <1>2, <1>3

\* A claim whose text was cut off is no claim.
LEMMA NoText ==
  ASSUME NEW a, NEW source
  PROVE  Claimed(a, None, source) = {}
  BY DEF Claimed

LEMMA NamesCut ==
  ASSUME NEW l, NEW w, CutOf(l, w)
  PROVE  HostnamesOf(l) \subseteq HostnamesOf(w)
<1> DEFINE n == Len(l)
           Tls(x) == Claimed(EndsOf(x).dst, First(x, "tls.handshake.extensions_server_name"), "tls_sni")
           Http(x) == Claimed(EndsOf(x).dst, First(x, "http.host"), "http_host")
           Dhcp(x) == Claimed(Client(x), First(x, "dhcp.option.hostname"), "dhcp_option_12")
           Nbns(x) == Claimed(EndsOf(x).src, First(x, "nbns.name"), "nbns")
<1>1. n \in Nat
  BY DEF CutOf
<1>2. n >= 11 => EndsOf(l) = EndsOf(w)
  BY <1>1, EndsCut
<1>3. n >= 30 => Client(l) = Client(w)
  BY <1>1, <1>2, AssignedCut DEF Client
<1>4. n >= 21 => IsMdns(l) = IsMdns(w)
  <2> SUFFICES ASSUME n >= 21 PROVE IsMdns(l) = IsMdns(w)
    OBVIOUS
  <2>1. TransportOf(l) = TransportOf(w)
    BY TransportCut
  <2>2. First(l, "frame.protocols") = First(w, "frame.protocols")
    <3>1. Column("frame.protocols", 4) /\ 4 <= n
      BY <1>1, Columns
    <3> QED
      BY <3>1, CutColumns
  <2> QED
    BY <2>1, <2>2 DEF IsMdns
<1>5. Tls(l) \subseteq Tls(w)
  <2>1. CASE 32 <= n
    <3>1. First(l, "tls.handshake.extensions_server_name")
            = First(w, "tls.handshake.extensions_server_name")
      <4>1. Column("tls.handshake.extensions_server_name", 32)
        BY Columns
      <4> QED
        BY <2>1, <4>1, CutColumns
    <3> QED
      BY <1>1, <1>2, <2>1, <3>1
  <2>2. CASE ~(32 <= n)
    <3>1. First(l, "tls.handshake.extensions_server_name") = None
      <4>1. Column("tls.handshake.extensions_server_name", 32)
        BY Columns
      <4> QED
        BY <2>2, <4>1, CutColumns
    <3> QED
      BY <3>1, NoText
  <2> QED
    BY <2>1, <2>2
<1>6. Http(l) \subseteq Http(w)
  <2>1. CASE 33 <= n
    <3>1. First(l, "http.host") = First(w, "http.host")
      <4>1. Column("http.host", 33)
        BY Columns
      <4> QED
        BY <2>1, <4>1, CutColumns
    <3> QED
      BY <1>1, <1>2, <2>1, <3>1
  <2>2. CASE ~(33 <= n)
    <3>1. First(l, "http.host") = None
      <4>1. Column("http.host", 33)
        BY Columns
      <4> QED
        BY <2>2, <4>1, CutColumns
    <3> QED
      BY <3>1, NoText
  <2> QED
    BY <2>1, <2>2
<1>7. Dhcp(l) \subseteq Dhcp(w)
  <2>1. CASE 31 <= n
    <3>1. First(l, "dhcp.option.hostname") = First(w, "dhcp.option.hostname")
      <4>1. Column("dhcp.option.hostname", 31)
        BY Columns
      <4> QED
        BY <2>1, <4>1, CutColumns
    <3> QED
      BY <1>1, <1>3, <2>1, <3>1
  <2>2. CASE ~(31 <= n)
    <3>1. First(l, "dhcp.option.hostname") = None
      <4>1. Column("dhcp.option.hostname", 31)
        BY Columns
      <4> QED
        BY <2>2, <4>1, CutColumns
    <3> QED
      BY <3>1, NoText
  <2> QED
    BY <2>1, <2>2
<1>8. Nbns(l) \subseteq Nbns(w)
  <2>1. CASE 37 <= n
    <3>1. First(l, "nbns.name") = First(w, "nbns.name")
      <4>1. Column("nbns.name", 37)
        BY Columns
      <4> QED
        BY <2>1, <4>1, CutColumns
    <3> QED
      BY <1>1, <1>2, <2>1, <3>1
  <2>2. CASE ~(37 <= n)
    <3>1. First(l, "nbns.name") = None
      <4>1. Column("nbns.name", 37)
        BY Columns
      <4> QED
        BY <2>2, <4>1, CutColumns
    <3> QED
      BY <3>1, NoText
  <2> QED
    BY <2>1, <2>2
<1>9. DnsClaims(l) \subseteq DnsClaims(w)
  <2>1. CASE 36 <= n
    <3>1. Column("dns.qry.name", 34) /\ Column("dns.ptr.domain_name", 36) /\ 34 <= n /\ 21 <= n
      <4>1. 34 <= n /\ 21 <= n
        BY <1>1, <2>1
      <4> QED
        BY <4>1, Columns
    <3>2. /\ Get(l, "dns.qry.name") = Get(w, "dns.qry.name")
          /\ Get(l, "dns.ptr.domain_name") = Get(w, "dns.ptr.domain_name")
      BY <2>1, <3>1, CutColumns
    <3>3. \A i : Question(l, i) = Question(w, i)
      BY <3>2 DEF Question
    <3>4. IsMdns(l) = IsMdns(w)
      BY <1>1, <1>4, <3>1
    <3>5. DnsClaims(l) = DnsClaims(w)
      <4> DEFINE q == Get(l, "dns.qry.name")
                 a == Get(l, "dns.ptr.domain_name")
                 s == IF IsMdns(l) THEN "mdns" ELSE "dns_ptr"
                 Asked(i) == IF i <= Len(q) THEN {q[i]} ELSE {q[j] : j \in DOMAIN q \cap {1}}
                 Answered == UNION {UNION {Claimed(Arpa[x], a[i], s) : x \in Asked(i)} : i \in DOMAIN a}
      <4>1. DnsClaims(l) = Answered
        BY DEF DnsClaims, Question
      <4>2. /\ q = Get(w, "dns.qry.name") /\ a = Get(w, "dns.ptr.domain_name")
            /\ s = IF IsMdns(w) THEN "mdns" ELSE "dns_ptr"
        BY <3>2, <3>4
      <4> HIDE DEF q, a, s
      <4>3. DnsClaims(w) = Answered
        BY <4>2 DEF DnsClaims, Question
      <4> QED
        BY <4>1, <4>3
    <3> QED
      BY <3>5
  <2>2. CASE ~(36 <= n)
    <3>1. Get(l, "dns.ptr.domain_name") = <<>>
      <4>1. Column("dns.ptr.domain_name", 36)
        BY Columns
      <4> QED
        BY <2>2, <4>1, CutColumns
    <3>2. DOMAIN Get(l, "dns.ptr.domain_name") = {}
      BY <3>1
    <3>3. DnsClaims(l) = {}
      BY <3>2 DEF DnsClaims
    <3> QED
      BY <3>3
  <2> QED
    BY <2>1, <2>2
<1>10. MdnsClaims(l) \subseteq MdnsClaims(w)
  <2>1. CASE 35 <= n
    <3>1. Column("dns.qry.name", 34) /\ Column("dns.a", 35) /\ 34 <= n /\ 21 <= n
      <4>1. 34 <= n /\ 21 <= n
        BY <1>1, <2>1
      <4> QED
        BY <4>1, Columns
    <3>2. /\ First(l, "dns.qry.name") = First(w, "dns.qry.name")
          /\ Get(l, "dns.a") = Get(w, "dns.a")
      BY <2>1, <3>1, CutColumns
    <3>3. IsMdns(l) = IsMdns(w)
      BY <1>1, <1>4, <3>1
    <3>4. MdnsClaims(l) = MdnsClaims(w)
      BY <3>2, <3>3, Zenon DEF MdnsClaims
    <3> QED
      BY <3>4
  <2>2. CASE ~(35 <= n)
    <3>1. Get(l, "dns.a") = <<>>
      <4>1. Column("dns.a", 35)
        BY Columns
      <4> QED
        BY <2>2, <4>1, CutColumns
    <3>2. Elements(Get(l, "dns.a")) = {}
      BY <3>1 DEF Elements
    <3>3. MdnsClaims(l) = {}
      BY <3>2 DEF MdnsClaims
    <3> QED
      BY <3>3
  <2> QED
    BY <2>1, <2>2
<1>11. \A x : HostnamesOf(x) =
         Tls(x) \cup Http(x) \cup Dhcp(x) \cup Nbns(x) \cup DnsClaims(x) \cup MdnsClaims(x)
  BY DEF HostnamesOf
<1> HIDE DEF Tls, Http, Dhcp, Nbns
<1> QED
  BY <1>5, <1>6, <1>7, <1>8, <1>9, <1>10, <1>11

\* A line that is usable after it was cut was usable before, and says no less.
LEMMA RecordCut ==
  ASSUME NEW l, NEW w, CutOf(l, w), Usable(l)
  PROVE  Usable(w) /\ Loses(RecordOf(l), RecordOf(w))
<1>1. \A f, i : Column(f, i) =>
        First(l, f) \in {None, First(w, f)} /\ IntOf(l, f) \in {None, IntOf(w, f)}
  BY CutColumns
<1>2. /\ IntOf(w, "frame.number") # None /\ IntOf(w, "frame.len") # None
      /\ IntOf(w, "frame.time_epoch") # None
  <2>1. Column("frame.number", 1) /\ Column("frame.len", 3) /\ Column("frame.time_epoch", 2)
    BY Columns
  <2> QED
    BY <1>1, <2>1 DEF Usable
<1>3. Usable(w)
  BY <1>2 DEF Usable
<1> DEFINE r == RecordOf(l)
           v == RecordOf(w)
<1>4. /\ r.epoch_ns \in {None, v.epoch_ns} /\ r.vlan_id \in {None, v.vlan_id}
      /\ r.eth_src \in {None, v.eth_src} /\ r.eth_dst \in {None, v.eth_dst}
  <2>1. /\ Column("frame.time_epoch", 2) /\ Column("vlan.id", 7)
        /\ Column("eth.src", 5) /\ Column("eth.dst", 6)
    BY Columns
  <2> QED
    BY <1>1, <2>1 DEF RecordOf
<1>5. r.ip_src \in {None, v.ip_src} /\ r.ip_dst \in {None, v.ip_dst}
  BY EndsCut DEF RecordOf
<1>6. r.src_port \in {None, v.src_port} /\ r.dst_port \in {None, v.dst_port}
  BY TransportCut DEF RecordOf
<1>7. /\ r.arp_sender_ip \in {None, v.arp_sender_ip}
      /\ r.arp_reply_ip \in {None, v.arp_reply_ip} /\ r.arp_reply_mac \in {None, v.arp_reply_mac}
  BY SenderCut, RepliedCut DEF RecordOf, NoPair
<1>8. /\ r.ndp_advertised_ip \in {None, v.ndp_advertised_ip}
      /\ r.ndp_advertised_mac \in {None, v.ndp_advertised_mac}
      /\ r.ndp_solicited_ip \in {None, v.ndp_solicited_ip}
  BY AdvertisedCut, SolicitedCut DEF RecordOf, NoPair
<1>9. /\ r.dhcp_assigned_ip \in {None, v.dhcp_assigned_ip}
      /\ r.dhcp_assigned_mac \in {None, v.dhcp_assigned_mac}
  BY AssignedCut DEF RecordOf, NoPair
<1>10. r.transport \in {"none", v.transport} /\ r.flags \subseteq v.flags
         /\ r.hostnames \subseteq v.hostnames
  BY TransportCut, FlagsCut, NamesCut DEF RecordOf
<1>11. DOMAIN v = {"epoch_ns", "eth_src", "eth_dst", "vlan_id", "ip_src", "ip_dst", "transport",
         "src_port", "dst_port", "flags", "arp_sender_ip", "arp_reply_ip", "arp_reply_mac",
         "ndp_advertised_ip", "ndp_advertised_mac", "ndp_solicited_ip", "dhcp_assigned_ip",
         "dhcp_assigned_mac", "hostnames"}
  BY DEF RecordOf
<1> HIDE DEF r, v
<1>12. Loses(r, v)
  BY <1>4, <1>5, <1>6, <1>7, <1>8, <1>9, <1>10, <1>11 DEF Loses
<1> QED
  BY <1>3, <1>12 DEF r, v

\* The record that was yielded is the record of the line read last.
YieldedOfLine == \A r \in yielded : line \in Lines /\ Usable(line) /\ r = RecordOf(line)

THEOREM AlwaysYieldedOfLine == Spec => []YieldedOfLine
<1>1. Init => YieldedOfLine
  BY DEF Init, YieldedOfLine
<1>2. YieldedOfLine /\ [Next]_vars => YieldedOfLine'
  BY DEF YieldedOfLine, Next, Skip, Yield, vars
<1> QED
  BY <1>1, <1>2, PTL DEF Spec

LEMMA LineIsCut ==
  ASSUME NEW frame, line \in Lines, PrintedFor(frame)
  PROVE  CutOf(line, Printed(frame))
<1> DEFINE w == Printed(frame)
<1>1. line \in Seq(Seq(Int))
  BY LinesAssumption
<1>2. /\ DOMAIN w = 1 .. 37 /\ Len(w) = 37 /\ w \in Seq({w[i] : i \in 1 .. 37})
  <2>1. DOMAIN w = 1 .. 37
    BY FieldsDistinct DEF Printed
  <2>2. w = [i \in 1 .. 37 |-> w[i]]
    BY <2>1 DEF Printed
  <2> HIDE DEF w
  <2>3. w \in [1 .. 37 -> {w[i] : i \in 1 .. 37}]
    BY <2>2
  <2>4. w \in Seq({w[i] : i \in 1 .. 37})
    BY <2>3, SeqDef
  <2> QED
    BY <2>1, <2>4, LenProperties
<1>3. Len(line) <= Len(w) /\ SubSeq(line, 1, Len(line)) = SubSeq(w, 1, Len(line))
  BY DEF PrintedFor, IsPrefix
<1> HIDE DEF w
<1>4. ASSUME NEW i \in 1 .. Len(line) PROVE line[i] = w[i]
  <2>1. SubSeq(line, 1, Len(line))[i] = line[i]
    BY <1>1
  <2>2. SubSeq(w, 1, Len(line))[i] = w[i]
    BY <1>1, <1>2, <1>3
  <2> QED
    BY <1>3, <2>1, <2>2
<1> QED
  BY <1>1, <1>2, <1>3, <1>4 DEF CutOf, w

\* A truncated line says less of its frame, never something else, wherever it was
\* cut: no column that is read for something falls back on another that was lost.
THEOREM TruncationAlwaysOnlyLoses == Spec => []TruncationOnlyLoses
<1>1. YieldedOfLine => TruncationOnlyLoses
  <2> SUFFICES ASSUME YieldedOfLine, NEW frame \in Captured, PrintedFor(frame), NEW r \in yielded
               PROVE  \E w \in Decoded(Printed(frame)) : Loses(r, w)
    BY DEF TruncationOnlyLoses
  <2>1. line \in Lines /\ Usable(line) /\ r = RecordOf(line)
    BY DEF YieldedOfLine
  <2>2. CutOf(line, Printed(frame))
    BY <2>1, LineIsCut
  <2>3. Usable(Printed(frame)) /\ Loses(r, RecordOf(Printed(frame)))
    BY <2>1, <2>2, RecordCut
  <2>4. RecordOf(Printed(frame)) \in Decoded(Printed(frame))
    BY <2>3 DEF Decoded
  <2> QED
    BY <2>3, <2>4
<1> QED
  BY <1>1, AlwaysYieldedOfLine, PTL

-----------------------------------------------------------------------------
(* What tshark prints of a frame.                                          *)

LEMMA LeastOf ==
  ASSUME NEW S, S \subseteq Nat, S # {}
  PROVE  \E x \in S : \A y \in S : x <= y
<1>1. PICK x \in S : \A y \in S : ~(<<y, x>> \in OpToRel(<, Nat))
  BY NatLessThanWellFounded, WFMin
<1>2. \A y \in S : ~(y < x)
  BY <1>1 DEF OpToRel
<1> QED
  BY <1>2

\* flat[i] is the concatenation of the first i members of q.
IsFlat(flat, q, n) == flat = [i \in 1 .. n |-> IF i = 1 THEN q[i] ELSE flat[i - 1] \o q[i]]

LEMMA FlatByRecursion ==
  ASSUME NEW q, Len(q) # 0
  PROVE  FlattenSeq(q) = (CHOOSE flat : IsFlat(flat, q, Len(q)))[Len(q)]
  BY DEF FlattenSeq, IsFlat

LEMMA FlatExists ==
  ASSUME NEW q, NEW n \in Nat
  PROVE  \E flat : IsFlat(flat, q, n)
<1> DEFINE bad == {m \in Nat : ~\E flat : IsFlat(flat, q, m)}
<1> SUFFICES ASSUME bad # {} PROVE FALSE
  OBVIOUS
<1>1. PICK m \in bad : \A k \in bad : m <= k
  BY LeastOf
<1>2. m \in Nat /\ ~\E flat : IsFlat(flat, q, m)
  OBVIOUS
<1>3. m # 0
  <2>1. IsFlat([i \in 1 .. 0 |-> 0], q, 0)
    BY DEF IsFlat
  <2> QED
    BY <1>2, <2>1
<1>4. m - 1 \in Nat /\ m - 1 \notin bad
  BY <1>1, <1>2, <1>3
<1>5. PICK flat : IsFlat(flat, q, m - 1)
  BY <1>4
<1> DEFINE more == [i \in 1 .. m |-> IF i = m THEN (IF m = 1 THEN q[m] ELSE flat[m - 1] \o q[m]) ELSE flat[i]]
<1>6. \A i \in 1 .. m : more[i] = IF i = 1 THEN q[i] ELSE more[i - 1] \o q[i]
  <2>1. DOMAIN flat = 1 .. m - 1 /\ \A i \in 1 .. m - 1 : flat[i] = IF i = 1 THEN q[i] ELSE flat[i - 1] \o q[i]
    BY <1>5 DEF IsFlat
  <2> TAKE i \in 1 .. m
  <2>2. CASE i = m
    <3>1. CASE m = 1
      BY <2>2, <3>1
    <3>2. CASE m # 1
      <4>1. m - 1 \in 1 .. m /\ m - 1 # m
        BY <1>2, <1>3, <3>2
      <4>2. more[m - 1] = flat[m - 1]
        BY <4>1
      <4> QED
        BY <2>2, <3>2, <4>2
    <3> QED
      BY <3>1, <3>2
  <2>3. CASE i # m /\ i = 1
    <3>1. i \in 1 .. m - 1
      BY <1>2, <2>3
    <3>2. more[i] = flat[i]
      BY <2>3
    <3> QED
      BY <2>1, <2>3, <3>1, <3>2
  <2>4. CASE i # m /\ i # 1
    <3>1. i \in 1 .. m - 1 /\ i - 1 \in 1 .. m /\ i - 1 # m
      BY <1>2, <2>4
    <3>2. more[i] = flat[i] /\ more[i - 1] = flat[i - 1]
      BY <2>4, <3>1
    <3> QED
      BY <2>1, <2>4, <3>1, <3>2
  <2> QED
    BY <2>2, <2>3, <2>4
<1>7. more = [i \in 1 .. m |-> more[i]]
  OBVIOUS
<1> HIDE DEF more
<1>8. IsFlat(more, q, m)
  BY <1>6, <1>7, Zenon DEF IsFlat
<1> QED
  BY <1>2, <1>8

\* What the concatenation s of the first m members of q begins with: the first of
\* them that is not empty. It is that one if all others are empty.
Begins(s, q, m, T) ==
  /\ s \in Seq(T)
  /\ (\A i \in 1 .. m : q[i] = <<>>) => s = <<>>
  /\ \A j \in 1 .. m : q[j] # <<>> /\ (\A i \in 1 .. j - 1 : q[i] = <<>>) => s # <<>> /\ s[1] = q[j][1]
  /\ \A j \in 1 .. m : (\A i \in 1 .. m : i # j => q[i] = <<>>) => s = q[j]

LEMMA FlatBegins ==
  ASSUME NEW T, NEW q \in Seq(Seq(T)), NEW n \in 1 .. Len(q), NEW flat, IsFlat(flat, q, Len(q))
  PROVE  Begins(flat[n], q, n, T)
<1> DEFINE bad == {m \in 1 .. Len(q) : ~Begins(flat[m], q, m, T)}
<1>0. Len(q) \in Nat /\ \A i \in 1 .. Len(q) : q[i] \in Seq(T)
  OBVIOUS
<1> SUFFICES ASSUME bad # {} PROVE FALSE
  <2>1. n \notin bad => Begins(flat[n], q, n, T)
    OBVIOUS
  <2> HIDE DEF bad
  <2> QED
    BY <2>1
<1>1. PICK m \in bad : \A k \in bad : m <= k
  <2>1. bad \subseteq Nat
    BY <1>0
  <2> HIDE DEF bad
  <2> QED
    BY <2>1, LeastOf
<1>2. m \in 1 .. Len(q) /\ ~Begins(flat[m], q, m, T)
  OBVIOUS
<1>3. flat[m] = IF m = 1 THEN q[m] ELSE flat[m - 1] \o q[m]
  BY <1>2 DEF IsFlat
<1>4. CASE m = 1
  <2>1. flat[m] = q[1] /\ q[1] \in Seq(T)
    BY <1>0, <1>2, <1>3, <1>4
  <2>2. \A j \in 1 .. m : j = 1
    BY <1>4
  <2> QED
    BY <1>2, <1>4, <2>1, <2>2 DEF Begins
<1>5. CASE m # 1
  <2>1. m - 1 \in 1 .. Len(q) /\ m - 1 < m
    BY <1>0, <1>2, <1>5
  <2>2. Begins(flat[m - 1], q, m - 1, T)
    BY <1>1, <2>1
  <2> DEFINE s == flat[m - 1]
  <2>3. s \in Seq(T) /\ q[m] \in Seq(T) /\ flat[m] = s \o q[m]
    BY <1>0, <1>2, <1>3, <1>5, <2>2 DEF Begins
  <2>4. /\ (\A i \in 1 .. m - 1 : q[i] = <<>>) => s = <<>>
        /\ \A j \in 1 .. m - 1 : q[j] # <<>> /\ (\A i \in 1 .. j - 1 : q[i] = <<>>) =>
              s # <<>> /\ s[1] = q[j][1]
        /\ \A j \in 1 .. m - 1 : (\A i \in 1 .. m - 1 : i # j => q[i] = <<>>) => s = q[j]
    BY <2>2 DEF Begins
  <2> HIDE DEF s
  <2>5. flat[m] \in Seq(T)
    BY <2>3
  <2>6. (\A i \in 1 .. m : q[i] = <<>>) => flat[m] = <<>>
    BY <2>3, <2>4, <2>1, <1>2
  <2>7. ASSUME NEW j \in 1 .. m, q[j] # <<>>, \A i \in 1 .. j - 1 : q[i] = <<>>
        PROVE  flat[m] # <<>> /\ flat[m][1] = q[j][1]
    <3>1. CASE j = m
      <4>1. s = <<>>
        BY <2>4, <2>7, <3>1
      <4>2. flat[m] = q[m]
        BY <2>3, <4>1
      <4> QED
        BY <2>7, <3>1, <4>2
    <3>2. CASE j # m
      <4>1. j \in 1 .. m - 1
        BY <3>2, <1>2
      <4>2. s # <<>> /\ s[1] = q[j][1]
        BY <2>4, <2>7, <4>1
      <4>3. Len(s) > 0
        BY <2>3, <4>2
      <4>4. Len(flat[m]) > 0 /\ flat[m][1] = s[1]
        BY <2>3, <4>3
      <4> QED
        BY <4>2, <4>4, <2>5
    <3> QED
      BY <3>1, <3>2
  <2>8. ASSUME NEW j \in 1 .. m, \A i \in 1 .. m : i # j => q[i] = <<>>
        PROVE  flat[m] = q[j]
    <3>1. CASE j = m
      <4>1. \A i \in 1 .. m - 1 : i \in 1 .. m /\ i # j
        BY <1>2, <3>1
      <4>2. s = <<>>
        BY <2>4, <2>8, <4>1
      <4> QED
        BY <2>3, <3>1, <4>2
    <3>2. CASE j # m
      <4>1. j \in 1 .. m - 1 /\ m \in 1 .. m /\ \A i \in 1 .. m - 1 : i \in 1 .. m
        BY <3>2, <1>2
      <4>2. s = q[j]
        BY <2>4, <2>8, <4>1
      <4>3. q[m] = <<>>
        BY <2>8, <3>2, <4>1
      <4> QED
        BY <2>3, <4>2, <4>3
    <3> QED
      BY <3>1, <3>2
  <2> QED
    BY <1>2, <2>5, <2>6, <2>7, <2>8 DEF Begins
<1> QED
  BY <1>4, <1>5

LEMMA FlattenBegins ==
  ASSUME NEW T, NEW q \in Seq(Seq(T))
  PROVE  /\ FlattenSeq(q) \in Seq(T)
         /\ (\A i \in DOMAIN q : q[i] = <<>>) => FlattenSeq(q) = <<>>
         /\ \A j \in DOMAIN q : q[j] # <<>> /\ (\A i \in DOMAIN q : i < j => q[i] = <<>>) =>
              FlattenSeq(q) # <<>> /\ FlattenSeq(q)[1] = q[j][1]
         /\ \A j \in DOMAIN q : (\A i \in DOMAIN q : i # j => q[i] = <<>>) => FlattenSeq(q) = q[j]
<1>1. Len(q) \in Nat /\ DOMAIN q = 1 .. Len(q)
  OBVIOUS
<1>2. CASE Len(q) = 0
  <2>1. q = <<>> /\ FlattenSeq(q) = q
    BY <1>2 DEF FlattenSeq
  <2>2. DOMAIN q = {}
    BY <1>1, <1>2
  <2>3. FlattenSeq(q) = <<>>
    BY <2>1, Zenon
  <2>4. FlattenSeq(q) \in Seq(T)
    <3>1. <<>> \in Seq(T)
      OBVIOUS
    <3> QED
      BY <2>3, <3>1, Zenon
  <2> QED
    BY <2>2, <2>3, <2>4, Zenon
<1>3. CASE Len(q) # 0
  <2> DEFINE flat == CHOOSE g : IsFlat(g, q, Len(q))
  <2>1. IsFlat(flat, q, Len(q))
    BY <1>1, FlatExists
  <2>2. FlattenSeq(q) = flat[Len(q)]
    BY <1>3, FlatByRecursion
  <2> HIDE DEF flat
  <2>3. Begins(FlattenSeq(q), q, Len(q), T)
    <3>1. Len(q) \in 1 .. Len(q)
      BY <1>1, <1>3
    <3> QED
      BY <2>1, <2>2, <3>1, FlatBegins
  <2>4. \A j \in 1 .. Len(q) : \A i \in 1 .. j - 1 : i \in 1 .. Len(q) /\ i < j
    BY <1>1
  <2> QED
    BY <1>1, <2>3, <2>4 DEF Begins
<1> QED
  BY <1>2, <1>3

\* What tshark prints in a column is what the layers say in turn.
LEMMA ColumnIsSaid ==
  ASSUME NEW frame \in Captured, NEW f, NEW n, Column(f, n)
  PROVE  LET q == [j \in DOMAIN frame |-> Said(frame[j], f)]
         IN  q \in Seq(Seq(Int)) /\ Get(Printed(frame), f) = FlattenSeq(q)
<1> DEFINE q == [j \in DOMAIN frame |-> Said(frame[j], f)]
           w == Printed(frame)
<1>1. f \in Elements(Fields) /\ Index[f] = n /\ n \in 1 .. 37
  BY DEF Column
<1>2. Fields[n] = f
  <2>1. \E i \in DOMAIN Fields : Fields[i] = f
    BY <1>1 DEF Elements
  <2>2. Index[f] = CHOOSE i \in DOMAIN Fields : Fields[i] = f
    BY <1>1 DEF Index
  <2> QED
    BY <1>1, <2>1, <2>2, Zenon
<1>3. DOMAIN frame = 1 .. Len(frame) /\ Len(frame) \in Nat
  <2>1. frame \in Seq(Elements(frame))
    BY CapturedAssumption
  <2> QED
    BY <2>1
<1>4. q \in Seq(Seq(Int)) /\ DOMAIN q = DOMAIN frame
  <2>1. \A j \in 1 .. Len(frame) : Said(frame[j], f) \in Seq(Int)
    BY <1>1, <1>3, CapturedAssumption
  <2>2. q = [j \in 1 .. Len(frame) |-> Said(frame[j], f)]
    BY <1>3
  <2>3. q \in [1 .. Len(frame) -> Seq(Int)]
    BY <2>1, <2>2
  <2> QED
    BY <1>3, <2>2, <2>3, SeqDef
<1>5. w[n] = FlattenSeq(q)
  <2>1. n \in DOMAIN Fields
    BY <1>1, FieldsDistinct
  <2> QED
    BY <1>2, <2>1 DEF Printed
<1>6. Len(w) = 37
  BY FieldsDistinct DEF Printed
<1>7. Get(w, f) = FlattenSeq(q)
  BY <1>1, <1>5, <1>6 DEF Get
<1> QED
  BY <1>4, <1>7

\* The first value of a column is what the first layer to say anything of it says.
LEMMA FirstSaid ==
  ASSUME NEW frame \in Captured, NEW f, NEW n, Column(f, n)
  PROVE  /\ (\A i \in DOMAIN frame : Said(frame[i], f) = <<>>) => First(Printed(frame), f) = None
         /\ \A j \in DOMAIN frame :
              Said(frame[j], f) # <<>> /\ (\A i \in DOMAIN frame : i < j => Said(frame[i], f) = <<>>) =>
                Get(Printed(frame), f) # <<>> /\ First(Printed(frame), f) = Says(frame[j], f)
<1> DEFINE q == [j \in DOMAIN frame |-> Said(frame[j], f)]
           w == Printed(frame)
<1>1. q \in Seq(Seq(Int)) /\ DOMAIN q = DOMAIN frame
  BY ColumnIsSaid
<1>2. Get(w, f) = FlattenSeq(q)
  BY ColumnIsSaid
<1> HIDE DEF w
<1>3. \A j \in DOMAIN frame : q[j] = Said(frame[j], f)
  OBVIOUS
<1> HIDE DEF q
<1>4. /\ (\A i \in DOMAIN frame : q[i] = <<>>) => FlattenSeq(q) = <<>>
      /\ \A j \in DOMAIN frame : q[j] # <<>> /\ (\A i \in DOMAIN frame : i < j => q[i] = <<>>) =>
           FlattenSeq(q) # <<>> /\ FlattenSeq(q)[1] = q[j][1]
  BY <1>1, FlattenBegins
<1>5. (\A i \in DOMAIN frame : Said(frame[i], f) = <<>>) => First(w, f) = None
  BY <1>2, <1>3, <1>4 DEF First
<1>6. ASSUME NEW j \in DOMAIN frame, Said(frame[j], f) # <<>>,
              \A i \in DOMAIN frame : i < j => Said(frame[i], f) = <<>>
       PROVE  Get(w, f) # <<>> /\ First(w, f) = Says(frame[j], f)
  <2>1. q[j] # <<>> /\ \A i \in DOMAIN frame : i < j => q[i] = <<>>
    BY <1>3, <1>6
  <2>2. FlattenSeq(q) # <<>> /\ FlattenSeq(q)[1] = q[j][1]
    BY <1>4, <2>1
  <2>3. First(w, f) = Said(frame[j], f)[1]
    BY <1>2, <1>3, <2>2 DEF First
  <2> QED
    BY <1>2, <1>6, <2>2, <2>3 DEF Says
<1> QED
  BY <1>5, <1>6 DEF w

\* A column of which all layers but one say nothing is what that one says.
LEMMA ColumnOfOne ==
  ASSUME NEW frame \in Captured, NEW f, NEW n, Column(f, n), NEW j \in DOMAIN frame,
         \A i \in DOMAIN frame : i # j => Said(frame[i], f) = <<>>
  PROVE  Get(Printed(frame), f) = Said(frame[j], f)
<1> DEFINE q == [i \in DOMAIN frame |-> Said(frame[i], f)]
<1>1. q \in Seq(Seq(Int)) /\ Get(Printed(frame), f) = FlattenSeq(q)
  BY ColumnIsSaid
<1>2. DOMAIN q = DOMAIN frame /\ \A i \in DOMAIN frame : q[i] = Said(frame[i], f)
  OBVIOUS
<1> HIDE DEF q
<1>3. j \in DOMAIN q /\ \A i \in DOMAIN q : i # j => q[i] = <<>>
  BY <1>2
<1>4. FlattenSeq(q) = q[j]
  BY <1>1, <1>3, FlattenBegins
<1> QED
  BY <1>1, <1>2, <1>4

\* A column that has a value has a layer that said it, with none before.
LEMMA FirstSayer ==
  ASSUME NEW frame \in Captured, NEW f, NEW n, Column(f, n), First(Printed(frame), f) # None
  PROVE  \E j \in DOMAIN frame :
           /\ Said(frame[j], f) # <<>>
           /\ \A i \in DOMAIN frame : i < j => Said(frame[i], f) = <<>>
           /\ First(Printed(frame), f) = Says(frame[j], f)
<1> DEFINE S == {i \in DOMAIN frame : Said(frame[i], f) # <<>>}
<1>1. S # {}
  BY FirstSaid
<1>2. S \subseteq Nat
  <2>1. frame \in Seq(Elements(frame))
    BY CapturedAssumption
  <2> QED
    BY <2>1
<1>3. PICK j \in S : \A i \in S : j <= i
  <2> HIDE DEF S
  <2> QED
    BY <1>1, <1>2, LeastOf
<1>4. \A i \in DOMAIN frame : i < j => Said(frame[i], f) = <<>>
  BY <1>2, <1>3
<1> QED
  BY <1>3, <1>4, FirstSaid

LEMMA OnlySayer ==
  ASSUME NEW frame \in Captured, NEW f, NEW n, Column(f, n), NEW j \in DOMAIN frame,
         \A i \in DOMAIN frame : i # j => Said(frame[i], f) = <<>>
  PROVE  First(Printed(frame), f) = Says(frame[j], f)
<1>1. \A i \in DOMAIN frame : i < j => i # j
  <2>1. frame \in Seq(Elements(frame))
    BY CapturedAssumption
  <2> QED
    BY <2>1
<1>2. CASE Said(frame[j], f) # <<>>
  BY <1>1, <1>2, FirstSaid
<1>3. CASE Said(frame[j], f) = <<>>
  <2>1. First(Printed(frame), f) = None
    BY <1>3, FirstSaid
  <2>2. Says(frame[j], f) = None
    BY <1>3 DEF Says
  <2> QED
    BY <2>1, <2>2
<1> QED
  BY <1>2, <1>3

\* A field is said only by layers of its protocol.
LEMMA SaidByKind ==
  ASSUME NEW frame \in Captured, NEW j \in DOMAIN frame
  PROVE  /\ frame[j].kind # "ip" => Said(frame[j], "ip.src") = <<>> /\ Said(frame[j], "ip.dst") = <<>>
         /\ frame[j].kind # "ipv6" => Said(frame[j], "ipv6.src") = <<>> /\ Said(frame[j], "ipv6.dst") = <<>>
         /\ frame[j].kind # "arp" =>
              /\ Said(frame[j], "arp.opcode") = <<>>
              /\ Said(frame[j], "arp.src.hw_mac") = <<>>
              /\ Said(frame[j], "arp.src.proto_ipv4") = <<>>
         /\ frame[j].kind # "icmpv6" =>
              /\ Said(frame[j], "icmpv6.type") = <<>>
              /\ Said(frame[j], "icmpv6.nd.na.target_address") = <<>>
              /\ Said(frame[j], "icmpv6.opt.linkaddr") = <<>>
         /\ frame[j].kind # "dhcp" =>
              /\ Said(frame[j], "dhcp.option.dhcp") = <<>>
              /\ Said(frame[j], "dhcp.ip.your") = <<>>
              /\ Said(frame[j], "dhcp.hw.mac_addr") = <<>>
              /\ Said(frame[j], "dhcp.option.hostname") = <<>>
         /\ frame[j].kind # "tls" => Said(frame[j], "tls.handshake.extensions_server_name") = <<>>
         /\ frame[j].kind # "http" => Said(frame[j], "http.host") = <<>>
         /\ frame[j].kind # "nbns" => Said(frame[j], "nbns.name") = <<>>
<1>1. \A kind \in DOMAIN ProtocolFields : \A f \in ProtocolFields[kind] :
        Said(frame[j], f) # <<>> => frame[j].kind = kind
  BY CapturedAssumption
<1>2. DOMAIN ProtocolFields = {"ip", "ipv6", "arp", "icmpv6", "dhcp", "tls", "http", "nbns"}
  BY DEF ProtocolFields
<1>3. /\ ProtocolFields["ip"] = {"ip.src", "ip.dst"}
      /\ ProtocolFields["ipv6"] = {"ipv6.src", "ipv6.dst"}
      /\ ProtocolFields["arp"] = {"arp.opcode", "arp.src.hw_mac", "arp.src.proto_ipv4"}
      /\ ProtocolFields["icmpv6"] = {"icmpv6.type", "icmpv6.nd.na.target_address", "icmpv6.opt.linkaddr"}
      /\ ProtocolFields["dhcp"] = {"dhcp.option.dhcp", "dhcp.ip.your", "dhcp.hw.mac_addr", "dhcp.option.hostname"}
      /\ ProtocolFields["tls"] = {"tls.handshake.extensions_server_name"}
      /\ ProtocolFields["http"] = {"http.host"}
      /\ ProtocolFields["nbns"] = {"nbns.name"}
  BY DEF ProtocolFields
<1> QED
  BY <1>1, <1>2, <1>3

-----------------------------------------------------------------------------
(* Claims.                                                                 *)

LEMMA PositionsAreNaturals ==
  ASSUME NEW frame \in Captured
  PROVE  DOMAIN frame \subseteq Nat
<1>1. frame \in Seq(Elements(frame))
  BY CapturedAssumption
<1> QED
  BY <1>1

\* A layer alone in its protocol says all there is to say of it.
Alone(frame, j) == \A i \in DOMAIN frame : i # j => frame[i].kind # frame[j].kind

LEMMA ReplyIsAlone ==
  ASSUME NEW frame \in Captured, NEW j \in DOMAIN frame, frame[j].kind \in {"arp", "dhcp"}
  PROVE  Alone(frame, j)
<1> SUFFICES ASSUME NEW i \in DOMAIN frame, i # j PROVE frame[i].kind # frame[j].kind
  BY DEF Alone
<1>1. i \in Nat /\ j \in Nat
  BY PositionsAreNaturals
<1>2. \A h \in DOMAIN frame : Innermost(frame[h]) =>
        \A k \in DOMAIN frame : k > h => frame[k].kind # frame[h].kind
  BY CapturedAssumption
<1>3. CASE i > j
  BY <1>2, <1>3 DEF Innermost
<1>4. CASE j > i
  BY <1>2, <1>4 DEF Innermost
<1> QED
  BY <1>1, <1>3, <1>4

LEMMA AdvertisementIsAlone ==
  ASSUME NEW frame \in Captured, NEW j \in DOMAIN frame, frame[j].kind = "icmpv6",
         Says(frame[j], "icmpv6.type") = NdpAdvertisement,
         \A i \in DOMAIN frame : i < j => Said(frame[i], "icmpv6.type") = <<>>
  PROVE  Alone(frame, j)
<1> SUFFICES ASSUME NEW i \in DOMAIN frame, i # j PROVE frame[i].kind # frame[j].kind
  BY DEF Alone
<1>1. i \in Nat /\ j \in Nat
  BY PositionsAreNaturals
<1>2. Innermost(frame[j])
  BY DEF Innermost
<1>3. CASE i > j
  BY <1>2, <1>3, CapturedAssumption
<1>4. CASE i < j
  BY <1>4, CapturedAssumption
<1> QED
  BY <1>1, <1>3, <1>4

\* The pair is one a layer of the frame asserts.
AssertedIn(pair, frame) == \E j \in DOMAIN frame : <<pair.ip, pair.mac>> \in Asserted(frame[j])

LEMMA RepliedIsAsserted ==
  ASSUME NEW frame \in Captured, Replied(Printed(frame)).ip # None
  PROVE  AssertedIn(Replied(Printed(frame)), frame)
<1> DEFINE w == Printed(frame)
<1>1. First(w, "arp.opcode") = ArpReply /\ Replied(w) = Sender(w)
  BY DEF Replied, NoPair
<1>2. Column("arp.opcode", 22) /\ Column("arp.src.hw_mac", 23) /\ Column("arp.src.proto_ipv4", 24)
  BY Columns
<1>3. PICK j \in DOMAIN frame : /\ Said(frame[j], "arp.opcode") # <<>>
                                /\ Says(frame[j], "arp.opcode") = ArpReply
  <2>1. First(w, "arp.opcode") # None
    BY <1>1 DEF ArpReply, None
  <2> QED
    BY <1>1, <1>2, <2>1, FirstSayer
<1>4. frame[j].kind = "arp"
  BY <1>3, SaidByKind
<1>5. \A i \in DOMAIN frame : i # j => frame[i].kind # "arp"
  BY <1>4, ReplyIsAlone DEF Alone
<1>6. \A i \in DOMAIN frame : i # j =>
        Said(frame[i], "arp.src.hw_mac") = <<>> /\ Said(frame[i], "arp.src.proto_ipv4") = <<>>
  BY <1>5, SaidByKind
<1>7. First(w, "arp.src.hw_mac") = Says(frame[j], "arp.src.hw_mac")
  BY <1>2, <1>6, OnlySayer
<1>8. First(w, "arp.src.proto_ipv4") = Says(frame[j], "arp.src.proto_ipv4")
  BY <1>2, <1>6, OnlySayer
<1>9. Asserted(frame[j]) = {<<Says(frame[j], "arp.src.proto_ipv4"), Says(frame[j], "arp.src.hw_mac")>>}
  BY <1>3, <1>4 DEF Asserted
<1>10. Sender(w).ip # None
  BY <1>1
<1> HIDE DEF w
<1>11. Sender(w).ip = First(w, "arp.src.proto_ipv4") /\ Sender(w).mac = First(w, "arp.src.hw_mac")
  BY <1>10 DEF Sender, BindingPair, NoPair
<1> QED
  BY <1>1, <1>7, <1>8, <1>9, <1>11 DEF AssertedIn, w

LEMMA AdvertisedIsAsserted ==
  ASSUME NEW frame \in Captured, Advertised(Printed(frame)).ip # None
  PROVE  AssertedIn(Advertised(Printed(frame)), frame)
<1> DEFINE w == Printed(frame)
<1>1. First(w, "icmpv6.type") = NdpAdvertisement
  BY DEF Advertised, NoPair
<1>2. /\ Column("icmpv6.type", 21) /\ Column("icmpv6.nd.na.target_address", 25)
      /\ Column("icmpv6.opt.linkaddr", 27)
  BY Columns
<1>3. PICK j \in DOMAIN frame : /\ Said(frame[j], "icmpv6.type") # <<>>
                                /\ \A i \in DOMAIN frame : i < j => Said(frame[i], "icmpv6.type") = <<>>
                                /\ Says(frame[j], "icmpv6.type") = NdpAdvertisement
  <2>1. First(w, "icmpv6.type") # None
    BY <1>1 DEF NdpAdvertisement, None
  <2> QED
    BY <1>1, <1>2, <2>1, FirstSayer
<1>4. frame[j].kind = "icmpv6"
  BY <1>3, SaidByKind
<1>5. \A i \in DOMAIN frame : i # j => frame[i].kind # "icmpv6"
  BY <1>3, <1>4, AdvertisementIsAlone DEF Alone
<1>6. \A i \in DOMAIN frame : i # j =>
        Said(frame[i], "icmpv6.nd.na.target_address") = <<>> /\ Said(frame[i], "icmpv6.opt.linkaddr") = <<>>
  BY <1>5, SaidByKind
<1>7. First(w, "icmpv6.nd.na.target_address") = Says(frame[j], "icmpv6.nd.na.target_address")
  BY <1>2, <1>6, OnlySayer
<1>8. First(w, "icmpv6.opt.linkaddr") = Says(frame[j], "icmpv6.opt.linkaddr")
  BY <1>2, <1>6, OnlySayer
<1>9. Asserted(frame[j]) = {<<Says(frame[j], "icmpv6.nd.na.target_address"),
                              Says(frame[j], "icmpv6.opt.linkaddr")>>}
  BY <1>3, <1>4 DEF Asserted
<1>10. Advertised(w).ip # None
  OBVIOUS
<1> HIDE DEF w
<1>11. /\ Advertised(w).ip = First(w, "icmpv6.nd.na.target_address")
       /\ Advertised(w).mac = First(w, "icmpv6.opt.linkaddr")
  BY <1>10 DEF Advertised, BindingPair, NoPair
<1> QED
  BY <1>7, <1>8, <1>9, <1>11 DEF AssertedIn, w

LEMMA AssignedIsAsserted ==
  ASSUME NEW frame \in Captured, Assigned(Printed(frame)).ip # None
  PROVE  AssertedIn(Assigned(Printed(frame)), frame)
<1> DEFINE w == Printed(frame)
<1>1. First(w, "dhcp.option.dhcp") = DhcpAck
  BY DEF Assigned, NoPair
<1>2. Column("dhcp.option.dhcp", 28) /\ Column("dhcp.ip.your", 29) /\ Column("dhcp.hw.mac_addr", 30)
  BY Columns
<1>3. PICK j \in DOMAIN frame : /\ Said(frame[j], "dhcp.option.dhcp") # <<>>
                                /\ Says(frame[j], "dhcp.option.dhcp") = DhcpAck
  <2>1. First(w, "dhcp.option.dhcp") # None
    BY <1>1 DEF DhcpAck, None
  <2> QED
    BY <1>1, <1>2, <2>1, FirstSayer
<1>4. frame[j].kind = "dhcp"
  BY <1>3, SaidByKind
<1>5. \A i \in DOMAIN frame : i # j => frame[i].kind # "dhcp"
  BY <1>4, ReplyIsAlone DEF Alone
<1>6. \A i \in DOMAIN frame : i # j =>
        Said(frame[i], "dhcp.ip.your") = <<>> /\ Said(frame[i], "dhcp.hw.mac_addr") = <<>>
  BY <1>5, SaidByKind
<1>7. First(w, "dhcp.ip.your") = Says(frame[j], "dhcp.ip.your")
  BY <1>2, <1>6, OnlySayer
<1>8. First(w, "dhcp.hw.mac_addr") = Says(frame[j], "dhcp.hw.mac_addr")
  BY <1>2, <1>6, OnlySayer
<1>9. Asserted(frame[j]) = {<<Says(frame[j], "dhcp.ip.your"), Says(frame[j], "dhcp.hw.mac_addr")>>}
  BY <1>3, <1>4 DEF Asserted
<1>10. Assigned(w).ip # None
  OBVIOUS
<1> HIDE DEF w
<1>11. Assigned(w).ip = First(w, "dhcp.ip.your") /\ Assigned(w).mac = First(w, "dhcp.hw.mac_addr")
  BY <1>10 DEF Assigned, BindingPair, NoPair
<1> QED
  BY <1>7, <1>8, <1>9, <1>11 DEF AssertedIn, w

\* What is left of the claims of a line that was cut was claimed by the whole line.
LEMMA EvidenceCut ==
  ASSUME NEW l \in Lines, NEW w, CutOf(l, w)
  PROVE  Evidence(RecordOf(l)) \subseteq Evidence(RecordOf(w))
<1>1. Replied(l) = Replied(w) \/ Replied(l) = NoPair
  BY RepliedCut
<1>2. Advertised(l) = Advertised(w) \/ Advertised(l) = NoPair
  BY AdvertisedCut
<1>3. Assigned(l) = Assigned(w) \/ Assigned(l) = NoPair
  BY AssignedCut
<1> QED
  BY <1>1, <1>2, <1>3 DEF Evidence, RecordOf, NoPair

\* A tunnel, an error that quotes a packet, a solicitation or an offer never lends
\* half of a claim: whatever was printed and wherever the line was cut, the address
\* and the MAC of a claim come from one layer, and it asserts them.
THEOREM OnlyAssertedPairsEverBind == Spec => []OnlyAssertedPairsBind
<1>1. YieldedOfLine => OnlyAssertedPairsBind
  <2> SUFFICES ASSUME YieldedOfLine, NEW frame \in Captured, PrintedFor(frame), NEW r \in yielded,
                      NEW e \in Evidence(r)
               PROVE  \E j \in DOMAIN frame : e \in Asserted(frame[j])
    BY DEF OnlyAssertedPairsBind
  <2> DEFINE w == Printed(frame)
  <2>1. line \in Lines /\ r = RecordOf(line)
    BY DEF YieldedOfLine
  <2>2. CutOf(line, w)
    BY <2>1, LineIsCut
  <2>3. e \in Evidence(RecordOf(w))
    BY <2>1, <2>2, EvidenceCut
  <2>4. PICK pair \in {Replied(w), Advertised(w), Assigned(w)} :
          e = <<pair.ip, pair.mac>> /\ e # <<None, None>>
    BY <2>3 DEF Evidence, RecordOf
  <2>5. pair.ip # None
    <3>1. \A ip, mac, rejected :
            BindingPair(ip, mac, rejected).ip # None \/ BindingPair(ip, mac, rejected) = NoPair
      BY DEF BindingPair
    <3>2. \A p \in {Replied(w), Advertised(w), Assigned(w)} : p.ip # None \/ p = NoPair
      BY <3>1 DEF Replied, Sender, Advertised, Assigned
    <3> QED
      BY <2>4, <3>2 DEF NoPair
  <2>6. AssertedIn(pair, frame)
    BY <2>4, <2>5, RepliedIsAsserted, AdvertisedIsAsserted, AssignedIsAsserted
  <2> QED
    BY <2>4, <2>6 DEF AssertedIn
<1> QED
  BY <1>1, AlwaysYieldedOfLine, PTL

-----------------------------------------------------------------------------
(* Ends.                                                                   *)

\* The first network layer of a frame says the first of the ends printed for its
\* version.
LEMMA OuterEnds ==
  ASSUME NEW frame \in Captured, Printed(frame) \in Lines, NEW m \in Networks(frame),
         NEW kind \in {"ip", "ipv6"}, frame[m].kind = kind,
         NEW f \in ProtocolFields[kind],
         \A i \in Networks(frame) : m <= i
  PROVE  /\ First(Printed(frame), f) = Says(frame[m], f)
         /\ First(Printed(frame), f) # None
<1> DEFINE w == Printed(frame)
<1>1. m \in DOMAIN frame /\ m \in Nat /\ f \in {"ip.src", "ip.dst", "ipv6.src", "ipv6.dst"}
  BY PositionsAreNaturals DEF Networks, ProtocolFields
<1>2. Said(frame[m], f) # <<>>
  BY <1>1, CapturedAssumption
<1>3. ASSUME NEW i \in DOMAIN frame, i < m PROVE Said(frame[i], f) = <<>>
  <2>1. i \notin Networks(frame)
    <3>1. i \in Nat
      BY PositionsAreNaturals
    <3> QED
      BY <1>1, <1>3, <3>1
  <2>2. frame[i].kind # kind
    BY <2>1 DEF Networks, IsNetwork
  <2>3. kind \in DOMAIN ProtocolFields
    BY DEF ProtocolFields
  <2> QED
    BY <2>2, <2>3, CapturedAssumption
<1>4. \E n : Column(f, n)
  BY <1>1, Columns
<1>5. Get(w, f) # <<>> /\ First(w, f) = Says(frame[m], f)
  BY <1>1, <1>2, <1>3, <1>4, FirstSaid
<1>6. Get(w, f) \in Seq(Address)
  BY <1>1, LinesAssumption DEF AddressFields
<1> HIDE DEF w
<1>7. First(w, f) \in Address
  BY <1>5, <1>6 DEF First
<1>8. First(w, f) # None
  BY <1>7, KindsAssumption DEF None
<1> QED
  BY <1>5, <1>8 DEF w

LEMMA OuterEndsPrinted ==
  ASSUME NEW frame \in Captured, Printed(frame) \in Lines, NEW m \in Networks(frame),
         \A i \in Networks(frame) : m <= i,
         frame[m].kind = "ipv6" => \A i \in Networks(frame) : frame[i].kind # "ip"
  PROVE  EndsOf(Printed(frame)) = [src |-> Source(frame[m]), dst |-> Destination(frame[m])]
<1> DEFINE w == Printed(frame)
           outer == frame[m]
<1>1. CASE outer.kind = "ip"
  <2>1. ProtocolFields["ip"] = {"ip.src", "ip.dst"}
    BY DEF ProtocolFields
  <2>2. /\ First(w, "ip.src") = Source(outer) /\ First(w, "ip.src") # None
        /\ First(w, "ip.dst") = Destination(outer) /\ First(w, "ip.dst") # None
    BY <1>1, <2>1, OuterEnds DEF Source, Destination
  <2> HIDE DEF w, outer
  <2>3. EndsOf(w) = [src |-> Source(outer), dst |-> Destination(outer)]
    BY <2>2 DEF EndsOf
  <2> QED
    BY <2>3 DEF w, outer
<1>2. CASE outer.kind = "ipv6"
  <2>1. ProtocolFields["ipv6"] = {"ipv6.src", "ipv6.dst"}
    BY DEF ProtocolFields
  <2>2. /\ First(w, "ipv6.src") = Source(outer) /\ First(w, "ipv6.src") # None
        /\ First(w, "ipv6.dst") = Destination(outer) /\ First(w, "ipv6.dst") # None
    BY <1>2, <2>1, OuterEnds DEF Source, Destination
  <2>3. First(w, "ip.src") = None
    <3>1. \A i \in DOMAIN frame : Said(frame[i], "ip.src") = <<>>
      BY <1>2, SaidByKind DEF Networks, IsNetwork
    <3>2. Column("ip.src", 8)
      BY Columns
    <3> QED
      BY <3>1, <3>2, FirstSaid
  <2> HIDE DEF w, outer
  <2>4. EndsOf(w) = [src |-> Source(outer), dst |-> Destination(outer)]
    BY <2>2, <2>3 DEF EndsOf
  <2> QED
    BY <2>4 DEF w, outer
<1>3. outer.kind \in {"ip", "ipv6"}
  BY DEF Networks, IsNetwork
<1> QED
  BY <1>1, <1>2, <1>3

\* The ends of a record are those of the outermost network layer, in tunnels and in
\* errors that quote a packet, unless it is IPv4 within IPv6.
THEOREM OuterIsAlwaysTheConversation == Spec => []OuterIsTheConversation
<1>1. YieldedOfLine => OuterIsTheConversation
  <2> SUFFICES ASSUME YieldedOfLine, NEW frame \in Captured, line = Printed(frame), Networks(frame) # {},
                      NEW r \in yielded
               PROVE  LET outer == frame[Min(Networks(frame))]
                      IN  \/ r.ip_src = Source(outer) /\ r.ip_dst = Destination(outer)
                          \/ outer.kind = "ipv6" /\ \E i \in Networks(frame) : frame[i].kind = "ip"
    BY DEF OuterIsTheConversation
  <2> DEFINE m == Min(Networks(frame))
             outer == frame[m]
  <2>1. line \in Lines /\ r.ip_src = EndsOf(line).src /\ r.ip_dst = EndsOf(line).dst
    BY DEF YieldedOfLine, RecordOf
  <2>2. m \in Networks(frame) /\ \A i \in Networks(frame) : m <= i
    <3>1. Networks(frame) \subseteq Nat
      BY PositionsAreNaturals DEF Networks
    <3>2. \E x \in Networks(frame) : \A y \in Networks(frame) : x <= y
      BY <3>1, LeastOf
    <3> QED
      BY <3>2 DEF Min
  <2> HIDE DEF m
  <2>3. CASE outer.kind = "ipv6" => \A i \in Networks(frame) : frame[i].kind # "ip"
    <3>1. EndsOf(line) = [src |-> Source(outer), dst |-> Destination(outer)]
      BY <2>1, <2>2, <2>3, OuterEndsPrinted
    <3> QED
      BY <2>1, <3>1 DEF m
  <2> QED
    BY <2>3 DEF m
<1> QED
  BY <1>1, AlwaysYieldedOfLine, PTL

-----------------------------------------------------------------------------
(* Names.                                                                  *)

LEMMA PrintedIsALine ==
  ASSUME NEW frame \in Captured
  PROVE  Printed(frame) \in Lines
<1> DEFINE w == Printed(frame)
<1>1. DOMAIN w = 1 .. 37 /\ Len(Fields) = 37
  BY FieldsDistinct DEF Printed, Fields
<1>2. w = [i \in 1 .. 37 |-> w[i]]
  BY <1>1 DEF Printed
<1> HIDE DEF w
<1>3. SubSeq(w, 1, 37) = w
  BY <1>2
<1>4. SubSeq(w, 1, 37) \in LinesOf(frame)
  BY <1>1 DEF LinesOf, w
<1>5. w \in LinesOf(frame)
  BY <1>3, <1>4
<1> QED
  BY <1>5, CapturedAssumption DEF w

\* A frame that is printed with ends has a network layer, and outside tunnels that
\* is the carrier of all that follows it.
LEMMA OnlyCarrier ==
  ASSUME NEW frame \in Captured, ~Tunnelled(frame),
         EndsOf(Printed(frame)).src # None \/ EndsOf(Printed(frame)).dst # None,
         NEW j \in DOMAIN frame, \A i \in Networks(frame) : i < j
  PROVE  /\ EndsOf(Printed(frame)).src = Source(Carrier(frame, j))
         /\ EndsOf(Printed(frame)).dst = Destination(Carrier(frame, j))
<1> DEFINE w == Printed(frame)
<1>1. First(w, "ip.src") # None \/ First(w, "ipv6.src") # None
  BY DEF EndsOf
<1>2. PICK m \in DOMAIN frame : Said(frame[m], "ip.src") # <<>> \/ Said(frame[m], "ipv6.src") # <<>>
  <2>1. Column("ip.src", 8) /\ Column("ipv6.src", 10)
    BY Columns
  <2> QED
    BY <1>1, <2>1, FirstSaid
<1>3. m \in Networks(frame)
  BY <1>2, SaidByKind DEF Networks, IsNetwork
<1>4. \A i \in Networks(frame) : i = m
  BY <1>3 DEF Tunnelled
<1>5. {i \in Networks(frame) : i < j} = {m}
  BY <1>3, <1>4
<1>6. m \in Nat
  BY PositionsAreNaturals
<1>7. Max({m}) = m
  BY <1>6 DEF Max
<1>8. Carrier(frame, j) = frame[m]
  BY <1>5, <1>7 DEF Carrier
<1>9. EndsOf(w) = [src |-> Source(frame[m]), dst |-> Destination(frame[m])]
  BY <1>3, <1>4, <1>6, PrintedIsALine, OuterEndsPrinted
<1> QED
  BY <1>8, <1>9

\* A text printed in one of these columns is said by a layer of the column's
\* protocol, which no network layer follows.
LEMMA NamingLayer ==
  ASSUME NEW frame \in Captured,
         NEW f \in {"tls.handshake.extensions_server_name", "http.host", "nbns.name", "dhcp.option.hostname"},
         First(Printed(frame), f) # None
  PROVE  \E j \in DOMAIN frame :
           /\ First(Printed(frame), f) = Says(frame[j], f)
           /\ f = "tls.handshake.extensions_server_name" => frame[j].kind = "tls"
           /\ f = "http.host" => frame[j].kind = "http"
           /\ f = "nbns.name" => frame[j].kind = "nbns"
           /\ f = "dhcp.option.hostname" => frame[j].kind = "dhcp"
           /\ \A i \in Networks(frame) : i < j
<1>1. \E n : Column(f, n)
  BY Columns
<1>2. PICK j \in DOMAIN frame : /\ Said(frame[j], f) # <<>>
                                /\ First(Printed(frame), f) = Says(frame[j], f)
  BY <1>1, FirstSayer
<1>3. /\ f = "tls.handshake.extensions_server_name" => frame[j].kind = "tls"
      /\ f = "http.host" => frame[j].kind = "http"
      /\ f = "nbns.name" => frame[j].kind = "nbns"
      /\ f = "dhcp.option.hostname" => frame[j].kind = "dhcp"
  BY <1>2, SaidByKind
<1>4. \A i \in Networks(frame) : i < j
  BY <1>3, CapturedAssumption
<1> QED
  BY <1>2, <1>3, <1>4

LEMMA ServersAreNamed ==
  ASSUME NEW frame \in Captured, ~Tunnelled(frame)
  PROVE  /\ Claimed(EndsOf(Printed(frame)).dst,
                    First(Printed(frame), "tls.handshake.extensions_server_name"), "tls_sni")
              \subseteq NamesIn(frame)
         /\ Claimed(EndsOf(Printed(frame)).dst, First(Printed(frame), "http.host"), "http_host")
              \subseteq NamesIn(frame)
         /\ Claimed(EndsOf(Printed(frame)).src, First(Printed(frame), "nbns.name"), "nbns")
              \subseteq NamesIn(frame)
<1> DEFINE w == Printed(frame)
           sni == "tls.handshake.extensions_server_name"
<1>1. ASSUME EndsOf(w).dst # None, First(w, sni) # None
      PROVE  <<EndsOf(w).dst, <<First(w, sni), "tls_sni">>>> \in NamesIn(frame)
  <2>1. PICK j \in DOMAIN frame : /\ First(w, sni) = Says(frame[j], sni)
                                  /\ frame[j].kind = "tls"
                                  /\ \A i \in Networks(frame) : i < j
    BY <1>1, NamingLayer
  <2>2. EndsOf(w).dst = Destination(Carrier(frame, j))
    BY <1>1, <2>1, OnlyCarrier
  <2>3. NamedBy(frame, j) = {<<Destination(Carrier(frame, j)), <<Says(frame[j], sni), "tls_sni">>>>}
    BY <2>1 DEF NamedBy
  <2> QED
    BY <2>1, <2>2, <2>3 DEF NamesIn
<1>2. ASSUME EndsOf(w).dst # None, First(w, "http.host") # None
      PROVE  <<EndsOf(w).dst, <<First(w, "http.host"), "http_host">>>> \in NamesIn(frame)
  <2>1. PICK j \in DOMAIN frame : /\ First(w, "http.host") = Says(frame[j], "http.host")
                                  /\ frame[j].kind = "http"
                                  /\ \A i \in Networks(frame) : i < j
    BY <1>2, NamingLayer
  <2>2. EndsOf(w).dst = Destination(Carrier(frame, j))
    BY <1>2, <2>1, OnlyCarrier
  <2>3. NamedBy(frame, j) =
          {<<Destination(Carrier(frame, j)), <<Says(frame[j], "http.host"), "http_host">>>>}
    BY <2>1 DEF NamedBy
  <2> QED
    BY <2>1, <2>2, <2>3 DEF NamesIn
<1>3. ASSUME EndsOf(w).src # None, First(w, "nbns.name") # None
      PROVE  <<EndsOf(w).src, <<First(w, "nbns.name"), "nbns">>>> \in NamesIn(frame)
  <2>1. PICK j \in DOMAIN frame : /\ First(w, "nbns.name") = Says(frame[j], "nbns.name")
                                  /\ frame[j].kind = "nbns"
                                  /\ \A i \in Networks(frame) : i < j
    BY <1>3, NamingLayer
  <2>2. EndsOf(w).src = Source(Carrier(frame, j))
    BY <1>3, <2>1, OnlyCarrier
  <2>3. NamedBy(frame, j) = {<<Source(Carrier(frame, j)), <<Says(frame[j], "nbns.name"), "nbns">>>>}
    BY <2>1 DEF NamedBy
  <2> QED
    BY <2>1, <2>2, <2>3 DEF NamesIn
<1> QED
  BY <1>1, <1>2, <1>3 DEF Claimed

LEMMA ClientsAreNamed ==
  ASSUME NEW frame \in Captured, ~Tunnelled(frame), \A j \in DOMAIN frame : ~Unleased(frame[j])
  PROVE  Claimed(Client(Printed(frame)), First(Printed(frame), "dhcp.option.hostname"), "dhcp_option_12")
           \subseteq NamesIn(frame)
<1> DEFINE w == Printed(frame)
           name == "dhcp.option.hostname"
           type == "dhcp.option.dhcp"
<1> SUFFICES ASSUME Client(w) # None, First(w, name) # None
             PROVE  <<Client(w), <<First(w, name), "dhcp_option_12">>>> \in NamesIn(frame)
  BY DEF Claimed
<1>1. PICK j \in DOMAIN frame : /\ First(w, name) = Says(frame[j], name)
                                /\ frame[j].kind = "dhcp"
                                /\ \A i \in Networks(frame) : i < j
  BY NamingLayer
<1>2. \A i \in DOMAIN frame : i # j => frame[i].kind # "dhcp"
  BY <1>1, ReplyIsAlone DEF Alone
<1>3. \A i \in DOMAIN frame : i # j =>
        /\ Said(frame[i], type) = <<>> /\ Said(frame[i], "dhcp.ip.your") = <<>>
        /\ Said(frame[i], "dhcp.hw.mac_addr") = <<>>
  BY <1>2, SaidByKind
<1>4. /\ First(w, type) = Says(frame[j], type)
      /\ First(w, "dhcp.ip.your") = Says(frame[j], "dhcp.ip.your")
      /\ First(w, "dhcp.hw.mac_addr") = Says(frame[j], "dhcp.hw.mac_addr")
  <2>1. Column(type, 28) /\ Column("dhcp.ip.your", 29) /\ Column("dhcp.hw.mac_addr", 30)
    BY Columns
  <2> QED
    BY <1>3, <2>1, OnlySayer
<1>5. NamedBy(frame, j) =
        {<<IF Says(frame[j], type) = DhcpAck THEN Says(frame[j], "dhcp.ip.your")
           ELSE Source(Carrier(frame, j)),
           <<Says(frame[j], name), "dhcp_option_12">>>>}
  BY <1>1 DEF NamedBy
<1>6. CASE Says(frame[j], type) = DhcpAck
  <2>1. First(w, "dhcp.ip.your") \notin {None, Unspecified} /\ First(w, "dhcp.hw.mac_addr") # None
    BY <1>1, <1>4, <1>6 DEF Unleased, DhcpAck
  <2>2. Assigned(w).ip = First(w, "dhcp.ip.your")
    BY <1>4, <1>6, <2>1 DEF Assigned, BindingPair
  <2>3. Client(w) = First(w, "dhcp.ip.your")
    BY <2>1, <2>2 DEF Client
  <2> QED
    BY <1>1, <1>4, <1>5, <1>6, <2>3 DEF NamesIn
<1>7. CASE Says(frame[j], type) # DhcpAck
  <2>1. Assigned(w).ip = None
    BY <1>4, <1>7 DEF Assigned, NoPair
  <2>2. Client(w) = EndsOf(w).src
    BY <2>1 DEF Client
  <2>3. EndsOf(w).src = Source(Carrier(frame, j))
    BY <1>1, <2>2, OnlyCarrier
  <2> QED
    BY <1>1, <1>5, <1>7, <2>2, <2>3 DEF NamesIn
<1> QED
  BY <1>6, <1>7

\* No layer but a DNS message says what the names of a DNS message are made of,
\* so with one message the columns are its own.
LEMMA MessageColumns ==
  ASSUME NEW frame \in Captured, NEW f \in {"dns.qry.name", "dns.a", "dns.ptr.domain_name"},
         \A j \in Messages(frame) : Messages(frame) = {j}, Get(Printed(frame), f) # <<>>
  PROVE  \E j \in DOMAIN frame :
           /\ Messages(frame) = {j}
           /\ \A g \in {"dns.qry.name", "dns.a", "dns.ptr.domain_name"} :
                Get(Printed(frame), g) = Said(frame[j], g)
<1>1. \A g \in {"dns.qry.name", "dns.a", "dns.ptr.domain_name"} : \E n : Column(g, n)
  BY Columns
<1>2. \A j \in DOMAIN frame : \A g \in {"dns.qry.name", "dns.a", "dns.ptr.domain_name"} :
        Said(frame[j], g) # <<>> => j \in Messages(frame)
  BY CapturedAssumption
<1>3. PICK j \in DOMAIN frame : Said(frame[j], f) # <<>>
  <2>1. PICK i \in DOMAIN frame : TRUE
    <3>1. ASSUME DOMAIN frame = {} PROVE FALSE
      <4> DEFINE q == [i \in DOMAIN frame |-> Said(frame[i], f)]
      <4>1. q \in Seq(Seq(Int)) /\ Get(Printed(frame), f) = FlattenSeq(q)
        BY <1>1, ColumnIsSaid
      <4>2. DOMAIN q = {}
        BY <3>1
      <4> HIDE DEF q
      <4>3. FlattenSeq(q) = <<>>
        BY <4>1, <4>2, FlattenBegins
      <4> QED
        BY <4>1, <4>3
    <3> QED
      BY <3>1
  <2>2. CASE \A j \in DOMAIN frame : Said(frame[j], f) = <<>>
    <3>1. Get(Printed(frame), f) = Said(frame[i], f)
      BY <1>1, <2>1, <2>2, ColumnOfOne
    <3> QED
      BY <2>1, <2>2, <3>1
  <2> QED
    BY <2>2
<1>4. Messages(frame) = {j}
  BY <1>2, <1>3
<1>5. ASSUME NEW g \in {"dns.qry.name", "dns.a", "dns.ptr.domain_name"}
      PROVE  Get(Printed(frame), g) = Said(frame[j], g)
  <2>1. \A i \in DOMAIN frame : i # j => Said(frame[i], g) = <<>>
    BY <1>2, <1>4
  <2> QED
    BY <1>1, <2>1, ColumnOfOne
<1> QED
  BY <1>4, <1>5

LEMMA PointersAreNamed ==
  ASSUME NEW frame \in Captured, Attributable(frame)
  PROVE  DnsClaims(Printed(frame)) \subseteq NamesIn(frame)
<1> DEFINE w == Printed(frame)
           source == IF IsMdns(w) THEN "mdns" ELSE "dns_ptr"
           asked == Get(w, "dns.qry.name")
           pointers == Get(w, "dns.ptr.domain_name")
<1> SUFFICES ASSUME NEW i \in DOMAIN pointers, NEW q \in Question(w, i), NEW c \in Claimed(Arpa[q], pointers[i], source)
             PROVE  c \in NamesIn(frame)
  BY DEF DnsClaims
<1>1. c = <<Arpa[q], <<pointers[i], source>>>>
  BY DEF Claimed
<1>2. ~Tunnelled(frame) /\ \A j \in Messages(frame) : Messages(frame) = {j} /\ InOrder(frame[j])
  BY DEF Attributable
<1>3. pointers # <<>>
  <2>1. DOMAIN <<>> = {}
    OBVIOUS
  <2> HIDE DEF pointers
  <2> QED
    BY <2>1
<1>4. PICK j \in DOMAIN frame : Messages(frame) = {j}
                               /\ asked = Said(frame[j], "dns.qry.name")
                               /\ pointers = Said(frame[j], "dns.ptr.domain_name")
  BY <1>2, <1>3, MessageColumns
<1>5. InOrder(frame[j])
  BY <1>2, <1>4
<1>6. w \in Lines
  BY PrintedIsALine
<1>7. asked \in Seq(Text) /\ pointers \in Seq(Text)
  BY <1>6, LinesAssumption DEF TextFields
<1>8. \/ i <= Len(asked) /\ q = asked[i]
      \/ ~(i <= Len(asked)) /\ 1 \in DOMAIN asked /\ q = asked[1]
  BY DEF Question
<1>9. source = IF frame[j].kind = "mdns" THEN "mdns" ELSE "dns_ptr"
  BY <1>2, <1>4, CapturedAssumption
<1>10. frame[j].kind \in {"dns", "mdns"}
  BY <1>4 DEF Messages
<1>11. Pointed(frame[j], source) \subseteq NamedBy(frame, j)
  BY <1>9, <1>10 DEF NamedBy
<1>12. <<Arpa[frame[j].owners[i]], <<pointers[i], source>>>> \in Pointed(frame[j], source)
  BY <1>4 DEF Pointed
<1>13. asked # <<>> =>
         \A k \in DOMAIN pointers :
           \/ asked = <<frame[j].owners[k]>>
           \/ k \in DOMAIN asked /\ asked[k] = frame[j].owners[k]
  BY <1>4, <1>5 DEF InOrder
<1> HIDE DEF asked, pointers, source
<1>14. i \in Nat \ {0}
  BY <1>7
<1>15. asked # <<>>
  BY <1>7, <1>8, <1>14
<1>16. q = frame[j].owners[i]
  <2>1. CASE asked = <<frame[j].owners[i]>>
    <3>1. Len(asked) = 1 /\ asked[1] = frame[j].owners[i]
      BY <2>1
    <3> QED
      BY <1>8, <1>14, <3>1
  <2>2. CASE i \in DOMAIN asked /\ asked[i] = frame[j].owners[i]
    BY <1>7, <1>8, <1>14, <2>2
  <2> QED
    BY <1>13, <1>15, <2>1, <2>2
<1>17. c \in NamedBy(frame, j)
  BY <1>1, <1>11, <1>12, <1>16
<1> QED
  BY <1>4, <1>17 DEF NamesIn

LEMMA AddressesAreNamed ==
  ASSUME NEW frame \in Captured, Attributable(frame)
  PROVE  MdnsClaims(Printed(frame)) \subseteq NamesIn(frame)
<1> DEFINE w == Printed(frame)
           asked == Get(w, "dns.qry.name")
           addresses == Get(w, "dns.a")
<1> SUFFICES ASSUME IsMdns(w), NEW a \in Elements(addresses), NEW c \in Claimed(a, First(w, "dns.qry.name"), "mdns")
             PROVE  c \in NamesIn(frame)
  BY DEF MdnsClaims
<1>1. c = <<a, <<First(w, "dns.qry.name"), "mdns">>>> /\ First(w, "dns.qry.name") # None
  BY DEF Claimed
<1>2. asked # <<>> /\ First(w, "dns.qry.name") = asked[1]
  BY <1>1 DEF First
<1>3. ~Tunnelled(frame) /\ \A j \in Messages(frame) : Messages(frame) = {j} /\ InOrder(frame[j])
  BY DEF Attributable
<1>4. PICK j \in DOMAIN frame : Messages(frame) = {j}
                               /\ asked = Said(frame[j], "dns.qry.name")
                               /\ addresses = Said(frame[j], "dns.a")
  BY <1>2, <1>3, MessageColumns
<1>5. frame[j].kind = "mdns"
  BY <1>3, <1>4, CapturedAssumption
<1>6. PICK i \in DOMAIN addresses : a = addresses[i]
  BY DEF Elements
<1>7. asked[1] = frame[j].hosts[i]
  BY <1>2, <1>3, <1>4, <1>5 DEF InOrder
<1>8. <<addresses[i], <<frame[j].hosts[i], "mdns">>>> \in Resolved(frame[j])
  BY <1>4 DEF Resolved
<1>9. NamedBy(frame, j) = Pointed(frame[j], "mdns") \cup Resolved(frame[j])
  BY <1>5 DEF NamedBy
<1>10. c \in NamedBy(frame, j)
  BY <1>1, <1>2, <1>6, <1>7, <1>8, <1>9
<1> QED
  BY <1>4, <1>10 DEF NamesIn

\* No name is claimed for another address than the one its layer is about, in
\* frames that tell it, wherever the line was cut (_hostnames, _dns_claims).
THEOREM NamesAreAlwaysRight == Spec => []NamesTheRightHost
<1>1. YieldedOfLine => NamesTheRightHost
  <2> SUFFICES ASSUME YieldedOfLine, NEW frame \in Captured, PrintedFor(frame), Attributable(frame),
                      NEW r \in yielded
               PROVE  r.hostnames \subseteq NamesIn(frame)
    BY DEF NamesTheRightHost
  <2> DEFINE w == Printed(frame)
  <2>1. line \in Lines /\ r = RecordOf(line)
    BY DEF YieldedOfLine
  <2>2. r.hostnames = HostnamesOf(line)
    BY <2>1 DEF RecordOf
  <2>3. HostnamesOf(line) \subseteq HostnamesOf(w)
    BY <2>1, LineIsCut, NamesCut
  <2>4. HostnamesOf(w) \subseteq NamesIn(frame)
    BY PointersAreNamed, AddressesAreNamed, ServersAreNamed, ClientsAreNamed DEF HostnamesOf, Attributable
  <2> QED
    BY <2>2, <2>3, <2>4
<1> QED
  BY <1>1, AlwaysYieldedOfLine, PTL
=============================================================================
