---------------------------- MODULE CaptureGraph ----------------------------
(***************************************************************************)
(* What the aggregation promises, said without its tables: the published   *)
(* graph is a function of how often each frame was observed, never of the  *)
(* order the frames came in.  An address is an end of a conversation or    *)
(* was claimed or named; it belongs to the machine with the strongest, and *)
(* then latest, claim; traffic is counted between addresses, per direction.*)
(***************************************************************************)
EXTENDS Addressing, FiniteSetsExt

VARIABLES
  observed,   \* how often each frame was observed
  graph       \* the published graph, Unpublished before that

Unpublished == [machine_of |-> <<>>, is_local |-> <<>>, window |-> <<>>, traffic |-> <<>>]

Seen == {r \in Frames : observed[r] > 0}

Segment == SegmentOf(Seen)

Routers == RouterMacs(Seen, Segment)

ClaimsOf(r) == Claims(r, Segment, Routers)

KnownAddresses == UNION {Touched(r, Segment, Routers) : r \in Seen}

\* The machines claimed for an address, and the frames that claim one of them.
Claimed(a) ==
  UNION {{MachineKey(c.mac, r) : c \in {d \in ClaimsOf(r) : d.address = a}} : r \in Seen}

Bears(r, a, key) == \E c \in ClaimsOf(r) : c.address = a /\ MachineKey(c.mac, r) = key

BasisOf(a, key) ==
  Strongest(UNION {{c.basis : c \in {d \in ClaimsOf(r) :
                       d.address = a /\ MachineKey(d.mac, r) = key}} : r \in Seen})

LastClaim(a, key) == Max({r.epoch_ns : r \in {s \in Seen : Bears(s, a, key)}})

Beats(a, k, j) ==
  LET rank(i) == BasisRank[BasisOf(a, i)]
  IN  \/ rank(k) > rank(j)
      \/ rank(k) = rank(j) /\ LastClaim(a, k) > LastClaim(a, j)
      \/ /\ rank(k) = rank(j) /\ LastClaim(a, k) = LastClaim(a, j)
         /\ j[1] < k[1] \/ (j[1] = k[1] /\ j[2] < k[2])

\* A set with the one machine of an address, or none.
MachineOf(a) == {k \in Claimed(a) : \A j \in Claimed(a) \ {k} : Beats(a, k, j)}

IsLocalAddress(a) ==
  /\ Scope[a] # "multicast"
  /\ \/ Scope[a] \in {"loopback", "link_local"}
     \/ Holds(Segment, a) \/ Covers(Segment, a)
     \/ IsPrivate(a) /\ \E k \in Claimed(a) : k[1] \notin Routers

Sightings(a) == {r.epoch_ns : r \in {s \in Seen : a \in Touched(s, Segment, Routers)}}

\* Packets observed per direction of every conversation.
Directions ==
  UNION {{<<r.ip_src, r.ip_dst>>, <<r.ip_dst, r.ip_src>>} :
           r \in {s \in Seen : Conversation(s)}}

PacketsAlong(d) ==
  SumFunction([r \in {s \in Seen : HasIp(s) /\ <<s.ip_src, s.ip_dst>> = d} |-> observed[r]])

GraphOf ==
  [machine_of |-> [a \in KnownAddresses |-> MachineOf(a)],
   is_local |-> [a \in KnownAddresses |-> IsLocalAddress(a)],
   window |-> [a \in KnownAddresses |->
                 [first |-> Min(Sightings(a)), last |-> Max(Sightings(a))]],
   traffic |-> [d \in Directions |-> PacketsAlong(d)]]

Init ==
  /\ observed = [r \in Frames |-> 0]
  /\ graph = Unpublished

Observe(r) ==
  /\ graph = Unpublished
  /\ observed' = [observed EXCEPT ![r] = @ + 1]
  /\ UNCHANGED graph

Publish ==
  /\ graph = Unpublished
  /\ Seen # {}
  /\ UNCHANGED observed
  /\ graph' # Unpublished
  /\ graph' = GraphOf

Next == Publish \/ \E r \in Frames : Observe(r)

Spec == Init /\ [][Next]_<<observed, graph>>

=============================================================================
