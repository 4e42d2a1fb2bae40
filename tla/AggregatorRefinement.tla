------------------------ MODULE AggregatorRefinement ------------------------
(***************************************************************************)
(* The aggregator implements CaptureGraph: the document it builds is the   *)
(* graph CaptureGraph defines from the multiset of frames alone.           *)
(***************************************************************************)
EXTENDS Aggregator

\* The record list without its order.
Multiset == [r \in Frames |-> Cardinality({i \in DOMAIN packets : packets[i] = r})]

\* The (MAC, VLAN) keys whose machine carries this id.
KeysOf(id) == {k \in DOMAIN document.machines : document.machines[k].id = id}

\* Packets the document shows from x to y.
TrafficAlong(x, y) ==
  LET edge == document.edges[<<"l3", SortedPair(x, y)>>]
  IN  IF x < y THEN edge.forward ELSE edge.reverse

PairsShown ==
  UNION {{e.endpoints, <<e.endpoints[2], e.endpoints[1]>>} :
           e \in {document.edges[k] : k \in {j \in DOMAIN document.edges : j[1] = "l3"}}}

\* What the document says, in the vocabulary of CaptureGraph.
Graph ==
  LET nodes == document.nodes
  IN  [machine_of |-> [a \in DOMAIN nodes |-> KeysOf(nodes[a].machine_id)],
       is_local |-> [a \in DOMAIN nodes |-> nodes[a].locality.is_local],
       window |-> [a \in DOMAIN nodes |-> nodes[a].window],
       traffic |-> [d \in PairsShown |-> TrafficAlong(d[1], d[2])]]

Promise == INSTANCE CaptureGraph WITH observed <- Multiset, graph <- Graph

\* Whatever the order of the frames, the document is the promised graph: same
\* addresses, machines, locality, windows and per-direction traffic.
Promised == Promise!Spec

=============================================================================
