# network-graph: a verification project

network-graph turns a Wireshark capture into a graph of machines, addresses and
conversations. A FastAPI backend (`src/backend`) stages an upload, runs tshark over
it, decodes the printed fields into packet records, aggregates the records into one
document and keeps the last 32 documents in memory. A React frontend
(`src/frontend`) uploads a capture or opens a `.json` document, validates it, lays
it out with a force simulation and lets the user pan, zoom, drag and select.

This directory holds TLA+ models of that code, TLC configurations that check them on
small instances, and theorems about them whose proofs TLAPS checks. `PROJECT.json`
is the index: which definition models which lines, which run checks which property,
which theorem proves it for every value of the constants, and which hazard of the
code each property is aimed at.

Contents: [inventory](#1-inventory), [modules](#2-modules-and-how-they-correspond-to-the-code),
[runs](#3-runs), [fairness](#4-fairness), [proofs](#5-proofs),
[where code and documentation disagree](#6-where-code-and-documentation-disagree),
[what is not modelled](#7-what-is-not-modelled-and-why), [plan](#8-plan).

## 1. Inventory

Paths are relative to `src/backend/app` and `src/frontend/src`.

### Backend

| Component | State | Operations | What makes it correct |
|---|---|---|---|
| HTTP API (`api/captures.py`, `api/health.py`, `main.py`) | per request: where the handler waits; per process: up or not | `create_capture`, `read_capture`, `health`, `lifespan` | every upload gets one answer that tells its cause; a document is readable only once its upload was answered |
| Upload pipeline (`parsing/pipeline.py`) | a staging directory and its file, bytes written, frames printed | stage, read the header, dissect, aggregate, remove; limits on bytes and packets | the directory lives as long as its handler, whatever fails; the limits admit exactly what they say |
| Dissector processes (`parsing/tshark.py`, `parsing/capinfos.py`) | none of their own; the host's tools | `tshark_version`, `run_tshark`, `read_capture_info` | missing, broken, failing and slow tools are told apart |
| Capture store (`store.py`) | an ordered dictionary of at most 32 documents | `put`, `get` (which refreshes) | a document is dropped exactly when 32 others were touched after it |
| Records and decoding (`parsing/records.py`, `parsing/tshark.py`) | none | one record per usable line tshark prints | what aggregation relies on holds; both halves of a claim come from one layer that asserts it; a name goes to the host it is about; a truncated line says less, never something else |
| Timestamps (`parsing/timestamps.py`, `parsing/capinfos.py`) | none | parse and format nanoseconds, decide the digits of a file | no digit is lost or made up |
| Address classification (`aggregation/classify.py`) | none | scope, group MAC, locality, node type | locality agrees with binding |
| Survey and counting (`aggregation/build.py`, `accumulators.py`) | segment, routers; tables of addresses, machines, VLANs, edges | `consume` per frame, `finish` | no off-segment address is bound; traffic is conserved; the document does not depend on the order of frames |
| Flow table (`aggregation/flows.py`) | per flow: the port first seen, the port of the first SYN | `observe`, `server_port` | both directions are one flow; the first SYN decides |
| Document schema (`schemas/`) | none | validation, serialisation | carries what the others build |

### Frontend

| Component | State | Operations | What makes it correct |
|---|---|---|---|
| API client (`api/client.ts`) | one `XMLHttpRequest` or `fetch` per call | upload with progress, abort, health | each request settles once |
| Document parser (`api/parse.ts`, `api/readFile.ts`) | accumulated issues | structural and cross-reference checks | an accepted document can be drawn; a bad one is reported, never thrown |
| Upload button, application (`components/UploadButton.tsx`, `App.tsx`) | phase of the upload, the abort controller | pick, cancel, deliver, unmount | delivers at most once, never after a cancel; never stuck |
| Health polling (`hooks/useHealth.ts`) | last answer, request in flight | poll, recheck | an old answer never overwrites a newer one |
| Canvas gestures (`hooks/useViewport.ts`, `hooks/useForceLayout.ts`, `Graph.tsx`) | pointers down, pan, pinch, drag, click-suppressing flags | pointer events in any order | at most one gesture; a click follows a press that did not move |
| Viewport arithmetic (`lib/viewport.ts`, `lib/pointer.ts`) | none | zoom about a point, fit, pinch | the anchor stays under the pointer; zoom stays in its bounds |
| Layout (`lib/layout.ts`) | none | bodies, placements, edges of a document | every node is placed once |
| Scales, formatting, media queries (`lib/scales.ts`, `lib/format.ts`, `lib/media.ts`, `hooks/useCollapsed.ts`) | a media query match | pure presentation | |
| Presentational components, sample document (`components/`, `api/mock.ts`) | none | render what they are given | |

### How they interact

    client --POST /captures--> create_capture --job--> worker thread (write, capinfos,
              (event loop)         |    ^                tshark, aggregate, rmtree)
                                   |    +--result--------------+
                                   v
                              CaptureStore <--get-- read_capture

    tshark lines -> records -> segment, routers -> consume each record -> finish -> document

Request handlers run on one event loop, from one `await` to the next; blocking work
goes to a pool of worker threads with `asyncio.to_thread` and comes back as a
callback. `/health` is the exception: it runs a subprocess on the loop itself. The
store is touched by the loop only. The aggregation is a sequential program over one
list, but its input is as adversarial as a schedule: frames in any order, timestamps
that go backwards, claims that contradict each other. The frontend meets its
interleavings in pointer events, in XHR events against cancellation, and in
overlapping health polls.

### What is hard to test

`PROJECT.json` lists every hazard at its line with the properties aimed at it. The
main ones:

* the *order of frames*: bindings, windows and locality must not depend on it, and
  three kinds of strong evidence (ARP, NDP, DHCP) bypass the conditions that guard the
  weak one;
* facts *computed before or after the pass that uses them*: the segment and the
  routers (before), the VLANs of a MAC (after), the server port of a flow (both);
* *interleaving at every await* of uploads, readers, `/health`, a host whose tools
  change and a process that is killed: one job per awaiting handler, one owner per
  staging directory, one status per cause;
* a *bounded store* whose reads change what is dropped next;
* a *bounded pool* shared by every kind of job, the removal of directories included;
* *columns in which layers run together*: tunnels, errors that quote a packet, lines that end early;
* in the frontend: pointers that land during a gesture, flags that outlive the
  gesture they belong to, a cancel racing a load event, a parser that throws.

## 2. Modules and how they correspond to the code

    PacketRecords --> Addressing --> Aggregator --> AggregatorRefinement --> MCAggregator
          |               |                                  ^ INSTANCE  \
          |               +-------------------------> CaptureGraph        +--> AggregatorProofs
          |                                             (abstract)
          +--> Decode --> Dissection --> MCDecode, DecodeProofs

    Timestamps --> MCTimestamps, TimestampsProofs

    CaptureStore ---> CaptureService ---> MCCaptureService, CaptureServiceProofs
        ^ INSTANCE
    RecentCaptures (abstract)

    UseHealth --> UploadApp --> MCUploadApp, UploadAppProofs
    GraphGestures --> MCGraphGestures, GraphGesturesProofs
    Fractions --> Viewport --> MCViewport, ViewportProofs
    CaptureView --> MCCaptureView, CaptureViewProofs

### From a line to a record

**`PacketRecords`** is `records.py`, the boundary between parsing and aggregation. Addresses,
MACs, VLAN ids and ports are small naturals whose order stands for the order of the texts the
code sorts; `None` is -1. `WellDecoded` is what aggregation relies on: a claim has both halves
or none, an ARP reply repeats its sender, 0.0.0.0 is claimed by neither ARP nor DHCP, an IP frame
has both ends, ports come with TCP or UDP and then at least the source port, without which
`_transport` takes the frame for neither. `Decode` shows it, `Addressing` assumes it.

**`Decode`** is `decode` with everything it calls. A line is a sequence of columns in the order of
`FIELDS`, a column the sequence of the values its field had in the frame.

| Definitions | In `tshark.py` |
|---|---|
| `Fields`, `Index`, `Get`, `First`, `IntOf` | `FIELDS`, `_INDEX`, `get` (with the padding of short lines), `first`, `_as_int` |
| `Usable`, `Skip`, `Yield` | which lines give no record; the loop of `decode` |
| `EndsOf`, `TransportOf`, `FlagsOf` | `_addresses`, `_transport`, `_as_flag` |
| `Sender`, `Replied`, `Advertised`, `Assigned`, `Solicited` over `BindingPair` | `_with_bindings` |
| `Client`, `DnsClaims`, `MdnsClaims`, `HostnamesOf` | `_hostnames`, `_dns_claims`, `_address_from_arpa` |

**`Dissection`** is the other side of the pipe, external to `src`: a frame is a sequence of layers,
each saying the fields it has, and tshark prints for every field what each layer in turn says of
it. So two layers are run together in one column, and the properties can ask which layer a
record's content came from; of a DNS message it also knows the name each answer is of, which no
column says. A line may end after any column, not within one. `CapturedAssumption` is
what the proofs need to know of frames.

**`Timestamps`** follows a time from the text tshark prints (`EpochNs`) to the text the document
shows (`Shown`), with the precision capinfos states for the file (`Digits`). `Nines` stands for
the nine digits of a nanosecond. `resolution_digits`, which only the tests of the repository call,
is left out.

### Aggregation

**`Addressing`** holds the pure part: scope and locality of an address, the captured segment, the
set of router MACs, the binding claims a frame makes, the key and the port of a flow. `Scope`,
`Prefix`, `GroupMac` and `LimitedBroadcast` say of each address and MAC what Python's `ipaddress`
would. `Frames` is the set of records a capture is made of.

**`Aggregator`** is `build_document` with `_Aggregator`. Its phases are the code's
control: `Read` appends a record to the list; `Refuse` is the error for an empty
capture; `Survey` computes segment and routers over the whole list before anything is
counted; `Consume` is one call of `consume` with everything it calls (`_note_macs`,
`_address`, `_note_bindings`, `_note_hostnames`, `_consume_l3` with the flow table and
the services, or `_consume_l2`); `Finish` is `finish` with `_assign_machine_ids`,
`_resolve_bindings`, `_resolve_localities`, `_roll_up_traffic` and the three builders;
`Crash` is the `KeyError` of `finish` when a binding names a machine no frame
registered. Byte totals, vendors, labels and layer-7 names are left out: they are
counted beside the packets, in the same statements.

| State | In the code |
|---|---|
| `packets`, `position` | the record list and the loop over it |
| `segment`, `routers` | the results of the two passes before the counting pass |
| `window`, `addresses`, `machines`, `vlans`, `edges`, `flows` | the tables of `_Aggregator` |
| `document` | nodes, machines and edges of the returned document |

**`CaptureGraph`** is what the aggregation promises, without tables, passes or order: a
state is only *how often each frame was observed*, and the published graph is defined
from that. `AggregatorRefinement` maps the aggregator onto it: the multiset of the
record list, and the document read back as machines, localities, windows and
per-direction traffic. `Promised` says every behaviour of the aggregator is one of
`CaptureGraph`. It is where order dependence would show.

### Backend process

**`CaptureStore`** is `store.py`: `order` is the key order of the `OrderedDict`, `Put`
inserts at the end and drops from the front, `Get` is `Hit` (which moves the document
to the end) or `Miss`. **`RecentCaptures`** says the same without a dictionary: each
readable document remembers the set of *others* touched since it last was, and is gone
when there are `Capacity` of them. `KeepsRecent` is the refinement from one to the other.

**`CaptureService`** extends the store to the whole backend process. Per upload, `stage`
is the await `create_capture` stands at, with `size`, `frames`, `raised` and `status`;
the pool is a FIFO `queue`, the `busy` jobs and each job's `result`; `staged` are the
directories on disk; `tools` is what the host makes of tshark and capinfos; `process`
and `loop` are the process and its event loop.

| Actions | In the code |
|---|---|
| `Begin`, `BeginFails`, `ReadChunk`, `Written`, `EndOfFile` | opening the staging area and the chunk loop, with the size limit and the empty upload |
| `Advance`, `Fail`, `Answer` | resuming after a job: on to the next await, into the `finally`, out to the `except` arm and the response |
| `TakeJob`, `FinishWrite`, `FinishHeader`, `FinishDissection`, `FinishAggregation`, `FinishRemoval` | the worker threads; a job's outcomes are those of the code it runs |
| `ReadCapture`, `HealthBegin`, `HealthEnd` | the other two handlers |
| `Boot`, `Crash`, `ToolsChange` | `lifespan`; a killed process; somebody installing or removing Wireshark |

A step of the event loop is a handler from one await to the next, so everything the
code does between two awaits is one action. `Arms` is the list of `except` arms in their
order, and `Caught` the classes each exception belongs to, so the status of an answer
is decided the way Python decides it: by the first arm that matches.

`process` starts "down" and `Boot` brings it up or, when the check of tshark raises
something `lifespan` does not catch, leaves it "dead". A crash forgets everything in
memory and keeps the staging directories.

### The page

**`UseHealth`** is the hook with `getHealth` and the Retry button. A *check* is one run of the
effect; `checks` counts them, the last one is live, `phase` is where the request of each stands,
`answered` what answered it. `FetchAnswers`, `BodyArrives` and `Rejects` are the continuations,
`Recheck` the cleanup of the old effect with the start of the new one, `Rejection` what an aborted
request rejects with (an error status hides the abort). The backend changes as it likes.

**`UploadApp`** extends it to the page around the graph.

| State | In the code |
|---|---|
| `status`, `request`, `abortable` | `UploadButton`'s state, the `XMLHttpRequest` of `postCapture`, `abortRef` |
| `picks`, `fate` | how many files were picked, and what became of each |
| `doc`, `selection` | `App`'s state as rendered |
| `queued` | state set in a promise continuation and not rendered yet |
| `overtaken` | documents a click on the one before overtook (history, for `SelectionIsCurrent`) |

A step is one task of the browser with the continuations it sets off; what a click sets is rendered
before the next event, what a continuation sets is rendered by a later task (`Render`), so clicks
fall in between. `Pick…`, `RefuseCapture` and `SendCapture` are the ways `handleFile` begins,
`Read…` and `Xhr…` its ends, `Cancel`, `Reset`, `Select` the other buttons, `Unmount` both cleanups.

**`GraphGestures`** is one pointer event per action with all its handlers in their order: the target's
own first, then the canvas's.

| State | In the code |
|---|---|
| `live`, `background`, `gesture`, `panned` | `livePointers`, `backgroundPointers`, `gestureRef`, `pannedRef` of `useViewport` |
| `drag`, `dragged`, `pinned`, `hot` | `dragRef`, `draggedRef`, the fixed bodies and the alpha target of `useForceLayout` |
| `selection` | `App`'s |
| `down`, `far`, `shared`, `crossed`, `click`, `astray` | hand and browser: what each pointer is on and what its press was like |

Captured pointers are released on the canvas wherever they are lifted; a mouse pressed on an edge
is captured by nothing, and `astray` records that a press or release went unheard.

**`Viewport`** is the arithmetic of `lib/viewport.ts` and `lib/pointer.ts` and its use by pans, pinches,
the wheel and the buttons, over exact fractions (**`Fractions`**, its operators `(+) (-) (.) (/)`).
`view` holds every update queued, `shown` what was rendered last: `setViewport` only queues, and
what reads the screen in between sees `shown`.

**`CaptureView`** goes from a JSON value to what is on screen. `Parsed` is the parser with every check
(`MachineFaulty`, `NodeFaulty`, `EdgeFaulty`, `CrossFaulty`, `Duplicates`) and `Throws` what it throws
on; `MachineBodies`, `AddressBodies`, `Circles`, `PlacedIn`, `Links` are `lib/layout.ts`; `DrawnEdges`
and `DrawingThrows` the canvas; `DanglingIn` and `PanelThrows` the details panel. Its actions
load a value, click, follow references of the panel, reset and reload. `missing` is the set of
fields that nobody checks and an entry lacks. `SampleCapture` is `api/mock.ts`, drawn unparsed.

### Assumptions of the models

* `KindsAssumption`, `ValuesAssumption`, `FramesAssumption`: kinds of addresses, MACs, ports; every frame
  aggregated is a `PacketRecord` and `WellDecoded`, which `Decode` guarantees.
* `AddressesAssumption`: there are finitely many addresses, as they have 32 or 128 bits.
* `LinesAssumption`, `TextAssumption`: a line is a sequence of columns, and tshark prints addresses, MACs
  and names where it prints any, while ports, tags and times may be junk. What `ipaddress` rejects
  is dropped by the aggregation, not by the decoder, and does not occur among the model's addresses.
* `CapturedAssumption`: fields are said by the layers of their protocol; an IP layer has both its ends and an
  ICMPv6 layer its type; ARP, DHCP and neighbour advertisements are the last of their protocol in a
  frame, as they carry no packet, and no network layer follows a layer that names a host; only DNS
  messages say questions and answers, and one is mDNS when its port or the protocol chain says so.
* `DocumentAssumption`: lists are sequences and `machine_id` is one id or none, as in any JSON value.
* `TimeAssumption`: a nanosecond has some positive number of digits (nine), the precision stated is a
  natural or absent, and a text is a sign, whole seconds or none, and digits.
* `ViewportAssumption`: two pointers; points of the screen lie on it, and any two are a whole distance
  apart (for the fractions: the code takes a square root); a wheel zooms by a positive factor; there are
  finitely many circles, at whole coordinates. The zoom bounds 0.15 and 6 are those of the code.
* A client that goes away does not cancel its handler, so clients are not modelled.
* `shutil.rmtree(directory, True)` removes the directory.
* Aggregation inside `CaptureService` is represented by its outcomes: a document, a
  `ValueError` of validation, a `KeyError`; `Aggregator` shows the last one is real.

## 3. Runs

| Run | Distinct states | Bounds | Properties |
|---|---|---|---|
| `decode` | 824 | one frame of every kind, every line cut after every column | `RecordsAreWellDecoded`, `TruncationOnlyLoses`, `OnlyAssertedPairsBind`, `NamesTheRightHost`, `OuterIsTheConversation` |
| `timestamps` | 4840 | 3 digits for 9, fractions of up to 4 digits 0, 1, 9, whole seconds -2 to 2, every stated precision | `ShownJustBefore`, `NothingLost` |
| `aggregator` | 76664 | all captures of at most 3 of the 16 `LanFrames` and all of at most 4 of the 9 `FlowFrames` | `TypeOK`, `OffSegmentUnbound`, `BoundIsLocal`, `WindowsNest`, `PacketsConserved`, `MachineIdsUnique`, `FlowCountExact`, `SynDecides`, `ServicesPartition`, `EvidenceOnlyGrows`, `Promised` |
| `service` | 110166 | 2 uploads, 2 threads, room for 1 document, 1 chunk and 1 frame allowed, under `FairSpec` | `StagingFollowsHandlers`, `StatusTellsCause`, `StoredWasAnswered`, `EveryUploadAnswered` |
| `service_store` | 114145 | 3 uploads, 2 threads, room for 2 documents, working tools and no failing upload | `KeepsRecent` |
| `app` | 265k | 3 health checks, 2 picks, under `FairSpec` | `NothingRunsUnwatched`, `ShownWasDelivered`, `SelectionIsCurrent`, `OnlyTheLatestCheckSpeaks`, `PickerReturns`, `CheckingEnds` |
| `gestures` | 1.9M | 1 mouse, 2 fingers, 2 bodies, 1 edge; fingers and bodies symmetric | `OneRolePerPointer`, `AtRest`, `HeatFollowsDrag`, `OnlyATapClears`, `DroppingDoesNotSelect` |
| `viewport` | 731k | a 16 by 12 screen, 3 points on it, wheel factor 8, 2 sets of circles, 3 presses, turns or buttons; pointers symmetric | `HeldPointIsUnderHand`, `ZoomKeepsAnchor` |
| `document` | 10907 | documents of at most 2 machines, 2 addresses, 2 edges; sound ones with one entry damaged in every way | `DrawnOnce`, `EveryConversationDrawn`, `NoDanglingShown`, `OnlyUncheckedFieldsCrash` |

Three further runs stop at a counterexample: `aggregator_l2_vlans`, `aggregator_unregistered` and
`service_boot` ([section 6](#6-where-code-and-documentation-disagree)).

`TypeOK` of the backend, the page and the gestures, `EdgesClosed`, `OneJobPerAwait` and
`PublishedOnce` are in no run: they are proved for every value of the constants (section 5), and the
invariants the runs check rest on them.

What the passing runs show:

* **`decode`**. ARP requests, replies and probes, a neighbour solicitation and its advertisement, the
  four messages of a lease, conversations over both IP versions with SNI, Host and NBNS names, DNS and
  mDNS answers that pair with their question or have none or stand in another order, doubly tagged frames, tunnels, errors that
  quote a packet, a port that is no number. Each is printed as tshark does and cut after each of its 37
  columns. A record never says something *else* because its line was cut; no half of a claim comes from
  another layer than its other half, or from a layer that does not assert it; every name is claimed
  for the address its layer is about, except in tunnels, for what a DHCP server says of a client it
  leases nothing to, and for DNS answers out of order; the ends of a packet are those of the outer
  layer, except for IPv4 within IPv6.
* **`timestamps`**. Fractions that need padding, borrowing and cutting, on both sides of the epoch; clocks
  as fine as stated and finer. What is shown is never more than a unit of its last digit before the
  text, and is the whole text if the clock is no finer than its header says.
* **`aggregator`, frames of a LAN**. They are those of a PC, a gateway, a remote host and two IPv6 hosts:
  ARP replies on two VLANs, traffic through the gateway in both directions, a second MAC
  claiming the PC's address on VLAN 0, neighbour discovery, a DHCP discover from 0.0.0.0, a host
  talking to itself in a frame without MACs and a broadcast DHCP lease *of a public address*; five
  of them come with either of two timestamps, so that list order and time order disagree. Three frames
  suffice for the cases at stake: one to make a MAC a router, one to put an address on
  the segment, one that claims; a weak claim before or after a strong one; a MAC
  seen untagged and on VLAN 10, another untagged and priority-tagged (VLAN 0). Within that, no
  off-segment address is bound, binding agrees with locality, windows nest, traffic is conserved, and
  the document is the graph `CaptureGraph` defines from the multiset of frames. The steps of a capture
  that crashes (the DHCP lease without the client's frames) are part of it: the document
  is then never published.
* **`aggregator`, frames of flows**. One client, two servers: a handshake, a retransmission, a reset,
  a SYN in the *other* direction on the same 5-tuple, a UDP datagram with the same port at
  both ends, a segment with no readable port, a ping. Four frames are enough for a flow that starts in the middle, is opened
  by a SYN and opened again from the other side, beside a second flow on the same edge.
  The constraint `OneCast` keeps the two kinds of frames out of each other's captures.
* **`service`**. Two uploads interleave at every await with readers, `/health`, tools that
  change under them and a process that is killed and started again. Two threads let jobs
  overlap; two uploads and room for one document make eviction happen; limits of one make
  "exactly at the limit" and "one over" both reachable for bytes and for frames. Deadlock is
  checked. With one document the store's order is never one of two, so what decides
  *which* document goes is left to the next run.
* **`service_store`**. The same backend with three uploads and room for two: a read between the
  second upload and the third changes which of the first two goes, and a store that kept its
  documents in the order of upload fails the run. To afford the third upload, the constraint
  `Untroubled` leaves out failing uploads, changing tools and `/health`, none of which touches the
  store; overlapping uploads, reads of every id and kills stay in.
* **`app`**. Three checks, so that one is overtaken while its predecessor's abort is still to come; two
  picks, so that a new document meets a selection in an old one. A backend that stops, fails, garbles
  its answers or loses tshark between any two steps; cancels, resets and the end of the page
  anywhere. Deadlock is checked.
* **`gestures`**. A third pointer beside a pinch, presses on bodies during a pan, a new document during a
  drag, clicks judged by the press they belong to. Two bodies let a drag be overtaken by another.
* **`viewport`**. The points are a whole distance from each other (8, 6 and 10), so that a pinch's factor
  is a fraction; with a wheel factor of 8 and pinches by 10/6 both zoom bounds are reached. Every view
  that a wheel, a button, a pinch or Fit leaves has the shape of the canvas and a scale within the bounds.
* **`document`**. Every way for `node_ids` and `machine_id` to disagree, repeated ids, every field of one
  entry damaged, then every path of clicks, and a second document over the first.

The configurations of the aggregator do not check for deadlock: the aggregation of one capture
ends; nor does `viewport`, which its bound stops. The bounds are `MaxPackets` on the record list,
`MaxChecks`, `MaxPicks` and `MaxSteps`; `MaxSize` and `MaxFrames` bound `size` and
`frames`, because the code itself stops counting one past the limit.

Every property of a passing run has a mutant in `PROJECT.json`: a plausible bug in a
definition of the code (a dropped guard, evidence that replaces instead of accumulating,
a `finally` that is missing, a limit tested one too late, columns in another order, a flag that
is not reset, a listener removed too early), under which the same run finds the property
violated. The mutated forms stand beside the definitions they mutate, each under a comment
that begins "Mutation of".

## 4. Fairness

**`service`** runs under `FairSpec` of `CaptureService`:

* `SF(Proceed(u))` for each upload: the ready queue of the event loop, the job queue of the
  executor and the callbacks of a finished job are first in, first out, so a handler that
  can go on *again and again* does. Weak fairness would not do: `/health` blocks the loop
  repeatedly, and each time it disables every handler;
* `WF(FinishJob(u))`: a running job ends; tshark and capinfos are killed at their timeouts,
  the other jobs are finite;
* `WF(TakeJob)`: an idle thread takes a queued job;
* `WF(HealthEnd)`: the version check gives the loop back, after 15 s at most.

Nothing is assumed of clients, of the host's tools, of restarts, or of `Begin`: an upload
that was never begun need not be. `EveryUploadAnswered` allows "gone", the fate of an
upload whose process was killed.

**`app`** runs under `FairSpec` of `UploadApp`: weak fairness of the continuations of each check, of the
ways a file being read ends, of the ways a request ends, and of `Render`. The browser runs the tasks
it has; `/health` and uploads are taken to be answered or to fail, which for uploads is
`EveryUploadAnswered` and for a broken connection the browser's own timeout (the code sets none).
Nobody has to press a button, and the backend need never become ready.

## 5. Proofs

The theorems hold for every value of the constants: any set of frames, lines or documents and any
length of capture, any number of uploads, threads, checks, picks and pointers, any capacity and
limits, any screen and zoom factors, texts of times of any length. They rest on the named assumptions
of the modules ([section 2](#assumptions-of-the-models)) and on nothing else. The viewport has two
pointers; which pointers a gesture follows when there are more is proved of `GraphGestures` (`Heard`).

| Theorem | Property | Argument |
|---|---|---|
| `AggregationIsFedWellDecoded` | `RecordsAreWellDecoded` | one lemma per part of the record: what the first value of a column can be, both halves of a pair or none, both ends or none |
| `TypeCorrect` | `TypeOK` of `Aggregator` | inductive as it stands, one step per action; the bulk is that each table update keeps its kind |
| `SupportedAlways`, `GatewayIsNotAHub`, `BoundAddressesAreLocal` | `OffSegmentUnbound`, `BoundIsLocal` | through `Supported`, see below |
| `NestedAlways`, `EdgesAlwaysClosed`, `WindowsAlwaysNest` | `EdgesClosed`, `WindowsNest` | through `Nested`, see below |
| `EvidenceNeverLost` | `EvidenceOnlyGrows` | every consumed frame leaves each binding with an equal or stronger basis and a wider window |
| `MachineIdsAlwaysUnique` | `MachineIdsUnique` | through `VlansNoted`, see below |
| `EdgesAlwaysCounted`, `PacketsAlwaysConserved` | `PacketsConserved` | through `EdgesCounted`, see below |
| `FlowsAlwaysKnown`, `FlowCountAlwaysExact` | `FlowCountExact` | through `FlowsKnown`, see below |
| `FirstAlwaysRemembered`, `SynAlwaysDecides` | `SynDecides` | through `FirstRemembered`, see below |
| `ServicesAlwaysCounted`, `ServicesAlwaysPartition` | `ServicesPartition` | through `ServicesCounted`, see below |
| `TablesTell`, `AggregationIsPromised` | `Promised` | through `Told`, see below |
| `TruncationAlwaysOnlyLoses` | `TruncationOnlyLoses` | one lemma per part of the record: cutting a line empties a tail of the columns, and what the part reads |
| `OnlyAssertedPairsEverBind` | `OnlyAssertedPairsBind` | the layer that said the first opcode or type is alone in its protocol, so it said both halves |
| `OuterIsAlwaysTheConversation` | `OuterIsTheConversation` | nothing says an end before the first network layer |
| `NamesAreAlwaysRight` | `NamesTheRightHost` | the carrier of the layer that said the name is the only network layer; the columns of DNS are those of the only message |
| `AlwaysShowsTheText`, `AlwaysShownJustBefore`, `NothingEverLost` | `ShownJustBefore`, `NothingLost` | through the lemmas on powers and digits, see below |
| `StoreKeepsRecent` | `KeepsRecent` | the store implements `RecentCaptures` |
| `ServiceTypeCorrect` | `TypeOK` of `CaptureService` | together with `Admitted`: an upload that may still grow is within the limit |
| `JobsFollowAwaits` | `OneJobPerAwait` | inductive with the types |
| `StagingAlways`, `StagingFollows` | `StagingFollowsHandlers` | through `StagingInv` |
| `StoredIsAnswered`, `PublishedWhenAnswered` | `StoredWasAnswered`, `PublishedOnce` | from the above and the store's invariant |
| `ServiceKeepsRecent` | `KeepsRecent` | every step of the backend is a step of the store, a restart of it, or leaves it alone |
| `CauseAlways`, `StatusTells` | `StatusTellsCause` | through `CauseInv` |
| `PageTypeCorrect` | `TypeOK` of `UploadApp` | with `PickInHand`: a busy picker holds a pick |
| `ConsistentAlways`, `NothingRunsAlone` | `NothingRunsUnwatched` | through `Consistent`, see below |
| `ShownAlways`, `SelectionAlways`, `OvertakenChecksAreSilent` | `ShownWasDelivered`, `SelectionIsCurrent`, `OnlyTheLatestCheckSpeaks` | from `Consistent` and that what is queued is of the current pick |
| `GestureTypeCorrect`, `HeatAlways` | `TypeOK` of `GraphGestures`, `HeatFollowsDrag` | inductive together with the types |
| `TrackingAlways`, `DroppedIsNotSelected` | `DroppingDoesNotSelect` | through `Tracking` and `Dragging`, see below |
| `HeardAlways`, `OneRoleAlways`, `RestIsComplete` | `OneRolePerPointer`, `AtRest` | through `Heard`, see below |
| `ClearedByATap` | `OnlyATapClears` | through `Panning`, see below |
| `AlwaysSteady`, `HeldPointStaysUnderHand` | `HeldPointIsUnderHand` | through `Steady`, see below |
| `ZoomAlwaysKeepsAnchor` | `ZoomKeepsAnchor` | from `Steady`, by the cases of the clamped width |
| `DrawnIsTrusted`, `BlankOverAField`, `NothingDangles`, `EveryAddressDrawnOnce`, `EveryL3EdgeDrawn` | `OnlyUncheckedFieldsCrash`, `NoDanglingShown`, `DrawnOnce`, `EveryConversationDrawn` | through `Trusted`, see below |

**`Supported`** (`AggregatorProofs`). `OffSegmentUnbound` is not inductive: that a *claim*
about an address off the segment is never accepted depends on what the survey knew, while
the tables only hold what was accepted. `Supported` says that from the survey on, the
segment contains every address it should for every frame of the list; each binding is
backed by what the guard of the weakest evidence demands, which the strong claims (ARP,
NDP, DHCP) satisfy *because the survey has read the very frame that makes them*; and the
MAC by which locality is judged was noted with the binding. The first theorem follows at
once. `BoundIsLocal` follows because a binding is exactly such a noted MAC: either it
belongs to no router, and the address counts as local by its sender, or the address is on
the segment.

**`Nested`** (`AggregatorProofs`). `WindowsNest` and `EdgesClosed` need each other: an
edge can lie within the windows of its ends only if the ends are there. Added to them:
before the first frame there is no capture window and every table is empty, which is what
makes the first frame a special case of the rest.

**The counters** (`AggregatorProofs`). Each table is tied to the *prefix of the list* that was
consumed, by an invariant that says what a counter, a set or a remembered value is of that prefix:

* `ReadAhead`: the loop stays within the list, which no longer grows once the survey has begun;
* `VlansNoted`: `vlans` lists exactly the VLANs of the machine keys of a MAC, so a MAC that is on two
  gets two suffixes and one that is on one gets none, and no two keys share an id;
* `EdgesCounted`: the packets of the l3 and of the l2 edges sum to the frames that belong on each. The
  other half of `PacketsConserved`, that traffic rolls up from the edges into the addresses,
  concerns `finish` alone;
* `FlowsKnown`: an edge holds exactly the flow keys of the packets it counts. `FlowCountExact` follows
  because two packets share a key exactly when their 5-tuples agree up to direction;
* `FirstRemembered`: an entry of the flow table says what the first packet of the flow said and, if it
  had any, its first SYN. `SynDecides` follows since the port of a service is asked of that entry;
* `ServicesCounted`: the services of an edge sum to its packets that have a port to be served by.

What a sum is, is proved once: `SumFunction` over a finite set is the number of pairs of an element
and a number below its value (`SumCountsPairs`), so that sums are added, compared and rearranged as
cardinalities. The induction this takes is over the subsets of a finite set: `SetInduction` takes
its property as the set of the subsets it holds of, since the library's induction theorems take it as
an operator.

**`Told`** (`AggregatorProofs`). The aggregator counts one frame after the other in the order of
the list; `CaptureGraph` knows neither. `Told` says that after each prefix the tables hold what
`CaptureGraph` would say of the *frames in it*: the survey is of the whole list (`Surveyed`), the
addresses known are those the frames touch, each with the bindings the frames claim, the
strongest basis of each, the latest time of each and the window of all (`AddressesTold`, over
`AccTells`), and an l3 edge counts its packets by direction (`DirectionsCounted`). None of it mentions an
order, so what `finish` makes of it cannot depend on one. The lemmas `MachineShown`, `LocalityShown`,
`WindowShown` and `TrafficCounts` then read each part of the graph off the tables: the binding in effect
is the greatest in a total order (`OutranksOrder`), so the one that `_resolve_bindings` finds by
comparing is the one `CaptureGraph` chooses; a sum over occurrences is the number of positions of the
list, grouped by frame. `Read` is the step that observes a frame, `Finish` the one that publishes, and
all others stutter, `Crash` and the `Finish` of a capture without addresses among them.

**`StoreKeepsRecent`** (`CaptureServiceProofs`). The inductive invariant `StoreInv` says no key
stands twice in `order` and there are at most `Capacity`. The refinement mapping gives each
held document the set of documents behind it in `order`; the lemmas say what moving a key to
the end and dropping the first one do to those sets, and that such a set reaches `Capacity`
members exactly for the document that is dropped.

**`StagingInv`, `CauseInv`** (`CaptureServiceProofs`). `StagingInv` adds what the `finally` knows
while it waits: the directory is there until its job is done. `CauseInv` says for each stage
what its handler already knows of `size` and `frames`, and for each exception, while it
travels from the worker thread through the `finally` to its `except` arm, what it says about
them; the arms then turn it into the status.

**`Consistent`** (`UploadAppProofs`). `NothingRunsUnwatched` says nothing of a picker without a request,
so a step from there could break it. `Consistent` ties the three places that know of an upload
together (the request, the controller, the status), says picks not made yet have no fate, that
only the live check has a request, and that a closed page has nothing queued.

**`Tracking`, `Dragging`, `Heard`, `Panning`** (`GraphGesturesProofs`). What the hooks track and what the
hand does agree only while every release is heard, so `Tracking` (every pointer that is down is
tracked) holds always and `Heard` (every pointer tracked is down) only while not `astray`. `Heard`
also says a pinch follows the first two tracked pointers, which is what makes the removal of any
of them end or hand over the gesture. `Dragging` says a press that moved on a body either drags
it still or has set the flag its click will meet; `Panning` that a press on the background whose
pan flag is not set is a pan that has not moved, and that a click that moved, or was part of a pinch,
meets the flag.

**`Trusted`** (`CaptureViewProofs`). The document on screen is the sample or was let through by the
parser, and then no entry is faulty, ids of one list do not repeat (edges excepted), and every
reference names an entry of the kind it should. The four properties follow from it alone, with
lemmas on what the passes of the layout make of such a document.

**`TruncationAlwaysOnlyLoses`** (`DecodeProofs`). `CutOf` says what a cut line still has: columns up to some
index as they were, nothing in the others. A lemma for each part of the record (ends, transport,
flags, the five claims, the names) then uses the order of the columns that part reads: where the
code falls back on a second column when the first is empty, the second must come after it.

**What a column begins with** (`DecodeProofs`). What tshark prints of a frame is a recursive concatenation,
which the library's induction theorems do not reach. `FlattenBegins` proves what matters of it from the
least number for which it fails: a concatenation begins with its first member that is not empty, and is that one if it is alone. So
the first value of a column is what the first layer to say anything of it says (`FirstSaid`), and
what a record takes from two columns can be traced to layers; the columns of the only DNS message of a
frame are its own (`MessageColumns`), so that position in the column is position in the message.

**Digits** (`TimestampsProofs`). Powers of ten and the number a sequence of digits denotes are recursive
functions. That such a function has the value its definition gives (`Powers`, `Reading`) is shown by
building it: it exists up to every bound, and any two agree where both are defined. Then `PowerOfSum`
splits a power where a text ends, `TrailingZeros` says what zeros after the last stated digit contribute,
and `CutToUnits` that cutting after a floor division is flooring to the unit shown, for negative times
too. The invariant itself only says what is on show comes of the last text.

**`Steady`** (`ViewportProofs`). First, `Fractions` is made a field: `Gcd`, recursive too, divides both of its
arguments and scales with them (`GcdScales`), so two pairs with equal cross products have the same lowest
terms (`SameValue`), and the laws of sums, products and quotients are laws of integers. On that stands
what each update of a view does: a pan moves by what is missing (`PanHolds`); a pinch and a zoom divide
the width and the height by one factor, clamped, and scale the distance to the anchor by the *clamped*
factor (`PinchHolds`, `ZoomHolds`), which is why a point does not slip away at a bound; Fit frames the
least and greatest of finitely many circles (`FitIsView`). `HeldPointIsUnderHand` is not inductive:
a move starts over from the view and the graph point the gesture began with, so these must have the shape
of the canvas and a width within the bounds, and the pointers that made the gesture must still be down.
`Steady` says so of `view`, `shown` and the gesture.

Model-checked only:

* `EveryUploadAnswered`, `PickerReturns` and `CheckingEnds`: liveness under fairness is out of the prover's
  reach.

The violated properties (`EndpointsExist`, `EveryBindingEmitted`, `AlwaysStarts`) have TLC's
counterexamples.

## 6. Where code and documentation disagree

Each of these is a run that TLC ends with a counterexample, and a finding in `PROJECT.json` with the
quoted line.

* **`aggregator_l2_vlans`**. `build.py:474` ends an l2 edge in `mac:<address>` whatever the VLAN,
  while a MAC seen on two VLANs becomes two machines with suffixed ids. The test
  `test_every_edge_endpoint_exists_in_the_document` states otherwise. Two ARP replies of one MAC,
  one tagged, are enough.
* **`aggregator_unregistered`**. `build.py:586` looks up the machine of a binding, but a DHCP ACK
  may bind a MAC none of whose frames were captured; no document is built. The docstring
  (`build.py:575`) says every binding is still emitted.
* **`service_boot`**. `tshark.py:118` turns only `FileNotFoundError` into `TsharkNotFoundError`; a binary
  that is present but not executable raises `PermissionError` and stops the start-up, against
  `tshark.py:109` and `main.py:30`.

Noted while modelling, without a run (the properties leave these cases out, or say nothing of them):

* `build.py:367` makes a claim of every source address and Python calls 0.0.0.0 private, so a DHCP discover
  binds it to its client, and every further client to its own machine; `test_parsing.py:206` says
  `test_an_unspecified_address_never_binds`, which the decoder sees to for ARP and DHCP claims only.
* `tshark.py:269` prefers IPv4 whichever layer is the outer one: the record of IPv4 in IPv6 is about the
  inner conversation, against `test_parsing.py:301` ("the outer one is the conversation").
* Names are claimed for the outer destination (`tshark.py:376`), so a handshake inside a tunnel names the
  tunnel's far end, where `tshark.py:369` says "an SNI names the server the client is dialling".
* A name in a DHCP message "names the client, which is the address being leased if this is the ACK, or the
  source otherwise" (`tshark.py:384`): the source of an offer, and of an ACK without a lease, is the server,
  which then bears the names of its clients. Likewise `nbns.name` of a NetBIOS *query* is the name asked
  for, not "the host that registered it" (`tshark.py:392`).
* DNS answers are paired with questions by position (`tshark.py:417`, "the best available pairing"): answers
  in another order, or two messages in one TCP segment, whose columns run together, name another
  question's host; the addresses of an mDNS message all get the name of its first question.
* A file of whole seconds is shown with nine digits (`capinfos.py:106`), where `resolution_digits` and its
  test (`test_timestamps.py:75`) have one for the same clock.
* After a body was dragged, clicks on edges do nothing until a body is pressed again: `draggedRef` is
  reset only there (`useForceLayout.ts:167`), while `lib/pointer.ts:10` says a press that moves less "counts
  as a click, not a drag".
* `useForceLayout.ts:140` finds no placement for machines, so an l2 edge between two machines on the canvas
  is not drawn: `Graph.test.tsx:28` says "draws every conversation".
* One flow can be counted for two services: `build.py:508` asks for its port at each packet and a later
  SYN changes the answer; `flows.py:50` calls it "chosen per flow".
* `store.py:25` says "The oldest is dropped first" and a test is called
  `test_drops_the_oldest_once_full` (`test_api.py:208`). The document dropped is the one used longest
  ago: `get` refreshes what it finds (`store.py:47`), so the first upload outlives a later one if it was
  read since. The test never reads between its puts; `KeepsRecent` states what the code does.
* The 404 of `captures.py:96` says the capture was never uploaded or the process restarted; eviction is
  a third case.
* The parser throws on a null entry and on a `node_ids` that is no array (`parse.ts:272`), where `parse.ts:214`
  promises to "explain why it is not one". The button then stays in "reading" (`UploadButton.tsx:60`).
* Accepted documents can blank the page, which has no error boundary: an absent `tcp_health` (accepted at
  `parse.ts:207`, read at `scales.ts:66`), a `capture` without its counts (`App.tsx:37`), `hostnames` or
  `first_seen` missing from a selected entry. `parse.ts:296` and `:18` say otherwise.
* References that dangle are rejected (`parse.ts:270` expects the panel to show them), so
  `DetailsPanel.tsx:91` is reached only through edges that share an id, which nothing looks for: the panel
  shows the first of them, the simulation links the last.
* `machine_id` and `node_ids` are not compared: an address can be drawn twice or not at all.
* Fit stops at the smallest scale and then does not frame everything, as the title of its button says.
* Errors take transport and ports from the packet they quote, and an ARP frame inside a tunnel counts as
  one of this segment ("ARP does not cross a router").

## 7. What is not modelled, and why

* *Argument lists, snapshot lengths, drop counts, HTTP bodies, CORS*: input and output without
  decisions the properties depend on.
* *Spelling*: hexadecimal integers, the case of MACs, suffixes of NBNS names, vendors, frame lengths,
  a separator or a line break inside a printed value (`splitlines` also breaks at control
  characters); the calendar of a timestamp.
* *Hashes, byte totals, vendor names, labels, layer-7 names* of the aggregation: counted beside what is
  modelled, under the same conditions. `failed_handshakes` is clamped at zero in the model as in the
  code; that it can undercount is not a property.
* *Document schema, scales, formatting, media queries, collapsed panels, colours and sizes*: no state another
  part depends on. The ring of a body (sines, square roots) and the forces are out of TLC's reach.
* *A release nobody hears*: a mouse pressed on an edge and released outside the canvas stays in
  `livePointers`, and the next press begins a pinch with it (`Graph.tsx:75` expects otherwise). It is in the
  model; the gesture properties except such runs (`astray`), as they could not hold.
* *The upload's progress* and its timeout, which the code never sets; `getCapture`, which nothing calls;
  StrictMode's double mount is the choice in `HealthInit`.
* `ReadThrows` leaves the picker in "reading" for ever, and `PickerReturns` excepts it; `SelectionIsCurrent`
  excepts clicks that overtake a queued render; a backend found ready is not asked again.
* *Rounding* in the viewport: the model is exact, and the exponential of the wheel is a factor from a set.
  The svg keeps the aspect of its box, so there is no letterboxing. A wheel or a button during a gesture
  moves the view until the next move takes it back (`slipped`).

## 8. Plan

Done, in this order: the aggregation, which is what the program is for; the backend process, where its
concurrency is; the page, its gestures, its viewport and what it makes of a document; the decoder and
the timestamps that feed the aggregation; a proof module beside each. Every safety property a passing
run checks is proved.

Left: the geometry of a body's ring, over scaled integers, and `useCollapsed` with its stored state.
