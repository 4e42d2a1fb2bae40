---------------------------- MODULE CaptureStore ----------------------------
(***************************************************************************)
(* backend/app/store.py: CaptureStore, an OrderedDict behind a lock.       *)
(*                                                                         *)
(* The dictionary is the sequence of its keys, oldest use first.  A        *)
(* document carries its own id, so which document a key maps to is left    *)
(* out.  Every method holds the lock from its first to its last line and   *)
(* is one step.                                                            *)
(***************************************************************************)
EXTENDS Integers, Sequences, FiniteSets

CONSTANTS
  Id,         \* capture ids; create_capture draws a fresh one per upload
  Capacity    \* CaptureStore(capacity=...)

ASSUME CapacityAssumption == Capacity \in Nat \ {0}

VARIABLES
  order,      \* _documents: its keys from the oldest use to the newest
  reply       \* what the last get answered

storeVars == <<order, reply>>

NoReply == [id |-> {}, found |-> FALSE]

Held == {order[i] : i \in DOMAIN order}

Place(id) == CHOOSE i \in DOMAIN order : order[i] = id

\* __setitem__ and move_to_end
Moved(id) ==
  IF id \notin Held THEN Append(order, id)
  ELSE [i \in 1 .. Len(order) |->
          IF i < Place(id) THEN order[i]
          ELSE IF i < Len(order) THEN order[i + 1]
          ELSE id]

\* Mutation of Evicted: one document too many is kept.
EvictedLate(s) ==
  IF Len(s) > Capacity + 1 THEN SubSeq(s, Len(s) - Capacity, Len(s)) ELSE s

\* while len(self._documents) > self._capacity: popitem(last=False)
Evicted(s) ==
  IF Len(s) > Capacity THEN SubSeq(s, Len(s) - Capacity + 1, Len(s)) ELSE s

Put(id) ==
  /\ order' = Evicted(Moved(id))
  /\ UNCHANGED reply

\* Mutation of Hit: a read does not refresh, and the oldest upload goes first.
HitUnrefreshed(id) ==
  /\ id \in Held
  /\ reply' = [id |-> {id}, found |-> TRUE]
  /\ UNCHANGED order

Hit(id) ==
  /\ id \in Held
  /\ order' = Moved(id)
  /\ reply' = [id |-> {id}, found |-> TRUE]

Miss(id) ==
  /\ id \notin Held
  /\ UNCHANGED order
  /\ reply' = [id |-> {id}, found |-> FALSE]

Get(id) == Hit(id) \/ Miss(id)

StoreInit ==
  /\ order = <<>>
  /\ reply = NoReply

StoreNext == \E id \in Id : Put(id) \/ Get(id)

StoreSpec == StoreInit /\ [][StoreNext]_storeVars

-----------------------------------------------------------------------------

\* The ids that come after a held one, the newest uses of the store.
Since == [id \in Held |-> {order[j] : j \in (Place(id) + 1) .. Len(order)}]

Recent == INSTANCE RecentCaptures WITH since <- Since

\* The store forgets a document exactly when Capacity others were put or read
\* after it: eviction is by last use, not by age of upload, and a read that
\* misses changes nothing.
KeepsRecent == Recent!Spec

=============================================================================
