--------------------------- MODULE RecentCaptures ---------------------------
(***************************************************************************)
(* What the capture store promises, said without its ordered dictionary:   *)
(* a document that was put can be read until Capacity other documents have *)
(* been put or read since it last was, or until the process restarts.      *)
(***************************************************************************)
EXTENDS Integers, FiniteSets

CONSTANTS
  Id,         \* capture ids
  Capacity    \* documents the store may hold

VARIABLES
  since,      \* readable id -> the ids put or read since it last was
  reply       \* what the last read answered

\* Every id remembers the touch of id; those that Capacity touches passed are gone.
Touched(id) ==
  LET later == [j \in DOMAIN since \cup {id} |->
                  IF j = id THEN {} ELSE since[j] \cup {id}]
      readable == {j \in DOMAIN later : Cardinality(later[j]) < Capacity}
  IN  [j \in readable |-> later[j]]

NoReply == [id |-> {}, found |-> FALSE]

Init ==
  /\ since = [j \in {} |-> {}]
  /\ reply = NoReply

Put(id) ==
  /\ since' = Touched(id)
  /\ UNCHANGED reply

Read(id) ==
  /\ reply' = [id |-> {id}, found |-> id \in DOMAIN since]
  /\ since' = IF id \in DOMAIN since THEN Touched(id) ELSE since

Restart == since' = [j \in {} |-> {}] /\ reply' = NoReply

Next == Restart \/ \E id \in Id : Put(id) \/ Read(id)

Spec == Init /\ [][Next]_<<since, reply>>

=============================================================================
