-------------------------- MODULE UploadAppProofs --------------------------
(***************************************************************************)
(* What holds of the page for any number of health checks and picked       *)
(* files, whether the build names a backend or not. Consistent is the      *)
(* inductive invariant: beside the types, it ties the picker's status, the *)
(* request, its controller and the fate of the pick in hand to each other. *)
(***************************************************************************)
EXTENDS UploadApp, TLAPS

\* A picker at work, and a request, have a pick in hand.
PickInHand == Busy \/ request = "open" => Current \in Picks

\* A running upload is the pick in hand, shown and cancellable; picks to come
\* have no fate yet; only the live check has a request; a page that is gone has
\* nothing left to render.
Consistent ==
  /\ abortable <=> request = "open"
  /\ request = "open" => /\ mounted
                         /\ status = "uploading"
                         /\ fate[Current] = "open"
  /\ status = "uploading" /\ mounted => request = "open"
  /\ \A n \in Picks : n > picks => fate[n] = "none"
  /\ \A c \in Checks : phase[c] \in {"fetching", "body"} => Live(c)
  /\ ~mounted => queued = <<>>

\* What is queued will be a document with a selection of its own, unless it
\* was overtaken.
QueuedIsCurrent ==
  queued # <<>> => (queued[1].selection \notin {{}, {queued[1].doc}} => queued[1].doc \in overtaken)

USE HealthAssumption, PickAssumption

-----------------------------------------------------------------------------
(* Types.                                                                  *)

\* The state after a check is settled.
LEMMA SettleTypes ==
  ASSUME HealthTypeOK, NEW c \in Checks, NEW kind \in HealthKinds \cup {"abort"}, Settle(c, kind)
  PROVE  /\ health' \in HealthKinds
         /\ phase' \in [Checks -> Phases]
         /\ answered' \in [Checks -> Backends]
BY DEF Settle, HealthTypeOK, HealthKinds, Phases, Backends

\* Each task of the hook keeps its types.
LEMMA HealthTypes ==
  ASSUME HealthTypeOK, HealthStep
  PROVE  HealthTypeOK'
<1>1. ASSUME NEW c \in Checks, FetchAnswers(c) PROVE HealthTypeOK'
  <2>1. Outcome(backend) \in HealthKinds \cup {"abort"}
    BY DEF Outcome, HealthTypeOK, HealthKinds, Backends
  <2>2. CASE backend = "down"
    BY <1>1, <2>1, <2>2, SettleTypes DEF FetchAnswers, HealthTypeOK
  <2>3. CASE backend # "down"
    BY <1>1, <2>3 DEF FetchAnswers, HealthTypeOK, Phases
  <2>. QED BY <2>2, <2>3
<1>2. ASSUME NEW c \in Checks, BodyArrives(c) PROVE HealthTypeOK'
  <2>1. Outcome(answered[c]) \in HealthKinds \cup {"abort"}
    BY DEF Outcome, HealthTypeOK, HealthKinds, Backends
  <2>2. PICK kind \in {Outcome(answered[c]), "error"} : Settle(c, kind)
    BY <1>2 DEF BodyArrives
  <2>3. kind \in HealthKinds \cup {"abort"}
    BY <2>1, <2>2 DEF HealthKinds
  <2>. QED BY <1>2, <2>2, <2>3, SettleTypes DEF BodyArrives, HealthTypeOK
<1>3. ASSUME NEW c \in Checks, Rejects(c) PROVE HealthTypeOK'
  <2>1. Rejection(c) \in HealthKinds \cup {"abort"}
    BY DEF Rejection, HealthKinds
  <2>. QED BY <1>3, <2>1, SettleTypes DEF Rejects, HealthTypeOK
<1>4. CASE Recheck
  <2>1. checks + 1 \in Checks
    BY <1>4 DEF Recheck, HealthTypeOK, Checks
  <2>2. Aborted(phase) \in [Checks -> Phases]
    BY DEF Aborted, HealthTypeOK, Phases
  <2>. QED BY <1>4, <2>1, <2>2 DEF Recheck, HealthTypeOK, Phases
<1>5. CASE BackendChanges
  BY <1>5 DEF BackendChanges, HealthTypeOK
<1>. QED BY <1>1, <1>2, <1>3, <1>4, <1>5 DEF HealthStep

\* Every variable keeps its type.
THEOREM PageTypeCorrect == Spec => [](TypeOK /\ PickInHand)
<1>1. Init => TypeOK /\ PickInHand
  <2>. SUFFICES ASSUME Init PROVE TypeOK /\ PickInHand
    OBVIOUS
  <2>1. HealthTypeOK
    BY DEF Init, HealthInit, HealthTypeOK, Checks, Backends, HealthKinds, Phases
  <2>2. TypeOK
    <3>1. doc \in Documents /\ selection \in Selections /\ overtaken \subseteq Documents
      BY DEF Init, Documents, Selections
    <3>2. status \in Statuses /\ fate \in [Picks -> Fates] /\ picks \in 0..MaxPicks
      BY DEF Init, Statuses, Fates
    <3>3. queued = <<>> /\ request = "none" /\ abortable = FALSE
      BY DEF Init
    <3>. QED BY <2>1, <3>1, <3>2, <3>3 DEF TypeOK
  <2>3. PickInHand
    BY DEF Init, PickInHand, Busy
  <2>. QED BY <2>2, <2>3
<1>2. TypeOK /\ PickInHand /\ [Next]_vars => TypeOK'
  <2>. SUFFICES ASSUME TypeOK, PickInHand, [Next]_vars PROVE TypeOK'
    OBVIOUS
  <2>. USE DEF TypeOK
  <2>1. CASE HealthStep /\ UNCHANGED <<uploadVars, appVars>>
    BY <2>1, HealthTypes DEF uploadVars, appVars
  <2>2. ASSUME UNCHANGED healthVars PROVE HealthTypeOK'
    BY <2>2 DEF healthVars, HealthTypeOK
  <2>3. CASE Render
    <3>1. PICK q \in [doc : Documents, selection : Selections] : queued = <<q>>
      BY <2>3 DEF Render
    <3>2. doc' = q.doc /\ selection' = q.selection /\ queued' = <<>>
      BY <2>3, <3>1 DEF Render
    <3>. QED BY <2>2, <2>3, <3>1, <3>2 DEF Render, uploadVars
  <2>4. ASSUME NEW s \in {{doc}, {}}, Select(s) PROVE TypeOK'
    <3>1. s \in Selections
      BY <2>4 DEF Selections
    <3>2. CASE queued = <<>>
      BY <2>2, <2>4, <3>1, <3>2 DEF Select, uploadVars
    <3>3. CASE queued # <<>>
      <4>1. PICK q \in [doc : Documents, selection : Selections] : queued = <<q>>
        BY <3>3
      <4>2. queued' = <<[q EXCEPT !.selection = s]>> /\ overtaken' = overtaken \cup {q.doc}
        BY <2>4, <3>3, <4>1 DEF Select
      <4>3. [q EXCEPT !.selection = s] \in [doc : Documents, selection : Selections]
        BY <3>1, <4>1
      <4>. QED BY <2>2, <2>4, <3>1, <4>1, <4>2, <4>3 DEF Select, uploadVars
    <3>. QED BY <3>2, <3>3
  <2>5. ASSUME NEW st \in Statuses, NEW f \in Fates, Picked(st, f)
        PROVE  /\ HealthTypeOK' /\ status' \in Statuses
               /\ picks' \in 0..MaxPicks /\ fate' \in [Picks -> Fates]
               /\ UNCHANGED appVars
    <3>1. picks' \in 0..MaxPicks
      BY <2>5 DEF Picked
    <3>2. fate' \in [Picks -> Fates] /\ status' \in Statuses
      BY <2>5 DEF Picked
    <3>3. UNCHANGED healthVars /\ UNCHANGED appVars
      BY <2>5 DEF Picked, healthVars, appVars
    <3>. QED BY <2>2, <3>1, <3>2, <3>3
  <2>6. CASE PickUnsupported \/ PickDocument \/ RefuseCapture \/ SendCapture
    <3>1. {"unsupported", "reading", "failed", "uploading"} \subseteq Statuses
          /\ {"refused", "open"} \subseteq Fates
      BY DEF Statuses, Fates
    <3>2. CASE PickUnsupported
      BY <2>5, <3>1, <3>2 DEF PickUnsupported, appVars
    <3>3. CASE PickDocument
      BY <2>5, <3>1, <3>3 DEF PickDocument, appVars
    <3>4. CASE RefuseCapture
      BY <2>5, <3>1, <3>4 DEF RefuseCapture, appVars
    <3>5. CASE SendCapture
      BY <2>5, <3>1, <3>5 DEF SendCapture, appVars
    <3>. QED BY <2>6, <3>2, <3>3, <3>4, <3>5
  <2>7. ASSUME NEW st \in Statuses, NEW f \in Fates, Ends(st, f)
        PROVE  status' \in Statuses /\ fate' \in [Picks -> Fates]
    BY <2>7 DEF Ends
  <2>8. ASSUME Current \in Picks, LoadDocument(Current)
        PROVE  queued' \in {<<>>} \cup {<<q>> : q \in [doc : Documents, selection : Selections]}
    <3>1. [doc |-> Current, selection |-> {}] \in [doc : Documents, selection : Selections]
      BY <2>8 DEF Documents, Selections
    <3>. QED BY <2>8, <3>1 DEF LoadDocument
  <2>9. CASE ReadAccepted
    <3>1. Current \in Picks
      BY <2>9 DEF ReadAccepted, PickInHand, Busy
    <3>2. status' \in Statuses /\ fate' \in [Picks -> Fates]
      BY <2>7, <2>9 DEF ReadAccepted, Statuses, Fates
    <3>3. queued' \in {<<>>} \cup {<<q>> : q \in [doc : Documents, selection : Selections]}
      BY <2>8, <2>9, <3>1 DEF ReadAccepted
    <3>. QED BY <2>2, <2>9, <3>2, <3>3 DEF ReadAccepted
  <2>10. CASE ReadRejected \/ ReadThrows
    BY <2>2, <2>7, <2>10 DEF ReadRejected, ReadThrows, Statuses, Fates, appVars
  <2>11. CASE XhrLoads
    <3>1. Current \in Picks
      BY <2>11 DEF XhrLoads, PickInHand
    <3>2. status' \in Statuses /\ fate' \in [Picks -> Fates]
      BY <2>7, <2>11 DEF XhrLoads, Statuses, Fates
    <3>3. queued' \in {<<>>} \cup {<<q>> : q \in [doc : Documents, selection : Selections]}
      BY <2>8, <2>11, <3>1 DEF XhrLoads
    <3>. QED BY <2>2, <2>11, <3>2, <3>3 DEF XhrLoads, Closed
  <2>12. CASE XhrFails \/ Cancel
    BY <2>2, <2>7, <2>12 DEF XhrFails, Cancel, Abort, Closed, Statuses, Fates, appVars
  <2>13. CASE Reset
    BY <2>2, <2>13 DEF Reset, Statuses, Documents, Selections, Sample
  <2>14. CASE Unmount
    <3>1. HealthTypeOK'
      BY <2>14 DEF Unmount, Aborted, HealthTypeOK, Phases
    <3>2. request' \in {"none", "open"} /\ abortable' \in BOOLEAN /\ fate' \in [Picks -> Fates]
      BY <2>14 DEF Unmount, Closed, Fates
    <3>. QED BY <2>14, <3>1, <3>2 DEF Unmount
  <2>15. CASE UNCHANGED vars
    BY <2>2, <2>15 DEF vars, uploadVars, appVars
  <2>. QED BY <2>1, <2>3, <2>4, <2>6, <2>9, <2>10, <2>11, <2>12, <2>13, <2>14, <2>15 DEF Next
<1>3. TypeOK /\ PickInHand /\ [Next]_vars => PickInHand'
  <2>. SUFFICES ASSUME TypeOK, PickInHand, [Next]_vars PROVE PickInHand'
    OBVIOUS
  <2>. USE DEF PickInHand, Busy, Current
  <2>1. ASSUME NEW st, NEW f, Picked(st, f) PROVE picks' \in Picks
    BY <2>1 DEF Picked, TypeOK, Picks
  <2>2. CASE PickUnsupported \/ PickDocument \/ RefuseCapture \/ SendCapture
    BY <2>1, <2>2 DEF PickUnsupported, PickDocument, RefuseCapture, SendCapture
  <2>3. CASE ReadAccepted \/ ReadRejected \/ ReadThrows
    BY <2>3 DEF ReadAccepted, ReadRejected, ReadThrows
  <2>4. CASE XhrLoads \/ XhrFails \/ Cancel
    BY <2>4 DEF XhrLoads, XhrFails, Cancel, Abort, Closed, Ends
  <2>5. CASE Reset
    BY <2>5 DEF Reset
  <2>6. CASE Unmount
    BY <2>6 DEF Unmount, Closed
  <2>7. CASE HealthStep /\ UNCHANGED <<uploadVars, appVars>>
    BY <2>7 DEF uploadVars
  <2>8. CASE Render \/ \E s \in {{doc}, {}} : Select(s)
    BY <2>8 DEF Render, Select, uploadVars
  <2>9. CASE UNCHANGED vars
    BY <2>9 DEF vars, uploadVars
  <2>. QED BY <2>2, <2>3, <2>4, <2>5, <2>6, <2>7, <2>8, <2>9 DEF Next
<1>. QED BY <1>1, <1>2, <1>3, PTL DEF Spec
-----------------------------------------------------------------------------
(* The health checks.                                                      *)

\* Only the live check has a request.
OneRequest == \A c \in Checks : phase[c] \in {"fetching", "body"} => Live(c)

\* A page that is open keeps its live check; one that is gone has none.
LEMMA OneRequestKept ==
  ASSUME TypeOK, OneRequest, HealthStep
  PROVE  OneRequest'
<1>. USE DEF TypeOK, HealthTypeOK, OneRequest, Live
<1>1. ASSUME NEW c \in Checks, FetchAnswers(c) PROVE OneRequest'
  BY <1>1 DEF FetchAnswers, Settle
<1>2. ASSUME NEW c \in Checks, BodyArrives(c) PROVE OneRequest'
  BY <1>2 DEF BodyArrives, Settle
<1>3. ASSUME NEW c \in Checks, Rejects(c) PROVE OneRequest'
  BY <1>3 DEF Rejects, Settle
<1>4. CASE Recheck
  <2>1. \A c \in Checks : Aborted(phase)[c] \notin {"fetching", "body"}
    BY DEF Aborted
  <2>2. \A c \in Checks : c # checks + 1 => phase'[c] = Aborted(phase)[c]
    BY <1>4 DEF Recheck, Aborted
  <2>. QED BY <1>4, <2>1, <2>2 DEF Recheck
<1>5. CASE BackendChanges
  BY <1>5 DEF BackendChanges
<1>. QED BY <1>1, <1>2, <1>3, <1>4, <1>5 DEF HealthStep

-----------------------------------------------------------------------------
(* The invariant.                                                          *)

\* The whole strengthening, as one state predicate.
PageInv == TypeOK /\ PickInHand /\ Consistent

THEOREM ConsistentAlways == Spec => []Consistent
<1>1. Init => Consistent
  <2>. SUFFICES ASSUME Init PROVE Consistent
    OBVIOUS
  <2>1. \A c \in Checks : phase[c] \in {"fetching", "body"} => Live(c)
    BY DEF Init, HealthInit, Live
  <2>. QED BY <2>1 DEF Init, HealthInit, Consistent
<1>2. PageInv /\ [Next]_vars => Consistent'
  <2>. SUFFICES ASSUME PageInv, [Next]_vars PROVE Consistent'
    OBVIOUS
  <2>. USE DEF PageInv, Consistent, Current
  <2>1. CASE HealthStep /\ UNCHANGED <<uploadVars, appVars>>
    <3>1. OneRequest'
      BY <2>1, OneRequestKept DEF OneRequest
    <3>2. mounted' = mounted
      BY <2>1 DEF HealthStep, FetchAnswers, BodyArrives, Rejects, Recheck, BackendChanges
    <3>. QED BY <2>1, <3>1, <3>2 DEF uploadVars, appVars, OneRequest
  <2>2. ASSUME UNCHANGED healthVars
        PROVE  /\ mounted' = mounted
               /\ (\A c \in Checks : phase[c] \in {"fetching", "body"} => Live(c))'
    BY <2>2 DEF healthVars, Live
  <2>3. CASE Render \/ \E s \in {{doc}, {}} : Select(s)
    BY <2>2, <2>3 DEF Render, Select, uploadVars
  <2>4. ASSUME NEW st, NEW f, Picked(st, f)
        PROVE  /\ mounted' /\ mounted
               /\ (\A c \in Checks : phase[c] \in {"fetching", "body"} => Live(c))'
               /\ \A n \in Picks : n > picks' => fate'[n] = "none"
               /\ picks' \in Picks /\ fate'[picks'] = f
               /\ request = "none" /\ abortable = FALSE
               /\ status' = st
    <3>1. request = "none" /\ abortable = FALSE /\ mounted
      BY <2>4 DEF Picked, AtRestOnScreen, Busy, TypeOK
    <3>2. picks' \in Picks /\ picks' = picks + 1
      BY <2>4 DEF Picked, TypeOK, Picks
    <3>3. fate' = [fate EXCEPT ![picks'] = f] /\ status' = st
      BY <2>4, <3>2 DEF Picked
    <3>4. \A n \in Picks : n > picks' => fate'[n] = "none"
      BY <3>2, <3>3 DEF TypeOK, Picks
    <3>5. UNCHANGED healthVars
      BY <2>4 DEF Picked, healthVars
    <3>. QED BY <2>2, <3>1, <3>2, <3>3, <3>4, <3>5 DEF TypeOK
  <2>5. CASE PickUnsupported \/ PickDocument \/ RefuseCapture
    <3>1. PICK st, f : Picked(st, f) /\ st # "uploading"
      BY <2>5 DEF PickUnsupported, PickDocument, RefuseCapture
    <3>2. UNCHANGED <<request, abortable>>
      BY <2>5 DEF PickUnsupported, PickDocument, RefuseCapture
    <3>3. /\ mounted' /\ status' # "uploading" /\ picks' \in Picks
          /\ (\A c \in Checks : phase[c] \in {"fetching", "body"} => Live(c))'
          /\ \A n \in Picks : n > picks' => fate'[n] = "none"
      BY <2>4, <3>1
    <3>4. request' = "none" /\ abortable' = FALSE
      BY <2>4, <3>1, <3>2
    <3>. QED BY <3>3, <3>4
  <2>6. CASE SendCapture
    BY <2>4, <2>6 DEF SendCapture
  <2>7. ASSUME NEW st, NEW f, Ends(st, f), Current \in Picks
        PROVE  \A n \in Picks : n > picks => fate'[n] = "none"
    <3>1. \A n \in Picks : n > picks => n # Current
      BY <2>7 DEF TypeOK, Picks
    <3>. QED BY <2>7, <3>1 DEF Ends, TypeOK
  <2>8. CASE ReadAccepted \/ ReadRejected \/ ReadThrows
    <3>1. status = "reading" /\ Current \in Picks
      BY <2>8 DEF ReadAccepted, ReadRejected, ReadThrows, PickInHand, Busy
    <3>2. request = "none" /\ abortable = FALSE /\ UNCHANGED <<healthVars, request, abortable, picks>>
      BY <2>8, <3>1 DEF ReadAccepted, ReadRejected, ReadThrows, TypeOK, uploadVars
    <3>3. \A n \in Picks : n > picks => fate'[n] = "none"
      <4>1. CASE ReadAccepted \/ ReadRejected
        BY <2>7, <3>1, <4>1 DEF ReadAccepted, ReadRejected
      <4>2. CASE ReadThrows
        BY <3>1, <4>2 DEF ReadThrows, TypeOK, Picks
      <4>. QED BY <2>8, <4>1, <4>2
    <3>4. ~mounted => queued' = queued
      BY <2>8 DEF ReadAccepted, ReadRejected, ReadThrows, appVars
    <3>5. status' # "uploading"
      BY <2>8, <3>1 DEF ReadAccepted, ReadRejected, ReadThrows, Ends
    <3>. QED BY <2>2, <3>2, <3>3, <3>4, <3>5
  <2>9. CASE XhrLoads \/ XhrFails \/ Cancel
    <3>1. mounted /\ Current \in Picks
      BY <2>9 DEF XhrLoads, XhrFails, Cancel, PickInHand, Busy
    <3>2. PICK st, f : Ends(st, f) /\ st # "uploading"
      BY <2>9 DEF XhrLoads, XhrFails, Cancel, Abort
    <3>3. status' # "uploading"
      BY <3>1, <3>2 DEF Ends
    <3>4. \A n \in Picks : n > picks => fate'[n] = "none"
      BY <2>7, <3>1, <3>2
    <3>5. UNCHANGED healthVars /\ request' = "none" /\ abortable' = FALSE /\ picks' = picks
      BY <2>9 DEF XhrLoads, XhrFails, Cancel, Abort, Closed
    <3>6. mounted'
      BY <2>2, <3>1, <3>5
    <3>. QED BY <2>2, <3>3, <3>4, <3>5, <3>6
  <2>11. CASE Reset
    BY <2>2, <2>11 DEF Reset, AtRestOnScreen, Busy
  <2>12. CASE Unmount
    <3>1. ~mounted' /\ queued' = <<>> /\ picks' = picks
      BY <2>12 DEF Unmount
    <3>2. request' = "none" /\ abortable' = FALSE
      BY <2>12 DEF Unmount, Closed, TypeOK
    <3>3. \A n \in Picks : n > picks => fate'[n] = "none"
      BY <2>12 DEF Unmount, TypeOK, Picks
    <3>4. \A c \in Checks : phase'[c] \notin {"fetching", "body"}
      BY <2>12 DEF Unmount, Aborted, Live, TypeOK, HealthTypeOK
    <3>. QED BY <3>1, <3>2, <3>3, <3>4
  <2>13. CASE UNCHANGED vars
    BY <2>2, <2>13 DEF vars, uploadVars, appVars
  <2>. QED BY <2>1, <2>3, <2>5, <2>6, <2>8, <2>9, <2>11, <2>12, <2>13 DEF Next
<1>. QED BY <1>1, <1>2, PageTypeCorrect, PTL DEF Spec, PageInv
THEOREM NothingRunsAlone == Spec => []NothingRunsUnwatched
<1>1. Consistent => NothingRunsUnwatched
  BY DEF Consistent, NothingRunsUnwatched
<1>. QED BY <1>1, ConsistentAlways, PTL

-----------------------------------------------------------------------------
(* What is on screen.                                                      *)

\* A fate that was delivered, or is not in the hand of the picker, stays.
LEMMA DeliveredStays ==
  ASSUME PageInv, [Next]_vars, NEW n \in Picks, fate[n] = "delivered"
  PROVE  fate'[n] = "delivered"
<1>. USE DEF PageInv, Consistent, Current, TypeOK
<1>1. ASSUME NEW st, NEW f, Picked(st, f) PROVE fate'[n] = "delivered"
  <2>1. n # picks + 1
    BY <1>1 DEF Picked, Picks
  <2>. QED BY <1>1, <2>1 DEF Picked
<1>2. CASE PickUnsupported \/ PickDocument \/ RefuseCapture \/ SendCapture
  BY <1>1, <1>2 DEF PickUnsupported, PickDocument, RefuseCapture, SendCapture
<1>3. ASSUME NEW st, NEW f, Ends(st, f) PROVE fate'[n] = "delivered"
  BY <1>3 DEF Ends
<1>4. CASE ReadAccepted \/ ReadRejected \/ XhrLoads \/ XhrFails \/ Cancel
  BY <1>3, <1>4 DEF ReadAccepted, ReadRejected, XhrLoads, XhrFails, Cancel, Abort
<1>5. CASE ReadThrows
  BY <1>5 DEF ReadThrows
<1>6. CASE Unmount
  BY <1>6 DEF Unmount
<1>7. CASE Render \/ (\E s \in {{doc}, {}} : Select(s)) \/ Reset \/ UNCHANGED vars
  BY <1>7 DEF Render, Select, Reset, uploadVars, vars
<1>8. CASE HealthStep /\ UNCHANGED <<uploadVars, appVars>>
  BY <1>8 DEF uploadVars
<1>. QED BY <1>2, <1>4, <1>5, <1>6, <1>7, <1>8 DEF Next

\* The document on screen was delivered, and so was the queued one, which no
\* pick has followed.
THEOREM ShownAlways == Spec => []ShownWasDelivered
<1>1. Init => ShownWasDelivered
  BY DEF Init, ShownWasDelivered
<1>2. PageInv /\ ShownWasDelivered /\ [Next]_vars => ShownWasDelivered'
  <2>. SUFFICES ASSUME PageInv, ShownWasDelivered, [Next]_vars PROVE ShownWasDelivered'
    OBVIOUS
  <2>. USE DEF ShownWasDelivered, Current
  <2>1. doc # Sample => doc \in Picks /\ fate'[doc] = "delivered"
    BY DeliveredStays DEF PageInv, TypeOK, Documents
  <2>2. queued # <<>> => queued[1].doc = picks /\ (picks \in Picks => fate'[picks] = "delivered")
    BY DeliveredStays
  <2>3. CASE Render
    BY <2>1, <2>2, <2>3 DEF Render, uploadVars
  <2>4. ASSUME NEW s \in {{doc}, {}}, Select(s) PROVE ShownWasDelivered'
    <3>1. UNCHANGED <<doc, picks, fate>>
      BY <2>4 DEF Select, uploadVars
    <3>2. CASE queued = <<>>
      BY <2>4, <3>1, <3>2 DEF Select
    <3>3. CASE queued # <<>>
      <4>1. PICK q \in [doc : Documents, selection : Selections] : queued = <<q>>
        BY <3>3 DEF PageInv, TypeOK
      <4>2. queued' = <<[q EXCEPT !.selection = s]>>
        BY <2>4, <3>3, <4>1 DEF Select
      <4>3. queued'[1].doc = queued[1].doc
        BY <4>1, <4>2
      <4>. QED BY <3>1, <3>3, <4>3
    <3>. QED BY <3>2, <3>3
  <2>5. CASE PickUnsupported \/ PickDocument \/ RefuseCapture \/ SendCapture
    <3>1. PICK st, f : Picked(st, f)
      BY <2>5 DEF PickUnsupported, PickDocument, RefuseCapture, SendCapture
    <3>2. queued' = <<>> /\ doc' = doc
      BY <3>1 DEF Picked, AtRestOnScreen, appVars
    <3>. QED BY <2>1, <3>2
  <2>6. CASE ReadAccepted \/ XhrLoads
    <3>1. doc' = doc /\ picks' = picks /\ picks \in Picks /\ fate[picks] = "open"
      BY <2>6 DEF ReadAccepted, XhrLoads, PageInv, PickInHand, Consistent, Busy
    <3>2. Ends("loaded", "delivered")
      BY <2>6 DEF ReadAccepted, XhrLoads
    <3>3. fate'[picks] = "delivered"
      BY <3>1, <3>2 DEF Ends, PageInv, TypeOK
    <3>4. queued' = queued \/ queued' = <<[doc |-> picks, selection |-> {}]>>
      BY <2>6 DEF ReadAccepted, XhrLoads, LoadDocument
    <3>5. queued' # <<>> => queued'[1].doc = picks
      BY <2>2, <3>4
    <3>. QED BY <2>1, <3>1, <3>3, <3>5
  <2>7. CASE ReadRejected \/ ReadThrows \/ XhrFails \/ Cancel
    <3>1. UNCHANGED appVars /\ picks' = picks
      BY <2>7 DEF ReadRejected, ReadThrows, XhrFails, Cancel
    <3>2. picks \in Picks
      BY <2>7 DEF ReadRejected, ReadThrows, XhrFails, Cancel, PageInv, PickInHand, Busy
    <3>. QED BY <2>1, <2>2, <3>1, <3>2 DEF appVars
  <2>8. CASE Reset
    BY <2>8 DEF Reset, AtRestOnScreen
  <2>9. CASE Unmount
    BY <2>1, <2>9 DEF Unmount
  <2>10. CASE (HealthStep /\ UNCHANGED <<uploadVars, appVars>>) \/ UNCHANGED vars
    BY <2>10 DEF vars, uploadVars, appVars
  <2>. QED BY <2>3, <2>4, <2>5, <2>6, <2>7, <2>8, <2>9, <2>10 DEF Next
<1>. QED BY <1>1, <1>2, PageTypeCorrect, ConsistentAlways, PTL DEF Spec, PageInv

\* The selection follows the document, and so does the queued one.
THEOREM SelectionAlways == Spec => []SelectionIsCurrent
<1>1. Init => SelectionIsCurrent /\ QueuedIsCurrent
  BY DEF Init, SelectionIsCurrent, QueuedIsCurrent
<1>2. TypeOK /\ SelectionIsCurrent /\ QueuedIsCurrent /\ [Next]_vars
      => SelectionIsCurrent' /\ QueuedIsCurrent'
  <2>. SUFFICES ASSUME TypeOK, SelectionIsCurrent, QueuedIsCurrent, [Next]_vars
                PROVE  SelectionIsCurrent' /\ QueuedIsCurrent'
    OBVIOUS
  <2>. USE DEF SelectionIsCurrent, QueuedIsCurrent
  <2>1. CASE Render
    BY <2>1 DEF Render
  <2>2. ASSUME NEW s \in {{doc}, {}}, Select(s) PROVE SelectionIsCurrent' /\ QueuedIsCurrent'
    <3>1. SelectionIsCurrent'
      BY <2>2 DEF Select
    <3>2. CASE queued = <<>>
      BY <2>2, <3>2 DEF Select
    <3>3. CASE queued # <<>>
      <4>1. PICK q \in [doc : Documents, selection : Selections] : queued = <<q>>
        BY <3>3 DEF TypeOK
      <4>2. queued' = <<[q EXCEPT !.selection = s]>> /\ q.doc \in overtaken'
        BY <2>2, <3>3, <4>1 DEF Select
      <4>3. queued'[1].doc = q.doc
        BY <4>1, <4>2
      <4>. QED BY <3>1, <4>2, <4>3
    <3>. QED BY <3>1, <3>2, <3>3
  <2>3. ASSUME NEW d, LoadDocument(d), UNCHANGED <<doc, selection, overtaken>>
        PROVE  SelectionIsCurrent' /\ QueuedIsCurrent'
    BY <2>3 DEF LoadDocument
  <2>4. CASE ReadAccepted \/ XhrLoads
    BY <2>3, <2>4 DEF ReadAccepted, XhrLoads
  <2>5. CASE Reset \/ Unmount
    BY <2>5 DEF Reset, Unmount
  <2>6. CASE UNCHANGED appVars
    BY <2>6 DEF appVars
  <2>7. PickUnsupported \/ PickDocument \/ RefuseCapture \/ SendCapture => UNCHANGED appVars
    BY DEF PickUnsupported, PickDocument, RefuseCapture, SendCapture, Picked
  <2>8. ReadRejected \/ ReadThrows \/ XhrFails \/ Cancel => UNCHANGED appVars
    BY DEF ReadRejected, ReadThrows, XhrFails, Cancel
  <2>. QED BY <2>1, <2>2, <2>4, <2>5, <2>6, <2>7, <2>8 DEF Next, vars
<1>. QED BY <1>1, <1>2, PageTypeCorrect, PTL DEF Spec

-----------------------------------------------------------------------------
(* The health checks, again.                                               *)

\* What the page says changes only by the answer of its live check.
THEOREM OvertakenChecksAreSilent == Spec => OnlyTheLatestCheckSpeaks
<1>. DEFINE Speaks == health' # health => /\ mounted
                                         /\ phase[checks] # "done" /\ phase'[checks] = "done"
                                         /\ checks' = checks
<1>1. TypeOK /\ [Next]_vars => [Speaks]_healthVars
  <2>. SUFFICES ASSUME TypeOK, Next PROVE [Speaks]_healthVars
    BY DEF vars
  <2>. USE DEF TypeOK, HealthTypeOK
  <2>1. ASSUME NEW c \in Checks, NEW kind, Settle(c, kind), phase[c] # "done",
               UNCHANGED <<mounted, backend, checks>>
        PROVE  Speaks
    BY <2>1 DEF Settle, Live
  <2>2. CASE HealthStep
    <3>1. ASSUME NEW c \in Checks, FetchAnswers(c) PROVE Speaks
      BY <2>1, <3>1 DEF FetchAnswers
    <3>2. ASSUME NEW c \in Checks, BodyArrives(c) PROVE Speaks
      BY <2>1, <3>2 DEF BodyArrives
    <3>3. ASSUME NEW c \in Checks, Rejects(c) PROVE Speaks
      BY <2>1, <3>3 DEF Rejects
    <3>4. CASE Recheck \/ BackendChanges
      BY <3>4 DEF Recheck, BackendChanges
    <3>. QED BY <2>2, <3>1, <3>2, <3>3, <3>4 DEF HealthStep
  <2>3. Render \/ (\E s \in {{doc}, {}} : Select(s)) \/ Reset \/ Unmount => health' = health
    BY DEF Render, Select, Reset, Unmount, healthVars
  <2>4. PickUnsupported \/ PickDocument \/ RefuseCapture \/ SendCapture => health' = health
    BY DEF PickUnsupported, PickDocument, RefuseCapture, SendCapture, Picked, healthVars
  <2>5. ReadAccepted \/ ReadRejected \/ ReadThrows \/ XhrLoads \/ XhrFails \/ Cancel => health' = health
    BY DEF ReadAccepted, ReadRejected, ReadThrows, XhrLoads, XhrFails, Cancel, healthVars
  <2>. QED BY <2>2, <2>3, <2>4, <2>5 DEF Next
<1>. QED BY <1>1, PageTypeCorrect, PTL DEF Spec, OnlyTheLatestCheckSpeaks
=============================================================================
