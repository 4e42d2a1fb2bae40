----------------------------- MODULE UploadApp -----------------------------
(***************************************************************************)
(* The page around the graph: components/UploadButton.tsx with             *)
(* api/readFile.ts and postCapture of api/client.ts, the document and the  *)
(* selection of App.tsx, beside the health checks of UseHealth.            *)
(*                                                                         *)
(* A step is one task of the browser's event loop with the promise         *)
(* continuations it sets off. State set in a click is rendered before the  *)
(* next event; state set in a continuation is rendered by a later task, so *)
(* a click may come in between.                                            *)
(***************************************************************************)
EXTENDS UseHealth

CONSTANT MaxPicks   \* bound on the files picked

ASSUME PickAssumption == MaxPicks \in Nat \ {0}

VARIABLES
  status,     \* what the picker last produced
  request,    \* postCapture's XMLHttpRequest
  abortable,  \* abortRef holds the controller of the request
  picks,      \* how many files were picked
  fate,       \* pick -> what became of it
  doc,        \* the document on screen: the sample or a pick
  selection,  \* empty, or the document the selected id was picked from
  queued,     \* empty, or a document set but not rendered yet and the selection then
  overtaken   \* documents that a click on the one before overtook

uploadVars == <<status, request, abortable, picks, fate>>
appVars == <<doc, selection, queued, overtaken>>
vars == <<healthVars, uploadVars, appVars>>

Picks == 1..MaxPicks

Sample == 0

Statuses == {"idle", "reading", "uploading", "loaded", "rejected", "failed", "unsupported"}

Fates == {"none", "open", "delivered", "cancelled", "refused", "threw"}

Documents == {Sample} \cup Picks

Selections == {{}} \cup {{d} : d \in Documents}

TypeOK ==
  /\ HealthTypeOK
  /\ status \in Statuses
  /\ request \in {"none", "open"}
  /\ abortable \in BOOLEAN
  /\ picks \in 0..MaxPicks
  /\ fate \in [Picks -> Fates]
  /\ doc \in Documents
  /\ selection \in Selections
  /\ queued \in {<<>>} \cup {<<q>> : q \in [doc : Documents, selection : Selections]}
  /\ overtaken \subseteq Documents

Init ==
  /\ HealthInit
  /\ status = "idle" /\ request = "none" /\ abortable = FALSE
  /\ picks = 0 /\ fate = [n \in Picks |-> "none"]
  /\ doc = Sample /\ selection = {} /\ queued = <<>> /\ overtaken = {}

Busy == status \in {"reading", "uploading"}

\* The buttons the last render left on screen are those of a picker at rest.
AtRestOnScreen == mounted /\ ~Busy /\ queued = <<>>

-----------------------------------------------------------------------------
(* App.                                                                    *)

\* Mutation of LoadDocument: the selection outlives its document.
LoadDocumentOnly(d) == queued' = <<[doc |-> d, selection |-> selection]>>

\* setDoc and setSelection(null), from a continuation: rendered later.
LoadDocument(d) == queued' = <<[doc |-> d, selection |-> {}]>>

Render ==
  /\ mounted
  /\ queued # <<>>
  /\ doc' = queued[1].doc
  /\ selection' = queued[1].selection
  /\ queued' = <<>>
  /\ UNCHANGED <<healthVars, uploadVars, overtaken>>

\* A click on the graph or the panel selects an id of the document on screen,
\* or clears the selection. It is applied after what is queued, and again when
\* the queue is rendered.
Select(s) ==
  /\ mounted
  /\ selection' = s
  /\ IF queued = <<>>
     THEN UNCHANGED <<queued, overtaken>>
     ELSE /\ queued' = <<[queued[1] EXCEPT !.selection = s]>>
          /\ overtaken' = overtaken \cup {queued[1].doc}
  /\ UNCHANGED <<healthVars, uploadVars, doc>>

-----------------------------------------------------------------------------
(* UploadButton.                                                           *)

\* The pick whose handleFile has not returned.
Current == picks

\* A file is picked: pick picks + 1, with what handleFile makes of it at once.
Picked(st, f) ==
  /\ AtRestOnScreen
  /\ picks < MaxPicks
  /\ picks' = picks + 1
  /\ status' = st
  /\ fate' = [fate EXCEPT ![picks + 1] = f]
  /\ UNCHANGED <<healthVars, appVars>>

PickUnsupported == Picked("unsupported", "refused") /\ UNCHANGED <<request, abortable>>

PickDocument == Picked("reading", "open") /\ UNCHANGED <<request, abortable>>

\* No backend to dissect it; or a file postCapture rejects before opening a
\* request, because it is empty or larger than MAX_UPLOAD_BYTES.
RefuseCapture == Picked("failed", "refused") /\ UNCHANGED <<request, abortable>>

SendCapture ==
  /\ CaptureUploadAvailable
  /\ Picked("uploading", "open")
  /\ request' = "open"
  /\ abortable' = TRUE

\* handleFile resumes and returns. The fate of a pick is what ended it first.
Ends(st, f) ==
  /\ status' = IF mounted THEN st ELSE status
  /\ fate' = [fate EXCEPT ![Current] = IF @ = "open" THEN f ELSE @]

\* readCaptureDocument resolves with a document ...
ReadAccepted ==
  /\ status = "reading" /\ fate[Current] = "open"
  /\ Ends("loaded", "delivered")
  /\ IF mounted THEN LoadDocument(Current) ELSE UNCHANGED queued
  /\ UNCHANGED <<healthVars, request, abortable, picks, doc, selection, overtaken>>

\* ... or with reasons ...
ReadRejected ==
  /\ status = "reading" /\ fate[Current] = "open"
  /\ Ends("rejected", "refused")
  /\ UNCHANGED <<healthVars, request, abortable, picks, appVars>>

\* ... or it rejects, because the file cannot be read or the parser threw.
\* Nothing catches that: handleFile ends there.
ReadThrows ==
  /\ status = "reading" /\ fate[Current] = "open"
  /\ fate' = [fate EXCEPT ![Current] = "threw"]
  /\ UNCHANGED <<healthVars, status, request, abortable, picks, appVars>>

\* The request is over, and the finally clause forgets its controller.
Closed == request' = "none" /\ abortable' = FALSE

\* The load event with a document that parses. narrow runs in the listener and
\* the continuation right after it: no cancel comes between.
XhrLoads ==
  /\ request = "open"
  /\ backend = "ready"
  /\ Closed
  /\ Ends("loaded", "delivered")
  /\ LoadDocument(Current)
  /\ UNCHANGED <<healthVars, picks, doc, selection, overtaken>>

\* Mutation of XhrFails: the promise settles on the load event only.
XhrFailsUnheard ==
  /\ request = "open"
  /\ request' = "none"
  /\ UNCHANGED <<healthVars, status, abortable, picks, fate, appVars>>

\* The load event with another status or an unreadable body, or the error
\* event. The backend may have stopped, or lost tshark, since it was checked.
XhrFails ==
  /\ request = "open"
  /\ Closed
  /\ Ends("failed", "refused")
  /\ UNCHANGED <<healthVars, picks, appVars>>

\* Mutation of Abort: the signal's listener was removed too early.
AbortUnheard == Ends("idle", "cancelled") /\ UNCHANGED <<request, abortable>>

\* abort on the controller: the request fires its abort event, the promise
\* rejects with AbortError and the picker goes back to idle.
Abort == Closed /\ Ends("idle", "cancelled")

Cancel ==
  /\ mounted
  /\ status = "uploading"
  /\ abortable
  /\ Abort
  /\ UNCHANGED <<healthVars, picks, appVars>>

\* Back to sample: a click, rendered at once.
Reset ==
  /\ AtRestOnScreen
  /\ doc # Sample
  /\ status' = "idle"
  /\ doc' = Sample
  /\ selection' = {}
  /\ UNCHANGED <<healthVars, request, abortable, picks, fate, queued, overtaken>>

\* The page goes away: the cleanups of both hooks. What it had queued is never
\* rendered, and a file being read is still read.
Unmount ==
  /\ mounted
  /\ mounted' = FALSE
  /\ phase' = Aborted(phase)
  /\ IF abortable
     THEN Closed /\ fate' = [fate EXCEPT ![Current] = "cancelled"]
     ELSE UNCHANGED <<request, abortable, fate>>
  /\ queued' = <<>>
  /\ UNCHANGED <<backend, health, checks, answered, status, picks, doc, selection, overtaken>>

Next ==
  \/ HealthStep /\ UNCHANGED <<uploadVars, appVars>>
  \/ Render \/ \E s \in {{doc}, {}} : Select(s)
  \/ PickUnsupported \/ PickDocument \/ RefuseCapture \/ SendCapture
  \/ ReadAccepted \/ ReadRejected \/ ReadThrows
  \/ XhrLoads \/ XhrFails \/ Cancel \/ Reset \/ Unmount

Spec == Init /\ [][Next]_vars

-----------------------------------------------------------------------------
(* Fairness. The browser runs the tasks it has: promise continuations and  *)
(* renders. A request is answered or its connection fails: the backend     *)
(* answers every upload (EveryUploadAnswered of CaptureService), and a     *)
(* file is read to its end or not at all. Nobody has to press a button.    *)

Answers(c) == (FetchAnswers(c) \/ BodyArrives(c) \/ Rejects(c)) /\ UNCHANGED <<uploadVars, appVars>>

Fairness ==
  /\ \A c \in Checks : WF_vars(Answers(c))
  /\ WF_vars(ReadAccepted \/ ReadRejected \/ ReadThrows)
  /\ WF_vars(XhrLoads \/ XhrFails)
  /\ WF_vars(Render)

FairSpec == Spec /\ Fairness

-----------------------------------------------------------------------------
(* Properties.                                                             *)

\* No request runs that nobody waits for: an upload in flight is one the
\* button shows and can cancel, and of the health checks only the live one has
\* a request. "It would keep pushing a gigabyte at a server nobody is waiting
\* on" (UploadButton.tsx).
NothingRunsUnwatched ==
  /\ request = "open" => mounted /\ status = "uploading" /\ abortable
  /\ \A c \in Checks : phase[c] \in {"fetching", "body"} => Live(c)

\* The document on screen, and the one about to be, is the sample or a pick
\* that was delivered: never one that was cancelled or refused, nor one
\* that a later pick has followed before it was shown.
ShownWasDelivered ==
  /\ doc # Sample => fate[doc] = "delivered"
  /\ queued # <<>> => queued[1].doc = Current /\ fate[Current] = "delivered"

\* "A new document invalidates every id in the old one" (App.tsx): the
\* selection names an id of the document on screen, unless a click on the old
\* document came after the new one arrived and before it was rendered.
SelectionIsCurrent == selection \notin {{}, {doc}} => doc \in overtaken

\* The picker comes back after every pick, unless readCaptureDocument threw:
\* an upload is answered, fails or is cancelled whatever the backend does.
PickerReturns ==
  Busy ~> (~Busy \/ ~mounted \/ \E n \in Picks : fate[n] = "threw")

\* Looking for a backend ends, whatever answers, breaks off or is retried.
CheckingEnds == (health = "checking") ~> (health # "checking" \/ ~mounted)
=============================================================================
