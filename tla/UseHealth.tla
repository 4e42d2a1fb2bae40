----------------------------- MODULE UseHealth -----------------------------
(***************************************************************************)
(* What the page believes of the backend: hooks/useHealth.ts, getHealth of *)
(* api/client.ts, and the Retry button of components/HealthStrip.tsx.      *)
(*                                                                         *)
(* A check is one run of the hook's effect: the first on mounting (two     *)
(* under StrictMode, the first torn down at once), one more per Retry. It  *)
(* awaits the headers of an answer and then its body.                      *)
(***************************************************************************)
EXTENDS Naturals

CONSTANTS
  MaxChecks,      \* bound on the runs of the effect
  ApiConfigured   \* apiConfigured: whether the build names a backend

ASSUME HealthAssumption == MaxChecks \in Nat \ {0, 1} /\ ApiConfigured \in BOOLEAN

VARIABLES
  mounted,   \* the page is open
  backend,   \* what would answer /health now
  health,    \* HealthState, "ready" split by tshark_available
  checks,    \* how many times the effect has run; the last one is live
  phase,     \* check -> where its request stands
  answered   \* check -> what answered it, while its body is awaited

healthVars == <<mounted, backend, health, checks, phase, answered>>

Checks == 1..MaxChecks

Backends == {"ready", "no_tshark", "failing", "garbled", "down"}

HealthKinds == {"checking", "ready", "no_tshark", "offline", "error"}

Phases == {"new", "fetching", "body", "rejecting", "done"}

HealthTypeOK ==
  /\ mounted \in BOOLEAN
  /\ backend \in Backends
  /\ health \in HealthKinds
  /\ checks \in Checks
  /\ phase \in [Checks -> Phases]
  /\ answered \in [Checks -> Backends]

\* Mutation of Live: the effect keeps no flag.
LiveAlways(c) == TRUE

\* The flag of the effect: its cleanup has not run.
Live(c) == mounted /\ c = checks

HealthInit ==
  /\ mounted = TRUE
  /\ backend \in Backends
  /\ health = IF ApiConfigured THEN "checking" ELSE "offline"
  /\ checks \in {1, 2}
  /\ phase = [c \in Checks |-> IF ~ApiConfigured \/ c > checks THEN "new"
                               ELSE IF c = checks THEN "fetching" ELSE "rejecting"]
  /\ answered = [c \in Checks |-> "down"]

\* What getHealth makes of an answer: a status that is not ok and a body that
\* is no JSON object are errors of the server, no answer at all is offline.
Outcome(b) ==
  CASE b = "down" -> "offline"
    [] b \in {"failing", "garbled"} -> "error"
    [] OTHER -> b

\* What an aborted request rejects with. failureFor swallows the abort of the
\* body it was reading and reports the status instead.
Rejection(c) == IF answered[c] = "failing" THEN "error" ELSE "abort"

\* Mutation of Settle: every error is taken for an abort.
SettleQuietly(c, kind) ==
  /\ phase' = [phase EXCEPT ![c] = "done"]
  /\ answered' = [answered EXCEPT ![c] = "down"]
  /\ health' = IF Live(c) /\ kind \notin {"abort", "error"} THEN kind ELSE health

\* The continuations of getHealth's promise in the effect; the response is
\* forgotten.
Settle(c, kind) ==
  /\ phase' = [phase EXCEPT ![c] = "done"]
  /\ answered' = [answered EXCEPT ![c] = "down"]
  /\ health' = IF Live(c) /\ kind # "abort" THEN kind ELSE health

FetchAnswers(c) ==
  /\ phase[c] = "fetching"
  /\ IF backend = "down"
     THEN Settle(c, Outcome(backend))
     ELSE /\ phase' = [phase EXCEPT ![c] = "body"]
          /\ answered' = [answered EXCEPT ![c] = backend]
          /\ UNCHANGED health
  /\ UNCHANGED <<mounted, backend, checks>>

\* The body arrives, or the connection breaks before it does.
BodyArrives(c) ==
  /\ phase[c] = "body"
  /\ \E kind \in {Outcome(answered[c]), "error"} : Settle(c, kind)
  /\ UNCHANGED <<mounted, backend, checks>>

\* An aborted request rejects its promise.
Rejects(c) ==
  /\ phase[c] = "rejecting"
  /\ Settle(c, Rejection(c))
  /\ UNCHANGED <<mounted, backend, checks>>

\* Mutation of Aborted: the cleanup clears the flag and lets the request run.
Unaborted(ph) == ph

\* The cleanup of the live effect: its request is aborted.
Aborted(ph) ==
  [ph EXCEPT ![checks] = IF @ \in {"fetching", "body"} THEN "rejecting" ELSE @]

\* HealthStrip offers Retry in every state but checking and ready.
OffersRetry == health \in {"no_tshark", "offline", "error"}

\* recheck: the old effect's cleanup, then the new effect. The state stays
\* what it was until the new check answers.
Recheck ==
  /\ mounted
  /\ ApiConfigured
  /\ OffersRetry
  /\ checks < MaxChecks
  /\ checks' = checks + 1
  /\ phase' = [Aborted(phase) EXCEPT ![checks + 1] = "fetching"]
  /\ UNCHANGED <<mounted, backend, health, answered>>

\* The backend stops, starts, loses its dissector or begins to fail.
BackendChanges ==
  /\ backend' \in Backends
  /\ UNCHANGED <<mounted, health, checks, phase, answered>>

HealthStep ==
  \/ \E c \in Checks : FetchAnswers(c) \/ BodyArrives(c) \/ Rejects(c)
  \/ Recheck
  \/ BackendChanges

\* captureUploadAvailable of App.tsx.
CaptureUploadAvailable == health = "ready"

-----------------------------------------------------------------------------
\* A check that Retry or the page's end has overtaken never changes what the
\* page says, although its request may still answer, or fail after its abort
\* with an error that does not look like one.
OnlyTheLatestCheckSpeaks ==
  [][health' # health => /\ mounted
                         /\ phase[checks] # "done" /\ phase'[checks] = "done"
                         /\ checks' = checks]_healthVars
=============================================================================
