-------------------------- MODULE MCCaptureService --------------------------
(***************************************************************************)
(* The backend with a few uploads.  Two worker threads let their jobs      *)
(* overlap; one makes them queue behind each other.                        *)
(***************************************************************************)
EXTENDS CaptureService

CONSTANTS c1, c2, c3, w1, w2

TwoUploads == {c1, c2}

ThreeUploads == {c1, c2, c3}

OneWorker == {w1}

TwoWorkers == {w1, w2}

\* Only what fills the store, to afford a third upload: tools that work, no
\* upload that fails and no health check. None of those touches the store.
Untroubled ==
  /\ tools = "working" /\ loop = "free"
  /\ \A u \in Id : raised[u] = None /\ frames[u] <= MaxFrames

=============================================================================
