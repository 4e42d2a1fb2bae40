--------------------------- MODULE CaptureService ---------------------------
(***************************************************************************)
(* The backend process: backend/app/api/captures.py and api/health.py over *)
(* parsing/pipeline.py, parsing/tshark.py, parsing/capinfos.py, store.py   *)
(* and main.py.                                                            *)
(*                                                                         *)
(* One event loop runs the request handlers; a handler runs from one await *)
(* to the next in one step.  Blocking work is handed to a FIFO pool of     *)
(* worker threads with asyncio.to_thread, and its result resumes the       *)
(* handler on the loop.  /health runs its subprocess on the loop itself.   *)
(* A client that goes away does not cancel its handler, so clients are not *)
(* modelled.  Removing a staging directory is assumed to succeed.          *)
(***************************************************************************)
EXTENDS CaptureStore

CONSTANTS
  Worker,      \* threads of the default executor
  MaxSize,     \* settings.max_upload_bytes, in chunks
  MaxFrames    \* settings.max_packets

ASSUME LimitsAssumption == MaxSize \in Nat /\ MaxFrames \in Nat

VARIABLES
  process,     \* "up", "down" or, when start-up failed, "dead"
  tools,       \* what the operating system makes of tshark and capinfos
  loop,        \* "free", or "health" while /health blocks it
  stage,       \* capture id -> where its create_capture stands
  size,        \* capture id -> chunks staged
  frames,      \* capture id -> frames tshark printed
  raised,      \* capture id -> the exception that ended the body, or None
  status,      \* capture id -> the HTTP status it was answered, or Unanswered
  queue,       \* capture ids whose job waits for a thread
  busy,        \* capture ids whose job a thread runs
  result,      \* capture id -> what its finished job returned, or None
  staged       \* capture ids whose staging directory exists

upload == <<stage, size, frames, raised, status>>

pool == <<queue, busy, result>>

vars == <<process, tools, loop, upload, pool, staged, storeVars>>

None == "none"

Unanswered == 0

Tools == {"working", "missing", "not_executable"}

\* The awaits of create_capture that hand a job to a thread.
Awaits == {"writing", "header", "dissecting", "aggregating", "removing"}

Stages == {"new", "reading", "done", "gone"} \cup Awaits

Exceptions ==
  {"HTTPException", "CaptureTooLargeError", "EmptyCaptureError",
   "TsharkNotFoundError", "TsharkError", "ValueError", "OSError", "KeyError"}

Statuses == {201, 413, 422, 500, 503}

-----------------------------------------------------------------------------
(* The except arms of create_capture, in order.                             *)

\* The classes an except arm may name to catch an exception.
Caught(e) ==
  CASE e \in {"CaptureTooLargeError", "EmptyCaptureError"} -> {e, "ValueError"}
    [] e = "TsharkNotFoundError" -> {e, "TsharkError"}
    [] OTHER -> {e}

\* Mutation of Arms: the general arms first.
ArmsGeneralFirst ==
  <<<<"TsharkError", 500>>, <<"ValueError", 422>>, <<"CaptureTooLargeError", 413>>,
    <<"EmptyCaptureError", 422>>, <<"TsharkNotFoundError", 503>>>>

Arms ==
  <<<<"CaptureTooLargeError", 413>>, <<"EmptyCaptureError", 422>>,
    <<"TsharkNotFoundError", 503>>, <<"TsharkError", 500>>, <<"ValueError", 422>>>>

\* The status of a handler whose body ended in e: that of the first arm that
\* catches it.  An HTTPException carries its own; anything else is a 500.
StatusOf(e) ==
  LET arms == {i \in DOMAIN Arms : Arms[i][1] \in Caught(e)}
  IN  IF e = None THEN 201
      ELSE IF e = "HTTPException" THEN 422
      ELSE IF arms = {} THEN 500
      ELSE Arms[CHOOSE i \in arms : \A j \in arms : i <= j][2]

-----------------------------------------------------------------------------
(* create_capture                                                           *)

Init ==
  /\ process = "down"
  /\ tools \in Tools
  /\ loop = "free"
  /\ stage = [u \in Id |-> "new"]
  /\ size = [u \in Id |-> 0]
  /\ frames = [u \in Id |-> 0]
  /\ raised = [u \in Id |-> None]
  /\ status = [u \in Id |-> Unanswered]
  /\ queue = <<>>
  /\ busy = {}
  /\ result = [u \in Id |-> None]
  /\ staged = {}
  /\ StoreInit

LoopRuns == process = "up" /\ loop = "free"

\* await asyncio.to_thread(...): the job queues, the handler waits at s.
Await(u, s) ==
  /\ stage' = [stage EXCEPT ![u] = s]
  /\ queue' = Append(queue, u)
  /\ result' = [result EXCEPT ![u] = None]
  /\ UNCHANGED busy

\* Mutation of Raise: without the finally, an exception ends the handler at once.
RaiseWithoutFinally(u, e) ==
  /\ raised' = [raised EXCEPT ![u] = e]
  /\ stage' = [stage EXCEPT ![u] = "done"]
  /\ result' = [result EXCEPT ![u] = None]
  /\ UNCHANGED <<queue, busy>>

\* An exception leaves the body of the with statement: its finally awaits rmtree.
Raise(u, e) ==
  /\ raised' = [raised EXCEPT ![u] = e]
  /\ Await(u, "removing")

\* Up to the first chunk: a fresh id, a staging directory and, unless opening
\* it fails, a file in it.
Begin(u) ==
  /\ LoopRuns
  /\ stage[u] = "new"
  /\ staged' = staged \cup {u}
  /\ \/ stage' = [stage EXCEPT ![u] = "reading"] /\ UNCHANGED <<raised, pool>>
     \/ Raise(u, "OSError")
  /\ UNCHANGED <<process, tools, loop, size, frames, status, storeVars>>

\* mkdtemp fails before there is anything to remove.
BeginFails(u) ==
  /\ LoopRuns
  /\ stage[u] = "new"
  /\ stage' = [stage EXCEPT ![u] = "done"]
  /\ raised' = [raised EXCEPT ![u] = "OSError"]
  /\ status' = [status EXCEPT ![u] = StatusOf("OSError")]
  /\ UNCHANGED <<process, tools, loop, size, frames, pool, staged, storeVars>>

\* One more chunk of the upload: over the limit, or on its way to the disk.
ReadChunk(u) ==
  /\ LoopRuns
  /\ stage[u] = "reading"
  /\ size' = [size EXCEPT ![u] = @ + 1]
  /\ \/ size[u] + 1 > MaxSize /\ Raise(u, "CaptureTooLargeError")
     \/ size[u] + 1 <= MaxSize /\ Await(u, "writing") /\ UNCHANGED raised
  /\ UNCHANGED <<process, tools, loop, frames, status, staged, storeVars>>

\* The end of the upload.  Closing the file flushes it, and the disk may be full;
\* an empty upload is refused, the header of another is read.
EndOfFile(u) ==
  /\ LoopRuns
  /\ stage[u] = "reading"
  /\ \/ Raise(u, "OSError")
     \/ size[u] = 0 /\ Raise(u, "HTTPException")
     \/ size[u] > 0 /\ Await(u, "header") /\ UNCHANGED raised
  /\ UNCHANGED <<process, tools, loop, size, frames, status, staged, storeVars>>

\* The job of u returned or raised r; the handler resumes on the loop.
Resumed(u, s, r) ==
  /\ LoopRuns
  /\ stage[u] = s
  /\ result[u] = r

Written(u) ==
  /\ Resumed(u, "writing", "ok")
  /\ stage' = [stage EXCEPT ![u] = "reading"]
  /\ result' = [result EXCEPT ![u] = None]
  /\ UNCHANGED <<process, tools, loop, size, frames, raised, status, queue, busy,
                 staged, storeVars>>

Advance(u) ==
  /\ \/ Resumed(u, "header", "ok") /\ Await(u, "dissecting")
     \/ Resumed(u, "dissecting", "ok") /\ Await(u, "aggregating")
     \/ Resumed(u, "aggregating", "ok") /\ Await(u, "removing")
  /\ UNCHANGED <<process, tools, loop, size, frames, raised, status, staged, storeVars>>

Fail(u) ==
  /\ \E s \in Awaits \ {"removing"}, e \in Exceptions : Resumed(u, s, e) /\ Raise(u, e)
  /\ UNCHANGED <<process, tools, loop, size, frames, status, staged, storeVars>>

\* Mutation of Answer: the store keeps what an except arm answered, too.
AnswerStoresAll(u) ==
  /\ Resumed(u, "removing", "ok")
  /\ stage' = [stage EXCEPT ![u] = "done"]
  /\ status' = [status EXCEPT ![u] = StatusOf(raised[u])]
  /\ result' = [result EXCEPT ![u] = None]
  /\ Put(u)
  /\ UNCHANGED <<process, tools, loop, size, frames, raised, queue, busy, staged>>

\* The finally is over: answer, and keep the document of a success.
Answer(u) ==
  /\ Resumed(u, "removing", "ok")
  /\ stage' = [stage EXCEPT ![u] = "done"]
  /\ status' = [status EXCEPT ![u] = StatusOf(raised[u])]
  /\ result' = [result EXCEPT ![u] = None]
  /\ IF raised[u] = None THEN Put(u) ELSE UNCHANGED storeVars
  /\ UNCHANGED <<process, tools, loop, size, frames, raised, queue, busy, staged>>

-----------------------------------------------------------------------------
(* The worker threads                                                       *)

TakeJob ==
  /\ process = "up"
  /\ queue # <<>>
  /\ Cardinality(busy) < Cardinality(Worker)
  /\ busy' = busy \cup {Head(queue)}
  /\ queue' = Tail(queue)
  /\ UNCHANGED <<process, tools, loop, upload, result, staged, storeVars>>

\* The thread that runs the job of u at s is done with r.
Finish(u, s, r) ==
  /\ process = "up"
  /\ u \in busy
  /\ stage[u] = s
  /\ busy' = busy \ {u}
  /\ result' = [result EXCEPT ![u] = r]
  /\ UNCHANGED <<process, tools, loop, stage, size, raised, status, queue, storeVars>>

\* handle.write: the disk may be full.
FinishWrite(u) ==
  /\ \E r \in {"ok", "OSError"} : Finish(u, "writing", r)
  /\ UNCHANGED <<frames, staged>>

\* read_capture_info: a missing capinfos leaves the defaults standing.
FinishHeader(u) ==
  /\ Finish(u, "header", IF tools = "not_executable" THEN "OSError" ELSE "ok")
  /\ UNCHANGED <<frames, staged>>

\* Mutation of FinishDissection: the thread waits for a second job of its pool.
DissectionInPool(u) ==
  /\ tools = "working"
  /\ Cardinality(busy) < Cardinality(Worker)
  /\ Finish(u, "dissecting", "ok")
  /\ UNCHANGED <<frames, staged>>

\* run_tshark: printed frames, exit status or timeout, or no process at all.
FinishDissection(u) ==
  /\ \/ /\ tools = "working"
        /\ Finish(u, "dissecting", "ok")
        /\ \E n \in 0 .. (MaxFrames + 1) : frames' = [frames EXCEPT ![u] = n]
     \/ /\ \/ tools = "working" /\ Finish(u, "dissecting", "TsharkError")
           \/ tools = "missing" /\ Finish(u, "dissecting", "TsharkNotFoundError")
           \/ tools = "not_executable" /\ Finish(u, "dissecting", "OSError")
        /\ UNCHANGED frames
  /\ UNCHANGED staged

\* _aggregate: the cap on frames, nothing readable, or build_document, which may
\* fail validation (a ValueError) or look up an unregistered machine (KeyError).
FinishAggregation(u) ==
  /\ \/ frames[u] > MaxFrames /\ Finish(u, "aggregating", "CaptureTooLargeError")
     \/ frames[u] = 0 /\ Finish(u, "aggregating", "EmptyCaptureError")
     \/ /\ frames[u] \in 1 .. MaxFrames
        /\ \E r \in {"ok", "ValueError", "KeyError"} : Finish(u, "aggregating", r)
  /\ UNCHANGED <<frames, staged>>

\* shutil.rmtree(directory, True)
FinishRemoval(u) ==
  /\ Finish(u, "removing", "ok")
  /\ staged' = staged \ {u}
  /\ UNCHANGED frames

FinishJob(u) ==
  \/ FinishWrite(u) \/ FinishHeader(u) \/ FinishDissection(u)
  \/ FinishAggregation(u) \/ FinishRemoval(u)

-----------------------------------------------------------------------------
(* read_capture, health and the life of the process                         *)

\* An async handler without an await: one step of the loop.
ReadCapture(u) ==
  /\ LoopRuns
  /\ Get(u)
  /\ UNCHANGED <<process, tools, loop, upload, pool, staged>>

\* tshark_version on the event loop: nothing else runs there until it returns.
HealthBegin ==
  /\ LoopRuns
  /\ loop' = "health"
  /\ UNCHANGED <<process, tools, upload, pool, staged, storeVars>>

HealthEnd ==
  /\ process = "up"
  /\ loop = "health"
  /\ loop' = "free"
  /\ UNCHANGED <<process, tools, upload, pool, staged, storeVars>>

\* Somebody installs, removes or replaces Wireshark on the host.
ToolsChange ==
  /\ tools' \in Tools \ {tools}
  /\ UNCHANGED <<process, loop, upload, pool, staged, storeVars>>

\* The process is killed: everything but the host and its directories goes.
Crash ==
  /\ process = "up"
  /\ process' = "down"
  /\ loop' = "free"
  /\ stage' = [u \in Id |-> IF stage[u] = "new" THEN "new" ELSE "gone"]
  /\ size' = [u \in Id |-> 0]
  /\ frames' = [u \in Id |-> 0]
  /\ raised' = [u \in Id |-> None]
  /\ status' = [u \in Id |-> Unanswered]
  /\ queue' = <<>>
  /\ busy' = {}
  /\ result' = [u \in Id |-> None]
  /\ order' = <<>>
  /\ reply' = NoReply
  /\ UNCHANGED <<tools, staged>>

\* lifespan: only TsharkNotFoundError of tshark_version is caught.
Boot ==
  /\ process \in {"down", "dead"}
  /\ process' = IF tools = "not_executable" THEN "dead" ELSE "up"
  /\ UNCHANGED <<tools, loop, upload, pool, staged, storeVars>>

Handle(u) ==
  \/ Begin(u) \/ BeginFails(u) \/ ReadChunk(u) \/ EndOfFile(u)
  \/ Written(u) \/ Advance(u) \/ Fail(u) \/ Answer(u)

Next ==
  \/ \E u \in Id : Handle(u) \/ FinishJob(u) \/ ReadCapture(u)
  \/ TakeJob \/ HealthBegin \/ HealthEnd \/ ToolsChange \/ Crash \/ Boot

Spec == Init /\ [][Next]_vars

(***************************************************************************)
(* The loop's ready queue, the pool's job queue and the callbacks of a     *)
(* finished job are first in, first out, so a handler that may go on again *)
(* and again does; every job ends (tshark and capinfos are killed at their *)
(* timeouts); and /health gives the loop back after at most 15 s.  Nothing *)
(* is assumed of clients, of the host's tools or of restarts.              *)
(***************************************************************************)
Proceed(u) ==
  ReadChunk(u) \/ EndOfFile(u) \/ Written(u) \/ Advance(u) \/ Fail(u) \/ Answer(u)

Fairness ==
  /\ \A u \in Id : SF_vars(Proceed(u)) /\ WF_vars(FinishJob(u))
  /\ WF_vars(TakeJob)
  /\ WF_vars(HealthEnd)

FairSpec == Spec /\ Fairness

-----------------------------------------------------------------------------
(* Properties                                                               *)

\* The values each variable takes.
TypeOK ==
  /\ process \in {"up", "down", "dead"}
  /\ tools \in Tools
  /\ loop \in {"free", "health"}
  /\ stage \in [Id -> Stages]
  /\ size \in [Id -> 0 .. (MaxSize + 1)]
  /\ frames \in [Id -> 0 .. (MaxFrames + 1)]
  /\ raised \in [Id -> Exceptions \cup {None}]
  /\ status \in [Id -> Statuses \cup {Unanswered}]
  /\ queue \in Seq(Id)
  /\ busy \subseteq Id
  /\ result \in [Id -> Exceptions \cup {"ok", None}]
  /\ staged \subseteq Id
  /\ order \in Seq(Id)

Queued == {queue[i] : i \in DOMAIN queue}

\* Every handler that awaits a job has exactly one, queued, running or finished,
\* and no job is left without a handler, through failures and restarts.
OneJobPerAwait ==
  /\ \A i, j \in DOMAIN queue : queue[i] = queue[j] => i = j
  /\ Queued \cap busy = {}
  /\ \A u \in Id :
       /\ (stage[u] \in Awaits) <=> (u \in Queued \cup busy \/ result[u] # None)
       /\ result[u] # None => u \notin Queued \cup busy

\* The file tshark reads is there while its handler runs, and gone however the
\* handler ended; only a killed process leaves directories behind.
StagingFollowsHandlers ==
  \A u \in Id :
    /\ stage[u] \in {"reading"} \cup (Awaits \ {"removing"}) => u \in staged
    /\ stage[u] \in {"new", "done"} => u \notin staged

\* The answer tells what was wrong with the upload or with the host: 413 exactly
\* for too much of it, 422 only for nothing usable in it, 503 only for no tshark.
StatusTellsCause ==
  \A u \in {v \in Id : stage[v] = "done"} :
    LET fits == size[u] \in 1 .. MaxSize
    IN  /\ status[u] = 413 <=> (size[u] > MaxSize \/ frames[u] > MaxFrames)
        /\ status[u] = 422 => size[u] = 0 \/ (fits /\ frames[u] <= MaxFrames)
        /\ status[u] = 503 => fits /\ frames[u] = 0
        /\ status[u] = 201 => fits /\ frames[u] \in 1 .. MaxFrames

\* A document is readable only after its upload was answered 201, at most
\* Capacity are, and none survives the process.
StoredWasAnswered ==
  /\ \A u \in Held : stage[u] = "done" /\ status[u] = 201
  /\ Len(order) <= Capacity
  /\ process # "up" => order = <<>>

\* A document becomes readable once, in the step that answers its upload, when
\* its staging directory is gone; an evicted or lost one never comes back.
PublishedOnce ==
  [][\A u \in Id : u \in Held' /\ u \notin Held =>
       stage[u] = "removing" /\ status'[u] = 201 /\ u \notin staged']_vars

\* Whatever the other requests, the host and /health do, an upload whose body
\* arrives is answered, unless the process is killed.
EveryUploadAnswered ==
  \A u \in Id : stage[u] = "reading" ~> stage[u] \in {"done", "gone"}

\* main.py: "Refusing to start would take /health down with it".
AlwaysStarts == process # "dead"

=============================================================================
