------------------------------ MODULE Ingestion ------------------------------
(***************************************************************************)
(* gateway-go's ingestion service: concurrent upload requests              *)
(* (handlers/documents.go, ingestion/service.go Upload), the in-memory     *)
(* document and job repositories, the worker pool whose goroutines run     *)
(* processJob (extraction, then embedding, each an RPC to ml-service that  *)
(* may fail or time out), and the order in which cmd/gateway/main.go shuts *)
(* everything down.                                                        *)
(*                                                                         *)
(* Each request mints its own UUIDs, so the upload itself names the        *)
(* document and the job it creates: `u \in docs` is the document of upload *)
(* u and jobs[u] the job of that document.  Every repository method holds  *)
(* the repository's mutex, so one call is one step, and another request or *)
(* a worker may run between any two of them.                               *)
(***************************************************************************)
EXTENDS Naturals, Sequences, FiniteSets

CONSTANTS Uploads,    \* upload requests, one value each
          Contents,   \* file contents, told apart by their SHA-256
          DocTypes,   \* what extension and category resolve to
          Workers,    \* cfg.IngestionWorkers goroutines
          QueueSize,  \* cfg.IngestionQueueSize
          None        \* no upload, no content, no type

ASSUME IngestionAssumption ==
    /\ QueueSize \in Nat
    /\ None \notin Uploads \cup Contents \cup DocTypes

VARIABLES
    \* upload requests
    step,       \* step[u]: the call of Upload that is next
    content,    \* content[u]: the hash of the body, once it was read
    docType,    \* docType[u]: the type the request asks for
    answer,     \* answer[u]: what the client was told
    reply,      \* reply[u]: the document (and job) the answer names
    objects,    \* objects[u]: the file under the key docID/filename
    \* MemoryDocumentRepository and MemoryJobRepository
    docs,       \* byID of the document repository: the uploads with a document
    byHash,     \* byHash[c]: the document a content hash resolves to
    jobs,       \* jobs[u]: the stored Job record
    \* worker goroutines
    stage,      \* stage[w]: where in processJob worker w is
    copy,       \* copy[w]: the Job value processJob works on
    \* cmd/gateway/main.go
    server,     \* serving, draining (http Shutdown), stopping (pool Stop), stopped, killed
    \* worker.Pool
    queue, closed, held, exited, stopping, accepted, done,
    cancelled   \* workerCtx is done: never, for main cancels it as it returns

Pool == INSTANCE WorkerPool WITH Items <- Uploads, NoItem <- None

poolVars   == <<queue, closed, held, exited, cancelled, stopping, accepted, done>>
clientVars == <<content, docType>>
replyVars  == <<answer, reply>>
repoVars   == <<docs, byHash, jobs>>
workerVars == <<stage, copy>>
vars == <<step, clientVars, replyVars, objects, repoVars, workerVars, server, poolVars>>

Fields == {"text", "chunks", "error"}
Statuses == {"absent", "pending", "extracting", "embedding", "completed", "failed"}
Job(status, has) == [status |-> status, has |-> has]
NoJob  == Job("absent", {})
NewJob == Job("pending", {})

Steps   == {"new", "hashed", "duplicate", "missing", "stored", "recorded", "jobbed", "answered"}
Answers == {"none", "accepted", "reused", "unavailable", "error"}
Stages  == {"idle", "taken", "extracting", "extracted", "embedding"}

Alive == server \in {"serving", "draining", "stopping"}
HTTPUp == server \in {"serving", "draining"}
Busy(u) == step[u] \notin {"new", "answered"}
Terminal(u) == jobs[u].status \in {"completed", "failed"}

Init ==
    /\ step = [u \in Uploads |-> "new"]
    /\ content = [u \in Uploads |-> None]
    /\ docType = [u \in Uploads |-> None]
    /\ answer = [u \in Uploads |-> "none"]
    /\ reply = [u \in Uploads |-> None]
    /\ objects = [u \in Uploads |-> "none"]
    /\ docs = {}
    /\ byHash = [c \in Contents |-> None]
    /\ jobs = [u \in Uploads |-> NoJob]
    /\ stage = [w \in Workers |-> "idle"]
    /\ copy = [w \in Workers |-> NoJob]
    /\ server = "serving"
    /\ Pool!Init
------------------------------------------------------------------------------
\* Helpers: an upload moves to its next call, or is answered.
Goto(u, from, to) ==
    /\ Alive
    /\ step[u] = from
    /\ step' = [step EXCEPT ![u] = to]

Answer(u, from, a, d) ==
    /\ Goto(u, from, "answered")
    /\ answer' = [answer EXCEPT ![u] = a]
    /\ reply' = [reply EXCEPT ![u] = d]

\* The request arrives, passes authentication and the type checks, and its body
\* is read and hashed.  A connection accepted before Shutdown may still send
\* its request while Shutdown waits.
Receive(u) ==
    /\ HTTPUp
    /\ Goto(u, "new", "hashed")
    /\ \E c \in Contents, t \in DocTypes :
         /\ content' = [content EXCEPT ![u] = c]
         /\ docType' = [docType EXCEPT ![u] = t]
    /\ UNCHANGED <<replyVars, objects, repoVars, workerVars, server, poolVars>>

\* An unsupported type (415), a missing file (400) or a body that cannot be read.
Refuse(u) ==
    /\ HTTPUp
    /\ Answer(u, "new", "error", None)
    /\ UNCHANGED <<clientVars, objects, repoVars, workerVars, server, poolVars>>

\* docs.FindByContentHash.
FindDuplicate(u) ==
    /\ Goto(u, "hashed", "duplicate")
    /\ byHash[content[u]] # None
    /\ reply' = [reply EXCEPT ![u] = byHash[content[u]]]
    /\ UNCHANGED <<clientVars, answer, objects, repoVars, workerVars, server, poolVars>>

FindNothing(u) ==
    /\ Goto(u, "hashed", "missing")
    /\ byHash[content[u]] = None
    /\ UNCHANGED <<clientVars, replyVars, objects, repoVars, workerVars, server, poolVars>>

\* jobs.FindLatestByDocumentID of the duplicate: 200 with the existing job, or,
\* when the first upload has not created its job yet, an error.
ReuseUnchecked(u) ==   \* faulty variant: a missing job is answered like a found one
    /\ Answer(u, "duplicate", "reused", reply[u])
    /\ UNCHANGED <<clientVars, objects, repoVars, workerVars, server, poolVars>>

Reuse(u) ==
    /\ Answer(u, "duplicate", "reused", reply[u])
    /\ jobs[reply[u]] # NoJob
    /\ UNCHANGED <<clientVars, objects, repoVars, workerVars, server, poolVars>>

DuplicateWithoutJob(u) ==
    /\ Answer(u, "duplicate", "error", None)
    /\ jobs[reply[u]] = NoJob
    /\ UNCHANGED <<clientVars, objects, repoVars, workerVars, server, poolVars>>

\* store.Put.  A failure may leave a truncated file behind.
PutObject(u) ==
    /\ Goto(u, "missing", "stored")
    /\ objects' = [objects EXCEPT ![u] = "whole"]
    /\ UNCHANGED <<clientVars, replyVars, repoVars, workerVars, server, poolVars>>

PutFailsButGoesOn(u) ==   \* faulty variant: the error of store.Put is dropped
    /\ Goto(u, "missing", "stored")
    /\ \E left \in {"none", "partial"} : objects' = [objects EXCEPT ![u] = left]
    /\ UNCHANGED <<clientVars, replyVars, repoVars, workerVars, server, poolVars>>

PutFails(u) ==
    /\ Answer(u, "missing", "error", None)
    /\ \E left \in {"none", "partial"} : objects' = [objects EXCEPT ![u] = left]
    /\ UNCHANGED <<clientVars, repoVars, workerVars, server, poolVars>>

CreateDocumentUnhashed(u) ==   \* faulty variant: byHash is not maintained
    /\ Goto(u, "stored", "recorded")
    /\ docs' = docs \cup {u}
    /\ UNCHANGED <<clientVars, replyVars, objects, byHash, jobs, workerVars, server, poolVars>>

\* docs.Create: the hash now resolves to this document, whatever it did before.
CreateDocument(u) ==
    /\ Goto(u, "stored", "recorded")
    /\ docs' = docs \cup {u}
    /\ byHash' = [byHash EXCEPT ![content[u]] = u]
    /\ UNCHANGED <<clientVars, replyVars, objects, jobs, workerVars, server, poolVars>>

\* jobs.Create.
CreateJob(u) ==
    /\ Goto(u, "recorded", "jobbed")
    /\ jobs' = [jobs EXCEPT ![u] = NewJob]
    /\ UNCHANGED <<clientVars, replyVars, objects, docs, byHash, workerVars, server, poolVars>>

\* pool.Submit: buffered, handed to a parked worker, or refused (503).  The
\* document and the job stay in the repositories in every case.
SubmitQueued(u) ==
    /\ Answer(u, "jobbed", "accepted", u)
    /\ Pool!Submit(u)
    /\ UNCHANGED <<clientVars, objects, repoVars, workerVars, server>>

SubmitToWorker(u, w) ==
    /\ Answer(u, "jobbed", "accepted", u)
    /\ Pool!Handoff(u, w)
    /\ stage' = [stage EXCEPT ![w] = "taken"]
    /\ copy' = [copy EXCEPT ![w] = NewJob]
    /\ UNCHANGED <<clientVars, objects, repoVars, server>>

SubmitFullAccepted(u) ==   \* faulty variant: ErrQueueFull is dropped and 202 sent
    /\ Pool!QueueFull
    /\ Answer(u, "jobbed", "accepted", u)
    /\ UNCHANGED <<clientVars, objects, repoVars, workerVars, server, poolVars>>

SubmitBlocks(u) == FALSE   \* faulty variant: a full queue is waited for, not reported

SubmitFull(u) ==
    /\ Pool!QueueFull
    /\ Answer(u, "jobbed", "unavailable", None)
    /\ UNCHANGED <<clientVars, objects, repoVars, workerVars, server, poolVars>>

Upload(u) ==
    \/ FindDuplicate(u) \/ FindNothing(u)
    \/ Reuse(u) \/ DuplicateWithoutJob(u)
    \/ PutObject(u) \/ PutFails(u)
    \/ CreateDocument(u) \/ CreateJob(u)
    \/ SubmitQueued(u) \/ SubmitFull(u)
    \/ \E w \in Workers : SubmitToWorker(u, w)
------------------------------------------------------------------------------
uploadVars == <<step, clientVars, replyVars, objects, docs, byHash>>

\* jobs.Update: the record of w's job becomes j.
Store(w, j) == jobs' = [jobs EXCEPT ![held[w]] = j]

\* Worker w goes to stage s with j as its copy of the job.
Advance(w, s, j) ==
    /\ Alive
    /\ stage' = [stage EXCEPT ![w] = s]
    /\ copy' = [copy EXCEPT ![w] = j]
    /\ UNCHANGED <<uploadVars, server>>

With(j, status, field) == Job(status, j.has \cup {field})

TakeJob(w) ==
    /\ Pool!Take(w)
    /\ Advance(w, "taken", NewJob)
    /\ UNCHANGED jobs

\* extract: the status is stored, then the RPC is under way.
StartExtract(w) ==
    /\ stage[w] = "taken"
    /\ LET j == [copy[w] EXCEPT !.status = "extracting"]
       IN  Store(w, j) /\ Advance(w, "extracting", j)
    /\ UNCHANGED poolVars

\* docs.FindByID found the document and the RPC answered.  Its results go to
\* the worker's copy only; the next jobs.Update stores them.
ExtractOk(w) ==
    /\ stage[w] = "extracting"
    /\ held[w] \in docs
    /\ Advance(w, "extracted", With(copy[w], "extracting", "text"))
    /\ UNCHANGED <<jobs, poolVars>>

StartEmbedFresh(w) ==   \* faulty variant: the stored record, not the copy, is advanced
    /\ stage[w] = "extracted"
    /\ LET j == [jobs[held[w]] EXCEPT !.status = "embedding"]
       IN  Store(w, j) /\ Advance(w, "embedding", j)
    /\ UNCHANGED poolVars

\* embed: the status and the extraction's results are stored, then the RPC is
\* under way.
StartEmbed(w) ==
    /\ stage[w] = "extracted"
    /\ LET j == [copy[w] EXCEPT !.status = "embedding"]
       IN  Store(w, j) /\ Advance(w, "embedding", j)
    /\ UNCHANGED poolVars

\* The last progress message of ChunkAndEmbed arrived and the stream ended.
EmbedOk(w) ==
    /\ stage[w] = "embedding"
    /\ Store(w, With(copy[w], "completed", "chunks"))
    /\ Advance(w, "idle", NoJob)
    /\ Pool!Finish(w)

FailJobUnrecorded(w) ==   \* faulty variant: processJob returns without failJob
    /\ stage[w] \in {"extracting", "embedding"}
    /\ Advance(w, "idle", NoJob)
    /\ Pool!Finish(w)
    /\ UNCHANGED jobs

FailJobAndGoOn(w) ==   \* faulty variant: extract fails the job, embed runs all the same
    /\ stage[w] = "extracting"
    /\ Store(w, With(copy[w], "failed", "error"))
    /\ Advance(w, "extracted", copy[w])
    /\ UNCHANGED poolVars

\* failJob: the document could not be loaded, or an RPC failed or timed out.
FailJob(w) ==
    /\ stage[w] \in {"extracting", "embedding"}
    /\ Store(w, With(copy[w], "failed", "error"))
    /\ Advance(w, "idle", NoJob)
    /\ Pool!Finish(w)

LeavePool(w) ==
    /\ Alive
    /\ Pool!WorkerExit(w)
    /\ UNCHANGED <<uploadVars, jobs, workerVars, server>>

Worker(w) ==
    \/ TakeJob(w)
    \/ StartExtract(w) \/ ExtractOk(w)
    \/ StartEmbed(w) \/ EmbedOk(w)
    \/ FailJob(w)
    \/ LeavePool(w)
------------------------------------------------------------------------------
restVars == <<uploadVars, jobs, workerVars>>

\* SIGINT or SIGTERM: server.Shutdown starts to wait for the requests.
Signal ==
    /\ server = "serving"
    /\ server' = "draining"
    /\ UNCHANGED <<restVars, poolVars>>

HttpDrainedEarly ==   \* faulty variant: the pool is stopped while handlers run
    /\ server = "draining"
    /\ server' = "stopping"
    /\ Pool!StopBegin
    /\ UNCHANGED restVars

\* Shutdown returned nil, so no handler runs; only then is the pool stopped.
HttpDrained ==
    /\ server = "draining"
    /\ \A u \in Uploads : ~Busy(u)
    /\ server' = "stopping"
    /\ Pool!StopBegin
    /\ UNCHANGED restVars

\* The pool drained in time and main returns.
PoolDrained ==
    /\ server = "stopping"
    /\ server' = "stopped"
    /\ Pool!StopDrained
    /\ UNCHANGED restVars

\* The shutdown deadline passed during Stop: main logs it and returns.
PoolDeadline ==
    /\ server = "stopping"
    /\ server' = "killed"
    /\ Pool!StopDeadline
    /\ UNCHANGED restVars

\* os.Exit(1): a listener failed while serving, or the deadline passed during
\* Shutdown (an upload, or a long answer stream, was still open).  The pool is
\* not stopped.
ExitAtOnce ==
    /\ HTTPUp
    /\ server' = "killed"
    /\ UNCHANGED <<restVars, poolVars>>

Next ==
    \/ \E u \in Uploads : Receive(u) \/ Refuse(u) \/ Upload(u)
    \/ \E w \in Workers : Worker(w)
    \/ Signal \/ HttpDrained \/ PoolDrained \/ PoolDeadline \/ ExitAtOnce

Spec == Init /\ [][Next]_vars

\* A handler that has started runs on; nothing in Upload waits for anybody.
UploadFairness == \A u \in Uploads : WF_vars(Upload(u))
\* A worker runs on; each RPC returns, with an error at its timeout at the latest.
WorkerFairness == \A w \in Workers : WF_vars(Worker(w))
\* main notices that Shutdown or Stop has returned.
MainFairness == WF_vars(HttpDrained) /\ WF_vars(PoolDrained)

UploadFairSpec == Spec /\ UploadFairness
FairSpec == Spec /\ UploadFairness /\ WorkerFairness /\ MainFairness
------------------------------------------------------------------------------
Jobs == [status : Statuses, has : SUBSET Fields]

TypeOK ==
    /\ step \in [Uploads -> Steps]
    /\ content \in [Uploads -> Contents \cup {None}]
    /\ docType \in [Uploads -> DocTypes \cup {None}]
    /\ answer \in [Uploads -> Answers]
    /\ reply \in [Uploads -> Uploads \cup {None}]
    /\ objects \in [Uploads -> {"none", "partial", "whole"}]
    /\ docs \in SUBSET Uploads
    /\ byHash \in [Contents -> Uploads \cup {None}]
    /\ jobs \in [Uploads -> Jobs]
    /\ stage \in [Workers -> Stages]
    /\ copy \in [Workers -> Jobs]
    /\ server \in {"serving", "draining", "stopping", "stopped", "killed"}
    /\ Pool!TypeOK

(***************************************************************************)
(* The repositories agree with each other and with the object store,       *)
(* between any two calls: a hash resolves to a document of that content,   *)
(* every document can be found by its content and has its whole file, a    *)
(* job has its document, and only the upload that is about to create it    *)
(* explains a document without a job.                                      *)
(***************************************************************************)
RecordsResolve ==
    /\ \A c \in Contents : byHash[c] # None =>
          byHash[c] \in docs /\ content[byHash[c]] = c
    /\ \A u \in docs :
          /\ content[u] \in Contents /\ byHash[content[u]] # None
          /\ objects[u] = "whole"
          /\ jobs[u] = NoJob => step[u] = "recorded"
    /\ \A u \in Uploads : jobs[u] # NoJob => u \in docs

(***************************************************************************)
(* The status a client polls is what is happening to the job: a stored     *)
(* record in progress has one worker at the matching stage, a finished one *)
(* has left the pool, and a pending one is queued, just taken, about to be *)
(* submitted -- or was refused by a full queue and is on its own.          *)
(***************************************************************************)
StageStatus(s) == CASE s = "taken" -> "pending"
                    [] s \in {"extracting", "extracted"} -> "extracting"
                    [] s = "embedding" -> "embedding"

JobsAccountedFor ==
    /\ \A w \in Workers : held[w] # None =>
          stage[w] # "idle" /\ jobs[held[w]].status = StageStatus(stage[w])
    /\ \A u \in Uploads :
          /\ jobs[u].status \in {"extracting", "embedding"} => u \in Pool!Running
          /\ u \in done <=> Terminal(u)
          /\ jobs[u].status = "pending" =>
                \/ u \in Pool!Queued \cup Pool!Running
                \/ step[u] = "jobbed"
                \/ answer[u] = "unavailable"

(***************************************************************************)
(* Job's comments on when its fields are set (job.go:38, :45): extracted   *)
(* text from embedding on, chunk counts exactly when completed, an error   *)
(* exactly when failed.  Results reach the record by way of the worker's   *)
(* copy, two updates later than they were computed.                        *)
(***************************************************************************)
FieldsMatchStatus ==
    \A u \in Uploads :
      /\ jobs[u].status \in {"embedding", "completed"} => "text" \in jobs[u].has
      /\ "chunks" \in jobs[u].has <=> jobs[u].status = "completed"
      /\ "error" \in jobs[u].has <=> jobs[u].status = "failed"
      /\ jobs[u].status \in {"pending", "extracting"} => jobs[u].has = {}

(***************************************************************************)
(* What a client was told stays true: 202 names its own document, whose    *)
(* job the pool took on; 200 names an existing document with the content   *)
(* the client sent, and a job to poll.                                     *)
(***************************************************************************)
AnswersAreHonest ==
    \A u \in Uploads :
      /\ answer[u] = "accepted" => reply[u] = u /\ u \in docs \cap accepted
      /\ answer[u] = "reused" =>
            /\ reply[u] \in docs \ {u}
            /\ content[reply[u]] = content[u]
            /\ jobs[reply[u]] # NoJob

(***************************************************************************)
(* main.go:174: the queue is closed only when no upload can reach Submit;  *)
(* a send on a closed channel would panic in the handler.                  *)
(***************************************************************************)
NoSendOnClosedQueue == closed => \A u \in Uploads : ~Busy(u)

(***************************************************************************)
(* A shutdown that ends without error has lost nothing: every upload that  *)
(* was answered 202 has been completed or failed.                          *)
(***************************************************************************)
CleanStopFinishesAccepted ==
    server = "stopped" => \A u \in Uploads : answer[u] = "accepted" => Terminal(u)

\* A job's status only moves forward, one stage at a time, and a completed or
\* failed job is never touched again.
StatusSteps == {<<"absent", "pending">>, <<"pending", "extracting">>,
                <<"extracting", "embedding">>, <<"extracting", "failed">>,
                <<"embedding", "completed">>, <<"embedding", "failed">>}
StatusMovesForward ==
    [][\A u \in Uploads : jobs'[u] # jobs[u] =>
          <<jobs[u].status, jobs'[u].status>> \in StatusSteps]_vars

\* An accepted upload is completed or failed, unless the process is killed.
AcceptedIsFinished ==
    WorkerFairness => \A u \in Uploads : (answer[u] = "accepted") ~> (Terminal(u) \/ server = "killed")

\* After the signal the process ends by itself: no worker, handler or queued
\* job keeps it up.
ShutdownEnds ==
    WorkerFairness /\ MainFairness =>
      (server = "draining") ~> (server \in {"stopped", "killed"})

\* A request that was read is answered even if no worker ever runs and no RPC
\* ever returns: "a 503 instead of a hung request" (gateway-go/README.md:269).
UploadIsAnswered ==
    \A u \in Uploads : Busy(u) ~> (answer[u] # "none" \/ server = "killed")

(***************************************************************************)
(* What the repository says and the code does not do.                      *)
(***************************************************************************)
\* gateway-go/README.md:284: "a duplicate upload reuses the existing document".
OneDocumentPerContent ==
    \A u, v \in docs : content[u] = content[v] => u = v

\* openapi.yaml:171, documents.go:90: when the queue is full, "retry shortly".
\* A retry that is answered 200 hands out a job that gets processed.
RetriedUploadIsProcessed ==
    \A u, d \in Uploads :
      (answer[u] = "reused" /\ reply[u] = d) ~> (Terminal(d) \/ ~Alive)
==============================================================================
