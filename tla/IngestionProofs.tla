---------------------------- MODULE IngestionProofs ----------------------------
(***************************************************************************)
(* Theorems about Ingestion, for any number of uploads, contents, workers  *)
(* and any queue size.  What happens inside the pool is not proved again:  *)
(* every step of the service is a step of WorkerPool or leaves the pool    *)
(* alone (PoolStep), so the invariant of WorkerPoolProofs carries over.    *)
(* On top of it IInv says, for every upload and every worker, which record *)
(* is stored at each point of Upload and of processJob.                    *)
(*                                                                         *)
(* At the end, DocumentViews: what a client was told of is in every list,  *)
(* with its job, and polls of a job only move forward.  Each step of the   *)
(* service keeps IInv and moves job records Forward also there.            *)
(***************************************************************************)
EXTENDS DocumentViews, TLAPS

PP == INSTANCE WorkerPoolProofs WITH Items <- Uploads, NoItem <- None

\* What Upload has done by the time it makes its next call.
BeforeDocument == {"new", "hashed", "duplicate", "missing", "stored"}

Progress ==
    \A u \in Uploads :
      /\ step[u] \in BeforeDocument => u \notin docs
      /\ Busy(u) => content[u] \in Contents
      /\ step[u] \in {"stored", "recorded", "jobbed"} => objects[u] = "whole"
      /\ step[u] \in {"recorded", "jobbed"} => u \in docs
      /\ step[u] = "duplicate" => reply[u] \in docs /\ content[reply[u]] = content[u]
      /\ answer[u] # "none" => step[u] = "answered"
      /\ u \in accepted <=> answer[u] = "accepted"

\* The record of a job that no worker holds.
FinishedJobs == {Job("completed", {"text", "chunks"}),
                 Job("failed", {"error"}), Job("failed", {"text", "error"})}

JobRecords ==
    \A u \in Uploads :
      /\ step[u] \in BeforeDocument \cup {"recorded"} => jobs[u] = NoJob
      /\ step[u] = "jobbed" => jobs[u] = NewJob
      /\ u \notin accepted => jobs[u] \in {NoJob, NewJob}
      /\ u \notin accepted /\ jobs[u] = NewJob =>
            step[u] = "jobbed" \/ answer[u] = "unavailable"
      /\ u \in Pool!Queued => jobs[u] = NewJob
      /\ u \in done => jobs[u] \in FinishedJobs

\* The record of the job a worker holds, and the worker's copy of it, by stage.
Stored(s) == CASE s = "taken" -> NewJob
               [] s \in {"extracting", "extracted"} -> Job("extracting", {})
               [] s = "embedding" -> Job("embedding", {"text"})
Copied(s) == CASE s = "taken" -> NewJob
               [] s = "extracting" -> Job("extracting", {})
               [] s = "extracted" -> Job("extracting", {"text"})
               [] s = "embedding" -> Job("embedding", {"text"})

WorkerJobs ==
    \A w \in Workers :
      /\ held[w] = None <=> stage[w] = "idle"
      /\ held[w] # None =>
            jobs[held[w]] = Stored(stage[w]) /\ copy[w] = Copied(stage[w])

\* What the order of shutdown says about the pool; main never cancels its context
\* while it runs.
ShutdownOrder ==
    /\ ~cancelled
    /\ NoSendOnClosedQueue
    /\ HTTPUp => stopping = "no"
    /\ stopping = "no" => ~closed
    /\ server = "stopped" => stopping = "drained"

IInv ==
    /\ TypeOK
    /\ PP!Inv
    /\ Progress
    /\ RecordsResolve
    /\ JobRecords
    /\ WorkerJobs
    /\ AnswersAreHonest
    /\ ShutdownOrder
-------------------------------------------------------------------------------
\* The two names of the pool's definitions, and what its invariant says here.
LEMMA PoolConstants == PP!PoolAssumption
BY IngestionAssumption DEF IngestionAssumption, PP!PoolAssumption

LEMMA PoolFacts ==
    ASSUME PP!Inv
    PROVE  /\ Pool!TypeOK
           /\ accepted = Pool!Queued \cup Pool!Running \cup done
           /\ Pool!Queued \cap Pool!Running = {}
           /\ (Pool!Queued \cup Pool!Running) \cap done = {}
           /\ \A v, w \in Workers : v # w /\ held[v] # None => held[v] # held[w]
<1>1. Pool!Queued = PP!Queued /\ Pool!Running = PP!Running
  BY DEF Pool!Queued, PP!Queued, Pool!Range, PP!Range, Pool!Running, PP!Running
<1>2. Pool!TypeOK
  BY DEF PP!Inv, PP!TypeOK, Pool!TypeOK
<1>3. PP!Placement
  BY DEF PP!Inv
<1> QED
  BY <1>1, <1>2, <1>3 DEF PP!Placement, PP!NoSharedItem

\* A step of the service is a step of the pool, or none.
LEMMA PoolStep == [Next]_vars => [PP!Next]_(PP!vars)
<1> SUFFICES ASSUME [Next]_vars PROVE [PP!Next]_(PP!vars)
  OBVIOUS
<1>1. CASE UNCHANGED poolVars
  BY <1>1 DEF poolVars, PP!vars
<1>2. ASSUME NEW u \in Uploads, Pool!Submit(u) PROVE PP!Next
  BY <1>2 DEF Pool!Submit, PP!Submit, PP!Next
<1>3. ASSUME NEW u \in Uploads, NEW w \in Workers, Pool!Handoff(u, w) PROVE PP!Next
  BY <1>3 DEF Pool!Handoff, Pool!Idle, PP!Handoff, PP!Idle, PP!Next
<1>4. ASSUME NEW w \in Workers, Pool!Take(w) \/ Pool!Finish(w) \/ Pool!WorkerExit(w)
      PROVE  PP!Next
  BY <1>4 DEF Pool!Take, Pool!Finish, Pool!WorkerExit, Pool!Idle,
              PP!Take, PP!Finish, PP!WorkerExit, PP!Idle, PP!WorkerStep, PP!Next
<1>5. CASE Pool!StopBegin \/ Pool!StopDrained \/ Pool!StopDeadline
  BY <1>5 DEF Pool!StopBegin, Pool!StopDrained, Pool!StopDeadline,
              PP!StopBegin, PP!StopDrained, PP!StopDeadline, PP!Next
<1>6. ASSUME NEW u \in Uploads, Receive(u) \/ Refuse(u) \/ Upload(u)
      PROVE  [PP!Next]_(PP!vars)
  BY <1>1, <1>2, <1>3, <1>6
  DEF Receive, Refuse, Upload, FindDuplicate, FindNothing, Reuse, DuplicateWithoutJob,
      PutObject, PutFails, CreateDocument, CreateJob, SubmitQueued, SubmitFull,
      SubmitToWorker
<1>7. ASSUME NEW w \in Workers, Worker(w) PROVE [PP!Next]_(PP!vars)
  BY <1>1, <1>4, <1>7
  DEF Worker, TakeJob, StartExtract, ExtractOk, StartEmbed, EmbedOk, FailJob, LeavePool
<1>8. CASE Signal \/ HttpDrained \/ PoolDrained \/ PoolDeadline \/ ExitAtOnce
  BY <1>1, <1>5, <1>8 DEF Signal, HttpDrained, PoolDrained, PoolDeadline, ExitAtOnce
<1>9. CASE UNCHANGED vars
  BY <1>1, <1>9 DEF vars
<1> QED
  BY <1>6, <1>7, <1>8, <1>9 DEF Next

LEMMA PoolInit == Init => PP!Init
BY DEF Init, Pool!Init, PP!Init

LEMMA PoolInvStep == PP!Inv /\ [Next]_vars => PP!Inv'
BY PoolStep, PoolConstants, PP!NextInv

\* The service keeps to the interface of the pool: it submits each job once, never
\* after Stop, and every step it makes on the queue and the workers is one of
\* worker/pool.go's.
THEOREM ServiceUsesPool == Spec => PP!Spec
BY PoolInit, PoolStep, PTL DEF Spec, PP!Spec
-------------------------------------------------------------------------------
\* Every conjunct of IInv, for the steps of an upload that leave the workers and
\* the pool alone.
QuietUpload(u) ==
    \/ Receive(u) \/ Refuse(u) \/ FindDuplicate(u) \/ FindNothing(u)
    \/ Reuse(u) \/ DuplicateWithoutJob(u) \/ PutObject(u) \/ PutFails(u)
    \/ CreateDocument(u) \/ CreateJob(u) \/ SubmitFull(u)

LEMMA QuietFrame ==
    ASSUME NEW u \in Uploads, QuietUpload(u)
    PROVE  /\ UNCHANGED <<workerVars, server, poolVars>>
           /\ step' = [step EXCEPT ![u] = step'[u]]
           /\ Pool!Queued' = Pool!Queued /\ Pool!Running' = Pool!Running
<1>1. UNCHANGED <<workerVars, server, poolVars>>
  BY DEF QuietUpload, Receive, Refuse, FindDuplicate, FindNothing, Reuse,
         DuplicateWithoutJob, PutObject, PutFails, CreateDocument, CreateJob, SubmitFull
<1>2. step' = [step EXCEPT ![u] = step'[u]]
  BY DEF QuietUpload, Receive, Refuse, FindDuplicate, FindNothing, Reuse,
         DuplicateWithoutJob, PutObject, PutFails, CreateDocument, CreateJob, SubmitFull,
         Answer, Goto
<1>3. Pool!Queued' = Pool!Queued /\ Pool!Running' = Pool!Running
  BY <1>1 DEF poolVars, Pool!Queued, Pool!Range, Pool!Running
<1> QED
  BY <1>1, <1>2, <1>3

\* The pool keeps its types in every step.
LEMMA PoolTypes == IInv /\ [Next]_vars => PP!Inv' /\ Pool!TypeOK'
<1>1. PP!Inv' => Pool!TypeOK'
  BY DEF PP!Inv, PP!TypeOK, Pool!TypeOK
<1> QED
  BY <1>1, PoolInvStep DEF IInv

\* The values a job record takes are records, and told apart by their status.
LEMMA JobValues ==
    /\ NoJob \in Jobs /\ NewJob \in Jobs /\ NewJob # NoJob
    /\ NoJob \notin FinishedJobs /\ NewJob \notin FinishedJobs
    /\ \A s \in Stages \ {"idle"} :
          /\ Stored(s) \in Jobs /\ Copied(s) \in Jobs /\ Stored(s) # NoJob
          /\ Stored(s) \notin FinishedJobs
BY DEF NoJob, NewJob, Job, Jobs, Statuses, Fields, FinishedJobs, Stages, Stored, Copied

LEMMA QuietIsNext ==
    ASSUME NEW u \in Uploads, QuietUpload(u)
    PROVE  Next
BY DEF QuietUpload, Next, Upload

LEMMA QuietTypes ==
    ASSUME IInv, NEW u \in Uploads, QuietUpload(u)
    PROVE  TypeOK'
<1> USE DEF IInv, TypeOK
<1>1. Pool!TypeOK'
  BY PoolTypes, QuietIsNext
<1>2. CASE FindDuplicate(u)
  <2>1. byHash[content[u]] \in Uploads \cup {None}
    BY <1>2 DEF FindDuplicate, Goto, Progress, Busy
  <2> QED
    BY <1>1, <1>2, <2>1 DEF FindDuplicate, Goto, Steps, clientVars, repoVars, workerVars
<1>3. CASE Receive(u)
  <2>1. PICK c \in Contents, t \in DocTypes :
             /\ content' = [content EXCEPT ![u] = c]
             /\ docType' = [docType EXCEPT ![u] = t]
    BY <1>3 DEF Receive
  <2>2. /\ content' \in [Uploads -> Contents \cup {None}]
        /\ docType' \in [Uploads -> DocTypes \cup {None}]
    BY <2>1
  <2>3. step' \in [Uploads -> Steps]
    BY <1>3 DEF Receive, Goto, Steps
  <2> QED
    BY <1>1, <1>3, <2>2, <2>3 DEF Receive, replyVars, repoVars, workerVars
<1>4. CASE Refuse(u) \/ Reuse(u) \/ DuplicateWithoutJob(u) \/ SubmitFull(u)
  BY <1>1, <1>4 DEF Refuse, Reuse, DuplicateWithoutJob, SubmitFull, Answer, Goto,
                    Steps, Answers, clientVars, repoVars, workerVars
<1>5. CASE FindNothing(u) \/ PutObject(u)
  BY <1>1, <1>5 DEF FindNothing, PutObject, Goto, Steps,
                    clientVars, replyVars, repoVars, workerVars
<1>6. CASE PutFails(u)
  BY <1>1, <1>6 DEF PutFails, Answer, Goto, Steps, Answers, clientVars, repoVars, workerVars
<1>7. CASE CreateDocument(u) \/ CreateJob(u)
  <2>1. step' \in [Uploads -> Steps]
    BY <1>7 DEF CreateDocument, CreateJob, Goto, Steps
  <2>2. byHash' \in [Contents -> Uploads \cup {None}] /\ docs' \in SUBSET Uploads
    BY <1>7 DEF CreateDocument, CreateJob
  <2>3. jobs' \in [Uploads -> Jobs]
    BY <1>7, JobValues DEF CreateDocument, CreateJob
  <2> QED
    BY <1>1, <1>7, <2>1, <2>2, <2>3
    DEF CreateDocument, CreateJob, clientVars, replyVars, workerVars
<1> QED
  BY <1>2, <1>3, <1>4, <1>5, <1>6, <1>7 DEF QuietUpload

LEMMA QuietProgress ==
    ASSUME IInv, NEW u \in Uploads, QuietUpload(u)
    PROVE  Progress'
<1> USE DEF IInv, TypeOK, Progress, BeforeDocument, Busy, poolVars
<1>1. CASE Receive(u)
  BY <1>1 DEF Receive, Goto, replyVars, repoVars
<1>2. CASE Refuse(u) \/ Reuse(u) \/ DuplicateWithoutJob(u) \/ SubmitFull(u)
  BY <1>2 DEF Refuse, Reuse, DuplicateWithoutJob, SubmitFull, Answer, Goto,
              clientVars, repoVars
<1>3. CASE FindDuplicate(u)
  BY <1>3 DEF FindDuplicate, Goto, clientVars, repoVars, RecordsResolve
<1>4. CASE FindNothing(u) \/ PutObject(u)
  BY <1>4 DEF FindNothing, PutObject, Goto, clientVars, replyVars, repoVars
<1>5. CASE PutFails(u)
  BY <1>5 DEF PutFails, Answer, Goto, clientVars, repoVars
<1>6. CASE CreateDocument(u) \/ CreateJob(u)
  BY <1>6 DEF CreateDocument, CreateJob, Goto, clientVars, replyVars
<1> QED
  BY <1>1, <1>2, <1>3, <1>4, <1>5, <1>6 DEF QuietUpload

LEMMA QuietRecords ==
    ASSUME IInv, NEW u \in Uploads, QuietUpload(u)
    PROVE  RecordsResolve'
<1> USE DEF IInv, TypeOK, Progress, BeforeDocument, Busy, RecordsResolve
<1>1. CASE Receive(u)
  BY <1>1 DEF Receive, Goto, repoVars
<1>2. CASE Refuse(u) \/ Reuse(u) \/ DuplicateWithoutJob(u) \/ SubmitFull(u)
  <2>1. u \in docs => jobs[u] # NoJob
    BY <1>2 DEF Refuse, Reuse, DuplicateWithoutJob, SubmitFull, Answer, Goto,
                JobRecords, NewJob, NoJob, Job
  <2>2. /\ \A v \in Uploads \ {u} : step'[v] = step[v]
        /\ UNCHANGED <<content, objects, docs, byHash, jobs>>
    BY <1>2 DEF Refuse, Reuse, DuplicateWithoutJob, SubmitFull, Answer, Goto,
                clientVars, repoVars
  <2> QED
    BY <2>1, <2>2
<1>3. CASE FindDuplicate(u) \/ FindNothing(u) \/ PutObject(u)
  BY <1>3 DEF FindDuplicate, FindNothing, PutObject, Goto, clientVars, repoVars
<1>4. CASE PutFails(u)
  BY <1>4 DEF PutFails, Answer, Goto, clientVars, repoVars
<1>5. CASE CreateDocument(u)
  <2>1. u # None /\ content[u] \in Contents /\ objects[u] = "whole" /\ jobs[u] = NoJob
    BY <1>5, IngestionAssumption DEF CreateDocument, Goto, JobRecords, IngestionAssumption
  <2>2. /\ docs' = docs \cup {u} /\ byHash' = [byHash EXCEPT ![content[u]] = u]
        /\ step' = [step EXCEPT ![u] = "recorded"] /\ step[u] = "stored"
        /\ UNCHANGED <<content, objects, jobs>>
    BY <1>5 DEF CreateDocument, Goto, clientVars
  <2>3. \A c \in Contents : byHash'[c] # None =>
            byHash'[c] \in docs' /\ content'[byHash'[c]] = c
    BY <2>1, <2>2
  <2>4. \A v \in docs' : content'[v] \in Contents /\ byHash'[content'[v]] # None
    BY <2>1, <2>2
  <2>5. \A v \in docs' : objects'[v] = "whole" /\ (jobs'[v] = NoJob => step'[v] = "recorded")
    BY <2>1, <2>2
  <2>6. \A v \in Uploads : jobs'[v] # NoJob => v \in docs'
    BY <2>2
  <2> QED
    BY <2>3, <2>4, <2>5, <2>6
<1>6. CASE CreateJob(u)
  <2>1. /\ jobs' = [jobs EXCEPT ![u] = NewJob] /\ u \in docs
        /\ \A v \in Uploads \ {u} : step'[v] = step[v]
        /\ UNCHANGED <<content, objects, docs, byHash>>
    BY <1>6 DEF CreateJob, Goto, clientVars
  <2> QED
    BY <2>1, JobValues
<1> QED
  BY <1>1, <1>2, <1>3, <1>4, <1>5, <1>6 DEF QuietUpload

LEMMA QuietJobs ==
    ASSUME IInv, NEW u \in Uploads, QuietUpload(u)
    PROVE  JobRecords' /\ WorkerJobs'
<1> USE DEF IInv, TypeOK, Progress, JobRecords
<1>1. /\ UNCHANGED <<workerVars, server, poolVars>>
      /\ Pool!Queued' = Pool!Queued
  BY QuietFrame
<1>2. /\ \A w \in Workers : held[w] # None => held[w] \in accepted
      /\ Pool!Queued \cup done \subseteq accepted
  BY PoolFacts DEF Pool!Running
<1>3. CASE CreateJob(u)
  <2>1. /\ jobs' = [jobs EXCEPT ![u] = NewJob]
        /\ step' = [step EXCEPT ![u] = "jobbed"] /\ step[u] = "recorded"
        /\ UNCHANGED answer
    BY <1>3 DEF CreateJob, Goto, replyVars
  <2>2. u \notin accepted /\ jobs[u] = NoJob
    BY <2>1
  <2>3. JobRecords'
    BY <1>1, <1>2, <2>1, <2>2 DEF BeforeDocument, poolVars
  <2>4. WorkerJobs'
    BY <1>1, <1>2, <2>1, <2>2 DEF WorkerJobs, workerVars, poolVars
  <2> QED
    BY <2>3, <2>4
<1>4. CASE ~CreateJob(u)
  <2>1. jobs' = jobs
    BY <1>4 DEF QuietUpload, Receive, Refuse, FindDuplicate, FindNothing, Reuse, repoVars,
                DuplicateWithoutJob, PutObject, PutFails, CreateDocument, SubmitFull
  <2>2. /\ step'[u] \in BeforeDocument \cup {"recorded"} =>
              step[u] \in BeforeDocument \cup {"recorded"}
        /\ step'[u] # "jobbed"
        /\ step[u] = "jobbed" => answer'[u] = "unavailable"
        /\ \A v \in Uploads \ {u} : step'[v] = step[v] /\ answer'[v] = answer[v]
    BY <1>4 DEF QuietUpload, Receive, Refuse, FindDuplicate, FindNothing, Reuse, replyVars,
                DuplicateWithoutJob, PutObject, PutFails, CreateDocument, SubmitFull,
                Answer, Goto, BeforeDocument
  <2>3. answer[u] = "none"
    BY DEF QuietUpload, Receive, Refuse, FindDuplicate, FindNothing, Reuse,
           DuplicateWithoutJob, PutObject, PutFails, CreateDocument, CreateJob, SubmitFull,
           Answer, Goto, Answers
  <2>4. JobRecords'
    BY <1>1, <2>1, <2>2, <2>3 DEF poolVars
  <2>5. WorkerJobs'
    BY <1>1, <2>1 DEF WorkerJobs, workerVars, poolVars
  <2> QED
    BY <2>4, <2>5
<1> QED
  BY <1>3, <1>4

LEMMA QuietAnswers ==
    ASSUME IInv, NEW u \in Uploads, QuietUpload(u)
    PROVE  AnswersAreHonest'
<1> USE DEF IInv, TypeOK, Progress, AnswersAreHonest, BeforeDocument, poolVars, Busy
<1>1. CASE Receive(u)
  BY <1>1 DEF Receive, Goto, replyVars, repoVars
<1>2. CASE Refuse(u) \/ DuplicateWithoutJob(u) \/ SubmitFull(u) \/ PutFails(u)
  BY <1>2 DEF Refuse, DuplicateWithoutJob, SubmitFull, PutFails, Answer, Goto,
              clientVars, repoVars
<1>3. CASE Reuse(u)
  BY <1>3 DEF Reuse, Answer, Goto, clientVars, repoVars
<1>4. CASE FindDuplicate(u)
  BY <1>4 DEF FindDuplicate, Goto, clientVars, repoVars
<1>5. CASE FindNothing(u) \/ PutObject(u)
  BY <1>5 DEF FindNothing, PutObject, Goto, clientVars, replyVars, repoVars
<1>6. CASE CreateDocument(u) \/ CreateJob(u)
  BY <1>6 DEF CreateDocument, CreateJob, Goto, clientVars, replyVars, NewJob, NoJob, Job
<1> QED
  BY <1>1, <1>2, <1>3, <1>4, <1>5, <1>6 DEF QuietUpload

LEMMA QuietShutdown ==
    ASSUME IInv, NEW u \in Uploads, QuietUpload(u)
    PROVE  ShutdownOrder'
<1>1. UNCHANGED <<server, poolVars>> /\ ShutdownOrder /\ step \in [Uploads -> Steps]
  BY QuietFrame DEF IInv, TypeOK
<1>2. CASE HTTPUp
  BY <1>1, <1>2 DEF ShutdownOrder, NoSendOnClosedQueue, HTTPUp, poolVars
<1>3. CASE ~HTTPUp
  <2>1. step[u] \notin {"new", "answered"}
    BY <1>3 DEF QuietUpload, Receive, Refuse, FindDuplicate, FindNothing, Reuse,
                DuplicateWithoutJob, PutObject, PutFails, CreateDocument, CreateJob,
                SubmitFull, Answer, Goto
  <2>2. ~closed
    BY <1>1, <2>1 DEF ShutdownOrder, NoSendOnClosedQueue, Busy
  <2> QED
    BY <1>1, <2>2 DEF ShutdownOrder, NoSendOnClosedQueue, HTTPUp, poolVars
<1> QED
  BY <1>2, <1>3

LEMMA QuietUploadInv ==
    ASSUME IInv, NEW u \in Uploads, QuietUpload(u)
    PROVE  IInv'
<1>1. PP!Inv'
  BY PoolTypes, QuietIsNext
<1> QED
  BY <1>1, QuietTypes, QuietProgress, QuietRecords, QuietJobs, QuietAnswers, QuietShutdown
  DEF IInv
-------------------------------------------------------------------------------
\* Submit took the job: what the two ways of taking it have in common.
LEMMA SubmittedKeeps ==
    ASSUME IInv, NEW u \in Uploads, Answer(u, "jobbed", "accepted", u),
           accepted' = accepted \cup {u},
           UNCHANGED <<clientVars, objects, repoVars, server, closed, stopping, cancelled>>
    PROVE  /\ step' \in [Uploads -> Steps] /\ answer' \in [Uploads -> Answers]
           /\ reply' \in [Uploads -> Uploads \cup {None}]
           /\ Progress' /\ RecordsResolve' /\ AnswersAreHonest' /\ ShutdownOrder'
<1> USE DEF IInv, TypeOK, Answer, Goto
<1>1. /\ step' \in [Uploads -> Steps] /\ answer' \in [Uploads -> Answers]
      /\ reply' \in [Uploads -> Uploads \cup {None}]
  BY DEF Steps, Answers
<1>2. jobs[u] = NewJob /\ u \in docs /\ UNCHANGED <<content, objects, docs, byHash, jobs>>
  BY DEF JobRecords, Progress, clientVars, repoVars
<1>3. Progress'
  BY <1>2 DEF Progress, BeforeDocument, Busy
<1>4. RecordsResolve'
  BY <1>2, JobValues DEF RecordsResolve
<1>5. AnswersAreHonest'
  BY <1>2 DEF AnswersAreHonest
<1>6. ShutdownOrder'
  BY DEF ShutdownOrder, NoSendOnClosedQueue, Busy, HTTPUp
<1> QED
  BY <1>1, <1>3, <1>4, <1>5, <1>6

LEMMA SubmitQueuedInv ==
    ASSUME IInv, NEW u \in Uploads, SubmitQueued(u)
    PROVE  IInv'
<1> USE DEF IInv
<1>1. PP!Inv' /\ Pool!TypeOK'
  BY PoolTypes DEF Next, Upload
<1>2. /\ Answer(u, "jobbed", "accepted", u)
      /\ queue' = Append(queue, u) /\ accepted' = accepted \cup {u}
      /\ UNCHANGED <<clientVars, objects, repoVars, workerVars, server>>
      /\ UNCHANGED <<closed, held, exited, cancelled, stopping, done>>
  BY DEF SubmitQueued, Pool!Submit
<1>3. /\ step' \in [Uploads -> Steps] /\ answer' \in [Uploads -> Answers]
      /\ reply' \in [Uploads -> Uploads \cup {None}]
      /\ Progress' /\ RecordsResolve' /\ AnswersAreHonest' /\ ShutdownOrder'
  BY <1>2, SubmittedKeeps
<1>4. TypeOK'
  BY <1>1, <1>2, <1>3 DEF TypeOK, clientVars, repoVars, workerVars
<1>5. Pool!Queued' = Pool!Queued \cup {u}
  <2>1. queue \in Seq(Uploads)
    BY PoolFacts DEF Pool!TypeOK
  <2>2. PP!Range(queue') = PP!Range(queue) \cup {u}
    BY <1>2, <2>1, PoolConstants, PP!AppendRange
  <2> QED
    BY <2>2 DEF Pool!Queued, Pool!Range, PP!Range
<1>6. step[u] = "jobbed" /\ step' = [step EXCEPT ![u] = "answered"] /\ u \notin accepted
      /\ answer' = [answer EXCEPT ![u] = "accepted"]
  BY <1>2 DEF Answer, Goto, Progress, TypeOK
<1>7. JobRecords'
  BY <1>2, <1>5, <1>6, PoolFacts DEF JobRecords, TypeOK, repoVars, BeforeDocument
<1>8. WorkerJobs'
  BY <1>2 DEF WorkerJobs, repoVars, workerVars
<1> QED
  BY <1>1, <1>3, <1>4, <1>7, <1>8

LEMMA SubmitToWorkerInv ==
    ASSUME IInv, NEW u \in Uploads, NEW w \in Workers, SubmitToWorker(u, w)
    PROVE  IInv'
<1> USE DEF IInv
<1>1. PP!Inv' /\ Pool!TypeOK'
  BY PoolTypes DEF Next, Upload
<1>2. /\ Answer(u, "jobbed", "accepted", u)
      /\ held' = [held EXCEPT ![w] = u] /\ accepted' = accepted \cup {u}
      /\ stage' = [stage EXCEPT ![w] = "taken"] /\ copy' = [copy EXCEPT ![w] = NewJob]
      /\ UNCHANGED <<clientVars, objects, repoVars, server>>
      /\ UNCHANGED <<queue, closed, exited, cancelled, stopping, done>>
  BY DEF SubmitToWorker, Pool!Handoff
<1>3. /\ step' \in [Uploads -> Steps] /\ answer' \in [Uploads -> Answers]
      /\ reply' \in [Uploads -> Uploads \cup {None}]
      /\ Progress' /\ RecordsResolve' /\ AnswersAreHonest' /\ ShutdownOrder'
  BY <1>2, SubmittedKeeps
<1>4. TypeOK'
  <2>1. stage' \in [Workers -> Stages] /\ copy' \in [Workers -> Jobs]
    BY <1>2, JobValues DEF TypeOK, Stages
  <2> QED
    BY <1>1, <1>2, <1>3, <2>1 DEF TypeOK, clientVars, repoVars
<1>5. Pool!Queued' = Pool!Queued
  BY <1>2 DEF Pool!Queued, Pool!Range
<1>6. step[u] = "jobbed" /\ step' = [step EXCEPT ![u] = "answered"] /\ u \notin accepted
      /\ answer' = [answer EXCEPT ![u] = "accepted"] /\ jobs[u] = NewJob /\ u # None
  BY <1>2, IngestionAssumption DEF Answer, Goto, Progress, JobRecords, TypeOK, IngestionAssumption
<1>7. JobRecords'
  BY <1>2, <1>5, <1>6, PoolFacts DEF JobRecords, TypeOK, repoVars, BeforeDocument
<1>8. WorkerJobs'
  <2>1. Stored("taken") = NewJob /\ Copied("taken") = NewJob
    BY DEF Stored, Copied
  <2>2. held \in [Workers -> Uploads \cup {None}]
    BY PoolFacts DEF Pool!TypeOK
  <2> QED
    BY <1>2, <1>6, <2>1, <2>2 DEF WorkerJobs, TypeOK, repoVars
<1> QED
  BY <1>1, <1>3, <1>4, <1>7, <1>8
-------------------------------------------------------------------------------
\* What is known of the job a worker holds.
LEMMA HeldFacts ==
    ASSUME IInv, NEW w \in Workers, held[w] # None
    PROVE  /\ held[w] \in Uploads /\ held[w] \in accepted
           /\ held[w] \notin Pool!Queued /\ held[w] \notin done
           /\ step[held[w]] = "answered" /\ held[w] \in docs
           /\ stage[w] \in Stages \ {"idle"}
           /\ jobs[held[w]] = Stored(stage[w]) /\ copy[w] = Copied(stage[w])
           /\ \A v \in Workers \ {w} : held[v] # held[w]
<1> USE DEF IInv
<1>1. /\ held[w] \in Uploads /\ held[w] \in Pool!Running
      /\ \A v \in Workers \ {w} : held[v] # held[w]
  BY PoolFacts DEF Pool!TypeOK, Pool!Running
<1>2. held[w] \in accepted /\ held[w] \notin Pool!Queued /\ held[w] \notin done
  BY <1>1, PoolFacts
<1>3. /\ stage[w] \in Stages \ {"idle"}
      /\ jobs[held[w]] = Stored(stage[w]) /\ copy[w] = Copied(stage[w])
  BY DEF WorkerJobs, TypeOK
<1>4. step[held[w]] = "answered"
  BY <1>1, <1>2 DEF Progress
<1>5. held[w] \in docs
  BY <1>1, <1>3, JobValues DEF RecordsResolve
<1> QED
  BY <1>1, <1>2, <1>3, <1>4, <1>5

\* Steps that touch no upload and no record.
LEMMA UploadsKeep ==
    ASSUME IInv, UNCHANGED <<uploadVars, jobs, accepted>>
    PROVE  Progress' /\ RecordsResolve' /\ AnswersAreHonest'
BY DEF IInv, Progress, RecordsResolve, AnswersAreHonest, uploadVars, clientVars, replyVars, Busy

LEMMA ServerKeeps ==
    ASSUME IInv, UNCHANGED <<step, server, closed, stopping, cancelled>>
    PROVE  ShutdownOrder'
BY DEF IInv, ShutdownOrder, NoSendOnClosedQueue, HTTPUp, Busy

\* jobs.Update by the worker that holds the job.
LEMMA StoreKeeps ==
    ASSUME IInv, NEW w \in Workers, held[w] # None, NEW j \in Jobs, j # NoJob,
           Store(w, j), UNCHANGED <<uploadVars, accepted>>
    PROVE  /\ jobs' \in [Uploads -> Jobs]
           /\ Progress' /\ RecordsResolve' /\ AnswersAreHonest'
<1> USE DEF IInv
<1>1. /\ held[w] \in Uploads /\ held[w] \in docs /\ jobs' = [jobs EXCEPT ![held[w]] = j]
      /\ UNCHANGED <<step, content, docType, answer, reply, objects, docs, byHash, accepted>>
  BY HeldFacts DEF Store, uploadVars, clientVars, replyVars
<1>2. jobs' \in [Uploads -> Jobs]
  BY <1>1 DEF TypeOK
<1>3. Progress'
  BY <1>1 DEF Progress, Busy
<1>4. RecordsResolve'
  BY <1>1 DEF RecordsResolve, TypeOK
<1>5. AnswersAreHonest'
  BY <1>1 DEF AnswersAreHonest, TypeOK
<1> QED
  BY <1>2, <1>3, <1>4, <1>5

\* The job of a worker that goes on to its next stage, with or without an update.
LEMMA StageInv ==
    ASSUME IInv, NEW w \in Workers, held[w] # None, NEW s \in Stages \ {"idle"},
           Advance(w, s, Copied(s)), UNCHANGED poolVars,
           Store(w, Stored(s)) \/ (Stored(s) = Stored(stage[w]) /\ UNCHANGED jobs)
    PROVE  IInv'
<1> USE DEF IInv
<1>1. /\ held[w] \in Uploads /\ held[w] \in accepted
      /\ held[w] \notin Pool!Queued /\ held[w] \notin done
      /\ step[held[w]] = "answered"
      /\ \A v \in Workers \ {w} : held[v] # held[w]
      /\ jobs[held[w]] = Stored(stage[w])
  BY HeldFacts
<1>2. /\ stage' = [stage EXCEPT ![w] = s] /\ copy' = [copy EXCEPT ![w] = Copied(s)]
      /\ UNCHANGED <<uploadVars, server>>
      /\ UNCHANGED <<queue, closed, held, exited, cancelled, stopping, accepted, done>>
  BY DEF Advance, poolVars
<1>3. PP!Inv' /\ Pool!TypeOK'
  <2>1. UNCHANGED PP!vars
    BY <1>2 DEF PP!vars
  <2>2. PP!Inv'
    BY <2>1, PoolConstants, PP!NextInv
  <2> QED
    BY <2>2 DEF PP!Inv, PP!TypeOK, Pool!TypeOK
<1>4. /\ jobs' \in [Uploads -> Jobs]
      /\ Progress' /\ RecordsResolve' /\ AnswersAreHonest'
  BY <1>2, StoreKeeps, UploadsKeep, JobValues DEF TypeOK
<1>5. jobs'[held[w]] = Stored(s) /\ \A u \in Uploads \ {held[w]} : jobs'[u] = jobs[u]
  BY <1>1 DEF Store, TypeOK
<1>6. TypeOK'
  <2>1. stage' \in [Workers -> Stages] /\ copy' \in [Workers -> Jobs]
    BY <1>2, JobValues DEF TypeOK
  <2> QED
    BY <1>2, <1>3, <1>4, <2>1 DEF TypeOK, uploadVars, clientVars, replyVars
<1>7. JobRecords'
  <2>1. Pool!Queued' = Pool!Queued /\ UNCHANGED <<step, answer>>
    BY <1>2 DEF Pool!Queued, Pool!Range, uploadVars, replyVars
  <2> QED
    BY <1>1, <1>2, <1>5, <2>1 DEF JobRecords, BeforeDocument
<1>8. WorkerJobs'
  <2>1. ASSUME NEW v \in Workers \ {w}, held[v] # None PROVE held[v] \in Uploads \ {held[w]}
    BY <1>1, <2>1, PoolFacts DEF Pool!TypeOK
  <2> QED
    BY <1>2, <1>5, <2>1 DEF WorkerJobs, TypeOK
<1>9. ShutdownOrder'
  BY <1>2, ServerKeeps DEF uploadVars
<1> QED
  BY <1>3, <1>4, <1>6, <1>7, <1>8, <1>9

LEMMA WithJob ==
    ASSUME NEW status, NEW has, NEW next, NEW field
    PROVE  With(Job(status, has), next, field) = Job(next, has \cup {field})
BY DEF With, Job

\* The three stages between receiving a job and finishing it.
LEMMA StageSteps ==
    ASSUME IInv, NEW w \in Workers, StartExtract(w) \/ ExtractOk(w) \/ StartEmbed(w)
    PROVE  IInv'
<1>1. stage[w] \in Stages \ {"idle"} /\ held[w] # None
  BY DEF IInv, WorkerJobs, StartExtract, ExtractOk, StartEmbed, Stages
<1>2. copy[w] = Copied(stage[w])
  BY <1>1, HeldFacts
<1>3. CASE StartExtract(w)
  <2>1. [copy[w] EXCEPT !.status = "extracting"] = Stored("extracting")
        /\ Stored("extracting") = Copied("extracting") /\ "extracting" \in Stages \ {"idle"}
    BY <1>2, <1>3 DEF StartExtract, Copied, Stored, NewJob, Job, Stages
  <2> QED
    BY <1>1, <1>3, <2>1, StageInv DEF StartExtract
<1>4. CASE ExtractOk(w)
  <2>1. /\ With(copy[w], "extracting", "text") = Copied("extracted")
        /\ Stored("extracted") = Stored(stage[w]) /\ "extracted" \in Stages \ {"idle"}
    <3>1. copy[w] = Job("extracting", {}) /\ {} \cup {"text"} = {"text"}
      BY <1>2, <1>4 DEF ExtractOk, Copied
    <3> QED
      BY <1>4, <3>1, WithJob DEF ExtractOk, Copied, Stored, Stages
  <2> QED
    BY <1>1, <1>4, <2>1, StageInv DEF ExtractOk
<1>5. CASE StartEmbed(w)
  <2>1. [copy[w] EXCEPT !.status = "embedding"] = Stored("embedding")
        /\ Stored("embedding") = Copied("embedding") /\ "embedding" \in Stages \ {"idle"}
    BY <1>2, <1>5 DEF StartEmbed, Copied, Stored, Job, Stages
  <2> QED
    BY <1>1, <1>5, <2>1, StageInv DEF StartEmbed
<1> QED
  BY <1>3, <1>4, <1>5

\* The last update of a job, completed or failed, and the return to the pool.
LEMMA FinishInv ==
    ASSUME IInv, NEW w \in Workers, NEW j \in FinishedJobs,
           Store(w, j), Advance(w, "idle", NoJob), Pool!Finish(w), PP!Inv', Pool!TypeOK'
    PROVE  IInv'
<1> USE DEF IInv
<1>1. /\ held[w] # None /\ done' = done \cup {held[w]}
      /\ held' = [held EXCEPT ![w] = None]
      /\ stage' = [stage EXCEPT ![w] = "idle"] /\ copy' = [copy EXCEPT ![w] = NoJob]
      /\ UNCHANGED <<uploadVars, server, queue, closed, exited, cancelled, stopping, accepted>>
  BY DEF Advance, Pool!Finish
<1>2. /\ held[w] \in Uploads /\ held[w] \in accepted
      /\ held[w] \notin Pool!Queued /\ step[held[w]] = "answered"
      /\ \A v \in Workers \ {w} : held[v] # held[w]
  BY <1>1, HeldFacts
<1>3. j \in Jobs /\ j # NoJob
  BY JobValues DEF FinishedJobs, Jobs, Job, Statuses, Fields
<1>4. jobs' \in [Uploads -> Jobs] /\ Progress' /\ RecordsResolve' /\ AnswersAreHonest'
  BY <1>1, <1>3, StoreKeeps
<1>5. TypeOK'
  <2>1. stage' \in [Workers -> Stages] /\ copy' \in [Workers -> Jobs]
    BY <1>1, JobValues DEF TypeOK, Stages
  <2> QED
    BY <1>1, <1>4, <2>1 DEF TypeOK, uploadVars, clientVars, replyVars
<1>6. jobs'[held[w]] = j /\ \A u \in Uploads \ {held[w]} : jobs'[u] = jobs[u]
  BY <1>2 DEF Store, TypeOK
<1>7. JobRecords'
  <2>1. Pool!Queued' = Pool!Queued /\ UNCHANGED <<step, answer>>
    BY <1>1 DEF Pool!Queued, Pool!Range, uploadVars, replyVars
  <2> QED
    BY <1>1, <1>2, <1>6, <2>1 DEF JobRecords, BeforeDocument
<1>8. WorkerJobs'
  <2>1. held \in [Workers -> Uploads \cup {None}]
    BY PoolFacts DEF Pool!TypeOK
  <2>2. ASSUME NEW v \in Workers \ {w}, held[v] # None PROVE held[v] \in Uploads \ {held[w]}
    BY <1>2, <2>1, <2>2
  <2> QED
    BY <1>1, <1>6, <2>1, <2>2 DEF WorkerJobs, TypeOK
<1>9. ShutdownOrder'
  BY <1>1, ServerKeeps DEF uploadVars
<1> QED
  BY <1>4, <1>5, <1>7, <1>8, <1>9

LEMMA FinishSteps ==
    ASSUME IInv, NEW w \in Workers, EmbedOk(w) \/ FailJob(w)
    PROVE  IInv'
<1>1. PP!Inv' /\ Pool!TypeOK'
  BY PoolTypes DEF Next, Worker
<1>2. held[w] # None
  BY DEF EmbedOk, FailJob, Pool!Finish
<1>3. copy[w] = Copied(stage[w])
  BY <1>2, HeldFacts
<1>4. CASE EmbedOk(w)
  <2>1. With(copy[w], "completed", "chunks") \in FinishedJobs
    <3>1. copy[w] = Job("embedding", {"text"}) /\ {"text"} \cup {"chunks"} = {"text", "chunks"}
      BY <1>3, <1>4 DEF EmbedOk, Copied
    <3> QED
      BY <3>1, WithJob DEF FinishedJobs
  <2> QED
    BY <1>1, <1>4, <2>1, FinishInv DEF EmbedOk
<1>5. CASE FailJob(w)
  <2>1. With(copy[w], "failed", "error") \in FinishedJobs
    <3>1. copy[w] \in {Job("extracting", {}), Job("embedding", {"text"})}
      BY <1>3, <1>5 DEF FailJob, Copied
    <3>2. {} \cup {"error"} = {"error"} /\ {"text"} \cup {"error"} = {"text", "error"}
      OBVIOUS
    <3> QED
      BY <3>1, <3>2, WithJob DEF FinishedJobs
  <2> QED
    BY <1>1, <1>5, <2>1, FinishInv DEF FailJob
<1> QED
  BY <1>4, <1>5

LEMMA TakeJobInv ==
    ASSUME IInv, NEW w \in Workers, TakeJob(w)
    PROVE  IInv'
<1> USE DEF IInv
<1> DEFINE i == Head(queue)
<1>1. PP!Inv' /\ Pool!TypeOK'
  BY PoolTypes DEF Next, Worker
<1>2. /\ held[w] = None /\ queue # <<>>
      /\ held' = [held EXCEPT ![w] = i] /\ queue' = Tail(queue)
      /\ stage' = [stage EXCEPT ![w] = "taken"] /\ copy' = [copy EXCEPT ![w] = NewJob]
      /\ UNCHANGED <<uploadVars, server, jobs>>
      /\ UNCHANGED <<closed, exited, cancelled, stopping, accepted, done>>
  BY DEF TakeJob, Pool!Take, Pool!Idle, Advance
<1>3. i \in Pool!Queued /\ Pool!Queued' = Pool!Queued \ {i}
  <2>1. queue \in Seq(Uploads) /\ PP!IsInjective(queue)
    BY PoolFacts DEF Pool!TypeOK, PP!Inv, PP!Placement, PP!NoDuplicateQueued
  <2>2. i \in PP!Range(queue) /\ PP!Range(queue') = PP!Range(queue) \ {i}
    BY <1>2, <2>1, PoolConstants, PP!TailRange
  <2> QED
    BY <2>2 DEF Pool!Queued, Pool!Range, PP!Range
<1> HIDE DEF i
<1>4. i \in Uploads /\ i # None /\ jobs[i] = NewJob
  <2>1. i \in Uploads
    BY <1>3, PoolFacts DEF Pool!TypeOK
  <2> QED
    BY <1>3, <2>1, IngestionAssumption DEF IngestionAssumption, JobRecords
<1>5. Progress' /\ RecordsResolve' /\ AnswersAreHonest' /\ ShutdownOrder'
  BY <1>2, UploadsKeep, ServerKeeps DEF uploadVars
<1>6. TypeOK'
  <2>1. stage' \in [Workers -> Stages] /\ copy' \in [Workers -> Jobs]
    BY <1>2, JobValues DEF TypeOK, Stages
  <2> QED
    BY <1>1, <1>2, <2>1 DEF TypeOK, uploadVars, clientVars, replyVars
<1>7. JobRecords'
  BY <1>2, <1>3 DEF JobRecords, uploadVars, replyVars
<1>8. WorkerJobs'
  <2>1. Stored("taken") = NewJob /\ Copied("taken") = NewJob
    BY DEF Stored, Copied
  <2>2. held \in [Workers -> Uploads \cup {None}]
    BY PoolFacts DEF Pool!TypeOK
  <2> QED
    BY <1>2, <1>4, <2>1, <2>2 DEF WorkerJobs, TypeOK
<1> QED
  BY <1>1, <1>5, <1>6, <1>7, <1>8

\* A worker leaves, or main moves on: no record changes.
LEMMA ControlInv ==
    ASSUME IInv,
           \/ \E w \in Workers : LeavePool(w)
           \/ Signal \/ HttpDrained \/ PoolDrained \/ PoolDeadline \/ ExitAtOnce
    PROVE  IInv'
<1> USE DEF IInv
<1>1. PP!Inv' /\ Pool!TypeOK'
  BY PoolTypes DEF Next, Worker
<1>2. UNCHANGED <<uploadVars, jobs, workerVars, queue, held, accepted, done, cancelled>>
  BY DEF LeavePool, Signal, HttpDrained, PoolDrained, PoolDeadline, ExitAtOnce, restVars,
         poolVars, Pool!WorkerExit, Pool!StopBegin, Pool!StopDrained, Pool!StopDeadline
<1>3. Progress' /\ RecordsResolve' /\ AnswersAreHonest'
  BY <1>2, UploadsKeep
<1>4. TypeOK'
  <2>1. server' \in {"serving", "draining", "stopping", "stopped", "killed"}
    BY DEF TypeOK, LeavePool, Signal, HttpDrained, PoolDrained, PoolDeadline, ExitAtOnce
  <2> QED
    BY <1>1, <1>2, <2>1 DEF TypeOK, uploadVars, clientVars, replyVars, workerVars
<1>5. JobRecords' /\ WorkerJobs'
  <2>1. Pool!Queued' = Pool!Queued
    BY <1>2 DEF Pool!Queued, Pool!Range
  <2> QED
    BY <1>2, <2>1 DEF JobRecords, WorkerJobs, uploadVars, replyVars, workerVars
<1>6. ShutdownOrder'
  <2>1. UNCHANGED <<step, cancelled>>
    BY <1>2 DEF uploadVars
  <2>2. CASE \E w \in Workers : LeavePool(w)
    BY <2>1, <2>2, ServerKeeps DEF LeavePool, Pool!WorkerExit
  <2>3. CASE Signal \/ ExitAtOnce
    BY <2>1, <2>3 DEF Signal, ExitAtOnce, poolVars, ShutdownOrder, NoSendOnClosedQueue, Busy, HTTPUp
  <2>4. CASE HttpDrained
    BY <2>1, <2>4 DEF HttpDrained, Pool!StopBegin, ShutdownOrder, NoSendOnClosedQueue, Busy, HTTPUp
  <2>5. CASE PoolDrained \/ PoolDeadline
    BY <2>1, <2>5 DEF PoolDrained, PoolDeadline, Pool!StopDrained, Pool!StopDeadline,
                      ShutdownOrder, NoSendOnClosedQueue, Busy, HTTPUp
  <2> QED
    BY <2>2, <2>3, <2>4, <2>5
<1> QED
  BY <1>1, <1>3, <1>4, <1>5, <1>6
-------------------------------------------------------------------------------
LEMMA InitIInv == Init => IInv
<1> SUFFICES ASSUME Init PROVE IInv
  OBVIOUS
<1>1. PP!Inv
  BY PoolInit, PoolConstants, PP!InitInv
<1>2. Pool!TypeOK
  BY <1>1, PoolFacts
<1>3. TypeOK
  BY <1>2, JobValues DEF Init, TypeOK, Steps, Answers, Stages
<1>4. /\ queue = <<>> /\ accepted = {} /\ done = {} /\ Pool!Queued = {}
      /\ held = [w \in Workers |-> None] /\ ~cancelled /\ ~closed /\ stopping = "no"
  <2>1. /\ queue = <<>> /\ accepted = {} /\ done = {}
        /\ held = [w \in Workers |-> None] /\ ~cancelled /\ ~closed /\ stopping = "no"
    BY DEF Init, Pool!Init
  <2> QED
    BY <2>1 DEF Pool!Queued, Pool!Range
<1>5. Progress /\ RecordsResolve /\ AnswersAreHonest
  BY <1>4 DEF Init, Progress, RecordsResolve, AnswersAreHonest, Busy
<1>6. JobRecords /\ WorkerJobs
  BY <1>4, JobValues DEF Init, JobRecords, WorkerJobs
<1>7. ShutdownOrder
  BY <1>4 DEF Init, ShutdownOrder, NoSendOnClosedQueue, HTTPUp
<1> QED
  BY <1>1, <1>3, <1>5, <1>6, <1>7 DEF IInv

LEMMA NextIInv == IInv /\ [Next]_vars => IInv'
<1> SUFFICES ASSUME IInv, [Next]_vars PROVE IInv'
  OBVIOUS
<1>1. ASSUME NEW u \in Uploads, Receive(u) \/ Refuse(u) \/ Upload(u) PROVE IInv'
  <2>1. CASE QuietUpload(u)
    BY <2>1, QuietUploadInv
  <2>2. CASE SubmitQueued(u)
    BY <2>2, SubmitQueuedInv
  <2>3. ASSUME NEW w \in Workers, SubmitToWorker(u, w) PROVE IInv'
    BY <2>3, SubmitToWorkerInv
  <2> QED
    BY <1>1, <2>1, <2>2, <2>3 DEF Upload, QuietUpload
<1>2. ASSUME NEW w \in Workers, Worker(w) PROVE IInv'
  BY <1>2, TakeJobInv, StageSteps, FinishSteps, ControlInv DEF Worker
<1>3. CASE Signal \/ HttpDrained \/ PoolDrained \/ PoolDeadline \/ ExitAtOnce
  BY <1>3, ControlInv
<1>4. CASE UNCHANGED vars
  <2>1. PP!Inv' /\ Pool!TypeOK'
    BY PoolTypes
  <2>2. UNCHANGED <<uploadVars, jobs, workerVars, server, poolVars>>
    BY <1>4 DEF vars, uploadVars, clientVars, replyVars, repoVars
  <2>3. Progress' /\ RecordsResolve' /\ AnswersAreHonest' /\ ShutdownOrder'
    BY <2>2, UploadsKeep, ServerKeeps DEF uploadVars, poolVars
  <2>4. TypeOK'
    BY <2>1, <2>2 DEF IInv, TypeOK, uploadVars, clientVars, replyVars, workerVars
  <2>5. JobRecords' /\ WorkerJobs'
    BY <2>2 DEF IInv, JobRecords, WorkerJobs, Pool!Queued, Pool!Range,
                uploadVars, replyVars, workerVars, poolVars
  <2> QED
    BY <2>1, <2>3, <2>4, <2>5 DEF IInv
<1> QED
  BY <1>1, <1>2, <1>3, <1>4 DEF Next

THEOREM SpecIInv == Spec => []IInv
BY InitIInv, NextIInv, PTL DEF Spec

\* Every variable of the service keeps its type, the queue its bound included.
THEOREM TypeCorrect == Spec => []TypeOK
<1>1. IInv => TypeOK
  BY DEF IInv
<1> QED
  BY <1>1, SpecIInv, PTL

\* Between any two calls of Upload and of processJob the repositories and the
\* object store agree: hash to document, document to file, job to document.
THEOREM RecordsResolveHolds == Spec => []RecordsResolve
<1>1. IInv => RecordsResolve
  BY DEF IInv
<1> QED
  BY <1>1, SpecIInv, PTL

\* What a client was told (202, or 200 for a duplicate) stays true.
THEOREM AnswersHold == Spec => []AnswersAreHonest
<1>1. IInv => AnswersAreHonest
  BY DEF IInv
<1> QED
  BY <1>1, SpecIInv, PTL

\* main stops the pool only when no upload can reach Submit: no handler ever
\* sends on the closed channel.
THEOREM NoSendOnClosed == Spec => []NoSendOnClosedQueue
<1>1. IInv => NoSendOnClosedQueue
  BY DEF IInv, ShutdownOrder
<1> QED
  BY <1>1, SpecIInv, PTL

\* Where a job record can be: the cases the next theorems are read off from.
LEMMA JobCases ==
    ASSUME IInv, NEW u \in Uploads
    PROVE  \/ u \in done /\ jobs[u] \in FinishedJobs
           \/ u \notin done /\ u \in Pool!Queued /\ jobs[u] = NewJob
           \/ /\ u \notin done
              /\ \E w \in Workers : held[w] = u /\ stage[w] \in Stages \ {"idle"}
                                    /\ jobs[u] = Stored(stage[w])
           \/ u \notin accepted /\ u \notin done /\ jobs[u] \in {NoJob, NewJob}
<1>1. CASE u \in done
  BY <1>1 DEF IInv, JobRecords
<1>2. CASE u \in Pool!Queued
  BY <1>2, PoolFacts DEF IInv, JobRecords
<1>3. CASE u \in Pool!Running
  <2>1. PICK w \in Workers : held[w] = u /\ held[w] # None
    BY <1>3 DEF Pool!Running
  <2> QED
    BY <2>1, HeldFacts
<1>4. CASE u \notin accepted
  BY <1>4, PoolFacts DEF IInv, JobRecords
<1> QED
  BY <1>1, <1>2, <1>3, <1>4, PoolFacts DEF IInv

\* Status, worker stage and pool never disagree about a job.
THEOREM JobsAreAccountedFor == Spec => []JobsAccountedFor
<1>1. IInv => JobsAccountedFor
  <2> SUFFICES ASSUME IInv PROVE JobsAccountedFor
    OBVIOUS
  <2>1. ASSUME NEW w \in Workers, held[w] # None
        PROVE  stage[w] # "idle" /\ jobs[held[w]].status = StageStatus(stage[w])
    <3>1. stage[w] \in Stages \ {"idle"} /\ jobs[held[w]] = Stored(stage[w])
      BY <2>1, HeldFacts
    <3> QED
      BY <3>1 DEF Stages, Stored, StageStatus, NewJob, Job
  <2>2. ASSUME NEW u \in Uploads
        PROVE  /\ jobs[u].status \in {"extracting", "embedding"} => u \in Pool!Running
               /\ u \in done <=> Terminal(u)
               /\ jobs[u].status = "pending" =>
                     \/ u \in Pool!Queued \cup Pool!Running
                     \/ step[u] = "jobbed"
                     \/ answer[u] = "unavailable"
    <3>1. CASE u \in done /\ jobs[u] \in FinishedJobs
      BY <3>1 DEF FinishedJobs, Job, Terminal
    <3>2. CASE u \notin done /\ u \in Pool!Queued /\ jobs[u] = NewJob
      BY <3>2 DEF NewJob, Job, Terminal
    <3>3. ASSUME u \notin done, NEW w \in Workers, held[w] = u,
                 stage[w] \in Stages \ {"idle"}, jobs[u] = Stored(stage[w])
          PROVE  /\ u \in Pool!Running /\ ~Terminal(u)
      <4>1. u # None
        BY IngestionAssumption DEF IngestionAssumption
      <4> QED
        BY <3>3, <4>1 DEF Pool!Running, Stages, Stored, NewJob, Job, Terminal
    <3>4. CASE u \notin accepted /\ u \notin done /\ jobs[u] \in {NoJob, NewJob}
      <4>1. jobs[u] = NewJob => step[u] = "jobbed" \/ answer[u] = "unavailable"
        BY <3>4 DEF IInv, JobRecords
      <4>2. /\ jobs[u] = NoJob => jobs[u].status = "absent"
            /\ jobs[u] = NewJob => jobs[u].status = "pending"
        BY DEF NoJob, NewJob, Job
      <4> QED
        BY <3>4, <4>1, <4>2 DEF Terminal
    <3>5. \/ u \in done /\ jobs[u] \in FinishedJobs
          \/ u \notin done /\ u \in Pool!Queued /\ jobs[u] = NewJob
          \/ /\ u \notin done
             /\ \E w \in Workers : held[w] = u /\ stage[w] \in Stages \ {"idle"}
                                   /\ jobs[u] = Stored(stage[w])
          \/ u \notin accepted /\ u \notin done /\ jobs[u] \in {NoJob, NewJob}
      BY JobCases, Zenon
    <3>6. CASE /\ u \notin done
               /\ \E w \in Workers : held[w] = u /\ stage[w] \in Stages \ {"idle"}
                                     /\ jobs[u] = Stored(stage[w])
      <4>1. u \in Pool!Running /\ ~Terminal(u)
        BY <3>3, <3>6, Zenon
      <4>2. jobs[u].status = "pending" => u \in Pool!Queued \cup Pool!Running
        BY <4>1, Zenon
      <4> QED
        BY <4>1, <4>2, <3>6, Zenon
    <3> QED
      BY <3>1, <3>2, <3>4, <3>5, <3>6, Zenon
  <2> QED
    BY <2>1, <2>2 DEF JobsAccountedFor
<1> QED
  BY <1>1, SpecIInv, PTL

\* The fields of a stored record are those its status promises.
THEOREM FieldsAgree == Spec => []FieldsMatchStatus
<1>1. IInv => FieldsMatchStatus
  <2> SUFFICES ASSUME IInv, NEW u \in Uploads
               PROVE  jobs[u] \in FinishedJobs \cup {NoJob, NewJob, Job("extracting", {}),
                                                      Job("embedding", {"text"})}
    BY DEF FieldsMatchStatus, FinishedJobs, NoJob, NewJob, Job
  <2>1. \A s \in Stages \ {"idle"} :
          Stored(s) \in {NewJob, Job("extracting", {}), Job("embedding", {"text"})}
    BY DEF Stages, Stored
  <2> QED
    BY <2>1, JobCases
<1> QED
  BY <1>1, SpecIInv, PTL

\* A shutdown that ended cleanly has finished every upload it answered 202, if
\* the pool has a worker at all.
THEOREM CleanStopFinishes ==
    ASSUME Workers # {}
    PROVE  Spec => []CleanStopFinishesAccepted
<1>1. IInv => CleanStopFinishesAccepted
  <2> SUFFICES ASSUME IInv, server = "stopped", NEW u \in Uploads, answer[u] = "accepted"
               PROVE  Terminal(u)
    BY DEF CleanStopFinishesAccepted
  <2>1. stopping = "drained" /\ ~cancelled /\ u \in accepted
    BY DEF IInv, ShutdownOrder, Progress
  <2>2. accepted = done
    <3>1. exited = Workers /\ queue = <<>>
      BY <2>1 DEF IInv, PP!Inv, PP!DrainedMeansExited, PP!ExitMeansEmpty
    <3>2. \A w \in Workers : held[w] = None
      BY <3>1 DEF IInv, PP!Inv, PP!ExitedIsIdle
    <3>3. Pool!Queued = {} /\ Pool!Running = {}
      BY <3>1, <3>2 DEF Pool!Queued, Pool!Range, Pool!Running
    <3> QED
      BY <3>3, PoolFacts DEF IInv
  <2> QED
    BY <2>1, <2>2 DEF IInv, JobRecords, FinishedJobs, Job, Terminal
<1> QED
  BY <1>1, SpecIInv, PTL

\* The jobs whose record says that they have ended, as a client sees them, are those the
\* pool is done with: by way of them the service implements BoundedWork.
Ended == {u \in Uploads : Terminal(u)}

Work == INSTANCE BoundedWork WITH
    Items <- Uploads, Capacity <- QueueSize, MaxRunning <- Cardinality(Workers),
    waiting <- Pool!Queued, running <- Pool!Running, finished <- Ended

LEMMA SameCardinalities ==
    /\ \A S : IsFiniteSet(S) => PP!IsFiniteSet(S)
    /\ \A S : PP!Cardinality(S) = Cardinality(S)
    /\ \A S : PP!Promise!Cardinality(S) = Cardinality(S)
    /\ \A S : Work!Cardinality(S) = Cardinality(S)
<1>1. \A S : IsFiniteSet(S) => PP!IsFiniteSet(S)
  BY DEF IsFiniteSet, PP!IsFiniteSet
<1>2. \A S : PP!Cardinality(S) = Cardinality(S)
  BY DEF Cardinality, PP!Cardinality
<1>3. \A S : PP!Promise!Cardinality(S) = Cardinality(S)
  BY DEF Cardinality, PP!Promise!Cardinality
<1>4. \A S : Work!Cardinality(S) = Cardinality(S)
  BY DEF Cardinality, Work!Cardinality
<1> QED
  BY <1>1, <1>2, <1>3, <1>4

\* However uploads, workers and the shutdown interleave, a job waits, is processed once,
\* and gets its terminal record in the step that frees its worker (processJob, runWorker).
THEOREM JobsAreBoundedWork ==
    ASSUME IsFiniteSet(Workers)
    PROVE  Spec => Work!Spec
<1>1. IInv /\ JobsAccountedFor => Ended = done
  BY PoolFacts DEF IInv, Ended, JobsAccountedFor, Pool!TypeOK
<1>2. PP!Inv /\ [Next]_vars => [PP!Promise!Next]_(PP!Promise!vars)
  BY PoolStep, PP!PromiseStep, PoolConstants, SameCardinalities
<1>3. Pool!Queued = PP!Queued /\ Pool!Running = PP!Running
  BY DEF Pool!Queued, PP!Queued, Pool!Range, PP!Range, Pool!Running, PP!Running
<1>4. Init /\ Ended = done => Work!Init
  BY <1>3, PoolInit, PP!InitPromise, PoolConstants DEF PP!Promise!Init, Work!Init
<1>5. Ended = done /\ (Ended = done)' /\ [PP!Promise!Next]_(PP!Promise!vars)
        => [Work!Next]_(Work!vars)
  <2>1. Pool!Queued' = PP!Queued' /\ Pool!Running' = PP!Running'
    BY DEF Pool!Queued, PP!Queued, Pool!Range, PP!Range, Pool!Running, PP!Running
  <2> SUFFICES ASSUME Ended = done, Ended' = done', PP!Promise!Next \/ UNCHANGED PP!Promise!vars
               PROVE  Work!Next \/ UNCHANGED Work!vars
    OBVIOUS
  <2>2. ASSUME NEW u \in Uploads
        PROVE  /\ PP!Promise!Accept(u) => Work!Accept(u)
               /\ PP!Promise!AcceptRunning(u) => Work!AcceptRunning(u)
               /\ PP!Promise!Start(u) => Work!Start(u)
               /\ PP!Promise!Finish(u) => Work!Finish(u)
    BY <1>3, <2>1, SameCardinalities
    DEF PP!Promise!Accept, PP!Promise!AcceptRunning, PP!Promise!Start, PP!Promise!Finish,
        PP!Promise!Known, Work!Accept, Work!AcceptRunning, Work!Start, Work!Finish, Work!Known
  <2>3. UNCHANGED PP!Promise!vars => UNCHANGED Work!vars
    BY <1>3, <2>1 DEF PP!Promise!vars, Work!vars
  <2> QED
    BY <2>2, <2>3 DEF PP!Promise!Next, Work!Next
<1>6. Spec => [](Ended = done)
  BY <1>1, SpecIInv, JobsAreAccountedFor, PTL
<1>7. IInv => PP!Inv
  BY DEF IInv
<1> QED
  BY <1>2, <1>4, <1>5, <1>6, <1>7, SpecIInv, PTL DEF Spec, Work!Spec
-------------------------------------------------------------------------------
\* No two requests with one content are inside Upload at the same time.
NoOverlap ==
    \A u, v \in Uploads : Busy(u) /\ Busy(v) /\ content[u] = content[v] => u = v

\* An upload that has found nothing is the first of its content.
Fresh ==
    \A u \in Uploads : step[u] \in {"missing", "stored"} =>
        \A d \in docs : content[d] # content[u]

LEMMA FreshStep ==
    ASSUME IInv, NoOverlap, Fresh, OneDocumentPerContent, [Next]_vars
    PROVE  Fresh' /\ OneDocumentPerContent'
<1>0. /\ step \in [Uploads -> Steps] /\ content \in [Uploads -> Contents \cup {None}]
      /\ docs \in SUBSET Uploads
  BY DEF IInv, TypeOK
<1>1. ASSUME NEW u \in Uploads, CreateDocument(u) PROVE Fresh' /\ OneDocumentPerContent'
  <2>1. /\ step[u] = "stored" /\ step' = [step EXCEPT ![u] = "recorded"]
        /\ docs' = docs \cup {u} /\ content' = content
    BY <1>1 DEF CreateDocument, Goto, clientVars
  <2>2. \A d \in docs : content[d] # content[u]
    BY <2>1 DEF Fresh
  <2>3. ASSUME NEW v \in Uploads, step'[v] \in {"missing", "stored"}
        PROVE  v # u /\ step[v] = step'[v] /\ content[v] # content[u]
    BY <1>0, <2>1, <2>3 DEF NoOverlap, Busy
  <2> QED
    BY <2>1, <2>2, <2>3 DEF Fresh, OneDocumentPerContent
<1>2. ASSUME NEW u \in Uploads, Receive(u) PROVE Fresh' /\ OneDocumentPerContent'
  <2>1. /\ step[u] = "new" /\ step' = [step EXCEPT ![u] = "hashed"] /\ docs' = docs
        /\ \A v \in Uploads : v # u => content'[v] = content[v]
    BY <1>0, <1>2 DEF Receive, Goto, repoVars
  <2>2. u \notin docs
    BY <2>1 DEF IInv, Progress, BeforeDocument
  <2> QED
    BY <1>0, <2>1, <2>2 DEF Fresh, OneDocumentPerContent
<1>3. ASSUME NEW u \in Uploads, FindNothing(u) PROVE Fresh' /\ OneDocumentPerContent'
  <2>1. /\ byHash[content[u]] = None /\ step' = [step EXCEPT ![u] = "missing"]
        /\ docs' = docs /\ content' = content
    BY <1>3 DEF FindNothing, Goto, repoVars, clientVars
  <2>2. \A d \in docs : content[d] # content[u]
    BY <2>1 DEF IInv, RecordsResolve
  <2> QED
    BY <1>0, <2>1, <2>2 DEF Fresh, OneDocumentPerContent
<1>4. ASSUME NEW u \in Uploads,
             \/ Refuse(u) \/ FindDuplicate(u) \/ Reuse(u) \/ DuplicateWithoutJob(u)
             \/ PutObject(u) \/ PutFails(u) \/ CreateJob(u) \/ SubmitQueued(u)
             \/ SubmitFull(u) \/ \E w \in Workers : SubmitToWorker(u, w)
      PROVE  Fresh' /\ OneDocumentPerContent'
  <2>1. docs' = docs /\ content' = content
    BY <1>4 DEF Refuse, FindDuplicate, Reuse, DuplicateWithoutJob, PutObject, PutFails,
       CreateJob, SubmitQueued, SubmitFull, SubmitToWorker, repoVars, clientVars
  <2>2. \E p \in {"answered", "duplicate", "stored", "jobbed"} :
           step' = [step EXCEPT ![u] = p] /\ (p = "stored" => step[u] = "missing")
    BY <1>4 DEF Refuse, FindDuplicate, Reuse, DuplicateWithoutJob, PutObject, PutFails,
       CreateJob, SubmitQueued, SubmitFull, SubmitToWorker, Answer, Goto
  <2>3. \A v \in Uploads : step'[v] \in {"missing", "stored"} =>
                             step[v] \in {"missing", "stored"}
    BY <1>0, <2>2
  <2> QED
    BY <2>1, <2>3 DEF Fresh, OneDocumentPerContent
<1>5. CASE \/ \E w \in Workers : Worker(w)
           \/ Signal \/ HttpDrained \/ PoolDrained \/ PoolDeadline \/ ExitAtOnce
           \/ UNCHANGED vars
  <2>1. UNCHANGED <<step, content, docs>>
    BY <1>5 DEF Worker, TakeJob, StartExtract, ExtractOk, StartEmbed, EmbedOk, FailJob,
       LeavePool, Advance, Signal, HttpDrained, PoolDrained, PoolDeadline, ExitAtOnce,
       restVars, uploadVars, clientVars, vars, repoVars
  <2> QED
    BY <2>1 DEF Fresh, OneDocumentPerContent
<1> QED
  BY <1>1, <1>2, <1>3, <1>4, <1>5 DEF Next, Upload

\* Overlap is the only way to two documents of one content: when uploads of one content
\* come one after the other, gateway-go/README.md:284 holds, whatever fails, whatever the
\* queue refuses and whatever uploads of other contents do meanwhile.
THEOREM DuplicatesReuseUnlessTheyOverlap ==
    Spec /\ []NoOverlap => []OneDocumentPerContent
<1>1. Init => Fresh /\ OneDocumentPerContent
  BY DEF Init, Fresh, OneDocumentPerContent
<1>2. IInv /\ NoOverlap /\ (Fresh /\ OneDocumentPerContent) /\ [Next]_vars
        => (Fresh /\ OneDocumentPerContent)'
  BY FreshStep
<1> QED
  BY <1>1, <1>2, SpecIInv, PTL DEF Spec
-------------------------------------------------------------------------------
\* What a step may do to the record of a job.
Forward ==
    \A u \in Uploads : jobs'[u] # jobs[u] =>
        <<jobs[u].status, jobs'[u].status>> \in StatusSteps

LEMMA ForwardStep ==
    ASSUME IInv, [Next]_vars
    PROVE  Forward
<1>1. ASSUME NEW u \in Uploads, CreateJob(u) PROVE Forward
  <2>1. jobs[u] = NoJob /\ jobs' = [jobs EXCEPT ![u] = NewJob]
    BY <1>1 DEF IInv, JobRecords, CreateJob, Goto
  <2> QED
    BY <2>1 DEF Forward, IInv, TypeOK, StatusSteps, NoJob, NewJob, Job
<1>2. ASSUME NEW w \in Workers,
             StartExtract(w) \/ StartEmbed(w) \/ EmbedOk(w) \/ FailJob(w)
      PROVE  Forward
  <2>1. held[w] # None
    BY <1>2 DEF IInv, WorkerJobs, StartExtract, StartEmbed, EmbedOk, FailJob, Pool!Finish
  <2>2. held[w] \in Uploads /\ jobs[held[w]] = Stored(stage[w]) /\ copy[w] = Copied(stage[w])
    BY <2>1, HeldFacts
  <2>3. ASSUME NEW s, Store(w, s), <<jobs[held[w]].status, s.status>> \in StatusSteps
        PROVE  Forward
    BY <2>2, <2>3 DEF Forward, Store, IInv, TypeOK
  <2>4. CASE StartExtract(w)
    BY <1>2, <2>2, <2>3, <2>4
    DEF StartExtract, Stored, Copied, NewJob, Job, StatusSteps
  <2>5. CASE StartEmbed(w)
    BY <1>2, <2>2, <2>3, <2>5 DEF StartEmbed, Stored, Copied, Job, StatusSteps
  <2>6. CASE EmbedOk(w)
    BY <1>2, <2>2, <2>3, <2>6 DEF EmbedOk, Stored, Job, With, StatusSteps
  <2>7. CASE FailJob(w)
    BY <1>2, <2>2, <2>3, <2>7 DEF FailJob, Stored, Job, With, StatusSteps
  <2> QED
    BY <1>2, <2>4, <2>5, <2>6, <2>7
<1>3. ASSUME UNCHANGED jobs PROVE Forward
  BY <1>3 DEF Forward
<1>4. ASSUME NEW u \in Uploads, Receive(u) \/ Refuse(u) \/ Upload(u), ~CreateJob(u)
      PROVE  UNCHANGED jobs
  BY <1>4 DEF Receive, Refuse, Upload, FindDuplicate, FindNothing, Reuse,
              DuplicateWithoutJob, PutObject, PutFails, CreateDocument,
              SubmitQueued, SubmitFull, SubmitToWorker, repoVars
<1>5. ASSUME NEW w \in Workers, TakeJob(w) \/ ExtractOk(w) \/ LeavePool(w)
      PROVE  UNCHANGED jobs
  BY <1>5 DEF TakeJob, ExtractOk, LeavePool
<1>6. ASSUME Signal \/ HttpDrained \/ PoolDrained \/ PoolDeadline \/ ExitAtOnce
      PROVE  UNCHANGED jobs
  BY <1>6 DEF Signal, HttpDrained, PoolDrained, PoolDeadline, ExitAtOnce, restVars
<1>7. ASSUME UNCHANGED vars PROVE UNCHANGED jobs
  BY <1>7 DEF vars, repoVars
<1> QED
  BY <1>1, <1>2, <1>3, <1>4, <1>5, <1>6, <1>7 DEF Next, Worker

\* A stored job moves one stage forward at a time, and a completed or failed one
\* is never written again.
THEOREM StatusOnlyForward == Spec => StatusMovesForward
<1>1. IInv /\ [Next]_vars =>
        [\A u \in Uploads : jobs'[u] # jobs[u] =>
            <<jobs[u].status, jobs'[u].status>> \in StatusSteps]_vars
  BY ForwardStep DEF Forward
<1> QED
  BY <1>1, SpecIInv, PTL DEF Spec, StatusMovesForward
--------------------------------------------------------------------------------
(* DocumentViews *)

Shown == {"unseen", "missing"} \cup (Statuses \ {"absent"})

\* What the reader was shown is not ahead of the record.
NotAhead ==
    /\ Rank(shown) <= Rank(WatchedJob)
    /\ shown \in {"completed", "failed"} => shown = WatchedJob

VInv ==
    /\ IInv
    /\ watched \in Uploads /\ view \in {"idle", "listed", "read"}
    /\ shown \in Shown /\ NotAhead
    /\ told => watched \in docs /\ jobs[watched] # NoJob
    /\ ToldIsListed

LEMMA Ranks ==
    /\ Rank("unseen") = 1 /\ Rank("missing") = 2 /\ Rank("pending") = 3
    /\ Rank("extracting") = 4 /\ Rank("embedding") = 5
    /\ Rank("completed") = 6 /\ Rank("failed") = 6
<1>1. ASSUME NEW k \in 1..6, NEW s, s # "failed",
             \A i \in 1..6 : InOrder[i] = s <=> i = k
      PROVE  Rank(s) = k
  <2>1. Rank(s) = CHOOSE i \in 1..6 : InOrder[i] = s
    BY <1>1 DEF Rank
  <2> QED
    BY <1>1, <2>1
<1>2. \A i \in 1..6 : /\ InOrder[i] = "unseen" <=> i = 1
                      /\ InOrder[i] = "missing" <=> i = 2
                      /\ InOrder[i] = "pending" <=> i = 3
                      /\ InOrder[i] = "extracting" <=> i = 4
                      /\ InOrder[i] = "embedding" <=> i = 5
                      /\ InOrder[i] = "completed" <=> i = 6
  BY DEF InOrder
<1>3. Rank("unseen") = 1 /\ Rank("missing") = 2 /\ Rank("pending") = 3
  BY <1>1, <1>2
<1>4. Rank("extracting") = 4 /\ Rank("embedding") = 5 /\ Rank("completed") = 6
  BY <1>1, <1>2
<1>5. Rank("failed") = 6
  BY DEF Rank
<1> QED
  BY <1>3, <1>4, <1>5

\* A record without a status is no record.
LEMMA RecordFacts ==
    ASSUME IInv, NEW u \in Uploads
    PROVE  /\ jobs[u].status \in Statuses
           /\ jobs[u] = NoJob <=> jobs[u].status = "absent"
<1>1. \A s \in Stages \ {"idle"} :
        Stored(s) \in {NewJob, Job("extracting", {}), Job("embedding", {"text"})}
  BY DEF Stages, Stored
<1>2. jobs[u] \in FinishedJobs \cup {NoJob, NewJob, Job("extracting", {}),
                                     Job("embedding", {"text"})}
  BY <1>1, JobCases
<1> QED
  BY <1>2 DEF FinishedJobs, NoJob, NewJob, Job, Statuses

LEMMA WatchedFacts ==
    ASSUME IInv, watched \in Uploads
    PROVE  /\ WatchedJob \in Shown \ {"unseen"}
           /\ WatchedJob = "missing" <=> jobs[watched] = NoJob
BY RecordFacts DEF WatchedJob, Shown, Statuses

RecordsValid ==
    \A u \in Uploads : /\ jobs[u].status \in Statuses
                       /\ jobs[u] = NoJob <=> jobs[u].status = "absent"

LEMMA RecordsAreValid == IInv => RecordsValid
BY RecordFacts DEF RecordsValid

LEMMA RecordsStayValid == IInv' => RecordsValid'
BY RecordsAreValid, PTL

\* Whoever is named by an answer has its document and its job.
LEMMA ToldHasJob ==
    ASSUME IInv, NEW d \in Told
    PROVE  d \in docs /\ jobs[d] # NoJob
<1>1. PICK u \in Uploads : d = reply[u] /\ answer[u] \in {"accepted", "reused"}
  BY DEF Told
<1>2. CASE answer[u] = "accepted"
  <2>1. d = u /\ u \in docs /\ step[u] = "answered"
    BY <1>1, <1>2 DEF IInv, AnswersAreHonest, Progress
  <2> QED
    BY <2>1 DEF IInv, RecordsResolve
<1>3. CASE answer[u] = "reused"
  BY <1>1, <1>3 DEF IInv, AnswersAreHonest
<1> QED
  BY <1>1, <1>2, <1>3

\* The repositories only grow.
LEMMA DocumentsStay ==
    ASSUME IInv, [Next]_vars
    PROVE  docs \subseteq docs'
<1>1. ASSUME NEW u \in Uploads, Receive(u) \/ Refuse(u) \/ Upload(u)
      PROVE  docs \subseteq docs'
  BY <1>1 DEF Receive, Refuse, Upload, FindDuplicate, FindNothing, Reuse,
              DuplicateWithoutJob, PutObject, PutFails, CreateDocument, CreateJob,
              SubmitQueued, SubmitFull, SubmitToWorker, repoVars
<1>2. ASSUME NEW w \in Workers, Worker(w)
      PROVE  docs \subseteq docs'
  BY <1>2 DEF Worker, TakeJob, StartExtract, ExtractOk, StartEmbed, EmbedOk, FailJob,
              LeavePool, Advance, uploadVars
<1>3. ASSUME Signal \/ HttpDrained \/ PoolDrained \/ PoolDeadline \/ ExitAtOnce
      PROVE  docs \subseteq docs'
  BY <1>3 DEF Signal, HttpDrained, PoolDrained, PoolDeadline, ExitAtOnce, restVars, uploadVars
<1>4. ASSUME UNCHANGED vars PROVE docs \subseteq docs'
  BY <1>4 DEF vars, repoVars
<1> QED
  BY <1>1, <1>2, <1>3, <1>4 DEF Next

\* The watched record moves up the order, and stays once it has ended.
LEMMA WatchedMoves ==
    ASSUME IInv, [Next]_vars, watched \in Uploads, watched' = watched
    PROVE  /\ Rank(WatchedJob) <= Rank(WatchedJob')
           /\ WatchedJob \in {"completed", "failed"} => WatchedJob' = WatchedJob
           /\ jobs[watched] # NoJob => jobs'[watched] # NoJob
<1>1. PICK s : s = jobs[watched].status
  OBVIOUS
<1>2. PICK t : t = jobs'[watched].status
  OBVIOUS
<1>3. IInv'
  BY NextIInv
<1>4. /\ jobs[watched] = NoJob <=> s = "absent"
      /\ jobs'[watched] = NoJob <=> t = "absent"
      /\ s \in Statuses /\ t \in Statuses
  <2>1. /\ jobs[watched] = NoJob <=> s = "absent"
        /\ s \in Statuses
    BY <1>1, RecordFacts
  <2>2. \A u \in Uploads : /\ jobs'[u] = NoJob <=> jobs'[u].status = "absent"
                           /\ jobs'[u].status \in Statuses
    BY <1>3, RecordsStayValid DEF RecordsValid
  <2> QED
    BY <1>2, <2>1, <2>2
<1>5. /\ WatchedJob = IF s = "absent" THEN "missing" ELSE s
      /\ WatchedJob' = IF t = "absent" THEN "missing" ELSE t
  BY <1>1, <1>2, <1>4 DEF WatchedJob
<1>6. s = t \/ <<s, t>> \in StatusSteps
  BY <1>1, <1>2, ForwardStep DEF Forward
<1>7. CASE s = t
  BY <1>4, <1>5, <1>7, Ranks DEF Statuses
<1>8. CASE <<s, t>> \in StatusSteps
  BY <1>4, <1>5, <1>8, Ranks DEF StatusSteps
<1> QED
  BY <1>6, <1>7, <1>8
--------------------------------------------------------------------------------
LEMMA ViewInitially == ViewInit => VInv
<1> SUFFICES ASSUME ViewInit PROVE VInv
  OBVIOUS
<1>1. IInv
  BY InitIInv DEF ViewInit
<1>2. jobs[watched] = NoJob /\ watched \in Uploads /\ shown = "unseen"
  BY DEF ViewInit, Init
<1>3. NotAhead
  BY <1>2, Ranks DEF NotAhead, WatchedJob
<1> QED
  BY <1>1, <1>2, <1>3 DEF ViewInit, VInv, Shown, ToldIsListed

\* The requests that read leave the service alone.
LEMMA ReadersStep ==
    ASSUME VInv, UNCHANGED <<vars, watched>>
    PROVE  /\ IInv' /\ UNCHANGED <<docs, jobs, Told>>
           /\ shown' \in {shown, WatchedJob} => NotAhead'
<1>1. UNCHANGED <<docs, jobs, answer, reply>>
  BY DEF vars, repoVars, replyVars
<1>2. IInv'
  BY NextIInv DEF VInv
<1>3. UNCHANGED <<WatchedJob, Told>>
  BY <1>1 DEF WatchedJob, Told
<1>4. Rank(WatchedJob) \in Nat
  BY WatchedFacts, Ranks DEF VInv, Shown, Statuses
<1>5. ASSUME shown' \in {shown, WatchedJob} PROVE NotAhead'
  <2>1. PICK s : s = shown'
    OBVIOUS
  <2>2. PICK j : j = WatchedJob
    OBVIOUS
  <2>3. NotAhead' <=> Rank(s) <= Rank(j) /\ (s \in {"completed", "failed"} => s = j)
    BY <1>3, <2>1, <2>2 DEF NotAhead, Rank, InOrder
  <2>4. Rank(s) <= Rank(j) /\ (s \in {"completed", "failed"} => s = j)
    BY <1>4, <1>5, <2>1, <2>2 DEF VInv, NotAhead
  <2> QED
    BY <2>3, <2>4
<1> QED
  BY <1>1, <1>2, <1>3, <1>5

LEMMA ViewStep == VInv /\ [ViewNext]_allVars => VInv'
<1> SUFFICES ASSUME VInv, [ViewNext]_allVars PROVE VInv'
  OBVIOUS
<1>1. CASE ReadDocuments
  <2>1. UNCHANGED <<vars, watched>>
    BY <1>1 DEF ReadDocuments
  <2>2. told' => watched \in docs /\ jobs[watched] # NoJob
    BY <1>1, ToldHasJob DEF ReadDocuments, VInv
  <2> QED
    BY <1>1, <2>1, <2>2, ReadersStep DEF ReadDocuments, VInv, ToldIsListed
<1>2. CASE GetLatestJob
  <2>1. UNCHANGED <<vars, watched>>
    BY <1>2 DEF GetLatestJob
  <2> QED
    BY <1>2, <2>1, ReadersStep, WatchedFacts DEF GetLatestJob, VInv, ToldIsListed
<1>3. CASE ListJobs
  <2>1. UNCHANGED <<vars, watched>>
    BY <1>3 DEF ListJobs
  <2> QED
    BY <1>3, <2>1, ReadersStep, WatchedFacts DEF ListJobs, VInv, ToldIsListed
<1>4. CASE Respond
  <2>1. UNCHANGED <<vars, watched>>
    BY <1>4 DEF Respond
  <2> QED
    BY <1>4, <2>1, ReadersStep DEF Respond, VInv, ToldIsListed
<1>5. CASE [Next]_vars /\ UNCHANGED viewVars
  <2>1. IInv'
    BY <1>5, NextIInv DEF VInv
  <2>2. UNCHANGED <<watched, view, listed, told, shown>>
    BY <1>5 DEF viewVars
  <2>3. /\ Rank(WatchedJob) <= Rank(WatchedJob')
        /\ WatchedJob \in {"completed", "failed"} => WatchedJob' = WatchedJob
        /\ jobs[watched] # NoJob => jobs'[watched] # NoJob
    BY <1>5, <2>2, WatchedMoves DEF VInv
  <2>4. docs \subseteq docs'
    BY <1>5, DocumentsStay DEF VInv
  <2>5. NotAhead'
    <3>1. Rank(shown)' = Rank(shown) /\ Rank(WatchedJob)' = Rank(WatchedJob')
      BY <2>2 DEF Rank, InOrder
    <3>2. /\ Rank(shown) \in Nat /\ Rank(WatchedJob) \in Nat /\ Rank(WatchedJob') \in Nat
      <4>1. WatchedJob \in Shown /\ WatchedJob' \in Shown /\ shown \in Shown
        <5>1. WatchedJob' \in Shown
          BY <2>1, <2>2, RecordsStayValid DEF RecordsValid, VInv, WatchedJob, Shown, Statuses
        <5> QED
          BY <5>1, WatchedFacts DEF VInv
      <4> QED
        BY <4>1, Ranks DEF Shown, Statuses
    <3> QED
      BY <2>2, <2>3, <3>1, <3>2 DEF VInv, NotAhead
  <2> QED
    BY <2>1, <2>2, <2>3, <2>4, <2>5 DEF VInv, ToldIsListed
<1> QED
  BY <1>1, <1>2, <1>3, <1>4, <1>5 DEF ViewNext, allVars

LEMMA VInvHolds == ViewSpec => []VInv
BY ViewInitially, ViewStep, PTL DEF ViewSpec

\* A document a client was told of is in every list and count that is begun later, with
\* its job (handlers/documents.go, handlers/admin.go).
THEOREM ToldIsAlwaysListed == ViewSpec => []ToldIsListed
<1>1. VInv => ToldIsListed
  BY DEF VInv
<1> QED
  BY <1>1, VInvHolds, PTL

\* Polling a job never shows a step back, a change after its end, or its disappearance.
THEOREM PollsOnlyMoveForward == ViewSpec => PollsMoveForward
<1>1. VInv /\ [ViewNext]_allVars => [shown' # shown => Rank(shown) < Rank(shown')]_allVars
  <2> SUFFICES ASSUME VInv, ViewNext, shown' # shown
               PROVE  Rank(shown) < Rank(shown')
    OBVIOUS
  <2>1. shown' = WatchedJob
    BY DEF ViewNext, ReadDocuments, GetLatestJob, ListJobs, Respond, viewVars
  <2>2. WatchedJob \in Shown /\ shown \in Shown /\ NotAhead
    BY WatchedFacts DEF VInv
  <2> QED
    BY <2>1, <2>2, Ranks DEF NotAhead, Shown, Statuses
<1> QED
  BY <1>1, VInvHolds, PTL DEF ViewSpec, PollsMoveForward
================================================================================
