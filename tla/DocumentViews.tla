----------------------------- MODULE DocumentViews -----------------------------
(***************************************************************************)
(* The requests that read what Ingestion writes: a client polling its      *)
(* document (handlers/documents.go GetDocument) and an administrator       *)
(* listing documents and jobs or counting them (handlers/admin.go).  Each  *)
(* reads the two repositories in separate calls, so uploads and workers    *)
(* move in between.  Reading changes nothing, so one request at a time is  *)
(* followed, and what it says of one document, any of them.                *)
(***************************************************************************)
EXTENDS Ingestion

VARIABLES
    watched,   \* the document that is followed
    view,      \* the request: idle, listed (documents are read), read (jobs too)
    listed,    \* the request found the document
    told,      \* history: a client had been told of the document before it began
    shown      \* history: what the reader was last shown of the document's job

viewVars == <<watched, view, listed, told, shown>>
allVars  == <<vars, viewVars>>

\* The documents whose id an upload was answered with.
Told == {reply[u] : u \in {v \in Uploads : answer[v] \in {"accepted", "reused"}}}

\* A document without a job is a 404 to its client and a zero-value status in
\* the administrator's list.
WatchedJob == IF jobs[watched] = NoJob THEN "missing" ELSE jobs[watched].status

ViewInit ==
    /\ Init
    /\ watched \in Uploads
    /\ view = "idle" /\ listed = FALSE /\ told = FALSE /\ shown = "unseen"
--------------------------------------------------------------------------------
\* GetDocument by its id, or ListDocuments, for the list or the statistics.
ReadDocuments ==
    /\ Alive
    /\ view = "idle"
    /\ view' = "listed"
    /\ listed' = (watched \in docs)
    /\ told' = (watched \in Told)
    /\ UNCHANGED <<vars, watched, shown>>

\* GetLatestJob: the job of a document that was read.
GetLatestJob ==
    /\ view = "listed" /\ listed
    /\ view' = "read"
    /\ shown' = WatchedJob
    /\ UNCHANGED <<vars, watched, listed, told>>

\* ListJobs: every job, also of documents created since.
ListJobs ==
    /\ view = "listed"
    /\ view' = "read"
    /\ shown' = IF listed \/ jobs[watched] # NoJob THEN WatchedJob ELSE shown
    /\ UNCHANGED <<vars, watched, listed, told>>

\* The answer is sent; a 404, when there is no document, too.
Respond ==
    /\ view = "read" \/ (view = "listed" /\ ~listed)
    /\ view' = "idle" /\ listed' = FALSE /\ told' = FALSE
    /\ UNCHANGED <<vars, watched, shown>>

ViewNext ==
    \/ ReadDocuments \/ GetLatestJob \/ ListJobs \/ Respond
    \/ Next /\ UNCHANGED viewVars

ViewSpec == ViewInit /\ [][ViewNext]_allVars
--------------------------------------------------------------------------------
\* A document somebody was told of before the request began is in every list
\* and count the request gives, and never without its job: Upload answers only
\* after both Create calls, and a duplicate only after its job was found.
ToldIsListed ==
    told => /\ view # "idle" => listed
            /\ view = "read" => shown # "missing"

\* Whoever polls never sees a job step back, change once it has ended, or
\* disappear (GetDocument and ListDocuments against processJob's updates).
InOrder == <<"unseen", "missing", "pending", "extracting", "embedding", "completed">>
Rank(s) == IF s = "failed" THEN 6 ELSE CHOOSE i \in 1..6 : InOrder[i] = s
PollsMoveForward == [][shown' # shown => Rank(shown) < Rank(shown')]_allVars
================================================================================
