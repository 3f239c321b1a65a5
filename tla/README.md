# A TLA+ model of the financial-ai-platform

The platform has two programs. **gateway-go** (Go) serves HTTP: accounts, document
uploads, search, questions answered as an event stream, administration. **ml-service**
(Python, gRPC) extracts text, chunks and embeds it, searches and generates answers. This
directory models the parts in which several goroutines, coroutines or requests meet, checks
the models with TLC and proves the main results with TLAPS.

Paths below are relative to the repository. `service.go` is
`gateway-go/internal/ingestion/service.go`, `pool.go` is `gateway-go/internal/worker/pool.go`,
`main.go` is `gateway-go/cmd/gateway/main.go`, `rag.go` is `gateway-go/internal/handlers/rag.go`.

## 1. Inventory

| Component | State | Operations | Talks to | What is hard | What makes it correct |
|---|---|---|---|---|---|
| Worker pool (`internal/worker`) | channel, goroutines | Submit, Stop, worker loop, context | ingestion | select among receive, close and cancel; full buffer; draining | no accepted item lost, doubled or shared; Stop drains; Submit never blocks |
| Ingestion service (`internal/ingestion/service.go`) | none of its own; a job copy per worker | Upload, processJob, lookups | repositories, store, pool, ml-service | uploads of one content overlap; a failure between two calls; copies of job records | repositories agree; status tells what happens; accepted means finished |
| Repositories (`memory_repository.go`) | documents by id and hash, jobs by id and document | Create, Update, Find, ListAll | ingestion, admin | each call atomic, sequences of calls not | a hash resolves to a document, a document to a job |
| Object store (`internal/storage`) | files | Put, Open | ingestion, ml-service | truncated file after a failed write | a recorded document has its whole file |
| Gateway process (`main.go`, `internal/httpserver`) | listeners, workers' context | start, signal, shutdown | all | order of shutdown, one deadline for two waits | nobody submits to a closed pool; a clean end loses nothing |
| ml-service client (`internal/mlclient`) | one goroutine per Query | ExtractDocument, ChunkAndEmbed, Search, Query | ml-service | the Query goroutine sends on an unbuffered channel | every goroutine ends; events in order, final last |
| RAG endpoint (`rag.go`) | one stream per request | Query, Summarize | client, conversation memory | client leaves; final event before turns are stored | a finished answer is in the next history, once |
| Conversation memory (`internal/conversation`, `internal/scheduler`) | turns per session | AppendTurns, History, PruneOlderThan | RAG endpoint | interleaved questions, pruning, cap of 20 | turns in pairs, newest kept |
| Search endpoint and cache (`handlers/search.go`, `internal/cache`) | answers by key, with expiry | Search; Get, Set | client | stale answers, key collisions, zero TTL, 32-bit top_k | an answer belongs to its key and is no older than the TTL |
| Rate limiter (`internal/ratelimit`) | token bucket per client address | Allow | every route | buckets created and used under concurrency | burst plus refill never exceeded |
| Accounts (`internal/auth`) | users by id and address | Register, SeedAdmin, Login, token checks | every route | concurrent registrations | one account per address, roles as issued |
| Admin views (`handlers/admin.go`) | none | lists and counts | repositories | lists read one after the other | what a client was told of is listed |
| Vector store (`ml-service/app/embeddings/vector_store.py`) | vectors, records, two lookup tables, two files | upsert, delete, search, load | embedding and search services | crash between two files; one chunk per hash; a read after the unlock | tables agree; what was saved is loaded |
| Embedding service, keyword index | texts, dirty flag | ChunkAndEmbed, Delete | vector store | two indexes changed in two steps; client timeout | the indexes hold the same chunks |
| Retrieval | none | retrieve, fuse | both indexes | two lookups and a resolution, others in between | answers complete and free of ghosts |
| Chunker | none (pure) | chunk | | boundaries | all of the text, in order, within the budget |
| RAG service, extraction, evaluation, language model clients | none | Query, Summarize, Extract, Evaluate | vector store, libraries | libraries and text | out of scope as text processing |
| Configuration, readiness, logging, metrics, deployment | none | | | | |

`PROJECT.json` lists the same components with their sources, and each hazard at its line.

## 2. How the project is built

Each row was modelled, checked and then proved before the next: first what can lose a user's
document, then what serves it.

| Part | Abstract promise | Model | Composed with | Proofs |
|---|---|---|---|---|
| Pool | `BoundedWork` | `WorkerPool` | | `WorkerPoolProofs` |
| Ingestion | | `Ingestion` | instance of `WorkerPool` | `IngestionProofs` |
| Polls and lists | | `DocumentViews` | extends `Ingestion` | `IngestionProofs` |
| Conversations | `ConversationStore` | `Turns`, `MemoryConversations`, `RedisConversations`, `Conversations` | both stores behind one choice | `ConversationProofs` |
| Questions | | `RagStream` | instance of `ConversationStore` | `RagProofs` |
| Vector store | `ChunkMap` | `VectorStore` | | `VectorStoreProofs` |
| Embedding, keyword index, search | | `Chunker`, `EmbeddingService` | instance of `ChunkMap` | `ChunkerProofs`, `EmbeddingProofs` |
| HTTP interface | | `ApiClock`, `RateLimiter`, `Accounts`, `SearchCache`, `Api` | the four in one request | `ApiProofs` |

A component that others use is taken by them as its abstract promise, which the component is
separately shown, and proved, to implement: the RAG handler sees `ConversationStore` and not
two stores, the embedding service sees `ChunkMap` and not ids and files. The `MC` modules only
give values to constants.

What is left, in order of worth: the gateway's embedding call composed with
`EmbeddingService` across restarts of either process; ranking and filters in retrieval;
deadlines of the ml-service client as times rather than failures.

## 3. The modules and the code

Operators commented *faulty variant* are what a plausible mistake in the code would look
like; no specification uses them. Each property is violated when one of them replaces the
definition it varies (`mutants` in `PROJECT.json`).

### BoundedWork, WorkerPool

`WorkerPool` is `pool.go`. The Go channel is the sequence `queue` of at most `QueueSize`
items with the flag `closed`; a goroutine is `held[w]` (the item inside `p.process`) and
membership in `exited`; `cancelled` is the context of `Start`; `stopping` is where the call
of `Stop` is. `accepted` and `done` are history: what Submit returned nil for, and what has
been processed.

| Action | Code |
|---|---|
| `Submit`, `Handoff`, `QueueFull` | the select of `Submit`: buffered, handed to a parked goroutine, default |
| `Take`, `Finish`, `WorkerExit` | the select of `runWorker`, the return of `process` |
| `Cancel` | the context ends |
| `StopBegin`, `StopDrained`, `StopDeadline` | `close`, `wg.Wait`, the deadline of `Stop` |

When both cases of a select are ready, both actions are enabled, as Go chooses at random.
A send on a closed channel panics: `Submit` and `Handoff` require `~closed`, and that no
caller runs into it is an invariant of `Ingestion` (`NoSendOnClosedQueue`), not of the pool.

`BoundedWork` is what callers rely on: an item waits, runs once, finishes, and neither
limit is exceeded. `WorkerPool` implements it with `waiting <- Queued`,
`running <- Running`, `finished <- done`.

### Ingestion, DocumentViews

One value of `Uploads` is one request; because each mints its own ids it also names the
document and the job it creates. `step[u]` says which call of `Upload` comes next. Every
repository method holds its mutex, so each call is one action and anything may happen
between two. `content` stands for the SHA-256, `docType` for the type resolved from name and
category.

| Action | Code |
|---|---|
| `Receive`, `Refuse` | handler and type checks, body read and hashed, or an error answer |
| `FindDuplicate`, `FindNothing` | `FindByContentHash` |
| `Reuse`, `DuplicateWithoutJob` | `FindLatestByDocumentID` of the duplicate, 200 or 500 |
| `PutObject`, `PutFails` | `store.Put`, which may leave a truncated file |
| `CreateDocument`, `CreateJob` | the two `Create` calls |
| `SubmitQueued`, `SubmitToWorker`, `SubmitFull` | `pool.Submit`: 202 or 503 |
| `TakeJob`, `StartExtract`, `ExtractOk`, `StartEmbed`, `EmbedOk`, `FailJob` | `processJob`, `extract`, `embed`, `failJob`; each `jobs.Update` overwrites the record with the worker's copy |
| `Signal`, `HttpDrained`, `PoolDrained`, `PoolDeadline`, `ExitAtOnce` | `main.go` from the signal on |

An RPC to ml-service is two actions apart from its call: it succeeds (`ExtractOk`,
`EmbedOk`) or fails for any reason including its timeout (`FailJob`). `jobs[u].has` is the
set of groups of fields that are filled in: extracted text, chunk counts, error.
The pool is `Pool == INSTANCE WorkerPool`; its context is never cancelled while the process
runs, because `main` cancels it as it returns. A process that was stopped or killed takes no
further step: its memory is gone.

`DocumentViews` adds the requests that read: `GetDocument` (the document, then its latest
job) and the administrator's lists and statistics (all documents, then all jobs). Reading
changes nothing, so following one such request and one document at a time covers any number.

### Turns, ConversationStore, the two stores, Conversations

`Turns` is the pair of turns a request appends and the cut to the newest
`MaxTurns = 2 * MaxPairs`. `ConversationStore` promises that a history is the newest turns
appended, and is forgotten only after `MaxAge` without an append. `MemoryConversations` is
`memory_store.go` under the prune job: `Fire` computes the cutoff, `PruneOlderThan` gets the
mutex up to `MaxLag` later. Times are ages, so nothing grows without bound.
`RedisConversations` is one transaction per append (`Exec`), whose reply may be lost
(`AppendUnanswered`), and native expiry. `Conversations` is the choice `main.go` makes
between them, and carries both to the one promise.

### RagStream

`pc[r]` is where the handler of `RAGHandlers.Query` is, `reader[r]` the goroutine of
`Client.Query`. The channel is unbuffered, so `TakeToken`, `TakeFinal` and `TakeError` are
steps of both. What the handler writes reaches the client at `Flush`, where gin's `c.Stream`
flushes after each step; `CheckClient` is where it looks for a client that has gone, which is
the only place. `PersistTurns` stores the pair while the final event is still in the
response's buffer. `ClientLeaves` cancels the context, after which `Recv` fails
(`RecvCancelled`). ml-service yields tokens, then one final message, then ends, or fails.

### ChunkMap, VectorStore

`FaissVectorStore` with its five tables and two files. `Upsert` and `DeleteByDocument` change
the tables in one step under the lock; the save that follows under the same lock goes file by
file (`WriteIndex`, `OpenMetadata`, `WriteMetadata`), and the file being rewritten is `Torn`
meanwhile. `Search` holds the lock for the neighbours, `ReadRecords` reads the records
without it. `Stop` waits for a save unless `CanCrash`; `Start` loads both files, and is not
enabled when one is torn, because `_load` then raises. Equal texts have equal vectors, so a
content hash stands for the vector. `ChunkMap` is a set of chunks that grows by batches,
shrinks by documents and survives restarts.

### Chunker, EmbeddingService

`Chunker` is the algorithm of `chunking.py` over sentences of numbered letters, so that a
chunk tells which part of the text it is; what lies between them is the plain space, at which
alone `_overlap_tail` snaps (`find(" ")`), or other white space, which `strip()` removes as
well. Its loops are recursive functions. `IsText` says
what the two regular expressions make of a document: paragraphs of sentences that begin and
end with a letter, the letters numbered without a gap. `Excerpts` is the reference: the chunks
have all letters, each is an excerpt without a gap within the budget and the overlap, and goes
on where the one before ended or overlaps it by at most `Overlap` letters. `EmbeddingService` is the two servicers and the
keyword index, await by await: each await hands one method of an index to a thread, which is
one action. `BreakOff` and `BreakOffDeletion` are the RPC of a client that gave up.
`SearchTexts` rebuilds the ranking when it is dirty, `Resolve` fetches the record of each
match, in between which other calls run. `Restart` keeps what the vector store keeps and
rebuilds the keyword index from it. `must` and `may` are history variables: the chunks that
were complete all through a search, and those that were stored at some moment of it.

### ApiClock, RateLimiter, Accounts, SearchCache, Api

`Api` is `httpserver/routes.go`: a request is admitted by the limiter and then runs the
handler of its route. The limiter finds the bucket of the client's address under its mutex
(`FindBucket`) and takes a token after releasing it (`TakeToken`). `Accounts` holds users by
id and by normalized address; registration hashes the password before `Create` looks the
address up and inserts under one lock; a login reads a copy of the account (`Find`), then
verifies the password and issues a token (`Issue`). A password stands for its bcrypt hash and
a token for the login that issued it. `SearchCache` is both caches: in memory an expired
entry is dropped by the read that finds it, Redis drops it by itself and may fail. An entry
stands for the search whose answer it is.

## 4. The runs

| Run | Bounds | What it shows |
|---|---|---|
| `pool` | 4 items, 2 workers, buffer 1 | `Placement` (each accepted item in exactly one place), a Stop that returned nil has drained and is quiet, `BoundedWork` is implemented, accepted items are processed, Stop returns |
| `ingestion` | 3 uploads, 2 contents, 2 workers, queue 1, one reader, symmetry | the invariants of `Ingestion`, `StatusMovesForward`, and `ToldIsListed`, `PollsMoveForward` for readers |
| `ingestion_live` | 3 uploads, 1 content, 1 worker, queue 1 | `AcceptedIsFinished`, `ShutdownEnds`, `UploadIsAnswered` |
| `conversations` | 2 sessions, 4 questions, cap of 2 pairs, age 2, lag 1 | whole histories, both stores implement `ConversationStore`, abandoned sessions go |
| `rag_stream` | 2 questions, 2 sessions, cap of 1 pair, 2 tokens | `OnlyWholeAnswers`, `FollowUpSeesAnswer`, `LeavingEndsTheHandler` |
| `vector_store` | 4 chunks of 2 documents sharing both texts, batches of 2, 2 neighbours, ids up to 5 | `TablesAgree`, `HitsAreTrue`, `ChunkMap` is implemented, with stops that let a save end |
| `embedding` | 2 calls for 2 documents, chunk size 4, overlap 2, 1 search; texts of up to 4 words | `IndexesAgree`, `AnswersAreSound`, `ChunksCoverText` |
| `api` | 3 requests, 2 clients, 3 addresses, 2 passwords, 2 keys, burst 2, 3 instants, symmetry | `WindowBudget`, `RegistrationsHold`, `AnswersAreFresh` |
| `ingestion_dedup` | 2 uploads, 1 content | violated: `OneDocumentPerContent` |
| `ingestion_retry` | 3 uploads, 2 contents, 1 worker, queue 1 | violated: `RetriedUploadIsProcessed` |
| `rag_leak` | 1 question, 1 token | violated: `ChannelCloses` |
| `vector_crash` | as `vector_store`, with kills | violated: `EmbeddingsSurviveRestart` |

Why the bounds suffice. *Pool and ingestion*: two workers can be busy with one item buffered
and one refused or waiting at the same time; three uploads of one content can be at three
different calls, and both ways to submit and both ends of the queue occur with a queue of
one. *Conversations*: four questions overflow a cap of two pairs in either session, and an
age of two with a lag of one lets a session be used between cutoff and prune on both sides of
the limit. *RAG*: two questions in one session or two, where the second displaces the first
(cap of one pair), and where two tokens let the client leave before, between and after them;
history is empty, then full. *Vector store*: documents that share texts hand a hash entry
over in both directions; six ids allow two deletions with ids reused by nobody.
*Embedding*: one call for each document, of up to two and one chunks, against a
deletion of either document, a search in any mode and restarts; `SmallTexts` has every text
of up to four words of lengths 1, 2 and 6 with every placing of paragraph and sentence
breaks and, between words, a space, another white character or a run of six of both, against
a budget of 4 and an overlap of 2, so that units end before, at and after both.
*Api*: a client can use up a burst of two and be refilled; two registrations of one address
in two spellings meet, with a login; two searches share a key while its entry lives and
lapses, with lifetimes 0 and 1 in both caches; `MCScenarios` leaves out only mixes of routes
that share no state.

Bounds on counters: `MaxTokens`, `MaxLag` and `OldAge`, `MaxIds`, `MaxChunks`, `MaxTime`.
Every request, upload, question and call happens once. Symmetry is used in `ingestion` and
`api`, where no constant of the permuted sets is singled out and no liveness is checked.
Deadlock checking is off because the systems end: items done and Stop returned, every request
answered, ids or instants used up.

**Fairness.** `WorkerPool!Fairness` lets each goroutine run and the select in `Stop` notice
that all have left. Callers, the deadline and the context owe nothing. `Ingestion`: a started
handler runs on (nothing in `Upload` waits for another party), a worker runs on
(both RPCs carry a timeout, two and three minutes), `main` notices that Shutdown or Stop has
returned. Arrivals, the signal and the deadline are not fair. `ShutdownEnds` therefore does
not rely on the deadline: it holds because the workers drain the queue. `UploadIsAnswered`
has only the handlers fair, to show that a stuck ml-service does not hold an upload request.
`Conversations`: time passes, the ticker fires and the prune job gets the mutex, until it is
cancelled. `RagStream!FairSpec`: handlers run, and a `Recv` whose context is done returns,
which is what gRPC promises; ml-service owes nothing. `AnsweringSpec`, used to refute
`ChannelCloses`, even lets ml-service answer everything to the end.

**What the violated runs found.**

* *Overlapping uploads of one content* (`ingestion_dedup`). Lookup and creation are two calls
  with the write of the file in between; two requests both miss and both create a document.
  gateway-go/README.md:284 promises that "a duplicate upload reuses the existing document and
  never touches ml-service again". `RecordsResolve` shows what is kept: every lookup still
  resolves, to the later document.
* *Retry after 503* (`ingestion_retry`). Upload has created document and job when the queue
  turns out to be full, and leaves them. The client is told to retry; the retry finds the
  document by its hash and gets 200 with a job that is pending for ever.
* *A goroutine that never ends* (`rag_leak`). The goroutine of `Client.Query` hands events
  over on an unbuffered channel without looking at the context. When the client has left, or
  the handler has returned after the final event before the end of the stream was read and an
  event is still to come, nobody receives and the channel that `client.go:184` says is closed
  stays open.
* *A kill during a save* (`vector_crash`). Both files are rewritten in place, one after the
  other. A process killed in between leaves a file that cannot be read, or an index and
  metadata of two different saves, and chunks saved long before are lost, where
  `vector_store.py:75` says that embeddings survive a restart.

Seen while modelling, and not given a run: with a lifetime of zero `config.go:72` says caching
is disabled, but Redis takes zero to mean that the entry never expires (`AnswersAreFresh`
leaves this case out by name); the limiter's key is the client's address on every route,
where `config.go` speaks of authenticated users.

## 5. What is proved

For every value of the constants, without bounds:

| Module | Theorems |
|---|---|
| `WorkerPoolProofs` | `TypeCorrect`, `PlacementHolds`, `StopDrains`, `StopQuiets`, `PoolImplementsBoundedWork` |
| `IngestionProofs` | `ServiceUsesPool`, `JobsAreBoundedWork`, `TypeCorrect`, `RecordsResolveHolds`, `AnswersHold`, `NoSendOnClosed`, `JobsAreAccountedFor`, `FieldsAgree`, `CleanStopFinishes`, `DuplicatesReuseUnlessTheyOverlap`, `StatusOnlyForward`; of `DocumentViews`: `ToldIsAlwaysListed`, `PollsOnlyMoveForward` |
| `ConversationProofs` | `TypesCorrect`, `HistoriesHold`, `StoresImplementConversationStore` |
| `RagProofs` | `TypesCorrect`, `WholeAnswers`, `FollowUps`, `HandlersUseStore` |
| `VectorStoreProofs` | `TypesCorrect`, `TablesAlwaysAgree`, `HitsAlwaysTrue`, `StoreImplementsChunkMap`, `EmbeddingsSurviveStops`, each when `CanCrash = FALSE` |
| `ChunkerProofs` | `ChunkIsFaithful` |
| `EmbeddingProofs` | `TypesCorrect`, `IndexesAlwaysAgree`, `AnswersAlwaysSound`, `ChunksAlwaysCoverText`, `ServiceUsesStore` |
| `ApiProofs` | `TypesCorrect`, `WindowBudgetAlways`, `RegistrationsAlwaysHold`, `AnswersAlwaysFresh` |

All safety properties of the passing runs are among them: every invariant, every action
property and every refinement. Two more say how far the findings reach.
`DuplicatesReuseUnlessTheyOverlap`: if no two uploads of one content are inside `Upload` at the
same time, no content gets two documents, so that the overlap is the whole cause.
`EmbeddingsSurviveStops`: as long as no save is cut short, what was saved is in both files.
And the compositions hold as promised: the service is used and behaves as its pool
(`ServiceUsesPool`, `JobsAreBoundedWork`), RAG handlers and embedding service do nothing to
their stores that `ConversationStore` and `ChunkMap` do not allow (`HandlersUseStore`,
`ServiceUsesStore`), which the stores are proved to implement.

Assumptions are the named `ASSUME`s of the modules: bounds are natural numbers, the value for
"none" is not a value, `DocumentOf` is a function, sets that are counted are finite,
`Seed` is no request's id, the overlap is less than the chunk size (`Chunker.__init__` raises
otherwise), and what is embedded is a text in the sense of `IsText`. `PoolImplementsBoundedWork`
and `JobsAreBoundedWork` are stated for a finite set of workers. Two theorems need more. `StopDrains` and `CleanStopFinishes` need at
least one worker, and the code does not enforce that: `config.go` accepts
`GATEWAY_INGESTION_WORKERS=0`, and such a pool accepts items into its buffer, drains at once
and loses them. (No run has an empty set of workers; the hazard at `pool.go:47` names no
property.) The theorems on the vector store need `CanCrash = FALSE`; without it they are
false, as `vector_crash` shows.

**The pool.** `Placement` is not inductive: a worker may leave while the buffer holds items if
nothing rules it out, and `Stop` may then return. `Inv` adds that without a cancelled context
a worker has left only a closed and empty channel (`ExitMeansEmpty`), which stays so since
nothing can be sent any more; that an exited worker holds nothing; that a drained Stop means
all have exited; and that only Stop closes. The lemmas before it say what Append and Tail do
to the set of a sequence's elements and to its injectivity. The refinement needs two counting
lemmas: a buffer that is not full holds fewer than `QueueSize` distinct items, and if a worker
is idle fewer than all hold one.

**The service.** `ServiceUsesPool` maps each step to a step of the pool or a stutter, so
`WorkerPoolProofs!Inv` is instantiated, not proved again. `IInv` adds: `Progress`, what each
value of `step` implies; `JobRecords`, the record of a job that no worker holds; `WorkerJobs`,
the record and the worker's copy at each stage, which is what makes `FieldsMatchStatus`
survive the detour by way of the copy; and `ShutdownOrder`. `JobCases` then says every job is
finished, queued, with one worker or not accepted, and the remaining invariants follow case
by case. `ForwardStep` is what any step may do to a record; the readers' theorems need of the
service only that, `IInv`, and that documents stay: what was shown is never ahead of the
record (`NotAhead`), and a record that has ended is what was shown.

**Conversations.** `WholePairs` survives `Newest` because the cut leaves an even number of
turns (`MaxTurns` is even); that is arithmetic on the indices of an appended and cut sequence.
The refinement needs that the tables of a store have the same keys (`SameKeys`): a session the
prune job finds stale has been idle for `MaxAge` in the abstract store, however late the mutex
came, because its age has grown with the lag.

**Answers.** `Counted` relates what ml-service generated, what the goroutine holds and what
the handler has gathered; `Kept` says that only a handler past `PersistTurns` has its answer
stored, with everything flushed; `Told`, that an answer the client was told of is in its
session or the session is full of newer ones. The step that trims is the hard one: what
displaces an answer fills the whole history.

**The vector store.** `GoodTables` is stated for the tables in memory and for the contents of
the files alike, with `ByChunk` and `ByHash` derived from them; `Files` says which of the two
files already hold the tables of the save in progress, so that a clean stop, which waits for
the save, leaves two files of one state. Loading picks the last id of a hash or chunk, which
exists because a finite nonempty set of ids has a largest one. `HitsAreTrue` needs that ids
are never given out twice: `nextId` exceeds every id a search still holds. `EmbeddingsSurviveStops`
adds `Keeps`: what was kept is among the chunks the store shows, up or down.

**The two indexes.** `Placed` says in which index the chunks of a call are, by where the call
and the deletion of its document are; `Apart`, that calls and deletions that overlap have
disturbed their document; `Owed`, that a chunk an answer must have stays in both indexes;
`Found`, what a search has at each of its steps. `AnswersAreSound` then holds for stale
rankings too, since every match is resolved against the store.

**The HTTP interface.** `Budget` strengthens `WindowBudget` by the tokens left: in any window
up to now, what was admitted and what could be admitted at once are within burst and refill.
It is inductive because of `Limits`: a client has one bucket for good, and every request of the
client that is past the limiter's map holds that one. A window that ends later than now counts
what one that ends now does. `Registered` ties accounts, addresses and handlers together,
`Identified` tokens to the accounts whose password was given, `Cache` entries and answers to
searches that succeeded; `Stages` keeps each handler on its route.

**Jobs as work.** That a terminal record and a freed worker are one step makes the set of ended
jobs equal to `done`, and turns the pool's refinement into one of the service. For
`DuplicatesReuseUnlessTheyOverlap` the extra invariant is `Fresh`: an upload that has found
nothing has no document of its content beside it, since the one who could have created it
would be inside `Upload` too.

**The chunker.** `ChunkIsFaithful` is induction over the loops of `chunking.py`. `Induction` takes
the hypothesis as a set of numbers, and follows from the well-foundedness of finite intervals;
`Recursion` shows that a recursive function has the values its definition says, from which
`PackedIs`, `WholeIs` and `FlattenIs` unfold one round of a loop at a time. `Covers` says that
units continue one another, and is shown for a hard split, a sentence, a paragraph and a text;
`Run` says the same of finished chunks, up to the overlap, and `PackUnitKeeps` is the invariant
of the loop of `_pack`: the finished chunks are a run, the open one continues it, with its
length within budget and overlap. `TailIsEnd` and `TailContinues` are the boundary cases of
`_overlap_tail`; `StripKeeps` says that stripping drops no letter. `ChunksAlwaysCoverText` adds
that a batch on its way has as many chunks as some text was cut into.

Only model-checked: liveness (`AcceptedIsProcessed`, `StopReturns`, `AcceptedIsFinished`,
`ShutdownEnds`, `UploadIsAnswered`, `AbandonedIsForgotten`, `LeavingEndsTheHandler`), because
the prover reaches neither fairness nor ENABLED; and what the violated runs find, which is
a counterexample and not a theorem.

## 6. What is not modelled

* Parsers of document formats, prompts, language model clients, citations, evaluation
  metrics: text processing and floating-point arithmetic on one request's data.
* Logging, metrics, request ids, readiness, configuration parsing, deployment files and
  generated protocol code: they keep no state a property could be about.
* In the gateway: sizes and limits of bodies, times and identifiers, the layout of answers,
  the parsing of search parameters. A cache key stands for the parameters joined into it, so
  that two searches whose parameters join to one key, and a `top_k` cut to 32 bits, are
  outside the model (hazards at `handlers/search.go`). `golang.org/x/time/rate` is external
  and taken to read the clock and take its token in one step.
* In ml-service: scores and ranking, metadata filters and the cut to `top_k`; the search of
  `EmbeddingService` takes all there is, and its properties speak of membership only.
* A restart of the gateway: its documents, jobs, hashes and sessions are in memory and gone,
  while files and embeddings stay. No statement of the code promises otherwise.
* The gateway and ml-service in one model: each sees the other as calls that answer or fail.
