--------------------------- MODULE EmbeddingService ---------------------------
(***************************************************************************)
(* EmbeddingService, SearchService and the two indexes they share:         *)
(* ml-service/app/servicers/embeddings.py and search.py,                   *)
(* app/search/keyword_index.py and retrieval.py, and what app/server.py    *)
(* does to them at start-up.                                               *)
(*                                                                         *)
(* The servicers are coroutines: they interleave at every await, each of   *)
(* which hands one method of an index to an executor thread and is one     *)
(* step here.  The vector store is taken as its promise ChunkMap, which    *)
(* VectorStore implements.  The RPC of a client that gives up is cancelled *)
(* at an await; a thread already running cannot be, so the coroutine is    *)
(* taken to end after it.                                                  *)
(***************************************************************************)
EXTENDS Chunker, FiniteSets

CONSTANTS Calls,       \* calls of ChunkAndEmbed
          Documents, DocumentOf,   \* the document a call is for
          Texts,       \* what the calls may be given to embed
          MaxChunks,   \* bound: chunks of the text a call is given
          Searches     \* calls of Search

ASSUME ServiceAssumption ==
    /\ DocumentOf \in [Calls -> Documents]
    /\ MaxChunks \in [Calls -> Nat]
    /\ \A text \in Texts : IsText(text)

\* How many chunks a text can have: as many as Chunk makes of it.
Lengths == {Len(Chunk(text)) : text \in Texts}

\* A chunk id is minted by the call and never used again (uuid4).
Chunks == UNION {{k} \X (1..MaxChunks[k]) : k \in Calls}
DocumentOfChunk == [c \in Chunks |-> DocumentOf[c[1]]]

VARIABLES
    stored,    \* the vector store
    texts,     \* KeywordIndex: the chunks of _texts and _document_by_chunk
    ranked,    \* KeywordIndex: the chunks _bm25 was built from
    dirty,     \* KeywordIndex: _dirty
    call,      \* call[k]: where ChunkAndEmbed is: idle, embedding, indexing, done, broken
    batch,     \* batch[k]: its chunks that the index it is at does not have yet
    deletion,  \* deletion[d]: DeleteDocumentEmbeddings: idle, store, keyword
    query,     \* query[s]: where Search is: idle, vector, keyword, resolve, answer
    mode,      \* mode[s]
    matches,   \* matches[s]: keyword matches whose record is still to be fetched
    hits,      \* hits[s]: chunks found
    must, may, \* history: chunks an answer of s has to contain, and those it may contain
    disturbed  \* history: documents with a broken-off or overlapping call since start-up

indexVars == <<stored, texts, ranked, dirty>>
searchVars == <<query, mode, matches, hits, must, may>>
vars == <<indexVars, call, batch, deletion, searchVars, disturbed>>

Store == INSTANCE ChunkMap WITH DocumentOf <- DocumentOfChunk

Modes == {"semantic", "keyword", "hybrid"}
Running(k) == call[k] \in {"embedding", "indexing"}
Of(d) == Store!ChunksOf(d)

Init ==
    /\ Store!Init
    /\ texts = {} /\ ranked = {} /\ dirty = TRUE
    /\ call = [k \in Calls |-> "idle"]
    /\ batch = [k \in Calls |-> {}]
    /\ deletion = [d \in Documents |-> "idle"]
    /\ query = [s \in Searches |-> "idle"]
    /\ mode = [s \in Searches |-> "hybrid"]
    /\ matches = [s \in Searches |-> {}]
    /\ hits = [s \in Searches |-> {}]
    /\ must = [s \in Searches |-> {}]
    /\ may = [s \in Searches |-> {}]
    /\ disturbed = {}

\* A document is being deleted and embedded at once.
Overlapping(d) == deletion[d] # "idle" /\ \E k \in Calls : Running(k) /\ DocumentOf[k] = d
Disturb == disturbed' = disturbed \cup {d \in Documents : Overlapping(d)'}
--------------------------------------------------------------------------------
(* ChunkAndEmbed *)

\* Chunking, and the awaits that look up vectors and run the model: they read only.
ChunkAndEmbed(k, n) ==
    /\ call[k] = "idle" /\ n \in 0..MaxChunks[k]
    /\ call' = [call EXCEPT ![k] = IF n = 0 THEN "done" ELSE "embedding"]
    /\ batch' = [batch EXCEPT ![k] = {k} \X (1..n)]
    /\ UNCHANGED <<indexVars, deletion, searchVars>>
    /\ Disturb

\* The whole batch enters the vector store.
UpsertVectors(k) ==
    /\ call[k] = "embedding"
    /\ Store!Upsert(batch[k])
    /\ call' = [call EXCEPT ![k] = "indexing"]
    /\ may' = [s \in Searches |-> IF query[s] = "idle" THEN {} ELSE may[s] \cup batch[k]]
    /\ UNCHANGED <<texts, ranked, dirty, batch, deletion, query, mode, matches, hits, must>>
    /\ Disturb

UpsertTextUnmarked(k, c) ==   \* faulty variant: the index is not marked dirty
    /\ call[k] = "indexing" /\ c \in batch[k]
    /\ texts' = texts \cup {c}
    /\ batch' = [batch EXCEPT ![k] = @ \ {c}]
    /\ UNCHANGED <<stored, ranked, dirty, call, deletion, searchVars, disturbed>>

\* keyword_index.upsert, one chunk at a time.
UpsertText(k, c) ==
    /\ call[k] = "indexing" /\ c \in batch[k]
    /\ texts' = texts \cup {c} /\ dirty' = TRUE
    /\ batch' = [batch EXCEPT ![k] = @ \ {c}]
    /\ UNCHANGED <<stored, ranked, call, deletion, searchVars, disturbed>>

\* The stage COMPLETE is reported to the caller.
Complete(k) ==
    /\ call[k] = "indexing" /\ batch[k] = {}
    /\ call' = [call EXCEPT ![k] = "done"]
    /\ UNCHANGED <<indexVars, batch, deletion, searchVars, disturbed>>

\* The caller's deadline passes, or a step raises.
BreakOff(k) ==
    /\ Running(k)
    /\ call' = [call EXCEPT ![k] = "broken"]
    /\ batch' = [batch EXCEPT ![k] = {}]
    /\ disturbed' = disturbed \cup {DocumentOf[k]}
    /\ UNCHANGED <<indexVars, deletion, searchVars>>
--------------------------------------------------------------------------------
(* DeleteDocumentEmbeddings *)

DeleteDocumentEmbeddings(d) ==
    /\ deletion[d] = "idle"
    /\ deletion' = [deletion EXCEPT ![d] = "store"]
    /\ must' = [s \in Searches |-> must[s] \ Of(d)]
    /\ UNCHANGED <<indexVars, call, batch, query, mode, matches, hits, may>>
    /\ Disturb

DeleteVectors(d) ==
    /\ deletion[d] = "store"
    /\ Store!DeleteByDocument(d)
    /\ deletion' = [deletion EXCEPT ![d] = "keyword"]
    /\ UNCHANGED <<texts, ranked, dirty, call, batch, searchVars, disturbed>>

DeleteTextsUnmarked(d) ==   \* faulty variant: only marks the index, removes nothing
    /\ deletion[d] = "keyword"
    /\ dirty' = TRUE
    /\ deletion' = [deletion EXCEPT ![d] = "idle"]
    /\ UNCHANGED <<stored, texts, ranked, call, batch, searchVars, disturbed>>

DeleteTexts(d) ==
    /\ deletion[d] = "keyword"
    /\ texts' = texts \ Of(d)
    /\ dirty' = (dirty \/ texts \cap Of(d) # {})
    /\ deletion' = [deletion EXCEPT ![d] = "idle"]
    /\ UNCHANGED <<stored, ranked, call, batch, searchVars, disturbed>>

BreakOffDeletion(d) ==
    /\ deletion[d] # "idle"
    /\ deletion' = [deletion EXCEPT ![d] = "idle"]
    /\ disturbed' = disturbed \cup {d}
    /\ UNCHANGED <<indexVars, call, batch, searchVars>>
--------------------------------------------------------------------------------
(* Search, and the retrieval of RAGService.Query: retrieval.py.  The query matches  *)
(* every chunk, and the pool is as large as the index.                              *)

Reported == UNION {Of(d) \cap {c \in stored : call[c[1]] = "done"} :
                     d \in {e \in Documents : deletion[e] = "idle" /\ e \notin disturbed}}

Search(s) ==
    /\ query[s] = "idle"
    /\ \E m \in Modes :
          /\ mode' = [mode EXCEPT ![s] = m]
          /\ query' = [query EXCEPT ![s] = IF m = "keyword" THEN "keyword" ELSE "vector"]
    /\ must' = [must EXCEPT ![s] = Reported]
    /\ may' = [may EXCEPT ![s] = stored]
    /\ UNCHANGED <<indexVars, call, batch, deletion, matches, hits, disturbed>>

\* store.search
SearchVectors(s) ==
    /\ query[s] = "vector"
    /\ hits' = [hits EXCEPT ![s] = stored]
    /\ query' = [query EXCEPT ![s] = IF mode[s] = "semantic" THEN "answer" ELSE "keyword"]
    /\ UNCHANGED <<indexVars, call, batch, deletion, mode, matches, must, may, disturbed>>

\* keyword_index.search rebuilds the ranking when it has to.
SearchTexts(s) ==
    /\ query[s] = "keyword"
    /\ ranked' = IF dirty THEN texts ELSE ranked
    /\ dirty' = FALSE
    /\ matches' = [matches EXCEPT ![s] = ranked']
    /\ query' = [query EXCEPT ![s] = "resolve"]
    /\ UNCHANGED <<stored, texts, call, batch, deletion, mode, hits, must, may, disturbed>>

ResolveUnchecked(s) ==   \* faulty variant: the match is trusted to be in the store
    /\ query[s] = "resolve"
    /\ \E c \in matches[s] :
          /\ matches' = [matches EXCEPT ![s] = @ \ {c}]
          /\ hits' = [hits EXCEPT ![s] = @ \cup {c}]
    /\ UNCHANGED <<indexVars, call, batch, deletion, query, mode, must, may, disturbed>>

\* _resolve_keyword_hits: a match counts only if the vector store has its record.
Resolve(s) ==
    /\ query[s] = "resolve"
    /\ \E c \in matches[s] :
          /\ matches' = [matches EXCEPT ![s] = @ \ {c}]
          /\ hits' = [hits EXCEPT ![s] = @ \cup ({c} \cap stored)]
    /\ UNCHANGED <<indexVars, call, batch, deletion, query, mode, must, may, disturbed>>

\* Fusion keeps every chunk of either ranking.
Fuse(s) ==
    /\ query[s] = "resolve" /\ matches[s] = {}
    /\ query' = [query EXCEPT ![s] = "answer"]
    /\ UNCHANGED <<indexVars, call, batch, deletion, mode, matches, hits, must, may, disturbed>>

Forget(s) ==
    /\ query' = [query EXCEPT ![s] = "idle"]
    /\ mode' = [mode EXCEPT ![s] = "hybrid"]
    /\ matches' = [matches EXCEPT ![s] = {}]
    /\ hits' = [hits EXCEPT ![s] = {}]
    /\ must' = [must EXCEPT ![s] = {}]
    /\ may' = [may EXCEPT ![s] = {}]

Answer(s) ==
    /\ query[s] = "answer"
    /\ Forget(s)
    /\ UNCHANGED <<indexVars, call, batch, deletion, disturbed>>
--------------------------------------------------------------------------------
\* The process ends, whatever it was doing, and _build_services builds the keyword
\* index from the vector store, which was loaded from disk.
Restart ==
    /\ texts' = stored /\ ranked' = {} /\ dirty' = TRUE
    /\ call' = [k \in Calls |-> IF Running(k) THEN "broken" ELSE call[k]]
    /\ batch' = [k \in Calls |-> {}]
    /\ deletion' = [d \in Documents |-> "idle"]
    /\ query' = [s \in Searches |-> "idle"]
    /\ matches' = [s \in Searches |-> {}] /\ hits' = [s \in Searches |-> {}]
    /\ must' = [s \in Searches |-> {}] /\ may' = [s \in Searches |-> {}]
    /\ disturbed' = {}
    /\ mode' = [s \in Searches |-> "hybrid"]
    /\ UNCHANGED stored

Next ==
    \/ \E k \in Calls :
          \/ \E n \in Lengths : ChunkAndEmbed(k, n)
          \/ UpsertVectors(k) \/ Complete(k) \/ BreakOff(k)
          \/ \E c \in Chunks : UpsertText(k, c)
    \/ \E d \in Documents : \/ DeleteDocumentEmbeddings(d) \/ DeleteVectors(d)
                            \/ DeleteTexts(d) \/ BreakOffDeletion(d)
    \/ \E s \in Searches : \/ Search(s) \/ SearchVectors(s) \/ SearchTexts(s)
                           \/ Resolve(s) \/ Fuse(s) \/ Answer(s)
    \/ Restart

Spec == Init /\ [][Next]_vars
--------------------------------------------------------------------------------
TypeOK ==
    /\ stored \subseteq Chunks /\ texts \subseteq Chunks /\ ranked \subseteq Chunks
    /\ dirty \in BOOLEAN /\ (~dirty => ranked = texts)
    /\ call \in [Calls -> {"idle", "embedding", "indexing", "done", "broken"}]
    /\ batch \in [Calls -> SUBSET Chunks]
    /\ \A k \in Calls : batch[k] \subseteq {k} \X (1..MaxChunks[k])
    /\ deletion \in [Documents -> {"idle", "store", "keyword"}]
    /\ query \in [Searches -> {"idle", "vector", "keyword", "resolve", "answer"}]
    /\ mode \in [Searches -> Modes]
    /\ {matches, hits, must, may} \subseteq [Searches -> SUBSET Chunks]
    /\ disturbed \subseteq Documents

\* The two indexes hold the same chunks of every document none of whose calls was
\* broken off or overlapped another since the service started: whatever else goes on,
\* one is not left with chunks the other has lost.
IndexesAgree ==
    \A d \in Documents \ disturbed :
        (deletion[d] = "idle" /\ \A k \in Calls : DocumentOf[k] = d => ~Running(k))
            => stored \cap Of(d) = texts \cap Of(d)

\* An answer has every chunk that had been reported complete when the search began
\* and was not being deleted since, in every mode; and no chunk that was never in the
\* vector store during the search, however stale the keyword index is.
AnswersAreSound ==
    \A s \in Searches : query[s] = "answer" => must[s] \subseteq hits[s] /\ hits[s] \subseteq may[s]

\* What is embedded of a text is all of it, in overlapping excerpts within the budget,
\* whatever text made as many chunks as the call has.
Faithful == {n \in Lengths :
    \A text \in Texts : Len(Chunk(text)) = n => Excerpts(Chunk(text), text)}
ChunksCoverText ==
    \A k \in Calls : call[k] = "embedding" => Cardinality(batch[k]) \in Faithful
================================================================================
