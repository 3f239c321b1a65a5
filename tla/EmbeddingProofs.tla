---------------------------- MODULE EmbeddingProofs ----------------------------
(***************************************************************************)
(* Theorems about EmbeddingService, for any calls, documents, texts and    *)
(* searches: the two indexes hold the same chunks of every undisturbed     *)
(* document, and answers are sound.  Inv is inductive; it says of each     *)
(* chunk in which index it is while its call or its document's deletion is *)
(* at work, and of each search what it must have found by where it is.     *)
(***************************************************************************)
EXTENDS EmbeddingService, ChunkerProofs

\* Where a chunk is, by where its call and its document's deletion are.
Placed ==
    \A c \in Chunks :
        /\ call[c[1]] \in {"idle", "embedding"} => c \notin stored /\ c \notin texts
        /\ DocumentOf[c[1]] \notin disturbed =>
              /\ call[c[1]] = "indexing" => (c \in stored <=> c \in texts \/ c \in batch[c[1]])
              /\ call[c[1]] \in {"done", "broken"} =>
                    IF deletion[DocumentOf[c[1]]] = "keyword" THEN c \notin stored
                                                             ELSE (c \in stored <=> c \in texts)

Apart ==
    \A k \in Calls :
        DocumentOf[k] \notin disturbed /\ Running(k) => deletion[DocumentOf[k]] = "idle"

\* A chunk that an answer must have stays in both indexes.
Owed ==
    \A s \in Searches : \A c \in must[s] :
        /\ c \in stored /\ c \in texts
        /\ call[c[1]] = "done" /\ deletion[DocumentOf[c[1]]] = "idle"

Found ==
    \A s \in Searches :
        /\ IF query[s] = "idle" THEN hits[s] = {} ELSE stored \subseteq may[s]
        /\ hits[s] \subseteq may[s]
        /\ query[s] = "resolve" => must[s] \subseteq hits[s] \cup matches[s]
        /\ query[s] = "answer" => must[s] \subseteq hits[s]

Inv == TypeOK /\ Placed /\ Apart /\ Owed /\ Found
--------------------------------------------------------------------------------
LEMMA ChunkFacts ==
    /\ DocumentOf \in [Calls -> Documents]
    /\ \A c \in Chunks : /\ c[1] \in Calls /\ DocumentOf[c[1]] \in Documents
                         /\ c \in {c[1]} \X (1..MaxChunks[c[1]])
    /\ \A k \in Calls : \A c \in {k} \X (1..MaxChunks[k]) : c \in Chunks /\ c[1] = k
    /\ \A d \in Documents, c \in Chunks : c \in Of(d) <=> DocumentOf[c[1]] = d
    /\ \A d \in Documents : Of(d) \subseteq Chunks
<1>1. DocumentOf \in [Calls -> Documents]
  BY ServiceAssumption
<1>2. \A c \in Chunks : /\ c[1] \in Calls /\ DocumentOf[c[1]] \in Documents
                       /\ c \in {c[1]} \X (1..MaxChunks[c[1]])
  BY <1>1 DEF Chunks
<1>3. \A k \in Calls : \A c \in {k} \X (1..MaxChunks[k]) : c \in Chunks /\ c[1] = k
  BY DEF Chunks
<1>4. \A c \in Chunks : DocumentOfChunk[c] = DocumentOf[c[1]]
  BY DEF DocumentOfChunk
<1>5. \A d \in Documents : Of(d) = {c \in Chunks : DocumentOfChunk[c] = d}
  BY DEF Of, Store!ChunksOf
<1> QED
  BY <1>1, <1>2, <1>3, <1>4, <1>5

LEMMA Initially == Init => Inv
<1> SUFFICES ASSUME Init PROVE Inv
  OBVIOUS
<1>1. stored = {} /\ texts = {}
  BY DEF Init, Store!Init
<1>2. TypeOK
  BY <1>1 DEF Init, TypeOK, Modes
<1>3. Placed /\ Apart /\ Owed /\ Found
  BY <1>1, ChunkFacts DEF Init, Placed, Apart, Owed, Found, Running
<1> QED
  BY <1>2, <1>3 DEF Inv

\* A step that breaks a document's peace by overlapping records it.
LEMMA Disturbance ==
    ASSUME Disturb, NEW k \in Calls, DocumentOf[k] \notin disturbed', Running(k)',
           deletion \in [Documents -> {"idle", "store", "keyword"}]
    PROVE  DocumentOf[k] \notin disturbed /\ (deletion[DocumentOf[k]])' = "idle"
<1>1. DocumentOf[k] \in Documents
  BY ChunkFacts
<1> QED
  BY <1>1 DEF Disturb, Overlapping
--------------------------------------------------------------------------------
LEMMA ChunkAndEmbedStep ==
    ASSUME Inv, NEW k \in Calls, NEW n \in Lengths, ChunkAndEmbed(k, n)
    PROVE  Inv'
<1>1. /\ call[k] = "idle" /\ n \in 0..MaxChunks[k]
      /\ call' = [call EXCEPT ![k] = IF n = 0 THEN "done" ELSE "embedding"]
      /\ batch' = [batch EXCEPT ![k] = {k} \X (1..n)]
      /\ UNCHANGED <<indexVars, deletion, searchVars>>
      /\ Disturb
  BY DEF ChunkAndEmbed
<1>2. disturbed \subseteq disturbed' /\ disturbed' \subseteq disturbed \cup Documents
  BY <1>1 DEF Disturb
<1>3. TypeOK'
  <2>1. {k} \X (1..n) \subseteq {k} \X (1..MaxChunks[k])
    BY <1>1, ServiceAssumption
  <2>2. {k} \X (1..n) \subseteq Chunks
    BY <2>1, ChunkFacts
  <2>3. /\ batch' \in [Calls -> SUBSET Chunks]
        /\ \A j \in Calls : batch'[j] \subseteq {j} \X (1..MaxChunks[j])
    BY <1>1, <2>1, <2>2 DEF Inv, TypeOK
  <2> QED
    BY <1>1, <1>2, <2>3 DEF Inv, TypeOK, indexVars, searchVars
<1>4. Placed'
  BY <1>1, <1>2, ChunkFacts DEF Inv, TypeOK, Placed, indexVars
<1>5. Apart'
  BY <1>1, Disturbance DEF Apart, Inv, TypeOK
<1>6. Owed' /\ Found'
  BY <1>1, ChunkFacts DEF Inv, TypeOK, Owed, Found, indexVars, searchVars
<1> QED
  BY <1>3, <1>4, <1>5, <1>6 DEF Inv

LEMMA UpsertVectorsStep ==
    ASSUME Inv, NEW k \in Calls, UpsertVectors(k)
    PROVE  Inv'
<1>1. /\ call[k] = "embedding"
      /\ stored' = stored \cup batch[k]
      /\ call' = [call EXCEPT ![k] = "indexing"]
      /\ may' = [s \in Searches |-> IF query[s] = "idle" THEN {} ELSE may[s] \cup batch[k]]
      /\ UNCHANGED <<texts, ranked, dirty, batch, deletion, query, mode, matches, hits, must>>
      /\ Disturb
  BY DEF UpsertVectors, Store!Upsert
<1>2. disturbed \subseteq disturbed' /\ disturbed' \subseteq disturbed \cup Documents
  BY <1>1 DEF Disturb
<1>3. batch[k] \subseteq Chunks /\ \A c \in batch[k] : c[1] = k
  BY ChunkFacts DEF Inv, TypeOK
<1>4. TypeOK'
  BY <1>1, <1>2, <1>3 DEF Inv, TypeOK
<1>5. Placed'
  BY <1>1, <1>2, <1>3, ChunkFacts DEF Inv, TypeOK, Placed
<1>6. Apart'
  BY <1>1, Disturbance DEF Apart, Inv, TypeOK
<1>7. Owed'
  BY <1>1, ChunkFacts DEF Inv, TypeOK, Owed
<1>8. Found'
  BY <1>1 DEF Inv, TypeOK, Found
<1> QED
  BY <1>4, <1>5, <1>6, <1>7, <1>8 DEF Inv

LEMMA UpsertTextStep ==
    ASSUME Inv, NEW k \in Calls, NEW c \in Chunks, UpsertText(k, c)
    PROVE  Inv'
<1>1. /\ call[k] = "indexing" /\ c \in batch[k]
      /\ texts' = texts \cup {c} /\ dirty' = TRUE
      /\ batch' = [batch EXCEPT ![k] = @ \ {c}]
      /\ UNCHANGED <<stored, ranked, call, deletion, searchVars, disturbed>>
  BY DEF UpsertText
<1>2. c[1] = k
  BY <1>1, ChunkFacts DEF Inv, TypeOK
<1>3. TypeOK'
  BY <1>1 DEF Inv, TypeOK, searchVars
<1>4. Placed'
  BY <1>1, <1>2, ChunkFacts DEF Inv, TypeOK, Placed
<1>5. Apart'
  BY <1>1 DEF Inv, Apart, Running
<1>6. Owed' /\ Found'
  BY <1>1 DEF Inv, Owed, Found, searchVars
<1> QED
  BY <1>3, <1>4, <1>5, <1>6 DEF Inv

\* The call has put its whole batch into both indexes, or its document is disturbed.
LEMMA CompleteStep ==
    ASSUME Inv, NEW k \in Calls, Complete(k)
    PROVE  Inv'
<1>1. /\ call[k] = "indexing" /\ batch[k] = {}
      /\ call' = [call EXCEPT ![k] = "done"]
      /\ UNCHANGED <<indexVars, batch, deletion, searchVars, disturbed>>
  BY DEF Complete
<1>2. TypeOK'
  BY <1>1 DEF Inv, TypeOK, indexVars, searchVars
<1>3. Placed'
  <2> SUFFICES ASSUME NEW c \in Chunks, c[1] = k, DocumentOf[k] \notin disturbed
               PROVE  IF deletion[DocumentOf[k]] = "keyword" THEN c \notin stored
                                                            ELSE (c \in stored <=> c \in texts)
    BY <1>1, ChunkFacts DEF Inv, TypeOK, Placed, indexVars
  <2>1. deletion[DocumentOf[k]] = "idle"
    BY <1>1 DEF Inv, Apart, Running
  <2>2. c \in stored <=> c \in texts
    BY <1>1 DEF Inv, Placed
  <2> QED
    BY <2>1, <2>2
<1>4. Apart'
  BY <1>1 DEF Inv, TypeOK, Apart, Running
<1>5. Owed' /\ Found'
  BY <1>1, ChunkFacts DEF Inv, TypeOK, Owed, Found, indexVars, searchVars
<1> QED
  BY <1>2, <1>3, <1>4, <1>5 DEF Inv

LEMMA BreakOffStep ==
    ASSUME Inv, NEW k \in Calls, BreakOff(k)
    PROVE  Inv'
<1>1. /\ Running(k)
      /\ call' = [call EXCEPT ![k] = "broken"]
      /\ batch' = [batch EXCEPT ![k] = {}]
      /\ disturbed' = disturbed \cup {DocumentOf[k]}
      /\ UNCHANGED <<indexVars, deletion, searchVars>>
  BY DEF BreakOff
<1>2. TypeOK'
  <2>1. /\ batch' \in [Calls -> SUBSET Chunks]
        /\ \A j \in Calls : batch'[j] \subseteq {j} \X (1..MaxChunks[j])
    BY <1>1 DEF Inv, TypeOK
  <2>2. disturbed' \subseteq Documents
    <3>1. DocumentOf[k] \in Documents /\ disturbed \subseteq Documents
      BY ChunkFacts DEF Inv, TypeOK
    <3> QED
      BY <1>1, <3>1
  <2> QED
    <3>1. call' \in [Calls -> {"idle", "embedding", "indexing", "done", "broken"}]
      BY <1>1 DEF Inv, TypeOK
    <3>2. UNCHANGED <<stored, texts, ranked, dirty, deletion, query, mode, matches, hits, must, may>>
      BY <1>1 DEF indexVars, searchVars
    <3> QED
      BY <2>1, <2>2, <3>1, <3>2 DEF Inv, TypeOK
<1>3. Placed'
  BY <1>1, ChunkFacts DEF Inv, TypeOK, Placed, indexVars
<1>4. Apart'
  BY <1>1 DEF Inv, TypeOK, Apart, Running
<1>5. Owed'
  BY <1>1, ChunkFacts DEF Inv, TypeOK, Owed, indexVars, searchVars, Running
<1>6. Found'
  BY <1>1 DEF Inv, Found, indexVars, searchVars
<1> QED
  BY <1>2, <1>3, <1>4, <1>5, <1>6 DEF Inv
--------------------------------------------------------------------------------
LEMMA DeleteDocumentStep ==
    ASSUME Inv, NEW d \in Documents, DeleteDocumentEmbeddings(d)
    PROVE  Inv'
<1>1. /\ deletion[d] = "idle"
      /\ deletion' = [deletion EXCEPT ![d] = "store"]
      /\ must' = [s \in Searches |-> must[s] \ Of(d)]
      /\ UNCHANGED <<indexVars, call, batch, query, mode, matches, hits, may>>
      /\ Disturb
  BY DEF DeleteDocumentEmbeddings
<1>2. disturbed \subseteq disturbed' /\ disturbed' \subseteq disturbed \cup Documents
  BY <1>1 DEF Disturb
<1>3. TypeOK'
  BY <1>1, <1>2 DEF Inv, TypeOK, indexVars
<1>4. Placed'
  BY <1>1, <1>2, ChunkFacts DEF Inv, TypeOK, Placed, indexVars
<1>5. Apart'
  BY <1>1, Disturbance DEF Apart, Inv, TypeOK
<1>6. Owed'
  BY <1>1, ChunkFacts DEF Inv, TypeOK, Owed, indexVars
<1>7. Found'
  BY <1>1 DEF Inv, TypeOK, Found, indexVars
<1> QED
  BY <1>3, <1>4, <1>5, <1>6, <1>7 DEF Inv

\* No call for the document runs unless it is disturbed, so none of its chunks arrives
\* between the two deletions.
LEMMA DeleteVectorsStep ==
    ASSUME Inv, NEW d \in Documents, DeleteVectors(d)
    PROVE  Inv'
<1>1. /\ deletion[d] = "store"
      /\ stored' = stored \ Of(d)
      /\ deletion' = [deletion EXCEPT ![d] = "keyword"]
      /\ UNCHANGED <<texts, ranked, dirty, call, batch, searchVars, disturbed>>
  BY DEF DeleteVectors, Store!DeleteByDocument, Of
<1>2. TypeOK'
  BY <1>1 DEF Inv, TypeOK, searchVars
<1>3. Placed'
  <2> SUFFICES ASSUME NEW c \in Chunks
               PROVE  /\ call[c[1]] \in {"idle", "embedding"} => c \notin stored' /\ c \notin texts
                      /\ DocumentOf[c[1]] \notin disturbed =>
                         /\ call[c[1]] = "indexing" =>
                               (c \in stored' <=> c \in texts \/ c \in batch[c[1]])
                         /\ call[c[1]] \in {"done", "broken"} =>
                               IF deletion'[DocumentOf[c[1]]] = "keyword" THEN c \notin stored'
                               ELSE (c \in stored' <=> c \in texts)
    BY <1>1 DEF Placed
  <2>1. CASE DocumentOf[c[1]] = d
    <3>1. DocumentOf[c[1]] \notin disturbed => call[c[1]] # "indexing"
      BY <1>1, <2>1, ChunkFacts DEF Inv, Apart, Running
    <3> QED
      BY <1>1, <2>1, <3>1, ChunkFacts DEF Inv, TypeOK, Placed
  <2>2. CASE DocumentOf[c[1]] # d
    BY <1>1, <2>2, ChunkFacts DEF Inv, TypeOK, Placed
  <2> QED
    BY <2>1, <2>2
<1>4. Apart'
  BY <1>1 DEF Inv, TypeOK, Apart, Running
<1>5. Owed'
  BY <1>1, ChunkFacts DEF Inv, TypeOK, Owed, searchVars
<1>6. Found'
  BY <1>1 DEF Inv, Found, searchVars
<1> QED
  BY <1>2, <1>3, <1>4, <1>5, <1>6 DEF Inv

LEMMA DeleteTextsStep ==
    ASSUME Inv, NEW d \in Documents, DeleteTexts(d)
    PROVE  Inv'
<1>1. /\ deletion[d] = "keyword"
      /\ texts' = texts \ Of(d)
      /\ dirty' = (dirty \/ texts \cap Of(d) # {})
      /\ deletion' = [deletion EXCEPT ![d] = "idle"]
      /\ UNCHANGED <<stored, ranked, call, batch, searchVars, disturbed>>
  BY DEF DeleteTexts
<1>2. TypeOK'
  <2>1. dirty' \in BOOLEAN /\ (~dirty' => texts' = texts /\ ~dirty)
    BY <1>1 DEF Inv, TypeOK
  <2> QED
    BY <1>1, <2>1 DEF Inv, TypeOK, searchVars
<1>3. Placed'
  <2> SUFFICES ASSUME NEW c \in Chunks
               PROVE  /\ call[c[1]] \in {"idle", "embedding"} => c \notin stored /\ c \notin texts'
                      /\ DocumentOf[c[1]] \notin disturbed =>
                         /\ call[c[1]] = "indexing" =>
                               (c \in stored <=> c \in texts' \/ c \in batch[c[1]])
                         /\ call[c[1]] \in {"done", "broken"} =>
                               IF deletion'[DocumentOf[c[1]]] = "keyword" THEN c \notin stored
                               ELSE (c \in stored <=> c \in texts')
    BY <1>1 DEF Placed
  <2>1. CASE DocumentOf[c[1]] = d
    <3>1. DocumentOf[c[1]] \notin disturbed => call[c[1]] # "indexing"
      BY <1>1, <2>1, ChunkFacts DEF Inv, Apart, Running
    <3> QED
      BY <1>1, <2>1, <3>1, ChunkFacts DEF Inv, TypeOK, Placed
  <2>2. CASE DocumentOf[c[1]] # d
    BY <1>1, <2>2, ChunkFacts DEF Inv, TypeOK, Placed
  <2> QED
    BY <2>1, <2>2
<1>4. Apart'
  BY <1>1 DEF Inv, TypeOK, Apart, Running
<1>5. Owed'
  BY <1>1, ChunkFacts DEF Inv, TypeOK, Owed, searchVars
<1>6. Found'
  BY <1>1 DEF Inv, Found, searchVars
<1> QED
  BY <1>2, <1>3, <1>4, <1>5, <1>6 DEF Inv

LEMMA BreakOffDeletionStep ==
    ASSUME Inv, NEW d \in Documents, BreakOffDeletion(d)
    PROVE  Inv'
<1>1. /\ deletion[d] # "idle"
      /\ deletion' = [deletion EXCEPT ![d] = "idle"]
      /\ disturbed' = disturbed \cup {d}
      /\ UNCHANGED <<indexVars, call, batch, searchVars>>
  BY DEF BreakOffDeletion
<1>2. TypeOK'
  BY <1>1 DEF Inv, TypeOK, indexVars, searchVars
<1>3. Placed'
  BY <1>1, ChunkFacts DEF Inv, TypeOK, Placed, indexVars
<1>4. Apart'
  BY <1>1, ChunkFacts DEF Inv, TypeOK, Apart, Running
<1>5. Owed'
  BY <1>1, ChunkFacts DEF Inv, TypeOK, Owed, indexVars, searchVars
<1>6. Found'
  BY <1>1 DEF Inv, Found, indexVars, searchVars
<1> QED
  BY <1>2, <1>3, <1>4, <1>5, <1>6 DEF Inv
--------------------------------------------------------------------------------
\* What the steps of a search leave alone.
LEMMA SearchesLeave ==
    ASSUME Inv, UNCHANGED <<stored, texts, call, batch, deletion, disturbed>>
    PROVE  Placed' /\ Apart'
BY DEF Inv, Placed, Apart, Running

\* What must be found is, when the search begins, in both indexes.
LEMMA SearchStep ==
    ASSUME Inv, NEW s \in Searches, Search(s)
    PROVE  Inv'
<1>1. /\ query[s] = "idle"
      /\ must' = [must EXCEPT ![s] = Reported]
      /\ may' = [may EXCEPT ![s] = stored]
      /\ UNCHANGED <<indexVars, call, batch, deletion, matches, hits, disturbed>>
  BY DEF Search
<1>2. PICK m \in Modes : /\ mode' = [mode EXCEPT ![s] = m]
                        /\ query' = [query EXCEPT ![s] = IF m = "keyword" THEN "keyword" ELSE "vector"]
  BY DEF Search
<1>3. \A c \in Reported : /\ c \in Chunks /\ c \in stored /\ call[c[1]] = "done"
                          /\ deletion[DocumentOf[c[1]]] = "idle"
                          /\ DocumentOf[c[1]] \notin disturbed
  BY ChunkFacts DEF Reported
<1>4. \A c \in Reported : c \in texts
  BY <1>3 DEF Inv, Placed
<1>5. TypeOK'
  <2>1. Reported \in SUBSET Chunks
    BY <1>3
  <2>2. {matches, hits, must, may}' \subseteq [Searches -> SUBSET Chunks]
    BY <1>1, <2>1 DEF Inv, TypeOK
  <2>3. /\ query' \in [Searches -> {"idle", "vector", "keyword", "resolve", "answer"}]
        /\ mode' \in [Searches -> Modes]
    BY <1>2 DEF Inv, TypeOK
  <2>4. UNCHANGED <<stored, texts, ranked, dirty, call, batch, deletion, disturbed>>
    BY <1>1 DEF indexVars
  <2> QED
    BY <2>2, <2>3, <2>4 DEF Inv, TypeOK
<1>6. Placed' /\ Apart'
  BY <1>1, SearchesLeave DEF indexVars
<1>7. Owed'
  BY <1>1, <1>3, <1>4 DEF Inv, TypeOK, Owed, indexVars
<1>8. Found'
  BY <1>1, <1>2 DEF Inv, TypeOK, Found, indexVars
<1> QED
  BY <1>5, <1>6, <1>7, <1>8 DEF Inv

LEMMA SearchVectorsStep ==
    ASSUME Inv, NEW s \in Searches, SearchVectors(s)
    PROVE  Inv'
<1>1. /\ query[s] = "vector"
      /\ hits' = [hits EXCEPT ![s] = stored]
      /\ query' = [query EXCEPT ![s] = IF mode[s] = "semantic" THEN "answer" ELSE "keyword"]
      /\ UNCHANGED <<indexVars, call, batch, deletion, mode, matches, must, may, disturbed>>
  BY DEF SearchVectors
<1>2. TypeOK'
  <2>1. UNCHANGED <<stored, texts, ranked, dirty, call, batch, deletion, mode, matches,
                    must, may, disturbed>>
    BY <1>1 DEF indexVars
  <2>2. {matches, hits, must, may}' \subseteq [Searches -> SUBSET Chunks]
    BY <1>1 DEF Inv, TypeOK
  <2>3. query' \in [Searches -> {"idle", "vector", "keyword", "resolve", "answer"}]
    BY <1>1 DEF Inv, TypeOK
  <2> QED
    BY <2>1, <2>2, <2>3 DEF Inv, TypeOK
<1>3. Placed' /\ Apart'
  BY <1>1, SearchesLeave DEF indexVars
<1>4. Owed'
  BY <1>1 DEF Inv, Owed, indexVars
<1>5. must[s] \subseteq stored
  BY DEF Inv, Owed
<1>6. Found'
  BY <1>1, <1>5 DEF Inv, TypeOK, Found, indexVars
<1> QED
  BY <1>2, <1>3, <1>4, <1>6 DEF Inv

\* Every text is ranked: a ranking that is not rebuilt is up to date.
LEMMA SearchTextsStep ==
    ASSUME Inv, NEW s \in Searches, SearchTexts(s)
    PROVE  Inv'
<1>1. /\ query[s] = "keyword"
      /\ ranked' = texts /\ dirty' = FALSE
      /\ matches' = [matches EXCEPT ![s] = texts]
      /\ query' = [query EXCEPT ![s] = "resolve"]
      /\ UNCHANGED <<stored, texts, call, batch, deletion, mode, hits, must, may, disturbed>>
  BY DEF SearchTexts, Inv, TypeOK
<1>2. TypeOK'
  <2>1. {matches, hits, must, may}' \subseteq [Searches -> SUBSET Chunks]
    BY <1>1 DEF Inv, TypeOK
  <2>2. query' \in [Searches -> {"idle", "vector", "keyword", "resolve", "answer"}]
    BY <1>1 DEF Inv, TypeOK
  <2> QED
    BY <1>1, <2>1, <2>2 DEF Inv, TypeOK
<1>3. Placed' /\ Apart'
  BY <1>1, SearchesLeave
<1>4. Owed'
  BY <1>1 DEF Inv, Owed
<1>5. must[s] \subseteq texts
  BY DEF Inv, Owed
<1>6. Found'
  BY <1>1, <1>5 DEF Inv, TypeOK, Found
<1> QED
  BY <1>2, <1>3, <1>4, <1>6 DEF Inv

LEMMA ResolveStep ==
    ASSUME Inv, NEW s \in Searches, Resolve(s)
    PROVE  Inv'
<1>1. /\ query[s] = "resolve"
      /\ UNCHANGED <<indexVars, call, batch, deletion, query, mode, must, may, disturbed>>
  BY DEF Resolve
<1>2. PICK c \in matches[s] : /\ matches' = [matches EXCEPT ![s] = @ \ {c}]
                             /\ hits' = [hits EXCEPT ![s] = @ \cup ({c} \cap stored)]
  BY DEF Resolve
<1>3. TypeOK'
  <2>1. UNCHANGED <<stored, texts, ranked, dirty, call, batch, deletion, query, mode, must,
                    may, disturbed>>
    BY <1>1 DEF indexVars
  <2>2. {matches, hits, must, may}' \subseteq [Searches -> SUBSET Chunks]
    BY <1>1, <1>2 DEF Inv, TypeOK
  <2> QED
    BY <2>1, <2>2 DEF Inv, TypeOK
<1>4. Placed' /\ Apart'
  BY <1>1, SearchesLeave DEF indexVars
<1>5. Owed'
  BY <1>1 DEF Inv, Owed, indexVars
<1>6. must[s] \subseteq stored
  BY DEF Inv, Owed
<1>7. Found'
  BY <1>1, <1>2, <1>6 DEF Inv, TypeOK, Found, indexVars
<1> QED
  BY <1>3, <1>4, <1>5, <1>7 DEF Inv

LEMMA FuseStep ==
    ASSUME Inv, NEW s \in Searches, Fuse(s)
    PROVE  Inv'
<1>1. /\ query[s] = "resolve" /\ matches[s] = {}
      /\ query' = [query EXCEPT ![s] = "answer"]
      /\ UNCHANGED <<indexVars, call, batch, deletion, mode, matches, hits, must, may, disturbed>>
  BY DEF Fuse
<1>2. TypeOK'
  BY <1>1 DEF Inv, TypeOK, indexVars
<1>3. Placed' /\ Apart'
  BY <1>1, SearchesLeave DEF indexVars
<1>4. Owed' /\ Found'
  BY <1>1 DEF Inv, TypeOK, Owed, Found, indexVars
<1> QED
  BY <1>2, <1>3, <1>4 DEF Inv

LEMMA AnswerStep ==
    ASSUME Inv, NEW s \in Searches, Answer(s)
    PROVE  Inv'
<1>1. /\ query' = [query EXCEPT ![s] = "idle"]
      /\ mode' = [mode EXCEPT ![s] = "hybrid"]
      /\ matches' = [matches EXCEPT ![s] = {}]
      /\ hits' = [hits EXCEPT ![s] = {}]
      /\ must' = [must EXCEPT ![s] = {}]
      /\ may' = [may EXCEPT ![s] = {}]
      /\ UNCHANGED <<stored, texts, ranked, dirty, call, batch, deletion, disturbed>>
  BY DEF Answer, Forget, indexVars
<1>2. TypeOK'
  <2>1. {matches, hits, must, may}' \subseteq [Searches -> SUBSET Chunks]
    BY <1>1 DEF Inv, TypeOK
  <2>2. /\ query' \in [Searches -> {"idle", "vector", "keyword", "resolve", "answer"}]
        /\ mode' \in [Searches -> Modes]
    BY <1>1 DEF Inv, TypeOK, Modes
  <2> QED
    BY <1>1, <2>1, <2>2 DEF Inv, TypeOK
<1>3. Placed' /\ Apart'
  BY <1>1, SearchesLeave
<1>4. Owed'
  BY <1>1 DEF Inv, TypeOK, Owed
<1>5. Found'
  BY <1>1 DEF Inv, TypeOK, Found
<1> QED
  BY <1>2, <1>3, <1>4, <1>5 DEF Inv
--------------------------------------------------------------------------------
\* A restart takes the texts from the vector store, whatever it interrupts.
LEMMA RestartStep ==
    ASSUME Inv, Restart
    PROVE  Inv'
<1>1. TypeOK'
  BY DEF Restart, Inv, TypeOK, Modes
<1>2. Placed'
  <2> SUFFICES ASSUME NEW c \in Chunks
               PROVE  /\ (call[c[1]])' \in {"idle", "embedding"} => c \notin stored
                      /\ (call[c[1]])' # "indexing"
                      /\ (deletion[DocumentOf[c[1]]])' # "keyword"
    BY DEF Placed, Restart
  <2>1. c[1] \in Calls /\ DocumentOf[c[1]] \in Documents
    BY ChunkFacts
  <2>2. (call[c[1]])' = IF Running(c[1]) THEN "broken" ELSE call[c[1]]
    BY <2>1 DEF Restart
  <2> QED
    BY <2>1, <2>2 DEF Restart, Running, Inv, Placed
<1>3. Apart'
  BY ChunkFacts DEF Restart, Apart
<1>4. Owed' /\ Found'
  BY DEF Restart, Owed, Found
<1> QED
  BY <1>1, <1>2, <1>3, <1>4 DEF Inv

LEMMA Always ==
    ASSUME Inv, [Next]_vars
    PROVE  Inv'
<1>1. CASE \E k \in Calls : \E n \in Lengths : ChunkAndEmbed(k, n)
  BY <1>1, ChunkAndEmbedStep
<1>2. CASE \E k \in Calls : UpsertVectors(k)
  BY <1>2, UpsertVectorsStep
<1>3. CASE \E k \in Calls : Complete(k) \/ BreakOff(k)
  BY <1>3, CompleteStep, BreakOffStep
<1>4. CASE \E k \in Calls : \E c \in Chunks : UpsertText(k, c)
  BY <1>4, UpsertTextStep
<1>5. CASE \E d \in Documents : DeleteDocumentEmbeddings(d) \/ DeleteVectors(d)
  BY <1>5, DeleteDocumentStep, DeleteVectorsStep
<1>6. CASE \E d \in Documents : DeleteTexts(d) \/ BreakOffDeletion(d)
  BY <1>6, DeleteTextsStep, BreakOffDeletionStep
<1>7. CASE \E s \in Searches : Search(s) \/ SearchVectors(s) \/ SearchTexts(s)
  BY <1>7, SearchStep, SearchVectorsStep, SearchTextsStep
<1>8. CASE \E s \in Searches : Resolve(s) \/ Fuse(s) \/ Answer(s)
  BY <1>8, ResolveStep, FuseStep, AnswerStep
<1>9. CASE Restart
  BY <1>9, RestartStep
<1>10. CASE UNCHANGED vars
  <2>1. UNCHANGED <<stored, texts, ranked, dirty, call, batch, deletion, query, mode,
                    matches, hits, must, may, disturbed>>
    BY <1>10 DEF vars, indexVars, searchVars
  <2>2. TypeOK'
    BY <2>1 DEF Inv, TypeOK
  <2>3. Placed' /\ Apart' /\ Owed' /\ Found'
    BY <2>1, SearchesLeave DEF Inv, Owed, Found
  <2> QED
    BY <2>2, <2>3 DEF Inv
<1> QED
  BY <1>1, <1>2, <1>3, <1>4, <1>5, <1>6, <1>7, <1>8, <1>9, <1>10 DEF Next

LEMMA InvHolds == Spec => []Inv
<1>1. Inv /\ [Next]_vars => Inv'
  BY Always
<1> QED
  BY Initially, <1>1, PTL DEF Spec

\* The indexes, calls and searches keep their types, and a ranking that is not marked
\* dirty is of the texts there are.
THEOREM TypesCorrect == Spec => []TypeOK
<1>1. Inv => TypeOK
  BY DEF Inv
<1> QED
  BY InvHolds, <1>1, PTL

\* Embedding, deletion and restarts leave both indexes with the same chunks of every
\* document none of whose calls was broken off or overlapped another.
THEOREM IndexesAlwaysAgree == Spec => []IndexesAgree
<1>1. Inv => IndexesAgree
  <2> SUFFICES ASSUME Inv, NEW d \in Documents \ disturbed, deletion[d] = "idle",
                      \A k \in Calls : DocumentOf[k] = d => ~Running(k)
               PROVE  stored \cap Of(d) = texts \cap Of(d)
    BY DEF IndexesAgree
  <2>1. ASSUME NEW c \in Of(d) PROVE c \in stored <=> c \in texts
    <3>1. c \in Chunks /\ c[1] \in Calls /\ DocumentOf[c[1]] = d
      BY ChunkFacts
    <3>2. call[c[1]] \in {"idle", "done", "broken"}
      BY <3>1 DEF Inv, TypeOK, Running
    <3> QED
      BY <3>1, <3>2 DEF Inv, Placed
  <2> QED
    BY <2>1
<1> QED
  BY InvHolds, <1>1, PTL

\* In every mode an answer has what had been reported complete before the search and
\* nothing that was not stored during it.
THEOREM AnswersAlwaysSound == Spec => []AnswersAreSound
<1>1. Inv => AnswersAreSound
  BY DEF Inv, Found, AnswersAreSound
<1> QED
  BY InvHolds, <1>1, PTL
--------------------------------------------------------------------------------
(* What is embedded: Chunker's promise, and the batch that a call makes of it *)

LEMMA ChunksAreSequence ==
    ASSUME NEW text \in Texts
    PROVE  Len(Chunk(text)) \in Nat /\ Excerpts(Chunk(text), text)
<1>1. IsText(text)
  BY ServiceAssumption
<1>2. Run(Chunk(text), Size(text))
  BY <1>1, UnitsCover, PackRuns DEF Chunk
<1>3. Chunk(text) \in Seq(Strings)
  BY <1>2 DEF Run
<1> QED
  BY <1>1, <1>3, ChunkIsFaithful

LEMMA CountUp ==
    ASSUME NEW n \in Nat
    PROVE  IsFiniteSet(1..n) /\ Cardinality(1..n) = n
<1>1. IsFiniteSet(1..n) /\ Cardinality(1..n) = IF 1 > n THEN 0 ELSE n - 1 + 1
  BY FS_Interval
<1> QED
  BY <1>1

LEMMA EveryLengthFaithful == Lengths \subseteq Nat /\ Lengths = Faithful
<1> SUFFICES ASSUME NEW n \in Lengths PROVE n \in Nat /\ n \in Faithful
  BY DEF Faithful
<1>1. n \in Nat
  BY ChunksAreSequence DEF Lengths
<1>2. \A text \in Texts : Len(Chunk(text)) = n => Excerpts(Chunk(text), text)
  BY ChunksAreSequence
<1> QED
  BY <1>1, <1>2 DEF Faithful

\* A call that embeds has as many chunks as some text makes.
Batched ==
    \A k \in Calls : call[k] = "embedding" => \E n \in Lengths : batch[k] = {k} \X (1..n)

LEMMA BatchedStep ==
    ASSUME TypeOK, Batched, [Next]_vars
    PROVE  Batched'
<1> SUFFICES ASSUME NEW j \in Calls, (call[j])' = "embedding"
             PROVE  \E n \in Lengths : (batch[j])' = {j} \X (1..n)
  BY DEF Batched
<1>1. /\ call \in [Calls -> {"idle", "embedding", "indexing", "done", "broken"}]
      /\ batch \in [Calls -> SUBSET Chunks]
  BY DEF TypeOK
<1>2. SUFFICES ASSUME ~(call[j] = "embedding" /\ (batch[j])' = batch[j])
               PROVE  \E n \in Lengths : (batch[j])' = {j} \X (1..n)
  BY DEF Batched
<1>3. ASSUME NEW k \in Calls, NEW n \in Lengths, ChunkAndEmbed(k, n)
      PROVE  (batch[j])' = {j} \X (1..n)
  BY <1>1, <1>2, <1>3 DEF ChunkAndEmbed
<1>4. ASSUME NEW k \in Calls, UpsertVectors(k) \/ Complete(k) \/ BreakOff(k) PROVE FALSE
  BY <1>1, <1>2, <1>4 DEF UpsertVectors, Complete, BreakOff
<1>5. ASSUME NEW k \in Calls, NEW c \in Chunks, UpsertText(k, c) PROVE FALSE
  BY <1>1, <1>2, <1>5 DEF UpsertText
<1>6. ASSUME NEW d \in Documents,
             DeleteDocumentEmbeddings(d) \/ DeleteVectors(d) \/ DeleteTexts(d) \/ BreakOffDeletion(d)
      PROVE  FALSE
  BY <1>2, <1>6 DEF DeleteDocumentEmbeddings, DeleteVectors, DeleteTexts, BreakOffDeletion
<1>7. ASSUME NEW s \in Searches, Search(s) \/ SearchVectors(s) \/ SearchTexts(s) PROVE FALSE
  BY <1>2, <1>7 DEF Search, SearchVectors, SearchTexts
<1>8. ASSUME NEW s \in Searches, Resolve(s) \/ Fuse(s) \/ Answer(s) PROVE FALSE
  BY <1>2, <1>8 DEF Resolve, Fuse, Answer
<1>9. ASSUME Restart PROVE FALSE
  BY <1>1, <1>9 DEF Restart, Running
<1>10. ~UNCHANGED vars
  BY <1>2 DEF vars
<1> QED
  BY <1>3, <1>4, <1>5, <1>6, <1>7, <1>8, <1>9, <1>10 DEF Next

\* Whatever texts calls are given, what is embedded of each is all of it, in overlapping
\* excerpts within the budget: the promise of Chunker, for every batch on its way.
THEOREM ChunksAlwaysCoverText == Spec => []ChunksCoverText
<1>1. Init => Batched
  BY DEF Init, Batched
<1>2. Inv => TypeOK
  BY DEF Inv
<1>3. Batched => ChunksCoverText
  <2> SUFFICES ASSUME Batched, NEW k \in Calls, call[k] = "embedding"
               PROVE  Cardinality(batch[k]) \in Faithful
    BY DEF ChunksCoverText
  <2>1. PICK n \in Lengths : batch[k] = {k} \X (1..n)
    BY DEF Batched
  <2>2. n \in Nat /\ n \in Faithful
    BY EveryLengthFaithful
  <2>3. IsFiniteSet({k}) /\ Cardinality({k}) = 1
    BY FS_Singleton
  <2>4. IsFiniteSet(1..n) /\ Cardinality(1..n) = n
    BY <2>2, CountUp
  <2>5. Cardinality({k} \X (1..n)) = Cardinality({k}) * Cardinality(1..n)
    BY <2>3, <2>4, FS_Product
  <2> QED
    BY <2>1, <2>2, <2>3, <2>4, <2>5
<1> QED
  BY InvHolds, BatchedStep, <1>1, <1>2, <1>3, PTL DEF Spec

\* What the service does to the vector store is no more than it is promised: whole
\* batches in, whole documents out, kept across restarts.
THEOREM ServiceUsesStore == Spec => Store!Spec
<1>1. Init => Store!Init
  BY DEF Init
<1>2. ASSUME Inv, [Next]_vars PROVE [Store!Next]_stored
  <2> SUFFICES ASSUME stored' # stored PROVE Store!Next
    OBVIOUS
  <2>1. CASE \E k \in Calls : UpsertVectors(k)
    <3>1. PICK k \in Calls : Store!Upsert(batch[k])
      BY <2>1 DEF UpsertVectors
    <3>2. batch[k] \in SUBSET Chunks
      BY <1>2 DEF Inv, TypeOK
    <3> QED
      BY <3>1, <3>2 DEF Store!Next
  <2>2. CASE \E d \in Documents : DeleteVectors(d)
    BY <2>2 DEF DeleteVectors, Store!Next, Store!DeleteByDocument
  <2>3. ASSUME NEW k \in Calls, NEW n \in Lengths, ChunkAndEmbed(k, n) PROVE FALSE
    BY <2>3 DEF ChunkAndEmbed, indexVars
  <2>4. ASSUME NEW k \in Calls, Complete(k) \/ BreakOff(k) PROVE FALSE
    BY <2>4 DEF Complete, BreakOff, indexVars
  <2>5. ASSUME NEW k \in Calls, NEW c \in Chunks, UpsertText(k, c) PROVE FALSE
    BY <2>5 DEF UpsertText
  <2>6. ASSUME NEW d \in Documents,
               DeleteDocumentEmbeddings(d) \/ DeleteTexts(d) \/ BreakOffDeletion(d)
        PROVE  FALSE
    BY <2>6 DEF DeleteDocumentEmbeddings, DeleteTexts, BreakOffDeletion, indexVars
  <2>7. ASSUME NEW s \in Searches, Search(s) \/ SearchVectors(s) \/ SearchTexts(s) PROVE FALSE
    BY <2>7 DEF Search, SearchVectors, SearchTexts, indexVars
  <2>8. ASSUME NEW s \in Searches, Resolve(s) \/ Fuse(s) \/ Answer(s) PROVE FALSE
    BY <2>8 DEF Resolve, Fuse, Answer, indexVars
  <2>9. ~Restart /\ ~UNCHANGED vars
    BY DEF Restart, vars, indexVars
  <2> QED
    BY <1>2, <2>1, <2>2, <2>3, <2>4, <2>5, <2>6, <2>7, <2>8, <2>9 DEF Next
<1> QED
  BY InvHolds, <1>1, <1>2, PTL DEF Spec, Store!Spec
================================================================================
