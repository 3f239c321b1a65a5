------------------------------ MODULE VectorStore ------------------------------
(***************************************************************************)
(* FaissVectorStore of ml-service/app/embeddings/vector_store.py, with its *)
(* two files.  Every method holds the lock, except that search() reads its *)
(* records after releasing it.  The tables change in one step; the save    *)
(* that follows under the same lock goes file by file, because the process *)
(* can stop in it.                                                         *)
(*                                                                         *)
(* A chunk's text never changes, so its content hash is a function of the  *)
(* chunk; equal texts have equal vectors, so the hash stands for the       *)
(* vector too.  faiss is external: a set of pairs of an id and a vector,   *)
(* which can hold two pairs of one id.                                     *)
(***************************************************************************)
EXTENDS Naturals, FiniteSets

CONSTANTS Chunks, Documents, DocumentOf,
          Hashes, HashOf,   \* the content hash of a chunk
          BatchSize,        \* bound: chunks in one upsert
          TopK,             \* neighbours a search asks for
          MaxIds,           \* bound: ids ever allocated
          CanCrash          \* whether the process may stop in the middle of a save

ASSUME StoreAssumption ==
    /\ IsFiniteSet(Chunks)
    /\ DocumentOf \in [Chunks -> Documents]
    /\ HashOf \in [Chunks -> Hashes]
    /\ BatchSize \in Nat /\ TopK \in Nat /\ MaxIds \in Nat
    /\ CanCrash \in BOOLEAN

VARIABLES
    up,         \* the process runs, with the store loaded
    index,      \* _index: pairs [id, vector]
    records,    \* _records: a function from ids to chunks
    idByChunk,  \* _id_by_chunk_id
    idByHash,   \* _id_by_content_hash
    nextId,     \* _next_id
    saving,     \* where the lock's holder is in _save, "free" when nobody holds it
    indexFile, metaFile,  \* index.faiss and metadata.json
    searching,  \* what a search has found and not read the records of yet: pairs of an
                \*   id and, for the property's sake, the chunk it stood for
    adding,     \* history: chunks of the upsert in progress
    kept        \* history: chunks whose upsert has returned and that no delete was for

tables == <<index, records, idByChunk, idByHash, nextId>>
files == <<indexFile, metaFile>>
history == <<adding, kept>>
vars == <<up, tables, saving, files, searching, history>>

\* A file that is not there, one cut off while being written, and one that holds x.
NoFile == [is |-> "none"]
Torn == [is |-> "torn"]
File(x) == [is |-> "whole", holds |-> x]

Ids == 0..MaxIds
Stored(rs) == {rs[id] : id \in DOMAIN rs}
Loadable == indexFile # Torn /\ metaFile # Torn

Cleared ==
    index' = {} /\ records' = <<>> /\ idByChunk' = <<>> /\ idByHash' = <<>> /\ nextId' = 0

Init ==
    /\ up = TRUE
    /\ index = {} /\ records = <<>> /\ idByChunk = <<>> /\ idByHash = <<>> /\ nextId = 0
    /\ saving = "free"
    /\ indexFile = NoFile /\ metaFile = NoFile
    /\ searching = {}
    /\ adding = {} /\ kept = {}
--------------------------------------------------------------------------------
(* upsert and delete_by_document, each up to its _save *)

Free == up /\ saving = "free"

NumberingsByCount(batch) ==   \* faulty variant: the next id is the number of records
    {ids \in [batch -> Ids] :
        {ids[c] : c \in batch} =
            Cardinality(DOMAIN records) .. (Cardinality(DOMAIN records) + Cardinality(batch) - 1)}

\* The ids the chunks of a batch get: its own for a chunk that is there, the next
\* ones for the others, in the order of the list.
Numberings(batch) ==
    LET fresh == batch \ DOMAIN idByChunk IN
    {ids \in [batch -> Ids] :
        /\ \A c \in batch \ fresh : ids[c] = idByChunk[c]
        /\ {ids[c] : c \in fresh} = nextId .. (nextId + Cardinality(fresh) - 1)}

Upsert(batch) ==
    /\ Free /\ batch # {}
    /\ \E ids \in Numberings(batch) :
          LET taken == {ids[c] : c \in batch}
              hashes == {HashOf[c] : c \in batch}
          IN  /\ index' = {e \in index : e.id \notin taken}
                            \cup {[id |-> ids[c], vector |-> HashOf[c]] : c \in batch}
              /\ records' = [id \in DOMAIN records \cup taken |->
                               IF id \in taken THEN CHOOSE c \in batch : ids[c] = id
                                               ELSE records[id]]
              /\ idByChunk' = [c \in DOMAIN idByChunk \cup batch |->
                                 IF c \in batch THEN ids[c] ELSE idByChunk[c]]
              /\ \E last \in [hashes -> batch] :
                    /\ \A h \in hashes : HashOf[last[h]] = h
                    /\ idByHash' = [h \in DOMAIN idByHash \cup hashes |->
                                      IF h \in hashes THEN ids[last[h]] ELSE idByHash[h]]
    /\ nextId' = nextId + Cardinality(batch \ DOMAIN idByChunk)
    /\ saving' = "index" /\ indexFile' = Torn
    /\ adding' = batch
    /\ UNCHANGED <<up, metaFile, searching, kept>>

IdsOf(d) == {id \in DOMAIN records : DocumentOf[records[id]] = d}

Without(f, keys) == [k \in DOMAIN f \ keys |-> f[k]]

DeleteHashKept(d) ==   \* faulty variant: the hash table is left alone
    /\ Free /\ IdsOf(d) # {}
    /\ index' = {e \in index : e.id \notin IdsOf(d)}
    /\ records' = Without(records, IdsOf(d))
    /\ idByChunk' = Without(idByChunk, {records[id] : id \in IdsOf(d)})
    /\ kept' = {c \in kept : DocumentOf[c] # d}
    /\ saving' = "index" /\ indexFile' = Torn
    /\ UNCHANGED <<up, idByHash, nextId, metaFile, searching, adding>>

\* A document without chunks is not saved again.  A hash entry that another chunk
\* has taken over stays.
DeleteByDocument(d) ==
    /\ Free /\ IdsOf(d) # {}
    /\ index' = {e \in index : e.id \notin IdsOf(d)}
    /\ records' = Without(records, IdsOf(d))
    /\ idByChunk' = Without(idByChunk, {records[id] : id \in IdsOf(d)})
    /\ idByHash' = Without(idByHash,
           {h \in DOMAIN idByHash : \E id \in IdsOf(d) :
                                       HashOf[records[id]] = h /\ idByHash[h] = id})
    /\ kept' = {c \in kept : DocumentOf[c] # d}
    /\ saving' = "index" /\ indexFile' = Torn
    /\ UNCHANGED <<up, nextId, metaFile, searching, adding>>
--------------------------------------------------------------------------------
(* _save, under the same lock: both files are rewritten in place, one after the other *)

WriteIndex ==
    /\ saving = "index"
    /\ indexFile' = File(index)
    /\ saving' = "open"
    /\ UNCHANGED <<up, tables, metaFile, searching, history>>

OpenMetadata ==
    /\ saving = "open"
    /\ metaFile' = Torn
    /\ saving' = "metadata"
    /\ UNCHANGED <<up, tables, indexFile, searching, history>>

\* The last step of a save, the release of the lock and the return to the caller.
WriteMetadata ==
    /\ saving = "metadata"
    /\ metaFile' = File([next_id |-> nextId, records |-> records])
    /\ saving' = "free"
    /\ kept' = kept \cup adding /\ adding' = {}
    /\ UNCHANGED <<up, tables, indexFile, searching>>
--------------------------------------------------------------------------------
(* search: the neighbours under the lock, then their records without it *)

Search ==
    /\ Free /\ searching = {} /\ index # {}
    /\ \E found \in SUBSET index :
          /\ \/ Cardinality(found) = TopK
             \/ Cardinality(found) < TopK /\ found = index
          /\ searching' = {[id |-> e.id, chunk |-> records[e.id]] :
                             e \in {f \in found : f.id \in DOMAIN records}}
    /\ UNCHANGED <<up, tables, saving, files, history>>

ReadRecords ==
    /\ searching # {}
    /\ searching' = {}
    /\ UNCHANGED <<up, tables, saving, files, history>>
--------------------------------------------------------------------------------
StopInSave ==   \* faulty variant: a stop does not wait for the thread that saves
    /\ up
    /\ up' = FALSE
    /\ Cleared
    /\ searching' = {} /\ adding' = {}
    /\ UNCHANGED <<saving, files, kept>>

\* The process stops: asked to, it finishes a save first; killed, it does not.
Stop ==
    /\ up /\ (CanCrash \/ saving = "free")
    /\ up' = FALSE
    /\ Cleared
    /\ saving' = "free" /\ searching' = {} /\ adding' = {}
    /\ UNCHANGED <<files, kept>>

LoadWithoutNextId ==   \* faulty variant: the counter starts again from 0
    IF NoFile \in {indexFile, metaFile} THEN Cleared
    ELSE /\ index' = indexFile.holds
         /\ records' = metaFile.holds.records
         /\ idByChunk' = [c \in Stored(records') |-> CHOOSE id \in DOMAIN records' : records'[id] = c]
         /\ idByHash' = <<>>
         /\ nextId' = 0

\* _load: nothing unless both files are there; the last record of a hash takes it.
Load ==
    IF NoFile \in {indexFile, metaFile} THEN Cleared
    ELSE LET rs == metaFile.holds.records
             latest(ids) == CHOOSE id \in ids : \A other \in ids : other <= id
         IN  /\ index' = indexFile.holds
             /\ records' = rs
             /\ idByChunk' = [c \in Stored(rs) |-> latest({id \in DOMAIN rs : rs[id] = c})]
             /\ idByHash' = [h \in {HashOf[c] : c \in Stored(rs)} |->
                               latest({id \in DOMAIN rs : HashOf[rs[id]] = h})]
             /\ nextId' = metaFile.holds.next_id

\* A file cut off makes _load raise, and the server does not come up.
Start ==
    /\ ~up /\ Loadable
    /\ up' = TRUE
    /\ Load
    /\ UNCHANGED <<saving, files, searching, history>>

Next ==
    \/ \E batch \in SUBSET Chunks : Cardinality(batch) <= BatchSize /\ Upsert(batch)
    \/ \E d \in Documents : DeleteByDocument(d)
    \/ WriteIndex \/ OpenMetadata \/ WriteMetadata
    \/ Search \/ ReadRecords
    \/ Stop \/ Start

Spec == Init /\ [][Next]_vars
--------------------------------------------------------------------------------
TypeOK ==
    /\ up \in BOOLEAN
    /\ \A e \in index : e.id \in Ids /\ e.vector \in Hashes
    /\ DOMAIN records \subseteq Ids /\ Stored(records) \subseteq Chunks
    /\ nextId \in 0..(MaxIds + 1)
    /\ saving \in {"free", "index", "open", "metadata"}
    /\ saving # "free" => up
    /\ adding \subseteq Chunks /\ kept \subseteq Chunks

\* The five tables tell one story: an id has one vector and one record, of the same
\* text; a chunk has one id; a hash entry leads to a vector that is there, so that
\* reusing it never raises and never returns another text's; no id is allocated twice.
TablesAgree ==
    /\ {e.id : e \in index} = DOMAIN records
    /\ \A e \in index : e.vector = HashOf[records[e.id]]
    /\ DOMAIN idByChunk = Stored(records)
    /\ \A c \in DOMAIN idByChunk : idByChunk[c] \in DOMAIN records /\ records[idByChunk[c]] = c
    /\ \A id \in DOMAIN records : idByChunk[records[id]] = id /\ id < nextId
    /\ \A h \in DOMAIN idByHash : /\ idByHash[h] \in DOMAIN records
                                  /\ HashOf[records[idByHash[h]]] = h

\* What search reads after it released the lock is the chunk it found or nothing,
\* whatever was upserted, replaced or deleted in between.
HitsAreTrue ==
    \A hit \in searching : hit.id \in DOMAIN records => records[hit.id] = hit.chunk

\* The store is a set of chunks, however it is numbered, saved and loaded again.
Map == INSTANCE ChunkMap WITH
    stored <- IF up THEN Stored(records)
              ELSE IF metaFile = NoFile THEN {} ELSE Stored(metaFile.holds.records)
ImplementsChunkMap == Map!Spec

\* vector_store.py, FaissVectorStore: "writes the index and metadata to disk after
\* every mutation and reloads them on construction, so embeddings survive a process
\* restart".  Violated when the process is killed during a save: both files are
\* rewritten in place.
EmbeddingsSurviveRestart ==
    \A c \in kept : ~up =>
        /\ Loadable /\ NoFile \notin {indexFile, metaFile}
        /\ \E id \in DOMAIN metaFile.holds.records :
              /\ metaFile.holds.records[id] = c
              /\ [id |-> id, vector |-> HashOf[c]] \in indexFile.holds
================================================================================
