--------------------------- MODULE VectorStoreProofs ---------------------------
(***************************************************************************)
(* Theorems about VectorStore, for any chunks, documents, hashes and       *)
(* numbers of ids, when the process is never killed in the middle of a     *)
(* save: the tables agree, also after every restart, a search never shows  *)
(* another chunk, and the store implements ChunkMap.  Inv is inductive.    *)
(***************************************************************************)
EXTENDS VectorStore, FiniteSetTheorems, WellFoundedInduction, TLAPS

\* What an index, records and a counter are to each other, in memory or in the files.
GoodTables(ix, rs, n) ==
    /\ \A e \in ix : e.id \in DOMAIN rs /\ e.vector = HashOf[rs[e.id]]
    /\ \A id \in DOMAIN rs : \E e \in ix : e.id = id
    /\ \A id \in DOMAIN rs : id \in Ids /\ id < n /\ rs[id] \in Chunks
    /\ \A i, j \in DOMAIN rs : rs[i] = rs[j] => i = j
    /\ n \in 0..(MaxIds + 1)

ByChunk ==
    /\ \A c \in DOMAIN idByChunk : idByChunk[c] \in DOMAIN records /\ records[idByChunk[c]] = c
    /\ \A id \in DOMAIN records : records[id] \in DOMAIN idByChunk

ByHash ==
    \A h \in DOMAIN idByHash : /\ idByHash[h] \in DOMAIN records
                               /\ HashOf[records[idByHash[h]]] = h

Tables == GoodTables(index, records, nextId) /\ ByChunk /\ ByHash

Empty == index = {} /\ records = <<>> /\ idByChunk = <<>> /\ idByHash = <<>> /\ nextId = 0

\* What the files hold, between saves and in them, and while the process is down.
Files ==
    /\ up /\ saving = "free" =>
         \/ Empty /\ indexFile = NoFile /\ metaFile = NoFile
         \/ /\ indexFile = File(index)
            /\ metaFile = File([next_id |-> nextId, records |-> records])
    /\ saving \in {"open", "metadata"} => indexFile = File(index)
    /\ ~up => \/ indexFile = NoFile /\ metaFile = NoFile
              \/ \E ix, rs, n : /\ GoodTables(ix, rs, n)
                                /\ indexFile = File(ix)
                                /\ metaFile = File([next_id |-> n, records |-> rs])

Hits ==
    \A hit \in searching : /\ hit.id \in Nat /\ hit.id < nextId
                           /\ hit.id \in DOMAIN records => records[hit.id] = hit.chunk

Control ==
    /\ up \in BOOLEAN
    /\ saving \in {"free", "index", "open", "metadata"}
    /\ ~up => saving = "free" /\ searching = {} /\ Empty
    /\ adding \subseteq Chunks /\ kept \subseteq Chunks

Inv == Tables /\ Files /\ Hits /\ Control
--------------------------------------------------------------------------------
LEMMA Bounds == MaxIds \in Nat /\ Ids = 0..MaxIds /\ IsFiniteSet(Chunks)
BY StoreAssumption DEF Ids

\* Files of the three kinds differ, and one that holds something holds just that.
LEMMA FileKinds ==
    /\ NoFile # Torn
    /\ \A x : File(x) # NoFile /\ File(x) # Torn /\ File(x).holds = x
    /\ \A x, y : File(x) = File(y) => x = y
<1>1. NoFile.is = "none" /\ Torn.is = "torn"
  BY DEF NoFile, Torn
<1>2. \A x : File(x).is = "whole" /\ File(x).holds = x
  BY DEF File
<1> QED
  BY <1>1, <1>2

\* A nonempty set of ids has a largest one.
LEMMA Largest ==
    ASSUME NEW S \in SUBSET Ids, S # {}
    PROVE  \E m \in S : \A other \in S : other <= m
<1> DEFINE R == StrictSubsetOrdering(Ids)
           T == {(id + 1) .. MaxIds : id \in S}
<1>1. T \subseteq FiniteSubsetsOf(Ids) /\ T # {}
  <2>1. \A id \in S : (id + 1) .. MaxIds \in SUBSET Ids
    BY Bounds
  <2>2. IsFiniteSet(Ids)
    BY Bounds, FS_Interval
  <2>3. \A t \in SUBSET Ids : IsFiniteSet(t)
    BY <2>2, FS_Subset
  <2> QED
    BY <2>1, <2>3 DEF FiniteSubsetsOf
<1>2. IsWellFoundedOn(R, FiniteSubsetsOf(Ids))
  BY FS_StrictSubsetOrderingWellFounded
<1>3. PICK x \in T : \A y \in T : ~(<<y, x>> \in R)
  <2> HIDE DEF T, R
  <2> QED
    BY <1>1, <1>2, WFMin
<1>4. PICK m \in S : x = (m + 1) .. MaxIds
  OBVIOUS
<1>5. \A other \in S : other <= m
  <2> SUFFICES ASSUME NEW other \in S, ~(other <= m) PROVE FALSE
    OBVIOUS
  <2>1. m \in 0..MaxIds /\ other \in 0..MaxIds
    BY Bounds
  <2> DEFINE y == (other + 1) .. MaxIds
  <2>2. y \in T /\ y \in SUBSET Ids /\ x \in SUBSET Ids
    BY <2>1, <1>4, Bounds
  <2>3. y \subseteq x
    BY <2>1, <1>4, Bounds
  <2>4. other \in x /\ other \notin y
    BY <2>1, <1>4, Bounds
  <2>5. <<y, x>> \in R
    <3> HIDE DEF y
    <3> QED
      BY <2>2, <2>3, <2>4 DEF StrictSubsetOrdering
  <2> QED
    BY <1>3, <2>2, <2>5
<1> QED
  BY <1>5

\* The ids of a batch are its chunks' own or new ones, no two the same, and the
\* counter goes past them.
LEMMA NumberingsDistinct ==
    ASSUME Tables, NEW batch \in SUBSET Chunks, NEW ids \in Numberings(batch),
           NEW n, n = nextId + Cardinality(batch \ DOMAIN idByChunk)
    PROVE  /\ ids \in [batch -> Ids]
           /\ n \in 0..(MaxIds + 1) /\ nextId <= n
           /\ \A c \in batch : IF c \in DOMAIN idByChunk THEN ids[c] = idByChunk[c]
                                                         ELSE nextId <= ids[c] /\ ids[c] < n
           /\ \A c, d \in batch : ids[c] = ids[d] => c = d
<1> DEFINE fresh == batch \ DOMAIN idByChunk
<1>1. PICK k : k = Cardinality(fresh)
  OBVIOUS
<1>2. IsFiniteSet(fresh) /\ k \in Nat
  <2>1. fresh \in SUBSET Chunks
    OBVIOUS
  <2> HIDE DEF fresh
  <2> QED
    BY <1>1, <2>1, Bounds, FS_Subset, FS_CardinalityType
<1>3. nextId \in Nat /\ nextId \in 0..(MaxIds + 1)
  BY Bounds DEF Tables, GoodTables
<1>4. /\ ids \in [batch -> Ids]
      /\ \A c \in batch \ fresh : ids[c] = idByChunk[c]
      /\ {ids[c] : c \in fresh} = nextId .. (nextId + k - 1)
  BY <1>1 DEF Numberings
<1>5. n = nextId + k
  BY <1>1
<1>6. \A c \in fresh : nextId <= ids[c] /\ ids[c] < n
  <2> SUFFICES ASSUME NEW c \in fresh PROVE nextId <= ids[c] /\ ids[c] < n
    OBVIOUS
  <2>1. ids[c] \in nextId .. (nextId + k - 1)
    BY <1>4
  <2> QED
    BY <1>2, <1>3, <1>5, <2>1
<1>7. n \in 0..(MaxIds + 1) /\ nextId <= n
  <2>1. CASE k = 0
    BY <1>3, <1>5, <2>1
  <2>2. CASE k # 0
    <3>1. nextId + k - 1 \in nextId .. (nextId + k - 1)
      BY <1>2, <1>3, <2>2
    <3>2. PICK c \in fresh : ids[c] = nextId + k - 1
      BY <1>4, <3>1
    <3>3. ids[c] \in 0..MaxIds
      BY <1>4, Bounds
    <3> QED
      BY <1>2, <1>3, <1>5, <3>2, <3>3, Bounds
  <2> QED
    BY <2>1, <2>2
<1>8. \A c, d \in fresh : ids[c] = ids[d] => c = d
  <2> DEFINE T == nextId .. (nextId + k - 1)
             f == [c \in fresh |-> ids[c]]
  <2>1. f \in Surjection(fresh, T)
    <3>1. f \in [fresh -> T]
      BY <1>4
    <3>2. \A t \in T : \E c \in fresh : f[c] = t
      BY <1>4
    <3> QED
      BY <3>1, <3>2 DEF Surjection
  <2>2. Cardinality(T) = k
    BY <1>2, <1>3, FS_Interval
  <2>3. f \in Injection(fresh, T)
    <3> HIDE DEF f, T, fresh
    <3> QED
      BY <1>1, <1>2, <2>1, <2>2, FS_Surjection
  <2> QED
    BY <2>3 DEF Injection, IsInjective
<1>9. \A c \in batch : IF c \in DOMAIN idByChunk THEN ids[c] = idByChunk[c]
                                                 ELSE nextId <= ids[c] /\ ids[c] < n
  BY <1>4, <1>6
<1>10. \A c \in batch \ fresh : ids[c] < nextId /\ records[ids[c]] = c
  BY <1>4 DEF Tables, ByChunk, GoodTables
<1>11. \A c, d \in batch : ids[c] = ids[d] => c = d
  <2> SUFFICES ASSUME NEW c \in batch, NEW d \in batch, ids[c] = ids[d] PROVE c = d
    OBVIOUS
  <2>1. CASE c \in fresh /\ d \in fresh
    BY <1>8, <2>1
  <2>2. CASE c \notin fresh /\ d \notin fresh
    BY <1>10, <2>2
  <2>3. CASE c \in fresh /\ d \notin fresh
    <3>1. nextId <= ids[c] /\ ids[d] < nextId /\ ids[c] \in Int
      BY <1>4, <1>6, <1>10, <2>3, Bounds
    <3> QED
      BY <1>3, <3>1
  <2>4. CASE c \notin fresh /\ d \in fresh
    <3>1. nextId <= ids[d] /\ ids[c] < nextId /\ ids[d] \in Int
      BY <1>4, <1>6, <1>10, <2>4, Bounds
    <3> QED
      BY <1>3, <3>1
  <2> QED
    BY <2>1, <2>2, <2>3, <2>4
<1> QED
  BY <1>4, <1>7, <1>9, <1>11
--------------------------------------------------------------------------------
\* What an upsert does to the tables, with the batch's ids in hand.
UpsertWith(batch, ids, taken) ==
    /\ ids \in [batch -> Ids]
    /\ taken = {ids[c] : c \in batch}
    /\ nextId' \in 0..(MaxIds + 1) /\ nextId <= nextId'
    /\ \A c \in batch : IF c \in DOMAIN idByChunk THEN ids[c] = idByChunk[c]
                                                  ELSE nextId <= ids[c] /\ ids[c] < nextId'
    /\ index' = {e \in index : e.id \notin taken}
                  \cup {[id |-> ids[c], vector |-> HashOf[c]] : c \in batch}
    /\ DOMAIN records' = DOMAIN records \cup taken
    /\ \A c \in batch : records'[ids[c]] = c
    /\ \A id \in DOMAIN records : records'[id] = records[id]
    /\ DOMAIN idByChunk' = DOMAIN idByChunk \cup batch
    /\ \A c \in DOMAIN idByChunk' :
          idByChunk'[c] = IF c \in batch THEN ids[c] ELSE idByChunk[c]
    /\ \A h \in DOMAIN idByHash' :
          \/ \E c \in batch : HashOf[c] = h /\ idByHash'[h] = ids[c]
          \/ h \in DOMAIN idByHash /\ idByHash'[h] = idByHash[h]

\* A chunk that is there keeps its id, and a new one gets an id nothing had.
LEMMA UpsertChange ==
    ASSUME Tables, NEW batch \in SUBSET Chunks, Upsert(batch)
    PROVE  \E ids, taken : UpsertWith(batch, ids, taken)
<1>1. PICK ids \in Numberings(batch) :
        LET taken == {ids[c] : c \in batch}
            hashes == {HashOf[c] : c \in batch}
        IN  /\ index' = {e \in index : e.id \notin taken}
                          \cup {[id |-> ids[c], vector |-> HashOf[c]] : c \in batch}
            /\ records' = [id \in DOMAIN records \cup taken |->
                             IF id \in taken THEN CHOOSE c \in batch : ids[c] = id
                                             ELSE records[id]]
            /\ idByChunk' = [c \in DOMAIN idByChunk \cup batch |->
                               IF c \in batch THEN ids[c] ELSE idByChunk[c]]
            /\ \E last \in [hashes -> batch] :
                  /\ \A h \in hashes : HashOf[last[h]] = h
                  /\ idByHash' = [h \in DOMAIN idByHash \cup hashes |->
                                    IF h \in hashes THEN ids[last[h]] ELSE idByHash[h]]
  BY DEF Upsert
<1>2. PICK taken : taken = {ids[c] : c \in batch}
  OBVIOUS
<1>3. nextId' = nextId + Cardinality(batch \ DOMAIN idByChunk)
  BY DEF Upsert
<1>4. /\ ids \in [batch -> Ids]
      /\ nextId' \in 0..(MaxIds + 1) /\ nextId <= nextId'
      /\ \A c \in batch : IF c \in DOMAIN idByChunk THEN ids[c] = idByChunk[c]
                                                    ELSE nextId <= ids[c] /\ ids[c] < nextId'
      /\ \A c, d \in batch : ids[c] = ids[d] => c = d
  BY <1>3, NumberingsDistinct
<1>5. /\ DOMAIN records' = DOMAIN records \cup taken
      /\ \A id \in DOMAIN records' :
            records'[id] = IF id \in taken THEN CHOOSE c \in batch : ids[c] = id
                                           ELSE records[id]
  BY <1>1, <1>2
<1>6. \A c \in batch : records'[ids[c]] = c
  <2> SUFFICES ASSUME NEW c \in batch PROVE records'[ids[c]] = c
    OBVIOUS
  <2>1. ids[c] \in taken /\ ids[c] \in DOMAIN records'
    BY <1>2, <1>5
  <2>2. records'[ids[c]] = CHOOSE d \in batch : ids[d] = ids[c]
    BY <1>5, <2>1
  <2>3. \A d \in batch : ids[d] = ids[c] => d = c
    BY <1>4
  <2> QED
    BY <2>2, <2>3
<1>7. \A id \in DOMAIN records : records'[id] = records[id]
  <2> SUFFICES ASSUME NEW id \in DOMAIN records PROVE records'[id] = records[id]
    OBVIOUS
  <2>1. CASE id \notin taken
    BY <1>5, <2>1
  <2>2. CASE id \in taken
    <3>1. PICK c \in batch : ids[c] = id
      BY <1>2, <2>2
    <3>2. id \in Nat /\ id < nextId /\ nextId \in Nat
      BY Bounds DEF Tables, GoodTables
    <3>3. c \in DOMAIN idByChunk /\ idByChunk[c] = id
      BY <1>4, <3>1, <3>2
    <3>4. records[id] = c
      BY <3>3 DEF Tables, ByChunk
    <3> QED
      BY <1>6, <3>1, <3>4
  <2> QED
    BY <2>1, <2>2
<1>8. /\ DOMAIN idByChunk' = DOMAIN idByChunk \cup batch
      /\ \A c \in DOMAIN idByChunk' :
            idByChunk'[c] = IF c \in batch THEN ids[c] ELSE idByChunk[c]
  BY <1>1
<1>9. \A h \in DOMAIN idByHash' :
        \/ \E c \in batch : HashOf[c] = h /\ idByHash'[h] = ids[c]
        \/ h \in DOMAIN idByHash /\ idByHash'[h] = idByHash[h]
  <2> DEFINE hashes == {HashOf[c] : c \in batch}
  <2>1. PICK last \in [hashes -> batch] :
          /\ \A h \in hashes : HashOf[last[h]] = h
          /\ idByHash' = [h \in DOMAIN idByHash \cup hashes |->
                            IF h \in hashes THEN ids[last[h]] ELSE idByHash[h]]
    BY <1>1
  <2> HIDE DEF hashes
  <2> QED
    BY <2>1
<1>10. index' = {e \in index : e.id \notin taken}
                  \cup {[id |-> ids[c], vector |-> HashOf[c]] : c \in batch}
  BY <1>1, <1>2
<1>11. UpsertWith(batch, ids, taken)
  BY <1>2, <1>4, <1>5, <1>6, <1>7, <1>8, <1>9, <1>10 DEF UpsertWith
<1> QED
  BY <1>11

LEMMA UpsertStep ==
    ASSUME Inv, NEW batch \in SUBSET Chunks, Upsert(batch)
    PROVE  Inv'
<1>1. PICK ids, taken : UpsertWith(batch, ids, taken)
  BY UpsertChange DEF Inv
<1>2. GoodTables(index', records', nextId')
  <2>1. \A e \in index' : e.id \in DOMAIN records' /\ e.vector = HashOf[records'[e.id]]
    <3> SUFFICES ASSUME NEW e \in index'
                 PROVE  e.id \in DOMAIN records' /\ e.vector = HashOf[records'[e.id]]
      OBVIOUS
    <3>1. CASE e \in index
      BY <1>1, <3>1 DEF UpsertWith, Inv, Tables, GoodTables
    <3>2. CASE e \notin index
      <4>1. PICK c \in batch : e = [id |-> ids[c], vector |-> HashOf[c]]
        BY <1>1, <3>2 DEF UpsertWith
      <4>2. e.id = ids[c] /\ e.vector = HashOf[c]
        BY <4>1
      <4>3. ids[c] \in DOMAIN records' /\ records'[ids[c]] = c
        BY <1>1 DEF UpsertWith
      <4> QED
        BY <4>2, <4>3
    <3> QED
      BY <3>1, <3>2
  <2>2. \A id \in DOMAIN records' : \E e \in index' : e.id = id
    <3> SUFFICES ASSUME NEW id \in DOMAIN records' PROVE \E e \in index' : e.id = id
      OBVIOUS
    <3>1. CASE id \in taken
      <4>1. PICK c \in batch : ids[c] = id
        BY <1>1, <3>1 DEF UpsertWith
      <4>2. [id |-> ids[c], vector |-> HashOf[c]] \in index'
        BY <1>1 DEF UpsertWith
      <4>3. [id |-> ids[c], vector |-> HashOf[c]].id = id
        BY <4>1
      <4> QED
        BY <4>2, <4>3
    <3>2. CASE id \notin taken
      BY <1>1, <3>2 DEF UpsertWith, Inv, Tables, GoodTables
    <3> QED
      BY <3>1, <3>2
  <2>3. \A id \in DOMAIN records : id < nextId'
    BY <1>1, Bounds DEF UpsertWith, Inv, Tables, GoodTables
  <2>4. \A c \in batch : ids[c] \in Ids /\ ids[c] < nextId'
    BY <1>1, <2>3 DEF UpsertWith, Inv, Tables, ByChunk
  <2>5. \A id \in DOMAIN records' : id \in Ids /\ id < nextId' /\ records'[id] \in Chunks
    BY <1>1, <2>3, <2>4 DEF UpsertWith, Inv, Tables, GoodTables
  <2>6. \A i \in DOMAIN records' :
          IF i \in DOMAIN records THEN records'[i] = records[i]
          ELSE records'[i] \in batch /\ ids[records'[i]] = i
    BY <1>1 DEF UpsertWith
  <2>7. \A i \in DOMAIN records : records[i] \in batch => ids[records[i]] = i
    <3> SUFFICES ASSUME NEW i \in DOMAIN records, records[i] \in batch
                 PROVE  ids[records[i]] = i
      OBVIOUS
    <3>1. records[i] \in DOMAIN idByChunk
      BY DEF Inv, Tables, ByChunk
    <3>2. ids[records[i]] = idByChunk[records[i]]
      BY <1>1, <3>1 DEF UpsertWith
    <3>3. idByChunk[records[i]] \in DOMAIN records /\ records[idByChunk[records[i]]] = records[i]
      BY <3>1 DEF Inv, Tables, ByChunk
    <3> QED
      BY <3>2, <3>3 DEF Inv, Tables, GoodTables
  <2>8. \A i, j \in DOMAIN records' : records'[i] = records'[j] => i = j
    <3>1. \A i, j \in DOMAIN records : records[i] = records[j] => i = j
      BY DEF Inv, Tables, GoodTables
    <3> QED
      BY <2>6, <2>7, <3>1
  <2> QED
    BY <1>1, <2>1, <2>2, <2>5, <2>8 DEF GoodTables, UpsertWith
<1>3. ByChunk'
  <2>1. \A c \in DOMAIN idByChunk' : /\ idByChunk'[c] \in DOMAIN records'
                                     /\ records'[idByChunk'[c]] = c
    BY <1>1 DEF UpsertWith, Inv, Tables, ByChunk
  <2>2. \A id \in DOMAIN records' : records'[id] \in DOMAIN idByChunk'
    BY <1>1 DEF UpsertWith, Inv, Tables, ByChunk
  <2> QED
    BY <2>1, <2>2 DEF ByChunk
<1>4. ByHash'
  BY <1>1 DEF UpsertWith, Inv, Tables, ByHash
<1>5. up' /\ saving' = "index" /\ searching' = searching /\ adding' = batch /\ kept' = kept
  BY DEF Upsert, Free
<1>6. Files'
  BY <1>5 DEF Files
<1>7. Hits'
  <2> SUFFICES ASSUME NEW hit \in searching
               PROVE  /\ hit.id \in Nat /\ hit.id < nextId'
                      /\ hit.id \in DOMAIN records' => records'[hit.id] = hit.chunk
    BY <1>5 DEF Hits
  <2>1. /\ hit.id \in Nat /\ hit.id < nextId /\ nextId \in Nat /\ nextId' \in Nat
        /\ nextId <= nextId'
    BY <1>1, Bounds DEF UpsertWith, Inv, Tables, GoodTables, Hits
  <2>2. hit.id \in DOMAIN records' => hit.id \in DOMAIN records
    <3> SUFFICES ASSUME NEW c \in batch, ids[c] = hit.id PROVE hit.id \in DOMAIN records
      BY <1>1 DEF UpsertWith
    <3>1. c \in DOMAIN idByChunk
      BY <1>1, <2>1 DEF UpsertWith
    <3> QED
      BY <1>1, <3>1 DEF UpsertWith, Inv, Tables, ByChunk
  <2> QED
    BY <1>1, <2>1, <2>2 DEF UpsertWith, Inv, Hits
<1>8. Control'
  BY <1>5 DEF Control, Inv
<1> QED
  BY <1>2, <1>3, <1>4, <1>6, <1>7, <1>8 DEF Inv, Tables

LEMMA DeleteStep ==
    ASSUME Inv, NEW d \in Documents, DeleteByDocument(d)
    PROVE  Inv'
<1>1. /\ index' = {e \in index : e.id \notin IdsOf(d)}
      /\ records' = [id \in DOMAIN records \ IdsOf(d) |-> records[id]]
      /\ idByChunk' = [c \in DOMAIN idByChunk \ {records[id] : id \in IdsOf(d)} |->
                         idByChunk[c]]
      /\ nextId' = nextId
  BY DEF DeleteByDocument, Without
<1>2. GoodTables(index', records', nextId')
  BY <1>1 DEF Inv, Tables, GoodTables
<1>3. ByChunk'
  <2>1. \A c \in DOMAIN idByChunk' : /\ idByChunk'[c] \in DOMAIN records'
                                     /\ records'[idByChunk'[c]] = c
    BY <1>1 DEF Inv, Tables, ByChunk
  <2>2. \A id \in DOMAIN records' : records'[id] \in DOMAIN idByChunk'
    <3>1. \A i, j \in DOMAIN records : records[i] = records[j] => i = j
      BY DEF Inv, Tables, GoodTables
    <3>2. IdsOf(d) \subseteq DOMAIN records
      BY DEF IdsOf
    <3> QED
      BY <1>1, <3>1, <3>2 DEF Inv, Tables, ByChunk
  <2> QED
    BY <2>1, <2>2 DEF ByChunk
<1>4. ByHash'
  <2> SUFFICES ASSUME NEW h \in DOMAIN idByHash'
               PROVE  /\ idByHash'[h] \in DOMAIN records'
                      /\ HashOf[records'[idByHash'[h]]] = h
    BY DEF ByHash
  <2>1. /\ h \in DOMAIN idByHash /\ idByHash'[h] = idByHash[h]
        /\ ~\E id \in IdsOf(d) : HashOf[records[id]] = h /\ idByHash[h] = id
    BY DEF DeleteByDocument, Without
  <2>2. idByHash[h] \in DOMAIN records /\ HashOf[records[idByHash[h]]] = h
    BY <2>1 DEF Inv, Tables, ByHash
  <2> QED
    BY <1>1, <2>1, <2>2
<1>5. up' /\ saving' = "index" /\ searching' = searching /\ adding' = adding
  BY DEF DeleteByDocument, Free
<1>6. Files'
  BY <1>5 DEF Files
<1>7. Hits'
  BY <1>1, <1>5 DEF Inv, Hits
<1>8. Control'
  <2>1. kept' \subseteq kept
    BY DEF DeleteByDocument
  <2> QED
    BY <1>5, <2>1 DEF Control, Inv
<1> QED
  BY <1>2, <1>3, <1>4, <1>6, <1>7, <1>8 DEF Inv, Tables

\* The steps of a save leave the tables alone and make the files theirs, in order.
LEMMA SaveStep ==
    ASSUME Inv, WriteIndex \/ OpenMetadata \/ WriteMetadata
    PROVE  Inv'
<1>1. UNCHANGED <<up, tables, searching>>
  BY DEF WriteIndex, OpenMetadata, WriteMetadata
<1>2. Tables' /\ Hits'
  BY <1>1 DEF Inv, Tables, GoodTables, ByChunk, ByHash, Hits, tables
<1>3. up
  BY DEF Inv, Control, WriteIndex, OpenMetadata, WriteMetadata
<1>4. Files'
  <2>1. CASE WriteIndex
    BY <1>1, <1>3, <2>1 DEF WriteIndex, Files, tables
  <2>2. CASE OpenMetadata
    BY <1>1, <1>3, <2>2 DEF OpenMetadata, Files, tables, Inv
  <2>3. CASE WriteMetadata
    BY <1>1, <1>3, <2>3 DEF WriteMetadata, Files, tables, Inv
  <2> QED
    BY <2>1, <2>2, <2>3
<1>5. Control'
  <2>1. saving' \in {"free", "index", "open", "metadata"}
    BY DEF WriteIndex, OpenMetadata, WriteMetadata
  <2>2. adding' \subseteq Chunks /\ kept' \subseteq Chunks
    BY DEF WriteIndex, OpenMetadata, WriteMetadata, Inv, Control, history
  <2> QED
    BY <1>1, <1>3, <2>1, <2>2 DEF Control, Inv
<1> QED
  BY <1>2, <1>4, <1>5 DEF Inv

LEMMA SearchStep ==
    ASSUME Inv, Search \/ ReadRecords
    PROVE  Inv'
<1>1. UNCHANGED <<up, tables, saving, files, history>>
  BY DEF Search, ReadRecords
<1>2. Tables' /\ Files'
  <2>1. Tables'
    BY <1>1 DEF Inv, Tables, GoodTables, ByChunk, ByHash, tables
  <2>2. Files'
    <3>1. /\ up' = up /\ saving' = saving /\ index' = index /\ records' = records
          /\ nextId' = nextId /\ indexFile' = indexFile /\ metaFile' = metaFile
          /\ Empty' = Empty
      BY <1>1 DEF tables, files, Empty
    <3> QED
      BY <3>1 DEF Inv, Files
  <2> QED
    BY <2>1, <2>2
<1>3. Hits'
  <2>1. \A hit \in searching' : hit.id \in DOMAIN records /\ hit.chunk = records[hit.id]
    <3>1. CASE Search
      <4>1. PICK found : searching' = {[id |-> e.id, chunk |-> records[e.id]] :
                             e \in {f \in found : f.id \in DOMAIN records}}
        BY <3>1 DEF Search
      <4> QED
        BY <4>1
    <3>2. CASE ReadRecords
      BY <3>2 DEF ReadRecords
    <3> QED
      BY <3>1, <3>2
  <2>2. \A id \in DOMAIN records : id \in Nat /\ id < nextId
    BY Bounds DEF Inv, Tables, GoodTables
  <2> QED
    BY <1>1, <2>1, <2>2 DEF Hits, tables
<1>4. Control'
  <2>1. up \/ searching' = {}
    BY DEF Search, ReadRecords, Free
  <2> QED
    BY <1>1, <2>1 DEF Control, Inv, Empty, tables, history
<1> QED
  BY <1>2, <1>3, <1>4 DEF Inv

\* The counter is behind the records of the files, and what the process loads is what
\* it had saved; of the ids of one hash there is a last one.
LEMMA StartStep ==
    ASSUME Inv, Start
    PROVE  Inv'
<1>1. /\ ~up /\ up' /\ saving = "free" /\ saving' = "free"
      /\ indexFile' = indexFile /\ metaFile' = metaFile
      /\ searching = {} /\ searching' = {} /\ adding' = adding /\ kept' = kept
  BY DEF Start, Inv, Control, files, history
<1>2. Control'
  BY <1>1 DEF Control, Inv
<1>3. CASE indexFile = NoFile /\ metaFile = NoFile
  <2>1. Empty'
    BY <1>3 DEF Start, Load, Cleared, Empty
  <2>2. Tables'
    BY <2>1, Bounds DEF Empty, Tables, GoodTables, ByChunk, ByHash
  <2>3. Files' /\ Hits'
    BY <1>1, <1>3, <2>1 DEF Files, Hits
  <2> QED
    BY <1>2, <2>2, <2>3 DEF Inv
<1>4. CASE \E ix, rs, n : /\ GoodTables(ix, rs, n)
                         /\ indexFile = File(ix)
                         /\ metaFile = File([next_id |-> n, records |-> rs])
  <2>1. PICK ix, rs, n : /\ GoodTables(ix, rs, n)
                         /\ indexFile = File(ix)
                         /\ metaFile = File([next_id |-> n, records |-> rs])
    BY <1>4
  <2>2. /\ NoFile \notin {indexFile, metaFile}
        /\ indexFile.holds = ix
        /\ metaFile.holds = [next_id |-> n, records |-> rs]
    BY <2>1, FileKinds
  <2>3. metaFile.holds.records = rs /\ metaFile.holds.next_id = n
    BY <2>2
  <2> DEFINE latest(ids) == CHOOSE id \in ids : \A other \in ids : other <= id
  <2>4. /\ index' = ix /\ records' = rs /\ nextId' = n
        /\ idByChunk' = [c \in Stored(rs) |-> latest({id \in DOMAIN rs : rs[id] = c})]
        /\ idByHash' = [h \in {HashOf[c] : c \in Stored(rs)} |->
                          latest({id \in DOMAIN rs : HashOf[rs[id]] = h})]
    BY <2>2, <2>3 DEF Start, Load
  <2>5. ASSUME NEW S \in SUBSET DOMAIN rs, S # {}
        PROVE  latest(S) \in S
    <3>1. S \in SUBSET Ids
      BY <2>1 DEF GoodTables
    <3> QED
      BY <2>5, <3>1, Largest
  <2> HIDE DEF latest
  <2>6. GoodTables(index', records', nextId')
    BY <2>1, <2>4
  <2>7. ByChunk'
    <3>1. \A c \in Stored(rs) : {id \in DOMAIN rs : rs[id] = c} # {}
      BY DEF Stored
    <3>2. \A c \in Stored(rs) :
            latest({id \in DOMAIN rs : rs[id] = c}) \in {id \in DOMAIN rs : rs[id] = c}
      BY <2>5, <3>1
    <3>3. \A id \in DOMAIN rs : rs[id] \in Stored(rs)
      BY DEF Stored
    <3> QED
      BY <2>4, <3>2, <3>3 DEF ByChunk
  <2>8. ByHash'
    <3>1. \A h \in {HashOf[c] : c \in Stored(rs)} : {id \in DOMAIN rs : HashOf[rs[id]] = h} # {}
      BY DEF Stored
    <3>2. \A h \in {HashOf[c] : c \in Stored(rs)} :
            latest({id \in DOMAIN rs : HashOf[rs[id]] = h})
              \in {id \in DOMAIN rs : HashOf[rs[id]] = h}
      BY <2>5, <3>1
    <3> QED
      BY <2>4, <3>2 DEF ByHash
  <2>9. Files'
    BY <1>1, <2>1, <2>4 DEF Files
  <2>10. Hits'
    BY <1>1 DEF Hits
  <2> QED
    BY <1>2, <2>6, <2>7, <2>8, <2>9, <2>10 DEF Inv, Tables
<1> QED
  BY <1>1, <1>3, <1>4 DEF Inv, Files

\* A process that is only ever asked to stop leaves two whole files, or none.
LEMMA StopStep ==
    ASSUME Inv, Stop, CanCrash = FALSE
    PROVE  Inv'
<1>1. /\ up /\ up' = FALSE /\ saving = "free" /\ saving' = "free"
      /\ indexFile' = indexFile /\ metaFile' = metaFile
      /\ searching' = {} /\ adding' = {} /\ kept' = kept
  BY DEF Stop, files, Inv, Control
<1>2. Empty'
  BY DEF Stop, Cleared, Empty
<1>3. Tables'
  BY <1>2, Bounds DEF Empty, Tables, GoodTables, ByChunk, ByHash
<1>4. Files'
  <2>1. CASE indexFile = NoFile /\ metaFile = NoFile
    BY <1>1, <2>1 DEF Files
  <2>2. CASE /\ indexFile = File(index)
             /\ metaFile = File([next_id |-> nextId, records |-> records])
    <3>1. GoodTables(index, records, nextId)
      BY DEF Inv, Tables
    <3> QED
      BY <1>1, <2>2, <3>1 DEF Files
  <2> QED
    BY <1>1, <2>1, <2>2 DEF Inv, Files
<1>5. Hits' /\ Control'
  <2>1. Hits'
    BY <1>1 DEF Hits
  <2>2. kept \subseteq Chunks
    BY DEF Inv, Control
  <2>3. Control'
    BY <1>1, <1>2, <2>2 DEF Control
  <2> QED
    BY <2>1, <2>3
<1> QED
  BY <1>3, <1>4, <1>5 DEF Inv

LEMMA StutterStep ==
    ASSUME Inv, UNCHANGED vars
    PROVE  Inv'
<1>1. /\ UNCHANGED <<up, index, records, idByChunk, idByHash, nextId, saving>>
      /\ UNCHANGED <<indexFile, metaFile, searching, adding, kept>>
  BY DEF vars, tables, files, history
<1>2. Tables'
  BY <1>1 DEF Inv, Tables, GoodTables, ByChunk, ByHash
<1>3. Files'
  <2>1. Empty' = Empty
    BY <1>1 DEF Empty
  <2> QED
    BY <1>1, <2>1 DEF Inv, Files
<1>4. Hits' /\ Control'
  BY <1>1 DEF Inv, Hits, Control, Empty
<1> QED
  BY <1>2, <1>3, <1>4 DEF Inv
--------------------------------------------------------------------------------
LEMMA Initially == Init => Inv
<1> SUFFICES ASSUME Init PROVE Inv
  OBVIOUS
<1>1. Empty /\ up /\ saving = "free" /\ indexFile = NoFile /\ metaFile = NoFile
  BY DEF Init, Empty
<1>2. Tables
  BY <1>1, Bounds DEF Empty, Tables, GoodTables, ByChunk, ByHash
<1>3. Files
  BY <1>1 DEF Files
<1>4. Hits /\ Control
  BY DEF Init, Hits, Control
<1> QED
  BY <1>2, <1>3, <1>4 DEF Inv

LEMMA Always ==
    ASSUME CanCrash = FALSE, Inv, [Next]_vars
    PROVE  Inv'
<1>1. CASE \E batch \in SUBSET Chunks : Upsert(batch)
  BY <1>1, UpsertStep
<1>2. CASE \E d \in Documents : DeleteByDocument(d)
  BY <1>2, DeleteStep
<1>3. CASE WriteIndex \/ OpenMetadata \/ WriteMetadata
  BY <1>3, SaveStep
<1>4. CASE Search \/ ReadRecords
  BY <1>4, SearchStep
<1>5. CASE Stop
  BY <1>5, StopStep
<1>6. CASE Start
  BY <1>6, StartStep
<1>7. CASE UNCHANGED vars
  BY <1>7, StutterStep
<1> QED
  BY <1>1, <1>2, <1>3, <1>4, <1>5, <1>6, <1>7 DEF Next

LEMMA InvHolds == ASSUME CanCrash = FALSE PROVE Spec => []Inv
<1>1. Inv /\ [Next]_vars => Inv'
  BY Always
<1> QED
  BY Initially, <1>1, PTL DEF Spec

\* Every table holds what it should: ids in their range, vectors of texts, chunks.
THEOREM TypesCorrect == CanCrash = FALSE => (Spec => []TypeOK)
<1> SUFFICES ASSUME CanCrash = FALSE PROVE Spec => []TypeOK
  OBVIOUS
<1>1. Inv => TypeOK
  <2> SUFFICES ASSUME Inv PROVE TypeOK
    OBVIOUS
  <2>1. \A e \in index : e.id \in Ids /\ e.vector \in Hashes
    BY StoreAssumption DEF Inv, Tables, GoodTables
  <2>2. DOMAIN records \subseteq Ids /\ Stored(records) \subseteq Chunks
    BY DEF Inv, Tables, GoodTables, Stored
  <2>3. nextId \in 0..(MaxIds + 1)
    BY DEF Inv, Tables, GoodTables
  <2>4. /\ up \in BOOLEAN
        /\ saving \in {"free", "index", "open", "metadata"}
        /\ saving # "free" => up
        /\ adding \subseteq Chunks /\ kept \subseteq Chunks
    BY DEF Inv, Control
  <2> QED
    BY <2>1, <2>2, <2>3, <2>4 DEF TypeOK
<1> QED
  BY InvHolds, <1>1, PTL

\* The five tables agree, after every upsert, deletion and restart.
THEOREM TablesAlwaysAgree == CanCrash = FALSE => (Spec => []TablesAgree)
<1> SUFFICES ASSUME CanCrash = FALSE PROVE Spec => []TablesAgree
  OBVIOUS
<1>1. Inv => TablesAgree
  <2> SUFFICES ASSUME Inv PROVE TablesAgree
    OBVIOUS
  <2>1. {e.id : e \in index} = DOMAIN records
    <3>1. \A e \in index : e.id \in DOMAIN records
      BY DEF Inv, Tables, GoodTables
    <3>2. \A id \in DOMAIN records : \E e \in index : e.id = id
      BY DEF Inv, Tables, GoodTables
    <3> QED
      BY <3>1, <3>2
  <2>2. \A e \in index : e.vector = HashOf[records[e.id]]
    BY DEF Inv, Tables, GoodTables
  <2>3. DOMAIN idByChunk = Stored(records)
    BY DEF Inv, Tables, ByChunk, Stored
  <2>4. \A c \in DOMAIN idByChunk : idByChunk[c] \in DOMAIN records /\ records[idByChunk[c]] = c
    BY DEF Inv, Tables, ByChunk
  <2>5. \A id \in DOMAIN records : idByChunk[records[id]] = id /\ id < nextId
    BY <2>4 DEF Inv, Tables, GoodTables, ByChunk
  <2>6. \A h \in DOMAIN idByHash : /\ idByHash[h] \in DOMAIN records
                                   /\ HashOf[records[idByHash[h]]] = h
    BY DEF Inv, Tables, ByHash
  <2> QED
    BY <2>1, <2>2, <2>3, <2>4, <2>5, <2>6 DEF TablesAgree
<1> QED
  BY InvHolds, <1>1, PTL

\* What a search reads after it released the lock is the chunk it found, or nothing.
THEOREM HitsAlwaysTrue == CanCrash = FALSE => (Spec => []HitsAreTrue)
<1> SUFFICES ASSUME CanCrash = FALSE PROVE Spec => []HitsAreTrue
  OBVIOUS
<1>1. Inv => HitsAreTrue
  BY DEF Inv, Hits, HitsAreTrue
<1> QED
  BY InvHolds, <1>1, PTL
--------------------------------------------------------------------------------
\* The refinement.

Shown == IF up THEN Stored(records)
         ELSE IF metaFile = NoFile THEN {} ELSE Stored(metaFile.holds.records)

\* Only an upsert and a deletion change the chunks shown; a restart shows the same.
LEMMA ShownByUpsert ==
    ASSUME Inv, NEW batch \in SUBSET Chunks, Upsert(batch)
    PROVE  Shown' = Shown \cup batch
<1>1. up /\ up'
  BY DEF Upsert, Free
<1>2. PICK ids, taken : UpsertWith(batch, ids, taken)
  BY UpsertChange DEF Inv
<1>3. Stored(records') \subseteq Stored(records) \cup batch
  BY <1>2 DEF UpsertWith, Stored
<1>4. Stored(records) \subseteq Stored(records')
  <2> SUFFICES ASSUME NEW id \in DOMAIN records PROVE records[id] \in Stored(records')
    BY DEF Stored
  <2>1. id \in DOMAIN records' /\ records'[id] = records[id]
    BY <1>2 DEF UpsertWith
  <2> QED
    BY <2>1 DEF Stored
<1>5. batch \subseteq Stored(records')
  <2> SUFFICES ASSUME NEW c \in batch PROVE c \in Stored(records')
    OBVIOUS
  <2>1. ids[c] \in DOMAIN records' /\ records'[ids[c]] = c
    BY <1>2 DEF UpsertWith
  <2> QED
    BY <2>1 DEF Stored
<1>6. Stored(records)' = Stored(records')
  BY DEF Stored
<1> QED
  BY <1>1, <1>3, <1>4, <1>5, <1>6 DEF Shown

LEMMA ShownByDelete ==
    ASSUME Inv, NEW d \in Documents, DeleteByDocument(d)
    PROVE  Shown' = Shown \ {c \in Chunks : DocumentOf[c] = d}
<1>1. up /\ up' /\ records' = [id \in DOMAIN records \ IdsOf(d) |-> records[id]]
  BY DEF DeleteByDocument, Free, Without
<1>2. \A id \in DOMAIN records : records[id] \in Chunks
  BY DEF Inv, Tables, GoodTables
<1>3. \A id \in DOMAIN records : id \in IdsOf(d) <=> DocumentOf[records[id]] = d
  BY DEF IdsOf
<1>4. Stored(records') = Stored(records) \ {c \in Chunks : DocumentOf[c] = d}
  BY <1>1, <1>2, <1>3 DEF Stored
<1>5. Stored(records)' = Stored(records')
  BY DEF Stored
<1> QED
  BY <1>1, <1>4, <1>5 DEF Shown

LEMMA ShownByOthers ==
    ASSUME CanCrash = FALSE, Inv,
           \/ WriteIndex \/ OpenMetadata \/ WriteMetadata \/ Search \/ ReadRecords
           \/ Stop \/ Start \/ UNCHANGED vars
    PROVE  Shown' = Shown
<1>1. CASE WriteIndex \/ OpenMetadata \/ WriteMetadata \/ Search \/ ReadRecords
  <2>1. up' = up /\ records' = records
    BY <1>1 DEF WriteIndex, OpenMetadata, WriteMetadata, Search, ReadRecords, tables
  <2>2. up \/ metaFile' = metaFile
    BY <1>1 DEF WriteIndex, OpenMetadata, WriteMetadata, Search, ReadRecords, files,
                Inv, Control
  <2> QED
    BY <2>1, <2>2 DEF Shown, Stored
<1>2. CASE Stop
  <2>1. up /\ ~up' /\ saving = "free" /\ metaFile' = metaFile
    BY <1>2 DEF Stop, files, Inv, Control
  <2>2. CASE Empty /\ metaFile = NoFile
    <3>1. Stored(records) = {}
      BY <2>2 DEF Empty, Stored
    <3> QED
      BY <2>1, <2>2, <3>1 DEF Shown
  <2>3. CASE metaFile = File([next_id |-> nextId, records |-> records])
    <3>1. metaFile # NoFile /\ metaFile.holds = [next_id |-> nextId, records |-> records]
      BY <2>3, FileKinds
    <3>2. metaFile.holds.records = records
      BY <3>1
    <3> QED
      BY <2>1, <3>1, <3>2 DEF Shown, Stored
  <2> QED
    BY <2>1, <2>2, <2>3 DEF Inv, Files
<1>3. CASE Start
  <2>1. ~up /\ up' /\ metaFile' = metaFile
    BY <1>3 DEF Start, files
  <2>2. CASE indexFile = NoFile /\ metaFile = NoFile
    <3>1. records' = <<>>
      BY <1>3, <2>2 DEF Start, Load, Cleared
    <3> QED
      BY <2>1, <2>2, <3>1 DEF Shown, Stored
  <2>3. CASE indexFile # NoFile /\ metaFile # NoFile
    <3>1. records' = metaFile.holds.records
      BY <1>3, <2>3 DEF Start, Load
    <3> QED
      BY <2>1, <2>3, <3>1 DEF Shown, Stored
  <2>4. \/ indexFile = NoFile /\ metaFile = NoFile
        \/ indexFile # NoFile /\ metaFile # NoFile
    BY <2>1, FileKinds DEF Inv, Files
  <2> QED
    BY <2>2, <2>3, <2>4
<1>4. CASE UNCHANGED vars
  BY <1>4 DEF vars, tables, files, Shown, Stored
<1> QED
  BY <1>1, <1>2, <1>3, <1>4

\* The store is a set of chunks that grows by batches, shrinks by documents and
\* survives every restart that waits for the save.
THEOREM StoreImplementsChunkMap == CanCrash = FALSE => (Spec => ImplementsChunkMap)
<1> SUFFICES ASSUME CanCrash = FALSE PROVE Spec => Map!Spec
  BY DEF ImplementsChunkMap
<1>1. Init => Map!Init
  <2> SUFFICES ASSUME Init PROVE Map!Init
    OBVIOUS
  <2>1. up /\ Stored(records) = {}
    BY DEF Init, Stored
  <2> QED
    BY <2>1 DEF Map!Init
<1>2. Inv /\ [Next]_vars => [Map!Next]_Shown
  <2> SUFFICES ASSUME Inv, [Next]_vars PROVE Map!Next \/ Shown' = Shown
    OBVIOUS
  <2>1. CASE \E batch \in SUBSET Chunks : Upsert(batch)
    <3>1. PICK batch \in SUBSET Chunks : Upsert(batch)
      BY <2>1
    <3>2. Map!Upsert(batch)
      BY <3>1, ShownByUpsert DEF Map!Upsert, Shown
    <3> QED
      BY <3>2 DEF Map!Next
  <2>2. CASE \E d \in Documents : DeleteByDocument(d)
    <3>1. PICK d \in Documents : DeleteByDocument(d)
      BY <2>2
    <3>2. Map!DeleteByDocument(d)
      BY <3>1, ShownByDelete DEF Map!DeleteByDocument, Map!ChunksOf, Shown
    <3> QED
      BY <3>2 DEF Map!Next
  <2>3. CASE \/ WriteIndex \/ OpenMetadata \/ WriteMetadata \/ Search \/ ReadRecords
             \/ Stop \/ Start \/ UNCHANGED vars
    BY <2>3, ShownByOthers
  <2> QED
    BY <2>1, <2>2, <2>3 DEF Next
<1> QED
  BY InvHolds, <1>1, <1>2, PTL DEF Spec, Map!Spec, Shown
--------------------------------------------------------------------------------
IsPairs(ix) == \A e \in ix : e = [id |-> e.id, vector |-> e.vector]

\* What was kept is shown, whether the process is up or down.
Keeps ==
    /\ saving = "free" => adding = {}
    /\ kept \cup adding \subseteq Shown
    /\ IsPairs(index)
    /\ \A ix : indexFile = File(ix) => IsPairs(ix)

LEMMA PairsStep ==
    ASSUME Inv, Keeps, [Next]_vars
    PROVE  /\ IsPairs(index')
           /\ \A ix : indexFile' = File(ix) => IsPairs(ix)
<1>1. \A x, y : File(x) = File(y) => x = y
  BY FileKinds
<1>2. \A x : Torn # File(x) /\ NoFile # File(x)
  BY FileKinds
<1>3. \A id, v : [id |-> id, vector |-> v].id = id /\ [id |-> id, vector |-> v].vector = v
  OBVIOUS
<1>4. ASSUME NEW batch \in SUBSET Chunks, Upsert(batch)
      PROVE  IsPairs(index') /\ indexFile' = Torn
  <2>1. PICK ids \in Numberings(batch) :
          index' = {e \in index : e.id \notin {ids[c] : c \in batch}}
                     \cup {[id |-> ids[c], vector |-> HashOf[c]] : c \in batch}
    BY <1>4 DEF Upsert
  <2> QED
    BY <1>3, <1>4, <2>1 DEF Upsert, Keeps, IsPairs
<1>5. ASSUME NEW d \in Documents, DeleteByDocument(d)
      PROVE  IsPairs(index') /\ indexFile' = Torn
  BY <1>5 DEF DeleteByDocument, Keeps, IsPairs
<1>6. CASE WriteIndex
  BY <1>1, <1>6 DEF WriteIndex, tables, Keeps
<1>7. CASE OpenMetadata \/ WriteMetadata \/ Search \/ ReadRecords \/ UNCHANGED vars
  BY <1>7 DEF OpenMetadata, WriteMetadata, Search, ReadRecords, vars, tables, files, Keeps
<1>8. CASE Stop
  BY <1>8 DEF Stop, Cleared, files, Keeps, IsPairs
<1>9. CASE Start
  <2>1. CASE NoFile \in {indexFile, metaFile}
    BY <1>9, <2>1 DEF Start, Load, Cleared, files, Keeps, IsPairs
  <2>2. CASE NoFile \notin {indexFile, metaFile}
    <3>1. index' = indexFile.holds /\ indexFile' = indexFile
      BY <1>9, <2>2 DEF Start, Load, files
    <3>2. \E ix : indexFile = File(ix)
      BY <1>9, <2>2 DEF Start, Inv, Files
    <3> QED
      BY <3>1, <3>2, FileKinds DEF Keeps
  <2> QED
    BY <2>1, <2>2
<1> QED
  BY <1>2, <1>4, <1>5, <1>6, <1>7, <1>8, <1>9 DEF Next

LEMMA KeepsStep ==
    ASSUME CanCrash = FALSE, Inv, Keeps, [Next]_vars
    PROVE  Keeps'
<1>0. /\ IsPairs(index')
      /\ \A ix : indexFile' = File(ix) => IsPairs(ix)
  BY PairsStep
<1>1. ASSUME NEW batch \in SUBSET Chunks, Upsert(batch) PROVE Keeps'
  <2>1. Shown' = Shown \cup batch
    BY <1>1, ShownByUpsert
  <2>2. saving' = "index" /\ adding' = batch /\ kept' = kept
    BY <1>1 DEF Upsert
  <2> QED
    BY <1>0, <2>1, <2>2 DEF Keeps, IsPairs
<1>2. ASSUME NEW d \in Documents, DeleteByDocument(d) PROVE Keeps'
  <2>1. Shown' = Shown \ {c \in Chunks : DocumentOf[c] = d}
    BY <1>2, ShownByDelete
  <2>2. /\ saving = "free" /\ saving' = "index" /\ adding' = adding
        /\ kept' = {c \in kept : DocumentOf[c] # d}
    BY <1>2 DEF DeleteByDocument, Free
  <2> QED
    BY <1>0, <2>1, <2>2 DEF Keeps, IsPairs
<1>3. CASE \/ WriteIndex \/ OpenMetadata \/ WriteMetadata \/ Search \/ ReadRecords
           \/ Stop \/ Start \/ UNCHANGED vars
  <2>1. Shown' = Shown
    BY <1>3, ShownByOthers
  <2>2. /\ kept' \cup adding' \subseteq kept \cup adding
        /\ adding' = {} \/ (adding' = adding /\ (saving' = "free" => saving = "free"))
    BY <1>3 DEF WriteIndex, OpenMetadata, WriteMetadata, Search, ReadRecords, Stop, Start,
                history, vars
  <2> QED
    BY <1>0, <2>1, <2>2 DEF Keeps, IsPairs
<1> QED
  BY <1>1, <1>2, <1>3 DEF Next

\* Nothing but a kill in a save loses embeddings: what vector_store.py:75 promises holds
\* of every stop that lets _save end.
THEOREM EmbeddingsSurviveStops == CanCrash = FALSE => (Spec => []EmbeddingsSurviveRestart)
<1> SUFFICES ASSUME CanCrash = FALSE PROVE Spec => []EmbeddingsSurviveRestart
  OBVIOUS
<1>1. Init => Keeps
  <2>1. \A x : NoFile # File(x)
    BY FileKinds
  <2> QED
    BY <2>1 DEF Init, Keeps, IsPairs
<1>2. Inv /\ Keeps /\ [Next]_vars => Keeps'
  BY KeepsStep
<1>3. Inv /\ Keeps => EmbeddingsSurviveRestart
  <2> SUFFICES ASSUME Inv, Keeps, ~up, NEW c \in kept
               PROVE  /\ Loadable /\ NoFile \notin {indexFile, metaFile}
                      /\ \E id \in DOMAIN metaFile.holds.records :
                            /\ metaFile.holds.records[id] = c
                            /\ [id |-> id, vector |-> HashOf[c]] \in indexFile.holds
    BY DEF EmbeddingsSurviveRestart
  <2>1. c \in Shown /\ metaFile # NoFile
    BY DEF Keeps, Shown
  <2>2. PICK ix, rs, n : /\ GoodTables(ix, rs, n)
                         /\ indexFile = File(ix)
                         /\ metaFile = File([next_id |-> n, records |-> rs])
    BY <2>1 DEF Inv, Files
  <2>3. metaFile.holds.records = rs /\ indexFile.holds = ix
    <3>1. metaFile.holds = [next_id |-> n, records |-> rs] /\ indexFile.holds = ix
      BY <2>2, FileKinds
    <3> QED
      BY <3>1
  <2>4. PICK id \in DOMAIN rs : rs[id] = c
    BY <2>1, <2>3 DEF Shown, Stored
  <2>5. PICK e \in ix : e.id = id /\ e.vector = HashOf[c]
    BY <2>2, <2>4 DEF GoodTables
  <2>6. e = [id |-> id, vector |-> HashOf[c]]
    BY <2>2, <2>5 DEF Keeps, IsPairs
  <2>7. Loadable /\ NoFile \notin {indexFile, metaFile}
    BY <2>2, FileKinds DEF Loadable
  <2> QED
    BY <2>3, <2>4, <2>5, <2>6, <2>7
<1> QED
  BY InvHolds, <1>1, <1>2, <1>3, PTL DEF Spec
================================================================================
