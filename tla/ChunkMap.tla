------------------------------- MODULE ChunkMap -------------------------------
(***************************************************************************)
(* What the embedding service is promised by VectorStore in                *)
(* ml-service/app/embeddings/vector_store.py, with no faiss index, ids,    *)
(* tables or files in sight: a set of chunks, each with its vector, which  *)
(* grows by whole batches, shrinks by whole documents and is kept across   *)
(* restarts.  The module VectorStore implements this.                      *)
(***************************************************************************)
EXTENDS FiniteSets

CONSTANTS Chunks,      \* chunks that are ever stored
          Documents,
          DocumentOf   \* the document a chunk belongs to

VARIABLE stored

ChunksOf(d) == {c \in Chunks : DocumentOf[c] = d}

Init == stored = {}

Upsert(batch) == stored' = stored \cup batch

DeleteByDocument(d) == stored' = stored \ ChunksOf(d)

Next ==
    \/ \E batch \in SUBSET Chunks : Upsert(batch)
    \/ \E d \in Documents : DeleteByDocument(d)

Spec == Init /\ [][Next]_stored
===============================================================================
