----------------------------- MODULE MCVectorStore -----------------------------
(* The vector store on small instances: see README.md for the bounds. *)
EXTENDS VectorStore, TLC

CONSTANTS c1, c2, c3, c4, d1, d2, h1, h2

\* Two documents that share their text.
TwoDocuments == (c1 :> d1) @@ (c2 :> d1) @@ (c3 :> d2) @@ (c4 :> d2)
SharedText == (c1 :> h1) @@ (c2 :> h2) @@ (c3 :> h1) @@ (c4 :> h2)
================================================================================
