---------------------------- MODULE MCDocumentViews ----------------------------
(* Ingestion with the requests that read it, on a small instance. *)
EXTENDS DocumentViews, TLC

Symmetry == Permutations(Uploads) \cup Permutations(Contents) \cup Permutations(Workers)
================================================================================
