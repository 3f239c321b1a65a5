------------------------------ MODULE MCRagStream ------------------------------
(* The answer stream on small instances: see README.md for the bounds. *)
EXTENDS RagStream, TLC
================================================================================
