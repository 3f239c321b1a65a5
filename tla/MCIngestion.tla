----------------------------- MODULE MCIngestion -----------------------------
(* Ingestion on small instances: see README.md for the bounds of each run.  *)
EXTENDS Ingestion, TLC
==============================================================================
