----------------------------- MODULE MCWorkerPool -----------------------------
(* WorkerPool on a small instance: see README.md for the bounds. *)
EXTENDS WorkerPool, TLC
===============================================================================
