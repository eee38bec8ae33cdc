----------------------------- MODULE MCWorkerPool -----------------------------
(* WorkerPool for TLC. *)
EXTENDS WorkerPool
=============================================================================
