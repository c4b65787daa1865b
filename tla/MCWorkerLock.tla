---------------------------- MODULE MCWorkerLock ----------------------------
(* Small instances of WorkerLock: start-up races with and without a stale   *)
(* lock file, and workers that die at any point.                            *)
EXTENDS WorkerLock
=============================================================================
