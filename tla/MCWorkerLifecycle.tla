------------------------- MODULE MCWorkerLifecycle -------------------------
(* Small instances of WorkerLifecycle for TLC. *)
EXTENDS WorkerLifecycle, TLC

CONSTANTS d1, d2, p1, p2
=============================================================================
