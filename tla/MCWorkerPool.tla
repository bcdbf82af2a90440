---------------------------- MODULE MCWorkerPool ----------------------------
(* Two workers beside the caller: enough for a worker to be late, to be a   *)
(* guest of a loop another worker called, and to call one itself.           *)
EXTENDS WorkerPool
==============================================================================
