---------------------------- MODULE MCWorkerPool ----------------------------
(* An instance of WorkerPool for TLC: two workers, three connections, two numbers. *)
EXTENDS WorkerPool

CONSTANTS w1, w2, k1, k2, k3, f1, f2, d1
=============================================================================
