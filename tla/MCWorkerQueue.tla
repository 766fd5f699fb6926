---------------------------- MODULE MCWorkerQueue ----------------------------
(* WorkerQueue for TLC: w1 survives and w2 may not.                        *)
EXTENDS WorkerQueue

CONSTANTS w1, w2
==============================================================================
