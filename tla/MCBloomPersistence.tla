-------------------------- MODULE MCBloomPersistence --------------------------
(* Small instances of BloomPersistence. *)
EXTENDS BloomPersistence

CONSTANTS w1, w2, e1, e2

AllThreads == Threads
=============================================================================
