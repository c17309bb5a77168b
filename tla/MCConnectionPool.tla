--------------------------- MODULE MCConnectionPool ---------------------------
(* Small instances of ConnectionPool. *)
EXTENDS ConnectionPool, TLC

CONSTANTS g1, g2, f1, c1, c2, c3, c4, c5

ConnSymmetry == Permutations(Conns)
Symmetry == Permutations(Conns) \cup Permutations(GetThreads)
=============================================================================
