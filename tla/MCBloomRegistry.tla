--------------------------- MODULE MCBloomRegistry ---------------------------
(***************************************************************************)
(* Small instances of BloomRegistry.  Keys "a" and "b" share bucket 0 and  *)
(* "c" is alone in bucket 1.  A filter of size "small" has a map of 3 bits *)
(* and takes 2 bytes of the budget, one of size "large" 4 bits and 3 bytes,*)
(* and "bad" is an (n, e) pair that calculate rejects.  The positions of   *)
(* subkeys overlap, so that a get can find the bits of another subkey.     *)
(***************************************************************************)
EXTENDS BloomRegistry, TLC

CONSTANTS t1, t2, t3

MCHv == [k \in Keys |-> IF k = "c" THEN 1 ELSE 0]
MCBloomBytes == [n \in Sizes |-> CASE n = "small" -> 2 [] n = "large" -> 3 [] n = "bad" -> 0]
MCMapBits == [n \in Sizes |-> CASE n = "small" -> 3 [] n = "large" -> 4 [] n = "bad" -> 0]
MCProbe == [n \in Sizes |-> [s \in Subkeys |->
              CASE n = "small" -> (IF s = "x" THEN <<0, 1>> ELSE <<1, 2>>)
                [] n = "large" -> (IF s = "x" THEN <<3, 1>> ELSE <<1, 2>>)
                [] n = "bad"   -> <<>>]]

Adds(ks, ns) == [op : {"add"}, key : ks, n : ns]
Sets(ks, ss) == [op : {"set"}, key : ks, sub : ss]
Gets(ks, ss) == [op : {"get"}, key : ks, sub : ss]
Dels(ks) == [op : {"delete"}, key : ks]

\* Every thread adds and deletes filters.
AdminCalls == [t \in Threads |-> Adds(Keys, Sizes) \cup Dels(Keys)]

\* Every thread may do everything.
AllCalls == [t \in Threads |-> Adds(Keys, Sizes) \cup Sets(Keys, Subkeys)
                               \cup Gets(Keys, Subkeys) \cup Dels(Keys)]

\* Every thread may do everything, with "a" a small and "b" a large filter.
MixedCalls == [t \in Threads |-> Adds({"a"}, {"small"}) \cup Adds({"b"}, {"large"})
                                 \cup Sets(Keys, Subkeys) \cup Gets(Keys, Subkeys)
                                 \cup Dels(Keys)]

\* One thread adds and deletes, the others fill and query.
OneAdminCalls ==
    [t \in Threads |-> IF t = t1 THEN Adds(Keys, Sizes) \cup Dels(Keys)
                       ELSE Sets(Keys, Subkeys) \cup Gets(Keys, Subkeys)]

ThreadSymmetry == Permutations(Threads)
=============================================================================
