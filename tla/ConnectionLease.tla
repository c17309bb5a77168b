---------------------------- MODULE ConnectionLease ----------------------------
(***************************************************************************)
(* What the client pool promises the threads that share it: a connection   *)
(* is lent to one of them at a time and exists as long as it is lent.      *)
(*                                                                         *)
(* The pool keeps account of the connections it has lent until it is       *)
(* closed.  A connection that is given back is free again if it was lent   *)
(* since the pool was last closed; otherwise it is lost: it exists, and    *)
(* nobody will use or delete it any more.  There is no other way to lose   *)
(* one, and none comes back from there.                                    *)
(***************************************************************************)
CONSTANTS Users, Conns,
          Nothing      \* what a user has that has no connection

VARIABLES
    open,    \* connections that exist
    free,    \* those that the pool can lend
    kept,    \* those that are lent and that it keeps account of
    lease    \* the connection of each user

vars == <<open, free, kept, lease>>

Init == /\ open = {} /\ free = {} /\ kept = {}
        /\ lease = [u \in Users |-> Nothing]

\* An empty pool is filled with new connections.
Fill(S) ==
    /\ free = {} /\ kept = {} /\ S \cap open = {}
    /\ open' = open \cup S /\ free' = S
    /\ UNCHANGED <<kept, lease>>

Lend(u, c) ==
    /\ lease[u] = Nothing /\ c \in free
    /\ lease' = [lease EXCEPT ![u] = c]
    /\ free' = free \ {c} /\ kept' = kept \cup {c}
    /\ UNCHANGED open

Gives(u) == lease[u] # Nothing /\ lease' = [lease EXCEPT ![u] = Nothing]

TakeBack(u) ==
    /\ Gives(u)
    /\ free' = IF lease[u] \in kept THEN free \cup {lease[u]} ELSE free
    /\ kept' = kept \ {lease[u]}
    /\ UNCHANGED open

\* The user deletes its connection.
Discard(u) ==
    /\ Gives(u)
    /\ open' = open \ {lease[u]} /\ kept' = kept \ {lease[u]}
    /\ UNCHANGED free

\* The free connections are deleted; the lent ones stay with their users.
Close ==
    /\ open' = open \ free
    /\ free' = {} /\ kept' = {}
    /\ UNCHANGED lease

Next == \/ Close \/ \E S \in SUBSET Conns : Fill(S)
        \/ \E u \in Users : TakeBack(u) \/ Discard(u) \/ \E c \in Conns : Lend(u, c)

Spec == Init /\ [][Next]_vars
=============================================================================
