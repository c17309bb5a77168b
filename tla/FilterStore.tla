----------------------------- MODULE FilterStore -----------------------------
(***************************************************************************)
(* What the table of filters promises its callers: a map from the names of *)
(* the filters to the sets of subkeys put into them, on which every call   *)
(* takes effect at one instant between its invocation and its return.      *)
(*                                                                         *)
(* The promise about gets is the one of a bloom filter, without false      *)
(* negatives: 1 may be wrong, 0 may not.  There is one exception, which    *)
(* the code makes: a get during which a get on another filter was running  *)
(* is disturbed, and a disturbed get may answer anything.                  *)
(***************************************************************************)
EXTENDS Integers

CONSTANTS Threads, Keys, Subkeys,
          StoreCalls,  \* the calls clients may make
          Idle         \* the value of call[t] when t executes no call

VARIABLES
    filters,    \* names of the filters that exist
    members,    \* the <<key, subkey>> pairs put into them
    phase,      \* "idle", "called" and, once the call took effect, "done"
    call,       \* the call a thread executes
    res,        \* the value of the last call that took effect
    disturbed   \* gets that ran at the same time as a get on another filter

vars == <<filters, members, phase, call, res, disturbed>>

Init ==
    /\ filters = {} /\ members = {}
    /\ phase = [t \in Threads |-> "idle"]
    /\ call = [t \in Threads |-> Idle]
    /\ res = [t \in Threads |-> 0]
    /\ disturbed = [t \in Threads |-> FALSE]

Invoke(t) ==
    /\ phase[t] = "idle"
    /\ phase' = [phase EXCEPT ![t] = "called"]
    /\ \E c \in StoreCalls : call' = [call EXCEPT ![t] = c]
    /\ UNCHANGED <<filters, members, res, disturbed>>

\* Two gets that look into two filters.
Getting(t) == phase[t] = "called" /\ call[t].op = "get"
Rivals(t) == {u \in Threads : Getting(u) /\ call[u].key # call[t].key}

Disturb ==
    /\ \E S \in SUBSET {t \in Threads : Getting(t) /\ Rivals(t) # {}} :
          disturbed' = [t \in Threads |-> disturbed[t] \/ t \in S]
    /\ UNCHANGED <<filters, members, phase, call, res>>

\* The values a call may take effect with, and what it then does to the store.
\* -2 stands for the exception a client gets when memory runs out.
AddEffect(c, v) ==
    \/ c.key \in filters /\ v = 1 /\ UNCHANGED <<filters, members>>
    \/ c.key \notin filters /\ v \in {2, -2} /\ UNCHANGED <<filters, members>>
    \/ /\ c.key \notin filters /\ v = 0
       /\ filters' = filters \cup {c.key} /\ UNCHANGED members

SetEffect(c, v) ==
    \/ c.key \notin filters /\ v = 1 /\ UNCHANGED <<filters, members>>
    \/ /\ c.key \in filters /\ v = 0
       /\ members' = members \cup {<<c.key, c.sub>>} /\ UNCHANGED filters

GetEffect(c, v, mayMiss) ==
    /\ \/ c.key \notin filters /\ v = -1
       \/ c.key \in filters /\ v = 1
       \/ c.key \in filters /\ v = 0 /\ (mayMiss \/ <<c.key, c.sub>> \notin members)
    /\ UNCHANGED <<filters, members>>

DeleteEffect(c, v) ==
    \/ c.key \notin filters /\ v = 1 /\ UNCHANGED <<filters, members>>
    \/ /\ c.key \in filters /\ v = 0
       /\ filters' = filters \ {c.key}
       /\ members' = members \ ({c.key} \X Subkeys)

Effect(t, v) ==
    \/ call[t].op = "add" /\ AddEffect(call[t], v)
    \/ call[t].op = "set" /\ SetEffect(call[t], v)
    \/ call[t].op = "get" /\ GetEffect(call[t], v, disturbed[t])
    \/ call[t].op = "delete" /\ DeleteEffect(call[t], v)

Leave(t) ==
    /\ phase' = [phase EXCEPT ![t] = "idle"]
    /\ call' = [call EXCEPT ![t] = Idle]
    /\ disturbed' = [disturbed EXCEPT ![t] = FALSE]

\* The call takes effect, and returns at once or later.
TakeEffect(t) ==
    /\ phase[t] = "called"
    /\ \E v \in -2 .. 2 : Effect(t, v) /\ res' = [res EXCEPT ![t] = v]
    /\ \/ Leave(t)
       \/ phase' = [phase EXCEPT ![t] = "done"] /\ UNCHANGED <<call, disturbed>>

Return(t) ==
    /\ phase[t] = "done"
    /\ Leave(t)
    /\ UNCHANGED <<filters, members, res>>

Next == Disturb \/ \E t \in Threads : Invoke(t) \/ TakeEffect(t) \/ Return(t)

Spec == Init /\ [][Next]_vars
=============================================================================
