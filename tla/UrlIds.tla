------------------------------- MODULE UrlIds -------------------------------
(***************************************************************************)
(* CheckpointManager::GetMaxID: the id of a url is made of the time in     *)
(* milliseconds, the number of the machine (spiderid) and a number within  *)
(* the millisecond.  Every machine runs one process with a clock of its    *)
(* own, which an administrator may set back; the threads of a process call *)
(* GetMaxID under one mutex, which is kept while the call sleeps.          *)
(*                                                                         *)
(* What a caller does from reading the clock to the unlock or the sleep is *)
(* one step: the mutex keeps every other caller out, and the clock is read *)
(* once.                                                                   *)
(***************************************************************************)
EXTENDS Naturals, Sequences

CONSTANTS
    Machines,     \* the spiderids
    Callers,      \* Callers[m]: the threads of machine m
    SeqSpan,      \* 2^12: the numbers that fit below the machine's bits
    PcSpan,       \* 2^11: the machines that fit below the millisecond's bits
    MsSpan,       \* 2^41: the milliseconds that fit above them in 64 bits
    MaxClock,     \* bound: the clocks stop here
    MaxSetBacks,  \* bound: how often a clock is set back
    MaxIds,       \* bound: ids that a machine hands out
    NULL

ASSUME SpanAssumption == {SeqSpan, PcSpan, MsSpan} \subseteq Nat \ {0}
ASSUME MachineAssumption == Machines \subseteq 0..(PcSpan - 1)
ASSUME CallerAssumption == \A m \in Machines : NULL \notin Callers[m]
ASSUME BoundAssumption == {MaxClock, MaxSetBacks, MaxIds} \subseteq Nat

VARIABLES
    clock,             \* what gettimeofday tells each machine, in milliseconds
    setbacks,          \* how often each clock was set back
    last_millisecond,
    last_id,
    mux,               \* the caller that holds the mutex, or NULL
    asleep,            \* whether it is in sleep(1)
    issued             \* history: the millisecond and number of each id handed out

static == <<last_millisecond, last_id>>
vars == <<clock, setbacks, static, mux, asleep, issued>>

-----------------------------------------------------------------------------

\* Mutant of Id: the machine is shifted by one bit too few.
IdOverlaps(m, e) == ((e.ms % MsSpan) * PcSpan * SeqSpan) + m * (SeqSpan \div 2) + e.seq

\* ms << 23 | pcid << 12 | last_id in 64 bits.  A last_id of SeqSpan does not
\* fit below the machine: it sets the lowest bit of that.
Carried(e) == e.seq = SeqSpan
Pc(m, e) == IF Carried(e) /\ m % 2 = 0 THEN m + 1 ELSE m
Id(m, e) == ((e.ms % MsSpan) * PcSpan + Pc(m, e)) * SeqSpan + (e.seq % SeqSpan)

Issue(m, ms, n) ==
    /\ Len(issued[m]) < MaxIds
    /\ last_millisecond' = [last_millisecond EXCEPT ![m] = ms]
    /\ last_id' = [last_id EXCEPT ![m] = n]
    /\ issued' = [issued EXCEPT ![m] = Append(@, [ms |-> ms, seq |-> n])]

Unlock(m) == mux' = [mux EXCEPT ![m] = NULL]

\* Machine m runs in GetMaxID and is about to read the clock.
Reads(m) == mux[m] # NULL /\ ~asleep[m]

-----------------------------------------------------------------------------
(* GetMaxID *)

\* pthread_mutex_lock
Locks(m, c) ==
    /\ mux[m] = NULL
    /\ mux' = [mux EXCEPT ![m] = c]
    /\ UNCHANGED <<clock, setbacks, static, asleep, issued>>

\* gettimeofday fails: 0 is returned, and insertUrl calls again.
ReadFails(m) ==
    /\ Reads(m) /\ Unlock(m)
    /\ UNCHANGED <<clock, setbacks, static, asleep, issued>>

\* Mutant of FirstOfMillisecond: a clock that was set back is not noticed.
FirstOfAnyMillisecond(m) ==
    /\ Reads(m) /\ clock[m] # last_millisecond[m]
    /\ Issue(m, clock[m], 0) /\ Unlock(m)
    /\ UNCHANGED <<clock, setbacks, asleep>>

FirstOfMillisecond(m) ==
    /\ Reads(m) /\ clock[m] > last_millisecond[m]
    /\ Issue(m, clock[m], 0) /\ Unlock(m)
    /\ UNCHANGED <<clock, setbacks, asleep>>

\* Mutant of Exhausted: a millisecond never runs out of numbers.
NeverExhausted(m) == FALSE

\* last_id > 4095: tested before the increment, so that SeqSpan is handed out.
Exhausted(m) == last_id[m] > SeqSpan - 1

NextOfMillisecond(m) ==
    /\ Reads(m) /\ clock[m] = last_millisecond[m] /\ ~Exhausted(m)
    /\ Issue(m, clock[m], last_id[m] + 1) /\ Unlock(m)
    /\ UNCHANGED <<clock, setbacks, asleep>>

\* The millisecond is used up, or the clock is behind it: sleep(1), with the
\* mutex held, and again from the start.
Sleeps(m) ==
    /\ Reads(m)
    /\ \/ clock[m] = last_millisecond[m] /\ Exhausted(m)
       \/ clock[m] < last_millisecond[m]
    /\ asleep' = [asleep EXCEPT ![m] = TRUE]
    /\ UNCHANGED <<clock, setbacks, static, mux, issued>>

\* Mutant of Wakes: it waits for another number instead of a later millisecond.
WakesWhenReset(m) ==
    /\ asleep[m] /\ ~Exhausted(m)
    /\ asleep' = [asleep EXCEPT ![m] = FALSE]
    /\ UNCHANGED <<clock, setbacks, static, mux, issued>>

Wakes(m) ==
    /\ asleep[m]
    /\ asleep' = [asleep EXCEPT ![m] = FALSE]
    /\ UNCHANGED <<clock, setbacks, static, mux, issued>>

GetMaxID(m) == \/ ReadFails(m) \/ FirstOfMillisecond(m) \/ NextOfMillisecond(m)
               \/ Sleeps(m) \/ Wakes(m)

-----------------------------------------------------------------------------
(* The clocks *)

Ticks(m) ==
    /\ clock[m] < MaxClock
    /\ clock' = [clock EXCEPT ![m] = @ + 1]
    /\ UNCHANGED <<setbacks, static, mux, asleep, issued>>

IsSetBack(m) ==
    /\ setbacks[m] < MaxSetBacks
    /\ setbacks' = [setbacks EXCEPT ![m] = @ + 1]
    /\ \E t \in 1..MaxClock : t < clock[m] /\ clock' = [clock EXCEPT ![m] = t]
    /\ UNCHANGED <<static, mux, asleep, issued>>

-----------------------------------------------------------------------------

Init ==
    /\ clock = [m \in Machines |-> 1]
    /\ setbacks = [m \in Machines |-> 0]
    /\ last_millisecond = [m \in Machines |-> 0]
    /\ last_id = [m \in Machines |-> 0]
    /\ mux = [m \in Machines |-> NULL]
    /\ asleep = [m \in Machines |-> FALSE]
    /\ issued = [m \in Machines |-> << >>]

Next == \E m \in Machines :
           (\E c \in Callers[m] : Locks(m, c)) \/ GetMaxID(m) \/ Ticks(m) \/ IsSetBack(m)

Spec == Init /\ [][Next]_vars

\* Time passes, and a thread inside GetMaxID goes on.
FairSpec == Spec /\ \A m \in Machines : WF_vars(Ticks(m)) /\ WF_vars(GetMaxID(m))

-----------------------------------------------------------------------------
(* Properties *)

Entry == [ms : Nat, seq : 0..SeqSpan]

\* The state has its shape; the number within a millisecond needs at most one
\* bit more than there is below the machine's.
TypeOK ==
    /\ clock \in [Machines -> Nat] /\ setbacks \in [Machines -> Nat]
    /\ last_millisecond \in [Machines -> Nat] /\ last_id \in [Machines -> 0..SeqSpan]
    /\ mux \in [Machines -> (UNION {Callers[m] : m \in Machines}) \cup {NULL}]
    /\ asleep \in [Machines -> BOOLEAN]
    /\ issued \in [Machines -> Seq(Entry)]

Before(a, b) == a.ms < b.ms \/ (a.ms = b.ms /\ a.seq < b.seq)

\* Whatever the clock does, the ids of a process are handed out in increasing
\* order of time and number: a clock that was set back makes GetMaxID wait, not
\* hand out a second time what it has handed out.
IssuedInOrder ==
    \A m \in Machines : \A i, j \in DOMAIN issued[m] : i < j => Before(issued[m][i], issued[m][j])

\* Two urls get the same id, on one machine or on two, only if one of them got
\* the number SeqSpan that line 81 lets through, or if the 64 bits wrapped
\* round between them.
IdsUnique ==
    \A m, n \in Machines : \A i \in DOMAIN issued[m], j \in DOMAIN issued[n] :
        LET a == issued[m][i]
            b == issued[n][j]
        IN  (m # n \/ i # j) /\ Id(m, a) = Id(n, b) =>
                \/ Carried(a) \/ Carried(b)
                \/ a.ms # b.ms /\ a.ms % MsSpan = b.ms % MsSpan

\* GetMaxID does not keep the mutex for ever: a millisecond that is used up and
\* a clock that was set back pass.  Only the bounds of the model, on time and on
\* the number of ids, leave it waiting.
MutexReleased ==
    \A m \in Machines : mux[m] # NULL ~>
        \/ mux[m] = NULL
        \/ clock[m] = MaxClock /\ clock[m] <= last_millisecond[m]
        \/ Len(issued[m]) = MaxIds
=============================================================================
