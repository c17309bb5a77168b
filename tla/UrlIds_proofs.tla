---------------------------- MODULE UrlIds_proofs ----------------------------
(***************************************************************************)
(* Proofs about UrlIds for any number of machines and callers, any widths  *)
(* of the three parts of an id, and clocks that are set back at will: the  *)
(* ids of a process are handed out in increasing order, and two ids are    *)
(* the same only where the arithmetic of the code makes them so.           *)
(***************************************************************************)
EXTENDS UrlIds, TLAPS

\* The last id that was handed out, which everything issued before precedes.
LastIssued(m) == [ms |-> last_millisecond[m], seq |-> last_id[m]]

AtMostLast ==
    \A m \in Machines : \A i \in DOMAIN issued[m] :
        Before(issued[m][i], LastIssued(m)) \/ issued[m][i] = LastIssued(m)

IndInv == TypeOK /\ IssuedInOrder /\ AtMostLast

-----------------------------------------------------------------------------
(* Arithmetic: a number is split into a multiple of N and a rest in one way. *)

\* The bigger multiple is bigger, whatever the rests below it are.
LEMMA MultipleBigger ==
    ASSUME NEW N \in Nat \ {0}, NEW a \in Nat, NEW b \in Nat, a < b,
           NEW r \in 0..(N - 1), NEW s \in 0..(N - 1)
    PROVE  a * N + r < b * N + s
<1> DEFINE d == b - a - 1
<1>1. d \in Nat /\ b = a + 1 + d
  OBVIOUS
<1> HIDE DEF d
<1>2. (a + 1 + d) * N = a * N + N + d * N
  BY <1>1
<1>3. a * N \in Nat /\ d * N \in Nat
  BY <1>1
<1>4. b * N = a * N + N + d * N
  BY <1>1, <1>2
<1> QED BY <1>3, <1>4

\* The two parts of a number are known from it.
LEMMA PartsUnique ==
    ASSUME NEW N \in Nat \ {0}, NEW a \in Nat, NEW b \in Nat,
           NEW r \in 0..(N - 1), NEW s \in 0..(N - 1),
           a * N + r = b * N + s
    PROVE  a = b /\ r = s
<1>1. a * N \in Nat /\ b * N \in Nat
  OBVIOUS
<1>2. ~(a < b)
  BY <1>1, MultipleBigger
<1>3. ~(b < a)
  BY <1>1, MultipleBigger
<1>4. a = b
  BY <1>2, <1>3
<1> QED BY <1>1, <1>4

\* An id whose number fits below the machine tells the millisecond (as far as
\* it fits), the machine and the number.
LEMMA IdInjective ==
    ASSUME NEW m \in Machines, NEW n \in Machines, NEW a \in Entry, NEW b \in Entry,
           ~Carried(a), ~Carried(b), Id(m, a) = Id(n, b)
    PROVE  a.ms % MsSpan = b.ms % MsSpan /\ m = n /\ a.seq = b.seq
<1> DEFINE x == a.ms % MsSpan
           y == b.ms % MsSpan
<1>1. x \in Nat /\ y \in Nat
  BY SpanAssumption DEF Entry
<1>2. /\ SeqSpan \in Nat \ {0} /\ PcSpan \in Nat \ {0}
      /\ m \in 0..(PcSpan - 1) /\ n \in 0..(PcSpan - 1)
  BY SpanAssumption, MachineAssumption
<1>3. /\ a.seq \in 0..(SeqSpan - 1) /\ a.seq % SeqSpan = a.seq
      /\ b.seq \in 0..(SeqSpan - 1) /\ b.seq % SeqSpan = b.seq
  BY <1>2 DEF Entry, Carried
<1>4. /\ Id(m, a) = (x * PcSpan + m) * SeqSpan + a.seq
      /\ Id(n, b) = (y * PcSpan + n) * SeqSpan + b.seq
  BY <1>3 DEF Id, Pc
<1> HIDE DEF x, y
<1>5. x * PcSpan + m \in Nat /\ y * PcSpan + n \in Nat
  BY <1>1, <1>2
<1>6. x * PcSpan + m = y * PcSpan + n /\ a.seq = b.seq
  <2> DEFINE u == x * PcSpan + m
             v == y * PcSpan + n
             r == a.seq
             s == b.seq
  <2>1. /\ u \in Nat /\ v \in Nat /\ r \in 0..(SeqSpan - 1) /\ s \in 0..(SeqSpan - 1)
        /\ u * SeqSpan + r = v * SeqSpan + s
    BY <1>3, <1>4, <1>5
  <2>2. SeqSpan \in Nat \ {0}
    BY <1>2
  <2> HIDE DEF u, v, r, s
  <2>3. u = v /\ r = s
    BY <2>1, <2>2, PartsUnique
  <2> QED BY <2>3 DEF u, v, r, s
<1>7. x = y /\ m = n
  BY <1>1, <1>2, <1>6, PartsUnique
<1> QED BY <1>6, <1>7 DEF x, y

-----------------------------------------------------------------------------
(* The invariant *)

\* What handing out an id does, if it is after the last one.
LEMMA IssueKeeps ==
    ASSUME IndInv, NEW m \in Machines, NEW ms \in Nat, NEW k \in 0..SeqSpan,
           Issue(m, ms, k), Before(LastIssued(m), [ms |-> ms, seq |-> k])
    PROVE  /\ last_millisecond' \in [Machines -> Nat] /\ last_id' \in [Machines -> 0..SeqSpan]
           /\ issued' \in [Machines -> Seq(Entry)]
           /\ IssuedInOrder' /\ AtMostLast'
<1> DEFINE e == [ms |-> ms, seq |-> k]
<1>1. e \in Entry
  BY DEF Entry
<1>2. /\ last_millisecond' = [last_millisecond EXCEPT ![m] = ms]
      /\ last_id' = [last_id EXCEPT ![m] = k]
      /\ issued' = [issued EXCEPT ![m] = Append(@, e)]
  BY DEF Issue
<1>3. /\ last_millisecond \in [Machines -> Nat] /\ last_id \in [Machines -> 0..SeqSpan]
      /\ issued \in [Machines -> Seq(Entry)]
  BY DEF IndInv, TypeOK
<1>4. issued' \in [Machines -> Seq(Entry)]
  BY <1>1, <1>2, <1>3
<1>5. last_millisecond' \in [Machines -> Nat] /\ last_id' \in [Machines -> 0..SeqSpan]
  BY <1>2, <1>3
<1>6. /\ issued'[m] = Append(issued[m], e)
      /\ LastIssued(m)' = e
  BY <1>2, <1>3 DEF LastIssued
<1>7. ASSUME NEW o \in Machines, o # m
      PROVE  issued'[o] = issued[o] /\ LastIssued(o)' = LastIssued(o)
  BY <1>2, <1>3, <1>7 DEF LastIssued
<1>8. ASSUME NEW i \in DOMAIN issued[m]
      PROVE  issued[m][i] \in Entry /\ Before(issued[m][i], e)
  <2>1. issued[m][i] \in Entry
    BY <1>3, <1>8
  <2>2. Before(issued[m][i], LastIssued(m)) \/ issued[m][i] = LastIssued(m)
    BY <1>8 DEF IndInv, AtMostLast
  <2>3. LastIssued(m).ms \in Nat /\ LastIssued(m).seq \in Nat
    BY <1>3, SpanAssumption DEF LastIssued
  <2> QED BY <2>1, <2>2, <2>3, SpanAssumption DEF Before, Entry
<1>9. /\ DOMAIN issued'[m] = DOMAIN issued[m] \cup {Len(issued[m]) + 1}
      /\ DOMAIN issued[m] = 1..Len(issued[m])
      /\ Len(issued[m]) \in Nat
      /\ \A i \in DOMAIN issued[m] : issued'[m][i] = issued[m][i]
      /\ issued'[m][Len(issued[m]) + 1] = e
  BY <1>1, <1>3, <1>6
<1>10. IssuedInOrder'
  <2> SUFFICES ASSUME NEW o \in Machines, NEW i \in DOMAIN issued'[o], NEW j \in DOMAIN issued'[o],
                      i < j
               PROVE  Before(issued'[o][i], issued'[o][j])
    BY DEF IssuedInOrder, Before
  <2>1. CASE o # m
    BY <1>7, <2>1 DEF IndInv, IssuedInOrder
  <2>2. CASE o = m /\ j \in DOMAIN issued[m]
    <3>1. i \in DOMAIN issued[m]
      BY <1>9, <2>2
    <3> QED BY <1>9, <2>2, <3>1 DEF IndInv, IssuedInOrder
  <2>3. CASE o = m /\ j = Len(issued[m]) + 1
    <3>1. i \in DOMAIN issued[m]
      BY <1>9, <2>3
    <3> QED BY <1>8, <1>9, <2>3, <3>1
  <2> QED BY <1>9, <2>1, <2>2, <2>3
<1>11. AtMostLast'
  <2> SUFFICES ASSUME NEW o \in Machines, NEW i \in DOMAIN issued'[o]
               PROVE  \/ Before(issued'[o][i], LastIssued(o)')
                      \/ issued'[o][i] = LastIssued(o)'
    BY DEF AtMostLast, Before
  <2>1. CASE o # m
    BY <1>7, <2>1 DEF IndInv, AtMostLast
  <2>2. CASE o = m /\ i \in DOMAIN issued[m]
    BY <1>6, <1>8, <1>9, <2>2
  <2>3. CASE o = m /\ i = Len(issued[m]) + 1
    BY <1>6, <1>9, <2>3
  <2> QED BY <1>9, <2>1, <2>2, <2>3
<1> QED BY <1>4, <1>5, <1>10, <1>11

\* The invariant holds at the start.
LEMMA InitInv == Init => IndInv
<1> SUFFICES ASSUME Init PROVE IndInv
  OBVIOUS
<1>1. 0 \in 0..SeqSpan /\ << >> \in Seq(Entry)
  BY SpanAssumption
<1>2. TypeOK
  BY <1>1 DEF Init, TypeOK
<1>3. ASSUME NEW m \in Machines, NEW i \in DOMAIN issued[m] PROVE FALSE
  <2>1. issued[m] = << >> /\ issued[m] \in Seq(Entry)
    BY <1>1 DEF Init
  <2>2. i \in 1..0
    BY <1>3, <2>1
  <2> QED BY <2>2
<1> QED BY <1>2, <1>3 DEF IndInv, IssuedInOrder, AtMostLast

\* A step that hands out nothing keeps what is about issued.
LEMMA NothingIssued ==
    ASSUME IndInv, UNCHANGED <<static, issued>>
    PROVE  /\ last_millisecond' \in [Machines -> Nat] /\ last_id' \in [Machines -> 0..SeqSpan]
           /\ issued' \in [Machines -> Seq(Entry)]
           /\ IssuedInOrder' /\ AtMostLast'
BY DEF IndInv, TypeOK, IssuedInOrder, AtMostLast, LastIssued, static, Before

\* Every step keeps the invariant.
LEMMA NextInv == IndInv /\ [Next]_vars => IndInv'
<1> SUFFICES ASSUME IndInv, [Next]_vars PROVE IndInv'
  OBVIOUS
<1> USE DEF IndInv
<1>1. CASE UNCHANGED vars
  BY <1>1, NothingIssued DEF vars, TypeOK
<1>2. ASSUME NEW m \in Machines, NEW c \in Callers[m], Locks(m, c) PROVE IndInv'
  BY <1>2, NothingIssued DEF Locks, TypeOK
<1>3. ASSUME NEW m \in Machines, ReadFails(m) PROVE IndInv'
  BY <1>3, NothingIssued DEF ReadFails, Unlock, TypeOK
<1>4. ASSUME NEW m \in Machines, FirstOfMillisecond(m) PROVE IndInv'
  <2>1. clock[m] \in Nat /\ 0 \in 0..SeqSpan
    BY SpanAssumption DEF TypeOK
  <2>2. Before(LastIssued(m), [ms |-> clock[m], seq |-> 0])
    BY <1>4 DEF FirstOfMillisecond, Before, LastIssued
  <2>3. Issue(m, clock[m], 0)
    BY <1>4 DEF FirstOfMillisecond
  <2>4. /\ last_millisecond' \in [Machines -> Nat] /\ last_id' \in [Machines -> 0..SeqSpan]
        /\ issued' \in [Machines -> Seq(Entry)]
        /\ IssuedInOrder' /\ AtMostLast'
    BY <2>1, <2>2, <2>3, IssueKeeps
  <2> QED BY <1>4, <2>4 DEF FirstOfMillisecond, Unlock, TypeOK
<1>5. ASSUME NEW m \in Machines, NextOfMillisecond(m) PROVE IndInv'
  <2>1. clock[m] \in Nat /\ last_id[m] + 1 \in 0..SeqSpan
    BY <1>5, SpanAssumption DEF TypeOK, NextOfMillisecond, Exhausted
  <2>2. Before(LastIssued(m), [ms |-> clock[m], seq |-> last_id[m] + 1])
    BY <1>5, SpanAssumption DEF NextOfMillisecond, Before, LastIssued, TypeOK
  <2>3. Issue(m, clock[m], last_id[m] + 1)
    BY <1>5 DEF NextOfMillisecond
  <2>4. /\ last_millisecond' \in [Machines -> Nat] /\ last_id' \in [Machines -> 0..SeqSpan]
        /\ issued' \in [Machines -> Seq(Entry)]
        /\ IssuedInOrder' /\ AtMostLast'
    BY <2>1, <2>2, <2>3, IssueKeeps
  <2> QED BY <1>5, <2>4 DEF NextOfMillisecond, Unlock, TypeOK
<1>6. ASSUME NEW m \in Machines, Sleeps(m) PROVE IndInv'
  BY <1>6, NothingIssued DEF Sleeps, TypeOK
<1>7. ASSUME NEW m \in Machines, Wakes(m) PROVE IndInv'
  BY <1>7, NothingIssued DEF Wakes, TypeOK
<1>8. ASSUME NEW m \in Machines, Ticks(m) PROVE IndInv'
  BY <1>8, NothingIssued DEF Ticks, TypeOK
<1>9. ASSUME NEW m \in Machines, IsSetBack(m) PROVE IndInv'
  BY <1>9, NothingIssued DEF IsSetBack, TypeOK
<1> QED BY <1>1, <1>2, <1>3, <1>4, <1>5, <1>6, <1>7, <1>8, <1>9 DEF Next, GetMaxID

\* The inductive invariant is an invariant.
LEMMA Invariant == Spec => []IndInv
BY InitInv, NextInv, PTL DEF Spec

-----------------------------------------------------------------------------
(* The theorems *)

\* TypeOK: in particular, the number within a millisecond that GetMaxID hands
\* out needs at most one value more than fits (the test of line 81).
THEOREM TypeCorrect == Spec => []TypeOK
<1>1. IndInv => TypeOK
  BY DEF IndInv
<1> QED BY <1>1, Invariant, PTL

\* IssuedInOrder: GetMaxID never hands out a millisecond and number again, nor
\* an earlier one, however often the clock is set back.
THEOREM IssuedInOrderHolds == Spec => []IssuedInOrder
<1>1. IndInv => IssuedInOrder
  BY DEF IndInv
<1> QED BY <1>1, Invariant, PTL

\* IdsUnique: ids of all machines are different but for the two overflows of
\* the arithmetic, the number SeqSpan of line 81 and the 64 bits of the shift.
THEOREM IdsUniqueHolds == Spec => []IdsUnique
<1>1. IndInv => IdsUnique
  <2> SUFFICES ASSUME IndInv, NEW m \in Machines, NEW n \in Machines,
                      NEW i \in DOMAIN issued[m], NEW j \in DOMAIN issued[n],
                      m # n \/ i # j, Id(m, issued[m][i]) = Id(n, issued[n][j]),
                      ~Carried(issued[m][i]), ~Carried(issued[n][j])
               PROVE  /\ issued[m][i].ms # issued[n][j].ms
                      /\ issued[m][i].ms % MsSpan = issued[n][j].ms % MsSpan
    BY DEF IdsUnique
  <2> DEFINE a == issued[m][i]
             b == issued[n][j]
  <2>1. a \in Entry /\ b \in Entry
    BY DEF IndInv, TypeOK
  <2>2. a.ms % MsSpan = b.ms % MsSpan /\ m = n /\ a.seq = b.seq
    <3> HIDE DEF a, b
    <3>1. Id(m, a) = Id(n, b) /\ ~Carried(a) /\ ~Carried(b)
      BY DEF a, b
    <3> QED BY <2>1, <3>1, IdInjective
  <2>3. i \in Nat /\ j \in Nat /\ i # j
    BY <2>2 DEF IndInv, TypeOK
  <2>4. Before(a, b) \/ Before(b, a)
    BY <2>2, <2>3 DEF IndInv, IssuedInOrder
  <2>5. a.ms # b.ms
    BY <2>1, <2>2, <2>4, SpanAssumption DEF Before, Entry
  <2> QED BY <2>2, <2>5
<1> QED BY <1>1, Invariant, PTL
=============================================================================
