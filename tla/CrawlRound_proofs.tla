-------------------------- MODULE CrawlRound_proofs --------------------------
(***************************************************************************)
(* Proofs of the safety properties of CrawlRound, for any number of        *)
(* fetching threads, any urls, links and next pages and any limits.        *)
(*                                                                         *)
(* That no thread follows a stale pointer rests on the count: a fetching   *)
(* thread with a pointer has a url in hand, so Outstanding is not 0, and   *)
(* a round is deleted only when its count, which is not below Outstanding, *)
(* has met 0.  getTaskThread has no url in hand; alreadyused keeps its     *)
(* round.  The thread that takes a url off the count therefore knows that  *)
(* the round is there, and the count never goes below 0.                   *)
(***************************************************************************)
EXTENDS CrawlRound, FiniteSetTheorems, TLAPS

\* Where thread p, with local state l, can be, and what it has at hand there.
Fits(p, l) ==
    /\ IF p = Getter THEN l.pc \in {"wait", "home", "find", "add", "count", "push"}
       ELSE l.pc \notin {"wait", "home"}
    /\ Inserting(l) => l.ins \in Insert /\ (l.ins.kind = "home" <=> p = Getter)
    /\ HasPage(l) => l.cur \in UrlNode
    /\ l.pc = "outer" => l.ptr \in Rounds /\ outerSeen > 0

Labelled == \A p \in Threads : Fits(p, th[p])

\* Only the holder of the lock of the table of unfetched urls has rows of it.
HasRows(l) == l.pc = "load" \/ HasLoaded(l) \/ l.rows # << >>
RowsHeld == \A p \in Threads : HasRows(th[p]) => tablelock = p

\* The round in the map is the last one and the only one that is alive; those
\* to come are as new.
OneRound ==
    /\ tasksothermap \in {round, NULL}
    /\ \A r \in Rounds : other[r].live <=> r = tasksothermap
    /\ \A r \in Rounds : r > round => other[r].urlnum = 0

\* getTaskThread has marked the round that it works on.
GetterUses ==
    IF th[Getter].pc = "wait"
    THEN /\ th[Getter].todo = {}
         /\ tasksothermap # NULL => ~other[tasksothermap].alreadyused
    ELSE tasksothermap # NULL /\ other[tasksothermap].alreadyused

\* The pointers that insertUrl and decreaseTaskUrlNum follow.
Follows(l) == l.pc \in {"find", "add", "count", "uncount"}
PointersFresh == \A p \in Threads : Follows(th[p]) => th[p].ptr = tasksothermap

Counted == IF tasksothermap = NULL THEN Outstanding = 0
           ELSE /\ other[tasksothermap].urlnum >= Outstanding
                /\ ~leaked => other[tasksothermap].urlnum = Outstanding

\* Without pages from outside and with one home url, a round has its first url
\* counted once: before that nobody can end it, and when the count has met 0
\* nothing counts any more, so that one thread at most is about to end it.
Plain == outerSeen = 0 /\ Cardinality(HomeUrls) <= 1
Uncounted(l) == l.todo # {} \/ l.pc \in {"find", "add", "count"}
Pending == Uncounted(th[Getter])
CountIsZero == tasksothermap # NULL /\ other[tasksothermap].urlnum = 0
EndsOnce ==
    /\ outer <= outerSeen
    /\ Plain =>
         /\ \A u, v \in th[Getter].todo : u = v
         /\ Inserting(th[Getter]) => th[Getter].todo = {}
         /\ Pending => CountIsZero /\ \A p \in Threads : th[p].pc # "end"
         /\ \A p \in Threads : th[p].pc = "end" =>
               CountIsZero /\ \A q \in Threads : th[q].pc = "end" => q = p

Sound == /\ Labelled /\ RowsHeld /\ OneRound /\ GetterUses /\ PointersFresh
         /\ Counted /\ EndsOnce

\* The inductive invariant; the model stops when something is broken.
IndInv == /\ TypeOK /\ NoStrayAccess /\ NotEndedEarly
          /\ broken = "no" => Sound

-----------------------------------------------------------------------------
(* Counting what is outstanding. *)

Bit(b) == IF b THEN 1 ELSE 0

\* The urls that a thread with local state l has in hand.
Weight(l) == Len(l.rows) + Bit(HasPage(l)) + Bit(HasLoaded(l)) + Bit(l.pc = "push")

\* Two sets that differ in p at most.
LEMMA OneMember ==
    ASSUME NEW S, NEW T, IsFiniteSet(S), IsFiniteSet(T), NEW p, S \ {p} = T \ {p}
    PROVE  Cardinality(T) + Bit(p \in S) = Cardinality(S) + Bit(p \in T)
<1> DEFINE U == S \ {p}
<1>1. IsFiniteSet(U) /\ Cardinality(U) \in Nat
  BY FS_RemoveElement, FS_CardinalityType
<1>2. ASSUME NEW V, IsFiniteSet(V), V \ {p} = U
      PROVE  Cardinality(V) = Cardinality(U) + Bit(p \in V)
  <2>1. CASE p \in V
    <3>1. V = U \cup {p} /\ p \notin U
      BY <1>2, <2>1
    <3> QED BY <1>1, <2>1, <3>1, FS_AddElement DEF Bit
  <2>2. CASE p \notin V
    <3>1. V = U
      BY <1>2, <2>2
    <3> QED BY <1>1, <2>2, <3>1 DEF Bit
  <2> QED BY <2>1, <2>2
<1>3. /\ Cardinality(S) = Cardinality(U) + Bit(p \in S)
      /\ Cardinality(T) = Cardinality(U) + Bit(p \in T)
  BY <1>2
<1>4. Bit(p \in S) \in Nat /\ Bit(p \in T) \in Nat
  BY DEF Bit
<1> QED BY <1>1, <1>3, <1>4

\* There are finitely many threads.
LEMMA ThreadsFinite == IsFiniteSet(Threads) /\ \A S \in SUBSET Threads : IsFiniteSet(S)
<1>1. IsFiniteSet(Threads)
  BY CrawlAssumption, FS_AddElement DEF Threads
<1> QED BY <1>1, FS_Subset

\* The sets that are counted are finite, and so is their number.
LEMMA CountsAreNumbers ==
    ASSUME TypeOK
    PROVE  /\ IsFiniteSet(Working) /\ IsFiniteSet(Loading) /\ IsFiniteSet(Pushing)
           /\ Cardinality(Working) \in Nat /\ Cardinality(Loading) \in Nat
           /\ Cardinality(Pushing) \in Nat
           /\ RowsLoaded \in Nat /\ Outstanding \in Nat
           /\ Len(queue) \in Nat /\ Len(unfetched) \in Nat
           /\ \A p \in Threads : Weight(th[p]) \in Nat /\ Len(th[p].rows) \in Nat
<1>2. IsFiniteSet(Working) /\ IsFiniteSet(Loading) /\ IsFiniteSet(Pushing)
  <2>1. Working \subseteq Threads /\ Loading \subseteq Threads /\ Pushing \subseteq Threads
    BY DEF Working, Loading, Pushing
  <2> QED BY <2>1, ThreadsFinite
<1>3. /\ Cardinality(Working) \in Nat /\ Cardinality(Loading) \in Nat
      /\ Cardinality(Pushing) \in Nat
  BY <1>2, FS_CardinalityType
<1>4. Len(queue) \in Nat /\ Len(unfetched) \in Nat
  BY DEF TypeOK
<1>5. \A p \in Threads : th[p].rows \in Seq(UrlNode) /\ Len(th[p].rows) \in Nat
  <2>1. \A p \in Threads : th[p].rows \in Seq(UrlNode)
    BY DEF TypeOK, Local
  <2> QED BY <2>1
<1>6. \A p \in Threads : Weight(th[p]) \in Nat
  <2>1. \A p \in Threads : /\ Bit(HasPage(th[p])) \in Nat /\ Bit(HasLoaded(th[p])) \in Nat
                            /\ Bit(th[p].pc = "push") \in Nat
    BY DEF Bit
  <2> QED BY <1>5, <2>1 DEF Weight
<1>7. RowsLoaded \in Nat
  BY <1>5 DEF RowsLoaded, TypeOK, Threads
<1>8. Outstanding \in Nat
  BY <1>3, <1>4, <1>7 DEF Outstanding
<1> QED BY <1>2, <1>3, <1>4, <1>5, <1>6, <1>7, <1>8

\* A step of one thread changes its own local state.
LEMMA MovesFacts ==
    ASSUME TypeOK, NEW p \in Threads, NEW l \in Local, Moves(p, l)
    PROVE  /\ th' \in [Threads -> Local] /\ th'[p] = l
           /\ \A q \in Threads : q # p => th'[q] = th[q]
BY DEF TypeOK, Moves

\* The rows of the table change hands with its lock.
Locks(p, l) == /\ \/ tablelock' = tablelock
                  \/ tablelock = NULL /\ tablelock' = p
                  \/ tablelock = p /\ tablelock' = NULL
               /\ HasRows(l) => tablelock' = p

\* How a step of one thread changes Outstanding.
LEMMA OutstandingStep ==
    ASSUME TypeOK, TypeOK', RowsHeld, NEW p \in Threads, NEW l \in Local, Moves(p, l),
           Locks(p, l)
    PROVE  Outstanding' + Len(queue) + Len(unfetched) + Weight(th[p])
              = Outstanding + Len(queue') + Len(unfetched') + Weight(l)
<1>1. /\ th'[p] = l
      /\ \A q \in Threads : q # p => th'[q] = th[q]
  BY MovesFacts
<1>2. \A q \in Threads : q # p => (HasPage(th'[q]) <=> HasPage(th[q]))
                                  /\ (HasLoaded(th'[q]) <=> HasLoaded(th[q]))
                                  /\ (th'[q].pc = "push" <=> th[q].pc = "push")
  BY <1>1
<1>3. Cardinality(Working') + Bit(HasPage(th[p])) = Cardinality(Working) + Bit(HasPage(l))
  <2>1. Working' = {q \in Threads : HasPage(th'[q])} /\ Working = {q \in Threads : HasPage(th[q])}
    BY DEF Working, HasPage, Inserting
  <2>2. Working' \ {p} = Working \ {p}
    BY <1>2, <2>1
  <2>3. IsFiniteSet(Working) /\ IsFiniteSet(Working')
    BY <2>1, ThreadsFinite
  <2>4. Cardinality(Working') + Bit(p \in Working) = Cardinality(Working) + Bit(p \in Working')
    BY <2>2, <2>3, OneMember
  <2> QED BY <1>1, <2>1, <2>4 DEF Bit
<1>4. Cardinality(Loading') + Bit(HasLoaded(th[p])) = Cardinality(Loading) + Bit(HasLoaded(l))
  <2>1. Loading' = {q \in Threads : HasLoaded(th'[q])} /\ Loading = {q \in Threads : HasLoaded(th[q])}
    BY DEF Loading, HasLoaded, Inserting
  <2>2. Loading' \ {p} = Loading \ {p}
    BY <1>2, <2>1
  <2>3. IsFiniteSet(Loading) /\ IsFiniteSet(Loading')
    BY <2>1, ThreadsFinite
  <2>4. Cardinality(Loading') + Bit(p \in Loading) = Cardinality(Loading) + Bit(p \in Loading')
    BY <2>2, <2>3, OneMember
  <2> QED BY <1>1, <2>1, <2>4 DEF Bit
<1>5. Cardinality(Pushing') + Bit(th[p].pc = "push") = Cardinality(Pushing) + Bit(l.pc = "push")
  <2>1. Pushing' \ {p} = Pushing \ {p}
    BY <1>2 DEF Pushing
  <2>2. IsFiniteSet(Pushing) /\ IsFiniteSet(Pushing')
    BY ThreadsFinite DEF Pushing
  <2>3. Cardinality(Pushing') + Bit(p \in Pushing) = Cardinality(Pushing) + Bit(p \in Pushing')
    BY <2>1, <2>2, OneMember
  <2> QED BY <1>1, <2>3 DEF Bit, Pushing
<1>6. RowsLoaded' + Len(th[p].rows) = RowsLoaded + Len(l.rows)
  <2> DEFINE m == Len(th[p].rows)  n == Len(l.rows)
  <2>1. m \in Nat /\ n \in Nat
    <3>1. th[p].rows \in Seq(UrlNode) /\ l.rows \in Seq(UrlNode)
      BY DEF TypeOK, Local
    <3> QED BY <3>1
  <2>2. (tablelock # p => m = 0) /\ (tablelock' # p => n = 0)
    BY DEF RowsHeld, HasRows, Locks
  <2>3. p # NULL
    BY CrawlAssumption DEF Threads
  <2>4. /\ tablelock = p => RowsLoaded = m
        /\ tablelock' = p => RowsLoaded' = n
        /\ tablelock = NULL => RowsLoaded = 0
        /\ tablelock' = NULL => RowsLoaded' = 0
        /\ tablelock' = tablelock /\ tablelock # p => RowsLoaded' = RowsLoaded
    BY <1>1, <2>3 DEF RowsLoaded, TypeOK, Threads
  <2>5. RowsLoaded \in Nat
    BY CountsAreNumbers
  <2> HIDE DEF m, n
  <2>6. RowsLoaded' + m = RowsLoaded + n
    BY <2>1, <2>2, <2>3, <2>4, <2>5 DEF Locks
  <2> QED BY <2>6 DEF m, n
<1>7. /\ Cardinality(Working) \in Nat /\ Cardinality(Working') \in Nat
      /\ Cardinality(Loading) \in Nat /\ Cardinality(Loading') \in Nat
      /\ Cardinality(Pushing) \in Nat /\ Cardinality(Pushing') \in Nat
  BY ThreadsFinite, FS_CardinalityType DEF Working, Loading, Pushing
<1>8. /\ Len(queue) \in Nat /\ Len(queue') \in Nat
      /\ Len(unfetched) \in Nat /\ Len(unfetched') \in Nat
  BY DEF TypeOK
<1>9. \A q \in Threads : Len(th[q].rows) \in Nat /\ Len(th'[q].rows) \in Nat
  <2>1. \A q \in Threads : th[q].rows \in Seq(UrlNode) /\ th'[q].rows \in Seq(UrlNode)
    BY DEF TypeOK, Local
  <2> QED BY <2>1
<1>10. RowsLoaded \in Nat /\ RowsLoaded' \in Nat
  BY <1>9 DEF RowsLoaded, TypeOK, Threads
<1>11. /\ Bit(HasPage(th[p])) \in Nat /\ Bit(HasPage(l)) \in Nat
       /\ Bit(HasLoaded(th[p])) \in Nat /\ Bit(HasLoaded(l)) \in Nat
       /\ Bit(th[p].pc = "push") \in Nat /\ Bit(l.pc = "push") \in Nat
  BY DEF Bit
<1>12. Len(th[p].rows) \in Nat /\ Len(l.rows) \in Nat
  BY <1>1, <1>9
<1> DEFINE a == Bit(HasPage(th[p]))      a2 == Bit(HasPage(l))
           b == Bit(HasLoaded(th[p]))    b2 == Bit(HasLoaded(l))
           c == Bit(th[p].pc = "push")   c2 == Bit(l.pc = "push")
           w == Cardinality(Working)     w2 == Cardinality(Working')
           m == Cardinality(Loading)     m2 == Cardinality(Loading')
           h == Cardinality(Pushing)     h2 == Cardinality(Pushing')
           n == Len(th[p].rows)          n2 == Len(l.rows)
           r == RowsLoaded               r2 == RowsLoaded'
           s == Len(queue) + Len(unfetched)
           s2 == Len(queue') + Len(unfetched')
<1>13. /\ a \in Nat /\ a2 \in Nat /\ b \in Nat /\ b2 \in Nat /\ c \in Nat /\ c2 \in Nat
       /\ w \in Nat /\ w2 \in Nat /\ m \in Nat /\ m2 \in Nat /\ h \in Nat /\ h2 \in Nat
       /\ n \in Nat /\ n2 \in Nat /\ r \in Nat /\ r2 \in Nat /\ s \in Nat /\ s2 \in Nat
  <2>1. /\ a \in Nat /\ a2 \in Nat /\ b \in Nat /\ b2 \in Nat /\ c \in Nat /\ c2 \in Nat
    BY <1>11
  <2>2. /\ w \in Nat /\ w2 \in Nat /\ m \in Nat /\ m2 \in Nat /\ h \in Nat /\ h2 \in Nat
    BY <1>7
  <2>3. n \in Nat /\ n2 \in Nat
    BY <1>12
  <2>4. r \in Nat /\ r2 \in Nat
    BY <1>10
  <2>5. s \in Nat /\ s2 \in Nat
    BY <1>8
  <2> QED BY <2>1, <2>2, <2>3, <2>4, <2>5
<1>14. w2 + a = w + a2 /\ m2 + b = m + b2 /\ h2 + c = h + c2 /\ r2 + n = r + n2
  BY <1>3, <1>4, <1>5, <1>6
<1>15. Outstanding = s + r + w + m + h /\ Outstanding' = s2 + r2 + w2 + m2 + h2
  <2>1. Outstanding = s + r + w + m + h
    BY DEF Outstanding
  <2>2. Outstanding' = s2 + r2 + w2 + m2 + h2
    BY DEF Outstanding
  <2> QED BY <2>1, <2>2
<1>16. Weight(th[p]) = n + a + b + c /\ Weight(l) = n2 + a2 + b2 + c2
  BY DEF Weight
<1>17. Len(queue) + Len(unfetched) = s /\ Len(queue') + Len(unfetched') = s2
  OBVIOUS
<1> HIDE DEF a, a2, b, b2, c, c2, w, w2, m, m2, h, h2, n, n2, r, r2, s, s2
<1>18. (s2 + r2 + w2 + m2 + h2) + s + (n + a + b + c)
          = (s + r + w + m + h) + s2 + (n2 + a2 + b2 + c2)
  BY <1>13, <1>14
<1> QED BY <1>8, <1>13, <1>15, <1>16, <1>17, <1>18

\* A thread with something in hand is counted.
LEMMA HandCounted ==
    ASSUME TypeOK, NEW p \in Threads, Weight(th[p]) > 0, RowsHeld
    PROVE  Outstanding > 0
<1> USE CountsAreNumbers
<1>1. CASE th[p].rows # << >>
  <2>1. tablelock = p /\ p # NULL /\ th[p].rows \in Seq(UrlNode)
    BY <1>1, CrawlAssumption DEF RowsHeld, HasRows, Threads, TypeOK, Local
  <2>2. RowsLoaded > 0
    BY <1>1, <2>1 DEF RowsLoaded
  <2> QED BY <2>2 DEF Outstanding
<1>2. ASSUME NEW S, p \in S, IsFiniteSet(S) PROVE Cardinality(S) # 0
  BY <1>2, FS_EmptySet
<1>3. CASE p \in Working
  <2>1. Cardinality(Working) # 0
    BY <1>2, <1>3
  <2> QED BY <2>1 DEF Outstanding
<1>4. CASE p \in Loading
  <2>1. Cardinality(Loading) # 0
    BY <1>2, <1>4
  <2> QED BY <2>1 DEF Outstanding
<1>5. CASE p \in Pushing
  <2>1. Cardinality(Pushing) # 0
    BY <1>2, <1>5
  <2> QED BY <2>1 DEF Outstanding
<1>6. CASE th[p].rows = << >> /\ p \notin Working /\ p \notin Loading /\ p \notin Pushing
  BY <1>6 DEF Weight, Bit, Working, Loading, Pushing
<1> QED BY <1>1, <1>3, <1>4, <1>5, <1>6
-----------------------------------------------------------------------------
(* A step of one thread that leaves the round in its place. *)

\* The round stays where it is; its count may change.
SameRound ==
    /\ tasksothermap' = tasksothermap /\ round' = round /\ outerSeen' = outerSeen
    /\ \A r \in Rounds :
          /\ other'[r].live = other[r].live
          /\ r # tasksothermap => other'[r].urlnum = other[r].urlnum

SameCount == tasksothermap # NULL => other'[tasksothermap].urlnum = other[tasksothermap].urlnum

\* The urls that the step adds to the queues and to p's hands are those that it
\* adds to the count.
Before(p) == Len(queue) + Len(unfetched) + Weight(th[p])
After(l) == Len(queue') + Len(unfetched') + Weight(l)
Balanced(p, l) ==
    /\ tasksothermap = NULL => After(l) <= Before(p)
    /\ tasksothermap # NULL =>
          /\ other[tasksothermap].urlnum + After(l) <= other'[tasksothermap].urlnum + Before(p)
          /\ ~leaked' =>
                other[tasksothermap].urlnum + After(l) = other'[tasksothermap].urlnum + Before(p)
    /\ leaked => leaked'

\* Thread p goes on with local state l.
GoesOn(p, l) ==
    /\ Moves(p, l) /\ Fits(p, l) /\ Locks(p, l)
    /\ Follows(l) => l.ptr = tasksothermap
    /\ SameRound /\ Balanced(p, l)

\* The parts of the invariant that such a step keeps, whoever makes it.
LEMMA ThreadKeeps ==
    ASSUME TypeOK, TypeOK', Sound, NEW p \in Threads, NEW l \in Local, GoesOn(p, l)
    PROVE  Labelled' /\ RowsHeld' /\ OneRound' /\ PointersFresh' /\ Counted'
<1>1. /\ th'[p] = l
      /\ \A q \in Threads : q # p => th'[q] = th[q]
  BY MovesFacts DEF GoesOn
<1>2. Labelled'
  <2>1. \A q \in Threads : q # p => Fits(q, th'[q])
    BY <1>1 DEF Sound, Labelled
  <2>2. \A q \in Threads : Fits(q, th'[q])
    BY <1>1, <2>1 DEF GoesOn
  <2>3. \A q \in Threads : Fits(q, th[q])' <=> Fits(q, th'[q])
    BY DEF Fits, Inserting, HasPage, GoesOn, SameRound
  <2> QED BY <2>2, <2>3 DEF Labelled
<1>3. RowsHeld'
  <2>1. \A q \in Threads : q # p => ~(HasRows(th[q]) /\ tablelock = p)
    BY DEF Sound, RowsHeld
  <2>2. p # NULL /\ NULL \notin Threads
    BY CrawlAssumption DEF Threads
  <2>3. ASSUME NEW q \in Threads, HasRows(th'[q]) PROVE tablelock' = q
    BY <1>1, <2>1, <2>2, <2>3 DEF GoesOn, Locks, Sound, RowsHeld
  <2> QED BY <2>3 DEF RowsHeld, HasRows, HasLoaded, Inserting
<1>4. OneRound'
  <2>1. \A r \in Rounds : r > round => r # tasksothermap
    BY CrawlAssumption DEF Sound, OneRound, TypeOK, Rounds
  <2> QED BY <2>1 DEF GoesOn, SameRound, Sound, OneRound
<1>5. PointersFresh'
  <2>1. \A q \in Threads : Follows(th'[q]) => th'[q].ptr = tasksothermap
    BY <1>1 DEF GoesOn, Sound, PointersFresh
  <2> QED BY <2>1 DEF PointersFresh, Follows, GoesOn, SameRound
<1>6. Counted'
  <2>1. Outstanding' + Len(queue) + Len(unfetched) + Weight(th[p])
           = Outstanding + Len(queue') + Len(unfetched') + Weight(l)
    BY OutstandingStep DEF GoesOn, Sound
  <2>2. /\ Outstanding \in Nat /\ Weight(th[p]) \in Nat
        /\ Len(queue) \in Nat /\ Len(unfetched) \in Nat
    BY CountsAreNumbers
  <2>3. Len(queue') \in Nat /\ Len(unfetched') \in Nat
    BY DEF TypeOK
  <2>4. Outstanding' \in Nat /\ Weight(l) \in Nat
    <3>1. /\ Cardinality(Working') \in Nat /\ Cardinality(Loading') \in Nat
          /\ Cardinality(Pushing') \in Nat
      BY ThreadsFinite, FS_CardinalityType DEF Working, Loading, Pushing
    <3>2. \A q \in Threads : th'[q].rows \in Seq(UrlNode)
      BY DEF TypeOK, Local
    <3>3. \A q \in Threads : Len(th'[q].rows) \in Nat
      BY <3>2
    <3>4. RowsLoaded' \in Nat
      BY <3>3 DEF RowsLoaded, TypeOK, Threads
    <3>5. Outstanding' \in Nat
      BY <2>3, <3>1, <3>4 DEF Outstanding
    <3>6. Bit(HasPage(l)) \in Nat /\ Bit(HasLoaded(l)) \in Nat /\ Bit(l.pc = "push") \in Nat
      BY DEF Bit
    <3> QED BY <1>1, <3>3, <3>5, <3>6 DEF Weight
  <2>5. Before(p) \in Nat /\ After(l) \in Nat /\ Outstanding' + Before(p) = Outstanding + After(l)
    <3> DEFINE u == Weight(th[p])  v == Weight(l)  o == Outstanding  o2 == Outstanding'
               c == Len(queue)  d == Len(unfetched)  c2 == Len(queue')  d2 == Len(unfetched')
    <3>1. /\ u \in Nat /\ c \in Nat /\ d \in Nat /\ o \in Nat
          /\ v \in Nat /\ c2 \in Nat /\ d2 \in Nat /\ o2 \in Nat
      BY <2>2, <2>3, <2>4
    <3>2. o2 + c + d + u = o + c2 + d2 + v
      BY <2>1
    <3>3. Before(p) = c + d + u /\ After(l) = c2 + d2 + v
      BY DEF Before, After
    <3> HIDE DEF u, v, c, d, c2, d2, o, o2
    <3>4. o2 + (c + d + u) = o + (c2 + d2 + v) /\ c + d + u \in Nat /\ c2 + d2 + v \in Nat
      BY <3>1, <3>2
    <3>5. Before(p) \in Nat /\ After(l) \in Nat /\ o2 + Before(p) = o + After(l)
      BY <3>3, <3>4
    <3> QED BY <3>5 DEF o, o2
  <2>6. CASE tasksothermap = NULL
    <3>1. Outstanding = 0 /\ After(l) <= Before(p)
      BY <2>6 DEF Sound, Counted, GoesOn, Balanced
    <3>2. Outstanding' = 0
      BY <2>4, <2>5, <3>1
    <3> QED BY <2>6, <3>2 DEF Counted, GoesOn, SameRound
  <2>7. CASE tasksothermap # NULL
    <3> DEFINE m == other[tasksothermap].urlnum  n == other'[tasksothermap].urlnum
    <3>1. m \in Nat /\ n \in Nat
      BY <2>7 DEF TypeOK, TaskOther, GoesOn, SameRound
    <3>2. /\ m >= Outstanding /\ m + After(l) <= n + Before(p)
          /\ ~leaked' => m = Outstanding /\ m + After(l) = n + Before(p)
      BY <2>7 DEF Sound, Counted, GoesOn, Balanced
    <3> HIDE DEF m, n
    <3>3. n >= Outstanding' /\ (~leaked' => n = Outstanding')
      BY <2>2, <2>4, <2>5, <3>1, <3>2
    <3> QED BY <2>7, <3>3 DEF Counted, GoesOn, SameRound, m, n
  <2> QED BY <2>6, <2>7
<1> QED BY <1>2, <1>3, <1>4, <1>5, <1>6

\* A thread with something in hand works on the task's round, and is counted.
LEMMA HandHasRound ==
    ASSUME TypeOK, Sound, NEW p \in Threads, Weight(th[p]) > 0
    PROVE  /\ tasksothermap \in Rounds /\ tasksothermap # NULL
           /\ other[tasksothermap].urlnum \in Nat /\ other[tasksothermap].urlnum > 0
           /\ ~Pending \/ ~Plain
           /\ Plain => \A q \in Threads : th[q].pc # "end"
<1>1. Outstanding > 0 /\ Outstanding \in Nat
  BY HandCounted, CountsAreNumbers DEF Sound
<1>2. tasksothermap # NULL /\ other[tasksothermap].urlnum >= Outstanding
  BY <1>1 DEF Sound, Counted
<1>3. other[tasksothermap].urlnum \in Nat
  BY <1>2 DEF TypeOK, TaskOther
<1>4. other[tasksothermap].urlnum > 0
  BY <1>1, <1>2, <1>3
<1> QED BY <1>2, <1>3, <1>4 DEF TypeOK, Sound, EndsOnce, CountIsZero

\* What is in hand at each place.
LEMMA Hands ==
    ASSUME TypeOK, NEW p \in Threads
    PROVE  /\ HasPage(th[p]) \/ HasLoaded(th[p]) \/ th[p].pc = "push" \/ th[p].rows # << >>
                 <=> Weight(th[p]) > 0
           /\ Weight(th[p]) \in Nat
<1>1. th[p].rows \in Seq(UrlNode)
  BY DEF TypeOK, Local
<1>2. Len(th[p].rows) \in Nat /\ (th[p].rows = << >> <=> Len(th[p].rows) = 0)
  BY <1>1
<1>3. Bit(HasPage(th[p])) \in Nat /\ Bit(HasLoaded(th[p])) \in Nat /\ Bit(th[p].pc = "push") \in Nat
  BY DEF Bit
<1>4. /\ HasPage(th[p]) <=> Bit(HasPage(th[p])) > 0
      /\ HasLoaded(th[p]) <=> Bit(HasLoaded(th[p])) > 0
      /\ th[p].pc = "push" <=> Bit(th[p].pc = "push") > 0
  BY DEF Bit
<1> DEFINE n == Len(th[p].rows)        a == Bit(HasPage(th[p]))
           b == Bit(HasLoaded(th[p]))  c == Bit(th[p].pc = "push")
<1>5. Weight(th[p]) = n + a + b + c
  BY DEF Weight
<1>6. n \in Nat /\ a \in Nat /\ b \in Nat /\ c \in Nat
  BY <1>2, <1>3
<1>7. (HasPage(th[p]) <=> a > 0) /\ (HasLoaded(th[p]) <=> b > 0) /\ (th[p].pc = "push" <=> c > 0)
      /\ (th[p].rows # << >> <=> n > 0)
  BY <1>2, <1>4
<1> HIDE DEF n, a, b, c
<1>8. n + a + b + c \in Nat /\ (n + a + b + c > 0 <=> n > 0 \/ a > 0 \/ b > 0 \/ c > 0)
  BY <1>6
<1> QED BY <1>5, <1>7, <1>8

\* A thread in insertUrl, and getTaskThread unless it waits, has a round.
LEMMA BusyHasRound ==
    ASSUME TypeOK, Sound, NEW p \in Threads, Inserting(th[p])
    PROVE  /\ tasksothermap \in Rounds /\ tasksothermap # NULL /\ tasksothermap = round
           /\ Alive(tasksothermap) /\ th[p].ins \in Insert
           /\ Follows(th[p]) => th[p].ptr = tasksothermap
           /\ th[p].ins.kind = "home" <=> p = Getter
           /\ th[p].ins.kind # "home" => Weight(th[p]) > 0
<1>1. th[p].ins \in Insert /\ (th[p].ins.kind = "home" <=> p = Getter)
  BY DEF Sound, Labelled, Fits
<1>2. th[p].ins.kind # "home" => HasPage(th[p]) \/ HasLoaded(th[p])
  BY <1>1 DEF HasPage, HasLoaded, Insert, Kinds
<1>3. tasksothermap # NULL
  <2>1. CASE p = Getter
    BY <2>1 DEF Inserting, Sound, GetterUses
  <2>2. CASE p # Getter
    BY <1>1, <1>2, <2>2, Hands, HandHasRound
  <2> QED BY <2>1, <2>2
<1> QED BY <1>1, <1>2, <1>3, Hands DEF TypeOK, Sound, OneRound, Alive, PointersFresh

\* A fetching thread goes on: nothing is counted by a thread that has nothing
\* in hand, and only the thread with the last url goes to end the round.
LEMMA FetcherKeeps ==
    ASSUME TypeOK, TypeOK', Sound, NEW p \in Fetchers, NEW l \in Local, GoesOn(p, l),
           outer' <= outer,
           \A r \in Rounds : other'[r].alreadyused = other[r].alreadyused,
           l.pc = "end" => Weight(th[p]) > 0 /\ other'[tasksothermap].urlnum = 0,
           Weight(th[p]) > 0 \/ ~Plain \/ SameCount
    PROVE  Sound'
<1>1. p \in Threads /\ p # Getter /\ Getter \in Threads /\ NULL \notin Threads
  BY CrawlAssumption DEF Threads
<1>2. Labelled' /\ RowsHeld' /\ OneRound' /\ PointersFresh' /\ Counted'
  BY <1>1, ThreadKeeps
<1>3. /\ th'[p] = l /\ th'[Getter] = th[Getter]
      /\ \A q \in Threads : q # p => th'[q] = th[q]
  BY <1>1, MovesFacts DEF GoesOn
<1>4. /\ tasksothermap' = tasksothermap /\ outerSeen' = outerSeen
      /\ tasksothermap \in Rounds \cup {NULL}
  BY DEF GoesOn, SameRound, TypeOK
<1>5. GetterUses'
  BY <1>3, <1>4 DEF GetterUses, Sound
<1>6. EndsOnce'
  <2>1. outer' <= outerSeen'
    BY <1>4 DEF Sound, EndsOnce, TypeOK
  <2>2. (Plain' <=> Plain) /\ (Pending' <=> Pending)
    BY <1>3, <1>4 DEF Plain, Pending, Uncounted
  <2>3. CASE ~Plain
    BY <2>1, <2>2, <2>3 DEF EndsOnce
  <2>4. Plain => /\ \A u, v \in th'[Getter].todo : u = v
                 /\ Inserting(th'[Getter]) => th'[Getter].todo = {}
    BY <1>3 DEF Sound, EndsOnce
  <2>5. CASE Plain /\ Weight(th[p]) > 0
    <3>1. tasksothermap # NULL /\ ~Pending /\ \A q \in Threads : th[q].pc # "end"
      BY <1>1, <2>5, HandHasRound
    <3>2. \A q \in Threads : th'[q].pc = "end" => q = p
      BY <1>3, <3>1
    <3>3. th'[p].pc = "end" => CountIsZero'
      BY <1>3, <1>4, <3>1 DEF CountIsZero
    <3> QED BY <2>1, <2>2, <2>4, <2>5, <3>1, <3>2, <3>3 DEF EndsOnce, Inserting
  <2>6. CASE Plain /\ ~(Weight(th[p]) > 0)
    <3>1. CountIsZero' <=> CountIsZero
      BY <1>4, <2>6 DEF CountIsZero, SameCount
    <3>2. \A q \in Threads : th'[q].pc = "end" => th[q].pc = "end"
      BY <1>3, <2>6
    <3> QED BY <2>1, <2>2, <2>4, <2>6, <3>1, <3>2 DEF Sound, EndsOnce, Inserting
  <2> QED BY <2>3, <2>5, <2>6
<1> QED BY <1>2, <1>5, <1>6 DEF Sound

\* getTaskThread goes on: it counts its home url, if there is one, once.
LEMMA GetterKeeps ==
    ASSUME TypeOK, TypeOK', Sound, NEW l \in Local, GoesOn(Getter, l), GetterUses',
           outer' = outer, l.todo \subseteq th[Getter].todo,
           Plain /\ Inserting(l) => l.todo = {},
           \/ SameCount /\ (Plain /\ Uncounted(l) => Pending)
           \/ Plain => Pending /\ ~Uncounted(l)
    PROVE  Sound'
<1>1. Getter \in Threads
  BY DEF Threads
<1>2. Labelled' /\ RowsHeld' /\ OneRound' /\ PointersFresh' /\ Counted'
  BY <1>1, ThreadKeeps
<1>3. /\ th'[Getter] = l
      /\ \A q \in Threads : q # Getter => th'[q] = th[q]
  BY <1>1, MovesFacts DEF GoesOn
<1>4. /\ tasksothermap' = tasksothermap /\ outerSeen' = outerSeen
      /\ tasksothermap \in Rounds \cup {NULL}
  BY DEF GoesOn, SameRound, TypeOK
<1>5. EndsOnce'
  <2>1. outer' <= outerSeen'
    BY <1>4 DEF Sound, EndsOnce
  <2>2. (Plain' <=> Plain) /\ (Pending' <=> Uncounted(l))
    BY <1>3, <1>4 DEF Plain, Pending, Uncounted
  <2>3. CASE ~Plain
    BY <2>1, <2>2, <2>3 DEF EndsOnce
  <2>4. Plain => /\ \A u, v \in l.todo : u = v
                 /\ Inserting(l) => l.todo = {}
    BY DEF Sound, EndsOnce
  <2>5. l.pc # "end" /\ th[Getter].pc # "end"
    BY <1>1 DEF GoesOn, Fits, Sound, Labelled
  <2>6. \A q \in Threads : th'[q].pc = "end" <=> th[q].pc = "end"
    BY <1>3, <2>5
  <2>7. CASE Plain /\ SameCount /\ (Uncounted(l) => Pending)
    <3>1. CountIsZero' <=> CountIsZero
      BY <1>4, <2>7 DEF CountIsZero, SameCount
    <3> QED BY <1>3, <2>1, <2>2, <2>4, <2>6, <2>7, <3>1 DEF Sound, EndsOnce, Inserting
  <2>8. CASE Plain /\ Pending /\ ~Uncounted(l)
    <3>1. \A q \in Threads : th'[q].pc # "end"
      BY <2>6, <2>8 DEF Sound, EndsOnce
    <3> QED BY <1>3, <2>1, <2>2, <2>4, <2>8, <3>1 DEF EndsOnce, Inserting
  <2> QED BY <2>3, <2>7, <2>8
<1> QED BY <1>2, <1>5 DEF Sound

-----------------------------------------------------------------------------
(* insertUrl *)

\* The weight is a matter of what is in hand.
LEMMA SameHands ==
    ASSUME NEW k, NEW l, k.rows = l.rows, HasPage(k) <=> HasPage(l),
           HasLoaded(k) <=> HasLoaded(l), k.pc = "push" <=> l.pc = "push"
    PROVE  Weight(k) = Weight(l)
BY DEF Weight, Bit

\* A step that moves nothing between the queues, the hands and the count.
LEMMA Even ==
    ASSUME TypeOK, NEW p \in Threads, NEW l, Weight(l) = Weight(th[p]), SameCount,
           UNCHANGED <<queue, unfetched, tasksothermap>>, leaked' = leaked
    PROVE  Balanced(p, l)
<1>1. Before(p) \in Nat /\ After(l) = Before(p)
  BY CountsAreNumbers DEF Before, After
<1>2. tasksothermap # NULL => other[tasksothermap].urlnum \in Nat
  BY DEF TypeOK, TaskOther
<1> QED BY <1>1, <1>2 DEF Balanced, SameCount

\* A step that loses a url that has been counted.
LEMMA Loses ==
    ASSUME TypeOK, NEW p \in Threads, NEW l, Weight(l) \in Nat, Weight(l) <= Weight(th[p]),
           SameCount, UNCHANGED <<queue, unfetched, tasksothermap>>, leaked'
    PROVE  Balanced(p, l)
<1>1. Before(p) \in Nat /\ After(l) \in Nat /\ After(l) <= Before(p)
  BY CountsAreNumbers DEF Before, After
<1>2. tasksothermap # NULL => other[tasksothermap].urlnum \in Nat
  BY DEF TypeOK, TaskOther
<1> QED BY <1>1, <1>2 DEF Balanced, SameCount

\* A thread in insertUrl goes on.
LEMMA InsertKeeps ==
    ASSUME TypeOK, TypeOK', Sound, NEW p \in Threads, Inserting(th[p]),
           NEW l \in Local, GoesOn(p, l), outer' = outer, l.todo = th[p].todo,
           \A r \in Rounds : other'[r].alreadyused = other[r].alreadyused,
           l.pc \notin {"wait", "end"}, l.pc \in {"find", "add", "count"} \/ ~Follows(l),
           \/ SameCount /\ (Follows(l) => Follows(th[p]))
           \/ th[p].pc = "count" /\ l.pc = "push"
    PROVE  Sound'
<1>1. /\ tasksothermap \in Rounds /\ tasksothermap # NULL
      /\ th[p].ins.kind = "home" <=> p = Getter
      /\ th[p].ins.kind # "home" => Weight(th[p]) > 0
  BY BusyHasRound
<1>2. CASE p # Getter
  <2>1. p \in Fetchers /\ outer' <= outer
    BY <1>2 DEF Threads, TypeOK
  <2> QED BY <1>1, <1>2, <2>1, FetcherKeeps
<1>3. CASE p = Getter
  <2>1. th'[Getter] = l
    BY <1>3, MovesFacts DEF GoesOn
  <2>2. GetterUses'
    <3>1. tasksothermap' = tasksothermap /\ th[Getter].pc # "wait"
      BY <1>3 DEF GoesOn, SameRound, Inserting
    <3>2. other'[tasksothermap].alreadyused
      BY <1>1, <3>1 DEF Sound, GetterUses
    <3> QED BY <1>1, <2>1, <3>1, <3>2 DEF GetterUses
  <2>3. Plain /\ Inserting(l) => l.todo = {}
    BY <1>3 DEF Sound, EndsOnce
  <2>4. SameCount /\ (Follows(l) => Follows(th[p])) => (Plain /\ Uncounted(l) => Pending)
    BY <1>3 DEF Uncounted, Pending, Follows, Inserting
  <2>5. th[p].pc = "count" /\ l.pc = "push" => (Plain => Pending /\ ~Uncounted(l))
    BY <1>3, <2>3 DEF Uncounted, Pending, Inserting
  <2> QED BY <1>3, <2>2, <2>3, <2>4, <2>5, GetterKeeps
<1> QED BY <1>2, <1>3

\* A step within insertUrl.
LEMMA WithinInsert ==
    ASSUME TypeOK, Sound, NEW p \in Threads, Inserting(th[p]), NEW l \in Local, Inserting(l),
           l.ins = th[p].ins, l.cur = th[p].cur, l.rows = th[p].rows
    PROVE  /\ Fits(p, l) /\ (HasRows(l) => HasRows(th[p]))
           /\ (HasPage(l) <=> HasPage(th[p])) /\ (HasLoaded(l) <=> HasLoaded(th[p]))
<1>1. Fits(p, th[p])
  BY DEF Sound, Labelled
<1>2. (HasPage(l) <=> HasPage(th[p])) /\ (HasLoaded(l) <=> HasLoaded(th[p]))
  BY DEF HasPage, HasLoaded, Inserting
<1>3. l.pc \in {"find", "add", "count", "push"}
  BY DEF Inserting
<1>4. Fits(p, l)
  BY <1>1, <1>2, <1>3 DEF Fits
<1>5. HasRows(l) => HasRows(th[p])
  BY <1>2, <1>3 DEF HasRows
<1> QED BY <1>2, <1>4, <1>5

\* The return from insertUrl.
LEMMA AfterInsert ==
    ASSUME TypeOK, Sound, NEW p \in Threads, Inserting(th[p]), NEW l,
           l = [th[p] EXCEPT !.pc = Caller(th[p].ins), !.ins = NULL, !.ptr = NULL]
    PROVE  /\ l \in Local /\ Fits(p, l) /\ (HasRows(l) => HasRows(th[p]))
           /\ l.pc \in {"home", "links", "finish", "load"} /\ l.todo = th[p].todo
           /\ Weight(l) \in Nat
           /\ Weight(th[p]) = Weight(l) + Bit(HasLoaded(th[p])) + Bit(th[p].pc = "push")
           /\ HasLoaded(th[p]) <=> th[p].ins.kind = "load"
<1>1. th[p] \in Local /\ Fits(p, th[p])
  BY DEF TypeOK, Sound, Labelled
<1>2. th[p].ins \in Insert /\ th[p].ins.kind \in Kinds /\ (th[p].ins.kind = "home" <=> p = Getter)
  BY <1>1 DEF Fits, Insert
<1>3. /\ Caller(th[p].ins) \in {"home", "links", "finish", "load"}
      /\ Caller(th[p].ins) = "home" <=> p = Getter
      /\ Caller(th[p].ins) \in {"links", "finish"} <=> HasPage(th[p])
      /\ Caller(th[p].ins) = "load" <=> HasLoaded(th[p])
      /\ HasLoaded(th[p]) <=> th[p].ins.kind = "load"
  BY <1>2 DEF Caller, Kinds, HasPage, HasLoaded, Inserting
<1>4. /\ l \in Local /\ l.pc = Caller(th[p].ins)
      /\ l.todo = th[p].todo /\ l.rows = th[p].rows /\ l.cur = th[p].cur
  BY <1>1, <1>3 DEF Local, Labels
<1>5. ~Inserting(l) /\ l.pc \notin {"outer", "push", "wait"} /\ (HasPage(l) <=> HasPage(th[p]))
      /\ ~HasLoaded(l)
  BY <1>3, <1>4 DEF Inserting, HasPage, HasLoaded
<1>6. Fits(p, l)
  BY <1>1, <1>3, <1>4, <1>5 DEF Fits
<1>7. HasRows(l) => HasRows(th[p])
  BY <1>3, <1>4, <1>5 DEF HasRows
<1>8. Weight(l) = Len(th[p].rows) + Bit(HasPage(th[p]))
  <2>1. /\ Weight(l) = Len(l.rows) + Bit(HasPage(l)) + Bit(HasLoaded(l)) + Bit(l.pc = "push")
        /\ Bit(HasPage(l)) = Bit(HasPage(th[p])) /\ Bit(HasLoaded(l)) = 0 /\ Bit(l.pc = "push") = 0
    BY <1>5 DEF Weight, Bit
  <2>2. Bit(HasPage(th[p])) \in Nat /\ Len(th[p].rows) \in Nat
    BY CountsAreNumbers DEF Bit
  <2> QED BY <1>4, <2>1, <2>2
<1>9. Len(th[p].rows) \in Nat /\ Bit(HasPage(th[p])) \in Nat
  BY CountsAreNumbers DEF Bit
<1>10. Weight(l) \in Nat
  BY <1>8, <1>9
<1>11. Weight(th[p]) = Weight(l) + Bit(HasLoaded(th[p])) + Bit(th[p].pc = "push")
  BY <1>8 DEF Weight
<1> QED BY <1>3, <1>4, <1>6, <1>7, <1>10, <1>11

\* What a step that leaves the round in its place has to show.
Kept == TypeOK' /\ Sound' /\ broken' = "no"

\* findurl: the round is alive; the url is inserted on, counted or dropped.
LEMMA InsertFindsStep ==
    ASSUME TypeOK, Sound, NEW p \in Threads, InsertFinds(p)
    PROVE  Kept
<1>1. th[p].pc = "find" /\ Inserting(th[p]) /\ Follows(th[p])
  BY DEF InsertFinds, At, Inserting, Follows
<1>2. /\ tasksothermap \in Rounds /\ Alive(tasksothermap) /\ th[p].ptr = tasksothermap
      /\ tasksothermap # NULL
  BY <1>1, BusyHasRound
<1>3. broken' = "no" /\ UNCHANGED <<task, frontier, outside, missed>>
  BY <1>2 DEF InsertFinds, Touches
<1>4. SameRound /\ SameCount
  BY <1>3 DEF SameRound, SameCount, task, outside
<1>5. ASSUME NEW l \in Local, Moves(p, l), Fits(p, l), HasRows(l) => HasRows(th[p]),
             Follows(l) => l.ptr = tasksothermap /\ l.pc \in {"add", "count"},
             Balanced(p, l), leaked' \in BOOLEAN,
             l.todo = th[p].todo, l.pc \notin {"wait", "end"}
      PROVE  Kept
  <2>1. TypeOK'
    BY <1>3, <1>5, MovesFacts DEF TypeOK, task, frontier, outside
  <2>2. Locks(p, l)
    BY <1>3, <1>5 DEF Locks, frontier, Sound, RowsHeld
  <2>3. GoesOn(p, l)
    BY <1>4, <1>5, <2>2 DEF GoesOn
  <2>4. /\ outer' = outer /\ \A r \in Rounds : other'[r].alreadyused = other[r].alreadyused
        /\ l.pc \in {"find", "add", "count"} \/ ~Follows(l)
    BY <1>3, <1>5 DEF outside, task
  <2>5. Sound'
    BY <1>1, <1>4, <1>5, <2>1, <2>3, <2>4, InsertKeeps
  <2> QED BY <1>3, <2>1, <2>5 DEF Kept
<1>6. ASSUME NEW label \in {"add", "count"},
             Moves(p, [th[p] EXCEPT !.pc = label, !.ptr = tasksothermap]), leaked' = leaked
      PROVE  Kept
  <2> DEFINE l == [th[p] EXCEPT !.pc = label, !.ptr = tasksothermap]
  <2>1. /\ l \in Local /\ Fits(p, l) /\ (HasRows(l) => HasRows(th[p])) /\ l.pc = label
        /\ l.ptr = tasksothermap /\ l.todo = th[p].todo /\ l.rows = th[p].rows
        /\ (HasPage(l) <=> HasPage(th[p])) /\ (HasLoaded(l) <=> HasLoaded(th[p]))
    <3>1. /\ l \in Local /\ l.pc = label /\ l.ptr = tasksothermap /\ l.todo = th[p].todo
          /\ l.rows = th[p].rows /\ l.ins = th[p].ins /\ l.cur = th[p].cur
      BY <1>2 DEF TypeOK, Local, Labels
    <3> HIDE DEF l
    <3> QED BY <1>1, <3>1, WithinInsert DEF Inserting
  <2>2. Moves(p, l)
    BY <1>6
  <2> HIDE DEF l
  <2>3. Weight(l) = Weight(th[p])
    BY <1>1, <2>1, SameHands
  <2>4. Balanced(p, l)
    BY <1>3, <1>4, <1>6, <2>3, Even DEF task, frontier
  <2> QED BY <1>5, <1>6, <2>1, <2>2, <2>4 DEF TypeOK
<1>7. CASE ~Found(p) /\ Goto(p, "add") /\ UNCHANGED leaked
  <2>1. [th[p] EXCEPT !.pc = "add"] = [th[p] EXCEPT !.pc = "add", !.ptr = tasksothermap]
    <3>1. th[p] \in Local
      BY DEF TypeOK
    <3> QED BY <1>2, <3>1 DEF Local
  <2> QED BY <1>6, <1>7, <2>1 DEF Goto
<1>8. CASE /\ Found(p) /\ Forced(th[p].ins)
           /\ Moves(p, [th[p] EXCEPT !.pc = "count", !.ptr = tasksothermap])
           /\ UNCHANGED leaked
  BY <1>6, <1>8
<1>9. CASE /\ Found(p) /\ ~Forced(th[p].ins)
           /\ Return(p, Caller(th[p].ins))
           /\ leaked' = (leaked \/ th[p].ins.kind = "load")
  <2> DEFINE l == [th[p] EXCEPT !.pc = Caller(th[p].ins), !.ins = NULL, !.ptr = NULL]
  <2>1. /\ l \in Local /\ Fits(p, l) /\ (HasRows(l) => HasRows(th[p]))
        /\ l.pc \in {"home", "links", "finish", "load"} /\ l.todo = th[p].todo
        /\ Weight(l) \in Nat
        /\ Weight(th[p]) = Weight(l) + Bit(HasLoaded(th[p])) + Bit(th[p].pc = "push")
        /\ HasLoaded(th[p]) <=> th[p].ins.kind = "load"
    BY <1>1, AfterInsert
  <2>2. Moves(p, l) /\ leaked' \in BOOLEAN
    BY <1>9 DEF Return, TypeOK
  <2> HIDE DEF l
  <2>3. Balanced(p, l)
    <3>1. UNCHANGED <<queue, unfetched, tasksothermap>>
      BY <1>3 DEF task, frontier
    <3>2. /\ Bit(th[p].pc = "push") = 0
          /\ HasLoaded(th[p]) => Bit(HasLoaded(th[p])) = 1
          /\ ~HasLoaded(th[p]) => Bit(HasLoaded(th[p])) = 0
      BY <1>1 DEF Bit
    <3>3. /\ HasLoaded(th[p]) => Weight(l) <= Weight(th[p])
          /\ ~HasLoaded(th[p]) => Weight(l) = Weight(th[p])
      BY <2>1, <3>2
    <3>4. (HasLoaded(th[p]) => leaked') /\ (~HasLoaded(th[p]) => leaked' = leaked)
      BY <1>9, <2>1 DEF TypeOK
    <3>5. CASE HasLoaded(th[p])
      BY <1>4, <2>1, <3>1, <3>3, <3>4, <3>5, Loses
    <3>6. CASE ~HasLoaded(th[p])
      BY <1>4, <3>1, <3>3, <3>4, <3>6, Even
    <3> QED BY <3>5, <3>6
  <2> QED BY <1>5, <2>1, <2>2, <2>3 DEF Follows
<1> QED BY <1>7, <1>8, <1>9 DEF InsertFinds

\* inserttaskurl: the url joins the batch of the round that is alive.
LEMMA InsertAddsStep ==
    ASSUME TypeOK, Sound, NEW p \in Threads, InsertAdds(p)
    PROVE  Kept
<1> DEFINE l == [th[p] EXCEPT !.pc = "count", !.ptr = tasksothermap]
<1>1. th[p].pc = "add" /\ Inserting(th[p]) /\ Follows(th[p])
  BY DEF InsertAdds, At, Inserting, Follows
<1>2. /\ tasksothermap \in Rounds /\ Alive(tasksothermap) /\ th[p].ptr = tasksothermap
      /\ th[p].ins \in Insert
  BY <1>1, BusyHasRound
<1>3. /\ broken' = "no" /\ UNCHANGED <<tasksothermap, round, frontier, outside, missed, leaked>>
      /\ other' = [other EXCEPT ![tasksothermap].urls = @ \cup {th[p].ins.node.url}]
      /\ Moves(p, l)
  BY <1>2 DEF InsertAdds, Touches
<1>4. th[p].ins.node.url \in Urls
  BY <1>2 DEF Insert, UrlNode
<1>5. /\ other' \in [Rounds -> TaskOther]
      /\ \A r \in Rounds : /\ other'[r].live = other[r].live
                           /\ other'[r].alreadyused = other[r].alreadyused
                           /\ other'[r].urlnum = other[r].urlnum
  <2>1. other \in [Rounds -> TaskOther] /\ other[tasksothermap] \in TaskOther
    BY <1>2 DEF TypeOK
  <2>2. [other[tasksothermap] EXCEPT !.urls = @ \cup {th[p].ins.node.url}] \in TaskOther
    BY <1>4, <2>1 DEF TaskOther
  <2>3. other' \in [Rounds -> TaskOther]
    BY <1>3, <2>1, <2>2
  <2> QED BY <1>3, <2>1, <2>3 DEF TaskOther
<1>6. SameRound /\ SameCount
  BY <1>2, <1>3, <1>5 DEF SameRound, SameCount, outside
<1>7. /\ l \in Local /\ Fits(p, l) /\ (HasRows(l) => HasRows(th[p])) /\ l.pc = "count"
      /\ l.ptr = tasksothermap /\ l.todo = th[p].todo /\ l.rows = th[p].rows
      /\ (HasPage(l) <=> HasPage(th[p])) /\ (HasLoaded(l) <=> HasLoaded(th[p]))
  <2>1. /\ l \in Local /\ l.pc = "count" /\ l.ptr = tasksothermap /\ l.todo = th[p].todo
        /\ l.rows = th[p].rows /\ l.ins = th[p].ins /\ l.cur = th[p].cur
    BY <1>2 DEF TypeOK, Local, Labels
  <2> HIDE DEF l
  <2> QED BY <1>1, <2>1, WithinInsert DEF Inserting
<1> HIDE DEF l
<1>8. TypeOK'
  BY <1>3, <1>5, <1>7, MovesFacts DEF TypeOK, frontier, outside
<1>9. Balanced(p, l)
  <2>1. Weight(l) = Weight(th[p])
    BY <1>1, <1>7, SameHands
  <2> QED BY <1>3, <1>6, <2>1, Even DEF frontier
<1>10. Locks(p, l)
  BY <1>3, <1>7 DEF Locks, frontier, Sound, RowsHeld
<1>11. GoesOn(p, l)
  BY <1>3, <1>6, <1>7, <1>9, <1>10 DEF GoesOn
<1>12. Sound'
  BY <1>1, <1>3, <1>5, <1>6, <1>7, <1>8, <1>11, InsertKeeps DEF outside
<1> QED BY <1>3, <1>8, <1>12 DEF Kept

\* The count of the task's round is changed, and nothing else of the rounds.
LEMMA CountChanges ==
    ASSUME TypeOK, tasksothermap \in Rounds, NEW n \in Nat,
           other' = [other EXCEPT ![tasksothermap].urlnum = n]
    PROVE  /\ other' \in [Rounds -> TaskOther] /\ other'[tasksothermap].urlnum = n
           /\ \A r \in Rounds : /\ other'[r].live = other[r].live
                                /\ other'[r].alreadyused = other[r].alreadyused
                                /\ r # tasksothermap => other'[r].urlnum = other[r].urlnum
<1>1. other \in [Rounds -> TaskOther] /\ other[tasksothermap] \in TaskOther
  BY DEF TypeOK
<1>2. [other[tasksothermap] EXCEPT !.urlnum = n] \in TaskOther
  BY <1>1 DEF TaskOther
<1>3. other' \in [Rounds -> TaskOther]
  BY <1>1, <1>2
<1> QED BY <1>1, <1>3 DEF TaskOther

\* increaseTaskUrlNum: the round is there, so the url is counted.
LEMMA InsertCountsStep ==
    ASSUME TypeOK, Sound, NEW p \in Threads, InsertCounts(p)
    PROVE  Kept
<1> DEFINE l == [th[p] EXCEPT !.pc = "push"]
           n == other[tasksothermap].urlnum
<1>1. th[p].pc = "count" /\ Inserting(th[p]) /\ Follows(th[p])
  BY DEF InsertCounts, At, Inserting, Follows
<1>2. /\ tasksothermap \in Rounds /\ Alive(tasksothermap) /\ th[p].ptr = tasksothermap
      /\ tasksothermap # NULL
  BY <1>1, BusyHasRound
<1>3. /\ broken' = "no" /\ UNCHANGED <<tasksothermap, round, frontier, outside, missed, leaked>>
      /\ other' = [other EXCEPT ![tasksothermap].urlnum = n + 1]
      /\ Moves(p, l)
  BY <1>2 DEF InsertCounts, Touches, Goto
<1>4. n \in Nat
  BY <1>2 DEF TypeOK, TaskOther
<1>5. /\ other' \in [Rounds -> TaskOther] /\ other'[tasksothermap].urlnum = n + 1
      /\ \A r \in Rounds : /\ other'[r].live = other[r].live
                           /\ other'[r].alreadyused = other[r].alreadyused
                           /\ r # tasksothermap => other'[r].urlnum = other[r].urlnum
  <2> DEFINE m == n + 1
  <2>1. m \in Nat /\ other' = [other EXCEPT ![tasksothermap].urlnum = m]
    BY <1>3, <1>4
  <2> HIDE DEF m
  <2>2. /\ other' \in [Rounds -> TaskOther] /\ other'[tasksothermap].urlnum = m
        /\ \A r \in Rounds : /\ other'[r].live = other[r].live
                             /\ other'[r].alreadyused = other[r].alreadyused
                             /\ r # tasksothermap => other'[r].urlnum = other[r].urlnum
    BY <1>2, <2>1, CountChanges
  <2> QED BY <2>2 DEF m
<1>6. SameRound
  BY <1>3, <1>5 DEF SameRound, outside
<1>7. /\ l \in Local /\ l.pc = "push" /\ l.todo = th[p].todo
      /\ l.rows = th[p].rows /\ l.ins = th[p].ins /\ l.cur = th[p].cur
  BY DEF TypeOK, Local, Labels
<1> HIDE DEF l
<1>8. /\ Fits(p, l) /\ (HasRows(l) => HasRows(th[p]))
      /\ (HasPage(l) <=> HasPage(th[p])) /\ (HasLoaded(l) <=> HasLoaded(th[p]))
  BY <1>1, <1>7, WithinInsert DEF Inserting
<1>9. TypeOK'
  BY <1>3, <1>5, <1>7, MovesFacts DEF TypeOK, frontier, outside
<1>10. Balanced(p, l)
  <2>1. Weight(l) = Weight(th[p]) + 1
    <3> DEFINE s == Len(th[p].rows) + Bit(HasPage(th[p])) + Bit(HasLoaded(th[p]))
    <3>1. Weight(th[p]) = s + Bit(th[p].pc = "push") /\ Bit(th[p].pc = "push") = 0
      BY <1>1 DEF Weight, Bit
    <3>2. Weight(l) = s + 1
      <4>1. /\ Bit(HasPage(l)) = Bit(HasPage(th[p])) /\ Bit(HasLoaded(l)) = Bit(HasLoaded(th[p]))
            /\ Bit(l.pc = "push") = 1
        BY <1>7, <1>8 DEF Bit
      <4> QED BY <1>7, <4>1 DEF Weight
    <3>3. s \in Nat
      <4>1. /\ Len(th[p].rows) \in Nat /\ Bit(HasPage(th[p])) \in Nat
            /\ Bit(HasLoaded(th[p])) \in Nat
        BY CountsAreNumbers DEF Bit
      <4> QED BY <4>1
    <3> HIDE DEF s
    <3> QED BY <3>1, <3>2, <3>3
  <2>2. Len(queue) + Len(unfetched) \in Nat /\ Weight(th[p]) \in Nat
    BY CountsAreNumbers
  <2>3. queue' = queue /\ unfetched' = unfetched /\ leaked' = leaked
    BY <1>3 DEF frontier
  <2>4. Before(p) \in Nat /\ After(l) = Before(p) + 1
    BY <2>1, <2>2, <2>3 DEF Before, After
  <2> HIDE DEF n
  <2>5. n + After(l) = n + 1 + Before(p)
    BY <1>4, <2>4
  <2> QED BY <1>2, <1>4, <1>5, <2>3, <2>4, <2>5 DEF Balanced, n
<1>11. Locks(p, l)
  BY <1>3, <1>8 DEF Locks, frontier, Sound, RowsHeld
<1>12. GoesOn(p, l)
  BY <1>3, <1>6, <1>7, <1>8, <1>10, <1>11 DEF GoesOn, Follows
<1>13. outer' = outer /\ \A r \in Rounds : other'[r].alreadyused = other[r].alreadyused
  BY <1>3, <1>5 DEF outside
<1>14. Sound'
  BY <1>1, <1>7, <1>9, <1>12, <1>13, InsertKeeps DEF Follows
<1> QED BY <1>3, <1>9, <1>14 DEF Kept

\* push_back and push_front: the url goes where it was counted for, or is lost
\* and known to be; a loaded url was counted before it was spilled.
LEMMA PushStep ==
    ASSUME TypeOK, Sound, NEW p \in Threads, PushMemory(p) \/ PushSpills(p)
    PROVE  Kept
<1> DEFINE l == [th[p] EXCEPT !.pc = Caller(th[p].ins), !.ins = NULL, !.ptr = NULL]
<1>1. th[p].pc = "push" /\ Inserting(th[p]) /\ Moves(p, l)
  BY DEF PushMemory, PushSpills, Return, At, Inserting
<1>2. /\ tasksothermap \in Rounds /\ tasksothermap # NULL /\ th[p].ins \in Insert
  BY <1>1, BusyHasRound
<1>3. /\ l \in Local /\ Fits(p, l) /\ (HasRows(l) => HasRows(th[p]))
      /\ l.pc \in {"home", "links", "finish", "load"} /\ l.todo = th[p].todo
      /\ Weight(l) \in Nat
      /\ Weight(th[p]) = Weight(l) + Bit(HasLoaded(th[p])) + Bit(th[p].pc = "push")
      /\ HasLoaded(th[p]) <=> th[p].ins.kind = "load"
  BY <1>1, AfterInsert
<1> HIDE DEF l
<1>4. th[p].ins.node \in UrlNode /\ th[p].ins.node.url \in Urls
  BY <1>2 DEF Insert, UrlNode
<1>5. /\ broken' = "no" /\ UNCHANGED <<tasksothermap, round, tablelock, outside, missed>>
  BY <1>2 DEF PushMemory, PushSpills, task, At
<1>6. /\ other' \in [Rounds -> TaskOther]
      /\ \A r \in Rounds : /\ other'[r].live = other[r].live
                           /\ other'[r].alreadyused = other[r].alreadyused
                           /\ other'[r].urlnum = other[r].urlnum
  <2>1. other \in [Rounds -> TaskOther] /\ other[tasksothermap] \in TaskOther
    BY <1>2 DEF TypeOK
  <2>2. CASE other' = other
    BY <2>1, <2>2
  <2>3. CASE other' = [other EXCEPT ![tasksothermap].urls = @ \ {th[p].ins.node.url}]
    <3>1. [other[tasksothermap] EXCEPT !.urls = @ \ {th[p].ins.node.url}] \in TaskOther
      BY <2>1 DEF TaskOther
    <3>2. other' \in [Rounds -> TaskOther]
      BY <2>1, <2>3, <3>1
    <3> QED BY <2>1, <2>3, <3>2 DEF TaskOther
  <2> QED BY <2>2, <2>3 DEF PushMemory, PushSpills, task
<1>7. SameRound /\ SameCount
  BY <1>2, <1>5, <1>6 DEF SameRound, SameCount, outside
<1>8. Len(queue) \in Nat /\ Len(unfetched) \in Nat
  BY CountsAreNumbers
<1>9. /\ queue' \in Seq(UrlNode) /\ unfetched' \in Seq(UrlNode) /\ leaked' \in BOOLEAN
      /\ (leaked => leaked') /\ (HasLoaded(th[p]) => leaked')
      /\ Len(queue') + Len(unfetched') <= Len(queue) + Len(unfetched) + 1
      /\ ~leaked' => Len(queue') + Len(unfetched') = Len(queue) + Len(unfetched) + 1
  <2> DEFINE node == th[p].ins.node
  <2>1. queue \in Seq(UrlNode) /\ unfetched \in Seq(UrlNode) /\ node \in UrlNode
    BY <1>4 DEF TypeOK
  <2> HIDE DEF node
  <2>2. /\ Append(queue, node) \in Seq(UrlNode) /\ Len(Append(queue, node)) = Len(queue) + 1
        /\ Append(unfetched, node) \in Seq(UrlNode)
        /\ Len(Append(unfetched, node)) = Len(unfetched) + 1
        /\ <<node>> \o queue \in Seq(UrlNode) /\ Len(<<node>> \o queue) = Len(queue) + 1
    BY <2>1
  <2>3. CASE PushMemory(p)
    <3>1. queue' \in {Append(queue, node), <<node>> \o queue} /\ unfetched' = unfetched
      BY <2>3 DEF PushMemory, node
    <3>2. leaked' = (leaked \/ th[p].ins.kind = "load")
      BY <2>3 DEF PushMemory
    <3>3. Len(queue') = Len(queue) + 1 /\ queue' \in Seq(UrlNode)
      BY <2>2, <3>1
    <3>4. leaked' \in BOOLEAN /\ (leaked => leaked') /\ (HasLoaded(th[p]) => leaked')
      BY <1>3, <3>2
    <3> QED BY <1>8, <2>1, <3>1, <3>3, <3>4
  <2>4. CASE PushSpills(p)
    <3>1. ~HasLoaded(th[p]) /\ queue' = queue
      BY <1>3, <2>4 DEF PushSpills, OnlyMemory
    <3>2. CASE unfetched' = Append(unfetched, node) /\ leaked' = leaked
      BY <1>8, <2>1, <2>2, <3>1, <3>2 DEF TypeOK
    <3>3. CASE leaked' = TRUE /\ unfetched' = unfetched
      BY <1>8, <2>1, <3>1, <3>3
    <3> QED BY <2>4, <3>2, <3>3 DEF PushSpills, node
  <2> QED BY <2>3, <2>4
<1>10. TypeOK'
  BY <1>1, <1>3, <1>5, <1>6, <1>9, MovesFacts DEF TypeOK, outside
<1>11. Balanced(p, l)
  <2> DEFINE s == Len(queue) + Len(unfetched)  s2 == Len(queue') + Len(unfetched')
             w == Weight(th[p])  w2 == Weight(l)  n == other[tasksothermap].urlnum
  <2>1. s \in Nat /\ s2 \in Nat /\ w \in Nat /\ w2 \in Nat /\ n \in Nat
    <3>1. Len(queue') \in Nat /\ Len(unfetched') \in Nat
      BY <1>9
    <3>2. other[tasksothermap].urlnum \in Nat
      BY <1>2 DEF TypeOK, TaskOther
    <3> QED BY <1>3, <1>8, <3>1, <3>2, CountsAreNumbers
  <2>2. s2 <= s + 1 /\ (~leaked' => s2 = s + 1)
    BY <1>9
  <2>3. w >= w2 + 1 /\ (~leaked' => w = w2 + 1)
    <3>1. Bit(th[p].pc = "push") = 1
      BY <1>1 DEF Bit
    <3>2. Bit(HasLoaded(th[p])) \in Nat
      BY DEF Bit
    <3>3. ~leaked' => Bit(HasLoaded(th[p])) = 0
      <4>1. ~leaked' => ~HasLoaded(th[p])
        BY <1>9
      <4> QED BY <4>1 DEF Bit
    <3> DEFINE d == Bit(HasLoaded(th[p]))
    <3>4. w = w2 + d + 1 /\ d \in Nat /\ (~leaked' => d = 0)
      BY <1>3, <3>1, <3>2, <3>3
    <3> HIDE DEF d, w, w2
    <3> QED BY <2>1, <3>4
  <2>4. Before(p) = s + w /\ After(l) = s2 + w2
    BY DEF Before, After
  <2>5. other'[tasksothermap].urlnum = n
    BY <1>2, <1>6
  <2> HIDE DEF s, s2, w, w2, n
  <2>6. n + (s2 + w2) <= n + (s + w) /\ (~leaked' => n + (s2 + w2) = n + (s + w))
    BY <2>1, <2>2, <2>3
  <2>7. n + After(l) <= n + Before(p) /\ (~leaked' => n + After(l) = n + Before(p))
    BY <2>4, <2>6
  <2> QED BY <1>2, <1>9, <2>5, <2>7 DEF Balanced, n
<1>12. Locks(p, l)
  BY <1>3, <1>5 DEF Locks, Sound, RowsHeld
<1>13. GoesOn(p, l)
  BY <1>1, <1>3, <1>7, <1>11, <1>12 DEF GoesOn, Follows
<1>14. outer' = outer /\ \A r \in Rounds : other'[r].alreadyused = other[r].alreadyused
  BY <1>5, <1>6 DEF outside
<1>15. Sound'
  BY <1>1, <1>3, <1>7, <1>10, <1>13, <1>14, InsertKeeps DEF Follows
<1> QED BY <1>5, <1>10, <1>15 DEF Kept

\* All of insertUrl.
LEMMA InsertStepKeeps ==
    ASSUME TypeOK, Sound, NEW p \in Threads, InsertStep(p)
    PROVE  Kept
BY InsertFindsStep, InsertAddsStep, InsertCountsStep, PushStep DEF InsertStep

\* What becomes of a thread that calls insertUrl: it is in insertUrl, with a
\* pointer to the round, or has returned at once.
LEMMA CallFacts ==
    ASSUME TypeOK, NEW k \in Local, NEW u \in Urls, NEW e \in 0..RetryTimes, NEW kind \in Kinds,
           NEW l \in Inserts(k, u, e, kind)
    PROVE  /\ l \in Local
           /\ l.cur = k.cur /\ l.todo = k.todo /\ l.next = k.next /\ l.rows = k.rows
           /\ \/ /\ l.pc \in {"find", "count"} /\ Inserting(l)
                 /\ l.ins \in Insert /\ l.ins.kind = kind /\ l.ptr = tasksothermap
              \/ /\ kind # "retry" /\ ~Inserting(l) /\ ~Follows(l)
                 /\ l.pc = IF kind = "home" THEN "home" ELSE IF kind = "load" THEN "load"
                           ELSE "links"
<1> DEFINE i == [node |-> [url |-> u, errornum |-> e], kind |-> kind]
<1>1. i \in Insert /\ i.kind = kind
  BY DEF Insert, UrlNode
<1> HIDE DEF i
<1>2. CASE l = [k EXCEPT !.pc = IF tasksothermap = NULL THEN "count" ELSE "find",
                         !.ins = i, !.ptr = tasksothermap]
  BY <1>1, <1>2 DEF TypeOK, Local, Labels, Inserting
<1>3. CASE kind # "retry" /\ l = [k EXCEPT !.pc = Caller(i)]
  <2>1. Caller(i) = IF kind = "home" THEN "home" ELSE IF kind = "load" THEN "load" ELSE "links"
    BY <1>1, <1>3 DEF Caller, Kinds
  <2> QED BY <1>3, <2>1 DEF Local, Labels, Inserting, Follows
<1> QED BY <1>2, <1>3 DEF Inserts, i

-----------------------------------------------------------------------------
(* fetch *)

\* A step of a fetching thread that changes no more than its own state.
LEMMA FetcherLocal ==
    ASSUME TypeOK, Sound, NEW p \in Fetchers, NEW l \in Local, Moves(p, l), Fits(p, l),
           UNCHANGED <<task, frontier, broken, leaked>>, missed' \in BOOLEAN, broken = "no",
           outer' \in 0..outer, outerSeen' = outerSeen,
           HasRows(l) => HasRows(th[p]), Follows(l) => l.ptr = tasksothermap,
           Weight(l) = Weight(th[p]), l.pc # "end"
    PROVE  Kept
<1>1. p \in Threads
  BY DEF Threads
<1>2. TypeOK'
  <2>1. th' \in [Threads -> Local]
    BY <1>1, MovesFacts
  <2>2. outer' \in 0..MaxOuter /\ outer' <= outer
    BY CrawlAssumption DEF TypeOK
  <2> QED BY <2>1, <2>2 DEF TypeOK, task, frontier
<1>3. outer' <= outer
  BY CrawlAssumption DEF TypeOK
<1>4. SameRound /\ SameCount
  BY DEF SameRound, SameCount, task
<1>5. Balanced(p, l)
  BY <1>1, <1>4, Even DEF task, frontier
<1>6. Locks(p, l)
  BY <1>1 DEF Locks, frontier, Sound, RowsHeld
<1>7. GoesOn(p, l)
  BY <1>4, <1>5, <1>6 DEF GoesOn
<1>8. \A r \in Rounds : other'[r].alreadyused = other[r].alreadyused
  BY DEF task
<1>9. Sound'
  BY <1>2, <1>3, <1>4, <1>7, <1>8, FetcherKeeps
<1> QED BY <1>2, <1>9 DEF Kept

\* getUrlFromOuterHtml looks up the round for a page from outside.
LEMMA OuterLooksUpStep ==
    ASSUME TypeOK, Sound, NEW p \in Fetchers, OuterLooksUp(p)
    PROVE  Kept
<1> DEFINE l == [th[p] EXCEPT !.pc = "outer", !.ptr = tasksothermap]
<1>1. /\ p \in Threads /\ p # Getter /\ th[p] \in Local
  BY CrawlAssumption DEF Threads, TypeOK
<1>2. /\ th[p].pc = "idle" /\ broken = "no" /\ outer > 0 /\ tasksothermap # NULL
      /\ outer' = outer - 1 /\ Moves(p, l) /\ UNCHANGED <<task, frontier, outerSeen, ghosts>>
  BY DEF OuterLooksUp, At
<1>3. l \in Local /\ l.pc = "outer" /\ l.ptr = tasksothermap /\ l.rows = th[p].rows
  BY <1>1 DEF TypeOK, Local, Labels
<1> HIDE DEF l
<1>4. outerSeen > 0 /\ outer' \in 0..outer
  BY <1>2, CrawlAssumption DEF Sound, EndsOnce, TypeOK
<1>5. /\ ~HasPage(l) /\ ~HasLoaded(l) /\ ~Inserting(l) /\ ~Follows(l)
      /\ ~HasPage(th[p]) /\ ~HasLoaded(th[p]) /\ ~Inserting(th[p])
  BY <1>2, <1>3 DEF HasPage, HasLoaded, Inserting, Follows
<1>6. Fits(p, l)
  BY <1>1, <1>2, <1>3, <1>4, <1>5 DEF Fits, TypeOK
<1>7. Weight(l) = Weight(th[p])
  BY <1>2, <1>3, <1>5, SameHands
<1>8. HasRows(l) => HasRows(th[p])
  BY <1>3, <1>5 DEF HasRows
<1>9. UNCHANGED <<broken, leaked>> /\ missed' \in BOOLEAN
  BY <1>2 DEF ghosts, TypeOK
<1> QED BY <1>2, <1>3, <1>4, <1>5, <1>6, <1>7, <1>8, <1>9, FetcherLocal

\* A step of a fetching thread that has a page in hand and keeps it.
LEMMA PageKept ==
    ASSUME TypeOK, Sound, NEW p \in Fetchers, HasPage(th[p]), ~Inserting(th[p]),
           NEW l \in Local, Moves(p, l), HasPage(l), l.cur = th[p].cur, l.rows = th[p].rows,
           l.pc # "push", Inserting(l) => l.ins \in Insert, Follows(l) => l.ptr = tasksothermap,
           UNCHANGED <<task, frontier, outside, ghosts>>, broken = "no"
    PROVE  Kept
<1>1. /\ p \in Threads /\ p # Getter /\ Fits(p, th[p])
  BY CrawlAssumption DEF Threads, Sound, Labelled
<1>2. /\ l.pc \in {"fetch", "links", "finish", "uncount", "find", "add", "count"}
      /\ Inserting(l) => l.ins.kind \in {"link", "next", "retry"}
  BY DEF HasPage, Inserting
<1>3. ~HasLoaded(l) /\ ~HasLoaded(th[p]) /\ th[p].pc # "push"
  BY <1>2 DEF HasLoaded, Inserting
<1>4. Fits(p, l)
  BY <1>1, <1>2 DEF Fits
<1>5. Weight(l) = Weight(th[p])
  BY <1>3, SameHands
<1>6. HasRows(l) => HasRows(th[p])
  BY <1>2, <1>3 DEF HasRows
<1>7. /\ outer' \in 0..outer /\ outerSeen' = outerSeen /\ missed' \in BOOLEAN
      /\ UNCHANGED <<broken, leaked>>
  BY CrawlAssumption DEF outside, ghosts, TypeOK
<1> QED BY <1>2, <1>4, <1>5, <1>6, <1>7, FetcherLocal

\* The page did not come: it is inserted again, or given up.
LEMMA FetchFailsStep ==
    ASSUME TypeOK, Sound, NEW p \in Fetchers, FetchFails(p)
    PROVE  Kept
<1> DEFINE e == th[p].cur.errornum + 1
<1>1. /\ p \in Threads /\ p # Getter /\ th[p] \in Local
  BY CrawlAssumption DEF Threads, TypeOK
<1>2. /\ th[p].pc = "fetch" /\ broken = "no" /\ UNCHANGED <<task, frontier, outside, ghosts>>
  BY DEF FetchFails, At
<1>3. HasPage(th[p]) /\ ~Inserting(th[p]) /\ th[p].cur \in UrlNode
  BY <1>1, <1>2 DEF HasPage, Inserting, Sound, Labelled, Fits
<1>4. CASE e < RetryTimes /\ CallsInsert(p, th[p], th[p].cur.url, e, "retry")
  <2>1. th[p].cur.url \in Urls /\ e \in 0..RetryTimes
    BY <1>3, <1>4, CrawlAssumption DEF UrlNode
  <2>2. PICK l \in Inserts(th[p], th[p].cur.url, e, "retry") : Moves(p, l)
    BY <1>4 DEF CallsInsert
  <2> HIDE DEF e
  <2>3. /\ l \in Local /\ l.cur = th[p].cur /\ l.rows = th[p].rows
        /\ l.pc \in {"find", "count"} /\ l.ins \in Insert /\ l.ins.kind = "retry"
        /\ l.ptr = tasksothermap /\ Inserting(l)
    BY <1>1, <2>1, CallFacts DEF Kinds
  <2>4. HasPage(l)
    BY <2>3 DEF HasPage
  <2> QED BY <1>2, <1>3, <2>2, <2>3, <2>4, PageKept
<1>5. CASE Goto(p, "finish")
  <2> DEFINE l == [th[p] EXCEPT !.pc = "finish"]
  <2>1. l \in Local /\ l.pc = "finish" /\ l.cur = th[p].cur /\ l.rows = th[p].rows /\ Moves(p, l)
    BY <1>1, <1>5 DEF Local, Labels, Goto
  <2> HIDE DEF l
  <2> QED BY <1>2, <1>3, <2>1, PageKept DEF HasPage, Inserting, Follows
<1> QED BY <1>4, <1>5 DEF FetchFails

\* The page came, or is one that is not accepted.
LEMMA FetchedStep ==
    ASSUME TypeOK, Sound, NEW p \in Fetchers, FetchSucceeds(p) \/ FetchRejects(p)
    PROVE  Kept
<1>1. /\ p \in Threads /\ p # Getter /\ th[p] \in Local
  BY CrawlAssumption DEF Threads, TypeOK
<1>2. /\ th[p].pc = "fetch" /\ broken = "no" /\ UNCHANGED <<task, frontier, outside, ghosts>>
  BY DEF FetchSucceeds, FetchRejects, At
<1>3. HasPage(th[p]) /\ ~Inserting(th[p]) /\ th[p].cur \in UrlNode
  BY <1>1, <1>2 DEF HasPage, Inserting, Sound, Labelled, Fits
<1>4. ASSUME NEW l \in Local, Moves(p, l), l.pc \in {"links", "finish"}, l.cur = th[p].cur,
             l.rows = th[p].rows
      PROVE  Kept
  BY <1>2, <1>3, <1>4, PageKept DEF HasPage, Inserting, Follows
<1>5. CASE FetchRejects(p)
  <2> DEFINE l == [th[p] EXCEPT !.pc = "finish"]
  <2>1. l \in Local /\ l.pc = "finish" /\ l.cur = th[p].cur /\ l.rows = th[p].rows /\ Moves(p, l)
    BY <1>1, <1>5 DEF Local, Labels, Goto, FetchRejects
  <2> HIDE DEF l
  <2> QED BY <1>4, <2>1
<1>6. CASE FetchSucceeds(p)
  <2>1. PICK S \in SUBSET Links[th[p].cur.url], n \in {NULL, NextPage[th[p].cur.url]} :
           Moves(p, [th[p] EXCEPT !.pc = "links", !.todo = S, !.next = n])
    BY <1>6 DEF FetchSucceeds
  <2> DEFINE l == [th[p] EXCEPT !.pc = "links", !.todo = S, !.next = n]
  <2>2. S \in SUBSET Urls /\ n \in Urls \cup {NULL}
    BY <1>3, CrawlAssumption DEF UrlNode
  <2>3. l \in Local /\ l.pc = "links" /\ l.cur = th[p].cur /\ l.rows = th[p].rows /\ Moves(p, l)
    BY <1>1, <2>1, <2>2 DEF Local, Labels
  <2> HIDE DEF l
  <2> QED BY <1>4, <2>3
<1> QED BY <1>5, <1>6

\* A link or the next page is inserted; the page itself stays in hand.
LEMMA InsertsLinkStep ==
    ASSUME TypeOK, Sound, NEW p \in Fetchers, InsertsLink(p)
    PROVE  Kept
<1>1. /\ p \in Threads /\ p # Getter /\ th[p] \in Local
  BY CrawlAssumption DEF Threads, TypeOK
<1>2. /\ th[p].pc = "links" /\ broken = "no" /\ UNCHANGED <<task, frontier, outside, ghosts>>
  BY DEF InsertsLink, At
<1>3. HasPage(th[p]) /\ ~Inserting(th[p])
  BY <1>2 DEF HasPage, Inserting
<1>4. ASSUME NEW k \in Local, k.cur = th[p].cur, k.rows = th[p].rows, NEW u \in Urls,
             NEW kind \in {"link", "next"}, CallsInsert(p, k, u, 0, kind)
      PROVE  Kept
  <2>1. PICK l \in Inserts(k, u, 0, kind) : Moves(p, l)
    BY <1>4 DEF CallsInsert
  <2>2. /\ 0 \in 0..RetryTimes /\ kind \in Kinds /\ kind \notin {"home", "load", "retry"}
    BY CrawlAssumption DEF Kinds
  <2>3. /\ l \in Local /\ l.cur = k.cur /\ l.rows = k.rows
        /\ \/ /\ l.pc \in {"find", "count"} /\ Inserting(l)
              /\ l.ins \in Insert /\ l.ins.kind = kind /\ l.ptr = tasksothermap
           \/ ~Inserting(l) /\ ~Follows(l) /\ l.pc = "links"
    BY <2>2, CallFacts
  <2>4. HasPage(l)
    BY <2>3 DEF HasPage
  <2> QED BY <1>2, <1>3, <1>4, <2>1, <2>3, <2>4, PageKept
<1>5. ASSUME NEW u \in th[p].todo, CallsInsert(p, [th[p] EXCEPT !.todo = @ \ {u}], u, 0, "link")
      PROVE  Kept
  <2> DEFINE k == [th[p] EXCEPT !.todo = @ \ {u}]
  <2>1. k \in Local /\ k.cur = th[p].cur /\ k.rows = th[p].rows /\ u \in Urls
        /\ CallsInsert(p, k, u, 0, "link")
    BY <1>1, <1>5 DEF Local
  <2> HIDE DEF k
  <2> QED BY <1>4, <2>1
<1>6. CASE /\ th[p].todo = {} /\ th[p].next # NULL
           /\ CallsInsert(p, [th[p] EXCEPT !.next = NULL], th[p].next, 0, "next")
  <2> DEFINE k == [th[p] EXCEPT !.next = NULL]
  <2>1. k \in Local /\ k.cur = th[p].cur /\ k.rows = th[p].rows /\ th[p].next \in Urls
        /\ CallsInsert(p, k, th[p].next, 0, "next")
    BY <1>1, <1>6 DEF Local
  <2> HIDE DEF k
  <2> QED BY <1>4, <2>1
<1> QED BY <1>5, <1>6 DEF InsertsLink

\* decreaseTaskUrlNum finds the round: the page it is called for is counted.
LEMMA FinishLooksUpStep ==
    ASSUME TypeOK, Sound, NEW p \in Fetchers, FinishLooksUp(p)
    PROVE  Kept
<1> DEFINE l == [th[p] EXCEPT !.pc = "uncount", !.ptr = tasksothermap]
<1>1. /\ p \in Threads /\ p # Getter /\ th[p] \in Local
  BY CrawlAssumption DEF Threads, TypeOK
<1>2. /\ th[p].pc \in {"finish", "links"} /\ broken = "no"
      /\ UNCHANGED <<task, frontier, outside, ghosts>>
  BY DEF FinishLooksUp, At
<1>3. HasPage(th[p]) /\ ~Inserting(th[p])
  BY <1>2 DEF HasPage, Inserting
<1>4. tasksothermap # NULL
  BY <1>1, <1>3, Hands, HandHasRound
<1>5. Moves(p, l)
  BY <1>4 DEF FinishLooksUp
<1>6. /\ l \in Local /\ l.pc = "uncount" /\ l.ptr = tasksothermap
      /\ l.cur = th[p].cur /\ l.rows = th[p].rows
  BY <1>1 DEF Local, Labels, TypeOK
<1> HIDE DEF l
<1> QED BY <1>2, <1>3, <1>5, <1>6, PageKept DEF HasPage, Inserting

\* A thread between two urls.
LEMMA LoopFacts ==
    ASSUME TypeOK, NEW p \in Fetchers, NEW l,
           l = [th[p] EXCEPT !.pc = "idle", !.cur = NULL, !.ptr = NULL]
    PROVE  /\ l \in Local /\ l.pc = "idle" /\ l.rows = th[p].rows
           /\ Fits(p, l) /\ ~Follows(l) /\ ~HasPage(l) /\ ~HasLoaded(l) /\ ~Inserting(l)
           /\ HasRows(l) => HasRows(th[p])
<1>1. p # Getter /\ th[p] \in Local
  BY CrawlAssumption DEF Threads, TypeOK
<1>2. l \in Local /\ l.pc = "idle" /\ l.rows = th[p].rows
  BY <1>1 DEF Local, Labels
<1> QED BY <1>1, <1>2 DEF Fits, Follows, HasPage, HasLoaded, Inserting, HasRows

\* poptaskother finds the round in use or gone.
LEMMA EndMissesStep ==
    ASSUME TypeOK, Sound, NEW p \in Fetchers, EndMisses(p)
    PROVE  Kept
<1> DEFINE l == [th[p] EXCEPT !.pc = "idle", !.cur = NULL, !.ptr = NULL]
<1>1. /\ th[p].pc = "end" /\ broken = "no" /\ Moves(p, l)
      /\ UNCHANGED <<task, frontier, outside, broken, leaked>> /\ missed' \in BOOLEAN
  BY DEF EndMisses, At, Loop, TypeOK
<1>2. /\ l \in Local /\ l.pc = "idle" /\ l.rows = th[p].rows
      /\ Fits(p, l) /\ ~Follows(l) /\ ~HasPage(l) /\ ~HasLoaded(l) /\ ~Inserting(l)
      /\ HasRows(l) => HasRows(th[p])
  BY LoopFacts
<1> HIDE DEF l
<1>3. ~HasPage(th[p]) /\ ~HasLoaded(th[p])
  BY <1>1 DEF HasPage, HasLoaded, Inserting
<1>4. Weight(l) = Weight(th[p])
  BY <1>1, <1>2, <1>3, SameHands
<1>5. outer' \in 0..outer /\ outerSeen' = outerSeen
  BY <1>1, CrawlAssumption DEF outside, TypeOK
<1> QED BY <1>1, <1>2, <1>4, <1>5, FetcherLocal

\* A page that is taken into hand, or given out of it.
LEMMA OnePage ==
    ASSUME NEW k, NEW l, Len(k.rows) \in Nat, k.rows = l.rows, ~HasPage(k), HasPage(l),
           HasLoaded(k) <=> HasLoaded(l), k.pc = "push" <=> l.pc = "push"
    PROVE  Weight(k) \in Nat /\ Weight(l) = Weight(k) + 1
<1> DEFINE n == Len(k.rows)  b == Bit(HasLoaded(k))  c == Bit(k.pc = "push")
<1>1. n \in Nat /\ b \in Nat /\ c \in Nat
  BY DEF Bit
<1>2. /\ Bit(HasPage(k)) = 0 /\ Bit(HasPage(l)) = 1
      /\ Bit(HasLoaded(l)) = b /\ Bit(l.pc = "push") = c
  BY DEF Bit
<1>3. Weight(k) = n + 0 + b + c /\ Weight(l) = n + 1 + b + c
  BY <1>2 DEF Weight
<1> HIDE DEF n, b, c
<1> QED BY <1>1, <1>3

\* A step that counts what it takes into hand.
LEMMA CountedHands ==
    ASSUME TypeOK, NEW p \in Threads, NEW l, Weight(l) \in Nat, tasksothermap \in Rounds,
           UNCHANGED <<queue, unfetched>>, leaked' = leaked,
           NEW n \in Nat, other'[tasksothermap].urlnum = n,
           n + Weight(th[p]) = other[tasksothermap].urlnum + Weight(l)
    PROVE  Balanced(p, l)
<1> DEFINE m == other[tasksothermap].urlnum  s == Len(queue) + Len(unfetched)
           w == Weight(th[p])  w2 == Weight(l)
<1>1. m \in Nat /\ s \in Nat /\ w \in Nat /\ w2 \in Nat
  <2>1. m \in Nat
    BY DEF TypeOK, TaskOther
  <2> QED BY <2>1, CountsAreNumbers
<1>2. Before(p) = s + w /\ After(l) = s + w2 /\ n + w = m + w2
  BY DEF Before, After
<1> HIDE DEF m, s, w, w2
<1>3. m + After(l) = n + Before(p) /\ m + After(l) \in Nat
  BY <1>1, <1>2
<1>4. tasksothermap # NULL
  BY CrawlAssumption DEF Rounds
<1> QED BY <1>3, <1>4 DEF Balanced, m

\* The page from outside is counted, if its round is still there.
LEMMA OuterCountsStep ==
    ASSUME TypeOK, Sound, NEW p \in Fetchers, OuterCounts(p)
    PROVE  TypeOK' /\ broken' \in {"no", "outer"} /\ (broken' = "no" => Sound')
<1> DEFINE o == th[p].ptr  n == other[o].urlnum + 1
<1>1. /\ p \in Threads /\ p # Getter /\ th[p] \in Local
  BY CrawlAssumption DEF Threads, TypeOK
<1>2. /\ th[p].pc = "outer" /\ UNCHANGED <<tasksothermap, round, frontier, outside, missed, leaked>>
      /\ broken' = IF Alive(o) THEN "no" ELSE "outer"
      /\ other' = [other EXCEPT ![o].urlnum = @ + 1]
  BY DEF OuterCounts, At
<1>3. o \in Rounds /\ outerSeen > 0
  BY <1>1, <1>2 DEF Sound, Labelled, Fits
<1>4. PICK u \in Urls : Moves(p, [th[p] EXCEPT !.pc = "links", !.cur = Node(u),
                                               !.todo = Links[u], !.ptr = NULL])
  BY DEF OuterCounts
<1> DEFINE l == [th[p] EXCEPT !.pc = "links", !.cur = Node(u), !.todo = Links[u], !.ptr = NULL]
<1>5. Node(u) \in UrlNode /\ Links[u] \in SUBSET Urls
  BY CrawlAssumption DEF Node, UrlNode
<1>6. /\ l \in Local /\ l.pc = "links" /\ l.cur \in UrlNode /\ l.rows = th[p].rows
      /\ Moves(p, l)
  BY <1>1, <1>4, <1>5 DEF Local, Labels
<1> HIDE DEF l
<1>7. other' \in [Rounds -> TaskOther]
  <2>1. other \in [Rounds -> TaskOther] /\ other[o] \in TaskOther
    BY <1>3 DEF TypeOK
  <2>2. [other[o] EXCEPT !.urlnum = @ + 1] \in TaskOther
    BY <2>1 DEF TaskOther
  <2> QED BY <1>2, <2>1, <2>2
<1>8. TypeOK'
  BY <1>1, <1>2, <1>6, <1>7, MovesFacts DEF TypeOK, frontier, outside
<1>9. ASSUME broken' = "no" PROVE Sound'
  <2>1. o = tasksothermap
    BY <1>2, <1>3, <1>9 DEF Alive, Sound, OneRound
  <2>2. n \in Nat /\ n = other[tasksothermap].urlnum + 1 /\ other[tasksothermap].urlnum \in Nat
    BY <1>3, <2>1 DEF TypeOK, TaskOther
  <2>3. other' = [other EXCEPT ![tasksothermap].urlnum = n]
    BY <1>2, <1>3, <2>1 DEF TypeOK
  <2> HIDE DEF n
  <2>4. /\ other'[tasksothermap].urlnum = n
        /\ \A r \in Rounds : /\ other'[r].live = other[r].live
                             /\ other'[r].alreadyused = other[r].alreadyused
                             /\ r # tasksothermap => other'[r].urlnum = other[r].urlnum
    BY <1>3, <2>1, <2>2, <2>3, CountChanges
  <2>5. SameRound
    BY <1>2, <2>4 DEF SameRound, outside
  <2>6. /\ ~HasPage(th[p]) /\ ~HasLoaded(th[p]) /\ HasPage(l) /\ ~HasLoaded(l)
        /\ ~Inserting(l) /\ ~Follows(l)
    BY <1>2, <1>6 DEF HasPage, HasLoaded, Inserting, Follows
  <2>7. Weight(th[p]) \in Nat /\ Weight(l) = Weight(th[p]) + 1
    BY <1>1, <1>2, <1>6, <2>6, OnePage, CountsAreNumbers
  <2>8. Balanced(p, l)
    <3>1. Weight(l) \in Nat /\ n + Weight(th[p]) = other[tasksothermap].urlnum + Weight(l)
      BY <2>2, <2>7
    <3>2. UNCHANGED <<queue, unfetched>> /\ leaked' = leaked
      BY <1>2 DEF frontier
    <3> QED BY <1>1, <1>3, <2>1, <2>2, <2>4, <3>1, <3>2, CountedHands
  <2>9. Locks(p, l)
    BY <1>1, <1>2, <1>6, <2>6 DEF Locks, frontier, Sound, RowsHeld, HasRows
  <2>10. Fits(p, l)
    BY <1>1, <1>6, <2>6 DEF Fits
  <2>11. GoesOn(p, l)
    BY <1>6, <2>5, <2>6, <2>8, <2>9, <2>10 DEF GoesOn
  <2>12. ~Plain /\ outer' <= outer
    BY <1>2, <1>3 DEF Plain, outside, TypeOK
  <2> QED BY <1>6, <1>8, <2>4, <2>11, <2>12, FetcherKeeps
<1> QED BY <1>2, <1>8, <1>9

\* The page is counted off; if that was the last url, as it must be without
\* another one, this thread is the one to end the round.
LEMMA FinishUncountsStep ==
    ASSUME TypeOK, Sound, NEW p \in Fetchers, FinishUncounts(p)
    PROVE  Kept
<1> DEFINE n == other[tasksothermap].urlnum - 1
<1>1. /\ p \in Threads /\ p # Getter /\ th[p] \in Local
  BY CrawlAssumption DEF Threads, TypeOK
<1>2. /\ th[p].pc = "uncount" /\ HasPage(th[p]) /\ Follows(th[p])
      /\ ~HasLoaded(th[p])
  BY DEF FinishUncounts, At, HasPage, Follows, HasLoaded, Inserting
<1>3. Weight(th[p]) > 0
  BY <1>1, <1>2, Hands
<1>4. /\ tasksothermap \in Rounds /\ tasksothermap # NULL
      /\ other[tasksothermap].urlnum \in Nat /\ other[tasksothermap].urlnum > 0
      /\ th[p].ptr = tasksothermap /\ Alive(tasksothermap)
  <2>1. th[p].ptr = tasksothermap
    BY <1>1, <1>2 DEF Sound, PointersFresh
  <2> QED BY <1>1, <1>3, <2>1, HandHasRound DEF Sound, OneRound, Alive
<1>5. n \in Nat
  BY <1>4
<1>6. /\ broken' = "no" /\ UNCHANGED <<tasksothermap, round, frontier, outside, missed, leaked>>
      /\ other' = [other EXCEPT ![tasksothermap].urlnum = n]
      /\ IF other[tasksothermap].urlnum = 1 THEN Goto(p, "end") ELSE Loop(p)
  BY <1>4 DEF FinishUncounts, Touches, LastUrl
<1>7. PICK l \in Local : /\ Moves(p, l) /\ l.rows = th[p].rows /\ Fits(p, l)
                         /\ ~HasPage(l) /\ ~HasLoaded(l) /\ ~Follows(l) /\ ~Inserting(l)
                         /\ l.pc \in {"idle", "end"} /\ (l.pc = "end" => n = 0)
  <2>1. CASE other[tasksothermap].urlnum = 1
    <3> DEFINE l == [th[p] EXCEPT !.pc = "end"]
    <3>1. l \in Local /\ l.pc = "end" /\ l.rows = th[p].rows /\ Moves(p, l)
      BY <1>1, <1>6, <2>1 DEF Local, Labels, Goto
    <3> HIDE DEF l
    <3>2. Fits(p, l) /\ ~HasPage(l) /\ ~HasLoaded(l) /\ ~Follows(l) /\ ~Inserting(l)
      BY <1>1, <3>1 DEF Fits, HasPage, HasLoaded, Follows, Inserting
    <3> QED BY <2>1, <3>1, <3>2
  <2>2. CASE other[tasksothermap].urlnum # 1
    <3> DEFINE l == [th[p] EXCEPT !.pc = "idle", !.cur = NULL, !.ptr = NULL]
    <3>1. /\ l \in Local /\ l.pc = "idle" /\ l.rows = th[p].rows
          /\ Fits(p, l) /\ ~Follows(l) /\ ~HasPage(l) /\ ~HasLoaded(l) /\ ~Inserting(l)
      BY LoopFacts
    <3>2. Moves(p, l)
      BY <1>6, <2>2 DEF Loop
    <3> HIDE DEF l
    <3> QED BY <3>1, <3>2
  <2> QED BY <2>1, <2>2
<1>8. n + 1 = other[tasksothermap].urlnum
  BY <1>4
<1> HIDE DEF n
<1>9. /\ other' \in [Rounds -> TaskOther] /\ other'[tasksothermap].urlnum = n
      /\ \A r \in Rounds : /\ other'[r].live = other[r].live
                           /\ other'[r].alreadyused = other[r].alreadyused
                           /\ r # tasksothermap => other'[r].urlnum = other[r].urlnum
  BY <1>4, <1>5, <1>6, CountChanges
<1>10. TypeOK'
  BY <1>1, <1>6, <1>7, <1>9, MovesFacts DEF TypeOK, frontier, outside
<1>11. SameRound
  BY <1>6, <1>9 DEF SameRound, outside
<1>12. Balanced(p, l)
  <2>1. Len(l.rows) \in Nat /\ th[p].pc # "push" /\ l.pc # "push"
    BY <1>1, <1>2, <1>7, CountsAreNumbers
  <2>2. Weight(l) \in Nat /\ Weight(th[p]) = Weight(l) + 1
    BY <1>2, <1>7, <2>1, OnePage
  <2>3. n + Weight(th[p]) = other[tasksothermap].urlnum + Weight(l)
    BY <1>4, <1>5, <1>8, <2>2
  <2>4. UNCHANGED <<queue, unfetched>> /\ leaked' = leaked
    BY <1>6 DEF frontier
  <2> QED BY <1>1, <1>4, <1>5, <1>9, <2>2, <2>3, <2>4, CountedHands
<1>13. Locks(p, l)
  BY <1>1, <1>6, <1>7 DEF Locks, frontier, Sound, RowsHeld, HasRows
<1>14. GoesOn(p, l)
  BY <1>7, <1>11, <1>12, <1>13 DEF GoesOn
<1>15. l.pc = "end" => Weight(th[p]) > 0 /\ other'[tasksothermap].urlnum = 0
  BY <1>3, <1>7, <1>9
<1>16. outer' <= outer
  BY <1>6 DEF outside, TypeOK
<1>17. Sound'
  BY <1>3, <1>9, <1>10, <1>14, <1>15, <1>16, FetcherKeeps
<1> QED BY <1>6, <1>10, <1>17 DEF Kept

\* A step of a fetching thread that leaves the rounds and the pages from
\* outside alone.
LEMMA FetcherMoves ==
    ASSUME TypeOK, TypeOK', Sound, NEW p \in Fetchers, NEW l \in Local, Moves(p, l), Fits(p, l),
           Locks(p, l), Balanced(p, l), UNCHANGED <<task, outside>>,
           Follows(l) => l.ptr = tasksothermap, l.pc # "end", broken' = "no"
    PROVE  Kept
<1>1. SameRound /\ SameCount
  BY DEF SameRound, SameCount, task, outside
<1>2. GoesOn(p, l)
  BY <1>1 DEF GoesOn
<1>3. outer' <= outer /\ \A r \in Rounds : other'[r].alreadyused = other[r].alreadyused
  BY DEF task, outside, TypeOK
<1>4. Sound'
  BY <1>1, <1>2, <1>3, FetcherKeeps
<1> QED BY <1>4 DEF Kept

\* A step that moves urls between the queues and p's hands.
LEMMA Shifts ==
    ASSUME TypeOK, NEW p \in Threads, NEW l, After(l) = Before(p), UNCHANGED <<task, leaked>>
    PROVE  Balanced(p, l)
<1>1. Before(p) \in Nat
  BY CountsAreNumbers DEF Before
<1>2. tasksothermap # NULL => other[tasksothermap].urlnum \in Nat
  BY DEF TypeOK, TaskOther
<1> QED BY <1>1, <1>2 DEF Balanced, task

\* The rows are taken out of the database, under the lock of their table.
LEMMA LoadStartsStep ==
    ASSUME TypeOK, Sound, NEW p \in Fetchers, LoadStarts(p)
    PROVE  Kept
<1> DEFINE l == [th[p] EXCEPT !.pc = "load", !.rows = unfetched]
<1>1. /\ p \in Threads /\ p # Getter /\ p # NULL /\ th[p] \in Local /\ unfetched \in Seq(UrlNode)
  BY CrawlAssumption DEF Threads, TypeOK
<1>2. /\ th[p].pc = "idle" /\ broken = "no" /\ tablelock = NULL /\ tablelock' = p /\ Moves(p, l)
      /\ unfetched' = << >> /\ UNCHANGED <<task, queue, outside, ghosts>>
  BY DEF LoadStarts, At
<1>3. th[p].rows = << >>
  BY <1>1, <1>2 DEF Sound, RowsHeld, HasRows
<1>4. l \in Local /\ l.pc = "load" /\ l.rows = unfetched
  BY <1>1 DEF Local, Labels
<1> HIDE DEF l
<1>5. /\ ~HasPage(l) /\ ~HasLoaded(l) /\ ~Inserting(l) /\ ~Follows(l)
      /\ ~HasPage(th[p]) /\ ~HasLoaded(th[p])
  BY <1>2, <1>4 DEF HasPage, HasLoaded, Inserting, Follows
<1>6. TypeOK'
  BY <1>1, <1>2, <1>4, MovesFacts DEF TypeOK, task, outside, ghosts
<1>7. Fits(p, l) /\ Locks(p, l)
  BY <1>1, <1>2, <1>4, <1>5 DEF Fits, Locks
<1>8. Balanced(p, l)
  <2> DEFINE c == Len(queue)  d == Len(unfetched)
  <2>1. c \in Nat /\ d \in Nat
    BY CountsAreNumbers
  <2>2. Weight(l) = d + 0 + 0 + 0
    BY <1>4, <1>5 DEF Weight, Bit
  <2>3. Weight(th[p]) = 0 + 0 + 0 + 0
    BY <1>2, <1>3, <1>5 DEF Weight, Bit
  <2>4. Len(queue') = c /\ Len(unfetched') = 0
    BY <1>2
  <2>5. Before(p) = c + d + Weight(th[p]) /\ After(l) = c + 0 + Weight(l)
    BY <2>4 DEF Before, After
  <2> HIDE DEF c, d
  <2>6. After(l) = Before(p)
    BY <2>1, <2>2, <2>3, <2>5
  <2> QED BY <1>1, <1>2, <2>6, Shifts DEF ghosts
<1>9. broken' = "no"
  BY <1>2 DEF ghosts
<1> QED BY <1>2, <1>4, <1>5, <1>6, <1>7, <1>8, <1>9, FetcherMoves

\* A loaded row is inserted, or lost, and then known to be.
LEMMA LoadInsertsStep ==
    ASSUME TypeOK, Sound, NEW p \in Fetchers, LoadInserts(p)
    PROVE  Kept
<1> DEFINE k == [th[p] EXCEPT !.rows = Tail(@)]
           u == Head(th[p].rows).url
           e == Head(th[p].rows).errornum
<1>1. /\ p \in Threads /\ p # Getter /\ th[p] \in Local /\ th[p].rows \in Seq(UrlNode)
  BY CrawlAssumption DEF Threads, TypeOK, Local
<1>2. /\ th[p].pc = "load" /\ broken = "no" /\ th[p].rows # << >>
      /\ UNCHANGED <<task, frontier, outside, broken, missed>>
      /\ leaked' = (leaked \/ th'[p].pc = "load")
      /\ CallsInsert(p, k, u, e, "load")
  BY DEF LoadInserts, At
<1>3. /\ k \in Local /\ k.rows = Tail(th[p].rows)
      /\ Len(Tail(th[p].rows)) = Len(th[p].rows) - 1 /\ Len(th[p].rows) \in Nat
      /\ Len(th[p].rows) > 0
      /\ u \in Urls /\ e \in 0..RetryTimes
  <2>1. Head(th[p].rows) \in UrlNode /\ Tail(th[p].rows) \in Seq(UrlNode)
    BY <1>1, <1>2
  <2>2. /\ Len(Tail(th[p].rows)) = Len(th[p].rows) - 1 /\ Len(th[p].rows) \in Nat
        /\ Len(th[p].rows) > 0
    BY <1>1, <1>2
  <2>3. k \in Local /\ k.rows = Tail(th[p].rows)
    BY <1>1, <2>1 DEF Local
  <2> QED BY <2>1, <2>2, <2>3 DEF UrlNode
<1>4. PICK l \in Inserts(k, u, e, "load") : Moves(p, l)
  BY <1>2 DEF CallsInsert
<1> HIDE DEF k, u, e
<1>5. /\ l \in Local /\ l.rows = Tail(th[p].rows)
      /\ \/ /\ l.pc \in {"find", "count"} /\ Inserting(l)
            /\ l.ins \in Insert /\ l.ins.kind = "load" /\ l.ptr = tasksothermap
         \/ ~Inserting(l) /\ ~Follows(l) /\ l.pc = "load"
  BY <1>3, CallFacts DEF Kinds
<1>6. th'[p] = l
  BY <1>1, <1>4, <1>5, MovesFacts
<1>7. TypeOK'
  BY <1>1, <1>2, <1>4, <1>5, MovesFacts DEF TypeOK, task, frontier, outside
<1>8. ~HasPage(l) /\ ~HasPage(th[p]) /\ ~HasLoaded(th[p]) /\ (HasLoaded(l) <=> l.pc # "load")
  BY <1>2, <1>5 DEF HasPage, HasLoaded, Inserting
<1>9. Fits(p, l)
  BY <1>1, <1>5, <1>8 DEF Fits
<1>10. Locks(p, l)
  BY <1>1, <1>2 DEF Locks, frontier, Sound, RowsHeld, HasRows
<1>11. Balanced(p, l)
  <2> DEFINE n == Len(th[p].rows)
  <2>1. Len(l.rows) = n - 1 /\ n \in Nat /\ n > 0
    BY <1>3, <1>5
  <2>2. /\ Bit(HasPage(l)) = 0 /\ Bit(HasPage(th[p])) = 0 /\ Bit(HasLoaded(th[p])) = 0
        /\ Bit(l.pc = "push") = 0 /\ Bit(th[p].pc = "push") = 0
    BY <1>2, <1>5, <1>8 DEF Bit
  <2>3. Weight(th[p]) = n + 0 + 0 + 0
    BY <2>2 DEF Weight
  <2>4. Weight(l) = (n - 1) + 0 + Bit(HasLoaded(l)) + 0
    BY <2>1, <2>2 DEF Weight
  <2>5. UNCHANGED <<queue, unfetched, tasksothermap>> /\ SameCount
    BY <1>2 DEF frontier, task, SameCount
  <2> HIDE DEF n
  <2>6. CASE l.pc = "load"
    <3>1. Bit(HasLoaded(l)) = 0
      BY <1>8, <2>6 DEF Bit
    <3>2. Weight(l) \in Nat /\ Weight(l) <= Weight(th[p])
      BY <2>1, <2>3, <2>4, <3>1
    <3>3. leaked'
      BY <1>2, <1>6, <2>6
    <3> QED BY <1>1, <2>5, <3>2, <3>3, Loses
  <2>7. CASE l.pc # "load"
    <3>1. Bit(HasLoaded(l)) = 1
      BY <1>8, <2>7 DEF Bit
    <3>2. Weight(l) = Weight(th[p])
      BY <2>1, <2>3, <2>4, <3>1
    <3>3. leaked' = leaked
      BY <1>2, <1>6, <2>7 DEF TypeOK
    <3> QED BY <1>1, <2>5, <3>2, <3>3, Even
  <2> QED BY <2>6, <2>7
<1>12. broken' = "no" /\ UNCHANGED <<task, outside>> /\ l.pc # "end"
  BY <1>2, <1>5
<1> QED BY <1>4, <1>5, <1>7, <1>9, <1>10, <1>11, <1>12, FetcherMoves

\* getUrl takes the url at the head of the queue, if there is one.
LEMMA PopsStep ==
    ASSUME TypeOK, Sound, NEW p \in Fetchers, th[p].pc \in {"idle", "load"}, Pops(p),
           \/ tablelock' = tablelock
           \/ tablelock = p /\ tablelock' = NULL /\ th[p].rows = << >>,
           UNCHANGED <<task, unfetched, outside, ghosts>>, broken = "no"
    PROVE  Kept
<1>1. /\ p \in Threads /\ p # Getter /\ th[p] \in Local /\ queue \in Seq(UrlNode)
  BY CrawlAssumption DEF Threads, TypeOK
<1>2. ~HasPage(th[p]) /\ ~HasLoaded(th[p]) /\ th[p].pc # "push"
  BY DEF HasPage, HasLoaded, Inserting
<1>3. ASSUME NEW l \in Local, Moves(p, l), l.pc \in {"idle", "fetch"}, l.rows = th[p].rows,
             l.pc = "fetch" => l.cur \in UrlNode, queue' \in Seq(UrlNode),
             Len(queue') + Weight(l) = Len(queue) + Weight(th[p]), Weight(l) \in Nat
      PROVE  Kept
  <2>1. ~Inserting(l) /\ ~HasLoaded(l) /\ ~Follows(l) /\ (HasPage(l) <=> l.pc = "fetch")
    BY <1>3 DEF HasPage, HasLoaded, Inserting, Follows
  <2>2. Fits(p, l)
    BY <1>1, <1>3, <2>1 DEF Fits
  <2>3. HasRows(l) <=> th[p].rows # << >>
    BY <1>3, <2>1 DEF HasRows
  <2>4. Locks(p, l)
    BY <1>1, <2>3 DEF Locks, Sound, RowsHeld, HasRows
  <2>5. TypeOK'
    BY <1>1, <1>3, MovesFacts DEF TypeOK, task, outside, ghosts
  <2>6. Balanced(p, l)
    <3> DEFINE c == Len(queue)  c2 == Len(queue')  d == Len(unfetched)
               w == Weight(th[p])  w2 == Weight(l)
    <3>1. c \in Nat /\ d \in Nat /\ w \in Nat
      BY <1>1, CountsAreNumbers
    <3>2. c2 \in Nat /\ w2 \in Nat
      BY <1>3
    <3>3. c2 + w2 = c + w
      BY <1>3
    <3>4. Before(p) = c + d + w /\ After(l) = c2 + d + w2
      BY DEF Before, After
    <3> HIDE DEF c, c2, d, w, w2
    <3>5. After(l) = Before(p)
      BY <3>1, <3>2, <3>3, <3>4
    <3> QED BY <1>1, <3>5, Shifts DEF ghosts
  <2>7. broken' = "no" /\ l.pc # "end"
    BY <1>3 DEF ghosts
  <2> QED BY <1>3, <2>1, <2>2, <2>4, <2>5, <2>6, <2>7, FetcherMoves
<1>4. Len(th[p].rows) \in Nat /\ Weight(th[p]) \in Nat /\ Len(queue) \in Nat
  BY <1>1, CountsAreNumbers
<1>5. CASE queue = << >>
  <2> DEFINE l == [th[p] EXCEPT !.pc = "idle"]
  <2>1. l \in Local /\ l.pc = "idle" /\ l.rows = th[p].rows /\ Moves(p, l) /\ queue' = queue
    BY <1>1, <1>5 DEF Local, Labels, Pops, Goto
  <2> HIDE DEF l
  <2>2. Weight(l) = Weight(th[p])
    <3>1. ~HasPage(l) /\ ~HasLoaded(l)
      BY <2>1 DEF HasPage, HasLoaded, Inserting
    <3> QED BY <1>2, <2>1, <3>1, SameHands
  <2> QED BY <1>1, <1>3, <1>4, <2>1, <2>2
<1>6. CASE queue # << >>
  <2> DEFINE l == [th[p] EXCEPT !.pc = "fetch", !.cur = Head(queue)]
  <2>1. /\ Head(queue) \in UrlNode /\ Tail(queue) \in Seq(UrlNode)
        /\ Len(Tail(queue)) + 1 = Len(queue) /\ Len(Tail(queue)) \in Nat
    BY <1>1, <1>6
  <2>2. /\ l \in Local /\ l.pc = "fetch" /\ l.rows = th[p].rows /\ l.cur \in UrlNode
        /\ Moves(p, l) /\ queue' = Tail(queue)
    BY <1>1, <1>6, <2>1 DEF Local, Labels, Pops
  <2> HIDE DEF l
  <2>3. Weight(l) = Weight(th[p]) + 1
    <3>1. HasPage(l) /\ ~HasLoaded(l)
      BY <2>2 DEF HasPage, HasLoaded, Inserting
    <3> QED BY <1>2, <1>4, <2>2, <3>1, OnePage
  <2>4. Weight(l) \in Nat /\ Len(queue') + Weight(l) = Len(queue) + Weight(th[p])
    <3> DEFINE c == Len(queue)  c2 == Len(Tail(queue))  w == Weight(th[p])  w2 == Weight(l)
    <3>1. c2 + 1 = c /\ w2 = w + 1 /\ c2 \in Nat /\ w \in Nat
      BY <1>4, <2>1, <2>3
    <3>2. Len(queue') = c2
      BY <2>2
    <3> HIDE DEF c, c2, w, w2
    <3>3. w2 \in Nat /\ c2 + w2 = c + w
      BY <3>1
    <3> QED BY <3>2, <3>3 DEF c, w, w2
  <2> QED BY <1>3, <2>1, <2>2, <2>4
<1> QED BY <1>5, <1>6

\* getUrl when nothing is loaded, and when the loading is done.
LEMMA GetsUrlStep ==
    ASSUME TypeOK, Sound, NEW p \in Fetchers, GetsUrl(p) \/ LoadEnds(p)
    PROVE  Kept
<1>1. CASE GetsUrl(p)
  BY <1>1, PopsStep DEF GetsUrl, At
<1>2. CASE LoadEnds(p)
  <2>1. tablelock = p
    BY <1>2 DEF LoadEnds, At, Sound, RowsHeld, HasRows, Threads
  <2> QED BY <1>2, <2>1, PopsStep DEF LoadEnds, At
<1> QED BY <1>1, <1>2

\* Without anything outstanding no thread has anything in hand, and none but
\* getTaskThread is in insertUrl or follows a pointer.
LEMMA NothingInHand ==
    ASSUME TypeOK, Sound, Outstanding = 0
    PROVE  \A p \in Threads : /\ Weight(th[p]) = 0 /\ ~HasPage(th[p])
                              /\ p # Getter => ~Inserting(th[p]) /\ ~Follows(th[p])
                              /\ ~Inserting(th[p]) => ~Follows(th[p])
<1> SUFFICES ASSUME NEW p \in Threads
             PROVE  /\ Weight(th[p]) = 0 /\ ~HasPage(th[p])
                    /\ p # Getter => ~Inserting(th[p]) /\ ~Follows(th[p])
                    /\ ~Inserting(th[p]) => ~Follows(th[p])
  OBVIOUS
<1>1. Weight(th[p]) \in Nat /\ ~(Weight(th[p]) > 0)
  <2>1. ASSUME Weight(th[p]) > 0 PROVE FALSE
    <3>1. Outstanding > 0
      BY <2>1, HandCounted DEF Sound
    <3> QED BY <3>1
  <2> QED BY <2>1, CountsAreNumbers
<1>2. ~HasPage(th[p])
  BY <1>1, Hands
<1>3. ~Inserting(th[p]) => ~Follows(th[p])
  BY <1>2 DEF HasPage, Follows, Inserting
<1>4. p # Getter => ~Inserting(th[p])
  BY <1>1, BusyHasRound
<1> QED BY <1>1, <1>2, <1>3, <1>4

\* The thread that counted off the last url ends the round.  If nothing has been
\* counted since, then nothing is outstanding, and no thread has a pointer to
\* the TaskOtherInfo that is deleted.
LEMMA EndDeletesStep ==
    ASSUME TypeOK, Sound, NEW p \in Fetchers, EndDeletes(p)
    PROVE  /\ TypeOK' /\ broken' \in {"no", "early"} /\ outerSeen' = outerSeen
           /\ broken' = "early" => ~Plain
           /\ broken' = "no" => Sound'
<1> DEFINE l == [th[p] EXCEPT !.pc = "idle", !.cur = NULL, !.ptr = NULL]
           o == tasksothermap
<1>1. /\ p \in Threads /\ p # Getter /\ Getter \in Threads /\ th[p] \in Local
  BY CrawlAssumption DEF Threads, TypeOK
<1>2. /\ th[p].pc = "end" /\ o # NULL /\ ~other[o].alreadyused /\ tasksothermap' = NULL
      /\ other' = [other EXCEPT ![o].live = FALSE]
      /\ broken' = IF other[o].urlnum > 0 THEN "early" ELSE "no"
      /\ Moves(p, l) /\ UNCHANGED <<round, frontier, outside, missed, leaked>>
  BY DEF EndDeletes, At, Loop
<1>3. /\ l \in Local /\ l.pc = "idle" /\ l.rows = th[p].rows
      /\ Fits(p, l) /\ ~Follows(l) /\ ~HasPage(l) /\ ~HasLoaded(l) /\ ~Inserting(l)
      /\ HasRows(l) => HasRows(th[p])
  BY LoopFacts
<1> HIDE DEF l
<1>4. o \in Rounds /\ other[o] \in TaskOther /\ other[o].urlnum \in Nat
  BY <1>2 DEF TypeOK, TaskOther
<1>5. /\ other' \in [Rounds -> TaskOther]
      /\ \A r \in Rounds : /\ other'[r].urlnum = other[r].urlnum
                           /\ r # o => other'[r].live = other[r].live
      /\ ~other'[o].live
  <2>1. [other[o] EXCEPT !.live = FALSE] \in TaskOther
    BY <1>4 DEF TaskOther
  <2>2. other' \in [Rounds -> TaskOther]
    BY <1>2, <1>4, <2>1 DEF TypeOK
  <2> QED BY <1>2, <1>4, <2>2 DEF TypeOK, TaskOther
<1>6. TypeOK'
  BY <1>1, <1>2, <1>3, <1>5, MovesFacts DEF TypeOK, frontier, outside
<1>7. broken' = "early" => ~Plain
  BY <1>1, <1>2, <1>4 DEF Sound, EndsOnce, CountIsZero
<1>8. ASSUME broken' = "no" PROVE Sound'
  <2>1. Outstanding = 0
    <3>1. other[o].urlnum = 0 /\ other[o].urlnum >= Outstanding
      BY <1>2, <1>4, <1>8 DEF Sound, Counted
    <3> QED BY <3>1, CountsAreNumbers
  <2>2. /\ th'[p] = l
        /\ \A q \in Threads : q # p => th'[q] = th[q]
    BY <1>1, <1>2, <1>3, MovesFacts
  <2>3. th'[Getter] = th[Getter] /\ th[Getter].pc = "wait" /\ th[Getter].todo = {}
    BY <1>1, <1>2, <2>2 DEF Sound, GetterUses
  <2>4. \A q \in Threads : ~Follows(th'[q])
    BY <1>3, <2>1, <2>2, <2>3, NothingInHand DEF Follows
  <2>5. Labelled'
    <3>1. \A q \in Threads : Fits(q, th'[q])
      BY <1>3, <2>2 DEF Sound, Labelled
    <3>2. \A q \in Threads : Fits(q, th[q])' <=> Fits(q, th'[q])
      BY <1>2 DEF Fits, Inserting, HasPage, outside
    <3> QED BY <3>1, <3>2 DEF Labelled
  <2>6. RowsHeld'
    <3>1. \A q \in Threads : HasRows(th'[q]) => HasRows(th[q])
      BY <1>3, <2>2
    <3> QED BY <1>2, <3>1 DEF Sound, RowsHeld, HasRows, HasLoaded, Inserting, frontier
  <2>7. OneRound'
    <3>1. \A r \in Rounds : other'[r].live <=> r = NULL
      BY <1>4, <1>5, CrawlAssumption DEF Sound, OneRound, Rounds
    <3> QED BY <1>2, <1>5, <3>1 DEF Sound, OneRound
  <2>8. GetterUses'
    BY <1>2, <2>3 DEF GetterUses
  <2>9. PointersFresh'
    BY <2>4 DEF PointersFresh, Follows
  <2>10. Counted'
    <3>1. Locks(p, l)
      BY <1>1, <1>2, <1>3 DEF Locks, Sound, RowsHeld, frontier
    <3>2. Outstanding' + Len(queue) + Len(unfetched) + Weight(th[p])
             = Outstanding + Len(queue') + Len(unfetched') + Weight(l)
      BY <1>1, <1>2, <1>3, <1>6, <3>1, OutstandingStep DEF Sound
    <3>3. Weight(th[p]) = 0 /\ Weight(l) = Weight(th[p])
      <4>1. ~HasPage(th[p]) /\ ~HasLoaded(th[p])
        BY <1>2 DEF HasPage, HasLoaded, Inserting
      <4> QED BY <1>1, <1>2, <1>3, <2>1, <4>1, NothingInHand, SameHands
    <3> DEFINE c == Len(queue)  d == Len(unfetched)  k == Outstanding'
    <3>4. c \in Nat /\ d \in Nat /\ Len(queue') = c /\ Len(unfetched') = d
      BY <1>2, CountsAreNumbers DEF frontier
    <3>5. k \in Nat
      <4>1. /\ Cardinality(Working') \in Nat /\ Cardinality(Loading') \in Nat
            /\ Cardinality(Pushing') \in Nat
        BY ThreadsFinite, FS_CardinalityType DEF Working, Loading, Pushing
      <4>2. \A q \in Threads : th'[q].rows \in Seq(UrlNode)
        BY <1>6 DEF TypeOK, Local
      <4>3. RowsLoaded' \in Nat
        BY <1>6, <4>2 DEF RowsLoaded, TypeOK, Threads
      <4> QED BY <3>4, <4>1, <4>3 DEF Outstanding
    <3>6. k + c + d + 0 = 0 + c + d + 0
      BY <2>1, <3>2, <3>3, <3>4
    <3> HIDE DEF c, d, k
    <3>7. k = 0
      BY <3>4, <3>5, <3>6
    <3> QED BY <1>2, <3>7 DEF Counted, k
  <2>11. EndsOnce'
    <3>1. outer' <= outerSeen' /\ (Plain' <=> Plain)
      BY <1>2 DEF Sound, EndsOnce, Plain, outside
    <3>2. ~Inserting(th'[Getter]) /\ th'[Getter].todo = {} /\ ~Uncounted(th'[Getter])
      BY <2>3 DEF Inserting, Uncounted
    <3>3. Plain => \A q \in Threads : th'[q].pc # "end"
      BY <1>1, <1>2, <1>3, <2>2 DEF Sound, EndsOnce
    <3> QED BY <3>1, <3>2, <3>3 DEF EndsOnce, Pending, Uncounted, Inserting
  <2> QED BY <2>5, <2>6, <2>7, <2>8, <2>9, <2>10, <2>11 DEF Sound
<1>9. broken' \in {"no", "early"} /\ outerSeen' = outerSeen
  BY <1>2 DEF outside
<1> QED BY <1>6, <1>7, <1>8, <1>9

\* All steps of a fetching thread.
LEMMA FetcherStepKeeps ==
    ASSUME TypeOK, Sound, NEW p \in Fetchers, FetcherStep(p)
    PROVE  /\ TypeOK' /\ broken' \in {"no", "outer", "early"}
           /\ broken' = "early" => ~Plain /\ outerSeen' = outerSeen
           /\ broken' = "no" => Sound'
<1>1. p \in Threads
  BY DEF Threads
<1>2. CASE OuterCounts(p)
  BY <1>2, OuterCountsStep
<1>3. CASE EndDeletes(p)
  BY <1>3, EndDeletesStep
<1>4. CASE ~OuterCounts(p) /\ ~EndDeletes(p)
  <2>1. Kept
    BY <1>1, <1>4, OuterLooksUpStep, LoadStartsStep, LoadInsertsStep, GetsUrlStep, FetchFailsStep,
       FetchedStep, InsertsLinkStep, FinishLooksUpStep, FinishUncountsStep, EndMissesStep,
       InsertStepKeeps DEF FetcherStep
  <2> QED BY <2>1 DEF Kept
<1> QED BY <1>2, <1>3, <1>4

-----------------------------------------------------------------------------
(* getTaskThread *)

\* With one home url at most, the file names no two.
LEMMA OneHomeUrl ==
    ASSUME Cardinality(HomeUrls) <= 1
    PROVE  \A u, v \in HomeUrls : u = v
<1> SUFFICES ASSUME NEW u \in HomeUrls, NEW v \in HomeUrls, u # v
             PROVE  FALSE
  OBVIOUS
<1> DEFINE W == HomeUrls \ {u}
<1>1. IsFiniteSet(HomeUrls) /\ IsFiniteSet(W)
  BY CrawlAssumption, FS_RemoveElement
<1>2. Cardinality(W) = Cardinality(HomeUrls) - 1 /\ Cardinality(HomeUrls) \in Nat
  BY <1>1, FS_RemoveElement, FS_CardinalityType
<1>3. Cardinality(W) \in Nat /\ Cardinality(W) # 0
  <2>1. W # {}
    OBVIOUS
  <2> QED BY <1>1, <2>1, FS_CardinalityType, FS_EmptySet
<1> QED BY <1>2, <1>3

\* A new round: nothing is left over from the one before.
LEMMA RoundStartsStep ==
    ASSUME TypeOK, Sound, RoundStarts
    PROVE  Kept
<1> DEFINE l == [th[Getter] EXCEPT !.pc = "home", !.todo = HomeUrls]
           o == round + 1
<1>1. Getter \in Threads /\ th[Getter] \in Local /\ Getter \notin Fetchers
  BY CrawlAssumption DEF Threads, TypeOK
<1>2. /\ th[Getter].pc = "wait" /\ broken = "no" /\ tasksothermap = NULL /\ round < MaxRounds
      /\ round' = o /\ tasksothermap' = o
      /\ other' = [other EXCEPT ![o].live = TRUE, ![o].alreadyused = TRUE]
      /\ Moves(Getter, l) /\ UNCHANGED <<frontier, outside, ghosts>>
  BY DEF RoundStarts, At
<1>3. /\ o \in Rounds /\ o # NULL /\ o > round /\ round \in Nat /\ o \in 0..MaxRounds
      /\ \A r \in Rounds : r > o => r > round
  BY <1>2, CrawlAssumption DEF Rounds, TypeOK
<1>4. l \in Local /\ l.pc = "home" /\ l.todo = HomeUrls /\ l.rows = th[Getter].rows
  BY <1>1, CrawlAssumption DEF Local, Labels
<1> HIDE DEF l, o
<1>5. /\ other' \in [Rounds -> TaskOther] /\ other'[o].live /\ other'[o].alreadyused
      /\ \A r \in Rounds : /\ other'[r].urlnum = other[r].urlnum
                           /\ r # o => other'[r].live = other[r].live
  <2>1. other \in [Rounds -> TaskOther] /\ other[o] \in TaskOther
    BY <1>3 DEF TypeOK
  <2>2. other' \in [Rounds -> TaskOther]
    <3>1. [other[o] EXCEPT !.live = TRUE, !.alreadyused = TRUE] \in TaskOther
      BY <2>1 DEF TaskOther
    <3>2. other' = [other EXCEPT ![o] = [other[o] EXCEPT !.live = TRUE, !.alreadyused = TRUE]]
      BY <1>2, <2>1
    <3> QED BY <2>1, <3>1, <3>2
  <2> QED BY <1>2, <1>3, <2>1, <2>2 DEF TaskOther
<1>6. TypeOK'
  BY <1>1, <1>2, <1>3, <1>4, <1>5, MovesFacts DEF TypeOK, frontier, outside, ghosts
<1>7. Outstanding = 0
  BY <1>2 DEF Sound, Counted
<1>8. /\ th'[Getter] = l
      /\ \A q \in Threads : q # Getter => th'[q] = th[q]
  BY <1>1, <1>2, <1>4, MovesFacts
<1>9. /\ ~Inserting(l) /\ ~HasPage(l) /\ ~HasLoaded(l) /\ ~Follows(l)
      /\ ~Inserting(th[Getter]) /\ ~HasPage(th[Getter]) /\ ~HasLoaded(th[Getter])
  BY <1>2, <1>4 DEF Inserting, HasPage, HasLoaded, Follows
<1>10. \A q \in Threads : ~Follows(th'[q])
  BY <1>7, <1>8, <1>9, NothingInHand
<1>11. Labelled'
  <2>1. Fits(Getter, l)
    BY <1>4, <1>9 DEF Fits
  <2>2. \A q \in Threads : Fits(q, th'[q])
    BY <1>8, <2>1 DEF Sound, Labelled
  <2>3. \A q \in Threads : Fits(q, th[q])' <=> Fits(q, th'[q])
    BY <1>2 DEF Fits, Inserting, HasPage, outside
  <2> QED BY <2>2, <2>3 DEF Labelled
<1>12. \A q \in Threads : HasRows(th'[q]) => HasRows(th[q])
  BY <1>4, <1>8, <1>9 DEF HasRows
<1>13. RowsHeld'
  BY <1>2, <1>12 DEF Sound, RowsHeld, HasRows, HasLoaded, Inserting, frontier
<1>14. OneRound'
  <2>1. \A r \in Rounds : other'[r].live <=> r = o
    BY <1>2, <1>5, CrawlAssumption DEF Sound, OneRound, Rounds
  <2>2. \A r \in Rounds : r > o => other'[r].urlnum = 0
    BY <1>3, <1>5 DEF Sound, OneRound
  <2> QED BY <1>2, <2>1, <2>2 DEF OneRound
<1>15. GetterUses'
  BY <1>2, <1>3, <1>4, <1>5, <1>8 DEF GetterUses
<1>16. PointersFresh'
  BY <1>10 DEF PointersFresh, Follows
<1>17. other'[o].urlnum = 0
  BY <1>3, <1>5 DEF Sound, OneRound
<1>18. Counted'
  <2>1. Locks(Getter, l)
    BY <1>1, <1>2, <1>8, <1>12 DEF Locks, Sound, RowsHeld, frontier
  <2>2. Outstanding' + Len(queue) + Len(unfetched) + Weight(th[Getter])
           = Outstanding + Len(queue') + Len(unfetched') + Weight(l)
    BY <1>1, <1>2, <1>4, <1>6, <2>1, OutstandingStep DEF Sound
  <2>3. Weight(th[Getter]) = 0 /\ Weight(l) = Weight(th[Getter])
    BY <1>1, <1>2, <1>4, <1>7, <1>9, NothingInHand, SameHands
  <2> DEFINE c == Len(queue)  d == Len(unfetched)  k == Outstanding'
  <2>4. c \in Nat /\ d \in Nat /\ Len(queue') = c /\ Len(unfetched') = d
    BY <1>2, CountsAreNumbers DEF frontier
  <2>5. k \in Nat
    <3>1. /\ Cardinality(Working') \in Nat /\ Cardinality(Loading') \in Nat
          /\ Cardinality(Pushing') \in Nat
      BY ThreadsFinite, FS_CardinalityType DEF Working, Loading, Pushing
    <3>2. \A q \in Threads : th'[q].rows \in Seq(UrlNode)
      BY <1>6 DEF TypeOK, Local
    <3>3. RowsLoaded' \in Nat
      BY <1>6, <3>2 DEF RowsLoaded, TypeOK, Threads
    <3> QED BY <2>4, <3>1, <3>3 DEF Outstanding
  <2>6. k + c + d + 0 = 0 + c + d + 0
    BY <1>7, <2>2, <2>3, <2>4
  <2> HIDE DEF c, d, k
  <2>7. k = 0
    BY <2>4, <2>5, <2>6
  <2> QED BY <1>2, <1>17, <2>7 DEF Counted, k
<1>19. EndsOnce'
  <2>1. outer' <= outerSeen' /\ (Plain' <=> Plain)
    BY <1>2 DEF Sound, EndsOnce, Plain, outside
  <2>2. Plain => \A u, v \in th'[Getter].todo : u = v
    BY <1>4, <1>8, OneHomeUrl DEF Plain
  <2>3. ~Inserting(th'[Getter])
    BY <1>8, <1>9
  <2>4. Plain => \A q \in Threads : th'[q].pc # "end"
    BY <1>2, <1>4, <1>8 DEF Sound, EndsOnce, CountIsZero
  <2>5. CountIsZero'
    BY <1>2, <1>3, <1>17 DEF CountIsZero
  <2> QED BY <2>1, <2>2, <2>3, <2>4, <2>5 DEF EndsOnce, Inserting
<1>20. broken' = "no"
  BY <1>2 DEF ghosts
<1> QED BY <1>6, <1>11, <1>13, <1>14, <1>15, <1>16, <1>18, <1>19, <1>20 DEF Sound, Kept

\* A step of getTaskThread within its round that counts nothing.
LEMMA GetterMoves ==
    ASSUME TypeOK, TypeOK', Sound, NEW l \in Local, Moves(Getter, l), Fits(Getter, l),
           SameRound, SameCount, GetterUses', UNCHANGED <<frontier, outside, leaked>>,
           Weight(l) = Weight(th[Getter]), HasRows(l) => HasRows(th[Getter]),
           Follows(l) => l.ptr = tasksothermap, l.todo \subseteq th[Getter].todo,
           Plain /\ Inserting(l) => l.todo = {}, Uncounted(l) => Pending, broken' = "no"
    PROVE  Kept
<1>1. Getter \in Threads
  BY DEF Threads
<1>2. Balanced(Getter, l)
  BY <1>1, Even DEF frontier, SameRound
<1>3. Locks(Getter, l)
  BY <1>1 DEF Locks, frontier, Sound, RowsHeld
<1>4. GoesOn(Getter, l)
  BY <1>2, <1>3 DEF GoesOn
<1>5. Sound'
  BY <1>4, GetterKeeps DEF outside
<1> QED BY <1>5 DEF Kept

\* The running round is looked at for a moment: it is not in use.
LEMMA RoundGoesOnStep ==
    ASSUME TypeOK, Sound, RoundGoesOn
    PROVE  Kept
<1> DEFINE l == [th[Getter] EXCEPT !.pc = "home", !.todo = {}]
           o == tasksothermap
<1>1. Getter \in Threads /\ th[Getter] \in Local
  BY DEF Threads, TypeOK
<1>2. th[Getter].pc = "wait" /\ broken = "no" /\ o # NULL /\ o \in Rounds
  BY DEF RoundGoesOn, At, TypeOK
<1>3. ~other[o].alreadyused
  BY <1>2 DEF Sound, GetterUses
<1>4. /\ other' = [other EXCEPT ![o].alreadyused = TRUE]
      /\ Moves(Getter, l) /\ broken' = "no"
      /\ UNCHANGED <<tasksothermap, round, frontier, outside, missed, leaked>>
  BY <1>2, <1>3 DEF RoundGoesOn
<1>5. l \in Local /\ l.pc = "home" /\ l.todo = {} /\ l.rows = th[Getter].rows
  BY <1>1 DEF Local, Labels
<1> HIDE DEF l
<1>6. /\ other' \in [Rounds -> TaskOther] /\ other'[o].alreadyused
      /\ \A r \in Rounds : other'[r].urlnum = other[r].urlnum /\ other'[r].live = other[r].live
  <2>1. other \in [Rounds -> TaskOther] /\ other[o] \in TaskOther
    BY <1>2 DEF TypeOK
  <2>2. [other[o] EXCEPT !.alreadyused = TRUE] \in TaskOther
    BY <2>1 DEF TaskOther
  <2>3. other' \in [Rounds -> TaskOther]
    BY <1>4, <2>1, <2>2
  <2> QED BY <1>2, <1>4, <2>1, <2>3 DEF TaskOther
<1>7. TypeOK'
  BY <1>1, <1>4, <1>5, <1>6, MovesFacts DEF TypeOK, frontier, outside
<1>8. /\ ~Inserting(l) /\ ~HasPage(l) /\ ~HasLoaded(l) /\ ~Follows(l) /\ ~Uncounted(l)
      /\ ~HasPage(th[Getter]) /\ ~HasLoaded(th[Getter])
  BY <1>2, <1>5 DEF Inserting, HasPage, HasLoaded, Follows, Uncounted
<1>9. Fits(Getter, l) /\ (HasRows(l) => HasRows(th[Getter]))
  BY <1>5, <1>8 DEF Fits, HasRows
<1>10. Weight(l) = Weight(th[Getter])
  BY <1>2, <1>5, <1>8, SameHands
<1>11. GetterUses'
  <2>1. th'[Getter] = l
    BY <1>1, <1>4, <1>5, MovesFacts
  <2> QED BY <1>2, <1>4, <1>5, <1>6, <2>1 DEF GetterUses
<1>12. SameRound /\ SameCount
  BY <1>2, <1>4, <1>6 DEF SameRound, SameCount, outside
<1>13. l.todo \subseteq th[Getter].todo /\ UNCHANGED <<frontier, outside, leaked>>
  BY <1>4, <1>5
<1> QED BY <1>4, <1>5, <1>7, <1>8, <1>9, <1>10, <1>11, <1>12, <1>13, GetterMoves

\* The next home url.
LEMMA HomeInsertsStep ==
    ASSUME TypeOK, Sound, HomeInserts
    PROVE  Kept
<1>1. Getter \in Threads /\ th[Getter] \in Local
  BY DEF Threads, TypeOK
<1>2. /\ th[Getter].pc = "home" /\ broken = "no" /\ UNCHANGED <<task, frontier, outside, ghosts>>
  BY DEF HomeInserts, At
<1>3. PICK u \in th[Getter].todo :
         CallsInsert(Getter, [th[Getter] EXCEPT !.todo = @ \ {u}], u, 0, "home")
  BY DEF HomeInserts
<1> DEFINE k == [th[Getter] EXCEPT !.todo = @ \ {u}]
<1>4. /\ k \in Local /\ k.rows = th[Getter].rows /\ k.todo = th[Getter].todo \ {u} /\ u \in Urls
      /\ 0 \in 0..RetryTimes
  BY <1>1, <1>3, CrawlAssumption DEF Local
<1>5. PICK l \in Inserts(k, u, 0, "home") : Moves(Getter, l)
  BY <1>3 DEF CallsInsert
<1> HIDE DEF k
<1>6. /\ l \in Local /\ l.todo = th[Getter].todo \ {u} /\ l.rows = th[Getter].rows
      /\ \/ /\ l.pc \in {"find", "count"} /\ Inserting(l)
            /\ l.ins \in Insert /\ l.ins.kind = "home" /\ l.ptr = tasksothermap
         \/ ~Inserting(l) /\ ~Follows(l) /\ l.pc = "home"
  BY <1>4, CallFacts DEF Kinds
<1>7. TypeOK'
  BY <1>1, <1>2, <1>5, <1>6, MovesFacts DEF TypeOK, task, frontier, outside, ghosts
<1>8. ~HasPage(l) /\ ~HasLoaded(l) /\ ~HasPage(th[Getter]) /\ ~HasLoaded(th[Getter])
  BY <1>2, <1>6 DEF HasPage, HasLoaded, Inserting
<1>9. Fits(Getter, l) /\ (HasRows(l) => HasRows(th[Getter])) /\ (Follows(l) => l.ptr = tasksothermap)
  BY <1>6, <1>8 DEF Fits, HasRows
<1>10. Weight(l) = Weight(th[Getter])
  BY <1>2, <1>6, <1>8, SameHands
<1>11. GetterUses'
  <2>1. th'[Getter] = l
    BY <1>1, <1>5, <1>6, MovesFacts
  <2>2. tasksothermap # NULL /\ other[tasksothermap].alreadyused
    BY <1>2 DEF Sound, GetterUses
  <2> QED BY <1>2, <1>6, <2>1, <2>2 DEF GetterUses, task
<1>12. SameRound /\ SameCount
  BY <1>2 DEF SameRound, SameCount, task, outside
<1>13. Pending
  BY <1>3 DEF Pending, Uncounted
<1>14. Plain => l.todo = {}
  BY <1>3, <1>6 DEF Sound, EndsOnce
<1>15. /\ l.todo \subseteq th[Getter].todo /\ UNCHANGED <<frontier, outside, leaked>>
       /\ broken' = "no"
  BY <1>2, <1>6 DEF ghosts
<1> QED BY <1>5, <1>6, <1>7, <1>9, <1>10, <1>11, <1>12, <1>13, <1>14, <1>15, GetterMoves

\* The round is let go of; alreadyused has kept it until now.
LEMMA HomeReleasesStep ==
    ASSUME TypeOK, Sound, HomeReleases
    PROVE  Kept
<1> DEFINE l == [th[Getter] EXCEPT !.pc = "wait"]
           o == tasksothermap
<1>1. Getter \in Threads /\ th[Getter] \in Local
  BY DEF Threads, TypeOK
<1>2. th[Getter].pc = "home" /\ broken = "no" /\ th[Getter].todo = {}
  BY DEF HomeReleases, At
<1>3. o # NULL /\ o \in Rounds /\ o = round /\ Alive(o)
  BY <1>2 DEF Sound, GetterUses, OneRound, Alive, TypeOK
<1>4. /\ other' = [other EXCEPT ![o].alreadyused = FALSE]
      /\ Moves(Getter, l) /\ broken' = "no"
      /\ UNCHANGED <<tasksothermap, round, frontier, outside, missed, leaked>>
  BY <1>3 DEF HomeReleases, Touches, Goto
<1>5. l \in Local /\ l.pc = "wait" /\ l.todo = {} /\ l.rows = th[Getter].rows
  BY <1>1, <1>2 DEF Local, Labels
<1> HIDE DEF l
<1>6. /\ other' \in [Rounds -> TaskOther] /\ ~other'[o].alreadyused
      /\ \A r \in Rounds : other'[r].urlnum = other[r].urlnum /\ other'[r].live = other[r].live
  <2>1. other \in [Rounds -> TaskOther] /\ other[o] \in TaskOther
    BY <1>3 DEF TypeOK
  <2>2. [other[o] EXCEPT !.alreadyused = FALSE] \in TaskOther
    BY <2>1 DEF TaskOther
  <2>3. other' \in [Rounds -> TaskOther]
    BY <1>4, <2>1, <2>2
  <2> QED BY <1>3, <1>4, <2>1, <2>3 DEF TaskOther
<1>7. TypeOK'
  BY <1>1, <1>4, <1>5, <1>6, MovesFacts DEF TypeOK, frontier, outside
<1>8. /\ ~Inserting(l) /\ ~HasPage(l) /\ ~HasLoaded(l) /\ ~Follows(l) /\ ~Uncounted(l)
      /\ ~HasPage(th[Getter]) /\ ~HasLoaded(th[Getter])
  BY <1>2, <1>5 DEF Inserting, HasPage, HasLoaded, Follows, Uncounted
<1>9. Fits(Getter, l) /\ (HasRows(l) => HasRows(th[Getter]))
  BY <1>5, <1>8 DEF Fits, HasRows
<1>10. Weight(l) = Weight(th[Getter])
  BY <1>2, <1>5, <1>8, SameHands
<1>11. GetterUses'
  <2>1. th'[Getter] = l
    BY <1>1, <1>4, <1>5, MovesFacts
  <2> QED BY <1>4, <1>5, <1>6, <2>1 DEF GetterUses
<1>12. SameRound /\ SameCount
  BY <1>3, <1>4, <1>6 DEF SameRound, SameCount, outside
<1>13. l.todo \subseteq th[Getter].todo /\ UNCHANGED <<frontier, outside, leaked>>
  BY <1>4, <1>5
<1> QED BY <1>4, <1>5, <1>7, <1>8, <1>9, <1>10, <1>11, <1>12, <1>13, GetterMoves

\* A page comes from outside.
LEMMA OuterArrivesStep ==
    ASSUME TypeOK, Sound, OuterArrives
    PROVE  Kept /\ ~Plain'
<1>1. /\ broken = "no" /\ outerSeen < MaxOuter /\ outer' = outer + 1
      /\ outerSeen' = outerSeen + 1 /\ UNCHANGED <<task, frontier, th, ghosts>>
  BY DEF OuterArrives
<1>2. /\ outer <= outerSeen /\ outer \in Nat /\ outerSeen \in Nat /\ MaxOuter \in Nat
  BY CrawlAssumption DEF Sound, EndsOnce, TypeOK
<1>3. outer' \in 0..MaxOuter /\ outerSeen' \in 0..MaxOuter /\ outer' <= outerSeen' /\ outerSeen' > 0
  BY <1>1, <1>2
<1>4. TypeOK'
  BY <1>1, <1>3 DEF TypeOK, task, frontier, ghosts
<1>5. ~Plain'
  BY <1>3 DEF Plain
<1>6. Labelled'
  BY <1>1, <1>3 DEF Sound, Labelled, Fits, Inserting, HasPage
<1>7. RowsHeld' /\ OneRound' /\ GetterUses' /\ PointersFresh'
  BY <1>1 DEF Sound, RowsHeld, HasRows, HasLoaded, Inserting, OneRound, GetterUses, PointersFresh,
              Follows, task, frontier
<1>8. Counted'
  <2>1. Outstanding' = Outstanding
    BY <1>1 DEF Outstanding, RowsLoaded, Working, Loading, Pushing, HasPage, HasLoaded, Inserting,
                frontier
  <2> QED BY <1>1, <2>1 DEF Sound, Counted, task, ghosts
<1>9. EndsOnce'
  BY <1>3, <1>5 DEF EndsOnce
<1> QED BY <1>1, <1>4, <1>5, <1>6, <1>7, <1>8, <1>9 DEF Kept, Sound, ghosts

\* All steps of getTaskThread.
LEMMA GetterStepKeeps ==
    ASSUME TypeOK, Sound, GetterStep
    PROVE  Kept
BY RoundStartsStep, RoundGoesOnStep, HomeInsertsStep, HomeReleasesStep, InsertStepKeeps
   DEF GetterStep, Threads

-----------------------------------------------------------------------------

\* The initial states satisfy the inductive invariant.
LEMMA InitInv == Init => IndInv
<1> SUFFICES ASSUME Init PROVE IndInv
  OBVIOUS
<1>1. /\ Getter \in Threads /\ Getter \notin Fetchers
      /\ \A p \in Threads : /\ th[p].pc = IF p = Getter THEN "wait" ELSE "idle"
                            /\ th[p].cur = NULL /\ th[p].ins = NULL /\ th[p].todo = {}
                            /\ th[p].rows = << >> /\ th[p].ptr = NULL
  BY CrawlAssumption DEF Init, Threads
<1>2. TypeOK
  <2>1. other \in [Rounds -> TaskOther]
    BY DEF Init, TaskOther
  <2>2. th \in [Threads -> Local]
    BY DEF Init, Local, Labels
  <2>3. 0 \in 0..MaxRounds /\ 0 \in 0..MaxOuter
    BY CrawlAssumption
  <2>4. queue \in Seq(UrlNode) /\ unfetched \in Seq(UrlNode)
    BY DEF Init
  <2>5. /\ tasksothermap = NULL /\ round = 0 /\ tablelock = NULL /\ outer = 0 /\ outerSeen = 0
        /\ broken = "no" /\ missed \in BOOLEAN /\ leaked \in BOOLEAN
    BY DEF Init
  <2> QED BY <2>1, <2>2, <2>3, <2>4, <2>5 DEF TypeOK
<1>3. \A p \in Threads : /\ ~Inserting(th[p]) /\ ~HasPage(th[p]) /\ ~HasLoaded(th[p])
                         /\ ~HasRows(th[p]) /\ ~Follows(th[p]) /\ th[p].pc \notin {"push", "end"}
  BY <1>1 DEF Inserting, HasPage, HasLoaded, HasRows, Follows
<1>4. Labelled
  BY <1>1, <1>3 DEF Labelled, Fits
<1>5. RowsHeld /\ PointersFresh
  BY <1>3 DEF RowsHeld, PointersFresh
<1>6. OneRound
  BY CrawlAssumption DEF OneRound, Init, Rounds
<1>7. GetterUses
  BY <1>1 DEF GetterUses, Init
<1>8. Counted
  <2>1. Working = {} /\ Loading = {} /\ Pushing = {}
    BY <1>3 DEF Working, Loading, Pushing
  <2>2. Cardinality({}) = 0 /\ Len(<< >>) = 0 /\ RowsLoaded = 0
    BY FS_EmptySet DEF RowsLoaded, Init
  <2>3. Outstanding = 0
    BY <2>1, <2>2 DEF Outstanding, Init
  <2> QED BY <2>3 DEF Counted, Init
<1>9. EndsOnce
  <2>1. outer <= outerSeen
    BY DEF Init
  <2> QED BY <1>1, <1>3, <2>1 DEF EndsOnce, Pending, Uncounted
<1>10. broken = "no"
  BY DEF Init
<1> QED BY <1>2, <1>4, <1>5, <1>6, <1>7, <1>8, <1>9, <1>10
        DEF IndInv, Sound, NoStrayAccess, NotEndedEarly

\* Every step keeps it.
LEMMA NextInv == IndInv /\ [Next]_vars => IndInv'
<1> SUFFICES ASSUME IndInv, [Next]_vars PROVE IndInv'
  OBVIOUS
<1>1. TypeOK /\ (broken = "no" => Sound)
  BY DEF IndInv
<1>2. CASE UNCHANGED vars
  <2>1. TypeOK'
    BY <1>1, <1>2 DEF TypeOK, vars, task, frontier, outside, ghosts
  <2>2. NoStrayAccess' /\ NotEndedEarly'
    BY <1>2 DEF IndInv, NoStrayAccess, NotEndedEarly, vars, outside, ghosts
  <2>3. ASSUME broken' = "no" PROVE Sound'
    <3>1. Sound
      BY <1>1, <1>2, <2>3 DEF vars, ghosts
    <3>2. Labelled' /\ RowsHeld' /\ OneRound' /\ GetterUses' /\ PointersFresh'
      BY <1>2, <3>1 DEF Sound, Labelled, Fits, HasPage, RowsHeld, HasRows, HasLoaded, Inserting,
                        OneRound, GetterUses, PointersFresh, Follows, vars, task, frontier, outside
    <3>3. Counted'
      <4>1. Outstanding' = Outstanding
        BY <1>2 DEF Outstanding, RowsLoaded, Working, Loading, Pushing, HasPage, HasLoaded,
                    Inserting, vars, frontier
      <4> QED BY <1>2, <3>1, <4>1 DEF Sound, Counted, vars, task, ghosts
    <3>4. EndsOnce'
      BY <1>2, <3>1 DEF Sound, EndsOnce, Plain, Pending, Uncounted, CountIsZero, Inserting, vars,
                        task, outside
    <3> QED BY <3>2, <3>3, <3>4 DEF Sound
  <2> QED BY <2>1, <2>2, <2>3 DEF IndInv
<1>3. CASE Next
  <2>1. ASSUME Kept PROVE IndInv'
    BY <2>1 DEF Kept, IndInv, NoStrayAccess, NotEndedEarly
  <2>2. broken = "no"
    BY <1>3 DEF Next, OuterArrives, GetterStep, FetcherStep, InsertStep, RoundStarts, RoundGoesOn,
                HomeInserts, HomeReleases, OuterLooksUp, OuterCounts, LoadStarts, LoadInserts,
                LoadEnds, GetsUrl, FetchFails, FetchSucceeds, FetchRejects, InsertsLink,
                FinishLooksUp, FinishUncounts, EndMisses, EndDeletes, InsertFinds, InsertAdds,
                InsertCounts, PushMemory, PushSpills, At
  <2>3. Sound
    BY <1>1, <2>2
  <2>4. CASE OuterArrives
    BY <1>1, <2>1, <2>3, <2>4, OuterArrivesStep
  <2>5. CASE GetterStep
    BY <1>1, <2>1, <2>3, <2>5, GetterStepKeeps
  <2>6. ASSUME NEW p \in Fetchers, FetcherStep(p) PROVE IndInv'
    <3>1. /\ TypeOK' /\ broken' \in {"no", "outer", "early"}
          /\ broken' = "early" => ~Plain /\ outerSeen' = outerSeen
          /\ broken' = "no" => Sound'
      BY <1>1, <2>3, <2>6, FetcherStepKeeps
    <3>2. NotEndedEarly'
      <4>1. outerSeen \in Nat /\ Cardinality(HomeUrls) \in Nat
        BY <1>1, CrawlAssumption, FS_CardinalityType DEF TypeOK
      <4> QED BY <3>1, <4>1 DEF NotEndedEarly, Plain
    <3> QED BY <3>1, <3>2 DEF IndInv, NoStrayAccess
  <2> QED BY <1>3, <2>4, <2>5, <2>6 DEF Next
<1> QED BY <1>2, <1>3

\* The inductive invariant holds in every state.
THEOREM Inductive == Spec => []IndInv
<1>1. Init => IndInv
  BY InitInv
<1>2. IndInv /\ [Next]_vars => IndInv'
  BY NextInv
<1> QED BY <1>1, <1>2, PTL DEF Spec

\* The state of a round, of the queues and of the threads keeps its shape.
THEOREM TypeCorrect == Spec => []TypeOK
<1>1. IndInv => TypeOK
  BY DEF IndInv
<1> QED BY <1>1, Inductive, PTL

\* increaseTaskUrlNum and decreaseTaskUrlNum keep urlnum at or above the number
\* of urls that are queued, spilled or in some thread's hands, so that a round
\* with work left does not meet 0.
THEOREM CountAlwaysCovers == Spec => []CountCovers
<1>1. IndInv => CountCovers
  BY DEF IndInv, Sound, Counted, CountCovers
<1> QED BY <1>1, Inductive, PTL

\* The pointers that getTaskOtherInfo hands to insertUrl, decreaseTaskUrlNum and
\* getTaskThread are followed while their TaskOtherInfo is there, although no
\* lock is held between the look-up and the use.
THEOREM PointersNeverStale == Spec => []NoStrayAccess
<1>1. IndInv => NoStrayAccess
  BY DEF IndInv
<1> QED BY <1>1, Inductive, PTL

\* Without pages from outside and with one home url at most, poptaskother and
\* deleteTaskOther never end a round that has urls counted.
THEOREM NeverEndedEarly == Spec => []NotEndedEarly
<1>1. IndInv => NotEndedEarly
  BY DEF IndInv
<1> QED BY <1>1, Inductive, PTL

-----------------------------------------------------------------------------
(* A round that has come to rest is being ended. *)

\* The batches of rounds to come are empty.
NewBatches == \A r \in Rounds : r > round => other[r].urls = {}

\* A count of 0 in a round that has had an url: it has not been counted yet, or
\* some thread has seen the count meet 0.
ZeroSeen ==
    tasksothermap # NULL /\ other[tasksothermap].urlnum = 0 /\ other[tasksothermap].urls # {}
    => missed \/ (\E p \in Fetchers : th[p].pc = "end") \/ th[Getter].pc = "count"

Resting == broken = "no" => NewBatches /\ ZeroSeen

\* A step of a thread that is neither counting nor about to end the round, and
\* that leaves counts and batches alone.
LEMMA RestingKept ==
    ASSUME NewBatches, ZeroSeen, NEW p \in Threads, th[p].pc \notin {"end", "count"},
           \A q \in Threads : q # p => th'[q] = th[q],
           tasksothermap' = tasksothermap, round' = round, missed' = missed,
           tasksothermap \in Rounds \cup {NULL},
           \A r \in Rounds : other'[r].urlnum = other[r].urlnum /\ other'[r].urls = other[r].urls
    PROVE  NewBatches' /\ ZeroSeen'
<1>1. NewBatches'
  BY DEF NewBatches
<1>2. \A q \in Threads : th[q].pc \in {"end", "count"} => th'[q].pc = th[q].pc
  OBVIOUS
<1>3. Getter \in Threads /\ Fetchers \subseteq Threads
  BY DEF Threads
<1>4. ZeroSeen'
  BY <1>2, <1>3 DEF ZeroSeen
<1> QED BY <1>1, <1>4

\* A step after which the round has a url counted, or there is no round.
LEMMA RestingCounted ==
    ASSUME NewBatches, round' = round,
           tasksothermap' # NULL => other'[tasksothermap'].urlnum > 0,
           \A r \in Rounds : r > round => other'[r].urls = other[r].urls
    PROVE  NewBatches' /\ ZeroSeen'
<1>1. NewBatches'
  BY DEF NewBatches
<1>2. ~(0 > 0)
  OBVIOUS
<1> QED BY <1>1, <1>2 DEF ZeroSeen

\* insertUrl: an url goes into the batch by getTaskThread, which then counts it,
\* or while a page is counted.
LEMMA RestingInsert ==
    ASSUME TypeOK, TypeOK', Sound, NewBatches, ZeroSeen, broken' = "no",
           NEW p \in Threads, InsertStep(p)
    PROVE  NewBatches' /\ ZeroSeen'
<1>1. tasksothermap \in Rounds \cup {NULL} /\ round \in Nat /\ Rounds \subseteq Nat
  BY CrawlAssumption DEF TypeOK, Rounds
<1>2. Inserting(th[p])
  BY DEF InsertStep, InsertFinds, InsertAdds, InsertCounts, PushMemory, PushSpills, At, Inserting
<1>3. /\ tasksothermap \in Rounds /\ tasksothermap # NULL /\ tasksothermap = round
      /\ Follows(th[p]) => th[p].ptr = tasksothermap
      /\ p # Getter => Weight(th[p]) > 0
  BY <1>2, BusyHasRound
<1>4. other \in [Rounds -> TaskOther]
  BY DEF TypeOK
<1>5. \A q \in Threads : q # p => th'[q] = th[q]
  BY DEF InsertStep, InsertFinds, InsertAdds, InsertCounts, PushMemory, PushSpills,
         Goto, Return, Moves, TypeOK
<1>6. CASE InsertFinds(p)
  <2>1. th[p].pc = "find" /\ UNCHANGED <<task, missed>>
    BY <1>6 DEF InsertFinds, At
  <2> QED BY <1>1, <1>5, <2>1, RestingKept DEF task
<1>7. CASE InsertAdds(p)
  <2> DEFINE o == tasksothermap
  <2>1. /\ th[p].pc = "add" /\ th[p].ptr = o /\ tasksothermap' = o /\ round' = round
        /\ missed' = missed /\ th'[p].pc = "count"
        /\ other' = [other EXCEPT ![o].urls = @ \cup {th[p].ins.node.url}]
    BY <1>3, <1>7 DEF InsertAdds, At, Moves, Follows, TypeOK, Local
  <2>2. other'[o].urlnum = other[o].urlnum
        /\ \A r \in Rounds : r # o => other'[r] = other[r]
    BY <1>3, <1>4, <2>1 DEF TaskOther
  <2>3. NewBatches'
    BY <1>1, <1>3, <2>1, <2>2 DEF NewBatches
  <2>4. CASE p = Getter
    BY <2>1, <2>3, <2>4 DEF ZeroSeen
  <2>5. CASE p # Getter
    <3>1. other[o].urlnum > 0
      BY <1>3, <2>5, HandHasRound
    <3>2. other'[tasksothermap'].urlnum > 0
      BY <2>1, <2>2, <3>1
    <3> QED BY <1>1, <1>3, <2>1, <2>2, <3>2, RestingCounted
  <2> QED BY <2>4, <2>5
<1>8. CASE InsertCounts(p)
  <2> DEFINE o == tasksothermap
  <2>1. /\ th[p].ptr = o /\ tasksothermap' = o /\ round' = round
        /\ other' = [other EXCEPT ![o].urlnum = @ + 1]
    BY <1>3, <1>8 DEF InsertCounts, At, Follows
  <2>2. /\ other'[o].urlnum = other[o].urlnum + 1 /\ other[o].urlnum \in Nat
        /\ \A r \in Rounds : other'[r].urls = other[r].urls
    BY <1>3, <1>4, <2>1 DEF TaskOther
  <2>3. other'[tasksothermap'].urlnum > 0
    BY <2>1, <2>2
  <2> QED BY <2>1, <2>2, <2>3, RestingCounted
<1>9. CASE PushMemory(p)
  <2>1. th[p].pc = "push" /\ UNCHANGED <<task, missed>>
    BY <1>9 DEF PushMemory, At
  <2> QED BY <1>1, <1>5, <2>1, RestingKept DEF task
<1>10. CASE PushSpills(p)
  <2> DEFINE o == tasksothermap
  <2>1. /\ th[p].pc = "push" /\ tasksothermap' = o /\ round' = round
        /\ other' = [other EXCEPT ![o].urls = @ \ {th[p].ins.node.url}]
    BY <1>10 DEF PushSpills, At
  <2>2. other'[o].urlnum = other[o].urlnum
        /\ \A r \in Rounds : r # o => other'[r] = other[r]
    BY <1>3, <1>4, <2>1 DEF TaskOther
  <2>3. other[o].urlnum > 0
    BY <2>1, Hands, HandHasRound
  <2>4. other'[tasksothermap'].urlnum > 0
    BY <2>1, <2>2, <2>3
  <2> QED BY <1>1, <1>3, <2>1, <2>2, <2>4, RestingCounted
<1> QED BY <1>6, <1>7, <1>8, <1>9, <1>10 DEF InsertStep

\* getTaskThread: a new round has an empty batch.
LEMMA RestingGetter ==
    ASSUME TypeOK, TypeOK', Sound, NewBatches, ZeroSeen, broken' = "no", GetterStep
    PROVE  NewBatches' /\ ZeroSeen'
<1>1. tasksothermap \in Rounds \cup {NULL} /\ round \in Nat /\ Rounds \subseteq Nat /\ Getter \in Threads
  BY CrawlAssumption DEF TypeOK, Rounds, Threads
<1>2. other \in [Rounds -> TaskOther] /\ th \in [Threads -> Local]
  BY DEF TypeOK
<1>3. CASE RoundStarts
  <2>1. /\ round' = round + 1 /\ tasksothermap' = round + 1 /\ round + 1 \in Rounds
        /\ other' = [other EXCEPT ![round + 1].live = TRUE, ![round + 1].alreadyused = TRUE]
    BY <1>1, <1>3, CrawlAssumption DEF RoundStarts, Rounds
  <2>2. \A r \in Rounds : other'[r].urls = other[r].urls
    BY <1>2, <2>1 DEF TaskOther
  <2>3. NewBatches'
    <3> SUFFICES ASSUME NEW r \in Rounds, r > round + 1 PROVE other'[r].urls = {}
      BY <2>1 DEF NewBatches
    <3>1. r \in Nat /\ r > round
      BY <1>1
    <3> QED BY <2>2, <3>1 DEF NewBatches
  <2>4. other[round + 1].urls = {}
    BY <1>1, <2>1 DEF NewBatches
  <2>5. other'[tasksothermap'].urls = {}
    BY <2>1, <2>2, <2>4
  <2> QED BY <2>3, <2>5 DEF ZeroSeen
<1>4. CASE RoundGoesOn
  <2>1. /\ th[Getter].pc = "wait" /\ UNCHANGED <<tasksothermap, round, missed>>
        /\ tasksothermap # NULL
        /\ other' = [other EXCEPT ![tasksothermap].alreadyused = TRUE]
        /\ \A q \in Threads : q # Getter => th'[q] = th[q]
    BY <1>2, <1>4 DEF RoundGoesOn, At, Moves
  <2>2. \A r \in Rounds : other'[r].urlnum = other[r].urlnum /\ other'[r].urls = other[r].urls
    BY <1>1, <1>2, <2>1 DEF TaskOther
  <2> QED BY <1>1, <2>1, <2>2, RestingKept
<1>5. CASE HomeInserts
  <2>1. /\ th[Getter].pc = "home" /\ UNCHANGED <<task, missed>>
        /\ \A q \in Threads : q # Getter => th'[q] = th[q]
    BY <1>2, <1>5 DEF HomeInserts, CallsInsert, At, Moves, ghosts
  <2> QED BY <1>1, <2>1, RestingKept DEF task
<1>6. CASE HomeReleases
  <2>1. /\ th[Getter].pc = "home" /\ UNCHANGED <<tasksothermap, round, missed>>
        /\ other' = [other EXCEPT ![round].alreadyused = FALSE]
        /\ \A q \in Threads : q # Getter => th'[q] = th[q]
    BY <1>2, <1>6 DEF HomeReleases, At, Goto, Moves
  <2>2. \A r \in Rounds : other'[r].urlnum = other[r].urlnum /\ other'[r].urls = other[r].urls
    BY <1>2, <2>1 DEF TaskOther
  <2> QED BY <1>1, <2>1, <2>2, RestingKept
<1>7. CASE InsertStep(Getter)
  BY <1>1, <1>7, RestingInsert
<1> QED BY <1>3, <1>4, <1>5, <1>6, <1>7 DEF GetterStep

\* A fetching thread: the thread that brings the count to 0 goes to end the
\* round, and leaves when it has ended it or found it in use.
LEMMA RestingFetcher ==
    ASSUME TypeOK, TypeOK', Sound, NewBatches, ZeroSeen, broken' = "no",
           NEW p \in Fetchers, FetcherStep(p)
    PROVE  NewBatches' /\ ZeroSeen'
<1>1. tasksothermap \in Rounds \cup {NULL} /\ round \in Nat /\ Rounds \subseteq Nat /\ p \in Threads
  BY CrawlAssumption DEF TypeOK, Rounds, Threads
<1>2. other \in [Rounds -> TaskOther] /\ th \in [Threads -> Local]
  BY DEF TypeOK
<1>3. ASSUME th[p].pc \notin {"end", "count"}, UNCHANGED <<task, missed>>,
             \A q \in Threads : q # p => th'[q] = th[q]
      PROVE  NewBatches' /\ ZeroSeen'
  BY <1>1, <1>3, RestingKept DEF task
<1>4. CASE \/ OuterLooksUp(p) \/ LoadStarts(p) \/ LoadInserts(p) \/ LoadEnds(p) \/ GetsUrl(p)
           \/ FetchFails(p) \/ FetchSucceeds(p) \/ FetchRejects(p) \/ InsertsLink(p)
           \/ FinishLooksUp(p)
  <2>1. th[p].pc \notin {"end", "count"}
    BY <1>4 DEF OuterLooksUp, LoadStarts, LoadInserts, LoadEnds, GetsUrl, FetchFails, FetchSucceeds,
                FetchRejects, InsertsLink, FinishLooksUp, At
  <2>2. UNCHANGED <<task, missed>>
    BY <1>4 DEF OuterLooksUp, LoadStarts, LoadInserts, LoadEnds, GetsUrl, FetchFails, FetchSucceeds,
                FetchRejects, InsertsLink, FinishLooksUp, ghosts
  <2>3. \A q \in Threads : q # p => th'[q] = th[q]
    BY <1>2, <1>4 DEF OuterLooksUp, LoadStarts, LoadInserts, LoadEnds, GetsUrl, Pops, FetchFails,
                FetchSucceeds, FetchRejects, InsertsLink, FinishLooksUp, CallsInsert, Goto, Loop, Moves
  <2> QED BY <1>3, <2>1, <2>2, <2>3
<1>5. CASE OuterCounts(p)
  <2> DEFINE o == th[p].ptr
  <2>1. /\ o # NULL /\ other[o].live /\ tasksothermap' = tasksothermap /\ round' = round
        /\ other' = [other EXCEPT ![o].urlnum = @ + 1]
    BY <1>5 DEF OuterCounts, Alive
  <2>2. o \in Rounds
    BY <1>1, <1>2, <2>1 DEF Local
  <2>3. o = tasksothermap
    BY <2>1, <2>2 DEF Sound, OneRound
  <2>4. /\ other'[o].urlnum = other[o].urlnum + 1 /\ other[o].urlnum \in Nat
        /\ \A r \in Rounds : other'[r].urls = other[r].urls
    BY <1>2, <2>1, <2>2 DEF TaskOther
  <2>5. other'[tasksothermap'].urlnum > 0
    BY <2>1, <2>3, <2>4
  <2> QED BY <2>1, <2>4, <2>5, RestingCounted
<1>6. CASE FinishUncounts(p)
  <2> DEFINE o == tasksothermap
  <2>1. th[p].pc = "uncount" /\ th[p].ptr = o
    BY <1>1, <1>6 DEF FinishUncounts, At, Sound, PointersFresh, Follows
  <2>2. Weight(th[p]) > 0
    BY <1>1, <2>1, Hands DEF HasPage
  <2>3. o \in Rounds /\ o # NULL /\ other[o].urlnum \in Nat /\ other[o].urlnum > 0
    BY <1>1, <2>2, HandHasRound
  <2>4. /\ other' = [other EXCEPT ![o].urlnum = @ - 1] /\ tasksothermap' = o /\ round' = round
    BY <1>6, <2>1 DEF FinishUncounts
  <2>5. /\ other'[o].urlnum = other[o].urlnum - 1
        /\ \A r \in Rounds : other'[r].urls = other[r].urls
    BY <1>2, <2>3, <2>4 DEF TaskOther
  <2>6. CASE LastUrl(o)
    <3>1. th'[p].pc = "end"
      BY <1>1, <1>2, <1>6, <2>1, <2>6 DEF FinishUncounts, Goto, Moves, Local
    <3>2. NewBatches'
      BY <2>4, <2>5 DEF NewBatches
    <3> QED BY <3>1, <3>2 DEF ZeroSeen
  <2>7. CASE ~LastUrl(o)
    <3>1. other'[o].urlnum > 0
      BY <2>3, <2>5, <2>7 DEF LastUrl
    <3> QED BY <2>4, <2>5, <3>1, RestingCounted
  <2> QED BY <2>6, <2>7
<1>7. CASE EndMisses(p)
  <2>1. UNCHANGED task /\ (tasksothermap = NULL \/ missed')
    BY <1>7 DEF EndMisses
  <2> QED BY <2>1 DEF task, NewBatches, ZeroSeen
<1>8. CASE EndDeletes(p)
  <2>1. /\ tasksothermap' = NULL /\ tasksothermap \in Rounds /\ round' = round
        /\ other' = [other EXCEPT ![tasksothermap].live = FALSE]
    BY <1>1, <1>8 DEF EndDeletes
  <2>2. \A r \in Rounds : other'[r].urls = other[r].urls
    BY <1>2, <2>1 DEF TaskOther
  <2> QED BY <2>1, <2>2 DEF NewBatches, ZeroSeen
<1>9. CASE InsertStep(p)
  BY <1>1, <1>9, RestingInsert
<1> QED BY <1>4, <1>5, <1>6, <1>7, <1>8, <1>9 DEF FetcherStep

\* No step leaves a round at rest unnoticed.
LEMMA RestingStep == IndInv /\ IndInv' /\ Resting /\ [Next]_vars => Resting'
<1> SUFFICES ASSUME IndInv, TypeOK', Resting, [Next]_vars, broken' = "no"
             PROVE  NewBatches' /\ ZeroSeen'
  BY DEF IndInv, Resting
<1>1. CASE UNCHANGED vars
  <2>1. UNCHANGED <<task, th, missed>> /\ broken = "no"
    BY <1>1 DEF vars, ghosts
  <2> QED BY <2>1 DEF Resting, NewBatches, ZeroSeen, task
<1>2. CASE Next
  <2>1. broken = "no"
    BY <1>2 DEF Next, OuterArrives, GetterStep, FetcherStep, InsertStep, RoundStarts, RoundGoesOn,
                HomeInserts, HomeReleases, OuterLooksUp, OuterCounts, LoadStarts, LoadInserts,
                LoadEnds, GetsUrl, FetchFails, FetchSucceeds, FetchRejects, InsertsLink,
                FinishLooksUp, FinishUncounts, EndMisses, EndDeletes, InsertFinds, InsertAdds,
                InsertCounts, PushMemory, PushSpills, At
  <2>2. TypeOK /\ Sound /\ NewBatches /\ ZeroSeen
    BY <2>1 DEF IndInv, Resting
  <2>3. CASE OuterArrives
    BY <2>2, <2>3 DEF OuterArrives, NewBatches, ZeroSeen, task, ghosts
  <2>4. CASE GetterStep
    BY <2>2, <2>4, RestingGetter
  <2>5. ASSUME NEW p \in Fetchers, FetcherStep(p) PROVE NewBatches' /\ ZeroSeen'
    BY <2>2, <2>5, RestingFetcher
  <2> QED BY <1>2, <2>3, <2>4, <2>5 DEF Next
<1> QED BY <1>1, <1>2

\* The safety part of RoundEnds: when the last url of a round is gone, a thread
\* is on its way to poptaskother, whatever the order of home urls, links,
\* retries and look-ups that counted up and down before.
THEOREM RestingAlwaysEnds == Spec => []RestingRoundEnds
<1>1. Init => Resting
  BY CrawlAssumption DEF Init, Resting, NewBatches, ZeroSeen
<1>2. IndInv /\ Resting => RestingRoundEnds
  <2> SUFFICES ASSUME IndInv, Resting, broken = "no", tasksothermap # NULL,
                      th[Getter].pc = "wait", other[tasksothermap].urls # {}, Outstanding = 0,
                      ~leaked
               PROVE  missed \/ \E p \in Fetchers : th[p].pc = "end"
    BY DEF RestingRoundEnds
  <2>1. other[tasksothermap].urlnum = 0
    BY DEF IndInv, Sound, Counted
  <2> QED BY <2>1 DEF Resting, ZeroSeen
<1> QED BY Inductive, RestingStep, <1>1, <1>2, PTL DEF Spec
=============================================================================
