------------------------- MODULE ConnectionPool_proofs -------------------------
(***************************************************************************)
(* Proofs that no connection of the pool is shared, deleted under its      *)
(* owner, deleted twice, or left busy without an owner, for any number of  *)
(* threads, connections and addresses; and that the pool implements        *)
(* ConnectionLease.                                                        *)
(*                                                                         *)
(* The actions change the pool and its owners in seven ways (Way), and the *)
(* actions are sorted once (StepWays).  For each way one lemma shows that  *)
(* the ownership invariants are preserved, and one that it is a step of    *)
(* ConnectionLease.                                                        *)
(***************************************************************************)
EXTENDS ConnectionPool, FiniteSetTheorems, TLAPS

\* The invariants about who owns what.
Ownership == OwnedBusy /\ NoSharing /\ OwnedAlive /\ FreeAlive /\ BusyOwned

\* A get_thread that has deleted its connection and is about to close the pool.
Closing(x) == x \in GetThreads /\ pc[x] = "close"

\* Every pointer but x owns what it owned, and nobody but x stops closing.
OthersKeep(x) ==
    /\ \A y \in Pointers \ {x} : /\ Owns(y)' <=> Owns(y)
                                 /\ ptr'[y] = ptr[y]
                                 /\ Closing(y) => Closing(y)'

\* The seven ways: nothing happens to the pool and its owners, an empty pool is
\* filled, pointer x gets NULL or the free connection c, or is given back, or
\* what it points to is deleted, and the pool is closed.
SameOwners == \A y \in Pointers : Owns(y)' <=> Owns(y)
Nothing == /\ UNCHANGED <<pool, ptr>> /\ SameOwners
           /\ \A y \in Pointers : Closing(y) => Closing(y)'
Fills == /\ connections = {} /\ connections' \cap heap = {} /\ heap' = heap \cup connections'
         /\ UNCHANGED <<busy, ptr>> /\ SameOwners
GetsNull(x) == /\ ~ Owns(x) /\ ~ Owns(x)' /\ ~ Closing(x)
               /\ UNCHANGED pool /\ OthersKeep(x)
Gets(x, c) == /\ ~ Owns(x) /\ Owns(x)' /\ ~ Closing(x)
              /\ busy' = busy \cup {c} /\ ptr'[x] = c
              /\ UNCHANGED <<connections, heap>> /\ OthersKeep(x)
GivesBack(x) == /\ Owns(x) \/ ptr[x] = NULL
                /\ ~ Owns(x)' /\ ~ Closing(x) /\ busy' = busy \ {ptr[x]}
                /\ UNCHANGED <<connections, heap, ptr>> /\ OthersKeep(x)
Deletes(x) == /\ Owns(x) \/ ptr[x] = NULL
              /\ ~ Owns(x)' /\ Closing(x)' /\ heap' = heap \ {ptr[x]}
              /\ UNCHANGED <<connections, busy, ptr>> /\ OthersKeep(x)
Closes == CloseConnectionPool /\ UNCHANGED ptr /\ SameOwners

Way == \/ Nothing \/ Fills \/ Closes
       \/ \E x \in Pointers : \/ GetsNull(x) \/ GivesBack(x) \/ Deletes(x)
                              \/ \E c \in connections \ busy : Gets(x, c)

-----------------------------------------------------------------------------
(* Each way preserves the ownership invariants. *)

\* A step that touches neither the pool nor any ownership.
LEMMA QuietStep ==
    ASSUME Ownership, Nothing
    PROVE  Ownership'
<1> USE DEF Nothing, SameOwners
<1>1. OwnedBusy' BY DEF Ownership, OwnedBusy, pool
<1>2. NoSharing' BY DEF Ownership, NoSharing
<1>3. OwnedAlive' BY DEF Ownership, OwnedAlive, pool
<1>4. FreeAlive' BY DEF Ownership, FreeAlive, pool
<1>5. BusyOwned' BY DEF Ownership, BusyOwned, pool, Closing
<1> QED BY <1>1, <1>2, <1>3, <1>4, <1>5 DEF Ownership

\* createPool puts new connections into an empty pool.
LEMMA CreateStep ==
    ASSUME Ownership, TypeOK, Fills
    PROVE  Ownership'
<1> USE DEF Fills, SameOwners
<1>1. busy = {} BY DEF TypeOK
<1>2. OwnedBusy' BY DEF Ownership, OwnedBusy, OwnedAlive
<1>3. NoSharing' BY DEF Ownership, NoSharing
<1>4. OwnedAlive' BY DEF Ownership, OwnedAlive
<1>5. FreeAlive' BY DEF FreeAlive
<1>6. BusyOwned' BY <1>1 DEF BusyOwned
<1> QED BY <1>2, <1>3, <1>4, <1>5, <1>6 DEF Ownership

\* getConnection returns NULL into pointer x.
LEMMA NullStep ==
    ASSUME Ownership, NEW x \in Pointers, GetsNull(x)
    PROVE  Ownership'
<1> USE DEF GetsNull
<1>1. OwnedBusy' BY DEF Ownership, OwnedBusy, pool, OthersKeep
<1>2. NoSharing' BY DEF Ownership, NoSharing, OthersKeep
<1>3. OwnedAlive' BY DEF Ownership, OwnedAlive, pool, OthersKeep
<1>4. FreeAlive' BY DEF Ownership, FreeAlive, pool
<1>5. BusyOwned' BY DEF Ownership, BusyOwned, pool, OthersKeep, Closing
<1> QED BY <1>1, <1>2, <1>3, <1>4, <1>5 DEF Ownership

\* getConnection gives pointer x the free connection c.
LEMMA FreeStep ==
    ASSUME Ownership, NEW x \in Pointers, NEW c \in connections \ busy, Gets(x, c)
    PROVE  Ownership'
<1> USE DEF Gets
<1>1. OwnedBusy' BY DEF Ownership, OwnedBusy, OthersKeep
<1>2. NoSharing' BY DEF Ownership, NoSharing, OwnedBusy, OthersKeep
<1>3. OwnedAlive' BY DEF Ownership, OwnedAlive, FreeAlive, OthersKeep
<1>4. FreeAlive' BY DEF Ownership, FreeAlive
<1>5. BusyOwned' BY DEF Ownership, BusyOwned, OthersKeep, Closing
<1> QED BY <1>1, <1>2, <1>3, <1>4, <1>5 DEF Ownership

\* returnConnection by the owner x, or of a null pointer.
LEMMA ReturnStep ==
    ASSUME Ownership, TypeOK, NEW x \in Pointers, GivesBack(x)
    PROVE  Ownership'
<1> USE DEF GivesBack
<1>1. OwnedBusy'
  BY DEF Ownership, OwnedBusy, NoSharing, OthersKeep, Owns
<1>2. NoSharing' BY DEF Ownership, NoSharing, OthersKeep
<1>3. OwnedAlive' BY DEF Ownership, OwnedAlive, OthersKeep
<1>4. FreeAlive' BY PoolAssumption DEF Ownership, FreeAlive, OwnedAlive, TypeOK
<1>5. BusyOwned' BY DEF Ownership, BusyOwned, OthersKeep, Closing
<1> QED BY <1>1, <1>2, <1>3, <1>4, <1>5 DEF Ownership

\* get_thread x deletes its connection.
LEMMA DeleteStep ==
    ASSUME Ownership, TypeOK, NEW x \in Pointers, Deletes(x)
    PROVE  Ownership'
<1> USE DEF Deletes
<1>1. OwnedBusy' BY DEF Ownership, OwnedBusy, OthersKeep
<1>2. NoSharing' BY DEF Ownership, NoSharing, OthersKeep
<1>3. OwnedAlive'
  BY PoolAssumption DEF Ownership, OwnedAlive, NoSharing, OthersKeep, TypeOK, Owns
<1>4. FreeAlive' BY PoolAssumption DEF Ownership, FreeAlive, OwnedBusy, TypeOK
<1>5. BusyOwned' BY DEF Ownership, BusyOwned, OthersKeep, Closing
<1> QED BY <1>1, <1>2, <1>3, <1>4, <1>5 DEF Ownership

\* closeConnectionPool.
LEMMA CloseStep ==
    ASSUME Ownership, Closes
    PROVE  Ownership'
<1> USE DEF Closes, SameOwners
<1>1. OwnedBusy' BY DEF OwnedBusy, CloseConnectionPool
<1>2. NoSharing' BY DEF Ownership, NoSharing
<1>3. OwnedAlive'
  BY DEF Ownership, OwnedAlive, OwnedBusy, CloseConnectionPool, Closed
<1>4. FreeAlive' BY DEF FreeAlive, CloseConnectionPool
<1>5. BusyOwned' BY DEF BusyOwned, CloseConnectionPool
<1> QED BY <1>1, <1>2, <1>3, <1>4, <1>5 DEF Ownership

-----------------------------------------------------------------------------

\* What createPool does to the pool keeps its type; the sets it opens are new.
LEMMA CreateFacts ==
    ASSUME TypeOK, CreateSkips \/ CreateFills \/ CreateFails
    PROVE  /\ connections' \in SUBSET Conns /\ busy' \in SUBSET connections'
           /\ heap' \in SUBSET Conns
           /\ Cardinality(connections') <= InitialConnections
           /\ \/ UNCHANGED pool
              \/ /\ connections = {} /\ UNCHANGED busy
                 /\ connections' \cap heap = {} /\ heap' = heap \cup connections'
<1>1. CASE CreateSkips BY <1>1 DEF CreateSkips, pool, TypeOK
<1>2. CASE CreateFills
  BY <1>2, PoolAssumption DEF CreateFills, Opened, TypeOK
<1>3. CASE CreateFails
  <2>1. PICK S \in SUBSET (Conns \ heap) :
           Cardinality(S) < InitialConnections /\ connections' = S /\ heap' = heap \cup S
    BY <1>3 DEF CreateFails
  <2>2. Cardinality(S) \in Nat
    BY <2>1, PoolAssumption, FS_Subset, FS_CardinalityType
  <2> QED BY <1>3, <2>1, <2>2, PoolAssumption DEF CreateFails, TypeOK
<1> QED BY <1>1, <1>2, <1>3

\* Every step keeps the state in its shape.
LEMMA TypeStep ==
    ASSUME TypeOK, Next
    PROVE  TypeOK'
<1> USE PoolAssumption DEF Goto, At, Threads, Pointers
<1>1. ASSUME CreateSkips \/ CreateFills \/ CreateFails, UNCHANGED <<ptr, waiting, life>>,
             pc' \in [Threads -> MainLabels \cup WorkerLabels]
      PROVE  TypeOK'
  BY <1>1, CreateFacts DEF TypeOK
<1>2. ASSUME CloseConnectionPool, UNCHANGED <<ptr, waiting, life>>,
             pc' \in [Threads -> MainLabels \cup WorkerLabels]
      PROVE  TypeOK'
  <2>1. Cardinality({}) = 0 BY FS_EmptySet
  <2> QED BY <1>2, <2>1 DEF TypeOK, CloseConnectionPool
<1>3. ASSUME NEW p \in Threads, NEW x \in Pointers, GetReturns(p, x), UNCHANGED life,
             pc' \in [Threads -> MainLabels \cup WorkerLabels]
      PROVE  TypeOK'
  <2>1. CASE GetNull(p, x) BY <1>3, <2>1 DEF GetNull, TypeOK, pool
  <2>2. CASE GetFree(p, x) BY <1>3, <2>2 DEF GetFree, MarkBusy, TypeOK
  <2> QED BY <1>3, <2>1, <2>2 DEF GetReturns
<1>4. ASSUME NEW p \in Threads, GetWaits(p) PROVE TypeOK'
  BY <1>4 DEF GetWaits, TypeOK, pool
<1>5. CASE MainStep
  <2>1. CASE MainCreate BY <1>1, <2>1 DEF MainCreate, TypeOK, MainLabels
  <2>2. CASE MainGet
    <3>1. CASE At(Main, "m_get") /\ GetReturns(Main, testClient) /\ Goto(Main, "m_get1")
               /\ UNCHANGED life
      BY <1>3, <3>1 DEF TypeOK, MainLabels
    <3>2. CASE At(Main, "m_get1") /\ GetReturns(Main, testClient1) /\ Goto(Main, "m_add")
               /\ UNCHANGED life
      BY <1>3, <3>2 DEF TypeOK, MainLabels
    <3>3. CASE GetWaits(Main) BY <1>4, <3>3
    <3> QED BY <2>2, <3>1, <3>2, <3>3 DEF MainGet
  <2>3. CASE MainAdd BY <2>3 DEF MainAdd, TypeOK, pool, MainLabels
  <2>4. ASSUME NEW w \in Workers, MainSpawn(w) PROVE TypeOK'
    <3>1. CASE GetReturns(Main, w) /\ Goto(w, "use") /\ UNCHANGED life
      BY <1>3, <3>1 DEF TypeOK, WorkerLabels
    <3>2. CASE GetWaits(Main) BY <1>4, <3>2
    <3> QED BY <2>4, <3>1, <3>2 DEF MainSpawn
  <2>5. CASE MainReturn BY <2>5 DEF MainReturn, ReturnConnection, TypeOK, MainLabels
  <2>6. CASE MainClose BY <1>2, <2>6 DEF MainClose, TypeOK, MainLabels
  <2>7. CASE MainCreate1 BY <1>1, <2>7 DEF MainCreate1, TypeOK, MainLabels
  <2>8. CASE MainExit BY <2>8 DEF MainExit, TypeOK, pool
  <2> QED BY <1>5, <2>1, <2>2, <2>3, <2>4, <2>5, <2>6, <2>7, <2>8 DEF MainStep
<1>6. ASSUME NEW w \in Workers, WorkerStep(w) PROVE TypeOK'
  <2>1. CASE UseSucceeds(w) BY <2>1 DEF UseSucceeds, TypeOK, pool, WorkerLabels
  <2>2. CASE UseThrows(w) BY <2>2 DEF UseThrows, TypeOK, pool, WorkerLabels
  <2>3. CASE UseNull(w) BY <2>3 DEF UseNull, TypeOK, pool
  <2>4. CASE WorkerReturn(w)
    BY <2>4 DEF WorkerReturn, ReturnConnection, TypeOK, WorkerLabels
  <2>5. CASE WorkerDelete(w) BY <2>5 DEF WorkerDelete, TypeOK, WorkerLabels
  <2>6. CASE WorkerClose(w) BY <1>2, <2>6 DEF WorkerClose, TypeOK, WorkerLabels
  <2>7. CASE WorkerCreate(w) BY <1>1, <2>7 DEF WorkerCreate, TypeOK, WorkerLabels
  <2>8. CASE WorkerGet(w)
    <3>1. CASE GetReturns(w, w) /\ Goto(w, "use") /\ UNCHANGED life
      BY <1>3, <3>1 DEF TypeOK, WorkerLabels
    <3>2. CASE GetWaits(w) BY <1>4, <3>2
    <3> QED BY <2>8, <3>1, <3>2 DEF WorkerGet
  <2> QED BY <1>6, <2>1, <2>2, <2>3, <2>4, <2>5, <2>6, <2>7, <2>8 DEF WorkerStep
<1> QED BY <1>5, <1>6 DEF Next

\* Every step leaves the threads in their own code.
LEMMA PlacesStep ==
    ASSUME TypeOK, Places, Next
    PROVE  Places'
<1> USE PoolAssumption DEF Goto, At, Threads, Places, TypeOK
<1>1. CASE MainStep
  <2>1. CASE MainCreate BY <2>1 DEF MainCreate, MainLabels
  <2>2. CASE MainGet BY <2>2 DEF MainGet, GetWaits, MainLabels
  <2>3. CASE MainAdd BY <2>3 DEF MainAdd, MainLabels
  <2>4. ASSUME NEW w \in Workers, MainSpawn(w) PROVE Places'
    BY <2>4 DEF MainSpawn, GetWaits, WorkerLabels
  <2>5. CASE MainReturn BY <2>5 DEF MainReturn, MainLabels
  <2>6. CASE MainClose BY <2>6 DEF MainClose, MainLabels
  <2>7. CASE MainCreate1 BY <2>7 DEF MainCreate1, MainLabels
  <2>8. CASE MainExit BY <2>8 DEF MainExit
  <2> QED BY <1>1, <2>1, <2>2, <2>3, <2>4, <2>5, <2>6, <2>7, <2>8 DEF MainStep
<1>2. ASSUME NEW w \in Workers, WorkerStep(w) PROVE Places'
  <2>1. CASE UseSucceeds(w) BY <2>1 DEF UseSucceeds, WorkerLabels
  <2>2. CASE UseThrows(w) BY <2>2 DEF UseThrows, WorkerLabels
  <2>3. CASE UseNull(w) BY <2>3 DEF UseNull
  <2>4. CASE WorkerReturn(w) BY <2>4 DEF WorkerReturn, WorkerLabels
  <2>5. CASE WorkerDelete(w) BY <2>5 DEF WorkerDelete, WorkerLabels
  <2>6. CASE WorkerClose(w) BY <2>6 DEF WorkerClose, WorkerLabels
  <2>7. CASE WorkerCreate(w) BY <2>7 DEF WorkerCreate, WorkerLabels
  <2>8. CASE WorkerGet(w) BY <2>8 DEF WorkerGet, GetWaits, WorkerLabels
  <2> QED BY <1>2, <2>1, <2>2, <2>3, <2>4, <2>5, <2>6, <2>7, <2>8 DEF WorkerStep
<1> QED BY <1>1, <1>2 DEF Next

\* getConnection by thread p into its pointer x, when x owns nothing before
\* and whatever it gets afterwards.
LEMMA GetReturnsStep ==
    ASSUME TypeOK, NEW p \in Threads, NEW x \in Pointers, GetReturns(p, x),
           ~ Owns(x), ~ Closing(x), Owns(x)' <=> ptr'[x] # NULL,
           \A y \in Pointers \ {x} : /\ (ptr'[y] = ptr[y]) => (Owns(y)' <=> Owns(y))
                                     /\ Closing(y) => Closing(y)'
    PROVE  Way
<1>1. CASE GetNull(p, x)
  <2>1. ptr'[x] = NULL /\ \A y \in Pointers \ {x} : ptr'[y] = ptr[y]
    BY <1>1 DEF GetNull, TypeOK
  <2>2. UNCHANGED pool BY <1>1 DEF GetNull
  <2>3. OthersKeep(x) BY <2>1 DEF OthersKeep
  <2>4. GetsNull(x) BY <2>1, <2>2, <2>3 DEF GetsNull, Owns
  <2> QED BY <2>4 DEF Way
<1>2. CASE GetFree(p, x)
  <2>1. PICK c \in connections \ busy :
           /\ busy' = busy \cup {c} /\ ptr' = [ptr EXCEPT ![x] = c]
           /\ UNCHANGED <<connections, heap>>
    BY <1>2 DEF GetFree, MarkBusy
  <2>2. ptr'[x] = c /\ c # NULL /\ \A y \in Pointers \ {x} : ptr'[y] = ptr[y]
    BY <2>1, PoolAssumption DEF TypeOK
  <2>3. OthersKeep(x) BY <2>2 DEF OthersKeep
  <2>4. Gets(x, c) BY <2>1, <2>2, <2>3 DEF Gets
  <2> QED BY <2>4 DEF Way
<1> QED BY <1>1, <1>2 DEF GetReturns

\* createPool when nobody's ownership changes.
LEMMA CreatesStep ==
    ASSUME TypeOK, CreateSkips \/ CreateFills \/ CreateFails, UNCHANGED ptr,
           \A y \in Pointers : (Owns(y)' <=> Owns(y)) /\ (Closing(y) => Closing(y)')
    PROVE  Way
<1>1. CASE UNCHANGED pool BY <1>1 DEF Way, Nothing, SameOwners
<1>2. CASE /\ connections = {} /\ UNCHANGED busy
           /\ connections' \cap heap = {} /\ heap' = heap \cup connections'
  BY <1>2 DEF Way, Fills, SameOwners
<1> QED BY <1>1, <1>2, CreateFacts

\* Every step changes the pool and its owners in one of the seven ways.
LEMMA StepWays ==
    ASSUME TypeOK, TypeOK', Places, Next
    PROVE  Way
<1> USE PoolAssumption DEF Goto, At, Threads, Pointers
<1>1. CASE MainStep
  <2>1. CASE MainCreate
    <3>1. UNCHANGED ptr /\ (CreateSkips \/ CreateFills \/ CreateFails)
      BY <2>1 DEF MainCreate
    <3>2. UNCHANGED pc \/ (pc[Main] = "m_create" /\ pc' = [pc EXCEPT ![Main] = "m_get"])
      BY <2>1 DEF MainCreate
    <3>3. \A y \in Pointers : (Owns(y)' <=> Owns(y)) /\ (Closing(y) => Closing(y)')
      BY <3>1, <3>2 DEF TypeOK, Owns, Closing, Workers
    <3> QED BY <3>1, <3>3, CreatesStep
  <2>2. CASE MainGet
    <3>1. CASE At(Main, "m_get") /\ GetReturns(Main, testClient) /\ Goto(Main, "m_get1")
      <4>1. /\ ~ Owns(testClient) /\ ~ Closing(testClient)
            /\ Owns(testClient)' <=> ptr'[testClient] # NULL
        BY <3>1 DEF TypeOK, Owns, Closing, Workers
      <4>2. \A y \in Pointers \ {testClient} :
                 /\ (ptr'[y] = ptr[y]) => (Owns(y)' <=> Owns(y))
                 /\ Closing(y) => Closing(y)'
        BY <3>1 DEF TypeOK, Owns, Closing, Workers
      <4> QED BY <3>1, <4>1, <4>2, GetReturnsStep
    <3>2. CASE At(Main, "m_get1") /\ GetReturns(Main, testClient1) /\ Goto(Main, "m_add")
      <4>1. /\ ~ Owns(testClient1) /\ ~ Closing(testClient1)
            /\ Owns(testClient1)' <=> ptr'[testClient1] # NULL
        BY <3>2 DEF TypeOK, Owns, Closing, Workers
      <4>2. \A y \in Pointers \ {testClient1} :
                 /\ (ptr'[y] = ptr[y]) => (Owns(y)' <=> Owns(y))
                 /\ Closing(y) => Closing(y)'
        BY <3>2 DEF TypeOK, Owns, Closing, Workers
      <4> QED BY <3>2, <4>1, <4>2, GetReturnsStep
    <3>3. CASE GetWaits(Main) BY <3>3 DEF GetWaits, Owns, Closing, Way, Nothing, SameOwners
    <3> QED BY <2>2, <3>1, <3>2, <3>3 DEF MainGet
  <2>3. CASE MainAdd
    <3>1. \A y \in Pointers : (Owns(y)' <=> Owns(y)) /\ (Closing(y) => Closing(y)')
      BY <2>3 DEF MainAdd, TypeOK, Owns, Closing, Workers
    <3> QED BY <2>3, <3>1 DEF MainAdd, Way, Nothing, SameOwners
  <2>4. ASSUME NEW w \in Workers, MainSpawn(w) PROVE Way
    <3>1. CASE pc[w] = "new" /\ GetReturns(Main, w) /\ Goto(w, "use")
      <4>1. ~ Owns(w) /\ ~ Closing(w) /\ (Owns(w)' <=> ptr'[w] # NULL)
        BY <3>1 DEF TypeOK, Owns, Closing
      <4>2. \A y \in Pointers \ {w} : /\ (ptr'[y] = ptr[y]) => (Owns(y)' <=> Owns(y))
                                      /\ Closing(y) => Closing(y)'
        BY <3>1 DEF TypeOK, Owns, Closing, Workers
      <4> QED BY <3>1, <4>1, <4>2, GetReturnsStep
    <3>2. CASE GetWaits(Main) BY <3>2 DEF GetWaits, Owns, Closing, Way, Nothing, SameOwners
    <3> QED BY <2>4, <3>1, <3>2 DEF MainSpawn
  <2>5. CASE MainReturn
    <3>1. CASE /\ At(Main, "m_spawn") /\ ReturnConnection(ptr[testClient])
               /\ Goto(Main, "m_return1") /\ UNCHANGED ptr
      <4>1. /\ Owns(testClient) \/ ptr[testClient] = NULL
            /\ ~ Owns(testClient)' /\ ~ Closing(testClient)
        BY <3>1 DEF TypeOK, Owns, Closing, Workers
      <4>2. OthersKeep(testClient)
        BY <3>1 DEF OthersKeep, TypeOK, Owns, Closing, Workers
      <4> QED BY <3>1, <4>1, <4>2 DEF ReturnConnection, Way, GivesBack
    <3>2. CASE /\ At(Main, "m_return1") /\ ReturnConnection(ptr[testClient1])
               /\ Goto(Main, "m_close") /\ UNCHANGED ptr
      <4>1. /\ Owns(testClient1) \/ ptr[testClient1] = NULL
            /\ ~ Owns(testClient1)' /\ ~ Closing(testClient1)
        BY <3>2 DEF TypeOK, Owns, Closing, Workers
      <4>2. OthersKeep(testClient1)
        BY <3>2 DEF OthersKeep, TypeOK, Owns, Closing, Workers
      <4> QED BY <3>2, <4>1, <4>2 DEF ReturnConnection, Way, GivesBack
    <3> QED BY <2>5, <3>1, <3>2 DEF MainReturn
  <2>6. CASE MainClose
    <3>1. \A y \in Pointers : Owns(y)' <=> Owns(y)
      BY <2>6 DEF MainClose, TypeOK, Owns, Workers
    <3> QED BY <2>6, <3>1 DEF MainClose, Way, Closes, SameOwners
  <2>7. CASE MainCreate1
    <3>1. \A y \in Pointers : (Owns(y)' <=> Owns(y)) /\ (Closing(y) => Closing(y)')
      BY <2>7 DEF MainCreate1, TypeOK, Owns, Closing, Workers
    <3> QED BY <2>7, <3>1, CreatesStep DEF MainCreate1
  <2>8. CASE MainExit BY <2>8 DEF MainExit, Owns, Closing, Way, Nothing, SameOwners
  <2> QED BY <1>1, <2>1, <2>2, <2>3, <2>4, <2>5, <2>6, <2>7, <2>8 DEF MainStep
<1>2. ASSUME NEW w \in Workers, WorkerStep(w) PROVE Way
  <2>1. CASE UseSucceeds(w)
    <3>1. \A y \in Pointers : (Owns(y)' <=> Owns(y)) /\ (Closing(y) => Closing(y)')
      BY <2>1 DEF UseSucceeds, TypeOK, Owns, Closing
    <3> QED BY <2>1, <3>1 DEF UseSucceeds, Way, Nothing, SameOwners
  <2>2. CASE UseThrows(w)
    <3>1. \A y \in Pointers : (Owns(y)' <=> Owns(y)) /\ (Closing(y) => Closing(y)')
      BY <2>2 DEF UseThrows, TypeOK, Owns, Closing
    <3> QED BY <2>2, <3>1 DEF UseThrows, Way, Nothing, SameOwners
  <2>3. CASE UseNull(w) BY <2>3 DEF UseNull, Owns, Closing, Way, Nothing, SameOwners
  <2>4. CASE WorkerReturn(w)
    <3>1. /\ Owns(w) \/ ptr[w] = NULL
          /\ ~ Owns(w)' /\ ~ Closing(w)
      BY <2>4 DEF WorkerReturn, TypeOK, Owns, Closing, Workers
    <3>2. pc' = [pc EXCEPT ![w] = "get"] \/ pc' = [pc EXCEPT ![w] = "close"]
      BY <2>4 DEF WorkerReturn
    <3>3. UNCHANGED ptr BY <2>4 DEF WorkerReturn
    <3>4. OthersKeep(w) BY <3>2, <3>3 DEF OthersKeep, TypeOK, Owns, Closing, Workers
    <3> QED BY <2>4, <3>1, <3>4 DEF WorkerReturn, ReturnConnection, Way, GivesBack
  <2>5. CASE WorkerDelete(w)
    <3>1. /\ Owns(w) \/ ptr[w] = NULL
          /\ ~ Owns(w)' /\ Closing(w)'
      BY <2>5 DEF WorkerDelete, TypeOK, Places, Owns, Closing, Workers
    <3>2. OthersKeep(w) BY <2>5 DEF WorkerDelete, OthersKeep, TypeOK, Owns, Closing
    <3> QED BY <2>5, <3>1, <3>2 DEF WorkerDelete, Way, Deletes
  <2>6. CASE WorkerClose(w)
    <3>1. \A y \in Pointers : Owns(y)' <=> Owns(y)
      BY <2>6 DEF WorkerClose, TypeOK, Owns
    <3> QED BY <2>6, <3>1 DEF WorkerClose, Way, Closes, SameOwners
  <2>7. CASE WorkerCreate(w)
    <3>1. UNCHANGED ptr /\ (CreateSkips \/ CreateFills \/ CreateFails)
      BY <2>7 DEF WorkerCreate
    <3>2. UNCHANGED pc \/ (pc[w] = "create" /\ pc' = [pc EXCEPT ![w] = "get"])
      BY <2>7 DEF WorkerCreate
    <3>3. \A y \in Pointers : (Owns(y)' <=> Owns(y)) /\ (Closing(y) => Closing(y)')
      BY <3>1, <3>2 DEF TypeOK, Owns, Closing, Workers
    <3> QED BY <3>1, <3>3, CreatesStep
  <2>8. CASE WorkerGet(w)
    <3>1. CASE At(w, "get") /\ GetReturns(w, w) /\ Goto(w, "use")
      <4>1. ~ Owns(w) /\ ~ Closing(w) /\ (Owns(w)' <=> ptr'[w] # NULL)
        BY <3>1 DEF TypeOK, Owns, Closing, Workers
      <4>2. \A y \in Pointers \ {w} : /\ (ptr'[y] = ptr[y]) => (Owns(y)' <=> Owns(y))
                                      /\ Closing(y) => Closing(y)'
        BY <3>1 DEF TypeOK, Owns, Closing
      <4> QED BY <3>1, <4>1, <4>2, GetReturnsStep
    <3>2. CASE GetWaits(w) BY <3>2 DEF GetWaits, Owns, Closing, Way, Nothing, SameOwners
    <3> QED BY <2>8, <3>1, <3>2 DEF WorkerGet
  <2> QED BY <1>2, <2>1, <2>2, <2>3, <2>4, <2>5, <2>6, <2>7, <2>8 DEF WorkerStep
<1> QED BY <1>1, <1>2 DEF Next

\* Every step preserves the ownership invariants.
LEMMA OwnershipStep ==
    ASSUME TypeOK, TypeOK', Places, Ownership, Next
    PROVE  Ownership'
<1>1. Way BY StepWays
<1>2. CASE Nothing BY <1>2, QuietStep
<1>3. CASE Fills BY <1>3, CreateStep
<1>4. CASE Closes BY <1>4, CloseStep
<1>5. ASSUME NEW x \in Pointers, GetsNull(x) PROVE Ownership'
  BY <1>5, NullStep
<1>6. ASSUME NEW x \in Pointers, GivesBack(x) PROVE Ownership'
  BY <1>6, ReturnStep
<1>7. ASSUME NEW x \in Pointers, Deletes(x) PROVE Ownership'
  BY <1>7, DeleteStep
<1>8. ASSUME NEW x \in Pointers, NEW c \in connections \ busy, Gets(x, c) PROVE Ownership'
  BY <1>8, FreeStep
<1> QED BY <1>1, <1>2, <1>3, <1>4, <1>5, <1>6, <1>7, <1>8 DEF Way

\* The initial state, with an empty pool and no owner, satisfies the invariant.
LEMMA InitInv == Init => IndInv
<1> SUFFICES ASSUME Init PROVE IndInv OBVIOUS
<1>1. Cardinality({}) = 0 BY FS_EmptySet
<1>2. TypeOK
  BY <1>1, PoolAssumption DEF Init, TypeOK, Threads, MainLabels, WorkerLabels
<1>3. Places BY PoolAssumption DEF Init, Places, Threads, MainLabels, WorkerLabels
<1>4. \A x \in Pointers : ~ Owns(x) BY DEF Init, Owns
<1>5. OwnedBusy /\ NoSharing /\ OwnedAlive
  BY <1>4 DEF OwnedBusy, NoSharing, OwnedAlive
<1>6. FreeAlive /\ BusyOwned BY DEF Init, FreeAlive, BusyOwned
<1> QED BY <1>2, <1>3, <1>5, <1>6 DEF IndInv

\* The inductive invariant of the pool holds in every state, whatever the
\* number of threads, of connections and of addresses.
THEOREM Inductive == Spec => []IndInv
<1>1. Init => IndInv BY InitInv
<1>2. IndInv /\ [Next]_vars => IndInv'
  <2> SUFFICES ASSUME IndInv, [Next]_vars PROVE IndInv' OBVIOUS
  <2>1. CASE Next
    <3>1. TypeOK' BY <2>1, TypeStep DEF IndInv
    <3>2. Places' BY <2>1, PlacesStep DEF IndInv
    <3>3. Ownership' BY <2>1, <3>1, OwnershipStep DEF IndInv, Ownership
    <3> QED BY <3>1, <3>2, <3>3 DEF IndInv, Ownership
  <2>2. CASE UNCHANGED vars
    <3>1. TypeOK' BY <2>2 DEF vars, pool, IndInv, TypeOK
    <3>2. Places' BY <2>2 DEF vars, pool, IndInv, Places
    <3>3. Ownership'
      BY <2>2, QuietStep DEF vars, IndInv, Ownership, Owns, Closing, Nothing, SameOwners
    <3> QED BY <3>1, <3>2, <3>3 DEF IndInv, Ownership
  <2> QED BY <2>1, <2>2
<1> QED BY <1>1, <1>2, PTL DEF Spec

\* The pool keeps its shape and never grows beyond initialConnections.
THEOREM PoolTypeCorrect == Spec => []TypeOK
<1>1. IndInv => TypeOK BY DEF IndInv
<1> QED BY <1>1, Inductive, PTL

\* No two threads ever use the same connection, however often the pool is
\* closed and made again under them.
THEOREM NeverShared == Spec => []NoSharing
<1>1. IndInv => NoSharing BY DEF IndInv
<1> QED BY <1>1, Inductive, PTL

\* closeConnectionPool and get_thread never delete a connection that a thread
\* owns.
THEOREM NeverDangling == Spec => []OwnedAlive
<1>1. IndInv => OwnedAlive BY DEF IndInv
<1> QED BY <1>1, Inductive, PTL

\* Every connection that getConnection may hand out, or closeConnectionPool
\* delete, exists: what was deleted elsewhere is still marked busy.
THEOREM FreeNeverDangling == Spec => []FreeAlive
<1>1. IndInv => FreeAlive BY DEF IndInv
<1> QED BY <1>1, Inductive, PTL

\* A busy mark always has somebody who will remove it.
THEOREM BusyAlwaysOwned == Spec => []BusyOwned
<1>1. IndInv => BusyOwned BY DEF IndInv
<1> QED BY <1>1, Inductive, PTL

-----------------------------------------------------------------------------
(* Each way is a step of ConnectionLease. *)

\* What each pointer has, before and after a step.
LEMMA LeaseFacts ==
    /\ Leases = [x \in Pointers |-> IF Owns(x) THEN ptr[x] ELSE NULL]
    /\ Leases' = [x \in Pointers |-> IF Owns(x)' THEN ptr'[x] ELSE NULL]
    /\ Kept = {c \in busy : \E x \in Pointers : Owns(x) /\ ptr[x] = c}
    /\ Kept' = {c \in busy' : \E x \in Pointers : Owns(x)' /\ ptr'[x] = c}
BY DEF Leases, Kept

\* The pointers other than x have what they had.
LEMMA LeaseOf ==
    ASSUME NEW x \in Pointers, OthersKeep(x)
    PROVE  Leases' = [Leases EXCEPT ![x] = IF Owns(x)' THEN ptr'[x] ELSE NULL]
<1> DEFINE v == IF Owns(x)' THEN ptr'[x] ELSE NULL
<1>1. ASSUME NEW y \in Pointers PROVE Leases'[y] = IF y = x THEN v ELSE Leases[y]
  BY LeaseFacts DEF OthersKeep
<1> QED BY <1>1, LeaseFacts

\* Nobody gets or gives back anything.
LEMMA LeasesSame ==
    ASSUME SameOwners, UNCHANGED ptr
    PROVE  Leases' = Leases
BY LeaseFacts DEF SameOwners

\* A step that changes neither the pool nor who owns what is a stutter.
LEMMA NothingLeases ==
    ASSUME Nothing
    PROVE  UNCHANGED Lease!vars
<1>1. Leases' = Leases BY LeasesSame DEF Nothing
<1>2. Kept' = Kept BY LeaseFacts DEF Nothing, SameOwners, pool
<1> QED BY <1>1, <1>2 DEF Nothing, pool, Lease!vars

\* createPool fills an empty pool.
LEMMA FillLeases ==
    ASSUME TypeOK, TypeOK', Fills
    PROVE  Lease!Next
<1>1. busy = {} /\ busy' = {} /\ connections' \in SUBSET Conns
  BY DEF TypeOK, Fills
<1>2. Kept = {} /\ Kept' = {} BY <1>1, LeaseFacts
<1>3. Leases' = Leases BY LeasesSame DEF Fills
<1>4. Lease!Fill(connections')
  BY <1>1, <1>2, <1>3 DEF Fills, Lease!Fill
<1> QED BY <1>1, <1>4 DEF Lease!Next

\* getConnection returns NULL to a pointer that has nothing.
LEMMA NullLeases ==
    ASSUME NEW x \in Pointers, GetsNull(x)
    PROVE  UNCHANGED Lease!vars
<1>1. Leases' = Leases
  <2>1. ASSUME NEW y \in Pointers PROVE Leases'[y] = Leases[y]
    BY LeaseFacts DEF GetsNull, OthersKeep
  <2> QED BY <2>1, LeaseFacts
<1>2. Kept' = Kept
  <2>1. busy' = busy BY DEF GetsNull, pool
  <2>2. ASSUME NEW c PROVE (\E y \in Pointers : Owns(y)' /\ ptr'[y] = c)
                           <=> \E y \in Pointers : Owns(y) /\ ptr[y] = c
    BY DEF GetsNull, OthersKeep
  <2> QED BY <2>1, <2>2, LeaseFacts
<1> QED BY <1>1, <1>2 DEF GetsNull, pool, Lease!vars

\* getConnection gives pointer x the free connection c.
LEMMA GetLeases ==
    ASSUME TypeOK, NEW x \in Pointers, NEW c \in connections \ busy, Gets(x, c)
    PROVE  Lease!Next
<1>1. Leases' = [Leases EXCEPT ![x] = c] BY LeaseOf DEF Gets
<1>2. Leases[x] = NULL BY LeaseFacts DEF Gets
<1>3. Kept' = Kept \cup {c}
  <2>1. ASSUME NEW d PROVE (\E y \in Pointers : Owns(y)' /\ ptr'[y] = d)
                           <=> d = c \/ \E y \in Pointers : Owns(y) /\ ptr[y] = d
    BY DEF Gets, OthersKeep
  <2>2. \A d : d \in Kept' <=> d \in busy' /\ (\E y \in Pointers : Owns(y)' /\ ptr'[y] = d)
    BY LeaseFacts
  <2>3. \A d : d \in Kept <=> d \in busy /\ (\E y \in Pointers : Owns(y) /\ ptr[y] = d)
    BY LeaseFacts
  <2>4. busy' = busy \cup {c} BY DEF Gets
  <2> QED BY <2>1, <2>2, <2>3, <2>4
<1>4. connections' \ busy' = (connections \ busy) \ {c} BY DEF Gets
<1>5. Lease!Lend(x, c)
  BY <1>1, <1>2, <1>3, <1>4 DEF Gets, Lease!Lend
<1>6. c \in Conns BY DEF TypeOK
<1> QED BY <1>5, <1>6 DEF Lease!Next

\* After x has given up its connection, the pool keeps account of the others.
LEMMA KeptWithout ==
    ASSUME NoSharing, NEW x \in Pointers, Owns(x), ~ Owns(x)', OthersKeep(x),
           busy' \in {busy, busy \ {ptr[x]}}
    PROVE  Kept' = Kept \ {ptr[x]}
<1>1. ASSUME NEW d, d # ptr[x]
      PROVE  (\E y \in Pointers : Owns(y)' /\ ptr'[y] = d)
             <=> \E y \in Pointers : Owns(y) /\ ptr[y] = d
  BY <1>1 DEF OthersKeep
<1>2. ~ \E y \in Pointers : Owns(y)' /\ ptr'[y] = ptr[x]
  BY DEF OthersKeep, NoSharing
<1>3. \A d : d \in Kept' <=> d \in busy' /\ (\E y \in Pointers : Owns(y)' /\ ptr'[y] = d)
  BY LeaseFacts
<1>4. \A d : d \in Kept <=> d \in busy /\ (\E y \in Pointers : Owns(y) /\ ptr[y] = d)
  BY LeaseFacts
<1>5. \A d : d # ptr[x] => (d \in busy' <=> d \in busy)
  OBVIOUS
<1> QED BY <1>1, <1>2, <1>3, <1>4, <1>5

\* returnConnection: the connection is free again if it is in the pool, where
\* it can only be if it is still the one that was handed out.
LEMMA ReturnLeases ==
    ASSUME TypeOK, NoSharing, NEW x \in Pointers, GivesBack(x)
    PROVE  Lease!Next \/ UNCHANGED Lease!vars
<1>1. CASE Owns(x)
  <2> DEFINE c == ptr[x]
  <2>1. Leases' = [Leases EXCEPT ![x] = NULL] BY LeaseOf DEF GivesBack
  <2>2. Leases[x] = c /\ c # NULL BY <1>1, LeaseFacts DEF Owns
  <2>3. Kept' = Kept \ {c} BY <1>1, KeptWithout DEF GivesBack
  <2>4. c \in Kept <=> c \in busy BY <1>1, LeaseFacts
  <2>5. connections' \ busy' = IF c \in Kept THEN (connections \ busy) \cup {c}
                               ELSE connections \ busy
    BY <2>4 DEF GivesBack, TypeOK
  <2>6. Lease!TakeBack(x)
    BY <2>1, <2>2, <2>3, <2>5 DEF GivesBack, Lease!TakeBack, Lease!Gives
  <2> QED BY <2>6 DEF Lease!Next
<1>2. CASE ~ Owns(x)
  <2>1. busy' = busy
    BY <1>2, PoolAssumption DEF GivesBack, TypeOK
  <2>2. SameOwners BY <1>2 DEF GivesBack, OthersKeep, SameOwners
  <2>3. Leases' = Leases BY <2>2, LeasesSame DEF GivesBack
  <2>4. Kept' = Kept BY <2>1, <2>2, LeaseFacts DEF GivesBack, SameOwners
  <2> QED BY <2>1, <2>3, <2>4 DEF GivesBack, Lease!vars
<1> QED BY <1>1, <1>2

\* get_thread deletes the connection it owns.
LEMMA DeleteLeases ==
    ASSUME TypeOK, NoSharing, NEW x \in Pointers, Deletes(x)
    PROVE  Lease!Next \/ UNCHANGED Lease!vars
<1>1. CASE Owns(x)
  <2>1. Leases' = [Leases EXCEPT ![x] = NULL] BY LeaseOf DEF Deletes
  <2>2. Leases[x] = ptr[x] /\ ptr[x] # NULL BY <1>1, LeaseFacts DEF Owns
  <2>3. Kept' = Kept \ {ptr[x]} BY <1>1, KeptWithout DEF Deletes
  <2>4. Lease!Discard(x)
    BY <2>1, <2>2, <2>3 DEF Deletes, Lease!Discard, Lease!Gives
  <2> QED BY <2>4 DEF Lease!Next
<1>2. CASE ~ Owns(x)
  <2>1. heap' = heap
    BY <1>2, PoolAssumption DEF Deletes, TypeOK
  <2>2. SameOwners BY <1>2 DEF Deletes, OthersKeep, SameOwners
  <2>3. Leases' = Leases BY <2>2, LeasesSame DEF Deletes
  <2>4. Kept' = Kept BY <2>2, LeaseFacts DEF Deletes, SameOwners
  <2> QED BY <2>1, <2>3, <2>4 DEF Deletes, Lease!vars
<1> QED BY <1>1, <1>2

\* closeConnectionPool deletes the free connections.
LEMMA CloseLeases ==
    ASSUME Closes
    PROVE  Lease!Next
<1>1. Leases' = Leases BY LeasesSame DEF Closes
<1>2. busy' = {} /\ connections' = {} /\ heap' = heap \ (connections \ busy)
  BY DEF Closes, CloseConnectionPool, Closed
<1>3. Kept' = {} BY <1>2, LeaseFacts
<1>4. Lease!Close BY <1>1, <1>2, <1>3 DEF Lease!Close
<1> QED BY <1>4 DEF Lease!Next

\* A step of the pool is a step of ConnectionLease or a stutter.
LEMMA LeaseStep == IndInv /\ IndInv' /\ [Next]_vars => [Lease!Next]_(Lease!vars)
<1> SUFFICES ASSUME IndInv, IndInv', [Next]_vars
             PROVE  Lease!Next \/ UNCHANGED Lease!vars
  OBVIOUS
<1>1. TypeOK /\ TypeOK' /\ Places /\ NoSharing BY DEF IndInv
<1>2. CASE UNCHANGED vars
  BY <1>2, NothingLeases DEF vars, Nothing, SameOwners, Owns, Closing
<1>3. CASE Next
  <2>1. Way BY <1>1, <1>3, StepWays
  <2>2. CASE Nothing BY <2>2, NothingLeases
  <2>3. CASE Fills BY <1>1, <2>3, FillLeases
  <2>4. CASE Closes BY <2>4, CloseLeases
  <2>5. ASSUME NEW x \in Pointers, GetsNull(x) PROVE UNCHANGED Lease!vars
    BY <2>5, NullLeases
  <2>6. ASSUME NEW x \in Pointers, GivesBack(x) PROVE Lease!Next \/ UNCHANGED Lease!vars
    BY <1>1, <2>6, ReturnLeases
  <2>7. ASSUME NEW x \in Pointers, Deletes(x) PROVE Lease!Next \/ UNCHANGED Lease!vars
    BY <1>1, <2>7, DeleteLeases
  <2>8. ASSUME NEW x \in Pointers, NEW c \in connections \ busy, Gets(x, c) PROVE Lease!Next
    BY <1>1, <2>8, GetLeases
  <2> QED BY <2>1, <2>2, <2>3, <2>4, <2>5, <2>6, <2>7, <2>8 DEF Way
<1> QED BY <1>2, <1>3

\* The pool implements what ConnectionLease promises: every createPool,
\* getConnection, returnConnection, closeConnectionPool and delete of a client
\* is one step of it.
THEOREM PoolIsLease == Spec => ImplementsLease
<1>1. Init => Lease!Init
  <2> SUFFICES ASSUME Init PROVE Lease!Init OBVIOUS
  <2>1. \A x \in Pointers : ~ Owns(x) BY DEF Init, Owns
  <2>2. Leases = [x \in Pointers |-> NULL] BY <2>1, LeaseFacts
  <2>3. Kept = {} BY LeaseFacts DEF Init
  <2> QED BY <2>2, <2>3 DEF Init, Lease!Init
<1>2. IndInv /\ IndInv' /\ [Next]_vars => [Lease!Next]_(Lease!vars)
  BY LeaseStep
<1> QED BY Inductive, <1>1, <1>2, PTL DEF Spec, ImplementsLease, Lease!Spec
=============================================================================
