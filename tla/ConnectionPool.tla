---------------------------- MODULE ConnectionPool ----------------------------
(***************************************************************************)
(* The client side of the server: BloomfilterConnectionPool and the        *)
(* program of thrift_filter/pool.cpp that uses it.  Every method of the    *)
(* pool works under one mutex, so each of its locked sections is one step; *)
(* getConnection leaves the mutex to sleep between two attempts.           *)
(*                                                                         *)
(* A connection is the address of a ServClient: an address that has been   *)
(* deleted may be handed out again by a later new.  The vector             *)
(* `connections` is the set of the addresses in it, since nothing tells    *)
(* two free connections apart; `busy` are the ones marked busy.  Pointers  *)
(* keep their value when what they point to is deleted or given back.      *)
(***************************************************************************)
EXTENDS Naturals, FiniteSets

CONSTANTS
    GetThreads,          \* threads that run get_thread
    FillThreads,         \* threads that run fill_thread
    Main,                \* the thread that runs main
    testClient,          \* main's two connection pointers
    testClient1,
    Conns,               \* the addresses a ServClient can have
    NULL,
    InitialConnections,  \* initialConnections
    OpenFails            \* may transport->open() throw

Workers == GetThreads \cup FillThreads
Threads == Workers \cup {Main}

\* The pointer variables of the program: `get` of each worker, and main's two.
Pointers == Workers \cup {testClient, testClient1}

ASSUME PoolAssumption ==
    /\ GetThreads \cap FillThreads = {} /\ Main \notin Workers
    /\ testClient # testClient1 /\ {testClient, testClient1} \cap Workers = {}
    /\ NULL \notin Conns
    /\ InitialConnections \in Nat \ {0}
    /\ OpenFails \in BOOLEAN
    /\ IsFiniteSet(Conns)

VARIABLES
    connections,  \* the addresses in the pool's vector
    busy,         \* those of them whose PooledConnection is busy
    heap,         \* the ServClients that are allocated
    ptr,          \* the value of each pointer variable
    pc,           \* where each thread is
    waiting,      \* threads asleep in getConnection
    life          \* "running", "exited" or "crashed"

pool == <<connections, busy, heap>>
vars == <<pool, ptr, pc, waiting, life>>

At(p, label) == life = "running" /\ pc[p] = label
Goto(p, label) == pc' = [pc EXCEPT ![p] = label]

-----------------------------------------------------------------------------
(* The methods of BloomfilterConnectionPool *)

\* Mutant of Opened: the loop of createConnections runs once too often.
OpenedOneMore == {S \in SUBSET (Conns \ heap) : Cardinality(S) = InitialConnections + 1}

\* What createConnections puts into an empty pool when nothing throws.
Opened == {S \in SUBSET (Conns \ heap) : Cardinality(S) = InitialConnections}

\* createPool on a pool that is not empty does nothing and returns 0.
CreateSkips == connections # {} /\ UNCHANGED pool

\* createPool fills the pool and returns 0.
CreateFills == /\ connections = {}
               /\ \E S \in Opened : connections' = S /\ heap' = heap \cup S
               /\ UNCHANGED busy

\* A connection cannot be opened: createPool returns -1 and keeps the ones
\* opened before it.
CreateFails ==
    /\ OpenFails
    /\ connections = {}
    /\ \E S \in SUBSET (Conns \ heap) :
          Cardinality(S) < InitialConnections /\ connections' = S /\ heap' = heap \cup S
    /\ UNCHANGED busy

\* Mutant of MarkBusy: setBusy(true) is left out.
MarkBusyDropped(c) == busy' = busy

\* findFreeConnection marks the connection it found.
MarkBusy(c) == busy' = busy \cup {c}

\* getConnection by thread p, its value to be stored in pointer x: an empty
\* pool gives NULL at the first attempt ...
GetNull(p, x) == /\ p \notin waiting /\ connections = {}
                 /\ ptr' = [ptr EXCEPT ![x] = NULL]
                 /\ UNCHANGED <<pool, waiting>>

\* ... a free connection is taken at the first or at a later attempt ...
GetFree(p, x) == \E c \in connections \ busy :
                    /\ MarkBusy(c)
                    /\ ptr' = [ptr EXCEPT ![x] = c]
                    /\ waiting' = waiting \ {p}
                    /\ UNCHANGED <<connections, heap>>

GetReturns(p, x) == GetNull(p, x) \/ GetFree(p, x)

\* ... and otherwise the thread sleeps and tries again.
GetWaits(p) == /\ p \notin waiting /\ connections # {} /\ connections = busy
               /\ waiting' = waiting \cup {p}
               /\ UNCHANGED <<pool, ptr, pc, life>>

\* Mutant of ReturnConnection: the search finds nothing.
ReturnConnectionLost(c) == UNCHANGED pool

\* Mutant of ReturnConnection: a connection that is not in the pool is put there.
ReturnConnectionAdds(c) == busy' = busy \ {c} /\ connections' = connections \cup {c} /\ UNCHANGED heap

\* returnConnection; a connection that is not in the pool is ignored.
ReturnConnection(c) == busy' = busy \ {c} /\ UNCHANGED <<connections, heap>>

\* Mutant of Closed: closeConnectionPool deletes the busy connections as well.
ClosedAll == connections

\* closeConnectionPool deletes the connections that are not busy ...
Closed == connections \ busy

\* ... and empties the pool.
CloseConnectionPool == /\ heap' = heap \ Closed
                       /\ connections' = {} /\ busy' = {}

-----------------------------------------------------------------------------
(* get_thread and fill_thread *)

\* The calls of one round succeed.
UseSucceeds(w) == /\ At(w, "use") /\ ptr[w] # NULL
                  /\ Goto(w, IF w \in GetThreads THEN "return" ELSE "use")
                  /\ UNCHANGED <<pool, ptr, waiting, life>>

\* One of them throws, and the thread is in its catch block.
UseThrows(w) == /\ At(w, "use") /\ ptr[w] # NULL
                /\ Goto(w, IF w \in GetThreads THEN "delete" ELSE "give_back")
                /\ UNCHANGED <<pool, ptr, waiting, life>>

\* A call through a null pointer.
UseNull(w) == /\ At(w, "use") /\ ptr[w] = NULL
              /\ life' = "crashed"
              /\ UNCHANGED <<pool, ptr, pc, waiting>>

\* get_thread gives the connection back after a round, fill_thread after an
\* exception.
WorkerReturn(w) ==
    /\ \/ At(w, "return") /\ Goto(w, "get")
       \/ At(w, "give_back") /\ Goto(w, "close")
    /\ ReturnConnection(ptr[w])
    /\ UNCHANGED <<ptr, waiting, life>>

\* get_thread deletes its connection after an exception.
WorkerDelete(w) ==
    /\ At(w, "delete") /\ Goto(w, "close")
    /\ heap' = heap \ {ptr[w]}
    /\ UNCHANGED <<connections, busy, ptr, waiting, life>>

WorkerClose(w) ==
    /\ At(w, "close") /\ Goto(w, "create")
    /\ CloseConnectionPool
    /\ UNCHANGED <<ptr, waiting, life>>

\* while (pool.createPool(...) != 0) sleep(2)
WorkerCreate(w) ==
    /\ At(w, "create")
    /\ \/ (CreateSkips \/ CreateFills) /\ Goto(w, "get")
       \/ CreateFails /\ UNCHANGED pc
    /\ UNCHANGED <<ptr, waiting, life>>

WorkerGet(w) == \/ At(w, "get") /\ GetReturns(w, w) /\ Goto(w, "use") /\ UNCHANGED life
                \/ At(w, "get") /\ GetWaits(w)

WorkerStep(w) == \/ UseSucceeds(w) \/ UseThrows(w) \/ UseNull(w) \/ WorkerReturn(w)
                 \/ WorkerDelete(w) \/ WorkerClose(w) \/ WorkerCreate(w) \/ WorkerGet(w)

-----------------------------------------------------------------------------
(* main *)

MainCreate ==
    /\ At(Main, "m_create")
    /\ \/ (CreateSkips \/ CreateFills) /\ Goto(Main, "m_get")
       \/ CreateFails /\ UNCHANGED pc
    /\ UNCHANGED <<ptr, waiting, life>>

\* testClient = pool.getConnection(); testClient1 = pool.getConnection()
MainGet ==
    \/ /\ \/ At(Main, "m_get") /\ GetReturns(Main, testClient) /\ Goto(Main, "m_get1")
          \/ At(Main, "m_get1") /\ GetReturns(Main, testClient1) /\ Goto(Main, "m_add")
       /\ UNCHANGED life
    \/ (At(Main, "m_get") \/ At(Main, "m_get1")) /\ GetWaits(Main)

\* The two calls of add.  main catches nothing.
MainAdd ==
    /\ At(Main, "m_add")
    /\ \/ ptr[testClient] # NULL /\ ptr[testClient1] # NULL /\ Goto(Main, "m_spawn")
          /\ UNCHANGED life
       \/ life' = "crashed" /\ UNCHANGED pc
    /\ UNCHANGED <<pool, ptr, waiting>>

\* pthread_create(..., pool.getConnection()) for the next worker.
MainSpawn(w) ==
    \/ /\ At(Main, "m_spawn") /\ pc[w] = "new"
       /\ GetReturns(Main, w) /\ Goto(w, "use")
       /\ UNCHANGED life
    \/ At(Main, "m_spawn") /\ pc[w] = "new" /\ GetWaits(Main)

\* sleep(500), and the two connections go back.
MainReturn ==
    /\ \/ /\ At(Main, "m_spawn") /\ \A w \in Workers : pc[w] # "new"
          /\ ReturnConnection(ptr[testClient]) /\ Goto(Main, "m_return1")
       \/ /\ At(Main, "m_return1")
          /\ ReturnConnection(ptr[testClient1]) /\ Goto(Main, "m_close")
    /\ UNCHANGED <<ptr, waiting, life>>

\* The pool is closed, made again, whatever comes of it, and closed.
MainClose ==
    /\ \/ At(Main, "m_close") /\ Goto(Main, "m_create1")
       \/ At(Main, "m_close1") /\ Goto(Main, "m_exit")
    /\ CloseConnectionPool
    /\ UNCHANGED <<ptr, waiting, life>>

MainCreate1 ==
    /\ At(Main, "m_create1") /\ Goto(Main, "m_close1")
    /\ CreateSkips \/ CreateFills \/ CreateFails
    /\ UNCHANGED <<ptr, waiting, life>>

MainExit == /\ At(Main, "m_exit") /\ life' = "exited"
            /\ UNCHANGED <<pool, ptr, pc, waiting>>

MainStep == \/ MainCreate \/ MainGet \/ MainAdd \/ (\E w \in Workers : MainSpawn(w))
            \/ MainReturn \/ MainClose \/ MainCreate1 \/ MainExit

-----------------------------------------------------------------------------

Init ==
    /\ connections = {} /\ busy = {} /\ heap = {}
    /\ ptr = [x \in Pointers |-> NULL]
    /\ pc = [p \in Threads |-> IF p = Main THEN "m_create" ELSE "new"]
    /\ waiting = {}
    /\ life = "running"

Next == MainStep \/ \E w \in Workers : WorkerStep(w)

Spec == Init /\ [][Next]_vars

-----------------------------------------------------------------------------
(* Properties *)

MainLabels == {"m_create", "m_get", "m_get1", "m_add", "m_spawn", "m_return1",
               "m_close", "m_create1", "m_close1", "m_exit"}
WorkerLabels == {"new", "use", "return", "give_back", "delete", "close", "create", "get"}

\* The state has its shape; a busy mark belongs to an entry, and the pool
\* never grows beyond initialConnections.
TypeOK ==
    /\ connections \in SUBSET Conns
    /\ busy \in SUBSET connections
    /\ heap \in SUBSET Conns
    /\ ptr \in [Pointers -> Conns \cup {NULL}]
    /\ pc \in [Threads -> MainLabels \cup WorkerLabels]
    /\ waiting \in SUBSET Threads
    /\ life \in {"running", "exited", "crashed"}
    /\ Cardinality(connections) <= InitialConnections

\* The pointers that own a connection: it was obtained from the pool, and was
\* neither given back nor deleted since.
Owns(x) ==
    /\ ptr[x] # NULL
    /\ \/ x \in Workers /\ pc[x] \in {"use", "return", "give_back", "delete"}
       \/ x = testClient /\ pc[Main] \in {"m_get1", "m_add", "m_spawn"}
       \/ x = testClient1 /\ pc[Main] \in {"m_add", "m_spawn", "m_return1"}

\* No connection is used by two threads at a time, although the pool is
\* closed and made again under the threads that hold its connections and
\* although addresses are used again: two callers on one ServClient would
\* mix their frames on one socket.
NoSharing == \A x, y \in Pointers : Owns(x) /\ Owns(y) /\ ptr[x] = ptr[y] => x = y

\* No connection is deleted under the thread that owns it.
OwnedAlive == \A x \in Pointers : Owns(x) => ptr[x] \in heap

\* Every connection that getConnection could hand out, or closeConnectionPool
\* would delete, exists.
FreeAlive == connections \ busy \subseteq heap

\* A connection of the pool that is marked busy has an owner who will give it
\* back, or its owner has deleted it and is on the way to close the pool: no
\* connection stays busy with nobody to free it.
BusyOwned ==
    \A c \in busy : \E x \in Pointers :
        ptr[x] = c /\ (Owns(x) \/ (x \in GetThreads /\ pc[x] = "close"))

-----------------------------------------------------------------------------
(* What the four safety properties need to be inductive. *)

\* Threads stay in their own code: only get_thread deletes, only fill_thread
\* gives a connection back after an exception.
Places ==
    /\ pc[Main] \in MainLabels
    /\ \A w \in Workers : /\ pc[w] \in WorkerLabels
                          /\ pc[w] = "delete" => w \in GetThreads

\* A connection of the pool that has an owner is marked busy.
OwnedBusy == \A x \in Pointers : Owns(x) /\ ptr[x] \in connections => ptr[x] \in busy

IndInv == /\ TypeOK /\ Places /\ OwnedBusy
          /\ NoSharing /\ OwnedAlive /\ FreeAlive /\ BusyOwned

-----------------------------------------------------------------------------
(* The pool implements ConnectionLease. *)

Kept == {c \in busy : \E x \in Pointers : Owns(x) /\ ptr[x] = c}
Leases == [x \in Pointers |-> IF Owns(x) THEN ptr[x] ELSE NULL]

Lease == INSTANCE ConnectionLease WITH
    Users <- Pointers, Nothing <- NULL,
    open <- heap, free <- connections \ busy, kept <- Kept, lease <- Leases

\* Every method of the pool is a step of ConnectionLease: a connection that is
\* given back is free again exactly if the pool was not closed since it was
\* handed out, even if its address, or the vector, has been used again.
ImplementsLease == Lease!Spec
=============================================================================
