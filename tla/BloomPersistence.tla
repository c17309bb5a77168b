-------------------------- MODULE BloomPersistence --------------------------
(***************************************************************************)
(* How the table of filters survives the process: the load at start-up,    *)
(* the dump thread that rewrites file.txt, the signal handler that dumps   *)
(* once more and exits, and crashes.                                       *)
(*                                                                         *)
(* The table is abstracted to the set of entries in it, which a worker     *)
(* changes under bloom_hash_lock (BloomRegistry has the details).  The     *)
(* main thread installs sigcleanup, loads the table and then serves.  The  *)
(* handler runs on top of whatever its thread was doing, and the thread    *)
(* does nothing else from then on, since the handler ends in exit().       *)
(***************************************************************************)
EXTENDS Naturals, FiniteSets

CONSTANTS
    Workers,    \* the worker threads of the thrift server
    Main,       \* the main thread
    Dumper,     \* the thread of blooms_dump
    NoThread,   \* the holder of a lock nobody holds
    Entries,    \* what can be in the table
    Null,       \* the pointer `blooms` before it is set
    SignalTo    \* the threads on which a signal may be handled

Threads == Workers \cup {Main, Dumper}

ASSUME ThreadAssumption ==
    /\ Main \notin Workers /\ Dumper \notin Workers /\ Main # Dumper
    /\ NoThread \notin Threads
    /\ SignalTo \subseteq Threads
ASSUME NullAssumption == Null \notin Entries /\ \A d \in SUBSET Entries : Null # d

VARIABLES
    phase,      \* "down", "starting", "up": the life of the process
    table,      \* the table `blooms` points to, or Null
    file,       \* file.txt
    fileW,      \* dump_file_lock: its writer
    hashW,      \* bloom_hash_lock: its writer
    hashR,      \* bloom_hash_lock: the threads that hold it for reading
    pc,         \* where each thread is
    hpc,        \* where the handler on top of a thread is, "off" without one
    snap,       \* what a thread has serialised since it opened file.txt
    arg,        \* the entry a worker puts in or takes out
    saved,      \* auxiliary: the last table that was completely in file.txt
    spoilt,     \* auxiliary: has one of the events that lose it happened
    keep        \* auxiliary: entries in the table ever since the signal came

locks == <<fileW, hashW, hashR>>
aux == <<saved, spoilt, keep>>
vars == <<phase, table, file, locks, pc, hpc, snap, arg, aux>>

NoFile == [kind |-> "none", data |-> {}]
Torn == [kind |-> "torn", data |-> {}]
Whole(d) == [kind |-> "whole", data |-> d]

-----------------------------------------------------------------------------
(* Locks.  A thread that asks for a lock it holds for writing gets EDEADLK, *)
(* which no caller looks at: it goes on as if it had been given the lock.   *)

WrLockFile(t) == fileW \in {NoThread, t} /\ fileW' = t
UnlockFile(t) == fileW' = IF fileW = t THEN NoThread ELSE fileW

WrLockHash(t) == /\ hashW = t \/ (hashW = NoThread /\ hashR = {})
                 /\ hashW' = t /\ UNCHANGED hashR
RdLockHash(t) == /\ hashW \in {NoThread, t}
                 /\ hashR' = IF hashW = t THEN hashR ELSE hashR \cup {t}
                 /\ UNCHANGED hashW
UnlockHash(t) == /\ hashW' = IF hashW = t THEN NoThread ELSE hashW
                 /\ hashR' = IF hashW = t THEN hashR ELSE hashR \ {t}

\* Thread t runs its own code: no handler has taken it over.
Running(t) == phase # "down" /\ hpc[t] = "off"

At(t, label) == Running(t) /\ pc[t] = label
Goto(t, label) == pc' = [pc EXCEPT ![t] = label]

-----------------------------------------------------------------------------
(* Start: InfoCrawler::startServer installs the handlers, then the         *)
(* constructor of ServHandler runs initialize and start_dump_thread.       *)

Boot ==
    /\ phase = "down"
    /\ phase' = "starting"
    /\ Goto(Main, "start")
    /\ UNCHANGED <<table, file, locks, hpc, snap, arg, aux>>

\* The dump thread starts, then serve() starts the workers.
Serve == /\ phase' = "up"
         /\ pc' = [t \in Threads |-> IF t = Main THEN "serving"
                               ELSE IF t = Dumper THEN "sleep" ELSE "idle"]

\* access("file.txt") fails: blooms_init makes an empty table.
InitFresh ==
    /\ At(Main, "start")
    /\ file = NoFile
    /\ table' = {}
    /\ Serve
    /\ UNCHANGED <<file, locks, hpc, snap, arg, aux>>

\* blooms_load takes dump_file_lock, opens file.txt, takes bloom_hash_lock.
LoadLockFile ==
    /\ At(Main, "start")
    /\ file # NoFile
    /\ WrLockFile(Main)
    /\ Goto(Main, "load_hash")
    /\ UNCHANGED <<phase, table, file, hashW, hashR, hpc, snap, arg, aux>>

LoadLockHash ==
    /\ At(Main, "load_hash")
    /\ WrLockHash(Main)
    /\ Goto(Main, "load_read")
    /\ UNCHANGED <<phase, table, file, fileW, hpc, snap, arg, aux>>

\* Mutant of LoadRead: the archive is read into a local that hides the global.
LoadReadShadowed ==
    /\ At(Main, "load_read")
    /\ file.kind = "whole"
    /\ UnlockHash(Main) /\ UnlockFile(Main)
    /\ Serve
    /\ UNCHANGED <<table, file, hpc, snap, arg, aux>>

\* ia >> blooms, the two unlocks, and serve().
LoadRead ==
    /\ At(Main, "load_read")
    /\ file.kind = "whole"
    /\ table' = file.data
    /\ UnlockHash(Main) /\ UnlockFile(Main)
    /\ Serve
    /\ UNCHANGED <<file, hpc, snap, arg, aux>>

\* The archive ends early, in its header before bloom_hash_lock is taken or
\* later: `blooms` is still null or points to what had been read, the
\* exception is caught by nobody, abort() raises SIGABRT, and SIGABRT is
\* handled by sigcleanup on this thread.
LoadThrows ==
    /\ \/ At(Main, "load_hash") /\ UNCHANGED table
       \/ At(Main, "load_read") /\ table' \in {Null} \cup SUBSET Entries
    /\ file.kind = "torn"
    /\ hpc' = [hpc EXCEPT ![Main] = "file"]
    /\ UNCHANGED <<phase, file, locks, pc, snap, arg, aux>>

-----------------------------------------------------------------------------
(* Workers *)

\* Mutant of WorkerBegin: the entry of the request is not picked up.
WorkerBeginNoArg(w) ==
    /\ At(w, "idle")
    /\ table # Null
    /\ WrLockHash(w)
    /\ \/ Goto(w, "put") \/ Goto(w, "drop")
    /\ UNCHANGED <<phase, table, file, fileW, hpc, snap, arg, aux>>

\* A worker takes a request that changes the table, and the write lock.
WorkerBegin(w) ==
    /\ At(w, "idle")
    /\ table # Null
    /\ WrLockHash(w)
    /\ \E e \in Entries : arg' = [arg EXCEPT ![w] = e]
    /\ \/ Goto(w, "put") \/ Goto(w, "drop")
    /\ UNCHANGED <<phase, table, file, fileW, hpc, snap, aux>>

\* Mutant of WorkerPut: it returns without the unlock.
WorkerPutKeepsLock(w) ==
    /\ At(w, "put")
    /\ table' = table \cup {arg[w]}
    /\ Goto(w, "idle")
    /\ UNCHANGED <<phase, file, locks, hpc, snap, arg, aux>>

WorkerPut(w) ==
    /\ At(w, "put")
    /\ table' = table \cup {arg[w]}
    /\ UnlockHash(w)
    /\ Goto(w, "idle")
    /\ UNCHANGED <<phase, file, fileW, hpc, snap, arg, aux>>

WorkerDrop(w) ==
    /\ At(w, "drop")
    /\ table' = table \ {arg[w]}
    /\ keep' = keep \ {arg[w]}
    /\ UnlockHash(w)
    /\ Goto(w, "idle")
    /\ UNCHANGED <<phase, file, fileW, hpc, snap, arg, saved, spoilt>>

-----------------------------------------------------------------------------
(* blooms_dump, one round of its loop *)

DumpLockFile ==
    /\ At(Dumper, "sleep")
    /\ WrLockFile(Dumper)
    /\ Goto(Dumper, "open")
    /\ UNCHANGED <<phase, table, file, hashW, hashR, hpc, snap, arg, aux>>

\* std::ofstream fout("file.txt") truncates the file.
DumpOpen ==
    /\ At(Dumper, "open")
    /\ file' = Torn
    /\ Goto(Dumper, "dump_hash")
    /\ UNCHANGED <<phase, table, locks, hpc, snap, arg, aux>>

DumpLockHash ==
    /\ At(Dumper, "dump_hash")
    /\ RdLockHash(Dumper)
    /\ Goto(Dumper, "dump_write")
    /\ UNCHANGED <<phase, table, file, fileW, hpc, snap, arg, aux>>

\* Mutant of DumpWrite: dump_file_lock is released before fout.close().
DumpWriteUnlocksFile ==
    /\ At(Dumper, "dump_write")
    /\ snap' = [snap EXCEPT ![Dumper] = table]
    /\ UnlockHash(Dumper) /\ UnlockFile(Dumper)
    /\ Goto(Dumper, "close")
    /\ UNCHANGED <<phase, table, file, hpc, arg, aux>>

\* oa << blooms, and the unlock of bloom_hash_lock.
DumpWrite ==
    /\ At(Dumper, "dump_write")
    /\ snap' = [snap EXCEPT ![Dumper] = table]
    /\ UnlockHash(Dumper)
    /\ Goto(Dumper, "close")
    /\ UNCHANGED <<phase, table, file, fileW, hpc, arg, aux>>

\* Mutant of DumpClose: dump_file_lock is kept, as blooms_dump1 keeps it.
DumpCloseKeepsLock ==
    /\ At(Dumper, "close")
    /\ file' = Whole(snap[Dumper])
    /\ saved' = IF snap[Dumper] = Null THEN saved ELSE snap[Dumper]
    /\ spoilt' = (snap[Dumper] = Null)
    /\ Goto(Dumper, "sleep")
    /\ UNCHANGED <<phase, table, locks, hpc, snap, arg, keep>>

\* fout.close(): only now is all of it in the file.  Then the unlock.
DumpClose ==
    /\ At(Dumper, "close")
    /\ file' = Whole(snap[Dumper])
    /\ saved' = IF snap[Dumper] = Null THEN saved ELSE snap[Dumper]
    /\ spoilt' = (snap[Dumper] = Null)
    /\ UnlockFile(Dumper)
    /\ Goto(Dumper, "sleep")
    /\ UNCHANGED <<phase, table, hashW, hashR, hpc, snap, arg, keep>>

-----------------------------------------------------------------------------
(* sigcleanup: ThriftManager::dump, blooms_dump1, exit(0) *)

\* A signal is delivered to thread t.
Signal(t) ==
    /\ t \in SignalTo
    /\ phase = "up" \/ (phase = "starting" /\ t = Main)
    /\ hpc[t] = "off"
    /\ hpc' = [hpc EXCEPT ![t] = "file"]
    /\ keep' = IF table = Null THEN {}
               ELSE IF \E u \in Threads : hpc[u] # "off" THEN keep ELSE table
    /\ spoilt' = (spoilt \/ table = Null)
    /\ UNCHANGED <<phase, table, file, locks, pc, snap, arg, saved>>

HAt(t, label) == phase # "down" /\ hpc[t] = label
HGoto(t, label) == hpc' = [hpc EXCEPT ![t] = label]

HandlerLockFile(t) ==
    /\ HAt(t, "file")
    /\ WrLockFile(t)
    /\ HGoto(t, "open")
    /\ UNCHANGED <<phase, table, file, hashW, hashR, pc, snap, arg, aux>>

HandlerOpen(t) ==
    /\ HAt(t, "open")
    /\ file' = Torn
    /\ HGoto(t, "hash")
    /\ UNCHANGED <<phase, table, locks, pc, snap, arg, aux>>

HandlerLockHash(t) ==
    /\ HAt(t, "hash")
    /\ RdLockHash(t)
    /\ HGoto(t, "write")
    /\ UNCHANGED <<phase, table, file, fileW, pc, snap, arg, aux>>

\* Mutant of HandlerWrite: fout.close() is left out, and exit() does not run
\* the destructor of a local.
HandlerWriteNoClose(t) ==
    /\ HAt(t, "write")
    /\ snap' = [snap EXCEPT ![t] = table]
    /\ UnlockHash(t)
    /\ HGoto(t, "exit")
    /\ UNCHANGED <<phase, table, file, fileW, pc, arg, aux>>

\* A null pointer is written as a null pointer.  When the handler runs on top
\* of a worker inside its critical section, that worker's change may or may
\* not have reached the table.
HandlerWrite(t) ==
    /\ HAt(t, "write")
    /\ \/ snap' = [snap EXCEPT ![t] = table] /\ UNCHANGED keep
       \/ /\ pc[t] = "put"
          /\ snap' = [snap EXCEPT ![t] = table \cup {arg[t]}] /\ UNCHANGED keep
       \/ /\ pc[t] = "drop"
          /\ snap' = [snap EXCEPT ![t] = table \ {arg[t]}] /\ keep' = keep \ {arg[t]}
    /\ UnlockHash(t)
    /\ HGoto(t, "close")
    /\ UNCHANGED <<phase, table, file, fileW, pc, arg, saved, spoilt>>

\* fout.close(); dump_file_lock is not released.
HandlerClose(t) ==
    /\ HAt(t, "close")
    /\ file' = Whole(snap[t])
    /\ saved' = IF snap[t] = Null THEN saved ELSE snap[t]
    /\ HGoto(t, "exit")
    /\ UNCHANGED <<phase, table, locks, pc, snap, arg, spoilt, keep>>

-----------------------------------------------------------------------------
(* The end of the process: nothing but file.txt is left. *)

Die ==
    /\ phase' = "down"
    /\ table' = Null
    /\ fileW' = NoThread /\ hashW' = NoThread /\ hashR' = {}
    /\ pc' = [t \in Threads |-> "gone"]
    /\ hpc' = [t \in Threads |-> "off"]
    /\ snap' = [t \in Threads |-> Null]
    /\ arg' = [t \in Threads |-> Null]
    /\ keep' = {}
    /\ UNCHANGED <<file, saved>>

\* exit(0) at the end of sigcleanup.
Exit(t) == HAt(t, "exit") /\ Die /\ UNCHANGED spoilt

\* SIGKILL, a loss of power, a request on a table that is not there (SIGSEGV
\* is not handled): the process ends where it is.
Crash == /\ phase # "down"
         /\ Die
         /\ spoilt' = (spoilt \/ file = Torn)

-----------------------------------------------------------------------------

Init ==
    /\ phase = "down"
    /\ table = Null
    /\ file = NoFile
    /\ fileW = NoThread /\ hashW = NoThread /\ hashR = {}
    /\ pc = [t \in Threads |-> "gone"]
    /\ hpc = [t \in Threads |-> "off"]
    /\ snap = [t \in Threads |-> Null]
    /\ arg = [t \in Threads |-> Null]
    /\ saved = {} /\ spoilt = FALSE /\ keep = {}

MainStep == InitFresh \/ LoadLockFile \/ LoadLockHash \/ LoadRead \/ LoadThrows
DumpStep == DumpLockFile \/ DumpOpen \/ DumpLockHash \/ DumpWrite \/ DumpClose
WorkerStep(w) == WorkerPut(w) \/ WorkerDrop(w)
HandlerStep(t) == \/ HandlerLockFile(t) \/ HandlerOpen(t) \/ HandlerLockHash(t)
                  \/ HandlerWrite(t) \/ HandlerClose(t) \/ Exit(t)

Next ==
    \/ Boot \/ MainStep \/ DumpStep \/ Crash
    \/ \E w \in Workers : WorkerBegin(w) \/ WorkerStep(w)
    \/ \E t \in Threads : Signal(t) \/ HandlerStep(t)

Spec == Init /\ [][Next]_vars

\* Threads that can run do run, and a thread waiting for a lock that is free
\* again and again gets it: the rwlock lets waiting readers in before writers,
\* and the dump thread sleeps between two holds of dump_file_lock.  Requests,
\* signals and crashes need not come.
Fairness ==
    /\ WF_vars(MainStep)
    /\ SF_vars(DumpStep)
    /\ \A w \in Workers : WF_vars(WorkerStep(w))
    /\ \A t \in Threads : SF_vars(HandlerStep(t))
FairSpec == Spec /\ Fairness

-----------------------------------------------------------------------------
(* Properties *)

\* The state has its shape; in particular no null entry gets into the table
\* or into file.txt, and the table is a table or the null pointer.
TypeOK ==
    /\ phase \in {"down", "starting", "up"}
    /\ table \in {Null} \cup SUBSET Entries
    /\ file \in {NoFile, Torn, Whole(Null)} \cup {Whole(d) : d \in SUBSET Entries}
    /\ fileW \in Threads \cup {NoThread}
    /\ hashW \in Threads \cup {NoThread}
    /\ hashR \in SUBSET Threads
    /\ pc \in [Threads -> {"gone", "start", "load_hash", "load_read", "serving", "idle",
                           "put", "drop", "sleep", "open", "dump_hash", "dump_write",
                           "close"}]
    /\ hpc \in [Threads -> {"off", "file", "open", "hash", "write", "close", "exit"}]
    /\ snap \in [Threads -> {Null} \cup SUBSET Entries]
    /\ arg \in [Threads -> {Null} \cup Entries]
    /\ saved \in SUBSET Entries
    /\ spoilt \in BOOLEAN
    /\ keep \in SUBSET Entries

\* Whoever finds dump_file_lock free while the server runs finds a complete
\* file.txt: blooms_dump leaves none half written behind, and a server never
\* comes up on top of a torn one.
FileWholeBetweenDumps == phase = "up" /\ fileW = NoThread => file.kind # "torn"

\* A restart brings back exactly the table of the last dump that was written
\* to the end, unless the process was killed between the truncation of
\* file.txt and its close, or was signalled before its table was loaded.
RestartRestores ==
    [][phase = "starting" /\ phase' = "up" /\ ~ spoilt => table' = saved]_vars

\* When sigcleanup exits a server that had a table, file.txt is complete and
\* holds every entry that was in the table from the signal to the exit.
ExitSavesTable ==
    [][(\E t \in Threads : hpc[t] = "exit") /\ phase' = "down" /\ phase = "up" /\ table # Null
          => file.kind = "whole" /\ keep \subseteq file.data]_vars

\* Thread u has one of the locks that thread t is waiting for, in the handler or
\* in blooms_dump.
HoldsUp(u, t) ==
    /\ u # t
    /\ \/ u = fileW /\ (HAt(t, "file") \/ At(t, "sleep"))
       \/ u = hashW /\ (HAt(t, "hash") \/ At(t, "dump_hash"))

\* Thread u is between a lock and its unlock, and not taken over by a handler.
InSection(u) == Running(u) /\ pc[u] \in {"put", "drop", "open", "dump_hash", "dump_write", "close"}

\* While no thread but the main thread has been taken over by a handler, the
\* handler there waits for a thread that runs on inside its section, and that
\* one for nobody or for another that waits for nobody: the handler, the dump
\* thread and the workers never wait in a circle, and nobody keeps a lock that
\* he has no more use for.
NoWaitCircle ==
    (\A t \in Threads \ {Main} : hpc[t] = "off") =>
        \A u, v \in Threads :
            /\ HoldsUp(u, Main) => InSection(u)
            /\ HoldsUp(u, Main) /\ HoldsUp(v, u) =>
                  InSection(v) /\ \A t \in Threads : ~HoldsUp(t, v)

\* A handled signal ends the process, as the handler's message "As so many
\* SIGTERM signals received, compulsive exit" (InfoCrawler.cpp:269) has it.
SignalEndsProcess == (\E t \in Threads : hpc[t] # "off") ~> phase = "down"

\* A signal that is handled on the main thread, which holds no lock while it
\* serves, ends the process, whatever the workers and the dump thread are doing
\* then; unless another thread is taken over by a handler before it does.
MainSignalEnds ==
    hpc[Main] # "off" ~> phase = "down" \/ \E t \in Threads \ {Main} : hpc[t] # "off"
=============================================================================
