------------------------ MODULE BloomPersistence_proofs ------------------------
(***************************************************************************)
(* Proofs about BloomPersistence for any number of workers and any set of  *)
(* entries: whatever the order of dumps, signals on any thread, crashes    *)
(* and restarts, file.txt is complete whenever its lock is free, a restart *)
(* brings back what was saved, and a handler saves the table it found.     *)
(*                                                                         *)
(* The argument rests on who holds dump_file_lock: a handler keeps it from *)
(* its first step to the exit, so that nobody else can open or close the   *)
(* file once a handler has (FileHeld), and what becomes of the file at the *)
(* end is decided by what one thread serialised (Snaps).                   *)
(***************************************************************************)
EXTENDS BloomPersistence, TLAPS

Loading == {"start", "load_hash", "load_read"}
Dumping == {"sleep", "open", "dump_hash", "dump_write", "close"}

\* Which threads exist in each phase of the process, and where they are.
Phases ==
    /\ phase = "down" => \A t \in Threads : pc[t] = "gone" /\ hpc[t] = "off"
    /\ phase = "starting" =>
          /\ pc[Main] \in Loading
          /\ \A t \in Threads \ {Main} : pc[t] = "gone" /\ hpc[t] = "off"
    /\ phase = "up" =>
          /\ pc[Main] = "serving" /\ pc[Dumper] \in Dumping
          /\ \A w \in Workers : pc[w] \in {"idle", "put", "drop"}
    /\ \A w \in Workers : pc[w] \in {"put", "drop"} => arg[w] \in Entries /\ table # Null
    /\ phase # "up" => keep = {}
    /\ phase = "down" \/ (phase = "starting" /\ hpc[Main] = "off") => table = Null

\* dump_file_lock is held where a thread relies on it.
FileHeld ==
    /\ \A t \in Threads : hpc[t] \in {"open", "hash", "write", "close", "exit"} => fileW = t
    /\ pc[Dumper] \in Dumping \ {"sleep"} => fileW = Dumper
    /\ pc[Main] \in {"load_hash", "load_read"} => fileW = Main

\* A torn file and a null table come from one of the events that lose the table;
\* without them the file holds what was saved.
Losses ==
    /\ phase # "up" /\ file.kind = "torn" => spoilt
    /\ phase = "starting" /\ hpc[Main] # "off" => spoilt
    /\ phase = "up" /\ table = Null => spoilt
    /\ file.kind = "whole" /\ ~spoilt => file.data = saved
    /\ file = NoFile => saved = {}

\* What a thread has serialised is the table that a handler has to keep, and a
\* handler that is about to exit has put it into the file.
Snaps ==
    \A t \in Threads :
        /\ hpc[t] \in {"close", "exit"} \/ pc[t] = "close" => (snap[t] = Null <=> table = Null)
        /\ hpc[t] # "off" /\ table # Null => keep \subseteq table
        /\ hpc[t] \in {"close", "exit"} /\ table # Null => keep \subseteq snap[t]
        /\ hpc[t] = "exit" => file = Whole(snap[t])

IndInv == TypeOK /\ Phases /\ FileHeld /\ Losses /\ Snaps /\ FileWholeBetweenDumps

-----------------------------------------------------------------------------
(* The initial state and every step. *)

\* Nothing runs, there is no file and nothing was lost.
LEMMA InitInv == Init => IndInv
<1> SUFFICES ASSUME Init PROVE IndInv
  OBVIOUS
<1>1. TypeOK
  BY DEF Init, TypeOK
<1>2. Phases /\ FileHeld
  BY ThreadAssumption DEF Init, Phases, FileHeld, Loading, Dumping, Threads
<1>3. Losses /\ Snaps /\ FileWholeBetweenDumps
  BY DEF Init, Losses, Snaps, FileWholeBetweenDumps, NoFile
<1> QED BY <1>1, <1>2, <1>3 DEF IndInv

\* The process starts: there is no table and no thread but the main one.
LEMMA BootInv ==
    ASSUME IndInv, Boot PROVE IndInv'
<1> USE DEF IndInv, Boot
<1>1. TypeOK'
  BY DEF TypeOK, Goto, locks, aux
<1>2. Phases'
  BY DEF Phases, TypeOK, Goto, aux, Loading, Threads
<1>3. FileHeld'
  BY DEF FileHeld, Goto, locks, Dumping
<1>4. Losses'
  BY DEF Losses, Phases, aux, Threads
<1>5. Snaps'
  BY DEF Snaps, Goto, aux
<1>6. FileWholeBetweenDumps'
  BY DEF FileWholeBetweenDumps
<1> QED BY <1>1, <1>2, <1>3, <1>4, <1>5, <1>6

\* A server without a file starts with the empty table, which is what was saved.
LEMMA InitFreshInv ==
    ASSUME IndInv, InitFresh PROVE IndInv'
<1> USE DEF IndInv, InitFresh
<1>1. TypeOK'
  BY DEF TypeOK, Serve, locks, aux
<1>2. Phases'
  BY ThreadAssumption DEF Phases, Serve, Dumping, Threads
<1>3. FileHeld'
  BY DEF FileHeld, Serve, locks, Dumping, Threads
<1>4. Losses'
  BY NullAssumption DEF Losses, At, Running, aux, NoFile
<1>5. Snaps'
  BY DEF Snaps, TypeOK, Phases, Serve, At, Running
<1>6. FileWholeBetweenDumps'
  BY DEF FileWholeBetweenDumps, NoFile
<1> QED BY <1>1, <1>2, <1>3, <1>4, <1>5, <1>6

\* The load takes dump_file_lock.
LEMMA LoadLockFileInv ==
    ASSUME IndInv, LoadLockFile PROVE IndInv'
<1> USE DEF IndInv, LoadLockFile
<1>1. TypeOK'
  BY DEF TypeOK, Goto, WrLockFile, aux, Threads
<1>2. Phases'
  BY DEF Phases, At, Goto, aux, Loading
<1>3. FileHeld'
  BY DEF FileHeld, TypeOK, Phases, At, Goto, WrLockFile, Dumping, Threads
<1>4. Losses'
  BY DEF Losses, aux
<1>5. Snaps'
  BY DEF Snaps, Goto, aux
<1>6. FileWholeBetweenDumps'
  BY DEF FileWholeBetweenDumps, WrLockFile
<1> QED BY <1>1, <1>2, <1>3, <1>4, <1>5, <1>6

\* The load takes bloom_hash_lock.
LEMMA LoadLockHashInv ==
    ASSUME IndInv, LoadLockHash PROVE IndInv'
<1> USE DEF IndInv, LoadLockHash
<1>1. TypeOK'
  BY DEF TypeOK, Goto, WrLockHash, aux, Threads
<1>2. Phases'
  BY DEF Phases, At, Goto, aux, Loading
<1>3. FileHeld'
  BY DEF FileHeld, At, Goto
<1>4. Losses'
  BY DEF Losses, aux
<1>5. Snaps'
  BY DEF Snaps, Goto, aux
<1>6. FileWholeBetweenDumps'
  BY DEF FileWholeBetweenDumps
<1> QED BY <1>1, <1>2, <1>3, <1>4, <1>5, <1>6

\* The load ends with a complete file, and with the table that was saved unless something was lost.
LEMMA LoadReadInv ==
    ASSUME IndInv, LoadRead PROVE IndInv'
<1> USE DEF IndInv, LoadRead
<1>1. TypeOK'
  BY DEF TypeOK, Serve, UnlockFile, UnlockHash, aux, Torn, NoFile, Whole
<1>2. Phases'
  BY ThreadAssumption DEF Phases, Serve, Dumping, Threads
<1>3. FileHeld'
  BY DEF FileHeld, Serve, At, Running, Dumping, Threads
<1>4. Losses'
  BY NullAssumption DEF Losses, TypeOK, At, Running, aux
<1>5. Snaps'
  BY DEF Snaps, Phases, FileHeld, Serve, At, Running, aux
<1>6. FileWholeBetweenDumps'
  BY ThreadAssumption, NullAssumption DEF FileWholeBetweenDumps, TypeOK, Phases,
     FileHeld, Snaps, Serve, At, Running, UnlockFile, UnlockHash, aux, Loading, Dumping,
     Torn, NoFile, Whole, Threads
<1> QED BY <1>1, <1>2, <1>3, <1>4, <1>5, <1>6

\* A torn file at start-up means that something was lost already.
LEMMA LoadThrowsInv ==
    ASSUME IndInv, LoadThrows PROVE IndInv'
<1> USE DEF IndInv, LoadThrows
<1>1. TypeOK'
  BY DEF TypeOK, locks, aux
<1>2. Phases'
  BY DEF Phases, TypeOK, At, aux, Threads
<1>3. FileHeld'
  BY DEF FileHeld, locks
<1>4. Losses'
  BY DEF Losses, Phases, At, aux
<1>5. Snaps'
  BY DEF Snaps, TypeOK, Phases, At, aux
<1>6. FileWholeBetweenDumps'
  BY DEF FileWholeBetweenDumps, locks
<1> QED BY <1>1, <1>2, <1>3, <1>4, <1>5, <1>6

\* The dump thread takes dump_file_lock.
LEMMA DumpLockFileInv ==
    ASSUME IndInv, DumpLockFile PROVE IndInv'
<1> USE DEF IndInv, DumpLockFile
<1>1. TypeOK'
  BY DEF TypeOK, Goto, WrLockFile, aux, Threads
<1>2. Phases'
  BY DEF Phases, At, Goto, aux, Loading, Dumping
<1>3. FileHeld'
  BY ThreadAssumption DEF FileHeld, Goto, WrLockFile, Threads
<1>4. Losses'
  BY DEF Losses, aux
<1>5. Snaps'
  BY DEF Snaps, Goto, aux
<1>6. FileWholeBetweenDumps'
  BY DEF FileWholeBetweenDumps, WrLockFile
<1> QED BY <1>1, <1>2, <1>3, <1>4, <1>5, <1>6

\* The file is torn while the dump thread holds its lock.
LEMMA DumpOpenInv ==
    ASSUME IndInv, DumpOpen PROVE IndInv'
<1> USE DEF IndInv, DumpOpen
<1>1. TypeOK'
  BY DEF TypeOK, Goto, locks, aux
<1>2. Phases'
  BY DEF Phases, At, Goto, aux, Loading, Dumping
<1>3. FileHeld'
  BY DEF FileHeld, At, Goto, locks, Dumping
<1>4. Losses'
  BY DEF Losses, TypeOK, Phases, At, aux, Loading, Torn, NoFile, Threads
<1>5. Snaps'
  BY DEF Snaps, FileHeld, At, Running, Goto, aux, Dumping
<1>6. FileWholeBetweenDumps'
  BY ThreadAssumption DEF FileWholeBetweenDumps, FileHeld, At, locks, Dumping, Threads
<1> QED BY <1>1, <1>2, <1>3, <1>4, <1>5, <1>6

\* The dump thread takes bloom_hash_lock.
LEMMA DumpLockHashInv ==
    ASSUME IndInv, DumpLockHash PROVE IndInv'
<1> USE DEF IndInv, DumpLockHash
<1>1. TypeOK'
  BY DEF TypeOK, Goto, RdLockHash, aux, Threads
<1>2. Phases'
  BY DEF Phases, At, Goto, aux, Loading, Dumping
<1>3. FileHeld'
  BY DEF FileHeld, At, Goto, Dumping
<1>4. Losses'
  BY DEF Losses, aux
<1>5. Snaps'
  BY DEF Snaps, Goto, aux
<1>6. FileWholeBetweenDumps'
  BY DEF FileWholeBetweenDumps
<1> QED BY <1>1, <1>2, <1>3, <1>4, <1>5, <1>6

\* The dump thread serialises the table as it is.
LEMMA DumpWriteInv ==
    ASSUME IndInv, DumpWrite PROVE IndInv'
<1> USE DEF IndInv, DumpWrite
<1>1. TypeOK'
  BY DEF TypeOK, Goto, UnlockHash, aux
<1>2. Phases'
  BY DEF Phases, At, Goto, aux, Loading, Dumping
<1>3. FileHeld'
  BY DEF FileHeld, At, Goto, Dumping
<1>4. Losses'
  BY DEF Losses, aux
<1>5. Snaps'
  BY DEF Snaps, TypeOK, At, Running, Goto, aux
<1>6. FileWholeBetweenDumps'
  BY DEF FileWholeBetweenDumps
<1> QED BY <1>1, <1>2, <1>3, <1>4, <1>5, <1>6

\* The file is complete again, and what it holds is what was saved.
LEMMA DumpCloseInv ==
    ASSUME IndInv, DumpClose PROVE IndInv'
<1> USE DEF IndInv, DumpClose
<1>1. TypeOK'
  BY DEF TypeOK, Goto, UnlockFile, Threads
<1>2. Phases'
  BY DEF Phases, At, Goto, Loading, Dumping
<1>3. FileHeld'
  BY DEF FileHeld, TypeOK, At, Running, Goto, Dumping, Threads
<1>4. Losses'
  BY DEF Losses, Phases, Snaps, At, Loading, NoFile, Whole, Threads
<1>5. Snaps'
  BY DEF Snaps, FileHeld, At, Goto, Dumping
<1>6. FileWholeBetweenDumps'
  BY DEF FileWholeBetweenDumps, Whole
<1> QED BY <1>1, <1>2, <1>3, <1>4, <1>5, <1>6

\* A crash loses something only if it leaves a torn file.
LEMMA CrashInv ==
    ASSUME IndInv, Crash PROVE IndInv'
<1> USE DEF IndInv, Crash
<1>1. file.kind = "torn" => file = Torn
  BY DEF TypeOK, Torn, NoFile, Whole
<1>2. TypeOK'
  BY DEF TypeOK, Die
<1>3. Phases'
  BY DEF Phases, Die, Threads
<1>4. FileHeld'
  BY DEF FileHeld, Die, Dumping, Threads
<1>5. Losses'
  BY <1>1 DEF Losses, Die
<1>6. Snaps'
  BY DEF Snaps, Die
<1>7. FileWholeBetweenDumps'
  BY DEF FileWholeBetweenDumps, Die
<1> QED BY <1>2, <1>3, <1>4, <1>5, <1>6, <1>7

\* A worker picks up a request.
LEMMA WorkerBeginInv ==
    ASSUME IndInv, NEW w \in Workers, WorkerBegin(w) PROVE IndInv'
<1> USE DEF IndInv, WorkerBegin
<1>1. TypeOK'
  BY DEF TypeOK, Goto, WrLockHash, aux, Threads
<1>2. Phases'
  BY DEF Phases, TypeOK, At, Goto, Loading, Dumping, Threads
<1>3. FileHeld'
  BY DEF FileHeld, TypeOK, Goto, Dumping, Threads
<1>4. Losses'
  BY DEF Losses, aux
<1>5. Snaps'
  BY ThreadAssumption, NullAssumption DEF Snaps, TypeOK, Phases, FileHeld, At, Running,
     Goto, WrLockHash, aux, Loading, Dumping, Torn, NoFile, Whole, Threads
<1>6. FileWholeBetweenDumps'
  BY DEF FileWholeBetweenDumps
<1> QED BY <1>1, <1>2, <1>3, <1>4, <1>5, <1>6

\* The table grows, and what the handler must keep is still in it.
LEMMA WorkerPutInv ==
    ASSUME IndInv, NEW w \in Workers, WorkerPut(w) PROVE IndInv'
<1> USE DEF IndInv, WorkerPut
<1>1. TypeOK'
  BY DEF TypeOK, Phases, At, Goto, UnlockHash, aux
<1>2. Phases'
  BY NullAssumption DEF Phases, TypeOK, At, Goto, Loading, Dumping, Threads
<1>3. FileHeld'
  BY DEF FileHeld, Goto, Dumping
<1>4. Losses'
  BY NullAssumption DEF Losses, TypeOK, Phases, At, aux
<1>5. Snaps'
  BY NullAssumption DEF Snaps, TypeOK, Phases, At, Goto, aux
<1>6. FileWholeBetweenDumps'
  BY DEF FileWholeBetweenDumps
<1> QED BY <1>1, <1>2, <1>3, <1>4, <1>5, <1>6

\* What is taken out need not be kept any more.
LEMMA WorkerDropInv ==
    ASSUME IndInv, NEW w \in Workers, WorkerDrop(w) PROVE IndInv'
<1> USE DEF IndInv, WorkerDrop
<1>1. TypeOK'
  BY DEF TypeOK, Phases, At, Goto, UnlockHash
<1>2. Phases'
  BY NullAssumption DEF Phases, TypeOK, At, Goto, Loading, Dumping
<1>3. FileHeld'
  BY DEF FileHeld, Goto, Dumping
<1>4. Losses'
  BY NullAssumption DEF Losses, TypeOK
<1>5. Snaps'
  BY NullAssumption DEF Snaps, TypeOK, Phases, At, Goto
<1>6. FileWholeBetweenDumps'
  BY DEF FileWholeBetweenDumps
<1> QED BY <1>1, <1>2, <1>3, <1>4, <1>5, <1>6

\* What is in the table when the first handler begins is what must be kept.
LEMMA SignalInv ==
    ASSUME IndInv, NEW t \in Threads, Signal(t) PROVE IndInv'
<1> USE DEF IndInv, Signal
<1>1. TypeOK'
  BY DEF TypeOK, locks
<1>2. Phases'
  BY DEF Phases
<1>3. FileHeld'
  BY DEF FileHeld, locks
<1>4. Losses'
  BY DEF Losses, Phases
<1>5. Snaps'
  BY DEF Snaps
<1>6. FileWholeBetweenDumps'
  BY DEF FileWholeBetweenDumps, locks
<1> QED BY <1>1, <1>2, <1>3, <1>4, <1>5, <1>6

\* A handler takes dump_file_lock, which it never gives back.
LEMMA HandlerLockFileInv ==
    ASSUME IndInv, NEW t \in Threads, HandlerLockFile(t) PROVE IndInv'
<1> USE DEF IndInv, HandlerLockFile
<1>1. TypeOK'
  BY DEF TypeOK, HGoto, WrLockFile, aux
<1>2. Phases'
  BY DEF Phases, HAt, HGoto, aux
<1>3. FileHeld'
  BY ThreadAssumption DEF FileHeld, HGoto, WrLockFile, Threads
<1>4. Losses'
  BY DEF Losses, HAt, HGoto, aux
<1>5. Snaps'
  BY DEF Snaps, HAt, HGoto, aux
<1>6. FileWholeBetweenDumps'
  BY DEF FileWholeBetweenDumps, WrLockFile
<1> QED BY <1>1, <1>2, <1>3, <1>4, <1>5, <1>6

\* The file is torn while a handler holds its lock.
LEMMA HandlerOpenInv ==
    ASSUME IndInv, NEW t \in Threads, HandlerOpen(t) PROVE IndInv'
<1> USE DEF IndInv, HandlerOpen
<1>1. TypeOK'
  BY DEF TypeOK, HGoto, locks, aux
<1>2. Phases'
  BY ThreadAssumption, NullAssumption DEF Phases, TypeOK, FileHeld, Snaps, HAt, HGoto,
     locks, aux, Loading, Dumping, Torn, NoFile, Whole, Threads
<1>3. FileHeld'
  BY DEF FileHeld, HAt, HGoto, locks
<1>4. Losses'
  BY DEF Losses, TypeOK, Phases, HAt, aux, Torn, NoFile
<1>5. Snaps'
  BY DEF Snaps, FileHeld, HAt, HGoto, aux
<1>6. FileWholeBetweenDumps'
  BY ThreadAssumption DEF FileWholeBetweenDumps, FileHeld, HAt, locks
<1> QED BY <1>1, <1>2, <1>3, <1>4, <1>5, <1>6

\* A handler takes bloom_hash_lock.
LEMMA HandlerLockHashInv ==
    ASSUME IndInv, NEW t \in Threads, HandlerLockHash(t) PROVE IndInv'
<1> USE DEF IndInv, HandlerLockHash
<1>1. TypeOK'
  BY DEF TypeOK, HGoto, RdLockHash, aux
<1>2. Phases'
  BY DEF Phases, HAt, HGoto, aux
<1>3. FileHeld'
  BY DEF FileHeld, HAt, HGoto
<1>4. Losses'
  BY DEF Losses, HAt, HGoto, aux
<1>5. Snaps'
  BY DEF Snaps, HAt, HGoto, aux
<1>6. FileWholeBetweenDumps'
  BY DEF FileWholeBetweenDumps
<1> QED BY <1>1, <1>2, <1>3, <1>4, <1>5, <1>6

\* A handler serialises the table, with or without the change of the worker below it.
LEMMA HandlerWriteInv ==
    ASSUME IndInv, NEW t \in Threads, HandlerWrite(t) PROVE IndInv'
<1> USE DEF IndInv, HandlerWrite
<1>1. TypeOK'
  BY DEF TypeOK, Phases, HGoto, UnlockHash, Loading, Dumping, Threads
<1>2. Phases'
  BY DEF Phases, HAt, HGoto
<1>3. FileHeld'
  BY DEF FileHeld, HAt, HGoto
<1>4. Losses'
  BY DEF Losses, HAt, HGoto
<1>5. Snaps'
  BY NullAssumption DEF Snaps, TypeOK, Phases, HAt, HGoto, Loading, Dumping, Threads
<1>6. FileWholeBetweenDumps'
  BY DEF FileWholeBetweenDumps
<1> QED BY <1>1, <1>2, <1>3, <1>4, <1>5, <1>6

\* The file is complete, and a null table gets into it only when something was lost.
LEMMA HandlerCloseInv ==
    ASSUME IndInv, NEW t \in Threads, HandlerClose(t) PROVE IndInv'
<1> USE DEF IndInv, HandlerClose
<1>1. TypeOK'
  BY DEF TypeOK, HGoto, locks
<1>2. Phases'
  BY DEF Phases, HAt, HGoto
<1>3. FileHeld'
  BY DEF FileHeld, HAt, HGoto, locks
<1>4. Losses'
  BY DEF Losses, TypeOK, Phases, Snaps, HAt, NoFile, Whole
<1>5. Snaps'
  BY DEF Snaps, FileHeld, HAt, HGoto
<1>6. FileWholeBetweenDumps'
  BY DEF FileWholeBetweenDumps, Whole
<1> QED BY <1>1, <1>2, <1>3, <1>4, <1>5, <1>6

\* exit() leaves the file as the handler wrote it.
LEMMA ExitInv ==
    ASSUME IndInv, NEW t \in Threads, Exit(t) PROVE IndInv'
<1> USE DEF IndInv, Exit
<1>1. TypeOK'
  BY DEF TypeOK, Die
<1>2. Phases'
  BY DEF Phases, Die, Threads
<1>3. FileHeld'
  BY DEF FileHeld, Die, Dumping, Threads
<1>4. Losses'
  BY DEF Losses, Snaps, Die, HAt, Whole
<1>5. Snaps'
  BY DEF Snaps, Die
<1>6. FileWholeBetweenDumps'
  BY DEF FileWholeBetweenDumps, Die
<1> QED BY <1>1, <1>2, <1>3, <1>4, <1>5, <1>6

\* A step that changes nothing.
LEMMA StutterInv == ASSUME IndInv, UNCHANGED vars PROVE IndInv'
<1> USE DEF IndInv, vars, locks, aux
<1>1. TypeOK'
  BY DEF TypeOK
<1>2. Phases' /\ FileHeld'
  BY DEF Phases, FileHeld
<1>3. Losses' /\ Snaps' /\ FileWholeBetweenDumps'
  BY DEF Losses, Snaps, FileWholeBetweenDumps
<1> QED BY <1>1, <1>2, <1>3

\* Every step preserves the invariant.
LEMMA NextInv == IndInv /\ [Next]_vars => IndInv'
<1> SUFFICES ASSUME IndInv, [Next]_vars PROVE IndInv'
  OBVIOUS
<1>1. CASE UNCHANGED vars
  BY <1>1, StutterInv
<1>2. CASE Boot \/ Crash
  BY <1>2, BootInv, CrashInv
<1>3. CASE MainStep
  BY <1>3, InitFreshInv, LoadLockFileInv, LoadLockHashInv, LoadReadInv, LoadThrowsInv DEF MainStep
<1>4. CASE DumpStep
  BY <1>4, DumpLockFileInv, DumpOpenInv, DumpLockHashInv, DumpWriteInv, DumpCloseInv DEF DumpStep
<1>5. CASE \E w \in Workers : WorkerBegin(w) \/ WorkerStep(w)
  BY <1>5, WorkerBeginInv, WorkerPutInv, WorkerDropInv DEF WorkerStep
<1>6. CASE \E t \in Threads : Signal(t) \/ HandlerStep(t)
  <2> PICK t \in Threads : Signal(t) \/ HandlerStep(t)
    BY <1>6
  <2> QED BY SignalInv, HandlerLockFileInv, HandlerOpenInv, HandlerLockHashInv, HandlerWriteInv,
             HandlerCloseInv, ExitInv DEF HandlerStep
<1> QED BY <1>1, <1>2, <1>3, <1>4, <1>5, <1>6 DEF Next

\* The invariant holds in every reachable state.
LEMMA Invariant == Spec => []IndInv
<1> QED BY InitInv, NextInv, PTL DEF Spec

-----------------------------------------------------------------------------
(* The theorems *)

\* The state keeps its shape, for any number of workers and entries.
THEOREM TypeCorrect == Spec => []TypeOK
<1>1. IndInv => TypeOK
  BY DEF IndInv
<1> QED BY Invariant, <1>1, PTL

\* Whoever finds dump_file_lock free while the server runs finds a complete
\* file.txt, whatever dumps, handlers and crashes there were before.
THEOREM FileAlwaysWhole == Spec => []FileWholeBetweenDumps
<1>1. IndInv => FileWholeBetweenDumps
  BY DEF IndInv
<1> QED BY Invariant, <1>1, PTL

\* The server comes up only in InitFresh and LoadRead.
LEMMA ComesUp ==
    ASSUME Next, phase = "starting", phase' = "up" PROVE InitFresh \/ LoadRead
<1>1. CASE Boot \/ Crash
  BY <1>1 DEF Boot, Crash, Die
<1>2. CASE MainStep
  BY <1>2 DEF MainStep, LoadLockFile, LoadLockHash, LoadThrows
<1>3. CASE DumpStep
  BY <1>3 DEF DumpStep, DumpLockFile, DumpOpen, DumpLockHash, DumpWrite, DumpClose
<1>4. CASE \E w \in Workers : WorkerBegin(w) \/ WorkerStep(w)
  BY <1>4 DEF WorkerStep, WorkerBegin, WorkerPut, WorkerDrop
<1>5. CASE \E t \in Threads : Signal(t) \/ HandlerStep(t)
  BY <1>5 DEF HandlerStep, Signal, HandlerLockFile, HandlerOpen, HandlerLockHash, HandlerWrite,
              HandlerClose, Exit, Die
<1> QED BY <1>1, <1>2, <1>3, <1>4, <1>5 DEF Next

\* A restart brings back the table of the last complete dump, unless one of the
\* events that `spoilt` names came in between: no order of dumps, signals on
\* several threads and failed loads loses it otherwise.
THEOREM RestartAlwaysRestores == Spec => RestartRestores
<1>1. IndInv /\ [Next]_vars => [phase = "starting" /\ phase' = "up" /\ ~ spoilt => table' = saved]_vars
  <2> SUFFICES ASSUME IndInv, Next, phase = "starting", phase' = "up", ~spoilt
               PROVE  table' = saved
    BY DEF vars
  <2>1. CASE InitFresh
    BY <2>1 DEF InitFresh, IndInv, Losses
  <2>2. CASE LoadRead
    BY <2>2 DEF LoadRead, IndInv, Losses
  <2> QED BY <2>1, <2>2, ComesUp
<1> QED BY Invariant, <1>1, PTL DEF Spec, RestartRestores

\* A handler that exits a server with a table leaves a complete file.txt with
\* every entry that was in the table from the signal to the exit.
THEOREM ExitAlwaysSaves == Spec => ExitSavesTable
<1> DEFINE Saves == (\E t \in Threads : hpc[t] = "exit") /\ phase' = "down" /\ phase = "up"
                       /\ table # Null => file.kind = "whole" /\ keep \subseteq file.data
<1>1. IndInv /\ [Next]_vars => [Saves]_vars
  <2> SUFFICES ASSUME IndInv, NEW t \in Threads, hpc[t] = "exit", table # Null
               PROVE  file.kind = "whole" /\ keep \subseteq file.data
    OBVIOUS
  <2>1. file = Whole(snap[t]) /\ keep \subseteq snap[t]
    BY DEF IndInv, Snaps
  <2> QED BY <2>1 DEF Whole
<1> QED BY Invariant, <1>1, PTL DEF Spec, ExitSavesTable

-----------------------------------------------------------------------------
(* Nobody waits in a circle. *)

\* A lock is held by a thread that has a use for it.
FileUsed == fileW # NoThread =>
                \/ pc[fileW] \in {"open", "dump_hash", "dump_write", "close", "load_hash", "load_read"}
                \/ hpc[fileW] \in {"open", "hash", "write", "close", "exit"}
HashUsed == hashW # NoThread => pc[hashW] \in {"put", "drop", "load_read"}

\* As long as the main thread loads the table it is alone.
LEMMA LoadsAlone ==
    ASSUME IndInv, phase # "down", pc[Main] \in Loading
    PROVE  \A t \in Threads : t # Main => pc[t] = "gone" /\ hpc[t] = "off"
<1>1. phase = "starting"
  BY DEF IndInv, TypeOK, Phases, Loading
<1> QED BY <1>1 DEF IndInv, Phases

\* No lock is held at first, and every step that ends a use of a lock releases
\* it; a handler that is given its thread's lock keeps it to the exit.
LEMMA FileUsedStep == IndInv /\ FileUsed /\ [Next]_vars => FileUsed'
<1> SUFFICES ASSUME IndInv, FileUsed, [Next]_vars PROVE FileUsed'
  OBVIOUS
<1> USE DEF FileUsed, Goto, HGoto, At, HAt, Running
<1>a. /\ TypeOK /\ Phases
      /\ pc \in [Threads -> {"gone", "start", "load_hash", "load_read", "serving", "idle", "put",
                             "drop", "sleep", "open", "dump_hash", "dump_write", "close"}]
      /\ hpc \in [Threads -> {"off", "file", "open", "hash", "write", "close", "exit"}]
      /\ fileW \in Threads \cup {NoThread}
      /\ Main \in Threads /\ Dumper \in Threads /\ Workers \subseteq Threads
      /\ NoThread \notin Threads /\ Main # Dumper /\ Main \notin Workers /\ Dumper \notin Workers
  BY ThreadAssumption DEF IndInv, TypeOK, Threads
<1>1. CASE Boot
  <2>1. pc[Main] = "gone" /\ fileW' = fileW /\ hpc' = hpc
    BY <1>1, <1>a DEF Boot, Phases, locks
  <2> QED BY <1>1, <1>a, <2>1 DEF Boot
<1>2. CASE InitFresh
  <2>1. pc[Main] = "start" /\ hpc[Main] = "off" /\ phase # "down"
    BY <1>2 DEF InitFresh
  <2>2. \A t \in Threads : t # Main => pc[t] = "gone" /\ hpc[t] = "off"
    BY <2>1, LoadsAlone DEF Loading
  <2>3. fileW = NoThread
    BY <1>a, <2>1, <2>2
  <2> QED BY <1>2, <2>3 DEF InitFresh, locks
<1>3. CASE LoadLockFile
  BY <1>3, <1>a DEF LoadLockFile, WrLockFile
<1>4. CASE LoadLockHash
  BY <1>4, <1>a DEF LoadLockHash
<1>5. CASE LoadRead
  <2>1. fileW = Main
    BY <1>5 DEF IndInv, FileHeld, LoadRead
  <2> QED BY <1>5, <2>1 DEF LoadRead, UnlockFile
<1>6. CASE LoadThrows
  BY <1>6, <1>a DEF LoadThrows, locks
<1>7. CASE DumpLockFile
  BY <1>7, <1>a DEF DumpLockFile, WrLockFile
<1>8. CASE DumpOpen
  BY <1>8, <1>a DEF DumpOpen, locks
<1>9. CASE DumpLockHash
  BY <1>9, <1>a DEF DumpLockHash
<1>10. CASE DumpWrite
  BY <1>10, <1>a DEF DumpWrite
<1>11. CASE DumpClose
  BY <1>11, <1>a DEF DumpClose, UnlockFile
<1>12. CASE Crash
  BY <1>12 DEF Crash, Die
<1>13. ASSUME NEW w \in Workers, WorkerBegin(w) PROVE FileUsed'
  BY <1>13, <1>a DEF WorkerBegin
<1>14. ASSUME NEW w \in Workers, WorkerStep(w) PROVE FileUsed'
  BY <1>14, <1>a DEF WorkerStep, WorkerPut, WorkerDrop
<1>15. ASSUME NEW t \in Threads, Signal(t) PROVE FileUsed'
  BY <1>15, <1>a DEF Signal, locks
<1>16. ASSUME NEW t \in Threads, HandlerLockFile(t) PROVE FileUsed'
  BY <1>16, <1>a DEF HandlerLockFile, WrLockFile
<1>17. ASSUME NEW t \in Threads, HandlerOpen(t) PROVE FileUsed'
  BY <1>17, <1>a DEF HandlerOpen, locks
<1>18. ASSUME NEW t \in Threads, HandlerLockHash(t) PROVE FileUsed'
  BY <1>18, <1>a DEF HandlerLockHash
<1>19. ASSUME NEW t \in Threads, HandlerWrite(t) PROVE FileUsed'
  BY <1>19, <1>a DEF HandlerWrite
<1>20. ASSUME NEW t \in Threads, HandlerClose(t) PROVE FileUsed'
  BY <1>20, <1>a DEF HandlerClose, locks
<1>21. ASSUME NEW t \in Threads, Exit(t) PROVE FileUsed'
  BY <1>21 DEF Exit, Die
<1>22. CASE UNCHANGED vars
  BY <1>22 DEF vars, locks
<1> QED BY <1>1, <1>2, <1>3, <1>4, <1>5, <1>6, <1>7, <1>8, <1>9, <1>10, <1>11, <1>12, <1>13,
           <1>14, <1>15, <1>16, <1>17, <1>18, <1>19, <1>20, <1>21, <1>22
        DEF Next, MainStep, DumpStep, HandlerStep

LEMMA HashUsedStep == IndInv /\ HashUsed /\ [Next]_vars => HashUsed'
<1> SUFFICES ASSUME IndInv, HashUsed, [Next]_vars PROVE HashUsed'
  OBVIOUS
<1> USE DEF HashUsed, Goto, HGoto, At, HAt, Running
<1>a. /\ TypeOK /\ Phases
      /\ pc \in [Threads -> {"gone", "start", "load_hash", "load_read", "serving", "idle", "put",
                             "drop", "sleep", "open", "dump_hash", "dump_write", "close"}]
      /\ hashW \in Threads \cup {NoThread}
      /\ Main \in Threads /\ Dumper \in Threads /\ Workers \subseteq Threads
      /\ NoThread \notin Threads /\ Main # Dumper /\ Main \notin Workers /\ Dumper \notin Workers
  BY ThreadAssumption DEF IndInv, TypeOK, Threads
<1>1. CASE Boot
  <2>1. pc[Main] = "gone" /\ hashW' = hashW
    BY <1>1, <1>a DEF Boot, Phases, locks
  <2> QED BY <1>1, <1>a, <2>1 DEF Boot
<1>2. CASE InitFresh
  <2>1. pc[Main] = "start" /\ phase # "down"
    BY <1>2 DEF InitFresh
  <2>2. \A t \in Threads : t # Main => pc[t] = "gone"
    BY <2>1, LoadsAlone DEF Loading
  <2>3. hashW = NoThread
    BY <1>a, <2>1, <2>2
  <2> QED BY <1>2, <2>3 DEF InitFresh, locks
<1>3. CASE LoadLockFile
  BY <1>3, <1>a DEF LoadLockFile
<1>4. CASE LoadLockHash
  BY <1>4, <1>a DEF LoadLockHash, WrLockHash
<1>5. CASE LoadRead
  <2>1. pc[Main] = "load_read" /\ phase # "down"
    BY <1>5 DEF LoadRead
  <2>2. \A t \in Threads : t # Main => pc[t] = "gone"
    BY <2>1, LoadsAlone DEF Loading
  <2>3. hashW \in {Main, NoThread}
    BY <1>a, <2>2
  <2> QED BY <1>5, <2>3 DEF LoadRead, UnlockHash
<1>6. CASE LoadThrows
  BY <1>6, <1>a DEF LoadThrows, locks
<1>7. CASE DumpLockFile
  BY <1>7, <1>a DEF DumpLockFile
<1>8. CASE DumpOpen
  BY <1>8, <1>a DEF DumpOpen, locks
<1>9. CASE DumpLockHash
  BY <1>9, <1>a DEF DumpLockHash, RdLockHash
<1>10. CASE DumpWrite
  BY <1>10, <1>a DEF DumpWrite, UnlockHash
<1>11. CASE DumpClose
  BY <1>11, <1>a DEF DumpClose
<1>12. CASE Crash
  BY <1>12 DEF Crash, Die
<1>13. ASSUME NEW w \in Workers, WorkerBegin(w) PROVE HashUsed'
  BY <1>13, <1>a DEF WorkerBegin, WrLockHash
<1>14. ASSUME NEW w \in Workers, WorkerStep(w) PROVE HashUsed'
  BY <1>14, <1>a DEF WorkerStep, WorkerPut, WorkerDrop, UnlockHash
<1>15. ASSUME NEW t \in Threads, Signal(t) PROVE HashUsed'
  BY <1>15, <1>a DEF Signal, locks
<1>16. ASSUME NEW t \in Threads, HandlerLockFile(t) PROVE HashUsed'
  BY <1>16, <1>a DEF HandlerLockFile
<1>17. ASSUME NEW t \in Threads, HandlerOpen(t) PROVE HashUsed'
  BY <1>17, <1>a DEF HandlerOpen, locks
<1>18. ASSUME NEW t \in Threads, HandlerLockHash(t) PROVE HashUsed'
  BY <1>18, <1>a DEF HandlerLockHash, RdLockHash
<1>19. ASSUME NEW t \in Threads, HandlerWrite(t) PROVE HashUsed'
  BY <1>19, <1>a DEF HandlerWrite, UnlockHash
<1>20. ASSUME NEW t \in Threads, HandlerClose(t) PROVE HashUsed'
  BY <1>20, <1>a DEF HandlerClose, locks
<1>21. ASSUME NEW t \in Threads, Exit(t) PROVE HashUsed'
  BY <1>21 DEF Exit, Die
<1>22. CASE UNCHANGED vars
  BY <1>22 DEF vars, locks
<1> QED BY <1>1, <1>2, <1>3, <1>4, <1>5, <1>6, <1>7, <1>8, <1>9, <1>10, <1>11, <1>12, <1>13,
           <1>14, <1>15, <1>16, <1>17, <1>18, <1>19, <1>20, <1>21, <1>22
        DEF Next, MainStep, DumpStep, HandlerStep

\* While only the main thread has been taken over, a lock that a handler or the
\* dump thread waits for belongs to a thread inside its section: a worker
\* there waits for nobody, and blooms_dump, with dump_file_lock, for a worker
\* at most.
LEMMA CircleExcluded == IndInv /\ FileUsed /\ HashUsed => NoWaitCircle
<1> SUFFICES ASSUME IndInv, FileUsed, HashUsed, \A t \in Threads \ {Main} : hpc[t] = "off",
                    NEW u \in Threads, NEW v \in Threads, HoldsUp(u, Main)
             PROVE  /\ InSection(u)
                    /\ HoldsUp(v, u) => InSection(v) /\ \A t \in Threads : ~HoldsUp(t, v)
  BY DEF NoWaitCircle
<1>a. /\ TypeOK /\ Phases /\ Main \in Threads /\ Dumper \in Threads /\ NoThread \notin Threads
      /\ phase \in {"down", "starting", "up"}
      /\ \A t \in Threads : t = Main \/ t = Dumper \/ t \in Workers
      /\ Main # Dumper /\ Main \notin Workers /\ Dumper \notin Workers
  BY ThreadAssumption DEF IndInv, TypeOK, Threads
<1>1. u # Main /\ phase # "down" /\ hpc[u] = "off"
  BY DEF HoldsUp, HAt, At, Running
<1>2. ASSUME NEW t \in Threads, t # Main, t = fileW \/ t = hashW
      PROVE  phase = "up" /\ hpc[t] = "off"
             /\ pc[t] \in {"put", "drop", "open", "dump_hash", "dump_write", "close"}
  <2>1. hpc[t] = "off" /\ pc[t] \in {"put", "drop", "open", "dump_hash", "dump_write", "close",
                                     "load_hash", "load_read"}
    BY <1>2, <1>a DEF FileUsed, HashUsed
  <2>2. phase = "up"
    BY <1>2, <1>a, <2>1 DEF Phases
  <2>3. pc[t] \notin {"load_hash", "load_read"}
    BY <1>2, <1>a, <2>2 DEF Phases, Dumping
  <2> QED BY <2>1, <2>2, <2>3
<1>3. u = fileW \/ u = hashW
  BY DEF HoldsUp
<1>4. InSection(u)
  BY <1>1, <1>2, <1>3 DEF InSection, Running
<1>5. ASSUME HoldsUp(v, u)
      PROVE  InSection(v) /\ \A t \in Threads : ~HoldsUp(t, v)
  <2>1. v # u /\ v = hashW /\ pc[u] = "dump_hash"
    BY <1>1, <1>4, <1>5 DEF HoldsUp, HAt, At, InSection
  <2>2. phase = "up" /\ v # NoThread
    BY <1>1, <1>2, <1>3, <1>a
  <2>3. pc[v] \in {"put", "drop", "load_read"}
    BY <2>1, <2>2 DEF HashUsed
  <2>4. pc[Main] = "serving"
    BY <1>a, <2>2 DEF Phases
  <2>5. v # Main /\ hpc[v] = "off"
    BY <2>3, <2>4
  <2>6. pc[v] \in {"put", "drop"}
    BY <1>2, <2>1, <2>3, <2>5
  <2> QED BY <2>2, <2>5, <2>6 DEF InSection, Running, HoldsUp, HAt, At
<1> QED BY <1>4, <1>5

\* The safety part of MainSignalEnds: a handler on the main thread is not caught
\* in a circle of waiting threads, however many workers there are.
THEOREM NeverInCircle == Spec => []NoWaitCircle
<1>1. Init => FileUsed /\ HashUsed
  BY DEF Init, FileUsed, HashUsed
<1>2. IndInv /\ (FileUsed /\ HashUsed) /\ [Next]_vars => (FileUsed /\ HashUsed)'
  BY FileUsedStep, HashUsedStep
<1> QED BY Invariant, CircleExcluded, <1>1, <1>2, PTL DEF Spec
=============================================================================
