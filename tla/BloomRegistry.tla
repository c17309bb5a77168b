---------------------------- MODULE BloomRegistry ----------------------------
(***************************************************************************)
(* The table of named bloom filters of src/module/bloomfilter, at the      *)
(* granularity of its locks.  Worker threads of the thrift server call     *)
(* blooms_add, blooms_set, blooms_get and blooms_delete on one table; the  *)
(* table is guarded by bloom_hash_lock, a list that is no longer filled by *)
(* bloom_dlist_lock, and the totals blooms->count and blooms->bytes are    *)
(* updated by blooms_add after it has released bloom_hash_lock.            *)
(*                                                                         *)
(* Everything a thread does between two accesses to state that some other  *)
(* thread may touch at the same time is one step: a walk along a chain is  *)
(* one step because chains change only under the write lock, while an      *)
(* unlocked x++ is a load and a store.                                     *)
(***************************************************************************)
EXTENDS Integers, Sequences, FiniteSets

CONSTANTS
    Threads,     \* the worker threads of the thrift server
    NoThread,    \* the holder of a lock nobody holds
    Keys,        \* names of filters (sourceId)
    Subkeys,     \* the urls put into filters
    Buckets,     \* indices of blooms->hashtable
    Hv,          \* Hv[k]: dictGenHashFunction(k) & hashmask(power)
    Sizes,       \* the (n, e) pairs clients ask for
    BloomBytes,  \* BloomBytes[n]: what calculate() returns for n
    MapBits,     \* MapBits[n]: the m of calculate(), the bits of the map
    Probe,       \* Probe[n][s]: the k bit positions of s in a map for n
    MaxBytes,    \* blooms->max_bytes
    WordMod,     \* 2^w for the width w of size_t
    Calls,       \* Calls[t]: the calls clients issue to thread t
    MaxCalls,    \* bound: calls issued in one behaviour
    AllocFails   \* may malloc return NULL and `new std::vector<int>` throw

ASSUME ThreadAssumption == NoThread \notin Threads
ASSUME HvAssumption == Hv \in [Keys -> Buckets]
ASSUME SizeAssumption ==
    /\ WordMod \in Nat \ {0}
    /\ MaxBytes \in 0 .. WordMod - 1
    /\ BloomBytes \in [Sizes -> 0 .. WordMod - 1]
    /\ MapBits \in [Sizes -> Nat]
    /\ MaxCalls \in Nat
    /\ AllocFails \in BOOLEAN
ASSUME ProbeAssumption ==
    /\ Probe \in [Sizes -> [Subkeys -> Seq(Nat)]]
    /\ \A n \in Sizes, s \in Subkeys :
          \A i \in 1 .. Len(Probe[n][s]) : Probe[n][s][i] < MapBits[n]

AddCall == [op : {"add"}, key : Keys, n : Sizes]
SetCall == [op : {"set"}, key : Keys, sub : Subkeys]
GetCall == [op : {"get"}, key : Keys, sub : Subkeys]
DelCall == [op : {"delete"}, key : Keys]
Call == AddCall \cup SetCall \cup GetCall \cup DelCall

NoCall == [op |-> "none"]

ASSUME CallsAssumption == Calls \in [Threads -> SUBSET Call]

VARIABLES
    hashtable,       \* hashtable[h]: the chain of bucket h, head first
    bloom,           \* the bloom_t structs ever allocated; none is ever freed
    count,           \* blooms->count
    bytes,           \* blooms->bytes
    hashW, hashR,    \* bloom_hash_lock: its writer and its readers
    dlistW,          \* bloom_dlist_lock: its writer
    bloom_get_addr,  \* the global through which bloom_get reads a map
    pc,              \* where each thread is
    call,            \* the call a thread is executing, or executed last
    cur,             \* the local `bloom` pointer, 0 when NULL
    idx,             \* the loop counter of bloom_get
    tmp,             \* the register of an unlocked read-modify-write
    res,             \* the value of the last call, once it is decided
    overlap,         \* auxiliary: did a get on another filter overlap this get
    ncalls           \* calls issued so far

table == <<hashtable, bloom>>
totals == <<count, bytes>>
locks == <<hashW, hashR, dlistW>>
locals == <<call, cur, idx, tmp, overlap>>
vars == <<table, totals, locks, bloom_get_addr, pc, locals, res, ncalls>>

-----------------------------------------------------------------------------
(* Chains *)

BloomIds == 1 .. Len(bloom)

\* The filters of bucket h that the walk `while (bloom)` stops at for key k.
Matches(h, k) == {i \in 1 .. Len(hashtable[h]) : bloom[hashtable[h][i]].key = k}

\* The position the walk stops at: the first match from the head.
FirstMatch(h, k) == CHOOSE i \in Matches(h, k) : \A j \in Matches(h, k) : i <= j

\* Mutant of Lookup: the walk stops at the head of the chain.
LookupHeadOnly(k) ==
    LET chain == hashtable[Hv[k]] IN
    IF chain # <<>> /\ bloom[chain[1]].key = k THEN chain[1] ELSE 0

\* The filter the walk for k finds, 0 (NULL) when it reaches the end.
Lookup(k) == IF Matches(Hv[k], k) = {} THEN 0
             ELSE hashtable[Hv[k]][FirstMatch(Hv[k], k)]

\* Mutant of Unlink: the head goes, whichever element matched.
UnlinkHead(chain, i) == Tail(chain)

\* Unlinking position i from a chain.
Unlink(chain, i) ==
    [j \in 1 .. Len(chain) - 1 |-> IF j < i THEN chain[j] ELSE chain[j + 1]]

\* The filters reachable from the table.
Linked == {b \in BloomIds :
             \E h \in Buckets : \E i \in 1 .. Len(hashtable[h]) : hashtable[h][i] = b}

-----------------------------------------------------------------------------
(* Locks.  The default pthread rwlock gives no order among the waiters.  A *)
(* thread that already holds the lock for writing gets EDEADLK back, which *)
(* no caller looks at, and goes on.                                        *)

WrLockHash(t) == /\ \/ hashW = NoThread /\ hashR = {}
                    \/ hashW = t
                 /\ hashW' = t /\ UNCHANGED hashR

RdLockHash(t) == \/ hashW = NoThread /\ hashR' = hashR \cup {t} /\ UNCHANGED hashW
                 \/ hashW = t /\ UNCHANGED <<hashW, hashR>>

UnlockHash(t) == \/ hashW = t /\ hashW' = NoThread /\ UNCHANGED hashR
                 \/ hashW # t /\ hashR' = hashR \ {t} /\ UNCHANGED hashW

Goto(t, label) == pc' = [pc EXCEPT ![t] = label]

\* The value the call will return is known.
Answer(t, v) == res' = [res EXCEPT ![t] = v]

\* The call returns, and its locals go with it.
Leave(t) == /\ Goto(t, "idle")
            /\ call' = [call EXCEPT ![t] = NoCall]
            /\ cur' = [cur EXCEPT ![t] = 0]
            /\ idx' = [idx EXCEPT ![t] = 0]
            /\ tmp' = [tmp EXCEPT ![t] = 0]
            /\ overlap' = [overlap EXCEPT ![t] = FALSE]

-----------------------------------------------------------------------------
(* Steps several functions share *)

\* wr_lock(&bloom_hash_lock)
LockHash(t, here, there) ==
    /\ pc[t] = here /\ WrLockHash(t) /\ Goto(t, there)
    /\ UNCHANGED <<table, totals, dlistW, bloom_get_addr, locals, res, ncalls>>

\* wr_lock(&bloom_dlist_lock)
LockDlist(t, here, there) ==
    /\ pc[t] = here /\ dlistW = NoThread /\ dlistW' = t /\ Goto(t, there)
    /\ UNCHANGED <<table, totals, hashW, hashR, bloom_get_addr, locals, res, ncalls>>

\* The load of an unlocked read-modify-write of x.
Load(t, here, there, x) ==
    /\ pc[t] = here /\ tmp' = [tmp EXCEPT ![t] = x] /\ Goto(t, there)
    /\ UNCHANGED <<table, totals, locks, bloom_get_addr, call, cur, idx, overlap, res, ncalls>>

\* rw_unlock(&bloom_hash_lock); return v
UnlockReturn(t, v) ==
    /\ UnlockHash(t) /\ Answer(t, v) /\ Leave(t)
    /\ UNCHANGED <<table, totals, dlistW, bloom_get_addr, ncalls>>

\* rw_unlock(&bloom_dlist_lock), and the return that follows it
UnlockDlistLeave(t, here) ==
    /\ pc[t] = here /\ dlistW' = NoThread /\ Leave(t)
    /\ UNCHANGED <<table, totals, hashW, hashR, bloom_get_addr, res, ncalls>>

\* size_t arithmetic.
SizeMinusSigned(x, y) == x - y   \* mutant of SizeMinus: int64_t instead of size_t
SizeMinus(x, y) == (x - y) % WordMod
SizePlus(x, y) == (x + y) % WordMod

-----------------------------------------------------------------------------
(* A worker thread takes a request off the thrift server. *)

Entry == [add |-> "add_lock", set |-> "set_lock", get |-> "get_lock", delete |-> "del_lock"]

Invoke(t) ==
    /\ pc[t] = "idle"
    /\ ncalls < MaxCalls
    /\ \E c \in Calls[t] : /\ call' = [call EXCEPT ![t] = c]
                          /\ Goto(t, Entry[c.op])
    /\ ncalls' = ncalls + 1
    /\ UNCHANGED <<table, totals, locks, bloom_get_addr, cur, idx, tmp, res, overlap>>

-----------------------------------------------------------------------------
(* blooms_add, with bloom_init *)

\* Mutant of AddLock: no lock around the walk and the insertion.
AddLockDropped(t) ==
    /\ pc[t] = "add_lock" /\ Goto(t, "add_init")
    /\ UNCHANGED <<table, totals, locks, bloom_get_addr, locals, res, ncalls>>

AddLock(t) == LockHash(t, "add_lock", "add_init")

\* Mutant of AddExists: the early return forgets the unlock.
AddExistsKeepsLock(t) ==
    /\ pc[t] = "add_init" /\ Lookup(call[t].key) # 0
    /\ Answer(t, 1) /\ Leave(t)
    /\ UNCHANGED <<table, totals, locks, bloom_get_addr, ncalls>>

\* The walk finds the key.
AddExists(t) == /\ pc[t] = "add_init" /\ Lookup(call[t].key) # 0
                /\ UnlockReturn(t, 1)

\* Mutant of Fits: the size is compared with the limit, not with what is left.
FitsAlone(n) == BloomBytes[n] # 0 /\ BloomBytes[n] <= MaxBytes

\* bloom_init's two tests on the size.
Fits(n) == BloomBytes[n] # 0 /\ BloomBytes[n] <= SizeMinus(MaxBytes, bytes)

\* bloom_init returns NULL: the size is refused, or malloc fails.
AddRefused(t) == /\ pc[t] = "add_init" /\ Lookup(call[t].key) = 0
                 /\ ~ Fits(call[t].n) \/ AllocFails
                 /\ UnlockReturn(t, 2)

\* What bloom_init builds.
NewBloom(c) == [key |-> c.key, n |-> c.n, bytes |-> BloomBytes[c.n],
                bits |-> {}, subs |-> {}, live |-> TRUE]

\* The new filter becomes the head of its chain.
PushAlone(chain, b) == <<b>>   \* mutant of Push: hash_next is not set
Push(chain, b) == <<b>> \o chain

\* bloom_init succeeds: link, unlock.
AddLink(t) ==
    LET c == call[t]
        b == Len(bloom) + 1
    IN  /\ pc[t] = "add_init"
        /\ Lookup(c.key) = 0
        /\ Fits(c.n)
        /\ bloom' = Append(bloom, NewBloom(c))
        /\ hashtable' = [hashtable EXCEPT ![Hv[c.key]] = Push(@, b)]
        /\ cur' = [cur EXCEPT ![t] = b]
        /\ UnlockHash(t)
        /\ Answer(t, 0)
        /\ Goto(t, "add_count_load")
        /\ UNCHANGED <<totals, dlistW, bloom_get_addr, call, idx, tmp, overlap, ncalls>>

\* `new std::vector<int>` throws inside bloom_init: the exception leaves
\* blooms_add, and is caught by the thrift processor, with the lock still held.
AddThrows(t) ==
    /\ AllocFails
    /\ pc[t] = "add_init" /\ Lookup(call[t].key) = 0
    /\ Fits(call[t].n)
    /\ Answer(t, -2) /\ Leave(t)
    /\ UNCHANGED <<table, totals, locks, bloom_get_addr, ncalls>>

\* blooms->count++ after the unlock ...
AddCountLoad(t) == Load(t, "add_count_load", "add_count_store", count)

AddCountStore(t) ==
    /\ pc[t] = "add_count_store"
    /\ count' = tmp[t] + 1
    /\ Goto(t, "add_bytes_load")
    /\ UNCHANGED <<table, bytes, locks, bloom_get_addr, locals, res, ncalls>>

\* ... and blooms->bytes += bloom->bytes.
AddBytesLoad(t) == Load(t, "add_bytes_load", "add_bytes_store", bytes)

AddBytesStore(t) ==
    /\ pc[t] = "add_bytes_store"
    /\ bytes' = SizePlus(tmp[t], bloom[cur[t]].bytes)
    /\ Goto(t, "add_dlist")
    /\ UNCHANGED <<table, count, locks, bloom_get_addr, locals, res, ncalls>>

\* bloom_dlist_lock is taken, nothing is linked, and it is released.
AddDlistLock(t) == LockDlist(t, "add_dlist", "add_done")
AddDone(t) == UnlockDlistLeave(t, "add_done")

-----------------------------------------------------------------------------
(* blooms_set, with bloom_set *)

SetLock(t) == LockHash(t, "set_lock", "set_body")

SetMissing(t) == /\ pc[t] = "set_body" /\ Lookup(call[t].key) = 0
                 /\ UnlockReturn(t, 1)

\* Mutant of BitsOf: the loop ends one position early.
BitsOfShort(n, s) == {Probe[n][s][i] : i \in 1 .. Len(Probe[n][s]) - 1}

\* The bits bloom_set sets for subkey s in a map for n.
BitsOf(n, s) == {Probe[n][s][i] : i \in 1 .. Len(Probe[n][s])}

\* Filter f after bloom_set; subs is auxiliary, the code keeps only the bits.
Filled(f, s) == [f EXCEPT !.bits = f.bits \cup BitsOf(f.n, s),
                          !.subs = f.subs \cup {s}]

SetBits(t) ==
    LET b == Lookup(call[t].key)
    IN  /\ pc[t] = "set_body"
        /\ b # 0
        /\ bloom' = [bloom EXCEPT ![b] = Filled(@, call[t].sub)]
        /\ UnlockHash(t) /\ Answer(t, 0) /\ Leave(t)
        /\ UNCHANGED <<hashtable, totals, dlistW, bloom_get_addr, ncalls>>

-----------------------------------------------------------------------------
(* blooms_get, with bloom_get *)

GetLock(t) ==
    /\ pc[t] = "get_lock" /\ RdLockHash(t) /\ Goto(t, "get_find")
    /\ UNCHANGED <<table, totals, dlistW, bloom_get_addr, locals, res, ncalls>>

GetMissing(t) == /\ pc[t] = "get_find" /\ Lookup(call[t].key) = 0
                 /\ UnlockReturn(t, -1)

\* Inside the loop of bloom_get.
Reading(t) == pc[t] \in {"get_addr", "get_check"}

\* Enter the loop of bloom_get.
GetFind(t) ==
    LET b == Lookup(call[t].key)
        rivals == {u \in Threads : Reading(u) /\ cur[u] # b}
    IN  /\ pc[t] = "get_find"
        /\ b # 0
        /\ cur' = [cur EXCEPT ![t] = b]
        /\ idx' = [idx EXCEPT ![t] = 1]
        /\ overlap' = [u \in Threads |-> IF u = t THEN rivals # {}
                                         ELSE overlap[u] \/ u \in rivals]
        /\ Goto(t, "get_addr")
        /\ UNCHANGED <<table, totals, locks, bloom_get_addr, call, tmp, res, ncalls>>

Positions(t) == Probe[bloom[cur[t]].n][call[t].sub]

\* One more position to test: aim the global at this filter's map ...
GetAddr(t) ==
    /\ pc[t] = "get_addr"
    /\ idx[t] <= Len(Positions(t))
    /\ bloom_get_addr' = cur[t]
    /\ Goto(t, "get_check")
    /\ UNCHANGED <<table, totals, locks, locals, res, ncalls>>

\* ... and read the bit through the global.  Another reader may have aimed it
\* elsewhere; a position beyond that map reads whatever memory holds.
ReadsAs(t, set) ==
    LET b == bloom_get_addr
        p == Positions(t)[idx[t]]
    IN  \/ (p \in bloom[b].bits) = set
        \/ p >= MapBits[bloom[b].n]

\* Mutant of GetHit: the loop counter is not increased.
GetHitStays(t) ==
    /\ pc[t] = "get_check" /\ ReadsAs(t, TRUE) /\ Goto(t, "get_addr")
    /\ UNCHANGED <<table, totals, locks, bloom_get_addr, locals, res, ncalls>>

GetHit(t) ==
    /\ pc[t] = "get_check" /\ ReadsAs(t, TRUE)
    /\ idx' = [idx EXCEPT ![t] = @ + 1]
    /\ Goto(t, "get_addr")
    /\ UNCHANGED <<table, totals, locks, bloom_get_addr, call, cur, tmp, overlap, res, ncalls>>

GetAbsent(t) == /\ pc[t] = "get_check" /\ ReadsAs(t, FALSE)
                /\ UnlockReturn(t, 0)

GetPresent(t) == /\ pc[t] = "get_addr" /\ idx[t] > Len(Positions(t))
                 /\ UnlockReturn(t, 1)

-----------------------------------------------------------------------------
(* blooms_delete, with bloom_delete *)

\* Mutant of DelLock: the lock is taken for reading.
DelLockShared(t) ==
    /\ pc[t] = "del_lock" /\ RdLockHash(t) /\ Goto(t, "del_dlist")
    /\ UNCHANGED <<table, totals, dlistW, bloom_get_addr, locals, res, ncalls>>

DelLock(t) == LockHash(t, "del_lock", "del_dlist")
DelDlistLock(t) == LockDlist(t, "del_dlist", "del_find")

\* Neither the head nor a later element matches.
DelMissing(t) ==
    /\ pc[t] = "del_find" /\ Lookup(call[t].key) = 0
    /\ Answer(t, 1)
    /\ Goto(t, "del_unlock")
    /\ UNCHANGED <<table, totals, locks, bloom_get_addr, locals, ncalls>>

DelUnlink(t) ==
    LET k == call[t].key
        h == Hv[k]
    IN  /\ pc[t] = "del_find"
        /\ Lookup(k) # 0
        /\ cur' = [cur EXCEPT ![t] = Lookup(k)]
        /\ hashtable' = [hashtable EXCEPT ![h] = Unlink(@, FirstMatch(h, k))]
        /\ Answer(t, 0)
        /\ Goto(t, "del_bytes_load")
        /\ UNCHANGED <<bloom, totals, locks, bloom_get_addr, call, idx, tmp, overlap, ncalls>>

\* blooms->bytes -= bloom->bytes under the lock, and the map is deleted ...
DelBytesLoad(t) == Load(t, "del_bytes_load", "del_bytes_store", bytes)

DelBytesStore(t) ==
    /\ pc[t] = "del_bytes_store"
    /\ bytes' = SizeMinus(tmp[t], bloom[cur[t]].bytes)
    /\ bloom' = [bloom EXCEPT ![cur[t]].live = FALSE]
    /\ Goto(t, "del_count_load")
    /\ UNCHANGED <<hashtable, count, locks, bloom_get_addr, locals, res, ncalls>>

\* ... and blooms->count--.
DelCountLoad(t) == Load(t, "del_count_load", "del_count_store", count)

\* Mutant of DelCountStore: the count is left as it was.
DelCountStoreDropped(t) ==
    /\ pc[t] = "del_count_store" /\ Goto(t, "del_unlock")
    /\ UNCHANGED <<table, totals, locks, bloom_get_addr, locals, res, ncalls>>

DelCountStore(t) ==
    /\ pc[t] = "del_count_store"
    /\ count' = tmp[t] - 1
    /\ Goto(t, "del_unlock")
    /\ UNCHANGED <<table, bytes, locks, bloom_get_addr, locals, res, ncalls>>

\* The two unlocks, bloom_hash_lock first.
DelUnlockHash(t) ==
    /\ pc[t] = "del_unlock" /\ UnlockHash(t) /\ Goto(t, "del_done")
    /\ UNCHANGED <<table, totals, dlistW, bloom_get_addr, locals, res, ncalls>>

\* Mutant of DelDone: bloom_dlist_lock is not released.
DelDoneKeepsDlist(t) ==
    /\ pc[t] = "del_done" /\ Leave(t)
    /\ UNCHANGED <<table, totals, locks, bloom_get_addr, res, ncalls>>

DelDone(t) == UnlockDlistLeave(t, "del_done")

-----------------------------------------------------------------------------

Init ==
    /\ hashtable = [h \in Buckets |-> <<>>]
    /\ bloom = <<>>
    /\ count = 0 /\ bytes = 0
    /\ hashW = NoThread /\ hashR = {} /\ dlistW = NoThread
    /\ bloom_get_addr = 0
    /\ pc = [t \in Threads |-> "idle"]
    /\ call = [t \in Threads |-> NoCall]
    /\ cur = [t \in Threads |-> 0]
    /\ idx = [t \in Threads |-> 0]
    /\ tmp = [t \in Threads |-> 0]
    /\ res = [t \in Threads |-> 0]
    /\ overlap = [t \in Threads |-> FALSE]
    /\ ncalls = 0

AddStep(t) == \/ AddLock(t) \/ AddExists(t) \/ AddRefused(t) \/ AddLink(t)
              \/ AddThrows(t) \/ AddCountLoad(t) \/ AddCountStore(t)
              \/ AddBytesLoad(t) \/ AddBytesStore(t) \/ AddDlistLock(t) \/ AddDone(t)
SetStep(t) == SetLock(t) \/ SetMissing(t) \/ SetBits(t)
GetStep(t) == \/ GetLock(t) \/ GetMissing(t) \/ GetFind(t) \/ GetAddr(t)
              \/ GetHit(t) \/ GetAbsent(t) \/ GetPresent(t)
DelStep(t) == \/ DelLock(t) \/ DelDlistLock(t) \/ DelMissing(t) \/ DelUnlink(t)
              \/ DelBytesLoad(t) \/ DelBytesStore(t) \/ DelCountLoad(t)
              \/ DelCountStore(t) \/ DelUnlockHash(t) \/ DelDone(t)

Step(t) == AddStep(t) \/ SetStep(t) \/ GetStep(t) \/ DelStep(t)

\* All the calls of the bounded workload have returned.
Finished == /\ ncalls = MaxCalls /\ \A t \in Threads : pc[t] = "idle"
            /\ UNCHANGED vars

Next == (\E t \in Threads : Invoke(t) \/ Step(t)) \/ Finished

Spec == Init /\ [][Next]_vars

\* The kernel keeps scheduling a thread that can run; clients need not call.
Fairness == \A t \in Threads : WF_vars(Step(t))
FairSpec == Spec /\ Fairness

-----------------------------------------------------------------------------
(* Properties *)

\* Where a thread relies on holding bloom_hash_lock for writing, for reading,
\* and bloom_dlist_lock.
HashWriting == {"add_init", "set_body", "del_dlist", "del_find", "del_bytes_load",
                "del_bytes_store", "del_count_load", "del_count_store", "del_unlock"}
HashReading == {"get_find", "get_addr", "get_check"}
DlistWriting == {"add_done", "del_find", "del_bytes_load", "del_bytes_store",
                 "del_count_load", "del_count_store", "del_unlock", "del_done"}

Labels == {"idle", "add_lock", "set_lock", "get_lock", "del_lock", "add_count_load",
           "add_count_store", "add_bytes_load", "add_bytes_store", "add_dlist"}
          \cup HashWriting \cup HashReading \cup DlistWriting

Bloom == [key : Keys, n : Sizes, bytes : 0 .. WordMod - 1,
          bits : SUBSET Nat, subs : SUBSET Subkeys, live : BOOLEAN]

\* The state has the shape the C structs and the thread locals give it; a
\* chain and a local pointer refer only to filters that were allocated.
TypeOK ==
    /\ bloom \in Seq(Bloom)
    /\ hashtable \in [Buckets -> Seq(BloomIds)]
    /\ count \in Int
    /\ bytes \in 0 .. WordMod - 1
    /\ hashW \in Threads \cup {NoThread}
    /\ hashR \in SUBSET Threads
    /\ dlistW \in Threads \cup {NoThread}
    /\ bloom_get_addr \in {0} \cup BloomIds
    /\ pc \in [Threads -> Labels]
    /\ call \in [Threads -> Call \cup {NoCall}]
    /\ cur \in [Threads -> {0} \cup BloomIds]
    /\ idx \in [Threads -> Nat]
    /\ tmp \in [Threads -> Int]
    /\ res \in [Threads -> -2 .. 2]
    /\ overlap \in [Threads -> BOOLEAN]
    /\ ncalls \in Nat

\* bloom_hash_lock does its work over every path of the four functions: while
\* a thread is in a section it means to run as the writer no other thread is
\* in such a section or in the reading section of blooms_get.
HashExclusion ==
    \A t, u \in Threads :
        t # u /\ pc[t] \in HashWriting => pc[u] \notin HashWriting \cup HashReading

\* Every chain holds filters of its own bucket, no key twice, and no filter
\* whose map blooms_delete has freed.
ChainsSound ==
    \A h \in Buckets : \A i \in 1 .. Len(hashtable[h]) :
        LET b == hashtable[h][i] IN
        /\ Hv[bloom[b].key] = h
        /\ bloom[b].live
        /\ \A j \in 1 .. Len(hashtable[h]) :
              bloom[hashtable[h][j]].key = bloom[b].key => i = j

\* A filter whose map has not been freed is in the table, or is the one a
\* running blooms_delete has just taken out: no map is lost.
NoFilterLost ==
    \A b \in BloomIds :
        bloom[b].live =>
            \/ b \in Linked
            \/ \E t \in Threads : /\ pc[t] \in {"del_bytes_load", "del_bytes_store"}
                                  /\ cur[t] = b

\* bloom_get reads through the global bloom_get_addr only maps that exist,
\* although any reader may have set it: blooms_delete frees no map that a
\* reader inside the loop could be aiming at.
AddrAlive ==
    \A t \in Threads :
        pc[t] = "get_check" => /\ bloom_get_addr \in BloomIds
                               /\ bloom[bloom_get_addr].live

\* A get that returns 0 and that no get on another filter overlapped asked for
\* a subkey that no blooms_set has put into the filter.
NoFalseNegative ==
    [][\A t \in Threads :
          Reading(t) /\ pc'[t] = "idle" /\ res'[t] = 0 /\ ~ overlap[t]
              => call[t].sub \notin bloom[cur[t]].subs]_vars

\* The same for every get: what the comment above blooms_get says of it
\* ("1 success subkey exist", bloom_filter.cpp:288).
GetTellsTruth ==
    [][\A t \in Threads :
          Reading(t) /\ pc'[t] = "idle" /\ res'[t] = 0
              => call[t].sub \notin bloom[cur[t]].subs]_vars

\* It holds when clients never let two threads query two filters at a time.
NoRivalGets ==
    \A t, u \in Threads : t # u =>
        \A c \in Calls[t], d \in Calls[u] : c.op = "get" /\ d.op = "get" => c.key = d.key

Quiet == \A t \in Threads : pc[t] = "idle"

\* The bytes accounted for the filters of S, counted one by one.
BytesIn(S) == Cardinality({c \in S \X (1 .. WordMod) : c[2] <= bloom[c[1]].bytes})

\* What blooms_status would print as "blooms count" and "blooms total bytes"
\* (bloom_filter.cpp:400-401) with no call in progress is the number of
\* filters in the table and the bytes they were accounted with.
TotalsExact ==
    Quiet => count = Cardinality(Linked) /\ bytes = BytesIn(Linked)

\* The filters in the table never take more than max_bytes together: the
\* purpose of bloom_init's test "bloom over max size" (bloom_filter.cpp:100-103).
CapacityRespected == BytesIn(Linked) <= MaxBytes

\* A call that has returned has released both locks.
IdleHoldsNoLock ==
    \A t \in Threads :
        pc[t] = "idle" => hashW # t /\ t \notin hashR /\ dlistW # t

\* Every call returns: the two locks are never waited for in a circle and
\* every path through the four functions releases what it took.
EveryCallReturns == \A t \in Threads : pc[t] # "idle" ~> pc[t] = "idle"

\* A thread waits for a lock that another holds.
Waits(t) ==
    \/ /\ pc[t] \in {"add_lock", "set_lock", "del_lock"}
       /\ hashW # t
       /\ hashW # NoThread \/ hashR # {}
    \/ pc[t] = "get_lock" /\ hashW \notin {NoThread, t}
    \/ pc[t] \in {"add_dlist", "del_dlist"} /\ dlistW # NoThread

\* The calls in progress never all wait for one another, although
\* blooms_delete holds bloom_hash_lock while it waits for bloom_dlist_lock.
NoDeadlock == ~ Quiet => \E t \in Threads : pc[t] # "idle" /\ ~ Waits(t)

\* The steps a call has left at most, the loop of bloom_get counted once.
StepsLeft ==
    [idle |-> 0,
     add_lock |-> 8, add_init |-> 7, add_count_load |-> 6, add_count_store |-> 5,
     add_bytes_load |-> 4, add_bytes_store |-> 3, add_dlist |-> 2, add_done |-> 1,
     set_lock |-> 2, set_body |-> 1,
     get_lock |-> 3, get_find |-> 2, get_addr |-> 1, get_check |-> 1,
     del_lock |-> 9, del_dlist |-> 8, del_find |-> 7, del_bytes_load |-> 6,
     del_bytes_store |-> 5, del_count_load |-> 4, del_count_store |-> 3,
     del_unlock |-> 2, del_done |-> 1]

\* The steps that are left in the loop of bloom_get.
LoopLeft(t) ==
    2 * (Len(Positions(t)) - idx[t]) + IF pc[t] = "get_addr" THEN 2 ELSE 1

WindsDown(t) ==
    \/ StepsLeft[pc'[t]] < StepsLeft[pc[t]]
    \/ Reading(t) /\ Reading(t)' /\ 0 < LoopLeft(t) /\ LoopLeft(t)' < LoopLeft(t)

\* Every step of a call brings it closer to its return, in the loop of bloom_get
\* too, whichever map the bits were read from: no call goes round for ever.
CallsWindDown ==
    [][\A t \in Threads : pc[t] # "idle" /\ pc'[t] # pc[t] => WindsDown(t)]_vars

-----------------------------------------------------------------------------
(* The inductive invariant behind HashExclusion, ChainsSound, NoFilterLost *)
(* and AddrAlive.                                                          *)

\* A thread executes the call its position belongs to.
CallMatches ==
    \A t \in Threads :
        /\ pc[t] \in {"add_lock", "add_init"} => call[t] \in AddCall
        /\ pc[t] \in {"set_lock", "set_body"} => call[t] \in SetCall
        /\ pc[t] \in {"get_lock"} \cup HashReading => call[t] \in GetCall
        /\ pc[t] \in {"del_lock", "del_dlist", "del_find"} => call[t] \in DelCall

\* A thread holds the locks its position relies on.  The converse does not
\* hold: after an exception a thread keeps bloom_hash_lock.
LocksHeld ==
    /\ hashW # NoThread => hashR = {}
    /\ \A t \in Threads :
          /\ pc[t] \in HashWriting => hashW = t
          /\ pc[t] \in HashReading => t \in hashR \/ hashW = t
          /\ pc[t] \in DlistWriting => dlistW = t

\* The filter a reader walks over is in the table, and so is the one the
\* global points to while a reader is about to look through it; a thread
\* that accounts for a filter has one.
PointersValid ==
    \A t \in Threads :
        /\ Reading(t) => cur[t] \in Linked
        /\ pc[t] = "get_check" => bloom_get_addr \in Linked
        /\ pc[t] \in {"add_bytes_store", "add_bytes_load", "add_count_store",
                      "add_count_load", "del_bytes_load", "del_bytes_store"}
              => cur[t] \in BloomIds
        /\ pc[t] \in {"del_bytes_load", "del_bytes_store"} => cur[t] \notin Linked

IndInv == /\ TypeOK /\ CallMatches /\ LocksHeld /\ PointersValid
          /\ ChainsSound /\ NoFilterLost

-----------------------------------------------------------------------------
(* The inductive invariant behind TotalsExact and CapacityRespected, which *)
(* hold when no two threads add or delete.                                 *)

Administers(t) == \E c \in Calls[t] : c.op \in {"add", "delete"}
OneAdmin == \A t, u \in Threads : Administers(t) /\ Administers(u) => t = u

\* Where a filter is linked and not counted yet, or unlinked and still
\* counted; the same for its bytes.
AddCounting == {"add_count_load", "add_count_store"}
DelCounting == {"del_bytes_load", "del_bytes_store", "del_count_load", "del_count_store"}
AddSizing == AddCounting \cup {"add_bytes_load", "add_bytes_store"}
DelSizing == {"del_bytes_load", "del_bytes_store"}
Accounting == AddSizing \cup DelCounting

\* Only a thread that clients ask to add or delete is in blooms_add before its
\* last lock, or in blooms_delete before its unlocks.
AdminsAccount ==
    \A t \in Threads :
        pc[t] \in Accounting \cup {"add_lock", "add_init", "del_lock", "del_dlist", "del_find"}
            => Administers(t)

\* The totals differ from the table by the filter that is being accounted for.
Accounts ==
    /\ \A t \in Threads :
          /\ pc[t] \in AddCounting => Cardinality(Linked) = count + 1
          /\ pc[t] \in DelCounting => Cardinality(Linked) = count - 1
          /\ pc[t] \in AddSizing => BytesIn(Linked) = bytes + bloom[cur[t]].bytes
          /\ pc[t] \in DelSizing => BytesIn(Linked) = bytes - bloom[cur[t]].bytes
          /\ pc[t] \in {"add_count_store", "del_count_store"} => tmp[t] = count
          /\ pc[t] \in {"add_bytes_store", "del_bytes_store"} => tmp[t] = bytes
    /\ (\A t \in Threads : pc[t] \notin AddCounting \cup DelCounting)
          => Cardinality(Linked) = count
    /\ (\A t \in Threads : pc[t] \notin AddSizing \cup DelSizing)
          => BytesIn(Linked) = bytes

-----------------------------------------------------------------------------
(* The table implements FilterStore. *)

\* Where the value of a call is decided and only the totals and the locks
\* remain to be seen to.
Decided == {"add_count_load", "add_count_store", "add_bytes_load", "add_bytes_store",
            "add_dlist", "add_done", "del_bytes_load", "del_bytes_store",
            "del_count_load", "del_count_store", "del_unlock", "del_done"}

StoreFilters == {k \in Keys : \E b \in Linked : bloom[b].key = k}
StoreMembers == {p \in Keys \X Subkeys :
                   \E b \in Linked : bloom[b].key = p[1] /\ p[2] \in bloom[b].subs}
StorePhase == [t \in Threads |-> IF pc[t] = "idle" THEN "idle"
                                 ELSE IF pc[t] \in Decided THEN "done" ELSE "called"]

Store == INSTANCE FilterStore WITH
    StoreCalls <- Call, Idle <- NoCall,
    filters <- StoreFilters, members <- StoreMembers, phase <- StorePhase,
    disturbed <- overlap

\* Every call takes effect at one instant on a map from names to sets of
\* subkeys, with the return value the comments above the four functions give,
\* and a get has no false negative unless a get on another filter overlaps it.
ImplementsStore == Store!Spec
=============================================================================
