------------------------ MODULE BloomRegistry_proofs ------------------------
(***************************************************************************)
(* Proofs about BloomRegistry for every set of threads, keys, subkeys and  *)
(* buckets, every hash function and every memory limit, allocation         *)
(* failures included.                                                      *)
(*                                                                         *)
(* The argument: threads hold the locks their positions rely on            *)
(* (LocksHeld), so the steps that write to the table happen one at a time  *)
(* and never while a reader walks over it.  Four steps write to the table; *)
(* one lemma each says what they do to it.  From these follow ChainsSound, *)
(* PointersValid and NoFilterLost; AddrAlive follows from the first two.   *)
(***************************************************************************)
EXTENDS BloomRegistry, SequenceTheorems, TLAPS

\* A call starts at the label of its own function.
LEMMA EntryLabel ==
    ASSUME NEW t \in Threads, NEW c \in Calls[t]
    PROVE  /\ c \in Call
           /\ \/ c \in AddCall /\ Entry[c.op] = "add_lock"
              \/ c \in SetCall /\ Entry[c.op] = "set_lock"
              \/ c \in GetCall /\ Entry[c.op] = "get_lock"
              \/ c \in DelCall /\ Entry[c.op] = "del_lock"
<1>1. c \in Call BY CallsAssumption
<1>2. \/ c \in AddCall /\ c.op = "add"
      \/ c \in SetCall /\ c.op = "set"
      \/ c \in GetCall /\ c.op = "get"
      \/ c \in DelCall /\ c.op = "delete"
  BY <1>1 DEF Call, AddCall, SetCall, GetCall, DelCall
<1>3. /\ Entry["add"] = "add_lock" /\ Entry["set"] = "set_lock"
      /\ Entry["get"] = "get_lock" /\ Entry["delete"] = "del_lock"
  BY DEF Entry
<1> QED BY <1>1, <1>2, <1>3

\* Every step leaves each thread with the locks its position relies on.
LEMMA LocksHeldStep ==
    ASSUME TypeOK, LocksHeld, [Next]_vars
    PROVE  LocksHeld'
<1> USE ThreadAssumption DEF TypeOK, LocksHeld, HashWriting, HashReading, DlistWriting,
        locks, locals, table, totals, Goto, Answer, Leave,
        LockHash, LockDlist, Load, UnlockReturn, UnlockDlistLeave
<1>1. ASSUME NEW t \in Threads, Invoke(t) PROVE LocksHeld'
  <2>1. PICK c \in Calls[t] : pc' = [pc EXCEPT ![t] = Entry[c.op]]
    BY <1>1 DEF Invoke
  <2>2. Entry[c.op] \in {"add_lock", "set_lock", "get_lock", "del_lock"}
    BY <2>1, EntryLabel
  <2> QED BY <1>1, <2>1, <2>2 DEF Invoke
<1>2. ASSUME NEW t \in Threads, AddStep(t) PROVE LocksHeld'
  <2>1. CASE AddLock(t) BY <2>1 DEF AddLock, WrLockHash
  <2>2. CASE AddExists(t) BY <2>2 DEF AddExists, UnlockHash
  <2>3. CASE AddRefused(t) BY <2>3 DEF AddRefused, UnlockHash
  <2>4. CASE AddLink(t) BY <2>4 DEF AddLink, UnlockHash
  <2>5. CASE AddThrows(t) BY <2>5 DEF AddThrows
  <2>6. CASE AddCountLoad(t) BY <2>6 DEF AddCountLoad
  <2>7. CASE AddCountStore(t) BY <2>7 DEF AddCountStore
  <2>8. CASE AddBytesLoad(t) BY <2>8 DEF AddBytesLoad
  <2>9. CASE AddBytesStore(t) BY <2>9 DEF AddBytesStore
  <2>10. CASE AddDlistLock(t) BY <2>10 DEF AddDlistLock
  <2>11. CASE AddDone(t) BY <2>11 DEF AddDone
  <2> QED BY <1>2, <2>1, <2>2, <2>3, <2>4, <2>5, <2>6, <2>7, <2>8, <2>9, <2>10, <2>11
       DEF AddStep
<1>3. ASSUME NEW t \in Threads, SetStep(t) PROVE LocksHeld'
  <2>1. CASE SetLock(t) BY <2>1 DEF SetLock, WrLockHash
  <2>2. CASE SetMissing(t) BY <2>2 DEF SetMissing, UnlockHash
  <2>3. CASE SetBits(t) BY <2>3 DEF SetBits, UnlockHash
  <2> QED BY <1>3, <2>1, <2>2, <2>3 DEF SetStep
<1>4. ASSUME NEW t \in Threads, GetStep(t) PROVE LocksHeld'
  <2>1. CASE GetLock(t) BY <2>1 DEF GetLock, RdLockHash
  <2>2. CASE GetMissing(t) BY <2>2 DEF GetMissing, UnlockHash
  <2>3. CASE GetFind(t) BY <2>3 DEF GetFind
  <2>4. CASE GetAddr(t) BY <2>4 DEF GetAddr
  <2>5. CASE GetHit(t) BY <2>5 DEF GetHit
  <2>6. CASE GetAbsent(t) BY <2>6 DEF GetAbsent, UnlockHash
  <2>7. CASE GetPresent(t) BY <2>7 DEF GetPresent, UnlockHash
  <2> QED BY <1>4, <2>1, <2>2, <2>3, <2>4, <2>5, <2>6, <2>7 DEF GetStep
<1>5. ASSUME NEW t \in Threads, DelStep(t) PROVE LocksHeld'
  <2>1. CASE DelLock(t) BY <2>1 DEF DelLock, WrLockHash
  <2>2. CASE DelDlistLock(t) BY <2>2 DEF DelDlistLock
  <2>3. CASE DelMissing(t) BY <2>3 DEF DelMissing
  <2>4. CASE DelUnlink(t) BY <2>4 DEF DelUnlink
  <2>5. CASE DelBytesLoad(t) BY <2>5 DEF DelBytesLoad
  <2>6. CASE DelBytesStore(t) BY <2>6 DEF DelBytesStore
  <2>7. CASE DelCountLoad(t) BY <2>7 DEF DelCountLoad
  <2>8. CASE DelCountStore(t) BY <2>8 DEF DelCountStore
  <2>9. CASE DelUnlockHash(t) BY <2>9 DEF DelUnlockHash, UnlockHash
  <2>10. CASE DelDone(t) BY <2>10 DEF DelDone
  <2> QED BY <1>5, <2>1, <2>2, <2>3, <2>4, <2>5, <2>6, <2>7, <2>8, <2>9, <2>10 DEF DelStep
<1>6. CASE UNCHANGED vars BY <1>6 DEF vars
<1> QED BY <1>1, <1>2, <1>3, <1>4, <1>5, <1>6 DEF Next, Step, Finished

-----------------------------------------------------------------------------
(* Lemmas about chains *)

\* size_t arithmetic stays in the range of size_t.
LEMMA ModRange ==
    ASSUME NEW x \in Int PROVE x % WordMod \in 0 .. WordMod - 1
BY SizeAssumption

\* Unlinking a position shifts what is behind it by one and keeps the rest.
LEMMA UnlinkFacts ==
    ASSUME NEW S, NEW s \in Seq(S), NEW i \in 1 .. Len(s)
    PROVE  /\ Unlink(s, i) \in Seq(S)
           /\ Len(Unlink(s, i)) = Len(s) - 1
           /\ \A j \in 1 .. Len(s) - 1 :
                 Unlink(s, i)[j] = IF j < i THEN s[j] ELSE s[j + 1]
<1> DEFINE u == Unlink(s, i)
<1>1. Len(s) - 1 \in Nat /\ \A j \in 1 .. Len(s) : s[j] \in S
  BY ElementOfSeq, LenProperties
<1>2. \A j \in 1 .. Len(s) - 1 : (IF j < i THEN s[j] ELSE s[j + 1]) \in S
  BY <1>1
<1>3. u \in [1 .. Len(s) - 1 -> S]
  BY <1>2 DEF Unlink
<1>4. u \in Seq(S) BY <1>1, <1>3, IsASeq
<1>5. Len(u) = Len(s) - 1 BY <1>1, <1>3, <1>4, LenProperties
<1> QED BY <1>4, <1>5 DEF Unlink

\* What the walk along a chain finds, when no key is in a chain twice.
LEMMA LookupFacts ==
    ASSUME TypeOK, ChainsSound, NEW k \in Keys
    PROVE  LET h == Hv[k] IN
           /\ Lookup(k) = 0 =>
                 \A i \in 1 .. Len(hashtable[h]) : bloom[hashtable[h][i]].key # k
           /\ Lookup(k) # 0 =>
                 /\ FirstMatch(h, k) \in 1 .. Len(hashtable[h])
                 /\ Lookup(k) = hashtable[h][FirstMatch(h, k)]
                 /\ Lookup(k) \in BloomIds
                 /\ Lookup(k) \in Linked
                 /\ bloom[Lookup(k)].key = k
<1> DEFINE h == Hv[k]
           M == Matches(h, k)
<1>1. h \in Buckets BY HvAssumption
<1>2. hashtable[h] \in Seq(BloomIds) BY <1>1 DEF TypeOK
<1>3. \A i \in 1 .. Len(hashtable[h]) : hashtable[h][i] \in BloomIds
  BY <1>2, ElementOfSeq
<1>4. \A i, j \in M : i = j
  BY <1>1 DEF Matches, ChainsSound
<1>5. CASE M = {}
  <2>1. Lookup(k) = 0 BY <1>5 DEF Lookup
  <2> QED BY <1>5, <2>1 DEF Matches
<1>6. CASE M # {}
  <2>1. PICK m : m \in M BY <1>6
  <2>2. M \subseteq 1 .. Len(hashtable[h]) BY DEF Matches
  <2>3. Len(hashtable[h]) \in Nat BY <1>2, LenProperties
  <2>4. \A j \in M : m <= j BY <1>4, <2>1, <2>2, <2>3
  <2>5. FirstMatch(h, k) \in M BY <2>1, <2>4 DEF FirstMatch
  <2>6. Lookup(k) = hashtable[h][FirstMatch(h, k)] BY <1>6 DEF Lookup
  <2>7. Lookup(k) \in BloomIds BY <1>3, <2>2, <2>5, <2>6
  <2>8. Lookup(k) \in Linked BY <1>1, <2>2, <2>5, <2>6, <2>7 DEF Linked
  <2>9. bloom[Lookup(k)].key = k BY <2>5, <2>6 DEF Matches
  <2>10. Lookup(k) # 0
    <3>1. Len(bloom) \in Nat BY LenProperties DEF TypeOK
    <3> QED BY <2>7, <3>1 DEF BloomIds
  <2> QED BY <2>2, <2>5, <2>6, <2>7, <2>8, <2>9, <2>10
<1> QED BY <1>5, <1>6

\* bloom_set keeps a filter a filter and changes nothing but its bits.
LEMMA FilledFacts ==
    ASSUME NEW f \in Bloom, NEW s \in Subkeys
    PROVE  /\ Filled(f, s) \in Bloom
           /\ Filled(f, s).key = f.key
           /\ Filled(f, s).n = f.n
           /\ Filled(f, s).bytes = f.bytes
           /\ Filled(f, s).live = f.live
           /\ Filled(f, s).bits = f.bits \cup BitsOf(f.n, s)
           /\ Filled(f, s).subs = f.subs \cup {s}
<1>1. Probe[f.n][s] \in Seq(Nat) BY ProbeAssumption DEF Bloom
<1>2. \A i \in 1 .. Len(Probe[f.n][s]) : Probe[f.n][s][i] \in Nat BY <1>1, ElementOfSeq
<1>3. BitsOf(f.n, s) \subseteq Nat BY <1>2 DEF BitsOf
<1> HIDE DEF BitsOf
<1>4. f.bits \cup BitsOf(f.n, s) \in SUBSET Nat BY <1>3 DEF Bloom
<1>5. f.subs \cup {s} \in SUBSET Subkeys BY DEF Bloom
<1> QED BY <1>4, <1>5 DEF Filled, Bloom

-----------------------------------------------------------------------------
(* Type correctness *)

\* A thread is where its call puts it.
LEMMA CallMatchesStep ==
    ASSUME TypeOK, CallMatches, [Next]_vars
    PROVE  CallMatches'
<1> USE DEF TypeOK, CallMatches, HashReading, locals, Goto, Answer, Leave,
        LockHash, LockDlist, Load, UnlockReturn, UnlockDlistLeave
<1>1. ASSUME NEW t \in Threads, Invoke(t) PROVE CallMatches'
  <2>1. PICK c \in Calls[t] : /\ pc' = [pc EXCEPT ![t] = Entry[c.op]]
                              /\ call' = [call EXCEPT ![t] = c]
    BY <1>1 DEF Invoke
  <2>2. \/ c \in AddCall /\ Entry[c.op] = "add_lock"
        \/ c \in SetCall /\ Entry[c.op] = "set_lock"
        \/ c \in GetCall /\ Entry[c.op] = "get_lock"
        \/ c \in DelCall /\ Entry[c.op] = "del_lock"
    BY EntryLabel
  <2> QED BY <2>1, <2>2
<1>2. ASSUME NEW t \in Threads, AddStep(t) PROVE CallMatches'
  <2>1. CASE AddLock(t) BY <2>1 DEF AddLock
  <2>2. CASE AddExists(t) BY <2>2 DEF AddExists
  <2>3. CASE AddRefused(t) BY <2>3 DEF AddRefused
  <2>4. CASE AddLink(t) BY <2>4 DEF AddLink
  <2>5. CASE AddThrows(t) BY <2>5 DEF AddThrows
  <2>6. CASE AddCountLoad(t) BY <2>6 DEF AddCountLoad
  <2>7. CASE AddCountStore(t) BY <2>7 DEF AddCountStore
  <2>8. CASE AddBytesLoad(t) BY <2>8 DEF AddBytesLoad
  <2>9. CASE AddBytesStore(t) BY <2>9 DEF AddBytesStore
  <2>10. CASE AddDlistLock(t) BY <2>10 DEF AddDlistLock
  <2>11. CASE AddDone(t) BY <2>11 DEF AddDone
  <2> QED BY <1>2, <2>1, <2>2, <2>3, <2>4, <2>5, <2>6, <2>7,
              <2>8, <2>9, <2>10, <2>11 DEF AddStep
<1>3. ASSUME NEW t \in Threads, SetStep(t) PROVE CallMatches'
  <2>1. CASE SetLock(t) BY <2>1 DEF SetLock
  <2>2. CASE SetMissing(t) BY <2>2 DEF SetMissing
  <2>3. CASE SetBits(t) BY <2>3 DEF SetBits
  <2> QED BY <1>3, <2>1, <2>2, <2>3 DEF SetStep
<1>4. ASSUME NEW t \in Threads, GetStep(t) PROVE CallMatches'
  <2>1. CASE GetLock(t) BY <2>1 DEF GetLock
  <2>2. CASE GetMissing(t) BY <2>2 DEF GetMissing
  <2>3. CASE GetFind(t) BY <2>3 DEF GetFind
  <2>4. CASE GetAddr(t) BY <2>4 DEF GetAddr
  <2>5. CASE GetHit(t) BY <2>5 DEF GetHit
  <2>6. CASE GetAbsent(t) BY <2>6 DEF GetAbsent
  <2>7. CASE GetPresent(t) BY <2>7 DEF GetPresent
  <2> QED BY <1>4, <2>1, <2>2, <2>3, <2>4, <2>5, <2>6, <2>7 DEF GetStep
<1>5. ASSUME NEW t \in Threads, DelStep(t) PROVE CallMatches'
  <2>1. CASE DelLock(t) BY <2>1 DEF DelLock
  <2>2. CASE DelDlistLock(t) BY <2>2 DEF DelDlistLock
  <2>3. CASE DelMissing(t) BY <2>3 DEF DelMissing
  <2>4. CASE DelUnlink(t) BY <2>4 DEF DelUnlink
  <2>5. CASE DelBytesLoad(t) BY <2>5 DEF DelBytesLoad
  <2>6. CASE DelBytesStore(t) BY <2>6 DEF DelBytesStore
  <2>7. CASE DelCountLoad(t) BY <2>7 DEF DelCountLoad
  <2>8. CASE DelCountStore(t) BY <2>8 DEF DelCountStore
  <2>9. CASE DelUnlockHash(t) BY <2>9 DEF DelUnlockHash
  <2>10. CASE DelDone(t) BY <2>10 DEF DelDone
  <2> QED BY <1>5, <2>1, <2>2, <2>3, <2>4, <2>5, <2>6, <2>7, <2>8, <2>9, <2>10 DEF DelStep
<1>6. CASE UNCHANGED vars BY <1>6 DEF vars
<1> QED BY <1>1, <1>2, <1>3, <1>4, <1>5, <1>6 DEF Next, Step, Finished


\* Every step keeps the state well typed.
LEMMA TypeStep ==
    ASSUME TypeOK, CallMatches, PointersValid, ChainsSound, [Next]_vars
    PROVE  TypeOK'
<1> USE DEF TypeOK, Labels, HashWriting, HashReading, DlistWriting,
        table, totals, locks, locals, Goto, Answer, Leave,
        LockHash, LockDlist, Load, UnlockReturn, UnlockDlistLeave
<1>1. ASSUME NEW t \in Threads, Invoke(t) PROVE TypeOK'
  <2>1. PICK c \in Calls[t] : /\ pc' = [pc EXCEPT ![t] = Entry[c.op]]
                              /\ call' = [call EXCEPT ![t] = c]
    BY <1>1 DEF Invoke
  <2>2. c \in Call /\ Entry[c.op] \in Labels BY EntryLabel
  <2> QED BY <1>1, <2>1, <2>2 DEF Invoke, BloomIds
<1>2. ASSUME NEW t \in Threads, AddStep(t) PROVE TypeOK'
  <2>1. CASE AddLock(t) BY <2>1 DEF AddLock, WrLockHash, BloomIds
  <2>2. CASE AddExists(t) BY <2>2 DEF AddExists, UnlockHash, BloomIds
  <2>3. CASE AddRefused(t) BY <2>3 DEF AddRefused, UnlockHash, BloomIds
  <2>4. CASE AddLink(t)
    <3> DEFINE c == call[t]
               b == Len(bloom) + 1
    <3>1. c \in AddCall BY <2>4 DEF AddLink, CallMatches
    <3>2. NewBloom(c) \in Bloom
      BY <3>1, SizeAssumption DEF NewBloom, Bloom, AddCall
    <3>3. bloom' \in Seq(Bloom) /\ Len(bloom') = b /\ Len(bloom) \in Nat
      BY <2>4, <3>2, AppendProperties, LenProperties DEF AddLink
    <3>4. BloomIds \subseteq BloomIds' /\ b \in BloomIds'
      BY <3>3 DEF BloomIds
    <3>5. \A h \in Buckets : hashtable[h] \in Seq(BloomIds')
      BY <3>4, SeqMonotonic
    <3>6. <<b>> \o hashtable[Hv[c.key]] \in Seq(BloomIds')
      <4>1. <<b>> \in Seq(BloomIds') BY <3>4
      <4>2. Hv[c.key] \in Buckets BY <3>1, HvAssumption DEF AddCall
      <4> QED BY <3>5, <4>1, <4>2, ConcatProperties
    <3>7. hashtable' \in [Buckets -> Seq(BloomIds')]
      BY <2>4, <3>5, <3>6 DEF AddLink, Push
    <3>8. cur' \in [Threads -> {0} \cup BloomIds'] /\ bloom_get_addr' \in {0} \cup BloomIds'
      BY <2>4, <3>4 DEF AddLink
    <3> QED BY <2>4, <3>3, <3>7, <3>8 DEF AddLink, UnlockHash
  <2>5. CASE AddThrows(t) BY <2>5 DEF AddThrows, BloomIds
  <2>6. CASE AddCountLoad(t) BY <2>6 DEF AddCountLoad, BloomIds
  <2>7. CASE AddCountStore(t) BY <2>7 DEF AddCountStore, BloomIds
  <2>8. CASE AddBytesLoad(t) BY <2>8 DEF AddBytesLoad, BloomIds
  <2>9. CASE AddBytesStore(t)
    <3>1. cur[t] \in BloomIds BY <2>9 DEF AddBytesStore, PointersValid
    <3>2. bloom[cur[t]] \in Bloom BY <3>1, ElementOfSeq DEF BloomIds
    <3>3. tmp[t] + bloom[cur[t]].bytes \in Int BY <3>2, SizeAssumption DEF Bloom
    <3>4. bytes' \in 0 .. WordMod - 1 BY <2>9, <3>3, ModRange DEF AddBytesStore, SizePlus
    <3> QED BY <2>9, <3>4 DEF AddBytesStore, BloomIds
  <2>10. CASE AddDlistLock(t) BY <2>10 DEF AddDlistLock, BloomIds
  <2>11. CASE AddDone(t) BY <2>11 DEF AddDone, BloomIds
  <2> QED BY <1>2, <2>1, <2>2, <2>3, <2>4, <2>5, <2>6, <2>7,
              <2>8, <2>9, <2>10, <2>11 DEF AddStep
<1>3. ASSUME NEW t \in Threads, SetStep(t) PROVE TypeOK'
  <2>1. CASE SetLock(t) BY <2>1 DEF SetLock, WrLockHash, BloomIds
  <2>2. CASE SetMissing(t) BY <2>2 DEF SetMissing, UnlockHash, BloomIds
  <2>3. CASE SetBits(t)
    <3> DEFINE b == Lookup(call[t].key)
               s == call[t].sub
    <3>1. call[t].key \in Keys /\ s \in Subkeys
      BY <2>3 DEF SetBits, CallMatches, SetCall
    <3>2. b \in BloomIds BY <2>3, <3>1, LookupFacts DEF SetBits
    <3>3. bloom[b] \in Bloom BY <3>2, ElementOfSeq DEF BloomIds
    <3>5. Filled(bloom[b], s) \in Bloom BY <3>1, <3>3, FilledFacts
    <3>6. bloom' = [bloom EXCEPT ![b] = Filled(bloom[b], s)] BY <2>3, <3>2 DEF SetBits
    <3>7. bloom' \in Seq(Bloom) /\ Len(bloom') = Len(bloom)
      BY <3>2, <3>5, <3>6, ExceptSeq DEF BloomIds
    <3>8. BloomIds' = BloomIds BY <3>7 DEF BloomIds
    <3> QED BY <2>3, <3>7, <3>8 DEF SetBits, UnlockHash
  <2> QED BY <1>3, <2>1, <2>2, <2>3 DEF SetStep
<1>4. ASSUME NEW t \in Threads, GetStep(t) PROVE TypeOK'
  <2>1. CASE GetLock(t) BY <2>1 DEF GetLock, RdLockHash, BloomIds
  <2>2. CASE GetMissing(t) BY <2>2 DEF GetMissing, UnlockHash, BloomIds
  <2>3. CASE GetFind(t)
    <3>1. call[t].key \in Keys BY <2>3 DEF GetFind, CallMatches, GetCall
    <3>2. Lookup(call[t].key) \in BloomIds BY <2>3, <3>1, LookupFacts DEF GetFind
    <3> QED BY <2>3, <3>2 DEF GetFind, BloomIds
  <2>4. CASE GetAddr(t) BY <2>4 DEF GetAddr, BloomIds
  <2>5. CASE GetHit(t) BY <2>5 DEF GetHit, BloomIds
  <2>6. CASE GetAbsent(t) BY <2>6 DEF GetAbsent, UnlockHash, BloomIds
  <2>7. CASE GetPresent(t) BY <2>7 DEF GetPresent, UnlockHash, BloomIds
  <2> QED BY <1>4, <2>1, <2>2, <2>3, <2>4, <2>5, <2>6, <2>7 DEF GetStep
<1>5. ASSUME NEW t \in Threads, DelStep(t) PROVE TypeOK'
  <2>1. CASE DelLock(t) BY <2>1 DEF DelLock, WrLockHash, BloomIds
  <2>2. CASE DelDlistLock(t) BY <2>2 DEF DelDlistLock, BloomIds
  <2>3. CASE DelMissing(t) BY <2>3 DEF DelMissing, BloomIds
  <2>4. CASE DelUnlink(t)
    <3> DEFINE k == call[t].key
               h == Hv[k]
    <3>1. k \in Keys /\ h \in Buckets BY <2>4, HvAssumption DEF DelUnlink, CallMatches, DelCall
    <3>2. Lookup(k) \in BloomIds /\ FirstMatch(h, k) \in 1 .. Len(hashtable[h])
      BY <2>4, <3>1, LookupFacts DEF DelUnlink
    <3>3. Unlink(hashtable[h], FirstMatch(h, k)) \in Seq(BloomIds)
      BY <3>1, <3>2, UnlinkFacts
    <3>4. hashtable' \in [Buckets -> Seq(BloomIds)] BY <2>4, <3>1, <3>3 DEF DelUnlink
    <3>5. BloomIds' = BloomIds BY <2>4 DEF DelUnlink, BloomIds
    <3> QED BY <2>4, <3>2, <3>4, <3>5 DEF DelUnlink
  <2>5. CASE DelBytesLoad(t) BY <2>5 DEF DelBytesLoad, BloomIds
  <2>6. CASE DelBytesStore(t)
    <3> DEFINE b == cur[t]
    <3>1. b \in BloomIds BY <2>6 DEF DelBytesStore, PointersValid
    <3>2. bloom[b] \in Bloom BY <3>1, ElementOfSeq DEF BloomIds
    <3>3. tmp[t] - bloom[b].bytes \in Int BY <3>2, SizeAssumption DEF Bloom
    <3>4. bytes' \in 0 .. WordMod - 1 BY <2>6, <3>3, ModRange DEF DelBytesStore, SizeMinus
    <3>5. [bloom[b] EXCEPT !.live = FALSE] \in Bloom BY <3>2 DEF Bloom
    <3>6. bloom' \in Seq(Bloom) /\ Len(bloom') = Len(bloom)
      BY <2>6, <3>1, <3>5, ExceptSeq DEF DelBytesStore, BloomIds
    <3>7. BloomIds' = BloomIds BY <3>6 DEF BloomIds
    <3> QED BY <2>6, <3>4, <3>6, <3>7 DEF DelBytesStore
  <2>7. CASE DelCountLoad(t) BY <2>7 DEF DelCountLoad, BloomIds
  <2>8. CASE DelCountStore(t) BY <2>8 DEF DelCountStore, BloomIds
  <2>9. CASE DelUnlockHash(t) BY <2>9 DEF DelUnlockHash, UnlockHash, BloomIds
  <2>10. CASE DelDone(t) BY <2>10 DEF DelDone, BloomIds
  <2> QED BY <1>5, <2>1, <2>2, <2>3, <2>4, <2>5, <2>6, <2>7, <2>8, <2>9, <2>10 DEF DelStep
<1>6. CASE UNCHANGED vars BY <1>6 DEF vars, BloomIds
<1> QED BY <1>1, <1>2, <1>3, <1>4, <1>5, <1>6 DEF Next, Step, Finished

-----------------------------------------------------------------------------
(* What the four steps that write to the table do to it *)

\* A step that leaves the table alone leaves its chains sound.
LEMMA TableUnchanged ==
    ASSUME UNCHANGED <<hashtable, bloom>>
    PROVE  /\ BloomIds' = BloomIds /\ Linked' = Linked
           /\ ChainsSound => ChainsSound'
BY DEF BloomIds, Linked, ChainsSound

\* What ChainsSound says of one place of one chain.
LEMMA ChainFacts ==
    ASSUME ChainsSound, NEW h \in Buckets, NEW k \in 1 .. Len(hashtable[h])
    PROVE  /\ Hv[bloom[hashtable[h][k]].key] = h
           /\ bloom[hashtable[h][k]].live
           /\ \A j \in 1 .. Len(hashtable[h]) :
                 bloom[hashtable[h][j]].key = bloom[hashtable[h][k]].key => k = j
BY DEF ChainsSound

\* blooms_add adds one new filter, at the head of the chain of its own key.
LEMMA AddLinkEffect ==
    ASSUME TypeOK, CallMatches, ChainsSound, NEW t \in Threads, AddLink(t)
    PROVE  LET b == Len(bloom) + 1 IN
           /\ BloomIds' = BloomIds \cup {b} /\ b \notin BloomIds
           /\ \A x \in BloomIds : bloom'[x] = bloom[x]
           /\ bloom'[b] = NewBloom(call[t])
           /\ Linked' = Linked \cup {b}
           /\ ChainsSound'
<1> DEFINE c == call[t]
           b == Len(bloom) + 1
           g == Hv[c.key]
           chain == <<b>> \o hashtable[g]
<1>1. c \in AddCall /\ c.key \in Keys /\ g \in Buckets
  BY HvAssumption DEF AddLink, CallMatches, AddCall
<1>2. NewBloom(c) \in Bloom /\ NewBloom(c).key = c.key /\ NewBloom(c).live
  BY <1>1, SizeAssumption DEF NewBloom, Bloom, AddCall
<1>3. bloom \in Seq(Bloom) /\ Len(bloom) \in Nat BY LenProperties DEF TypeOK
<1>4. /\ Len(bloom') = b
      /\ \A x \in 1 .. Len(bloom) : bloom'[x] = bloom[x]
      /\ bloom'[b] = NewBloom(c)
  BY <1>2, <1>3, AppendProperties DEF AddLink
<1>5. BloomIds' = BloomIds \cup {b} /\ b \notin BloomIds
  BY <1>3, <1>4 DEF BloomIds
<1>6. hashtable \in [Buckets -> Seq(BloomIds)] BY DEF TypeOK
<1>7. \A h \in Buckets : /\ Len(hashtable[h]) \in Nat
                         /\ \A i \in 1 .. Len(hashtable[h]) : hashtable[h][i] \in BloomIds
  BY <1>6, ElementOfSeq, LenProperties
<1>8. /\ Len(chain) = Len(hashtable[g]) + 1
      /\ chain[1] = b
      /\ \A i \in 2 .. Len(chain) : chain[i] = hashtable[g][i - 1]
  <2>1. hashtable[g] \in Seq(BloomIds \cup {b})
    BY <1>1, <1>6, SeqMonotonic
  <2>2. <<b>> \in Seq(BloomIds \cup {b}) /\ Len(<<b>>) = 1 /\ <<b>>[1] = b
    OBVIOUS
  <2> QED BY <1>1, <1>7, <2>1, <2>2, ConcatProperties
<1>9. hashtable' = [hashtable EXCEPT ![g] = chain] BY DEF AddLink, Push
<1> HIDE DEF chain
<1>10. /\ hashtable'[g] = chain
       /\ \A h \in Buckets \ {g} : hashtable'[h] = hashtable[h]
  BY <1>1, <1>6, <1>9
<1>11. Linked' = Linked \cup {b}
  <2>1. \A x \in BloomIds : x \in Linked => x \in Linked'
    <3>1. ASSUME NEW h \in Buckets, NEW i \in 1 .. Len(hashtable[h])
          PROVE  \E j \in 1 .. Len(hashtable'[h]) : hashtable'[h][j] = hashtable[h][i]
      <4>1. CASE h = g
        <5> i + 1 \in 1 .. Len(chain) /\ chain[i + 1] = hashtable[h][i]
          BY <4>1, <1>7, <1>8
        <5> QED BY <4>1, <1>10
      <4>2. CASE h # g BY <4>2, <1>10
      <4> QED BY <4>1, <4>2
    <3> SUFFICES ASSUME NEW x \in BloomIds, x \in Linked
                 PROVE  x \in Linked'
      OBVIOUS
    <3>2. PICK h \in Buckets : \E i \in 1 .. Len(hashtable[h]) : hashtable[h][i] = x
      BY DEF Linked
    <3>3. \E j \in 1 .. Len(hashtable'[h]) : hashtable'[h][j] = x
      BY <3>1, <3>2
    <3> QED BY <3>3, <1>5 DEF Linked
  <2>2. b \in Linked'
    <3>1. 1 \in 1 .. Len(hashtable'[g]) /\ hashtable'[g][1] = b
      BY <1>1, <1>7, <1>8, <1>10
    <3> QED BY <3>1, <1>1, <1>5 DEF Linked
  <2>3. \A x \in Linked' : x = b \/ x \in Linked
    <3> SUFFICES ASSUME NEW h \in Buckets, NEW i \in 1 .. Len(hashtable'[h]),
                        hashtable'[h][i] # b
                 PROVE  hashtable'[h][i] \in Linked
      BY DEF Linked
    <3>1. CASE h = g
      <4>1. i \in 2 .. Len(chain) BY <3>1, <1>1, <1>7, <1>8, <1>10
      <4>2. i - 1 \in 1 .. Len(hashtable[g]) /\ chain[i] = hashtable[g][i - 1]
        BY <4>1, <1>1, <1>7, <1>8
      <4> QED BY <3>1, <4>2, <1>1, <1>7, <1>10 DEF Linked
    <3>2. CASE h # g BY <3>2, <1>7, <1>10 DEF Linked
    <3> QED BY <3>1, <3>2
  <2> QED BY <2>1, <2>2, <2>3 DEF Linked
<1>12. \A i \in 1 .. Len(hashtable[g]) : bloom[hashtable[g][i]].key # c.key
  BY <1>1, LookupFacts DEF AddLink
<1>13. ChainsSound'
  <2> SUFFICES ASSUME NEW h \in Buckets, NEW i \in 1 .. Len(hashtable'[h])
               PROVE  /\ Hv[bloom'[hashtable'[h][i]].key] = h
                      /\ bloom'[hashtable'[h][i]].live
                      /\ \A j \in 1 .. Len(hashtable'[h]) :
                           bloom'[hashtable'[h][j]].key = bloom'[hashtable'[h][i]].key => i = j
    BY DEF ChainsSound
  <2>1. CASE h = g
    <3>1. \A j \in 2 .. Len(chain) :
             /\ j - 1 \in 1 .. Len(hashtable[g])
             /\ bloom'[chain[j]] = bloom[hashtable[g][j - 1]]
             /\ bloom'[chain[j]].key # c.key
      BY <1>1, <1>4, <1>7, <1>8, <1>12 DEF BloomIds
    <3>2. bloom'[chain[1]].key = c.key /\ bloom'[chain[1]].live BY <1>2, <1>4, <1>8
    <3>3. CASE i = 1 BY <2>1, <3>1, <3>2, <3>3, <1>1, <1>7, <1>8, <1>10
    <3>4. CASE i # 1
      <4>1. i \in 2 .. Len(chain) BY <2>1, <3>4, <1>1, <1>7, <1>8, <1>10
      <4>2. /\ Hv[bloom[hashtable[g][i - 1]].key] = g
            /\ bloom[hashtable[g][i - 1]].live
            /\ \A j \in 1 .. Len(hashtable[g]) :
                  bloom[hashtable[g][j]].key = bloom[hashtable[g][i - 1]].key => i - 1 = j
        <5>1. i - 1 \in 1 .. Len(hashtable[g]) BY <3>1, <4>1
        <5>2. g \in Buckets BY <1>1
        <5> HIDE DEF g
        <5> QED BY <5>1, <5>2, ChainFacts
      <4>3. \A j \in 2 .. Len(chain) : bloom'[chain[j]].key = bloom'[chain[i]].key => i = j
        <5> SUFFICES ASSUME NEW j \in 2 .. Len(chain),
                            bloom'[chain[j]].key = bloom'[chain[i]].key
                     PROVE  i = j
          OBVIOUS
        <5>1. bloom[hashtable[g][j - 1]].key = bloom[hashtable[g][i - 1]].key BY <3>1, <4>1
        <5>2. i - 1 = j - 1 BY <3>1, <4>2, <5>1
        <5>3. i \in Int /\ j \in Int BY <4>1
        <5> QED BY <5>2, <5>3
      <4>4. bloom'[chain[1]].key # bloom'[chain[i]].key BY <3>1, <3>2, <4>1
      <4>5. \A j \in 1 .. Len(chain) : j = 1 \/ j \in 2 .. Len(chain)
        BY <1>1, <1>7, <1>8
      <4>6. \A j \in 1 .. Len(chain) : bloom'[chain[j]].key = bloom'[chain[i]].key => i = j
        BY <4>3, <4>4, <4>5
      <4>7. Hv[bloom'[chain[i]].key] = g /\ bloom'[chain[i]].live BY <3>1, <4>1, <4>2
      <4> QED BY <2>1, <4>6, <4>7, <1>10
    <3> QED BY <3>3, <3>4
  <2>2. CASE h # g
    <3>1. hashtable'[h] = hashtable[h] BY <2>2, <1>10
    <3>2. \A j \in 1 .. Len(hashtable[h]) : bloom'[hashtable[h][j]] = bloom[hashtable[h][j]]
      BY <1>4, <1>7 DEF BloomIds
    <3> QED BY <3>1, <3>2 DEF ChainsSound
  <2> QED BY <2>1, <2>2
<1> QED BY <1>4, <1>5, <1>11, <1>13 DEF BloomIds

\* blooms_delete takes exactly the filter it found out of the table.
LEMMA DelUnlinkEffect ==
    ASSUME TypeOK, CallMatches, ChainsSound, NEW t \in Threads, DelUnlink(t)
    PROVE  LET d == Lookup(call[t].key) IN
           /\ BloomIds' = BloomIds /\ d \in BloomIds
           /\ Linked' = Linked \ {d}
           /\ ChainsSound'
<1> DEFINE k == call[t].key
           g == Hv[k]
           d == Lookup(k)
           m == FirstMatch(g, k)
           chain == Unlink(hashtable[g], m)
<1>1. k \in Keys /\ g \in Buckets BY HvAssumption DEF DelUnlink, CallMatches, DelCall
<1>2. /\ m \in 1 .. Len(hashtable[g]) /\ d = hashtable[g][m]
      /\ d \in BloomIds /\ bloom[d].key = k
  BY <1>1, LookupFacts DEF DelUnlink
<1>3. hashtable \in [Buckets -> Seq(BloomIds)] BY DEF TypeOK
<1>4. \A h \in Buckets : /\ Len(hashtable[h]) \in Nat
                         /\ \A i \in 1 .. Len(hashtable[h]) : hashtable[h][i] \in BloomIds
  BY <1>3, ElementOfSeq, LenProperties
<1>5. /\ Len(chain) = Len(hashtable[g]) - 1
      /\ \A j \in 1 .. Len(chain) :
            chain[j] = IF j < m THEN hashtable[g][j] ELSE hashtable[g][j + 1]
  BY <1>1, <1>2, <1>3, UnlinkFacts
<1>6. hashtable' = [hashtable EXCEPT ![g] = chain] BY DEF DelUnlink
<1>7. bloom' = bloom /\ BloomIds' = BloomIds BY DEF DelUnlink, BloomIds
<1> HIDE DEF chain, m, d
<1>8. /\ hashtable'[g] = chain
      /\ \A h \in Buckets \ {g} : hashtable'[h] = hashtable[h]
  BY <1>1, <1>3, <1>6
<1> DEFINE Old(j) == IF j < m THEN j ELSE j + 1
<1>9. \A j \in 1 .. Len(chain) : /\ Old(j) \in 1 .. Len(hashtable[g])
                                 /\ Old(j) # m
                                 /\ chain[j] = hashtable[g][Old(j)]
  BY <1>1, <1>2, <1>4, <1>5
<1>10. \A i \in 1 .. Len(hashtable[g]) : i # m => \E j \in 1 .. Len(chain) : Old(j) = i
  <2> SUFFICES ASSUME NEW i \in 1 .. Len(hashtable[g]), i # m
               PROVE  \E j \in 1 .. Len(chain) : Old(j) = i
    OBVIOUS
  <2>1. CASE i < m
    <3> i \in 1 .. Len(chain) /\ Old(i) = i BY <2>1, <1>1, <1>2, <1>4, <1>5
    <3> QED OBVIOUS
  <2>2. CASE i > m
    <3> i - 1 \in 1 .. Len(chain) /\ Old(i - 1) = i BY <2>2, <1>1, <1>2, <1>4, <1>5
    <3> QED OBVIOUS
  <2>3. i < m \/ i > m BY <1>1, <1>2, <1>4
  <2> QED BY <2>1, <2>2, <2>3
<1>11. \A i, j \in 1 .. Len(chain) : Old(i) = Old(j) => i = j
  BY <1>1, <1>2, <1>4, <1>5
<1>12. \A i \in 1 .. Len(hashtable[g]) : i # m => hashtable[g][i] # d
  BY <1>1, <1>2 DEF ChainsSound
<1>13. \A h \in Buckets \ {g} : \A i \in 1 .. Len(hashtable[h]) : hashtable[h][i] # d
  BY <1>1, <1>2 DEF ChainsSound
<1> HIDE DEF Old
<1>14. Linked' = Linked \ {d}
  <2>1. ASSUME NEW h \in Buckets, NEW i \in 1 .. Len(hashtable'[h])
        PROVE  hashtable'[h][i] \in Linked \ {d}
    <3>1. CASE h = g
      <4>1. i \in 1 .. Len(chain) BY <3>1, <1>8
      <4> QED BY <3>1, <4>1, <1>1, <1>4, <1>8, <1>9, <1>12 DEF Linked
    <3>2. CASE h # g BY <3>2, <1>4, <1>8, <1>13 DEF Linked
    <3> QED BY <3>1, <3>2
  <2>2. ASSUME NEW h \in Buckets, NEW i \in 1 .. Len(hashtable[h]), hashtable[h][i] # d
        PROVE  hashtable[h][i] \in Linked'
    <3>1. CASE h = g
      <4>1. i # m BY <2>2, <3>1, <1>2
      <4>2. PICK j \in 1 .. Len(chain) : Old(j) = i BY <3>1, <4>1, <1>10
      <4>3. chain[j] = hashtable[g][i] BY <4>2, <1>9
      <4> QED BY <3>1, <4>2, <4>3, <1>1, <1>4, <1>7, <1>8 DEF Linked
    <3>2. CASE h # g BY <3>2, <1>4, <1>7, <1>8 DEF Linked
    <3> QED BY <3>1, <3>2
  <2>3. \A x \in Linked' : x \in Linked \ {d} BY <2>1 DEF Linked
  <2>4. \A x \in Linked \ {d} : x \in Linked' BY <2>2 DEF Linked
  <2> QED BY <2>3, <2>4
<1>15. ChainsSound'
  <2> SUFFICES ASSUME NEW h \in Buckets, NEW i \in 1 .. Len(hashtable'[h])
               PROVE  /\ Hv[bloom[hashtable'[h][i]].key] = h
                      /\ bloom[hashtable'[h][i]].live
                      /\ \A j \in 1 .. Len(hashtable'[h]) :
                           bloom[hashtable'[h][j]].key = bloom[hashtable'[h][i]].key => i = j
    BY <1>7 DEF ChainsSound
  <2>1. CASE h = g
    <3>1. i \in 1 .. Len(chain) BY <2>1, <1>8
    <3>2. /\ Hv[bloom[chain[i]].key] = g /\ bloom[chain[i]].live
          /\ \A j \in 1 .. Len(hashtable[g]) :
                bloom[hashtable[g][j]].key = bloom[chain[i]].key => Old(i) = j
      BY <3>1, <1>1, <1>9 DEF ChainsSound
    <3>3. \A j \in 1 .. Len(chain) : bloom[chain[j]].key = bloom[chain[i]].key => i = j
      BY <3>1, <3>2, <1>9, <1>11
    <3> QED BY <2>1, <3>2, <3>3, <1>8
  <2>2. CASE h # g BY <2>2, <1>8 DEF ChainsSound
  <2> QED BY <2>1, <2>2
<1> QED BY <1>2, <1>7, <1>14, <1>15 DEF d

\* blooms_set leaves the chains, the keys and the life of the filters alone.
LEMMA SetBitsEffect ==
    ASSUME TypeOK, CallMatches, ChainsSound, NEW t \in Threads, SetBits(t)
    PROVE  /\ BloomIds' = BloomIds /\ Linked' = Linked
           /\ \A x \in BloomIds : bloom'[x].key = bloom[x].key /\ bloom'[x].live = bloom[x].live
           /\ ChainsSound'
<1> DEFINE b == Lookup(call[t].key)
           s == call[t].sub
<1>1. call[t].key \in Keys /\ s \in Subkeys BY DEF SetBits, CallMatches, SetCall
<1>2. b \in BloomIds BY <1>1, LookupFacts DEF SetBits
<1>3. bloom \in Seq(Bloom) BY DEF TypeOK
<1>4. bloom[b] \in Bloom BY <1>2, <1>3, ElementOfSeq DEF BloomIds
<1>5. /\ Filled(bloom[b], s) \in Bloom
      /\ Filled(bloom[b], s).key = bloom[b].key /\ Filled(bloom[b], s).live = bloom[b].live
  BY <1>1, <1>4, FilledFacts
<1>6. bloom' = [bloom EXCEPT ![b] = Filled(bloom[b], s)] /\ hashtable' = hashtable
  BY DEF SetBits
<1> HIDE DEF b
<1>7. Len(bloom') = Len(bloom) /\ \A x \in 1 .. Len(bloom) :
         bloom'[x] = IF x = b THEN Filled(bloom[b], s) ELSE bloom[x]
  BY <1>2, <1>3, <1>5, <1>6, ExceptSeq DEF BloomIds
<1>8. BloomIds' = BloomIds /\ Linked' = Linked BY <1>6, <1>7 DEF BloomIds, Linked
<1>9. \A x \in BloomIds : bloom'[x].key = bloom[x].key /\ bloom'[x].live = bloom[x].live
  BY <1>5, <1>7 DEF BloomIds
<1>10. \A h \in Buckets : \A i \in 1 .. Len(hashtable[h]) : hashtable[h][i] \in BloomIds
  BY ElementOfSeq DEF TypeOK
<1>11. ChainsSound' BY <1>6, <1>9, <1>10 DEF ChainsSound
<1> QED BY <1>8, <1>9, <1>11

\* blooms_delete frees the map of a filter that is no longer in the table.
LEMMA DelBytesStoreEffect ==
    ASSUME TypeOK, PointersValid, ChainsSound, NEW t \in Threads, DelBytesStore(t)
    PROVE  /\ BloomIds' = BloomIds /\ Linked' = Linked
           /\ ~ bloom'[cur[t]].live
           /\ \A x \in BloomIds : bloom'[x].live => bloom[x].live
           /\ ChainsSound'
<1> DEFINE b == cur[t]
<1>1. b \in BloomIds /\ b \notin Linked BY DEF DelBytesStore, PointersValid
<1>2. bloom \in Seq(Bloom) BY DEF TypeOK
<1>3. bloom[b] \in Bloom BY <1>1, <1>2, ElementOfSeq DEF BloomIds
<1>4. [bloom[b] EXCEPT !.live = FALSE] \in Bloom /\ ~ [bloom[b] EXCEPT !.live = FALSE].live
  BY <1>3 DEF Bloom
<1>5. bloom' = [bloom EXCEPT ![b] = [bloom[b] EXCEPT !.live = FALSE]] /\ hashtable' = hashtable
  BY <1>1 DEF DelBytesStore
<1>6. Len(bloom') = Len(bloom) /\ \A x \in 1 .. Len(bloom) :
         bloom'[x] = IF x = b THEN [bloom[b] EXCEPT !.live = FALSE] ELSE bloom[x]
  BY <1>1, <1>2, <1>4, <1>5, ExceptSeq DEF BloomIds
<1>7. BloomIds' = BloomIds /\ Linked' = Linked BY <1>5, <1>6 DEF BloomIds, Linked
<1>8. ~ bloom'[b].live /\ \A x \in BloomIds \ {b} : bloom'[x] = bloom[x]
  BY <1>1, <1>4, <1>6 DEF BloomIds
<1>9. \A h \in Buckets : \A i \in 1 .. Len(hashtable[h]) :
         hashtable[h][i] \in BloomIds /\ hashtable[h][i] # b
  <2>1. \A h \in Buckets : \A i \in 1 .. Len(hashtable[h]) : hashtable[h][i] \in BloomIds
    BY ElementOfSeq DEF TypeOK
  <2> QED BY <1>1, <2>1 DEF Linked
<1>10. ChainsSound' BY <1>5, <1>8, <1>9 DEF ChainsSound
<1> QED BY <1>7, <1>8, <1>10

-----------------------------------------------------------------------------
(* The chains, the pointers into them, and the filters outside them *)

\* Every step keeps every chain sound.
LEMMA ChainsSoundStep ==
    ASSUME TypeOK, CallMatches, PointersValid, ChainsSound, [Next]_vars
    PROVE  ChainsSound'
<1> USE DEF table, LockHash, LockDlist, Load, UnlockReturn, UnlockDlistLeave
<1>1. ASSUME NEW t \in Threads, Invoke(t) PROVE ChainsSound'
  BY <1>1, TableUnchanged DEF Invoke
<1>2. ASSUME NEW t \in Threads, AddStep(t) PROVE ChainsSound'
  <2>1. CASE AddLock(t) BY <2>1, TableUnchanged DEF AddLock
  <2>2. CASE AddExists(t) BY <2>2, TableUnchanged DEF AddExists
  <2>3. CASE AddRefused(t) BY <2>3, TableUnchanged DEF AddRefused
  <2>4. CASE AddLink(t) BY <2>4, AddLinkEffect
  <2>5. CASE AddThrows(t) BY <2>5, TableUnchanged DEF AddThrows
  <2>6. CASE AddCountLoad(t) BY <2>6, TableUnchanged DEF AddCountLoad
  <2>7. CASE AddCountStore(t) BY <2>7, TableUnchanged DEF AddCountStore
  <2>8. CASE AddBytesLoad(t) BY <2>8, TableUnchanged DEF AddBytesLoad
  <2>9. CASE AddBytesStore(t) BY <2>9, TableUnchanged DEF AddBytesStore
  <2>10. CASE AddDlistLock(t) BY <2>10, TableUnchanged DEF AddDlistLock
  <2>11. CASE AddDone(t) BY <2>11, TableUnchanged DEF AddDone
  <2> QED BY <1>2, <2>1, <2>2, <2>3, <2>4, <2>5, <2>6, <2>7,
              <2>8, <2>9, <2>10, <2>11 DEF AddStep
<1>3. ASSUME NEW t \in Threads, SetStep(t) PROVE ChainsSound'
  <2>1. CASE SetLock(t) BY <2>1, TableUnchanged DEF SetLock
  <2>2. CASE SetMissing(t) BY <2>2, TableUnchanged DEF SetMissing
  <2>3. CASE SetBits(t) BY <2>3, SetBitsEffect
  <2> QED BY <1>3, <2>1, <2>2, <2>3 DEF SetStep
<1>4. ASSUME NEW t \in Threads, GetStep(t) PROVE ChainsSound'
  <2>1. CASE GetLock(t) BY <2>1, TableUnchanged DEF GetLock
  <2>2. CASE GetMissing(t) BY <2>2, TableUnchanged DEF GetMissing
  <2>3. CASE GetFind(t) BY <2>3, TableUnchanged DEF GetFind
  <2>4. CASE GetAddr(t) BY <2>4, TableUnchanged DEF GetAddr
  <2>5. CASE GetHit(t) BY <2>5, TableUnchanged DEF GetHit
  <2>6. CASE GetAbsent(t) BY <2>6, TableUnchanged DEF GetAbsent
  <2>7. CASE GetPresent(t) BY <2>7, TableUnchanged DEF GetPresent
  <2> QED BY <1>4, <2>1, <2>2, <2>3, <2>4, <2>5, <2>6, <2>7 DEF GetStep
<1>5. ASSUME NEW t \in Threads, DelStep(t) PROVE ChainsSound'
  <2>1. CASE DelLock(t) BY <2>1, TableUnchanged DEF DelLock
  <2>2. CASE DelDlistLock(t) BY <2>2, TableUnchanged DEF DelDlistLock
  <2>3. CASE DelMissing(t) BY <2>3, TableUnchanged DEF DelMissing
  <2>4. CASE DelUnlink(t) BY <2>4, DelUnlinkEffect
  <2>5. CASE DelBytesLoad(t) BY <2>5, TableUnchanged DEF DelBytesLoad
  <2>6. CASE DelBytesStore(t) BY <2>6, DelBytesStoreEffect
  <2>7. CASE DelCountLoad(t) BY <2>7, TableUnchanged DEF DelCountLoad
  <2>8. CASE DelCountStore(t) BY <2>8, TableUnchanged DEF DelCountStore
  <2>9. CASE DelUnlockHash(t) BY <2>9, TableUnchanged DEF DelUnlockHash
  <2>10. CASE DelDone(t) BY <2>10, TableUnchanged DEF DelDone
  <2> QED BY <1>5, <2>1, <2>2, <2>3, <2>4, <2>5, <2>6, <2>7, <2>8, <2>9, <2>10 DEF DelStep
<1>6. CASE UNCHANGED vars BY <1>6, TableUnchanged DEF vars
<1> QED BY <1>1, <1>2, <1>3, <1>4, <1>5, <1>6 DEF Next, Step, Finished

\* Every step keeps the pointers of the threads where they should point.
LEMMA PointersValidStep ==
    ASSUME TypeOK, CallMatches, LocksHeld, PointersValid, ChainsSound, [Next]_vars
    PROVE  PointersValid'
<1> USE ThreadAssumption
    DEF TypeOK, PointersValid, Reading, table, locals, Goto, Answer, Leave,
        LockHash, LockDlist, Load, UnlockReturn, UnlockDlistLeave
<1>1. ASSUME NEW t \in Threads, Invoke(t) PROVE PointersValid'
  <2>1. PICK c \in Calls[t] : pc' = [pc EXCEPT ![t] = Entry[c.op]]
    BY <1>1 DEF Invoke
  <2>2. Entry[c.op] \in {"add_lock", "set_lock", "get_lock", "del_lock"} BY EntryLabel
  <2> QED BY <1>1, <2>1, <2>2, TableUnchanged DEF Invoke
<1>2. ASSUME NEW t \in Threads, AddStep(t) PROVE PointersValid'
  <2>1. CASE AddLock(t) BY <2>1, TableUnchanged DEF AddLock
  <2>2. CASE AddExists(t) BY <2>2, TableUnchanged DEF AddExists
  <2>3. CASE AddRefused(t) BY <2>3, TableUnchanged DEF AddRefused
  <2>4. CASE AddLink(t)
    <3>1. /\ BloomIds \subseteq BloomIds' /\ Linked \subseteq Linked'
          /\ Len(bloom) + 1 \in BloomIds' /\ Len(bloom) + 1 \notin BloomIds
          /\ Linked' = Linked \cup {Len(bloom) + 1}
      BY <2>4, AddLinkEffect
    <3>2. \A u \in Threads \ {t} : pc'[u] = pc[u] /\ cur'[u] = cur[u]
      BY <2>4 DEF AddLink
    <3>3. pc'[t] = "add_count_load" /\ cur'[t] = Len(bloom) + 1
      BY <2>4 DEF AddLink
    <3> QED BY <2>4, <3>1, <3>2, <3>3 DEF AddLink
  <2>5. CASE AddThrows(t) BY <2>5, TableUnchanged DEF AddThrows
  <2>6. CASE AddCountLoad(t) BY <2>6, TableUnchanged DEF AddCountLoad
  <2>7. CASE AddCountStore(t) BY <2>7, TableUnchanged DEF AddCountStore
  <2>8. CASE AddBytesLoad(t) BY <2>8, TableUnchanged DEF AddBytesLoad
  <2>9. CASE AddBytesStore(t) BY <2>9, TableUnchanged DEF AddBytesStore
  <2>10. CASE AddDlistLock(t) BY <2>10, TableUnchanged DEF AddDlistLock
  <2>11. CASE AddDone(t) BY <2>11, TableUnchanged DEF AddDone
  <2> QED BY <1>2, <2>1, <2>2, <2>3, <2>4, <2>5, <2>6, <2>7,
              <2>8, <2>9, <2>10, <2>11 DEF AddStep
<1>3. ASSUME NEW t \in Threads, SetStep(t) PROVE PointersValid'
  <2>1. CASE SetLock(t) BY <2>1, TableUnchanged DEF SetLock
  <2>2. CASE SetMissing(t) BY <2>2, TableUnchanged DEF SetMissing
  <2>3. CASE SetBits(t) BY <2>3, SetBitsEffect DEF SetBits
  <2> QED BY <1>3, <2>1, <2>2, <2>3 DEF SetStep
<1>4. ASSUME NEW t \in Threads, GetStep(t) PROVE PointersValid'
  <2>1. CASE GetLock(t) BY <2>1, TableUnchanged DEF GetLock
  <2>2. CASE GetMissing(t) BY <2>2, TableUnchanged DEF GetMissing
  <2>3. CASE GetFind(t)
    <3>1. call[t].key \in Keys BY <2>3 DEF GetFind, CallMatches, GetCall, HashReading
    <3>2. Lookup(call[t].key) \in Linked BY <2>3, <3>1, LookupFacts DEF GetFind
    <3> QED BY <2>3, <3>2, TableUnchanged DEF GetFind
  <2>4. CASE GetAddr(t) BY <2>4, TableUnchanged DEF GetAddr
  <2>5. CASE GetHit(t) BY <2>5, TableUnchanged DEF GetHit
  <2>6. CASE GetAbsent(t) BY <2>6, TableUnchanged DEF GetAbsent
  <2>7. CASE GetPresent(t) BY <2>7, TableUnchanged DEF GetPresent
  <2> QED BY <1>4, <2>1, <2>2, <2>3, <2>4, <2>5, <2>6, <2>7 DEF GetStep
<1>5. ASSUME NEW t \in Threads, DelStep(t) PROVE PointersValid'
  <2>1. CASE DelLock(t) BY <2>1, TableUnchanged DEF DelLock
  <2>2. CASE DelDlistLock(t) BY <2>2, TableUnchanged DEF DelDlistLock
  <2>3. CASE DelMissing(t) BY <2>3, TableUnchanged DEF DelMissing
  <2>4. CASE DelUnlink(t)
    <3> DEFINE d == Lookup(call[t].key)
    <3>1. BloomIds' = BloomIds /\ d \in BloomIds /\ Linked' = Linked \ {d}
      BY <2>4, DelUnlinkEffect
    <3>2. \A u \in Threads \ {t} : pc[u] \notin HashReading \cup HashWriting
      BY <2>4 DEF DelUnlink, LocksHeld, HashWriting
    <3>3. \A u \in Threads \ {t} : pc'[u] = pc[u] /\ cur'[u] = cur[u]
      BY <2>4 DEF DelUnlink
    <3>4. pc'[t] = "del_bytes_load" /\ cur'[t] = d BY <2>4 DEF DelUnlink
    <3> QED BY <3>1, <3>2, <3>3, <3>4 DEF HashReading, HashWriting
  <2>5. CASE DelBytesLoad(t) BY <2>5, TableUnchanged DEF DelBytesLoad
  <2>6. CASE DelBytesStore(t) BY <2>6, DelBytesStoreEffect DEF DelBytesStore
  <2>7. CASE DelCountLoad(t) BY <2>7, TableUnchanged DEF DelCountLoad
  <2>8. CASE DelCountStore(t) BY <2>8, TableUnchanged DEF DelCountStore
  <2>9. CASE DelUnlockHash(t) BY <2>9, TableUnchanged DEF DelUnlockHash
  <2>10. CASE DelDone(t) BY <2>10, TableUnchanged DEF DelDone
  <2> QED BY <1>5, <2>1, <2>2, <2>3, <2>4, <2>5, <2>6, <2>7, <2>8, <2>9, <2>10 DEF DelStep
<1>6. CASE UNCHANGED vars BY <1>6, TableUnchanged DEF vars
<1> QED BY <1>1, <1>2, <1>3, <1>4, <1>5, <1>6 DEF Next, Step, Finished

\* Every step keeps every live filter within reach.
LEMMA NoFilterLostStep ==
    ASSUME TypeOK, CallMatches, PointersValid, ChainsSound, NoFilterLost, [Next]_vars
    PROVE  NoFilterLost'
<1> USE DEF TypeOK, NoFilterLost, table, locals, Goto, Answer, Leave,
        LockHash, LockDlist, Load, UnlockReturn, UnlockDlistLeave
<1>1. ASSUME NEW t \in Threads, Invoke(t) PROVE NoFilterLost'
  BY <1>1, TableUnchanged DEF Invoke
<1>2. ASSUME NEW t \in Threads, AddStep(t) PROVE NoFilterLost'
  <2>1. CASE AddLock(t) BY <2>1, TableUnchanged DEF AddLock
  <2>2. CASE AddExists(t) BY <2>2, TableUnchanged DEF AddExists
  <2>3. CASE AddRefused(t) BY <2>3, TableUnchanged DEF AddRefused
  <2>4. CASE AddLink(t)
    <3> DEFINE b == Len(bloom) + 1
    <3> SUFFICES ASSUME NEW x \in BloomIds', bloom'[x].live
                 PROVE  \/ x \in Linked'
                        \/ \E u \in Threads : /\ pc'[u] \in {"del_bytes_load", "del_bytes_store"}
                                              /\ cur'[u] = x
      OBVIOUS
    <3>1. /\ BloomIds' = BloomIds \cup {b} /\ Linked' = Linked \cup {b}
          /\ \A y \in BloomIds : bloom'[y] = bloom[y]
      BY <2>4, AddLinkEffect
    <3>2. \A u \in Threads : pc[u] \in {"del_bytes_load", "del_bytes_store"}
                                => pc'[u] = pc[u] /\ cur'[u] = cur[u]
      BY <2>4 DEF AddLink
    <3>3. CASE x = b BY <3>1, <3>3
    <3>4. CASE x \in BloomIds
      <4>1. bloom[x].live BY <3>1, <3>4
      <4>2. CASE x \in Linked BY <3>1, <4>2
      <4>3. CASE x \notin Linked
        <5>1. PICK u \in Threads : /\ pc[u] \in {"del_bytes_load", "del_bytes_store"}
                                  /\ cur[u] = x
          BY <3>4, <4>1, <4>3
        <5> QED BY <3>2, <5>1
      <4> QED BY <4>2, <4>3
    <3> QED BY <3>1, <3>3, <3>4
  <2>5. CASE AddThrows(t) BY <2>5, TableUnchanged DEF AddThrows
  <2>6. CASE AddCountLoad(t) BY <2>6, TableUnchanged DEF AddCountLoad
  <2>7. CASE AddCountStore(t) BY <2>7, TableUnchanged DEF AddCountStore
  <2>8. CASE AddBytesLoad(t) BY <2>8, TableUnchanged DEF AddBytesLoad
  <2>9. CASE AddBytesStore(t) BY <2>9, TableUnchanged DEF AddBytesStore
  <2>10. CASE AddDlistLock(t) BY <2>10, TableUnchanged DEF AddDlistLock
  <2>11. CASE AddDone(t) BY <2>11, TableUnchanged DEF AddDone
  <2> QED BY <1>2, <2>1, <2>2, <2>3, <2>4, <2>5, <2>6, <2>7,
              <2>8, <2>9, <2>10, <2>11 DEF AddStep
<1>3. ASSUME NEW t \in Threads, SetStep(t) PROVE NoFilterLost'
  <2>1. CASE SetLock(t) BY <2>1, TableUnchanged DEF SetLock
  <2>2. CASE SetMissing(t) BY <2>2, TableUnchanged DEF SetMissing
  <2>3. CASE SetBits(t)
    <3> SUFFICES ASSUME NEW x \in BloomIds', bloom'[x].live
                 PROVE  \/ x \in Linked'
                        \/ \E u \in Threads : /\ pc'[u] \in {"del_bytes_load", "del_bytes_store"}
                                              /\ cur'[u] = x
      OBVIOUS
    <3>1. /\ BloomIds' = BloomIds /\ Linked' = Linked
          /\ \A y \in BloomIds : bloom'[y].live = bloom[y].live
      BY <2>3, SetBitsEffect
    <3>2. \A u \in Threads : pc[u] \in {"del_bytes_load", "del_bytes_store"}
                                => pc'[u] = pc[u] /\ cur'[u] = cur[u]
      BY <2>3 DEF SetBits
    <3>3. x \in BloomIds /\ bloom[x].live BY <3>1
    <3>4. CASE x \in Linked BY <3>1, <3>4
    <3>5. CASE x \notin Linked
      <4>1. PICK u \in Threads : /\ pc[u] \in {"del_bytes_load", "del_bytes_store"}
                                /\ cur[u] = x
        BY <3>3, <3>5
      <4> QED BY <3>2, <4>1
    <3> QED BY <3>4, <3>5
  <2> QED BY <1>3, <2>1, <2>2, <2>3 DEF SetStep
<1>4. ASSUME NEW t \in Threads, GetStep(t) PROVE NoFilterLost'
  <2>1. CASE GetLock(t) BY <2>1, TableUnchanged DEF GetLock
  <2>2. CASE GetMissing(t) BY <2>2, TableUnchanged DEF GetMissing
  <2>3. CASE GetFind(t) BY <2>3, TableUnchanged DEF GetFind
  <2>4. CASE GetAddr(t) BY <2>4, TableUnchanged DEF GetAddr
  <2>5. CASE GetHit(t) BY <2>5, TableUnchanged DEF GetHit
  <2>6. CASE GetAbsent(t) BY <2>6, TableUnchanged DEF GetAbsent
  <2>7. CASE GetPresent(t) BY <2>7, TableUnchanged DEF GetPresent
  <2> QED BY <1>4, <2>1, <2>2, <2>3, <2>4, <2>5, <2>6, <2>7 DEF GetStep
<1>5. ASSUME NEW t \in Threads, DelStep(t) PROVE NoFilterLost'
  <2>1. CASE DelLock(t) BY <2>1, TableUnchanged DEF DelLock
  <2>2. CASE DelDlistLock(t) BY <2>2, TableUnchanged DEF DelDlistLock
  <2>3. CASE DelMissing(t) BY <2>3, TableUnchanged DEF DelMissing
  <2>4. CASE DelUnlink(t)
    <3> DEFINE d == Lookup(call[t].key)
    <3> SUFFICES ASSUME NEW x \in BloomIds', bloom'[x].live
                 PROVE  \/ x \in Linked'
                        \/ \E u \in Threads : /\ pc'[u] \in {"del_bytes_load", "del_bytes_store"}
                                              /\ cur'[u] = x
      OBVIOUS
    <3>1. /\ BloomIds' = BloomIds /\ Linked' = Linked \ {d} /\ bloom' = bloom
      BY <2>4, DelUnlinkEffect DEF DelUnlink
    <3>2. pc'[t] = "del_bytes_load" /\ cur'[t] = d BY <2>4 DEF DelUnlink
    <3>3. \A u \in Threads : pc[u] \in {"del_bytes_load", "del_bytes_store"}
                                => pc'[u] = pc[u] /\ cur'[u] = cur[u]
      BY <2>4 DEF DelUnlink
    <3> HIDE DEF d
    <3>4. x \in BloomIds /\ bloom[x].live BY <3>1
    <3>5. CASE x = d BY <3>2, <3>5
    <3>6. CASE x # d /\ x \in Linked BY <3>1, <3>6
    <3>7. CASE x \notin Linked
      <4>1. PICK u \in Threads : /\ pc[u] \in {"del_bytes_load", "del_bytes_store"}
                                /\ cur[u] = x
        BY <3>4, <3>7
      <4> QED BY <3>3, <4>1
    <3> QED BY <3>5, <3>6, <3>7
  <2>5. CASE DelBytesLoad(t) BY <2>5, TableUnchanged DEF DelBytesLoad
  <2>6. CASE DelBytesStore(t)
    <3> SUFFICES ASSUME NEW x \in BloomIds', bloom'[x].live
                 PROVE  \/ x \in Linked'
                        \/ \E u \in Threads : /\ pc'[u] \in {"del_bytes_load", "del_bytes_store"}
                                              /\ cur'[u] = x
      OBVIOUS
    <3>1. /\ BloomIds' = BloomIds /\ Linked' = Linked /\ ~ bloom'[cur[t]].live
          /\ \A y \in BloomIds : bloom'[y].live => bloom[y].live
      BY <2>6, DelBytesStoreEffect
    <3>2. \A u \in Threads \ {t} : pc'[u] = pc[u] /\ cur'[u] = cur[u]
      BY <2>6 DEF DelBytesStore
    <3>3. x \in BloomIds /\ bloom[x].live /\ x # cur[t] BY <3>1
    <3>4. CASE x \in Linked BY <3>1, <3>4
    <3>5. CASE x \notin Linked
      <4>1. PICK u \in Threads : /\ pc[u] \in {"del_bytes_load", "del_bytes_store"}
                                /\ cur[u] = x
        BY <3>3, <3>5
      <4> QED BY <3>2, <3>3, <4>1
    <3> QED BY <3>4, <3>5
  <2>7. CASE DelCountLoad(t) BY <2>7, TableUnchanged DEF DelCountLoad
  <2>8. CASE DelCountStore(t) BY <2>8, TableUnchanged DEF DelCountStore
  <2>9. CASE DelUnlockHash(t) BY <2>9, TableUnchanged DEF DelUnlockHash
  <2>10. CASE DelDone(t) BY <2>10, TableUnchanged DEF DelDone
  <2> QED BY <1>5, <2>1, <2>2, <2>3, <2>4, <2>5, <2>6, <2>7, <2>8, <2>9, <2>10 DEF DelStep
<1>6. CASE UNCHANGED vars BY <1>6, TableUnchanged DEF vars
<1> QED BY <1>1, <1>2, <1>3, <1>4, <1>5, <1>6 DEF Next, Step, Finished

-----------------------------------------------------------------------------
(* The theorems *)

\* The inductive invariant holds in every reachable state, for every set of
\* threads, keys, subkeys and buckets, every hash and every limit.
THEOREM Inductive == Spec => []IndInv
<1>1. Init => IndInv
  <2> SUFFICES ASSUME Init PROVE IndInv OBVIOUS
  <2>1. Len(bloom) = 0 /\ BloomIds = {} BY DEF Init, BloomIds
  <2>2. \A h \in Buckets : Len(hashtable[h]) = 0 /\ hashtable[h] \in Seq(BloomIds)
    BY DEF Init
  <2>3. TypeOK
    BY <2>1, <2>2, SizeAssumption DEF Init, TypeOK, Labels
  <2>4. CallMatches BY DEF Init, CallMatches, HashReading
  <2>5. LocksHeld BY DEF Init, LocksHeld, HashReading, HashWriting, DlistWriting
  <2>6. PointersValid BY DEF Init, PointersValid, Reading
  <2>7. ChainsSound BY <2>2 DEF ChainsSound
  <2>8. NoFilterLost BY <2>1 DEF NoFilterLost
  <2> QED BY <2>3, <2>4, <2>5, <2>6, <2>7, <2>8 DEF IndInv
<1>2. IndInv /\ [Next]_vars => IndInv'
  BY TypeStep, CallMatchesStep, LocksHeldStep, PointersValidStep, ChainsSoundStep,
     NoFilterLostStep DEF IndInv
<1> QED BY <1>1, <1>2, PTL DEF Spec

\* The table and the thread locals are always well typed.
THEOREM TypeCorrect == Spec => []TypeOK
<1>1. IndInv => TypeOK BY DEF IndInv
<1> QED BY <1>1, Inductive, PTL

\* A thread in a writing section of blooms_add, blooms_set or blooms_delete is
\* alone with the table.
THEOREM Exclusion == Spec => []HashExclusion
<1>1. IndInv => HashExclusion
  BY ThreadAssumption DEF IndInv, LocksHeld, HashExclusion
<1> QED BY <1>1, Inductive, PTL

\* No chain ever holds a key twice, a filter of another bucket or a freed map.
THEOREM ChainsAlwaysSound == Spec => []ChainsSound
<1>1. IndInv => ChainsSound BY DEF IndInv
<1> QED BY <1>1, Inductive, PTL

\* No filter drops out of the table except through blooms_delete.
THEOREM FiltersNeverLost == Spec => []NoFilterLost
<1>1. IndInv => NoFilterLost BY DEF IndInv
<1> QED BY <1>1, Inductive, PTL

\* bloom_get never looks through bloom_get_addr into a freed map.
THEOREM AddrAlwaysAlive == Spec => []AddrAlive
<1>1. IndInv => AddrAlive
  BY DEF IndInv, AddrAlive, PointersValid, ChainsSound, Linked
<1> QED BY <1>1, Inductive, PTL

-----------------------------------------------------------------------------
(* Locks that are given back *)

\* A thread holds a lock only where it relies on it, unless an exception made
\* it leave blooms_add without the unlock.
LocksTight ==
    \A t \in Threads :
        /\ hashW = t => pc[t] \in HashWriting
        /\ t \in hashR => pc[t] \in HashReading
        /\ dlistW = t => pc[t] \in DlistWriting

\* Every path through the four functions releases what it took.
LEMMA LocksTightStep ==
    ASSUME ~AllocFails, TypeOK, LocksHeld, LocksTight, [Next]_vars
    PROVE  LocksTight'
<1> USE ThreadAssumption DEF TypeOK, LocksHeld, LocksTight, HashWriting, HashReading,
        DlistWriting, locks, locals, table, totals, Goto, Answer, Leave,
        LockHash, LockDlist, Load, UnlockReturn, UnlockDlistLeave
<1>1. ASSUME NEW t \in Threads, Invoke(t) PROVE LocksTight'
  <2>1. PICK c \in Calls[t] : pc' = [pc EXCEPT ![t] = Entry[c.op]]
    BY <1>1 DEF Invoke
  <2> QED BY <1>1, <2>1 DEF Invoke
<1>2. ASSUME NEW t \in Threads, AddStep(t) PROVE LocksTight'
  <2>1. CASE AddLock(t) BY <2>1 DEF AddLock, WrLockHash
  <2>2. CASE AddExists(t) BY <2>2 DEF AddExists, UnlockHash
  <2>3. CASE AddRefused(t) BY <2>3 DEF AddRefused, UnlockHash
  <2>4. CASE AddLink(t) BY <2>4 DEF AddLink, UnlockHash
  <2>5. CASE AddThrows(t) BY <2>5 DEF AddThrows
  <2>6. CASE AddCountLoad(t) BY <2>6 DEF AddCountLoad
  <2>7. CASE AddCountStore(t) BY <2>7 DEF AddCountStore
  <2>8. CASE AddBytesLoad(t) BY <2>8 DEF AddBytesLoad
  <2>9. CASE AddBytesStore(t) BY <2>9 DEF AddBytesStore
  <2>10. CASE AddDlistLock(t) BY <2>10 DEF AddDlistLock
  <2>11. CASE AddDone(t) BY <2>11 DEF AddDone
  <2> QED BY <1>2, <2>1, <2>2, <2>3, <2>4, <2>5, <2>6, <2>7, <2>8, <2>9, <2>10, <2>11
       DEF AddStep
<1>3. ASSUME NEW t \in Threads, SetStep(t) PROVE LocksTight'
  <2>1. CASE SetLock(t) BY <2>1 DEF SetLock, WrLockHash
  <2>2. CASE SetMissing(t) BY <2>2 DEF SetMissing, UnlockHash
  <2>3. CASE SetBits(t) BY <2>3 DEF SetBits, UnlockHash
  <2> QED BY <1>3, <2>1, <2>2, <2>3 DEF SetStep
<1>4. ASSUME NEW t \in Threads, GetStep(t) PROVE LocksTight'
  <2>1. CASE GetLock(t) BY <2>1 DEF GetLock, RdLockHash
  <2>2. CASE GetMissing(t) BY <2>2 DEF GetMissing, UnlockHash
  <2>3. CASE GetFind(t) BY <2>3 DEF GetFind
  <2>4. CASE GetAddr(t) BY <2>4 DEF GetAddr
  <2>5. CASE GetHit(t) BY <2>5 DEF GetHit
  <2>6. CASE GetAbsent(t) BY <2>6 DEF GetAbsent, UnlockHash
  <2>7. CASE GetPresent(t) BY <2>7 DEF GetPresent, UnlockHash
  <2> QED BY <1>4, <2>1, <2>2, <2>3, <2>4, <2>5, <2>6, <2>7 DEF GetStep
<1>5. ASSUME NEW t \in Threads, DelStep(t) PROVE LocksTight'
  <2>1. CASE DelLock(t) BY <2>1 DEF DelLock, WrLockHash
  <2>2. CASE DelDlistLock(t) BY <2>2 DEF DelDlistLock
  <2>3. CASE DelMissing(t) BY <2>3 DEF DelMissing
  <2>4. CASE DelUnlink(t) BY <2>4 DEF DelUnlink
  <2>5. CASE DelBytesLoad(t) BY <2>5 DEF DelBytesLoad
  <2>6. CASE DelBytesStore(t) BY <2>6 DEF DelBytesStore
  <2>7. CASE DelCountLoad(t) BY <2>7 DEF DelCountLoad
  <2>8. CASE DelCountStore(t) BY <2>8 DEF DelCountStore
  <2>9. CASE DelUnlockHash(t) BY <2>9 DEF DelUnlockHash, UnlockHash
  <2>10. CASE DelDone(t) BY <2>10 DEF DelDone
  <2> QED BY <1>5, <2>1, <2>2, <2>3, <2>4, <2>5, <2>6, <2>7, <2>8, <2>9, <2>10 DEF DelStep
<1>6. CASE UNCHANGED vars BY <1>6 DEF vars
<1> QED BY <1>1, <1>2, <1>3, <1>4, <1>5, <1>6 DEF Next, Step, Finished

\* When memory does not run out, no lock is kept.
LEMMA LocksAlwaysTight == ~AllocFails => (Spec => []LocksTight)
<1> SUFFICES ASSUME ~AllocFails PROVE Spec => []LocksTight
  OBVIOUS
<1>1. Init => LocksTight
  BY ThreadAssumption DEF Init, LocksTight
<1>2. IndInv /\ LocksTight /\ [Next]_vars => LocksTight'
  BY LocksTightStep DEF IndInv
<1> QED BY <1>1, <1>2, Inductive, PTL DEF Spec

\* When memory does not run out, a call that has returned has released both locks.
THEOREM ReturnsWithoutLock == ~AllocFails => (Spec => []IdleHoldsNoLock)
<1> SUFFICES ASSUME ~AllocFails PROVE Spec => []IdleHoldsNoLock
  OBVIOUS
<1>1. LocksTight => IdleHoldsNoLock
  BY DEF LocksTight, IdleHoldsNoLock, HashWriting, HashReading, DlistWriting
<1> QED BY <1>1, LocksAlwaysTight, PTL

-----------------------------------------------------------------------------
(* Deadlock *)

\* Who holds a lock is in a section where it waits for nothing, or it waits for
\* bloom_dlist_lock, whose holder waits for nothing: there is no circle.
LEMMA LocksInOrder ==
    ASSUME TypeOK, LocksTight, NEW t \in Threads, Waits(t)
    PROVE  \E u \in Threads : pc[u] # "idle" /\ ~Waits(u)
<1> USE DEF TypeOK, HashWriting, HashReading, DlistWriting
<1>1. ASSUME NEW u \in Threads, dlistW = u
      PROVE  pc[u] # "idle" /\ ~Waits(u)
  <2>1. pc[u] \in DlistWriting BY <1>1 DEF LocksTight
  <2> QED BY <2>1 DEF Waits
<1>2. ASSUME NEW u \in Threads, hashW = u
      PROVE  \E v \in Threads : pc[v] # "idle" /\ ~Waits(v)
  <2>1. pc[u] \in HashWriting BY <1>2 DEF LocksTight
  <2>2. CASE Waits(u)
    <3>1. dlistW \in Threads BY <2>1, <2>2 DEF Waits
    <3> QED BY <3>1, <1>1
  <2>3. CASE ~Waits(u) BY <2>1, <2>3
  <2> QED BY <2>2, <2>3
<1>3. ASSUME NEW u \in Threads, u \in hashR
      PROVE  pc[u] # "idle" /\ ~Waits(u)
  <2>1. pc[u] \in HashReading BY <1>3 DEF LocksTight
  <2> QED BY <2>1 DEF Waits
<1>4. \/ hashW \in Threads \/ dlistW \in Threads \/ \E u \in Threads : u \in hashR
  BY DEF Waits
<1> QED BY <1>1, <1>2, <1>3, <1>4

\* When memory does not run out, the calls in progress never all wait for one
\* another.
THEOREM NeverDeadlocked == ~AllocFails => (Spec => []NoDeadlock)
<1> SUFFICES ASSUME ~AllocFails PROVE Spec => []NoDeadlock
  OBVIOUS
<1>1. IndInv /\ LocksTight => NoDeadlock
  BY LocksInOrder DEF IndInv, NoDeadlock, Quiet
<1> QED BY <1>1, Inductive, LocksAlwaysTight, PTL
=============================================================================
