-------------------------- MODULE FilterStore_proofs --------------------------
(***************************************************************************)
(* BloomRegistry implements FilterStore, for every set of threads, keys,   *)
(* subkeys and buckets, every hash function and every memory limit: each   *)
(* step of the table is a step of the store or changes nothing of it.      *)
(*                                                                         *)
(* The only step for which that is not a matter of locks and chains is the *)
(* get that answers 0.  Why it is right unless another get disturbed it is *)
(* what GetSound says: until then all readers look into the same filter,   *)
(* so the global bloom_get_addr cannot point elsewhere.                    *)
(***************************************************************************)
EXTENDS BloomRegistry_proofs

\* The bits of every subkey that was put into a filter are set in its map.
BitsSound ==
    \A b \in BloomIds : \A s \in bloom[b].subs : BitsOf(bloom[b].n, s) \subseteq bloom[b].bits

\* A reader walks over the filter it was called for; if no get on another filter
\* has overlapped it, all readers do, and the global points to it.
ReadersSound ==
    \A t \in Threads : Reading(t) =>
        /\ bloom[cur[t]].key = call[t].key
        /\ idx[t] >= 1
        /\ ~overlap[t] => \A u \in Threads : Reading(u) => cur[u] = cur[t]
        /\ pc[t] = "get_check" => /\ idx[t] <= Len(Positions(t))
                                  /\ ~overlap[t] => bloom_get_addr = cur[t]

\* Only a get that is in the loop can be disturbed.
OnlyReadersDisturbed == \A t \in Threads : overlap[t] => Reading(t)

GetSound == BitsSound /\ ReadersSound /\ OnlyReadersDisturbed

-----------------------------------------------------------------------------
(* GetSound is an invariant. *)

\* bloom_init's map is empty, bloom_set sets all the bits of a subkey, and
\* nothing ever clears one.
LEMMA BitsSoundStep ==
    ASSUME IndInv, BitsSound, [Next]_vars
    PROVE  BitsSound'
<1> USE DEF IndInv
<1>1. ASSUME NEW t \in Threads, AddLink(t) PROVE BitsSound'
  <2> DEFINE b == Len(bloom) + 1
  <2>1. /\ BloomIds' = BloomIds \cup {b} /\ bloom'[b] = NewBloom(call[t])
        /\ \A x \in BloomIds : bloom'[x] = bloom[x]
    BY <1>1, AddLinkEffect
  <2>2. NewBloom(call[t]).subs = {}
    BY DEF NewBloom
  <2> HIDE DEF b
  <2> QED BY <2>1, <2>2 DEF BitsSound
<1>2. ASSUME NEW t \in Threads, SetBits(t) PROVE BitsSound'
  <2> DEFINE b == Lookup(call[t].key)
             s == call[t].sub
  <2>1. call[t].key \in Keys /\ s \in Subkeys
    BY <1>2 DEF SetBits, CallMatches, SetCall
  <2>2. b \in BloomIds /\ bloom[b] \in Bloom
    BY <1>2, <2>1, LookupFacts, ElementOfSeq DEF SetBits, TypeOK, BloomIds
  <2>3. /\ bloom'[b] = Filled(bloom[b], s)
        /\ \A x \in BloomIds : x # b => bloom'[x] = bloom[x]
    BY <1>2, <2>2 DEF SetBits, TypeOK, BloomIds
  <2>4. \A x \in Subkeys : x \in Filled(bloom[b], s).subs =>
           BitsOf(bloom[b].n, x) \subseteq Filled(bloom[b], s).bits
    BY <2>1, <2>2, FilledFacts DEF BitsSound
  <2>5. Filled(bloom[b], s).n = bloom[b].n /\ Filled(bloom[b], s).subs \subseteq Subkeys
    BY <2>1, <2>2, FilledFacts DEF Bloom
  <2>6. BloomIds' = BloomIds
    BY <1>2, SetBitsEffect
  <2> HIDE DEF b, s
  <2> QED BY <2>3, <2>4, <2>5, <2>6 DEF BitsSound
<1>3. ASSUME NEW t \in Threads, DelBytesStore(t) PROVE BitsSound'
  <2>1. BloomIds' = BloomIds
    BY <1>3, DelBytesStoreEffect
  <2>2. \A x \in BloomIds : /\ bloom'[x].n = bloom[x].n /\ bloom'[x].subs = bloom[x].subs
                            /\ bloom'[x].bits = bloom[x].bits
    <3>1. \A x \in BloomIds : bloom[x] \in Bloom
      BY ElementOfSeq DEF TypeOK, BloomIds
    <3> QED BY <1>3, <3>1 DEF DelBytesStore, TypeOK, BloomIds, Bloom
  <2> QED BY <2>1, <2>2 DEF BitsSound
<1>4. CASE UNCHANGED bloom
  BY <1>4 DEF BitsSound, BloomIds
<1>5. CASE UNCHANGED vars
  BY <1>4, <1>5 DEF vars, table
<1>6. ASSUME NEW t \in Threads, Invoke(t) \/ Step(t) PROVE BitsSound'
  <2> USE <1>4 DEF table, LockHash, LockDlist, Load, UnlockReturn, UnlockDlistLeave
  <2>1. CASE Invoke(t) BY <2>1 DEF Invoke
  <2>2. CASE AddStep(t)
    BY <1>1, <2>2 DEF AddStep, AddLock, AddExists, AddRefused, AddThrows, AddCountLoad,
       AddCountStore, AddBytesLoad, AddBytesStore, AddDlistLock, AddDone
  <2>3. CASE SetStep(t)
    BY <1>2, <2>3 DEF SetStep, SetLock, SetMissing
  <2>4. CASE GetStep(t)
    BY <2>4 DEF GetStep, GetLock, GetMissing, GetFind, GetAddr, GetHit, GetAbsent, GetPresent
  <2>5. CASE DelStep(t)
    BY <1>3, <2>5 DEF DelStep, DelLock, DelDlistLock, DelMissing, DelUnlink, DelBytesLoad,
       DelCountLoad, DelCountStore, DelUnlockHash, DelDone
  <2> QED BY <1>6, <2>1, <2>2, <2>3, <2>4, <2>5 DEF Step
<1> QED BY <1>5, <1>6 DEF Next, Finished

\* Filters keep their name and size, and nothing that readers know is touched.
ReaderFrame ==
    /\ \A b \in BloomIds : bloom'[b].key = bloom[b].key /\ bloom'[b].n = bloom[b].n
    /\ bloom_get_addr' = bloom_get_addr
    /\ \A u \in Threads : Reading(u)' =>
          /\ Reading(u) /\ pc'[u] = pc[u] /\ call'[u] = call[u] /\ cur'[u] = cur[u]
          /\ idx'[u] = idx[u] /\ overlap'[u] = overlap[u]

\* Then what readers know stays true.
LEMMA ReaderFrameKeeps ==
    ASSUME PointersValid, ReadersSound, ReaderFrame
    PROVE  ReadersSound'
<1> SUFFICES ASSUME NEW t \in Threads, Reading(t)'
             PROVE  /\ bloom'[cur'[t]].key = call'[t].key
                    /\ idx'[t] >= 1
                    /\ ~overlap'[t] => \A u \in Threads : Reading(u)' => cur'[u] = cur'[t]
                    /\ pc'[t] = "get_check" => /\ idx'[t] <= Len(Positions(t)')
                                               /\ ~overlap'[t] => bloom_get_addr' = cur'[t]
  BY DEF ReadersSound
<1>1. /\ Reading(t) /\ pc'[t] = pc[t] /\ call'[t] = call[t] /\ cur'[t] = cur[t]
      /\ idx'[t] = idx[t] /\ overlap'[t] = overlap[t]
  BY DEF ReaderFrame
<1>2. cur[t] \in BloomIds
  BY <1>1 DEF PointersValid, Linked
<1>3. bloom'[cur'[t]].key = bloom[cur[t]].key /\ Positions(t)' = Positions(t)
  BY <1>1, <1>2 DEF ReaderFrame, Positions
<1> QED BY <1>1, <1>3 DEF ReadersSound, ReaderFrame

\* A filter keeps its name and its size for good.
LEMMA NamesKept ==
    ASSUME IndInv, [Next]_vars
    PROVE  \A b \in BloomIds : bloom'[b].key = bloom[b].key /\ bloom'[b].n = bloom[b].n
<1> DEFINE Kept == \A b \in BloomIds : bloom'[b].key = bloom[b].key /\ bloom'[b].n = bloom[b].n
<1> USE DEF IndInv
<1>0. \A b \in BloomIds : bloom[b] \in Bloom
  BY ElementOfSeq DEF TypeOK, BloomIds
<1>1. ASSUME NEW t \in Threads, AddLink(t) PROVE Kept
  BY <1>1, AddLinkEffect
<1>2. ASSUME NEW t \in Threads, SetBits(t) PROVE Kept
  <2> DEFINE b == Lookup(call[t].key)
  <2>1. call[t].key \in Keys /\ call[t].sub \in Subkeys
    BY <1>2 DEF SetBits, CallMatches, SetCall
  <2>2. b \in BloomIds
    BY <1>2, <2>1, LookupFacts DEF SetBits
  <2>3. /\ bloom'[b] = Filled(bloom[b], call[t].sub)
        /\ \A x \in BloomIds : x # b => bloom'[x] = bloom[x]
    BY <1>2, <2>2 DEF SetBits, TypeOK, BloomIds
  <2> QED BY <1>0, <2>1, <2>2, <2>3, FilledFacts
<1>3. ASSUME NEW t \in Threads, DelBytesStore(t) PROVE Kept
  BY <1>0, <1>3 DEF DelBytesStore, TypeOK, BloomIds, Bloom
<1>4. CASE UNCHANGED bloom
  BY <1>4
<1>5. CASE UNCHANGED vars
  BY <1>4, <1>5 DEF vars, table
<1>6. ASSUME NEW t \in Threads, Invoke(t) \/ Step(t) PROVE Kept
  <2> USE <1>4 DEF table, LockHash, LockDlist, Load, UnlockReturn, UnlockDlistLeave
  <2>1. CASE Invoke(t) BY <2>1 DEF Invoke
  <2>2. CASE AddStep(t)
    BY <1>1, <2>2 DEF AddStep, AddLock, AddExists, AddRefused, AddThrows, AddCountLoad,
       AddCountStore, AddBytesLoad, AddBytesStore, AddDlistLock, AddDone
  <2>3. CASE SetStep(t)
    BY <1>2, <2>3 DEF SetStep, SetLock, SetMissing
  <2>4. CASE GetStep(t)
    BY <2>4 DEF GetStep, GetLock, GetMissing, GetFind, GetAddr, GetHit, GetAbsent, GetPresent
  <2>5. CASE DelStep(t)
    BY <1>3, <2>5 DEF DelStep, DelLock, DelDlistLock, DelMissing, DelUnlink, DelBytesLoad,
       DelCountLoad, DelCountStore, DelUnlockHash, DelDone
  <2> QED BY <1>6, <2>1, <2>2, <2>3, <2>4, <2>5 DEF Step
<1> QED BY <1>5, <1>6 DEF Next, Finished

\* A get that enters the loop tells every reader of another filter, and itself.
LEMMA GetFindReaders ==
    ASSUME IndInv, ReadersSound, NEW t \in Threads, GetFind(t)
    PROVE  ReadersSound'
<1> DEFINE b == Lookup(call[t].key)
           rivals == {u \in Threads : Reading(u) /\ cur[u] # b}
<1> USE DEF IndInv
<1>1. /\ pc[t] = "get_find" /\ pc' = [pc EXCEPT ![t] = "get_addr"]
      /\ cur' = [cur EXCEPT ![t] = b] /\ idx' = [idx EXCEPT ![t] = 1]
      /\ overlap' = [u \in Threads |-> IF u = t THEN rivals # {} ELSE overlap[u] \/ u \in rivals]
      /\ UNCHANGED <<bloom, call, bloom_get_addr>>
  BY DEF GetFind, Goto, table
<1>2. b \in BloomIds /\ bloom[b].key = call[t].key
  BY LookupFacts DEF GetFind, CallMatches, GetCall, HashReading
<1>3. ~Reading(t) /\ \A u \in Threads : Reading(u)' <=> u = t \/ Reading(u)
  BY <1>1 DEF Reading, TypeOK
<1>4. \A u \in Threads \ {t} : /\ pc'[u] = pc[u] /\ cur'[u] = cur[u] /\ idx'[u] = idx[u]
                               /\ ~overlap'[u] /\ Reading(u) => ~overlap[u] /\ cur[u] = b
  BY <1>1 DEF TypeOK
<1>5. /\ pc'[t] = "get_addr" /\ cur'[t] = b /\ idx'[t] = 1
      /\ ~overlap'[t] => \A u \in Threads : Reading(u) => cur[u] = b
  BY <1>1 DEF TypeOK
<1> HIDE DEF b, rivals
<1>6. \A u \in Threads \ {t} : Reading(u) => Positions(u)' = Positions(u)
  BY <1>1, <1>4 DEF Positions
<1> QED BY <1>1, <1>2, <1>3, <1>4, <1>5, <1>6 DEF ReadersSound

\* The global is aimed at the filter of this reader.
LEMMA GetAddrReaders ==
    ASSUME IndInv, ReadersSound, NEW t \in Threads, GetAddr(t)
    PROVE  ReadersSound'
<1> USE DEF IndInv
<1>1. /\ pc[t] = "get_addr" /\ pc' = [pc EXCEPT ![t] = "get_check"]
      /\ idx[t] <= Len(Positions(t)) /\ bloom_get_addr' = cur[t]
      /\ UNCHANGED <<bloom, call, cur, idx, overlap>>
  BY DEF GetAddr, Goto, table, locals
<1>2. Reading(t) /\ \A u \in Threads : Reading(u)' <=> Reading(u)
  BY <1>1 DEF Reading, TypeOK
<1>3. \A u \in Threads : Positions(u)' = Positions(u)
  BY <1>1 DEF Positions
<1>4. \A u \in Threads \ {t} : pc'[u] = pc[u]
  BY <1>1 DEF TypeOK
<1> QED BY <1>1, <1>2, <1>3, <1>4 DEF ReadersSound

\* The loop goes on with the next position.
LEMMA GetHitReaders ==
    ASSUME IndInv, ReadersSound, NEW t \in Threads, GetHit(t)
    PROVE  ReadersSound'
<1> USE DEF IndInv
<1>1. /\ pc[t] = "get_check" /\ pc' = [pc EXCEPT ![t] = "get_addr"]
      /\ idx' = [idx EXCEPT ![t] = @ + 1]
      /\ UNCHANGED <<bloom, call, cur, overlap, bloom_get_addr>>
  BY DEF GetHit, Goto, table
<1>2. Reading(t) /\ \A u \in Threads : Reading(u)' <=> Reading(u)
  BY <1>1 DEF Reading, TypeOK
<1>3. \A u \in Threads : Positions(u)' = Positions(u)
  BY <1>1 DEF Positions
<1>4. /\ \A u \in Threads \ {t} : pc'[u] = pc[u] /\ idx'[u] = idx[u]
      /\ pc'[t] = "get_addr" /\ idx'[t] = idx[t] + 1 /\ idx[t] \in Nat
  BY <1>1 DEF TypeOK
<1> QED BY <1>1, <1>2, <1>3, <1>4 DEF ReadersSound

\* No other step touches what readers know.
LEMMA ReadersSoundStep ==
    ASSUME IndInv, ReadersSound, [Next]_vars
    PROVE  ReadersSound'
<1> DEFINE Frame == /\ bloom_get_addr' = bloom_get_addr
                    /\ \A u \in Threads : Reading(u)' =>
                          /\ Reading(u) /\ pc'[u] = pc[u] /\ call'[u] = call[u]
                          /\ cur'[u] = cur[u] /\ idx'[u] = idx[u] /\ overlap'[u] = overlap[u]
<1> USE DEF IndInv
<1>1. CASE Frame
  BY <1>1, NamesKept, ReaderFrameKeeps DEF ReaderFrame
<1>2. ASSUME NEW t \in Threads, Invoke(t) PROVE Frame
  <2>1. PICK c \in Calls[t] : pc' = [pc EXCEPT ![t] = Entry[c.op]] /\ call' = [call EXCEPT ![t] = c]
    BY <1>2 DEF Invoke, Goto
  <2>2. Entry[c.op] \in {"add_lock", "set_lock", "get_lock", "del_lock"}
    BY EntryLabel
  <2> QED BY <1>2, <2>1, <2>2 DEF Invoke, Reading, TypeOK
<1>3. ASSUME NEW t \in Threads, AddStep(t) PROVE Frame
  BY <1>3 DEF AddStep, AddLock, AddExists, AddRefused, AddThrows, AddCountLoad, AddLink,
     AddCountStore, AddBytesLoad, AddBytesStore, AddDlistLock, AddDone, LockHash, LockDlist,
     Load, UnlockReturn, UnlockDlistLeave, Leave, Goto, locals, Reading, TypeOK
<1>4. ASSUME NEW t \in Threads, SetStep(t) PROVE Frame
  BY <1>4 DEF SetStep, SetLock, SetMissing, SetBits, LockHash, UnlockReturn, Leave, Goto,
     locals, Reading, TypeOK
<1>5. ASSUME NEW t \in Threads, DelStep(t) PROVE Frame
  BY <1>5 DEF DelStep, DelLock, DelDlistLock, DelMissing, DelUnlink, DelBytesLoad,
     DelBytesStore, DelCountLoad, DelCountStore, DelUnlockHash, DelDone, LockHash, LockDlist,
     Load, UnlockDlistLeave, Leave, Goto, locals, Reading, TypeOK
<1>6. ASSUME NEW t \in Threads, GetLock(t) \/ GetMissing(t) \/ GetAbsent(t) \/ GetPresent(t)
      PROVE Frame
  BY <1>6 DEF GetLock, GetMissing, GetAbsent, GetPresent, UnlockReturn, Leave, Goto, locals,
     Reading, TypeOK
<1>7. CASE UNCHANGED vars
  BY <1>1, <1>7 DEF vars, locals, Reading
<1> HIDE DEF Frame
<1> QED BY <1>1, <1>2, <1>3, <1>4, <1>5, <1>6, <1>7, GetFindReaders, GetAddrReaders, GetHitReaders
     DEF Next, Step, GetStep, Finished

\* A get is disturbed when it enters the loop or inside it, and leaves it with
\* its call.
LEMMA OnlyReadersDisturbedStep ==
    ASSUME IndInv, OnlyReadersDisturbed, [Next]_vars
    PROVE  OnlyReadersDisturbed'
<1> DEFINE Moves(t) == /\ \A u \in Threads \ {t} : pc'[u] = pc[u] /\ (overlap'[u] => overlap[u])
                       /\ overlap'[t] => overlap[t] /\ (Reading(t) => Reading(t)')
<1> USE DEF IndInv
<1>1. ASSUME NEW t \in Threads, Moves(t) PROVE OnlyReadersDisturbed'
  BY <1>1 DEF OnlyReadersDisturbed, Reading
<1>2. ASSUME NEW t \in Threads, Invoke(t) PROVE Moves(t)
  <2>1. pc[t] = "idle" /\ \E l : pc' = [pc EXCEPT ![t] = l]
    BY <1>2 DEF Invoke, Goto
  <2> QED BY <1>2, <2>1 DEF Invoke, Reading, TypeOK
<1>3. ASSUME NEW t \in Threads, AddStep(t) PROVE Moves(t)
  BY <1>3 DEF AddStep, AddLock, AddExists, AddRefused, AddThrows, AddCountLoad, AddLink,
     AddCountStore, AddBytesLoad, AddBytesStore, AddDlistLock, AddDone, LockHash, LockDlist,
     Load, UnlockReturn, UnlockDlistLeave, Leave, Goto, locals, Reading, TypeOK
<1>4. ASSUME NEW t \in Threads, SetStep(t) PROVE Moves(t)
  BY <1>4 DEF SetStep, SetLock, SetMissing, SetBits, LockHash, UnlockReturn, Leave, Goto,
     locals, Reading, TypeOK
<1>5. ASSUME NEW t \in Threads, DelStep(t) PROVE Moves(t)
  BY <1>5 DEF DelStep, DelLock, DelDlistLock, DelMissing, DelUnlink, DelBytesLoad,
     DelBytesStore, DelCountLoad, DelCountStore, DelUnlockHash, DelDone, LockHash, LockDlist,
     Load, UnlockDlistLeave, Leave, Goto, locals, Reading, TypeOK
<1>6. ASSUME NEW t \in Threads, GetStep(t), ~GetFind(t) PROVE Moves(t)
  BY <1>6 DEF GetStep, GetLock, GetMissing, GetAddr, GetHit, GetAbsent, GetPresent,
     UnlockReturn, Leave, Goto, locals, Reading, TypeOK
<1>7. ASSUME NEW t \in Threads, GetFind(t) PROVE OnlyReadersDisturbed'
  BY <1>7 DEF GetFind, OnlyReadersDisturbed, Goto, Reading, TypeOK
<1>8. CASE UNCHANGED vars
  BY <1>8 DEF vars, locals, Reading, OnlyReadersDisturbed
<1> HIDE DEF Moves
<1> QED BY <1>1, <1>2, <1>3, <1>4, <1>5, <1>6, <1>7, <1>8 DEF Next, Step, Finished

\* All parts hold in every reachable state.
LEMMA GetSoundHolds == Spec => []GetSound
<1>1. Init => GetSound
  BY DEF Init, GetSound, BitsSound, ReadersSound, OnlyReadersDisturbed, BloomIds, Reading
<1>2. IndInv /\ GetSound /\ [Next]_vars => GetSound'
  BY BitsSoundStep, ReadersSoundStep, OnlyReadersDisturbedStep DEF GetSound
<1> QED BY <1>1, <1>2, Inductive, PTL DEF Spec

\* A get that answers 0 undisturbed asked for a subkey that is not in the filter.
LEMMA AbsentIsTrue ==
    ASSUME IndInv, GetSound, NEW t \in Threads, GetAbsent(t), ~overlap[t]
    PROVE  call[t].sub \notin bloom[cur[t]].subs
<1> DEFINE b == cur[t]
           p == Positions(t)[idx[t]]
<1> USE DEF IndInv
<1>1. pc[t] = "get_check" /\ ReadsAs(t, FALSE)
  BY DEF GetAbsent
<1>2. bloom_get_addr = b /\ idx[t] \in 1 .. Len(Positions(t)) /\ b \in BloomIds
  BY <1>1 DEF GetSound, ReadersSound, Reading, TypeOK, PointersValid, Linked
<1>3. bloom[b] \in Bloom /\ call[t].sub \in Subkeys
  BY <1>1, <1>2, ElementOfSeq DEF TypeOK, BloomIds, CallMatches, GetCall, HashReading
<1>4. p \in BitsOf(bloom[b].n, call[t].sub) /\ p < MapBits[bloom[b].n]
  BY <1>2, <1>3, ProbeAssumption DEF BitsOf, Positions, Bloom
<1>5. p \in Nat /\ MapBits[bloom[b].n] \in Nat
  <2>1. bloom[b].n \in Sizes
    BY <1>3 DEF Bloom
  <2>2. Positions(t) \in Seq(Nat)
    BY <1>3, <2>1, ProbeAssumption DEF Positions
  <2> QED BY <1>2, <2>1, <2>2, SizeAssumption, ElementOfSeq
<1>6. p \notin bloom[b].bits
  BY <1>1, <1>2, <1>4, <1>5 DEF ReadsAs
<1> QED BY <1>2, <1>3, <1>4, <1>6 DEF GetSound, BitsSound

\* A reader returns 0 in one step only.
LEMMA OnlyGetAbsent ==
    ASSUME TypeOK, Next, NEW t \in Threads, Reading(t), pc'[t] = "idle", res'[t] = 0
    PROVE  GetAbsent(t)
<1> USE DEF TypeOK, Reading, Goto, Leave, UnlockReturn, UnlockDlistLeave, LockHash, LockDlist, Load
<1>1. ASSUME NEW u \in Threads, Invoke(u) PROVE FALSE
  BY <1>1 DEF Invoke
<1>2. ASSUME NEW u \in Threads, AddStep(u) PROVE FALSE
  BY <1>2 DEF AddStep, AddLock, AddExists, AddRefused, AddThrows, AddCountLoad, AddLink,
     AddCountStore, AddBytesLoad, AddBytesStore, AddDlistLock, AddDone
<1>3. ASSUME NEW u \in Threads, SetStep(u) PROVE FALSE
  BY <1>3 DEF SetStep, SetLock, SetMissing, SetBits
<1>4. ASSUME NEW u \in Threads, DelStep(u) PROVE FALSE
  BY <1>4 DEF DelStep, DelLock, DelDlistLock, DelMissing, DelUnlink, DelBytesLoad,
     DelBytesStore, DelCountLoad, DelCountStore, DelUnlockHash, DelDone
<1>5. ASSUME NEW u \in Threads, GetStep(u) PROVE GetAbsent(t)
  <2>1. CASE GetLock(u) \/ GetMissing(u) \/ GetFind(u) \/ GetAddr(u) \/ GetHit(u)
    BY <2>1 DEF GetLock, GetMissing, GetFind, GetAddr, GetHit
  <2>2. CASE GetPresent(u)
    BY <2>2 DEF GetPresent, Answer
  <2>3. CASE GetAbsent(u)
    <3>1. pc' = [pc EXCEPT ![u] = "idle"]
      BY <2>3 DEF GetAbsent
    <3>2. u = t
      BY <3>1
    <3> QED BY <2>3, <3>2
  <2> QED BY <1>5, <2>1, <2>2, <2>3 DEF GetStep
<1>6. CASE Finished
  BY <1>6 DEF Finished, vars
<1> QED BY <1>1, <1>2, <1>3, <1>4, <1>5, <1>6 DEF Next, Step

\* blooms_get has no false negative, unless a get on another filter overlaps it.
THEOREM NeverFalseNegative == Spec => NoFalseNegative
<1> DEFINE Honest(t) == Reading(t) /\ pc'[t] = "idle" /\ res'[t] = 0 /\ ~overlap[t]
                           => call[t].sub \notin bloom[cur[t]].subs
<1>1. IndInv /\ GetSound /\ [Next]_vars => [\A t \in Threads : Honest(t)]_vars
  <2> SUFFICES ASSUME IndInv, GetSound, Next, NEW t \in Threads,
                      Reading(t), pc'[t] = "idle", res'[t] = 0, ~overlap[t]
               PROVE  call[t].sub \notin bloom[cur[t]].subs
    OBVIOUS
  <2> QED BY OnlyGetAbsent, AbsentIsTrue DEF IndInv
<1> QED BY <1>1, Inductive, GetSoundHolds, PTL DEF Spec, NoFalseNegative

-----------------------------------------------------------------------------
(* The store that the table stands for, and what each step does to it. *)

\* No name is linked twice, in any two chains.
LEMMA LinkedUnique ==
    ASSUME ChainsSound, NEW x \in Linked, NEW y \in Linked, bloom[x].key = bloom[y].key
    PROVE  x = y
<1>1. PICK h \in Buckets : \E i \in 1 .. Len(hashtable[h]) : hashtable[h][i] = x
  BY DEF Linked
<1>2. PICK g \in Buckets : \E j \in 1 .. Len(hashtable[g]) : hashtable[g][j] = y
  BY DEF Linked
<1>3. h = g
  BY <1>1, <1>2, ChainFacts
<1> QED BY <1>1, <1>2, <1>3, ChainFacts

\* The walk along a chain decides whether a name is in the store, and finds the
\* one filter that carries it.
LEMMA LookupStore ==
    ASSUME TypeOK, ChainsSound, NEW k \in Keys
    PROVE  /\ Lookup(k) = 0 <=> k \notin StoreFilters
           /\ Lookup(k) # 0 => /\ Lookup(k) \in Linked /\ bloom[Lookup(k)].key = k
                               /\ \A x \in Linked : bloom[x].key = k => x = Lookup(k)
<1>1. CASE Lookup(k) # 0
  <2>1. Lookup(k) \in Linked /\ bloom[Lookup(k)].key = k
    BY <1>1, LookupFacts
  <2> QED BY <1>1, <2>1, LinkedUnique DEF StoreFilters
<1>2. CASE Lookup(k) = 0
  <2>1. \A i \in 1 .. Len(hashtable[Hv[k]]) : bloom[hashtable[Hv[k]][i]].key # k
    BY <1>2, LookupFacts
  <2>2. ASSUME NEW b \in Linked, bloom[b].key = k PROVE FALSE
    <3>1. PICK h \in Buckets : \E i \in 1 .. Len(hashtable[h]) : hashtable[h][i] = b
      BY DEF Linked
    <3>2. h = Hv[k]
      BY <2>2, <3>1, ChainFacts
    <3> QED BY <2>1, <2>2, <3>1, <3>2
  <2> QED BY <1>2, <2>2 DEF StoreFilters
<1> QED BY <1>1, <1>2

\* A step that keeps the linked filters, their names and subkeys keeps the store.
LEMMA StoreSame ==
    ASSUME Linked' = Linked,
           \A b \in Linked : bloom'[b].key = bloom[b].key /\ bloom'[b].subs = bloom[b].subs
    PROVE  StoreFilters' = StoreFilters /\ StoreMembers' = StoreMembers
BY DEF StoreFilters, StoreMembers

\* A step that leaves the table alone does.
LEMMA TableStore ==
    ASSUME UNCHANGED table
    PROVE  StoreFilters' = StoreFilters /\ StoreMembers' = StoreMembers
BY TableUnchanged, StoreSame DEF table

\* blooms_add puts a name into the store, with no members.
LEMMA AddLinkStore ==
    ASSUME TypeOK, CallMatches, ChainsSound, NEW t \in Threads, AddLink(t)
    PROVE  /\ StoreFilters' = StoreFilters \cup {call[t].key}
           /\ StoreMembers' = StoreMembers
<1> DEFINE b == Len(bloom) + 1
<1>1. /\ Linked' = Linked \cup {b} /\ bloom'[b] = NewBloom(call[t])
      /\ \A x \in BloomIds : bloom'[x] = bloom[x]
  BY AddLinkEffect
<1>2. NewBloom(call[t]).key = call[t].key /\ NewBloom(call[t]).subs = {}
  BY DEF NewBloom
<1>3. call[t].key \in Keys /\ Linked \subseteq BloomIds
  BY DEF AddLink, CallMatches, AddCall, Linked
<1> HIDE DEF b
<1> QED BY <1>1, <1>2, <1>3 DEF StoreFilters, StoreMembers

\* blooms_set adds the subkey to the members of the name.
LEMMA SetBitsStore ==
    ASSUME TypeOK, CallMatches, ChainsSound, NEW t \in Threads, SetBits(t)
    PROVE  /\ StoreFilters' = StoreFilters
           /\ StoreMembers' = StoreMembers \cup {<<call[t].key, call[t].sub>>}
<1> DEFINE k == call[t].key
           s == call[t].sub
           b == Lookup(k)
<1>1. k \in Keys /\ s \in Subkeys
  BY DEF SetBits, CallMatches, SetCall
<1>2. b \in Linked /\ bloom[b].key = k /\ b \in BloomIds
  BY <1>1, LookupStore DEF SetBits, Linked
<1>3. bloom[b] \in Bloom
  BY <1>2, ElementOfSeq DEF TypeOK, BloomIds
<1>4. /\ bloom'[b] = Filled(bloom[b], s)
      /\ \A x \in BloomIds : x # b => bloom'[x] = bloom[x]
  BY <1>2 DEF SetBits, TypeOK, BloomIds
<1>5. bloom'[b].key = k /\ bloom'[b].subs = bloom[b].subs \cup {s}
  BY <1>1, <1>2, <1>3, <1>4, FilledFacts
<1>6. Linked' = Linked /\ Linked \subseteq BloomIds
  BY SetBitsEffect DEF Linked
<1> HIDE DEF k, s, b
<1>7. StoreFilters' = StoreFilters
  BY <1>2, <1>4, <1>5, <1>6 DEF StoreFilters
<1>8. StoreMembers' = StoreMembers \cup {<<k, s>>}
  BY <1>1, <1>2, <1>4, <1>5, <1>6 DEF StoreMembers
<1> QED BY <1>7, <1>8 DEF k, s

\* blooms_delete takes the name and its members out.
LEMMA DelUnlinkStore ==
    ASSUME TypeOK, CallMatches, ChainsSound, NEW t \in Threads, DelUnlink(t)
    PROVE  /\ StoreFilters' = StoreFilters \ {call[t].key}
           /\ StoreMembers' = StoreMembers \ ({call[t].key} \X Subkeys)
<1> DEFINE k == call[t].key
           d == Lookup(k)
<1>1. k \in Keys /\ d # 0 /\ bloom' = bloom
  BY DEF DelUnlink, CallMatches, DelCall
<1>2. d \in Linked /\ bloom[d].key = k /\ \A x \in Linked : bloom[x].key = k => x = d
  BY <1>1, LookupStore
<1>3. Linked' = Linked \ {d}
  BY DelUnlinkEffect
<1> HIDE DEF k, d
<1>4. StoreFilters' = StoreFilters \ {k}
  BY <1>1, <1>2, <1>3 DEF StoreFilters
<1>5. StoreMembers' = StoreMembers \ ({k} \X Subkeys)
  BY <1>1, <1>2, <1>3 DEF StoreMembers
<1> QED BY <1>4, <1>5 DEF k

\* Freeing the map of a filter that is unlinked changes nothing in the store.
LEMMA DelBytesStoreStore ==
    ASSUME TypeOK, PointersValid, ChainsSound, NEW t \in Threads, DelBytesStore(t)
    PROVE  StoreFilters' = StoreFilters /\ StoreMembers' = StoreMembers
<1>1. Linked' = Linked /\ cur[t] \notin Linked /\ cur[t] \in BloomIds /\ Linked \subseteq BloomIds
  BY DelBytesStoreEffect DEF DelBytesStore, PointersValid, Linked
<1>2. \A x \in BloomIds : x # cur[t] => bloom'[x] = bloom[x]
  BY <1>1 DEF DelBytesStore, TypeOK, BloomIds
<1> QED BY <1>1, <1>2, StoreSame

\* The phase of a call at a label.
PhaseOf(label) == IF label = "idle" THEN "idle" ELSE IF label \in Decided THEN "done" ELSE "called"

\* The phase of a call follows its position.
LEMMA PhaseMoves ==
    ASSUME TypeOK, NEW t \in Threads, NEW label, pc' = [pc EXCEPT ![t] = label]
    PROVE  StorePhase' = [StorePhase EXCEPT ![t] = PhaseOf(label)]
BY DEF TypeOK, StorePhase, PhaseOf

\* A call whose value is known returns to the client at once.
LEMMA TakesEffectAndLeaves ==
    ASSUME TypeOK, NEW t \in Threads, NEW v \in -2 .. 2,
           PhaseOf(pc[t]) = "called", Answer(t, v), Leave(t), Store!Effect(t, v)
    PROVE  Store!TakeEffect(t)
<1>1. StorePhase[t] = "called" /\ StorePhase' = [StorePhase EXCEPT ![t] = "idle"]
  BY PhaseMoves DEF Leave, Goto, PhaseOf, StorePhase
<1> QED BY <1>1 DEF Store!TakeEffect, Store!Leave, Answer, Leave

\* Or it has totals and locks to see to first.
LEMMA TakesEffectAndGoesOn ==
    ASSUME TypeOK, NEW t \in Threads, NEW v \in -2 .. 2, NEW label \in Decided,
           PhaseOf(pc[t]) = "called", Answer(t, v), Goto(t, label), UNCHANGED <<call, overlap>>,
           Store!Effect(t, v)
    PROVE  Store!TakeEffect(t)
<1>1. StorePhase[t] = "called" /\ StorePhase' = [StorePhase EXCEPT ![t] = "done"]
  BY PhaseMoves DEF Goto, PhaseOf, StorePhase, Decided
<1> QED BY <1>1 DEF Store!TakeEffect, Answer

\* A step between two labels of one phase that changes nothing of the store.
LEMMA StoreStutters ==
    ASSUME TypeOK, NEW t \in Threads, NEW label, PhaseOf(label) = PhaseOf(pc[t]), Goto(t, label),
           StoreFilters' = StoreFilters, StoreMembers' = StoreMembers, UNCHANGED <<call, res, overlap>>
    PROVE  UNCHANGED Store!vars
<1>1. StorePhase' = StorePhase
  BY PhaseMoves DEF Goto, StorePhase, PhaseOf, TypeOK
<1> QED BY <1>1 DEF Store!vars

-----------------------------------------------------------------------------
(* Every step of the table is a step of the store or a stutter. *)

\* A client calls.
LEMMA InvokeIsStep ==
    ASSUME IndInv, NEW t \in Threads, Invoke(t)
    PROVE  Store!Invoke(t)
<1>1. PICK c \in Calls[t] : /\ pc[t] = "idle" /\ call' = [call EXCEPT ![t] = c]
                            /\ pc' = [pc EXCEPT ![t] = Entry[c.op]]
                            /\ UNCHANGED <<table, res, overlap>>
  BY DEF Invoke, Goto
<1>2. c \in Call /\ PhaseOf(Entry[c.op]) = "called"
  BY EntryLabel DEF PhaseOf, Decided
<1>3. StorePhase[t] = "idle" /\ StorePhase' = [StorePhase EXCEPT ![t] = "called"]
  BY <1>1, <1>2, PhaseMoves DEF StorePhase, IndInv
<1> QED BY <1>1, <1>2, <1>3, TableStore DEF Store!Invoke

\* blooms_add takes effect when it finds the name, gives up, throws or links.
LEMMA AddIsStep ==
    ASSUME IndInv, NEW t \in Threads, AddStep(t)
    PROVE  Store!TakeEffect(t) \/ Store!Return(t) \/ UNCHANGED Store!vars
<1> USE DEF IndInv
<1>1. CASE AddExists(t) \/ AddRefused(t) \/ AddThrows(t) \/ AddLink(t)
  <2>1. pc[t] = "add_init" /\ PhaseOf(pc[t]) = "called"
    BY <1>1 DEF AddExists, AddRefused, AddThrows, AddLink, PhaseOf, Decided
  <2>2. call[t].key \in Keys /\ call[t].op = "add"
    BY <2>1 DEF CallMatches, AddCall
  <2>3. CASE AddExists(t)
    <3>1. Store!Effect(t, 1)
      BY <2>2, <2>3, LookupStore, TableStore
         DEF AddExists, UnlockReturn, Store!Effect, Store!AddEffect
    <3> QED BY <2>1, <2>3, <3>1, TakesEffectAndLeaves DEF AddExists, UnlockReturn
  <2>4. CASE AddRefused(t)
    <3>1. Store!Effect(t, 2)
      BY <2>2, <2>4, LookupStore, TableStore
         DEF AddRefused, UnlockReturn, Store!Effect, Store!AddEffect
    <3> QED BY <2>1, <2>4, <3>1, TakesEffectAndLeaves DEF AddRefused, UnlockReturn
  <2>5. CASE AddThrows(t)
    <3>1. Store!Effect(t, -2)
      BY <2>2, <2>5, LookupStore, TableStore DEF AddThrows, Store!Effect, Store!AddEffect
    <3> QED BY <2>1, <2>5, <3>1, TakesEffectAndLeaves DEF AddThrows
  <2>6. CASE AddLink(t)
    <3>1. Store!Effect(t, 0)
      BY <2>2, <2>6, LookupStore, AddLinkStore DEF AddLink, Store!Effect, Store!AddEffect
    <3>2. "add_count_load" \in Decided
      BY DEF Decided
    <3> QED BY <2>1, <2>6, <3>1, <3>2, TakesEffectAndGoesOn DEF AddLink
  <2> QED BY <1>1, <2>3, <2>4, <2>5, <2>6
<1>2. CASE AddDone(t)
  <2>1. StorePhase[t] = "done" /\ StorePhase' = [StorePhase EXCEPT ![t] = "idle"]
    BY <1>2, PhaseMoves
       DEF AddDone, UnlockDlistLeave, Leave, Goto, StorePhase, PhaseOf, Decided
  <2> QED BY <1>2, <2>1, TableStore
          DEF AddDone, UnlockDlistLeave, Leave, Store!Return, Store!Leave
<1>3. CASE AddLock(t) \/ AddCountLoad(t) \/ AddCountStore(t) \/ AddBytesLoad(t)
           \/ AddBytesStore(t) \/ AddDlistLock(t)
  <2>1. PICK label : PhaseOf(label) = PhaseOf(pc[t]) /\ Goto(t, label)
    BY <1>3 DEF AddLock, AddCountLoad, AddCountStore, AddBytesLoad, AddBytesStore, AddDlistLock,
                LockHash, LockDlist, Load, PhaseOf, Decided
  <2>2. UNCHANGED <<table, call, res, overlap>>
    BY <1>3 DEF AddLock, AddCountLoad, AddCountStore, AddBytesLoad, AddBytesStore, AddDlistLock,
                LockHash, LockDlist, Load, locals
  <2> QED BY <2>1, <2>2, TableStore, StoreStutters
<1> QED BY <1>1, <1>2, <1>3 DEF AddStep

\* blooms_set takes effect when it has set the bits or found no filter.
LEMMA SetIsStep ==
    ASSUME IndInv, NEW t \in Threads, SetStep(t)
    PROVE  Store!TakeEffect(t) \/ UNCHANGED Store!vars
<1> USE DEF IndInv
<1>1. CASE SetMissing(t) \/ SetBits(t)
  <2>1. pc[t] = "set_body" /\ PhaseOf(pc[t]) = "called"
    BY <1>1 DEF SetMissing, SetBits, PhaseOf, Decided
  <2>2. call[t].key \in Keys /\ call[t].op = "set"
    BY <2>1 DEF CallMatches, SetCall
  <2>3. CASE SetMissing(t)
    <3>1. Store!Effect(t, 1)
      BY <2>2, <2>3, LookupStore, TableStore
         DEF SetMissing, UnlockReturn, Store!Effect, Store!SetEffect
    <3> QED BY <2>1, <2>3, <3>1, TakesEffectAndLeaves DEF SetMissing, UnlockReturn
  <2>4. CASE SetBits(t)
    <3>1. Store!Effect(t, 0)
      BY <2>2, <2>4, LookupStore, SetBitsStore DEF SetBits, Store!Effect, Store!SetEffect
    <3> QED BY <2>1, <2>4, <3>1, TakesEffectAndLeaves DEF SetBits
  <2> QED BY <1>1, <2>3, <2>4
<1>2. CASE SetLock(t)
  <2>1. PhaseOf("set_body") = PhaseOf(pc[t]) /\ Goto(t, "set_body")
    BY <1>2 DEF SetLock, LockHash, PhaseOf, Decided
  <2>2. UNCHANGED <<table, call, res, overlap>>
    BY <1>2 DEF SetLock, LockHash, locals
  <2> QED BY <2>1, <2>2, TableStore, StoreStutters
<1> QED BY <1>1, <1>2 DEF SetStep

\* A get that enters the loop disturbs the gets on other filters, and is
\* disturbed by them.
LEMMA GetFindIsStep ==
    ASSUME IndInv, GetSound, NEW t \in Threads, GetFind(t)
    PROVE  Store!Disturb
<1> DEFINE b == Lookup(call[t].key)
           rivals == {u \in Threads : Reading(u) /\ cur[u] # b}
           S == IF rivals = {} THEN {} ELSE rivals \cup {t}
<1> USE DEF IndInv
<1>1. /\ pc[t] = "get_find" /\ pc' = [pc EXCEPT ![t] = "get_addr"]
      /\ overlap' = [u \in Threads |-> IF u = t THEN rivals # {} ELSE overlap[u] \/ u \in rivals]
      /\ UNCHANGED <<table, call, res>>
  BY DEF GetFind, Goto
<1>2. /\ b \in Linked /\ bloom[b].key = call[t].key
      /\ \A x \in Linked : bloom[x].key = call[t].key => x = b
  BY LookupStore DEF GetFind, CallMatches, GetCall, HashReading
<1>3. \A u \in Threads : u = t \/ Reading(u) => StorePhase[u] = "called" /\ call[u].op = "get"
  BY <1>1 DEF StorePhase, Reading, Decided, CallMatches, GetCall, HashReading
<1>4. \A u \in rivals : u \in Threads /\ Reading(u) /\ call[u].key # call[t].key
  BY <1>2 DEF GetSound, ReadersSound, PointersValid
<1>5. StorePhase' = StorePhase
  BY <1>1, PhaseMoves DEF StorePhase, PhaseOf, Decided, TypeOK
<1>6. ~overlap[t]
  BY <1>1 DEF GetSound, OnlyReadersDisturbed, Reading
<1>7. S \subseteq {u \in Threads : Store!Getting(u) /\ Store!Rivals(u) # {}}
  <2>1. \A u \in Threads : u = t \/ Reading(u) => Store!Getting(u)
    BY <1>3 DEF Store!Getting
  <2>2. ASSUME NEW u \in rivals PROVE u \in Store!Rivals(t) /\ t \in Store!Rivals(u)
    BY <1>4, <2>1 DEF Store!Rivals
  <2> HIDE DEF rivals
  <2> QED BY <1>4, <2>1, <2>2
<1>8. overlap' = [u \in Threads |-> overlap[u] \/ u \in S]
  <2>1. \A u \in Threads : overlap[u] \in BOOLEAN
    BY DEF TypeOK
  <2> HIDE DEF rivals
  <2> QED BY <1>1, <1>4, <1>6, <2>1
<1> HIDE DEF S
<1> QED BY <1>1, <1>5, <1>7, <1>8, TableStore DEF Store!Disturb

\* blooms_get takes effect when it has found no filter, an absent bit, or all bits.
LEMMA GetIsStep ==
    ASSUME IndInv, GetSound, NEW t \in Threads, GetStep(t)
    PROVE  Store!TakeEffect(t) \/ Store!Disturb \/ UNCHANGED Store!vars
<1> USE DEF IndInv
<1>1. CASE GetMissing(t)
  <2>1. PhaseOf(pc[t]) = "called" /\ call[t].key \in Keys /\ call[t].op = "get"
    BY <1>1 DEF GetMissing, PhaseOf, Decided, CallMatches, GetCall, HashReading
  <2>2. Store!Effect(t, -1)
    BY <1>1, <2>1, LookupStore, TableStore
       DEF GetMissing, UnlockReturn, Store!Effect, Store!GetEffect
  <2> QED BY <1>1, <2>1, <2>2, TakesEffectAndLeaves DEF GetMissing, UnlockReturn
<1>2. CASE GetAbsent(t) \/ GetPresent(t)
  <2> DEFINE k == call[t].key
             b == cur[t]
  <2>1. Reading(t) /\ PhaseOf(pc[t]) = "called" /\ k \in Keys /\ call[t].op = "get"
    BY <1>2 DEF GetAbsent, GetPresent, Reading, PhaseOf, Decided, CallMatches, GetCall,
                HashReading
  <2>2. b \in Linked /\ bloom[b].key = k /\ k \in StoreFilters
    BY <2>1 DEF GetSound, ReadersSound, PointersValid, StoreFilters
  <2>3. CASE GetPresent(t)
    <3>1. Store!Effect(t, 1)
      BY <2>1, <2>2, <2>3, TableStore
         DEF GetPresent, UnlockReturn, Store!Effect, Store!GetEffect
    <3> QED BY <2>1, <2>3, <3>1, TakesEffectAndLeaves DEF GetPresent, UnlockReturn
  <2>4. CASE GetAbsent(t)
    <3>1. <<k, call[t].sub>> \in StoreMembers => call[t].sub \in bloom[b].subs
      BY <2>2, LinkedUnique DEF StoreMembers
    <3>2. overlap[t] \/ <<k, call[t].sub>> \notin StoreMembers
      BY <2>4, <3>1, AbsentIsTrue
    <3>3. Store!Effect(t, 0)
      BY <2>1, <2>2, <2>4, <3>2, TableStore
         DEF GetAbsent, UnlockReturn, Store!Effect, Store!GetEffect
    <3> QED BY <2>1, <2>4, <3>3, TakesEffectAndLeaves DEF GetAbsent, UnlockReturn
  <2> QED BY <1>2, <2>3, <2>4
<1>3. CASE GetLock(t) \/ GetAddr(t) \/ GetHit(t)
  <2>1. PICK label : PhaseOf(label) = PhaseOf(pc[t]) /\ Goto(t, label)
    BY <1>3 DEF GetLock, GetAddr, GetHit, PhaseOf, Decided
  <2>2. UNCHANGED <<table, call, res, overlap>>
    BY <1>3 DEF GetLock, GetAddr, GetHit, locals
  <2> QED BY <2>1, <2>2, TableStore, StoreStutters
<1> QED BY <1>1, <1>2, <1>3, GetFindIsStep DEF GetStep

\* blooms_delete takes effect when it has unlinked the filter or found none.
LEMMA DelIsStep ==
    ASSUME IndInv, NEW t \in Threads, DelStep(t)
    PROVE  Store!TakeEffect(t) \/ Store!Return(t) \/ UNCHANGED Store!vars
<1> USE DEF IndInv
<1>1. CASE DelMissing(t) \/ DelUnlink(t)
  <2>1. pc[t] = "del_find" /\ PhaseOf(pc[t]) = "called"
    BY <1>1 DEF DelMissing, DelUnlink, PhaseOf, Decided
  <2>2. call[t].key \in Keys /\ call[t].op = "delete"
    BY <2>1 DEF CallMatches, DelCall
  <2>3. "del_unlock" \in Decided /\ "del_bytes_load" \in Decided
    BY DEF Decided
  <2>4. CASE DelMissing(t)
    <3>1. Store!Effect(t, 1)
      BY <2>2, <2>4, LookupStore, TableStore DEF DelMissing, Store!Effect, Store!DeleteEffect
    <3> QED BY <2>1, <2>3, <2>4, <3>1, TakesEffectAndGoesOn DEF DelMissing, locals
  <2>5. CASE DelUnlink(t)
    <3>1. Store!Effect(t, 0)
      BY <2>2, <2>5, LookupStore, DelUnlinkStore DEF DelUnlink, Store!Effect, Store!DeleteEffect
    <3> QED BY <2>1, <2>3, <2>5, <3>1, TakesEffectAndGoesOn DEF DelUnlink
  <2> QED BY <1>1, <2>4, <2>5
<1>2. CASE DelDone(t)
  <2>1. StorePhase[t] = "done" /\ StorePhase' = [StorePhase EXCEPT ![t] = "idle"]
    BY <1>2, PhaseMoves
       DEF DelDone, UnlockDlistLeave, Leave, Goto, StorePhase, PhaseOf, Decided
  <2> QED BY <1>2, <2>1, TableStore
          DEF DelDone, UnlockDlistLeave, Leave, Store!Return, Store!Leave
<1>3. CASE DelBytesStore(t)
  <2>1. PhaseOf("del_count_load") = PhaseOf(pc[t]) /\ Goto(t, "del_count_load")
    BY <1>3 DEF DelBytesStore, PhaseOf, Decided
  <2> QED BY <1>3, <2>1, DelBytesStoreStore, StoreStutters DEF DelBytesStore, locals
<1>4. CASE DelLock(t) \/ DelDlistLock(t) \/ DelBytesLoad(t) \/ DelCountLoad(t)
           \/ DelCountStore(t) \/ DelUnlockHash(t)
  <2>1. PICK label : PhaseOf(label) = PhaseOf(pc[t]) /\ Goto(t, label)
    BY <1>4 DEF DelLock, DelDlistLock, DelBytesLoad, DelCountLoad, DelCountStore, DelUnlockHash,
                LockHash, LockDlist, Load, PhaseOf, Decided
  <2>2. UNCHANGED <<table, call, res, overlap>>
    BY <1>4 DEF DelLock, DelDlistLock, DelBytesLoad, DelCountLoad, DelCountStore, DelUnlockHash,
                LockHash, LockDlist, Load, locals
  <2> QED BY <2>1, <2>2, TableStore, StoreStutters
<1> QED BY <1>1, <1>2, <1>3, <1>4 DEF DelStep

\* The table implements FilterStore: every call takes effect at one instant on a
\* map from names to sets of subkeys, whatever the other workers do.
THEOREM TableIsStore == Spec => ImplementsStore
<1>1. Init => Store!Init
  <2> SUFFICES ASSUME Init PROVE Store!Init
    OBVIOUS
  <2>1. Linked = {}
    BY DEF Init, Linked, BloomIds
  <2>2. StorePhase = [t \in Threads |-> "idle"]
    BY DEF Init, StorePhase
  <2> QED BY <2>1, <2>2 DEF Init, Store!Init, StoreFilters, StoreMembers
<1>2. IndInv /\ GetSound /\ [Next]_vars => [Store!Next]_(Store!vars)
  <2> SUFFICES ASSUME IndInv, GetSound, [Next]_vars PROVE [Store!Next]_(Store!vars)
    OBVIOUS
  <2>1. CASE UNCHANGED vars
    <3>1. UNCHANGED <<StoreFilters, StoreMembers, StorePhase>>
      BY <2>1, TableStore DEF vars, StorePhase
    <3> QED BY <2>1, <3>1 DEF vars, locals, Store!vars
  <2>2. ASSUME NEW t \in Threads, Invoke(t) \/ Step(t) PROVE [Store!Next]_(Store!vars)
    BY <2>2, InvokeIsStep, AddIsStep, SetIsStep, GetIsStep, DelIsStep DEF Step, Store!Next
  <2> QED BY <2>1, <2>2 DEF Next, Finished
<1> QED BY <1>1, <1>2, Inductive, GetSoundHolds, PTL DEF Spec, ImplementsStore, Store!Spec

-----------------------------------------------------------------------------
(* What the comment above blooms_get says, for clients that never query    *)
(* two filters at a time.                                                  *)

\* A thread executes a call that a client issued to it.
CallIssued == \A t \in Threads : pc[t] # "idle" => call[t] \in Calls[t]

\* A call stays what it was until it returns.
LEMMA CallIssuedStep ==
    ASSUME TypeOK, CallIssued, [Next]_vars
    PROVE  CallIssued'
<1> USE DEF TypeOK, CallIssued, Goto, Leave, UnlockReturn, UnlockDlistLeave, LockHash,
        LockDlist, Load, locals
<1>1. ASSUME NEW t \in Threads, Invoke(t) PROVE CallIssued'
  BY <1>1 DEF Invoke
<1>2. ASSUME NEW t \in Threads, AddStep(t) PROVE CallIssued'
  BY <1>2 DEF AddStep, AddLock, AddExists, AddRefused, AddThrows, AddCountLoad, AddLink,
     AddCountStore, AddBytesLoad, AddBytesStore, AddDlistLock, AddDone
<1>3. ASSUME NEW t \in Threads, SetStep(t) PROVE CallIssued'
  BY <1>3 DEF SetStep, SetLock, SetMissing, SetBits
<1>4. ASSUME NEW t \in Threads, GetStep(t) PROVE CallIssued'
  BY <1>4 DEF GetStep, GetLock, GetMissing, GetFind, GetAddr, GetHit, GetAbsent, GetPresent
<1>5. ASSUME NEW t \in Threads, DelStep(t) PROVE CallIssued'
  BY <1>5 DEF DelStep, DelLock, DelDlistLock, DelMissing, DelUnlink, DelBytesLoad,
     DelBytesStore, DelCountLoad, DelCountStore, DelUnlockHash, DelDone
<1>6. CASE UNCHANGED vars BY <1>6 DEF vars
<1> QED BY <1>1, <1>2, <1>3, <1>4, <1>5, <1>6 DEF Next, Step, Finished

\* Readers of one name walk over one filter, so none disturbs another.
LEMMA GetFindAlone ==
    ASSUME NoRivalGets, IndInv, GetSound, CallIssued, NEW t \in Threads, GetFind(t),
           NEW u \in Threads, Reading(u)
    PROVE  cur[u] = Lookup(call[t].key)
<1> DEFINE b == Lookup(call[t].key)
<1> USE DEF IndInv
<1>1. pc[t] = "get_find" /\ b # 0 BY DEF GetFind
<1>2. call[t] \in GetCall /\ call[t] \in Calls[t] /\ call[u] \in GetCall /\ call[u] \in Calls[u]
  BY <1>1 DEF CallMatches, CallIssued, Reading, HashReading
<1>3. t # u BY <1>1 DEF Reading
<1>4. call[u].key = call[t].key BY <1>2, <1>3 DEF NoRivalGets, GetCall
<1>5. b \in Linked /\ bloom[b].key = call[t].key
  BY <1>1, <1>2, LookupFacts DEF GetCall
<1>6. cur[u] \in Linked /\ bloom[cur[u]].key = call[u].key
  BY DEF PointersValid, GetSound, ReadersSound
<1> HIDE DEF b
<1> QED BY <1>4, <1>5, <1>6, LinkedUnique DEF b

\* No get is ever disturbed.
LEMMA UndisturbedStep ==
    ASSUME NoRivalGets, IndInv, GetSound, CallIssued, [Next]_vars,
           \A t \in Threads : ~overlap[t]
    PROVE  \A t \in Threads : ~overlap'[t]
<1> USE DEF TypeOK, Leave, UnlockReturn, UnlockDlistLeave, LockHash, LockDlist, Load, locals
<1>1. ASSUME NEW t \in Threads, Invoke(t) PROVE overlap' = overlap
  BY <1>1 DEF Invoke
<1>2. ASSUME NEW t \in Threads, AddStep(t)
      PROVE  \A u \in Threads : overlap'[u] => overlap[u]
  BY <1>2 DEF IndInv, AddStep, AddLock, AddExists, AddRefused, AddThrows, AddCountLoad, AddLink,
     AddCountStore, AddBytesLoad, AddBytesStore, AddDlistLock, AddDone
<1>3. ASSUME NEW t \in Threads, SetStep(t)
      PROVE  \A u \in Threads : overlap'[u] => overlap[u]
  BY <1>3 DEF IndInv, SetStep, SetLock, SetMissing, SetBits
<1>4. ASSUME NEW t \in Threads, DelStep(t)
      PROVE  \A u \in Threads : overlap'[u] => overlap[u]
  BY <1>4 DEF IndInv, DelStep, DelLock, DelDlistLock, DelMissing, DelUnlink, DelBytesLoad,
     DelBytesStore, DelCountLoad, DelCountStore, DelUnlockHash, DelDone
<1>5. ASSUME NEW t \in Threads, GetStep(t), ~GetFind(t)
      PROVE  \A u \in Threads : overlap'[u] => overlap[u]
  BY <1>5 DEF IndInv, GetStep, GetLock, GetMissing, GetAddr, GetHit, GetAbsent, GetPresent
<1>6. ASSUME NEW t \in Threads, GetFind(t) PROVE \A u \in Threads : ~overlap'[u]
  <2>1. {u \in Threads : Reading(u) /\ cur[u] # Lookup(call[t].key)} = {}
    BY <1>6, GetFindAlone
  <2> QED BY <1>6, <2>1 DEF GetFind
<1>7. CASE UNCHANGED vars BY <1>7 DEF vars
<1> QED BY <1>1, <1>2, <1>3, <1>4, <1>5, <1>6, <1>7 DEF Next, Step, GetStep, Finished

\* When no two threads query two filters, a get that answers 0 is right, whatever
\* is added, set and deleted meanwhile: the race is between gets alone.
THEOREM GetTellsTruthAlone == NoRivalGets => (Spec => GetTellsTruth)
<1> SUFFICES ASSUME NoRivalGets PROVE Spec => GetTellsTruth
  OBVIOUS
<1> DEFINE Calm == CallIssued /\ \A t \in Threads : ~overlap[t]
           Honest(t) == Reading(t) /\ pc'[t] = "idle" /\ res'[t] = 0
                           => call[t].sub \notin bloom[cur[t]].subs
<1>1. Init => Calm BY DEF Init, CallIssued
<1>2. IndInv /\ GetSound /\ Calm /\ [Next]_vars => Calm'
  BY CallIssuedStep, UndisturbedStep DEF IndInv
<1>3. IndInv /\ GetSound /\ Calm /\ [Next]_vars => [\A t \in Threads : Honest(t)]_vars
  <2> SUFFICES ASSUME IndInv, GetSound, Calm, Next, NEW t \in Threads,
                      Reading(t), pc'[t] = "idle", res'[t] = 0
               PROVE  call[t].sub \notin bloom[cur[t]].subs
    OBVIOUS
  <2> QED BY OnlyGetAbsent, AbsentIsTrue DEF IndInv
<1> HIDE DEF Calm
<1> QED BY <1>1, <1>2, <1>3, Inductive, GetSoundHolds, PTL DEF Spec, GetTellsTruth

-----------------------------------------------------------------------------
(* Calls end *)

\* The order of the labels that each function goes through.
LEMMA StepsLeftOrder ==
    /\ StepsLeft["idle"] = 0
    /\ StepsLeft["add_lock"] = 8 /\ StepsLeft["add_init"] = 7
    /\ StepsLeft["add_count_load"] = 6 /\ StepsLeft["add_count_store"] = 5
    /\ StepsLeft["add_bytes_load"] = 4 /\ StepsLeft["add_bytes_store"] = 3
    /\ StepsLeft["add_dlist"] = 2 /\ StepsLeft["add_done"] = 1
    /\ StepsLeft["set_lock"] = 2 /\ StepsLeft["set_body"] = 1
    /\ StepsLeft["get_lock"] = 3 /\ StepsLeft["get_find"] = 2
    /\ StepsLeft["get_addr"] = 1 /\ StepsLeft["get_check"] = 1
    /\ StepsLeft["del_lock"] = 9 /\ StepsLeft["del_dlist"] = 8 /\ StepsLeft["del_find"] = 7
    /\ StepsLeft["del_bytes_load"] = 6 /\ StepsLeft["del_bytes_store"] = 5
    /\ StepsLeft["del_count_load"] = 4 /\ StepsLeft["del_count_store"] = 3
    /\ StepsLeft["del_unlock"] = 2 /\ StepsLeft["del_done"] = 1
BY DEF StepsLeft

\* One round of the loop of bloom_get leaves fewer of them.
LEMMA LoopWindsDown ==
    ASSUME IndInv, GetSound, NEW t \in Threads, GetAddr(t) \/ GetHit(t)
    PROVE  Reading(t) /\ Reading(t)' /\ 0 < LoopLeft(t) /\ LoopLeft(t)' < LoopLeft(t)
<1> DEFINE len == Len(Positions(t))
           i == idx[t]
<1> USE DEF IndInv, TypeOK
<1>1. pc[t] \in {"get_addr", "get_check"} /\ i <= len /\ i \in Nat
  BY DEF GetAddr, GetHit, GetSound, ReadersSound, Reading
<1>2. len \in Nat
  <2>1. cur[t] \in BloomIds /\ call[t] \in GetCall
    BY <1>1 DEF PointersValid, Linked, Reading, CallMatches, HashReading
  <2>2. bloom[cur[t]] \in Bloom BY <2>1, ElementOfSeq DEF BloomIds
  <2>3. Positions(t) \in Seq(Nat) BY <2>1, <2>2, ProbeAssumption DEF Positions, Bloom, GetCall
  <2> QED BY <2>3, LenProperties
<1>3. Len(Positions(t))' = len
  BY DEF GetAddr, GetHit, Positions, table, locals
<1> HIDE DEF len, i
<1>4. CASE GetAddr(t)
  <2>1. pc[t] = "get_addr" /\ pc'[t] = "get_check" /\ idx' = idx
    BY <1>4 DEF GetAddr, Goto, locals
  <2>2. LoopLeft(t) = 2 * (len - i) + 2 BY <2>1 DEF LoopLeft, len, i
  <2>3. LoopLeft(t)' = 2 * (len - i) + 1 BY <2>1, <1>3 DEF LoopLeft, len, i
  <2> QED BY <1>1, <1>2, <2>1, <2>2, <2>3 DEF Reading
<1>5. CASE GetHit(t)
  <2>1. pc[t] = "get_check" /\ pc'[t] = "get_addr" /\ idx'[t] = i + 1
    BY <1>5 DEF GetHit, Goto, i
  <2>2. LoopLeft(t) = 2 * (len - i) + 1 BY <2>1 DEF LoopLeft, len, i
  <2>3. LoopLeft(t)' = 2 * (len - (i + 1)) + 2 BY <2>1, <1>3 DEF LoopLeft, len, i
  <2> QED BY <1>1, <1>2, <2>1, <2>2, <2>3 DEF Reading
<1> QED BY <1>4, <1>5

\* A step of a call moves its own thread only, and forward.
LEMMA StepWindsDown ==
    ASSUME IndInv, GetSound, NEW t \in Threads, Step(t)
    PROVE  /\ \A u \in Threads \ {t} : pc'[u] = pc[u]
           /\ WindsDown(t)
<1> USE DEF IndInv, TypeOK, Goto, Leave, UnlockReturn, UnlockDlistLeave, LockHash, LockDlist, Load
<1>1. CASE AddStep(t)
  <2>1. CASE AddLock(t) BY <2>1, StepsLeftOrder DEF AddLock, WindsDown
  <2>2. CASE AddExists(t) BY <2>2, StepsLeftOrder DEF AddExists, WindsDown
  <2>3. CASE AddRefused(t) BY <2>3, StepsLeftOrder DEF AddRefused, WindsDown
  <2>4. CASE AddLink(t) BY <2>4, StepsLeftOrder DEF AddLink, WindsDown
  <2>5. CASE AddThrows(t) BY <2>5, StepsLeftOrder DEF AddThrows, WindsDown
  <2>6. CASE AddCountLoad(t) BY <2>6, StepsLeftOrder DEF AddCountLoad, WindsDown
  <2>7. CASE AddCountStore(t) BY <2>7, StepsLeftOrder DEF AddCountStore, WindsDown
  <2>8. CASE AddBytesLoad(t) BY <2>8, StepsLeftOrder DEF AddBytesLoad, WindsDown
  <2>9. CASE AddBytesStore(t) BY <2>9, StepsLeftOrder DEF AddBytesStore, WindsDown
  <2>10. CASE AddDlistLock(t) BY <2>10, StepsLeftOrder DEF AddDlistLock, WindsDown
  <2>11. CASE AddDone(t) BY <2>11, StepsLeftOrder DEF AddDone, WindsDown
  <2> QED BY <1>1, <2>1, <2>2, <2>3, <2>4, <2>5, <2>6, <2>7, <2>8, <2>9, <2>10, <2>11 DEF AddStep
<1>2. CASE SetStep(t)
  <2>1. CASE SetLock(t) BY <2>1, StepsLeftOrder DEF SetLock, WindsDown
  <2>2. CASE SetMissing(t) BY <2>2, StepsLeftOrder DEF SetMissing, WindsDown
  <2>3. CASE SetBits(t) BY <2>3, StepsLeftOrder DEF SetBits, WindsDown
  <2> QED BY <1>2, <2>1, <2>2, <2>3 DEF SetStep
<1>3. CASE DelStep(t)
  <2>1. CASE DelLock(t) BY <2>1, StepsLeftOrder DEF DelLock, WindsDown
  <2>2. CASE DelDlistLock(t) BY <2>2, StepsLeftOrder DEF DelDlistLock, WindsDown
  <2>3. CASE DelMissing(t) BY <2>3, StepsLeftOrder DEF DelMissing, WindsDown
  <2>4. CASE DelUnlink(t) BY <2>4, StepsLeftOrder DEF DelUnlink, WindsDown
  <2>5. CASE DelBytesLoad(t) BY <2>5, StepsLeftOrder DEF DelBytesLoad, WindsDown
  <2>6. CASE DelBytesStore(t) BY <2>6, StepsLeftOrder DEF DelBytesStore, WindsDown
  <2>7. CASE DelCountLoad(t) BY <2>7, StepsLeftOrder DEF DelCountLoad, WindsDown
  <2>8. CASE DelCountStore(t) BY <2>8, StepsLeftOrder DEF DelCountStore, WindsDown
  <2>9. CASE DelUnlockHash(t) BY <2>9, StepsLeftOrder DEF DelUnlockHash, WindsDown
  <2>10. CASE DelDone(t) BY <2>10, StepsLeftOrder DEF DelDone, WindsDown
  <2> QED BY <1>3, <2>1, <2>2, <2>3, <2>4, <2>5, <2>6, <2>7, <2>8, <2>9, <2>10 DEF DelStep
<1>4. CASE GetLock(t) \/ GetMissing(t) \/ GetFind(t) \/ GetAbsent(t) \/ GetPresent(t)
  <2>1. CASE GetLock(t) BY <2>1, StepsLeftOrder DEF GetLock, WindsDown
  <2>2. CASE GetMissing(t) BY <2>2, StepsLeftOrder DEF GetMissing, WindsDown
  <2>3. CASE GetFind(t) BY <2>3, StepsLeftOrder DEF GetFind, WindsDown
  <2>4. CASE GetAbsent(t) BY <2>4, StepsLeftOrder DEF GetAbsent, WindsDown
  <2>5. CASE GetPresent(t) BY <2>5, StepsLeftOrder DEF GetPresent, WindsDown
  <2> QED BY <1>4, <2>1, <2>2, <2>3, <2>4, <2>5
<1>5. CASE GetAddr(t) \/ GetHit(t)
  <2>1. \A u \in Threads \ {t} : pc'[u] = pc[u] BY <1>5 DEF GetAddr, GetHit
  <2> QED BY <1>5, <2>1, LoopWindsDown DEF WindsDown
<1> QED BY <1>1, <1>2, <1>3, <1>4, <1>5 DEF Step, GetStep

\* No call goes round for ever: blooms_get leaves its loop after k positions at the
\* latest, whatever the global makes it read, and the other functions have no loop
\* outside the locks.
THEOREM CallsAlwaysWindDown == Spec => CallsWindDown
<1>1. IndInv /\ GetSound /\ [Next]_vars
        => [\A t \in Threads : pc[t] # "idle" /\ pc'[t] # pc[t] => WindsDown(t)]_vars
  <2> SUFFICES ASSUME IndInv, GetSound, Next, NEW u \in Threads,
                      pc[u] # "idle", pc'[u] # pc[u]
               PROVE  WindsDown(u)
    OBVIOUS
  <2>1. ASSUME NEW t \in Threads, Invoke(t) PROVE FALSE
    BY <2>1 DEF Invoke, Goto, IndInv, TypeOK
  <2>2. ASSUME NEW t \in Threads, Step(t) PROVE WindsDown(u)
    BY <2>2, StepWindsDown
  <2>3. CASE Finished BY <2>3 DEF Finished, vars
  <2> QED BY <2>1, <2>2, <2>3 DEF Next
<1> QED BY <1>1, Inductive, GetSoundHolds, PTL DEF Spec, CallsWindDown
=============================================================================
