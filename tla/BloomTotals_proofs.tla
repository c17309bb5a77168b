-------------------------- MODULE BloomTotals_proofs --------------------------
(***************************************************************************)
(* Proofs that the totals of the filter table are right, and the memory    *)
(* limit is kept, when no two threads add or delete (OneAdmin): for every  *)
(* set of threads and keys, every size of a filter and every limit,        *)
(* allocation failures included.                                           *)
(*                                                                         *)
(* The argument: the administrating thread is the only one in a section    *)
(* that links, unlinks or counts, so the totals are off by exactly the     *)
(* filter it is accounting for (Accounts); with that the sum of the sizes  *)
(* never passes max_bytes, and so no addition or subtraction wraps round.  *)
(***************************************************************************)
EXTENDS BloomRegistry_proofs, FiniteSetTheorems

-----------------------------------------------------------------------------
(* Lemmas about sums of sizes *)

\* The bytes of the filters of S in the table of structs f, one pair each.
Cells(S, f) == {c \in S \X (1 .. WordMod) : c[2] <= f[c[1]].bytes}

\* The bytes of finitely many filters are finitely many.
LEMMA CellsFinite ==
    ASSUME NEW S, IsFiniteSet(S), NEW f
    PROVE  IsFiniteSet(Cells(S, f)) /\ Cardinality(Cells(S, f)) \in Nat
<1>1. IsFiniteSet(1 .. WordMod) BY FS_Interval, SizeAssumption
<1>2. IsFiniteSet(S \X (1 .. WordMod)) BY <1>1, FS_Product
<1>3. Cells(S, f) \in SUBSET (S \X (1 .. WordMod)) BY DEF Cells
<1>4. IsFiniteSet(Cells(S, f)) BY <1>2, <1>3, FS_Subset
<1> QED BY <1>4, FS_CardinalityType

\* A filter more adds its own size to the sum.
LEMMA CellsAdd ==
    ASSUME NEW S, IsFiniteSet(S), NEW f, NEW b, b \notin S,
           f[b].bytes \in 0 .. WordMod - 1
    PROVE  Cardinality(Cells(S \cup {b}, f)) = Cardinality(Cells(S, f)) + f[b].bytes
<1> DEFINE size == f[b].bytes
           own == {b} \X (1 .. size)
<1>1. size \in Nat /\ size <= WordMod BY SizeAssumption
<1>2. IsFiniteSet(1 .. size) /\ Cardinality(1 .. size) = size
  <2> HIDE DEF size
  <2>1. IsFiniteSet(1 .. size)
        /\ Cardinality(1 .. size) = IF 1 > size THEN 0 ELSE size - 1 + 1
    BY <1>1, FS_Interval
  <2> QED BY <1>1, <2>1
<1>3. IsFiniteSet({b}) /\ Cardinality({b}) = 1 BY FS_Singleton
<1>4. IsFiniteSet(own) /\ Cardinality(own) = size
  <2>1. IsFiniteSet(own) /\ Cardinality(own) = Cardinality({b}) * Cardinality(1 .. size)
    BY <1>2, <1>3, FS_Product
  <2> HIDE DEF own, size
  <2> QED BY <1>1, <1>2, <1>3, <2>1
<1>5. Cells(S \cup {b}, f) = Cells(S, f) \cup own
  <2>1. \A i \in 1 .. WordMod : i <= size <=> i \in 1 .. size BY <1>1, SizeAssumption
  <2>2. 1 .. size \subseteq 1 .. WordMod BY <1>1, SizeAssumption
  <2>3. Cells(S \cup {b}, f) \subseteq Cells(S, f) \cup own BY <2>1 DEF Cells
  <2>4. Cells(S, f) \subseteq Cells(S \cup {b}, f) BY DEF Cells
  <2>5. own \subseteq Cells(S \cup {b}, f)
    <3> SUFFICES ASSUME NEW i \in 1 .. size PROVE <<b, i>> \in Cells(S \cup {b}, f)
      OBVIOUS
    <3>1. i \in 1 .. WordMod /\ i <= size BY <2>1, <2>2
    <3> QED BY <3>1 DEF Cells
  <2> QED BY <2>3, <2>4, <2>5
<1>6. Cells(S, f) \cap own = {} BY DEF Cells
<1>7. Cardinality(Cells(S \cup {b}, f)) =
         Cardinality(Cells(S, f)) + Cardinality(own) - Cardinality(Cells(S, f) \cap own)
  BY <1>4, <1>5, CellsFinite, FS_Union
<1>8. Cardinality(Cells(S, f) \cap own) = 0 BY <1>6, FS_EmptySet
<1>9. Cardinality(Cells(S, f)) \in Nat BY CellsFinite
<1> HIDE DEF own
<1> QED BY <1>1, <1>4, <1>7, <1>8, <1>9

\* The sum depends on the sizes alone.
LEMMA CellsSame ==
    ASSUME NEW S, NEW f, NEW g, \A x \in S : f[x].bytes = g[x].bytes
    PROVE  Cells(S, f) = Cells(S, g)
BY DEF Cells

\* The sum over the table before and after a step, in terms of Cells.
LEMMA BytesInCells ==
    /\ \A S : BytesIn(S) = Cardinality(Cells(S, bloom))
    /\ BytesIn(Linked)' = Cardinality(Cells(Linked', bloom'))
BY DEF BytesIn, Cells

\* There are finitely many filters in the table.
LEMMA LinkedFinite ==
    ASSUME TypeOK
    PROVE  /\ IsFiniteSet(Linked)
           /\ Cardinality(Linked) \in Nat
           /\ BytesIn(Linked) \in Nat
<1>1. Len(bloom) \in Nat BY LenProperties DEF TypeOK
<1>2. IsFiniteSet(BloomIds) BY <1>1, FS_Interval DEF BloomIds
<1>3. Linked \in SUBSET BloomIds BY DEF Linked
<1>4. IsFiniteSet(Linked) BY <1>2, <1>3, FS_Subset
<1> QED BY <1>4, FS_CardinalityType, CellsFinite, BytesInCells

\* A step that leaves the chains and the sizes alone leaves the sums alone.
LEMMA SumsKept ==
    ASSUME Linked' = Linked, \A x \in BloomIds : bloom'[x].bytes = bloom[x].bytes
    PROVE  /\ Cardinality(Linked)' = Cardinality(Linked)
           /\ BytesIn(Linked)' = BytesIn(Linked)
<1>1. Linked \subseteq BloomIds BY DEF Linked
<1>2. Cells(Linked, bloom') = Cells(Linked, bloom) BY <1>1, CellsSame
<1> QED BY <1>2, BytesInCells

-----------------------------------------------------------------------------
(* What the steps that write to the table do to the sums *)

\* blooms_set changes no size.
LEMMA SetBitsSizes ==
    ASSUME TypeOK, CallMatches, ChainsSound, NEW t \in Threads, SetBits(t)
    PROVE  \A x \in BloomIds : bloom'[x].bytes = bloom[x].bytes
<1> DEFINE b == Lookup(call[t].key)
           s == call[t].sub
<1>1. call[t].key \in Keys /\ s \in Subkeys BY DEF SetBits, CallMatches, SetCall
<1>2. b \in BloomIds BY <1>1, LookupFacts DEF SetBits
<1>3. bloom \in Seq(Bloom) BY DEF TypeOK
<1>4. bloom[b] \in Bloom BY <1>2, <1>3, ElementOfSeq DEF BloomIds
<1>5. Filled(bloom[b], s) \in Bloom /\ Filled(bloom[b], s).bytes = bloom[b].bytes
  BY <1>1, <1>4, FilledFacts
<1>6. bloom' = [bloom EXCEPT ![b] = Filled(bloom[b], s)] BY DEF SetBits
<1> HIDE DEF b
<1>7. \A x \in 1 .. Len(bloom) :
         bloom'[x] = IF x = b THEN Filled(bloom[b], s) ELSE bloom[x]
  BY <1>2, <1>3, <1>5, <1>6, ExceptSeq DEF BloomIds
<1> QED BY <1>5, <1>7 DEF BloomIds

\* Nor does blooms_delete when it frees a map.
LEMMA DelBytesStoreSizes ==
    ASSUME TypeOK, PointersValid, NEW t \in Threads, DelBytesStore(t)
    PROVE  \A x \in BloomIds : bloom'[x].bytes = bloom[x].bytes
<1> DEFINE b == cur[t]
           f == [bloom[b] EXCEPT !.live = FALSE]
<1>1. b \in BloomIds BY DEF DelBytesStore, PointersValid
<1>2. bloom \in Seq(Bloom) BY DEF TypeOK
<1>3. bloom[b] \in Bloom BY <1>1, <1>2, ElementOfSeq DEF BloomIds
<1>4. f \in Bloom /\ f.bytes = bloom[b].bytes BY <1>3 DEF Bloom
<1>5. bloom' = [bloom EXCEPT ![b] = f] BY DEF DelBytesStore
<1> HIDE DEF b, f
<1>6. \A x \in 1 .. Len(bloom) : bloom'[x] = IF x = b THEN f ELSE bloom[x]
  BY <1>1, <1>2, <1>4, <1>5, ExceptSeq DEF BloomIds
<1> QED BY <1>4, <1>6 DEF BloomIds

\* A new filter adds one to the filters in the table, and its size to theirs.
LEMMA AddLinkSums ==
    ASSUME TypeOK, CallMatches, ChainsSound, NEW t \in Threads, AddLink(t)
    PROVE  LET n == call[t].n IN
           /\ BloomBytes[n] \in 0 .. WordMod - 1
           /\ Fits(n)
           /\ Cardinality(Linked)' = Cardinality(Linked) + 1
           /\ BytesIn(Linked)' = BytesIn(Linked) + BloomBytes[n]
           /\ bloom'[cur'[t]].bytes = BloomBytes[n]
<1> DEFINE c == call[t]
           b == Len(bloom) + 1
<1>1. BloomBytes[c.n] \in 0 .. WordMod - 1
  BY SizeAssumption DEF AddLink, CallMatches, AddCall
<1>2. /\ BloomIds' = BloomIds \cup {b} /\ b \notin BloomIds
      /\ \A x \in BloomIds : bloom'[x] = bloom[x]
      /\ bloom'[b] = NewBloom(c)
      /\ Linked' = Linked \cup {b}
  BY AddLinkEffect
<1>3. bloom'[b].bytes = BloomBytes[c.n] BY <1>2 DEF NewBloom
<1>4. cur'[t] = b /\ Fits(c.n) BY DEF AddLink, TypeOK
<1>5. IsFiniteSet(Linked) /\ Linked \subseteq BloomIds BY LinkedFinite DEF Linked
<1>6. b \notin Linked BY <1>2, <1>5
<1>7. Cardinality(Linked \cup {b}) = Cardinality(Linked) + 1
  BY <1>5, <1>6, FS_AddElement
<1> HIDE DEF b, c
<1>8. Cells(Linked, bloom') = Cells(Linked, bloom) BY <1>2, <1>5, CellsSame
<1>9. Cardinality(Cells(Linked \cup {b}, bloom'))
         = Cardinality(Cells(Linked, bloom')) + BloomBytes[c.n]
  BY <1>1, <1>3, <1>5, <1>6, CellsAdd
<1>10. BytesIn(Linked)' = BytesIn(Linked) + BloomBytes[c.n]
  BY <1>2, <1>8, <1>9, BytesInCells
<1> QED BY <1>1, <1>2, <1>3, <1>4, <1>7, <1>10 DEF c

\* blooms_delete takes one filter off the table, and its size off the sum.
LEMMA DelUnlinkSums ==
    ASSUME TypeOK, CallMatches, ChainsSound, NEW t \in Threads, DelUnlink(t)
    PROVE  LET d == Lookup(call[t].key) IN
           /\ cur'[t] = d /\ bloom' = bloom
           /\ bloom[d].bytes \in 0 .. WordMod - 1
           /\ Cardinality(Linked)' = Cardinality(Linked) - 1
           /\ BytesIn(Linked)' = BytesIn(Linked) - bloom[d].bytes
<1> DEFINE d == Lookup(call[t].key)
<1>1. call[t].key \in Keys BY DEF DelUnlink, CallMatches, DelCall
<1>2. d \in Linked /\ d \in BloomIds BY <1>1, LookupFacts DEF DelUnlink
<1>3. cur'[t] = d /\ bloom' = bloom BY DEF DelUnlink, TypeOK
<1>4. Linked' = Linked \ {d} BY DelUnlinkEffect
<1> HIDE DEF d
<1>5. bloom[d].bytes \in 0 .. WordMod - 1
  <2>1. bloom[d] \in Bloom BY <1>2, ElementOfSeq DEF TypeOK, BloomIds
  <2> QED BY <2>1 DEF Bloom
<1>6. IsFiniteSet(Linked) /\ Cardinality(Linked) \in Nat BY LinkedFinite
<1>7. IsFiniteSet(Linked \ {d}) /\ Cardinality(Linked \ {d}) = Cardinality(Linked) - 1
  BY <1>2, <1>6, FS_RemoveElement
<1>8. Linked = (Linked \ {d}) \cup {d} BY <1>2
<1> DEFINE rest == Linked \ {d}
           n == Cardinality(Cells(rest, bloom))
           m == Cardinality(Cells(Linked, bloom))
           k == bloom[d].bytes
<1>9. m = n + k
  <2>1. d \notin rest /\ IsFiniteSet(rest) /\ Linked = rest \cup {d} BY <1>7, <1>8
  <2> HIDE DEF rest
  <2> QED BY <2>1, <1>5, CellsAdd
<1>10. n \in Nat BY <1>7, CellsFinite
<1>11. k \in Nat BY <1>5, SizeAssumption
<1>12. BytesIn(Linked) = m /\ BytesIn(Linked)' = n BY <1>3, <1>4, BytesInCells
<1>13. n = m - k
  <2> HIDE DEF n, m, k
  <2> QED BY <1>9, <1>10, <1>11
<1> QED BY <1>3, <1>4, <1>5, <1>7, <1>12, <1>13 DEF d
-----------------------------------------------------------------------------
(* The inductive invariant *)

\* A thread that clients do not ask to add or delete never gets to the
\* sections of blooms_add and blooms_delete.
LEMMA AdminsAccountStep ==
    ASSUME TypeOK, AdminsAccount, [Next]_vars
    PROVE  AdminsAccount'
<1> USE DEF TypeOK, AdminsAccount, Accounting, AddSizing, AddCounting, DelCounting,
        locals, Goto, Answer, Leave,
        LockHash, LockDlist, Load, UnlockReturn, UnlockDlistLeave
<1>1. ASSUME NEW t \in Threads, Invoke(t) PROVE AdminsAccount'
  <2>1. PICK c \in Calls[t] : pc' = [pc EXCEPT ![t] = Entry[c.op]]
    BY <1>1 DEF Invoke
  <2>2. \/ c.op \in {"add", "delete"}
        \/ Entry[c.op] \in {"set_lock", "get_lock"}
    BY EntryLabel DEF AddCall, DelCall, SetCall, GetCall
  <2> QED BY <2>1, <2>2 DEF Administers
<1>2. ASSUME NEW t \in Threads, AddStep(t) PROVE AdminsAccount'
  BY <1>2 DEF AddStep, AddLock, AddExists, AddRefused, AddLink, AddThrows, AddCountLoad,
     AddCountStore, AddBytesLoad, AddBytesStore, AddDlistLock, AddDone
<1>3. ASSUME NEW t \in Threads, SetStep(t) PROVE AdminsAccount'
  BY <1>3 DEF SetStep, SetLock, SetMissing, SetBits
<1>4. ASSUME NEW t \in Threads, GetStep(t) PROVE AdminsAccount'
  BY <1>4 DEF GetStep, GetLock, GetMissing, GetFind, GetAddr, GetHit, GetAbsent, GetPresent
<1>5. ASSUME NEW t \in Threads, DelStep(t) PROVE AdminsAccount'
  BY <1>5 DEF DelStep, DelLock, DelDlistLock, DelMissing, DelUnlink, DelBytesLoad,
     DelBytesStore, DelCountLoad, DelCountStore, DelUnlockHash, DelDone
<1>6. CASE UNCHANGED vars BY <1>6 DEF vars
<1> QED BY <1>1, <1>2, <1>3, <1>4, <1>5, <1>6 DEF Next, Step, Finished

\* While one thread is in the sections that change what is counted, no other is.
LEMMA SoleAdmin ==
    ASSUME OneAdmin, AdminsAccount, NEW t \in Threads,
           pc[t] \in Accounting \cup {"add_init", "del_find"}
    PROVE  \A u \in Threads \ {t} : pc[u] \notin Accounting
BY DEF OneAdmin, AdminsAccount

\* A step that leaves the chains, the sizes, the totals and the threads that
\* account for a filter alone.
LEMMA AccountsKept ==
    ASSUME TypeOK, PointersValid, Accounts, Linked' = Linked, UNCHANGED <<count, bytes>>,
           \A x \in BloomIds : bloom'[x].bytes = bloom[x].bytes,
           \A u \in Threads :
              \/ pc[u] \notin Accounting /\ pc'[u] \notin Accounting
              \/ pc'[u] = pc[u] /\ cur'[u] = cur[u] /\ tmp'[u] = tmp[u]
    PROVE  Accounts'
<1>1. /\ Cardinality(Linked)' = Cardinality(Linked)
      /\ BytesIn(Linked)' = BytesIn(Linked)
  BY SumsKept
<1>2. \A u \in Threads : pc[u] \in AddSizing \cup DelSizing => cur[u] \in BloomIds
  BY DEF PointersValid, AddSizing, DelSizing, AddCounting
<1>3. \A u \in Threads : /\ pc'[u] \in AddCounting <=> pc[u] \in AddCounting
                         /\ pc'[u] \in DelCounting <=> pc[u] \in DelCounting
                         /\ pc'[u] \in AddSizing <=> pc[u] \in AddSizing
                         /\ pc'[u] \in DelSizing <=> pc[u] \in DelSizing
  BY DEF Accounting, AddSizing, AddCounting, DelCounting, DelSizing
<1>4. \A u \in Threads : pc[u] \in AddSizing \cup DelSizing =>
          bloom'[cur'[u]].bytes = bloom[cur[u]].bytes
  <2>1. AddSizing \cup DelSizing \subseteq Accounting
    BY DEF Accounting, AddSizing, AddCounting, DelCounting, DelSizing
  <2> QED BY <1>2, <2>1
<1>5. \A u \in Threads :
          /\ pc'[u] \in {"add_count_store", "del_count_store"} =>
                pc[u] \in {"add_count_store", "del_count_store"} /\ tmp'[u] = tmp[u]
          /\ pc'[u] \in {"add_bytes_store", "del_bytes_store"} =>
                pc[u] \in {"add_bytes_store", "del_bytes_store"} /\ tmp'[u] = tmp[u]
  BY DEF Accounting, AddSizing, AddCounting, DelCounting
<1> DEFINE n == Cardinality(Linked)
           m == BytesIn(Linked)
<1>6. n' = n /\ m' = m BY <1>1
<1> SUFFICES
    /\ \A t \in Threads :
          /\ pc'[t] \in AddCounting => n' = count' + 1
          /\ pc'[t] \in DelCounting => n' = count' - 1
          /\ pc'[t] \in AddSizing => m' = bytes' + bloom'[cur'[t]].bytes
          /\ pc'[t] \in DelSizing => m' = bytes' - bloom'[cur'[t]].bytes
          /\ pc'[t] \in {"add_count_store", "del_count_store"} => tmp'[t] = count'
          /\ pc'[t] \in {"add_bytes_store", "del_bytes_store"} => tmp'[t] = bytes'
    /\ (\A t \in Threads : pc'[t] \notin AddCounting \cup DelCounting) => n' = count'
    /\ (\A t \in Threads : pc'[t] \notin AddSizing \cup DelSizing) => m' = bytes'
  BY DEF Accounts, AddCounting, DelCounting, AddSizing, DelSizing
<1>7. /\ \A t \in Threads :
          /\ pc[t] \in AddCounting => n = count + 1
          /\ pc[t] \in DelCounting => n = count - 1
          /\ pc[t] \in AddSizing => m = bytes + bloom[cur[t]].bytes
          /\ pc[t] \in DelSizing => m = bytes - bloom[cur[t]].bytes
          /\ pc[t] \in {"add_count_store", "del_count_store"} => tmp[t] = count
          /\ pc[t] \in {"add_bytes_store", "del_bytes_store"} => tmp[t] = bytes
      /\ (\A t \in Threads : pc[t] \notin AddCounting \cup DelCounting) => n = count
      /\ (\A t \in Threads : pc[t] \notin AddSizing \cup DelSizing) => m = bytes
  BY DEF Accounts
<1> HIDE DEF n, m
<1> QED BY <1>3, <1>4, <1>5, <1>6, <1>7
\* What Accounts says when t is the only thread that may be accounting.
AccountsOf(t) ==
    /\ pc[t] \in AddCounting => Cardinality(Linked) = count + 1
    /\ pc[t] \in DelCounting => Cardinality(Linked) = count - 1
    /\ pc[t] \notin AddCounting \cup DelCounting => Cardinality(Linked) = count
    /\ pc[t] \in AddSizing => BytesIn(Linked) = bytes + bloom[cur[t]].bytes
    /\ pc[t] \in DelSizing => BytesIn(Linked) = bytes - bloom[cur[t]].bytes
    /\ pc[t] \notin AddSizing \cup DelSizing => BytesIn(Linked) = bytes
    /\ pc[t] \in {"add_count_store", "del_count_store"} => tmp[t] = count
    /\ pc[t] \in {"add_bytes_store", "del_bytes_store"} => tmp[t] = bytes

\* The invariant is that of the administrating thread.
LEMMA AccountsOfOne ==
    ASSUME NEW t \in Threads
    PROVE  /\ (\A u \in Threads \ {t} : pc[u] \notin Accounting) =>
                 (Accounts <=> AccountsOf(t))
           /\ (\A u \in Threads \ {t} : pc'[u] \notin Accounting) =>
                 (AccountsOf(t)' => Accounts')
<1> USE DEF Accounting, AddSizing, AddCounting, DelCounting, DelSizing
<1>1. ASSUME \A u \in Threads \ {t} : pc[u] \notin Accounting
      PROVE  Accounts <=> AccountsOf(t)
  BY <1>1 DEF Accounts, AccountsOf
<1>2. ASSUME \A u \in Threads \ {t} : pc'[u] \notin Accounting, AccountsOf(t)'
      PROVE  Accounts'
  BY <1>2 DEF Accounts, AccountsOf
<1> QED BY <1>1, <1>2

\* The eight steps of the administrating thread that neither link nor unlink:
\* each leaves the sums alone and settles what it is for.
LEMMA AccountingStep ==
    ASSUME TypeOK, PointersValid, ChainsSound, BytesIn(Linked) <= MaxBytes,
           NEW t \in Threads, AccountsOf(t),
           \/ AddCountLoad(t) \/ AddCountStore(t) \/ AddBytesLoad(t) \/ AddBytesStore(t)
           \/ DelBytesLoad(t) \/ DelBytesStore(t) \/ DelCountLoad(t) \/ DelCountStore(t)
    PROVE  /\ Linked' = Linked
           /\ BytesIn(Linked)' = BytesIn(Linked)
           /\ \A u \in Threads \ {t} : pc'[u] = pc[u]
           /\ AccountsOf(t)'
<1> USE DEF Goto, Load, table, totals, locks, locals
<1>1. Linked' = Linked /\ \A x \in BloomIds : bloom'[x].bytes = bloom[x].bytes
  <2>1. CASE DelBytesStore(t) BY <2>1, DelBytesStoreSizes, DelBytesStoreEffect
  <2>2. CASE ~ DelBytesStore(t)
    <3>1. UNCHANGED <<hashtable, bloom>>
      BY <2>2 DEF AddCountLoad, AddCountStore, AddBytesLoad, AddBytesStore,
                  DelBytesLoad, DelCountLoad, DelCountStore
    <3> QED BY <3>1, TableUnchanged
  <2> QED BY <2>1, <2>2
<1>2. Cardinality(Linked)' = Cardinality(Linked) /\ BytesIn(Linked)' = BytesIn(Linked)
  BY <1>1, SumsKept
<1>3. /\ pc' = [pc EXCEPT ![t] = pc'[t]] /\ cur' = cur
      /\ pc \in [Threads -> Labels] /\ tmp \in [Threads -> Int]
  BY DEF TypeOK, AddCountLoad, AddCountStore, AddBytesLoad, AddBytesStore,
         DelBytesLoad, DelBytesStore, DelCountLoad, DelCountStore
<1>4. \A u \in Threads \ {t} : pc'[u] = pc[u] BY <1>3
<1> DEFINE n == Cardinality(Linked)
           m == BytesIn(Linked)
           k == bloom[cur[t]].bytes
<1>5. n \in Nat /\ m \in Nat BY LinkedFinite
<1>6. cur[t] \in BloomIds => k \in Nat /\ bloom'[cur'[t]].bytes = k
  <2>1. cur[t] \in BloomIds => bloom[cur[t]] \in Bloom
    BY ElementOfSeq DEF TypeOK, BloomIds
  <2>2. cur[t] \in BloomIds => k \in 0 .. WordMod - 1 BY <2>1 DEF Bloom
  <2> HIDE DEF k
  <2>3. cur[t] \in BloomIds => k \in Nat BY <2>2, SizeAssumption
  <2> QED BY <2>3, <1>1, <1>3 DEF k
<1>7. count \in Int /\ bytes \in Int /\ MaxBytes \in Nat /\ WordMod \in Nat /\ MaxBytes < WordMod
  BY SizeAssumption DEF TypeOK
<1>8. /\ pc[t] \in {"add_count_load", "add_count_store"} => n = count + 1
      /\ pc[t] \in {"del_bytes_load", "del_bytes_store", "del_count_load", "del_count_store"}
            => n = count - 1
      /\ pc[t] \in {"add_bytes_load", "add_bytes_store"} => n = count
      /\ pc[t] \in {"add_count_load", "add_count_store", "add_bytes_load", "add_bytes_store"}
            => m = bytes + k
      /\ pc[t] \in {"del_bytes_load", "del_bytes_store"} => m = bytes - k
      /\ pc[t] \in {"del_count_load", "del_count_store"} => m = bytes
      /\ pc[t] \in {"add_count_store", "del_count_store"} => tmp[t] = count
      /\ pc[t] \in {"add_bytes_store", "del_bytes_store"} => tmp[t] = bytes
  BY DEF AccountsOf, AddCounting, DelCounting, AddSizing, DelSizing
<1> DEFINE k1 == bloom'[cur'[t]].bytes
<1>9. n' = n /\ m' = m BY <1>2
<1>10. /\ pc[t] \in {"add_count_load", "add_count_store", "add_bytes_load", "add_bytes_store",
                     "del_bytes_load", "del_bytes_store"}
            => k \in Nat /\ k1 = k
  BY <1>6 DEF PointersValid
<1> DEFINE Goal ==
    /\ pc'[t] \in AddCounting => n' = count' + 1
    /\ pc'[t] \in DelCounting => n' = count' - 1
    /\ pc'[t] \notin AddCounting \cup DelCounting => n' = count'
    /\ pc'[t] \in AddSizing => m' = bytes' + k1
    /\ pc'[t] \in DelSizing => m' = bytes' - k1
    /\ pc'[t] \notin AddSizing \cup DelSizing => m' = bytes'
    /\ pc'[t] \in {"add_count_store", "del_count_store"} => tmp'[t] = count'
    /\ pc'[t] \in {"add_bytes_store", "del_bytes_store"} => tmp'[t] = bytes'
<1>11. m <= MaxBytes OBVIOUS
<1> HIDE DEF n, m, k, k1
<1>12. Goal
  <2> USE DEF AddCounting, DelCounting, AddSizing, DelSizing
  <2>1. CASE AddCountLoad(t) BY <2>1, <1>3, <1>8, <1>9, <1>10 DEF AddCountLoad
  <2>2. CASE AddCountStore(t) BY <2>2, <1>3, <1>7, <1>8, <1>9, <1>10 DEF AddCountStore
  <2>3. CASE AddBytesLoad(t) BY <2>3, <1>3, <1>8, <1>9, <1>10 DEF AddBytesLoad
  <2>4. CASE AddBytesStore(t)
    <3>1. pc[t] = "add_bytes_store" /\ pc'[t] = "add_dlist" /\ count' = count
      BY <2>4, <1>3 DEF AddBytesStore
    <3>2. bytes' = (bytes + k) % WordMod /\ k \in Nat
      BY <2>4, <3>1, <1>8, <1>10 DEF AddBytesStore, SizePlus, k
    <3>3. m = bytes + k /\ n = count BY <3>1, <1>8
    <3>4. bytes' = m % WordMod BY <3>2, <3>3
    <3>5. m % WordMod = m BY <1>5, <1>7, <1>11
    <3> QED BY <3>1, <3>3, <3>4, <3>5, <1>9
  <2>5. CASE DelBytesLoad(t) BY <2>5, <1>3, <1>8, <1>9, <1>10 DEF DelBytesLoad
  <2>6. CASE DelBytesStore(t)
    <3>1. pc[t] = "del_bytes_store" /\ pc'[t] = "del_count_load" /\ count' = count
      BY <2>6, <1>3 DEF DelBytesStore
    <3>2. bytes' = (bytes - k) % WordMod
      BY <2>6, <3>1, <1>8 DEF DelBytesStore, SizeMinus, k
    <3>3. m = bytes - k /\ n = count - 1 BY <3>1, <1>8
    <3>4. bytes' = m % WordMod BY <3>2, <3>3
    <3>5. m % WordMod = m BY <1>5, <1>7, <1>11
    <3> QED BY <3>1, <3>3, <3>4, <3>5, <1>9
  <2>7. CASE DelCountLoad(t) BY <2>7, <1>3, <1>8, <1>9 DEF DelCountLoad
  <2>8. CASE DelCountStore(t) BY <2>8, <1>3, <1>7, <1>8, <1>9 DEF DelCountStore
  <2> QED BY <2>1, <2>2, <2>3, <2>4, <2>5, <2>6, <2>7, <2>8
<1>13. AccountsOf(t)' BY <1>12 DEF AccountsOf, n, m, k1, AddCounting, DelCounting, AddSizing, DelSizing
<1> QED BY <1>1, <1>2, <1>4, <1>13
\* The filter that blooms_add links is the one that is not counted yet, and it
\* fits below the limit because the total is that of the table.
LEMMA AddLinkAccounts ==
    ASSUME IndInv, NEW t \in Threads, AccountsOf(t), BytesIn(Linked) <= MaxBytes, AddLink(t)
    PROVE  AccountsOf(t)' /\ BytesIn(Linked)' <= MaxBytes
<1> DEFINE n == Cardinality(Linked)
           m == BytesIn(Linked)
           k == BloomBytes[call[t].n]
           k1 == bloom'[cur'[t]].bytes
<1> USE DEF IndInv
<1>1. k \in 0 .. WordMod - 1 /\ Fits(call[t].n) /\ n' = n + 1 /\ m' = m + k /\ k1 = k
  BY AddLinkSums
<1>2. n \in Nat /\ m \in Nat BY LinkedFinite
<1>3. WordMod \in Nat /\ MaxBytes \in 0 .. WordMod - 1 BY SizeAssumption
<1>4. /\ pc[t] = "add_init" /\ pc'[t] = "add_count_load"
      /\ count' = count /\ bytes' = bytes /\ count \in Int
  BY DEF AddLink, Goto, totals, TypeOK
<1>5. n = count /\ m = bytes
  BY <1>4 DEF AccountsOf, AddSizing, AddCounting, DelCounting, DelSizing
<1>6. k <= (MaxBytes - bytes) % WordMod BY <1>1 DEF Fits, SizeMinus
<1>7. m <= MaxBytes OBVIOUS
<1> HIDE DEF n, m, k, k1
<1>8. (MaxBytes - m) % WordMod = MaxBytes - m
  <2>1. MaxBytes - m \in 0 .. WordMod - 1 BY <1>2, <1>3, <1>7
  <2> QED BY <2>1, <1>3
<1>9. m' <= MaxBytes BY <1>1, <1>2, <1>3, <1>5, <1>6, <1>7, <1>8
<1>10. n' = count' + 1 /\ m' = bytes' + k1 BY <1>1, <1>4, <1>5
<1>11. AccountsOf(t)'
  BY <1>4, <1>10 DEF AccountsOf, AddSizing, AddCounting, DelCounting, DelSizing, n, m, k1
<1> QED BY <1>9, <1>11 DEF m

\* The filter that blooms_delete unlinks is the one that is still counted.
LEMMA DelUnlinkAccounts ==
    ASSUME IndInv, NEW t \in Threads, AccountsOf(t), BytesIn(Linked) <= MaxBytes, DelUnlink(t)
    PROVE  AccountsOf(t)' /\ BytesIn(Linked)' <= MaxBytes
<1> DEFINE n == Cardinality(Linked)
           m == BytesIn(Linked)
           k == bloom[Lookup(call[t].key)].bytes
           k1 == bloom'[cur'[t]].bytes
<1> USE DEF IndInv
<1>1. k \in 0 .. WordMod - 1 /\ n' = n - 1 /\ m' = m - k /\ k1 = k
  BY DelUnlinkSums
<1>2. n \in Nat /\ m \in Nat BY LinkedFinite
<1>3. WordMod \in Nat /\ MaxBytes \in 0 .. WordMod - 1 BY SizeAssumption
<1>4. /\ pc[t] = "del_find" /\ pc'[t] = "del_bytes_load"
      /\ count' = count /\ bytes' = bytes /\ count \in Int
  BY DEF DelUnlink, Goto, totals, TypeOK
<1>5. n = count /\ m = bytes
  BY <1>4 DEF AccountsOf, AddSizing, AddCounting, DelCounting, DelSizing
<1>6. m <= MaxBytes OBVIOUS
<1> HIDE DEF n, m, k, k1
<1>7. m' <= MaxBytes BY <1>1, <1>2, <1>3, <1>6
<1>8. n' = count' - 1 /\ m' = bytes' - k1 BY <1>1, <1>4, <1>5
<1>9. AccountsOf(t)'
  BY <1>4, <1>8 DEF AccountsOf, AddSizing, AddCounting, DelCounting, DelSizing, n, m, k1
<1> QED BY <1>7, <1>9 DEF m

\* Every step keeps the totals in line with the table, and the limit.
LEMMA AccountsStep ==
    ASSUME OneAdmin, IndInv, AdminsAccount, Accounts, BytesIn(Linked) <= MaxBytes,
           [Next]_vars
    PROVE  Accounts' /\ BytesIn(Linked)' <= MaxBytes
<1> USE DEF IndInv
<1> DEFINE Kept == /\ Linked' = Linked /\ UNCHANGED <<count, bytes>>
                   /\ \A x \in BloomIds : bloom'[x].bytes = bloom[x].bytes
                   /\ \A u \in Threads :
                        \/ pc[u] \notin Accounting /\ pc'[u] \notin Accounting
                        \/ pc'[u] = pc[u] /\ cur'[u] = cur[u] /\ tmp'[u] = tmp[u]
<1>1. ASSUME Kept PROVE Accounts' /\ BytesIn(Linked)' <= MaxBytes
  BY <1>1, AccountsKept, SumsKept
<1>2. ASSUME NEW t \in Threads, pc[t] \notin Accounting, pc'[t] \notin Accounting,
             \A u \in Threads \ {t} : pc'[u] = pc[u] /\ cur'[u] = cur[u] /\ tmp'[u] = tmp[u],
             hashtable' = hashtable, bloom' = bloom, count' = count, bytes' = bytes
      PROVE  Kept
  BY <1>2, TableUnchanged
<1>3. ASSUME NEW t \in Threads, NEW l, pc[t] \notin Accounting, l \notin Accounting,
             Goto(t, l), cur' = cur, tmp' = tmp,
             hashtable' = hashtable, bloom' = bloom, count' = count, bytes' = bytes
      PROVE  Kept
  BY <1>2, <1>3 DEF Goto, TypeOK
<1>4. ASSUME NEW t \in Threads, pc[t] \notin Accounting, Leave(t),
             hashtable' = hashtable, bloom' = bloom, count' = count, bytes' = bytes
      PROVE  Kept
  BY <1>2, <1>4 DEF Goto, Leave, TypeOK, Accounting, AddSizing, AddCounting, DelCounting
<1> HIDE DEF Kept
<1>5. ASSUME NEW t \in Threads, pc[t] \in Accounting,
              \/ AddCountLoad(t) \/ AddCountStore(t) \/ AddBytesLoad(t) \/ AddBytesStore(t)
              \/ DelBytesLoad(t) \/ DelBytesStore(t) \/ DelCountLoad(t) \/ DelCountStore(t)
       PROVE  Accounts' /\ BytesIn(Linked)' <= MaxBytes
  <2>1. \A u \in Threads \ {t} : pc[u] \notin Accounting BY <1>5, SoleAdmin
  <2>2. AccountsOf(t) BY <2>1, AccountsOfOne
  <2>3. /\ BytesIn(Linked)' = BytesIn(Linked) /\ AccountsOf(t)'
        /\ \A u \in Threads \ {t} : pc'[u] = pc[u]
    BY <1>5, <2>2, AccountingStep
  <2> QED BY <2>1, <2>3, AccountsOfOne
<1> USE DEF table, totals, locals, LockHash, LockDlist, UnlockReturn, UnlockDlistLeave
<1>6. ASSUME NEW t \in Threads, Invoke(t) PROVE Kept
  <2>1. PICK c \in Calls[t] : pc' = [pc EXCEPT ![t] = Entry[c.op]]
    BY <1>6 DEF Invoke, Goto
  <2>2. Entry[c.op] \in {"add_lock", "set_lock", "get_lock", "del_lock"}
    BY EntryLabel
  <2>3. pc[t] \notin Accounting /\ pc'[t] \notin Accounting
    BY <1>6, <2>1, <2>2
       DEF Invoke, TypeOK, Accounting, AddSizing, AddCounting, DelCounting
  <2> QED BY <1>6, <1>2, <2>1, <2>3 DEF Invoke, TypeOK
<1>7. ASSUME NEW t \in Threads, AddStep(t) PROVE Accounts' /\ BytesIn(Linked)' <= MaxBytes
  <2> USE DEF Accounting, AddSizing, AddCounting, DelCounting
  <2>1. CASE AddLock(t) BY <2>1, <1>1, <1>3 DEF AddLock
  <2>2. CASE AddExists(t) BY <2>2, <1>1, <1>4 DEF AddExists
  <2>3. CASE AddRefused(t) BY <2>3, <1>1, <1>4 DEF AddRefused
  <2>4. CASE AddLink(t)
    <3>1. \A u \in Threads \ {t} : pc[u] \notin Accounting /\ pc'[u] = pc[u]
      BY <2>4, SoleAdmin DEF AddLink, Goto, TypeOK
    <3>2. AccountsOf(t) BY <3>1, AccountsOfOne
    <3> QED BY <2>4, <3>1, <3>2, AddLinkAccounts, AccountsOfOne
  <2>5. CASE AddThrows(t) BY <2>5, <1>1, <1>4 DEF AddThrows
  <2>6. CASE AddCountLoad(t) \/ AddCountStore(t) \/ AddBytesLoad(t) \/ AddBytesStore(t)
    <3>1. pc[t] \in Accounting
      BY <2>6 DEF AddCountLoad, AddCountStore, AddBytesLoad, AddBytesStore, Load
    <3> QED BY <2>6, <3>1, <1>5
  <2>7. CASE AddDlistLock(t) BY <2>7, <1>1, <1>3 DEF AddDlistLock
  <2>8. CASE AddDone(t) BY <2>8, <1>1, <1>4 DEF AddDone
  <2> QED BY <1>7, <2>1, <2>2, <2>3, <2>4, <2>5, <2>6, <2>7, <2>8 DEF AddStep
<1>8. ASSUME NEW t \in Threads, SetStep(t) PROVE Kept
  <2> USE DEF Accounting, AddSizing, AddCounting, DelCounting
  <2>1. CASE SetLock(t) BY <2>1, <1>3 DEF SetLock
  <2>2. CASE SetMissing(t) BY <2>2, <1>4 DEF SetMissing
  <2>3. CASE SetBits(t)
    <3>1. Linked' = Linked /\ \A x \in BloomIds : bloom'[x].bytes = bloom[x].bytes
      BY <2>3, SetBitsEffect, SetBitsSizes
    <3>2. \A u \in Threads : \/ pc[u] \notin Accounting /\ pc'[u] \notin Accounting
                             \/ pc'[u] = pc[u] /\ cur'[u] = cur[u] /\ tmp'[u] = tmp[u]
      BY <2>3 DEF SetBits, Leave, Goto, TypeOK
    <3> QED BY <2>3, <3>1, <3>2 DEF SetBits, Kept
  <2> QED BY <1>8, <2>1, <2>2, <2>3 DEF SetStep
<1>9. ASSUME NEW t \in Threads, GetStep(t) PROVE Kept
  <2> USE DEF Accounting, AddSizing, AddCounting, DelCounting
  <2>1. CASE GetLock(t) BY <2>1, <1>3 DEF GetLock
  <2>2. CASE GetMissing(t) BY <2>2, <1>4 DEF GetMissing
  <2>3. CASE GetFind(t) BY <2>3, <1>2 DEF GetFind, Goto, TypeOK
  <2>4. CASE GetAddr(t) BY <2>4, <1>3 DEF GetAddr
  <2>5. CASE GetHit(t) BY <2>5, <1>3 DEF GetHit
  <2>6. CASE GetAbsent(t) BY <2>6, <1>4 DEF GetAbsent
  <2>7. CASE GetPresent(t) BY <2>7, <1>4 DEF GetPresent
  <2> QED BY <1>9, <2>1, <2>2, <2>3, <2>4, <2>5, <2>6, <2>7 DEF GetStep
<1>10. ASSUME NEW t \in Threads, DelStep(t) PROVE Accounts' /\ BytesIn(Linked)' <= MaxBytes
  <2> USE DEF Accounting, AddSizing, AddCounting, DelCounting
  <2>1. CASE DelLock(t) BY <2>1, <1>1, <1>3 DEF DelLock
  <2>2. CASE DelDlistLock(t) BY <2>2, <1>1, <1>3 DEF DelDlistLock
  <2>3. CASE DelMissing(t) BY <2>3, <1>1, <1>3 DEF DelMissing
  <2>4. CASE DelUnlink(t)
    <3>1. \A u \in Threads \ {t} : pc[u] \notin Accounting /\ pc'[u] = pc[u]
      BY <2>4, SoleAdmin DEF DelUnlink, Goto, TypeOK
    <3>2. AccountsOf(t) BY <3>1, AccountsOfOne
    <3> QED BY <2>4, <3>1, <3>2, DelUnlinkAccounts, AccountsOfOne
  <2>5. CASE DelBytesLoad(t) \/ DelBytesStore(t) \/ DelCountLoad(t) \/ DelCountStore(t)
    <3>1. pc[t] \in Accounting
      BY <2>5 DEF DelBytesLoad, DelBytesStore, DelCountLoad, DelCountStore, Load
    <3> QED BY <2>5, <3>1, <1>5
  <2>6. CASE DelUnlockHash(t) BY <2>6, <1>1, <1>3 DEF DelUnlockHash
  <2>7. CASE DelDone(t) BY <2>7, <1>1, <1>4 DEF DelDone
  <2> QED BY <1>10, <2>1, <2>2, <2>3, <2>4, <2>5, <2>6, <2>7 DEF DelStep
<1>11. CASE UNCHANGED vars
  <2>1. Kept BY <1>11, TableUnchanged DEF vars, Kept
  <2> QED BY <2>1, <1>1
<1> QED BY <1>1, <1>6, <1>7, <1>8, <1>9, <1>10, <1>11 DEF Next, Step, Finished

-----------------------------------------------------------------------------
(* The theorems *)

LEMMA AccountsAlways == OneAdmin => (Spec => [](Accounts /\ CapacityRespected))
<1> SUFFICES ASSUME OneAdmin PROVE Spec => [](Accounts /\ CapacityRespected)
  OBVIOUS
<1> DEFINE Inv == AdminsAccount /\ Accounts /\ CapacityRespected
<1>1. Init => Inv
  <2> SUFFICES ASSUME Init PROVE Inv OBVIOUS
  <2>1. Linked = {} BY DEF Init, Linked, BloomIds
  <2>2. Cardinality(Linked) = 0 /\ BytesIn(Linked) = 0
    <3>1. Cells({}, bloom) = {} BY DEF Cells
    <3> QED BY <2>1, <3>1, BytesInCells, FS_EmptySet
  <2> USE DEF Accounting, AddSizing, AddCounting, DelCounting, DelSizing
  <2>3. AdminsAccount BY DEF Init, AdminsAccount
  <2>4. Accounts BY <2>2 DEF Init, Accounts
  <2>5. CapacityRespected BY <2>2, SizeAssumption DEF CapacityRespected
  <2> QED BY <2>3, <2>4, <2>5
<1>2. IndInv /\ Inv /\ [Next]_vars => Inv'
  BY AdminsAccountStep, AccountsStep DEF IndInv, CapacityRespected
<1>3. Inv => Accounts /\ CapacityRespected OBVIOUS
<1> HIDE DEF Inv
<1> QED BY <1>1, <1>2, <1>3, Inductive, PTL DEF Spec

\* With one administrating thread, and no call in progress, blooms_status
\* prints the number of filters and the bytes they take.
THEOREM TotalsAlwaysExact == OneAdmin => (Spec => []TotalsExact)
<1> SUFFICES ASSUME OneAdmin PROVE Spec => []TotalsExact
  OBVIOUS
<1>1. Accounts => TotalsExact
  BY DEF Accounts, TotalsExact, Quiet, AddSizing, AddCounting, DelCounting, DelSizing
<1> QED BY <1>1, AccountsAlways, PTL

\* With one administrating thread blooms_add never lets the table grow beyond
\* max_bytes.
THEOREM CapacityAlwaysRespected == OneAdmin => (Spec => []CapacityRespected)
<1> SUFFICES ASSUME OneAdmin PROVE Spec => []CapacityRespected
  OBVIOUS
<1>1. Accounts /\ CapacityRespected => CapacityRespected OBVIOUS
<1> QED BY <1>1, AccountsAlways, PTL
=============================================================================
