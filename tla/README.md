# Verification of the bloom filter server

TLA+ models of the bloom filter server and of the crawler it was made from, the
TLC runs that check them on small instances, and TLAPS proofs for every value of
the constants. Paths are given relative to the repository root, in the form
`src/...`; "table" is the global `blooms` of `src/module/bloomfilter/bloom_filter.cpp`.

## 1. Inventory of the system

The repository is a web crawler turned into a server: `main.cpp` builds
`InfoCrawler`, whose `startServer` installs signal handlers and then only runs
`ThriftManager::start_thrift_server`. The managers of the crawler are compiled
and constructed, but this server starts none of their threads.

| part | state | operations | interacts through |
|---|---|---|---|
| Filter table (`bloom_filter.cpp/.h`) | `hashtable` of chains of `bloom_t`, the totals `count` and `bytes`, `bloom_hash_lock`, `bloom_dlist_lock`, the global `bloom_get_addr` | `blooms_init`, `blooms_add`, `blooms_set`, `blooms_get`, `blooms_delete`, status functions | ten thrift workers share it |
| Persistence (`bloom_filter.cpp`, `ThriftManager.cpp`) | `file.txt`, `dump_file_lock` | `blooms_load` at start, `blooms_dump` in a thread of its own, `blooms_dump1` from the handler | reads the table under `bloom_hash_lock` |
| Start and shutdown (`InfoCrawler.cpp`) | signal dispositions | `startServer`, `sigcleanup` | runs `blooms_dump1` on top of the thread it interrupts |
| Thrift service (`ThriftManager.cpp`) | none | `add`, `fill`, `get`, `get_one`, `fill_one`, `delete_blooms`, five stubs | each is one call of the table, or a loop of calls |
| Client pool (`thrift_filter/BloomfilterConnectionPool.cpp`, `pool.cpp`) | vector of pooled `ServClient`s with busy marks, one mutex | `createPool`, `getConnection`, `returnConnection`, `closeConnectionPool` | client threads, which close and remake the pool after an exception |
| Task rounds (`TaskScheduleManager.cpp`) | map of `TaskOtherInfo`s with `urlnum` and `alreadyused`, three locks | `getTaskThread`, `increaseTaskUrlNum`, `decreaseTaskUrlNum`, `poptaskother` | raw pointers handed to the fetching threads |
| Fetcher (`FetcherManager.cpp`) | pages from outside, the threads' locals | `fetch` | takes urls, inserts links, retries and next pages, counts down |
| Url frontier (`UrlAnalyseManager.cpp`, `tools/ic_types.h/.cpp`) | `hostToFifoqueue`, `hostsVector`, the priority queue `hosts`, one fifo queue per host, rows in a database | `insertUrl`, `getUrl`, `getNextHost`, `HostNode::clear`, spill and load | all fetching threads share it |
| Url ids (`CheckpointManager.cpp`) | `last_millisecond`, `last_id`, a mutex | `GetMaxID` | every inserted url gets an id |
| Rest of the crawler: page buffer, local store, MySQL pool, main database, external commands, deletion, checkpoints on disk | queues, files, SQL | start/stop and their threads | each other's methods and mutexes |
| Tools, generated thrift code, test copies of the table | | | |

What is hard here:

* ten workers on one table with two locks, and three things outside the locks:
  the totals, the global through which a get reads, and an exception;
* a dump thread, a signal handler on an arbitrary thread and a process that may
  be killed at any point, all on one file that is truncated before it is written;
* a client pool that any thread closes and refills while the others hold its
  connections, with heap addresses that come back;
* a count of urls that has to meet 0 exactly when the last piece of work of a
  round is done, kept by threads that look it up through a raw pointer, with
  retries, links, pages from outside and urls that leave and come back through a
  database; the object it is in is deleted by whoever sees 0;
* host nodes that are in a map, a vector and a priority queue under three locks,
  are cleared when they stay empty, and are used again for another host while
  they are being cleared;
* ids made of a clock that may be set back, with a number within the millisecond
  whose test is off by one.

What makes each part correct: calls on the table are atomic operations on a map
from names to sets, without false negatives; locks exclude and are released on
every path; chains hold live filters, each name once; totals match the table and
the memory limit holds; a restart brings back the last dump and a signal ends
the process with the table saved; a connection has one user and exists while it
is used; a round ends once, when its work is done, and does end; a host node is
in one place and no url is stranded; ids are in order and do not collide.
`PROJECT.json` lists the hazards with the properties aimed at them.

## 2. Modules

| module | models |
|---|---|
| `BloomRegistry` | the filter table under concurrent workers |
| `FilterStore` | abstract specification of the table: what its callers are promised |
| `BloomPersistence` | start, load, dump thread, signal handler, crash and restart |
| `ConnectionPool` | the client pool and the threads of `pool.cpp` |
| `ConnectionLease` | abstract specification of the client pool: connections are lent to one thread at a time |
| `CrawlRound` | a round of a crawl task: `getTaskThread`, `fetch` and `insertUrl` together |
| `Frontier` | the host nodes of the url frontier |
| `UrlIds` | `GetMaxID` on several machines |
| `MC...` | small instances for TLC |
| `..._proofs` | theorems and proofs about the module of that name; `FilterStore_proofs` is about `BloomRegistry` implementing it, `BloomTotals_proofs` about its totals and its limit of memory |

### BloomRegistry

One action per step between two accesses to shared state. A thread has a program
counter `pc`, the call it executes, and the locals of the C functions (`cur` is
the pointer `bloom`, `idx` the loop counter of `bloom_get`, `tmp` the register
of an unlocked read-modify-write). A walk along a chain is one step, because
chains change only under the write lock; `blooms->count++` outside the lock is a
load and a store. `bloom` is the sequence of all `bloom_t` ever allocated: the
code never frees the struct, only its map, which `live` records.

* `Add*`: `blooms_add` with `bloom_init`: the lock, the three outcomes (name
  exists, refused or no memory, linked), the unlocked totals, and
  `bloom_dlist_lock`. `AddThrows` is `new std::vector<int>` throwing with the lock
  held; the generated processor catches it and the worker goes on, and the lock
  stays held for good. `registry_admin` shows that nothing is corrupted then.
* `Set*`, `Get*`: `blooms_set`, `blooms_get`. `bloom_get` sets the global
  `bloom_get_addr` and reads through it in two steps per bit. When another
  reader has aimed it at a smaller map, the bit read may be anything.
* `Del*`: `blooms_delete` with `bloom_delete`, both locks, the totals in between.

Locks are the default rwlock: no order among waiters; a thread that asks again
for a lock it holds for writing gets `EDEADLK`, which nobody looks at.

Abstracted: hash values and bit positions are constants (`Hv`, `Probe`), sizes
are what `calculate` returns (`BloomBytes`, `MapBits`); the counters of sets,
gets and misses, which are only printed; `bloom_get_iter`, set in the statement
before `bloom_get_addr` from the same map, is merged with it. `subs` and
`overlap` are auxiliary. `size_t` arithmetic is modulo `WordMod`.

### FilterStore

Names, members, and calls that take effect at one instant between invocation
and return. A get may answer 1 wrongly and 0 never, except a get during which a
get on another filter was running. `BloomRegistry!ImplementsStore` is the
refinement: `filters` and `members` are read off the linked filters, and a call
whose value is decided but which still has totals and locks to see to is "done".

### BloomPersistence

The table is a set of entries. `Boot`, `InitFresh`, `Load*` are the start;
`Worker*` a change under the write lock; `Dump*` one round of `blooms_dump`
(`DumpOpen` truncates, only `DumpClose` makes the file whole); `Signal` and
`Handler*` are `sigcleanup` on top of a thread, which does nothing else from
then on; `Exit` and `Crash` leave nothing but the file. A torn file makes the
archive throw at start-up (`LoadThrows`), in its header or later; nobody catches
it, and SIGABRT runs the handler. A null table is written as a null pointer. `saved`,
`spoilt` and `keep` are auxiliary. Two handlers nested on one thread (signals of
two kinds) are not modelled.

### ConnectionPool

The vector is the set of addresses in it, since nothing distinguishes two free
connections. Pointer variables keep their value after the object is deleted or
returned, and a deleted address may be allocated again. Every locked section is
a step; `getConnection` leaves the mutex between two attempts. `main` creates,
takes two connections, spawns the workers, returns, closes, remakes and exits.
`fill_thread` is defined in `pool.cpp`, but the line that would start it is
commented out: the run has one all the same, so that its way of giving
connections back is covered too. `recycleConnectionPool` is the body of
`closeConnectionPool` under another name and has no caller.

Two losses are steps of this model without a property, because the code allows
them plainly: the pool may be closed between a thread's `createPool` and its
`getConnection`, which then returns NULL, and the thread calls through it
(`UseNull`); a `createPool` that fails half way leaves a short pool which the
retry takes for a complete one (`CreateFails`).

### ConnectionLease

Connections that exist, those that are free, and the one that each user has been
lent. A connection that comes back is free again, or it is lost, exactly if the pool
was closed since it was lent: `kept` are the connections of which the pool
remembers that it lent them. `ConnectionPool!ImplementsLease` is the refinement: a
user is a pointer variable of a thread, `Leases` is the pointer while its thread
owns what it points to, `free` are the entries that are not busy, and `Kept` are the busy
ones with an owner. The code has no such account; it compares
addresses, and an address may have come back in a new pool.

### CrawlRound

One task whose urls are on one host. `tasksothermap` is the task's entry in the
map, a round number in place of an address, so that a pointer kept after a delete
can be told from a good one; `other` is the `TaskOtherInfo` of each round.
Each thread has its position, the url it works on, the insertion it is in, and
the pointer it got from `getTaskOtherInfo`.

* `InsertFinds`, `InsertAdds`, `InsertCounts`, `PushMemory`, `PushSpills` are
  `insertUrl`: `findurl`, `inserttaskurl`, `increaseTaskUrlNum` and
  `HostNode::push_back`/`push_front` are sections of their own, and the spill to
  the database takes the url out of the batch but not off the count.
* `RoundStarts`, `RoundGoesOn`, `HomeInserts`, `HomeReleases` are `getTaskThread`.
* `OuterLooksUp`, `OuterCounts` are a page that a client brought (`OuterArrives`
  is the client); `Load*`, `GetsUrl` are `getUrl` with the load of spilled urls.
* `FetchFails`, `FetchSucceeds`, `FetchRejects`, `InsertsLink` are what becomes of
  a url, and `Finish*`, `End*` are `decreaseTaskUrlNum` and `poptaskother`.

Abstracted: the text of pages (any subset of the links of a page may be found,
and its next page or none), the priority of tasks and time. The model stops when
something went wrong with a `TaskOtherInfo` (`broken`); `missed` and `leaked` note
two losses of the code that liveness has to exclude.

### Frontier

Host nodes are indices of `hostsVector`; a url is the host it is on.
`hostToFifoqueue` is the map, `hosts[n]` how often node `n` is in the priority
queue, `maplock` the thread in `HostNode::clear`, which keeps the write lock of the
map over two steps: `available` is set first, and `findEmptyVector` reads it under
another lock. `FindsHost` .. `Pushes` are `insertUrl`, `NextReturns`, `NextPops`,
`LookKeeps`, `LookRetires`, `Clears` are `getNextHost`, `TakesUrl` the rest of
`getUrl`. Time is left out: any host of the priority queue may be its top and due.

### UrlIds

Each machine has a clock, which ticks and may be set back, and runs the threads
`Callers[m]`. `GetMaxID` is the lock, then one step from reading the clock to the
unlock or the sleep (the mutex keeps everyone else out), and the wake-up.
`issued` is the history of ids; `Id` composes the fields in 64 bits, with the
carry into the machine's bits that a `last_id` of 4096 causes.

## 3. Runs

| run | expects | shows |
|---|---|---|
| `registry_admin` | pass | two threads adding and deleting three names, two of them in one bucket, with allocations that may fail: `TypeOK`, `HashExclusion`, `ChainsSound`, `NoFilterLost` |
| `registry_mixed` | pass | all four operations on two filters of different size: `AddrAlive`, `IdleHoldsNoLock`, `NoFalseNegative`, refinement of `FilterStore` |
| `registry_one_admin` | pass | with one administrating thread `TotalsExact` and `CapacityRespected` hold, and with one querying thread `GetTellsTruth` |
| `registry_live` | pass | three threads: the calls in progress never all wait for one another (`NoDeadlock`), every step brings a call nearer to its end (`CallsWindDown`), and under fairness `EveryCallReturns` |
| `registry_get_race` | violation | `GetTellsTruth`: a get misses a subkey because another get moved `bloom_get_addr` |
| `registry_totals` | violation | `TotalsExact`: unlocked totals lose updates (and two adds can both pass the test against `max_bytes`, which reads the same total) |
| `persistence` | pass | dumps, requests, signals on any thread, crashes, restarts: `FileWholeBetweenDumps`, `RestartRestores`, `ExitSavesTable`; while signals are handled on the main thread nobody waits in a circle (`NoWaitCircle`), and a signal that only the main thread handles ends the process (`MainSignalEnds`) |
| `signal_any` | violation | a signal handled on a worker inside its critical section may deadlock with the dump thread |
| `pool` | pass | `NoSharing`, `OwnedAlive`, `BusyOwned`, refinement of `ConnectionLease` |
| `crawl_round` | pass | `CountCovers` (the count covers all work, exactly until a url is loaded back), `NoStrayAccess`, `NotEndedEarly`, a round left with nothing to do is being ended (`RestingRoundEnds`), and under fairness `RoundEnds` |
| `frontier` | pass | `NoUrlStranded`, `QueuedOnce`, `MapSound`, and under fairness `UrlsFetched` |
| `url_ids` | pass | `IssuedInOrder`, `IdsUnique` up to the two exceptions the arithmetic makes, and under fairness `MutexReleased` |

The violations are disagreements between the code and its own comments; each has
an entry under `findings` with the line it quotes.

Several properties name an exception, and each exception is a loss of the code
that the run contains:

* `RestartRestores` excludes `spoilt`: a kill between truncation and close, and a
  signal before the table is loaded. What it states is that nothing else loses
  the table, in particular no order of dumps, signals on several threads and
  failed loads.
* `NoStrayAccess` does not count "outer": a page from outside looks its round up
  and is counted later, and nothing keeps the round alive in between
  (`UrlAnalyseManager.cpp:397`). `NotEndedEarly` says that this window, or a second
  home url, is the only way a round is ended with urls still counted.
* `RoundEnds` and `RestingRoundEnds` exclude a round whose last url was counted off while
  `getTaskThread` was using it (`missed`: nobody tries again) and a round with a
  url that went through the database (`leaked`: it is counted twice).
* `IdsUnique` excludes the number 4096, which the test in line 81 lets through and
  which sets the lowest bit of the machine's number, and the wrap of 41 bits of
  milliseconds in 2039.

**Bounds.**

* *Table*: two workers are enough for every race on the totals, the global and the
  locks, since each takes two parties; liveness has three, so that one can be
  overtaken. Keys `a` and `b` share a bucket and `c` is alone in another, so heads,
  middles and ends of chains are unlinked; the limit `MaxBytes` admits two filters
  of the three. Maps of three and four bits with overlapping positions give false
  positives and out-of-range reads. `MaxCalls` (3 to 6) bounds a behaviour: the
  longest chain of events a property needs is add, add, set, and two overlapping
  gets.
* *Persistence*: one worker, two entries (one to be put in and one to be taken out
  between two dumps) and no bound on steps, so any number of dumps, crashes and
  restarts. A second worker adds no step that the first does not have, and the
  proofs cover any number.
* *Pool*: three connections, four addresses and four threads, so `main` holds two
  of three connections and the workers wait, and addresses run out and come back.
* *Round*: two fetching threads and `getTaskThread`; a home page with a link to,
  and as its next page, a second one; `RetryTimes` 2 gives one retry and one
  giving up; with `FifoLimit` 0 and `LoadBelow` 1 the second url in the queue is
  spilled and an empty queue loads it; `MaxRounds` 2 lets a thread keep a pointer into
  the round before; one page comes from outside (`MaxOuter` 1).
* *Frontier*: two threads, two hosts, three nodes and three urls, so that two
  threads make two nodes for one host, and a cleared node is taken for the
  other host; `EmptyLimit` 0 clears a host the first time it is found empty,
  `LocalIps` 1 hands each host out once before it is taken out of the queue.
* *Ids*: machines 0 and 1, because the carry is lost on an odd machine and moves an
  even one; two callers on the first. Two numbers in a millisecond, two machines
  and two milliseconds fit in the fields (`SeqSpan`, `PcSpan`, `MsSpan`), so each
  field overflows within `MaxClock` 3 and `MaxIds` 4; a clock is set back once.

`CHECK_DEADLOCK FALSE` is set where the system really may stop: after a leaked
lock (`registry_admin`), in the pool when the process has exited or crashed, and
where the bounds end the behaviour (`MaxRounds`, `MaxUrls`, `MaxClock`). Symmetry
is over threads, entries and addresses, never in a run with liveness.

**Fairness.** `registry_live`: weak fairness of every running thread. Clients
need not call, and because `MaxCalls` is finite no thread waits on an endless
stream of readers. Persistence: weak fairness of the loading main thread and of
workers; strong fairness of the dump thread and handlers, which wait for
locks: readers are let in ahead of waiting writers, and the dump thread sleeps
between two holds of `dump_file_lock`. Requests, signals and crashes are not
fair. `MainSignalEnds` is about a signal that only the main thread handles, which
is where Linux delivers a signal sent to the process when that thread does not
block it; SIGABRT and SIGFPE go to the thread that raises them, which
`signal_any` shows. `CrawlRound`: weak fairness of `getTaskThread`, which wakes up
at least every five seconds, and of each fetching thread; which outcome a fetch has
is not fair, so a page may fail every time, and clients need not bring pages.
`Frontier`: weak fairness of each thread in the call it is in, strong
fairness of the steps that wait for the lock of the map, and of taking each host
from the priority queue, because a host that is pushed back is due later than
the others; inserting is not fair. `UrlIds`: time passes, and the thread
inside `GetMaxID` goes on; setting clocks back and calling are not fair.

## 4. Proofs

Eight modules hold the theorems; those of a component rest on one inductive
invariant `IndInv`,
with a lemma for the initial state and one per action (or per group of actions
that change the same things).

**`BloomRegistry_proofs`**, for every set of threads, keys, sizes, every word width
and hash function: `TypeOK`, `HashExclusion`, `ChainsSound`, `NoFilterLost`,
`AddrAlive`, and, when no allocation fails, `IdleHoldsNoLock`. None is inductive by
itself. `IndInv` adds

* `LocksHeld`: a thread in a section holds the lock the section relies on. Only
  this direction is true in general: after an exception a thread keeps the lock.
  Without exceptions the converse (`LocksTight`) is an invariant too,
  and `NeverDeadlocked` follows from it: a lock that somebody waits for is held by
  a thread inside a section, and the one thread that waits inside a section,
  `blooms_delete`, asks for `bloom_dlist_lock` last, whose holder waits for nothing.
* `PointersValid`: the filter a reader walks over, and the one the global points
  to while a reader is about to look through it, are linked. With exclusion this
  is why a delete never frees what a reader sees, whoever set the global.
* `CallMatches`: a thread's position belongs to the call it executes.

The proof has a lemma for each shared step (locking, loading, unlocking and
returning), for insertion and removal in a chain, and a step per action.

**`FilterStore_proofs`**, on top of it: `NoFalseNegative` and `ImplementsStore`, that
is, the table refines `FilterStore` for every value of the constants. `GetSound`
is added to `IndInv`: the bits of every subkey in a filter's set are on (positions
are only ever added); a reader walks the filter that it was called for, and as long as
it is undisturbed every reader looks into that same filter, so `bloom_get_addr`
points nowhere else; and only readers are disturbed. Every step of the table is then
one of `Invoke`, `TakeEffect`, `Return` and `Disturb` of `FilterStore`, or a stutter: a
call takes effect at one step inside its critical section.

Two more results stand there because they rest on `GetSound` and on the shape of a
call. `GetTellsTruthAlone`: if no two gets on different filters are ever pending
together (`NoRivalGets`, for which one reading thread or one filter is enough),
`GetTellsTruth` holds, whatever adds, sets and deletes run meanwhile. So the
race that `registry_get_race` shows is one among gets, and nothing else
disturbs an answer. `CallsAlwaysWindDown`: each step of a thread inside a call lowers
`StepsLeft`, the steps it has at most before it, also in the loop of a get. With
`NeverDeadlocked` this is the safety part of `EveryCallReturns`; the rest is fairness.

**`BloomTotals_proofs`**: `TotalsExact` and `CapacityRespected`, under `OneAdmin`: one
thread at most administers the table, that is, adds or deletes. The hypothesis is
what the code lacks, not what the proof lacks: `registry_totals` has two such threads
and breaks both. Any number of others may set and get. The inductive invariant
`Accounts` balances the totals against the table at every step of the one
administrator: what it has linked and not yet counted, counted in one total and
not in the other, or loaded and not stored. The bytes of all filters are not
written as a sum, which would need induction, but as the number of pairs of a
filter and a byte of it (`BytesIn`), so that facts on cardinality do
(`BytesInCells`, `SumsKept`).

**`BloomPersistence_proofs`**, for any number of workers and any set of entries:
`TypeOK`, `FileWholeBetweenDumps`, `RestartRestores`, `ExitSavesTable`. `IndInv` adds
`Phases` (which threads exist in each phase of the process, and where),
`FileHeld` (a thread that has opened the file holds `dump_file_lock`, and a handler
keeps it to the exit), `Losses` (a torn file and a null table come only from the
events that `spoilt` records; without them a complete file holds what was saved)
and `Snaps` (what a thread has serialised is what a handler has to keep).

`NeverInCircle` is `NoWaitCircle`, the safety part of `MainSignalEnds`. It
adds the converse of `FileHeld`: `FileUsed` and `HashUsed` say that every
lock is held by a thread that stands between that lock and its unlock. So the handler of
the main thread waits for a thread that is in its section, and the one section
that contains another lock, a dump's, is entered in the order file, table.

**`ConnectionPool_proofs`**, for every number of threads, addresses and
connections: `TypeOK`, `NoSharing`, `OwnedAlive`, `BusyOwned`, and `FreeAlive`, on which
`OwnedAlive` rests: a connection that could be handed out exists. `IndInv`
adds `OwnedBusy` (a connection of the pool that has an owner is marked busy, so it
is neither handed out nor deleted by a close) and `Places` (which thread can be at
which label). The argument turns on freshness: a new connection gets an address
outside the heap, owned connections are in the heap, so it cannot be confused
with one that somebody still holds, though it may equal a stale pointer.

`PoolIsLease` is `ImplementsLease`: the pool refines `ConnectionLease`. The pool's many
labels do one of seven things to the vector, the heap and the owners (`Way`):
nothing, filling, a NULL from `getConnection`, a connection from it, giving back,
deleting, closing. `StepWays` says so, and each of the seven has a lemma that it is a
step of the abstract specification or a stutter. Giving back and deleting need `NoSharing`,
without which the entry of another owner would go from `Kept` with it.

**`Frontier_proofs`**, for any number of threads, hosts and nodes and any limits:
`TypeOK`, `NoUrlStranded`, `QueuedOnce`, `MapSound`. `IndInv` adds `Made` (nothing
refers to a node beyond the vector), `MappedQueued` (a node that the map leads to is
in the priority queue or carried there, so that a url pushed through the map is
found again) and `ClearedUnmapped` (the thread in `clear` holds the lock of the map,
which does not lead to its node). A node has one carrier at a time; whoever takes
it while it is being cleared is the one that will queue it.

**`UrlIds_proofs`**, for any machines, callers and widths of the fields: `TypeOK`,
`IssuedInOrder`, `IdsUnique`. `IndInv` adds that nothing issued lies beyond
`last_millisecond` and `last_id`; uniqueness then is arithmetic: lemmas on
products and remainders show that two ids are equal only if their fields are.

**`CrawlRound_proofs`**, for any number of fetching threads, any urls, links, next
pages and limits: `TypeOK`, `CountCovers`, `NoStrayAccess`, `NotEndedEarly`.
`IndInv` adds where each thread can be and what it has in hand there (`Labelled`),
who holds rows of the table of unfetched urls (`RowsHeld`), that the round in the
map is the last one and the only one alive (`OneRound`), when `alreadyused` is set
(`GetterUses`), that the pointers followed are to the round in the map
(`PointersFresh`), and, without pages from outside and with one home url at most,
that only one thread comes to end a round (`EndsOnce`). Pointers are safe because
of the count: a fetching thread with a pointer has a url in hand, so `Outstanding`
is not 0, `urlnum` is not below it, and nobody deletes the round without `broken`
saying so; the pointer of `getTaskThread`, which has no url in hand, is protected by
`alreadyused`. `Outstanding` is written with cardinalities, so that a step of one
thread changes each set by that thread at most (`OneMember`, `OutstandingStep`).

`RestingAlwaysEnds` is `RestingRoundEnds`, the safety part of `RoundEnds`. `CountCovers`
only bounds the count from below; here it has to be exact, and it has to have been
met at 0 by somebody. The strengthening `ZeroSeen` says of a round with urls and a
count of 0 that `getTaskThread` is about to count the first of them, that a thread
saw the 0 and will end the round, or that it was `missed`; `NewBatches` that the
batches of rounds to come are empty.

Assumptions are those of the modules: threads, locks and pointers are distinct,
hash values are buckets, sizes fit the word, positions lie inside the map,
machines fit their field.

Only model-checked: liveness (`EveryCallReturns`, `MainSignalEnds`, `RoundEnds`,
`UrlsFetched`, `MutexReleased`), which is outside the prover. Of the first three the
safety part is proved: `NeverDeadlocked` and `CallsAlwaysWindDown`, `NeverInCircle`,
`RestingAlwaysEnds`.

## 5. Not modelled

* *Filter table*: status functions (they print), `blooms_delete_all` (no caller),
  the floating point of `calculate` and the hash functions, serialisation
  formats. A table that came from `blooms_load` has filters whose `bytes` is
  whatever memory held, since it is not serialised; deleting one makes the totals
  arbitrary, and no property of them is left to check.
* *Thrift service*: `fill` and `get` are loops of calls with one lock per url.
  Nothing is promised about a batch as a whole, and each call is covered.
* *Checkpoints*: `getMaxUrlId` and the checkpoint thread; the call in `insertUrl` is
  commented out.
* *Page buffer*: its only caller is commented out (`FetcherManager.cpp:320`), so the
  map of pages is always empty.
* *Fetcher*: login and cookies (no task that this code creates has a login url),
  the proxy state of curl, saving pages.
* *Task scheduling*: the priority queue of tasks by time, the commands that add and
  change tasks, statistics that are only logged.
* *Frontier*: extraction and classification of links (text processing);
  `removeNodeFromPriorityQueue`, which has no caller; the interval per host, since
  time is left out.
* *MySQL pool, main database, local store, deletion*: SQL text, record files and
  directories; the calls from the modelled paths are commented out or the
  threads are never started. `ConnectionPool` models the version of the pool that is
  used; the three functions for unfetched urls are a queue of rows in `CrawlRound`.
* Generated thrift code, flex scanners, containers, protocol clients, and
  earlier copies of the table with their test programs. They are most of the
  lines of the repository and none is the program's own core logic.

Components with their status and reasons are in `PROJECT.json`.
