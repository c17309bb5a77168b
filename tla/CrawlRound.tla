------------------------------ MODULE CrawlRound ------------------------------
(***************************************************************************)
(* One round of a crawl task: getTaskThread starts it by inserting the     *)
(* task's home urls, the fetching threads take urls, insert the links they *)
(* find, the next page and what has to be tried again, and the thread that *)
(* brings the task's count of urls to 0 ends the round.  It composes       *)
(* TaskScheduleManager, UrlAnalyseManager's insertUrl and getUrl and       *)
(* FetcherManager's fetch, for one task (tasks share no state here) whose  *)
(* urls have one host; the host nodes themselves are module Frontier's.    *)
(*                                                                         *)
(* A TaskOtherInfo is known by the number of its round, so that a pointer  *)
(* kept after a delete can be told from a good one.  One step is one       *)
(* section under a lock (rwlock_mapother, rwlock_taskurl, the lock of the  *)
(* task's urls, of the fifo queue), with the local computation around it.  *)
(***************************************************************************)
EXTENDS Naturals, Sequences, FiniteSets

CONSTANTS
    Fetchers,     \* fetching threads
    Getter,       \* the thread that runs getTaskThread
    Urls,
    HomeUrls,     \* the urls of the task's file
    Links,        \* Links[u]: the links that may be found on page u
    NextPage,     \* NextPage[u]: the page that u may name as its next page, or NULL
    RetryTimes,   \* URL_FETCH_RETRY_TIMES
    FifoLimit,    \* 2000: a longer fifo queue is spilled to the database
    LoadBelow,    \* 20: a shorter one is filled up from it
    MaxRounds,    \* bound: rounds that are started
    MaxOuter,     \* bound: pages that come from outside
    NULL

ASSUME CrawlAssumption ==
    /\ Getter \notin Fetchers /\ IsFiniteSet(Fetchers)
    /\ HomeUrls \subseteq Urls /\ IsFiniteSet(HomeUrls)
    /\ Links \in [Urls -> SUBSET Urls] /\ NextPage \in [Urls -> Urls \cup {NULL}]
    /\ {RetryTimes, FifoLimit, LoadBelow, MaxRounds, MaxOuter} \subseteq Nat
    /\ NULL \notin Nat \cup Fetchers \cup {Getter} \cup Urls

Threads == Fetchers \cup {Getter}
Rounds == 1..MaxRounds

\* A UrlNode: its address does not matter, its url and errornum do.
UrlNode == [url : Urls, errornum : 0..RetryTimes]

\* An insertUrl in progress: the node and who inserts it.
Kinds == {"home", "link", "next", "retry", "load"}
Insert == [node : UrlNode, kind : Kinds]

VARIABLES
    tasksothermap,  \* the task's entry: NULL or a round
    other,          \* the TaskOtherInfo of each round
    round,          \* rounds started so far
    queue,          \* the fifo queue of the host
    unfetched,      \* the rows of the host in the database of unfetched urls
    tablelock,      \* the holder of rwlock_unfetched_url_table, or NULL
    outer,          \* pages waiting in html_from_outer_
    outerSeen,      \* pages that have come from outside so far
    th,             \* the local state of each thread
    broken,         \* what went wrong with a TaskOtherInfo; the model stops there
    missed,         \* the count met 0 while getTaskThread was using the round
    leaked          \* a url was counted that nobody will count off

task == <<tasksothermap, other, round>>
frontier == <<queue, unfetched, tablelock>>
outside == <<outer, outerSeen>>
ghosts == <<broken, missed, leaked>>
vars == <<task, frontier, outside, th, ghosts>>

At(p, label) == broken = "no" /\ th[p].pc = label

\* The local state of p becomes l; p goes to another place and keeps the rest.
Moves(p, l) == th' = [th EXCEPT ![p] = l]
Goto(p, label) == Moves(p, [th[p] EXCEPT !.pc = label])

\* insertUrl returns to its caller; fetch begins its loop again.
Return(p, label) == Moves(p, [th[p] EXCEPT !.pc = label, !.ins = NULL, !.ptr = NULL])
Loop(p) == Moves(p, [th[p] EXCEPT !.pc = "idle", !.cur = NULL, !.ptr = NULL])

\* A step of p through its pointer: a deleted TaskOtherInfo must not be touched.
Alive(o) == o # NULL /\ other[o].live
Touches(o) == broken' = IF Alive(o) THEN "no" ELSE "freed"

-----------------------------------------------------------------------------
(* insertUrl *)

Forced(i) == i.kind \in {"next", "retry"}
OnlyMemory(i) == i.kind = "load"

\* Where the caller of insertUrl goes on.
Caller(i) == CASE i.kind = "home" -> "home"
               [] i.kind \in {"link", "next"} -> "links"
               [] i.kind = "retry" -> "finish"
               [] i.kind = "load" -> "load"

Node(u) == [url |-> u, errornum |-> 0]
\* What becomes of thread p, whose other local state is l, when it calls
\* insertUrl for a node with url u and errornum e: getTaskOtherInfo gives it a
\* pointer that it keeps over the steps that follow; or the node is deleted,
\* because its url has no host or is a list page fetched in an earlier round.
Inserts(l, u, e, k) ==
    LET i == [node |-> [url |-> u, errornum |-> e], kind |-> k] IN
    {[l EXCEPT !.pc = IF tasksothermap = NULL THEN "count" ELSE "find",
               !.ins = i, !.ptr = tasksothermap]}
    \cup (IF k = "retry" THEN {} ELSE {[l EXCEPT !.pc = Caller(i)]})

CallsInsert(p, l, u, e, k) == \E r \in Inserts(l, u, e, k) : Moves(p, r)

\* findurl
Found(p) == th[p].ins.node.url \in other[th[p].ptr].urls

\* findurl; a url of this round is not inserted again unless that is forced.
InsertFinds(p) ==
    /\ At(p, "find")
    /\ Touches(th[p].ptr)
    /\ \/ ~Found(p) /\ Goto(p, "add") /\ UNCHANGED leaked
       \/ /\ Found(p) /\ Forced(th[p].ins)
          /\ Moves(p, [th[p] EXCEPT !.pc = "count", !.ptr = tasksothermap])
          /\ UNCHANGED leaked
       \/ /\ Found(p) /\ ~Forced(th[p].ins)
          /\ Return(p, Caller(th[p].ins))
          /\ leaked' = (leaked \/ th[p].ins.kind = "load")
    /\ UNCHANGED <<task, frontier, outside, missed>>

\* inserttaskurl, a section of its own; then increaseTaskUrlNum looks up the
\* TaskOtherInfo again.
InsertAdds(p) ==
    /\ At(p, "add")
    /\ Touches(th[p].ptr)
    /\ other' = [other EXCEPT ![th[p].ptr].urls = @ \cup {th[p].ins.node.url}]
    /\ Moves(p, [th[p] EXCEPT !.pc = "count", !.ptr = tasksothermap])
    /\ UNCHANGED <<tasksothermap, round, frontier, outside, missed, leaked>>

\* Mutant of InsertCounts: only the home urls are counted.
InsertCountsHome(p) ==
    /\ At(p, "count") /\ Goto(p, "push")
    /\ other' = IF th[p].ptr # NULL /\ th[p].ins.kind = "home"
                THEN [other EXCEPT ![th[p].ptr].urlnum = @ + 1] ELSE other
    /\ UNCHANGED <<tasksothermap, round, frontier, outside, ghosts>>

\* increaseTaskUrlNum: urlnum++ under rwlock_taskurl.  Without a round nothing
\* is counted and the url is pushed all the same.
InsertCounts(p) ==
    /\ At(p, "count") /\ Goto(p, "push")
    /\ \/ /\ th[p].ptr = NULL
          /\ UNCHANGED <<other, broken>>
       \/ /\ th[p].ptr # NULL
          /\ Touches(th[p].ptr)
          /\ other' = [other EXCEPT ![th[p].ptr].urlnum = @ + 1]
    /\ UNCHANGED <<tasksothermap, round, frontier, outside, missed, leaked>>

\* HostNode::push_back and push_front: into the fifo queue ...
PushMemory(p) ==
    /\ At(p, "push") /\ Return(p, Caller(th[p].ins))
    /\ \/ /\ th[p].ins.kind \in {"next", "link"}
          /\ queue' = Append(queue, th[p].ins.node)
       \/ /\ th[p].ins.kind # "next"
          /\ queue' = <<th[p].ins.node>> \o queue
    /\ leaked' = (leaked \/ th[p].ins.kind = "load")
    /\ UNCHANGED <<task, unfetched, tablelock, outside, broken, missed>>

\* ... or, when that is long, into the database, where the insertion may fail.
\* The url leaves the batch, but not the count.
PushSpills(p) ==
    /\ At(p, "push") /\ Return(p, Caller(th[p].ins))
    /\ Len(queue) > FifoLimit /\ ~OnlyMemory(th[p].ins)
    /\ broken' = IF tasksothermap = NULL THEN "freed" ELSE "no"
    /\ other' = [other EXCEPT ![tasksothermap].urls = @ \ {th[p].ins.node.url}]
    /\ \/ unfetched' = Append(unfetched, th[p].ins.node) /\ UNCHANGED leaked
       \/ leaked' = TRUE /\ UNCHANGED unfetched
    /\ UNCHANGED <<tasksothermap, round, queue, tablelock, outside, missed>>

InsertStep(p) == \/ InsertFinds(p) \/ InsertAdds(p) \/ InsertCounts(p)
                 \/ PushMemory(p) \/ PushSpills(p)

-----------------------------------------------------------------------------
(* getTaskThread *)

\* The task is due and has no round: a new TaskOtherInfo, in use by this
\* thread, is put into the map.
RoundStarts ==
    /\ At(Getter, "wait") /\ tasksothermap = NULL /\ round < MaxRounds
    /\ round' = round + 1
    /\ tasksothermap' = round + 1
    /\ other' = [other EXCEPT ![round + 1].live = TRUE, ![round + 1].alreadyused = TRUE]
    /\ Moves(Getter, [th[Getter] EXCEPT !.pc = "home", !.todo = HomeUrls])
    /\ UNCHANGED <<frontier, outside, ghosts>>

\* The task is due again while its round is running: nothing is inserted, but
\* the TaskOtherInfo is in use for a moment.  Finding it in use already would
\* unlock rwlock_task_running without holding it.
RoundGoesOn ==
    /\ At(Getter, "wait") /\ tasksothermap # NULL
    /\ \/ /\ other[tasksothermap].alreadyused
          /\ broken' = "unlock" /\ UNCHANGED <<other, th>>
       \/ /\ ~other[tasksothermap].alreadyused
          /\ other' = [other EXCEPT ![tasksothermap].alreadyused = TRUE]
          /\ Moves(Getter, [th[Getter] EXCEPT !.pc = "home", !.todo = {}])
          /\ UNCHANGED broken
    /\ UNCHANGED <<tasksothermap, round, frontier, outside, missed, leaked>>

\* insertHomePageUrl for the next url of the file.
HomeInserts ==
    /\ At(Getter, "home")
    /\ \E u \in th[Getter].todo :
          CallsInsert(Getter, [th[Getter] EXCEPT !.todo = @ \ {u}], u, 0, "home")
    /\ UNCHANGED <<task, frontier, outside, ghosts>>

\* taskother->alreadyused = false, through the pointer of the whole round.
HomeReleases ==
    /\ At(Getter, "home") /\ th[Getter].todo = {} /\ Goto(Getter, "wait")
    /\ Touches(round)
    /\ other' = [other EXCEPT ![round].alreadyused = FALSE]
    /\ UNCHANGED <<tasksothermap, round, frontier, outside, missed, leaked>>

GetterStep == RoundStarts \/ RoundGoesOn \/ HomeInserts \/ HomeReleases \/ InsertStep(Getter)

-----------------------------------------------------------------------------
(* fetch: getting a url *)

\* A client of ExternalManager has sent a page (environment).
OuterArrives ==
    /\ broken = "no" /\ outerSeen < MaxOuter
    /\ outer' = outer + 1 /\ outerSeen' = outerSeen + 1
    /\ UNCHANGED <<task, frontier, th, ghosts>>

\* getUrlFromOuterHtml: the round is looked up; without one the page waits on.
OuterLooksUp(p) ==
    /\ At(p, "idle") /\ outer > 0 /\ tasksothermap # NULL
    /\ outer' = outer - 1
    /\ Moves(p, [th[p] EXCEPT !.pc = "outer", !.ptr = tasksothermap])
    /\ UNCHANGED <<task, frontier, outerSeen, ghosts>>

\* Mutant of OuterCounts: the page is not counted.
OuterCountsNot(p) ==
    /\ At(p, "outer")
    /\ \E u \in Urls : Moves(p, [th[p] EXCEPT !.pc = "links", !.cur = Node(u),
                                              !.todo = Links[u], !.ptr = NULL])
    /\ UNCHANGED <<task, frontier, outside, ghosts>>

\* The page is counted.  Nothing keeps the round alive until then.
OuterCounts(p) ==
    /\ At(p, "outer")
    /\ broken' = IF Alive(th[p].ptr) THEN "no" ELSE "outer"
    /\ other' = [other EXCEPT ![th[p].ptr].urlnum = @ + 1]
    /\ \E u \in Urls : Moves(p, [th[p] EXCEPT !.pc = "links", !.cur = Node(u),
                                              !.todo = Links[u], !.ptr = NULL])
    /\ UNCHANGED <<tasksothermap, round, frontier, outside, missed, leaked>>

\* Nothing from outside can be worked on: fetch calls getUrl.
NoOuter == outer = 0 \/ tasksothermap = NULL

\* getUrl: a short queue is first filled from the database, under the lock of
\* its table; the rows are deleted and their urls inserted one by one.
LoadStarts(p) ==
    /\ At(p, "idle") /\ NoOuter /\ tablelock = NULL
    /\ Len(queue) < LoadBelow /\ unfetched # << >>
    /\ tablelock' = p
    /\ Moves(p, [th[p] EXCEPT !.pc = "load", !.rows = unfetched])
    /\ unfetched' = << >>
    /\ UNCHANGED <<task, queue, outside, ghosts>>

LoadInserts(p) ==
    /\ At(p, "load") /\ th[p].rows # << >>
    /\ CallsInsert(p, [th[p] EXCEPT !.rows = Tail(@)],
                   Head(th[p].rows).url, Head(th[p].rows).errornum, "load")
    /\ leaked' = (leaked \/ th'[p].pc = "load")
    /\ UNCHANGED <<task, frontier, outside, broken, missed>>

Pops(p) ==
    IF queue = << >> THEN Goto(p, "idle") /\ UNCHANGED queue
    ELSE /\ queue' = Tail(queue)
         /\ Moves(p, [th[p] EXCEPT !.pc = "fetch", !.cur = Head(queue)])

LoadEnds(p) ==
    /\ At(p, "load") /\ th[p].rows = << >>
    /\ tablelock' = NULL /\ Pops(p)
    /\ UNCHANGED <<task, unfetched, outside, ghosts>>

\* getUrl with nothing to load.
GetsUrl(p) ==
    /\ At(p, "idle") /\ NoOuter /\ queue # << >>
    /\ Len(queue) < LoadBelow => unfetched = << >> /\ tablelock = NULL
    /\ Pops(p)
    /\ UNCHANGED <<task, unfetched, tablelock, outside, ghosts>>

-----------------------------------------------------------------------------
(* fetch: what becomes of it *)

\* HTTP_FETCH_RET_ERROR: the url is inserted again, or given up when it has
\* failed too often.
FetchFails(p) ==
    /\ At(p, "fetch")
    /\ LET e == th[p].cur.errornum + 1 IN
          \/ e < RetryTimes /\ CallsInsert(p, th[p], th[p].cur.url, e, "retry")
          \/ e >= RetryTimes /\ Goto(p, "finish")
    /\ UNCHANGED <<task, frontier, outside, ghosts>>

\* The page came: its links and its next page, if it names one.
FetchSucceeds(p) ==
    /\ At(p, "fetch")
    /\ \E S \in SUBSET Links[th[p].cur.url], n \in {NULL, NextPage[th[p].cur.url]} :
          Moves(p, [th[p] EXCEPT !.pc = "links", !.todo = S, !.next = n])
    /\ UNCHANGED <<task, frontier, outside, ghosts>>

\* Mutant of FetchRejects: the loop goes on without decreaseTaskUrlNum.
FetchRejectsUncounted(p) ==
    /\ At(p, "fetch") /\ Loop(p)
    /\ UNCHANGED <<task, frontier, outside, ghosts>>

\* HTTP_FETCH_RET_ERROR_UNACCEPTED, or an url that cannot be parsed.
FetchRejects(p) ==
    /\ At(p, "fetch") /\ Goto(p, "finish")
    /\ UNCHANGED <<task, frontier, outside, ghosts>>

\* analyseUrls inserts the links, then fetch the next page.
InsertsLink(p) ==
    /\ At(p, "links")
    /\ \/ \E u \in th[p].todo :
             CallsInsert(p, [th[p] EXCEPT !.todo = @ \ {u}], u, 0, "link")
       \/ /\ th[p].todo = {} /\ th[p].next # NULL
          /\ CallsInsert(p, [th[p] EXCEPT !.next = NULL], th[p].next, 0, "next")
    /\ UNCHANGED <<task, frontier, outside, ghosts>>

\* decreaseTaskUrlNum looks up the TaskOtherInfo ...
FinishLooksUp(p) ==
    /\ \/ At(p, "finish")
       \/ At(p, "links") /\ th[p].todo = {} /\ th[p].next = NULL
    /\ \/ tasksothermap = NULL /\ Loop(p)
       \/ /\ tasksothermap # NULL
          /\ Moves(p, [th[p] EXCEPT !.pc = "uncount", !.ptr = tasksothermap])
    /\ UNCHANGED <<task, frontier, outside, ghosts>>

\* Mutant of LastUrl: the comparison comes before the decrement.
LastUrlEarly(o) == other[o].urlnum <= 2

\* Mutant of LastUrl: the comparison is made with the count before it.
LastUrlLate(o) == other[o].urlnum = 0

LastUrl(o) == other[o].urlnum = 1

\* ... and takes the url off the count; the last one ends the round ...
FinishUncounts(p) ==
    /\ At(p, "uncount")
    /\ Touches(th[p].ptr)
    /\ other' = [other EXCEPT ![th[p].ptr].urlnum = @ - 1]
    /\ IF LastUrl(th[p].ptr) THEN Goto(p, "end") ELSE Loop(p)
    /\ UNCHANGED <<tasksothermap, round, frontier, outside, missed, leaked>>

\* ... unless getTaskThread is using it, or there is no round any more.
EndMisses(p) ==
    /\ At(p, "end") /\ Loop(p)
    /\ \/ tasksothermap = NULL /\ UNCHANGED missed
       \/ tasksothermap # NULL /\ other[tasksothermap].alreadyused /\ missed' = TRUE
    /\ UNCHANGED <<task, frontier, outside, broken, leaked>>

\* deleteTaskOther: the entry is erased and the TaskOtherInfo deleted,
\* whatever has been counted since the count met 0.
EndDeletes(p) ==
    /\ At(p, "end") /\ tasksothermap # NULL
    /\ ~other[tasksothermap].alreadyused
    /\ tasksothermap' = NULL
    /\ other' = [other EXCEPT ![tasksothermap].live = FALSE]
    /\ broken' = IF other[tasksothermap].urlnum > 0 THEN "early" ELSE "no"
    /\ Loop(p)
    /\ UNCHANGED <<round, frontier, outside, missed, leaked>>

FetcherStep(p) ==
    \/ OuterLooksUp(p) \/ OuterCounts(p) \/ LoadStarts(p) \/ LoadInserts(p) \/ LoadEnds(p)
    \/ GetsUrl(p) \/ FetchFails(p) \/ FetchSucceeds(p) \/ FetchRejects(p) \/ InsertsLink(p)
    \/ FinishLooksUp(p) \/ FinishUncounts(p) \/ EndMisses(p) \/ EndDeletes(p)
    \/ InsertStep(p)

-----------------------------------------------------------------------------

Init ==
    /\ tasksothermap = NULL /\ round = 0
    /\ other = [r \in Rounds |-> [live |-> FALSE, alreadyused |-> FALSE, urlnum |-> 0, urls |-> {}]]
    /\ queue = << >> /\ unfetched = << >> /\ tablelock = NULL
    /\ outer = 0 /\ outerSeen = 0
    /\ th = [p \in Threads |->
               [pc |-> IF p = Getter THEN "wait" ELSE "idle", cur |-> NULL, ins |-> NULL,
                todo |-> {}, next |-> NULL, rows |-> << >>, ptr |-> NULL]]
    /\ broken = "no" /\ missed = FALSE /\ leaked = FALSE

Next == OuterArrives \/ GetterStep \/ \E p \in Fetchers : FetcherStep(p)

Spec == Init /\ [][Next]_vars

\* The threads run, and getTaskThread wakes up at least every five seconds.
FairSpec == Spec /\ WF_vars(GetterStep) /\ \A p \in Fetchers : WF_vars(FetcherStep(p))

-----------------------------------------------------------------------------
(* Properties *)

Labels == {"wait", "home", "idle", "outer", "load", "fetch", "links", "finish", "uncount",
           "end", "find", "add", "count", "push"}

TaskOther == [live : BOOLEAN, alreadyused : BOOLEAN, urlnum : Nat, urls : SUBSET Urls]
Local == [pc : Labels, cur : UrlNode \cup {NULL}, ins : Insert \cup {NULL},
          todo : SUBSET Urls, next : Urls \cup {NULL}, rows : Seq(UrlNode),
          ptr : Rounds \cup {NULL}]

\* The state has its shape.
TypeOK ==
    /\ tasksothermap \in Rounds \cup {NULL} /\ round \in 0..MaxRounds
    /\ other \in [Rounds -> TaskOther]
    /\ queue \in Seq(UrlNode) /\ unfetched \in Seq(UrlNode)
    /\ tablelock \in Fetchers \cup {NULL}
    /\ outer \in 0..MaxOuter /\ outerSeen \in 0..MaxOuter
    /\ th \in [Threads -> Local]
    /\ broken \in {"no", "freed", "unlock", "outer", "early"}
    /\ missed \in BOOLEAN /\ leaked \in BOOLEAN

\* A thread, with local state l, that is in insertUrl, that has a page of the
\* task in hand, and one that has a loaded url to give back to the queue.
Inserting(l) == l.pc \in {"find", "add", "count", "push"}
HasPage(l) == \/ l.pc \in {"fetch", "links", "finish", "uncount"}
              \/ Inserting(l) /\ l.ins.kind \in {"link", "next", "retry"}
HasLoaded(l) == Inserting(l) /\ l.ins.kind = "load"

Working == {p \in Threads : HasPage(th[p])}
Loading == {p \in Threads : HasLoaded(th[p])}
Pushing == {p \in Threads : th[p].pc = "push"}     \* counted, not yet in the queue
RowsLoaded == IF tablelock = NULL THEN 0 ELSE Len(th[tablelock].rows)

\* The urls that have still to be fetched or are being worked on.
Outstanding == Len(queue) + Len(unfetched) + RowsLoaded
               + Cardinality(Working) + Cardinality(Loading) + Cardinality(Pushing)

\* urlnum counts every url that is queued, spilled or in some thread's hands:
\* the links, the next page and the url to be tried again are counted before
\* the page they come from is counted off, so that a round with work left
\* cannot meet 0, and without a round there is no work.  The count is exact
\* until a url is loaded back from the database, where it is counted again.
CountCovers ==
    broken = "no" =>
        IF tasksothermap = NULL THEN Outstanding = 0
        ELSE /\ other[tasksothermap].urlnum >= Outstanding
             /\ ~leaked => other[tasksothermap].urlnum = Outstanding

\* No thread follows the raw pointer it got from getTaskOtherInfo into a
\* deleted TaskOtherInfo, no url is spilled without a round, and getTaskThread
\* never unlocks rwlock_task_running unheld (the branch at line 824).  The two
\* exceptions are windows of the code itself: a page from outside looks the
\* round up before it is counted, and between the count meeting 0 and
\* poptaskother the round may get new urls.
NoStrayAccess == broken \notin {"freed", "unlock"}

\* A round is ended with urls still counted only in the window of the code
\* between the count meeting 0 and poptaskother, and only a page from outside
\* or a second home url can use that window: the urls a fetching thread inserts
\* are counted before the page it works on is counted off.
NotEndedEarly ==
    broken = "early" => outerSeen > 0 \/ Cardinality(HomeUrls) > 1

\* A round that has come to rest is being ended: when getTaskThread has let go
\* of it, an url was inserted and none is left, some thread is on its way to
\* poptaskother.  It has the two exceptions of RoundEnds, and it is why nobody
\* has to look at the count again: the one decreaseTaskUrlNum that met 0 is
\* enough, however home urls, links and retries were counted up around it.
RestingRoundEnds ==
    /\ broken = "no" /\ tasksothermap # NULL /\ th[Getter].pc = "wait"
    /\ other[tasksothermap].urls # {} /\ Outstanding = 0
    => missed \/ leaked \/ \E p \in Fetchers : th[p].pc = "end"

\* A round that getTaskThread has let go of, and for which at least one url was
\* counted, ends, although urls fail and are tried again: unless its last url
\* is counted off while getTaskThread is using it, or a url went through the
\* database.
RoundEnds ==
    \A r \in Rounds :
        tasksothermap = r /\ th[Getter].pc = "wait" /\ other[r].urlnum > 0
            ~> ~other[r].live \/ missed \/ leaked \/ broken # "no"
=============================================================================
