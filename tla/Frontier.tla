------------------------------- MODULE Frontier -------------------------------
(***************************************************************************)
(* The url frontier of UrlAnalyseManager: one HostNode with a fifo queue   *)
(* per host, the map from host names to them, and the priority queue from  *)
(* which fetching threads take the host whose turn it is.  A host that was *)
(* empty for long is cleared and its HostNode used for another host.       *)
(*                                                                         *)
(* HostNodes are their indices in hostsVector.  A url is the host it is    *)
(* on.  The map, the vector and the priority queue have a lock each, and a *)
(* step is one section under one of them; HostNode::clear runs under the   *)
(* lock of the map and is two steps, since findEmptyVector reads           *)
(* `available` under another lock.  Time is left out: any host of the      *)
(* priority queue may be its top and due.  The spill of long queues and    *)
(* the counts of the task are in module CrawlRound.                        *)
(***************************************************************************)
EXTENDS Naturals, Sequences

CONSTANTS
    Threads,      \* threads that insert and get urls
    Hosts,
    Blank,        \* the empty host name
    LocalIps,     \* localipnum
    EmptyLimit,   \* 100: a host found empty more often is cleared
    MaxNodes,     \* bound: HostNodes
    MaxUrls,      \* bound: urls that are inserted
    NULL

ASSUME FrontierAssumption ==
    /\ Blank \notin Hosts
    /\ {LocalIps, EmptyLimit, MaxNodes, MaxUrls} \subseteq Nat
    /\ NULL \notin Nat \cup Threads

Nodes == 1..MaxNodes
HostNode == [host : Hosts \cup {Blank}, fifo : Seq(Hosts), available : BOOLEAN,
             emptytimes : 0..EmptyLimit, retnum : 0..LocalIps]

VARIABLES
    hostToFifoqueue,  \* the map: a HostNode or NULL for each name
    hostsVector,      \* the length of the vector
    node,             \* the HostNodes
    hosts,            \* how often each HostNode is in the priority queue
    maplock,          \* the thread in HostNode::clear, which holds rwlock_host_map
    pc, mine,         \* where each thread is, and the HostNode it works with
    want,             \* the host of the url it inserts
    inserted          \* urls inserted so far

shared == <<hostToFifoqueue, hostsVector, node, hosts, maplock>>
vars == <<shared, pc, mine, want, inserted>>

Goto(p, label) == pc' = [pc EXCEPT ![p] = label]
Holding(p, n) == mine' = [mine EXCEPT ![p] = n]

-----------------------------------------------------------------------------
(* insertUrl *)

InsertStarts(p) ==
    /\ pc[p] = "idle" /\ inserted < MaxUrls
    /\ inserted' = inserted + 1
    /\ \E h \in Hosts : want' = [want EXCEPT ![p] = h]
    /\ Goto(p, "find")
    /\ UNCHANGED <<shared, mine>>

\* Mutant of FindsHost: the host is put into the priority queue again.
FindsHostPushes(p) ==
    /\ pc[p] = "find" /\ maplock = NULL
    /\ hostToFifoqueue[want[p]] # NULL
    /\ node' = [node EXCEPT ![hostToFifoqueue[want[p]]].fifo = Append(@, want[p])]
    /\ hosts' = [hosts EXCEPT ![hostToFifoqueue[want[p]]] = @ + 1]
    /\ Goto(p, "idle")
    /\ UNCHANGED <<hostToFifoqueue, hostsVector, maplock, mine, want, inserted>>

\* The host has a HostNode: the url is pushed while the map is read-locked.
FindsHost(p) ==
    /\ pc[p] = "find" /\ maplock = NULL
    /\ hostToFifoqueue[want[p]] # NULL
    /\ node' = [node EXCEPT ![hostToFifoqueue[want[p]]].fifo = Append(@, want[p])]
    /\ Goto(p, "idle")
    /\ UNCHANGED <<hostToFifoqueue, hostsVector, hosts, maplock, mine, want, inserted>>

FindsNoHost(p) ==
    /\ pc[p] = "find" /\ maplock = NULL
    /\ hostToFifoqueue[want[p]] = NULL
    /\ Goto(p, "node")
    /\ UNCHANGED <<shared, mine, want, inserted>>

Available == {n \in 1..hostsVector : node[n].available}

\* findEmptyVector: the first available HostNode is taken; the url goes into
\* its queue and the host's name into it.
TakesNode(p) ==
    /\ pc[p] = "node"
    /\ \E n \in Available :
          /\ \A m \in Available : n <= m
          /\ node' = [node EXCEPT ![n].available = FALSE, ![n].host = want[p],
                                  ![n].fifo = Append(@, want[p])]
          /\ Holding(p, n)
    /\ Goto(p, "map")
    /\ UNCHANGED <<hostToFifoqueue, hostsVector, hosts, maplock, want, inserted>>

\* There is none: a new HostNode.
MakesNode(p) ==
    /\ pc[p] = "node" /\ Available = {} /\ hostsVector < MaxNodes
    /\ hostsVector' = hostsVector + 1
    /\ node' = [node EXCEPT ![hostsVector + 1].host = want[p],
                            ![hostsVector + 1].fifo = <<want[p]>>]
    /\ Holding(p, hostsVector + 1)
    /\ Goto(p, "map")
    /\ UNCHANGED <<hostToFifoqueue, hosts, maplock, want, inserted>>

\* map.insert does nothing when the name has an entry by now.  The name is
\* read from the HostNode.
MapsNode(p) ==
    /\ pc[p] = "map" /\ maplock = NULL
    /\ hostToFifoqueue' = [hostToFifoqueue EXCEPT ![node[mine[p]].host] =
                              IF @ = NULL THEN mine[p] ELSE @]
    /\ Goto(p, "push")
    /\ UNCHANGED <<hostsVector, node, hosts, maplock, mine, want, inserted>>

\* push, at the end of insertUrl and in getNextHost, which then returns the
\* host if there is no list of local addresses to go round.
Pushes(p) ==
    /\ pc[p] \in {"push", "push_back"}
    /\ hosts' = [hosts EXCEPT ![mine[p]] = @ + 1]
    /\ IF pc[p] = "push_back" /\ LocalIps = 0 THEN Goto(p, "take") /\ UNCHANGED mine
       ELSE Goto(p, "idle") /\ Holding(p, NULL)
    /\ UNCHANGED <<hostToFifoqueue, hostsVector, node, maplock, want, inserted>>

InsertStep(p) == \/ InsertStarts(p) \/ FindsHost(p) \/ FindsNoHost(p) \/ TakesNode(p)
                 \/ MakesNode(p) \/ MapsNode(p) \/ Pushes(p)

-----------------------------------------------------------------------------
(* getNextHost and getUrl *)

\* Mutant of NextReturns: once more than there are local addresses.
NextReturnsOneMore(p, n) ==
    /\ pc[p] = "idle" /\ hosts[n] > 0 /\ node[n].retnum <= LocalIps
    /\ node' = [node EXCEPT ![n].retnum = @ + 1]
    /\ Holding(p, n) /\ Goto(p, "take")
    /\ UNCHANGED <<hostToFifoqueue, hostsVector, hosts, maplock, want, inserted>>

\* The top host is due and is handed out once for every local address ...
NextReturns(p, n) ==
    /\ pc[p] = "idle" /\ hosts[n] > 0 /\ node[n].retnum < LocalIps
    /\ node' = [node EXCEPT ![n].retnum = @ + 1]
    /\ Holding(p, n) /\ Goto(p, "take")
    /\ UNCHANGED <<hostToFifoqueue, hostsVector, hosts, maplock, want, inserted>>

\* ... and then taken out of the priority queue.
NextPops(p, n) ==
    /\ pc[p] = "idle" /\ hosts[n] > 0 /\ node[n].retnum >= LocalIps
    /\ hosts' = [hosts EXCEPT ![n] = @ - 1]
    /\ node' = [node EXCEPT ![n].retnum = 0]
    /\ Holding(p, n) /\ Goto(p, "look")
    /\ UNCHANGED <<hostToFifoqueue, hostsVector, maplock, want, inserted>>

\* Mutant of Retires: how often the host was empty before is enough.
RetiresAnyway(n) == node[n].emptytimes >= EmptyLimit

\* The host is empty once too often.
Retires(n) == node[n].fifo = << >> /\ node[n].emptytimes >= EmptyLimit

\* Under the write lock of the map: the host goes back into the queue ...
LookKeeps(p) ==
    /\ pc[p] = "look" /\ maplock = NULL /\ ~Retires(mine[p])
    /\ node' = [node EXCEPT ![mine[p]].emptytimes =
                   IF node[mine[p]].fifo = << >> THEN @ + 1 ELSE 0]
    /\ Goto(p, "push_back")
    /\ UNCHANGED <<hostToFifoqueue, hostsVector, hosts, maplock, mine, want, inserted>>

\* Mutant of LookRetires: the entry of the map stays.
LookRetiresKept(p) ==
    /\ pc[p] = "look" /\ maplock = NULL /\ Retires(mine[p])
    /\ node' = [node EXCEPT ![mine[p]].available = TRUE]
    /\ maplock' = p /\ Goto(p, "clear")
    /\ UNCHANGED <<hostToFifoqueue, hostsVector, hosts, mine, want, inserted>>

\* ... or its entry is erased and the HostNode cleared: `available` first ...
LookRetires(p) ==
    /\ pc[p] = "look" /\ maplock = NULL /\ Retires(mine[p])
    /\ hostToFifoqueue' = [hostToFifoqueue EXCEPT ![node[mine[p]].host] = NULL]
    /\ node' = [node EXCEPT ![mine[p]].available = TRUE]
    /\ maplock' = p /\ Goto(p, "clear")
    /\ UNCHANGED <<hostsVector, hosts, mine, want, inserted>>

\* ... and then its fields, though another thread may have taken it.
Clears(p) ==
    /\ pc[p] = "clear"
    /\ node' = [node EXCEPT ![mine[p]].host = Blank, ![mine[p]].emptytimes = 0,
                            ![mine[p]].retnum = 0]
    /\ maplock' = NULL /\ Goto(p, "idle") /\ Holding(p, NULL)
    /\ UNCHANGED <<hostToFifoqueue, hostsVector, hosts, want, inserted>>

\* getUrl takes the first url of the host it was given, if there is one.
TakesUrl(p) ==
    /\ pc[p] = "take"
    /\ node' = [node EXCEPT ![mine[p]].fifo = IF @ = << >> THEN @ ELSE Tail(@)]
    /\ Goto(p, "idle") /\ Holding(p, NULL)
    /\ UNCHANGED <<hostToFifoqueue, hostsVector, hosts, maplock, want, inserted>>

NextHost(p, n) == NextReturns(p, n) \/ NextPops(p, n)

GetStep(p) == \/ (\E n \in Nodes : NextHost(p, n))
              \/ LookKeeps(p) \/ LookRetires(p) \/ Clears(p) \/ TakesUrl(p)

-----------------------------------------------------------------------------

Init ==
    /\ hostToFifoqueue = [h \in Hosts \cup {Blank} |-> NULL]
    /\ hostsVector = 0
    /\ node = [n \in Nodes |-> [host |-> Blank, fifo |-> << >>, available |-> FALSE,
                                emptytimes |-> 0, retnum |-> 0]]
    /\ hosts = [n \in Nodes |-> 0]
    /\ maplock = NULL
    /\ pc = [p \in Threads |-> "idle"] /\ mine = [p \in Threads |-> NULL]
    /\ want = [p \in Threads |-> Blank]
    /\ inserted = 0

Next == \E p \in Threads : InsertStep(p) \/ GetStep(p)

Spec == Init /\ [][Next]_vars

\* Threads go on with the call they are in and fetching threads ask again for a
\* host; every host of the priority queue comes to be its top, because a host
\* that is pushed back is due later than it was.
FairSpec ==
    /\ Spec
    /\ \A p \in Threads :
          WF_vars(FindsHost(p) \/ FindsNoHost(p) \/ TakesNode(p) \/ MakesNode(p) \/ MapsNode(p)
                  \/ Pushes(p) \/ LookKeeps(p) \/ LookRetires(p) \/ Clears(p) \/ TakesUrl(p))
    /\ \A p \in Threads : SF_vars(FindsHost(p) \/ FindsNoHost(p) \/ MapsNode(p)
                                  \/ LookKeeps(p) \/ LookRetires(p))
    /\ \A n \in Nodes : SF_vars(\E p \in Threads : NextHost(p, n))

-----------------------------------------------------------------------------
(* Properties *)

Labels == {"idle", "find", "node", "map", "push", "look", "clear", "push_back", "take"}

\* The state has its shape.
TypeOK ==
    /\ hostToFifoqueue \in [Hosts \cup {Blank} -> Nodes \cup {NULL}]
    /\ hostsVector \in 0..MaxNodes
    /\ node \in [Nodes -> HostNode]
    /\ hosts \in [Nodes -> Nat]
    /\ maplock \in Threads \cup {NULL}
    /\ pc \in [Threads -> Labels] /\ mine \in [Threads -> Nodes \cup {NULL}]
    /\ want \in [Threads -> Hosts \cup {Blank}]
    /\ inserted \in 0..MaxUrls

\* The threads that will put HostNode n into the priority queue.
Carriers(n) == {p \in Threads : mine[p] = n /\ pc[p] \in {"map", "push", "look", "push_back"}}

\* No url is stranded: a HostNode with urls is in the priority queue, or some
\* thread is about to put it there, although it may be cleared, taken over by
\* another host and left without an entry in the map in between.
NoUrlStranded ==
    \A n \in Nodes : node[n].fifo # << >> => hosts[n] > 0 \/ Carriers(n) # {}

\* A HostNode is at most once in the priority queue, or else in the hands of
\* one thread: two places would let two threads fetch from its host in half
\* of its interval, and clear it under each other.  An available one is in none.
QueuedOnce ==
    \A n \in Nodes :
        /\ hosts[n] <= 1
        /\ hosts[n] = 1 => Carriers(n) = {}
        /\ \A p, q \in Carriers(n) : p = q
        /\ node[n].available => hosts[n] = 0 /\ Carriers(n) = {}

\* The map leads to HostNodes that carry the name they are found under and are
\* in use, so that a url is never pushed to the queue of another host.
MapSound ==
    \A h \in Hosts \cup {Blank} : hostToFifoqueue[h] # NULL =>
        /\ node[hostToFifoqueue[h]].host = h
        /\ ~node[hostToFifoqueue[h]].available

\* Every url is handed to a fetching thread: a queue that has urls gets empty.
UrlsFetched == \A n \in Nodes : node[n].fifo # << >> ~> node[n].fifo = << >>
=============================================================================
