--------------------------- MODULE Frontier_proofs ---------------------------
(***************************************************************************)
(* Proofs of the safety properties of Frontier, for any number of threads, *)
(* hosts, HostNodes, local addresses and empty rounds.                     *)
(*                                                                         *)
(* None of them is inductive alone.  A url may be pushed to a HostNode     *)
(* found in the map because what the map leads to is in the priority queue *)
(* or carried to it (MappedQueued); a HostNode may be given a new host     *)
(* because an available one is not in the map; and HostNode::clear may     *)
(* wipe the name of a HostNode that was taken over already because the     *)
(* lock of the map keeps it out of the map until then (ClearedUnmapped).   *)
(***************************************************************************)
EXTENDS Frontier, TLAPS

Names == Hosts \cup {Blank}

\* What the threads and the tables refer to has been made.
Made ==
    /\ \A p \in Threads : pc[p] \in {"map", "push", "look", "push_back", "take", "clear"} =>
          mine[p] \in 1..hostsVector
    /\ \A p \in Threads : pc[p] \in {"find", "node"} => want[p] \in Hosts
    /\ \A n \in Nodes : hosts[n] > 0 => n <= hostsVector
    /\ \A h \in Names : hostToFifoqueue[h] # NULL => hostToFifoqueue[h] <= hostsVector
    /\ \A n \in Nodes : n > hostsVector => ~node[n].available

\* Whatever the map leads to is in the priority queue, or on its way there.
MappedQueued ==
    \A h \in Names, n \in Nodes : hostToFifoqueue[h] = n => hosts[n] > 0 \/ Carriers(n) # {}

\* HostNode::clear holds the lock of the map, which does not lead to its node.
ClearedUnmapped ==
    \A p \in Threads : pc[p] = "clear" =>
        maplock = p /\ \A h \in Names : hostToFifoqueue[h] # mine[p]

IndInv ==
    /\ TypeOK /\ Made /\ MapSound /\ QueuedOnce /\ NoUrlStranded
    /\ MappedQueued /\ ClearedUnmapped

-----------------------------------------------------------------------------

\* The node that a thread works with is one of the vector.
LEMMA MineNode ==
    ASSUME TypeOK, Made, NEW p \in Threads,
           pc[p] \in {"map", "push", "look", "push_back", "take", "clear"}
    PROVE  mine[p] \in Nodes /\ mine[p] \in 1..hostsVector /\ mine[p] # NULL
BY FrontierAssumption DEF TypeOK, Made, Nodes

\* A thread that carries a node is its only carrier, and it is in use and not
\* in the priority queue.
LEMMA CarrierAlone ==
    ASSUME IndInv, NEW p \in Threads, pc[p] \in {"map", "push", "look", "push_back"}
    PROVE  /\ mine[p] \in Nodes /\ mine[p] \in 1..hostsVector
           /\ Carriers(mine[p]) = {p}
           /\ hosts[mine[p]] = 0 /\ ~node[mine[p]].available
<1>1. mine[p] \in Nodes /\ mine[p] \in 1..hostsVector
  BY MineNode DEF IndInv
<1>2. p \in Carriers(mine[p])
  BY DEF Carriers
<1>3. Carriers(mine[p]) = {p}
  BY <1>1, <1>2 DEF IndInv, QueuedOnce
<1>4. hosts[mine[p]] \in Nat
  BY <1>1 DEF IndInv, TypeOK
<1> QED BY <1>1, <1>2, <1>3, <1>4 DEF IndInv, QueuedOnce

\* The invariant holds at the start.
LEMMA InitInv == Init => IndInv
<1> SUFFICES ASSUME Init PROVE IndInv
  OBVIOUS
<1>1. TypeOK
  <2>1. [host |-> Blank, fifo |-> << >>, available |-> FALSE, emptytimes |-> 0,
         retnum |-> 0] \in HostNode
    BY FrontierAssumption DEF HostNode
  <2> QED BY <2>1, FrontierAssumption DEF Init, TypeOK, Labels
<1>2. \A n \in Nodes : Carriers(n) = {}
  BY DEF Init, Carriers
<1>3. Made /\ MapSound /\ MappedQueued /\ ClearedUnmapped
  BY FrontierAssumption DEF Init, Made, MapSound, MappedQueued, ClearedUnmapped, Names, Nodes
<1>4. QueuedOnce
  BY <1>2 DEF Init, QueuedOnce
<1>5. NoUrlStranded
  BY DEF Init, NoUrlStranded
<1> QED BY <1>1, <1>3, <1>4, <1>5 DEF IndInv

-----------------------------------------------------------------------------
(* insertUrl *)

\* A thread that starts to insert a url has not touched the frontier yet.
LEMMA InsertStartsInv ==
    ASSUME IndInv, NEW p \in Threads, InsertStarts(p)
    PROVE  IndInv'
<1> USE DEF IndInv, InsertStarts, Goto, shared
<1>1. TypeOK'
  BY FrontierAssumption DEF TypeOK, Labels
<1>2. \A n \in Nodes : Carriers(n)' = Carriers(n)
  BY DEF Carriers, TypeOK
<1>3. Made'
  BY DEF Made, TypeOK
<1>4. MapSound' /\ MappedQueued'
  BY <1>2 DEF MapSound, MappedQueued, Names, TypeOK
<1>5. QueuedOnce' /\ NoUrlStranded'
  BY <1>2 DEF QueuedOnce, NoUrlStranded
<1>6. ClearedUnmapped'
  BY DEF ClearedUnmapped, TypeOK
<1> QED BY <1>1, <1>3, <1>4, <1>5, <1>6

\* A mapped host has a HostNode that is queued or carried, and the url goes into it.
LEMMA FindsHostInv ==
    ASSUME IndInv, NEW p \in Threads, FindsHost(p)
    PROVE  IndInv'
<1> USE DEF IndInv, FindsHost, Goto
<1>0. PICK f : f = hostToFifoqueue[want[p]]
  OBVIOUS
<1>1. want[p] \in Names /\ want[p] \in Hosts /\ f \in Nodes
  <2>1. want[p] \in Names /\ want[p] \in Hosts
    BY DEF TypeOK, Names, Made
  <2> QED BY <1>0, <2>1 DEF TypeOK, Names
<1>2. /\ node' = [node EXCEPT ![f].fifo = Append(@, want[p])]
      /\ node' \in [Nodes -> HostNode]
  <2>1. node[f] \in HostNode /\ Append(node[f].fifo, want[p]) \in Seq(Hosts)
    BY <1>1 DEF TypeOK, HostNode
  <2>2. [node[f] EXCEPT !.fifo = Append(node[f].fifo, want[p])] \in HostNode
    BY <2>1 DEF HostNode
  <2> QED BY <1>0, <1>1, <2>2 DEF TypeOK
<1>3. \A n \in Nodes : /\ n # f => node'[n] = node[n]
                       /\ node'[n].host = node[n].host /\ node'[n].available = node[n].available
  <2>1. node \in [Nodes -> HostNode]
    BY DEF TypeOK
  <2>2. \A n \in Nodes : n # f => node'[n] = node[n]
    BY <2>1, <1>2
  <2>3. node'[f] = [node[f] EXCEPT !.fifo = Append(@, want[p])] /\ node[f] \in HostNode
    BY <2>1, <1>1, <1>2
  <2>4. node'[f].host = node[f].host /\ node'[f].available = node[f].available
    BY <2>3 DEF HostNode
  <2> QED BY <2>2, <2>4
<1>4. TypeOK'
  BY <1>1, <1>2 DEF TypeOK, Labels
<1>5. \A n \in Nodes : Carriers(n)' = Carriers(n)
  BY DEF Carriers, TypeOK
<1>6. Made'
  BY <1>3 DEF Made, TypeOK
<1>7. MapSound' /\ MappedQueued'
  BY <1>3, <1>5 DEF MapSound, MappedQueued, Names, TypeOK
<1>8. QueuedOnce'
  BY <1>3, <1>5 DEF QueuedOnce
<1>9. NoUrlStranded'
  BY <1>0, <1>1, <1>3, <1>5 DEF NoUrlStranded, MappedQueued
<1>10. ClearedUnmapped'
  BY DEF ClearedUnmapped, TypeOK
<1> QED BY <1>4, <1>6, <1>7, <1>8, <1>9, <1>10

\* A thread that finds no entry goes for a HostNode, and nothing shared changes.
LEMMA FindsNoHostInv ==
    ASSUME IndInv, NEW p \in Threads, FindsNoHost(p)
    PROVE  IndInv'
<1> USE DEF IndInv, FindsNoHost, Goto, shared
<1>1. TypeOK'
  BY DEF TypeOK, Labels
<1>2. \A n \in Nodes : Carriers(n)' = Carriers(n)
  BY DEF Carriers, TypeOK
<1>3. Made'
  BY DEF Made, TypeOK
<1>4. MapSound' /\ MappedQueued'
  BY <1>2 DEF MapSound, MappedQueued, Names, TypeOK
<1>5. QueuedOnce' /\ NoUrlStranded'
  BY <1>2 DEF QueuedOnce, NoUrlStranded
<1>6. ClearedUnmapped'
  BY DEF ClearedUnmapped, TypeOK
<1> QED BY <1>1, <1>3, <1>4, <1>5, <1>6

\* A HostNode that is taken or made is in no other hands, and in no map.
LEMMA TakesNodeInv ==
    ASSUME IndInv, NEW p \in Threads, TakesNode(p)
    PROVE  IndInv'
<1> USE DEF IndInv
<1>1. PICK n \in Available :
        /\ node' = [node EXCEPT ![n].available = FALSE, ![n].host = want[p],
                                ![n].fifo = Append(@, want[p])]
        /\ Holding(p, n)
  BY DEF TakesNode
<1>2. /\ pc[p] = "node" /\ pc' = [pc EXCEPT ![p] = "map"] /\ mine' = [mine EXCEPT ![p] = n]
      /\ UNCHANGED <<hostToFifoqueue, hostsVector, hosts, maplock, want, inserted>>
  BY <1>1 DEF TakesNode, Goto, Holding
<1>3. n \in Nodes /\ n \in 1..hostsVector /\ node[n].available /\ want[p] \in Hosts
  <2>1. n \in 1..hostsVector /\ node[n].available
    BY DEF Available
  <2>2. hostsVector \in 0..MaxNodes /\ MaxNodes \in Nat
    BY FrontierAssumption DEF TypeOK
  <2>3. want[p] \in Hosts
    BY <1>2 DEF Made
  <2> QED BY <2>1, <2>2, <2>3 DEF Nodes
<1>4. /\ \A h \in Names : hostToFifoqueue[h] # n
      /\ hosts[n] = 0 /\ Carriers(n) = {}
  <2>1. n # NULL
    BY <1>3, FrontierAssumption DEF Nodes
  <2> QED BY <1>3, <2>1 DEF MapSound, Names, QueuedOnce
<1>5. /\ node'[n].host = want[p] /\ ~node'[n].available /\ node' \in [Nodes -> HostNode]
      /\ \A m \in Nodes : m # n => node'[m] = node[m]
  <2>1. node[n] \in HostNode /\ Append(node[n].fifo, want[p]) \in Seq(Hosts)
    BY <1>3 DEF TypeOK, HostNode
  <2> DEFINE r == [node[n] EXCEPT !.available = FALSE, !.host = want[p],
                                  !.fifo = Append(node[n].fifo, want[p])]
  <2>2. r \in HostNode /\ r.host = want[p] /\ ~r.available
    BY <1>3, <2>1 DEF HostNode
  <2>3. node' = [node EXCEPT ![n] = r]
    BY <1>1
  <2> HIDE DEF r
  <2> QED BY <1>3, <2>2, <2>3 DEF TypeOK
<1>6. /\ Carriers(n)' = {p}
      /\ \A m \in Nodes : m # n => Carriers(m)' = Carriers(m)
  BY <1>2, <1>3, <1>4 DEF Carriers, TypeOK
<1>7. TypeOK'
  BY <1>2, <1>3, <1>5 DEF TypeOK, Labels
<1>8. Made'
  BY <1>2, <1>3, <1>5 DEF Made, TypeOK
<1>9. MapSound' /\ MappedQueued'
  BY <1>2, <1>4, <1>5, <1>6 DEF MapSound, MappedQueued, Names, TypeOK
<1>10. QueuedOnce'
  BY <1>2, <1>4, <1>5, <1>6 DEF QueuedOnce
<1>11. NoUrlStranded'
  BY <1>2, <1>5, <1>6 DEF NoUrlStranded
<1>12. ClearedUnmapped'
  BY <1>2, <1>4 DEF ClearedUnmapped, TypeOK
<1> QED BY <1>7, <1>8, <1>9, <1>10, <1>11, <1>12

\* The new HostNode is in no map and in no queue; its maker is its only carrier.
LEMMA MakesNodeInv ==
    ASSUME IndInv, NEW p \in Threads, MakesNode(p)
    PROVE  IndInv'
<1> USE DEF IndInv
<1>0. PICK n : n = hostsVector + 1
  OBVIOUS
<1>1. /\ pc[p] = "node" /\ pc' = [pc EXCEPT ![p] = "map"] /\ mine' = [mine EXCEPT ![p] = n]
      /\ hostsVector' = n /\ hostsVector \in Nat
      /\ UNCHANGED <<hostToFifoqueue, hosts, maplock, want, inserted>>
      /\ node' = [node EXCEPT ![n].host = want[p], ![n].fifo = <<want[p]>>]
  BY <1>0, FrontierAssumption DEF MakesNode, Goto, Holding, TypeOK
<1>2. n \in Nodes /\ ~node[n].available /\ want[p] \in Hosts
  <2>1. hostsVector < MaxNodes /\ MaxNodes \in Nat
    BY FrontierAssumption DEF MakesNode
  <2>2. n \in Nodes /\ n > hostsVector
    BY <1>0, <1>1, <2>1 DEF Nodes
  <2> QED BY <1>1, <2>2 DEF Made
<1>3. /\ \A h \in Names : hostToFifoqueue[h] # n
      /\ hosts[n] = 0 /\ Carriers(n) = {}
  <2>1. \A h \in Names : hostToFifoqueue[h] # n
    BY <1>0, <1>1, <1>2, FrontierAssumption DEF Made, Nodes
  <2>2. hosts[n] = 0
    <3>1. hosts[n] \in Nat /\ ~(n <= hostsVector)
      BY <1>0, <1>1, <1>2 DEF TypeOK
    <3> QED BY <1>2, <3>1 DEF Made
  <2>3. Carriers(n) = {}
    BY <1>0, <1>1, <1>2 DEF Made, Carriers
  <2> QED BY <2>1, <2>2, <2>3
<1>4. /\ node'[n].host = want[p] /\ ~node'[n].available /\ node' \in [Nodes -> HostNode]
      /\ \A m \in Nodes : m # n => node'[m] = node[m]
  <2>1. node[n] \in HostNode /\ <<want[p]>> \in Seq(Hosts)
    BY <1>2 DEF TypeOK
  <2> DEFINE r == [node[n] EXCEPT !.host = want[p], !.fifo = <<want[p]>>]
  <2>2. r \in HostNode /\ r.host = want[p] /\ ~r.available
    BY <1>2, <2>1 DEF HostNode
  <2>3. node' = [node EXCEPT ![n] = r]
    BY <1>1
  <2> HIDE DEF r
  <2> QED BY <1>2, <2>2, <2>3 DEF TypeOK
<1>5. /\ Carriers(n)' = {p}
      /\ \A m \in Nodes : m # n => Carriers(m)' = Carriers(m)
  BY <1>1, <1>2, <1>3 DEF Carriers, TypeOK
<1>6. TypeOK'
  <2>1. hostsVector' \in 0..MaxNodes
    BY <1>0, <1>1, <1>2 DEF Nodes
  <2> QED BY <1>1, <1>2, <1>4, <2>1 DEF TypeOK, Labels
<1>7. Made'
  <2>1. \A m \in Nodes : m \in Nat
    BY DEF Nodes
  <2>2. \A h \in Names : hostToFifoqueue[h] # NULL => hostToFifoqueue[h] \in Nodes
    BY DEF TypeOK, Names
  <2> QED BY <1>0, <1>1, <1>2, <1>3, <1>4, <2>1, <2>2 DEF Made, TypeOK
<1>8. MapSound' /\ MappedQueued'
  BY <1>1, <1>3, <1>4, <1>5 DEF MapSound, MappedQueued, Names, TypeOK
<1>9. QueuedOnce'
  BY <1>1, <1>3, <1>4, <1>5 DEF QueuedOnce
<1>10. NoUrlStranded'
  BY <1>1, <1>4, <1>5 DEF NoUrlStranded
<1>11. ClearedUnmapped'
  BY <1>1, <1>3 DEF ClearedUnmapped, TypeOK
<1> QED BY <1>6, <1>7, <1>8, <1>9, <1>10, <1>11

\* The entry of the name is new or stays; either way the HostNode has its carrier.
LEMMA MapsNodeInv ==
    ASSUME IndInv, NEW p \in Threads, MapsNode(p)
    PROVE  IndInv'
<1> USE DEF IndInv
<1>0. PICK n, k : n = mine[p] /\ k = node[n].host
  OBVIOUS
<1>1. /\ pc[p] = "map" /\ pc' = [pc EXCEPT ![p] = "push"] /\ maplock = NULL
      /\ UNCHANGED <<hostsVector, node, hosts, maplock, mine, want, inserted>>
      /\ hostToFifoqueue' = [hostToFifoqueue EXCEPT ![k] = IF @ = NULL THEN n ELSE @]
  BY <1>0 DEF MapsNode, Goto
<1>2. /\ n \in Nodes /\ n \in 1..hostsVector /\ Carriers(n) = {p} /\ ~node[n].available
      /\ k \in Names
  <2>1. n \in Nodes /\ n \in 1..hostsVector /\ Carriers(n) = {p} /\ ~node[n].available
    BY <1>0, <1>1, CarrierAlone
  <2> QED BY <1>0, <2>1 DEF TypeOK, HostNode, Names
<1>3. \A q \in Threads : pc[q] # "clear"
  BY <1>1, FrontierAssumption DEF ClearedUnmapped
<1>4. \A h \in Names : \/ hostToFifoqueue'[h] = hostToFifoqueue[h]
                       \/ h = k /\ hostToFifoqueue'[h] = n
  BY <1>1, <1>2 DEF TypeOK, Names
<1>5. \A m \in Nodes : Carriers(m)' = Carriers(m)
  BY <1>1 DEF Carriers, TypeOK
<1>6. TypeOK'
  BY <1>1, <1>2 DEF TypeOK, Labels
<1>7. Made'
  BY <1>1, <1>2, <1>4 DEF Made, TypeOK
<1>8. MapSound'
  BY <1>0, <1>1, <1>2, <1>4 DEF MapSound, Names
<1>9. MappedQueued'
  <2>1. Carriers(n)' # {}
    BY <1>2, <1>5
  <2> QED BY <1>1, <1>4, <1>5, <2>1 DEF MappedQueued
<1>10. QueuedOnce' /\ NoUrlStranded'
  BY <1>1, <1>5 DEF QueuedOnce, NoUrlStranded
<1>11. ClearedUnmapped'
  BY <1>1, <1>3 DEF ClearedUnmapped, TypeOK
<1> QED BY <1>6, <1>7, <1>8, <1>9, <1>10, <1>11

\* A carrier puts its node into the priority queue.
LEMMA PushesInv ==
    ASSUME IndInv, NEW p \in Threads, Pushes(p)
    PROVE  IndInv'
<1> USE DEF IndInv
<1>0. PICK n : n = mine[p]
  OBVIOUS
<1>1. /\ pc[p] \in {"push", "push_back"} /\ hosts' = [hosts EXCEPT ![n] = @ + 1]
      /\ \/ pc' = [pc EXCEPT ![p] = "take"] /\ mine' = mine
         \/ pc' = [pc EXCEPT ![p] = "idle"] /\ mine' = [mine EXCEPT ![p] = NULL]
      /\ UNCHANGED <<hostToFifoqueue, hostsVector, node, maplock, want, inserted>>
  BY <1>0 DEF Pushes, Goto, Holding
<1>2. /\ n \in Nodes /\ n \in 1..hostsVector /\ Carriers(n) = {p} /\ ~node[n].available
      /\ hosts[n] = 0
  BY <1>0, <1>1, CarrierAlone
<1>3. /\ Carriers(n)' = {} /\ hosts'[n] = 1
      /\ \A m \in Nodes : m # n => Carriers(m)' = Carriers(m) /\ hosts'[m] = hosts[m]
  <2>1. hosts'[n] = 1 /\ \A m \in Nodes : m # n => hosts'[m] = hosts[m]
    BY <1>1, <1>2 DEF TypeOK
  <2>2. pc'[p] \in {"take", "idle"} /\ \A q \in Threads : q # p => pc'[q] = pc[q] /\ mine'[q] = mine[q]
    BY <1>1 DEF TypeOK
  <2>3. Carriers(n)' = {}
    BY <1>2, <2>2 DEF Carriers
  <2>4. ASSUME NEW m \in Nodes, m # n PROVE Carriers(m)' = Carriers(m)
    BY <1>0, <1>1, <2>2, <2>4 DEF Carriers
  <2> QED BY <2>1, <2>3, <2>4
<1>4. TypeOK'
  BY <1>1, <1>2 DEF TypeOK, Labels
<1>5. Made'
  BY <1>1, <1>2, <1>3 DEF Made, TypeOK, Nodes
<1>6. MapSound' /\ MappedQueued'
  BY <1>1, <1>3 DEF MapSound, MappedQueued, Names, TypeOK
<1>7. QueuedOnce'
  BY <1>1, <1>2, <1>3 DEF QueuedOnce
<1>8. NoUrlStranded'
  BY <1>1, <1>3 DEF NoUrlStranded
<1>9. ClearedUnmapped'
  BY <1>1 DEF ClearedUnmapped, TypeOK
<1> QED BY <1>4, <1>5, <1>6, <1>7, <1>8, <1>9

-----------------------------------------------------------------------------
(* getNextHost and getUrl *)

\* A host that is handed out for one more local address stays where it is.
LEMMA NextReturnsInv ==
    ASSUME IndInv, NEW p \in Threads, NEW n \in Nodes, NextReturns(p, n)
    PROVE  IndInv'
<1> USE DEF IndInv
<1>1. /\ pc[p] = "idle" /\ pc' = [pc EXCEPT ![p] = "take"] /\ mine' = [mine EXCEPT ![p] = n]
      /\ node' = [node EXCEPT ![n].retnum = @ + 1] /\ node[n].retnum < LocalIps /\ hosts[n] > 0
      /\ UNCHANGED <<hostToFifoqueue, hostsVector, hosts, maplock, want, inserted>>
  BY DEF NextReturns, Goto, Holding
<1>2. /\ node' \in [Nodes -> HostNode]
      /\ \A m \in Nodes : /\ node'[m].host = node[m].host /\ node'[m].fifo = node[m].fifo
                          /\ node'[m].available = node[m].available
  <2>1. node[n] \in HostNode
    BY DEF TypeOK
  <2> DEFINE r == [node[n] EXCEPT !.retnum = node[n].retnum + 1]
  <2>2. /\ r \in HostNode /\ r.host = node[n].host /\ r.fifo = node[n].fifo
        /\ r.available = node[n].available
    BY <1>1, <2>1, FrontierAssumption DEF HostNode
  <2>3. node' = [node EXCEPT ![n] = r]
    BY <1>1
  <2> HIDE DEF r
  <2> QED BY <2>2, <2>3 DEF TypeOK
<1>3. \A m \in Nodes : Carriers(m)' = Carriers(m)
  BY <1>1 DEF Carriers, TypeOK
<1>4. TypeOK'
  BY <1>1, <1>2 DEF TypeOK, Labels
<1>5. Made'
  BY <1>1, <1>2 DEF Made, TypeOK, Nodes
<1>6. MapSound' /\ MappedQueued'
  BY <1>1, <1>2, <1>3 DEF MapSound, MappedQueued, Names, TypeOK
<1>7. QueuedOnce' /\ NoUrlStranded'
  BY <1>1, <1>2, <1>3 DEF QueuedOnce, NoUrlStranded
<1>8. ClearedUnmapped'
  BY <1>1 DEF ClearedUnmapped, TypeOK
<1> QED BY <1>4, <1>5, <1>6, <1>7, <1>8

\* A popped HostNode goes from the priority queue into the hands of one thread.
LEMMA NextPopsInv ==
    ASSUME IndInv, NEW p \in Threads, NEW n \in Nodes, NextPops(p, n)
    PROVE  IndInv'
<1> USE DEF IndInv
<1>1. /\ pc[p] = "idle" /\ pc' = [pc EXCEPT ![p] = "look"] /\ mine' = [mine EXCEPT ![p] = n]
      /\ node' = [node EXCEPT ![n].retnum = 0] /\ hosts[n] > 0
      /\ hosts' = [hosts EXCEPT ![n] = @ - 1]
      /\ UNCHANGED <<hostToFifoqueue, hostsVector, maplock, want, inserted>>
  BY DEF NextPops, Goto, Holding
<1>2. /\ node' \in [Nodes -> HostNode]
      /\ \A m \in Nodes : /\ node'[m].host = node[m].host /\ node'[m].fifo = node[m].fifo
                          /\ node'[m].available = node[m].available
  <2>1. node[n] \in HostNode
    BY DEF TypeOK
  <2> DEFINE r == [node[n] EXCEPT !.retnum = 0]
  <2>2. /\ r \in HostNode /\ r.host = node[n].host /\ r.fifo = node[n].fifo
        /\ r.available = node[n].available
    BY <2>1, FrontierAssumption DEF HostNode
  <2>3. node' = [node EXCEPT ![n] = r]
    BY <1>1
  <2> HIDE DEF r
  <2> QED BY <2>2, <2>3 DEF TypeOK
<1>3. /\ hosts[n] = 1 /\ hosts'[n] = 0 /\ Carriers(n) = {} /\ ~node[n].available
      /\ n <= hostsVector
      /\ \A m \in Nodes : m # n => hosts'[m] = hosts[m]
  BY <1>1 DEF TypeOK, QueuedOnce, Made
<1>4. /\ Carriers(n)' = {p}
      /\ \A m \in Nodes : m # n => Carriers(m)' = Carriers(m)
  BY <1>1, <1>3 DEF Carriers, TypeOK
<1>5. TypeOK'
  <2>1. hosts' \in [Nodes -> Nat]
    BY <1>1, <1>3 DEF TypeOK
  <2> QED BY <1>1, <1>2, <2>1 DEF TypeOK, Labels
<1>6. Made'
  BY <1>1, <1>2, <1>3 DEF Made, TypeOK, Nodes
<1>7. MapSound' /\ MappedQueued'
  <2>1. MapSound'
    BY <1>1, <1>2 DEF MapSound, TypeOK
  <2>2. MappedQueued'
    BY <1>1, <1>3, <1>4 DEF MappedQueued
  <2> QED BY <2>1, <2>2
<1>8. QueuedOnce'
  BY <1>1, <1>2, <1>3, <1>4 DEF QueuedOnce
<1>9. NoUrlStranded'
  BY <1>1, <1>2, <1>3, <1>4 DEF NoUrlStranded
<1>10. ClearedUnmapped'
  BY <1>1 DEF ClearedUnmapped, TypeOK
<1> QED BY <1>5, <1>6, <1>7, <1>8, <1>9, <1>10

\* A host that is kept stays in the hands of the thread that will push it back.
LEMMA LookKeepsInv ==
    ASSUME IndInv, NEW p \in Threads, LookKeeps(p)
    PROVE  IndInv'
<1> USE DEF IndInv
<1>0. PICK n : n = mine[p]
  OBVIOUS
<1>1. /\ pc[p] = "look" /\ pc' = [pc EXCEPT ![p] = "push_back"] /\ ~Retires(n)
      /\ node' = [node EXCEPT ![n].emptytimes = IF node[n].fifo = << >> THEN @ + 1 ELSE 0]
      /\ UNCHANGED <<hostToFifoqueue, hostsVector, hosts, maplock, mine, want, inserted>>
  BY <1>0 DEF LookKeeps, Goto
<1>2. n \in Nodes /\ n \in 1..hostsVector
  BY <1>0, <1>1, MineNode
<1>3. /\ node' \in [Nodes -> HostNode]
      /\ \A m \in Nodes : /\ node'[m].host = node[m].host /\ node'[m].fifo = node[m].fifo
                          /\ node'[m].available = node[m].available
  <2>1. node[n] \in HostNode
    BY <1>2 DEF TypeOK
  <2> DEFINE e == IF node[n].fifo = << >> THEN node[n].emptytimes + 1 ELSE 0
             r == [node[n] EXCEPT !.emptytimes = e]
  <2>2. e \in 0..EmptyLimit
    BY <1>1, <2>1, FrontierAssumption DEF HostNode, Retires
  <2>3. node' = [node EXCEPT ![n] = r]
    BY <1>1
  <2> HIDE DEF e
  <2>4. /\ r \in HostNode /\ r.host = node[n].host /\ r.fifo = node[n].fifo
        /\ r.available = node[n].available
    BY <2>1, <2>2 DEF HostNode
  <2> HIDE DEF r
  <2> QED BY <1>2, <2>3, <2>4 DEF TypeOK
<1>4. \A m \in Nodes : Carriers(m)' = Carriers(m)
  BY <1>1 DEF Carriers, TypeOK
<1>5. TypeOK'
  BY <1>1, <1>3 DEF TypeOK, Labels
<1>6. Made'
  BY <1>1, <1>2, <1>3, <1>0 DEF Made, TypeOK
<1>7. MapSound' /\ MappedQueued'
  BY <1>1, <1>3, <1>4 DEF MapSound, MappedQueued, Names, TypeOK
<1>8. QueuedOnce' /\ NoUrlStranded'
  BY <1>1, <1>3, <1>4 DEF QueuedOnce, NoUrlStranded
<1>9. ClearedUnmapped'
  BY <1>1 DEF ClearedUnmapped, TypeOK
<1> QED BY <1>5, <1>6, <1>7, <1>8, <1>9

\* The retired node is empty and leaves the map: what led to it carried its name.
LEMMA LookRetiresInv ==
    ASSUME IndInv, NEW p \in Threads, LookRetires(p)
    PROVE  IndInv'
<1> USE DEF IndInv
<1>0. PICK n, k : n = mine[p] /\ k = node[n].host
  OBVIOUS
<1>1. /\ pc[p] = "look" /\ pc' = [pc EXCEPT ![p] = "clear"] /\ maplock = NULL /\ maplock' = p
      /\ node[n].fifo = << >>
      /\ node' = [node EXCEPT ![n].available = TRUE]
      /\ hostToFifoqueue' = [hostToFifoqueue EXCEPT ![k] = NULL]
      /\ UNCHANGED <<hostsVector, hosts, mine, want, inserted>>
  BY <1>0 DEF LookRetires, Retires, Goto
<1>2. n \in Nodes /\ n \in 1..hostsVector /\ Carriers(n) = {p} /\ hosts[n] = 0
  BY <1>0, <1>1, CarrierAlone
<1>3. /\ node' \in [Nodes -> HostNode]
      /\ \A m \in Nodes : /\ node'[m].host = node[m].host /\ node'[m].fifo = node[m].fifo
                          /\ m # n => node'[m].available = node[m].available
  <2>1. node[n] \in HostNode
    BY <1>2 DEF TypeOK
  <2> DEFINE r == [node[n] EXCEPT !.available = TRUE]
  <2>2. r \in HostNode /\ r.host = node[n].host /\ r.fifo = node[n].fifo
    BY <2>1 DEF HostNode
  <2>3. node' = [node EXCEPT ![n] = r]
    BY <1>1
  <2> HIDE DEF r
  <2> QED BY <1>2, <2>2, <2>3 DEF TypeOK
<1>4. /\ k \in Names /\ n # NULL
      /\ \A h \in Names : /\ hostToFifoqueue'[h] # n
                          /\ hostToFifoqueue'[h] \in {NULL, hostToFifoqueue[h]}
  <2>1. k \in Names /\ n # NULL
    BY <1>0, <1>2, FrontierAssumption DEF TypeOK, HostNode, Names, Nodes
  <2>2. \A h \in Names : h # k => hostToFifoqueue[h] # n
    BY <1>0, <2>1 DEF MapSound, Names
  <2> QED BY <1>1, <2>1, <2>2 DEF TypeOK, Names
<1>5. \A q \in Threads : pc[q] # "clear"
  BY <1>1, FrontierAssumption DEF ClearedUnmapped
<1>6. /\ Carriers(n)' = {}
      /\ \A m \in Nodes : m # n => Carriers(m)' = Carriers(m)
  <2>1. pc'[p] = "clear" /\ \A q \in Threads : mine'[q] = mine[q] /\ (q # p => pc'[q] = pc[q])
    BY <1>1 DEF TypeOK
  <2> QED BY <1>0, <1>2, <2>1 DEF Carriers
<1>7. TypeOK'
  BY <1>1, <1>3, <1>4 DEF TypeOK, Labels
<1>8. Made'
  <2>1. /\ \A h \in Names : hostToFifoqueue'[h] # NULL => hostToFifoqueue'[h] <= hostsVector
    BY <1>4 DEF Made
  <2>2. \A m \in Nodes : m > hostsVector => ~node'[m].available
    BY <1>2, <1>3 DEF Made, TypeOK
  <2> QED BY <1>1, <2>1, <2>2, <1>2, <1>0 DEF Made, TypeOK
<1>9. MapSound'
  <2> SUFFICES ASSUME NEW h \in Names, NEW m, m = hostToFifoqueue'[h], m # NULL
               PROVE  node'[m].host = h /\ ~node'[m].available
    BY DEF MapSound, Names
  <2>1. m = hostToFifoqueue[h] /\ m # n
    BY <1>4
  <2>2. m \in Nodes
    BY <2>1 DEF TypeOK, Names
  <2> QED BY <1>3, <2>1, <2>2 DEF MapSound, Names
<1>10. MappedQueued'
  <2> SUFFICES ASSUME NEW h \in Names, NEW m \in Nodes, hostToFifoqueue'[h] = m
               PROVE  hosts'[m] > 0 \/ Carriers(m)' # {}
    BY DEF MappedQueued
  <2>1. m # n /\ hostToFifoqueue[h] = m
    BY <1>4, FrontierAssumption DEF Nodes
  <2> QED BY <1>1, <1>6, <2>1 DEF MappedQueued
<1>11. QueuedOnce'
  BY <1>1, <1>2, <1>3, <1>6 DEF QueuedOnce
<1>12. NoUrlStranded'
  BY <1>1, <1>3, <1>6 DEF NoUrlStranded
<1>13. ClearedUnmapped'
  BY <1>0, <1>1, <1>4, <1>5 DEF ClearedUnmapped, TypeOK
<1> QED BY <1>7, <1>8, <1>9, <1>10, <1>11, <1>12, <1>13

\* The node may be another thread's by now, but the map does not lead to it.
LEMMA ClearsInv ==
    ASSUME IndInv, NEW p \in Threads, Clears(p)
    PROVE  IndInv'
<1> USE DEF IndInv
<1>0. PICK n : n = mine[p]
  OBVIOUS
<1>1. /\ pc[p] = "clear" /\ pc' = [pc EXCEPT ![p] = "idle"] /\ mine' = [mine EXCEPT ![p] = NULL]
      /\ node' = [node EXCEPT ![n].host = Blank, ![n].emptytimes = 0, ![n].retnum = 0]
      /\ maplock' = NULL
      /\ UNCHANGED <<hostToFifoqueue, hostsVector, hosts, want, inserted>>
  BY <1>0 DEF Clears, Goto, Holding
<1>2. n \in Nodes /\ maplock = p /\ \A h \in Names : hostToFifoqueue[h] # n
  BY <1>0, <1>1, MineNode DEF ClearedUnmapped
<1>3. /\ node' \in [Nodes -> HostNode]
      /\ \A m \in Nodes : /\ node'[m].fifo = node[m].fifo
                          /\ node'[m].available = node[m].available
                          /\ m # n => node'[m].host = node[m].host
  <2>1. node[n] \in HostNode
    BY <1>2 DEF TypeOK
  <2> DEFINE r == [node[n] EXCEPT !.host = Blank, !.emptytimes = 0, !.retnum = 0]
  <2>2. r \in HostNode /\ r.fifo = node[n].fifo /\ r.available = node[n].available
    <3>1. 0 \in 0..EmptyLimit /\ 0 \in 0..LocalIps
      BY FrontierAssumption
    <3> QED BY <2>1, <3>1 DEF HostNode
  <2>3. node' = [node EXCEPT ![n] = r]
    BY <1>1
  <2> HIDE DEF r
  <2> QED BY <1>2, <2>2, <2>3 DEF TypeOK
<1>4. \A m \in Nodes : Carriers(m)' = Carriers(m)
  BY <1>1 DEF Carriers, TypeOK
<1>5. TypeOK'
  BY <1>1, <1>3 DEF TypeOK, Labels
<1>6. Made'
  BY <1>1, <1>3 DEF Made, TypeOK
<1>7. MapSound'
  <2> SUFFICES ASSUME NEW h \in Names, NEW m, m = hostToFifoqueue[h], m # NULL
               PROVE  node'[m].host = h /\ ~node'[m].available
    BY <1>1 DEF MapSound, Names
  <2>1. m \in Nodes /\ m # n
    BY <1>2 DEF TypeOK, Names
  <2> QED BY <1>3, <2>1 DEF MapSound, Names
<1>8. MappedQueued'
  BY <1>1, <1>4 DEF MappedQueued
<1>9. QueuedOnce' /\ NoUrlStranded'
  BY <1>1, <1>3, <1>4 DEF QueuedOnce, NoUrlStranded
<1>10. ClearedUnmapped'
  BY <1>1, <1>2, FrontierAssumption DEF ClearedUnmapped, TypeOK
<1> QED BY <1>5, <1>6, <1>7, <1>8, <1>9, <1>10

\* Taking a url out of a queue strands none of the others.
LEMMA TakesUrlInv ==
    ASSUME IndInv, NEW p \in Threads, TakesUrl(p)
    PROVE  IndInv'
<1> USE DEF IndInv
<1>0. PICK n : n = mine[p]
  OBVIOUS
<1>1. /\ pc[p] = "take" /\ pc' = [pc EXCEPT ![p] = "idle"] /\ mine' = [mine EXCEPT ![p] = NULL]
      /\ node' = [node EXCEPT ![n].fifo = IF @ = << >> THEN @ ELSE Tail(@)]
      /\ UNCHANGED <<hostToFifoqueue, hostsVector, hosts, maplock, want, inserted>>
  BY <1>0 DEF TakesUrl, Goto, Holding
<1>2. n \in Nodes
  BY <1>0, <1>1, MineNode
<1>3. /\ node' \in [Nodes -> HostNode]
      /\ \A m \in Nodes : /\ node'[m].host = node[m].host
                          /\ node'[m].available = node[m].available
                          /\ node'[m].fifo # << >> => node[m].fifo # << >>
  <2>1. node[n] \in HostNode
    BY <1>2 DEF TypeOK
  <2> DEFINE f == IF node[n].fifo = << >> THEN node[n].fifo ELSE Tail(node[n].fifo)
             r == [node[n] EXCEPT !.fifo = f]
  <2>2. f \in Seq(Hosts) /\ (f # << >> => node[n].fifo # << >>)
    BY <2>1 DEF HostNode
  <2>3. node' = [node EXCEPT ![n] = r]
    BY <1>1
  <2> HIDE DEF f
  <2>4. r \in HostNode /\ r.host = node[n].host /\ r.available = node[n].available /\ r.fifo = f
    BY <2>1, <2>2 DEF HostNode
  <2> HIDE DEF r
  <2> QED BY <1>2, <2>2, <2>3, <2>4 DEF TypeOK
<1>4. \A m \in Nodes : Carriers(m)' = Carriers(m)
  BY <1>1 DEF Carriers, TypeOK
<1>5. TypeOK'
  BY <1>1, <1>3 DEF TypeOK, Labels
<1>6. Made'
  BY <1>1, <1>3 DEF Made, TypeOK
<1>7. MapSound' /\ MappedQueued'
  BY <1>1, <1>3, <1>4 DEF MapSound, MappedQueued, Names, TypeOK
<1>8. QueuedOnce' /\ NoUrlStranded'
  BY <1>1, <1>3, <1>4 DEF QueuedOnce, NoUrlStranded
<1>9. ClearedUnmapped'
  BY <1>1 DEF ClearedUnmapped, TypeOK
<1> QED BY <1>5, <1>6, <1>7, <1>8, <1>9

-----------------------------------------------------------------------------

\* A step that changes nothing.
LEMMA StutterInv ==
    ASSUME IndInv, UNCHANGED vars
    PROVE  IndInv'
BY DEF IndInv, TypeOK, Made, MapSound, QueuedOnce, NoUrlStranded, MappedQueued,
       ClearedUnmapped, Carriers, vars, shared

\* Every step preserves the invariant.
LEMMA NextInv == IndInv /\ [Next]_vars => IndInv'
BY InsertStartsInv, FindsHostInv, FindsNoHostInv, TakesNodeInv, MakesNodeInv, MapsNodeInv,
   PushesInv, NextReturnsInv, NextPopsInv, LookKeepsInv, LookRetiresInv, ClearsInv,
   TakesUrlInv, StutterInv
   DEF Next, InsertStep, GetStep, NextHost

\* The inductive invariant is an invariant.
LEMMA Invariant == Spec => []IndInv
BY InitInv, NextInv, PTL DEF Spec

\* TypeOK: the shape of the state, with the limits on emptytimes and retnum.
THEOREM TypeCorrect == Spec => []TypeOK
<1>1. IndInv => TypeOK
  BY DEF IndInv
<1> QED BY <1>1, Invariant, PTL

\* NoUrlStranded: a HostNode with urls is in the priority queue or about to be
\* put there, whichever threads insert, get and clear.
THEOREM NothingStranded == Spec => []NoUrlStranded
<1>1. IndInv => NoUrlStranded
  BY DEF IndInv
<1> QED BY <1>1, Invariant, PTL

\* QueuedOnce: a HostNode is in one place, and an available one in none.
THEOREM OnePlace == Spec => []QueuedOnce
<1>1. IndInv => QueuedOnce
  BY DEF IndInv
<1> QED BY <1>1, Invariant, PTL

\* MapSound: the map leads to HostNodes in use that carry the name.
THEOREM MapIsSound == Spec => []MapSound
<1>1. IndInv => MapSound
  BY DEF IndInv
<1> QED BY <1>1, Invariant, PTL
=============================================================================
