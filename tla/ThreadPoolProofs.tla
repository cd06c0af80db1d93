--------------------------- MODULE ThreadPoolProofs ---------------------------
(***************************************************************************)
(* Theorems about ThreadPool, for any number of threads, any graphs, and   *)
(* aborts and pauses at any time.                                          *)
(*                                                                         *)
(* Between two barriers the active threads are in one segment of the graph *)
(* together: <<n, "node">> starts at node n, <<n, "chunk">> is the part of *)
(* the matrix multiplication n behind its barrier.  The invariant says     *)
(* where a thread can be in a segment, who is behind it, because it has    *)
(* not seen the last barrier open yet or not joined, and which parts of    *)
(* which nodes are computed.                                               *)
(***************************************************************************)
EXTENDS ThreadPool, FiniteSets, FiniteSetTheorems, TLAPS

Team   == 0 .. Active - 1
Length == Len(Nodes)

(* Where the workers wait for a graph, and the main thread for its caller. *)
OutPlaces  == {"loop", "pausing", "paused", "stopping", "poll", "lock", "asleep", "work", "exited"}
MainPlaces == {"idle", "kickoff", "return", "joining", "freed"}

(* A thread that spins in a barrier waits for it, or is late: it has yet   *)
(* to see that the barrier is open.                                        *)
Waits(t)     == pc[t] = "spin" /\ passed[t] = n_barrier_passed
Late(t)      == pc[t] = "spin" /\ passed[t] # n_barrier_passed
AtBarrier(t) == pc[t] \in {"barrier", "arrive", "last", "open"} \/ Waits(t)
Out(w)       == pc[w] \in OutPlaces \/ (Late(w) /\ ret[w] = "end")

---------------------------------------------------------------------------
(* The segment <<n, k>>.                                                   *)

(* The nodes that a thread can go to from node n, over empty nodes only.   *)
Ahead(n) ==
  {m \in n .. Length + 1 : IF abort = n THEN m = n ELSE \A i \in n .. m - 1 : Nodes[i] = 0}

(* The node whose parts are computed in the segment, the matrix            *)
(* multiplication whose barrier ends it, and where the loop can end.       *)
WorkNodes(n, k) ==
  IF k = "chunk" THEN {n}
  ELSE {m \in Ahead(n) : m <= Length /\ abort # n /\ Nodes[m] = Shared}

FillNodes(n, k) ==
  IF k = "chunk" THEN {}
  ELSE {m \in Ahead(n) : m <= Length /\ abort # n /\ Nodes[m] > 0}

LastNodes(n, k) ==
  {m \in n .. Length + 1 :
     \/ m = Length + 1 /\ Length \in WorkNodes(n, k)
     \/ k = "node" /\ m \in Ahead(n) /\ (m = Length + 1 \/ abort = n)}

(* The barrier that ends the segment: where it is, and what comes next.    *)
Exits(n, k) ==
  {<<m, "node">> : m \in WorkNodes(n, k) \ {Length}}
    \cup {<<m, "chunk">> : m \in FillNodes(n, k)}
    \cup {<<m, "end">> : m \in LastNodes(n, k)}

NotJoined(t, n, k) ==
  n = 1 /\ k = "node" /\ (pc[t] = "start" \/ (t # 0 /\ Out(t)))

Behind(t, n, k) == Late(t) /\ ret[t] = k /\ n = (IF k = "node" THEN node[t] + 1 ELSE node[t])

Inside(t, n, k) ==
  \/ pc[t] = "node" /\ k = "node" /\ node[t] \in Ahead(n)
  \/ pc[t] = "node" /\ Length \in WorkNodes(n, k) /\ node[t] = Length + 1
  \/ pc[t] = "chunk" /\ k = "chunk" /\ node[t] = n
  \/ pc[t] = "after" /\ node[t] \in WorkNodes(n, k)
  \/ AtBarrier(t) /\ <<node[t], ret[t]>> \in Exits(n, k)

Position(t, n, k) == NotJoined(t, n, k) \/ Behind(t, n, k) \/ Inside(t, n, k)

(* The callback asked to stop before this segment, or in it.               *)
AbortKnown(n, k) ==
  abort = -1 \/ (k = "node" /\ abort = n) \/ abort - 1 \in WorkNodes(n, k)

---------------------------------------------------------------------------
(* What is computed.                                                       *)

Complete(m)  == \A p \in Parts(graph, m) : computed[m][p] = 1
Untouched(m) == \A p \in Parts(graph, m) : computed[m][p] = 0

(* Thread t has computed its share of node m in this segment.              *)
Done(t, m) ==
  \/ node[t] = m /\ (pc[t] = "after" \/ (AtBarrier(t) /\ ret[t] = "node"))
  \/ m = Length /\ node[t] = m + 1 /\ (pc[t] = "node" \/ (AtBarrier(t) /\ ret[t] = "end"))

NodeParts(n) ==
  \A m \in n .. Length : \A p \in Parts(graph, m) :
     computed[m][p] = IF Nodes[m] = Shared /\ Done(p, m) THEN 1 ELSE 0

(* The buffer and the counter that are ready when the barrier of a matrix  *)
(* multiplication opens.                                                   *)
Filled ==
  \A t \in Team : AtBarrier(t) /\ ret[t] = "chunk" =>
     /\ wdata[t] = [graph |-> graph, node |-> node[t]] /\ mine[t] = t
     /\ t = 0 => current_chunk = Active

(* Chunks are handed out in order, each to one thread, and computed except *)
(* for those that a thread has in hand.                                    *)
Holds(t) == pc[t] = "chunk" \/ Late(t)

ChunkParts(n) ==
  /\ Nodes[n] > 0 /\ current_chunk >= Active
  /\ \A t \in Team : IF Holds(t) THEN mine[t] < current_chunk ELSE current_chunk >= Nodes[n]
  /\ \A t, u \in Team : Holds(t) /\ Holds(u) /\ mine[t] = mine[u] => t = u
  /\ \A p \in 0 .. Nodes[n] - 1 :
       computed[n][p] = IF p >= current_chunk \/ (\E t \in Team : Holds(t) /\ mine[t] = p) THEN 0 ELSE 1
  /\ \A t \in Team : wdata[t] = [graph |-> graph, node |-> n]
  /\ \A m \in n + 1 .. Length : Untouched(m)

---------------------------------------------------------------------------
(* The barrier.                                                            *)

Waiters == {t \in Team : Waits(t)}

(* One thread opens the barrier, when all others wait for it.              *)
BarrierOK ==
  /\ \A t \in Team : pc[t] \in {"last", "open"} => \A u \in Team \ {t} : Waits(u)
  /\ \A t \in Team : pc[t] \in {"arrive", "last", "open"} => passed[t] = n_barrier_passed
  /\ n_barrier = IF \E t \in Team : pc[t] = "open" THEN 0
                 ELSE IF \E t \in Team : pc[t] = "last" THEN Active
                 ELSE Cardinality(Waiters)

---------------------------------------------------------------------------
(* A thread that is not between two graphs knows of the graph.             *)
Joined(t) == t # 0 => last_graph[t] = n_graph

During(n, k) ==
  /\ graph \in 1 .. Len(Graphs) /\ Active = ThreadsOf(graph)
  /\ n \in 1 .. Length + 1 /\ k \in {"node", "chunk"} /\ (k = "chunk" => n <= Length)
  /\ \A t \in Team : Position(t, n, k)
  /\ \A t \in Team : (NotJoined(t, n, k) /\ pc[t] # "start") \/ Joined(t)
  /\ \A w \in Threads \ Team : Out(w) /\ ~ pending[w]
  /\ AbortKnown(n, k)
  /\ BarrierOK
  /\ \A m \in 1 .. n - 1 : Complete(m)
  /\ IF k = "node" THEN NodeParts(n) /\ Filled ELSE ChunkParts(n)

(* The graph is computed, up to its end or to an abort.                    *)
Finished ==
  \E n \in 0 .. Length :
     /\ n = Length \/ ec = "aborted"
     /\ \A m \in 1 .. Length : IF m <= n THEN Complete(m) ELSE Untouched(m)

Between ==
  /\ n_barrier = 0
  /\ pc[0] \in MainPlaces \/ (Late(0) /\ ret[0] = "end")
  /\ \A w \in Workers : Out(w) /\ ~ pending[w] /\ (w \in Team => Joined(w))
  /\ pc[0] \in {"return", "spin"} => graph \in 1 .. Len(Graphs) /\ Finished
  /\ pc[0] = "kickoff" =>
       graph \in 1 .. Len(Graphs) /\ abort = -1 /\ computed = NotComputed(graph)

Typed ==
  /\ TypeOK
  /\ graph > 0 => DOMAIN computed = 1 .. Length
  /\ \A t \in Threads : pending[t] => t # 0 /\ pc[t] = "work" /\ t < Active /\ last_graph[t] = n_graph
  /\ abort # -1 => ec = "aborted"
  /\ \A t \in Threads : pc[t] \in {"arrive", "last", "open", "spin"} => passed[t] <= n_barrier_passed
  /\ pc[0] \notin OutPlaces /\ \A w \in Workers : pc[w] \notin MainPlaces

PoolInv == Typed /\ (Between \/ \E n \in Nat, k \in {"node", "chunk"} : During(n, k))
---------------------------------------------------------------------------
(* Typed is kept by every step.  That the counter of the barrier is        *)
(* bounded, and that no thread has work when a graph starts, comes from    *)
(* the rest of the invariant.                                              *)

LEMMA GraphFacts ==
  ASSUME NEW g \in 1 .. Len(Graphs)
  PROVE  /\ Graphs[g].nodes \in Seq(Nat \cup {Shared})
         /\ NNodes(g) \in Nat /\ Len(Graphs[g].nodes) = NNodes(g)
         /\ \A m \in 1 .. NNodes(g) : Graphs[g].nodes[m] \in Nat \cup {Shared}
         /\ ThreadsOf(g) \in 1 .. Pool
<1> DEFINE G == [threads : Nat \ {0}, nodes : Seq(Nat \cup {Shared})]
<1>1. Graphs[g] \in G
  <2>1. Graphs \in Seq(G)
    BY PoolAssumption
  <2> HIDE DEF G
  <2> QED  BY <2>1
<1>2. Graphs[g].threads \in Nat \ {0} /\ Graphs[g].nodes \in Seq(Nat \cup {Shared})
  BY <1>1
<1>3. ThreadsOf(g) \in 1 .. Pool
  BY <1>2, PoolAssumption DEF ThreadsOf, Min2
<1> QED  BY <1>2, <1>3 DEF NNodes

LEMMA ThreadFacts == 0 \in Threads /\ Threads = Workers \cup {0} /\ 0 \notin Workers
BY PoolAssumption DEF Threads, Workers

(* The steps of a worker that is outside of a graph.                       *)
LEMMA WorkerTyped ==
  ASSUME Typed, NEW t \in Threads, WorkerStep(t)
  PROVE  Typed'
<1> USE DEF Goes
<1>1. t # 0 /\ t \in Workers /\ pc[t] \in OutPlaces
  BY ThreadFacts DEF Typed, WorkerStep, Loop, PauseWait, StopTest, Poll, CheckForWork, Work, OutPlaces
<1>2. \E x \in OutPlaces \cup {"start"} : pc' = [pc EXCEPT ![t] = x]
  BY DEF WorkerStep, Loop, PauseWait, StopTest, Poll, CheckForWork, Work, OutPlaces
<1>3. UNCHANGED <<pool, sync, work, ctl>>
  BY DEF WorkerStep, Loop, PauseWait, StopTest, Poll, CheckForWork, Work
<1>10. /\ pending \in [Threads -> BOOLEAN] /\ pc \in [Threads -> UNION {{pc[u]} : u \in Threads}]
       /\ n_graph \in [count : 0 .. MaxCount - 1, threads : 0 .. Pool]
       /\ last_graph \in [Threads -> [count : 0 .. MaxCount - 1, threads : 0 .. Pool]]
       /\ (t < Active) \in BOOLEAN
  BY DEF Typed, TypeOK
<1>4. /\ \A u \in Threads \ {t} : pending'[u] = pending[u] /\ last_graph'[u] = last_graph[u]
      /\ pending'[t] => pc'[t] = "work" /\ t < Active /\ last_graph'[t] = n_graph
      /\ pending' \in [Threads -> BOOLEAN]
      /\ last_graph' \in [Threads -> [count : 0 .. MaxCount - 1, threads : 0 .. Pool]]
  <2>1. CASE Loop(t) \/ PauseWait(t) \/ StopTest(t)
    BY <2>1 DEF Loop, PauseWait, StopTest, ready, Typed, TypeOK
  <2>2. CASE Poll(t)
    <3>1. CASE NewGraph(t)
      BY <1>10, <2>2, <3>1 DEF Poll, TestReady
    <3>2. CASE ~ NewGraph(t)
      BY <2>2, <3>2 DEF Poll, TestReady, ready, Typed, TypeOK
    <3> QED  BY <3>1, <3>2
  <2>3. CASE CheckForWork(t)
    <3>1. CASE NewGraph(t)
      <4>1. IsReady(t)
        BY <3>1 DEF NewGraph, IsReady
      <4> QED  BY <1>10, <2>3, <3>1, <4>1 DEF CheckForWork, TestReady
    <3>2. CASE ~ NewGraph(t)
      BY <2>3, <3>2 DEF CheckForWork, TestReady, ready, Typed, TypeOK
    <3> QED  BY <3>1, <3>2
  <2>4. CASE Work(t)
    BY <2>4 DEF Work, Typed, TypeOK
  <2> QED  BY <2>1, <2>2, <2>3, <2>4 DEF WorkerStep
<1>5. TypeOK'
  <2>1. pc' \in [Threads -> Computing \cup {"spin"} \cup MainPlaces \cup OutPlaces]
    BY <1>2 DEF Typed, TypeOK, OutPlaces, MainPlaces, Computing
  <2>2. UNCHANGED <<graph, n_graph, n_barrier, n_barrier_passed, current_chunk, mine, stop, pause,
                    abort, ec, node, passed, ret, wdata, computed>>
    BY <1>3 DEF pool, sync, work, ctl
  <2>3. \A m : Parts(graph, m)' = Parts(graph, m)
    BY <2>2 DEF Parts, ThreadsOf
  <2> QED  BY <1>4, <2>1, <2>2, <2>3 DEF Typed, TypeOK, NNodes, OutPlaces, MainPlaces
<1>6. (graph > 0 => DOMAIN computed = 1 .. Length)' /\ (abort # -1 => ec = "aborted")'
  BY <1>3 DEF Typed, pool, work, ctl, Length, Nodes
<1>7. Active' = Active /\ n_graph' = n_graph /\ passed' = passed /\ n_barrier_passed' = n_barrier_passed
  BY <1>3 DEF pool, sync, Active
<1>8. \A u \in Threads \ {t} : pc'[u] = pc[u]
  BY <1>2 DEF Typed, TypeOK
<1>9. pc'[t] \in OutPlaces \cup {"start"}
  BY <1>2 DEF Typed, TypeOK
<1> QED  BY <1>1, <1>4, <1>5, <1>6, <1>7, <1>8, <1>9, ThreadFacts DEF Typed, OutPlaces, MainPlaces

(* The steps of a thread in a graph.                                       *)
LEMMA ComputeMoves ==
  ASSUME Typed, NEW t \in Threads, ComputeStep(t)
  PROVE  /\ pc[t] \in Computing \cup {"spin"}
         /\ \E x \in Computing \cup {"spin"} \cup (IF t = 0 THEN {"return"} ELSE {"loop"}) :
              pc' = [pc EXCEPT ![t] = x]
         /\ \E x \in Nat : node' = [node EXCEPT ![t] = x]
         /\ \E x \in {"node", "chunk", "end"} : ret' = [ret EXCEPT ![t] = x]
         /\ \E x \in Nat : passed' = [passed EXCEPT ![t] = x]
         /\ pc'[t] \in {"arrive", "last", "open", "spin"} => passed'[t] <= n_barrier_passed'
         /\ n_barrier_passed' \in Nat /\ n_barrier_passed' >= n_barrier_passed
         /\ UNCHANGED <<pool, ready>>
<1> USE DEF Goes
<1>1. /\ pc \in [Threads -> Computing \cup {"spin"} \cup MainPlaces \cup OutPlaces]
      /\ node \in [Threads -> Nat] /\ passed \in [Threads -> Nat]
      /\ ret \in [Threads -> {"node", "chunk", "end"}]
      /\ n_barrier_passed \in Nat
      /\ \A u \in Threads : pc[u] \in {"arrive", "last", "open", "spin"} => passed[u] <= n_barrier_passed
  BY DEF Typed, TypeOK, MainPlaces, OutPlaces
<1>2. /\ pc = [pc EXCEPT ![t] = pc[t]] /\ node = [node EXCEPT ![t] = node[t]]
      /\ ret = [ret EXCEPT ![t] = ret[t]] /\ passed = [passed EXCEPT ![t] = passed[t]]
  BY <1>1
<1>3. node[t] + 1 \in Nat /\ node[t] \in Nat /\ passed[t] \in Nat /\ ret[t] \in {"node", "chunk", "end"}
  BY <1>1
<1>4. CASE ComputeStart(t) \/ LoopEnds(t) \/ SkipEmpty(t) \/ ComputeShare(t)
  BY <1>1, <1>2, <1>3, <1>4 DEF ComputeStart, LoopEnds, SkipEmpty, ComputeShare, AtNode, Computing, sync, ctl, pool, ready
<1>5. CASE FillBuffer(t) \/ ComputeChunk(t) \/ NoMoreChunks(t) \/ AfterNode(t)
  BY <1>1, <1>2, <1>3, <1>5 DEF FillBuffer, ComputeChunk, NoMoreChunks, AfterNode, AtNode, Computing, sync, ctl, pool, ready
<1>6. CASE BarrierArrive(t) \/ BarrierReset(t)
  BY <1>1, <1>2, <1>3, <1>6 DEF BarrierArrive, BarrierReset, Computing, sync, ctl, pool, ready
<1>7. CASE BarrierEnter(t) \/ BarrierOpen(t) \/ BarrierSpin(t)
  BY <1>1, <1>2, <1>3, <1>7 DEF BarrierEnter, BarrierOpen, BarrierSpin, Leave, Computing, sync, ctl, pool, ready
<1> QED  BY <1>4, <1>5, <1>6, <1>7 DEF ComputeStep

LEMMA CountedUp ==
  ASSUME DOMAIN computed = 1 .. Length,
         \A n \in 1 .. Length : computed[n] \in [Parts(graph, n) -> Nat],
         NEW m, NEW p,
         computed' = [computed EXCEPT ![m] = [computed[m] EXCEPT ![p] = computed[m][p] + 1]],
         NEW n \in 1 .. Length
  PROVE  computed'[n] \in [Parts(graph, n) -> Nat]
<1>1. CASE n # m
  BY <1>1
<1>2. CASE n = m
  <2> DEFINE P == Parts(graph, n)
             f == computed[n]
  <2>1. f \in [P -> Nat] /\ computed'[n] = [f EXCEPT ![p] = f[p] + 1]
    BY <1>2
  <2>2. [f EXCEPT ![p] = f[p] + 1] \in [P -> Nat]
    <3> HIDE DEF P, f
    <3>1. CASE p \in P
      <4>1. f[p] + 1 \in Nat
        BY <2>1, <3>1
      <4> QED  BY <2>1, <3>1, <4>1
    <3>2. CASE p \notin P
      <4>1. [f EXCEPT ![p] = f[p] + 1] = f
        BY <2>1, <3>2
      <4> QED  BY <2>1, <4>1
    <3> QED  BY <3>1, <3>2
  <2> QED  BY <2>1, <2>2
<1> QED  BY <1>1, <1>2

(* What a step in a graph writes, the barrier's counter apart.             *)
LEMMA ComputeWrites ==
  ASSUME Typed, NEW t \in Threads, ComputeStep(t), DOMAIN computed = 1 .. Length,
         \A n \in 1 .. Length : computed[n] \in [Parts(graph, n) -> Nat]
  PROVE  /\ current_chunk' \in Nat /\ mine' \in [Threads -> Nat]
         /\ abort' \in Int /\ ec' \in {"success", "aborted"} /\ (abort' # -1 => ec' = "aborted")
         /\ wdata' \in [Threads -> [graph : 0 .. Len(Graphs), node : Nat]]
         /\ DOMAIN computed' = 1 .. Length
         /\ \A n \in 1 .. Length : computed'[n] \in [Parts(graph, n) -> Nat]
<1> USE DEF Goes
<1>1. /\ current_chunk \in Nat /\ mine \in [Threads -> Nat] /\ abort \in Int /\ node[t] \in Nat
      /\ ec \in {"success", "aborted"} /\ (abort # -1 => ec = "aborted")
      /\ wdata \in [Threads -> [graph : 0 .. Len(Graphs), node : Nat]]
      /\ t \in Nat /\ Active \in Nat /\ graph \in 0 .. Len(Graphs)
  BY DEF Typed, TypeOK, Active, Threads
<1>2. CASE UNCHANGED <<work, abort, ec>>
  BY <1>1, <1>2 DEF work
<1>3. CASE LoopEnds(t) \/ NoMoreChunks(t) \/ BarrierArrive(t) \/ BarrierReset(t)
  <2>1. UNCHANGED <<work, abort, ec>>
    BY <1>3 DEF LoopEnds, NoMoreChunks, BarrierArrive, BarrierReset, ctl
  <2> QED  BY <1>2, <2>1
<1>4. CASE ComputeShare(t)
  <2>1. UNCHANGED <<current_chunk, mine, wdata, abort, ec>>
    BY <1>4 DEF ComputeShare, ctl
  <2>2. computed' = [computed EXCEPT ![node[t]] = [computed[node[t]] EXCEPT ![t] = computed[node[t]][t] + 1]]
    BY <1>4 DEF ComputeShare
  <2>3. \A n \in 1 .. Length : computed'[n] \in [Parts(graph, n) -> Nat]
    BY <2>2, CountedUp
  <2> QED  BY <1>1, <2>1, <2>2, <2>3
<1>5. CASE FillBuffer(t)
  <2>1. UNCHANGED <<computed, abort, ec>> /\ current_chunk' \in Nat
    BY <1>1, <1>5 DEF FillBuffer, ctl
  <2>2. wdata' \in [Threads -> [graph : 0 .. Len(Graphs), node : Nat]] /\ mine' \in [Threads -> Nat]
    BY <1>1, <1>5 DEF FillBuffer
  <2> QED  BY <1>1, <2>1, <2>2
<1>6. CASE ComputeChunk(t)
  <2>1. UNCHANGED <<wdata, abort, ec>> /\ current_chunk' \in Nat
    BY <1>1, <1>6 DEF ComputeChunk, ctl
  <2>2. mine' \in [Threads -> Nat]
    BY <1>1, <1>6 DEF ComputeChunk
  <2>3. computed' = [computed EXCEPT ![node[t]] =
                       [computed[node[t]] EXCEPT ![mine[t]] = computed[node[t]][mine[t]] + 1]]
    BY <1>6 DEF ComputeChunk
  <2>4. \A n \in 1 .. Length : computed'[n] \in [Parts(graph, n) -> Nat]
    BY <2>3, CountedUp
  <2> QED  BY <1>1, <2>1, <2>2, <2>3, <2>4
<1>7. CASE AfterNode(t)
  BY <1>1, <1>7 DEF AfterNode, work
<1>8. CASE ComputeStart(t) \/ SkipEmpty(t) \/ BarrierEnter(t) \/ BarrierOpen(t) \/ BarrierSpin(t)
  BY <1>2, <1>8 DEF ComputeStart, SkipEmpty, BarrierEnter, BarrierOpen, BarrierSpin
<1> QED  BY <1>3, <1>4, <1>5, <1>6, <1>7, <1>8 DEF ComputeStep

LEMMA ComputeTyped ==
  ASSUME Typed, NEW t \in Threads, ComputeStep(t), graph > 0 \/ BarrierSpin(t), n_barrier' \in 0 .. Pool
  PROVE  Typed'
<1>1. UNCHANGED <<graph, n_graph, stop, pause, last_graph, pending>>
  BY ComputeMoves DEF pool, ready
<1>2. Nodes' = Nodes /\ Length' = Length /\ Active' = Active /\ \A m : Parts(graph, m)' = Parts(graph, m)
  BY <1>1 DEF Nodes, Length, Active, Parts, ThreadsOf
<1>3. graph > 0 => DOMAIN computed = 1 .. Length /\ \A n \in 1 .. Length : computed[n] \in [Parts(graph, n) -> Nat]
  BY DEF Typed, TypeOK, NNodes, Length, Nodes
<1>4. pc \in [Threads -> Computing \cup {"spin"} \cup MainPlaces \cup OutPlaces]
  BY DEF Typed, TypeOK, MainPlaces, OutPlaces
<1>5. pc' \in [Threads -> Computing \cup {"spin"} \cup MainPlaces \cup OutPlaces]
  BY <1>4, ComputeMoves DEF MainPlaces, OutPlaces
<1>6. /\ node' \in [Threads -> Nat] /\ passed' \in [Threads -> Nat]
      /\ ret' \in [Threads -> {"node", "chunk", "end"}] /\ n_barrier_passed' \in Nat
  <2>1. /\ node \in [Threads -> Nat] /\ passed \in [Threads -> Nat]
        /\ ret \in [Threads -> {"node", "chunk", "end"}]
    BY DEF Typed, TypeOK
  <2>2. /\ \E x \in Nat : node' = [node EXCEPT ![t] = x]
        /\ \E x \in {"node", "chunk", "end"} : ret' = [ret EXCEPT ![t] = x]
        /\ \E x \in Nat : passed' = [passed EXCEPT ![t] = x]
        /\ n_barrier_passed' \in Nat
    BY ComputeMoves
  <2> QED  BY <2>1, <2>2
<1>7. /\ current_chunk' \in Nat /\ mine' \in [Threads -> Nat]
      /\ abort' \in Int /\ ec' \in {"success", "aborted"} /\ (abort' # -1 => ec' = "aborted")
      /\ wdata' \in [Threads -> [graph : 0 .. Len(Graphs), node : Nat]]
      /\ graph > 0 => /\ DOMAIN computed' = 1 .. Length
                      /\ \A n \in 1 .. Length : computed'[n] \in [Parts(graph, n) -> Nat]
  <2>1. CASE graph > 0
    BY <1>3, <2>1, ComputeWrites
  <2>2. CASE BarrierSpin(t)
    <3>1. UNCHANGED <<current_chunk, mine, wdata, computed, abort, ec>>
      BY <2>2 DEF BarrierSpin, work
    <3> QED  BY <1>3, <3>1 DEF Typed, TypeOK
  <2> QED  BY <2>1, <2>2
<1>8. TypeOK'
  BY <1>1, <1>2, <1>5, <1>6, <1>7 DEF Typed, TypeOK, MainPlaces, OutPlaces, NNodes, Length, Nodes
<1>9. /\ \A u \in Threads \ {t} : pc'[u] = pc[u] /\ passed'[u] = passed[u]
      /\ n_barrier_passed' >= n_barrier_passed /\ n_barrier_passed \in Nat /\ passed \in [Threads -> Nat]
      /\ pc'[t] \in {"arrive", "last", "open", "spin"} => passed'[t] <= n_barrier_passed'
  <2>1. passed \in [Threads -> Nat] /\ n_barrier_passed \in Nat
    BY DEF Typed, TypeOK
  <2> QED  BY <1>4, <2>1, ComputeMoves
<1>10. \A u \in Threads : pc'[u] \in {"arrive", "last", "open", "spin"} => passed'[u] <= n_barrier_passed'
  <2>1. \A u \in Threads : pc[u] \in {"arrive", "last", "open", "spin"} => passed[u] <= n_barrier_passed
    BY DEF Typed
  <2>2. TAKE u \in Threads
  <2>3. passed[u] \in Nat
    BY <1>9
  <2> QED  BY <1>6, <1>9, <2>1, <2>3
<1>11. \A u \in Threads : pending'[u] =>
         u # 0 /\ pc'[u] = "work" /\ u < Active' /\ last_graph'[u] = n_graph'
  BY <1>1, <1>2, <1>9, ComputeMoves DEF Typed, Computing
<1>12. pc'[t] \in Computing \cup {"spin"} \cup (IF t = 0 THEN {"return"} ELSE {"loop"})
  BY <1>4, ComputeMoves
<1>13. pc'[0] \notin OutPlaces /\ \A w \in Workers : pc'[w] \notin MainPlaces
  BY <1>9, <1>12, ThreadFacts DEF Typed, OutPlaces, MainPlaces, Computing
<1> QED  BY <1>1, <1>2, <1>7, <1>8, <1>10, <1>11, <1>13 DEF Typed

(* The segments change with the graph and with an abort at their start.    *)
SameSegment(n, k) == graph' = graph /\ (k = "node" => (abort' = n <=> abort = n))

LEMMA SegmentKept ==
  ASSUME NEW n, NEW k \in {"node", "chunk"}, SameSegment(n, k)
  PROVE  /\ Nodes' = Nodes /\ Length' = Length
         /\ k = "node" => Ahead(n)' = Ahead(n)
         /\ WorkNodes(n, k)' = WorkNodes(n, k) /\ Exits(n, k)' = Exits(n, k)
<1>1. Nodes' = Nodes /\ Length' = Length
  BY DEF SameSegment, Nodes, Length
<1>2. k = "node" => Ahead(n)' = Ahead(n)
  BY <1>1 DEF SameSegment, Ahead
<1>3. WorkNodes(n, k)' = WorkNodes(n, k) /\ FillNodes(n, k)' = FillNodes(n, k)
  <2>1. CASE k = "chunk"
    <3>1. WorkNodes(n, k) = {n} /\ FillNodes(n, k) = {}
      BY <2>1 DEF WorkNodes, FillNodes
    <3>2. WorkNodes(n, k)' = {n} /\ FillNodes(n, k)' = {}
      BY <2>1 DEF WorkNodes, FillNodes
    <3> QED  BY <3>1, <3>2
  <2>3. CASE k = "node"
    BY <1>1, <1>2, <2>3 DEF WorkNodes, FillNodes, SameSegment
  <2> QED  BY <2>1, <2>3
<1>4. LastNodes(n, k)' = LastNodes(n, k)
  <2>1. CASE k = "node"
    BY <1>1, <1>2, <1>3, <2>1 DEF LastNodes, SameSegment
  <2>2. CASE k # "node"
    BY <1>1, <1>3, <2>2 DEF LastNodes
  <2> QED  BY <2>1, <2>2
<1> QED  BY <1>1, <1>2, <1>3, <1>4 DEF Exits

(* Two threads at the barrier that ends a segment are at the same one.     *)
LEMMA OneExit ==
  ASSUME NEW n \in Nat, NEW k \in {"node", "chunk"}, k = "chunk" => n <= Length, Length \in Nat,
         NEW e \in Exits(n, k), NEW f \in Exits(n, k)
  PROVE  e = f
<1>1. \A i, j \in WorkNodes(n, k) \cup FillNodes(n, k) : i = j
  BY DEF WorkNodes, FillNodes, Ahead, Shared
<1>2. WorkNodes(n, k) \cap FillNodes(n, k) = {}
  BY DEF WorkNodes, FillNodes, Shared
<1>3. \A i, j \in LastNodes(n, k) : i = j
  BY DEF LastNodes, WorkNodes, Ahead
<1>4. \A i \in WorkNodes(n, k) \ {Length}, j \in LastNodes(n, k) : FALSE
  BY DEF LastNodes, WorkNodes, Ahead, Shared
<1>5. \A i \in FillNodes(n, k), j \in LastNodes(n, k) : FALSE
  BY DEF LastNodes, FillNodes, WorkNodes, Ahead, Shared
<1>6. ASSUME NEW i \in WorkNodes(n, k) \ {Length}, NEW j \in FillNodes(n, k)  PROVE FALSE
  BY <1>1, <1>2
<1> QED  BY <1>1, <1>3, <1>4, <1>5, <1>6 DEF Exits

(* A step that moves no thread but t.                                      *)
OthersStay(t) ==
  /\ UNCHANGED <<n_graph, n_barrier_passed>>
  /\ \A u \in Threads \ {t} :
       /\ pc'[u] = pc[u] /\ node'[u] = node[u] /\ ret'[u] = ret[u] /\ passed'[u] = passed[u]
       /\ last_graph'[u] = last_graph[u] /\ pending'[u] = pending[u]

LEMMA OthersKeep ==
  ASSUME NEW n, NEW k \in {"node", "chunk"}, SameSegment(n, k), NEW t, OthersStay(t), NEW u \in Threads \ {t}
  PROVE  /\ Waits(u)' <=> Waits(u)
         /\ Late(u)' <=> Late(u)
         /\ AtBarrier(u)' <=> AtBarrier(u)
         /\ Out(u)' <=> Out(u)
         /\ Joined(u)' <=> Joined(u)
         /\ NotJoined(u, n, k)' <=> NotJoined(u, n, k)
         /\ Position(u, n, k)' <=> Position(u, n, k)
         /\ \A m : Done(u, m)' <=> Done(u, m)
<1>1. /\ pc'[u] = pc[u] /\ node'[u] = node[u] /\ ret'[u] = ret[u] /\ passed'[u] = passed[u]
      /\ last_graph'[u] = last_graph[u] /\ n_graph' = n_graph /\ n_barrier_passed' = n_barrier_passed
  BY DEF OthersStay
<1>2. /\ Waits(u)' <=> Waits(u)
      /\ Late(u)' <=> Late(u)
  BY <1>1 DEF Waits, Late
<1>3. /\ AtBarrier(u)' <=> AtBarrier(u)
      /\ Out(u)' <=> Out(u)
  BY <1>1, <1>2 DEF AtBarrier, Out
<1>4. /\ Joined(u)' <=> Joined(u)
      /\ NotJoined(u, n, k)' <=> NotJoined(u, n, k)
  BY <1>1, <1>3 DEF Joined, NotJoined
<1>5. Behind(u, n, k)' <=> Behind(u, n, k)
  BY <1>1, <1>2 DEF Behind
<1>6. Inside(u, n, k)' <=> Inside(u, n, k)
  BY <1>1, <1>3, SegmentKept DEF Inside
<1>7. \A m : Done(u, m)' <=> Done(u, m)
  BY <1>1, <1>3, SegmentKept DEF Done
<1> QED  BY <1>2, <1>3, <1>4, <1>5, <1>6, <1>7 DEF Position
---------------------------------------------------------------------------
(* Steps inside of a segment.                                              *)

LEMMA TeamFacts ==
  ASSUME Typed, NEW n \in Nat, NEW k \in {"node", "chunk"}, During(n, k)
  PROVE  /\ Active \in 1 .. Pool /\ Team \subseteq Threads /\ 0 \in Team /\ IsFiniteSet(Team)
         /\ Cardinality(Team) = Active
         /\ Length \in Nat /\ \A m \in 1 .. Length : Nodes[m] \in Nat \cup {Shared}
         /\ \A m \in 1 .. Length : Parts(graph, m) = IF Nodes[m] = Shared THEN Team ELSE 0 .. Nodes[m] - 1
         /\ DOMAIN computed = 1 .. Length
         /\ \A m \in 1 .. Length : computed[m] \in [Parts(graph, m) -> Nat]
<1>1. graph \in 1 .. Len(Graphs) /\ Active = ThreadsOf(graph)
  BY DEF During
<1>2. /\ Length \in Nat /\ \A m \in 1 .. Length : Nodes[m] \in Nat \cup {Shared}
      /\ Active \in 1 .. Pool
  BY <1>1, GraphFacts DEF NNodes, Length, Nodes
<1>3. Team \subseteq Threads /\ 0 \in Team /\ IsFiniteSet(Team) /\ Cardinality(Team) = Active
  BY <1>2, PoolAssumption, FS_Interval DEF Team, Threads
<1>4. DOMAIN computed = 1 .. Length /\ \A m \in 1 .. Length : computed[m] \in [Parts(graph, m) -> Nat]
  BY <1>1 DEF Typed, TypeOK, NNodes, Length, Nodes
<1>5. \A m \in 1 .. Length : Parts(graph, m) = IF Nodes[m] = Shared THEN Team ELSE 0 .. Nodes[m] - 1
  BY <1>1 DEF Parts, Nodes, Team
<1> QED  BY <1>2, <1>3, <1>4, <1>5

(* A thread that neither waits nor opens the barrier, before and after.    *)
LEMMA BarrierKept ==
  ASSUME BarrierOK, NEW n, NEW k \in {"node", "chunk"}, SameSegment(n, k), Team \subseteq Threads,
         NEW t \in Threads, OthersStay(t), n_barrier' = n_barrier,
         t \in Team => /\ pc[t] \notin {"last", "open"} /\ ~ Waits(t)
                       /\ pc'[t] \notin {"last", "open"} /\ ~ Waits(t)'
                       /\ pc'[t] = "arrive" => passed'[t] = n_barrier_passed
  PROVE  BarrierOK'
<1>1. Team' = Team /\ Active' = Active /\ n_barrier_passed' = n_barrier_passed
  BY DEF Team, Active, OthersStay
<1>2. \A u \in Team : Waits(u)' <=> Waits(u)
  BY OthersKeep
<1>3. Waiters' = Waiters
  BY <1>1, <1>2 DEF Waiters
<1>4. \A u \in Team :
        /\ pc'[u] = "last" <=> pc[u] = "last"
        /\ pc'[u] = "open" <=> pc[u] = "open"
        /\ pc'[u] \in {"arrive", "last", "open"} => passed'[u] = n_barrier_passed
  <2>1. TAKE u \in Team
  <2>2. CASE u = t
    BY <2>2
  <2>3. CASE u # t
    <3>1. pc'[u] = pc[u] /\ passed'[u] = passed[u]
      BY <2>3 DEF OthersStay
    <3> QED  BY <3>1 DEF BarrierOK
  <2> QED  BY <2>2, <2>3
<1>5. ASSUME NEW u \in Team, pc'[u] \in {"last", "open"}, NEW v \in Team \ {u}
      PROVE  Waits(v)'
  <2>1. pc[u] \in {"last", "open"}
    BY <1>4, <1>5
  <2>2. Waits(v)
    BY <2>1 DEF BarrierOK
  <2> QED  BY <1>2, <2>2
<1>6. ASSUME NEW u \in Team, pc'[u] \in {"arrive", "last", "open"}
      PROVE  passed'[u] = n_barrier_passed'
  BY <1>1, <1>4, <1>6
<1>7. (n_barrier = IF \E u \in Team : pc[u] = "open" THEN 0
                   ELSE IF \E u \in Team : pc[u] = "last" THEN Active
                   ELSE Cardinality(Waiters))'
  <2>1. /\ (\E u \in Team : pc'[u] = "open") <=> (\E u \in Team : pc[u] = "open")
        /\ (\E u \in Team : pc'[u] = "last") <=> (\E u \in Team : pc[u] = "last")
    BY <1>4
  <2> QED  BY <1>1, <1>3, <2>1 DEF BarrierOK
<1> QED  BY <1>1, <1>5, <1>6, <1>7 DEF BarrierOK

(* What a step of t in a segment has to establish.                         *)
Placed(t, n, k) ==
  IF t \in Team THEN Position(t, n, k) /\ ((NotJoined(t, n, k) /\ pc[t] # "start") \/ Joined(t))
  ELSE Out(t) /\ ~ pending[t]

Data(n, k) == IF k = "node" THEN NodeParts(n) /\ Filled ELSE ChunkParts(n)

LEMMA DuringKept ==
  ASSUME Typed, NEW n \in Nat, NEW k \in {"node", "chunk"}, During(n, k), SameSegment(n, k),
         NEW t \in Threads, OthersStay(t), Placed(t, n, k)',
         AbortKnown(n, k)', BarrierOK', \A m \in 1 .. n - 1 : Complete(m)', Data(n, k)'
  PROVE  During(n, k)'
<1>1. Team' = Team /\ Active' = Active /\ Length' = Length /\ graph' = graph /\ n_graph' = n_graph
  BY SegmentKept DEF Team, Active, OthersStay, SameSegment
<1>2. ThreadsOf(graph)' = ThreadsOf(graph)
  BY <1>1 DEF ThreadsOf
<1>3. Team \subseteq Threads
  BY TeamFacts
<1>4. \A u \in Team : Position(u, n, k)'
  BY <1>1, <1>3, OthersKeep DEF During, Placed
<1>5. \A u \in Team : (NotJoined(u, n, k)' /\ pc'[u] # "start") \/ Joined(u)'
  <2>1. \A u \in Team \ {t} : pc'[u] = pc[u]
    BY <1>3 DEF OthersStay
  <2> QED  BY <1>1, <1>3, <2>1, OthersKeep DEF During, Placed
<1>6. \A w \in Threads \ Team : Out(w)' /\ ~ pending'[w]
  <2>1. \A w \in Threads \ {t} : pending'[w] = pending[w]
    BY DEF OthersStay
  <2> QED  BY <1>1, <2>1, OthersKeep DEF During, Placed
<1> QED  BY <1>1, <1>2, <1>4, <1>5, <1>6 DEF During, Data

(* The parts of the nodes when nothing is computed.                        *)
LEMMA NodePartsKept ==
  ASSUME NEW n \in Nat, NodeParts(n), SameSegment(n, "node"), NEW t \in Threads, OthersStay(t), n >= 1,
         Team \subseteq Threads,
         \A m \in n .. Length : Parts(graph, m) = IF Nodes[m] = Shared THEN Team ELSE 0 .. Nodes[m] - 1,
         computed' = computed,
         \A m \in n .. Length : Nodes[m] = Shared => (Done(t, m)' <=> Done(t, m))
  PROVE  NodeParts(n)'
<1>1. Nodes' = Nodes /\ Length' = Length /\ \A m : Parts(graph, m)' = Parts(graph, m)
  BY SegmentKept DEF SameSegment, Parts, ThreadsOf
<1>2. SUFFICES ASSUME NEW m \in n .. Length, NEW p \in Parts(graph, m)
               PROVE  computed[m][p] = IF Nodes[m] = Shared /\ Done(p, m)' THEN 1 ELSE 0
  BY <1>1 DEF NodeParts
<1>3. Nodes[m] = Shared => (Done(p, m)' <=> Done(p, m))
  BY OthersKeep
<1> QED  BY <1>3 DEF NodeParts

LEMMA FilledKept ==
  ASSUME Filled, NEW n, SameSegment(n, "node"), NEW t \in Threads, OthersStay(t), Team \subseteq Threads,
         UNCHANGED <<wdata, mine, current_chunk>>,
         AtBarrier(t)' /\ ret'[t] = "chunk" => AtBarrier(t) /\ ret[t] = "chunk" /\ node'[t] = node[t]
  PROVE  Filled'
<1>1. Team' = Team /\ graph' = graph /\ Active' = Active
  BY DEF Team, Active, OthersStay, SameSegment
<1>2. \A u \in Team : AtBarrier(u)' /\ ret'[u] = "chunk" => AtBarrier(u) /\ ret[u] = "chunk" /\ node'[u] = node[u]
  BY OthersKeep DEF OthersStay
<1> QED  BY <1>1, <1>2 DEF Filled

LEMMA ChunkPartsKept ==
  ASSUME NEW n, ChunkParts(n), SameSegment(n, "chunk"), NEW t \in Threads, OthersStay(t), Team \subseteq Threads,
         UNCHANGED <<wdata, mine, current_chunk, computed>>,
         t \in Team => (Holds(t)' <=> Holds(t))
  PROVE  ChunkParts(n)'
<1>1. Nodes' = Nodes /\ Length' = Length /\ Team' = Team /\ graph' = graph /\ Active' = Active
  BY SegmentKept DEF Team, Active, OthersStay, SameSegment
<1>2. \A u \in Team : Holds(u)' <=> Holds(u)
  BY OthersKeep DEF Holds, OthersStay
<1>3. \A m : Untouched(m)' <=> Untouched(m)
  BY <1>1 DEF Untouched, Parts, ThreadsOf
<1> QED  BY <1>1, <1>2, <1>3 DEF ChunkParts

LEMMA InGraph ==
  ASSUME Typed, NEW n \in Nat, NEW k \in {"node", "chunk"}, During(n, k),
         NEW t \in Threads, pc[t] \in Computing
  PROVE  /\ t \in Team /\ Joined(t) /\ ~ Out(t)
         /\ IF pc[t] = "start" THEN n = 1 /\ k = "node" ELSE Inside(t, n, k)
<1>1. ~ Out(t) /\ ~ Late(t)
  BY DEF Out, Late, OutPlaces, Computing
<1>2. t \in Team
  BY <1>1 DEF During
<1>3. Position(t, n, k) /\ ((NotJoined(t, n, k) /\ pc[t] # "start") \/ Joined(t))
  BY <1>2 DEF During
<1> QED  BY <1>1, <1>2, <1>3 DEF Position, NotJoined, Behind, Inside, AtBarrier, Waits

LEMMA SegmentFacts ==
  ASSUME NEW n \in Nat, NEW k \in {"node", "chunk"}, Length \in Nat, k = "chunk" => n <= Length
  PROVE  /\ WorkNodes(n, k) \subseteq n .. Length
         /\ FillNodes(n, k) \subseteq n .. Length
         /\ LastNodes(n, k) \subseteq n .. Length + 1
         /\ Ahead(n) \subseteq n .. Length + 1
         /\ k = "node" => /\ WorkNodes(n, k) \subseteq Ahead(n)
                          /\ \A m \in WorkNodes(n, k) : Nodes[m] = Shared
                          /\ abort = n => WorkNodes(n, k) = {} /\ Ahead(n) \subseteq {n}
                          /\ \A m \in Ahead(n) : \A i \in n .. m - 1 : Nodes[i] = 0
BY DEF WorkNodes, FillNodes, LastNodes, Ahead

LEMMA StepStays ==
  ASSUME Typed, NEW t \in Threads, ComputeStep(t), n_barrier_passed' = n_barrier_passed
  PROVE  OthersStay(t)
<1>1. /\ \A u \in Threads \ {t} : pc'[u] = pc[u]
      /\ \A u \in Threads \ {t} : node'[u] = node[u]
      /\ \A u \in Threads \ {t} : ret'[u] = ret[u]
      /\ \A u \in Threads \ {t} : passed'[u] = passed[u]
  <2>1. /\ \E x : pc' = [pc EXCEPT ![t] = x]
        /\ \E x : node' = [node EXCEPT ![t] = x]
        /\ \E x : ret' = [ret EXCEPT ![t] = x]
        /\ \E x : passed' = [passed EXCEPT ![t] = x]
    BY ComputeMoves
  <2>2. DOMAIN pc = Threads /\ DOMAIN node = Threads /\ DOMAIN ret = Threads /\ DOMAIN passed = Threads
    BY DEF Typed, TypeOK
  <2> QED  BY <2>1, <2>2
<1>2. UNCHANGED <<n_graph, last_graph, pending>>
  BY ComputeMoves DEF pool, ready
<1> QED  BY <1>1, <1>2 DEF OthersStay

(* A step that leaves graph, abort and computed alone.                     *)
LEMMA PastKept ==
  ASSUME NEW n \in Nat, NEW k \in {"node", "chunk"}, During(n, k), UNCHANGED <<graph, abort, computed>>
  PROVE  SameSegment(n, k) /\ AbortKnown(n, k)' /\ \A m \in 1 .. n - 1 : Complete(m)'
<1>1. SameSegment(n, k)
  BY DEF SameSegment
<1>2. AbortKnown(n, k)'
  BY <1>1, SegmentKept DEF During, AbortKnown
<1>3. \A m : Complete(m)' <=> Complete(m)
  BY DEF Complete, Parts, ThreadsOf
<1> QED  BY <1>1, <1>2, <1>3 DEF During

LEMMA StartInside ==
  ASSUME Typed, NEW n \in Nat, NEW k \in {"node", "chunk"}, During(n, k), NEW t \in Threads, ComputeStart(t)
  PROVE  During(n, k)'
<1>1. /\ pc[t] = "start" /\ pc'[t] = "node" /\ node'[t] = 1
      /\ UNCHANGED <<graph, n_graph, abort, computed, n_barrier, n_barrier_passed, last_graph, wdata, mine, current_chunk>>
  BY DEF ComputeStart, Goes, Typed, TypeOK, pool, sync, work, ready
<1>2. OthersStay(t)
  BY <1>1, StepStays DEF ComputeStep
<1>3. t \in Team /\ Joined(t) /\ n = 1 /\ k = "node"
  BY <1>1, InGraph DEF Computing
<1>4. SameSegment(n, k) /\ AbortKnown(n, k)' /\ \A m \in 1 .. n - 1 : Complete(m)'
  BY <1>1, PastKept
<1>5. 1 \in Ahead(n)'
  <2>1. 1 \in Ahead(1)
    BY TeamFacts DEF Ahead
  <2> QED  BY <1>3, <1>4, <2>1, SegmentKept
<1>6. Placed(t, n, k)'
  <2>1. t \in Team' /\ Joined(t)'
    BY <1>1, <1>3 DEF Team, Active, Joined
  <2>2. Inside(t, n, k)'
    BY <1>1, <1>3, <1>5 DEF Inside
  <2> QED  BY <2>1, <2>2 DEF Placed, Position
<1>7. BarrierOK'
  <2>1. ~ Waits(t) /\ ~ Waits(t)'
    BY <1>1 DEF Waits
  <2> QED  BY <1>1, <1>2, <1>4, <2>1, BarrierKept, TeamFacts DEF During
<1>8. NodeParts(n)'
  <2>1. \A m \in n .. Length : ~ Done(t, m) /\ ~ Done(t, m)'
    <3>1. ~ AtBarrier(t) /\ ~ AtBarrier(t)'
      BY <1>1 DEF AtBarrier, Waits
    <3>2. Length' = Length
      BY <1>4, SegmentKept
    <3> QED  BY <1>1, <1>3, <3>1, <3>2 DEF Done
  <2> QED  BY <1>1, <1>2, <1>3, <1>4, <2>1, NodePartsKept, TeamFacts DEF During
<1>9. Filled'
  <2>1. ~ AtBarrier(t)'
    BY <1>1 DEF AtBarrier, Waits
  <2> QED  BY <1>1, <1>2, <1>3, <1>4, <2>1, FilledKept, TeamFacts DEF During
<1> QED  BY <1>2, <1>3, <1>4, <1>6, <1>7, <1>8, <1>9, DuringKept DEF Data

LEMMA LoopEndsInside ==
  ASSUME Typed, NEW n \in Nat, NEW k \in {"node", "chunk"}, During(n, k), NEW t \in Threads, LoopEnds(t)
  PROVE  During(n, k)'
<1>1. /\ pc[t] = "node" /\ pc'[t] = "barrier" /\ ret'[t] = "end" /\ node' = node
      /\ node[t] > Length \/ abort = node[t]
      /\ UNCHANGED <<graph, n_graph, abort, computed, n_barrier, n_barrier_passed, last_graph, wdata, mine, current_chunk>>
  BY DEF LoopEnds, Goes, Typed, TypeOK, pool, sync, work, ready, ctl, Length
<1>2. OthersStay(t)
  BY <1>1, StepStays DEF ComputeStep
<1>3. t \in Team /\ Joined(t) /\ Inside(t, n, k)
  BY <1>1, InGraph DEF Computing
<1>4. SameSegment(n, k) /\ AbortKnown(n, k)' /\ \A m \in 1 .. n - 1 : Complete(m)'
  BY <1>1, PastKept
<1>5. AtBarrier(t)' /\ ~ AtBarrier(t) /\ ~ Waits(t) /\ ~ Waits(t)'
  BY <1>1 DEF AtBarrier, Waits
<1>6. <<node[t], "end">> \in Exits(n, k)
  <2>1. node[t] \in LastNodes(n, k)
    <3>1. CASE Length \in WorkNodes(n, k) /\ node[t] = Length + 1
      BY <3>1, TeamFacts, SegmentFacts DEF LastNodes, During
    <3>2. CASE k = "node" /\ node[t] \in Ahead(n)
      <4>1. Ahead(n) \subseteq n .. Length + 1 /\ n \in Nat /\ Length \in Nat
        BY TeamFacts, SegmentFacts DEF During
      <4>2. CASE node[t] > Length
        BY <3>2, <4>1, <4>2 DEF LastNodes
      <4>3. CASE abort = node[t] /\ abort # n /\ node[t] <= Length
        <5>1. abort - 1 \in WorkNodes(n, k) /\ abort \in Ahead(n) /\ abort \in n .. Length + 1
          BY <3>2, <4>1, <4>3 DEF During, AbortKnown
        <5>2. Nodes[abort - 1] = Shared /\ Nodes[abort - 1] = 0
          BY <3>2, <4>3, <5>1, TeamFacts, SegmentFacts DEF During
        <5> QED  BY <5>2 DEF Shared
      <4> QED  BY <1>1, <3>2, <4>1, <4>2, <4>3 DEF LastNodes
    <3> QED  BY <1>1, <1>3, <3>1, <3>2 DEF Inside, AtBarrier, Waits
  <2> QED  BY <2>1 DEF Exits
<1>7. Placed(t, n, k)'
  <2>1. t \in Team' /\ Joined(t)'
    BY <1>1, <1>3 DEF Team, Active, Joined
  <2>2. Inside(t, n, k)'
    BY <1>1, <1>4, <1>5, <1>6, SegmentKept DEF Inside
  <2> QED  BY <2>1, <2>2 DEF Placed, Position
<1>8. BarrierOK'
  BY <1>1, <1>2, <1>4, <1>5, BarrierKept, TeamFacts DEF During
<1>9. Data(n, k)'
  <2>1. CASE k = "node"
    <3>1. \A m \in n .. Length : Done(t, m)' <=> Done(t, m)
      <4>1. Length' = Length
        BY <1>4, SegmentKept
      <4> QED  BY <1>1, <1>5, <4>1 DEF Done
    <3>2. NodeParts(n)'
      BY <1>1, <1>2, <1>4, <2>1, <3>1, NodePartsKept, TeamFacts DEF During
    <3>3. Filled'
      BY <1>1, <1>2, <1>4, <2>1, FilledKept, TeamFacts DEF During
    <3> QED  BY <2>1, <3>2, <3>3 DEF Data
  <2>2. CASE k = "chunk"
    <3>1. ~ Holds(t)' /\ ~ Holds(t)
      BY <1>1 DEF Holds, Late
    <3> QED  BY <1>1, <1>2, <1>4, <2>2, <3>1, ChunkPartsKept, TeamFacts DEF During, Data
  <2> QED  BY <2>1, <2>2
<1> QED  BY <1>2, <1>4, <1>7, <1>8, <1>9, DuringKept

LEMMA SkipInside ==
  ASSUME Typed, NEW n \in Nat, NEW k \in {"node", "chunk"}, During(n, k), NEW t \in Threads, SkipEmpty(t)
  PROVE  During(n, k)'
<1>1. /\ pc[t] = "node" /\ pc'[t] = "node" /\ node'[t] = node[t] + 1 /\ node[t] \in Nat
      /\ node[t] <= Length /\ abort # node[t] /\ Nodes[node[t]] = 0
      /\ UNCHANGED <<graph, n_graph, abort, computed, n_barrier, n_barrier_passed, last_graph, wdata, mine, current_chunk>>
  BY DEF SkipEmpty, AtNode, Kind, Typed, TypeOK, pool, sync, work, ready, Length
<1>2. OthersStay(t)
  BY <1>1, StepStays DEF ComputeStep
<1>3. t \in Team /\ Joined(t) /\ Inside(t, n, k)
  BY <1>1, InGraph DEF Computing
<1>4. SameSegment(n, k) /\ AbortKnown(n, k)' /\ \A m \in 1 .. n - 1 : Complete(m)'
  BY <1>1, PastKept
<1>5. ~ AtBarrier(t)' /\ ~ AtBarrier(t) /\ ~ Waits(t) /\ ~ Waits(t)'
  BY <1>1 DEF AtBarrier, Waits
<1>6. k = "node" /\ node[t] \in Ahead(n)
  BY <1>1, <1>3, <1>5, TeamFacts DEF Inside
<1>7. node[t] + 1 \in Ahead(n)
  <2>1. node[t] \in n .. Length /\ n \in Nat /\ Length \in Nat
    BY <1>1, <1>6, TeamFacts, SegmentFacts DEF During
  <2>2. abort # n
    BY <1>1, <1>6 DEF Ahead
  <2>3. \A i \in n .. (node[t] + 1) - 1 : Nodes[i] = 0
    BY <1>1, <1>6, <2>1, <2>2 DEF Ahead
  <2> QED  BY <2>1, <2>2, <2>3 DEF Ahead
<1>8. Placed(t, n, k)'
  <2>1. t \in Team' /\ Joined(t)'
    BY <1>1, <1>3 DEF Team, Active, Joined
  <2>2. Inside(t, n, k)'
    BY <1>1, <1>4, <1>6, <1>7, SegmentKept DEF Inside
  <2> QED  BY <2>1, <2>2 DEF Placed, Position
<1>9. BarrierOK'
  BY <1>1, <1>2, <1>4, <1>5, BarrierKept, TeamFacts DEF During
<1>10. NodeParts(n)'
  <2>1. Length' = Length /\ Length \in Nat
    BY <1>4, SegmentKept, TeamFacts
  <2>2. \A m \in n .. Length : Nodes[m] = Shared => ~ Done(t, m)' /\ ~ Done(t, m)
    BY <1>1, <1>5, <2>1 DEF Done, Shared
  <2> QED  BY <1>1, <1>2, <1>4, <1>6, <2>2, NodePartsKept, TeamFacts DEF During
<1>11. Filled'
  BY <1>1, <1>2, <1>4, <1>5, <1>6, FilledKept, TeamFacts DEF During
<1> QED  BY <1>2, <1>4, <1>6, <1>8, <1>9, <1>10, <1>11, DuringKept DEF Data

LEMMA ShareInside ==
  ASSUME Typed, NEW n \in Nat, NEW k \in {"node", "chunk"}, During(n, k), NEW t \in Threads, ComputeShare(t)
  PROVE  /\ During(n, k)'
         /\ node[t] \in n .. Length /\ t \in Parts(graph, node[t]) /\ computed[node[t]][t] = 0
         /\ \A m \in 1 .. node[t] - 1 : Complete(m)
<1>1. /\ pc[t] = "node" /\ pc'[t] = "after" /\ node' = node
      /\ node[t] <= Length /\ abort # node[t] /\ Nodes[node[t]] = Shared
      /\ computed' = [computed EXCEPT ![node[t]][t] = computed[node[t]][t] + 1]
      /\ UNCHANGED <<graph, n_graph, abort, n_barrier, n_barrier_passed, last_graph, wdata, mine, current_chunk>>
  BY DEF ComputeShare, Goes, AtNode, Kind, Typed, TypeOK, pool, sync, ctl, ready, Length
<1>2. OthersStay(t)
  BY <1>1, StepStays DEF ComputeStep
<1>3. t \in Team /\ Joined(t) /\ Inside(t, n, k)
  BY <1>1, InGraph DEF Computing
<1>4. SameSegment(n, k)
  BY <1>1 DEF SameSegment
<1>5. ~ AtBarrier(t)' /\ ~ AtBarrier(t) /\ ~ Waits(t) /\ ~ Waits(t)'
  BY <1>1 DEF AtBarrier, Waits
<1>6. k = "node" /\ node[t] \in Ahead(n) /\ abort # n
  BY <1>1, <1>3, <1>5, TeamFacts DEF Inside, Ahead
<1>7. /\ n \in 1 .. Length + 1 /\ Length \in Nat /\ node[t] \in n .. Length /\ node[t] \in 1 .. Length
      /\ Parts(graph, node[t]) = Team /\ computed[node[t]] \in [Team -> Nat]
      /\ DOMAIN computed = 1 .. Length
  BY <1>1, <1>6, TeamFacts, SegmentFacts DEF During
<1>8. computed[node[t]][t] = 0
  <2>1. ~ Done(t, node[t])
    BY <1>1, <1>5, <1>7 DEF Done
  <2> QED  BY <1>3, <1>6, <1>7, <2>1 DEF During, NodeParts
<1>9. /\ computed'[node[t]][t] = 1
      /\ \A p \in Team \ {t} : computed'[node[t]][p] = computed[node[t]][p]
      /\ \A m \in 1 .. Length : m # node[t] => computed'[m] = computed[m]
  BY <1>1, <1>3, <1>7, <1>8
<1>10. AbortKnown(n, k)' /\ \A m \in 1 .. n - 1 : Complete(m)'
  <2>1. AbortKnown(n, k)'
    BY <1>1, <1>4, SegmentKept DEF During, AbortKnown
  <2>2. \A m : Parts(graph, m)' = Parts(graph, m)
    BY <1>1 DEF Parts, ThreadsOf
  <2>3. \A m \in 1 .. n - 1 : Complete(m)
    BY DEF During
  <2>4. \A m \in 1 .. n - 1 : computed'[m] = computed[m]
    BY <1>7, <1>9
  <2> QED  BY <2>1, <2>2, <2>3, <2>4 DEF Complete
<1>11. Placed(t, n, k)'
  <2>1. t \in Team' /\ Joined(t)'
    BY <1>1, <1>3 DEF Team, Active, Joined
  <2>2. node[t] \in WorkNodes(n, k)
    BY <1>1, <1>6 DEF WorkNodes
  <2>3. Inside(t, n, k)'
    BY <1>1, <1>4, <2>2, SegmentKept DEF Inside
  <2> QED  BY <2>1, <2>3 DEF Placed, Position
<1>12. BarrierOK'
  BY <1>1, <1>2, <1>4, <1>5, BarrierKept, TeamFacts DEF During
<1>13. NodeParts(n)'
  <2>1. Nodes' = Nodes /\ Length' = Length /\ \A m : Parts(graph, m)' = Parts(graph, m)
    BY <1>1 DEF Nodes, Length, Parts, ThreadsOf
  <2>2. SUFFICES ASSUME NEW m \in n .. Length, NEW p \in Parts(graph, m)
                 PROVE  computed'[m][p] = IF Nodes[m] = Shared /\ Done(p, m)' THEN 1 ELSE 0
    BY <2>1 DEF NodeParts
  <2>3. computed[m][p] = IF Nodes[m] = Shared /\ Done(p, m) THEN 1 ELSE 0
    BY <1>6 DEF During, NodeParts
  <2>4. Nodes[m] = Shared => p \in Team /\ p \in Threads
    BY <1>7, TeamFacts
  <2>5. CASE p = t /\ m = node[t]
    <3>1. Done(t, m)'
      BY <1>1, <2>5 DEF Done
    <3> QED  BY <1>1, <1>9, <2>5, <3>1
  <2>6. CASE p = t /\ m # node[t]
    <3>1. Nodes[m] = Shared => ~ Done(t, m)' /\ ~ Done(t, m)
      BY <1>1, <1>5, <1>7, <2>6 DEF Done
    <3>2. computed'[m] = computed[m]
      BY <1>7, <1>9, <2>6
    <3> QED  BY <2>3, <2>6, <3>1, <3>2
  <2>7. CASE p # t
    <3>1. Nodes[m] = Shared => (Done(p, m)' <=> Done(p, m))
      BY <1>2, <1>4, <1>6, <2>4, <2>7, OthersKeep
    <3>2. computed'[m][p] = computed[m][p]
      BY <1>7, <1>9, <2>7
    <3> QED  BY <2>3, <3>1, <3>2
  <2> QED  BY <2>5, <2>6, <2>7
<1>14. Filled'
  BY <1>1, <1>2, <1>4, <1>5, <1>6, FilledKept, TeamFacts DEF During
<1>15. \A m \in 1 .. node[t] - 1 : Complete(m)
  <2>1. \A m \in n .. node[t] - 1 : Nodes[m] = 0 /\ m \in 1 .. Length
    BY <1>6, <1>7 DEF Ahead
  <2>2. \A m \in n .. node[t] - 1 : Parts(graph, m) = {}
    <3>1. TAKE m \in n .. node[t] - 1
    <3>2. Parts(graph, m) = 0 .. 0 - 1
      BY <2>1, TeamFacts DEF Shared
    <3> QED  BY <3>2
  <2>3. \A m \in n .. node[t] - 1 : Complete(m)
    BY <2>2 DEF Complete
  <2>4. \A m \in 1 .. n - 1 : Complete(m)
    BY DEF During
  <2> QED  BY <1>7, <2>3, <2>4
<1>16. During(n, k)'
  BY <1>2, <1>4, <1>6, <1>10, <1>11, <1>12, <1>13, <1>14, DuringKept DEF Data
<1> QED  BY <1>3, <1>7, <1>8, <1>15, <1>16

LEMMA FillInside ==
  ASSUME Typed, NEW n \in Nat, NEW k \in {"node", "chunk"}, During(n, k), NEW t \in Threads, FillBuffer(t)
  PROVE  During(n, k)'
<1>1. /\ pc[t] = "node" /\ pc'[t] = "barrier" /\ ret'[t] = "chunk" /\ node' = node
      /\ node[t] <= Length /\ abort # node[t] /\ Nodes[node[t]] > 0
      /\ wdata'[t] = [graph |-> graph, node |-> node[t]] /\ mine'[t] = t
      /\ current_chunk' = IF t = 0 THEN Active ELSE current_chunk
      /\ \A u \in Threads \ {t} : wdata'[u] = wdata[u] /\ mine'[u] = mine[u]
      /\ UNCHANGED <<graph, n_graph, abort, computed, n_barrier, n_barrier_passed, last_graph>>
  BY DEF FillBuffer, Goes, AtNode, Kind, Typed, TypeOK, pool, ctl, ready, Length
<1>2. OthersStay(t)
  BY <1>1, StepStays DEF ComputeStep
<1>3. t \in Team /\ Joined(t) /\ Inside(t, n, k)
  BY <1>1, InGraph DEF Computing
<1>4. SameSegment(n, k) /\ AbortKnown(n, k)' /\ \A m \in 1 .. n - 1 : Complete(m)'
  BY <1>1, PastKept
<1>5. AtBarrier(t)' /\ ~ AtBarrier(t) /\ ~ Waits(t) /\ ~ Waits(t)'
  BY <1>1 DEF AtBarrier, Waits
<1>6. k = "node" /\ node[t] \in Ahead(n) /\ abort # n
  BY <1>1, <1>3, <1>5, TeamFacts DEF Inside, Ahead
<1>7. Placed(t, n, k)'
  <2>1. t \in Team' /\ Joined(t)'
    BY <1>1, <1>3 DEF Team, Active, Joined
  <2>2. <<node[t], "chunk">> \in Exits(n, k)
    BY <1>1, <1>6 DEF FillNodes, Exits
  <2>3. Inside(t, n, k)'
    BY <1>1, <1>4, <1>5, <2>2, SegmentKept DEF Inside
  <2> QED  BY <2>1, <2>3 DEF Placed, Position
<1>8. BarrierOK'
  BY <1>1, <1>2, <1>4, <1>5, BarrierKept, TeamFacts DEF During
<1>9. NodeParts(n)'
  <2>1. Length' = Length /\ Length \in Nat
    BY <1>4, SegmentKept, TeamFacts
  <2>2. \A m \in n .. Length : Nodes[m] = Shared => ~ Done(t, m)' /\ ~ Done(t, m)
    BY <1>1, <1>5, <2>1 DEF Done, Shared
  <2> QED  BY <1>1, <1>2, <1>4, <1>6, <2>2, NodePartsKept, TeamFacts DEF During
<1>10. Filled'
  <2>1. Team' = Team /\ graph' = graph /\ Active' = Active /\ Team \subseteq Threads
    BY <1>1, TeamFacts DEF Team, Active
  <2>2. SUFFICES ASSUME NEW u \in Team, AtBarrier(u)', ret'[u] = "chunk"
                 PROVE  /\ wdata'[u] = [graph |-> graph, node |-> node'[u]] /\ mine'[u] = u
                        /\ u = 0 => current_chunk' = Active
    BY <2>1 DEF Filled
  <2>3. CASE u = t
    BY <1>1, <2>3
  <2>4. CASE u # t
    <3>1. AtBarrier(u) /\ ret[u] = "chunk" /\ u \in Threads
      BY <1>2, <1>4, <2>1, <2>2, <2>4, OthersKeep DEF OthersStay
    <3>2. wdata[u] = [graph |-> graph, node |-> node[u]] /\ mine[u] = u
      BY <1>6, <3>1 DEF During, Filled
    <3>3. u = 0 => current_chunk = Active
      BY <1>6, <3>1 DEF During, Filled
    <3> QED  BY <1>1, <2>4, <3>1, <3>2, <3>3
  <2> QED  BY <2>3, <2>4
<1> QED  BY <1>2, <1>4, <1>6, <1>7, <1>8, <1>9, <1>10, DuringKept DEF Data

LEMMA ChunkInside ==
  ASSUME Typed, NEW n \in Nat, NEW k \in {"node", "chunk"}, During(n, k), NEW t \in Threads, ComputeChunk(t)
  PROVE  /\ During(n, k)'
         /\ node[t] = n /\ n \in 1 .. Length /\ mine[t] \in Parts(graph, n) /\ computed[n][mine[t]] = 0
<1>1. /\ pc[t] = "chunk" /\ mine[t] < Nodes[node[t]] /\ mine[t] \in Nat /\ current_chunk \in Nat
      /\ computed' = [computed EXCEPT ![node[t]][mine[t]] = computed[node[t]][mine[t]] + 1]
      /\ \A u \in Threads \ {t} : mine'[u] = mine[u]
      /\ UNCHANGED <<graph, n_graph, abort, n_barrier, n_barrier_passed, last_graph, wdata, node, ret, passed>>
  BY DEF ComputeChunk, Goes, Kind, Typed, TypeOK, pool, sync, ctl, ready
<1>2. OthersStay(t)
  BY <1>1, StepStays DEF ComputeStep
<1>3. t \in Team /\ Joined(t) /\ Inside(t, n, k)
  BY <1>1, InGraph DEF Computing
<1>4. SameSegment(n, k)
  BY <1>1 DEF SameSegment
<1>5. ~ AtBarrier(t) /\ ~ Waits(t) /\ Holds(t)
  BY <1>1 DEF AtBarrier, Waits, Holds
<1>6. k = "chunk" /\ node[t] = n
  BY <1>1, <1>3, <1>5 DEF Inside
<1>7. /\ n \in 1 .. Length /\ Length \in Nat /\ Nodes[n] \in Nat /\ Active \in Nat
      /\ Parts(graph, n) = 0 .. Nodes[n] - 1 /\ computed[n] \in [0 .. Nodes[n] - 1 -> Nat]
      /\ DOMAIN computed = 1 .. Length /\ mine[t] \in 0 .. Nodes[n] - 1 /\ Team \subseteq Threads
  <2>1. n \in 1 .. Length /\ Nodes[n] > 0
    BY <1>6, TeamFacts DEF During, ChunkParts
  <2>2. Nodes[n] \in Nat /\ Nodes[n] # Shared
    BY <2>1, TeamFacts DEF Shared
  <2> QED  BY <1>1, <1>6, <2>1, <2>2, TeamFacts
<1>8. /\ current_chunk >= Active /\ mine[t] < current_chunk
      /\ \A u \in Team : IF Holds(u) THEN mine[u] < current_chunk ELSE current_chunk >= Nodes[n]
      /\ \A u, v \in Team : Holds(u) /\ Holds(v) /\ mine[u] = mine[v] => u = v
      /\ \A p \in 0 .. Nodes[n] - 1 :
           computed[n][p] = IF p >= current_chunk \/ (\E u \in Team : Holds(u) /\ mine[u] = p) THEN 0 ELSE 1
  BY <1>3, <1>5, <1>6 DEF During, ChunkParts
<1>9. computed[n][mine[t]] = 0
  BY <1>3, <1>5, <1>7, <1>8
<1>10. /\ computed'[n][mine[t]] = 1
       /\ \A p \in 0 .. Nodes[n] - 1 : p # mine[t] => computed'[n][p] = computed[n][p]
       /\ \A m \in 1 .. Length : m # n => computed'[m] = computed[m]
  BY <1>1, <1>6, <1>7, <1>9
<1>11. AbortKnown(n, k)' /\ \A m \in 1 .. n - 1 : Complete(m)'
  <2>1. AbortKnown(n, k)'
    BY <1>1, <1>4, SegmentKept DEF During, AbortKnown
  <2>2. \A m : Parts(graph, m)' = Parts(graph, m)
    BY <1>1 DEF Parts, ThreadsOf
  <2>3. \A m \in 1 .. n - 1 : Complete(m)
    BY DEF During
  <2>4. \A m \in 1 .. n - 1 : computed'[m] = computed[m]
    BY <1>7, <1>10
  <2> QED  BY <2>1, <2>2, <2>3, <2>4 DEF Complete
<1>12. /\ pc'[t] = IF Active >= Nodes[n] THEN "after" ELSE "chunk"
       /\ mine'[t] = IF Active >= Nodes[n] THEN mine[t] ELSE current_chunk
       /\ current_chunk' = IF Active >= Nodes[n] THEN current_chunk ELSE current_chunk + 1
  BY <1>1, <1>6 DEF ComputeChunk, Goes, Kind, Typed, TypeOK
<1>13. Placed(t, n, k)'
  <2>1. t \in Team' /\ Joined(t)'
    BY <1>1, <1>3 DEF Team, Active, Joined
  <2>2. n \in WorkNodes(n, k)
    BY <1>6 DEF WorkNodes
  <2>3. Inside(t, n, k)'
    BY <1>1, <1>4, <1>6, <1>12, <2>2, SegmentKept DEF Inside
  <2> QED  BY <2>1, <2>3 DEF Placed, Position
<1>14. BarrierOK'
  <2>1. ~ Waits(t)'
    BY <1>12 DEF Waits
  <2> QED  BY <1>1, <1>2, <1>4, <1>5, <1>12, <2>1, BarrierKept, TeamFacts DEF During
<1>15. Holds(t)' <=> Active < Nodes[n]
  BY <1>7, <1>12 DEF Holds, Late
<1>16. \A u \in Team \ {t} : Holds(u)' <=> Holds(u)
  BY <1>2, <1>4, <1>7, OthersKeep DEF Holds, OthersStay
<1>17. ChunkParts(n)'
  <2>1. /\ Nodes' = Nodes /\ Length' = Length /\ Team' = Team /\ Active' = Active
        /\ \A m : Parts(graph, m)' = Parts(graph, m)
    BY <1>1 DEF Nodes, Length, Team, Active, Parts, ThreadsOf
  <2>2. ASSUME NEW u \in Team
        PROVE  IF Holds(u)' THEN mine'[u] < current_chunk' ELSE current_chunk' >= Nodes[n]
    <3>1. CASE u = t
      BY <1>1, <1>7, <1>8, <1>12, <1>15, <3>1
    <3>2. CASE u # t
      <4>1. mine'[u] = mine[u] /\ mine[u] \in Nat /\ (Holds(u)' <=> Holds(u))
        BY <1>1, <1>7, <1>16, <3>2 DEF Typed, TypeOK
      <4>2. IF Holds(u) THEN mine[u] < current_chunk ELSE current_chunk >= Nodes[n]
        BY <1>8
      <4> QED  BY <1>1, <1>7, <1>12, <4>1, <4>2
    <3> QED  BY <3>1, <3>2
  <2>3. ASSUME NEW u \in Team, NEW v \in Team, Holds(u)', Holds(v)', mine'[u] = mine'[v]
        PROVE  u = v
    BY <1>1, <1>7, <1>8, <1>12, <1>15, <1>16, <2>3
  <2>4. ASSUME NEW p \in 0 .. Nodes[n] - 1
        PROVE  computed'[n][p] = IF p >= current_chunk' \/ (\E u \in Team : Holds(u)' /\ mine'[u] = p) THEN 0 ELSE 1
    <3>1. CASE p = mine[t]
      <4>1. p < current_chunk'
        BY <1>1, <1>8, <1>12, <3>1
      <4>2. \A u \in Team : ~ (Holds(u)' /\ mine'[u] = p)
        BY <1>1, <1>3, <1>5, <1>7, <1>8, <1>12, <1>15, <1>16, <3>1
      <4> QED  BY <1>10, <3>1, <4>1, <4>2, <1>1, <1>12
    <3>2. CASE p # mine[t]
      <4>1. computed'[n][p] = computed[n][p]
        BY <1>10, <3>2
      <4>2. \A u \in Team \ {t} : Holds(u)' /\ mine'[u] = p <=> Holds(u) /\ mine[u] = p
        BY <1>1, <1>7, <1>16
      <4>3. CASE Active >= Nodes[n]
        BY <1>7, <1>8, <1>12, <1>15, <3>2, <4>1, <4>2, <4>3
      <4>4. CASE Active < Nodes[n] /\ p = current_chunk
        BY <1>1, <1>3, <1>7, <1>8, <1>12, <1>15, <4>1, <4>4
      <4>5. CASE Active < Nodes[n] /\ p # current_chunk
        <5>1. p >= current_chunk' <=> p >= current_chunk
          BY <1>1, <1>7, <1>12, <4>5
        <5>2. (\E u \in Team : Holds(u)' /\ mine'[u] = p) <=> (\E u \in Team : Holds(u) /\ mine[u] = p)
          BY <1>7, <1>12, <3>2, <4>2, <4>5
        <5> QED  BY <1>8, <4>1, <5>1, <5>2
      <4> QED  BY <1>7, <4>3, <4>4, <4>5
    <3> QED  BY <3>1, <3>2
  <2>5. \A m \in n + 1 .. Length : Untouched(m)'
    <3>1. \A m \in n + 1 .. Length : Untouched(m) /\ computed'[m] = computed[m]
      BY <1>6, <1>7, <1>10 DEF During, ChunkParts
    <3> QED  BY <2>1, <3>1 DEF Untouched
  <2>6. Nodes[n] > 0 /\ current_chunk' >= Active /\ \A u \in Team : wdata[u] = [graph |-> graph, node |-> n]
    <3>1. Nodes[n] > 0 /\ \A u \in Team : wdata[u] = [graph |-> graph, node |-> n]
      BY <1>6 DEF During, ChunkParts
    <3> QED  BY <1>1, <1>7, <1>8, <1>12, <3>1
  <2> QED  BY <1>1, <2>1, <2>2, <2>3, <2>4, <2>5, <2>6 DEF ChunkParts
<1> QED  BY <1>2, <1>4, <1>6, <1>7, <1>9, <1>11, <1>13, <1>14, <1>17, DuringKept DEF Data

LEMMA NoMoreInside ==
  ASSUME Typed, NEW n \in Nat, NEW k \in {"node", "chunk"}, During(n, k), NEW t \in Threads, NoMoreChunks(t)
  PROVE  During(n, k)'
<1>1. /\ pc[t] = "chunk" /\ pc'[t] = "after" /\ node' = node
      /\ mine[t] >= Nodes[node[t]] /\ mine[t] \in Nat /\ current_chunk \in Nat
      /\ UNCHANGED <<graph, n_graph, abort, computed, n_barrier, n_barrier_passed, last_graph, wdata, mine, current_chunk>>
  BY DEF NoMoreChunks, Goes, Kind, Typed, TypeOK, pool, sync, work, ctl, ready
<1>2. OthersStay(t)
  BY <1>1, StepStays DEF ComputeStep
<1>3. t \in Team /\ Joined(t) /\ Inside(t, n, k)
  BY <1>1, InGraph DEF Computing
<1>4. SameSegment(n, k) /\ AbortKnown(n, k)' /\ \A m \in 1 .. n - 1 : Complete(m)'
  BY <1>1, PastKept
<1>5. /\ ~ AtBarrier(t) /\ ~ AtBarrier(t)' /\ ~ Waits(t) /\ ~ Waits(t)' /\ Holds(t) /\ ~ Holds(t)'
  BY <1>1 DEF AtBarrier, Waits, Holds, Late
<1>6. k = "chunk" /\ node[t] = n
  BY <1>1, <1>3, <1>5 DEF Inside
<1>7. Placed(t, n, k)'
  <2>1. t \in Team' /\ Joined(t)'
    BY <1>1, <1>3 DEF Team, Active, Joined
  <2>2. n \in WorkNodes(n, k)
    BY <1>6 DEF WorkNodes
  <2>3. Inside(t, n, k)'
    BY <1>1, <1>4, <1>6, <2>2, SegmentKept DEF Inside
  <2> QED  BY <2>1, <2>3 DEF Placed, Position
<1>8. BarrierOK'
  BY <1>1, <1>2, <1>4, <1>5, BarrierKept, TeamFacts DEF During
<1>9. ChunkParts(n)'
  <2>1. Nodes' = Nodes /\ Length' = Length /\ Team' = Team /\ Active' = Active
    BY <1>1 DEF Nodes, Length, Team, Active
  <2>2. \A m : Untouched(m)' <=> Untouched(m)
    BY <1>1 DEF Untouched, Parts, ThreadsOf
  <2>3. \A u \in Team \ {t} : Holds(u)' <=> Holds(u)
    BY <1>2, <1>4, TeamFacts, OthersKeep DEF Holds, OthersStay
  <2>4. /\ Nodes[n] > 0 /\ n \in 1 .. Length /\ mine[t] < current_chunk /\ current_chunk >= Active
        /\ \A u \in Team : IF Holds(u) THEN mine[u] < current_chunk ELSE current_chunk >= Nodes[n]
        /\ \A u, v \in Team : Holds(u) /\ Holds(v) /\ mine[u] = mine[v] => u = v
        /\ \A p \in 0 .. Nodes[n] - 1 :
             computed[n][p] = IF p >= current_chunk \/ (\E u \in Team : Holds(u) /\ mine[u] = p) THEN 0 ELSE 1
        /\ \A u \in Team : wdata[u] = [graph |-> graph, node |-> n]
        /\ \A m \in n + 1 .. Length : Untouched(m)
    BY <1>3, <1>5, <1>6, TeamFacts DEF During, ChunkParts
  <2>5. Nodes[n] \in Nat
    BY <2>4, TeamFacts DEF Shared
  <2>6. \A u \in Team : IF Holds(u)' THEN mine[u] < current_chunk ELSE current_chunk >= Nodes[n]
    BY <1>1, <1>5, <1>6, <2>3, <2>4, <2>5
  <2>7. \A p \in 0 .. Nodes[n] - 1 :
          (\E u \in Team : Holds(u)' /\ mine[u] = p) <=> (\E u \in Team : Holds(u) /\ mine[u] = p)
    BY <1>1, <1>5, <1>6, <2>3, <2>5
  <2>8. \A u, v \in Team : Holds(u)' /\ Holds(v)' /\ mine[u] = mine[v] => u = v
    BY <1>5, <2>3, <2>4
  <2>9. \A p \in 0 .. Nodes[n] - 1 :
          computed[n][p] = IF p >= current_chunk \/ (\E u \in Team : Holds(u)' /\ mine[u] = p) THEN 0 ELSE 1
    BY <2>4, <2>7
  <2> QED  BY <1>1, <2>1, <2>2, <2>4, <2>6, <2>8, <2>9 DEF ChunkParts
<1> QED  BY <1>2, <1>4, <1>6, <1>7, <1>8, <1>9, DuringKept DEF Data

LEMMA AfterInside ==
  ASSUME Typed, NEW n \in Nat, NEW k \in {"node", "chunk"}, During(n, k), NEW t \in Threads, AfterNode(t)
  PROVE  During(n, k)'
<1>1. /\ pc[t] = "after" /\ node[t] \in Nat
      /\ IF node[t] < Length
         THEN pc'[t] = "barrier" /\ ret'[t] = "node" /\ node'[t] = node[t]
         ELSE pc'[t] = "node" /\ node'[t] = node[t] + 1
      /\ abort' = abort \/ abort' = node[t] + 1
      /\ UNCHANGED <<graph, n_graph, computed, n_barrier, n_barrier_passed, last_graph, wdata, mine, current_chunk>>
  BY DEF AfterNode, Goes, Typed, TypeOK, pool, sync, work, ready, Length
<1>2. OthersStay(t)
  BY <1>1, StepStays DEF ComputeStep
<1>3. t \in Team /\ Joined(t) /\ Inside(t, n, k)
  BY <1>1, InGraph DEF Computing
<1>4. ~ AtBarrier(t) /\ ~ Waits(t) /\ ~ Waits(t)'
  BY <1>1 DEF AtBarrier, Waits
<1>5. node[t] \in WorkNodes(n, k) /\ node[t] \in n .. Length /\ Length \in Nat
  BY <1>1, <1>3, <1>4, TeamFacts, SegmentFacts DEF Inside, During
<1>6. SameSegment(n, k)
  <2>1. k = "node" => abort # n
    BY <1>5, SegmentFacts, TeamFacts DEF During
  <2>2. node[t] + 1 # n
    BY <1>1, <1>5
  <2> QED  BY <1>1, <2>1, <2>2 DEF SameSegment
<1>7. AbortKnown(n, k)'
  <2>1. WorkNodes(n, k)' = WorkNodes(n, k)
    BY <1>6, SegmentKept
  <2>2. CASE abort' = abort
    BY <2>1, <2>2 DEF During, AbortKnown
  <2>3. CASE abort' = node[t] + 1
    <3>1. (node[t] + 1) - 1 = node[t]
      BY <1>1
    <3> QED  BY <1>5, <2>1, <2>3, <3>1 DEF AbortKnown
  <2> QED  BY <1>1, <2>2, <2>3
<1>8. \A m \in 1 .. n - 1 : Complete(m)'
  <2>1. \A m : Complete(m)' <=> Complete(m)
    BY <1>1 DEF Complete, Parts, ThreadsOf
  <2> QED  BY <2>1 DEF During
<1>9. Placed(t, n, k)'
  <2>1. t \in Team' /\ Joined(t)'
    BY <1>1, <1>3 DEF Team, Active, Joined
  <2>2. Exits(n, k)' = Exits(n, k) /\ WorkNodes(n, k)' = WorkNodes(n, k) /\ Length' = Length
    BY <1>6, SegmentKept
  <2>3. CASE node[t] < Length
    <3>1. <<node[t], "node">> \in Exits(n, k)
      BY <1>1, <1>5, <2>3 DEF Exits
    <3>2. AtBarrier(t)'
      BY <1>1, <2>3 DEF AtBarrier
    <3> QED  BY <1>1, <2>1, <2>2, <2>3, <3>1, <3>2 DEF Placed, Position, Inside
  <2>4. CASE node[t] = Length
    BY <1>1, <1>5, <2>1, <2>2, <2>4 DEF Placed, Position, Inside
  <2> QED  BY <1>5, <2>3, <2>4
<1>10. BarrierOK'
  BY <1>1, <1>2, <1>4, <1>6, BarrierKept, TeamFacts DEF During
<1>11. Data(n, k)'
  <2>1. CASE k = "node"
    <3>1. \A m \in n .. Length : Done(t, m)' <=> Done(t, m)
      <4>1. Length' = Length
        BY <1>6, SegmentKept
      <4>2. AtBarrier(t)' <=> pc'[t] = "barrier"
        BY <1>1 DEF AtBarrier, Waits
      <4> QED  BY <1>1, <1>4, <1>5, <4>1, <4>2 DEF Done
    <3>2. NodeParts(n)'
      BY <1>1, <1>2, <1>6, <2>1, <3>1, NodePartsKept, TeamFacts DEF During
    <3>3. Filled'
      <4>1. ~ (AtBarrier(t)' /\ ret'[t] = "chunk")
        BY <1>1 DEF AtBarrier, Waits
      <4> QED  BY <1>1, <1>2, <1>6, <2>1, <4>1, FilledKept, TeamFacts DEF During
    <3> QED  BY <2>1, <3>2, <3>3 DEF Data
  <2>2. CASE k = "chunk"
    <3>1. ~ Holds(t)' /\ ~ Holds(t)
      BY <1>1 DEF Holds, Late
    <3> QED  BY <1>1, <1>2, <1>6, <2>2, <3>1, ChunkPartsKept, TeamFacts DEF During, Data
  <2> QED  BY <2>1, <2>2
<1> QED  BY <1>2, <1>6, <1>7, <1>8, <1>9, <1>10, <1>11, DuringKept

(* A step of t from one place of the barrier to another.                   *)
LEMMA StaysAtBarrier ==
  ASSUME Typed, NEW n \in Nat, NEW k \in {"node", "chunk"}, During(n, k), NEW t \in Threads, OthersStay(t),
         pc[t] \in {"barrier", "arrive", "last"}, AtBarrier(t)', BarrierOK', node' = node, ret' = ret,
         UNCHANGED <<graph, abort, computed, last_graph, wdata, mine, current_chunk>>
  PROVE  During(n, k)'
<1>1. SameSegment(n, k) /\ AbortKnown(n, k)' /\ \A m \in 1 .. n - 1 : Complete(m)'
  BY PastKept
<1>2. AtBarrier(t) /\ t \in Team /\ Joined(t) /\ Inside(t, n, k)
  BY InGraph DEF Computing, AtBarrier
<1>3. pc'[t] \in {"barrier", "arrive", "last", "open", "spin"} /\ ~ Late(t)'
  BY DEF AtBarrier, Waits, Late
<1>4. Placed(t, n, k)'
  <2>1. t \in Team' /\ Joined(t)'
    BY <1>2 DEF OthersStay, Team, Active, Joined
  <2>2. Inside(t, n, k)'
    BY <1>1, <1>2, SegmentKept DEF Inside
  <2> QED  BY <2>1, <2>2 DEF Placed, Position
<1>5. Data(n, k)'
  <2>1. CASE k = "node"
    <3>1. \A m \in n .. Length : Done(t, m)' <=> Done(t, m)
      <4>1. Length' = Length
        BY <1>1, SegmentKept
      <4> QED  BY <1>2, <1>3, <4>1 DEF Done
    <3>2. NodeParts(n)'
      BY <1>1, <2>1, <3>1, NodePartsKept, TeamFacts DEF During
    <3>3. Filled'
      BY <1>1, <1>2, <2>1, FilledKept, TeamFacts DEF During
    <3> QED  BY <2>1, <3>2, <3>3 DEF Data
  <2>2. CASE k = "chunk"
    <3>1. ~ Holds(t)' /\ ~ Holds(t)
      BY <1>3 DEF Holds, Late
    <3> QED  BY <1>1, <2>2, <3>1, ChunkPartsKept, TeamFacts DEF During, Data
  <2> QED  BY <2>1, <2>2
<1> QED  BY <1>1, <1>4, <1>5, DuringKept

LEMMA EnterInside ==
  ASSUME Typed, NEW n \in Nat, NEW k \in {"node", "chunk"}, During(n, k), NEW t \in Threads,
         BarrierEnter(t), Active # 1
  PROVE  During(n, k)'
<1>1. /\ pc[t] = "barrier" /\ pc'[t] = "arrive" /\ passed'[t] = n_barrier_passed
      /\ node' = node /\ ret' = ret
      /\ UNCHANGED <<graph, abort, computed, n_barrier, n_barrier_passed, last_graph, wdata, mine, current_chunk>>
  BY DEF BarrierEnter, Goes, Typed, TypeOK, pool, work, ready
<1>2. OthersStay(t)
  BY <1>1, StepStays DEF ComputeStep
<1>3. SameSegment(n, k) /\ AtBarrier(t)' /\ ~ Waits(t) /\ ~ Waits(t)'
  BY <1>1 DEF SameSegment, AtBarrier, Waits
<1>4. BarrierOK'
  BY <1>1, <1>2, <1>3, BarrierKept, TeamFacts DEF During
<1> QED  BY <1>1, <1>2, <1>3, <1>4, StaysAtBarrier

(* The last thread to arrive finds all others waiting.                     *)
LEMMA ArriveInside ==
  ASSUME Typed, NEW n \in Nat, NEW k \in {"node", "chunk"}, During(n, k), NEW t \in Threads, BarrierArrive(t)
  PROVE  During(n, k)'
<1>1. /\ pc[t] = "arrive" /\ pc'[t] = IF n_barrier = Active - 1 THEN "last" ELSE "spin"
      /\ n_barrier' = n_barrier + 1
      /\ node' = node /\ ret' = ret /\ passed' = passed
      /\ UNCHANGED <<graph, abort, computed, n_barrier_passed, last_graph, wdata, mine, current_chunk>>
  BY DEF BarrierArrive, Goes, Typed, TypeOK, pool, work, ready, ctl
<1>2. OthersStay(t)
  BY <1>1, StepStays DEF ComputeStep
<1>3. t \in Team /\ SameSegment(n, k) /\ ~ Waits(t)
  BY <1>1, InGraph DEF SameSegment, Waits, Computing
<1>4. passed[t] = n_barrier_passed
  BY <1>1, <1>3 DEF During, BarrierOK
<1>5. \A u \in Team : pc[u] \notin {"last", "open"}
  BY <1>1, <1>3 DEF During, BarrierOK
<1>6. n_barrier = Cardinality(Waiters)
  BY <1>5 DEF During, BarrierOK
<1>7. /\ IsFiniteSet(Waiters) /\ Waiters \subseteq Team \ {t} /\ IsFiniteSet(Team \ {t})
      /\ Cardinality(Team \ {t}) = Active - 1
      /\ Cardinality(Waiters) \in Nat /\ Active \in Nat
  <2>1. Waiters \subseteq Team \ {t}
    BY <1>3 DEF Waiters
  <2>2. IsFiniteSet(Team \ {t}) /\ Cardinality(Team \ {t}) = Active - 1
    <3>1. IsFiniteSet(Team) /\ Cardinality(Team) = Active
      BY TeamFacts
    <3> QED  BY <1>3, <3>1, FS_RemoveElement
  <2>3. IsFiniteSet(Waiters)
    BY <2>1, <2>2, FS_Subset
  <2>4. Cardinality(Waiters) \in Nat
    BY <2>3, FS_CardinalityType
  <2> QED  BY <2>1, <2>2, <2>3, <2>4, TeamFacts
<1>8. Team' = Team /\ Active' = Active
  BY <1>2 DEF Team, Active, OthersStay
<1>9. \A u \in Team \ {t} : (Waits(u)' <=> Waits(u)) /\ pc'[u] = pc[u] /\ passed'[u] = passed[u]
  BY <1>2, <1>3, TeamFacts, OthersKeep DEF OthersStay
<1>10. AtBarrier(t)'
  BY <1>1, <1>4 DEF AtBarrier, Waits
<1>11. BarrierOK'
  <2>1. \A u \in Team : pc'[u] \in {"arrive", "last", "open"} => passed'[u] = n_barrier_passed'
    BY <1>1, <1>4, <1>9 DEF During, BarrierOK
  <2>2. CASE n_barrier = Active - 1
    <3>1. Waiters = Team \ {t}
      BY <1>6, <1>7, <2>2, FS_Subset
    <3>2. \A u \in Team \ {t} : Waits(u)' /\ pc'[u] # "last" /\ pc'[u] # "open"
      BY <1>5, <1>9, <3>1 DEF Waiters
    <3>3. pc'[t] = "last" /\ n_barrier' = Active
      BY <1>1, <1>7, <2>2
    <3>4. \A u \in Team : pc'[u] \in {"last", "open"} => u = t
      BY <1>9, <3>2
    <3> QED  BY <1>3, <1>8, <2>1, <3>2, <3>3, <3>4 DEF BarrierOK
  <2>3. CASE n_barrier # Active - 1
    <3>1. pc'[t] = "spin" /\ Waits(t)'
      BY <1>1, <1>4, <2>3 DEF Waits
    <3>2. \A u \in Team : pc'[u] \notin {"last", "open"}
      BY <1>5, <1>9, <3>1
    <3>3. Waiters' = Waiters \cup {t} /\ t \notin Waiters
      BY <1>3, <1>7, <1>8, <1>9, <3>1 DEF Waiters
    <3>4. Cardinality(Waiters') = n_barrier + 1
      BY <1>6, <1>7, <3>3, FS_AddElement
    <3> QED  BY <1>1, <1>8, <2>1, <3>2, <3>4 DEF BarrierOK
  <2> QED  BY <2>2, <2>3
<1> QED  BY <1>1, <1>2, <1>10, <1>11, StaysAtBarrier

LEMMA ResetInside ==
  ASSUME Typed, NEW n \in Nat, NEW k \in {"node", "chunk"}, During(n, k), NEW t \in Threads, BarrierReset(t)
  PROVE  During(n, k)'
<1>1. /\ pc[t] = "last" /\ pc'[t] = "open" /\ n_barrier' = 0
      /\ node' = node /\ ret' = ret /\ passed' = passed
      /\ UNCHANGED <<graph, abort, computed, n_barrier_passed, last_graph, wdata, mine, current_chunk>>
  BY DEF BarrierReset, Goes, Typed, TypeOK, pool, work, ready, ctl
<1>2. OthersStay(t)
  BY <1>1, StepStays DEF ComputeStep
<1>3. t \in Team /\ SameSegment(n, k) /\ AtBarrier(t)'
  BY <1>1, InGraph DEF SameSegment, AtBarrier, Computing
<1>4. \A u \in Team \ {t} : Waits(u)
  BY <1>1, <1>3 DEF During, BarrierOK
<1>5. \A u \in Team \ {t} : Waits(u)' /\ pc'[u] = "spin"
  BY <1>2, <1>3, <1>4, TeamFacts, OthersKeep DEF Waits
<1>6. passed'[t] = n_barrier_passed'
  BY <1>1, <1>3 DEF During, BarrierOK
<1>7. Team' = Team
  BY <1>2 DEF Team, Active, OthersStay
<1>8. BarrierOK'
  <2>1. \A u \in Team : pc'[u] \in {"last", "open", "arrive"} => u = t
    BY <1>5
  <2> QED  BY <1>1, <1>3, <1>5, <1>6, <1>7, <2>1 DEF BarrierOK
<1> QED  BY <1>1, <1>2, <1>3, <1>8, StaysAtBarrier

(* A late thread goes where the others are.                                *)
LEMMA SpinInside ==
  ASSUME Typed, NEW n \in Nat, NEW k \in {"node", "chunk"}, During(n, k), NEW t \in Threads, BarrierSpin(t)
  PROVE  During(n, k)'
<1>1. /\ pc[t] = "spin" /\ Late(t) /\ node[t] \in Nat
      /\ pc'[t] = IF ret[t] = "end" THEN (IF t = 0 THEN "return" ELSE "loop") ELSE ret[t]
      /\ node'[t] = IF ret[t] = "node" THEN node[t] + 1 ELSE node[t]
      /\ UNCHANGED <<graph, n_graph, abort, computed, n_barrier, n_barrier_passed, last_graph, pending, ret, passed,
                     wdata, mine, current_chunk>>
  BY DEF BarrierSpin, Leave, Late, Typed, TypeOK, pool, work, ready
<1>2. OthersStay(t)
  BY <1>1, StepStays DEF ComputeStep
<1>3. SameSegment(n, k) /\ AbortKnown(n, k)' /\ \A m \in 1 .. n - 1 : Complete(m)'
  BY <1>1, PastKept
<1>4. /\ ret[t] \in {"node", "chunk", "end"} /\ ~ Waits(t) /\ ~ Waits(t)' /\ ~ AtBarrier(t) /\ ~ AtBarrier(t)'
      /\ pc'[t] \in {"return", "loop", "node", "chunk"} /\ ~ Late(t)'
  BY <1>1 DEF Waits, Late, AtBarrier, Typed, TypeOK
<1>5. Team' = Team /\ Active' = Active
  BY <1>1 DEF Team, Active
<1>6. t \in Team => /\ Behind(t, n, k) \/ (NotJoined(t, n, k) /\ ret[t] = "end" /\ t # 0)
                    /\ (NotJoined(t, n, k) /\ pc[t] # "start") \/ Joined(t)
  <2>1. ~ Inside(t, n, k)
    BY <1>1, <1>4 DEF Inside
  <2> QED  BY <1>1, <2>1 DEF During, Position, NotJoined, Out, OutPlaces
<1>7. t \in Team /\ Behind(t, n, k) => ret[t] = k /\ pc'[t] = k /\ node'[t] = n
  BY <1>1 DEF Behind
<1>8. Placed(t, n, k)'
  <2>1. CASE t \in Team /\ Behind(t, n, k)
    <3>1. Joined(t)'
      BY <1>1, <1>6, <1>7, <2>1 DEF Joined, NotJoined, Out, OutPlaces
    <3>2. k = "node" => n \in Ahead(n)
      BY TeamFacts DEF Ahead, During
    <3>3. Inside(t, n, k)'
      BY <1>3, <1>7, <2>1, <3>2, SegmentKept DEF Inside
    <3> QED  BY <1>5, <2>1, <3>1, <3>3 DEF Placed, Position
  <2>2. CASE t \in Team /\ ~ Behind(t, n, k)
    <3>1. n = 1 /\ k = "node" /\ t # 0 /\ pc'[t] = "loop"
      BY <1>1, <1>6, <2>2 DEF NotJoined
    <3>2. NotJoined(t, n, k)' /\ pc'[t] # "start"
      BY <3>1 DEF NotJoined, Out, OutPlaces
    <3> QED  BY <1>5, <2>2, <3>2 DEF Placed, Position
  <2>3. CASE t \notin Team
    <3>1. ret[t] = "end" /\ ~ pending[t] /\ t # 0
      BY <1>1, <2>3, TeamFacts DEF During, Out, OutPlaces
    <3>2. Out(t)' /\ ~ pending'[t]
      BY <1>1, <3>1 DEF Out, OutPlaces
    <3> QED  BY <1>5, <2>3, <3>2 DEF Placed
  <2> QED  BY <2>1, <2>2, <2>3
<1>9. BarrierOK'
  BY <1>1, <1>2, <1>3, <1>4, BarrierKept, TeamFacts DEF During
<1>10. Data(n, k)'
  <2>1. CASE k = "node"
    <3>1. \A m \in n .. Length : Nodes[m] = Shared => (Done(t, m)' <=> Done(t, m))
      <4>1. SUFFICES ASSUME NEW m \in n .. Length, Nodes[m] = Shared  PROVE Done(t, m)' <=> Done(t, m)
        OBVIOUS
      <4>3. Length' = Length
        BY <1>3, SegmentKept
      <4>4. ~ Done(t, m)
        BY <1>1, <1>4 DEF Done
      <4>5. CASE t \in Team
        <5>1. pc'[t] = "node" => node'[t] = n
          BY <1>1, <1>6, <1>7, <4>5 DEF NotJoined
        <5> QED  BY <1>4, <4>3, <4>4, <5>1, TeamFacts DEF Done, During
      <4>6. CASE t \notin Team
        <5>1. ret[t] = "end"
          BY <1>1, <4>6 DEF During, Out, OutPlaces
        <5> QED  BY <1>1, <1>4, <4>3, <4>4, <5>1 DEF Done
      <4> QED  BY <4>5, <4>6
    <3>2. NodeParts(n)'
      BY <1>1, <1>2, <1>3, <2>1, <3>1, NodePartsKept, TeamFacts DEF During
    <3>3. Filled'
      BY <1>1, <1>2, <1>3, <1>4, <2>1, FilledKept, TeamFacts DEF During
    <3> QED  BY <2>1, <3>2, <3>3 DEF Data
  <2>2. CASE k = "chunk"
    <3>1. t \in Team => (Holds(t)' <=> Holds(t))
      <4>1. ASSUME t \in Team  PROVE Behind(t, n, k)
        BY <1>6, <2>2, <4>1 DEF NotJoined
      <4> QED  BY <1>1, <1>7, <2>2, <4>1 DEF Holds
    <3> QED  BY <1>1, <1>2, <1>3, <2>2, <3>1, ChunkPartsKept, TeamFacts DEF During, Data
  <2> QED  BY <2>1, <2>2
<1> QED  BY <1>2, <1>3, <1>8, <1>9, <1>10, DuringKept

(* A worker that is outside of the graph joins it, when it is of the team. *)
LEMMA WorkerInside ==
  ASSUME Typed, NEW n \in Nat, NEW k \in {"node", "chunk"}, During(n, k), NEW t \in Threads, WorkerStep(t)
  PROVE  During(n, k)'
<1> USE DEF Goes
<1>1. t # 0 /\ pc[t] \in OutPlaces
  BY ThreadFacts DEF Typed, WorkerStep, Loop, PauseWait, StopTest, Poll, CheckForWork, Work, OutPlaces
<1>2. UNCHANGED <<graph, n_graph, n_barrier, n_barrier_passed, passed, ret, node, abort, computed,
                  wdata, mine, current_chunk>>
  BY DEF WorkerStep, Loop, PauseWait, StopTest, Poll, CheckForWork, Work, pool, sync, work, ctl
<1>3. /\ DOMAIN pc = Threads /\ DOMAIN pending = Threads /\ DOMAIN last_graph = Threads
      /\ (t < Active) \in BOOLEAN
  BY DEF Typed, TypeOK
<1>4. (\E x : pc' = [pc EXCEPT ![t] = x]) /\ pc'[t] \in OutPlaces \cup {"start"}
  <2>1. CASE Loop(t) \/ PauseWait(t) \/ StopTest(t)
    BY <1>3, <2>1 DEF Loop, PauseWait, StopTest, OutPlaces
  <2>2. CASE Poll(t) \/ CheckForWork(t) \/ Work(t)
    BY <1>3, <2>2 DEF Poll, CheckForWork, Work, OutPlaces
  <2> QED  BY <2>1, <2>2 DEF WorkerStep
<1>5. /\ \A u \in Threads \ {t} : pending'[u] = pending[u] /\ last_graph'[u] = last_graph[u]
      /\ pending'[t] => t < Active \/ pending[t]
      /\ pc'[t] = "start" => pending[t] /\ last_graph'[t] = last_graph[t]
  <2>1. CASE Loop(t) \/ PauseWait(t) \/ StopTest(t)
    BY <1>3, <2>1 DEF Loop, PauseWait, StopTest, ready
  <2>2. CASE Poll(t) \/ CheckForWork(t)
    <3>1. pc'[t] # "start"
      BY <1>3, <2>2 DEF Poll, CheckForWork
    <3>2. CASE NewGraph(t)
      <4>1. pending' = [pending EXCEPT ![t] = t < Active] /\ last_graph' = [last_graph EXCEPT ![t] = n_graph]
        BY <2>2, <3>2 DEF Poll, CheckForWork, TestReady
      <4> QED  BY <1>3, <3>1, <4>1
    <3>3. CASE ~ NewGraph(t)
      <4>1. UNCHANGED <<pending, last_graph>>
        BY <2>2, <3>3 DEF Poll, CheckForWork, TestReady, ready
      <4> QED  BY <3>1, <4>1
    <3> QED  BY <3>2, <3>3
  <2>3. CASE Work(t)
    BY <1>3, <2>3 DEF Work
  <2> QED  BY <2>1, <2>2, <2>3 DEF WorkerStep
<1>6. OthersStay(t)
  BY <1>2, <1>3, <1>4, <1>5 DEF OthersStay
<1>7. SameSegment(n, k) /\ AbortKnown(n, k)' /\ \A m \in 1 .. n - 1 : Complete(m)'
  BY <1>2, PastKept
<1>8. Team' = Team /\ Active' = Active /\ Length' = Length
  BY <1>2 DEF Team, Active, Length, Nodes
<1>9. /\ ~ AtBarrier(t) /\ ~ AtBarrier(t)' /\ ~ Waits(t) /\ ~ Waits(t)' /\ ~ Holds(t) /\ ~ Holds(t)'
      /\ ~ Late(t)
  BY <1>1, <1>4 DEF AtBarrier, Waits, Holds, Late, OutPlaces
<1>10. t \in Team => n = 1 /\ k = "node"
  BY <1>1, <1>9 DEF During, Position, Inside, Behind, NotJoined, OutPlaces
<1>11. Placed(t, n, k)'
  <2>1. CASE t \in Team /\ pc'[t] = "start"
    <3>1. Joined(t)'
      BY <1>2, <1>5, <2>1 DEF Typed, Joined
    <3>2. NotJoined(t, n, k)'
      BY <1>10, <2>1 DEF NotJoined
    <3> QED  BY <1>8, <2>1, <3>1, <3>2 DEF Placed, Position
  <2>2. CASE t \in Team /\ pc'[t] # "start"
    <3>1. NotJoined(t, n, k)'
      BY <1>1, <1>4, <1>10, <2>2 DEF NotJoined, Out
    <3> QED  BY <1>8, <2>2, <3>1 DEF Placed, Position
  <2>3. CASE t \notin Team
    <3>1. ~ pending[t] /\ ~ (t < Active)
      <4>1. ~ pending[t]
        BY <2>3 DEF During
      <4>2. t \in Nat
        BY DEF Threads
      <4> QED  BY <2>3, <4>1, <4>2, TeamFacts DEF Team
    <3>2. Out(t)' /\ ~ pending'[t]
      BY <1>4, <1>5, <3>1 DEF Out
    <3> QED  BY <1>8, <2>3, <3>2 DEF Placed
  <2> QED  BY <2>1, <2>2, <2>3
<1>12. BarrierOK'
  <2>1. pc[t] \notin {"last", "open"} /\ pc'[t] \notin {"arrive", "last", "open"}
    BY <1>1, <1>4 DEF OutPlaces
  <2> QED  BY <1>2, <1>6, <1>7, <1>9, <2>1, BarrierKept, TeamFacts DEF During
<1>13. Data(n, k)'
  <2>1. CASE k = "node"
    <3>1. \A m : ~ Done(t, m)' /\ ~ Done(t, m)
      BY <1>1, <1>4, <1>9 DEF Done, OutPlaces
    <3>2. NodeParts(n)'
      BY <1>2, <1>6, <1>7, <2>1, <3>1, NodePartsKept, TeamFacts DEF During
    <3>3. Filled'
      BY <1>2, <1>6, <1>7, <1>9, <2>1, FilledKept, TeamFacts DEF During
    <3> QED  BY <2>1, <3>2, <3>3 DEF Data
  <2>2. CASE k = "chunk"
    BY <1>2, <1>6, <1>7, <1>9, <2>2, ChunkPartsKept, TeamFacts DEF During, Data
  <2> QED  BY <2>1, <2>2
<1> QED  BY <1>6, <1>7, <1>11, <1>12, <1>13, DuringKept

---------------------------------------------------------------------------
(* The barrier opens.                                                      *)

(* All threads of the team are at the barrier of node m; t goes on, the    *)
(* others have yet to see it.                                              *)
Opening(t, m, r) ==
  /\ t \in Team /\ Leave(t) /\ n_barrier' = 0
  /\ \A u \in Team : AtBarrier(u) /\ node[u] = m /\ ret[u] = r /\ Joined(u)
  /\ \A u \in Team \ {t} : Late(u)'
  /\ \A w \in Threads \ Team : Out(w)' /\ ~ pending[w]
  /\ UNCHANGED <<pool, passed, ret, work, abort, ec, ready>>

LEMMA OpeningFacts ==
  ASSUME Typed, NEW n \in Nat, NEW k \in {"node", "chunk"}, During(n, k), NEW t, NEW m, NEW r, Opening(t, m, r)
  PROVE  /\ UNCHANGED <<graph, n_graph, computed, abort, ec, wdata, mine, current_chunk, last_graph, pending, ret, passed>>
         /\ Team' = Team /\ Nodes' = Nodes /\ Length' = Length /\ Active' = Active
         /\ \A i : Parts(graph, i)' = Parts(graph, i)
         /\ \A i : (Complete(i)' <=> Complete(i)) /\ (Untouched(i)' <=> Untouched(i))
         /\ \A u \in Team \ {t} : pc'[u] = "spin" /\ ~ Waits(u)' /\ ~ AtBarrier(u)' /\ node'[u] = m
         /\ pc'[t] = IF r = "end" THEN (IF t = 0 THEN "return" ELSE "loop") ELSE r
         /\ node'[t] = IF r = "node" THEN m + 1 ELSE m
         /\ t \in Threads
         /\ \A u \in Team : Joined(u)' /\ ret'[u] = r
<1>1. UNCHANGED <<graph, n_graph, computed, abort, ec, wdata, mine, current_chunk, last_graph, pending, ret, passed>>
  BY DEF Opening, pool, work, ready
<1>2. Team' = Team /\ Nodes' = Nodes /\ Length' = Length /\ Active' = Active
  BY <1>1 DEF Team, Nodes, Length, Active
<1>3. \A i : Parts(graph, i)' = Parts(graph, i)
  BY <1>1 DEF Parts, ThreadsOf
<1>4. \A i : (Complete(i)' <=> Complete(i)) /\ (Untouched(i)' <=> Untouched(i))
  BY <1>1, <1>3 DEF Complete, Untouched
<1>5. t \in Threads /\ Team \subseteq Threads
  BY TeamFacts DEF Opening
<1>6. /\ pc'[t] = IF r = "end" THEN (IF t = 0 THEN "return" ELSE "loop") ELSE r
      /\ node'[t] = IF r = "node" THEN m + 1 ELSE m
      /\ \A u \in Threads \ {t} : node'[u] = node[u]
  <2>1. ret[t] = r /\ node[t] = m
    BY DEF Opening
  <2>2. DOMAIN pc = Threads /\ DOMAIN node = Threads
    BY DEF Typed, TypeOK
  <2> QED  BY <1>5, <2>1, <2>2 DEF Opening, Leave
<1>7. \A u \in Team \ {t} : pc'[u] = "spin" /\ ~ Waits(u)' /\ ~ AtBarrier(u)'
  BY DEF Opening, Late, Waits, AtBarrier
<1>8. \A u \in Team : Joined(u)' /\ ret'[u] = r
  BY <1>1 DEF Opening, Joined
<1> QED  BY <1>1, <1>2, <1>3, <1>4, <1>5, <1>6, <1>7, <1>8 DEF Opening

LEMMA OpenBarrierOK ==
  ASSUME Typed, NEW n \in Nat, NEW k \in {"node", "chunk"}, During(n, k), NEW t, NEW m, NEW r, Opening(t, m, r),
         r \in {"node", "chunk"}
  PROVE  BarrierOK'
<1>1. /\ Team' = Team /\ n_barrier' = 0
      /\ \A u \in Team \ {t} : pc'[u] = "spin" /\ ~ Waits(u)'
      /\ pc'[t] = r
  BY OpeningFacts DEF Opening
<1>2. \A u \in Team : pc'[u] \notin {"arrive", "last", "open"}
  BY <1>1
<1>3. Waiters' = {}
  BY <1>1 DEF Waiters, Waits
<1>4. Cardinality(Waiters') = 0
  BY <1>3, FS_EmptySet
<1> QED  BY <1>1, <1>2, <1>4 DEF BarrierOK

(* Nothing is left to do up to the node where the team has worked, and     *)
(* nothing is done behind it.                                              *)
LEMMA SegmentComplete ==
  ASSUME Typed, NEW n \in Nat, NEW k \in {"node", "chunk"}, During(n, k), NEW m \in WorkNodes(n, k),
         \A u \in Team : /\ AtBarrier(u)
                         /\ (node[u] = m /\ ret[u] = "node") \/ (m = Length /\ node[u] = m + 1 /\ ret[u] = "end")
  PROVE  /\ \A i \in 1 .. m : Complete(i)
         /\ \A i \in m + 1 .. Length : Untouched(i)
<1>1. n \in 1 .. Length + 1 /\ Length \in Nat /\ m \in n .. Length /\ m \in 1 .. Length
  BY TeamFacts, SegmentFacts DEF During
<1>2. \A i \in 1 .. n - 1 : Complete(i)
  BY DEF During
<1>3. CASE k = "node"
  <2>1. m \in Ahead(n) /\ abort # n /\ Nodes[m] = Shared
    BY <1>3 DEF WorkNodes
  <2>2. \A i \in n .. m - 1 : Complete(i)
    <3>1. \A i \in n .. m - 1 : Nodes[i] = 0 /\ i \in 1 .. Length
      BY <1>1, <2>1 DEF Ahead
    <3>2. \A i \in n .. m - 1 : Parts(graph, i) = {}
      <4>1. TAKE i \in n .. m - 1
      <4>2. Parts(graph, i) = 0 .. 0 - 1
        BY <3>1, TeamFacts DEF Shared
      <4> QED  BY <4>2
    <3> QED  BY <3>2 DEF Complete
  <2>3. Complete(m)
    <3>1. \A p \in Team : Done(p, m)
      BY <1>1 DEF Done
    <3>2. Parts(graph, m) = Team
      BY <1>1, <2>1, TeamFacts
    <3> QED  BY <1>1, <1>3, <2>1, <3>1, <3>2 DEF Complete, During, NodeParts
  <2>4. ASSUME NEW i \in m + 1 .. Length  PROVE Untouched(i)
    <3>1. \A p \in Team : ~ Done(p, i)
      BY <1>1, <2>4 DEF Done, AtBarrier, Waits
    <3>2. Nodes[i] = Shared => Parts(graph, i) = Team
      BY <1>1, <2>4, TeamFacts
    <3>3. i \in n .. Length
      BY <1>1, <2>4
    <3> QED  BY <1>3, <3>1, <3>2, <3>3 DEF Untouched, During, NodeParts
  <2> QED  BY <1>1, <1>2, <2>2, <2>3, <2>4
<1>4. CASE k = "chunk"
  <2>1. m = n
    BY <1>4 DEF WorkNodes
  <2>2. \A u \in Team : ~ Holds(u)
    BY DEF Holds, AtBarrier, Waits, Late
  <2>3. /\ Nodes[n] > 0 /\ current_chunk >= Nodes[n] /\ current_chunk \in Nat
        /\ \A p \in 0 .. Nodes[n] - 1 :
             computed[n][p] = IF p >= current_chunk \/ (\E u \in Team : Holds(u) /\ mine[u] = p) THEN 0 ELSE 1
        /\ \A i \in n + 1 .. Length : Untouched(i)
    BY <1>4, <2>2, TeamFacts DEF During, ChunkParts, Typed, TypeOK
  <2>4. Nodes[n] \in Nat /\ Parts(graph, n) = 0 .. Nodes[n] - 1
    BY <1>1, <2>1, <2>3, TeamFacts DEF Shared
  <2>5. Complete(n)
    BY <2>2, <2>3, <2>4 DEF Complete
  <2> QED  BY <1>1, <1>2, <2>1, <2>3, <2>5
<1> QED  BY <1>3, <1>4

LEMMA OpensNode ==
  ASSUME Typed, NEW n \in Nat, NEW k \in {"node", "chunk"}, During(n, k), NEW t,
         NEW m \in WorkNodes(n, k) \ {Length}, Opening(t, m, "node")
  PROVE  During(m + 1, "node")'
<1>1. /\ n \in 1 .. Length + 1 /\ Length \in Nat /\ m \in n .. Length /\ m \in 1 .. Length - 1
      /\ Team \subseteq Threads
  BY TeamFacts, SegmentFacts DEF During
<1>2. /\ \A i \in 1 .. m : Complete(i)
      /\ \A i \in m + 1 .. Length : Untouched(i)
  BY SegmentComplete DEF Opening
<1>3. /\ pc'[t] = "node" /\ node'[t] = m + 1 /\ t \in Team
      /\ \A u \in Team \ {t} : Late(u)' /\ ret'[u] = "node" /\ node'[u] = m
      /\ \A u \in Team : Joined(u)'
  BY OpeningFacts DEF Opening
<1>4. /\ Team' = Team /\ Length' = Length /\ Active' = Active /\ Nodes' = Nodes
      /\ graph' = graph /\ n_graph' = n_graph /\ pending' = pending
  BY OpeningFacts
<1>5. \A u \in Team : Position(u, m + 1, "node")'
  <2>1. m + 1 \in Ahead(m + 1)'
    BY <1>1, <1>4 DEF Ahead
  <2>2. Inside(t, m + 1, "node")'
    BY <1>3, <2>1 DEF Inside
  <2>3. \A u \in Team \ {t} : Behind(u, m + 1, "node")'
    BY <1>3 DEF Behind
  <2> QED  BY <2>2, <2>3 DEF Position
<1>6. AbortKnown(m + 1, "node")'
  <2>1. abort = -1 \/ abort - 1 = m
    <3>1. ~ (k = "node" /\ abort = n)
      BY <1>1, SegmentFacts
    <3>2. \A i \in WorkNodes(n, k) : i = m
      BY <1>1 DEF WorkNodes, Ahead, Shared
    <3> QED  BY <3>1, <3>2 DEF During, AbortKnown
  <2>2. abort' = abort /\ abort \in Int
    BY OpeningFacts DEF Typed, TypeOK
  <2> QED  BY <1>1, <2>1, <2>2 DEF AbortKnown
<1>7. BarrierOK'
  BY OpenBarrierOK
<1>8. \A u \in Team : ~ AtBarrier(u)'
  <2>1. ~ AtBarrier(t)'
    BY <1>3 DEF AtBarrier, Waits
  <2> QED  BY <2>1, OpeningFacts
<1>9. NodeParts(m + 1)'
  <2>1. SUFFICES ASSUME NEW i \in m + 1 .. Length, NEW p \in Parts(graph, i)
                 PROVE  computed[i][p] = IF Nodes[i] = Shared /\ Done(p, i)' THEN 1 ELSE 0
    <3>1. computed' = computed /\ \A i : Parts(graph, i)' = Parts(graph, i)
      BY OpeningFacts
    <3> QED  BY <1>4, <3>1 DEF NodeParts
  <2>2. computed[i][p] = 0
    BY <1>2 DEF Untouched
  <2>3. i \in 1 .. Length
    BY <1>1
  <2>4. Nodes[i] = Shared => ~ Done(p, i)'
    <3>1. Nodes[i] = Shared => p \in Team
      BY <2>3, TeamFacts
    <3>2. \A u \in Team \ {t} : pc'[u] = "spin"
      BY OpeningFacts
    <3>3. ASSUME NEW u \in Team  PROVE ~ Done(u, i)'
      <4>1. CASE u = t
        BY <1>1, <1>3, <1>4, <1>8, <4>1 DEF Done
      <4>2. CASE u # t
        BY <1>8, <3>2, <4>2 DEF Done
      <4> QED  BY <4>1, <4>2
    <3> QED  BY <3>1, <3>3
  <2> QED  BY <2>2, <2>4
<1>10. Filled'
  BY <1>4, <1>8 DEF Filled
<1>11. \A i \in 1 .. (m + 1) - 1 : Complete(i)'
  <2>1. \A i : Complete(i)' <=> Complete(i)
    BY OpeningFacts
  <2> QED  BY <1>1, <1>2, <2>1
<1>12. \A w \in Threads \ Team : Out(w)' /\ ~ pending'[w]
  BY <1>4 DEF Opening
<1>13. /\ graph' \in 1 .. Len(Graphs) /\ Active' = ThreadsOf(graph')
       /\ m + 1 \in 1 .. Length' + 1
  BY <1>1, <1>4 DEF During
<1> QED  BY <1>3, <1>4, <1>5, <1>6, <1>7, <1>9, <1>10, <1>11, <1>12, <1>13 DEF During

LEMMA OpensChunk ==
  ASSUME Typed, NEW n \in Nat, NEW k \in {"node", "chunk"}, During(n, k), NEW t,
         NEW m \in FillNodes(n, k), Opening(t, m, "chunk")
  PROVE  During(m, "chunk")'
<1>1. /\ k = "node" /\ n \in 1 .. Length + 1 /\ Length \in Nat /\ m \in n .. Length /\ m \in 1 .. Length
      /\ m \in Ahead(n) /\ abort # n /\ Nodes[m] > 0 /\ Team \subseteq Threads /\ 0 \in Team
  BY TeamFacts, SegmentFacts DEF During, FillNodes
<1>2. Nodes[m] \in Nat /\ Parts(graph, m) = 0 .. Nodes[m] - 1
  BY <1>1, TeamFacts DEF Shared
<1>3. /\ pc'[t] = "chunk" /\ node'[t] = m /\ t \in Team
      /\ \A u \in Team \ {t} : Late(u)' /\ ret'[u] = "chunk" /\ node'[u] = m
      /\ \A u \in Team : Joined(u)'
  BY OpeningFacts DEF Opening
<1>4. /\ Team' = Team /\ Length' = Length /\ Active' = Active /\ Nodes' = Nodes
      /\ UNCHANGED <<graph, n_graph, pending, computed, wdata, mine, current_chunk>>
  BY OpeningFacts
<1>5. \A u \in Team : Position(u, m, "chunk")'
  <2>1. Inside(t, m, "chunk")'
    BY <1>3 DEF Inside
  <2>2. \A u \in Team \ {t} : Behind(u, m, "chunk")'
    BY <1>3 DEF Behind
  <2> QED  BY <2>1, <2>2 DEF Position
<1>6. AbortKnown(m, "chunk")'
  <2>1. abort = -1
    <3>1. ASSUME NEW i \in WorkNodes(n, k)  PROVE FALSE
      BY <1>1, <3>1 DEF WorkNodes, Ahead, Shared
    <3> QED  BY <1>1, <3>1 DEF During, AbortKnown
  <2>2. abort' = abort
    BY OpeningFacts
  <2> QED  BY <2>1, <2>2 DEF AbortKnown
<1>7. BarrierOK'
  BY OpenBarrierOK
<1>8. \A u \in Team : wdata[u] = [graph |-> graph, node |-> m] /\ mine[u] = u /\ current_chunk = Active
  BY <1>1 DEF Opening, During, Filled
<1>9. \A i \in n .. Length : \A p \in Parts(graph, i) : i = m \/ i > m => computed[i][p] = 0
  <2>1. SUFFICES ASSUME NEW i \in n .. Length, NEW p \in Parts(graph, i), i = m \/ i > m
                 PROVE  computed[i][p] = 0
    OBVIOUS
  <2>2. i \in 1 .. Length
    BY <1>1
  <2>3. ~ (Nodes[i] = Shared /\ Done(p, i))
    <3>1. CASE i = m
      BY <1>1, <3>1 DEF Shared
    <3>2. CASE i > m
      <4>1. Nodes[i] = Shared => p \in Team
        BY <2>2, TeamFacts
      <4>2. \A u \in Team : ~ Done(u, i)
        BY <1>1, <3>2 DEF Done, Opening, AtBarrier, Waits
      <4> QED  BY <4>1, <4>2
    <3> QED  BY <2>1, <3>1, <3>2
  <2> QED  BY <1>1, <2>3 DEF During, NodeParts
<1>10. ChunkParts(m)'
  <2>1. \A u \in Team : Holds(u)' /\ u \in Nat /\ u < Active
    BY <1>3, TeamFacts DEF Holds, Team
  <2>2. \A p \in 0 .. Nodes[m] - 1 : computed[m][p] = 0
    BY <1>1, <1>2, <1>9
  <2>3. \A p \in 0 .. Nodes[m] - 1 : p >= current_chunk \/ \E u \in Team : Holds(u)' /\ mine[u] = p
    <3>1. Active \in Nat /\ \A p \in 0 .. Nodes[m] - 1 : p >= Active \/ p \in Team
      BY <1>2, TeamFacts DEF Team
    <3> QED  BY <1>1, <1>8, <2>1, <3>1
  <2>4. \A i \in m + 1 .. Length : Untouched(i)'
    <3>1. \A i \in m + 1 .. Length : Untouched(i)
      BY <1>1, <1>9 DEF Untouched
    <3> QED  BY <3>1, OpeningFacts
  <2>5. /\ current_chunk >= Active
        /\ \A u \in Team : mine[u] < current_chunk
        /\ \A u, v \in Team : mine[u] = mine[v] => u = v
    BY <1>1, <1>8, <2>1, TeamFacts
  <2>6. /\ Nodes[m] > 0 /\ current_chunk >= Active
        /\ \A u \in Team : IF Holds(u)' THEN mine[u] < current_chunk ELSE current_chunk >= Nodes[m]
        /\ \A u, v \in Team : Holds(u)' /\ Holds(v)' /\ mine[u] = mine[v] => u = v
        /\ \A p \in 0 .. Nodes[m] - 1 :
             computed[m][p] = IF p >= current_chunk \/ (\E u \in Team : Holds(u)' /\ mine[u] = p) THEN 0 ELSE 1
        /\ \A u \in Team : wdata[u] = [graph |-> graph, node |-> m]
    BY <1>1, <1>8, <2>1, <2>2, <2>3, <2>5
  <2> QED  BY <1>4, <2>4, <2>6 DEF ChunkParts
<1>11. \A i \in 1 .. m - 1 : Complete(i)'
  <2>1. \A i \in n .. m - 1 : Nodes[i] = 0 /\ i \in 1 .. Length
    BY <1>1 DEF Ahead
  <2>2. \A i \in n .. m - 1 : Parts(graph, i) = {}
    <3>1. TAKE i \in n .. m - 1
    <3>2. Parts(graph, i) = 0 .. 0 - 1
      BY <2>1, TeamFacts DEF Shared
    <3> QED  BY <3>2
  <2>3. \A i \in 1 .. m - 1 : Complete(i)
    <3>1. \A i \in n .. m - 1 : Complete(i)
      BY <2>2 DEF Complete
    <3>2. \A i \in 1 .. n - 1 : Complete(i)
      BY DEF During
    <3> QED  BY <1>1, <3>1, <3>2
  <2> QED  BY <2>3, OpeningFacts
<1>12. \A w \in Threads \ Team : Out(w)' /\ ~ pending'[w]
  BY <1>4 DEF Opening
<1>13. /\ graph' \in 1 .. Len(Graphs) /\ Active' = ThreadsOf(graph')
       /\ m \in 1 .. Length' + 1 /\ m <= Length'
  BY <1>1, <1>4 DEF During
<1> QED  BY <1>3, <1>4, <1>5, <1>6, <1>7, <1>10, <1>11, <1>12, <1>13 DEF During

(* The graph ends: all nodes are computed, or those before the abort.      *)
LEMMA OpensEnd ==
  ASSUME Typed, NEW n \in Nat, NEW k \in {"node", "chunk"}, During(n, k), NEW t,
         NEW m \in LastNodes(n, k), Opening(t, m, "end")
  PROVE  Between'
<1>1. /\ n \in 1 .. Length + 1 /\ Length \in Nat /\ m \in n .. Length + 1
      /\ Team \subseteq Threads /\ 0 \in Team
  BY TeamFacts, SegmentFacts DEF During
<1>2. /\ t \in Team /\ n_barrier' = 0
      /\ pc'[t] = IF t = 0 THEN "return" ELSE "loop"
      /\ \A u \in Team \ {t} : Late(u)' /\ ret'[u] = "end"
      /\ \A u \in Team : Joined(u)'
  BY OpeningFacts DEF Opening
<1>3. /\ Team' = Team /\ Length' = Length /\ UNCHANGED <<graph, n_graph, ec, pending>>
  BY OpeningFacts
<1>4. pc'[0] = "return" \/ (Late(0)' /\ ret'[0] = "end")
  BY <1>1, <1>2
<1>5. ASSUME NEW w \in Workers
      PROVE  Out(w)' /\ ~ pending'[w] /\ (w \in Team' => Joined(w)')
  <2>1. w \in Threads /\ w # 0
    BY ThreadFacts
  <2>2. CASE w \in Team
    <3>1. pc[w] # "work"
      BY <2>2 DEF Opening, AtBarrier, Waits
    <3>2. ~ pending[w]
      BY <2>1, <3>1 DEF Typed
    <3>3. Out(w)'
      BY <1>2, <2>1, <2>2 DEF Out, OutPlaces
    <3> QED  BY <1>2, <1>3, <2>2, <3>2, <3>3
  <2>3. CASE w \notin Team
    BY <1>3, <2>1, <2>3 DEF Opening
  <2> QED  BY <2>2, <2>3
<1>6. Finished
  <2>1. CASE Length \in WorkNodes(n, k) /\ m = Length + 1
    <3>1. \A i \in 1 .. Length : Complete(i)
      BY <2>1, SegmentComplete DEF Opening
    <3> QED  BY <1>1, <3>1 DEF Finished
  <2>2. CASE k = "node" /\ m \in Ahead(n) /\ m = Length + 1 /\ abort # n
    <3>1. \A i \in n .. Length : Nodes[i] = 0 /\ i \in 1 .. Length
      BY <1>1, <2>2 DEF Ahead
    <3>2. \A i \in n .. Length : Parts(graph, i) = {}
      <4>1. TAKE i \in n .. Length
      <4>2. Parts(graph, i) = 0 .. 0 - 1
        BY <3>1, TeamFacts DEF Shared
      <4> QED  BY <4>2
    <3>3. \A i \in 1 .. Length : Complete(i)
      <4>1. \A i \in n .. Length : Complete(i)
        BY <3>2 DEF Complete
      <4>2. \A i \in 1 .. n - 1 : Complete(i)
        BY DEF During
      <4> QED  BY <1>1, <4>1, <4>2
    <3> QED  BY <1>1, <3>3 DEF Finished
  <2>3. CASE k = "node" /\ m \in Ahead(n) /\ abort = n
    <3>1. m = n
      BY <2>3 DEF Ahead
    <3>2. ec = "aborted"
      BY <1>1, <2>3 DEF Typed
    <3>3. ASSUME NEW i \in n .. Length  PROVE Untouched(i)
      <4>1. i \in 1 .. Length
        BY <1>1
      <4>2. \A u \in Team : ~ Done(u, i)
        BY <1>1, <3>1 DEF Done, Opening, AtBarrier, Waits
      <4>3. Nodes[i] = Shared => Parts(graph, i) = Team
        BY <4>1, TeamFacts
      <4> QED  BY <2>3, <4>2, <4>3 DEF Untouched, During, NodeParts
    <3>4. \A i \in 1 .. n - 1 : Complete(i)
      BY DEF During
    <3>5. n - 1 \in 0 .. Length /\ \A i \in 1 .. Length : IF i <= n - 1 THEN Complete(i) ELSE Untouched(i)
      BY <1>1, <3>3, <3>4
    <3> QED  BY <3>2, <3>5 DEF Finished
  <2> QED  BY <2>1, <2>2, <2>3 DEF LastNodes
<1>7. Finished'
  <2>1. \A i : (Complete(i)' <=> Complete(i)) /\ (Untouched(i)' <=> Untouched(i))
    BY OpeningFacts
  <2> QED  BY <1>3, <1>6, <2>1 DEF Finished
<1>8. graph' \in 1 .. Len(Graphs)
  BY <1>3 DEF During
<1>9. pc'[0] # "kickoff"
  BY <1>4 DEF Late
<1> QED  BY <1>2, <1>4, <1>5, <1>7, <1>8, <1>9 DEF Between, MainPlaces

(* The one that opens the barrier, or the only thread of the team.         *)
LEMMA OpenInside ==
  ASSUME Typed, NEW n \in Nat, NEW k \in {"node", "chunk"}, During(n, k), NEW t \in Threads,
         BarrierOpen(t) \/ (BarrierEnter(t) /\ Active = 1)
  PROVE  Between' \/ \E i \in Nat, j \in {"node", "chunk"} : During(i, j)'
<1>1. /\ t \in Team /\ AtBarrier(t) /\ Leave(t) /\ Team \subseteq Threads /\ n_barrier_passed \in Nat
      /\ UNCHANGED <<pool, n_barrier, passed, ret, work, abort, ec, ready>>
      /\ n_barrier_passed' \in {n_barrier_passed, n_barrier_passed + 1}
  <2>1. /\ pc[t] \in {"barrier", "open"} /\ Leave(t)
        /\ UNCHANGED <<pool, n_barrier, passed, ret, work, abort, ec, ready>>
        /\ n_barrier_passed' \in {n_barrier_passed, n_barrier_passed + 1}
    BY DEF BarrierOpen, BarrierEnter
  <2> QED  BY <2>1, InGraph, TeamFacts DEF AtBarrier, Computing, Typed, TypeOK
<1>2. n_barrier = 0 /\ \A u \in Team \ {t} : Waits(u) /\ Late(u)'
  <2>1. CASE BarrierOpen(t)
    <3>1. pc[t] = "open" /\ n_barrier_passed' = n_barrier_passed + 1
      BY <2>1 DEF BarrierOpen
    <3>2. n_barrier = 0 /\ \A u \in Team \ {t} : Waits(u)
      BY <1>1, <3>1 DEF During, BarrierOK
    <3>3. \A u \in Team \ {t} : pc'[u] = pc[u]
      BY <1>1 DEF Leave, Typed, TypeOK
    <3> QED  BY <1>1, <3>1, <3>2, <3>3 DEF Waits, Late
  <2>2. CASE BarrierEnter(t) /\ Active = 1
    <3>1. Team = {0} /\ t = 0 /\ pc[0] = "barrier"
      <4>1. Team = 0 .. 0
        BY <2>2 DEF Team
      <4> QED  BY <1>1, <2>2, <4>1 DEF BarrierEnter
    <3>2. n_barrier = Cardinality(Waiters) /\ Waiters = {}
      BY <3>1 DEF During, BarrierOK, Waiters, Waits
    <3> QED  BY <3>1, <3>2, FS_EmptySet
  <2> QED  BY <2>1, <2>2
<1>3. \A u \in Team : AtBarrier(u)
  BY <1>1, <1>2 DEF AtBarrier
<1>4. \A u \in Team : Joined(u) /\ <<node[u], ret[u]>> \in Exits(n, k)
  <2>1. TAKE u \in Team
  <2>2. ~ Out(u) /\ ~ Late(u) /\ pc[u] # "start" /\ pc[u] \notin {"node", "chunk", "after"}
    BY <1>3 DEF Out, OutPlaces, AtBarrier, Waits, Late
  <2> QED  BY <2>2 DEF During, Position, NotJoined, Behind, Inside
<1>5. \A u \in Team : node[u] = node[t] /\ ret[u] = ret[t]
  <2>1. \A u \in Team : <<node[u], ret[u]>> = <<node[t], ret[t]>>
    BY <1>1, <1>4, OneExit, TeamFacts DEF During
  <2> QED  BY <2>1
<1>6. \A w \in Threads \ Team : Out(w)' /\ ~ pending[w]
  <2>1. TAKE w \in Threads \ Team
  <2>2. Out(w) /\ ~ pending[w]
    BY DEF During
  <2>3. pc'[w] = pc[w] /\ ret'[w] = ret[w] /\ passed'[w] = passed[w] /\ passed[w] \in Nat
    BY <1>1 DEF Leave, Typed, TypeOK
  <2>4. Late(w) => passed[w] < n_barrier_passed
    BY <1>1, <2>3 DEF Typed, Late
  <2>5. Late(w) => Late(w)'
    BY <1>1, <2>3, <2>4 DEF Late
  <2> QED  BY <2>2, <2>3, <2>5 DEF Out
<1>7. PICK m \in Nat, r \in {"node", "chunk", "end"} : m = node[t] /\ r = ret[t]
  BY DEF Typed, TypeOK
<1>8. Opening(t, m, r)
  BY <1>1, <1>2, <1>3, <1>4, <1>5, <1>6, <1>7 DEF Opening
<1>9. \/ m \in WorkNodes(n, k) \ {Length} /\ r = "node"
      \/ m \in FillNodes(n, k) /\ r = "chunk"
      \/ m \in LastNodes(n, k) /\ r = "end"
  BY <1>1, <1>4, <1>7 DEF Exits
<1>10. CASE m \in WorkNodes(n, k) \ {Length} /\ r = "node"
  <2>1. During(m + 1, "node")'
    BY <1>8, <1>10, OpensNode
  <2>2. m + 1 \in Nat
    BY <1>7
  <2> QED  BY <2>1, <2>2
<1>11. CASE m \in FillNodes(n, k) /\ r = "chunk"
  <2>1. During(m, "chunk")'
    BY <1>8, <1>11, OpensChunk
  <2> QED  BY <1>7, <2>1
<1>12. CASE m \in LastNodes(n, k) /\ r = "end"
  BY <1>8, <1>12, OpensEnd
<1> QED  BY <1>9, <1>10, <1>11, <1>12

---------------------------------------------------------------------------
(* Steps between two graphs.                                               *)

LEMMA DuringStep ==
  ASSUME Typed, NEW n \in Nat, NEW k \in {"node", "chunk"}, During(n, k), NEW t \in Threads, ComputeStep(t)
  PROVE  Between' \/ \E i \in Nat, j \in {"node", "chunk"} : During(i, j)'
<1>1. CASE ComputeStart(t) \/ LoopEnds(t) \/ SkipEmpty(t) \/ ComputeShare(t) \/ FillBuffer(t)
  BY <1>1, StartInside, LoopEndsInside, SkipInside, ShareInside, FillInside
<1>2. CASE ComputeChunk(t) \/ NoMoreChunks(t) \/ AfterNode(t)
  BY <1>2, ChunkInside, NoMoreInside, AfterInside
<1>3. CASE BarrierArrive(t) \/ BarrierReset(t) \/ BarrierSpin(t)
  BY <1>3, ArriveInside, ResetInside, SpinInside
<1>4. CASE BarrierEnter(t) \/ BarrierOpen(t)
  BY <1>4, EnterInside, OpenInside
<1> QED  BY <1>1, <1>2, <1>3, <1>4 DEF ComputeStep

(* The counter of the barrier never exceeds the number of threads.         *)
LEMMA CounterBound ==
  ASSUME Typed, NEW n \in Nat, NEW k \in {"node", "chunk"}, During(n, k), n_graph' = n_graph,
         Between' \/ \E i \in Nat, j \in {"node", "chunk"} : During(i, j)'
  PROVE  n_barrier' \in 0 .. Pool
<1>1. Team' = Team /\ Active' = Active
  BY DEF Team, Active
<1>2. Active \in 1 .. Pool /\ IsFiniteSet(Team) /\ Cardinality(Team) = Active /\ Pool \in Nat
  BY TeamFacts, PoolAssumption
<1>3. IsFiniteSet(Waiters') /\ Cardinality(Waiters') <= Active
  <2>1. Waiters' \subseteq Team
    BY <1>1 DEF Waiters
  <2> QED  BY <1>2, <2>1, FS_Subset
<1>4. Cardinality(Waiters') \in Nat
  BY <1>3, FS_CardinalityType
<1>5. CASE Between'
  BY <1>2, <1>5 DEF Between
<1>6. CASE BarrierOK'
  BY <1>1, <1>2, <1>3, <1>4, <1>6 DEF BarrierOK
<1> QED  BY <1>5, <1>6 DEF During

LEMMA BetweenPlaces ==
  ASSUME Typed, Between, NEW t \in Threads
  PROVE  /\ IF t = 0 THEN pc[t] \in MainPlaces \/ Late(t) ELSE pc[t] \in OutPlaces \/ Late(t)
         /\ ~ pending[t]
         /\ Late(t) => ret[t] = "end"
BY ThreadFacts DEF Between, Out, Typed, Late, MainPlaces, OutPlaces

LEMMA SpinBetween ==
  ASSUME Typed, Between, NEW t \in Threads, ComputeStep(t)
  PROVE  Typed' /\ Between' /\ UNCHANGED <<graph, computed, ec>>
<1>1. BarrierSpin(t) /\ Late(t) /\ ret[t] = "end"
  <2>1. pc[t] \in Computing \cup {"spin"}
    BY ComputeMoves
  <2>2. (pc[t] \in MainPlaces \cup OutPlaces \/ Late(t)) /\ (Late(t) => ret[t] = "end")
    BY BetweenPlaces
  <2>3. pc[t] = "spin" /\ Late(t) /\ ret[t] = "end"
    BY <2>1, <2>2 DEF MainPlaces, OutPlaces, Computing, Late
  <2> QED  BY <2>3 DEF ComputeStep, ComputeStart, LoopEnds, SkipEmpty, ComputeShare, FillBuffer, ComputeChunk,
         NoMoreChunks, AfterNode, AtNode, BarrierEnter, BarrierArrive, BarrierReset, BarrierOpen, Goes
<1>2. /\ pc[t] = "spin" /\ pc'[t] = IF t = 0 THEN "return" ELSE "loop"
      /\ \A u \in Threads \ {t} : pc'[u] = pc[u]
      /\ UNCHANGED <<graph, n_graph, abort, computed, ec, n_barrier, n_barrier_passed, last_graph, pending, ret, passed>>
  BY <1>1 DEF BarrierSpin, Leave, Late, Typed, TypeOK, pool, work, ready
<1>3. Typed'
  <2>1. n_barrier' \in 0 .. Pool
    BY <1>2 DEF Typed, TypeOK
  <2> QED  BY <1>1, <2>1, ComputeTyped
<1>4. ASSUME NEW w \in Workers
      PROVE  Out(w)' /\ ~ pending'[w] /\ (w \in Team' => Joined(w)')
  <2>1. w \in Threads /\ w # 0
    BY ThreadFacts
  <2>2. Out(w) /\ ~ pending[w] /\ (w \in Team => Joined(w))
    BY DEF Between
  <2>3. Out(w)'
    BY <1>2, <2>1, <2>2 DEF Out, Late, OutPlaces
  <2> QED  BY <1>2, <2>2, <2>3 DEF Joined, Team, Active
<1>5. Finished' <=> Finished
  BY <1>2 DEF Finished, Complete, Untouched, Length, Nodes, Parts, ThreadsOf
<1>6. ASSUME t = 0  PROVE Between'
  <2>1. pc[0] = "spin" /\ pc'[0] = "return" /\ n_barrier' = 0 /\ graph' = graph
    BY <1>2, <1>6 DEF Between
  <2>2. graph \in 1 .. Len(Graphs) /\ Finished
    BY <2>1 DEF Between
  <2> QED  BY <1>4, <1>5, <2>1, <2>2 DEF Between, MainPlaces
<1>7. ASSUME t # 0  PROVE Between'
  <2>1. pc'[0] = pc[0] /\ (Late(0)' <=> Late(0))
    BY <1>2, <1>7, ThreadFacts DEF Late
  <2>2. NotComputed(graph)' = NotComputed(graph)
    BY <1>2 DEF NotComputed, NNodes, Parts, ThreadsOf
  <2>3. /\ n_barrier' = n_barrier /\ graph' = graph /\ ret'[0] = ret[0]
        /\ abort' = abort /\ computed' = computed
    BY <1>2
  <2> QED  BY <1>4, <1>5, <2>1, <2>2, <2>3 DEF Between
<1> QED  BY <1>2, <1>3, <1>6, <1>7

(* No worker takes up work: each has seen the last graph, or is not of its *)
(* team.                                                                   *)
LEMMA WorkerBetween ==
  ASSUME Typed, Between, NEW t \in Threads, WorkerStep(t)
  PROVE  Between' /\ UNCHANGED <<graph, computed, ec>> /\ pc'[0] = pc[0]
<1> USE DEF Goes
<1>1. t # 0 /\ t \in Workers /\ pc[t] \in OutPlaces
  BY ThreadFacts DEF Typed, WorkerStep, Loop, PauseWait, StopTest, Poll, CheckForWork, Work, OutPlaces
<1>2. UNCHANGED <<graph, n_graph, n_barrier, n_barrier_passed, passed, ret, node, abort, ec, computed>>
  BY DEF WorkerStep, Loop, PauseWait, StopTest, Poll, CheckForWork, Work, pool, sync, work, ctl
<1>3. /\ DOMAIN pc = Threads /\ DOMAIN pending = Threads /\ DOMAIN last_graph = Threads
      /\ (t < Active) \in BOOLEAN /\ ~ pending[t] /\ pending[t] = FALSE
  <2>1. pending \in [Threads -> BOOLEAN] /\ ~ pending[t]
    BY <1>1 DEF Typed, TypeOK, Between
  <2> QED  BY <2>1 DEF Typed, TypeOK
<1>4. (\E x : pc' = [pc EXCEPT ![t] = x]) /\ pc'[t] \in OutPlaces
  <2>1. CASE Loop(t) \/ PauseWait(t) \/ StopTest(t)
    BY <1>3, <2>1 DEF Loop, PauseWait, StopTest, OutPlaces
  <2>2. CASE Poll(t) \/ CheckForWork(t) \/ Work(t)
    BY <1>3, <2>2 DEF Poll, CheckForWork, Work, OutPlaces
  <2> QED  BY <2>1, <2>2 DEF WorkerStep
<1>5. /\ \A u \in Threads \ {t} : pending'[u] = pending[u] /\ last_graph'[u] = last_graph[u]
      /\ ~ pending'[t]
      /\ last_graph'[t] \in {last_graph[t], n_graph}
  <2>1. CASE Loop(t) \/ PauseWait(t) \/ StopTest(t)
    BY <1>3, <2>1 DEF Loop, PauseWait, StopTest, ready
  <2>2. CASE Poll(t) \/ CheckForWork(t)
    <3>1. CASE NewGraph(t)
      <4>1. pending' = [pending EXCEPT ![t] = t < Active] /\ last_graph' = [last_graph EXCEPT ![t] = n_graph]
        BY <2>2, <3>1 DEF Poll, CheckForWork, TestReady
      <4>2. t \notin Team
        BY <1>1, <3>1 DEF NewGraph, Between, Joined
      <4>3. t \in Nat /\ Active \in Nat
        BY DEF Threads, Typed, TypeOK, Active
      <4>4. ~ (t < Active)
        BY <4>2, <4>3 DEF Team
      <4> QED  BY <1>3, <4>1, <4>4
    <3>2. CASE ~ NewGraph(t)
      <4>1. UNCHANGED <<pending, last_graph>>
        BY <2>2, <3>2 DEF Poll, CheckForWork, TestReady, ready
      <4> QED  BY <1>3, <4>1
    <3> QED  BY <3>1, <3>2
  <2>3. CASE Work(t)
    BY <1>3, <2>3 DEF Work
  <2> QED  BY <2>1, <2>2, <2>3 DEF WorkerStep
<1>6. ASSUME NEW w \in Workers
      PROVE  Out(w)' /\ ~ pending'[w] /\ (w \in Team' => Joined(w)')
  <2>1. w \in Threads /\ w # 0
    BY ThreadFacts
  <2>2. Out(w) /\ ~ pending[w] /\ (w \in Team => Joined(w))
    BY DEF Between
  <2>3. w # t => pc'[w] = pc[w]
    BY <1>3, <1>4, <2>1
  <2>4. Out(w)'
    BY <1>2, <1>4, <2>2, <2>3 DEF Out, Late
  <2>5. w \in Team' => Joined(w)'
    BY <1>2, <1>5, <2>1, <2>2 DEF Joined, Team, Active
  <2> QED  BY <1>5, <2>1, <2>2, <2>4, <2>5
<1>7. pc'[0] = pc[0] /\ (Late(0)' <=> Late(0))
  BY <1>1, <1>2, <1>3, <1>4, ThreadFacts DEF Late
<1>8. Finished' <=> Finished
  BY <1>2 DEF Finished, Complete, Untouched, Length, Nodes, Parts, ThreadsOf
<1>9. NotComputed(graph)' = NotComputed(graph)
  BY <1>2 DEF NotComputed, NNodes, Parts, ThreadsOf
<1> QED  BY <1>2, <1>6, <1>7, <1>8, <1>9 DEF Between

---------------------------------------------------------------------------
(* The steps of the main thread.                                           *)

LEMMA MainIsOut ==
  ASSUME Typed, NEW n \in Nat, NEW k \in {"node", "chunk"}, During(n, k)
  PROVE  pc[0] \notin MainPlaces
<1>1. Position(0, n, k)
  BY TeamFacts DEF During
<1> QED  BY <1>1 DEF Position, NotJoined, Behind, Inside, AtBarrier, Waits, Late, MainPlaces

LEMMA WokenFacts ==
  ASSUME Typed
  PROVE  /\ Woken \in [Threads -> Computing \cup {"spin"} \cup MainPlaces \cup OutPlaces]
         /\ \A u \in Threads : /\ pc[u] \in OutPlaces <=> Woken[u] \in OutPlaces
                               /\ pc[u] \in MainPlaces <=> Woken[u] \in MainPlaces
                               /\ pc[u] \notin OutPlaces => Woken[u] = pc[u]
<1>1. pc \in [Threads -> Computing \cup {"spin"} \cup MainPlaces \cup OutPlaces]
  BY DEF Typed, TypeOK, MainPlaces, OutPlaces
<1>2. DOMAIN Woken = Threads
  BY DEF Woken
<1>3. ASSUME NEW u \in Threads
      PROVE  /\ Woken[u] \in Computing \cup {"spin"} \cup MainPlaces \cup OutPlaces
             /\ pc[u] \in OutPlaces <=> Woken[u] \in OutPlaces
             /\ pc[u] \in MainPlaces <=> Woken[u] \in MainPlaces
             /\ pc[u] \notin OutPlaces => Woken[u] = pc[u]
  BY <1>1 DEF Woken, OutPlaces, MainPlaces, Computing
<1>4. Woken = [u \in Threads |-> Woken[u]]
  BY DEF Woken
<1> QED  BY <1>3, <1>4

(* A step of the main thread that leaves the graph and the barrier alone,  *)
(* and moves workers between the places outside of a graph only.           *)
LEMMA MainKeeps ==
  ASSUME Typed, Between, NEW x \in MainPlaces \ {"kickoff"}, pc[0] \in MainPlaces,
         pc' = [u \in Threads |-> pc'[u]], pc'[0] = x, x = "return" => pc[0] = "return",
         \/ \A w \in Workers : pc'[w] = pc[w]
         \/ \A w \in Workers : pc'[w] = Woken[w],
         UNCHANGED <<graph, n_graph, sync, work, ctl, ready>>, stop' \in BOOLEAN, pause' \in BOOLEAN
  PROVE  Typed' /\ Between'
<1>1. UNCHANGED <<graph, n_graph, n_barrier, n_barrier_passed, passed, ret, current_chunk, mine, wdata, computed,
                  abort, ec, node, last_graph, pending>>
  BY DEF sync, work, ctl, ready
<1>2. /\ Team' = Team /\ Nodes' = Nodes /\ Length' = Length /\ Active' = Active
      /\ \A i : Parts(graph, i)' = Parts(graph, i)
  BY <1>1 DEF Team, Nodes, Length, Active, Parts, ThreadsOf
<1>3. ASSUME NEW w \in Workers
      PROVE  /\ pc'[w] \in Computing \cup {"spin"} \cup OutPlaces
             /\ pc[w] \in OutPlaces <=> pc'[w] \in OutPlaces
             /\ pc[w] \notin OutPlaces => pc'[w] = pc[w]
  <2>1. w \in Threads /\ pc[w] \notin MainPlaces
    BY ThreadFacts DEF Typed
  <2>2. pc[w] \in Computing \cup {"spin"} \cup MainPlaces \cup OutPlaces
    BY <2>1 DEF Typed, TypeOK, MainPlaces, OutPlaces
  <2>3. CASE pc'[w] = pc[w]
    BY <2>1, <2>2, <2>3
  <2>4. CASE pc'[w] = Woken[w]
    BY <2>1, <2>4, WokenFacts
  <2> QED  BY <2>3, <2>4
<1>4. pc' \in [Threads -> Computing \cup {"spin"} \cup MainPlaces \cup OutPlaces]
  <2>1. \A u \in Threads : pc'[u] \in Computing \cup {"spin"} \cup MainPlaces \cup OutPlaces
    BY <1>3, ThreadFacts
  <2> QED  BY <2>1
<1>5. TypeOK'
  BY <1>1, <1>2, <1>4 DEF Typed, TypeOK, NNodes, MainPlaces, OutPlaces
<1>6. \A u \in Threads : ~ pending[u]
  BY BetweenPlaces
<1>7. \A u \in Threads : pc'[u] \in {"arrive", "last", "open", "spin"} => passed'[u] <= n_barrier_passed'
  <2>1. TAKE u \in Threads
  <2>2. CASE u = 0
    BY <2>2 DEF MainPlaces
  <2>3. CASE u # 0
    <3>1. u \in Workers
      BY <2>3, ThreadFacts
    <3>2. pc'[u] \in {"arrive", "last", "open", "spin"} => pc'[u] = pc[u]
      BY <1>3, <3>1 DEF OutPlaces
    <3>3. pc[u] \in {"arrive", "last", "open", "spin"} => passed[u] <= n_barrier_passed
      BY DEF Typed
    <3> QED  BY <1>1, <3>2, <3>3
  <2> QED  BY <2>2, <2>3
<1>8. pc'[0] \notin OutPlaces /\ \A w \in Workers : pc'[w] \notin MainPlaces
  BY <1>3 DEF OutPlaces, MainPlaces, Computing
<1>9. (abort # -1 => ec = "aborted")' /\ (graph > 0 => DOMAIN computed = 1 .. Length)'
  BY <1>1, <1>2 DEF Typed
<1>10. Typed'
  <2>1. \A u \in Threads : ~ pending'[u]
    BY <1>1, <1>6
  <2> QED  BY <1>5, <1>7, <1>8, <1>9, <2>1 DEF Typed
<1>11. ASSUME NEW w \in Workers
       PROVE  Out(w)' /\ ~ pending'[w] /\ (w \in Team' => Joined(w)')
  <2>1. Out(w) /\ ~ pending[w] /\ (w \in Team => Joined(w))
    BY DEF Between
  <2>2. Late(w) => Late(w)'
    BY <1>1, <1>3 DEF Late, OutPlaces
  <2>3. Out(w)'
    BY <1>1, <1>3, <2>1, <2>2 DEF Out
  <2> QED  BY <1>1, <1>2, <2>1, <2>3 DEF Joined
<1>12. pc'[0] = "return" => graph' \in 1 .. Len(Graphs) /\ Finished'
  <2>1. pc'[0] = "return" => graph \in 1 .. Len(Graphs) /\ Finished
    BY DEF Between
  <2>2. Finished' <=> Finished
    BY <1>1, <1>2 DEF Finished, Complete, Untouched
  <2> QED  BY <1>1, <2>1, <2>2
<1>13. Between'
  <2>1. n_barrier' = 0
    BY <1>1 DEF Between
  <2>2. pc'[0] # "spin" /\ pc'[0] # "kickoff" /\ pc'[0] \in MainPlaces
    BY DEF MainPlaces
  <2> QED  BY <1>11, <1>12, <2>1, <2>2 DEF Between
<1> QED  BY <1>10, <1>13

LEMMA QuietMainStep ==
  ASSUME Typed, Between, Return \/ Pause \/ Resume \/ Free \/ Freed
  PROVE  Typed' /\ Between'
<1>1. DOMAIN pc = Threads /\ 0 \in Threads /\ pc = [u \in Threads |-> pc[u]]
  BY ThreadFacts DEF Typed, TypeOK
<1>2. DOMAIN Woken = Threads /\ \A u \in Threads : pc[u] \notin OutPlaces => Woken[u] = pc[u]
  BY WokenFacts DEF Woken
<1>3. stop \in BOOLEAN /\ pause \in BOOLEAN
  BY DEF Typed, TypeOK
<1>4. CASE Return \/ Freed
  <2>1. PICK x \in {"idle", "freed"} : pc' = [pc EXCEPT ![0] = x]
    BY <1>4 DEF Return, Freed, Goes
  <2>2. pc[0] \in MainPlaces /\ UNCHANGED <<graph, n_graph, stop, pause, sync, work, ctl, ready>>
    BY <1>4 DEF Return, Freed, Goes, pool, MainPlaces
  <2>3. pc' = [u \in Threads |-> pc'[u]] /\ pc'[0] = x /\ \A w \in Workers : pc'[w] = pc[w]
    BY <1>1, <2>1, ThreadFacts
  <2> QED  BY <1>3, <2>2, <2>3, MainKeeps DEF MainPlaces
<1>5. CASE Pause \/ Resume
  <2>1. pc' = Woken /\ pc[0] = "idle" /\ UNCHANGED <<graph, n_graph, stop, sync, work, ctl, ready>> /\ pause' \in BOOLEAN
    BY <1>5 DEF Pause, Resume
  <2>2. pc' = [u \in Threads |-> pc'[u]]
    BY <2>1 DEF Woken
  <2>3. pc'[0] = "idle"
    BY <1>1, <1>2, <2>1 DEF OutPlaces
  <2> QED  BY <1>3, <2>1, <2>2, <2>3, MainKeeps DEF MainPlaces
<1>6. CASE Free
  <2>1. /\ pc' = [Woken EXCEPT ![0] = "joining"] /\ pc[0] = "idle"
        /\ UNCHANGED <<graph, n_graph, sync, work, ctl, ready>> /\ stop' = TRUE /\ pause' = FALSE
    BY <1>6 DEF Free
  <2>2. pc' = [u \in Threads |-> pc'[u]] /\ pc'[0] = "joining" /\ \A w \in Workers : pc'[w] = Woken[w]
    BY <1>1, <1>2, <2>1, ThreadFacts
  <2> QED  BY <1>3, <2>1, <2>2, MainKeeps DEF MainPlaces
<1> QED  BY <1>4, <1>5, <1>6

LEMMA ComputeCallBetween ==
  ASSUME Typed, Between, GraphCompute
  PROVE  Typed' /\ Between'
<1>1. /\ pc[0] = "idle" /\ pc' = [pc EXCEPT ![0] = "kickoff"] /\ graph < Len(Graphs)
      /\ graph' = graph + 1 /\ computed' = NotComputed(graph + 1)
      /\ current_chunk' = 0 /\ abort' = -1 /\ ec' = "success"
      /\ UNCHANGED <<n_graph, stop, pause, n_barrier, n_barrier_passed, passed, ret, mine, wdata, node, last_graph, pending>>
  BY DEF GraphCompute, Goes, sync, ready
<1>2. graph' \in 1 .. Len(Graphs) /\ graph \in 0 .. Len(Graphs) /\ Len(Graphs) \in Nat
  BY <1>1, PoolAssumption DEF Typed, TypeOK
<1>3. pc' \in [Threads -> Computing \cup {"spin"} \cup MainPlaces \cup OutPlaces]
  BY <1>1 DEF Typed, TypeOK, MainPlaces, OutPlaces
<1>4. pc'[0] = "kickoff" /\ \A u \in Threads \ {0} : pc'[u] = pc[u]
  BY <1>1, ThreadFacts DEF Typed, TypeOK
<1>5. /\ DOMAIN computed' = 1 .. NNodes(graph + 1)
      /\ \A n \in 1 .. NNodes(graph + 1) : computed'[n] \in [Parts(graph + 1, n) -> Nat]
  BY <1>1 DEF NotComputed
<1>6. /\ NNodes(graph)' = NNodes(graph + 1) /\ Length' = NNodes(graph + 1)
      /\ \A n : Parts(graph, n)' = Parts(graph + 1, n)
      /\ NotComputed(graph)' = NotComputed(graph + 1)
  BY <1>1 DEF NNodes, Length, Nodes, Parts, ThreadsOf, NotComputed
<1>7. TypeOK'
  <2>1. wdata \in [Threads -> [graph : 0 .. Len(Graphs), node : Nat]]
    BY DEF Typed, TypeOK
  <2>2. (graph > 0 => \A n \in 1 .. NNodes(graph) : computed[n] \in [Parts(graph, n) -> Nat])'
    BY <1>5, <1>6
  <2>3. graph' \in 0 .. Len(Graphs) /\ current_chunk' \in Nat /\ abort' \in Int /\ ec' \in {"success", "aborted"}
    BY <1>1, <1>2
  <2> QED  BY <1>1, <1>3, <2>1, <2>2, <2>3 DEF Typed, TypeOK, MainPlaces, OutPlaces
<1>8. \A u \in Threads : ~ pending'[u]
  BY <1>1, BetweenPlaces
<1>9. \A u \in Threads : pc'[u] \in {"arrive", "last", "open", "spin"} => passed'[u] <= n_barrier_passed'
  <2>1. \A u \in Threads : pc'[u] \in {"arrive", "last", "open", "spin"} => pc[u] = pc'[u]
    BY <1>4
  <2> QED  BY <1>1, <2>1 DEF Typed
<1>10. pc'[0] \notin OutPlaces /\ \A w \in Workers : pc'[w] \notin MainPlaces
  BY <1>4, ThreadFacts DEF Typed, OutPlaces
<1>11. Typed'
  BY <1>1, <1>5, <1>6, <1>7, <1>8, <1>9, <1>10 DEF Typed
<1>12. ASSUME NEW w \in Workers
       PROVE  Out(w)' /\ ~ pending'[w] /\ (w \in Team' => Joined(w)')
  <2>1. Out(w) /\ ~ pending[w] /\ (w \in Team => Joined(w)) /\ pc'[w] = pc[w]
    BY <1>4, ThreadFacts DEF Between
  <2> QED  BY <1>1, <2>1 DEF Out, Late, Joined, Team, Active
<1>13. Between'
  <2>1. n_barrier' = 0 /\ abort' = -1 /\ computed' = NotComputed(graph)'
    BY <1>1, <1>6 DEF Between
  <2> QED  BY <1>2, <1>4, <1>12, <2>1 DEF Between, MainPlaces
<1> QED  BY <1>11, <1>13

(* All threads start in the first segment, whenever they see the graph.    *)
LEMMA KickoffStarts ==
  ASSUME Typed, Between, Kickoff
  PROVE  Typed' /\ During(1, "node")'
<1>1. /\ pc[0] = "kickoff" /\ pc' = [Woken EXCEPT ![0] = "start"]
      /\ n_graph' = [count |-> (n_graph.count + 1) % MaxCount, threads |-> ThreadsOf(graph)] /\ pause' = FALSE
      /\ UNCHANGED <<graph, stop, n_barrier, n_barrier_passed, passed, ret, current_chunk, mine, wdata, computed,
                     abort, ec, node, last_graph, pending>>
  BY DEF Kickoff, sync, work, ctl, ready
<1>2. graph \in 1 .. Len(Graphs) /\ abort = -1 /\ computed = NotComputed(graph) /\ n_barrier = 0
  BY <1>1 DEF Between
<1>3. /\ Active' = ThreadsOf(graph) /\ ThreadsOf(graph) \in 1 .. Pool
      /\ Nodes' = Nodes /\ Length' = Length /\ Length = NNodes(graph) /\ Length \in Nat
      /\ \A i : Parts(graph, i)' = Parts(graph, i)
      /\ \A m \in 1 .. Length : Nodes[m] \in Nat \cup {Shared}
      /\ n_graph' \in [count : 0 .. MaxCount - 1, threads : 0 .. Pool]
  <2>1. Active' = ThreadsOf(graph)
    BY <1>1 DEF Active
  <2>2. /\ Nodes' = Nodes /\ Length' = Length
        /\ \A i : Parts(graph, i)' = Parts(graph, i)
    BY <1>1 DEF Nodes, Length, Parts, ThreadsOf
  <2>3. /\ ThreadsOf(graph) \in 1 .. Pool /\ Length = NNodes(graph) /\ Length \in Nat
        /\ \A m \in 1 .. Length : Nodes[m] \in Nat \cup {Shared}
    BY <1>2, GraphFacts DEF NNodes, Length, Nodes
  <2>4. n_graph.count \in Nat
    BY DEF Typed, TypeOK
  <2>5. (n_graph.count + 1) % MaxCount \in 0 .. MaxCount - 1
    BY <2>4, PoolAssumption
  <2>6. n_graph' \in [count : 0 .. MaxCount - 1, threads : 0 .. Pool]
    BY <1>1, <2>3, <2>5, PoolAssumption
  <2> QED  BY <2>1, <2>2, <2>3, <2>6
<1>4. /\ pc'[0] = "start" /\ \A u \in Threads \ {0} : pc'[u] = Woken[u]
      /\ pc' \in [Threads -> Computing \cup {"spin"} \cup MainPlaces \cup OutPlaces]
  BY <1>1, ThreadFacts, WokenFacts DEF Computing
<1>5. ASSUME NEW w \in Workers
      PROVE  Out(w)' /\ pc'[w] \notin MainPlaces /\ pc'[w] \in OutPlaces \cup {"spin"} /\ ~ Waits(w)'
  <2>1. w \in Threads /\ w # 0 /\ (pc[w] \in OutPlaces \/ (Late(w) /\ ret[w] = "end")) /\ pc[w] \notin MainPlaces
    BY ThreadFacts DEF Between, Typed, Out
  <2>2. pc[w] \in OutPlaces => pc'[w] \in OutPlaces
    BY <1>4, <2>1, WokenFacts
  <2>3. pc[w] \notin OutPlaces => pc'[w] = "spin" /\ Late(w)' /\ ret'[w] = "end"
    BY <1>1, <1>4, <2>1, WokenFacts DEF Late
  <2> QED  BY <2>1, <2>2, <2>3 DEF Out, OutPlaces, MainPlaces, Waits, Late
<1>6. \A u \in Threads : ~ pending'[u]
  BY <1>1, BetweenPlaces
<1>7. TypeOK'
  BY <1>1, <1>3, <1>4 DEF Typed, TypeOK, NNodes, MainPlaces, OutPlaces, Length, Nodes
<1>8. \A u \in Threads : pc'[u] \in {"arrive", "last", "open", "spin"} => passed'[u] <= n_barrier_passed'
  <2>1. ASSUME NEW u \in Threads, pc'[u] \in {"arrive", "last", "open", "spin"}  PROVE pc[u] = pc'[u]
    <3>1. u # 0
      BY <1>4, <2>1
    <3>2. Woken[u] \notin OutPlaces
      BY <1>4, <2>1, <3>1 DEF OutPlaces
    <3> QED  BY <1>4, <3>1, <3>2, WokenFacts
  <2> QED  BY <1>1, <2>1 DEF Typed
<1>9. Typed'
  <2>1. (abort # -1 => ec = "aborted")' /\ (graph > 0 => DOMAIN computed = 1 .. Length)'
    BY <1>1, <1>3 DEF Typed
  <2>2. pc'[0] \notin OutPlaces
    BY <1>4 DEF OutPlaces
  <2> QED  BY <1>5, <1>6, <1>7, <1>8, <2>1, <2>2 DEF Typed
<1>10. Team' \subseteq Threads
  BY <1>3, PoolAssumption DEF Team, Threads
<1>11. \A u \in Threads : NotJoined(u, 1, "node")' /\ ~ AtBarrier(u)' /\ pc'[u] \in OutPlaces \cup {"spin", "start"}
  <2>1. NotJoined(0, 1, "node")' /\ ~ AtBarrier(0)'
    BY <1>4 DEF NotJoined, AtBarrier, Waits
  <2>2. ASSUME NEW w \in Workers  PROVE NotJoined(w, 1, "node")' /\ ~ AtBarrier(w)'
    <3>1. w # 0
      BY ThreadFacts
    <3> QED  BY <1>5, <3>1 DEF NotJoined, AtBarrier, OutPlaces
  <2> QED  BY <1>4, <1>5, <2>1, <2>2, ThreadFacts
<1>12. \A u \in Threads : (NotJoined(u, 1, "node")' /\ pc'[u] # "start") \/ Joined(u)'
  <2>1. Joined(0)'
    BY DEF Joined
  <2>2. \A w \in Workers : pc'[w] # "start"
    BY <1>5 DEF OutPlaces
  <2> QED  BY <1>11, <2>1, <2>2, ThreadFacts
<1>13. BarrierOK'
  <2>1. Waiters' = {}
    BY <1>10, <1>11 DEF Waiters, AtBarrier
  <2>2. \A u \in Team' : pc'[u] \notin {"arrive", "last", "open"}
    BY <1>10, <1>11 DEF OutPlaces
  <2>3. n_barrier' = Cardinality(Waiters')
    BY <1>1, <1>2, <2>1, FS_EmptySet
  <2> QED  BY <2>2, <2>3 DEF BarrierOK
<1>14. NodeParts(1)'
  <2>1. SUFFICES ASSUME NEW m \in 1 .. Length, NEW p \in Parts(graph, m)
                 PROVE  computed[m][p] = IF Nodes[m] = Shared /\ Done(p, m)' THEN 1 ELSE 0
    BY <1>1, <1>3 DEF NodeParts
  <2>2. computed[m][p] = 0
    BY <1>2, <1>3 DEF NotComputed
  <2>3. Nodes[m] = Shared => ~ Done(p, m)'
    <3>1. Nodes[m] = Shared => p \in Threads
      <4>1. Nodes[m] = Shared => Parts(graph, m) = 0 .. ThreadsOf(graph) - 1
        BY DEF Parts, Nodes
      <4> QED  BY <1>3, <4>1, PoolAssumption DEF Threads
    <3> QED  BY <1>11, <3>1 DEF Done, OutPlaces
  <2> QED  BY <2>2, <2>3
<1>15. Filled'
  BY <1>10, <1>11 DEF Filled
<1>16. AbortKnown(1, "node")'
  BY <1>1, <1>2 DEF AbortKnown
<1>17. \A w \in Threads \ Team' : Out(w)' /\ ~ pending'[w]
  <2>1. 0 \in Team'
    BY <1>3 DEF Team
  <2> QED  BY <1>5, <1>6, <2>1, ThreadFacts
<1>18. During(1, "node")'
  <2>1. graph' \in 1 .. Len(Graphs) /\ Active' = ThreadsOf(graph)'
    BY <1>1, <1>2, <1>3 DEF ThreadsOf
  <2>2. 1 \in 1 .. Length' + 1 /\ 1 .. 1 - 1 = {}
    BY <1>3
  <2>3. \A u \in Team' : Position(u, 1, "node")'
    BY <1>10, <1>11 DEF Position
  <2>4. \A u \in Team' : (NotJoined(u, 1, "node")' /\ pc'[u] # "start") \/ Joined(u)'
    BY <1>10, <1>12
  <2> QED  BY <1>13, <1>14, <1>15, <1>16, <1>17, <2>1, <2>2, <2>3, <2>4 DEF During
<1> QED  BY <1>9, <1>18

---------------------------------------------------------------------------
(* The invariant.                                                          *)

LEMMA InitPoolInv == Init => PoolInv
<1> SUFFICES ASSUME Init PROVE PoolInv
  OBVIOUS
<1>1. TypeOK
  <2>1. graph \in 0 .. Len(Graphs) /\ n_graph \in [count : 0 .. MaxCount - 1, threads : 0 .. Pool]
    <3>1. Len(Graphs) \in Nat
      BY PoolAssumption
    <3> QED  BY <3>1, PoolAssumption DEF Init, NoGraph
  <2>2. /\ n_barrier \in 0 .. Pool /\ n_barrier_passed \in Nat /\ current_chunk \in Nat /\ mine \in [Threads -> Nat]
        /\ stop \in BOOLEAN /\ pause \in BOOLEAN /\ abort \in Int /\ ec \in {"success", "aborted"}
        /\ pc \in [Threads -> MainPlaces \cup OutPlaces]
    <3>1. pause \in BOOLEAN
      BY PoolAssumption DEF Init
    <3>2. pc \in [Threads -> MainPlaces \cup OutPlaces]
      BY DEF Init, MainPlaces, OutPlaces
    <3>3. /\ n_barrier = 0 /\ n_barrier_passed = 0 /\ current_chunk = 0
          /\ stop = FALSE /\ abort = -1 /\ ec = "success" /\ mine = [t \in Threads |-> 0]
      BY DEF Init
    <3>4. stop \in BOOLEAN
      BY <3>3
    <3>5. /\ n_barrier \in 0 .. Pool /\ n_barrier_passed \in Nat /\ current_chunk \in Nat
          /\ abort \in Int /\ ec \in {"success", "aborted"} /\ mine \in [Threads -> Nat]
      BY <3>3, PoolAssumption
    <3> QED  BY <3>1, <3>2, <3>4, <3>5
  <2>3. /\ last_graph \in [Threads -> [count : 0 .. MaxCount - 1, threads : 0 .. Pool]]
        /\ pending \in [Threads -> BOOLEAN]
        /\ node \in [Threads -> Nat] /\ passed \in [Threads -> Nat]
        /\ ret \in [Threads -> {"node", "chunk", "end"}]
    <3>1. NoGraph \in [count : 0 .. MaxCount - 1, threads : 0 .. Pool]
      BY PoolAssumption DEF NoGraph
    <3> QED  BY <3>1 DEF Init
  <2>4. wdata \in [Threads -> [graph : 0 .. Len(Graphs), node : Nat]]
    <3>1. NoBuffer \in [graph : 0 .. Len(Graphs), node : Nat]
      BY PoolAssumption DEF NoBuffer
    <3> QED  BY <3>1 DEF Init
  <2>5. ~ (graph > 0)
    BY DEF Init
  <2> QED  BY <2>1, <2>2, <2>3, <2>4, <2>5 DEF TypeOK, MainPlaces, OutPlaces
<1>2. pc[0] = "idle" /\ \A w \in Workers : pc[w] = "loop"
  BY ThreadFacts DEF Init
<1>3. \A t \in Threads : ~ pending[t] /\ pc[t] \in {"idle", "loop"}
  BY DEF Init
<1>4. Typed
  <2>1. ~ (graph > 0) /\ abort = -1
    BY DEF Init
  <2> QED  BY <1>1, <1>2, <1>3, <2>1 DEF Typed, OutPlaces, MainPlaces
<1>5. Team = {}
  <2>1. Active = 0
    BY DEF Init, Active, NoGraph
  <2> QED  BY <2>1 DEF Team
<1>6. Between
  <2>1. n_barrier = 0
    BY DEF Init
  <2> QED  BY <1>2, <1>3, <1>5, <2>1, ThreadFacts DEF Between, Out, OutPlaces, MainPlaces
<1> QED  BY <1>4, <1>6 DEF PoolInv

LEMMA PoolInvStep == PoolInv /\ [Next]_vars => PoolInv'
<1> SUFFICES ASSUME PoolInv, [Next]_vars PROVE PoolInv'
  OBVIOUS
<1>1. Typed
  BY DEF PoolInv
<1>2. CASE UNCHANGED vars
  <2>1. UNCHANGED <<graph, n_graph, n_barrier, n_barrier_passed, current_chunk, stop, pause, abort, ec, pc,
                    last_graph, pending, node, passed, ret, mine, wdata, computed>>
    BY <1>2 DEF vars, pool, sync, work, ctl, ready
  <2>2. Typed'
    BY <1>1, <2>1 DEF Typed, TypeOK, Length, Nodes, NNodes, Parts, ThreadsOf, Active
  <2>3. Between => Between'
    <3>1. Finished' <=> Finished
      BY <2>1 DEF Finished, Complete, Untouched, Length, Nodes, Parts, ThreadsOf
    <3>2. NotComputed(graph)' = NotComputed(graph)
      BY <2>1 DEF NotComputed, NNodes, Parts, ThreadsOf
    <3>3. \A w \in Workers : (Out(w)' <=> Out(w)) /\ (Joined(w)' <=> Joined(w))
      BY <2>1 DEF Out, Late, Joined
    <3>4. (Late(0)' <=> Late(0)) /\ Team' = Team
      BY <2>1 DEF Late, Team, Active
    <3> QED  BY <2>1, <3>1, <3>2, <3>3, <3>4 DEF Between
  <2>4. ASSUME NEW n \in Nat, NEW k \in {"node", "chunk"}, During(n, k)
        PROVE  During(n, k)'
    <3>1. OthersStay(0) /\ 0 \in Threads /\ 0 \in Team
      BY <1>1, <2>1, <2>4, TeamFacts, ThreadFacts DEF OthersStay
    <3>2. SameSegment(n, k) /\ AbortKnown(n, k)' /\ \A m \in 1 .. n - 1 : Complete(m)'
      BY <2>1, <2>4, PastKept
    <3>3. /\ Position(0, n, k)' <=> Position(0, n, k)
          /\ NotJoined(0, n, k)' <=> NotJoined(0, n, k)
          /\ Joined(0)' <=> Joined(0)
      <4>1. /\ Late(0)' <=> Late(0)
            /\ AtBarrier(0)' <=> AtBarrier(0)
            /\ Joined(0)' <=> Joined(0)
        BY <2>1 DEF Late, AtBarrier, Waits, Joined
      <4>2. NotJoined(0, n, k)' <=> NotJoined(0, n, k)
        BY <2>1, <4>1 DEF NotJoined
      <4>3. Inside(0, n, k)' <=> Inside(0, n, k)
        BY <2>1, <3>2, <4>1, SegmentKept DEF Inside
      <4>4. Behind(0, n, k)' <=> Behind(0, n, k)
        BY <2>1, <4>1 DEF Behind
      <4> QED  BY <4>1, <4>2, <4>3, <4>4 DEF Position
    <3>4. Placed(0, n, k)'
      <4>1. 0 \in Team'
        BY <2>1, <3>1 DEF Team, Active
      <4> QED  BY <2>1, <2>4, <3>1, <3>3, <4>1 DEF Placed, During
    <3>5. BarrierOK'
      BY <2>1, <2>4 DEF During, BarrierOK, Team, Active, Waiters, Waits
    <3>6. Data(n, k)'
      <4>1. /\ Nodes' = Nodes /\ Length' = Length /\ Active' = Active /\ Team' = Team
            /\ \A i : Parts(graph, i)' = Parts(graph, i)
            /\ \A u : (AtBarrier(u)' <=> AtBarrier(u)) /\ (Holds(u)' <=> Holds(u))
        BY <2>1 DEF Nodes, Length, Active, Team, Parts, ThreadsOf, AtBarrier, Waits, Holds, Late
      <4>2. \A u, m : Done(u, m)' <=> Done(u, m)
        BY <2>1, <4>1 DEF Done
      <4>3. NodeParts(n)' <=> NodeParts(n)
        BY <2>1, <4>1, <4>2 DEF NodeParts
      <4>4. Filled' <=> Filled
        BY <2>1, <4>1 DEF Filled
      <4>5. ChunkParts(n)' <=> ChunkParts(n)
        BY <2>1, <4>1 DEF ChunkParts, Untouched
      <4> QED  BY <2>4, <4>3, <4>4, <4>5 DEF Data, During
    <3> QED  BY <1>1, <2>4, <3>1, <3>2, <3>4, <3>5, <3>6, DuringKept
  <2> QED  BY <2>2, <2>3, <2>4 DEF PoolInv
<1>3. ASSUME NEW t \in Threads, WorkerStep(t)  PROVE PoolInv'
  <2>1. Typed'
    BY <1>1, <1>3, WorkerTyped
  <2>2. Between => Between'
    BY <1>1, <1>3, WorkerBetween
  <2>3. \A n \in Nat, k \in {"node", "chunk"} : During(n, k) => During(n, k)'
    BY <1>1, <1>3, WorkerInside
  <2> QED  BY <2>1, <2>2, <2>3 DEF PoolInv
<1>4. ASSUME NEW t \in Threads, ComputeStep(t)  PROVE PoolInv'
  <2>1. CASE Between
    BY <1>1, <1>4, <2>1, SpinBetween DEF PoolInv
  <2>2. ASSUME NEW n \in Nat, NEW k \in {"node", "chunk"}, During(n, k)  PROVE PoolInv'
    <3>1. Between' \/ \E i \in Nat, j \in {"node", "chunk"} : During(i, j)'
      BY <1>1, <1>4, <2>2, DuringStep
    <3>2. n_graph' = n_graph
      BY <1>1, <1>4, ComputeMoves DEF pool
    <3>3. n_barrier' \in 0 .. Pool
      BY <1>1, <2>2, <3>1, <3>2, CounterBound
    <3>4. graph > 0
      BY <2>2 DEF During
    <3>5. Typed'
      BY <1>1, <1>4, <3>3, <3>4, ComputeTyped
    <3> QED  BY <3>1, <3>5 DEF PoolInv
  <2> QED  BY <2>1, <2>2 DEF PoolInv
<1>5. CASE MainStep
  <2>1. Between
    <3>1. pc[0] \in MainPlaces
      BY <1>5 DEF MainStep, GraphCompute, Kickoff, Return, Pause, Resume, Free, Freed, Goes, MainPlaces
    <3> QED  BY <1>1, <3>1, MainIsOut DEF PoolInv
  <2>2. CASE GraphCompute
    BY <1>1, <2>1, <2>2, ComputeCallBetween DEF PoolInv
  <2>3. CASE Kickoff
    <3>1. Typed' /\ During(1, "node")'
      BY <1>1, <2>1, <2>3, KickoffStarts
    <3> QED  BY <3>1 DEF PoolInv
  <2>4. CASE Return \/ Pause \/ Resume \/ Free \/ Freed
    BY <1>1, <2>1, <2>4, QuietMainStep DEF PoolInv
  <2> QED  BY <1>5, <2>2, <2>3, <2>4 DEF MainStep
<1> QED  BY <1>2, <1>3, <1>4, <1>5 DEF Next

LEMMA PoolInvHolds == Spec => []PoolInv
BY InitPoolInv, PoolInvStep, PTL DEF Spec

---------------------------------------------------------------------------
(* The theorems.                                                           *)

(* The variables of the pool have their types; the barrier's counter, in   *)
(* particular, never exceeds the number of threads.                        *)
THEOREM TypeCorrect == Spec => []TypeOK
<1>1. PoolInv => TypeOK
  BY DEF PoolInv, Typed
<1> QED  BY <1>1, PoolInvHolds, PTL

(* ggml_graph_compute(): "No worker threads should be accessing the        *)
(* parameters below at this stage".                                        *)
THEOREM WorkersStayOut == Spec => []WorkersAreOut
<1>1. ASSUME PoolInv, pc[0] \in {"idle", "kickoff", "joining", "freed"}, NEW w \in Workers
      PROVE  pc[w] \notin Computing /\ ~ pending[w]
  <2>1. Between
    BY <1>1, MainIsOut DEF PoolInv, MainPlaces
  <2> QED  BY <2>1 DEF Between, Out, OutPlaces, Computing, Late
<1>2. PoolInv => WorkersAreOut
  BY <1>1 DEF WorkersAreOut
<1> QED  BY <1>2, PoolInvHolds, PTL

(* A thread that computes chunks of a matrix multiplication reads the work *)
(* buffer that all active threads have filled for this very node.          *)
THEOREM BufferStaysWhole == Spec => []BufferIsWhole
<1>1. ASSUME PoolInv, NEW t \in Threads, pc[t] = "chunk", NEW u \in 0 .. Active - 1
      PROVE  wdata[u] = [graph |-> graph, node |-> node[t]]
  <2>1. ~ Between
    BY <1>1, BetweenPlaces DEF PoolInv, MainPlaces, OutPlaces, Late
  <2>2. PICK n \in Nat, k \in {"node", "chunk"} : During(n, k)
    BY <1>1, <2>1 DEF PoolInv
  <2>3. Inside(t, n, k)
    BY <1>1, <2>2, InGraph DEF PoolInv, Computing
  <2>4. k = "chunk" /\ node[t] = n
    BY <1>1, <2>3 DEF Inside, AtBarrier, Waits
  <2> QED  BY <1>1, <2>2, <2>4 DEF During, ChunkParts, Team
<1>2. PoolInv => BufferIsWhole
  BY <1>1 DEF BufferIsWhole
<1> QED  BY <1>2, PoolInvHolds, PTL

---------------------------------------------------------------------------
(* The pool implements GraphExecution.                                     *)

LEMMA InitExecution == Init => Execution!Init
BY ThreadFacts DEF Init, Execution!Init

(* A step that the caller does not see.                                    *)
Running == pc[0] \notin {"idle", "joining", "freed"}
Silent  == UNCHANGED <<graph, computed, ec>> /\ Running' = Running

LEMMA SilentStutters == Silent => UNCHANGED Execution!vars
BY DEF Silent, Running, Execution!vars

LEMMA MainExecution ==
  ASSUME PoolInv, MainStep
  PROVE  [Execution!Next]_(Execution!vars)
<1>1. Typed /\ pc[0] \in MainPlaces
  BY DEF PoolInv, MainStep, GraphCompute, Kickoff, Return, Pause, Resume, Free, Freed, Goes, MainPlaces
<1>2. Between
  BY <1>1, MainIsOut DEF PoolInv
<1>3. /\ DOMAIN pc = Threads /\ DOMAIN Woken = Threads /\ 0 \in Threads
      /\ pc[0] \notin OutPlaces => Woken[0] = pc[0]
  BY <1>1, ThreadFacts, WokenFacts DEF Typed, TypeOK, Woken
<1>4. CASE GraphCompute
  <2>1. /\ pc[0] = "idle" /\ pc'[0] = "kickoff" /\ graph < Len(Graphs) /\ graph' = graph + 1 /\ ec' = "success"
        /\ computed' = [n \in 1 .. NNodes(graph + 1) |-> [p \in Parts(graph + 1, n) |-> 0]]
    BY <1>3, <1>4 DEF GraphCompute, Goes, NotComputed
  <2>2. Execution!Start
    BY <2>1 DEF Execution!Start
  <2> QED  BY <2>2 DEF Execution!Next
<1>5. CASE Return
  <2>1. /\ pc[0] = "return" /\ pc'[0] = "idle" /\ UNCHANGED <<graph, computed, ec>>
    BY <1>3, <1>5 DEF Return, Goes, pool, work, ctl
  <2>2. Finished /\ Length = NNodes(graph)
    BY <1>2, <2>1 DEF Between, NNodes, Length, Nodes
  <2>3. PICK k \in 0 .. Length :
          /\ k = Length \/ ec = "aborted"
          /\ \A m \in 1 .. Length : IF m <= k THEN Complete(m) ELSE Untouched(m)
    BY <2>2 DEF Finished
  <2>4. \A m \in 1 .. Length : IF m <= k THEN Execution!Complete(m) ELSE Execution!Untouched(m)
    BY <2>3 DEF Complete, Untouched, Execution!Complete, Execution!Untouched
  <2>5. Execution!Return
    BY <2>1, <2>2, <2>3, <2>4 DEF Execution!Return
  <2> QED  BY <2>5 DEF Execution!Next
<1>6. CASE Kickoff \/ Pause \/ Resume \/ Free \/ Freed
  <2>1. UNCHANGED <<graph, computed, ec>>
    BY <1>6 DEF Kickoff, Pause, Resume, Free, Freed, pool, work, ctl
  <2>2. CASE Kickoff
    BY <1>3, <2>1, <2>2, SilentStutters DEF Kickoff, Silent, Running
  <2>3. CASE Pause \/ Resume
    <3>1. pc[0] = "idle" /\ pc'[0] = "idle"
      BY <1>3, <2>3 DEF Pause, Resume, OutPlaces
    <3> QED  BY <2>1, <3>1, SilentStutters DEF Silent, Running
  <2>4. CASE Free \/ Freed
    <3>1. pc[0] \in {"idle", "joining"} /\ pc'[0] \in {"joining", "freed"}
      BY <1>3, <2>4 DEF Free, Freed, Goes
    <3> QED  BY <2>1, <3>1, SilentStutters DEF Silent, Running
  <2> QED  BY <1>6, <2>2, <2>3, <2>4
<1> QED  BY <1>4, <1>5, <1>6 DEF MainStep

LEMMA ComputeExecution ==
  ASSUME PoolInv, NEW t \in Threads, ComputeStep(t)
  PROVE  [Execution!Next]_(Execution!vars)
<1>1. Typed
  BY DEF PoolInv
<1>2. Running' = Running
  <2>1. DOMAIN pc = Threads /\ 0 \in Threads
    BY <1>1, ThreadFacts DEF Typed, TypeOK
  <2>2. /\ pc[t] \in Computing \cup {"spin"}
        /\ \E x \in Computing \cup {"spin"} \cup (IF t = 0 THEN {"return"} ELSE {"loop"}) : pc' = [pc EXCEPT ![t] = x]
    BY <1>1, ComputeMoves
  <2>3. CASE t = 0
    <3>1. pc'[0] \in Computing \cup {"spin", "return"}
      BY <2>1, <2>2, <2>3
    <3> QED  BY <2>2, <2>3, <3>1 DEF Running, Computing
  <2>4. CASE t # 0
    <3>1. pc'[0] = pc[0]
      BY <2>1, <2>2, <2>4
    <3> QED  BY <3>1 DEF Running
  <2> QED  BY <2>3, <2>4
<1>3. CASE UNCHANGED <<graph, computed, ec>>
  BY <1>2, <1>3, SilentStutters DEF Silent
<1>4. CASE Between
  BY <1>1, <1>3, <1>4, SpinBetween
<1>5. ASSUME NEW n \in Nat, NEW k \in {"node", "chunk"}, During(n, k)
      PROVE  [Execution!Next]_(Execution!vars)
  <2>1. Running /\ Running'
    BY <1>1, <1>2, <1>5, MainIsOut DEF Running, MainPlaces
  <2>2. DOMAIN computed = 1 .. Length /\ n \in 1 .. Length + 1 /\ Length \in Nat /\ \A m \in 1 .. n - 1 : Complete(m)
    BY <1>1, <1>5, TeamFacts DEF During
  <2>3. ASSUME NEW m \in 1 .. Length, NEW p \in Parts(graph, m), computed[m][p] = 0,
               computed' = [computed EXCEPT ![m][p] = computed[m][p] + 1], UNCHANGED <<graph, ec>>,
               \A i \in 1 .. m - 1 : Complete(i)
        PROVE  Execution!Next
    <3>1. computed' = [computed EXCEPT ![m][p] = 1]
      BY <2>3
    <3>2. \A i \in 1 .. m - 1 : Execution!Complete(i)
      BY <2>3 DEF Complete, Execution!Complete
    <3>3. Execution!Compute(m, p)
      BY <2>1, <2>3, <3>1, <3>2 DEF Execution!Compute, Running
    <3> QED  BY <2>2, <3>3 DEF Execution!Next
  <2>4. CASE ComputeShare(t)
    <3>1. PICK m : m = node[t]
      OBVIOUS
    <3>2. m \in n .. Length /\ t \in Parts(graph, m) /\ computed[m][t] = 0 /\ \A i \in 1 .. m - 1 : Complete(i)
      BY <1>1, <1>5, <2>4, <3>1, ShareInside
    <3>3. computed' = [computed EXCEPT ![m][t] = computed[m][t] + 1] /\ UNCHANGED <<graph, ec>>
      BY <2>4, <3>1 DEF ComputeShare, pool, ctl
    <3>4. m \in 1 .. Length
      BY <2>2, <3>2
    <3> QED  BY <2>3, <3>2, <3>3, <3>4
  <2>5. CASE ComputeChunk(t)
    <3>1. PICK p : p = mine[t]
      OBVIOUS
    <3>2. node[t] = n /\ n \in 1 .. Length /\ p \in Parts(graph, n) /\ computed[n][p] = 0
      BY <1>1, <1>5, <2>5, <3>1, ChunkInside
    <3>3. computed' = [computed EXCEPT ![n][p] = computed[n][p] + 1] /\ UNCHANGED <<graph, ec>>
      BY <2>5, <3>1, <3>2 DEF ComputeChunk, pool, ctl
    <3> QED  BY <2>2, <2>3, <3>2, <3>3
  <2>6. CASE AfterNode(t)
    <3>1. UNCHANGED <<graph, computed>> /\ (ec' = ec \/ ec' = "aborted")
      BY <2>6 DEF AfterNode, pool, work
    <3>2. CASE ec' = ec
      BY <1>3, <3>1, <3>2
    <3>3. CASE ec' = "aborted"
      <4>1. Execution!Abort
        BY <2>1, <3>1, <3>3 DEF Execution!Abort, Running
      <4> QED  BY <4>1 DEF Execution!Next
    <3> QED  BY <3>1, <3>2, <3>3
  <2>7. CASE ComputeStart(t) \/ LoopEnds(t) \/ SkipEmpty(t) \/ FillBuffer(t) \/ NoMoreChunks(t)
    <3>1. UNCHANGED <<graph, computed, ec>>
      BY <2>7 DEF ComputeStart, LoopEnds, SkipEmpty, FillBuffer, NoMoreChunks, pool, work, ctl
    <3> QED  BY <1>3, <3>1
  <2>8. CASE BarrierEnter(t) \/ BarrierArrive(t) \/ BarrierReset(t) \/ BarrierOpen(t) \/ BarrierSpin(t)
    <3>1. UNCHANGED <<graph, computed, ec>>
      BY <2>8 DEF BarrierEnter, BarrierArrive, BarrierReset, BarrierOpen, BarrierSpin, pool, work, ctl
    <3> QED  BY <1>3, <3>1
  <2> QED  BY <2>4, <2>5, <2>6, <2>7, <2>8 DEF ComputeStep
<1> QED  BY <1>4, <1>5 DEF PoolInv

LEMMA StepExecution == PoolInv /\ [Next]_vars => [Execution!Next]_(Execution!vars)
<1> SUFFICES ASSUME PoolInv, [Next]_vars PROVE [Execution!Next]_(Execution!vars)
  OBVIOUS
<1>1. CASE UNCHANGED vars
  <2>1. Silent
    BY <1>1 DEF vars, pool, work, ctl, Silent, Running
  <2> QED  BY <2>1, SilentStutters
<1>2. CASE MainStep
  BY <1>2, MainExecution
<1>3. ASSUME NEW t \in Threads, WorkerStep(t)
      PROVE  [Execution!Next]_(Execution!vars)
  <2>1. t # 0
    BY <1>3, ThreadFacts DEF PoolInv, Typed, WorkerStep, Loop, PauseWait, StopTest, Poll, CheckForWork, Work, Goes, OutPlaces
  <2>2. UNCHANGED <<graph, computed, ec>> /\ \E x : pc' = [pc EXCEPT ![t] = x]
    BY <1>3 DEF WorkerStep, Loop, PauseWait, StopTest, Poll, CheckForWork, Work, Goes, pool, work, ctl
  <2>3. pc'[0] = pc[0]
    BY <2>1, <2>2, ThreadFacts DEF PoolInv, Typed, TypeOK
  <2> QED  BY <2>2, <2>3, SilentStutters DEF Silent, Running
<1>4. ASSUME NEW t \in Threads, ComputeStep(t)
      PROVE  [Execution!Next]_(Execution!vars)
  BY <1>4, ComputeExecution
<1> QED  BY <1>1, <1>2, <1>3, <1>4 DEF Next

(* The pool computes the graphs as GraphExecution says: the nodes in       *)
(* order, every part once, and an abort at a node boundary for all threads *)
(* alike, however the threads interleave and whenever a worker wakes up.   *)
THEOREM ImplementsExecution == Spec => ExecutesGraphs
<1>1. Spec => Execution!Init /\ [][Execution!Next]_(Execution!vars)
  BY InitExecution, StepExecution, PoolInvHolds, PTL DEF Spec
<1> QED  BY <1>1 DEF ExecutesGraphs, Execution!Spec
=============================================================================
