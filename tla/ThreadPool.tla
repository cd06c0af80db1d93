----------------------------- MODULE ThreadPool -----------------------------
(***************************************************************************)
(* The thread pool of the CPU backend (ggml-cpu.c, without OpenMP): a main *)
(* thread that computes graphs with the worker threads, the barrier they   *)
(* meet at, the chunk counter of a matrix multiplication, and pausing,     *)
(* resuming and freeing the pool.  One action is one access to a shared    *)
(* atomic, or one critical section of `mutex`.                             *)
(*                                                                         *)
(* A node is empty (a NOP, or one that is not to be computed), shared (a   *)
(* part for every thread) or chunked: a matrix multiplication, for which   *)
(* every thread first converts its part of src1 into the work buffer and   *)
(* then takes chunks that read the whole buffer.  Left out: the numbers,   *)
(* priorities, affinities, and the memory orders of the atomics.           *)
(***************************************************************************)
EXTENDS Integers, Sequences

CONSTANTS
  Pool,       \* n_threads of the pool, the main thread included
  Graphs,     \* the graphs: [threads, nodes], in the order of the calls
  MayAbort,   \* whether the abort callback may ask to stop
  MayPause,   \* whether the main thread pauses and resumes the pool
  MaxCount    \* bound: graph counts are kept modulo this number

(* A node is 0 when it is empty, Shared, or a number of chunks.            *)
Shared == -1
Threads == 0 .. Pool - 1
Workers == 1 .. Pool - 1

ASSUME PoolAssumption ==
  /\ Pool \in Nat \ {0} /\ MaxCount \in Nat \ {0, 1}
  /\ Graphs \in Seq([threads : Nat \ {0}, nodes : Seq(Nat \cup {Shared})])
  /\ MayAbort \in BOOLEAN /\ MayPause \in BOOLEAN

VARIABLES
  graph,            \* cgraph and cplan: the index of the graph
  n_graph,          \* [count, threads]: graph count and active threads
  n_barrier, n_barrier_passed, current_chunk,
  stop, pause, abort, ec,
  pc,               \* pc[t]: where thread t is
  last_graph, pending,
  node,             \* node[t]: the node that t is at
  passed,           \* passed[t]: n_barrier_passed when t entered the barrier
  ret,              \* ret[t]: where t goes from the barrier
  mine,             \* mine[t]: the chunk of t
  wdata,            \* wdata[t]: the node that t's part of the work buffer is for
  computed          \* computed[n][p]: how often part p of node n was computed

pool  == <<graph, n_graph, stop, pause>>
sync  == <<n_barrier, n_barrier_passed, passed, ret>>
work  == <<current_chunk, mine, wdata, computed>>
ctl   == <<abort, ec, node>>
ready == <<last_graph, pending>>
vars  == <<pool, sync, work, ctl, ready, pc>>

Nodes     == Graphs[graph].nodes
Active    == n_graph.threads
NoGraph   == [count |-> 0, threads |-> 0]
NoBuffer  == [graph |-> 0, node |-> 0]
Min2(x, y) == IF x < y THEN x ELSE y

(* The pool never uses more threads than it has.                           *)
ThreadsOf(g) == Min2(Graphs[g].threads, Pool)
NNodes(g)    == Len(Graphs[g].nodes)
Parts(g, n)  ==
  LET k == Graphs[g].nodes[n]
  IN IF k = Shared THEN 0 .. ThreadsOf(g) - 1 ELSE 0 .. k - 1

NotComputed(g) == [n \in 1 .. NNodes(g) |-> [p \in Parts(g, n) |-> 0]]

Init ==
  /\ graph = 0 /\ n_graph = NoGraph
  /\ n_barrier = 0 /\ n_barrier_passed = 0 /\ current_chunk = 0
  /\ stop = FALSE /\ pause \in {FALSE, MayPause}
  /\ abort = -1 /\ ec = "success"
  /\ pc = [t \in Threads |-> IF t = 0 THEN "idle" ELSE "loop"]
  /\ last_graph = [t \in Threads |-> NoGraph] /\ pending = [t \in Threads |-> FALSE]
  /\ node = [t \in Threads |-> 0] /\ passed = [t \in Threads |-> 0]
  /\ ret = [t \in Threads |-> "end"] /\ mine = [t \in Threads |-> 0]
  /\ wdata = [t \in Threads |-> NoBuffer]
  /\ computed = <<>>

Goes(t, from, to) == pc[t] = from /\ pc' = [pc EXCEPT ![t] = to]

(* ggml_cond_broadcast(): the sleepers test their condition again.         *)
Woken == [t \in Threads |-> CASE pc[t] = "asleep" -> "lock"
                              [] pc[t] = "paused" -> "loop"
                              [] OTHER            -> pc[t]]

---------------------------------------------------------------------------
(* ggml_graph_compute_secondary_thread().                                  *)

Loop(t) ==
  /\ Goes(t, "loop", IF pause THEN "pausing" ELSE "stopping")
  /\ UNCHANGED <<pool, sync, work, ctl, ready>>

(* The lock is taken and the flag tested again before the wait.            *)
PauseWait(t) ==
  /\ Goes(t, "pausing", IF pause THEN "paused" ELSE "loop")
  /\ UNCHANGED <<pool, sync, work, ctl, ready>>

StopTest(t) ==
  /\ Goes(t, "stopping", IF stop THEN "exited" ELSE "poll")
  /\ UNCHANGED <<pool, sync, work, ctl, ready>>

(* ggml_graph_compute_thread_ready(), called without and with the lock.    *)
NewGraph(t) == ~ stop /\ ~ pause /\ n_graph # last_graph[t]
IsReady(t)  == pending[t] \/ stop \/ pause \/ n_graph # last_graph[t]

TestReady(t) ==
  IF NewGraph(t)
  THEN /\ pending' = [pending EXCEPT ![t] = t < Active]
       /\ last_graph' = [last_graph EXCEPT ![t] = n_graph]
  ELSE UNCHANGED ready

(* Polling ends with work, or with the lock.                               *)
Poll(t) ==
  /\ TestReady(t)
  /\ Goes(t, "poll", IF pending'[t] THEN "work" ELSE "lock")
  /\ UNCHANGED <<pool, sync, work, ctl>>

CheckForWork(t) ==
  /\ TestReady(t)
  /\ Goes(t, "lock", IF IsReady(t) THEN "work" ELSE "asleep")
  /\ UNCHANGED <<pool, sync, work, ctl>>

Work(t) ==
  /\ Goes(t, "work", IF pending[t] THEN "start" ELSE "loop")
  /\ pending' = [pending EXCEPT ![t] = FALSE]
  /\ UNCHANGED <<pool, sync, work, ctl, last_graph>>

---------------------------------------------------------------------------
(* ggml_graph_compute_thread(), by the main thread and the active workers. *)

ComputeStart(t) ==
  /\ Goes(t, "start", "node")
  /\ node' = [node EXCEPT ![t] = 1]
  /\ UNCHANGED <<pool, sync, work, abort, ec, ready>>

Kind(t) == Nodes[node[t]]

(* Mutant of LoopEnds: no barrier at the end of a graph.                   *)
LoopEndsAlone(t) ==
  /\ pc[t] = "node" /\ (node[t] > Len(Nodes) \/ abort = node[t])
  /\ pc' = [pc EXCEPT ![t] = IF t = 0 THEN "return" ELSE "loop"]
  /\ UNCHANGED <<pool, sync, work, ctl, ready>>

(* The end of the loop: the last node, or the one to abort at.             *)
LoopEnds(t) ==
  /\ pc[t] = "node" /\ (node[t] > Len(Nodes) \/ abort = node[t])
  /\ pc' = [pc EXCEPT ![t] = "barrier"] /\ ret' = [ret EXCEPT ![t] = "end"]
  /\ UNCHANGED <<pool, n_barrier, n_barrier_passed, passed, work, ctl, ready>>

AtNode(t) == pc[t] = "node" /\ node[t] <= Len(Nodes) /\ abort # node[t]

SkipEmpty(t) ==
  /\ AtNode(t) /\ Kind(t) = 0
  /\ node' = [node EXCEPT ![t] = @ + 1]
  /\ UNCHANGED <<pool, sync, work, abort, ec, ready, pc>>

ComputeShare(t) ==
  /\ AtNode(t) /\ Kind(t) = Shared
  /\ computed' = [computed EXCEPT ![node[t]][t] = @ + 1]
  /\ Goes(t, "node", "after")
  /\ UNCHANGED <<pool, sync, current_chunk, mine, wdata, ctl, ready>>

(* Mutants of FillBuffer: no barrier before the chunks; the counter starts *)
(* at 0, not after the chunks that the threads start with.                 *)
FillBufferAlone(t) ==
  /\ AtNode(t) /\ Kind(t) > 0
  /\ wdata' = [wdata EXCEPT ![t] = [graph |-> graph, node |-> node[t]]]
  /\ mine' = [mine EXCEPT ![t] = t]
  /\ current_chunk' = IF t = 0 THEN Active ELSE current_chunk
  /\ Goes(t, "node", "chunk")
  /\ UNCHANGED <<pool, sync, computed, ctl, ready>>

FillBufferFromZero(t) ==
  /\ AtNode(t) /\ Kind(t) > 0
  /\ wdata' = [wdata EXCEPT ![t] = [graph |-> graph, node |-> node[t]]]
  /\ mine' = [mine EXCEPT ![t] = t]
  /\ current_chunk' = IF t = 0 THEN 0 ELSE current_chunk
  /\ Goes(t, "node", "barrier") /\ ret' = [ret EXCEPT ![t] = "chunk"]
  /\ UNCHANGED <<pool, n_barrier, n_barrier_passed, passed, computed, ctl, ready>>

(* ggml_compute_forward_mul_mat(), up to its barrier: thread 0 resets the  *)
(* chunk counter, the first chunk of a thread is its own number.           *)
FillBuffer(t) ==
  /\ AtNode(t) /\ Kind(t) > 0
  /\ wdata' = [wdata EXCEPT ![t] = [graph |-> graph, node |-> node[t]]]
  /\ mine' = [mine EXCEPT ![t] = t]
  /\ current_chunk' = IF t = 0 THEN Active ELSE current_chunk
  /\ Goes(t, "node", "barrier") /\ ret' = [ret EXCEPT ![t] = "chunk"]
  /\ UNCHANGED <<pool, n_barrier, n_barrier_passed, passed, computed, ctl, ready>>

(* A chunk, and the number of the next one unless all of them were dealt   *)
(* out at first.                                                           *)
ComputeChunk(t) ==
  /\ pc[t] = "chunk" /\ mine[t] < Kind(t)
  /\ computed' = [computed EXCEPT ![node[t]][mine[t]] = @ + 1]
  /\ IF Active >= Kind(t)
     THEN Goes(t, "chunk", "after") /\ UNCHANGED <<current_chunk, mine>>
     ELSE /\ mine' = [mine EXCEPT ![t] = current_chunk]
          /\ current_chunk' = current_chunk + 1
          /\ UNCHANGED pc
  /\ UNCHANGED <<pool, sync, wdata, ctl, ready>>

NoMoreChunks(t) ==
  /\ Goes(t, "chunk", "after") /\ mine[t] >= Kind(t)
  /\ UNCHANGED <<pool, sync, work, ctl, ready>>

(* Mutant of AfterNode: the abort is for the node that was just computed.  *)
AfterNodeAbortsHere(t) ==
  /\ pc[t] = "after"
  /\ IF node[t] < Len(Nodes)
     THEN Goes(t, "after", "barrier") /\ ret' = [ret EXCEPT ![t] = "node"] /\ UNCHANGED node
     ELSE Goes(t, "after", "node") /\ node' = [node EXCEPT ![t] = @ + 1] /\ UNCHANGED ret
  /\ \/ UNCHANGED <<abort, ec>>
     \/ t = 0 /\ MayAbort /\ abort' = node[t] /\ ec' = "aborted"
  /\ UNCHANGED <<pool, n_barrier, n_barrier_passed, passed, work, ready>>

(* Thread 0 asks the callback; there is no barrier after the last node.    *)
AfterNode(t) ==
  /\ pc[t] = "after"
  /\ IF node[t] < Len(Nodes)
     THEN Goes(t, "after", "barrier") /\ ret' = [ret EXCEPT ![t] = "node"] /\ UNCHANGED node
     ELSE Goes(t, "after", "node") /\ node' = [node EXCEPT ![t] = @ + 1] /\ UNCHANGED ret
  /\ \/ UNCHANGED <<abort, ec>>
     \/ t = 0 /\ MayAbort /\ abort' = node[t] + 1 /\ ec' = "aborted"
  /\ UNCHANGED <<pool, n_barrier, n_barrier_passed, passed, work, ready>>

---------------------------------------------------------------------------
(* ggml_barrier().                                                         *)

Leave(t) ==
  /\ pc' = [pc EXCEPT ![t] = IF ret[t] = "end" THEN (IF t = 0 THEN "return" ELSE "loop") ELSE ret[t]]
  /\ node' = IF ret[t] = "node" THEN [node EXCEPT ![t] = @ + 1] ELSE node

BarrierEnter(t) ==
  /\ pc[t] = "barrier"
  /\ IF Active = 1
     THEN Leave(t) /\ UNCHANGED passed
     ELSE /\ passed' = [passed EXCEPT ![t] = n_barrier_passed]
          /\ Goes(t, "barrier", "arrive")
          /\ UNCHANGED node
  /\ UNCHANGED <<pool, n_barrier, n_barrier_passed, ret, work, abort, ec, ready>>

BarrierArrive(t) ==
  /\ Goes(t, "arrive", IF n_barrier = Active - 1 THEN "last" ELSE "spin")
  /\ n_barrier' = n_barrier + 1
  /\ UNCHANGED <<pool, n_barrier_passed, passed, ret, work, ctl, ready>>

(* Mutant of BarrierReset: the last thread does not reset the counter.     *)
BarrierKeeps(t) ==
  /\ Goes(t, "last", "open")
  /\ UNCHANGED <<pool, sync, work, ctl, ready>>

BarrierReset(t) ==
  /\ Goes(t, "last", "open")
  /\ n_barrier' = 0
  /\ UNCHANGED <<pool, n_barrier_passed, passed, ret, work, ctl, ready>>

BarrierOpen(t) ==
  /\ pc[t] = "open"
  /\ n_barrier_passed' = n_barrier_passed + 1
  /\ Leave(t)
  /\ UNCHANGED <<pool, n_barrier, passed, ret, work, abort, ec, ready>>

BarrierSpin(t) ==
  /\ pc[t] = "spin" /\ n_barrier_passed # passed[t]
  /\ Leave(t)
  /\ UNCHANGED <<pool, n_barrier, n_barrier_passed, passed, ret, work, abort, ec, ready>>

---------------------------------------------------------------------------
(* The main thread.                                                        *)

(* ggml_graph_compute(): "No worker threads should be accessing the        *)
(* parameters below at this stage".                                        *)
GraphCompute ==
  /\ Goes(0, "idle", "kickoff") /\ graph < Len(Graphs)
  /\ graph' = graph + 1 /\ computed' = NotComputed(graph + 1)
  /\ current_chunk' = 0 /\ abort' = -1 /\ ec' = "success"
  /\ UNCHANGED <<n_graph, stop, pause, sync, mine, wdata, node, ready>>

(* ggml_graph_compute_kickoff(), which also resumes a paused pool.         *)
Kickoff ==
  /\ pc[0] = "kickoff"
  /\ n_graph' = [count |-> (n_graph.count + 1) % MaxCount, threads |-> ThreadsOf(graph)]
  /\ pause' = FALSE
  /\ pc' = [Woken EXCEPT ![0] = "start"]
  /\ UNCHANGED <<graph, stop, sync, work, ctl, ready>>

Return ==
  /\ Goes(0, "return", "idle")
  /\ UNCHANGED <<pool, sync, work, ctl, ready>>

Pause ==
  /\ MayPause /\ pc[0] = "idle" /\ ~ pause
  /\ pause' = TRUE
  /\ pc' = Woken
  /\ UNCHANGED <<graph, n_graph, stop, sync, work, ctl, ready>>

Resume ==
  /\ MayPause /\ pc[0] = "idle" /\ pause
  /\ pause' = FALSE
  /\ pc' = Woken
  /\ UNCHANGED <<graph, n_graph, stop, sync, work, ctl, ready>>

(* Mutant of Free: a paused pool stays paused.                             *)
FreePaused ==
  /\ pc[0] = "idle"
  /\ stop' = TRUE
  /\ pc' = [Woken EXCEPT ![0] = "joining"]
  /\ UNCHANGED <<graph, n_graph, pause, sync, work, ctl, ready>>

(* ggml_threadpool_free() joins the workers.                               *)
Free ==
  /\ pc[0] = "idle"
  /\ stop' = TRUE /\ pause' = FALSE
  /\ pc' = [Woken EXCEPT ![0] = "joining"]
  /\ UNCHANGED <<graph, n_graph, sync, work, ctl, ready>>

Freed ==
  /\ Goes(0, "joining", "freed") /\ \A w \in Workers : pc[w] = "exited"
  /\ UNCHANGED <<pool, sync, work, ctl, ready>>

MainStep == GraphCompute \/ Kickoff \/ Return \/ Pause \/ Resume \/ Free \/ Freed
WorkerStep(t) == Loop(t) \/ PauseWait(t) \/ StopTest(t) \/ Poll(t) \/ CheckForWork(t) \/ Work(t)
ComputeStep(t) ==
  \/ ComputeStart(t) \/ LoopEnds(t) \/ SkipEmpty(t) \/ ComputeShare(t)
  \/ FillBuffer(t) \/ ComputeChunk(t) \/ NoMoreChunks(t) \/ AfterNode(t)
  \/ BarrierEnter(t) \/ BarrierArrive(t) \/ BarrierReset(t) \/ BarrierOpen(t) \/ BarrierSpin(t)

Next == MainStep \/ \E t \in Threads : WorkerStep(t) \/ ComputeStep(t)

Spec == Init /\ [][Next]_vars

(* Every thread that can run does.  The main thread may keep the pool idle *)
(* or paused for as long as it likes.                                      *)
PoolFairness ==
  /\ \A t \in Threads : WF_vars(WorkerStep(t) \/ ComputeStep(t))
  /\ WF_vars(Kickoff \/ Return \/ Freed)
FairSpec == Spec /\ PoolFairness

---------------------------------------------------------------------------
(* Properties.                                                             *)

Computing == {"start", "node", "chunk", "after", "barrier", "arrive", "last", "open"}

TypeOK ==
  /\ graph \in 0 .. Len(Graphs)
  /\ n_graph \in [count : 0 .. MaxCount - 1, threads : 0 .. Pool]
  /\ n_barrier \in 0 .. Pool /\ n_barrier_passed \in Nat
  /\ current_chunk \in Nat /\ mine \in [Threads -> Nat]
  /\ stop \in BOOLEAN /\ pause \in BOOLEAN
  /\ abort \in Int /\ ec \in {"success", "aborted"}
  /\ pc \in [Threads -> Computing \cup {"spin", "idle", "kickoff", "return", "joining", "freed", "loop", "pausing", "paused", "stopping", "poll", "lock", "asleep", "work", "exited"}]
  /\ last_graph \in [Threads -> [count : 0 .. MaxCount - 1, threads : 0 .. Pool]]
  /\ pending \in [Threads -> BOOLEAN]
  /\ node \in [Threads -> Nat] /\ passed \in [Threads -> Nat]
  /\ ret \in [Threads -> {"node", "chunk", "end"}]
  /\ wdata \in [Threads -> [graph : 0 .. Len(Graphs), node : Nat]]
  /\ graph > 0 => \A n \in 1 .. NNodes(graph) : computed[n] \in [Parts(graph, n) -> Nat]

(* "No worker threads should be accessing the parameters below": while the *)
(* main thread is outside of a graph no worker is inside of one, a worker  *)
(* that has yet to see that the last barrier is open excepted.             *)
WorkersAreOut ==
  pc[0] \in {"idle", "kickoff", "joining", "freed"} =>
    \A w \in Workers : pc[w] \notin Computing /\ ~ pending[w]

(* A thread that computes chunks reads the parts of the work buffer that   *)
(* all active threads filled for this node: none is late, none is ahead.   *)
BufferIsWhole ==
  \A t \in Threads : pc[t] = "chunk" =>
    \A u \in 0 .. Active - 1 : wdata[u] = [graph |-> graph, node |-> node[t]]

(* The pool computes the graphs as GraphExecution says: nodes in order,    *)
(* every part once, aborts at a node boundary for all threads alike.       *)
Execution ==
  INSTANCE GraphExecution WITH NGraphs <- Len(Graphs), running <- pc[0] \notin {"idle", "joining", "freed"}
ExecutesGraphs == Execution!Spec

(* A graph that was started is computed to its end, and a pool is freed:   *)
(* no thread is left at a barrier, asleep with work, or in a pause.        *)
GraphEnds == (pc[0] = "kickoff") ~> (pc[0] = "idle")
FreeEnds  == (pc[0] = "joining") ~> (pc[0] = "freed")
=============================================================================
