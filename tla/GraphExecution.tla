--------------------------- MODULE GraphExecution ---------------------------
(***************************************************************************)
(* What ggml_graph_compute() promises its caller, whatever the number of   *)
(* threads: the nodes of a graph are computed in order, every part of a    *)
(* node once, and the call returns when all nodes are computed, or at a    *)
(* node boundary when the abort callback asked for it.                     *)
(***************************************************************************)
EXTENDS Naturals

CONSTANTS
  NGraphs,      \* number of graphs, computed one after the other
  NNodes(_),    \* NNodes(g): number of nodes of graph g
  Parts(_, _)   \* Parts(g, n): the parts that node n of graph g is split into

VARIABLES
  graph,     \* the graph that is computed, 0 before the first
  computed,  \* computed[n][p]: how often part p of node n was computed
  running,   \* whether a call of ggml_graph_compute() is under way
  ec         \* the status that it returns

vars == <<graph, computed, running, ec>>

Init == graph = 0 /\ computed = <<>> /\ running = FALSE /\ ec = "success"

Start ==
  /\ ~ running /\ graph < NGraphs
  /\ graph' = graph + 1 /\ running' = TRUE /\ ec' = "success"
  /\ computed' = [n \in 1 .. NNodes(graph + 1) |-> [p \in Parts(graph + 1, n) |-> 0]]

Complete(n)  == \A p \in Parts(graph, n) : computed[n][p] = 1
Untouched(n) == \A p \in Parts(graph, n) : computed[n][p] = 0

Compute(n, part) ==
  /\ running
  /\ \A m \in 1 .. n - 1 : Complete(m)
  /\ computed[n][part] = 0
  /\ computed' = [computed EXCEPT ![n][part] = 1]
  /\ UNCHANGED <<graph, running, ec>>

Abort == running /\ ec' = "aborted" /\ UNCHANGED <<graph, computed, running>>

Return ==
  /\ running /\ running' = FALSE
  /\ \E k \in 0 .. NNodes(graph) :
       /\ k = NNodes(graph) \/ ec = "aborted"
       /\ \A n \in 1 .. NNodes(graph) : IF n <= k THEN Complete(n) ELSE Untouched(n)
  /\ UNCHANGED <<graph, computed, ec>>

Next ==
  \/ Start \/ Abort \/ Return
  \/ \E n \in DOMAIN computed : \E part \in Parts(graph, n) : Compute(n, part)

Spec == Init /\ [][Next]_vars
=============================================================================
