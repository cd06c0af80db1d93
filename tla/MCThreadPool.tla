---------------------------- MODULE MCThreadPool ----------------------------
(* Instances of ThreadPool for TLC.                                        *)
EXTENDS ThreadPool

(* Two threads and more chunks, all threads and more chunks than threads,  *)
(* all threads with a chunk each, a single thread.                         *)
FourGraphs == <<[threads |-> 2, nodes |-> <<3, Shared>>],
                [threads |-> 3, nodes |-> <<Shared, 0, 4>>],
                [threads |-> 4, nodes |-> <<3, 0>>],
                [threads |-> 1, nodes |-> <<2, Shared>>]>>
=============================================================================
