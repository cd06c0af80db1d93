---------------------------- MODULE MCModelRouter ----------------------------
(* Instances of ModelRouter for TLC.                                       *)
EXTENDS ModelRouter

CONSTANTS a, b, r1, r2, r3, r4

(* What a reload finds in its sources, and finds changed.                  *)
OnlyA == [r \in Requesters |-> {a}]

(* Two clients want one model each, a third thread reloads.                *)
TwoPostsReload == [r \in Requesters |->
  CASE r = r1 -> [op |-> "post", name |-> a]
    [] r = r2 -> [op |-> "post", name |-> b]
    [] OTHER  -> [op |-> "reload", name |-> a]]

Mixed == [r \in Requesters |->
  CASE r = r1 -> [op |-> "post", name |-> a]
    [] r = r2 -> [op |-> "load", name |-> b]
    [] r = r3 -> [op |-> "unload", name |-> a]
    [] OTHER  -> [op |-> "reload", name |-> a]]
=============================================================================
