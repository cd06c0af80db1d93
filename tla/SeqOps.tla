------------------------------- MODULE SeqOps -------------------------------
(***************************************************************************)
(* Operators on the std::deque and std::vector objects of the server, seen *)
(* as sequences: erase(remove_if(...)), erase of one position, push_front. *)
(*                                                                         *)
(* Drop is Sequences!SelectSeq with a set for its test.  It is written as  *)
(* a recursive function on prefixes because SelectSeq takes an operator,   *)
(* which the lemmas of SeqOpsProofs could not be stated about.             *)
(***************************************************************************)
EXTENDS Integers, Sequences

(* The elements of the sequence q.                                         *)
Elems(q) == {q[i] : i \in DOMAIN q}

(* q without the elements that belong to X, in the same order.             *)
Drop(q, X) ==
  LET kept[n \in 0 .. Len(q)] ==
        IF n = 0 THEN <<>>
        ELSE IF q[n] \in X THEN kept[n - 1] ELSE Append(kept[n - 1], q[n])
  IN  kept[Len(q)]

(* q without its i-th element.                                             *)
DropAt(q, i) == [k \in 1 .. Len(q) - 1 |-> IF k < i THEN q[k] ELSE q[k + 1]]

(* q with e in front.                                                      *)
Cons(e, q) == <<e>> \o q

(* The first position of q whose element belongs to X, when there is one.  *)
FirstIn(q, X) ==
  CHOOSE i \in DOMAIN q : q[i] \in X /\ \A j \in 1 .. i - 1 : q[j] \notin X
=============================================================================
