--------------------------- MODULE MCServerQueue ---------------------------
(* Instances of ServerQueue for TLC.                                       *)
EXTENDS ServerQueue, TLC

CONSTANTS r1, r2, s1, s2, parent, child, single, pinned

(* Reader r1 asks for two completions of one prompt (a parent with one     *)
(* child), reader r2 for one completion.                                   *)
FamilyBatch    == [r \in Readers |-> IF r = r1 THEN <<parent>> ELSE <<single>>]
FamilyChildren == [x \in Tasks |-> IF x = parent THEN {child} ELSE {}]
Completions    == [x \in Tasks |-> "completion"]
Unpinned       == [x \in Tasks |-> NoSlot]

(* With unpinned tasks nothing tells the slots apart.                      *)
SlotSymmetry == Permutations(Slots)

(* Reader r1 posts two tasks, a completion and an embedding, reader r2 an  *)
(* action on slot s1.                                                      *)
PairBatch  == [r \in Readers |-> IF r = r1 THEN <<parent, single>> ELSE <<pinned>>]
NoChildren == [x \in Tasks |-> {}]
PinnedToS1 == [x \in Tasks |-> IF x = pinned THEN s1 ELSE NoSlot]
MixedKinds == [x \in Tasks |-> CASE x = parent -> "completion"
                                 [] x = single -> "embedding"
                                 [] OTHER -> "direct"]
=============================================================================
