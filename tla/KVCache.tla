------------------------------ MODULE KVCache ------------------------------
(***************************************************************************)
(* The cells of the attention KV cache (src/llama-kv-cells.h) and the      *)
(* operations of llama_kv_cache on them (src/llama-kv-cache.cpp), without  *)
(* sliding windows.  A stream is one record of cells.  The K row that the  *)
(* last decode wrote in a cell is the token and the position that it was   *)
(* rotated to, which a shift of positions leaves behind until the next     *)
(* update().  A loop over all cells is one function over their indices.    *)
(***************************************************************************)
EXTENDS Integers, Sequences, FiniteSets

CONSTANTS
  Seqs,     \* sequence ids
  Size,     \* number of cells of a stream
  MaxPos,   \* bound: the largest position
  NoToken   \* not a token

ASSUME CacheAssumption ==
  IsFiniteSet(Seqs) /\ Size \in Nat \ {0} /\ MaxPos \in Nat

Idx == 0 .. Size - 1
Pos == 0 .. MaxPos

(* std::numeric_limits<llama_pos>::max(), for a negative p1                *)
Infinity == MaxPos + 1

(* A row of a token, rotated to a position.                                *)
Row(tok, pos) == [tok |-> tok, rot |-> pos]
NoRow == Row(NoToken, 0)

(* Cells with nothing in them.                                             *)
EmptyCells ==
  [pos   |-> [i \in Idx |-> -1],
   shift |-> [i \in Idx |-> 0],
   seq   |-> [i \in Idx |-> {}],
   used  |-> {},
   count |-> [s \in Seqs |-> [p \in Pos |-> 0]],   \* seq_pos[s][p]
   head  |-> 0,
   k     |-> [i \in Idx |-> NoRow]]

(* The cells of s with a position in [p0, p1).                             *)
Held(c, s, p0, p1) == {i \in Idx : s \in c.seq[i] /\ p0 <= c.pos[i] /\ c.pos[i] < p1}

(* llama_kv_cells::seq_pos_max()                                           *)
SeqPosMax(c, s) ==
  LET counted == {p \in Pos : c.count[s][p] > 0}
  IN  IF counted = {} THEN -1 ELSE CHOOSE p \in counted : \A q \in counted : q <= p

(* How often s occurs at p among the cells of T.                           *)
Times(c, T, s, p) == Cardinality({i \in T : s \in c.seq[i] /\ c.pos[i] = p})

Least(S) == CHOOSE x \in S : \A y \in S : x <= y

(* Searching starts at the first cell that was freed, if it comes earlier. *)
HeadAt(c, freed) ==
  IF freed # {} /\ Least(freed) < c.head THEN Least(freed) ELSE c.head

(* seq_rm(): a cell that no other sequence holds becomes empty.            *)
SeqRm(c, s, p0, p1) ==
  LET T     == Held(c, s, p0, p1)
      freed == {i \in T : c.seq[i] = {s}}
  IN  [c EXCEPT
        !.seq   = [i \in Idx |-> IF i \in T THEN c.seq[i] \ {s} ELSE c.seq[i]],
        !.pos   = [i \in Idx |-> IF i \in freed THEN -1 ELSE c.pos[i]],
        !.shift = [i \in Idx |-> IF i \in freed THEN 0 ELSE c.shift[i]],
        !.used  = c.used \ freed,
        !.count = [q \in Seqs |-> [p \in Pos |->
                     c.count[q][p] - IF q = s THEN Times(c, T, s, p) ELSE 0]],
        !.head  = HeadAt(c, freed)]

(* seq_cp() within a stream: d joins the cells of s, which must not hold d. *)
SeqCp(c, s, d) ==
  LET T == Held(c, s, 0, Infinity)
  IN  [c EXCEPT
        !.seq   = [i \in Idx |-> IF i \in T THEN c.seq[i] \cup {d} ELSE c.seq[i]],
        !.count = [q \in Seqs |-> [p \in Pos |->
                     c.count[q][p] + IF q = d THEN Times(c, T, s, p) ELSE 0]]]

(* seq_cp() to another stream, whose cells are reset: the cells of s get   *)
(* the same place there.  update() copies the rows.                        *)
SeqCpTo(c, s, to, d) ==
  LET T == Held(c, s, 0, Infinity)
  IN  [EmptyCells EXCEPT
        !.k     = to.k,
        !.pos   = [i \in Idx |-> IF i \in T THEN c.pos[i] ELSE -1],
        !.shift = [i \in Idx |-> IF i \in T THEN c.shift[i] ELSE 0],
        !.seq   = [i \in Idx |-> IF i \in T THEN {d} ELSE {}],
        !.used  = T,
        !.count = [q \in Seqs |-> [p \in Pos |-> IF q = d THEN Times(c, T, s, p) ELSE 0]],
        !.head  = c.head]

(* Mutant: the positions that are counted stay.                            *)
SeqAddKeepsCounts(c, s, p0, p1, n) ==
  LET T     == Held(c, s, p0, p1)
      moved == {i \in T : c.pos[i] + n >= 0}
  IN  [c EXCEPT
        !.pos   = [i \in Idx |-> IF i \in moved THEN c.pos[i] + n ELSE c.pos[i]],
        !.shift = [i \in Idx |-> IF i \in moved THEN c.shift[i] + n ELSE c.shift[i]],
        !.head  = 0]

(* seq_add(): the cells of s in the range move by n, for every sequence    *)
(* that they are in; a cell that moves below 0 becomes empty.  n is not 0,  *)
(* and an empty range leaves the head where it is.                         *)
SeqAdd(c, s, p0, p1, n) ==
  LET T     == Held(c, s, p0, p1)
      freed == {i \in T : c.pos[i] + n < 0}
      moved == T \ freed
  IN  [c EXCEPT
        !.pos   = [i \in Idx |-> IF i \in freed THEN -1
                                 ELSE IF i \in moved THEN c.pos[i] + n ELSE c.pos[i]],
        !.shift = [i \in Idx |-> IF i \in freed THEN 0
                                 ELSE IF i \in moved THEN c.shift[i] + n ELSE c.shift[i]],
        !.seq   = [i \in Idx |-> IF i \in freed THEN {} ELSE c.seq[i]],
        !.used  = c.used \ freed,
        !.count = [q \in Seqs |-> [p \in Pos |->
                     c.count[q][p] - Times(c, T, q, p) + Times(c, moved, q, p - n)]],
        !.head  = IF p0 = p1 THEN c.head ELSE IF freed # {} THEN Least(freed) ELSE 0]

(* update(): the rows of shifted cells are rotated to their positions.     *)
(* From then on the row of an empty cell is not read until it is written.  *)
ApplyShift(c) ==
  [c EXCEPT
    !.k     = [i \in Idx |-> IF c.pos[i] = -1 THEN NoRow
                             ELSE IF c.shift[i] = 0 THEN c.k[i]
                             ELSE Row(c.k[i].tok, c.k[i].rot + c.shift[i])],
    !.shift = [i \in Idx |-> 0]]

(* The n-th element of the set S of numbers, in ascending order.           *)
Nth(S, n) == CHOOSE x \in S : Cardinality({y \in S : y < x}) = n - 1

(* find_slot(): n empty cells from the head on, or from the beginning when *)
(* there should be enough before the head; none when there are too few.    *)
Empty(c) == Idx \ c.used

FindSlot(c, n) ==
  LET from == IF c.head > Cardinality(c.used) + 2 * n THEN 0 ELSE c.head
      free == {d \in Idx : (from + d) % Size \in Empty(c)}
  IN  IF Cardinality(free) < n THEN <<>> ELSE [j \in 1 .. n |-> (from + Nth(free, j)) % Size]

(* apply_ubatch() and the decode of its tokens: entry j of the ubatch goes *)
(* to the empty cell slot[j].                                              *)
Place(c, slot, ub) ==
  LET filled == {slot[j] : j \in 1 .. Len(ub)}
      put    == [i \in filled |-> ub[CHOOSE j \in 1 .. Len(ub) : slot[j] = i]]
      added  == [s \in Seqs |-> [p \in Pos |->
                  Cardinality({i \in filled : put[i].seq = s /\ put[i].pos = p})]]
  IN  [c EXCEPT
        !.pos   = [i \in Idx |-> IF i \in filled THEN put[i].pos ELSE c.pos[i]],
        !.seq   = [i \in Idx |-> IF i \in filled THEN {put[i].seq} ELSE c.seq[i]],
        !.k     = [i \in Idx |-> IF i \in filled THEN Row(put[i].tok, put[i].pos) ELSE c.k[i]],
        !.used  = c.used \cup filled,
        !.count = [s \in Seqs |-> [p \in Pos |-> c.count[s][p] + added[s][p]]],
        !.head  = slot[Len(ub)] + 1]

---------------------------------------------------------------------------
(* Properties of cells.                                                    *)

CellsOK(c) ==
  /\ c.pos \in [Idx -> Pos \cup {-1}] /\ c.shift \in [Idx -> Int]
  /\ c.seq \in [Idx -> SUBSET Seqs]
  /\ c.used \subseteq Idx /\ c.head \in 0 .. Size
  /\ c.count \in [Seqs -> [Pos -> Nat]]
  /\ DOMAIN c.k = Idx

(* What llama_kv_cells caches about its cells agrees with them: used is    *)
(* the set of occupied cells, seq_pos[s][p] "tells us how many times the   *)
(* position p is currently present for sequence s", and an empty cell      *)
(* belongs to nobody and has no pending shift.                             *)
CellsAgree(c) ==
  /\ c.used = {i \in Idx : c.pos[i] # -1}
  /\ \A i \in Idx : c.pos[i] = -1 <=> c.seq[i] = {}
  /\ \A i \in Idx : c.pos[i] = -1 => c.shift[i] = 0
  /\ \A s \in Seqs, p \in Pos : c.count[s][p] = Times(c, Idx, s, p)
=============================================================================
