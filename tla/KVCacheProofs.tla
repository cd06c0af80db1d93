--------------------------- MODULE KVCacheProofs ---------------------------
(* Proofs that the operations on the cells of the KV cache keep what the   *)
(* cells cache about themselves, for every number of cells, sequences and  *)
(* positions, and that SlotCache uses them so that its cells always agree, *)
(* the rows are always where the cells are, a pass over a batch ends, and, *)
(* without families of prompts, the cells of a slot hold its prompt.       *)
EXTENDS SlotCache, SeqOpsProofs

(* The occurrences that Times() counts.                                    *)
Occ(c, T, s, p) == {i \in T : s \in c.seq[i] /\ c.pos[i] = p}

(* What the operations take for granted of a record of cells.              *)
IsCells(c) ==
  /\ c = [pos |-> c.pos, shift |-> c.shift, seq |-> c.seq, used |-> c.used,
          count |-> c.count, head |-> c.head, k |-> c.k]
  /\ c.pos \in [Idx -> Int] /\ c.shift \in [Idx -> Int] /\ c.seq \in [Idx -> SUBSET Seqs]
  /\ c.used \subseteq Idx /\ c.count \in [Seqs -> [Pos -> Int]]

(* Any part of the cells is finite.                                        *)
LEMMA IdxFinite ==
  ASSUME NEW T, T \subseteq Idx
  PROVE  IsFiniteSet(T) /\ Cardinality(T) \in Nat
<1>1. IsFiniteSet(Idx)
  BY CacheAssumption, FS_Interval DEF Idx
<1>2. IsFiniteSet(T)
  BY <1>1, FS_Subset
<1> QED  BY <1>2, FS_CardinalityType

(* The occurrences after some were taken away and others were added.       *)
LEMMA CountMoves ==
  ASSUME NEW A, NEW B, NEW D, A \subseteq Idx, D \subseteq Idx, B \subseteq A,
         D \cap (A \ B) = {}
  PROVE  Cardinality((A \ B) \cup D) = Cardinality(A) - Cardinality(B) + Cardinality(D)
<1>1. IsFiniteSet(A) /\ IsFiniteSet(A \ B) /\ IsFiniteSet(D) /\ IsFiniteSet(B)
      /\ Cardinality(A) \in Nat /\ Cardinality(B) \in Nat /\ Cardinality(D) \in Nat
  BY IdxFinite
<1>2. Cardinality(A \ B) = Cardinality(A) - Cardinality(B)
  <2>1. A \cap B = B
    OBVIOUS
  <2> QED  BY <1>1, <2>1, FS_Difference
<1>3. (A \ B) \cap D = {} /\ Cardinality({}) = 0
  BY FS_EmptySet
<1>4. Cardinality((A \ B) \cup D) = Cardinality(A \ B) + Cardinality(D) - Cardinality((A \ B) \cap D)
  BY <1>1, FS_Union
<1>5. Cardinality((A \ B) \cap D) = 0
  BY <1>3
<1> QED  BY <1>1, <1>2, <1>4, <1>5

(* clear(): nothing is there, and nothing is counted.                      *)
THEOREM EmptyAgrees ==
  CellsAgree(EmptyCells)
<1> DEFINE e == EmptyCells
<1>1. \A i \in Idx : e.pos[i] = -1 /\ e.seq[i] = {} /\ e.shift[i] = 0
  BY DEF EmptyCells
<1>2. e.used = {} /\ \A s \in Seqs, p \in Pos : e.count[s][p] = 0
  BY DEF EmptyCells
<1>3. \A s \in Seqs, p \in Pos : Times(e, Idx, s, p) = 0
  <2>1. ASSUME NEW s \in Seqs, NEW p \in Pos  PROVE {i \in Idx : s \in e.seq[i] /\ e.pos[i] = p} = {}
    BY <1>1
  <2> QED  BY <2>1, FS_EmptySet DEF Times
<1> HIDE DEF e
<1>4. CellsAgree(e)
  BY <1>1, <1>2, <1>3 DEF CellsAgree
<1> QED  BY <1>4 DEF e

(* seq_rm() with any range keeps used, seq_pos and the empty cells in      *)
(* agreement.                                                              *)
THEOREM SeqRmAgrees ==
  ASSUME NEW c, IsCells(c), CellsAgree(c), NEW s \in Seqs, NEW p0 \in Int, NEW p1 \in Int
  PROVE  CellsAgree(SeqRm(c, s, p0, p1))
<1> DEFINE d == SeqRm(c, s, p0, p1)
           T == Held(c, s, p0, p1)
           freed == {i \in T : c.seq[i] = {s}}
<1>1. /\ \A i \in Idx : d.seq[i] = IF i \in T THEN c.seq[i] \ {s} ELSE c.seq[i]
      /\ \A i \in Idx : d.pos[i] = IF i \in freed THEN -1 ELSE c.pos[i]
      /\ \A i \in Idx : d.shift[i] = IF i \in freed THEN 0 ELSE c.shift[i]
      /\ d.used = c.used \ freed
      /\ \A q \in Seqs, p \in Pos : d.count[q][p] = c.count[q][p] - IF q = s THEN Times(c, T, s, p) ELSE 0
  BY DEF SeqRm, IsCells
<1>2. T \subseteq Idx /\ freed \subseteq T
  BY DEF Held
<1>3. \A i \in T : s \in c.seq[i]
  BY DEF Held
<1>4. \A p \in Pos : p \in Int /\ p # -1
  BY CacheAssumption DEF Pos
<1> HIDE DEF d, T, freed
<1>5. ASSUME NEW q \in Seqs, NEW p \in Pos  PROVE d.count[q][p] = Times(d, Idx, q, p)
  <2>1. c.count[q][p] = Times(c, Idx, q, p)
    BY DEF CellsAgree
  <2>2. CASE q # s
    <3>1. ASSUME NEW i \in Idx
          PROVE  q \in d.seq[i] /\ d.pos[i] = p <=> q \in c.seq[i] /\ c.pos[i] = p
      <4>1. CASE i \in freed
        BY <1>1, <1>2, <1>4, <2>2, <4>1 DEF freed
      <4>2. CASE i \notin freed
        BY <1>1, <2>2, <4>2
      <4> QED  BY <4>1, <4>2
    <3>2. Times(d, Idx, q, p) = Times(c, Idx, q, p)
      BY <3>1 DEF Times
    <3>3. c.count[q][p] \in Int /\ d.count[q][p] = c.count[q][p] - 0
      BY <1>1, <2>2 DEF IsCells
    <3> QED  BY <2>1, <3>2, <3>3
  <2>3. CASE q = s
    <3> DEFINE A == Occ(c, Idx, s, p)
               B == Occ(c, T, s, p)
    <3>1. A \subseteq Idx /\ B \subseteq A
      BY <1>2 DEF Occ
    <3>0. ASSUME NEW i \in Idx
          PROVE  s \in d.seq[i] /\ d.pos[i] = p <=> i \notin T /\ s \in c.seq[i] /\ c.pos[i] = p
      BY <1>1, <1>2, <1>4
    <3>2. Occ(d, Idx, s, p) = (A \ B) \cup {}
      BY <3>0 DEF Occ
    <3> HIDE DEF A, B
    <3>3. Cardinality(Occ(d, Idx, s, p)) = Cardinality(A) - Cardinality(B)
      <4>1. Cardinality((A \ B) \cup {}) = Cardinality(A) - Cardinality(B) + Cardinality({})
        BY <3>1, CountMoves
      <4>2. Cardinality(A) \in Nat /\ Cardinality(B) \in Nat
        BY <3>1, IdxFinite
      <4> QED  BY <3>2, <4>1, <4>2, FS_EmptySet
    <3>4. d.count[s][p] = c.count[s][p] - Times(c, T, s, p)
      BY <1>1
    <3> QED  BY <2>1, <2>3, <3>3, <3>4 DEF Times, Occ, A, B
  <2> QED  BY <2>2, <2>3
<1>6. d.used = {i \in Idx : d.pos[i] # -1}
  BY <1>1, <1>2 DEF CellsAgree
<1>7. \A i \in Idx : d.pos[i] = -1 <=> d.seq[i] = {}
  <2>1. ASSUME NEW i \in Idx  PROVE d.pos[i] = -1 <=> d.seq[i] = {}
    <3>1. CASE i \in freed
      BY <1>1, <1>2, <3>1 DEF freed
    <3>2. CASE i \in T \ freed
      <4>1. c.seq[i] # {s} /\ s \in c.seq[i] /\ c.pos[i] # -1
        BY <1>2, <1>3, <3>2 DEF freed, CellsAgree
      <4> QED  BY <1>1, <3>2, <4>1
    <3>3. CASE i \notin T
      BY <1>1, <1>2, <3>3 DEF CellsAgree
    <3> QED  BY <1>2, <3>1, <3>2, <3>3
  <2> QED  BY <2>1
<1>8. \A i \in Idx : d.pos[i] = -1 => d.shift[i] = 0
  BY <1>1, <1>2 DEF CellsAgree
<1>9. CellsAgree(d)
  BY <1>5, <1>6, <1>7, <1>8 DEF CellsAgree
<1> QED  BY <1>9 DEF d

(* seq_cp() within a stream, when d holds no cell of the range yet: the    *)
(* cells of s are counted for d as well.                                   *)
THEOREM SeqCpAgrees ==
  ASSUME NEW c, IsCells(c), CellsAgree(c), NEW s \in Seqs, NEW d \in Seqs,
         \A i \in Idx : d \notin c.seq[i]
  PROVE  CellsAgree(SeqCp(c, s, d))
<1> DEFINE e == SeqCp(c, s, d)
           T == Held(c, s, 0, Infinity)
<1>1. /\ \A i \in Idx : e.seq[i] = IF i \in T THEN c.seq[i] \cup {d} ELSE c.seq[i]
      /\ e.pos = c.pos /\ e.shift = c.shift /\ e.used = c.used
      /\ \A q \in Seqs, p \in Pos : e.count[q][p] = c.count[q][p] + IF q = d THEN Times(c, T, s, p) ELSE 0
  BY DEF SeqCp, IsCells
<1>2. T \subseteq Idx /\ \A i \in T : s \in c.seq[i]
  BY DEF Held
<1> HIDE DEF e, T
<1>3. ASSUME NEW q \in Seqs, NEW p \in Pos  PROVE e.count[q][p] = Times(e, Idx, q, p)
  <2>1. c.count[q][p] = Times(c, Idx, q, p) /\ c.count[q][p] \in Int
    BY DEF CellsAgree, IsCells
  <2>2. CASE q # d
    <3>1. \A i \in Idx : q \in e.seq[i] /\ e.pos[i] = p <=> q \in c.seq[i] /\ c.pos[i] = p
      BY <1>1, <2>2
    <3>2. Times(e, Idx, q, p) = Times(c, Idx, q, p)
      BY <3>1 DEF Times
    <3>3. e.count[q][p] = c.count[q][p] + 0
      BY <1>1, <2>2
    <3> QED  BY <2>1, <3>2, <3>3
  <2>3. CASE q = d
    <3> DEFINE B == Occ(c, T, s, p)
    <3>1. B \subseteq Idx /\ Cardinality(B) = Times(c, T, s, p)
      BY <1>2 DEF Occ, Times
    <3>2. Occ(e, Idx, d, p) = B
      <4>1. \A i \in Idx : d \in e.seq[i] /\ e.pos[i] = p <=> i \in T /\ s \in c.seq[i] /\ c.pos[i] = p
        BY <1>1, <1>2
      <4> QED  BY <1>2, <4>1 DEF Occ
    <3>3. Times(c, Idx, d, p) = 0
      <4>1. {i \in Idx : d \in c.seq[i] /\ c.pos[i] = p} = {}
        OBVIOUS
      <4> QED  BY <4>1, FS_EmptySet DEF Times
    <3>4. Times(e, Idx, d, p) = Times(c, T, s, p) /\ Times(c, T, s, p) \in Nat
      BY <3>1, <3>2, IdxFinite DEF Times, Occ
    <3> QED  BY <1>1, <2>1, <2>3, <3>3, <3>4
  <2> QED  BY <2>2, <2>3
<1>4. e.used = {i \in Idx : e.pos[i] # -1}
  BY <1>1 DEF CellsAgree
<1>5. \A i \in Idx : (e.pos[i] = -1 <=> e.seq[i] = {}) /\ (e.pos[i] = -1 => e.shift[i] = 0)
  BY <1>1, <1>2 DEF CellsAgree
<1>6. CellsAgree(e)
  BY <1>3, <1>4, <1>5 DEF CellsAgree
<1> QED  BY <1>6 DEF e

(* seq_cp() to the cells of another stream, which are reset.               *)
THEOREM SeqCpToAgrees ==
  ASSUME NEW c, IsCells(c), CellsAgree(c), NEW to, NEW s \in Seqs, NEW d \in Seqs
  PROVE  CellsAgree(SeqCpTo(c, s, to, d))
<1> DEFINE e == SeqCpTo(c, s, to, d)
           T == Held(c, s, 0, Infinity)
<1>1. /\ \A i \in Idx : e.seq[i] = IF i \in T THEN {d} ELSE {}
      /\ \A i \in Idx : e.pos[i] = IF i \in T THEN c.pos[i] ELSE -1
      /\ \A i \in Idx : e.shift[i] = IF i \in T THEN c.shift[i] ELSE 0
      /\ e.used = T
      /\ \A q \in Seqs, p \in Pos : e.count[q][p] = IF q = d THEN Times(c, T, s, p) ELSE 0
  BY DEF SeqCpTo, EmptyCells
<1>2. T \subseteq Idx /\ \A i \in T : s \in c.seq[i] /\ c.pos[i] # -1
  BY DEF Held, IsCells
<1>3. \A p \in Pos : p # -1
  BY CacheAssumption DEF Pos
<1> HIDE DEF e, T
<1>4. ASSUME NEW q \in Seqs, NEW p \in Pos  PROVE e.count[q][p] = Times(e, Idx, q, p)
  <2>1. CASE q # d
    <3>1. {i \in Idx : q \in e.seq[i] /\ e.pos[i] = p} = {}
      BY <1>1, <2>1
    <3> QED  BY <1>1, <2>1, <3>1, FS_EmptySet DEF Times
  <2>2. CASE q = d
    <3>1. \A i \in Idx : d \in e.seq[i] /\ e.pos[i] = p <=> i \in T /\ s \in c.seq[i] /\ c.pos[i] = p
      BY <1>1, <1>2
    <3>2. {i \in Idx : d \in e.seq[i] /\ e.pos[i] = p} = {i \in T : s \in c.seq[i] /\ c.pos[i] = p}
      BY <1>2, <3>1
    <3> QED  BY <1>1, <2>2, <3>2 DEF Times
  <2> QED  BY <2>1, <2>2
<1>5. e.used = {i \in Idx : e.pos[i] # -1}
  BY <1>1, <1>2
<1>6. \A i \in Idx : (e.pos[i] = -1 <=> e.seq[i] = {}) /\ (e.pos[i] = -1 => e.shift[i] = 0)
  BY <1>1, <1>2
<1>7. CellsAgree(e)
  BY <1>4, <1>5, <1>6 DEF CellsAgree
<1> QED  BY <1>7 DEF e

(* seq_rm() of one sequence leaves the others the cells that they hold.    *)
THEOREM SeqRmKeepsOthers ==
  ASSUME NEW c, IsCells(c), NEW s \in Seqs, NEW p0 \in Int, NEW p1 \in Int,
         NEW q \in Seqs \ {s}, NEW i \in Idx
  PROVE  /\ q \in SeqRm(c, s, p0, p1).seq[i] <=> q \in c.seq[i]
         /\ q \in c.seq[i] => SeqRm(c, s, p0, p1).pos[i] = c.pos[i]
<1> DEFINE T == Held(c, s, p0, p1)
           freed == {j \in T : c.seq[j] = {s}}
<1>1. /\ SeqRm(c, s, p0, p1).seq[i] = IF i \in T THEN c.seq[i] \ {s} ELSE c.seq[i]
      /\ SeqRm(c, s, p0, p1).pos[i] = IF i \in freed THEN -1 ELSE c.pos[i]
  BY DEF SeqRm, IsCells
<1>2. i \in freed => c.seq[i] = {s}
  OBVIOUS
<1> HIDE DEF T, freed
<1> QED  BY <1>1, <1>2

(* seq_add(): the counted positions move with the cells, for every         *)
(* sequence that holds them, and what moves below 0 is emptied.            *)
THEOREM SeqAddAgrees ==
  ASSUME NEW c, IsCells(c), CellsAgree(c), NEW s \in Seqs,
         NEW p0 \in Nat, NEW p1 \in Int, NEW n \in Int
  PROVE  CellsAgree(SeqAdd(c, s, p0, p1, n))
<1> DEFINE d == SeqAdd(c, s, p0, p1, n)
           T == Held(c, s, p0, p1)
           freed == {i \in T : c.pos[i] + n < 0}
           moved == T \ freed
<1>1. /\ \A i \in Idx : d.pos[i] = IF i \in freed THEN -1
                                   ELSE IF i \in moved THEN c.pos[i] + n ELSE c.pos[i]
      /\ \A i \in Idx : d.shift[i] = IF i \in freed THEN 0
                                     ELSE IF i \in moved THEN c.shift[i] + n ELSE c.shift[i]
      /\ \A i \in Idx : d.seq[i] = IF i \in freed THEN {} ELSE c.seq[i]
      /\ d.used = c.used \ freed
      /\ \A q \in Seqs, p \in Pos :
           d.count[q][p] = c.count[q][p] - Times(c, T, q, p) + Times(c, moved, q, p - n)
  BY DEF SeqAdd, IsCells
<1>2. /\ T \subseteq Idx /\ freed \subseteq T /\ moved \subseteq T /\ T = freed \cup moved
      /\ freed \cap moved = {}
  BY DEF Held
<1>3. \A i \in T : s \in c.seq[i] /\ c.pos[i] >= 0 /\ c.pos[i] \in Int
  BY DEF Held, IsCells
<1>4. \A i \in moved : c.pos[i] + n \in Int /\ c.pos[i] + n >= 0
  BY <1>3
<1>5. \A p \in Pos : p \in Int /\ p # -1
  BY CacheAssumption DEF Pos
<1>0. \A i \in Idx : c.pos[i] \in Int
  BY DEF IsCells
<1> HIDE DEF d, T, freed, moved
<1>6. ASSUME NEW q \in Seqs, NEW p \in Pos  PROVE d.count[q][p] = Times(d, Idx, q, p)
  <2> DEFINE A == Occ(c, Idx, q, p)
             B == Occ(c, T, q, p)
             D == Occ(c, moved, q, p - n)
  <2>1. /\ A \subseteq Idx /\ B \subseteq A /\ D \subseteq Idx /\ D \cap (A \ B) = {}
    BY <1>2 DEF Occ
  <2>2. Occ(d, Idx, q, p) = (A \ B) \cup D
    <3>1. ASSUME NEW i \in Idx
          PROVE  q \in d.seq[i] /\ d.pos[i] = p <=>
                   \/ i \notin T /\ q \in c.seq[i] /\ c.pos[i] = p
                   \/ i \in moved /\ q \in c.seq[i] /\ c.pos[i] = p - n
      <4>1. CASE i \in freed
        <5>1. i \in T /\ i \notin moved /\ d.pos[i] = -1
          BY <1>1, <1>2, <4>1
        <5> QED  BY <1>5, <5>1
      <4>2. CASE i \in moved
        <5>1. i \in T /\ i \notin freed /\ d.pos[i] = c.pos[i] + n /\ d.seq[i] = c.seq[i]
          BY <1>1, <1>2, <4>2
        <5>2. c.pos[i] + n = p <=> c.pos[i] = p - n
          BY <1>0, <1>5
        <5> QED  BY <4>2, <5>1, <5>2
      <4>3. CASE i \notin T
        <5>1. i \notin freed /\ i \notin moved /\ d.pos[i] = c.pos[i] /\ d.seq[i] = c.seq[i]
          BY <1>1, <1>2, <4>3
        <5> QED  BY <4>3, <5>1
      <4> QED  BY <1>2, <4>1, <4>2, <4>3
    <3> QED  BY <1>2, <3>1 DEF Occ
  <2>3. c.count[q][p] = Cardinality(A) /\ Times(c, T, q, p) = Cardinality(B)
        /\ Times(c, moved, q, p - n) = Cardinality(D)
    BY DEF CellsAgree, Times, Occ
  <2>4. d.count[q][p] = c.count[q][p] - Times(c, T, q, p) + Times(c, moved, q, p - n)
    BY <1>1
  <2>5. Times(d, Idx, q, p) = Cardinality(Occ(d, Idx, q, p))
    BY DEF Times, Occ
  <2> HIDE DEF A, B, D
  <2>6. Cardinality((A \ B) \cup D) = Cardinality(A) - Cardinality(B) + Cardinality(D)
    BY <2>1, CountMoves
  <2> QED  BY <2>2, <2>3, <2>4, <2>5, <2>6
<1>7. d.used = {i \in Idx : d.pos[i] # -1}
  <2>1. ASSUME NEW i \in Idx  PROVE d.pos[i] # -1 <=> i \in c.used /\ i \notin freed
    <3>1. c.pos[i] # -1 <=> i \in c.used
      BY DEF CellsAgree
    <3>2. CASE i \in moved
      <4>1. c.pos[i] # -1 /\ c.pos[i] + n # -1 /\ i \notin freed /\ d.pos[i] = c.pos[i] + n
        BY <1>1, <1>2, <1>3, <1>4, <3>2
      <4> QED  BY <3>1, <4>1
    <3>3. CASE i \notin moved
      BY <1>1, <3>1, <3>3
    <3> QED  BY <3>2, <3>3
  <2>2. c.used \subseteq Idx
    BY DEF IsCells
  <2> QED  BY <1>1, <2>1, <2>2
<1>8. \A i \in Idx : (d.pos[i] = -1 <=> d.seq[i] = {}) /\ (d.pos[i] = -1 => d.shift[i] = 0)
  <2>1. ASSUME NEW i \in Idx
        PROVE  (d.pos[i] = -1 <=> d.seq[i] = {}) /\ (d.pos[i] = -1 => d.shift[i] = 0)
    <3>1. CASE i \in freed
      BY <1>1, <3>1
    <3>2. CASE i \in moved
      <4>1. s \in c.seq[i] /\ c.pos[i] + n # -1 /\ i \notin freed
        BY <1>2, <1>3, <1>4, <3>2
      <4> QED  BY <1>1, <3>2, <4>1
    <3>3. CASE i \notin T
      <4>1. i \notin freed /\ i \notin moved
        BY <1>2, <3>3
      <4> QED  BY <1>1, <4>1 DEF CellsAgree
    <3> QED  BY <1>2, <3>1, <3>2, <3>3
  <2> QED  BY <2>1
<1>9. CellsAgree(d)
  BY <1>6, <1>7, <1>8 DEF CellsAgree
<1> QED  BY <1>9 DEF d

(* update(): rotating the rows leaves everything that is counted alone.    *)
THEOREM ApplyShiftAgrees ==
  ASSUME NEW c, IsCells(c), CellsAgree(c)
  PROVE  CellsAgree(ApplyShift(c))
<1> DEFINE d == ApplyShift(c)
<1>1. /\ d.pos = c.pos /\ d.seq = c.seq /\ d.used = c.used /\ d.count = c.count
      /\ \A i \in Idx : d.shift[i] = 0
  BY DEF ApplyShift, IsCells
<1> HIDE DEF d
<1>2. \A s \in Seqs, p \in Pos : Times(d, Idx, s, p) = Times(c, Idx, s, p)
  BY <1>1 DEF Times
<1>3. CellsAgree(d)
  BY <1>1, <1>2 DEF CellsAgree
<1> QED  BY <1>3 DEF d

(* apply_ubatch(): a ubatch that is put into empty cells is counted once   *)
(* for each cell.  find_slot() is what keeps the cells empty until then.   *)
THEOREM PlaceAgrees ==
  ASSUME NEW c, IsCells(c), CellsAgree(c), NEW slot, NEW ub, Len(ub) \in Nat,
         \A j \in 1 .. Len(ub) : /\ slot[j] \in Empty(c)
                                 /\ ub[j].seq \in Seqs /\ ub[j].pos \in Pos
  PROVE  CellsAgree(Place(c, slot, ub))
<1> DEFINE d == Place(c, slot, ub)
           filled == {slot[j] : j \in 1 .. Len(ub)}
           put == [i \in filled |-> ub[CHOOSE j \in 1 .. Len(ub) : slot[j] = i]]
<1>1. /\ \A i \in Idx : d.pos[i] = IF i \in filled THEN put[i].pos ELSE c.pos[i]
      /\ \A i \in Idx : d.seq[i] = IF i \in filled THEN {put[i].seq} ELSE c.seq[i]
      /\ d.shift = c.shift /\ d.used = c.used \cup filled
      /\ \A s \in Seqs, p \in Pos : d.count[s][p] = c.count[s][p] +
           Cardinality({i \in filled : put[i].seq = s /\ put[i].pos = p})
  BY DEF Place, IsCells
<1>2. filled \subseteq Idx /\ filled \cap c.used = {}
  BY DEF Empty
<1>3. \A i \in filled : put[i].seq \in Seqs /\ put[i].pos \in Pos
  <2>1. ASSUME NEW i \in filled  PROVE put[i].seq \in Seqs /\ put[i].pos \in Pos
    <3> DEFINE j == CHOOSE j \in 1 .. Len(ub) : slot[j] = i
    <3>1. j \in 1 .. Len(ub)
      OBVIOUS
    <3>2. put[i] = ub[j]
      OBVIOUS
    <3> HIDE DEF j, put, filled
    <3> QED  BY <3>1, <3>2
  <2> QED  BY <2>1
<1>4. \A p \in Pos : p # -1
  BY CacheAssumption DEF Pos
<1> HIDE DEF d, filled, put
<1>5. \A i \in filled : c.pos[i] = -1 /\ c.seq[i] = {} /\ c.shift[i] = 0
  BY <1>2 DEF CellsAgree
<1>6. ASSUME NEW s \in Seqs, NEW p \in Pos  PROVE d.count[s][p] = Times(d, Idx, s, p)
  <2> DEFINE A == Occ(c, Idx, s, p)
             D == {i \in filled : put[i].seq = s /\ put[i].pos = p}
  <2>1. A \subseteq Idx /\ D \subseteq Idx /\ D \cap (A \ {}) = {} /\ {} \subseteq A
    BY <1>2, <1>5 DEF Occ
  <2>2. Occ(d, Idx, s, p) = (A \ {}) \cup D
    <3>1. \A i \in Idx : s \in d.seq[i] /\ d.pos[i] = p <=>
            \/ s \in c.seq[i] /\ c.pos[i] = p
            \/ i \in filled /\ put[i].seq = s /\ put[i].pos = p
      <4>1. ASSUME NEW i \in filled
            PROVE  s \in d.seq[i] /\ d.pos[i] = p <=> put[i].seq = s /\ put[i].pos = p
        <5>1. i \in Idx /\ d.pos[i] = put[i].pos /\ d.seq[i] = {put[i].seq}
          BY <1>1, <1>2
        <5> QED  BY <5>1
      <4>2. ASSUME NEW i \in Idx \ filled
            PROVE  d.seq[i] = c.seq[i] /\ d.pos[i] = c.pos[i]
        BY <1>1
      <4> QED  BY <1>5, <4>1, <4>2
    <3> QED  BY <1>2, <3>1 DEF Occ
  <2>3. c.count[s][p] = Cardinality(A) /\ d.count[s][p] = c.count[s][p] + Cardinality(D)
    BY <1>1 DEF CellsAgree, Times, Occ
  <2>4. Times(d, Idx, s, p) = Cardinality(Occ(d, Idx, s, p))
    BY DEF Times, Occ
  <2> HIDE DEF A, D
  <2>5. Cardinality((A \ {}) \cup D) = Cardinality(A) - Cardinality({}) + Cardinality(D)
    BY <2>1, CountMoves
  <2>6. Cardinality({}) = 0 /\ Cardinality(A) \in Nat /\ Cardinality(D) \in Nat
    BY <2>1, IdxFinite, FS_EmptySet
  <2> QED  BY <2>2, <2>3, <2>4, <2>5, <2>6
<1>7. d.used = {i \in Idx : d.pos[i] # -1}
  BY <1>1, <1>2, <1>3, <1>4 DEF CellsAgree
<1>8. \A i \in Idx : (d.pos[i] = -1 <=> d.seq[i] = {}) /\ (d.pos[i] = -1 => d.shift[i] = 0)
  BY <1>1, <1>3, <1>4 DEF CellsAgree
<1>9. CellsAgree(d)
  BY <1>6, <1>7, <1>8 DEF CellsAgree
<1> QED  BY <1>9 DEF d

---------------------------------------------------------------------------
(* Recursive functions, as the loops of the server are written.            *)

(* F leads from each of the sets W[0], W[1], ... to the next.              *)
Leads(N, W, F) == \A n \in 0 .. N - 1 : \A v \in W[n] : F[<<v, n>>] \in W[n + 1]

(* h starts with w, and F makes each of its elements from the one before.  *)
Follows(N, F, w, h) ==
  h = [n \in 0 .. N |-> h[n]] /\ h[0] = w /\ \A n \in 0 .. N - 1 : h[n + 1] = F[<<h[n], n>>]

(* A recursion of N steps by a function F has a solution, which goes       *)
(* through the sets W[0], W[1], ... when F leads from each to the next.    *)
LEMMA LoopSolved ==
  ASSUME NEW N \in Nat, NEW W, NEW F, Leads(N, W, F), NEW w \in W[0]
  PROVE  \E h : Follows(N, F, w, h) /\ \A n \in 0 .. N : h[n] \in W[n]
<1> DEFINE Part0(h, m) == /\ h = [n \in 0 .. m |-> IF n = 0 THEN w ELSE F[<<h[n - 1], n - 1>>]]
                          /\ \A n \in 0 .. m : h[n] \in W[n]
           G == {m \in 0 .. N : \E h : Part0(h, m)}
<1>1. N \in Nat
  OBVIOUS
<1>2. 0 \in G
  <2> DEFINE h == [n \in 0 .. 0 |-> w]
  <2>1. h = [n \in 0 .. 0 |-> IF n = 0 THEN w ELSE F[<<h[n - 1], n - 1>>]]
    OBVIOUS
  <2>2. \A n \in 0 .. 0 : h[n] \in W[n]
    OBVIOUS
  <2> HIDE DEF h
  <2>3. Part0(h, 0)
    BY <2>1, <2>2
  <2> HIDE DEF Part0
  <2> QED  BY <1>1, <2>3
<1>3. ASSUME NEW m \in 0 .. N - 1, m \in G  PROVE m + 1 \in G
  <2>1. PICK h : Part0(h, m)
    BY <1>3
  <2> DEFINE g == [n \in 0 .. m + 1 |-> IF n = m + 1 THEN F[<<h[m], m>>] ELSE h[n]]
  <2>2. m \in Nat /\ m + 1 \in 0 .. N
    BY <1>1
  <2>3. \A n \in 0 .. m : g[n] = h[n]
    BY <2>2
  <2>4. g[m + 1] = F[<<h[m], m>>]
    BY <2>2
  <2>5. \A n \in 0 .. m : h[n] = IF n = 0 THEN w ELSE F[<<h[n - 1], n - 1>>]
    BY <2>1
  <2>6. \A n \in 0 .. m + 1 : g[n] = IF n = 0 THEN w ELSE F[<<g[n - 1], n - 1>>]
    <3> HIDE DEF g
    <3> SUFFICES ASSUME NEW n \in 0 .. m + 1  PROVE g[n] = IF n = 0 THEN w ELSE F[<<g[n - 1], n - 1>>]
      OBVIOUS
    <3>1. CASE n = m + 1
      <4>1. n # 0 /\ n - 1 = m /\ m \in 0 .. m
        BY <2>2, <3>1
      <4>2. g[m] = h[m]
        BY <2>3, <4>1
      <4> QED  BY <2>4, <3>1, <4>1, <4>2
    <3>2. CASE n # m + 1
      <4>1. n \in 0 .. m /\ (n # 0 => n - 1 \in 0 .. m)
        BY <2>2, <3>2
      <4> QED  BY <2>3, <2>5, <4>1
    <3> QED  BY <3>1, <3>2
  <2>7. g = [n \in 0 .. m + 1 |-> IF n = 0 THEN w ELSE F[<<g[n - 1], n - 1>>]]
    <3>1. g = [n \in 0 .. m + 1 |-> g[n]]
      OBVIOUS
    <3> HIDE DEF g
    <3> QED  BY <2>6, <3>1
  <2>8. \A n \in 0 .. m + 1 : g[n] \in W[n]
    <3>1. F[<<h[m], m>>] \in W[m + 1]
      BY <2>1, <2>2 DEF Leads
    <3> QED  BY <2>1, <2>2, <3>1
  <2> HIDE DEF g
  <2>9. Part0(g, m + 1)
    BY <2>7, <2>8
  <2> HIDE DEF Part0
  <2> QED  BY <2>2, <2>9
<1>4. N \in G
  <2> HIDE DEF G
  <2>1. \A m \in 0 .. N - 1 : m \in G => m + 1 \in G
    BY <1>3
  <2>2. \A m \in 0 .. N : m \in G
    BY <1>1, <1>2, <2>1, SegmentInduction
  <2> QED  BY <1>1, <2>2
<1>5. PICK h : Part0(h, N)
  BY <1>4
<1>6. h[0] = w /\ \A n \in 0 .. N : h[n] \in W[n]
  BY <1>1, <1>5
<1>8. h = [n \in 0 .. N |-> h[n]]
  <2>1. h = [n \in 0 .. N |-> IF n = 0 THEN w ELSE F[<<h[n - 1], n - 1>>]]
    BY <1>5
  <2> QED  BY <2>1
<1>7. ASSUME NEW n \in 0 .. N - 1  PROVE h[n + 1] = F[<<h[n], n>>]
  <2>1. n + 1 \in 0 .. N /\ n + 1 # 0 /\ (n + 1) - 1 = n
    BY <1>1
  <2> QED  BY <1>5, <2>1
<1> QED  BY <1>6, <1>7, <1>8 DEF Follows

Stays(N, W, h) == \A n \in 0 .. N - 1 : h[n] \in W[n] => h[n + 1] \in W[n + 1]

(* Whatever solves the recursion goes through the sets.                    *)
LEMMA LoopStays ==
  ASSUME NEW N \in Nat, NEW W, NEW h, h[0] \in W[0], Stays(N, W, h)
  PROVE  h[N] \in W[N]
<1> DEFINE G == {n \in 0 .. N : h[n] \in W[n]}
<1>1. N \in Nat
  OBVIOUS
<1>2. 0 \in G /\ \A n \in 0 .. N - 1 : n \in G => n + 1 \in G
  BY <1>1 DEF Stays
<1> HIDE DEF G
<1>3. \A n \in 0 .. N : n \in G
  BY <1>1, <1>2, SegmentInduction
<1>4. N \in G
  BY <1>1, <1>3
<1> QED  BY <1>4 DEF G

---------------------------------------------------------------------------
(* Streams that are well-formed and agree, and the bases of their rows.    *)

Rows == [tok : Tokens \cup {NoToken}, rot : Int]

CellSet == [pos : [Idx -> Pos \cup {-1}], shift : [Idx -> Int], seq : [Idx -> SUBSET Seqs],
            used : SUBSET Idx, count : [Seqs -> [Pos -> Nat]], head : 0 .. Size, k : [Idx -> Rows]]

GoodCells == {c \in CellSet : CellsAgree(c)}

(* The rows r are rotated to what the positions of c were before the       *)
(* shifts that are pending.                                                *)
Based(c, r) == \A i \in Idx : c.pos[i] # -1 => r[i].rot = c.pos[i] - c.shift[i]

(* From c to d no row is written, no cell is filled, and a position only   *)
(* changes together with its shift.                                        *)
Steady(c, d) ==
  /\ d.k = c.k
  /\ \A i \in Idx : d.pos[i] # -1 => c.pos[i] # -1 /\ d.pos[i] - d.shift[i] = c.pos[i] - c.shift[i]

LEMMA SteadyBased ==
  ASSUME NEW c, NEW d, NEW r, Steady(c, d), Based(c, r)
  PROVE  Based(d, r)
BY DEF Steady, Based

LEMMA PosFacts ==
  /\ MaxPos \in Nat /\ Size \in Nat \ {0} /\ Infinity \in Int /\ Infinity > MaxPos
  /\ \A p \in Pos \cup {-1} : p \in Int /\ p >= -1 /\ p < Infinity
  /\ \A p \in Pos : p \in Nat
  /\ \A p \in Int : p \in Pos <=> 0 <= p /\ p <= MaxPos
BY CacheAssumption DEF Pos, Infinity

LEMMA GoodFields ==
  ASSUME NEW c \in GoodCells
  PROVE  /\ IsCells(c) /\ CellsAgree(c) /\ c \in CellSet
         /\ c.pos \in [Idx -> Pos \cup {-1}] /\ c.shift \in [Idx -> Int]
         /\ c.seq \in [Idx -> SUBSET Seqs] /\ c.used \subseteq Idx
         /\ c.count \in [Seqs -> [Pos -> Nat]] /\ c.head \in 0 .. Size /\ c.k \in [Idx -> Rows]
<1>1. c \in CellSet /\ CellsAgree(c)
  BY DEF GoodCells
<1>2. /\ c = [pos |-> c.pos, shift |-> c.shift, seq |-> c.seq, used |-> c.used,
              count |-> c.count, head |-> c.head, k |-> c.k]
      /\ c.pos \in [Idx -> Pos \cup {-1}] /\ c.shift \in [Idx -> Int]
      /\ c.seq \in [Idx -> SUBSET Seqs] /\ c.used \subseteq Idx
      /\ c.count \in [Seqs -> [Pos -> Nat]] /\ c.head \in 0 .. Size /\ c.k \in [Idx -> Rows]
  BY <1>1 DEF CellSet
<1>3. c.pos \in [Idx -> Int] /\ c.count \in [Seqs -> [Pos -> Int]]
  BY <1>2, PosFacts
<1> QED  BY <1>1, <1>2, <1>3 DEF IsCells

(* Cells that agree count with natural numbers.                            *)
LEMMA AgreeingGood ==
  ASSUME NEW pos \in [Idx -> Pos \cup {-1}], NEW shift \in [Idx -> Int],
         NEW seq \in [Idx -> SUBSET Seqs], NEW used \in SUBSET Idx,
         NEW count, count = [s \in Seqs |-> [p \in Pos |-> count[s][p]]],
         NEW head \in 0 .. Size, NEW k \in [Idx -> Rows],
         NEW c, c = [pos |-> pos, shift |-> shift, seq |-> seq, used |-> used,
                     count |-> count, head |-> head, k |-> k],
         CellsAgree(c)
  PROVE  c \in GoodCells
<1>1. \A s \in Seqs, p \in Pos : count[s][p] \in Nat
  <2> SUFFICES ASSUME NEW s \in Seqs, NEW p \in Pos  PROVE count[s][p] \in Nat
    OBVIOUS
  <2>1. count[s][p] = Times(c, Idx, s, p)
    BY DEF CellsAgree
  <2>2. Times(c, Idx, s, p) \in Nat
    BY IdxFinite DEF Times
  <2> QED  BY <2>1, <2>2
<1>2. count \in [Seqs -> [Pos -> Nat]]
  BY <1>1
<1> QED  BY <1>2 DEF GoodCells, CellSet

(* The least of some cells.                                                *)
LEMMA LeastCell ==
  ASSUME NEW T \in SUBSET Idx, T # {}
  PROVE  Least(T) \in T /\ Least(T) \in 0 .. Size
<1>1. T \in SUBSET Nat
  BY PosFacts DEF Idx
<1>2. \E x \in T : \A y \in T : x <= y
  BY <1>1, LeastNatural
<1>3. Least(T) \in T
  BY <1>2 DEF Least
<1>4. Size \in Nat /\ Least(T) \in Idx
  BY <1>3, CacheAssumption
<1> QED  BY <1>3, <1>4 DEF Idx

LEMMA EmptyGood ==
  EmptyCells \in GoodCells
<1>1. NoRow \in Rows /\ -1 \in Pos \cup {-1} /\ 0 \in 0 .. Size /\ 0 \in Int
  BY PosFacts DEF NoRow, Row, Rows
<1>2. CellsAgree(EmptyCells)
  BY EmptyAgrees
<1>3. EmptyCells \in CellSet
  BY <1>1 DEF EmptyCells, CellSet
<1> QED  BY <1>2, <1>3 DEF GoodCells

(* seq_rm()                                                                *)
LEMMA SeqRmGood ==
  ASSUME NEW c \in GoodCells, NEW s \in Seqs, NEW p0 \in Int, NEW p1 \in Int
  PROVE  SeqRm(c, s, p0, p1) \in GoodCells /\ Steady(c, SeqRm(c, s, p0, p1))
<1> DEFINE d == SeqRm(c, s, p0, p1)
           T == Held(c, s, p0, p1)
           freed == {i \in T : c.seq[i] = {s}}
           pos == [i \in Idx |-> IF i \in freed THEN -1 ELSE c.pos[i]]
           shift == [i \in Idx |-> IF i \in freed THEN 0 ELSE c.shift[i]]
           seq == [i \in Idx |-> IF i \in T THEN c.seq[i] \ {s} ELSE c.seq[i]]
           used == c.used \ freed
           count == [q \in Seqs |-> [p \in Pos |-> c.count[q][p] - IF q = s THEN Times(c, T, s, p) ELSE 0]]
           head == HeadAt(c, freed)
<1>1. CellsAgree(d)
  BY GoodFields, SeqRmAgrees
<1>2. T \subseteq Idx /\ freed \subseteq T
  BY DEF Held
<1>3. head \in 0 .. Size
  BY <1>2, LeastCell, GoodFields DEF HeadAt
<1>4. d = [c EXCEPT !.seq = seq, !.pos = pos, !.shift = shift, !.used = used, !.count = count, !.head = head]
  BY DEF SeqRm
<1>5. count = [q \in Seqs |-> [p \in Pos |-> count[q][p]]]
  OBVIOUS
<1> HIDE DEF T, freed
<1>6. /\ pos \in [Idx -> Pos \cup {-1}] /\ shift \in [Idx -> Int]
      /\ seq \in [Idx -> SUBSET Seqs] /\ used \in SUBSET Idx
  BY GoodFields
<1>7. \A i \in Idx : pos[i] # -1 => c.pos[i] # -1 /\ pos[i] - shift[i] = c.pos[i] - c.shift[i]
  OBVIOUS
<1> HIDE DEF pos, shift, seq, used, count, head, d
<1>8. d = [pos |-> pos, shift |-> shift, seq |-> seq, used |-> used, count |-> count,
           head |-> head, k |-> c.k]
  BY <1>4, GoodFields DEF CellSet
<1>9. d \in GoodCells
  BY <1>1, <1>3, <1>5, <1>6, <1>8, GoodFields, AgreeingGood
<1>10. Steady(c, d)
  BY <1>7, <1>8 DEF Steady
<1> QED  BY <1>9, <1>10 DEF d

(* seq_rm() of all positions leaves the sequence nothing.                  *)
LEMMA SeqRmAll ==
  ASSUME NEW c \in GoodCells, NEW s \in Seqs
  PROVE  \A i \in Idx : s \notin SeqRm(c, s, 0, Infinity).seq[i]
<1> SUFFICES ASSUME NEW i \in Idx  PROVE s \notin SeqRm(c, s, 0, Infinity).seq[i]
  OBVIOUS
<1> DEFINE T == Held(c, s, 0, Infinity)
<1>1. SeqRm(c, s, 0, Infinity).seq[i] = IF i \in T THEN c.seq[i] \ {s} ELSE c.seq[i]
  BY GoodFields DEF SeqRm, IsCells
<1>2. s \in c.seq[i] => 0 <= c.pos[i] /\ c.pos[i] < Infinity
  <2>1. s \in c.seq[i] => c.pos[i] # -1
    BY GoodFields DEF CellsAgree
  <2>2. c.pos[i] \in Pos \cup {-1}
    BY GoodFields
  <2> QED  BY <2>1, <2>2, PosFacts
<1>3. s \in c.seq[i] => i \in T
  BY <1>2 DEF Held
<1> QED  BY <1>1, <1>3

(* seq_cp() within a stream                                                *)
LEMMA SeqCpGood ==
  ASSUME NEW c \in GoodCells, NEW s \in Seqs, NEW x \in Seqs, \A i \in Idx : x \notin c.seq[i]
  PROVE  SeqCp(c, s, x) \in GoodCells /\ Steady(c, SeqCp(c, s, x))
<1> DEFINE d == SeqCp(c, s, x)
           T == Held(c, s, 0, Infinity)
           seq == [i \in Idx |-> IF i \in T THEN c.seq[i] \cup {x} ELSE c.seq[i]]
           count == [q \in Seqs |-> [p \in Pos |-> c.count[q][p] + IF q = x THEN Times(c, T, s, p) ELSE 0]]
<1>1. CellsAgree(d)
  BY GoodFields, SeqCpAgrees
<1>2. d = [c EXCEPT !.seq = seq, !.count = count]
  BY DEF SeqCp
<1>3. count = [q \in Seqs |-> [p \in Pos |-> count[q][p]]]
  OBVIOUS
<1> HIDE DEF T
<1>4. seq \in [Idx -> SUBSET Seqs]
  BY GoodFields
<1> HIDE DEF seq, count, d
<1>5. d = [pos |-> c.pos, shift |-> c.shift, seq |-> seq, used |-> c.used, count |-> count,
           head |-> c.head, k |-> c.k]
  BY <1>2, GoodFields DEF CellSet
<1>6. d \in GoodCells
  BY <1>1, <1>3, <1>4, <1>5, GoodFields, AgreeingGood
<1>7. Steady(c, d)
  BY <1>5 DEF Steady
<1> QED  BY <1>6, <1>7 DEF d

(* seq_cp() to another stream: the rows of the source are the base.        *)
LEMMA SeqCpToGood ==
  ASSUME NEW c \in GoodCells, NEW to \in GoodCells, NEW s \in Seqs, NEW x \in Seqs
  PROVE  /\ SeqCpTo(c, s, to, x) \in GoodCells /\ SeqCpTo(c, s, to, x).k = to.k
         /\ \A r : Based(c, r) => Based(SeqCpTo(c, s, to, x), r)
<1> DEFINE d == SeqCpTo(c, s, to, x)
           T == Held(c, s, 0, Infinity)
           pos == [i \in Idx |-> IF i \in T THEN c.pos[i] ELSE -1]
           shift == [i \in Idx |-> IF i \in T THEN c.shift[i] ELSE 0]
           seq == [i \in Idx |-> IF i \in T THEN {x} ELSE {}]
           count == [q \in Seqs |-> [p \in Pos |-> IF q = x THEN Times(c, T, s, p) ELSE 0]]
<1>1. CellsAgree(d)
  BY GoodFields, SeqCpToAgrees
<1>2. d = [EmptyCells EXCEPT !.k = to.k, !.pos = pos, !.shift = shift, !.seq = seq,
                             !.used = T, !.count = count, !.head = c.head]
  BY DEF SeqCpTo
<1>3. count = [q \in Seqs |-> [p \in Pos |-> count[q][p]]]
  OBVIOUS
<1>4. T \in SUBSET Idx
  BY DEF Held
<1> HIDE DEF T
<1>5. /\ pos \in [Idx -> Pos \cup {-1}] /\ shift \in [Idx -> Int] /\ seq \in [Idx -> SUBSET Seqs]
  BY GoodFields
<1>6. \A i \in Idx : pos[i] # -1 => pos[i] = c.pos[i] /\ shift[i] = c.shift[i]
  OBVIOUS
<1> HIDE DEF pos, shift, seq, count, d
<1>0. d = [pos |-> pos, shift |-> shift, seq |-> seq, used |-> T, count |-> count,
           head |-> c.head, k |-> to.k]
  BY <1>2 DEF EmptyCells
<1>7. d \in GoodCells
  <2>1. c.head \in 0 .. Size /\ to.k \in [Idx -> Rows]
    BY GoodFields
  <2> QED  BY <1>0, <1>1, <1>3, <1>4, <1>5, <2>1, AgreeingGood
<1>8. d.k = to.k /\ d.pos = pos /\ d.shift = shift
  BY <1>0
<1>9. \A r : Based(c, r) => Based(d, r)
  BY <1>6, <1>8 DEF Based
<1> QED  BY <1>7, <1>8, <1>9 DEF d

(* seq_add() to lower positions                                            *)
LEMMA SeqAddGood ==
  ASSUME NEW c \in GoodCells, NEW s \in Seqs, NEW p0 \in Nat, NEW p1 \in Int, NEW n \in Int, n <= 0
  PROVE  SeqAdd(c, s, p0, p1, n) \in GoodCells /\ Steady(c, SeqAdd(c, s, p0, p1, n))
<1> DEFINE d == SeqAdd(c, s, p0, p1, n)
           T == Held(c, s, p0, p1)
           freed == {i \in T : c.pos[i] + n < 0}
           moved == T \ freed
           pos == [i \in Idx |-> IF i \in freed THEN -1
                                 ELSE IF i \in moved THEN c.pos[i] + n ELSE c.pos[i]]
           shift == [i \in Idx |-> IF i \in freed THEN 0
                                   ELSE IF i \in moved THEN c.shift[i] + n ELSE c.shift[i]]
           seq == [i \in Idx |-> IF i \in freed THEN {} ELSE c.seq[i]]
           used == c.used \ freed
           count == [q \in Seqs |-> [p \in Pos |->
                       c.count[q][p] - Times(c, T, q, p) + Times(c, moved, q, p - n)]]
           head == IF p0 = p1 THEN c.head ELSE IF freed # {} THEN Least(freed) ELSE 0
<1>1. CellsAgree(d)
  BY GoodFields, SeqAddAgrees
<1>2. T \subseteq Idx /\ freed \subseteq T /\ \A i \in T : 0 <= c.pos[i]
  <2>1. T \subseteq Idx /\ \A i \in T : p0 <= c.pos[i]
    BY DEF Held
  <2>2. \A i \in Idx : c.pos[i] \in Int
    BY GoodFields, PosFacts
  <2> QED  BY <2>1, <2>2
<1>3. head \in 0 .. Size
  <2>1. c.head \in 0 .. Size
    BY GoodFields
  <2>2. freed # {} => Least(freed) \in 0 .. Size
    BY <1>2, LeastCell, PosFacts
  <2>3. 0 \in 0 .. Size
    BY PosFacts
  <2> HIDE DEF freed
  <2> QED  BY <2>1, <2>2, <2>3
<1>4. d = [c EXCEPT !.pos = pos, !.shift = shift, !.seq = seq, !.used = used, !.count = count, !.head = head]
  BY DEF SeqAdd
<1>5. count = [q \in Seqs |-> [p \in Pos |-> count[q][p]]]
  OBVIOUS
<1>6. \A i \in moved : ~(c.pos[i] + n < 0)
  OBVIOUS
<1> DEFINE mv == moved
           fr == freed
<1>7. /\ pos = [i \in Idx |-> IF i \in fr THEN -1 ELSE IF i \in mv THEN c.pos[i] + n ELSE c.pos[i]]
      /\ shift = [i \in Idx |-> IF i \in fr THEN 0 ELSE IF i \in mv THEN c.shift[i] + n ELSE c.shift[i]]
      /\ mv \subseteq Idx /\ \A i \in mv : ~(c.pos[i] + n < 0) /\ 0 <= c.pos[i]
  BY <1>2, <1>6
<1>8. used \in SUBSET Idx
  BY GoodFields
<1>9. seq \in [Idx -> SUBSET Seqs]
  BY GoodFields
<1> HIDE DEF T, freed, moved, mv, fr, pos, shift, seq, used, count, head, d
<1>10. ASSUME NEW i \in Idx
       PROVE  /\ pos[i] \in Pos \cup {-1} /\ shift[i] \in Int
              /\ pos[i] # -1 => c.pos[i] # -1 /\ pos[i] - shift[i] = c.pos[i] - c.shift[i]
  <2>1. c.pos[i] \in Pos \cup {-1} /\ c.pos[i] \in Int /\ c.shift[i] \in Int
    BY GoodFields, PosFacts
  <2>2. CASE i \in fr
    BY <1>7, <2>1, <2>2
  <2>3. CASE i \notin fr /\ i \in mv
    <3>1. pos[i] = c.pos[i] + n /\ shift[i] = c.shift[i] + n
      BY <1>7, <2>3
    <3>2. pos[i] \in Int /\ 0 <= pos[i] /\ c.pos[i] # -1 /\ c.pos[i] <= MaxPos
      BY <1>7, <2>1, <2>3, <3>1, PosFacts
    <3>3. pos[i] <= MaxPos
      BY <2>1, <3>1, <3>2, PosFacts
    <3> QED  BY <2>1, <3>1, <3>2, <3>3, PosFacts
  <2>4. CASE i \notin fr /\ i \notin mv
    BY <1>7, <2>1, <2>4
  <2> QED  BY <2>2, <2>3, <2>4
<1>11. pos \in [Idx -> Pos \cup {-1}] /\ shift \in [Idx -> Int]
  BY <1>7, <1>10
<1>12. d = [pos |-> pos, shift |-> shift, seq |-> seq, used |-> used, count |-> count,
            head |-> head, k |-> c.k]
  BY <1>4, GoodFields DEF CellSet
<1>13. d \in GoodCells
  BY <1>1, <1>3, <1>5, <1>8, <1>9, <1>11, <1>12, GoodFields, AgreeingGood
<1>14. Steady(c, d)
  BY <1>10, <1>12 DEF Steady
<1> QED  BY <1>13, <1>14 DEF d

(* Nothing is left to shift, and every row is where its cell is.           *)
InPlace(d) == \A i \in Idx : d.shift[i] = 0 /\ (d.pos[i] # -1 => d.k[i].rot = d.pos[i])

LEMMA InPlaceBased ==
  ASSUME NEW d \in GoodCells, InPlace(d)
  PROVE  Based(d, d.k)
BY GoodFields, PosFacts DEF InPlace, Based

(* update(): the rows r, which update() copied to the stream, are rotated  *)
(* to the positions of their cells.                                        *)
LEMMA ApplyShiftGood ==
  ASSUME NEW c \in GoodCells, NEW r \in [Idx -> Rows], Based(c, r)
  PROVE  ApplyShift([c EXCEPT !.k = r]) \in GoodCells /\ InPlace(ApplyShift([c EXCEPT !.k = r]))
<1> DEFINE b == [c EXCEPT !.k = r]
           d == ApplyShift(b)
           k == [i \in Idx |-> IF c.pos[i] = -1 THEN NoRow
                               ELSE IF c.shift[i] = 0 THEN r[i]
                               ELSE Row(r[i].tok, r[i].rot + c.shift[i])]
           shift == [i \in Idx |-> 0]
<1>1. b = [pos |-> c.pos, shift |-> c.shift, seq |-> c.seq, used |-> c.used, count |-> c.count,
           head |-> c.head, k |-> r]
  BY GoodFields DEF CellSet
<1>2. IsCells(b)
  <2> HIDE DEF b
  <2> QED  BY <1>1, GoodFields DEF IsCells
<1>3. CellsAgree(b)
  <2> HIDE DEF b
  <2>1. \A s \in Seqs, p \in Pos : Times(b, Idx, s, p) = Times(c, Idx, s, p)
    BY <1>1 DEF Times
  <2>2. CellsAgree(c)
    BY GoodFields
  <2> QED  BY <1>1, <2>1, <2>2 DEF CellsAgree
<1>4. CellsAgree(d)
  <2> HIDE DEF b
  <2> QED  BY <1>2, <1>3, ApplyShiftAgrees
<1>5. d = [b EXCEPT !.k = k, !.shift = shift]
  <2> HIDE DEF b
  <2>1. b.pos = c.pos /\ b.shift = c.shift /\ b.k = r
    BY <1>1
  <2> QED  BY <2>1 DEF ApplyShift
<1>6. ASSUME NEW i \in Idx
      PROVE  k[i] \in Rows /\ (c.pos[i] # -1 => k[i].rot = c.pos[i])
  <2>1. r[i] \in Rows /\ c.shift[i] \in Int /\ c.pos[i] \in Int
    BY GoodFields, PosFacts
  <2>2. r[i].tok \in Tokens \cup {NoToken} /\ r[i].rot \in Int
    BY <2>1 DEF Rows
  <2>3. CASE c.pos[i] = -1
    BY <2>3 DEF Rows, NoRow, Row
  <2>4. CASE c.pos[i] # -1 /\ c.shift[i] = 0
    BY <2>1, <2>2, <2>4 DEF Based
  <2>5. CASE c.pos[i] # -1 /\ c.shift[i] # 0
    <3>1. r[i].rot + c.shift[i] = c.pos[i]
      BY <2>1, <2>2, <2>5 DEF Based
    <3>2. k[i] = Row(r[i].tok, r[i].rot + c.shift[i])
      BY <2>5
    <3> QED  BY <2>1, <2>2, <3>1, <3>2 DEF Row, Rows
  <2> QED  BY <2>3, <2>4, <2>5
<1>7. k \in [Idx -> Rows] /\ shift \in [Idx -> Int] /\ \A i \in Idx : shift[i] = 0
  BY <1>6
<1> HIDE DEF k, shift, d
<1>8. d = [pos |-> c.pos, shift |-> shift, seq |-> c.seq, used |-> c.used, count |-> c.count,
           head |-> c.head, k |-> k]
  <2> HIDE DEF b
  <2> QED  BY <1>1, <1>5
<1>9. c.count = [s \in Seqs |-> [p \in Pos |-> c.count[s][p]]]
  BY GoodFields
<1>10. d \in GoodCells
  BY <1>4, <1>7, <1>8, <1>9, GoodFields, AgreeingGood
<1>11. InPlace(d)
  BY <1>6, <1>7, <1>8 DEF InPlace
<1> QED  BY <1>10, <1>11 DEF d

(* The elements of a finite set of numbers can be counted off in ascending *)
(* order.                                                                  *)
LEMMA NthFound ==
  ASSUME NEW S \in SUBSET Nat, IsFiniteSet(S), NEW n \in 1 .. Cardinality(S)
  PROVE  Nth(S, n) \in S /\ Cardinality({y \in S : y < Nth(S, n)}) = n - 1
<1> DEFINE Below(x) == {y \in S : y < x}
           c == Cardinality(S)
           G == {m \in 0 .. c - 1 : \E x \in S : Cardinality(Below(x)) = m}
<1>0. \A y \in S : y \in Int
  OBVIOUS
<1>1. c \in Nat /\ c - 1 \in Nat /\ n - 1 \in 0 .. c - 1
  BY FS_CardinalityType
<1>2. 0 \in G
  <2>1. S # {}
    BY <1>1, FS_EmptySet
  <2>2. PICK x \in S : \A y \in S : x <= y
    BY <2>1, LeastNatural
  <2>3. Below(x) = {}
    <3>1. \A y \in S : ~(y < x)
      BY <1>0, <2>2
    <3> QED  BY <3>1
  <2>4. Cardinality(Below(x)) = 0
    <3> HIDE DEF Below
    <3> QED  BY <2>3, FS_EmptySet
  <2> HIDE DEF c, Below
  <2> QED  BY <1>1, <2>4
<1>3. ASSUME NEW m \in 0 .. (c - 1) - 1, m \in G  PROVE m + 1 \in G
  <2>1. PICK x \in S : Cardinality(Below(x)) = m
    BY <1>3
  <2>2. IsFiniteSet(Below(x)) /\ x \notin Below(x) /\ Below(x) \subseteq S
    <3>1. Below(x) \subseteq S /\ x \notin Below(x)
      OBVIOUS
    <3> HIDE DEF Below
    <3> QED  BY <3>1, FS_Subset
  <2> DEFINE B == Below(x) \cup {x}
             T == {y \in S : x < y}
  <2>3. Cardinality(B) = m + 1
    <3> HIDE DEF Below
    <3> QED  BY <2>1, <2>2, FS_AddElement
  <2>4. T # {}
    <3>1. SUFFICES ASSUME T = {}  PROVE FALSE
      OBVIOUS
    <3>2. \A y \in S : y < x \/ y = x
      BY <1>0, <3>1
    <3>3. B = S
      BY <3>2
    <3> HIDE DEF B, T
    <3> QED  BY <1>1, <2>3, <3>3
  <2>5. PICK z \in T : \A y \in T : z <= y
    <3>1. T \in SUBSET Nat
      OBVIOUS
    <3> HIDE DEF T
    <3> QED  BY <2>4, <3>1, LeastNatural
  <2>6. Below(z) = B
    <3>1. \A y \in S : y < z <=> y < x \/ y = x
      BY <1>0, <2>5
    <3> QED  BY <3>1
  <2>7. z \in S /\ m + 1 \in 0 .. c - 1
    BY <1>1
  <2> HIDE DEF B, T, Below, c
  <2> QED  BY <2>3, <2>6, <2>7
<1>4. n - 1 \in G
  <2>1. 0 \in G /\ \A m \in 0 .. (c - 1) - 1 : m \in G => m + 1 \in G
    BY <1>2, <1>3
  <2> HIDE DEF G, c
  <2>2. \A m \in 0 .. c - 1 : m \in G
    BY <1>1, <2>1, SegmentInduction
  <2> QED  BY <1>1, <2>2
<1>5. \E x \in S : Cardinality({y \in S : y < x}) = n - 1
  BY <1>4
<1> QED  BY <1>5 DEF Nth

(* find_slot(): what it finds is empty.                                    *)
LEMMA FoundIsEmpty ==
  ASSUME NEW c \in GoodCells, NEW n \in Nat, Len(FindSlot(c, n)) = n
  PROVE  \A j \in 1 .. n : FindSlot(c, n)[j] \in Empty(c)
<1> SUFFICES ASSUME NEW j \in 1 .. n  PROVE FindSlot(c, n)[j] \in Empty(c)
  OBVIOUS
<1> DEFINE from == IF c.head > Cardinality(c.used) + 2 * n THEN 0 ELSE c.head
           free == {d \in Idx : (from + d) % Size \in Empty(c)}
<1>1. free \subseteq Idx
  OBVIOUS
<1>2. free \in SUBSET Nat /\ IsFiniteSet(free) /\ Cardinality(free) \in Nat
  <2> HIDE DEF free
  <2>1. Idx \in SUBSET Nat
    BY DEF Idx
  <2> QED  BY <1>1, <2>1, IdxFinite
<1>3. FindSlot(c, n) = IF Cardinality(free) < n THEN <<>>
                       ELSE [i \in 1 .. n |-> (from + Nth(free, i)) % Size]
  BY DEF FindSlot
<1>4. \A d \in free : (from + d) % Size \in Empty(c)
  OBVIOUS
<1> HIDE DEF free, from
<1>5. ~(Cardinality(free) < n)
  <2>1. SUFFICES ASSUME Cardinality(free) < n  PROVE FALSE
    OBVIOUS
  <2>2. FindSlot(c, n) = <<>>
    BY <1>3, <2>1
  <2>3. n = 0
    BY <2>2
  <2> QED  BY <2>3
<1>6. j \in 1 .. Cardinality(free)
  BY <1>2, <1>5
<1>7. Nth(free, j) \in free
  BY <1>2, <1>6, NthFound
<1> QED  BY <1>3, <1>4, <1>5, <1>7

Ents == [seq : Slots, pos : Pos, tok : Tokens]

(* apply_ubatch() and the decode: the new rows are rotated to the          *)
(* positions of their cells.                                               *)
LEMMA PlaceGood ==
  ASSUME NEW c \in GoodCells, Based(c, c.k), NEW slot, NEW ub, Len(ub) \in Nat \ {0},
         \A j \in 1 .. Len(ub) : slot[j] \in Empty(c) /\ ub[j] \in Ents
  PROVE  Place(c, slot, ub) \in GoodCells /\ Based(Place(c, slot, ub), Place(c, slot, ub).k)
<1> DEFINE d == Place(c, slot, ub)
           filled == {slot[j] : j \in 1 .. Len(ub)}
           put == [i \in filled |-> ub[CHOOSE j \in 1 .. Len(ub) : slot[j] = i]]
           added == [s \in Seqs |-> [p \in Pos |->
                       Cardinality({i \in filled : put[i].seq = s /\ put[i].pos = p})]]
           pos == [i \in Idx |-> IF i \in filled THEN put[i].pos ELSE c.pos[i]]
           seq == [i \in Idx |-> IF i \in filled THEN {put[i].seq} ELSE c.seq[i]]
           k == [i \in Idx |-> IF i \in filled THEN Row(put[i].tok, put[i].pos) ELSE c.k[i]]
           used == c.used \cup filled
           count == [s \in Seqs |-> [p \in Pos |-> c.count[s][p] + added[s][p]]]
           head == slot[Len(ub)] + 1
<1>1. CellsAgree(d)
  <2>1. Seqs = Slots
    BY SlotAssumption
  <2>2. \A j \in 1 .. Len(ub) : /\ slot[j] \in Empty(c)
                                /\ ub[j].seq \in Seqs /\ ub[j].pos \in Pos
    BY <2>1 DEF Ents
  <2> HIDE DEF d
  <2>3. CellsAgree(Place(c, slot, ub))
    BY <2>2, GoodFields, PlaceAgrees
  <2> QED  BY <2>3 DEF d
<1>2. filled \subseteq Idx /\ filled \cap c.used = {}
  BY DEF Empty
<1>3. ASSUME NEW i \in filled  PROVE put[i] \in Ents
  <2> DEFINE j == CHOOSE j \in 1 .. Len(ub) : slot[j] = i
  <2>1. j \in 1 .. Len(ub)
    OBVIOUS
  <2>2. put[i] = ub[j]
    OBVIOUS
  <2> HIDE DEF j, put, filled
  <2> QED  BY <2>1, <2>2
<1>4. d = [c EXCEPT !.pos = pos, !.seq = seq, !.k = k, !.used = used, !.count = count, !.head = head]
  BY DEF Place
<1>5. count = [s \in Seqs |-> [p \in Pos |-> count[s][p]]]
  OBVIOUS
<1>6. head \in 0 .. Size
  <2>1. slot[Len(ub)] \in Idx
    BY DEF Empty
  <2> QED  BY <2>1, PosFacts DEF Idx
<1> HIDE DEF filled, put, head, added
<1>7. \A i \in filled : c.shift[i] = 0
  <2>1. CellsAgree(c)
    BY GoodFields
  <2> QED  BY <1>2, <2>1 DEF CellsAgree
<1>8. used \in SUBSET Idx
  BY <1>2, GoodFields
<1>9. ASSUME NEW i \in Idx
      PROVE  /\ pos[i] \in Pos \cup {-1} /\ seq[i] \in SUBSET Seqs /\ k[i] \in Rows
             /\ pos[i] # -1 => k[i].rot = pos[i] - c.shift[i]
  <2>1. CASE i \in filled
    <3>1. put[i] \in Ents
      BY <1>3, <2>1
    <3>2. put[i].pos \in Pos /\ put[i].seq \in Slots /\ put[i].tok \in Tokens
      BY <3>1 DEF Ents
    <3>3. pos[i] = put[i].pos /\ seq[i] = {put[i].seq} /\ k[i] = [tok |-> put[i].tok, rot |-> put[i].pos]
      BY <2>1 DEF Row
    <3>4. put[i].pos \in Int /\ c.shift[i] = 0
      BY <1>7, <2>1, <3>2, PosFacts
    <3>5. k[i] \in Rows /\ k[i].rot = put[i].pos
      BY <3>2, <3>3, <3>4 DEF Rows
    <3> QED  BY <3>2, <3>3, <3>4, <3>5, SlotAssumption
  <2>2. CASE i \notin filled
    <3>1. pos[i] = c.pos[i] /\ seq[i] = c.seq[i] /\ k[i] = c.k[i]
      BY <2>2
    <3> QED  BY <3>1, GoodFields DEF Based
  <2> QED  BY <2>1, <2>2
<1>10. pos \in [Idx -> Pos \cup {-1}] /\ seq \in [Idx -> SUBSET Seqs] /\ k \in [Idx -> Rows]
  BY <1>9
<1> HIDE DEF pos, seq, k, used, count, d
<1>11. d = [pos |-> pos, shift |-> c.shift, seq |-> seq, used |-> used, count |-> count,
            head |-> head, k |-> k]
  BY <1>4, GoodFields DEF CellSet
<1>12. d \in GoodCells
  BY <1>1, <1>5, <1>6, <1>8, <1>10, <1>11, GoodFields, AgreeingGood
<1>13. Based(d, d.k)
  BY <1>9, <1>11 DEF Based
<1> QED  BY <1>12, <1>13 DEF d

---------------------------------------------------------------------------
(* The copies of streams that are pending.                                 *)

(* Copied(), from the rows that the streams have.                          *)
CopiedFrom(base, list) ==
  LET rows[n \in 0 .. Len(list)] ==
        IF n = 0 THEN base
        ELSE [rows[n - 1] EXCEPT ![list[n].to] = rows[n - 1][list[n].from]]
  IN  rows[Len(list)]

StreamCopies == [from : Slots, to : Slots]
StreamRows   == [Slots -> [Idx -> Rows]]

(* The rows after each of the copies.                                      *)
CopiesInOrder(base, list, g) ==
  g = [n \in 0 .. Len(list) |->
         IF n = 0 THEN base ELSE [g[n - 1] EXCEPT ![list[n].to] = g[n - 1][list[n].from]]]

LEMMA CopiesDefined ==
  ASSUME NEW base \in StreamRows, NEW list \in Seq(StreamCopies)
  PROVE  \E g : /\ CopiesInOrder(base, list, g) /\ CopiedFrom(base, list) = g[Len(list)]
                /\ \A n \in 0 .. Len(list) : g[n] \in StreamRows
<1> DEFINE N == Len(list)
           Step(r, n) == [r EXCEPT ![list[n + 1].to] = r[list[n + 1].from]]
           W == [n \in 0 .. N |-> StreamRows]
           F == [x \in StreamRows \X (0 .. N) |-> Step(x[1], x[2])]
<1>1. N \in Nat /\ \A n \in 0 .. N - 1 : list[n + 1] \in StreamCopies
  OBVIOUS
<1>2. ASSUME NEW n \in 0 .. N - 1, NEW r \in StreamRows
      PROVE  Step(r, n) \in StreamRows /\ F[<<r, n>>] = Step(r, n)
  <2>1. list[n + 1].from \in Slots /\ list[n + 1].to \in Slots
    BY <1>1 DEF StreamCopies
  <2>2. n \in 0 .. N
    BY <1>1
  <2> QED  BY <2>1, <2>2 DEF StreamRows
<1>3. \A n \in 0 .. N - 1 : \A r \in W[n] : F[<<r, n>>] \in W[n + 1]
  <2> SUFFICES ASSUME NEW n \in 0 .. N - 1, NEW r \in W[n]  PROVE F[<<r, n>>] \in W[n + 1]
    OBVIOUS
  <2>1. W[n] = StreamRows /\ W[n + 1] = StreamRows
    BY <1>1
  <2> HIDE DEF Step, F, W
  <2>2. r \in StreamRows
    BY <2>1
  <2>3. Step(r, n) \in StreamRows /\ F[<<r, n>>] = Step(r, n)
    BY <1>2, <2>2
  <2> QED  BY <2>1, <2>3
<1>4. base \in W[0]
  BY <1>1
<1>5. PICK h : /\ Follows(N, F, base, h)
               /\ \A n \in 0 .. N : h[n] \in W[n]
  <2>1. N \in Nat /\ Leads(N, W, F)
    BY <1>1, <1>3 DEF Leads
  <2> HIDE DEF F, W, N
  <2> QED  BY <2>1, <1>4, LoopSolved
<1>6. CopiesInOrder(base, list, h)
  <2>1. \A n \in 0 .. N : n # 0 => /\ n - 1 \in 0 .. N - 1 /\ n - 1 \in 0 .. N /\ (n - 1) + 1 = n
    BY <1>1
  <2>2. \A n \in 0 .. N : h[n] = IF n = 0 THEN base ELSE F[<<h[n - 1], n - 1>>]
    <3> HIDE DEF F, W
    <3> SUFFICES ASSUME NEW n \in 0 .. N  PROVE h[n] = IF n = 0 THEN base ELSE F[<<h[n - 1], n - 1>>]
      OBVIOUS
    <3>1. CASE n = 0
      BY <1>5, <3>1 DEF Follows
    <3>2. CASE n # 0
      BY <1>5, <2>1, <3>2 DEF Follows
    <3> QED  BY <3>1, <3>2
  <2>3. \A n \in 0 .. N : h[n] \in StreamRows
    BY <1>5
  <2> HIDE DEF F
  <2>4. \A n \in 0 .. N : n # 0 => F[<<h[n - 1], n - 1>>] = [h[n - 1] EXCEPT ![list[n].to] = h[n - 1][list[n].from]]
    BY <1>2, <2>1, <2>3
  <2>5. h = [n \in 0 .. N |-> h[n]]
    BY <1>5 DEF Follows
  <2> QED  BY <2>2, <2>4, <2>5 DEF CopiesInOrder
<1> DEFINE g == CHOOSE x : CopiesInOrder(base, list, x)
<1>7. CopiesInOrder(base, list, g)
  BY <1>6
<1>8. CopiedFrom(base, list) = g[N]
  BY DEF CopiedFrom, CopiesInOrder
<1> HIDE DEF g
<1>9. \A n \in 0 .. N : g[n] \in StreamRows
  <2> DEFINE G == {n \in 0 .. N : g[n] \in StreamRows}
  <2>1. g[0] = base
    BY <1>1, <1>7 DEF CopiesInOrder
  <2>2. ASSUME NEW n \in 0 .. N - 1, g[n] \in StreamRows  PROVE g[n + 1] \in StreamRows
    <3>1. n + 1 \in 0 .. N /\ n + 1 # 0 /\ (n + 1) - 1 = n
      BY <1>1
    <3>2. g[n + 1] = Step(g[n], n)
      BY <1>7, <3>1 DEF CopiesInOrder
    <3> HIDE DEF Step
    <3> QED  BY <1>2, <2>2, <3>2
  <2>3. 0 \in G /\ \A n \in 0 .. N - 1 : n \in G => n + 1 \in G
    BY <1>1, <2>1, <2>2
  <2> HIDE DEF G
  <2>4. \A n \in 0 .. N : n \in G
    BY <1>1, <2>3, SegmentInduction
  <2> QED  BY <2>4 DEF G
<1> QED  BY <1>7, <1>8, <1>9

(* One copy more.                                                          *)
LEMMA CopiedAppend ==
  ASSUME NEW base \in StreamRows, NEW list \in Seq(StreamCopies), NEW y \in StreamCopies
  PROVE  CopiedFrom(base, Append(list, y)) =
           [CopiedFrom(base, list) EXCEPT ![y.to] = CopiedFrom(base, list)[y.from]]
<1> DEFINE more == Append(list, y)
           N == Len(list)
<1>1. N \in Nat /\ more \in Seq(StreamCopies) /\ Len(more) = N + 1 /\ more[N + 1] = y
      /\ \A n \in 1 .. N : more[n] = list[n]
  OBVIOUS
<1> HIDE DEF more
<1>2. PICK g : CopiesInOrder(base, list, g) /\ CopiedFrom(base, list) = g[N]
  BY CopiesDefined
<1>3. PICK h : CopiesInOrder(base, more, h) /\ CopiedFrom(base, more) = h[N + 1]
  BY <1>1, CopiesDefined
<1>4. \A n \in 0 .. N : h[n] = g[n]
  <2> DEFINE G == {n \in 0 .. N : h[n] = g[n]}
  <2>1. h[0] = base /\ g[0] = base
    BY <1>1, <1>2, <1>3 DEF CopiesInOrder
  <2>2. ASSUME NEW n \in 0 .. N - 1, h[n] = g[n]  PROVE h[n + 1] = g[n + 1]
    <3>1. n + 1 \in 0 .. N /\ n + 1 \in 0 .. N + 1 /\ n + 1 # 0 /\ (n + 1) - 1 = n /\ n + 1 \in 1 .. N
      BY <1>1
    <3>2. g[n + 1] = [g[n] EXCEPT ![list[n + 1].to] = g[n][list[n + 1].from]]
      BY <1>2, <3>1 DEF CopiesInOrder
    <3>3. h[n + 1] = [h[n] EXCEPT ![more[n + 1].to] = h[n][more[n + 1].from]]
      <4>1. n + 1 \in 0 .. Len(more)
        BY <1>1, <3>1
      <4> QED  BY <1>3, <3>1, <4>1 DEF CopiesInOrder
    <3> QED  BY <1>1, <2>2, <3>1, <3>2, <3>3
  <2>3. 0 \in G /\ \A n \in 0 .. N - 1 : n \in G => n + 1 \in G
    BY <1>1, <2>1, <2>2
  <2> HIDE DEF G
  <2>4. \A n \in 0 .. N : n \in G
    BY <1>1, <2>3, SegmentInduction
  <2> QED  BY <2>4 DEF G
<1>5. h[N + 1] = [h[N] EXCEPT ![y.to] = h[N][y.from]]
  <2>1. N + 1 \in 0 .. N + 1 /\ N + 1 # 0 /\ (N + 1) - 1 = N
    BY <1>1
  <2> QED  BY <1>1, <1>3, <2>1 DEF CopiesInOrder
<1>6. h[N] = g[N]
  BY <1>1, <1>4
<1> QED  BY <1>2, <1>3, <1>5, <1>6 DEF more

BaseRows(cs) == [st \in Slots |-> cs[st].k]

LEMMA CopiedIs ==
  ASSUME NEW cs, NEW list
  PROVE  Copied(cs, list) = CopiedFrom(BaseRows(cs), list)
BY DEF Copied, CopiedFrom, BaseRows

LEMMA CopiedRows ==
  ASSUME NEW cs \in [Slots -> GoodCells], NEW list \in Seq(StreamCopies)
  PROVE  BaseRows(cs) \in StreamRows /\ Copied(cs, list) \in StreamRows
<1>1. BaseRows(cs) \in StreamRows
  BY GoodFields DEF BaseRows, StreamRows
<1>2. PICK g : CopiedFrom(BaseRows(cs), list) = g[Len(list)] /\ \A n \in 0 .. Len(list) : g[n] \in StreamRows
  BY <1>1, CopiesDefined
<1>3. Len(list) \in 0 .. Len(list)
  OBVIOUS
<1> QED  BY <1>1, <1>2, <1>3, CopiedIs

LEMMA NothingCopied ==
  ASSUME NEW cs
  PROVE  Copied(cs, <<>>) = BaseRows(cs)
<1> DEFINE Solves(g) == g = [n \in 0 .. Len(<<>>) |->
                               IF n = 0 THEN BaseRows(cs)
                               ELSE [g[n - 1] EXCEPT ![<<>>[n].to] = g[n - 1][<<>>[n].from]]]
           g == CHOOSE x : Solves(x)
<1>1. Solves([n \in {0} |-> BaseRows(cs)])
  <2>1. 0 .. Len(<<>>) = {0}
    OBVIOUS
  <2> QED  BY <2>1
<1>2. Solves(g)
  <2> HIDE DEF Solves
  <2> QED  BY <1>1
<1>3. CopiedFrom(BaseRows(cs), <<>>) = g[Len(<<>>)]
  BY DEF CopiedFrom
<1> HIDE DEF g
<1>4. Len(<<>>) = 0 /\ 0 \in 0 .. 0
  OBVIOUS
<1>5. g[0] = BaseRows(cs)
  BY <1>2, <1>4
<1> QED  BY <1>3, <1>4, <1>5, CopiedIs

---------------------------------------------------------------------------
(* What update_slots() works on.                                           *)

States == {"idle", "wait_other", "started", "prompt", "done", "generating"}
Roles  == {"none", "single", "parent", "child"}

Works == [cells : [Slots -> GoodCells], copies : Seq(StreamCopies), state : [Slots -> States],
          role : [Slots -> Roles], kin : [Slots -> Slots \cup {NoSlot}],
          prompt : [Slots -> Seq(Tokens)], iBatch : [Slots -> 0 .. BatchSize], batch : Seq(Ents)]

(* The prompts fit, a slot with a task, a parent or a token to sample from  *)
(* has its prompt, what a slot has of a prompt that is not all in the batch *)
(* is less, and the rows, once copied, are where the cells were before the  *)
(* pending shifts.                                                         *)
PromptsFit(w)   == \A s \in Slots : Len(w.prompt[s]) <= NCtx
InputsKnown(w)  ==
  \A s \in Slots :
    (w.state[s] # "idle" \/ w.kin[s] # NoSlot \/ w.iBatch[s] # 0) => input[s] \in Prompts
PromptsGrow(w)  == \A s \in Slots : w.state[s] = "prompt" => Len(w.prompt[s]) < Len(input[s])
RowsBased(w)    == \A st \in Slots : Based(w.cells[st], Copied(w.cells, w.copies)[st])

Sound(w) ==
  /\ w \in Works /\ Len(w.batch) <= BatchSize
  /\ PromptsFit(w) /\ InputsKnown(w) /\ PromptsGrow(w) /\ RowsBased(w)

SoundWorks == {w \in Works : Sound(w)}

(* The inductive invariant.                                                *)
SlotInv ==
  /\ mode \in Modes /\ input \in [Slots -> Prompts \cup {<<>>}]
  /\ Sound(Now)
  /\ nBatch \in 1 .. NBatch /\ pc \in {"tasks", "decode"}
  /\ pc = "tasks" => batch = <<>>

LEMMA MinOfTwo ==
  ASSUME NEW a \in Int, NEW b \in Int
  PROVE  Min({a, b}) = IF a <= b THEN a ELSE b
<1> DEFINE m == IF a <= b THEN a ELSE b
<1>1. m \in {a, b} /\ \A y \in {a, b} : m <= y
  OBVIOUS
<1>2. \A x \in {a, b} : (\A y \in {a, b} : x <= y) => x = m
  OBVIOUS
<1> HIDE DEF m
<1>3. Min({a, b}) = m
  BY <1>1, <1>2 DEF Min
<1> QED  BY <1>3 DEF m

LEMMA MaxOfTwo ==
  ASSUME NEW a \in Int, NEW b \in Int
  PROVE  Max({a, b}) = IF a >= b THEN a ELSE b
<1> DEFINE m == IF a >= b THEN a ELSE b
<1>1. m \in {a, b} /\ \A y \in {a, b} : m >= y
  OBVIOUS
<1>2. \A x \in {a, b} : (\A y \in {a, b} : x >= y) => x = m
  OBVIOUS
<1> HIDE DEF m
<1>3. Max({a, b}) = m
  BY <1>1, <1>2 DEF Max
<1> QED  BY <1>3 DEF m

LEMMA SlotFacts ==
  /\ NSlots \in Nat \ {0} /\ Seqs = Slots /\ 0 \in Slots /\ Slots \subseteq Nat
  /\ NBatch \in Nat \ {0} /\ BatchSize \in Nat /\ NBatch <= BatchSize /\ NSlots <= BatchSize
  /\ NCtx \in Nat /\ 4 <= NCtx /\ NCtx <= MaxPos + 1
  /\ Sampleable \subseteq Tokens /\ NoSlot \notin Slots
  /\ \A p \in Prompts : p \in Seq(Tokens) /\ Len(p) \in Nat /\ 1 <= Len(p) /\ Len(p) < NCtx
  /\ \A n \in 0 .. NSlots - 1 : n \in Slots /\ n \in 0 .. NSlots /\ n + 1 \in 0 .. NSlots
  /\ \A s \in Slots : StreamOf(s) \in Slots
<1>1. 0 \in Slots /\ Slots \subseteq Nat
  BY SlotAssumption DEF Slots
<1>2. \A s \in Slots : StreamOf(s) \in Slots
  BY <1>1 DEF StreamOf
<1>3. \A p \in Prompts : p \in Seq(Tokens) /\ Len(p) \in Nat /\ 1 <= Len(p) /\ Len(p) < NCtx
  BY SlotAssumption
<1>4. \A n \in 0 .. NSlots - 1 : n \in Slots /\ n \in 0 .. NSlots /\ n + 1 \in 0 .. NSlots
  BY SlotAssumption DEF Slots
<1>5. BatchSize = IF NBatch >= NSlots THEN NBatch ELSE NSlots
  BY SlotAssumption, MaxOfTwo DEF BatchSize
<1>6. BatchSize \in Nat /\ NBatch <= BatchSize /\ NSlots <= BatchSize
  BY <1>5, SlotAssumption
<1> QED  BY <1>1, <1>2, <1>3, <1>4, <1>6, SlotAssumption

(* What a shift keeps and discards.                                        *)
LEMMA KeepFacts ==
  ASSUME mode \in Modes
  PROVE  /\ Keep \in Nat /\ Keep <= NCtx - 4
         /\ mode.discard \in Nat /\ mode.discard <= NCtx - 1
<1>1. mode \in Mode /\ mode.discard <= NCtx - 1
  BY SlotAssumption
<1>2. mode.keep \in Nat /\ mode.discard \in Nat
  BY <1>1 DEF Mode
<1>3. NCtx - 4 \in Nat
  BY SlotFacts
<1>4. Keep = IF NCtx - 4 <= mode.keep THEN NCtx - 4 ELSE mode.keep
  BY <1>2, <1>3, MinOfTwo DEF Keep
<1> QED  BY <1>1, <1>2, <1>3, <1>4

(* The same without the slots, for arithmetic.                             *)
LEMMA CtxFacts ==
  NCtx \in Nat /\ 4 <= NCtx /\ NCtx <= MaxPos + 1 /\ MaxPos \in Nat
BY SlotFacts, CacheAssumption

(* The fields of a work.                                                   *)
LEMMA WorkFields ==
  ASSUME NEW w \in Works
  PROVE  /\ w.cells \in [Slots -> GoodCells] /\ w.copies \in Seq(StreamCopies)
         /\ w.state \in [Slots -> States] /\ w.role \in [Slots -> Roles]
         /\ w.kin \in [Slots -> Slots \cup {NoSlot}] /\ w.prompt \in [Slots -> Seq(Tokens)]
         /\ w.iBatch \in [Slots -> 0 .. BatchSize] /\ w.batch \in Seq(Ents)
BY DEF Works

(* Rows that nobody writes are based where they were.                      *)
LEMMA RowsStay ==
  ASSUME NEW w, w \in Works, RowsBased(w), NEW cs \in [Slots -> GoodCells],
         \A st \in Slots : Steady(w.cells[st], cs[st])
  PROVE  \A st \in Slots : Based(cs[st], Copied(cs, w.copies)[st])
<1>1. BaseRows(cs) = BaseRows(w.cells)
  BY DEF BaseRows, Steady
<1>2. Copied(cs, w.copies) = Copied(w.cells, w.copies)
  BY <1>1, CopiedIs
<1> QED  BY <1>2, SteadyBased DEF RowsBased

LEMMA SteadyItself ==
  ASSUME NEW c
  PROVE  Steady(c, c)
BY DEF Steady

(* From w to v only cells and prompts change.                              *)
SameSlots(w, v) ==
  /\ v.copies = w.copies /\ v.state = w.state /\ v.role = w.role /\ v.kin = w.kin
  /\ v.iBatch = w.iBatch /\ v.batch = w.batch

(* What Rm() and Clear() do.                                               *)
OnlyRemoved(w, v, s, p0, p1) ==
  /\ SameSlots(w, v) /\ v.prompt = w.prompt
  /\ v.cells = [w.cells EXCEPT ![StreamOf(s)] = SeqRm(w.cells[StreamOf(s)], s, p0, p1)]

OnlyCleared(w, v, s) == SameSlots(w, v) /\ v.prompt = [w.prompt EXCEPT ![s] = <<>>]

(* Cells of one stream that are removed.                                   *)
LEMMA RmSound ==
  ASSUME NEW w, Sound(w), NEW s \in Slots, NEW p0 \in Int, NEW p1 \in Int
  PROVE  Sound(Rm(w, s, p0, p1)) /\ OnlyRemoved(w, Rm(w, s, p0, p1), s, p0, p1)
<1> DEFINE v == Rm(w, s, p0, p1)
           st0 == StreamOf(s)
           d == SeqRm(w.cells[st0], s, p0, p1)
           cs == [w.cells EXCEPT ![st0] = d]
<1>1. w \in Works /\ st0 \in Slots /\ s \in Seqs
  BY SlotFacts DEF Sound
<1>2. d \in GoodCells /\ Steady(w.cells[st0], d)
  BY <1>1, WorkFields, SeqRmGood
<1>3. v = [w EXCEPT !.cells = cs]
  BY DEF Rm
<1> HIDE DEF d, v, st0
<1>4. cs \in [Slots -> GoodCells] /\ \A st \in Slots : Steady(w.cells[st], cs[st])
  BY <1>1, <1>2, WorkFields, SteadyItself
<1> HIDE DEF cs
<1>5. v \in Works /\ v.cells = cs /\ SameSlots(w, v) /\ v.prompt = w.prompt
  BY <1>1, <1>3, <1>4 DEF Works, SameSlots
<1>6. RowsBased(v)
  BY <1>1, <1>4, <1>5, RowsStay DEF RowsBased, Sound, SameSlots
<1>7. Sound(v)
  BY <1>5, <1>6 DEF Sound, PromptsFit, InputsKnown, PromptsGrow, SameSlots
<1>8. OnlyRemoved(w, v, s, p0, p1)
  BY <1>5 DEF OnlyRemoved, cs, st0, d
<1> QED  BY <1>7, <1>8 DEF v

(* prompt_clear()                                                          *)
LEMMA ClearSound ==
  ASSUME NEW w, Sound(w), NEW s \in Slots
  PROVE  Sound(Clear(w, s)) /\ OnlyCleared(w, Clear(w, s), s)
<1> DEFINE u == Rm(w, s, 0, Infinity)
           v == Clear(w, s)
           q == [w.prompt EXCEPT ![s] = <<>>]
<1>1. Sound(u) /\ SameSlots(w, u) /\ u.prompt = w.prompt
  <2>1. 0 \in Int /\ Infinity \in Int
    BY PosFacts
  <2> HIDE DEF u
  <2>2. Sound(Rm(w, s, 0, Infinity)) /\ OnlyRemoved(w, Rm(w, s, 0, Infinity), s, 0, Infinity)
    BY <2>1, RmSound
  <2> QED  BY <2>2 DEF u, OnlyRemoved
<1>2. v = [u EXCEPT !.prompt[s] = <<>>]
  BY DEF Clear
<1>3. u \in Works /\ w \in Works
  BY <1>1 DEF Sound
<1> HIDE DEF u, v
<1>4. v = [u EXCEPT !.prompt = q]
  BY <1>1, <1>2
<1>5. q \in [Slots -> Seq(Tokens)] /\ \A x \in Slots : q[x] = IF x = s THEN <<>> ELSE u.prompt[x]
  BY <1>1, <1>3, WorkFields
<1> HIDE DEF q
<1>6. v \in Works /\ v.prompt = q /\ v.cells = u.cells /\ SameSlots(u, v)
  BY <1>3, <1>4, <1>5 DEF Works, SameSlots
<1>7. PromptsFit(v) /\ PromptsGrow(v)
  <2>1. Len(<<>>) = 0
    OBVIOUS
  <2>2. \A x \in Slots : v.state[x] = "prompt" => 0 < Len(input[x])
    <3>1. \A x \in Slots : v.state[x] = "prompt" => input[x] \in Prompts
      BY <1>1, <1>6 DEF Sound, InputsKnown, SameSlots
    <3> QED  BY <3>1, SlotFacts
  <2>3. PromptsFit(u) /\ PromptsGrow(u) /\ 0 <= NCtx
    BY <1>1, SlotFacts DEF Sound
  <2>4. PromptsFit(v)
    BY <1>5, <1>6, <2>1, <2>3 DEF PromptsFit
  <2>5. PromptsGrow(v)
    BY <1>5, <1>6, <2>1, <2>2, <2>3 DEF PromptsGrow, SameSlots
  <2> QED  BY <2>4, <2>5
<1>8. RowsBased(v) /\ InputsKnown(v)
  BY <1>1, <1>6 DEF RowsBased, InputsKnown, Sound, SameSlots
<1>9. Sound(v)
  BY <1>1, <1>6, <1>7, <1>8 DEF Sound, SameSlots
<1>10. OnlyCleared(w, v, s)
  BY <1>1, <1>6 DEF SameSlots, OnlyCleared, q
<1> QED  BY <1>9, <1>10 DEF v

(* From w to v only the slot s gets another state or prompt.               *)
OnlySlot(w, v, s) ==
  \A x \in Slots : x # s => v.state[x] = w.state[x] /\ v.prompt[x] = w.prompt[x]

Released(w, v, s) == v.state[s] = "idle" /\ v.batch = w.batch /\ OnlySlot(w, v, s)

(* release()                                                               *)
LEMMA ReleaseSound ==
  ASSUME NEW w, Sound(w), NEW s \in Slots
  PROVE  Sound(Release(w, s)) /\ Released(w, Release(w, s), s)
<1> DEFINE u == IF w.role[s] = "child" THEN Clear(w, s) ELSE w
           v == Release(w, s)
           state0 == [u.state EXCEPT ![s] = "idle"]
           role0 == [u.role EXCEPT ![s] = "none"]
           iBatch0 == [u.iBatch EXCEPT ![s] = 0]
           kin0 == [x \in Slots |-> IF x = s \/ w.kin[x] = s THEN NoSlot ELSE w.kin[x]]
<1>1. Sound(u) /\ u.batch = w.batch /\ u.state = w.state /\ u.role = w.role /\ u.iBatch = w.iBatch
      /\ u.kin = w.kin
      /\ \A x \in Slots : x # s => u.prompt[x] = w.prompt[x]
  <2>1. CASE w.role[s] = "child"
    <3>1. Sound(Clear(w, s)) /\ OnlyCleared(w, Clear(w, s), s)
      BY ClearSound
    <3>2. w.prompt \in [Slots -> Seq(Tokens)]
      BY WorkFields DEF Sound
    <3>3. u = Clear(w, s)
      BY <2>1
    <3> HIDE DEF u
    <3> QED  BY <3>1, <3>2, <3>3 DEF OnlyCleared, SameSlots
  <2>2. CASE w.role[s] # "child"
    BY <2>2
  <2> QED  BY <2>1, <2>2
<1>2. v = [u EXCEPT !.state[s] = "idle", !.role[s] = "none", !.iBatch[s] = 0, !.kin = kin0]
  BY DEF Release
<1>3. u \in Works /\ w \in Works
  BY <1>1 DEF Sound
<1> HIDE DEF u, v
<1>4. v = [u EXCEPT !.state = state0, !.role = role0, !.iBatch = iBatch0, !.kin = kin0]
  BY <1>2
<1>5. /\ state0 \in [Slots -> States] /\ role0 \in [Slots -> Roles]
      /\ iBatch0 \in [Slots -> 0 .. BatchSize] /\ kin0 \in [Slots -> Slots \cup {NoSlot}]
  <2>1. "idle" \in States /\ "none" \in Roles /\ 0 \in 0 .. BatchSize
    BY SlotFacts DEF States, Roles
  <2> QED  BY <1>3, <2>1, WorkFields
<1>6. \A x \in Slots : state0[x] = IF x = s THEN "idle" ELSE u.state[x]
  BY <1>3, WorkFields
<1>0. \A x \in Slots : (kin0[x] # NoSlot => u.kin[x] # NoSlot) /\ (iBatch0[x] # 0 => u.iBatch[x] # 0)
  <2>1. \A x \in Slots : kin0[x] # NoSlot => u.kin[x] # NoSlot
    BY <1>1
  <2>2. \A x \in Slots : iBatch0[x] # 0 => u.iBatch[x] # 0
    BY <1>3, WorkFields
  <2> QED  BY <2>1, <2>2
<1> HIDE DEF state0, role0, iBatch0, kin0
<1>7. /\ v \in Works /\ v.state = state0 /\ v.kin = kin0 /\ v.iBatch = iBatch0 /\ v.cells = u.cells
      /\ v.copies = u.copies /\ v.prompt = u.prompt /\ v.batch = u.batch
  BY <1>3, <1>4, <1>5 DEF Works
<1>8. PromptsFit(v) /\ RowsBased(v) /\ InputsKnown(v) /\ PromptsGrow(v)
  <2>1. PromptsFit(u) /\ RowsBased(u) /\ InputsKnown(u) /\ PromptsGrow(u)
    BY <1>1 DEF Sound
  <2>2. PromptsFit(v) /\ RowsBased(v)
    BY <1>7, <2>1 DEF PromptsFit, RowsBased
  <2>3. InputsKnown(v)
    BY <1>0, <1>6, <1>7, <2>1 DEF InputsKnown
  <2>4. PromptsGrow(v)
    BY <1>6, <1>7, <2>1 DEF PromptsGrow
  <2> QED  BY <2>2, <2>3, <2>4
<1>9. Sound(v)
  BY <1>1, <1>7, <1>8 DEF Sound
<1>10. Released(w, v, s)
  BY <1>1, <1>6, <1>7 DEF Released, OnlySlot
<1> QED  BY <1>9, <1>10 DEF v

(* A prompt that loses tokens in its middle.                               *)
Joined(p, keep, discard) == SubSeq(p, 1, keep) \o SubSeq(p, keep + discard + 1, Len(p))
Cut(p, keep, discard)    == SubSeq(Joined(p, keep, discard), 1, Len(p) - discard)

LEMMA MiddleJoined ==
  ASSUME NEW p \in Seq(Tokens), NEW keep \in Nat, NEW discard \in Nat, keep + discard <= Len(p)
  PROVE  /\ Joined(p, keep, discard) \in Seq(Tokens)
         /\ Len(Joined(p, keep, discard)) = Len(p) - discard
<1> DEFINE a == SubSeq(p, 1, keep)
           b == SubSeq(p, keep + discard + 1, Len(p))
<1>1. Len(p) \in Nat /\ \A i \in 1 .. Len(p) : p[i] \in Tokens
  OBVIOUS
<1>2. a \in Seq(Tokens) /\ Len(a) = keep
  BY <1>1
<1>3. b \in Seq(Tokens) /\ Len(b) = Len(p) - (keep + discard)
  BY <1>1
<1> HIDE DEF a, b
<1>4. a \o b \in Seq(Tokens) /\ Len(a \o b) = Len(a) + Len(b)
  <2>1. a \in Seq(Tokens) /\ b \in Seq(Tokens)
    BY <1>2, <1>3
  <2>2. a \o b \in Seq(Tokens)
    BY <2>1
  <2>3. Len(a \o b) = Len(a) + Len(b)
    BY <2>1
  <2> QED  BY <2>2, <2>3
<1>5. Len(a \o b) = Len(p) - discard
  <2> DEFINE m == Len(p)
  <2>1. m \in Nat /\ Len(a) = keep /\ Len(b) = m - (keep + discard)
    BY <1>1, <1>2, <1>3
  <2> HIDE DEF m
  <2>2. Len(a) + Len(b) = m - discard
    BY <2>1
  <2> QED  BY <1>4, <2>2 DEF m
<1> QED  BY <1>4, <1>5 DEF a, b, Joined

LEMMA MiddleCut ==
  ASSUME NEW p \in Seq(Tokens), NEW keep \in Nat, NEW discard \in Nat,
         keep <= Len(p), discard <= Len(p)
  PROVE  /\ Cut(p, keep, discard) \in Seq(Tokens)
         /\ Len(Cut(p, keep, discard)) = Len(p) - discard
<1> DEFINE e == Joined(p, keep, discard)
           k == Len(p) - discard
<1>1. Len(p) \in Nat /\ k \in Nat
  OBVIOUS
<1>2. e \in Seq(Tokens) /\ Len(e) \in Nat /\ k <= Len(e)
  <2>1. CASE keep + discard <= Len(p)
    <3>1. e \in Seq(Tokens) /\ Len(e) = k
      BY <2>1, MiddleJoined
    <3> HIDE DEF e, k
    <3> QED  BY <1>1, <3>1
  <2>2. CASE ~ keep + discard <= Len(p)
    <3> DEFINE a == SubSeq(p, 1, keep)
               b == SubSeq(p, keep + discard + 1, Len(p))
    <3>1. a \in Seq(Tokens) /\ Len(a) = keep
      BY <1>1
    <3>2. b \in Seq(Tokens) /\ Len(b) = 0
      BY <1>1, <2>2
    <3>3. e = a \o b
      BY DEF Joined
    <3> HIDE DEF a, b, e
    <3>4. e \in Seq(Tokens) /\ Len(e) = keep
      BY <3>1, <3>2, <3>3
    <3> QED  BY <1>1, <2>2, <3>4
  <2> QED  BY <2>1, <2>2
<1>3. Cut(p, keep, discard) = SubSeq(e, 1, k)
  BY DEF Cut
<1> HIDE DEF e, k
<1>4. \A i \in 1 .. k : e[i] \in Tokens
  BY <1>1, <1>2
<1>5. SubSeq(e, 1, k) \in Seq(Tokens) /\ Len(SubSeq(e, 1, k)) = k
  BY <1>1, <1>2, <1>4
<1> QED  BY <1>3, <1>5 DEF k

(* What is cut off at the end is nothing, unless more is discarded than    *)
(* there is after the kept tokens.                                         *)
LEMMA CutIsJoined ==
  ASSUME NEW p \in Seq(Tokens), NEW keep \in Nat, NEW discard \in Nat, keep + discard <= Len(p)
  PROVE  Cut(p, keep, discard) = Joined(p, keep, discard)
<1> DEFINE e == Joined(p, keep, discard)
<1>1. e \in Seq(Tokens) /\ Len(e) = Len(p) - discard
  BY MiddleJoined
<1> HIDE DEF e
<1>2. SubSeq(e, 1, Len(e)) = e
  BY <1>1
<1> QED  BY <1>1, <1>2 DEF Cut, e

(* After its context shift a slot has room for the next token.             *)
HasRoom(w, s) == w.state[s] = "generating" => Len(w.prompt[s]) < NCtx

Shifted(w, v, s) ==
  /\ v.batch = w.batch /\ OnlySlot(w, v, s) /\ HasRoom(v, s)
  /\ v.state[s] = "generating" => w.state[s] = "generating"

(* "apply context-shift if needed"                                         *)
LEMMA ShiftSound ==
  ASSUME NEW w, Sound(w), NEW s \in Slots, mode \in Modes
  PROVE  Sound(ShiftContext(w, s)) /\ Shifted(w, ShiftContext(w, s), s)
<1> DEFINE n == Len(w.prompt[s])
           keep == Keep
           discard == IF mode.discard # 0 THEN mode.discard ELSE (n - keep) \div 2
           removed == Rm(w, s, keep, keep + discard)
           cut == Cut(w.prompt[s], keep, discard)
           st0 == StreamOf(s)
           v == [removed EXCEPT
                  !.cells[st0] = SeqAdd(@, s, keep + discard, n, - discard),
                  !.prompt[s] = cut]
<1>1. ShiftContext(w, s) =
        IF w.state[s] # "generating" \/ n + 1 < NCtx THEN w
        ELSE IF ~mode.shift \/ w.role[s] # "single" THEN Release(w, s) ELSE v
  BY DEF ShiftContext, Cut, Joined
<1>2. w \in Works /\ w.prompt \in [Slots -> Seq(Tokens)] /\ n \in Nat /\ n <= NCtx
  BY WorkFields DEF Sound, PromptsFit
<1>3. CASE w.state[s] # "generating" \/ n + 1 < NCtx
  <2>1. ShiftContext(w, s) = w
    BY <1>1, <1>3
  <2>2. Shifted(w, w, s)
    BY <1>2, <1>3, SlotFacts DEF Shifted, OnlySlot, HasRoom
  <2> QED  BY <2>1, <2>2
<1>4. CASE ~(w.state[s] # "generating" \/ n + 1 < NCtx) /\ (~mode.shift \/ w.role[s] # "single")
  <2>1. ShiftContext(w, s) = Release(w, s)
    BY <1>1, <1>4
  <2>2. Sound(Release(w, s)) /\ Released(w, Release(w, s), s)
    BY ReleaseSound
  <2> QED  BY <2>1, <2>2 DEF Released, Shifted, HasRoom
<1>5. CASE ~(w.state[s] # "generating" \/ n + 1 < NCtx) /\ ~(~mode.shift \/ w.role[s] # "single")
  <2>1. ShiftContext(w, s) = v /\ w.state[s] = "generating" /\ n + 1 >= NCtx
    BY <1>1, <1>2, <1>5, SlotFacts
  <2>2. keep \in Nat /\ keep <= NCtx - 4 /\ mode.discard \in Nat /\ mode.discard <= NCtx - 1
    BY KeepFacts
  <2> HIDE DEF keep
  <2>3. discard \in Nat /\ 1 <= discard /\ keep <= n /\ discard <= n
    <3>1. n - keep \in Nat /\ n - keep >= 3
      <4>1. n \in Nat /\ n + 1 >= NCtx /\ keep \in Nat /\ keep <= NCtx - 4 /\ NCtx \in Nat
        BY <1>2, <2>1, <2>2, CtxFacts
      <4> HIDE DEF n
      <4> QED  BY <4>1
    <3>2. \A k \in Nat : k >= 3 => k \div 2 \in Nat /\ 1 <= k \div 2 /\ k \div 2 <= k
      OBVIOUS
    <3>3. mode.discard <= n
      <4>1. n \in Nat /\ n + 1 >= NCtx /\ NCtx \in Nat /\ mode.discard \in Nat /\ mode.discard <= NCtx - 1
        BY <1>2, <2>1, <2>2, CtxFacts
      <4> HIDE DEF n
      <4> QED  BY <4>1
    <3>4. CASE mode.discard # 0
      <4>1. discard = mode.discard
        BY <3>4
      <4> HIDE DEF discard, n
      <4> QED  BY <1>2, <2>2, <3>1, <3>3, <3>4, <4>1
    <3>5. CASE mode.discard = 0
      <4>1. discard = (n - keep) \div 2
        BY <3>5
      <4>2. discard \in Nat /\ 1 <= discard /\ discard <= n - keep
        BY <3>1, <3>2, <4>1
      <4> HIDE DEF discard, n
      <4> QED  BY <1>2, <2>2, <3>1, <4>2
    <3> QED  BY <3>4, <3>5
  <2>4. cut \in Seq(Tokens) /\ Len(cut) = n - discard
    BY <1>2, <2>2, <2>3, MiddleCut
  <2> HIDE DEF discard
  <2>5. Sound(removed) /\ SameSlots(w, removed) /\ removed.prompt = w.prompt
    <3>1. Sound(removed) /\ OnlyRemoved(w, removed, s, keep, keep + discard)
      <4>1. keep \in Int /\ keep + discard \in Int
        BY <2>2, <2>3
      <4> QED  BY <4>1, RmSound
    <3> QED  BY <3>1 DEF OnlyRemoved
  <2> DEFINE d == SeqAdd(removed.cells[st0], s, keep + discard, n, - discard)
             cs == [removed.cells EXCEPT ![st0] = d]
             prompt0 == [w.prompt EXCEPT ![s] = cut]
  <2>6. removed \in Works /\ removed.cells \in [Slots -> GoodCells] /\ st0 \in Slots /\ s \in Seqs
    BY <2>5, WorkFields, SlotFacts DEF Sound
  <2>7. v = [removed EXCEPT !.cells = cs, !.prompt = prompt0]
    BY <2>5
  <2> HIDE DEF removed, st0, cut, v, n
  <2>8. d \in GoodCells /\ Steady(removed.cells[st0], d)
    <3>1. keep + discard \in Nat /\ n \in Int /\ - discard \in Int /\ - discard <= 0
      BY <1>2, <2>2, <2>3
    <3> QED  BY <2>6, <3>1, SeqAddGood
  <2> HIDE DEF d
  <2>9. cs \in [Slots -> GoodCells] /\ \A st \in Slots : Steady(removed.cells[st], cs[st])
    BY <2>6, <2>8, SteadyItself
  <2>10. prompt0 \in [Slots -> Seq(Tokens)]
         /\ \A x \in Slots : prompt0[x] = IF x = s THEN cut ELSE w.prompt[x]
    BY <1>2, <2>4
  <2> HIDE DEF cs, prompt0
  <2>11. v \in Works /\ v.cells = cs /\ v.prompt = prompt0 /\ SameSlots(removed, v)
    BY <2>6, <2>7, <2>9, <2>10 DEF Works, SameSlots
  <2>12. RowsBased(v)
    BY <2>5, <2>6, <2>9, <2>11, RowsStay DEF RowsBased, Sound, SameSlots
  <2>13. Len(cut) \in Nat /\ Len(cut) < NCtx
    BY <1>2, <2>3, <2>4, SlotFacts
  <2>14. v.state = w.state /\ v.batch = w.batch /\ v.kin = w.kin /\ v.iBatch = w.iBatch
    BY <2>5, <2>11 DEF SameSlots
  <2>15. PromptsFit(v)
    <3>1. PromptsFit(w) /\ Len(cut) <= NCtx
      BY <2>13, SlotFacts DEF Sound
    <3> QED  BY <2>10, <2>11, <3>1 DEF PromptsFit
  <2>16. InputsKnown(v) /\ PromptsGrow(v)
    <3>1. InputsKnown(w) /\ PromptsGrow(w)
      BY DEF Sound
    <3>2. v.state[s] # "prompt"
      BY <2>1, <2>14
    <3> QED  BY <2>10, <2>11, <2>14, <3>1, <3>2 DEF InputsKnown, PromptsGrow
  <2>17. Sound(v)
    BY <2>11, <2>12, <2>14, <2>15, <2>16 DEF Sound
  <2>18. Shifted(w, v, s)
    BY <2>10, <2>11, <2>13, <2>14 DEF Shifted, OnlySlot, HasRoom
  <2> QED  BY <2>1, <2>17, <2>18
<1> QED  BY <1>3, <1>4, <1>5

(* update_batch(): a slot with room adds one token.                        *)
LEMMA AddSampledSound ==
  ASSUME NEW w, Sound(w), NEW s \in Slots, NEW t \in Tokens,
         w.state[s] = "generating", HasRoom(w, s), Len(w.batch) < BatchSize
  PROVE  /\ Sound(AddSampled(w, s, t)) /\ OnlySlot(w, AddSampled(w, s, t), s)
         /\ AddSampled(w, s, t).state = w.state
         /\ Len(AddSampled(w, s, t).batch) = Len(w.batch) + 1
<1> DEFINE n == Len(w.prompt[s])
           v == AddSampled(w, s, t)
           e == Entry(s, n, t)
           batch0 == Append(w.batch, e)
           prompt0 == [w.prompt EXCEPT ![s] = Append(w.prompt[s], t)]
           iBatch0 == [w.iBatch EXCEPT ![s] = Len(w.batch) + 1]
<1>1. /\ w \in Works /\ w.prompt \in [Slots -> Seq(Tokens)] /\ w.batch \in Seq(Ents)
      /\ w.iBatch \in [Slots -> 0 .. BatchSize] /\ n \in Nat /\ n < NCtx /\ Len(w.batch) \in Nat
  BY WorkFields DEF Sound, HasRoom
<1>2. v = [w EXCEPT !.batch = batch0, !.prompt = prompt0, !.iBatch = iBatch0]
  BY DEF AddSampled
<1>3. e \in Ents
  <2>1. n \in Pos
    BY <1>1, SlotFacts, PosFacts
  <2> QED  BY <2>1 DEF Entry, Ents
<1> HIDE DEF e
<1>4. batch0 \in Seq(Ents) /\ Len(batch0) = Len(w.batch) + 1
  BY <1>1, <1>3
<1>5. iBatch0 \in [Slots -> 0 .. BatchSize] /\ \A x \in Slots : x # s => iBatch0[x] = w.iBatch[x]
  <2>1. Len(w.batch) + 1 \in 0 .. BatchSize
    BY <1>1, SlotFacts
  <2> QED  BY <1>1, <2>1
<1> DEFINE grown == Append(w.prompt[s], t)
<1>6. grown \in Seq(Tokens) /\ Len(grown) = n + 1
  BY <1>1
<1> HIDE DEF grown, n
<1>7. prompt0 \in [Slots -> Seq(Tokens)] /\ \A x \in Slots : prompt0[x] = IF x = s THEN grown ELSE w.prompt[x]
  BY <1>1, <1>6 DEF grown
<1> HIDE DEF batch0, prompt0, iBatch0, v
<1>8. /\ v \in Works /\ v.cells = w.cells /\ v.copies = w.copies /\ v.state = w.state /\ v.kin = w.kin
      /\ v.prompt = prompt0 /\ v.batch = batch0 /\ v.iBatch = iBatch0
  BY <1>1, <1>2, <1>4, <1>5, <1>7 DEF Works
<1>9. PromptsFit(v)
  <2>1. PromptsFit(w) /\ Len(grown) <= NCtx
    BY <1>1, <1>6, SlotFacts DEF Sound
  <2> QED  BY <1>7, <1>8, <2>1 DEF PromptsFit
<1>10. InputsKnown(v) /\ PromptsGrow(v) /\ RowsBased(v)
  <2>1. InputsKnown(w) /\ PromptsGrow(w) /\ RowsBased(w)
    BY DEF Sound
  <2>2. InputsKnown(v)
    BY <1>5, <1>8, <2>1 DEF InputsKnown
  <2>3. PromptsGrow(v) /\ RowsBased(v)
    BY <1>7, <1>8, <2>1 DEF PromptsGrow, RowsBased
  <2> QED  BY <2>2, <2>3
<1>11. Len(v.batch) <= BatchSize
  BY <1>1, <1>4, <1>8, SlotFacts
<1>12. Sound(v)
  BY <1>8, <1>9, <1>10, <1>11 DEF Sound
<1>13. OnlySlot(w, v, s)
  BY <1>7, <1>8 DEF OnlySlot
<1> QED  BY <1>4, <1>8, <1>12, <1>13 DEF v

LEMMA MaxUpTo ==
  ASSUME NEW m \in Nat, NEW T \in SUBSET (0 .. m), T # {}
  PROVE  Max(T) \in T
<1> DEFINE R == {m - x : x \in T}
<1>1. R \in SUBSET Nat /\ R # {}
  <2>1. \A x \in T : x \in Int /\ x <= m
    OBVIOUS
  <2>2. \A x \in T : m - x \in Nat
    BY <2>1
  <2> QED  BY <2>2
<1>2. PICK r \in R : \A y \in R : r <= y
  <2> HIDE DEF R
  <2> QED  BY <1>1, LeastNatural
<1>3. PICK x \in T : r = m - x
  OBVIOUS
<1>4. \A y \in T : x >= y
  <2> SUFFICES ASSUME NEW y \in T  PROVE x >= y
    OBVIOUS
  <2>1. m - x <= m - y
    BY <1>2, <1>3
  <2>2. x \in Int /\ y \in Int
    OBVIOUS
  <2> QED  BY <2>1, <2>2
<1> QED  BY <1>4 DEF Max

(* What a slot keeps is less than its prompt: a token is left to evaluate. *)
LEMMA NPastLess ==
  ASSUME NEW w, Sound(w), NEW s \in Slots, w.state[s] \in {"started", "prompt"}
  PROVE  NPast(w, s) \in Nat /\ NPast(w, s) < Len(input[s])
<1>1. /\ input[s] \in Seq(Tokens) /\ Len(input[s]) \in Nat /\ 1 <= Len(input[s])
      /\ w.prompt[s] \in Seq(Tokens) /\ Len(w.prompt[s]) \in Nat
  <2>1. input[s] \in Prompts
    BY DEF Sound, InputsKnown
  <2>2. w.prompt \in [Slots -> Seq(Tokens)]
    BY WorkFields DEF Sound
  <2> QED  BY <2>1, <2>2, SlotFacts
<1>2. CASE w.state[s] = "prompt"
  <2>1. Len(w.prompt[s]) < Len(input[s])
    BY <1>2 DEF Sound, PromptsGrow
  <2>2. NPast(w, s) = Len(w.prompt[s])
    BY <1>2 DEF NPast
  <2> QED  BY <1>1, <2>1, <2>2
<1>3. CASE w.state[s] = "started"
  <2> DEFINE m == Min({Len(w.prompt[s]), Len(input[s]) - 1})
             common == {n \in 0 .. m : SubSeq(w.prompt[s], 1, n) = SubSeq(input[s], 1, n)}
  <2>1. m \in Nat /\ m < Len(input[s])
    <3>1. Len(w.prompt[s]) \in Int /\ Len(input[s]) - 1 \in Int
      BY <1>1
    <3>2. m = IF Len(w.prompt[s]) <= Len(input[s]) - 1 THEN Len(w.prompt[s]) ELSE Len(input[s]) - 1
      BY <3>1, MinOfTwo
    <3> HIDE DEF m
    <3> QED  BY <1>1, <3>2
  <2>2. NPast(w, s) = Max(common)
    BY <1>3 DEF NPast
  <2> HIDE DEF m
  <2>3. 0 \in common
    <3>1. SubSeq(w.prompt[s], 1, 0) = <<>> /\ SubSeq(input[s], 1, 0) = <<>>
      BY <1>1
    <3> QED  BY <2>1, <3>1
  <2>4. common \in SUBSET (0 .. m) /\ common # {}
    BY <2>3
  <2> HIDE DEF common
  <2>5. Max(common) \in common
    BY <2>1, <2>4, MaxUpTo
  <2>6. Max(common) \in 0 .. m
    BY <2>4, <2>5
  <2> QED  BY <1>1, <2>1, <2>2, <2>6
<1> QED  BY <1>2, <1>3

(* The rest of the prompt goes to the batch as far as n_batch allows.      *)
LEMMA AddPromptSound ==
  ASSUME NEW w, Sound(w), NEW s \in Slots
  PROVE  Sound(AddPrompt(w, s))
<1> DEFINE past == NPast(w, s)
           room == NBatch - Len(w.batch)
           left == Len(input[s]) - past
           n == Min({room, left})
           more == [j \in 1 .. n |-> Entry(s, past + j - 1, input[s][past + j])]
           done == past + n = Len(input[s])
           removed == Rm(w, s, past, Infinity)
           part == SubSeq(input[s], 1, past + n)
           v == [removed EXCEPT
                  !.batch = @ \o more,
                  !.prompt[s] = part,
                  !.state[s] = IF done THEN "done" ELSE "prompt",
                  !.iBatch[s] = IF done THEN Len(w.batch) + n ELSE 0]
<1>1. AddPrompt(w, s) = IF w.state[s] \notin {"started", "prompt"} \/ Len(w.batch) >= NBatch THEN w ELSE v
  BY DEF AddPrompt
<1>2. CASE w.state[s] \notin {"started", "prompt"} \/ Len(w.batch) >= NBatch
  BY <1>1, <1>2
<1>3. CASE ~(w.state[s] \notin {"started", "prompt"} \/ Len(w.batch) >= NBatch)
  <2>1. past \in Nat /\ past < Len(input[s])
    BY <1>3, NPastLess
  <2>2. /\ input[s] \in Seq(Tokens) /\ Len(input[s]) \in Nat /\ Len(input[s]) < NCtx
        /\ w \in Works /\ Len(w.batch) \in Nat /\ Len(w.batch) < NBatch /\ w.state[s] \in {"started", "prompt"}
    <3>1. input[s] \in Prompts
      BY <1>3 DEF Sound, InputsKnown
    <3>2. w \in Works
      BY DEF Sound
    <3>3. Len(w.batch) \in Nat
      BY <3>2, WorkFields
    <3> QED  BY <1>3, <3>1, <3>2, <3>3, SlotFacts
  <2> HIDE DEF past
  <2>3. room \in Int /\ left \in Int /\ 1 <= room /\ 1 <= left
    BY <2>1, <2>2, SlotFacts
  <2>4. n \in Nat /\ 1 <= n /\ n <= room /\ n <= left
    <3> HIDE DEF room, left
    <3>1. n = IF room <= left THEN room ELSE left
      BY <2>3, MinOfTwo
    <3> QED  BY <2>3, <3>1
  <2> HIDE DEF n
  <2>5. /\ past + n \in Nat /\ past + n <= Len(input[s])
        /\ Len(w.batch) + n <= BatchSize /\ Len(w.batch) + n \in 0 .. BatchSize
    <3> DEFINE a == Len(w.batch)
               b == Len(input[s])
    <3>1. a \in Nat /\ b \in Nat /\ n <= NBatch - a /\ n <= b - past /\ NBatch \in Nat
          /\ BatchSize \in Nat /\ NBatch <= BatchSize
      BY <2>2, <2>4, SlotFacts
    <3> HIDE DEF a, b
    <3>2. past + n \in Nat /\ past + n <= b /\ a + n <= NBatch /\ a + n \in 0 .. BatchSize
      BY <2>1, <2>4, <3>1
    <3> QED  BY <3>2 DEF a, b
  <2>6. more \in Seq(Ents) /\ Len(more) = n
    <3>1. ASSUME NEW j \in 1 .. n  PROVE Entry(s, past + j - 1, input[s][past + j]) \in Ents
      <4>1. past + j - 1 \in Pos
        BY <2>1, <2>2, <2>4, <2>5, SlotFacts, PosFacts
      <4>2. past + j \in 1 .. Len(input[s])
        BY <2>1, <2>2, <2>4, <2>5
      <4>3. input[s][past + j] \in Tokens
        BY <2>2, <4>2
      <4> QED  BY <4>1, <4>3 DEF Entry, Ents
    <3> QED  BY <2>4, <3>1
  <2> HIDE DEF more
  <2>7. part \in Seq(Tokens) /\ Len(part) = past + n
    BY <2>2, <2>5
  <2> HIDE DEF part
  <2>8. Sound(removed) /\ SameSlots(w, removed) /\ removed.prompt = w.prompt
    <3>1. past \in Int /\ Infinity \in Int
      BY <2>1, PosFacts
    <3>2. Sound(removed) /\ OnlyRemoved(w, removed, s, past, Infinity)
      BY <3>1, RmSound
    <3> QED  BY <3>2 DEF OnlyRemoved
  <2>9. removed \in Works
    BY <2>8 DEF Sound
  <2> HIDE DEF removed
  <2> DEFINE batch0 == removed.batch \o more
             prompt0 == [removed.prompt EXCEPT ![s] = part]
             state0 == [removed.state EXCEPT ![s] = IF done THEN "done" ELSE "prompt"]
             iBatch0 == [removed.iBatch EXCEPT ![s] = IF done THEN Len(w.batch) + n ELSE 0]
  <2>10. v = [removed EXCEPT !.batch = batch0, !.prompt = prompt0, !.state = state0, !.iBatch = iBatch0]
    OBVIOUS
  <2>11. batch0 \in Seq(Ents) /\ Len(batch0) <= BatchSize
    <3>1. removed.batch \in Seq(Ents) /\ Len(removed.batch) = Len(w.batch)
      BY <2>8, <2>9, WorkFields DEF SameSlots
    <3>2. batch0 \in Seq(Ents) /\ Len(batch0) = Len(removed.batch) + Len(more)
      BY <2>6, <3>1
    <3> QED  BY <2>5, <2>6, <3>1, <3>2
  <2>12. prompt0 \in [Slots -> Seq(Tokens)] /\ \A x \in Slots : prompt0[x] = IF x = s THEN part ELSE removed.prompt[x]
    BY <2>7, <2>9, WorkFields
  <2>13. state0 \in [Slots -> States]
         /\ \A x \in Slots : state0[x] = IF x = s THEN IF done THEN "done" ELSE "prompt" ELSE removed.state[x]
    BY <2>9, WorkFields DEF States
  <2>14. iBatch0 \in [Slots -> 0 .. BatchSize] /\ \A x \in Slots : x # s => iBatch0[x] = removed.iBatch[x]
    <3>1. (IF done THEN Len(w.batch) + n ELSE 0) \in 0 .. BatchSize
      BY <2>5, SlotFacts
    <3> HIDE DEF done
    <3> QED  BY <2>9, <3>1, WorkFields
  <2> HIDE DEF batch0, prompt0, state0, iBatch0, v
  <2>15. /\ v \in Works /\ v.cells = removed.cells /\ v.copies = removed.copies /\ v.kin = removed.kin
         /\ v.batch = batch0 /\ v.prompt = prompt0 /\ v.state = state0 /\ v.iBatch = iBatch0
    BY <2>9, <2>10, <2>11, <2>12, <2>13, <2>14 DEF Works
  <2>16. PromptsFit(v)
    <3>1. PromptsFit(removed) /\ Len(part) <= NCtx
      BY <2>2, <2>5, <2>7, <2>8, SlotFacts DEF Sound
    <3> QED  BY <2>12, <2>15, <3>1 DEF PromptsFit
  <2>17. InputsKnown(v)
    <3>1. InputsKnown(removed) /\ input[s] \in Prompts
      <4>1. InputsKnown(removed) /\ InputsKnown(w)
        BY <2>8 DEF Sound
      <4> QED  BY <2>2, <4>1 DEF InputsKnown
    <3> QED  BY <2>13, <2>14, <2>15, <3>1 DEF InputsKnown
  <2>18. PromptsGrow(v)
    <3>1. PromptsGrow(removed)
      BY <2>8 DEF Sound
    <3>2. ~done => Len(part) < Len(input[s])
      BY <2>2, <2>5, <2>7
    <3> QED  BY <2>12, <2>13, <2>15, <3>1, <3>2 DEF PromptsGrow
  <2>19. RowsBased(v)
    <3>1. RowsBased(removed)
      BY <2>8 DEF Sound
    <3> QED  BY <2>15, <3>1 DEF RowsBased
  <2>20. Sound(v)
    BY <2>11, <2>15, <2>16, <2>17, <2>18, <2>19 DEF Sound
  <2> QED  BY <1>1, <1>3, <2>20
<1> QED  BY <1>2, <1>3

(* The cells and the pending copies that copy_state_to() leaves.           *)
LEMMA CopiedCells ==
  ASSUME NEW w, Sound(w), NEW s \in Slots, NEW x \in Slots, NEW u, Sound(u),
         OnlyRemoved(w, u, x, 0, Infinity),
         NEW cs, NEW list,
         cs = [u.cells EXCEPT ![StreamOf(x)] = IF mode.unified THEN SeqCp(@, s, x)
                                               ELSE SeqCpTo(w.cells[s], s, @, x)],
         list = IF mode.unified THEN u.copies ELSE Append(u.copies, [from |-> s, to |-> x])
  PROVE  /\ cs \in [Slots -> GoodCells] /\ list \in Seq(StreamCopies)
         /\ \A st \in Slots : Based(cs[st], Copied(cs, list)[st])
<1> DEFINE st0 == StreamOf(x)
<1>1. /\ w \in Works /\ u \in Works /\ w.cells \in [Slots -> GoodCells] /\ u.cells \in [Slots -> GoodCells]
      /\ w.copies \in Seq(StreamCopies) /\ u.copies = w.copies /\ RowsBased(w) /\ RowsBased(u)
      /\ st0 \in Slots /\ s \in Seqs /\ x \in Seqs
  BY WorkFields, SlotFacts DEF Sound, OnlyRemoved, SameSlots
<1>2. u.cells[st0] = SeqRm(w.cells[st0], x, 0, Infinity)
  BY <1>1 DEF OnlyRemoved
<1>3. CASE mode.unified
  <2> DEFINE d == SeqCp(u.cells[st0], s, x)
  <2>1. cs = [u.cells EXCEPT ![st0] = d] /\ list = u.copies
    BY <1>3
  <2> HIDE DEF st0
  <2>2. \A i \in Idx : x \notin u.cells[st0].seq[i]
    BY <1>1, <1>2, SeqRmAll
  <2>3. d \in GoodCells /\ Steady(u.cells[st0], d)
    BY <1>1, <2>2, SeqCpGood
  <2> HIDE DEF d
  <2>4. cs \in [Slots -> GoodCells] /\ \A st \in Slots : Steady(u.cells[st], cs[st])
    BY <1>1, <2>1, <2>3, SteadyItself
  <2>5. \A st \in Slots : Based(cs[st], Copied(cs, u.copies)[st])
    BY <1>1, <2>4, RowsStay
  <2> QED  BY <1>1, <2>1, <2>4, <2>5
<1>4. CASE ~mode.unified
  <2> DEFINE d == SeqCpTo(w.cells[s], s, u.cells[x], x)
             y == [from |-> s, to |-> x]
             rows == Copied(w.cells, w.copies)
  <2>1. st0 = x
    BY <1>4 DEF StreamOf
  <2>2. cs = [u.cells EXCEPT ![x] = d] /\ list = Append(w.copies, y)
    BY <1>1, <1>4, <2>1
  <2> HIDE DEF st0
  <2>3. /\ d \in GoodCells /\ d.k = u.cells[x].k
        /\ \A r : Based(w.cells[s], r) => Based(d, r)
    BY <1>1, SeqCpToGood
  <2>4. y \in StreamCopies
    BY DEF StreamCopies
  <2> HIDE DEF d, y
  <2>5. cs \in [Slots -> GoodCells] /\ list \in Seq(StreamCopies)
    <3>1. cs \in [Slots -> GoodCells]
      BY <1>1, <2>2, <2>3
    <3>2. list \in Seq(StreamCopies)
      BY <1>1, <2>2, <2>4
    <3> QED  BY <3>1, <3>2
  <2>6. BaseRows(cs) = BaseRows(u.cells)
    BY <1>1, <2>2, <2>3 DEF BaseRows
  <2>7. BaseRows(u.cells) = BaseRows(w.cells)
    <3>1. \A st \in Slots : u.cells[st].k = w.cells[st].k
      <4>1. u.cells = [w.cells EXCEPT ![x] = SeqRm(w.cells[x], x, 0, Infinity)]
        BY <2>1 DEF OnlyRemoved, st0
      <4>2. SeqRm(w.cells[x], x, 0, Infinity).k = w.cells[x].k
        <5>1. Steady(w.cells[x], SeqRm(w.cells[x], x, 0, Infinity))
          <6>1. 0 \in Int /\ Infinity \in Int
            BY PosFacts
          <6> QED  BY <1>1, <6>1, SeqRmGood
        <5> QED  BY <5>1 DEF Steady
      <4> QED  BY <1>1, <4>1, <4>2
    <3> QED  BY <3>1 DEF BaseRows
  <2>8. Copied(u.cells, u.copies) = rows
    BY <1>1, <2>7, CopiedIs
  <2>9. Copied(cs, list) = [rows EXCEPT ![x] = rows[s]]
    <3>1. BaseRows(w.cells) \in StreamRows
      BY <1>1, CopiedRows
    <3>2. CopiedFrom(BaseRows(w.cells), Append(w.copies, y)) =
            [CopiedFrom(BaseRows(w.cells), w.copies) EXCEPT
               ![y.to] = CopiedFrom(BaseRows(w.cells), w.copies)[y.from]]
      BY <1>1, <2>4, <3>1, CopiedAppend
    <3>3. y.to = x /\ y.from = s
      BY DEF y
    <3>4. CopiedFrom(BaseRows(w.cells), w.copies) = rows
      BY CopiedIs
    <3>5. Copied(cs, list) = CopiedFrom(BaseRows(w.cells), Append(w.copies, y))
      BY <2>2, <2>6, <2>7, CopiedIs
    <3> HIDE DEF rows
    <3> QED  BY <3>2, <3>3, <3>4, <3>5
  <2>10. rows \in StreamRows
    BY <1>1, CopiedRows
  <2>11. \A st \in Slots : Based(u.cells[st], rows[st]) /\ Based(w.cells[st], rows[st])
    BY <1>1, <2>8 DEF RowsBased
  <2> HIDE DEF rows
  <2>12. ASSUME NEW st \in Slots  PROVE Based(cs[st], Copied(cs, list)[st])
    <3>1. CASE st = x
      <4>1. cs[st] = d /\ Copied(cs, list)[st] = rows[s]
        BY <1>1, <2>2, <2>9, <2>10, <3>1 DEF StreamRows
      <4> QED  BY <2>3, <2>11, <4>1
    <3>2. CASE st # x
      <4>1. cs[st] = u.cells[st] /\ Copied(cs, list)[st] = rows[st]
        BY <1>1, <2>2, <2>9, <2>10, <3>2 DEF StreamRows
      <4> QED  BY <2>11, <4>1
    <3> QED  BY <3>1, <3>2
  <2> QED  BY <2>5, <2>12
<1> QED  BY <1>3, <1>4

(* copy_state_to() to a slot that has a prompt to process.                 *)
LEMMA CopyStateSound ==
  ASSUME NEW w, Sound(w), NEW s \in Slots, NEW x \in Slots, input[x] \in Prompts
  PROVE  Sound(CopyState(w, s, x))
<1> DEFINE u == Rm(w, x, 0, Infinity)
           st0 == StreamOf(x)
           v == CopyState(w, s, x)
           cs == [u.cells EXCEPT ![st0] = IF mode.unified THEN SeqCp(@, s, x)
                                          ELSE SeqCpTo(w.cells[s], s, @, x)]
           list == IF mode.unified THEN u.copies ELSE Append(u.copies, [from |-> s, to |-> x])
           prompt0 == [u.prompt EXCEPT ![x] = w.prompt[s]]
           iBatch0 == [u.iBatch EXCEPT ![x] = w.iBatch[s]]
           state0 == [u.state EXCEPT ![x] = "done"]
           kin0 == [u.kin EXCEPT ![x] = NoSlot]
<1>1. Sound(u) /\ OnlyRemoved(w, u, x, 0, Infinity)
  <2>1. 0 \in Int /\ Infinity \in Int
    BY PosFacts
  <2> HIDE DEF u
  <2>2. Sound(Rm(w, x, 0, Infinity)) /\ OnlyRemoved(w, Rm(w, x, 0, Infinity), x, 0, Infinity)
    BY <2>1, RmSound
  <2> QED  BY <2>2 DEF u
<1>2. v = [u EXCEPT !.cells = cs, !.copies = list, !.prompt = prompt0, !.iBatch = iBatch0,
                    !.state = state0, !.kin = kin0]
  BY DEF CopyState
<1> HIDE DEF u, v
<1>3. /\ cs \in [Slots -> GoodCells] /\ list \in Seq(StreamCopies)
      /\ \A st \in Slots : Based(cs[st], Copied(cs, list)[st])
  BY <1>1, CopiedCells
<1>4. w \in Works /\ u \in Works
  BY <1>1 DEF Sound
<1>5. /\ prompt0 \in [Slots -> Seq(Tokens)] /\ iBatch0 \in [Slots -> 0 .. BatchSize]
      /\ state0 \in [Slots -> States] /\ kin0 \in [Slots -> Slots \cup {NoSlot}]
  <2>1. "done" \in States
    BY DEF States
  <2>2. w.prompt[s] \in Seq(Tokens) /\ w.iBatch[s] \in 0 .. BatchSize
    BY <1>4, WorkFields
  <2> QED  BY <1>4, <2>1, <2>2, WorkFields
<1>6. \A y \in Slots : prompt0[y] = IF y = x THEN w.prompt[s] ELSE u.prompt[y]
  BY <1>4, WorkFields
<1>7. \A y \in Slots : state0[y] = IF y = x THEN "done" ELSE u.state[y]
  BY <1>4, WorkFields
<1>8. \A y \in Slots : y # x => kin0[y] = u.kin[y] /\ iBatch0[y] = u.iBatch[y]
  BY <1>4, WorkFields
<1> HIDE DEF cs, list, prompt0, iBatch0, state0, kin0
<1>9. /\ v \in Works /\ v.cells = cs /\ v.copies = list /\ v.prompt = prompt0
      /\ v.state = state0 /\ v.kin = kin0 /\ v.iBatch = iBatch0 /\ v.batch = u.batch
  BY <1>2, <1>3, <1>4, <1>5 DEF Works
<1>10. PromptsFit(v)
  <2>1. PromptsFit(w) /\ PromptsFit(u)
    BY <1>1 DEF Sound
  <2> QED  BY <1>6, <1>9, <2>1 DEF PromptsFit
<1>11. InputsKnown(v)
  <2>1. InputsKnown(u)
    BY <1>1 DEF Sound
  <2> QED  BY <1>7, <1>8, <1>9, <2>1 DEF InputsKnown
<1>12. PromptsGrow(v)
  <2>1. PromptsGrow(u)
    BY <1>1 DEF Sound
  <2> QED  BY <1>6, <1>7, <1>9, <2>1 DEF PromptsGrow
<1>13. RowsBased(v)
  BY <1>3, <1>9 DEF RowsBased
<1>14. Sound(v)
  BY <1>1, <1>9, <1>10, <1>11, <1>12, <1>13 DEF Sound
<1> QED  BY <1>14 DEF v

(* "when the main prompt is processed, activate all child tasks too"       *)
LEMMA ActivateSound ==
  ASSUME NEW w, Sound(w), NEW x \in Slots
  PROVE  Sound(ActivateChild(w, x))
<1>1. CASE w.kin[x] # NoSlot /\ w.state[w.kin[x]] = "done"
  <2>1. w.kin[x] \in Slots
    BY <1>1, WorkFields DEF Sound
  <2>2. input[x] \in Prompts
    BY <1>1 DEF Sound, InputsKnown
  <2>3. ActivateChild(w, x) = CopyState(w, w.kin[x], x)
    BY <1>1 DEF ActivateChild
  <2> QED  BY <2>1, <2>2, <2>3, CopyStateSound
<1>2. CASE ~(w.kin[x] # NoSlot /\ w.state[w.kin[x]] = "done")
  BY <1>2 DEF ActivateChild
<1> QED  BY <1>1, <1>2

(* The positions of the view that a failed decode removes.                 *)
LEMMA RmViewSound ==
  ASSUME NEW w, Sound(w), NEW s \in Slots, batch \in Seq(Ents), NView \in Nat, NView <= Len(batch)
  PROVE  Sound(RmView(w, s))
<1>1. CASE Positions(s) = {}
  BY <1>1 DEF RmView
<1>2. CASE Positions(s) # {}
  <2>1. Positions(s) \in SUBSET Nat
    <3>1. \A j \in 1 .. NView : View[j] = batch[j] /\ batch[j] \in Ents
      BY DEF View
    <3>2. \A j \in 1 .. NView : View[j].pos \in Nat
      BY <3>1, PosFacts DEF Ents
    <3> QED  BY <3>2 DEF Positions
  <2>2. PICK x \in Positions(s) : \A y \in Positions(s) : x <= y
    BY <1>2, <2>1, LeastNatural
  <2>3. Min(Positions(s)) \in Positions(s)
    BY <2>2 DEF Min
  <2>4. Min(Positions(s)) \in Int /\ Infinity \in Int
    BY <2>1, <2>3, PosFacts
  <2>5. RmView(w, s) = Rm(w, s, Min(Positions(s)), Infinity)
    BY <1>2 DEF RmView
  <2> QED  BY <2>4, <2>5, RmSound
<1> QED  BY <1>1, <1>2

---------------------------------------------------------------------------
(* The loops: sets through which op leads are sets through which the loop   *)
(* goes.  An operator is no parameter of a lemma, so each has its own.      *)

(* The context shifts of all slots.                                        *)
LEMMA ShiftLoop ==
  ASSUME NEW W, NEW w \in W[0],
         \A n \in 0 .. NSlots - 1 : \A v \in W[n] : ShiftContext(v, n) \in W[n + 1]
  PROVE  InSlotOrder(ShiftContext, w) \in W[NSlots]
<1> DEFINE Op(v, n) == ShiftContext(v, n)
           F == [x \in (UNION {W[n] : n \in 0 .. NSlots}) \X Slots |-> Op(x[1], x[2])]
           Solves(h) == h = [n \in 0 .. NSlots |-> IF n = 0 THEN w ELSE Op(h[n - 1], n - 1)]
           g == CHOOSE h : Solves(h)
<1>1. \A n \in 0 .. NSlots - 1 : \A v \in W[n] : Op(v, n) \in W[n + 1] /\ F[<<v, n>>] = Op(v, n)
  BY SlotFacts
<1>2. InSlotOrder(ShiftContext, w) = g[NSlots]
  BY DEF InSlotOrder
<1> HIDE DEF Op, F
<1>3. PICK h : Follows(NSlots, F, w, h) /\ \A n \in 0 .. NSlots : h[n] \in W[n]
  <2>1. Leads(NSlots, W, F)
    BY <1>1 DEF Leads
  <2> QED  BY <2>1, SlotFacts, LoopSolved
<1>4. Solves(h)
  <2>1. \A n \in 0 .. NSlots - 1 : h[n + 1] = Op(h[n], n)
    BY <1>1, <1>3, SlotFacts DEF Follows
  <2>2. \A n \in 0 .. NSlots : n # 0 => n - 1 \in 0 .. NSlots - 1 /\ (n - 1) + 1 = n
    BY SlotFacts
  <2>3. \A n \in 0 .. NSlots : h[n] = IF n = 0 THEN w ELSE Op(h[n - 1], n - 1)
    BY <1>3, <2>1, <2>2 DEF Follows
  <2> QED  BY <1>3, <2>3 DEF Follows
<1>5. Solves(g)
  <2> HIDE DEF Solves
  <2> QED  BY <1>4
<1> HIDE DEF g
<1>6. g[0] \in W[0] /\ \A n \in 0 .. NSlots - 1 : g[n + 1] = Op(g[n], n)
  <2>1. \A n \in 0 .. NSlots - 1 : n + 1 \in 0 .. NSlots /\ n + 1 # 0 /\ (n + 1) - 1 = n
    BY SlotFacts
  <2>2. 0 \in 0 .. NSlots
    BY SlotFacts
  <2> QED  BY <1>5, <2>1, <2>2
<1>7. g[NSlots] \in W[NSlots]
  <2>1. Stays(NSlots, W, g)
    BY <1>1, <1>6 DEF Stays
  <2> QED  BY <1>6, <2>1, SlotFacts, LoopStays
<1> QED  BY <1>2, <1>7

(* The sampled tokens of all slots.                                        *)
LEMMA SampledLoop ==
  ASSUME NEW W, NEW w \in W[0],
         NEW sampled,
         \A n \in 0 .. NSlots - 1 : \A v \in W[n] : (IF v.state[n] = "generating" THEN AddSampled(v, n, sampled[n]) ELSE v) \in W[n + 1]
  PROVE  AddAllSampled(w, sampled) \in W[NSlots]
<1> DEFINE Op(v, n) == (IF v.state[n] = "generating" THEN AddSampled(v, n, sampled[n]) ELSE v)
           F == [x \in (UNION {W[n] : n \in 0 .. NSlots}) \X Slots |-> Op(x[1], x[2])]
           Solves(h) == h = [n \in 0 .. NSlots |-> IF n = 0 THEN w ELSE Op(h[n - 1], n - 1)]
           g == CHOOSE h : Solves(h)
<1>1. \A n \in 0 .. NSlots - 1 : \A v \in W[n] : Op(v, n) \in W[n + 1] /\ F[<<v, n>>] = Op(v, n)
  BY SlotFacts
<1>2. AddAllSampled(w, sampled) = g[NSlots]
  BY DEF AddAllSampled, InSlotOrder
<1> HIDE DEF Op, F
<1>3. PICK h : Follows(NSlots, F, w, h) /\ \A n \in 0 .. NSlots : h[n] \in W[n]
  <2>1. Leads(NSlots, W, F)
    BY <1>1 DEF Leads
  <2> QED  BY <2>1, SlotFacts, LoopSolved
<1>4. Solves(h)
  <2>1. \A n \in 0 .. NSlots - 1 : h[n + 1] = Op(h[n], n)
    BY <1>1, <1>3, SlotFacts DEF Follows
  <2>2. \A n \in 0 .. NSlots : n # 0 => n - 1 \in 0 .. NSlots - 1 /\ (n - 1) + 1 = n
    BY SlotFacts
  <2>3. \A n \in 0 .. NSlots : h[n] = IF n = 0 THEN w ELSE Op(h[n - 1], n - 1)
    BY <1>3, <2>1, <2>2 DEF Follows
  <2> QED  BY <1>3, <2>3 DEF Follows
<1>5. Solves(g)
  <2> HIDE DEF Solves
  <2> QED  BY <1>4
<1> HIDE DEF g
<1>6. g[0] \in W[0] /\ \A n \in 0 .. NSlots - 1 : g[n + 1] = Op(g[n], n)
  <2>1. \A n \in 0 .. NSlots - 1 : n + 1 \in 0 .. NSlots /\ n + 1 # 0 /\ (n + 1) - 1 = n
    BY SlotFacts
  <2>2. 0 \in 0 .. NSlots
    BY SlotFacts
  <2> QED  BY <1>5, <2>1, <2>2
<1>7. g[NSlots] \in W[NSlots]
  <2>1. Stays(NSlots, W, g)
    BY <1>1, <1>6 DEF Stays
  <2> QED  BY <1>6, <2>1, SlotFacts, LoopStays
<1> QED  BY <1>2, <1>7

(* The prompts of all slots.                                               *)
LEMMA PromptLoop ==
  ASSUME NEW W, NEW w \in W[0],
         \A n \in 0 .. NSlots - 1 : \A v \in W[n] : AddPrompt(v, n) \in W[n + 1]
  PROVE  InSlotOrder(AddPrompt, w) \in W[NSlots]
<1> DEFINE Op(v, n) == AddPrompt(v, n)
           F == [x \in (UNION {W[n] : n \in 0 .. NSlots}) \X Slots |-> Op(x[1], x[2])]
           Solves(h) == h = [n \in 0 .. NSlots |-> IF n = 0 THEN w ELSE Op(h[n - 1], n - 1)]
           g == CHOOSE h : Solves(h)
<1>1. \A n \in 0 .. NSlots - 1 : \A v \in W[n] : Op(v, n) \in W[n + 1] /\ F[<<v, n>>] = Op(v, n)
  BY SlotFacts
<1>2. InSlotOrder(AddPrompt, w) = g[NSlots]
  BY DEF InSlotOrder
<1> HIDE DEF Op, F
<1>3. PICK h : Follows(NSlots, F, w, h) /\ \A n \in 0 .. NSlots : h[n] \in W[n]
  <2>1. Leads(NSlots, W, F)
    BY <1>1 DEF Leads
  <2> QED  BY <2>1, SlotFacts, LoopSolved
<1>4. Solves(h)
  <2>1. \A n \in 0 .. NSlots - 1 : h[n + 1] = Op(h[n], n)
    BY <1>1, <1>3, SlotFacts DEF Follows
  <2>2. \A n \in 0 .. NSlots : n # 0 => n - 1 \in 0 .. NSlots - 1 /\ (n - 1) + 1 = n
    BY SlotFacts
  <2>3. \A n \in 0 .. NSlots : h[n] = IF n = 0 THEN w ELSE Op(h[n - 1], n - 1)
    BY <1>3, <2>1, <2>2 DEF Follows
  <2> QED  BY <1>3, <2>3 DEF Follows
<1>5. Solves(g)
  <2> HIDE DEF Solves
  <2> QED  BY <1>4
<1> HIDE DEF g
<1>6. g[0] \in W[0] /\ \A n \in 0 .. NSlots - 1 : g[n + 1] = Op(g[n], n)
  <2>1. \A n \in 0 .. NSlots - 1 : n + 1 \in 0 .. NSlots /\ n + 1 # 0 /\ (n + 1) - 1 = n
    BY SlotFacts
  <2>2. 0 \in 0 .. NSlots
    BY SlotFacts
  <2> QED  BY <1>5, <2>1, <2>2
<1>7. g[NSlots] \in W[NSlots]
  <2>1. Stays(NSlots, W, g)
    BY <1>1, <1>6 DEF Stays
  <2> QED  BY <1>6, <2>1, SlotFacts, LoopStays
<1> QED  BY <1>2, <1>7

(* The children of all slots.                                              *)
LEMMA ActivateLoop ==
  ASSUME NEW W, NEW w \in W[0],
         \A n \in 0 .. NSlots - 1 : \A v \in W[n] : ActivateChild(v, n) \in W[n + 1]
  PROVE  InSlotOrder(ActivateChild, w) \in W[NSlots]
<1> DEFINE Op(v, n) == ActivateChild(v, n)
           F == [x \in (UNION {W[n] : n \in 0 .. NSlots}) \X Slots |-> Op(x[1], x[2])]
           Solves(h) == h = [n \in 0 .. NSlots |-> IF n = 0 THEN w ELSE Op(h[n - 1], n - 1)]
           g == CHOOSE h : Solves(h)
<1>1. \A n \in 0 .. NSlots - 1 : \A v \in W[n] : Op(v, n) \in W[n + 1] /\ F[<<v, n>>] = Op(v, n)
  BY SlotFacts
<1>2. InSlotOrder(ActivateChild, w) = g[NSlots]
  BY DEF InSlotOrder
<1> HIDE DEF Op, F
<1>3. PICK h : Follows(NSlots, F, w, h) /\ \A n \in 0 .. NSlots : h[n] \in W[n]
  <2>1. Leads(NSlots, W, F)
    BY <1>1 DEF Leads
  <2> QED  BY <2>1, SlotFacts, LoopSolved
<1>4. Solves(h)
  <2>1. \A n \in 0 .. NSlots - 1 : h[n + 1] = Op(h[n], n)
    BY <1>1, <1>3, SlotFacts DEF Follows
  <2>2. \A n \in 0 .. NSlots : n # 0 => n - 1 \in 0 .. NSlots - 1 /\ (n - 1) + 1 = n
    BY SlotFacts
  <2>3. \A n \in 0 .. NSlots : h[n] = IF n = 0 THEN w ELSE Op(h[n - 1], n - 1)
    BY <1>3, <2>1, <2>2 DEF Follows
  <2> QED  BY <1>3, <2>3 DEF Follows
<1>5. Solves(g)
  <2> HIDE DEF Solves
  <2> QED  BY <1>4
<1> HIDE DEF g
<1>6. g[0] \in W[0] /\ \A n \in 0 .. NSlots - 1 : g[n + 1] = Op(g[n], n)
  <2>1. \A n \in 0 .. NSlots - 1 : n + 1 \in 0 .. NSlots /\ n + 1 # 0 /\ (n + 1) - 1 = n
    BY SlotFacts
  <2>2. 0 \in 0 .. NSlots
    BY SlotFacts
  <2> QED  BY <1>5, <2>1, <2>2
<1>7. g[NSlots] \in W[NSlots]
  <2>1. Stays(NSlots, W, g)
    BY <1>1, <1>6 DEF Stays
  <2> QED  BY <1>6, <2>1, SlotFacts, LoopStays
<1> QED  BY <1>2, <1>7

(* What a failed decode removes from all slots.                            *)
LEMMA RmViewLoop ==
  ASSUME NEW W, NEW w \in W[0],
         \A n \in 0 .. NSlots - 1 : \A v \in W[n] : RmView(v, n) \in W[n + 1]
  PROVE  InSlotOrder(RmView, w) \in W[NSlots]
<1> DEFINE Op(v, n) == RmView(v, n)
           F == [x \in (UNION {W[n] : n \in 0 .. NSlots}) \X Slots |-> Op(x[1], x[2])]
           Solves(h) == h = [n \in 0 .. NSlots |-> IF n = 0 THEN w ELSE Op(h[n - 1], n - 1)]
           g == CHOOSE h : Solves(h)
<1>1. \A n \in 0 .. NSlots - 1 : \A v \in W[n] : Op(v, n) \in W[n + 1] /\ F[<<v, n>>] = Op(v, n)
  BY SlotFacts
<1>2. InSlotOrder(RmView, w) = g[NSlots]
  BY DEF InSlotOrder
<1> HIDE DEF Op, F
<1>3. PICK h : Follows(NSlots, F, w, h) /\ \A n \in 0 .. NSlots : h[n] \in W[n]
  <2>1. Leads(NSlots, W, F)
    BY <1>1 DEF Leads
  <2> QED  BY <2>1, SlotFacts, LoopSolved
<1>4. Solves(h)
  <2>1. \A n \in 0 .. NSlots - 1 : h[n + 1] = Op(h[n], n)
    BY <1>1, <1>3, SlotFacts DEF Follows
  <2>2. \A n \in 0 .. NSlots : n # 0 => n - 1 \in 0 .. NSlots - 1 /\ (n - 1) + 1 = n
    BY SlotFacts
  <2>3. \A n \in 0 .. NSlots : h[n] = IF n = 0 THEN w ELSE Op(h[n - 1], n - 1)
    BY <1>3, <2>1, <2>2 DEF Follows
  <2> QED  BY <1>3, <2>3 DEF Follows
<1>5. Solves(g)
  <2> HIDE DEF Solves
  <2> QED  BY <1>4
<1> HIDE DEF g
<1>6. g[0] \in W[0] /\ \A n \in 0 .. NSlots - 1 : g[n + 1] = Op(g[n], n)
  <2>1. \A n \in 0 .. NSlots - 1 : n + 1 \in 0 .. NSlots /\ n + 1 # 0 /\ (n + 1) - 1 = n
    BY SlotFacts
  <2>2. 0 \in 0 .. NSlots
    BY SlotFacts
  <2> QED  BY <1>5, <2>1, <2>2
<1>7. g[NSlots] \in W[NSlots]
  <2>1. Stays(NSlots, W, g)
    BY <1>1, <1>6 DEF Stays
  <2> QED  BY <1>6, <2>1, SlotFacts, LoopStays
<1> QED  BY <1>2, <1>7

(* An error of all slots.                                                  *)
LEMMA FailLoop ==
  ASSUME NEW W, NEW w \in W[0],
         \A n \in 0 .. NSlots - 1 : \A v \in W[n] : (IF v.state[n] = "idle" THEN v ELSE Clear(Release(v, n), n)) \in W[n + 1]
  PROVE  FailAll(w) \in W[NSlots]
<1> DEFINE Op(v, n) == (IF v.state[n] = "idle" THEN v ELSE Clear(Release(v, n), n))
           F == [x \in (UNION {W[n] : n \in 0 .. NSlots}) \X Slots |-> Op(x[1], x[2])]
           Solves(h) == h = [n \in 0 .. NSlots |-> IF n = 0 THEN w ELSE Op(h[n - 1], n - 1)]
           g == CHOOSE h : Solves(h)
<1>1. \A n \in 0 .. NSlots - 1 : \A v \in W[n] : Op(v, n) \in W[n + 1] /\ F[<<v, n>>] = Op(v, n)
  BY SlotFacts
<1>2. FailAll(w) = g[NSlots]
  BY DEF FailAll, InSlotOrder
<1> HIDE DEF Op, F
<1>3. PICK h : Follows(NSlots, F, w, h) /\ \A n \in 0 .. NSlots : h[n] \in W[n]
  <2>1. Leads(NSlots, W, F)
    BY <1>1 DEF Leads
  <2> QED  BY <2>1, SlotFacts, LoopSolved
<1>4. Solves(h)
  <2>1. \A n \in 0 .. NSlots - 1 : h[n + 1] = Op(h[n], n)
    BY <1>1, <1>3, SlotFacts DEF Follows
  <2>2. \A n \in 0 .. NSlots : n # 0 => n - 1 \in 0 .. NSlots - 1 /\ (n - 1) + 1 = n
    BY SlotFacts
  <2>3. \A n \in 0 .. NSlots : h[n] = IF n = 0 THEN w ELSE Op(h[n - 1], n - 1)
    BY <1>3, <2>1, <2>2 DEF Follows
  <2> QED  BY <1>3, <2>3 DEF Follows
<1>5. Solves(g)
  <2> HIDE DEF Solves
  <2> QED  BY <1>4
<1> HIDE DEF g
<1>6. g[0] \in W[0] /\ \A n \in 0 .. NSlots - 1 : g[n + 1] = Op(g[n], n)
  <2>1. \A n \in 0 .. NSlots - 1 : n + 1 \in 0 .. NSlots /\ n + 1 # 0 /\ (n + 1) - 1 = n
    BY SlotFacts
  <2>2. 0 \in 0 .. NSlots
    BY SlotFacts
  <2> QED  BY <1>5, <2>1, <2>2
<1>7. g[NSlots] \in W[NSlots]
  <2>1. Stays(NSlots, W, g)
    BY <1>1, <1>6 DEF Stays
  <2> QED  BY <1>6, <2>1, SlotFacts, LoopStays
<1> QED  BY <1>2, <1>7

(* The slots whose answers end.                                            *)
LEMMA EndLoop ==
  ASSUME NEW W, NEW w \in W[0],
         NEW ends,
         \A n \in 0 .. NSlots - 1 : \A v \in W[n] : (IF n \in ends THEN Release(v, n) ELSE v) \in W[n + 1]
  PROVE  EndAll(w, ends) \in W[NSlots]
<1> DEFINE Op(v, n) == (IF n \in ends THEN Release(v, n) ELSE v)
           F == [x \in (UNION {W[n] : n \in 0 .. NSlots}) \X Slots |-> Op(x[1], x[2])]
           Solves(h) == h = [n \in 0 .. NSlots |-> IF n = 0 THEN w ELSE Op(h[n - 1], n - 1)]
           g == CHOOSE h : Solves(h)
<1>1. \A n \in 0 .. NSlots - 1 : \A v \in W[n] : Op(v, n) \in W[n + 1] /\ F[<<v, n>>] = Op(v, n)
  BY SlotFacts
<1>2. EndAll(w, ends) = g[NSlots]
  BY DEF EndAll, InSlotOrder
<1> HIDE DEF Op, F
<1>3. PICK h : Follows(NSlots, F, w, h) /\ \A n \in 0 .. NSlots : h[n] \in W[n]
  <2>1. Leads(NSlots, W, F)
    BY <1>1 DEF Leads
  <2> QED  BY <2>1, SlotFacts, LoopSolved
<1>4. Solves(h)
  <2>1. \A n \in 0 .. NSlots - 1 : h[n + 1] = Op(h[n], n)
    BY <1>1, <1>3, SlotFacts DEF Follows
  <2>2. \A n \in 0 .. NSlots : n # 0 => n - 1 \in 0 .. NSlots - 1 /\ (n - 1) + 1 = n
    BY SlotFacts
  <2>3. \A n \in 0 .. NSlots : h[n] = IF n = 0 THEN w ELSE Op(h[n - 1], n - 1)
    BY <1>3, <2>1, <2>2 DEF Follows
  <2> QED  BY <1>3, <2>3 DEF Follows
<1>5. Solves(g)
  <2> HIDE DEF Solves
  <2> QED  BY <1>4
<1> HIDE DEF g
<1>6. g[0] \in W[0] /\ \A n \in 0 .. NSlots - 1 : g[n + 1] = Op(g[n], n)
  <2>1. \A n \in 0 .. NSlots - 1 : n + 1 \in 0 .. NSlots /\ n + 1 # 0 /\ (n + 1) - 1 = n
    BY SlotFacts
  <2>2. 0 \in 0 .. NSlots
    BY SlotFacts
  <2> QED  BY <1>5, <2>1, <2>2
<1>7. g[NSlots] \in W[NSlots]
  <2>1. Stays(NSlots, W, g)
    BY <1>1, <1>6 DEF Stays
  <2> QED  BY <1>6, <2>1, SlotFacts, LoopStays
<1> QED  BY <1>2, <1>7

---------------------------------------------------------------------------
(* The loops keep works sound.                                             *)

SoundSets == [n \in 0 .. NSlots |-> SoundWorks]

LEMMA SoundSetsAre ==
  /\ \A n \in 0 .. NSlots : SoundSets[n] = SoundWorks
  /\ \A w : Sound(w) <=> w \in SoundWorks
  /\ 0 \in 0 .. NSlots /\ NSlots \in 0 .. NSlots
<1>1. \A w : Sound(w) <=> w \in SoundWorks
  BY DEF SoundWorks, Sound
<1> QED  BY <1>1, SlotFacts DEF SoundSets

LEMMA PromptsSound ==
  ASSUME NEW w, Sound(w)
  PROVE  Sound(InSlotOrder(AddPrompt, w))
<1>1. w \in SoundSets[0]
  BY SoundSetsAre
<1>2. \A n \in 0 .. NSlots - 1 : \A v \in SoundSets[n] : AddPrompt(v, n) \in SoundSets[n + 1]
  BY SoundSetsAre, SlotFacts, AddPromptSound
<1>3. InSlotOrder(AddPrompt, w) \in SoundSets[NSlots]
  BY <1>1, <1>2, PromptLoop
<1> QED  BY <1>3, SoundSetsAre

LEMMA ActivationsSound ==
  ASSUME NEW w, Sound(w)
  PROVE  Sound(InSlotOrder(ActivateChild, w))
<1>1. w \in SoundSets[0]
  BY SoundSetsAre
<1>2. \A n \in 0 .. NSlots - 1 : \A v \in SoundSets[n] : ActivateChild(v, n) \in SoundSets[n + 1]
  BY SoundSetsAre, SlotFacts, ActivateSound
<1>3. InSlotOrder(ActivateChild, w) \in SoundSets[NSlots]
  BY <1>1, <1>2, ActivateLoop
<1> QED  BY <1>3, SoundSetsAre

LEMMA RmViewsSound ==
  ASSUME NEW w, Sound(w), batch \in Seq(Ents), NView \in Nat, NView <= Len(batch)
  PROVE  Sound(InSlotOrder(RmView, w))
<1>1. w \in SoundSets[0]
  BY SoundSetsAre
<1>2. \A n \in 0 .. NSlots - 1 : \A v \in SoundSets[n] : RmView(v, n) \in SoundSets[n + 1]
  BY SoundSetsAre, SlotFacts, RmViewSound
<1>3. InSlotOrder(RmView, w) \in SoundSets[NSlots]
  BY <1>1, <1>2, RmViewLoop
<1> QED  BY <1>3, SoundSetsAre

LEMMA FailSound ==
  ASSUME NEW w, Sound(w)
  PROVE  Sound(FailAll(w))
<1>1. w \in SoundSets[0]
  BY SoundSetsAre
<1>2. ASSUME NEW n \in 0 .. NSlots - 1, NEW v \in SoundSets[n]
      PROVE  (IF v.state[n] = "idle" THEN v ELSE Clear(Release(v, n), n)) \in SoundSets[n + 1]
  <2>1. Sound(v) /\ n \in Slots
    BY SoundSetsAre, SlotFacts
  <2>2. Sound(Release(v, n))
    BY <2>1, ReleaseSound
  <2>3. Sound(Clear(Release(v, n), n))
    BY <2>1, <2>2, ClearSound
  <2>4. Sound(IF v.state[n] = "idle" THEN v ELSE Clear(Release(v, n), n))
    BY <2>1, <2>3
  <2> QED  BY <2>4, SoundSetsAre, SlotFacts
<1>3. FailAll(w) \in SoundSets[NSlots]
  BY <1>1, <1>2, FailLoop
<1> QED  BY <1>3, SoundSetsAre

LEMMA EndsSound ==
  ASSUME NEW w, Sound(w), NEW ends
  PROVE  Sound(EndAll(w, ends))
<1>1. w \in SoundSets[0]
  BY SoundSetsAre
<1>2. ASSUME NEW n \in 0 .. NSlots - 1, NEW v \in SoundSets[n]
      PROVE  (IF n \in ends THEN Release(v, n) ELSE v) \in SoundSets[n + 1]
  <2>1. Sound(v) /\ n \in Slots
    BY SoundSetsAre, SlotFacts
  <2>2. Sound(Release(v, n))
    BY <2>1, ReleaseSound
  <2>3. Sound(IF n \in ends THEN Release(v, n) ELSE v)
    BY <2>1, <2>2
  <2> QED  BY <2>3, SoundSetsAre, SlotFacts
<1>3. EndAll(w, ends) \in SoundSets[NSlots]
  BY <1>1, <1>2, EndLoop
<1> QED  BY <1>3, SoundSetsAre

(* While slots are shifted: the first n have room for a token, and no slot *)
(* starts to generate.                                                     *)
Generating(w, s) == w.state[s] = "generating"

ShiftedUpTo(w0, n) ==
  {w \in SoundWorks :
     /\ w.batch = w0.batch /\ \A s \in Slots : Generating(w, s) => Generating(w0, s)
     /\ \A s \in Slots : s < n => HasRoom(w, s)}

LEMMA ShiftsSound ==
  ASSUME NEW w, Sound(w), mode \in Modes
  PROVE  InSlotOrder(ShiftContext, w) \in ShiftedUpTo(w, NSlots)
<1> DEFINE W == [n \in 0 .. NSlots |-> ShiftedUpTo(w, n)]
<1>0. \A n \in 0 .. NSlots : W[n] = ShiftedUpTo(w, n)
  OBVIOUS
<1>1. w \in W[0]
  <2>1. w \in ShiftedUpTo(w, 0)
    BY SoundSetsAre, SlotFacts DEF ShiftedUpTo
  <2> QED  BY <2>1, SoundSetsAre
<1>2. ASSUME NEW n \in 0 .. NSlots - 1, NEW v \in W[n]  PROVE ShiftContext(v, n) \in W[n + 1]
  <2>1. v \in ShiftedUpTo(w, n) /\ n \in Slots /\ n \in Nat
    BY <1>0, SlotFacts
  <2>2. Sound(v)
    BY <2>1, SoundSetsAre DEF ShiftedUpTo
  <2>3. Sound(ShiftContext(v, n)) /\ Shifted(v, ShiftContext(v, n), n)
    BY <2>1, <2>2, ShiftSound
  <2> DEFINE u == ShiftContext(v, n)
  <2> HIDE DEF u, W
  <2>4. u.batch = w.batch
    BY <2>1, <2>3 DEF ShiftedUpTo, Shifted, u
  <2>5. ASSUME NEW s \in Slots  PROVE Generating(u, s) => Generating(w, s)
    BY <2>1, <2>3 DEF ShiftedUpTo, Shifted, OnlySlot, Generating, u
  <2>6. ASSUME NEW s \in Slots, s < n + 1  PROVE HasRoom(u, s)
    <3>1. CASE s = n
      BY <2>3, <3>1 DEF Shifted, u
    <3>2. CASE s # n
      <4>1. s < n
        BY <2>1, <2>6, <3>2, SlotFacts
      <4>2. HasRoom(v, s)
        BY <2>1, <4>1 DEF ShiftedUpTo
      <4> QED  BY <2>3, <3>2, <4>2 DEF Shifted, OnlySlot, HasRoom, u
    <3> QED  BY <3>1, <3>2
  <2>7. u \in SoundWorks
    BY <2>3, SoundSetsAre DEF u
  <2>8. u \in ShiftedUpTo(w, n + 1)
    BY <2>4, <2>5, <2>6, <2>7 DEF ShiftedUpTo
  <2> QED  BY <1>0, <2>8, SlotFacts DEF u
<1>3. InSlotOrder(ShiftContext, w) \in W[NSlots]
  <2> HIDE DEF W
  <2> QED  BY <1>1, <1>2, ShiftLoop
<1> QED  BY <1>0, <1>3, SoundSetsAre

(* While sampled tokens are added: each slot adds one at most, and those   *)
(* that are left have room for theirs.                                     *)
SampledUpTo(w0, n) ==
  {w \in SoundWorks :
     /\ Len(w.batch) <= n /\ w.state = w0.state
     /\ \A s \in Slots : s >= n => HasRoom(w, s)}

LEMMA AllSampledSound ==
  ASSUME NEW w, Sound(w), w.batch = <<>>, \A s \in Slots : HasRoom(w, s),
         NEW sampled, \A s \in Slots : Generating(w, s) => sampled[s] \in Tokens
  PROVE  Sound(AddAllSampled(w, sampled))
<1> DEFINE W == [n \in 0 .. NSlots |-> SampledUpTo(w, n)]
<1>0. \A n \in 0 .. NSlots : W[n] = SampledUpTo(w, n)
  OBVIOUS
<1>1. w \in W[0]
  <2>1. w \in SampledUpTo(w, 0)
    <3>1. Len(w.batch) <= 0
      OBVIOUS
    <3> QED  BY <3>1, SoundSetsAre DEF SampledUpTo
  <2> QED  BY <2>1, SoundSetsAre
<1>2. ASSUME NEW n \in 0 .. NSlots - 1, NEW v \in W[n]
      PROVE  (IF v.state[n] = "generating" THEN AddSampled(v, n, sampled[n]) ELSE v) \in W[n + 1]
  <2>1. v \in SampledUpTo(w, n) /\ n \in Slots /\ n \in Nat /\ n < BatchSize
    BY <1>0, SlotFacts
  <2>2. Sound(v) /\ v.state = w.state /\ Len(v.batch) <= n
    BY <2>1, SoundSetsAre DEF SampledUpTo
  <2>3. Len(v.batch) \in Nat
    BY <2>2, WorkFields DEF Sound
  <2>4. \A s \in Slots : s >= n + 1 => s >= n /\ s # n
    BY <2>1, SlotFacts
  <2>5. CASE v.state[n] = "generating"
    <3> DEFINE u == AddSampled(v, n, sampled[n])
    <3>1. sampled[n] \in Tokens /\ HasRoom(v, n) /\ Len(v.batch) < BatchSize
      BY <2>1, <2>2, <2>3, <2>5, SlotFacts DEF SampledUpTo, Generating
    <3>2. Sound(u) /\ OnlySlot(v, u, n) /\ u.state = v.state /\ Len(u.batch) = Len(v.batch) + 1
      BY <2>1, <2>2, <2>5, <3>1, AddSampledSound
    <3> HIDE DEF u, W
    <3>3. \A s \in Slots : s >= n + 1 => HasRoom(u, s)
      BY <2>1, <2>4, <3>2 DEF SampledUpTo, OnlySlot, HasRoom
    <3>4. Len(u.batch) <= n + 1
      BY <2>1, <2>2, <2>3, <3>2
    <3>5. u \in SampledUpTo(w, n + 1)
      BY <2>2, <3>2, <3>3, <3>4, SoundSetsAre DEF SampledUpTo
    <3> QED  BY <1>0, <2>5, <3>5, SlotFacts DEF u
  <2>6. CASE v.state[n] # "generating"
    <3>1. v \in SampledUpTo(w, n + 1)
      <4>1. Len(v.batch) <= n + 1
        BY <2>1, <2>2, <2>3
      <4> QED  BY <2>1, <2>2, <2>4, <4>1 DEF SampledUpTo
    <3> HIDE DEF W
    <3> QED  BY <1>0, <2>6, <3>1, SlotFacts
  <2> QED  BY <2>5, <2>6
<1>3. AddAllSampled(w, sampled) \in W[NSlots]
  <2> HIDE DEF W
  <2> QED  BY <1>1, <1>2, SampledLoop
<1>4. AddAllSampled(w, sampled) \in SampledUpTo(w, NSlots)
  BY <1>0, <1>3, SoundSetsAre
<1> QED  BY <1>4, SoundSetsAre DEF SampledUpTo

---------------------------------------------------------------------------
(* What is decoded.                                                        *)

(* Cells whose rows are copied, but for the pending shifts.                *)
Tidy(c) == c \in [Slots -> GoodCells] /\ \A st \in Slots : Based(c[st], c[st].k)

LEMMA NowFields ==
  /\ Now.cells = cells /\ Now.copies = copies /\ Now.state = state /\ Now.role = role
  /\ Now.kin = kin /\ Now.prompt = prompt /\ Now.iBatch = iBatch /\ Now.batch = batch
BY DEF Now

LEMMA NowTyped ==
  ASSUME SlotInv
  PROVE  /\ Sound(Now)
         /\ cells \in [Slots -> GoodCells] /\ copies \in Seq(StreamCopies)
         /\ state \in [Slots -> States] /\ role \in [Slots -> Roles]
         /\ kin \in [Slots -> Slots \cup {NoSlot}] /\ prompt \in [Slots -> Seq(Tokens)]
         /\ iBatch \in [Slots -> 0 .. BatchSize] /\ batch \in Seq(Ents)
         /\ Len(batch) \in Nat /\ Len(batch) <= BatchSize
<1>1. Sound(Now) /\ Now \in Works
  BY DEF SlotInv, Sound
<1>2. batch \in Seq(Ents)
  BY <1>1, WorkFields, NowFields
<1>3. Len(batch) \in Nat
  BY <1>2
<1> QED  BY <1>1, <1>2, <1>3, WorkFields, NowFields DEF Sound

(* update(): the rows are where the cells are, and nothing is pending.     *)
LEMMA UpdatedGood ==
  ASSUME SlotInv
  PROVE  Updated \in [Slots -> GoodCells] /\ \A st \in Slots : InPlace(Updated[st])
<1> DEFINE r == Copied(cells, copies)
<1>1. r \in [Slots -> [Idx -> Rows]]
  BY NowTyped, CopiedRows DEF StreamRows
<1>2. \A st \in Slots : Based(cells[st], r[st])
  BY NowFields DEF SlotInv, Sound, RowsBased
<1> HIDE DEF r
<1>3. ASSUME NEW st \in Slots
      PROVE  /\ ApplyShift([cells[st] EXCEPT !.k = r[st]]) \in GoodCells
             /\ InPlace(ApplyShift([cells[st] EXCEPT !.k = r[st]]))
  <2>1. cells[st] \in GoodCells /\ r[st] \in [Idx -> Rows]
    BY <1>1, NowTyped
  <2> QED  BY <1>2, <2>1, ApplyShiftGood
<1>4. Updated = [st \in Slots |-> ApplyShift([cells[st] EXCEPT !.k = r[st]])]
  BY DEF Updated, r
<1> QED  BY <1>3, <1>4

LEMMA UpdatedTidy ==
  ASSUME SlotInv
  PROVE  Tidy(Updated)
BY UpdatedGood, InPlaceBased DEF Tidy

(* The view is the first part of what is left of the batch.                *)
LEMMA ViewFacts ==
  ASSUME SlotInv
  PROVE  /\ NView \in Nat /\ NView <= Len(batch)
         /\ View \in Seq(Ents) /\ Len(View) = NView
         /\ Rest \in Seq(Ents) /\ Len(Rest) \in Nat /\ Len(Rest) = Len(batch) - NView
<1> DEFINE m == Len(batch)
<1>1. batch \in Seq(Ents) /\ m \in Nat /\ nBatch \in Nat
  BY NowTyped, SlotFacts DEF SlotInv
<1> HIDE DEF m
<1>2. NView \in Nat /\ NView <= m
  <2>1. NView = IF nBatch <= m THEN nBatch ELSE m
    BY <1>1, MinOfTwo DEF NView, m
  <2> QED  BY <1>1, <2>1
<1>3. View \in Seq(Ents) /\ Len(View) = NView
  BY <1>1, <1>2 DEF View, m
<1>4. Rest \in Seq(Ents) /\ Len(Rest) = m - NView
  BY <1>1, <1>2 DEF Rest, m
<1> QED  BY <1>1, <1>2, <1>3, <1>4 DEF m

(* A stream gets a part of the view.                                       *)
LEMMA PartFacts ==
  ASSUME SlotInv, NEW st
  PROVE  /\ Len(Part(st)) \in Nat /\ (Part(st) # <<>> => Len(Part(st)) # 0)
         /\ \A j \in 1 .. Len(Part(st)) : Part(st)[j] \in Ents
<1> DEFINE of == {j \in 1 .. NView : StreamOf(View[j].seq) = st}
           m == Cardinality(of)
<1>1. NView \in Nat /\ View \in Seq(Ents) /\ Len(View) = NView
  BY ViewFacts
<1>2. of \subseteq 1 .. NView /\ of \in SUBSET Nat /\ IsFiniteSet(of) /\ m \in Nat
  <2>1. IsFiniteSet(1 .. NView)
    BY <1>1, FS_Interval
  <2>2. IsFiniteSet(of)
    BY <2>1, FS_Subset
  <2> QED  BY <1>1, <2>2, FS_CardinalityType
<1> HIDE DEF of
<1>3. \A j \in 1 .. m : Nth(of, j) \in of
  BY <1>2, NthFound
<1>4. Part(st) = [j \in 1 .. m |-> View[Nth(of, j)]]
  BY DEF Part, of
<1> HIDE DEF m
<1>5. ASSUME NEW j \in 1 .. m  PROVE View[Nth(of, j)] \in Ents
  <2> DEFINE x == Nth(of, j)
  <2>1. x \in of
    BY <1>3
  <2> HIDE DEF x
  <2>2. x \in 1 .. Len(View)
    BY <1>1, <1>2, <2>1
  <2>3. View[x] \in Ents
    BY <1>1, <2>2
  <2> QED  BY <2>3 DEF x
<1>6. Part(st) \in Seq(Ents) /\ Len(Part(st)) = m
  BY <1>2, <1>4, <1>5
<1> QED  BY <1>2, <1>4, <1>5, <1>6

(* The cells after apply_ubatch() in every stream.                         *)
LEMMA PlacedTidy ==
  ASSUME SlotInv, NEW c, Tidy(c), Fits(c)
  PROVE  Tidy(Placed(c))
<1>1. ASSUME NEW st \in Slots
      PROVE  Placed(c)[st] \in GoodCells /\ Based(Placed(c)[st], Placed(c)[st].k)
  <2>1. c[st] \in GoodCells /\ Based(c[st], c[st].k)
    BY DEF Tidy
  <2>2. CASE st \in Streams /\ Part(st) # <<>>
    <3> DEFINE n == Len(Part(st))
               slot == FindSlot(c[st], n)
    <3>1. n \in Nat /\ n # 0 /\ \A j \in 1 .. n : Part(st)[j] \in Ents
      BY <2>2, PartFacts
    <3>2. Len(FindSlot(c[st], n)) = n
      BY <2>2 DEF Fits
    <3>3. \A j \in 1 .. n : slot[j] \in Empty(c[st])
      BY <2>1, <3>1, <3>2, FoundIsEmpty
    <3>4. Placed(c)[st] = Place(c[st], slot, Part(st))
      BY <2>2 DEF Placed
    <3> HIDE DEF slot
    <3> QED  BY <2>1, <3>1, <3>3, <3>4, PlaceGood
  <2>3. CASE ~(st \in Streams /\ Part(st) # <<>>)
    BY <2>1, <2>3 DEF Placed
  <2> QED  BY <2>2, <2>3
<1>2. Placed(c) = [st \in Slots |-> Placed(c)[st]]
  BY DEF Placed
<1> QED  BY <1>1, <1>2 DEF Tidy

(* The work once update() is done, whatever is left of the batch.          *)
LEMMA WorkingSound ==
  ASSUME SlotInv, NEW c, Tidy(c), NEW b \in Seq(Ents), Len(b) <= BatchSize
  PROVE  Sound([Working(c) EXCEPT !.batch = b])
<1> DEFINE v == [Working(c) EXCEPT !.batch = b]
           e == << >>
<1>1. v = [cells |-> c, copies |-> e, state |-> state, role |-> role,
           kin |-> kin, prompt |-> prompt, iBatch |-> iBatch, batch |-> b]
  <2>1. v = [[Now EXCEPT !.cells = c, !.copies = e] EXCEPT !.batch = b]
    BY DEF Working
  <2> HIDE DEF e, v
  <2> QED  BY <2>1 DEF Now
<1>2. v \in Works
  <2>1. e \in Seq(StreamCopies)
    OBVIOUS
  <2> HIDE DEF e, v
  <2> QED  BY <1>1, <2>1, NowTyped DEF Works, Tidy
<1>3. /\ v.cells = c /\ v.copies = <<>> /\ v.state = state /\ v.kin = kin
      /\ v.prompt = prompt /\ v.iBatch = iBatch /\ v.batch = b
  BY <1>1
<1> HIDE DEF v
<1>4. RowsBased(v)
  <2>1. \A st \in Slots : Copied(c, <<>>)[st] = c[st].k
    BY NothingCopied DEF BaseRows
  <2> QED  BY <1>3, <2>1 DEF RowsBased, Tidy
<1>5. PromptsFit(v) /\ InputsKnown(v) /\ PromptsGrow(v)
  BY <1>3, NowTyped, NowFields DEF Sound, PromptsFit, InputsKnown, PromptsGrow
<1> QED  BY <1>2, <1>3, <1>4, <1>5 DEF Sound, v

LEMMA UpdatedSound ==
  ASSUME SlotInv, NEW c, Tidy(c)
  PROVE  Sound(Working(c))
<1> DEFINE e == << >>
           u == Working(c)
<1>0. u = [Now EXCEPT !.cells = c, !.copies = e]
  BY DEF Working
<1> HIDE DEF u, e
<1>1. u = [u EXCEPT !.batch = batch]
  <2>1. u = [cells |-> c, copies |-> e, state |-> state, role |-> role,
             kin |-> kin, prompt |-> prompt, iBatch |-> iBatch, batch |-> batch]
    BY <1>0 DEF Now
  <2> QED  BY <2>1
<1>2. Sound([u EXCEPT !.batch = batch])
  BY WorkingSound, NowTyped DEF u
<1> QED  BY <1>1, <1>2 DEF u

(* The slots are sampled, and the places of the others move to Rest.       *)
Going(w) ==
  [w EXCEPT
    !.state  = [s \in Slots |-> IF s \in Sampled(w) THEN "generating" ELSE w.state[s]],
    !.iBatch = [s \in Slots |-> IF s \in Sampled(w) \/ w.iBatch[s] = 0 THEN 0 ELSE w.iBatch[s] - NView]]

OnlySampled(w, v) ==
  /\ v.cells = w.cells /\ v.copies = w.copies /\ v.kin = w.kin /\ v.role = w.role
  /\ v.prompt = w.prompt /\ v.batch = w.batch
  /\ \A s \in Slots : v.state[s] = IF s \in Sampled(w) THEN "generating" ELSE w.state[s]
  /\ \A s \in Slots : v.iBatch[s] = IF s \in Sampled(w) \/ w.iBatch[s] = 0 THEN 0 ELSE w.iBatch[s] - NView

LEMMA GoingSound ==
  ASSUME SlotInv, NEW w, Sound(w)
  PROVE  Sound(Going(w)) /\ OnlySampled(w, Going(w))
<1> DEFINE st == [s \in Slots |-> IF s \in Sampled(w) THEN "generating" ELSE w.state[s]]
           ib == [s \in Slots |-> IF s \in Sampled(w) \/ w.iBatch[s] = 0 THEN 0
                                  ELSE w.iBatch[s] - NView]
           v == Going(w)
<1>1. w \in Works /\ NView \in Nat
  BY ViewFacts DEF Sound
<1>2. \A s \in Slots : s \in Sampled(w) => w.iBatch[s] # 0
  BY <1>1 DEF Sampled
<1>3. \A s \in Slots : s \notin Sampled(w) => w.iBatch[s] = 0 \/ w.iBatch[s] > NView
  BY <1>1, WorkFields, SlotFacts DEF Sampled
<1>4. st \in [Slots -> States]
  BY <1>1, WorkFields DEF States
<1>5. ib \in [Slots -> 0 .. BatchSize]
  BY <1>1, <1>3, WorkFields, SlotFacts
<1>6. \A s \in Slots : (st[s] # "idle" => w.state[s] # "idle" \/ w.iBatch[s] # 0)
                       /\ (st[s] = "prompt" => w.state[s] = "prompt")
  BY <1>2
<1>7. \A s \in Slots : ib[s] # 0 => w.iBatch[s] # 0
  BY <1>2
<1>8. v = [w EXCEPT !.state = st, !.iBatch = ib]
  BY DEF Going
<1>9. /\ \A s \in Slots : st[s] = IF s \in Sampled(w) THEN "generating" ELSE w.state[s]
      /\ \A s \in Slots : ib[s] = IF s \in Sampled(w) \/ w.iBatch[s] = 0 THEN 0 ELSE w.iBatch[s] - NView
  OBVIOUS
<1> HIDE DEF st, ib, v
<1>10. v \in Works
  BY <1>1, <1>4, <1>5, <1>8 DEF Works
<1>11. /\ v.cells = w.cells /\ v.copies = w.copies /\ v.state = st /\ v.kin = w.kin
       /\ v.prompt = w.prompt /\ v.iBatch = ib /\ v.batch = w.batch /\ v.role = w.role
  BY <1>1, <1>8 DEF Works
<1>12. PromptsFit(v)
  BY <1>11 DEF Sound, PromptsFit
<1>13. InputsKnown(v)
  BY <1>6, <1>7, <1>11 DEF Sound, InputsKnown
<1>14. PromptsGrow(v)
  BY <1>6, <1>11 DEF Sound, PromptsGrow
<1>15. RowsBased(v)
  BY <1>11 DEF Sound, RowsBased
<1>16. OnlySampled(w, v)
  BY <1>9, <1>11 DEF OnlySampled
<1> QED  BY <1>10, <1>11, <1>12, <1>13, <1>14, <1>15, <1>16 DEF Sound, v

LEMMA SampleSound ==
  ASSUME SlotInv, NEW w, Sound(w), NEW ends
  PROVE  Sound(Sample(w, ends))
<1>1. Sample(w, ends) = EndAll(Going(w), ends)
  BY DEF Sample, Going
<1> QED  BY <1>1, GoingSound, EndsSound

---------------------------------------------------------------------------
(* The actions.                                                            *)

LEMMA BecomeSound ==
  ASSUME NEW v, Sound(v), Become(v), batch' \in Seq(Ents), Len(batch') <= BatchSize, input' = input
  PROVE  Sound(Now)'
<1> DEFINE u == [v EXCEPT !.batch = batch']
<1>1. v \in Works
  BY DEF Sound
<1>2. Now' = u
  <2>1. /\ cells' = v.cells /\ copies' = v.copies /\ state' = v.state /\ role' = v.role
        /\ kin' = v.kin /\ prompt' = v.prompt /\ iBatch' = v.iBatch
    BY DEF Become
  <2> DEFINE b == batch'
  <2>2. Now' = [cells |-> v.cells, copies |-> v.copies, state |-> v.state, role |-> v.role,
                kin |-> v.kin, prompt |-> v.prompt, iBatch |-> v.iBatch, batch |-> b]
    BY <2>1 DEF Now
  <2> HIDE DEF b
  <2>3. [v EXCEPT !.batch = b]
          = [cells |-> v.cells, copies |-> v.copies, state |-> v.state, role |-> v.role,
             kin |-> v.kin, prompt |-> v.prompt, iBatch |-> v.iBatch, batch |-> b]
    <3>1. v = [cells |-> v.cells, copies |-> v.copies, state |-> v.state, role |-> v.role,
               kin |-> v.kin, prompt |-> v.prompt, iBatch |-> v.iBatch, batch |-> v.batch]
      BY <1>1 DEF Works
    <3> QED  BY <3>1
  <2> QED  BY <2>2, <2>3 DEF b
<1>3. u \in Works
  <2> HIDE DEF u
  <2> QED  BY <1>1 DEF Works, u
<1>4. /\ u.cells = v.cells /\ u.copies = v.copies /\ u.state = v.state /\ u.kin = v.kin
      /\ u.prompt = v.prompt /\ u.iBatch = v.iBatch /\ u.batch = batch'
  BY <1>1 DEF Works
<1> HIDE DEF u
<1>5. PromptsFit(u) /\ InputsKnown(u) /\ PromptsGrow(u) /\ RowsBased(u)
  BY <1>4 DEF Sound, PromptsFit, InputsKnown, PromptsGrow, RowsBased
<1> QED  BY <1>2, <1>3, <1>4, <1>5 DEF Sound, PromptsFit, InputsKnown, PromptsGrow, RowsBased

LEMMA SlotInvInit ==
  ASSUME Init
  PROVE  SlotInv
<1>1. /\ mode \in Modes /\ input \in [Slots -> Prompts \cup {<< >>}]
      /\ nBatch \in 1 .. NBatch /\ pc = "tasks" /\ batch = << >>
  BY SlotFacts DEF Init
<1>2. cells \in [Slots -> GoodCells] /\ prompt \in [Slots -> Seq(Tokens)] /\ copies \in Seq(StreamCopies)
  BY EmptyGood DEF Init
<1>3. /\ state \in [Slots -> States] /\ role \in [Slots -> Roles]
      /\ kin \in [Slots -> Slots \cup {NoSlot}] /\ iBatch \in [Slots -> 0 .. BatchSize]
  BY SlotFacts DEF Init, States, Roles
<1>4. Now \in Works
  <2>1. batch \in Seq(Ents)
    BY <1>1
  <2> QED  BY <1>2, <1>3, <2>1 DEF Works, Now
<1>5. PromptsFit(Now) /\ InputsKnown(Now) /\ PromptsGrow(Now)
  <2>1. \A s \in Slots : /\ Len(prompt[s]) = 0 /\ state[s] = "idle"
                         /\ kin[s] = NoSlot /\ iBatch[s] = 0
    BY DEF Init
  <2>2. PromptsFit(Now)
    BY <2>1, NowFields, SlotFacts DEF PromptsFit
  <2>3. InputsKnown(Now)
    BY <2>1, NowFields DEF InputsKnown
  <2>4. PromptsGrow(Now)
    BY <2>1, NowFields DEF PromptsGrow
  <2> QED  BY <2>2, <2>3, <2>4
<1>6. RowsBased(Now)
  <2>1. \A st \in Slots : \A i \in Idx : cells[st].pos[i] = -1
    BY DEF Init, EmptyCells
  <2> QED  BY <2>1, NowFields DEF RowsBased, Based
<1>7. Sound(Now)
  <2>1. Len(batch) <= BatchSize
    BY <1>1, SlotFacts
  <2> QED  BY <1>4, <1>5, <1>6, <2>1, NowFields DEF Sound
<1> QED  BY <1>1, <1>7 DEF SlotInv

LEMMA LaunchKeeps ==
  ASSUME SlotInv, NEW s \in Slots, NEW p \in Prompts, NEW C \in SUBSET Slots, s \notin C,
         Launch(s, p, C)
  PROVE  SlotInv'
<1>1. /\ mode' = mode /\ nBatch' = nBatch /\ pc' = "tasks" /\ pc = "tasks" /\ batch' = batch
      /\ cells' = cells /\ copies' = copies /\ prompt' = prompt /\ iBatch' = iBatch
  BY DEF Launch
<1>2. /\ state' \in [Slots -> States] /\ role' \in [Slots -> Roles]
      /\ kin' \in [Slots -> Slots \cup {NoSlot}] /\ input' \in [Slots -> Prompts \cup {<< >>}]
  BY NowTyped DEF Launch, SlotInv, States, Roles
<1>3. Now' \in Works
  BY <1>1, <1>2, NowTyped DEF Works, Now
<1>4. \A x \in Slots : /\ state'[x] # "idle" => state[x] # "idle" \/ x \in C \cup {s}
                       /\ kin'[x] # NoSlot => kin[x] # NoSlot \/ x \in C
                       /\ input'[x] = IF x \in C \cup {s} THEN p ELSE input[x]
                       /\ state'[x] = "prompt" => state[x] = "prompt" /\ x \notin C \cup {s}
  BY DEF Launch
<1>5. PromptsFit(Now)' /\ InputsKnown(Now)' /\ PromptsGrow(Now)' /\ RowsBased(Now)'
  <2>1. /\ PromptsFit(Now) /\ InputsKnown(Now) /\ PromptsGrow(Now) /\ RowsBased(Now)
    BY DEF SlotInv, Sound
  <2>2. PromptsFit(Now)'
    BY <1>1, <2>1, NowFields DEF PromptsFit, Now
  <2>3. InputsKnown(Now)'
    BY <1>1, <1>4, <2>1 DEF InputsKnown, Now
  <2>4. PromptsGrow(Now)'
    BY <1>1, <1>4, <2>1 DEF PromptsGrow, Now
  <2>5. RowsBased(Now)'
    BY <1>1, <2>1 DEF RowsBased, Now
  <2> QED  BY <2>2, <2>3, <2>4, <2>5
<1>6. Len(batch') <= BatchSize
  BY <1>1, NowTyped
<1>7. Sound(Now)'
  BY <1>3, <1>5, <1>6, NowFields DEF Sound, Now
<1> QED  BY <1>1, <1>2, <1>7 DEF SlotInv

(* Actions of the task loop that change one slot.                          *)
LEMMA CancelKeeps ==
  ASSUME SlotInv, NEW s \in Slots, Cancel(s)
  PROVE  SlotInv'
<1>1. Sound(Release(Now, s))
  BY NowTyped, ReleaseSound
<1>2. /\ Become(Release(Now, s)) /\ mode' = mode /\ input' = input /\ batch' = batch
      /\ nBatch' = nBatch /\ pc' = pc
  BY DEF Cancel
<1>3. Sound(Now)'
  BY <1>1, <1>2, NowTyped, BecomeSound
<1> QED  BY <1>2, <1>3 DEF SlotInv

LEMMA EraseKeeps ==
  ASSUME SlotInv, NEW s \in Slots, Erase(s)
  PROVE  SlotInv'
<1>1. Sound(Clear(Now, s))
  BY NowTyped, ClearSound
<1>2. /\ Become(Clear(Now, s)) /\ mode' = mode /\ input' = input /\ batch' = batch
      /\ nBatch' = nBatch /\ pc' = pc
  BY DEF Erase
<1>3. Sound(Now)'
  BY <1>1, <1>2, NowTyped, BecomeSound
<1> QED  BY <1>2, <1>3 DEF SlotInv

LEMMA StartPassKeeps ==
  ASSUME SlotInv, StartPass
  PROVE  SlotInv'
<1>1. PICK sampled \in [{s \in Slots : state[s] = "generating"} -> Sampleable] :
        \E full \in {InSlotOrder(AddPrompt, AddAllSampled(InSlotOrder(ShiftContext, Now), sampled))} :
          /\ Become(full) /\ batch' = full.batch /\ nBatch' = NBatch
          /\ pc' = IF full.batch = <<>> THEN "tasks" ELSE "decode"
  BY DEF StartPass
<1> DEFINE shifted == InSlotOrder(ShiftContext, Now)
           added == AddAllSampled(shifted, sampled)
           full == InSlotOrder(AddPrompt, added)
<1>2. /\ Become(full) /\ batch' = full.batch /\ nBatch' = NBatch
      /\ pc' = IF full.batch = <<>> THEN "tasks" ELSE "decode"
  BY <1>1
<1>3. shifted \in ShiftedUpTo(Now, NSlots)
  BY NowTyped, ShiftsSound DEF SlotInv
<1>4. pc = "tasks" /\ mode' = mode /\ input' = input
  BY DEF StartPass
<1> HIDE DEF shifted
<1>5. /\ Sound(shifted) /\ shifted.batch = <<>>
      /\ \A s \in Slots : Generating(shifted, s) => state[s] = "generating"
  BY <1>3, <1>4, NowFields, SoundSetsAre DEF ShiftedUpTo, SlotInv, Generating
<1>6. \A s \in Slots : HasRoom(shifted, s)
  <2>1. \A s \in Slots : s < NSlots
    BY SlotFacts DEF Slots
  <2> QED  BY <1>3, <2>1 DEF ShiftedUpTo
<1>7. \A s \in Slots : Generating(shifted, s) => sampled[s] \in Tokens
  BY <1>5, SlotFacts
<1>8. Sound(added)
  BY <1>5, <1>6, <1>7, AllSampledSound
<1> HIDE DEF added
<1>9. Sound(full)
  BY <1>8, PromptsSound
<1> HIDE DEF full
<1>10. full.batch \in Seq(Ents) /\ Len(full.batch) <= BatchSize
  BY <1>9, WorkFields DEF Sound
<1>11. Sound(Now)'
  BY <1>2, <1>4, <1>9, <1>10, BecomeSound
<1>12. nBatch' \in 1 .. NBatch
  BY <1>2, SlotFacts
<1>13. pc' \in {"tasks", "decode"} /\ (pc' = "tasks" => batch' = <<>>)
  BY <1>2
<1> QED  BY <1>4, <1>11, <1>12, <1>13 DEF SlotInv

(* A batch that is refused ends every task.                                *)
LEMMA InvalidBatchKeeps ==
  ASSUME SlotInv, mode' = mode, input' = input, InvalidBatch
  PROVE  SlotInv'
<1>1. Become(FailAll(Now)) /\ batch' = <<>> /\ pc' = "tasks" /\ nBatch' = nBatch
  BY DEF InvalidBatch
<1>2. Sound(FailAll(Now))
  BY NowTyped, FailSound
<1>3. batch' \in Seq(Ents) /\ Len(batch') <= BatchSize
  BY <1>1, SlotFacts
<1>4. Sound(Now)'
  BY <1>1, <1>2, <1>3, BecomeSound
<1> QED  BY <1>1, <1>4 DEF SlotInv

(* The batch that is left after a view is decoded, and none after errors.  *)
LEMMA DecodeViewKeeps ==
  ASSUME SlotInv, NEW c, Tidy(c), mode' = mode, input' = input, DecodeView(c)
  PROVE  SlotInv'
<1>1. PICK ends : Become(Sample(InSlotOrder(ActivateChild, [Working(Placed(c)) EXCEPT !.batch = Rest]), ends))
  BY DEF DecodeView
<1>2. /\ Fits(c) /\ batch' = Rest /\ nBatch' = NBatch
      /\ pc' = IF Rest = <<>> THEN "tasks" ELSE "decode"
  BY DEF DecodeView
<1>3. Rest \in Seq(Ents) /\ Len(Rest) <= BatchSize
  BY ViewFacts, NowTyped, SlotFacts
<1> DEFINE w == [Working(Placed(c)) EXCEPT !.batch = Rest]
           active == InSlotOrder(ActivateChild, w)
<1>4. Sound(w)
  BY <1>2, <1>3, PlacedTidy, WorkingSound
<1> HIDE DEF w
<1>5. Sound(active)
  BY <1>4, ActivationsSound
<1> HIDE DEF active
<1>6. Sound(Sample(active, ends))
  BY <1>5, SampleSound
<1>7. Sound(Now)'
  <2>1. Become(Sample(active, ends))
    BY <1>1 DEF active, w
  <2> QED  BY <1>2, <1>3, <1>6, <2>1, BecomeSound
<1>8. nBatch' \in 1 .. NBatch
  BY <1>2, SlotFacts
<1>9. pc' \in {"tasks", "decode"} /\ (pc' = "tasks" => batch' = <<>>)
  BY <1>2
<1> QED  BY <1>7, <1>8, <1>9 DEF SlotInv

LEMMA LeastPurgeable ==
  ASSUME Purgeable # {}
  PROVE  Min(Purgeable) \in Slots /\ Min(Purgeable) \in Purgeable
<1>1. Purgeable \in SUBSET Nat /\ Purgeable \subseteq Slots
  BY SlotFacts DEF Purgeable
<1>2. \E n \in Purgeable : \A m \in Purgeable : n <= m
  BY <1>1, LeastNatural
<1>3. Min(Purgeable) \in Purgeable
  BY <1>2 DEF Min
<1> QED  BY <1>1, <1>3

LEMMA NoRoomKeeps ==
  ASSUME SlotInv, NEW c, Tidy(c), mode' = mode, input' = input, pc = "decode", NoRoom(c)
  PROVE  SlotInv'
<1>1. Sound(Working(c))
  BY UpdatedSound
<1>2. nBatch \in Nat /\ 1 <= nBatch /\ nBatch <= NBatch /\ NBatch \in Nat
  BY SlotFacts DEF SlotInv
<1>3. CASE GivesUp /\ Become(FailAll(Working(c))) /\ batch' = <<>> /\ pc' = "tasks" /\ nBatch' = nBatch
  <2>1. batch' \in Seq(Ents) /\ Len(batch') <= BatchSize
    BY <1>3, SlotFacts
  <2>2. Sound(Now)'
    BY <1>1, <1>3, <2>1, FailSound, BecomeSound
  <2> QED  BY <1>3, <2>2 DEF SlotInv
<1>4. CASE Purgeable # {} /\ Become(Clear(Working(c), Min(Purgeable))) /\ UNCHANGED <<batch, nBatch, pc>>
  <2>1. Min(Purgeable) \in Slots
    BY <1>4, LeastPurgeable
  <2>2. Sound(Clear(Working(c), Min(Purgeable)))
    BY <1>1, <2>1, ClearSound
  <2>3. Sound(Now)'
    BY <1>4, <2>2, NowTyped, BecomeSound
  <2> QED  BY <1>4, <2>3 DEF SlotInv
<1>5. CASE ~GivesUp /\ Become(Working(c)) /\ nBatch' = nBatch \div 2 /\ UNCHANGED <<batch, pc>>
  <2>1. Sound(Now)'
    BY <1>1, <1>5, NowTyped, BecomeSound
  <2>2. nBatch' \in 1 .. NBatch
    BY <1>2, <1>5 DEF GivesUp
  <2> QED  BY <1>5, <2>1, <2>2 DEF SlotInv
<1> QED  BY <1>3, <1>4, <1>5 DEF NoRoom

LEMMA ComputeFailsKeeps ==
  ASSUME SlotInv, NEW c, Tidy(c), mode' = mode, input' = input, ComputeFails(c)
  PROVE  SlotInv'
<1>1. /\ Become(FailAll(InSlotOrder(RmView, Working(Placed(c)))))
      /\ Fits(c) /\ batch' = <<>> /\ pc' = "tasks" /\ nBatch' = nBatch
  BY DEF ComputeFails
<1>2. Sound(Working(Placed(c)))
  BY <1>1, PlacedTidy, UpdatedSound
<1>3. Sound(InSlotOrder(RmView, Working(Placed(c))))
  BY <1>2, NowTyped, ViewFacts, RmViewsSound
<1>4. Sound(FailAll(InSlotOrder(RmView, Working(Placed(c)))))
  BY <1>3, FailSound
<1>5. batch' \in Seq(Ents) /\ Len(batch') <= BatchSize
  BY <1>1, SlotFacts
<1>6. Sound(Now)'
  BY <1>1, <1>4, <1>5, BecomeSound
<1> QED  BY <1>1, <1>6 DEF SlotInv

---------------------------------------------------------------------------
(* The inductive invariant, and what it says.                              *)

LEMMA SlotInvKept ==
  ASSUME SlotInv, [Next]_vars
  PROVE  SlotInv'
<1>1. CASE Next
  <2>1. ASSUME NEW s \in Slots, Cancel(s)  PROVE SlotInv'
    BY <2>1, CancelKeeps
  <2>2. ASSUME NEW s \in Slots, Erase(s)  PROVE SlotInv'
    BY <2>2, EraseKeeps
  <2>3. ASSUME NEW s \in Slots, NEW p \in Prompts, NEW C \in SUBSET Slots, s \notin C, Launch(s, p, C)
        PROVE  SlotInv'
    BY <2>3, LaunchKeeps
  <2>4. CASE StartPass
    BY <2>4, StartPassKeeps
  <2>5. CASE Decode
    <3>1. pc = "decode" /\ mode' = mode /\ input' = input
      BY <2>5 DEF Decode
    <3>2. InvalidBatch \/ DecodeView(Updated) \/ NoRoom(Updated) \/ ComputeFails(Updated)
      BY <2>5 DEF Decode
    <3>3. Tidy(Updated)
      BY UpdatedTidy
    <3> QED  BY <3>1, <3>2, <3>3, InvalidBatchKeeps, DecodeViewKeeps, NoRoomKeeps, ComputeFailsKeeps
  <2> QED  BY <1>1, <2>1, <2>2, <2>3, <2>4, <2>5 DEF Next
<1>2. CASE UNCHANGED vars
  <2>1. /\ mode' = mode /\ input' = input /\ batch' = batch /\ nBatch' = nBatch /\ pc' = pc
        /\ Now' = Now
    BY <1>2 DEF vars, slotVars, Now
  <2>2. Sound(Now)'
    BY <2>1 DEF SlotInv, Sound, PromptsFit, InputsKnown, PromptsGrow, RowsBased
  <2> QED  BY <2>1, <2>2 DEF SlotInv
<1> QED  BY <1>1, <1>2

LEMMA SlotInvAlways ==
  Spec => []SlotInv
BY SlotInvInit, SlotInvKept, PTL DEF Spec

LEMMA SlotInvTyped ==
  ASSUME SlotInv
  PROVE  TypeOK
<1>1. \A st \in Slots : CellsOK(cells[st])
  <2>1. \A st \in Slots : cells[st] \in GoodCells
    BY NowTyped
  <2> QED  BY <2>1, GoodFields DEF CellsOK
<1>2. \A s \in Slots : prompt[s] \in Seq(Tokens) /\ Len(prompt[s]) <= NCtx
  BY NowTyped, NowFields DEF Sound, PromptsFit
<1>3. /\ copies \in Seq([from : Slots, to : Slots]) /\ batch \in Seq([seq : Slots, pos : Pos, tok : Tokens])
      /\ role \in [Slots -> {"none", "single", "parent", "child"}]
      /\ state \in [Slots -> {"idle", "wait_other", "started", "prompt", "done", "generating"}]
  BY NowTyped DEF StreamCopies, Ents, Roles, States
<1> QED  BY <1>1, <1>2, <1>3, NowTyped DEF TypeOK, SlotInv

(* The state of the slots, the batch and the cells has its type: a prompt  *)
(* never outgrows the context, and a position that the batch asks for is   *)
(* one that the cells can have.                                            *)
THEOREM SlotsTyped ==
  Spec => []TypeOK
<1>1. SlotInv => TypeOK
  BY SlotInvTyped
<1> QED  BY <1>1, SlotInvAlways, PTL

(* What the cells cache about themselves agrees with them through whatever *)
(* the slots do: truncation, shared prompts, shifts, errors and retries.   *)
THEOREM CellsAgreeAlways ==
  Spec => []CellsAlwaysAgree
<1>1. SlotInv => CellsAlwaysAgree
  <2>1. SlotInv => \A st \in Slots : cells[st] \in GoodCells
    BY NowTyped
  <2> QED  BY <2>1, GoodFields DEF CellsAlwaysAgree
<1> QED  BY <1>1, SlotInvAlways, PTL

(* Once update() has made the pending copies and shifts, the row of every  *)
(* occupied cell is rotated to its position, in every stream.              *)
THEOREM RowsAreRotated ==
  Spec => []RowsRotated
<1>1. SlotInv => RowsRotated
  BY UpdatedGood DEF RowsRotated, InPlace
<1> QED  BY <1>1, SlotInvAlways, PTL

(* A pass goes on only while a part of the batch is left.                  *)
LeftToDecode == pc = "decode" => batch # << >>

LEMMA LeftAlways ==
  Spec => []LeftToDecode
<1>1. Init => LeftToDecode
  BY DEF Init, LeftToDecode
<1>2. LeftToDecode /\ [Next]_vars => LeftToDecode'
  <2> SUFFICES ASSUME LeftToDecode, [Next]_vars, pc' = "decode"  PROVE batch' # << >>
    BY DEF LeftToDecode
  <2>1. CASE \E s \in Slots : Cancel(s) \/ Erase(s)
    BY <2>1 DEF Cancel, Erase, LeftToDecode
  <2>2. CASE \E s \in Slots, p \in Prompts, C \in SUBSET Slots : s \notin C /\ Launch(s, p, C)
    BY <2>2 DEF Launch, LeftToDecode
  <2>3. CASE StartPass
    BY <2>3 DEF StartPass
  <2>4. CASE Decode
    <3>1. InvalidBatch \/ DecodeView(Updated) \/ NoRoom(Updated) \/ ComputeFails(Updated)
      BY <2>4 DEF Decode
    <3>2. CASE DecodeView(Updated)
      BY <3>2 DEF DecodeView
    <3>3. CASE NoRoom(Updated)
      BY <3>3, <2>4 DEF NoRoom, LeftToDecode, Decode
    <3>4. CASE ComputeFails(Updated)
      BY <3>4 DEF ComputeFails
    <3>5. CASE InvalidBatch
      BY <3>5 DEF InvalidBatch
    <3> QED  BY <3>1, <3>2, <3>3, <3>4, <3>5
  <2>5. CASE UNCHANGED vars
    BY <2>5 DEF vars, LeftToDecode
  <2> QED  BY <2>1, <2>2, <2>3, <2>4, <2>5 DEF Next
<1> QED  BY <1>1, <1>2, PTL DEF Spec

(* A round of the loop over a batch makes it shorter, halves n_batch, or   *)
(* purges an idle slot that keeps nothing from then on.                    *)
RoundLeads ==
  pc = "decode" /\ pc' = "decode" =>
    \/ Len(batch') < Len(batch)
    \/ batch' = batch /\ nBatch' < nBatch
    \/ batch' = batch /\ nBatch' = nBatch
       /\ Purgeable' \subseteq Purgeable /\ Purgeable' # Purgeable

LEMMA PurgeLeads ==
  ASSUME SlotInv, NEW c, Tidy(c), mode' = mode, Purgeable # {},
         Become(Clear(Working(c), Min(Purgeable)))
  PROVE  Purgeable' \subseteq Purgeable /\ Purgeable' # Purgeable
<1> DEFINE m == Min(Purgeable)
           v == Clear(Working(c), m)
<1>1. m \in Slots /\ m \in Purgeable
  BY LeastPurgeable
<1>2. OnlyCleared(Working(c), v, m)
  BY <1>1, UpdatedSound, ClearSound
<1>3. Working(c).state = state /\ Working(c).prompt = prompt
  BY DEF Working, Now
<1> HIDE DEF m
<1>4. state' = state /\ prompt' = [prompt EXCEPT ![m] = << >>]
  BY <1>2, <1>3 DEF Become, OnlyCleared, SameSlots, m
<1>5. prompt'[m] = << >> /\ \A s \in Slots : s # m => prompt'[s] = prompt[s]
  BY <1>1, <1>4, NowTyped
<1>6. m \notin Purgeable'
  BY <1>5 DEF Purgeable
<1>7. Purgeable' \subseteq Purgeable
  BY <1>4, <1>5 DEF Purgeable
<1> QED  BY <1>1, <1>6, <1>7

LEMMA RoundsLeadStep ==
  ASSUME SlotInv, LeftToDecode, Next
  PROVE  RoundLeads
<1> SUFFICES ASSUME pc = "decode", pc' = "decode"
             PROVE  \/ Len(batch') < Len(batch)
                    \/ batch' = batch /\ nBatch' < nBatch
                    \/ batch' = batch /\ nBatch' = nBatch
                       /\ Purgeable' \subseteq Purgeable /\ Purgeable' # Purgeable
  BY DEF RoundLeads
<1>1. nBatch \in Nat /\ 1 <= nBatch
  BY SlotFacts DEF SlotInv
<1>2. PICK c : c = Updated /\ (DecodeView(c) \/ NoRoom(c) \/ ComputeFails(c)) /\ mode' = mode
  <2>1. Decode
    BY DEF Next, Cancel, Erase, Launch, StartPass
  <2> QED  BY <2>1 DEF Decode, InvalidBatch
<1>3. CASE DecodeView(c)
  <2> DEFINE m == Len(batch)
  <2>1. m \in Nat /\ m # 0
    BY NowTyped DEF LeftToDecode
  <2>2. NView = IF nBatch <= m THEN nBatch ELSE m
    BY <1>1, <2>1, MinOfTwo DEF NView
  <2>3. Len(Rest) = m - NView
    BY ViewFacts
  <2>4. Len(batch') = Len(Rest)
    BY <1>3 DEF DecodeView
  <2> HIDE DEF m
  <2>5. Len(batch') < m
    BY <1>1, <2>1, <2>2, <2>3, <2>4
  <2> QED  BY <2>5 DEF m
<1>4. CASE NoRoom(c)
  <2>1. CASE Purgeable # {} /\ Become(Clear(Working(c), Min(Purgeable))) /\ UNCHANGED <<batch, nBatch, pc>>
    BY <1>2, <2>1, UpdatedTidy, PurgeLeads
  <2>2. CASE ~GivesUp /\ nBatch' = nBatch \div 2 /\ UNCHANGED <<batch, pc>>
    <3>1. nBatch' < nBatch
      BY <1>1, <2>2
    <3> QED  BY <2>2, <3>1
  <2> QED  BY <1>4, <2>1, <2>2 DEF NoRoom
<1> QED  BY <1>2, <1>3, <1>4 DEF ComputeFails

(* The loop over a batch ends: no round leaves the batch, n_batch and the  *)
(* slots to purge as they were.                                            *)
THEOREM EveryRoundLeads ==
  Spec => RoundsLead
<1>1. SlotInv /\ LeftToDecode /\ [Next]_vars => [RoundLeads]_vars
  BY RoundsLeadStep
<1>2. Spec => [][RoundLeads]_vars
  BY <1>1, SlotInvAlways, LeftAlways, PTL DEF Spec
<1> QED  BY <1>2 DEF RoundsLead, RoundLeads

---------------------------------------------------------------------------
(* A slot whose cells nobody shares has its prompt: the first n tokens in   *)
(* its cells, each once, and the others in the batch, in order.            *)

CellsHold(c, s, p, n) ==
  /\ \A i \in Idx : s \in c.seq[i] => c.pos[i] \in 0 .. n - 1 /\ c.k[i].tok = p[c.pos[i] + 1]
  /\ \A x \in 0 .. n - 1 : \E i \in Idx : s \in c.seq[i] /\ c.pos[i] = x
  /\ \A i, j \in Idx : s \in c.seq[i] /\ s \in c.seq[j] /\ c.pos[i] = c.pos[j] => i = j

BatchHolds(b, s, p, n) ==
  /\ \A j \in 1 .. Len(b) : b[j].seq = s => b[j].pos \in n .. Len(p) - 1 /\ b[j].tok = p[b[j].pos + 1]
  /\ \A x \in n .. Len(p) - 1 : \E j \in 1 .. Len(b) : b[j].seq = s /\ b[j].pos = x
  /\ \A i, j \in 1 .. Len(b) : b[i].seq = s /\ b[j].seq = s /\ i < j => b[i].pos < b[j].pos

Alone(c) == \A i \in Idx : \A s, t \in c.seq[i] : s = t

(* For the cells of s nothing changes from c to d.                         *)
SameFor(c, d, s) ==
  \A i \in Idx : /\ s \in d.seq[i] <=> s \in c.seq[i]
                 /\ s \in c.seq[i] => d.pos[i] = c.pos[i] /\ d.k[i].tok = c.k[i].tok

LEMMA SameHolds ==
  ASSUME NEW c, NEW d, NEW s, SameFor(c, d, s), NEW p, NEW n, CellsHold(c, s, p, n)
  PROVE  CellsHold(d, s, p, n)
<1>1. \A i \in Idx : s \in d.seq[i] => d.pos[i] \in 0 .. n - 1 /\ d.k[i].tok = p[d.pos[i] + 1]
  BY DEF SameFor, CellsHold
<1>2. \A x \in 0 .. n - 1 : \E i \in Idx : s \in d.seq[i] /\ d.pos[i] = x
  BY DEF SameFor, CellsHold
<1>3. \A i, j \in Idx : s \in d.seq[i] /\ s \in d.seq[j] /\ d.pos[i] = d.pos[j] => i = j
  BY DEF SameFor, CellsHold
<1> QED  BY <1>1, <1>2, <1>3 DEF CellsHold

(* seq_rm(), cell by cell.                                                 *)
LEMMA RmFields ==
  ASSUME NEW c \in GoodCells, NEW s \in Seqs, NEW p0 \in Int, NEW p1 \in Int, NEW i \in Idx
  PROVE  /\ SeqRm(c, s, p0, p1).k = c.k /\ SeqRm(c, s, p0, p1).seq[i] \subseteq c.seq[i]
         /\ \A t : t \in SeqRm(c, s, p0, p1).seq[i] <=>
                     t \in c.seq[i] /\ ~(t = s /\ p0 <= c.pos[i] /\ c.pos[i] < p1)
         /\ \A t : t \in SeqRm(c, s, p0, p1).seq[i] => SeqRm(c, s, p0, p1).pos[i] = c.pos[i]
<1> DEFINE T == Held(c, s, p0, p1)
           freed == {j \in T : c.seq[j] = {s}}
           d == SeqRm(c, s, p0, p1)
<1>1. /\ d.k = c.k /\ d.seq[i] = IF i \in T THEN c.seq[i] \ {s} ELSE c.seq[i]
      /\ d.pos[i] = IF i \in freed THEN -1 ELSE c.pos[i]
  BY GoodFields DEF SeqRm, IsCells
<1>2. i \in T <=> s \in c.seq[i] /\ p0 <= c.pos[i] /\ c.pos[i] < p1
  BY DEF Held
<1>3. i \in freed => i \in T /\ c.seq[i] = {s}
  OBVIOUS
<1> HIDE DEF T, freed, d
<1>4. d.seq[i] \subseteq c.seq[i]
  BY <1>1
<1>5. \A t : t \in d.seq[i] <=> t \in c.seq[i] /\ ~(t = s /\ p0 <= c.pos[i] /\ c.pos[i] < p1)
  BY <1>1, <1>2
<1>6. \A t : t \in d.seq[i] => d.pos[i] = c.pos[i]
  BY <1>1, <1>3
<1> QED  BY <1>1, <1>4, <1>5, <1>6 DEF d

LEMMA RmAlone ==
  ASSUME NEW c \in GoodCells, NEW s \in Seqs, NEW p0 \in Int, NEW p1 \in Int, Alone(c)
  PROVE  /\ Alone(SeqRm(c, s, p0, p1))
         /\ \A t \in Seqs : t # s => SameFor(c, SeqRm(c, s, p0, p1), t)
BY RmFields DEF Alone, SameFor

(* The cells of s from position m on are removed.                          *)
LEMMA RmCuts ==
  ASSUME NEW c \in GoodCells, NEW s \in Seqs, NEW p, NEW n \in Nat, CellsHold(c, s, p, n),
         NEW m \in 0 .. n, NEW q, \A x \in 0 .. m - 1 : q[x + 1] = p[x + 1]
  PROVE  CellsHold(SeqRm(c, s, m, Infinity), s, q, m)
<1> DEFINE d == SeqRm(c, s, m, Infinity)
<1>0. m \in Int /\ Infinity \in Int /\ m \in Nat /\ m <= n
  BY PosFacts
<1>1. \A i \in Idx : d.k = c.k /\ (s \in d.seq[i] <=> s \in c.seq[i] /\ ~(m <= c.pos[i] /\ c.pos[i] < Infinity))
  BY <1>0, RmFields
<1>2. \A i \in Idx : s \in d.seq[i] => d.pos[i] = c.pos[i]
  BY <1>0, RmFields
<1>3. \A i \in Idx : s \in c.seq[i] => c.pos[i] \in Int /\ 0 <= c.pos[i] /\ c.pos[i] < n /\ c.pos[i] < Infinity
                                       /\ c.k[i].tok = p[c.pos[i] + 1]
  <2>1. \A i \in Idx : c.pos[i] \in Pos \cup {-1}
    BY GoodFields
  <2> QED  BY <2>1, PosFacts DEF CellsHold
<1> HIDE DEF d
<1>4. \A i \in Idx : s \in d.seq[i] <=> s \in c.seq[i] /\ c.pos[i] < m
  BY <1>0, <1>1, <1>3
<1>5. \A i \in Idx : s \in d.seq[i] => d.pos[i] \in 0 .. m - 1 /\ d.k[i].tok = q[d.pos[i] + 1]
  BY <1>0, <1>1, <1>2, <1>3, <1>4
<1>6. \A x \in 0 .. m - 1 : \E i \in Idx : s \in d.seq[i] /\ d.pos[i] = x
  <2> TAKE x \in 0 .. m - 1
  <2>1. x \in 0 .. n - 1 /\ x < m
    BY <1>0
  <2>2. PICK i \in Idx : s \in c.seq[i] /\ c.pos[i] = x
    BY <2>1 DEF CellsHold
  <2> QED  BY <1>2, <1>4, <2>1, <2>2
<1>7. \A i, j \in Idx : s \in d.seq[i] /\ s \in d.seq[j] /\ d.pos[i] = d.pos[j] => i = j
  BY <1>2, <1>4 DEF CellsHold
<1> QED  BY <1>5, <1>6, <1>7 DEF CellsHold, d

(* seq_add() that moves no cell below 0, cell by cell.                     *)
LEMMA AddFields ==
  ASSUME NEW c \in GoodCells, NEW s \in Seqs, NEW p0 \in Nat, NEW p1 \in Int, NEW n \in Int,
         0 <= p0 + n, NEW i \in Idx
  PROVE  /\ SeqAdd(c, s, p0, p1, n).k = c.k /\ SeqAdd(c, s, p0, p1, n).seq[i] = c.seq[i]
         /\ SeqAdd(c, s, p0, p1, n).pos[i] =
              IF s \in c.seq[i] /\ p0 <= c.pos[i] /\ c.pos[i] < p1 THEN c.pos[i] + n ELSE c.pos[i]
<1> DEFINE T == Held(c, s, p0, p1)
           freed == {j \in T : c.pos[j] + n < 0}
           moved == T \ freed
           d == SeqAdd(c, s, p0, p1, n)
<1>1. /\ d.k = c.k /\ d.seq[i] = IF i \in freed THEN {} ELSE c.seq[i]
      /\ d.pos[i] = IF i \in freed THEN -1 ELSE IF i \in moved THEN c.pos[i] + n ELSE c.pos[i]
  BY GoodFields DEF SeqAdd, IsCells
<1>2. i \in T <=> s \in c.seq[i] /\ p0 <= c.pos[i] /\ c.pos[i] < p1
  BY DEF Held
<1>3. i \notin freed
  <2>1. c.pos[i] \in Int
    BY GoodFields, PosFacts
  <2>2. i \in T => ~(c.pos[i] + n < 0)
    <3> HIDE DEF T
    <3> QED  BY <1>2, <2>1
  <2> QED  BY <2>2
<1>4. i \in moved <=> i \in T
  BY <1>3
<1> HIDE DEF T, freed, moved, d
<1> QED  BY <1>1, <1>2, <1>3, <1>4 DEF d

LEMMA AddAlone ==
  ASSUME NEW c \in GoodCells, NEW s \in Seqs, NEW p0 \in Nat, NEW p1 \in Int, NEW n \in Int,
         0 <= p0 + n, Alone(c)
  PROVE  /\ Alone(SeqAdd(c, s, p0, p1, n))
         /\ \A t \in Seqs : t # s => SameFor(c, SeqAdd(c, s, p0, p1, n), t)
BY AddFields DEF Alone, SameFor

(* A prompt without its middle part, token by token.                       *)
Without(p, keep, g) == SubSeq(p, 1, keep) \o SubSeq(p, keep + g + 1, Len(p))

LEMMA MiddleTokens ==
  ASSUME NEW p \in Seq(Tokens), NEW keep \in Nat, NEW g \in Nat, keep + g <= Len(p)
  PROVE  /\ \A x \in 0 .. keep - 1 : Without(p, keep, g)[x + 1] = p[x + 1]
         /\ \A x \in keep .. Len(p) - g - 1 : Without(p, keep, g)[x + 1] = p[x + g + 1]
<1> DEFINE q == Without(p, keep, g)
           a == SubSeq(p, 1, keep)
           b == SubSeq(p, keep + g + 1, Len(p))
           n == Len(p)
<1>1. n \in Nat /\ keep <= n /\ keep + g + 1 \in 1 .. n + 1
  OBVIOUS
<1>2. a \in Seq(Tokens) /\ Len(a) = keep /\ \A i \in 1 .. keep : a[i] = p[i]
  BY <1>1
<1>3. b \in Seq(Tokens) /\ Len(b) = n - (keep + g)
      /\ \A i \in 1 .. n - (keep + g) : b[i] = p[keep + g + i]
  BY <1>1
<1>4. q = a \o b
  BY DEF Without
<1> HIDE DEF a, b, n, q
<1>5. \A i \in 1 .. keep : q[i] = a[i]
  <2>1. \A i \in 1 .. Len(a) : q[i] = a[i]
    BY <1>2, <1>3, <1>4
  <2> QED  BY <1>2, <2>1
<1>6. \A i \in 1 .. n - (keep + g) : q[keep + i] = b[i]
  <2>1. ASSUME NEW i \in 1 .. Len(b)  PROVE (a \o b)[Len(a) + i] = b[i]
    <3>1. Len(a) + i \in 1 .. Len(a) + Len(b) /\ ~(Len(a) + i <= Len(a)) /\ (Len(a) + i) - Len(a) = i
      BY <1>2, <1>3
    <3> QED  BY <1>2, <1>3, <3>1
  <2> QED  BY <1>2, <1>3, <1>4, <2>1
<1>7. ASSUME NEW x \in 0 .. keep - 1  PROVE q[x + 1] = p[x + 1]
  <2>1. x + 1 \in 1 .. keep
    OBVIOUS
  <2> QED  BY <1>2, <1>5, <2>1
<1>8. ASSUME NEW x \in keep .. n - g - 1  PROVE q[x + 1] = p[x + g + 1]
  <2> DEFINE i == x + 1 - keep
  <2>1. i \in 1 .. n - (keep + g) /\ keep + i = x + 1 /\ keep + g + i = x + g + 1
    BY <1>1
  <2> HIDE DEF i
  <2>2. q[keep + i] = b[i] /\ b[i] = p[keep + g + i]
    BY <1>3, <1>6, <2>1
  <2> QED  BY <2>1, <2>2
<1> QED  BY <1>7, <1>8 DEF n, q

(* A context shift: g tokens from keep on go, and those behind move down.   *)
LEMMA ShiftHolds ==
  ASSUME NEW c \in GoodCells, NEW s \in Seqs, Alone(c), NEW p \in Seq(Tokens),
         CellsHold(c, s, p, Len(p)), NEW keep \in Nat, NEW g \in Nat, keep + g <= Len(p),
         NEW b, b = SeqRm(c, s, keep, keep + g), NEW d, d = SeqAdd(b, s, keep + g, Len(p), - g)
  PROVE  /\ CellsHold(d, s, Without(p, keep, g), Len(p) - g)
         /\ Alone(d) /\ \A t \in Seqs : t # s => SameFor(c, d, t)
<1> DEFINE n == Len(p)
           q == Without(p, keep, g)
           e == - g
           kg == keep + g
<1>0. e \in Int /\ 0 <= kg + e /\ \A y \in Int : y + e = y - g
  OBVIOUS
<1>1. n \in Nat /\ keep \in Int /\ kg \in Nat /\ kg \in Int /\ kg <= n /\ kg = keep + g
  OBVIOUS
<1>2. b \in GoodCells /\ Alone(b) /\ \A t \in Seqs : t # s => SameFor(c, b, t)
  BY <1>1, SeqRmGood, RmAlone
<1>3. Alone(d) /\ \A t \in Seqs : t # s => SameFor(b, d, t)
  <2> HIDE DEF n, e, kg
  <2>1. d = SeqAdd(b, s, kg, n, e)
    BY DEF kg, n, e
  <2> QED  BY <1>0, <1>1, <1>2, <2>1, AddAlone
<1>4. \A t \in Seqs : t # s => SameFor(c, d, t)
  BY <1>2, <1>3 DEF SameFor
<1>6. \A i \in Idx : s \in c.seq[i] => c.pos[i] \in 0 .. n - 1 /\ c.k[i].tok = p[c.pos[i] + 1]
  BY DEF CellsHold
<1>5. ASSUME NEW i \in Idx
      PROVE  /\ s \in d.seq[i] <=> s \in c.seq[i] /\ ~(keep <= c.pos[i] /\ c.pos[i] < kg)
             /\ s \in d.seq[i] => d.pos[i] = IF kg <= c.pos[i] THEN c.pos[i] - g ELSE c.pos[i]
             /\ d.k = c.k
  <2> HIDE DEF n, e, kg
  <2>1. b = SeqRm(c, s, keep, kg) /\ d = SeqAdd(b, s, kg, n, e)
    BY DEF kg, n, e
  <2>2. /\ b.k = c.k /\ (s \in b.seq[i] <=> s \in c.seq[i] /\ ~(keep <= c.pos[i] /\ c.pos[i] < kg))
        /\ s \in b.seq[i] => b.pos[i] = c.pos[i]
    BY <1>1, <2>1, RmFields
  <2>3. /\ d.k = b.k /\ d.seq[i] = b.seq[i]
        /\ d.pos[i] = IF s \in b.seq[i] /\ kg <= b.pos[i] /\ b.pos[i] < n THEN b.pos[i] + e ELSE b.pos[i]
    BY <1>0, <1>1, <1>2, <2>1, AddFields
  <2>4. s \in c.seq[i] => c.pos[i] \in Int /\ c.pos[i] < n
    BY <1>1, <1>6
  <2>5. c.pos[i] \in Int => c.pos[i] + e = c.pos[i] - g
    BY <1>0
  <2> QED  BY <2>2, <2>3, <2>4, <2>5
<1> HIDE DEF n, e, kg, q
<1>7. \A x \in 0 .. n - 1 : \E i \in Idx : s \in c.seq[i] /\ c.pos[i] = x
  BY DEF CellsHold, n
<1>8. \A i, j \in Idx : s \in c.seq[i] /\ s \in c.seq[j] /\ c.pos[i] = c.pos[j] => i = j
  BY DEF CellsHold, n
<1>9. /\ \A x \in 0 .. keep - 1 : q[x + 1] = p[x + 1]
      /\ \A x \in keep .. n - g - 1 : q[x + 1] = p[x + g + 1]
  BY MiddleTokens DEF n, q
<1>10. ASSUME NEW i \in Idx, s \in d.seq[i]
       PROVE  d.pos[i] \in 0 .. (n - g) - 1 /\ d.k[i].tok = q[d.pos[i] + 1]
  <2>1. c.pos[i] \in 0 .. n - 1 /\ c.k[i].tok = p[c.pos[i] + 1] /\ d.k = c.k
    BY <1>5, <1>6, <1>10
  <2> DEFINE y == c.pos[i]
  <2>2. y \in 0 .. n - 1 /\ d.k[i].tok = p[y + 1] /\ ~(keep <= y /\ y < kg)
        /\ d.pos[i] = IF kg <= y THEN y - g ELSE y
    BY <1>5, <1>10, <2>1
  <2> HIDE DEF y
  <2>3. CASE kg <= y
    <3>1. y - g \in keep .. n - g - 1 /\ (y - g) + g + 1 = y + 1 /\ y - g \in 0 .. (n - g) - 1
      BY <1>1, <2>2, <2>3
    <3>2. q[(y - g) + 1] = p[(y - g) + g + 1]
      BY <1>9, <3>1
    <3> QED  BY <2>2, <2>3, <3>1, <3>2
  <2>4. CASE ~(kg <= y)
    <3>1. y \in Int /\ 0 <= y /\ y < keep /\ keep <= n - g
      BY <1>1, <2>2, <2>4
    <3>2. y \in 0 .. keep - 1 /\ y \in 0 .. (n - g) - 1
      BY <1>1, <3>1
    <3> QED  BY <1>9, <2>2, <2>4, <3>2
  <2> QED  BY <2>3, <2>4
<1>11. ASSUME NEW x \in 0 .. (n - g) - 1  PROVE \E i \in Idx : s \in d.seq[i] /\ d.pos[i] = x
  <2>1. CASE x < keep
    <3>1. x \in 0 .. n - 1 /\ ~(kg <= x) /\ ~(keep <= x)
      BY <1>1, <2>1
    <3>2. PICK i \in Idx : s \in c.seq[i] /\ c.pos[i] = x
      BY <1>7, <3>1
    <3> QED  BY <1>5, <3>1, <3>2
  <2>2. CASE ~(x < keep)
    <3>1. x + g \in 0 .. n - 1 /\ kg <= x + g /\ ~(x + g < kg) /\ (x + g) - g = x
      BY <1>1, <2>2
    <3>2. PICK i \in Idx : s \in c.seq[i] /\ c.pos[i] = x + g
      BY <1>7, <3>1
    <3> QED  BY <1>5, <3>1, <3>2
  <2> QED  BY <2>1, <2>2
<1>12. ASSUME NEW i \in Idx, NEW j \in Idx, s \in d.seq[i], s \in d.seq[j], d.pos[i] = d.pos[j]  PROVE i = j
  <2> DEFINE y == c.pos[i]
             z == c.pos[j]
  <2>1. /\ s \in c.seq[i] /\ s \in c.seq[j] /\ y \in 0 .. n - 1 /\ z \in 0 .. n - 1
        /\ ~(keep <= y /\ y < kg) /\ ~(keep <= z /\ z < kg)
        /\ (IF kg <= y THEN y - g ELSE y) = (IF kg <= z THEN z - g ELSE z)
    BY <1>5, <1>6, <1>12
  <2>2. y = z
    <3> HIDE DEF y, z
    <3> QED  BY <1>1, <2>1
  <2> QED  BY <1>8, <2>1, <2>2
<1>13. CellsHold(d, s, q, n - g)
  BY <1>10, <1>11, <1>12 DEF CellsHold
<1> QED  BY <1>3, <1>4, <1>13 DEF n, q

(* Nth() enumerates a set, each element once.                              *)
LEMMA NthAll ==
  ASSUME NEW S \in SUBSET Nat, IsFiniteSet(S)
  PROVE  /\ \A m, n \in 1 .. Cardinality(S) : Nth(S, m) = Nth(S, n) => m = n
         /\ \A x \in S : \E n \in 1 .. Cardinality(S) : Nth(S, n) = x
<1> DEFINE Below(x) == {y \in S : y < x}
           c == Cardinality(S)
<1>1. c \in Nat
  BY FS_CardinalityType
<1>2. ASSUME NEW n \in 1 .. c
      PROVE  Nth(S, n) \in S /\ Cardinality(Below(Nth(S, n))) = n - 1
  BY NthFound
<1>3. ASSUME NEW x \in S  PROVE IsFiniteSet(Below(x)) /\ Cardinality(Below(x)) \in 0 .. c - 1
  <2>1. Below(x) \subseteq S /\ Below(x) # S
    OBVIOUS
  <2> HIDE DEF Below
  <2>2. IsFiniteSet(Below(x)) /\ Cardinality(Below(x)) <= c /\ Cardinality(Below(x)) # c
    BY <2>1, FS_Subset
  <2>3. Cardinality(Below(x)) \in Nat
    BY <2>2, FS_CardinalityType
  <2> HIDE DEF c
  <2> QED  BY <1>1, <2>2, <2>3
<1>4. ASSUME NEW x \in S, NEW y \in S, Cardinality(Below(x)) = Cardinality(Below(y))  PROVE ~(x < y)
  <2>0. SUFFICES ASSUME x < y  PROVE FALSE
    OBVIOUS
  <2>1. Below(x) \subseteq Below(y) /\ x \in Below(y) /\ x \notin Below(x)
    <3>1. x \in Int /\ y \in Int /\ \A z \in S : z \in Int
      OBVIOUS
    <3>2. x \in Below(y)
      BY <2>0
    <3>3. x \notin Below(x)
      <4>1. ~(x < x)
        BY <3>1
      <4> QED  BY <4>1
    <3>4. \A z \in S : z < x => z < y
      <4> HIDE DEF Below
      <4> QED  BY <2>0, <3>1
    <3>5. Below(x) \subseteq Below(y)
      BY <3>4
    <3> HIDE DEF Below
    <3> QED  BY <3>2, <3>3, <3>5
  <2>2. IsFiniteSet(Below(y))
    BY <1>3
  <2> HIDE DEF Below
  <2>3. Cardinality(Below(x)) # Cardinality(Below(y))
    BY <2>1, <2>2, FS_Subset
  <2> QED  BY <1>4, <2>3
<1> HIDE DEF c, Below
<1>5. ASSUME NEW m \in 1 .. c, NEW n \in 1 .. c, Nth(S, m) = Nth(S, n)  PROVE m = n
  <2>1. m - 1 = n - 1
    BY <1>2, <1>5
  <2> QED  BY <1>1, <2>1
<1>6. ASSUME NEW x \in S  PROVE \E n \in 1 .. c : Nth(S, n) = x
  <2> DEFINE n == Cardinality(Below(x)) + 1
  <2>1. n \in 1 .. c /\ n - 1 = Cardinality(Below(x))
    BY <1>1, <1>3
  <2> HIDE DEF n
  <2> DEFINE z == Nth(S, n)
  <2>2. z \in S /\ Cardinality(Below(z)) = Cardinality(Below(x))
    BY <1>2, <2>1
  <2> HIDE DEF z
  <2>3. ~(z < x) /\ ~(x < z)
    BY <1>4, <2>2
  <2>4. z = x
    <3>1. z \in Nat /\ x \in Nat
      BY <2>2
    <3> QED  BY <2>3, <3>1
  <2> QED  BY <2>1, <2>4 DEF z
<1> QED  BY <1>5, <1>6 DEF c

(* Numbers less than m apart have different remainders.                    *)
LEMMA ModOnce ==
  ASSUME NEW m \in Nat \ {0}, NEW f \in Nat, NEW a \in Nat, NEW b \in Nat, a < m, b < m,
         (f + a) % m = (f + b) % m
  PROVE  a = b
<1> DEFINE qa == (f + a) \div m
           qb == (f + b) \div m
           r == (f + a) % m
<1>1. qa \in Int /\ qb \in Int /\ r \in Int /\ f + a = qa * m + r /\ f + b = qb * m + r
  OBVIOUS
<1> HIDE DEF qa, qb, r
<1>2. a - b = (qa - qb) * m
  BY <1>1
<1> DEFINE k == qa - qb
<1>3. k \in Int /\ a - b = k * m /\ a - b < m /\ b - a < m
  BY <1>1, <1>2
<1> HIDE DEF k
<1>4. ~(k >= 1)
  <2>1. k >= 1 => k * m >= m
    BY <1>3
  <2> QED  BY <1>3, <2>1
<1>5. ~(k <= -1)
  <2>1. k <= -1 => k * m <= - m
    BY <1>3
  <2> QED  BY <1>3, <2>1
<1>6. k = 0
  BY <1>3, <1>4, <1>5
<1> QED  BY <1>3, <1>6

(* find_slot() finds each cell once.                                       *)
LEMMA FoundOnce ==
  ASSUME NEW c \in GoodCells, NEW n \in Nat, Len(FindSlot(c, n)) = n, NEW i \in 1 .. n, NEW j \in 1 .. n,
         FindSlot(c, n)[i] = FindSlot(c, n)[j]
  PROVE  i = j
<1> DEFINE from == IF c.head > Cardinality(c.used) + 2 * n THEN 0 ELSE c.head
           free == {d \in Idx : (from + d) % Size \in Empty(c)}
<1>1. free \subseteq Idx
  OBVIOUS
<1>2. free \in SUBSET Nat /\ IsFiniteSet(free) /\ Cardinality(free) \in Nat
  <2> HIDE DEF free
  <2>1. Idx \in SUBSET Nat
    BY DEF Idx
  <2> QED  BY <1>1, <2>1, IdxFinite
<1>3. FindSlot(c, n) = IF Cardinality(free) < n THEN <<>>
                       ELSE [k \in 1 .. n |-> (from + Nth(free, k)) % Size]
  BY DEF FindSlot
<1>4. from \in Nat
  <2>1. c.head \in 0 .. Size
    BY GoodFields
  <2> QED  BY <2>1, PosFacts
<1> HIDE DEF free, from
<1>5. ~(Cardinality(free) < n)
  <2>1. SUFFICES ASSUME Cardinality(free) < n  PROVE FALSE
    OBVIOUS
  <2>2. FindSlot(c, n) = <<>>
    BY <1>3, <2>1
  <2>3. n = 0
    BY <2>2
  <2> QED  BY <2>3
<1>6. i \in 1 .. Cardinality(free) /\ j \in 1 .. Cardinality(free)
  BY <1>2, <1>5
<1> DEFINE a == Nth(free, i)
           b == Nth(free, j)
<1>7. a \in Idx /\ b \in Idx
  BY <1>1, <1>2, <1>6, NthFound
<1>8. (from + a) % Size = (from + b) % Size
  BY <1>3, <1>5
<1>9. a = b
  <2> HIDE DEF a, b
  <2>1. a \in Nat /\ b \in Nat /\ a < Size /\ b < Size
    BY <1>7, PosFacts DEF Idx
  <2> QED  BY <1>4, <1>8, <2>1, PosFacts, ModOnce
<1> QED  BY <1>2, <1>6, <1>9, NthAll

(* The entries of ub are those of t at the positions from n to m - 1.      *)
UbHolds(ub, t, p, n, m) ==
  /\ \A j \in 1 .. Len(ub) : ub[j].seq = t => ub[j].pos \in n .. m - 1 /\ ub[j].tok = p[ub[j].pos + 1]
  /\ \A x \in n .. m - 1 : \E j \in 1 .. Len(ub) : ub[j].seq = t /\ ub[j].pos = x
  /\ \A i, j \in 1 .. Len(ub) : ub[i].seq = t /\ ub[j].seq = t /\ ub[i].pos = ub[j].pos => i = j

(* apply_ubatch(), cell by cell, when each entry has a cell of its own.     *)
FilledBy(c, d, ub, i, j) ==
  d.seq[i] = {ub[j].seq} /\ d.pos[i] = ub[j].pos /\ d.k[i].tok = ub[j].tok /\ c.seq[i] = {}

LeftAlone(c, d, i) == d.seq[i] = c.seq[i] /\ d.pos[i] = c.pos[i] /\ d.k[i] = c.k[i]

LEMMA PlaceFields ==
  ASSUME NEW c \in GoodCells, NEW slot, NEW ub, Len(ub) \in Nat,
         \A j \in 1 .. Len(ub) : slot[j] \in Empty(c),
         \A i, j \in 1 .. Len(ub) : slot[i] = slot[j] => i = j,
         NEW d, d = Place(c, slot, ub)
  PROVE  /\ \A j \in 1 .. Len(ub) : slot[j] \in Idx /\ FilledBy(c, d, ub, slot[j], j)
         /\ \A i \in Idx : LeftAlone(c, d, i) \/ \E j \in 1 .. Len(ub) : slot[j] = i
<1> DEFINE filled == {slot[j] : j \in 1 .. Len(ub)}
           put == [i \in filled |-> ub[CHOOSE j \in 1 .. Len(ub) : slot[j] = i]]
<1>1. /\ \A i \in Idx : d.pos[i] = IF i \in filled THEN put[i].pos ELSE c.pos[i]
      /\ \A i \in Idx : d.seq[i] = IF i \in filled THEN {put[i].seq} ELSE c.seq[i]
      /\ \A i \in Idx : d.k[i] = IF i \in filled THEN Row(put[i].tok, put[i].pos) ELSE c.k[i]
  <2> HIDE DEF filled, put
  <2>1. d = [c EXCEPT
        !.pos   = [i \in Idx |-> IF i \in filled THEN put[i].pos ELSE c.pos[i]],
        !.seq   = [i \in Idx |-> IF i \in filled THEN {put[i].seq} ELSE c.seq[i]],
        !.k     = [i \in Idx |-> IF i \in filled THEN Row(put[i].tok, put[i].pos) ELSE c.k[i]],
        !.used  = c.used \cup filled,
        !.count = [s \in Seqs |-> [p \in Pos |-> c.count[s][p]
                     + Cardinality({i \in filled : put[i].seq = s /\ put[i].pos = p})]],
        !.head  = slot[Len(ub)] + 1]
    BY DEF Place, filled, put
  <2> DEFINE cn == [s \in Seqs |-> [p \in Pos |-> c.count[s][p]
                     + Cardinality({i \in filled : put[i].seq = s /\ put[i].pos = p})]]
             hd == slot[Len(ub)] + 1
  <2> HIDE DEF cn, hd
  <2>2. d = [c EXCEPT
        !.pos   = [i \in Idx |-> IF i \in filled THEN put[i].pos ELSE c.pos[i]],
        !.seq   = [i \in Idx |-> IF i \in filled THEN {put[i].seq} ELSE c.seq[i]],
        !.k     = [i \in Idx |-> IF i \in filled THEN Row(put[i].tok, put[i].pos) ELSE c.k[i]],
        !.used  = c.used \cup filled, !.count = cn, !.head = hd]
    BY <2>1 DEF cn, hd
  <2> QED  BY <2>2, GoodFields DEF CellSet
<1>2. ASSUME NEW j \in 1 .. Len(ub)  PROVE slot[j] \in filled /\ put[slot[j]] = ub[j]
  <2> DEFINE k == CHOOSE k \in 1 .. Len(ub) : slot[k] = slot[j]
  <2>1. k \in 1 .. Len(ub) /\ slot[k] = slot[j]
    OBVIOUS
  <2>2. slot[j] \in filled /\ put[slot[j]] = ub[k]
    OBVIOUS
  <2> HIDE DEF k, put, filled
  <2> QED  BY <2>1, <2>2
<1>3. \A i \in filled : \E j \in 1 .. Len(ub) : slot[j] = i
  OBVIOUS
<1> HIDE DEF filled, put
<1>4. ASSUME NEW j \in 1 .. Len(ub)  PROVE slot[j] \in Idx /\ FilledBy(c, d, ub, slot[j], j)
  <2>1. slot[j] \in Idx /\ slot[j] \notin c.used
    BY DEF Empty
  <2>2. c.seq[slot[j]] = {}
    BY <2>1, GoodFields DEF CellsAgree
  <2> DEFINE i == slot[j]
             e == ub[j]
  <2>3. i \in Idx /\ i \in filled /\ put[i] = e /\ c.seq[i] = {}
    BY <1>2, <2>1, <2>2
  <2> HIDE DEF i, e
  <2>4. d.seq[i] = {e.seq} /\ d.pos[i] = e.pos /\ d.k[i] = [tok |-> e.tok, rot |-> e.pos]
    BY <1>1, <2>3 DEF Row
  <2>5. d.k[i].tok = e.tok
    BY <2>4
  <2> QED  BY <2>3, <2>4, <2>5 DEF FilledBy, i, e
<1>5. \A i \in Idx : LeftAlone(c, d, i) \/ \E j \in 1 .. Len(ub) : slot[j] = i
  BY <1>1, <1>3 DEF LeftAlone
<1> QED  BY <1>4, <1>5

LEMMA PlaceHolds ==
  ASSUME NEW c \in GoodCells, Alone(c), NEW slot, NEW ub, Len(ub) \in Nat,
         \A j \in 1 .. Len(ub) : slot[j] \in Empty(c),
         \A i, j \in 1 .. Len(ub) : slot[i] = slot[j] => i = j,
         NEW d, d = Place(c, slot, ub)
  PROVE  /\ Alone(d)
         /\ \A t, p : \A n, m \in Nat :
              n <= m /\ CellsHold(c, t, p, n) /\ UbHolds(ub, t, p, n, m) => CellsHold(d, t, p, m)
<1>1. \A j \in 1 .. Len(ub) : slot[j] \in Idx /\ FilledBy(c, d, ub, slot[j], j)
  BY PlaceFields
<1>2. \A i \in Idx : LeftAlone(c, d, i) \/ \E j \in 1 .. Len(ub) : slot[j] = i
  BY PlaceFields
<1>3. Alone(d)
  <2>1. ASSUME NEW i \in Idx, NEW s \in d.seq[i], NEW t \in d.seq[i]  PROVE s = t
    <3>1. CASE LeftAlone(c, d, i)
      BY <3>1 DEF Alone, LeftAlone
    <3>2. CASE \E j \in 1 .. Len(ub) : slot[j] = i
      <4>1. PICK j \in 1 .. Len(ub) : slot[j] = i
        BY <3>2
      <4>2. d.seq[i] = {ub[j].seq}
        BY <1>1, <4>1 DEF FilledBy
      <4> QED  BY <4>2
    <3> QED  BY <1>2, <3>1, <3>2
  <2> QED  BY <2>1 DEF Alone
<1>4. ASSUME NEW t, NEW p, NEW n \in Nat, NEW m \in Nat, n <= m,
             CellsHold(c, t, p, n), UbHolds(ub, t, p, n, m)
      PROVE  CellsHold(d, t, p, m)
  <2>1. ASSUME NEW i \in Idx, t \in d.seq[i]
        PROVE  \/ LeftAlone(c, d, i) /\ t \in c.seq[i] /\ d.pos[i] \in 0 .. n - 1 /\ d.k[i].tok = p[d.pos[i] + 1]
               \/ \E j \in 1 .. Len(ub) : slot[j] = i /\ ub[j].seq = t /\ d.pos[i] = ub[j].pos
                                          /\ d.pos[i] \in n .. m - 1 /\ d.k[i].tok = p[d.pos[i] + 1]
    <3>1. CASE LeftAlone(c, d, i)
      BY <1>4, <2>1, <3>1 DEF LeftAlone, CellsHold
    <3>2. CASE ~LeftAlone(c, d, i)
      <4>1. PICK j \in 1 .. Len(ub) : slot[j] = i
        BY <1>2, <3>2
      <4>2. FilledBy(c, d, ub, i, j)
        BY <1>1, <4>1
      <4>3. ub[j].seq = t /\ d.pos[i] = ub[j].pos /\ d.k[i].tok = ub[j].tok
        BY <2>1, <4>2 DEF FilledBy
      <4>4. ub[j].pos \in n .. m - 1 /\ ub[j].tok = p[ub[j].pos + 1]
        BY <1>4, <4>3 DEF UbHolds
      <4> QED  BY <4>1, <4>3, <4>4
    <3> QED  BY <3>1, <3>2
  <2>2. \A x : x \in 0 .. n - 1 \/ x \in n .. m - 1 <=> x \in 0 .. m - 1
    BY <1>4
  <2>3. \A x : ~(x \in 0 .. n - 1 /\ x \in n .. m - 1)
    OBVIOUS
  <2>4. \A i \in Idx : t \in d.seq[i] => d.pos[i] \in 0 .. m - 1 /\ d.k[i].tok = p[d.pos[i] + 1]
    BY <2>1, <2>2
  <2>5. ASSUME NEW x \in 0 .. m - 1  PROVE \E i \in Idx : t \in d.seq[i] /\ d.pos[i] = x
    <3>1. CASE x \in 0 .. n - 1
      <4>1. PICK i \in Idx : t \in c.seq[i] /\ c.pos[i] = x
        BY <1>4, <3>1 DEF CellsHold
      <4>2. LeftAlone(c, d, i)
        BY <1>1, <1>2, <4>1 DEF FilledBy
      <4> QED  BY <4>1, <4>2 DEF LeftAlone
    <3>2. CASE x \in n .. m - 1
      <4>1. PICK j \in 1 .. Len(ub) : ub[j].seq = t /\ ub[j].pos = x
        BY <1>4, <3>2 DEF UbHolds
      <4> QED  BY <1>1, <4>1 DEF FilledBy
    <3> QED  BY <2>2, <3>1, <3>2
  <2>6. ASSUME NEW i \in Idx, NEW j \in Idx, t \in d.seq[i], t \in d.seq[j], d.pos[i] = d.pos[j]
        PROVE  i = j
    <3>0. \A a, b \in 1 .. Len(ub) : ub[a].seq = t /\ ub[b].seq = t /\ ub[a].pos = ub[b].pos => a = b
      BY <1>4 DEF UbHolds
    <3>1. CASE d.pos[i] \in 0 .. n - 1
      <4>1. LeftAlone(c, d, i) /\ t \in c.seq[i] /\ LeftAlone(c, d, j) /\ t \in c.seq[j]
        BY <2>1, <2>3, <2>6, <3>1
      <4> QED  BY <1>4, <2>6, <4>1 DEF LeftAlone, CellsHold
    <3>2. CASE d.pos[i] \notin 0 .. n - 1
      <4>1. PICK a \in 1 .. Len(ub) : slot[a] = i /\ ub[a].seq = t /\ d.pos[i] = ub[a].pos
        BY <2>1, <2>6, <3>2
      <4>2. PICK b \in 1 .. Len(ub) : slot[b] = j /\ ub[b].seq = t /\ d.pos[j] = ub[b].pos
        BY <2>1, <2>6, <3>2
      <4>3. a = b
        BY <2>6, <3>0, <4>1, <4>2
      <4> QED  BY <4>1, <4>2, <4>3
    <3> QED  BY <3>1, <3>2
  <2> QED  BY <2>4, <2>5, <2>6 DEF CellsHold
<1> QED  BY <1>3, <1>4

(* A stream gets the entries of the view that are its own.                 *)
LEMMA PartHolds ==
  ASSUME SlotInv, NEW t, NEW p, NEW n, NEW m, UbHolds(View, t, p, n, m)
  PROVE  UbHolds(Part(StreamOf(t)), t, p, n, m)
<1> DEFINE st == StreamOf(t)
           of == {j \in 1 .. NView : StreamOf(View[j].seq) = st}
           q == Cardinality(of)
<1>1. NView \in Nat /\ View \in Seq(Ents) /\ Len(View) = NView
  BY ViewFacts
<1>2. of \subseteq 1 .. NView /\ of \in SUBSET Nat /\ IsFiniteSet(of) /\ q \in Nat
  <2>1. IsFiniteSet(1 .. NView)
    BY <1>1, FS_Interval
  <2>2. IsFiniteSet(of)
    BY <2>1, FS_Subset
  <2> QED  BY <1>1, <2>2, FS_CardinalityType
<1>3. Part(st) = [j \in 1 .. q |-> View[Nth(of, j)]]
  BY DEF Part
<1>4. \A j \in 1 .. NView : View[j].seq = t => j \in of
  OBVIOUS
<1> HIDE DEF st, of
<1>5. \A j \in 1 .. q : Nth(of, j) \in of
  BY <1>2, NthFound
<1>6. /\ \A i, j \in 1 .. q : Nth(of, i) = Nth(of, j) => i = j
      /\ \A x \in of : \E j \in 1 .. q : Nth(of, j) = x
  BY <1>2, NthAll
<1> HIDE DEF q
<1>7. Len(Part(st)) = q /\ \A j \in 1 .. q : Part(st)[j] = View[Nth(of, j)]
  <2> DEFINE f(j) == View[Nth(of, j)]
  <2>1. Part(st) = [j \in 1 .. q |-> f(j)]
    BY <1>3
  <2> HIDE DEF f
  <2>2. Len(Part(st)) = q /\ \A j \in 1 .. q : Part(st)[j] = f(j)
    BY <1>2, <2>1
  <2> QED  BY <2>2 DEF f
<1> DEFINE ub == Part(st)
<1> HIDE DEF ub
<1>8. ASSUME NEW j \in 1 .. q
      PROVE  \E k \in 1 .. NView : k = Nth(of, j) /\ ub[j] = View[k]
  BY <1>2, <1>5, <1>7 DEF ub
<1>9. ASSUME NEW j \in 1 .. q, ub[j].seq = t
      PROVE  ub[j].pos \in n .. m - 1 /\ ub[j].tok = p[ub[j].pos + 1]
  <2>1. PICK k \in 1 .. NView : ub[j] = View[k]
    BY <1>8
  <2> QED  BY <1>1, <1>9, <2>1 DEF UbHolds
<1>10. ASSUME NEW x \in n .. m - 1  PROVE \E j \in 1 .. q : ub[j].seq = t /\ ub[j].pos = x
  <2>1. PICK k \in 1 .. NView : View[k].seq = t /\ View[k].pos = x
    BY <1>1 DEF UbHolds
  <2>2. PICK j \in 1 .. q : Nth(of, j) = k
    BY <1>4, <1>6, <2>1
  <2>3. ub[j] = View[k]
    BY <1>7, <2>2 DEF ub
  <2> QED  BY <2>1, <2>3
<1>11. ASSUME NEW i \in 1 .. q, NEW j \in 1 .. q, ub[i].seq = t, ub[j].seq = t, ub[i].pos = ub[j].pos
       PROVE  i = j
  <2>1. PICK k \in 1 .. NView : k = Nth(of, i) /\ ub[i] = View[k]
    BY <1>8
  <2>2. PICK l \in 1 .. NView : l = Nth(of, j) /\ ub[j] = View[l]
    BY <1>8
  <2>3. \A a, b \in 1 .. NView : View[a].seq = t /\ View[b].seq = t /\ View[a].pos = View[b].pos => a = b
    BY <1>1 DEF UbHolds
  <2>4. k = l
    BY <1>11, <2>1, <2>2, <2>3
  <2> QED  BY <1>6, <2>1, <2>2, <2>4
<1>12. UbHolds(ub, t, p, n, m)
  BY <1>7, <1>9, <1>10, <1>11 DEF UbHolds, ub
<1> QED  BY <1>12 DEF ub, st

(* The first k entries of a batch and what is left of it.                   *)
LEMMA BatchSplits ==
  ASSUME NEW b, Len(b) \in Nat, NEW k \in Nat, k <= Len(b), NEW v, NEW r,
         Len(v) = k, \A j \in 1 .. k : v[j] = b[j],
         Len(r) = Len(b) - k, \A j \in 1 .. Len(b) - k : r[j] = b[k + j],
         NEW s, NEW p \in Seq(Tokens), NEW n \in Nat, n <= Len(p), BatchHolds(b, s, p, n)
  PROVE  \E m \in n .. Len(p) : UbHolds(v, s, p, n, m) /\ BatchHolds(r, s, p, m)
<1> DEFINE z == Len(p)
           y == Len(b)
<1>0. z \in Nat /\ y \in Nat
  OBVIOUS
<1>1. /\ \A j \in 1 .. y : b[j].seq = s => b[j].pos \in n .. z - 1 /\ b[j].tok = p[b[j].pos + 1]
      /\ \A x \in n .. z - 1 : \E j \in 1 .. y : b[j].seq = s /\ b[j].pos = x
      /\ \A i, j \in 1 .. y : b[i].seq = s /\ b[j].seq = s /\ i < j => b[i].pos < b[j].pos
  BY DEF BatchHolds
<1> DEFINE later(x) == \E j \in 1 .. y : k < j /\ b[j].seq = s /\ b[j].pos = x
           T == {x \in Nat : x = z \/ later(x)}
<1>2. z \in T
  BY <1>0
<1>3. PICK m \in T : \A x \in T : m <= x
  <2> HIDE DEF T
  <2>1. T \in SUBSET Nat
    BY DEF T
  <2> QED  BY <1>2, <2>1, LeastNatural
<1> HIDE DEF z, y, later
<1>4. m \in n .. z
  <2>1. m \in Nat /\ m <= z /\ (m = z \/ later(m))
    BY <1>2, <1>3
  <2>2. later(m) => n <= m
    BY <1>1 DEF later
  <2>3. n <= z
    BY DEF z
  <2> QED  BY <1>0, <2>1, <2>2, <2>3
<1>5. ASSUME NEW j \in 1 .. y, b[j].seq = s  PROVE j <= k <=> b[j].pos < m
  <2>1. b[j].pos \in n .. z - 1
    BY <1>1, <1>5
  <2>2. CASE k < j
    <3>1. later(b[j].pos) /\ b[j].pos \in Nat
      BY <1>5, <2>1, <2>2 DEF later
    <3>2. m <= b[j].pos
      BY <1>3, <3>1
    <3> QED  BY <1>0, <1>4, <2>1, <2>2, <3>2
  <2>3. CASE ~(k < j)
    <3>1. m = z \/ later(m)
      OBVIOUS
    <3>2. CASE m = z
      BY <1>0, <2>1, <2>3, <3>2
    <3>3. CASE later(m)
      <4>1. PICK i \in 1 .. y : k < i /\ b[i].seq = s /\ b[i].pos = m
        BY <3>3 DEF later
      <4>2. j < i
        BY <1>0, <2>3, <4>1
      <4>3. b[j].pos < m
        BY <1>1, <1>5, <4>1, <4>2
      <4> QED  BY <1>0, <2>3, <4>3
    <3> QED  BY <3>1, <3>2, <3>3
  <2> QED  BY <2>2, <2>3
<1>6. \A x \in n .. z - 1 : x \in n .. m - 1 <=> x < m
  BY <1>0, <1>4
<1>7. \A x \in n .. z - 1 : x \in m .. z - 1 <=> ~(x < m)
  BY <1>0, <1>4
<1>8. n .. m - 1 \subseteq n .. z - 1 /\ m .. z - 1 \subseteq n .. z - 1
  BY <1>0, <1>4
<1> HIDE DEF T
<1>9. k \in Nat /\ k <= y /\ 1 .. k \subseteq 1 .. y
  BY <1>0 DEF y
<1>10. UbHolds(v, s, p, n, m)
  <2>1. ASSUME NEW j \in 1 .. k, v[j].seq = s
        PROVE  v[j].pos \in n .. m - 1 /\ v[j].tok = p[v[j].pos + 1]
    <3>1. j \in 1 .. y /\ v[j] = b[j] /\ j <= k
      BY <1>9
    <3> QED  BY <1>1, <1>5, <1>6, <2>1, <3>1
  <2>2. ASSUME NEW x \in n .. m - 1  PROVE \E j \in 1 .. k : v[j].seq = s /\ v[j].pos = x
    <3>1. x \in n .. z - 1 /\ x < m
      BY <1>6, <1>8
    <3>2. PICK j \in 1 .. y : b[j].seq = s /\ b[j].pos = x
      BY <1>1, <3>1
    <3>3. j \in 1 .. k
      BY <1>5, <3>1, <3>2
    <3> QED  BY <3>2, <3>3
  <2>3. ASSUME NEW i \in 1 .. k, NEW j \in 1 .. k, v[i].seq = s, v[j].seq = s, v[i].pos = v[j].pos
        PROVE  i = j
    <3>1. i \in 1 .. y /\ j \in 1 .. y /\ v[i] = b[i] /\ v[j] = b[j]
      BY <1>9
    <3>2. b[i].pos \in Int
      BY <1>1, <2>3, <3>1
    <3>3. ~(i < j) /\ ~(j < i)
      BY <1>1, <2>3, <3>1, <3>2
    <3> QED  BY <3>3
  <2> QED  BY <2>1, <2>2, <2>3 DEF UbHolds
<1>11. BatchHolds(r, s, p, m)
  <2>0. \A j \in 1 .. y - k : k + j \in 1 .. y /\ ~(k + j <= k) /\ r[j] = b[k + j]
    BY <1>0, <1>9 DEF y
  <2>00. Len(r) = y - k
    BY DEF y
  <2>1. ASSUME NEW j \in 1 .. y - k, r[j].seq = s
        PROVE  r[j].pos \in m .. z - 1 /\ r[j].tok = p[r[j].pos + 1]
    <3> DEFINE i == k + j
    <3>1. i \in 1 .. y /\ ~(i <= k) /\ r[j] = b[i]
      BY <2>0
    <3> HIDE DEF i
    <3>2. b[i].seq = s
      BY <2>1, <3>1
    <3>3. b[i].pos \in n .. z - 1 /\ b[i].tok = p[b[i].pos + 1]
      BY <1>1, <3>1, <3>2
    <3>4. ~(b[i].pos < m)
      BY <1>5, <3>1, <3>2
    <3>5. b[i].pos \in m .. z - 1
      BY <1>7, <3>3, <3>4
    <3> QED  BY <3>1, <3>3, <3>5
  <2>2. ASSUME NEW x \in m .. z - 1  PROVE \E j \in 1 .. y - k : r[j].seq = s /\ r[j].pos = x
    <3>1. x \in n .. z - 1 /\ ~(x < m)
      BY <1>7, <1>8
    <3>2. PICK i \in 1 .. y : b[i].seq = s /\ b[i].pos = x
      BY <1>1, <3>1
    <3>3. ~(i <= k)
      BY <1>5, <3>1, <3>2
    <3>4. i - k \in 1 .. y - k /\ k + (i - k) = i
      BY <1>0, <1>9, <3>3
    <3>5. r[i - k] = b[i]
      BY <2>0, <3>4
    <3> QED  BY <3>2, <3>4, <3>5
  <2>3. ASSUME NEW i \in 1 .. y - k, NEW j \in 1 .. y - k, r[i].seq = s, r[j].seq = s, i < j
        PROVE  r[i].pos < r[j].pos
    <3>1. k + i < k + j
      BY <1>9, <2>3
    <3>2. b[k + i].seq = s /\ b[k + j].seq = s
      BY <2>0, <2>3
    <3>3. b[k + i].pos < b[k + j].pos
      BY <1>1, <2>0, <3>1, <3>2
    <3> QED  BY <2>0, <3>3
  <2> QED  BY <2>00, <2>1, <2>2, <2>3 DEF BatchHolds, z
<1> QED  BY <1>4, <1>10, <1>11 DEF z

---------------------------------------------------------------------------
(* What a slot has, in its cells and in the batch.                         *)
NoEntries(b, s)       == \A j \in 1 .. Len(b) : b[j].seq # s
NothingAfter(b, s, k) == \A j \in 1 .. Len(b) : j > k => b[j].seq # s

Has(c, s, p, b) == \E n \in 0 .. Len(p) : CellsHold(c, s, p, n) /\ BatchHolds(b, s, p, n)

(* An idle slot has nothing in the batch, nothing of a slot follows the     *)
(* token it is sampled from, and a prompt that is not all in the batch is  *)
(* the first part of its input.                                            *)
SlotHolds(w, s) ==
  /\ Has(w.cells[StreamOf(s)], s, w.prompt[s], w.batch)
  /\ w.state[s] = "idle" => NoEntries(w.batch, s)
  /\ w.iBatch[s] # 0 => NothingAfter(w.batch, s, w.iBatch[s])
  /\ w.state[s] = "prompt" => w.prompt[s] = SubSeq(input[s], 1, Len(w.prompt[s]))

(* Nothing is shared: no families, no copies, no cell of two slots.         *)
Private(w) ==
  /\ w.copies = <<>>
  /\ \A s \in Slots : w.kin[s] = NoSlot /\ w.role[s] \in {"none", "single"}
  /\ \A st \in Slots : Alone(w.cells[st])

HoldsAll(w) == Private(w) /\ \A s \in Slots : SlotHolds(w, s)

(* The batch b grows to d by entries of s.                                 *)
Grown(b, d, s) ==
  /\ Len(b) \in Nat /\ Len(d) \in Nat /\ Len(b) <= Len(d)
  /\ \A j \in 1 .. Len(b) : d[j] = b[j]
  /\ \A j \in 1 .. Len(d) : Len(b) < j => d[j].seq = s

LEMMA GrownHolds ==
  ASSUME NEW b, NEW d, NEW s, Grown(b, d, s), NEW x, x # s
  PROVE  /\ \A p, n : BatchHolds(b, x, p, n) => BatchHolds(d, x, p, n)
         /\ NoEntries(b, x) => NoEntries(d, x)
         /\ \A k : NothingAfter(b, x, k) => NothingAfter(d, x, k)
<1>1. /\ \A j \in 1 .. Len(d) : d[j].seq = x => j \in 1 .. Len(b) /\ d[j] = b[j]
      /\ \A j \in 1 .. Len(b) : j \in 1 .. Len(d) /\ d[j] = b[j]
  BY DEF Grown
<1>2. ASSUME NEW p, NEW n, BatchHolds(b, x, p, n)  PROVE BatchHolds(d, x, p, n)
  <2>1. \A j \in 1 .. Len(d) : d[j].seq = x => d[j].pos \in n .. Len(p) - 1 /\ d[j].tok = p[d[j].pos + 1]
    BY <1>1, <1>2 DEF BatchHolds
  <2>2. \A y \in n .. Len(p) - 1 : \E j \in 1 .. Len(d) : d[j].seq = x /\ d[j].pos = y
    BY <1>1, <1>2 DEF BatchHolds
  <2>3. \A i, j \in 1 .. Len(d) : d[i].seq = x /\ d[j].seq = x /\ i < j => d[i].pos < d[j].pos
    BY <1>1, <1>2 DEF BatchHolds
  <2> QED  BY <2>1, <2>2, <2>3 DEF BatchHolds
<1> QED  BY <1>1, <1>2 DEF NoEntries, NothingAfter

(* From w to v nothing changes for the other slots than s.                 *)
SameSlot(w, v, x) ==
  /\ SameFor(w.cells[StreamOf(x)], v.cells[StreamOf(x)], x)
  /\ v.prompt[x] = w.prompt[x] /\ v.state[x] = w.state[x] /\ v.iBatch[x] = w.iBatch[x]

OthersSame(w, v, s) ==
  Grown(w.batch, v.batch, s) /\ \A x \in Slots : x # s => SameSlot(w, v, x)

LEMMA OthersHold ==
  ASSUME NEW w, NEW v, NEW s, OthersSame(w, v, s), NEW x \in Slots, x # s, SlotHolds(w, x)
  PROVE  SlotHolds(v, x)
<1>1. SameSlot(w, v, x) /\ Grown(w.batch, v.batch, s)
  BY DEF OthersSame
<1>2. Has(v.cells[StreamOf(x)], x, v.prompt[x], v.batch)
  <2>1. PICK n \in 0 .. Len(w.prompt[x]) : /\ CellsHold(w.cells[StreamOf(x)], x, w.prompt[x], n)
                                           /\ BatchHolds(w.batch, x, w.prompt[x], n)
    BY DEF SlotHolds, Has
  <2>2. CellsHold(v.cells[StreamOf(x)], x, w.prompt[x], n)
    BY <1>1, <2>1, SameHolds DEF SameSlot
  <2>3. BatchHolds(v.batch, x, w.prompt[x], n)
    BY <1>1, <2>1, GrownHolds
  <2> QED  BY <1>1, <2>2, <2>3 DEF Has, SameSlot
<1>3. /\ v.state[x] = "idle" => NoEntries(v.batch, x)
      /\ v.iBatch[x] # 0 => NothingAfter(v.batch, x, v.iBatch[x])
      /\ v.state[x] = "prompt" => v.prompt[x] = SubSeq(input[x], 1, Len(v.prompt[x]))
  BY <1>1, GrownHolds DEF SlotHolds, SameSlot
<1> QED  BY <1>2, <1>3 DEF SlotHolds

LEMMA HoldsStep ==
  ASSUME NEW w, NEW v, HoldsAll(w), Private(v), NEW s \in Slots, OthersSame(w, v, s), SlotHolds(v, s)
  PROVE  HoldsAll(v)
BY OthersHold DEF HoldsAll

LEMMA SameItself ==
  ASSUME NEW c, NEW s
  PROVE  SameFor(c, c, s)
BY DEF SameFor

(* A slot with nothing in the batch has all of its prompt in its cells.     *)
LEMMA AllInCells ==
  ASSUME NEW c, NEW s, NEW p \in Seq(Tokens), NEW b, NoEntries(b, s)
  PROVE  Has(c, s, p, b) <=> CellsHold(c, s, p, Len(p))
<1> DEFINE z == Len(p)
<1>1. z \in Nat
  OBVIOUS
<1> HIDE DEF z
<1>2. ASSUME NEW n \in 0 .. z, \A x \in n .. z - 1 : FALSE  PROVE n = z
  <2>1. ~(n <= z - 1)
    <3>1. n \in n .. z - 1 <=> n <= z - 1
      BY <1>1
    <3> QED  BY <1>2, <3>1
  <2> QED  BY <1>1, <2>1
<1>3. ASSUME Has(c, s, p, b)  PROVE CellsHold(c, s, p, z)
  <2>1. PICK n \in 0 .. z : CellsHold(c, s, p, n) /\ BatchHolds(b, s, p, n)
    BY <1>3 DEF Has, z
  <2>2. \A x \in n .. z - 1 : FALSE
    BY <2>1 DEF BatchHolds, NoEntries, z
  <2>3. n = z
    BY <1>2, <2>2
  <2> QED  BY <2>1, <2>3
<1>4. ASSUME CellsHold(c, s, p, z)  PROVE Has(c, s, p, b)
  <2>1. z \in 0 .. z /\ \A x \in z .. z - 1 : FALSE
    BY <1>1
  <2>2. BatchHolds(b, s, p, z)
    BY <2>1 DEF BatchHolds, NoEntries, z
  <2> QED  BY <1>4, <2>1, <2>2 DEF Has, z
<1> QED  BY <1>3, <1>4 DEF z

(* Cells that are removed from s leave the other slots theirs.              *)
LEMMA RmHold ==
  ASSUME NEW w, Sound(w), Private(w), NEW s \in Slots, NEW p0 \in Int, NEW p1 \in Int
  PROVE  Private(Rm(w, s, p0, p1)) /\ OthersSame(w, Rm(w, s, p0, p1), s)
<1> DEFINE v == Rm(w, s, p0, p1)
           st0 == StreamOf(s)
<1>1. OnlyRemoved(w, v, s, p0, p1)
  BY RmSound
<1>2. /\ w.cells \in [Slots -> GoodCells] /\ st0 \in Slots /\ s \in Seqs /\ Len(w.batch) \in Nat
      /\ \A x \in Slots : StreamOf(x) \in Slots /\ x \in Seqs
  BY WorkFields, SlotFacts DEF Sound
<1> HIDE DEF v, st0
<1>3. SameSlots(w, v) /\ v.prompt = w.prompt
      /\ \A st \in Slots : v.cells[st] = IF st = st0 THEN SeqRm(w.cells[st], s, p0, p1) ELSE w.cells[st]
  BY <1>1, <1>2 DEF OnlyRemoved, st0
<1>4. \A st \in Slots : Alone(v.cells[st]) /\ \A x \in Seqs : x # s => SameFor(w.cells[st], v.cells[st], x)
  <2> TAKE st \in Slots
  <2>1. w.cells[st] \in GoodCells /\ Alone(w.cells[st])
    BY <1>2 DEF Private
  <2>2. CASE st = st0
    <3>1. v.cells[st] = SeqRm(w.cells[st], s, p0, p1)
      BY <1>3, <2>2
    <3> QED  BY <1>2, <2>1, <3>1, RmAlone
  <2>3. CASE st # st0
    <3>1. v.cells[st] = w.cells[st]
      BY <1>3, <2>3
    <3> QED  BY <2>1, <3>1, SameItself
  <2> QED  BY <2>2, <2>3
<1>5. Private(v)
  BY <1>3, <1>4 DEF Private, SameSlots
<1>6. Grown(w.batch, v.batch, s)
  BY <1>2, <1>3 DEF Grown, SameSlots
<1>7. OthersSame(w, v, s)
  BY <1>2, <1>3, <1>4, <1>6 DEF OthersSame, SameSlot, SameSlots
<1> QED  BY <1>5, <1>7 DEF v

(* All of a slot's prompt is in its cells.                                 *)
InCells(w, s) == CellsHold(w.cells[StreamOf(s)], s, w.prompt[s], Len(w.prompt[s]))

(* prompt_clear(), of a slot with nothing in the batch.                    *)
LEMMA ClearHold ==
  ASSUME NEW w, Sound(w), Private(w), NEW s \in Slots
  PROVE  /\ Private(Clear(w, s)) /\ OthersSame(w, Clear(w, s), s) /\ InCells(Clear(w, s), s)
         /\ NoEntries(w.batch, s) => SlotHolds(Clear(w, s), s)
<1> DEFINE u == Rm(w, s, 0, Infinity)
           v == Clear(w, s)
<1>0. 0 \in Int /\ Infinity \in Int
  BY PosFacts
<1>1. Private(u) /\ OthersSame(w, u, s) /\ Sound(u) /\ OnlyRemoved(w, u, s, 0, Infinity)
  <2> HIDE DEF u
  <2>1. Private(Rm(w, s, 0, Infinity)) /\ OthersSame(w, Rm(w, s, 0, Infinity), s)
    BY <1>0, RmHold
  <2>2. Sound(Rm(w, s, 0, Infinity)) /\ OnlyRemoved(w, Rm(w, s, 0, Infinity), s, 0, Infinity)
    BY <1>0, RmSound
  <2> QED  BY <2>1, <2>2 DEF u
<1>2. v = [u EXCEPT !.prompt[s] = <<>>]
  BY DEF Clear
<1>3. Sound(v) /\ OnlyCleared(w, v, s)
  BY ClearSound
<1>4. u \in Works /\ v \in Works /\ w \in Works
  BY <1>1, <1>3 DEF Sound
<1> HIDE DEF u, v
<1>5. v.cells = u.cells
  <2> DEFINE q == [u.prompt EXCEPT ![s] = <<>>]
  <2>1. v = [u EXCEPT !.prompt = q]
    BY <1>2
  <2> HIDE DEF q
  <2> QED  BY <1>4, <2>1 DEF Works
<1>6. SameSlots(u, v) /\ SameSlots(w, v) /\ u.prompt = w.prompt
      /\ \A x \in Slots : x # s => v.prompt[x] = u.prompt[x]
  <2>1. w.prompt \in [Slots -> Seq(Tokens)]
    BY <1>4, WorkFields
  <2> QED  BY <1>1, <1>3, <2>1 DEF OnlyRemoved, OnlyCleared, SameSlots
<1>7. Private(v)
  BY <1>1, <1>5, <1>6 DEF Private, SameSlots
<1>8. OthersSame(w, v, s)
  BY <1>1, <1>5, <1>6 DEF OthersSame, SameSlot, SameSlots
<1>9. v.prompt[s] = <<>>
  <2>1. w.prompt \in [Slots -> Seq(Tokens)]
    BY <1>4, WorkFields
  <2> QED  BY <1>3, <2>1 DEF OnlyCleared
<1>10. \A i \in Idx : s \notin v.cells[StreamOf(s)].seq[i]
  <2>1. w.cells[StreamOf(s)] \in GoodCells /\ StreamOf(s) \in Slots /\ s \in Seqs
    BY <1>4, WorkFields, SlotFacts
  <2>2. w.cells \in [Slots -> GoodCells]
    BY <1>4, WorkFields
  <2>3. v.cells[StreamOf(s)] = SeqRm(w.cells[StreamOf(s)], s, 0, Infinity)
    BY <1>1, <1>5, <2>1, <2>2 DEF OnlyRemoved
  <2> QED  BY <2>1, <2>3, SeqRmAll
<1> DEFINE e == v.prompt[s]
<1>11. e \in Seq(Tokens) /\ Len(e) = 0
  BY <1>9
<1> HIDE DEF e
<1>12. CellsHold(v.cells[StreamOf(s)], s, e, 0)
  BY <1>10 DEF CellsHold
<1>13. InCells(v, s)
  BY <1>11, <1>12 DEF InCells, e
<1>14. ASSUME NoEntries(w.batch, s)  PROVE SlotHolds(v, s)
  <2>1. NoEntries(v.batch, s)
    BY <1>6, <1>14 DEF SameSlots
  <2>2. Has(v.cells[StreamOf(s)], s, e, v.batch)
    BY <1>11, <1>12, <2>1, AllInCells
  <2>3. v.state[s] = "prompt" => e = SubSeq(input[s], 1, Len(e))
    <3>1. SUFFICES ASSUME v.state[s] = "prompt"  PROVE e = SubSeq(input[s], 1, Len(e))
      OBVIOUS
    <3>2. input[s] \in Seq(Tokens)
      BY <1>3, <3>1, SlotFacts DEF Sound, InputsKnown
    <3>3. SubSeq(input[s], 1, 0) = <<>>
      BY <3>2
    <3> QED  BY <1>9, <1>11, <3>3 DEF e
  <2>4. v.iBatch[s] # 0 => NothingAfter(v.batch, s, v.iBatch[s])
    BY <2>1 DEF NoEntries, NothingAfter
  <2> QED  BY <2>1, <2>2, <2>3, <2>4 DEF SlotHolds, e
<1> QED  BY <1>7, <1>8, <1>13, <1>14 DEF v

(* release(), of a slot with nothing in the batch.                         *)
LEMMA ReleaseHold ==
  ASSUME NEW w, Sound(w), Private(w), NEW s \in Slots
  PROVE  /\ Private(Release(w, s)) /\ OthersSame(w, Release(w, s), s)
         /\ SlotHolds(w, s) /\ NoEntries(w.batch, s) => SlotHolds(Release(w, s), s)
<1> DEFINE v == Release(w, s)
           state0 == [w.state EXCEPT ![s] = "idle"]
           role0 == [w.role EXCEPT ![s] = "none"]
           iBatch0 == [w.iBatch EXCEPT ![s] = 0]
           kin0 == [x \in Slots |-> IF x = s \/ w.kin[x] = s THEN NoSlot ELSE w.kin[x]]
<1>1. w.role[s] # "child" /\ w \in Works
  BY DEF Private, Sound
<1>2. v = [w EXCEPT !.state = state0, !.role = role0, !.iBatch = iBatch0, !.kin = kin0]
  BY <1>1 DEF Release
<1>3. /\ \A x \in Slots : state0[x] = IF x = s THEN "idle" ELSE w.state[x]
      /\ \A x \in Slots : role0[x] = IF x = s THEN "none" ELSE w.role[x]
      /\ \A x \in Slots : iBatch0[x] = IF x = s THEN 0 ELSE w.iBatch[x]
      /\ \A x \in Slots : kin0[x] = NoSlot
  BY <1>1, WorkFields DEF Private
<1> HIDE DEF v, state0, role0, iBatch0, kin0
<1>4. /\ v.state = state0 /\ v.role = role0 /\ v.kin = kin0 /\ v.iBatch = iBatch0 /\ v.cells = w.cells
      /\ v.copies = w.copies /\ v.prompt = w.prompt /\ v.batch = w.batch
  BY <1>1, <1>2 DEF Works
<1>5. Private(v)
  BY <1>3, <1>4 DEF Private
<1>6. OthersSame(w, v, s)
  <2>1. Len(w.batch) \in Nat
    BY <1>1, WorkFields
  <2>2. Grown(w.batch, v.batch, s)
    BY <1>4, <2>1 DEF Grown
  <2> QED  BY <1>3, <1>4, <2>2, SameItself DEF OthersSame, SameSlot
<1>7. SlotHolds(w, s) /\ NoEntries(w.batch, s) => SlotHolds(v, s)
  BY <1>3, <1>4 DEF SlotHolds
<1> QED  BY <1>5, <1>6, <1>7 DEF v

(* A context shift, when nothing is in the batch.                          *)
LEMMA ShiftStep ==
  ASSUME NEW w, Sound(w), HoldsAll(w), NEW s \in Slots, w.batch = <<>>, mode \in Modes, DiscardsLess
  PROVE  HoldsAll(ShiftContext(w, s))
<1> DEFINE n == Len(w.prompt[s])
           p == w.prompt[s]
           keep == Keep
           g == IF mode.discard # 0 THEN mode.discard ELSE (n - keep) \div 2
           removed == Rm(w, s, keep, keep + g)
           cut == Cut(p, keep, g)
           st0 == StreamOf(s)
           v == [removed EXCEPT
                  !.cells[st0] = SeqAdd(@, s, keep + g, n, - g),
                  !.prompt[s] = cut]
<1>1. ShiftContext(w, s) =
        IF w.state[s] # "generating" \/ n + 1 < NCtx THEN w
        ELSE IF ~mode.shift \/ w.role[s] # "single" THEN Release(w, s) ELSE v
  BY DEF ShiftContext, Cut, Joined
<1>2. w \in Works /\ p \in Seq(Tokens) /\ n \in Nat /\ n <= NCtx /\ Private(w) /\ SlotHolds(w, s)
  BY WorkFields DEF Sound, PromptsFit, HoldsAll
<1>3. NoEntries(w.batch, s)
  BY DEF NoEntries
<1>4. CASE w.state[s] # "generating" \/ n + 1 < NCtx
  BY <1>1, <1>4
<1>5. CASE ~(w.state[s] # "generating" \/ n + 1 < NCtx) /\ (~mode.shift \/ w.role[s] # "single")
  <2>1. ShiftContext(w, s) = Release(w, s)
    BY <1>1, <1>5
  <2>2. Private(Release(w, s)) /\ OthersSame(w, Release(w, s), s) /\ SlotHolds(Release(w, s), s)
    BY <1>2, <1>3, ReleaseHold
  <2>3. HoldsAll(Release(w, s))
    BY <2>2, HoldsStep
  <2> QED  BY <2>1, <2>3
<1>6. CASE ~(w.state[s] # "generating" \/ n + 1 < NCtx) /\ ~(~mode.shift \/ w.role[s] # "single")
  <2>1. ShiftContext(w, s) = v /\ w.state[s] = "generating" /\ n + 1 >= NCtx
    BY <1>1, <1>2, <1>6, SlotFacts
  <2>2. keep \in Nat /\ keep <= NCtx - 4 /\ mode.discard \in Nat /\ mode.discard <= NCtx - 1 - keep
    BY KeepFacts DEF DiscardsLess
  <2> HIDE DEF keep
  <2>3. g \in Nat /\ keep + g <= n
    <3>1. n - keep \in Nat
      <4>1. n \in Nat /\ n + 1 >= NCtx /\ keep \in Nat /\ keep <= NCtx - 4 /\ NCtx \in Nat
        BY <1>2, <2>1, <2>2, CtxFacts
      <4> HIDE DEF n
      <4> QED  BY <4>1
    <3>2. \A k \in Nat : k \div 2 \in Nat /\ k \div 2 <= k
      OBVIOUS
    <3>3. mode.discard <= n - keep
      <4>1. n \in Nat /\ n + 1 >= NCtx /\ NCtx \in Nat
        BY <1>2, <2>1, CtxFacts
      <4> HIDE DEF n
      <4> QED  BY <2>2, <4>1
    <3>4. g \in Nat /\ g <= n - keep
      BY <2>2, <3>1, <3>2, <3>3
    <3> HIDE DEF g, n
    <3> QED  BY <1>2, <2>2, <3>4
  <2> HIDE DEF g
  <2>4. cut = Without(p, keep, g) /\ cut \in Seq(Tokens) /\ Len(cut) = n - g
    <3> HIDE DEF p
    <3>1. p \in Seq(Tokens) /\ keep + g <= Len(p) /\ n = Len(p)
      BY <1>2, <2>3 DEF p
    <3>2. Joined(p, keep, g) = Without(p, keep, g)
      BY DEF Joined, Without
    <3>3. Cut(p, keep, g) = Joined(p, keep, g)
      BY <2>2, <2>3, <3>1, CutIsJoined
    <3>4. Joined(p, keep, g) \in Seq(Tokens) /\ Len(Joined(p, keep, g)) = Len(p) - g
      BY <2>2, <2>3, <3>1, MiddleJoined
    <3> QED  BY <3>1, <3>2, <3>3, <3>4
  <2>5. Sound(removed) /\ SameSlots(w, removed) /\ removed.prompt = w.prompt
        /\ removed.cells = [w.cells EXCEPT ![st0] = SeqRm(w.cells[st0], s, keep, keep + g)]
    <3>1. keep \in Int /\ keep + g \in Int
      BY <2>2, <2>3
    <3>2. Sound(removed) /\ OnlyRemoved(w, removed, s, keep, keep + g)
      BY <3>1, RmSound
    <3> QED  BY <3>2 DEF OnlyRemoved
  <2> DEFINE c == w.cells[st0]
             b == SeqRm(c, s, keep, keep + g)
             d == SeqAdd(removed.cells[st0], s, keep + g, n, - g)
             cs == [removed.cells EXCEPT ![st0] = d]
             prompt0 == [w.prompt EXCEPT ![s] = cut]
  <2>6. /\ removed \in Works /\ removed.cells \in [Slots -> GoodCells] /\ st0 \in Slots /\ s \in Seqs
        /\ w.cells \in [Slots -> GoodCells] /\ Alone(c) /\ c \in GoodCells
        /\ w.prompt \in [Slots -> Seq(Tokens)]
    <3>1. removed \in Works /\ st0 \in Slots /\ s \in Seqs
      BY <2>5, SlotFacts DEF Sound
    <3> HIDE DEF removed, st0
    <3>2. removed.cells \in [Slots -> GoodCells] /\ w.cells \in [Slots -> GoodCells]
          /\ w.prompt \in [Slots -> Seq(Tokens)]
      BY <1>2, <3>1, WorkFields
    <3> QED  BY <1>2, <3>1, <3>2 DEF Private
  <2>7. v = [removed EXCEPT !.cells = cs, !.prompt = prompt0]
    BY <2>5
  <2>8. d = SeqAdd(b, s, keep + g, n, - g)
    BY <2>5, <2>6
  <2>9. CellsHold(c, s, p, n)
    BY <1>2, <1>3, AllInCells DEF SlotHolds
  <2>10. CellsHold(d, s, cut, n - g) /\ Alone(d) /\ \A t \in Seqs : t # s => SameFor(c, d, t)
    <3> HIDE DEF c, d, p, b
    <3>1. p \in Seq(Tokens) /\ keep + g <= Len(p) /\ CellsHold(c, s, p, Len(p))
      BY <1>2, <2>3, <2>9 DEF p
    <3>2. b = SeqRm(c, s, keep, keep + g) /\ d = SeqAdd(b, s, keep + g, Len(p), - g)
      BY <2>8 DEF b, p
    <3>3. CellsHold(d, s, Without(p, keep, g), Len(p) - g) /\ Alone(d)
          /\ \A t \in Seqs : t # s => SameFor(c, d, t)
      BY <2>2, <2>3, <2>6, <3>1, <3>2, ShiftHolds
    <3> QED  BY <2>4, <3>3 DEF p
  <2>11. /\ \A st \in Slots : cs[st] = IF st = st0 THEN d ELSE w.cells[st]
         /\ \A x \in Slots : prompt0[x] = IF x = s THEN cut ELSE w.prompt[x]
    BY <2>5, <2>6
  <2> HIDE DEF removed, cut, v, cs, prompt0, d, b
  <2>12. v.cells = cs /\ v.prompt = prompt0 /\ SameSlots(removed, v)
    BY <2>6, <2>7 DEF Works, SameSlots
  <2>13. SameSlots(w, v)
    BY <2>5, <2>12 DEF SameSlots
  <2>14. \A st \in Slots : Alone(v.cells[st]) /\ \A x \in Seqs : x # s => SameFor(w.cells[st], v.cells[st], x)
    <3> TAKE st \in Slots
    <3>1. CASE st = st0
      BY <2>10, <2>11, <2>12, <3>1
    <3>2. CASE st # st0
      <4>1. v.cells[st] = w.cells[st]
        BY <2>11, <2>12, <3>2
      <4> QED  BY <1>2, <4>1, SameItself DEF Private
    <3> QED  BY <3>1, <3>2
  <2>15. Private(v)
    BY <1>2, <2>13, <2>14 DEF Private, SameSlots
  <2>16. OthersSame(w, v, s)
    <3>1. Len(w.batch) \in Nat /\ \A x \in Slots : StreamOf(x) \in Slots /\ x \in Seqs
      BY <1>2, WorkFields, SlotFacts
    <3>2. Grown(w.batch, v.batch, s)
      BY <2>13, <3>1 DEF Grown, SameSlots
    <3> QED  BY <2>11, <2>12, <2>13, <2>14, <3>1, <3>2 DEF OthersSame, SameSlot, SameSlots
  <2>17. SlotHolds(v, s)
    <3>1. v.prompt[s] = cut /\ v.cells[StreamOf(s)] = d
      BY <2>6, <2>11, <2>12
    <3>2. NoEntries(v.batch, s)
      BY <1>3, <2>13 DEF SameSlots
    <3>3. Has(v.cells[StreamOf(s)], s, v.prompt[s], v.batch)
      BY <2>4, <2>10, <3>1, <3>2, AllInCells
    <3>4. v.state[s] = "generating"
      BY <2>1, <2>13 DEF SameSlots
    <3> QED  BY <3>2, <3>3, <3>4 DEF SlotHolds, NoEntries, NothingAfter
  <2>18. HoldsAll(v)
    BY <2>15, <2>16, <2>17, HoldsStep
  <2> QED  BY <2>1, <2>18
<1> QED  BY <1>4, <1>5, <1>6

(* Cells hold the first tokens of every prompt that begins with them.       *)
LEMMA PrefixHolds ==
  ASSUME NEW c, NEW s, NEW p, NEW q, NEW n, \A x \in 0 .. n - 1 : q[x + 1] = p[x + 1], CellsHold(c, s, p, n)
  PROVE  CellsHold(c, s, q, n)
<1>1. \A i \in Idx : s \in c.seq[i] => c.pos[i] \in 0 .. n - 1 /\ c.k[i].tok = q[c.pos[i] + 1]
  BY DEF CellsHold
<1> QED  BY <1>1 DEF CellsHold

(* Entries of the positions from n on, added to a batch without any of s.  *)
LEMMA MoreHolds ==
  ASSUME NEW s \in Slots, NEW b \in Seq(Ents), NoEntries(b, s), NEW more \in Seq(Ents), NEW p \in Seq(Tokens),
         NEW n \in Nat, Len(p) = n + Len(more),
         \A j \in 1 .. Len(more) : more[j].seq = s /\ more[j].pos = n + j - 1 /\ more[j].tok = p[n + j],
         NEW d, d = b \o more
  PROVE  BatchHolds(d, s, p, n) /\ Grown(b, d, s) /\ NothingAfter(d, s, Len(b) + Len(more))
<1> DEFINE y == Len(b)
           k == Len(more)
<1>1. y \in Nat /\ k \in Nat /\ Len(d) = y + k /\ Len(p) = n + k
  OBVIOUS
<1>2. \A j \in 1 .. y : d[j] = b[j] /\ b[j].seq # s
  BY DEF NoEntries
<1>3. ASSUME NEW j \in 1 .. k
      PROVE  /\ d[y + j].seq = s /\ d[y + j].pos = n + j - 1 /\ d[y + j].tok = p[n + j]
  <2>1. y + j \in 1 .. y + k /\ ~(y + j <= y) /\ (y + j) - y = j
    BY <1>1
  <2>2. d[y + j] = more[j]
    BY <2>1
  <2> QED  BY <2>2
<1> HIDE DEF y, k
<1>4. ASSUME NEW j \in 1 .. y + k, ~(j <= y)
      PROVE  /\ d[j].seq = s /\ d[j].pos = n + (j - y) - 1 /\ d[j].tok = p[n + (j - y)] /\ j - y \in 1 .. k
  <2>1. j - y \in 1 .. k /\ y + (j - y) = j
    BY <1>1, <1>4
  <2> QED  BY <1>3, <2>1
<1>5. ASSUME NEW j \in 1 .. y + k, d[j].seq = s  PROVE ~(j <= y)
  BY <1>1, <1>2, <1>5
<1>6. ASSUME NEW j \in 1 .. y + k, d[j].seq = s
      PROVE  d[j].pos \in n .. (n + k) - 1 /\ d[j].tok = p[d[j].pos + 1]
  <2> DEFINE i == j - y
  <2>1. d[j].pos = n + i - 1 /\ d[j].tok = p[n + i] /\ i \in 1 .. k
    BY <1>4, <1>5, <1>6
  <2> HIDE DEF i
  <2>2. n + i - 1 \in n .. (n + k) - 1 /\ (n + i - 1) + 1 = n + i
    <3>1. n \in Int /\ k \in Int /\ i \in Int /\ 1 <= i /\ i <= k
      BY <1>1, <2>1
    <3> QED  BY <3>1
  <2> QED  BY <2>1, <2>2
<1>7. ASSUME NEW x \in n .. (n + k) - 1  PROVE \E j \in 1 .. y + k : d[j].seq = s /\ d[j].pos = x
  <2> DEFINE i == x - n + 1
  <2>1. i \in 1 .. k /\ n + i - 1 = x /\ y + i \in 1 .. y + k
    BY <1>1
  <2> HIDE DEF i
  <2> QED  BY <1>3, <2>1
<1>8. ASSUME NEW i \in 1 .. y + k, NEW j \in 1 .. y + k, d[i].seq = s, d[j].seq = s, i < j
      PROVE  d[i].pos < d[j].pos
  <2>1. d[i].pos = n + (i - y) - 1 /\ d[j].pos = n + (j - y) - 1
    BY <1>4, <1>5, <1>8
  <2> QED  BY <1>1, <1>8, <2>1
<1>9. BatchHolds(d, s, p, n)
  BY <1>1, <1>6, <1>7, <1>8 DEF BatchHolds
<1>10. Grown(b, d, s)
  <2>1. \A j \in 1 .. y + k : y < j => d[j].seq = s
    BY <1>1, <1>4
  <2>2. y <= y + k /\ y + k \in Nat
    BY <1>1
  <2> QED  BY <1>1, <1>2, <2>1, <2>2 DEF Grown, y
<1>11. NothingAfter(d, s, y + k)
  BY <1>1 DEF NothingAfter
<1> QED  BY <1>9, <1>10, <1>11 DEF y, k

LEMMA AppendOne ==
  ASSUME NEW S, NEW q \in Seq(S), NEW e \in S
  PROVE  Append(q, e) = q \o <<e>>
OBVIOUS

(* A slot with nothing in the batch gets entries of its own.               *)
LEMMA AddedHolds ==
  ASSUME NEW w, NEW v, HoldsAll(w), Private(v), NEW s \in Slots,
         Grown(w.batch, v.batch, s), \A x \in Slots : x # s => SameSlot(w, v, x), SlotHolds(v, s)
  PROVE  HoldsAll(v)
BY HoldsStep DEF OthersSame

(* update_batch(): the token that was sampled.                             *)
LEMMA AddSampledStep ==
  ASSUME NEW w, Sound(w), HoldsAll(w), NEW s \in Slots, NEW t \in Tokens,
         w.state[s] = "generating", HasRoom(w, s), NoEntries(w.batch, s)
  PROVE  HoldsAll(AddSampled(w, s, t)) /\ Grown(w.batch, AddSampled(w, s, t).batch, s)
<1> DEFINE p == w.prompt[s]
           n == Len(p)
           v == AddSampled(w, s, t)
           e == Entry(s, n, t)
           batch0 == Append(w.batch, e)
           grown == Append(p, t)
           prompt0 == [w.prompt EXCEPT ![s] = grown]
           iBatch0 == [w.iBatch EXCEPT ![s] = Len(w.batch) + 1]
<1>1. /\ w \in Works /\ w.prompt \in [Slots -> Seq(Tokens)] /\ w.batch \in Seq(Ents)
      /\ w.iBatch \in [Slots -> 0 .. BatchSize] /\ n \in Nat /\ Len(w.batch) \in Nat /\ n < NCtx
  BY WorkFields DEF Sound, HasRoom
<1>2. v = [w EXCEPT !.batch = batch0, !.prompt = prompt0, !.iBatch = iBatch0]
  BY DEF AddSampled
<1>3. e \in Ents /\ e.seq = s /\ e.pos = n /\ e.tok = t
  <2>1. n \in Pos
    BY <1>1, SlotFacts, PosFacts
  <2> QED  BY <2>1 DEF Entry, Ents
<1>4. p \in Seq(Tokens)
  BY <1>1
<1> HIDE DEF e
<1>5. /\ \A x \in Slots : prompt0[x] = IF x = s THEN grown ELSE w.prompt[x]
      /\ \A x \in Slots : iBatch0[x] = IF x = s THEN Len(w.batch) + 1 ELSE w.iBatch[x]
  BY <1>1
<1> DEFINE more == <<e>>
<1>6. more \in Seq(Ents) /\ Len(more) = 1 /\ more[1] = e /\ batch0 = w.batch \o more
  <2>1. Append(w.batch, e) = w.batch \o <<e>>
    BY <1>1, <1>3, AppendOne
  <2> QED  BY <1>3, <2>1
<1>7. grown \in Seq(Tokens) /\ Len(grown) = n + 1 /\ grown[n + 1] = t
      /\ \A x \in 0 .. n - 1 : grown[x + 1] = p[x + 1]
  <2> HIDE DEF p
  <2>1. grown \in Seq(Tokens) /\ Len(grown) = n + 1 /\ grown[n + 1] = t /\ \A i \in 1 .. n : grown[i] = p[i]
    BY <1>4
  <2>2. \A x \in 0 .. n - 1 : x + 1 \in 1 .. n
    BY <1>1
  <2> QED  BY <2>1, <2>2
<1> HIDE DEF batch0, prompt0, iBatch0, v, grown, more
<1>8. /\ v.cells = w.cells /\ v.copies = w.copies /\ v.state = w.state /\ v.kin = w.kin
      /\ v.role = w.role /\ v.prompt = prompt0 /\ v.batch = batch0 /\ v.iBatch = iBatch0
  BY <1>1, <1>2 DEF Works
<1>9. Private(v)
  BY <1>8 DEF Private, HoldsAll
<1>10. BatchHolds(batch0, s, grown, n) /\ Grown(w.batch, batch0, s) /\ NothingAfter(batch0, s, Len(w.batch) + 1)
  <2> HIDE DEF n
  <2>1. \A j \in 1 .. 1 : more[j].seq = s /\ more[j].pos = n + j - 1 /\ more[j].tok = grown[n + j]
    <3>1. \A j \in 1 .. 1 : j = 1
      OBVIOUS
    <3>2. more[1].seq = s /\ more[1].pos = n + 1 - 1 /\ more[1].tok = grown[n + 1]
      BY <1>1, <1>3, <1>6, <1>7 DEF n
    <3> QED  BY <3>1, <3>2
  <2>2. /\ n \in Nat /\ Len(grown) = n + Len(more) /\ NoEntries(w.batch, s) /\ w.batch \in Seq(Ents)
        /\ \A j \in 1 .. Len(more) : more[j].seq = s /\ more[j].pos = n + j - 1 /\ more[j].tok = grown[n + j]
    BY <1>1, <1>6, <1>7, <2>1 DEF n
  <2>3. BatchHolds(batch0, s, grown, n) /\ Grown(w.batch, batch0, s)
        /\ NothingAfter(batch0, s, Len(w.batch) + Len(more))
    BY <1>6, <1>7, <2>2, MoreHolds
  <2> QED  BY <1>6, <2>3
<1>11. \A x \in Slots : x # s => SameSlot(w, v, x)
  BY <1>5, <1>8, SameItself DEF SameSlot
<1>12. SlotHolds(v, s)
  <2>1. CellsHold(w.cells[StreamOf(s)], s, p, n)
    BY <1>4, AllInCells DEF HoldsAll, SlotHolds
  <2>2. CellsHold(w.cells[StreamOf(s)], s, grown, n)
    BY <1>7, <2>1, PrefixHolds
  <2>3. n \in 0 .. Len(grown)
    <3> HIDE DEF n
    <3> QED  BY <1>1, <1>7
  <2>4. v.prompt[s] = grown /\ v.iBatch[s] = Len(w.batch) + 1 /\ v.cells = w.cells /\ v.batch = batch0
    BY <1>5, <1>8
  <2>5. Has(v.cells[StreamOf(s)], s, v.prompt[s], v.batch)
    BY <1>10, <2>2, <2>3, <2>4 DEF Has
  <2> QED  BY <1>8, <1>10, <2>4, <2>5 DEF SlotHolds
<1>13. HoldsAll(v)
  BY <1>8, <1>9, <1>10, <1>11, <1>12, AddedHolds
<1> QED  BY <1>8, <1>10, <1>13 DEF v

(* What a slot keeps of its prompt is what the new one begins with.         *)
LEMMA NPastCommon ==
  ASSUME NEW w, Sound(w), NEW s \in Slots, w.state[s] \in {"started", "prompt"}, SlotHolds(w, s)
  PROVE  /\ NPast(w, s) \in 0 .. Len(w.prompt[s])
         /\ \A x \in 0 .. NPast(w, s) - 1 : input[s][x + 1] = w.prompt[s][x + 1]
<1> DEFINE p == w.prompt[s]
           q == input[s]
<1>1. q \in Seq(Tokens) /\ Len(q) \in Nat /\ 1 <= Len(q) /\ p \in Seq(Tokens) /\ Len(p) \in Nat
  <2>1. q \in Prompts
    BY DEF Sound, InputsKnown
  <2>2. w.prompt \in [Slots -> Seq(Tokens)]
    BY WorkFields DEF Sound
  <2> QED  BY <2>1, <2>2, SlotFacts
<1>2. ASSUME NEW n \in Nat, n <= Len(p), n <= Len(q), SubSeq(p, 1, n) = SubSeq(q, 1, n)
      PROVE  \A x \in 0 .. n - 1 : q[x + 1] = p[x + 1]
  <2> HIDE DEF p, q
  <2>1. \A i \in 1 .. n : SubSeq(p, 1, n)[i] = p[i] /\ SubSeq(q, 1, n)[i] = q[i]
    BY <1>1, <1>2
  <2>2. \A i \in 1 .. n : p[i] = q[i]
    BY <1>2, <2>1
  <2>3. \A x \in 0 .. n - 1 : x + 1 \in 1 .. n
    BY <1>2
  <2> QED  BY <2>2, <2>3
<1>3. CASE w.state[s] = "prompt"
  <2>1. Len(p) < Len(q) /\ p = SubSeq(q, 1, Len(p))
    BY <1>3 DEF Sound, PromptsGrow, SlotHolds
  <2>2. NPast(w, s) = Len(p)
    BY <1>3 DEF NPast
  <2> HIDE DEF p, q
  <2>3. SubSeq(p, 1, Len(p)) = p
    BY <1>1
  <2>4. SubSeq(p, 1, Len(p)) = SubSeq(q, 1, Len(p))
    BY <2>1, <2>3
  <2>5. Len(p) <= Len(p) /\ Len(p) <= Len(q) /\ Len(p) \in 0 .. Len(p)
    BY <1>1, <2>1
  <2>6. \A x \in 0 .. Len(p) - 1 : q[x + 1] = p[x + 1]
    BY <1>1, <1>2, <2>4, <2>5
  <2> QED  BY <2>2, <2>5, <2>6 DEF p, q
<1>4. CASE w.state[s] = "started"
  <2> DEFINE m == Min({Len(p), Len(q) - 1})
             common == {n \in 0 .. m : SubSeq(p, 1, n) = SubSeq(q, 1, n)}
  <2>1. NPast(w, s) = Max(common)
    BY <1>4 DEF NPast
  <2> HIDE DEF p, q
  <2>2. m \in Nat /\ m <= Len(q) /\ m <= Len(p)
    <3>1. m = IF Len(p) <= Len(q) - 1 THEN Len(p) ELSE Len(q) - 1
      BY <1>1, MinOfTwo
    <3> HIDE DEF m
    <3> QED  BY <1>1, <3>1
  <2> HIDE DEF m
  <2>3. 0 \in common
    <3>1. SubSeq(p, 1, 0) = <<>> /\ SubSeq(q, 1, 0) = <<>>
      BY <1>1
    <3> QED  BY <2>2, <3>1
  <2>4. common \in SUBSET (0 .. m) /\ common # {} /\ \A n \in common : SubSeq(p, 1, n) = SubSeq(q, 1, n)
    BY <2>3
  <2> HIDE DEF common
  <2> DEFINE z == Max(common)
  <2>5. z \in common
    BY <2>2, <2>4, MaxUpTo
  <2> HIDE DEF z
  <2>6. z \in Nat /\ z <= Len(p) /\ z <= Len(q) /\ SubSeq(p, 1, z) = SubSeq(q, 1, z)
    <3>1. z \in 0 .. m
      BY <2>4, <2>5
    <3> QED  BY <1>1, <2>2, <2>4, <2>5, <3>1
  <2>7. z \in 0 .. Len(p)
    BY <1>1, <2>6
  <2>8. \A x \in 0 .. z - 1 : q[x + 1] = p[x + 1]
    BY <1>2, <2>6
  <2> QED  BY <2>1, <2>7, <2>8 DEF z, p, q
<1> QED  BY <1>3, <1>4

(* The rest of a prompt goes to the batch as far as n_batch allows.         *)
LEMMA AddPromptStep ==
  ASSUME NEW w, Sound(w), HoldsAll(w), NEW s \in Slots,
         w.state[s] \in {"started", "prompt"} => NoEntries(w.batch, s)
  PROVE  /\ HoldsAll(AddPrompt(w, s)) /\ Grown(w.batch, AddPrompt(w, s).batch, s)
         /\ \A x \in Slots : x # s => AddPrompt(w, s).state[x] = w.state[x]
<1> DEFINE p == w.prompt[s]
           q == input[s]
           past == NPast(w, s)
           room == NBatch - Len(w.batch)
           left == Len(q) - past
           n == Min({room, left})
           more == [j \in 1 .. n |-> Entry(s, past + j - 1, q[past + j])]
           done == past + n = Len(q)
           removed == Rm(w, s, past, Infinity)
           part == SubSeq(q, 1, past + n)
           v == [removed EXCEPT
                  !.batch = @ \o more,
                  !.prompt[s] = part,
                  !.state[s] = IF done THEN "done" ELSE "prompt",
                  !.iBatch[s] = IF done THEN Len(w.batch) + n ELSE 0]
<1>0. /\ w \in Works /\ w.batch \in Seq(Ents) /\ Len(w.batch) \in Nat /\ w.prompt \in [Slots -> Seq(Tokens)]
      /\ Private(w) /\ SlotHolds(w, s)
  BY WorkFields DEF Sound, HoldsAll
<1>1. AddPrompt(w, s) = IF w.state[s] \notin {"started", "prompt"} \/ Len(w.batch) >= NBatch THEN w ELSE v
  BY DEF AddPrompt
<1>2. CASE w.state[s] \notin {"started", "prompt"} \/ Len(w.batch) >= NBatch
  <2>1. Grown(w.batch, w.batch, s)
    BY <1>0 DEF Grown
  <2> QED  BY <1>1, <1>2, <2>1
<1>3. CASE ~(w.state[s] \notin {"started", "prompt"} \/ Len(w.batch) >= NBatch)
  <2>1. past \in Nat /\ past < Len(q)
    BY <1>3, NPastLess
  <2>2. past \in 0 .. Len(p) /\ \A x \in 0 .. past - 1 : q[x + 1] = p[x + 1]
    BY <1>0, <1>3, NPastCommon
  <2>3. q \in Seq(Tokens) /\ Len(q) \in Nat /\ Len(q) < NCtx /\ Len(w.batch) < NBatch /\ NoEntries(w.batch, s)
    <3>1. q \in Prompts
      BY <1>3 DEF Sound, InputsKnown
    <3> QED  BY <1>0, <1>3, <3>1, SlotFacts
  <2> HIDE DEF past
  <2>4. n \in Nat /\ n <= left
    <3>1. room \in Int /\ left \in Int /\ 1 <= room /\ 1 <= left
      <4>1. NBatch \in Int
        BY SlotFacts
      <4> QED  BY <1>0, <2>1, <2>3, <4>1
    <3> HIDE DEF room, left
    <3>2. n = IF room <= left THEN room ELSE left
      BY <3>1, MinOfTwo
    <3> QED  BY <3>1, <3>2
  <2> HIDE DEF n
  <2>5. past + n \in Nat /\ past + n <= Len(q)
    <3> DEFINE b == Len(q)
    <3>1. b \in Nat /\ n <= b - past
      BY <2>3, <2>4
    <3> HIDE DEF b
    <3>2. past + n \in Nat /\ past + n <= b
      BY <2>1, <2>4, <3>1
    <3> QED  BY <3>2 DEF b
  <2>6. ASSUME NEW j \in 1 .. n
        PROVE  /\ Entry(s, past + j - 1, q[past + j]) \in Ents /\ past + j \in 1 .. past + n
               /\ Entry(s, past + j - 1, q[past + j]).seq = s
               /\ Entry(s, past + j - 1, q[past + j]).pos = past + j - 1
               /\ Entry(s, past + j - 1, q[past + j]).tok = q[past + j]
    <3>1. past + j - 1 \in Pos
      <4> DEFINE b == Len(q)
      <4>1. b \in Nat /\ past + n <= b
        BY <2>3, <2>5
      <4>2. b < NCtx /\ NCtx \in Nat /\ NCtx <= MaxPos + 1 /\ MaxPos \in Nat
        BY <2>3, SlotFacts, PosFacts
      <4> HIDE DEF b
      <4>3. past + j - 1 \in Int /\ 0 <= past + j - 1 /\ past + j - 1 < b
        BY <2>1, <2>4, <4>1
      <4>4. past + j - 1 <= MaxPos
        BY <4>1, <4>2, <4>3
      <4> QED  BY <4>3, <4>4, PosFacts
    <3>2. past + j \in 1 .. Len(q) /\ past + j \in 1 .. past + n
      BY <2>1, <2>3, <2>4, <2>5
    <3>3. q[past + j] \in Tokens
      BY <2>3, <3>2
    <3> QED  BY <3>1, <3>2, <3>3 DEF Entry, Ents
  <2>7. more \in Seq(Ents) /\ Len(more) = n
        /\ \A j \in 1 .. n : more[j] = Entry(s, past + j - 1, q[past + j])
    BY <2>4, <2>6
  <2> HIDE DEF more
  <2>8. part \in Seq(Tokens) /\ Len(part) = past + n /\ \A i \in 1 .. past + n : part[i] = q[i]
    <3> HIDE DEF q
    <3> QED  BY <2>3, <2>5
  <2> HIDE DEF part
  <2>9. OnlyRemoved(w, removed, s, past, Infinity) /\ Private(removed) /\ OthersSame(w, removed, s)
        /\ removed \in Works
    <3>1. past \in Int /\ Infinity \in Int
      BY <2>1, PosFacts
    <3>2. Sound(removed) /\ OnlyRemoved(w, removed, s, past, Infinity)
      BY <3>1, RmSound
    <3>3. Private(removed) /\ OthersSame(w, removed, s)
      BY <1>0, <3>1, RmHold
    <3> QED  BY <3>2, <3>3 DEF Sound
  <2> HIDE DEF removed
  <2> DEFINE batch0 == w.batch \o more
             prompt0 == [w.prompt EXCEPT ![s] = part]
             state0 == [removed.state EXCEPT ![s] = IF done THEN "done" ELSE "prompt"]
             iBatch0 == [removed.iBatch EXCEPT ![s] = IF done THEN Len(w.batch) + n ELSE 0]
  <2>10. v = [removed EXCEPT !.batch = batch0, !.prompt = prompt0, !.state = state0, !.iBatch = iBatch0]
    BY <2>9 DEF OnlyRemoved, SameSlots
  <2>11. /\ \A x \in Slots : prompt0[x] = IF x = s THEN part ELSE w.prompt[x]
         /\ \A x \in Slots : state0[x] = IF x = s THEN IF done THEN "done" ELSE "prompt" ELSE removed.state[x]
         /\ \A x \in Slots : iBatch0[x] = IF x = s THEN IF done THEN Len(w.batch) + n ELSE 0 ELSE removed.iBatch[x]
    <3> HIDE DEF done
    <3> QED  BY <1>0, <2>9, WorkFields
  <2> HIDE DEF batch0, prompt0, state0, iBatch0, v
  <2>12. /\ v.cells = removed.cells /\ v.copies = removed.copies /\ v.kin = removed.kin /\ v.role = removed.role
         /\ v.batch = batch0 /\ v.prompt = prompt0 /\ v.state = state0 /\ v.iBatch = iBatch0
    BY <2>9, <2>10 DEF Works
  <2>13. Private(v)
    BY <2>9, <2>12 DEF Private
  <2>14. BatchHolds(batch0, s, part, past) /\ Grown(w.batch, batch0, s) /\ NothingAfter(batch0, s, Len(w.batch) + n)
    <3>1. \A j \in 1 .. Len(more) : more[j].seq = s /\ more[j].pos = past + j - 1 /\ more[j].tok = part[past + j]
      BY <2>6, <2>7, <2>8
    <3> HIDE DEF q
    <3>2. BatchHolds(batch0, s, part, past) /\ Grown(w.batch, batch0, s)
          /\ NothingAfter(batch0, s, Len(w.batch) + Len(more))
      BY <1>0, <2>1, <2>3, <2>7, <2>8, <3>1, MoreHolds DEF batch0
    <3> QED  BY <2>7, <3>2
  <2>15. \A x \in Slots : x # s => SameSlot(w, v, x)
    BY <2>9, <2>11, <2>12 DEF OthersSame, SameSlot, OnlyRemoved
  <2>16. SlotHolds(v, s)
    <3> DEFINE c == w.cells[StreamOf(s)]
    <3>1. c \in GoodCells /\ s \in Seqs /\ p \in Seq(Tokens) /\ Len(p) \in Nat /\ StreamOf(s) \in Slots
      <4>1. StreamOf(s) \in Slots /\ s \in Seqs
        BY SlotFacts
      <4>2. w.cells \in [Slots -> GoodCells] /\ w.prompt \in [Slots -> Seq(Tokens)]
        BY <1>0, WorkFields
      <4> QED  BY <4>1, <4>2
    <3>2. CellsHold(c, s, p, Len(p))
      BY <1>0, <2>3, <3>1, AllInCells DEF SlotHolds
    <3>3. \A x \in 0 .. past - 1 : part[x + 1] = p[x + 1]
      <4>1. \A x \in 0 .. past - 1 : x + 1 \in 1 .. past + n
        BY <2>1, <2>4
      <4> QED  BY <2>2, <2>8, <4>1
    <3>4. CellsHold(SeqRm(c, s, past, Infinity), s, part, past)
      <4> HIDE DEF c, p, q
      <4> QED  BY <2>2, <3>1, <3>2, <3>3, RmCuts
    <3>5. v.cells[StreamOf(s)] = SeqRm(c, s, past, Infinity)
      <4>1. w.cells \in [Slots -> GoodCells]
        BY <1>0, WorkFields
      <4> QED  BY <2>9, <2>12, <3>1, <4>1 DEF OnlyRemoved
    <3>6. past \in 0 .. Len(part)
      BY <2>1, <2>4, <2>8
    <3>7. /\ v.prompt[s] = part /\ v.batch = batch0 /\ v.state[s] = (IF done THEN "done" ELSE "prompt")
          /\ v.iBatch[s] = IF done THEN Len(w.batch) + n ELSE 0
      BY <2>11, <2>12
    <3>8. Has(v.cells[StreamOf(s)], s, v.prompt[s], v.batch)
      BY <2>14, <3>4, <3>5, <3>6, <3>7 DEF Has
    <3>9. v.iBatch[s] # 0 => NothingAfter(v.batch, s, v.iBatch[s])
      BY <2>14, <3>7
    <3>10. v.prompt[s] = SubSeq(input[s], 1, Len(v.prompt[s]))
      BY <2>8, <3>7 DEF part
    <3>11. v.state[s] # "idle"
      BY <3>7
    <3> QED  BY <3>8, <3>9, <3>10, <3>11 DEF SlotHolds
  <2>17. HoldsAll(v)
    BY <2>12, <2>13, <2>14, <2>15, <2>16, AddedHolds
  <2>18. \A x \in Slots : x # s => v.state[x] = w.state[x]
    BY <2>15 DEF SameSlot
  <2> QED  BY <1>1, <1>3, <2>12, <2>14, <2>17, <2>18
<1> QED  BY <1>2, <1>3

---------------------------------------------------------------------------
(* The loops over the slots.                                               *)
HeldWorks == {w \in SoundWorks : HoldsAll(w)}

LEMMA HeldWorksAre ==
  /\ \A w : w \in HeldWorks <=> Sound(w) /\ HoldsAll(w)
  /\ 0 \in 0 .. NSlots /\ NSlots \in 0 .. NSlots
BY SoundSetsAre DEF HeldWorks

ShiftedHeld == {w \in HeldWorks : w.batch = <<>>}

LEMMA ShiftsHold ==
  ASSUME NEW w, Sound(w), HoldsAll(w), w.batch = <<>>, mode \in Modes, DiscardsLess
  PROVE  HoldsAll(InSlotOrder(ShiftContext, w))
<1> DEFINE W == [n \in 0 .. NSlots |-> ShiftedHeld]
<1>0. \A n \in 0 .. NSlots : W[n] = ShiftedHeld
  OBVIOUS
<1>1. w \in W[0]
  BY HeldWorksAre DEF ShiftedHeld
<1>2. ASSUME NEW n \in 0 .. NSlots - 1, NEW v \in W[n]  PROVE ShiftContext(v, n) \in W[n + 1]
  <2>1. v \in ShiftedHeld /\ n \in Slots /\ n + 1 \in 0 .. NSlots
    BY <1>0, SlotFacts
  <2>2. Sound(v) /\ HoldsAll(v) /\ v.batch = <<>>
    BY <2>1, HeldWorksAre DEF ShiftedHeld
  <2>3. Sound(ShiftContext(v, n)) /\ Shifted(v, ShiftContext(v, n), n) /\ HoldsAll(ShiftContext(v, n))
    BY <2>1, <2>2, ShiftSound, ShiftStep
  <2> DEFINE u == ShiftContext(v, n)
  <2> HIDE DEF u, W
  <2>4. u \in ShiftedHeld
    BY <2>2, <2>3, HeldWorksAre DEF ShiftedHeld, Shifted, u
  <2> QED  BY <1>0, <2>1, <2>4 DEF u
<1> HIDE DEF W
<1>3. InSlotOrder(ShiftContext, w) \in W[NSlots]
  BY <1>1, <1>2, ShiftLoop
<1> QED  BY <1>0, <1>3, HeldWorksAre DEF ShiftedHeld

(* A slot that did not sample yet has nothing in the batch.                *)
Unsampled(w, n) == \A s \in Slots : s >= n \/ w.state[s] # "generating" => NoEntries(w.batch, s)

SampledHeld(w0, n) == {w \in SampledUpTo(w0, n) : HoldsAll(w) /\ Unsampled(w, n)}

LEMMA SampledSoundStep ==
  ASSUME NEW w, NEW n \in Slots, NEW sampled, \A s \in Slots : Generating(w, s) => sampled[s] \in Tokens,
         NEW v \in SampledUpTo(w, n), v.state[n] = "generating"
  PROVE  /\ Sound(v) /\ HasRoom(v, n) /\ sampled[n] \in Tokens
         /\ AddSampled(v, n, sampled[n]) \in SampledUpTo(w, n + 1)
         /\ AddSampled(v, n, sampled[n]).state = v.state
<1> DEFINE u == AddSampled(v, n, sampled[n])
<1>1. n \in Nat /\ n < BatchSize
  <2>1. n < NSlots
    BY SlotFacts DEF Slots
  <2> QED  BY <2>1, SlotFacts
<1>2. Sound(v) /\ v.state = w.state /\ Len(v.batch) <= n
  BY SoundSetsAre DEF SampledUpTo
<1>3. Len(v.batch) \in Nat
  BY <1>2, WorkFields DEF Sound
<1>4. sampled[n] \in Tokens /\ HasRoom(v, n) /\ Len(v.batch) < BatchSize
  BY <1>1, <1>2, <1>3, SlotFacts DEF SampledUpTo, Generating
<1>5. Sound(u) /\ OnlySlot(v, u, n) /\ u.state = v.state /\ Len(u.batch) = Len(v.batch) + 1
  BY <1>2, <1>4, AddSampledSound
<1> HIDE DEF u
<1>6. \A s \in Slots : s >= n + 1 => HasRoom(u, s)
  <2>1. \A s \in Slots : s >= n + 1 => s >= n /\ s # n
    BY <1>1, SlotFacts
  <2> QED  BY <1>5, <2>1 DEF SampledUpTo, OnlySlot, HasRoom
<1>7. Len(u.batch) <= n + 1
  BY <1>1, <1>2, <1>3, <1>5
<1>8. u \in SampledUpTo(w, n + 1)
  BY <1>2, <1>5, <1>6, <1>7, SoundSetsAre DEF SampledUpTo
<1> QED  BY <1>2, <1>4, <1>5, <1>8 DEF u

LEMMA AllSampledHold ==
  ASSUME NEW w, Sound(w), HoldsAll(w), w.batch = <<>>, \A s \in Slots : HasRoom(w, s),
         NEW sampled, \A s \in Slots : Generating(w, s) => sampled[s] \in Tokens
  PROVE  /\ HoldsAll(AddAllSampled(w, sampled))
         /\ \A s \in Slots : AddAllSampled(w, sampled).state[s] # "generating"
                               => NoEntries(AddAllSampled(w, sampled).batch, s)
<1> DEFINE W == [n \in 0 .. NSlots |-> SampledHeld(w, n)]
<1>0. \A n \in 0 .. NSlots : W[n] = SampledHeld(w, n)
  OBVIOUS
<1>1. w \in W[0]
  <2>1. Len(w.batch) <= 0 /\ Unsampled(w, 0)
    BY DEF Unsampled, NoEntries
  <2>2. w \in SampledUpTo(w, 0)
    BY <2>1, SoundSetsAre DEF SampledUpTo
  <2> QED  BY <2>1, <2>2, HeldWorksAre DEF SampledHeld
<1>2. ASSUME NEW n \in 0 .. NSlots - 1, NEW v \in W[n]
      PROVE  (IF v.state[n] = "generating" THEN AddSampled(v, n, sampled[n]) ELSE v) \in W[n + 1]
  <2>1. v \in SampledUpTo(w, n) /\ HoldsAll(v) /\ Unsampled(v, n)
        /\ n \in Slots /\ n \in Nat /\ n + 1 \in 0 .. NSlots
    BY <1>0, SlotFacts DEF SampledHeld
  <2>2. \A s \in Slots : s >= n + 1 => s >= n /\ s # n
    BY <2>1, SlotFacts
  <2> HIDE DEF W
  <2>3. CASE v.state[n] = "generating"
    <3> DEFINE u == AddSampled(v, n, sampled[n])
    <3>1. /\ Sound(v) /\ HasRoom(v, n) /\ sampled[n] \in Tokens
          /\ u \in SampledUpTo(w, n + 1) /\ u.state = v.state
      BY <2>1, <2>3, SampledSoundStep
    <3>2. n >= n /\ NoEntries(v.batch, n)
      BY <2>1 DEF Unsampled
    <3>3. HoldsAll(u) /\ Grown(v.batch, u.batch, n)
      BY <2>1, <2>3, <3>1, <3>2, AddSampledStep
    <3> HIDE DEF u
    <3>4. ASSUME NEW s \in Slots, s >= n + 1 \/ u.state[s] # "generating"  PROVE NoEntries(u.batch, s)
      <4>1. s # n /\ NoEntries(v.batch, s)
        BY <2>1, <2>2, <2>3, <3>1, <3>4 DEF Unsampled
      <4> QED  BY <3>3, <4>1, GrownHolds
    <3>5. u \in SampledHeld(w, n + 1)
      BY <3>1, <3>3, <3>4 DEF SampledHeld, Unsampled
    <3> QED  BY <1>0, <2>1, <2>3, <3>5 DEF u
  <2>4. CASE v.state[n] # "generating"
    <3>1. Len(v.batch) <= n + 1
      <4>1. Len(v.batch) <= n /\ Sound(v)
        BY <2>1, SoundSetsAre DEF SampledUpTo
      <4>2. Len(v.batch) \in Nat
        BY <4>1, WorkFields DEF Sound
      <4> QED  BY <2>1, <4>1, <4>2
    <3>2. v \in SampledUpTo(w, n + 1)
      BY <2>1, <2>2, <3>1 DEF SampledUpTo
    <3>3. Unsampled(v, n + 1)
      BY <2>1, <2>2 DEF Unsampled
    <3> QED  BY <1>0, <2>1, <2>4, <3>2, <3>3 DEF SampledHeld
  <2> QED  BY <2>3, <2>4
<1> HIDE DEF W
<1>3. AddAllSampled(w, sampled) \in W[NSlots]
  BY <1>1, <1>2, SampledLoop
<1>4. AddAllSampled(w, sampled) \in SampledHeld(w, NSlots)
  BY <1>0, <1>3, HeldWorksAre
<1> QED  BY <1>4 DEF SampledHeld, Unsampled

(* A slot whose prompt was not added yet has nothing in the batch.         *)
Unadded(w, n) ==
  \A s \in Slots : s >= n /\ w.state[s] \in {"started", "prompt"} => NoEntries(w.batch, s)

AddedHeld(n) == {w \in HeldWorks : Unadded(w, n)}

LEMMA PromptsHold ==
  ASSUME NEW w, Sound(w), HoldsAll(w), \A s \in Slots : w.state[s] # "generating" => NoEntries(w.batch, s)
  PROVE  HoldsAll(InSlotOrder(AddPrompt, w))
<1> DEFINE W == [n \in 0 .. NSlots |-> AddedHeld(n)]
<1>0. \A n \in 0 .. NSlots : W[n] = AddedHeld(n)
  OBVIOUS
<1>1. w \in W[0]
  <2>1. Unadded(w, 0)
    BY DEF Unadded
  <2> QED  BY <2>1, HeldWorksAre DEF AddedHeld
<1>2. ASSUME NEW n \in 0 .. NSlots - 1, NEW v \in W[n]  PROVE AddPrompt(v, n) \in W[n + 1]
  <2>1. v \in AddedHeld(n) /\ n \in Slots /\ n \in Nat /\ n + 1 \in 0 .. NSlots
    BY <1>0, SlotFacts
  <2>2. Sound(v) /\ HoldsAll(v) /\ Unadded(v, n) /\ n >= n
    BY <2>1, HeldWorksAre DEF AddedHeld
  <2> DEFINE u == AddPrompt(v, n)
  <2>3. Sound(u)
    BY <2>1, <2>2, AddPromptSound
  <2>4. v.state[n] \in {"started", "prompt"} => NoEntries(v.batch, n)
    BY <2>1, <2>2 DEF Unadded
  <2>5. HoldsAll(u) /\ Grown(v.batch, u.batch, n) /\ \A x \in Slots : x # n => u.state[x] = v.state[x]
    BY <2>1, <2>2, <2>4, AddPromptStep
  <2> HIDE DEF u, W
  <2>6. ASSUME NEW s \in Slots, s >= n + 1, u.state[s] \in {"started", "prompt"}  PROVE NoEntries(u.batch, s)
    <3>1. s >= n /\ s # n
      BY <2>1, <2>6, SlotFacts
    <3>2. NoEntries(v.batch, s)
      BY <2>2, <2>5, <2>6, <3>1 DEF Unadded
    <3> QED  BY <2>5, <3>1, <3>2, GrownHolds
  <2>7. u \in AddedHeld(n + 1)
    BY <2>3, <2>5, <2>6, HeldWorksAre DEF AddedHeld, Unadded
  <2> QED  BY <1>0, <2>1, <2>7 DEF u
<1> HIDE DEF W
<1>3. InSlotOrder(AddPrompt, w) \in W[NSlots]
  BY <1>1, <1>2, PromptLoop
<1> QED  BY <1>0, <1>3, HeldWorksAre DEF AddedHeld

(* Slots whose answer ends have nothing in what is left of the batch.      *)
EndedHeld(ends, b) == {w \in HeldWorks : w.batch = b /\ \A s \in ends : NoEntries(b, s)}

LEMMA EndsHold ==
  ASSUME NEW w, Sound(w), HoldsAll(w), NEW ends, \A s \in ends : NoEntries(w.batch, s)
  PROVE  HoldsAll(EndAll(w, ends)) /\ EndAll(w, ends).batch = w.batch
<1> DEFINE W == [n \in 0 .. NSlots |-> EndedHeld(ends, w.batch)]
<1>0. \A n \in 0 .. NSlots : W[n] = EndedHeld(ends, w.batch)
  OBVIOUS
<1>1. w \in W[0]
  BY HeldWorksAre DEF EndedHeld
<1>2. ASSUME NEW n \in 0 .. NSlots - 1, NEW v \in W[n]
      PROVE  (IF n \in ends THEN Release(v, n) ELSE v) \in W[n + 1]
  <2>1. v \in EndedHeld(ends, w.batch) /\ n \in Slots /\ n + 1 \in 0 .. NSlots
    BY <1>0, SlotFacts
  <2>2. Sound(v) /\ HoldsAll(v) /\ v.batch = w.batch /\ \A s \in ends : NoEntries(v.batch, s)
    BY <2>1, HeldWorksAre DEF EndedHeld
  <2> HIDE DEF W
  <2>3. CASE n \in ends
    <3> DEFINE u == Release(v, n)
    <3>1. Sound(u) /\ Released(v, u, n)
      BY <2>1, <2>2, ReleaseSound
    <3>2. Private(u) /\ OthersSame(v, u, n) /\ SlotHolds(u, n)
      BY <2>1, <2>2, <2>3, ReleaseHold DEF HoldsAll
    <3> HIDE DEF u
    <3>3. HoldsAll(u)
      BY <2>1, <2>2, <3>2, HoldsStep
    <3>4. u \in EndedHeld(ends, w.batch)
      BY <2>2, <3>1, <3>3, HeldWorksAre DEF EndedHeld, Released
    <3> QED  BY <1>0, <2>1, <2>3, <3>4 DEF u
  <2>4. CASE n \notin ends
    BY <1>0, <2>1, <2>4
  <2> QED  BY <2>3, <2>4
<1> HIDE DEF W
<1>3. EndAll(w, ends) \in W[NSlots]
  BY <1>1, <1>2, EndLoop
<1> QED  BY <1>0, <1>3, HeldWorksAre DEF EndedHeld

(* Nobody waits for a parent.                                              *)
LEMMA NobodyActivated ==
  ASSUME NEW w, Private(w)
  PROVE  InSlotOrder(ActivateChild, w) = w
<1> DEFINE W == [n \in 0 .. NSlots |-> {w}]
<1>1. ASSUME NEW n \in 0 .. NSlots - 1, NEW v \in W[n]  PROVE ActivateChild(v, n) \in W[n + 1]
  <2>1. v = w /\ n \in Slots /\ n + 1 \in 0 .. NSlots
    BY SlotFacts
  <2>2. ActivateChild(w, n) = w
    BY <2>1 DEF ActivateChild, Private
  <2> QED  BY <2>1, <2>2
<1>2. w \in W[0] /\ W[NSlots] = {w}
  BY SoundSetsAre
<1> HIDE DEF W
<1>3. InSlotOrder(ActivateChild, w) \in W[NSlots]
  BY <1>1, <1>2, ActivateLoop
<1> QED  BY <1>2, <1>3

---------------------------------------------------------------------------
(* What holds is what the next decode attends to.                          *)

(* f gives every number from a to b to one element of S.                   *)
Numbers(f, S, a, b) ==
  /\ f \in [S -> a .. b]
  /\ \A x, y \in S : f[x] = f[y] => x = y
  /\ \A z \in a .. b : \E x \in S : f[x] = z

LEMMA Counted ==
  ASSUME NEW S, NEW a \in Int, NEW b \in Int, NEW f, Numbers(f, S, a, b)
  PROVE  Cardinality(S) = IF a > b THEN 0 ELSE b - a + 1
<1>1. IsFiniteSet(a .. b) /\ Cardinality(a .. b) = IF a > b THEN 0 ELSE b - a + 1
  BY FS_Interval
<1>2. f \in Injection(S, a .. b) /\ f \in Surjection(S, a .. b)
  BY DEF Injection, Surjection, IsInjective, Numbers
<1>3. Cardinality(S) = Cardinality(a .. b)
  BY <1>1, <1>2, FS_Injection
<1> QED  BY <1>1, <1>3

CountsAre(c, s, b, z, n) ==
  /\ Cardinality({j \in 1 .. Len(b) : b[j].seq = s}) = z - n
  /\ Cardinality({i \in Idx : s \in c.seq[i]}) = n
  /\ {c.pos[i] : i \in {j \in Idx : s \in c.seq[j]}} = 0 .. n - 1

LEMMA HeldCounts ==
  ASSUME NEW c, NEW s, NEW p \in Seq(Tokens), NEW b, Len(b) \in Nat, NEW n \in 0 .. Len(p),
         CellsHold(c, s, p, n), BatchHolds(b, s, p, n)
  PROVE  CountsAre(c, s, b, Len(p), n)
<1> DEFINE z == Len(p)
           mine == {i \in Idx : s \in c.seq[i]}
           left == {j \in 1 .. Len(b) : b[j].seq = s}
           f == [i \in mine |-> c.pos[i]]
           g == [j \in left |-> b[j].pos]
<1>1. z \in Nat /\ n \in Nat /\ n <= z
  OBVIOUS
<1> HIDE DEF z
<1>2. Cardinality(mine) = n
  <2>1. f \in [mine -> 0 .. n - 1]
    BY DEF CellsHold
  <2>2. \A x, y \in mine : f[x] = f[y] => x = y
    BY DEF CellsHold
  <2>3. \A x \in 0 .. n - 1 : \E i \in mine : f[i] = x
    BY DEF CellsHold
  <2> DEFINE y == n - 1
  <2>4. y \in Int /\ 0 \in Int
    BY <1>1
  <2> HIDE DEF f, mine, y
  <2>5. Numbers(f, mine, 0, y)
    BY <2>1, <2>2, <2>3 DEF y, Numbers
  <2>6. Cardinality(mine) = IF 0 > y THEN 0 ELSE y - 0 + 1
    BY <2>4, <2>5, Counted
  <2> QED  BY <1>1, <2>6 DEF y
<1>3. {c.pos[i] : i \in mine} = 0 .. n - 1
  BY DEF CellsHold
<1>4. Cardinality(left) = z - n
  <2>0. /\ \A j \in 1 .. Len(b) : b[j].seq = s => b[j].pos \in n .. z - 1
        /\ \A x \in n .. z - 1 : \E j \in 1 .. Len(b) : b[j].seq = s /\ b[j].pos = x
        /\ \A i, j \in 1 .. Len(b) : b[i].seq = s /\ b[j].seq = s /\ i < j => b[i].pos < b[j].pos
    BY DEF BatchHolds, z
  <2>1. g \in [left -> n .. z - 1]
    BY <2>0
  <2>2. ASSUME NEW x \in left, NEW y \in left, g[x] = g[y]  PROVE x = y
    <3>1. x \in 1 .. Len(b) /\ y \in 1 .. Len(b) /\ b[x].seq = s /\ b[y].seq = s /\ b[x].pos = b[y].pos
      BY <2>2
    <3>2. b[x].pos \in Int
      BY <2>0, <3>1
    <3>3. ~(x < y) /\ ~(y < x)
      BY <2>0, <3>1, <3>2
    <3> QED  BY <3>1, <3>3
  <2>3. \A x \in n .. z - 1 : \E j \in left : g[j] = x
    BY <2>0
  <2> DEFINE y == z - 1
  <2>4. n \in Int /\ y \in Int
    BY <1>1
  <2> HIDE DEF g, left, y
  <2>5. Numbers(g, left, n, y)
    BY <2>1, <2>2, <2>3 DEF y, Numbers
  <2>6. Cardinality(left) = IF n > y THEN 0 ELSE y - n + 1
    BY <2>4, <2>5, Counted
  <2> QED  BY <1>1, <2>6 DEF y
<1> QED  BY <1>2, <1>3, <1>4 DEF z, CountsAre

(* update() moves and copies nothing that is private.                      *)
LEMMA UpdatedSame ==
  ASSUME SlotInv, copies = <<>>, NEW st \in Slots, Alone(cells[st])
  PROVE  Alone(Updated[st]) /\ \A t : SameFor(cells[st], Updated[st], t)
<1> DEFINE c == cells[st]
           d == Updated[st]
<1>1. c \in GoodCells
  BY NowTyped
<1>2. Copied(cells, copies)[st] = c.k
  BY NothingCopied DEF BaseRows
<1>3. d = ApplyShift([c EXCEPT !.k = c.k])
  <2>1. d = ApplyShift([c EXCEPT !.k = Copied(cells, copies)[st]])
    BY DEF Updated
  <2> QED  BY <1>2, <2>1
<1>4. [c EXCEPT !.k = c.k] = c
  BY <1>1, GoodFields DEF CellSet
<1>5. d = ApplyShift(c)
  BY <1>3, <1>4
<1> HIDE DEF c, d
<1>6. /\ d.pos = c.pos /\ d.seq = c.seq
      /\ d.k = [i \in Idx |-> IF c.pos[i] = -1 THEN NoRow
                              ELSE IF c.shift[i] = 0 THEN c.k[i]
                              ELSE Row(c.k[i].tok, c.k[i].rot + c.shift[i])]
  BY <1>1, <1>5, GoodFields DEF ApplyShift, CellSet
<1>7. \A i \in Idx : c.pos[i] # -1 => d.k[i].tok = c.k[i].tok
  <2> TAKE i \in Idx
  <2>1. Row(c.k[i].tok, c.k[i].rot + c.shift[i]).tok = c.k[i].tok
    BY DEF Row
  <2> QED  BY <1>6, <2>1
<1>8. \A i \in Idx : c.seq[i] # {} => c.pos[i] # -1
  BY <1>1, GoodFields DEF CellsAgree
<1>9. Alone(c)
  BY DEF c
<1>10. \A t : SameFor(c, d, t)
  BY <1>6, <1>7, <1>8 DEF SameFor
<1>11. Alone(d)
  BY <1>6, <1>9 DEF Alone
<1> QED  BY <1>10, <1>11 DEF c, d

(* A slot that holds its prompt attends to it in the next decode.          *)
LEMMA HoldsAttended ==
  ASSUME SlotInv, HoldsAll(Now), NEW s \in Slots
  PROVE  HoldsPrompt(Updated[StreamOf(s)], s)
<1> DEFINE st == StreamOf(s)
           c == Updated[st]
           p == prompt[s]
           mine == {i \in Idx : s \in c.seq[i]}
           left == Cardinality({j \in 1 .. Len(batch) : batch[j].seq = s})
<1>1. st \in Slots /\ p \in Seq(Tokens) /\ Len(batch) \in Nat
  BY NowTyped, SlotFacts
<1>2. copies = <<>> /\ Alone(cells[st]) /\ Has(cells[st], s, p, batch)
  BY <1>1, NowFields DEF HoldsAll, Private, SlotHolds
<1> HIDE DEF st, p
<1>3. PICK n \in 0 .. Len(p) : CellsHold(cells[st], s, p, n) /\ BatchHolds(batch, s, p, n)
  BY <1>2 DEF Has
<1>4. CellsHold(c, s, p, n)
  <2>1. SameFor(cells[st], c, s)
    BY <1>1, <1>2, UpdatedSame
  <2> HIDE DEF c
  <2> QED  BY <1>3, <2>1, SameHolds
<1> HIDE DEF c
<1>5. left = Len(p) - n /\ Cardinality(mine) = n /\ {c.pos[i] : i \in mine} = 0 .. n - 1
  <2> DEFINE b == batch
  <2>1. Len(b) \in Nat /\ BatchHolds(b, s, p, n)
    BY <1>1, <1>3
  <2> HIDE DEF b
  <2>2. CountsAre(c, s, b, Len(p), n)
    BY <1>1, <1>3, <1>4, <2>1, HeldCounts
  <2> QED  BY <2>2 DEF b, CountsAre
<1>6. \A i \in mine : c.k[i].tok = p[c.pos[i] + 1]
  BY <1>4 DEF CellsHold
<1>7. Len(p) - left = n
  <2> DEFINE z == Len(p)
  <2>1. z \in Nat /\ n \in 0 .. z /\ left = z - n
    BY <1>1, <1>5
  <2> HIDE DEF z, left
  <2>2. z - left = n
    BY <2>1
  <2> QED  BY <2>2 DEF z
<1> HIDE DEF left, mine
<1>8. HoldsPrompt(c, s)
  BY <1>5, <1>6, <1>7 DEF HoldsPrompt, left, mine, p
<1> QED  BY <1>8 DEF c, st

(* apply_ubatch() in every stream.                                         *)
LEMMA PlacedHolds ==
  ASSUME SlotInv, NEW c, Tidy(c), Fits(c), \A st \in Slots : Alone(c[st])
  PROVE  /\ \A st \in Slots : Alone(Placed(c)[st])
         /\ \A t \in Slots : \A p : \A n, m \in Nat :
              n <= m /\ CellsHold(c[StreamOf(t)], t, p, n) /\ UbHolds(View, t, p, n, m)
                => CellsHold(Placed(c)[StreamOf(t)], t, p, m)
<1> DEFINE Fills(st) == st \in Streams /\ Part(st) # <<>>
<1>1. ASSUME NEW st \in Slots, Fills(st)
      PROVE  /\ Alone(Placed(c)[st])
             /\ \A t, p : \A n, m \in Nat :
                  n <= m /\ CellsHold(c[st], t, p, n) /\ UbHolds(Part(st), t, p, n, m)
                    => CellsHold(Placed(c)[st], t, p, m)
  <2> DEFINE k == Len(Part(st))
             slot == FindSlot(c[st], k)
             ub == Part(st)
             b == c[st]
  <2>1. b \in GoodCells /\ Alone(b)
    BY DEF Tidy
  <2>2. k \in Nat /\ Len(FindSlot(b, k)) = k
    BY <1>1, PartFacts DEF Fits
  <2> HIDE DEF k
  <2>3. \A j \in 1 .. k : slot[j] \in Empty(b)
    BY <2>1, <2>2, FoundIsEmpty
  <2>4. \A i, j \in 1 .. k : slot[i] = slot[j] => i = j
    BY <2>1, <2>2, FoundOnce
  <2> DEFINE d == Place(b, slot, ub)
  <2>5. Placed(c)[st] = d
    BY <1>1 DEF Placed, k
  <2>6. k = Len(ub)
    BY DEF k
  <2> HIDE DEF slot, ub, b, d
  <2>7. d = Place(b, slot, ub)
    BY DEF d
  <2>8. /\ Alone(d)
        /\ \A t, p : \A n, m \in Nat : n <= m /\ CellsHold(b, t, p, n) /\ UbHolds(ub, t, p, n, m) => CellsHold(d, t, p, m)
    BY <2>1, <2>2, <2>3, <2>4, <2>6, <2>7, PlaceHolds
  <2> QED  BY <2>5, <2>8 DEF ub, b
<1>2. ASSUME NEW st \in Slots, ~Fills(st)  PROVE Placed(c)[st] = c[st]
  BY <1>2 DEF Placed
<1>3. \A st \in Slots : Alone(Placed(c)[st])
  <2> HIDE DEF Fills
  <2> QED  BY <1>1, <1>2
<1>4. ASSUME NEW t \in Slots, NEW p, NEW n \in Nat, NEW m \in Nat, n <= m,
             CellsHold(c[StreamOf(t)], t, p, n), UbHolds(View, t, p, n, m)
      PROVE  CellsHold(Placed(c)[StreamOf(t)], t, p, m)
  <2> DEFINE st == StreamOf(t)
  <2>1. st \in Slots /\ st \in Streams /\ UbHolds(Part(st), t, p, n, m)
    BY <1>4, SlotFacts, PartHolds DEF Streams
  <2>2. CASE Fills(st)
    <3> HIDE DEF Fills, st
    <3> QED  BY <1>1, <1>4, <2>1, <2>2 DEF st
  <2>3. CASE ~Fills(st)
    <3>1. Part(st) = <<>>
      BY <2>1, <2>3
    <3>2. Len(Part(st)) = 0
      BY <3>1
    <3>3. \A x \in n .. m - 1 : FALSE
      BY <2>1, <3>2 DEF UbHolds
    <3>4. n = m
      <4>1. n \in n .. m - 1 <=> n <= m - 1
        OBVIOUS
      <4> QED  BY <1>4, <3>3, <4>1
    <3>5. Placed(c)[st] = c[st]
      BY <1>2, <2>1, <2>3
    <3> QED  BY <1>4, <3>4, <3>5
  <2> QED  BY <2>2, <2>3
<1> QED  BY <1>3, <1>4

---------------------------------------------------------------------------
(* Errors: what is kept is what idle slots have.                           *)
IdleHold(w) == Private(w) /\ \A s \in Slots : w.state[s] = "idle" => InCells(w, s)

LEMMA SameInCells ==
  ASSUME NEW w, NEW v, NEW s, OthersSame(w, v, s), NEW x \in Slots, x # s, InCells(w, x)
  PROVE  InCells(v, x)
<1>1. SameSlot(w, v, x)
  BY DEF OthersSame
<1>2. v.prompt[x] = w.prompt[x] /\ SameFor(w.cells[StreamOf(x)], v.cells[StreamOf(x)], x)
  BY <1>1 DEF SameSlot
<1> QED  BY <1>2, SameHolds DEF InCells

(* The positions of the failed ubatch go from the slots that have some.    *)
RemovedHeld == {w \in SoundWorks : IdleHold(w) /\ w.state = state}

LEMMA RmViewHold ==
  ASSUME SlotInv, HoldsAll(Now), NEW w \in RemovedHeld, NEW s \in Slots
  PROVE  RmView(w, s) \in RemovedHeld
<1>1. Sound(w) /\ IdleHold(w) /\ Private(w) /\ w.state = state
  BY SoundSetsAre DEF RemovedHeld, IdleHold
<1>2. CASE Positions(s) = {}
  BY <1>2 DEF RmView
<1>3. CASE Positions(s) # {}
  <2>1. state[s] # "idle"
    <3>1. SUFFICES ASSUME state[s] = "idle"  PROVE FALSE
      OBVIOUS
    <3>2. NoEntries(batch, s)
      BY <3>1, NowFields DEF HoldsAll, SlotHolds
    <3>3. PICK j \in 1 .. NView : View[j].seq = s
      BY <1>3 DEF Positions
    <3>4. View[j] = batch[j] /\ j \in 1 .. Len(batch)
      BY ViewFacts, NowTyped DEF View
    <3> QED  BY <3>2, <3>3, <3>4 DEF NoEntries
  <2> DEFINE u == RmView(w, s)
             p0 == Min(Positions(s))
  <2>2. Sound(u)
    BY <1>1, NowTyped, ViewFacts, RmViewSound
  <2>3. p0 \in Int /\ Infinity \in Int
    <3>1. \A j \in 1 .. NView : View[j] \in Ents
      BY ViewFacts
    <3>2. Positions(s) \in SUBSET Nat
      BY <3>1, PosFacts DEF Positions, Ents
    <3>3. PICK x \in Positions(s) : \A y \in Positions(s) : x <= y
      BY <1>3, <3>2, LeastNatural
    <3>4. p0 \in Positions(s)
      BY <3>3 DEF Min
    <3> QED  BY <3>2, <3>4, PosFacts
  <2>4. u = Rm(w, s, p0, Infinity)
    BY <1>3 DEF RmView
  <2> HIDE DEF u, p0
  <2>5. Private(u) /\ OthersSame(w, u, s) /\ u.state = w.state
    <3> DEFINE v == Rm(w, s, p0, Infinity)
    <3>1. Private(v) /\ OthersSame(w, v, s)
      BY <1>1, <2>3, RmHold
    <3>2. OnlyRemoved(w, v, s, p0, Infinity)
      BY <1>1, <2>3, RmSound
    <3> HIDE DEF v
    <3>3. v.state = w.state
      BY <3>2 DEF OnlyRemoved, SameSlots
    <3> QED  BY <2>4, <3>1, <3>3 DEF v
  <2>6. ASSUME NEW x \in Slots, u.state[x] = "idle"  PROVE InCells(u, x)
    <3>1. x # s /\ InCells(w, x)
      BY <1>1, <2>1, <2>5, <2>6 DEF IdleHold
    <3> QED  BY <2>5, <3>1, SameInCells
  <2>7. IdleHold(u)
    BY <2>5, <2>6 DEF IdleHold
  <2> QED  BY <1>1, <2>2, <2>5, <2>7, SoundSetsAre DEF RemovedHeld, u
<1> QED  BY <1>2, <1>3

LEMMA RmViewsHold ==
  ASSUME SlotInv, HoldsAll(Now), NEW w \in RemovedHeld
  PROVE  InSlotOrder(RmView, w) \in RemovedHeld
<1> DEFINE W == [n \in 0 .. NSlots |-> RemovedHeld]
<1>0. \A n \in 0 .. NSlots : W[n] = RemovedHeld
  OBVIOUS
<1> HIDE DEF W
<1>1. w \in W[0]
  BY <1>0, SoundSetsAre
<1>2. ASSUME NEW n \in 0 .. NSlots - 1, NEW v \in W[n]  PROVE RmView(v, n) \in W[n + 1]
  <2>1. v \in RemovedHeld /\ n \in Slots /\ n + 1 \in 0 .. NSlots
    BY <1>0, SlotFacts
  <2> QED  BY <1>0, <2>1, RmViewHold
<1>3. InSlotOrder(RmView, w) \in W[NSlots]
  BY <1>1, <1>2, RmViewLoop
<1> QED  BY <1>0, <1>3, SoundSetsAre

(* Every slot is released and cleared.                                     *)
Failed(n) == {w \in SoundWorks : IdleHold(w) /\ \A s \in Slots : s < n => w.state[s] = "idle"}

LEMMA FailHold ==
  ASSUME NEW n \in Slots, NEW w \in Failed(n)
  PROVE  (IF w.state[n] = "idle" THEN w ELSE Clear(Release(w, n), n)) \in Failed(n + 1)
<1>1. Sound(w) /\ IdleHold(w) /\ Private(w) /\ \A s \in Slots : s < n => w.state[s] = "idle"
  BY SoundSetsAre DEF Failed, IdleHold
<1>2. \A s \in Slots : s < n + 1 <=> s < n \/ s = n
  BY SlotFacts
<1>3. CASE w.state[n] = "idle"
  BY <1>1, <1>2, <1>3, SoundSetsAre DEF Failed
<1>4. CASE w.state[n] # "idle"
  <2> DEFINE r == Release(w, n)
             u == Clear(r, n)
  <2>1. Sound(r) /\ Released(w, r, n) /\ Private(r) /\ OthersSame(w, r, n)
    BY <1>1, ReleaseSound, ReleaseHold
  <2> HIDE DEF r
  <2>2. Sound(u) /\ OnlyCleared(r, u, n) /\ Private(u) /\ OthersSame(r, u, n) /\ InCells(u, n)
    BY <2>1, ClearSound, ClearHold
  <2> HIDE DEF u
  <2>3. u.state = r.state /\ r.state[n] = "idle"
    BY <2>1, <2>2 DEF OnlyCleared, SameSlots, Released
  <2>4. \A x \in Slots : x # n => r.state[x] = w.state[x]
    BY <2>1 DEF OthersSame, SameSlot
  <2>5. ASSUME NEW x \in Slots, u.state[x] = "idle"  PROVE InCells(u, x)
    <3>1. CASE x = n
      BY <2>2, <3>1
    <3>2. CASE x # n
      <4>1. InCells(w, x)
        BY <1>1, <2>3, <2>4, <2>5, <3>2 DEF IdleHold
      <4>2. InCells(r, x)
        BY <2>1, <3>2, <4>1, SameInCells
      <4> QED  BY <2>2, <3>2, <4>2, SameInCells
    <3> QED  BY <3>1, <3>2
  <2>6. \A s \in Slots : s < n + 1 => u.state[s] = "idle"
    BY <1>1, <1>2, <2>3, <2>4
  <2>7. u \in Failed(n + 1)
    BY <2>2, <2>5, <2>6, SoundSetsAre DEF Failed, IdleHold
  <2> QED  BY <1>4, <2>7 DEF u, r
<1> QED  BY <1>3, <1>4

LEMMA FailsHold ==
  ASSUME NEW w, Sound(w), IdleHold(w)
  PROVE  FailAll(w) \in Failed(NSlots)
<1> DEFINE W == [n \in 0 .. NSlots |-> Failed(n)]
<1>0. \A n \in 0 .. NSlots : W[n] = Failed(n)
  OBVIOUS
<1> HIDE DEF W
<1>1. w \in W[0]
  <2>1. \A s \in Slots : ~(s < 0)
    BY SlotFacts
  <2>2. w \in Failed(0)
    BY <2>1, SoundSetsAre DEF Failed
  <2> QED  BY <1>0, <2>2, SoundSetsAre
<1>2. ASSUME NEW n \in 0 .. NSlots - 1, NEW v \in W[n]
      PROVE  (IF v.state[n] = "idle" THEN v ELSE Clear(Release(v, n), n)) \in W[n + 1]
  <2>1. v \in Failed(n) /\ n \in Slots /\ n \in 0 .. NSlots /\ n + 1 \in 0 .. NSlots
    BY <1>0, SlotFacts
  <2> QED  BY <1>0, <2>1, FailHold
<1>3. FailAll(w) \in W[NSlots]
  BY <1>1, <1>2, FailLoop
<1> QED  BY <1>0, <1>3, SoundSetsAre

---------------------------------------------------------------------------
(* A decode: the view goes to the cells, and the rest stays in the batch.  *)
HasFields(v, c, b) ==
  /\ v.cells = c /\ v.copies = <<>> /\ v.state = state /\ v.role = role /\ v.kin = kin
  /\ v.prompt = prompt /\ v.iBatch = iBatch /\ v.batch = b

LEMMA WorkingFields ==
  ASSUME SlotInv, NEW c, NEW b
  PROVE  HasFields([Working(c) EXCEPT !.batch = b], c, b) /\ HasFields(Working(c), c, batch)
<1> DEFINE e == << >>
           u == Working(c)
           v == [Working(c) EXCEPT !.batch = b]
<1>1. /\ u = [Now EXCEPT !.cells = c, !.copies = e]
      /\ v = [[Now EXCEPT !.cells = c, !.copies = e] EXCEPT !.batch = b]
  BY DEF Working
<1> HIDE DEF e, u, v
<1>2. u = [cells |-> c, copies |-> e, state |-> state, role |-> role,
           kin |-> kin, prompt |-> prompt, iBatch |-> iBatch, batch |-> batch]
  BY <1>1 DEF Now
<1>3. v = [cells |-> c, copies |-> e, state |-> state, role |-> role,
           kin |-> kin, prompt |-> prompt, iBatch |-> iBatch, batch |-> b]
  BY <1>1 DEF Now
<1>4. HasFields(v, c, b)
  BY <1>3 DEF HasFields, e
<1>5. HasFields(u, c, batch)
  BY <1>2 DEF HasFields, e
<1> QED  BY <1>4, <1>5 DEF u, v

LEMMA WorkingPrivate ==
  ASSUME HoldsAll(Now), NEW v, NEW c, NEW b, HasFields(v, c, b), \A st \in Slots : Alone(c[st])
  PROVE  Private(v)
BY NowFields DEF HoldsAll, Private, HasFields

LEMMA UpdatedHolds ==
  ASSUME SlotInv, HoldsAll(Now)
  PROVE  /\ \A st \in Slots : Alone(Updated[st])
         /\ \A s \in Slots : Has(Updated[StreamOf(s)], s, prompt[s], batch)
<1>1. copies = <<>> /\ \A st \in Slots : Alone(cells[st])
  BY NowFields DEF HoldsAll, Private
<1>2. \A st \in Slots : Alone(Updated[st]) /\ \A t : SameFor(cells[st], Updated[st], t)
  BY <1>1, UpdatedSame
<1>3. ASSUME NEW s \in Slots  PROVE Has(Updated[StreamOf(s)], s, prompt[s], batch)
  <2> DEFINE st == StreamOf(s)
             p == prompt[s]
             d == Updated[st]
             c == cells[st]
  <2>1. st \in Slots /\ SameFor(c, d, s)
    BY <1>2, SlotFacts
  <2>2. Has(c, s, p, batch)
    BY NowFields DEF HoldsAll, SlotHolds
  <2> HIDE DEF st, p, d, c
  <2>3. Has(d, s, p, batch)
    BY <2>1, <2>2, SameHolds DEF Has
  <2> QED  BY <2>3 DEF st, p, d
<1> QED  BY <1>2, <1>3

(* update() alone.                                                         *)
LEMMA WorkingHold ==
  ASSUME SlotInv, HoldsAll(Now)
  PROVE  HoldsAll(Working(Updated))
<1> DEFINE w == Working(Updated)
           c == Updated
<1>1. HasFields(w, c, batch)
  BY WorkingFields
<1>2. \A st \in Slots : Alone(c[st])
  BY UpdatedHolds
<1>3. \A s \in Slots : Has(c[StreamOf(s)], s, prompt[s], batch)
  BY UpdatedHolds
<1> HIDE DEF w, c
<1>4. Private(w)
  BY <1>1, <1>2, WorkingPrivate
<1>5. ASSUME NEW s \in Slots  PROVE SlotHolds(w, s)
  <2>1. SlotHolds(Now, s)
    BY DEF HoldsAll
  <2> QED  BY <1>1, <1>3, <2>1, NowFields DEF SlotHolds, HasFields
<1> QED  BY <1>4, <1>5 DEF HoldsAll, w

(* After apply_ubatch(): Rest is counted from the end of the view.         *)
LeftHolds(w, s) ==
  /\ Has(w.cells[StreamOf(s)], s, w.prompt[s], w.batch)
  /\ w.state[s] = "idle" => NoEntries(w.batch, s)
  /\ w.iBatch[s] # 0 => NothingAfter(w.batch, s, w.iBatch[s] - NView)
  /\ w.state[s] = "prompt" => w.prompt[s] = SubSeq(input[s], 1, Len(w.prompt[s]))

LEMMA RestTokens ==
  ASSUME SlotInv
  PROVE  /\ \A j \in 1 .. NView : View[j] = batch[j]
         /\ \A j \in 1 .. Len(batch) - NView : Rest[j] = batch[NView + j]
<1> DEFINE k == NView
           z == Len(batch)
<1>1. k \in Nat /\ z \in Nat /\ k <= z /\ batch \in Seq(Ents)
  BY ViewFacts, NowTyped
<1>2. \A j \in 1 .. k : SubSeq(batch, 1, k)[j] = batch[j]
  BY <1>1
<1>3. \A j \in 1 .. z - k : SubSeq(batch, k + 1, z)[j] = batch[k + j]
  BY <1>1
<1> QED  BY <1>2, <1>3 DEF View, Rest

LEMMA DecodedHas ==
  ASSUME SlotInv, HoldsAll(Now), NEW c, c = Updated, Fits(c), NEW s \in Slots
  PROVE  Has(Placed(c)[StreamOf(s)], s, prompt[s], Rest)
<1> DEFINE st == StreamOf(s)
           p == prompt[s]
           d == Placed(c)[st]
           b == c[st]
<1>1. Tidy(c) /\ \A x \in Slots : Alone(c[x])
  BY UpdatedTidy, UpdatedHolds
<1>2. st \in Slots /\ p \in Seq(Tokens)
  BY SlotFacts, NowTyped
<1>3. Has(b, s, p, batch)
  BY UpdatedHolds
<1> HIDE DEF p
<1>4. PICK n \in 0 .. Len(p) : CellsHold(b, s, p, n) /\ BatchHolds(batch, s, p, n)
  BY <1>3 DEF Has
<1>5. n \in Nat /\ n <= Len(p)
  BY <1>2
<1> DEFINE v == View
           r == Rest
           k == NView
<1>6. /\ k \in Nat /\ k <= Len(batch) /\ Len(batch) \in Nat
      /\ Len(v) = k /\ Len(r) = Len(batch) - k
  BY ViewFacts, NowTyped
<1>7. (\A j \in 1 .. k : v[j] = batch[j]) /\ \A j \in 1 .. Len(batch) - k : r[j] = batch[k + j]
  BY RestTokens
<1> HIDE DEF v, r, k
<1>8. PICK m \in n .. Len(p) : UbHolds(v, s, p, n, m) /\ BatchHolds(r, s, p, m)
  BY <1>2, <1>4, <1>5, <1>6, <1>7, BatchSplits
<1>9. m \in Nat /\ n <= m /\ m \in 0 .. Len(p)
  BY <1>2, <1>5
<1>10. CellsHold(d, s, p, m)
  BY <1>1, <1>4, <1>5, <1>8, <1>9, PlacedHolds DEF v
<1> HIDE DEF d
<1>11. Has(d, s, p, r)
  BY <1>8, <1>9, <1>10 DEF Has
<1> QED  BY <1>11 DEF d, p, r, st

LEMMA DecodedHold ==
  ASSUME SlotInv, HoldsAll(Now), NEW c, c = Updated, Fits(c),
         NEW v, v = [Working(Placed(c)) EXCEPT !.batch = Rest]
  PROVE  Private(v) /\ \A s \in Slots : LeftHolds(v, s)
<1> DEFINE r == Rest
           k == NView
           d == Placed(c)
<1>1. HasFields(v, d, r)
  BY WorkingFields
<1>2. \A st \in Slots : Alone(d[st])
  <2>1. Tidy(c) /\ \A x \in Slots : Alone(c[x])
    BY UpdatedTidy, UpdatedHolds
  <2> QED  BY <2>1, PlacedHolds
<1>3. \A s \in Slots : Has(d[StreamOf(s)], s, prompt[s], r)
  BY DecodedHas
<1>4. /\ k \in Nat /\ k <= Len(batch) /\ Len(batch) \in Nat /\ Len(r) = Len(batch) - k
  BY ViewFacts, NowTyped
<1>5. \A j \in 1 .. Len(batch) - k : r[j] = batch[k + j]
  BY RestTokens
<1>6. iBatch \in [Slots -> 0 .. BatchSize] /\ NBatch \in Nat
  BY NowTyped, SlotFacts
<1> HIDE DEF r, d, k
<1>9. \A j \in 1 .. Len(r) : k + j \in 1 .. Len(batch) /\ r[j] = batch[k + j]
  <2> DEFINE z == Len(batch)
             x == Len(r)
  <2>1. k \in Nat /\ k <= z /\ z \in Nat /\ x = z - k /\ \A j \in 1 .. z - k : r[j] = batch[k + j]
    BY <1>4, <1>5
  <2> HIDE DEF z, x
  <2>2. \A j \in 1 .. x : k + j \in 1 .. z /\ r[j] = batch[k + j]
    BY <2>1
  <2> QED  BY <2>2 DEF z, x
<1>7. Private(v)
  BY <1>1, <1>2, WorkingPrivate
<1>8. ASSUME NEW s \in Slots  PROVE LeftHolds(v, s)
  <2>1. SlotHolds(Now, s)
    BY DEF HoldsAll
  <2>2. NoEntries(batch, s) => NoEntries(r, s)
    BY <1>9 DEF NoEntries
  <2> DEFINE i == iBatch[s]
  <2>3. i \in Int
    BY <1>6
  <2> HIDE DEF i
  <2>4. ASSUME NothingAfter(batch, s, i)  PROVE NothingAfter(r, s, i - k)
    <3>1. SUFFICES ASSUME NEW j \in 1 .. Len(r), j > i - k  PROVE r[j].seq # s
      BY DEF NothingAfter
    <3>2. k + j \in 1 .. Len(batch) /\ r[j] = batch[k + j]
      BY <1>9
    <3>3. k + j > i
      BY <1>4, <2>3, <3>1
    <3> QED  BY <2>4, <3>2, <3>3 DEF NothingAfter
  <2>5. v.iBatch[s] # 0 => NothingAfter(r, s, v.iBatch[s] - k)
    BY <1>1, <2>1, <2>4, NowFields DEF SlotHolds, HasFields, i
  <2>6. (v.state[s] = "idle" => NoEntries(r, s))
        /\ (v.state[s] = "prompt" => v.prompt[s] = SubSeq(input[s], 1, Len(v.prompt[s])))
    BY <1>1, <2>1, <2>2, NowFields DEF SlotHolds, HasFields
  <2> QED  BY <1>1, <1>3, <2>5, <2>6 DEF LeftHolds, HasFields, k
<1> QED  BY <1>7, <1>8

(* What an idle slot has stays when the ubatch is placed, and fails.       *)
LEMMA PlacedRemoved ==
  ASSUME SlotInv, HoldsAll(Now), NEW c, c = Updated, Fits(c), NEW w, w = Working(Placed(c))
  PROVE  w \in RemovedHeld
<1> DEFINE d == Placed(c)
<1>0. Tidy(c) /\ \A x \in Slots : Alone(c[x])
  BY UpdatedTidy, UpdatedHolds
<1>1. HasFields(w, d, batch)
  BY WorkingFields
<1>2. \A st \in Slots : Alone(d[st])
  BY <1>0, PlacedHolds
<1>3. Sound(w)
  BY <1>0, PlacedTidy, UpdatedSound
<1>4. ASSUME NEW s \in Slots, state[s] = "idle"
      PROVE  CellsHold(d[StreamOf(s)], s, prompt[s], Len(prompt[s]))
  <2> DEFINE p == prompt[s]
             z == Len(p)
             v == View
  <2>1. p \in Seq(Tokens) /\ z \in Nat
    BY NowTyped
  <2>2. NoEntries(batch, s)
    BY <1>4, NowFields DEF HoldsAll, SlotHolds
  <2>3. Has(c[StreamOf(s)], s, p, batch)
    BY UpdatedHolds
  <2> HIDE DEF p
  <2>4. CellsHold(c[StreamOf(s)], s, p, z)
    BY <2>1, <2>2, <2>3, AllInCells
  <2>5. Len(v) \in Nat /\ \A j \in 1 .. Len(v) : v[j].seq # s
    <3>1. Len(v) = NView /\ NView \in Nat
      BY ViewFacts
    <3>2. \A j \in 1 .. NView : j \in 1 .. Len(batch)
      BY <3>1, ViewFacts, NowTyped
    <3>3. \A j \in 1 .. NView : v[j] = batch[j]
      BY RestTokens
    <3> QED  BY <2>2, <3>1, <3>2, <3>3 DEF NoEntries
  <2> HIDE DEF v, z
  <2>6. UbHolds(v, s, p, z, z)
    <3>1. \A x \in z .. z - 1 : FALSE
      BY <2>1
    <3> QED  BY <2>5, <3>1 DEF UbHolds
  <2>7. z <= z
    BY <2>1
  <2>8. CellsHold(d[StreamOf(s)], s, p, z)
    BY <1>0, <2>1, <2>4, <2>6, <2>7, PlacedHolds DEF v
  <2> QED  BY <2>8 DEF p, z
<1> HIDE DEF d
<1>5. Private(w)
  BY <1>1, <1>2, WorkingPrivate
<1>6. IdleHold(w)
  BY <1>1, <1>4, <1>5 DEF IdleHold, InCells, HasFields
<1> QED  BY <1>1, <1>3, <1>6, SoundSetsAre DEF RemovedHeld, HasFields

(* What is left of the batch has nothing of the slots that are sampled.    *)
LEMMA SampledGone ==
  ASSUME SlotInv, NEW w, Sound(w), NEW s \in Sampled(w), LeftHolds(w, s)
  PROVE  NoEntries(w.batch, s)
<1> DEFINE i == w.iBatch[s]
           k == NView
<1>1. k \in Nat /\ i \in 1 .. k
  BY ViewFacts DEF Sampled
<1>2. NothingAfter(w.batch, s, i - k)
  BY <1>1 DEF LeftHolds
<1> HIDE DEF i, k
<1>3. \A j \in 1 .. Len(w.batch) : j > i - k
  <2>1. Len(w.batch) \in Nat
    BY WorkFields DEF Sound
  <2> QED  BY <1>1, <2>1
<1> QED  BY <1>2, <1>3 DEF NothingAfter, NoEntries

LEMMA GoingHold ==
  ASSUME SlotInv, NEW w, Sound(w), Private(w), \A s \in Slots : LeftHolds(w, s)
  PROVE  HoldsAll(Going(w))
<1> DEFINE v == Going(w)
<1>1. OnlySampled(w, v)
  BY GoingSound
<1> HIDE DEF v
<1>2. Private(v)
  BY <1>1 DEF Private, OnlySampled
<1>3. ASSUME NEW s \in Slots  PROVE SlotHolds(v, s)
  <2>1. LeftHolds(w, s)
    OBVIOUS
  <2>2. /\ v.cells = w.cells /\ v.prompt = w.prompt /\ v.batch = w.batch
        /\ v.state[s] = IF s \in Sampled(w) THEN "generating" ELSE w.state[s]
        /\ v.iBatch[s] = IF s \in Sampled(w) \/ w.iBatch[s] = 0 THEN 0 ELSE w.iBatch[s] - NView
    BY <1>1 DEF OnlySampled
  <2>3. CASE s \in Sampled(w)
    BY <2>1, <2>2, <2>3 DEF LeftHolds, SlotHolds
  <2>4. CASE s \notin Sampled(w)
    BY <2>1, <2>2, <2>4 DEF LeftHolds, SlotHolds
  <2> QED  BY <2>3, <2>4
<1> QED  BY <1>2, <1>3 DEF HoldsAll, v

LEMMA SampleHolds ==
  ASSUME SlotInv, NEW w, Sound(w), Private(w), \A s \in Slots : LeftHolds(w, s),
         NEW ends, ends \subseteq Sampled(w)
  PROVE  HoldsAll(Sample(w, ends)) /\ Sample(w, ends).batch = w.batch
<1>1. Sample(w, ends) = EndAll(Going(w), ends)
  BY DEF Sample, Going
<1> DEFINE v == Going(w)
<1>2. Sound(v) /\ OnlySampled(w, v) /\ HoldsAll(v)
  BY GoingSound, GoingHold
<1> HIDE DEF v
<1>3. \A s \in ends : NoEntries(v.batch, s)
  <2>1. \A s \in ends : NoEntries(w.batch, s)
    BY SampledGone DEF Sampled
  <2> QED  BY <1>2, <2>1 DEF OnlySampled
<1>4. HoldsAll(EndAll(v, ends)) /\ EndAll(v, ends).batch = v.batch
  BY <1>2, <1>3, EndsHold
<1> QED  BY <1>1, <1>2, <1>4 DEF v, OnlySampled

---------------------------------------------------------------------------
(* The actions keep what the slots hold.                                   *)
BatchedHolds(w, b, s) ==
  /\ Has(w.cells[StreamOf(s)], s, w.prompt[s], b)
  /\ w.state[s] = "idle" => NoEntries(b, s)
  /\ w.iBatch[s] # 0 => NothingAfter(b, s, w.iBatch[s])
  /\ w.state[s] = "prompt" => w.prompt[s] = SubSeq(input[s], 1, Len(w.prompt[s]))

LEMMA BecomeBatched ==
  ASSUME NEW v, Private(v), Become(v), mode' = mode, input' = input, NEW b, batch' = b,
         \A s \in Slots : BatchedHolds(v, b, s)
  PROVE  HoldsAll(Now)'
<1>1. /\ cells' = v.cells /\ copies' = v.copies /\ state' = v.state /\ role' = v.role
      /\ kin' = v.kin /\ prompt' = v.prompt /\ iBatch' = v.iBatch
  BY DEF Become
<1>2. /\ Now'.cells = v.cells /\ Now'.copies = v.copies /\ Now'.state = v.state /\ Now'.role = v.role
      /\ Now'.kin = v.kin /\ Now'.prompt = v.prompt /\ Now'.iBatch = v.iBatch /\ Now'.batch = b
  BY <1>1 DEF Now
<1>3. Private(Now)'
  BY <1>2 DEF Private
<1>4. ASSUME NEW s \in Slots  PROVE SlotHolds(Now, s)'
  <2>1. BatchedHolds(v, b, s)
    OBVIOUS
  <2>2. StreamOf(s)' = StreamOf(s)
    BY DEF StreamOf
  <2> QED  BY <1>2, <2>1, <2>2 DEF SlotHolds, BatchedHolds
<1> QED  BY <1>3, <1>4 DEF HoldsAll

LEMMA BecomeHolds ==
  ASSUME NEW v, HoldsAll(v), Become(v), mode' = mode, input' = input, batch' = v.batch
  PROVE  HoldsAll(Now)'
<1>1. \A s \in Slots : BatchedHolds(v, v.batch, s)
  BY DEF HoldsAll, SlotHolds, BatchedHolds
<1> QED  BY <1>1, BecomeBatched DEF HoldsAll

(* After an error there is no batch, and every slot is idle.               *)
LEMMA BecomeFailed ==
  ASSUME NEW v \in Failed(NSlots), Become(v), mode' = mode, input' = input, batch' = <<>>
  PROVE  HoldsAll(Now)'
<1> DEFINE b == << >>
<1>1. Sound(v) /\ IdleHold(v) /\ \A s \in Slots : v.state[s] = "idle"
  <2>1. \A s \in Slots : s < NSlots
    BY SlotFacts DEF Slots
  <2> QED  BY <2>1, SoundSetsAre DEF Failed
<1>2. ASSUME NEW s \in Slots  PROVE BatchedHolds(v, b, s)
  <2>1. NoEntries(b, s) /\ \A k : NothingAfter(b, s, k)
    BY DEF NoEntries, NothingAfter
  <2> HIDE DEF b
  <2> DEFINE p == v.prompt[s]
  <2>2. p \in Seq(Tokens)
    BY <1>1, WorkFields DEF Sound
  <2>3. CellsHold(v.cells[StreamOf(s)], s, p, Len(p))
    BY <1>1 DEF IdleHold, InCells
  <2> HIDE DEF p
  <2>4. Has(v.cells[StreamOf(s)], s, p, b)
    BY <2>1, <2>2, <2>3, AllInCells
  <2> QED  BY <1>1, <2>1, <2>4 DEF BatchedHolds, p
<1> QED  BY <1>1, <1>2, BecomeBatched DEF IdleHold

LEMMA HoldsIdle ==
  ASSUME NEW w, Sound(w), HoldsAll(w)
  PROVE  IdleHold(w)
<1>1. ASSUME NEW s \in Slots, w.state[s] = "idle"  PROVE InCells(w, s)
  <2> DEFINE p == w.prompt[s]
  <2>1. p \in Seq(Tokens)
    BY WorkFields DEF Sound
  <2>2. NoEntries(w.batch, s) /\ Has(w.cells[StreamOf(s)], s, p, w.batch)
    BY <1>1 DEF HoldsAll, SlotHolds
  <2> HIDE DEF p
  <2>3. CellsHold(w.cells[StreamOf(s)], s, p, Len(p))
    BY <2>1, <2>2, AllInCells
  <2> QED  BY <2>3 DEF InCells, p
<1> QED  BY <1>1 DEF IdleHold, HoldsAll

LEMMA InitHolds ==
  ASSUME Init
  PROVE  HoldsAll(Now)
<1>1. \A st \in Slots : \A i \in Idx : cells[st].seq[i] = {}
  BY DEF Init, EmptyCells
<1>2. Private(Now)
  BY <1>1, NowFields DEF Init, Private, Alone
<1>3. ASSUME NEW s \in Slots  PROVE SlotHolds(Now, s)
  <2> DEFINE p == prompt[s]
             b == batch
             c == cells[StreamOf(s)]
  <2>1. p \in Seq(Tokens) /\ Len(p) = 0 /\ NoEntries(b, s)
    BY DEF Init, NoEntries
  <2>2. \A i \in Idx : c.seq[i] = {}
    BY <1>1, SlotFacts
  <2> HIDE DEF p, b, c
  <2>3. CellsHold(c, s, p, Len(p))
    BY <2>1, <2>2 DEF CellsHold
  <2>4. Has(c, s, p, b)
    BY <2>1, <2>3, AllInCells
  <2>5. state[s] = "idle" /\ iBatch[s] = 0
    BY DEF Init
  <2> QED  BY <2>1, <2>4, <2>5, NowFields DEF SlotHolds, p, b, c
<1> QED  BY <1>2, <1>3 DEF HoldsAll

LEMMA LaunchHolds ==
  ASSUME SlotInv, HoldsAll(Now), NEW s \in Slots, NEW p \in Prompts, Launch(s, p, {})
  PROVE  HoldsAll(Now)'
<1>1. /\ mode' = mode /\ batch' = batch /\ cells' = cells /\ copies' = copies
      /\ prompt' = prompt /\ iBatch' = iBatch
  BY DEF Launch
<1>2. \A x \in Slots :
        /\ state'[x] = IF x = s THEN "started" ELSE state[x]
        /\ role'[x] = IF x = s THEN "single" ELSE role[x]
        /\ kin'[x] = kin[x] /\ input'[x] = IF x = s THEN p ELSE input[x]
  BY DEF Launch
<1>3. /\ Now'.cells = cells /\ Now'.copies = copies /\ Now'.state = state' /\ Now'.role = role'
      /\ Now'.kin = kin' /\ Now'.prompt = prompt /\ Now'.iBatch = iBatch /\ Now'.batch = batch
  BY <1>1 DEF Now
<1>4. Private(Now)'
  BY <1>2, <1>3, NowFields DEF HoldsAll, Private
<1>5. ASSUME NEW x \in Slots  PROVE SlotHolds(Now, x)'
  <2>1. SlotHolds(Now, x)
    BY DEF HoldsAll
  <2>2. StreamOf(x)' = StreamOf(x)
    BY <1>1 DEF StreamOf
  <2>3. CASE x = s
    BY <1>2, <1>3, <2>1, <2>2, <2>3, NowFields DEF SlotHolds
  <2>4. CASE x # s
    BY <1>2, <1>3, <2>1, <2>2, <2>4, NowFields DEF SlotHolds
  <2> QED  BY <2>3, <2>4
<1> QED  BY <1>4, <1>5 DEF HoldsAll

LEMMA CancelHolds ==
  ASSUME SlotInv, HoldsAll(Now), NEW s \in Slots, Cancel(s)
  PROVE  HoldsAll(Now)'
<1> DEFINE v == Release(Now, s)
<1>1. Become(v) /\ mode' = mode /\ input' = input /\ batch' = batch /\ pc = "tasks"
  BY DEF Cancel
<1>2. Sound(Now) /\ Private(Now) /\ SlotHolds(Now, s)
  BY NowTyped DEF HoldsAll
<1>3. NoEntries(Now.batch, s)
  BY <1>1, NowFields DEF SlotInv, NoEntries
<1>4. Private(v) /\ OthersSame(Now, v, s) /\ SlotHolds(v, s)
  BY <1>2, <1>3, ReleaseHold
<1>5. v.batch = batch
  BY <1>2, NowFields, ReleaseSound DEF Released
<1> HIDE DEF v
<1>6. HoldsAll(v)
  BY <1>4, HoldsStep
<1> QED  BY <1>1, <1>5, <1>6, BecomeHolds

LEMMA EraseHolds ==
  ASSUME SlotInv, HoldsAll(Now), NEW s \in Slots, Erase(s)
  PROVE  HoldsAll(Now)'
<1> DEFINE v == Clear(Now, s)
<1>1. Become(v) /\ mode' = mode /\ input' = input /\ batch' = batch /\ pc = "tasks"
  BY DEF Erase
<1>2. Sound(Now) /\ Private(Now)
  BY NowTyped DEF HoldsAll
<1>3. NoEntries(Now.batch, s)
  BY <1>1, NowFields DEF SlotInv, NoEntries
<1>4. Private(v) /\ OthersSame(Now, v, s) /\ SlotHolds(v, s)
  BY <1>2, <1>3, ClearHold
<1>5. v.batch = batch
  BY <1>2, NowFields, ClearSound DEF OnlyCleared, SameSlots
<1> HIDE DEF v
<1>6. HoldsAll(v)
  BY <1>4, HoldsStep
<1> QED  BY <1>1, <1>5, <1>6, BecomeHolds

LEMMA StartPassHolds ==
  ASSUME SlotInv, HoldsAll(Now), DiscardsLess, StartPass
  PROVE  HoldsAll(Now)'
<1>1. PICK sampled \in [{s \in Slots : state[s] = "generating"} -> Sampleable] :
        \E full \in {InSlotOrder(AddPrompt, AddAllSampled(InSlotOrder(ShiftContext, Now), sampled))} :
          Become(full) /\ batch' = full.batch
  BY DEF StartPass
<1> DEFINE shifted == InSlotOrder(ShiftContext, Now)
           added == AddAllSampled(shifted, sampled)
           full == InSlotOrder(AddPrompt, added)
<1>2. Become(full) /\ batch' = full.batch
  BY <1>1
<1>3. shifted \in ShiftedUpTo(Now, NSlots)
  BY NowTyped, ShiftsSound DEF SlotInv
<1>4. pc = "tasks" /\ batch = <<>> /\ mode' = mode /\ input' = input /\ mode \in Modes
  BY DEF StartPass, SlotInv
<1>5. HoldsAll(shifted)
  BY <1>4, NowTyped, NowFields, ShiftsHold
<1> HIDE DEF shifted
<1>6. /\ Sound(shifted) /\ shifted.batch = <<>>
      /\ \A s \in Slots : Generating(shifted, s) => state[s] = "generating"
  BY <1>3, <1>4, NowFields, SoundSetsAre DEF ShiftedUpTo, Generating
<1>7. \A s \in Slots : HasRoom(shifted, s)
  <2>1. \A s \in Slots : s < NSlots
    BY SlotFacts DEF Slots
  <2> QED  BY <1>3, <2>1 DEF ShiftedUpTo
<1>8. \A s \in Slots : Generating(shifted, s) => sampled[s] \in Tokens
  BY <1>6, SlotFacts
<1>9. Sound(added)
  BY <1>6, <1>7, <1>8, AllSampledSound
<1>10. HoldsAll(added) /\ \A s \in Slots : added.state[s] # "generating" => NoEntries(added.batch, s)
  BY <1>5, <1>6, <1>7, <1>8, AllSampledHold
<1> HIDE DEF added
<1>11. HoldsAll(full)
  BY <1>9, <1>10, PromptsHold
<1> HIDE DEF full
<1> QED  BY <1>2, <1>4, <1>11, BecomeHolds

LEMMA DecodeViewHolds ==
  ASSUME SlotInv, HoldsAll(Now), NEW c, c = Updated, mode' = mode, input' = input, DecodeView(c)
  PROVE  HoldsAll(Now)'
<1> DEFINE w == [Working(Placed(c)) EXCEPT !.batch = Rest]
           active == InSlotOrder(ActivateChild, w)
<1>1. Fits(c) /\ batch' = Rest
  BY DEF DecodeView
<1>2. PICK ends : ends \subseteq Sampled(active) /\ Become(Sample(active, ends))
  BY DEF DecodeView
<1>3. Tidy(c) /\ Rest \in Seq(Ents) /\ Len(Rest) <= BatchSize
  BY UpdatedTidy, ViewFacts, NowTyped, SlotFacts
<1>4. Sound(w)
  BY <1>1, <1>3, PlacedTidy, WorkingSound
<1>5. Private(w) /\ \A s \in Slots : LeftHolds(w, s)
  BY <1>1, DecodedHold
<1>6. w.batch = Rest
  BY WorkingFields DEF HasFields
<1> HIDE DEF w
<1>7. active = w
  BY <1>5, NobodyActivated
<1> HIDE DEF active
<1> DEFINE v == Sample(w, ends)
<1>8. HoldsAll(v) /\ v.batch = w.batch
  BY <1>2, <1>4, <1>5, <1>7, SampleHolds
<1>9. Become(v)
  BY <1>2, <1>7
<1> HIDE DEF v
<1> QED  BY <1>1, <1>6, <1>8, <1>9, BecomeHolds

LEMMA NoRoomHolds ==
  ASSUME SlotInv, HoldsAll(Now), NEW c, c = Updated, mode' = mode, input' = input, NoRoom(c)
  PROVE  HoldsAll(Now)'
<1> DEFINE w == Working(c)
<1>1. Sound(w)
  BY UpdatedTidy, UpdatedSound
<1>2. HoldsAll(w)
  BY WorkingHold
<1>3. w.batch = batch /\ w.state = state
  BY WorkingFields DEF HasFields
<1> HIDE DEF w
<1>4. CASE Become(FailAll(w)) /\ batch' = <<>>
  <2>1. FailAll(w) \in Failed(NSlots)
    BY <1>1, <1>2, HoldsIdle, FailsHold
  <2> QED  BY <1>4, <2>1, BecomeFailed
<1>5. CASE Purgeable # {} /\ Become(Clear(w, Min(Purgeable))) /\ batch' = batch
  <2> DEFINE s == Min(Purgeable)
             v == Clear(w, s)
  <2>1. s \in Slots /\ state[s] = "idle"
    BY <1>5, LeastPurgeable DEF Purgeable
  <2> HIDE DEF s
  <2>2. Private(w) /\ NoEntries(w.batch, s)
    BY <1>2, <1>3, <2>1 DEF HoldsAll, SlotHolds
  <2>3. Private(v) /\ OthersSame(w, v, s) /\ SlotHolds(v, s)
    BY <1>1, <2>1, <2>2, ClearHold
  <2>4. v.batch = batch
    BY <1>1, <1>3, <2>1, ClearSound DEF OnlyCleared, SameSlots
  <2>5. Become(v)
    BY <1>5 DEF s
  <2> HIDE DEF v
  <2>6. HoldsAll(v)
    BY <1>2, <2>1, <2>3, HoldsStep
  <2> QED  BY <1>5, <2>4, <2>5, <2>6, BecomeHolds
<1>6. CASE Become(w) /\ batch' = batch
  BY <1>2, <1>3, <1>6, BecomeHolds
<1> QED  BY <1>4, <1>5, <1>6 DEF NoRoom, w

LEMMA InvalidBatchHolds ==
  ASSUME SlotInv, HoldsAll(Now), mode' = mode, input' = input, InvalidBatch
  PROVE  HoldsAll(Now)'
<1>1. Become(FailAll(Now)) /\ batch' = <<>>
  BY DEF InvalidBatch
<1>2. FailAll(Now) \in Failed(NSlots)
  BY NowTyped, HoldsIdle, FailsHold
<1> QED  BY <1>1, <1>2, BecomeFailed

LEMMA ComputeFailsHolds ==
  ASSUME SlotInv, HoldsAll(Now), NEW c, c = Updated, mode' = mode, input' = input, ComputeFails(c)
  PROVE  HoldsAll(Now)'
<1> DEFINE w == Working(Placed(c))
           u == InSlotOrder(RmView, w)
<1>1. Become(FailAll(u)) /\ Fits(c) /\ batch' = <<>>
  BY DEF ComputeFails
<1>2. w \in RemovedHeld
  BY <1>1, PlacedRemoved
<1> HIDE DEF w
<1>3. u \in RemovedHeld
  BY <1>2, RmViewsHold
<1> HIDE DEF u
<1>4. Sound(u) /\ IdleHold(u)
  BY <1>3, SoundSetsAre DEF RemovedHeld
<1>5. FailAll(u) \in Failed(NSlots)
  BY <1>4, FailsHold
<1> QED  BY <1>1, <1>5, BecomeFailed

---------------------------------------------------------------------------
(* The invariant of slots that share nothing and discard no more than there *)
(* is, and what it says.                                                   *)
HoldInv == mode.families = {} /\ DiscardsLess => HoldsAll(Now)

LEMMA HoldKept ==
  ASSUME SlotInv, HoldInv, [Next]_vars
  PROVE  HoldInv'
<1>1. mode' = mode
  BY DEF Next, vars, Cancel, Erase, Launch, StartPass, Decode
<1>2. SUFFICES ASSUME mode.families = {}, DiscardsLess, HoldsAll(Now)  PROVE HoldsAll(Now)'
  BY <1>1 DEF HoldInv, DiscardsLess, Keep
<1>3. CASE Next
  <2>1. ASSUME NEW s \in Slots, Cancel(s)  PROVE HoldsAll(Now)'
    BY <1>2, <2>1, CancelHolds
  <2>2. ASSUME NEW s \in Slots, Erase(s)  PROVE HoldsAll(Now)'
    BY <1>2, <2>2, EraseHolds
  <2>3. ASSUME NEW s \in Slots, NEW p \in Prompts, NEW C \in SUBSET Slots, Launch(s, p, C)
        PROVE  HoldsAll(Now)'
    <3>1. C = {}
      BY <1>2, <2>3 DEF Launch
    <3> QED  BY <1>2, <2>3, <3>1, LaunchHolds
  <2>4. CASE StartPass
    BY <1>2, <2>4, StartPassHolds
  <2>5. CASE Decode
    <3>1. mode' = mode /\ input' = input
      BY <2>5 DEF Decode
    <3>2. InvalidBatch \/ DecodeView(Updated) \/ NoRoom(Updated) \/ ComputeFails(Updated)
      BY <2>5 DEF Decode
    <3> QED  BY <1>2, <3>1, <3>2, InvalidBatchHolds, DecodeViewHolds, NoRoomHolds, ComputeFailsHolds
  <2> QED  BY <1>3, <2>1, <2>2, <2>3, <2>4, <2>5 DEF Next
<1>4. CASE UNCHANGED vars
  <2>1. Now' = Now /\ mode' = mode /\ input' = input
    BY <1>4 DEF vars, slotVars, Now
  <2>2. \A s \in Slots : StreamOf(s)' = StreamOf(s)
    BY <2>1 DEF StreamOf
  <2>3. Private(Now)'
    BY <1>2, <2>1 DEF HoldsAll, Private
  <2>4. ASSUME NEW s \in Slots  PROVE SlotHolds(Now, s)'
    <3>1. SlotHolds(Now, s)
      BY <1>2 DEF HoldsAll
    <3> QED  BY <2>1, <2>2, <3>1 DEF SlotHolds
  <2> QED  BY <2>3, <2>4 DEF HoldsAll
<1> QED  BY <1>3, <1>4

LEMMA HoldAlways ==
  Spec => []HoldInv
<1>1. Init => HoldInv
  BY InitHolds DEF HoldInv
<1>2. SlotInv /\ HoldInv /\ [Next]_vars => HoldInv'
  BY HoldKept
<1> QED  BY <1>1, <1>2, SlotInvAlways, PTL DEF Spec

(* When no task asks for several completions, nor for n_discard of more    *)
(* tokens than there are after n_keep, what the next decode attends to for *)
(* a slot is its slot.prompt, but for the tokens that are still in the     *)
(* batch: through reuse of the last prompt, context shifts, batches that   *)
(* do not fit, purges, cancels and errors of llama_decode()                *)
(* (update_slots(), server-context.cpp).                                   *)
THEOREM PromptsAreHeld ==
  Spec => [](mode.families = {} => SlotsHoldPrompts)
<1>1. SlotInv /\ HoldInv => (mode.families = {} => SlotsHoldPrompts)
  <2>1. SUFFICES ASSUME SlotInv, HoldsAll(Now), NEW s \in Slots
                 PROVE  HoldsPrompt(Updated[StreamOf(s)], s)
    BY DEF HoldInv, SlotsHoldPrompts
  <2> QED  BY <2>1, HoldsAttended
<1> QED  BY <1>1, SlotInvAlways, HoldAlways, PTL
=============================================================================
