---------------------------- MODULE SeqOpsProofs ----------------------------
(***************************************************************************)
(* What the operators of SeqOps do to the elements of a sequence and to    *)
(* their uniqueness, for sequences of any length.                          *)
(***************************************************************************)
EXTENDS SeqOps, WellFoundedInduction, FiniteSetTheorems, TLAPS

(* A set of natural numbers that is not empty has a least element.         *)
LEMMA LeastNatural ==
  ASSUME NEW T \in SUBSET Nat, T # {}
  PROVE  \E x \in T : \A y \in T : x <= y
<1> DEFINE R == {ss \in Nat \X Nat : ss[1] < ss[2]}
<1>1. IsWellFoundedOn(R, Nat)
  BY NatLessThanWellFounded DEF OpToRel
<1>2. \A x, y \in Nat : y < x => <<y, x>> \in R
  <2> SUFFICES ASSUME NEW x \in Nat, NEW y \in Nat, y < x
               PROVE  <<y, x>> \in R
    OBVIOUS
  <2>1. <<y, x>> \in Nat \X Nat
    OBVIOUS
  <2>2. <<y, x>>[1] < <<y, x>>[2]
    OBVIOUS
  <2>3. QED
    BY <2>1, <2>2
<1>3. PICK x \in T : \A y \in T : ~(<<y, x>> \in R)
  <2> HIDE DEF R
  <2> QED BY <1>1, WFMin
<1>4. ASSUME NEW y \in T
      PROVE  x <= y
  <2> HIDE DEF R
  <2>1. x \in Nat /\ y \in Nat
    OBVIOUS
  <2>2. ~(y < x)
    BY <1>2, <1>3, <2>1
  <2>3. QED
    BY <2>1, <2>2
<1>5. QED
  BY <1>4

(* Induction on the initial segment 0..n, with the property given as a set.*)
LEMMA SegmentInduction ==
  ASSUME NEW n \in Nat, NEW S,
         0 \in S, \A k \in 0 .. n - 1 : k \in S => k + 1 \in S
  PROVE  \A k \in 0 .. n : k \in S
<1> SUFFICES ASSUME \E k \in 0 .. n : k \notin S
             PROVE  FALSE
  OBVIOUS
<1> DEFINE T == {k \in 0 .. n : k \notin S}
<1>1. PICK x \in T : \A y \in T : x <= y
  <2>1. T \in SUBSET Nat /\ T # {}
    OBVIOUS
  <2> HIDE DEF T
  <2>2. QED
    BY <2>1, LeastNatural
<1>2. x # 0 /\ x - 1 \in 0 .. n - 1
  OBVIOUS
<1>3. x - 1 \in S
  BY <1>1, <1>2
<1>4. QED
  BY <1>2, <1>3

(* One step of the recursion that defines Drop.                            *)
KeptStep(q, X, f, n) ==
  IF n = 0 THEN <<>>
  ELSE IF q[n] \in X THEN f[n - 1] ELSE Append(f[n - 1], q[n])

(* The recursion of Drop has a solution, and Drop is its value at the end. *)
LEMMA DropDefined ==
  ASSUME NEW S, NEW q \in Seq(S), NEW X
  PROVE  \E f \in [0 .. Len(q) -> Seq(S)] :
            /\ \A n \in 0 .. Len(q) : f[n] = KeptStep(q, X, f, n)
            /\ Drop(q, X) = f[Len(q)]
<1> DEFINE Sol(n, g) == /\ g \in [0 .. n -> Seq(S)]
                        /\ \A k \in 0 .. n : g[k] = KeptStep(q, X, g, k)
           G == {n \in 0 .. Len(q) : \E g : Sol(n, g)}
<1>1. Len(q) \in Nat /\ \A n \in 1 .. Len(q) : q[n] \in S
  OBVIOUS
<1>2. 0 \in G
  <2>1. Sol(0, [k \in 0 .. 0 |-> <<>>])
    BY DEF KeptStep
  <2> HIDE DEF Sol
  <2>2. QED
    BY <1>1, <2>1
<1>3. ASSUME NEW n \in 0 .. Len(q) - 1, n \in G
      PROVE  n + 1 \in G
  <2>1. PICK g : Sol(n, g)
    BY <1>3
  <2> DEFINE v == KeptStep(q, X, g, n + 1)
             h == [k \in 0 .. n + 1 |-> IF k = n + 1 THEN v ELSE g[k]]
  <2>2. v \in Seq(S)
    <3>1. g[n] \in Seq(S) /\ q[n + 1] \in S
      BY <1>1, <2>1
    <3>2. Append(g[n], q[n + 1]) \in Seq(S)
      BY <3>1
    <3>3. QED
      BY <3>1, <3>2 DEF KeptStep
  <2>3. h \in [0 .. n + 1 -> Seq(S)]
    <3> HIDE DEF v
    <3> QED BY <2>1, <2>2
  <2>4. ASSUME NEW k \in 0 .. n + 1
        PROVE  h[k] = KeptStep(q, X, h, k)
    <3>1. CASE k = n + 1
      BY <3>1 DEF KeptStep
    <3>2. CASE k \in 0 .. n
      <4>1. h[k] = g[k] /\ k # n + 1
        BY <3>2
      <4>2. k # 0 => h[k - 1] = g[k - 1]
        BY <3>2
      <4>3. g[k] = KeptStep(q, X, g, k)
        BY <2>1, <3>2
      <4> HIDE DEF h
      <4>4. QED
        BY <4>1, <4>2, <4>3 DEF KeptStep
    <3>3. QED
      BY <3>1, <3>2
  <2>5. Sol(n + 1, h)
    <3> HIDE DEF h
    <3> QED BY <2>3, <2>4
  <2> HIDE DEF Sol, h
  <2>6. QED
    BY <1>1, <2>5
<1>4. \A n \in 0 .. Len(q) : n \in G
  <2> HIDE DEF G
  <2> QED BY <1>1, <1>2, <1>3, SegmentInduction
<1>5. PICK f : Sol(Len(q), f)
  <2>1. Len(q) \in G
    <3> HIDE DEF G
    <3> QED BY <1>1, <1>4
  <2> HIDE DEF Sol
  <2>2. QED
    BY <2>1
<1>6. \E kept : kept = [n \in 0 .. Len(q) |-> KeptStep(q, X, kept, n)]
  <2>1. f = [n \in 0 .. Len(q) |-> KeptStep(q, X, f, n)]
    BY <1>5
  <2>2. QED
    BY <2>1
<1> DEFINE kept == CHOOSE kept : kept = [n \in 0 .. Len(q) |-> KeptStep(q, X, kept, n)]
<1>7. kept = [n \in 0 .. Len(q) |-> KeptStep(q, X, kept, n)]
  BY <1>6
<1>8. Drop(q, X) = kept[Len(q)]
  BY DEF Drop, KeptStep
<1> HIDE DEF kept
<1>9. \A n \in 0 .. Len(q) : kept[n] = KeptStep(q, X, kept, n)
  BY <1>7
<1>10. \A n \in 0 .. Len(q) : kept[n] \in Seq(S)
  <2> DEFINE P == {n \in 0 .. Len(q) : kept[n] \in Seq(S)}
  <2>1. 0 \in P
    <3>1. kept[0] = <<>>
      BY <1>1, <1>9 DEF KeptStep
    <3>2. kept[0] \in Seq(S)
      BY <3>1
    <3>3. QED
      BY <1>1, <3>2
  <2>2. ASSUME NEW n \in 0 .. Len(q) - 1, n \in P
        PROVE  n + 1 \in P
    <3>1. kept[n + 1] = IF q[n + 1] \in X THEN kept[n] ELSE Append(kept[n], q[n + 1])
      BY <1>1, <1>9 DEF KeptStep
    <3>2. kept[n] \in Seq(S) /\ q[n + 1] \in S
      BY <1>1, <2>2
    <3>3. Append(kept[n], q[n + 1]) \in Seq(S)
      BY <3>2
    <3>4. kept[n + 1] \in Seq(S)
      BY <3>1, <3>2, <3>3
    <3>5. QED
      BY <3>4, <1>1
  <2>3. \A n \in 0 .. Len(q) : n \in P
    <3> HIDE DEF P
    <3> QED BY <1>1, <2>1, <2>2, SegmentInduction
  <2>4. QED
    BY <2>3
<1>11. kept \in [0 .. Len(q) -> Seq(S)]
  BY <1>7, <1>10
<1>12. QED
  BY <1>8, <1>9, <1>11

(* d is q read at increasing positions e[1] < e[2] < ..., which are all    *)
(* the positions of q that hold no element of X.                           *)
IsErasure(d, q, X) ==
  \E e \in [1 .. Len(d) -> 1 .. Len(q)] :
     /\ \A i, j \in 1 .. Len(d) : i < j => e[i] < e[j]
     /\ \A i \in 1 .. Len(d) : d[i] = q[e[i]] /\ q[e[i]] \notin X
     /\ \A k \in 1 .. Len(q) : q[k] \notin X => \E i \in 1 .. Len(d) : e[i] = k

(* What erase(remove_if(...)) leaves behind: the elements outside X, all   *)
(* of them and in their order.                                             *)
LEMMA DropProperties ==
  ASSUME NEW S, NEW q \in Seq(S), NEW X
  PROVE  Drop(q, X) \in Seq(S) /\ IsErasure(Drop(q, X), q, X)
<1>1. PICK f \in [0 .. Len(q) -> Seq(S)] :
             /\ \A n \in 0 .. Len(q) : f[n] = KeptStep(q, X, f, n)
             /\ Drop(q, X) = f[Len(q)]
  BY DropDefined
<1>2. Len(q) \in Nat /\ \A n \in 1 .. Len(q) : q[n] \in S
  OBVIOUS
<1> DEFINE Maps(n, e) ==
             /\ e \in [1 .. Len(f[n]) -> 1 .. n]
             /\ \A i, j \in 1 .. Len(f[n]) : i < j => e[i] < e[j]
             /\ \A i \in 1 .. Len(f[n]) : f[n][i] = q[e[i]] /\ q[e[i]] \notin X
             /\ \A k \in 1 .. n :
                   q[k] \notin X => \E i \in 1 .. Len(f[n]) : e[i] = k
           P == {n \in 0 .. Len(q) : \E e : Maps(n, e)}
<1>3. 0 \in P
  <2>1. f[0] = <<>>
    BY <1>1, <1>2 DEF KeptStep
  <2>2. Maps(0, [i \in 1 .. 0 |-> i])
    BY <2>1
  <2> HIDE DEF Maps
  <2>3. QED
    BY <1>2, <2>2
<1>4. ASSUME NEW n \in 0 .. Len(q) - 1, n \in P
      PROVE  n + 1 \in P
  <2>1. PICK e : Maps(n, e)
    BY <1>4
  <2>2. f[n] \in Seq(S) /\ q[n + 1] \in S /\ n \in Nat
    BY <1>1, <1>2
  <2>3. f[n + 1] = IF q[n + 1] \in X THEN f[n] ELSE Append(f[n], q[n + 1])
    <3>1. f[n + 1] = KeptStep(q, X, f, n + 1)
      BY <1>1, <1>2
    <3>2. n + 1 # 0 /\ (n + 1) - 1 = n
      BY <2>2
    <3>3. QED
      BY <3>1, <3>2 DEF KeptStep
  <2>4. \E d : Maps(n + 1, d)
    <3>1. CASE q[n + 1] \in X
      <4>1. f[n + 1] = f[n]
        BY <2>3, <3>1
      <4>2. e \in [1 .. Len(f[n]) -> 1 .. n + 1]
        BY <2>1, <2>2
      <4>3. \A k \in 1 .. n + 1 : q[k] \notin X => \E i \in 1 .. Len(f[n]) : e[i] = k
        BY <2>1, <2>2, <3>1
      <4>4. Maps(n + 1, e)
        BY <2>1, <4>1, <4>2, <4>3
      <4> HIDE DEF Maps
      <4>5. QED
        BY <4>4
    <3>2. CASE q[n + 1] \notin X
      <4> DEFINE m == Len(f[n])
                 d == [i \in 1 .. m + 1 |-> IF i = m + 1 THEN n + 1 ELSE e[i]]
      <4>1. f[n + 1] = Append(f[n], q[n + 1]) /\ m \in Nat
        BY <2>2, <2>3, <3>2
      <4>2. Len(f[n + 1]) = m + 1
        BY <2>2, <4>1
      <4>3. \A i \in 1 .. m : f[n + 1][i] = f[n][i]
        BY <2>2, <4>1
      <4>4. f[n + 1][m + 1] = q[n + 1]
        BY <2>2, <4>1
      <4>5. \A i \in 1 .. m : d[i] = e[i] /\ e[i] \in 1 .. n
        BY <2>1, <2>2, <4>1
      <4>6. d[m + 1] = n + 1
        BY <4>1
      <4>7. d \in [1 .. m + 1 -> 1 .. n + 1]
        BY <2>1, <2>2, <4>1
      <4>8. ASSUME NEW i \in 1 .. m + 1, NEW j \in 1 .. m + 1, i < j
            PROVE  d[i] < d[j]
        <5>1. i \in 1 .. m
          BY <4>1, <4>8
        <5>2. CASE j = m + 1
          <6>1. d[i] = e[i] /\ e[i] \in 1 .. n
            BY <4>5, <5>1
          <6>2. d[j] = n + 1
            BY <4>6, <5>2
          <6> HIDE DEF d
          <6>3. QED
            BY <2>2, <6>1, <6>2
        <5>3. CASE j \in 1 .. m
          BY <2>1, <4>5, <4>8, <5>1, <5>3
        <5>4. QED
          BY <4>1, <5>2, <5>3
      <4>9. ASSUME NEW i \in 1 .. m + 1
            PROVE  f[n + 1][i] = q[d[i]] /\ q[d[i]] \notin X
        <5>1. CASE i = m + 1
          BY <3>2, <4>4, <4>6, <5>1
        <5>2. CASE i \in 1 .. m
          BY <2>1, <4>3, <4>5, <5>2
        <5>3. QED
          BY <4>1, <5>1, <5>2
      <4>10. ASSUME NEW k \in 1 .. n + 1, q[k] \notin X
             PROVE  \E i \in 1 .. m + 1 : d[i] = k
        <5>1. CASE k = n + 1
          BY <4>1, <4>6, <5>1
        <5>2. CASE k \in 1 .. n
          <6>1. PICK i \in 1 .. m : e[i] = k
            BY <2>1, <4>10, <5>2
          <6>2. d[i] = k /\ i \in 1 .. m + 1
            BY <4>1, <4>5, <6>1
          <6>3. QED
            BY <6>2
        <5> HIDE DEF d, m
        <5>3. QED
          BY <2>2, <5>1, <5>2
      <4> HIDE DEF d, m
      <4>11. Maps(n + 1, d)
        BY <4>2, <4>7, <4>8, <4>9, <4>10
      <4> HIDE DEF Maps
      <4>12. QED
        BY <4>11
    <3>3. QED
      BY <3>1, <3>2
  <2> HIDE DEF Maps
  <2>5. QED
    BY <1>2, <2>4
<1>5. Len(q) \in P
  <2>1. \A n \in 0 .. Len(q) : n \in P
    <3> HIDE DEF P
    <3> QED BY <1>2, <1>3, <1>4, SegmentInduction
  <2> HIDE DEF P
  <2>2. QED
    BY <1>2, <2>1
<1>6. PICK e : Maps(Len(q), e)
  BY <1>5
<1>7. Drop(q, X) \in Seq(S)
  BY <1>1, <1>2
<1> DEFINE D == f[Len(q)]
<1>8. IsErasure(D, q, X)
  BY <1>6, Zenon DEF IsErasure
<1>9. Drop(q, X) = D
  BY <1>1
<1> HIDE DEF D
<1>10. QED
  BY <1>7, <1>8, <1>9

(* No element of R is at two positions of q.                               *)
Unique(q, R) == \A i, j \in DOMAIN q : q[i] \in R /\ q[i] = q[j] => i = j

(* An element is what stands at some position.                             *)
LEMMA InElems ==
  ASSUME NEW q, NEW x
  PROVE  x \in Elems(q) <=> \E k \in DOMAIN q : x = q[k]
BY DEF Elems

(* The elements after push_back().                                         *)
LEMMA AppendElems ==
  ASSUME NEW S, NEW q \in Seq(S), NEW e \in S
  PROVE  /\ Append(q, e) \in Seq(S)
         /\ Elems(Append(q, e)) = Elems(q) \cup {e}
<1>1. /\ Len(q) \in Nat
      /\ DOMAIN q = 1 .. Len(q)
      /\ DOMAIN Append(q, e) = 1 .. Len(q) + 1
      /\ \A k \in 1 .. Len(q) : Append(q, e)[k] = q[k]
      /\ Append(q, e)[Len(q) + 1] = e
  OBVIOUS
<1>2. QED
  BY <1>1 DEF Elems

(* push_back() of an element that is not there keeps the elements unique.  *)
LEMMA AppendUnique ==
  ASSUME NEW S, NEW q \in Seq(S), NEW e \in S, NEW R,
         Unique(q, R), e \in R => e \notin Elems(q)
  PROVE  Unique(Append(q, e), R)
<1>1. /\ Len(q) \in Nat
      /\ DOMAIN q = 1 .. Len(q)
      /\ DOMAIN Append(q, e) = 1 .. Len(q) + 1
      /\ \A k \in 1 .. Len(q) : Append(q, e)[k] = q[k]
      /\ Append(q, e)[Len(q) + 1] = e
  OBVIOUS
<1>2. QED
  BY <1>1 DEF Elems, Unique

(* The elements after push_front().                                        *)
LEMMA ConsElems ==
  ASSUME NEW S, NEW q \in Seq(S), NEW e \in S
  PROVE  /\ Cons(e, q) \in Seq(S)
         /\ Elems(Cons(e, q)) = Elems(q) \cup {e}
<1>1. /\ Cons(e, q) \in Seq(S) /\ Len(q) \in Nat
      /\ DOMAIN q = 1 .. Len(q)
      /\ DOMAIN Cons(e, q) = 1 .. Len(q) + 1
      /\ Cons(e, q)[1] = e
      /\ \A k \in 2 .. Len(q) + 1 : Cons(e, q)[k] = q[k - 1]
  BY DEF Cons
<1>2. ASSUME NEW x \in Elems(q)
      PROVE  x \in Elems(Cons(e, q))
  <2>1. PICK k \in DOMAIN q : x = q[k]
    BY <1>2, InElems
  <2>2. k + 1 \in DOMAIN Cons(e, q) /\ x = Cons(e, q)[k + 1]
    BY <1>1, <2>1
  <2>3. QED
    BY <2>2, InElems
<1>3. ASSUME NEW x \in Elems(Cons(e, q))
      PROVE  x = e \/ x \in Elems(q)
  <2>1. PICK k \in DOMAIN Cons(e, q) : x = Cons(e, q)[k]
    BY <1>3, InElems
  <2>2. k = 1 \/ (k - 1 \in DOMAIN q /\ x = q[k - 1])
    BY <1>1, <2>1
  <2>3. QED
    BY <1>1, <2>1, <2>2, InElems
<1>4. e \in Elems(Cons(e, q))
  BY <1>1 DEF Elems
<1>5. QED
  BY <1>1, <1>2, <1>3, <1>4

(* push_front() of an element that is not there keeps them unique.         *)
LEMMA ConsUnique ==
  ASSUME NEW S, NEW q \in Seq(S), NEW e \in S, NEW R,
         Unique(q, R), e \in R => e \notin Elems(q)
  PROVE  Unique(Cons(e, q), R)
<1>1. /\ Len(q) \in Nat
      /\ DOMAIN q = 1 .. Len(q)
      /\ DOMAIN Cons(e, q) = 1 .. Len(q) + 1
      /\ Cons(e, q)[1] = e
      /\ \A k \in 1 .. Len(q) + 1 :
            k = 1 \/ (k - 1 \in 1 .. Len(q) /\ Cons(e, q)[k] = q[k - 1])
  BY DEF Cons
<1>2. QED
  BY <1>1 DEF Elems, Unique

(* pop_front(): the head and the tail.                                     *)
LEMMA TailElems ==
  ASSUME NEW S, NEW q \in Seq(S), q # <<>>
  PROVE  /\ Tail(q) \in Seq(S) /\ Head(q) \in S
         /\ Elems(q) = Elems(Tail(q)) \cup {Head(q)}
<1>1. /\ Tail(q) \in Seq(S) /\ Head(q) \in S /\ Head(q) = q[1]
      /\ Len(q) \in Nat /\ Len(q) >= 1
      /\ DOMAIN q = 1 .. Len(q)
      /\ DOMAIN Tail(q) = 1 .. Len(q) - 1
      /\ \A k \in 1 .. Len(q) - 1 : Tail(q)[k] = q[k + 1] /\ k + 1 \in 1 .. Len(q)
  OBVIOUS
<1>2. ASSUME NEW x \in Elems(q)
      PROVE  x \in Elems(Tail(q)) \cup {Head(q)}
  <2>1. PICK k \in DOMAIN q : x = q[k]
    BY <1>2, InElems
  <2>2. k = 1 \/ (k - 1 \in DOMAIN Tail(q) /\ x = Tail(q)[k - 1])
    BY <1>1, <2>1
  <2>3. QED
    BY <1>1, <2>1, <2>2, InElems
<1>3. ASSUME NEW x \in Elems(Tail(q)) \cup {Head(q)}
      PROVE  x \in Elems(q)
  <2>1. CASE x = Head(q)
    BY <1>1, <2>1, InElems
  <2>2. CASE x \in Elems(Tail(q))
    <3>1. PICK k \in DOMAIN Tail(q) : x = Tail(q)[k]
      BY <2>2, InElems
    <3>2. k + 1 \in DOMAIN q /\ x = q[k + 1]
      BY <1>1, <3>1
    <3>3. QED
      BY <3>2, InElems
  <2>3. QED
    BY <1>3, <2>1, <2>2
<1>4. QED
  BY <1>1, <1>2, <1>3

(* pop_front() keeps the elements unique; a unique head is gone after it.  *)
LEMMA TailUnique ==
  ASSUME NEW S, NEW q \in Seq(S), q # <<>>, NEW R, Unique(q, R)
  PROVE  /\ Unique(Tail(q), R)
         /\ Head(q) \in R => Head(q) \notin Elems(Tail(q))
<1>1. /\ Head(q) = q[1]
      /\ Len(q) \in Nat /\ Len(q) >= 1
      /\ DOMAIN q = 1 .. Len(q)
      /\ DOMAIN Tail(q) = 1 .. Len(q) - 1
      /\ \A k \in 1 .. Len(q) - 1 : Tail(q)[k] = q[k + 1] /\ k + 1 \in 1 .. Len(q)
  OBVIOUS
<1>2. QED
  BY <1>1 DEF Elems, Unique

(* erase() of position i: the other elements remain.                       *)
LEMMA DropAtElems ==
  ASSUME NEW S, NEW q \in Seq(S), NEW i \in DOMAIN q
  PROVE  /\ DropAt(q, i) \in Seq(S) /\ q[i] \in S
         /\ Elems(q) = Elems(DropAt(q, i)) \cup {q[i]}
<1>1. /\ Len(q) \in Nat /\ DOMAIN q = 1 .. Len(q) /\ i \in 1 .. Len(q)
      /\ \A k \in 1 .. Len(q) : q[k] \in S
  OBVIOUS
<1> DEFINE d == DropAt(q, i)
<1>2. /\ d = [k \in 1 .. Len(q) - 1 |-> IF k < i THEN q[k] ELSE q[k + 1]]
      /\ d \in Seq(S) /\ DOMAIN d = 1 .. Len(q) - 1
  BY <1>1 DEF DropAt
<1>3. \A k \in 1 .. Len(q) - 1 :
         \/ k < i /\ d[k] = q[k] /\ k \in 1 .. Len(q)
         \/ ~(k < i) /\ d[k] = q[k + 1] /\ k + 1 \in 1 .. Len(q)
  BY <1>1, <1>2
<1>4. \A k \in 1 .. Len(q) :
         \/ k = i
         \/ k < i /\ k \in 1 .. Len(q) - 1 /\ d[k] = q[k]
         \/ k > i /\ k - 1 \in 1 .. Len(q) - 1 /\ d[k - 1] = q[k]
  BY <1>1, <1>2
<1> HIDE DEF d
<1>5. ASSUME NEW x \in Elems(q)
      PROVE  x \in Elems(d) \cup {q[i]}
  <2>1. PICK k \in DOMAIN q : x = q[k]
    BY <1>5, InElems
  <2>2. \/ k = i
        \/ k \in DOMAIN d /\ x = d[k]
        \/ k - 1 \in DOMAIN d /\ x = d[k - 1]
    BY <1>1, <1>2, <1>4, <2>1
  <2>3. QED
    BY <2>1, <2>2, InElems
<1>6. ASSUME NEW x \in Elems(d) \cup {q[i]}
      PROVE  x \in Elems(q)
  <2>1. CASE x = q[i]
    BY <1>1, <2>1, InElems
  <2>2. CASE x \in Elems(d)
    <3>1. PICK k \in DOMAIN d : x = d[k]
      BY <2>2, InElems
    <3>2. (k \in DOMAIN q /\ x = q[k]) \/ (k + 1 \in DOMAIN q /\ x = q[k + 1])
      BY <1>1, <1>2, <1>3, <3>1
    <3>3. QED
      BY <3>2, InElems
  <2>3. QED
    BY <1>6, <2>1, <2>2
<1>7. QED
  BY <1>1, <1>2, <1>5, <1>6 DEF d

(* erase() keeps the elements unique; a unique element is gone after it.   *)
LEMMA DropAtUnique ==
  ASSUME NEW S, NEW q \in Seq(S), NEW i \in DOMAIN q, NEW R, Unique(q, R)
  PROVE  /\ Unique(DropAt(q, i), R)
         /\ q[i] \in R => q[i] \notin Elems(DropAt(q, i))
<1>1. /\ Len(q) \in Nat /\ DOMAIN q = 1 .. Len(q) /\ i \in 1 .. Len(q)
  OBVIOUS
<1> DEFINE d == DropAt(q, i)
           at == [k \in 1 .. Len(q) - 1 |-> IF k < i THEN k ELSE k + 1]
<1>2. DOMAIN d = 1 .. Len(q) - 1
  BY <1>1 DEF DropAt
<1>3. \A k \in 1 .. Len(q) - 1 :
         /\ at[k] \in 1 .. Len(q) /\ at[k] # i /\ d[k] = q[at[k]]
  BY <1>1 DEF DropAt
<1>4. \A k, l \in 1 .. Len(q) - 1 : at[k] = at[l] => k = l
  BY <1>1
<1> HIDE DEF d, at
<1>5. Unique(d, R)
  BY <1>1, <1>2, <1>3, <1>4 DEF Unique
<1>6. q[i] \in R => q[i] \notin Elems(d)
  BY <1>1, <1>2, <1>3 DEF Unique, Elems
<1>7. QED
  BY <1>5, <1>6 DEF d

(* One sequence after the other.                                           *)
LEMMA ConcatElems ==
  ASSUME NEW S, NEW p \in Seq(S), NEW q \in Seq(S)
  PROVE  /\ p \o q \in Seq(S)
         /\ Elems(p \o q) = Elems(p) \cup Elems(q)
<1>1. /\ p \o q \in Seq(S)
      /\ Len(p) \in Nat /\ Len(q) \in Nat
      /\ DOMAIN p = 1 .. Len(p) /\ DOMAIN q = 1 .. Len(q)
      /\ DOMAIN (p \o q) = 1 .. Len(p) + Len(q)
  OBVIOUS
<1>2. \A k \in 1 .. Len(p) : (p \o q)[k] = p[k] /\ k \in 1 .. Len(p) + Len(q)
  BY <1>1
<1>3. \A k \in 1 .. Len(q) :
         (p \o q)[k + Len(p)] = q[k] /\ k + Len(p) \in 1 .. Len(p) + Len(q)
  BY <1>1
<1>4. \A k \in 1 .. Len(p) + Len(q) :
         \/ k \in 1 .. Len(p) /\ (p \o q)[k] = p[k]
         \/ k - Len(p) \in 1 .. Len(q) /\ (p \o q)[k] = q[k - Len(p)]
  BY <1>1
<1> DEFINE pq == p \o q
<1> HIDE DEF pq
<1>5. ASSUME NEW x \in Elems(p) \cup Elems(q)
      PROVE  x \in Elems(pq)
  <2>1. (\E k \in DOMAIN p : x = p[k]) \/ (\E k \in DOMAIN q : x = q[k])
    BY <1>5, InElems
  <2>2. \E k \in DOMAIN pq : x = pq[k]
    BY <1>1, <1>2, <1>3, <2>1 DEF pq
  <2>3. QED
    BY <2>2, InElems
<1>6. ASSUME NEW x \in Elems(pq)
      PROVE  x \in Elems(p) \cup Elems(q)
  <2>1. PICK k \in DOMAIN pq : x = pq[k]
    BY <1>6, InElems
  <2>2. \/ k \in DOMAIN p /\ x = p[k]
        \/ k - Len(p) \in DOMAIN q /\ x = q[k - Len(p)]
    BY <1>1, <1>4, <2>1 DEF pq
  <2>3. QED
    BY <2>2, InElems
<1>7. QED
  BY <1>1, <1>5, <1>6 DEF pq

(* Sequences without a common element are unique when each of them is.     *)
LEMMA ConcatUnique ==
  ASSUME NEW S, NEW p \in Seq(S), NEW q \in Seq(S), NEW R,
         Unique(p, R), Unique(q, R), Elems(p) \cap Elems(q) \cap R = {}
  PROVE  Unique(p \o q, R)
<1>1. /\ Len(p) \in Nat /\ Len(q) \in Nat
      /\ DOMAIN p = 1 .. Len(p) /\ DOMAIN q = 1 .. Len(q)
      /\ DOMAIN (p \o q) = 1 .. Len(p) + Len(q)
  OBVIOUS
<1>2. \A k \in 1 .. Len(p) + Len(q) :
         \/ k \in 1 .. Len(p) /\ (p \o q)[k] = p[k]
         \/ k - Len(p) \in 1 .. Len(q) /\ (p \o q)[k] = q[k - Len(p)]
  BY <1>1
<1> DEFINE pq == p \o q
<1> HIDE DEF pq
<1>3. ASSUME NEW k \in 1 .. Len(p) + Len(q), NEW l \in 1 .. Len(p) + Len(q),
             pq[k] \in R, pq[k] = pq[l]
      PROVE  k = l
  <2>1. CASE k \in 1 .. Len(p) /\ l \in 1 .. Len(p)
    BY <1>1, <1>2, <1>3, <2>1 DEF Unique, pq
  <2>2. CASE k \in 1 .. Len(p) /\ l \notin 1 .. Len(p)
    <3>1. /\ k \in DOMAIN p /\ pq[k] = p[k]
          /\ l - Len(p) \in DOMAIN q /\ pq[l] = q[l - Len(p)]
      BY <1>1, <1>2, <2>2 DEF pq
    <3>2. QED
      BY <1>3, <3>1, InElems
  <2>3. CASE k \notin 1 .. Len(p) /\ l \in 1 .. Len(p)
    <3>1. /\ l \in DOMAIN p /\ pq[l] = p[l]
          /\ k - Len(p) \in DOMAIN q /\ pq[k] = q[k - Len(p)]
      BY <1>1, <1>2, <2>3 DEF pq
    <3>2. QED
      BY <1>3, <3>1, InElems
  <2>4. CASE k \notin 1 .. Len(p) /\ l \notin 1 .. Len(p)
    <3>1. k - Len(p) = l - Len(p)
      BY <1>1, <1>2, <1>3, <2>4 DEF Unique, pq
    <3>2. QED
      BY <1>1, <3>1
  <2>5. QED
    BY <2>1, <2>2, <2>3, <2>4
<1>4. QED
  BY <1>1, <1>3 DEF Unique, pq

(* erase(remove_if(...)) leaves the elements outside X.                    *)
LEMMA DropElems ==
  ASSUME NEW S, NEW q \in Seq(S), NEW X
  PROVE  /\ Drop(q, X) \in Seq(S)
         /\ Elems(Drop(q, X)) = Elems(q) \ X
<1>1. Drop(q, X) \in Seq(S) /\ IsErasure(Drop(q, X), q, X)
  BY DropProperties
<1> DEFINE d == Drop(q, X)
<1> HIDE DEF d
<1>2. PICK e \in [1 .. Len(d) -> 1 .. Len(q)] :
         /\ \A i \in 1 .. Len(d) : d[i] = q[e[i]] /\ q[e[i]] \notin X
         /\ \A k \in 1 .. Len(q) : q[k] \notin X => \E i \in 1 .. Len(d) : e[i] = k
  BY <1>1 DEF IsErasure, d
<1>3. DOMAIN d = 1 .. Len(d) /\ DOMAIN q = 1 .. Len(q)
  BY <1>1 DEF d
<1>4. Elems(d) = Elems(q) \ X
  BY <1>2, <1>3 DEF Elems
<1>5. QED
  BY <1>1, <1>4 DEF d

(* erase(remove_if(...)) keeps the elements unique.                        *)
LEMMA DropUnique ==
  ASSUME NEW S, NEW q \in Seq(S), NEW X, NEW R, Unique(q, R)
  PROVE  Unique(Drop(q, X), R)
<1>1. Drop(q, X) \in Seq(S) /\ IsErasure(Drop(q, X), q, X)
  BY DropProperties
<1> DEFINE d == Drop(q, X)
<1> HIDE DEF d
<1>2. PICK e \in [1 .. Len(d) -> 1 .. Len(q)] :
         /\ \A i, j \in 1 .. Len(d) : i < j => e[i] < e[j]
         /\ \A i \in 1 .. Len(d) : d[i] = q[e[i]]
  BY <1>1 DEF IsErasure, d
<1>3. DOMAIN d = 1 .. Len(d) /\ DOMAIN q = 1 .. Len(q) /\ Len(d) \in Nat /\ Len(q) \in Nat
  BY <1>1 DEF d
<1>4. \A i, j \in 1 .. Len(d) : e[i] = e[j] => i = j
  <2>1. SUFFICES ASSUME NEW i \in 1 .. Len(d), NEW j \in 1 .. Len(d), i # j
                 PROVE  e[i] # e[j]
    OBVIOUS
  <2>2. i < j \/ j < i
    BY <2>1, <1>3
  <2>3. e[i] \in 1 .. Len(q) /\ e[j] \in 1 .. Len(q)
    OBVIOUS
  <2>4. e[i] < e[j] \/ e[j] < e[i]
    BY <1>2, <2>2
  <2>5. QED
    BY <1>3, <2>3, <2>4
<1>5. Unique(d, R)
  BY <1>2, <1>3, <1>4 DEF Unique
<1>6. QED
  BY <1>5 DEF d

(* The first element of X is found when there is one.                      *)
LEMMA FirstInFound ==
  ASSUME NEW S, NEW q \in Seq(S), NEW X, Elems(q) \cap X # {}
  PROVE  /\ FirstIn(q, X) \in DOMAIN q /\ q[FirstIn(q, X)] \in X
         /\ \A j \in 1 .. FirstIn(q, X) - 1 : q[j] \notin X
<1> DEFINE T == {i \in DOMAIN q : q[i] \in X}
<1>1. Len(q) \in Nat /\ DOMAIN q = 1 .. Len(q)
  OBVIOUS
<1>2. T \in SUBSET Nat /\ T # {}
  BY <1>1 DEF Elems
<1>3. PICK i \in T : \A j \in T : i <= j
  <2> HIDE DEF T
  <2> QED BY <1>2, LeastNatural
<1>4. i \in DOMAIN q /\ q[i] \in X /\ \A j \in 1 .. i - 1 : q[j] \notin X
  <2>1. ASSUME NEW j \in 1 .. i - 1, q[j] \in X
        PROVE  FALSE
    <3>1. j \in T /\ i \in Nat /\ j \in Nat
      BY <1>1, <2>1
    <3>2. i <= j
      BY <1>3, <3>1
    <3>3. QED
      BY <3>1, <3>2
  <2>2. QED
    BY <2>1
<1>5. QED
  BY <1>4 DEF FirstIn

(* Every element of q stands in the relation R to those behind it.         *)
Chained(q, R) == \A i, j \in DOMAIN q : i < j => <<q[i], q[j]>> \in R

(* What is left after an erase at i are the elements of other positions,   *)
(* in their order.                                                         *)
LEMMA DropAtRest ==
  ASSUME NEW S, NEW q \in Seq(S), NEW i \in DOMAIN q
  PROVE  /\ \A x \in Elems(DropAt(q, i)) : \E j \in DOMAIN q : j # i /\ x = q[j]
         /\ \A R : Chained(q, R) => Chained(DropAt(q, i), R)
<1>1. /\ Len(q) \in Nat /\ DOMAIN q = 1 .. Len(q) /\ i \in 1 .. Len(q)
      /\ \A k \in 1 .. Len(q) : q[k] \in S
  OBVIOUS
<1> DEFINE d == DropAt(q, i)
           e == [k \in 1 .. Len(q) - 1 |-> IF k < i THEN k ELSE k + 1]
<1>2. d = [k \in 1 .. Len(q) - 1 |-> IF k < i THEN q[k] ELSE q[k + 1]]
  BY DEF DropAt
<1>3. DOMAIN d = 1 .. Len(q) - 1
  BY <1>1, <1>2
<1>4. \A k \in 1 .. Len(q) - 1 : e[k] \in 1 .. Len(q) /\ e[k] # i /\ d[k] = q[e[k]]
  BY <1>1, <1>2
<1>5. \A k, l \in 1 .. Len(q) - 1 : k < l => e[k] < e[l]
  BY <1>1
<1> HIDE DEF d, e
<1>6. \A x \in Elems(d) : \E j \in DOMAIN q : j # i /\ x = q[j]
  BY <1>1, <1>3, <1>4 DEF Elems
<1>7. ASSUME NEW R, Chained(q, R)
      PROVE  Chained(d, R)
  BY <1>1, <1>3, <1>4, <1>5, <1>7 DEF Chained
<1>8. QED
  BY <1>6, <1>7 DEF d

(* A new last element has to be in the relation with all the others.       *)
LEMMA AppendChained ==
  ASSUME NEW S, NEW q \in Seq(S), NEW e \in S, NEW R, Chained(q, R),
         \A x \in Elems(q) : <<x, e>> \in R
  PROVE  Chained(Append(q, e), R)
<1>1. /\ Len(q) \in Nat /\ DOMAIN q = 1 .. Len(q)
      /\ DOMAIN Append(q, e) = 1 .. Len(q) + 1
      /\ \A k \in 1 .. Len(q) : Append(q, e)[k] = q[k]
      /\ Append(q, e)[Len(q) + 1] = e
  OBVIOUS
<1> DEFINE p == Append(q, e)
<1> HIDE DEF p
<1>2. ASSUME NEW i \in DOMAIN p, NEW j \in DOMAIN p, i < j
      PROVE  <<p[i], p[j]>> \in R
  <2>1. i \in DOMAIN q /\ p[i] = q[i]
    BY <1>1, <1>2 DEF p
  <2>2. CASE j \in DOMAIN q
    BY <1>1, <1>2, <2>1, <2>2 DEF p, Chained
  <2>3. CASE j = Len(q) + 1
    BY <1>1, <2>1, <2>3 DEF p, Elems
  <2>4. QED
    BY <1>1, <1>2, <2>2, <2>3 DEF p
<1>3. QED
  BY <1>2 DEF p, Chained

(* Erasing keeps the order.                                                *)
LEMMA DropChained ==
  ASSUME NEW S, NEW q \in Seq(S), NEW X, NEW R, Chained(q, R)
  PROVE  Chained(Drop(q, X), R)
<1>1. Drop(q, X) \in Seq(S) /\ IsErasure(Drop(q, X), q, X)
  BY DropProperties
<1> DEFINE d == Drop(q, X)
<1> HIDE DEF d
<1>2. PICK e \in [1 .. Len(d) -> 1 .. Len(q)] :
         /\ \A i, j \in 1 .. Len(d) : i < j => e[i] < e[j]
         /\ \A i \in 1 .. Len(d) : d[i] = q[e[i]]
  BY <1>1 DEF IsErasure, d
<1>3. DOMAIN d = 1 .. Len(d) /\ DOMAIN q = 1 .. Len(q)
  BY <1>1 DEF d
<1>4. Chained(d, R)
  BY <1>2, <1>3 DEF Chained
<1>5. QED
  BY <1>4 DEF d
=============================================================================
