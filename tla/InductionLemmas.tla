-------------------------- MODULE InductionLemmas --------------------------
(***************************************************************************)
(* Induction over the natural numbers in a form that names a set in the    *)
(* place of a predicate, the least and the greatest element of a set of    *)
(* numbers, and what follows for the recursion of FlattenSeq.              *)
(***************************************************************************)
EXTENDS Integers, SequencesExt, SequenceTheorems, WellFoundedInduction, TLAPS

LessThan == {ss \in Nat \X Nat : ss[1] < ss[2]}

\* Every set of natural numbers that is not empty has a least element.
LEMMA LeastNat ==
    ASSUME NEW T \in SUBSET Nat, T # {}
    PROVE  \E x \in T : \A y \in T : x <= y
<1>1. IsWellFoundedOn(LessThan, Nat)
  BY NatLessThanWellFounded DEF OpToRel, LessThan
<1>2. PICK x \in T : \A y \in T : ~ (<<y, x>> \in LessThan)
  BY <1>1, WFMin
<1>3. \A y \in T : ~ (y < x)
  BY <1>2 DEF LessThan
<1>4. \A y \in T : x <= y
  BY <1>3
<1>. QED  BY <1>4

\* If it has an upper bound, it has a greatest element.
LEMMA GreatestNat ==
    ASSUME NEW T \in SUBSET Nat, T # {}, NEW N \in Nat, \A y \in T : y <= N
    PROVE  \E x \in T : \A y \in T : y <= x
<1>. DEFINE U == {z \in Nat : N - z \in T}
<1>1. U # {}
  <2>1. PICK y \in T : TRUE
    OBVIOUS
  <2>2. N - y \in Nat /\ N - (N - y) = y
    OBVIOUS
  <2>. QED  BY <2>1, <2>2
<1>2. PICK z \in U : \A y \in U : z <= y
  BY <1>1, LeastNat
<1>3. N - z \in T
  OBVIOUS
<1>4. ASSUME NEW y \in T PROVE y <= N - z
  <2>1. N - y \in Nat /\ N - (N - y) = y
    OBVIOUS
  <2>2. N - y \in U
    BY <2>1
  <2>3. z <= N - y
    BY <1>2, <2>2
  <2>. QED  BY <2>3
<1>. QED  BY <1>3, <1>4

\* Induction: a set with 0 and the successor of each of its members contains
\* every natural number.
LEMMA NatSet ==
    ASSUME NEW P, 0 \in P, \A n \in Nat : n \in P => n + 1 \in P
    PROVE  Nat \subseteq P
<1>. SUFFICES ASSUME Nat \ P # {} PROVE FALSE
  OBVIOUS
<1>1. PICK x \in Nat \ P : \A y \in Nat \ P : x <= y
  BY LeastNat
<1>2. x # 0 /\ x - 1 \in Nat /\ (x - 1) + 1 = x
  OBVIOUS
<1>3. x - 1 \in P
  BY <1>1, <1>2
<1>. QED  BY <1>2, <1>3

-----------------------------------------------------------------------------
(* Flattening a sequence of sequences.                                     *)

\* The recursion of FlattenSeq.
IsFlat(F, q) == F = [i \in 1..Len(q) |-> IF i = 1 THEN q[i] ELSE F[i - 1] \o q[i]]

LEMMA FlattenDef ==
    ASSUME NEW S, NEW q \in Seq(S), q # <<>>
    PROVE  /\ Len(q) \in Nat \ {0}
           /\ \E F : IsFlat(F, q) /\ FlattenSeq(q) = F[Len(q)]
<1>1. Len(q) \in Nat \ {0}
  BY EmptySeq
<1>. DEFINE Term(F, i) == IF i = 1 THEN q[i] ELSE F[i - 1] \o q[i]
            P == {n \in Nat : \E F : F = [i \in 1..n |-> Term(F, i)]}
<1>2. 0 \in P
  <2>. DEFINE F == [i \in 1..0 |-> 0]
  <2>1. F = [i \in 1..0 |-> Term(F, i)]
    OBVIOUS
  <2>. QED  BY <2>1
<1>3. ASSUME NEW n \in Nat, n \in P PROVE n + 1 \in P
  <2>1. PICK F : F = [i \in 1..n |-> Term(F, i)]
    BY <1>3
  <2>. DEFINE G == [i \in 1..(n + 1) |-> Term(F, i)]
  <2>2. ASSUME NEW i \in 1..n PROVE F[i] = G[i]
    <3>1. i \in 1..(n + 1)
      OBVIOUS
    <3>2. F[i] = Term(F, i)
      <4>. HIDE DEF Term
      <4>. QED  BY <2>1
    <3>. HIDE DEF Term
    <3>. QED  BY <3>1, <3>2
  <2>3. ASSUME NEW i \in 1..(n + 1) PROVE Term(F, i) = Term(G, i)
    <3>. HIDE DEF G
    <3>1. CASE i = 1
      BY <3>1
    <3>2. CASE i # 1
      <4>1. i - 1 \in 1..n
        BY <3>2
      <4>. QED  BY <2>2, <3>2, <4>1
    <3>. QED  BY <3>1, <3>2
  <2>4. G = [i \in 1..(n + 1) |-> Term(G, i)]
    <3>. HIDE DEF Term
    <3>. QED  BY <2>3
  <2>. HIDE DEF G, Term
  <2>. QED  BY <2>4
<1>4. Len(q) \in P
  <2>. HIDE DEF P
  <2>. QED  BY <1>1, <1>2, <1>3, NatSet
<1>5. \E F : IsFlat(F, q)
  BY <1>4 DEF IsFlat
<1>6. PICK F : F = CHOOSE G : IsFlat(G, q)
  OBVIOUS
<1>7. IsFlat(F, q)
  BY <1>5, <1>6
<1>8. FlattenSeq(q) = F[Len(q)]
  BY <1>1, <1>6 DEF FlattenSeq, IsFlat
<1>. QED  BY <1>1, <1>7, <1>8

\* Flattening sequences over S gives a sequence over S.
LEMMA FlattenType ==
    ASSUME NEW S, NEW q \in Seq(Seq(S))
    PROVE  FlattenSeq(q) \in Seq(S)
<1>1. CASE q = <<>>
  BY <1>1 DEF FlattenSeq
<1>2. CASE q # <<>>
  <2>1. PICK F : IsFlat(F, q) /\ FlattenSeq(q) = F[Len(q)]
    BY <1>2, FlattenDef
  <2>2. Len(q) \in Nat \ {0}
    BY <1>2, FlattenDef
  <2>3. \A i \in 1..Len(q) : q[i] \in Seq(S)
    OBVIOUS
  <2>. DEFINE P == {n \in Nat : n \in 1..Len(q) => F[n] \in Seq(S)}
  <2>4. 0 \in P
    OBVIOUS
  <2>5. ASSUME NEW n \in Nat, n \in P PROVE n + 1 \in P
    <3>1. SUFFICES ASSUME n + 1 \in 1..Len(q) PROVE F[n + 1] \in Seq(S)
      OBVIOUS
    <3>2. F[n + 1] = IF n + 1 = 1 THEN q[n + 1] ELSE F[(n + 1) - 1] \o q[n + 1]
      BY <2>1, <3>1 DEF IsFlat
    <3>3. q[n + 1] \in Seq(S)
      BY <2>3, <3>1
    <3>4. CASE n = 0
      BY <3>2, <3>3, <3>4
    <3>5. CASE n # 0
      <4>1. n \in 1..Len(q) /\ (n + 1) - 1 = n
        BY <2>2, <3>1, <3>5
      <4>2. F[n] \in Seq(S)
        BY <2>5, <4>1
      <4>3. ~ (n + 1 = 1)
        BY <3>5
      <4>4. F[n + 1] = F[(n + 1) - 1] \o q[n + 1]
        BY <3>2, <4>3, Zenon
      <4>5. F[n + 1] = F[n] \o q[n + 1]
        BY <4>1, <4>4, Zenon
      <4>. QED  BY <3>3, <4>2, <4>5, ConcatProperties
    <3>. QED  BY <3>4, <3>5
  <2>6. Len(q) \in P
    <3>. HIDE DEF P
    <3>. QED  BY <2>2, <2>4, <2>5, NatSet
  <2>. QED  BY <2>1, <2>2, <2>6
<1>. QED  BY <1>1, <1>2
=============================================================================
