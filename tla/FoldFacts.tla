------------------------------ MODULE FoldFacts ------------------------------
(***************************************************************************)
(* Facts about the operators of the community modules the models are       *)
(* built from: Min, Max, FoldLeft and MapThenSumSet are CHOOSE definitions, *)
(* and a proof needs the value they choose.  Induction over the naturals   *)
(* comes from the least element of a set, so that no theorem with an       *)
(* operator parameter is needed.                                           *)
(***************************************************************************)
EXTENDS Integers, Sequences, FiniteSets, FiniteSetsExt, SequencesExt,
        FiniteSetTheorems, WellFoundedInduction, TLAPS

-----------------------------------------------------------------------------
(* Induction over a set of naturals *)

\* Every set of naturals that is not empty has a least element.
LEMMA LeastNatural ==
  ASSUME NEW S \in SUBSET Nat, S # {}
  PROVE  \E n \in S : \A m \in S : n <= m
<1> DEFINE R == {ss \in Nat \X Nat : ss[1] < ss[2]}
<1>1. IsWellFoundedOn(R, Nat)
  BY NatLessThanWellFounded DEF OpToRel
<1> HIDE DEF R
<1>2. PICK n \in S : \A m \in S : ~ (<<m, n>> \in R)
  BY <1>1, WFMin
<1>3. \A m \in S : m \in Nat /\ n \in Nat /\ ~ (m < n)
  BY <1>2 DEF R
<1> QED BY <1>3

\* A set that holds zero and every successor holds all naturals.
LEMMA InductiveSet ==
  ASSUME NEW S, 0 \in S, \A n \in Nat : n \in S => n + 1 \in S
  PROVE  \A n \in Nat : n \in S
<1> DEFINE T == Nat \ S
<1> SUFFICES ASSUME T # {} PROVE FALSE
  OBVIOUS
<1>1. PICK n \in T : \A m \in T : n <= m
  BY LeastNatural
<1>2. n - 1 \in Nat /\ n - 1 \notin T
  BY <1>1
<1> QED BY <1>1, <1>2

\* Min picks the least of a set of naturals.
LEMMA MinIsLeast ==
  ASSUME NEW S \in SUBSET Nat, S # {}
  PROVE  Min(S) \in S /\ \A m \in S : Min(S) <= m
BY LeastNatural DEF Min

\* A bounded set of naturals that is not empty has a greatest element.
LEMMA MaxIsGreatest ==
  ASSUME NEW S \in SUBSET Nat, S # {}, NEW b \in Nat, \A m \in S : m <= b
  PROVE  Max(S) \in S /\ \A m \in S : Max(S) >= m
<1> DEFINE T == {b - m : m \in S}
<1>1. \A m \in S : b - m \in Nat OBVIOUS
<1>2. PICK t \in T : \A u \in T : t <= u BY <1>1, LeastNatural
<1>3. PICK x \in S : t = b - x OBVIOUS
<1>4. \A m \in S : x >= m
  <2> TAKE m \in S
  <2>1. b - m \in T OBVIOUS
  <2>2. t <= b - m BY <1>2, <2>1
  <2> QED BY <1>3, <2>2
<1> QED BY <1>4 DEF Max

\* A finite set of naturals has a bound.
LEMMA FiniteIsBounded ==
  ASSUME NEW S \in SUBSET Nat, IsFiniteSet(S)
  PROVE  \E b \in Nat : \A m \in S : m <= b
<1>1. PICK n \in Nat : ExistsSurjection(1..n, S) BY FS_NatSurjection
<1>2. PICK f \in [1..n -> S] : \A m \in S : \E i \in 1..n : f[i] = m
  BY <1>1 DEF ExistsSurjection, Surjection
<1> DEFINE T == {k \in Nat : k <= n => \E b \in Nat : \A i \in 1..k : f[i] <= b}
<1>3. 0 \in T OBVIOUS
<1>4. ASSUME NEW k \in Nat, k \in T PROVE k + 1 \in T
  <2> SUFFICES ASSUME k + 1 <= n PROVE \E b \in Nat : \A i \in 1..(k + 1) : f[i] <= b
    OBVIOUS
  <2>1. PICK b \in Nat : \A i \in 1..k : f[i] <= b BY <1>4
  <2>2. f[k + 1] \in Nat
    <3>1. k + 1 \in 1..n OBVIOUS
    <3> QED BY <3>1
  <2>3. CASE f[k + 1] <= b
    <3>1. \A i \in 1..(k + 1) : f[i] <= b BY <2>1, <2>3
    <3> QED BY <3>1
  <2>4. CASE b < f[k + 1]
    <3>1. \A i \in 1..k : f[i] \in Nat
      <4>1. 1..k \subseteq 1..n OBVIOUS
      <4> QED BY <4>1
    <3>2. \A i \in 1..(k + 1) : i \in 1..k \/ i = k + 1 OBVIOUS
    <3>3. \A i \in 1..(k + 1) : f[i] <= f[k + 1] BY <2>1, <2>2, <2>4, <3>1, <3>2
    <3> QED BY <2>2, <3>3
  <2> QED BY <2>2, <2>3, <2>4
<1> HIDE DEF T
<1>5. n \in T BY <1>3, <1>4, InductiveSet
<1>6. PICK b \in Nat : \A i \in 1..n : f[i] <= b BY <1>5 DEF T
<1> QED BY <1>2, <1>6

\* Max picks the greatest of a finite set of naturals.
LEMMA MaxOfFinite ==
  ASSUME NEW S \in SUBSET Nat, S # {}, IsFiniteSet(S)
  PROVE  Max(S) \in S /\ \A m \in S : Max(S) >= m
BY FiniteIsBounded, MaxIsGreatest

-----------------------------------------------------------------------------
(* Folds.  FoldLeft(op, base, seq) is by definition the value on DOMAIN seq  *)
(* of some function that satisfies the equation below, with F[i][a] for       *)
(* op(a, seq[i]).                                                             *)

FoldOf(f, F, base, n) ==
  f = [s \in SUBSET (1..n) |->
         IF s = {} THEN base ELSE F[Max(s)][f[s \ {Max(s)}]]]

\* A function that satisfies the equation of a fold over n positions exists.
LEMMA FoldExists ==
  ASSUME NEW n \in Nat, NEW A, NEW base \in A, NEW F \in [1..n -> [A -> A]]
  PROVE  \E f \in [SUBSET (1..n) -> A] : FoldOf(f, F, base, n)
<1> DEFINE Eq(f, k) == f = [s \in SUBSET (1..k) |->
                  IF s = {} THEN base ELSE F[Max(s)][f[s \ {Max(s)}]]]
           P(k) == \E f \in [SUBSET (1..k) -> A] : Eq(f, k)
           T == {k \in Nat : k <= n => P(k)}
<1>1. 0 \in T
  <2>1. SUBSET (1..0) = {{}} OBVIOUS
  <2> DEFINE f == [s \in SUBSET (1..0) |-> base]
  <2>2. f \in [SUBSET (1..0) -> A] OBVIOUS
  <2>3. Eq(f, 0) BY <2>1
  <2> HIDE DEF f, Eq
  <2>4. P(0) BY <2>2, <2>3
  <2> HIDE DEF P
  <2> QED BY <2>4
<1>2. ASSUME NEW k \in Nat, k \in T PROVE k + 1 \in T
  <2> HIDE DEF P
  <2> SUFFICES ASSUME k + 1 <= n PROVE P(k + 1)
    OBVIOUS
  <2>0. P(k) BY <1>2
  <2> USE DEF P
  <2> HIDE DEF Eq
  <2>1. PICK f \in [SUBSET (1..k) -> A] : Eq(f, k) BY <2>0
  <2> USE DEF Eq
  <2> DEFINE h == [s \in SUBSET (1..(k + 1)) |->
                     IF k + 1 \in s THEN F[k + 1][f[s \ {k + 1}]] ELSE f[s]]
  <2>2. \A s \in SUBSET (1..(k + 1)) : s \ {k + 1} \in SUBSET (1..k) OBVIOUS
  <2>3. \A s \in SUBSET (1..(k + 1)) : k + 1 \notin s => s \in SUBSET (1..k) OBVIOUS
  <2>4. h \in [SUBSET (1..(k + 1)) -> A]
    <3>1. \A a \in A : F[k + 1][a] \in A
      <4>1. k + 1 \in 1..n OBVIOUS
      <4> QED BY <4>1
    <3> QED BY <2>2, <2>3, <3>1
  <2>5. ASSUME NEW s \in SUBSET (1..(k + 1))
        PROVE  h[s] = IF s = {} THEN base ELSE F[Max(s)][h[s \ {Max(s)}]]
    <3>1. CASE k + 1 \in s
      <4>1. \A x \in s : x \in Nat /\ x <= k + 1 OBVIOUS
      <4>2. Max(s) \in s /\ Max(s) >= k + 1
        BY <3>1, <4>1, MaxIsGreatest
      <4>3. Max(s) = k + 1
        <5>1. Max(s) \in Nat /\ Max(s) <= k + 1 BY <4>1, <4>2
        <5> QED BY <4>2, <5>1
      <4>4. s \ {k + 1} \in SUBSET (1..(k + 1)) /\ k + 1 \notin s \ {k + 1} OBVIOUS
      <4>5. h[s \ {k + 1}] = f[s \ {k + 1}] BY <4>4
      <4> QED BY <3>1, <4>3, <4>5
    <3>2. CASE k + 1 \notin s /\ s # {}
      <4>1. s \in SUBSET (1..k) BY <2>3, <3>2
      <4>2. \A x \in s : x \in Nat /\ x <= k BY <4>1
      <4>3. Max(s) \in s BY <3>2, <4>2, MaxIsGreatest
      <4>4. s \ {Max(s)} \in SUBSET (1..(k + 1)) /\ k + 1 \notin s \ {Max(s)} BY <3>2
      <4>5. h[s \ {Max(s)}] = f[s \ {Max(s)}] BY <4>4
      <4>6. f[s] = F[Max(s)][f[s \ {Max(s)}]] BY <2>1, <3>2, <4>1
      <4> QED BY <3>2, <4>5, <4>6
    <3>3. CASE s = {}
      <4>1. f[s] = base BY <2>1, <3>3
      <4> QED BY <3>3, <4>1
    <3> QED BY <3>1, <3>2, <3>3
  <2>6. Eq(h, k + 1)
    <3> HIDE DEF h
    <3> QED BY <2>4, <2>5
  <2> HIDE DEF h, Eq
  <2> QED BY <2>4, <2>6
<1> HIDE DEF T
<1>3. n \in T BY <1>1, <1>2, InductiveSet
<1> HIDE DEF P, Eq
<1>4. P(n) BY <1>3 DEF T
<1>5. PICK f \in [SUBSET (1..n) -> A] : Eq(f, n) BY <1>4 DEF P
<1>6. FoldOf(f, F, base, n) BY <1>5 DEF Eq, FoldOf
<1> QED BY <1>6

\* The last position of a set of positions, and the ones before it.
LEMMA MaxOfPositions ==
  ASSUME NEW n \in Nat, NEW s \in SUBSET (1..n), s # {}
  PROVE  Max(s) \in s /\ Max(s) \in 1..n /\ s \ {Max(s)} \in SUBSET (1..n)
<1>1. s \in SUBSET Nat /\ \A m \in s : m <= n OBVIOUS
<1>2. Max(s) \in s BY <1>1, MaxIsGreatest
<1> QED BY <1>2

\* The same, with what is known of the values it is applied to.
Folds(f, F, base, n, A) ==
  /\ f = [s \in SUBSET (1..n) |-> f[s]]
  /\ f[{}] = base
  /\ \A s \in SUBSET (1..n) : s # {} =>
       /\ Max(s) \in 1..n
       /\ f[s \ {Max(s)}] \in A
       /\ f[s] = F[Max(s)][f[s \ {Max(s)}]]

\* A fold is defined, and its values stay in A.
LEMMA FoldEquation ==
  ASSUME NEW n \in Nat, NEW A, NEW base \in A, NEW F \in [1..n -> [A -> A]]
  PROVE  \E f : Folds(f, F, base, n, A)
<1>1. PICK f \in [SUBSET (1..n) -> A] : FoldOf(f, F, base, n)
  BY FoldExists
<1>2. \A s \in SUBSET (1..n) : f[s] =
        IF s = {} THEN base ELSE F[Max(s)][f[s \ {Max(s)}]]
  BY <1>1 DEF FoldOf
<1>3. f = [s \in SUBSET (1..n) |-> f[s]] OBVIOUS
<1>4. Folds(f, F, base, n, A) BY <1>2, <1>3, MaxOfPositions DEF Folds
<1> QED BY <1>4

\* The last position of an initial interval is its end.
LEMMA MaxOfInterval ==
  ASSUME NEW k \in Nat
  PROVE  /\ 1..(k + 1) # {}
         /\ Max(1..(k + 1)) = k + 1
         /\ (1..(k + 1)) \ {k + 1} = 1..k
<1> DEFINE S == 1..(k + 1)
<1>1. S \in SUBSET Nat /\ S # {} /\ k + 1 \in S /\ \A m \in S : m <= k + 1 OBVIOUS
<1>2. (1..(k + 1)) \ {k + 1} = 1..k OBVIOUS
<1> HIDE DEF S
<1>3. Max(S) \in S /\ Max(S) >= k + 1 BY <1>1, MaxIsGreatest
<1>4. Max(S) \in Nat /\ Max(S) <= k + 1 BY <1>1, <1>3
<1>5. Max(S) = k + 1 BY <1>3, <1>4
<1> QED BY <1>1, <1>2, <1>5 DEF S

\* A function that unfolds as the fold does wherever its values lie in A.
Unfolds(it, F, base, n, A) ==
  /\ it[{}] = base
  /\ \A s \in SUBSET (1..n) : s # {} /\ it[s \ {Max(s)}] \in A =>
       it[s] = F[Max(s)][it[s \ {Max(s)}]]

\* Such a function runs through the positions one by one and stays in A.
LEMMA FoldRuns ==
  ASSUME NEW n \in Nat, NEW A, NEW base \in A, NEW F \in [1..n -> [A -> A]],
         NEW it, Unfolds(it, F, base, n, A)
  PROVE  /\ it[1..0] = base
         /\ \A k \in 0..n : it[1..k] \in A
         /\ \A k \in 1..n : it[1..k] = F[k][it[1..(k - 1)]]
<1> DEFINE T == {k \in Nat : k <= n => it[1..k] \in A}
<1>1. it[1..0] = base
  <2>1. 1..0 = {} OBVIOUS
  <2> QED BY <2>1 DEF Unfolds
<1>2. 0 \in T BY <1>1
<1>3. ASSUME NEW k \in Nat, k + 1 <= n, it[1..k] \in A
      PROVE  it[1..(k + 1)] \in A /\ it[1..(k + 1)] = F[k + 1][it[1..k]]
  <2> DEFINE S == 1..(k + 1)
  <2>1. S # {} /\ Max(S) = k + 1 /\ S \ {k + 1} = 1..k BY MaxOfInterval
  <2>2. S \in SUBSET (1..n) /\ k + 1 \in 1..n BY <1>3
  <2> HIDE DEF S
  <2>3. it[S] = F[k + 1][it[1..k]] BY <1>3, <2>1, <2>2 DEF Unfolds
  <2>4. F[k + 1][it[1..k]] \in A BY <1>3, <2>2
  <2> QED BY <2>3, <2>4 DEF S
<1>4. \A k \in Nat : k \in T => k + 1 \in T BY <1>3
<1> HIDE DEF T
<1>5. \A k \in Nat : k \in T BY <1>2, <1>4, InductiveSet
<1>6. \A k \in 0..n : it[1..k] \in A BY <1>5 DEF T
<1>7. ASSUME NEW k \in 1..n PROVE it[1..k] = F[k][it[1..(k - 1)]]
  <2>1. k - 1 \in Nat /\ k - 1 \in 0..n /\ (k - 1) + 1 = k OBVIOUS
  <2>2. it[1..(k - 1)] \in A BY <1>6, <2>1
  <2>3. it[1..((k - 1) + 1)] = F[(k - 1) + 1][it[1..(k - 1)]] BY <1>3, <2>1, <2>2
  <2> QED BY <2>1, <2>3
<1> QED BY <1>1, <1>6, <1>7

-----------------------------------------------------------------------------
(* Sums.  MapThenSumSet(op, S) is by definition the value on S of some       *)
(* function that satisfies this equation, with c[x] for op(x).               *)

SumsTo(f, c, S) ==
  f = [s \in SUBSET S |->
         IF s = {} THEN 0
         ELSE LET x == CHOOSE x \in s : TRUE IN c[x] + f[s \ {x}]]

\* A function that sums the weights of every part of a finite set exists.
LEMMA SumExists ==
  ASSUME NEW S, IsFiniteSet(S), NEW c \in [S -> Nat]
  PROVE  \E f : SumsTo(f, c, S)
<1> DEFINE Upto(k) == {s \in SUBSET S : Cardinality(s) <= k}
           one(s) == CHOOSE x \in s : TRUE
           Eq(f, k) == \A s \in Upto(k) :
                         f[s] = IF s = {} THEN 0 ELSE c[one(s)] + f[s \ {one(s)}]
           P(k) == \E f : Eq(f, k)
           T == {k \in Nat : P(k)}
<1>1. \A s \in SUBSET S : IsFiniteSet(s) /\ Cardinality(s) \in Nat
  BY FS_Subset, FS_CardinalityType
<1>2. \A s \in SUBSET S : s # {} =>
        one(s) \in s /\ Cardinality(s \ {one(s)}) = Cardinality(s) - 1
  <2> TAKE s \in SUBSET S
  <2> HAVE s # {}
  <2>1. one(s) \in s OBVIOUS
  <2> HIDE DEF one
  <2> QED BY <1>1, <2>1, FS_RemoveElement
<1>3. \A s \in SUBSET S : s # {} => Cardinality(s) >= 1
  <2> TAKE s \in SUBSET S
  <2> HAVE s # {}
  <2>1. Cardinality(s) \in Nat BY <1>1
  <2>2. Cardinality(s) # 0 BY <1>1, FS_EmptySet
  <2> QED BY <2>1, <2>2
<1>4. 0 \in T
  <2>1. \A s \in Upto(0) : s = {} BY <1>1, <1>3
  <2> DEFINE f == [s \in SUBSET S |-> 0]
  <2>2. Eq(f, 0) BY <2>1
  <2> HIDE DEF f, Eq
  <2>3. P(0) BY <2>2
  <2> QED BY <2>3
<1>5. ASSUME NEW k \in Nat, k \in T PROVE k + 1 \in T
  <2> HIDE DEF Eq
  <2>1. PICK f : Eq(f, k) BY <1>5
  <2> HIDE DEF one
  <2> DEFINE h == [s \in SUBSET S |-> IF s = {} THEN 0 ELSE c[one(s)] + f[s \ {one(s)}]]
  <2>2. \A s \in Upto(k) : h[s] = f[s] BY <2>1 DEF Eq
  <2>3. ASSUME NEW s \in Upto(k + 1), s # {} PROVE s \ {one(s)} \in Upto(k)
    BY <1>1, <1>2, <2>3
  <2> HIDE DEF Upto
  <2>4. Upto(k + 1) \subseteq SUBSET S BY DEF Upto
  <2>5. Eq(h, k + 1)
    BY <2>2, <2>3, <2>4 DEF Eq
  <2> HIDE DEF h
  <2>6. P(k + 1) BY <2>5
  <2> QED BY <2>6
<1> HIDE DEF T, P
<1>6. Cardinality(S) \in T BY <1>1, <1>4, <1>5, InductiveSet
<1>7. P(Cardinality(S)) BY <1>6 DEF T
<1> HIDE DEF Eq
<1>8. PICK f : Eq(f, Cardinality(S)) BY <1>7 DEF P
<1>9. \A s \in SUBSET S : s \in Upto(Cardinality(S)) BY <1>1, FS_Subset
<1> DEFINE h == [s \in SUBSET S |-> f[s]]
<1>10. \A s \in SUBSET S : s # {} => s \ {one(s)} \in SUBSET S OBVIOUS
<1>11. SumsTo(h, c, S)
  <2>1. \A s \in SUBSET S : h[s] = IF s = {} THEN 0 ELSE c[one(s)] + h[s \ {one(s)}]
    <3> HIDE DEF Upto, one
    <3> QED BY <1>8, <1>9, <1>10 DEF Eq
  <2>2. h = [s \in SUBSET S |-> IF s = {} THEN 0 ELSE c[one(s)] + h[s \ {one(s)}]]
    <3> DEFINE r == [s \in SUBSET S |-> IF s = {} THEN 0 ELSE c[one(s)] + h[s \ {one(s)}]]
    <3>1. \A s \in SUBSET S : h[s] = r[s] BY <2>1
    <3>2. DOMAIN h = SUBSET S /\ DOMAIN r = SUBSET S OBVIOUS
    <3>3. h = [s \in SUBSET S |-> h[s]] /\ r = [s \in SUBSET S |-> r[s]] OBVIOUS
    <3> HIDE DEF h, r
    <3>4. h = r BY <3>1, <3>3
    <3> QED BY <3>4 DEF r
  <2> HIDE DEF h
  <2> QED BY <2>2 DEF SumsTo
<1> HIDE DEF h
<1> QED BY <1>11

\* The sum over a set that is not empty takes away any of its elements.
LEMMA SumRemove ==
  ASSUME NEW S, IsFiniteSet(S), NEW c \in [S -> Nat], NEW f, SumsTo(f, c, S)
  PROVE  /\ f[{}] = 0
         /\ \A s \in SUBSET S : f[s] \in Nat
         /\ \A s \in SUBSET S : \A x \in s : f[s] = c[x] + f[s \ {x}]
<1> DEFINE one(s) == CHOOSE x \in s : TRUE
           Good(s) == f[s] \in Nat /\ \A x \in s : f[s] = c[x] + f[s \ {x}]
           Typed(k) == \A s \in SUBSET S : Cardinality(s) <= k => Good(s)
           T == {k \in Nat : Typed(k)}
<1>1. \A s \in SUBSET S : IsFiniteSet(s) /\ Cardinality(s) \in Nat
  BY FS_Subset, FS_CardinalityType
<1>2. \A s \in SUBSET S : \A x \in s : Cardinality(s \ {x}) = Cardinality(s) - 1
  BY <1>1, FS_RemoveElement
<1>3. \A s \in SUBSET S : s # {} => one(s) \in s OBVIOUS
<1>4. \A s \in SUBSET S : f[s] = IF s = {} THEN 0 ELSE c[one(s)] + f[s \ {one(s)}]
  <2>1. f = [s \in SUBSET S |-> IF s = {} THEN 0 ELSE c[one(s)] + f[s \ {one(s)}]]
    BY DEF SumsTo
  <2> QED BY <2>1
<1> HIDE DEF one
<1>5. f[{}] = 0 BY <1>4
<1>6. 0 \in T
  <2>1. \A s \in SUBSET S : Cardinality(s) <= 0 => s = {} BY <1>1, FS_EmptySet
  <2> QED BY <1>5, <2>1
<1>7. ASSUME NEW k \in Nat, k \in T PROVE k + 1 \in T
  <2> HIDE DEF Good
  <2>0. \A s \in SUBSET S : Cardinality(s) <= k => Good(s) BY <1>7
  <2> SUFFICES ASSUME NEW s \in SUBSET S, Cardinality(s) = k + 1 PROVE Good(s)
    <3>1. \A s \in SUBSET S : Cardinality(s) <= k + 1 =>
            Cardinality(s) <= k \/ Cardinality(s) = k + 1
      BY <1>1
    <3>2. Typed(k + 1) BY <2>0, <3>1
    <3> QED BY <3>2
  <2> USE DEF Good
  <2> DEFINE y == one(s)
  <2>1. s # {} BY FS_EmptySet, <1>1
  <2>2. y \in s /\ y \in S BY <1>3, <2>1
  <2>3. \A x \in s : s \ {x} \in SUBSET S /\ Cardinality(s \ {x}) = k BY <1>2
  <2>4. \A x \in s : f[s \ {x}] \in Nat /\ c[x] \in Nat BY <2>0, <2>3
  <2>5. f[s] = c[y] + f[s \ {y}] BY <1>4, <2>1
  <2> HIDE DEF y
  <2>6. f[s] \in Nat
    <3>1. f[s \ {y}] \in Nat /\ c[y] \in Nat BY <2>2, <2>4
    <3> QED BY <2>5, <3>1
  <2>7. ASSUME NEW x \in s, x # y PROVE f[s] = c[x] + f[s \ {x}]
    <3>1. (s \ {y}) \ {x} = (s \ {x}) \ {y} OBVIOUS
    <3>2. f[s \ {y}] = c[x] + f[(s \ {y}) \ {x}]
      <4>1. x \in s \ {y} BY <2>7
      <4>2. s \ {y} \in SUBSET S /\ Cardinality(s \ {y}) <= k BY <2>2, <2>3
      <4>3. Good(s \ {y})
        <5> HIDE DEF Good
        <5> QED BY <2>0, <4>2
      <4> QED BY <4>1, <4>3
    <3>3. f[s \ {x}] = c[y] + f[(s \ {x}) \ {y}]
      <4>1. y \in s \ {x} BY <2>2, <2>7
      <4>2. s \ {x} \in SUBSET S /\ Cardinality(s \ {x}) <= k BY <2>3, <2>7
      <4>3. Good(s \ {x})
        <5> HIDE DEF Good
        <5> QED BY <2>0, <4>2
      <4> QED BY <4>1, <4>3
    <3>4. f[(s \ {y}) \ {x}] \in Nat
      <4>1. x \in s \ {y} BY <2>7
      <4>2. s \ {y} \in SUBSET S /\ Cardinality(s \ {y}) = k BY <2>2, <2>3
      <4>3. Cardinality((s \ {y}) \ {x}) = k - 1 BY <1>2, <4>1, <4>2
      <4>4. (s \ {y}) \ {x} \in SUBSET S /\ k - 1 <= k OBVIOUS
      <4>5. Good((s \ {y}) \ {x})
        <5> HIDE DEF Good
        <5> QED BY <2>0, <4>3, <4>4
      <4> QED BY <4>5
    <3>5. c[x] \in Nat /\ c[y] \in Nat /\ f[s \ {x}] = c[y] + f[(s \ {y}) \ {x}]
      BY <2>2, <2>4, <3>1, <3>3
    <3> QED BY <2>5, <3>2, <3>4, <3>5
  <2> QED BY <2>5, <2>6, <2>7
<1> HIDE DEF T
<1>8. \A k \in Nat : k \in T BY <1>6, <1>7, InductiveSet
<1> QED BY <1>1, <1>5, <1>8 DEF T

\* The weights of the elements of a set.
Weighs(c, S) == \A x \in S : c[x] \in Nat

\* Only the weights of the elements of S matter.
LEMMA SumsOnSet ==
  ASSUME NEW S, NEW c, NEW f
  PROVE  SumsTo(f, c, S) <=> SumsTo(f, [x \in S |-> c[x]], S)
<1> DEFINE one(s) == CHOOSE x \in s : TRUE
           d == [x \in S |-> c[x]]
           B(e) == [s \in SUBSET S |-> IF s = {} THEN 0 ELSE e[one(s)] + f[s \ {one(s)}]]
<1>1. \A s \in SUBSET S : s # {} => one(s) \in S OBVIOUS
<1>2. (SumsTo(f, c, S) <=> f = B(c)) /\ (SumsTo(f, d, S) <=> f = B(d)) BY DEF SumsTo
<1> HIDE DEF one
<1>3. \A s \in SUBSET S : s # {} => d[one(s)] = c[one(s)] BY <1>1
<1>4. B(c) = B(d) BY <1>3
<1> QED BY <1>2, <1>4

\* The same sums for weights given by any function that weighs S.
LEMMA WeightSums ==
  ASSUME NEW S, IsFiniteSet(S), NEW c, Weighs(c, S)
  PROVE  /\ \E f : SumsTo(f, c, S)
         /\ \A f : SumsTo(f, c, S) =>
              /\ f[{}] = 0
              /\ \A s \in SUBSET S : f[s] \in Nat
              /\ \A s \in SUBSET S : \A x \in s : f[s] = c[x] + f[s \ {x}]
<1> DEFINE d == [x \in S |-> c[x]]
<1>1. d \in [S -> Nat] BY DEF Weighs
<1>2. \A s \in SUBSET S : \A x \in s : d[x] = c[x] OBVIOUS
<1>3. \A f : SumsTo(f, c, S) <=> SumsTo(f, d, S) BY SumsOnSet
<1> HIDE DEF d
<1>4. \E f : SumsTo(f, d, S) BY <1>1, SumExists
<1>5. ASSUME NEW f, SumsTo(f, d, S)
      PROVE  /\ f[{}] = 0
             /\ \A s \in SUBSET S : f[s] \in Nat
             /\ \A s \in SUBSET S : \A x \in s : f[s] = c[x] + f[s \ {x}]
  <2>1. /\ f[{}] = 0
        /\ \A s \in SUBSET S : f[s] \in Nat
        /\ \A s \in SUBSET S : \A x \in s : f[s] = d[x] + f[s \ {x}]
    BY <1>1, <1>5, SumRemove
  <2> QED BY <1>2, <2>1
<1> QED BY <1>3, <1>4, <1>5

\* There is one such function, and Total(c, S) is its value on S.
LEMMA SumUnique ==
  ASSUME NEW S, IsFiniteSet(S), NEW c, Weighs(c, S),
         NEW f, SumsTo(f, c, S), NEW R \in SUBSET S, NEW h, SumsTo(h, c, R)
  PROVE  \A s \in SUBSET R : f[s] = h[s]
<1> DEFINE T == {k \in Nat : \A s \in SUBSET R : Cardinality(s) <= k => f[s] = h[s]}
<1>0. IsFiniteSet(R) /\ Weighs(c, R) BY FS_Subset DEF Weighs
<1>1. \A s \in SUBSET R : IsFiniteSet(s) /\ Cardinality(s) \in Nat
  BY <1>0, FS_Subset, FS_CardinalityType
<1>2. /\ f[{}] = 0 /\ h[{}] = 0
      /\ \A s \in SUBSET S : \A x \in s : f[s] = c[x] + f[s \ {x}]
      /\ \A s \in SUBSET R : \A x \in s : h[s] = c[x] + h[s \ {x}]
  BY <1>0, WeightSums
<1>3. 0 \in T
  <2>1. \A s \in SUBSET R : Cardinality(s) <= 0 => s = {} BY <1>1, FS_EmptySet
  <2> QED BY <1>2, <2>1
<1>4. ASSUME NEW k \in Nat, k \in T PROVE k + 1 \in T
  <2> SUFFICES ASSUME NEW s \in SUBSET R, Cardinality(s) <= k + 1 PROVE f[s] = h[s]
    OBVIOUS
  <2>0. CASE s = {} BY <1>2, <2>0
  <2> SUFFICES ASSUME s # {} PROVE f[s] = h[s]
    BY <2>0
  <2>1. PICK x \in s : TRUE OBVIOUS
  <2>2. Cardinality(s \ {x}) <= k /\ s \ {x} \in SUBSET R
    <3>1. Cardinality(s \ {x}) = Cardinality(s) - 1 BY <1>1, <2>1, FS_RemoveElement
    <3>2. Cardinality(s) \in Nat BY <1>1
    <3>3. s \ {x} \in SUBSET R OBVIOUS
    <3> QED BY <3>1, <3>2, <3>3
  <2>3. f[s \ {x}] = h[s \ {x}] BY <1>4, <2>2
  <2>4. s \in SUBSET S OBVIOUS
  <2> QED BY <1>2, <2>1, <2>3, <2>4
<1> HIDE DEF T
<1>5. \A k \in Nat : k \in T BY <1>3, <1>4, InductiveSet
<1> QED BY <1>1, <1>5 DEF T

Total(c, S) == (CHOOSE f : SumsTo(f, c, S))[S]

\* A summing function is the total of every part of its set.
LEMMA TotalIs ==
  ASSUME NEW S, IsFiniteSet(S), NEW c, Weighs(c, S), NEW f, SumsTo(f, c, S)
  PROVE  \A R \in SUBSET S : f[R] = Total(c, R)
<1> TAKE R \in SUBSET S
<1>1. IsFiniteSet(R) /\ Weighs(c, R) BY FS_Subset DEF Weighs
<1> DEFINE h == CHOOSE q : SumsTo(q, c, R)
<1>2. SumsTo(h, c, R) BY <1>1, WeightSums
<1>3. Total(c, R) = h[R] BY DEF Total
<1> HIDE DEF h
<1> QED BY <1>2, <1>3, SumUnique

\* A total is a natural, and taking an element away takes its weight.
LEMMA TotalRemove ==
  ASSUME NEW S, IsFiniteSet(S), NEW c, Weighs(c, S)
  PROVE  /\ Total(c, {}) = 0
         /\ Total(c, S) \in Nat
         /\ \A x \in S : Total(c, S) = c[x] + Total(c, S \ {x})
<1>1. PICK f : SumsTo(f, c, S) BY WeightSums
<1>2. \A R \in SUBSET S : f[R] = Total(c, R) BY <1>1, TotalIs
<1>3. /\ f[{}] = 0
      /\ \A s \in SUBSET S : f[s] \in Nat
      /\ \A s \in SUBSET S : \A x \in s : f[s] = c[x] + f[s \ {x}]
  BY <1>1, WeightSums
<1>4. {} \in SUBSET S /\ S \in SUBSET S /\ \A x \in S : S \ {x} \in SUBSET S OBVIOUS
<1> QED BY <1>2, <1>3, <1>4

\* Adding an element adds its weight.
LEMMA TotalAdd ==
  ASSUME NEW S, IsFiniteSet(S), NEW c, Weighs(c, S),
         NEW y, y \notin S, c[y] \in Nat
  PROVE  Total(c, S \cup {y}) = c[y] + Total(c, S)
<1> DEFINE R == S \cup {y}
<1>1. IsFiniteSet(R) /\ Weighs(c, R) /\ y \in R /\ R \ {y} = S
  BY FS_AddElement DEF Weighs
<1> HIDE DEF R
<1>2. Total(c, R) = c[y] + Total(c, R \ {y}) BY <1>1, TotalRemove
<1> QED BY <1>1, <1>2 DEF R

-----------------------------------------------------------------------------
(* Counting and sums over sets that are partitioned *)

\* A set that is numbered from 1 to n has n elements.
LEMMA CountedSet ==
  ASSUME NEW n \in Nat, NEW S, NEW f \in [1..n -> S],
         \A i, j \in 1..n : f[i] = f[j] => i = j,
         \A s \in S : \E i \in 1..n : f[i] = s
  PROVE  IsFiniteSet(S) /\ Cardinality(S) = n
<1>1. f \in Injection(1..n, S) BY DEF Injection, IsInjective
<1>2. f \in Surjection(1..n, S) BY DEF Surjection
<1>3. ExistsBijection(1..n, S) BY <1>1, <1>2 DEF ExistsBijection, Bijection
<1> QED BY <1>3, FS_CountingElements, FS_NatBijection

\* A family of sets that holds the empty set and grows by single elements
\* holds every part of a finite set.
LEMMA InductiveFamily ==
  ASSUME NEW S, IsFiniteSet(S), NEW T, {} \in T,
         \A R \in SUBSET S : \A x \in S \ R : R \in T => R \cup {x} \in T
  PROVE  \A R \in SUBSET S : R \in T
<1> DEFINE K == {k \in Nat : \A R \in SUBSET S : Cardinality(R) = k => R \in T}
<1>1. \A R \in SUBSET S : IsFiniteSet(R) /\ Cardinality(R) \in Nat
  BY FS_Subset, FS_CardinalityType
<1>2. 0 \in K
  <2>1. \A R \in SUBSET S : Cardinality(R) = 0 => R = {} BY <1>1, FS_EmptySet
  <2> QED BY <2>1
<1>3. ASSUME NEW k \in Nat, k \in K PROVE k + 1 \in K
  <2> SUFFICES ASSUME NEW R \in SUBSET S, Cardinality(R) = k + 1 PROVE R \in T
    OBVIOUS
  <2>1. R # {}
    <3>1. Cardinality({}) = 0 /\ k + 1 # 0 BY FS_EmptySet
    <3> QED BY <3>1
  <2>2. PICK x \in R : TRUE BY <2>1
  <2> DEFINE Q == R \ {x}
  <2>3. Q \in SUBSET S /\ x \in S \ Q /\ R = Q \cup {x} BY <2>2
  <2>4. Cardinality(Q) = k
    <3>1. IsFiniteSet(R) BY <1>1
    <3>2. Cardinality(Q) = Cardinality(R) - 1 BY <2>2, <3>1, FS_RemoveElement
    <3> HIDE DEF Q
    <3> QED BY <3>2
  <2>5. Q \in T BY <1>3, <2>3, <2>4
  <2> HIDE DEF Q
  <2> QED BY <2>3, <2>5
<1> HIDE DEF K
<1>4. \A k \in Nat : k \in K BY <1>2, <1>3, InductiveSet
<1> QED BY <1>1, <1>4 DEF K

\* Only the weights of the elements of S matter.
LEMMA TotalOnSet ==
  ASSUME NEW S, NEW c, NEW d, \A x \in S : c[x] = d[x]
  PROVE  Total(c, S) = Total(d, S)
<1>1. [x \in S |-> c[x]] = [x \in S |-> d[x]] OBVIOUS
<1>2. \A f : SumsTo(f, c, S) <=> SumsTo(f, d, S) BY <1>1, SumsOnSet
<1> QED BY <1>2 DEF Total

\* Weights that are all zero total zero.
LEMMA TotalZero ==
  ASSUME NEW S, IsFiniteSet(S), NEW c, \A x \in S : c[x] = 0
  PROVE  Total(c, S) = 0
<1> DEFINE T == {R \in SUBSET S : Total(c, R) = 0}
<1>0. \A R \in SUBSET S : IsFiniteSet(R) /\ Weighs(c, R) BY FS_Subset DEF Weighs
<1>1. {} \in T
  <2>1. IsFiniteSet({}) /\ Weighs(c, {}) BY <1>0
  <2> QED BY <2>1, TotalRemove
<1>2. ASSUME NEW R \in SUBSET S, NEW x \in S \ R, R \in T PROVE R \cup {x} \in T
  <2>0. IsFiniteSet(R) /\ Weighs(c, R) /\ x \notin R /\ c[x] \in Nat BY <1>0
  <2>1. Total(c, R \cup {x}) = c[x] + Total(c, R) BY <2>0, TotalAdd
  <2> QED BY <1>2, <2>1
<1> HIDE DEF T
<1>3. S \in T BY <1>1, <1>2, InductiveFamily
<1> QED BY <1>3 DEF T

\* A set counts its elements.
LEMMA TotalOnes ==
  ASSUME NEW S, IsFiniteSet(S), NEW c, \A x \in S : c[x] = 1
  PROVE  Total(c, S) = Cardinality(S)
<1> DEFINE T == {R \in SUBSET S : Total(c, R) = Cardinality(R)}
<1>0. \A R \in SUBSET S : IsFiniteSet(R) /\ Weighs(c, R) BY FS_Subset DEF Weighs
<1>1. {} \in T
  <2>1. IsFiniteSet({}) /\ Weighs(c, {}) BY <1>0
  <2> QED BY <2>1, TotalRemove, FS_EmptySet
<1>2. ASSUME NEW R \in SUBSET S, NEW x \in S \ R, R \in T PROVE R \cup {x} \in T
  <2>0. IsFiniteSet(R) /\ Weighs(c, R) /\ x \notin R /\ c[x] \in Nat BY <1>0
  <2>1. Total(c, R \cup {x}) = c[x] + Total(c, R) BY <2>0, TotalAdd
  <2>2. Cardinality(R \cup {x}) = Cardinality(R) + 1 BY <1>0, FS_AddElement
  <2>3. Cardinality(R) \in Nat BY <1>0, FS_CardinalityType
  <2> QED BY <1>2, <2>1, <2>2, <2>3
<1> HIDE DEF T
<1>3. S \in T BY <1>1, <1>2, InductiveFamily
<1> QED BY <1>3 DEF T

\* A change of one weight changes the total by as much.
LEMMA TotalChange ==
  ASSUME NEW S, IsFiniteSet(S), NEW c, Weighs(c, S), NEW d, Weighs(d, S),
         NEW y \in S, \A x \in S : x # y => c[x] = d[x],
         NEW a \in Nat, d[y] = c[y] + a
  PROVE  Total(d, S) = Total(c, S) + a
<1> DEFINE R == S \ {y}
<1>1. Total(c, S) = c[y] + Total(c, R) /\ Total(d, S) = d[y] + Total(d, R) BY TotalRemove
<1>2. IsFiniteSet(R) /\ Weighs(c, R) BY FS_Subset DEF Weighs
<1>3. Total(c, R) = Total(d, R) BY TotalOnSet
<1>4. Total(c, R) \in Nat BY <1>2, TotalRemove
<1>5. c[y] \in Nat BY DEF Weighs
<1> HIDE DEF R
<1> QED BY <1>1, <1>3, <1>4, <1>5

\* The parts of R that o maps to each element of S, weighed by w.
Owns(o, R, id) == {r \in R : o[r] = id}
Shares(o, w, R, S) == [id \in S |-> w[id] * Cardinality(Owns(o, R, id))]

\* A sum over R, grouped by what o maps its elements to.
LEMMA TotalByOwner ==
  ASSUME NEW R, IsFiniteSet(R), NEW S, IsFiniteSet(S),
         NEW o \in [R -> S], NEW w \in [S -> Nat], NEW c, \A r \in R : c[r] = w[o[r]]
  PROVE  Total(c, R) = Total(Shares(o, w, R, S), S)
<1> DEFINE T == {Q \in SUBSET R : Total(c, Q) = Total(Shares(o, w, Q, S), S)}
<1>0. \A Q \in SUBSET R : IsFiniteSet(Q) /\ Weighs(c, Q) BY FS_Subset DEF Weighs
<1>1. \A Q \in SUBSET R : \A id \in S :
        IsFiniteSet(Owns(o, Q, id)) /\ Cardinality(Owns(o, Q, id)) \in Nat
  BY <1>0, FS_Subset, FS_CardinalityType DEF Owns
<1>2. ASSUME NEW Q \in SUBSET R PROVE Weighs(Shares(o, w, Q, S), S)
  <2>1. ASSUME NEW id \in S PROVE Shares(o, w, Q, S)[id] \in Nat
    <3> DEFINE n == Cardinality(Owns(o, Q, id))
    <3>1. Shares(o, w, Q, S)[id] = w[id] * n BY DEF Shares
    <3>2. n \in Nat BY <1>1
    <3> HIDE DEF n
    <3> QED BY <3>1, <3>2
  <2> QED BY <2>1 DEF Weighs
<1>3. {} \in T
  <2>1. IsFiniteSet({}) /\ Weighs(c, {}) BY <1>0
  <2>2. \A id \in S : Owns(o, {}, id) = {} BY DEF Owns
  <2>3. \A id \in S : Shares(o, w, {}, S)[id] = 0
    <3> TAKE id \in S
    <3>1. Shares(o, w, {}, S)[id] = w[id] * 0 BY <2>2, FS_EmptySet DEF Shares
    <3>2. w[id] \in Nat OBVIOUS
    <3> QED BY <3>1, <3>2
  <2>4. Total(Shares(o, w, {}, S), S) = 0 BY <2>3, TotalZero
  <2> QED BY <2>1, <2>4, TotalRemove
<1>4. ASSUME NEW Q \in SUBSET R, NEW x \in R \ Q, Q \in T PROVE Q \cup {x} \in T
  <2> DEFINE P == Q \cup {x}
             y == o[x]
             d == Shares(o, w, Q, S)
             e == Shares(o, w, P, S)
  <2>1. P \in SUBSET R /\ y \in S /\ w[y] \in Nat /\ c[x] = w[y] BY <1>4
  <2>2. Total(c, P) = c[x] + Total(c, Q) BY <1>0, <2>1, TotalAdd
  <2>3. \A id \in S : id # y => e[id] = d[id]
    <3>1. \A id \in S : id # y => Owns(o, P, id) = Owns(o, Q, id) BY DEF Owns
    <3> QED BY <3>1 DEF Shares
  <2>4. e[y] = d[y] + w[y]
    <3> DEFINE n == Cardinality(Owns(o, Q, y))
    <3>1. Owns(o, P, y) = Owns(o, Q, y) \cup {x} /\ x \notin Owns(o, Q, y)
      BY <1>4 DEF Owns
    <3>2. n \in Nat /\ IsFiniteSet(Owns(o, Q, y)) BY <1>1, <2>1
    <3>3. Cardinality(Owns(o, P, y)) = n + 1 BY <3>1, <3>2, FS_AddElement
    <3>4. e[y] = w[y] * (n + 1) /\ d[y] = w[y] * n BY <2>1, <3>3 DEF Shares
    <3> HIDE DEF n, d, e, y
    <3>5. w[y] * (n + 1) = w[y] * n + w[y] BY <2>1, <3>2
    <3> QED BY <3>4, <3>5
  <2>5. Weighs(d, S) /\ Weighs(e, S) BY <1>2, <2>1
  <2> HIDE DEF d, e, y, P
  <2>6. Total(e, S) = Total(d, S) + w[y] BY <2>1, <2>3, <2>4, <2>5, TotalChange
  <2>7. Total(d, S) \in Nat BY <2>5, TotalRemove
  <2>8. Total(c, Q) = Total(d, S) BY <1>4 DEF d
  <2>9. Total(c, P) = Total(e, S) BY <2>1, <2>2, <2>6, <2>7, <2>8
  <2> QED BY <2>1, <2>9 DEF P, e
<1> HIDE DEF T
<1>5. R \in T BY <1>3, <1>4, InductiveFamily
<1> QED BY <1>5 DEF T

-----------------------------------------------------------------------------
(* Sequences *)

\* A sequence, of whatever it holds.
IsSeq(s) == s \in Seq(ToSet(s))

\* A sequence is a function on the positions up to its length.
LEMMA SeqFacts ==
  ASSUME NEW s, IsSeq(s)
  PROVE  /\ Len(s) \in Nat /\ DOMAIN s = 1..Len(s) /\ s = [i \in 1..Len(s) |-> s[i]]
         /\ ToSet(s) = {s[i] : i \in 1..Len(s)}
         /\ s # <<>> <=> Len(s) > 0
BY DEF IsSeq, ToSet

\* A sequence over S holds elements of S.
LEMMA SeqOver ==
  ASSUME NEW S, NEW s \in Seq(S)
  PROVE  IsSeq(s) /\ ToSet(s) \subseteq S
<1>1. \A i \in 1..Len(s) : s[i] \in ToSet(s) BY DEF ToSet
<1>2. s = [i \in 1..Len(s) |-> s[i]] /\ Len(s) \in Nat OBVIOUS
<1>3. s \in Seq(ToSet(s)) BY <1>1, <1>2
<1> QED BY <1>3 DEF IsSeq, ToSet

\* A function on the first n positions is a sequence of length n.
LEMMA SeqIs ==
  ASSUME NEW n \in Nat, NEW s, s = [i \in 1..n |-> s[i]]
  PROVE  IsSeq(s) /\ Len(s) = n
<1>1. \A i \in 1..n : s[i] \in ToSet(s) BY DEF ToSet
<1>2. s \in Seq(ToSet(s)) BY <1>1
<1> QED BY <1>2 DEF IsSeq

\* The positions of a concatenation.
LEMMA ConcatFacts ==
  ASSUME NEW s, NEW t, IsSeq(s), IsSeq(t)
  PROVE  /\ IsSeq(s \o t) /\ Len(s \o t) = Len(s) + Len(t)
         /\ \A i \in 1..Len(s) : (s \o t)[i] = s[i]
         /\ \A i \in 1..Len(t) : (s \o t)[Len(s) + i] = t[i]
<1> DEFINE S == ToSet(s) \cup ToSet(t)
<1>1. s \in Seq(S) /\ t \in Seq(S) BY DEF IsSeq
<1>2. s \o t \in Seq(S) BY <1>1
<1>3. IsSeq(s \o t) BY <1>2, SeqOver
<1> QED BY <1>1, <1>3

\* A sequence of one element.
LEMMA SingleFacts ==
  ASSUME NEW x
  PROVE  IsSeq(<<x>>) /\ Len(<<x>>) = 1 /\ <<x>>[1] = x /\ ToSet(<<x>>) = {x}
<1>1. <<x>> \in Seq({x}) OBVIOUS
<1>2. IsSeq(<<x>>) BY <1>1, SeqOver
<1>3. ToSet(<<x>>) = {x} BY DEF ToSet
<1> QED BY <1>2, <1>3

\* The empty sequence holds nothing.
LEMMA EmptyFacts == IsSeq(<<>>) /\ Len(<<>>) = 0 /\ ToSet(<<>>) = {}
<1>1. <<>> \in Seq({}) OBVIOUS
<1>2. IsSeq(<<>>) BY <1>1, SeqOver
<1>3. ToSet(<<>>) = {} BY DEF ToSet
<1> QED BY <1>2, <1>3

\* The positions of the tail.
LEMMA TailFacts ==
  ASSUME NEW s, IsSeq(s), s # <<>>
  PROVE  /\ IsSeq(Tail(s)) /\ Len(s) \in Nat \ {0} /\ Len(Tail(s)) = Len(s) - 1
         /\ Head(s) = s[1]
         /\ \A i \in 1..(Len(s) - 1) : Tail(s)[i] = s[i + 1]
<1>1. s \in Seq(ToSet(s)) BY DEF IsSeq
<1>2. Tail(s) \in Seq(ToSet(s)) BY <1>1
<1>3. IsSeq(Tail(s)) BY <1>2, SeqOver
<1> QED BY <1>1, <1>3

\* The positions of an extended sequence; Front and Last undo it.
LEMMA AppendFacts ==
  ASSUME NEW s, NEW x, IsSeq(s)
  PROVE  /\ IsSeq(Append(s, x)) /\ Len(Append(s, x)) = Len(s) + 1
         /\ Append(s, x) # <<>>
         /\ Last(Append(s, x)) = x /\ Front(Append(s, x)) = s
         /\ \A i \in 1..Len(s) : Append(s, x)[i] = s[i]
         /\ Append(s, x)[Len(s) + 1] = x
         /\ ToSet(Append(s, x)) = ToSet(s) \cup {x}
<1> DEFINE S == ToSet(s) \cup {x}
<1>1. s \in Seq(S) BY DEF IsSeq
<1>2. Append(s, x) \in Seq(S) /\ Len(Append(s, x)) = Len(s) + 1 BY <1>1
<1>3. IsSeq(Append(s, x)) BY <1>2, SeqOver
<1>4. Last(Append(s, x)) = x BY <1>1 DEF Last
<1>5. Front(Append(s, x)) = s BY <1>1 DEF Front
<1>6. \A i \in 1..Len(s) : Append(s, x)[i] = s[i] BY <1>1
<1>7. Append(s, x)[Len(s) + 1] = x BY <1>1
<1>8. Len(s) \in Nat BY <1>1
<1>9. ToSet(Append(s, x)) = {Append(s, x)[i] : i \in 1..(Len(s) + 1)} BY <1>2, <1>3, SeqFacts
<1>10. ToSet(s) = {s[i] : i \in 1..Len(s)} BY SeqFacts
<1>11. ToSet(Append(s, x)) = ToSet(s) \cup {x}
  <2>1. \A i \in 1..(Len(s) + 1) : i \in 1..Len(s) \/ i = Len(s) + 1 BY <1>8
  <2>2. 1..Len(s) \subseteq 1..(Len(s) + 1) /\ Len(s) + 1 \in 1..(Len(s) + 1) BY <1>8
  <2> QED BY <1>6, <1>7, <1>9, <1>10, <2>1, <2>2
<1>12. Append(s, x) # <<>>
  <2>1. Len(Append(s, x)) # Len(<<>>) BY <1>2, <1>8
  <2> QED BY <2>1
<1> QED BY <1>2, <1>3, <1>4, <1>5, <1>6, <1>7, <1>11, <1>12

\* Front and Last of a sequence over S that is not empty.
LEMMA FrontFacts ==
  ASSUME NEW S, NEW s \in Seq(S), s # <<>>
  PROVE  Front(s) \in Seq(S) /\ Last(s) \in S
BY DEF Front, Last
=============================================================================
