------------------------------ MODULE FoldSteps ------------------------------
(***************************************************************************)
(* A fold over a sequence, step by step, for any operator: the module is   *)
(* instantiated once for each operator a model folds with.  Nothing is     *)
(* assumed of the values the operator yields.  The module extends no more  *)
(* than it must, because an instance brings in all of it; what it needs of *)
(* the naturals is a hypothesis that FoldFacts proves.                     *)
(***************************************************************************)
EXTENDS Integers

CONSTANT op(_, _)

Greatest(s) == CHOOSE x \in s : \A y \in s : x >= y

\* Induction, and the greatest element of a bounded set of naturals.
NaturalsFacts ==
  /\ \A S : 0 \in S /\ (\A n \in Nat : n \in S => n + 1 \in S) => \A n \in Nat : n \in S
  /\ \A S \in SUBSET Nat : \A b \in Nat :
       S # {} /\ (\A m \in S : m <= b) => Greatest(S) \in S /\ \A m \in S : Greatest(S) >= m

\* it[k] is the value after the first k elements.
Steps(it, base, seq, n) ==
  /\ it = [k \in 0..n |-> it[k]]
  /\ it[0] = base
  /\ \A k \in 1..n : it[k] = op(it[k - 1], seq[k])

\* The function MapThenFoldSet chooses when it folds seq: equation over the
\* parts of the first n positions.
Eqn(f, base, seq, n) ==
  f = [s \in SUBSET (1..n) |->
         IF s = {} THEN base ELSE op(f[s \ {Greatest(s)}], seq[Greatest(s)])]

\* What FoldLeft yields.
Fold(base, seq, n) == (CHOOSE f : Eqn(f, base, seq, n))[1..n]

\* The greatest element of a part of 1..n, and of 1..n itself.
LEMMA GreatestIs ==
  ASSUME NaturalsFacts, NEW S \in SUBSET Nat, NEW b \in Nat, S # {}, \A m \in S : m <= b
  PROVE  Greatest(S) \in S /\ \A m \in S : Greatest(S) >= m
BY DEF NaturalsFacts

\* The greatest element of 1..n.
LEMMA GreatestOfInterval ==
  ASSUME NaturalsFacts, NEW k \in Nat
  PROVE  1..(k + 1) # {} /\ Greatest(1..(k + 1)) = k + 1 /\ (1..(k + 1)) \ {k + 1} = 1..k
<1> DEFINE S == 1..(k + 1)
<1>1. S \in SUBSET Nat /\ S # {} /\ k + 1 \in S /\ \A m \in S : m <= k + 1 OBVIOUS
<1>2. Greatest(S) \in S /\ Greatest(S) >= k + 1 BY <1>1, GreatestIs
<1>3. Greatest(S) = k + 1
  <2>1. Greatest(S) \in Nat /\ Greatest(S) <= k + 1 BY <1>1, <1>2
  <2> QED BY <1>2, <2>1
<1>4. S \ {k + 1} = 1..k OBVIOUS
<1> QED BY <1>1, <1>3, <1>4

\* Such a function exists.
LEMMA EqnHolds ==
  ASSUME NaturalsFacts, NEW base, NEW seq, NEW n \in Nat
  PROVE  \E f : Eqn(f, base, seq, n)
<1> DEFINE T == {k \in Nat : \E f : Eqn(f, base, seq, k)}
<1>1. 0 \in T
  <2> DEFINE f == [s \in SUBSET (1..0) |-> base]
  <2>1. SUBSET (1..0) = {{}} OBVIOUS
  <2>2. Eqn(f, base, seq, 0) BY <2>1 DEF Eqn
  <2> QED BY <2>2
<1>2. ASSUME NEW k \in Nat, k \in T PROVE k + 1 \in T
  <2>1. PICK f : Eqn(f, base, seq, k) BY <1>2
  <2> DEFINE h == [s \in SUBSET (1..(k + 1)) |->
                     IF k + 1 \in s THEN op(f[s \ {k + 1}], seq[k + 1]) ELSE f[s]]
  <2>2. ASSUME NEW s \in SUBSET (1..(k + 1))
        PROVE  h[s] = IF s = {} THEN base ELSE op(h[s \ {Greatest(s)}], seq[Greatest(s)])
    <3>1. CASE k + 1 \in s
      <4>1. \A x \in s : x \in Nat /\ x <= k + 1 OBVIOUS
      <4>2. Greatest(s) \in s /\ Greatest(s) >= k + 1 BY <3>1, <4>1, GreatestIs
      <4>3. Greatest(s) = k + 1
        <5>1. Greatest(s) \in Nat /\ Greatest(s) <= k + 1 BY <4>1, <4>2
        <5> QED BY <4>2, <5>1
      <4>4. s \ {k + 1} \in SUBSET (1..(k + 1)) /\ k + 1 \notin s \ {k + 1} OBVIOUS
      <4>5. h[s \ {k + 1}] = f[s \ {k + 1}] BY <4>4
      <4>6. h[s] = op(f[s \ {k + 1}], seq[k + 1]) BY <3>1
      <4> QED BY <3>1, <4>3, <4>5, <4>6
    <3>2. CASE k + 1 \notin s
      <4>1. s \in SUBSET (1..k)
        <5>1. \A x \in s : x \in 1..k BY <3>2
        <5> QED BY <5>1
      <4>2. h[s] = f[s] BY <3>2
      <4>3. f[s] = IF s = {} THEN base ELSE op(f[s \ {Greatest(s)}], seq[Greatest(s)])
        <5> HIDE DEF h
        <5>1. f = [t \in SUBSET (1..k) |->
                     IF t = {} THEN base ELSE op(f[t \ {Greatest(t)}], seq[Greatest(t)])]
          BY <2>1 DEF Eqn
        <5> QED BY <4>1, <5>1
      <4>4. CASE s # {}
        <5>1. \A x \in s : x \in Nat /\ x <= k BY <4>1
        <5>2. Greatest(s) \in s BY <4>4, <5>1, GreatestIs
        <5>3. s \ {Greatest(s)} \in SUBSET (1..(k + 1)) /\ k + 1 \notin s \ {Greatest(s)} BY <3>2
        <5>4. h[s \ {Greatest(s)}] = f[s \ {Greatest(s)}] BY <5>3
        <5> HIDE DEF h
        <5> QED BY <4>2, <4>3, <4>4, <5>4
      <4>5. CASE s = {} BY <4>2, <4>3, <4>5
      <4> QED BY <4>4, <4>5
    <3> QED BY <3>1, <3>2
  <2>3. h = [s \in SUBSET (1..(k + 1)) |-> h[s]] OBVIOUS
  <2> HIDE DEF h
  <2>4. h = [s \in SUBSET (1..(k + 1)) |->
               IF s = {} THEN base ELSE op(h[s \ {Greatest(s)}], seq[Greatest(s)])]
    BY <2>2, <2>3
  <2>5. Eqn(h, base, seq, k + 1) BY <2>4 DEF Eqn
  <2> QED BY <2>5
<1> HIDE DEF T
<1>3. n \in T
  <2>1. \A k \in Nat : k \in T => k + 1 \in T BY <1>2
  <2> QED BY <1>1, <2>1 DEF NaturalsFacts
<1> QED BY <1>3 DEF T

\* A fold takes the elements one by one.
LEMMA StepByStep ==
  ASSUME NaturalsFacts, NEW base, NEW seq, NEW n \in Nat
  PROVE  \E it : Steps(it, base, seq, n) /\ Fold(base, seq, n) = it[n]
<1> DEFINE f == CHOOSE g : Eqn(g, base, seq, n)
<1>1. Eqn(f, base, seq, n) BY EqnHolds
<1>2. Fold(base, seq, n) = f[1..n] BY DEF Fold
<1> HIDE DEF f
<1> DEFINE it == [k \in 0..n |-> f[1..k]]
<1>3. it[0] = base
  <2>1. 1..0 = {} OBVIOUS
  <2>2. {} \in SUBSET (1..n) /\ 0 \in 0..n OBVIOUS
  <2>3. f[{}] = base BY <1>1, <2>2 DEF Eqn
  <2> QED BY <2>1, <2>2, <2>3
<1>4. ASSUME NEW k \in 1..n PROVE it[k] = op(it[k - 1], seq[k])
  <2> DEFINE S == 1..k
  <2>1. k - 1 \in Nat /\ (k - 1) + 1 = k /\ k \in 0..n /\ k - 1 \in 0..n OBVIOUS
  <2>2. S # {} /\ Greatest(S) = k /\ S \ {k} = 1..(k - 1)
    <3>1. /\ 1..((k - 1) + 1) # {} /\ Greatest(1..((k - 1) + 1)) = (k - 1) + 1
          /\ (1..((k - 1) + 1)) \ {(k - 1) + 1} = 1..(k - 1)
      BY <2>1, GreatestOfInterval
    <3> QED BY <2>1, <3>1
  <2>3. S \in SUBSET (1..n) OBVIOUS
  <2>4. it[k] = f[S] /\ it[k - 1] = f[1..(k - 1)] BY <2>1
  <2> HIDE DEF S, it
  <2>5. f[S] = op(f[S \ {Greatest(S)}], seq[Greatest(S)]) BY <1>1, <2>2, <2>3 DEF Eqn
  <2> QED BY <2>2, <2>4, <2>5
<1>5. it = [k \in 0..n |-> it[k]] /\ it[n] = f[1..n] OBVIOUS
<1> HIDE DEF it
<1>6. Steps(it, base, seq, n) BY <1>3, <1>4, <1>5 DEF Steps
<1> QED BY <1>2, <1>5, <1>6
=============================================================================
