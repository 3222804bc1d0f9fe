-------------------------- MODULE PipeGraphProofs --------------------------
(***************************************************************************)
(* What the functions of PipeGraph compute, for every well-formed program: *)
(* the ready queue orders the graph, schedule places every node at the     *)
(* earliest stage any legal assignment under the cap has for it, evaluate  *)
(* measures what schedule added up, and its sums are the totals over the   *)
(* delay chains.                                                           *)
(***************************************************************************)
EXTENDS PipeGraph, FoldFacts, SequenceTheorems

-----------------------------------------------------------------------------
(* The signals in an order *)

\* The operands of a driver are signals of the program, an input has none.
LEMMA ArgsAreSignals ==
  ASSUME NEW p, WellFormed(p), NEW id \in Signals(p)
  PROVE  /\ ArgSet(p, id) \subseteq Signals(p)
         /\ ArgSet(p, id) = {p.args[id][i] : i \in DOMAIN p.args[id]}
         /\ id \in Inputs(p) => ArgSet(p, id) = {}
<1>1. p.args[id] \in Seq(Signals(p)) BY DEF WellFormed
<1>2. ArgSet(p, id) = {p.args[id][i] : i \in DOMAIN p.args[id]}
  BY DEF ArgSet, ToSet
<1>3. \A i \in DOMAIN p.args[id] : p.args[id][i] \in Signals(p) BY <1>1
<1>4. id \in Inputs(p) => DOMAIN p.args[id] = {} BY DEF WellFormed
<1> QED BY <1>2, <1>3, <1>4

\* Signals are numbered from one, and any set of them is finite.
LEMMA SignalsAreFinite ==
  ASSUME NEW p, WellFormed(p)
  PROVE  /\ p.n \in Nat /\ Signals(p) = 1..p.n
         /\ Signals(p) \subseteq Nat /\ NoNode \notin Signals(p)
         /\ \A S \in SUBSET Signals(p) : IsFiniteSet(S)
<1>1. p.n \in Nat /\ Signals(p) = 1..p.n BY DEF WellFormed, Signals
<1>2. IsFiniteSet(Signals(p)) BY <1>1, FS_Interval
<1> QED BY <1>1, <1>2, FS_Subset DEF NoNode

\* The backward worklist finds the port elements and only signals.
LEMMA LiveAreSignals ==
  ASSUME NEW p, WellFormed(p)
  PROVE  PortElements(p) \subseteq Live(p) /\ Live(p) \subseteq Signals(p)
<1> DEFINE n == p.n
           seq == [k \in Signals(p) |-> k]
           base == PortElements(p)
           A == {S \in SUBSET Signals(p) : base \subseteq S}
           op(reach) == reach \cup UNION {ArgSet(p, id) : id \in reach}
           body(f) == [s \in SUBSET DOMAIN seq |->
                         IF s = {} THEN base ELSE op(f[s \ {Max(s)}])]
           it == CHOOSE f : f = body(f)
           F == [k \in 1..n |-> [a \in A |-> op(a)]]
<1>1. Live(p) = it[DOMAIN seq]
  BY DEF Live, FoldLeft, MapThenFoldSet
<1>2. n \in Nat /\ DOMAIN seq = 1..n BY SignalsAreFinite
<1>3. base \in A BY DEF WellFormed, PortElements, Inputs
<1>4. \A a \in A : op(a) \in A BY ArgsAreSignals
<1> HIDE DEF base, op, A, seq, n
<1>5. F \in [1..n -> [A -> A]] BY <1>4
<1>6. \A k \in 1..n : \A a \in A : F[k][a] = op(a) OBVIOUS
<1> HIDE DEF F
<1>7. PICK f : Folds(f, F, base, n, A)
  BY <1>2, <1>3, <1>5, FoldEquation
<1>8. f = body(f) BY <1>2, <1>6, <1>7 DEF Folds
<1>9. it = body(it) BY <1>8
<1> HIDE DEF it
<1>10. Unfolds(it, F, base, n, A)
  BY <1>2, <1>6, <1>9, MaxOfPositions DEF Unfolds
<1>11. \A k \in 0..n : it[1..k] \in A
  BY <1>2, <1>3, <1>5, <1>10, FoldRuns
<1>12. Live(p) \in A BY <1>1, <1>2, <1>11
<1> QED BY <1>12 DEF A, base

\* An order of live signals in which operands come before their readers.
Ordered(p, live, q) ==
  /\ q \in Seq(live)
  /\ \A i, j \in 1..Len(q) : q[i] = q[j] => i = j
  /\ \A i \in 1..Len(q) : \A v \in ArgSet(p, q[i]) : \E j \in 1..(i - 1) : q[j] = v

\* The ready queue emits live signals once, operands before readers.
LEMMA OrderIsOrdered ==
  ASSUME NEW p, WellFormed(p)
  PROVE  Ordered(p, Live(p), Order(p))
<1> DEFINE n == p.n
           live == Live(p)
           A == {q \in Seq(live) : Ordered(p, live, q)}
           seq == [k \in Signals(p) |-> k]
           ready(done) == {id \in live \ ToSet(done) : ArgSet(p, id) \subseteq ToSet(done)}
           op(done) == IF ready(done) = {} THEN done ELSE Append(done, Min(ready(done)))
           body(f) == [s \in SUBSET DOMAIN seq |->
                         IF s = {} THEN <<>> ELSE op(f[s \ {Max(s)}])]
           it == CHOOSE f : f = body(f)
           F == [k \in 1..n |-> [a \in A |-> op(a)]]
<1>1. Order(p) = it[DOMAIN seq]
  BY DEF Order, FoldLeft, MapThenFoldSet
<1>2. n \in Nat /\ DOMAIN seq = 1..n /\ Signals(p) \subseteq Nat BY SignalsAreFinite
<1>3. <<>> \in A BY DEF Ordered
<1>4. ASSUME NEW q \in A PROVE op(q) \in A
  <2>1. CASE ready(q) = {} BY <2>1
  <2>2. CASE ready(q) # {}
    <3> DEFINE x == Min(ready(q))
               r == Append(q, x)
    <3>1. ready(q) \in SUBSET Nat BY <1>2, LiveAreSignals
    <3>2. x \in ready(q) BY <2>2, <3>1, MinIsLeast
    <3> HIDE DEF x
    <3>3. x \in live /\ x \notin ToSet(q) /\ ArgSet(p, x) \subseteq ToSet(q) BY <3>2
    <3>4. q \in Seq(live) /\ Len(q) \in Nat /\ Ordered(p, live, q) OBVIOUS
    <3>5. ToSet(q) = {q[i] : i \in 1..Len(q)} BY <3>4 DEF ToSet
    <3>6. /\ r \in Seq(live) /\ Len(r) = Len(q) + 1 /\ r[Len(r)] = x
          /\ \A i \in 1..Len(q) : r[i] = q[i]
      BY <3>3, <3>4
    <3> HIDE DEF r, live
    <3>7. \A i, j \in 1..Len(r) : r[i] = r[j] => i = j
      BY <3>3, <3>4, <3>5, <3>6 DEF Ordered
    <3>8. ASSUME NEW i \in 1..Len(r), NEW v \in ArgSet(p, r[i])
          PROVE  \E j \in 1..(i - 1) : r[j] = v
      <4>1. CASE i \in 1..Len(q)
        <5>1. PICK j \in 1..(i - 1) : q[j] = v BY <3>4, <3>6, <3>8, <4>1 DEF Ordered
        <5> QED BY <3>4, <3>6, <4>1, <5>1
      <4>2. CASE i = Len(r)
        <5>1. v \in ToSet(q) BY <3>3, <3>6, <3>8, <4>2
        <5>2. PICK j \in 1..Len(q) : q[j] = v BY <3>5, <5>1
        <5> QED BY <3>4, <3>6, <4>2, <5>2
      <4> QED BY <3>4, <3>6, <4>1, <4>2
    <3>9. Ordered(p, live, r) BY <3>6, <3>7, <3>8 DEF Ordered
    <3> QED BY <2>2, <3>6, <3>9 DEF r, x
  <2> QED BY <2>1, <2>2
<1> HIDE DEF op, A, seq, n
<1>5. F \in [1..n -> [A -> A]] BY <1>4
<1>6. \A k \in 1..n : \A a \in A : F[k][a] = op(a) OBVIOUS
<1> HIDE DEF F
<1>7. PICK f : Folds(f, F, <<>>, n, A)
  BY <1>2, <1>3, <1>5, FoldEquation
<1>8. f = body(f) BY <1>2, <1>6, <1>7 DEF Folds
<1>9. it = body(it) BY <1>8
<1> HIDE DEF it
<1>10. Unfolds(it, F, <<>>, n, A)
  BY <1>2, <1>6, <1>9, MaxOfPositions DEF Unfolds
<1>11. \A k \in 0..n : it[1..k] \in A
  BY <1>2, <1>3, <1>5, <1>10, FoldRuns
<1>12. Order(p) \in A BY <1>1, <1>2, <1>11
<1> QED BY <1>12 DEF A

\* A graph without a cycle has all its live signals in its order.
LEMMA OrderIsComplete ==
  ASSUME NEW p, WellFormed(p), ~Cyclic(p)
  PROVE  /\ Live(p) = {Order(p)[i] : i \in 1..Len(Order(p))}
         /\ \A id \in Live(p) : ArgSet(p, id) \subseteq Live(p)
<1> DEFINE q == Order(p)
           all == {q[i] : i \in 1..Len(q)}
<1>1. Ordered(p, Live(p), q) BY OrderIsOrdered
<1>2. IsFiniteSet(Live(p)) BY LiveAreSignals, SignalsAreFinite
<1>3. Len(q) = Cardinality(Live(p)) BY DEF Cyclic
<1> HIDE DEF q
<1>4. Len(q) \in Nat /\ q \in Seq(Live(p)) BY <1>1 DEF Ordered
<1>5. all \subseteq Live(p) BY <1>4
<1> DEFINE m == [i \in 1..Len(q) |-> q[i]]
<1>6. m \in Bijection(1..Len(q), all)
  BY <1>1, <1>4 DEF Ordered, Bijection, Injection, Surjection, IsInjective
<1>7. ExistsBijection(1..Len(q), all)
  <2> HIDE DEF m, all
  <2> QED BY <1>6 DEF ExistsBijection
<1>8. IsFiniteSet(all) /\ Cardinality(all) = Len(q)
  BY <1>4, <1>7, FS_Bijection, FS_Interval
<1> HIDE DEF all
<1>9. all = Live(p) BY <1>2, <1>3, <1>5, <1>8, FS_Subset
<1>10. ASSUME NEW id \in Live(p) PROVE ArgSet(p, id) \subseteq Live(p)
  <2>1. PICK i \in 1..Len(q) : q[i] = id BY <1>9 DEF all
  <2>2. \A v \in ArgSet(p, id) : \E j \in 1..(i - 1) : q[j] = v
    BY <1>1, <2>1 DEF Ordered
  <2>3. \A j \in 1..(i - 1) : q[j] \in Live(p) BY <1>4, <2>1
  <2> QED BY <2>2, <2>3
<1> QED BY <1>9, <1>10 DEF all, q

\* A constant is a live operation all of whose operands are constants.
ConstantsHold(p, found) ==
  /\ found \subseteq Live(p)
  /\ \A id \in found : p.kind[id] = "op" /\ ArgSet(p, id) \subseteq found

\* The constants Graph marks depend on constants only.
LEMMA ConstantsAreConstant ==
  ASSUME NEW p, WellFormed(p)
  PROVE  ConstantsHold(p, Constants(p))
<1> DEFINE seq == Order(p)
           n == Len(seq)
           A == {S \in SUBSET Live(p) : ConstantsHold(p, S)}
           op(found, id) == IF p.kind[id] = "op" /\ ArgSet(p, id) \subseteq found
                            THEN found \cup {id} ELSE found
           body(f) == [s \in SUBSET DOMAIN seq |->
                         IF s = {} THEN {} ELSE op(f[s \ {Max(s)}], seq[Max(s)])]
           it == CHOOSE f : f = body(f)
           F == [k \in 1..n |-> [a \in A |-> op(a, seq[k])]]
<1>1. Constants(p) = it[DOMAIN seq]
  BY DEF Constants, FoldLeft, MapThenFoldSet
<1>2. seq \in Seq(Live(p)) BY OrderIsOrdered DEF Ordered
<1> HIDE DEF seq
<1>3. n \in Nat /\ DOMAIN seq = 1..n /\ \A k \in 1..n : seq[k] \in Live(p) BY <1>2
<1> HIDE DEF n
<1>4. {} \in A BY DEF ConstantsHold
<1>5. \A a \in A : \A id \in Live(p) : op(a, id) \in A
  BY DEF ConstantsHold
<1> HIDE DEF op, A
<1>6. F \in [1..n -> [A -> A]] BY <1>3, <1>5
<1>7. \A k \in 1..n : \A a \in A : F[k][a] = op(a, seq[k]) OBVIOUS
<1> HIDE DEF F
<1>8. PICK f : Folds(f, F, {}, n, A)
  BY <1>3, <1>4, <1>6, FoldEquation
<1>9. f = body(f) BY <1>3, <1>7, <1>8 DEF Folds
<1>10. it = body(it) BY <1>9
<1> HIDE DEF it
<1>a. \A s \in SUBSET (1..n) :
        it[s] = IF s = {} THEN {} ELSE op(it[s \ {Max(s)}], seq[Max(s)])
  BY <1>3, <1>10
<1> HIDE DEF body
<1>11. Unfolds(it, F, {}, n, A)
  <2>1. it[{}] = {}
    <3>1. {} \in SUBSET (1..n) OBVIOUS
    <3> QED BY <1>a, <3>1
  <2>2. ASSUME NEW s \in SUBSET (1..n), s # {}, it[s \ {Max(s)}] \in A
        PROVE  it[s] = F[Max(s)][it[s \ {Max(s)}]]
    <3>1. Max(s) \in 1..n BY <1>3, <2>2, MaxOfPositions
    <3>2. it[s] = op(it[s \ {Max(s)}], seq[Max(s)]) BY <1>a, <2>2
    <3> QED BY <1>7, <2>2, <3>1, <3>2
  <2> QED BY <2>1, <2>2 DEF Unfolds
<1>12. \A k \in 0..n : it[1..k] \in A
  BY <1>3, <1>4, <1>6, <1>11, FoldRuns
<1>13. Constants(p) \in A BY <1>1, <1>3, <1>12
<1> QED BY <1>13 DEF A

-----------------------------------------------------------------------------
(* The analysed graph *)

\* What the scheduler relies on: the order holds every live signal once,
\* operands first; constants depend on constants only and are no inputs.
SoundGraph(g) ==
  /\ WellFormed(g.p)
  /\ g.live \subseteq Signals(g.p)
  /\ g.input = Inputs(g.p) /\ g.input \subseteq g.live
  /\ g.p.out \subseteq g.live
  /\ Ordered(g.p, g.live, g.order)
  /\ g.live = {g.order[i] : i \in 1..Len(g.order)}
  /\ g.const \subseteq g.live \ g.input
  /\ \A id \in g.const : ArgSet(g.p, id) \subseteq g.const
  /\ g.users = [id \in Signals(g.p) |-> {u \in g.live : id \in ArgSet(g.p, u)}]

\* The Graph constructor leaves a sound graph unless it throws.
LEMMA AnalysedIsSound ==
  ASSUME NEW p, WellFormed(p), ~Cyclic(p)
  PROVE  SoundGraph(Analyse(p))
<1> DEFINE g == Analyse(p)
<1>1. /\ g.p = p /\ g.live = Live(p) /\ g.order = Order(p) /\ g.const = Constants(p)
      /\ g.input = Inputs(p)
      /\ g.users = [id \in Signals(p) |-> {u \in Live(p) : id \in ArgSet(p, u)}]
  BY DEF Analyse
<1> HIDE DEF g
<1>2. ConstantsHold(p, Constants(p)) BY ConstantsAreConstant
<1>3. Constants(p) \subseteq Live(p) \ Inputs(p)
  BY <1>2 DEF ConstantsHold, Inputs
<1>4. Inputs(p) \subseteq Live(p) /\ p.out \subseteq Live(p) /\ Live(p) \subseteq Signals(p)
  BY LiveAreSignals DEF PortElements
<1>5. Ordered(p, Live(p), Order(p)) BY OrderIsOrdered
<1>6. Live(p) = {Order(p)[i] : i \in 1..Len(Order(p))} BY OrderIsComplete
<1>7. SoundGraph(g)
  BY <1>1, <1>2, <1>3, <1>4, <1>5, <1>6 DEF SoundGraph, ConstantsHold
<1> QED BY <1>7 DEF g

\* The order is a finite sequence of live signals.
LEMMA OrderIsFinite ==
  ASSUME NEW g, SoundGraph(g)
  PROVE  /\ Len(g.order) \in Nat /\ DOMAIN g.order = 1..Len(g.order)
         /\ \A i \in 1..Len(g.order) : g.order[i] \in g.live
         /\ g.live \subseteq Signals(g.p)
         /\ \A S \in SUBSET g.live : IsFiniteSet(S)
<1>1. g.order \in Seq(g.live) BY DEF SoundGraph, Ordered
<1>2. WellFormed(g.p) /\ g.live \subseteq Signals(g.p) BY DEF SoundGraph
<1> QED BY <1>1, <1>2, SignalsAreFinite

\* The operands of a live signal are live.
LEMMA OperandsAreLive ==
  ASSUME NEW g, SoundGraph(g), NEW id \in g.live
  PROVE  /\ ArgSet(g.p, id) \subseteq g.live
         /\ DataArgs(g, id) \subseteq g.live \ g.const
         /\ DataArgs(g, id) \subseteq ArgSet(g.p, id)
         /\ id \in g.const \cup g.input => DataArgs(g, id) = {}
<1>1. PICK i \in 1..Len(g.order) : g.order[i] = id BY DEF SoundGraph
<1>2. \A j \in 1..(i - 1) : g.order[j] \in g.live BY OrderIsFinite, <1>1
<1>3. \A v \in ArgSet(g.p, id) : \E j \in 1..(i - 1) : g.order[j] = v
  BY <1>1 DEF SoundGraph, Ordered
<1>4. ArgSet(g.p, id) \subseteq g.live BY <1>2, <1>3
<1>5. id \in g.const => ArgSet(g.p, id) \subseteq g.const BY DEF SoundGraph
<1>6. WellFormed(g.p) /\ id \in Signals(g.p) /\ g.input = Inputs(g.p) BY DEF SoundGraph
<1>7. id \in g.input => ArgSet(g.p, id) = {} BY <1>6, ArgsAreSignals
<1> QED BY <1>4, <1>5, <1>7 DEF DataArgs

\* What holds of a live signal whenever it holds of its operands holds of all.
LEMMA OrderInduction ==
  ASSUME NEW g, SoundGraph(g), NEW S,
         \A id \in g.live : ArgSet(g.p, id) \subseteq S => id \in S
  PROVE  g.live \subseteq S
<1> DEFINE n == Len(g.order)
           T == {k \in Nat : \A i \in 1..n : i <= k => g.order[i] \in S}
<1>1. n \in Nat /\ \A i \in 1..n : g.order[i] \in g.live BY OrderIsFinite
<1> HIDE DEF n
<1>2. 0 \in T BY <1>1
<1>3. ASSUME NEW k \in Nat, k \in T PROVE k + 1 \in T
  <2> SUFFICES ASSUME k + 1 <= n PROVE g.order[k + 1] \in S
    <3>1. \A i \in 1..n : i <= k + 1 => i <= k \/ i = k + 1 BY <1>1
    <3>2. \A i \in 1..n : i <= k + 1 => g.order[i] \in S BY <1>1, <1>3, <3>1
    <3> QED BY <3>2
  <2>1. k + 1 \in 1..n BY <1>1
  <2>2. \A v \in ArgSet(g.p, g.order[k + 1]) : \E j \in 1..k : g.order[j] = v
    <3> DEFINE m == k + 1
    <3>1. m \in 1..Len(g.order) BY <2>1 DEF n
    <3> HIDE DEF m
    <3>2. \A v \in ArgSet(g.p, g.order[m]) : \E j \in 1..(m - 1) : g.order[j] = v
      BY <3>1 DEF SoundGraph, Ordered
    <3>3. 1..(m - 1) = 1..k BY DEF m
    <3> QED BY <3>2, <3>3 DEF m
  <2>3. \A j \in 1..k : g.order[j] \in S BY <1>1, <1>3
  <2> QED BY <1>1, <2>1, <2>2, <2>3
<1> HIDE DEF T
<1>4. n \in T BY <1>1, <1>2, <1>3, InductiveSet
<1>5. \A i \in 1..n : g.order[i] \in S BY <1>1, <1>4 DEF T
<1> QED BY <1>5 DEF SoundGraph, n

\* MaxOf is the least bound of a finite set of naturals, zero if it is empty.
LEMMA MaxOfBounds ==
  ASSUME NEW S \in SUBSET Nat, IsFiniteSet(S)
  PROVE  /\ MaxOf(S) \in Nat
         /\ MaxOf(S) = 0 \/ MaxOf(S) \in S
         /\ \A m \in S : m <= MaxOf(S)
         /\ \A b \in Nat : (\A m \in S : m <= b) => MaxOf(S) <= b
<1> DEFINE Z == {0} \cup S
<1>1. IsFiniteSet(Z) BY FS_AddElement
<1>2. Z \in SUBSET Nat /\ Z # {} OBVIOUS
<1>3. MaxOf(S) = Max(Z) BY DEF MaxOf
<1>4. S \subseteq Z /\ 0 \in Z /\ \A m \in Z : m = 0 \/ m \in S OBVIOUS
<1> HIDE DEF Z
<1>5. Max(Z) \in Z /\ \A m \in Z : Max(Z) >= m BY <1>1, <1>2, MaxOfFinite
<1>6. Max(Z) \in Nat BY <1>2, <1>5
<1> HIDE DEF MaxOf
<1> QED BY <1>2, <1>3, <1>4, <1>5, <1>6

\* The image of a finite set under a function is finite.
LEMMA ImageIsFinite ==
  ASSUME NEW S, IsFiniteSet(S), NEW f
  PROVE  IsFiniteSet({f[x] : x \in S})
<1> DEFINE T == {f[x] : x \in S}
           h == [x \in S |-> f[x]]
<1>1. h \in Surjection(S, T) BY DEF Surjection
<1> HIDE DEF h, T
<1>2. IsFiniteSet(T) BY <1>1, FS_Surjection
<1> QED BY <1>2 DEF T

-----------------------------------------------------------------------------
(* What schedule computes *)

\* The signals schedule gives a stage.
Placeable(g) == g.live \ (g.input \cup g.const)

Slots(g) == [ok : BOOLEAN, stage : [Signals(g.p) -> Nat], arrival : [Signals(g.p) -> Nat]]
EmptySlots(g) == [ok |-> TRUE, stage |-> [id \in Signals(g.p) |-> 0],
                  arrival |-> [id \in Signals(g.p) |-> 0]]

\* Where a node goes, given where its operands are.
ReadyAt(g, last, acc, id) ==
  MaxOf({acc.arrival[v] : v \in SameStage(g, acc, id, Wanted(g, last, acc, id))})
Spills(g, last, cap, acc, id) == ReadyAt(g, last, acc, id) + Cost(g, id) > cap
SlotStage(g, last, cap, acc, id) ==
  IF Spills(g, last, cap, acc, id) THEN Wanted(g, last, acc, id) + 1
  ELSE Wanted(g, last, acc, id)
SlotArrival(g, last, cap, acc, id) ==
  IF Spills(g, last, cap, acc, id) THEN Cost(g, id)
  ELSE ReadyAt(g, last, acc, id) + Cost(g, id)
HasRoom(g, last, cap, acc, id) ==
  Fits(g, last, cap, id, SlotStage(g, last, cap, acc, id))

\* A placed node is where its operands put it.
Settled(g, last, cap, acc, id) ==
  /\ HasRoom(g, last, cap, acc, id)
  /\ acc.stage[id] = SlotStage(g, last, cap, acc, id)
  /\ acc.arrival[id] = SlotArrival(g, last, cap, acc, id)

\* The first k signals of the order are placed and no other.
PlacedUpto(g, last, cap, acc, k) ==
  /\ acc \in Slots(g) /\ acc.ok
  /\ \A i \in 1..k : g.order[i] \in Placeable(g) => Settled(g, last, cap, acc, g.order[i])
  /\ \A id \in Signals(g.p) :
       (\A i \in 1..k : g.order[i] = id => id \notin Placeable(g)) =>
         acc.stage[id] = 0 /\ acc.arrival[id] = 0

Refused(acc) == [acc EXCEPT !.ok = FALSE]
Put(acc, id, s, a) == [acc EXCEPT !.stage[id] = s, !.arrival[id] = a]

\* A step of the placement loop skips, refuses or places its node.
LEMMA PlaceNodeCases ==
  ASSUME NEW g, NEW last, NEW cap, NEW acc, NEW id \in g.live
  PROVE  PlaceNode(g, last, cap, acc, id) =
           IF ~acc.ok \/ id \notin Placeable(g) THEN acc
           ELSE IF ~HasRoom(g, last, cap, acc, id) THEN Refused(acc)
           ELSE Put(acc, id, SlotStage(g, last, cap, acc, id),
                             SlotArrival(g, last, cap, acc, id))
<1>1. id \in g.input \cup g.const <=> id \notin Placeable(g) BY DEF Placeable
<1> QED
  BY <1>1 DEF PlaceNode, HasRoom, SlotStage, SlotArrival, Spills, ReadyAt, Refused, Put

\* A node's slot is a natural stage and delay that only its operands decide.
LEMMA CostIsNat ==
  ASSUME NEW g, SoundGraph(g), NEW id \in g.live
  PROVE  Cost(g, id) \in Nat /\ (id \in Placeable(g) => Cost(g, id) = g.p.cost[id])
<1>1. id \in Signals(g.p) /\ g.p.cost \in [Signals(g.p) -> Nat] BY DEF SoundGraph, WellFormed
<1> QED BY <1>1 DEF Cost, Placeable

\* The greatest value of f on a set, zero on the empty one.
Latest(f, S) == MaxOf({f[v] : v \in S})

\* Latest is the least bound of the values of f on a finite set.
LEMMA LatestBounds ==
  ASSUME NEW S, IsFiniteSet(S), NEW f, \A v \in S : f[v] \in Nat
  PROVE  /\ Latest(f, S) \in Nat
         /\ \A v \in S : f[v] <= Latest(f, S)
         /\ \A b \in Nat : (\A v \in S : f[v] <= b) => Latest(f, S) <= b
         /\ Latest(f, S) = 0 \/ \E v \in S : f[v] = Latest(f, S)
<1> DEFINE V == {f[v] : v \in S}
<1>1. V \in SUBSET Nat OBVIOUS
<1>2. IsFiniteSet(V) BY ImageIsFinite
<1>3. (\A v \in S : f[v] \in V) /\ (\A x \in V : \E v \in S : f[v] = x) OBVIOUS
<1>4. Latest(f, S) = MaxOf(V) BY DEF Latest
<1> HIDE DEF V
<1>5. /\ MaxOf(V) \in Nat /\ (MaxOf(V) = 0 \/ MaxOf(V) \in V)
      /\ \A m \in V : m <= MaxOf(V)
      /\ \A b \in Nat : (\A m \in V : m <= b) => MaxOf(V) <= b
  BY <1>1, <1>2, MaxOfBounds
<1> QED BY <1>3, <1>4, <1>5

\* The operands of a signal are finitely many signals.
LEMMA OperandsAreFinite ==
  ASSUME NEW g, SoundGraph(g), NEW id \in g.live, NEW S \in SUBSET DataArgs(g, id)
  PROVE  S \subseteq Signals(g.p) /\ S \subseteq g.live /\ IsFiniteSet(S)
BY OperandsAreLive, OrderIsFinite

\* The slot of a node is a natural stage and a natural delay.
LEMMA SlotsAreNatural ==
  ASSUME NEW g, SoundGraph(g), NEW last \in Nat, NEW cap \in Nat, NEW acc \in Slots(g),
         NEW id \in g.live
  PROVE  /\ Wanted(g, last, acc, id) \in Nat /\ ReadyAt(g, last, acc, id) \in Nat
         /\ SlotStage(g, last, cap, acc, id) \in Nat
         /\ SlotArrival(g, last, cap, acc, id) \in Nat
<1> DEFINE W == Wanted(g, last, acc, id)
           f == acc.stage
           a == acc.arrival
           S == SameStage(g, acc, id, W)
           D == DataArgs(g, id)
<1>1. f \in [Signals(g.p) -> Nat] /\ a \in [Signals(g.p) -> Nat]
  BY DEF Slots
<1>2. S \in SUBSET D BY DEF SameStage
<1>3. W = (IF id \in g.p.out THEN last ELSE Latest(f, D))
      /\ ReadyAt(g, last, acc, id) = Latest(a, S)
  BY DEF Wanted, ReadyAt, Latest
<1> HIDE DEF W, f, a, S
<1>4. S \subseteq Signals(g.p) /\ IsFiniteSet(S) /\ D \subseteq Signals(g.p) /\ IsFiniteSet(D)
  BY <1>2, OperandsAreFinite
<1>5. Latest(f, D) \in Nat /\ Latest(a, S) \in Nat BY <1>1, <1>4, LatestBounds
<1>6. W \in Nat BY <1>3, <1>5
<1> QED BY <1>3, <1>5, <1>6, CostIsNat DEF SlotStage, SlotArrival, W

\* Only the slots of its operands decide the slot of a node.
LEMMA SlotIsLocal ==
  ASSUME NEW g, NEW last, NEW cap, NEW acc, NEW bcc, NEW id,
         \A v \in DataArgs(g, id) : acc.stage[v] = bcc.stage[v] /\ acc.arrival[v] = bcc.arrival[v]
  PROVE  /\ SlotStage(g, last, cap, acc, id) = SlotStage(g, last, cap, bcc, id)
         /\ SlotArrival(g, last, cap, acc, id) = SlotArrival(g, last, cap, bcc, id)
         /\ HasRoom(g, last, cap, acc, id) <=> HasRoom(g, last, cap, bcc, id)
<1>1. {acc.stage[v] : v \in DataArgs(g, id)} = {bcc.stage[v] : v \in DataArgs(g, id)}
  OBVIOUS
<1>2. Wanted(g, last, acc, id) = Wanted(g, last, bcc, id) BY <1>1 DEF Wanted
<1> DEFINE w == Wanted(g, last, bcc, id)
<1> HIDE DEF w
<1>3. SameStage(g, acc, id, w) = SameStage(g, bcc, id, w)
      /\ SameStage(g, bcc, id, w) \subseteq DataArgs(g, id)
  BY DEF SameStage
<1>4. {acc.arrival[v] : v \in SameStage(g, acc, id, w)}
        = {bcc.arrival[v] : v \in SameStage(g, bcc, id, w)}
  BY <1>3
<1>5. ReadyAt(g, last, acc, id) = ReadyAt(g, last, bcc, id)
  BY <1>2, <1>4 DEF ReadyAt, w
<1> QED BY <1>2, <1>5 DEF SlotStage, SlotArrival, HasRoom, Spills

\* The states of the placement loop.
ScheduleRun(g, last, cap, run) ==
  /\ run[0] = EmptySlots(g)
  /\ \A k \in 0..Len(g.order) : run[k] \in Slots(g)
  /\ \A k \in 1..Len(g.order) : run[k] = PlaceNode(g, last, cap, run[k - 1], g.order[k])
  /\ Schedule(g, last, cap) =
       [run[Len(g.order)] EXCEPT !.stage =
          [id \in Signals(g.p) |->
             IF id \in g.p.out \cap g.const THEN last ELSE run[Len(g.order)].stage[id]]]

\* A step of the placement loop keeps the slots well typed.
LEMMA PlaceNodeType ==
  ASSUME NEW g, SoundGraph(g), NEW last \in Nat, NEW cap \in Nat, NEW acc \in Slots(g),
         NEW id \in g.live
  PROVE  PlaceNode(g, last, cap, acc, id) \in Slots(g)
<1>1. id \in Signals(g.p) BY OrderIsFinite
<1>2. /\ SlotStage(g, last, cap, acc, id) \in Nat
      /\ SlotArrival(g, last, cap, acc, id) \in Nat
  BY SlotsAreNatural
<1>3. Refused(acc) \in Slots(g) BY DEF Slots, Refused
<1>4. \A x, y \in Nat : Put(acc, id, x, y) \in Slots(g) BY <1>1 DEF Slots, Put
<1> QED BY <1>2, <1>3, <1>4, PlaceNodeCases

\* schedule is the last state of its placement loop.
LEMMA ScheduleRuns ==
  ASSUME NEW g, SoundGraph(g), NEW last \in Nat, NEW cap \in Nat
  PROVE  \E run : ScheduleRun(g, last, cap, run)
<1> DEFINE seq == g.order
           n == Len(seq)
           A == Slots(g)
           base == EmptySlots(g)
           op(acc, id) == PlaceNode(g, last, cap, acc, id)
           body(f) == [s \in SUBSET DOMAIN seq |->
                         IF s = {} THEN base ELSE op(f[s \ {Max(s)}], seq[Max(s)])]
           it == CHOOSE f : f = body(f)
           F == [k \in 1..n |-> [a \in A |-> op(a, seq[k])]]
           fin == it[DOMAIN seq]
<1>1. Schedule(g, last, cap) = [fin EXCEPT !.stage =
          [id \in Signals(g.p) |->
             IF id \in g.p.out \cap g.const THEN last ELSE fin.stage[id]]]
  BY DEF Schedule, FoldLeft, MapThenFoldSet, EmptySlots
<1>2. n \in Nat /\ DOMAIN seq = 1..n /\ \A k \in 1..n : seq[k] \in g.live
  BY OrderIsFinite
<1> HIDE DEF n, seq
<1>3. base \in A BY DEF EmptySlots, Slots
<1>4. \A a \in A : \A id \in g.live : op(a, id) \in A BY PlaceNodeType
<1> HIDE DEF op, A, base
<1>5. F \in [1..n -> [A -> A]] BY <1>2, <1>4
<1>6. \A k \in 1..n : \A a \in A : F[k][a] = op(a, seq[k]) OBVIOUS
<1> HIDE DEF F
<1>7. PICK f : Folds(f, F, base, n, A)
  BY <1>2, <1>3, <1>5, FoldEquation
<1>8. f = body(f) BY <1>2, <1>6, <1>7 DEF Folds
<1>9. it = body(it) BY <1>8
<1> HIDE DEF it
<1>10. \A s \in SUBSET (1..n) :
         it[s] = IF s = {} THEN base ELSE op(it[s \ {Max(s)}], seq[Max(s)])
  BY <1>2, <1>9
<1> HIDE DEF body
<1>11. Unfolds(it, F, base, n, A)
  <2>1. it[{}] = base
    <3>1. {} \in SUBSET (1..n) OBVIOUS
    <3> QED BY <1>10, <3>1
  <2>2. ASSUME NEW s \in SUBSET (1..n), s # {}, it[s \ {Max(s)}] \in A
        PROVE  it[s] = F[Max(s)][it[s \ {Max(s)}]]
    <3>1. Max(s) \in 1..n BY <1>2, <2>2, MaxOfPositions
    <3>2. it[s] = op(it[s \ {Max(s)}], seq[Max(s)]) BY <1>10, <2>2
    <3> QED BY <1>6, <2>2, <3>1, <3>2
  <2> QED BY <2>1, <2>2 DEF Unfolds
<1>12. /\ it[1..0] = base
       /\ \A k \in 0..n : it[1..k] \in A
       /\ \A k \in 1..n : it[1..k] = F[k][it[1..(k - 1)]]
  BY <1>2, <1>3, <1>5, <1>11, FoldRuns
<1> DEFINE run == [k \in 0..n |-> it[1..k]]
<1>13. run[0] = base BY <1>2, <1>12
<1>14. \A k \in 0..n : run[k] \in A BY <1>12
<1>15. ASSUME NEW k \in 1..n PROVE run[k] = op(run[k - 1], seq[k])
  <2>1. k \in 0..n /\ k - 1 \in 0..n BY <1>2
  <2> QED BY <1>6, <1>12, <2>1
<1>16. fin = run[n] BY <1>2
<1> HIDE DEF run, fin
<1>17. ScheduleRun(g, last, cap, run)
  BY <1>1, <1>13, <1>14, <1>15, <1>16 DEF ScheduleRun, op, A, base, n, seq
<1> QED BY <1>17

\* The data operands of a node stand before it and never after it.
LEMMA OperandsComeFirst ==
  ASSUME NEW g, SoundGraph(g), NEW i \in 1..Len(g.order), NEW v \in DataArgs(g, g.order[i])
  PROVE  /\ \E j \in 1..(i - 1) : g.order[j] = v
         /\ \A k \in 1..Len(g.order) : i <= k => v # g.order[k]
<1>1. v \in ArgSet(g.p, g.order[i]) BY OrderIsFinite, OperandsAreLive
<1>2. PICK j \in 1..(i - 1) : g.order[j] = v BY <1>1 DEF SoundGraph, Ordered
<1>3. Len(g.order) \in Nat BY OrderIsFinite
<1>4. \A k \in 1..Len(g.order) : g.order[j] = g.order[k] => j = k
  BY <1>2, <1>3 DEF SoundGraph, Ordered
<1> QED BY <1>2, <1>3, <1>4

\* Placing the next node settles it and disturbs none placed before.
LEMMA PutPlaces ==
  ASSUME NEW g, SoundGraph(g), NEW last \in Nat, NEW cap \in Nat, NEW acc,
         NEW k \in Nat, k + 1 <= Len(g.order),
         PlacedUpto(g, last, cap, acc, k),
         g.order[k + 1] \in Placeable(g),
         HasRoom(g, last, cap, acc, g.order[k + 1])
  PROVE  PlacedUpto(g, last, cap,
           Put(acc, g.order[k + 1], SlotStage(g, last, cap, acc, g.order[k + 1]),
                                    SlotArrival(g, last, cap, acc, g.order[k + 1])), k + 1)
<1> DEFINE m == k + 1
           id == g.order[m]
           x == SlotStage(g, last, cap, acc, id)
           y == SlotArrival(g, last, cap, acc, id)
           bcc == Put(acc, id, x, y)
<1>1. Len(g.order) \in Nat /\ m \in 1..Len(g.order) /\ m \in Nat /\ 1..m \subseteq 1..Len(g.order)
      /\ \A i \in 1..m : i = m \/ i \in 1..k
  BY OrderIsFinite
<1>2. id \in Signals(g.p) /\ id \in g.live BY <1>1, OrderIsFinite
<1>3. acc \in Slots(g) /\ acc.ok BY DEF PlacedUpto
<1>4. x \in Nat /\ y \in Nat BY <1>2, <1>3, SlotsAreNatural
<1> HIDE DEF x, y
<1>5. /\ bcc \in Slots(g) /\ bcc.ok
      /\ bcc.stage[id] = x /\ bcc.arrival[id] = y
      /\ \A v \in Signals(g.p) : v # id =>
           bcc.stage[v] = acc.stage[v] /\ bcc.arrival[v] = acc.arrival[v]
  BY <1>2, <1>3, <1>4 DEF Slots, Put
<1> HIDE DEF bcc
<1>6. ASSUME NEW i \in 1..m, g.order[i] \in Placeable(g)
      PROVE  Settled(g, last, cap, bcc, g.order[i])
  <2> DEFINE u == g.order[i]
  <2>1. u \in g.live /\ \A v \in DataArgs(g, u) : v \in Signals(g.p)
    BY <1>1, OrderIsFinite, OperandsAreFinite
  <2>2. \A v \in DataArgs(g, u) : v # id
    <3>1. i \in 1..Len(g.order) /\ i <= m BY <1>1
    <3> HIDE DEF m
    <3>2. ASSUME NEW v \in DataArgs(g, g.order[i]) PROVE v # g.order[m]
      <4>1. \A l \in 1..Len(g.order) : i <= l => v # g.order[l]
        BY <3>1, OperandsComeFirst
      <4> QED BY <1>1, <3>1, <4>1
    <3> QED BY <3>2
  <2>3. \A v \in DataArgs(g, u) : bcc.stage[v] = acc.stage[v] /\ bcc.arrival[v] = acc.arrival[v]
    BY <1>5, <2>1, <2>2
  <2>4. /\ SlotStage(g, last, cap, bcc, u) = SlotStage(g, last, cap, acc, u)
        /\ SlotArrival(g, last, cap, bcc, u) = SlotArrival(g, last, cap, acc, u)
        /\ HasRoom(g, last, cap, bcc, u) <=> HasRoom(g, last, cap, acc, u)
    BY <2>3, SlotIsLocal
  <2>5. CASE i = m BY <1>5, <2>4, <2>5 DEF Settled, x, y
  <2>6. CASE i \in 1..k
    <3>1. Settled(g, last, cap, acc, u) BY <1>6, <2>6 DEF PlacedUpto
    <3>2. u # id BY <1>1, <2>6 DEF SoundGraph, Ordered
    <3>3. u \in Signals(g.p) BY <2>1, OrderIsFinite
    <3> QED BY <1>5, <2>4, <3>1, <3>2, <3>3 DEF Settled
  <2> QED BY <1>1, <2>5, <2>6
<1>7. ASSUME NEW u \in Signals(g.p), \A i \in 1..m : g.order[i] = u => u \notin Placeable(g)
      PROVE  bcc.stage[u] = 0 /\ bcc.arrival[u] = 0
  <2>1. u # id BY <1>1, <1>7
  <2>2. acc.stage[u] = 0 /\ acc.arrival[u] = 0 BY <1>7, <1>1 DEF PlacedUpto
  <2> QED BY <1>5, <2>1, <2>2
<1>8. PlacedUpto(g, last, cap, bcc, m) BY <1>5, <1>6, <1>7 DEF PlacedUpto
<1> QED BY <1>8 DEF bcc, x, y

\* The loop fails at the first node that finds no room.
FailsAt(g, last, cap, acc, k) ==
  /\ PlacedUpto(g, last, cap, acc, k - 1)
  /\ g.order[k] \in Placeable(g) /\ ~HasRoom(g, last, cap, acc, g.order[k])

\* The loop has placed all nodes so far, or one of them found no room.
LEMMA RunPlaces ==
  ASSUME NEW g, SoundGraph(g), NEW last \in Nat, NEW cap \in Nat,
         NEW run, ScheduleRun(g, last, cap, run), NEW k \in 0..Len(g.order)
  PROVE  /\ run[k].ok => PlacedUpto(g, last, cap, run[k], k)
         /\ ~run[k].ok => \E j \in 1..k : FailsAt(g, last, cap, run[j - 1], j)
<1> DEFINE n == Len(g.order)
           P(i) == /\ run[i].ok => PlacedUpto(g, last, cap, run[i], i)
                   /\ ~run[i].ok => \E j \in 1..i : FailsAt(g, last, cap, run[j - 1], j)
           T == {i \in Nat : i <= n => P(i)}
<1>1. n \in Nat /\ \A i \in 1..n : g.order[i] \in g.live BY OrderIsFinite
<1>2. 0 \in T
  <2>1. run[0] = EmptySlots(g) BY DEF ScheduleRun
  <2>2. EmptySlots(g) \in Slots(g) /\ EmptySlots(g).ok BY DEF EmptySlots, Slots
  <2>3. PlacedUpto(g, last, cap, EmptySlots(g), 0)
    BY <2>2 DEF PlacedUpto, EmptySlots
  <2>4. P(0) BY <2>1, <2>2, <2>3
  <2> QED BY <2>4
<1>3. ASSUME NEW i \in Nat, i + 1 <= n, P(i) PROVE P(i + 1)
  <2> DEFINE m == i + 1
             id == g.order[m]
  <2>1. m \in 1..n /\ m - 1 = i /\ i \in 0..n /\ 1..i \subseteq 1..m /\ m \in 1..m BY <1>1, <1>3
  <2>2. run[m] = PlaceNode(g, last, cap, run[i], id)
    <3>1. run[m] = PlaceNode(g, last, cap, run[m - 1], id) BY <2>1 DEF ScheduleRun
    <3> QED BY <2>1, <3>1
  <2>3. id \in g.live BY <1>1, <2>1
  <2>4. run[i] \in Slots(g) BY <2>1 DEF ScheduleRun
  <2>5. CASE ~run[i].ok
    <3>1. run[m] = run[i] BY <2>2, <2>3, <2>5, PlaceNodeCases
    <3>2. PICK j \in 1..i : FailsAt(g, last, cap, run[j - 1], j) BY <1>3, <2>5
    <3>3. j \in 1..m BY <2>1
    <3> QED BY <2>5, <3>1, <3>2, <3>3
  <2>6. CASE run[i].ok /\ id \notin Placeable(g)
    <3>1. run[m] = run[i] BY <2>2, <2>3, <2>6, PlaceNodeCases
    <3>2. PlacedUpto(g, last, cap, run[i], i) BY <1>3, <2>6
    <3>3. \A l \in 1..m : l \in 1..i \/ l = m BY <2>1
    <3>4. PlacedUpto(g, last, cap, run[i], m) BY <2>1, <2>6, <3>2, <3>3 DEF PlacedUpto
    <3> QED BY <2>6, <3>1, <3>4
  <2>7. CASE run[i].ok /\ id \in Placeable(g) /\ ~HasRoom(g, last, cap, run[i], id)
    <3>1. run[m] = Refused(run[i]) BY <2>2, <2>3, <2>7, PlaceNodeCases
    <3>2. ~run[m].ok BY <2>4, <3>1 DEF Refused, Slots
    <3>3. PlacedUpto(g, last, cap, run[i], i) BY <1>3, <2>7
    <3>4. FailsAt(g, last, cap, run[m - 1], m) BY <2>1, <2>7, <3>3 DEF FailsAt
    <3> QED BY <2>1, <3>2, <3>4
  <2>8. CASE run[i].ok /\ id \in Placeable(g) /\ HasRoom(g, last, cap, run[i], id)
    <3>1. run[m] = Put(run[i], id, SlotStage(g, last, cap, run[i], id),
                                   SlotArrival(g, last, cap, run[i], id))
      BY <2>2, <2>3, <2>8, PlaceNodeCases
    <3>2. PlacedUpto(g, last, cap, run[i], i) BY <1>3, <2>8
    <3>3. PlacedUpto(g, last, cap, run[m], m) BY <1>3, <2>8, <3>1, <3>2, PutPlaces
    <3> QED BY <3>3 DEF PlacedUpto
  <2> QED BY <2>5, <2>6, <2>7, <2>8
<1> HIDE DEF P
<1>4. \A i \in Nat : i \in T => i + 1 \in T BY <1>1, <1>3
<1> HIDE DEF T
<1>5. k \in T BY <1>1, <1>2, <1>4, InductiveSet
<1>6. P(k) BY <1>1, <1>5 DEF T
<1> QED BY <1>6 DEF P

\* The stages schedule returns for the slots it has filled.
FinalStages(g, last, acc) ==
  [id \in Signals(g.p) |-> IF id \in g.p.out \cap g.const THEN last ELSE acc.stage[id]]

\* schedule places every node, or stops at one that finds no room.
LEMMA ScheduleOutcome ==
  ASSUME NEW g, SoundGraph(g), NEW last \in Nat, NEW cap \in Nat
  PROVE  /\ Schedule(g, last, cap).stage \in [Signals(g.p) -> Nat]
         /\ Schedule(g, last, cap).ok =>
              \E acc : /\ PlacedUpto(g, last, cap, acc, Len(g.order))
                       /\ Schedule(g, last, cap).stage = FinalStages(g, last, acc)
         /\ ~Schedule(g, last, cap).ok =>
              \E acc : \E k \in 1..Len(g.order) : FailsAt(g, last, cap, acc, k)
<1>1. PICK run : ScheduleRun(g, last, cap, run) BY ScheduleRuns
<1> DEFINE n == Len(g.order)
           fin == run[n]
           st == FinalStages(g, last, fin)
<1>2. n \in Nat /\ n \in 0..n BY OrderIsFinite
<1>3. fin \in Slots(g) BY <1>1, <1>2 DEF ScheduleRun
<1>4. Schedule(g, last, cap) = [fin EXCEPT !.stage = st]
  BY <1>1 DEF ScheduleRun, FinalStages
<1>5. st \in [Signals(g.p) -> Nat] BY <1>3 DEF Slots, FinalStages
<1>6. /\ fin.ok => PlacedUpto(g, last, cap, fin, n)
      /\ ~fin.ok => \E j \in 1..n : FailsAt(g, last, cap, run[j - 1], j)
  BY <1>1, <1>2, RunPlaces
<1> HIDE DEF fin, st
<1>7. Schedule(g, last, cap).ok = fin.ok /\ Schedule(g, last, cap).stage = st
  BY <1>3, <1>4 DEF Slots
<1> QED BY <1>5, <1>6, <1>7 DEF st

-----------------------------------------------------------------------------
(* What evaluate computes *)

\* The operands whose delay adds up with that of a node.
Beside(g, stage, id) == {u \in DataArgs(g, id) : stage[u] = stage[id]}

\* The first k signals of the order have their arrival and no other.
ArrivedUpto(g, stage, a, k) ==
  /\ a \in [Signals(g.p) -> Nat]
  /\ \A i \in 1..k : g.order[i] \in Placeable(g) =>
       a[g.order[i]] = Cost(g, g.order[i]) + Latest(a, Beside(g, stage, g.order[i]))
  /\ \A id \in Signals(g.p) :
       (\A i \in 1..k : g.order[i] = id => id \notin Placeable(g)) => a[id] = 0

ArrivalStep(g, stage, a, id) ==
  IF id \notin Placeable(g) THEN a
  ELSE [a EXCEPT ![id] = Cost(g, id) + Latest(a, Beside(g, stage, id))]

\* A step of the arrival loop computes a natural delay.
LEMMA ArrivalStepType ==
  ASSUME NEW g, SoundGraph(g), NEW stage, NEW a \in [Signals(g.p) -> Nat], NEW id \in g.live
  PROVE  /\ Latest(a, Beside(g, stage, id)) \in Nat
         /\ ArrivalStep(g, stage, a, id) \in [Signals(g.p) -> Nat]
<1> DEFINE S == Beside(g, stage, id)
<1>1. S \in SUBSET DataArgs(g, id) BY DEF Beside
<1> HIDE DEF S
<1>2. IsFiniteSet(S) /\ S \subseteq Signals(g.p) BY <1>1, OperandsAreFinite
<1>3. Latest(a, S) \in Nat BY <1>2, LatestBounds
<1>4. Cost(g, id) \in Nat /\ id \in Signals(g.p) BY CostIsNat, OrderIsFinite
<1> QED BY <1>3, <1>4 DEF ArrivalStep, S

\* A step of the arrival loop settles the next node and no other.
LEMMA ArrivalStepArrives ==
  ASSUME NEW g, SoundGraph(g), NEW stage, NEW a, NEW k \in Nat, k + 1 <= Len(g.order),
         ArrivedUpto(g, stage, a, k)
  PROVE  ArrivedUpto(g, stage, ArrivalStep(g, stage, a, g.order[k + 1]), k + 1)
<1> DEFINE m == k + 1
           id == g.order[m]
           x == Cost(g, id) + Latest(a, Beside(g, stage, id))
           b == ArrivalStep(g, stage, a, id)
<1>1. Len(g.order) \in Nat /\ m \in 1..Len(g.order) /\ m \in Nat /\ 1..m \subseteq 1..Len(g.order)
      /\ (\A i \in 1..m : i = m \/ i \in 1..k) /\ 1..k \subseteq 1..m /\ m \in 1..m
  BY OrderIsFinite
<1>2. id \in Signals(g.p) /\ id \in g.live BY <1>1, OrderIsFinite
<1>3. a \in [Signals(g.p) -> Nat] BY DEF ArrivedUpto
<1>4. b \in [Signals(g.p) -> Nat] BY <1>2, <1>3, ArrivalStepType
<1>5. CASE id \notin Placeable(g)
  <2>1. b = a BY <1>5 DEF ArrivalStep
  <2> HIDE DEF b, m
  <2>2. ArrivedUpto(g, stage, b, m) BY <1>1, <1>5, <2>1 DEF ArrivedUpto
  <2> QED BY <2>2 DEF b, m
<1>6. CASE id \in Placeable(g)
  <2>1. b[id] = x /\ \A v \in Signals(g.p) : v # id => b[v] = a[v]
    BY <1>2, <1>3, <1>6 DEF ArrivalStep
  <2> HIDE DEF b
  <2>2. ASSUME NEW i \in 1..m, g.order[i] \in Placeable(g)
        PROVE  b[g.order[i]] = Cost(g, g.order[i]) + Latest(b, Beside(g, stage, g.order[i]))
    <3> DEFINE u == g.order[i]
               S == Beside(g, stage, u)
    <3>1. u \in g.live /\ S \in SUBSET DataArgs(g, u) BY <1>1, OrderIsFinite DEF Beside
    <3>2. \A v \in DataArgs(g, u) : v \in Signals(g.p) BY <3>1, OperandsAreFinite
    <3>3. ASSUME NEW v \in DataArgs(g, g.order[i]) PROVE v # g.order[m]
      <4>1. i \in 1..Len(g.order) /\ i <= m BY <1>1
      <4>2. \A l \in 1..Len(g.order) : i <= l => v # g.order[l]
        BY <4>1, OperandsComeFirst
      <4> QED BY <1>1, <4>1, <4>2
    <3>4. \A v \in S : b[v] = a[v] BY <2>1, <3>1, <3>2, <3>3
    <3> HIDE DEF S
    <3>5. {b[v] : v \in S} = {a[v] : v \in S} BY <3>4
    <3>6. Latest(b, S) = Latest(a, S) BY <3>5 DEF Latest
    <3>7. CASE i = m BY <2>1, <3>6, <3>7 DEF S
    <3>8. CASE i \in 1..k
      <4>1. a[u] = Cost(g, u) + Latest(a, S) BY <2>2, <3>8 DEF ArrivedUpto, S
      <4>2. u # id BY <1>1, <3>8 DEF SoundGraph, Ordered
      <4>3. u \in Signals(g.p) BY <3>1, OrderIsFinite
      <4> QED BY <2>1, <3>6, <4>1, <4>2, <4>3 DEF S
    <3> QED BY <1>1, <3>7, <3>8
  <2>3. ASSUME NEW u \in Signals(g.p), \A i \in 1..m : g.order[i] = u => u \notin Placeable(g)
        PROVE  b[u] = 0
    <3>1. u # id BY <1>1, <1>6, <2>3
    <3>2. a[u] = 0 BY <2>3, <1>1 DEF ArrivedUpto
    <3> QED BY <2>1, <3>1, <3>2
  <2>4. ArrivedUpto(g, stage, b, m) BY <1>4, <2>2, <2>3 DEF ArrivedUpto
  <2> QED BY <2>4 DEF b
<1> QED BY <1>5, <1>6

\* A node arrives its cost after the last operand of its own stage; inputs,
\* constants and signals that are not live take no time.
LEMMA ArrivalsAdd ==
  ASSUME NEW g, SoundGraph(g), NEW stage
  PROVE  /\ Arrivals(g, stage) \in [Signals(g.p) -> Nat]
         /\ \A id \in Placeable(g) : Arrivals(g, stage)[id] =
              Cost(g, id) + Latest(Arrivals(g, stage), Beside(g, stage, id))
         /\ \A id \in Signals(g.p) \ Placeable(g) : Arrivals(g, stage)[id] = 0
<1> DEFINE seq == g.order
           n == Len(seq)
           A == [Signals(g.p) -> Nat]
           base == [id \in Signals(g.p) |-> 0]
           code(a, id) == IF id \in g.const \cup g.input THEN a
                          ELSE [a EXCEPT ![id] = Cost(g, id) + MaxOf({a[v] :
                                  v \in {u \in DataArgs(g, id) : stage[u] = stage[id]}})]
           op(a, id) == ArrivalStep(g, stage, a, id)
           body(f) == [s \in SUBSET DOMAIN seq |->
                         IF s = {} THEN base ELSE code(f[s \ {Max(s)}], seq[Max(s)])]
           it == CHOOSE f : f = body(f)
           F == [k \in 1..n |-> [a \in A |-> op(a, seq[k])]]
<1>1. Arrivals(g, stage) = it[DOMAIN seq]
  BY DEF Arrivals, FoldLeft, MapThenFoldSet
<1>2. n \in Nat /\ DOMAIN seq = 1..n /\ \A k \in 1..n : seq[k] \in g.live
  BY OrderIsFinite
<1>a. \A a : \A id \in g.live : code(a, id) = op(a, id)
  BY DEF ArrivalStep, Latest, Beside, Placeable
<1> HIDE DEF n, seq
<1>3. base \in A OBVIOUS
<1>4. \A a \in A : \A id \in g.live : op(a, id) \in A BY ArrivalStepType
<1> HIDE DEF op, A, base, code
<1>5. F \in [1..n -> [A -> A]] BY <1>2, <1>4
<1>6. \A k \in 1..n : \A a \in A : F[k][a] = op(a, seq[k]) OBVIOUS
<1> HIDE DEF F
<1>7. PICK f : Folds(f, F, base, n, A)
  BY <1>2, <1>3, <1>5, FoldEquation
<1>b. \A k \in 1..n : \A a \in A : F[k][a] = code(a, seq[k])
  BY <1>2, <1>6, <1>a
<1>8. f = body(f) BY <1>2, <1>b, <1>7 DEF Folds
<1>9. it = body(it) BY <1>8
<1> HIDE DEF it
<1>10. \A s \in SUBSET (1..n) :
         it[s] = IF s = {} THEN base ELSE code(it[s \ {Max(s)}], seq[Max(s)])
  BY <1>2, <1>9
<1> HIDE DEF body
<1>11. Unfolds(it, F, base, n, A)
  <2>1. it[{}] = base
    <3>1. {} \in SUBSET (1..n) OBVIOUS
    <3> QED BY <1>10, <3>1
  <2>2. ASSUME NEW s \in SUBSET (1..n), s # {}, it[s \ {Max(s)}] \in A
        PROVE  it[s] = F[Max(s)][it[s \ {Max(s)}]]
    <3>1. Max(s) \in 1..n BY <1>2, <2>2, MaxOfPositions
    <3>2. it[s] = code(it[s \ {Max(s)}], seq[Max(s)]) BY <1>10, <2>2
    <3> QED BY <1>b, <2>2, <3>1, <3>2
  <2> QED BY <2>1, <2>2 DEF Unfolds
<1>12. /\ it[1..0] = base
       /\ \A k \in 0..n : it[1..k] \in A
       /\ \A k \in 1..n : it[1..k] = F[k][it[1..(k - 1)]]
  BY <1>2, <1>3, <1>5, <1>11, FoldRuns
<1> DEFINE T == {k \in Nat : k <= n => ArrivedUpto(g, stage, it[1..k], k)}
<1>13. 0 \in T
  <2>1. ArrivedUpto(g, stage, base, 0) BY <1>3 DEF ArrivedUpto, base, A
  <2> QED BY <1>12, <2>1
<1>14. ASSUME NEW k \in Nat, k + 1 <= n, ArrivedUpto(g, stage, it[1..k], k)
       PROVE  ArrivedUpto(g, stage, it[1..(k + 1)], k + 1)
  <2> DEFINE m == k + 1
  <2>1. m \in 1..n /\ k \in 0..n /\ m - 1 = k BY <1>2, <1>14
  <2>2. it[1..m] = F[m][it[1..(m - 1)]]
    <3> HIDE DEF m
    <3> QED BY <1>12, <2>1
  <2>3. it[1..m] = op(it[1..k], seq[m])
    <3>1. it[1..k] \in A BY <1>12, <2>1
    <3>2. F[m][it[1..k]] = op(it[1..k], seq[m]) BY <1>6, <2>1, <3>1
    <3> QED BY <2>1, <2>2, <3>2
  <2>4. ArrivedUpto(g, stage, op(it[1..k], seq[m]), m)
    BY <1>14, ArrivalStepArrives DEF op, seq, n
  <2> QED BY <2>3, <2>4
<1>15. \A k \in Nat : k \in T => k + 1 \in T BY <1>2, <1>14
<1> HIDE DEF T
<1>16. n \in T BY <1>2, <1>13, <1>15, InductiveSet
<1>17. ArrivedUpto(g, stage, Arrivals(g, stage), n) BY <1>1, <1>2, <1>16 DEF T
<1>18. \A id \in Placeable(g) : \E i \in 1..n : seq[i] = id
  BY DEF Placeable, SoundGraph, n, seq
<1> QED BY <1>17, <1>18 DEF ArrivedUpto, n, seq

-----------------------------------------------------------------------------
(* The placement is legal and its delays are the ones evaluate measures      *)

\* A live signal is an input, a constant or a node to place.
LEMMA PlaceableFacts ==
  ASSUME NEW g, SoundGraph(g), NEW id \in g.live
  PROVE  /\ id \in Signals(g.p)
         /\ id \in Placeable(g) \/ id \in g.input \/ id \in g.const
         /\ id \in Placeable(g) => id \notin g.input /\ id \notin g.const
         /\ id \in g.input => id \notin g.const /\ id \notin g.p.out
<1>1. g.input = Inputs(g.p) /\ g.p.out \subseteq Signals(g.p) \ Inputs(g.p)
  BY DEF SoundGraph, WellFormed
<1> QED BY <1>1, OrderIsFinite DEF Placeable, SoundGraph

\* A settled node, in terms of its operands.
LEMMA SettledNode ==
  ASSUME NEW g, SoundGraph(g), NEW last \in Nat, NEW cap \in Nat, NEW acc \in Slots(g),
         NEW id \in Placeable(g), Settled(g, last, cap, acc, id)
  PROVE  /\ acc.stage[id] \in 0..last
         /\ acc.arrival[id] <= cap
         /\ id \in g.p.out => acc.stage[id] = last
         /\ id \notin g.p.out => \A v \in DataArgs(g, id) : acc.stage[v] <= acc.stage[id]
         /\ (\A v \in DataArgs(g, id) : acc.stage[v] <= last) =>
              acc.arrival[id] = Cost(g, id) + Latest(acc.arrival, Beside(g, acc.stage, id))
<1> DEFINE W == Wanted(g, last, acc, id)
           R == ReadyAt(g, last, acc, id)
           D == DataArgs(g, id)
           c == Cost(g, id)
           f == acc.stage
           a == acc.arrival
           s == f[id]
           sp == R + c > cap
           Q == SameStage(g, acc, id, W)
           B == Beside(g, f, id)
<1>1. id \in g.live /\ id \in Signals(g.p) BY OrderIsFinite DEF Placeable
<1>2. f \in [Signals(g.p) -> Nat] /\ a \in [Signals(g.p) -> Nat] BY DEF Slots
<1>3. /\ D \subseteq Signals(g.p) /\ IsFiniteSet(D)
      /\ B \subseteq D /\ IsFiniteSet(B) /\ B \subseteq Signals(g.p)
      /\ Q = {v \in D : f[v] = W} /\ B = {v \in D : f[v] = s}
  BY <1>1, OperandsAreFinite DEF Beside, SameStage
<1>4. W = (IF id \in g.p.out THEN last ELSE Latest(f, D)) /\ R = Latest(a, Q)
  BY DEF Wanted, ReadyAt, Latest
<1>5. /\ s = (IF sp THEN W + 1 ELSE W)
      /\ a[id] = (IF sp THEN c ELSE R + c)
      /\ s <= last /\ c <= cap
  BY DEF Settled, HasRoom, SlotStage, SlotArrival, Spills, Fits
<1>6. W \in Nat /\ R \in Nat /\ s \in Nat /\ a[id] \in Nat /\ c \in Nat
  BY <1>1, <1>2, SlotsAreNatural, CostIsNat
<1> HIDE DEF W, R, D, c, f, a, Q, B
<1>7. \A v \in D : f[v] \in Nat /\ f[v] <= Latest(f, D) BY <1>2, <1>3, LatestBounds
<1>8. \A v \in B : a[v] \in Nat BY <1>2, <1>3
<1>9. s \in 0..last /\ a[id] <= cap BY <1>5, <1>6
<1>10. id \in g.p.out => s = last /\ ~sp BY <1>4, <1>5, <1>6
<1>11. id \notin g.p.out => \A v \in D : f[v] <= s BY <1>4, <1>5, <1>6, <1>7
<1>12. ASSUME \A v \in D : f[v] <= last PROVE a[id] = c + Latest(a, B)
  <2>1. CASE ~sp
    <3>1. Q = B BY <1>3, <1>5, <2>1
    <3> QED BY <1>4, <1>5, <1>6, <2>1, <3>1
  <2>2. CASE sp
    <3>1. \A v \in D : f[v] <= W BY <1>4, <1>7, <1>10, <2>2
    <3>2. \A v \in D : f[v] # s BY <1>5, <1>6, <1>7, <2>2, <3>1
    <3>3. B = {} BY <1>3, <3>2
    <3>4. Latest(a, B) = 0 BY <1>3, <1>8, <3>3, LatestBounds
    <3> QED BY <1>5, <1>6, <2>2, <3>4
  <2> QED BY <2>1, <2>2
<1> QED BY <1>9, <1>10, <1>11, <1>12 DEF D, c, f, a, B

\* A complete placement is legal, and evaluate measures the delays schedule
\* computed, none of them beyond the cap.
LEMMA PlacementIsLegal ==
  ASSUME NEW g, SoundGraph(g), NEW last \in Nat, NEW cap \in Nat,
         NEW acc, PlacedUpto(g, last, cap, acc, Len(g.order))
  PROVE  /\ LegalStages(g, last, FinalStages(g, last, acc))
         /\ \A id \in Signals(g.p) :
              Arrivals(g, FinalStages(g, last, acc))[id] <= cap
<1> DEFINE n == Len(g.order)
           st == FinalStages(g, last, acc)
           f == acc.stage
           a == acc.arrival
           arr == Arrivals(g, st)
<1>1. n \in Nat /\ acc \in Slots(g) BY OrderIsFinite DEF PlacedUpto
<1>2. f \in [Signals(g.p) -> Nat] /\ a \in [Signals(g.p) -> Nat] BY <1>1 DEF Slots
<1>3. \A id \in Placeable(g) : Settled(g, last, cap, acc, id)
  BY DEF Placeable, PlacedUpto, SoundGraph
<1>4. \A id \in Signals(g.p) \ Placeable(g) : f[id] = 0 /\ a[id] = 0
  BY DEF PlacedUpto
<1>5. \A id \in Signals(g.p) : st[id] = IF id \in g.p.out \cap g.const THEN last ELSE f[id]
  BY DEF FinalStages
<1>6. \A id \in Placeable(g) :
        /\ f[id] \in 0..last /\ a[id] <= cap
        /\ id \in g.p.out => f[id] = last
        /\ id \notin g.p.out => \A v \in DataArgs(g, id) : f[v] <= f[id]
        /\ (\A v \in DataArgs(g, id) : f[v] <= last) =>
             a[id] = Cost(g, id) + Latest(a, Beside(g, f, id))
  BY <1>1, <1>3, SettledNode
<1> HIDE DEF st, f, a
<1>7. \A id \in g.live : f[id] \in 0..last
  BY <1>4, <1>6, PlaceableFacts
<1>8. \A id \in g.live : \A v \in DataArgs(g, id) :
        v \in g.live /\ v \notin g.const /\ v \in Signals(g.p) /\ st[v] = f[v] /\ f[v] <= last
  BY <1>5, <1>7, OperandsAreLive, OrderIsFinite
<1>9. \A id \in Placeable(g) : id \in g.live /\ id \in Signals(g.p) /\ st[id] = f[id]
  BY <1>5, PlaceableFacts DEF Placeable
<1>10. LegalStages(g, last, st)
  <2> SUFFICES ASSUME NEW id \in g.live
               PROVE  /\ st[id] \in 0..last
                      /\ id \in g.input => st[id] = 0
                      /\ id \in g.p.out => st[id] = last
                      /\ id \notin g.const \cup g.input =>
                           \A v \in DataArgs(g, id) : st[v] <= st[id]
    BY DEF LegalStages
  <2>1. st[id] \in 0..last BY <1>5, <1>7, PlaceableFacts
  <2>2. id \in g.input => st[id] = 0 BY <1>4, <1>5, PlaceableFacts
  <2>3. id \in g.p.out => st[id] = last BY <1>5, <1>6, <1>9, PlaceableFacts
  <2>4. ASSUME id \notin g.const \cup g.input, NEW v \in DataArgs(g, id)
        PROVE  st[v] <= st[id]
    <3>1. id \in Placeable(g) BY <2>4 DEF Placeable
    <3>2. st[v] = f[v] /\ f[v] <= last /\ st[id] = f[id] BY <1>8, <1>9, <2>4, <3>1
    <3> QED BY <1>6, <2>4, <3>1, <3>2
  <2> QED BY <2>1, <2>2, <2>3, <2>4
<1> DEFINE S == {id \in g.live : arr[id] = a[id]}
<1>11. /\ \A id \in Placeable(g) : arr[id] = Cost(g, id) + Latest(arr, Beside(g, st, id))
       /\ \A id \in Signals(g.p) \ Placeable(g) : arr[id] = 0
  BY ArrivalsAdd
<1> HIDE DEF arr
<1>12. ASSUME NEW id \in g.live, ArgSet(g.p, id) \subseteq S PROVE id \in S
  <2>1. CASE id \notin Placeable(g) BY <1>4, <1>11, <2>1, PlaceableFacts
  <2>2. CASE id \in Placeable(g)
    <3> DEFINE B == Beside(g, f, id)
    <3>1. Beside(g, st, id) = B BY <1>8, <1>9, <2>2 DEF Beside
    <3>2. B \subseteq DataArgs(g, id) BY DEF Beside
    <3>3. \A v \in B : arr[v] = a[v] BY <1>12, <3>2, OperandsAreLive
    <3> HIDE DEF B
    <3>4. {arr[v] : v \in B} = {a[v] : v \in B} BY <3>3
    <3>5. Latest(arr, B) = Latest(a, B) BY <3>4 DEF Latest
    <3>6. a[id] = Cost(g, id) + Latest(a, B) BY <1>6, <1>8, <2>2 DEF B
    <3>7. arr[id] = Cost(g, id) + Latest(arr, B) BY <1>11, <2>2, <3>1
    <3> QED BY <3>5, <3>6, <3>7
  <2> QED BY <2>1, <2>2
<1> HIDE DEF S
<1>13. g.live \subseteq S BY <1>12, OrderInduction
<1>14. \A id \in Placeable(g) : arr[id] <= cap
  BY <1>6, <1>9, <1>13 DEF S
<1>15. \A id \in Signals(g.p) : arr[id] <= cap BY <1>11, <1>14
<1> QED BY <1>10, <1>15 DEF st, arr

-----------------------------------------------------------------------------
(* The placement is the earliest there is                                    *)

\* A node is placed no later than in another assignment and, in the same
\* stage, arrives no later.
Under(g, acc, other, id) ==
  /\ acc.stage[id] <= other[id]
  /\ acc.stage[id] = other[id] => acc.arrival[id] <= Arrivals(g, other)[id]

\* A legal assignment in which every arrival meets the cap.
Meets(g, last, cap, other) ==
  /\ other \in [Signals(g.p) -> Nat]
  /\ LegalStages(g, last, other)
  /\ \A id \in g.live : Arrivals(g, other)[id] <= cap

\* If the operands are under another assignment so is the slot of their reader.
LEMMA SlotIsUnder ==
  ASSUME NEW g, SoundGraph(g), NEW last \in Nat, NEW cap \in Nat, NEW acc \in Slots(g),
         NEW other, Meets(g, last, cap, other), NEW id \in Placeable(g),
         \A v \in DataArgs(g, id) : Under(g, acc, other, v)
  PROVE  /\ HasRoom(g, last, cap, acc, id)
         /\ SlotStage(g, last, cap, acc, id) <= other[id]
         /\ SlotStage(g, last, cap, acc, id) = other[id] =>
              SlotArrival(g, last, cap, acc, id) <= Arrivals(g, other)[id]
<1> DEFINE W == Wanted(g, last, acc, id)
           R == ReadyAt(g, last, acc, id)
           D == DataArgs(g, id)
           c == Cost(g, id)
           f == acc.stage
           a == acc.arrival
           o == other[id]
           arr == Arrivals(g, other)
           Q == SameStage(g, acc, id, W)
           B == Beside(g, other, id)
<1>1. id \in g.live /\ id \in Signals(g.p) BY OrderIsFinite DEF Placeable
<1>2. f \in [Signals(g.p) -> Nat] /\ a \in [Signals(g.p) -> Nat] BY DEF Slots
<1>3. /\ D \subseteq Signals(g.p) /\ IsFiniteSet(D) /\ D \subseteq g.live
      /\ B \subseteq D /\ IsFiniteSet(B) /\ B \subseteq Signals(g.p)
      /\ Q \subseteq D /\ IsFiniteSet(Q) /\ Q \subseteq Signals(g.p)
      /\ Q = {v \in D : f[v] = W} /\ B = {v \in D : other[v] = o}
  BY <1>1, OperandsAreFinite DEF Beside, SameStage
<1>4. W = (IF id \in g.p.out THEN last ELSE Latest(f, D)) /\ R = Latest(a, Q)
  BY DEF Wanted, ReadyAt, Latest
<1>5. /\ other \in [Signals(g.p) -> Nat] /\ o \in Nat /\ o <= last
      /\ id \in g.p.out => o = last
      /\ \A v \in D : other[v] <= o
      /\ arr[id] <= cap
  BY <1>1 DEF Meets, LegalStages, Placeable
<1>6. W \in Nat /\ R \in Nat /\ c \in Nat
  BY <1>1, SlotsAreNatural, CostIsNat
<1>7. arr \in [Signals(g.p) -> Nat] /\ arr[id] = c + Latest(arr, B) BY ArrivalsAdd
<1>8. \A v \in D : f[v] <= other[v] /\ (f[v] = other[v] => a[v] <= arr[v])
  BY DEF Under
<1>9. /\ HasRoom(g, last, cap, acc, id) <=> SlotStage(g, last, cap, acc, id) <= last /\ c <= cap
      /\ SlotStage(g, last, cap, acc, id) = IF R + c > cap THEN W + 1 ELSE W
      /\ SlotArrival(g, last, cap, acc, id) = IF R + c > cap THEN c ELSE R + c
  BY DEF HasRoom, SlotStage, SlotArrival, Spills, Fits
<1> HIDE DEF W, R, D, c, f, a, Q, B, arr, o
<1>10. Latest(arr, B) \in Nat /\ \A v \in B : arr[v] <= Latest(arr, B)
  BY <1>3, <1>7, LatestBounds
<1>11. W <= o
  <2>1. \A v \in D : f[v] \in Nat /\ other[v] \in Nat BY <1>2, <1>3, <1>5
  <2>2. \A v \in D : f[v] <= o BY <1>5, <1>8, <2>1
  <2>3. Latest(f, D) <= o BY <1>3, <1>5, <2>1, <2>2, LatestBounds
  <2> QED BY <1>4, <1>5, <2>3
<1>12. c <= arr[id] /\ c <= cap /\ arr[id] \in Nat
  BY <1>1, <1>5, <1>6, <1>7, <1>10
<1>13. CASE W < o
  <2>1. SlotStage(g, last, cap, acc, id) <= o BY <1>5, <1>6, <1>9, <1>13
  <2>2. SlotStage(g, last, cap, acc, id) = o => R + c > cap BY <1>5, <1>6, <1>9, <1>13
  <2>3. SlotStage(g, last, cap, acc, id) \in Nat BY <1>6, <1>9
  <2>4. SlotStage(g, last, cap, acc, id) <= last BY <1>5, <2>1, <2>3
  <2> QED BY <1>9, <1>12, <2>1, <2>2, <2>4 DEF arr, o
<1>14. CASE W = o
  <2>1. ASSUME NEW v \in Q PROVE v \in B /\ a[v] <= arr[v]
    <3>1. f[v] \in Nat /\ other[v] \in Nat /\ f[v] = o /\ v \in D BY <1>2, <1>3, <1>5, <1>14
    <3>2. other[v] = o BY <1>5, <1>8, <3>1
    <3> QED BY <1>3, <1>8, <3>1, <3>2
  <2>2. \A v \in Q : a[v] \in Nat /\ arr[v] \in Nat BY <1>2, <1>3, <1>7
  <2>3. \A v \in Q : a[v] <= Latest(arr, B) BY <1>10, <2>1, <2>2
  <2>4. R <= Latest(arr, B) BY <1>3, <1>4, <1>10, <2>2, <2>3, LatestBounds
  <2>5. R + c <= arr[id] BY <1>6, <1>7, <1>10, <2>4
  <2>6. ~(R + c > cap)
    <3>1. cap \in Nat OBVIOUS
    <3> QED BY <1>5, <1>6, <1>12, <2>5, <3>1
  <2> QED BY <1>5, <1>9, <1>12, <1>14, <2>5, <2>6 DEF arr, o
<1> QED BY <1>5, <1>6, <1>11, <1>13, <1>14

\* Every node placed so far is under the other assignment.
LEMMA PlacedAreUnder ==
  ASSUME NEW g, SoundGraph(g), NEW last \in Nat, NEW cap \in Nat,
         NEW other, Meets(g, last, cap, other),
         NEW acc, NEW k \in Nat, k <= Len(g.order), PlacedUpto(g, last, cap, acc, k)
  PROVE  \A i \in 1..k : g.order[i] \notin g.const => Under(g, acc, other, g.order[i])
<1> DEFINE n == Len(g.order)
           U(i) == g.order[i] \notin g.const => Under(g, acc, other, g.order[i])
           T == {j \in Nat : \A i \in 1..k : i <= j => U(i)}
<1>1. n \in Nat /\ 1..k \subseteq 1..n BY OrderIsFinite
<1>2. 0 \in T OBVIOUS
<1>3. ASSUME NEW i \in 1..k, \A j \in 1..(i - 1) : U(j) PROVE U(i)
  <2> DEFINE id == g.order[i]
  <2> SUFFICES ASSUME id \notin g.const PROVE Under(g, acc, other, id)
    OBVIOUS
  <2>1. id \in g.live /\ id \in Signals(g.p) BY <1>1, OrderIsFinite
  <2>2. acc \in Slots(g) BY DEF PlacedUpto
  <2>3. CASE id \notin Placeable(g)
    <3>1. acc.stage[id] = 0 /\ acc.arrival[id] = 0 BY <2>1, <2>3 DEF PlacedUpto
    <3>2. other[id] \in Nat /\ Arrivals(g, other)[id] \in Nat
      BY <2>1, ArrivalsAdd DEF Meets
    <3> QED BY <3>1, <3>2 DEF Under
  <2>4. CASE id \in Placeable(g)
    <3>1. Settled(g, last, cap, acc, id) BY <2>4 DEF PlacedUpto
    <3>2. \A v \in DataArgs(g, id) : Under(g, acc, other, v)
      <4>1. ASSUME NEW v \in DataArgs(g, id) PROVE Under(g, acc, other, v)
        <5>1. i \in 1..Len(g.order) BY <1>1
        <5>2. PICK j \in 1..(i - 1) : g.order[j] = v BY <5>1, OperandsComeFirst
        <5>3. v \notin g.const BY DEF DataArgs
        <5> QED BY <1>3, <5>2, <5>3
      <4> QED BY <4>1
    <3>3. /\ SlotStage(g, last, cap, acc, id) <= other[id]
          /\ SlotStage(g, last, cap, acc, id) = other[id] =>
               SlotArrival(g, last, cap, acc, id) <= Arrivals(g, other)[id]
      BY <2>2, <2>4, <3>2, SlotIsUnder
    <3> QED BY <3>1, <3>3 DEF Under, Settled
  <2> QED BY <2>3, <2>4
<1> HIDE DEF U
<1>4. ASSUME NEW j \in Nat, j \in T PROVE j + 1 \in T
  <2> SUFFICES ASSUME NEW i \in 1..k, i <= j + 1 PROVE U(i)
    OBVIOUS
  <2>1. CASE i <= j BY <1>4, <2>1
  <2>2. CASE i = j + 1
    <3>1. \A l \in 1..(i - 1) : l \in 1..k /\ l <= j BY <2>2
    <3>2. \A l \in 1..(i - 1) : U(l) BY <1>4, <3>1
    <3> QED BY <1>3, <3>2
  <2> QED BY <2>1, <2>2
<1> HIDE DEF T
<1>5. k \in T BY <1>2, <1>4, InductiveSet
<1> QED BY <1>5 DEF T, U

\* A cap that some legal assignment meets is met by schedule.
LEMMA ScheduleIsComplete ==
  ASSUME NEW g, SoundGraph(g), NEW last \in Nat, NEW cap \in Nat,
         NEW other, Meets(g, last, cap, other)
  PROVE  Schedule(g, last, cap).ok
<1> SUFFICES ASSUME ~Schedule(g, last, cap).ok PROVE FALSE
  OBVIOUS
<1>a. PICK acc : \E k \in 1..Len(g.order) : FailsAt(g, last, cap, acc, k)
  BY ScheduleOutcome
<1>1. PICK k \in 1..Len(g.order) : FailsAt(g, last, cap, acc, k)
  BY <1>a
<1> DEFINE id == g.order[k]
<1>2. /\ PlacedUpto(g, last, cap, acc, k - 1) /\ acc \in Slots(g)
      /\ id \in Placeable(g) /\ ~HasRoom(g, last, cap, acc, id)
  BY <1>1 DEF FailsAt, PlacedUpto
<1>3. k - 1 \in Nat /\ k - 1 <= Len(g.order) BY OrderIsFinite
<1>4. \A i \in 1..(k - 1) : g.order[i] \notin g.const => Under(g, acc, other, g.order[i])
  BY <1>2, <1>3, PlacedAreUnder
<1>5. ASSUME NEW v \in DataArgs(g, id) PROVE Under(g, acc, other, v)
  <2>1. PICK j \in 1..(k - 1) : g.order[j] = v BY OperandsComeFirst
  <2>2. v \notin g.const BY DEF DataArgs
  <2> QED BY <1>4, <2>1, <2>2
<1>6. HasRoom(g, last, cap, acc, id) BY <1>2, <1>5, SlotIsUnder
<1> QED BY <1>2, <1>6

\* Conversely the stages schedule returns meet the cap.
LEMMA ScheduleMeets ==
  ASSUME NEW g, SoundGraph(g), NEW last \in Nat, NEW cap \in Nat,
         Schedule(g, last, cap).ok
  PROVE  Meets(g, last, cap, Schedule(g, last, cap).stage)
<1>1. PICK acc : /\ PlacedUpto(g, last, cap, acc, Len(g.order))
                 /\ Schedule(g, last, cap).stage = FinalStages(g, last, acc)
  BY ScheduleOutcome
<1> DEFINE st == Schedule(g, last, cap).stage
<1>2. st \in [Signals(g.p) -> Nat] BY ScheduleOutcome
<1>3. LegalStages(g, last, st) /\ \A id \in Signals(g.p) : Arrivals(g, st)[id] <= cap
  BY <1>1, PlacementIsLegal
<1> QED BY <1>2, <1>3, OrderIsFinite DEF Meets

\* A cap that can be met stays met when it grows, by any amount.
LEMMA ScheduleIsMonotone ==
  ASSUME NEW g, SoundGraph(g), NEW last \in Nat, NEW cap \in Nat, NEW big \in Nat, cap <= big,
         Schedule(g, last, cap).ok
  PROVE  Schedule(g, last, big).ok
<1> DEFINE st == Schedule(g, last, cap).stage
<1>1. Meets(g, last, cap, st) BY ScheduleMeets
<1> HIDE DEF st
<1>2. ASSUME NEW id \in g.live PROVE Arrivals(g, st)[id] <= big
  <2>1. Arrivals(g, st)[id] \in Nat BY ArrivalsAdd, OrderIsFinite
  <2> QED BY <1>1, <2>1 DEF Meets
<1>3. Meets(g, last, big, st) BY <1>1, <1>2 DEF Meets
<1> QED BY <1>3, ScheduleIsComplete

-----------------------------------------------------------------------------
(* The measures of evaluate *)

\* How many stages a signal is kept, and the bits that takes.
Kept(g, last, stage) ==
  [id \in Registered(g) |-> LastUse(g, last, stage, id) - stage[id]]
KeptBits(g, last, stage) ==
  [id \in Registered(g) |-> g.p.width[id] * (LastUse(g, last, stage, id) - stage[id])]
CostOf(g) == [id \in g.live |-> Cost(g, id)]
GraphCost(g) == MapThenSumSet(LAMBDA id : Cost(g, id), g.live)

\* The sum of the costs, as a total.
LEMMA CostTotal ==
  ASSUME NEW g, SoundGraph(g)
  PROVE  /\ GraphCost(g) = Total(CostOf(g), g.live)
         /\ Weighs(CostOf(g), g.live) /\ IsFiniteSet(g.live)
<1> DEFINE S == g.live
           c == CostOf(g)
           one(s) == CHOOSE x \in s : TRUE
           body(f) == [s \in SUBSET S |->
                         IF s = {} THEN 0 ELSE Cost(g, one(s)) + f[s \ {one(s)}]]
           it == CHOOSE f : f = body(f)
<1>1. GraphCost(g) = it[S]
  BY DEF GraphCost, MapThenSumSet, MapThenFoldSet
<1>2. IsFiniteSet(S) BY OrderIsFinite
<1>3. Weighs(c, S) BY CostIsNat DEF Weighs, CostOf
<1>4. PICK f : SumsTo(f, c, S) BY <1>2, <1>3, WeightSums
<1>5. \A s \in SUBSET S : s # {} => one(s) \in S OBVIOUS
<1> HIDE DEF one
<1>6. \A s \in SUBSET S : s # {} => c[one(s)] = Cost(g, one(s)) BY <1>5 DEF CostOf
<1>7. \A h : SumsTo(h, c, S) <=> h = body(h) BY <1>6 DEF SumsTo, one
<1>8. it = body(it) BY <1>4, <1>7
<1> HIDE DEF it, body
<1>9. it[S] = Total(c, S) BY <1>2, <1>3, <1>7, <1>8, TotalIs
<1> QED BY <1>1, <1>2, <1>3, <1>9

\* The last use of a node is between its stage and the last one.
LEMMA KeptIsNat ==
  ASSUME NEW g, SoundGraph(g), NEW last \in Nat, NEW stage \in [Signals(g.p) -> Nat],
         LegalStages(g, last, stage), NEW id \in Registered(g)
  PROVE  /\ LastUse(g, last, stage, id) \in stage[id]..last
         /\ \A u \in g.users[id] : stage[u] <= LastUse(g, last, stage, id)
         /\ g.p.width[id] \in Nat
<1>1. id \in g.live /\ id \in Signals(g.p) BY OrderIsFinite DEF Registered
<1>2. g.users[id] = {u \in g.live : id \in ArgSet(g.p, u)} BY <1>1 DEF SoundGraph
<1>3. \A u \in g.live : stage[u] \in Nat /\ stage[u] <= last
  BY OrderIsFinite DEF LegalStages
<1>4. g.p.width[id] \in Nat BY <1>1 DEF SoundGraph, WellFormed
<1> DEFINE L == {stage[id]} \cup {stage[u] : u \in g.users[id]}
<1>5. L \in SUBSET Nat /\ L # {} /\ (\A m \in L : m <= last) /\ stage[id] \in L
      /\ \A u \in g.users[id] : stage[u] \in L
  BY <1>1, <1>2, <1>3
<1>6. LastUse(g, last, stage, id) = IF id = g.p.vin THEN last ELSE Max(L) BY DEF LastUse
<1> HIDE DEF L
<1>7. Max(L) \in L /\ \A m \in L : Max(L) >= m BY <1>5, MaxIsGreatest
<1>8. Max(L) \in Nat /\ Max(L) <= last /\ stage[id] <= Max(L) BY <1>5, <1>7
<1>9. \A u \in g.users[id] : u \in g.live /\ stage[u] \in L BY <1>2, <1>5
<1> QED BY <1>1, <1>3, <1>4, <1>6, <1>7, <1>8, <1>9

\* The bits and registers evaluate counts are the totals over the chains.
LEMMA KeptTotals ==
  ASSUME NEW g, SoundGraph(g), NEW last \in Nat, NEW stage \in [Signals(g.p) -> Nat],
         LegalStages(g, last, stage)
  PROVE  /\ IsFiniteSet(Registered(g))
         /\ Weighs(Kept(g, last, stage), Registered(g))
         /\ Weighs(KeptBits(g, last, stage), Registered(g))
         /\ Evaluate(g, last, stage).bits = Total(KeptBits(g, last, stage), Registered(g))
         /\ Evaluate(g, last, stage).count = Total(Kept(g, last, stage), Registered(g))
<1> DEFINE S == Registered(g)
           c == KeptBits(g, last, stage)
           d == Kept(g, last, stage)
           one(s) == CHOOSE x \in s : TRUE
           chain(id) == LastUse(g, last, stage, id) - stage[id]
           body(f) == [s \in SUBSET S |-> IF s = {} THEN 0
                         ELSE g.p.width[one(s)] * chain(one(s)) + f[s \ {one(s)}]]
           tour(f) == [s \in SUBSET S |-> IF s = {} THEN 0
                         ELSE chain(one(s)) + f[s \ {one(s)}]]
           it == CHOOSE f : f = body(f)
           at == CHOOSE f : f = tour(f)
<1>1. Evaluate(g, last, stage).bits = it[S]
  BY DEF MapThenSumSet, MapThenFoldSet, Evaluate
<1>2. Evaluate(g, last, stage).count = at[S]
  BY DEF MapThenSumSet, MapThenFoldSet, Evaluate
<1>3. IsFiniteSet(S)
  <2>1. S \in SUBSET g.live BY DEF Registered
  <2> QED BY <2>1, OrderIsFinite
<1>4. \A id \in S : chain(id) \in Nat /\ g.p.width[id] * chain(id) \in Nat
  <2> TAKE id \in S
  <2>1. LastUse(g, last, stage, id) \in stage[id]..last /\ g.p.width[id] \in Nat
        /\ stage[id] \in Nat
    BY KeptIsNat, OrderIsFinite DEF Registered
  <2>2. chain(id) \in Nat BY <2>1
  <2> HIDE DEF chain
  <2> QED BY <2>1, <2>2
<1>5. (\A id \in S : c[id] = g.p.width[id] * chain(id)) /\ (\A id \in S : d[id] = chain(id))
  BY DEF Kept, KeptBits
<1> HIDE DEF chain, c, d
<1>6. Weighs(c, S) /\ Weighs(d, S) BY <1>4, <1>5 DEF Weighs
<1>7. (\E f : SumsTo(f, c, S)) /\ (\E f : SumsTo(f, d, S)) BY <1>3, <1>6, WeightSums
<1>8. \A s \in SUBSET S : s # {} => one(s) \in S OBVIOUS
<1> HIDE DEF one, S
<1>9. \A s \in SUBSET S : s # {} =>
        c[one(s)] = g.p.width[one(s)] * chain(one(s)) /\ d[one(s)] = chain(one(s))
  BY <1>5, <1>8
<1>10. \A h : (SumsTo(h, c, S) <=> h = body(h)) /\ (SumsTo(h, d, S) <=> h = tour(h))
  <2> TAKE h
  <2> DEFINE sum(e) == [s \in SUBSET S |-> IF s = {} THEN 0 ELSE e[one(s)] + h[s \ {one(s)}]]
  <2>1. (SumsTo(h, c, S) <=> h = sum(c)) /\ (SumsTo(h, d, S) <=> h = sum(d))
    BY DEF SumsTo, one
  <2>2. sum(c) = body(h) BY <1>9
  <2>3. sum(d) = tour(h) BY <1>9
  <2> HIDE DEF sum, body, tour
  <2> QED BY <2>1, <2>2, <2>3
<1>11. it = body(it) BY <1>7, <1>10
<1>12. at = tour(at) BY <1>7, <1>10
<1> HIDE DEF it, at, body, tour
<1>13. it[S] = Total(c, S) BY <1>3, <1>6, <1>10, <1>11, TotalIs
<1>14. at[S] = Total(d, S) BY <1>3, <1>6, <1>10, <1>12, TotalIs
<1> QED BY <1>1, <1>2, <1>3, <1>6, <1>13, <1>14 DEF S, c, d

\* evaluate's delay is the latest arrival; it is infinite exactly on the
\* assignments that are not legal.
LEMMA EvaluateMeasures ==
  ASSUME NEW g, SoundGraph(g), NEW last \in Nat, NEW stage \in [Signals(g.p) -> Nat]
  PROVE  /\ ~LegalStages(g, last, stage) => Evaluate(g, last, stage).delay = Unreachable
         /\ LegalStages(g, last, stage) =>
              /\ Evaluate(g, last, stage).delay \in Nat
              /\ Evaluate(g, last, stage).bits \in Nat
              /\ Evaluate(g, last, stage).count \in Nat
              /\ \A id \in g.live : Arrivals(g, stage)[id] <= Evaluate(g, last, stage).delay
              /\ \A b \in Nat : (\A id \in g.live : Arrivals(g, stage)[id] <= b) =>
                   Evaluate(g, last, stage).delay <= b
<1>1. ~LegalStages(g, last, stage) => Evaluate(g, last, stage).delay = Unreachable
  BY DEF Evaluate
<1> SUFFICES ASSUME LegalStages(g, last, stage)
             PROVE  /\ Evaluate(g, last, stage).delay \in Nat
                    /\ Evaluate(g, last, stage).bits \in Nat
                    /\ Evaluate(g, last, stage).count \in Nat
                    /\ \A id \in g.live : Arrivals(g, stage)[id] <= Evaluate(g, last, stage).delay
                    /\ \A b \in Nat : (\A id \in g.live : Arrivals(g, stage)[id] <= b) =>
                         Evaluate(g, last, stage).delay <= b
  BY <1>1
<1>2. Evaluate(g, last, stage).bits \in Nat /\ Evaluate(g, last, stage).count \in Nat
  BY KeptTotals, TotalRemove
<1> DEFINE a == Arrivals(g, stage)
           at(s) == {i \in g.live : stage[i] = s}
           delays == StageDelays(g, last, stage)
           V == {delays[s] : s \in 0..last}
<1>3. Evaluate(g, last, stage).delay = Max(V) BY DEF Evaluate
<1>4. a \in [Signals(g.p) -> Nat] BY ArrivalsAdd
<1>5. \A s \in 0..last : delays[s] = Latest(a, at(s)) BY DEF StageDelays, Latest
<1>6. \A s : at(s) \subseteq Signals(g.p) /\ at(s) \subseteq g.live /\ IsFiniteSet(at(s))
  BY OrderIsFinite
<1>7. \A s \in 0..last : /\ delays[s] \in Nat
                         /\ \A v \in at(s) : a[v] <= delays[s]
                         /\ \A b \in Nat : (\A v \in at(s) : a[v] <= b) => delays[s] <= b
  <2> TAKE s \in 0..last
  <2> DEFINE Q == at(s)
  <2>1. IsFiniteSet(Q) /\ \A v \in Q : a[v] \in Nat BY <1>4, <1>6
  <2>2. delays[s] = Latest(a, Q) BY <1>5
  <2> HIDE DEF Q, a, delays
  <2>3. /\ Latest(a, Q) \in Nat /\ \A v \in Q : a[v] <= Latest(a, Q)
        /\ \A b \in Nat : (\A v \in Q : a[v] <= b) => Latest(a, Q) <= b
    BY <2>1, LatestBounds
  <2> QED BY <2>2, <2>3 DEF Q
<1> HIDE DEF delays, a
<1>8. V \in SUBSET Nat /\ V # {} /\ IsFiniteSet(V)
  <2>1. IsFiniteSet(0..last) BY FS_Interval
  <2>2. IsFiniteSet(V) BY <2>1, ImageIsFinite
  <2>3. 0 \in 0..last OBVIOUS
  <2> QED BY <1>7, <2>2, <2>3
<1>9. Max(V) \in V /\ \A m \in V : Max(V) >= m BY <1>8, MaxOfFinite
<1>10. \A id \in g.live : stage[id] \in 0..last /\ id \in at(stage[id]) BY DEF LegalStages
<1>11. \A id \in g.live : a[id] <= delays[stage[id]] /\ delays[stage[id]] <= Max(V)
                         /\ a[id] \in Nat /\ delays[stage[id]] \in Nat /\ Max(V) \in Nat
  BY <1>4, <1>7, <1>8, <1>9, <1>10, OrderIsFinite
<1>12. \A id \in g.live : a[id] <= Max(V)
  <2> TAKE id \in g.live
  <2> DEFINE x == a[id]
             y == delays[stage[id]]
             z == Max(V)
  <2>1. x <= y /\ y <= z /\ x \in Nat /\ y \in Nat /\ z \in Nat BY <1>11
  <2> HIDE DEF x, y, z
  <2>2. x <= z BY <2>1
  <2> QED BY <2>2 DEF x, z
<1>13. ASSUME NEW b \in Nat, \A id \in g.live : a[id] <= b PROVE Max(V) <= b
  <2>1. \A s \in 0..last : delays[s] <= b BY <1>6, <1>7, <1>13
  <2> QED BY <1>9, <2>1
<1>14. Max(V) \in Nat BY <1>8, <1>9
<1> QED BY <1>2, <1>3, <1>12, <1>13, <1>14 DEF a

-----------------------------------------------------------------------------
(* The interval the bisection starts from                                    *)

\* Every cost is part of an arrival, and no arrival exceeds the sum of costs.
LEMMA ArrivalsWithinTotal ==
  ASSUME NEW g, SoundGraph(g), NEW stage
  PROVE  /\ GraphCost(g) \in Nat
         /\ \A id \in g.live : /\ Cost(g, id) <= Arrivals(g, stage)[id]
                               /\ Arrivals(g, stage)[id] <= GraphCost(g)
<1> DEFINE n == Len(g.order)
           a == Arrivals(g, stage)
           c == CostOf(g)
           P(k) == {g.order[j] : j \in 1..k}
           W(k) == \A j \in 1..k : a[g.order[j]] <= Total(c, P(k))
           T == {k \in Nat : k <= n => W(k)}
<1>1. n \in Nat /\ \A j \in 1..n : g.order[j] \in g.live BY OrderIsFinite
<1>2. GraphCost(g) = Total(c, g.live) /\ Weighs(c, g.live) /\ IsFiniteSet(g.live)
  BY CostTotal
<1>3. /\ a \in [Signals(g.p) -> Nat]
      /\ \A id \in Placeable(g) : a[id] = Cost(g, id) + Latest(a, Beside(g, stage, id))
      /\ \A id \in Signals(g.p) \ Placeable(g) : a[id] = 0
  BY ArrivalsAdd
<1> HIDE DEF a
<1>4. \A id \in g.live : c[id] = Cost(g, id) /\ Cost(g, id) \in Nat
  BY CostIsNat DEF CostOf
<1> HIDE DEF c
<1>5. ASSUME NEW k \in Nat, k <= n
      PROVE  P(k) \subseteq g.live /\ IsFiniteSet(P(k)) /\ Weighs(c, P(k)) /\ Total(c, P(k)) \in Nat
  <2>1. P(k) \subseteq g.live BY <1>1, <1>5
  <2> HIDE DEF P
  <2>2. IsFiniteSet(P(k)) /\ Weighs(c, P(k)) BY <1>2, <2>1, FS_Subset DEF Weighs
  <2> QED BY <2>1, <2>2, TotalRemove
<1>6. 0 \in T OBVIOUS
<1>7. ASSUME NEW k \in Nat, k + 1 <= n, \A j \in 1..k : a[g.order[j]] <= Total(c, P(k))
      PROVE  \A j \in 1..(k + 1) : a[g.order[j]] <= Total(c, P(k + 1))
  <2> DEFINE m == k + 1
             id == g.order[m]
  <2>1. m \in 1..n /\ k <= n /\ (\A j \in 1..m : j = m \/ j \in 1..k) /\ 1..m \subseteq 1..n
        /\ 1..k \subseteq 1..n
    BY <1>1, <1>7
  <2>2. id \in g.live /\ id \in Signals(g.p) BY <1>1, <2>1, OrderIsFinite
  <2>3. id \notin P(k)
    <3>1. \A j \in 1..k : j \in 1..n /\ j # m BY <2>1
    <3> HIDE DEF m
    <3>2. \A j \in 1..k : g.order[j] # g.order[m]
      BY <2>1, <3>1 DEF SoundGraph, Ordered, n
    <3> QED BY <3>2
  <2>4. P(m) = P(k) \cup {id}
    <3>1. \A j \in 1..m : g.order[j] \in P(k) \cup {id} BY <2>1
    <3>2. P(k) \subseteq P(m) /\ id \in P(m) BY <2>1
    <3> QED BY <3>1, <3>2
  <2>5. Total(c, P(k)) \in Nat /\ IsFiniteSet(P(k)) /\ Weighs(c, P(k)) BY <1>5, <2>1
  <2>6. Total(c, P(m)) = c[id] + Total(c, P(k))
    <3> DEFINE R == P(k)
    <3> HIDE DEF P, m, R
    <3>1. R \cup {id} = P(m) BY <2>4 DEF R
    <3>2. Total(c, R \cup {id}) = c[id] + Total(c, R)
      BY <1>4, <2>2, <2>3, <2>5, TotalAdd DEF R
    <3> QED BY <3>1, <3>2 DEF R
  <2>7. a[id] <= c[id] + Total(c, P(k))
    <3>1. CASE id \notin Placeable(g) BY <1>3, <1>4, <2>2, <2>5, <3>1
    <3>2. CASE id \in Placeable(g)
      <4> DEFINE B == Beside(g, stage, id)
                 t == Total(c, P(k))
      <4>1. B \subseteq DataArgs(g, id) BY DEF Beside
      <4>2. B \subseteq Signals(g.p) /\ IsFiniteSet(B) BY <2>2, <4>1, OperandsAreFinite
      <4>3. ASSUME NEW v \in B PROVE a[v] <= t
        <5>1. v \in DataArgs(g, g.order[m]) BY <4>1
        <5>2. \E j \in 1..(m - 1) : g.order[j] = v
          <6> HIDE DEF m
          <6> QED BY <2>1, <5>1, OperandsComeFirst
        <5>3. PICK j \in 1..k : g.order[j] = v BY <5>2
        <5> QED BY <1>7, <5>3
      <4> HIDE DEF B, t
      <4>4. Latest(a, B) <= t /\ Latest(a, B) \in Nat
        <5>1. t \in Nat BY <2>5 DEF t
        <5>2. \A v \in B : a[v] \in Nat BY <1>3, <4>2
        <5> QED BY <4>2, <4>3, <5>1, <5>2, LatestBounds
      <4>5. a[id] = c[id] + Latest(a, B) BY <1>3, <1>4, <2>2, <3>2 DEF B
      <4>6. t \in Nat /\ c[id] \in Nat BY <1>4, <2>2, <2>5 DEF t
      <4>7. a[id] <= c[id] + t BY <4>4, <4>5, <4>6
      <4> QED BY <4>7 DEF t
    <3> QED BY <3>1, <3>2
  <2>8. ASSUME NEW j \in 1..k PROVE a[g.order[j]] <= Total(c, P(m))
    <3> DEFINE x == a[g.order[j]]
    <3>1. x <= Total(c, P(k)) BY <1>7, <2>8
    <3>2. g.order[j] \in Signals(g.p) BY <1>1, <2>1, OrderIsFinite
    <3>3. x \in Nat /\ c[id] \in Nat BY <1>3, <1>4, <2>2, <3>2
    <3> HIDE DEF x, P
    <3>4. x <= c[id] + Total(c, P(k)) BY <2>5, <3>1, <3>3
    <3> QED BY <2>6, <3>4 DEF x
  <2>9. a[id] <= Total(c, P(m))
    <3> HIDE DEF P
    <3> QED BY <2>6, <2>7
  <2> QED BY <2>1, <2>8, <2>9
<1>a. ASSUME NEW k \in Nat, k + 1 <= n, W(k) PROVE W(k + 1)
  <2>1. \A j \in 1..k : a[g.order[j]] <= Total(c, P(k)) BY <1>a
  <2>2. \A j \in 1..(k + 1) : a[g.order[j]] <= Total(c, P(k + 1)) BY <1>7, <1>a, <2>1
  <2> QED BY <2>2
<1> HIDE DEF W
<1>8. \A k \in Nat : k \in T => k + 1 \in T BY <1>1, <1>a
<1> HIDE DEF T
<1>9. n \in T BY <1>1, <1>6, <1>8, InductiveSet
<1>10. P(n) = g.live BY DEF SoundGraph, n
<1> HIDE DEF P
<1>b. W(n) BY <1>1, <1>9 DEF T
<1>11. \A j \in 1..n : a[g.order[j]] <= GraphCost(g) BY <1>2, <1>b, <1>10 DEF W
<1>12. \A id \in g.live : a[id] <= GraphCost(g) BY <1>11 DEF SoundGraph, n
<1>13. GraphCost(g) \in Nat BY <1>2, TotalRemove
<1>14. ASSUME NEW id \in g.live PROVE Cost(g, id) <= a[id]
  <2>1. CASE id \notin Placeable(g)
    <3>1. Cost(g, id) = 0 BY <2>1 DEF Placeable, Cost
    <3> QED BY <1>3, <3>1, OrderIsFinite
  <2>2. CASE id \in Placeable(g)
    <3>1. Latest(a, Beside(g, stage, id)) \in Nat BY <1>3, ArrivalStepType
    <3> QED BY <1>3, <1>4, <2>2, <3>1
  <2> QED BY <2>1, <2>2
<1> QED BY <1>12, <1>13, <1>14 DEF a

\* All operations in the last stage are a legal assignment, so the first
\* placement, under the sum of all costs, always succeeds.
LEMMA SomeScheduleExists ==
  ASSUME NEW g, SoundGraph(g), NEW last \in Nat
  PROVE  Schedule(g, last, GraphCost(g)).ok
<1> DEFINE other == [id \in Signals(g.p) |->
                       IF id \in Placeable(g) \cup g.p.out THEN last ELSE 0]
<1>1. other \in [Signals(g.p) -> Nat] OBVIOUS
<1>2. LegalStages(g, last, other)
  <2> SUFFICES ASSUME NEW id \in g.live
               PROVE  /\ other[id] \in 0..last
                      /\ id \in g.input => other[id] = 0
                      /\ id \in g.p.out => other[id] = last
                      /\ id \notin g.const \cup g.input =>
                           \A v \in DataArgs(g, id) : other[v] <= other[id]
    BY DEF LegalStages
  <2>1. \A v \in Signals(g.p) : other[v] \in 0..last OBVIOUS
  <2>2. id \in g.input => other[id] = 0 BY PlaceableFacts
  <2>3. id \notin g.const \cup g.input => other[id] = last
    BY PlaceableFacts
  <2>4. \A v \in DataArgs(g, id) : v \in Signals(g.p) BY OperandsAreLive, OrderIsFinite
  <2>5. id \in g.p.out => other[id] = last BY PlaceableFacts
  <2> HIDE DEF other
  <2>6. \A v \in DataArgs(g, id) : other[v] <= last BY <2>1, <2>4
  <2>7. other[id] \in 0..last BY <2>1, OrderIsFinite
  <2> QED BY <2>2, <2>3, <2>5, <2>6, <2>7
<1> HIDE DEF other
<1>3. Meets(g, last, GraphCost(g), other) BY <1>1, <1>2, ArrivalsWithinTotal DEF Meets
<1> QED BY <1>3, ArrivalsWithinTotal, ScheduleIsComplete
=============================================================================
