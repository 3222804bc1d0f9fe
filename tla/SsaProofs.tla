------------------------------ MODULE SsaProofs ------------------------------
(***************************************************************************)
(* What stage S9 guarantees, for every program: it refuses exactly the     *)
(* functions it must refuse, and in the form it hands on every value is    *)
(* defined before it is read, on every path (RefusedExactly and            *)
(* DefsDominateUses), also while stages S10 and S11 work on it.            *)
(*                                                                         *)
(* The argument.  Spread is the least set closed under the edges, so paths *)
(* and dominators can be reasoned about; the depth-first search of         *)
(* analyzeCFG visits every reached block after all its predecessors; when  *)
(* computeLiveness settles, live is a fixed point.  Renaming a block keeps *)
(* four facts: its code reads only what is ready, its environment names    *)
(* values that reach its end, a live variable without a value is a local   *)
(* that some path does not write, and where a path leaves a local          *)
(* undefined nothing reads it.                                             *)
(***************************************************************************)
EXTENDS Beir, FoldFacts

-----------------------------------------------------------------------------
(* The folds of the stage, step by step *)

AdvanceSteps == INSTANCE FoldSteps WITH op <- Advance
DfsSteps == INSTANCE FoldSteps WITH op <- DfsStep
AddStmtSteps == INSTANCE FoldSteps WITH op <- AddStmt
UpdateLiveSteps == INSTANCE FoldSteps WITH op <- UpdateLive
DefineInitialSteps == INSTANCE FoldSteps WITH op <- DefineInitial
MergeSymbolSteps == INSTANCE FoldSteps WITH op <- MergeSymbol
WriteElementSteps == INSTANCE FoldSteps WITH op <- WriteElement
RewriteStmtSteps == INSTANCE FoldSteps WITH op <- RewriteStmt

\* The steps of Spread.
LEMMA ReachFold ==
  ASSUME NEW base, NEW seq, NEW n \in Nat, DOMAIN seq = 1..n
  PROVE  \E it : AdvanceSteps!Steps(it, base, seq, n) /\ FoldLeft(Advance, base, seq) = it[n]
<1>1. AdvanceSteps!NaturalsFacts
  BY InductiveSet, MaxIsGreatest DEF AdvanceSteps!NaturalsFacts, AdvanceSteps!Greatest, Max
<1>2. PICK it : AdvanceSteps!Steps(it, base, seq, n) /\ AdvanceSteps!Fold(base, seq, n) = it[n]
  BY <1>1, AdvanceSteps!StepByStep
<1>3. FoldLeft(Advance, base, seq) = AdvanceSteps!Fold(base, seq, n)
  BY DEF FoldLeft, MapThenFoldSet, Max, AdvanceSteps!Fold,
        AdvanceSteps!Eqn, AdvanceSteps!Greatest
<1> QED BY <1>2, <1>3

\* The steps of the depth-first search.
LEMMA DfsFold ==
  ASSUME NEW base, NEW seq, NEW n \in Nat, DOMAIN seq = 1..n
  PROVE  \E it : DfsSteps!Steps(it, base, seq, n) /\ FoldLeft(DfsStep, base, seq) = it[n]
<1>1. DfsSteps!NaturalsFacts
  BY InductiveSet, MaxIsGreatest DEF DfsSteps!NaturalsFacts, DfsSteps!Greatest, Max
<1>2. PICK it : DfsSteps!Steps(it, base, seq, n) /\ DfsSteps!Fold(base, seq, n) = it[n]
  BY <1>1, DfsSteps!StepByStep
<1>3. FoldLeft(DfsStep, base, seq) = DfsSteps!Fold(base, seq, n)
  BY DEF FoldLeft, MapThenFoldSet, Max, DfsSteps!Fold,
        DfsSteps!Eqn, DfsSteps!Greatest
<1> QED BY <1>2, <1>3

\* The steps of UsesDefs.
LEMMA UsesFold ==
  ASSUME NEW base, NEW seq, NEW n \in Nat, DOMAIN seq = 1..n
  PROVE  \E it : AddStmtSteps!Steps(it, base, seq, n) /\ FoldLeft(AddStmt, base, seq) = it[n]
<1>1. AddStmtSteps!NaturalsFacts
  BY InductiveSet, MaxIsGreatest DEF AddStmtSteps!NaturalsFacts, AddStmtSteps!Greatest, Max
<1>2. PICK it : AddStmtSteps!Steps(it, base, seq, n) /\ AddStmtSteps!Fold(base, seq, n) = it[n]
  BY <1>1, AddStmtSteps!StepByStep
<1>3. FoldLeft(AddStmt, base, seq) = AddStmtSteps!Fold(base, seq, n)
  BY DEF FoldLeft, MapThenFoldSet, Max, AddStmtSteps!Fold,
        AddStmtSteps!Eqn, AddStmtSteps!Greatest
<1> QED BY <1>2, <1>3

\* The steps of a pass of the liveness analysis.
LEMMA LiveFold ==
  ASSUME NEW base, NEW seq, NEW n \in Nat, DOMAIN seq = 1..n
  PROVE  \E it : UpdateLiveSteps!Steps(it, base, seq, n) /\ FoldLeft(UpdateLive, base, seq) = it[n]
<1>1. UpdateLiveSteps!NaturalsFacts
  BY InductiveSet, MaxIsGreatest DEF UpdateLiveSteps!NaturalsFacts, UpdateLiveSteps!Greatest, Max
<1>2. PICK it : UpdateLiveSteps!Steps(it, base, seq, n) /\ UpdateLiveSteps!Fold(base, seq, n) = it[n]
  BY <1>1, UpdateLiveSteps!StepByStep
<1>3. FoldLeft(UpdateLive, base, seq) = UpdateLiveSteps!Fold(base, seq, n)
  BY DEF FoldLeft, MapThenFoldSet, Max, UpdateLiveSteps!Fold,
        UpdateLiveSteps!Eqn, UpdateLiveSteps!Greatest
<1> QED BY <1>2, <1>3

\* The steps of InitialEnv.
LEMMA InitialFold ==
  ASSUME NEW base, NEW seq, NEW n \in Nat, DOMAIN seq = 1..n
  PROVE  \E it : DefineInitialSteps!Steps(it, base, seq, n) /\ FoldLeft(DefineInitial, base, seq) = it[n]
<1>1. DefineInitialSteps!NaturalsFacts
  BY InductiveSet, MaxIsGreatest DEF DefineInitialSteps!NaturalsFacts, DefineInitialSteps!Greatest, Max
<1>2. PICK it : DefineInitialSteps!Steps(it, base, seq, n) /\ DefineInitialSteps!Fold(base, seq, n) = it[n]
  BY <1>1, DefineInitialSteps!StepByStep
<1>3. FoldLeft(DefineInitial, base, seq) = DefineInitialSteps!Fold(base, seq, n)
  BY DEF FoldLeft, MapThenFoldSet, Max, DefineInitialSteps!Fold,
        DefineInitialSteps!Eqn, DefineInitialSteps!Greatest
<1> QED BY <1>2, <1>3

\* The steps of MergeEnvs.
LEMMA MergeFold ==
  ASSUME NEW base, NEW seq, NEW n \in Nat, DOMAIN seq = 1..n
  PROVE  \E it : MergeSymbolSteps!Steps(it, base, seq, n) /\ FoldLeft(MergeSymbol, base, seq) = it[n]
<1>1. MergeSymbolSteps!NaturalsFacts
  BY InductiveSet, MaxIsGreatest DEF MergeSymbolSteps!NaturalsFacts, MergeSymbolSteps!Greatest, Max
<1>2. PICK it : MergeSymbolSteps!Steps(it, base, seq, n) /\ MergeSymbolSteps!Fold(base, seq, n) = it[n]
  BY <1>1, MergeSymbolSteps!StepByStep
<1>3. FoldLeft(MergeSymbol, base, seq) = MergeSymbolSteps!Fold(base, seq, n)
  BY DEF FoldLeft, MapThenFoldSet, Max, MergeSymbolSteps!Fold,
        MergeSymbolSteps!Eqn, MergeSymbolSteps!Greatest
<1> QED BY <1>2, <1>3

\* The steps of a dynamic write.
LEMMA ElementFold ==
  ASSUME NEW base, NEW seq, NEW n \in Nat, DOMAIN seq = 1..n
  PROVE  \E it : WriteElementSteps!Steps(it, base, seq, n) /\ FoldLeft(WriteElement, base, seq) = it[n]
<1>1. WriteElementSteps!NaturalsFacts
  BY InductiveSet, MaxIsGreatest DEF WriteElementSteps!NaturalsFacts, WriteElementSteps!Greatest, Max
<1>2. PICK it : WriteElementSteps!Steps(it, base, seq, n) /\ WriteElementSteps!Fold(base, seq, n) = it[n]
  BY <1>1, WriteElementSteps!StepByStep
<1>3. FoldLeft(WriteElement, base, seq) = WriteElementSteps!Fold(base, seq, n)
  BY DEF FoldLeft, MapThenFoldSet, Max, WriteElementSteps!Fold,
        WriteElementSteps!Eqn, WriteElementSteps!Greatest
<1> QED BY <1>2, <1>3

\* The steps of the statements of a block.
LEMMA RewriteFold ==
  ASSUME NEW base, NEW seq, NEW n \in Nat, DOMAIN seq = 1..n
  PROVE  \E it : RewriteStmtSteps!Steps(it, base, seq, n) /\ FoldLeft(RewriteStmt, base, seq) = it[n]
<1>1. RewriteStmtSteps!NaturalsFacts
  BY InductiveSet, MaxIsGreatest DEF RewriteStmtSteps!NaturalsFacts, RewriteStmtSteps!Greatest, Max
<1>2. PICK it : RewriteStmtSteps!Steps(it, base, seq, n) /\ RewriteStmtSteps!Fold(base, seq, n) = it[n]
  BY <1>1, RewriteStmtSteps!StepByStep
<1>3. FoldLeft(RewriteStmt, base, seq) = RewriteStmtSteps!Fold(base, seq, n)
  BY DEF FoldLeft, MapThenFoldSet, Max, RewriteStmtSteps!Fold,
        RewriteStmtSteps!Eqn, RewriteStmtSteps!Greatest
<1> QED BY <1>2, <1>3

-----------------------------------------------------------------------------
(* Reaching *)

\* Edges between n blocks.
Edges(succ, n) == DOMAIN succ = 1..n /\ \A b \in 1..n : succ[b] \subseteq 1..n

\* The fold of Spread: a set of blocks after each of its steps.
Spreading(it, succ, n, from) ==
  /\ it[0] = from
  /\ \A k \in 1..n : it[k] = it[k - 1] \cup UNION {succ[a] : a \in it[k - 1]}
  /\ \A k \in 0..n : it[k] \subseteq 1..n
  /\ \A k \in 0..n : from \subseteq it[k]
  /\ Spread(succ, from) = it[n]

\* Spread runs step by step.
LEMMA SpreadRuns ==
  ASSUME NEW n \in Nat, NEW succ, Edges(succ, n), NEW from \in SUBSET (1..n)
  PROVE  \E it : Spreading(it, succ, n, from)
<1> DEFINE seq == [b \in DOMAIN succ |-> succ]
<1>1. DOMAIN seq = 1..n /\ \A k \in 1..n : seq[k] = succ BY DEF Edges
<1>2. Spread(succ, from) = FoldLeft(Advance, from, seq) BY DEF Spread
<1> HIDE DEF seq
<1>3. PICK it : AdvanceSteps!Steps(it, from, seq, n) /\ FoldLeft(Advance, from, seq) = it[n]
  BY <1>1, ReachFold
<1>10. it[0] = from /\ \A k \in 1..n : it[k] = Advance(it[k - 1], seq[k])
  BY <1>3 DEF AdvanceSteps!Steps
<1>4. \A k \in 1..n : it[k] = it[k - 1] \cup UNION {succ[a] : a \in it[k - 1]}
  <2> TAKE k \in 1..n
  <2>1. it[k] = Advance(it[k - 1], succ) BY <1>1, <1>10
  <2> QED BY <2>1 DEF Advance
<1> DEFINE T == {k \in Nat : k <= n => it[k] \subseteq 1..n /\ from \subseteq it[k]}
<1>5. 0 \in T BY <1>10
<1>6. ASSUME NEW k \in Nat, k \in T PROVE k + 1 \in T
  <2> SUFFICES ASSUME k + 1 <= n PROVE it[k + 1] \subseteq 1..n /\ from \subseteq it[k + 1] OBVIOUS
  <2>1. it[k] \subseteq 1..n /\ from \subseteq it[k] /\ k + 1 \in 1..n /\ (k + 1) - 1 = k BY <1>6
  <2>2. it[k + 1] = it[k] \cup UNION {succ[a] : a \in it[k]} BY <1>4, <2>1
  <2>3. \A a \in it[k] : succ[a] \subseteq 1..n BY <2>1 DEF Edges
  <2> QED BY <2>1, <2>2, <2>3
<1> HIDE DEF T
<1>7. \A k \in Nat : k \in T BY <1>5, <1>6, InductiveSet
<1>8. \A k \in 0..n : it[k] \subseteq 1..n /\ from \subseteq it[k] BY <1>7 DEF T
<1>9. Spreading(it, succ, n, from) BY <1>2, <1>3, <1>4, <1>8, <1>10 DEF Spreading
<1> QED BY <1>9

\* What is reached lies in every set that holds the start and that no edge leaves.
LEMMA SpreadInside ==
  ASSUME NEW n \in Nat, NEW succ, Edges(succ, n), NEW from \in SUBSET (1..n),
         NEW K, from \subseteq K, \A b \in 1..n : b \in K => succ[b] \subseteq K
  PROVE  Spread(succ, from) \subseteq K
<1>1. PICK it : Spreading(it, succ, n, from) BY SpreadRuns
<1> DEFINE T == {k \in Nat : k <= n => it[k] \subseteq K}
<1>2. 0 \in T BY <1>1 DEF Spreading
<1>3. ASSUME NEW k \in Nat, k \in T PROVE k + 1 \in T
  <2> SUFFICES ASSUME k + 1 <= n PROVE it[k + 1] \subseteq K OBVIOUS
  <2>1. it[k] \subseteq K /\ k + 1 \in 1..n /\ (k + 1) - 1 = k /\ k \in 0..n BY <1>3
  <2>2. it[k + 1] = it[k] \cup UNION {succ[a] : a \in it[k]} /\ it[k] \subseteq 1..n
    BY <1>1, <2>1 DEF Spreading
  <2>3. \A a \in it[k] : succ[a] \subseteq K BY <2>1, <2>2
  <2> QED BY <2>1, <2>2, <2>3
<1> HIDE DEF T
<1>4. n \in T BY <1>2, <1>3, InductiveSet
<1> QED BY <1>1, <1>4 DEF T, Spreading

\* A set that has not stopped growing has a block more at every step: one step
\* per block is enough, and no edge leaves what is reached.
LEMMA SpreadClosed ==
  ASSUME NEW n \in Nat, NEW succ, Edges(succ, n), NEW from \in SUBSET (1..n)
  PROVE  /\ from \subseteq Spread(succ, from) /\ Spread(succ, from) \subseteq 1..n
         /\ \A b \in Spread(succ, from) : succ[b] \subseteq Spread(succ, from)
<1>1. PICK it : Spreading(it, succ, n, from) BY SpreadRuns
<1>2. n \in 0..n OBVIOUS
<1>3. from \subseteq it[n] /\ it[n] \subseteq 1..n /\ Spread(succ, from) = it[n]
  BY <1>1, <1>2 DEF Spreading
<1> DEFINE Heads(S) == UNION {succ[a] : a \in S}
           T == {k \in Nat : k <= n => Heads(it[k]) \subseteq it[k] \/ Cardinality(it[k]) >= k + 1}
<1>4. ASSUME NEW k \in 0..n
      PROVE  IsFiniteSet(it[k]) /\ Cardinality(it[k]) \in Nat /\ Cardinality(it[k]) <= n
  <2>1. IsFiniteSet(1..n) /\ Cardinality(1..n) = n BY FS_Interval
  <2>2. it[k] \in SUBSET (1..n) BY <1>1 DEF Spreading
  <2>3. IsFiniteSet(it[k]) /\ Cardinality(it[k]) <= n BY <2>1, <2>2, FS_Subset
  <2>4. Cardinality(it[k]) \in Nat BY <2>3, FS_CardinalityType
  <2> QED BY <2>3, <2>4
<1>5. 0 \in T
  <2>1. it[0] = from /\ 0 \in 0..n BY <1>1 DEF Spreading
  <2>2. CASE from = {} BY <2>1, <2>2
  <2>3. CASE from # {}
    <3>1. IsFiniteSet(it[0]) /\ Cardinality(it[0]) \in Nat BY <1>4, <2>1
    <3>2. Cardinality(it[0]) # 0 BY <2>1, <2>3, <3>1, FS_EmptySet
    <3> QED BY <3>1, <3>2
  <2> QED BY <2>2, <2>3
<1>6. ASSUME NEW k \in Nat, k \in T PROVE k + 1 \in T
  <2> SUFFICES ASSUME k + 1 <= n
               PROVE  Heads(it[k + 1]) \subseteq it[k + 1] \/ Cardinality(it[k + 1]) >= k + 2
    OBVIOUS
  <2>1. k \in 0..n /\ k + 1 \in 0..n /\ k + 1 \in 1..n /\ (k + 1) - 1 = k OBVIOUS
  <2>2. it[k + 1] = it[k] \cup Heads(it[k]) BY <1>1, <2>1 DEF Spreading
  <2> HIDE DEF Heads
  <2>3. CASE Heads(it[k]) \subseteq it[k]
    <3>1. it[k + 1] = it[k] BY <2>2, <2>3
    <3> QED BY <2>3, <3>1
  <2>4. CASE ~(Heads(it[k]) \subseteq it[k])
    <3>1. Cardinality(it[k]) >= k + 1 BY <1>6, <2>1, <2>4
    <3>2. it[k] \in SUBSET it[k + 1] /\ it[k] # it[k + 1] BY <2>2, <2>4
    <3>3. /\ IsFiniteSet(it[k + 1])
          /\ Cardinality(it[k]) \in Nat /\ Cardinality(it[k + 1]) \in Nat
      BY <1>4, <2>1
    <3>4. /\ Cardinality(it[k]) <= Cardinality(it[k + 1])
          /\ Cardinality(it[k + 1]) # Cardinality(it[k])
      BY <3>2, <3>3, FS_Subset
    <3> QED BY <3>1, <3>3, <3>4
  <2> QED BY <2>3, <2>4
<1> HIDE DEF T
<1>7. n \in T BY <1>5, <1>6, InductiveSet
<1>8. Heads(it[n]) \subseteq it[n]
  <2>1. ~(Cardinality(it[n]) >= n + 1) BY <1>2, <1>4
  <2> QED BY <1>7, <2>1 DEF T
<1> QED BY <1>3, <1>8

-----------------------------------------------------------------------------
(* The graph of a function *)

\* What WellFormed says of the graph.
LEMMA GraphFacts ==
  ASSUME NEW f, WellFormed(f)
  PROVE  /\ IsSeq(f.blocks) /\ Len(f.blocks) \in Nat /\ Blocks(f) = 1..Len(f.blocks)
         /\ f.entry \in Blocks(f) /\ f.exit \in Blocks(f)
         /\ \A b \in Blocks(f) : Succs(f, b) \subseteq Blocks(f)
         /\ NoBlock \notin Blocks(f)
<1>1. IsSeq(f.blocks) BY DEF WellFormed, IsSequence, IsSeq
<1>2. Len(f.blocks) \in Nat /\ Blocks(f) = 1..Len(f.blocks) BY <1>1, SeqFacts DEF Blocks
<1>3. \A b \in Blocks(f) : Succs(f, b) \subseteq Blocks(f)
  BY DEF WellFormed, TermAllowed, Succs
<1>4. NoBlock \notin Blocks(f) BY <1>2 DEF NoBlock
<1> QED BY <1>1, <1>2, <1>3, <1>4 DEF WellFormed

\* The blocks a set leads to: the least set that holds it and that no edge leaves.
LEMMA ReachFacts ==
  ASSUME NEW f, WellFormed(f), NEW from \in SUBSET Blocks(f)
  PROVE  /\ from \subseteq ReachFrom(f, from) /\ ReachFrom(f, from) \subseteq Blocks(f)
         /\ \A b \in ReachFrom(f, from) : Succs(f, b) \subseteq ReachFrom(f, from)
         /\ \A K : from \subseteq K /\ (\A b \in Blocks(f) : b \in K => Succs(f, b) \subseteq K)
                     => ReachFrom(f, from) \subseteq K
<1> DEFINE n == Len(f.blocks)
           succ == [b \in Blocks(f) |-> Succs(f, b)]
<1>1. n \in Nat /\ Blocks(f) = 1..n /\ \A b \in Blocks(f) : Succs(f, b) \subseteq Blocks(f)
  BY GraphFacts
<1>2. \A b \in 1..n : succ[b] = Succs(f, b) BY <1>1
<1>3. Edges(succ, n) BY <1>1 DEF Edges
<1>4. ReachFrom(f, from) = Spread(succ, from) BY DEF ReachFrom
<1> HIDE DEF n, succ
<1>5. /\ from \subseteq Spread(succ, from) /\ Spread(succ, from) \subseteq 1..n
      /\ \A b \in Spread(succ, from) : succ[b] \subseteq Spread(succ, from)
  BY <1>1, <1>3, SpreadClosed
<1>6. ASSUME NEW K, from \subseteq K, \A b \in Blocks(f) : b \in K => Succs(f, b) \subseteq K
      PROVE  Spread(succ, from) \subseteq K
  BY <1>1, <1>2, <1>3, <1>6, SpreadInside
<1> QED BY <1>1, <1>2, <1>4, <1>5, <1>6

\* The reached blocks.
LEMMA ReachedFacts ==
  ASSUME NEW f, WellFormed(f)
  PROVE  /\ f.entry \in Reached(f) /\ Reached(f) \subseteq Blocks(f)
         /\ \A b \in Reached(f) : Succs(f, b) \subseteq Reached(f)
         /\ \A K : f.entry \in K /\ (\A b \in Blocks(f) : b \in K => Succs(f, b) \subseteq K)
                     => Reached(f) \subseteq K
<1>1. {f.entry} \in SUBSET Blocks(f) BY GraphFacts
<1> QED BY <1>1, ReachFacts DEF Reached

\* A reached block other than the entry has a reached predecessor.
LEMMA ReachedPred ==
  ASSUME NEW f, WellFormed(f), NEW b \in Reached(f), b # f.entry
  PROVE  Preds(f, b) \cap Reached(f) # {}
<1> SUFFICES ASSUME Preds(f, b) \cap Reached(f) = {} PROVE FALSE
  OBVIOUS
<1> DEFINE K == Reached(f) \ {b}
<1>1. \A a \in K : Succs(f, a) \subseteq K BY ReachedFacts DEF Preds
<1>2. f.entry \in K BY ReachedFacts
<1>3. Reached(f) \subseteq K
  <2> HIDE DEF K
  <2> QED BY <1>1, <1>2, ReachedFacts
<1> QED BY <1>3

\* The blocks that a path from the entry reaches without going through a.
Avoiding(f, a) == Spread([c \in Blocks(f) |-> Succs(f, c) \ {a}], {f.entry} \ {a})

\* What can be reached without going through a.
LEMMA AvoidingFacts ==
  ASSUME NEW f, WellFormed(f), NEW a
  PROVE  /\ f.entry # a => f.entry \in Avoiding(f, a)
         /\ a \notin Avoiding(f, a) /\ Avoiding(f, a) \subseteq Reached(f)
         /\ \A b \in Avoiding(f, a) : Succs(f, b) \ {a} \subseteq Avoiding(f, a)
         /\ \A K : {f.entry} \ {a} \subseteq K
                     /\ (\A b \in Blocks(f) : b \in K => Succs(f, b) \ {a} \subseteq K)
                     => Avoiding(f, a) \subseteq K
<1> DEFINE n == Len(f.blocks)
           succ == [c \in Blocks(f) |-> Succs(f, c) \ {a}]
           from == {f.entry} \ {a}
<1>1. /\ n \in Nat /\ Blocks(f) = 1..n /\ f.entry \in Blocks(f)
      /\ \A b \in Blocks(f) : Succs(f, b) \subseteq Blocks(f)
  BY GraphFacts
<1>2. \A b \in 1..n : succ[b] = Succs(f, b) \ {a} BY <1>1
<1>3. Edges(succ, n) BY <1>1 DEF Edges
<1>4. Avoiding(f, a) = Spread(succ, from) BY DEF Avoiding
<1>5. from \in SUBSET (1..n) BY <1>1
<1> HIDE DEF n, succ, from
<1>6. /\ from \subseteq Spread(succ, from) /\ Spread(succ, from) \subseteq 1..n
      /\ \A b \in Spread(succ, from) : succ[b] \subseteq Spread(succ, from)
  BY <1>1, <1>3, <1>5, SpreadClosed
<1>7. ASSUME NEW K, from \subseteq K, \A b \in Blocks(f) : b \in K => Succs(f, b) \ {a} \subseteq K
      PROVE  Spread(succ, from) \subseteq K
  BY <1>1, <1>2, <1>3, <1>5, <1>7, SpreadInside
<1>8. Spread(succ, from) \subseteq Reached(f) \ {a}
  <2>1. from \subseteq Reached(f) \ {a} BY ReachedFacts DEF from
  <2>2. \A b \in Blocks(f) : b \in Reached(f) \ {a} => Succs(f, b) \ {a} \subseteq Reached(f) \ {a}
    BY ReachedFacts
  <2> QED BY <1>7, <2>1, <2>2
<1>9. \A b \in Spread(succ, from) : Succs(f, b) \ {a} \subseteq Spread(succ, from)
  BY <1>2, <1>6
<1> QED BY <1>4, <1>6, <1>7, <1>8, <1>9 DEF from

\* Dominance, for the function at hand.
LEMMA DominatesIs ==
  ASSUME NEW a, NEW b
  PROVE  Dominates(a, b) <=> b \notin Avoiding(fn, a)
BY DEF Dominates, Avoiding

\* A block dominates itself.
LEMMA DominatesSelf ==
  ASSUME WellFormed(fn), NEW b
  PROVE  Dominates(b, b)
BY DominatesIs, AvoidingFacts

\* What dominates the predecessors of a block dominates the block.
LEMMA DominatesJoin ==
  ASSUME WellFormed(fn), NEW a, NEW b \in Reached(fn), b # fn.entry,
         \A p \in Preds(fn, b) \cap Reached(fn) : Dominates(a, p)
  PROVE  Dominates(a, b)
<1> DEFINE K == Avoiding(fn, a) \ {b}
<1>1. \A p \in Preds(fn, b) \cap Reached(fn) : p \notin Avoiding(fn, a) BY DominatesIs
<1>2. ASSUME NEW c \in Blocks(fn), c \in K PROVE Succs(fn, c) \ {a} \subseteq K
  <2>1. c \in Reached(fn) /\ Succs(fn, c) \ {a} \subseteq Avoiding(fn, a) BY <1>2, AvoidingFacts
  <2>2. b \notin Succs(fn, c) BY <1>1, <1>2, <2>1 DEF Preds
  <2> QED BY <2>1, <2>2
<1>3. {fn.entry} \ {a} \subseteq K BY AvoidingFacts
<1>4. Avoiding(fn, a) \subseteq K
  <2> HIDE DEF K
  <2> QED BY <1>2, <1>3, AvoidingFacts
<1> QED BY <1>4, DominatesIs

\* The blocks that a path leads to on which no block before the last writes x.
LEMMA UndefinedFacts ==
  ASSUME WellFormed(fn), NEW x
  PROVE  /\ fn.entry \in StaysUndefined(x) /\ StaysUndefined(x) \subseteq Reached(fn)
         /\ \A b \in StaysUndefined(x) : ~Writes(b, x) => Succs(fn, b) \subseteq StaysUndefined(x)
         /\ \A b \in StaysUndefined(x) : b # fn.entry =>
              \E p \in Preds(fn, b) : p \in StaysUndefined(x) /\ ~Writes(p, x)
<1> DEFINE n == Len(fn.blocks)
           succ == [b \in Blocks(fn) |-> IF Writes(b, x) THEN {} ELSE Succs(fn, b)]
           from == {fn.entry}
<1>1. /\ n \in Nat /\ Blocks(fn) = 1..n /\ fn.entry \in Blocks(fn)
      /\ \A b \in Blocks(fn) : Succs(fn, b) \subseteq Blocks(fn)
  BY GraphFacts
<1>2. \A b \in 1..n : succ[b] = IF Writes(b, x) THEN {} ELSE Succs(fn, b) BY <1>1
<1>3. Edges(succ, n) BY <1>1 DEF Edges
<1>4. StaysUndefined(x) = Spread(succ, from) BY DEF StaysUndefined
<1>5. from \in SUBSET (1..n) BY <1>1
<1> DEFINE S == Spread(succ, from)
<1> HIDE DEF n, succ, from
<1>6. /\ from \subseteq S /\ S \subseteq 1..n
      /\ \A b \in S : succ[b] \subseteq S
  BY <1>1, <1>3, <1>5, SpreadClosed
<1>7. \A K : from \subseteq K /\ (\A b \in 1..n : b \in K => succ[b] \subseteq K) => S \subseteq K
  BY <1>1, <1>3, <1>5, SpreadInside
<1> HIDE DEF S
<1>8. S \subseteq Reached(fn)
  <2>1. from \subseteq Reached(fn) BY ReachedFacts DEF from
  <2>2. \A b \in 1..n : b \in Reached(fn) => succ[b] \subseteq Reached(fn) BY <1>2, ReachedFacts
  <2> QED BY <1>7, <2>1, <2>2
<1>9. ASSUME NEW b \in S, b # fn.entry
      PROVE  \E p \in Preds(fn, b) : p \in S /\ ~Writes(p, x)
  <2> SUFFICES ASSUME \A p \in Preds(fn, b) : p \in S => Writes(p, x) PROVE FALSE
    OBVIOUS
  <2> DEFINE K == S \ {b}
  <2>1. from \subseteq K BY <1>6, <1>9 DEF from
  <2>2. ASSUME NEW c \in 1..n, c \in K PROVE succ[c] \subseteq K
    <3>1. succ[c] \subseteq S BY <1>6, <2>2
    <3>2. b \notin succ[c]
      <4>1. CASE Writes(c, x) BY <1>2, <4>1
      <4>2. CASE ~Writes(c, x)
        <5>1. c \notin Preds(fn, b) BY <2>2, <4>2
        <5> QED BY <1>1, <1>2, <5>1 DEF Preds
      <4> QED BY <4>1, <4>2
    <3> QED BY <3>1, <3>2
  <2>3. S \subseteq K
    <3> HIDE DEF K
    <3> QED BY <1>7, <2>1, <2>2
  <2> QED BY <1>9, <2>3
<1>10. fn.entry \in S BY <1>6 DEF from
<1>11. \A b \in S : ~Writes(b, x) => Succs(fn, b) \subseteq S
  <2> TAKE b \in S
  <2> HAVE ~Writes(b, x)
  <2>1. b \in 1..n BY <1>6
  <2>2. succ[b] = Succs(fn, b) BY <1>2, <2>1
  <2> QED BY <1>6, <2>2
<1>12. StaysUndefined(x) = S BY <1>4 DEF S
<1> QED BY <1>8, <1>9, <1>10, <1>11, <1>12

-----------------------------------------------------------------------------
(* Orders *)

\* The elements of a finite set of numbers, each once.
LEMMA AscendingFacts ==
  ASSUME NEW S \in SUBSET Nat, IsFiniteSet(S)
  PROVE  /\ IsSeq(Ascending(S)) /\ ToSet(Ascending(S)) = S
         /\ Len(Ascending(S)) = Cardinality(S) /\ Cardinality(S) \in Nat
         /\ \A i, j \in 1..Cardinality(S) : Ascending(S)[i] = Ascending(S)[j] => i = j
<1> DEFINE c == Cardinality(S)
           below(x) == {y \in S : y < x}
           rank == [x \in S |-> Cardinality(below(x)) + 1]
           a == Ascending(S)
<1>1. c \in Nat BY FS_CardinalityType
<1>2. ASSUME NEW x \in S
      PROVE  IsFiniteSet(below(x)) /\ Cardinality(below(x)) \in Nat /\ rank[x] \in 1..c
  <2>1. below(x) \in SUBSET S /\ below(x) # S OBVIOUS
  <2>2. IsFiniteSet(below(x)) /\ Cardinality(below(x)) <= c /\ Cardinality(below(x)) # c
    <3> HIDE DEF below
    <3> QED BY <2>1, FS_Subset
  <2>3. Cardinality(below(x)) \in Nat BY <2>2, FS_CardinalityType
  <2> HIDE DEF below, c
  <2> QED BY <1>1, <2>2, <2>3
<1>3. ASSUME NEW x \in S, NEW y \in S, x < y PROVE rank[x] # rank[y]
  <2>1. x \in below(y) /\ x \notin below(x) BY <1>3
  <2>4. \A z \in below(x) : z \in below(y)
    <3> TAKE z \in below(x)
    <3>1. z \in S /\ z < x /\ z \in Nat /\ x \in Nat /\ y \in Nat OBVIOUS
    <3>2. z < y BY <1>3, <3>1
    <3> QED BY <3>1, <3>2
  <2>2. Cardinality(below(x)) # Cardinality(below(y))
    <3> HIDE DEF below
    <3>1. below(x) \in SUBSET below(y) /\ below(x) # below(y) BY <2>1, <2>4
    <3> QED BY <1>2, <3>1, FS_Subset
  <2>3. Cardinality(below(x)) \in Nat /\ Cardinality(below(y)) \in Nat BY <1>2
  <2> HIDE DEF below
  <2> QED BY <2>2, <2>3
<1>4. \A x, y \in S : rank[x] = rank[y] => x = y
  <2>1. \A x, y \in Nat : x < y \/ y < x \/ x = y OBVIOUS
  <2> HIDE DEF rank
  <2> QED BY <1>3, <2>1
<1>5. rank \in [S -> 1..c] BY <1>2
<1>6. \A i \in 1..c : a[i] = CHOOSE x \in S : Cardinality(below(x)) = i - 1 BY DEF Ascending
<1>7. a = [i \in 1..c |-> a[i]]
  <2> DEFINE nth(i) == CHOOSE x \in S : Cardinality(below(x)) = i - 1
  <2>1. a = [i \in 1..c |-> nth(i)] BY DEF Ascending
  <2> HIDE DEF nth, a
  <2> QED BY <2>1
<1> HIDE DEF a
<1>8. ASSUME NEW i \in 1..c, NEW x \in S
      PROVE  Cardinality(below(x)) = i - 1 <=> rank[x] = i
  <2>1. Cardinality(below(x)) \in Nat BY <1>2
  <2>2. rank[x] = Cardinality(below(x)) + 1 OBVIOUS
  <2>3. i \in Nat OBVIOUS
  <2> HIDE DEF below, rank
  <2> QED BY <2>1, <2>2, <2>3
<1>9. \A i \in 1..c : \E x \in S : rank[x] = i
  <2> HIDE DEF rank, c
  <2>1. rank \in Injection(S, 1..c) BY <1>4, <1>5 DEF Injection, IsInjective
  <2>2. IsFiniteSet(1..c) /\ Cardinality(1..c) = c BY <1>1, FS_Interval
  <2>3. rank \in Surjection(S, 1..c) BY <2>1, <2>2, FS_Injection DEF c
  <2> QED BY <2>3 DEF Surjection
<1>10. ASSUME NEW i \in 1..c PROVE a[i] \in S /\ rank[a[i]] = i
  <2> HIDE DEF below, rank
  <2>1. \E x \in S : Cardinality(below(x)) = i - 1 BY <1>8, <1>9
  <2>2. a[i] \in S /\ Cardinality(below(a[i])) = i - 1 BY <1>6, <2>1
  <2> QED BY <1>8, <2>2
<1> HIDE DEF below, rank
<1>11. \A i, j \in 1..c : a[i] = a[j] => i = j BY <1>10
<1>12. ASSUME NEW x \in S PROVE \E i \in 1..c : a[i] = x
  <2>1. rank[x] \in 1..c BY <1>5
  <2>2. a[rank[x]] \in S /\ rank[a[rank[x]]] = rank[x] BY <1>10, <2>1
  <2>3. a[rank[x]] = x BY <1>4, <2>2
  <2> QED BY <2>1, <2>3
<1>13. IsSeq(a) /\ Len(a) = c BY <1>1, <1>7, SeqIs
<1>14. ToSet(a) = {a[i] : i \in 1..c} BY <1>13, SeqFacts
<1>15. ToSet(a) = S BY <1>10, <1>12, <1>14
<1> QED BY <1>1, <1>11, <1>13, <1>15 DEF a, c

\* The sequence with one element in front.
LEMMA ConsFacts ==
  ASSUME NEW x, NEW s, IsSeq(s)
  PROVE  LET t == <<x>> \o s
         IN  /\ IsSeq(t) /\ Len(t) = Len(s) + 1 /\ Len(s) \in Nat /\ t # <<>>
             /\ t[1] = x /\ Head(t) = x /\ ToSet(t) = {x} \cup ToSet(s)
             /\ \A i \in 1..Len(s) : t[i + 1] = s[i]
<1> DEFINE t == <<x>> \o s
<1>1. IsSeq(<< x >>) /\ Len(<< x >>) = 1 /\ << x >>[1] = x BY SingleFacts
<1>2. /\ IsSeq(t) /\ Len(t) = 1 + Len(s) /\ t[1] = x
      /\ \A i \in 1..Len(s) : t[1 + i] = s[i]
  BY <1>1, ConcatFacts
<1>3. Len(s) \in Nat BY SeqFacts
<1> HIDE DEF t
<1>4. t # <<>> BY <1>2, <1>3, SeqFacts
<1>5. Head(t) = x BY <1>2, <1>4, TailFacts
<1>6. ToSet(t) = {t[i] : i \in 1..Len(t)} /\ ToSet(s) = {s[i] : i \in 1..Len(s)} BY <1>2, SeqFacts
<1>7. \A i \in 1..Len(s) : t[i + 1] = s[i] BY <1>2, <1>3
<1>8. Len(t) = Len(s) + 1 BY <1>2, <1>3
<1>9. ToSet(t) \subseteq {x} \cup ToSet(s)
  <2> SUFFICES ASSUME NEW i \in 1..Len(t) PROVE t[i] \in {x} \cup ToSet(s)
    BY <1>6
  <2>1. CASE i = 1 BY <1>2, <2>1
  <2>2. CASE i # 1
    <3>1. i - 1 \in 1..Len(s) /\ (i - 1) + 1 = i BY <1>3, <1>8, <2>2
    <3> QED BY <1>6, <1>7, <3>1
  <2> QED BY <2>1, <2>2
<1>10. {x} \cup ToSet(s) \subseteq ToSet(t)
  <2>1. x \in ToSet(t)
    <3>1. 1 \in 1..Len(t) BY <1>3, <1>8
    <3> QED BY <1>2, <1>6, <3>1
  <2>2. ASSUME NEW i \in 1..Len(s) PROVE s[i] \in ToSet(t)
    <3>1. i + 1 \in 1..Len(t) BY <1>3, <1>8
    <3> QED BY <1>6, <1>7, <3>1
  <2> QED BY <1>6, <2>1, <2>2
<1> QED BY <1>2, <1>3, <1>4, <1>5, <1>7, <1>8, <1>9, <1>10 DEF t

-----------------------------------------------------------------------------
(* The depth-first search *)

\* The calls on the stack lead to each other, the innermost first; what has
\* returned leads only to what returned before it.
Searching(d) ==
  /\ d = [stack |-> d.stack, order |-> d.order]
  /\ IsSeq(d.stack) /\ ToSet(d.stack) \subseteq Reached(fn)
  /\ IsSeq(d.order) /\ ToSet(d.order) \subseteq Reached(fn)
  /\ ToSet(d.stack) \cap ToSet(d.order) = {}
  /\ \A j \in 1..Len(d.stack) : \A i \in 1..(j - 1) :
       d.stack[i] \in ReachFrom(fn, Succs(fn, d.stack[j]))
  /\ \A i, j \in 1..Len(d.order) : d.order[i] = d.order[j] => i = j
  /\ \A i \in 1..Len(d.order) : \A b \in Succs(fn, d.order[i]) :
       \E j \in (i + 1)..Len(d.order) : d.order[j] = b
  /\ fn.entry \in ToSet(d.stack) \cup ToSet(d.order)

\* Every step before the last return is a call or a return.
Counted(d, k) == d.stack # <<>> => 2 * Len(d.order) + Len(d.stack) = k + 1

\* No call is on the stack twice.
LEMMA StackDistinct ==
  ASSUME WellFormed(fn), ~Cyclic(fn), NEW d, Searching(d)
  PROVE  \A i, j \in 1..Len(d.stack) : d.stack[i] = d.stack[j] => i = j
<1> SUFFICES ASSUME NEW i \in 1..Len(d.stack), NEW j \in 1..Len(d.stack), i < j, d.stack[i] = d.stack[j]
             PROVE  FALSE
  <2>1. Len(d.stack) \in Nat BY SeqFacts DEF Searching
  <2>2. \A i, j \in 1..Len(d.stack) : i < j \/ j < i \/ i = j BY <2>1
  <2> QED BY <2>2
<1>1. Len(d.stack) \in Nat BY SeqFacts DEF Searching
<1>2. i \in 1..(j - 1) BY <1>1
<1>3. d.stack[j] \in ReachFrom(fn, Succs(fn, d.stack[j])) BY <1>2 DEF Searching
<1>4. d.stack[j] \in Reached(fn)
  <2>1. ToSet(d.stack) = {d.stack[l] : l \in 1..Len(d.stack)} BY SeqFacts DEF Searching
  <2> QED BY <2>1 DEF Searching
<1> QED BY <1>3, <1>4 DEF Cyclic

\* The search starts at the entry.
LEMMA SearchStarts ==
  ASSUME WellFormed(fn)
  PROVE  LET d == [stack |-> <<fn.entry>>, order |-> <<>>] IN Searching(d) /\ Counted(d, 0)
<1> DEFINE e == fn.entry
           d == [stack |-> <<e>>, order |-> <<>>]
<1>1. d.stack = <<e>> /\ d.order = <<>> /\ d = [stack |-> d.stack, order |-> d.order] OBVIOUS
<1>2. IsSeq(d.stack) /\ Len(d.stack) = 1 /\ ToSet(d.stack) = {e} BY <1>1, SingleFacts
<1>3. IsSeq(d.order) /\ Len(d.order) = 0 /\ ToSet(d.order) = {} BY <1>1, EmptyFacts
<1>4. e \in Reached(fn) BY ReachedFacts
<1> HIDE DEF d, e
<1>5. 1..0 = {} /\ \A j \in 1..1 : 1..(j - 1) = {} OBVIOUS
<1>6. Searching(d) BY <1>1, <1>2, <1>3, <1>4, <1>5 DEF Searching, e
<1>7. Counted(d, 0) BY <1>2, <1>3 DEF Counted
<1> QED BY <1>6, <1>7 DEF d, e

\* A step that calls the first successor that has not returned.
LEMMA SearchCalls ==
  ASSUME WellFormed(fn), ~Cyclic(fn), NEW d, Searching(d), NEW k \in Nat, Counted(d, k),
         d.stack # <<>>, NEW m, m \in Succs(fn, Head(d.stack)) \ ToSet(d.order)
  PROVE  LET e == [d EXCEPT !.stack = <<m>> \o @] IN Searching(e) /\ Counted(e, k + 1)
<1> DEFINE e == [d EXCEPT !.stack = <<m>> \o @]
           s == d.stack
           o == d.order
           t == <<m>> \o s
           R == Reached(fn)
<1>0. d = [stack |-> s, order |-> o] BY DEF Searching
<1>1. e = [stack |-> t, order |-> o]
  <2>1. \A x, y, z : [[stack |-> x, order |-> y] EXCEPT !.stack = z] = [stack |-> z, order |-> y]
    OBVIOUS
  <2>2. e = [d EXCEPT !.stack = t] OBVIOUS
  <2> HIDE DEF t, s, o, e
  <2>3. [[stack |-> s, order |-> o] EXCEPT !.stack = t] = [stack |-> t, order |-> o] BY <2>1
  <2> QED BY <1>0, <2>2, <2>3
<1>2. e.stack = t /\ e.order = o BY <1>1
<1>3. /\ IsSeq(s) /\ ToSet(s) \subseteq R /\ IsSeq(o) /\ ToSet(o) \subseteq R
      /\ ToSet(s) \cap ToSet(o) = {}
      /\ \A j \in 1..Len(s) : \A i \in 1..(j - 1) : s[i] \in ReachFrom(fn, Succs(fn, s[j]))
      /\ \A i, j \in 1..Len(o) : o[i] = o[j] => i = j
      /\ \A i \in 1..Len(o) : \A b \in Succs(fn, o[i]) : \E j \in (i + 1)..Len(o) : o[j] = b
      /\ fn.entry \in ToSet(s) \cup ToSet(o)
      /\ 2 * Len(o) + Len(s) = k + 1
  BY DEF Searching, Counted
<1>4. /\ IsSeq(t) /\ Len(t) = Len(s) + 1 /\ Len(s) \in Nat /\ t # <<>> /\ t[1] = m
      /\ ToSet(t) = {m} \cup ToSet(s) /\ \A i \in 1..Len(s) : t[i + 1] = s[i]
  BY <1>3, ConsFacts
<1>5. Head(s) = s[1] /\ Len(s) \in Nat \ {0} BY <1>3, TailFacts
<1>6. m \in Succs(fn, s[1]) /\ m \notin ToSet(o) BY <1>5
<1>7. 1 \in 1..Len(s) /\ \A j \in 1..Len(s) : s[j] \in R
  <2>1. ToSet(s) = {s[j] : j \in 1..Len(s)} BY <1>3, SeqFacts
  <2> QED BY <1>3, <1>5, <2>1
<1>8. m \in R BY <1>6, <1>7, ReachedFacts
<1> HIDE DEF e, s, o, t
<1>9. ASSUME NEW j \in 1..Len(s) PROVE m \in ReachFrom(fn, Succs(fn, s[j]))
  <2>1. Succs(fn, s[j]) \in SUBSET Blocks(fn) BY <1>7, ReachedFacts, GraphFacts
  <2>2. /\ Succs(fn, s[j]) \subseteq ReachFrom(fn, Succs(fn, s[j]))
        /\ \A b \in ReachFrom(fn, Succs(fn, s[j])) :
             Succs(fn, b) \subseteq ReachFrom(fn, Succs(fn, s[j]))
    BY <2>1, ReachFacts
  <2>3. CASE j = 1 BY <1>6, <2>2, <2>3
  <2>4. CASE j # 1
    <3>1. 1 \in 1..(j - 1) BY <1>4, <2>4
    <3>2. s[1] \in ReachFrom(fn, Succs(fn, s[j])) BY <1>3, <3>1
    <3> QED BY <1>6, <2>2, <3>2
  <2> QED BY <2>3, <2>4
<1>10. ASSUME NEW j \in 1..Len(t), NEW i \in 1..(j - 1)
       PROVE  t[i] \in ReachFrom(fn, Succs(fn, t[j]))
  <2>1. j - 1 \in 1..Len(s) /\ (j - 1) + 1 = j BY <1>4
  <2>2. t[j] = s[j - 1] BY <1>4, <2>1
  <2>3. CASE i = 1 BY <1>4, <1>9, <2>1, <2>2, <2>3
  <2>4. CASE i # 1
    <3>1. i - 1 \in 1..((j - 1) - 1) /\ i - 1 \in 1..Len(s) /\ (i - 1) + 1 = i BY <1>4, <2>4
    <3>2. t[i] = s[i - 1] BY <1>4, <3>1
    <3> QED BY <1>3, <2>1, <2>2, <3>1, <3>2
  <2> QED BY <2>3, <2>4
<1>11. ToSet(t) \subseteq R /\ ToSet(t) \cap ToSet(o) = {} /\ fn.entry \in ToSet(t) \cup ToSet(o)
  BY <1>3, <1>4, <1>6, <1>8
<1>12. e = [stack |-> e.stack, order |-> e.order] BY <1>1, <1>2
<1>13. Searching(e) BY <1>2, <1>3, <1>4, <1>10, <1>11, <1>12 DEF Searching
<1>14. Counted(e, k + 1)
  <2>1. Len(o) \in Nat BY <1>3, SeqFacts
  <2>2. 2 * Len(o) + (Len(s) + 1) = (k + 1) + 1 BY <1>3, <1>4, <2>1
  <2> QED BY <1>2, <1>4, <2>2 DEF Counted
<1> QED BY <1>13, <1>14 DEF e, s

\* A step that returns from a block whose successors have all returned.
LEMMA SearchReturns ==
  ASSUME WellFormed(fn), ~Cyclic(fn), NEW d, Searching(d), NEW k \in Nat, Counted(d, k),
         d.stack # <<>>, Succs(fn, Head(d.stack)) \subseteq ToSet(d.order)
  PROVE  LET e == [stack |-> Tail(d.stack), order |-> <<Head(d.stack)>> \o d.order]
         IN  Searching(e) /\ Counted(e, k + 1)
<1> DEFINE s == d.stack
           o == d.order
           h == Head(s)
           t == Tail(s)
           p == <<h>> \o o
           e == [stack |-> t, order |-> p]
           R == Reached(fn)
<1>1. e.stack = t /\ e.order = p /\ e = [stack |-> e.stack, order |-> e.order] OBVIOUS
<1>3. /\ IsSeq(s) /\ ToSet(s) \subseteq R /\ IsSeq(o) /\ ToSet(o) \subseteq R
      /\ ToSet(s) \cap ToSet(o) = {}
      /\ \A j \in 1..Len(s) : \A i \in 1..(j - 1) : s[i] \in ReachFrom(fn, Succs(fn, s[j]))
      /\ \A i, j \in 1..Len(o) : o[i] = o[j] => i = j
      /\ \A i \in 1..Len(o) : \A b \in Succs(fn, o[i]) : \E j \in (i + 1)..Len(o) : o[j] = b
      /\ fn.entry \in ToSet(s) \cup ToSet(o)
      /\ 2 * Len(o) + Len(s) = k + 1
  BY DEF Searching, Counted
<1>4. /\ IsSeq(t) /\ Len(s) \in Nat \ {0} /\ Len(t) = Len(s) - 1 /\ h = s[1]
      /\ \A i \in 1..(Len(s) - 1) : t[i] = s[i + 1]
  BY <1>3, TailFacts
<1>5. /\ IsSeq(p) /\ Len(p) = Len(o) + 1 /\ Len(o) \in Nat /\ p[1] = h
      /\ ToSet(p) = {h} \cup ToSet(o) /\ \A i \in 1..Len(o) : p[i + 1] = o[i]
  BY <1>3, ConsFacts
<1>6. ToSet(s) = {s[j] : j \in 1..Len(s)} /\ ToSet(o) = {o[j] : j \in 1..Len(o)}
      /\ ToSet(t) = {t[j] : j \in 1..Len(t)}
  BY <1>3, <1>4, SeqFacts
<1>7. \A i, j \in 1..Len(s) : s[i] = s[j] => i = j BY StackDistinct
<1>8. Succs(fn, h) \subseteq ToSet(o) OBVIOUS
<1> HIDE DEF e, s, o, t, p, h
<1>9. h \in R /\ h \notin ToSet(o) /\ h \in ToSet(s)
  <2>1. 1 \in 1..Len(s) BY <1>4
  <2> QED BY <1>3, <1>4, <1>6, <2>1
<1>10. \A i \in 1..Len(t) : i + 1 \in 1..Len(s) /\ t[i] = s[i + 1] BY <1>4
<1>11. ToSet(t) \subseteq ToSet(s) /\ h \notin ToSet(t)
  <2>1. ToSet(t) \subseteq ToSet(s) BY <1>6, <1>10
  <2>2. ASSUME NEW i \in 1..Len(t) PROVE t[i] # h
    <3>1. 1 \in 1..Len(s) /\ i + 1 # 1 BY <1>4
    <3> QED BY <1>4, <1>7, <1>10, <3>1
  <2> QED BY <1>6, <2>1, <2>2
<1>12. ToSet(s) \subseteq ToSet(t) \cup {h}
  <2> SUFFICES ASSUME NEW i \in 1..Len(s), i # 1 PROVE s[i] \in ToSet(t)
    BY <1>4, <1>6
  <2>1. i - 1 \in 1..Len(t) /\ i - 1 \in 1..(Len(s) - 1) /\ (i - 1) + 1 = i BY <1>4
  <2> QED BY <1>4, <1>6, <2>1
<1>13. ASSUME NEW j \in 1..Len(t), NEW i \in 1..(j - 1)
       PROVE  t[i] \in ReachFrom(fn, Succs(fn, t[j]))
  <2>1. j + 1 \in 1..Len(s) /\ i + 1 \in 1..((j + 1) - 1) /\ i \in 1..Len(t) BY <1>4
  <2> QED BY <1>3, <1>10, <2>1
<1>14. ASSUME NEW i \in 1..Len(p), NEW j \in 1..Len(p), p[i] = p[j], i # 1 PROVE i = j
  <2>1. i - 1 \in 1..Len(o) /\ (i - 1) + 1 = i BY <1>5, <1>14
  <2>2. p[i] = o[i - 1] /\ p[i] \in ToSet(o) BY <1>5, <1>6, <2>1
  <2>3. j # 1 BY <1>5, <1>9, <1>14, <2>2
  <2>4. j - 1 \in 1..Len(o) /\ (j - 1) + 1 = j BY <1>5, <2>3
  <2>5. p[j] = o[j - 1] BY <1>5, <2>4
  <2>6. i - 1 = j - 1 BY <1>3, <1>14, <2>1, <2>2, <2>4, <2>5
  <2> QED BY <2>1, <2>4, <2>6
<1>15. \A i, j \in 1..Len(p) : p[i] = p[j] => i = j BY <1>14
<1>16. ASSUME NEW i \in 1..Len(p), NEW b \in Succs(fn, p[i])
       PROVE  \E j \in (i + 1)..Len(p) : p[j] = b
  <2>1. CASE i = 1
    <3>1. b \in ToSet(o) BY <1>5, <1>8, <2>1
    <3>2. PICK j \in 1..Len(o) : o[j] = b BY <1>6, <3>1
    <3>3. j + 1 \in (i + 1)..Len(p) BY <1>5, <2>1
    <3> QED BY <1>5, <3>2, <3>3
  <2>2. CASE i # 1
    <3>1. i - 1 \in 1..Len(o) /\ (i - 1) + 1 = i BY <1>5, <2>2
    <3>2. p[i] = o[i - 1] BY <1>5, <3>1
    <3>3. PICK j \in ((i - 1) + 1)..Len(o) : o[j] = b BY <1>3, <3>1, <3>2
    <3>4. j \in 1..Len(o) /\ j + 1 \in (i + 1)..Len(p) BY <1>5, <3>1
    <3> QED BY <1>5, <3>3, <3>4
  <2> QED BY <2>1, <2>2
<1>17. /\ ToSet(t) \subseteq R /\ ToSet(p) \subseteq R
       /\ ToSet(t) \cap ToSet(p) = {} /\ fn.entry \in ToSet(t) \cup ToSet(p)
  BY <1>3, <1>5, <1>9, <1>11, <1>12
<1>18. Searching(e) BY <1>1, <1>4, <1>5, <1>13, <1>15, <1>16, <1>17 DEF Searching
<1>19. Counted(e, k + 1)
  <2>1. 2 * (Len(o) + 1) + (Len(s) - 1) = (k + 1) + 1 BY <1>3, <1>4, <1>5
  <2> QED BY <1>1, <1>4, <1>5, <2>1 DEF Counted
<1> QED BY <1>18, <1>19 DEF e, s, o, t, p, h

\* A step of the search.
LEMMA SearchSteps ==
  ASSUME WellFormed(fn), ~Cyclic(fn), NEW d, Searching(d), NEW k \in Nat, Counted(d, k), NEW x
  PROVE  Searching(DfsStep(d, x)) /\ Counted(DfsStep(d, x), k + 1)
<1> DEFINE open == Succs(fn, Head(d.stack)) \ ToSet(d.order)
<1>1. CASE d.stack = <<>>
  <2>1. DfsStep(d, x) = d BY <1>1 DEF DfsStep
  <2> QED BY <1>1, <2>1 DEF Counted
<1>2. CASE d.stack # <<>> /\ open = {}
  <2>1. DfsStep(d, x) = [stack |-> Tail(d.stack), order |-> <<Head(d.stack)>> \o d.order]
    BY <1>2 DEF DfsStep
  <2>2. Succs(fn, Head(d.stack)) \subseteq ToSet(d.order) BY <1>2
  <2> QED BY <1>2, <2>1, <2>2, SearchReturns
<1>3. CASE d.stack # <<>> /\ open # {}
  <2> DEFINE m == Min(open)
  <2>1. DfsStep(d, x) = [d EXCEPT !.stack = <<m>> \o @] BY <1>3 DEF DfsStep
  <2>2. open \in SUBSET Nat
    <3>1. Head(d.stack) \in Reached(fn)
      <4>1. IsSeq(d.stack) /\ ToSet(d.stack) \subseteq Reached(fn) BY DEF Searching
      <4>2. Head(d.stack) = d.stack[1] /\ Len(d.stack) \in Nat \ {0} BY <1>3, <4>1, TailFacts
      <4>3. ToSet(d.stack) = {d.stack[i] : i \in 1..Len(d.stack)} BY <4>1, SeqFacts
      <4>4. 1 \in 1..Len(d.stack) BY <4>2
      <4> QED BY <4>1, <4>2, <4>3, <4>4
    <3>2. Succs(fn, Head(d.stack)) \subseteq Blocks(fn) BY <3>1, ReachedFacts, GraphFacts
    <3>3. Blocks(fn) \subseteq Nat BY GraphFacts
    <3> QED BY <3>2, <3>3
  <2> HIDE DEF open
  <2>3. m \in open BY <1>3, <2>2, MinIsLeast
  <2> HIDE DEF m
  <2>4. m \in Succs(fn, Head(d.stack)) \ ToSet(d.order) BY <2>3 DEF open
  <2> DEFINE e == [d EXCEPT !.stack = <<m>> \o @]
  <2>5. Searching(e) /\ Counted(e, k + 1) BY <1>3, <2>4, SearchCalls
  <2> HIDE DEF e
  <2>6. DfsStep(d, x) = e BY <2>1 DEF e
  <2> QED BY <2>5, <2>6
<1> QED BY <1>1, <1>2, <1>3

\* A sequence without repetition is no longer than a set that holds it.
LEMMA DistinctBound ==
  ASSUME NEW n \in Nat, NEW l \in Nat, NEW g \in [1..l -> 1..n],
         \A i, j \in 1..l : g[i] = g[j] => i = j
  PROVE  l <= n
<1>1. g \in Injection(1..l, 1..n) BY DEF Injection, IsInjective
<1>2. IsFiniteSet(1..n) /\ Cardinality(1..n) = n /\ Cardinality(1..l) = l BY FS_Interval
<1> QED BY <1>1, <1>2, FS_Injection

\* The blocks on the stack and those that have returned are no more than there are.
LEMMA SearchBound ==
  ASSUME WellFormed(fn), ~Cyclic(fn), NEW d, Searching(d)
  PROVE  /\ Len(d.order) \in Nat /\ Len(d.stack) \in Nat
         /\ Len(d.order) + Len(d.stack) <= Len(fn.blocks)
<1> DEFINE s == d.stack
           o == d.order
           n == Len(fn.blocks)
           l == Len(o) + Len(s)
           g == [i \in 1..l |-> IF i <= Len(o) THEN o[i] ELSE s[i - Len(o)]]
<1>1. IsSeq(s) /\ IsSeq(o) BY DEF Searching
<1>2. Len(s) \in Nat /\ Len(o) \in Nat BY <1>1, SeqFacts
<1>3. ToSet(s) = {s[j] : j \in 1..Len(s)} /\ ToSet(o) = {o[j] : j \in 1..Len(o)}
  BY <1>1, SeqFacts
<1>4. n \in Nat /\ Reached(fn) \subseteq 1..n BY GraphFacts, ReachedFacts
<1>5. /\ ToSet(s) \subseteq 1..n /\ ToSet(o) \subseteq 1..n /\ ToSet(s) \cap ToSet(o) = {}
      /\ \A i, j \in 1..Len(o) : o[i] = o[j] => i = j
  BY <1>4 DEF Searching
<1>6. \A i, j \in 1..Len(s) : s[i] = s[j] => i = j BY StackDistinct
<1> HIDE DEF s, o, n
<1>7. l \in Nat BY <1>2
<1>8. \A i \in 1..l : (i <= Len(o) /\ i \in 1..Len(o)) \/ (i > Len(o) /\ i - Len(o) \in 1..Len(s))
  BY <1>2
<1>9. ASSUME NEW i \in 1..l PROVE g[i] \in 1..n
  <2>1. CASE i <= Len(o) BY <1>2, <1>3, <1>5, <1>8, <2>1
  <2>2. CASE i > Len(o)
    <3>1. g[i] = s[i - Len(o)] /\ i - Len(o) \in 1..Len(s) BY <1>2, <1>8, <2>2
    <3> QED BY <1>3, <1>5, <3>1
  <2> QED BY <1>2, <1>8, <2>1, <2>2
<1>10. ASSUME NEW i \in 1..l, NEW j \in 1..l, g[i] = g[j] PROVE i = j
  <2>1. \A a \in 1..l : a <= Len(o) => g[a] = o[a] /\ a \in 1..Len(o) /\ g[a] \in ToSet(o)
    BY <1>2, <1>3, <1>8
  <2>2. \A a \in 1..l : a > Len(o) =>
          g[a] = s[a - Len(o)] /\ a - Len(o) \in 1..Len(s) /\ g[a] \in ToSet(s)
    BY <1>2, <1>3, <1>8
  <2> HIDE DEF g
  <2>3. CASE i <= Len(o) /\ j <= Len(o) BY <1>5, <1>10, <2>1, <2>3
  <2>4. CASE i > Len(o) /\ j > Len(o)
    <3>1. i - Len(o) = j - Len(o) BY <1>6, <1>10, <2>2, <2>4
    <3> QED BY <1>2, <3>1
  <2>5. ~(i <= Len(o) /\ j > Len(o)) /\ ~(i > Len(o) /\ j <= Len(o))
    BY <1>5, <1>10, <2>1, <2>2
  <2> QED BY <1>8, <2>3, <2>4, <2>5
<1>11. g \in [1..l -> 1..n] BY <1>9
<1> HIDE DEF g
<1>12. l <= n
  <2> HIDE DEF l
  <2> QED BY <1>4, <1>7, <1>10, <1>11, DistinctBound
<1> QED BY <1>2, <1>12 DEF s, o, n

\* The blocks that are still to visit: each before all it leads to.
Forward(order) ==
  /\ IsSeq(order) /\ ToSet(order) \subseteq Reached(fn)
  /\ \A i, j \in 1..Len(order) : order[i] = order[j] => i = j
  /\ \A i \in 1..Len(order) : \A j \in i..Len(order) : order[i] \notin Succs(fn, order[j])

\* The order of analyzeCFG holds every reached block, before all it leads to.
LEMMA OrderFacts ==
  ASSUME WellFormed(fn), ~Cyclic(fn)
  PROVE  Forward(TopologicalOrder) /\ ToSet(TopologicalOrder) = Reached(fn)
<1> DEFINE base == [stack |-> <<fn.entry>>, order |-> <<>>]
           seq == fn.blocks \o fn.blocks
           n == Len(fn.blocks)
<1>1. IsSeq(fn.blocks) /\ n \in Nat BY GraphFacts
<1>2. IsSeq(seq) /\ Len(seq) = n + n BY <1>1, ConcatFacts
<1>3. DOMAIN seq = 1..(n + n) BY <1>2, SeqFacts
<1>4. TopologicalOrder = FoldLeft(DfsStep, base, seq).order BY DEF TopologicalOrder
<1>5. Searching(base) /\ Counted(base, 0) BY SearchStarts
<1> HIDE DEF base, seq, n
<1>6. n + n \in Nat BY <1>1
<1>7. PICK it : DfsSteps!Steps(it, base, seq, n + n) /\ FoldLeft(DfsStep, base, seq) = it[n + n]
  BY <1>3, <1>6, DfsFold
<1>8. it[0] = base /\ \A k \in 1..(n + n) : it[k] = DfsStep(it[k - 1], seq[k])
  BY <1>7 DEF DfsSteps!Steps
<1> DEFINE T == {k \in Nat : k <= n + n => Searching(it[k]) /\ Counted(it[k], k)}
<1>9. 0 \in T BY <1>5, <1>8
<1>10. ASSUME NEW k \in Nat, k \in T PROVE k + 1 \in T
  <2> SUFFICES ASSUME k + 1 <= n + n PROVE Searching(it[k + 1]) /\ Counted(it[k + 1], k + 1)
    OBVIOUS
  <2>1. Searching(it[k]) /\ Counted(it[k], k) BY <1>1, <1>10
  <2>2. k + 1 \in 1..(n + n) /\ (k + 1) - 1 = k BY <1>1
  <2>3. it[k + 1] = DfsStep(it[k], seq[k + 1]) BY <1>8, <2>2
  <2> QED BY <2>1, <2>3, SearchSteps
<1> HIDE DEF T
<1>11. n + n \in T BY <1>6, <1>9, <1>10, InductiveSet
<1> DEFINE d == it[n + n]
<1>12. Searching(d) /\ Counted(d, n + n) BY <1>6, <1>11 DEF T
<1>13. TopologicalOrder = d.order BY <1>4, <1>7
<1> HIDE DEF d
<1>14. d.stack = <<>>
  <2> SUFFICES ASSUME d.stack # <<>> PROVE FALSE OBVIOUS
  <2>1. 2 * Len(d.order) + Len(d.stack) = (n + n) + 1 BY <1>12 DEF Counted
  <2>2. /\ Len(d.order) \in Nat /\ Len(d.stack) \in Nat
        /\ Len(d.order) + Len(d.stack) <= n
    BY <1>12, SearchBound DEF n
  <2>3. Len(d.stack) # 0
    <3>1. IsSeq(d.stack) BY <1>12 DEF Searching
    <3> QED BY <3>1, SeqFacts
  <2>4. \A a, b \in Nat : 2 * a + b = (n + n) + 1 /\ a + b <= n /\ b # 0 => FALSE
    BY <1>1
  <2> QED BY <2>1, <2>2, <2>3, <2>4
<1> DEFINE o == d.order
<1>15. /\ IsSeq(o) /\ ToSet(o) \subseteq Reached(fn)
       /\ \A i, j \in 1..Len(o) : o[i] = o[j] => i = j
       /\ \A i \in 1..Len(o) : \A b \in Succs(fn, o[i]) : \E j \in (i + 1)..Len(o) : o[j] = b
       /\ fn.entry \in ToSet(o)
  BY <1>12, <1>14, EmptyFacts DEF Searching
<1> HIDE DEF o
<1>16. ToSet(o) = {o[j] : j \in 1..Len(o)} /\ Len(o) \in Nat BY <1>15, SeqFacts
<1>17. ASSUME NEW b \in Blocks(fn), b \in ToSet(o) PROVE Succs(fn, b) \subseteq ToSet(o)
  <2>1. PICK i \in 1..Len(o) : o[i] = b BY <1>16, <1>17
  <2>2. ASSUME NEW c \in Succs(fn, b) PROVE c \in ToSet(o)
    <3>1. PICK j \in (i + 1)..Len(o) : o[j] = c BY <1>15, <2>1
    <3>2. j \in 1..Len(o) BY <1>16
    <3> QED BY <1>16, <3>1, <3>2
  <2> QED BY <2>2
<1>18. Reached(fn) \subseteq ToSet(o) BY <1>15, <1>17, ReachedFacts
<1>19. ASSUME NEW i \in 1..Len(o), NEW j \in i..Len(o), o[i] \in Succs(fn, o[j]) PROVE FALSE
  <2>1. j \in 1..Len(o) BY <1>16
  <2>2. PICK l \in (j + 1)..Len(o) : o[l] = o[i] BY <1>15, <1>19, <2>1
  <2>3. l \in 1..Len(o) /\ l # i BY <1>16, <2>1
  <2> QED BY <1>15, <2>2, <2>3
<1>20. TopologicalOrder = o BY <1>13 DEF o
<1> QED BY <1>15, <1>18, <1>19, <1>20 DEF Forward

-----------------------------------------------------------------------------
(* Liveness *)

\* What WellFormed says of the statements and the terminator of a block.
LEMMA BlockFacts ==
  ASSUME WellFormed(fn), NEW b \in Blocks(fn)
  PROVE  LET s == fn.blocks[b].stmts
             t == fn.blocks[b].term
         IN  /\ IsSeq(s) /\ Len(s) \in Nat /\ DOMAIN s = 1..Len(s)
             /\ ToSet(s) = {s[i] : i \in 1..Len(s)}
             /\ \A i \in 1..Len(s) : StmtAllowed(fn, s[i])
             /\ TermAllowed(fn, t)
<1>1. IsSequence(fn.blocks[b].stmts) /\ TermAllowed(fn, fn.blocks[b].term)
      /\ \A s \in ToSet(fn.blocks[b].stmts) : StmtAllowed(fn, s)
  BY DEF WellFormed
<1>2. IsSeq(fn.blocks[b].stmts) BY <1>1 DEF IsSequence, IsSeq
<1> QED BY <1>1, <1>2, SeqFacts

\* Operands read symbols of the function.
LEMMA ReadsFacts ==
  ASSUME NEW args, OperandsOk(fn, args)
  PROVE  /\ IsSeq(args) /\ Reads(args) \subseteq DOMAIN fn.types
         /\ \A i \in 1..Len(args) : args[i].kind # "lit" => args[i].v \in Reads(args)
<1>1. IsSeq(args) BY DEF OperandsOk, IsSequence, IsSeq
<1>2. \A o \in ToSet(args) : o.kind # "lit" => o.kind = "var" /\ o.v \in DOMAIN fn.types
  BY DEF OperandsOk
<1>3. \A i \in 1..Len(args) : args[i] \in ToSet(args) BY <1>1, SeqFacts
<1> QED BY <1>1, <1>2, <1>3 DEF Reads

\* The first n statements of s write x.
WritesIn(s, n, x) == \E j \in 1..n : x \in ToSet(s[j].to)
ReadsIn(s, n, x) == \E i \in 1..n : x \in Reads(s[i].args) /\ ~WritesIn(s, i - 1, x)

\* A block reads first, or writes, a symbol of the function.
LEMMA BlockSymbols ==
  ASSUME WellFormed(fn), NEW b \in Blocks(fn), NEW x
  PROVE  LET s == fn.blocks[b].stmts
             t == fn.blocks[b].term
         IN  /\ Writes(b, x) <=> WritesIn(s, Len(s), x)
             /\ ReadsFirst(b, x) <=> \/ ReadsIn(s, Len(s), x)
                                     \/ x \in ReadsOfTerm(t) /\ ~WritesIn(s, Len(s), x)
             /\ ReadsFirst(b, x) \/ Writes(b, x) => x \in DOMAIN fn.types
<1> DEFINE s == fn.blocks[b].stmts
           t == fn.blocks[b].term
<1>1. /\ IsSeq(s) /\ Len(s) \in Nat /\ DOMAIN s = 1..Len(s) /\ ToSet(s) = {s[i] : i \in 1..Len(s)}
      /\ \A i \in 1..Len(s) : StmtAllowed(fn, s[i])
      /\ TermAllowed(fn, t)
  BY BlockFacts
<1>2. Writes(b, x) <=> \E u \in ToSet(s) : x \in ToSet(u.to) BY DEF Writes
<1>3. ReadsFirst(b, x) <=>
        \/ \E i \in DOMAIN s : x \in Reads(s[i].args) /\ \A j \in 1..(i - 1) : x \notin ToSet(s[j].to)
        \/ x \in ReadsOfTerm(t) /\ \A j \in 1..((Len(s) + 1) - 1) : x \notin ToSet(s[j].to)
  BY DEF ReadsFirst
<1> HIDE DEF s, t
<1>4. Writes(b, x) <=> WritesIn(s, Len(s), x) BY <1>1, <1>2 DEF WritesIn
<1>5. (Len(s) + 1) - 1 = Len(s) BY <1>1
<1>6. ReadsFirst(b, x) <=> \/ ReadsIn(s, Len(s), x)
                           \/ x \in ReadsOfTerm(t) /\ ~WritesIn(s, Len(s), x)
  BY <1>1, <1>3, <1>5 DEF ReadsIn, WritesIn
<1>7. \A i \in 1..Len(s) : ToSet(s[i].to) \subseteq DOMAIN fn.types /\ Reads(s[i].args) \subseteq DOMAIN fn.types
  BY <1>1, ReadsFacts DEF StmtAllowed
<1>8. ReadsOfTerm(t) \subseteq DOMAIN fn.types BY <1>1, ReadsFacts DEF TermAllowed, ReadsOfTerm
<1>9. ReadsFirst(b, x) \/ Writes(b, x) => x \in DOMAIN fn.types
  BY <1>4, <1>6, <1>7, <1>8 DEF ReadsIn, WritesIn
<1> QED BY <1>4, <1>6, <1>9 DEF s, t

\* One statement more.
LEMMA WritesInGrows ==
  ASSUME NEW s, NEW k \in Nat, NEW x
  PROVE  /\ WritesIn(s, k + 1, x) <=> WritesIn(s, k, x) \/ x \in ToSet(s[k + 1].to)
         /\ ReadsIn(s, k + 1, x) <=> \/ ReadsIn(s, k, x)
                                     \/ x \in Reads(s[k + 1].args) /\ ~WritesIn(s, k, x)
         /\ ~WritesIn(s, 0, x) /\ ~ReadsIn(s, 0, x)
<1>1. \A i : i \in 1..(k + 1) <=> i \in 1..k \/ i = k + 1 OBVIOUS
<1>2. (k + 1) - 1 = k /\ 1..0 = {} OBVIOUS
<1>3. WritesIn(s, k + 1, x) <=> WritesIn(s, k, x) \/ x \in ToSet(s[k + 1].to) BY <1>1 DEF WritesIn
<1>4. ReadsIn(s, k + 1, x) <=> \/ ReadsIn(s, k, x)
                               \/ x \in Reads(s[k + 1].args) /\ ~WritesIn(s, k, x)
  <2> DEFINE P(i) == x \in Reads(s[i].args) /\ ~WritesIn(s, i - 1, x)
  <2>1. P(k + 1) <=> x \in Reads(s[k + 1].args) /\ ~WritesIn(s, k, x) BY <1>2
  <2>2. \A m : ReadsIn(s, m, x) <=> \E i \in 1..m : P(i) BY DEF ReadsIn
  <2> HIDE DEF P
  <2> QED BY <1>1, <2>1, <2>2
<1> QED BY <1>2, <1>3, <1>4 DEF WritesIn, ReadsIn

\* The use and def sets of a block.
LEMMA UsesDefsFacts ==
  ASSUME WellFormed(fn), NEW b \in Blocks(fn)
  PROVE  LET ud == UsesDefs(fn.blocks[b])
         IN  \A x : (x \in ud.uses <=> ReadsFirst(b, x)) /\ (x \in ud.defs <=> Writes(b, x))
<1> DEFINE s == fn.blocks[b].stmts
           t == fn.blocks[b].term
           base == [uses |-> {}, defs |-> {}]
           acc == FoldLeft(AddStmt, base, s)
<1>1. IsSeq(s) /\ Len(s) \in Nat /\ DOMAIN s = 1..Len(s) BY BlockFacts
<1>2. \A x : /\ Writes(b, x) <=> WritesIn(s, Len(s), x)
             /\ ReadsFirst(b, x) <=> \/ ReadsIn(s, Len(s), x)
                                     \/ x \in ReadsOfTerm(t) /\ ~WritesIn(s, Len(s), x)
  BY BlockSymbols
<1>3. UsesDefs(fn.blocks[b]) = [acc EXCEPT !.uses = @ \cup (ReadsOfTerm(t) \ acc.defs)]
  BY DEF UsesDefs
<1> DEFINE n == Len(s)
<1>b. base = [uses |-> base.uses, defs |-> base.defs] /\ base.uses = {} /\ base.defs = {} OBVIOUS
<1> HIDE DEF s, t, base
<1>4. PICK it : AddStmtSteps!Steps(it, base, s, n) /\ FoldLeft(AddStmt, base, s) = it[n]
  BY <1>1, UsesFold
<1>5. it[0] = base /\ \A k \in 1..n : it[k] = AddStmt(it[k - 1], s[k])
  BY <1>4 DEF AddStmtSteps!Steps
<1> DEFINE Right(k) == /\ it[k] = [uses |-> it[k].uses, defs |-> it[k].defs]
                       /\ \A x : x \in it[k].uses <=> ReadsIn(s, k, x)
                       /\ \A x : x \in it[k].defs <=> WritesIn(s, k, x)
           T == {k \in Nat : k <= n => Right(k)}
<1>6. 0 \in T BY <1>b, <1>5, WritesInGrows
<1>7. ASSUME NEW k \in Nat, k \in T PROVE k + 1 \in T
  <2> SUFFICES ASSUME k + 1 <= n PROVE Right(k + 1) OBVIOUS
  <2>1. Right(k) BY <1>1, <1>7
  <2>2. k + 1 \in 1..n /\ (k + 1) - 1 = k BY <1>1
  <2>3. it[k + 1] = AddStmt(it[k], s[k + 1]) BY <1>5, <2>2
  <2>4. it[k + 1] = [uses |-> it[k].uses \cup (Reads(s[k + 1].args) \ it[k].defs),
                     defs |-> it[k].defs \cup ToSet(s[k + 1].to)]
    BY <2>3 DEF AddStmt
  <2>5. /\ it[k + 1].uses = it[k].uses \cup (Reads(s[k + 1].args) \ it[k].defs)
        /\ it[k + 1].defs = it[k].defs \cup ToSet(s[k + 1].to)
        /\ it[k + 1] = [uses |-> it[k + 1].uses, defs |-> it[k + 1].defs]
    BY <2>4
  <2>6. \A x : x \in it[k + 1].uses <=> ReadsIn(s, k + 1, x) BY <2>1, <2>5, WritesInGrows
  <2>7. \A x : x \in it[k + 1].defs <=> WritesIn(s, k + 1, x) BY <2>1, <2>5, WritesInGrows
  <2> QED BY <2>5, <2>6, <2>7
<1> HIDE DEF T
<1>8. n \in T BY <1>1, <1>6, <1>7, InductiveSet
<1>9. Right(n) BY <1>1, <1>8 DEF T
<1>10. acc = [uses |-> acc.uses, defs |-> acc.defs]
       /\ (\A x : x \in acc.uses <=> ReadsIn(s, n, x)) /\ (\A x : x \in acc.defs <=> WritesIn(s, n, x))
  BY <1>4, <1>9
<1> HIDE DEF acc, n
<1>11. \A u, d, v : [[uses |-> u, defs |-> d] EXCEPT !.uses = v] = [uses |-> v, defs |-> d] OBVIOUS
<1>12. UsesDefs(fn.blocks[b]) = [uses |-> acc.uses \cup (ReadsOfTerm(t) \ acc.defs), defs |-> acc.defs]
  BY <1>3, <1>10, <1>11
<1>13. UsesDefs(fn.blocks[b]).uses = acc.uses \cup (ReadsOfTerm(t) \ acc.defs)
       /\ UsesDefs(fn.blocks[b]).defs = acc.defs
  BY <1>12
<1> QED BY <1>2, <1>10, <1>13 DEF n

\* What is live before a block.
LEMMA LiveInFacts ==
  ASSUME WellFormed(fn), NEW b \in Blocks(fn), NEW in, NEW x
  PROVE  x \in LiveIn(in, b) <=>
           ReadsFirst(b, x) \/ (x \in LiveOut(fn, ssa.exit, in, b) /\ ~Writes(b, x))
BY UsesDefsFacts DEF LiveIn

LiveTyped(in) ==
  /\ in = [b \in Blocks(fn) |-> in[b]]
  /\ \A b \in Blocks(fn) : in[b] \subseteq DOMAIN fn.types

\* A variable is live where it may be undefined because it is an output, or
\* because some block reads it while it may be undefined.
Accountable(in) ==
  \A b \in Blocks(fn) : \A x \in in[b] : b \in StaysUndefined(x) =>
    x \in OutputPorts(fn) \/ \E c \in StaysUndefined(x) : ReadsFirst(c, x)

\* No pass changes in.
LiveSettled(in) == \A b \in Reached(fn) : in[b] = LiveIn(in, b)

\* The ports are symbols of the function.
LEMMA PortFacts ==
  ASSUME WellFormed(fn)
  PROVE  /\ InputPorts(fn) \subseteq DOMAIN fn.types /\ OutputPorts(fn) \subseteq DOMAIN fn.types
         /\ \A p \in ToSet(fn.ports) : p.x \in InputPorts(fn) \/ p.x \in OutputPorts(fn)
         /\ \A x : x \in InputPorts(fn) \/ x \in OutputPorts(fn) => \E p \in ToSet(fn.ports) : p.x = x
         /\ IsSeq(fn.ports)
<1>1. \A p \in ToSet(fn.ports) : p.x \in DOMAIN fn.types /\ p.dir \in {"in", "out"} BY DEF WellFormed
<1>2. IsSeq(fn.ports) BY DEF WellFormed, IsSequence, IsSeq
<1> QED BY <1>1, <1>2 DEF InputPorts, OutputPorts, PortsOf

\* What is live at the end of a block is a symbol of the function.
LEMMA LiveOutTyped ==
  ASSUME WellFormed(fn), NEW b \in Blocks(fn), NEW in, LiveTyped(in), NEW x \in LiveOut(fn, ssa.exit, in, b)
  PROVE  x \in DOMAIN fn.types
<1>1. \A c \in Succs(fn, b) : in[c] \subseteq DOMAIN fn.types BY GraphFacts DEF LiveTyped
<1> QED BY <1>1, PortFacts DEF LiveOut

\* One step of a pass.
LEMMA UpdateFacts ==
  ASSUME WellFormed(fn), NEW b \in Blocks(fn), NEW in, LiveTyped(in), Accountable(in)
  PROVE  /\ LiveTyped(UpdateLive(in, b)) /\ Accountable(UpdateLive(in, b))
         /\ UpdateLive(in, b)[b] = LiveIn(in, b)
         /\ \A c \in Blocks(fn) : c # b => UpdateLive(in, b)[c] = in[c]
<1> DEFINE new == UpdateLive(in, b)
<1>1. new = [in EXCEPT ![b] = LiveIn(in, b)] /\ in = [c \in Blocks(fn) |-> in[c]]
  BY DEF UpdateLive, LiveTyped
<1>2. DOMAIN in = Blocks(fn) BY <1>1
<1>3. /\ new = [c \in Blocks(fn) |-> new[c]] /\ new[b] = LiveIn(in, b)
      /\ \A c \in Blocks(fn) : c # b => new[c] = in[c]
  <2> HIDE DEF new
  <2> QED BY <1>1, <1>2
<1> HIDE DEF new
<1>4. LiveIn(in, b) \subseteq DOMAIN fn.types
  <2> SUFFICES ASSUME NEW x, x \in LiveIn(in, b) PROVE x \in DOMAIN fn.types OBVIOUS
  <2>1. ReadsFirst(b, x) \/ x \in LiveOut(fn, ssa.exit, in, b) BY LiveInFacts
  <2> QED BY <2>1, BlockSymbols, LiveOutTyped
<1>5. LiveTyped(new)
  <2>1. \A c \in Blocks(fn) : new[c] \subseteq DOMAIN fn.types BY <1>3, <1>4 DEF LiveTyped
  <2> QED BY <1>3, <2>1 DEF LiveTyped
<1>6. ASSUME NEW x \in LiveIn(in, b), b \in StaysUndefined(x)
      PROVE  x \in OutputPorts(fn) \/ \E c \in StaysUndefined(x) : ReadsFirst(c, x)
  <2>1. CASE ReadsFirst(b, x) BY <1>6, <2>1
  <2>2. CASE x \in LiveOut(fn, ssa.exit, in, b) /\ ~Writes(b, x)
    <3>1. x \in OutputPorts(fn) \/ \E c \in Succs(fn, b) : x \in in[c] BY <2>2 DEF LiveOut
    <3>2. Succs(fn, b) \subseteq StaysUndefined(x) /\ Succs(fn, b) \subseteq Blocks(fn)
      BY <1>6, <2>2, UndefinedFacts, GraphFacts
    <3> QED BY <3>1, <3>2 DEF Accountable
  <2> QED BY <2>1, <2>2, LiveInFacts
<1>7. Accountable(new)
  <2> SUFFICES ASSUME NEW c \in Blocks(fn), NEW x \in new[c], c \in StaysUndefined(x)
               PROVE  x \in OutputPorts(fn) \/ \E d \in StaysUndefined(x) : ReadsFirst(d, x)
    BY DEF Accountable
  <2>1. CASE c = b BY <1>3, <1>6, <2>1
  <2>2. CASE c # b BY <1>3, <2>2 DEF Accountable
  <2> QED BY <2>1, <2>2
<1> QED BY <1>3, <1>5, <1>7 DEF new

\* The last element first.
LEMMA ReverseFacts ==
  ASSUME NEW s, IsSeq(s)
  PROVE  /\ IsSeq(Reverse(s)) /\ Len(Reverse(s)) = Len(s) /\ DOMAIN Reverse(s) = 1..Len(s)
         /\ \A i \in 1..Len(s) : Reverse(s)[i] = s[(Len(s) - i) + 1] /\ (Len(s) - i) + 1 \in 1..Len(s)
<1>1. Len(s) \in Nat BY SeqFacts
<1> DEFINE r == Reverse(s)
<1>2. r = [i \in 1..Len(s) |-> s[(Len(s) - i) + 1]] BY DEF Reverse
<1> HIDE DEF r
<1>3. r = [i \in 1..Len(s) |-> r[i]] BY <1>2
<1>4. IsSeq(r) /\ Len(r) = Len(s) BY <1>1, <1>3, SeqIs
<1>5. \A i \in 1..Len(s) : r[i] = s[(Len(s) - i) + 1] /\ (Len(s) - i) + 1 \in 1..Len(s) BY <1>1, <1>2
<1> QED BY <1>3, <1>4, <1>5 DEF r

\* A pass of the analysis; one that changes nothing shows that in is settled.
LEMMA PassFacts ==
  ASSUME WellFormed(fn), NEW in, LiveTyped(in), Accountable(in), NEW order, IsSeq(order),
         ToSet(order) \subseteq Blocks(fn),
         \A i, j \in 1..Len(order) : order[i] = order[j] => i = j
  PROVE  /\ LiveTyped(LivenessPass(in, order)) /\ Accountable(LivenessPass(in, order))
         /\ LivenessPass(in, order) = in => \A b \in ToSet(order) : in[b] = LiveIn(in, b)
<1> DEFINE seq == Reverse(order)
           n == Len(order)
<1>1. n \in Nat /\ ToSet(order) = {order[i] : i \in 1..n} BY SeqFacts
<1>2. /\ DOMAIN seq = 1..n
      /\ \A i \in 1..n : seq[i] = order[(n - i) + 1] /\ (n - i) + 1 \in 1..n
  BY ReverseFacts
<1>3. LivenessPass(in, order) = FoldLeft(UpdateLive, in, seq) BY DEF LivenessPass
<1> HIDE DEF seq
<1>4. \A i \in 1..n : seq[i] \in Blocks(fn) BY <1>1, <1>2
<1>5. ASSUME NEW i \in 1..n, NEW j \in 1..n, seq[i] = seq[j] PROVE i = j
  <2>1. (n - i) + 1 = (n - j) + 1 BY <1>2, <1>5
  <2> QED BY <1>1, <2>1
<1>6. ASSUME NEW b \in ToSet(order) PROVE \E i \in 1..n : seq[i] = b
  <2>1. PICK j \in 1..n : order[j] = b BY <1>1
  <2>2. (n - j) + 1 \in 1..n /\ (n - ((n - j) + 1)) + 1 = j BY <1>1
  <2> QED BY <1>2, <2>1, <2>2
<1> HIDE DEF n
<1>7. PICK it : UpdateLiveSteps!Steps(it, in, seq, n) /\ FoldLeft(UpdateLive, in, seq) = it[n]
  BY <1>1, <1>2, LiveFold
<1>8. it[0] = in /\ \A k \in 1..n : it[k] = UpdateLive(it[k - 1], seq[k])
  BY <1>7 DEF UpdateLiveSteps!Steps
<1> DEFINE T == {k \in Nat : k <= n => LiveTyped(it[k]) /\ Accountable(it[k])}
<1>9. 0 \in T BY <1>8
<1>10. ASSUME NEW k \in Nat, k \in T PROVE k + 1 \in T
  <2> SUFFICES ASSUME k + 1 <= n PROVE LiveTyped(it[k + 1]) /\ Accountable(it[k + 1]) OBVIOUS
  <2>1. LiveTyped(it[k]) /\ Accountable(it[k]) BY <1>1, <1>10
  <2>2. k + 1 \in 1..n /\ (k + 1) - 1 = k BY <1>1
  <2>3. it[k + 1] = UpdateLive(it[k], seq[k + 1]) /\ seq[k + 1] \in Blocks(fn) BY <1>4, <1>8, <2>2
  <2> QED BY <2>1, <2>3, UpdateFacts
<1> HIDE DEF T
<1>11. \A k \in Nat : k \in T BY <1>9, <1>10, InductiveSet
<1>12. \A k \in 0..n : LiveTyped(it[k]) /\ Accountable(it[k]) BY <1>1, <1>11 DEF T
<1>13. ASSUME NEW k \in 1..n
       PROVE  /\ it[k][seq[k]] = LiveIn(it[k - 1], seq[k])
              /\ \A c \in Blocks(fn) : c # seq[k] => it[k][c] = it[k - 1][c]
  <2>1. k - 1 \in 0..n BY <1>1
  <2>2. LiveTyped(it[k - 1]) /\ Accountable(it[k - 1]) BY <1>12, <2>1
  <2> QED BY <1>4, <1>8, <2>2, UpdateFacts
\* What is set stays.
<1>14. ASSUME NEW k \in 1..n PROVE it[n][seq[k]] = it[k][seq[k]]
  <2> DEFINE b == seq[k]
             U == {l \in Nat : k + l <= n => it[k + l][b] = it[k][b]}
  <2>1. 0 \in U BY <1>1
  <2>2. ASSUME NEW l \in Nat, l \in U PROVE l + 1 \in U
    <3> SUFFICES ASSUME k + (l + 1) <= n PROVE it[k + (l + 1)][b] = it[k][b] OBVIOUS
    <3>1. k + (l + 1) \in 1..n /\ (k + (l + 1)) - 1 = k + l /\ k + l <= n /\ k + (l + 1) # k BY <1>1
    <3>2. it[k + l][b] = it[k][b] BY <2>2, <3>1
    <3>3. b # seq[k + (l + 1)] BY <1>5, <3>1
    <3>4. it[k + (l + 1)][b] = it[(k + (l + 1)) - 1][b] BY <1>4, <1>13, <3>1, <3>3
    <3> QED BY <3>1, <3>2, <3>4
  <2> HIDE DEF U
  <2>3. n - k \in Nat /\ k + (n - k) = n BY <1>1
  <2>4. n - k \in U BY <2>1, <2>2, <2>3, InductiveSet
  <2>5. k + (n - k) <= n => it[k + (n - k)][b] = it[k][b] BY <2>4 DEF U
  <2> HIDE DEF b
  <2>6. n <= n BY <1>1
  <2>7. it[n][b] = it[k][b] BY <2>3, <2>5, <2>6
  <2> QED BY <2>7 DEF b
<1>15. ASSUME it[n] = in PROVE \A k \in 0..n : it[k] = in
  <2> DEFINE U == {k \in Nat : k <= n => it[k] = in}
  <2>1. 0 \in U BY <1>8
  <2>2. ASSUME NEW k \in Nat, k \in U PROVE k + 1 \in U
    <3> SUFFICES ASSUME k + 1 <= n PROVE it[k + 1] = in OBVIOUS
    <3>1. k + 1 \in 1..n /\ (k + 1) - 1 = k /\ k + 1 \in 0..n /\ k \in 0..n BY <1>1
    <3>2. it[k] = in BY <1>1, <2>2
    <3>3. it[k + 1][seq[k + 1]] = in[seq[k + 1]] BY <1>14, <1>15, <3>1
    <3>4. \A c \in Blocks(fn) : it[k + 1][c] = in[c] BY <1>13, <3>1, <3>2, <3>3
    <3>5. it[k + 1] = [c \in Blocks(fn) |-> it[k + 1][c]] /\ in = [c \in Blocks(fn) |-> in[c]]
      BY <1>12, <3>1 DEF LiveTyped
    <3> HIDE DEF U
    <3> QED BY <3>4, <3>5
  <2> HIDE DEF U
  <2>3. \A k \in Nat : k \in U BY <2>1, <2>2, InductiveSet
  <2> QED BY <1>1, <2>3 DEF U
<1>16. ASSUME it[n] = in, NEW b \in ToSet(order) PROVE in[b] = LiveIn(in, b)
  <2>1. PICK k \in 1..n : seq[k] = b BY <1>6
  <2>2. k \in 0..n /\ k - 1 \in 0..n BY <1>1
  <2>3. it[k] = in /\ it[k - 1] = in BY <1>15, <1>16, <2>2
  <2> QED BY <1>13, <2>1, <2>3
<1>17. LivenessPass(in, order) = it[n] /\ n \in 0..n BY <1>1, <1>3, <1>7
<1> QED BY <1>12, <1>16, <1>17

-----------------------------------------------------------------------------
(* Contexts *)

Context(values, env, phis, stmts, term, block, ok) ==
  [values |-> values, env |-> env, phis |-> phis, stmts |-> stmts, term |-> term,
   block |-> block, ok |-> ok]
Shape(c) == c = Context(c.values, c.env, c.phis, c.stmts, c.term, c.block, c.ok)

\* A context that changes in one field.
LEMMA FieldFacts ==
  ASSUME NEW c, Shape(c), NEW v
  PROVE  /\ [c EXCEPT !.values = v] = Context(v, c.env, c.phis, c.stmts, c.term, c.block, c.ok)
         /\ [c EXCEPT !.env = v] = Context(c.values, v, c.phis, c.stmts, c.term, c.block, c.ok)
         /\ \A x : [c EXCEPT !.env[x] = v] =
              Context(c.values, [c.env EXCEPT ![x] = v], c.phis, c.stmts, c.term, c.block, c.ok)
         /\ [c EXCEPT !.phis = v] = Context(c.values, c.env, v, c.stmts, c.term, c.block, c.ok)
         /\ [c EXCEPT !.stmts = v] = Context(c.values, c.env, c.phis, v, c.term, c.block, c.ok)
         /\ [c EXCEPT !.term = v] = Context(c.values, c.env, c.phis, c.stmts, v, c.block, c.ok)
         /\ [c EXCEPT !.block = v] = Context(c.values, c.env, c.phis, c.stmts, c.term, v, c.ok)
         /\ [c EXCEPT !.ok = v] = Context(c.values, c.env, c.phis, c.stmts, c.term, c.block, v)
<1>1. [c EXCEPT !.values = v] = Context(v, c.env, c.phis, c.stmts, c.term, c.block, c.ok)
  BY DEF Shape, Context
<1>2. [c EXCEPT !.env = v] = Context(c.values, v, c.phis, c.stmts, c.term, c.block, c.ok)
  BY DEF Shape, Context
<1>3. [c EXCEPT !.phis = v] = Context(c.values, c.env, v, c.stmts, c.term, c.block, c.ok)
  BY DEF Shape, Context
<1>4. [c EXCEPT !.stmts = v] = Context(c.values, c.env, c.phis, v, c.term, c.block, c.ok)
  BY DEF Shape, Context
<1>5. [c EXCEPT !.term = v] = Context(c.values, c.env, c.phis, c.stmts, v, c.block, c.ok)
  BY DEF Shape, Context
<1>6. [c EXCEPT !.block = v] = Context(c.values, c.env, c.phis, c.stmts, c.term, v, c.ok)
  BY DEF Shape, Context
<1>7. [c EXCEPT !.ok = v] = Context(c.values, c.env, c.phis, c.stmts, c.term, c.block, v)
  BY DEF Shape, Context
<1>8. ASSUME NEW x
      PROVE  [c EXCEPT !.env[x] = v] =
               Context(c.values, [c.env EXCEPT ![x] = v], c.phis, c.stmts, c.term, c.block, c.ok)
  BY DEF Shape, Context
<1> QED BY <1>1, <1>2, <1>3, <1>4, <1>5, <1>6, <1>7, <1>8

\* The fields of a context.
LEMMA ContextFields ==
  ASSUME NEW values, NEW env, NEW phis, NEW stmts, NEW term, NEW block, NEW ok
  PROVE  LET c == Context(values, env, phis, stmts, term, block, ok)
         IN  /\ Shape(c) /\ c.values = values /\ c.env = env /\ c.phis = phis /\ c.stmts = stmts
             /\ c.term = term /\ c.block = block /\ c.ok = ok
BY DEF Context, Shape

-----------------------------------------------------------------------------
(* Values *)

InRange(values, v) == v \in 1..Len(values)

\* Values are only added.
Extends(values, more) ==
  /\ IsSeq(values) /\ IsSeq(more) /\ Len(values) <= Len(more)
  /\ \A v \in 1..Len(values) : more[v] = values[v]

\* Earlier values keep their number.
LEMMA ExtendsFacts ==
  ASSUME NEW values, NEW more, Extends(values, more)
  PROVE  /\ IsSeq(values) /\ IsSeq(more) /\ Len(values) \in Nat /\ Len(more) \in Nat
         /\ \A v : InRange(values, v) => InRange(more, v) /\ more[v] = values[v]
<1>1. IsSeq(values) /\ IsSeq(more) BY DEF Extends
<1>2. Len(values) \in Nat /\ Len(more) \in Nat BY <1>1, SeqFacts
<1>3. \A v \in 1..Len(values) : v \in 1..Len(more) BY <1>2 DEF Extends
<1> QED BY <1>1, <1>2, <1>3 DEF InRange, Extends

\* A sequence of values extends itself.
LEMMA ExtendsSelf == ASSUME NEW values, IsSeq(values) PROVE Extends(values, values)
BY SeqFacts DEF Extends

\* Extending twice is extending.
LEMMA ExtendsTrans ==
  ASSUME NEW v1, NEW v2, NEW v3, Extends(v1, v2), Extends(v2, v3)
  PROVE  Extends(v1, v3)
<1>1. /\ Len(v1) \in Nat /\ Len(v2) \in Nat /\ Len(v3) \in Nat /\ IsSeq(v1) /\ IsSeq(v3)
      /\ Len(v1) <= Len(v2) /\ Len(v2) <= Len(v3)
  BY ExtendsFacts DEF Extends
<1>2. \A v \in 1..Len(v1) : v \in 1..Len(v2) BY <1>1
<1>3. \A v \in 1..Len(v1) : v3[v] = v1[v] BY <1>2 DEF Extends
<1> QED BY <1>1, <1>3 DEF Extends

\* A new value.
LEMMA AddedValue ==
  ASSUME NEW values, IsSeq(values), NEW val
  PROVE  LET more == Append(values, val)
         IN  /\ Extends(values, more) /\ Len(more) = Len(values) + 1 /\ Len(more) \in Nat
             /\ InRange(more, Len(more)) /\ more[Len(more)] = val /\ Len(more) # NoValue
             /\ \A v : InRange(more, v) => InRange(values, v) \/ v = Len(more)
             /\ ~InRange(values, Len(more))
<1> DEFINE more == Append(values, val)
<1>1. /\ IsSeq(more) /\ Len(more) = Len(values) + 1 /\ \A v \in 1..Len(values) : more[v] = values[v]
      /\ more[Len(values) + 1] = val
  BY AppendFacts
<1>2. Len(values) \in Nat BY SeqFacts
<1> HIDE DEF more
<1>3. Extends(values, more) BY <1>1, <1>2 DEF Extends
<1>4. /\ Len(more) \in Nat /\ InRange(more, Len(more)) /\ Len(more) # NoValue
      /\ ~InRange(values, Len(more))
      /\ \A v : InRange(more, v) => InRange(values, v) \/ v = Len(more)
  BY <1>1, <1>2 DEF InRange, NoValue
<1> QED BY <1>1, <1>3, <1>4 DEF more

\* v is defined at the end of block b, or at its statement i.
Defined(values, v, b) == values[v].kind = "initial" \/ Dominates(values[v].block, b)
PhisOf(code) == {p.x : p \in ToSet(code.phis)}
Ready(values, code, b, v, i) ==
  /\ InRange(values, v)
  /\ \/ v \in PhisOf(code) \/ \E j \in 1..(i - 1) : code.stmts[j].x = v
     \/ values[v].block # b /\ Defined(values, v, b)

\* What is ready stays ready when values, phis and statements are added.
LEMMA ReadyGrows ==
  ASSUME NEW values, NEW more, Extends(values, more), NEW code, NEW after, NEW b, NEW v,
         NEW i \in Nat, NEW k \in Nat, i <= k, PhisOf(code) \subseteq PhisOf(after),
         \A j \in 1..(i - 1) : after.stmts[j] = code.stmts[j],
         Ready(values, code, b, v, i)
  PROVE  Ready(more, after, b, v, k)
<1>1. InRange(more, v) /\ more[v] = values[v] BY ExtendsFacts DEF Ready
<1>2. \A j \in 1..(i - 1) : j \in 1..(k - 1) OBVIOUS
<1>3. CASE v \in PhisOf(code) BY <1>1, <1>3 DEF Ready
<1>4. CASE \E j \in 1..(i - 1) : code.stmts[j].x = v BY <1>1, <1>2, <1>4 DEF Ready
<1>5. CASE values[v].block # b /\ Defined(values, v, b) BY <1>1, <1>5 DEF Ready, Defined
<1> QED BY <1>3, <1>4, <1>5 DEF Ready

-----------------------------------------------------------------------------
(* Code *)

OpType(values, o) == IF o.kind = "lit" THEN o.t ELSE values[o.v].t

\* A value of block b.
Own(values, b, v) == InRange(values, v) /\ values[v].block = b

\* A phi has one value for each reached predecessor, of its own type, defined
\* at the end of that block.
PhiRight(values, b, phi) ==
  /\ Own(values, b, phi.x) /\ values[phi.x].kind = "phi" /\ values[phi.x].base = phi.base
  /\ IsSeq(phi.incoming)
  /\ \A i, j \in 1..Len(phi.incoming) : phi.incoming[i].pred = phi.incoming[j].pred => i = j
  /\ {i.pred : i \in ToSet(phi.incoming)} = Preds(fn, b) \cap Reached(fn)
  /\ \A i \in ToSet(phi.incoming) :
       /\ InRange(values, i.value) /\ values[i.value].t = values[phi.x].t
       /\ Defined(values, i.value, i.pred)

\* The operands that a statement s at place i can have; a copy and a lookup keep the type.
StmtRight(values, code, b, i, s) ==
  /\ IsSeq(s.args)
  /\ \A o \in ToSet(s.args) : o.kind # "lit" => Ready(values, code, b, o.v, i)
  /\ s.k = "assign" => s.args # <<>> /\ OpType(values, s.args[1]) = values[s.x].t
  /\ s.k = "lookup" => s.args # <<>> /\ \A e \in ToSet(Tail(s.args)) : OpType(values, e) = values[s.x].t

CodeRight(values, code, b) ==
  /\ IsSeq(code.phis) /\ \A phi \in ToSet(code.phis) : PhiRight(values, b, phi)
  /\ IsSeq(code.stmts)
  /\ \A i \in 1..Len(code.stmts) :
       Own(values, b, code.stmts[i].x) /\ StmtRight(values, code, b, i, code.stmts[i])

\* A phi that is right stays right when values are added.
LEMMA PhiGrows ==
  ASSUME NEW values, NEW more, Extends(values, more), NEW b, NEW phi, PhiRight(values, b, phi)
  PROVE  PhiRight(more, b, phi)
<1>1. \A v : InRange(values, v) => InRange(more, v) /\ more[v] = values[v] BY ExtendsFacts
<1>2. ASSUME NEW i \in ToSet(phi.incoming)
      PROVE  /\ InRange(more, i.value) /\ more[i.value].t = more[phi.x].t
             /\ Defined(more, i.value, i.pred)
  <2>1. InRange(values, i.value) /\ Defined(values, i.value, i.pred) /\ InRange(values, phi.x)
        /\ values[i.value].t = values[phi.x].t
    BY DEF PhiRight, Own
  <2> QED BY <1>1, <2>1 DEF Defined
<1> QED BY <1>1, <1>2 DEF PhiRight, Own

\* The tail of a sequence holds elements of it.
LEMMA TailInside ==
  ASSUME NEW s, IsSeq(s), s # <<>>
  PROVE  /\ s[1] \in ToSet(s) /\ ToSet(Tail(s)) \subseteq ToSet(s)
         /\ ToSet(Tail(s)) = {s[i + 1] : i \in 1..(Len(s) - 1)} /\ Len(s) \in Nat \ {0}
<1>1. /\ IsSeq(Tail(s)) /\ Len(s) \in Nat \ {0} /\ Len(Tail(s)) = Len(s) - 1
      /\ \A i \in 1..(Len(s) - 1) : Tail(s)[i] = s[i + 1]
  BY TailFacts
<1> DEFINE t == Tail(s)
<1>2. ToSet(s) = {s[i] : i \in 1..Len(s)} /\ ToSet(t) = {t[i] : i \in 1..Len(t)} BY <1>1, SeqFacts
<1> HIDE DEF t
<1>3. 1 \in 1..Len(s) /\ \A i \in 1..(Len(s) - 1) : i + 1 \in 1..Len(s) BY <1>1
<1>4. ToSet(t) = {s[i + 1] : i \in 1..(Len(s) - 1)} BY <1>1, <1>2 DEF t
<1> QED BY <1>1, <1>2, <1>3, <1>4 DEF t

\* So does a statement, when phis or later statements are added too.
LEMMA StmtGrows ==
  ASSUME NEW values, NEW more, Extends(values, more), NEW code, NEW after, NEW b,
         NEW i \in Nat, NEW s, InRange(values, s.x), PhisOf(code) \subseteq PhisOf(after),
         \A j \in 1..(i - 1) : after.stmts[j] = code.stmts[j],
         StmtRight(values, code, b, i, s)
  PROVE  StmtRight(more, after, b, i, s)
<1>1. \A v : InRange(values, v) => InRange(more, v) /\ more[v] = values[v] BY ExtendsFacts
<1>2. ASSUME NEW o \in ToSet(s.args)
      PROVE  /\ o.kind # "lit" => Ready(more, after, b, o.v, i)
             /\ OpType(more, o) = OpType(values, o)
  <2>1. CASE o.kind = "lit" BY <2>1 DEF OpType
  <2>2. CASE o.kind # "lit"
    <3>1. Ready(values, code, b, o.v, i) BY <2>2 DEF StmtRight
    <3>2. Ready(more, after, b, o.v, i) BY <3>1, ReadyGrows
    <3>3. more[o.v] = values[o.v] BY <1>1, <3>1 DEF Ready
    <3> QED BY <3>2, <3>3 DEF OpType
  <2> QED BY <2>1, <2>2
<1>3. s.args # <<>> => s.args[1] \in ToSet(s.args) /\ ToSet(Tail(s.args)) \subseteq ToSet(s.args)
  BY TailInside DEF StmtRight
<1>4. more[s.x] = values[s.x] BY <1>1
<1> QED BY <1>2, <1>3, <1>4 DEF StmtRight

\* The code of a block stays right when values are added.
LEMMA CodeGrows ==
  ASSUME NEW values, NEW more, Extends(values, more), NEW code, NEW b, CodeRight(values, code, b)
  PROVE  CodeRight(more, code, b)
<1>1. \A phi \in ToSet(code.phis) : PhiRight(more, b, phi) BY PhiGrows DEF CodeRight
<1>2. ASSUME NEW i \in 1..Len(code.stmts)
      PROVE  Own(more, b, code.stmts[i].x) /\ StmtRight(more, code, b, i, code.stmts[i])
  <2>1. Own(values, b, code.stmts[i].x) /\ StmtRight(values, code, b, i, code.stmts[i])
    BY DEF CodeRight
  <2>2. i \in Nat /\ InRange(values, code.stmts[i].x) BY <2>1 DEF Own
  <2>3. Own(more, b, code.stmts[i].x) BY <2>1, ExtendsFacts DEF Own
  <2> QED BY <2>1, <2>2, <2>3, StmtGrows
<1> QED BY <1>1, <1>2 DEF CodeRight

-----------------------------------------------------------------------------
(* A block while it is renamed *)

EnvTyped(values, env) ==
  /\ env = [x \in DOMAIN fn.types |-> env[x]]
  /\ \A x \in DOMAIN fn.types :
       env[x] # NoValue => InRange(values, env[x]) /\ values[env[x]].t = fn.types[x]

\* Every value is initial or belongs to a block of S.
ValuesFrom(values, S) ==
  /\ IsSeq(values)
  /\ \A v : InRange(values, v) =>
       (values[v].kind = "initial" /\ values[v].block = NoBlock) \/ values[v].block \in S

Renamed == Reached(fn) \ ToSet(todo)

Usable(c, v) == Ready(c.values, c, c.block, v, Len(c.stmts) + 1)
UsableOperand(c, o) == o.kind # "lit" => Usable(c, o.v)

\* The code emitted so far is right, and what the environment names can be used.
Good(c) ==
  /\ Extends(ssa.values, c.values) /\ ValuesFrom(c.values, Renamed \cup {c.block})
  /\ EnvTyped(c.values, c.env)
  /\ \A x \in DOMAIN fn.types : c.env[x] # NoValue => Usable(c, c.env[x])
  /\ CodeRight(c.values, c, c.block)

\* A good context has sequences.
LEMMA GoodFacts ==
  ASSUME NEW c, Good(c)
  PROVE  /\ IsSeq(c.values) /\ Len(c.values) \in Nat /\ IsSeq(c.stmts) /\ Len(c.stmts) \in Nat
         /\ IsSeq(c.phis)
BY ExtendsFacts, SeqFacts DEF Good, CodeRight

\* One value and the statement that defines it.
Emitted(c, val, s, env) ==
  Context(Append(c.values, val), env, c.phis, Append(c.stmts, s), c.term, c.block, c.ok)

\* A statement that writes a new value keeps the context good, when its
\* operands can be used and its types agree.
LEMMA EmittedGood ==
  ASSUME NEW c, Shape(c), Good(c), NEW val, val.block = c.block,
         NEW s, s.x = Len(c.values) + 1, IsSeq(s.args),
         \A o \in ToSet(s.args) : UsableOperand(c, o),
         s.k = "assign" => s.args # <<>> /\ OpType(c.values, s.args[1]) = val.t,
         s.k = "lookup" => s.args # <<>> /\ \A e \in ToSet(Tail(s.args)) : OpType(c.values, e) = val.t,
         NEW env, env = [x \in DOMAIN fn.types |-> env[x]],
         \A x \in DOMAIN fn.types :
           env[x] = c.env[x] \/ (env[x] = Len(c.values) + 1 /\ val.t = fn.types[x])
  PROVE  LET d == Emitted(c, val, s, env)
         IN  /\ Shape(d) /\ Good(d) /\ Usable(d, Len(c.values) + 1)
             /\ \A o : UsableOperand(c, o) => UsableOperand(d, o)
<1> DEFINE d == Emitted(c, val, s, env)
           n == Len(c.stmts)
           new == Len(c.values) + 1
           b == c.block
<1>1. /\ Shape(d) /\ d.values = Append(c.values, val) /\ d.env = env /\ d.phis = c.phis
      /\ d.stmts = Append(c.stmts, s) /\ d.block = b
  BY DEF Emitted, Shape, Context
<1> HIDE DEF d
<1>2. IsSeq(c.values) /\ Len(c.values) \in Nat /\ IsSeq(c.stmts) /\ n \in Nat /\ IsSeq(c.phis)
  BY GoodFacts
<1>3. /\ Extends(c.values, d.values) /\ Len(d.values) = new /\ InRange(d.values, new)
      /\ d.values[new] = val
      /\ \A v : InRange(d.values, v) => InRange(c.values, v) \/ v = new
  BY <1>1, <1>2, AddedValue
<1>4. /\ IsSeq(d.stmts) /\ Len(d.stmts) = n + 1 /\ d.stmts[n + 1] = s
      /\ \A j \in 1..n : d.stmts[j] = c.stmts[j]
  BY <1>1, <1>2, AppendFacts
<1>5. PhisOf(d) = PhisOf(c) BY <1>1 DEF PhisOf
<1>6. ASSUME NEW v, Usable(c, v) PROVE Ready(d.values, d, b, v, n + 1) /\ Usable(d, v)
  <2>1. Ready(c.values, c, b, v, n + 1) BY <1>6 DEF Usable
  <2>2. /\ n + 1 \in Nat /\ (n + 1) + 1 \in Nat /\ n + 1 <= (n + 1) + 1 /\ n + 1 <= n + 1
        /\ (n + 1) - 1 = n
    BY <1>2
  <2>3. \A j \in 1..((n + 1) - 1) : d.stmts[j] = c.stmts[j] BY <1>4, <2>2
  <2>4. Ready(d.values, d, b, v, n + 1) BY <1>3, <1>5, <2>1, <2>2, <2>3, ReadyGrows
  <2>5. Ready(d.values, d, b, v, (n + 1) + 1) BY <1>3, <1>5, <2>1, <2>2, <2>3, ReadyGrows
  <2> QED BY <1>1, <1>4, <2>4, <2>5 DEF Usable
<1>7. Usable(d, new)
  <2>1. n + 1 \in 1..(((n + 1) + 1) - 1) BY <1>2
  <2>2. d.stmts[n + 1].x = new BY <1>4
  <2> HIDE DEF new, n
  <2>3. Ready(d.values, d, b, new, (n + 1) + 1) BY <1>3, <2>1, <2>2 DEF Ready
  <2> QED BY <1>1, <1>4, <2>3 DEF Usable
<1>8. \A o : UsableOperand(c, o) => UsableOperand(d, o) BY <1>6 DEF UsableOperand
<1>9. Extends(ssa.values, d.values) BY <1>3, ExtendsTrans DEF Good
<1>10. ValuesFrom(d.values, Renamed \cup {d.block})
  <2>1. IsSeq(d.values) BY <1>3, ExtendsFacts
  <2>2. ASSUME NEW v, InRange(d.values, v)
        PROVE  \/ d.values[v].kind = "initial" /\ d.values[v].block = NoBlock
               \/ d.values[v].block \in Renamed \cup {b}
    <3>1. CASE v = new BY <1>3, <3>1
    <3>2. CASE InRange(c.values, v)
      <4>1. d.values[v] = c.values[v] BY <1>3, <3>2, ExtendsFacts
      <4> QED BY <3>2, <4>1 DEF Good, ValuesFrom
    <3> QED BY <1>3, <2>2, <3>1, <3>2
  <2> QED BY <1>1, <2>1, <2>2 DEF ValuesFrom
<1>11. ASSUME NEW x \in DOMAIN fn.types, env[x] # NoValue
       PROVE  InRange(d.values, env[x]) /\ d.values[env[x]].t = fn.types[x] /\ Usable(d, env[x])
  <2>1. CASE env[x] = c.env[x]
    <3>1. InRange(c.values, c.env[x]) /\ c.values[c.env[x]].t = fn.types[x] /\ Usable(c, c.env[x])
      BY <1>11, <2>1 DEF Good, EnvTyped
    <3>2. InRange(d.values, c.env[x]) /\ d.values[c.env[x]] = c.values[c.env[x]]
      BY <1>3, <3>1, ExtendsFacts
    <3> QED BY <1>6, <2>1, <3>1, <3>2
  <2>2. CASE env[x] = new /\ val.t = fn.types[x] BY <1>3, <1>7, <2>2
  <2> QED BY <2>1, <2>2
<1>12. EnvTyped(d.values, d.env) BY <1>1, <1>11 DEF EnvTyped
<1>13. \A x \in DOMAIN fn.types : d.env[x] # NoValue => Usable(d, d.env[x]) BY <1>1, <1>11
<1>14. \A phi \in ToSet(d.phis) : PhiRight(d.values, b, phi)
  BY <1>1, <1>3, PhiGrows DEF Good, CodeRight
<1>15. ASSUME NEW i \in 1..(n + 1)
       PROVE  Own(d.values, b, d.stmts[i].x) /\ StmtRight(d.values, d, b, i, d.stmts[i])
  <2>1. CASE i \in 1..n
    <3>1. /\ Own(c.values, b, c.stmts[i].x) /\ InRange(c.values, c.stmts[i].x)
          /\ StmtRight(c.values, c, b, i, c.stmts[i])
      BY <2>1 DEF Good, CodeRight, Own
    <3>2. i \in Nat /\ \A j \in 1..(i - 1) : j \in 1..n BY <1>2, <2>1
    <3>3. StmtRight(d.values, d, b, i, c.stmts[i]) BY <1>3, <1>4, <1>5, <3>1, <3>2, StmtGrows
    <3>4. Own(d.values, b, c.stmts[i].x) BY <1>3, <3>1, ExtendsFacts DEF Own
    <3> QED BY <1>4, <2>1, <3>3, <3>4
  <2>2. CASE i = n + 1
    <3>1. \A o \in ToSet(s.args) : /\ o.kind # "lit" => Ready(d.values, d, b, o.v, n + 1)
                                   /\ OpType(d.values, o) = OpType(c.values, o)
      <4> TAKE o \in ToSet(s.args)
      <4>1. CASE o.kind = "lit" BY <4>1 DEF OpType
      <4>2. CASE o.kind # "lit"
        <5>1. Usable(c, o.v) BY <4>2 DEF UsableOperand
        <5>2. InRange(c.values, o.v) BY <5>1 DEF Usable, Ready
        <5>3. d.values[o.v] = c.values[o.v] BY <1>3, <5>2, ExtendsFacts
        <5> QED BY <1>6, <5>1, <5>3 DEF OpType
      <4> QED BY <4>1, <4>2
    <3>2. s.args # <<>> => s.args[1] \in ToSet(s.args) /\ ToSet(Tail(s.args)) \subseteq ToSet(s.args)
      BY TailInside
    <3>3. d.values[s.x].t = val.t BY <1>3
    <3>4. StmtRight(d.values, d, b, n + 1, s) BY <3>1, <3>2, <3>3 DEF StmtRight
    <3>5. Own(d.values, b, s.x) BY <1>3 DEF Own
    <3> QED BY <1>4, <2>2, <3>4, <3>5
  <2> QED BY <1>2, <2>1, <2>2
<1>16. CodeRight(d.values, d, d.block) BY <1>1, <1>2, <1>4, <1>14, <1>15 DEF CodeRight
<1>17. Good(d) BY <1>9, <1>10, <1>12, <1>13, <1>16 DEF Good
<1> QED BY <1>1, <1>7, <1>8, <1>17 DEF d

\* What can be used in a block is defined at its end.
LEMMA UsableDefined ==
  ASSUME WellFormed(fn), NEW c, Good(c), NEW v, Usable(c, v)
  PROVE  Defined(c.values, v, c.block)
<1>1. CodeRight(c.values, c, c.block) BY DEF Good
<1>2. CASE v \in PhisOf(c)
  <2>1. c.values[v].block = c.block BY <1>1, <1>2 DEF PhisOf, CodeRight, PhiRight, Own
  <2> QED BY <2>1, DominatesSelf DEF Defined
<1>3. CASE \E j \in 1..((Len(c.stmts) + 1) - 1) : c.stmts[j].x = v
  <2>1. Len(c.stmts) \in Nat BY GoodFacts
  <2>2. PICK j \in 1..Len(c.stmts) : c.stmts[j].x = v BY <1>3, <2>1
  <2>3. c.values[v].block = c.block BY <1>1, <2>2 DEF CodeRight, Own
  <2> QED BY <2>3, DominatesSelf DEF Defined
<1> QED BY <1>2, <1>3 DEF Usable, Ready

-----------------------------------------------------------------------------
(* Statements *)

NewValue(c, base, t, kind) == [base |-> base, t |-> t, kind |-> kind, block |-> c.block]
NewStmt(k, op, id, args) == [k |-> k, op |-> op, x |-> id, args |-> args]

\* AddValue, as a context.
LEMMA AddValueIs ==
  ASSUME NEW c, Shape(c), NEW base, NEW t, NEW kind
  PROVE  AddValue(c, base, t, kind) =
           Context(Append(c.values, NewValue(c, base, t, kind)), c.env, c.phis, c.stmts, c.term,
                   c.block, c.ok)
<1>1. AddValue(c, base, t, kind) = [c EXCEPT !.values = Append(c.values, NewValue(c, base, t, kind))]
  BY DEF AddValue, NewValue
<1> QED BY <1>1, FieldFacts

\* Emit, as a context.
LEMMA EmitIs ==
  ASSUME NEW c, Shape(c), NEW k, NEW op, NEW id, NEW args
  PROVE  Emit(c, k, op, id, args) =
           Context(c.values, c.env, c.phis, Append(c.stmts, NewStmt(k, op, id, args)), c.term,
                   c.block, c.ok)
<1>1. Emit(c, k, op, id, args) = [c EXCEPT !.stmts = Append(c.stmts, NewStmt(k, op, id, args))]
  BY DEF Emit, NewStmt
<1> QED BY <1>1, FieldFacts

\* A value that a statement of its own defines.
LEMMA GeneratedIs ==
  ASSUME NEW c, Shape(c), NEW t, NEW op, NEW args
  PROVE  LET d == DefineGenerated(c, t, op, args)
         IN  /\ Shape(d) /\ d.block = c.block /\ d.ok = c.ok /\ d.env = c.env
             /\ IsSeq(c.values) =>
                  /\ d = Emitted(c, NewValue(c, NoValue, t, "generated"),
                                 NewStmt("op", op, Len(c.values) + 1, args), c.env)
                  /\ Newest(d) = Len(c.values) + 1
<1> DEFINE val == NewValue(c, NoValue, t, "generated")
           a == AddValue(c, NoValue, t, "generated")
           d == DefineGenerated(c, t, op, args)
           more == Append(c.values, val)
           s == NewStmt("op", op, Newest(a), args)
<1>1. a = Context(more, c.env, c.phis, c.stmts, c.term, c.block, c.ok) BY AddValueIs
<1>2. d = Emit(a, "op", op, Newest(a), args) BY DEF DefineGenerated
<1> HIDE DEF a, d, more
<1>3. /\ Shape(a) /\ a.values = more /\ a.env = c.env /\ a.phis = c.phis /\ a.stmts = c.stmts
      /\ a.term = c.term /\ a.block = c.block /\ a.ok = c.ok
  BY <1>1 DEF Context, Shape
<1>4. d = Context(a.values, a.env, a.phis, Append(a.stmts, s), a.term, a.block, a.ok)
  BY <1>2, <1>3, EmitIs
<1>5. d = Context(more, c.env, c.phis, Append(c.stmts, s), c.term, c.block, c.ok) BY <1>3, <1>4
<1>6. /\ Shape(d) /\ d.block = c.block /\ d.ok = c.ok /\ d.env = c.env /\ d.values = more
  BY <1>5 DEF Context, Shape
<1>7. ASSUME IsSeq(c.values) PROVE Newest(a) = Len(c.values) + 1 /\ Newest(d) = Len(c.values) + 1
  BY <1>3, <1>6, <1>7, AppendFacts DEF Newest, more
<1>8. ASSUME IsSeq(c.values)
      PROVE  d = Emitted(c, val, NewStmt("op", op, Len(c.values) + 1, args), c.env)
  BY <1>5, <1>7, <1>8 DEF Emitted, more
<1> QED BY <1>6, <1>7, <1>8 DEF d

\* A value for a variable: an input has none.
Assigned(c, x, k, op, args) == LET d == DefineBase(c, x) IN Emit(d, k, op, d.env[x], args)

\* Assigning a variable fails for an input, and only then.
LEMMA AssignedFacts ==
  ASSUME NEW c, Shape(c), NEW x, NEW k, NEW op, NEW args
  PROVE  LET d == Assigned(c, x, k, op, args)
         IN  /\ Shape(d) /\ d.block = c.block
             /\ x \in InputPorts(fn) => ~d.ok
             /\ x \notin InputPorts(fn) => d.ok = c.ok
<1> DEFINE a == AddValue(c, x, fn.types[x], "stmt")
           e == DefineBase(c, x)
           d == Assigned(c, x, k, op, args)
           more == Append(c.values, NewValue(c, x, fn.types[x], "stmt"))
           s == NewStmt(k, op, e.env[x], args)
<1>1. a = Context(more, c.env, c.phis, c.stmts, c.term, c.block, c.ok) BY AddValueIs
<1>2. e = IF x \in InputPorts(fn) THEN [c EXCEPT !.ok = FALSE] ELSE [a EXCEPT !.env[x] = Newest(a)]
  BY DEF DefineBase
<1>3. d = Emit(e, k, op, e.env[x], args) BY DEF Assigned
<1> HIDE DEF a, d, e, more
<1>4. Shape(a) /\ a.block = c.block /\ a.ok = c.ok BY <1>1 DEF Context, Shape
<1>5. /\ Shape(e) /\ e.block = c.block
      /\ x \in InputPorts(fn) => ~e.ok
      /\ x \notin InputPorts(fn) => e.ok = c.ok
  <2>1. CASE x \in InputPorts(fn)
    <3>1. e = Context(c.values, c.env, c.phis, c.stmts, c.term, c.block, FALSE)
      BY <1>2, <2>1 DEF Shape, Context
    <3> QED BY <2>1, <3>1 DEF Shape, Context
  <2>2. CASE x \notin InputPorts(fn)
    <3>1. e = Context(a.values, [a.env EXCEPT ![x] = Newest(a)], a.phis, a.stmts, a.term, a.block, a.ok)
      BY <1>2, <1>4, <2>2, FieldFacts
    <3> QED BY <1>4, <2>2, <3>1 DEF Context, Shape
  <2> QED BY <2>1, <2>2
<1>6. d = Context(e.values, e.env, e.phis, Append(e.stmts, s), e.term, e.block, e.ok)
  BY <1>3, <1>5, EmitIs
<1>7. Shape(d) /\ d.block = e.block /\ d.ok = e.ok BY <1>6 DEF Context, Shape
<1> QED BY <1>5, <1>7 DEF d

\* DefineBase and the statement that writes it, as one context.
LEMMA AssignedIs ==
  ASSUME NEW c, Shape(c), NEW x, NEW k, NEW op, NEW args,
         IsSeq(c.values), x \notin InputPorts(fn), x \in DOMAIN c.env
  PROVE  Assigned(c, x, k, op, args) =
           Emitted(c, NewValue(c, x, fn.types[x], "stmt"), NewStmt(k, op, Len(c.values) + 1, args),
                   [c.env EXCEPT ![x] = Len(c.values) + 1])
<1> DEFINE val == NewValue(c, x, fn.types[x], "stmt")
           a == AddValue(c, x, fn.types[x], "stmt")
           e == DefineBase(c, x)
           more == Append(c.values, val)
           s == NewStmt(k, op, e.env[x], args)
           env == [c.env EXCEPT ![x] = Newest(a)]
<1>1. a = Context(more, c.env, c.phis, c.stmts, c.term, c.block, c.ok) BY AddValueIs
<1>2. e = [a EXCEPT !.env[x] = Newest(a)] BY DEF DefineBase
<1>3. Assigned(c, x, k, op, args) = Emit(e, k, op, e.env[x], args) BY DEF Assigned
<1>4. env[x] = Newest(a) OBVIOUS
<1> HIDE DEF a, e, more, env
<1>5. /\ Shape(a) /\ a.values = more /\ a.env = c.env /\ a.phis = c.phis /\ a.stmts = c.stmts
      /\ a.term = c.term /\ a.block = c.block /\ a.ok = c.ok
  BY <1>1 DEF Context, Shape
<1>6. e = Context(a.values, [a.env EXCEPT ![x] = Newest(a)], a.phis, a.stmts, a.term, a.block, a.ok)
  BY <1>2, <1>5, FieldFacts
<1>7. e = Context(more, env, c.phis, c.stmts, c.term, c.block, c.ok) BY <1>5, <1>6 DEF env
<1>8. /\ Shape(e) /\ e.values = more /\ e.env = env /\ e.phis = c.phis /\ e.stmts = c.stmts
      /\ e.term = c.term /\ e.block = c.block /\ e.ok = c.ok
  BY <1>7 DEF Context, Shape
<1>9. Emit(e, k, op, e.env[x], args)
        = Context(e.values, e.env, e.phis, Append(e.stmts, s), e.term, e.block, e.ok)
  BY <1>8, EmitIs
<1>10. Newest(a) = Len(c.values) + 1 BY <1>5, AppendFacts DEF Newest, more
<1>11. e.env[x] = Len(c.values) + 1 BY <1>4, <1>8, <1>10
<1> QED BY <1>3, <1>8, <1>9, <1>10, <1>11 DEF Emitted, more, env

\* Two and three elements.
LEMMA TupleFacts ==
  ASSUME NEW a, NEW b, NEW c
  PROVE  /\ IsSeq(<<a, b>>) /\ ToSet(<<a, b>>) = {a, b}
         /\ IsSeq(<<a, b, c>>) /\ ToSet(<<a, b, c>>) = {a, b, c}
<1>1. <<a, b>> \in Seq({a, b}) /\ <<a, b, c>> \in Seq({a, b, c}) OBVIOUS
<1>2. IsSeq(<<a, b>>) /\ IsSeq(<<a, b, c>>) BY <1>1, SeqOver
<1>3. ToSet(<<a, b>>) = {a, b}
  <2>1. ToSet(<<a, b>>) = {<<a, b>>[i] : i \in 1..2} BY DEF ToSet
  <2>2. 1..2 = {1, 2} OBVIOUS
  <2> QED BY <2>1, <2>2
<1>4. ToSet(<<a, b, c>>) = {a, b, c}
  <2>1. ToSet(<<a, b, c>>) = {<<a, b, c>>[i] : i \in 1..3} BY DEF ToSet
  <2>2. 1..3 = {1, 2, 3} OBVIOUS
  <2> QED BY <2>1, <2>2
<1> QED BY <1>2, <1>3, <1>4

\* A generated statement keeps the context good.
LEMMA GeneratedGood ==
  ASSUME WellFormed(fn), NEW c, Shape(c), Good(c), NEW t, NEW op, NEW args, IsSeq(args),
         \A o \in ToSet(args) : UsableOperand(c, o)
  PROVE  LET d == DefineGenerated(c, t, op, args)
         IN  /\ Good(d) /\ Usable(d, Newest(d))
             /\ \A o : UsableOperand(c, o) => UsableOperand(d, o)
<1> DEFINE d == DefineGenerated(c, t, op, args)
           val == NewValue(c, NoValue, t, "generated")
           s == NewStmt("op", op, Len(c.values) + 1, args)
           env == c.env
<1>1. IsSeq(c.values) BY GoodFacts
<1>2. d = Emitted(c, val, s, env) /\ Newest(d) = Len(c.values) + 1 BY <1>1, GeneratedIs
<1>3. val.block = c.block /\ s.x = Len(c.values) + 1 /\ s.args = args /\ s.k = "op"
  BY DEF NewValue, NewStmt
<1>4. env = [x \in DOMAIN fn.types |-> env[x]] BY DEF Good, EnvTyped
<1> HIDE DEF d, val, s
<1>5. s.k # "assign" /\ s.k # "lookup" BY <1>3
<1> DEFINE e == Emitted(c, val, s, env)
<1>6. /\ Good(e) /\ Usable(e, Len(c.values) + 1) /\ \A o : UsableOperand(c, o) => UsableOperand(e, o)
  BY <1>3, <1>4, <1>5, EmittedGood
<1> HIDE DEF e
<1>7. d = e BY <1>2 DEF e
<1> QED BY <1>2, <1>6, <1>7 DEF d

\* So does an assignment of a variable that is no input.
LEMMA AssignedGood ==
  ASSUME WellFormed(fn), NEW c, Shape(c), Good(c), NEW x \in DOMAIN fn.types, x \notin InputPorts(fn),
         NEW k, NEW op, NEW args, IsSeq(args),
         \A o \in ToSet(args) : UsableOperand(c, o),
         k = "assign" => args # <<>> /\ OpType(c.values, args[1]) = fn.types[x],
         k = "lookup" => args # <<>> /\ \A e \in ToSet(Tail(args)) : OpType(c.values, e) = fn.types[x]
  PROVE  LET d == Assigned(c, x, k, op, args)
         IN  /\ Good(d) /\ \A o : UsableOperand(c, o) => UsableOperand(d, o)
             /\ d.env[x] # NoValue /\ \A y \in DOMAIN fn.types : y # x => d.env[y] = c.env[y]
<1> DEFINE d == Assigned(c, x, k, op, args)
           val == NewValue(c, x, fn.types[x], "stmt")
           s == NewStmt(k, op, Len(c.values) + 1, args)
           env == [c.env EXCEPT ![x] = Len(c.values) + 1]
<1>1. IsSeq(c.values) /\ Len(c.values) \in Nat BY GoodFacts
<1>2. c.env = [y \in DOMAIN fn.types |-> c.env[y]] BY DEF Good, EnvTyped
<1>3. x \in DOMAIN c.env BY <1>2
<1>4. d = Emitted(c, val, s, env) BY <1>1, <1>3, AssignedIs
<1>5. val.block = c.block /\ val.t = fn.types[x] /\ s.x = Len(c.values) + 1 /\ s.args = args /\ s.k = k
  BY DEF NewValue, NewStmt
<1>6. /\ env = [y \in DOMAIN fn.types |-> env[y]] /\ env[x] = Len(c.values) + 1
      /\ \A y \in DOMAIN fn.types : y # x => env[y] = c.env[y]
  BY <1>2
<1> HIDE DEF d, val, s, env
<1>7. \A y \in DOMAIN fn.types : env[y] = c.env[y] \/ (env[y] = Len(c.values) + 1 /\ val.t = fn.types[y])
  BY <1>5, <1>6
<1> DEFINE e == Emitted(c, val, s, env)
<1>8. Good(e) /\ \A o : UsableOperand(c, o) => UsableOperand(e, o)
  BY <1>5, <1>6, <1>7, EmittedGood
<1>9. e.env = env BY DEF Emitted, Context
<1> HIDE DEF e
<1>10. d = e BY <1>4 DEF e
<1>11. Len(c.values) + 1 # NoValue BY <1>1 DEF NoValue
<1> QED BY <1>6, <1>8, <1>9, <1>10, <1>11 DEF d

-----------------------------------------------------------------------------
(* Conversions and dynamic writes *)

\* castTo adds at most one statement and yields an operand of the type asked for.
LEMMA CastFacts ==
  ASSUME WellFormed(fn), NEW c, Shape(c), NEW o, NEW t
  PROVE  LET r == CastTo(c, o, t)
         IN  /\ Shape(r.c) /\ r.c.block = c.block /\ r.c.ok = c.ok /\ r.c.env = c.env
             /\ Good(c) /\ UsableOperand(c, o) =>
                  /\ Good(r.c) /\ UsableOperand(r.c, r.o)
                  /\ \A p : UsableOperand(c, p) => UsableOperand(r.c, p)
<1> DEFINE d == DefineGenerated(c, t, CastKind(TypeOf(c, o), t), <<o>>)
           r == CastTo(c, o, t)
<1>1. r = IF TypeOf(c, o) = t THEN [c |-> c, o |-> o] ELSE [c |-> d, o |-> Val(Newest(d))]
  BY DEF CastTo
<1>2. IsSeq(<<o>>) /\ ToSet(<<o>>) = {o} BY SingleFacts
<1>3. Shape(d) /\ d.block = c.block /\ d.ok = c.ok /\ d.env = c.env BY GeneratedIs
<1>4. ASSUME Good(c), UsableOperand(c, o)
      PROVE  Good(d) /\ Usable(d, Newest(d)) /\ \A p : UsableOperand(c, p) => UsableOperand(d, p)
  BY <1>2, <1>4, GeneratedGood
<1> HIDE DEF d, r
<1>5. CASE TypeOf(c, o) = t
  <2>1. r.c = c /\ r.o = o BY <1>1, <1>5
  <2> QED BY <2>1 DEF r
<1>6. CASE TypeOf(c, o) # t
  <2>1. r.c = d /\ r.o = Val(Newest(d)) BY <1>1, <1>6
  <2>2. Usable(d, Newest(d)) => UsableOperand(d, Val(Newest(d))) BY DEF UsableOperand, Val
  <2> QED BY <1>3, <1>4, <2>1, <2>2 DEF r
<1> QED BY <1>5, <1>6

\* Writing one element fails for an input; otherwise the context stays good.
LEMMA ElementFacts ==
  ASSUME WellFormed(fn), NEW c, Shape(c), NEW e
  PROVE  LET w == WriteElement(c, e)
         IN  /\ Shape(w) /\ w.block = c.block
             /\ e.to \in InputPorts(fn) => ~w.ok
             /\ e.to \notin InputPorts(fn) => w.ok = c.ok
             /\ /\ Good(c) /\ e.to \in DOMAIN fn.types /\ e.to \notin InputPorts(fn)
                /\ UsableOperand(c, e.index) /\ UsableOperand(c, e.value) /\ UsableOperand(c, e.old)
                => /\ Good(w) /\ \A o : UsableOperand(c, o) => UsableOperand(w, o)
                   /\ w.env[e.to] # NoValue
                   /\ \A y \in DOMAIN fn.types : y # e.to => w.env[y] = c.env[y]
<1> DEFINE t == fn.types[e.to]
           lit == ElementLiteral(e.place, TypeOf(c, e.index))
           cmp == <<e.index, lit>>
           eq == DefineGenerated(c, Bool, "eq", cmp)
           new == CastTo(eq, e.value, t)
           old == CastTo(new.c, e.old, t)
           sel == Val(Newest(eq))
           args == <<sel, new.o, old.o>>
           w == WriteElement(c, e)
<1>1. w = Assigned(old.c, e.to, "op", "mux", args) BY DEF WriteElement, Assigned
<1>2. Shape(eq) /\ eq.block = c.block /\ eq.ok = c.ok /\ eq.env = c.env BY GeneratedIs
<1>3. lit.kind = "lit" BY DEF ElementLiteral, Lit
<1> HIDE DEF lit
<1>4. IsSeq(cmp) /\ ToSet(cmp) = {e.index, lit} BY TupleFacts
<1>5. ASSUME Good(c), UsableOperand(c, e.index)
      PROVE  /\ Good(eq) /\ UsableOperand(eq, sel)
             /\ \A o : UsableOperand(c, o) => UsableOperand(eq, o)
  <2>1. \A o \in ToSet(cmp) : UsableOperand(c, o) BY <1>3, <1>4, <1>5 DEF UsableOperand
  <2>2. Good(eq) /\ Usable(eq, Newest(eq)) /\ \A o : UsableOperand(c, o) => UsableOperand(eq, o)
    <3> HIDE DEF cmp
    <3> QED BY <1>4, <1>5, <2>1, GeneratedGood
  <2> HIDE DEF eq
  <2>3. UsableOperand(eq, sel) BY <2>2 DEF UsableOperand, Val
  <2> QED BY <2>2, <2>3
<1> HIDE DEF cmp, eq, sel
<1>6. /\ Shape(new.c) /\ new.c.block = eq.block /\ new.c.ok = eq.ok /\ new.c.env = eq.env
      /\ Good(eq) /\ UsableOperand(eq, e.value) =>
           /\ Good(new.c) /\ UsableOperand(new.c, new.o)
           /\ \A o : UsableOperand(eq, o) => UsableOperand(new.c, o)
  BY <1>2, CastFacts
<1> HIDE DEF new
<1>7. /\ Shape(old.c) /\ old.c.block = new.c.block /\ old.c.ok = new.c.ok /\ old.c.env = new.c.env
      /\ Good(new.c) /\ UsableOperand(new.c, e.old) =>
           /\ Good(old.c) /\ UsableOperand(old.c, old.o)
           /\ \A o : UsableOperand(new.c, o) => UsableOperand(old.c, o)
  BY <1>6, CastFacts
<1> HIDE DEF old
<1>8. IsSeq(args) /\ ToSet(args) = {sel, new.o, old.o} BY TupleFacts
<1> HIDE DEF args, w
<1>9. /\ Shape(w) /\ w.block = old.c.block
      /\ e.to \in InputPorts(fn) => ~w.ok
      /\ e.to \notin InputPorts(fn) => w.ok = old.c.ok
  <2> DEFINE d == Assigned(old.c, e.to, "op", "mux", args)
  <2>1. /\ Shape(d) /\ d.block = old.c.block
        /\ e.to \in InputPorts(fn) => ~d.ok
        /\ e.to \notin InputPorts(fn) => d.ok = old.c.ok
    BY <1>7, AssignedFacts
  <2> HIDE DEF d
  <2> QED BY <1>1, <2>1 DEF d
<1>10. ASSUME Good(c), e.to \in DOMAIN fn.types, e.to \notin InputPorts(fn),
              UsableOperand(c, e.index), UsableOperand(c, e.value), UsableOperand(c, e.old)
       PROVE  /\ Good(w) /\ \A o : UsableOperand(c, o) => UsableOperand(w, o)
              /\ w.env[e.to] # NoValue
              /\ \A y \in DOMAIN fn.types : y # e.to => w.env[y] = c.env[y]
  <2>1. /\ Good(eq) /\ UsableOperand(eq, sel) /\ \A o : UsableOperand(c, o) => UsableOperand(eq, o)
    BY <1>5, <1>10
  <2>2. /\ Good(new.c) /\ UsableOperand(new.c, new.o)
        /\ \A o : UsableOperand(eq, o) => UsableOperand(new.c, o)
    BY <1>6, <1>10, <2>1
  <2>3. /\ Good(old.c) /\ UsableOperand(old.c, old.o)
        /\ \A o : UsableOperand(new.c, o) => UsableOperand(old.c, o)
    BY <1>7, <1>10, <2>1, <2>2
  <2>4. \A o \in ToSet(args) : UsableOperand(old.c, o) BY <1>8, <2>1, <2>2, <2>3
  <2> DEFINE d == Assigned(old.c, e.to, "op", "mux", args)
  <2>5. /\ Good(d) /\ \A o : UsableOperand(old.c, o) => UsableOperand(d, o)
        /\ d.env[e.to] # NoValue /\ \A y \in DOMAIN fn.types : y # e.to => d.env[y] = old.c.env[y]
    BY <1>7, <1>8, <1>10, <2>3, <2>4, AssignedGood
  <2> HIDE DEF d
  <2>6. w = d BY <1>1 DEF d
  <2>7. old.c.env = c.env BY <1>2, <1>6, <1>7
  <2> QED BY <2>1, <2>2, <2>3, <2>5, <2>6, <2>7
<1>11. w.block = c.block /\ old.c.ok = c.ok BY <1>2, <1>6, <1>7, <1>9
<1> QED BY <1>9, <1>10, <1>11 DEF w

\* An element of a dynamic write keeps the context good.
LEMMA ElementGood ==
  ASSUME WellFormed(fn), NEW c, Shape(c), NEW e, Good(c),
         e.to \in DOMAIN fn.types, e.to \notin InputPorts(fn),
         UsableOperand(c, e.index), UsableOperand(c, e.value), UsableOperand(c, e.old)
  PROVE  LET w == WriteElement(c, e)
         IN  /\ Good(w) /\ \A o : UsableOperand(c, o) => UsableOperand(w, o)
             /\ w.env[e.to] # NoValue
             /\ \A y \in DOMAIN fn.types : y # e.to => w.env[y] = c.env[y]
BY ElementFacts

\* Operands that can be read become values that can be used, of the same type.
LEMMA RewriteFacts ==
  ASSUME WellFormed(fn), NEW c, Good(c), NEW args, OperandsOk(fn, args), CanRead(c, args)
  PROVE  LET r == Rewrite(c, args)
         IN  /\ IsSeq(r) /\ Len(r) = Len(args) /\ Len(args) \in Nat
             /\ \A i \in 1..Len(args) : OpType(c.values, r[i]) = OperandType(fn, args[i])
             /\ \A o \in ToSet(r) : UsableOperand(c, o)
<1> DEFINE r == Rewrite(c, args)
           n == Len(args)
<1>1. IsSeq(args) /\ n \in Nat /\ DOMAIN args = 1..n BY ReadsFacts, SeqFacts
<1>2. r = [i \in 1..n |-> IF args[i].kind = "lit" THEN args[i] ELSE Val(c.env[args[i].v])]
  BY <1>1 DEF Rewrite
<1>3. ASSUME NEW i \in 1..n
      PROVE  r[i] = IF args[i].kind = "lit" THEN args[i] ELSE Val(c.env[args[i].v])
  BY <1>2
<1>4. r = [i \in 1..n |-> r[i]] BY <1>2
<1> HIDE DEF r
<1>5. IsSeq(r) /\ Len(r) = n BY <1>1, <1>4, SeqIs
<1>6. ASSUME NEW i \in 1..n
      PROVE  UsableOperand(c, r[i]) /\ OpType(c.values, r[i]) = OperandType(fn, args[i])
  <2>1. CASE args[i].kind = "lit"
    <3>1. r[i] = args[i] BY <1>3, <2>1
    <3> QED BY <2>1, <3>1 DEF UsableOperand, OpType, OperandType
  <2>2. CASE args[i].kind # "lit"
    <3> DEFINE x == args[i].v
    <3>1. x \in Reads(args) /\ x \in DOMAIN fn.types BY <1>1, <2>2, ReadsFacts
    <3>2. c.env[x] # NoValue BY <3>1 DEF CanRead
    <3>3. Usable(c, c.env[x]) /\ c.values[c.env[x]].t = fn.types[x]
      BY <3>1, <3>2 DEF Good, EnvTyped
    <3>4. r[i] = Val(c.env[x]) BY <1>3, <2>2
    <3>5. r[i].kind = "val" /\ r[i].v = c.env[x] BY <3>4 DEF Val
    <3> QED BY <2>2, <3>3, <3>5 DEF UsableOperand, OpType, OperandType
  <2> QED BY <2>1, <2>2
<1>7. ToSet(r) = {r[i] : i \in 1..n} BY <1>5, SeqFacts
<1>8. \A o \in ToSet(r) : UsableOperand(c, o) BY <1>6, <1>7
<1> QED BY <1>1, <1>5, <1>6, <1>8 DEF r

\* The elements of a dynamic write.
LEMMA WriteFacts ==
  ASSUME WellFormed(fn), NEW c, Shape(c), NEW s, StmtAllowed(fn, s), s.k = "write"
  PROVE  LET r == RewriteWrite(c, s)
         IN  /\ Shape(r) /\ r.block = c.block
             /\ (\E x \in ToSet(s.to) : x \in InputPorts(fn)) => ~r.ok
             /\ (\A x \in ToSet(s.to) : x \notin InputPorts(fn)) => r.ok = c.ok
             /\ /\ Good(c) /\ CanRead(c, s.args) /\ \A x \in ToSet(s.to) : x \notin InputPorts(fn)
                => /\ Good(r)
                   /\ \A y \in DOMAIN fn.types :
                        r.env[y] = NoValue <=> c.env[y] = NoValue /\ y \notin ToSet(s.to)
<1> DEFINE args == Rewrite(c, s.args)
           n == Len(s.to)
           els == [i \in DOMAIN s.to |-> [to |-> s.to[i], place |-> i, index |-> args[1],
                                          value |-> args[2], old |-> args[i + 2]]]
           r == RewriteWrite(c, s)
           Inp == InputPorts(fn)
<1>1. /\ OperandsOk(fn, s.args) /\ IsSeq(s.to) /\ ToSet(s.to) \subseteq DOMAIN fn.types
      /\ Len(s.args) = Len(s.to) + 2
  BY DEF StmtAllowed, IsSequence, IsSeq
<1>2. n \in Nat /\ DOMAIN s.to = 1..n /\ ToSet(s.to) = {s.to[i] : i \in 1..n} BY <1>1, SeqFacts
<1>3. DOMAIN els = 1..n /\ \A i \in 1..n : /\ els[i].to = s.to[i] /\ els[i].index = args[1]
                                           /\ els[i].value = args[2] /\ els[i].old = args[i + 2]
  BY <1>2
<1>4. r = FoldLeft(WriteElement, c, els) BY DEF RewriteWrite
<1> HIDE DEF els, args, r, n
<1>5. PICK it : WriteElementSteps!Steps(it, c, els, n) /\ FoldLeft(WriteElement, c, els) = it[n]
  <2>1. DOMAIN els = 1..n BY <1>3
  <2> QED BY <1>2, <2>1, ElementFold
<1>6. it[0] = c /\ \A k \in 1..n : it[k] = WriteElement(it[k - 1], els[k])
  BY <1>5 DEF WriteElementSteps!Steps
<1> DEFINE NoInput(k) == \A j \in 1..k : s.to[j] \notin Inp
           Kept(k) == /\ Shape(it[k]) /\ it[k].block = c.block
                      /\ ~NoInput(k) => ~it[k].ok
                      /\ NoInput(k) => it[k].ok = c.ok
           T == {k \in Nat : k <= n => Kept(k)}
<1>7. 0 \in T
  <2>1. 1..0 = {} OBVIOUS
  <2> QED BY <1>6, <2>1
<1>8. ASSUME NEW k \in Nat, k \in T PROVE k + 1 \in T
  <2> SUFFICES ASSUME k + 1 <= n PROVE Kept(k + 1) OBVIOUS
  <2>1. Kept(k) BY <1>2, <1>8
  <2>2. k + 1 \in 1..n /\ (k + 1) - 1 = k BY <1>2
  <2>3. it[k + 1] = WriteElement(it[k], els[k + 1]) /\ els[k + 1].to = s.to[k + 1]
    BY <1>3, <1>6, <2>2
  <2>4. NoInput(k + 1) <=> NoInput(k) /\ s.to[k + 1] \notin Inp
    <3>1. \A j : j \in 1..(k + 1) <=> j \in 1..k \/ j = k + 1 OBVIOUS
    <3> QED BY <3>1
  <2> HIDE DEF NoInput
  <2> DEFINE w == WriteElement(it[k], els[k + 1])
  <2>5. /\ Shape(w) /\ w.block = it[k].block
        /\ els[k + 1].to \in Inp => ~w.ok
        /\ els[k + 1].to \notin Inp => w.ok = it[k].ok
    BY <2>1, ElementFacts
  <2> HIDE DEF w
  <2>6. it[k + 1] = w BY <2>3 DEF w
  <2> QED BY <2>1, <2>3, <2>4, <2>5, <2>6
<1>9. n \in T
  <2> HIDE DEF T
  <2> QED BY <1>2, <1>7, <1>8, InductiveSet
<1>10. Kept(n)
  <2> HIDE DEF Kept
  <2>1. n <= n BY <1>2
  <2> QED BY <1>9, <2>1
<1>11. ASSUME Good(c), CanRead(c, s.args), \A x \in ToSet(s.to) : x \notin Inp
       PROVE  /\ Good(r)
              /\ \A y \in DOMAIN fn.types :
                   r.env[y] = NoValue <=> c.env[y] = NoValue /\ y \notin ToSet(s.to)
  <2>1. \A i \in 1..n : s.to[i] \in DOMAIN fn.types /\ s.to[i] \notin Inp BY <1>1, <1>2, <1>11
  <2>2. /\ IsSeq(args) /\ Len(args) = n + 2 /\ \A o \in ToSet(args) : UsableOperand(c, o)
    BY <1>1, <1>11, RewriteFacts DEF args, n
  <2>3. \A i \in 1..(n + 2) : UsableOperand(c, args[i])
    <3>1. ToSet(args) = {args[i] : i \in 1..(n + 2)} BY <2>2, SeqFacts
    <3> QED BY <2>2, <3>1
  <2> DEFINE Right(k) == /\ Good(it[k])
                         /\ \A i \in 1..(n + 2) : UsableOperand(it[k], args[i])
                         /\ \A y \in DOMAIN fn.types :
                              it[k].env[y] = NoValue <=>
                                c.env[y] = NoValue /\ \A j \in 1..k : s.to[j] # y
             U == {k \in Nat : k <= n => Right(k)}
  <2>4. 0 \in U
    <3>1. 1..0 = {} OBVIOUS
    <3> QED BY <1>6, <1>11, <2>3, <3>1
  <2>5. ASSUME NEW k \in Nat, k \in U PROVE k + 1 \in U
    <3> SUFFICES ASSUME k + 1 <= n PROVE Right(k + 1) OBVIOUS
    <3>1. Right(k) BY <1>2, <2>5
    <3>2. k + 1 \in 1..n /\ (k + 1) - 1 = k BY <1>2
    <3>3. /\ it[k + 1] = WriteElement(it[k], els[k + 1])
          /\ els[k + 1].to = s.to[k + 1] /\ els[k + 1].index = args[1]
          /\ els[k + 1].value = args[2] /\ els[k + 1].old = args[(k + 1) + 2]
      BY <1>3, <1>6, <3>2
    <3>4. 1 \in 1..(n + 2) /\ 2 \in 1..(n + 2) /\ (k + 1) + 2 \in 1..(n + 2) BY <1>2
    <3>5. Shape(it[k])
      <4>1. \A l \in Nat : l \in T BY <1>7, <1>8, InductiveSet
      <4>2. k <= n BY <1>2
      <4> QED BY <4>1, <4>2
    <3> HIDE DEF T
    <3> DEFINE e == els[k + 1]
               w == WriteElement(it[k], e)
    <3>6. e.to \in DOMAIN fn.types /\ e.to \notin Inp BY <2>1, <3>2, <3>3
    <3>7. UsableOperand(it[k], e.index) /\ UsableOperand(it[k], e.value) /\ UsableOperand(it[k], e.old)
      BY <3>1, <3>3, <3>4
    <3>8. /\ Good(w) /\ \A o : UsableOperand(it[k], o) => UsableOperand(w, o)
          /\ w.env[e.to] # NoValue
          /\ \A y \in DOMAIN fn.types : y # e.to => w.env[y] = it[k].env[y]
      <4> HIDE DEF e
      <4> QED BY <3>1, <3>5, <3>6, <3>7, ElementGood DEF Inp
    <3> HIDE DEF w
    <3>9. it[k + 1] = w BY <3>3 DEF w
    <3>10. \A i \in 1..(n + 2) : UsableOperand(w, args[i]) BY <3>1, <3>8
    <3>11. ASSUME NEW y \in DOMAIN fn.types
           PROVE  w.env[y] = NoValue <=> c.env[y] = NoValue /\ \A j \in 1..(k + 1) : s.to[j] # y
      <4>1. \A j : j \in 1..(k + 1) <=> j \in 1..k \/ j = k + 1 OBVIOUS
      <4>2. (\A j \in 1..(k + 1) : s.to[j] # y) <=> (\A j \in 1..k : s.to[j] # y) /\ s.to[k + 1] # y
        BY <4>1
      <4>3. CASE y = s.to[k + 1] BY <3>3, <3>8, <4>2, <4>3
      <4>4. CASE y # s.to[k + 1]
        <5>1. w.env[y] = it[k].env[y] BY <3>3, <3>8, <4>4
        <5> QED BY <3>1, <4>2, <4>4, <5>1
      <4> QED BY <4>3, <4>4
    <3> QED BY <3>8, <3>9, <3>10, <3>11
  <2> HIDE DEF U
  <2>6. n \in U BY <1>2, <2>4, <2>5, InductiveSet
  <2>7. Right(n)
    <3> HIDE DEF Right
    <3>1. n <= n BY <1>2
    <3> QED BY <2>6, <3>1 DEF U
  <2>8. r = it[n] BY <1>4, <1>5
  <2>9. \A y : y \notin ToSet(s.to) <=> \A j \in 1..n : s.to[j] # y BY <1>2
  <2> QED BY <2>7, <2>8, <2>9
<1>12. NoInput(n) <=> \A x \in ToSet(s.to) : x \notin Inp BY <1>2
<1>13. r = it[n] BY <1>4, <1>5
<1> HIDE DEF NoInput, Inp
<1>14. /\ Shape(r) /\ r.block = c.block
       /\ (\E x \in ToSet(s.to) : x \in Inp) => ~r.ok
       /\ (\A x \in ToSet(s.to) : x \notin Inp) => r.ok = c.ok
  BY <1>10, <1>12, <1>13
<1> QED BY <1>11, <1>14 DEF r, Inp

\* A statement.
LEMMA StmtFacts ==
  ASSUME WellFormed(fn), NEW c, Shape(c), c.ok => Good(c), NEW s, StmtAllowed(fn, s)
  PROVE  LET d == RewriteStmt(c, s)
         IN  /\ Shape(d) /\ d.block = c.block
             /\ d.ok => /\ c.ok /\ CanRead(c, s.args) /\ \A x \in ToSet(s.to) : x \notin InputPorts(fn)
                        /\ Good(d)
                        /\ \A y \in DOMAIN fn.types :
                             d.env[y] = NoValue <=> c.env[y] = NoValue /\ y \notin ToSet(s.to)
             /\ ~d.ok => ~c.ok \/ ~CanRead(c, s.args) \/ \E x \in ToSet(s.to) : x \in InputPorts(fn)
<1> DEFINE d == RewriteStmt(c, s)
<1>1. CASE ~c.ok \/ ~CanRead(c, s.args)
  <2>1. d = [c EXCEPT !.ok = FALSE] BY <1>1 DEF RewriteStmt
  <2>2. d = Context(c.values, c.env, c.phis, c.stmts, c.term, c.block, FALSE) BY <2>1 DEF Shape, Context
  <2>3. Shape(d) /\ d.block = c.block /\ ~d.ok BY <2>2 DEF Shape, Context
  <2> HIDE DEF d
  <2> QED BY <1>1, <2>3 DEF d
<1>2. CASE c.ok /\ CanRead(c, s.args) /\ s.k = "write"
  <2> DEFINE r == RewriteWrite(c, s)
  <2>1. d = r BY <1>2 DEF RewriteStmt
  <2>2. /\ Shape(r) /\ r.block = c.block
        /\ (\E x \in ToSet(s.to) : x \in InputPorts(fn)) => ~r.ok
        /\ (\A x \in ToSet(s.to) : x \notin InputPorts(fn)) => r.ok = c.ok
        /\ (\A x \in ToSet(s.to) : x \notin InputPorts(fn)) =>
              /\ Good(r)
              /\ \A y \in DOMAIN fn.types :
                   r.env[y] = NoValue <=> c.env[y] = NoValue /\ y \notin ToSet(s.to)
    BY <1>2, WriteFacts
  <2> HIDE DEF r, d
  <2> QED BY <1>2, <2>1, <2>2 DEF d
<1>3. CASE c.ok /\ CanRead(c, s.args) /\ s.k # "write"
  <2> DEFINE x == s.to[1]
             args == Rewrite(c, s.args)
             a == Assigned(c, x, s.k, s.op, args)
  <2>1. d = a BY <1>3 DEF RewriteStmt, Assigned
  <2>2. /\ Shape(a) /\ a.block = c.block
        /\ x \in InputPorts(fn) => ~a.ok
        /\ x \notin InputPorts(fn) => a.ok = c.ok
    BY AssignedFacts
  <2>3. /\ OperandsOk(fn, s.args) /\ IsSeq(s.to) /\ ToSet(s.to) \subseteq DOMAIN fn.types
        /\ Len(s.to) = 1
        /\ s.k = "assign" => s.args # <<>> /\ OperandType(fn, s.args[1]) = fn.types[x]
        /\ s.k = "lookup" => /\ s.args # <<>>
                             /\ \A e \in ToSet(Tail(s.args)) : OperandType(fn, e) = fn.types[x]
    BY <1>3 DEF StmtAllowed, IsSequence, IsSeq
  <2>4. ToSet(s.to) = {x} /\ x \in DOMAIN fn.types
    <3>1. ToSet(s.to) = {s.to[i] : i \in 1..1} BY <2>3, SeqFacts
    <3>2. 1..1 = {1} OBVIOUS
    <3>3. ToSet(s.to) = {x} BY <3>1, <3>2
    <3> QED BY <2>3, <3>3
  <2>5. Good(c) BY <1>3
  <2>6. /\ IsSeq(args) /\ Len(args) = Len(s.args) /\ Len(s.args) \in Nat
        /\ \A i \in 1..Len(s.args) : OpType(c.values, args[i]) = OperandType(fn, s.args[i])
        /\ \A o \in ToSet(args) : UsableOperand(c, o)
    BY <1>3, <2>3, <2>5, RewriteFacts
  <2>7. IsSeq(s.args) BY <2>3, ReadsFacts
  <2> HIDE DEF args, a, d, x
  <2>8. s.args # <<>> => /\ args # <<>> /\ OpType(c.values, args[1]) = OperandType(fn, s.args[1])
                         /\ \A e \in ToSet(Tail(args)) :
                              \E f \in ToSet(Tail(s.args)) : OpType(c.values, e) = OperandType(fn, f)
    <3> SUFFICES ASSUME s.args # <<>>
                 PROVE  /\ args # <<>> /\ OpType(c.values, args[1]) = OperandType(fn, s.args[1])
                        /\ \A e \in ToSet(Tail(args)) :
                             \E f \in ToSet(Tail(s.args)) : OpType(c.values, e) = OperandType(fn, f)
      OBVIOUS
    <3> DEFINE n == Len(s.args)
    <3>1. n \in Nat \ {0} /\ ToSet(Tail(s.args)) = {s.args[i + 1] : i \in 1..(n - 1)}
      <4>1. s.args # <<>> OBVIOUS
      <4> QED BY <2>7, <4>1, TailInside
    <3>2. args # <<>> BY <2>6, <3>1, SeqFacts
    <3>3. ToSet(Tail(args)) = {args[i + 1] : i \in 1..(n - 1)} BY <2>6, <3>2, TailInside
    <3>4. 1 \in 1..n /\ \A i \in 1..(n - 1) : i + 1 \in 1..n BY <3>1
    <3> HIDE DEF n
    <3>5. ASSUME NEW i \in 1..(n - 1)
          PROVE  OpType(c.values, args[i + 1]) = OperandType(fn, s.args[i + 1])
      BY <2>6, <3>4 DEF n
    <3>6. OpType(c.values, args[1]) = OperandType(fn, s.args[1]) BY <2>6, <3>4 DEF n
    <3> QED BY <3>1, <3>2, <3>3, <3>5, <3>6
  <2>9. /\ s.k = "assign" => args # <<>> /\ OpType(c.values, args[1]) = fn.types[x]
        /\ s.k = "lookup" => args # <<>> /\ \A e \in ToSet(Tail(args)) : OpType(c.values, e) = fn.types[x]
    BY <2>3, <2>8
  <2>10. ASSUME x \notin InputPorts(fn)
         PROVE  Good(a) /\ a.env[x] # NoValue /\ \A y \in DOMAIN fn.types : y # x => a.env[y] = c.env[y]
    BY <2>4, <2>5, <2>6, <2>9, <2>10, AssignedGood DEF a
  <2> QED BY <1>3, <2>1, <2>2, <2>4, <2>10 DEF d
<1> QED BY <1>1, <1>2, <1>3

\* The statements of a block.
LEMMA BodyFacts ==
  ASSUME WellFormed(fn), NEW c, Shape(c), c.ok => Good(c), NEW s, IsSeq(s),
         \A i \in 1..Len(s) : StmtAllowed(fn, s[i])
  PROVE  LET d == FoldLeft(RewriteStmt, c, s)
         IN  /\ Shape(d) /\ d.block = c.block
             /\ d.ok => /\ c.ok /\ Good(d)
                        /\ \A x : ReadsIn(s, Len(s), x) => c.env[x] # NoValue
                        /\ \A x \in InputPorts(fn) : ~WritesIn(s, Len(s), x)
                        /\ \A y \in DOMAIN fn.types :
                             d.env[y] = NoValue <=> c.env[y] = NoValue /\ ~WritesIn(s, Len(s), y)
             /\ ~d.ok => \/ ~c.ok
                         \/ \E x : ReadsIn(s, Len(s), x) /\ c.env[x] = NoValue
                         \/ \E x \in InputPorts(fn) : WritesIn(s, Len(s), x)
<1> DEFINE n == Len(s)
           d == FoldLeft(RewriteStmt, c, s)
<1>1. n \in Nat /\ DOMAIN s = 1..n BY SeqFacts
<1> HIDE DEF n, d
<1>2. PICK it : RewriteStmtSteps!Steps(it, c, s, n) /\ FoldLeft(RewriteStmt, c, s) = it[n]
  BY <1>1, RewriteFold
<1>3. it[0] = c /\ \A k \in 1..n : it[k] = RewriteStmt(it[k - 1], s[k])
  BY <1>2 DEF RewriteStmtSteps!Steps
<1> DEFINE Done(k) == /\ c.ok /\ Good(it[k])
                      /\ \A x : ReadsIn(s, k, x) => c.env[x] # NoValue
                      /\ \A x \in InputPorts(fn) : ~WritesIn(s, k, x)
                      /\ \A y \in DOMAIN fn.types :
                           it[k].env[y] = NoValue <=> c.env[y] = NoValue /\ ~WritesIn(s, k, y)
           Failed(k) == \/ ~c.ok
                        \/ \E x : ReadsIn(s, k, x) /\ c.env[x] = NoValue
                        \/ \E x \in InputPorts(fn) : WritesIn(s, k, x)
           Right(k) == /\ Shape(it[k]) /\ it[k].block = c.block
                       /\ it[k].ok => Done(k)
                       /\ ~it[k].ok => Failed(k)
           T == {k \in Nat : k <= n => Right(k)}
<1>4. 0 \in T
  <2>1. \A x : ~WritesIn(s, 0, x) /\ ~ReadsIn(s, 0, x) BY WritesInGrows
  <2> QED BY <1>3, <2>1
<1>5. ASSUME NEW k \in Nat, k \in T PROVE k + 1 \in T
  <2> SUFFICES ASSUME k + 1 <= n PROVE Right(k + 1) OBVIOUS
  <2>1. Right(k) BY <1>1, <1>5
  <2>2. k + 1 \in 1..n /\ (k + 1) - 1 = k BY <1>1
  <2>3. it[k + 1] = RewriteStmt(it[k], s[k + 1]) BY <1>3, <2>2
  <2>4. StmtAllowed(fn, s[k + 1]) BY <2>2 DEF n
  <2> DEFINE u == s[k + 1]
             w == RewriteStmt(it[k], u)
  <2>5. \A x : /\ WritesIn(s, k + 1, x) <=> WritesIn(s, k, x) \/ x \in ToSet(u.to)
               /\ ReadsIn(s, k + 1, x) <=> \/ ReadsIn(s, k, x)
                                           \/ x \in Reads(u.args) /\ ~WritesIn(s, k, x)
    BY WritesInGrows
  <2>6. Reads(u.args) \subseteq DOMAIN fn.types BY <2>4, ReadsFacts DEF StmtAllowed
  <2>7. Shape(it[k]) /\ (it[k].ok => Good(it[k])) /\ StmtAllowed(fn, u) BY <2>1, <2>4
  <2>8. /\ Shape(w) /\ w.block = it[k].block
        /\ w.ok => /\ it[k].ok /\ CanRead(it[k], u.args) /\ \A x \in ToSet(u.to) : x \notin InputPorts(fn)
                   /\ Good(w)
                   /\ \A y \in DOMAIN fn.types :
                        w.env[y] = NoValue <=> it[k].env[y] = NoValue /\ y \notin ToSet(u.to)
        /\ ~w.ok => \/ ~it[k].ok \/ ~CanRead(it[k], u.args)
                    \/ \E x \in ToSet(u.to) : x \in InputPorts(fn)
    <3> HIDE DEF u
    <3> QED BY <2>7, StmtFacts
  <2>9. it[k + 1] = w BY <2>3
  <2> HIDE DEF u, w
  <2>10. ASSUME w.ok PROVE Done(k + 1)
    <3>1. Done(k) /\ CanRead(it[k], u.args) BY <2>1, <2>8, <2>10
    <3>2. ASSUME NEW x, ReadsIn(s, k + 1, x) PROVE c.env[x] # NoValue
      <4>1. CASE ReadsIn(s, k, x) BY <3>1, <4>1
      <4>2. CASE x \in Reads(u.args) /\ ~WritesIn(s, k, x)
        <5>1. it[k].env[x] # NoValue BY <3>1, <4>2 DEF CanRead
        <5>2. x \in DOMAIN fn.types BY <2>6, <4>2
        <5> QED BY <3>1, <4>2, <5>1, <5>2
      <4> QED BY <2>5, <3>2, <4>1, <4>2
    <3>3. \A x \in InputPorts(fn) : ~WritesIn(s, k + 1, x) BY <2>5, <2>8, <2>10, <3>1
    <3>4. \A y \in DOMAIN fn.types :
            w.env[y] = NoValue <=> c.env[y] = NoValue /\ ~WritesIn(s, k + 1, y)
      BY <2>5, <2>8, <2>10, <3>1
    <3> QED BY <2>8, <2>9, <2>10, <3>1, <3>2, <3>3, <3>4
  <2>11. ASSUME ~w.ok PROVE Failed(k + 1)
    <3>1. CASE ~it[k].ok
      <4>1. Failed(k) BY <2>1, <3>1
      <4> QED BY <2>5, <4>1
    <3>2. CASE it[k].ok /\ ~CanRead(it[k], u.args)
      <4>1. Done(k) BY <2>1, <3>2
      <4>2. PICK x \in Reads(u.args) : it[k].env[x] = NoValue BY <3>2 DEF CanRead
      <4>3. c.env[x] = NoValue /\ ~WritesIn(s, k, x) BY <2>6, <4>1, <4>2
      <4>4. ReadsIn(s, k + 1, x) BY <2>5, <4>2, <4>3
      <4> QED BY <4>3, <4>4
    <3>3. CASE \E x \in ToSet(u.to) : x \in InputPorts(fn) BY <2>5, <3>3
    <3> QED BY <2>8, <2>11, <3>1, <3>2, <3>3
  <2> HIDE DEF Done, Failed
  <2> QED BY <2>1, <2>8, <2>9, <2>10, <2>11
<1> HIDE DEF T
<1>6. n \in T BY <1>1, <1>4, <1>5, InductiveSet
<1>7. Right(n)
  <2> HIDE DEF Right
  <2>1. n <= n BY <1>1
  <2> QED BY <1>6, <2>1 DEF T
<1>8. d = it[n] BY <1>2 DEF d
<1> QED BY <1>7, <1>8 DEF d, n

\* The elements of a concatenation.
LEMMA ConcatSet ==
  ASSUME NEW s, NEW t, IsSeq(s), IsSeq(t)
  PROVE  ToSet(s \o t) = ToSet(s) \cup ToSet(t)
<1> DEFINE u == s \o t
<1>1. /\ IsSeq(u) /\ Len(u) = Len(s) + Len(t)
      /\ \A i \in 1..Len(s) : u[i] = s[i]
      /\ \A i \in 1..Len(t) : u[Len(s) + i] = t[i]
  BY ConcatFacts
<1> HIDE DEF u
<1>2. /\ Len(s) \in Nat /\ Len(t) \in Nat /\ ToSet(s) = {s[i] : i \in 1..Len(s)}
      /\ ToSet(t) = {t[i] : i \in 1..Len(t)} /\ ToSet(u) = {u[i] : i \in 1..Len(u)}
  BY <1>1, SeqFacts
<1>3. ASSUME NEW i \in 1..Len(u) PROVE u[i] \in ToSet(s) \cup ToSet(t)
  <2>1. CASE i \in 1..Len(s) BY <1>1, <1>2, <2>1
  <2>2. CASE i \notin 1..Len(s)
    <3>1. i - Len(s) \in 1..Len(t) /\ Len(s) + (i - Len(s)) = i BY <1>1, <1>2, <2>2
    <3>2. u[Len(s) + (i - Len(s))] = t[i - Len(s)] BY <1>1, <3>1
    <3> QED BY <1>2, <3>1, <3>2
  <2> QED BY <2>1, <2>2
<1>4. \A i \in 1..Len(s) : i \in 1..Len(u) BY <1>1, <1>2
<1>5. \A i \in 1..Len(t) : Len(s) + i \in 1..Len(u) BY <1>1, <1>2
<1>6. ToSet(s) \subseteq ToSet(u) BY <1>1, <1>2, <1>4
<1>7. ToSet(t) \subseteq ToSet(u) BY <1>1, <1>2, <1>5
<1>8. ToSet(u) \subseteq ToSet(s) \cup ToSet(t) BY <1>2, <1>3
<1> QED BY <1>6, <1>7, <1>8 DEF u

\* The terminator.
LEMMA TermFacts ==
  ASSUME WellFormed(fn), NEW c, Shape(c), c.ok => Good(c), NEW t, TermAllowed(fn, t)
  PROVE  LET d == RewriteTerm(c, t)
         IN  /\ d.ok => /\ c.ok /\ \A x \in ReadsOfTerm(t) : c.env[x] # NoValue
                        /\ d.values = c.values /\ d.env = c.env /\ d.phis = c.phis /\ d.stmts = c.stmts
                        /\ IsSeq(d.term.on) /\ \A o \in ToSet(d.term.on) : UsableOperand(c, o)
             /\ ~d.ok => ~c.ok \/ \E x \in ReadsOfTerm(t) : c.env[x] = NoValue
<1> DEFINE d == RewriteTerm(c, t)
<1>1. OperandsOk(fn, t.on) /\ OperandsOk(fn, t.cases) BY DEF TermAllowed
<1>2. Reads(t.on \o t.cases) = ReadsOfTerm(t)
  <2>1. IsSeq(t.on) /\ IsSeq(t.cases) BY <1>1, ReadsFacts
  <2>2. ToSet(t.on \o t.cases) = ToSet(t.on) \cup ToSet(t.cases) BY <2>1, ConcatSet
  <2> QED BY <2>2 DEF Reads, ReadsOfTerm
<1>3. CASE ~c.ok \/ ~CanRead(c, t.on \o t.cases)
  <2>1. d = [c EXCEPT !.ok = FALSE] BY <1>3 DEF RewriteTerm
  <2>2. d = Context(c.values, c.env, c.phis, c.stmts, c.term, c.block, FALSE) BY <2>1 DEF Shape, Context
  <2>3. ~d.ok BY <2>2 DEF Context
  <2> HIDE DEF d
  <2> QED BY <1>2, <1>3, <2>3 DEF d, CanRead
<1>4. CASE c.ok /\ CanRead(c, t.on \o t.cases)
  <2> DEFINE on == Rewrite(c, t.on)
             new == [kind |-> t.kind, on |-> on, cases |-> Rewrite(c, t.cases), to |-> t.to]
  <2>1. d = [c EXCEPT !.term = new] BY <1>4 DEF RewriteTerm
  <2>2. new.on = on OBVIOUS
  <2>3. CanRead(c, t.on) /\ \A x \in ReadsOfTerm(t) : c.env[x] # NoValue
    BY <1>2, <1>4 DEF CanRead, ReadsOfTerm
  <2>4. IsSeq(on) /\ \A o \in ToSet(on) : UsableOperand(c, o) BY <1>1, <1>4, <2>3, RewriteFacts
  <2> HIDE DEF new, on, d
  <2>5. d = Context(c.values, c.env, c.phis, c.stmts, new, c.block, c.ok) BY <2>1, FieldFacts
  <2>6. /\ d.values = c.values /\ d.env = c.env /\ d.phis = c.phis /\ d.stmts = c.stmts
        /\ d.term = new /\ d.ok = c.ok
    BY <2>5 DEF Context
  <2> QED BY <1>4, <2>2, <2>3, <2>4, <2>6 DEF d
<1> QED BY <1>3, <1>4

-----------------------------------------------------------------------------
(* The environments of the blocks that are renamed *)

EnvsRight ==
  /\ ssa.envs = [b \in Blocks(fn) |-> ssa.envs[b]]
  /\ \A b \in Renamed :
       /\ EnvTyped(ssa.values, ssa.envs[b])
       /\ \A x \in DOMAIN fn.types :
            ssa.envs[b][x] # NoValue => Defined(ssa.values, ssa.envs[b][x], b)

\* A variable that is still needed has a value at the end of a block, or is a
\* local that some path to there does not write.
MissingExplained ==
  \A b \in Renamed : \A x \in LiveOut(fn, ssa.exit, live, b) :
    ssa.envs[b][x] = NoValue => x \in Locals /\ b \in StaysUndefined(x) /\ ~Writes(b, x)

\* Where a path leaves a local undefined, nothing reads it and it has no value.
UndefinedKept ==
  \A b \in Renamed : \A x \in Locals : b \in StaysUndefined(x) =>
    ~ReadsFirst(b, x) /\ (~Writes(b, x) => ssa.envs[b][x] = NoValue)

InputsKept == \A b \in Renamed : \A x \in InputPorts(fn) : ~Writes(b, x)

\* What the next block relies on.
RenamingState ==
  /\ WellFormed(fn) /\ Forward(todo)
  /\ LiveTyped(live) /\ Accountable(live) /\ LiveSettled(live)
  /\ ValuesFrom(ssa.values, Renamed) /\ EnvsRight /\ MissingExplained /\ UndefinedKept

\* The predecessors of the next block are renamed.
LEMMA NextFacts ==
  ASSUME RenamingState, todo # <<>>
  PROVE  LET b == Head(todo)
         IN  /\ b \in Reached(fn) /\ b \in Blocks(fn) /\ b \notin Renamed
             /\ Preds(fn, b) \cap Reached(fn) \subseteq Renamed
             /\ b # fn.entry => Preds(fn, b) \cap Reached(fn) # {}
<1> DEFINE b == Head(todo)
           n == Len(todo)
<1>1. IsSeq(todo) /\ ToSet(todo) \subseteq Reached(fn) /\ WellFormed(fn)
      /\ \A i \in 1..n : \A j \in i..n : todo[i] \notin Succs(fn, todo[j])
  BY DEF RenamingState, Forward
<1>2. n \in Nat \ {0} /\ b = todo[1] /\ ToSet(todo) = {todo[i] : i \in 1..n}
  BY <1>1, TailFacts, SeqFacts
<1>3. 1 \in 1..n BY <1>2
<1>4. b \in Reached(fn) /\ b \in ToSet(todo) BY <1>1, <1>2, <1>3
<1>5. b \in Blocks(fn) BY <1>1, <1>4, ReachedFacts
<1> HIDE DEF b, n
<1>6. ASSUME NEW p \in Preds(fn, b) \cap Reached(fn) PROVE p \notin ToSet(todo)
  <2> SUFFICES ASSUME NEW j \in 1..n, todo[j] = p PROVE FALSE
    BY <1>2
  <2>1. b \in Succs(fn, todo[j]) BY DEF Preds
  <2> QED BY <1>1, <1>2, <1>3, <2>1
<1>7. Preds(fn, b) \cap Reached(fn) \subseteq Renamed BY <1>6 DEF Renamed
<1>8. b # fn.entry => Preds(fn, b) \cap Reached(fn) # {} BY <1>1, <1>4, ReachedPred
<1> QED BY <1>4, <1>5, <1>7, <1>8 DEF b, Renamed

\* A live variable without a value at a predecessor.
LEMMA MissingAtPred ==
  ASSUME RenamingState, NEW b \in Blocks(fn), NEW p \in Preds(fn, b) \cap Renamed, NEW x \in live[b],
         ssa.envs[p][x] = NoValue
  PROVE  x \in Locals /\ b \in StaysUndefined(x)
<1>1. b \in Succs(fn, p) BY DEF Preds
<1>2. x \in LiveOut(fn, ssa.exit, live, p) BY <1>1 DEF LiveOut
<1>3. x \in Locals /\ p \in StaysUndefined(x) /\ ~Writes(p, x)
  BY <1>2 DEF RenamingState, MissingExplained
<1>4. WellFormed(fn) BY DEF RenamingState
<1> QED BY <1>1, <1>3, <1>4, UndefinedFacts

\* A local that some path leaves undefined has no value at some predecessor.
LEMMA KeptAtPred ==
  ASSUME RenamingState, NEW b, b # fn.entry, Preds(fn, b) \cap Reached(fn) \subseteq Renamed,
         NEW x \in Locals, b \in StaysUndefined(x)
  PROVE  \E p \in Preds(fn, b) \cap Reached(fn) : ssa.envs[p][x] = NoValue
<1>1. WellFormed(fn) BY DEF RenamingState
<1>2. PICK p \in Preds(fn, b) : p \in StaysUndefined(x) /\ ~Writes(p, x) BY <1>1, UndefinedFacts
<1>3. p \in Reached(fn) BY <1>1, <1>2, UndefinedFacts
<1>4. p \in Renamed BY <1>2, <1>3
<1>5. ssa.envs[p][x] = NoValue BY <1>2, <1>4 DEF RenamingState, UndefinedKept
<1> QED BY <1>2, <1>3, <1>5

\* A live local that some path leaves undefined is read while it is.
LEMMA LiveUndefined ==
  ASSUME RenamingState, NEW b \in Blocks(fn), NEW x \in live[b], x \in Locals, b \in StaysUndefined(x)
  PROVE  ReadsUndefined
BY DEF RenamingState, Accountable, Locals, ReadsUndefined

-----------------------------------------------------------------------------
(* Where paths meet *)

\* What the predecessors say of x.
LEMMA IncomingFacts ==
  ASSUME RenamingState, NEW b \in Blocks(fn), NEW x
  PROVE  LET preds == Preds(fn, b) \cap Reached(fn)
             inc == Incoming(b, x)
         IN  /\ IsSeq(inc) /\ {i.pred : i \in ToSet(inc)} = preds
             /\ \A i, j \in 1..Len(inc) : inc[i].pred = inc[j].pred => i = j
             /\ \A i \in ToSet(inc) : i.value = ssa.envs[i.pred][x]
             /\ {i.value : i \in ToSet(inc)} = {ssa.envs[p][x] : p \in preds}
             /\ preds # {} => inc[1] \in ToSet(inc)
<1> DEFINE preds == Preds(fn, b) \cap Reached(fn)
           a == Ascending(preds)
           n == Cardinality(preds)
           inc == Incoming(b, x)
<1>1. Blocks(fn) \subseteq Nat /\ IsFiniteSet(Blocks(fn))
  <2>1. Len(fn.blocks) \in Nat /\ Blocks(fn) = 1..Len(fn.blocks) BY GraphFacts DEF RenamingState
  <2>2. IsFiniteSet(1..Len(fn.blocks)) BY <2>1, FS_Interval
  <2> QED BY <2>1, <2>2
<1>2. preds \in SUBSET Nat /\ IsFiniteSet(preds)
  <2>1. preds \in SUBSET Blocks(fn) BY DEF Preds
  <2> QED BY <1>1, <2>1, FS_Subset
<1>3. /\ IsSeq(a) /\ ToSet(a) = preds /\ Len(a) = n /\ n \in Nat
      /\ \A i, j \in 1..n : a[i] = a[j] => i = j
  BY <1>2, AscendingFacts
<1>4. DOMAIN a = 1..n /\ ToSet(a) = {a[i] : i \in 1..n} BY <1>3, SeqFacts
<1>5. inc = [i \in DOMAIN a |-> [pred |-> a[i], value |-> ssa.envs[a[i]][x]]] BY DEF Incoming
<1> HIDE DEF inc, a, n
<1>6. \A i \in 1..n : inc[i] = [pred |-> a[i], value |-> ssa.envs[a[i]][x]] BY <1>4, <1>5
<1>7. inc = [i \in 1..n |-> inc[i]] BY <1>4, <1>5
<1>8. IsSeq(inc) /\ Len(inc) = n BY <1>3, <1>7, SeqIs
<1>9. ToSet(inc) = {inc[i] : i \in 1..n} BY <1>8, SeqFacts
<1>10. \A i \in 1..n : inc[i].pred = a[i] /\ inc[i].value = ssa.envs[a[i]][x]
  <2> TAKE i \in 1..n
  <2>1. \A p, v : [pred |-> p, value |-> v].pred = p /\ [pred |-> p, value |-> v].value = v OBVIOUS
  <2>2. inc[i] = [pred |-> a[i], value |-> ssa.envs[a[i]][x]] BY <1>6
  <2>3. inc[i].pred = a[i] BY <2>1, <2>2
  <2>4. inc[i].value = ssa.envs[a[i]][x] BY <2>1, <2>2
  <2> QED BY <2>3, <2>4
<1>11. {i.pred : i \in ToSet(inc)} = preds
  <2>1. {i.pred : i \in ToSet(inc)} = {a[i] : i \in 1..n} BY <1>9, <1>10
  <2> HIDE DEF preds
  <2> QED BY <1>3, <1>4, <2>1
<1>12. \A i \in ToSet(inc) : i.value = ssa.envs[i.pred][x] BY <1>9, <1>10
<1>13. {i.value : i \in ToSet(inc)} = {ssa.envs[p][x] : p \in preds}
  <2> HIDE DEF preds
  <2>1. \A p \in preds : \E i \in ToSet(inc) : i.pred = p BY <1>11
  <2>2. \A i \in ToSet(inc) : i.pred \in preds BY <1>11
  <2> QED BY <1>12, <2>1, <2>2
<1>14. \A i, j \in 1..n : inc[i].pred = inc[j].pred => i = j BY <1>3, <1>10
<1>15. preds # {} => inc[1] \in ToSet(inc)
  <2> HIDE DEF preds
  <2> SUFFICES ASSUME preds # {} PROVE inc[1] \in ToSet(inc) OBVIOUS
  <2>1. PICK i \in 1..n : TRUE BY <1>3, <1>4
  <2>2. 1 \in 1..n BY <1>3, <2>1
  <2> QED BY <1>9, <2>2
<1> QED BY <1>8, <1>11, <1>12, <1>13, <1>14, <1>15 DEF inc

\* A value that all predecessors agree on, or have one each of.
LEMMA ValueAtPred ==
  ASSUME RenamingState, NEW p \in Renamed, NEW x \in DOMAIN fn.types, ssa.envs[p][x] # NoValue
  PROVE  LET v == ssa.envs[p][x]
         IN  /\ InRange(ssa.values, v) /\ ssa.values[v].t = fn.types[x] /\ Defined(ssa.values, v, p)
             /\ (ssa.values[v].kind = "initial" /\ ssa.values[v].block = NoBlock)
                  \/ ssa.values[v].block \in Renamed
<1>1. InRange(ssa.values, ssa.envs[p][x]) /\ ssa.values[ssa.envs[p][x]].t = fn.types[x]
  BY DEF RenamingState, EnvsRight, EnvTyped
<1>2. Defined(ssa.values, ssa.envs[p][x], p) BY DEF RenamingState, EnvsRight
<1> QED BY <1>1, <1>2 DEF RenamingState, ValuesFrom

\* A value that is defined at the end of every predecessor can be used.
LEMMA ReadyJoin ==
  ASSUME RenamingState, todo # <<>>, NEW v, InRange(ssa.values, v),
         Preds(fn, Head(todo)) \cap Reached(fn) # {}, Head(todo) # fn.entry,
         (ssa.values[v].kind = "initial" /\ ssa.values[v].block = NoBlock) \/ ssa.values[v].block \in Renamed,
         \A p \in Preds(fn, Head(todo)) \cap Reached(fn) : Defined(ssa.values, v, p),
         NEW code, NEW i
  PROVE  Ready(ssa.values, code, Head(todo), v, i)
<1> DEFINE b == Head(todo)
<1>1. b \in Reached(fn) /\ b \in Blocks(fn) /\ b \notin Renamed /\ WellFormed(fn)
  BY NextFacts DEF RenamingState
<1> HIDE DEF b
<1>2. ssa.values[v].block # b BY <1>1, GraphFacts
<1>3. CASE ssa.values[v].kind = "initial" BY <1>2, <1>3 DEF Ready, Defined, b
<1>4. CASE ssa.values[v].kind # "initial"
  <2>1. \A p \in Preds(fn, b) \cap Reached(fn) : Dominates(ssa.values[v].block, p)
    BY <1>4 DEF Defined, b
  <2>2. Dominates(ssa.values[v].block, b) BY <1>1, <2>1, DominatesJoin DEF b
  <2> QED BY <1>2, <2>2 DEF Ready, Defined, b
<1> QED BY <1>3, <1>4

\* A block that has no statement yet.
LEMMA GoodStart ==
  ASSUME NEW c, c.stmts = <<>>, Extends(ssa.values, c.values),
         ValuesFrom(c.values, Renamed \cup {c.block}), EnvTyped(c.values, c.env),
         \A x \in DOMAIN fn.types : c.env[x] # NoValue => Ready(c.values, c, c.block, c.env[x], 1),
         IsSeq(c.phis), \A phi \in ToSet(c.phis) : PhiRight(c.values, c.block, phi)
  PROVE  Good(c)
<1>1. IsSeq(c.stmts) /\ Len(c.stmts) = 0 BY EmptyFacts
<1>2. 0 + 1 = 1 /\ 1..0 = {} OBVIOUS
<1> QED BY <1>1, <1>2 DEF Good, CodeRight, Usable

\* A variable takes a value that is there.
LEMMA EnvSet ==
  ASSUME NEW values, NEW env, EnvTyped(values, env), NEW x \in DOMAIN fn.types, NEW v,
         InRange(values, v), values[v].t = fn.types[x]
  PROVE  LET new == [env EXCEPT ![x] = v]
         IN  /\ EnvTyped(values, new) /\ new[x] = v
             /\ \A y \in DOMAIN fn.types : y # x => new[y] = env[y]
<1> DEFINE new == [env EXCEPT ![x] = v]
<1>1. env = [y \in DOMAIN fn.types |-> env[y]] BY DEF EnvTyped
<1>2. /\ new = [y \in DOMAIN fn.types |-> new[y]] /\ new[x] = v
      /\ \A y \in DOMAIN fn.types : y # x => new[y] = env[y]
  BY <1>1
<1> HIDE DEF new
<1>3. \A y \in DOMAIN fn.types :
        new[y] # NoValue => InRange(values, new[y]) /\ values[new[y]].t = fn.types[y]
  BY <1>2 DEF EnvTyped
<1> QED BY <1>2, <1>3 DEF EnvTyped, new

\* A typed environment stays so when values are added.
LEMMA EnvGrows ==
  ASSUME NEW values, NEW more, Extends(values, more), NEW env, EnvTyped(values, env)
  PROVE  EnvTyped(more, env)
BY ExtendsFacts DEF EnvTyped

\* A value more, of a block of S.
LEMMA ValuesGrow ==
  ASSUME NEW values, NEW S, ValuesFrom(values, S), NEW val,
         (val.kind = "initial" /\ val.block = NoBlock) \/ val.block \in S
  PROVE  ValuesFrom(Append(values, val), S)
<1> DEFINE more == Append(values, val)
<1>1. IsSeq(values) BY DEF ValuesFrom
<1>2. /\ Extends(values, more) /\ more[Len(more)] = val
      /\ \A v : InRange(more, v) => InRange(values, v) \/ v = Len(more)
  BY <1>1, AddedValue
<1> HIDE DEF more
<1>3. ASSUME NEW v, InRange(more, v)
      PROVE  (more[v].kind = "initial" /\ more[v].block = NoBlock) \/ more[v].block \in S
  <2>1. CASE v = Len(more) BY <1>2, <2>1
  <2>2. CASE InRange(values, v)
    <3>1. more[v] = values[v] BY <1>2, <2>2, ExtendsFacts
    <3> QED BY <2>2, <3>1 DEF ValuesFrom
  <2> QED BY <1>2, <1>3, <2>1, <2>2
<1>4. IsSeq(more) BY <1>2, ExtendsFacts
<1> QED BY <1>3, <1>4 DEF ValuesFrom, more

\* The variable has no value at the end of some predecessor.
MissingAt(b, x) == \E p \in Preds(fn, b) \cap Reached(fn) : ssa.envs[p][x] = NoValue

\* The three outcomes of joining a variable.
MergeCopied(c, x) ==
  Context(c.values, [c.env EXCEPT ![x] = Incoming(c.block, x)[1].value], c.phis, c.stmts, c.term,
          c.block, c.ok)
PhiOf(c, x) == [x |-> Len(c.values) + 1, base |-> x, incoming |-> Incoming(c.block, x)]
MergePhi(c, x) ==
  Context(Append(c.values, NewValue(c, x, fn.types[x], "phi")),
          [c.env EXCEPT ![x] = Len(c.values) + 1], Append(c.phis, PhiOf(c, x)), c.stmts, c.term,
          c.block, c.ok)

\* The context with a phi more.
LEMMA MergePhiIs ==
  ASSUME NEW c, Shape(c), IsSeq(c.values), NEW x, NEW inc
  PROVE  LET phi == AddValue(c, x, fn.types[x], "phi")
         IN  [phi EXCEPT !.env[x] = Newest(phi),
                         !.phis = Append(@, [x |-> Newest(phi), base |-> x, incoming |-> inc])]
             = Context(Append(c.values, NewValue(c, x, fn.types[x], "phi")),
                       [c.env EXCEPT ![x] = Len(c.values) + 1],
                       Append(c.phis, [x |-> Len(c.values) + 1, base |-> x, incoming |-> inc]),
                       c.stmts, c.term, c.block, c.ok)
<1> DEFINE a == AddValue(c, x, fn.types[x], "phi")
           more == Append(c.values, NewValue(c, x, fn.types[x], "phi"))
           n == Newest(a)
           new == [x |-> n, base |-> x, incoming |-> inc]
           e == [a EXCEPT !.env[x] = n]
           d == [a EXCEPT !.env[x] = Newest(a),
                          !.phis = Append(@, [x |-> Newest(a), base |-> x, incoming |-> inc])]
<1>1. a = Context(more, c.env, c.phis, c.stmts, c.term, c.block, c.ok) BY AddValueIs
<1>2. d = [e EXCEPT !.phis = Append(a.phis, new)]
  <2> HIDE DEF a
  <2>1. d = [a EXCEPT !.env[x] = n, !.phis = Append(@, new)] OBVIOUS
  <2> HIDE DEF n, new, d
  <2>2. [a EXCEPT !.env[x] = n, !.phis = Append(@, new)] = [e EXCEPT !.phis = Append(a.phis, new)] OBVIOUS
  <2> QED BY <2>1, <2>2
<1> HIDE DEF a, e, more, d, new
<1>3. /\ Shape(a) /\ a.values = more /\ a.env = c.env /\ a.phis = c.phis /\ a.stmts = c.stmts
      /\ a.term = c.term /\ a.block = c.block /\ a.ok = c.ok
  BY <1>1, ContextFields
<1>4. n = Len(c.values) + 1 BY <1>3, AppendFacts DEF Newest, more
<1> HIDE DEF n
<1>5. e = Context(more, [c.env EXCEPT ![x] = n], c.phis, c.stmts, c.term, c.block, c.ok)
  <2>1. e = Context(a.values, [a.env EXCEPT ![x] = n], a.phis, a.stmts, a.term, a.block, a.ok)
    BY <1>3, FieldFacts DEF e
  <2> QED BY <1>3, <2>1
<1>6. /\ Shape(e) /\ e.values = more /\ e.env = [c.env EXCEPT ![x] = n] /\ e.stmts = c.stmts
      /\ e.term = c.term /\ e.block = c.block /\ e.ok = c.ok
  BY <1>5, ContextFields
<1>7. d = Context(e.values, e.env, Append(a.phis, new), e.stmts, e.term, e.block, e.ok)
  BY <1>2, <1>6, FieldFacts
<1>8. d = Context(more, [c.env EXCEPT ![x] = n], Append(c.phis, new), c.stmts, c.term, c.block, c.ok)
  BY <1>3, <1>6, <1>7
<1> QED BY <1>4, <1>8 DEF a, more, d, new

\* What joining a variable yields.
LEMMA MergeSymbolIs ==
  ASSUME NEW c, Shape(c), NEW x
  PROVE  LET d == MergeSymbol(c, x)
             values == {i.value : i \in ToSet(Incoming(c.block, x))}
         IN  /\ NoValue \in values => /\ Shape(d) /\ d.block = c.block /\ d.stmts = c.stmts /\ ~d.ok
                                    /\ d.values = c.values
             /\ NoValue \notin values /\ Cardinality(values) = 1 => d = MergeCopied(c, x)
             /\ NoValue \notin values /\ Cardinality(values) # 1 /\ IsSeq(c.values) => d = MergePhi(c, x)
<1> DEFINE inc == Incoming(c.block, x)
           values == {i.value : i \in ToSet(inc)}
           d == MergeSymbol(c, x)
           a == AddValue(c, x, fn.types[x], "phi")
           e == [a EXCEPT !.env[x] = Newest(a),
                          !.phis = Append(@, [x |-> Newest(a), base |-> x, incoming |-> inc])]
<1>1. d = IF NoValue \in values THEN [c EXCEPT !.ok = FALSE]
          ELSE IF Cardinality(values) = 1 THEN [c EXCEPT !.env[x] = inc[1].value]
          ELSE e
  BY DEF MergeSymbol
<1>2. IsSeq(c.values) => e = MergePhi(c, x) BY MergePhiIs DEF MergePhi, PhiOf
<1> HIDE DEF d, values, inc, e
<1>3. ASSUME NoValue \in values
      PROVE  Shape(d) /\ d.block = c.block /\ d.stmts = c.stmts /\ ~d.ok /\ d.values = c.values
  <2>1. d = Context(c.values, c.env, c.phis, c.stmts, c.term, c.block, FALSE)
    BY <1>1, <1>3 DEF Shape, Context
  <2> QED BY <2>1 DEF Shape, Context
<1>4. ASSUME NoValue \notin values, Cardinality(values) = 1 PROVE d = MergeCopied(c, x)
  BY <1>1, <1>4, FieldFacts DEF MergeCopied, inc
<1>5. ASSUME NoValue \notin values, Cardinality(values) # 1, IsSeq(c.values) PROVE d = MergePhi(c, x)
  BY <1>1, <1>2, <1>5
<1> QED BY <1>3, <1>4, <1>5 DEF d, values, inc

\* Where the environment may be joined: the next block, before its statements.
Joining(c) ==
  /\ RenamingState /\ todo # <<>> /\ Head(todo) # fn.entry
  /\ Shape(c) /\ Good(c) /\ c.block = Head(todo) /\ c.stmts = <<>>

\* What a block without statements has.
LEMMA StartFacts ==
  ASSUME NEW c, Good(c), c.stmts = <<>>
  PROVE  /\ \A y \in DOMAIN fn.types : c.env[y] # NoValue => Ready(c.values, c, c.block, c.env[y], 1)
         /\ IsSeq(c.phis) /\ IsSeq(c.values) /\ Len(c.values) \in Nat
         /\ \A phi \in ToSet(c.phis) : PhiRight(c.values, c.block, phi)
<1>1. Len(c.stmts) + 1 = 1 BY EmptyFacts
<1> QED BY <1>1, GoodFacts DEF Good, Usable, CodeRight

\* The same value from every predecessor.
LEMMA MergeCopiedGood ==
  ASSUME NEW c, Joining(c), NEW x \in DOMAIN fn.types, ~MissingAt(c.block, x),
         NEW v, {i.value : i \in ToSet(Incoming(c.block, x))} = {v}
  PROVE  LET d == MergeCopied(c, x)
         IN  /\ Shape(d) /\ Good(d) /\ d.block = c.block /\ d.stmts = <<>> /\ d.ok = c.ok
             /\ d.env[x] # NoValue
             /\ \A y \in DOMAIN fn.types : y # x => d.env[y] = c.env[y]
<1> DEFINE b == c.block
           preds == Preds(fn, b) \cap Reached(fn)
           inc == Incoming(b, x)
           d == MergeCopied(c, x)
<1>1. RenamingState /\ todo # <<>> /\ b # fn.entry /\ Good(c) /\ b = Head(todo) /\ c.stmts = <<>>
  BY DEF Joining
<1>2. b \in Blocks(fn) /\ preds \subseteq Renamed /\ preds # {} BY <1>1, NextFacts
<1>3. /\ {i.value : i \in ToSet(inc)} = {ssa.envs[p][x] : p \in preds}
      /\ inc[1] \in ToSet(inc)
  <2> HIDE DEF b, inc
  <2> QED BY <1>1, <1>2, IncomingFacts DEF b, inc
<1>4. inc[1].value = v /\ \A p \in preds : ssa.envs[p][x] = v
  <2> HIDE DEF inc, preds
  <2>1. {i.value : i \in ToSet(inc)} = {v} BY DEF inc
  <2>2. inc[1].value \in {v} BY <1>3, <2>1
  <2>3. \A p \in preds : ssa.envs[p][x] \in {v} BY <1>3, <2>1
  <2> QED BY <2>2, <2>3
<1>5. v # NoValue BY <1>2, <1>4 DEF MissingAt
<1>6. \A p \in preds :
        /\ InRange(ssa.values, v) /\ ssa.values[v].t = fn.types[x] /\ Defined(ssa.values, v, p)
        /\ (ssa.values[v].kind = "initial" /\ ssa.values[v].block = NoBlock) \/ ssa.values[v].block \in Renamed
  <2> TAKE p \in preds
  <2>1. p \in Renamed /\ ssa.envs[p][x] = v BY <1>2, <1>4
  <2> HIDE DEF preds, b
  <2> QED BY <1>1, <1>5, <2>1, ValueAtPred
<1>7. /\ InRange(ssa.values, v) /\ ssa.values[v].t = fn.types[x]
      /\ (ssa.values[v].kind = "initial" /\ ssa.values[v].block = NoBlock) \/ ssa.values[v].block \in Renamed
  BY <1>2, <1>6
<1>8. Ready(ssa.values, c, b, v, 1)
  <2>1. \A p \in Preds(fn, Head(todo)) \cap Reached(fn) : Defined(ssa.values, v, p) BY <1>1, <1>6
  <2>2. Preds(fn, Head(todo)) \cap Reached(fn) # {} BY <1>1, <1>2
  <2> HIDE DEF b, preds
  <2> QED BY <1>1, <1>7, <2>1, <2>2, ReadyJoin
<1>9. Extends(ssa.values, c.values) BY <1>1 DEF Good
<1>10. /\ Shape(d) /\ d.values = c.values /\ d.env = [c.env EXCEPT ![x] = v] /\ d.phis = c.phis
       /\ d.stmts = <<>> /\ d.block = b /\ d.ok = c.ok
  BY <1>1, <1>4, ContextFields DEF MergeCopied
<1> HIDE DEF d, inc, preds, b
<1>11. InRange(c.values, v) /\ c.values[v] = ssa.values[v] BY <1>7, <1>9, ExtendsFacts
<1>12. /\ EnvTyped(c.values, d.env) /\ d.env[x] = v
       /\ \A y \in DOMAIN fn.types : y # x => d.env[y] = c.env[y]
  <2>1. EnvTyped(c.values, c.env) BY <1>1 DEF Good
  <2> QED BY <1>7, <1>10, <1>11, <2>1, EnvSet
<1>13. PhisOf(d) = PhisOf(c) BY <1>10 DEF PhisOf
<1>14. IsSeq(c.values) /\ IsSeq(c.phis) /\ \A phi \in ToSet(c.phis) : PhiRight(c.values, b, phi)
  BY <1>1, StartFacts DEF b
<1>15. 1 \in Nat /\ 1 <= 1 /\ 1..(1 - 1) = {} OBVIOUS
<1>16. ASSUME NEW y \in DOMAIN fn.types, d.env[y] # NoValue
       PROVE  Ready(c.values, d, b, d.env[y], 1)
  <2>1. CASE y = x
    <3>1. Ready(c.values, d, b, v, 1) BY <1>8, <1>9, <1>13, <1>15, ReadyGrows
    <3> QED BY <1>12, <2>1, <3>1
  <2>2. CASE y # x
    <3>1. Ready(c.values, c, b, c.env[y], 1) BY <1>1, <1>12, <1>16, <2>2, StartFacts DEF b
    <3>2. Extends(c.values, c.values) BY <1>14, ExtendsSelf
    <3>3. Ready(c.values, d, b, c.env[y], 1) BY <1>13, <1>15, <3>1, <3>2, ReadyGrows
    <3> QED BY <1>12, <2>2, <3>3
  <2> QED BY <2>1, <2>2
<1>17. Good(d)
  <2>1. ValuesFrom(d.values, Renamed \cup {d.block}) BY <1>1, <1>10 DEF Good, b
  <2> QED BY <1>9, <1>10, <1>12, <1>14, <1>16, <2>1, GoodStart
<1> QED BY <1>5, <1>10, <1>12, <1>17 DEF d, b

\* A phi.
LEMMA MergePhiGood ==
  ASSUME NEW c, Joining(c), NEW x \in DOMAIN fn.types, ~MissingAt(c.block, x)
  PROVE  LET d == MergePhi(c, x)
         IN  /\ Shape(d) /\ Good(d) /\ d.block = c.block /\ d.stmts = <<>> /\ d.ok = c.ok
             /\ d.env[x] # NoValue
             /\ \A y \in DOMAIN fn.types : y # x => d.env[y] = c.env[y]
<1> DEFINE b == c.block
           preds == Preds(fn, b) \cap Reached(fn)
           inc == Incoming(b, x)
           d == MergePhi(c, x)
           val == NewValue(c, x, fn.types[x], "phi")
           new == Len(c.values) + 1
           phi == PhiOf(c, x)
<1>1. RenamingState /\ todo # <<>> /\ b # fn.entry /\ Good(c) /\ b = Head(todo) /\ c.stmts = <<>>
  BY DEF Joining
<1>2. b \in Blocks(fn) /\ preds \subseteq Renamed /\ preds # {} BY <1>1, NextFacts
<1>3. /\ IsSeq(inc) /\ {i.pred : i \in ToSet(inc)} = preds
      /\ \A i, j \in 1..Len(inc) : inc[i].pred = inc[j].pred => i = j
      /\ \A i \in ToSet(inc) : i.value = ssa.envs[i.pred][x]
  <2> HIDE DEF b, inc
  <2> QED BY <1>1, <1>2, IncomingFacts DEF b, inc
<1>4. /\ val.t = fn.types[x] /\ val.kind = "phi" /\ val.base = x /\ val.block = b
      /\ phi.x = new /\ phi.base = x /\ phi.incoming = inc
  BY DEF NewValue, PhiOf
<1>5. /\ Shape(d) /\ d.values = Append(c.values, val) /\ d.env = [c.env EXCEPT ![x] = new]
      /\ d.phis = Append(c.phis, phi) /\ d.stmts = <<>> /\ d.block = b /\ d.ok = c.ok
  <2> DEFINE more == Append(c.values, val)
             env == [c.env EXCEPT ![x] = new]
             phis == Append(c.phis, phi)
  <2>1. d = Context(more, env, phis, c.stmts, c.term, c.block, c.ok) BY DEF MergePhi
  <2> HIDE DEF d, more, env, phis
  <2>2. /\ Shape(d) /\ d.values = more /\ d.env = env /\ d.phis = phis /\ d.stmts = c.stmts
        /\ d.block = c.block /\ d.ok = c.ok
    BY <2>1, ContextFields
  <2> QED BY <1>1, <2>2 DEF more, env, phis
<1>6. IsSeq(c.values) /\ IsSeq(c.phis) /\ \A q \in ToSet(c.phis) : PhiRight(c.values, b, q)
  BY <1>1, StartFacts
<1> HIDE DEF d, inc, preds, phi, val
<1>7. /\ Extends(c.values, d.values) /\ InRange(d.values, new) /\ d.values[new] = val /\ new # NoValue
      /\ new \notin 1..Len(c.values)
  BY <1>5, <1>6, AddedValue DEF InRange
<1> HIDE DEF new, b
<1>8. Extends(ssa.values, d.values) BY <1>1, <1>7, ExtendsTrans DEF Good
<1>9. ValuesFrom(d.values, Renamed \cup {d.block})
  <2>1. ValuesFrom(c.values, Renamed \cup {b}) BY <1>1 DEF Good, b
  <2> QED BY <1>4, <1>5, <2>1, ValuesGrow
<1>10. /\ EnvTyped(d.values, d.env) /\ d.env[x] = new
       /\ \A y \in DOMAIN fn.types : y # x => d.env[y] = c.env[y]
  <2>1. EnvTyped(d.values, c.env) BY <1>1, <1>7, EnvGrows DEF Good
  <2>2. InRange(d.values, new) /\ d.values[new].t = fn.types[x] BY <1>4, <1>7
  <2> DEFINE e == [c.env EXCEPT ![x] = new]
  <2>3. /\ EnvTyped(d.values, e) /\ e[x] = new
        /\ \A y \in DOMAIN fn.types : y # x => e[y] = c.env[y]
    BY <2>1, <2>2, EnvSet
  <2>4. d.env = e BY <1>5
  <2> QED BY <2>3, <2>4
<1>11. IsSeq(d.phis) /\ ToSet(d.phis) = ToSet(c.phis) \cup {phi} BY <1>5, <1>6, AppendFacts
<1>12. PhisOf(c) \subseteq PhisOf(d) /\ new \in PhisOf(d) BY <1>4, <1>11 DEF PhisOf
<1>13. 1 \in Nat /\ 1 <= 1 /\ 1..(1 - 1) = {} OBVIOUS
<1>14. ASSUME NEW y \in DOMAIN fn.types, d.env[y] # NoValue
       PROVE  Ready(d.values, d, b, d.env[y], 1)
  <2>1. CASE y = x BY <1>7, <1>10, <1>12, <2>1 DEF Ready
  <2>2. CASE y # x
    <3>1. Ready(c.values, c, b, c.env[y], 1) BY <1>1, <1>10, <1>14, <2>2, StartFacts DEF b
    <3>2. Ready(d.values, d, b, c.env[y], 1) BY <1>7, <1>12, <1>13, <3>1, ReadyGrows
    <3> QED BY <1>10, <2>2, <3>2
  <2> QED BY <2>1, <2>2
<1>15. ASSUME NEW i \in ToSet(inc)
       PROVE  /\ InRange(d.values, i.value) /\ d.values[i.value].t = fn.types[x]
              /\ Defined(d.values, i.value, i.pred)
  <2>1. i.pred \in preds /\ i.value = ssa.envs[i.pred][x] BY <1>3
  <2>2. i.pred \in Renamed /\ ssa.envs[i.pred][x] # NoValue BY <1>2, <2>1 DEF MissingAt, preds, b
  <2>3. /\ InRange(ssa.values, i.value) /\ ssa.values[i.value].t = fn.types[x]
        /\ Defined(ssa.values, i.value, i.pred)
    BY <1>1, <2>1, <2>2, ValueAtPred
  <2>4. InRange(d.values, i.value) /\ d.values[i.value] = ssa.values[i.value]
    BY <1>8, <2>3, ExtendsFacts
  <2> QED BY <2>3, <2>4 DEF Defined
<1>16. PhiRight(d.values, b, phi)
  BY <1>3, <1>4, <1>7, <1>15 DEF PhiRight, Own, preds
<1>17. \A q \in ToSet(d.phis) : PhiRight(d.values, b, q) BY <1>6, <1>7, <1>11, <1>16, PhiGrows
<1>18. Good(d) BY <1>5, <1>8, <1>9, <1>10, <1>11, <1>14, <1>17, GoodStart
<1> QED BY <1>5, <1>7, <1>10, <1>18 DEF d, b

\* Joining one variable: it fails where the variable is missing.
LEMMA MergeSymbolFacts ==
  ASSUME NEW c, Joining(c), NEW x \in DOMAIN fn.types
  PROVE  LET d == MergeSymbol(c, x)
         IN  /\ MissingAt(c.block, x) => Shape(d) /\ d.block = c.block /\ d.stmts = <<>> /\ ~d.ok
             /\ ~MissingAt(c.block, x) =>
                  /\ Joining(d) /\ d.block = c.block /\ d.ok = c.ok /\ d.env[x] # NoValue
                  /\ \A y \in DOMAIN fn.types : y # x => d.env[y] = c.env[y]
<1> DEFINE b == c.block
           preds == Preds(fn, b) \cap Reached(fn)
           values == {i.value : i \in ToSet(Incoming(b, x))}
           d == MergeSymbol(c, x)
<1>1. /\ RenamingState /\ todo # <<>> /\ b # fn.entry /\ Good(c) /\ b = Head(todo)
      /\ c.stmts = <<>> /\ Shape(c)
  BY DEF Joining
<1>2. b \in Blocks(fn) /\ preds \subseteq Renamed /\ preds # {} BY <1>1, NextFacts
<1>3. values = {ssa.envs[p][x] : p \in preds}
  <2> HIDE DEF b
  <2> QED BY <1>1, <1>2, IncomingFacts
<1>4. /\ NoValue \in values => Shape(d) /\ d.block = c.block /\ d.stmts = c.stmts /\ ~d.ok
      /\ NoValue \notin values /\ Cardinality(values) = 1 => d = MergeCopied(c, x)
      /\ NoValue \notin values /\ Cardinality(values) # 1 /\ IsSeq(c.values) => d = MergePhi(c, x)
  BY <1>1, MergeSymbolIs
<1>5. IsSeq(c.values) BY <1>1, GoodFacts
<1> HIDE DEF d
<1>6. NoValue \in values <=> MissingAt(b, x) BY <1>3 DEF MissingAt
<1>7. ASSUME ~MissingAt(b, x)
      PROVE  /\ Shape(d) /\ Good(d) /\ d.block = c.block /\ d.stmts = <<>> /\ d.ok = c.ok
             /\ d.env[x] # NoValue
             /\ \A y \in DOMAIN fn.types : y # x => d.env[y] = c.env[y]
  <2>1. CASE Cardinality(values) = 1
    <3>1. IsFiniteSet(values)
      <4>1. \A p \in preds : ssa.envs[p][x] \in 1..Len(ssa.values)
        <5> TAKE p \in preds
        <5>1. p \in Renamed /\ ssa.envs[p][x] # NoValue BY <1>2, <1>7 DEF MissingAt
        <5>2. InRange(ssa.values, ssa.envs[p][x]) BY <1>1, <5>1, ValueAtPred
        <5> QED BY <5>2 DEF InRange
      <4>2. values \in SUBSET (1..Len(ssa.values)) BY <1>3, <4>1
      <4>3. Len(ssa.values) \in Nat BY <1>1, ExtendsFacts DEF Good
      <4>4. IsFiniteSet(1..Len(ssa.values)) BY <4>3, FS_Interval
      <4> HIDE DEF values
      <4> QED BY <4>2, <4>4, FS_Subset
    <3> HIDE DEF values
    <3>2. PICK v : values = {v} BY <2>1, <3>1, FS_Singleton
    <3>3. d = MergeCopied(c, x) BY <1>4, <1>6, <1>7, <2>1
    <3> QED BY <1>7, <3>2, <3>3, MergeCopiedGood DEF values
  <2>2. CASE Cardinality(values) # 1
    <3>1. d = MergePhi(c, x) BY <1>4, <1>5, <1>6, <1>7, <2>2
    <3> QED BY <1>7, <3>1, MergePhiGood
  <2> QED BY <2>1, <2>2
<1>8. ASSUME ~MissingAt(b, x) PROVE Joining(d) BY <1>1, <1>7, <1>8 DEF Joining
<1> QED BY <1>1, <1>4, <1>6, <1>7, <1>8 DEF d

\* The context in which a block starts.
Started(b) == Context(ssa.values, EmptyEnv, <<>>, <<>>, Unreachable, b, TRUE)

\* Nothing is lost when a block is added.
LEMMA ValuesFromMore ==
  ASSUME NEW values, NEW S, ValuesFrom(values, S), NEW b
  PROVE  ValuesFrom(values, S \cup {b})
BY DEF ValuesFrom

\* An environment without values.
LEMMA EmptyEnvFacts ==
  ASSUME NEW values
  PROVE  EnvTyped(values, EmptyEnv) /\ \A x \in DOMAIN fn.types : EmptyEnv[x] = NoValue
BY DEF EnvTyped, EmptyEnv

\* The context a block starts with is good.
LEMMA StartedFacts ==
  ASSUME RenamingState, NEW b
  PROVE  LET c == Started(b)
         IN  /\ Shape(c) /\ Good(c) /\ c.block = b /\ c.stmts = <<>> /\ c.phis = <<>> /\ c.ok
             /\ c.values = ssa.values /\ c.env = EmptyEnv /\ c.term = Unreachable
             /\ IsSeq(c.values)
<1> DEFINE c == Started(b)
<1>1. /\ Shape(c) /\ c.block = b /\ c.stmts = <<>> /\ c.phis = <<>> /\ c.ok
      /\ c.values = ssa.values /\ c.env = EmptyEnv /\ c.term = Unreachable
  BY DEF Started, Context, Shape
<1> HIDE DEF c
<1>2. ValuesFrom(ssa.values, Renamed) /\ IsSeq(ssa.values) BY DEF RenamingState, ValuesFrom
<1>3. ValuesFrom(c.values, Renamed \cup {c.block}) BY <1>1, <1>2, ValuesFromMore
<1>4. Extends(ssa.values, c.values) BY <1>1, <1>2, ExtendsSelf
<1>5. EnvTyped(c.values, c.env) /\ \A x \in DOMAIN fn.types : c.env[x] = NoValue
  BY <1>1, EmptyEnvFacts
<1>6. IsSeq(c.phis) /\ ToSet(c.phis) = {} BY <1>1, EmptyFacts
<1>7. Good(c) BY <1>1, <1>3, <1>4, <1>5, <1>6, GoodStart
<1> QED BY <1>1, <1>2, <1>7 DEF c

-----------------------------------------------------------------------------
(* Several predecessors *)

\* A failure stays one.
LEMMA MergeFails ==
  ASSUME NEW c, Shape(c), IsSeq(c.values), ~c.ok, NEW x
  PROVE  LET d == MergeSymbol(c, x) IN Shape(d) /\ d.block = c.block /\ IsSeq(d.values) /\ ~d.ok
<1> DEFINE values == {i.value : i \in ToSet(Incoming(c.block, x))}
           d == MergeSymbol(c, x)
<1>1. /\ NoValue \in values => /\ Shape(d) /\ d.block = c.block /\ d.stmts = c.stmts /\ ~d.ok
                               /\ d.values = c.values
      /\ NoValue \notin values /\ Cardinality(values) = 1 => d = MergeCopied(c, x)
      /\ NoValue \notin values /\ Cardinality(values) # 1 /\ IsSeq(c.values) => d = MergePhi(c, x)
  BY MergeSymbolIs
<1> HIDE DEF values, d
<1>2. CASE d = MergeCopied(c, x)
  <2>1. Shape(d) /\ d.block = c.block /\ d.values = c.values /\ d.ok = c.ok
    BY <1>2, ContextFields DEF MergeCopied
  <2> QED BY <2>1 DEF d
<1>3. CASE d = MergePhi(c, x)
  <2>1. /\ Shape(d) /\ d.block = c.block /\ d.ok = c.ok
        /\ d.values = Append(c.values, NewValue(c, x, fn.types[x], "phi"))
    BY <1>3 DEF MergePhi, Context, Shape
  <2>2. IsSeq(d.values) BY <2>1, AppendFacts
  <2> QED BY <2>1, <2>2 DEF d
<1>4. CASE NoValue \in values BY <1>1, <1>4 DEF d
<1> QED BY <1>1, <1>2, <1>3, <1>4

\* The values stay a sequence.
LEMMA MergeKeepsSeq ==
  ASSUME NEW c, Shape(c), IsSeq(c.values), NEW x
  PROVE  IsSeq(MergeSymbol(c, x).values)
<1> DEFINE values == {i.value : i \in ToSet(Incoming(c.block, x))}
           d == MergeSymbol(c, x)
<1>1. /\ NoValue \in values => d.values = c.values
      /\ NoValue \notin values /\ Cardinality(values) = 1 => d = MergeCopied(c, x)
      /\ NoValue \notin values /\ Cardinality(values) # 1 => d = MergePhi(c, x)
  BY MergeSymbolIs
<1> HIDE DEF values, d
<1>2. CASE d = MergeCopied(c, x)
  <2>1. d.values = c.values BY <1>2, ContextFields DEF MergeCopied
  <2> QED BY <2>1 DEF d
<1>3. CASE d = MergePhi(c, x)
  <2>1. d.values = Append(c.values, NewValue(c, x, fn.types[x], "phi"))
    BY <1>3 DEF MergePhi, Context, Shape
  <2> QED BY <2>1, AppendFacts DEF d
<1>4. CASE NoValue \in values BY <1>1, <1>4 DEF d
<1> QED BY <1>1, <1>2, <1>3, <1>4

\* Every live variable is joined, or one is missing.
LEMMA JoinFacts ==
  ASSUME RenamingState, todo # <<>>, Head(todo) # fn.entry
  PROVE  LET b == Head(todo)
             m == FoldLeft(MergeSymbol, Started(b), Ascending(live[b]))
         IN  /\ Shape(m) /\ m.block = b
             /\ m.ok => /\ Good(m)
                        /\ \A x \in live[b] : m.env[x] # NoValue /\ ~MissingAt(b, x)
                        /\ \A x \in DOMAIN fn.types : x \notin live[b] => m.env[x] = NoValue
             /\ ~m.ok => \E x \in live[b] : MissingAt(b, x)
<1> DEFINE b == Head(todo)
           c == Started(b)
           S == live[b]
           seq == Ascending(S)
           n == Cardinality(S)
           m == FoldLeft(MergeSymbol, c, seq)
<1>1. b \in Blocks(fn) /\ WellFormed(fn) /\ LiveTyped(live) BY NextFacts DEF RenamingState
<1>2. S \subseteq DOMAIN fn.types BY <1>1 DEF LiveTyped
<1>3. S \in SUBSET Nat /\ IsFiniteSet(S)
  <2>1. IsSeq(fn.types) BY <1>1 DEF WellFormed, IsSequence, IsSeq
  <2>2. Len(fn.types) \in Nat /\ DOMAIN fn.types = 1..Len(fn.types) BY <2>1, SeqFacts
  <2>3. IsFiniteSet(1..Len(fn.types)) BY <2>2, FS_Interval
  <2> HIDE DEF S
  <2>4. S \in SUBSET (1..Len(fn.types)) BY <1>2, <2>2
  <2>5. IsFiniteSet(S) BY <2>3, <2>4, FS_Subset
  <2>6. S \in SUBSET Nat BY <2>2, <2>4
  <2> QED BY <2>5, <2>6
<1> HIDE DEF S
<1>4. IsSeq(seq) /\ ToSet(seq) = S /\ Len(seq) = n /\ n \in Nat BY <1>3, AscendingFacts
<1>5. DOMAIN seq = 1..n /\ S = {seq[k] : k \in 1..n} BY <1>4, SeqFacts
<1>6. Joining(c) /\ c.ok /\ c.block = b /\ IsSeq(c.values) /\ \A x \in DOMAIN fn.types : c.env[x] = NoValue
  <2>1. Shape(c) /\ Good(c) /\ c.block = b /\ c.stmts = <<>> /\ c.ok /\ c.env = EmptyEnv /\ IsSeq(c.values)
    BY StartedFacts
  <2> QED BY <2>1, EmptyEnvFacts DEF Joining
<1> HIDE DEF seq, c, m, b, n
<1>7. PICK it : MergeSymbolSteps!Steps(it, c, seq, n) /\ FoldLeft(MergeSymbol, c, seq) = it[n]
  BY <1>4, <1>5, MergeFold
<1>8. it[0] = c /\ \A k \in 1..n : it[k] = MergeSymbol(it[k - 1], seq[k])
  BY <1>7 DEF MergeSymbolSteps!Steps
<1> DEFINE Done(k) == /\ Joining(it[k])
                      /\ \A j \in 1..k : it[k].env[seq[j]] # NoValue /\ ~MissingAt(b, seq[j])
                      /\ \A x \in DOMAIN fn.types :
                           (\A j \in 1..k : seq[j] # x) => it[k].env[x] = NoValue
           Failed(k) == \E j \in 1..k : MissingAt(b, seq[j])
           Right(k) == /\ Shape(it[k]) /\ it[k].block = b /\ IsSeq(it[k].values)
                       /\ it[k].ok => Done(k)
                       /\ ~it[k].ok => Failed(k)
           T == {k \in Nat : k <= n => Right(k)}
<1>9. 0 \in T
  <2>1. 1..0 = {} OBVIOUS
  <2>2. Done(0) BY <1>6, <1>8, <2>1
  <2>3. Shape(it[0]) BY <1>6, <1>8 DEF Joining
  <2> HIDE DEF Done, Failed
  <2> QED BY <1>6, <1>8, <2>2, <2>3
<1>10. ASSUME NEW k \in Nat, k \in T PROVE k + 1 \in T
  <2> SUFFICES ASSUME k + 1 <= n PROVE Right(k + 1) OBVIOUS
  <2>1. Right(k) /\ k + 1 \in 1..n /\ (k + 1) - 1 = k
    <3>1. k <= n BY <1>4
    <3>2. Right(k) BY <1>10, <3>1
    <3> HIDE DEF Right
    <3> QED BY <1>4, <3>2
  <2> DEFINE x == seq[k + 1]
             w == MergeSymbol(it[k], x)
  <2>2. it[k + 1] = w BY <1>8, <2>1
  <2>3. x \in S /\ x \in DOMAIN fn.types BY <1>2, <1>5, <2>1
  <2>4. \A j \in 1..(k + 1) : j \in 1..k \/ j = k + 1 OBVIOUS
  <2>10. k + 1 \in 1..(k + 1) /\ \A j \in 1..k : j \in 1..(k + 1) OBVIOUS
  <2> HIDE DEF w, x
  <2>5. CASE ~it[k].ok
    <3>1. Shape(w) /\ w.block = b /\ IsSeq(w.values) /\ ~w.ok BY <2>1, <2>5, MergeFails DEF w
    <3>2. Failed(k) BY <2>1, <2>5
    <3>3. Failed(k + 1) BY <2>10, <3>2
    <3> HIDE DEF Done, Failed
    <3> QED BY <2>2, <3>1, <3>3
  <2>6. CASE it[k].ok
    <3>1. Done(k) /\ Shape(it[k]) /\ it[k].block = b /\ IsSeq(it[k].values) BY <2>1, <2>6
    <3>2. Joining(it[k]) BY <3>1
    <3>3. /\ MissingAt(b, x) => Shape(w) /\ w.block = b /\ w.stmts = <<>> /\ ~w.ok
          /\ ~MissingAt(b, x) =>
               /\ Joining(w) /\ w.block = b /\ w.ok = it[k].ok /\ w.env[x] # NoValue
               /\ \A y \in DOMAIN fn.types : y # x => w.env[y] = it[k].env[y]
      BY <2>3, <3>1, <3>2, MergeSymbolFacts DEF w
    <3>4. CASE MissingAt(b, x)
      <4>1. IsSeq(w.values)
        <5>1. IsSeq(it[k].values) /\ Shape(it[k]) BY <3>1
        <5> QED BY <5>1, MergeKeepsSeq DEF w
      <4>2. Failed(k + 1) BY <2>10, <3>4 DEF x
      <4> HIDE DEF Done, Failed
      <4> QED BY <2>2, <3>3, <3>4, <4>1, <4>2
    <3>5. CASE ~MissingAt(b, x)
      <4>1. Shape(w) /\ IsSeq(w.values)
        <5>1. Shape(w) /\ Good(w) BY <3>3, <3>5 DEF Joining
        <5> QED BY <5>1, GoodFacts
      <4>2. ASSUME NEW j \in 1..(k + 1) PROVE w.env[seq[j]] # NoValue /\ ~MissingAt(b, seq[j])
        <5>1. CASE seq[j] = x BY <3>3, <3>5, <5>1
        <5>2. CASE seq[j] # x
          <6>1. j \in 1..k BY <2>4, <5>2 DEF x
          <6>2. it[k].env[seq[j]] # NoValue /\ ~MissingAt(b, seq[j]) BY <3>1, <6>1
          <6>3. j \in 1..n BY <1>4, <2>1, <6>1
          <6>4. seq[j] \in DOMAIN fn.types BY <1>2, <1>5, <6>3
          <6> QED BY <3>3, <3>5, <5>2, <6>2, <6>4
        <5> QED BY <5>1, <5>2
      <4>3. ASSUME NEW y \in DOMAIN fn.types, \A j \in 1..(k + 1) : seq[j] # y
            PROVE  w.env[y] = NoValue
        <5>1. y # x BY <2>10, <4>3 DEF x
        <5>2. it[k].env[y] = NoValue BY <2>10, <3>1, <4>3
        <5> QED BY <3>3, <3>5, <5>1, <5>2
      <4>4. Done(k + 1) BY <2>2, <3>3, <3>5, <4>2, <4>3
      <4> HIDE DEF Done, Failed
      <4> QED BY <2>2, <2>6, <3>3, <3>5, <4>1, <4>4
    <3> QED BY <3>4, <3>5
  <2> QED BY <2>5, <2>6
<1> HIDE DEF T
<1>11. n \in T BY <1>4, <1>9, <1>10, InductiveSet
<1>12. Right(n)
  <2> HIDE DEF Right
  <2>1. n <= n BY <1>4
  <2> QED BY <1>11, <2>1 DEF T
<1>13. m = it[n] BY <1>7 DEF m
<1>14. m.ok => /\ Good(m)
               /\ \A x \in S : m.env[x] # NoValue /\ ~MissingAt(b, x)
               /\ \A x \in DOMAIN fn.types : x \notin S => m.env[x] = NoValue
  <2> SUFFICES ASSUME m.ok
               PROVE  /\ Good(m)
                      /\ \A x \in S : m.env[x] # NoValue /\ ~MissingAt(b, x)
                      /\ \A x \in DOMAIN fn.types : x \notin S => m.env[x] = NoValue
    OBVIOUS
  <2>1. Done(n) BY <1>12, <1>13
  <2>2. Good(m) BY <1>13, <2>1 DEF Joining
  <2> QED BY <1>5, <1>13, <2>1, <2>2
<1>15. ~m.ok => \E x \in S : MissingAt(b, x)
  <2>1. ~m.ok => Failed(n) BY <1>12, <1>13
  <2> QED BY <1>5, <2>1
<1>16. Shape(m) /\ m.block = b BY <1>12, <1>13
<1> QED BY <1>14, <1>15, <1>16 DEF m, S, b, c, seq

-----------------------------------------------------------------------------
(* The entry *)

\* One port more.
LEMMA DefineInitialIs ==
  ASSUME NEW c, Shape(c), IsSeq(c.values), NEW p
  PROVE  DefineInitial(c, p) =
           Context(Append(c.values, NewValue(c, p.x, fn.types[p.x], "initial")),
                   [c.env EXCEPT ![p.x] = Len(c.values) + 1], c.phis, c.stmts, c.term, c.block, c.ok)
<1> DEFINE a == AddValue(c, p.x, fn.types[p.x], "initial")
           more == Append(c.values, NewValue(c, p.x, fn.types[p.x], "initial"))
           n == Newest(a)
           d == DefineInitial(c, p)
<1>1. a = Context(more, c.env, c.phis, c.stmts, c.term, c.block, c.ok) BY AddValueIs
<1>2. d = [a EXCEPT !.env[p.x] = n] BY DEF DefineInitial
<1> HIDE DEF a, d, more
<1>3. /\ Shape(a) /\ a.values = more /\ a.env = c.env /\ a.phis = c.phis /\ a.stmts = c.stmts
      /\ a.term = c.term /\ a.block = c.block /\ a.ok = c.ok
  BY <1>1, ContextFields
<1>4. n = Len(c.values) + 1 BY <1>3, AppendFacts DEF Newest, more
<1> HIDE DEF n
<1>5. d = Context(a.values, [a.env EXCEPT ![p.x] = n], a.phis, a.stmts, a.term, a.block, a.ok)
  BY <1>2, <1>3, FieldFacts
<1> QED BY <1>3, <1>4, <1>5 DEF d, more

\* The environment names initial values only.
Initials(c) ==
  /\ Shape(c) /\ c.block = NoBlock /\ c.stmts = <<>> /\ c.phis = <<>> /\ c.ok
  /\ Extends(ssa.values, c.values) /\ ValuesFrom(c.values, Renamed) /\ EnvTyped(c.values, c.env)
  /\ \A x \in DOMAIN fn.types : c.env[x] # NoValue =>
       c.values[c.env[x]].kind = "initial" /\ c.values[c.env[x]].block = NoBlock

\* One more port has its initial value.
LEMMA InitialsGrow ==
  ASSUME NEW c, Initials(c), NEW p, p.x \in DOMAIN fn.types
  PROVE  LET d == DefineInitial(c, p)
         IN  /\ Initials(d) /\ d.env[p.x] # NoValue
             /\ \A y \in DOMAIN fn.types : y # p.x => d.env[y] = c.env[y]
<1> DEFINE x == p.x
           new == Len(c.values) + 1
           val == NewValue(c, x, fn.types[x], "initial")
           more == Append(c.values, val)
           env == [c.env EXCEPT ![x] = new]
           d == DefineInitial(c, p)
<1>1. IsSeq(c.values) BY DEF Initials, ValuesFrom
<1>2. d = Context(more, env, c.phis, c.stmts, c.term, c.block, c.ok)
  BY <1>1, DefineInitialIs DEF Initials
<1>3. val.t = fn.types[x] /\ val.kind = "initial" /\ val.block = NoBlock BY DEF NewValue, Initials
<1> HIDE DEF d, more, env, val
<1>4. /\ Shape(d) /\ d.values = more /\ d.env = env /\ d.phis = c.phis /\ d.stmts = c.stmts
      /\ d.block = c.block /\ d.ok = c.ok
  BY <1>2, ContextFields
<1>5. /\ Extends(c.values, more) /\ InRange(more, new) /\ more[new] = val /\ new # NoValue
  BY <1>1, AddedValue DEF more
<1>6. Extends(ssa.values, more) BY <1>5, ExtendsTrans DEF Initials
<1>7. ValuesFrom(more, Renamed) BY <1>3, ValuesGrow DEF Initials, more
<1> HIDE DEF new, x
<1>8. EnvTyped(more, c.env) BY <1>5, EnvGrows DEF Initials
<1>9. more[new].t = fn.types[x] /\ x \in DOMAIN fn.types BY <1>3, <1>5 DEF x
<1>10. /\ EnvTyped(more, env) /\ env[x] = new
       /\ \A y \in DOMAIN fn.types : y # x => env[y] = c.env[y]
  BY <1>5, <1>8, <1>9, EnvSet DEF env
<1>11. ASSUME NEW y \in DOMAIN fn.types, env[y] # NoValue
       PROVE  more[env[y]].kind = "initial" /\ more[env[y]].block = NoBlock
  <2>1. CASE y = x BY <1>3, <1>5, <1>10, <2>1
  <2>2. CASE y # x
    <3>1. c.env[y] # NoValue /\ env[y] = c.env[y] BY <1>10, <1>11, <2>2
    <3>2. InRange(c.values, c.env[y]) BY <3>1 DEF Initials, EnvTyped
    <3>3. more[c.env[y]] = c.values[c.env[y]] BY <1>5, <3>2, ExtendsFacts
    <3> QED BY <3>1, <3>3 DEF Initials
  <2> QED BY <2>1, <2>2
<1>12. Initials(d) BY <1>4, <1>6, <1>7, <1>10, <1>11 DEF Initials
<1> QED BY <1>4, <1>5, <1>10, <1>12 DEF d, x

\* At the entry every port has a value, and nothing else does.
LEMMA EntryFacts ==
  ASSUME RenamingState, NEW b \in Blocks(fn)
  PROVE  LET m == [InitialEnv(Started(b)) EXCEPT !.block = b]
         IN  /\ Shape(m) /\ m.block = b /\ m.ok /\ Good(m)
             /\ \A x \in DOMAIN fn.types :
                  m.env[x] = NoValue <=> x \notin InputPorts(fn) /\ x \notin OutputPorts(fn)
<1> DEFINE s == Started(b)
           c == [s EXCEPT !.block = NoBlock]
           ports == fn.ports
           n == Len(ports)
           e == InitialEnv(s)
           m == [e EXCEPT !.block = b]
<1>1. WellFormed(fn) BY DEF RenamingState
<1>2. /\ IsSeq(ports) /\ \A p \in ToSet(ports) : p.x \in DOMAIN fn.types
      /\ \A p \in ToSet(ports) : p.x \in InputPorts(fn) \/ p.x \in OutputPorts(fn)
      /\ \A x : x \in InputPorts(fn) \/ x \in OutputPorts(fn) => \E p \in ToSet(ports) : p.x = x
  BY <1>1, PortFacts
<1>3. n \in Nat /\ DOMAIN ports = 1..n /\ ToSet(ports) = {ports[k] : k \in 1..n} BY <1>2, SeqFacts
<1>4. e = FoldLeft(DefineInitial, c, ports) BY DEF InitialEnv
<1>5. /\ Shape(s) /\ s.stmts = <<>> /\ s.phis = <<>> /\ s.ok /\ s.values = ssa.values
      /\ s.env = EmptyEnv
  BY StartedFacts
<1> HIDE DEF s, e, m, n, ports
<1>6. c = Context(s.values, s.env, s.phis, s.stmts, s.term, NoBlock, s.ok) BY <1>5, FieldFacts
<1> HIDE DEF c
<1>7. Initials(c) /\ \A x \in DOMAIN fn.types : c.env[x] = NoValue
  <2>1. /\ Shape(c) /\ c.block = NoBlock /\ c.stmts = <<>> /\ c.phis = <<>> /\ c.ok
        /\ c.values = ssa.values /\ c.env = EmptyEnv
    <3>1. /\ Shape(c) /\ c.block = NoBlock /\ c.stmts = s.stmts /\ c.phis = s.phis /\ c.ok = s.ok
          /\ c.values = s.values /\ c.env = s.env
      BY <1>6 DEF Context, Shape
    <3> QED BY <1>5, <3>1
  <2>2. EnvTyped(c.values, c.env) /\ \A x \in DOMAIN fn.types : c.env[x] = NoValue
    BY <2>1, EmptyEnvFacts
  <2>3. ValuesFrom(ssa.values, Renamed) /\ IsSeq(ssa.values) BY DEF RenamingState, ValuesFrom
  <2>4. Extends(ssa.values, c.values) BY <2>1, <2>3, ExtendsSelf
  <2> QED BY <2>1, <2>2, <2>3, <2>4 DEF Initials
<1>8. PICK it : DefineInitialSteps!Steps(it, c, ports, n) /\ FoldLeft(DefineInitial, c, ports) = it[n]
  BY <1>3, InitialFold
<1>9. it[0] = c /\ \A k \in 1..n : it[k] = DefineInitial(it[k - 1], ports[k])
  BY <1>8 DEF DefineInitialSteps!Steps
<1> DEFINE Right(k) == /\ Initials(it[k])
                       /\ \A x \in DOMAIN fn.types :
                            it[k].env[x] = NoValue <=> \A j \in 1..k : ports[j].x # x
           T == {k \in Nat : k <= n => Right(k)}
<1>10. 0 \in T
  <2>1. 1..0 = {} OBVIOUS
  <2> QED BY <1>7, <1>9, <2>1
<1>11. ASSUME NEW k \in Nat, k \in T PROVE k + 1 \in T
  <2> SUFFICES ASSUME k + 1 <= n PROVE Right(k + 1) OBVIOUS
  <2>1. Right(k) /\ k + 1 \in 1..n /\ (k + 1) - 1 = k
    <3>1. k <= n BY <1>3
    <3>2. Right(k) BY <1>11, <3>1
    <3> HIDE DEF Right
    <3> QED BY <1>3, <3>2
  <2> DEFINE p == ports[k + 1]
             w == DefineInitial(it[k], p)
  <2>2. it[k + 1] = w BY <1>9, <2>1
  <2>3. p.x \in DOMAIN fn.types BY <1>2, <1>3, <2>1
  <2>4. \A x : (\A j \in 1..(k + 1) : ports[j].x # x) <=> (\A j \in 1..k : ports[j].x # x) /\ p.x # x
    <3>1. k + 1 \in 1..(k + 1) /\ \A j \in 1..(k + 1) : j \in 1..k \/ j = k + 1 OBVIOUS
    <3>2. \A j \in 1..k : j \in 1..(k + 1) OBVIOUS
    <3> QED BY <3>1, <3>2
  <2> HIDE DEF w, p
  <2>5. /\ Initials(w) /\ w.env[p.x] # NoValue
        /\ \A y \in DOMAIN fn.types : y # p.x => w.env[y] = it[k].env[y]
    BY <2>1, <2>3, InitialsGrow DEF w
  <2> QED BY <2>1, <2>2, <2>4, <2>5
<1> HIDE DEF T
<1>12. n \in T BY <1>3, <1>10, <1>11, InductiveSet
<1>13. Right(n)
  <2> HIDE DEF Right
  <2>1. n <= n BY <1>3
  <2> QED BY <1>12, <2>1 DEF T
<1>14. e = it[n] BY <1>4, <1>8
<1>15. Initials(e) BY <1>13, <1>14
<1>16. \A x \in DOMAIN fn.types :
         e.env[x] = NoValue <=> x \notin InputPorts(fn) /\ x \notin OutputPorts(fn)
  <2>1. \A x \in DOMAIN fn.types : e.env[x] = NoValue <=> \A j \in 1..n : ports[j].x # x
    BY <1>13, <1>14
  <2> QED BY <1>2, <1>3, <2>1
<1>17. m = Context(e.values, e.env, e.phis, e.stmts, e.term, b, e.ok)
  <2>1. Shape(e) BY <1>15 DEF Initials
  <2> QED BY <2>1, FieldFacts DEF m
<1>18. /\ Shape(m) /\ m.block = b /\ m.ok /\ m.values = e.values /\ m.env = e.env
       /\ m.stmts = <<>> /\ m.phis = <<>>
  <2>1. /\ Shape(m) /\ m.block = b /\ m.ok = e.ok /\ m.values = e.values /\ m.env = e.env
        /\ m.stmts = e.stmts /\ m.phis = e.phis
    BY <1>17 DEF Context, Shape
  <2> QED BY <1>15, <2>1 DEF Initials
<1>19. /\ Extends(ssa.values, m.values) /\ ValuesFrom(m.values, Renamed \cup {m.block})
       /\ EnvTyped(m.values, m.env)
  BY <1>15, <1>18, ValuesFromMore DEF Initials
<1>20. ASSUME NEW x \in DOMAIN fn.types, m.env[x] # NoValue
       PROVE  Ready(m.values, m, m.block, m.env[x], 1)
  <2>1. InRange(m.values, m.env[x]) BY <1>19, <1>20 DEF EnvTyped
  <2>2. m.values[m.env[x]].kind = "initial" /\ m.values[m.env[x]].block = NoBlock
    BY <1>15, <1>18, <1>20 DEF Initials
  <2>3. NoBlock # b BY <1>1, GraphFacts
  <2> QED BY <1>18, <2>1, <2>2, <2>3 DEF Ready, Defined
<1>21. IsSeq(m.phis) /\ ToSet(m.phis) = {} BY <1>18, EmptyFacts
<1>22. Good(m) BY <1>18, <1>19, <1>20, <1>21, GoodStart
<1> QED BY <1>16, <1>18, <1>22 DEF m, e, s

-----------------------------------------------------------------------------
(* One predecessor *)

\* A block with one predecessor takes over its environment.
LEMMA SingleFact ==
  ASSUME RenamingState, todo # <<>>, Head(todo) # fn.entry, NEW p, Preds(fn, Head(todo)) = {p}
  PROVE  LET b == Head(todo)
             m == [Started(b) EXCEPT !.env = ssa.envs[p]]
         IN  /\ p \in Renamed /\ Preds(fn, b) \cap Reached(fn) = {p}
             /\ Shape(m) /\ m.block = b /\ m.ok /\ Good(m) /\ m.env = ssa.envs[p]
<1> DEFINE b == Head(todo)
           s == Started(b)
           m == [s EXCEPT !.env = ssa.envs[p]]
<1>1. b \in Blocks(fn) /\ Preds(fn, b) \cap Reached(fn) \subseteq Renamed
      /\ Preds(fn, b) \cap Reached(fn) # {}
  BY NextFacts
<1>2. p \in Renamed /\ Preds(fn, b) \cap Reached(fn) = {p} BY <1>1
<1>3. /\ Shape(s) /\ Good(s) /\ s.block = b /\ s.stmts = <<>> /\ s.phis = <<>> /\ s.ok
      /\ s.values = ssa.values
  BY StartedFacts
<1> HIDE DEF s
<1> DEFINE env == ssa.envs[p]
<1> HIDE DEF b, env
<1>4. m = Context(s.values, env, s.phis, s.stmts, s.term, s.block, s.ok)
  <2>1. Shape(s) BY <1>3
  <2>2. [s EXCEPT !.env = env] = Context(s.values, env, s.phis, s.stmts, s.term, s.block, s.ok)
    BY <2>1 DEF Shape, Context
  <2> QED BY <2>2 DEF env
<1> HIDE DEF m
<1>5. /\ Shape(m) /\ m.block = b /\ m.ok /\ m.values = ssa.values /\ m.env = ssa.envs[p]
      /\ m.stmts = <<>> /\ m.phis = <<>>
  <2>1. /\ Shape(m) /\ m.block = s.block /\ m.ok = s.ok /\ m.values = s.values /\ m.env = env
        /\ m.stmts = s.stmts /\ m.phis = s.phis
    BY <1>4 DEF Context, Shape
  <2> QED BY <1>3, <2>1 DEF env
<1>6. /\ EnvTyped(m.values, m.env) /\ Extends(ssa.values, m.values)
      /\ ValuesFrom(m.values, Renamed \cup {m.block})
  BY <1>2, <1>3, <1>5 DEF RenamingState, EnvsRight, Good
<1>7. ASSUME NEW x \in DOMAIN fn.types, m.env[x] # NoValue
      PROVE  Ready(m.values, m, m.block, m.env[x], 1)
  <2> DEFINE v == ssa.envs[p][x]
  <2>1. v # NoValue /\ m.env[x] = v BY <1>5, <1>7
  <2> HIDE DEF v
  <2>2. /\ InRange(ssa.values, v) /\ Defined(ssa.values, v, p)
        /\ (ssa.values[v].kind = "initial" /\ ssa.values[v].block = NoBlock) \/ ssa.values[v].block \in Renamed
    BY <1>2, <2>1, ValueAtPred DEF v
  <2>3. \A q \in Preds(fn, Head(todo)) \cap Reached(fn) : Defined(ssa.values, v, q)
    BY <1>2, <2>2 DEF b
  <2>4. Preds(fn, Head(todo)) \cap Reached(fn) # {} BY <1>1 DEF b
  <2>5. Ready(ssa.values, m, Head(todo), v, 1) BY <2>2, <2>3, <2>4, ReadyJoin
  <2> QED BY <1>5, <2>1, <2>5 DEF b
<1>8. IsSeq(m.phis) /\ ToSet(m.phis) = {} BY <1>5, EmptyFacts
<1>9. Good(m) BY <1>5, <1>6, <1>7, <1>8, GoodStart
<1> QED BY <1>2, <1>5, <1>9 DEF m, b, s

\* The environment at the start of a block: what is live there has a value, or
\* is a local that some path leaves undefined; those have none.
LEMMA MergeEnvsFacts ==
  ASSUME RenamingState, todo # <<>>
  PROVE  LET b == Head(todo)
             m == MergeEnvs(Started(b))
         IN  /\ Shape(m) /\ m.block = b
             /\ m.ok => /\ Good(m)
                        /\ \A x \in live[b] : m.env[x] = NoValue => x \in Locals /\ b \in StaysUndefined(x)
                        /\ \A x \in Locals : b \in StaysUndefined(x) => m.env[x] = NoValue
             /\ ~m.ok => ReadsUndefined
<1> DEFINE b == Head(todo)
           preds == Preds(fn, b)
           s == Started(b)
           m == MergeEnvs(s)
<1>1. /\ b \in Reached(fn) /\ b \in Blocks(fn) /\ WellFormed(fn) /\ LiveTyped(live)
      /\ preds \cap Reached(fn) \subseteq Renamed
      /\ b # fn.entry => preds \cap Reached(fn) # {}
  BY NextFacts DEF RenamingState
<1>2. s.block = b BY StartedFacts
<1>3. m = IF b = fn.entry THEN [InitialEnv(s) EXCEPT !.block = b]
          ELSE IF Cardinality(preds) = 1 THEN [s EXCEPT !.env = ssa.envs[CHOOSE p \in preds : TRUE]]
          ELSE FoldLeft(MergeSymbol, s, Ascending(live[b]))
  <2> HIDE DEF s
  <2>1. MergeEnvs(s) =
          IF s.block = fn.entry THEN [InitialEnv(s) EXCEPT !.block = s.block]
          ELSE IF Cardinality(Preds(fn, s.block)) = 1
               THEN [s EXCEPT !.env = ssa.envs[CHOOSE p \in Preds(fn, s.block) : TRUE]]
          ELSE FoldLeft(MergeSymbol, s, Ascending(live[s.block]))
    BY DEF MergeEnvs
  <2> HIDE DEF b
  <2> QED BY <1>2, <2>1
<1>4. live[b] \subseteq DOMAIN fn.types /\ Locals \subseteq DOMAIN fn.types
  BY <1>1 DEF LiveTyped, Locals
<1> HIDE DEF m, b
<1>5. CASE b = fn.entry
  <2>1. /\ Shape(m) /\ m.block = b /\ m.ok /\ Good(m)
        /\ \A x \in DOMAIN fn.types :
             m.env[x] = NoValue <=> x \notin InputPorts(fn) /\ x \notin OutputPorts(fn)
    BY <1>1, <1>3, <1>5, EntryFacts
  <2>2. \A x : b \in StaysUndefined(x) BY <1>1, <1>5, UndefinedFacts
  <2>3. \A x \in live[b] : m.env[x] = NoValue => x \in Locals /\ b \in StaysUndefined(x)
    BY <1>4, <2>1, <2>2 DEF Locals
  <2>4. \A x \in Locals : b \in StaysUndefined(x) => m.env[x] = NoValue BY <2>1 DEF Locals
  <2> QED BY <2>1, <2>3, <2>4 DEF m, b
<1>6. CASE b # fn.entry /\ Cardinality(preds) = 1
  <2>1. PICK p : preds = {p}
    <3>1. Len(fn.blocks) \in Nat /\ Blocks(fn) = 1..Len(fn.blocks) BY <1>1, GraphFacts
    <3>2. preds \in SUBSET (1..Len(fn.blocks)) BY <3>1 DEF Preds
    <3>3. IsFiniteSet(1..Len(fn.blocks)) BY <3>1, FS_Interval
    <3> HIDE DEF preds
    <3>4. IsFiniteSet(preds) BY <3>2, <3>3, FS_Subset
    <3> QED BY <1>6, <3>4, FS_Singleton
  <2>2. m = [s EXCEPT !.env = ssa.envs[p]]
    <3>1. (CHOOSE q \in preds : TRUE) = p BY <2>1
    <3> HIDE DEF preds, s
    <3> QED BY <1>3, <1>6, <3>1
  <2>3. /\ p \in Renamed /\ preds \cap Reached(fn) = {p}
        /\ Shape(m) /\ m.block = b /\ m.ok /\ Good(m) /\ m.env = ssa.envs[p]
    BY <1>6, <2>1, <2>2, SingleFact DEF b
  <2>4. ASSUME NEW x \in live[b], m.env[x] = NoValue PROVE x \in Locals /\ b \in StaysUndefined(x)
    <3>1. ssa.envs[p][x] = NoValue /\ p \in Preds(fn, b) \cap Renamed BY <2>1, <2>3, <2>4
    <3> QED BY <1>1, <3>1, MissingAtPred
  <2>5. ASSUME NEW x \in Locals, b \in StaysUndefined(x) PROVE m.env[x] = NoValue
    <3>1. \E q \in Preds(fn, b) \cap Reached(fn) : ssa.envs[q][x] = NoValue
      BY <1>1, <1>6, <2>5, KeptAtPred
    <3> QED BY <2>3, <3>1
  <2> QED BY <2>3, <2>4, <2>5 DEF m, b
<1>7. CASE b # fn.entry /\ Cardinality(preds) # 1
  <2>1. m = FoldLeft(MergeSymbol, s, Ascending(live[b])) BY <1>3, <1>7
  <2>2. /\ Shape(m) /\ m.block = b
        /\ m.ok => /\ Good(m)
                   /\ \A x \in live[b] : m.env[x] # NoValue /\ ~MissingAt(b, x)
                   /\ \A x \in DOMAIN fn.types : x \notin live[b] => m.env[x] = NoValue
        /\ ~m.ok => \E x \in live[b] : MissingAt(b, x)
    BY <1>7, <2>1, JoinFacts DEF b
  <2>3. ASSUME m.ok, NEW x \in Locals, b \in StaysUndefined(x) PROVE m.env[x] = NoValue
    <3>1. \E q \in Preds(fn, b) \cap Reached(fn) : ssa.envs[q][x] = NoValue
      BY <1>1, <1>7, <2>3, KeptAtPred
    <3>2. MissingAt(b, x) BY <3>1 DEF MissingAt
    <3>3. x \notin live[b] BY <2>2, <2>3, <3>2
    <3> QED BY <1>4, <2>2, <2>3, <3>3
  <2>4. ASSUME ~m.ok PROVE ReadsUndefined
    <3>1. PICK x \in live[b] : MissingAt(b, x) BY <2>2, <2>4
    <3>2. PICK p \in Preds(fn, b) \cap Reached(fn) : ssa.envs[p][x] = NoValue BY <3>1 DEF MissingAt
    <3>3. p \in Preds(fn, b) \cap Renamed BY <1>1
    <3>4. x \in Locals /\ b \in StaysUndefined(x) BY <1>1, <3>2, <3>3, MissingAtPred
    <3> QED BY <1>1, <3>4, LiveUndefined
  <2> QED BY <2>2, <2>3, <2>4 DEF m, b
<1> QED BY <1>5, <1>6, <1>7

-----------------------------------------------------------------------------
(* A block *)

\* The code of a block, its terminator included.
BlockRight(values, code, b) ==
  /\ CodeRight(values, code, b) /\ IsSeq(code.term.on)
  /\ \A o \in ToSet(code.term.on) :
       o.kind # "lit" => Ready(values, code, b, o.v, Len(code.stmts) + 1)

\* Code that is right stays right when values are added.
LEMMA BlockGrows ==
  ASSUME NEW values, NEW more, Extends(values, more), NEW code, NEW b, BlockRight(values, code, b)
  PROVE  BlockRight(more, code, b)
<1>1. CodeRight(values, code, b) /\ CodeRight(more, code, b) BY CodeGrows DEF BlockRight
<1> DEFINE k == Len(code.stmts) + 1
<1>2. k \in Nat /\ k <= k BY <1>1, SeqFacts DEF CodeRight
<1> HIDE DEF k
<1>3. \A v : Ready(values, code, b, v, k) => Ready(more, code, b, v, k) BY <1>2, ReadyGrows
<1> QED BY <1>1, <1>3 DEF BlockRight, k

\* Only the phis and the statements matter.
LEMMA CodeSame ==
  ASSUME NEW values, NEW code, NEW c, NEW b, code.phis = c.phis, code.stmts = c.stmts
  PROVE  /\ CodeRight(values, c, b) => CodeRight(values, code, b)
         /\ \A v, i : Ready(values, c, b, v, i) => Ready(values, code, b, v, i)
<1>1. PhisOf(code) = PhisOf(c) BY DEF PhisOf
<1>2. \A v, i : Ready(values, c, b, v, i) => Ready(values, code, b, v, i) BY <1>1 DEF Ready
<1>3. \A i, s : StmtRight(values, c, b, i, s) => StmtRight(values, code, b, i, s)
  BY <1>2 DEF StmtRight
<1> QED BY <1>2, <1>3 DEF CodeRight

CodeOf(c) == [phis |-> c.phis, stmts |-> c.stmts, term |-> c.term]

\* What renaming the next block leaves.
RenamedRight(c, b) ==
  /\ Extends(ssa.values, c.values) /\ ValuesFrom(c.values, Renamed \cup {b})
  /\ EnvTyped(c.values, c.env)
  /\ \A x \in DOMAIN fn.types : c.env[x] # NoValue => Defined(c.values, c.env[x], b)
  /\ BlockRight(c.values, CodeOf(c), b)
  /\ \A x \in LiveOut(fn, ssa.exit, live, b) :
       c.env[x] = NoValue => x \in Locals /\ b \in StaysUndefined(x) /\ ~Writes(b, x)
  /\ \A x \in Locals : b \in StaysUndefined(x) =>
       ~ReadsFirst(b, x) /\ (~Writes(b, x) => c.env[x] = NoValue)
  /\ \A x \in InputPorts(fn) : ~Writes(b, x)

\* Renaming the next block either leaves it right, or fails because the
\* function may be refused.
LEMMA RenamedBlockFacts ==
  ASSUME RenamingState, todo # <<>>
  PROVE  LET b == Head(todo)
             c == RenamedBlock(b)
         IN  /\ c.ok => RenamedRight(c, b)
             /\ ~c.ok => ReadsUndefined \/ WritesInput
<1> DEFINE b == Head(todo)
           s == fn.blocks[b].stmts
           t == fn.blocks[b].term
           m == MergeEnvs(Started(b))
           d == FoldLeft(RewriteStmt, m, s)
           c == RenamedBlock(b)
<1>1. /\ b \in Reached(fn) /\ b \in Blocks(fn) /\ WellFormed(fn) /\ LiveTyped(live)
      /\ live[b] = LiveIn(live, b)
  BY NextFacts DEF RenamingState, LiveSettled
<1>2. c = RewriteTerm(d, t) BY DEF RenamedBlock, Started, Context
<1>3. /\ Shape(m) /\ m.block = b
      /\ m.ok => /\ Good(m)
                 /\ \A x \in live[b] : m.env[x] = NoValue => x \in Locals /\ b \in StaysUndefined(x)
                 /\ \A x \in Locals : b \in StaysUndefined(x) => m.env[x] = NoValue
      /\ ~m.ok => ReadsUndefined
  BY MergeEnvsFacts
<1>4. IsSeq(s) /\ (\A i \in 1..Len(s) : StmtAllowed(fn, s[i])) /\ TermAllowed(fn, t)
  BY <1>1, BlockFacts
<1> HIDE DEF b, m
<1>5. /\ Shape(d) /\ d.block = b
      /\ d.ok => /\ m.ok /\ Good(d)
                 /\ \A x : ReadsIn(s, Len(s), x) => m.env[x] # NoValue
                 /\ \A x \in InputPorts(fn) : ~WritesIn(s, Len(s), x)
                 /\ \A y \in DOMAIN fn.types :
                      d.env[y] = NoValue <=> m.env[y] = NoValue /\ ~WritesIn(s, Len(s), y)
      /\ ~d.ok => \/ ~m.ok
                  \/ \E x : ReadsIn(s, Len(s), x) /\ m.env[x] = NoValue
                  \/ \E x \in InputPorts(fn) : WritesIn(s, Len(s), x)
  <2> HIDE DEF s
  <2> QED BY <1>1, <1>3, <1>4, BodyFacts
<1> HIDE DEF d
<1>6. /\ c.ok => /\ d.ok /\ \A x \in ReadsOfTerm(t) : d.env[x] # NoValue
                 /\ c.values = d.values /\ c.env = d.env /\ c.phis = d.phis /\ c.stmts = d.stmts
                 /\ IsSeq(c.term.on) /\ \A o \in ToSet(c.term.on) : UsableOperand(d, o)
      /\ ~c.ok => ~d.ok \/ \E x \in ReadsOfTerm(t) : d.env[x] = NoValue
  <2> HIDE DEF c, t
  <2> QED BY <1>1, <1>2, <1>4, <1>5, TermFacts
<1>7. \A x : /\ Writes(b, x) <=> WritesIn(s, Len(s), x)
             /\ ReadsFirst(b, x) <=> \/ ReadsIn(s, Len(s), x)
                                     \/ x \in ReadsOfTerm(t) /\ ~WritesIn(s, Len(s), x)
             /\ ReadsFirst(b, x) \/ Writes(b, x) => x \in DOMAIN fn.types
  BY <1>1, BlockSymbols
<1>8. ReadsOfTerm(t) \subseteq DOMAIN fn.types BY <1>4, ReadsFacts DEF TermAllowed, ReadsOfTerm
<1>9. \A x : x \in live[b] <=>
        ReadsFirst(b, x) \/ (x \in LiveOut(fn, ssa.exit, live, b) /\ ~Writes(b, x))
  BY <1>1, LiveInFacts
<1>10. Locals \subseteq DOMAIN fn.types BY DEF Locals
<1> HIDE DEF s, t, c
<1>11. ASSUME m.ok, NEW x, ReadsFirst(b, x), m.env[x] = NoValue PROVE ReadsUndefined
  <2>1. x \in live[b] BY <1>9, <1>11
  <2>2. x \in Locals /\ b \in StaysUndefined(x) BY <1>3, <1>11, <2>1
  <2> QED BY <1>11, <2>2 DEF ReadsUndefined
<1>12. ASSUME ~c.ok PROVE ReadsUndefined \/ WritesInput
  <2>1. CASE ~m.ok BY <1>3, <2>1
  <2>2. CASE m.ok /\ d.ok
    <3>1. PICK x \in ReadsOfTerm(t) : d.env[x] = NoValue BY <1>6, <1>12, <2>2
    <3>2. m.env[x] = NoValue /\ ~WritesIn(s, Len(s), x) BY <1>5, <1>8, <2>2, <3>1
    <3>3. ReadsFirst(b, x) BY <1>7, <3>1, <3>2
    <3> QED BY <1>11, <2>2, <3>2, <3>3
  <2>3. CASE m.ok /\ ~d.ok
    <3>1. CASE \E x \in InputPorts(fn) : WritesIn(s, Len(s), x) BY <1>1, <1>7, <3>1 DEF WritesInput
    <3>2. CASE \E x : ReadsIn(s, Len(s), x) /\ m.env[x] = NoValue
      <4>1. PICK x : ReadsIn(s, Len(s), x) /\ m.env[x] = NoValue BY <3>2
      <4>2. ReadsFirst(b, x) BY <1>7, <4>1
      <4> QED BY <1>11, <2>3, <4>1, <4>2
    <3> QED BY <1>5, <2>3, <3>1, <3>2
  <2> QED BY <2>1, <2>2, <2>3
<1>13. ASSUME c.ok PROVE RenamedRight(c, b)
  <2>1. d.ok /\ m.ok /\ Good(d) BY <1>5, <1>6, <1>13
  <2>2. /\ c.values = d.values /\ c.env = d.env /\ c.phis = d.phis /\ c.stmts = d.stmts
        /\ IsSeq(c.term.on) /\ \A o \in ToSet(c.term.on) : UsableOperand(d, o)
    BY <1>6, <1>13
  <2>3. Extends(ssa.values, c.values) /\ ValuesFrom(c.values, Renamed \cup {b}) /\ EnvTyped(c.values, c.env)
    BY <1>5, <2>1, <2>2 DEF Good
  <2>4. \A x \in DOMAIN fn.types : c.env[x] # NoValue => Defined(c.values, c.env[x], b)
    <3> TAKE x \in DOMAIN fn.types
    <3> HAVE c.env[x] # NoValue
    <3>1. Usable(d, d.env[x]) BY <2>1, <2>2 DEF Good
    <3>2. Defined(d.values, d.env[x], d.block) BY <1>1, <2>1, <3>1, UsableDefined
    <3> QED BY <1>5, <2>2, <3>2
  <2>5. BlockRight(c.values, CodeOf(c), b)
    <3> DEFINE code == CodeOf(c)
    <3>1. code.phis = d.phis /\ code.stmts = d.stmts /\ code.term = c.term BY <2>2 DEF CodeOf
    <3> HIDE DEF code
    <3>2. CodeRight(d.values, d, b) BY <1>5, <2>1 DEF Good
    <3>3. /\ CodeRight(d.values, code, b)
          /\ \A v, i : Ready(d.values, d, b, v, i) => Ready(d.values, code, b, v, i)
      BY <3>1, <3>2, CodeSame
    <3>4. \A o \in ToSet(code.term.on) :
            o.kind # "lit" => Ready(d.values, code, b, o.v, Len(code.stmts) + 1)
      BY <1>5, <2>2, <3>1, <3>3 DEF UsableOperand, Usable
    <3>5. BlockRight(d.values, code, b) BY <2>2, <3>1, <3>3, <3>4 DEF BlockRight
    <3> QED BY <2>2, <3>5 DEF code
  <2>6. ASSUME NEW x \in LiveOut(fn, ssa.exit, live, b), c.env[x] = NoValue
        PROVE  x \in Locals /\ b \in StaysUndefined(x) /\ ~Writes(b, x)
    <3>1. x \in DOMAIN fn.types BY <1>1, LiveOutTyped
    <3>2. m.env[x] = NoValue /\ ~Writes(b, x) BY <1>5, <1>7, <2>1, <2>2, <2>6, <3>1
    <3>3. x \in live[b] BY <1>9, <3>2
    <3> QED BY <1>3, <2>1, <3>2, <3>3
  <2>7. ASSUME NEW x \in Locals, b \in StaysUndefined(x)
        PROVE  ~ReadsFirst(b, x) /\ (~Writes(b, x) => c.env[x] = NoValue)
    <3>1. m.env[x] = NoValue /\ x \in DOMAIN fn.types BY <1>3, <1>10, <2>1, <2>7
    <3>2. ~Writes(b, x) => d.env[x] = NoValue BY <1>5, <1>7, <2>1, <3>1
    <3>3. ~ReadsIn(s, Len(s), x) BY <1>5, <2>1, <3>1
    <3>4. ~(x \in ReadsOfTerm(t) /\ ~WritesIn(s, Len(s), x)) BY <1>6, <1>7, <1>13, <3>2
    <3> QED BY <1>7, <2>2, <3>2, <3>3, <3>4
  <2>8. \A x \in InputPorts(fn) : ~Writes(b, x) BY <1>5, <1>7, <2>1
  <2> QED BY <2>3, <2>4, <2>5, <2>6, <2>7, <2>8 DEF RenamedRight
<1> QED BY <1>12, <1>13 DEF c, b

-----------------------------------------------------------------------------
(* A step leaves the function as it is *)

\* Paths, writes and reads are those of the function.
LEMMA SameFunction ==
  ASSUME fn' = fn
  PROVE  /\ \A a, b : Dominates(a, b)' <=> Dominates(a, b)
         /\ \A b, x : Writes(b, x)' <=> Writes(b, x)
         /\ \A b, x : ReadsFirst(b, x)' <=> ReadsFirst(b, x)
         /\ \A x : StaysUndefined(x)' = StaysUndefined(x)
         /\ Locals' = Locals
<1>1. ASSUME NEW a, NEW b PROVE Dominates(a, b)' <=> Dominates(a, b)
  <2>1. Dominates(a, b)' <=> b \notin Avoiding(fn', a) BY DEF Dominates, Avoiding
  <2>2. Dominates(a, b) <=> b \notin Avoiding(fn, a) BY DominatesIs
  <2> QED BY <2>1, <2>2
<1>2. \A b, x : Writes(b, x)' <=> Writes(b, x) BY DEF Writes
<1>3. \A b, x : ReadsFirst(b, x)' <=> ReadsFirst(b, x) BY DEF ReadsFirst
<1>4. ASSUME NEW x PROVE StaysUndefined(x)' = StaysUndefined(x)
  <2> DEFINE old == [b \in Blocks(fn) |-> IF Writes(b, x) THEN {} ELSE Succs(fn, b)]
             new == [b \in Blocks(fn') |-> IF Writes(b, x)' THEN {} ELSE Succs(fn', b)]
  <2>1. new = old BY <1>2
  <2>2. StaysUndefined(x) = Spread(old, {fn.entry}) BY DEF StaysUndefined
  <2>3. StaysUndefined(x)' = Spread(new, {fn'.entry}) BY DEF StaysUndefined
  <2> HIDE DEF old, new
  <2> QED BY <2>1, <2>2, <2>3
<1>5. Locals' = Locals BY DEF Locals
<1> QED BY <1>1, <1>2, <1>3, <1>4, <1>5

\* So are the order of the blocks and what may be live.
LEMMA SameOrder ==
  ASSUME fn' = fn, NEW order, NEW in
  PROVE  /\ Forward(order) => Forward(order)'
         /\ LiveTyped(in) => LiveTyped(in)'
         /\ Accountable(in) => Accountable(in)'
<1>1. Forward(order) => Forward(order)' BY DEF Forward
<1>2. LiveTyped(in) => LiveTyped(in)' BY DEF LiveTyped
<1>3. Accountable(in) => Accountable(in)' BY SameFunction DEF Accountable
<1> QED BY <1>1, <1>2, <1>3

\* Liveness stays settled while the function and its exit stay.
LEMMA SameSettled ==
  ASSUME fn' = fn, ssa'.exit = ssa.exit, NEW in, LiveSettled(in)
  PROVE  LiveSettled(in)'
<1>1. \A b : LiveIn(in, b)' = LiveIn(in, b) BY DEF LiveIn
<1> QED BY <1>1 DEF LiveSettled

\* A definition that reaches a block still does.
LEMMA SameDefined ==
  ASSUME fn' = fn, NEW values, NEW v, NEW b
  PROVE  Defined(values, v, b)' <=> Defined(values, v, b)
BY SameFunction DEF Defined

\* An environment stays typed.
LEMMA SameEnv ==
  ASSUME fn' = fn, NEW values, NEW env, EnvTyped(values, env)
  PROVE  EnvTyped(values, env)'
BY DEF EnvTyped

\* The code of a block stays right.
LEMMA SameBlock ==
  ASSUME fn' = fn, NEW values, NEW code, NEW b, BlockRight(values, code, b)
  PROVE  BlockRight(values, code, b)'
<1>1. \A v, i : Ready(values, code, b, v, i)' <=> Ready(values, code, b, v, i)
  BY SameDefined DEF Ready
<1>2. \A phi : PhiRight(values, b, phi) => PhiRight(values, b, phi)'
  BY SameDefined DEF PhiRight
<1>3. \A i, s : StmtRight(values, code, b, i, s) => StmtRight(values, code, b, i, s)'
  BY <1>1 DEF StmtRight
<1>4. CodeRight(values, code, b) => CodeRight(values, code, b)'
  BY <1>2, <1>3 DEF CodeRight
<1> QED BY <1>1, <1>4 DEF BlockRight

\* A reason to refuse the function remains one.
LEMMA SameRefusal ==
  ASSUME fn' = fn
  PROVE  Refusable => Refusable'
<1>1. ReadsUndefined => ReadsUndefined' BY SameFunction DEF ReadsUndefined
<1>2. WritesInput => WritesInput' BY SameFunction DEF WritesInput
<1> QED BY <1>1, <1>2 DEF Refusable

-----------------------------------------------------------------------------
(* The invariant *)

SsaShape ==
  ssa = [values |-> ssa.values, exit |-> ssa.exit, finals |-> ssa.finals, blocks |-> ssa.blocks,
         envs |-> ssa.envs]

\* Before the first block is renamed.
Unnamed ==
  /\ SsaShape /\ ssa.values = <<>>
  /\ ssa.blocks = [b \in Blocks(fn) |-> ssa.blocks[b]]
  /\ ssa.envs = [b \in Blocks(fn) |-> ssa.envs[b]]

Analysed == ~Cyclic(fn) /\ ssa.exit = EffectiveExit(fn) /\ ssa.exit # NoBlock

\* Between two passes of computeLiveness.
Settling ==
  /\ Analysed /\ Unnamed /\ Forward(todo) /\ ToSet(todo) = Reached(fn)
  /\ LiveTyped(live) /\ Accountable(live)

CodesRight ==
  /\ ssa.blocks = [b \in Blocks(fn) |-> ssa.blocks[b]]
  /\ \A b \in Renamed : BlockRight(ssa.values, ssa.blocks[b], b)

\* Between two blocks.
Renaming == Analysed /\ SsaShape /\ RenamingState /\ InputsKept /\ CodesRight

SsaInv ==
  /\ fn \in Programs
  /\ phase = "normalized" => Unnamed /\ live = [b \in Blocks(fn) |-> {}]
  /\ phase = "liveness" => Settling
  /\ phase = "rename" => Renaming
  /\ phase \in {"bound", "ssa"} => Renaming /\ todo = <<>>
  /\ phase = "refused" => Refusable
  /\ phase # "invalid"

\* The stage starts in the invariant.
LEMMA InvStarts == SsaInit => SsaInv
<1> SUFFICES ASSUME SsaInit PROVE SsaInv OBVIOUS
<1>1. /\ fn \in Programs /\ phase = "normalized" /\ live = [b \in Blocks(fn) |-> {}]
      /\ ssa = [values |-> <<>>, exit |-> NoBlock, finals |-> <<>>,
                blocks |-> [b \in Blocks(fn) |-> [phis |-> <<>>, stmts |-> <<>>, term |-> Unreachable]],
                envs |-> [b \in Blocks(fn) |-> EmptyEnv]]
  BY DEF SsaInit
<1>2. Unnamed
  <2> DEFINE blocks == [b \in Blocks(fn) |-> [phis |-> <<>>, stmts |-> <<>>, term |-> Unreachable]]
             envs == [b \in Blocks(fn) |-> EmptyEnv]
  <2>1. blocks = [b \in Blocks(fn) |-> blocks[b]] /\ envs = [b \in Blocks(fn) |-> envs[b]] OBVIOUS
  <2>2. ssa = [values |-> <<>>, exit |-> NoBlock, finals |-> <<>>, blocks |-> blocks, envs |-> envs]
    BY <1>1
  <2> HIDE DEF blocks, envs
  <2>3. SsaShape /\ ssa.values = <<>> /\ ssa.blocks = blocks /\ ssa.envs = envs BY <2>2 DEF SsaShape
  <2> QED BY <2>1, <2>3 DEF Unnamed
<1> QED BY <1>1, <1>2 DEF SsaInv

-----------------------------------------------------------------------------
(* Each action *)

\* analyzeCFG refuses a function with a loop or without an exit.
LEMMA RefuseKeeps == SsaInv /\ RefuseCFG => SsaInv'
<1> SUFFICES ASSUME SsaInv, RefuseCFG PROVE SsaInv' OBVIOUS
<1>1. fn' = fn /\ phase' = "refused" /\ Refusable BY DEF RefuseCFG, Refusable
<1>2. Refusable' BY <1>1, SameRefusal
<1> QED BY <1>1, <1>2 DEF SsaInv

\* analyzeCFG hands over an order in which no block comes after one it leads to.
LEMMA AnalyzeKeeps == SsaInv /\ AnalyzeCFG => SsaInv'
<1> SUFFICES ASSUME SsaInv, AnalyzeCFG PROVE SsaInv' OBVIOUS
<1>1. /\ fn' = fn /\ live' = live /\ phase' = "liveness" /\ todo' = TopologicalOrder
      /\ ssa' = [ssa EXCEPT !.exit = EffectiveExit(fn)]
      /\ ~Cyclic(fn) /\ EffectiveExit(fn) # NoBlock
      /\ fn \in Programs /\ Unnamed /\ live = [b \in Blocks(fn) |-> {}]
  BY DEF AnalyzeCFG, SsaInv
<1>2. WellFormed(fn) BY <1>1, ProgramsWellFormed
<1> DEFINE e == EffectiveExit(fn)
<1>3. ssa' = [values |-> ssa.values, exit |-> e, finals |-> ssa.finals, blocks |-> ssa.blocks,
              envs |-> ssa.envs]
  <2>1. ssa' = [ssa EXCEPT !.exit = e] BY <1>1
  <2> HIDE DEF e
  <2>2. ssa = [values |-> ssa.values, exit |-> ssa.exit, finals |-> ssa.finals, blocks |-> ssa.blocks,
               envs |-> ssa.envs]
    BY <1>1 DEF Unnamed, SsaShape
  <2> QED BY <2>1, <2>2
<1>4. SsaShape' /\ ssa'.exit = e /\ ssa'.values = ssa.values /\ ssa'.blocks = ssa.blocks
      /\ ssa'.envs = ssa.envs
  <2> HIDE DEF e
  <2> QED BY <1>3 DEF SsaShape
<1>5. Analysed' BY <1>1, <1>4 DEF Analysed
<1>6. Unnamed' BY <1>1, <1>4 DEF Unnamed
<1>7. Forward(todo)' /\ (ToSet(todo) = Reached(fn))'
  <2>1. Forward(TopologicalOrder) /\ ToSet(TopologicalOrder) = Reached(fn) BY <1>1, <1>2, OrderFacts
  <2>2. Forward(todo') /\ ToSet(todo') = Reached(fn) BY <1>1, <2>1
  <2> QED BY <1>1, <2>2, SameOrder
<1>8. LiveTyped(live)' /\ Accountable(live)'
  <2>1. \A b \in Blocks(fn) : live[b] = {} BY <1>1
  <2>2. LiveTyped(live') /\ Accountable(live') BY <1>1, <2>1 DEF LiveTyped, Accountable
  <2> QED BY <1>1, <2>2, SameOrder
<1>9. Settling' BY <1>5, <1>6, <1>7, <1>8 DEF Settling
<1> QED BY <1>1, <1>9 DEF SsaInv

\* A pass of computeLiveness; when it changes nothing, liveness is settled and
\* no block is renamed yet.
LEMMA LivenessKeeps == SsaInv /\ ComputeLiveness => SsaInv'
<1> SUFFICES ASSUME SsaInv, ComputeLiveness PROVE SsaInv' OBVIOUS
<1>1. /\ fn' = fn /\ todo' = todo /\ ssa' = ssa /\ live' = LivenessPass(live, todo)
      /\ phase' = IF live' = live THEN "rename" ELSE "liveness"
      /\ fn \in Programs /\ Settling
  BY DEF ComputeLiveness, SsaInv
<1>2. WellFormed(fn) BY <1>1, ProgramsWellFormed
<1>3. /\ Analysed /\ Unnamed /\ Forward(todo) /\ ToSet(todo) = Reached(fn)
      /\ LiveTyped(live) /\ Accountable(live)
  BY <1>1 DEF Settling
<1>4. /\ IsSeq(todo) /\ ToSet(todo) \subseteq Blocks(fn)
      /\ \A i, j \in 1..Len(todo) : todo[i] = todo[j] => i = j
  BY <1>2, <1>3, ReachedFacts DEF Forward
<1>5. /\ LiveTyped(live') /\ Accountable(live')
      /\ live' = live => \A b \in ToSet(todo) : live[b] = LiveIn(live, b)
  BY <1>1, <1>2, <1>3, <1>4, PassFacts
<1>6. Analysed' /\ Unnamed' /\ Forward(todo)' /\ (ToSet(todo) = Reached(fn))'
  <2>1. Analysed' BY <1>1, <1>3 DEF Analysed
  <2>2. Unnamed' BY <1>1, <1>3 DEF Unnamed, SsaShape
  <2>3. Forward(todo') BY <1>1, <1>3
  <2>4. Forward(todo)' BY <1>1, <2>3, SameOrder
  <2> QED BY <1>1, <1>3, <2>1, <2>2, <2>4
<1>7. LiveTyped(live)' /\ Accountable(live)' BY <1>1, <1>5, SameOrder
<1>8. Settling' BY <1>6, <1>7 DEF Settling
<1>9. CASE live' # live BY <1>1, <1>8, <1>9 DEF SsaInv
<1>10. CASE live' = live
  <2>1. Renamed' = {} BY <1>6 DEF Renamed
  <2>2. WellFormed(fn)' BY <1>1, <1>2
  <2>3. LiveSettled(live)'
    <3>1. LiveSettled(live') BY <1>3, <1>5, <1>10 DEF LiveSettled
    <3> QED BY <1>1, <3>1, SameSettled
  <2>4. ValuesFrom(ssa.values, Renamed)'
    <3>1. ssa'.values = <<>> BY <1>6 DEF Unnamed
    <3>2. ValuesFrom(<<>>, {}) BY DEF ValuesFrom, InRange, IsSeq
    <3>3. ValuesFrom(ssa'.values, Renamed') BY <2>1, <3>1, <3>2
    <3> QED BY <3>3 DEF ValuesFrom
  <2>5. EnvsRight' BY <1>6, <2>1 DEF EnvsRight, Unnamed
  <2>6. MissingExplained' BY <2>1 DEF MissingExplained
  <2>7. UndefinedKept' BY <2>1 DEF UndefinedKept
  <2>8. InputsKept' BY <2>1 DEF InputsKept
  <2>9. CodesRight' BY <1>6, <2>1 DEF CodesRight, Unnamed
  <2>10. RenamingState' BY <1>6, <1>7, <2>2, <2>3, <2>4, <2>5, <2>6, <2>7 DEF RenamingState
  <2>11. Renaming' BY <1>6, <2>8, <2>9, <2>10 DEF Renaming, Unnamed
  <2> QED BY <1>1, <1>10, <2>11 DEF SsaInv
<1> QED BY <1>9, <1>10

\* The state after a block is renamed.
LEMMA RenamedState ==
  ASSUME Renaming, RenameBlock, RenamedBlock(Head(todo)).ok
  PROVE  LET b == Head(todo)
             c == RenamedBlock(b)
         IN  /\ fn' = fn /\ live' = live /\ phase' = phase /\ todo' = Tail(todo)
             /\ SsaShape' /\ ssa'.values = c.values /\ ssa'.exit = ssa.exit
             /\ ssa'.blocks = [ssa.blocks EXCEPT ![b] = CodeOf(c)]
             /\ ssa'.envs = [ssa.envs EXCEPT ![b] = c.env]
<1> DEFINE b == Head(todo)
           c == RenamedBlock(b)
           code == CodeOf(c)
<1>1. /\ fn' = fn /\ live' = live /\ phase' = phase /\ todo' = Tail(todo)
      /\ ssa' = [ssa EXCEPT !.values = c.values, !.envs[b] = c.env, !.blocks[b] = code]
  BY DEF RenameBlock, CodeOf
<1>2. ssa = [values |-> ssa.values, exit |-> ssa.exit, finals |-> ssa.finals, blocks |-> ssa.blocks,
             envs |-> ssa.envs]
  BY DEF Renaming, SsaShape
<1> HIDE DEF b, c, code
<1> DEFINE vs == c.values
           env == c.env
           envs == [ssa.envs EXCEPT ![b] = env]
           blocks == [ssa.blocks EXCEPT ![b] = code]
<1>3. ssa' = [values |-> vs, exit |-> ssa.exit, finals |-> ssa.finals, blocks |-> blocks, envs |-> envs]
  <2> DEFINE s0 == ssa
             s1 == [ssa EXCEPT !.values = vs]
             s2 == [s1 EXCEPT !.envs[b] = env]
             s3 == [s2 EXCEPT !.blocks[b] = code]
  <2>1. ssa' = s3
    <3> HIDE DEF vs, env
    <3>1. ssa' = [ssa EXCEPT !.values = vs, !.envs[b] = env, !.blocks[b] = code]
      BY <1>1 DEF vs, env
    <3> QED BY <3>1
  <2> HIDE DEF vs, env
  <2>2. s1 = [values |-> vs, exit |-> ssa.exit, finals |-> ssa.finals, blocks |-> ssa.blocks,
              envs |-> ssa.envs]
    BY <1>2
  <2> HIDE DEF s1
  <2>3. s2 = [values |-> vs, exit |-> ssa.exit, finals |-> ssa.finals, blocks |-> ssa.blocks,
              envs |-> envs]
    BY <2>2
  <2> HIDE DEF s2, envs
  <2>4. s3 = [values |-> vs, exit |-> ssa.exit, finals |-> ssa.finals, blocks |-> blocks, envs |-> envs]
    BY <2>3
  <2> QED BY <2>1, <2>4
<1> HIDE DEF vs, envs, blocks
<1>4. /\ SsaShape' /\ ssa'.values = vs /\ ssa'.exit = ssa.exit /\ ssa'.blocks = blocks
      /\ ssa'.envs = envs
  BY <1>3 DEF SsaShape
<1> QED BY <1>1, <1>4 DEF vs, envs, blocks, env, b, c, code

\* The blocks that were renamed stay right, and the next one is.
LEMMA RenameExtends ==
  ASSUME Renaming, RenameBlock, RenamedBlock(Head(todo)).ok
  PROVE  Renaming'
<1> DEFINE b == Head(todo)
           c == RenamedBlock(b)
           code == CodeOf(c)
           env == c.env
<1>1. /\ fn' = fn /\ live' = live /\ phase' = phase /\ todo' = Tail(todo)
      /\ SsaShape' /\ ssa'.values = c.values /\ ssa'.exit = ssa.exit
      /\ ssa'.blocks = [ssa.blocks EXCEPT ![b] = code]
      /\ ssa'.envs = [ssa.envs EXCEPT ![b] = env]
  BY RenamedState
<1>2. RenamingState /\ todo # <<>> BY DEF Renaming, RenameBlock
<1>3. RenamedRight(c, b) BY <1>2, RenamedBlockFacts
<1>4. b \in Reached(fn) /\ b \in Blocks(fn) /\ b \notin Renamed BY <1>2, NextFacts
<1>5. Renamed' = Renamed \cup {b} /\ Forward(todo)'
  <2>1. /\ IsSeq(todo) /\ ToSet(todo) \subseteq Reached(fn)
        /\ \A i, j \in 1..Len(todo) : todo[i] = todo[j] => i = j
        /\ \A i \in 1..Len(todo) : \A j \in i..Len(todo) : todo[i] \notin Succs(fn, todo[j])
    BY <1>2 DEF RenamingState, Forward
  <2> DEFINE t == Tail(todo)
             n == Len(todo)
  <2>2. /\ IsSeq(t) /\ n \in Nat \ {0} /\ Len(t) = n - 1 /\ b = todo[1]
        /\ \A i \in 1..(n - 1) : t[i] = todo[i + 1]
    BY <1>2, <2>1, TailFacts
  <2> HIDE DEF b, t
  <2>3. ToSet(t) = {todo[i + 1] : i \in 1..(n - 1)}
    <3>1. ToSet(t) = {t[i] : i \in 1..(n - 1)} BY <2>2, SeqFacts
    <3> QED BY <2>2, <3>1
  <2>4. ToSet(todo) = {todo[i] : i \in 1..n} BY <2>1, SeqFacts
  <2>5. \A i \in 1..(n - 1) : i + 1 \in 1..n /\ i + 1 # 1 BY <2>2
  <2>6. \A i \in 1..n : i = 1 \/ \E j \in 1..(n - 1) : i = j + 1
    <3> TAKE i \in 1..n
    <3>1. i = 1 \/ (i - 1 \in 1..(n - 1) /\ i = (i - 1) + 1) BY <2>2
    <3> QED BY <3>1
  <2>7. 1 \in 1..n BY <2>2
  <2>8. ToSet(t) = ToSet(todo) \ {b}
    <3>1. \A x \in ToSet(t) : x \in ToSet(todo) /\ x # b BY <2>1, <2>2, <2>3, <2>4, <2>5, <2>7
    <3>2. \A x \in ToSet(todo) : x # b => x \in ToSet(t)
      <4> TAKE x \in ToSet(todo)
      <4> HAVE x # b
      <4>1. PICK i \in 1..n : x = todo[i] BY <2>4
      <4>2. PICK j \in 1..(n - 1) : i = j + 1 BY <2>2, <2>6, <4>1
      <4> QED BY <2>3, <4>1, <4>2
    <3> QED BY <3>1, <3>2
  <2>9. Renamed' = Renamed \cup {b}
    <3>1. Renamed' = Reached(fn) \ ToSet(t) BY <1>1 DEF Renamed, t
    <3> QED BY <1>4, <2>8, <3>1 DEF Renamed
  <2>10. Forward(t)
    <3>1. ToSet(t) \subseteq Reached(fn) BY <2>1, <2>8
    <3>2. \A i, j \in 1..(n - 1) : t[i] = t[j] => i = j
      <4> TAKE i, j \in 1..(n - 1)
      <4>1. i + 1 \in 1..n /\ j + 1 \in 1..n /\ t[i] = todo[i + 1] /\ t[j] = todo[j + 1]
        BY <2>2, <2>5
      <4>2. i + 1 = j + 1 => i = j OBVIOUS
      <4> QED BY <2>1, <4>1, <4>2
    <3>3. \A i \in 1..(n - 1) : \A j \in i..(n - 1) : t[i] \notin Succs(fn, t[j])
      <4> TAKE i \in 1..(n - 1)
      <4> TAKE j \in i..(n - 1)
      <4>1. i + 1 \in 1..n /\ j \in 1..(n - 1) /\ j + 1 \in (i + 1)..n BY <2>2
      <4> QED BY <2>1, <2>2, <4>1
    <3> QED BY <2>2, <3>1, <3>2, <3>3 DEF Forward
  <2>11. Forward(todo') BY <1>1, <2>10 DEF t
  <2> QED BY <1>1, <2>9, <2>11, SameOrder
<1>6. /\ Extends(ssa.values, c.values) /\ ValuesFrom(c.values, Renamed \cup {b})
      /\ EnvTyped(c.values, env)
      /\ \A x \in DOMAIN fn.types : env[x] # NoValue => Defined(c.values, env[x], b)
      /\ BlockRight(c.values, code, b)
      /\ \A x \in LiveOut(fn, ssa.exit, live, b) :
           env[x] = NoValue => x \in Locals /\ b \in StaysUndefined(x) /\ ~Writes(b, x)
      /\ \A x \in Locals : b \in StaysUndefined(x) =>
           ~ReadsFirst(b, x) /\ (~Writes(b, x) => env[x] = NoValue)
      /\ \A x \in InputPorts(fn) : ~Writes(b, x)
  BY <1>3 DEF RenamedRight
<1> HIDE DEF b, c, code, env
<1>7. /\ ssa.envs = [e \in Blocks(fn) |-> ssa.envs[e]] /\ ssa.blocks = [e \in Blocks(fn) |-> ssa.blocks[e]]
      /\ \A e \in Renamed : e \in Blocks(fn)
  <2>1. WellFormed(fn) BY <1>2 DEF RenamingState
  <2>2. Renamed \subseteq Blocks(fn) BY <2>1, ReachedFacts DEF Renamed
  <2> QED BY <1>2, <2>2 DEF RenamingState, EnvsRight, Renaming, CodesRight
<1>8. /\ ssa'.envs = [e \in Blocks(fn) |-> ssa'.envs[e]] /\ ssa'.envs[b] = env
      /\ \A e \in Renamed : ssa'.envs[e] = ssa.envs[e]
  BY <1>1, <1>4, <1>7
<1>9. /\ ssa'.blocks = [e \in Blocks(fn) |-> ssa'.blocks[e]] /\ ssa'.blocks[b] = code
      /\ \A e \in Renamed : ssa'.blocks[e] = ssa.blocks[e]
  BY <1>1, <1>4, <1>7
<1>10. EnvsRight'
  <2>1. ASSUME NEW e \in Renamed'
        PROVE  /\ EnvTyped(ssa'.values, ssa'.envs[e])
               /\ \A x \in DOMAIN fn.types :
                    ssa'.envs[e][x] # NoValue => Defined(ssa'.values, ssa'.envs[e][x], e)
    <3>1. CASE e = b BY <1>1, <1>6, <1>8, <3>1
    <3>2. CASE e \in Renamed
      <4>1. /\ EnvTyped(ssa.values, ssa.envs[e])
            /\ \A x \in DOMAIN fn.types :
                 ssa.envs[e][x] # NoValue => Defined(ssa.values, ssa.envs[e][x], e)
        BY <1>2, <3>2 DEF RenamingState, EnvsRight
      <4>2. EnvTyped(c.values, ssa.envs[e]) BY <1>6, <4>1, EnvGrows
      <4>3. ASSUME NEW x \in DOMAIN fn.types, ssa.envs[e][x] # NoValue
            PROVE  Defined(c.values, ssa.envs[e][x], e)
        <5>1. InRange(ssa.values, ssa.envs[e][x]) /\ Defined(ssa.values, ssa.envs[e][x], e)
          BY <4>1, <4>3 DEF EnvTyped
        <5>2. c.values[ssa.envs[e][x]] = ssa.values[ssa.envs[e][x]] BY <1>6, <5>1, ExtendsFacts
        <5> QED BY <5>1, <5>2 DEF Defined
      <4> QED BY <1>1, <1>8, <3>2, <4>2, <4>3
    <3> QED BY <1>5, <3>1, <3>2
  <2>2. ASSUME NEW e \in Renamed'
        PROVE  /\ EnvTyped(ssa.values, ssa.envs[e])'
               /\ \A x \in DOMAIN fn'.types :
                    ssa'.envs[e][x] # NoValue => Defined(ssa.values, ssa.envs[e][x], e)'
    <3>1. EnvTyped(ssa.values, ssa.envs[e])' BY <1>1, <2>1, SameEnv
    <3>2. ASSUME NEW x \in DOMAIN fn'.types, ssa'.envs[e][x] # NoValue
          PROVE  Defined(ssa.values, ssa.envs[e][x], e)'
      <4>1. Defined(ssa'.values, ssa'.envs[e][x], e) BY <1>1, <2>1, <3>2
      <4> QED BY <1>1, <4>1, SameDefined
    <3> QED BY <3>1, <3>2
  <2> QED BY <1>1, <1>8, <2>2 DEF EnvsRight
<1>11. CodesRight'
  <2>1. ASSUME NEW e \in Renamed' PROVE BlockRight(ssa'.values, ssa'.blocks[e], e)
    <3>1. CASE e = b BY <1>1, <1>6, <1>9, <3>1
    <3>2. CASE e \in Renamed
      <4>1. BlockRight(ssa.values, ssa.blocks[e], e) BY <3>2 DEF Renaming, CodesRight
      <4> QED BY <1>1, <1>6, <1>9, <3>2, <4>1, BlockGrows
    <3> QED BY <1>5, <3>1, <3>2
  <2>2. ASSUME NEW e \in Renamed' PROVE BlockRight(ssa.values, ssa.blocks[e], e)'
    BY <1>1, <2>1, SameBlock
  <2> QED BY <1>1, <1>9, <2>2 DEF CodesRight
<1>12. MissingExplained'
  <2>1. \A e : LiveOut(fn, ssa.exit, live, e)' = LiveOut(fn, ssa.exit, live, e) BY <1>1 DEF LiveOut
  <2>2. ASSUME NEW e \in Renamed', NEW x \in LiveOut(fn, ssa.exit, live, e), ssa'.envs[e][x] = NoValue
        PROVE  x \in Locals /\ e \in StaysUndefined(x) /\ ~Writes(e, x)
    <3>1. CASE e = b BY <1>6, <1>8, <2>2, <3>1
    <3>2. CASE e \in Renamed BY <1>2, <1>8, <2>2, <3>2 DEF RenamingState, MissingExplained
    <3> QED BY <1>5, <3>1, <3>2
  <2> QED BY <1>1, <2>1, <2>2, SameFunction DEF MissingExplained
<1>13. UndefinedKept'
  <2>1. ASSUME NEW e \in Renamed', NEW x \in Locals, e \in StaysUndefined(x)
        PROVE  ~ReadsFirst(e, x) /\ (~Writes(e, x) => ssa'.envs[e][x] = NoValue)
    <3>1. CASE e = b BY <1>6, <1>8, <2>1, <3>1
    <3>2. CASE e \in Renamed BY <1>2, <1>8, <2>1, <3>2 DEF RenamingState, UndefinedKept
    <3> QED BY <1>5, <3>1, <3>2
  <2> QED BY <1>1, <2>1, SameFunction DEF UndefinedKept
<1>14. InputsKept'
  <2>1. ASSUME NEW e \in Renamed', NEW x \in InputPorts(fn) PROVE ~Writes(e, x)
    BY <1>5, <1>6 DEF Renaming, InputsKept
  <2> QED BY <1>1, <2>1, SameFunction DEF InputsKept
<1>15. ValuesFrom(ssa.values, Renamed)'
  <2>1. ValuesFrom(ssa'.values, Renamed') BY <1>1, <1>5, <1>6
  <2> QED BY <2>1 DEF ValuesFrom
<1>16. WellFormed(fn)' /\ LiveTyped(live)' /\ Accountable(live)' /\ LiveSettled(live)'
  <2>1. WellFormed(fn) /\ LiveTyped(live') /\ Accountable(live') /\ LiveSettled(live')
    BY <1>1, <1>2 DEF RenamingState
  <2>2. WellFormed(fn)' BY <1>1, <2>1
  <2>3. LiveTyped(live)' /\ Accountable(live)' BY <1>1, <2>1, SameOrder
  <2>4. LiveSettled(live)' BY <1>1, <2>1, SameSettled
  <2> QED BY <2>2, <2>3, <2>4
<1>17. Analysed' BY <1>1 DEF Analysed, Renaming
<1>18. RenamingState' BY <1>5, <1>10, <1>12, <1>13, <1>15, <1>16 DEF RenamingState
<1> QED BY <1>1, <1>11, <1>14, <1>17, <1>18 DEF Renaming

\* A block is renamed, or the function refused for a reason.
LEMMA RenameKeeps == SsaInv /\ RenameBlock => SsaInv'
<1> SUFFICES ASSUME SsaInv, RenameBlock PROVE SsaInv' OBVIOUS
<1>1. phase = "rename" /\ todo # <<>> /\ Renaming /\ fn \in Programs BY DEF SsaInv, RenameBlock
<1> DEFINE c == RenamedBlock(Head(todo))
<1>2. CASE c.ok
  <2>1. fn' = fn /\ phase' = phase BY <1>1, <1>2, RenamedState
  <2>2. Renaming' BY <1>1, <1>2, RenameExtends
  <2> QED BY <1>1, <2>1, <2>2 DEF SsaInv
<1>3. CASE ~c.ok
  <2>1. fn' = fn /\ phase' = "refused" BY <1>3 DEF RenameBlock
  <2>2. ReadsUndefined \/ WritesInput BY <1>1, <1>3, RenamedBlockFacts DEF Renaming
  <2>3. Refusable BY <2>2 DEF Refusable
  <2>4. Refusable' BY <2>1, <2>3, SameRefusal
  <2> QED BY <1>1, <2>1, <2>4 DEF SsaInv
<1> QED BY <1>2, <1>3

\* Once every block is renamed.
LEMMA AllRenamed ==
  ASSUME Renaming, todo = <<>>
  PROVE  Renamed = Reached(fn) /\ WellFormed(fn) /\ ssa.exit \in Renamed
<1>1. Renamed = Reached(fn) BY DEF Renamed, ToSet
<1>2. WellFormed(fn) /\ ssa.exit = EffectiveExit(fn) /\ ssa.exit # NoBlock
  BY DEF Renaming, RenamingState, Analysed
<1>3. ssa.exit \in Reached(fn)
  <2> DEFINE exits == ReachedExits(fn)
  <2>1. CASE fn.exit \in Reached(fn) BY <1>2, <2>1 DEF EffectiveExit
  <2>2. CASE fn.exit \notin Reached(fn)
    <3>1. Cardinality(exits) = 1 /\ ssa.exit = CHOOSE b \in exits : TRUE BY <1>2, <2>2 DEF EffectiveExit
    <3>2. exits \in SUBSET Reached(fn) BY DEF ReachedExits
    <3> HIDE DEF exits
    <3>3. exits # {} BY <3>1, FS_EmptySet
    <3>4. ssa.exit \in exits BY <3>1, <3>3
    <3> QED BY <3>2, <3>4
  <2> QED BY <2>1, <2>2
<1> QED BY <1>1, <1>2, <1>3

\* What the invariant says of the blocks does not depend on the phase or the
\* values of the ports.
LEMMA SameRenaming ==
  ASSUME Renaming, SsaShape', fn' = fn, live' = live, todo' = todo, ssa'.values = ssa.values,
         ssa'.exit = ssa.exit, ssa'.blocks = ssa.blocks, ssa'.envs = ssa.envs
  PROVE  Renaming'
<1>1. RenamingState /\ Analysed /\ InputsKept /\ CodesRight BY DEF Renaming
<1>2. Renamed' = Renamed BY DEF Renamed
<1>3. WellFormed(fn)' /\ Forward(todo)' /\ LiveTyped(live)' /\ Accountable(live)' /\ LiveSettled(live)'
  <2>1. WellFormed(fn) /\ Forward(todo') /\ LiveTyped(live') /\ Accountable(live') /\ LiveSettled(live')
    BY <1>1 DEF RenamingState
  <2>2. WellFormed(fn)' BY <2>1
  <2>3. Forward(todo)' /\ LiveTyped(live)' /\ Accountable(live)' BY <2>1, SameOrder
  <2>4. LiveSettled(live)' BY <2>1, SameSettled
  <2> QED BY <2>2, <2>3, <2>4
<1>4. ValuesFrom(ssa.values, Renamed)' BY <1>1, <1>2 DEF RenamingState, ValuesFrom
<1>5. EnvsRight'
  <2>1. EnvsRight BY <1>1 DEF RenamingState
  <2>2. ASSUME NEW e \in Renamed
        PROVE  /\ EnvTyped(ssa.values, ssa.envs[e])'
               /\ \A x \in DOMAIN fn'.types :
                    ssa'.envs[e][x] # NoValue => Defined(ssa.values, ssa.envs[e][x], e)'
    <3>1. EnvTyped(ssa'.values, ssa'.envs[e]) BY <2>1 DEF EnvsRight
    <3>2. EnvTyped(ssa.values, ssa.envs[e])' BY <3>1, SameEnv
    <3>3. ASSUME NEW x \in DOMAIN fn'.types, ssa'.envs[e][x] # NoValue
          PROVE  Defined(ssa.values, ssa.envs[e][x], e)'
      <4>1. Defined(ssa'.values, ssa'.envs[e][x], e) BY <2>1, <3>3 DEF EnvsRight
      <4> QED BY <4>1, SameDefined
    <3> QED BY <3>2, <3>3
  <2> QED BY <1>2, <2>1, <2>2 DEF EnvsRight
<1>6. MissingExplained'
  <2>1. \A e : LiveOut(fn, ssa.exit, live, e)' = LiveOut(fn, ssa.exit, live, e) BY DEF LiveOut
  <2> QED BY <1>1, <1>2, <2>1, SameFunction DEF RenamingState, MissingExplained
<1>7. UndefinedKept' BY <1>1, <1>2, SameFunction DEF RenamingState, UndefinedKept
<1>8. InputsKept' BY <1>1, <1>2, SameFunction DEF InputsKept
<1>9. CodesRight'
  <2>1. ASSUME NEW e \in Renamed PROVE BlockRight(ssa.values, ssa.blocks[e], e)'
    <3>1. BlockRight(ssa'.values, ssa'.blocks[e], e) BY <1>1 DEF CodesRight
    <3> QED BY <3>1, SameBlock
  <2> QED BY <1>1, <1>2, <2>1 DEF CodesRight
<1>10. RenamingState' BY <1>3, <1>4, <1>5, <1>6, <1>7 DEF RenamingState
<1>11. Analysed' BY <1>1 DEF Analysed
<1> QED BY <1>8, <1>9, <1>10, <1>11 DEF Renaming

\* An output is live at the exit, so it has a value there: binding the ports
\* never fails.
LEMMA BindKeeps == SsaInv /\ BindPorts => SsaInv'
<1> SUFFICES ASSUME SsaInv, BindPorts PROVE SsaInv' OBVIOUS
<1> DEFINE finals == [x \in OutputPorts(fn) |-> FinalEnv[x]]
<1>1. /\ phase = "rename" /\ todo = <<>> /\ Renaming /\ fn \in Programs
      /\ fn' = fn /\ live' = live /\ todo' = todo
      /\ ssa' = [ssa EXCEPT !.finals = finals]
      /\ phase' = IF \E x \in OutputPorts(fn) : FinalEnv[x] = NoValue THEN "refused" ELSE "bound"
  BY DEF SsaInv, BindPorts
<1>2. ssa.exit \in Renamed BY <1>1, AllRenamed
<1>3. ASSUME NEW x \in OutputPorts(fn), FinalEnv[x] = NoValue PROVE FALSE
  <2>1. x \in LiveOut(fn, ssa.exit, live, ssa.exit) BY DEF LiveOut
  <2>2. x \in Locals
    BY <1>1, <1>2, <1>3, <2>1 DEF FinalEnv, Renaming, RenamingState, MissingExplained
  <2> QED BY <2>2 DEF Locals
<1>4. phase' = "bound" BY <1>1, <1>3
<1>5. /\ SsaShape' /\ ssa'.values = ssa.values /\ ssa'.exit = ssa.exit /\ ssa'.blocks = ssa.blocks
      /\ ssa'.envs = ssa.envs
  <2>1. ssa = [values |-> ssa.values, exit |-> ssa.exit, finals |-> ssa.finals, blocks |-> ssa.blocks,
               envs |-> ssa.envs]
    BY <1>1 DEF Renaming, SsaShape
  <2> HIDE DEF finals
  <2>2. ssa' = [ssa EXCEPT !.finals = finals] BY <1>1
  <2>3. ssa' = [values |-> ssa.values, exit |-> ssa.exit, finals |-> finals, blocks |-> ssa.blocks,
                envs |-> ssa.envs]
    BY <2>1, <2>2
  <2> QED BY <2>3 DEF SsaShape
<1>6. Renaming' BY <1>1, <1>5, SameRenaming
<1> QED BY <1>1, <1>4, <1>6 DEF SsaInv

\* What verifySSAProgram checks holds.
LEMMA VerifyPasses ==
  ASSUME Renaming, NEW b \in Renamed
  PROVE  /\ \A phi \in ToSet(ssa.blocks[b].phis) : PhiOk(b, phi)
         /\ \A s \in ToSet(ssa.blocks[b].stmts) : StmtOk(s)
<1> DEFINE code == ssa.blocks[b]
<1>1. CodeRight(ssa.values, code, b) BY DEF Renaming, CodesRight, BlockRight
<1>2. ASSUME NEW phi \in ToSet(code.phis) PROVE PhiOk(b, phi)
  <2>1. PhiRight(ssa.values, b, phi) BY <1>1, <1>2 DEF CodeRight
  <2> DEFINE inc == phi.incoming
             preds == [i \in DOMAIN inc |-> inc[i].pred]
  <2>2. IsSeq(inc) /\ DOMAIN inc = 1..Len(inc) /\ ToSet(inc) = {inc[i] : i \in 1..Len(inc)}
    BY <2>1, SeqFacts DEF PhiRight
  <2>3. IsInjective(preds) BY <2>1, <2>2 DEF PhiRight, IsInjective
  <2>4. ToSet(preds) = {i.pred : i \in ToSet(inc)}
    <3>1. ToSet(preds) = {inc[i].pred : i \in DOMAIN inc} BY DEF ToSet
    <3> HIDE DEF inc, preds
    <3> QED BY <2>2, <3>1
  <2>5. Preds(fn, b) \cap Reached(fn) \subseteq ToSet(preds) BY <2>1, <2>4 DEF PhiRight
  <2> QED BY <2>1, <2>3, <2>5 DEF PhiOk, PhiRight, Own
<1>3. ASSUME NEW s \in ToSet(code.stmts) PROVE StmtOk(s)
  <2>1. PICK i \in 1..Len(code.stmts) : s = code.stmts[i] BY <1>1, <1>3, SeqFacts DEF CodeRight
  <2>2. StmtRight(ssa.values, code, b, i, s) BY <1>1, <2>1 DEF CodeRight
  <2>3. \A o : TypeOf(ssa, o) = OpType(ssa.values, o) BY DEF TypeOf, OpType
  <2> HIDE DEF code
  <2> QED BY <2>2, <2>3 DEF StmtOk, StmtRight
<1> QED BY <1>2, <1>3

\* verifySSAProgram finds nothing.
LEMMA VerifyKeeps == SsaInv /\ VerifySSA => SsaInv'
<1> SUFFICES ASSUME SsaInv, VerifySSA PROVE SsaInv' OBVIOUS
<1>1. /\ Renaming /\ todo = <<>> /\ fn \in Programs
      /\ fn' = fn /\ live' = live /\ todo' = todo /\ ssa' = ssa
      /\ phase' = IF \A b \in Reached(fn) :
                       /\ \A phi \in ToSet(ssa.blocks[b].phis) : PhiOk(b, phi)
                       /\ \A s \in ToSet(ssa.blocks[b].stmts) : StmtOk(s)
                  THEN "ssa" ELSE "invalid"
  BY DEF SsaInv, VerifySSA
<1>2. phase' = "ssa" BY <1>1, AllRenamed, VerifyPasses
<1>3. Renaming'
  <2>1. SsaShape' BY <1>1 DEF Renaming, SsaShape
  <2> QED BY <1>1, <2>1, SameRenaming
<1> QED BY <1>1, <1>2, <1>3 DEF SsaInv

\* A step that changes nothing.
LEMMA StutterKeeps == SsaInv /\ UNCHANGED ssaVars => SsaInv'
<1> SUFFICES ASSUME SsaInv, UNCHANGED ssaVars PROVE SsaInv' OBVIOUS
<1>1. fn' = fn /\ phase' = phase /\ live' = live /\ todo' = todo /\ ssa' = ssa BY DEF ssaVars
<1>2. SsaShape => SsaShape' BY <1>1 DEF SsaShape
<1>3. Unnamed => Unnamed' BY <1>1, <1>2 DEF Unnamed
<1>4. Renaming => Renaming' BY <1>1, <1>2, SameRenaming DEF Renaming
<1>5. Settling => Settling'
  <2> SUFFICES ASSUME Settling PROVE Settling' OBVIOUS
  <2>1. Analysed' BY <1>1 DEF Settling, Analysed
  <2>2. Forward(todo') /\ LiveTyped(live') /\ Accountable(live') BY <1>1 DEF Settling
  <2>3. Forward(todo)' /\ LiveTyped(live)' /\ Accountable(live)' BY <1>1, <2>2, SameOrder
  <2> QED BY <1>1, <1>3, <2>1, <2>3 DEF Settling
<1>6. Refusable => Refusable' BY <1>1, SameRefusal
<1> QED BY <1>1, <1>3, <1>4, <1>5, <1>6 DEF SsaInv

\* Every step keeps the invariant.
LEMMA SsaStepKeeps == SsaInv /\ [SsaNext]_ssaVars => SsaInv'
<1> SUFFICES ASSUME SsaInv, [SsaNext]_ssaVars PROVE SsaInv' OBVIOUS
<1>1. CASE RefuseCFG BY <1>1, RefuseKeeps
<1>2. CASE AnalyzeCFG BY <1>2, AnalyzeKeeps
<1>3. CASE ComputeLiveness BY <1>3, LivenessKeeps
<1>4. CASE RenameBlock BY <1>4, RenameKeeps
<1>5. CASE BindPorts BY <1>5, BindKeeps
<1>6. CASE VerifySSA BY <1>6, VerifyKeeps
<1>7. CASE UNCHANGED ssaVars BY <1>7, StutterKeeps
<1> QED BY <1>1, <1>2, <1>3, <1>4, <1>5, <1>6, <1>7 DEF SsaNext

-----------------------------------------------------------------------------
(* What the invariant says of the finished form *)

\* Code that is right reads only what is defined on every path.
LEMMA InvDominates == SsaInv => DefsDominateUses
<1> SUFFICES ASSUME SsaInv, phase = "ssa", NEW b \in Reached(fn)
    PROVE  LET code == ssa.blocks[b]
               phis == {p.x : p \in ToSet(code.phis)}
               ready(v, i) == \/ v \in phis \/ \E j \in 1..(i - 1) : code.stmts[j].x = v
                              \/ ssa.values[v].block # b /\ DefinedAt(v, b)
           IN /\ \A i \in DOMAIN code.stmts : \A v \in ValueIds(code.stmts[i].args) : ready(v, i)
              /\ \A v \in ValueIds(code.term.on) : ready(v, Len(code.stmts) + 1)
              /\ \A p \in ToSet(code.phis) : \A i \in ToSet(p.incoming) : DefinedAt(i.value, i.pred)
  BY DEF DefsDominateUses
<1> DEFINE code == ssa.blocks[b]
           phis == {p.x : p \in ToSet(code.phis)}
           ready(v, i) == \/ v \in phis \/ \E j \in 1..(i - 1) : code.stmts[j].x = v
                          \/ ssa.values[v].block # b /\ DefinedAt(v, b)
<1>1. BlockRight(ssa.values, code, b)
  <2>1. Renaming /\ todo = <<>> BY DEF SsaInv
  <2> QED BY <2>1, AllRenamed DEF Renaming, CodesRight
<1>2. \A v, e : Defined(ssa.values, v, e) <=> DefinedAt(v, e) BY DEF Defined, DefinedAt
<1>3. \A v, i : Ready(ssa.values, code, b, v, i) => ready(v, i) BY <1>2 DEF Ready, PhisOf
<1>4. \A args, v : v \in ValueIds(args) => \E o \in ToSet(args) : o.kind # "lit" /\ o.v = v
  BY DEF ValueIds
<1>5. /\ IsSeq(code.stmts) /\ DOMAIN code.stmts = 1..Len(code.stmts)
      /\ \A i \in 1..Len(code.stmts) : StmtRight(ssa.values, code, b, i, code.stmts[i])
      /\ \A p \in ToSet(code.phis) : PhiRight(ssa.values, b, p)
      /\ \A o \in ToSet(code.term.on) :
           o.kind # "lit" => Ready(ssa.values, code, b, o.v, Len(code.stmts) + 1)
  BY <1>1, SeqFacts DEF BlockRight, CodeRight
<1> HIDE DEF code, ready
<1>6. \A i \in DOMAIN code.stmts : \A v \in ValueIds(code.stmts[i].args) : ready(v, i)
  BY <1>3, <1>4, <1>5 DEF StmtRight
<1>7. \A v \in ValueIds(code.term.on) : ready(v, Len(code.stmts) + 1) BY <1>3, <1>4, <1>5
<1>8. \A p \in ToSet(code.phis) : \A i \in ToSet(p.incoming) : DefinedAt(i.value, i.pred)
  BY <1>2, <1>5 DEF PhiRight
<1> QED BY <1>6, <1>7, <1>8 DEF code, ready

\* Once every block is renamed, no reason to refuse is left.
LEMMA InvRefuses == SsaInv => RefusedExactly
<1> SUFFICES ASSUME SsaInv, phase = "ssa" PROVE ~Refusable BY DEF SsaInv, RefusedExactly
<1>1. Renaming /\ todo = <<>> BY DEF SsaInv
<1>2. Renamed = Reached(fn) /\ WellFormed(fn) BY <1>1, AllRenamed
<1>3. ~Cyclic(fn) /\ EffectiveExit(fn) # NoBlock BY <1>1 DEF Renaming, Analysed
<1>4. ~ReadsUndefined
  <2>1. \A x : StaysUndefined(x) \subseteq Renamed BY <1>2, UndefinedFacts
  <2> QED BY <1>1, <2>1 DEF ReadsUndefined, Renaming, RenamingState, UndefinedKept
<1>5. ~WritesInput BY <1>1, <1>2 DEF WritesInput, Renaming, InputsKept
<1> QED BY <1>3, <1>4, <1>5 DEF Refusable

-----------------------------------------------------------------------------
(* The theorems *)

\* In every state of the stage what is renamed so far is right.
THEOREM SsaInvHolds == SsaSpec => []SsaInv
<1>1. SsaInit => SsaInv BY InvStarts
<1>2. SsaInv /\ [SsaNext]_ssaVars => SsaInv' BY SsaStepKeeps
<1> QED BY <1>1, <1>2, PTL DEF SsaSpec

\* In a finished SSA form every value is defined before it is read.
THEOREM DefinitionsDominate == SsaSpec => []DefsDominateUses
<1>1. SsaInv => DefsDominateUses BY InvDominates
<1> QED BY <1>1, SsaInvHolds, PTL

\* The stage refuses what it must and nothing else.
THEOREM RefusalIsExact == SsaSpec => []RefusedExactly
<1>1. SsaInv => RefusedExactly BY InvRefuses
<1> QED BY <1>1, SsaInvHolds, PTL

\* Predicate lowering and graph construction leave the SSA form as it is.
LEMMA LaterKeeps ==
  SsaInv /\ (LoweringStep \/ CreatePorts \/ EmitNext \/ BindOutputs) => SsaInv'
<1> DEFINE later == {"guards", "rejected", "definitions", "predicated", "graph", "beir", "failed"}
<1> SUFFICES ASSUME SsaInv, LoweringStep \/ CreatePorts \/ EmitNext \/ BindOutputs PROVE SsaInv'
  OBVIOUS
<1>1. fn' = fn /\ phase' \in later
  <2>1. CASE StartLowering BY <2>1 DEF StartLowering
  <2>2. CASE ComputeGuards BY <2>2 DEF ComputeGuards
  <2>3. CASE StartDefinitions BY <2>3 DEF StartDefinitions
  <2>4. CASE LowerBlock BY <2>4 DEF LowerBlock
  <2>5. CASE VerifyPredicates BY <2>5 DEF VerifyPredicates
  <2>6. CASE CreatePorts BY <2>6 DEF CreatePorts
  <2>7. CASE EmitNext BY <2>7 DEF EmitNext
  <2>8. CASE BindOutputs BY <2>8 DEF BindOutputs
  <2> QED BY <2>1, <2>2, <2>3, <2>4, <2>5, <2>6, <2>7, <2>8 DEF LoweringStep
<1> QED BY <1>1 DEF SsaInv

\* The same holds of the whole path from S9 to the graph.
THEOREM LoweringKeepsSsaInv == BeirSpec => []SsaInv
<1>1. BeirInit => SsaInv BY InvStarts DEF BeirInit, PredInit
<1>2. SsaInv /\ [BeirNext]_beirVars => SsaInv'
  <2> SUFFICES ASSUME SsaInv, [BeirNext]_beirVars PROVE SsaInv' OBVIOUS
  <2>1. CASE SsaNext BY <2>1, SsaStepKeeps
  <2>2. CASE LoweringStep BY <2>2, LaterKeeps
  <2>3. CASE CreatePorts \/ EmitNext \/ BindOutputs BY <2>3, LaterKeeps
  <2>4. CASE UNCHANGED beirVars BY <2>4, StutterKeeps DEF beirVars, predVars, ssaVars
  <2> QED BY <2>1, <2>2, <2>3, <2>4 DEF BeirNext, PredNext
<1> QED BY <1>1, <1>2, PTL DEF BeirSpec

\* Until the graph is built, definitions come before their uses in the SSA form.
THEOREM DefinitionsStayDominating == BeirSpec => []DefsDominateUses
<1>1. SsaInv => DefsDominateUses BY InvDominates
<1> QED BY <1>1, LoweringKeepsSsaInv, PTL

\* The later stages never turn a refusal into a success.
THEOREM RefusalStaysExact == BeirSpec => []RefusedExactly
<1>1. SsaInv => RefusedExactly BY InvRefuses
<1> QED BY <1>1, LoweringKeepsSsaInv, PTL

=============================================================================
