------------------------------ MODULE Optimise ------------------------------
(***************************************************************************)
(* optimizeProgram of src/src/backend/beopt.cpp: the passes that are       *)
(* enabled, in the driver's order, Iterations times over, each on the      *)
(* program that the one before it left. The passes share what MutableProgram *)
(* keeps: the program, the value facts of its signals and whether the      *)
(* facts are out of date. The passes that change the structure run once,   *)
(* half way through the iterations, and the control is normalised once     *)
(* more at the end of the last one.                                        *)
(***************************************************************************)
EXTENDS OptControl

CONSTANTS Programs,      \* pairs of a program and the options it is compiled with
          Iterations

Options == {"fold_assign_chains", "constant_folding", "width_simplification", "bit_range_update_coalescing",
            "algebraic_identities", "common_subexpressions", "dead_node_elimination",
            "predicate_sinking", "exclusive_muxes", "balance_trees", "boolean_control_normalization"}

ASSUME OptimiseAssumption ==
  /\ \A x \in Programs : Acyclic(x[1]) /\ x[2] \subseteq Options
  /\ Iterations \in Nat

VARIABLES graph,       \* the program
          facts,       \* the value facts, as they were last computed
          dirty,       \* value_facts_dirty_
          options,     \* the passes that run
          step,        \* how far the iteration has come
          iteration,
          promise      \* what the ports of the program given show

vars == <<graph, facts, dirty, options, step, iteration, promise>>

\* What is seen of the ports: the data of a write port only while it is enabled.
Seen(p, shown) ==
  {<<p[n].port, IF \E m \in EnablesOf(p, n) : shown[m] = 0 THEN 0 ELSE shown[n]>> :
     n \in {k \in Nodes(p) : Observable(p[k])}}

\* What the ports show for every input.
Meaning(p) ==
  LET shown(order) == [i \in InputsOf(p) |-> Seen(p, Show(p, order, i))]
  IN shown(Order(p))

Init == /\ \E x \in Programs : graph = x[1] /\ options = x[2]
        /\ promise = Meaning(graph)
        /\ facts = [n \in Nodes(graph) |-> Unknown(graph[n].w)]
        /\ dirty = TRUE
        /\ step = 0
        /\ iteration = 1

-----------------------------------------------------------------------------
(* The driver *)

StructureIteration == IF Iterations > 8 THEN 4 ELSE Max({1, Iterations \div 2})

\* A pass, the iterations in which it runs and the options that it needs.
Pass(name, runs, needs) == [name |-> name, runs |-> runs, needs |-> needs]
EachTime == 1..Iterations
Half == {StructureIteration}
Final == {Iterations}
Passes ==
  << Pass("foldAssignChains", EachTime, {"fold_assign_chains"}),
     Pass("foldConstants", EachTime, {"constant_folding"}),
     Pass("specializeConstantSlices", EachTime, {"width_simplification"}),
     Pass("coalesceBitRangeUpdates", EachTime, {"bit_range_update_coalescing"}),
     Pass("simplifyAlgebraicIdentities", EachTime, {"algebraic_identities"}),
     Pass("simplifyWidthOperations", EachTime, {"width_simplification"}),
     Pass("mergeCommonExpressions", EachTime, {"common_subexpressions"}),
     Pass("foldAssignChains", EachTime, {"fold_assign_chains"}),
     Pass("eliminateDeadNodes", EachTime, {"dead_node_elimination"}),
     Pass("normalizeBooleanControl", Half, {"predicate_sinking", "boolean_control_normalization"}),
     Pass("sinkPredicates", Half, {"predicate_sinking"}),
     Pass("eliminateDeadNodes", Half, {"predicate_sinking", "dead_node_elimination"}),
     Pass("normalizeBooleanControl", Half, {"predicate_sinking", "boolean_control_normalization"}),
     Pass("parallelizeExclusiveMuxes", Half, {"exclusive_muxes"}),
     Pass("simplifyCaseGuards", Half, {"exclusive_muxes"}),
     Pass("eliminateDeadNodes", Half, {"exclusive_muxes", "dead_node_elimination"}),
     Pass("balanceAssociativeTrees", Half, {"balance_trees"}),
     Pass("normalizeBooleanControl", Final, {"boolean_control_normalization"}) >>
Runs(k) == iteration \in Passes[k].runs /\ Passes[k].needs \subseteq options
IsNext(k) == k > step /\ Runs(k) /\ \A j \in step + 1..k - 1 : ~Runs(j)

\* The next pass of the iteration is the one of that name.
Turn(name) ==
  /\ \E k \in DOMAIN Passes : Passes[k].name = name /\ IsNext(k) /\ step' = k
  /\ UNCHANGED <<options, iteration, promise>>

ensureValueFacts == facts' = IF dirty THEN analyzeValueFacts(graph) ELSE facts
markValueFactsDirty(was, pass) == dirty' = (was \/ pass.changed)

\* A pass marks the facts when it says that it changed the program. One that
\* reads facts brings them up to date first; one that does not leaves them.
Rewrites(pass) == graph' = pass.p /\ markValueFactsDirty(FALSE, pass)
Reshapes(pass) == graph' = pass.p /\ markValueFactsDirty(dirty, pass) /\ UNCHANGED facts

FoldAssignChains == Turn("foldAssignChains") /\ Reshapes(foldAssignChains(graph))

FoldConstants ==
  /\ Turn("foldConstants")
  /\ ensureValueFacts
  /\ Rewrites(foldConstants(graph, facts'))

SpecializeConstantSlices == Turn("specializeConstantSlices") /\ Reshapes(specializeConstantSlices(graph))

CoalesceBitRangeUpdates == Turn("coalesceBitRangeUpdates") /\ Reshapes(coalesceBitRangeUpdates(graph))

SimplifyAlgebraicIdentities ==
  /\ Turn("simplifyAlgebraicIdentities")
  /\ ensureValueFacts
  /\ Rewrites(simplifyAlgebraicIdentities(graph, facts'))

SimplifyWidthOperations ==
  /\ Turn("simplifyWidthOperations")
  /\ ensureValueFacts
  /\ Rewrites(simplifyWidthOperations(graph, facts'))

MergeCommonExpressions == Turn("mergeCommonExpressions") /\ Reshapes(mergeCommonExpressions(graph))

EliminateDeadNodes == Turn("eliminateDeadNodes") /\ Reshapes(eliminateDeadNodes(graph))

NormalizeBooleanControl == Turn("normalizeBooleanControl") /\ Reshapes(normalizeBooleanControl(graph))

Normalised == "boolean_control_normalization" \in options
\* Without normalisation the pass is left out unless the logic has its form.
SinkPredicates ==
  /\ Turn("sinkPredicates")
  /\ Reshapes(IF Normalised \/ hasPredicateAigForm(graph) THEN sinkPredicates(graph) ELSE Left(graph, FALSE))

ParallelizeExclusiveMuxes == Turn("parallelizeExclusiveMuxes") /\ Reshapes(parallelizeExclusiveMuxes(graph))

SimplifyCaseGuards == Turn("simplifyCaseGuards") /\ Reshapes(simplifyCaseGuards(graph))

BalanceAssociativeTrees == Turn("balanceAssociativeTrees") /\ Reshapes(balanceAssociativeTrees(graph))

NextIteration ==
  /\ iteration <= Iterations
  /\ \A k \in step + 1..Len(Passes) : ~Runs(k)
  /\ iteration' = iteration + 1
  /\ step' = 0
  /\ UNCHANGED <<graph, facts, dirty, options, promise>>

Next == \/ FoldAssignChains
        \/ FoldConstants
        \/ SpecializeConstantSlices
        \/ CoalesceBitRangeUpdates
        \/ SimplifyAlgebraicIdentities
        \/ SimplifyWidthOperations
        \/ MergeCommonExpressions
        \/ EliminateDeadNodes
        \/ NormalizeBooleanControl
        \/ SinkPredicates
        \/ ParallelizeExclusiveMuxes
        \/ SimplifyCaseGuards
        \/ BalanceAssociativeTrees
        \/ NextIteration

Spec == Init /\ [][Next]_vars

-----------------------------------------------------------------------------
(***************************************************************************)
(* The program is well formed after every pass: it has no cycle, every     *)
(* operand names a signal there is, and says the width that signal has     *)
(* (the RTL is written from the width in the operand, while the narrowing  *)
(* changes the width of the signal). When predicates are about to be sunk  *)
(* into normalised control, the one-bit logic is conjunctions and          *)
(* inversions only, as sinkPredicates asserts.                             *)
(***************************************************************************)
TypeOK ==
  /\ dirty \in BOOLEAN
  /\ step \in 0..18
  /\ iteration \in 1..Iterations + 1
  /\ Acyclic(graph)
  /\ \A n \in Nodes(graph) : \A o \in ToSet(graph[n].driver.args) :
       ~o.lit => o.v \in Nodes(graph) /\ o.w = graph[o.v].w
  /\ Normalised /\ (\E k \in DOMAIN Passes : Passes[k].name = "sinkPredicates" /\ IsNext(k))
       => hasPredicateAigForm(graph)

(***************************************************************************)
(* Facts that are not marked out of date are true of the program as it is  *)
(* now, whatever the inputs: no pass that narrows a signal, gives its place *)
(* to another value or renumbers it said that it had changed nothing       *)
(* (markValueFactsDirty at the end of each pass, under its own changed).   *)
(***************************************************************************)
FactsSound ==
  ~dirty => LET order == Order(graph)
            IN /\ DOMAIN facts = Nodes(graph)
               /\ \A i \in InputsOf(graph) :
                    LET shown == Show(graph, order, i)
                    IN \A n \in Nodes(graph) : TrueOf(facts[n], shown[n])

(***************************************************************************)
(* Whatever passes have run, the ports show for every input what those of  *)
(* the program given show.                                                 *)
(***************************************************************************)
MeaningKept == Meaning(graph) = promise
=============================================================================
