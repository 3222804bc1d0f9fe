------------------------------ MODULE PipeBuild ------------------------------
(***************************************************************************)
(* pipeline::build of src/backend/pipeline.cpp: the scheduler finds a      *)
(* timing baseline by bisection, trades the allowed slack for register     *)
(* bits one node at a time, materialises the registers and the valid       *)
(* chain, rewires every operand to the delay chain of its stage, and       *)
(* checks its own result with validateProgram.                             *)
(***************************************************************************)
EXTENDS PipeGraph

CONSTANTS
  Programs,      \* the combinational programs build is called with
  StageCounts,   \* the values of Options::register_stages
  RelaxPercent   \* timing_relaxation_ratio, in percent

ASSUME OptionsAssumption ==
  StageCounts \subseteq Nat /\ RelaxPercent \in Nat

ASSUME ProgramsAssumption == \A p \in Programs : WellFormed(p)

VARIABLES
  phase,      \* how far build has come
  prog,       \* the program being pipelined
  last,       \* Options::register_stages
  g,          \* the analysed graph
  lower, upper, iter,   \* the bisection
  stages,     \* the current stage of every signal
  report,     \* evaluate(stages)
  before,     \* evaluate(baseline)
  mat         \* the materialised design

vars == <<phase, prog, last, g, lower, upper, iter, stages, report, before, mat>>

Unset == [delay |-> Unreachable, bits |-> 0, count |-> 0, stages |-> <<>>]
NoDesign == [regs |-> <<>>, delayed |-> <<>>, valid |-> <<>>, drv |-> <<>>]

Init ==
  /\ phase = "graph"
  /\ prog \in Programs
  /\ last \in StageCounts
  /\ g = [p |-> prog]
  /\ lower = 0 /\ upper = 0 /\ iter = 0
  /\ stages = [id \in Signals(prog) |-> 0]
  /\ report = Unset /\ before = Unset
  /\ mat = NoDesign

Throw ==
  /\ phase' = "failed"
  /\ UNCHANGED <<prog, last, g, lower, upper, iter, stages, report, before, mat>>

-----------------------------------------------------------------------------
(* The Graph constructor and the combinational shortcut *)

\* No register stage and no valid port (reset is PipeRtl's subject): the
\* program is returned as it came, without building a graph.
Combinational == last = 0 /\ prog.vin = NoNode

ReturnProgram ==
  /\ phase = "graph" /\ Combinational
  /\ phase' = "done"
  /\ UNCHANGED <<prog, last, g, lower, upper, iter, stages, report, before, mat>>

RejectGraph ==
  /\ phase = "graph" /\ ~Combinational
  /\ Undriven(prog) \/ Cyclic(prog)
  /\ Throw

AnalyseGraph ==
  /\ phase = "graph" /\ ~Combinational
  /\ ~Undriven(prog) /\ ~Cyclic(prog)
  /\ g' = Analyse(prog)
  /\ phase' = IF last = 0 THEN "chain" ELSE "schedule"
  /\ report' = IF last = 0 THEN Evaluate(g', last, stages) ELSE report
  /\ before' = report'
  /\ UNCHANGED <<prog, last, lower, upper, iter, stages, mat>>

-----------------------------------------------------------------------------
(* The timing baseline *)

TotalCost == MapThenSumSet(LAMBDA id : Cost(g, id), g.live)
LargestCost == MaxOf({Cost(g, id) : id \in g.live})

\* The first placement, under a cap no placement can exceed; build throws
\* "no feasible schedule" if even that one fails.
StartSchedule ==
  /\ phase = "schedule"
  /\ LET first == Schedule(g, last, TotalCost)
     IN /\ phase' = IF first.ok THEN "bisect" ELSE "failed"
        /\ stages' = first.stage
  /\ upper' = TotalCost /\ lower' = LargestCost /\ iter' = 0
  /\ UNCHANGED <<prog, last, g, report, before, mat>>

Middle == lower + (upper - lower) \div 2
\* Mutants: the bisection stops early; it does not stop at a fixed point.
CanBisectTwice == iter < 2 /\ lower < upper /\ Middle \notin {lower, upper}
CanBisectAgain == iter < 64 /\ lower < upper

CanBisect == iter < 64 /\ lower < upper /\ Middle \notin {lower, upper}

\* A feasible middle becomes the upper end and the baseline.
Bisect ==
  /\ phase = "bisect" /\ CanBisect
  /\ LET trial == Schedule(g, last, Middle)
     IN /\ upper' = IF trial.ok THEN Middle ELSE upper
        /\ stages' = IF trial.ok THEN trial.stage ELSE stages
        /\ lower' = IF trial.ok THEN lower ELSE Middle
  /\ iter' = iter + 1
  /\ UNCHANGED <<phase, prog, last, g, report, before, mat>>

TakeBaseline ==
  /\ phase = "bisect" /\ ~CanBisect
  /\ report' = Evaluate(g, last, stages)
  /\ before' = report'
  /\ phase' = "relax"
  /\ UNCHANGED <<prog, last, g, lower, upper, iter, stages, mat>>

-----------------------------------------------------------------------------
(* The relaxation *)

Movable == g.live \ (g.input \cup g.p.out \cup g.const)
Moved(m) == [stages EXCEPT ![m.id] = m.stage]

\* 100 times the delay the relaxation may reach.
Allowed == before.delay * (100 + RelaxPercent)

\* Mutant: the slack is not checked.
Smaller(e) == e.delay # Unreachable /\ e.bits < report.bits

\* What the inner loops accept: strictly fewer bits, within the slack.
Acceptable(e) ==
  e.delay # Unreachable /\ 100 * e.delay <= Allowed /\ e.bits < report.bits

Moves ==
  {m \in [id : Movable, stage : 0..last] :
     m.stage # stages[m.id] /\ Acceptable(Evaluate(g, last, Moved(m)))}

\* Fewest bits, then least delay; the first in visiting order wins a tie.
Better(m, o) ==
  LET em == Evaluate(g, last, Moved(m))
      eo == Evaluate(g, last, Moved(o))
      pos(id) == SelectInSeq(g.order, LAMBDA x : x = id)
  IN \/ em.bits < eo.bits
     \/ em.bits = eo.bits /\ em.delay < eo.delay
     \/ /\ em.bits = eo.bits /\ em.delay = eo.delay
        /\ \/ pos(m.id) < pos(o.id)
           \/ m.id = o.id /\ m.stage <= o.stage

Relax ==
  /\ phase = "relax"
  /\ LET moves == Moves
         best  == CHOOSE m \in moves : \A o \in moves : Better(m, o)
     IN /\ moves # {}
        /\ stages' = Moved(best)
        /\ report' = Evaluate(g, last, Moved(best))
  /\ UNCHANGED <<phase, prog, last, g, lower, upper, iter, before, mat>>

EndRelax ==
  /\ phase = "relax" /\ Moves = {}
  /\ phase' = "chain"
  /\ UNCHANGED <<prog, last, g, lower, upper, iter, stages, report, before, mat>>

-----------------------------------------------------------------------------
(* Materialisation.  New signals are numbered after the program's own.     *)

NextId(m) == prog.n + Len(m.regs) + 1
AddRegister(m, source, stage, isValid) ==
  [m EXCEPT !.regs = Append(@, [node |-> NextId(m), source |-> source,
                                stage |-> stage, enable |-> NoNode,
                                is_valid |-> isValid])]

\* Mutant: the valid input gets a data chain as well.
ChainLengthOfAny(id) ==
  IF id \in g.const THEN 0 ELSE LastUse(g, last, stages, id) - stages[id]

\* The valid input has a chain of its own.
ChainLength(id) ==
  IF id \in g.const \cup {prog.vin} THEN 0 ELSE LastUse(g, last, stages, id) - stages[id]

\* One shared delay chain per signal, as long as its last use needs.
DelayChain(m, id) ==
  LET seed == [m EXCEPT !.delayed[id] = <<id>>]
      step(acc, stage) ==
        [AddRegister(acc, Last(acc.delayed[id]), stage, FALSE)
           EXCEPT !.delayed[id] = Append(@, NextId(acc))]
  IN FoldLeft(step, seed, [k \in 1..ChainLength(id) |-> stages[id] + k])

DataChains ==
  FoldLeft(DelayChain,
           [NoDesign EXCEPT !.delayed = [id \in Signals(prog) |-> <<>>]], g.order)

\* The valid chain always advances; data registers take the valid of the
\* stage before them as their enable.
Gated(m, r) == IF r.is_valid THEN r ELSE [r EXCEPT !.enable = m.valid[r.stage]]

ValidChain(m) ==
  IF prog.vin = NoNode THEN m
  ELSE LET step(acc, stage) ==
             [AddRegister(acc, Last(acc.valid), stage, TRUE)
                EXCEPT !.valid = Append(@, NextId(acc))]
           full == FoldLeft(step, [m EXCEPT !.valid = <<prog.vin>>],
                            [k \in 1..last |-> k])
       IN [full EXCEPT
             !.delayed[prog.vin] = full.valid,
             !.regs = [i \in DOMAIN @ |-> Gated(full, @[i])]]

Chains ==
  /\ phase = "chain"
  /\ mat' = IF last = 0 THEN [NoDesign EXCEPT !.valid = IF prog.vin = NoNode THEN <<>> ELSE <<prog.vin>>]
            ELSE ValidChain(DataChains)
  /\ phase' = "wire"
  /\ UNCHANGED <<prog, last, g, lower, upper, iter, stages, report, before>>

\* The operand position of v in the chain read at the stage of id.
Offset(id, v) == stages[id] - stages[v]
Wirable(id, v) == v \in g.const \/ Offset(id, v) + 1 \in DOMAIN mat.delayed[v]
\* Mutant: every reader takes the end of the chain.
WiredToEnd(id, v) == IF v \in g.const THEN v ELSE Last(mat.delayed[v])

Wired(id, v) == IF v \in g.const THEN v ELSE mat.delayed[v][Offset(id, v) + 1]

\* The combinational shortcut keeps every driver; connect_valid_output
\* replaces the driver of the valid output in both cases.
Drivers ==
  [id \in g.live |->
     IF id = prog.vout /\ prog.vin # NoNode THEN <<Last(mat.valid)>>
     ELSE IF last = 0 THEN prog.args[id]
     ELSE [i \in DOMAIN prog.args[id] |-> Wired(id, prog.args[id][i])]]

CanWire ==
  last > 0 => \A id \in g.live : \A v \in ArgSet(prog, id) : Wirable(id, v)

Rewire ==
  /\ phase = "wire"
  /\ mat' = IF CanWire THEN [mat EXCEPT !.drv = Drivers] ELSE mat
  /\ phase' = IF ~CanWire THEN "failed" ELSE IF last = 0 THEN "done" ELSE "validate"
  /\ UNCHANGED <<prog, last, g, lower, upper, iter, stages, report, before>>

-----------------------------------------------------------------------------
(* validateProgram: the checks made on the finished design.                *)

Regs == ToSet(mat.regs)
RegNodes == {r.node : r \in Regs}

\* The stage and the origin a register inherits from its source.
Placement ==
  LET original == [id \in 1..(prog.n + Len(mat.regs)) |->
                     IF id \in g.live THEN [stage |-> stages[id], origin |-> id]
                     ELSE [stage |-> -1, origin |-> NoNode]]
      step(acc, r) == [acc EXCEPT ![r.node] =
                         [stage |-> r.stage, origin |-> acc[r.source].origin]]
  IN FoldLeft(step, original, mat.regs)

WidthOf(id) == prog.width[Placement[id].origin]
Storage == MapThenSumSet(LAMBDA r : WidthOf(r.node), Regs)

ValidRolesOk ==
  IF prog.vin = NoNode THEN \A r \in Regs : ~r.is_valid /\ r.enable = NoNode
  ELSE /\ Len(mat.valid) = last + 1 /\ mat.valid[1] = prog.vin
       /\ \A r \in Regs :
            /\ r.is_valid <=> r.node = mat.valid[r.stage + 1]
            /\ r.is_valid => r.source = mat.valid[r.stage] /\ r.enable = NoNode
            /\ ~r.is_valid => r.enable = mat.valid[r.stage]
       /\ mat.drv[prog.vout] = <<Last(mat.valid)>>

ProgramValid ==
  LET expected == Evaluate(g, last, stages)
      place    == Placement
  IN /\ expected = report /\ report.delay # Unreachable
     /\ 100 * report.delay <= Allowed
     /\ Len(mat.regs) = report.count /\ Storage = report.bits
     /\ \A r \in Regs : r.stage <= last /\ r.stage = place[r.source].stage + 1
     /\ ValidRolesOk
     /\ \A id \in g.live \ {prog.vout} : \A i \in DOMAIN prog.args[id] :
          LET v == prog.args[id][i]
              w == mat.drv[id][i]
          IN v \notin g.const => place[w] = [stage |-> stages[id], origin |-> v]

Validate ==
  /\ phase = "validate"
  /\ phase' = IF ProgramValid THEN "done" ELSE "rejected"
  /\ UNCHANGED <<prog, last, g, lower, upper, iter, stages, report, before, mat>>

\* build has returned or thrown.
Returned == phase \in {"done", "failed", "rejected"} /\ UNCHANGED vars

Next ==
  \/ ReturnProgram \/ RejectGraph \/ AnalyseGraph
  \/ StartSchedule \/ Bisect \/ TakeBaseline
  \/ Relax \/ EndRelax
  \/ Chains \/ Rewire \/ Validate
  \/ Returned

Spec == Init /\ [][Next]_vars

-----------------------------------------------------------------------------
(* Properties *)

\* On every graph that has its drivers and no cycle, build completes: the
\* scheduler never reports "no feasible schedule", rewiring never steps off
\* a delay chain (vector::at), and validateProgram accepts the result: the
\* bits and registers evaluate() predicted are the ones materialised.
BuildSucceeds ==
  /\ phase # "rejected"
  /\ phase = "failed" => Undriven(prog) \/ Cyclic(prog)

\* "Monotonic earliest-stage feasibility" (the comment above the bisection):
\* a cap that can be met stays met when it grows.
FeasibilityMonotone ==
  phase = "bisect" =>
    \A cap \in 0..TotalCost - 1 :
      Schedule(g, last, cap).ok => Schedule(g, last, cap + 1).ok

\* The bisection over the greedy placement finds the best timing there is:
\* no legal assignment of stages has a smaller critical stage delay.
BaselineOptimal ==
  phase = "chain" /\ last > 0 =>
    \A other \in [Signals(prog) -> 0..last] :
      LegalStages(g, last, other) =>
        before.delay <= Evaluate(g, last, other).delay

\* The relaxation pays no more delay than the tolerance and never ends with
\* more register bits than the baseline had.
RelaxationBounded ==
  phase \in {"relax", "chain", "wire", "validate", "done"} /\ ~Combinational =>
    /\ report.delay # Unreachable
    /\ 100 * report.delay <= Allowed
    /\ report.bits <= before.bits

\* The numbers of registers on the paths from the inputs to a wire.
Latencies ==
  LET wires == g.live \cup RegNodes
      from(acc, s) == UNION {acc[v] : v \in s}
      seed == [id \in wires |-> IF id \in Inputs(prog) THEN {0} ELSE {}]
      driver(id) == IF id \in RegNodes
                    THEN {(CHOOSE r \in Regs : r.node = id).source}
                    ELSE ToSet(mat.drv[id])
      step(acc, k) ==
        [id \in wires |->
           IF id \in Inputs(prog) THEN {0}
           ELSE LET d == from(acc, driver(id))
                IN IF id \in RegNodes THEN {x + 1 : x \in d} ELSE d]
  IN FoldLeft(step, seed, [k \in 1..Cardinality(wires) |-> k])

\* Every path from an input to an output crosses exactly register_stages
\* registers, so the operands of an output belong to one transaction; a
\* signal at stage s is s registers away from the inputs it depends on.
LatencyBalanced ==
  phase \in {"validate", "done"} /\ ~Combinational =>
    \A id \in g.live : Latencies[id] \subseteq {stages[id]}

\* A signal is registered at most once per stage: all readers of a stage
\* share one delay chain.
ChainsShared ==
  phase = "validate" =>
    \A r, q \in Regs :
      r # q => Placement[r.node] # Placement[q.node]

\* The stretches of build still ahead.
Ahead ==
  CASE phase = "graph" -> 7 [] phase = "schedule" -> 6 [] phase = "bisect" -> 5
    [] phase = "relax" -> 4 [] phase = "chain" -> 3 [] phase = "wire" -> 2
    [] phase = "validate" -> 1 [] OTHER -> 0

\* The loops of build end: every step moves on to a later stretch, narrows
\* the bisection interval, or removes register bits.
BuildProgresses ==
  [][\/ Ahead' < Ahead
     \/ Ahead' = 5 /\ upper' - lower' < upper - lower
     \/ Ahead' = 4 /\ report'.bits < report.bits]_vars
=============================================================================
