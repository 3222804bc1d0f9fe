-------------------------- MODULE PipeBuildProofs --------------------------
(***************************************************************************)
(* pipeline::build is correct for every set of well-formed programs, every *)
(* register count and every tolerance.  First the scheduler: its           *)
(* invariant, the bounds of the relaxation, the progress of its loops, and *)
(* the optimality of the timing baseline.  Then materialisation, rewiring  *)
(* and validation: the delay chains it builds are the ones evaluate        *)
(* counted, every operand finds its place in them, validateProgram accepts *)
(* the design, and all paths to a signal cross the same number of          *)
(* registers.                                                              *)
(***************************************************************************)
EXTENDS PipeBuild, PipeGraphProofs

-----------------------------------------------------------------------------
(* The inductive invariant of the scheduler *)

Phases == {"graph", "schedule", "bisect", "relax", "chain", "wire", "validate",
           "done", "failed", "rejected"}

\* The phases that work on an analysed graph.
Analysed ==
  \/ phase \in {"schedule", "bisect", "relax", "chain", "wire", "validate", "rejected"}
  \/ phase = "done" /\ ~Combinational

\* The phases after the baseline was taken.
Scheduled ==
  \/ phase \in {"relax", "chain", "wire", "validate", "rejected"}
  \/ phase = "done" /\ ~Combinational

PhaseInv ==
  /\ phase \in Phases /\ prog \in Programs /\ last \in StageCounts
  /\ phase = "graph" => stages = [id \in Signals(prog) |-> 0]

GraphInv ==
  Analysed => /\ SoundGraph(g) /\ g = Analyse(prog) /\ g.p = prog
              /\ ~Combinational /\ ~Undriven(prog) /\ ~Cyclic(prog)

\* The upper end of the interval is met by the current stages.
BisectInv ==
  /\ phase \in {"schedule", "bisect"} => last > 0
  /\ phase = "bisect" =>
       /\ lower \in Nat /\ upper \in Nat /\ iter \in Nat
       /\ Meets(g, last, upper, stages)

\* The report is that of the current stages, within the slack.
RelaxInv ==
  Scheduled =>
    /\ stages \in [Signals(prog) -> Nat] /\ LegalStages(g, last, stages)
    /\ report = Evaluate(g, last, stages)
    /\ before.delay \in Nat /\ before.bits \in Nat
    /\ 100 * report.delay <= Allowed /\ report.bits <= before.bits

IInv == PhaseInv /\ GraphInv /\ BisectInv /\ RelaxInv

\* What the constants say of the program and the options.
LEMMA OptionsHold ==
  ASSUME PhaseInv
  PROVE  WellFormed(prog) /\ last \in Nat /\ RelaxPercent \in Nat
BY OptionsAssumption, ProgramsAssumption DEF PhaseInv

\* The tolerance allows at least the delay of the baseline.
LEMMA SlackIsNotNegative ==
  ASSUME NEW d \in Nat, NEW r \in Nat
  PROVE  100 * d <= d * (100 + r) /\ d * (100 + r) \in Nat
<1>1. d * r \in Nat OBVIOUS
<1>2. d * (100 + r) = 100 * d + d * r OBVIOUS
<1> QED BY <1>1, <1>2

\* With no register stage, everything in stage 0 is legal.
LEMMA ZeroIsLegal ==
  ASSUME NEW h, SoundGraph(h), NEW st, st = [id \in Signals(h.p) |-> 0]
  PROVE  st \in [Signals(h.p) -> Nat] /\ LegalStages(h, 0, st)
<1>1. \A id \in h.live : id \in Signals(h.p) /\ \A v \in DataArgs(h, id) : v \in Signals(h.p)
  BY OrderIsFinite, OperandsAreLive
<1> QED BY <1>1 DEF LegalStages

\* build starts in the invariant.
LEMMA InitIInv == Init => IInv
BY DEF Init, IInv, PhaseInv, GraphInv, BisectInv, RelaxInv, Analysed, Scheduled, Phases

-----------------------------------------------------------------------------
(* The choice of a move *)

\* A live signal has a position in the order, the one SelectInSeq finds.
LEMMA PositionOf ==
  ASSUME NEW h, SoundGraph(h), NEW id \in h.live
  PROVE  /\ SelectInSeq(h.order, LAMBDA x : x = id) \in 1..Len(h.order)
         /\ h.order[SelectInSeq(h.order, LAMBDA x : x = id)] = id
<1> DEFINE I == {i \in 1..Len(h.order) : h.order[i] = id}
<1>1. I # {} BY DEF SoundGraph
<1>2. I \in SUBSET Nat OBVIOUS
<1>3. SelectInSeq(h.order, LAMBDA x : x = id) = Min(I) BY <1>1 DEF SelectInSeq
<1> HIDE DEF I
<1>4. Min(I) \in I BY <1>1, <1>2, MinIsLeast
<1> QED BY <1>3, <1>4 DEF I

\* A set of things with natural measures has one with the least measure.
LEMMA LeastMeasure ==
  ASSUME NEW S, S # {}, NEW f, \A x \in S : f[x] \in Nat
  PROVE  \E x \in S : \A y \in S : f[x] <= f[y]
<1> DEFINE V == {f[x] : x \in S}
<1>1. V \in SUBSET Nat /\ V # {} OBVIOUS
<1>2. PICK n \in V : \A m \in V : n <= m BY <1>1, LeastNatural
<1>3. PICK x \in S : n = f[x] OBVIOUS
<1>4. \A y \in S : f[y] \in V OBVIOUS
<1> QED BY <1>2, <1>3, <1>4

\* What relaxation may move to.
LEMMA MovesAreLegal ==
  ASSUME SoundGraph(g), g.p = prog, last \in Nat, stages \in [Signals(prog) -> Nat]
  PROVE  \A m \in Moves :
           /\ m.id \in g.live /\ m.stage \in Nat
           /\ m = [id |-> m.id, stage |-> m.stage]
           /\ Moved(m) \in [Signals(prog) -> Nat]
           /\ LegalStages(g, last, Moved(m))
           /\ Acceptable(Evaluate(g, last, Moved(m)))
           /\ Evaluate(g, last, Moved(m)).bits \in Nat
           /\ Evaluate(g, last, Moved(m)).delay \in Nat
<1> TAKE m \in Moves
<1>1. /\ m \in [id : Movable, stage : 0..last]
      /\ Acceptable(Evaluate(g, last, Moved(m)))
  BY DEF Moves
<1>2. m.id \in g.live /\ m.stage \in Nat /\ m = [id |-> m.id, stage |-> m.stage]
  BY <1>1 DEF Movable
<1>3. Moved(m) \in [Signals(prog) -> Nat] BY <1>2 DEF Moved
<1> DEFINE st == Moved(m)
<1> HIDE DEF st
<1>4. Evaluate(g, last, st).delay # Unreachable BY <1>1 DEF Acceptable, st
<1>5. LegalStages(g, last, st) /\ Evaluate(g, last, st).bits \in Nat
      /\ Evaluate(g, last, st).delay \in Nat
  BY <1>3, <1>4, EvaluateMeasures DEF st
<1> QED BY <1>1, <1>2, <1>3, <1>5 DEF st

\* The inner loops find a best move when there is one at all: fewest bits,
\* least delay, first in the visiting order, earliest stage.
LEMMA BestMoveExists ==
  ASSUME SoundGraph(g), g.p = prog, last \in Nat, stages \in [Signals(prog) -> Nat],
         Moves # {}
  PROVE  \E m \in Moves : \A o \in Moves : Better(m, o)
<1> DEFINE bits == [m \in Moves |-> Evaluate(g, last, Moved(m)).bits]
           delay == [m \in Moves |-> Evaluate(g, last, Moved(m)).delay]
           pos == [m \in Moves |-> SelectInSeq(g.order, LAMBDA x : x = m.id)]
           stage == [m \in Moves |-> m.stage]
<1>1. \A m \in Moves : bits[m] \in Nat /\ delay[m] \in Nat /\ stage[m] \in Nat
                       /\ m.id \in g.live /\ m = [id |-> m.id, stage |-> m.stage]
  BY MovesAreLegal
<1>2. \A m \in Moves : pos[m] \in Nat /\ g.order[pos[m]] = m.id
  <2> TAKE m \in Moves
  <2>1. m.id \in g.live BY <1>1
  <2>2. pos[m] \in 1..Len(g.order) /\ g.order[pos[m]] = m.id BY <2>1, PositionOf
  <2> QED BY <2>2
<1>3. \A m, o \in Moves :
        Better(m, o) <=>
          \/ bits[m] < bits[o]
          \/ bits[m] = bits[o] /\ delay[m] < delay[o]
          \/ /\ bits[m] = bits[o] /\ delay[m] = delay[o]
             /\ pos[m] < pos[o] \/ (m.id = o.id /\ stage[m] <= stage[o])
  BY DEF Better
<1> DEFINE M == Moves
<1> HIDE DEF bits, delay, pos, stage, M
<1>4. PICK a \in M : \A o \in M : bits[a] <= bits[o]
  <2>1. M # {} /\ \A m \in M : bits[m] \in Nat BY <1>1 DEF M
  <2> QED BY <2>1, LeastMeasure
<1> DEFINE M1 == {m \in M : bits[m] = bits[a]}
<1>5. PICK b \in M1 : \A o \in M1 : delay[b] <= delay[o]
  <2>1. M1 # {} /\ \A m \in M1 : delay[m] \in Nat BY <1>1 DEF M
  <2> HIDE DEF M1
  <2> QED BY <2>1, LeastMeasure
<1> DEFINE M2 == {m \in M1 : delay[m] = delay[b]}
<1>6. PICK c \in M2 : \A o \in M2 : pos[c] <= pos[o]
  <2>1. M2 # {} /\ \A m \in M2 : pos[m] \in Nat BY <1>2 DEF M
  <2> HIDE DEF M2
  <2> QED BY <2>1, LeastMeasure
<1> DEFINE M3 == {m \in M2 : pos[m] = pos[c]}
<1>7. PICK d \in M3 : \A o \in M3 : stage[d] <= stage[o]
  <2>1. M3 # {} /\ \A m \in M3 : stage[m] \in Nat BY <1>1 DEF M
  <2> HIDE DEF M3
  <2> QED BY <2>1, LeastMeasure
<1>8. d \in M /\ bits[d] = bits[a] /\ delay[d] = delay[b] /\ pos[d] = pos[c]
  BY <1>7
<1>9. ASSUME NEW o \in M PROVE Better(d, o)
  <2>1. bits[d] \in Nat /\ bits[o] \in Nat /\ delay[d] \in Nat /\ delay[o] \in Nat
        /\ pos[d] \in Nat /\ pos[o] \in Nat
    BY <1>1, <1>2, <1>8 DEF M
  <2>2. CASE bits[o] # bits[a] BY <1>3, <1>4, <1>8, <2>1, <2>2 DEF M
  <2>3. CASE bits[o] = bits[a] /\ delay[o] # delay[b]
    <3>1. delay[d] <= delay[o] BY <1>5, <1>8, <2>3
    <3> QED BY <1>3, <1>8, <2>1, <2>3, <3>1 DEF M
  <2>4. CASE bits[o] = bits[a] /\ delay[o] = delay[b] /\ pos[o] # pos[c]
    <3>1. pos[d] <= pos[o] BY <1>6, <1>8, <2>4
    <3> QED BY <1>3, <1>8, <2>1, <2>4, <3>1 DEF M
  <2>5. CASE bits[o] = bits[a] /\ delay[o] = delay[b] /\ pos[o] = pos[c]
    <3>1. stage[d] <= stage[o] BY <1>7, <2>5
    <3>2. d.id = o.id BY <1>2, <1>8, <2>5 DEF M
    <3> QED BY <1>3, <1>8, <2>5, <3>1, <3>2 DEF M
  <2> QED BY <2>2, <2>3, <2>4, <2>5
<1> QED BY <1>8, <1>9 DEF M

-----------------------------------------------------------------------------
(* Every action preserves the invariant *)

\* The interval of the bisection: the largest cost and the sum of all.
LEMMA CostFacts ==
  ASSUME SoundGraph(g)
  PROVE  /\ TotalCost = GraphCost(g) /\ TotalCost \in Nat
         /\ LargestCost \in Nat
         /\ \A id \in g.live : Cost(g, id) <= LargestCost
         /\ LargestCost = 0 \/ \E id \in g.live : LargestCost = Cost(g, id)
<1>1. TotalCost = GraphCost(g) BY DEF TotalCost, GraphCost
<1>2. GraphCost(g) \in Nat BY ArrivalsWithinTotal
<1> DEFINE c == CostOf(g)
           S == g.live
<1>3. {Cost(g, id) : id \in S} = {c[id] : id \in S} BY DEF CostOf
<1>4. LargestCost = Latest(c, S) BY <1>3 DEF LargestCost, Latest
<1>5. \A id \in S : c[id] = Cost(g, id) /\ Cost(g, id) \in Nat BY CostIsNat DEF CostOf
<1>6. IsFiniteSet(S) BY OrderIsFinite
<1> HIDE DEF c, S
<1>7. /\ Latest(c, S) \in Nat
      /\ \A v \in S : c[v] <= Latest(c, S)
      /\ Latest(c, S) = 0 \/ \E v \in S : c[v] = Latest(c, S)
  BY <1>5, <1>6, LatestBounds
<1> QED BY <1>1, <1>2, <1>4, <1>5, <1>7 DEF S

\* The Graph constructor, and the report of a pipeline without stages.
LEMMA AnalyseGraphIInv == ASSUME IInv, AnalyseGraph PROVE IInv'
<1>1. /\ phase = "graph" /\ ~Combinational /\ ~Undriven(prog) /\ ~Cyclic(prog)
      /\ g' = Analyse(prog) /\ prog' = prog /\ last' = last /\ stages' = stages
      /\ phase' = (IF last = 0 THEN "chain" ELSE "schedule")
      /\ report' = (IF last = 0 THEN Evaluate(g', last, stages) ELSE report)
      /\ before' = report'
  BY DEF AnalyseGraph
<1>2. WellFormed(prog) /\ last \in Nat /\ RelaxPercent \in Nat BY OptionsHold DEF IInv
<1>3. PhaseInv' BY <1>1 DEF IInv, PhaseInv, Phases
<1>4. SoundGraph(g') /\ g'.p = prog
  <2>1. SoundGraph(Analyse(prog)) BY <1>1, <1>2, AnalysedIsSound
  <2>2. Analyse(prog).p = prog BY DEF Analyse
  <2> QED BY <1>1, <2>1, <2>2
<1>5. GraphInv' BY <1>1, <1>4 DEF GraphInv, Combinational
<1>6. BisectInv'
  <2>1. last # 0 => last > 0 BY <1>2
  <2> QED BY <1>1, <2>1 DEF BisectInv
<1>7. CASE last # 0 BY <1>1, <1>3, <1>5, <1>6, <1>7 DEF IInv, RelaxInv, Scheduled
<1>8. CASE last = 0
  <2>1. stages = [id \in Signals(g'.p) |-> 0] BY <1>1, <1>4 DEF IInv, PhaseInv
  <2>2. stages \in [Signals(prog) -> Nat] /\ LegalStages(g', 0, stages)
    BY <1>4, <2>1, ZeroIsLegal
  <2> DEFINE e == Evaluate(g', 0, stages)
  <2>3. e.delay \in Nat /\ e.bits \in Nat BY <1>4, <2>2, EvaluateMeasures
  <2>4. report' = e /\ before' = e BY <1>1, <1>8
  <2> HIDE DEF e
  <2>5. 100 * e.delay <= e.delay * (100 + RelaxPercent) BY <1>2, <2>3, SlackIsNotNegative
  <2>6. 100 * (report.delay)' <= Allowed' /\ (report.bits <= before.bits)'
    BY <2>3, <2>4, <2>5 DEF Allowed
  <2>7. RelaxInv' BY <1>1, <1>8, <2>2, <2>3, <2>4, <2>6 DEF RelaxInv, e
  <2> QED BY <1>3, <1>5, <1>6, <2>7 DEF IInv
<1> QED BY <1>7, <1>8

\* The first placement, under the sum of the costs, always succeeds.
LEMMA StartScheduleIInv ==
  ASSUME IInv, StartSchedule
  PROVE  /\ IInv' /\ phase' = "bisect"
         /\ stages' = Schedule(g, last, TotalCost).stage /\ upper' = TotalCost
         /\ lower' = LargestCost /\ Schedule(g, last, TotalCost).ok
<1>1. /\ phase = "schedule" /\ upper' = TotalCost /\ lower' = LargestCost /\ iter' = 0
      /\ phase' = (IF Schedule(g, last, TotalCost).ok THEN "bisect" ELSE "failed")
      /\ stages' = Schedule(g, last, TotalCost).stage
      /\ UNCHANGED <<prog, last, g, report, before, mat>>
  BY DEF StartSchedule
<1>2. last \in Nat BY OptionsHold DEF IInv
<1>3. SoundGraph(g) /\ g.p = prog /\ last > 0
  BY <1>1 DEF IInv, GraphInv, BisectInv, Analysed
<1>4. TotalCost = GraphCost(g) /\ TotalCost \in Nat /\ LargestCost \in Nat
  BY <1>3, CostFacts
<1>5. Schedule(g, last, TotalCost).ok
  <2>1. Schedule(g, last, GraphCost(g)).ok BY <1>2, <1>3, SomeScheduleExists
  <2> QED BY <1>4, <2>1
<1> DEFINE cap == TotalCost
<1> HIDE DEF cap
<1>6. Meets(g, last, cap, Schedule(g, last, cap).stage)
  BY <1>2, <1>3, <1>4, <1>5, ScheduleMeets DEF cap
<1>7. PhaseInv' BY <1>1, <1>5 DEF IInv, PhaseInv, Phases
<1>8. GraphInv' BY <1>1, <1>5 DEF IInv, GraphInv, Analysed, Combinational
<1>9. BisectInv' BY <1>1, <1>3, <1>4, <1>5, <1>6 DEF BisectInv, cap
<1>10. RelaxInv' BY <1>1, <1>5 DEF RelaxInv, Scheduled
<1> QED BY <1>1, <1>5, <1>7, <1>8, <1>9, <1>10 DEF IInv

\* The middle is below the upper end and not below the lower end.
LEMMA MiddleIsBetween ==
  ASSUME lower \in Nat, upper \in Nat, lower < upper
  PROVE  Middle \in Nat /\ lower <= Middle /\ Middle < upper
BY DEF Middle

\* A step of the bisection keeps its upper end met.
LEMMA BisectIInv == ASSUME IInv, Bisect PROVE IInv'
<1>1. /\ phase = "bisect" /\ phase' = "bisect" /\ lower < upper
      /\ upper' = (IF Schedule(g, last, Middle).ok THEN Middle ELSE upper)
      /\ stages' = (IF Schedule(g, last, Middle).ok
                    THEN Schedule(g, last, Middle).stage ELSE stages)
      /\ lower' = (IF Schedule(g, last, Middle).ok THEN lower ELSE Middle)
      /\ iter' = iter + 1
      /\ UNCHANGED <<prog, last, g, report, before, mat>>
  BY DEF Bisect, CanBisect
<1>2. last \in Nat BY OptionsHold DEF IInv
<1>3. /\ SoundGraph(g) /\ lower \in Nat /\ upper \in Nat /\ iter \in Nat
      /\ Meets(g, last, upper, stages)
  BY <1>1 DEF IInv, GraphInv, BisectInv, Analysed
<1>4. Middle \in Nat BY <1>1, <1>3, MiddleIsBetween
<1> DEFINE cap == Middle
<1>5. cap \in Nat BY <1>4
<1> HIDE DEF cap
<1>6. Schedule(g, last, cap).ok => Meets(g, last, cap, Schedule(g, last, cap).stage)
  BY <1>2, <1>3, <1>5, ScheduleMeets
<1>7. Meets(g', last', upper', stages')
  <2>1. CASE Schedule(g, last, cap).ok BY <1>1, <1>6, <2>1 DEF cap
  <2>2. CASE ~Schedule(g, last, cap).ok BY <1>1, <1>3, <2>2 DEF cap
  <2> QED BY <2>1, <2>2
<1>8. lower' \in Nat /\ upper' \in Nat /\ iter' \in Nat BY <1>1, <1>3, <1>4
<1>9. PhaseInv' /\ GraphInv' /\ RelaxInv'
  BY <1>1 DEF IInv, PhaseInv, Phases, GraphInv, Analysed, RelaxInv, Scheduled, Combinational
<1>10. BisectInv' BY <1>1, <1>7, <1>8 DEF IInv, BisectInv
<1> QED BY <1>9, <1>10 DEF IInv

\* The baseline is legal and within its own tolerance.
LEMMA TakeBaselineIInv == ASSUME IInv, TakeBaseline PROVE IInv'
<1>1. /\ phase = "bisect" /\ phase' = "relax"
      /\ report' = Evaluate(g, last, stages) /\ before' = report'
      /\ UNCHANGED <<prog, last, g, lower, upper, iter, stages, mat>>
  BY DEF TakeBaseline
<1>2. last \in Nat /\ RelaxPercent \in Nat BY OptionsHold DEF IInv
<1>3. SoundGraph(g) /\ g.p = prog /\ Meets(g, last, upper, stages)
  BY <1>1 DEF IInv, GraphInv, BisectInv, Analysed
<1>4. stages \in [Signals(prog) -> Nat] /\ LegalStages(g, last, stages)
  BY <1>3 DEF Meets
<1> DEFINE e == Evaluate(g, last, stages)
<1>5. e.delay \in Nat /\ e.bits \in Nat BY <1>2, <1>3, <1>4, EvaluateMeasures
<1>6. report' = e /\ before' = e BY <1>1
<1> HIDE DEF e
<1>7. 100 * e.delay <= e.delay * (100 + RelaxPercent) BY <1>2, <1>5, SlackIsNotNegative
<1>8. 100 * (report.delay)' <= Allowed' /\ (report.bits <= before.bits)'
  BY <1>5, <1>6, <1>7 DEF Allowed
<1>9. RelaxInv' BY <1>1, <1>4, <1>5, <1>6, <1>8 DEF RelaxInv, e
<1>10. PhaseInv' /\ GraphInv' /\ BisectInv'
  BY <1>1 DEF IInv, PhaseInv, Phases, GraphInv, Analysed, BisectInv, Combinational
<1> QED BY <1>9, <1>10 DEF IInv

\* One step of the relaxation, with the move it makes.
LEMMA RelaxStep ==
  ASSUME IInv, Relax
  PROVE  \E m \in Moves :
           /\ stages' = Moved(m) /\ report' = Evaluate(g, last, Moved(m))
           /\ phase = "relax" /\ phase' = "relax"
           /\ UNCHANGED <<prog, last, g, lower, upper, iter, before, mat>>
           /\ stages' \in [Signals(prog) -> Nat] /\ LegalStages(g, last, stages')
           /\ Acceptable(report') /\ report'.bits \in Nat /\ report'.delay \in Nat
<1>1. last \in Nat BY OptionsHold DEF IInv
<1>2. phase = "relax" /\ phase' = "relax" /\ Moves # {}
      /\ UNCHANGED <<prog, last, g, lower, upper, iter, before, mat>>
  BY DEF Relax
<1>3. SoundGraph(g) /\ g.p = prog /\ stages \in [Signals(prog) -> Nat]
  BY <1>2 DEF IInv, GraphInv, RelaxInv, Analysed, Scheduled
<1> DEFINE moves == Moves
           best == CHOOSE m \in moves : \A o \in moves : Better(m, o)
<1>4. \E m \in Moves : \A o \in Moves : Better(m, o)
  BY <1>1, <1>2, <1>3, BestMoveExists
<1>5. best \in Moves BY <1>4
<1>6. stages' = Moved(best) /\ report' = Evaluate(g, last, Moved(best)) BY DEF Relax
<1> HIDE DEF best
<1>7. /\ Moved(best) \in [Signals(prog) -> Nat] /\ LegalStages(g, last, Moved(best))
      /\ Acceptable(Evaluate(g, last, Moved(best)))
      /\ Evaluate(g, last, Moved(best)).bits \in Nat
      /\ Evaluate(g, last, Moved(best)).delay \in Nat
  BY <1>1, <1>3, <1>5, MovesAreLegal
<1> QED BY <1>2, <1>5, <1>6, <1>7

\* A move of the relaxation keeps the stages legal and within the tolerance.
LEMMA RelaxIInv == ASSUME IInv, Relax PROVE IInv'
<1>1. PICK m \in Moves :
        /\ stages' = Moved(m) /\ report' = Evaluate(g, last, Moved(m))
        /\ phase = "relax" /\ phase' = "relax"
        /\ UNCHANGED <<prog, last, g, lower, upper, iter, before, mat>>
        /\ stages' \in [Signals(prog) -> Nat] /\ LegalStages(g, last, stages')
        /\ Acceptable(report') /\ report'.bits \in Nat /\ report'.delay \in Nat
  BY RelaxStep
<1>2. Scheduled /\ RelaxInv BY <1>1 DEF IInv, Scheduled
<1>3. before.bits \in Nat /\ report.bits <= before.bits /\ report = Evaluate(g, last, stages)
      /\ LegalStages(g, last, stages) /\ stages \in [Signals(prog) -> Nat]
  BY <1>2 DEF RelaxInv
<1>4. 100 * (report'.delay) <= Allowed /\ report'.bits < report.bits
  BY <1>1 DEF Acceptable
<1>5. SoundGraph(g) /\ g.p = prog /\ last \in Nat BY <1>1, OptionsHold DEF IInv, GraphInv, Analysed
<1>6. report.bits \in Nat BY <1>3, <1>5, EvaluateMeasures
<1>7. report'.bits <= before.bits BY <1>1, <1>3, <1>4, <1>6
<1>8. RelaxInv' BY <1>1, <1>2, <1>4, <1>7 DEF RelaxInv, Allowed
<1>9. PhaseInv' /\ GraphInv' /\ BisectInv'
  BY <1>1 DEF IInv, PhaseInv, Phases, GraphInv, Analysed, BisectInv, Combinational
<1> QED BY <1>8, <1>9 DEF IInv

\* Every step of build keeps the invariant.
LEMMA NextIInv == IInv /\ [Next]_vars => IInv'
<1> SUFFICES ASSUME IInv, [Next]_vars PROVE IInv'
  OBVIOUS
<1> USE DEF IInv, PhaseInv, Phases, GraphInv, BisectInv, RelaxInv, Analysed, Scheduled
<1>1. CASE ReturnProgram BY <1>1 DEF ReturnProgram, Combinational
<1>2. CASE RejectGraph BY <1>2 DEF RejectGraph, Throw, Combinational
<1>3. CASE EndRelax BY <1>3 DEF EndRelax, Combinational, Allowed
<1>4. CASE Chains BY <1>4 DEF Chains, Combinational, Allowed
<1>5. CASE Rewire BY <1>5 DEF Rewire, Combinational, Allowed
<1>6. CASE Validate BY <1>6 DEF Validate, Combinational, Allowed
<1>7. CASE UNCHANGED vars BY <1>7 DEF vars, Combinational, Allowed
<1>8. CASE Returned BY <1>7, <1>8 DEF Returned
<1> HIDE DEF IInv, PhaseInv, Phases, GraphInv, BisectInv, RelaxInv, Analysed, Scheduled
<1>9. CASE AnalyseGraph BY <1>9, AnalyseGraphIInv
<1>10. CASE StartSchedule BY <1>10, StartScheduleIInv
<1>11. CASE Bisect BY <1>11, BisectIInv
<1>12. CASE TakeBaseline BY <1>12, TakeBaselineIInv
<1>13. CASE Relax BY <1>13, RelaxIInv
<1> QED
  BY <1>1, <1>2, <1>3, <1>4, <1>5, <1>6, <1>7, <1>8, <1>9, <1>10, <1>11, <1>12, <1>13
  DEF Next

\* The scheduler of build is correct up to the materialisation: the graph it
\* works on is sound, the interval keeps a feasible upper end, and from the
\* baseline on the stages are legal, the report is theirs, the tolerance holds
\* and the bits never grow.
THEOREM Scheduler == Spec => []IInv
<1> QED BY InitIInv, NextIInv, PTL DEF Spec

-----------------------------------------------------------------------------
(* What the invariant gives *)

\* "Monotonic earliest-stage feasibility", the comment the bisection rests on:
\* a cap schedule can meet stays met when it grows.
THEOREM FeasibilityIsMonotone == Spec => []FeasibilityMonotone
<1>1. IInv => FeasibilityMonotone
  <2> SUFFICES ASSUME IInv, phase = "bisect", NEW cap \in 0..TotalCost - 1,
                      Schedule(g, last, cap).ok
               PROVE  Schedule(g, last, cap + 1).ok
    BY DEF FeasibilityMonotone
  <2>1. last \in Nat BY OptionsHold DEF IInv
  <2>2. SoundGraph(g) BY DEF IInv, GraphInv, Analysed
  <2>3. TotalCost \in Nat BY <2>2, CostFacts
  <2>4. cap \in Nat /\ cap + 1 \in Nat /\ cap <= cap + 1 BY <2>3
  <2> QED BY <2>1, <2>2, <2>4, ScheduleIsMonotone
<1> QED BY <1>1, Scheduler, PTL

\* The relaxation never pays more delay than timing_relaxation_ratio allows
\* and never ends with more register bits than the baseline.
THEOREM RelaxationIsBounded == Spec => []RelaxationBounded
<1>1. IInv => RelaxationBounded
  <2> SUFFICES ASSUME IInv, phase \in {"relax", "chain", "wire", "validate", "done"},
                      ~Combinational
               PROVE  /\ report.delay # Unreachable
                      /\ 100 * report.delay <= Allowed
                      /\ report.bits <= before.bits
    BY DEF RelaxationBounded
  <2>1. Scheduled /\ Analysed BY DEF Scheduled, Analysed
  <2>2. SoundGraph(g) /\ g.p = prog BY <2>1 DEF IInv, GraphInv
  <2>3. /\ stages \in [Signals(prog) -> Nat] /\ LegalStages(g, last, stages)
        /\ report = Evaluate(g, last, stages)
        /\ 100 * report.delay <= Allowed /\ report.bits <= before.bits
    BY <2>1 DEF IInv, RelaxInv
  <2>4. last \in Nat BY OptionsHold DEF IInv
  <2>5. report.delay \in Nat BY <2>2, <2>3, <2>4, EvaluateMeasures
  <2> QED BY <2>3, <2>5 DEF Unreachable
<1> QED BY <1>1, Scheduler, PTL

\* The loops of build end: every step moves on to a later stretch, narrows the
\* bisection interval, or removes register bits.
THEOREM BuildMakesProgress == Spec => BuildProgresses
<1>1. IInv /\ [Next]_vars =>
        [\/ Ahead' < Ahead
         \/ Ahead' = 5 /\ upper' - lower' < upper - lower
         \/ Ahead' = 4 /\ report'.bits < report.bits]_vars
  <2> SUFFICES ASSUME IInv, Next
               PROVE  \/ Ahead' < Ahead
                      \/ Ahead' = 5 /\ upper' - lower' < upper - lower
                      \/ Ahead' = 4 /\ report'.bits < report.bits
                      \/ UNCHANGED vars
    OBVIOUS
  <2>1. CASE ReturnProgram BY <2>1 DEF ReturnProgram, Ahead
  <2>2. CASE RejectGraph BY <2>2 DEF RejectGraph, Throw, Ahead
  <2>3. CASE AnalyseGraph BY <2>3 DEF AnalyseGraph, Ahead
  <2>4. CASE StartSchedule BY <2>4 DEF StartSchedule, Ahead
  <2>5. CASE Bisect
    <3>1. /\ phase = "bisect" /\ phase' = "bisect" /\ lower < upper
          /\ Middle \notin {lower, upper}
          /\ upper' = (IF Schedule(g, last, Middle).ok THEN Middle ELSE upper)
          /\ lower' = (IF Schedule(g, last, Middle).ok THEN lower ELSE Middle)
      BY <2>5 DEF Bisect, CanBisect
    <3>2. lower \in Nat /\ upper \in Nat BY <3>1 DEF IInv, BisectInv
    <3>3. Middle \in Nat /\ lower < Middle /\ Middle < upper
      BY <3>1, <3>2, MiddleIsBetween
    <3>4. Ahead' = 5 BY <3>1 DEF Ahead
    <3>5. upper' - lower' < upper - lower BY <3>1, <3>2, <3>3
    <3> QED BY <3>4, <3>5
  <2>6. CASE TakeBaseline BY <2>6 DEF TakeBaseline, Ahead
  <2>7. CASE Relax
    <3>1. Acceptable(report') /\ phase' = "relax" BY <2>7, RelaxStep
    <3>2. report'.bits < report.bits BY <3>1 DEF Acceptable
    <3>3. Ahead' = 4 BY <3>1 DEF Ahead
    <3> QED BY <3>2, <3>3
  <2>8. CASE EndRelax BY <2>8 DEF EndRelax, Ahead
  <2>9. CASE Chains BY <2>9 DEF Chains, Ahead
  <2>10. CASE Rewire BY <2>10 DEF Rewire, Ahead
  <2>11. CASE Validate BY <2>11 DEF Validate, Ahead
  <2>12. CASE Returned BY <2>12 DEF Returned
  <2> QED
    BY <2>1, <2>2, <2>3, <2>4, <2>5, <2>6, <2>7, <2>8, <2>9, <2>10, <2>11, <2>12 DEF Next
<1> QED BY <1>1, Scheduler, PTL DEF Spec, BuildProgresses

-----------------------------------------------------------------------------
(* The baseline is optimal                                                   *)

\* Each halves the one before; the last is one unit.
Halvings(w) ==
  /\ w \in [0..64 -> Nat] /\ w[64] = 1
  /\ \A i \in 0..63 : w[i] = 2 * w[i + 1]

\* Delays are multiples of s units, s at least 2, and sum up to no more than
\* sixty-four halvings of the interval can tell apart.
Resolvable(s, w) ==
  /\ s \in Nat /\ s >= 2 /\ Halvings(w)
  /\ \A p \in Programs :
       /\ \A id \in Signals(p) : \E k \in Nat : p.cost[id] = s * k
       /\ ~Cyclic(p) => GraphCost(Analyse(p)) <= w[0]

Multiples(s) == {s * k : k \in Nat}

\* Multiples add up to multiples.
LEMMA MultiplesAdd ==
  ASSUME NEW s \in Nat, NEW x \in Multiples(s), NEW y \in Multiples(s)
  PROVE  x + y \in Multiples(s) /\ 0 \in Multiples(s) /\ x \in Nat
<1>1. PICK i \in Nat : x = s * i BY DEF Multiples
<1>2. PICK j \in Nat : y = s * j BY DEF Multiples
<1>3. i + j \in Nat /\ x + y = s * (i + j) BY <1>1, <1>2
<1>4. 0 = s * 0 OBVIOUS
<1>5. x \in Nat BY <1>1
<1> QED BY <1>3, <1>4, <1>5 DEF Multiples

\* A multiple of s that is at most one unit beyond another is not beyond it.
LEMMA NextMultiple ==
  ASSUME NEW s \in Nat, s >= 2, NEW x \in Multiples(s), NEW y \in Multiples(s), x <= y + 1
  PROVE  x <= y
<1>1. PICK i \in Nat : x = s * i BY DEF Multiples
<1>2. PICK j \in Nat : y = s * j BY DEF Multiples
<1>3. CASE i <= j
  <2>1. PICK k \in Nat : j = i + k
    <3>1. j - i \in Nat /\ j = i + (j - i) BY <1>3
    <3> QED BY <3>1
  <2>2. s * j = s * i + s * k /\ s * k \in Nat /\ s * i \in Nat BY <2>1
  <2> QED BY <1>1, <1>2, <2>2
<1>4. CASE j < i
  <2>1. PICK k \in Nat : i = j + 1 + k
    <3>1. i - j - 1 \in Nat /\ i = j + 1 + (i - j - 1) BY <1>4
    <3> QED BY <3>1
  <2>2. s * i = s * j + s + s * k /\ s * k \in Nat /\ s * j \in Nat BY <2>1
  <2> QED BY <1>1, <1>2, <2>2
<1> QED BY <1>3, <1>4

\* Arrivals are sums of costs, so they are multiples as well.
LEMMA ArrivalsAreMultiples ==
  ASSUME NEW h, SoundGraph(h), NEW s \in Nat, NEW stage,
         \A id \in h.live : Cost(h, id) \in Multiples(s)
  PROVE  \A id \in h.live : Arrivals(h, stage)[id] \in Multiples(s)
<1> DEFINE a == Arrivals(h, stage)
           S == {id \in h.live : a[id] \in Multiples(s)}
<1>1. /\ a \in [Signals(h.p) -> Nat]
      /\ \A id \in Placeable(h) : a[id] = Cost(h, id) + Latest(a, Beside(h, stage, id))
      /\ \A id \in Signals(h.p) \ Placeable(h) : a[id] = 0
  BY ArrivalsAdd
<1>2. 0 \in Multiples(s)
  <2>1. 0 = s * 0 OBVIOUS
  <2> QED BY <2>1 DEF Multiples
<1> HIDE DEF a
<1>3. ASSUME NEW id \in h.live, ArgSet(h.p, id) \subseteq S PROVE id \in S
  <2>1. CASE id \notin Placeable(h) BY <1>1, <1>2, <2>1, OrderIsFinite
  <2>2. CASE id \in Placeable(h)
    <3> DEFINE B == Beside(h, stage, id)
    <3>1. B \subseteq DataArgs(h, id) BY DEF Beside
    <3>2. B \subseteq S /\ B \subseteq Signals(h.p) /\ IsFiniteSet(B)
      BY <1>3, <3>1, OperandsAreFinite, OperandsAreLive
    <3> HIDE DEF B
    <3>3. Latest(a, B) = 0 \/ \E v \in B : a[v] = Latest(a, B)
      <4>1. \A v \in B : a[v] \in Nat BY <1>1, <3>2
      <4> QED BY <3>2, <4>1, LatestBounds
    <3>4. Latest(a, B) \in Multiples(s) BY <1>2, <3>2, <3>3
    <3>5. Cost(h, id) + Latest(a, B) \in Multiples(s) BY <3>4, MultiplesAdd
    <3> QED BY <1>1, <2>2, <3>5 DEF B
  <2> QED BY <2>1, <2>2
<1> HIDE DEF S
<1>4. h.live \subseteq S BY <1>3, OrderInduction
<1> QED BY <1>4 DEF S, a

\* The delay of a legal assignment is a multiple as well.
LEMMA DelayIsMultiple ==
  ASSUME NEW h, SoundGraph(h), NEW s \in Nat, NEW m \in Nat,
         NEW stage \in [Signals(h.p) -> Nat], LegalStages(h, m, stage),
         \A id \in h.live : Cost(h, id) \in Multiples(s)
  PROVE  Evaluate(h, m, stage).delay \in Multiples(s)
<1> DEFINE a == Arrivals(h, stage)
           d == Evaluate(h, m, stage).delay
           L == Latest(a, h.live)
<1>1. \A id \in h.live : a[id] \in Nat BY ArrivalsAdd, OrderIsFinite
<1>2. \A id \in h.live : a[id] \in Multiples(s) BY ArrivalsAreMultiples
<1>3. IsFiniteSet(h.live) BY OrderIsFinite
<1>4. /\ d \in Nat /\ \A id \in h.live : a[id] <= d
      /\ \A b \in Nat : (\A id \in h.live : a[id] <= b) => d <= b
  BY EvaluateMeasures
<1> HIDE DEF a, d
<1>5. /\ L \in Nat /\ \A v \in h.live : a[v] <= L
      /\ \A b \in Nat : (\A v \in h.live : a[v] <= b) => L <= b
      /\ L = 0 \/ \E v \in h.live : a[v] = L
  BY <1>1, <1>3, LatestBounds
<1> HIDE DEF L
<1>6. d = L BY <1>4, <1>5
<1>7. 0 = s * 0 OBVIOUS
<1>8. 0 \in Multiples(s) BY <1>7 DEF Multiples
<1> QED BY <1>2, <1>5, <1>6, <1>8 DEF d

\* The interval holds the least feasible cap, up to one unit, and halves.
IntervalInv(w) ==
  phase = "bisect" =>
    /\ iter \in 0..64 /\ upper - lower <= w[iter]
    /\ LargestCost <= lower
    /\ lower = LargestCost \/ ~Schedule(g, last, lower).ok

BaselineInv ==
  Scheduled /\ last > 0 =>
    \A other \in [Signals(prog) -> Nat] :
      LegalStages(g, last, other) => before.delay <= Evaluate(g, last, other).delay

\* When the interval is one unit wide no legal assignment beats its upper end.
LEMMA BaselineStep ==
  ASSUME NEW s, NEW w, Resolvable(s, w), IInv, IntervalInv(w), TakeBaseline
  PROVE  BaselineInv'
<1>1. /\ phase = "bisect" /\ ~CanBisect /\ before' = Evaluate(g, last, stages)
      /\ UNCHANGED <<prog, last, g>>
  BY DEF TakeBaseline
<1>2. last \in Nat BY OptionsHold DEF IInv
<1>3. /\ SoundGraph(g) /\ g.p = prog /\ Meets(g, last, upper, stages)
      /\ lower \in Nat /\ upper \in Nat /\ iter \in Nat /\ WellFormed(prog)
  BY <1>1, OptionsHold DEF IInv, GraphInv, BisectInv, Analysed
<1>4. iter \in 0..64 /\ upper - lower <= w[iter] /\ LargestCost <= lower
      /\ (lower = LargestCost \/ ~Schedule(g, last, lower).ok)
  BY <1>1 DEF IntervalInv
<1>5. s \in Nat /\ s >= 2 /\ w[64] = 1 BY DEF Resolvable, Halvings
<1>6. upper <= lower + 1
  <2>1. CASE iter = 64 BY <1>3, <1>4, <1>5, <2>1
  <2>2. CASE ~(lower < upper) BY <1>3, <2>2
  <2>3. CASE lower < upper /\ Middle \in {lower, upper}
    <3>1. lower <= Middle /\ Middle < upper BY <1>3, <2>3, MiddleIsBetween
    <3>2. Middle = lower BY <1>3, <2>3, <3>1
    <3> QED BY <1>3, <3>2 DEF Middle
  <2> QED BY <1>1, <1>4, <2>1, <2>2, <2>3 DEF CanBisect
<1>7. ASSUME NEW id \in g.live PROVE Cost(g, id) \in Multiples(s)
  <2>1. id \in Signals(prog) BY <1>3, OrderIsFinite
  <2>2. \E k \in Nat : prog.cost[id] = s * k
    BY <2>1 DEF Resolvable, IInv, PhaseInv
  <2>3. 0 = s * 0 BY <1>5
  <2> QED BY <1>3, <2>2, <2>3 DEF Cost, Multiples
<1> DEFINE d == Evaluate(g, last, stages).delay
<1>8. stages \in [Signals(g.p) -> Nat] /\ LegalStages(g, last, stages) BY <1>3 DEF Meets
<1>9. d \in Nat /\ d <= upper /\ d \in Multiples(s)
  <2>1. \A id \in g.live : Arrivals(g, stages)[id] <= upper BY <1>3 DEF Meets
  <2> QED BY <1>2, <1>3, <1>5, <1>7, <1>8, <2>1, EvaluateMeasures, DelayIsMultiple
<1> HIDE DEF d
<1>10. ASSUME NEW other \in [Signals(prog) -> Nat], LegalStages(g, last, other)
       PROVE  d <= Evaluate(g, last, other).delay
  <2> DEFINE e == Evaluate(g, last, other).delay
  <2>1. /\ e \in Nat /\ e \in Multiples(s)
        /\ \A id \in g.live : Arrivals(g, other)[id] <= e
    BY <1>2, <1>3, <1>5, <1>7, <1>10, EvaluateMeasures, DelayIsMultiple
  <2>2. Meets(g, last, e, other) BY <1>3, <1>10, <2>1 DEF Meets
  <2> HIDE DEF e
  <2>3. Schedule(g, last, e).ok BY <1>2, <1>3, <2>1, <2>2, ScheduleIsComplete
  <2>4. CASE ~Schedule(g, last, lower).ok
    <3>1. ~(e <= lower) BY <1>2, <1>3, <2>1, <2>3, <2>4, ScheduleIsMonotone
    <3>2. d <= e BY <1>3, <1>6, <1>9, <2>1, <3>1
    <3> QED BY <3>2 DEF e
  <2>5. CASE lower = LargestCost
    <3>1. LargestCost <= e /\ LargestCost \in Multiples(s)
      <4>1. LargestCost = 0 \/ \E id \in g.live : LargestCost = Cost(g, id)
        BY <1>3, CostFacts
      <4>2. \A id \in g.live : Cost(g, id) <= e
        <5> TAKE id \in g.live
        <5>1. Cost(g, id) <= Arrivals(g, other)[id] BY <1>3, ArrivalsWithinTotal
        <5>2. Arrivals(g, other)[id] <= e BY <2>1 DEF e
        <5>3. Cost(g, id) \in Nat /\ Arrivals(g, other)[id] \in Nat
          BY <1>3, CostIsNat, ArrivalsAdd, OrderIsFinite
        <5> QED BY <2>1, <5>1, <5>2, <5>3
      <4>3. 0 \in Multiples(s)
        <5>1. 0 = s * 0 BY <1>5
        <5> QED BY <5>1 DEF Multiples
      <4> QED BY <1>7, <2>1, <4>1, <4>2, <4>3
    <3>2. d <= lower + 1 BY <1>3, <1>6, <1>9
    <3>3. d <= lower BY <1>5, <1>9, <2>5, <3>1, <3>2, NextMultiple
    <3>4. d <= e BY <1>3, <1>9, <2>1, <2>5, <3>1, <3>3
    <3> QED BY <3>4 DEF e
  <2> QED BY <1>4, <2>4, <2>5
<1>11. before'.delay = d BY <1>1 DEF d
<1> HIDE DEF d
<1>12. \A other \in [Signals(prog) -> Nat] : LegalStages(g, last, other) =>
         before'.delay <= Evaluate(g, last, other).delay
  BY <1>10, <1>11
<1> QED BY <1>1, <1>12 DEF BaselineInv

\* A step of the bisection halves the interval and keeps its ends.
LEMMA IntervalStep ==
  ASSUME NEW s, NEW w, Resolvable(s, w), IInv, IntervalInv(w), Bisect
  PROVE  IntervalInv(w)'
<1>1. /\ phase = "bisect" /\ iter < 64 /\ lower < upper
      /\ upper' = (IF Schedule(g, last, Middle).ok THEN Middle ELSE upper)
      /\ lower' = (IF Schedule(g, last, Middle).ok THEN lower ELSE Middle)
      /\ iter' = iter + 1
      /\ UNCHANGED <<prog, last, g>>
  BY DEF Bisect, CanBisect
<1>2. lower \in Nat /\ upper \in Nat /\ iter \in Nat /\ SoundGraph(g)
  BY <1>1 DEF IInv, BisectInv, GraphInv, Analysed
<1>3. iter \in 0..64 /\ upper - lower <= w[iter] /\ LargestCost <= lower
      /\ (lower = LargestCost \/ ~Schedule(g, last, lower).ok)
  BY <1>1 DEF IntervalInv
<1>4. w[iter] = 2 * w[iter + 1] /\ w[iter + 1] \in Nat
  <2>1. iter \in 0..63 /\ iter + 1 \in 0..64 BY <1>1, <1>3
  <2> QED BY <2>1 DEF Resolvable, Halvings
<1>5. Middle - lower <= w[iter + 1] /\ upper - Middle <= w[iter + 1]
  <2> DEFINE v == w[iter + 1]
  <2>1. upper - lower <= 2 * v /\ v \in Nat BY <1>3, <1>4
  <2> HIDE DEF v
  <2>2. Middle - lower <= v /\ upper - Middle <= v BY <1>1, <1>2, <2>1 DEF Middle
  <2> QED BY <2>2 DEF v
<1>6. LargestCost' = LargestCost BY <1>1 DEF LargestCost
<1>7. Middle \in Nat /\ lower <= Middle BY <1>1, <1>2, MiddleIsBetween
<1>8. LargestCost \in Nat BY <1>2, CostFacts
<1>9. CASE Schedule(g, last, Middle).ok
  <2>1. upper' = Middle /\ lower' = lower BY <1>1, <1>9
  <2> QED BY <1>1, <1>3, <1>5, <1>6, <2>1 DEF IntervalInv
<1>10. CASE ~Schedule(g, last, Middle).ok
  <2>1. upper' = upper /\ lower' = Middle BY <1>1, <1>10
  <2>2. ~Schedule(g', last', lower').ok BY <1>1, <1>10, <2>1
  <2>3. LargestCost' <= lower' BY <1>2, <1>3, <1>6, <1>7, <1>8, <2>1
  <2>4. iter' \in 0..64 /\ upper' - lower' <= w[iter'] BY <1>1, <1>3, <1>5, <2>1
  <2> QED BY <2>2, <2>3, <2>4 DEF IntervalInv
<1> QED BY <1>9, <1>10

\* The bisection starts within the first of the halvings.
LEMMA IntervalStart ==
  ASSUME NEW s, NEW w, Resolvable(s, w), IInv, StartSchedule
  PROVE  IntervalInv(w)'
<1>1. /\ phase = "schedule" /\ upper' = TotalCost /\ lower' = LargestCost /\ iter' = 0
      /\ UNCHANGED <<prog, last, g>>
  BY DEF StartSchedule
<1>2. SoundGraph(g) /\ g = Analyse(prog) /\ ~Cyclic(prog) /\ prog \in Programs
  BY <1>1 DEF IInv, PhaseInv, GraphInv, Analysed
<1>3. TotalCost = GraphCost(g) /\ TotalCost \in Nat /\ LargestCost \in Nat
  BY <1>2, CostFacts
<1>4. GraphCost(g) <= w[0] /\ w[0] \in Nat BY <1>2 DEF Resolvable, Halvings
<1>5. upper' - lower' <= w[0] BY <1>1, <1>3, <1>4
<1>6. LargestCost' = LargestCost BY <1>1 DEF LargestCost
<1> QED BY <1>1, <1>3, <1>5, <1>6 DEF IntervalInv

\* Bisecting over the greedy placement finds the best timing there is: when the
\* delays are resolvable, no legal assignment of stages has a smaller critical
\* stage delay than the baseline.
THEOREM BaselineIsOptimal ==
  ASSUME NEW CONSTANT s, NEW CONSTANT w, Resolvable(s, w)
  PROVE  Spec => []BaselineOptimal
<1> DEFINE Inv == IInv /\ IntervalInv(w) /\ BaselineInv
<1>1. Init => Inv BY InitIInv DEF Init, IntervalInv, BaselineInv, Scheduled
<1>2. Inv /\ [Next]_vars => Inv'
  <2> SUFFICES ASSUME Inv, [Next]_vars PROVE Inv'
    OBVIOUS
  <2>1. IInv' BY NextIInv
  <2>2. CASE StartSchedule
    <3>1. phase' = "bisect" BY <2>2, StartScheduleIInv
    <3> QED BY <2>1, <2>2, <3>1, IntervalStart DEF BaselineInv, Scheduled
  <2>3. CASE Bisect
    <3>1. phase' = "bisect" BY <2>3 DEF Bisect
    <3> QED BY <2>1, <2>3, <3>1, IntervalStep DEF BaselineInv, Scheduled
  <2>4. CASE TakeBaseline
    <3>1. phase' = "relax" BY <2>4 DEF TakeBaseline
    <3> QED BY <2>1, <2>4, <3>1, BaselineStep DEF IntervalInv
  <2>5. CASE AnalyseGraph
    <3>1. last' = last /\ phase' = IF last = 0 THEN "chain" ELSE "schedule"
      BY <2>5 DEF AnalyseGraph
    <3> QED BY <2>1, <3>1 DEF IntervalInv, BaselineInv, Scheduled
  <2>6. CASE Relax
    <3>1. UNCHANGED <<prog, last, g, before>> /\ phase = "relax" /\ phase' = "relax"
      BY <2>6 DEF Relax
    <3> QED BY <2>1, <3>1 DEF IntervalInv, BaselineInv, Scheduled
  <2>7. CASE ReturnProgram
    BY <2>1, <2>7 DEF ReturnProgram, IntervalInv, BaselineInv, Scheduled, Combinational
  <2>8. CASE RejectGraph
    BY <2>1, <2>8 DEF RejectGraph, Throw, IntervalInv, BaselineInv, Scheduled
  <2>9. CASE EndRelax
    BY <2>1, <2>9 DEF EndRelax, IntervalInv, BaselineInv, Scheduled, Combinational
  <2>10. CASE Chains
    BY <2>1, <2>10 DEF Chains, IntervalInv, BaselineInv, Scheduled, Combinational
  <2>11. CASE Rewire
    BY <2>1, <2>11 DEF Rewire, IntervalInv, BaselineInv, Scheduled, Combinational
  <2>12. CASE Validate
    BY <2>1, <2>12 DEF Validate, IntervalInv, BaselineInv, Scheduled, Combinational
  <2>13. CASE UNCHANGED vars
    BY <2>1, <2>13 DEF vars, IntervalInv, BaselineInv, Scheduled, Combinational,
                       LargestCost
  <2>14. CASE Returned BY <2>13, <2>14 DEF Returned
  <2> QED
    BY <2>2, <2>3, <2>4, <2>5, <2>6, <2>7, <2>8, <2>9, <2>10, <2>11, <2>12, <2>13, <2>14
    DEF Next
<1>3. Inv => BaselineOptimal
  <2> SUFFICES ASSUME Inv, phase = "chain", last > 0,
                      NEW other \in [Signals(prog) -> 0..last], LegalStages(g, last, other)
               PROVE  before.delay <= Evaluate(g, last, other).delay
    BY DEF BaselineOptimal
  <2>1. Scheduled BY DEF Scheduled
  <2>2. other \in [Signals(prog) -> Nat] BY OptionsHold DEF IInv
  <2> QED BY <2>1, <2>2 DEF BaselineInv
<1> HIDE DEF Inv
<1> QED BY <1>1, <1>2, <1>3, PTL DEF Spec

-----------------------------------------------------------------------------
(* Delay chains *)

Register == [node : Nat, source : Nat, stage : Nat, enable : Nat, is_valid : BOOLEAN]
Designs ==
  [regs : Seq(Register), delayed : [Signals(prog) -> Seq(Nat)], valid : Seq(Nat),
   drv : {<<>>}]

\* What materialisation starts from.
Ready ==
  /\ SoundGraph(g) /\ g.p = prog /\ last \in Nat
  /\ stages \in [Signals(prog) -> Nat] /\ LegalStages(g, last, stages)

\* The j-th register in the chain of a signal.
Link(m, id, j) ==
  LET x == m.delayed[id][j + 1] - prog.n IN
  /\ x \in 1..Len(m.regs)
  /\ m.delayed[id][j] < m.delayed[id][j + 1]
  /\ m.regs[x].source = m.delayed[id][j]
  /\ m.regs[x].stage = stages[id] + j
  /\ m.regs[x].is_valid <=> id = prog.vin

Chain(m, id, l) ==
  /\ Len(m.delayed[id]) = l + 1 /\ m.delayed[id][1] = id
  /\ \A j \in 1..l : Link(m, id, j)

\* A register belongs to one of the chains.
Owned(m, len, x) ==
  \E id \in DOMAIN len : \E j \in 1..len[id] : m.delayed[id][j + 1] = prog.n + x

\* The signals in len have chains that long, and there is no other register.
Grown(m, len) ==
  /\ m \in Designs /\ len \in [DOMAIN len -> Nat] /\ DOMAIN len \subseteq Signals(prog)
  /\ \A id \in DOMAIN len : Chain(m, id, len[id])
  /\ \A x \in 1..Len(m.regs) :
       m.regs[x].node = prog.n + x /\ m.regs[x].enable = NoNode /\ Owned(m, len, x)

Started(m, id) == [m EXCEPT !.delayed[id] = <<id>>]
Extended(m, id, s) ==
  [AddRegister(m, Last(m.delayed[id]), s, id = prog.vin) EXCEPT !.delayed[id] = Append(@, NextId(m))]

\* The seed of a delay chain is the signal itself.
LEMMA StartType ==
  ASSUME NEW m \in Designs, NEW id \in Signals(prog), id \in Nat
  PROVE  /\ Started(m, id) \in Designs
         /\ Started(m, id).regs = m.regs /\ Started(m, id).valid = m.valid
         /\ Started(m, id).delayed = [m.delayed EXCEPT ![id] = <<id>>]
         /\ Started(m, id).delayed[id] = <<id>>
<1> DEFINE n == Started(m, id)
           dd == [m.delayed EXCEPT ![id] = <<id>>]
<1>1. m = [regs |-> m.regs, delayed |-> m.delayed, valid |-> m.valid, drv |-> m.drv]
  BY DEF Designs
<1>2. n = [m EXCEPT !.delayed = dd] BY DEF Started
<1>3. dd \in [Signals(prog) -> Seq(Nat)] /\ dd[id] = <<id>>
  <2>1. <<id>> \in Seq(Nat) OBVIOUS
  <2> QED BY <2>1 DEF Designs
<1> HIDE DEF dd, n
<1>4. n = [regs |-> m.regs, delayed |-> dd, valid |-> m.valid, drv |-> m.drv] BY <1>1, <1>2
<1>5. n \in Designs BY <1>3, <1>4 DEF Designs
<1>6. n.regs = m.regs /\ n.valid = m.valid /\ n.delayed = dd BY <1>4
<1> QED BY <1>3, <1>5, <1>6 DEF n, dd

\* Seeding a chain leaves the chains before it alone.
LEMMA StartGrows ==
  ASSUME Ready, NEW m, NEW len, Grown(m, len), NEW id \in Signals(prog), id \notin DOMAIN len
  PROVE  /\ Started(m, id).valid = m.valid
         /\ Grown(Started(m, id), [i \in DOMAIN len \cup {id} |-> IF i = id THEN 0 ELSE len[i]])
<1> DEFINE n == Started(m, id)
           lon == [i \in DOMAIN len \cup {id} |-> IF i = id THEN 0 ELSE len[i]]
<1>1. m \in Designs /\ len \in [DOMAIN len -> Nat] /\ DOMAIN len \subseteq Signals(prog) BY DEF Grown
<1>2. Signals(prog) \subseteq Nat BY SignalsAreFinite DEF Ready, SoundGraph
<1>3. id \in Nat BY <1>2
<1> HIDE DEF n
<1>4. n \in Designs /\ n.regs = m.regs /\ n.valid = m.valid
      /\ n.delayed = [m.delayed EXCEPT ![id] = <<id>>] /\ n.delayed[id] = <<id>>
  BY <1>1, <1>3, StartType DEF n
<1>6. n.delayed[id] = <<id>> /\ \A i \in DOMAIN len : n.delayed[i] = m.delayed[i]
  BY <1>1, <1>4 DEF Designs
<1>7. lon \in [DOMAIN lon -> Nat] /\ DOMAIN lon = DOMAIN len \cup {id}
      /\ lon[id] = 0 /\ \A i \in DOMAIN len : lon[i] = len[i]
  BY <1>1
<1> HIDE DEF n, lon
<1>8. ASSUME NEW i \in DOMAIN lon PROVE Chain(n, i, lon[i])
  <2>1. CASE i = id
    <3>1. Len(<<id>>) = 1 /\ <<id>>[1] = id OBVIOUS
    <3>2. n.delayed[i] = <<id>> /\ lon[i] = 0 BY <1>6, <1>7, <2>1
    <3>3. Len(n.delayed[i]) = lon[i] + 1 /\ n.delayed[i][1] = i BY <2>1, <3>1, <3>2
    <3>4. 1..lon[i] = {} BY <3>2
    <3>5. \A j \in 1..lon[i] : Link(n, i, j) BY <3>4
    <3> QED BY <3>3, <3>5 DEF Chain
  <2>2. CASE i \in DOMAIN len
    <3>1. Chain(m, i, len[i]) BY <2>2 DEF Grown
    <3>2. \A j \in 1..len[i] : Link(n, i, j)
      BY <1>4, <1>6, <2>2, <3>1 DEF Chain, Link
    <3> QED BY <1>6, <1>7, <2>2, <3>1, <3>2 DEF Chain
  <2> QED BY <1>7, <2>1, <2>2
<1>9. ASSUME NEW x \in 1..Len(n.regs)
      PROVE  n.regs[x].node = prog.n + x /\ n.regs[x].enable = NoNode /\ Owned(n, lon, x)
  <2>1. m.regs[x].node = prog.n + x /\ m.regs[x].enable = NoNode /\ Owned(m, len, x)
    BY <1>4, <1>9 DEF Grown
  <2>2. PICK i \in DOMAIN len : \E j \in 1..len[i] : m.delayed[i][j + 1] = prog.n + x
    BY <2>1 DEF Owned
  <2>3. i \in DOMAIN lon /\ lon[i] = len[i] /\ n.delayed[i] = m.delayed[i] BY <1>6, <1>7
  <2>4. Owned(n, lon, x) BY <2>2, <2>3 DEF Owned
  <2> QED BY <1>4, <2>1, <2>4
<1>10. Grown(n, lon) BY <1>1, <1>4, <1>7, <1>8, <1>9 DEF Grown
<1> QED BY <1>4, <1>10 DEF n, lon

EndOf(m, id) == m.delayed[id][Len(m.delayed[id])]
Reg(node, source, s, id) ==
  [node |-> node, source |-> source, stage |-> s, enable |-> NoNode,
   is_valid |-> (id = prog.vin)]

Extends(n, m, id, s) ==
  /\ n \in Designs /\ n.valid = m.valid
  /\ EndOf(m, id) \in Nat /\ NextId(m) \in Nat
  /\ n.regs = Append(m.regs, Reg(NextId(m), EndOf(m, id), s, id))
  /\ n.delayed = [m.delayed EXCEPT ![id] = Append(m.delayed[id], NextId(m))]
  /\ n.delayed[id] # <<>>

\* What one register more does to the fields of the design.
LEMMA ExtendedFields ==
  ASSUME Ready, NEW m \in Designs, NEW id \in Signals(prog), m.delayed[id] # <<>>, NEW s \in Nat
  PROVE  Extends(Extended(m, id, s), m, id, s)
<1> DEFINE src == m.delayed[id][Len(m.delayed[id])]
           new == prog.n + Len(m.regs) + 1
           reg == [node |-> new, source |-> src, stage |-> s, enable |-> NoNode, is_valid |-> (id = prog.vin)]
           n == Extended(m, id, s)
<1>1. m.delayed[id] \in Seq(Nat) /\ m.regs \in Seq(Register) BY DEF Designs
<1>2. src \in Nat
  <2>1. Len(m.delayed[id]) \in 1..Len(m.delayed[id]) BY <1>1
  <2> QED BY <1>1, <2>1
<1>3. prog.n \in Nat BY SignalsAreFinite DEF Ready, SoundGraph
<1>4. new \in Nat BY <1>1, <1>3
<1>5. reg \in Register BY <1>2, <1>4 DEF Register, NoNode
<1>6. Last(m.delayed[id]) = src BY DEF Last
<1>7. NextId(m) = new BY DEF NextId
<1> HIDE DEF src, new
<1> DEFINE r == AddRegister(m, Last(m.delayed[id]), s, id = prog.vin)
<1>a. m = [regs |-> m.regs, delayed |-> m.delayed, valid |-> m.valid, drv |-> m.drv]
  BY DEF Designs
<1>b. r = [m EXCEPT !.regs = Append(m.regs, reg)] BY <1>6, <1>7 DEF AddRegister
<1> HIDE DEF reg, r
<1>c. r = [regs |-> Append(m.regs, reg), delayed |-> m.delayed, valid |-> m.valid, drv |-> m.drv]
  BY <1>a, <1>b
<1>d. n = [r EXCEPT !.delayed = [r.delayed EXCEPT ![id] = Append(r.delayed[id], new)]]
  BY <1>7 DEF Extended, r
<1>8. n = [regs |-> Append(m.regs, reg),
           delayed |-> [m.delayed EXCEPT ![id] = Append(m.delayed[id], new)],
           valid |-> m.valid, drv |-> m.drv]
  <2> HIDE DEF n
  <2> QED BY <1>c, <1>d
<1>9. Append(m.regs, reg) \in Seq(Register) BY <1>1, <1>5
<1>10. Append(m.delayed[id], new) \in Seq(Nat) /\ Append(m.delayed[id], new) # <<>>
  BY <1>1, <1>4
<1>11. [m.delayed EXCEPT ![id] = Append(m.delayed[id], new)] \in [Signals(prog) -> Seq(Nat)]
  BY <1>10 DEF Designs
<1>12. [m.delayed EXCEPT ![id] = Append(m.delayed[id], new)][id] = Append(m.delayed[id], new)
  BY DEF Designs
<1> HIDE DEF n, reg
<1>13. n \in Designs BY <1>8, <1>9, <1>11 DEF Designs
<1>14. n.delayed[id] # <<>> BY <1>8, <1>10, <1>12
<1>15. EndOf(m, id) = src /\ NextId(m) = new /\ reg = Reg(NextId(m), EndOf(m, id), s, id)
  BY DEF EndOf, NextId, src, new, reg, Reg
<1>16. n.valid = m.valid /\ n.regs = Append(m.regs, reg)
       /\ n.delayed = [m.delayed EXCEPT ![id] = Append(m.delayed[id], new)]
  BY <1>8
<1>17. Extends(n, m, id, s) BY <1>2, <1>4, <1>13, <1>14, <1>15, <1>16 DEF Extends
<1> QED BY <1>17 DEF n

\* A register extends its own chain and leaves the others alone.
LEMMA ExtendGrows ==
  ASSUME Ready, NEW m, NEW len, Grown(m, len), NEW id \in DOMAIN len,
         NEW s \in Nat, s = stages[id] + len[id] + 1
  PROVE  /\ Extended(m, id, s).valid = m.valid
         /\ Grown(Extended(m, id, s), [len EXCEPT ![id] = len[id] + 1])
<1> DEFINE l == len[id]
           N == Len(m.regs)
           src == m.delayed[id][l + 1]
           new == prog.n + N + 1
           n == Extended(m, id, s)
           lon == [len EXCEPT ![id] = l + 1]
           reg == [node |-> new, source |-> src, stage |-> s, enable |-> NoNode, is_valid |-> (id = prog.vin)]
<1>1. m \in Designs /\ len \in [DOMAIN len -> Nat] /\ id \in Signals(prog) /\ l \in Nat
      /\ DOMAIN len \subseteq Signals(prog)
  BY DEF Grown
<1>2. /\ m.regs \in Seq(Register) /\ N \in Nat /\ m.delayed \in [Signals(prog) -> Seq(Nat)]
      /\ prog.n \in Nat /\ id \in 1..prog.n /\ m.delayed[id] \in Seq(Nat)
  BY <1>1, SignalsAreFinite DEF Designs, Ready, SoundGraph
<1>3. Chain(m, id, l) /\ Len(m.delayed[id]) = l + 1 /\ m.delayed[id] # <<>>
  <2>1. Chain(m, id, l) BY DEF Grown
  <2>2. Len(m.delayed[id]) = l + 1 BY <2>1 DEF Chain
  <2>3. Len(<<>>) = 0 OBVIOUS
  <2> HIDE DEF l
  <2> QED BY <1>1, <2>1, <2>2, <2>3
<1>4. /\ n \in Designs /\ n.valid = m.valid /\ src \in Nat /\ new \in Nat
      /\ n.regs = Append(m.regs, reg)
      /\ n.delayed = [m.delayed EXCEPT ![id] = Append(m.delayed[id], new)]
  <2>1. EndOf(m, id) = src /\ NextId(m) = new /\ reg = Reg(NextId(m), EndOf(m, id), s, id)
    BY <1>3 DEF EndOf, NextId, Reg
  <2> HIDE DEF n, src, new, reg, N, l
  <2>0. m \in Designs /\ id \in Signals(prog) /\ m.delayed[id] # <<>> BY <1>1, <1>3
  <2>2. Extends(n, m, id, s) BY <2>0, ExtendedFields DEF n
  <2>3. n \in Designs /\ n.valid = m.valid /\ EndOf(m, id) \in Nat /\ NextId(m) \in Nat
    BY <2>2 DEF Extends
  <2>4. n.regs = Append(m.regs, Reg(NextId(m), EndOf(m, id), s, id)) BY <2>2 DEF Extends
  <2>5. n.delayed = [m.delayed EXCEPT ![id] = Append(m.delayed[id], NextId(m))]
    BY <2>2 DEF Extends
  <2> QED BY <2>1, <2>3, <2>4, <2>5
<1>5. src < new
  <2>1. CASE l = 0
    <3>1. src = id BY <1>3, <2>1 DEF Chain
    <3> QED BY <1>2, <2>1, <3>1
  <2>2. CASE l # 0
    <3>1. l \in 1..l BY <1>1, <2>2
    <3>2. Link(m, id, l) BY <1>3, <3>1 DEF Chain
    <3>3. src - prog.n \in 1..N BY <3>2 DEF Link
    <3> HIDE DEF src, N
    <3> QED BY <1>2, <1>4, <3>3
  <2> QED BY <2>1, <2>2
<1> HIDE DEF n, lon, reg
<1>6. /\ Len(n.regs) = N + 1 /\ n.regs[N + 1] = reg
      /\ \A x \in 1..N : n.regs[x] = m.regs[x]
  BY <1>2, <1>4
<1>7. /\ \A i \in DOMAIN len : i # id => n.delayed[i] = m.delayed[i]
      /\ n.delayed[id] = Append(m.delayed[id], new)
  BY <1>1, <1>2, <1>4
<1>8. /\ Len(n.delayed[id]) = l + 2 /\ n.delayed[id][l + 2] = new
      /\ \A j \in 1..(l + 1) : n.delayed[id][j] = m.delayed[id][j]
  <2>1. Len(m.delayed[id]) = l + 1 /\ m.delayed[id] \in Seq(Nat) /\ l \in Nat
    BY <1>1, <1>2, <1>3
  <2> HIDE DEF l, new
  <2> QED BY <1>7, <2>1
<1>9. lon \in [DOMAIN lon -> Nat] /\ DOMAIN lon = DOMAIN len /\ lon[id] = l + 1
      /\ \A i \in DOMAIN len : i # id => lon[i] = len[i]
  BY <1>1 DEF lon
<1>10. reg.node = new /\ reg.source = src /\ reg.stage = s /\ reg.enable = NoNode
       /\ (reg.is_valid <=> id = prog.vin)
  BY DEF reg
<1>11. ASSUME NEW i \in DOMAIN len, NEW j \in 1..len[i] PROVE Link(n, i, j)
  <2>1. Link(m, i, j) BY DEF Grown, Chain
  <2>2. n.delayed[i][j] = m.delayed[i][j] /\ n.delayed[i][j + 1] = m.delayed[i][j + 1]
    <3>1. CASE i # id BY <1>7, <3>1
    <3>2. CASE i = id
      <4>1. j \in 1..(l + 1) /\ j + 1 \in 1..(l + 1) BY <1>1, <3>2
      <4> QED BY <1>8, <3>2, <4>1
    <3> QED BY <3>1, <3>2
  <2> DEFINE x == m.delayed[i][j + 1] - prog.n
  <2>3. x \in 1..N BY <2>1 DEF Link
  <2>4. x \in 1..Len(n.regs) /\ n.regs[x] = m.regs[x] BY <1>2, <1>6, <2>3
  <2> QED BY <2>1, <2>2, <2>4 DEF Link
<1>12. Link(n, id, l + 1)
  <2>1. n.delayed[id][l + 1] = src /\ n.delayed[id][(l + 1) + 1] = new
    <3>1. l + 1 \in 1..(l + 1) /\ (l + 1) + 1 = l + 2 BY <1>1
    <3> QED BY <1>8, <3>1
  <2>2. new - prog.n = N + 1 /\ N + 1 \in 1..(N + 1) BY <1>2
  <2>3. s = stages[id] + (l + 1)
    <3>1. stages[id] \in Nat BY <1>1 DEF Ready
    <3> QED BY <1>1, <3>1
  <2> HIDE DEF l, N, src, new
  <2> QED BY <1>5, <1>6, <1>10, <2>1, <2>2, <2>3 DEF Link
<1>13. ASSUME NEW i \in DOMAIN lon PROVE Chain(n, i, lon[i])
  <2>1. CASE i # id
    <3>1. Chain(m, i, len[i]) BY <1>9 DEF Grown
    <3> QED BY <1>7, <1>9, <1>11, <2>1, <3>1 DEF Chain
  <2>2. CASE i = id
    <3>1. n.delayed[id][1] = id
      <4>1. 1 \in 1..(l + 1) BY <1>1
      <4> QED BY <1>3, <1>8, <4>1 DEF Chain
    <3>2. \A j \in 1..(l + 1) : j \in 1..len[id] \/ j = l + 1 BY <1>1
    <3>3. Len(n.delayed[id]) = (l + 1) + 1 BY <1>1, <1>8
    <3> QED BY <1>9, <1>11, <1>12, <2>2, <3>1, <3>2, <3>3 DEF Chain
  <2> QED BY <2>1, <2>2
<1>14. ASSUME NEW x \in 1..Len(n.regs)
       PROVE  n.regs[x].node = prog.n + x /\ n.regs[x].enable = NoNode /\ Owned(n, lon, x)
  <2>1. CASE x \in 1..N
    <3>1. m.regs[x].node = prog.n + x /\ m.regs[x].enable = NoNode /\ Owned(m, len, x)
      BY <2>1 DEF Grown
    <3>2. PICK i \in DOMAIN len : \E j \in 1..len[i] : m.delayed[i][j + 1] = prog.n + x
      BY <3>1 DEF Owned
    <3>3. PICK j \in 1..len[i] : m.delayed[i][j + 1] = prog.n + x BY <3>2
    <3>4. n.delayed[i][j + 1] = prog.n + x /\ j \in 1..lon[i]
      <4>1. CASE i # id BY <1>7, <1>9, <3>3, <4>1
      <4>2. CASE i = id
        <5>1. j + 1 \in 1..(l + 1) /\ j \in 1..(l + 1) BY <1>1, <4>2
        <5> QED BY <1>8, <1>9, <3>3, <4>2, <5>1
      <4> QED BY <4>1, <4>2
    <3>5. Owned(n, lon, x) BY <1>9, <3>4 DEF Owned
    <3> QED BY <1>6, <2>1, <3>1, <3>5
  <2>2. CASE x = N + 1
    <3>1. n.regs[x] = reg BY <1>6, <2>2
    <3>2. n.delayed[id][(l + 1) + 1] = prog.n + x
      <4>1. (l + 1) + 1 = l + 2 BY <1>1
      <4>2. new = prog.n + x
        <5>1. prog.n \in Nat /\ N \in Nat BY <1>2
        <5> HIDE DEF N
        <5> QED BY <5>1, <2>2
      <4> HIDE DEF l, new
      <4> QED BY <1>8, <4>1, <4>2
    <3>3. l + 1 \in 1..lon[id] BY <1>1, <1>9
    <3>a. id \in DOMAIN lon BY <1>9
    <3> HIDE DEF l
    <3>4. Owned(n, lon, x) BY <3>a, <3>2, <3>3 DEF Owned
    <3> USE DEF l
    <3>5. new = prog.n + x
      <4>1. prog.n \in Nat /\ N \in Nat BY <1>2
      <4> HIDE DEF N
      <4> QED BY <4>1, <2>2
    <3> QED BY <1>10, <3>1, <3>4, <3>5
  <2>3. x \in 1..N \/ x = N + 1 BY <1>2, <1>6
  <2> QED BY <2>1, <2>2, <2>3
<1>15. Grown(n, lon) BY <1>1, <1>4, <1>9, <1>13, <1>14 DEF Grown
<1> QED BY <1>4, <1>15 DEF n, lon

-----------------------------------------------------------------------------
(* The delay chain of a signal *)

ChainRun(m, id, run) ==
  /\ run[0] = Started(m, id)
  /\ \A k \in 1..ChainLength(id) : run[k] = Extended(run[k - 1], id, stages[id] + k)
  /\ \A k \in 0..ChainLength(id) : run[k] \in Designs
  /\ DelayChain(m, id) = run[ChainLength(id)]

\* Only data signals have chains at this point.
Chainable(id) == ChainLength(id) \in Nat /\ (ChainLength(id) # 0 => id # prog.vin)

\* The loop over the stages of one chain runs register by register.
LEMMA DelayChainRuns ==
  ASSUME Ready, NEW m \in Designs, NEW id \in Signals(prog), Chainable(id)
  PROVE  \E run : ChainRun(m, id, run)
<1> DEFINE n == ChainLength(id)
           A == {a \in Designs : a.delayed[id] # <<>>}
           base == [m EXCEPT !.delayed[id] = <<id>>]
           op(acc, s) == [AddRegister(acc, Last(acc.delayed[id]), s, FALSE)
                            EXCEPT !.delayed[id] = Append(@, NextId(acc))]
           seq == [k \in 1..n |-> stages[id] + k]
           body(f) == [s \in SUBSET DOMAIN seq |->
                         IF s = {} THEN base ELSE op(f[s \ {Max(s)}], seq[Max(s)])]
           it == CHOOSE f : f = body(f)
           F == [k \in 1..n |-> [a \in A |-> op(a, seq[k])]]
           fin == it[DOMAIN seq]
<1>1. DelayChain(m, id) = fin
  BY DEF DelayChain, FoldLeft, MapThenFoldSet
<1>2. n \in Nat /\ DOMAIN seq = 1..n /\ (n # 0 => id # prog.vin)
      /\ \A k \in 1..n : seq[k] = stages[id] + k
  BY DEF Chainable
<1> HIDE DEF n, seq
<1>3. base \in A
  <2> DEFINE e == [i \in {} |-> 0]
  <2>1. e \in [DOMAIN e -> Nat] /\ DOMAIN e = {} OBVIOUS
  <2> HIDE DEF e
  <2>2. base = Started(m, id) BY DEF Started
  <2>3. id \in Nat
    <3>1. Signals(prog) \subseteq Nat BY SignalsAreFinite DEF Ready, SoundGraph
    <3> QED BY <3>1
  <2>4. Started(m, id) \in Designs /\ Started(m, id).delayed[id] = <<id>> BY <2>3, StartType
  <2>5. <<id>> # <<>> OBVIOUS
  <2> HIDE DEF base
  <2> QED BY <2>2, <2>4, <2>5
<1>4. ASSUME NEW k \in 1..n, NEW a \in A
      PROVE  op(a, seq[k]) \in A /\ op(a, seq[k]) = Extended(a, id, stages[id] + k)
  <2>1. id # prog.vin BY <1>2
  <2>2. (id = prog.vin) = FALSE BY <2>1
  <2>3. op(a, seq[k]) = Extended(a, id, stages[id] + k) BY <1>2, <2>2 DEF Extended
  <2>4. stages[id] + k \in Nat
    <3>1. stages[id] \in Nat /\ n \in Nat BY <1>2 DEF Ready
    <3> QED BY <3>1
  <2>5. a \in Designs /\ a.delayed[id] # <<>> OBVIOUS
  <2> HIDE DEF op
  <2>6. /\ Extended(a, id, stages[id] + k) \in Designs
        /\ Extended(a, id, stages[id] + k).delayed[id] # <<>>
    BY <2>4, <2>5, ExtendedFields DEF Extends
  <2> QED BY <2>3, <2>6
<1> HIDE DEF op, A, base
<1>5. F \in [1..n -> [A -> A]] BY <1>4
<1>6. \A k \in 1..n : \A a \in A : F[k][a] = op(a, seq[k]) OBVIOUS
<1> HIDE DEF F
<1>7. PICK f : Folds(f, F, base, n, A)
  BY <1>2, <1>3, <1>5, FoldEquation
<1>8. f = body(f)
  <2>1. f = [s \in SUBSET (1..n) |-> f[s]] /\ f[{}] = base BY <1>7 DEF Folds
  <2>2. ASSUME NEW s \in SUBSET (1..n), s # {}
        PROVE  f[s] = op(f[s \ {Max(s)}], seq[Max(s)])
    <3>1. /\ Max(s) \in 1..n /\ f[s \ {Max(s)}] \in A
          /\ f[s] = F[Max(s)][f[s \ {Max(s)}]]
      BY <1>7, <2>2 DEF Folds
    <3> QED BY <1>6, <3>1
  <2>3. f = [s \in SUBSET (1..n) |->
               IF s = {} THEN base ELSE op(f[s \ {Max(s)}], seq[Max(s)])]
    BY <2>1, <2>2
  <2> QED BY <1>2, <2>3
<1>9. it = body(it) BY <1>8
<1> HIDE DEF it
<1>10. \A s \in SUBSET (1..n) :
         it[s] = IF s = {} THEN base ELSE op(it[s \ {Max(s)}], seq[Max(s)])
  BY <1>2, <1>9
<1> HIDE DEF body
<1>11. Unfolds(it, F, base, n, A)
  <2>1. it[{}] = base
    <3>1. {} \in SUBSET (1..n) OBVIOUS
    <3> QED BY <1>10, <3>1
  <2>2. ASSUME NEW s \in SUBSET (1..n), s # {}, it[s \ {Max(s)}] \in A
        PROVE  it[s] = F[Max(s)][it[s \ {Max(s)}]]
    <3>1. Max(s) \in 1..n BY <1>2, <2>2, MaxOfPositions
    <3>2. it[s] = op(it[s \ {Max(s)}], seq[Max(s)]) BY <1>10, <2>2
    <3> QED BY <1>6, <2>2, <3>1, <3>2
  <2> QED BY <2>1, <2>2 DEF Unfolds
<1>12. /\ it[1..0] = base
       /\ \A k \in 0..n : it[1..k] \in A
       /\ \A k \in 1..n : it[1..k] = F[k][it[1..(k - 1)]]
  <2>1. n \in Nat /\ base \in A /\ F \in [1..n -> [A -> A]] /\ Unfolds(it, F, base, n, A)
    BY <1>2, <1>3, <1>5, <1>11
  <2> HIDE DEF n
  <2> QED BY <2>1, FoldRuns
<1> DEFINE run == [k \in 0..n |-> it[1..k]]
<1>13. run[0] = base BY <1>2, <1>12
<1>14. ASSUME NEW k \in 1..n PROVE run[k] = Extended(run[k - 1], id, stages[id] + k)
  <2>1. k \in 0..n /\ k - 1 \in 0..n BY <1>2
  <2>2. it[1..(k - 1)] \in A BY <1>12, <2>1
  <2>3. run[k] = op(it[1..(k - 1)], seq[k]) BY <1>6, <1>12, <2>1, <2>2
  <2> QED BY <1>4, <2>1, <2>2, <2>3
<1>15. fin = run[n] BY <1>2
<1>b. \A k \in 0..n : run[k] \in Designs BY <1>12 DEF A
<1> HIDE DEF run, fin
<1>16. ChainRun(m, id, run) BY <1>1, <1>13, <1>14, <1>15, <1>b DEF ChainRun, Started, base, n
<1> QED BY <1>16

\* The lengths of the chains once id has one of length l.
With(len, id, l) == [i \in DOMAIN len \cup {id} |-> IF i = id THEN l ELSE len[i]]

\* A delay chain is as long as the last use of its signal needs.
LEMMA DelayChainGrows ==
  ASSUME Ready, NEW m, NEW len, Grown(m, len), NEW id \in Signals(prog), id \notin DOMAIN len,
         Chainable(id)
  PROVE  /\ DelayChain(m, id).valid = m.valid
         /\ Grown(DelayChain(m, id), With(len, id, ChainLength(id)))
<1> DEFINE n == ChainLength(id)
<1>1. m \in Designs /\ n \in Nat BY DEF Grown, Chainable
<1>2. PICK run : ChainRun(m, id, run) BY <1>1, DelayChainRuns
<1> DEFINE Good(k) == run[k].valid = m.valid /\ Grown(run[k], With(len, id, k))
           T == {k \in Nat : k <= n => Good(k)}
<1>3. 0 \in T
  <2>1. Good(0) BY <1>2, StartGrows DEF ChainRun, With
  <2> HIDE DEF Good
  <2> QED BY <2>1
<1>4. ASSUME NEW k \in Nat, k \in T PROVE k + 1 \in T
  <2> HIDE DEF Good
  <2> SUFFICES ASSUME k + 1 <= n PROVE Good(k + 1)
    OBVIOUS
  <2>1. Good(k)
    <3>1. k <= n BY <1>1
    <3> QED BY <1>4, <3>1
  <2>2. run[k].valid = m.valid /\ Grown(run[k], With(len, id, k)) BY <2>1 DEF Good
  <2>3. run[k + 1] = Extended(run[k], id, stages[id] + (k + 1))
    <3>1. k + 1 \in 1..n /\ (k + 1) - 1 = k BY <1>1
    <3> DEFINE x == k + 1
    <3>2. x \in 1..ChainLength(id) /\ x - 1 = k BY <3>1
    <3> HIDE DEF x
    <3>3. run[x] = Extended(run[x - 1], id, stages[id] + x) BY <1>2, <3>2 DEF ChainRun
    <3>4. run[x] = Extended(run[k], id, stages[id] + x) BY <3>2, <3>3
    <3> QED BY <3>4 DEF x
  <2>4. /\ id \in DOMAIN With(len, id, k) /\ With(len, id, k)[id] = k
        /\ [With(len, id, k) EXCEPT ![id] = k + 1] = With(len, id, k + 1)
    BY DEF With
  <2>5. stages[id] + (k + 1) \in Nat /\ stages[id] + (k + 1) = stages[id] + k + 1
    <3>1. stages[id] \in Nat BY DEF Ready
    <3> QED BY <3>1
  <2> DEFINE w == With(len, id, k)
             s == stages[id] + (k + 1)
  <2>6. Grown(run[k], w) /\ id \in DOMAIN w /\ s \in Nat /\ s = stages[id] + w[id] + 1
    BY <2>2, <2>4, <2>5
  <2> HIDE DEF w, s
  <2>7. /\ Extended(run[k], id, s).valid = run[k].valid
        /\ Grown(Extended(run[k], id, s), [w EXCEPT ![id] = w[id] + 1])
    BY <2>6, ExtendGrows
  <2>8. run[k + 1].valid = m.valid BY <2>2, <2>3, <2>7 DEF s
  <2>9. [w EXCEPT ![id] = w[id] + 1] = With(len, id, k + 1) BY <2>4 DEF w
  <2>10. Grown(run[k + 1], With(len, id, k + 1)) BY <2>3, <2>7, <2>9 DEF s
  <2> QED BY <2>8, <2>10 DEF Good
<1> HIDE DEF T
<1>5. n \in T BY <1>1, <1>3, <1>4, InductiveSet
<1>6. Good(n)
  <2> HIDE DEF Good
  <2> QED BY <1>1, <1>5 DEF T
<1> QED BY <1>2, <1>6 DEF ChainRun

-----------------------------------------------------------------------------
(* The data chains of all signals *)

\* Chains end by the last stage, only registered signals have one.
LEMMA LiveIsChainable ==
  ASSUME Ready, NEW id \in g.live
  PROVE  /\ id \in Signals(prog) /\ Chainable(id)
         /\ ChainLength(id) =
              IF id \in g.const \/ id = prog.vin THEN 0 ELSE Kept(g, last, stages)[id]
<1>1. SoundGraph(g) /\ g.p = prog /\ last \in Nat /\ stages \in [Signals(prog) -> Nat]
      /\ LegalStages(g, last, stages)
  BY DEF Ready
<1>2. id \in Signals(prog) BY <1>1, OrderIsFinite
<1>3. CASE id \in g.const \/ id = prog.vin
  BY <1>2, <1>3 DEF ChainLength, Chainable
<1>4. CASE ~(id \in g.const \/ id = prog.vin)
  <2>1. id \in Registered(g) BY <1>4 DEF Registered
  <2>2. LastUse(g, last, stages, id) \in stages[id]..last /\ stages[id] \in Nat
    BY <1>1, <1>2, <2>1, KeptIsNat
  <2>3. ChainLength(id) = LastUse(g, last, stages, id) - stages[id]
    BY <1>4 DEF ChainLength
  <2>4. ChainLength(id) \in Nat BY <1>1, <2>2, <2>3
  <2>5. Kept(g, last, stages)[id] = LastUse(g, last, stages, id) - stages[id]
    BY <2>1 DEF Kept
  <2> QED BY <1>2, <1>4, <2>3, <2>4, <2>5 DEF Chainable
<1> QED BY <1>3, <1>4

Empty == [NoDesign EXCEPT !.delayed = [id \in Signals(prog) |-> <<>>]]

DataRun(run) ==
  /\ run[0] = Empty
  /\ \A k \in 1..Len(g.order) : run[k] = DelayChain(run[k - 1], g.order[k])
  /\ DataChains = run[Len(g.order)]

\* The loop over the order runs chain by chain.
LEMMA DataChainsRun ==
  ASSUME Ready
  PROVE  Empty \in Designs /\ \E run : DataRun(run)
<1> DEFINE seq == g.order
           n == Len(seq)
           A == Designs
           base == [NoDesign EXCEPT !.delayed = [id \in Signals(prog) |-> <<>>]]
           op(acc, id) == DelayChain(acc, id)
           body(f) == [s \in SUBSET DOMAIN seq |->
                         IF s = {} THEN base ELSE op(f[s \ {Max(s)}], seq[Max(s)])]
           it == CHOOSE f : f = body(f)
           F == [k \in 1..n |-> [a \in A |-> op(a, seq[k])]]
           fin == it[DOMAIN seq]
<1>1. DataChains = fin
  BY DEF DataChains, FoldLeft, MapThenFoldSet
<1>2. n \in Nat /\ DOMAIN seq = 1..n /\ \A k \in 1..n : seq[k] \in g.live
  BY OrderIsFinite DEF Ready
<1> HIDE DEF n, seq
<1>3. base \in A
  <2>1. <<>> \in Seq(Nat) /\ <<>> \in Seq(Register) OBVIOUS
  <2>2. base = [regs |-> <<>>, delayed |-> [id \in Signals(prog) |-> <<>>],
                valid |-> <<>>, drv |-> <<>>]
    BY DEF NoDesign
  <2> HIDE DEF base
  <2> QED BY <2>1, <2>2 DEF Designs
<1>4. \A a \in A : \A id \in g.live : op(a, id) \in A
  <2> TAKE a \in A
  <2> TAKE id \in g.live
  <2>1. id \in Signals(prog) /\ Chainable(id) BY LiveIsChainable
  <2>2. PICK run : ChainRun(a, id, run) BY <2>1, DelayChainRuns
  <2>3. ChainLength(id) \in 0..ChainLength(id) BY <2>1 DEF Chainable
  <2>4. run[ChainLength(id)] \in Designs BY <2>2, <2>3 DEF ChainRun
  <2> QED BY <2>2, <2>4 DEF ChainRun
<1> HIDE DEF op, A, base
<1>5. F \in [1..n -> [A -> A]] BY <1>2, <1>4
<1>6. \A k \in 1..n : \A a \in A : F[k][a] = op(a, seq[k]) OBVIOUS
<1> HIDE DEF F
<1>7. PICK f : Folds(f, F, base, n, A)
  BY <1>2, <1>3, <1>5, FoldEquation
<1>8. f = body(f)
  <2>1. f = [s \in SUBSET (1..n) |-> f[s]] /\ f[{}] = base BY <1>7 DEF Folds
  <2>2. ASSUME NEW s \in SUBSET (1..n), s # {}
        PROVE  f[s] = op(f[s \ {Max(s)}], seq[Max(s)])
    <3>1. /\ Max(s) \in 1..n /\ f[s \ {Max(s)}] \in A
          /\ f[s] = F[Max(s)][f[s \ {Max(s)}]]
      BY <1>7, <2>2 DEF Folds
    <3> QED BY <1>6, <3>1
  <2>3. f = [s \in SUBSET (1..n) |->
               IF s = {} THEN base ELSE op(f[s \ {Max(s)}], seq[Max(s)])]
    BY <2>1, <2>2
  <2> QED BY <1>2, <2>3
<1>9. it = body(it) BY <1>8
<1> HIDE DEF it
<1>10. \A s \in SUBSET (1..n) :
         it[s] = IF s = {} THEN base ELSE op(it[s \ {Max(s)}], seq[Max(s)])
  BY <1>2, <1>9
<1> HIDE DEF body
<1>11. Unfolds(it, F, base, n, A)
  <2>1. it[{}] = base
    <3>1. {} \in SUBSET (1..n) OBVIOUS
    <3> QED BY <1>10, <3>1
  <2>2. ASSUME NEW s \in SUBSET (1..n), s # {}, it[s \ {Max(s)}] \in A
        PROVE  it[s] = F[Max(s)][it[s \ {Max(s)}]]
    <3>1. Max(s) \in 1..n BY <1>2, <2>2, MaxOfPositions
    <3>2. it[s] = op(it[s \ {Max(s)}], seq[Max(s)]) BY <1>10, <2>2
    <3> QED BY <1>6, <2>2, <3>1, <3>2
  <2> QED BY <2>1, <2>2 DEF Unfolds
<1>12. /\ it[1..0] = base
       /\ \A k \in 0..n : it[1..k] \in A
       /\ \A k \in 1..n : it[1..k] = F[k][it[1..(k - 1)]]
  <2>1. n \in Nat /\ base \in A /\ F \in [1..n -> [A -> A]] /\ Unfolds(it, F, base, n, A)
    BY <1>2, <1>3, <1>5, <1>11
  <2> HIDE DEF n
  <2> QED BY <2>1, FoldRuns
<1> DEFINE run == [k \in 0..n |-> it[1..k]]
<1>13. run[0] = base BY <1>2, <1>12
<1>14. ASSUME NEW k \in 1..n PROVE run[k] = op(run[k - 1], seq[k])
  <2>1. k \in 0..n /\ k - 1 \in 0..n BY <1>2
  <2> QED BY <1>6, <1>12, <2>1
<1>15. fin = run[n] BY <1>2
<1> HIDE DEF run, fin
<1>16. base = Empty BY DEF base, Empty
<1>17. DataRun(run) BY <1>1, <1>13, <1>14, <1>15, <1>16 DEF DataRun, op, seq, n
<1> QED BY <1>3, <1>16, <1>17 DEF A

\* The chain lengths of the signals at the first k positions of the order.
LengthsUpto(k) == [id \in {g.order[i] : i \in 1..k} |-> ChainLength(id)]

\* After the loop over the order every signal has its data chain.
LEMMA DataChainsGrow ==
  ASSUME Ready
  PROVE  /\ DataChains.valid = <<>>
         /\ Grown(DataChains, [id \in g.live |-> ChainLength(id)])
<1> DEFINE n == Len(g.order)
<1>1. n \in Nat /\ \A k \in 1..n : g.order[k] \in g.live
  BY OrderIsFinite DEF Ready
<1>2. Empty \in Designs /\ Empty.valid = <<>> /\ Empty.regs = <<>>
  BY DataChainsRun DEF Empty, NoDesign
<1>3. PICK run : DataRun(run) BY DataChainsRun
<1> DEFINE Good(k) == run[k].valid = <<>> /\ Grown(run[k], LengthsUpto(k))
           T == {k \in Nat : k <= n => Good(k)}
<1>4. 0 \in T
  <2>1. 1..0 = {} /\ Len(Empty.regs) = 0 BY <1>2
  <2>2. DOMAIN LengthsUpto(0) = {} BY <2>1 DEF LengthsUpto
  <2>3. LengthsUpto(0) \in [DOMAIN LengthsUpto(0) -> Nat] BY <2>2 DEF LengthsUpto
  <2>4. Grown(Empty, LengthsUpto(0)) BY <1>2, <2>1, <2>2, <2>3 DEF Grown
  <2>5. Good(0) BY <1>2, <1>3, <2>4 DEF DataRun
  <2> HIDE DEF Good
  <2> QED BY <2>5
<1>5. ASSUME NEW k \in Nat, k \in T PROVE k + 1 \in T
  <2> HIDE DEF Good
  <2> SUFFICES ASSUME k + 1 <= n PROVE Good(k + 1)
    OBVIOUS
  <2>1. Good(k)
    <3>1. k <= n BY <1>1
    <3> QED BY <1>5, <3>1
  <2>2. run[k].valid = <<>> /\ Grown(run[k], LengthsUpto(k)) BY <2>1 DEF Good
  <2> DEFINE x == k + 1
             id == g.order[x]
  <2>3. x \in 1..n /\ x - 1 = k /\ x \in Nat BY <1>1
  <2>4. 1..x = 1..k \cup {x} BY <2>3
  <2> HIDE DEF x
  <2>5. run[x] = DelayChain(run[k], id)
    <3>1. run[x] = DelayChain(run[x - 1], g.order[x]) BY <1>3, <2>3 DEF DataRun
    <3> QED BY <2>3, <3>1
  <2>6. id \in g.live BY <1>1, <2>3
  <2>7. id \in Signals(prog) /\ Chainable(id) BY <2>6, LiveIsChainable
  <2>8. id \notin DOMAIN LengthsUpto(k)
    <3>1. \A i \in 1..k : i \in 1..n /\ i # x BY <1>1, <2>3
    <3>2. \A i, j \in 1..n : g.order[i] = g.order[j] => i = j
      BY DEF Ready, SoundGraph, Ordered
    <3>3. \A i \in 1..k : g.order[i] # id BY <2>3, <3>1, <3>2
    <3>4. DOMAIN LengthsUpto(k) = {g.order[i] : i \in 1..k} BY DEF LengthsUpto
    <3> HIDE DEF id
    <3> QED BY <3>3, <3>4
  <2>9. With(LengthsUpto(k), id, ChainLength(id)) = LengthsUpto(x)
    <3> DEFINE D == {g.order[i] : i \in 1..k}
    <3>1. {g.order[i] : i \in 1..x} = D \cup {id} BY <2>4
    <3>2. LengthsUpto(k) = [i \in D |-> ChainLength(i)] BY DEF LengthsUpto
    <3>3. LengthsUpto(x) = [i \in D \cup {id} |-> ChainLength(i)] BY <3>1 DEF LengthsUpto
    <3> HIDE DEF D, id
    <3> QED BY <3>2, <3>3 DEF With
  <2> HIDE DEF id
  <2>10. /\ DelayChain(run[k], id).valid = run[k].valid
         /\ Grown(DelayChain(run[k], id), With(LengthsUpto(k), id, ChainLength(id)))
    <3> DEFINE w == LengthsUpto(k)
               m == run[k]
    <3>1. Grown(m, w) /\ id \in Signals(prog) /\ id \notin DOMAIN w /\ Chainable(id)
      BY <2>2, <2>7, <2>8
    <3> HIDE DEF w, m
    <3>2. /\ DelayChain(m, id).valid = m.valid
          /\ Grown(DelayChain(m, id), With(w, id, ChainLength(id)))
      BY <3>1, DelayChainGrows
    <3> QED BY <3>2 DEF w, m
  <2>11. run[x].valid = <<>> /\ Grown(run[x], LengthsUpto(x)) BY <2>2, <2>5, <2>9, <2>10
  <2> QED BY <2>11 DEF Good, x
<1> HIDE DEF T
<1>6. n \in T BY <1>1, <1>4, <1>5, InductiveSet
<1>7. Good(n)
  <2> HIDE DEF Good
  <2> QED BY <1>1, <1>6 DEF T
<1>8. LengthsUpto(n) = [id \in g.live |-> ChainLength(id)]
  BY DEF LengthsUpto, Ready, SoundGraph
<1> QED BY <1>3, <1>7, <1>8 DEF DataRun

-----------------------------------------------------------------------------
(* The valid chain *)

\* One more register at the end of the valid chain.
Lengthened(m, s) ==
  [AddRegister(m, Last(m.valid), s, TRUE) EXCEPT !.valid = Append(@, NextId(m))]

\* The valid chain taken for the delay chain of the valid input.
Chained(m) == [m EXCEPT !.delayed[prog.vin] = m.valid, !.valid = <<>>]

\* The valid chain, read as the delay chain of the valid input.
LEMMA ChainedFields ==
  ASSUME NEW m \in Designs, prog.vin \in Signals(prog)
  PROVE  /\ Chained(m) \in Designs
         /\ Chained(m).regs = m.regs /\ Chained(m).valid = <<>>
         /\ Chained(m).delayed = [m.delayed EXCEPT ![prog.vin] = m.valid]
         /\ Chained(m).delayed[prog.vin] = m.valid
<1> DEFINE dd == [m.delayed EXCEPT ![prog.vin] = m.valid]
           n == Chained(m)
<1>1. m = [regs |-> m.regs, delayed |-> m.delayed, valid |-> m.valid, drv |-> m.drv]
  BY DEF Designs
<1>2. n = [m EXCEPT !.delayed = dd, !.valid = <<>>] BY DEF Chained
<1>3. dd \in [Signals(prog) -> Seq(Nat)] /\ dd[prog.vin] = m.valid BY DEF Designs
<1> HIDE DEF dd, n
<1>4. n = [regs |-> m.regs, delayed |-> dd, valid |-> <<>>, drv |-> m.drv] BY <1>1, <1>2
<1>5. n \in Designs
  <2>1. <<>> \in Seq(Nat) OBVIOUS
  <2> QED BY <1>3, <1>4, <2>1 DEF Designs
<1>6. n.regs = m.regs /\ n.valid = <<>> /\ n.delayed = dd BY <1>4
<1> QED BY <1>3, <1>5, <1>6 DEF n, dd

\* Growing the valid chain is extending the chain of the valid input.
LEMMA ValidStep ==
  ASSUME Ready, prog.vin \in Signals(prog), NEW m \in Designs, m.valid # <<>>, NEW s \in Nat
  PROVE  /\ Lengthened(m, s) \in Designs /\ Lengthened(m, s).valid # <<>>
         /\ Chained(Lengthened(m, s)) = Extended(Chained(m), prog.vin, s)
<1> DEFINE c == Chained(m)
           n == Lengthened(m, s)
           e == Extended(c, prog.vin, s)
           reg == Reg(NextId(m), Last(m.valid), s, prog.vin)
           id == NextId(m)
<1>1. /\ c \in Designs /\ c.regs = m.regs /\ c.valid = <<>>
      /\ c.delayed = [m.delayed EXCEPT ![prog.vin] = m.valid] /\ c.delayed[prog.vin] = m.valid
  BY ChainedFields
<1>2. NextId(c) = id /\ EndOf(c, prog.vin) = Last(m.valid)
  BY <1>1 DEF NextId, EndOf, Last
<1> HIDE DEF c
<1>3. /\ e \in Designs /\ e.valid = c.valid /\ NextId(c) \in Nat
      /\ e.regs = Append(c.regs, Reg(NextId(c), EndOf(c, prog.vin), s, prog.vin))
      /\ e.delayed = [c.delayed EXCEPT ![prog.vin] = Append(c.delayed[prog.vin], NextId(c))]
  <2> DEFINE v == prog.vin
  <2>0. c \in Designs /\ c.delayed[v] # <<>> /\ v \in Signals(prog) BY <1>1
  <2> HIDE DEF e, v
  <2>1. Extends(e, c, v, s) BY <2>0, ExtendedFields DEF e, v
  <2>2. e \in Designs /\ e.valid = c.valid /\ NextId(c) \in Nat BY <2>1 DEF Extends
  <2>3. e.regs = Append(c.regs, Reg(NextId(c), EndOf(c, v), s, v)) BY <2>1 DEF Extends
  <2>4. e.delayed = [c.delayed EXCEPT ![v] = Append(c.delayed[v], NextId(c))]
    BY <2>1 DEF Extends
  <2> QED BY <2>2, <2>3, <2>4 DEF v
<1> HIDE DEF e
<1>4. /\ e \in Designs /\ e.valid = <<>> /\ id \in Nat /\ e.regs = Append(m.regs, reg)
      /\ e.delayed = [m.delayed EXCEPT ![prog.vin] = Append(m.valid, id)]
  <2>1. e.regs = Append(m.regs, reg) BY <1>1, <1>2, <1>3
  <2>2. e.delayed = [c.delayed EXCEPT ![prog.vin] = Append(m.valid, id)] BY <1>1, <1>2, <1>3
  <2> HIDE DEF id
  <2>3. e.delayed = [m.delayed EXCEPT ![prog.vin] = Append(m.valid, id)]
    BY <1>1, <2>2 DEF Designs
  <2> QED BY <1>1, <1>2, <1>3, <2>1, <2>3 DEF id
<1>5. m = [regs |-> m.regs, delayed |-> m.delayed, valid |-> m.valid, drv |-> m.drv]
  BY DEF Designs
<1>6. n = [[m EXCEPT !.regs = Append(m.regs, reg)] EXCEPT !.valid = Append(@, id)]
  BY DEF Lengthened, AddRegister, Reg
<1> HIDE DEF n, reg, id
<1>7. n = [regs |-> Append(m.regs, reg), delayed |-> m.delayed, valid |-> Append(m.valid, id),
           drv |-> m.drv]
  BY <1>5, <1>6
<1>8. n \in Designs /\ n.valid # <<>>
  <2>0. m.valid \in Seq(Nat) /\ id \in Nat BY <1>4 DEF Designs
  <2>1. Append(m.valid, id) \in Seq(Nat) /\ Append(m.valid, id) # <<>> BY <2>0
  <2>2. Append(m.regs, reg) \in Seq(Register) BY <1>4 DEF Designs
  <2> QED BY <1>7, <2>1, <2>2 DEF Designs
<1>9. /\ Chained(n) \in Designs /\ Chained(n).regs = n.regs /\ Chained(n).valid = <<>>
      /\ Chained(n).delayed = [n.delayed EXCEPT ![prog.vin] = n.valid]
  BY <1>8, ChainedFields
<1> DEFINE d == Chained(n)
<1>10. d \in Designs /\ d.regs = e.regs /\ d.valid = e.valid /\ d.delayed = e.delayed
  BY <1>4, <1>7, <1>9
<1> HIDE DEF d
<1>11. d.drv = e.drv BY <1>4, <1>10 DEF Designs
<1>12. d = [regs |-> d.regs, delayed |-> d.delayed, valid |-> d.valid, drv |-> d.drv]
       /\ e = [regs |-> e.regs, delayed |-> e.delayed, valid |-> e.valid, drv |-> e.drv]
  BY <1>4, <1>10 DEF Designs
<1>13. d = e BY <1>10, <1>11, <1>12
<1> QED BY <1>8, <1>13 DEF d, e, c, n

\* The states of the loop that builds the valid chain, and its result.
ValidRun(m, run) ==
  /\ run[0] = [m EXCEPT !.valid = <<prog.vin>>]
  /\ \A k \in 0..last : run[k] \in Designs /\ run[k].valid # <<>>
  /\ \A k \in 1..last : run[k] = Lengthened(run[k - 1], k)
  /\ ValidChain(m) = [run[last] EXCEPT
                        !.delayed[prog.vin] = run[last].valid,
                        !.regs = [i \in DOMAIN @ |-> Gated(run[last], @[i])]]

\* The loop of the valid chain runs register by register.
LEMMA ValidChainRuns ==
  ASSUME Ready, prog.vin \in Signals(prog), prog.vin # NoNode, NEW m \in Designs
  PROVE  \E run : ValidRun(m, run)
<1> DEFINE n == last
           A == {a \in Designs : a.valid # <<>>}
           base == [m EXCEPT !.valid = <<prog.vin>>]
           op(acc, s) == [AddRegister(acc, Last(acc.valid), s, TRUE)
                            EXCEPT !.valid = Append(@, NextId(acc))]
           seq == [k \in 1..n |-> k]
           body(f) == [s \in SUBSET DOMAIN seq |->
                         IF s = {} THEN base ELSE op(f[s \ {Max(s)}], seq[Max(s)])]
           it == CHOOSE f : f = body(f)
           F == [k \in 1..n |-> [a \in A |-> op(a, seq[k])]]
           fin == it[DOMAIN seq]
<1>1. ValidChain(m) = [fin EXCEPT !.delayed[prog.vin] = fin.valid,
                                  !.regs = [i \in DOMAIN @ |-> Gated(fin, @[i])]]
  BY DEF ValidChain, FoldLeft, MapThenFoldSet
<1>2. n \in Nat /\ DOMAIN seq = 1..n /\ \A k \in 1..n : seq[k] = k
  BY DEF Ready
<1> HIDE DEF n, seq
<1>3. base \in A
  <2>1. prog.vin \in Nat
    <3>1. Signals(prog) \subseteq Nat BY SignalsAreFinite DEF Ready, SoundGraph
    <3> QED BY <3>1
  <2> DEFINE v == <<prog.vin>>
  <2>2. v \in Seq(Nat) /\ v # <<>> BY <2>1
  <2>3. m = [regs |-> m.regs, delayed |-> m.delayed, valid |-> m.valid, drv |-> m.drv]
    BY DEF Designs
  <2>4. base = [m EXCEPT !.valid = v] OBVIOUS
  <2> HIDE DEF v, base
  <2>5. base = [regs |-> m.regs, delayed |-> m.delayed, valid |-> v, drv |-> m.drv]
    BY <2>3, <2>4
  <2> QED BY <2>2, <2>5 DEF Designs
<1>4. ASSUME NEW k \in 1..n, NEW a \in A
      PROVE  op(a, seq[k]) \in A /\ op(a, seq[k]) = Lengthened(a, k)
  <2>1. op(a, seq[k]) = Lengthened(a, k) BY <1>2 DEF Lengthened
  <2>2. a \in Designs /\ a.valid # <<>> /\ k \in Nat BY <1>2
  <2> HIDE DEF op
  <2>3. Lengthened(a, k) \in Designs /\ Lengthened(a, k).valid # <<>> BY <2>2, ValidStep
  <2> QED BY <2>1, <2>3
<1> HIDE DEF op, A, base
<1>5. F \in [1..n -> [A -> A]] BY <1>4
<1>6. \A k \in 1..n : \A a \in A : F[k][a] = op(a, seq[k]) OBVIOUS
<1> HIDE DEF F
<1>7. PICK f : Folds(f, F, base, n, A)
  BY <1>2, <1>3, <1>5, FoldEquation
<1>8. f = body(f)
  <2>1. f = [s \in SUBSET (1..n) |-> f[s]] /\ f[{}] = base BY <1>7 DEF Folds
  <2>2. ASSUME NEW s \in SUBSET (1..n), s # {}
        PROVE  f[s] = op(f[s \ {Max(s)}], seq[Max(s)])
    <3>1. /\ Max(s) \in 1..n /\ f[s \ {Max(s)}] \in A
          /\ f[s] = F[Max(s)][f[s \ {Max(s)}]]
      BY <1>7, <2>2 DEF Folds
    <3> QED BY <1>6, <3>1
  <2>3. f = [s \in SUBSET (1..n) |->
               IF s = {} THEN base ELSE op(f[s \ {Max(s)}], seq[Max(s)])]
    BY <2>1, <2>2
  <2> QED BY <1>2, <2>3
<1>9. it = body(it) BY <1>8
<1> HIDE DEF it
<1>10. \A s \in SUBSET (1..n) :
         it[s] = IF s = {} THEN base ELSE op(it[s \ {Max(s)}], seq[Max(s)])
  BY <1>2, <1>9
<1> HIDE DEF body
<1>11. Unfolds(it, F, base, n, A)
  <2>1. it[{}] = base
    <3>1. {} \in SUBSET (1..n) OBVIOUS
    <3> QED BY <1>10, <3>1
  <2>2. ASSUME NEW s \in SUBSET (1..n), s # {}, it[s \ {Max(s)}] \in A
        PROVE  it[s] = F[Max(s)][it[s \ {Max(s)}]]
    <3>1. Max(s) \in 1..n BY <1>2, <2>2, MaxOfPositions
    <3>2. it[s] = op(it[s \ {Max(s)}], seq[Max(s)]) BY <1>10, <2>2
    <3> QED BY <1>6, <2>2, <3>1, <3>2
  <2> QED BY <2>1, <2>2 DEF Unfolds
<1>12. /\ it[1..0] = base
       /\ \A k \in 0..n : it[1..k] \in A
       /\ \A k \in 1..n : it[1..k] = F[k][it[1..(k - 1)]]
  <2>1. n \in Nat /\ base \in A /\ F \in [1..n -> [A -> A]] /\ Unfolds(it, F, base, n, A)
    BY <1>2, <1>3, <1>5, <1>11
  <2> HIDE DEF n
  <2> QED BY <2>1, FoldRuns
<1> DEFINE run == [k \in 0..n |-> it[1..k]]
<1>13. run[0] = base BY <1>2, <1>12
<1>14. ASSUME NEW k \in 1..n PROVE run[k] = Lengthened(run[k - 1], k)
  <2>1. k \in 0..n /\ k - 1 \in 0..n BY <1>2
  <2>2. it[1..(k - 1)] \in A BY <1>12, <2>1
  <2>3. run[k] = op(it[1..(k - 1)], seq[k]) BY <1>6, <1>12, <2>1, <2>2
  <2> QED BY <1>4, <2>1, <2>2, <2>3
<1>15. fin = run[n] BY <1>2
<1>16. \A k \in 0..n : run[k] \in Designs /\ run[k].valid # <<>> BY <1>12 DEF A
<1> HIDE DEF run, fin
<1>17. ValidRun(m, run) BY <1>1, <1>13, <1>14, <1>15, <1>16 DEF ValidRun, base, n
<1> QED BY <1>17

\* The loop grows the chain of the valid input to the last stage.
LEMMA ValidChainGrows ==
  ASSUME Ready, prog.vin \in Signals(prog), NEW m, NEW len, Grown(m, len),
         prog.vin \in DOMAIN len, len[prog.vin] = 0, stages[prog.vin] = 0,
         NEW run, ValidRun(m, run)
  PROVE  Grown(Chained(run[last]), [len EXCEPT ![prog.vin] = last])
<1> DEFINE id == prog.vin
           n == last
           Good(k) == Grown(Chained(run[k]), [len EXCEPT ![id] = k])
           T == {k \in Nat : k <= n => Good(k)}
<1>1. m \in Designs /\ n \in Nat /\ id \in Nat /\ len \in [DOMAIN len -> Nat]
  <2>1. Signals(prog) \subseteq Nat BY SignalsAreFinite DEF Ready, SoundGraph
  <2> QED BY <2>1 DEF Grown, Ready
<1>2. 0 \in T
  <2> DEFINE b == run[0]
             v == <<id>>
  <2>1. b = [m EXCEPT !.valid = v] /\ b \in Designs BY <1>1 DEF ValidRun
  <2>2. m = [regs |-> m.regs, delayed |-> m.delayed, valid |-> m.valid, drv |-> m.drv]
    BY <1>1 DEF Designs
  <2>3. Chain(m, id, 0) BY DEF Grown
  <2>4. m.delayed[id] = v
    <3>1. m.delayed[id] \in Seq(Nat) BY <1>1 DEF Designs
    <3>2. Len(m.delayed[id]) = 1 /\ m.delayed[id][1] = id BY <2>3 DEF Chain
    <3> QED BY <3>1, <3>2
  <2> HIDE DEF b, v
  <2>5. b.regs = m.regs /\ b.delayed = m.delayed /\ b.valid = v BY <2>1, <2>2
  <2> DEFINE c == Chained(b)
  <2>6. c \in Designs /\ c.regs = b.regs /\ c.delayed = [b.delayed EXCEPT ![id] = b.valid]
    BY <2>1, ChainedFields
  <2> HIDE DEF c
  <2>7. c.regs = m.regs /\ c.delayed = m.delayed BY <1>1, <2>4, <2>5, <2>6 DEF Designs
  <2>8. [len EXCEPT ![id] = 0] = len BY <1>1
  <2>9. Grown(c, len)
    <3>1. \A i \in DOMAIN len : Chain(c, i, len[i])
      <4> TAKE i \in DOMAIN len
      <4>1. Chain(m, i, len[i]) BY DEF Grown
      <4> QED BY <2>7, <4>1 DEF Chain, Link
    <3>2. \A x \in 1..Len(c.regs) :
            c.regs[x].node = prog.n + x /\ c.regs[x].enable = NoNode /\ Owned(c, len, x)
      <4> TAKE x \in 1..Len(c.regs)
      <4>1. m.regs[x].node = prog.n + x /\ m.regs[x].enable = NoNode /\ Owned(m, len, x)
        BY <2>7 DEF Grown
      <4> QED BY <2>7, <4>1 DEF Owned
    <3> QED BY <1>1, <2>6, <3>1, <3>2 DEF Grown
  <2>10. Good(0) BY <2>8, <2>9 DEF c, b
  <2> HIDE DEF Good
  <2> QED BY <2>10
<1>3. ASSUME NEW k \in Nat, k \in T PROVE k + 1 \in T
  <2> HIDE DEF Good
  <2> SUFFICES ASSUME k + 1 <= n PROVE Good(k + 1)
    OBVIOUS
  <2>1. Good(k)
    <3>1. k <= n BY <1>1
    <3> QED BY <1>3, <3>1
  <2> DEFINE x == k + 1
             w == [len EXCEPT ![id] = k]
             a == run[k]
  <2>2. x \in 1..n /\ x - 1 = k /\ x \in Nat /\ k \in 0..n BY <1>1
  <2>3. Grown(Chained(a), w) BY <2>1 DEF Good
  <2>4. id \in DOMAIN w /\ w[id] = k /\ [w EXCEPT ![id] = x] = [len EXCEPT ![id] = x]
    OBVIOUS
  <2>5. x = stages[id] + w[id] + 1 BY <1>1, <2>4
  <2>6. a \in Designs /\ a.valid # <<>> BY <2>2 DEF ValidRun
  <2> HIDE DEF x, w
  <2>7. run[x] = Lengthened(a, x) BY <2>2 DEF ValidRun
  <2> HIDE DEF a
  <2>8. Chained(run[x]) = Extended(Chained(a), id, x) BY <2>2, <2>6, <2>7, ValidStep
  <2>9. Grown(Extended(Chained(a), id, x), [w EXCEPT ![id] = w[id] + 1])
    <3> DEFINE c == Chained(a)
    <3>1. Grown(c, w) /\ id \in DOMAIN w /\ x \in Nat /\ x = stages[id] + w[id] + 1
      BY <2>2, <2>3, <2>4, <2>5
    <3> HIDE DEF c, id
    <3>2. Grown(Extended(c, id, x), [w EXCEPT ![id] = w[id] + 1]) BY <3>1, ExtendGrows
    <3> QED BY <3>2 DEF c
  <2>10. w[id] + 1 = x BY <2>4 DEF x
  <2>11. Grown(Chained(run[x]), [len EXCEPT ![id] = x]) BY <2>4, <2>8, <2>9, <2>10
  <2> QED BY <2>11 DEF Good, x
<1> HIDE DEF T
<1>4. n \in T BY <1>1, <1>2, <1>3, InductiveSet
<1>5. Good(n)
  <2> HIDE DEF Good
  <2> QED BY <1>1, <1>4 DEF T
<1> QED BY <1>5

-----------------------------------------------------------------------------
(* The complete design *)

Lengths == Kept(g, last, stages)

Typed(m) ==
  m.regs \in Seq(Register) /\ m.delayed \in [Signals(prog) -> Seq(Nat)] /\ m.valid \in Seq(Nat)

EnableOf(m, r) == IF prog.vin = NoNode \/ r.is_valid THEN NoNode ELSE m.valid[r.stage]

\* Every signal that is no constant has a chain up to its last use, every
\* register is in one of them, and the valid chain gates the data registers.
Complete(m) ==
  /\ Typed(m)
  /\ \A id \in Registered(g) : Chain(m, id, Lengths[id])
  /\ \A x \in 1..Len(m.regs) :
       /\ m.regs[x].node = prog.n + x
       /\ m.regs[x].enable = EnableOf(m, m.regs[x])
       /\ Owned(m, Lengths, x)
  /\ m.valid = IF prog.vin = NoNode THEN <<>> ELSE m.delayed[prog.vin]

\* The facts about a signal with a chain.
LEMMA RegisteredFacts ==
  ASSUME Ready, NEW id \in Registered(g)
  PROVE  /\ id \in g.live /\ id \in Signals(prog) /\ id \in Nat /\ id \notin g.const
         /\ stages[id] \in Nat /\ Lengths[id] \in Nat /\ last \in Nat
         /\ stages[id] + Lengths[id] = LastUse(g, last, stages, id)
         /\ stages[id] + Lengths[id] <= last
         /\ DOMAIN Lengths = Registered(g)
<1>1. SoundGraph(g) /\ g.p = prog /\ last \in Nat /\ stages \in [Signals(prog) -> Nat]
      /\ LegalStages(g, last, stages)
  BY DEF Ready
<1>2. id \in g.live /\ id \in Signals(prog) /\ id \notin g.const
  BY <1>1, OrderIsFinite DEF Registered
<1>3. id \in Nat
  <2>1. Signals(prog) \subseteq Nat BY <1>1, SignalsAreFinite DEF SoundGraph
  <2> QED BY <1>2, <2>1
<1>4. LastUse(g, last, stages, id) \in stages[id]..last BY <1>1, KeptIsNat
<1>5. Lengths[id] = LastUse(g, last, stages, id) - stages[id] /\ DOMAIN Lengths = Registered(g)
  BY DEF Lengths, Kept
<1>6. stages[id] \in Nat BY <1>1, <1>2
<1> QED BY <1>1, <1>2, <1>3, <1>4, <1>5, <1>6

\* The valid input stands in stage 0 and is kept to the last stage.
LEMMA ValidInputFacts ==
  ASSUME Ready, prog.vin # NoNode
  PROVE  /\ prog.vin \in Registered(g) /\ prog.vin \in g.live /\ prog.vin \in Signals(prog)
         /\ stages[prog.vin] = 0 /\ Lengths[prog.vin] = last
         /\ prog.vout \in g.live /\ prog.vout \in prog.out
<1>1. SoundGraph(g) /\ g.p = prog /\ last \in Nat /\ LegalStages(g, last, stages)
  BY DEF Ready
<1>2. prog.vin \in g.input /\ prog.vin \in g.live /\ prog.vin \notin g.const
      /\ prog.vout \in g.live /\ prog.vout \in prog.out
  BY <1>1 DEF SoundGraph, WellFormed
<1>3. prog.vin \in Registered(g) BY <1>2 DEF Registered
<1>4. stages[prog.vin] = 0 BY <1>1, <1>2 DEF LegalStages
<1>5. LastUse(g, last, stages, prog.vin) = last BY <1>1 DEF LastUse
<1>6. Lengths[prog.vin] = last BY <1>1, <1>3, <1>4, <1>5 DEF Lengths, Kept
<1> QED BY <1>2, <1>3, <1>4, <1>6, RegisteredFacts

\* A register stands in one of the stages 1 to last.
LEMMA OwnedStage ==
  ASSUME Ready, NEW m, NEW len, Grown(m, len),
         \A id \in DOMAIN len : stages[id] + len[id] <= last,
         NEW x \in 1..Len(m.regs)
  PROVE  m.regs[x].stage \in 1..last
<1>1. /\ len \in [DOMAIN len -> Nat] /\ DOMAIN len \subseteq Signals(prog)
      /\ stages \in [Signals(prog) -> Nat] /\ last \in Nat /\ prog.n \in Nat
  BY SignalsAreFinite DEF Ready, SoundGraph, Grown
<1>2. PICK id \in DOMAIN len : \E j \in 1..len[id] : m.delayed[id][j + 1] = prog.n + x
  BY DEF Grown, Owned
<1>3. PICK j \in 1..len[id] : m.delayed[id][j + 1] = prog.n + x BY <1>2
<1>4. Link(m, id, j) BY DEF Grown, Chain
<1>5. m.delayed[id][j + 1] - prog.n = x BY <1>1, <1>3
<1>6. m.regs[x].stage = stages[id] + j BY <1>4, <1>5 DEF Link
<1>7. stages[id] \in Nat /\ len[id] \in Nat /\ stages[id] + len[id] <= last BY <1>1
<1> QED BY <1>1, <1>6, <1>7

\* The lengths after the data chains: those of evaluate, except that the valid
\* input has no chain yet.
DataLengths == [id \in g.live |-> ChainLength(id)]

\* Only the valid input has another length than its last use asks for.
LEMMA DataLengthsAre ==
  ASSUME Ready
  PROVE  /\ DOMAIN DataLengths = g.live /\ Registered(g) \subseteq g.live
         /\ \A id \in Registered(g) : id # prog.vin => DataLengths[id] = Lengths[id]
         /\ \A id \in g.live : id \notin Registered(g) => DataLengths[id] = 0
         /\ prog.vin \in g.live => DataLengths[prog.vin] = 0
BY LiveIsChainable DEF DataLengths, Lengths, Registered

\* Without a valid port the data chains are the design.
LEMMA WithoutValid ==
  ASSUME Ready, prog.vin = NoNode
  PROVE  Complete(ValidChain(DataChains)) /\ ValidChain(DataChains) \in Designs
<1> DEFINE m == DataChains
<1>1. Grown(m, DataLengths) /\ m.valid = <<>> /\ ValidChain(m) = m
  BY DataChainsGrow DEF DataLengths, ValidChain
<1> HIDE DEF m
<1>2. m \in Designs BY <1>1 DEF Grown
<1>3. ASSUME NEW id \in Registered(g) PROVE Chain(m, id, Lengths[id])
  <2>1. id # prog.vin BY RegisteredFacts DEF NoNode, Signals
  <2>2. id \in DOMAIN DataLengths /\ DataLengths[id] = Lengths[id] BY <2>1, DataLengthsAre
  <2> QED BY <1>1, <2>2 DEF Grown
<1>4. ASSUME NEW x \in 1..Len(m.regs)
      PROVE  /\ m.regs[x].node = prog.n + x /\ m.regs[x].enable = EnableOf(m, m.regs[x])
             /\ Owned(m, Lengths, x)
  <2>1. m.regs[x].node = prog.n + x /\ m.regs[x].enable = NoNode /\ Owned(m, DataLengths, x)
    BY <1>1 DEF Grown
  <2>2. PICK id \in DOMAIN DataLengths : \E j \in 1..DataLengths[id] :
               m.delayed[id][j + 1] = prog.n + x
    BY <2>1 DEF Owned
  <2>3. DataLengths[id] # 0
    <3>1. 1..0 = {} OBVIOUS
    <3> QED BY <2>2, <3>1
  <2>4. id \in Registered(g) BY <2>3, DataLengthsAre
  <2>5. id # prog.vin BY <2>4, RegisteredFacts DEF NoNode, Signals
  <2>6. id \in DOMAIN Lengths /\ DataLengths[id] = Lengths[id]
    BY <2>4, <2>5, DataLengthsAre, RegisteredFacts
  <2>7. Owned(m, Lengths, x) BY <2>2, <2>6 DEF Owned
  <2> QED BY <2>1, <2>7 DEF EnableOf
<1>a. Typed(m) BY <1>2 DEF Typed, Designs
<1>5. Complete(m) BY <1>1, <1>a, <1>3, <1>4 DEF Complete
<1> QED BY <1>1, <1>2, <1>5 DEF m

\* A function on an initial interval is a sequence.
LEMMA TableIsSeq ==
  ASSUME NEW S, NEW n \in Nat, NEW f \in [1..n -> S]
  PROVE  Len(f) = n /\ f \in Seq(S)
OBVIOUS

\* With a valid port its chain is added and gates the data registers.
LEMMA WithValid ==
  ASSUME Ready, prog.vin # NoNode
  PROVE  Complete(ValidChain(DataChains)) /\ ValidChain(DataChains) \in Designs
<1> DEFINE d == DataChains
           vin == prog.vin
           len == DataLengths
           lon == [len EXCEPT ![vin] = last]
           m == ValidChain(d)
<1>1. Grown(d, len) /\ d \in Designs BY DataChainsGrow DEF DataLengths, Grown
<1>2. /\ vin \in Registered(g) /\ vin \in g.live /\ vin \in Signals(prog)
      /\ stages[vin] = 0 /\ Lengths[vin] = last /\ last \in Nat
  BY ValidInputFacts DEF Ready
<1>3. vin \in DOMAIN len /\ len[vin] = 0 BY <1>2, DataLengthsAre
<1> HIDE DEF d, len
<1>4. PICK run : ValidRun(d, run) BY <1>1, <1>2, ValidChainRuns
<1> DEFINE full == run[last]
           c == Chained(full)
<1>5. Grown(c, lon) BY <1>1, <1>2, <1>3, <1>4, ValidChainGrows
<1>6. full \in Designs
  <2>1. last \in 0..last BY <1>2
  <2> QED BY <1>4, <2>1 DEF ValidRun
<1>7. m = [[full EXCEPT !.delayed[vin] = full.valid] EXCEPT
              !.regs = [i \in DOMAIN full.regs |-> Gated(full, full.regs[i])]]
  <2>1. full = [regs |-> full.regs, delayed |-> full.delayed, valid |-> full.valid,
                drv |-> full.drv]
    BY <1>6 DEF Designs
  <2>2. m = [full EXCEPT !.delayed[vin] = full.valid,
                         !.regs = [i \in DOMAIN @ |-> Gated(full, @[i])]]
    BY <1>4 DEF ValidRun
  <2> HIDE DEF full, m
  <2> QED BY <2>1, <2>2
<1> HIDE DEF m, full
<1>8. /\ c \in Designs /\ c.regs = full.regs /\ c.delayed[vin] = full.valid
      /\ c.delayed = [full.delayed EXCEPT ![vin] = full.valid]
  BY <1>2, <1>6, ChainedFields
<1> HIDE DEF c
<1>9. /\ m.delayed = c.delayed /\ m.valid = full.valid /\ m.drv = full.drv
      /\ m.regs = [i \in DOMAIN c.regs |-> Gated(full, c.regs[i])]
      /\ m = [regs |-> m.regs, delayed |-> m.delayed, valid |-> m.valid, drv |-> m.drv]
  <2> DEFINE dd == [full.delayed EXCEPT ![vin] = full.valid]
             rr == [i \in DOMAIN full.regs |-> Gated(full, full.regs[i])]
  <2>1. full = [regs |-> full.regs, delayed |-> full.delayed, valid |-> full.valid,
                drv |-> full.drv]
    BY <1>6 DEF Designs
  <2>2. m = [[full EXCEPT !.delayed = dd] EXCEPT !.regs = rr] BY <1>7
  <2>3. c.delayed = dd /\ rr = [i \in DOMAIN c.regs |-> Gated(full, c.regs[i])] BY <1>8
  <2> HIDE DEF dd, rr
  <2>4. m = [regs |-> rr, delayed |-> dd, valid |-> full.valid, drv |-> full.drv]
    BY <2>1, <2>2
  <2> QED BY <2>3, <2>4
<1>10. /\ lon \in [DOMAIN lon -> Nat] /\ DOMAIN lon = g.live
       /\ \A id \in Registered(g) : lon[id] = Lengths[id]
       /\ \A id \in g.live : id \notin Registered(g) => lon[id] = 0
  <2>1. DOMAIN len = g.live BY DataLengthsAre DEF len
  <2>2. \A id \in Registered(g) : id \in g.live /\ (id # vin => len[id] = Lengths[id])
    BY DataLengthsAre DEF len
  <2>3. \A id \in g.live : id \notin Registered(g) => len[id] = 0 BY DataLengthsAre DEF len
  <2> QED BY <1>2, <1>5, <2>1, <2>2, <2>3 DEF Grown
<1>11. \A id \in DOMAIN lon : stages[id] + lon[id] <= last
  <2> TAKE id \in DOMAIN lon
  <2>1. CASE id \in Registered(g) BY <1>10, <2>1, RegisteredFacts
  <2>2. CASE id \notin Registered(g)
    <3>1. id \in g.live /\ lon[id] = 0 BY <1>10, <2>2
    <3>2. stages[id] \in 0..last BY <3>1 DEF Ready, LegalStages
    <3> QED BY <1>2, <3>1, <3>2
  <2> QED BY <2>1, <2>2
<1> HIDE DEF lon
<1>12. Len(full.valid) = last + 1 /\ full.valid \in Seq(Nat)
  <2>1. vin \in DOMAIN lon /\ lon[vin] = last BY <1>2, <1>10
  <2>2. Chain(c, vin, last) BY <1>5, <2>1 DEF Grown
  <2> QED BY <1>6, <1>8, <2>2 DEF Chain, Designs
<1>13. DOMAIN c.regs = 1..Len(c.regs) /\ Len(c.regs) \in Nat /\ c.regs \in Seq(Register)
  BY <1>8 DEF Designs
<1>14. ASSUME NEW x \in 1..Len(c.regs)
       PROVE  /\ m.regs[x] \in Register
              /\ m.regs[x].node = c.regs[x].node /\ m.regs[x].source = c.regs[x].source
              /\ m.regs[x].stage = c.regs[x].stage
              /\ (m.regs[x].is_valid <=> c.regs[x].is_valid)
              /\ m.regs[x].enable = EnableOf(m, m.regs[x])
  <2> DEFINE r == c.regs[x]
  <2>1. m.regs[x] = Gated(full, r) BY <1>9, <1>13
  <2>2. r \in Register BY <1>13
  <2>3. r.stage \in 1..last BY <1>5, <1>11, OwnedStage
  <2>4. full.valid[r.stage] \in Nat
    <3>1. r.stage \in 1..(last + 1) BY <1>2, <2>3
    <3> QED BY <1>12, <3>1
  <2>5. r.enable = NoNode BY <1>5 DEF Grown
  <2> HIDE DEF r
  <2>6. CASE r.is_valid
    <3>1. m.regs[x] = r BY <2>1, <2>6 DEF Gated
    <3> QED BY <2>2, <2>5, <2>6, <3>1 DEF EnableOf, r
  <2>7. CASE ~r.is_valid
    <3> DEFINE e == full.valid[r.stage]
               q == m.regs[x]
    <3>1. q = [r EXCEPT !.enable = e] BY <2>1, <2>7 DEF Gated
    <3>2. r = [node |-> r.node, source |-> r.source, stage |-> r.stage, enable |-> r.enable,
               is_valid |-> r.is_valid]
      BY <2>2 DEF Register
    <3>3. e = m.valid[r.stage] /\ e \in Nat BY <1>9, <2>4
    <3> HIDE DEF e, q
    <3>4. q = [node |-> r.node, source |-> r.source, stage |-> r.stage, enable |-> e,
               is_valid |-> r.is_valid]
      BY <3>1, <3>2
    <3>5. q \in Register BY <2>2, <3>3, <3>4 DEF Register
    <3>6. q.node = r.node /\ q.source = r.source /\ q.stage = r.stage /\ q.enable = e
          /\ (q.is_valid <=> r.is_valid)
      BY <3>4
    <3>7. q.enable = EnableOf(m, q) BY <2>7, <3>3, <3>6 DEF EnableOf
    <3> QED BY <3>5, <3>6, <3>7 DEF q, r
  <2> QED BY <2>6, <2>7
<1>15. Len(m.regs) = Len(c.regs) /\ m.regs \in Seq(Register)
  <2> DEFINE N == Len(c.regs)
             q == m.regs
  <2>1. q = [i \in 1..N |-> q[i]] BY <1>9, <1>13
  <2>2. N \in Nat /\ \A i \in 1..N : q[i] \in Register BY <1>13, <1>14
  <2> HIDE DEF N, q
  <2>3. q \in [1..N -> Register] BY <2>1, <2>2
  <2>4. Len(q) = N /\ q \in Seq(Register) BY <2>2, <2>3, TableIsSeq
  <2> QED BY <2>4 DEF N, q
<1>16. m \in Designs BY <1>6, <1>8, <1>9, <1>12, <1>15 DEF Designs
<1>17. ASSUME NEW id \in Registered(g) PROVE Chain(m, id, Lengths[id])
  <2>1. id \in DOMAIN lon /\ lon[id] = Lengths[id] BY <1>10, RegisteredFacts
  <2>2. Chain(c, id, Lengths[id]) BY <1>5, <2>1 DEF Grown
  <2>3. \A j \in 1..Lengths[id] : Link(m, id, j)
    <3> TAKE j \in 1..Lengths[id]
    <3>1. Link(c, id, j) BY <2>2 DEF Chain
    <3> QED BY <1>9, <1>14, <1>15, <3>1 DEF Link
  <2> QED BY <1>9, <2>2, <2>3 DEF Chain
<1>18. ASSUME NEW x \in 1..Len(m.regs)
       PROVE  /\ m.regs[x].node = prog.n + x /\ m.regs[x].enable = EnableOf(m, m.regs[x])
              /\ Owned(m, Lengths, x)
  <2>1. c.regs[x].node = prog.n + x /\ Owned(c, lon, x) BY <1>5, <1>15 DEF Grown
  <2>2. PICK id \in DOMAIN lon : \E j \in 1..lon[id] : c.delayed[id][j + 1] = prog.n + x
    BY <2>1 DEF Owned
  <2>3. lon[id] # 0
    <3>1. 1..0 = {} OBVIOUS
    <3> QED BY <2>2, <3>1
  <2>4. id \in Registered(g) BY <1>10, <2>3
  <2>5. id \in DOMAIN Lengths /\ lon[id] = Lengths[id] BY <1>10, <2>4, RegisteredFacts
  <2>6. Owned(m, Lengths, x) BY <1>9, <2>2, <2>5 DEF Owned
  <2> QED BY <1>14, <1>15, <2>1, <2>6
<1>19. m.valid = m.delayed[vin] BY <1>8, <1>9
<1>a. Typed(m) BY <1>16 DEF Typed, Designs
<1>20. Complete(m) BY <1>a, <1>17, <1>18, <1>19 DEF Complete
<1> QED BY <1>16, <1>20 DEF m, d

\* Materialisation builds a complete design: one chain per signal, as long as
\* its last use, nothing else, and the registers gated by the stage before.
LEMMA ChainsAreComplete ==
  ASSUME Ready
  PROVE  Complete(ValidChain(DataChains)) /\ ValidChain(DataChains) \in Designs
BY WithoutValid, WithValid

-----------------------------------------------------------------------------
(* Where the registers stand *)

\* The j-th signal of a chain, the signal itself at j = 0.
At(m, id, j) == m.delayed[id][j + 1]

\* The signals of the design: those of the program and the registers.
Wires(m) == 1..(prog.n + Len(m.regs))

\* The signals of a chain are different wires of the design.
LEMMA ChainFacts ==
  ASSUME Ready, NEW m, Complete(m), NEW id \in Registered(g), NEW j \in 0..Lengths[id]
  PROVE  /\ At(m, id, j) \in Wires(m) /\ At(m, id, j) \in Nat
         /\ j = 0 => At(m, id, j) = id
         /\ j > 0 => /\ Link(m, id, j) /\ At(m, id, j) - prog.n \in 1..Len(m.regs)
                     /\ At(m, id, j - 1) < At(m, id, j)
                     /\ m.regs[At(m, id, j) - prog.n].source = At(m, id, j - 1)
                     /\ m.regs[At(m, id, j) - prog.n].stage = stages[id] + j
                     /\ (m.regs[At(m, id, j) - prog.n].is_valid <=> id = prog.vin)
<1>1. id \in Signals(prog) /\ Lengths[id] \in Nat /\ j \in Nat /\ id \in Nat
  BY RegisteredFacts
<1>2. prog.n \in Nat /\ Len(m.regs) \in Nat
  BY SignalsAreFinite DEF Ready, SoundGraph, Complete, Typed
<1>3. Chain(m, id, Lengths[id]) BY DEF Complete
<1>4. CASE j = 0
  <2>1. At(m, id, j) = id
    <3>1. j + 1 = 1 BY <1>4
    <3> QED BY <1>3, <3>1 DEF At, Chain
  <2>2. id \in 1..prog.n BY <1>1 DEF Signals
  <2>3. id \in Wires(m) BY <1>2, <2>2 DEF Wires
  <2> QED BY <1>1, <1>4, <2>1, <2>3
<1>5. CASE j > 0
  <2>1. j \in 1..Lengths[id] BY <1>1, <1>5
  <2>2. Link(m, id, j) BY <1>3, <2>1 DEF Chain
  <2> DEFINE a == At(m, id, j)
             x == a - prog.n
  <2>3. At(m, id, j - 1) = m.delayed[id][j]
    <3>1. (j - 1) + 1 = j BY <1>1
    <3> QED BY <3>1 DEF At
  <2>4. /\ x \in 1..Len(m.regs) /\ m.delayed[id][j] < a
        /\ m.regs[x].source = m.delayed[id][j] /\ m.regs[x].stage = stages[id] + j
        /\ (m.regs[x].is_valid <=> id = prog.vin)
    BY <2>2 DEF Link, At
  <2>5. a \in Nat
    <3>1. j + 1 \in 1..Len(m.delayed[id]) BY <1>1, <1>3, <2>1 DEF Chain
    <3>2. m.delayed[id] \in Seq(Nat) BY <1>1 DEF Complete, Typed
    <3> QED BY <3>1, <3>2 DEF At
  <2>6. a \in Wires(m)
    <3>1. x \in 1..Len(m.regs) BY <2>4
    <3> HIDE DEF a
    <3> QED BY <1>2, <2>5, <3>1 DEF Wires
  <2> QED BY <1>5, <2>2, <2>3, <2>4, <2>5, <2>6
<1> QED BY <1>1, <1>4, <1>5

\* Every register is one of a chain.
LEMMA RegisterFacts ==
  ASSUME Ready, NEW m, Complete(m), NEW x \in 1..Len(m.regs)
  PROVE  /\ m.regs[x].node = prog.n + x /\ m.regs[x] \in Register
         /\ m.regs[x].enable = EnableOf(m, m.regs[x])
         /\ \E id \in Registered(g) : \E j \in 1..Lengths[id] :
              At(m, id, j) = prog.n + x /\ At(m, id, j) - prog.n = x
<1>1. /\ m.regs[x].node = prog.n + x /\ m.regs[x].enable = EnableOf(m, m.regs[x])
      /\ Owned(m, Lengths, x) /\ m.regs \in Seq(Register)
  BY DEF Complete, Typed
<1>2. DOMAIN Lengths = Registered(g) BY DEF Lengths, Kept
<1>3. PICK id \in Registered(g) : \E j \in 1..Lengths[id] : m.delayed[id][j + 1] = prog.n + x
  BY <1>1, <1>2 DEF Owned
<1>4. PICK j \in 1..Lengths[id] : m.delayed[id][j + 1] = prog.n + x BY <1>3
<1>5. At(m, id, j) = prog.n + x BY <1>4 DEF At
<1>6. prog.n \in Nat /\ x \in Nat BY SignalsAreFinite DEF Ready, SoundGraph
<1>7. (prog.n + x) - prog.n = x BY <1>6
<1>8. m.regs[x] \in Register BY <1>1
<1> QED BY <1>1, <1>5, <1>7, <1>8

Places == [stage : Int, origin : Nat]
Original ==
  [id \in Wires(mat) |-> IF id \in g.live THEN [stage |-> stages[id], origin |-> id]
                         ELSE [stage |-> -1, origin |-> NoNode]]
PlaceStep(acc, r) ==
  [acc EXCEPT ![r.node] = [stage |-> r.stage, origin |-> acc[r.source].origin]]

PlaceRun(run) ==
  /\ run[0] = Original
  /\ \A k \in 0..Len(mat.regs) : run[k] \in [Wires(mat) -> Places]
  /\ \A k \in 1..Len(mat.regs) : run[k] = PlaceStep(run[k - 1], mat.regs[k])
  /\ Placement = run[Len(mat.regs)]

\* The placement of the registers runs in the order they were added.
LEMMA PlacementRuns ==
  ASSUME Ready, Complete(mat)
  PROVE  \E run : PlaceRun(run)
<1> DEFINE seq == mat.regs
           n == Len(seq)
           A == [Wires(mat) -> Places]
           base == [id \in 1..(prog.n + Len(mat.regs)) |->
                      IF id \in g.live THEN [stage |-> stages[id], origin |-> id]
                      ELSE [stage |-> -1, origin |-> NoNode]]
           op(acc, r) == [acc EXCEPT ![r.node] =
                            [stage |-> r.stage, origin |-> acc[r.source].origin]]
           body(f) == [s \in SUBSET DOMAIN seq |->
                         IF s = {} THEN base ELSE op(f[s \ {Max(s)}], seq[Max(s)])]
           it == CHOOSE f : f = body(f)
           F == [k \in 1..n |-> [a \in A |-> op(a, seq[k])]]
           fin == it[DOMAIN seq]
<1>1. Placement = fin
  BY DEF Placement, FoldLeft, MapThenFoldSet
<1>2. n \in Nat /\ DOMAIN seq = 1..n /\ n = Len(mat.regs)
  BY DEF Complete, Typed
<1> HIDE DEF n
<1>3. base \in A
  <2>1. base = Original BY DEF Original, Wires
  <2>2. ASSUME NEW id \in Wires(mat) PROVE Original[id] \in Places
    <3>1. CASE id \in g.live
      <4>1. id \in Signals(prog) /\ stages[id] \in Nat BY <3>1, OrderIsFinite DEF Ready
      <4>2. id \in Nat
        <5>1. Signals(prog) \subseteq Nat BY SignalsAreFinite DEF Ready, SoundGraph
        <5> QED BY <4>1, <5>1
      <4>3. Original[id] = [stage |-> stages[id], origin |-> id] BY <3>1 DEF Original
      <4> QED BY <4>1, <4>2, <4>3 DEF Places
    <3>2. CASE id \notin g.live
      <4>1. Original[id] = [stage |-> -1, origin |-> NoNode] BY <3>2 DEF Original
      <4> QED BY <4>1 DEF Places, NoNode
    <3> QED BY <3>1, <3>2
  <2>3. Original \in [Wires(mat) -> Places]
    <3>1. Original = [id \in Wires(mat) |-> Original[id]] BY DEF Original
    <3> QED BY <2>2, <3>1
  <2> QED BY <2>1, <2>3
<1>4. ASSUME NEW k \in 1..n, NEW a \in A
      PROVE  op(a, seq[k]) \in A /\ op(a, seq[k]) = PlaceStep(a, mat.regs[k])
  <2> DEFINE r == mat.regs[k]
  <2>1. r.node = prog.n + k /\ r \in Register BY <1>2, RegisterFacts
  <2>2. PICK id \in Registered(g) : \E j \in 1..Lengths[id] :
          At(mat, id, j) = prog.n + k /\ At(mat, id, j) - prog.n = k
    BY <1>2, RegisterFacts
  <2>3. PICK j \in 1..Lengths[id] : At(mat, id, j) - prog.n = k BY <2>2
  <2>4. Lengths[id] \in Nat BY RegisteredFacts
  <2>5. j \in 0..Lengths[id] /\ j > 0 /\ j - 1 \in 0..Lengths[id] BY <2>4
  <2>6. r.source = At(mat, id, j - 1) BY <2>3, <2>5, ChainFacts
  <2>7. r.source \in Wires(mat) BY <2>5, <2>6, ChainFacts
  <2> DEFINE p == [stage |-> r.stage, origin |-> a[r.source].origin]
  <2>8. p \in Places
    <3>1. a[r.source] \in Places BY <2>7 DEF A
    <3>2. a[r.source].origin \in Nat BY <3>1 DEF Places
    <3>3. r.stage \in Int BY <2>1 DEF Register
    <3> HIDE DEF r
    <3> QED BY <3>2, <3>3 DEF Places
  <2>9. op(a, seq[k]) = [a EXCEPT ![r.node] = p] BY DEF seq
  <2>10. op(a, seq[k]) = PlaceStep(a, mat.regs[k]) BY DEF PlaceStep
  <2> HIDE DEF op, p, r
  <2> QED BY <2>8, <2>9, <2>10
<1> HIDE DEF op, A, base, seq
<1>5. F \in [1..n -> [A -> A]] BY <1>4
<1>6. \A k \in 1..n : \A a \in A : F[k][a] = op(a, seq[k]) OBVIOUS
<1> HIDE DEF F
<1>7. PICK f : Folds(f, F, base, n, A)
  BY <1>2, <1>3, <1>5, FoldEquation
<1>8. f = body(f)
  <2>1. f = [s \in SUBSET (1..n) |-> f[s]] /\ f[{}] = base BY <1>7 DEF Folds
  <2>2. ASSUME NEW s \in SUBSET (1..n), s # {}
        PROVE  f[s] = op(f[s \ {Max(s)}], seq[Max(s)])
    <3>1. /\ Max(s) \in 1..n /\ f[s \ {Max(s)}] \in A
          /\ f[s] = F[Max(s)][f[s \ {Max(s)}]]
      BY <1>7, <2>2 DEF Folds
    <3> QED BY <1>6, <3>1
  <2>3. f = [s \in SUBSET (1..n) |->
               IF s = {} THEN base ELSE op(f[s \ {Max(s)}], seq[Max(s)])]
    BY <2>1, <2>2
  <2> QED BY <1>2, <2>3
<1>9. it = body(it) BY <1>8
<1> HIDE DEF it
<1>10. \A s \in SUBSET (1..n) :
         it[s] = IF s = {} THEN base ELSE op(it[s \ {Max(s)}], seq[Max(s)])
  BY <1>2, <1>9
<1> HIDE DEF body
<1>11. Unfolds(it, F, base, n, A)
  <2>1. it[{}] = base
    <3>1. {} \in SUBSET (1..n) OBVIOUS
    <3> QED BY <1>10, <3>1
  <2>2. ASSUME NEW s \in SUBSET (1..n), s # {}, it[s \ {Max(s)}] \in A
        PROVE  it[s] = F[Max(s)][it[s \ {Max(s)}]]
    <3>1. Max(s) \in 1..n BY <1>2, <2>2, MaxOfPositions
    <3>2. it[s] = op(it[s \ {Max(s)}], seq[Max(s)]) BY <1>10, <2>2
    <3> QED BY <1>6, <2>2, <3>1, <3>2
  <2> QED BY <2>1, <2>2 DEF Unfolds
<1>12. /\ it[1..0] = base
       /\ \A k \in 0..n : it[1..k] \in A
       /\ \A k \in 1..n : it[1..k] = F[k][it[1..(k - 1)]]
  <2>1. n \in Nat /\ base \in A /\ F \in [1..n -> [A -> A]] /\ Unfolds(it, F, base, n, A)
    BY <1>2, <1>3, <1>5, <1>11
  <2> HIDE DEF n
  <2> QED BY <2>1, FoldRuns
<1> DEFINE run == [k \in 0..n |-> it[1..k]]
<1>13. run[0] = base BY <1>2, <1>12
<1>14. ASSUME NEW k \in 1..n PROVE run[k] = PlaceStep(run[k - 1], mat.regs[k])
  <2>1. k \in 0..n /\ k - 1 \in 0..n BY <1>2
  <2>2. it[1..(k - 1)] \in A BY <1>12, <2>1
  <2>3. run[k] = op(it[1..(k - 1)], seq[k]) BY <1>6, <1>12, <2>1, <2>2
  <2> QED BY <1>4, <2>1, <2>2, <2>3
<1>15. fin = run[n] BY <1>2
<1>16. \A k \in 0..n : run[k] \in [Wires(mat) -> Places] BY <1>12 DEF A
<1> HIDE DEF run, fin
<1>17. base = Original BY DEF base, Original, Wires
<1>18. PlaceRun(run) BY <1>1, <1>2, <1>13, <1>14, <1>15, <1>16, <1>17 DEF PlaceRun
<1> QED BY <1>18

PlaceOf(id, j) == [stage |-> stages[id] + j, origin |-> id]

\* The program's signals stand at their stages, the registers of a chain at
\* the stages after them.
LEMMA PlacementIs ==
  ASSUME Ready, Complete(mat)
  PROVE  /\ \A id \in Registered(g) : \A j \in 0..Lengths[id] :
              Placement[At(mat, id, j)] = PlaceOf(id, j)
         /\ \A id \in g.live : Placement[id] = PlaceOf(id, 0)
<1> DEFINE n == Len(mat.regs)
<1>1. n \in Nat /\ prog.n \in Nat
  BY SignalsAreFinite DEF Ready, SoundGraph, Complete, Typed
<1>2. PICK run : PlaceRun(run) BY PlacementRuns
<1>3. \A id \in g.live : /\ id \in Wires(mat) /\ id <= prog.n /\ id \in Nat
                         /\ Original[id] = PlaceOf(id, 0)
  <2> TAKE id \in g.live
  <2>1. id \in 1..prog.n /\ stages[id] \in Nat BY OrderIsFinite DEF Ready, Signals
  <2>2. id \in Wires(mat) BY <1>1, <2>1 DEF Wires
  <2>3. stages[id] + 0 = stages[id] BY <2>1
  <2> QED BY <2>1, <2>2, <2>3 DEF Original, PlaceOf
<1> DEFINE Good(k) ==
             /\ \A id \in g.live : run[k][id] = PlaceOf(id, 0)
             /\ \A id \in Registered(g) : \A j \in 0..Lengths[id] :
                  At(mat, id, j) <= prog.n + k => run[k][At(mat, id, j)] = PlaceOf(id, j)
           T == {k \in Nat : k <= n => Good(k)}
<1>4. 0 \in T
  <2>1. run[0] = Original BY <1>2 DEF PlaceRun
  <2>2. \A id \in g.live : run[0][id] = PlaceOf(id, 0) BY <1>3, <2>1
  <2>3. ASSUME NEW id \in Registered(g), NEW j \in 0..Lengths[id],
               At(mat, id, j) <= prog.n + 0
        PROVE  run[0][At(mat, id, j)] = PlaceOf(id, j)
    <3> DEFINE a == At(mat, id, j)
    <3>1. id \in g.live /\ Lengths[id] \in Nat BY RegisteredFacts
    <3>2. j = 0
      <4> SUFFICES ASSUME j > 0 PROVE FALSE
        BY <3>1
      <4>1. a - prog.n \in 1..n /\ a \in Nat BY ChainFacts
      <4> HIDE DEF a
      <4>2. a > prog.n BY <1>1, <4>1
      <4>3. a <= prog.n BY <1>1, <2>3 DEF a
      <4> QED BY <1>1, <4>1, <4>2, <4>3
    <3>3. a = id BY <3>2, ChainFacts
    <3> QED BY <2>2, <3>1, <3>2, <3>3
  <2>4. Good(0) BY <2>2, <2>3
  <2> HIDE DEF Good
  <2> QED BY <2>4
<1>5. ASSUME NEW k \in Nat, k \in T PROVE k + 1 \in T
  <2> HIDE DEF Good
  <2> SUFFICES ASSUME k + 1 <= n PROVE Good(k + 1)
    OBVIOUS
  <2>1. Good(k)
    <3>1. k <= n BY <1>1
    <3> QED BY <1>5, <3>1
  <2> DEFINE x == k + 1
             r == mat.regs[x]
             p == [stage |-> r.stage, origin |-> run[k][r.source].origin]
  <2>2. x \in 1..n /\ x - 1 = k /\ x \in Nat /\ k \in 0..n BY <1>1
  <2>3. run[x] = [run[k] EXCEPT ![prog.n + x] = p]
    <3>1. run[x] = PlaceStep(run[x - 1], mat.regs[x]) BY <1>2, <2>2 DEF PlaceRun
    <3>2. r.node = prog.n + x BY <2>2, RegisterFacts
    <3> QED BY <2>2, <3>1, <3>2 DEF PlaceStep
  <2>4. run[k] \in [Wires(mat) -> Places] BY <1>2, <2>2 DEF PlaceRun
  <2>5. prog.n + x \in Wires(mat) BY <1>1, <2>2 DEF Wires
  <2>6. run[x][prog.n + x] = p /\ \A w \in Wires(mat) : w # prog.n + x => run[x][w] = run[k][w]
    <3> HIDE DEF p, x
    <3> QED BY <2>3, <2>4, <2>5
  <2>a. x = k + 1 OBVIOUS
  <2> HIDE DEF x
  <2>7. \A id \in g.live : run[x][id] = PlaceOf(id, 0)
    <3> TAKE id \in g.live
    <3>1. id \in Wires(mat) /\ id # prog.n + x
      <4>1. id <= prog.n /\ id \in Nat /\ id \in Wires(mat) BY <1>3
      <4> QED BY <1>1, <2>2, <4>1
    <3>2. run[k][id] = PlaceOf(id, 0) BY <2>1 DEF Good
    <3> QED BY <2>6, <3>1, <3>2
  <2>8. ASSUME NEW id \in Registered(g), NEW j \in 0..Lengths[id],
               At(mat, id, j) <= prog.n + x
        PROVE  run[x][At(mat, id, j)] = PlaceOf(id, j)
    <3> DEFINE a == At(mat, id, j)
               b == At(mat, id, j - 1)
    <3>0. a \in Wires(mat) /\ a \in Nat BY ChainFacts
    <3>1. CASE a # prog.n + x
      <4>1. a <= prog.n + k
        <5> HIDE DEF a
        <5>1. a <= prog.n + x BY <2>8 DEF a
        <5> QED BY <1>1, <2>2, <2>a, <3>0, <3>1, <5>1
      <4>2. run[k][a] = PlaceOf(id, j) BY <2>1, <4>1 DEF Good
      <4> QED BY <2>6, <3>0, <3>1, <4>2
    <3>2. CASE a = prog.n + x
      <4>1. j > 0 /\ j - 1 \in 0..Lengths[id] /\ j \in Nat
        <5>1. Lengths[id] \in Nat /\ id \in g.live BY RegisteredFacts
        <5>2. j # 0
          <6> SUFFICES ASSUME j = 0 PROVE FALSE
            OBVIOUS
          <6>1. a = id BY ChainFacts
          <6>2. id <= prog.n /\ id \in Nat BY <1>3, <5>1
          <6> HIDE DEF a
          <6> QED BY <1>1, <2>2, <3>2, <6>1, <6>2
        <5> QED BY <5>1, <5>2
      <4>2. a - prog.n = x
        <5> HIDE DEF a
        <5> QED BY <1>1, <2>2, <3>2
      <4>3. b < a /\ r.source = b /\ r.stage = stages[id] + j BY <4>1, <4>2, ChainFacts
      <4>4. b \in Nat BY <4>1, ChainFacts
      <4>5. b <= prog.n + k
        <5> HIDE DEF a, b
        <5> QED BY <1>1, <2>2, <2>a, <3>0, <3>2, <4>3, <4>4
      <4>6. run[k][b] = PlaceOf(id, j - 1) BY <2>1, <4>1, <4>5 DEF Good
      <4>7. run[k][b].origin = id BY <4>6 DEF PlaceOf
      <4>8. p = PlaceOf(id, j)
        <5> HIDE DEF b
        <5> QED BY <4>3, <4>7 DEF PlaceOf
      <4> HIDE DEF a, b, p
      <4>9. run[x][a] = p BY <2>6, <3>2
      <4> QED BY <4>8, <4>9 DEF a
    <3> QED BY <3>1, <3>2
  <2>9. Good(x) BY <2>7, <2>8 DEF Good
  <2> QED BY <2>9, <2>a
<1> HIDE DEF T
<1>6. n \in T BY <1>1, <1>4, <1>5, InductiveSet
<1>7. Good(n)
  <2> HIDE DEF Good
  <2> QED BY <1>1, <1>6 DEF T
<1>8. ASSUME NEW id \in Registered(g), NEW j \in 0..Lengths[id]
      PROVE  At(mat, id, j) <= prog.n + n
  <2>1. At(mat, id, j) \in Wires(mat) BY ChainFacts
  <2> QED BY <1>1, <2>1 DEF Wires
<1>9. Placement = run[n] BY <1>2 DEF PlaceRun
<1> QED BY <1>7, <1>8, <1>9

-----------------------------------------------------------------------------
(* The registers are the ones evaluate counted *)

\* The j-th register of the chain of id.
ChainReg(id, j) == mat.regs[At(mat, id, j) - prog.n]

\* The j-th register of a chain stands j stages after its signal.
LEMMA ChainRegs ==
  ASSUME Ready, Complete(mat), NEW id \in Registered(g), NEW j \in 1..Lengths[id]
  PROVE  /\ ChainReg(id, j) \in Regs /\ ChainReg(id, j).node = At(mat, id, j)
         /\ ChainReg(id, j).stage = stages[id] + j
         /\ ChainReg(id, j).source = At(mat, id, j - 1)
         /\ (ChainReg(id, j).is_valid <=> id = prog.vin)
         /\ Placement[ChainReg(id, j).node] = PlaceOf(id, j)
         /\ j \in 0..Lengths[id] /\ j - 1 \in 0..Lengths[id]
<1> DEFINE a == At(mat, id, j)
           x == a - prog.n
<1>1. j \in 0..Lengths[id] /\ j > 0 /\ j - 1 \in 0..Lengths[id]
  <2>1. Lengths[id] \in Nat BY RegisteredFacts
  <2> QED BY <2>1
<1>2. /\ x \in 1..Len(mat.regs) /\ a \in Nat
      /\ mat.regs[x].source = At(mat, id, j - 1) /\ mat.regs[x].stage = stages[id] + j
      /\ (mat.regs[x].is_valid <=> id = prog.vin)
  BY <1>1, ChainFacts
<1>3. prog.n \in Nat /\ DOMAIN mat.regs = 1..Len(mat.regs)
  BY SignalsAreFinite DEF Ready, SoundGraph, Complete, Typed
<1>4. mat.regs[x] \in Regs BY <1>2, <1>3 DEF Regs, ToSet
<1>5. mat.regs[x].node = prog.n + x BY <1>2, RegisterFacts
<1>6. prog.n + x = a
  <2> HIDE DEF a
  <2> QED BY <1>2, <1>3
<1>7. Placement[a] = PlaceOf(id, j) BY <1>1, PlacementIs
<1> HIDE DEF a, x
<1> QED BY <1>1, <1>2, <1>4, <1>5, <1>6, <1>7 DEF ChainReg, a, x

\* Every register is one of a chain.
LEMMA RegsAreChained ==
  ASSUME Ready, Complete(mat), NEW r \in Regs
  PROVE  /\ r \in Register /\ r.enable = EnableOf(mat, r)
         /\ \E id \in Registered(g) : \E j \in 1..Lengths[id] : r = ChainReg(id, j)
<1>1. mat.regs \in Seq(Register) BY DEF Complete, Typed
<1>2. PICK x \in 1..Len(mat.regs) : r = mat.regs[x] BY <1>1 DEF Regs, ToSet
<1>3. /\ r \in Register /\ r.enable = EnableOf(mat, r)
      /\ \E id \in Registered(g) : \E j \in 1..Lengths[id] :
              At(mat, id, j) = prog.n + x /\ At(mat, id, j) - prog.n = x
  BY <1>2, RegisterFacts
<1> QED BY <1>2, <1>3 DEF ChainReg

\* No two registers stand for the same signal at the same stage.
LEMMA PlacesDiffer ==
  ASSUME Ready, Complete(mat), NEW r \in Regs, NEW q \in Regs,
         Placement[r.node] = Placement[q.node]
  PROVE  r = q
<1>1. PICK id \in Registered(g) : \E j \in 1..Lengths[id] : r = ChainReg(id, j)
  BY RegsAreChained
<1>2. PICK j \in 1..Lengths[id] : r = ChainReg(id, j) BY <1>1
<1>3. PICK i \in Registered(g) : \E k \in 1..Lengths[i] : q = ChainReg(i, k)
  BY RegsAreChained
<1>4. PICK k \in 1..Lengths[i] : q = ChainReg(i, k) BY <1>3
<1>5. PlaceOf(id, j) = PlaceOf(i, k)
  <2>1. Placement[r.node] = PlaceOf(id, j) BY <1>2, ChainRegs
  <2>2. Placement[q.node] = PlaceOf(i, k) BY <1>4, ChainRegs
  <2> QED BY <2>1, <2>2
<1>6. PlaceOf(id, j).origin = id /\ PlaceOf(i, k).origin = i
      /\ PlaceOf(id, j).stage = stages[id] + j /\ PlaceOf(i, k).stage = stages[i] + k
  BY DEF PlaceOf
<1>7. id = i BY <1>5, <1>6
<1>8. j = k
  <2>1. stages[id] \in Nat /\ Lengths[id] \in Nat BY RegisteredFacts
  <2>2. j \in Nat /\ k \in Nat BY <1>7, <2>1
  <2>3. stages[id] + j = stages[id] + k BY <1>5, <1>6, <1>7
  <2> QED BY <2>1, <2>2, <2>3
<1> QED BY <1>2, <1>4, <1>7, <1>8

\* No two entries of the register list are equal.
LEMMA RegsCount ==
  ASSUME Ready, Complete(mat)
  PROVE  IsFiniteSet(Regs) /\ Cardinality(Regs) = Len(mat.regs)
<1> DEFINE n == Len(mat.regs)
           f == [x \in 1..n |-> mat.regs[x]]
<1>1. n \in Nat /\ DOMAIN mat.regs = 1..n /\ prog.n \in Nat
  BY SignalsAreFinite DEF Ready, SoundGraph, Complete, Typed
<1>2. f \in [1..n -> Regs] BY <1>1 DEF Regs, ToSet
<1>3. ASSUME NEW x \in 1..n, NEW y \in 1..n, f[x] = f[y] PROVE x = y
  <2>1. mat.regs[x].node = prog.n + x BY RegisterFacts
  <2>2. mat.regs[y].node = prog.n + y BY RegisterFacts
  <2>3. prog.n + x = prog.n + y BY <1>3, <2>1, <2>2
  <2> HIDE DEF n
  <2> QED BY <1>1, <2>3
<1>4. \A r \in Regs : \E x \in 1..n : f[x] = r BY <1>1 DEF Regs, ToSet
<1> HIDE DEF f, n
<1> QED BY <1>1, <1>2, <1>3, <1>4, CountedSet DEF n

OriginOf == [r \in Regs |-> Placement[r.node].origin]

\* A signal owns as many registers as its chain is long.
LEMMA ChainCount ==
  ASSUME Ready, Complete(mat)
  PROVE  /\ OriginOf \in [Regs -> Registered(g)]
         /\ \A id \in Registered(g) : Cardinality(Owns(OriginOf, Regs, id)) = Lengths[id]
<1>1. ASSUME NEW r \in Regs, NEW id \in Registered(g), NEW j \in 1..Lengths[id],
             r = ChainReg(id, j)
      PROVE  OriginOf[r] = id
  <2>1. Placement[r.node] = PlaceOf(id, j) BY <1>1, ChainRegs
  <2> QED BY <2>1 DEF OriginOf, PlaceOf
<1>2. \A r \in Regs : \E id \in Registered(g) : \E j \in 1..Lengths[id] : r = ChainReg(id, j)
  BY RegsAreChained
<1>3. \A r \in Regs : OriginOf[r] \in Registered(g) BY <1>1, <1>2
<1>4. OriginOf \in [Regs -> Registered(g)] BY <1>3 DEF OriginOf
<1>5. ASSUME NEW id \in Registered(g)
      PROVE  Cardinality(Owns(OriginOf, Regs, id)) = Lengths[id]
  <2> DEFINE n == Lengths[id]
             f == [j \in 1..n |-> ChainReg(id, j)]
             Q == Owns(OriginOf, Regs, id)
  <2>1. n \in Nat /\ stages[id] \in Nat BY RegisteredFacts
  <2>2. ASSUME NEW j \in 1..n PROVE f[j] \in Q /\ f[j].stage = stages[id] + j
    <3>1. ChainReg(id, j) \in Regs /\ ChainReg(id, j).stage = stages[id] + j BY ChainRegs
    <3>2. OriginOf[ChainReg(id, j)] = id BY <1>1, <3>1
    <3> QED BY <3>1, <3>2 DEF Owns
  <2>3. \A r \in Q : \E j \in 1..n : f[j] = r
    <3> TAKE r \in Q
    <3>1. r \in Regs /\ OriginOf[r] = id BY DEF Owns
    <3>2. PICK i \in Registered(g) : \E j \in 1..Lengths[i] : r = ChainReg(i, j)
      BY <1>2, <3>1
    <3>3. i = id BY <1>1, <3>1, <3>2
    <3> QED BY <3>2, <3>3
  <2> HIDE DEF Q, f, n
  <2>4. f \in [1..n -> Q] BY <2>2 DEF f
  <2>5. ASSUME NEW j \in 1..n, NEW k \in 1..n, f[j] = f[k] PROVE j = k
    <3>1. stages[id] + j = stages[id] + k BY <2>2, <2>5
    <3> QED BY <2>1, <3>1
  <2>8. Cardinality(Q) = n BY <2>1, <2>3, <2>4, <2>5, CountedSet
  <2> QED BY <2>8 DEF Q, n
<1> QED BY <1>4, <1>5

\* The storage of the design, as a total.
LEMMA StorageTotal ==
  ASSUME Ready, Complete(mat), NEW c, Weighs(c, Regs), \A r \in Regs : c[r] = WidthOf(r.node)
  PROVE  Storage = Total(c, Regs)
<1> DEFINE S == Regs
           one(s) == CHOOSE x \in s : TRUE
           body(f) == [s \in SUBSET S |->
                         IF s = {} THEN 0 ELSE WidthOf(one(s).node) + f[s \ {one(s)}]]
           it == CHOOSE f : f = body(f)
<1>1. Storage = it[S]
  BY DEF Storage, MapThenSumSet, MapThenFoldSet
<1>2. IsFiniteSet(S) BY RegsCount
<1>4. PICK f : SumsTo(f, c, S) BY <1>2, WeightSums
<1>5. \A s \in SUBSET S : s # {} => one(s) \in S OBVIOUS
<1> HIDE DEF one
<1>6. \A s \in SUBSET S : s # {} => c[one(s)] = WidthOf(one(s).node) BY <1>5
<1>7. \A h : SumsTo(h, c, S) <=> h = body(h)
  <2> TAKE h
  <2> DEFINE sum == [s \in SUBSET S |-> IF s = {} THEN 0 ELSE c[one(s)] + h[s \ {one(s)}]]
  <2>1. SumsTo(h, c, S) <=> h = sum BY DEF SumsTo, one
  <2>2. sum = body(h) BY <1>6
  <2> HIDE DEF sum, body
  <2> QED BY <2>1, <2>2
<1>8. it = body(it) BY <1>4, <1>7
<1> HIDE DEF it, body
<1>9. it[S] = Total(c, S) BY <1>2, <1>7, <1>8, TotalIs
<1> QED BY <1>1, <1>9

\* The registers and bits that were materialised are the ones evaluate predicts.
LEMMA PredictionHolds ==
  ASSUME Ready, Complete(mat)
  PROVE  /\ Len(mat.regs) = Evaluate(g, last, stages).count
         /\ Storage = Evaluate(g, last, stages).bits
<1> DEFINE S == Registered(g)
           R == Regs
           o == OriginOf
           ev == Evaluate(g, last, stages)
<1>1. /\ IsFiniteSet(S) /\ Weighs(Lengths, S)
      /\ Weighs(KeptBits(g, last, stages), S)
      /\ ev.bits = Total(KeptBits(g, last, stages), S) /\ ev.count = Total(Lengths, S)
  <2>1. SoundGraph(g) /\ last \in Nat /\ stages \in [Signals(g.p) -> Nat]
        /\ LegalStages(g, last, stages)
    BY DEF Ready
  <2> QED BY <2>1, KeptTotals DEF Lengths
<1>2. IsFiniteSet(R) /\ Cardinality(R) = Len(mat.regs) BY RegsCount
<1>3. o \in [R -> S] /\ \A id \in S : Cardinality(Owns(o, R, id)) = Lengths[id]
  BY ChainCount
<1> HIDE DEF o, R, S, ev
<1>4. Len(mat.regs) = ev.count
  <2> DEFINE w == [id \in S |-> 1]
             c == [r \in R |-> 1]
  <2>1. w \in [S -> Nat] /\ \A r \in R : c[r] = w[o[r]] BY <1>3
  <2>2. \A r \in R : c[r] = 1 OBVIOUS
  <2>3. \A id \in S : Shares(o, w, R, S)[id] = Lengths[id]
    <3> TAKE id \in S
    <3>1. Shares(o, w, R, S)[id] = 1 * Lengths[id] BY <1>3 DEF Shares
    <3>2. Lengths[id] \in Nat BY <1>1 DEF Weighs
    <3> QED BY <3>1, <3>2
  <2> HIDE DEF w, c
  <2>4. Total(c, R) = Total(Shares(o, w, R, S), S) BY <1>1, <1>2, <1>3, <2>1, TotalByOwner
  <2>5. Total(c, R) = Cardinality(R) BY <1>2, <2>2, TotalOnes
  <2>6. Total(Shares(o, w, R, S), S) = Total(Lengths, S) BY <2>3, TotalOnSet
  <2> QED BY <1>1, <1>2, <2>4, <2>5, <2>6
<1>5. Storage = ev.bits
  <2> DEFINE w == [id \in S |-> prog.width[id]]
             c == [r \in R |-> WidthOf(r.node)]
  <2>1. \A id \in S : w[id] \in Nat /\ id \in Signals(prog)
    <3> TAKE id \in S
    <3>1. id \in Signals(prog) BY RegisteredFacts DEF S
    <3>2. WellFormed(prog) BY DEF Ready, SoundGraph
    <3>3. prog.width[id] \in Nat BY <3>1, <3>2 DEF WellFormed
    <3> QED BY <3>1, <3>3
  <2>2. \A r \in R : c[r] = w[o[r]]
    <3> TAKE r \in R
    <3>1. o[r] = Placement[r.node].origin BY DEF o, OriginOf, R
    <3>2. o[r] \in S BY <1>3
    <3> QED BY <3>1, <3>2 DEF WidthOf
  <2>3. \A id \in S : Shares(o, w, R, S)[id] = KeptBits(g, last, stages)[id]
    <3> TAKE id \in S
    <3>1. Shares(o, w, R, S)[id] = prog.width[id] * Lengths[id] BY <1>3 DEF Shares
    <3>2. KeptBits(g, last, stages)[id] = prog.width[id] * Lengths[id]
      BY DEF KeptBits, Lengths, Kept, S, Ready
    <3> QED BY <3>1, <3>2
  <2>4. w \in [S -> Nat] BY <2>1
  <2>a. \A r \in R : c[r] = WidthOf(r.node) OBVIOUS
  <2> HIDE DEF w, c
  <2>5. Total(c, R) = Total(Shares(o, w, R, S), S)
    BY <1>1, <1>2, <1>3, <2>2, <2>4, TotalByOwner
  <2>6. Weighs(c, R)
    <3>1. \A r \in R : c[r] \in Nat BY <1>3, <2>2, <2>4
    <3> QED BY <3>1 DEF Weighs
  <2>7. Storage = Total(c, R) BY <2>a, <2>6, StorageTotal DEF R
  <2>8. Total(Shares(o, w, R, S), S) = Total(KeptBits(g, last, stages), S)
    BY <2>3, TotalOnSet
  <2> QED BY <1>1, <2>5, <2>7, <2>8
<1> QED BY <1>4, <1>5 DEF ev

-----------------------------------------------------------------------------
(* Rewiring and validateProgram *)

\* A reader's operand is within the chain of the signal it reads.
LEMMA OffsetFacts ==
  ASSUME Ready, NEW id \in g.live, NEW v \in ArgSet(prog, id), v \notin g.const
  PROVE  /\ v \in Registered(g) /\ id \notin g.const
         /\ Offset(id, v) \in 0..Lengths[v] /\ stages[v] + Offset(id, v) = stages[id]
<1>1. SoundGraph(g) /\ g.p = prog /\ last \in Nat /\ stages \in [Signals(prog) -> Nat]
      /\ LegalStages(g, last, stages)
  BY DEF Ready
<1>2. v \in g.live /\ v \in Registered(g) /\ id \in Signals(prog)
  BY <1>1, OperandsAreLive, OrderIsFinite DEF Registered
<1>3. id \notin g.const BY <1>1 DEF SoundGraph
<1>4. id \notin g.input
  <2>1. id \in g.input => ArgSet(prog, id) = {}
    BY <1>1, <1>2, ArgsAreSignals DEF SoundGraph
  <2> QED BY <2>1
<1>5. stages[v] <= stages[id]
  <2>1. v \in DataArgs(g, id) BY <1>1 DEF DataArgs
  <2> QED BY <1>1, <1>3, <1>4, <2>1 DEF LegalStages
<1>6. id \in g.users[v]
  <2>1. v \in Signals(prog) BY <1>2, RegisteredFacts
  <2> QED BY <1>1, <2>1 DEF SoundGraph
<1>7. stages[id] <= LastUse(g, last, stages, v) BY <1>1, <1>2, <1>6, KeptIsNat
<1>8. stages[v] + Lengths[v] = LastUse(g, last, stages, v) /\ stages[v] \in Nat
      /\ Lengths[v] \in Nat
  BY <1>2, RegisteredFacts
<1>9. stages[id] \in Nat BY <1>1, <1>2
<1>10. stages[id] - stages[v] \in 0..Lengths[v]
       /\ stages[v] + (stages[id] - stages[v]) = stages[id]
  BY <1>5, <1>7, <1>8, <1>9
<1> QED BY <1>2, <1>3, <1>10 DEF Offset

\* Rewiring never steps off a delay chain (vector::at never throws).
LEMMA AlwaysWires ==
  ASSUME Ready, Complete(mat)
  PROVE  CanWire
<1> SUFFICES ASSUME NEW id \in g.live, NEW v \in ArgSet(prog, id), v \notin g.const
             PROVE  Offset(id, v) + 1 \in DOMAIN mat.delayed[v]
  BY DEF CanWire, Wirable
<1>1. v \in Registered(g) /\ Offset(id, v) \in 0..Lengths[v] BY OffsetFacts
<1>2. Len(mat.delayed[v]) = Lengths[v] + 1 BY <1>1 DEF Complete, Chain
<1>3. mat.delayed[v] \in Seq(Nat) /\ Lengths[v] \in Nat
  BY <1>1, RegisteredFacts DEF Complete, Typed
<1>4. DOMAIN mat.delayed[v] = 1..(Lengths[v] + 1) BY <1>2, <1>3
<1> QED BY <1>1, <1>3, <1>4

\* What the operands of the finished design are.
LEMMA DriversAre ==
  ASSUME Ready, Complete(mat), last > 0, mat.drv = Drivers, NEW id \in g.live
  PROVE  /\ id # prog.vout =>
              /\ DOMAIN mat.drv[id] = DOMAIN prog.args[id]
              /\ \A i \in DOMAIN prog.args[id] :
                   /\ prog.args[id][i] \in ArgSet(prog, id)
                   /\ prog.args[id][i] \in g.const => mat.drv[id][i] = prog.args[id][i]
                   /\ prog.args[id][i] \notin g.const =>
                        mat.drv[id][i] = At(mat, prog.args[id][i], Offset(id, prog.args[id][i]))
         /\ id = prog.vout =>
              /\ prog.vin # NoNode /\ mat.drv[id] = <<At(mat, prog.vin, last)>>
              /\ Last(mat.valid) = At(mat, prog.vin, last)
<1>1. SoundGraph(g) /\ g.p = prog /\ last \in Nat BY DEF Ready
<1>2. id \in Signals(prog) /\ id # NoNode
  <2>1. id \in 1..prog.n /\ prog.n \in Nat
    BY <1>1, OrderIsFinite, SignalsAreFinite DEF SoundGraph, Signals
  <2> QED BY <2>1 DEF NoNode, Signals
<1>3. prog.vin = NoNode => prog.vout = NoNode
  <2>1. WellFormed(prog) BY <1>1 DEF SoundGraph
  <2>2. NoNode \notin Inputs(prog)
    <3>1. Inputs(prog) \subseteq 1..prog.n /\ prog.n \in Nat
      BY <2>1 DEF Inputs, Signals, WellFormed
    <3> QED BY <3>1 DEF NoNode
  <2> QED BY <2>1, <2>2 DEF WellFormed
<1>4. ASSUME id # prog.vout
      PROVE  mat.drv[id] = [i \in DOMAIN prog.args[id] |-> Wired(id, prog.args[id][i])]
  BY <1>4, <1>1 DEF Drivers
<1>5. \A i \in DOMAIN prog.args[id] : prog.args[id][i] \in ArgSet(prog, id)
  BY DEF ArgSet, ToSet
<1>6. ASSUME id = prog.vout
      PROVE  /\ prog.vin # NoNode /\ mat.drv[id] = <<At(mat, prog.vin, last)>>
             /\ Last(mat.valid) = At(mat, prog.vin, last)
  <2>1. prog.vin # NoNode BY <1>2, <1>3, <1>6
  <2>2. mat.drv[id] = <<Last(mat.valid)>> BY <1>6, <2>1 DEF Drivers
  <2>3. mat.valid = mat.delayed[prog.vin] BY <2>1 DEF Complete
  <2>4. prog.vin \in Registered(g) /\ Lengths[prog.vin] = last BY <2>1, ValidInputFacts
  <2>5. Len(mat.delayed[prog.vin]) = last + 1 BY <2>4 DEF Complete, Chain
  <2>6. Last(mat.valid) = At(mat, prog.vin, last) BY <2>3, <2>5 DEF Last, At
  <2> QED BY <2>1, <2>2, <2>6
<1>7. ASSUME id # prog.vout, NEW i \in DOMAIN prog.args[id]
      PROVE  /\ prog.args[id][i] \in g.const => mat.drv[id][i] = prog.args[id][i]
             /\ prog.args[id][i] \notin g.const =>
                  mat.drv[id][i] = At(mat, prog.args[id][i], Offset(id, prog.args[id][i]))
  <2>1. mat.drv[id][i] = Wired(id, prog.args[id][i]) BY <1>4, <1>7
  <2> QED BY <2>1 DEF Wired, At
<1> QED BY <1>4, <1>5, <1>6, <1>7

\* An operand is read in the stage of its reader, from its own chain.
LEMMA OperandsArePlaced ==
  ASSUME Ready, Complete(mat), last > 0, mat.drv = Drivers, NEW id \in g.live \ {prog.vout},
         NEW i \in DOMAIN prog.args[id], prog.args[id][i] \notin g.const
  PROVE  Placement[mat.drv[id][i]] = [stage |-> stages[id], origin |-> prog.args[id][i]]
<1> DEFINE v == prog.args[id][i]
<1>1. v \in ArgSet(prog, id) /\ mat.drv[id][i] = At(mat, v, Offset(id, v)) BY DriversAre
<1>2. v \in Registered(g) /\ Offset(id, v) \in 0..Lengths[v]
      /\ stages[v] + Offset(id, v) = stages[id]
  BY <1>1, OffsetFacts
<1> HIDE DEF v
<1>3. Placement[mat.drv[id][i]] = PlaceOf(v, Offset(id, v)) BY <1>1, <1>2, PlacementIs
<1> QED BY <1>2, <1>3 DEF PlaceOf, v

\* A register stands one stage after its source, within the pipeline.
LEMMA RegistersAreLegal ==
  ASSUME Ready, Complete(mat), NEW r \in Regs
  PROVE  r.stage <= last /\ r.stage = Placement[r.source].stage + 1
<1>1. PICK id \in Registered(g) : \E j \in 1..Lengths[id] : r = ChainReg(id, j)
  BY RegsAreChained
<1>2. PICK j \in 1..Lengths[id] : r = ChainReg(id, j) BY <1>1
<1>3. r.stage = stages[id] + j /\ r.source = At(mat, id, j - 1) /\ j - 1 \in 0..Lengths[id]
  BY <1>2, ChainRegs
<1>4. Placement[r.source].stage = stages[id] + (j - 1)
  <2>1. Placement[At(mat, id, j - 1)] = PlaceOf(id, j - 1) BY <1>3, PlacementIs
  <2> QED BY <1>3, <2>1 DEF PlaceOf
<1>5. stages[id] \in Nat /\ Lengths[id] \in Nat /\ stages[id] + Lengths[id] <= last
      /\ last \in Nat
  BY RegisteredFacts
<1>6. j \in Nat /\ j <= Lengths[id] BY <1>5
<1> QED BY <1>3, <1>4, <1>5, <1>6

\* The valid chain and the enables are the ones validateProgram asks for.
LEMMA RolesAreValid ==
  ASSUME Ready, Complete(mat), last > 0, mat.drv = Drivers
  PROVE  ValidRolesOk
<1>1. ASSUME NEW r \in Regs, NEW id \in Registered(g), NEW j \in 1..Lengths[id],
             r = ChainReg(id, j)
      PROVE  /\ (r.is_valid <=> id = prog.vin) /\ r.enable = EnableOf(mat, r)
             /\ r.node = At(mat, id, j) /\ r.stage = stages[id] + j
             /\ r.source = At(mat, id, j - 1) /\ id # NoNode
  <2>1. id # NoNode BY RegisteredFacts DEF NoNode, Signals
  <2> QED BY <1>1, <2>1, ChainRegs, RegsAreChained
<1>2. \A r \in Regs : \E id \in Registered(g) : \E j \in 1..Lengths[id] : r = ChainReg(id, j)
  BY RegsAreChained
<1>3. CASE prog.vin = NoNode
  <2>1. \A r \in Regs : ~r.is_valid /\ r.enable = NoNode
    <3> TAKE r \in Regs
    <3>1. ~r.is_valid BY <1>1, <1>2, <1>3
    <3>2. r.enable = EnableOf(mat, r) BY <1>1, <1>2
    <3> QED BY <1>3, <3>1, <3>2 DEF EnableOf
  <2> QED BY <1>3, <2>1 DEF ValidRolesOk
<1>4. CASE prog.vin # NoNode
  <2> DEFINE vin == prog.vin
  <2>1. /\ vin \in Registered(g) /\ stages[vin] = 0 /\ Lengths[vin] = last /\ last \in Nat
        /\ prog.vout \in g.live
    BY <1>4, ValidInputFacts DEF Ready
  <2>2. mat.valid = mat.delayed[vin] BY <1>4 DEF Complete
  <2>3. Len(mat.valid) = last + 1 /\ mat.valid[1] = vin BY <2>1, <2>2 DEF Complete, Chain
  <2>4. \A j \in 0..last : mat.valid[j + 1] = At(mat, vin, j) BY <2>2 DEF At
  <2>5. mat.drv[prog.vout] = <<Last(mat.valid)>> BY <2>1, DriversAre
  <2>6. ASSUME NEW r \in Regs
        PROVE  /\ r.is_valid <=> r.node = mat.valid[r.stage + 1]
               /\ r.is_valid => r.source = mat.valid[r.stage] /\ r.enable = NoNode
               /\ ~r.is_valid => r.enable = mat.valid[r.stage]
    <3>1. PICK id \in Registered(g) : \E j \in 1..Lengths[id] : r = ChainReg(id, j) BY <1>2
    <3>2. PICK j \in 1..Lengths[id] : r = ChainReg(id, j) BY <3>1
    <3>3. /\ (r.is_valid <=> id = vin) /\ r.enable = EnableOf(mat, r)
          /\ r.node = At(mat, id, j) /\ r.stage = stages[id] + j
          /\ r.source = At(mat, id, j - 1)
      BY <1>1, <3>2
    <3>4. stages[id] \in Nat /\ Lengths[id] \in Nat /\ stages[id] + Lengths[id] <= last
      BY RegisteredFacts
    <3>5. j \in Nat /\ r.stage \in 1..last BY <2>1, <3>3, <3>4
    <3>6. CASE id = vin
      <4>1. r.stage = j /\ j \in 0..last /\ j - 1 \in 0..last /\ (j - 1) + 1 = j
        BY <2>1, <3>3, <3>5, <3>6
      <4>2. mat.valid[j + 1] = At(mat, vin, j) /\ mat.valid[j] = At(mat, vin, j - 1)
        BY <2>4, <4>1
      <4>3. r.enable = NoNode BY <3>3, <3>6 DEF EnableOf
      <4> QED BY <3>3, <3>6, <4>1, <4>2, <4>3
    <3>7. CASE id # vin
      <4>1. ~r.is_valid /\ r.enable = mat.valid[r.stage] BY <1>4, <3>3, <3>7 DEF EnableOf
      <4>2. r.node # mat.valid[r.stage + 1]
        <5> SUFFICES ASSUME r.node = mat.valid[r.stage + 1] PROVE FALSE
          OBVIOUS
        <5> DEFINE s == r.stage
        <5>1. s \in 0..last /\ s \in 1..Lengths[vin] BY <2>1, <3>5
        <5>2. r.node = At(mat, vin, s) BY <2>4, <5>1
        <5> HIDE DEF s
        <5>3. Placement[r.node] = PlaceOf(vin, s) BY <2>1, <5>1, <5>2, PlacementIs
        <5>4. Placement[r.node] = PlaceOf(id, j) BY <3>2, ChainRegs
        <5>5. PlaceOf(id, j).origin = id /\ PlaceOf(vin, s).origin = vin BY DEF PlaceOf
        <5> QED BY <3>7, <5>3, <5>4, <5>5
      <4> QED BY <4>1, <4>2
    <3> QED BY <3>6, <3>7
  <2> QED BY <1>4, <2>3, <2>5, <2>6 DEF ValidRolesOk
<1> QED BY <1>3, <1>4

\* validateProgram accepts every design that was built from legal stages.
LEMMA DesignIsValid ==
  ASSUME Ready, Complete(mat), last > 0, mat.drv = Drivers,
         report = Evaluate(g, last, stages), 100 * report.delay <= Allowed
  PROVE  ProgramValid
<1>1. SoundGraph(g) /\ last \in Nat /\ stages \in [Signals(g.p) -> Nat]
      /\ LegalStages(g, last, stages)
  BY DEF Ready
<1>2. report.delay # Unreachable
  <2>1. Evaluate(g, last, stages).delay \in Nat BY <1>1, EvaluateMeasures
  <2> QED BY <2>1 DEF Unreachable
<1>3. Len(mat.regs) = report.count /\ Storage = report.bits BY PredictionHolds
<1>4. \A r \in Regs : r.stage <= last /\ r.stage = Placement[r.source].stage + 1
  BY RegistersAreLegal
<1>5. \A id \in g.live \ {prog.vout} : \A i \in DOMAIN prog.args[id] :
        prog.args[id][i] \notin g.const =>
          Placement[mat.drv[id][i]] = [stage |-> stages[id], origin |-> prog.args[id][i]]
  BY OperandsArePlaced
<1>6. ValidRolesOk BY RolesAreValid
<1> QED BY <1>2, <1>3, <1>4, <1>5, <1>6 DEF ProgramValid

-----------------------------------------------------------------------------
(* Latencies *)

Net == g.live \cup RegNodes
RegWith(id) == CHOOSE r \in Regs : r.node = id
DriverOf(id) == IF id \in RegNodes THEN {RegWith(id).source} ELSE ToSet(mat.drv[id])

\* Bounds on the latencies of all signals that carry over from a driver.
Carries(L) ==
  \A id \in Net :
    /\ id \in Inputs(prog) => 0 \in L[id]
    /\ id \notin Inputs(prog) => \A v \in DriverOf(id) :
         /\ v \in Net
         /\ id \in RegNodes => \A x \in L[v] : x + 1 \in L[id]
         /\ id \notin RegNodes => L[v] \subseteq L[id]

Within(L) == {acc \in [Net -> SUBSET Int] : \A w \in Net : acc[w] \subseteq L[w]}
From(acc, id) == UNION {acc[v] : v \in DriverOf(id)}
LatencyStep(acc) ==
  [id \in Net |->
     IF id \in Inputs(prog) THEN {0}
     ELSE IF id \in RegNodes THEN {x + 1 : x \in From(acc, id)} ELSE From(acc, id)]

\* A round of the latency computation stays within bounds that carry over.
LEMMA LatencyStepBounds ==
  ASSUME NEW L, Carries(L), NEW acc \in Within(L)
  PROVE  LatencyStep(acc) \in Within(L)
<1> DEFINE n == LatencyStep(acc)
<1>1. acc \in [Net -> SUBSET Int] /\ \A w \in Net : acc[w] \subseteq L[w] BY DEF Within
<1>2. ASSUME NEW id \in Net PROVE n[id] \in SUBSET Int /\ n[id] \subseteq L[id]
  <2>1. CASE id \in Inputs(prog)
    <3>1. n[id] = {0} BY <2>1 DEF LatencyStep
    <3> QED BY <2>1, <3>1 DEF Carries
  <2>2. CASE id \notin Inputs(prog)
    <3>1. \A v \in DriverOf(id) :
            /\ v \in Net /\ acc[v] \in SUBSET Int /\ acc[v] \subseteq L[v]
            /\ id \in RegNodes => \A x \in L[v] : x + 1 \in L[id]
            /\ id \notin RegNodes => L[v] \subseteq L[id]
      BY <1>1, <2>2 DEF Carries
    <3>2. \A x \in From(acc, id) : x \in Int /\ \E v \in DriverOf(id) : x \in acc[v]
      BY <3>1 DEF From
    <3>3. CASE id \in RegNodes
      <4>1. n[id] = {x + 1 : x \in From(acc, id)} BY <2>2, <3>3 DEF LatencyStep
      <4>2. \A x \in From(acc, id) : x + 1 \in Int /\ x + 1 \in L[id] BY <3>1, <3>2, <3>3
      <4> HIDE DEF n
      <4> QED BY <4>1, <4>2
    <3>4. CASE id \notin RegNodes
      <4>1. n[id] = From(acc, id) BY <2>2, <3>4 DEF LatencyStep
      <4>2. \A x \in From(acc, id) : x \in Int /\ x \in L[id] BY <3>1, <3>2, <3>4
      <4> HIDE DEF n
      <4> QED BY <4>1, <4>2
    <3> QED BY <3>3, <3>4
  <2> QED BY <2>1, <2>2
<1>3. n = [id \in Net |-> n[id]] BY DEF LatencyStep
<1> HIDE DEF n
<1>4. n \in [Net -> SUBSET Int] BY <1>2, <1>3
<1>5. n \in Within(L) BY <1>2, <1>4 DEF Within
<1> QED BY <1>5 DEF n

\* So do the latencies themselves.
LEMMA LatenciesWithin ==
  ASSUME IsFiniteSet(Net), NEW L, Carries(L)
  PROVE  \A w \in Net : Latencies[w] \subseteq L[w]
<1> DEFINE N == Cardinality(Net)
           A == Within(L)
           base == [id \in Net |-> IF id \in Inputs(prog) THEN {0} ELSE {}]
           op(acc, k) == LatencyStep(acc)
           seq == [k \in 1..N |-> k]
           body(f) == [s \in SUBSET DOMAIN seq |->
                         IF s = {} THEN base ELSE op(f[s \ {Max(s)}], seq[Max(s)])]
           it == CHOOSE f : f = body(f)
           F == [k \in 1..N |-> [a \in A |-> op(a, seq[k])]]
           fin == it[DOMAIN seq]
<1>1. Latencies = fin
  BY DEF Latencies, FoldLeft, MapThenFoldSet, LatencyStep, From, DriverOf, Net, RegWith
<1>2. N \in Nat /\ DOMAIN seq = 1..N BY FS_CardinalityType
<1> HIDE DEF N, seq
<1>3. base \in A
  <2>1. base \in [Net -> SUBSET Int] OBVIOUS
  <2>2. \A w \in Net : base[w] \subseteq L[w] BY DEF Carries
  <2> HIDE DEF base
  <2> QED BY <2>1, <2>2 DEF Within
<1>4. \A k \in 1..N : \A a \in A : op(a, seq[k]) \in A BY LatencyStepBounds
<1> HIDE DEF op, A, base
<1>5. F \in [1..N -> [A -> A]] BY <1>4
<1>6. \A k \in 1..N : \A a \in A : F[k][a] = op(a, seq[k]) OBVIOUS
<1> HIDE DEF F
<1>7. PICK f : Folds(f, F, base, N, A)
  BY <1>2, <1>3, <1>5, FoldEquation
<1>8. f = body(f)
  <2>1. f = [s \in SUBSET (1..N) |-> f[s]] /\ f[{}] = base BY <1>7 DEF Folds
  <2>2. ASSUME NEW s \in SUBSET (1..N), s # {}
        PROVE  f[s] = op(f[s \ {Max(s)}], seq[Max(s)])
    <3>1. /\ Max(s) \in 1..N /\ f[s \ {Max(s)}] \in A
          /\ f[s] = F[Max(s)][f[s \ {Max(s)}]]
      BY <1>7, <2>2 DEF Folds
    <3> QED BY <1>6, <3>1
  <2>3. f = [s \in SUBSET (1..N) |->
               IF s = {} THEN base ELSE op(f[s \ {Max(s)}], seq[Max(s)])]
    BY <2>1, <2>2
  <2> QED BY <1>2, <2>3
<1>9. it = body(it) BY <1>8
<1> HIDE DEF it
<1>10. \A s \in SUBSET (1..N) :
         it[s] = IF s = {} THEN base ELSE op(it[s \ {Max(s)}], seq[Max(s)])
  BY <1>2, <1>9
<1> HIDE DEF body
<1>11. Unfolds(it, F, base, N, A)
  <2>1. it[{}] = base
    <3>1. {} \in SUBSET (1..N) OBVIOUS
    <3> QED BY <1>10, <3>1
  <2>2. ASSUME NEW s \in SUBSET (1..N), s # {}, it[s \ {Max(s)}] \in A
        PROVE  it[s] = F[Max(s)][it[s \ {Max(s)}]]
    <3>1. Max(s) \in 1..N BY <1>2, <2>2, MaxOfPositions
    <3>2. it[s] = op(it[s \ {Max(s)}], seq[Max(s)]) BY <1>10, <2>2
    <3> QED BY <1>6, <2>2, <3>1, <3>2
  <2> QED BY <2>1, <2>2 DEF Unfolds
<1>12. \A k \in 0..N : it[1..k] \in A
  <2>1. N \in Nat /\ base \in A /\ F \in [1..N -> [A -> A]] /\ Unfolds(it, F, base, N, A)
    BY <1>2, <1>3, <1>5, <1>11
  <2> QED BY <2>1, FoldRuns
<1>13. fin \in A
  <2>1. N \in 0..N BY <1>2
  <2> QED BY <1>2, <1>12, <2>1
<1> QED BY <1>1, <1>13 DEF A, Within

\* The bound of a pipelined design: a signal is as many registers away from
\* the inputs as its stage says; a constant depends on no input.
Levels ==
  [w \in Net |->
     IF w \in g.const \ {prog.vout} THEN {}
     ELSE IF w \in g.live THEN {stages[w]} ELSE {Placement[w].stage}]

\* The wires of the design, and the stage of each as its only level.
LEMMA NetFacts ==
  ASSUME Ready, Complete(mat)
  PROVE  /\ IsFiniteSet(Net) /\ g.live \cap RegNodes = {}
         /\ \A id \in Registered(g) : \A j \in 0..Lengths[id] :
              At(mat, id, j) \in Net /\ Levels[At(mat, id, j)] = {stages[id] + j}
         /\ \A r \in Regs : RegWith(r.node) = r
<1>1. \A r \in Regs : \E id \in Registered(g) : \E j \in 1..Lengths[id] : r = ChainReg(id, j)
  BY RegsAreChained
<1>2. \A id \in g.live : id \in Nat /\ id <= prog.n /\ id \in Wires(mat)
  <2> TAKE id \in g.live
  <2>1. id \in 1..prog.n BY OrderIsFinite DEF Ready, Signals
  <2>2. prog.n \in Nat /\ Len(mat.regs) \in Nat
    BY SignalsAreFinite DEF Ready, SoundGraph, Complete, Typed
  <2> QED BY <2>1, <2>2 DEF Wires
<1>3. \A r \in Regs : r.node \in Nat /\ r.node > prog.n /\ r.node \in Wires(mat)
  <2> TAKE r \in Regs
  <2>1. mat.regs \in Seq(Register) /\ prog.n \in Nat
    BY SignalsAreFinite DEF Ready, SoundGraph, Complete, Typed
  <2>2. PICK x \in 1..Len(mat.regs) : r = mat.regs[x] BY <2>1 DEF Regs, ToSet
  <2>3. r.node = prog.n + x BY <2>2, RegisterFacts
  <2>4. Len(mat.regs) \in Nat BY <2>1
  <2> QED BY <2>1, <2>3, <2>4 DEF Wires
<1>4. g.live \cap RegNodes = {}
  <2> SUFFICES ASSUME NEW id \in g.live, id \in RegNodes PROVE FALSE
    OBVIOUS
  <2>1. PICK r \in Regs : id = r.node BY DEF RegNodes
  <2>2. prog.n \in Nat BY SignalsAreFinite DEF Ready, SoundGraph
  <2> QED BY <1>2, <1>3, <2>1, <2>2
<1>5. IsFiniteSet(Net)
  <2>1. Net \subseteq Wires(mat) BY <1>2, <1>3 DEF Net, RegNodes
  <2>2. prog.n \in Nat /\ Len(mat.regs) \in Nat
    BY SignalsAreFinite DEF Ready, SoundGraph, Complete, Typed
  <2>3. IsFiniteSet(Wires(mat)) BY <2>2, FS_Interval DEF Wires
  <2> QED BY <2>1, <2>3, FS_Subset
<1>6. ASSUME NEW id \in Registered(g), NEW j \in 0..Lengths[id]
      PROVE  At(mat, id, j) \in Net /\ Levels[At(mat, id, j)] = {stages[id] + j}
  <2> DEFINE a == At(mat, id, j)
  <2>1. id \in g.live /\ id \notin g.const /\ stages[id] \in Nat /\ Lengths[id] \in Nat
    BY RegisteredFacts
  <2>2. CASE j = 0
    <3>1. a = id BY <2>2, ChainFacts
    <3>2. stages[id] + j = stages[id] BY <2>1, <2>2
    <3> QED BY <2>1, <3>1, <3>2 DEF Net, Levels
  <2>3. CASE j # 0
    <3>1. j \in 1..Lengths[id] BY <2>1, <2>3
    <3>2. a \in RegNodes /\ Placement[a] = PlaceOf(id, j) BY <3>1, ChainRegs DEF RegNodes
    <3>3. a \in Net /\ a \notin g.live BY <1>4, <3>2 DEF Net
    <3>4. a \notin g.const BY <3>3 DEF Ready, SoundGraph
    <3> HIDE DEF a
    <3> QED BY <3>2, <3>3, <3>4 DEF Levels, PlaceOf, a
  <2> QED BY <2>2, <2>3
<1>7. ASSUME NEW r \in Regs PROVE RegWith(r.node) = r
  <2> DEFINE q == RegWith(r.node)
  <2>1. q \in Regs /\ q.node = r.node BY DEF RegWith
  <2> HIDE DEF q
  <2>2. q = r BY <2>1, PlacesDiffer
  <2> QED BY <2>2 DEF q
<1> QED BY <1>4, <1>5, <1>6, <1>7

\* A register adds one to the level of its source, other wires keep it.
LEMMA LevelsCarry ==
  ASSUME Ready, Complete(mat), last > 0, mat.drv = Drivers
  PROVE  Carries(Levels)
<1>0. SoundGraph(g) /\ g.p = prog /\ last \in Nat /\ WellFormed(prog)
      /\ g.input = Inputs(prog) /\ LegalStages(g, last, stages) /\ prog.out \subseteq g.live
  BY DEF Ready, SoundGraph
<1>1. SUFFICES ASSUME NEW id \in Net
               PROVE  /\ id \in Inputs(prog) => 0 \in Levels[id]
                      /\ id \notin Inputs(prog) => \A v \in DriverOf(id) :
                           /\ v \in Net
                           /\ id \in RegNodes => \A x \in Levels[v] : x + 1 \in Levels[id]
                           /\ id \notin RegNodes => Levels[v] \subseteq Levels[id]
  BY DEF Carries
<1>2. ASSUME id \in Inputs(prog) PROVE 0 \in Levels[id]
  <2>1. id \in g.live /\ id \notin g.const /\ stages[id] = 0
    BY <1>0, <1>2 DEF SoundGraph, LegalStages
  <2> QED BY <2>1 DEF Levels, Net
<1>3. ASSUME id \in RegNodes, NEW v \in DriverOf(id)
      PROVE  v \in Net /\ \A x \in Levels[v] : x + 1 \in Levels[id]
  <2>1. PICK r \in Regs : id = r.node BY <1>3 DEF RegNodes
  <2>2. v = r.source BY <1>3, <2>1, NetFacts DEF DriverOf
  <2>3. PICK i \in Registered(g) : \E j \in 1..Lengths[i] : r = ChainReg(i, j)
    BY RegsAreChained
  <2>4. PICK j \in 1..Lengths[i] : r = ChainReg(i, j) BY <2>3
  <2>5. /\ id = At(mat, i, j) /\ v = At(mat, i, j - 1)
        /\ j \in 0..Lengths[i] /\ j - 1 \in 0..Lengths[i]
    BY <2>1, <2>2, <2>4, ChainRegs
  <2>6. v \in Net /\ Levels[v] = {stages[i] + (j - 1)} /\ Levels[id] = {stages[i] + j}
    BY <2>5, NetFacts
  <2>7. stages[i] \in Nat /\ j \in Nat
    <3>1. stages[i] \in Nat /\ Lengths[i] \in Nat BY RegisteredFacts
    <3> QED BY <3>1
  <2>8. (stages[i] + (j - 1)) + 1 = stages[i] + j BY <2>7
  <2> QED BY <2>6, <2>8
<1>4. ASSUME id \notin RegNodes, id \notin Inputs(prog), NEW v \in DriverOf(id)
      PROVE  v \in Net /\ Levels[v] \subseteq Levels[id]
  <2>1. id \in g.live BY <1>4 DEF Net
  <2>2. v \in ToSet(mat.drv[id]) BY <1>4 DEF DriverOf
  <2>3. CASE id = prog.vout
    <3>1. prog.vin # NoNode /\ mat.drv[id] = <<At(mat, prog.vin, last)>>
      BY <2>1, <2>3, DriversAre
    <3>2. v = At(mat, prog.vin, last) BY <2>2, <3>1 DEF ToSet
    <3>3. prog.vin \in Registered(g) /\ Lengths[prog.vin] = last /\ stages[prog.vin] = 0
          /\ prog.vout \in prog.out
      BY <3>1, ValidInputFacts
    <3>4. last \in 0..Lengths[prog.vin] BY <1>0, <3>3
    <3>5. v \in Net /\ Levels[v] = {stages[prog.vin] + last} BY <3>2, <3>3, <3>4, NetFacts
    <3>6. stages[id] = last BY <1>0, <2>1, <2>3, <3>3 DEF LegalStages
    <3>7. Levels[id] = {stages[id]} BY <2>1, <2>3 DEF Levels, Net
    <3>8. stages[prog.vin] + last = last BY <1>0, <3>3
    <3> QED BY <3>5, <3>6, <3>7, <3>8
  <2>4. CASE id # prog.vout
    <3>1. DOMAIN mat.drv[id] = DOMAIN prog.args[id] BY <2>1, <2>4, DriversAre
    <3>2. PICK i \in DOMAIN prog.args[id] : v = mat.drv[id][i] BY <2>2, <3>1 DEF ToSet
    <3> DEFINE a == prog.args[id][i]
    <3>3. /\ a \in ArgSet(prog, id) /\ (a \in g.const => v = a)
          /\ (a \notin g.const => v = At(mat, a, Offset(id, a)))
      BY <2>1, <2>4, <3>2, DriversAre
    <3> HIDE DEF a
    <3>4. CASE a \in g.const
      <4>1. a \in g.live BY <1>0, <2>1, <3>3, OperandsAreLive
      <4>2. a # prog.vout
        <5>1. id \in Signals(prog) BY <1>0, <2>1, OrderIsFinite
        <5> QED BY <1>0, <3>3, <5>1 DEF WellFormed
      <4>3. Levels[a] = {} BY <3>4, <4>1, <4>2 DEF Levels, Net
      <4> QED BY <3>3, <3>4, <4>1, <4>3 DEF Net
    <3>5. CASE a \notin g.const
      <4>1. /\ a \in Registered(g) /\ id \notin g.const
            /\ Offset(id, a) \in 0..Lengths[a] /\ stages[a] + Offset(id, a) = stages[id]
        BY <2>1, <3>3, <3>5, OffsetFacts
      <4>2. v \in Net /\ Levels[v] = {stages[a] + Offset(id, a)}
        BY <3>3, <3>5, <4>1, NetFacts
      <4>3. Levels[id] = {stages[id]} BY <2>1, <4>1 DEF Levels, Net
      <4> QED BY <4>1, <4>2, <4>3
    <3> QED BY <3>4, <3>5
  <2> QED BY <2>3, <2>4
<1> QED BY <1>2, <1>3, <1>4

\* In a pipelined design every path to a signal crosses stage(id) registers.
LEMMA PipelineIsBalanced ==
  ASSUME Ready, Complete(mat), last > 0, mat.drv = Drivers, NEW id \in g.live
  PROVE  Latencies[id] \subseteq {stages[id]}
<1>1. id \in Net BY DEF Net
<1>2. Latencies[id] \subseteq Levels[id]
  <2>1. IsFiniteSet(Net) BY NetFacts
  <2>2. Carries(Levels) BY LevelsCarry
  <2> QED BY <1>1, <2>1, <2>2, LatenciesWithin
<1>3. Levels[id] \subseteq {stages[id]} BY <1>1 DEF Levels
<1> QED BY <1>2, <1>3

\* Without register stages the program keeps its drivers, all in stage 0.
LEMMA ShortcutIsBalanced ==
  ASSUME Ready, last = 0, mat.regs = <<>>, mat.drv = Drivers,
         prog.vin # NoNode => mat.valid = <<prog.vin>>, NEW id \in g.live
  PROVE  Latencies[id] \subseteq {stages[id]}
<1>0. SoundGraph(g) /\ g.p = prog /\ g.input = Inputs(prog) /\ LegalStages(g, 0, stages)
  BY DEF Ready, SoundGraph
<1> DEFINE L == [w \in g.live |-> {stages[w]}]
<1>1. Regs = {} /\ RegNodes = {} BY DEF Regs, ToSet, RegNodes
<1>2. Net = g.live /\ IsFiniteSet(Net) BY <1>0, <1>1, OrderIsFinite DEF Net
<1>3. \A w \in g.live : stages[w] = 0 BY <1>0 DEF LegalStages
<1>4. ASSUME NEW w \in g.live, NEW v \in ToSet(mat.drv[w]) PROVE v \in g.live
  <2>1. CASE w = prog.vout /\ prog.vin # NoNode
    <3>1. mat.drv[w] = <<Last(mat.valid)>> /\ mat.valid = <<prog.vin>> BY <2>1 DEF Drivers
    <3>2. Last(mat.valid) = prog.vin BY <3>1 DEF Last
    <3>3. v = prog.vin BY <1>4, <3>1, <3>2 DEF ToSet
    <3> QED BY <2>1, <3>3, ValidInputFacts
  <2>2. CASE ~(w = prog.vout /\ prog.vin # NoNode)
    <3>1. mat.drv[w] = prog.args[w] BY <2>2 DEF Drivers
    <3>2. v \in ArgSet(prog, w) BY <1>4, <3>1 DEF ArgSet
    <3> QED BY <1>0, <3>2, OperandsAreLive
  <2> QED BY <2>1, <2>2
<1>5. Carries(L)
  <2> SUFFICES ASSUME NEW w \in Net
               PROVE  /\ w \in Inputs(prog) => 0 \in L[w]
                      /\ w \notin Inputs(prog) => \A v \in DriverOf(w) :
                           /\ v \in Net
                           /\ w \in RegNodes => \A x \in L[v] : x + 1 \in L[w]
                           /\ w \notin RegNodes => L[v] \subseteq L[w]
    BY DEF Carries
  <2>1. DriverOf(w) = ToSet(mat.drv[w]) BY <1>1 DEF DriverOf
  <2>2. \A v \in DriverOf(w) : v \in g.live BY <1>2, <1>4, <2>1
  <2>3. \A v \in g.live : L[v] = {0} BY <1>3
  <2> HIDE DEF L
  <2> QED BY <1>1, <1>2, <2>2, <2>3
<1> HIDE DEF L
<1>6. Latencies[id] \subseteq L[id] BY <1>2, <1>5, LatenciesWithin
<1> QED BY <1>6 DEF L

-----------------------------------------------------------------------------
(* The inductive invariant of the materialisation *)

\* The record build grows its design in.
IsRecord(m) == m = [regs |-> m.regs, delayed |-> m.delayed, valid |-> m.valid, drv |-> m.drv]

\* The registers are in place.
Materialised ==
  /\ last > 0 => Complete(mat)
  /\ last = 0 => mat.regs = <<>> /\ (prog.vin # NoNode => mat.valid = <<prog.vin>>)

DesignInv ==
  /\ phase = "wire" => Materialised /\ IsRecord(mat)
  /\ phase = "validate" => last > 0
  /\ phase \in {"validate", "done"} /\ ~Combinational => Materialised /\ mat.drv = Drivers
  /\ BuildSucceeds

\* After the baseline there is everything materialisation needs.
LEMMA ScheduledIsReady ==
  ASSUME IInv, Scheduled
  PROVE  /\ Ready /\ ~Combinational
         /\ report = Evaluate(g, last, stages) /\ 100 * report.delay <= Allowed
<1>1. Analysed BY DEF Analysed, Scheduled
<1>2. last \in Nat BY OptionsHold DEF IInv
<1> QED BY <1>1, <1>2 DEF IInv, GraphInv, RelaxInv, Ready

\* A complete design is complete for as long as nothing else changes.
LEMMA CompleteStays ==
  ASSUME UNCHANGED <<prog, last, g, stages>>, NEW m, Complete(m), mat'.regs = m.regs,
         mat'.delayed = m.delayed, mat'.valid = m.valid
  PROVE  Complete(mat)'
<1>1. Lengths' = Lengths /\ Registered(g)' = Registered(g) BY DEF Lengths, Registered
<1>2. Typed(mat)'
  <2>1. Typed(m) BY DEF Complete
  <2> QED BY <2>1 DEF Typed
<1>3. ASSUME NEW id \in Registered(g) PROVE Chain(mat, id, Lengths[id])'
  <2>1. Chain(m, id, Lengths[id]) BY DEF Complete
  <2>2. \A j \in 1..Lengths[id] : Link(m, id, j) BY <2>1 DEF Chain
  <2>3. \A j \in 1..Lengths[id] : Link(mat, id, j)' BY <2>2 DEF Link
  <2> QED BY <1>1, <2>1, <2>3 DEF Chain
<1>4. ASSUME NEW x \in 1..Len(m.regs)
      PROVE  /\ m.regs[x].node = prog.n + x
             /\ m.regs[x].enable = EnableOf(mat, m.regs[x])'
             /\ Owned(mat, Lengths, x)'
  <2>1. /\ m.regs[x].node = prog.n + x
        /\ m.regs[x].enable = EnableOf(m, m.regs[x]) /\ Owned(m, Lengths, x)
    BY DEF Complete
  <2>2. EnableOf(mat, m.regs[x])' = EnableOf(m, m.regs[x]) BY DEF EnableOf
  <2>3. Owned(mat, Lengths, x)' BY <1>1, <2>1 DEF Owned
  <2> QED BY <2>1, <2>2, <2>3
<1>5. m.valid = IF prog.vin = NoNode THEN <<>> ELSE m.delayed[prog.vin] BY DEF Complete
<1> QED BY <1>1, <1>2, <1>3, <1>4, <1>5 DEF Complete

\* A design stays what it is when only its drivers change.
LEMMA MaterialisedStays ==
  ASSUME UNCHANGED <<prog, last, g, stages>>, mat'.regs = mat.regs,
         mat'.delayed = mat.delayed, mat'.valid = mat.valid
  PROVE  /\ Materialised => Materialised'
         /\ Drivers' = Drivers
<1>1. Drivers' = Drivers BY DEF Drivers, Wired, Offset
<1>2. Complete(mat) => Complete(mat)' BY CompleteStays
<1> QED BY <1>1, <1>2 DEF Materialised

\* The chain loops leave a complete design.
LEMMA ChainsDesign == ASSUME IInv, DesignInv, Chains PROVE DesignInv'
<1>1. phase = "chain" /\ phase' = "wire" /\ UNCHANGED <<prog, last, g, stages>>
      /\ mat' = (IF last = 0
                 THEN [NoDesign EXCEPT !.valid = IF prog.vin = NoNode THEN <<>> ELSE <<prog.vin>>]
                 ELSE ValidChain(DataChains))
  BY DEF Chains
<1>2. Ready BY <1>1, ScheduledIsReady DEF Scheduled
<1>3. CASE last = 0
  <2> DEFINE v == IF prog.vin = NoNode THEN <<>> ELSE <<prog.vin>>
  <2>1. mat' = [NoDesign EXCEPT !.valid = v] BY <1>1, <1>3
  <2>2. prog.vin # NoNode => v = <<prog.vin>> OBVIOUS
  <2> HIDE DEF v
  <2>3. mat' = [regs |-> <<>>, delayed |-> <<>>, valid |-> v, drv |-> <<>>]
    BY <2>1 DEF NoDesign
  <2>4. mat'.regs = <<>> /\ mat'.valid = v BY <2>3
  <2>5. IsRecord(mat)' BY <2>3 DEF IsRecord
  <2>6. Materialised' BY <1>1, <1>3, <2>2, <2>4 DEF Materialised
  <2> QED BY <1>1, <2>5, <2>6 DEF DesignInv, BuildSucceeds
<1>4. CASE last # 0
  <2> DEFINE m == ValidChain(DataChains)
  <2>1. Complete(m) /\ m \in Designs BY <1>2, ChainsAreComplete
  <2>2. mat' = m BY <1>1, <1>4
  <2> HIDE DEF m
  <2>3. IsRecord(mat)' BY <2>1, <2>2 DEF Designs, IsRecord
  <2>4. Complete(mat)' BY <1>1, <2>1, <2>2, CompleteStays
  <2>5. Materialised' BY <1>1, <1>4, <2>4 DEF Materialised
  <2> QED BY <1>1, <2>3, <2>5 DEF DesignInv, BuildSucceeds
<1> QED BY <1>3, <1>4

\* Rewiring succeeds and leaves the drivers of the complete design.
LEMMA RewireDesign == ASSUME IInv, DesignInv, Rewire PROVE DesignInv'
<1>1. phase = "wire" /\ UNCHANGED <<prog, last, g, stages>>
      /\ mat' = (IF CanWire THEN [mat EXCEPT !.drv = Drivers] ELSE mat)
      /\ phase' = (IF ~CanWire THEN "failed" ELSE IF last = 0 THEN "done" ELSE "validate")
  BY DEF Rewire
<1>2. Ready /\ last \in Nat BY <1>1, ScheduledIsReady DEF Scheduled, Ready
<1>3. Materialised /\ IsRecord(mat) BY <1>1 DEF DesignInv
<1>4. CanWire
  <2>1. CASE last > 0 BY <1>2, <1>3, <2>1, AlwaysWires DEF Materialised
  <2>2. CASE ~(last > 0) BY <2>2 DEF CanWire
  <2> QED BY <2>1, <2>2
<1> DEFINE d == Drivers
<1>5. mat' = [mat EXCEPT !.drv = d] BY <1>1, <1>4
<1> HIDE DEF d
<1>6. mat'.regs = mat.regs /\ mat'.delayed = mat.delayed /\ mat'.valid = mat.valid
      /\ mat'.drv = d
  BY <1>3, <1>5 DEF IsRecord
<1>7. Materialised' /\ Drivers' = Drivers BY <1>1, <1>3, <1>6, MaterialisedStays
<1>8. (mat.drv = Drivers)' BY <1>6, <1>7 DEF d
<1>9. phase' = (IF last = 0 THEN "done" ELSE "validate") BY <1>1, <1>4
<1>10. phase' = "validate" => (last > 0)' BY <1>1, <1>2, <1>9
<1> QED BY <1>7, <1>8, <1>9, <1>10 DEF DesignInv, BuildSucceeds

\* validateProgram accepts the complete design.
LEMMA ValidateDesign == ASSUME IInv, DesignInv, Validate PROVE DesignInv'
<1>1. phase = "validate" /\ UNCHANGED <<prog, last, g, stages, mat>>
      /\ phase' = (IF ProgramValid THEN "done" ELSE "rejected")
  BY DEF Validate
<1>2. /\ Ready /\ ~Combinational
      /\ report = Evaluate(g, last, stages) /\ 100 * report.delay <= Allowed
  BY <1>1, ScheduledIsReady DEF Scheduled
<1>3. last > 0 /\ Materialised /\ mat.drv = Drivers BY <1>1, <1>2 DEF DesignInv
<1>4. ProgramValid BY <1>2, <1>3, DesignIsValid DEF Materialised
<1>5. Materialised' /\ Drivers' = Drivers BY <1>1, <1>3, MaterialisedStays
<1>6. phase' = "done" /\ (mat.drv = Drivers)' BY <1>1, <1>3, <1>4, <1>5
<1> QED BY <1>5, <1>6 DEF DesignInv, BuildSucceeds

\* The other steps neither touch the design nor end in a failure of their own.
LEMMA OtherStepsDesign ==
  ASSUME IInv, DesignInv, [Next]_vars, ~Chains, ~Rewire, ~Validate
  PROVE  DesignInv'
<1> USE DEF DesignInv, BuildSucceeds
<1>1. CASE ReturnProgram BY <1>1 DEF ReturnProgram, Combinational
<1>2. CASE RejectGraph BY <1>2 DEF RejectGraph, Throw
<1>3. CASE AnalyseGraph BY <1>3 DEF AnalyseGraph
<1>4. CASE StartSchedule
  <2>1. phase' = "bisect" BY <1>4, StartScheduleIInv
  <2> QED BY <2>1
<1>5. CASE Bisect BY <1>5 DEF Bisect
<1>6. CASE TakeBaseline BY <1>6 DEF TakeBaseline
<1>7. CASE Relax BY <1>7 DEF Relax
<1>8. CASE EndRelax BY <1>8 DEF EndRelax
<1>9. CASE UNCHANGED vars
  <2>1. UNCHANGED <<phase, prog, last, g, stages, mat>> BY <1>9 DEF vars
  <2>2. /\ Materialised => Materialised'
        /\ Drivers' = Drivers
    BY <2>1, MaterialisedStays
  <2> QED BY <2>1, <2>2 DEF IsRecord, Combinational, Undriven, Cyclic
<1>10. CASE Returned BY <1>9, <1>10 DEF Returned
<1> QED
  BY <1>1, <1>2, <1>3, <1>4, <1>5, <1>6, <1>7, <1>8, <1>9, <1>10 DEF Next

\* The second half of build is correct: from the chain loops on the design is
\* complete, after rewiring its drivers read the chains, and no step fails that
\* the Graph constructor let through.
THEOREM DesignIsMaterialised == Spec => []DesignInv
<1>1. Init => DesignInv BY DEF Init, DesignInv, BuildSucceeds
<1>2. IInv /\ DesignInv /\ [Next]_vars => DesignInv'
  BY ChainsDesign, RewireDesign, ValidateDesign, OtherStepsDesign
<1> QED BY <1>1, <1>2, Scheduler, PTL DEF Spec

-----------------------------------------------------------------------------
(* What the invariant gives *)

\* build completes on every graph with its drivers and no cycle: no "no feasible
\* schedule", no vector::at, no rejection by its own validateProgram.
THEOREM BuildAlwaysSucceeds == Spec => []BuildSucceeds
<1>1. DesignInv => BuildSucceeds BY DEF DesignInv
<1> QED BY <1>1, DesignIsMaterialised, PTL

\* A signal is registered at most once per stage: all readers of a stage share
\* one delay chain.
THEOREM ChainsAreShared == Spec => []ChainsShared
<1>1. IInv /\ DesignInv => ChainsShared
  <2> SUFFICES ASSUME IInv, DesignInv, phase = "validate", NEW r \in Regs, NEW q \in Regs,
                      Placement[r.node] = Placement[q.node]
               PROVE  r = q
    BY DEF ChainsShared
  <2>1. Ready /\ ~Combinational BY ScheduledIsReady DEF Scheduled
  <2>2. Complete(mat) BY <2>1 DEF DesignInv, Materialised
  <2> QED BY <2>1, <2>2, PlacesDiffer
<1> QED BY <1>1, Scheduler, DesignIsMaterialised, PTL

\* Every path from an input to a signal at stage s crosses exactly s registers,
\* so the operands of an output belong to one transaction.
THEOREM LatencyIsBalanced == Spec => []LatencyBalanced
<1>1. IInv /\ DesignInv => LatencyBalanced
  <2> SUFFICES ASSUME IInv, DesignInv, phase \in {"validate", "done"}, ~Combinational,
                      NEW id \in g.live
               PROVE  Latencies[id] \subseteq {stages[id]}
    BY DEF LatencyBalanced
  <2>1. Ready /\ last \in Nat BY ScheduledIsReady DEF Scheduled, Ready
  <2>2. Materialised /\ mat.drv = Drivers BY DEF DesignInv
  <2>3. CASE last > 0 BY <2>1, <2>2, <2>3, PipelineIsBalanced DEF Materialised
  <2>4. CASE last = 0
    <3>1. mat.regs = <<>> /\ (prog.vin # NoNode => mat.valid = <<prog.vin>>)
      BY <2>2, <2>4 DEF Materialised
    <3> QED BY <2>1, <2>2, <2>4, <3>1, ShortcutIsBalanced
  <2> QED BY <2>1, <2>3, <2>4
<1> QED BY <1>1, Scheduler, DesignIsMaterialised, PTL
=============================================================================
