------------------------------ MODULE PipeGraph ------------------------------
(***************************************************************************)
(* The scheduling graph of the automatic pipeliner (struct Graph of        *)
(* src/backend/pipeline.cpp) and the pure functions the scheduler runs on  *)
(* it: liveness, the ready-queue topological order, constants, delays, the *)
(* earliest feasible placement under a cost cap, and the evaluation of a   *)
(* placement.                                                              *)
(*                                                                         *)
(* A combinational program is a record                                     *)
(*   n      the number of signals; NodeIds are 1..n                        *)
(*   kind   [1..n -> {"in", "op", "call", "none"}]: an input (a port       *)
(*          element or a PortRead), an operation, a Call, or no driver     *)
(*   args   [1..n -> Seq(1..n)]: the Symbol operands of the driver;        *)
(*          literal operands carry no dependency and are left out          *)
(*   cost   [1..n -> Nat]: the delay weight of the operation               *)
(*   width  [1..n -> Nat]: bits(type) of the signal                        *)
(*   out    the output port elements                                       *)
(*   vin, vout  the elements of the valid ports, or NoNode (0)               *)
(* Delays are doubles in the code.  They are integers here, one unit being *)
(* one representable step.                                                 *)
(***************************************************************************)
EXTENDS Integers, Sequences, FiniteSets, SequencesExt, FiniteSetsExt

NoNode == 0
Unreachable == -1            \* evaluate's infinite final_delay

Signals(p) == 1..p.n
ArgSet(p, id) == ToSet(p.args[id])
Inputs(p) == {id \in Signals(p) : p.kind[id] = "in"}

\* What S11 and the optimizer hand over: inputs are port reads without Symbol
\* operands, the elements of output ports are signals of their own, and the
\* valid ports, if there are any, are one input and one output that nothing
\* reads.
WellFormed(p) ==
  /\ p.n \in Nat
  /\ p.kind \in [Signals(p) -> {"in", "op", "call", "none"}]
  /\ p.args \in [Signals(p) -> Seq(Signals(p))]
  /\ p.cost \in [Signals(p) -> Nat]
  /\ p.width \in [Signals(p) -> Nat]
  /\ p.out \subseteq Signals(p) \ Inputs(p)
  /\ \A id \in Inputs(p) : p.args[id] = <<>>
  /\ \/ p.vin = NoNode /\ p.vout = NoNode
     \/ p.vin \in Inputs(p) /\ p.vout \in p.out
  /\ \A id \in Signals(p) : p.vout \notin ArgSet(p, id)

PortElements(p) == Inputs(p) \cup p.out

\* Graph's pending worklist: everything the ports reach backwards.
Live(p) ==
  LET step(reach, k) == reach \cup UNION {ArgSet(p, id) : id \in reach}
  IN FoldLeft(step, PortElements(p), [k \in Signals(p) |-> k])

\* A live signal needs a driver unless it is an input.
Undriven(p) == \E id \in Live(p) : p.kind[id] = "none"

\* Kahn's algorithm with a smallest-id-first ready queue.
Order(p) ==
  LET live == Live(p)
      step(done, k) ==
        LET ready == {id \in live \ ToSet(done) : ArgSet(p, id) \subseteq ToSet(done)}
        IN IF ready = {} THEN done ELSE Append(done, Min(ready))
  IN FoldLeft(step, <<>>, [k \in Signals(p) |-> k])

Cyclic(p) == Len(Order(p)) # Cardinality(Live(p))

\* An operation on literals and constants only; a Call never is one.
Constants(p) ==
  LET step(found, id) ==
        IF p.kind[id] = "op" /\ ArgSet(p, id) \subseteq found
        THEN found \cup {id} ELSE found
  IN FoldLeft(step, {}, Order(p))

\* Everything later phases read of a graph, computed once.
Analyse(p) ==
  LET live == Live(p)
  IN [p |-> p, live |-> live, order |-> Order(p), const |-> Constants(p),
      input |-> Inputs(p),
      users |-> [id \in Signals(p) |-> {u \in live : id \in ArgSet(p, u)}]]

Cost(g, id) == IF id \in g.const \cup g.input THEN 0 ELSE g.p.cost[id]
DataArgs(g, id) == ArgSet(g.p, id) \ g.const
MaxOf(S) == Max({0} \cup S)

-----------------------------------------------------------------------------
(* Graph::schedule *)

\* The stage at which a node's operands have arrived; outputs wait for the
\* last stage.
Wanted(g, last, acc, id) ==
  IF id \in g.p.out THEN last ELSE MaxOf({acc.stage[v] : v \in DataArgs(g, id)})

\* Mutant: delays of earlier stages are added too.
AllOperands(g, acc, id, s) == DataArgs(g, id)

\* The operands whose delay adds up within stage s.
SameStage(g, acc, id, s) == {v \in DataArgs(g, id) : acc.stage[v] = s}

Fits(g, last, cap, id, s) == s <= last /\ Cost(g, id) <= cap

\* One node: as early as its operands allow, one stage later when the delay
\* would exceed the cap.  A failed placement stays failed.
PlaceNode(g, last, cap, acc, id) ==
  IF ~acc.ok \/ id \in g.input \cup g.const THEN acc
  ELSE
    LET wanted  == Wanted(g, last, acc, id)
        arrival == MaxOf({acc.arrival[v] : v \in SameStage(g, acc, id, wanted)})
        spills  == arrival + Cost(g, id) > cap
        s       == IF spills THEN wanted + 1 ELSE wanted
    IN IF ~Fits(g, last, cap, id, s)
       THEN [acc EXCEPT !.ok = FALSE]
       ELSE [acc EXCEPT !.stage[id] = s,
                        !.arrival[id] = IF spills THEN Cost(g, id)
                                        ELSE arrival + Cost(g, id)]

Schedule(g, last, cap) ==
  LET zero   == [id \in Signals(g.p) |-> 0]
      place(acc, id) == PlaceNode(g, last, cap, acc, id)
      placed == FoldLeft(place, [ok |-> TRUE, stage |-> zero, arrival |-> zero],
                         g.order)
  IN [placed EXCEPT !.stage =
        [id \in Signals(g.p) |->
           IF id \in g.p.out \cap g.const THEN last ELSE placed.stage[id]]]

-----------------------------------------------------------------------------
(* Graph::evaluate *)

\* The ranges and directions evaluate rejects with an infinite delay.
LegalStages(g, last, stage) ==
  \A id \in g.live :
    /\ stage[id] \in 0..last
    /\ id \in g.input => stage[id] = 0
    /\ id \in g.p.out => stage[id] = last
    /\ id \notin g.const \cup g.input =>
         \A v \in DataArgs(g, id) : stage[v] <= stage[id]

Arrivals(g, stage) ==
  LET step(a, id) ==
        IF id \in g.const \cup g.input THEN a
        ELSE [a EXCEPT ![id] = Cost(g, id) + MaxOf({a[v] :
                v \in {u \in DataArgs(g, id) : stage[u] = stage[id]}})]
  IN FoldLeft(step, [id \in Signals(g.p) |-> 0], g.order)

StageDelays(g, last, stage) ==
  LET a == Arrivals(g, stage)
  IN [s \in 0..last |->
        MaxOf({a[id] : id \in {i \in g.live : stage[i] = s}})]

\* Mutant: the valid chain is not counted.
LastUseOfUsers(g, last, stage, id) ==
  Max({stage[id]} \cup {stage[u] : u \in g.users[id]})

\* The last stage that reads a node, directly or through its registers; the
\* valid input feeds its own chain up to the last stage.
LastUse(g, last, stage, id) ==
  IF id = g.p.vin THEN last
  ELSE Max({stage[id]} \cup {stage[u] : u \in g.users[id]})

Registered(g) == g.live \ g.const

Evaluate(g, last, stage) ==
  IF ~LegalStages(g, last, stage)
  THEN [delay |-> Unreachable, bits |-> 0, count |-> 0, stages |-> <<>>]
  ELSE LET delays == StageDelays(g, last, stage)
           chain(id) == LastUse(g, last, stage, id) - stage[id]
       IN [delay  |-> Max({delays[s] : s \in 0..last}),
           bits   |-> MapThenSumSet(LAMBDA id : g.p.width[id] * chain(id), Registered(g)),
           count  |-> MapThenSumSet(chain, Registered(g)),
           stages |-> delays]
=============================================================================
