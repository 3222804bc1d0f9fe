------------------------------- MODULE PipeRtl -------------------------------
(***************************************************************************)
(* A materialised pipeline running: the RTL that build() of pipeline.cpp   *)
(* lays out and emitRegisters of rtlgen.cpp prints, with the reset values  *)
(* of pipeline_reset.cpp.  In a clock cycle the wires settle in any order  *)
(* their drivers allow; at the edge every register loads at once.          *)
(*                                                                         *)
(* A design is a record                                                    *)
(*   node, in, const, out  the live signals, and which of them are inputs, *)
(*          constants and output elements (without the valid output)       *)
(*   args   [node -> Seq(node)]: the Symbol operands of the drivers        *)
(*   depth  register_stages                                                *)
(*   stage, end  [node -> 0..depth]: the computation stage of a signal and *)
(*          the last stage that reads it                                   *)
(*   vin    the valid input, or None                                       *)
(*   reset  reset_enabled                                                  *)
(*   x, x0  the input vectors and the input reset values                   *)
(*   comb   [node -> [x -> value]]: what the combinational program         *)
(*          computes                                                       *)
(***************************************************************************)
EXTENDS Integers, Sequences

CONSTANTS
  Designs,       \* the pipelines to run
  Apply(_, _),   \* the value of an operation on its operand values
  None,          \* no valid port
  Unknown        \* the inputs of before power-up

\* A legal schedule (PipeBuild's BuildSucceeds and LatencyBalanced), and the
\* equations of the combinational program.
LegalDesign(e) ==
  /\ e.depth \in Nat
  /\ e.in \subseteq e.node /\ e.const \subseteq e.node /\ e.out \subseteq e.node
  /\ e.in \cap e.const = {}
  /\ None \notin e.node
  /\ e.vin \in e.in \cup {None}
  /\ e.stage \in [e.node -> 0..e.depth] /\ e.end \in [e.node -> 0..e.depth]
  /\ e.args \in [e.node -> Seq(e.node)]
  /\ e.reset \in BOOLEAN
  /\ e.x0 \in e.x
  /\ Unknown \notin e.x
  /\ \A id \in e.in :
       /\ e.stage[id] = 0
       /\ \A x \in e.x : e.comb[id][x] = x[id]
  /\ e.vin # None => e.end[e.vin] = e.depth /\ \A x \in e.x : x[e.vin] \in BOOLEAN
  /\ \A id \in e.out : e.stage[id] = e.depth
  /\ \A id \in e.const : \A x, y \in e.x : e.comb[id][x] = e.comb[id][y]
  /\ \A id \in e.node \ e.in :
       /\ \A x \in e.x : e.comb[id][x] =
            Apply(id, [i \in DOMAIN e.args[id] |-> e.comb[e.args[id][i]][x]])
       /\ \A i \in DOMAIN e.args[id] :
            LET v == e.args[id][i]
            IN /\ id \in e.const => v \in e.const
               /\ v \notin e.const =>
                    e.stage[v] <= e.stage[id] /\ e.stage[id] <= e.end[v]

ASSUME DesignsAreLegal == \A e \in Designs : LegalDesign(e)

VARIABLES
  d,      \* the design
  in,     \* the inputs presented in this cycle
  wire,   \* the values of the signals that have settled
  q,      \* the registers
  data, flag,  \* the outputs sampled at the last edge
  line,   \* history: the inputs of the last depth + 1 cycles
  fresh   \* history: the last edge was a reset

vars == <<d, in, wire, q, data, flag, line, fresh>>

-----------------------------------------------------------------------------
(* The register table and the operand wiring of build() *)

\* <<id, s>> is the register of signal id at stage s.
Registers == {r \in (d.node \ d.const) \X (1..d.depth) :
                d.stage[r[1]] < r[2] /\ r[2] <= d.end[r[1]]}

\* Signal id as it is seen at stage s: the wire, or its register there.
Seen(id, s) == IF s = d.stage[id] THEN wire[id] ELSE q[<<id, s>>]

\* Mutant: a register too far, where there is one.
OperandTooLate(id, v) ==
  LET s == d.stage[id]
  IN IF v \in d.const THEN wire[v]
     ELSE IF <<v, s + 1>> \in Registers THEN q[<<v, s + 1>>] ELSE Seen(v, s)

\* Operands follow their reader's stage; constants are never registered.
Operand(id, v) == IF v \in d.const THEN wire[v] ELSE Seen(v, d.stage[id])

\* The wires a driver waits for.
Awaited(id) ==
  {v \in d.node : /\ \E i \in DOMAIN d.args[id] : d.args[id][i] = v
                  /\ v \in d.const \/ d.stage[v] = d.stage[id]}

\* Mutant: the enable is the valid of the register's own stage.
EnabledByOwnStage(r) == d.vin \in {None, r[1]} \/ Seen(d.vin, r[2]) = TRUE

\* Mutant: the valid registers have an enable as well.
EnabledAll(r) == d.vin = None \/ Seen(d.vin, r[2]) = TRUE

\* Data registers take the valid of the previous stage as their enable; the
\* valid registers always advance.
Enabled(r) == d.vin \in {None, r[1]} \/ Seen(d.vin, r[2] - 1) = TRUE

\* Mutant: reset loads nothing known.
ResetUnknown(r) == Unknown

\* pipeline_reset.cpp evaluates the materialised graph on the input reset
\* values, registers being transparent.
ResetValue(r) == d.comb[r[1]][d.x0]

\* Mutant: only the valid chain is reset.
LoadValidReset(r, reset) ==
  IF reset /\ r[1] = d.vin THEN ResetValue(r)
  ELSE IF Enabled(r) THEN Seen(r[1], r[2] - 1) ELSE q[r]

\* What a register loads at an edge.
Load(r, reset) ==
  IF reset THEN ResetValue(r)
  ELSE IF Enabled(r) THEN Seen(r[1], r[2] - 1) ELSE q[r]

\* Mutant: the valid output leaves a cycle early.
ValidEarly == IF d.vin = None THEN TRUE ELSE Seen(d.vin, d.depth - 1)

ValidNow == IF d.vin = None THEN TRUE ELSE Seen(d.vin, d.depth)

-----------------------------------------------------------------------------
NoWires == [id \in {} |-> Unknown]

\* Registers hold anything at power-up; a valid register is a bit.
Init ==
  /\ d \in Designs
  /\ in \in d.x
  /\ wire = NoWires
  /\ q \in [Registers -> {Unknown, TRUE, FALSE}]
  /\ \A r \in Registers : q[r] = Unknown <=> r[1] # d.vin
  /\ data = Unknown /\ flag = Unknown
  /\ line = [k \in 0..d.depth |-> IF k = 0 THEN in ELSE Unknown]
  /\ fresh = FALSE

\* A signal whose drivers have settled takes its value.
Settle(id) ==
  /\ id \notin DOMAIN wire
  /\ id \notin d.in => Awaited(id) \subseteq DOMAIN wire
  /\ wire' = [w \in DOMAIN wire \cup {id} |->
                IF w # id THEN wire[w]
                ELSE IF id \in d.in THEN in[id]
                ELSE Apply(id, [i \in DOMAIN d.args[id] |-> Operand(id, d.args[id][i])])]
  /\ UNCHANGED <<d, in, q, data, flag, line, fresh>>

\* The rising clock edge, once every wire is stable: always_ff loads all
\* registers from the old values, the environment samples the outputs and
\* presents the next inputs.
Clock(reset, next) ==
  /\ DOMAIN wire = d.node
  /\ q' = [r \in Registers |-> Load(r, reset)]
  /\ data' = [id \in d.out |-> wire[id]]
  /\ flag' = ValidNow
  /\ in' = next
  /\ wire' = NoWires
  /\ line' = [k \in 0..d.depth |->
                IF k = 0 THEN next ELSE IF reset THEN d.x0 ELSE line[k - 1]]
  /\ fresh' = reset
  /\ UNCHANGED d

Next ==
  \/ \E id \in d.node : Settle(id)
  \/ \E reset \in {FALSE, d.reset}, next \in d.x : Clock(reset, next)

Spec == Init /\ [][Next]_vars

\* Drivers settle in the end, and the clock goes on.
FairSpec ==
  /\ Spec
  /\ WF_vars(\E id \in d.node : Settle(id))
  /\ WF_vars(\E reset \in {FALSE, d.reset}, next \in d.x : Clock(reset, next))

-----------------------------------------------------------------------------
(* Properties *)

Valid(x) == IF d.vin = None THEN TRUE ELSE x[d.vin]

\* The type of the running pipeline: one value per register, wires only for
\* live signals, and a bit in every valid register.
TypeOK ==
  /\ in \in d.x
  /\ DOMAIN wire \subseteq d.node
  /\ DOMAIN q = Registers
  /\ \A r \in Registers : r[1] = d.vin => q[r] \in BOOLEAN
  /\ flag \in BOOLEAN \cup {Unknown}
  /\ line \in [0..d.depth -> d.x \cup {Unknown}]
  /\ line[0] = in

\* Every register of stage s belongs to the transaction presented s cycles
\* ago: it holds the value its signal has for those inputs, unless they were
\* a bubble and it was left alone.
RegistersAligned ==
  \A r \in Registers :
    LET x == line[r[2]]
    IN x # Unknown /\ (r[1] = d.vin \/ Valid(x)) => q[r] = d.comb[r[1]][x]

\* Every wire of stage s is computed from the operands of one transaction,
\* the one presented s cycles ago; constants belong to all of them.
WiresAligned ==
  \A id \in DOMAIN wire :
    LET x == line[d.stage[id]]
    IN /\ id \in d.const => wire[id] = d.comb[id][d.x0]
       /\ x # Unknown /\ (id \in d.in \/ Valid(x)) => wire[id] = d.comb[id][x]

\* In the cycle after a reset the module shows the outputs the report
\* announces (output_reset_values): what the program computes on the input
\* reset values, whatever was in flight and whatever is presented now.
ResetOutputs ==
  fresh => \A id \in DOMAIN wire :
             d.stage[id] > 0 => wire[id] = d.comb[id][d.x0]

\* The pipeline implements the delay line of its combinational program:
\* every valid transaction leaves after exactly depth cycles with its own
\* result, and a bubble or a reset never produces a valid output.
Promise ==
  [depth |-> d.depth, x |-> d.x, x0 |-> d.x0, reset |-> d.reset,
   valid |-> [x \in d.x |-> Valid(x)],
   result |-> [x \in d.x |-> [id \in d.out |-> d.comb[id][x]]]]

\* No transaction is stuck: no driver waits for itself through others, and
\* what is presented as valid is followed by a valid output, unless a reset
\* discards it. The valid registers advance whatever they hold.
ValidIsDelivered == d.vin # None /\ Valid(in) ~> flag = TRUE \/ fresh

Line == INSTANCE DelayLine WITH promise <- Promise
ImplementsDelayLine == Line!Spec
=============================================================================
