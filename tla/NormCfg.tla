------------------------------- MODULE NormCfg -------------------------------
(***************************************************************************)
(* The program between stages S8 and S9 (src/s8opnorm/S8Norm.h): a         *)
(* loop-free CFG over scalar variables, every value an unsigned word of a  *)
(* given width, and what it means to run it.                               *)
(*                                                                         *)
(*   blocks   Seq of [stmts, term]; a BlockId is an index                  *)
(*   entry, exit   BlockIds                                                *)
(*   types    Seq of [w, bool]; a SymbolId is an index                     *)
(*   ports    Seq of [x, dir]; dir is "in" or "out" (by mutable reference) *)
(*                                                                         *)
(* A statement reads its operands args and writes the symbols to.          *)
(***************************************************************************)
EXTENDS Integers, Sequences, FiniteSets, SequencesExt, FiniteSetsExt

NoBlock == 0
Undef == -1

Word(w) == [w |-> w, bool |-> FALSE]
Bool == [w |-> 1, bool |-> TRUE]

\* A literal keeps the low bits that its type has room for.
Lit(v, t) == [kind |-> "lit", v |-> v % 2^t.w, t |-> t]
Var(x) == [kind |-> "var", v |-> x]

Assign(x, a) == [k |-> "assign", op |-> "copy", to |-> <<x>>, args |-> <<a>>]
Op(x, op, args) == [k |-> "op", op |-> op, to |-> <<x>>, args |-> args]
Lookup(x, index, elems) ==
  [k |-> "lookup", op |-> "lookup", to |-> <<x>>, args |-> <<index>> \o elems]
LookupWrite(targets, index, value, elems) ==
  [k |-> "write", op |-> "write", to |-> targets, args |-> <<index, value>> \o elems]

Unreachable == [kind |-> "unreachable", on |-> <<>>, cases |-> <<>>, to |-> <<>>]
Exit == [Unreachable EXCEPT !.kind = "exit"]
Jump(b) == [Unreachable EXCEPT !.kind = "jump", !.to = <<b>>]
Branch(c, yes, no) == [Unreachable EXCEPT !.kind = "branch", !.on = <<c>>, !.to = <<yes, no>>]
\* The default target comes last.
Switch(a, cases, to) == [kind |-> "switch", on |-> <<a>>, cases |-> cases, to |-> to]

Blocks(f) == DOMAIN f.blocks
Succs(f, b) == ToSet(f.blocks[b].term.to)
Preds(f, b) == {a \in Blocks(f) : b \in Succs(f, a)}

\* What the blocks of from lead to along the edges succ: one step per block is
\* enough.
Advance(reach, succ) == reach \cup UNION {succ[a] : a \in reach}
Spread(succ, from) == FoldLeft(Advance, from, [b \in DOMAIN succ |-> succ])
ReachFrom(f, from) == Spread([b \in Blocks(f) |-> Succs(f, b)], from)
Reads(args) == {a.v : a \in {o \in ToSet(args) : o.kind = "var"}}
ReadsOfTerm(t) == Reads(t.on) \cup Reads(t.cases)

\* The elements of a set of numbers, each at its rank.
Ascending(S) ==
  [i \in 1..Cardinality(S) |-> CHOOSE x \in S : Cardinality({y \in S : y < x}) = i - 1]

PortsOf(f, dir) == {p.x : p \in {q \in ToSet(f.ports) : q.dir = dir}}
InputPorts(f) == PortsOf(f, "in")
OutputPorts(f) == PortsOf(f, "out")

\* What verifyNormProgram, analyzeCFG and rewriteLookupWrite ask of a function:
\* symbols and blocks that exist, operands of the type that is written, and
\* one element for every target of a dynamic write.
IsSequence(s) == s \in Seq(ToSet(s))
OperandType(f, o) == IF o.kind = "lit" THEN o.t ELSE f.types[o.v]
OperandsOk(f, args) ==
  IsSequence(args) /\ \A o \in ToSet(args) : o.kind # "lit" => o.kind = "var" /\ o.v \in DOMAIN f.types
StmtAllowed(f, s) ==
  /\ OperandsOk(f, s.args)
  /\ IsSequence(s.to) /\ ToSet(s.to) \subseteq DOMAIN f.types
  /\ IF s.k = "write" THEN Len(s.args) = Len(s.to) + 2 /\ IsInjective(s.to) ELSE Len(s.to) = 1
  /\ s.k = "assign" => s.args # <<>> /\ OperandType(f, s.args[1]) = f.types[s.to[1]]
  /\ s.k = "lookup" => /\ s.args # <<>>
                       /\ \A e \in ToSet(Tail(s.args)) : OperandType(f, e) = f.types[s.to[1]]
TermAllowed(f, t) ==
  OperandsOk(f, t.on) /\ OperandsOk(f, t.cases) /\ IsSequence(t.to) /\ ToSet(t.to) \subseteq Blocks(f)
WellFormed(f) ==
  /\ IsSequence(f.blocks) /\ IsSequence(f.types) /\ IsSequence(f.ports)
  /\ {f.entry, f.exit} \subseteq Blocks(f)
  /\ \A p \in ToSet(f.ports) : p.x \in DOMAIN f.types /\ p.dir \in {"in", "out"}
  /\ \A b \in Blocks(f) :
       /\ IsSequence(f.blocks[b].stmts) /\ TermAllowed(f, f.blocks[b].term)
       /\ \A s \in ToSet(f.blocks[b].stmts) : StmtAllowed(f, s)

-----------------------------------------------------------------------------
(* Operations on words.  An operation on an unknown value is unknown.      *)

Bit(p) == IF p THEN 1 ELSE 0

OpValue(op, w, v) ==
  IF Undef \in ToSet(v) THEN Undef
  ELSE CASE op = "copy"      -> v[1]
         [] op = "add"       -> (v[1] + v[2]) % 2^w
         [] op = "eq"        -> Bit(v[1] = v[2])
         [] op = "not"       -> 1 - v[1]
         [] op = "and"       -> v[1] * v[2]
         [] op = "or"        -> Bit(1 \in {v[1], v[2]})
         [] op = "mux"       -> IF v[1] = 1 THEN v[2] ELSE v[3]
         [] op = "trunc"     -> v[1] % 2^w
         [] op = "zext"      -> v[1]
         [] op = "dyn_bit"   -> (v[1] \div 2^v[2]) % 2
         [] op = "reduce_or" -> Bit(v[1] # 0)
         \* An index past the end gives 0: no function of the runs has one
         \* where its value matters.
         [] op = "lookup"    -> IF v[1] + 2 \in DOMAIN v THEN v[v[1] + 2] ELSE 0

\* The block that a terminator goes to, given the values of its operands.
Taken(t, on, cases) ==
  LET hits == {i \in DOMAIN cases : cases[i] = on}
  IN CASE t.kind = "jump"   -> t.to[1]
       [] t.kind = "branch" -> IF on = 1 THEN t.to[1] ELSE t.to[2]
       [] t.kind = "switch" -> IF hits = {} THEN Last(t.to) ELSE t.to[Min(hits)]
       [] OTHER -> NoBlock

-----------------------------------------------------------------------------
(* Running a function on values for its inputs.  Output ports start at     *)
(* zero (what stage S11 gives them), other variables undefined; whatever   *)
(* is written through an index past the end is lost.                       *)

ValueIn(env, o) == IF o.kind = "lit" THEN o.v ELSE env[o.v]
ValuesIn(env, args) == [i \in DOMAIN args |-> ValueIn(env, args[i])]

ExecStmt(f, env, s) ==
  LET v == ValuesIn(env, s.args)
  IN IF s.k = "write"
     THEN [x \in DOMAIN env |->
             IF x \notin ToSet(s.to) THEN env[x]
             ELSE LET i == CHOOSE j \in DOMAIN s.to : s.to[j] = x
                      new == IF v[1] = i - 1 THEN v[2] ELSE v[i + 2]
                  IN IF f.types[x].bool THEN Bit(new # 0) ELSE new % 2^f.types[x].w]
     ELSE [env EXCEPT ![s.to[1]] = OpValue(s.op, f.types[s.to[1]].w, v)]

StepBlock(f, m) ==
  IF m.at = NoBlock THEN m
  ELSE LET b == f.blocks[m.at]
           env == FoldLeft(LAMBDA e, s : ExecStmt(f, e, s), m.env, b.stmts)
           on == IF b.term.on = <<>> THEN 0 ELSE ValueIn(env, b.term.on[1])
       IN [env |-> env, path |-> Append(m.path, m.at),
           at |-> Taken(b.term, on, ValuesIn(env, b.term.cases))]

InputsOver(xs, types) == {i \in [xs -> 0..3] : \A x \in xs : i[x] < 2^types[x].w}
Inputs(f) == InputsOver(InputPorts(f), f.types)

StartOf(xs, outputs, input) ==
  [x \in xs |-> IF x \in DOMAIN input THEN input[x] ELSE IF x \in outputs THEN 0 ELSE Undef]
Run(f, input) ==
  FoldLeft(LAMBDA m, b : StepBlock(f, m),
           [env |-> StartOf(DOMAIN f.types, OutputPorts(f), input), path |-> <<>>, at |-> f.entry],
           f.blocks)

\* What the function computes: the values of its outputs when it ends.
Outputs(f, input) == [x \in OutputPorts(f) |-> Run(f, input).env[x]]
=============================================================================
