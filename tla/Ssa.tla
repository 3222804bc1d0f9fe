--------------------------------- MODULE Ssa ---------------------------------
(***************************************************************************)
(* Stage S9 (src/s9ssa/S9SSA.cpp): every write of a variable becomes a     *)
(* value of its own, and where paths meet, the values of a variable that   *)
(* is still needed are joined by a phi.  Writes through a dynamic index    *)
(* become one comparison and one mux per element.                          *)
(*                                                                         *)
(* The order is that of buildFunction: analyzeCFG, the passes of           *)
(* computeLiveness, one step per block in topological order, the binding   *)
(* of the ports, verifySSAProgram.                                         *)
(***************************************************************************)
EXTENDS NormCfg

CONSTANT Programs   \* the functions given to the stage

\* What stage S8 hands over; buildFunction verifies it before anything else.
ASSUME ProgramsWellFormed == \A f \in Programs : WellFormed(f)

VARIABLES
  fn,      \* S8NormCFG
  phase,
  live,    \* Liveness.live_in, by block
  todo,    \* the blocks still to visit
  ssa      \* S9SSACFG, with the environment at the end of each block

ssaVars == <<fn, phase, live, todo, ssa>>

NoValue == 0
Val(id) == [kind |-> "val", v |-> id]

-----------------------------------------------------------------------------
(* analyzeCFG *)

Reached(f) == ReachFrom(f, {f.entry})
Cyclic(f) == \E b \in Reached(f) : b \in ReachFrom(f, Succs(f, b))

\* Depth first, successors in ascending order; a block comes before every
\* block it leads to.  The stack holds the calls of dfs that have not
\* returned, the innermost first; order, the blocks whose calls have.
DfsStep(d, k) ==
  LET open == Succs(fn, Head(d.stack)) \ ToSet(d.order)
  IN IF d.stack = <<>> THEN d
     ELSE IF open = {} THEN [stack |-> Tail(d.stack), order |-> <<Head(d.stack)>> \o d.order]
     ELSE [d EXCEPT !.stack = <<Min(open)>> \o @]

\* Every block is called once and returns once.
TopologicalOrder == FoldLeft(DfsStep, [stack |-> <<fn.entry>>, order |-> <<>>], fn.blocks \o fn.blocks).order

ReachedExits(f) == {b \in Reached(f) : f.blocks[b].term.kind = "exit"}
EffectiveExit(f) ==
  IF f.exit \in Reached(f) THEN f.exit
  ELSE IF Cardinality(ReachedExits(f)) = 1 THEN CHOOSE b \in ReachedExits(f) : TRUE
  ELSE NoBlock

-----------------------------------------------------------------------------
(* computeLiveness *)

\* [uses, defs]: what a block reads before writing it, and what it writes.
AddStmt(acc, s) ==
  [uses |-> acc.uses \cup (Reads(s.args) \ acc.defs), defs |-> acc.defs \cup ToSet(s.to)]
UsesDefs(b) ==
  LET stmts == FoldLeft(AddStmt, [uses |-> {}, defs |-> {}], b.stmts)
  IN [stmts EXCEPT !.uses = @ \cup (ReadsOfTerm(b.term) \ stmts.defs)]

\* Mutant: nothing is needed after the exit.
LiveOutOfSuccs(f, exit, in, b) == UNION {in[s] : s \in Succs(f, b)}

LiveOut(f, exit, in, b) ==
  (IF b = exit THEN OutputPorts(f) ELSE {}) \cup UNION {in[s] : s \in Succs(f, b)}

LiveIn(in, b) ==
  LET ud == UsesDefs(fn.blocks[b]) IN ud.uses \cup (LiveOut(fn, ssa.exit, in, b) \ ud.defs)

\* One pass over the blocks, last first.
UpdateLive(in, b) == [in EXCEPT ![b] = LiveIn(in, b)]
LivenessPass(in, order) == FoldLeft(UpdateLive, in, Reverse(order))

-----------------------------------------------------------------------------
(* Renaming.  c is the context of one block: the values so far, the        *)
(* environment, the statements emitted, and ok, FALSE after a failure.     *)

AddValue(c, base, t, kind) ==
  [c EXCEPT !.values = Append(@, [base |-> base, t |-> t, kind |-> kind, block |-> c.block])]
Newest(c) == Len(c.values)

CanRead(c, args) == \A x \in Reads(args) : c.env[x] # NoValue
Rewrite(c, args) ==
  [i \in DOMAIN args |-> IF args[i].kind = "lit" THEN args[i] ELSE Val(c.env[args[i].v])]
TypeOf(c, o) == IF o.kind = "lit" THEN o.t ELSE c.values[o.v].t

Emit(c, k, op, id, args) ==
  [c EXCEPT !.stmts = Append(@, [k |-> k, op |-> op, x |-> id, args |-> args])]

DefineBase(c, x) ==
  IF x \in InputPorts(fn) THEN [c EXCEPT !.ok = FALSE]
  ELSE LET d == AddValue(c, x, fn.types[x], "stmt") IN [d EXCEPT !.env[x] = Newest(d)]

DefineGenerated(c, t, op, args) ==
  LET d == AddValue(c, NoValue, t, "generated") IN Emit(d, "op", op, Newest(d), args)

CastKind(from, to) ==
  IF to.bool /\ ~from.bool THEN "reduce_or"
  ELSE IF from.w < to.w THEN "zext" ELSE IF from.w > to.w THEN "trunc" ELSE "copy"

\* castTo: the context after it, and the operand of the new type.
CastTo(c, o, t) ==
  IF TypeOf(c, o) = t THEN [c |-> c, o |-> o]
  ELSE LET d == DefineGenerated(c, t, CastKind(TypeOf(c, o), t), <<o>>)
       IN [c |-> d, o |-> Val(Newest(d))]

\* Element e of a dynamic write: to = (index == place) ? value : old.
ElementLiteral(i, t) == Lit(i - 1, t)
WriteElement(c, e) ==
  LET t == fn.types[e.to]
      eq == DefineGenerated(c, Bool, "eq", <<e.index, ElementLiteral(e.place, TypeOf(c, e.index))>>)
      new == CastTo(eq, e.value, t)
      old == CastTo(new.c, e.old, t)
      def == DefineBase(old.c, e.to)
  IN Emit(def, "op", "mux", def.env[e.to], <<Val(Newest(eq)), new.o, old.o>>)

\* The elements are read before the first one is written.
RewriteWrite(c, s) ==
  LET args == Rewrite(c, s.args)
      elements == [i \in DOMAIN s.to |-> [to |-> s.to[i], place |-> i, index |-> args[1],
                                          value |-> args[2], old |-> args[i + 2]]]
  IN FoldLeft(WriteElement, c, elements)

RewriteStmt(c, s) ==
  IF ~c.ok \/ ~CanRead(c, s.args) THEN [c EXCEPT !.ok = FALSE]
  ELSE IF s.k = "write" THEN RewriteWrite(c, s)
  ELSE LET d == DefineBase(c, s.to[1])
       IN Emit(d, s.k, s.op, d.env[s.to[1]], Rewrite(c, s.args))

RewriteTerm(c, t) ==
  IF ~c.ok \/ ~CanRead(c, t.on \o t.cases) THEN [c EXCEPT !.ok = FALSE]
  ELSE [c EXCEPT !.term = [kind |-> t.kind, on |-> Rewrite(c, t.on), cases |-> Rewrite(c, t.cases),
                           to |-> t.to]]

-----------------------------------------------------------------------------
(* The environment at the start of a block (mergePredecessorEnvs) *)

EmptyEnv == [x \in DOMAIN fn.types |-> NoValue]

DefineInitial(c, p) ==
  LET d == AddValue(c, p.x, fn.types[p.x], "initial") IN [d EXCEPT !.env[p.x] = Newest(d)]
InitialEnv(c) == FoldLeft(DefineInitial, [c EXCEPT !.block = NoBlock], fn.ports)

Incoming(b, x) ==
  LET preds == Ascending(Preds(fn, b) \cap Reached(fn))
  IN [i \in DOMAIN preds |-> [pred |-> preds[i], value |-> ssa.envs[preds[i]][x]]]

\* Mutant: paths that leave the variable undefined do not count.
MergeDefined(c, x) ==
  LET incoming == SelectSeq(Incoming(c.block, x), LAMBDA i : i.value # NoValue)
      phi == AddValue(c, x, fn.types[x], "phi")
  IN IF incoming = <<>> THEN c
     ELSE IF Cardinality({i.value : i \in ToSet(incoming)}) = 1
     THEN [c EXCEPT !.env[x] = incoming[1].value]
     ELSE [phi EXCEPT !.env[x] = Newest(phi),
                      !.phis = Append(@, [x |-> Newest(phi), base |-> x, incoming |-> incoming])]

\* Mutant: no phi when the first two values agree.
MergeFirstTwo(c, x) ==
  LET incoming == Incoming(c.block, x)
      phi == AddValue(c, x, fn.types[x], "phi")
  IN IF NoValue \in {i.value : i \in ToSet(incoming)} THEN [c EXCEPT !.ok = FALSE]
     ELSE IF Len(incoming) < 2 \/ incoming[1].value = incoming[2].value
     THEN [c EXCEPT !.env[x] = incoming[1].value]
     ELSE [phi EXCEPT !.env[x] = Newest(phi),
                      !.phis = Append(@, [x |-> Newest(phi), base |-> x, incoming |-> incoming])]

\* A live variable: undefined on some path, the same on all, or a phi.
MergeSymbol(c, x) ==
  LET incoming == Incoming(c.block, x)
      values == {i.value : i \in ToSet(incoming)}
      phi == AddValue(c, x, fn.types[x], "phi")
  IN IF NoValue \in values THEN [c EXCEPT !.ok = FALSE]
     ELSE IF Cardinality(values) = 1 THEN [c EXCEPT !.env[x] = incoming[1].value]
     ELSE [phi EXCEPT !.env[x] = Newest(phi),
                      !.phis = Append(@, [x |-> Newest(phi), base |-> x, incoming |-> incoming])]

MergeEnvs(c) ==
  LET preds == Preds(fn, c.block)
  IN IF c.block = fn.entry THEN [InitialEnv(c) EXCEPT !.block = c.block]
     ELSE IF Cardinality(preds) = 1
     THEN [c EXCEPT !.env = ssa.envs[CHOOSE p \in preds : TRUE]]
     ELSE FoldLeft(MergeSymbol, c, Ascending(live[c.block]))

RenamedBlock(b) ==
  LET c == [values |-> ssa.values, env |-> EmptyEnv, phis |-> <<>>, stmts |-> <<>>,
            term |-> Unreachable, block |-> b, ok |-> TRUE]
  IN RewriteTerm(FoldLeft(RewriteStmt, MergeEnvs(c), fn.blocks[b].stmts), fn.blocks[b].term)

-----------------------------------------------------------------------------
(* The stage *)

SsaInit ==
  /\ fn \in Programs
  /\ phase = "normalized"
  /\ live = [b \in Blocks(fn) |-> {}]
  /\ todo = <<>>
  /\ ssa = [values |-> <<>>, exit |-> NoBlock, finals |-> <<>>,
            blocks |-> [b \in Blocks(fn) |-> [phis |-> <<>>, stmts |-> <<>>, term |-> Unreachable]],
            envs |-> [b \in Blocks(fn) |-> EmptyEnv]]

RefuseCFG ==
  /\ phase = "normalized"
  /\ Cyclic(fn) \/ EffectiveExit(fn) = NoBlock
  /\ phase' = "refused"
  /\ UNCHANGED <<fn, live, todo, ssa>>

AnalyzeCFG ==
  /\ phase = "normalized"
  /\ ~Cyclic(fn) /\ EffectiveExit(fn) # NoBlock
  /\ phase' = "liveness"
  /\ todo' = TopologicalOrder
  /\ ssa' = [ssa EXCEPT !.exit = EffectiveExit(fn)]
  /\ UNCHANGED <<fn, live>>

\* Until a pass changes nothing.
ComputeLiveness ==
  /\ phase = "liveness"
  /\ live' = LivenessPass(live, todo)
  /\ phase' = IF live' = live THEN "rename" ELSE "liveness"
  /\ UNCHANGED <<fn, todo, ssa>>

RenameBlock ==
  /\ phase = "rename" /\ todo # <<>>
  /\ LET b == Head(todo)
         c == RenamedBlock(b)
     IN IF c.ok
        THEN /\ ssa' = [ssa EXCEPT !.values = c.values, !.envs[b] = c.env,
                          !.blocks[b] = [phis |-> c.phis, stmts |-> c.stmts, term |-> c.term]]
             /\ todo' = Tail(todo)
             /\ UNCHANGED <<fn, phase, live>>
        ELSE /\ phase' = "refused"
             /\ UNCHANGED <<fn, live, todo, ssa>>

\* Ports take the value they have at the end of the exit block.
FinalEnv == ssa.envs[ssa.exit]
BindPorts ==
  /\ phase = "rename" /\ todo = <<>>
  /\ ssa' = [ssa EXCEPT !.finals = [x \in OutputPorts(fn) |-> FinalEnv[x]]]
  /\ phase' = IF \E x \in OutputPorts(fn) : FinalEnv[x] = NoValue THEN "refused" ELSE "bound"
  /\ UNCHANGED <<fn, live, todo>>

\* What verifySSAProgram checks of the blocks, beside the ranges of ids.
PhiOk(b, phi) ==
  LET preds == [i \in DOMAIN phi.incoming |-> phi.incoming[i].pred]
  IN /\ ssa.values[phi.x].kind = "phi" /\ ssa.values[phi.x].base = phi.base
     /\ IsInjective(preds)
     /\ Preds(fn, b) \cap Reached(fn) \subseteq ToSet(preds)
     /\ \A i \in ToSet(phi.incoming) : ssa.values[i.value].t = ssa.values[phi.x].t

StmtOk(s) ==
  LET t(o) == TypeOf(ssa, o)
  IN CASE s.k = "assign" -> t(s.args[1]) = ssa.values[s.x].t
       [] s.k = "lookup" -> \A e \in ToSet(Tail(s.args)) : t(e) = ssa.values[s.x].t
       [] OTHER -> TRUE

VerifySSA ==
  /\ phase = "bound"
  /\ phase' = IF \A b \in Reached(fn) :
                   /\ \A phi \in ToSet(ssa.blocks[b].phis) : PhiOk(b, phi)
                   /\ \A s \in ToSet(ssa.blocks[b].stmts) : StmtOk(s)
              THEN "ssa" ELSE "invalid"
  /\ UNCHANGED <<fn, live, todo, ssa>>

SsaNext ==
  \/ RefuseCFG \/ AnalyzeCFG \/ ComputeLiveness \/ RenameBlock \/ BindPorts \/ VerifySSA
SsaSpec == SsaInit /\ [][SsaNext]_ssaVars

-----------------------------------------------------------------------------
(* Running the SSA form: a phi takes the value that belongs to the block   *)
(* the run comes from.                                                     *)

SsaValue(val, o) == IF o.kind = "lit" THEN o.v ELSE val[o.v]
SsaValues(val, args) == [i \in DOMAIN args |-> SsaValue(val, args[i])]

SsaStep(m) ==
  IF m.at = NoBlock THEN m
  ELSE LET b == ssa.blocks[m.at]
           chosen(phi) == (CHOOSE i \in ToSet(phi.incoming) : i.pred = m.from).value
           phis == FoldLeft(LAMBDA v, p : [v EXCEPT ![p.x] = m.val[chosen(p)]], m.val, b.phis)
           exec(v, s) == [v EXCEPT ![s.x] = OpValue(s.op, ssa.values[s.x].t.w, SsaValues(v, s.args))]
           val == FoldLeft(exec, phis, b.stmts)
           on == IF b.term.on = <<>> THEN 0 ELSE SsaValue(val, b.term.on[1])
       IN [val |-> val, from |-> m.at, path |-> Append(m.path, m.at),
           at |-> Taken(b.term, on, SsaValues(val, b.term.cases))]

\* What an initial value holds: the input, or zero for an output.
InitialValue(input, v) ==
  IF v.kind # "initial" THEN Undef ELSE IF v.base \in InputPorts(fn) THEN input[v.base] ELSE 0

RunSsa(input) ==
  LET start == [val |-> [i \in DOMAIN ssa.values |-> InitialValue(input, ssa.values[i])],
                from |-> NoBlock, path |-> <<>>, at |-> fn.entry]
  IN FoldLeft(LAMBDA m, b : SsaStep(m), start, fn.blocks)

-----------------------------------------------------------------------------
(* Properties *)

\* The SSA form takes the path the function takes and computes its outputs,
\* for every input (buildFunction).
SsaKeepsMeaning ==
  phase = "ssa" => \A input \in Inputs(fn) :
    LET before == Run(fn, input)
        after == RunSsa(input)
    IN /\ after.path = before.path
       /\ \A x \in OutputPorts(fn) : after.val[ssa.finals[x]] = before.env[x]

\* Every read comes after the definition on every path of the CFG, whether or
\* not a run can take it; a phi reads at the end of the block it comes from.
Dominates(a, b) ==
  b \notin Spread([c \in Blocks(fn) |-> Succs(fn, c) \ {a}], {fn.entry} \ {a})
ValueIds(args) == {a.v : a \in {o \in ToSet(args) : o.kind = "val"}}
DefinedAt(v, b) == ssa.values[v].kind = "initial" \/ Dominates(ssa.values[v].block, b)
DefsDominateUses ==
  phase = "ssa" => \A b \in Reached(fn) :
    LET code == ssa.blocks[b]
        phis == {p.x : p \in ToSet(code.phis)}
        ready(v, i) == \/ v \in phis \/ \E j \in 1..(i - 1) : code.stmts[j].x = v
                       \/ ssa.values[v].block # b /\ DefinedAt(v, b)
    IN /\ \A i \in DOMAIN code.stmts : \A v \in ValueIds(code.stmts[i].args) : ready(v, i)
       /\ \A v \in ValueIds(code.term.on) : ready(v, Len(code.stmts) + 1)
       /\ \A p \in ToSet(code.phis) : \A i \in ToSet(p.incoming) : DefinedAt(i.value, i.pred)

\* A function is refused exactly when it has a loop or no exit, writes an
\* input, or reads a variable that some path leaves undefined.
Writes(b, x) == \E s \in ToSet(fn.blocks[b].stmts) : x \in ToSet(s.to)
ReadsFirst(b, x) ==
  LET s == fn.blocks[b].stmts
      first(n) == \A j \in 1..(n - 1) : x \notin ToSet(s[j].to)
  IN \/ \E i \in DOMAIN s : x \in Reads(s[i].args) /\ first(i)
     \/ x \in ReadsOfTerm(fn.blocks[b].term) /\ first(Len(s) + 1)
StaysUndefined(x) ==
  Spread([b \in Blocks(fn) |-> IF Writes(b, x) THEN {} ELSE Succs(fn, b)], {fn.entry})
Locals == DOMAIN fn.types \ (InputPorts(fn) \cup OutputPorts(fn))
ReadsUndefined == \E x \in Locals : \E b \in StaysUndefined(x) : ReadsFirst(b, x)
WritesInput == \E b \in Reached(fn) : \E x \in InputPorts(fn) : Writes(b, x)
Refusable == Cyclic(fn) \/ EffectiveExit(fn) = NoBlock \/ ReadsUndefined \/ WritesInput
RefusedExactly ==
  /\ phase = "refused" => Refusable
  /\ phase = "ssa" => ~Refusable
  /\ phase # "invalid"
=============================================================================
