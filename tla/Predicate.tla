------------------------------ MODULE Predicate ------------------------------
(***************************************************************************)
(* Stage S10 (src/s10predicate/S10Predicate.cpp): control flow becomes     *)
(* data.  Every block gets a guard, a Boolean that is true when a run goes *)
(* through it; a phi becomes a chain of muxes on the guards of the edges   *)
(* into its block; statements become definitions under the guard of their  *)
(* block.  verifyPredicateProgram then proves that no definition reads a   *)
(* value whose guard may be false where it is read.                        *)
(***************************************************************************)
EXTENDS Ssa

VARIABLE pred   \* S10PredicateProgram, with the guards of blocks and edges

predVars == <<ssaVars, pred>>

None == [kind |-> "none"]
True == Lit(1, Bool)
False == Lit(0, Bool)

\* Values keep the ids they have in the SSA form; new ones follow.
Define(p, x, k, op, args, guard, note) ==
  [p EXCEPT !.defs = Append(@, [x |-> x, k |-> k, op |-> op, args |-> args,
                                guard |-> guard, note |-> note])]
AddPredValue(p, t) == [p EXCEPT !.values = Append(@, [t |-> t, kind |-> "generated"])]
LastValue(p) == Len(p.values)

-----------------------------------------------------------------------------
(* Guards.  Each operator returns the program with what it added, p, and   *)
(* the operand that holds the result, o.                                   *)

EmitOp(p, op, args, guard, note) ==
  LET q == AddPredValue(p, Bool)
  IN [p |-> Define(q, LastValue(q), "op", op, args, guard, note), o |-> Val(LastValue(q))]
Simply(p, o) == [p |-> p, o |-> o]

And(p, l, r) ==
  IF False \in {l, r} THEN Simply(p, False)
  ELSE IF l = True THEN Simply(p, r)
  ELSE IF r = True \/ l = r THEN Simply(p, l)
  ELSE EmitOp(p, "and", <<l, r>>, True, "guard")

Or(p, l, r) ==
  IF True \in {l, r} THEN Simply(p, True)
  ELSE IF l = False THEN Simply(p, r)
  ELSE IF r = False \/ l = r THEN Simply(p, l)
  ELSE EmitOp(p, "or", <<l, r>>, True, "guard")

\* Mutant: the negation is always needed.
NotAlways(p, o, guard) == EmitOp(p, "not", <<o>>, True, "guard")

Not(p, o, guard) ==
  IF o = True THEN Simply(p, False)
  ELSE IF o = False THEN Simply(p, True)
  ELSE EmitOp(p, "not", <<o>>, guard, "guard")

Eq(p, l, r) == EmitOp(p, "eq", <<l, r>>, True, "switch_guard")

\* Mutant: an edge taken for two cases has the guard of the last.
PropagateLast(p, a, b, guard) ==
  LET block == IF p.guards[b] = None THEN Simply(p, guard) ELSE Or(p, p.guards[b], guard)
  IN IF b \notin Reached(fn) THEN p
     ELSE [block.p EXCEPT !.edges[<<a, b>>] = guard, !.guards[b] = block.o]

\* The guard of the edge from a to b is joined to those of the edge and of b
\* so far.
Propagate(p, a, b, guard) ==
  LET edge == IF p.edges[<<a, b>>] = None THEN Simply(p, guard) ELSE Or(p, p.edges[<<a, b>>], guard)
      block == IF p.guards[b] = None THEN Simply(edge.p, guard) ELSE Or(edge.p, p.guards[b], guard)
  IN IF b \notin Reached(fn) THEN p
     ELSE [block.p EXCEPT !.edges[<<a, b>>] = edge.o, !.guards[b] = block.o]

BlockGuard(p, b) == IF p.guards[b] = None THEN False ELSE p.guards[b]

GuardBranch(p, b, t) ==
  LET g == BlockGuard(p, b)
      yes == And(p, g, t.on[1])
      p1 == Propagate(yes.p, b, t.to[1], yes.o)
      not == Not(p1, t.on[1], g)
      no == And(not.p, g, not.o)
  IN Propagate(no.p, b, t.to[2], no.o)

GuardCase(acc, b, g, on, case, to) ==
  LET eq == Eq(acc.p, on, case)
      any == IF acc.any = None THEN eq ELSE Or(eq.p, acc.any, eq.o)
      edge == And(any.p, g, eq.o)
  IN [p |-> Propagate(edge.p, b, to, edge.o), any |-> any.o]

GuardSwitch(p, b, t) ==
  LET g == BlockGuard(p, b)
      cases == FoldLeft(LAMBDA acc, i : GuardCase(acc, b, g, t.on[1], t.cases[i], t.to[i]),
                        [p |-> p, any |-> None], [i \in DOMAIN t.cases |-> i])
      rest == IF cases.any = None THEN Simply(cases.p, True) ELSE Not(cases.p, cases.any, g)
      edge == And(rest.p, g, rest.o)
  IN Propagate(edge.p, b, Last(t.to), edge.o)

\* computeGuards for one block.
GuardsFrom(p, b) ==
  LET t == ssa.blocks[b].term
  IN CASE t.kind = "jump"   -> Propagate(p, b, t.to[1], BlockGuard(p, b))
       [] t.kind = "branch" -> GuardBranch(p, b, t)
       [] t.kind = "switch" -> GuardSwitch(p, b, t)
       [] OTHER -> p

-----------------------------------------------------------------------------
(* Definitions *)

\* From the last incoming value back to the first, whose mux is the phi.
PhiMux(b, phi, acc, i) ==
  LET in == phi.incoming[i]
      edge == acc.p.edges[<<in.pred, b>>]
      guard == Or(acc.p, edge, acc.suffix)
      q == IF i = 1 THEN guard.p ELSE AddPredValue(guard.p, acc.p.values[phi.x].t)
      target == IF i = 1 THEN phi.x ELSE LastValue(q)
  IN [p |-> Define(q, target, "op", "mux", <<edge, Val(in.value), acc.fallback>>, guard.o, "lowered_phi"),
      fallback |-> Val(target), suffix |-> guard.o]

LowerPhi(p, b, phi) ==
  LET n == Len(phi.incoming)
      last == phi.incoming[n]
      first == [p |-> p, fallback |-> Val(last.value), suffix |-> p.edges[<<last.pred, b>>]]
  IN IF n = 1 THEN Define(p, phi.x, "assign", "copy", <<first.fallback>>, first.suffix, "lowered_phi")
     ELSE FoldLeft(LAMBDA acc, i : PhiMux(b, phi, acc, i), first, [i \in 1..(n - 1) |-> n - i]).p

LowerStmt(p, b, s) == Define(p, s.x, s.k, s.op, s.args, BlockGuard(p, b), "")

LoweredBlock(p, b) ==
  LET phis == FoldLeft(LAMBDA q, phi : LowerPhi(q, b, phi), p, ssa.blocks[b].phis)
  IN FoldLeft(LAMBDA q, s : LowerStmt(q, b, s), phis, ssa.blocks[b].stmts)

-----------------------------------------------------------------------------
(* Evaluating a set of definitions that depend on each other in any order: *)
(* a pass computes what its operands make known, until nothing is left.    *)

Compute(values, known, d) ==
  IF known[d.x] # Undef THEN known
  ELSE [known EXCEPT ![d.x] = OpValue(d.op, values[d.x].t.w, SsaValues(known, d.args))]
Settled(values, defs, known) ==
  LET pass[k \in 0..Len(defs)] ==
        IF k = 0 THEN known
        ELSE LET before == pass[k - 1]
             IN IF Undef \notin Range(before) THEN before
                ELSE FoldLeft(LAMBDA m, d : Compute(values, m, d), before, defs)
  IN pass[Len(defs)]

-----------------------------------------------------------------------------
(* readonlyPredicateCheck.  The code compares Boolean expressions over     *)
(* atoms with decision diagrams: an implication holds when it does in      *)
(* every world, an assignment of truth values to the atoms.                *)

Logical(p, d) ==
  p.values[d.x].t.bool /\ (d.k = "assign" \/ d.op \in {"not", "and", "or", "mux"})
LogicalDefs(p) == SelectSeq(p.defs, LAMBDA d : Logical(p, d))
Atoms(p) ==
  {v \in DOMAIN p.values : p.values[v].t.bool} \ {d.x : d \in ToSet(LogicalDefs(p))}
Worlds(p) ==
  {Settled(p.values, LogicalDefs(p), [v \in DOMAIN p.values |-> IF v \in Atoms(p) THEN w[v]
                                      ELSE IF p.values[v].t.bool THEN Undef ELSE 0]) :
     w \in [Atoms(p) -> {0, 1}]}

Holds(world, o) == SsaValue(world, o) = 1
GuardOf(p, v) == (CHOOSE d \in ToSet(p.defs) : d.x = v).guard
Available(p, world, o) ==
  o.kind = "lit" \/ p.values[o.v].kind = "initial" \/ Holds(world, GuardOf(p, o.v))

\* The operands a definition reads in a world where its guard holds.
Reading(d, world) ==
  LET a == d.args
  IN IF d.op = "mux" THEN {a[1]} \cup (IF Holds(world, a[1]) THEN {a[2]} ELSE {a[3]})
     ELSE IF d.op = "and" /\ d.note = "guard" THEN {a[1]} \cup (IF Holds(world, a[1]) THEN {a[2]} ELSE {})
     ELSE IF d.op = "or" /\ d.note = "guard" THEN {a[1]} \cup (IF Holds(world, a[1]) THEN {} ELSE {a[2]})
     ELSE ToSet(a)

ReadonlyOk(p) ==
  \A world \in Worlds(p) :
    /\ \A d \in ToSet(p.defs) :
         /\ Available(p, world, d.guard)
         /\ Holds(world, d.guard) => \A o \in Reading(d, world) : Available(p, world, o)
    /\ \A b \in Reached(fn) : Available(p, world, BlockGuard(p, b))
    /\ \A x \in OutputPorts(fn) : Available(p, world, Val(ssa.finals[x]))

\* One definition per value that is not initial, and no cycle.
DefinedOnce(p) ==
  \A v \in DOMAIN p.values :
    Cardinality({i \in DOMAIN p.defs : p.defs[i].x = v}) = IF p.values[v].kind = "initial" THEN 0 ELSE 1
NoDependencyCycle(p) ==
  LET start == [v \in DOMAIN p.values |-> IF p.values[v].kind = "initial" THEN 0 ELSE Undef]
  IN Undef \notin Range(Settled(p.values, p.defs, start))

-----------------------------------------------------------------------------
(* The stage *)

PredInit ==
  /\ SsaInit
  /\ pred = [values |-> <<>>, defs |-> <<>>,
             guards |-> [b \in Blocks(fn) |-> None],
             edges |-> [e \in Blocks(fn) \X Blocks(fn) |-> None]]

StartLowering ==
  /\ phase = "ssa"
  /\ phase' = "guards"
  /\ todo' = TopologicalOrder
  /\ pred' = [pred EXCEPT !.guards[fn.entry] = True,
       !.values = [v \in DOMAIN ssa.values |-> [t |-> ssa.values[v].t, kind |-> ssa.values[v].kind]]]
  /\ UNCHANGED <<fn, live, ssa>>

DuplicateCase(b) ==
  LET t == ssa.blocks[b].term IN t.kind = "switch" /\ ~IsInjective(t.cases)

ComputeGuards ==
  /\ phase = "guards" /\ todo # <<>>
  /\ pred' = GuardsFrom(pred, Head(todo))
  /\ todo' = Tail(todo)
  /\ phase' = IF DuplicateCase(Head(todo)) THEN "rejected" ELSE phase
  /\ UNCHANGED <<fn, live, ssa>>

StartDefinitions ==
  /\ phase = "guards" /\ todo = <<>>
  /\ phase' = "definitions"
  /\ todo' = TopologicalOrder
  /\ UNCHANGED <<fn, live, ssa, pred>>

LowerBlock ==
  /\ phase = "definitions" /\ todo # <<>>
  /\ pred' = LoweredBlock(pred, Head(todo))
  /\ todo' = Tail(todo)
  /\ UNCHANGED <<fn, phase, live, ssa>>

VerifyPredicates ==
  /\ phase = "definitions" /\ todo = <<>>
  /\ phase' = IF DefinedOnce(pred) /\ NoDependencyCycle(pred) /\ ReadonlyOk(pred)
              THEN "predicated" ELSE "rejected"
  /\ UNCHANGED <<fn, live, todo, ssa, pred>>

LoweringStep ==
  \/ StartLowering \/ ComputeGuards \/ StartDefinitions \/ LowerBlock \/ VerifyPredicates
PredNext == (SsaNext /\ UNCHANGED pred) \/ LoweringStep

-----------------------------------------------------------------------------
(* Properties *)

\* The values an input gives to the definitions, their guards forgotten.
Network(input) ==
  Settled(pred.values, pred.defs,
          [v \in DOMAIN pred.values |->
             IF pred.values[v].kind = "initial" THEN InitialValue(input, ssa.values[v]) ELSE Undef])

\* The guard of a block is true exactly when the run of the function goes
\* through the block, and at most one edge into a block is taken (computeGuards).
GuardsExact ==
  phase = "predicated" => \A input \in Inputs(fn) :
    LET value == Network(input)
        path == Run(fn, input).path
        taken == {<<path[i], path[i + 1]>> : i \in 1..(Len(path) - 1)}
        on(o) == o # None /\ SsaValue(value, o) = 1
    IN /\ \A b \in Blocks(fn) : on(pred.guards[b]) <=> b \in ToSet(path)
       /\ \A e \in DOMAIN pred.edges : on(pred.edges[e]) <=> e \in taken

\* Beside a switch with the same case twice, only a switch on a value computed
\* in a block that not every run reaches is rejected: its comparisons are
\* emitted under the guard true (makeEq).
LateSwitch ==
  \E b \in Reached(fn) :
    LET t == ssa.blocks[b].term
    IN t.kind = "switch" /\ \E v \in ValueIds(t.on) :
         ssa.values[v].kind # "initial" /\ ~Dominates(ssa.values[v].block, ssa.exit)
OnlyLateSwitchRejected ==
  phase = "rejected" => LateSwitch \/ \E b \in Reached(fn) : DuplicateCase(b)
=============================================================================
