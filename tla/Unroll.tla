------------------------------- MODULE Unroll -------------------------------
(***************************************************************************)
(* Stage S5 (unrollFunction of src/s5unroll/S5Unroll.cpp), run on the CFGs *)
(* that CfgBuild makes: as long as there is a loop region, the one with    *)
(* the highest id - an innermost one - is analysed, its body is cloned     *)
(* once per iteration, and unreachable blocks are dropped.                 *)
(***************************************************************************)
EXTENDS CfgBuild

CONSTANTS
  MaxIterations,       \* UnrollOptions::max_iterations_per_loop
  MaxClonedBlocks      \* UnrollOptions::max_total_cloned_blocks

VARIABLE plan          \* the LoopAnalysis of the region being unrolled

-----------------------------------------------------------------------------
(* The analysis of a loop (analyzeLoop): which variable counts, from which *)
(* constant to which bound, by how much per iteration, and which values of *)
(* the body are the counter plus a constant.  Constants are kept as the    *)
(* code keeps them: an unsigned 64-bit pattern beside the type it was last *)
(* given, which need not be the type of the variable that holds it.        *)

Unknown == [kind |-> "unknown", v |-> 0, t |-> Bool]
Const(v, t) == [kind |-> "const", v |-> v, t |-> t]
\* The counter at the start of the iteration plus v.
Affine(v, t) == [kind |-> "affine", v |-> v, t |-> t]

\* wrapValue, signedValue; -n and its 64-bit pattern are the same value here.
Raw(v, t) == v % 2^t.w
SignedOf(v, t) == IF t.s THEN Wrap(v, t) ELSE v

-----------------------------------------------------------------------------
(* Constants known in a block, forwards from its start (ConstEnv) *)

ConstantOf(o, env) == IF o.kind = "lit" THEN Const(Raw(o.v, o.t), o.t) ELSE env[o.x]

EvalOp(s, env) ==
  LET a == ConstantOf(s.a, env)
      b == ConstantOf(s.b, env)
  IN CASE s.k = "cast" -> IF a = Unknown THEN Unknown ELSE Const(Raw(a.v, s.t), s.t)
       [] s.k = "op" /\ (Unknown \in {a, b} \/ s.op \in Compares) -> Unknown
       [] s.k = "op" /\ s.op = "add" -> Const(Raw(a.v + b.v, s.t), s.t)
       [] s.k = "op" /\ s.op = "sub" -> Const(Raw(a.v - b.v, s.t), s.t)
       [] s.k = "op" /\ s.op = "mul" -> Const(Raw(a.v * b.v, s.t), s.t)

\* The constant a statement assigns: an assigned one keeps its own type.
Assigned(s, env) == IF s.k = "assign" THEN ConstantOf(s.a, env) ELSE EvalOp(s, env)

UpdateConstEnv(f, env, s) ==
  CASE s.k = "assign" ->
         LET c == ConstantOf(s.a, env)
         IN [env EXCEPT ![s.x] = IF c = Unknown THEN c ELSE Const(c.v, f.types[s.x])]
    [] s.k \in {"cast", "op"} -> [env EXCEPT ![s.x] = EvalOp(s, env)]
    [] s.k \in {"decl", "call"} /\ s.x # NoSymbol -> [env EXCEPT ![s.x] = Unknown]
    [] OTHER -> env

NoConstants(f) == [x \in DOMAIN f.types |-> Unknown] @@ <<>>
ConstantsAfter(f, env, stmts) ==
  FoldLeft(LAMBDA acc, s : UpdateConstEnv(f, acc, s), env, stmts)

-----------------------------------------------------------------------------
(* The loop's condition and its initial value *)

InLoop(f, r, b) == r.id \in ToSet(f.blocks[b].loops)
ExternalPreds(f, r, b) == {a \in Preds(f, b) : ~InLoop(f, r, a)}
InitTarget(r) == IF r.post THEN r.body ELSE r.prelude
Before(f, r) == IF ExternalPreds(f, r, InitTarget(r)) = {} THEN <<>>
                ELSE f.blocks[Max(ExternalPreds(f, r, InitTarget(r)))].stmts

HeaderEnv(f, r) ==
  ConstantsAfter(f, ConstantsAfter(f, NoConstants(f), Before(f, r)),
                 f.blocks[r.prelude].stmts)

IsVar(o) == o.kind = "var"

\* The comparisons of the prelude that define the branch condition.
Comparisons(f, r) ==
  LET t == f.blocks[r.condition].term
  IN SelectSeq(f.blocks[r.prelude].stmts,
       LAMBDA s : t.kind = "branch" /\ IsVar(t.on[1]) /\ s.k = "op" /\ s.x = t.on[1].x)

Mirror(op) == CASE op = "lt" -> "gt" [] op = "le" -> "ge" [] op = "gt" -> "lt"
                [] op = "ge" -> "le" [] OTHER -> op

\* [ok, x, op, bound]: the counter compared with a constant.
NoCondition == [ok |-> FALSE, x |-> NoSymbol, op |-> "eq", bound |-> 0]

CounterSide(s, a, b) ==
  IF s.op \notin Compares THEN NoCondition
  ELSE IF IsVar(s.a) /\ b # Unknown
  THEN [ok |-> TRUE, x |-> s.a.x, op |-> s.op, bound |-> b.v]
  ELSE IF IsVar(s.b) /\ a # Unknown
  THEN [ok |-> TRUE, x |-> s.b.x, op |-> Mirror(s.op), bound |-> a.v]
  ELSE NoCondition
ComparedTo(s, env) == CounterSide(s, ConstantOf(s.a, env), ConstantOf(s.b, env))

Condition(f, r) ==
  IF Comparisons(f, r) = <<>> \/ \E c \in ToSet(f.blocks[r.prelude].stmts) : c.k = "call"
  THEN NoCondition
  ELSE ComparedTo(Last(Comparisons(f, r)), HeaderEnv(f, r))

\* The last assignment before the loop, with the type of what it assigns; it
\* must be a constant.  Unknown when there is none.
InitOf(f, r, x) ==
  LET stmts == Before(f, r)
      at    == {i \in DOMAIN stmts : stmts[i].k \in {"assign", "cast", "op"} /\ stmts[i].x = x}
      value(i) == Assigned(stmts[i], ConstantsAfter(f, NoConstants(f), SubSeq(stmts, 1, i - 1)))
  IN IF at = {} THEN HeaderEnv(f, r)[x]
     ELSE IF \E i \in at : value(i) = Unknown THEN Unknown
     ELSE value(Max(at))

-----------------------------------------------------------------------------
(* How the body changes the counter (analyzeLoopBodyDelta).  A state is    *)
(* [ok, d, vals]: the counter has been changed by d, vals are the values   *)
(* known.  Not ok: "not a fixed affine update", "path-dependent".          *)

OperandDelta(f, o, x, st) ==
  CASE ~IsVar(o) -> Const(o.v, o.t)
    [] IsVar(o) /\ o.x = x -> Affine(st.d, f.types[x])
    [] OTHER -> st.vals[o.x]

EvalDelta(f, s, x, st) ==
  LET a == OperandDelta(f, s.a, x, st)
      b == OperandDelta(f, s.b, x, st)
      kinds == <<a.kind, b.kind>>
      plain == kinds = <<"const", "const">>
  IN CASE s.k = "cast" -> IF a = Unknown THEN Unknown ELSE [a EXCEPT !.t = s.t]
       [] s.k = "op" /\ s.op = "mul" /\ plain -> Const(a.v * b.v, s.t)
       [] s.k = "op" /\ s.op = "add" /\ plain -> Const(a.v + b.v, s.t)
       [] s.k = "op" /\ s.op = "sub" /\ plain -> Const(a.v - b.v, s.t)
       [] s.k = "op" /\ s.op = "add" /\ kinds \in {<<"affine", "const">>, <<"const", "affine">>} ->
            Affine(a.v + b.v, s.t)
       [] s.k = "op" /\ s.op = "sub" /\ kinds = <<"affine", "const">> -> Affine(a.v - b.v, s.t)
       [] OTHER -> Unknown

AssignDelta(st, y, x, value) ==
  IF y = NoSymbol THEN st
  ELSE IF y # x THEN [st EXCEPT !.vals[y] = value]
  ELSE IF value.kind = "affine" THEN [st EXCEPT !.d = value.v]
  ELSE [st EXCEPT !.ok = FALSE]

ProcessDelta(f, st, s, x) ==
  CASE s.k = "decl"   -> [st EXCEPT !.vals[s.x] = Unknown]
    [] s.k = "assign" -> AssignDelta(st, s.x, x, OperandDelta(f, s.a, x, st))
    [] s.k = "call"   -> AssignDelta(st, s.x, x, Unknown)
    [] OTHER          -> AssignDelta(st, s.x, x, EvalDelta(f, s, x, st))

DeltasAfter(f, st, stmts, x) ==
  FoldLeft(LAMBDA acc, s : ProcessDelta(f, acc, s, x), st, stmts)

NoDelta(f) == [ok |-> TRUE, d |-> 0, vals |-> NoConstants(f)]
Unvisited == [ok |-> TRUE, d |-> 0, vals |-> <<>>]

\* Values agree whatever their types.
Agree(u, v) == u.kind = v.kind /\ u.v = v.v

MergeDelta(into, from) ==
  [ok |-> into.d = from.d, d |-> into.d,
   vals |-> [y \in DOMAIN into.vals |->
               IF Agree(into.vals[y], from.vals[y]) THEN into.vals[y] ELSE Unknown] @@ <<>>]

Headers(r) == {r.prelude, r.condition}
BodyBlocks(f, r) == {b \in Blocks(f) : InLoop(f, r, b)} \ Headers(r)

\* One block off the worklist: w is [work, states, back, ok], back the deltas
\* seen on the edges to the header.
Flow(f, r, x, w) ==
  LET b  == Head(w.work)
      st == DeltasAfter(f, w.states[b], f.blocks[b].stmts, x)
      along(acc, e) ==
        LET old == acc.states[e.to]
            new == MergeDelta(old, st)
        IN CASE e.to \in Headers(r) -> [acc EXCEPT !.back = @ \cup {st.d}]
             [] e.to \notin Headers(r) \cup BodyBlocks(f, r) -> acc
             [] OTHER ->
                  IF old = Unvisited
                  THEN [acc EXCEPT !.states[e.to] = st, !.work = Append(@, e.to)]
                  ELSE [acc EXCEPT !.states[e.to] = new, !.ok = @ /\ new.ok,
                                   !.work = IF new.vals = old.vals THEN @ ELSE Append(@, e.to)]
  IN FoldLeft(along, [w EXCEPT !.work = Tail(@), !.ok = @ /\ st.ok], f.blocks[b].succ)

\* Blocks may be visited this often on average ("did not converge").
Visits == 16

Converged(w) ==
  [w EXCEPT !.ok = @ /\ w.work = <<>> /\ Cardinality(w.back) <= 1 /\ 0 \notin w.back]

BodyDelta(f, r, x) ==
  LET start == [work |-> <<r.body>>, back |-> {}, ok |-> TRUE,
                states |-> [b \in Blocks(f) |-> IF b = r.body THEN NoDelta(f) ELSE Unvisited] @@ <<>>]
      visit(w, b) == IF w.work = <<>> \/ ~w.ok THEN w ELSE Flow(f, r, x, w)
      sweep(w) == IF w.work = <<>> THEN w ELSE FoldLeft(visit, w, f.blocks)
      sweeps[k \in 0..Visits] == IF k = 0 THEN start ELSE sweep(sweeps[k - 1])
  IN Converged(sweeps[Visits])

-----------------------------------------------------------------------------
(* The values the counter takes *)

Holds(op, v, bound, t) == Compare(op, SignedOf(v, t), SignedOf(bound, t))

\* Mutant: one iteration less is allowed.
TooManyByOne(values) == Len(values) + 1 >= MaxIterations

TooMany(values) == Len(values) >= MaxIterations

\* One more iteration: a is [ok, more, v, values].
Iterate(cond, delta, t, post, a) ==
  LET v == Raw(SignedOf(a.v, t) + delta, t)
      again == Holds(cond.op, v, cond.bound, t)
  IN IF ~a.more \/ ~a.ok THEN a
     ELSE IF TooMany(a.values) \/ a.v \in ToSet(a.values)
     THEN [a EXCEPT !.ok = FALSE]
     ELSE [a EXCEPT !.v = v, !.more = again, !.values = Append(@, a.v)]

IterationValues(cond, init, back, post) ==
  LET t     == init.t
      enter == post \/ Holds(cond.op, init.v, cond.bound, t)
      once  == IF enter THEN <<init.v>> ELSE <<>>
      step(a, k) == Iterate(cond, Max(back), t, post, a)
  IN IF back = {} THEN [ok |-> TRUE, more |-> FALSE, v |-> init.v, values |-> once]
     ELSE FoldLeft(step, [ok |-> TRUE, more |-> enter, v |-> init.v, values |-> <<>>],
                   [k \in 1..MaxIterations + 1 |-> k])

\* The plan of a loop, or ok = FALSE: "cannot statically analyze", "exceeds
\* max_iterations_per_loop".
NoPlan == [ok |-> FALSE, x |-> NoSymbol, t |-> Bool, states |-> <<>>, values |-> <<>>]

PlanOf(cond, init, body, values) ==
  IF ~values.ok THEN NoPlan
  ELSE [ok |-> TRUE, x |-> cond.x, t |-> init.t, states |-> body.states, values |-> values.values]
CountLoop(cond, init, body, post) ==
  IF init = Unknown \/ init.t = Bool \/ ~body.ok THEN NoPlan
  ELSE PlanOf(cond, init, body, IterationValues(cond, init, body.back, post))
CountFor(f, r, cond) ==
  IF ~cond.ok THEN NoPlan
  ELSE CountLoop(cond, InitOf(f, r, cond.x), BodyDelta(f, r, cond.x), r.post)
AnalyzeLoop(f, r) == CountFor(f, r, Condition(f, r))

-----------------------------------------------------------------------------
(* The stage *)

unrollVars == <<vars, plan>>

UnrollInit == Init /\ plan = NoPlan

Building5 == BuildStep /\ UNCHANGED plan

-----------------------------------------------------------------------------
(* Clones.  Iteration k (from 1) of the j-th of the body blocks is block   *)
(* Offset + (k - 1) * (number of body blocks) + j.                         *)

Region == Last(fn.regions)

\* The blocks to clone, in order: those the analysis reached.
Cloned(f, r, p) ==
  SelectSeq([b \in Blocks(f) |-> b],
            LAMBDA b : b \in BodyBlocks(f, r) /\ p.states[b] # Unvisited)

CloneOf(f, body, k, b) ==
  Len(f.blocks) + (k - 1) * Len(body) + Min({j \in DOMAIN body : body[j] = b})

\* The variables declared in the body get a fresh symbol in each iteration.
Declared(f, body) ==
  SetToSortSeq(UNION {{s.x : s \in {t \in ToSet(f.blocks[b].stmts) : t.k = "decl"}} : b \in ToSet(body)},
               <)

FreshSymbol(f, declared, k, x) ==
  IF x \in ToSet(declared)
  THEN Len(f.types) + (k - 1) * Len(declared) + Min({j \in DOMAIN declared : declared[j] = x})
  ELSE x

\* Mutant: the value at the start of the iteration, whatever the body did.
CounterAtStart(p, st, v, u) == Lit(SignedOf(Raw(SignedOf(v, p.t), u.t), u.t), u.t)

\* literalForDeltaValue, for the iteration in which the counter starts at v
CounterLiteral(p, st, v, u) == Lit(SignedOf(Raw(SignedOf(v, p.t) + u.v, u.t), u.t), u.t)

\* An operand of the clone: a literal when it is the counter plus a constant.
\* sub has the symbols of the clone.
Replaced(f, p, st, v, sub, o) ==
  LET u == OperandDelta(f, o, p.x, st)
  IN IF u.kind = "affine" THEN CounterLiteral(p, st, v, u)
     ELSE IF IsVar(o) THEN Var(sub[o.x]) ELSE o

RewriteStmt(f, p, st, v, sub, s) ==
  LET new(o) == Replaced(f, p, st, v, sub, o)
      x == IF s.x = NoSymbol THEN s.x ELSE sub[s.x]
  IN CASE s.k = "decl" -> [s EXCEPT !.x = x]
       [] s.k \in {"assign", "cast"} -> [s EXCEPT !.x = x, !.a = new(s.a)]
       [] s.k = "op" -> [s EXCEPT !.x = x, !.a = new(s.a), !.b = new(s.b)]
       [] s.k = "call" -> [s EXCEPT !.x = x, !.args = [i \in DOMAIN s.args |-> new(s.args[i])]]

\* rewriteCloneTerminatorTargets
Target(f, r, body, k, next, break, b) ==
  CASE b \in ToSet(body) -> CloneOf(f, body, k, b)
    [] b \in Headers(r) -> next
    [] b = r.exit -> break
    [] OTHER -> b

\* Mutant: a clone belongs to no loop.
NoLoops(r, stack) == <<>>

\* removeLoopId
OuterLoops(r, stack) == SelectSeq(stack, LAMBDA id : id # r.id)

\* The clone of block b for iteration k, in which the counter starts at v.
CloneBlock(f, r, p, body, k, next, break, b) ==
  LET bb  == f.blocks[b]
      sub == [x \in DOMAIN f.types |-> FreshSymbol(f, Declared(f, body), k, x)]
      v   == p.values[k]
      stateAt(i) == DeltasAfter(f, p.states[b], SubSeq(bb.stmts, 1, i - 1), p.x)
      final == stateAt(Len(bb.stmts) + 1)
  IN [bb EXCEPT
        !.stmts = [i \in DOMAIN @ |-> RewriteStmt(f, p, stateAt(i), v, sub, bb.stmts[i])],
        !.term.on = [i \in DOMAIN @ |-> Replaced(f, p, final, v, sub, bb.term.on[i])],
        !.term.to = [i \in DOMAIN @ |-> Target(f, r, body, k, next, break, bb.term.to[i])],
        !.loops = OuterLoops(r, @)]

-----------------------------------------------------------------------------
(* A loop with a break keeps a flag: a block that sets it, and for each    *)
(* iteration a guard that tests it and a block that clears it.             *)

HasBreak(f, r) ==
  \E b \in {a \in Blocks(f) : InLoop(f, r, a)} \ Headers(r) :
    \E e \in ToSet(f.blocks[b].succ) : e.to = r.exit /\ e.kind = "break"

FlagBlock(stmts, term, r, f) ==
  [Block(OuterLoops(r, f.blocks[r.body].loops)) EXCEPT !.stmts = stmts, !.term = term]

\* Edges from the terminators.  A return has been lowered to a jump.
Kinds(t) ==
  CASE t.kind = "jump" -> <<"jump">>
    [] t.kind = "branch" -> <<"true", "false">>
    [] t.kind = "switch" -> [i \in DOMAIN t.to |-> IF i = Len(t.to) THEN "default" ELSE "case"]
    [] OTHER -> <<>>

RebuildEdges(f) ==
  [f EXCEPT !.blocks = [b \in DOMAIN @ |->
     [@[b] EXCEPT !.succ = [i \in DOMAIN f.blocks[b].term.to |->
                              [to |-> f.blocks[b].term.to[i], kind |-> Kinds(f.blocks[b].term)[i]]]]]]

NextEntry(r, entries, k) == IF k < Len(entries) THEN entries[k + 1] ELSE r.exit

\* unrollForLoop
UnrollLoop(f, r, p) ==
  LET body  == Cloned(f, r, p)
      n     == Len(p.values)
      flagged == HasBreak(f, r) /\ n > 0
      flag  == Len(f.types) + n * Len(Declared(f, body)) + 1
      init  == Len(f.blocks) + n * Len(body) + 1
      guard(k) == init + 2 * k - 1
      breaker(k) == init + 2 * k
      entries == [k \in 1..n |-> IF flagged THEN guard(k) ELSE CloneOf(f, body, k, r.body)]
      next(k) == NextEntry(r, entries, k)
      first == IF n = 0 THEN r.exit ELSE IF flagged THEN init ELSE entries[1]
      redirected == [b \in Blocks(f) |->
        IF b \notin ExternalPreds(f, r, InitTarget(r)) THEN f.blocks[b]
        ELSE [f.blocks[b] EXCEPT !.term.to =
                [i \in DOMAIN @ |-> IF @[i] = InitTarget(r) THEN first ELSE @[i]]]]
      clones == FlattenSeq([k \in 1..n |-> [j \in DOMAIN body |->
                  CloneBlock(f, r, p, body, k, next(k),
                             IF flagged THEN breaker(k) ELSE r.exit, body[j])]])
      flags == <<FlagBlock(<<Decl(flag), Assign(flag, Lit(1, Bool))>>, Jump(guard(1)), r, f)>>
               \o FlattenSeq([k \in 1..n |->
                    <<FlagBlock(<<>>, Branch(Var(flag), CloneOf(f, body, k, r.body), next(k)), r, f),
                      FlagBlock(<<Assign(flag, Lit(0, Bool))>>, Jump(next(k)), r, f)>>])
      fresh == FlattenSeq([k \in 1..n |-> [j \in DOMAIN Declared(f, body) |->
                 f.types[Declared(f, body)[j]]]])
  IN RebuildEdges([f EXCEPT !.blocks = redirected \o clones \o (IF flagged THEN flags ELSE <<>>),
                            !.types = @ \o fresh \o (IF flagged THEN <<Bool>> ELSE <<>>)])

-----------------------------------------------------------------------------
(* compactReachable: a block that is not reached keeps its old number where *)
(* a region or a terminator still names it.                                *)

CompactReachable(f) ==
  LET kept  == SelectSeq([b \in Blocks(f) |-> b], LAMBDA b : b \in Reachable(f))
      newId == [b \in Blocks(f) |->
                  IF b \in ToSet(kept) THEN Min({i \in DOMAIN kept : kept[i] = b}) ELSE b]
  IN RebuildEdges(
       [f EXCEPT
          !.entry = newId[@], !.exit = newId[@],
          !.blocks = [i \in DOMAIN kept |->
             [f.blocks[kept[i]] EXCEPT !.term.to = [j \in DOMAIN @ |-> newId[@[j]]]]],
          !.regions = [i \in DOMAIN @ |->
             [@[i] EXCEPT !.prelude = newId[@], !.condition = newId[@],
                          !.body = newId[@], !.exit = newId[@]]]])

-----------------------------------------------------------------------------
(* Actions *)

\* The region's numbers may be stale: a block that is gone cannot be analysed.
Analyze ==
  /\ phase = "built" /\ fn.regions # <<>>
  /\ plan' = IF {Region.prelude, Region.condition, Region.body, Region.exit} \subseteq Blocks(fn)
             THEN AnalyzeLoop(fn, Region) ELSE NoPlan
  /\ phase' = IF plan'.ok THEN "planned" ELSE "rejected"
  /\ UNCHANGED <<prog, fn, cur, loops, breaks, continues, agenda>>

NewBlocks(f, g) == Len(g.blocks) - Len(f.blocks)
Replace(f) ==
  IF NewBlocks(fn, f) > MaxClonedBlocks
  THEN phase' = "rejected" /\ UNCHANGED fn
  ELSE phase' = "cloned" /\ fn' = f

UnrollRegion ==
  /\ phase = "planned"
  /\ Replace(UnrollLoop(fn, Region, plan))
  /\ UNCHANGED <<plan, prog, cur, loops, breaks, continues, agenda>>

Compact ==
  /\ phase = "cloned"
  /\ fn' = CompactReachable([fn EXCEPT !.regions = Front(@)])
  /\ plan' = NoPlan
  /\ phase' = "built"
  /\ UNCHANGED <<prog, cur, loops, breaks, continues, agenda>>

\* No region, no loop-control edge and no cycle is left (verifyNoLoops).
LoopFree(f) ==
  /\ \A b \in Blocks(f) : \A e \in ToSet(f.blocks[b].succ) : e.kind # "continue"
  /\ Acyclic(f)

Finish ==
  /\ phase = "built" /\ fn.regions = <<>>
  /\ fn' = [fn EXCEPT !.blocks = [b \in DOMAIN @ |-> [@[b] EXCEPT !.loops = <<>>]]]
  /\ phase' = IF LoopFree(fn) THEN "unrolled" ELSE "looping"
  /\ UNCHANGED <<plan, prog, cur, loops, breaks, continues, agenda>>

UnrollStopped == phase \in {"refused", "failed", "rejected", "unrolled", "looping"} /\ UNCHANGED unrollVars

UnrollNext == Building5 \/ Analyze \/ UnrollRegion \/ Compact \/ Finish \/ UnrollStopped

UnrollSpec == UnrollInit /\ [][UnrollNext]_unrollVars

-----------------------------------------------------------------------------
(* Properties *)

\* Unrolling keeps the meaning: after each loop, and at the end, the CFG makes
\* the calls the structured program makes, with the same arguments, and
\* returns the same value, whatever the calls return.
UnrollingKeepsMeaning == phase \in {"built", "unrolled"} => MeansTheSame

\* A loop that is not analysed is one that runs, for some results of the calls,
\* more often than max_iterations_per_loop; all others go, and when no region
\* is left, nothing is left for verifyNoLoops to report.  Starts is the call
\* that the body of each outer loop begins with.
CONSTANT Starts
Iterations(results) ==
  Len(SelectSeq(RunBody(prog, results, Fuel).m.trace, LAMBDA c : c[1] = Starts))

CountableLoopsGo ==
  /\ phase # "looping"
  /\ phase = "rejected" /\ ~plan.ok => \E results \in Oracles : Iterations(results) > MaxIterations
=============================================================================
