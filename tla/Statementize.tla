----------------------------- MODULE Statementize -----------------------------
(***************************************************************************)
(* Stage S3: expressions are taken apart into statements over operands     *)
(* (src/src/s3statementize/S3Statementize.cpp).  Whatever is not a literal *)
(* or a location is computed into a fresh temporary; a location stays in   *)
(* the operand and is read by the statement that uses it.                  *)
(*                                                                         *)
(* Expressions are lowered by recursion, statements one per step, with the *)
(* lists that are being built on a stack.  The lowerings of the surface    *)
(* tree and of the normalised tree are the same but for declarations,      *)
(* which only the former can initialise, and constructions, which only the *)
(* latter has as statements.                                               *)
(***************************************************************************)
EXTENDS Ast

CONSTANT Programs   \* the programs to lower

VARIABLES source,   \* the program
          done,     \* its lowered functions
          c,        \* the context of the function being lowered, see Context
          work,     \* the statement lists being built, innermost last
          phase     \* "lower", then "verify" and "done", or "failed"

vars == <<source, done, c, work, phase>>

-----------------------------------------------------------------------------
(* Symbols and scopes.  binds maps, scope by scope, names to symbols; a    *)
(* temporary has a number and no name that the source could use.           *)

Context == [types |-> <<>>, binds |-> <<>>, err |-> FALSE]
OpenScope(ctx) == [ctx EXCEPT !.binds = Append(@, <<>>)]
CloseScope(ctx) == [ctx EXCEPT !.binds = Front(@)]
Bind(ctx, x, id) ==
  [ctx EXCEPT !.binds = Append(Front(@), (x :> id) @@ Last(@))]
createSymbol(ctx, x, t) == Bind([ctx EXCEPT !.types = Append(@, t)], x, Len(ctx.types) + 1)
makeTemp(ctx, t) == [ctx EXCEPT !.types = Append(@, t)]

resolveSymbol(ctx, x) ==
  LET in == {i \in DOMAIN ctx.binds : x \in DOMAIN ctx.binds[i]}
  IN IF in = {} THEN NoSymbol ELSE ctx.binds[Max(in)][x]

-----------------------------------------------------------------------------
(* Predicates on expressions.                                              *)

EagerOps == {"lor", "land", "bitor", "bitand", "bitxor", "eq", "ne", "lt", "le", "gt", "ge",
             "lnot", "bitnot", "plus"}
RECURSIVE canEvaluateLogicalOperandEagerly(_)
canEvaluateLogicalOperandEagerly(e) ==
  /\ e.k \in {"lit", "var", "field", "cast", "op", "logic"}
  /\ e.k \in {"op", "logic"} => e.op \in EagerOps
  /\ \A i \in DOMAIN e.args : canEvaluateLogicalOperandEagerly(e.args[i])

RECURSIVE exprHasSideEffect(_)
exprHasSideEffect(e) ==
  \/ e.k \in {"call", "set", "opset", "pre", "post", "logic"}
  \/ e.k = "ctor" /\ ~IsScalar(e.t)
  \/ \E i \in DOMAIN e.args : exprHasSideEffect(e.args[i])

RECURSIVE lvalueNeedsPrelude(_)
exprIsSimpleOperand(e) ==
  e.k \in {"lit", "var"} \/ (e.k \in {"index", "field"} /\ ~lvalueNeedsPrelude(e))
lvalueNeedsPrelude(e) ==
  CASE e.k = "var" -> FALSE
    [] e.k \in {"field", "cast"} -> lvalueNeedsPrelude(e.args[1])
    [] e.k = "index" -> lvalueNeedsPrelude(e.args[1]) \/ ~exprIsSimpleOperand(e.args[2])
    [] OTHER -> TRUE

-----------------------------------------------------------------------------
(* Lowering an expression gives [c, pre, o]: the context, the statements   *)
(* to run first and the operand.                                           *)

R(ctx, pre, o) == [c |-> ctx, pre |-> pre, o |-> o]
Fail(ctx) == R([ctx EXCEPT !.err = TRUE], <<>>, Use(NoSymbol))
After(first, r) == [r EXCEPT !.pre = first.pre \o @]
Then(r, s) == [r EXCEPT !.pre = Append(@, s)]
Extend(o, a) == Place(o.v, Append(Accesses(o), a))

\* A temporary with its declaration; the operand is the temporary.
tempLValue(r, t) ==
  R(makeTemp(r.c, t), Append(r.pre, Decl(Len(r.c.types) + 1)), Use(Len(r.c.types) + 1))
Into(r, s) == Then(r, [s EXCEPT !.to = <<r.o>>])
materializeOp(r, op, t, n, args) ==
  Into(tempLValue(r, t), [Compute(Use(NoSymbol), op, args) EXCEPT !.n = n])

markSigned(o, e) == IF SignedUse(e) THEN Signed(o) ELSE o
Marked(op, os, es) ==
  [i \in DOMAIN os |-> IF SignMatters(op, i) THEN markSigned(os[i], es[i]) ELSE os[i]]

RECURSIVE lowerExpr(_, _), lowerArgs(_, _), lowerLValue(_, _)

\* [c, pre, os]
NoArgs(ctx) == [c |-> ctx, pre |-> <<>>, os |-> <<>>]
WithArg(a, r) == [c |-> r.c, pre |-> a.pre \o r.pre, os |-> Append(a.os, r.o)]
lowerArgs(a, es) ==
  IF es = <<>> THEN a ELSE lowerArgs(WithArg(a, lowerExpr(a.c, Head(es))), Tail(es))

lowerVar(ctx, e) ==
  IF resolveSymbol(ctx, e.name) = NoSymbol THEN Fail(ctx) ELSE R(ctx, <<>>, Use(resolveSymbol(ctx, e.name)))
AtField(r, e) == [r EXCEPT !.o = Extend(@, Field(e.x))]
AtIndex(base, i) == [After(base, i) EXCEPT !.o = Extend(base.o, i.o)]
AtElement(base, e) == AtIndex(base, lowerExpr(base.c, e.args[2]))
lowerLValue(ctx, e) ==
  CASE e.k = "var" -> lowerVar(ctx, e)
    [] e.k = "field" -> AtField(lowerLValue(ctx, e.args[1]), e)
    [] e.k = "index" -> AtElement(lowerLValue(ctx, e.args[1]), e)
    [] e.k = "cast" -> lowerLValue(ctx, e.args[1])
    [] OTHER -> Fail(ctx)

\* The base of a read may be any expression whose operand is a location.
lvalueFromReadableOperand(r) == IF r.o.kind = "lit" THEN Fail(r.c) ELSE r
lowerReadableLValue(ctx, e) ==
  IF e.k = "field" THEN AtField(lvalueFromReadableOperand(lowerExpr(ctx, e.args[1])), e)
  ELSE AtElement(lvalueFromReadableOperand(lowerExpr(ctx, e.args[1])), e)

\* The statement that gives a call or a constructor its target.
Build(e, args) == IF e.k = "ctor" THEN Construct(Use(NoSymbol), args) ELSE Call(e.name, <<>>, args)
CallInto(a, e) == Into(tempLValue(a, e.t), Build(e, a.os))
lowerCall(ctx, e) == CallInto(lowerArgs(NoArgs(ctx), e.args), e)

ToSigned(e) == e.sg = "signed" /\ ~e.args[1].t.bool
CastOn(r, e) ==
  CASE ~IsScalar(e.t) \/ ~IsScalar(e.args[1].t) -> IF e.t = e.args[1].t THEN r ELSE Fail(r.c)
    [] e.sg = "view" -> [r EXCEPT !.o = Signed(@)]
    [] ToSigned(e) /\ e.args[1].t.w = e.t.w -> [r EXCEPT !.o = Signed(@)]
    [] ToSigned(e) /\ e.args[1].t.w # e.t.w ->
         materializeOp(r, "cast", e.t, <<>>, <<[r.o EXCEPT !.sv = SignedUse(e.args[1])]>>)
    [] OTHER -> materializeOp(r, "cast", e.t, <<>>, <<r.o>>)

OpOn(a, e) == materializeOp(a, e.op, e.t, e.n, Marked(e.op, a.os, e.args))
lowerOp(ctx, e) == OpOn(lowerArgs(NoArgs(ctx), e.args), e)
\* A dynamic write wants its index before its value.
HardwareOn(a, e) == materializeOp(a, e.op, e.t, e.n, InOrder(e.op, a.os))
lowerHardwareExpr(ctx, e) == HardwareOn(lowerArgs(NoArgs(ctx), e.args), e)

\* Mutant: the left side is lowered first.
AssignLeftFirst(ctx, l, r) ==
  LET to == lowerLValue(ctx, l)
      value == lowerExpr(to.c, r)
  IN Then([After(to, value) EXCEPT !.o = to.o], Set(to.o, value.o))
AssignTo(value, to) == Then(After(value, to), Set(to.o, value.o))
AssignValue(value, l) == AssignTo(value, lowerLValue(value.c, l))
lowerAssignmentExpr(ctx, l, r) == AssignValue(lowerExpr(ctx, r), l)

\* The left side first, its value read when the operation is done.
StoreBack(r, to) == [Then(r, Set(to, r.o)) EXCEPT !.o = to]
CompoundOn(to, value, e) ==
  StoreBack(materializeOp(After(to, value), e.op, e.t, <<>>, <<to.o, value.o>>), to.o)
CompoundFrom(to, e) == CompoundOn(to, lowerExpr(to.c, e.args[2]), e)
lowerCompoundAssignExpr(ctx, e) == CompoundFrom(lowerLValue(ctx, e.args[1]), e)

Step(r, to, e) ==
  StoreBack(materializeOp(r, e.op, e.t, <<>>, <<to, Const(1, e.t)>>), to)
KeepOld(old, to, e) == [Step(Then(old, Set(old.o, to)), to, e) EXCEPT !.o = old.o]
IncrementOf(to, e) ==
  IF e.k = "post" THEN KeepOld(tempLValue(to, e.t), to.o, e) ELSE Step(to, to.o, e)
lowerIncrement(ctx, e) == IncrementOf(lowerLValue(ctx, e.args[1]), e)

\* The right side only runs in the branch that needs it.
Conditional(t, r, l, e) ==
  LET body == Append(r.pre, Set(t.o, r.o))
      not == materializeOp([t EXCEPT !.c = r.c], "lnot", Bool, <<>>, <<l.o>>)
  IN IF e.op = "land" THEN [Then(t, If(l.o, body, <<>>)) EXCEPT !.c = r.c]
     ELSE [Then(not, If(not.o, body, <<>>)) EXCEPT !.o = t.o]
ConditionalOn(t, l, e) == Conditional(Then(t, Set(t.o, l.o)), lowerExpr(t.c, e.args[2]), l, e)
ConditionalAfter(l, e) == ConditionalOn(tempLValue(l, e.t), l, e)
lowerShortCircuit(ctx, e) == ConditionalAfter(lowerExpr(ctx, e.args[1]), e)

EagerLogic(e) == \A i \in 1..2 : canEvaluateLogicalOperandEagerly(e.args[i])
lowerLogic(ctx, e) == IF EagerLogic(e) THEN lowerOp(ctx, e) ELSE lowerShortCircuit(ctx, e)

Arm(t, r) == Append(r.pre, Set(t.o, Unsigned(r.o)))
Chosen(t, q, yes, no) == [Then(t, If(q.o, Arm(t, yes), Arm(t, no))) EXCEPT !.c = no.c]
ChosenNo(t, q, yes, e) == Chosen(t, q, yes, lowerExpr(yes.c, e.args[3]))
ChosenYes(t, q, e) == ChosenNo(t, q, lowerExpr(t.c, e.args[2]), e)
MuxOn(q, yes, no, e) ==
  materializeOp(After(q, After(yes, no)), "mux", e.t, <<>>,
                <<q.o, Unsigned(yes.o), Unsigned(no.o)>>)
MuxNo(q, yes, e) == MuxOn(q, yes, lowerExpr(yes.c, e.args[3]), e)
\* A choice between values without side effects stays an operation.
Ternary(q, e) ==
  IF \E i \in 2..3 : exprHasSideEffect(e.args[i]) THEN ChosenYes(tempLValue(q, e.t), q, e)
  ELSE MuxNo(q, lowerExpr(q.c, e.args[2]), e)
lowerTernary(ctx, e) == Ternary(lowerExpr(ctx, e.args[1]), e)

lowerExpr(ctx, e) ==
  CASE e.k = "lit" -> R(ctx, <<>>, [Const(e.x, e.t) EXCEPT !.sv = e.sg = "view"])
    [] e.k = "var" -> [lowerVar(ctx, e) EXCEPT !.o.sv = e.sg = "view"]
    [] e.k \in {"index", "field"} -> lowerReadableLValue(ctx, e)
    [] e.k \in {"call", "ctor"} -> lowerCall(ctx, e)
    [] e.k = "cast" -> CastOn(lowerExpr(ctx, e.args[1]), e)
    [] e.k = "op" -> lowerOp(ctx, e)
    [] e.k = "hw" -> lowerHardwareExpr(ctx, e)
    [] e.k = "set" -> lowerAssignmentExpr(ctx, e.args[1], e.args[2])
    [] e.k = "opset" -> lowerCompoundAssignExpr(ctx, e)
    [] e.k \in {"pre", "post"} -> lowerIncrement(ctx, e)
    [] e.k = "logic" -> lowerLogic(ctx, e)
    [] e.k = "ternary" -> lowerTernary(ctx, e)
    [] e.k = "comma" -> Fail(ctx)

-----------------------------------------------------------------------------
(* Statements without bodies.                                              *)

\* A call as the whole right side writes the target itself, unless the
\* target has something to compute first.
Directly(a, to, e) == Then(After(a, to), [Build(e, a.os) EXCEPT !.to = <<to.o>>])
Indirectly(call, to) == Then(After(call, to), Set(to.o, call.o))
SetByCall(a, l, e) ==
  IF lvalueNeedsPrelude(l) THEN LET call == CallInto(a, e) IN Indirectly(call, lowerLValue(call.c, l))
  ELSE Directly(a, lowerLValue(a.c, l), e)
SetByValue(value, to, e) == Then(After(value, to), Set(to.o, markSigned(value.o, e)))
SetAfterValue(value, l, e) == SetByValue(value, lowerLValue(value.c, l), e)
lowerSet(ctx, l, e) ==
  IF e.k \in {"call", "ctor"} THEN SetByCall(lowerArgs(NoArgs(ctx), e.args), l, e)
  ELSE SetAfterValue(lowerExpr(ctx, e), l, e)

DeclareIn(ctx, s) ==
  R(createSymbol(ctx, s.x, s.t), <<Decl(Len(ctx.types) + 1)>>, Use(Len(ctx.types) + 1))
Initialised(r, s) ==
  IF s.init = <<>> THEN r ELSE After(r, lowerSet(r.c, VarE(s.x, s.t), s.init[1]))
ConstructOn(a, to) == Then(After(a, to), Construct(to.o, a.os))
ConstructAfter(a, s) == ConstructOn(a, lowerLValue(a.c, s.to))
ReturnOn(a) == Then(a, ReturnOf(a.os))
EvaluateOn(r) == Then(r, Evaluate(r.o))
CallStatement(a, e) ==
  IF e.k = "ctor" THEN CallInto(a, e) ELSE Then(a, Build(e, a.os))

-----------------------------------------------------------------------------
(* The machine.  A frame is [kind, todo, out, s]: what is left to lower,   *)
(* what is lowered, and the statement that is waiting for it.              *)

NewFrame(kind, todo, s) == [kind |-> kind, todo |-> todo, out |-> <<>>, s |-> s]
Top == Last(work)
Lowering == phase = "lower" /\ ~c.err
Meets(kind) == Lowering /\ Top.todo # <<>> /\ Head(Top.todo).k = kind
Ends(kind) == Lowering /\ Top.todo = <<>> /\ Top.kind = kind

Emitted(frame, pre) == [frame EXCEPT !.out = @ \o pre]
Passed(frame) == [frame EXCEPT !.todo = Tail(@)]
\* The next statement is lowered to r.pre.
Lower(r) ==
  /\ c' = r.c
  /\ work' = Append(Front(work), Emitted(Passed(Top), r.pre))
  /\ UNCHANGED <<source, done, phase>>
\* The next statement has lowered pre, and a body to lower in a new scope.
Enter(ctx, pre, frame) ==
  /\ c' = ctx
  /\ work' = Append(Append(Front(work), Emitted(Passed(Top), pre)), frame)
  /\ UNCHANGED <<source, done, phase>>
\* The innermost frame is done and another one takes its place.
Swap(ctx, frame) ==
  /\ c' = ctx
  /\ work' = Append(Front(work), frame)
  /\ UNCHANGED <<source, done, phase>>
\* The innermost frame is done and leaves pre to the one around it.
Close(ctx, pre) ==
  /\ c' = ctx
  /\ work' = Append(Front(Front(work)), Emitted(Last(Front(work)), pre))
  /\ UNCHANGED <<source, done, phase>>

WithParams(f) ==
  FoldLeft(LAMBDA ctx, q : createSymbol(ctx, q.x, q.t), OpenScope(Context), f.params)
Init ==
  /\ source \in Programs
  /\ done = <<>>
  /\ c = WithParams(source[1])
  /\ work = <<NewFrame("function", source[1].body, <<>>)>>
  /\ phase = "lower"

LowerDecl ==
  Meets("decl") /\ LET s == Head(Top.todo) IN Lower(Initialised(DeclareIn(c, s), s))
LowerSet ==
  Meets("set") /\ LET s == Head(Top.todo) IN Lower(lowerSet(c, s.args[1], s.args[2]))
LowerConstruct ==
  Meets("construct") /\ LET s == Head(Top.todo) IN Lower(ConstructAfter(lowerArgs(NoArgs(c), s.args), s))
LowerReturn ==
  Meets("return") /\ Lower(ReturnOn(lowerArgs(NoArgs(c), Head(Top.todo).val)))
LowerExprStmt ==
  /\ Meets("expr")
  /\ LET e == Head(Top.todo).e
     IN IF e.k \in {"call", "ctor"} THEN Lower(CallStatement(lowerArgs(NoArgs(c), e.args), e))
        ELSE Lower(EvaluateOn(lowerExpr(c, e)))
LowerBreak == Meets("break") /\ Lower(R(c, <<Break>>, <<>>))
LowerContinue == Meets("continue") /\ Lower(R(c, <<Continue>>, <<>>))

OpenIf ==
  /\ Meets("if")
  /\ LET s == Head(Top.todo)
         r == lowerExpr(c, s.cond)
     IN Enter(OpenScope(r.c), r.pre, NewFrame("then", s.yes, [s EXCEPT !.cond = r.o]))
CloseThen ==
  Ends("then") /\ Swap(OpenScope(CloseScope(c)), NewFrame("else", Top.s.no, [Top.s EXCEPT !.yes = Top.out]))
CloseElse == Ends("else") /\ Close(CloseScope(c), <<If(Top.s.cond, Top.s.yes, Top.out)>>)

OpenBlock == Meets("block") /\ Enter(OpenScope(c), <<>>, NewFrame("block", Head(Top.todo).body, <<>>))
CloseBlock == Ends("block") /\ Close(CloseScope(c), Top.out)

\* A loop has a scope for its initialisation and one for its body.
OpenFor ==
  Meets("for") /\ Enter(OpenScope(c), <<>>, NewFrame("init", Head(Top.todo).init, Head(Top.todo)))
LoopHeader(s, init, cond, step) ==
  LoopOf(s.k, init, cond.pre, cond.os,
         IF s.step = <<>> THEN <<>> ELSE Append(step.pre, Evaluate(step.os[1])), <<>>)
CloseInit ==
  /\ Ends("init")
  /\ LET cond == lowerArgs(NoArgs(c), Top.s.cond)
         step == lowerArgs(NoArgs(cond.c), Top.s.step)
     IN Swap(OpenScope(step.c), NewFrame("loop", Top.s.body, LoopHeader(Top.s, Top.out, cond, step)))
OpenLoop ==
  /\ Meets("while") \/ Meets("do")
  /\ LET s == Head(Top.todo)
         cond == lowerArgs(NoArgs(OpenScope(c)), s.cond)
     IN Enter(OpenScope(cond.c), <<>>, NewFrame("loop", s.body, LoopHeader(s, <<>>, cond, <<>>)))
CloseLoop ==
  Ends("loop") /\ Close(CloseScope(CloseScope(c)), <<[Top.s EXCEPT !.body = Top.out]>>)

\* The case values are computed in front of the switch.
OpenSwitch ==
  /\ Meets("switch")
  /\ LET s == Head(Top.todo)
         r == lowerExpr(c, s.on)
     IN Enter(r.c, r.pre, [NewFrame("switch", <<>>, r.o) EXCEPT !.s = [on |-> r.o, left |-> s.clauses]])
OpenCase ==
  /\ Ends("switch")
  /\ Top.s.left # <<>>
  /\ LET clause == Head(Top.s.left)
         value == lowerArgs(NoArgs(c), clause.value)
         around == Emitted(work[Len(work) - 1], value.pre)
     IN /\ c' = OpenScope(value.c)
        /\ work' = Front(Front(work)) \o
             <<around, [Top EXCEPT !.s.left = Tail(@)], NewFrame("case", clause.body, value.os)>>
        /\ UNCHANGED <<source, done, phase>>
CloseCase == Ends("case") /\ Close(CloseScope(c), <<[value |-> Top.s, body |-> Top.out]>>)
CloseSwitch == Ends("switch") /\ Top.s.left = <<>> /\ Close(c, <<SwitchOn(Top.s.on, Top.out)>>)

Function(f) ==
  [name |-> f.name, types |-> c.types, body |-> Top.out,
   params |-> [i \in DOMAIN f.params |-> [x |-> i, mode |-> f.params[i].mode]]]
\* The top function and then the helpers, each with a context of its own.
CloseFunction ==
  /\ Ends("function")
  /\ done' = Append(done, Function(source[Len(done) + 1]))
  /\ IF Len(done') = Len(source)
     THEN phase' = "verify" /\ UNCHANGED <<c, work>>
     ELSE /\ c' = WithParams(source[Len(done') + 1])
          /\ work' = <<NewFrame("function", source[Len(done') + 1].body, <<>>)>>
          /\ UNCHANGED phase
  /\ UNCHANGED source

Throw == phase = "lower" /\ c.err /\ phase' = "failed" /\ UNCHANGED <<source, done, c, work>>

RECURSIVE verifyOperand(_), verifyStmtList(_)
verifyOperand(o) == o.kind = "lit" \/ (o.v # NoSymbol /\ \A a \in Indices(o) : verifyOperand(a))
verifyAll(os) == \A i \in DOMAIN os : verifyOperand(os[i])
verifyStmt(s) ==
  CASE IsSimple(s) -> verifyAll(s.to) /\ verifyAll(s.args)
    [] s.k = "if" -> verifyOperand(s.cond) /\ verifyStmtList(s.yes) /\ verifyStmtList(s.no)
    [] s.k \in {"for", "while", "do"} ->
         /\ verifyStmtList(s.init) /\ verifyStmtList(s.prelude) /\ verifyAll(s.cond)
         /\ verifyStmtList(s.step) /\ verifyStmtList(s.body)
    [] s.k = "switch" ->
         /\ verifyOperand(s.on)
         /\ \A i \in DOMAIN s.clauses : verifyAll(s.clauses[i].value) /\ verifyStmtList(s.clauses[i].body)
    [] s.k = "return" -> verifyAll(s.val)
    [] s.k = "eval" -> verifyAll(s.args)
    [] OTHER -> TRUE
verifyStmtList(body) == \A i \in DOMAIN body : verifyStmt(body[i])
Verify ==
  /\ phase = "verify"
  /\ phase' = IF \A i \in DOMAIN done : verifyStmtList(done[i].body) THEN "done" ELSE "failed"
  /\ UNCHANGED <<source, done, c, work>>
Finished == phase \in {"done", "failed"} /\ UNCHANGED vars

Next ==
  \/ LowerDecl \/ LowerSet \/ LowerConstruct \/ LowerReturn \/ LowerExprStmt \/ LowerBreak \/ LowerContinue
  \/ OpenIf \/ CloseThen \/ CloseElse \/ OpenBlock \/ CloseBlock \/ OpenFor \/ CloseInit
  \/ OpenLoop \/ CloseLoop \/ OpenSwitch \/ OpenCase \/ CloseCase \/ CloseSwitch
  \/ CloseFunction \/ Throw \/ Verify \/ Finished
Spec == Init /\ [][Next]_vars

-----------------------------------------------------------------------------
\* The statements do, for every input, what the tree does in the order of
\* evaluation that the stage promises: the same values at the end, and no
\* element accessed that does not exist, although short circuits, arms and
\* indices have become statements of their own.
StatementizingKeepsMeaning ==
  phase = "done" =>
    \A input \in TreeInputs(source) :
      TreeOutcome(source, input).trap \/ StatementOutcome(done, source, input) = TreeOutcome(source, input)
=============================================================================
