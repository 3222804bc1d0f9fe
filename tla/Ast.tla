--------------------------------- MODULE Ast ---------------------------------
(***************************************************************************)
(* The two languages of stage S3.  Its input is the normalised syntax tree *)
(* (src/src/s1apinorm/S1NormedAST.h, src/src/s0ast/S0AST.h): nested        *)
(* expressions with side effects, variables by name in nested scopes.  Its *)
(* output are structured statements over operands and SymbolIds            *)
(* (src/src/s3statementize/S3Statementize.h).                              *)
(*                                                                         *)
(* The meaning given to the input is that of C++, with the order of        *)
(* evaluation fixed by src/src/s3statementize/checklist.md:104-120:        *)
(* arguments and operands from left to right, the right side of an         *)
(* assignment before the left, a base before its index.                    *)
(*                                                                         *)
(*   expression  [k, op, t, sg, name, x, args, n]: t is the type of its   *)
(*               storage, sg "plain", "signed" (a built-in type) or "view" *)
(*   program     a Seq of functions [name, params, body], the top first;   *)
(*               a parameter is [x, t, mode]                               *)
(***************************************************************************)
EXTENDS AggCfg

Node(k, op, t, args) ==
  [k |-> k, op |-> op, t |-> t, sg |-> "plain", name |-> "", x |-> 0, args |-> args, n |-> <<>>]
LitE(v, t) == [Node("lit", "", t, <<>>) EXCEPT !.x = v]
VarE(x, t) == [Node("var", "", t, <<>>) EXCEPT !.name = x]
IndexE(base, i) == Node("index", "", base.t.elem, <<base, i>>)
FieldE(base, f) == [Node("field", "", base.t.fields[f], <<base>>) EXCEPT !.x = f]
CallE(name, t, args) == [Node("call", "", t, args) EXCEPT !.name = name]
CtorE(t, args) == Node("ctor", "", t, args)
CastE(t, e) == Node("cast", "cast", t, <<e>>)
UnE(op, t, e) == Node("op", op, t, <<e>>)
BinE(op, t, l, r) == Node("op", op, t, <<l, r>>)
\* Operands in the order the tree holds them: base, value, operand, index, parts.
HwE(op, t, n, args) == [Node("hw", op, t, args) EXCEPT !.n = n]
LogicE(op, l, r) == Node("logic", op, Bool, <<l, r>>)
TernE(c, a, b) == Node("ternary", "mux", a.t, <<c, a, b>>)
SetE(l, r) == Node("set", "", l.t, <<l, r>>)
OpSetE(op, l, r) == Node("opset", op, l.t, <<l, r>>)
IncE(op, e) == Node("pre", op, e.t, <<e>>)
PostE(op, e) == Node("post", op, e.t, <<e>>)
CommaE(l, r) == Node("comma", "", r.t, <<l, r>>)
AsSigned(e) == [e EXCEPT !.sg = "signed"]
AsView(e) == [CastE(e.t, e) EXCEPT !.sg = "view"]
SignedUse(e) == e.sg # "plain"

DeclS(x, t) == [k |-> "decl", x |-> x, t |-> t, init |-> <<>>]
DeclInit(x, t, e) == [DeclS(x, t) EXCEPT !.init = <<e>>]
SetS(l, r) == [k |-> "set", args |-> <<l, r>>]
ConstructS(l, args) == [k |-> "construct", to |-> l, args |-> args]
IfS(c, yes, no) == [k |-> "if", cond |-> c, yes |-> yes, no |-> no]
BlockS(body) == [k |-> "block", body |-> body]
ForS(init, cond, step, body) ==
  [k |-> "for", init |-> init, cond |-> cond, step |-> step, body |-> body]
WhileS(c, body) == [k |-> "while", init |-> <<>>, cond |-> <<c>>, step |-> <<>>, body |-> body]
DoS(c, body) == [WhileS(c, body) EXCEPT !.k = "do"]
SwitchS(e, clauses) == [k |-> "switch", on |-> e, clauses |-> clauses]
Clause(value, body) == [value |-> value, body |-> body]
ReturnS(val) == [k |-> "return", val |-> val]
ExprS(e) == [k |-> "expr", e |-> e]
BreakS == [k |-> "break"]
ContinueS == [k |-> "continue"]

FunctionNamed(p, name) == p[CHOOSE i \in DOMAIN p : p[i].name = name]

-----------------------------------------------------------------------------
(* Running the tree.  A machine has the objects of AggCfg, env from names  *)
(* to references, sig, how control leaves a statement, ret, the value      *)
(* returned, and trap: something was read or written past its end.         *)

Out(m, v) == [m |-> m, v |-> v]
Single(v) == [p \in {<<>>} |-> v]
Within(heap, r) == \E p \in DOMAIN heap[r.o] : SubSeq(p, 1, Min({Len(r.path), Len(p)})) = r.path
Fetch(m, r, t) ==
  Out([m EXCEPT !.trap = @ \/ ~Within(m.heap, r)],
      [p \in Paths(t) |-> At(m.heap, [r EXCEPT !.path = @ \o p])])
Write(m, r, v) ==
  IF Within(m.heap, r) THEN [m EXCEPT !.heap = Store(@, r, v)] ELSE [m EXCEPT !.trap = TRUE]
NewObject(m, v) == [m EXCEPT !.heap = Append(@, v)]
LastObject(m) == [o |-> Len(m.heap), path |-> <<>>]

\* Conversion of the value of e to type t.
Coerced(e, t, v) ==
  IF ~IsScalar(t) THEN v
  ELSE Single(Fit(t, Num([v |-> v[<<>>], w |-> e.t.w, sv |-> SignedUse(e)])))
\* An aggregate from the words of its parts, in order; zeros without parts.
Assembled(t, es, vs) ==
  LET words == FlattenSeq([i \in DOMAIN es |-> [j \in DOMAIN Leaves(es[i].t) |->
                 vs[i][Leaves(es[i].t)[j].path]]])
  IN [p \in Paths(t) |-> IF words = <<>> THEN 0
                         ELSE words[CHOOSE i \in DOMAIN Leaves(t) : Leaves(t)[i].path = p]]

\* The operands whose sign an operation looks at.
SignMatters(op, i) == op \in {"mul", "lt", "le", "gt", "ge"} \/ (op = "shr" /\ i = 1)
Operand(op, e, i, v) == [v |-> v[<<>>], w |-> e.t.w, sv |-> SignMatters(op, i) /\ SignedUse(e)]
Applied(op, t, n, a) == Single(Fit(t, Result(op, Width([op |-> op, w |-> 0], t, a), n, a)))
\* The value of a dynamic write stands before its index in the tree.
InOrder(op, args) ==
  IF op \in {"dyn_write_bit", "dyn_write_slice"} THEN <<args[1], args[3], args[2]>> ELSE args
Computed(e, vs) ==
  Applied(e.op, e.t, e.n, [i \in DOMAIN vs |->
    Operand(e.op, InOrder(e.op, e.args)[i], i, InOrder(e.op, vs)[i])])
One(t) == [v |-> 1, w |-> t.w, sv |-> FALSE]

IsPlaceE(e) == e.k \in {"var", "index", "field"}

RECURSIVE Eval(_, _, _), Refer(_, _, _), EvalAll(_, _, _, _), Pass(_, _, _, _, _), RunAll(_, _, _),
          Loop(_, _, _, _)

ReferField(r, e) == [r EXCEPT !.v.path = Append(@, e.x)]
ReferIndex(base, r) == [m |-> r.m, v |-> [base EXCEPT !.path = Append(@, r.v[<<>>])]]
ReferTemp(r) == Out(NewObject(r.m, r.v), LastObject(NewObject(r.m, r.v)))
ReferElement(p, r, e) == ReferIndex(r.v, Eval(p, r.m, e.args[2]))
\* The location an expression names; a value gets one of its own.
Refer(p, m, e) ==
  CASE e.k = "var" -> Out(m, m.env[e.name])
    [] e.k = "field" -> ReferField(Refer(p, m, e.args[1]), e)
    [] e.k = "index" -> ReferElement(p, Refer(p, m, e.args[1]), e)
    [] e.k = "cast" -> Refer(p, m, e.args[1])
    [] OTHER -> ReferTemp(Eval(p, m, e))

EvalNext(p, r, es, vs) == EvalAll(p, r.m, Tail(es), Append(vs, r.v))
EvalAll(p, m, es, vs) ==
  IF es = <<>> THEN Out(m, vs) ELSE EvalNext(p, Eval(p, m, Head(es)), es, vs)

\* Arguments, from left to right.
PassOne(p, r, params, es, refs) == Pass(p, r.m, Tail(params), Tail(es), Append(refs, r.v))
Pass(p, m, params, es, refs) ==
  IF es = <<>> THEN Out(m, refs)
  ELSE IF Head(params).mode # "value" /\ IsPlaceE(Head(es))
       THEN PassOne(p, Refer(p, m, Head(es)), params, es, refs)
  ELSE LET r == Eval(p, m, Head(es))
       IN PassOne(p, ReferTemp([r EXCEPT !.v = Coerced(Head(es), Head(params).t, r.v)]), params, es, refs)
Leave(env, m) == Out([m EXCEPT !.env = env, !.sig = "next"], m.ret)
InvokeE(p, r, f) ==
  Leave(r.m.env, RunAll(p, [r.m EXCEPT !.env = [x \in {q.x : q \in ToSet(f.params)} |->
          r.v[CHOOSE i \in DOMAIN f.params : f.params[i].x = x]]], f.body))
CallOf(p, m, e, f) == InvokeE(p, Pass(p, m, f.params, e.args, <<>>), f)

SetTo(r, e, from, v) == Out(Write(r.m, r.v, Coerced(from, e.t, v)), Coerced(from, e.t, v))
SetAfter(p, r, e) == SetTo(Refer(p, r.m, e.args[1]), e, e.args[2], r.v)
OpSetTo(r, e, v) ==
  LET old == Fetch(r.m, r.v, e.t)
      new == Applied(e.op, e.t, <<>>, <<Operand(e.op, e.args[1], 1, old.v), Operand(e.op, e.args[2], 2, v)>>)
  IN Out(Write(old.m, r.v, new), new)
OpSetAfter(p, r, e) == OpSetTo(Refer(p, r.m, e.args[1]), e, r.v)
Stepped(r, e) ==
  LET old == Fetch(r.m, r.v, e.t)
      new == Applied(e.op, e.t, <<>>, <<Operand(e.op, e.args[1], 1, old.v), One(e.t)>>)
  IN Out(Write(old.m, r.v, new), IF e.k = "pre" THEN new ELSE old.v)
Decided(p, r, e) ==
  IF (r.v[<<>>] # 0) = (e.op = "land") THEN Eval(p, r.m, e.args[2]) ELSE r
Picked(p, r, e) == Eval(p, r.m, e.args[IF r.v[<<>>] # 0 THEN 2 ELSE 3])
Truth(r) == Out(r.m, Single(Bit(r.v[<<>>] # 0)))

Eval(p, m, e) ==
  CASE e.k = "lit" -> Out(m, Single(e.x))
    [] IsPlaceE(e) -> LET r == Refer(p, m, e) IN Fetch(r.m, r.v, e.t)
    [] e.k = "call" -> CallOf(p, m, e, FunctionNamed(p, e.name))
    [] e.k = "ctor" -> LET r == EvalAll(p, m, e.args, <<>>) IN Out(r.m, Assembled(e.t, e.args, r.v))
    [] e.k = "cast" -> LET r == Eval(p, m, e.args[1]) IN Out(r.m, Coerced(e.args[1], e.t, r.v))
    [] e.k \in {"op", "hw"} -> LET r == EvalAll(p, m, e.args, <<>>) IN Out(r.m, Computed(e, r.v))
    [] e.k = "set" -> SetAfter(p, Eval(p, m, e.args[2]), e)
    [] e.k = "opset" -> OpSetAfter(p, Eval(p, m, e.args[2]), e)
    [] e.k \in {"pre", "post"} -> Stepped(Refer(p, m, e.args[1]), e)
    [] e.k = "logic" -> Truth(Decided(p, Eval(p, m, e.args[1]), e))
    [] e.k = "ternary" -> Picked(p, Eval(p, m, e.args[1]), e)

Scoped(env, m) == [m EXCEPT !.env = env]
RunScope(p, m, body) == Scoped(m.env, RunAll(p, m, body))
Declared(m, s) == [NewObject(m, Object(s.t)) EXCEPT !.env = (s.x :> [o |-> Len(m.heap) + 1, path |-> <<>>]) @@ @]
StoreIn(r, to, e, t, v) == Write(r.m, r.v, Coerced(e, t, v))
RunSet(p, r, s) == StoreIn(Refer(p, r.m, s.args[1]), s.args[1], s.args[2], s.args[1].t, r.v)
RunInit(m, s, r) == Write(r.m, m.env[s.x], Coerced(s.init[1], s.t, r.v))
RunDecl(p, m, s) == IF s.init = <<>> THEN m ELSE RunInit(m, s, Eval(p, m, s.init[1]))
RunConstruct(p, r, s) ==
  LET to == Refer(p, r.m, s.to) IN Write(to.m, to.v, Assembled(s.to.t, s.args, r.v))
RunIf(p, r, s) == RunScope(p, r.m, IF r.v[<<>>] # 0 THEN s.yes ELSE s.no)
RunReturn(r) == [r.m EXCEPT !.sig = "return", !.ret = IF r.v = <<>> THEN @ ELSE r.v[1]]

\* A loop that stands at its test, its step or its body.
Again(p, m, s) ==
  CASE m.sig = "break" -> [m EXCEPT !.sig = "next"]
    [] m.sig = "return" -> m
    [] OTHER -> Loop(p, [m EXCEPT !.sig = "next"], s, "step")
Tested(p, r, s) ==
  IF s.cond = <<>> \/ r.v[1][<<>>] # 0 THEN Loop(p, r.m, s, "body") ELSE r.m
Loop(p, m, s, at) ==
  CASE at = "step" -> Loop(p, EvalAll(p, m, s.step, <<>>).m, s, "test")
    [] at = "test" -> Tested(p, EvalAll(p, m, s.cond, <<>>), s)
    [] at = "body" -> Again(p, RunScope(p, m, s.body), s)

EndSwitchOf(m) == IF m.sig = "break" THEN [m EXCEPT !.sig = "next"] ELSE m
From(s, v, values) ==
  LET hit == {i \in DOMAIN s.clauses : s.clauses[i].value # <<>> /\ values[i][<<>>] = v}
      other == {i \in DOMAIN s.clauses : s.clauses[i].value = <<>>}
  IN Min(IF hit # {} THEN hit ELSE other \cup {Len(s.clauses) + 1})
ValueE(c) == IF c.value = <<>> THEN LitE(0, Bool) ELSE c.value[1]
RunClauses(p, m, s, from) ==
  EndSwitchOf(RunAll(p, m, [i \in 1..(Len(s.clauses) + 1 - from) |-> BlockS(s.clauses[from + i - 1].body)]))
RunSwitch(p, r, s) == RunClauses(p, r.m, s, From(s, r.v[1][<<>>], Tail(r.v)))

RunTree(p, m, s) ==
  CASE s.k = "decl" -> RunDecl(p, Declared(m, s), s)
    [] s.k = "set" -> RunSet(p, Eval(p, m, s.args[2]), s)
    [] s.k = "construct" -> RunConstruct(p, EvalAll(p, m, s.args, <<>>), s)
    [] s.k = "if" -> RunIf(p, Eval(p, m, s.cond), s)
    [] s.k = "block" -> RunScope(p, m, s.body)
    [] s.k = "for" -> Scoped(m.env, Loop(p, RunAll(p, m, s.init), s, "test"))
    [] s.k = "while" -> Loop(p, m, s, "test")
    [] s.k = "do" -> Loop(p, m, s, "body")
    [] s.k = "switch" ->
         RunSwitch(p, EvalAll(p, m, <<s.on>> \o [i \in DOMAIN s.clauses |-> ValueE(s.clauses[i])], <<>>), s)
    [] s.k = "return" -> RunReturn(EvalAll(p, m, s.val, <<>>))
    [] s.k = "expr" -> Eval(p, m, s.e).m
    [] s.k \in {"break", "continue"} -> [m EXCEPT !.sig = s.k]
RunAll(p, m, body) ==
  IF body = <<>> \/ m.sig # "next" THEN m ELSE RunAll(p, RunTree(p, m, Head(body)), Tail(body))

\* What the reference parameters of the top function hold at the end.
Frame(p) == [i \in DOMAIN p[1].params |-> p[1].params[i]]
Machine(p, input) ==
  [heap |-> [i \in DOMAIN Frame(p) |-> IF i \in DOMAIN input THEN input[i] ELSE Object(Frame(p)[i].t)],
   env |-> [x \in {q.x : q \in ToSet(Frame(p))} |->
             [o |-> CHOOSE i \in DOMAIN Frame(p) : Frame(p)[i].x = x, path |-> <<>>]],
   sig |-> "next", ret |-> <<>>, trap |-> FALSE]
OutPorts(p) == {i \in DOMAIN p[1].params : p[1].params[i].mode = "ref"}
Observed(p, m) == [trap |-> m.trap, ports |-> [i \in OutPorts(p) |-> m.heap[i]]]
TreeOutcome(p, input) == Observed(p, RunAll(p, Machine(p, input), p[1].body))
\* All values of the value parameters of the top function, which are scalars.
TreeInputs(p) ==
  LET xs == DOMAIN p[1].params \ OutPorts(p)
      words(i) == {Single(v) : v \in 0..(2^p[1].params[i].t.w - 1)}
  IN {g \in [xs -> UNION {words(i) : i \in xs}] : \A i \in xs : g[i] \in words(i)}

-----------------------------------------------------------------------------
(* Statements.  Simple ones are those of AggCfg; the others hold lists of  *)
(* statements, and a loop the list that computes its condition.  A         *)
(* function is [name, params, types, body]; parameters come first.         *)

If(c, yes, no) == [k |-> "if", cond |-> c, yes |-> yes, no |-> no]
LoopOf(kind, init, prelude, cond, step, body) ==
  [k |-> kind, init |-> init, prelude |-> prelude, cond |-> cond, step |-> step, body |-> body]
SwitchOn(o, clauses) == [k |-> "switch", on |-> o, clauses |-> clauses]
Evaluate(o) == [k |-> "eval", args |-> <<o>>]
Break == [k |-> "break"]
Continue == [k |-> "continue"]
ReturnOf(val) == [k |-> "return", val |-> val]
IsSimple(s) == s.k \in {"decl", "assign", "op", "construct", "call"}

RECURSIVE Trapped(_, _, _)
Trapped(heap, frame, o) ==
  o.kind # "lit" /\ (~Within(heap, Locate(heap, frame, o))
                     \/ \E a \in Indices(o) : Trapped(heap, frame, a))
Looked(m, os) == [m EXCEPT !.trap = @ \/ \E o \in ToSet(os) : Trapped(m.heap, m.frame, o)]
Holds(m, o) == ValueOfOperand(m.heap, m.frame, o) # 0

RECURSIVE RunList(_, _, _, _), Cycle(_, _, _, _, _)
BackFrom(m, s, f, callee, inner) ==
  IF s.to = <<>> THEN [m EXCEPT !.heap = inner.heap, !.trap = inner.trap]
  ELSE [m EXCEPT !.heap = Store(inner.heap, Locate(inner.heap, m.frame, s.to[1]), inner.ret),
                 !.trap = inner.trap]
Inner(m, e) == [m EXCEPT !.heap = e.heap, !.frame = e.frame]
RunCall(p, f, m, s, callee) ==
  BackFrom(m, s, f, callee,
    RunList(p, callee, Inner(m, Entered(m.heap, m.frame, callee, s.args)), callee.body))
RunSimple(p, f, m, s) ==
  IF m.trap THEN m
  ELSE IF s.k = "call" THEN RunCall(p, f, m, s, FunctionNamed(p, s.op))
  ELSE [m EXCEPT !.heap = Execute(p, f, @, m.frame, s)]

Round(p, f, m, s) ==
  CASE m.sig = "break" -> [m EXCEPT !.sig = "next"]
    [] m.sig = "return" -> m
    [] OTHER -> Cycle(p, f, [m EXCEPT !.sig = "next"], s, "step")
Checked(p, f, m, s) ==
  IF m.trap \/ (s.cond # <<>> /\ ~Holds(m, s.cond[1])) THEN m ELSE Cycle(p, f, m, s, "body")
Cycle(p, f, m, s, at) ==
  CASE at = "step" -> Cycle(p, f, RunList(p, f, m, s.step), s, "test")
    [] at = "test" -> Checked(p, f, Looked(RunList(p, f, m, s.prelude), s.cond), s)
    [] at = "body" -> Round(p, f, RunList(p, f, m, s.body), s)
FromClause(m, s) ==
  From(s, ValueOfOperand(m.heap, m.frame, s.on),
       [i \in DOMAIN s.clauses |->
          IF s.clauses[i].value = <<>> THEN Single(0)
          ELSE Single(ValueOfOperand(m.heap, m.frame, s.clauses[i].value[1]))])
RunBodies(p, f, m, s, from) ==
  EndSwitchOf(RunList(p, f, m, FlattenSeq([i \in 1..(Len(s.clauses) + 1 - from) |->
                                    s.clauses[from + i - 1].body])))
RunStatement(p, f, m, s) ==
  CASE IsSimple(s) -> RunSimple(p, f, Looked(m, IF s.k = "call" THEN s.args ELSE s.args \o s.to), s)
    [] s.k = "if" -> RunList(p, f, Looked(m, <<s.cond>>), IF Holds(m, s.cond) THEN s.yes ELSE s.no)
    [] s.k = "for" -> Cycle(p, f, RunList(p, f, m, s.init), s, "test")
    [] s.k = "while" -> Cycle(p, f, m, s, "test")
    [] s.k = "do" -> Cycle(p, f, m, s, "body")
    [] s.k = "switch" -> RunBodies(p, f, m, s, FromClause(m, s))
    [] s.k = "eval" -> Looked(m, s.args)
    [] s.k = "return" ->
         [Looked(m, s.val) EXCEPT !.sig = "return",
            !.ret = IF s.val = <<>> THEN @
                    ELSE Load(m.heap, m.frame, s.val[1], TypeOfOperand(f.types, s.val[1]))]
    [] s.k \in {"break", "continue"} -> [m EXCEPT !.sig = s.k]
RunList(p, f, m, body) ==
  IF body = <<>> \/ m.sig # "next" \/ m.trap THEN m
  ELSE RunList(p, f, RunStatement(p, f, m, Head(body)), Tail(body))

StatementOutcome(p, source, input) ==
  LET start == FoldLeft(LAMBDA m, x : WithObject(m, IF x \in DOMAIN input THEN input[x]
                                                    ELSE Object(p[1].types[x])),
                        [heap |-> <<>>, frame |-> <<>>], [x \in DOMAIN p[1].types |-> x])
  IN Observed(source, RunList(p, p[1], [heap |-> start.heap, frame |-> start.frame, sig |-> "next",
                                        ret |-> <<>>, trap |-> FALSE], p[1].body))
=============================================================================
