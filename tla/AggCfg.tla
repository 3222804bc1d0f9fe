------------------------------- MODULE AggCfg -------------------------------
(***************************************************************************)
(* The program that stages S6 and S7 work on: functions whose bodies are   *)
(* loop-free CFGs over structs, arrays and words, which call each other    *)
(* (CFGProgram of src/src/s4cfg/S4CFG.h, statements and operands of        *)
(* src/src/s3statementize/S3Statementize.h), and what running it means     *)
(* by the rules of C++.                                                    *)
(*                                                                         *)
(*   program    [top, callees]; callees is a Seq of functions              *)
(*   function   [name, lambda, params, ret, types, blocks, entry, exit]    *)
(*   params     Seq of [x, mode]; mode is "value", "const_ref" or "ref"    *)
(*   ret        the return slot, NoSymbol for a void function              *)
(*   types      Seq of types; a SymbolId is an index                       *)
(*                                                                         *)
(* Types are the scalars of NormCfg, structs and arrays.  The operand      *)
(* "place" is a variable with accesses: fields, and indices, which are     *)
(* operands in turn.                                                       *)
(***************************************************************************)
EXTENDS FlatCfg

NoSymbol == 0

Struct(fields) == [fields |-> fields]
Array(n, elem) == [n |-> n, elem |-> elem]
IsScalar(t) == "w" \in DOMAIN t
IsStruct(t) == "fields" \in DOMAIN t
\* The components of an aggregate: fields from 1, elements from 0.
Parts(t) == IF IsStruct(t) THEN [i \in DOMAIN t.fields |-> i] ELSE [i \in 1..t.n |-> i - 1]
Part(t, i) == IF IsStruct(t) THEN t.fields[i] ELSE t.elem

\* The scalars in a value of type t, in the order of declaration.
RECURSIVE Leaves(_)
Leaves(t) ==
  IF IsScalar(t) THEN <<[path |-> <<>>, t |-> t]>>
  ELSE FlattenSeq([i \in DOMAIN Parts(t) |->
         LET below == Leaves(Part(t, Parts(t)[i]))
         IN [j \in DOMAIN below |-> [below[j] EXCEPT !.path = <<Parts(t)[i]>> \o @]]])
Paths(t) == {leaf.path : leaf \in ToSet(Leaves(t))}

Field(i) == [kind |-> "field", v |-> i]
Place(x, acc) == [kind |-> "place", v |-> x, acc |-> acc, sv |-> FALSE]
Accesses(o) == IF o.kind = "place" THEN o.acc ELSE <<>>
IsIndex(a) == a.kind # "field"
Indices(o) == {a \in ToSet(Accesses(o)) : IsIndex(a)}

TypeOfPlace(types, o) ==
  FoldLeft(LAMBDA t, a : IF IsIndex(a) THEN t.elem ELSE t.fields[a.v], types[o.v], Accesses(o))
TypeOfOperand(types, o) == IF o.kind = "lit" THEN o.t ELSE TypeOfPlace(types, o)

Stmt(k, op, to, args) == [k |-> k, op |-> op, to |-> to, args |-> args, n |-> <<>>, w |-> 0]
Decl(x) == Stmt("decl", "decl", <<Use(x)>>, <<>>)
Set(to, value) == Stmt("assign", "copy", <<to>>, <<value>>)
Compute(to, op, args) == Stmt("op", op, <<to>>, args)
Construct(to, args) == Stmt("construct", "construct", <<to>>, args)
Call(name, to, args) == Stmt("call", name, to, args)
Return == [Unreachable EXCEPT !.kind = "return"]

-----------------------------------------------------------------------------
(* Resolution of a call (InlineEngine::resolve): a lambda of that name if  *)
(* its parameters fit, else the only helper that fits.                     *)

Fits(caller, call, callee) ==
  /\ Len(callee.params) = Len(call.args)
  /\ \A i \in DOMAIN call.args :
       callee.types[callee.params[i].x] = TypeOfOperand(caller.types, call.args[i])
Named(program, caller, call, lambda) ==
  {i \in DOMAIN program.callees :
     LET f == program.callees[i]
     IN f.name = call.op /\ f.lambda = lambda /\ Fits(caller, call, f)}
\* The candidates that are left: a call is resolved when there is one.
Candidates(program, caller, call) ==
  LET lambdas == Named(program, caller, call, TRUE)
  IN IF lambdas # {} THEN lambdas ELSE Named(program, caller, call, FALSE)

-----------------------------------------------------------------------------
(* Running a program.  The heap is a sequence of objects, an object the    *)
(* words at its paths; a frame has a reference [o, path] for every symbol. *)
(* What has not been assigned is zero.                                     *)

Object(t) == [p \in Paths(t) |-> 0]
\* There is nothing to read past the end of an array.
At(heap, r) == IF r.path \in DOMAIN heap[r.o] THEN heap[r.o][r.path] ELSE 0

RECURSIVE Locate(_, _, _)
ValueOfOperand(heap, frame, o) ==
  IF o.kind = "lit" THEN o.v ELSE At(heap, Locate(heap, frame, o))
\* The object and path that a variable with accesses names now.
Locate(heap, frame, o) ==
  LET base == frame[o.v]
      token(a) == IF IsIndex(a) THEN ValueOfOperand(heap, frame, a) ELSE a.v
  IN [base EXCEPT !.path = @ \o [i \in DOMAIN Accesses(o) |-> token(Accesses(o)[i])]]

\* A whole value, by paths, and storing one.
Load(heap, frame, o, t) ==
  IF o.kind = "lit" THEN [p \in {<<>>} |-> o.v]
  ELSE LET r == Locate(heap, frame, o) IN [p \in Paths(t) |-> At(heap, [r EXCEPT !.path = @ \o p])]
Store(heap, r, value) ==
  LET n == Len(r.path)
  IN [heap EXCEPT ![r.o] = [p \in DOMAIN @ |->
        IF SubSeq(p, 1, Min({n, Len(p)})) = r.path THEN value[SubSeq(p, n + 1, Len(p))] ELSE @[p]]]

OpInHeap(types, heap, frame, s) ==
  LET t == TypeOfPlace(types, s.to[1])
      arg(o) == [v |-> ValueOfOperand(heap, frame, o), w |-> TypeOfOperand(types, o).w, sv |-> o.sv]
      a == [i \in DOMAIN s.args |-> arg(s.args[i])]
  IN IF IsScalar(t) THEN [p \in {<<>>} |-> Fit(t, Result(s.op, Width(s, t, a), s.n, a))]
     ELSE Load(heap, frame, IF ValueOfOperand(heap, frame, s.args[1]) # 0 THEN s.args[2] ELSE s.args[3], t)
\* The leaves in order get the leaves of the arguments, none means zeros.  A
\* struct with a constructor gets in field i what its parameter n[i] is given.
Built(types, heap, frame, s, t) ==
  LET part(o) == LET u == TypeOfOperand(types, o)
                     v == Load(heap, frame, o, u)
                 IN [i \in DOMAIN Leaves(u) |-> v[Leaves(u)[i].path]]
      words == FlattenSeq([i \in DOMAIN s.args |-> part(s.args[i])])
      given(i) == ValueOfOperand(heap, frame, s.args[s.n[i]])
  IN [p \in Paths(t) |-> IF words = <<>> THEN 0
                         ELSE IF s.n # <<>> THEN Fit(Part(t, p[1]), given(p[1]))
                         ELSE words[CHOOSE i \in DOMAIN Leaves(t) : Leaves(t)[i].path = p]]
\* Conversion to the type of a scalar target.
Converted(types, o, t, value) ==
  IF ~IsScalar(t) THEN value
  ELSE [p \in {<<>>} |-> Fit(t, Num([v |-> value[p], w |-> TypeOfOperand(types, o).w, sv |-> o.sv]))]

\* The frame of a callee: references are bound, and arguments copied, before
\* the body runs.
WithObject(m, value) ==
  [heap |-> Append(m.heap, value), frame |-> Append(m.frame, [o |-> Len(m.heap) + 1, path |-> <<>>])]
EnterParam(m, heap, frame, mode, arg, t) ==
  IF mode # "value" /\ arg.kind # "lit" THEN [m EXCEPT !.frame = Append(@, Locate(heap, frame, arg))]
  ELSE WithObject(m, Load(heap, frame, arg, t))
EnterSymbol(m, heap, frame, callee, args, x) ==
  LET params == {i \in DOMAIN callee.params : callee.params[i].x = x}
  IN IF params = {} THEN WithObject(m, Object(callee.types[x]))
     ELSE EnterParam(m, heap, frame, callee.params[Min(params)].mode, args[Min(params)], callee.types[x])
Entered(heap, frame, callee, args) ==
  FoldLeft(LAMBDA m, x : EnterSymbol(m, heap, frame, callee, args, x),
           [heap |-> heap, frame |-> <<>>], [x \in DOMAIN callee.types |-> x])
\* The result of a call arrives where its target is now.
Returned(heap, frame, inner, f, callee, s) ==
  IF s.to = <<>> THEN heap
  ELSE Store(heap, Locate(heap, frame, s.to[1]),
             Converted(callee.types, Use(callee.ret), TypeOfPlace(f.types, s.to[1]),
                       Load(heap, inner, Use(callee.ret), callee.types[callee.ret])))

RECURSIVE RunFunction(_, _, _, _)
RunCallee(program, f, frame, s, callee, entered) ==
  Returned(RunFunction(program, callee, entered.heap, entered.frame), frame, entered.frame, f, callee, s)
InvokeCallee(program, f, heap, frame, s, callee) ==
  RunCallee(program, f, frame, s, callee, Entered(heap, frame, callee, s.args))
Invoke(program, f, heap, frame, s) ==
  InvokeCallee(program, f, heap, frame, s, program.callees[CHOOSE i \in Candidates(program, f, s) : TRUE])

Execute(program, f, heap, frame, s) ==
  LET t == TypeOfPlace(f.types, s.to[1])
      store(value) == Store(heap, Locate(heap, frame, s.to[1]), value)
  IN CASE s.k = "decl" -> heap
       [] s.k = "assign" -> store(Converted(f.types, s.args[1], t, Load(heap, frame, s.args[1], t)))
       [] s.k = "op" -> store(OpInHeap(f.types, heap, frame, s))
       [] s.k = "construct" -> store(Built(f.types, heap, frame, s, t))
       [] s.k = "call" -> Invoke(program, f, heap, frame, s)

RunBlock(program, f, frame, m) ==
  IF m.at = NoBlock THEN m
  ELSE LET b == f.blocks[m.at]
           heap == FoldLeft(LAMBDA h, s : Execute(program, f, h, frame, s), m.heap, b.stmts)
           value(o) == ValueOfOperand(heap, frame, o)
       IN [heap |-> heap,
           at |-> IF b.term.kind = "return" THEN f.exit
                  ELSE Taken(b.term, IF b.term.on = <<>> THEN 0 ELSE value(b.term.on[1]),
                             [i \in DOMAIN b.term.cases |-> value(b.term.cases[i])])]
\* Without loops no block is entered twice.
RunFunction(program, f, heap, frame) ==
  FoldLeft(LAMBDA m, b : RunBlock(program, f, frame, m), [heap |-> heap, at |-> f.entry], f.blocks).heap

\* What program leaves in the reference parameters of top, whose value
\* parameters start with the values of input.
Ports(f, out) == SelectSeq(f.params, LAMBDA p : (p.mode = "ref") = out)
OutcomeFrom(program, f, start) ==
  LET end == RunFunction(program, f, start.heap, start.frame)
  IN [i \in DOMAIN Ports(f, TRUE) |-> end[Ports(f, TRUE)[i].x]]
Outcome(program, f, input) ==
  OutcomeFrom(program, f,
    FoldLeft(LAMBDA m, x : WithObject(m, IF x \in DOMAIN input THEN input[x] ELSE Object(f.types[x])),
             [heap |-> <<>>, frame |-> <<>>], [x \in DOMAIN f.types |-> x]))
\* All values for the value parameters of a function; they are scalars.
InputsOf(f) ==
  LET xs == {p.x : p \in ToSet(Ports(f, FALSE))}
      words(t) == {[p \in {<<>>} |-> v] : v \in 0..(2^t.w - 1)}
      all == UNION {words(f.types[x]) : x \in xs}
  IN {g \in [xs -> all] : \A x \in xs : g[x] \in words(f.types[x])}
=============================================================================
