--------------------------------- MODULE Cfg ---------------------------------
(***************************************************************************)
(* The statements of stage S3 and the control-flow graphs of stage S4      *)
(* (src/s3statementize/S3Statementize.h, src/s4cfg/S4CFG.h), and what it   *)
(* means to run them.  The stages S4 and S5 are defined on these values.   *)
(*                                                                         *)
(* A function CFG is a record                                              *)
(*   blocks   Seq of [stmts, term, succ, loops]; a BlockId is an index     *)
(*   regions  Seq of loop regions [id, post, condition, prelude, body,     *)
(*            exit]; post is LoopConditionKind::PostTest                   *)
(*   entry, exit   BlockIds                                                *)
(*   types    Seq of value types [w, s]; a SymbolId is an index            *)
(* A block's edges are [to, kind]; predecessor lists are derived.          *)
(*                                                                         *)
(* The reference: structured programs as stage S3 hands them over, and     *)
(* their C++ meaning.  A program is [body, types, returns]; besides the    *)
(* sequential statements of Cfg a body holds ifs, loops, switches, breaks, *)
(* continues and returns.  The list of what is still to be executed        *)
(* carries markers for the ends of loop bodies and of switches, to which   *)
(* break and continue unwind.                                              *)
(***************************************************************************)
EXTENDS Integers, Sequences, FiniteSets, SequencesExt, FiniteSetsExt

NoBlock == 0
NoSymbol == 0
Undef == -1000      \* the value of a variable nobody has written

-----------------------------------------------------------------------------
(* Values: an integer in the range of its type of w bits, signed or not.   *)

Unsigned(w) == [w |-> w, s |-> FALSE]
Signed(w) == [w |-> w, s |-> TRUE]
Bool == Unsigned(1)

Wrap(v, t) ==
  IF v = Undef THEN Undef
  ELSE IF t.s THEN ((v + 2^(t.w - 1)) % 2^t.w) - 2^(t.w - 1) ELSE v % 2^t.w

\* Operands: literals carry their own type, variables that of their symbol.
Lit(v, t) == [kind |-> "lit", v |-> v, t |-> t]
Var(x) == [kind |-> "var", x |-> x]

\* Sequential statements (isSequentialStmt): declarations, assignments of an
\* operand, binary operations and casts, calls, evaluations.  A call's
\* arguments at the positions in refs are passed by mutable reference.
Decl(x) == [k |-> "decl", x |-> x]
Assign(x, a) == [k |-> "assign", x |-> x, a |-> a]
Cast(x, t, a) == [k |-> "cast", x |-> x, t |-> t, a |-> a]
Op(x, op, t, a, b) == [k |-> "op", x |-> x, op |-> op, t |-> t, a |-> a, b |-> b]
Call(x, f, args, refs) == [k |-> "call", x |-> x, f |-> f, args |-> args, refs |-> refs]

IsSequential(s) == s.k \in {"decl", "assign", "cast", "op", "call"}

Compares == {"lt", "le", "gt", "ge", "eq", "ne"}
Compare(op, a, b) ==
  CASE op = "lt" -> a < b [] op = "le" -> a <= b [] op = "gt" -> a > b
    [] op = "ge" -> a >= b [] op = "eq" -> a = b [] op = "ne" -> a # b

Bit(b) == IF b THEN 1 ELSE 0

Result(op, a, b, t) ==
  IF Undef \in {a, b} THEN Undef
  ELSE CASE op \in Compares -> Bit(Compare(op, a, b))
         [] op = "add" -> Wrap(a + b, t)
         [] op = "sub" -> Wrap(a - b, t)
         [] op = "mul" -> Wrap(a * b, t)

-----------------------------------------------------------------------------
(* Running statements.  A run has an environment, the trace of the calls   *)
(* made so far, and the results the next calls will return; it stops       *)
(* ("cut") when it has consumed them all.                                  *)

Value(m, types, o) == IF o.kind = "lit" THEN Wrap(o.v, o.t) ELSE m.env[o.x]
Set(m, types, x, v) == [m EXCEPT !.env[x] = Wrap(v, types[x])]

Exec(m, types, s) ==
  CASE s.k = "decl"   -> [m EXCEPT !.env[s.x] = Undef]
    [] s.k = "assign" -> Set(m, types, s.x, Value(m, types, s.a))
    [] s.k = "cast"   -> Set(m, types, s.x, Wrap(Value(m, types, s.a), s.t))
    [] s.k = "op"     -> Set(m, types, s.x,
                           Result(s.op, Value(m, types, s.a), Value(m, types, s.b), s.t))
    [] s.k = "call"   ->
         IF m.results = <<>> THEN [m EXCEPT !.cut = TRUE]
         ELSE
           LET given == [i \in DOMAIN s.args |-> Value(m, types, s.args[i])]
               byRef == {s.args[i].x : i \in {j \in s.refs : s.args[j].kind = "var"}}
               bumped == [x \in DOMAIN m.env |->
                            IF x \in byRef /\ m.env[x] # Undef
                            THEN Wrap(m.env[x] + 1, types[x]) ELSE m.env[x]]
               called == [m EXCEPT !.trace = Append(@, <<s.f, given>>),
                                   !.results = Tail(@), !.env = bumped]
           IN IF s.x = NoSymbol THEN called ELSE Set(called, types, s.x, Head(m.results))

ExecAll(m, types, stmts) ==
  FoldLeft(LAMBDA acc, s : IF acc.cut THEN acc ELSE Exec(acc, types, s), m, stmts)

\* A run that starts with every variable undefined.
Start(symbols, results) ==
  [env |-> [x \in symbols |-> Undef], trace |-> <<>>, results |-> results, cut |-> FALSE]

-----------------------------------------------------------------------------
(* Blocks and edges *)

Open == [kind |-> "open", on |-> <<>>, vals |-> <<>>, to |-> <<>>]
Exit == [Open EXCEPT !.kind = "exit"]
Jump(t) == [Open EXCEPT !.kind = "jump", !.to = <<t>>]
Branch(c, y, n) == [Open EXCEPT !.kind = "branch", !.on = <<c>>, !.to = <<y, n>>]
Switch(v, vals, to) == [kind |-> "switch", on |-> <<v>>, vals |-> vals, to |-> to]
Return(val, exit) == [Open EXCEPT !.kind = "return", !.on = val, !.to = <<exit>>]

Block(loops) == [stmts |-> <<>>, term |-> Open, succ |-> <<>>, loops |-> loops]

Blocks(f) == DOMAIN f.blocks
Succs(f, b) == {e.to : e \in ToSet(f.blocks[b].succ)}
Preds(f, b) == {a \in Blocks(f) : b \in Succs(f, a)}

\* The blocks reached from a set, not going through the blocks in avoid.
ReachFrom(f, from, avoid) ==
  LET step(reach, k) == reach \cup ((UNION {Succs(f, b) : b \in reach}) \ avoid)
  IN FoldLeft(step, from \ avoid, f.blocks)

Reachable(f) == ReachFrom(f, {f.entry}, {})

\* No path leads back to its start.
Acyclic(f) == \A b \in Reachable(f) : b \notin ReachFrom(f, Succs(f, b), {})

-----------------------------------------------------------------------------
(* Running a function CFG for at most fuel * Burst blocks. *)

Burst == 10

NextBlock(f, m, b) ==
  LET t == f.blocks[b].term
      v == Value(m, f.types, t.on[1])
      hits == {i \in DOMAIN t.vals : t.vals[i] = v}
  IN CASE t.kind = "jump"   -> t.to[1]
       [] t.kind = "return" -> t.to[1]
       [] t.kind = "branch" -> IF v # 0 THEN t.to[1] ELSE t.to[2]
       [] t.kind = "switch" -> IF hits = {} THEN Last(t.to) ELSE t.to[Min(hits)]
       [] OTHER -> NoBlock

StepBlock(f, st) ==
  IF st.at = NoBlock \/ st.m.cut THEN st
  ELSE LET m == ExecAll(st.m, f.types, f.blocks[st.at].stmts)
       IN [m |-> m, at |-> IF m.cut THEN st.at ELSE NextBlock(f, m, st.at)]

RunBurst(f, st) ==
  LET run[k \in 0..Burst] == IF k = 0 THEN st ELSE StepBlock(f, run[k - 1])
  IN IF st.at = NoBlock THEN st ELSE run[Burst]

CfgResult(st) == [m |-> st.m, ended |-> st.at = NoBlock]
RunCfg(f, results, fuel) ==
  LET start == [m |-> Start(DOMAIN f.types, results), at |-> f.entry]
      run[k \in 0..fuel] == IF k = 0 THEN start ELSE RunBurst(f, run[k - 1])
  IN CfgResult(run[fuel])

-----------------------------------------------------------------------------
(* The reference: structured programs and their C++ meaning.                *)

If(c, yes, no) == [k |-> "if", cond |-> c, yes |-> yes, no |-> no]
For(init, prelude, cond, step, body) ==
  [k |-> "for", init |-> init, prelude |-> prelude, cond |-> cond, step |-> step,
   body |-> body]
While(prelude, cond, body) ==
  [k |-> "while", prelude |-> prelude, cond |-> <<cond>>, body |-> body]
DoWhile(prelude, cond, body) == [While(prelude, cond, body) EXCEPT !.k = "do"]
\* A clause is [value, body] with an empty value for default.
SwitchOn(v, clauses) == [k |-> "switch", on |-> v, clauses |-> clauses]
Break == [k |-> "break"]
Continue == [k |-> "continue"]
ReturnOf(val) == [k |-> "return", val |-> val]

Next1(s) == [k |-> "next", loop |-> s]      \* the body has run: step and test
Test(s) == [k |-> "test", loop |-> s]
EndSwitch == [k |-> "endswitch"]

\* What remains after leaving the innermost construct marked by one of kinds.
Unwind(todo, kinds) ==
  SubSeq(todo, Min({i \in DOMAIN todo : todo[i].k \in kinds}), Len(todo))

\* The bodies a switch executes: from the clause chosen on, falling through.
Chosen(s, v) ==
  LET hit     == {i \in DOMAIN s.clauses : s.clauses[i].value = <<v>>}
      default == {i \in DOMAIN s.clauses : s.clauses[i].value = <<>>}
  IN CASE hit # {} -> Min(hit) [] hit = {} /\ default # {} -> Min(default)
       [] OTHER -> Len(s.clauses) + 1

Bodies(s, from) ==
  FlattenSeq([i \in 1..(Len(s.clauses) + 1 - from) |-> s.clauses[from + i - 1].body])

\* One step of a run [m, todo, val]: val is the value returned.
RunItem(st, types) ==
  LET s    == Head(st.todo)
      rest == Tail(st.todo)
      sequential(stmts, cont) ==
        LET m == ExecAll(st.m, types, stmts)
        IN [st EXCEPT !.m = m, !.todo = IF m.cut THEN <<>> ELSE cont]
      tested(loop) ==
        LET m == ExecAll(st.m, types, loop.prelude)
            again == loop.cond = <<>> \/ Value(m, types, loop.cond[1]) # 0
        IN [st EXCEPT !.m = m,
                      !.todo = IF m.cut THEN <<>>
                               ELSE IF again THEN loop.body \o <<Next1(loop)>> \o rest
                               ELSE rest]
  IN CASE IsSequential(s) -> sequential(<<s>>, rest)
       [] s.k = "if" -> [st EXCEPT !.todo =
            (IF Value(st.m, types, s.cond) # 0 THEN s.yes ELSE s.no) \o rest]
       [] s.k = "for"   -> sequential(s.init, <<Test(s)>> \o rest)
       [] s.k = "while" -> tested(s)
       [] s.k = "do"    -> [st EXCEPT !.todo = s.body \o <<Next1(s)>> \o rest]
       [] s.k = "test"  -> tested(s.loop)
       [] s.k = "next"  -> sequential(IF s.loop.k = "for" THEN s.loop.step ELSE <<>>,
                                      <<Test(s.loop)>> \o rest)
       [] s.k = "switch" -> [st EXCEPT !.todo =
            Bodies(s, Chosen(s, Value(st.m, types, s.on))) \o <<EndSwitch>> \o rest]
       [] s.k = "endswitch" -> [st EXCEPT !.todo = rest]
       [] s.k = "break"    -> [st EXCEPT !.todo = Tail(Unwind(rest, {"next", "endswitch"}))]
       [] s.k = "continue" -> [st EXCEPT !.todo = Unwind(rest, {"next"})]
       [] s.k = "return"   ->
            [st EXCEPT !.todo = <<>>,
                       !.val = [i \in DOMAIN s.val |-> Value(st.m, types, s.val[i])]]

RunOne(st, types) == IF st.todo = <<>> THEN st ELSE RunItem(st, types)

RunItems(st, types) ==
  LET run[k \in 0..Burst] ==
        IF k = 0 THEN st ELSE RunOne(run[k - 1], types)
  IN IF st.todo = <<>> THEN st ELSE run[Burst]

BodyResult(st) == [m |-> st.m, val |-> st.val, ended |-> st.todo = <<>>]
RunBody(p, results, fuel) ==
  LET start == [m |-> Start(DOMAIN p.types, results), todo |-> p.body, val |-> <<>>]
      run[k \in 0..fuel] == IF k = 0 THEN start ELSE RunItems(run[k - 1], p.types)
  IN BodyResult(run[fuel])
=============================================================================
