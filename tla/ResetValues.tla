----------------------------- MODULE ResetValues -----------------------------
(***************************************************************************)
(* src/src/backend/pipeline_reset.cpp: the value every signal has while    *)
(* the inputs show their reset values, computed ahead of time.  Registers  *)
(* are reset to these values and the report announces those of the         *)
(* outputs, so the evaluator has to agree with the text that rtlgen.cpp    *)
(* writes for the same graph.  It is a second reading of every operation,  *)
(* each operand extended by its own signed view.                           *)
(***************************************************************************)
EXTENDS Optimise

NoValue == -1   \* the evaluator throws

-----------------------------------------------------------------------------
(* Evaluator::operation for a result w wide.  a, b are the operands of d,  *)
(* x, y their values.                                                      *)

Viewed(o, x, to) == Widen(x, o.w, to, o.s)
IndexOf(o, x, n) == IF IndexWidth(n) < o.w THEN x % 2^IndexWidth(n) ELSE x

\* Mutant: the shift forgets the sign of what it shifts.
PlainShift(op, w, a, x, y) ==
  IF y >= a.w THEN 0
  ELSE (IF op = "shl" THEN (x * 2^y) % 2^a.w ELSE x \div 2^y) % 2^w

ResetShift(op, w, a, x, y) ==
  IF y >= a.w THEN 0
  ELSE (IF op = "shl" THEN (x * 2^y) % 2^a.w
        ELSE IF a.s THEN (AsInt(x, a.w) \div 2^y) % 2^a.w
        ELSE x \div 2^y) % 2^w

\* One signed side makes the comparison signed.
ResetCompare(op, a, b, x, y) ==
  LET common == Larger(a.w, b.w)
      u == Viewed(a, x, common)
      v == Viewed(b, y, common)
      less(i, j) == IF a.s \/ b.s THEN AsInt(i, common) < AsInt(j, common) ELSE i < j
  IN CASE op = "eq" -> u = v
       [] op = "ne" -> u # v
       [] op = "lt" -> less(u, v)
       [] op = "le" -> ~less(v, u)
       [] op = "gt" -> less(v, u)
       [] op = "ge" -> ~less(u, v)

ResetArithmetic(op, w, a, b, x, y) ==
  LET u == Viewed(a, x, w)
      v == Viewed(b, y, w)
  IN (CASE op = "add" -> u + v [] op = "sub" -> u - v [] op = "mul" -> u * v) % 2^w

ResetBinary(op, w, a, b, x, y) ==
  CASE op = "land" -> Truth(x # 0 /\ y # 0)
    [] op = "lor" -> Truth(x # 0 \/ y # 0)
    [] op \in {"shl", "shr"} -> ResetShift(op, w, a, x, y)
    [] op \in {"eq", "ne", "lt", "le", "gt", "ge"} -> Truth(ResetCompare(op, a, b, x, y))
    [] op \in {"and", "or", "xor"} -> BitwiseValue(op, w, x, y)
    [] OTHER -> ResetArithmetic(op, w, a, b, x, y)

\* Only the sign bit and the low bits of the operand are kept.
ResetTruncation(w, a, x) ==
  IF w >= a.w THEN x ELSE (x % 2^(w - 1)) + BitOf(x, a.w - 1) * 2^(w - 1)

ResetUnary(op, w, x) ==
  CASE op = "neg" -> (0 - x) % 2^w [] op = "not" -> 2^w - 1 - (x % 2^w) [] op = "lnot" -> Truth(x = 0)

\* A dynamic read past the end is refused; a dynamic write there is cut off.
ResetDynamicRead(w, d, x, y) ==
  LET at == IndexOf(d.args[2], y, d.args[1].w)
  IN IF at + w > d.args[1].w THEN NoValue ELSE (x \div 2^at) % 2^w
ResetWrite(w, base, at, part, length) ==
  NumberOf({i \in 0..w - 1 : IF i \in at..at + length - 1 THEN BitOf(part, i - at) = 1 ELSE BitOf(base, i) = 1})
ResetDynamicWrite(w, d, v) ==
  ResetWrite(w, v[1], IndexOf(d.args[2], v[2], w), v[3], IF d.op = "dwbit" THEN 1 ELSE d.args[3].w)
ResetStaticWrite(w, d, v) == ResetWrite(w, v[1], d.lo, v[2], d.hi - d.lo + 1)

\* Each part is joined below what is there, and what no longer fits is lost.
ResetConcat(w, args, v) ==
  LET join[i \in 0..Len(args)] == IF i = 0 THEN 0 ELSE (join[i - 1] * 2^args[i].w + v[i]) % 2^w
  IN join[Len(args)]

\* The branches are tried in their order, and only the one taken is evaluated.
ResetCase(v) ==
  LET hits == {i \in 1..(Len(v) - 1) \div 2 : v[2 * i - 1] # 0}
  IN IF hits = {} THEN v[Len(v)] ELSE v[2 * Min(hits)]

ResetOperation(d, w, v) ==
  CASE d.op \in {"assign", "cast", "zext", "trunc"} -> v[1] % 2^w
    [] d.op = "strunc" -> ResetTruncation(w, d.args[1], v[1])
    [] d.op = "sext" -> Widen(v[1], d.args[1].w, w, TRUE)
    [] d.op = "ite" -> (IF v[1] = 0 THEN v[3] ELSE v[2]) % 2^w
    [] d.op = "case" -> ResetCase(v) % 2^w
    [] d.op \in {"neg", "not", "lnot"} -> ResetUnary(d.op, w, v[1])
    [] d.op = "addc" -> (v[1] + v[2] + v[3]) % 2^w
    [] d.op \in {"slice", "bit"} -> (v[1] \div 2^d.lo) % 2^w
    [] d.op \in {"dslice", "dbit"} -> ResetDynamicRead(w, d, v[1], v[2])
    [] d.op \in {"wslice", "wbit"} -> ResetStaticWrite(w, d, v)
    [] d.op \in {"dwslice", "dwbit"} -> ResetDynamicWrite(w, d, v)
    [] d.op = "concat" -> ResetConcat(w, d.args, v)
    [] d.op = "repeat" -> ResetConcat(w, [i \in 1..d.lo |-> d.args[1]], [i \in 1..d.lo |-> v[1]])
    [] d.op = "ror" -> Truth(v[1] # 0)
    [] d.op = "rand" -> Truth(v[1] = 2^d.args[1].w - 1)
    [] d.op = "rxor" -> Ones(v[1], d.args[1].w) % 2
    [] OTHER -> ResetBinary(d.op, w, d.args[1], d.args[2], v[1], v[2])

-----------------------------------------------------------------------------
(* Evaluator::signal: a signal after those its driver reads, each once.    *)

\* The operands whose value the operation asks for.
Asked(d, v) ==
  CASE d.op = "ite" -> {1, IF v[1] = 0 THEN 3 ELSE 2}
    [] d.op = "case" ->
         LET hits == {i \in 1..(Len(v) - 1) \div 2 : v[2 * i - 1] # 0}
         IN IF hits = {} THEN {i \in DOMAIN v : i % 2 = 1}
            ELSE {2 * Min(hits)} \cup {2 * i - 1 : i \in 1..Min(hits)}
    [] OTHER -> DOMAIN v

Evaluated(d, w, v) ==
  IF \E i \in Asked(d, v) : v[i] = NoValue THEN NoValue ELSE ResetOperation(d, w, v)

EvaluateAll(p, order, resets) ==
  LET evaluate(m, n) ==
        LET d == p[n].driver
            v == [i \in DOMAIN d.args |-> IF d.args[i].lit THEN d.args[i].v ELSE m[d.args[i].v]]
        IN [m EXCEPT ![n] = IF d.op = "port" THEN resets[p[n].port] ELSE Evaluated(d, p[n].w, v)]
  IN FoldLeft(evaluate, [n \in Nodes(p) |-> 0], order)

-----------------------------------------------------------------------------
(* Properties *)

\* An order is asked of two operands with one view (S8 loses the view of an
\* operand it widens: then the text compares bit patterns, and the evaluator
\* signed numbers).
OneView(sig) ==
  LET d == sig.driver
  IN d.op \in {"lt", "le", "gt", "ge"} => d.args[1].s = d.args[2].s

(***************************************************************************)
(* Whatever the reset values of the inputs, a register is reset to what    *)
(* its signal shows while the inputs hold these values, and the outputs    *)
(* announced are those shown (initializeResetValues); before the first     *)
(* pass and after the last one. A program for which the evaluator throws   *)
(* is not compiled.                                                        *)
(***************************************************************************)
ResetValuesShown ==
  step = 0 /\ iteration \in {1, Iterations + 1} /\ (\A n \in Nodes(graph) : OneView(graph[n])) =>
    LET order == Order(graph)
    IN \A resets \in InputsOf(graph) :
         LET values == EvaluateAll(graph, order, resets)
         IN NoValue \in {values[n] : n \in Nodes(graph)} \/ values = Show(graph, order, resets)
=============================================================================
