------------------------------ MODULE FlatCfg ------------------------------
(***************************************************************************)
(* Scalar programs with signed views: what stage S7 hands to stage S8      *)
(* (src/src/s7flatten/S7Flatten.h), and the language of stage S8's output  *)
(* before the views are gone (src/src/s8opnorm/S8Norm.h).                  *)
(*                                                                         *)
(* Blocks, terminators and ports are those of NormCfg.  An operand says    *)
(* with sv that its bits are to be read as a two's complement number.  A   *)
(* statement has the fields n, the constants hi and lo, a bit or a count,  *)
(* and w, the width of the result.                                         *)
(***************************************************************************)
EXTENDS NormCfg

Use(x) == [kind |-> "var", v |-> x, sv |-> FALSE]
Const(v, t) == [kind |-> "lit", v |-> v % 2^t.w, t |-> t, sv |-> FALSE]
Signed(o) == [o EXCEPT !.sv = TRUE]
Unsigned(o) == [o EXCEPT !.sv = FALSE]

Do(x, op, args, n) == [k |-> "op", op |-> op, to |-> <<x>>, args |-> args, n |-> n, w |-> 0]
Copy(x, o) == [Do(x, "copy", <<o>>, <<>>) EXCEPT !.k = "assign"]
Select(x, index, elems) == [Do(x, "lookup", <<index>> \o elems, <<>>) EXCEPT !.k = "lookup"]
Replace(targets, index, value, elems) ==
  [k |-> "write", op |-> "write", to |-> targets, args |-> <<index, value>> \o elems,
   n |-> <<>>, w |-> 0]

TypeOf(types, o) == IF o.kind = "lit" THEN o.t ELSE types[o.v]

-----------------------------------------------------------------------------
(* Operations.  An operand's value is [v, w, sv]: bits, width and view.    *)

Num(a) == IF a.sv /\ a.v >= 2^(a.w - 1) THEN a.v - 2^a.w ELSE a.v
BitOf(v, i) == (v \div 2^i) % 2
SumOver(S, f(_)) == FoldSet(LAMBDA i, sum : sum + f(i), 0, S)
Bitwise2(a, b, w, f(_, _)) == SumOver(0..(w - 1), LAMBDA i : 2^i * f(BitOf(a, i), BitOf(b, i)))
Shift(v, n, w) == IF n >= w THEN 0 ELSE v * 2^n
Insert(base, v, hi, lo) ==
  base - (((base \div 2^lo) % 2^(hi - lo + 1)) * 2^lo) + (v % 2^(hi - lo + 1)) * 2^lo
Joined(a) == FoldLeft(LAMBDA v, part : v * 2^part.w + part.v, 0, a)

\* The order two values are compared in: of numbers if a view is signed.
Before(a, b) ==
  LET w == Max({a.w, b.w})
      wide(x) == [v |-> Num(x) % 2^w, w |-> w, sv |-> a.sv \/ b.sv]
  IN Num(wide(a)) < Num(wide(b))

Result(op, w, n, a) ==
  LET bits(v) == v % 2^w
  IN CASE op \in {"copy", "cast", "plus"} -> Num(a[1])
       [] op \in {"zext", "trunc"} -> bits(a[1].v)
       [] op = "sext" -> bits(Num(Signed(a[1])))
       [] op = "add" -> bits(a[1].v + a[2].v)
       [] op = "add_carry" -> bits(a[1].v + a[2].v + a[3].v)
       [] op = "sub" -> bits(a[1].v - a[2].v)
       [] op = "mul" -> bits(Num(a[1]) * Num(a[2]))
       [] op = "neg" -> bits(-a[1].v)
       [] op = "bitnot" -> 2^w - 1 - bits(a[1].v)
       [] op = "lnot" -> Bit(a[1].v = 0)
       [] op = "bitand" -> Bitwise2(a[1].v, a[2].v, w, LAMBDA x, y : x * y)
       [] op = "bitor" -> Bitwise2(a[1].v, a[2].v, w, LAMBDA x, y : Bit(x + y > 0))
       [] op = "bitxor" -> Bitwise2(a[1].v, a[2].v, w, LAMBDA x, y : (x + y) % 2)
       [] op = "land" -> Bit(a[1].v # 0 /\ a[2].v # 0)
       [] op = "lor" -> Bit(a[1].v # 0 \/ a[2].v # 0)
       [] op = "shl" -> bits(Shift(a[1].v, a[2].v, w))
       \* Shifting by the width or more gives zero, also for negative numbers.
       [] op \in {"shr", "ashr", "lshr"} ->
            IF a[2].v >= a[1].w THEN 0 ELSE bits(Num(a[1]) \div 2^a[2].v)
       [] op = "eq" -> Bit(a[1].v = a[2].v)
       [] op = "ne" -> Bit(a[1].v # a[2].v)
       [] op = "lt" -> Bit(Before(a[1], a[2]))
       [] op = "gt" -> Bit(Before(a[2], a[1]))
       [] op = "le" -> Bit(~Before(a[2], a[1]))
       [] op = "ge" -> Bit(~Before(a[1], a[2]))
       [] op = "mux" -> bits(IF a[1].v # 0 THEN a[2].v ELSE a[3].v)
       [] op = "slice" -> (a[1].v \div 2^n[2]) % 2^(n[1] - n[2] + 1)
       [] op = "bit" -> BitOf(a[1].v, n[1])
       [] op = "write_slice" -> Insert(a[1].v, a[2].v, n[1], n[2])
       [] op = "write_bit" -> Insert(a[1].v, Bit(a[2].v # 0), n[1], n[1])
       [] op = "concat" -> Joined(a)
       [] op = "repeat" -> Joined([i \in 1..n[1] |-> a[1]])
       [] op = "reduce_or" -> Bit(a[1].v # 0)
       [] op = "reduce_and" -> Bit(a[1].v = 2^a[1].w - 1)
       [] op = "reduce_xor" -> SumOver(0..(a[1].w - 1), LAMBDA i : BitOf(a[1].v, i)) % 2
       [] op = "dyn_bit" -> IF a[2].v >= a[1].w THEN 0 ELSE BitOf(a[1].v, a[2].v)
       [] op = "dyn_slice" -> IF a[2].v >= a[1].w THEN 0 ELSE bits(a[1].v \div 2^a[2].v)
       \* Bits that would land above the top are lost.
       [] op \in {"dyn_write_bit", "dyn_write_slice"} ->
            LET size == IF op = "dyn_write_bit" THEN 1 ELSE a[3].w
                new == IF op = "dyn_write_bit" THEN Bit(a[3].v # 0) ELSE a[3].v
            IN IF a[2].v >= a[1].w THEN a[1].v
               ELSE Insert(a[1].v, new, a[2].v + size - 1, a[2].v) % 2^a[1].w
       [] op = "lookup" -> IF a[1].v + 2 \in DOMAIN a THEN a[a[1].v + 2].v ELSE 0
       [] op = "div" -> bits(a[1].v \div a[2].v)
       [] op = "mod" -> bits(a[1].v % a[2].v)

\* The width an operation is computed in: what stage S8 writes down as w, and
\* what the operands and the target say before (w = 0).
Width(s, t, a) ==
  CASE s.w > 0 -> s.w
    [] s.op \in {"add", "sub", "div", "mod"} -> Max({x.w : x \in ToSet(a)})
    [] s.op = "mul" -> a[1].w + a[2].w
    [] s.op \in {"bitand", "bitor", "bitxor"} -> Max({t.w, a[1].w, a[2].w})
    [] s.op = "shr" -> a[1].w
    [] OTHER -> t.w

-----------------------------------------------------------------------------
(* Running a program.                                                      *)

Viewed(types, env, o) ==
  [v |-> IF o.kind = "lit" THEN o.v % 2^o.t.w ELSE env[o.v], w |-> TypeOf(types, o).w, sv |-> o.sv]
Fit(t, v) == IF t.bool THEN Bit(v # 0) ELSE v % 2^t.w

FlatStmt(types, env, s) ==
  LET a == [i \in DOMAIN s.args |-> Viewed(types, env, s.args[i])]
      t == types[s.to[1]]
  IN IF s.k = "write"
     THEN [x \in DOMAIN env |->
             IF x \notin ToSet(s.to) THEN env[x]
             ELSE LET i == CHOOSE j \in DOMAIN s.to : s.to[j] = x
                  IN Fit(types[x], IF a[1].v = i - 1 THEN Num(a[2]) ELSE a[i + 2].v)]
     ELSE [env EXCEPT ![s.to[1]] = Fit(t, Result(s.op, Width(s, t, a), s.n, a))]

FlatBlock(f, m) ==
  IF m.at = NoBlock THEN m
  ELSE LET b == f.blocks[m.at]
           env == FoldLeft(LAMBDA e, s : FlatStmt(f.types, e, s), m.env, b.stmts)
           value(o) == Viewed(f.types, env, o).v
           on == CASE b.term.kind = "switch" -> value(b.term.on[1])
                   [] b.term.kind = "branch" -> Bit(value(b.term.on[1]) # 0)
                   [] OTHER -> 0
       IN [env |-> env,
           at |-> Taken(b.term, on,
                        [i \in DOMAIN b.term.cases |-> value(b.term.cases[i])])]

\* The outputs of f when it is entered with env.
FlatOutputs(f, env) ==
  LET end == FoldLeft(LAMBDA m, b : FlatBlock(f, m), [env |-> env, at |-> f.entry], f.blocks)
  IN [x \in OutputPorts(f) |-> end.env[x]]
=============================================================================
