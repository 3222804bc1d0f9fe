------------------------------ MODULE RtlGraph ------------------------------
(***************************************************************************)
(* The backend's program with its widths and signed views                  *)
(* (src/src/backend/beir.hpp), and the value each operation has in the RTL *)
(* that src/src/backend/rtlgen.cpp writes for it.                          *)
(*                                                                         *)
(*   program   Seq of [w, port, driver]; a NodeId is an index. port is "" *)
(*             for a signal that nobody outside sees                       *)
(*   driver    [op, lo, hi, args]; lo and hi are the bit range of a static *)
(*             access, lo is the count of a repetition                     *)
(*   operand   a literal or a signal, with a width and a signed view: a    *)
(*             signal is a bit pattern, and only an operand says how an    *)
(*             operation reads its sign bit                                *)
(***************************************************************************)
EXTENDS Integers, Sequences, SequencesExt, FiniteSetsExt

Lit(v, w) == [lit |-> TRUE, v |-> v % 2^w, w |-> w, s |-> FALSE]
Sym(n, w) == [lit |-> FALSE, v |-> n, w |-> w, s |-> FALSE]
Signed(o) == [o EXCEPT !.s = TRUE]

Driver(op, args) == [op |-> op, lo |-> 0, hi |-> 0, args |-> args]
Part(op, lo, hi, args) == [op |-> op, lo |-> lo, hi |-> hi, args |-> args]

Signal(w, port, driver) == [w |-> w, port |-> port, driver |-> driver]

Nodes(p) == DOMAIN p
Observable(sig) == sig.port # ""
Sources(d) == {a.v : a \in {o \in ToSet(d.args) : ~o.lit}}
Ids(p) == [k \in DOMAIN p |-> k]
CaseValues(d) == {i \in DOMAIN d.args : i % 2 = 0 \/ i = Len(d.args)}

-----------------------------------------------------------------------------
(* Bit patterns as numbers, and as sets of the positions that are one *)

BitOf(v, b) == (v \div 2^b) % 2
BitsOf(v, w) == {b \in 0..w - 1 : BitOf(v, b) = 1}
NumberOf(S) == MapThenSumSet(LAMBDA b : 2^b, S)
AsInt(v, w) == IF BitOf(v, w - 1) = 1 THEN v - 2^w ELSE v
Widen(v, from, to, signed) == (IF signed THEN AsInt(v, from) ELSE v) % 2^to
Truth(c) == IF c THEN 1 ELSE 0
Larger(a, b) == IF a > b THEN a ELSE b
Smaller(a, b) == IF a < b THEN a ELSE b

IndexWidth(n) == IF n <= 2 THEN 1 ELSE CHOOSE k \in 1..n : 2^(k - 1) < n /\ n <= 2^k

-----------------------------------------------------------------------------
(* The value of the expression written for driver d of a signal w wide,    *)
(* when its operands have the values v.                                    *)

BitwiseValue(op, w, a, b) ==
  NumberOf({i \in 0..w - 1 :
              LET x == BitOf(a, i)
                  y == BitOf(b, i)
              IN \/ op = "and" /\ x + y = 2
                 \/ op = "or" /\ x + y > 0
                 \/ op = "xor" /\ x + y = 1})

\* SystemVerilog compares as signed only when both sides are signed.
Compares(op, d, v) ==
  LET signed == d.args[1].s /\ d.args[2].s
      a == IF signed THEN AsInt(v[1], d.args[1].w) ELSE v[1]
      b == IF signed THEN AsInt(v[2], d.args[2].w) ELSE v[2]
  IN CASE op = "eq" -> a = b
       [] op = "ne" -> a # b
       [] op = "lt" -> a < b
       [] op = "le" -> a <= b
       [] op = "gt" -> a > b
       [] op = "ge" -> a >= b

\* A shift by the width of its operand or more gives zero, a signed one too.
ShiftValue(op, d, v) ==
  LET from == d.args[1].w
  IN IF v[2] >= from THEN 0
     ELSE IF op = "shl" THEN (v[1] * 2^v[2]) % 2^from
     ELSE IF d.args[1].s THEN (AsInt(v[1], from) \div 2^v[2]) % 2^from
     ELSE v[1] \div 2^v[2]

ArithmeticValue(op, w, d, v) ==
  LET both == d.args[1].s /\ d.args[2].s
      a == Widen(v[1], d.args[1].w, w, both)
      b == Widen(v[2], d.args[2].w, w, both)
  IN CASE op = "add" -> (a + b) % 2^w
       [] op = "sub" -> (a - b) % 2^w
       [] op = "mul" -> (Widen(v[1], d.args[1].w, w, d.args[1].s)
                           * Widen(v[2], d.args[2].w, w, d.args[2].s)) % 2^w

ConcatValue(args, v) ==
  LET join[i \in 0..Len(args)] == IF i = 0 THEN 0 ELSE join[i - 1] * 2^args[i].w + v[i]
  IN join[Len(args)]

\* unique case (1'b1): branches that show what the default shows are not written.
CaseValue(d, v) ==
  LET last == Len(d.args)
      written == {i \in 1..(last - 1) \div 2 : d.args[2 * i] # d.args[last]}
      hits == {i \in written : v[2 * i - 1] = 1}
  IN IF hits = {} THEN v[last] ELSE v[2 * Min(hits)]

\* The index of a dynamic access keeps the bits that number its base.
DynamicPart(base, w, index, width) ==
  LET at == index % 2^IndexWidth(w) IN (base \div 2^at) % 2^width

DynamicWrite(base, w, index, value, width) ==
  LET at == index % 2^IndexWidth(w)
      range == at..(at + width - 1)
  IN NumberOf({i \in 0..w - 1 : IF i \in range THEN BitOf(value, i - at) = 1
                                ELSE BitOf(base, i) = 1})

StaticWrite(d, w, v) ==
  NumberOf({i \in 0..w - 1 : IF i \in d.lo..d.hi THEN BitOf(v[2], i - d.lo) = 1
                             ELSE BitOf(v[1], i) = 1})

Ones(v, w) == MapThenSumSet(LAMBDA b : 1, BitsOf(v, w))

RtlValue(d, w, v) ==
  CASE d.op \in {"assign", "cast", "zext", "trunc"} -> v[1] % 2^w
    [] d.op = "strunc" -> IF w < d.args[1].w
                          THEN (v[1] % 2^(w - 1)) + BitOf(v[1], d.args[1].w - 1) * 2^(w - 1)
                          ELSE v[1]
    [] d.op = "sext" -> Widen(v[1], d.args[1].w, w, TRUE)
    [] d.op \in {"add", "sub", "mul"} -> ArithmeticValue(d.op, w, d, v)
    [] d.op = "addc" -> (v[1] + v[2] + v[3]) % 2^w
    [] d.op \in {"and", "or", "xor"} -> BitwiseValue(d.op, w, v[1], v[2])
    [] d.op = "land" -> Truth(v[1] # 0 /\ v[2] # 0)
    [] d.op = "lor" -> Truth(v[1] # 0 \/ v[2] # 0)
    [] d.op \in {"eq", "ne", "lt", "le", "gt", "ge"} -> Truth(Compares(d.op, d, v))
    [] d.op \in {"shl", "shr"} -> ShiftValue(d.op, d, v) % 2^w
    [] d.op = "lnot" -> Truth(v[1] = 0)
    [] d.op = "not" -> 2^w - 1 - (v[1] % 2^w)
    [] d.op = "neg" -> (0 - v[1]) % 2^w
    [] d.op = "ite" -> (IF v[1] # 0 THEN v[2] ELSE v[3]) % 2^w
    [] d.op = "case" -> CaseValue(d, v) % 2^w
    [] d.op \in {"slice", "bit"} -> ((v[1] \div 2^d.lo) % 2^(d.hi - d.lo + 1)) % 2^w
    [] d.op \in {"wslice", "wbit"} -> StaticWrite(d, w, v)
    [] d.op = "concat" -> ConcatValue(d.args, v) % 2^w
    [] d.op = "repeat" -> ConcatValue([i \in 1..d.lo |-> d.args[1]], [i \in 1..d.lo |-> v[1]]) % 2^w
    [] d.op = "ror" -> Truth(v[1] # 0)
    [] d.op = "rand" -> Truth(v[1] = 2^d.args[1].w - 1)
    [] d.op = "rxor" -> Ones(v[1], d.args[1].w) % 2
    [] d.op \in {"dslice", "dbit"} -> DynamicPart(v[1], d.args[1].w, v[2], w)
    [] d.op = "dwslice" -> DynamicWrite(v[1], w, v[2], v[3], d.args[3].w)
    [] d.op = "dwbit" -> DynamicWrite(v[1], w, v[2], v[3], 1)

-----------------------------------------------------------------------------
(* The whole program *)

\* Every signal after the signals its driver reads; signals on a cycle are left out.
Order(p) ==
  LET level(order, k) ==
        LET done == ToSet(order)
        IN order \o SelectSeq(Ids(p), LAMBDA n : n \notin done /\ Sources(p[n].driver) \subseteq done)
  IN FoldLeft(level, <<>>, Ids(p))

Acyclic(p) == Len(Order(p)) = Len(p)

\* What every signal shows for an input, which gives a value to every input port.
Show(p, order, input) ==
  LET settle(m, n) ==
        LET d == p[n].driver
            v == [i \in DOMAIN d.args |-> IF d.args[i].lit THEN d.args[i].v ELSE m[d.args[i].v]]
        IN [m EXCEPT ![n] = IF d.op = "port" THEN input[p[n].port] ELSE RtlValue(d, p[n].w, v)]
  IN FoldLeft(settle, [n \in Nodes(p) |-> 0], order)

InputPorts(p) == {p[n].port : n \in {k \in Nodes(p) : p[k].driver.op = "port"}}
PortWidth(p, x) == p[CHOOSE n \in Nodes(p) : p[n].port = x].w
InputsOf(p) == {i \in [InputPorts(p) -> 0..2^(Max({1} \cup {PortWidth(p, x) : x \in InputPorts(p)})) - 1] :
                  \A x \in InputPorts(p) : i[x] < 2^PortWidth(p, x)}

\* What the ports show.
Outside(p, shown) == {<<p[n].port, shown[n]>> : n \in {k \in Nodes(p) : Observable(p[k])}}
=============================================================================
