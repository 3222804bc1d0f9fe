------------------------------ MODULE OptRules ------------------------------
(***************************************************************************)
(* The value facts of src/src/backend/beir.cpp: which bits of a signal are *)
(* known to be zero or one, and which signals are constants.               *)
(*                                                                         *)
(*   fact   [w, zero, one, const, s]: zero and one are sets of bit         *)
(*          positions; a constant's value is the set one; s is the signed  *)
(*          view the constant carries                                      *)
(*                                                                         *)
(* Division is left out: the normalised program has none.                  *)
(*                                                                         *)
(* The optimizer's passes that look at one operation at a time             *)
(* (src/src/backend/beopt_assign_chains.hpp, beopt_constant.hpp,           *)
(* beopt_slices.hpp, beopt_algebraic.hpp, beopt_cse.hpp, beopt_dce.hpp).   *)
(* Each takes the program, and the facts where it reads them, and returns  *)
(* the program it leaves with what it says of itself: whether it changed   *)
(* anything, by the pass's own account. A pass over the signals in their   *)
(* order is a fold of the rewrite of one, so that a later signal sees what *)
(* an earlier one became.                                                  *)
(***************************************************************************)
EXTENDS RtlGraph

Fact(w, zero, one) == [w |-> w, zero |-> zero, one |-> one, const |-> FALSE, s |-> FALSE]
Unknown(w) == Fact(w, {}, {})
Constant(one, w, s) ==
  [w |-> w, zero |-> (0..w - 1) \ one, one |-> one \cap (0..w - 1), const |-> TRUE, s |-> s]
Decided(c) == Constant(IF c THEN {0} ELSE {}, 1, FALSE)

FactOf(facts, o) == IF o.lit THEN Constant(BitsOf(o.v, o.w), o.w, o.s) ELSE facts[o.v]
ReadSigned(o, f) == o.s \/ (f.const /\ f.s)

\* A result whose bit b is bit from[b] of its operand, or zero where that is -1.
Moved(f, w, from) ==
  [w |-> w, const |-> f.const, s |-> f.s,
   zero |-> {b \in 0..w - 1 : from[b] \in f.zero \cup {-1}},
   one |-> {b \in 0..w - 1 : from[b] \in f.one}]

FactZExt(f, w) == Moved(f, w, [b \in 0..w - 1 |-> IF b < f.w THEN b ELSE -1])
FactSExt(f, w) == Moved(f, w, [b \in 0..w - 1 |-> Smaller(b, f.w - 1)])
FactSlice(f, lo, w) == Moved(f, w, [b \in 0..w - 1 |-> lo + b])
FactSignedTrunc(f, w) ==
  IF f.w <= w THEN Unknown(w)
  ELSE Moved(f, w, [b \in 0..w - 1 |-> IF b = w - 1 THEN f.w - 1 ELSE b])

-----------------------------------------------------------------------------
(* Operations whose operands are all constants *)

\* The value of a constant operand, resized by its own view.
Resized(f, w, signed) == Widen(NumberOf(f.one), f.w, w, signed)

FoldUnary(d, w, f) ==
  LET signed == ReadSigned(d.args[1], f)
      v == Resized(f, w, signed)
  IN CASE d.op = "lnot" -> Decided(v = 0)
       [] d.op = "not" -> Constant((0..w - 1) \ BitsOf(v, w), w, signed)
       [] d.op = "neg" -> Constant(BitsOf((0 - v) % 2^w, w), w, signed)

\* One signed side makes the whole comparison signed.
FoldCompare(d, f, g) ==
  LET signed == ReadSigned(d.args[1], f) \/ ReadSigned(d.args[2], g)
      w == Larger(f.w, g.w)
      x == Resized(f, w, ReadSigned(d.args[1], f))
      y == Resized(g, w, ReadSigned(d.args[2], g))
      a == IF signed THEN AsInt(x, w) ELSE x
      b == IF signed THEN AsInt(y, w) ELSE y
  IN Decided(\/ d.op = "eq" /\ a = b
             \/ d.op = "ne" /\ a # b
             \/ d.op = "lt" /\ a < b
             \/ d.op = "le" /\ a <= b
             \/ d.op = "gt" /\ a > b
             \/ d.op = "ge" /\ a >= b)

\* A right shift of a signed constant fills with its sign, by any amount.
FoldShift(d, w, f, g) ==
  LET signed == ReadSigned(d.args[1], f)
      v == Resized(f, w, signed)
      amount == NumberOf(g.one)
      filled == IF signed THEN AsInt(v, w) ELSE v
      result == IF d.op = "shl" THEN IF amount >= w THEN 0 ELSE v * 2^amount
                ELSE filled \div 2^Smaller(amount, w)
  IN Constant(BitsOf(result % 2^w, w), w, signed)

FoldArithmetic(d, w, f, g) ==
  LET a == Resized(f, w, ReadSigned(d.args[1], f))
      b == Resized(g, w, ReadSigned(d.args[2], g))
      result == CASE d.op = "add" -> a + b
                  [] d.op = "sub" -> a - b
                  [] d.op = "mul" -> a * b
                  [] OTHER -> BitwiseValue(d.op, w, a, b)
  IN Constant(BitsOf(result % 2^w, w), w, ReadSigned(d.args[1], f) \/ ReadSigned(d.args[2], g))

FoldBinary(d, w, f, g) ==
  CASE d.op = "land" -> Decided(f.one # {} /\ g.one # {})
    [] d.op = "lor" -> Decided(f.one # {} \/ g.one # {})
    [] d.op \in {"eq", "ne", "lt", "le", "gt", "ge"} -> FoldCompare(d, f, g)
    [] d.op \in {"shl", "shr"} -> FoldShift(d, w, f, g)
    [] OTHER -> FoldArithmetic(d, w, f, g)

-----------------------------------------------------------------------------
(* Operations with operands that are not *)

FactBitwise(op, w, f, g) ==
  CASE op = "and" -> Fact(w, (f.zero \cup g.zero) \cap (0..w - 1), f.one \cap g.one \cap (0..w - 1))
    [] op = "or" -> Fact(w, f.zero \cap g.zero \cap (0..w - 1), (f.one \cup g.one) \cap (0..w - 1))
    [] op = "xor" -> Fact(w, ((f.zero \cap g.zero) \cup (f.one \cap g.one)) \cap (0..w - 1),
                             ((f.zero \cap g.one) \cup (f.one \cap g.zero)) \cap (0..w - 1))

\* The bits up to which operand f may have a one.
PossibleBits(f, w) == Max({0} \cup {b + 1 : b \in (0..Smaller(w, f.w) - 1) \ f.zero})

FactAddCarry(w, fs) ==
  IF \A i \in 1..3 : fs[i].const
  THEN Constant(BitsOf((NumberOf(fs[1].one) + NumberOf(fs[2].one) + NumberOf(fs[3].one)) % 2^w, w), w, FALSE)
  ELSE Fact(w, (Larger(PossibleBits(fs[1], w), PossibleBits(fs[2], w)) + 1)..(w - 1), {})

\* Part i of a concatenation starts at the bit after the parts to its right.
FactConcat(w, fs) ==
  LET start == [i \in 0..Len(fs) |-> FoldLeft(LAMBDA t, f : t + f.w, 0, SubSeq(fs, i + 1, Len(fs)))]
  IN IF start[0] # w THEN Unknown(w)
     ELSE Fact(w, UNION {{start[i] + b : b \in fs[i].zero} : i \in DOMAIN fs},
                  UNION {{start[i] + b : b \in fs[i].one} : i \in DOMAIN fs})

\* What every result that can be selected agrees on.
Agreed(w, possible) ==
  LET resized == [i \in DOMAIN possible |-> FactZExt(possible[i], w)]
  IN IF Len(possible) = 1 THEN resized[1]
     ELSE Fact(w, {b \in 0..w - 1 : \A i \in DOMAIN resized : b \in resized[i].zero},
                  {b \in 0..w - 1 : \A i \in DOMAIN resized : b \in resized[i].one})

FactIte(w, fs) ==
  IF fs[1].const THEN FactZExt(IF fs[1].one = {} THEN fs[3] ELSE fs[2], w)
  ELSE Agreed(w, <<fs[2], fs[3]>>)

\* A branch whose condition is a true constant ends the case.
FactCase(w, fs) ==
  LET branches == [k \in 1..(Len(fs) - 1) \div 2 |-> k]
      taken == {k \in ToSet(branches) : fs[2 * k - 1].const /\ fs[2 * k - 1].one # {}}
      last == IF taken = {} THEN Len(branches) ELSE Min(taken)
      reachable == SelectSeq(branches, LAMBDA k : k <= last /\ ~(fs[2 * k - 1].const /\ fs[2 * k - 1].one = {}))
      selected == [i \in DOMAIN reachable |-> fs[2 * reachable[i]]]
  IN Agreed(w, IF taken = {} THEN Append(selected, fs[Len(fs)]) ELSE selected)

FactReduce(op, f) ==
  LET decisive == IF op = "ror" THEN f.one ELSE f.zero
      neutral == IF op = "ror" THEN f.zero ELSE f.one
  IN IF decisive # {} THEN Decided(op = "ror")
     ELSE IF neutral = 0..f.w - 1 THEN Decided(op = "rand")
     ELSE Unknown(1)

UnaryOps == {"lnot", "not", "neg"}
BinaryOps == {"add", "sub", "mul", "and", "or", "xor", "land", "lor",
              "eq", "ne", "lt", "le", "gt", "ge", "shl", "shr"}

Infer(d, w, fs) ==
  CASE d.op \in {"assign", "cast", "zext", "trunc"} -> FactZExt(fs[1], w)
    [] d.op = "sext" -> FactSExt(fs[1], w)
    [] d.op = "strunc" -> FactSignedTrunc(fs[1], w)
    [] d.op \in {"slice", "bit"} -> FactSlice(fs[1], d.lo, w)
    [] d.op = "concat" -> FactConcat(w, fs)
    [] d.op = "ite" -> FactIte(w, fs)
    [] d.op = "case" -> FactCase(w, fs)
    [] d.op = "addc" -> FactAddCarry(w, fs)
    [] d.op \in UnaryOps /\ fs[1].const -> FoldUnary(d, w, fs[1])
    [] d.op \in BinaryOps /\ fs[1].const /\ fs[2].const -> FoldBinary(d, w, fs[1], fs[2])
    [] d.op = "not" /\ ~fs[1].const -> Fact(w, fs[1].one \cap (0..w - 1), fs[1].zero \cap (0..w - 1))
    [] d.op \in {"and", "or", "xor"} /\ ~(fs[1].const /\ fs[2].const) -> FactBitwise(d.op, w, fs[1], fs[2])
    [] d.op \in {"ror", "rand"} -> FactReduce(d.op, fs[1])
    [] OTHER -> Unknown(w)

\* A signal all of whose bits are known is a constant, read unsigned.
Promote(f) ==
  IF ~f.const /\ f.zero \cup f.one = 0..f.w - 1 THEN [f EXCEPT !.const = TRUE, !.s = FALSE] ELSE f

analyzeValueFacts(p) ==
  LET analyse(facts, n) ==
        LET d == p[n].driver
        IN [facts EXCEPT ![n] = Promote(Infer(d, p[n].w, [i \in DOMAIN d.args |-> FactOf(facts, d.args[i])]))]
  IN FoldLeft(analyse, [n \in Nodes(p) |-> Unknown(p[n].w)], Order(p))

-----------------------------------------------------------------------------
\* What a fact says of a value is true of it.
TrueOf(f, v) == /\ \A b \in f.zero : BitOf(v, b) = 0
                /\ \A b \in f.one : BitOf(v, b) = 1
                /\ f.const => v = NumberOf(f.one)

-----------------------------------------------------------------------------
SetDriver(p, n, d) == [p EXCEPT ![n] = [@ EXCEPT !.driver = d]]
Assign(o) == Driver("assign", <<o>>)

Left(p, changed) == [p |-> p, changed |-> changed]

\* A rewrite gives the one program that results, and <<>> when it does not apply.
RewriteEach(p, ids, rewrite(_, _)) ==
  FoldLeft(LAMBDA s, n : LET found == rewrite(s.p, n) IN IF found = <<>> THEN s ELSE Left(found[1], TRUE),
           Left(p, FALSE), ids)
EachSignal(p, rewrite(_, _)) == RewriteEach(p, Ids(p), rewrite)
FirstApplied(found, next) == IF found = <<>> THEN next ELSE found

-----------------------------------------------------------------------------
(* Aliases *)

\* The operand at the end of a chain of aliases. A signed view anywhere on
\* the way is a signed view of the end.
resolveOperand(o, aliases) ==
  LET step(at, k) == IF ~at.lit /\ at.v \in DOMAIN aliases
                     THEN [aliases[at.v] EXCEPT !.s = @ \/ at.s] ELSE at
  IN FoldLeft(step, o, [k \in 1..Cardinality(DOMAIN aliases) |-> k])

\* A signal that is dropped for an alias changes the program only by its readers.
Resolved(p, aliases) ==
  [n \in Nodes(p) |-> [p[n] EXCEPT !.driver.args = [i \in DOMAIN @ |-> resolveOperand(@[i], aliases)]]]
replaceAliases(p, aliases) ==
  IF DOMAIN aliases = {} THEN Left(p, FALSE)
  ELSE Left(Resolved(p, aliases),
            \E n \in Nodes(p) : \E o \in ToSet(p[n].driver.args) : resolveOperand(o, aliases) # o)

\* Writes and selections of a whole value, and reductions of one bit.
foldEquivalentStaticBitOperation(p, n) ==
  LET d == p[n].driver
      w == p[n].w
      whole(i) == d.lo = 0 /\ d.hi = w - 1 /\ d.args[i].w = w
  IN CASE d.op = "slice" /\ whole(1) -> << SetDriver(p, n, Assign(d.args[1])) >>
       [] d.op \in {"bit", "ror", "rand", "rxor"} /\ w = 1 /\ d.lo = 0 /\ d.args[1].w = 1 ->
            << SetDriver(p, n, Assign(d.args[1])) >>
       [] d.op \in {"wslice", "wbit"} /\ whole(2) -> << SetDriver(p, n, Assign(d.args[2])) >>
       [] OTHER -> <<>>

\* A selection nested in the same side of one with the same condition.
foldSameGuardMux(p, n) ==
  LET d == p[n].driver
      inner(i) == IF d.args[i].lit THEN Driver("port", <<>>) ELSE p[d.args[i].v].driver
      nested(i) == inner(i).op = "ite" /\ inner(i).args[1] = d.args[1]
      side == IF nested(2) THEN 2 ELSE 3
  IN IF d.op = "ite" /\ (nested(2) \/ nested(3))
     THEN << SetDriver(p, n, [d EXCEPT !.args[side] = inner(side).args[side]]) >> ELSE <<>>

AliasesOf(p) ==
  LET alias == {n \in Nodes(p) : ~Observable(p[n]) /\ p[n].driver.op = "assign"}
  IN [n \in alias |-> p[n].driver.args[1]]

\* No signal is both a static bit operation and a selection.
foldAssignChains(p) ==
  LET short == replaceAliases(p, AliasesOf(p))
      folded == EachSignal(short.p, LAMBDA q, n : FirstApplied(foldEquivalentStaticBitOperation(q, n),
                                                               foldSameGuardMux(q, n)))
  IN Left(folded.p, short.changed \/ folded.changed)

-----------------------------------------------------------------------------
(* Constants *)

literalOperandFromFacts(f, w, signed) ==
  [Lit(NumberOf(f.one), w) EXCEPT !.s = signed \/ f.s]

ReadsConstant(o, facts) == ~o.lit /\ facts[o.v].const
propagateConstantOperands(d, facts) ==
  [d EXCEPT !.args = [i \in DOMAIN @ |->
     IF ReadsConstant(@[i], facts) THEN literalOperandFromFacts(facts[@[i].v], @[i].w, @[i].s) ELSE @[i]]]

\* A constant result, unless it is assigned already.
FoldsResult(d, w, f) ==
  /\ f.const /\ d.op # "port"
  /\ ~(d.op = "assign" /\ d.args[1].lit /\ d.args[1].s = f.s /\ d.args[1].v % 2^w = NumberOf(f.one))
foldConstantResult(d, w, f) ==
  IF FoldsResult(d, w, f) THEN Assign(literalOperandFromFacts(f, w, FALSE)) ELSE d

foldConstants(p, facts) ==
  LET known == [n \in Nodes(p) |-> propagateConstantOperands(p[n].driver, facts)]
  IN Left([n \in Nodes(p) |-> [p[n] EXCEPT !.driver = foldConstantResult(known[n], p[n].w, facts[n])]],
          \E n \in Nodes(p) : \/ \E o \in ToSet(p[n].driver.args) : ReadsConstant(o, facts)
                              \/ FoldsResult(known[n], p[n].w, facts[n]))

\* A dynamic access at a constant place inside its base becomes a static one.
specializeConstantSlices(p) ==
  LET part(n) == IF p[n].driver.op = "dslice" THEN p[n].w ELSE p[n].driver.args[3].w
      inside(n) == /\ p[n].driver.op \in {"dslice", "dwslice"}
                   /\ p[n].driver.args[2].lit
                   /\ p[n].driver.args[2].v + part(n) <= p[n].driver.args[1].w
      static(n) == Part(IF p[n].driver.op = "dslice" THEN "slice" ELSE "wslice",
                        p[n].driver.args[2].v, p[n].driver.args[2].v + part(n) - 1,
                        RemoveAt(p[n].driver.args, 2))
  IN Left([n \in Nodes(p) |-> IF inside(n) THEN [p[n] EXCEPT !.driver = static(n)] ELSE p[n]],
          \E n \in Nodes(p) : inside(n))

-----------------------------------------------------------------------------
(* Algebraic identities *)

Zero(w) == Lit(0, w)
AllOnes(w) == Lit(2^w - 1, w)

SameOperand(a, b) == a.lit = b.lit /\ a.v = b.v /\ a.s = b.s /\ (a.lit => a.w = b.w)

IsZero(f) == f.const /\ f.one = {}
IsOne(f) == f.const /\ f.one = {0}
IsAllOnes(f) == f.const /\ f.zero = {}

\* The first rule of a list that applies says what the operation assigns.
FirstOf(rules) == SelectSeq(rules, LAMBDA r : r[1])
Rule(applies, o) == <<applies, o>>

Every(w, P(_)) == \A b \in 0..w - 1 : P(b)

ArithmeticRules(op, w, a, b, f, g) ==
  CASE op = "add" -> << Rule(IsZero(g), a), Rule(IsZero(f), b) >>
    [] op = "sub" -> << Rule(IsZero(g), a) >>
    [] op \in {"mul", "land"} ->
         << Rule(IsZero(f) \/ IsZero(g), Zero(w)), Rule(IsOne(g), a), Rule(IsOne(f), b) >>
    [] op = "lor" ->
         << Rule(IsOne(f) \/ IsOne(g), Lit(1, w)), Rule(IsZero(g), a), Rule(IsZero(f), b) >>

\* An operand that the other side cannot change, or a result known bit by
\* bit; a constant side that is narrower than the result is found by its value.
BitwiseRules(op, w, a, b, f, g) ==
  CASE op = "and" -> << Rule(Every(w, LAMBDA i : i \in g.one \cup f.zero), a),
                        Rule(Every(w, LAMBDA i : i \in f.one \cup g.zero), b),
                        Rule(Every(w, LAMBDA i : i \in f.zero \cup g.zero), Zero(w)),
                        Rule(IsZero(f) \/ IsZero(g), Zero(w)), Rule(IsAllOnes(g), a), Rule(IsAllOnes(f), b) >>
    [] op = "or" -> << Rule(Every(w, LAMBDA i : i \in g.zero \cup f.one), a),
                       Rule(Every(w, LAMBDA i : i \in f.zero \cup g.one), b),
                       Rule(Every(w, LAMBDA i : i \in f.one \cup g.one), AllOnes(w)),
                       Rule(IsZero(g), a), Rule(IsZero(f), b), Rule(IsAllOnes(f) \/ IsAllOnes(g), AllOnes(w)) >>
    [] op = "xor" -> << Rule(SameOperand(a, b), Zero(w)),
                        Rule(Every(w, LAMBDA i : i \in g.zero), a),
                        Rule(Every(w, LAMBDA i : i \in f.zero), b),
                        Rule(Every(w, LAMBDA i : i \in (f.zero \cap g.zero) \cup (f.one \cap g.one)), Zero(w)),
                        Rule(Every(w, LAMBDA i : i \in (f.zero \cap g.one) \cup (f.one \cap g.zero)),
                             AllOnes(w)),
                        Rule(IsZero(g), a), Rule(IsZero(f), b) >>

\* A complement of a complement: the inner operand as its signal is driven now.
NotRules(p, w, a, f) ==
  LET inner == IF a.lit THEN Driver("port", <<>>) ELSE p[a.v].driver
  IN << Rule(IsZero(f), AllOnes(w)),
        Rule(IsAllOnes(f), Zero(w)) >>
       \o IF inner.op = "not" THEN << Rule(TRUE, inner.args[1]) >> ELSE <<>>

IteRules(d, f) ==
  << Rule(d.args[2].w = d.args[3].w /\ SameOperand(d.args[2], d.args[3]), d.args[2]),
     Rule(f.const, IF IsZero(f) THEN d.args[3] ELSE d.args[2]) >>

\* The branches that can be taken, up to the first whose condition is constant true.
ReachableCase(args, fs) ==
  LET branches == [k \in 1..(Len(args) - 1) \div 2 |-> k]
      certain == {k \in ToSet(branches) : fs[2 * k - 1].const /\ fs[2 * k - 1].one # {}}
      last == IF certain = {} THEN Len(branches) + 1 ELSE Min(certain)
      open == SelectSeq(branches, LAMBDA k : k < last /\ ~fs[2 * k - 1].const)
  IN FlattenSeq([i \in DOMAIN open |-> << args[2 * open[i] - 1], args[2 * open[i]] >>])
       \o << IF certain = {} THEN args[Len(args)] ELSE args[2 * last] >>

rewriteCase(p, n, facts) ==
  LET d == p[n].driver
      rest == ReachableCase(d.args, [i \in DOMAIN d.args |-> FactOf(facts, d.args[i])])
      values == {i \in DOMAIN rest : i % 2 = 0 \/ i = Len(rest)}
  IN IF Len(rest) = 1 \/ \A i \in values : SameOperand(rest[i], rest[Len(rest)])
     THEN << SetDriver(p, n, Assign(IF Len(rest) = 1 THEN rest[1] ELSE rest[2])) >>
     ELSE IF rest = d.args THEN <<>>
     ELSE << SetDriver(p, n, [d EXCEPT !.args = rest]) >>

simplifyAlgebraicIdentity(p, n, facts) ==
  LET d == p[n].driver
      w == p[n].w
      f(i) == FactOf(facts, d.args[i])
      rules == CASE d.op \in {"add", "sub", "mul", "land", "lor"} ->
                      ArithmeticRules(d.op, w, d.args[1], d.args[2], f(1), f(2))
                 [] d.op \in {"and", "or", "xor"} ->
                      BitwiseRules(d.op, w, d.args[1], d.args[2], f(1), f(2))
                 [] d.op = "not" -> NotRules(p, w, d.args[1], f(1))
                 [] d.op = "ite" -> IteRules(d, f(1))
                 [] OTHER -> <<>>
  IN IF d.op = "case" THEN rewriteCase(p, n, facts)
     ELSE IF FirstOf(rules) = <<>> THEN <<>>
     ELSE << SetDriver(p, n, Assign(FirstOf(rules)[1][2])) >>

simplifyAlgebraicIdentities(p, facts) ==
  EachSignal(p, LAMBDA q, n : simplifyAlgebraicIdentity(q, n, facts))

-----------------------------------------------------------------------------
(* Common expressions and dead signals *)

Commutative == {"add", "mul", "and", "or", "xor", "land", "lor", "eq", "ne"}

isCseCandidate(sig) ==
  ~Observable(sig) /\ sig.driver.op \notin {"port", "assign", "wslice", "wbit", "dwslice", "dwbit"}

SameExpression(a, b) ==
  /\ a.w = b.w
  /\ [a.driver EXCEPT !.args = <<>>] = [b.driver EXCEPT !.args = <<>>]
  /\ \/ a.driver.args = b.driver.args
     \/ a.driver.op \in Commutative /\ a.driver.args = Reverse(b.driver.args)

mergeCommonExpressions(p) ==
  LET candidates == {n \in Nodes(p) : isCseCandidate(p[n])}
      first(n) == Min({m \in candidates : SameExpression(p[m], p[n])})
      merged == {n \in candidates : first(n) # n}
  IN replaceAliases(p, [n \in merged |-> Sym(first(n), p[first(n)].w)])

Live(p) ==
  LET reach(live, k) == live \cup UNION {Sources(p[n].driver) : n \in live}
  IN FoldLeft(reach, {n \in Nodes(p) : Observable(p[n])}, Ids(p))

\* The signals kept are numbered anew in their old order.
compact(p, live) ==
  LET old == SelectSeq(Ids(p), LAMBDA n : n \in live)
      renumber(o) == IF o.lit THEN o ELSE [o EXCEPT !.v = CHOOSE k \in DOMAIN old : old[k] = o.v]
  IN [k \in DOMAIN old |->
       [p[old[k]] EXCEPT !.driver.args = [i \in DOMAIN @ |-> renumber(@[i])]]]

eliminateDeadNodes(p) ==
  LET live == Live(p) IN IF live = Nodes(p) THEN Left(p, FALSE) ELSE Left(compact(p, live), TRUE)
=============================================================================
