----------------------------- MODULE OptControl -----------------------------
(***************************************************************************)
(* Normalisation of the Boolean control (normalizeBooleanControl of        *)
(* src/src/backend/beopt_boolean.hpp). All one-bit logic becomes one       *)
(* graph of conjunctions and inverted edges over inputs that stay opaque.  *)
(* It is rewritten locally, balanced, simplified with what is known of the *)
(* inputs (comparisons of the same values exclude or imply each other) and *)
(* resynthesised from truth tables where that saves a node, and written    *)
(* back as AND and NOT.                                                    *)
(*                                                                         *)
(* The graph is kept by structure: equal terms are one node, and a         *)
(* replaced node is replaced everywhere. Where the code takes the first of *)
(* several matches in the order of its tables, any one is taken. The       *)
(* budgets of proofs and truth tables are above any program here.          *)
(***************************************************************************)
EXTENDS OptPredicate

Binary1 == {"and", "land", "or", "lor", "xor", "eq", "ne"}
supported(sig) ==
  /\ sig.w = 1
  /\ sig.driver.op \in Binary1 \cup {"assign", "lnot", "not", "ite", "case"}
  /\ \A a \in ToSet(sig.driver.args) : a.w = 1

-----------------------------------------------------------------------------
(* What is known of the inputs *)

\* Two values compared; outcomes says for which order of them it is true.
Outcomes == [lt |-> {"<"}, eq |-> {"="}, le |-> {"<", "="}, gt |-> {">"}, ne |-> {"<", ">"}, ge |-> {">", "="}]
Mirror(r) == CASE r = "<" -> ">" [] r = ">" -> "<" [] OTHER -> r

Precedes(x, y) == IF x.lit # y.lit THEN y.lit ELSE IF x.v # y.v THEN x.v < y.v ELSE ~x.s /\ y.s

\* {} when it is not a comparison of two values read in the same way.
comparison(p, o) ==
  LET d == DriverOf(p, o)
      a == d.args[1]
      b == d.args[2]
  IN IF d.op \notin DOMAIN Outcomes THEN {}
     ELSE IF a.w # b.w \/ a.s # b.s THEN {}
     ELSE IF Precedes(b, a) THEN {[a |-> b, b |-> a, when |-> {Mirror(r) : r \in Outcomes[d.op]}]}
     ELSE {[a |-> a, b |-> b, when |-> Outcomes[d.op]]}

All4 == BOOLEAN \X BOOLEAN
OrdersOf(a, b) == IF a = b THEN {"="} ELSE {"<", "=", ">"}
\* How one value can lie to two constants, the first of them smaller.
Between == {<<"<", "<">>, <<"=", "<">>, <<">", "<">>, <<">", "=">>, <<">", ">">>}
Swapped(pairs) == {<<x[2], x[1]>> : x \in pairs}

LiesTo(x, y) ==
  IF x.a = y.a /\ x.b = y.b THEN {<<r, r>> : r \in OrdersOf(x.a, x.b)}
  ELSE IF x.b.v = y.b.v THEN {<<r, r>> : r \in {"<", "=", ">"}}
  ELSE IF x.b.v < y.b.v THEN Between ELSE Swapped(Between)
Related(x, y) == \/ x.a = y.a /\ x.b = y.b
                 \/ x.a = y.a /\ x.b.lit /\ y.b.lit /\ ~x.a.s

\* The pairs of truth values that two signals can have at once.
Possible(x, y) == {<<r[1] \in x.when, r[2] \in y.when>> : r \in LiesTo(x, y)}
possible(p, a, b) ==
  LET pairs == {xy \in comparison(p, a) \X comparison(p, b) : Related(xy[1], xy[2])}
  IN IF pairs = {} THEN All4 ELSE UNION {Possible(xy[1], xy[2]) : xy \in pairs}

ConeDepth == 3
\* The signals that an input is computed from within three levels.
ConeOf(p, o) ==
  FoldLeft(LAMBDA seen, k : seen \cup {a \in UNION {ToSet(DriverOf(p, x).args) : x \in seen} : ~a.lit},
           {o}, [k \in 1..ConeDepth |-> k])

RECURSIVE FormulaOf(_, _, _)
FormulaOf(p, o, depth) ==
  LET d == DriverOf(p, o)
      a == d.args[1]
      b == d.args[2]
      inner(i) == FormulaOf(p, d.args[i], depth + 1)
      joins == d.op \in {"land", "lor"} \/ (d.op \in {"and", "or"} /\ a.w = 1 /\ b.w = 1)
  IN CASE o.lit -> TermOf(o.v # 0)
       [] d.op = "assign" /\ depth < ConeDepth /\ p[o.v].w = a.w -> inner(1)
       [] d.op = "lnot" /\ depth < ConeDepth -> Neg(inner(1))
       [] joins /\ depth < ConeDepth /\ d.op \in {"land", "and"} -> land(inner(1), inner(2))
       [] joins /\ depth < ConeDepth /\ d.op \in {"lor", "or"} -> lor(inner(1), inner(2))
       [] OTHER -> Opaque(o)

AllowedTogether(p, yes, atoms) == \A x, y \in atoms : x = y \/ <<x \in yes, y \in yes>> \in possible(p, x.atom, y.atom)
MaxAtoms == 8
AllowedOf(p, x, y, atoms) ==
  IF Cardinality(atoms) > MaxAtoms THEN All4
  ELSE {<<Holds(x, yes), Holds(y, yes)>> : yes \in {S \in SUBSET atoms : AllowedTogether(p, S, atoms)}}
AllowedTerms(p, x, y) == AllowedOf(p, x, y, AtomsOf(x) \cup AtomsOf(y))
AllowedPairs(p, a, b) ==
  IF ConeOf(p, a) \cap ConeOf(p, b) = {} THEN All4
  ELSE IF possible(p, a, b) # All4 THEN possible(p, a, b)
  ELSE AllowedTerms(p, FormulaOf(p, a, 0), FormulaOf(p, b, 0))

SideOf(o, truth) == IF truth THEN Opaque(o) ELSE Neg(Opaque(o))

\* A pair of truth values that is not possible: the one implies the other's opposite.
Implications(p, inputs) ==
  UNION {UNION {{<<SideOf(ab[1], x[1]), SideOf(ab[2], ~x[2])>>, <<SideOf(ab[2], x[2]), SideOf(ab[1], ~x[1])>>} :
                  x \in All4 \ AllowedPairs(p, ab[1], ab[2])} : ab \in {ij \in inputs \X inputs : ij[1].v < ij[2].v}}

\* Inputs that say whether one value is one constant.
DecodersOf(p, o) == {c \in comparison(p, o) : c.when \in {{"="}, {"<", ">"}} /\ ~c.a.lit /\ c.b.lit}
Decoders(p, inputs) ==
  [t \in {Opaque(o) : o \in {i \in inputs : DecodersOf(p, i) # {}}} |->
     LET c == CHOOSE x \in DecodersOf(p, t.atom) : TRUE
     IN [selector |-> c.a, v |-> c.b.v, equal |-> c.when = {"="}]]

\* inputs is in the order in which the program computes them, and of inputs
\* that are known to be equal or opposite the first one stands for all.
Equivalent(implied, x, y) == <<x, y>> \in implied /\ <<y, x>> \in implied
FirstLike(implied, inputs, x) ==
  LET like == {k \in DOMAIN inputs : \E t \in {Opaque(inputs[k]), Neg(Opaque(inputs[k]))} : Equivalent(implied, x, t) \/ t = x}
      first == Opaque(inputs[Min(like)])
  IN IF first = x \/ Equivalent(implied, x, first) THEN first ELSE Neg(first)
WithAliases(implied, decoders, inputs) ==
  [implied |-> implied, decoders |-> decoders,
   alias |-> [x \in {Opaque(o) : o \in ToSet(inputs)} |-> FirstLike(implied, inputs, x)]]
RelationsOf(p, inputs) ==
  WithAliases(Implications(p, ToSet(inputs)), Decoders(p, ToSet(inputs)), inputs)
NoRelations == [implied |-> {}, decoders |-> <<>>, alias |-> <<>>]

RECURSIVE Canonical(_, _)
Canonical(R, t) ==
  IF Plain(t) \notin DOMAIN R.alias THEN t
  ELSE IF R.alias[Plain(t)] = Plain(t) THEN t
  ELSE Canonical(R, IF Negated(t) THEN Neg(R.alias[Plain(t)]) ELSE R.alias[Plain(t)])

-----------------------------------------------------------------------------
(* What follows in the graph *)

Input(t) == "atom" \in DOMAIN Plain(t)
Inner(t) == Conjunction(Plain(t))

\* What a comparison for equality says of an input: {} when nothing.
equalityDecoder(R, a) == Input(a) /\ Plain(a) \in DOMAIN R.decoders /\ R.decoders[Plain(a)].equal # Negated(a)
decoderValue(R, a, b) ==
  IF ~equalityDecoder(R, a) \/ Plain(b) \notin DOMAIN R.decoders THEN {}
  ELSE IF R.decoders[Plain(a)].selector # R.decoders[Plain(b)].selector THEN {}
  ELSE {((R.decoders[Plain(a)].v = R.decoders[Plain(b)].v) = R.decoders[Plain(b)].equal) # Negated(b)}

\* ... and of a term: the truth values that are left.
OrEither(values) == IF values = {} THEN BOOLEAN ELSE values
Conclusive(values) == IF values = BOOLEAN THEN {} ELSE values
AllOf3(parts) == {c \in BOOLEAN : IF c THEN \A x \in parts : TRUE \in x ELSE \E x \in parts : FALSE \in x}
RECURSIVE Cofactor3(_, _, _)
Cofactor3(R, a, t) ==
  IF Certain(t) THEN {t = Always}
  ELSE IF Negated(t) THEN {~c : c \in Cofactor3(R, a, t.neg)}
  ELSE IF Input(t) THEN OrEither(decoderValue(R, a, t))
  ELSE AllOf3({Cofactor3(R, a, x) : x \in t.both})
decoderImplies(R, a, b) == IF equalityDecoder(R, a) THEN Conclusive(Cofactor3(R, a, b)) ELSE {}

RECURSIVE implies(_, _, _)
impliesInputs(R, a, b, decoded) == decoded = {TRUE} \/ (decoded = {} /\ <<a, b>> \in R.implied)
impliesWithin(R, a, b) ==
  IF Inner(b) /\ ~Negated(b) THEN \A y \in b.both : implies(R, a, y)
  ELSE IF Inner(a) /\ Negated(a) THEN \A x \in a.neg.both : implies(R, Neg(x), b)
  ELSE \/ Inner(a) /\ \E x \in a.both : implies(R, x, b)
       \/ Inner(b) /\ \E y \in b.neg.both : implies(R, a, Neg(y))
impliesUnder(R, a, b, decoded) == IF decoded # {} THEN decoded = {TRUE} ELSE impliesWithin(R, a, b)
implies(R, a, b) ==
  IF a = Never \/ b = Always \/ a = b THEN TRUE
  ELSE IF Certain(a) \/ Certain(b) THEN FALSE
  ELSE IF Input(a) /\ Input(b) THEN impliesInputs(R, a, b, decoderValue(R, a, b))
  ELSE impliesUnder(R, a, b, decoderImplies(R, a, b))

-----------------------------------------------------------------------------
(* Conjunctions and selections *)

HasPart(t, x) == Conjunction(t) /\ x \in t.both
Rest(t, x) == CHOOSE y \in t.both : y # x

\* The parts on which two inverted conjunctions differ in one sign only.
Merging(a, b) ==
  IF ~(Negated(a) /\ Inner(a) /\ Negated(b) /\ Inner(b)) THEN {}
  ELSE {x \in a.neg.both \cap b.neg.both : Rest(a.neg, x) = Neg(Rest(b.neg, x))}

MaxReductions == 4
RECURSIVE Land(_, _, _, _)
\* x and not (x and y) is x and not y.
Reduced(R, leaf, t, depth) ==
  IF depth >= MaxReductions \/ ~(Negated(t) /\ Inner(t)) THEN {}
  ELSE IF Neg(leaf) \in t.neg.both THEN {leaf}
  ELSE IF leaf \in t.neg.both THEN {Land(R, leaf, Neg(Rest(t.neg, leaf)), depth + 1)}
  ELSE {}

FirstFound(found, next, otherwise) ==
  IF found # {} THEN CHOOSE x \in found : TRUE ELSE IF next # {} THEN CHOOSE x \in next : TRUE ELSE otherwise

\* What the relations say of a conjunction: {} when nothing.
Following(R, pairs) == {x \in pairs : implies(R, x[1], x[2])}
Related2(a, b, following) ==
  IF following \cap {<<a, Neg(b)>>, <<b, Neg(a)>>} # {} THEN {Never}
  ELSE IF <<a, b>> \in following THEN {a}
  ELSE IF <<b, a>> \in following THEN {b} ELSE {}
LandByRelations(R, a, b) ==
  IF R.implied = {} /\ DOMAIN R.decoders = {} THEN {}
  ELSE Related2(a, b, Following(R, {<<a, Neg(b)>>, <<b, Neg(a)>>, <<a, b>>, <<b, a>>}))
LandByShape(R, a, b, depth) ==
  IF HasPart(a, b) THEN a
  ELSE IF HasPart(b, a) THEN b
  ELSE IF HasPart(a, Neg(b)) \/ HasPart(b, Neg(a)) THEN Never
  ELSE IF Merging(a, b) # {} THEN Neg(CHOOSE x \in Merging(a, b) : TRUE)
  ELSE FirstFound(Reduced(R, a, b, depth), Reduced(R, b, a, depth), Both(a, b))
Land(R, a, b, depth) ==
  IF a = Never \/ b = Never \/ a = Neg(b) THEN Never
  ELSE IF a = Always \/ a = b THEN b
  ELSE IF b = Always THEN a
  ELSE FirstFound(LandByRelations(R, a, b), {}, LandByShape(R, a, b, depth))

And2(R, a, b) == Land(R, a, b, 0)
Or2(R, a, b) == Neg(And2(R, Neg(a), Neg(b)))
Flip(t, negated) == IF negated THEN Neg(t) ELSE t
SumOf(R, c, t, f) == Or2(R, And2(R, c, t), And2(R, Neg(c), f))
XorOf(R, x, y) ==
  IF x = y THEN Never
  ELSE IF x = Always THEN Neg(y)
  ELSE IF y = Always THEN Neg(x)
  ELSE SumOf(R, x, Neg(y), y)
lxor(R, a, b) == Flip(XorOf(R, Plain(a), Plain(b)), Negated(a) # Negated(b))

\* A selection that conjunctions spell out: (c and t) or (not c and f).
MuxEdges(a, b) ==
  IF ~(Negated(a) /\ Inner(a) /\ Negated(b) /\ Inner(b)) THEN {}
  ELSE {[c |-> x, t |-> Rest(a.neg, x), f |-> Rest(b.neg, Neg(x))] : x \in {y \in a.neg.both : Neg(y) \in b.neg.both}}
decodeMux(t) ==
  IF ~Inner(t) THEN {}
  ELSE {IF Negated(t) THEN m ELSE [m EXCEPT !.t = Neg(@), !.f = Neg(@)] :
          m \in MuxEdges(OneOf(Plain(t)), OtherOf(Plain(t)))}

\* The one selection is in a side of the other and ends in the same value.
Shares(m, o) == IF m.t = o THEN {[c |-> Neg(m.c), x |-> m.f]} ELSE IF m.f = o THEN {[c |-> m.c, x |-> m.t]} ELSE {}
SharedIn(t, o) == IF decodeMux(t) = {} THEN {} ELSE Shares(CHOOSE m \in decodeMux(t) : TRUE, o)

MaxNesting == 4
RECURSIVE mux(_, _, _, _, _)
\* A selection that is one conjunction, inverted or not, of two terms.
OneGate(c, t, f) ==
  IF t \in {Always, c} THEN {<<TRUE, Neg(c), Neg(f)>>}
  ELSE IF t \in {Never, Neg(c)} THEN {<<FALSE, Neg(c), f>>}
  ELSE IF f \in {Never, c} THEN {<<FALSE, c, t>>}
  ELSE IF f \in {Always, Neg(c)} THEN {<<TRUE, c, Neg(t)>>}
  ELSE {}
GateOf(R, gate) == Flip(And2(R, gate[2], gate[3]), gate[1])
PlainMux(R, c, t, f) ==
  IF t = f THEN t
  ELSE IF Certain(c) THEN IF c = Always THEN t ELSE f
  ELSE IF OneGate(c, t, f) # {} THEN GateOf(R, CHOOSE g \in OneGate(c, t, f) : TRUE)
  ELSE IF t = Neg(f) THEN lxor(R, c, f)
  ELSE SumOf(R, c, t, f)
\* side is the condition of the side that holds the inner selection.
Nested(R, side, inner, o, k) == mux(R, And2(R, side, inner.c), inner.x, o, k + 1)
mux(R, c, t, f, k) ==
  IF k < MaxNesting /\ SharedIn(t, f) # {} THEN Nested(R, c, CHOOSE i \in SharedIn(t, f) : TRUE, f, k)
  ELSE IF k < MaxNesting /\ SharedIn(f, t) # {} THEN Nested(R, Neg(c), CHOOSE i \in SharedIn(f, t) : TRUE, t, k)
  ELSE PlainMux(R, c, t, f)

-----------------------------------------------------------------------------
(* The program's logic as terms *)

BoolNodes(p) == {n \in Nodes(p) : p[n].w = 1}
Internal(p) == {n \in BoolNodes(p) : supported(p[n])}
\* One-bit signals that something other than the logic itself reads.
OutputsOf(p) ==
  {n \in BoolNodes(p) : Observable(p[n]) \/ \E m \in Nodes(p) \ Internal(p) : n \in Sources(p[m].driver)}
InputsIn(p) == LET ids == SelectSeq(Order(p), LAMBDA n : n \in BoolNodes(p) \ Internal(p))
               IN [k \in DOMAIN ids |-> Sym(ids[k], 1)]

EdgeOf(values, o) == IF o.lit THEN TermOf(o.v # 0) ELSE values[o.v]
\* The branches of a case from the last to the first, so that the first one wins.
ImportCase(args, v) ==
  FoldLeft(LAMBDA t, i : mux(NoRelations, v[2 * i - 1], v[2 * i], t, 0), v[Len(args)],
           Reverse([i \in 1..(Len(args) - 1) \div 2 |-> i]))
EqualBits(d, v) == Neg(lxor(NoRelations, v[1], v[2]))
ImportOp(d, v) ==
  CASE d.op = "assign" -> v[1]
    [] d.op \in {"lnot", "not"} -> Neg(v[1])
    [] d.op = "ite" -> mux(NoRelations, v[1], v[2], v[3], 0)
    [] d.op = "case" -> ImportCase(d.args, v)
    [] d.op \in {"and", "land"} -> And2(NoRelations, v[1], v[2])
    [] d.op \in {"or", "lor"} -> Or2(NoRelations, v[1], v[2])
    [] d.op \in {"xor", "ne"} -> lxor(NoRelations, v[1], v[2])
    [] d.op = "eq" -> EqualBits(d, v)
ImportNode(p, values, n) ==
  IF ~supported(p[n]) THEN Opaque(Sym(n, 1))
  ELSE ImportOp(p[n].driver, [i \in DOMAIN p[n].driver.args |-> EdgeOf(values, p[n].driver.args[i])])
Import(p) ==
  FoldLeft(LAMBDA values, n : [values EXCEPT ![n] = ImportNode(p, values, n)],
           [n \in BoolNodes(p) |-> Never], SelectSeq(Order(p), LAMBDA n : n \in BoolNodes(p)))

-----------------------------------------------------------------------------
(* Local rewriting *)

Levels == 3
RECURSIVE FactorList(_, _)
FactorList(t, depth) ==
  IF depth < Levels /\ Conjunction(t) THEN FactorList(OneOf(t), depth + 1) \o FactorList(OtherOf(t), depth + 1) ELSE <<t>>

SomeMux(R, edges) == LET m == CHOOSE x \in edges : TRUE IN mux(R, m.c, m.t, m.f, 0)
LocalFactors(R, a, b, fs) ==
  IF \E x, y \in ToSet(fs) : x = Neg(y) THEN Never
  ELSE IF Cardinality(ToSet(fs)) < Len(fs) THEN FoldLeft(LAMBDA t, x : And2(R, t, x), Always, SetToSeq(ToSet(fs)))
  ELSE IF MuxEdges(a, b) # {} THEN Neg(SomeMux(R, MuxEdges(a, b)))
  ELSE And2(R, a, b)
localAnd(R, a, b) == LocalFactors(R, a, b, FactorList(a, 1) \o FactorList(b, 1))

RECURSIVE RewriteTerm(_, _)
RewriteTerm(R, t) ==
  IF Negated(t) THEN Neg(RewriteTerm(R, t.neg))
  ELSE IF Conjunction(t) THEN localAnd(R, RewriteTerm(R, OneOf(t)), RewriteTerm(R, OtherOf(t))) ELSE t

LocalRounds == 4
RECURSIVE rewriteLocal(_, _, _)
RewrittenAgain(R, values, next, round) ==
  IF next = values \/ round = LocalRounds THEN next ELSE rewriteLocal(R, next, round + 1)
rewriteLocal(R, values, round) ==
  RewrittenAgain(R, values, [n \in DOMAIN values |-> RewriteTerm(R, values[n])], round)

-----------------------------------------------------------------------------
(* Balancing *)

RECURSIVE NodesOf(_)
NodesOf(t) == IF Certain(t) THEN {} ELSE {Plain(t)} \cup (IF Inner(t) THEN UNION {NodesOf(x) : x \in Plain(t).both} ELSE {})
RECURSIVE LevelOf(_)
LevelOf(t) == IF Inner(t) THEN 1 + Max({LevelOf(x) : x \in Plain(t).both}) ELSE 0

\* The terms that outputs need, and who reads what among them.
NetOf(R, values, outputs) == [R |-> R, live |-> UNION {NodesOf(values[n]) : n \in outputs},
                              boundary |-> {Plain(values[n]) : n \in outputs}]
Fanout(net, t) == Cardinality({x \in net.live : Conjunction(x) /\ {t, Neg(t)} \cap x.both # {}})

RECURSIVE BalanceTerm(_, _)
RECURSIVE BalanceLeaves(_, _, _)
BalanceLeaves(net, t, distance) ==
  IF Conjunction(t) /\ Fanout(net, t) = 1 /\ t \notin net.boundary /\ distance < 8
  THEN BalanceLeaves(net, OneOf(t), distance + 1) \o BalanceLeaves(net, OtherOf(t), distance + 1)
  ELSE << BalanceTerm(net, t) >>

Lowest(items) == CHOOSE a \in items : \A b \in items : LevelOf(a.t) <= LevelOf(b.t)
RECURSIVE JoinLowest(_, _, _)
JoinPair(R, items, k, a, b) == JoinLowest(R, (items \ {a, b}) \cup {[k |-> k, t |-> And2(R, a.t, b.t)]}, k + 1)
JoinNext(R, items, k, a) == JoinPair(R, items, k, a, Lowest(items \ {a}))
JoinLowest(R, items, k) ==
  IF Cardinality(items) = 1 THEN (CHOOSE a \in items : TRUE).t ELSE JoinNext(R, items, k, Lowest(items))
JoinLeaves(R, leaves) == JoinLowest(R, {[k |-> k, t |-> leaves[k]] : k \in DOMAIN leaves}, Len(leaves) + 1)

\* The joined leaves when that is less deep, and what the parts give otherwise.
Shallower(plain, joined) == {t \in joined : LevelOf(t) < LevelOf(plain)}
Joins(R, leaves) == IF Len(leaves) > 2 THEN {JoinLeaves(R, leaves)} ELSE {}
AllLeavesOf(net, t) == BalanceLeaves(net, OneOf(t), 1) \o BalanceLeaves(net, OtherOf(t), 1)
PlainJoin(net, t) == And2(net.R, BalanceTerm(net, OneOf(t)), BalanceTerm(net, OtherOf(t)))
TakeShallower(joined, plain) == IF Shallower(plain, joined) = {} THEN plain ELSE CHOOSE x \in joined : TRUE
BalanceTerm(net, t) ==
  IF Certain(t) THEN t
  ELSE IF Negated(t) THEN Neg(BalanceTerm(net, t.neg))
  ELSE IF Input(t) THEN Canonical(net.R, t)
  ELSE TakeShallower(Joins(net.R, AllLeavesOf(net, t)), PlainJoin(net, t))

Balances(net) == \E t \in net.live : Conjunction(t) /\ Shallower(PlainJoin(net, t), Joins(net.R, AllLeavesOf(net, t))) # {}

\* Signals whose term no output needs are left with a constant.
Balanced1(net, values) ==
  [n \in DOMAIN values |-> IF Certain(values[n]) \/ Plain(values[n]) \in net.live THEN BalanceTerm(net, values[n]) ELSE Never]
BalanceRounds == 3
RECURSIVE optimizeAig(_, _, _, _)
AigRound(net, values, outputs, round) ==
  IF Balances(net) /\ round < BalanceRounds THEN optimizeAig(net.R, Balanced1(net, values), outputs, round + 1)
  ELSE Balanced1(net, values)
optimizeAig(R, values, outputs, round) == AigRound(NetOf(R, values, outputs), values, outputs, round)

\* Everything once more with what is known of the inputs.
RECURSIVE Replayed(_, _)
Replayed(R, t) ==
  IF Certain(t) THEN t
  ELSE IF Negated(t) THEN Neg(Replayed(R, t.neg))
  ELSE IF Input(t) THEN Canonical(R, t)
  ELSE And2(R, Replayed(R, OneOf(t)), Replayed(R, OtherOf(t)))
propagateRelations(R, values) == [n \in DOMAIN values |-> Replayed(R, values[n])]

-----------------------------------------------------------------------------
(* Resynthesis of what only one reader needs *)

RECURSIVE CutInside(_, _, _)
CutInside(net, root, t) ==
  IF t # root /\ (~Conjunction(t) \/ Fanout(net, t) # 1 \/ t \in net.boundary) THEN {}
  ELSE {t} \cup UNION {CutInside(net, root, Plain(x)) : x \in t.both}
CutLeaves(inside) == (UNION {{Plain(x) : x \in t.both} : t \in inside}) \ inside

RECURSIVE HoldsOver(_, _, _)
HoldsOver(t, leaves, yes) ==
  IF Negated(t) THEN ~HoldsOver(t.neg, leaves, yes)
  ELSE IF t \in leaves THEN t \in yes
  ELSE \A x \in t.both : HoldsOver(x, leaves, yes)

\* Shannon's expansion, from the last of the leaves.
RECURSIVE Synthesised(_, _, _, _, _)
SplitOn(R, t, leaves, open, chosen, leaf) ==
  mux(R, leaf, Synthesised(R, t, leaves, Front(open), chosen \cup {leaf}), Synthesised(R, t, leaves, Front(open), chosen), 0)
Uniform(R, t, leaves, open, chosen, outcomes) ==
  IF Cardinality(outcomes) = 1 THEN TermOf(TRUE \in outcomes) ELSE SplitOn(R, t, leaves, open, chosen, Last(open))
Synthesised(R, t, leaves, open, chosen) ==
  Uniform(R, t, leaves, open, chosen, {HoldsOver(t, leaves, chosen \cup S) : S \in SUBSET ToSet(open)})

RECURSIVE NodesAbove(_, _)
NodesAbove(t, leaves) == IF Certain(t) \/ Plain(t) \in leaves THEN {}
                         ELSE {Plain(t)} \cup (IF Inner(t) THEN UNION {NodesAbove(x, leaves) : x \in Plain(t).both} ELSE {})

CutInputs == 16
Cheaper(t, inside, leaves, new) == IF Cardinality(NodesAbove(new, leaves)) < Cardinality(inside) THEN new ELSE t
CutTo(R, t, inside, leaves) ==
  IF Cardinality(leaves) > CutInputs \/ Cardinality(inside) < 2 THEN t
  ELSE Cheaper(t, inside, leaves, Synthesised(R, t, leaves, SetToSeq(leaves), {}))
CutAt(net, t, inside) == CutTo(net.R, t, inside, CutLeaves(inside))
optimizeCut(net, t) == IF Conjunction(t) /\ t \in net.live THEN CutAt(net, t, CutInside(net, t, t)) ELSE t

RECURSIVE resolve(_, _)
ResolveAs(net, t, new) ==
  IF new # t THEN resolve(net, new) ELSE And2(net.R, resolve(net, OneOf(t)), resolve(net, OtherOf(t)))
resolve(net, t) ==
  IF Certain(t) THEN t
  ELSE IF Negated(t) THEN Neg(resolve(net, t.neg))
  ELSE IF Input(t) THEN Canonical(net.R, t)
  ELSE ResolveAs(net, t, optimizeCut(net, t))

\* The terms that are met on the way.
RECURSIVE Visited(_, _)
VisitedFrom(net, t, new) == IF new # t THEN Visited(net, new) ELSE UNION {Visited(net, x) : x \in t.both}
Visited(net, t) ==
  IF Certain(t) THEN {}
  ELSE {Plain(t)} \cup (IF Inner(t) THEN VisitedFrom(net, Plain(t), optimizeCut(net, Plain(t))) ELSE {})

-----------------------------------------------------------------------------
(* Back to signals *)

\* A signal that has a needed value already is given its new operation; the
\* first one in the program's order, one that only the logic reads if there is one.
Candidate(t) == ~Certain(t) /\ (Negated(t) \/ ~Input(t))
Represent(slots, pair) == IF pair[1] \in DOMAIN slots \/ ~Candidate(pair[1]) THEN slots
                          ELSE [t \in DOMAIN slots \cup {pair[1]} |-> IF t = pair[1] THEN pair[2] ELSE slots[t]]
Representatives(p, values, resolved, outputs, met) ==
  LET ids == Order(p)
      private == SelectSeq(ids, LAMBDA n : n \in Internal(p) \ outputs /\ Plain(values[n]) \in met)
      public == SelectSeq(ids, LAMBDA n : n \in Internal(p) \cap outputs)
      pairs == [k \in 1..Len(private) + Len(public) |->
                 LET n == (private \o public)[k] IN << resolved[n], n >>]
  IN FoldLeft(Represent, <<>>, pairs)

\* An operation that is there already, its operands exchanged or not, stays.
Redriven(p, n, d) == IF SameExpression(p[n], [p[n] EXCEPT !.driver = d]) THEN p ELSE SetDriver(p, n, d)
WriteTo(s, slots, t, d) ==
  IF t \in DOMAIN slots THEN MadeOf([s EXCEPT !.p = Redriven(@, slots[t], d)], t, Sym(slots[t], 1))
  ELSE Made(s, t, Extended(s.p, 1, d))

RECURSIVE write(_, _, _)
WriteNot(s, slots, t) == WriteTo(s, slots, t, Driver("lnot", << s.made[Neg(t)] >>))
WriteAnd(s, slots, t) == WriteTo(s, slots, t, Driver("and", << s.made[OneOf(t)], s.made[OtherOf(t)] >>))
write(s, slots, t) ==
  IF t \in DOMAIN s.made THEN s
  ELSE IF Certain(t) THEN MadeOf(s, t, Constant1(t = Always))
  ELSE IF Negated(t) THEN WriteNot(write(s, slots, t.neg), slots, t)
  ELSE IF Input(t) THEN MadeOf(s, t, t.atom)
  ELSE WriteAnd(write(write(s, slots, OneOf(t)), slots, OtherOf(t)), slots, t)

Expose(p, n, o) == IF o = Sym(n, 1) THEN p ELSE Redriven(p, n, Assign(o))
ExposeAll(p, made, final, ids) == FoldLeft(LAMBDA q, n : Expose(q, n, made[final[n]]), p, ids)
WriteBack(s, slots, final, outputs, internal) ==
  LET r == FoldLeft(LAMBDA q, n : write(q, slots, final[n]), s, SetToSortSeq(outputs, <))
  IN ExposeAll(r.p, r.made, final, SetToSortSeq(outputs \cap internal, <))

\* net is of the terms before resynthesis.
Rebuild(p, net, values, resolved, outputs) ==
  WriteBack([p |-> p, made |-> <<>>],
            Representatives(p, values, resolved, outputs, UNION {Visited(net, values[n]) : n \in outputs}),
            resolved, outputs, Internal(p))
RebuildFrom(p, net, values, outputs) ==
  Rebuild(p, net, values, [n \in DOMAIN values |-> resolve(net, values[n])], outputs)
NormalizeFrom(p, R, values, outputs) == RebuildFrom(p, NetOf(R, values, outputs), values, outputs)
NormalizeWith(p, R, outputs) ==
  NormalizeFrom(p, R, propagateRelations(R, optimizeAig(R, rewriteLocal(R, Import(p), 1), outputs, 1)), outputs)

\* The logic is changed where a signal is added or is given another operation;
\* what it no longer needs goes at once.
Swept(written, changed) ==
  LET swept == eliminateDeadNodes(written) IN Left(swept.p, changed \/ swept.changed)
NormalizedAs(p, written) == Swept(written, written # p)
normalizeBooleanControl(p) == NormalizedAs(p, NormalizeWith(p, RelationsOf(p, InputsIn(p)), OutputsOf(p)))
=============================================================================
