---------------------------- MODULE OptPredicate ----------------------------
(***************************************************************************)
(* Sinking of predicates (src/src/backend/beopt_predicate.hpp): a          *)
(* selection whose value only matters where other selections have taken a  *)
(* side loses the branches that cannot be taken there, or at least the     *)
(* parts of its condition that are settled there.                          *)
(*                                                                         *)
(* The code proves with a solver over Boolean formulas; what it proves is  *)
(* what holds under every assignment of the atoms, and that is how it is   *)
(* said here. Its limits on formulas, atoms, candidates, edges and proofs  *)
(* are above any program here.                                             *)
(***************************************************************************)
EXTENDS OptStructure

-----------------------------------------------------------------------------
(* Formulas, and what follows from them *)

\* Two comparisons of one value with constants are related; any other atom
\* stands for itself, with its view.
Opaque(o) == [atom |-> o, bit |-> -1]
Equals(o, v) == [selector |-> o, v |-> v]

Literals(d) == {i \in DOMAIN d.args : d.args[i].lit}
SelectsOne(d) == /\ d.op = "eq" /\ Literals(d) # {}
                 /\ d.args[1].w = d.args[2].w /\ ~d.args[1].s /\ ~d.args[2].s
\* The literal is the right side when both are literals.
SelectorSide(d) == IF 1 \in Literals(d) THEN 2 ELSE 1

RECURSIVE build(_, _)
build(p, o) ==
  LET d == DriverOf(p, o)
      a == d.args[1]
      b == d.args[2]
      joins == d.op \in {"land", "lor"} \/ (d.op \in {"and", "or"} /\ o.w = 1 /\ a.w = 1 /\ b.w = 1)
  IN CASE o.lit -> TermOf(o.v # 0)
       [] d.op = "assign" /\ p[o.v].w = a.w -> build(p, a)
       [] d.op = "lnot" -> Neg(build(p, a))
       [] joins /\ d.op \in {"land", "and"} -> land(build(p, a), build(p, b))
       [] joins /\ d.op \in {"lor", "or"} -> lor(build(p, a), build(p, b))
       [] SelectsOne(d) -> Equals(d.args[SelectorSide(d)], d.args[3 - SelectorSide(d)].v)
       [] OTHER -> Opaque(o)

RECURSIVE AtomsOf(_)
AtomsOf(t) == IF Certain(t) THEN {} ELSE IF Negated(t) THEN AtomsOf(t.neg)
              ELSE IF Conjunction(t) THEN UNION {AtomsOf(x) : x \in t.both} ELSE {t}
RECURSIVE Holds(_, _)
Holds(t, yes) == IF Negated(t) THEN ~Holds(t.neg, yes) ELSE IF t = Always THEN TRUE
                 ELSE IF Conjunction(t) THEN \A x \in t.both : Holds(x, yes) ELSE t \in yes

\* A value is not two constants at once.
Together(yes) == \A x, y \in yes : "selector" \in DOMAIN x /\ "selector" \in DOMAIN y /\ x.selector = y.selector => x = y

satisfiable(terms) ==
  \E yes \in SUBSET UNION {AtomsOf(t) : t \in terms} : Together(yes) /\ \A t \in terms : Holds(t, yes)

Claim(p, o, truth) == IF truth THEN build(p, o) ELSE Neg(build(p, o))

-----------------------------------------------------------------------------
(* Where the value of a signal matters *)

\* The data of a write port is only looked at where its enable is set.
WriteData == "wdata"
WriteEnable == "wen"
EnablesOf(p, n) == IF p[n].port # WriteData \/ p[n].driver.op = "port" THEN {}
                   ELSE {m \in Nodes(p) : p[m].port = WriteEnable /\ p[m].w = 1 /\ m # n}

Readers2(p, n) == UNION {{[m |-> m, i |-> i] : i \in {j \in DOMAIN p[m].driver.args :
                            ~p[m].driver.args[j].lit /\ p[m].driver.args[j].v = n}} : m \in Nodes(p)}

\* The signals its value goes into before it meets a selection.
Followed(p, n) ==
  FoldLeft(LAMBDA seen, k : seen \cup {u.m : u \in {x \in UNION {Readers2(p, m) : m \in seen} :
                                                     p[x.m].driver.op \notin {"ite", "case"}}},
           {n}, Ids(p))

MeetsCondition(p, uses) == \E u \in uses : p[u.m].driver.op = "ite" /\ u.i = 1

BlockedBy(p, seen, uses) ==
  \/ \E m \in seen : Observable(p[m]) /\ EnablesOf(p, m) = {}
  \/ \E m \in seen : ~Observable(p[m]) /\ Readers2(p, m) = {}
  \/ MeetsCondition(p, uses)
  \/ \E u \in uses : p[u.m].driver.op = "case"

Boundary(guard, taken) == [guard |-> guard, taken |-> taken]
BoundariesOf(p, seen, uses) ==
  {Boundary(p[u.m].driver.args[1], u.i = 2) : u \in {x \in uses : p[x.m].driver.op = "ite"}}
    \cup UNION {{Boundary(Sym(m, 1), TRUE) : m \in EnablesOf(p, n)} : n \in {k \in seen : Observable(p[k])}}

Boundaries2(p, seen, uses) == IF BlockedBy(p, seen, uses) THEN {} ELSE BoundariesOf(p, seen, uses)
BoundariesFrom(p, seen) == Boundaries2(p, seen, UNION {Readers2(p, m) : m \in seen})

\* A condition that has one truth value at every boundary.
Settles(p, boundaries, o, truth) ==
  \A b \in boundaries : IF b.guard = o THEN b.taken = truth
                        ELSE ~satisfiable({Claim(p, b.guard, b.taken), Claim(p, o, ~truth)})
prove(p, boundaries, o) ==
  IF Settles(p, boundaries, o, TRUE) THEN {TRUE}
  ELSE IF Settles(p, boundaries, o, FALSE) THEN {FALSE} ELSE {}

-----------------------------------------------------------------------------
(* A condition of which a part is settled: a copy without that part *)

Connective(d) == d.op \in {"assign", "lnot", "not", "and", "land"} /\ \A a \in ToSet(d.args) : a.w = 1
Complements(d) == d.op \in {"lnot", "not"}

RECURSIVE Settled(_, _, _)
SettledInside(p, bs, o) == Connective(DriverOf(p, o)) /\ \E a \in ToSet(DriverOf(p, o).args) : Settled(p, bs, a)
Settled(p, bs, o) == ~o.lit /\ (SettledInside(p, bs, o) \/ prove(p, bs, o) # {})

\* What is known of a part after that: {} when it is not known.
RECURSIVE KnownOf(_, _, _)
KnownOf(p, bs, o) ==
  LET d == DriverOf(p, o)
  IN IF o.lit THEN {o.v # 0}
     ELSE IF prove(p, bs, o) # {} THEN prove(p, bs, o)
     ELSE IF ~SettledInside(p, bs, o) THEN {}
     ELSE IF d.op \in {"and", "land"} THEN IF \E a \in ToSet(d.args) : KnownOf(p, bs, a) = {FALSE} THEN {FALSE} ELSE {}
     ELSE IF Complements(d) THEN {~c : c \in KnownOf(p, bs, d.args[1])}
     ELSE KnownOf(p, bs, d.args[1])

\* s is [p, made]; made gives for a part the value and whether to invert it.
Result(o, inverted) == [value |-> o, inverted |-> inverted]
Known(s, o, r) == [s EXCEPT !.made = [x \in DOMAIN @ \cup {o} |-> IF x = o THEN r ELSE @[x]]]
Constant1(c) == Lit(Truth(c), 1)
Inverted(r) == IF r.value.lit THEN Result(Constant1(r.value.v = 0), FALSE) ELSE [r EXCEPT !.inverted = ~@]

\* The part as it is, with an inverter where it needs one.
Upright(o) == [upright |-> o]
positive(s, o) ==
  LET q == Extended(s.p, 1, Driver("lnot", <<s.made[o].value>>))
  IN IF Upright(o) \in DOMAIN s.made THEN s
     ELSE IF s.made[o].inverted THEN Known([s EXCEPT !.p = q], Upright(o), Result(Newest(q), FALSE))
     ELSE Known(s, Upright(o), s.made[o])
EmitAnd(s, o, x, y) ==
  LET q == Extended(s.p, 1, Driver("and", <<x, y>>))
  IN IF x = y THEN Known(s, o, Result(x, FALSE)) ELSE Known([s EXCEPT !.p = q], o, Result(Newest(q), FALSE))
EmitBothSides(s, o, a, b) ==
  LET r == positive(positive(s, a), b) IN EmitAnd(r, o, r.made[Upright(a)].value, r.made[Upright(b)].value)

\* p and bs are the program and the boundaries before anything was added.
RECURSIVE materialize(_, _, _, _)
Through(p, bs, s, o, a, invert) ==
  LET r == materialize(p, bs, s, a)
  IN Known(r, o, IF invert THEN Inverted(r.made[a]) ELSE r.made[a])
materialize(p, bs, s, o) ==
  LET d == DriverOf(p, o)
      a == d.args[1]
      b == d.args[2]
  IN IF o \in DOMAIN s.made THEN s
     ELSE IF KnownOf(p, bs, o) # {} THEN Known(s, o, Result(Constant1(KnownOf(p, bs, o) = {TRUE}), FALSE))
     ELSE IF ~SettledInside(p, bs, o) THEN Known(s, o, Result(o, FALSE))
     ELSE IF d.op \notin {"and", "land"} THEN Through(p, bs, s, o, a, Complements(d))
     ELSE IF KnownOf(p, bs, a) = {TRUE} THEN Through(p, bs, s, o, b, FALSE)
     ELSE IF KnownOf(p, bs, b) = {TRUE} THEN Through(p, bs, s, o, a, FALSE)
     ELSE EmitBothSides(materialize(p, bs, materialize(p, bs, s, a), b), o, a, b)

-----------------------------------------------------------------------------
(* The pass *)

hasPredicateAigForm(p) ==
  \A n \in Nodes(p) :
    LET d == p[n].driver
    IN p[n].w = 1 /\ d.op # "port" /\ (\A a \in ToSet(d.args) : a.w = 1)
         => d.op \notin {"ite", "case", "lor", "or", "xor", "eq", "ne"}

Redirected(d, r) ==
  [d EXCEPT !.args = IF r.inverted THEN << r.value, @[3], @[2] >> ELSE << r.value, @[2], @[3] >>]

\* The selection with a condition that was copied, or the branch it takes.
Rewritten(s, n, d, r) ==
  SetDriver(s.p, n, IF r.value.lit THEN Assign(d.args[IF (r.value.v # 0) # r.inverted THEN 2 ELSE 3])
                    ELSE Redirected(d, r))
Materialized(s, n, d) == Rewritten(s, n, d, s.made[d.args[1]])

SinkInto(p, n, d, bs, truth) ==
  IF truth # {} THEN << SetDriver(p, n, Assign(d.args[IF truth = {TRUE} THEN 2 ELSE 3])) >>
  ELSE IF SettledInside(p, bs, d.args[1])
  THEN << Materialized(materialize(p, bs, [p |-> p, made |-> <<>>], d.args[1]), n, d) >>
  ELSE <<>>
SinkUnder(p, n, bs) == IF bs = {} THEN <<>> ELSE SinkInto(p, n, p[n].driver, bs, prove(p, bs, p[n].driver.args[1]))

sinkPredicates(p) ==
  RewriteEach(p, Reverse(Order(p)),
              LAMBDA q, n : IF q[n].driver.op = "ite" /\ (Observable(q[n]) => EnablesOf(q, n) # {})
                            THEN SinkUnder(q, n, BoundariesFrom(q, Followed(q, n))) ELSE <<>>)
=============================================================================
