---------------------------- MODULE OptStructure ----------------------------
(***************************************************************************)
(* The optimizer's passes that change the shape of a tree of operations:   *)
(* a chain of updates of bit ranges becomes one composition                *)
(* (src/src/backend/beopt_bit_updates.hpp), a tree of selections becomes   *)
(* one with exclusive conditions, and a chain of one associative operation *)
(* becomes a shallow tree (src/src/backend/beopt_structure.hpp).           *)
(*                                                                         *)
(* Each pass visits the signals of the program it was given from the       *)
(* readers back to what they read. It may take the inside of a tree apart  *)
(* only when nobody else reads it, and never twice. The limits on the size *)
(* of a tree (1024 updates, branches or leaves) are above any program here. *)
(*                                                                         *)
(* The conditions of a selection, made exclusive and short                 *)
(* (src/src/backend/beopt_case_guards.hpp). A condition is taken apart     *)
(* into a Boolean term over bits of signals, every term is simplified      *)
(* under what the rest of its condition says, each branch excludes the     *)
(* ones before it, and the terms are written back as new signals.          *)
(*                                                                         *)
(* Terms are kept by structure, as the code's tables keep one node for     *)
(* equal terms; where the code goes through them in the order in which     *)
(* they were made, any one order is taken. The limits (4096 terms, nesting *)
(* of as many) are above any program here.                                 *)
(***************************************************************************)
EXTENDS OptWidth

\* How often a signal is read by the readers, or from outside.
Uses(p, readers, n) ==
  (IF Observable(p[n]) THEN 1 ELSE 0)
    + Cardinality(UNION {{<<m, i>> : i \in {j \in DOMAIN p[m].driver.args : p[m].driver.args[j].v = n
                                                                          /\ ~p[m].driver.args[j].lit}} : m \in readers})

Private(p, readers) == {n \in Nodes(p) : Uses(p, readers, n) = 1}

\* What a pass has done so far: the program, and the signals it took apart.
\* Whoever rewrites a root takes something apart, and nobody else does.
Untouched(p) == [p |-> p, consumed |-> {}]
Finished(s) == Left(s.p, s.consumed # {})

-----------------------------------------------------------------------------
(* Updates of bit ranges *)

compatibleWrite(sig, w) == sig.driver.op = "wslice" /\ sig.w = w /\ sig.driver.args[1].w = w
transparentAssign(sig, w) == sig.driver.op = "assign" /\ sig.w = w /\ sig.driver.args[1].w = w

UpdateOf(d) == [lo |-> d.lo, hi |-> d.hi, value |-> d.args[2]]

\* The updates above the base of the last one, newest first, up to the first
\* one that others read too; aliases on the way are passed over.
RECURSIVE UpdatesBelow(_, _, _, _)
UpdatesBelow(p, private, w, found) ==
  LET n == found.base.v
  IN IF found.base.lit \/ n \notin private THEN found
     ELSE IF compatibleWrite(p[n], w)
     THEN UpdatesBelow(p, private, w, [updates |-> Append(found.updates, UpdateOf(p[n].driver)),
                                       chain |-> found.chain \cup {n}, base |-> p[n].driver.args[1]])
     ELSE IF transparentAssign(p[n], w)
     THEN UpdatesBelow(p, private, w, [found EXCEPT !.chain = @ \cup {n}, !.base = p[n].driver.args[1]])
     ELSE found

UpdatesOf(p, private, n) ==
  UpdatesBelow(p, private, p[n].w, [updates |-> <<UpdateOf(p[n].driver)>>, chain |-> {n}, base |-> p[n].driver.args[1]])

\* Every update with a value as wide as its range.
resizeValue(s, u) ==
  LET w == u.hi - u.lo + 1
      q == Extended(s.p, w, Driver("cast", <<u.value>>))
  IN IF u.value.w = w THEN [s EXCEPT !.updates = Append(@, u)]
     ELSE [p |-> q, updates |-> Append(s.updates, [u EXCEPT !.value = Newest(q)])]

OwnerOf(updates, lo, hi) ==
  LET covering == {k \in DOMAIN updates : updates[k].lo <= lo /\ hi <= updates[k].hi}
  IN IF covering = {} THEN 0 ELSE Min(covering)

PieceAt(updates, base, lo, hi) ==
  LET k == OwnerOf(updates, lo, hi)
  IN IF k = 0 THEN [lo |-> lo, hi |-> hi, source |-> base, from |-> lo]
     ELSE [lo |-> lo, hi |-> hi, source |-> updates[k].value, from |-> lo - updates[k].lo]

Boundaries(updates, w) == SetToSortSeq({0, w} \cup {u.lo : u \in ToSet(updates)} \cup {u.hi + 1 : u \in ToSet(updates)}, <)

\* A piece goes on where the piece below it ends in the same value.
Joined(pieces, piece) ==
  LET last == pieces[Len(pieces)]
  IN IF pieces # <<>> /\ last.source = piece.source /\ last.from + (last.hi - last.lo + 1) = piece.from
     THEN Append(Front(pieces), [last EXCEPT !.hi = piece.hi])
     ELSE Append(pieces, piece)

PiecesOf(updates, base, points) ==
  FoldLeft(Joined, <<>>, [k \in 1..Len(points) - 1 |-> PieceAt(updates, base, points[k], points[k + 1] - 1)])

\* The operands of the composition, the high piece first.
slice(s, piece) ==
  LET w == piece.hi - piece.lo + 1
      q == Extended(s.p, w, Part("slice", piece.from, piece.from + w - 1, <<piece.source>>))
  IN IF piece.from = 0 /\ w = piece.source.w THEN [s EXCEPT !.args = Append(@, piece.source)]
     ELSE [p |-> q, args |-> Append(s.args, Newest(q))]

Composed(n, sliced) ==
  SetDriver(sliced.p, n, IF Len(sliced.args) = 1 THEN Assign(sliced.args[1]) ELSE Driver("concat", sliced.args))

Coalesced(s, n, found, resized) ==
  [p |-> Composed(n, FoldLeft(slice, [p |-> resized.p, args |-> <<>>],
                              Reverse(PiecesOf(resized.updates, found.base, Boundaries(resized.updates, s.p[n].w))))),
   consumed |-> s.consumed \cup found.chain]

CoalesceRoot(s, n, found) == Coalesced(s, n, found, FoldLeft(resizeValue, [p |-> s.p, updates |-> <<>>], found.updates))

CoalesceAll(p, live, private) ==
  Finished(FoldLeft(LAMBDA s, n : IF n \in live \ s.consumed /\ compatibleWrite(s.p[n], s.p[n].w)
                                  THEN CoalesceRoot(s, n, UpdatesOf(s.p, private \ s.consumed, n)) ELSE s,
                    Untouched(p), Reverse(Order(p))))

coalesceBitRangeUpdates(p) == CoalesceAll(p, Live(p), Private(p, Live(p)))

-----------------------------------------------------------------------------
(* Trees of selections *)

\* An operation of two operands on every pair of neighbours, until one is left.
PairUp(s, op, w, values) ==
  FoldLeft(LAMBDA t, i : IF 2 * i > Len(values) THEN [t EXCEPT !.values = Append(@, values[2 * i - 1])]
                         ELSE LET q == Extended(t.p, w, Driver(op, <<values[2 * i - 1], values[2 * i]>>))
                              IN [p |-> q, values |-> Append(t.values, Newest(q))],
           [s EXCEPT !.values = <<>>], [i \in 1..(Len(values) + 1) \div 2 |-> i])
RECURSIVE balanced(_, _, _)
balanced(s, op, w) == IF Len(s.values) <= 1 THEN s ELSE balanced(PairUp(s, op, w, s.values), op, w)

Descends(p, private, w, o) ==
  /\ ~o.lit /\ ~o.s /\ o.v \in private
  /\ p[o.v].driver.op = "ite" /\ p[o.v].w = w
  /\ p[o.v].driver.args[1].w = 1 /\ p[o.v].driver.args[2].w = w /\ p[o.v].driver.args[3].w = w

\* The leaves of the tree of selections below an operand, each with the
\* conditions on the way to it and the side each of them was left by.
RECURSIVE LeavesOf(_, _, _, _, _)
LeavesOf(p, private, w, o, path) ==
  LET d == p[o.v].driver
      side(i, taken) == LeavesOf(p, private, w, d.args[i], Append(path, [c |-> d.args[1], taken |-> taken]))
  IN IF Descends(p, private, w, o) THEN side(2, TRUE) \o side(3, FALSE)
     ELSE << [value |-> o, path |-> path] >>

RECURSIVE Expanded(_, _, _, _)
Expanded(p, private, w, o) ==
  IF ~Descends(p, private, w, o) THEN {}
  ELSE {o.v} \cup UNION {Expanded(p, private, w, p[o.v].driver.args[i]) : i \in {2, 3}}

EdgeTerm(s, edge) ==
  LET q == Extended(s.p, 1, Driver("lnot", <<edge.c>>))
  IN IF edge.taken THEN [s EXCEPT !.values = Append(@, edge.c)]
     ELSE [p |-> q, values |-> Append(s.values, Newest(q))]

\* One branch of the flat selection: all conditions on the way, and the leaf.
FlatBranch(s, leaf) ==
  LET guard == balanced(FoldLeft(EdgeTerm, [p |-> s.p, values |-> <<>>], leaf.path), "and", 1)
  IN [p |-> guard.p, args |-> s.args \o << guard.values[1], leaf.value >>]

FlatCase(n, flat, last) == SetDriver(flat.p, n, Driver("case", Append(flat.args, last.value)))
FlattenMux(s, n, leaves, expanded) ==
  IF Cardinality(expanded) < 2 THEN s
  ELSE [p |-> FlatCase(n, FoldLeft(FlatBranch, [p |-> s.p, args |-> <<>>], Front(leaves)), Last(leaves)),
        consumed |-> s.consumed \cup expanded]

FlattenRoot(s, n, private) ==
  FlattenMux(s, n, LeavesOf(s.p, private \cup {n}, s.p[n].w, Sym(n, s.p[n].w), <<>>),
             Expanded(s.p, private \cup {n}, s.p[n].w, Sym(n, s.p[n].w)))

ParallelizeAll(p, live, private) ==
  Finished(FoldLeft(LAMBDA s, n : IF n \in live \ s.consumed /\ s.p[n].driver.op = "ite"
                                  THEN FlattenRoot(s, n, private \ s.consumed) ELSE s,
                    Untouched(p), Reverse(Order(p))))

parallelizeExclusiveMuxes(p) == ParallelizeAll(p, Live(p), Private(p, Nodes(p)))

-----------------------------------------------------------------------------
(* Chains of an associative operation *)

\* How late the value of a signal is there, estimated in operations.
DelayOf(d) == CASE d.op \in {"assign", "port"} -> 0 [] d.op = "mul" -> 3 [] OTHER -> 1
Arrivals(p) ==
  FoldLeft(LAMBDA m, n : [m EXCEPT ![n] = DelayOf(p[n].driver) + Max({0} \cup {m[k] : k \in Sources(p[n].driver)})],
           [n \in Nodes(p) |-> 0], Order(p))

Associative == {"and", "or", "xor", "add"}
compatible(sig, op, w) ==
  sig.driver.op = op /\ sig.w = w /\ \A o \in ToSet(sig.driver.args) : o.w = w /\ ~o.s

RECURSIVE ChainLeaves(_, _, _, _, _)
ChainLeaves(p, private, op, w, o) ==
  IF ~o.lit /\ o.v \in private /\ compatible(p[o.v], op, w)
  THEN ChainLeaves(p, private, op, w, p[o.v].driver.args[1]) \o ChainLeaves(p, private, op, w, p[o.v].driver.args[2])
  ELSE <<o>>
RECURSIVE ChainInside(_, _, _, _, _)
ChainInside(p, private, op, w, o) ==
  IF ~o.lit /\ o.v \in private /\ compatible(p[o.v], op, w)
  THEN {o.v} \cup UNION {ChainInside(p, private, op, w, p[o.v].driver.args[i]) : i \in {1, 2}}
  ELSE {}

\* The two values that are there first are joined first; of two that arrive
\* together, the one that was there first.
Earliest(items) == CHOOSE a \in items : \A b \in items : a.time < b.time \/ (a.time = b.time /\ a.k <= b.k)
Without(items, a) == items \ {a}
RECURSIVE Schedule2(_, _, _, _, _)
JoinTwo(p, op, w, items, k, a, b, q) ==
  Schedule2(q, op, w, (items \ {a, b}) \cup {[time |-> Larger(a.time, b.time) + 1, k |-> k, o |-> Newest(q)]}, k + 1)
Pick2(p, op, w, items, k, a, b) == JoinTwo(p, op, w, items, k, a, b, Extended(p, w, Driver(op, <<a.o, b.o>>)))
Pick1(p, op, w, items, k, a) == Pick2(p, op, w, items, k, a, Earliest(Without(items, a)))
Schedule2(p, op, w, items, k) ==
  IF Cardinality(items) = 1 THEN [p |-> p, root |-> CHOOSE a \in items : TRUE]
  ELSE Pick1(p, op, w, items, k, Earliest(items))

BalanceTo(s, n, arrival, inside, tree) ==
  IF tree.root.time >= arrival[n] THEN s
  ELSE [p |-> SetDriver(tree.p, n, Assign(tree.root.o)), consumed |-> s.consumed \cup inside]
ItemsOf(leaves, arrival) ==
  {[time |-> IF leaves[k].lit THEN 0 ELSE arrival[leaves[k].v], k |-> k, o |-> leaves[k]] : k \in DOMAIN leaves}
BalanceRoot(s, n, arrival, leaves, inside) ==
  IF Len(leaves) < 3 THEN s
  ELSE BalanceTo(s, n, arrival, inside,
                 Schedule2(s.p, s.p[n].driver.op, s.p[n].w, ItemsOf(leaves, arrival), Len(leaves) + 1))

BalanceAt(s, n, private, arrival, d, w) ==
  BalanceRoot(s, n, arrival,
              ChainLeaves(s.p, private, d.op, w, d.args[1]) \o ChainLeaves(s.p, private, d.op, w, d.args[2]),
              ChainInside(s.p, private, d.op, w, d.args[1]) \cup ChainInside(s.p, private, d.op, w, d.args[2]))

BalanceAll(p, live, private, arrival) ==
  Finished(FoldLeft(LAMBDA s, n : IF n \in live \ s.consumed /\ s.p[n].driver.op \in Associative
                                     /\ compatible(s.p[n], s.p[n].driver.op, s.p[n].w)
                                  THEN BalanceAt(s, n, private \ s.consumed, arrival, s.p[n].driver, s.p[n].w) ELSE s,
                    Untouched(p), Reverse(Order(p))))

balanceAssociativeTrees(p) == BalanceAll(p, Live(p), Private(p, Nodes(p)), Arrivals(p))

-----------------------------------------------------------------------------
(* The conditions of a selection, made exclusive and short *)

Always == [const |-> TRUE]
Never == [neg |-> Always]
Atom(o, b) == [atom |-> [o EXCEPT !.s = FALSE], bit |-> b]
Both(x, y) == [both |-> {x, y}]

Negated(t) == "neg" \in DOMAIN t
Neg(t) == IF Negated(t) THEN t.neg ELSE [neg |-> t]
Plain(t) == IF Negated(t) THEN t.neg ELSE t
Conjunction(t) == "both" \in DOMAIN t
Certain(t) == t \in {Always, Never}
TermOf(c) == IF c THEN Always ELSE Never

\* One of two parts, and the other one.
OneOf(t) == CHOOSE x \in t.both : TRUE
OtherOf(t) == CHOOSE y \in t.both : y # OneOf(t)

land(a, b) ==
  IF a = Never \/ b = Never \/ a = Neg(b) THEN Never
  ELSE IF a = Always \/ a = b THEN b
  ELSE IF b = Always THEN a
  ELSE Both(a, b)
lor(a, b) == Neg(land(Neg(a), Neg(b)))

\* Blocks of powers of two, so that one prefix shares the blocks of another.
RECURSIVE tree(_, _)
SplitAt(n) == Max({2^k : k \in {j \in 0..n : 2^j < n}})
tree(terms, isOr) ==
  IF Len(terms) = 0 THEN TermOf(~isOr)
  ELSE IF Len(terms) = 1 THEN terms[1]
  ELSE IF isOr THEN lor(tree(SubSeq(terms, 1, SplitAt(Len(terms))), isOr),
                        tree(SubSeq(terms, SplitAt(Len(terms)) + 1, Len(terms)), isOr))
  ELSE land(tree(SubSeq(terms, 1, SplitAt(Len(terms))), isOr),
            tree(SubSeq(terms, SplitAt(Len(terms)) + 1, Len(terms)), isOr))

-----------------------------------------------------------------------------
(* Conditions as terms *)

\* One bit of a value, followed through what only moves bits.
RECURSIVE bit(_, _, _)
bit(p, o, i) ==
  LET d == DriverOf(p, o)
      source == d.args[1]
  IN CASE o.lit -> TermOf(BitOf(o.v, i) = 1)
       [] d.op = "assign" /\ source.w = o.w -> bit(p, source, i)
       [] d.op = "slice" -> bit(p, source, i + d.lo)
       [] d.op = "bit" -> bit(p, source, d.lo)
       [] d.op \in {"trunc", "zext", "sext", "cast"} /\ i < source.w -> bit(p, source, i)
       [] d.op \in {"zext", "cast"} /\ i >= source.w -> Never
       [] d.op = "sext" /\ i >= source.w -> bit(p, source, source.w - 1)
       [] OTHER -> Atom(o, IF o.w = 1 /\ i = 0 THEN -1 ELSE i)

ComparesBits(d) == d.op \in {"eq", "ne"} /\ d.args[1].w = d.args[2].w /\ (d.args[1].lit \/ d.args[2].lit)

\* Two bits are the same, one of which is known.
SameBit(x, y) == IF Certain(y) THEN IF y = Always THEN x ELSE Neg(x)
                 ELSE IF x = Always THEN y ELSE Neg(y)

RECURSIVE convert(_, _)
convert(p, o) ==
  LET d == DriverOf(p, o)
      bits == [i \in 1..d.args[1].w |-> SameBit(bit(p, d.args[1], i - 1), bit(p, d.args[2], i - 1))]
      narrow == \A a \in ToSet(d.args) : a.w = 1
  IN CASE o.lit -> TermOf(o.v # 0)
       [] d.op = "assign" /\ narrow -> convert(p, d.args[1])
       [] d.op \in {"bit", "slice", "trunc"} -> bit(p, o, 0)
       [] d.op \in {"lnot", "not"} /\ narrow -> Neg(convert(p, d.args[1]))
       [] d.op \in {"and", "land"} /\ narrow -> land(convert(p, d.args[1]), convert(p, d.args[2]))
       [] d.op \in {"or", "lor"} /\ narrow -> lor(convert(p, d.args[1]), convert(p, d.args[2]))
       [] ComparesBits(d) -> IF d.op = "eq" THEN tree(bits, FALSE) ELSE Neg(tree(bits, FALSE))
       [] OTHER -> Atom(o, -1)

-----------------------------------------------------------------------------
(* Simplification *)

RECURSIVE factors(_)
factors(t) == IF t = Always THEN {} ELSE IF Conjunction(t) THEN UNION {factors(x) : x \in t.both} ELSE {t}

\* What is left of a term where the facts hold.
RECURSIVE cofactor(_, _)
cofactor(t, facts) ==
  IF Certain(t) THEN t
  ELSE IF t \in facts THEN Always
  ELSE IF Neg(t) \in facts THEN Never
  ELSE IF ~Conjunction(Plain(t)) THEN t
  ELSE IF Negated(t) THEN Neg(cofactor(t.neg, facts))
  ELSE land(cofactor(OneOf(t), facts), cofactor(OtherOf(t), facts))

\* Mutant: a part is simplified under facts that it is one of.
CofactorUnderItself(terms, t) == IF t \notin terms THEN terms ELSE (terms \ {t}) \cup factors(cofactor(t, terms))
CofactorPart(terms, t) == IF t \notin terms THEN terms ELSE (terms \ {t}) \cup factors(cofactor(t, terms \ {t}))

Contradictory(terms) == Never \in terms \/ \E t \in terms : Neg(t) \in terms
RoundOf(terms) == FoldLeft(CofactorPart, terms, SetToSeq({t \in terms : Conjunction(Plain(t))}))
Rounds == 8
RECURSIVE PartsAfter(_, _)
NextRound(terms, round, next) == IF next = terms THEN terms ELSE PartsAfter(next, round + 1)
PartsAfter(terms, round) ==
  IF Contradictory(terms) \/ round = Rounds THEN terms ELSE NextRound(terms, round, RoundOf(terms))
Parts(t) == PartsAfter(factors(t), 0)

Blocked(parts) == tree(SetToSeq({t.neg : t \in {x \in parts : Negated(x)}}), TRUE)
EnabledBy(parts) == tree(SetToSeq({x \in parts : ~Negated(x)}), FALSE)
Rebuilt(parts) == IF Contradictory(parts) THEN Never ELSE land(EnabledBy(parts), Neg(Blocked(parts)))
simplify(t) == Rebuilt(Parts(t))

\* What several exclusions join to is written as one prefix.
RootOf(parts) == IF Cardinality({x \in parts : Negated(x)}) > 1 /\ ~Certain(Blocked(parts))
                 THEN {Neg(Blocked(parts))} ELSE {}
exclusionRoots(terms) == UNION {RootOf(Parts(t)) : t \in terms}

-----------------------------------------------------------------------------
(* Terms as signals: [p, made], made says what stands for a term already *)

Made(s, t, q) == [p |-> q, made |-> [x \in DOMAIN s.made \cup {t} |-> IF x = t THEN Newest(q) ELSE s.made[x]]]
MadeOf(s, t, o) == [s EXCEPT !.made = [x \in DOMAIN @ \cup {t} |-> IF x = t THEN o ELSE @[x]]]

\* The values whose every bit a conjunction fixes, and what they are fixed to.
BitParts(parts, o) == {t \in parts : "atom" \in DOMAIN Plain(t) /\ Plain(t).bit >= 0 /\ Plain(t).atom = o}
FixedBy(parts) == {o \in {Plain(t).atom : t \in {x \in parts : "atom" \in DOMAIN Plain(x)}} :
                     /\ o.w \in 2..16
                     /\ {Plain(t).bit : t \in BitParts(parts, o)} = 0..o.w - 1}
FixedTo(parts, o) == NumberOf({t.bit : t \in {x \in BitParts(parts, o) : ~Negated(x)}})

Decoder(o, v) == [selector |-> o, v |-> v]
EmitDecoder(s, o, v) ==
  IF Decoder(o, v) \in DOMAIN s.made THEN s
  ELSE Made(s, Decoder(o, v), Extended(s.p, 1, Driver("eq", <<o, Lit(v, o.w)>>)))

Gate(s, t, op, args) == Made(s, t, Extended(s.p, 1, Driver(op, args)))
BitGate(s, t) == Made(s, t, Extended(s.p, 1, Part("bit", t.bit, t.bit, <<t.atom>>)))
JoinGate(s, t, joined) == MadeOf([s EXCEPT !.p = joined.p], t, joined.values[1])

RECURSIVE emit(_, _, _)
EmitBoth(s, t, op, x, y, roots) ==
  LET r == emit(emit(s, x, roots), y, roots) IN Gate(r, t, op, << r.made[x], r.made[y] >>)
EmitNot(s, t, x, roots) == LET r == emit(s, x, roots) IN Gate(r, t, "lnot", << r.made[x] >>)

\* A conjunction that fixes whole values: their comparisons, and the rest.
EmitDecoders(s, t, parts, fixed, roots) ==
  LET rest == SetToSeq(parts \ UNION {BitParts(parts, o) : o \in ToSet(fixed)})
      decoded == FoldLeft(LAMBDA r, o : EmitDecoder(r, o, FixedTo(parts, o)), s, fixed)
      r == FoldLeft(LAMBDA q, x : emit(q, x, roots), decoded, rest)
      values == [k \in DOMAIN fixed |-> r.made[Decoder(fixed[k], FixedTo(parts, fixed[k]))]]
                  \o [k \in DOMAIN rest |-> r.made[rest[k]]]
  IN JoinGate(r, t, balanced([p |-> r.p, values |-> values], "and", 1))

emit(s, t, roots) ==
  CASE t \in DOMAIN s.made -> s
    [] Certain(t) -> MadeOf(s, t, Lit(Truth(t = Always), 1))
    [] Conjunction(t) /\ FixedBy(factors(t)) # {} ->
         EmitDecoders(s, t, factors(t), SetToSeq(FixedBy(factors(t))), roots)
    [] Negated(t) /\ Conjunction(t.neg) -> EmitBoth(s, t, "or", Neg(OneOf(t.neg)), Neg(OtherOf(t.neg)), roots)
    [] Negated(t) /\ ~Certain(t) /\ ~Conjunction(t.neg) -> EmitNot(s, t, t.neg, roots)
    [] Conjunction(t) /\ FixedBy(factors(t)) = {} /\ t \in roots -> EmitNot(s, t, Neg(t), roots)
    [] Conjunction(t) /\ FixedBy(factors(t)) = {} /\ t \notin roots ->
         EmitBoth(s, t, "and", OneOf(t), OtherOf(t), roots)
    [] "atom" \in DOMAIN t /\ t.bit >= 0 -> BitGate(s, t)
    [] "atom" \in DOMAIN t /\ t.bit < 0 -> MadeOf(s, t, t.atom)

-----------------------------------------------------------------------------
(* The pass *)

\* Each branch: its own condition, and none of those before it.
Exclusive(bases) == [i \in DOMAIN bases |-> simplify(land(bases[i], Neg(tree(SubSeq(bases, 1, i - 1), TRUE))))]
Joint(bases) == {land(bases[i], Neg(tree(SubSeq(bases, 1, i - 1), TRUE))) : i \in DOMAIN bases}

EmitAll(s, terms, roots) == FoldLeft(LAMBDA r, t : emit(r, t, roots), s, terms)
WithGuards(s, n, d, terms) ==
  [s EXCEPT !.p = SetDriver(@, n, [d EXCEPT !.args = [i \in DOMAIN @ |->
     IF i % 2 = 1 /\ i < Len(@) THEN s.made[terms[(i + 1) \div 2]] ELSE @[i]]])]

CaseTerms(p, d) == [i \in 1..(Len(d.args) - 1) \div 2 |-> convert(p, d.args[2 * i - 1])]
RunBases(s, n, d, terms, bases) ==
  WithGuards(EmitAll(s, Exclusive(bases), exclusionRoots(ToSet(terms) \cup Joint(bases))), n, d, Exclusive(bases))
runCase(s, n, d, terms) == RunBases(s, n, d, terms, [i \in DOMAIN terms |-> simplify(terms[i])])

\* Every case is replaced, by itself when there was nothing to simplify.
simplifyCaseGuards(p) ==
  LET cases == SelectSeq(Ids(p), LAMBDA n : n \in Live(p) /\ p[n].driver.op = "case")
  IN Left(FoldLeft(LAMBDA s, n : runCase(s, n, p[n].driver, CaseTerms(p, p[n].driver)),
                   [p |-> p, made |-> <<>>], cases).p, cases # <<>>)
=============================================================================
