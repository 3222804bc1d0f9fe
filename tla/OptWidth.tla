------------------------------ MODULE OptWidth ------------------------------
(***************************************************************************)
(* The optimizer's width pass (src/src/backend/beopt_width.hpp). It first  *)
(* rewrites selections and extensions that meet; when it finds none it     *)
(* computes for every signal how many low bits can be other than zero      *)
(* ("assigned") and how many its readers look at ("demand"), narrows the   *)
(* signals to the smaller of the two, and gives every reader back the      *)
(* operand width that it needs. New signals go to the end of the program.  *)
(***************************************************************************)
EXTENDS OptRules

AmountWidth == 8   \* of the literal of a generated shift, 32 in the code

Extended(p, w, d) == Append(p, Signal(w, "", d))
Newest(p) == Sym(Len(p), p[Len(p)].w)

DriverOf(p, o) == IF o.lit THEN Driver("port", <<>>) ELSE p[o.v].driver
ZeroExtLike == {"cast", "zext"}

\* What a selection takes: its lowest bit, and the operand it takes it from.
Selects(d) == d.op \in {"trunc", "slice"}

-----------------------------------------------------------------------------
(* Rewrites of one operation. Each gives <<>> when it does not apply and   *)
(* otherwise the one program that results.                                 *)

rewriteIdentity(p, n) ==
  LET d == p[n].driver
      full == \/ d.op \in {"cast", "zext", "sext", "trunc", "strunc"}
              \/ d.op = "slice" /\ d.lo = 0
  IN IF full /\ p[n].w = d.args[1].w THEN << SetDriver(p, n, Assign(d.args[1])) >> ELSE <<>>

Selection(o, lo, w) ==
  IF lo > 0 THEN Part("slice", lo, lo + w - 1, <<o>>)
  ELSE IF w = o.w THEN Assign(o) ELSE Driver("trunc", <<o>>)

\* The part of an extension: of what was extended, of what was filled in, or of both.
rewriteSelectAfterWiden(p, n) ==
  LET d == p[n].driver
      w == p[n].w
      widen == DriverOf(p, d.args[1])
      inner == widen.args[1]
      signed == widen.op = "sext"
      sign == Extended(p, 1, Part("bit", inner.w - 1, inner.w - 1, <<inner>>))
      filled == IF ~signed THEN SetDriver(p, n, Assign(Zero(w)))
                ELSE SetDriver(sign, n, IF w = 1 THEN Assign(Newest(sign))
                                        ELSE Part("repeat", w, 0, <<Newest(sign)>>))
      shifted == Driver("shr", <<[inner EXCEPT !.s = @ \/ signed], Lit(d.lo, AmountWidth)>>)
  IN IF ~Selects(d) \/ widen.op \notin {"cast", "zext", "sext"} THEN <<>>
     ELSE IF d.lo + w <= inner.w THEN << SetDriver(p, n, Selection(inner, d.lo, w)) >>
     ELSE IF d.lo = 0 THEN << SetDriver(p, n, Driver(IF signed THEN "sext" ELSE "zext", <<inner>>)) >>
     ELSE IF d.lo >= inner.w THEN << filled >>
     ELSE << SetDriver(p, n, shifted) >>

\* What a zero extension of a selection masks: the selected bits, moved down.
MovedDown(p, inner, lo, w) ==
  LET kept == Smaller(w, inner.w - lo)
      sliced == Extended(p, kept, Part("slice", lo, lo + kept - 1, <<inner>>))
      resized == Extended(p, w, Driver(IF inner.w < w THEN "zext" ELSE "trunc", <<inner>>))
  IN IF lo = 0 THEN IF inner.w = w THEN [program |-> p, o |-> inner]
                    ELSE [program |-> resized, o |-> Newest(resized)]
     ELSE IF inner.s
     THEN LET q == Extended(p, w, Driver("shr", <<inner, Lit(lo, AmountWidth)>>))
          IN [program |-> q, o |-> Newest(q)]
     ELSE IF lo >= inner.w THEN [program |-> p, o |-> Zero(w)]
     ELSE LET q == IF kept = w THEN sliced ELSE Extended(sliced, w, Driver("zext", <<Newest(sliced)>>))
          IN [program |-> q, o |-> Newest(q)]

Mask(ones, w) == Lit(2^Smaller(ones, w) - 1, w)

\* A sign extension of a selection: the selected bits, shifted up and back down.
SignedDown(p, n, inner, lo, from) ==
  LET w == p[n].w
      q1 == IF lo = 0 THEN p ELSE Extended(p, w, Driver("shr", <<inner, Lit(lo, AmountWidth)>>))
      q2 == Extended(q1, w, Driver("and", <<IF lo = 0 THEN inner ELSE Newest(q1), Mask(from, w)>>))
      q3 == Extended(q2, w, Driver("shl", <<Newest(q2), Lit(w - from, AmountWidth)>>))
  IN SetDriver(q3, n, Driver("shr", <<Signed(Newest(q3)), Lit(w - from, AmountWidth)>>))

rewriteWidenAfterSelect(p, n) ==
  LET d == p[n].driver
      w == p[n].w
      select == DriverOf(p, d.args[1])
      from == p[d.args[1].v].w
      moved == MovedDown(p, select.args[1], select.lo, w)
  IN IF d.op \notin {"cast", "zext", "sext"} \/ ~Selects(select) THEN <<>>
     ELSE IF d.op # "sext"
     THEN << SetDriver(moved.program, n, IF from >= w THEN Assign(moved.o)
                                         ELSE Driver("and", <<moved.o, Mask(from, w)>>)) >>
     ELSE IF w > from THEN << SignedDown(p, n, select.args[1], select.lo, from) >>
     ELSE <<>>

\* Bits on which both sides are known to agree need not be compared.
rewriteKnownBitsEquality(p, n, facts) ==
  LET d == p[n].driver
      w == d.args[1].w
      f == FactOf(facts, d.args[1])
      g == FactOf(facts, d.args[2])
      differ == {b \in 0..w - 1 : (b \in f.zero /\ b \in g.one) \/ (b \in f.one /\ b \in g.zero)}
      open == {b \in 0..w - 1 : b \notin f.zero \cup f.one \/ b \notin g.zero \cup g.one}
      narrow == Max({-1} \cup open) + 1
      said == IF (differ = {}) = (d.op = "eq") THEN 1 ELSE 0
      narrowed(q, o) ==
        LET wider == DriverOf(q, o)
            cut == Extended(q, narrow, Driver("trunc", <<o>>))
        IN IF o.lit THEN [program |-> q, o |-> Lit(o.v, narrow)]
           ELSE IF wider.op \in ZeroExtLike /\ wider.args[1].w = narrow
           THEN [program |-> q, o |-> wider.args[1]]
           ELSE [program |-> cut, o |-> Newest(cut)]
      left == narrowed(p, d.args[1])
      right == narrowed(left.program, d.args[2])
  IN IF d.op \notin {"eq", "ne"} \/ w <= 1 \/ d.args[2].w # w \/ d.args[1].s \/ d.args[2].s THEN <<>>
     ELSE IF differ # {} \/ open = {} THEN << SetDriver(p, n, Assign(Lit(said, p[n].w))) >>
     ELSE IF narrow = w THEN <<>>
     ELSE << SetDriver(right.program, n, Driver(d.op, <<left.o, right.o>>)) >>

simplifyWidthOperation(p, n, facts) ==
  FirstApplied(rewriteKnownBitsEquality(p, n, facts),
  FirstApplied(rewriteIdentity(p, n),
  FirstApplied(rewriteSelectAfterWiden(p, n), rewriteWidenAfterSelect(p, n))))

-----------------------------------------------------------------------------
(* How many bits a signal can use, and how many are looked at *)

lowBitClosedBinary == {"add", "sub", "mul", "and", "or", "xor"}
narrowableOperation == {"assign", "cast", "zext", "sext", "trunc", "strunc", "slice", "ite", "case",
                        "not", "neg", "shl", "shr", "addc"} \cup lowBitClosedBinary

\* The bits below the known zeros at the top, one at least.
EffectiveWidth(f) == Max({1} \cup {b + 1 : b \in (0..f.w - 1) \ f.zero})

operandAssignedWidth(o, assigned) ==
  IF o.lit THEN EffectiveWidth(Constant(BitsOf(o.v, o.w), o.w, FALSE)) ELSE assigned[o.v]

AssignedBinary(d, w, a, b) ==
  CASE d.op = "add" -> IF Larger(a, b) < w THEN Larger(a, b) + 1 ELSE w
    [] d.op = "mul" -> a + b
    [] d.op = "and" -> Smaller(a, b)
    [] d.op \in {"or", "xor"} -> Larger(a, b)
    [] d.op = "shl" -> IF d.args[2].lit THEN a + d.args[2].v ELSE w
    [] d.op = "shr" -> IF d.args[1].s THEN a
                       ELSE IF d.args[2].lit THEN Larger(1, a - d.args[2].v) ELSE w
    [] OTHER -> w

\* The width that the operands of d can fill; the extension of a sign fills all.
assignedWidthFromOperation(d, w, assigned) ==
  LET a(i) == operandAssignedWidth(d.args[i], assigned)
      computed ==
        CASE d.op \in {"assign", "cast", "zext", "trunc", "strunc"} -> a(1)
          [] d.op = "slice" -> a(1) - d.lo
          [] d.op = "ite" -> Larger(a(2), a(3))
          [] d.op = "case" -> Max({a(i) : i \in CaseValues(d)})
          [] d.op = "addc" -> Larger(a(1), a(2)) + 1
          [] Len(d.args) = 2 -> AssignedBinary(d, w, a(1), a(2))
          [] OTHER -> w
  IN Larger(1, Smaller(w, computed))

analyzeAssignedWidths(p, facts) ==
  LET analyse(assigned, n) ==
        LET d == p[n].driver
            w == IF d.op \in narrowableOperation THEN assignedWidthFromOperation(d, p[n].w, assigned)
                 ELSE p[n].w
        IN [assigned EXCEPT ![n] = Smaller(w, EffectiveWidth(facts[n]))]
  IN FoldLeft(analyse, [n \in Nodes(p) |-> p[n].w], Order(p))

Full == 10000   \* more than any width: the operand is read whole

\* How many low bits of each operand d reads when need bits of it are looked at.
propagateDemand(d, need) ==
  CASE d.op \in {"assign", "cast", "zext", "trunc", "strunc", "sext", "not", "neg", "repeat"} -> << need >>
    [] d.op \in {"slice", "bit"} -> << d.lo + need >>
    [] d.op = "ite" -> << Full, need, need >>
    [] d.op = "case" -> [i \in DOMAIN d.args |-> IF i \in CaseValues(d) THEN need ELSE Full]
    [] d.op = "addc" -> << need, need, 1 >>
    [] d.op \in lowBitClosedBinary -> << need, need >>
    [] d.op = "shl" /\ d.args[2].lit -> << Larger(1, need - d.args[2].v), Full >>
    [] d.op = "shr" /\ d.args[2].lit /\ ~d.args[1].s -> << need + d.args[2].v, Full >>
    [] d.op = "concat" ->
         [i \in DOMAIN d.args |->
           need - FoldLeft(LAMBDA t, o : t + o.w, 0, SubSeq(d.args, i + 1, Len(d.args)))]
    [] OTHER -> [i \in DOMAIN d.args |-> Full]

analyzeDemandWidths(p, assigned) ==
  LET raise(demand, o, need) ==
        IF o.lit \/ need <= 0 THEN demand
        ELSE [demand EXCEPT ![o.v] = Larger(@, Smaller(assigned[o.v], need))]
      ask(demand, n) ==
        LET d == p[n].driver
            needs == propagateDemand(d, Smaller(demand[n], p[n].w))
        IN IF demand[n] <= 0 THEN demand
           ELSE FoldLeft(LAMBDA m, i : raise(m, d.args[i], needs[i]), demand, [i \in DOMAIN d.args |-> i])
      observed == [n \in Nodes(p) |-> IF Observable(p[n]) THEN p[n].w ELSE 0]
  IN FoldLeft(ask, observed, Reverse(Order(p)))

-----------------------------------------------------------------------------
(* Narrowing, and operands of the width their readers need *)

\* A right shift whose kept bits are all inside its operand is a slice of it.
NarrowedDriver(d, w) ==
  IF d.op = "shr" /\ ~d.args[1].s /\ d.args[2].lit /\ d.args[2].v + w <= d.args[1].w
  THEN Part("slice", d.args[2].v, d.args[2].v + w - 1, <<d.args[1]>>)
  ELSE IF d.op = "slice" THEN [d EXCEPT !.hi = d.lo + w - 1] ELSE d

NarrowSignals(p, assigned, demand) ==
  LET target(n) == Smaller(assigned[n], IF demand[n] > 0 THEN demand[n] ELSE assigned[n])
      narrows(n) == /\ ~Observable(p[n])
                    /\ p[n].driver.op \in narrowableOperation
                    /\ target(n) < p[n].w
  IN EachSignal(p, LAMBDA q, n : IF ~narrows(n) THEN <<>>
                                 ELSE << [q EXCEPT ![n] = Signal(target(n), "", NarrowedDriver(@.driver, target(n)))] >>)

\* Mutant: the operand is as it was before its signal became narrower.
LeaveOperand(p, operand, w) == [program |-> p, o |-> operand]

\* An operand read at width w: as its signal is now, then resized by its own view.
resizeOperandForUse(p, operand, w) ==
  LET o == IF operand.lit THEN operand ELSE [operand EXCEPT !.w = p[operand.v].w]
      op == IF o.w > w THEN "trunc" ELSE IF o.s THEN "sext" ELSE "zext"
      q == Extended(p, w, Driver(op, <<o>>))
  IN IF o.w = w THEN [program |-> p, o |-> o]
     ELSE IF o.lit THEN [program |-> p, o |-> [o EXCEPT !.w = w, !.v = Widen(o.v, o.w, w, o.s)]]
     ELSE [program |-> q, o |-> [Newest(q) EXCEPT !.s = o.s]]

Same == 0      \* read the operand at whatever width its signal has now

\* The width at which an operation w wide reads each of its operands.
OperandWidths(d, w, assigned) ==
  LET a(i) == operandAssignedWidth(d.args[i], assigned)
      common == Larger(d.args[1].w, d.args[2].w)
  IN CASE d.op = "addc" -> << w, w, 1 >>
       [] d.op \in {"add", "sub"} -> << Larger(a(1), a(2)), Larger(a(1), a(2)) >>
       [] d.op \in {"mul", "and", "or", "xor"} -> << w, w >>
       [] d.op \in {"shl", "shr"} -> << d.args[1].w, a(2) >>
       [] d.op \in {"eq", "ne", "lt", "le", "gt", "ge"} -> << common, common >>
       [] d.op \in {"case"} -> [i \in DOMAIN d.args |-> IF i \in CaseValues(d) THEN w ELSE 1]
       [] d.op = "concat" -> [i \in DOMAIN d.args |-> d.args[i].w]
       [] d.op \in {"not", "neg", "assign", "cast", "zext"} -> << w >>
       [] d.op \in {"wslice", "wbit"} -> << w, d.hi - d.lo + 1 >>
       [] OTHER -> [i \in DOMAIN d.args |-> Same]

normalizeOperationOperands(p, n, assigned) ==
  LET widths == OperandWidths(p[n].driver, p[n].w, assigned)
      resize(q, i) ==
        LET d == q[n].driver
            o == d.args[i]
            used == resizeOperandForUse(q, o, IF widths[i] = Same
                                              THEN IF o.lit THEN o.w ELSE q[o.v].w ELSE widths[i])
        IN SetDriver(used.program, n, [d EXCEPT !.args = [@ EXCEPT ![i] = used.o]])
  IN FoldLeft(resize, p, [i \in DOMAIN p[n].driver.args |-> i])

\* The signals there were when the pass began; the new ones follow them.
applyComprehensiveWidths(p, assigned, demand) ==
  LET narrowed == NarrowSignals(p, assigned, demand)
      resized == FoldLeft(LAMBDA q, n : normalizeOperationOperands(q, n, assigned), narrowed.p, Ids(p))
  IN Left(resized, narrowed.changed \/ \E n \in Nodes(p) : resized[n].driver.args # narrowed.p[n].driver.args)

\* Mutant: the pass does not say that it narrowed anything.
NarrowQuietly(p, assigned) ==
  Left(applyComprehensiveWidths(p, assigned, analyzeDemandWidths(p, assigned)).p, FALSE)
ComprehensiveWidths(p, assigned) == applyComprehensiveWidths(p, assigned, analyzeDemandWidths(p, assigned))

simplifyWidthOperations(p, facts) ==
  LET rewritten == EachSignal(p, LAMBDA q, n : simplifyWidthOperation(q, n, facts))
  IN IF rewritten.changed THEN rewritten ELSE ComprehensiveWidths(p, analyzeAssignedWidths(p, facts))
=============================================================================
