--------------------------- MODULE NormaliseProofs ---------------------------
(***************************************************************************)
(* Stage S8 leaves the program in normal form, whatever the functions and  *)
(* the limits (NormalForm).  Bottom up: what each lowering of an operation *)
(* returns, down to the rounds of a division; then the statements that     *)
(* normalizeStmt emits; then the invariant and its steps.                  *)
(***************************************************************************)
EXTENDS Normalise, FoldFacts

-----------------------------------------------------------------------------
(* The fold over operands, step by step *)

CastSteps == INSTANCE FoldSteps WITH op <- CastNext

\* The steps of CastArgs.
LEMMA CastFold ==
  ASSUME NEW base, NEW seq, NEW n \in Nat, DOMAIN seq = 1..n
  PROVE  \E it : CastSteps!Steps(it, base, seq, n) /\ FoldLeft(CastNext, base, seq) = it[n]
<1>1. CastSteps!NaturalsFacts
  BY InductiveSet, MaxIsGreatest DEF CastSteps!NaturalsFacts, CastSteps!Greatest, Max
<1>2. PICK it : CastSteps!Steps(it, base, seq, n) /\ CastSteps!Fold(base, seq, n) = it[n]
  BY <1>1, CastSteps!StepByStep
<1>3. FoldLeft(CastNext, base, seq) = CastSteps!Fold(base, seq, n)
  BY DEF FoldLeft, MapThenFoldSet, Max, CastSteps!Fold, CastSteps!Eqn, CastSteps!Greatest
<1> QED BY <1>2, <1>3

-----------------------------------------------------------------------------
(* Symbol tables that grow, operands and statements over them *)

\* more continues ts.
Grows(ts, more) ==
  /\ IsSeq(ts) /\ IsSeq(more) /\ Len(ts) <= Len(more)
  /\ \A x \in 1..Len(ts) : more[x] = ts[x]

LitShape(o) == [kind |-> "lit", v |-> o.v, t |-> o.t, sv |-> o.sv]
VarShape(o) == [kind |-> "var", v |-> o.v, sv |-> o.sv]

\* An operand over the symbols ts.
Usable(ts, o) ==
  o.sv \in BOOLEAN /\ (o = LitShape(o) \/ (o = VarShape(o) /\ o.v \in 1..Len(ts)))
AllUsable(ts, args) == IsSeq(args) /\ \A i \in 1..Len(args) : Usable(ts, args[i])

\* Where an operation may have views.
Viewable(op, args) ==
  \A i \in 1..Len(args) : args[i].sv =>
    IF op \in {"sext", "ashr"} THEN i = 1
    ELSE op \in {"mul", "cast", "trunc", "reduce_or"} \cup Orders
Plain(args) == \A i \in 1..Len(args) : ~args[i].sv

\* What the verifier asks of a statement, and the views.
StmtRight(ts, s) ==
  /\ AllUsable(ts, s.args) /\ s.to[1] \in 1..Len(ts)
  /\ \A i \in 1..Len(s.args) : s.args[i].sv => i \in ViewsRead(s)
  /\ s.k = "assign" => Len(s.args) = 1 /\ TypeOf(ts, s.args[1]) = ts[s.to[1]]
  /\ s.k = "op" => ts[s.to[1]].w = s.w
  /\ s.k = "lookup" => /\ s.args # <<>>
                      /\ \A i \in 2..Len(s.args) : TypeOf(ts, s.args[i]) = ts[s.to[1]]
StmtsRight(ts, stms) == IsSeq(stms) /\ \A i \in 1..Len(stms) : StmtRight(ts, stms[i])

\* A table continues itself, and what continues a continuation.
LEMMA GrowsSelf == ASSUME NEW ts, IsSeq(ts) PROVE Grows(ts, ts)
BY SeqFacts DEF Grows

\* What continues a continuation.
LEMMA GrowsTrans ==
  ASSUME NEW t1, NEW t2, NEW t3, Grows(t1, t2), Grows(t2, t3)
  PROVE  Grows(t1, t3)
<1>1. Len(t1) \in Nat /\ Len(t2) \in Nat /\ Len(t3) \in Nat BY SeqFacts DEF Grows
<1>2. \A x \in 1..Len(t1) : x \in 1..Len(t2) BY <1>1 DEF Grows
<1>3. \A x \in 1..Len(t1) : t3[x] = t1[x] BY <1>2 DEF Grows
<1> QED BY <1>1, <1>3 DEF Grows

\* An operand has its type in every continuation.
LEMMA UsableGrows ==
  ASSUME NEW ts, NEW more, Grows(ts, more), NEW o, Usable(ts, o)
  PROVE  Usable(more, o) /\ TypeOf(more, o) = TypeOf(ts, o)
<1>1. Len(ts) \in Nat /\ Len(more) \in Nat /\ Len(ts) <= Len(more)
      /\ \A x \in 1..Len(ts) : x \in 1..Len(more) /\ more[x] = ts[x]
  BY SeqFacts DEF Grows
<1>2. o.kind = "lit" \/ (o.kind = "var" /\ o.v \in 1..Len(ts))
  BY DEF Usable, LitShape, VarShape
<1> QED BY <1>1, <1>2 DEF Usable, TypeOf

\* The same for lists of operands.
LEMMA AllUsableGrows ==
  ASSUME NEW ts, NEW more, Grows(ts, more), NEW args, AllUsable(ts, args)
  PROVE  AllUsable(more, args)
BY UsableGrows DEF AllUsable

\* A right statement is right over every continuation of the symbols.
LEMMA StmtGrows ==
  ASSUME NEW ts, NEW more, Grows(ts, more), NEW s, StmtRight(ts, s)
  PROVE  StmtRight(more, s)
<1>1. AllUsable(more, s.args) BY AllUsableGrows DEF StmtRight
<1>2. Len(ts) \in Nat /\ Len(more) \in Nat BY SeqFacts DEF Grows
<1>3. s.to[1] \in 1..Len(more) /\ more[s.to[1]] = ts[s.to[1]] BY <1>2 DEF StmtRight, Grows
<1>4. \A i \in 1..Len(s.args) : TypeOf(more, s.args[i]) = TypeOf(ts, s.args[i])
  BY UsableGrows DEF StmtRight, AllUsable
<1>5. Len(s.args) \in Nat BY SeqFacts DEF StmtRight, AllUsable
<1>6. s.k = "assign" => Len(s.args) = 1 /\ TypeOf(more, s.args[1]) = more[s.to[1]]
  <2>1. Len(s.args) = 1 => 1 \in 1..Len(s.args) OBVIOUS
  <2> QED BY <1>3, <1>4, <2>1 DEF StmtRight
<1>7. s.k = "op" => more[s.to[1]].w = s.w BY <1>3 DEF StmtRight
<1>8. s.k = "lookup" => /\ s.args # <<>>
                        /\ \A i \in 2..Len(s.args) : TypeOf(more, s.args[i]) = more[s.to[1]]
  <2>1. \A i \in 2..Len(s.args) : i \in 1..Len(s.args) BY <1>5
  <2> QED BY <1>3, <1>4, <2>1 DEF StmtRight
<1> QED BY <1>1, <1>3, <1>6, <1>7, <1>8 DEF StmtRight

\* The same for lists of statements.
LEMMA StmtsGrow ==
  ASSUME NEW ts, NEW more, Grows(ts, more), NEW stms, StmtsRight(ts, stms)
  PROVE  StmtsRight(more, stms)
BY StmtGrows DEF StmtsRight

-----------------------------------------------------------------------------
(* Operands *)

\* A symbol, and a constant.
LEMMA UseFacts ==
  ASSUME NEW ts, NEW x, x \in 1..Len(ts)
  PROVE  Usable(ts, Use(x)) /\ Use(x).sv = FALSE /\ TypeOf(ts, Use(x)) = ts[x]
BY DEF Usable, Use, VarShape, TypeOf

\* A constant, cut to its type.
LEMMA ConstFacts ==
  ASSUME NEW ts, NEW v, NEW t
  PROVE  Usable(ts, Const(v, t)) /\ Const(v, t).sv = FALSE
<1> DEFINE bits == v % 2^t.w
<1>1. Const(v, t) = [kind |-> "lit", v |-> bits, t |-> t, sv |-> FALSE] BY DEF Const
<1> HIDE DEF bits
<1> QED BY <1>1 DEF Usable, LitShape

\* A view changes nothing else.
LEMMA ViewFacts ==
  ASSUME NEW ts, NEW o, Usable(ts, o)
  PROVE  /\ Usable(ts, Signed(o)) /\ Usable(ts, Unsigned(o)) /\ Unsigned(o).sv = FALSE
         /\ TypeOf(ts, Unsigned(o)) = TypeOf(ts, o)
<1>1. CASE o = LitShape(o)
  <2>1. \A b : [o EXCEPT !.sv = b] = [kind |-> "lit", v |-> o.v, t |-> o.t, sv |-> b]
    BY <1>1 DEF LitShape
  <2> QED BY <1>1, <2>1 DEF Usable, LitShape, Signed, Unsigned, TypeOf
<1>2. CASE o = VarShape(o) /\ o.v \in 1..Len(ts)
  <2>1. \A b : [o EXCEPT !.sv = b] = [kind |-> "var", v |-> o.v, sv |-> b]
    BY <1>2 DEF VarShape
  <2> QED BY <1>2, <2>1 DEF Usable, VarShape, Signed, Unsigned, TypeOf
<1> QED BY <1>1, <1>2 DEF Usable

\* normalizeOperand keeps the view.
LEMMA NormalizedOperand ==
  ASSUME NEW ts, NEW o, Usable(ts, o)
  PROVE  Usable(ts, normalizeOperand(o)) /\ normalizeOperand(o).sv = o.sv
<1>1. CASE o = LitShape(o)
  <2>1. \A b : [o EXCEPT !.v = b] = [kind |-> "lit", v |-> b, t |-> o.t, sv |-> o.sv]
    BY <1>1 DEF LitShape
  <2>2. o.kind = "lit" BY <1>1 DEF LitShape
  <2> DEFINE bits == o.v % 2^o.t.w
  <2>3. normalizeOperand(o) = [o EXCEPT !.v = bits] BY <2>2 DEF normalizeOperand
  <2> HIDE DEF bits
  <2>4. normalizeOperand(o) = [kind |-> "lit", v |-> bits, t |-> o.t, sv |-> o.sv] BY <2>1, <2>3
  <2> QED BY <2>4 DEF Usable, LitShape
<1>2. CASE o = VarShape(o) /\ o.v \in 1..Len(ts)
  <2>1. o.kind = "var" BY <1>2 DEF VarShape
  <2>2. normalizeOperand(o) = o BY <2>1 DEF normalizeOperand
  <2> QED BY <2>2
<1> QED BY <1>1, <1>2 DEF Usable

-----------------------------------------------------------------------------
(* Emitting *)

\* A context whose statements are right.
Context(c) ==
  /\ c = [types |-> c.types, stmts |-> c.stmts]
  /\ IsSeq(c.types) /\ StmtsRight(c.types, c.stmts)
Continues(c, d) == Context(d) /\ Grows(c.types, d.types)

\* What a lowering of c yields: a context that continues c, and an operand.
Lowered(c, r) == r = Val(r.c, r.o) /\ Continues(c, r.c) /\ Usable(r.c.types, r.o)
PlainLowered(c, r) == Lowered(c, r) /\ ~r.o.sv

\* Nothing lowered.
LEMMA ContinuesSelf == ASSUME NEW c, Context(c) PROVE Continues(c, c)
BY GrowsSelf DEF Context, Continues

\* Two lowerings in a row.
LEMMA ContinuesTrans ==
  ASSUME NEW c, NEW d, NEW e, Continues(c, d), Continues(d, e)
  PROVE  Continues(c, e)
BY GrowsTrans DEF Continues

\* A lowering of what a lowering left.
LEMMA LoweredTrans ==
  ASSUME NEW c, NEW d, NEW r, Continues(c, d), Lowered(d, r)
  PROVE  Lowered(c, r)
BY ContinuesTrans DEF Lowered

\* An operand that is there already.
LEMMA ValLowered ==
  ASSUME NEW c, NEW d, Continues(c, d), NEW o, Usable(d.types, o)
  PROVE  Lowered(c, Val(d, o)) /\ Val(d, o).o = o /\ Val(d, o).c = d
BY DEF Lowered, Val

\* A right statement is added.
LEMMA EmitFacts ==
  ASSUME NEW c, Context(c), NEW s, StmtRight(c.types, s)
  PROVE  Continues(c, Emit(c, s)) /\ Emit(c, s).types = c.types
<1> DEFINE more == Append(c.stmts, s)
<1>1. Emit(c, s) = [types |-> c.types, stmts |-> more] BY DEF Emit, Context
<1>2. /\ IsSeq(more) /\ Len(more) = Len(c.stmts) + 1 /\ more[Len(c.stmts) + 1] = s
      /\ \A i \in 1..Len(c.stmts) : more[i] = c.stmts[i] /\ Len(c.stmts) \in Nat
  BY AppendFacts, SeqFacts DEF Context, StmtsRight
<1>3. Len(c.stmts) \in Nat BY SeqFacts DEF Context, StmtsRight
<1> HIDE DEF more
<1>4. ASSUME NEW i \in 1..Len(more) PROVE StmtRight(c.types, more[i])
  <2>1. i \in 1..Len(c.stmts) \/ i = Len(c.stmts) + 1 BY <1>2, <1>3
  <2> QED BY <1>2, <2>1 DEF Context, StmtsRight
<1>5. StmtsRight(c.types, more) BY <1>2, <1>4 DEF StmtsRight
<1>6. Context(Emit(c, s)) BY <1>1, <1>5 DEF Context
<1> QED BY <1>1, <1>6, GrowsSelf DEF Continues, Context

\* A temporary is added.
LEMMA TempFacts ==
  ASSUME NEW c, Context(c), NEW t
  PROVE  LET d == createTemp(c, t)
         IN  /\ Continues(c, d) /\ Len(c.types) + 1 \in 1..Len(d.types)
             /\ d.types[Len(c.types) + 1] = t
<1> DEFINE d == createTemp(c, t)
           more == Append(c.types, t)
<1>1. d = [types |-> more, stmts |-> c.stmts] BY DEF createTemp, Context
<1>2. /\ IsSeq(more) /\ Len(more) = Len(c.types) + 1 /\ more[Len(c.types) + 1] = t
      /\ \A i \in 1..Len(c.types) : more[i] = c.types[i]
  BY AppendFacts DEF Context
<1>3. Len(c.types) \in Nat BY SeqFacts DEF Context
<1> HIDE DEF more, d
<1>4. Grows(c.types, more) BY <1>2, <1>3 DEF Grows, Context
<1>5. StmtsRight(more, c.stmts) BY <1>4, StmtsGrow DEF Context
<1>6. Continues(c, d) BY <1>1, <1>2, <1>4, <1>5 DEF Continues, Context
<1>7. Len(c.types) + 1 \in 1..Len(more) BY <1>2, <1>3
<1> QED BY <1>1, <1>2, <1>6, <1>7 DEF d

\* An operation with its views in the right places.
LEMMA OpRight ==
  ASSUME NEW ts, NEW x \in 1..Len(ts), NEW op, NEW args, NEW n, NEW w, w = ts[x].w,
         AllUsable(ts, args), Viewable(op, args)
  PROVE  StmtRight(ts, [Do(x, op, args, n) EXCEPT !.w = w])
<1> DEFINE s == [Do(x, op, args, n) EXCEPT !.w = w]
<1>1. s = [k |-> "op", op |-> op, to |-> <<x>>, args |-> args, n |-> n, w |-> w] BY DEF Do
<1> HIDE DEF s
<1>2. DOMAIN args = 1..Len(args) BY SeqFacts DEF AllUsable
<1>3. \A i \in 1..Len(args) : args[i].sv => i \in ViewsRead(s)
  <2> TAKE i \in 1..Len(args)
  <2> HAVE args[i].sv
  <2>1. CASE op \in {"sext", "ashr"} BY <1>1, <2>1 DEF Viewable, ViewsRead
  <2>2. CASE op \notin {"sext", "ashr"}
    <3>1. op \in {"mul", "cast", "trunc", "reduce_or"} \cup Orders BY <2>2 DEF Viewable
    <3>2. ViewsRead(s) = DOMAIN args BY <1>1, <2>2, <3>1 DEF ViewsRead
    <3> QED BY <1>2, <3>2
  <2> QED BY <2>1, <2>2
<1>4. StmtRight(ts, s) BY <1>1, <1>3 DEF StmtRight
<1> QED BY <1>4 DEF s

\* OpInto writes a symbol that exists.
LEMMA OpIntoFacts ==
  ASSUME NEW c, Context(c), NEW x \in 1..Len(c.types), NEW op, NEW args, NEW n,
         AllUsable(c.types, args), Viewable(op, args)
  PROVE  Continues(c, OpInto(c, x, op, args, n)) /\ OpInto(c, x, op, args, n).types = c.types
<1> DEFINE w == c.types[x].w
<1>1. StmtRight(c.types, [Do(x, op, args, n) EXCEPT !.w = w]) BY OpRight
<1> QED BY <1>1, EmitFacts DEF OpInto

\* materializeOp gives a temporary of the type.
LEMMA OpFacts ==
  ASSUME NEW c, Context(c), NEW op, NEW t, NEW args, NEW n,
         AllUsable(c.types, args), Viewable(op, args)
  PROVE  LET r == materializeOp(c, op, t, args, n)
         IN  PlainLowered(c, r) /\ TypeOf(r.c.types, r.o) = t
<1> DEFINE r == materializeOp(c, op, t, args, n)
           d == createTemp(c, t)
           x == Len(c.types) + 1
           e == OpInto(d, x, op, args, n)
<1>1. r = Val(e, Use(x)) BY DEF materializeOp
<1>2. Continues(c, d) /\ x \in 1..Len(d.types) /\ d.types[x] = t BY TempFacts
<1> HIDE DEF d, x
<1>3. AllUsable(d.types, args) /\ Context(d) BY <1>2, AllUsableGrows DEF Continues
<1>4. Continues(d, e) /\ e.types = d.types BY <1>2, <1>3, OpIntoFacts
<1> HIDE DEF e
<1>5. Continues(c, e) BY <1>2, <1>4, ContinuesTrans
<1>6. Usable(e.types, Use(x)) /\ Use(x).sv = FALSE /\ TypeOf(e.types, Use(x)) = t
  BY <1>2, <1>4, UseFacts
<1>7. Lowered(c, Val(e, Use(x))) /\ Val(e, Use(x)).o = Use(x) /\ Val(e, Use(x)).c = e
  BY <1>5, <1>6, ValLowered
<1> HIDE DEF r
<1> QED BY <1>1, <1>6, <1>7 DEF PlainLowered, r

\* Operands in short lists.
LEMMA OneOperand ==
  ASSUME NEW ts, NEW a, Usable(ts, a)
  PROVE  /\ AllUsable(ts, <<a>>) /\ Len(<<a>>) = 1 /\ <<a>>[1] = a
         /\ (~a.sv => Plain(<<a>>))
<1>1. IsSeq(<<a>>) /\ Len(<<a>>) = 1 /\ <<a>>[1] = a BY SingleFacts
<1>2. \A i \in 1..1 : i = 1 OBVIOUS
<1> QED BY <1>1, <1>2 DEF AllUsable, Plain

\* A list of two operands.
LEMMA TwoOperands ==
  ASSUME NEW ts, NEW a, NEW b, Usable(ts, a), Usable(ts, b)
  PROVE  /\ AllUsable(ts, <<a, b>>) /\ Len(<<a, b>>) = 2
         /\ <<a, b>>[1] = a /\ <<a, b>>[2] = b
         /\ (~a.sv /\ ~b.sv => Plain(<<a, b>>))
<1>1. <<a, b>> \in Seq({a, b}) /\ Len(<<a, b>>) = 2 /\ <<a, b>>[1] = a /\ <<a, b>>[2] = b OBVIOUS
<1>2. IsSeq(<<a, b>>) BY <1>1, SeqOver
<1>3. \A i \in 1..2 : i = 1 \/ i = 2 OBVIOUS
<1> QED BY <1>1, <1>2, <1>3 DEF AllUsable, Plain

\* Operands without views suit every operation.
LEMMA PlainViewable == ASSUME NEW op, NEW args, Plain(args) PROVE Viewable(op, args)
BY DEF Plain, Viewable

-----------------------------------------------------------------------------
(* Casts *)

\* The operation of a cast may read the view it is chosen for.
LEMMA CastViewable ==
  ASSUME NEW ts, NEW o, Usable(ts, o), NEW from, NEW to
  PROVE  AllUsable(ts, <<o>>) /\ Viewable(CastKind(from, to, o.sv), <<o>>)
<1>1. AllUsable(ts, <<o>>) /\ Len(<<o>>) = 1 /\ <<o>>[1] = o BY OneOperand
<1>2. CastKind(from, to, TRUE) \in {"reduce_or", "sext", "trunc", "cast"} BY DEF CastKind
<1>3. \A i \in 1..1 : i = 1 OBVIOUS
<1>4. o.sv \in BOOLEAN BY DEF Usable
<1>5. CASE o.sv = TRUE
  <2>1. CastKind(from, to, o.sv) \in {"reduce_or", "sext", "trunc", "cast"} BY <1>2, <1>5
  <2> QED BY <1>1, <1>3, <2>1 DEF Viewable
<1>6. CASE o.sv = FALSE BY <1>1, <1>3, <1>6 DEF Viewable
<1> QED BY <1>1, <1>4, <1>5, <1>6

\* castTo gives an operand of the type, and adds no view.
LEMMA CastFacts ==
  ASSUME NEW c, Context(c), NEW o, Usable(c.types, o), NEW t
  PROVE  LET r == castTo(c, o, t)
         IN  Lowered(c, r) /\ TypeOf(r.c.types, r.o) = t /\ (r.o.sv => o.sv)
<1>1. CASE TypeOf(c.types, o) = t
  <2>1. castTo(c, o, t) = Val(c, o) BY <1>1 DEF castTo
  <2> QED BY <1>1, <2>1, ContinuesSelf, ValLowered
<1>2. CASE TypeOf(c.types, o) # t
  <2> DEFINE k == CastKind(TypeOf(c.types, o), t, o.sv)
             r == materializeOp(c, k, t, <<o>>, <<>>)
  <2>1. castTo(c, o, t) = r BY <1>2 DEF castTo
  <2>2. AllUsable(c.types, <<o>>) /\ Viewable(k, <<o>>) BY CastViewable
  <2> HIDE DEF k
  <2>3. PlainLowered(c, r) /\ TypeOf(r.c.types, r.o) = t BY <2>2, OpFacts
  <2> HIDE DEF r
  <2> QED BY <2>1, <2>3 DEF PlainLowered
<1> QED BY <1>1, <1>2

\* Operands of one type.
Cast(c, all, args, n, t) ==
  /\ all = [c |-> all.c, args |-> all.args]
  /\ Continues(c, all.c) /\ AllUsable(all.c.types, all.args) /\ Len(all.args) = n
  /\ \A i \in 1..n : TypeOf(all.c.types, all.args[i]) = t /\ (all.args[i].sv => args[i].sv)

\* One operand more.
LEMMA CastNextFacts ==
  ASSUME NEW c, Context(c), NEW args, AllUsable(c.types, args), NEW t,
         NEW n \in Nat, n + 1 <= Len(args), NEW all, Cast(c, all, args, n, t),
         NEW part, part = [o |-> args[n + 1], t |-> t]
  PROVE  Cast(c, CastNext(all, part), args, n + 1, t)
<1> DEFINE o == args[n + 1]
           r == castTo(all.c, o, t)
           more == Append(all.args, r.o)
<1>1. CastNext(all, part) = [c |-> r.c, args |-> more] BY DEF CastNext, WithArg
<1>2. Len(args) \in Nat /\ n + 1 \in 1..Len(args) BY SeqFacts DEF AllUsable
<1>3. Usable(c.types, o) BY <1>2 DEF AllUsable
<1>4. Context(all.c) /\ Usable(all.c.types, o) BY <1>3, UsableGrows DEF Cast, Continues
<1> HIDE DEF o
<1>5. Lowered(all.c, r) /\ TypeOf(r.c.types, r.o) = t /\ (r.o.sv => o.sv) BY <1>4, CastFacts
<1> HIDE DEF r
<1>6. Continues(all.c, r.c) /\ Usable(r.c.types, r.o) BY <1>5 DEF Lowered
<1>7. Continues(c, r.c) BY <1>6, ContinuesTrans DEF Cast
<1>8. AllUsable(r.c.types, all.args) /\ Len(all.args) = n /\ IsSeq(all.args)
  BY <1>6, AllUsableGrows DEF Cast, Continues, AllUsable
<1>9. /\ IsSeq(more) /\ Len(more) = n + 1 /\ more[n + 1] = r.o
      /\ \A i \in 1..n : more[i] = all.args[i]
  BY <1>8, AppendFacts
<1> HIDE DEF more
<1>10. ASSUME NEW i \in 1..(n + 1)
       PROVE  /\ Usable(r.c.types, more[i])
              /\ TypeOf(r.c.types, more[i]) = t /\ (more[i].sv => args[i].sv)
  <2>1. CASE i \in 1..n
    <3>1. more[i] = all.args[i] /\ Usable(all.c.types, all.args[i]) BY <1>8, <1>9, <2>1 DEF Cast, AllUsable
    <3>2. TypeOf(all.c.types, all.args[i]) = t /\ (all.args[i].sv => args[i].sv) BY <2>1 DEF Cast
    <3>3. Usable(r.c.types, all.args[i]) /\ TypeOf(r.c.types, all.args[i]) = t
      BY <1>6, <3>1, <3>2, UsableGrows DEF Continues
    <3> QED BY <3>1, <3>2, <3>3
  <2>2. CASE i = n + 1 BY <1>5, <1>6, <1>9, <2>2 DEF o
  <2> QED BY <2>1, <2>2
<1> QED BY <1>1, <1>7, <1>9, <1>10 DEF Cast, AllUsable

\* CastArgs casts every operand.
LEMMA CastArgsFacts ==
  ASSUME NEW c, Context(c), NEW args, AllUsable(c.types, args), NEW t
  PROVE  Cast(c, CastArgs(c, args, t), args, Len(args), t)
<1> DEFINE seq == [i \in DOMAIN args |-> [o |-> args[i], t |-> t]]
           base == [c |-> c, args |-> <<>>]
           n == Len(args)
<1>1. n \in Nat /\ DOMAIN args = 1..n BY SeqFacts DEF AllUsable
<1>2. DOMAIN seq = 1..n /\ \A i \in 1..n : seq[i] = [o |-> args[i], t |-> t] BY <1>1
<1>3. CastArgs(c, args, t) = FoldLeft(CastNext, base, seq) BY DEF CastArgs
<1>4. Cast(c, base, args, 0, t)
  <2>1. IsSeq(<<>>) /\ Len(<<>>) = 0 BY EmptyFacts
  <2>2. 1..0 = {} OBVIOUS
  <2> QED BY <2>1, <2>2, ContinuesSelf DEF Cast, AllUsable
<1> HIDE DEF seq, base, n
<1>5. PICK it : CastSteps!Steps(it, base, seq, n) /\ FoldLeft(CastNext, base, seq) = it[n]
  BY <1>1, <1>2, CastFold
<1>6. it[0] = base /\ \A k \in 1..n : it[k] = CastNext(it[k - 1], seq[k])
  BY <1>5 DEF CastSteps!Steps
<1> DEFINE T == {k \in Nat : k <= n => Cast(c, it[k], args, k, t)}
<1>7. 0 \in T BY <1>4, <1>6
<1>8. ASSUME NEW k \in Nat, k \in T PROVE k + 1 \in T
  <2> SUFFICES ASSUME k + 1 <= n PROVE Cast(c, it[k + 1], args, k + 1, t) OBVIOUS
  <2>1. Cast(c, it[k], args, k, t) /\ k + 1 \in 1..n /\ (k + 1) - 1 = k BY <1>1, <1>8
  <2>2. it[k + 1] = CastNext(it[k], seq[k + 1]) BY <1>6, <2>1
  <2>3. seq[k + 1] = [o |-> args[k + 1], t |-> t] BY <1>2, <2>1
  <2> QED BY <2>1, <2>2, <2>3, CastNextFacts DEF n
<1> HIDE DEF T
<1>9. n \in T BY <1>1, <1>7, <1>8, InductiveSet
<1>10. Cast(c, it[n], args, n, t) BY <1>1, <1>9 DEF T
<1> QED BY <1>3, <1>5, <1>10 DEF n

-----------------------------------------------------------------------------
(* Operations of one or two operands without a view *)

\* An operation on one operand without a view.
LEMMA UnaryOn ==
  ASSUME NEW c, NEW d, Continues(c, d), NEW a, Usable(d.types, a), ~a.sv, NEW op, NEW t, NEW n
  PROVE  PlainLowered(c, materializeOp(d, op, t, <<a>>, n))
<1>1. AllUsable(d.types, <<a>>) /\ Viewable(op, <<a>>) BY OneOperand, PlainViewable
<1>2. PlainLowered(d, materializeOp(d, op, t, <<a>>, n)) BY <1>1, OpFacts DEF Continues
<1> QED BY <1>2, LoweredTrans DEF PlainLowered

\* An operation on two operands without views.
LEMMA BinaryOn ==
  ASSUME NEW c, NEW d, Continues(c, d), NEW a, Usable(d.types, a), ~a.sv,
         NEW b, Usable(d.types, b), ~b.sv, NEW op, NEW t, NEW n
  PROVE  PlainLowered(c, materializeOp(d, op, t, <<a, b>>, n))
<1>1. AllUsable(d.types, <<a, b>>) /\ Viewable(op, <<a, b>>) BY TwoOperands, PlainViewable
<1>2. PlainLowered(d, materializeOp(d, op, t, <<a, b>>, n)) BY <1>1, OpFacts DEF Continues
<1> QED BY <1>2, LoweredTrans DEF PlainLowered

\* An operation on operands that were cast.
LEMMA OpOnFacts ==
  ASSUME NEW c, NEW all, Continues(c, all.c), AllUsable(all.c.types, all.args),
         NEW op, Viewable(op, all.args), NEW t, NEW n
  PROVE  PlainLowered(c, OpOn(all, op, t, n))
<1>1. PlainLowered(all.c, materializeOp(all.c, op, t, all.args, n)) BY OpFacts DEF Continues
<1> QED BY <1>1, LoweredTrans DEF PlainLowered, OpOn

\* Casts bring in no view.
LEMMA CastPlain ==
  ASSUME NEW c, NEW all, NEW args, NEW t, Cast(c, all, args, Len(args), t), Plain(args)
  PROVE  Plain(all.args)
BY DEF Cast, Plain

-----------------------------------------------------------------------------
(* Division by a constant *)

\* makeShiftRight.
LEMMA ShiftRightFacts ==
  ASSUME NEW c, NEW r, PlainLowered(c, r), NEW n
  PROVE  PlainLowered(c, makeShiftRight(r, n))
<1>1. CASE n <= 0 BY <1>1 DEF makeShiftRight
<1>2. CASE ~(n <= 0)
  <2> DEFINE amount == Const(n, Word(16))
             t == TypeOf(r.c.types, r.o)
  <2>1. makeShiftRight(r, n) = materializeOp(r.c, "lshr", t, <<r.o, amount>>, <<>>)
    BY <1>2 DEF makeShiftRight
  <2>2. Usable(r.c.types, amount) /\ amount.sv = FALSE BY ConstFacts
  <2> HIDE DEF amount, t
  <2> QED BY <2>1, <2>2, BinaryOn DEF PlainLowered, Lowered
<1> QED BY <1>1, <1>2

\* makeSlice.
LEMMA SliceFacts ==
  ASSUME NEW c, NEW r, PlainLowered(c, r), NEW hi, NEW lo
  PROVE  PlainLowered(c, makeSlice(r, hi, lo))
BY UnaryOn DEF PlainLowered, Lowered, makeSlice

\* An operand that is there, and one that is a constant.
LEMMA ValPlain ==
  ASSUME NEW c, Context(c), NEW o, Usable(c.types, o), ~o.sv
  PROVE  PlainLowered(c, Val(c, o))
BY ContinuesSelf, ValLowered DEF PlainLowered

\* The division by multiplication, with or without the correction by an addition.
LEMMA MagicFacts ==
  ASSUME NEW c, Context(c), NEW a, Usable(c.types, a), ~a.sv, NEW w, NEW magic
  PROVE  PlainLowered(c, DivByMagic(c, a, w, magic))
<1> DEFINE k == Const(magic.multiplier, Word(w))
           product == materializeOp(c, "mul", Word(2 * w), <<a, k>>, <<>>)
           high == makeSlice(product, 2 * w - 1, w)
<1>1. Usable(c.types, k) /\ k.sv = FALSE BY ConstFacts
<1> HIDE DEF k
<1>2. PlainLowered(c, product) BY <1>1, ContinuesSelf, BinaryOn
<1> HIDE DEF product
<1>3. PlainLowered(c, high) BY <1>2, SliceFacts
<1>4. DivByMagic(c, a, w, magic) = FromHigh(high, a, w, magic) BY DEF DivByMagic, high, product, k
<1> HIDE DEF high
<1>5. Continues(c, high.c) /\ Usable(high.c.types, high.o) /\ ~high.o.sv
  BY <1>3 DEF PlainLowered, Lowered
<1>6. Usable(high.c.types, a) BY <1>5, UsableGrows DEF Continues
<1>7. CASE ~magic.add BY <1>3, <1>4, <1>7, ShiftRightFacts DEF FromHigh
<1>8. CASE magic.add
  <2> DEFINE rest == materializeOp(high.c, "sub", Word(w), <<a, high.o>>, <<>>)
             half == makeShiftRight(rest, 1)
             sum == materializeOp(half.c, "add", Word(w + 1), <<half.o, high.o>>, <<>>)
  <2>1. FromHigh(high, a, w, magic) = makeShiftRight(sum, magic.shift - 1)
    BY <1>8 DEF FromHigh, Corrected
  <2>2. PlainLowered(high.c, rest) BY <1>5, <1>6, BinaryOn, ContinuesSelf DEF Continues
  <2> HIDE DEF rest
  <2>3. PlainLowered(high.c, half) BY <2>2, ShiftRightFacts
  <2> HIDE DEF half
  <2>4. Continues(high.c, half.c) /\ Usable(half.c.types, half.o) /\ ~half.o.sv
    BY <2>3 DEF PlainLowered, Lowered
  <2>5. Usable(half.c.types, high.o) BY <1>5, <2>4, UsableGrows DEF Continues
  <2>6. Continues(c, half.c) BY <1>5, <2>4, ContinuesTrans
  <2>7. PlainLowered(c, sum) BY <1>5, <2>4, <2>5, <2>6, BinaryOn
  <2> HIDE DEF sum
  <2> QED BY <1>4, <2>1, <2>7, ShiftRightFacts
<1> QED BY <1>7, <1>8

\* lowerUnsignedDivConst, in each of its cases.
LEMMA DivFacts ==
  ASSUME NEW c, Context(c), NEW a, Usable(c.types, a), ~a.sv, NEW d, NEW w
  PROVE  PlainLowered(c, lowerUnsignedDivConst(c, a, d, w))
<1> DEFINE A1 == d >= 2^w
           A2 == d = 1
           A3 == d \in 2..(2^w - 1) /\ isPowerOfTwo(d, w)
           zero == Const(0, Word(w))
           slice == makeSlice(Val(c, a), w - 1, log2PowerOfTwo(d, w))
           magic == DivByMagic(c, a, w, computeUnsignedMagic(d, w))
<1>1. lowerUnsignedDivConst(c, a, d, w) =
        CASE A1 -> Val(c, zero) [] A2 -> Val(c, a) [] A3 -> slice [] OTHER -> magic
  BY DEF lowerUnsignedDivConst
<1>2. Usable(c.types, zero) /\ zero.sv = FALSE BY ConstFacts
<1>3. PlainLowered(c, magic) BY MagicFacts
<1>4. PlainLowered(c, Val(c, a)) BY ValPlain
<1>5. PlainLowered(c, slice) BY <1>4, SliceFacts
<1> HIDE DEF A1, A2, A3, zero, slice, magic
<1>6. PlainLowered(c, Val(c, zero)) BY <1>2, ValPlain
<1> QED BY <1>1, <1>3, <1>4, <1>5, <1>6

\* A cast of a value without a view.
LEMMA PlainCast ==
  ASSUME NEW c, NEW r, PlainLowered(c, r), NEW t
  PROVE  PlainLowered(c, castTo(r.c, r.o, t))
<1>1. Continues(c, r.c) /\ Usable(r.c.types, r.o) /\ ~r.o.sv BY DEF PlainLowered, Lowered
<1> DEFINE s == castTo(r.c, r.o, t)
<1>2. Lowered(r.c, s) /\ (s.o.sv => r.o.sv) BY <1>1, CastFacts DEF Continues
<1> HIDE DEF s
<1>3. PlainLowered(c, s) BY <1>1, <1>2, LoweredTrans DEF PlainLowered
<1> QED BY <1>3 DEF s

\* A remainder from a quotient.
LEMMA RemainderFacts ==
  ASSUME NEW c, NEW quotient, PlainLowered(c, quotient), NEW a, Usable(c.types, a), ~a.sv,
         NEW d, NEW w
  PROVE  PlainLowered(c, Remainder(quotient, a, d, w))
<1> DEFINE k == Const(d, Word(w))
           product == materializeOp(quotient.c, "mul", Word(2 * w), <<quotient.o, k>>, <<>>)
           low == castTo(product.c, product.o, Word(w))
<1>1. Remainder(quotient, a, d, w) = materializeOp(low.c, "sub", Word(w), <<a, low.o>>, <<>>)
  BY DEF Remainder, Minus, Low
<1>2. Usable(quotient.c.types, k) /\ k.sv = FALSE BY ConstFacts
<1> HIDE DEF k
<1>3. PlainLowered(c, product) BY <1>2, BinaryOn DEF PlainLowered, Lowered
<1> HIDE DEF product
<1>4. PlainLowered(c, low) BY <1>3, PlainCast
<1> HIDE DEF low
<1>5. Continues(c, low.c) /\ Usable(low.c.types, low.o) /\ ~low.o.sv BY <1>4 DEF PlainLowered, Lowered
<1>6. Usable(low.c.types, a) BY <1>5, UsableGrows DEF Continues
<1> QED BY <1>1, <1>5, <1>6, BinaryOn

\* lowerUnsignedModConst, in each of its cases.
LEMMA ModFacts ==
  ASSUME NEW c, Context(c), NEW a, Usable(c.types, a), ~a.sv, NEW d, NEW w
  PROVE  PlainLowered(c, lowerUnsignedModConst(c, a, d, w))
<1> DEFINE A1 == d >= 2^w
           A2 == d = 1
           A3 == d \in 2..(2^w - 1) /\ isPowerOfTwo(d, w)
           zero == Const(0, Word(w))
           slice == makeSlice(Val(c, a), log2PowerOfTwo(d, w) - 1, 0)
           div == lowerUnsignedDivConst(c, a, d, w)
           low == castTo(div.c, div.o, Word(w))
           rest == Remainder(low, a, d, w)
<1>1. lowerUnsignedModConst(c, a, d, w) =
        CASE A1 -> Val(c, a) [] A2 -> Val(c, zero) [] A3 -> slice [] OTHER -> rest
  BY DEF lowerUnsignedModConst, Low
<1>2. Usable(c.types, zero) /\ zero.sv = FALSE BY ConstFacts
<1>3. PlainLowered(c, div) BY DivFacts
<1>4. PlainLowered(c, Val(c, a)) BY ValPlain
<1>5. PlainLowered(c, slice) BY <1>4, SliceFacts
<1> HIDE DEF A1, A2, A3, zero, slice, div
<1>6. PlainLowered(c, Val(c, zero)) BY <1>2, ValPlain
<1>7. PlainLowered(c, low) BY <1>3, PlainCast
<1> HIDE DEF low
<1>8. PlainLowered(c, rest) BY <1>7, RemainderFacts
<1> HIDE DEF rest
<1> QED BY <1>1, <1>4, <1>5, <1>6, <1>8

-----------------------------------------------------------------------------
(* Operands taken from a list and put in front of one *)

\* The operands after the first.
LEMMA TailOperands ==
  ASSUME NEW ts, NEW args, AllUsable(ts, args), args # <<>>
  PROVE  /\ AllUsable(ts, Tail(args)) /\ Len(Tail(args)) = Len(args) - 1
         /\ \A i \in 1..Len(Tail(args)) : Tail(args)[i] = args[i + 1] /\ i + 1 \in 1..Len(args)
         /\ Usable(ts, args[1]) /\ 1 \in 1..Len(args)
<1>1. /\ IsSeq(Tail(args)) /\ Len(args) \in Nat \ {0} /\ Len(Tail(args)) = Len(args) - 1
      /\ \A i \in 1..(Len(args) - 1) : Tail(args)[i] = args[i + 1]
  BY TailFacts DEF AllUsable
<1>2. \A i \in 1..(Len(args) - 1) : i + 1 \in 1..Len(args) BY <1>1
<1>3. 1 \in 1..Len(args) BY <1>1
<1> QED BY <1>1, <1>2, <1>3 DEF AllUsable

\* An operand before others.
LEMMA ConsOperands ==
  ASSUME NEW ts, NEW o, Usable(ts, o), NEW args, AllUsable(ts, args)
  PROVE  LET all == <<o>> \o args
         IN  /\ AllUsable(ts, all) /\ Len(all) = Len(args) + 1 /\ all[1] = o
             /\ \A i \in 1..Len(args) : all[i + 1] = args[i]
             /\ \A i \in 2..Len(all) : i - 1 \in 1..Len(args) /\ all[i] = args[i - 1]
<1> DEFINE all == <<o>> \o args
<1>1. IsSeq(<<o>>) /\ Len(<<o>>) = 1 /\ <<o>>[1] = o BY SingleFacts
<1>2. /\ IsSeq(all) /\ Len(all) = 1 + Len(args)
      /\ \A i \in 1..1 : all[i] = <<o>>[i]
      /\ \A i \in 1..Len(args) : all[1 + i] = args[i]
  BY <1>1, ConcatFacts DEF AllUsable
<1> HIDE DEF all
<1>3. Len(args) \in Nat BY SeqFacts DEF AllUsable
<1>4. all[1] = o BY <1>1, <1>2
<1>5. Len(all) = Len(args) + 1 /\ \A i \in 1..Len(args) : all[i + 1] = args[i]
  <2>1. \A i \in 1..Len(args) : i + 1 = 1 + i BY <1>3
  <2> QED BY <1>2, <1>3, <2>1
<1>6. ASSUME NEW i \in 2..Len(all) PROVE i - 1 \in 1..Len(args) /\ all[i] = args[i - 1]
  <2>1. i - 1 \in 1..Len(args) /\ 1 + (i - 1) = i BY <1>3, <1>5
  <2> QED BY <1>2, <2>1
<1>7. ASSUME NEW i \in 1..Len(all) PROVE Usable(ts, all[i])
  <2>1. i = 1 \/ i \in 2..Len(all) BY <1>3, <1>5
  <2> QED BY <1>4, <1>6, <2>1 DEF AllUsable
<1> QED BY <1>2, <1>4, <1>5, <1>6, <1>7 DEF AllUsable, all

\* An operand before others, none with a view.
LEMMA ConsPlain ==
  ASSUME NEW ts, NEW o, Usable(ts, o), NEW args, AllUsable(ts, args), ~o.sv, Plain(args)
  PROVE  Plain(<<o>> \o args)
<1> DEFINE all == <<o>> \o args
<1>1. /\ Len(all) = Len(args) + 1 /\ all[1] = o
      /\ \A i \in 2..Len(all) : i - 1 \in 1..Len(args) /\ all[i] = args[i - 1]
  BY ConsOperands
<1> HIDE DEF all
<1>2. Len(args) \in Nat BY SeqFacts DEF AllUsable
<1>3. ASSUME NEW i \in 1..Len(all) PROVE ~all[i].sv
  <2>1. i = 1 \/ i \in 2..Len(all) BY <1>1, <1>2
  <2> QED BY <1>1, <2>1 DEF Plain
<1> QED BY <1>3 DEF Plain, all

-----------------------------------------------------------------------------
(* Operations *)

\* normalizeUnary.
LEMMA UnaryFacts ==
  ASSUME NEW c, Context(c), NEW args, AllUsable(c.types, args), Plain(args), Len(args) = 1,
         NEW op \in {"lnot", "bitnot", "neg", "plus"}, NEW t
  PROVE  Lowered(c, normalizeUnary(c, op, args, t))
<1>1. ASSUME NEW u, NEW n PROVE PlainLowered(c, OpOn(CastArgs(c, args, u), op, u, n))
  <2> DEFINE all == CastArgs(c, args, u)
  <2>1. Cast(c, all, args, Len(args), u) BY CastArgsFacts
  <2> HIDE DEF all
  <2>2. Viewable(op, all.args) BY <2>1, CastPlain, PlainViewable
  <2>3. PlainLowered(c, OpOn(all, op, u, n)) BY <2>1, <2>2, OpOnFacts DEF Cast
  <2> QED BY <2>3 DEF all
<1>2. Usable(c.types, args[1]) BY DEF AllUsable
<1>3. CASE op = "lnot" BY <1>1, <1>3 DEF normalizeUnary, PlainLowered
<1>4. CASE op \in {"bitnot", "neg"} BY <1>1, <1>4 DEF normalizeUnary, PlainLowered
<1>5. CASE op = "plus" BY <1>2, <1>5, CastFacts DEF normalizeUnary
<1> QED BY <1>3, <1>4, <1>5

\* A right shift takes the sign of the operand that it reads; shl reads none.
LEMMA ShiftFacts ==
  ASSUME NEW c, Context(c), NEW a, Usable(c.types, a), NEW b, Usable(c.types, b), ~b.sv,
         NEW op \in {"shl", "shr"}, op = "shl" => ~a.sv, NEW t
  PROVE  Lowered(c, Shifted(castTo(c, a, t), op, b, t))
<1> DEFINE r == castTo(c, a, t)
<1>1. Lowered(c, r) /\ (r.o.sv => a.sv) BY CastFacts
<1> HIDE DEF r
<1>2. Continues(c, r.c) /\ Usable(r.c.types, r.o) /\ Usable(r.c.types, b)
  BY <1>1, UsableGrows DEF Lowered, Continues
<1> DEFINE k == IF op = "shl" THEN "shl" ELSE IF r.o.sv THEN "ashr" ELSE "lshr"
           s == materializeOp(r.c, k, t, <<r.o, b>>, <<>>)
<1>3. Shifted(r, op, b, t) = s BY DEF Shifted
<1>4. /\ AllUsable(r.c.types, <<r.o, b>>) /\ Len(<<r.o, b>>) = 2
      /\ <<r.o, b>>[1] = r.o /\ <<r.o, b>>[2] = b
  BY <1>2, TwoOperands
<1>5. r.o.sv => k = "ashr" BY <1>1
<1> HIDE DEF k
<1>6. Viewable(k, <<r.o, b>>)
  <2>1. \A i \in 1..2 : i = 1 \/ i = 2 OBVIOUS
  <2> QED BY <1>4, <1>5, <2>1 DEF Viewable
<1>7. Lowered(r.c, s) BY <1>2, <1>4, <1>6, OpFacts DEF Continues, PlainLowered
<1> HIDE DEF s
<1> QED BY <1>2, <1>3, <1>7, LoweredTrans DEF r

\* The views that are let through.
Accepted(op, args) ==
  \A i \in 1..Len(args) : args[i].sv =>
    op \in {"mul", "cast"} \cup Orders \/ (op \in {"sext", "shr"} /\ i = 1)

\* normalizeBinary, for operands whose views rejectSignedView lets pass.
LEMMA BinaryFacts ==
  ASSUME NEW c, Context(c), NEW args, AllUsable(c.types, args), Len(args) = 2,
         NEW op, Accepted(op, args), NEW t,
         op \in {"div", "mod", "mul", "shl", "shr"} \cup Arithmetic \cup Bitwise \cup Logical
                  \cup Equality \cup Orders
  PROVE  Lowered(c, normalizeBinary(c, op, args, t))
<1>1. Usable(c.types, args[1]) /\ Usable(c.types, args[2]) /\ 1 \in 1..2 /\ 2 \in 1..2 BY DEF AllUsable
<1>2. ASSUME op \notin {"mul", "cast", "sext", "shr"} \cup Orders PROVE Plain(args)
  BY <1>2 DEF Accepted, Plain
<1>3. ASSUME NEW u, NEW v, op \in Orders \/ Plain(args)
      PROVE  Lowered(c, OpOn(CastArgs(c, args, u), op, v, <<>>))
  <2> DEFINE all == CastArgs(c, args, u)
  <2>1. Cast(c, all, args, Len(args), u) BY CastArgsFacts
  <2> HIDE DEF all
  <2>2. Viewable(op, all.args)
    <3>1. CASE Plain(args) BY <2>1, <3>1, CastPlain, PlainViewable
    <3>2. CASE op \in Orders BY <3>2 DEF Viewable, Orders
    <3> QED BY <1>3, <3>1, <3>2
  <2>3. PlainLowered(c, OpOn(all, op, v, <<>>)) BY <2>1, <2>2, OpOnFacts DEF Cast
  <2> QED BY <2>3 DEF all, PlainLowered
<1> DEFINE max == Word(Max(Widths(c.types, args)))
           wide == Word(Max(Widths(c.types, args) \cup {t.w}))
           wa == TypeOf(c.types, args[1]).w
           wb == TypeOf(c.types, args[2]).w
           both == Word(wa + wb)
           div == lowerUnsignedDivConst(c, args[1], args[2].v, wa)
           mod == lowerUnsignedModConst(c, args[1], args[2].v, wa)
<1>4. normalizeBinary(c, op, args, t) =
        CASE op = "div" -> div
          [] op = "mod" -> mod
          [] op \in Arithmetic -> OpOn(CastArgs(c, args, max), op, max, <<>>)
          [] op = "mul" -> materializeOp(c, op, both, args, <<>>)
          [] op \in Bitwise -> OpOn(CastArgs(c, args, wide), op, wide, <<>>)
          [] op \in Logical -> OpOn(CastArgs(c, args, Bool), op, Bool, <<>>)
          [] op \in {"shl", "shr"} -> Shifted(castTo(c, args[1], t), op, args[2], t)
          [] op \in Equality \cup Orders -> OpOn(CastArgs(c, args, max), op, Bool, <<>>)
  BY DEF normalizeBinary
<1>5. op \in {"div", "mod"} => Lowered(c, div) /\ Lowered(c, mod)
  <2> SUFFICES ASSUME op \in {"div", "mod"} PROVE Lowered(c, div) /\ Lowered(c, mod) OBVIOUS
  <2>1. op \notin {"mul", "cast", "sext", "shr"} \cup Orders BY DEF Orders
  <2>2. ~args[1].sv BY <1>1, <1>2, <2>1 DEF Plain
  <2> QED BY <1>1, <2>2, DivFacts, ModFacts DEF PlainLowered
<1>6. op = "mul" => Lowered(c, materializeOp(c, op, both, args, <<>>))
  <2> SUFFICES ASSUME op = "mul" PROVE Lowered(c, materializeOp(c, op, both, args, <<>>)) OBVIOUS
  <2>1. Viewable(op, args) BY DEF Viewable
  <2> HIDE DEF both
  <2> QED BY <2>1, OpFacts DEF PlainLowered
<1>7. op \in {"shl", "shr"} => Lowered(c, Shifted(castTo(c, args[1], t), op, args[2], t))
  <2> SUFFICES ASSUME op \in {"shl", "shr"} PROVE Lowered(c, Shifted(castTo(c, args[1], t), op, args[2], t)) OBVIOUS
  <2>1. op \notin {"mul", "cast"} \cup Orders BY DEF Orders
  <2>2. ~args[2].sv /\ (op = "shl" => ~args[1].sv) BY <1>1, <2>1 DEF Accepted
  <2> QED BY <1>1, <2>2, ShiftFacts
<1> HIDE DEF max, wide, both, div, mod
<1>8. op \in Arithmetic => Lowered(c, OpOn(CastArgs(c, args, max), op, max, <<>>))
  BY <1>2, <1>3 DEF Arithmetic, Orders
<1>9. op \in Bitwise => Lowered(c, OpOn(CastArgs(c, args, wide), op, wide, <<>>))
  BY <1>2, <1>3 DEF Bitwise, Orders
<1>10. op \in Logical => Lowered(c, OpOn(CastArgs(c, args, Bool), op, Bool, <<>>))
  BY <1>2, <1>3 DEF Logical, Orders
<1>11. op \in Equality \cup Orders => Lowered(c, OpOn(CastArgs(c, args, max), op, Bool, <<>>))
  BY <1>2, <1>3 DEF Equality, Orders
<1>12. CASE op \in {"div", "mod"}
  <2>1. normalizeBinary(c, op, args, t) \in {div, mod}
    BY <1>4, <1>12 DEF Arithmetic, Bitwise, Logical, Equality, Orders
  <2> QED BY <1>5, <1>12, <2>1
<1>13. CASE op \in Arithmetic
  <2>1. normalizeBinary(c, op, args, t) = OpOn(CastArgs(c, args, max), op, max, <<>>)
    BY <1>4, <1>13 DEF Arithmetic, Bitwise, Logical, Equality, Orders
  <2> QED BY <1>8, <1>13, <2>1
<1>14. CASE op = "mul"
  <2>1. normalizeBinary(c, op, args, t) = materializeOp(c, op, both, args, <<>>)
    BY <1>4, <1>14 DEF Arithmetic, Bitwise, Logical, Equality, Orders
  <2> QED BY <1>6, <1>14, <2>1
<1>15. CASE op \in Bitwise
  <2>1. normalizeBinary(c, op, args, t) = OpOn(CastArgs(c, args, wide), op, wide, <<>>)
    BY <1>4, <1>15 DEF Arithmetic, Bitwise, Logical, Equality, Orders
  <2> QED BY <1>9, <1>15, <2>1
<1>16. CASE op \in Logical
  <2>1. normalizeBinary(c, op, args, t) = OpOn(CastArgs(c, args, Bool), op, Bool, <<>>)
    BY <1>4, <1>16 DEF Arithmetic, Bitwise, Logical, Equality, Orders
  <2> QED BY <1>10, <1>16, <2>1
<1>17. CASE op \in {"shl", "shr"}
  <2>1. normalizeBinary(c, op, args, t) = Shifted(castTo(c, args[1], t), op, args[2], t)
    BY <1>4, <1>17 DEF Arithmetic, Bitwise, Logical, Equality, Orders
  <2> QED BY <1>7, <1>17, <2>1
<1>18. CASE op \in Equality \cup Orders
  <2>1. normalizeBinary(c, op, args, t) = OpOn(CastArgs(c, args, max), op, Bool, <<>>)
    BY <1>4, <1>18 DEF Arithmetic, Bitwise, Logical, Equality, Orders
  <2> QED BY <1>11, <1>18, <2>1
<1> QED BY <1>12, <1>13, <1>14, <1>15, <1>16, <1>17, <1>18

\* normalizeMux.
LEMMA MuxFacts ==
  ASSUME NEW c, Context(c), NEW args, AllUsable(c.types, args), Plain(args), Len(args) = 3, NEW t
  PROVE  Lowered(c, normalizeMux(c, args, t))
<1> DEFINE cond == castToBool(c, args[1])
           rest == Tail(args)
           all == CastArgs(cond.c, rest, t)
<1>1. args # <<>> BY EmptyFacts
<1>2. /\ AllUsable(c.types, rest) /\ Usable(c.types, args[1]) /\ 1 \in 1..Len(args)
      /\ \A i \in 1..Len(rest) : rest[i] = args[i + 1] /\ i + 1 \in 1..Len(args)
  BY <1>1, TailOperands
<1>3. Plain(rest) /\ ~args[1].sv BY <1>2 DEF Plain
<1>4. normalizeMux(c, args, t) = MuxOn(cond.o, all, t) BY DEF normalizeMux
<1>5. Lowered(c, cond) /\ ~cond.o.sv BY <1>2, <1>3, CastFacts DEF castToBool
<1> HIDE DEF cond, rest
<1>6. Continues(c, cond.c) /\ Context(cond.c) /\ AllUsable(cond.c.types, rest) /\ Usable(cond.c.types, cond.o)
  BY <1>2, <1>5, AllUsableGrows DEF Lowered, Continues
<1>7. Cast(cond.c, all, rest, Len(rest), t) BY <1>6, CastArgsFacts
<1> HIDE DEF all
<1>8. Plain(all.args) BY <1>3, <1>7, CastPlain
<1>9. Continues(cond.c, all.c) /\ AllUsable(all.c.types, all.args) BY <1>7 DEF Cast
<1>10. Usable(all.c.types, cond.o) BY <1>6, <1>9, UsableGrows DEF Continues
<1>11. AllUsable(all.c.types, <<cond.o>> \o all.args) BY <1>9, <1>10, ConsOperands
<1>12. Viewable("mux", <<cond.o>> \o all.args) BY <1>5, <1>8, <1>9, <1>10, ConsPlain, PlainViewable
<1>13. Lowered(all.c, MuxOn(cond.o, all, t)) BY <1>9, <1>11, <1>12, OpFacts DEF Continues, PlainLowered, MuxOn
<1> QED BY <1>4, <1>6, <1>9, <1>13, ContinuesTrans, LoweredTrans

-----------------------------------------------------------------------------
(* Hardware operations, and all of them *)

\* The last of some operands is cast.
LEMMA CastLastFacts ==
  ASSUME NEW c, Context(c), NEW args, AllUsable(c.types, args), Plain(args), args # <<>>, NEW t
  PROVE  LET all == CastLast(c, args, t)
         IN  Continues(c, all.c) /\ AllUsable(all.c.types, all.args) /\ Plain(all.args)
<1> DEFINE o == Last(args)
           r == castTo(c, o, t)
           front == Front(args)
           more == Append(front, r.o)
<1>1. args \in Seq(ToSet(args)) BY DEF AllUsable, IsSeq
<1>2. front \in Seq(ToSet(args)) /\ o \in ToSet(args) BY <1>1, FrontFacts
<1>3. ToSet(args) = {args[i] : i \in 1..Len(args)} BY SeqFacts DEF AllUsable
<1>4. \A a \in ToSet(args) : Usable(c.types, a) /\ ~a.sv BY <1>3 DEF AllUsable, Plain
<1>5. CastLast(c, args, t) = [c |-> r.c, args |-> more] BY DEF CastLast, WithArg
<1>6. Usable(c.types, o) /\ ~o.sv BY <1>2, <1>4
<1> HIDE DEF o, front
<1>7. Lowered(c, r) /\ ~r.o.sv BY <1>6, CastFacts
<1> HIDE DEF r
<1>8. IsSeq(front) /\ ToSet(front) \subseteq ToSet(args) BY <1>2, SeqOver
<1>9. /\ IsSeq(more) /\ ToSet(more) = ToSet(front) \cup {r.o} BY <1>8, AppendFacts
<1>10. ToSet(more) = {more[i] : i \in 1..Len(more)} BY <1>9, SeqFacts
<1> HIDE DEF more
<1>11. Continues(c, r.c) /\ Usable(r.c.types, r.o) BY <1>7 DEF Lowered
<1>12. \A a \in ToSet(more) : Usable(r.c.types, a) /\ ~a.sv
  BY <1>4, <1>7, <1>8, <1>9, <1>11, UsableGrows DEF Continues
<1>13. AllUsable(r.c.types, more) /\ Plain(more) BY <1>9, <1>10, <1>12 DEF AllUsable, Plain
<1> QED BY <1>5, <1>11, <1>13

HardwareOnly(op) ==
  op \notin {"lnot", "bitnot", "neg", "plus", "div", "mod", "mul", "shl", "shr", "mux", "cast"}
              \cup Arithmetic \cup Bitwise \cup Logical \cup Equality \cup Orders

\* normalizeHardware: only sext is left with a view, that of its operand.
LEMMA HardwareFacts ==
  ASSUME NEW c, Context(c), NEW args, AllUsable(c.types, args),
         NEW op, HardwareOnly(op), Accepted(op, args), op = "concat" \/ args # <<>>,
         NEW n, NEW t
  PROVE  Lowered(c, normalizeHardware(c, op, args, n, t))
<1> DEFINE all == HardwareArgs(c, op, args, n)
           raw == hardwareRawType(c.types, op, args, n, t)
<1>1. normalizeHardware(c, op, args, n, t) = OpOn(all, op, raw, n) BY DEF normalizeHardware
<1>2. op # "sext" => Plain(args) BY DEF HardwareOnly, Accepted, Plain
<1>3. Continues(c, all.c) /\ AllUsable(all.c.types, all.args) /\ Viewable(op, all.args)
  <2>1. CASE op = "sext"
    <3> DEFINE a == Signed(args[1])
    <3>1. all = [c |-> c, args |-> <<a>>] BY <2>1 DEF HardwareArgs
    <3>2. Usable(c.types, args[1]) BY <2>1, TailOperands
    <3>3. Usable(c.types, a) BY <3>2, ViewFacts
    <3> HIDE DEF a
    <3>4. AllUsable(c.types, <<a>>) /\ Len(<<a>>) = 1 BY <3>3, OneOperand
    <3>5. \A i \in 1..1 : i = 1 OBVIOUS
    <3>6. Viewable(op, <<a>>) BY <2>1, <3>4, <3>5 DEF Viewable
    <3> QED BY <3>1, <3>4, <3>6, ContinuesSelf
  <2>2. CASE op \in {"write_slice", "write_bit", "dyn_write_bit"}
    <3>1. PICK u : all = CastLast(c, args, u)
      <4>1. CASE op = "write_slice" BY <4>1 DEF HardwareArgs
      <4>2. CASE op \in {"write_bit", "dyn_write_bit"} BY <4>2 DEF HardwareArgs
      <4> QED BY <2>2, <4>1, <4>2
    <3>2. Plain(args) /\ args # <<>> BY <1>2, <2>2
    <3> HIDE DEF all
    <3>3. Continues(c, all.c) /\ AllUsable(all.c.types, all.args) /\ Plain(all.args)
      BY <3>1, <3>2, CastLastFacts
    <3> QED BY <3>3, PlainViewable
  <2>3. CASE op \notin {"sext", "write_slice", "write_bit", "dyn_write_bit"}
    <3>1. all = [c |-> c, args |-> args] BY <2>3 DEF HardwareArgs
    <3> HIDE DEF all
    <3> QED BY <1>2, <2>3, <3>1, ContinuesSelf, PlainViewable
  <2> QED BY <2>1, <2>2, <2>3
<1> HIDE DEF all, raw
<1>4. PlainLowered(c, OpOn(all, op, raw, n)) BY <1>3, OpOnFacts
<1> QED BY <1>1, <1>4 DEF PlainLowered

\* As many operands as the operation needs.
Enough(op, args) == op = "concat" \/ Len(args) = Arity(op)

\* normalizeOperation, for every operation with the operands it needs.
LEMMA OperationFacts ==
  ASSUME NEW c, Context(c), NEW args, AllUsable(c.types, args),
         NEW op, Accepted(op, args), Enough(op, args), NEW n, NEW t
  PROVE  Lowered(c, normalizeOperation(c, op, args, n, t))
<1> DEFINE binary == {"div", "mod", "mul", "shl", "shr"} \cup Arithmetic \cup Bitwise \cup Logical
                       \cup Equality \cup Orders
           unary == {"lnot", "bitnot", "neg", "plus"}
<1>1. CASE op \in unary
  <2>1. normalizeOperation(c, op, args, n, t) = normalizeUnary(c, op, args, t)
    BY <1>1 DEF normalizeOperation, Arithmetic, Bitwise, Logical, Equality, Orders
  <2>2. Plain(args) BY <1>1 DEF Accepted, Plain, Orders
  <2>3. Len(args) = 1
    BY <1>1 DEF Enough, Arity, Arithmetic, Bitwise, Logical, Equality, Orders
  <2> QED BY <1>1, <2>1, <2>2, <2>3, UnaryFacts
<1>2. CASE op \in binary
  <2>1. normalizeOperation(c, op, args, n, t) = normalizeBinary(c, op, args, t)
    BY <1>2 DEF normalizeOperation, Arithmetic, Bitwise, Logical, Equality, Orders
  <2>2. Len(args) = 2
    BY <1>2 DEF Enough, Arity, Arithmetic, Bitwise, Logical, Equality, Orders
  <2> QED BY <1>2, <2>1, <2>2, BinaryFacts
<1>3. CASE op = "mux"
  <2>1. normalizeOperation(c, op, args, n, t) = normalizeMux(c, args, t)
    BY <1>3 DEF normalizeOperation, Arithmetic, Bitwise, Logical, Equality, Orders
  <2>2. Plain(args) BY <1>3 DEF Accepted, Plain, Orders
  <2>3. Len(args) = 3
    BY <1>3 DEF Enough, Arity, Arithmetic, Bitwise, Logical, Equality, Orders
  <2> QED BY <1>3, <2>1, <2>2, <2>3, MuxFacts
<1>4. CASE op = "cast"
  <2>1. normalizeOperation(c, op, args, n, t) = castTo(c, args[1], t)
    BY <1>4 DEF normalizeOperation, Arithmetic, Bitwise, Logical, Equality, Orders
  <2>2. Len(args) = 1
    BY <1>4 DEF Enough, Arity, Arithmetic, Bitwise, Logical, Equality, Orders
  <2>3. Usable(c.types, args[1]) BY <2>2 DEF AllUsable
  <2> QED BY <2>1, <2>3, CastFacts
<1>5. CASE op \notin unary \cup binary \cup {"mux", "cast"}
  <2>1. HardwareOnly(op) BY <1>5 DEF HardwareOnly
  <2>2. normalizeOperation(c, op, args, n, t) = normalizeHardware(c, op, args, n, t)
    BY <1>5 DEF normalizeOperation
  <2>3. op = "concat" \/ args # <<>>
    <3>1. Arity(op) \in {1, 2, 3}
      <4> DEFINE A3 == op \in {"mux", "add_carry", "dyn_write_slice", "dyn_write_bit"}
                 A2 == op \in {"div", "mod", "mul", "shl", "shr", "dyn_slice", "dyn_bit", "write_slice",
                               "write_bit"} \cup Arithmetic \cup Bitwise \cup Logical \cup Equality
                               \cup Orders
      <4>1. Arity(op) = CASE A3 -> 3 [] A2 -> 2 [] OTHER -> 1 BY DEF Arity
      <4> HIDE DEF A2, A3
      <4> QED BY <4>1
    <3> QED BY <3>1, EmptyFacts DEF Enough
  <2> QED BY <2>1, <2>2, <2>3, HardwareFacts
<1> QED BY <1>1, <1>2, <1>3, <1>4, <1>5

-----------------------------------------------------------------------------
(* Statements *)

\* A view that the statement does not need is dropped, or cast away.
LEMMA TargetFacts ==
  ASSUME NEW c, NEW r, Lowered(c, r), NEW x \in 1..Len(c.types)
  PROVE  Continues(c, emitCastToTarget(r, x))
<1>1. Continues(c, r.c) /\ Context(r.c) /\ Usable(r.c.types, r.o) BY DEF Lowered, Continues
<1>2. x \in 1..Len(r.c.types)
  <2>1. Len(c.types) \in Nat /\ Len(r.c.types) \in Nat /\ Len(c.types) <= Len(r.c.types)
    BY <1>1, SeqFacts DEF Continues, Grows
  <2> QED BY <2>1
<1>3. CASE TypeOf(r.c.types, r.o) = r.c.types[x]
  <2> DEFINE o == Unsigned(r.o)
             s == Copy(x, o)
  <2>1. Usable(r.c.types, o) /\ o.sv = FALSE /\ TypeOf(r.c.types, o) = r.c.types[x]
    BY <1>1, <1>3, ViewFacts
  <2>2. emitCastToTarget(r, x) = Emit(r.c, s) BY <1>3 DEF emitCastToTarget
  <2> HIDE DEF o
  <2>3. s = [k |-> "assign", op |-> "copy", to |-> <<x>>, args |-> <<o>>, n |-> <<>>, w |-> 0]
    BY DEF Copy, Do
  <2>4. AllUsable(r.c.types, <<o>>) /\ Len(<<o>>) = 1 /\ <<o>>[1] = o /\ Plain(<<o>>)
    BY <2>1, OneOperand
  <2> HIDE DEF s
  <2>5. StmtRight(r.c.types, s) BY <1>2, <2>1, <2>3, <2>4 DEF StmtRight, Plain
  <2>6. Continues(r.c, Emit(r.c, s)) BY <1>1, <2>5, EmitFacts
  <2> QED BY <1>1, <2>2, <2>6, ContinuesTrans
<1>4. CASE TypeOf(r.c.types, r.o) # r.c.types[x]
  <2> DEFINE t == r.c.types[x]
             k == CastKind(TypeOf(r.c.types, r.o), t, r.o.sv)
             d == createTemp(r.c, t)
  <2>1. emitCastToTarget(r, x) = OpInto(d, x, k, <<r.o>>, <<>>) BY <1>4 DEF emitCastToTarget
  <2>2. AllUsable(r.c.types, <<r.o>>) /\ Viewable(k, <<r.o>>) BY <1>1, CastViewable
  <2> HIDE DEF k
  <2>3. Continues(r.c, d) BY <1>1, TempFacts
  <2> HIDE DEF d
  <2>4. AllUsable(d.types, <<r.o>>) /\ Context(d) BY <2>2, <2>3, AllUsableGrows DEF Continues
  <2>5. x \in 1..Len(d.types)
    <3>1. Len(r.c.types) \in Nat /\ Len(d.types) \in Nat /\ Len(r.c.types) <= Len(d.types)
      BY <2>3, SeqFacts DEF Continues, Grows
    <3> QED BY <1>2, <3>1
  <2>6. Continues(d, OpInto(d, x, k, <<r.o>>, <<>>)) BY <2>2, <2>4, <2>5, OpIntoFacts
  <2> QED BY <1>1, <2>1, <2>3, <2>6, ContinuesTrans
<1> QED BY <1>3, <1>4

\* Operands of S7 over the symbols of a context.
NormalizedArgs(args) == [i \in DOMAIN args |-> normalizeOperand(args[i])]

\* An operand of S7.
LEMMA GivenOperand ==
  ASSUME NEW ts, IsSeq(ts), NEW o \in Operands(ts)
  PROVE  Usable(ts, o)
<1>1. DOMAIN ts = 1..Len(ts) BY SeqFacts
<1> QED BY <1>1 DEF Operands, Usable, LitShape, VarShape

\* The operands of a statement, normalised.
LEMMA GivenOperands ==
  ASSUME NEW ts, NEW more, Grows(ts, more), NEW args \in Seq(Operands(ts))
  PROVE  LET all == NormalizedArgs(args)
         IN  /\ AllUsable(more, all) /\ Len(all) = Len(args) /\ DOMAIN args = 1..Len(args)
             /\ \A i \in 1..Len(args) : all[i].sv = args[i].sv
<1> DEFINE all == NormalizedArgs(args)
<1>1. IsSeq(args) /\ ToSet(args) \subseteq Operands(ts) BY SeqOver
<1>2. /\ DOMAIN args = 1..Len(args) /\ Len(args) \in Nat
      /\ ToSet(args) = {args[i] : i \in 1..Len(args)}
  BY <1>1, SeqFacts
<1>3. \A i \in 1..Len(args) : Usable(more, args[i])
  <2> TAKE i \in 1..Len(args)
  <2>1. args[i] \in Operands(ts) BY <1>1, <1>2
  <2>2. Usable(ts, args[i]) BY <2>1, GivenOperand DEF Grows
  <2> QED BY <2>2, UsableGrows
<1>4. all = [i \in 1..Len(args) |-> normalizeOperand(args[i])] BY <1>2 DEF NormalizedArgs
<1>5. all = [i \in 1..Len(args) |-> all[i]] /\ \A i \in 1..Len(args) : all[i] = normalizeOperand(args[i])
  BY <1>4
<1> HIDE DEF all
<1>6. IsSeq(all) /\ Len(all) = Len(args) BY <1>2, <1>5, SeqIs
<1>7. \A i \in 1..Len(args) : Usable(more, all[i]) /\ all[i].sv = args[i].sv
  BY <1>3, <1>5, NormalizedOperand
<1> QED BY <1>2, <1>6, <1>7 DEF AllUsable, all

\* A list of operands behind two others.
LEMMA PairOperands ==
  ASSUME NEW ts, NEW a, Usable(ts, a), ~a.sv, NEW b, Usable(ts, b), ~b.sv,
         NEW args, AllUsable(ts, args), Plain(args)
  PROVE  AllUsable(ts, <<a, b>> \o args) /\ Plain(<<a, b>> \o args)
<1> DEFINE all == <<a, b>> \o args
<1>1. /\ AllUsable(ts, <<a, b>>) /\ Len(<<a, b>>) = 2 /\ Plain(<<a, b>>) BY TwoOperands
<1>2. /\ IsSeq(all) /\ Len(all) = 2 + Len(args)
      /\ \A i \in 1..2 : all[i] = <<a, b>>[i]
      /\ \A i \in 1..Len(args) : all[2 + i] = args[i]
  BY <1>1, ConcatFacts DEF AllUsable
<1> HIDE DEF all
<1>3. Len(args) \in Nat BY SeqFacts DEF AllUsable
<1>4. ASSUME NEW i \in 1..Len(all) PROVE Usable(ts, all[i]) /\ ~all[i].sv
  <2>1. CASE i \in 1..2 BY <1>1, <1>2, <2>1 DEF AllUsable, Plain
  <2>2. CASE i \notin 1..2
    <3>1. i - 2 \in 1..Len(args) /\ 2 + (i - 2) = i BY <1>2, <1>3, <2>2
    <3>2. all[i] = args[i - 2] BY <1>2, <3>1
    <3> QED BY <3>1, <3>2 DEF AllUsable, Plain
  <2> QED BY <2>1, <2>2
<1> QED BY <1>2, <1>4 DEF AllUsable, Plain, all

\* A statement that S8 does not refuse, over the symbols of ts.
Proper(ts, more, s) ==
  /\ IsSeq(ts) /\ s \in Statements(ts) /\ EnoughOperands(s) /\ (s.k \in {"lookup", "write"} => s.op = s.k)
  /\ ~rejectSignedView(more, s)

\* normalizeLookup gives every element the type of the target.
LEMMA LookupFacts ==
  ASSUME NEW ts, NEW c, Context(c), Grows(ts, c.types), NEW s, Proper(ts, c.types, s), s.k = "lookup"
  PROVE  Continues(c, normalizeLookup(c, s, NormalizedArgs(s.args)))
<1> DEFINE args == NormalizedArgs(s.args)
           rest == Tail(args)
           t == c.types[s.to[1]]
           all == CastArgs(c, rest, t)
           new == <<args[1]>> \o all.args
           u == [s EXCEPT !.args = new]
<1>1. s = [k |-> s.k, op |-> s.op, to |-> s.to, args |-> s.args, n |-> s.n, w |-> s.w]
      /\ s.args \in Seq(Operands(ts)) /\ s.to \in Seq(DOMAIN ts) \ {<<>>} /\ s.op = "lookup"
  BY DEF Proper, Statements
<1>2. /\ AllUsable(c.types, args) /\ Len(args) = Len(s.args) /\ DOMAIN s.args = 1..Len(s.args)
      /\ \A i \in 1..Len(s.args) : args[i].sv = s.args[i].sv
  BY <1>1, GivenOperands
<1>3. s.args # <<>> BY DEF Proper, EnoughOperands
<1>4. Plain(args)
  <2>1. SignedPositions(c.types, s) = {} BY <1>1 DEF SignedPositions, Orders
  <2>2. \A i \in DOMAIN s.args : ~s.args[i].sv BY <2>1 DEF Proper, rejectSignedView
  <2> HIDE DEF args
  <2>3. \A i \in 1..Len(args) : ~args[i].sv
    <3> TAKE i \in 1..Len(args)
    <3>1. i \in DOMAIN s.args /\ args[i].sv = s.args[i].sv BY <1>2
    <3> QED BY <2>2, <3>1
  <2> QED BY <2>3 DEF Plain
<1>5. normalizeLookup(c, s, args) = Emit(all.c, u) BY DEF normalizeLookup, LookupOn
<1>6. u = [k |-> "lookup", op |-> s.op, to |-> s.to, args |-> new, n |-> s.n, w |-> s.w]
  <2> HIDE DEF new
  <2> QED BY <1>1
<1>7. args # <<>>
  <2>1. Len(s.args) # 0 BY <1>1, <1>3
  <2> QED BY <1>2, <2>1, EmptyFacts
<1> HIDE DEF args, u
<1>8. /\ AllUsable(c.types, rest) /\ Usable(c.types, args[1]) /\ 1 \in 1..Len(args)
      /\ \A i \in 1..Len(rest) : rest[i] = args[i + 1] /\ i + 1 \in 1..Len(args)
  BY <1>2, <1>7, TailOperands
<1>9. Plain(rest) /\ ~args[1].sv BY <1>4, <1>8 DEF Plain
<1> HIDE DEF rest, t
<1>10. Cast(c, all, rest, Len(rest), t) BY <1>8, CastArgsFacts
<1> HIDE DEF all
<1>11. Continues(c, all.c) /\ AllUsable(all.c.types, all.args) /\ Len(all.args) = Len(rest) /\ Plain(all.args)
  BY <1>9, <1>10, CastPlain DEF Cast
<1>12. Usable(all.c.types, args[1]) BY <1>8, <1>11, UsableGrows DEF Continues
<1>13. /\ AllUsable(all.c.types, new) /\ Len(new) = Len(all.args) + 1
       /\ \A i \in 2..Len(new) : i - 1 \in 1..Len(all.args) /\ new[i] = all.args[i - 1]
  BY <1>11, <1>12, ConsOperands
<1>14. Plain(new) BY <1>9, <1>11, <1>12, ConsPlain
<1> HIDE DEF new
<1>15. s.to[1] \in 1..Len(c.types) /\ s.to[1] \in 1..Len(all.c.types) /\ all.c.types[s.to[1]] = t
  <2>1. s.to[1] \in DOMAIN ts BY <1>1
  <2>2. /\ Len(ts) \in Nat /\ DOMAIN ts = 1..Len(ts) /\ Len(c.types) \in Nat /\ Len(all.c.types) \in Nat
        /\ Len(ts) <= Len(c.types) /\ Len(c.types) <= Len(all.c.types)
    BY <1>11, SeqFacts DEF Continues, Grows
  <2>3. s.to[1] \in 1..Len(c.types) BY <2>1, <2>2
  <2> QED BY <1>11, <2>2, <2>3 DEF Continues, Grows, t
<1>16. \A i \in 2..Len(new) : TypeOf(all.c.types, new[i]) = t
  BY <1>10, <1>11, <1>13 DEF Cast
<1>17. StmtRight(all.c.types, u)
  <2>1. Len(all.args) \in Nat BY <1>11, SeqFacts DEF AllUsable
  <2>2. Len(new) # 0 BY <1>13, <2>1
  <2>3. new # <<>> BY <2>2, EmptyFacts
  <2> QED BY <1>6, <1>13, <1>14, <1>15, <1>16, <2>3 DEF StmtRight, Plain
<1>18. Continues(all.c, Emit(all.c, u)) BY <1>11, <1>17, EmitFacts DEF Continues
<1> QED BY <1>5, <1>11, <1>18, ContinuesTrans DEF args

\* normalizeLookupWrite drops the view of the value, the only one it may have.
LEMMA WriteFacts ==
  ASSUME NEW ts, NEW c, Context(c), Grows(ts, c.types), NEW s, Proper(ts, c.types, s), s.k = "write"
  PROVE  Continues(c, normalizeLookupWrite(c, s, NormalizedArgs(s.args)))
<1> DEFINE args == NormalizedArgs(s.args)
           rest == Tail(args)
           t == WideType(c.types, s.to)
           all == CastArgs(c, rest, t)
           value == Unsigned(all.args[1])
           elements == Tail(all.args)
           new == <<args[1], value>> \o elements
           u == [s EXCEPT !.args = new]
<1>1. s = [k |-> s.k, op |-> s.op, to |-> s.to, args |-> s.args, n |-> s.n, w |-> s.w]
      /\ s.args \in Seq(Operands(ts)) /\ s.to \in Seq(DOMAIN ts) \ {<<>>} /\ s.k = "write" /\ s.op = "write"
  BY DEF Proper, Statements
<1>2. /\ AllUsable(c.types, args) /\ Len(args) = Len(s.args) /\ DOMAIN s.args = 1..Len(s.args)
      /\ \A i \in 1..Len(s.args) : args[i].sv = s.args[i].sv
  BY <1>1, GivenOperands
<1>3. Len(s.args) >= 2 /\ Len(s.args) \in Nat BY <1>1 DEF Proper, EnoughOperands
<1>4. \A i \in 1..Len(args) : args[i].sv => i = 2
  <2>1. SignedPositions(c.types, s) = {2} BY <1>1 DEF SignedPositions, Orders
  <2>2. \A i \in DOMAIN s.args : s.args[i].sv => i = 2 BY <2>1 DEF Proper, rejectSignedView
  <2> HIDE DEF args
  <2> QED BY <1>2, <2>2
<1>5. normalizeLookupWrite(c, s, args) = Emit(all.c, u) BY DEF normalizeLookupWrite, WriteOn
<1>6. u = [k |-> "write", op |-> s.op, to |-> s.to, args |-> new, n |-> s.n, w |-> s.w]
  <2> HIDE DEF new
  <2> QED BY <1>1
<1>7. args # <<>> BY <1>2, <1>3, EmptyFacts
<1> HIDE DEF args, u
<1>8. /\ AllUsable(c.types, rest) /\ Usable(c.types, args[1]) /\ 1 \in 1..Len(args)
      /\ Len(rest) = Len(args) - 1
      /\ \A i \in 1..Len(rest) : rest[i] = args[i + 1] /\ i + 1 \in 1..Len(args)
  BY <1>2, <1>7, TailOperands
<1>9. ~args[1].sv /\ \A i \in 1..Len(rest) : rest[i].sv => i = 1
  <2>1. Len(rest) \in Nat BY <1>2, <1>3, <1>8
  <2> QED BY <1>4, <1>8, <2>1
<1> HIDE DEF rest, t
<1>10. Cast(c, all, rest, Len(rest), t) BY <1>8, CastArgsFacts
<1> HIDE DEF all
<1>11. /\ Continues(c, all.c) /\ AllUsable(all.c.types, all.args) /\ Len(all.args) = Len(rest)
       /\ \A i \in 1..Len(all.args) : all.args[i].sv => i = 1
  BY <1>9, <1>10 DEF Cast
<1>12. Usable(all.c.types, args[1]) BY <1>8, <1>11, UsableGrows DEF Continues
<1>13. all.args # <<>>
  <2>1. Len(all.args) = Len(args) - 1 BY <1>8, <1>11
  <2> QED BY <1>2, <1>3, <2>1, EmptyFacts
<1>14. /\ AllUsable(all.c.types, elements) /\ Usable(all.c.types, all.args[1])
       /\ Len(elements) = Len(all.args) - 1
       /\ \A i \in 1..Len(elements) : elements[i] = all.args[i + 1] /\ i + 1 \in 1..Len(all.args)
  BY <1>11, <1>13, TailOperands
<1>15. Plain(elements)
  <2>1. Len(elements) \in Nat BY <1>14, SeqFacts DEF AllUsable
  <2>2. \A i \in 1..Len(elements) : i + 1 # 1 BY <2>1
  <2> QED BY <1>11, <1>14, <2>2 DEF Plain
<1>16. Usable(all.c.types, value) /\ ~value.sv BY <1>14, ViewFacts
<1> HIDE DEF value, elements
<1>17. AllUsable(all.c.types, new) /\ Plain(new) BY <1>9, <1>12, <1>14, <1>15, <1>16, PairOperands
<1> HIDE DEF new
<1>18. s.to[1] \in 1..Len(all.c.types)
  <2>1. s.to[1] \in DOMAIN ts BY <1>1
  <2>2. /\ Len(ts) \in Nat /\ DOMAIN ts = 1..Len(ts) /\ Len(c.types) \in Nat /\ Len(all.c.types) \in Nat
        /\ Len(ts) <= Len(c.types) /\ Len(c.types) <= Len(all.c.types)
    BY <1>11, SeqFacts DEF Continues, Grows
  <2> QED BY <2>1, <2>2
<1>19. StmtRight(all.c.types, u) BY <1>6, <1>17, <1>18 DEF StmtRight, Plain
<1>20. Continues(all.c, Emit(all.c, u)) BY <1>11, <1>19, EmitFacts DEF Continues
<1> QED BY <1>5, <1>11, <1>20, ContinuesTrans DEF args

-----------------------------------------------------------------------------
(* Blocks *)

\* The target of a statement is a symbol.
LEMMA TargetSymbol ==
  ASSUME NEW ts, NEW more, Grows(ts, more), NEW to \in Seq(DOMAIN ts) \ {<<>>}
  PROVE  to[1] \in 1..Len(more)
<1>1. to[1] \in DOMAIN ts OBVIOUS
<1>2. DOMAIN ts = 1..Len(ts) /\ Len(ts) \in Nat /\ Len(more) \in Nat BY SeqFacts DEF Grows
<1> QED BY <1>1, <1>2 DEF Grows

\* The operands of an operation that is not refused.
LEMMA AcceptedOperands ==
  ASSUME NEW ts, NEW c, Context(c), Grows(ts, c.types), NEW s, Proper(ts, c.types, s), s.k = "op"
  PROVE  Accepted(s.op, NormalizedArgs(s.args)) /\ Enough(s.op, NormalizedArgs(s.args))
<1> DEFINE args == NormalizedArgs(s.args)
<1>1. s.args \in Seq(Operands(ts)) BY DEF Proper, Statements
<1>2. /\ Len(args) = Len(s.args) /\ DOMAIN s.args = 1..Len(s.args)
      /\ \A i \in 1..Len(s.args) : args[i].sv = s.args[i].sv
  BY <1>1, GivenOperands
<1> HIDE DEF args
<1>3. \A i \in DOMAIN s.args : s.args[i].sv => i \in SignedPositions(c.types, s)
  BY DEF Proper, rejectSignedView
<1>4. \A i \in 1..Len(args) : args[i].sv => i \in SignedPositions(c.types, s)
  <2> TAKE i \in 1..Len(args)
  <2>1. i \in DOMAIN s.args /\ args[i].sv = s.args[i].sv BY <1>2
  <2> QED BY <1>3, <2>1
<1>5. Enough(s.op, args) BY <1>2 DEF Proper, EnoughOperands, Enough
<1>6. ASSUME NEW i \in 1..Len(args), args[i].sv
      PROVE  IF s.op \in {"sext", "shr"} THEN i = 1 ELSE s.op \in {"cast", "mul"} \cup Orders
  <2>1. i \in SignedPositions(c.types, s) BY <1>4, <1>6
  <2>2. CASE s.op \in {"sext", "shr"}
    <3>1. SignedPositions(c.types, s) = {1} BY <2>2 DEF SignedPositions, Orders
    <3> QED BY <2>1, <2>2, <3>1
  <2>3. CASE s.op \notin {"sext", "shr", "cast", "mul"} \cup Orders
    <3>1. SignedPositions(c.types, s) = {} BY <2>3 DEF SignedPositions, Orders
    <3> QED BY <2>1, <3>1
  <2> QED BY <2>2, <2>3
<1> QED BY <1>5, <1>6 DEF Accepted, args

\* normalizeStmt keeps the symbols and adds statements that are right.
LEMMA StmtFacts ==
  ASSUME NEW ts, NEW c, Context(c), Grows(ts, c.types), NEW s, Proper(ts, c.types, s)
  PROVE  Continues(c, normalizeStmt(c, s))
<1> DEFINE args == NormalizedArgs(s.args)
<1>1. /\ s.k \in {"assign", "op", "lookup", "write"}
      /\ s.args \in Seq(Operands(ts)) /\ s.to \in Seq(DOMAIN ts) \ {<<>>}
  BY DEF Proper, Statements
<1>2. AllUsable(c.types, args) /\ Len(args) = Len(s.args) BY <1>1, GivenOperands
<1>3. s.to[1] \in 1..Len(c.types) BY <1>1, TargetSymbol
<1>4. args = [i \in DOMAIN s.args |-> normalizeOperand(s.args[i])] BY DEF NormalizedArgs
<1>5. CASE s.k = "assign"
  <2>1. normalizeStmt(c, s) = emitCastToTarget(Val(c, args[1]), s.to[1])
    BY <1>4, <1>5 DEF normalizeStmt
  <2>2. s.args # <<>> BY <1>5 DEF Proper, EnoughOperands
  <2> HIDE DEF args
  <2>3. args # <<>>
    <3>1. Len(s.args) # 0 BY <1>1, <2>2
    <3> QED BY <1>2, <3>1, EmptyFacts
  <2>4. Usable(c.types, args[1]) BY <1>2, <2>3, TailOperands
  <2>5. Lowered(c, Val(c, args[1])) BY <2>4, ContinuesSelf, ValLowered
  <2> QED BY <1>3, <2>1, <2>5, TargetFacts DEF args
<1>6. CASE s.k = "op"
  <2> DEFINE t == c.types[s.to[1]]
             r == normalizeOperation(c, s.op, args, s.n, t)
  <2>1. normalizeStmt(c, s) = emitCastToTarget(r, s.to[1]) BY <1>4, <1>6 DEF normalizeStmt
  <2>2. Accepted(s.op, args) /\ Enough(s.op, args) BY <1>6, AcceptedOperands
  <2> HIDE DEF args, t
  <2>3. Lowered(c, r) BY <1>2, <2>2, OperationFacts
  <2> HIDE DEF r
  <2>4. Continues(c, emitCastToTarget(r, s.to[1])) BY <1>3, <2>3, TargetFacts
  <2> QED BY <2>1, <2>4 DEF r, t, args
<1>7. CASE s.k = "lookup"
  <2>1. normalizeStmt(c, s) = normalizeLookup(c, s, args) BY <1>4, <1>7 DEF normalizeStmt
  <2> QED BY <1>7, <2>1, LookupFacts
<1>8. CASE s.k = "write"
  <2>1. normalizeStmt(c, s) = normalizeLookupWrite(c, s, args) BY <1>4, <1>8 DEF normalizeStmt
  <2> QED BY <1>8, <2>1, WriteFacts
<1> QED BY <1>1, <1>5, <1>6, <1>7, <1>8

\* A branch is left with a condition of type bool.
TermRight(ts, t) == t.kind = "branch" => Usable(ts, t.on[1]) /\ TypeOf(ts, t.on[1]) = Bool

\* A right terminator is right over every continuation of the symbols.
LEMMA TermGrows ==
  ASSUME NEW ts, NEW more, Grows(ts, more), NEW t, TermRight(ts, t)
  PROVE  TermRight(more, t)
BY UsableGrows DEF TermRight

\* normalizeTerminator casts the operands before it ends the block.
LEMMA TermFacts ==
  ASSUME NEW ts, NEW c, Context(c), Grows(ts, c.types), NEW t \in Terminators(ts),
         t.kind \in {"branch", "switch"} => t.on # <<>>
  PROVE  LET r == normalizeTerminator(c, t)
         IN  Continues(c, r.c) /\ TermRight(r.c.types, r.term)
<1> DEFINE on == NormalizedArgs(t.on)
           cases == NormalizedArgs(t.cases)
           r == normalizeTerminator(c, t)
<1>1. /\ t = [kind |-> t.kind, on |-> t.on, cases |-> t.cases, to |-> t.to]
      /\ t.on \in Seq(Operands(ts)) /\ t.cases \in Seq(Operands(ts))
  BY DEF Terminators
<1>2. /\ AllUsable(c.types, on) /\ Len(on) = Len(t.on)
      /\ AllUsable(c.types, cases)
  BY <1>1, GivenOperands
<1>3. /\ on = [i \in DOMAIN t.on |-> normalizeOperand(t.on[i])]
      /\ cases = [i \in DOMAIN t.cases |-> normalizeOperand(t.cases[i])]
  BY DEF NormalizedArgs
<1>4. CASE t.kind = "branch"
  <2> DEFINE d == castToBool(c, on[1])
             ends == <<d.o>>
             u == [t EXCEPT !.on = ends]
  <2>1. r = [c |-> d.c, term |-> u] BY <1>3, <1>4 DEF normalizeTerminator, BranchOn
  <2> HIDE DEF on, cases
  <2>2. on # <<>>
    <3>1. Len(t.on) # 0 BY <1>1, <1>4
    <3> QED BY <1>2, <3>1, EmptyFacts
  <2>3. Usable(c.types, on[1]) BY <1>2, <2>2, TailOperands
  <2>4. Lowered(c, d) /\ TypeOf(d.c.types, d.o) = Bool BY <2>3, CastFacts DEF castToBool
  <2> HIDE DEF d
  <2>5. ends[1] = d.o OBVIOUS
  <2> HIDE DEF ends
  <2>6. u.on = ends BY <1>1
  <2> HIDE DEF u
  <2>7. Continues(c, d.c) /\ TermRight(d.c.types, u) BY <2>4, <2>5, <2>6 DEF TermRight, Lowered
  <2> QED BY <2>1, <2>7 DEF on, cases, d, u, ends
<1>5. CASE t.kind = "switch"
  <2> DEFINE all == CastArgs(c, cases, TypeOf(c.types, on[1]))
             ends == <<on[1]>>
             u == [t EXCEPT !.on = ends, !.cases = all.args]
  <2>1. r = [c |-> all.c, term |-> u] BY <1>3, <1>5 DEF normalizeTerminator, SwitchOn
  <2> HIDE DEF on, cases
  <2>2. Continues(c, all.c) BY <1>2, CastArgsFacts DEF Cast
  <2> HIDE DEF all, ends
  <2>3. u.kind = "switch" BY <1>1, <1>5
  <2> HIDE DEF u
  <2>4. TermRight(all.c.types, u) BY <2>3 DEF TermRight
  <2> QED BY <2>1, <2>2, <2>4 DEF on, cases, all, u, ends
<1>6. CASE t.kind \notin {"branch", "switch"}
  <2>1. r = [c |-> c, term |-> t] BY <1>6 DEF normalizeTerminator
  <2> HIDE DEF r
  <2> QED BY <1>6, <2>1, ContinuesSelf DEF TermRight, r
<1> QED BY <1>4, <1>5, <1>6

-----------------------------------------------------------------------------
(* The invariant *)

BlockRight(b) == StmtsRight(types, b.stmts) /\ TermRight(types, b.term)
NormInv ==
  /\ source \in Programs
  /\ Grows(source.types, types)
  /\ IsSeq(blocks) /\ \A j \in 1..Len(blocks) : BlockRight(blocks[j])
  /\ StmtsRight(types, stmts)
  /\ next \in Nat \ {0}
  /\ verdict # "unsound"

\* The blocks of the source.
LEMMA SourceBlocks ==
  ASSUME source \in Programs
  PROVE  /\ IsSeq(source.types)
         /\ source = [types |-> source.types, entry |-> source.entry, exit |-> source.exit,
                      blocks |-> source.blocks, ports |-> source.ports]
         /\ \A j \in 1..Len(source.blocks) :
              /\ source.blocks[j].stmts \in Seq(Statements(source.types))
              /\ source.blocks[j].term \in Terminators(source.types)
              /\ source.blocks[j] \in ToSet(source.blocks)
<1> DEFINE B == [stmts : Seq(Statements(source.types)), term : Terminators(source.types)]
           T == ScalarTypes
<1>1. source \in [types : Seq(T), entry : Nat, exit : Nat, blocks : Seq(B),
                  ports : Seq([x : DOMAIN source.types, dir : {"in", "out"}])]
  BY ProgramsAreScalar DEF ScalarProgram
<1> HIDE DEF T
<1>2. /\ source.types \in Seq(T) /\ source.blocks \in Seq(B)
      /\ source = [types |-> source.types, entry |-> source.entry, exit |-> source.exit,
                   blocks |-> source.blocks, ports |-> source.ports]
  <2> HIDE DEF B
  <2> QED BY <1>1
<1>3. IsSeq(source.types)
  <2>1. \A S : source.types \in Seq(S) => IsSeq(source.types) BY SeqOver
  <2> QED BY <1>2, <2>1
<1>4. /\ IsSeq(source.blocks) /\ ToSet(source.blocks) \subseteq B
  <2> HIDE DEF B
  <2> QED BY <1>2, SeqOver
<1>5. ToSet(source.blocks) = {source.blocks[j] : j \in 1..Len(source.blocks)} BY <1>4, SeqFacts
<1>6. \A b \in ToSet(source.blocks) : b \in B BY <1>4
<1> QED BY <1>2, <1>3, <1>5, <1>6

\* A statement at work that is not refused.
LEMMA AtStmtProper ==
  ASSUME NormInv, AtStmt, ~Refused(types, Block0.stmts[next])
  PROVE  Proper(source.types, types, Block0.stmts[next])
<1> DEFINE b == Block0
           s == b.stmts[next]
<1>1. source \in Programs /\ Len(blocks) + 1 \in 1..Len(source.blocks)
  <2>1. Len(blocks) \in Nat BY SeqFacts DEF NormInv
  <2>2. Len(blocks) < Len(source.blocks) BY DEF AtStmt, InBlock
  <2>3. Len(source.blocks) \in Nat
    BY ProgramsAreScalar DEF NormInv, ScalarProgram
  <2> QED BY <2>1, <2>2, <2>3 DEF NormInv
<1>2. /\ b.stmts \in Seq(Statements(source.types)) /\ b \in ToSet(source.blocks)
      /\ IsSeq(source.types)
  BY <1>1, SourceBlocks DEF Block0
<1>3. \A x \in ToSet(b.stmts) : EnoughOperands(x) /\ (x.k \in {"lookup", "write"} => x.op = x.k)
  BY <1>1, <1>2, ProgramsAreScalar DEF ScalarProgram
<1>4. next \in 1..Len(b.stmts) BY <1>2 DEF NormInv, AtStmt
<1> HIDE DEF b
<1>5. IsSeq(b.stmts) /\ ToSet(b.stmts) \subseteq Statements(source.types) BY <1>2, SeqOver
<1>6. s \in ToSet(b.stmts) BY <1>4, <1>5, SeqFacts
<1>7. ~rejectSignedView(types, s) BY DEF Refused, b
<1> HIDE DEF s
<1>8. Proper(source.types, types, s) BY <1>2, <1>3, <1>5, <1>6, <1>7 DEF Proper
<1> QED BY <1>8 DEF s, b

\* The statements so far are a context.
LEMMA ContextNow ==
  ASSUME NormInv
  PROVE  Context(c0) /\ c0.types = types /\ c0.stmts = stmts
BY DEF NormInv, Context, c0, Grows

\* A statement.
LEMMA StmtKeeps ==
  ASSUME NormInv, NEW kind, NormalizeStmt(kind)
  PROVE  NormInv'
<1> DEFINE s == Block0.stmts[next]
           d == normalizeStmt(c0, s)
<1>1. AtStmt /\ ~Refused(types, s) /\ Extend(d) BY DEF NormalizeStmt
<1>2. Proper(source.types, types, s) BY <1>1, AtStmtProper
<1>3. Context(c0) /\ c0.types = types BY ContextNow
<1> HIDE DEF s
<1>4. Continues(c0, d) BY <1>2, <1>3, StmtFacts DEF NormInv
<1> HIDE DEF d
<1>5. /\ types' = d.types /\ stmts' = d.stmts /\ next' = next + 1
      /\ source' = source /\ blocks' = blocks /\ verdict' = verdict
  BY <1>1 DEF Extend
<1>6. Grows(types, types') /\ StmtsRight(types', stmts') BY <1>3, <1>4, <1>5 DEF Continues, Context
<1>7. \A j \in 1..Len(blocks) : BlockRight(blocks[j])'
  <2> TAKE j \in 1..Len(blocks)
  <2>1. StmtsRight(types, blocks[j].stmts) /\ TermRight(types, blocks[j].term)
    BY DEF NormInv, BlockRight
  <2>2. StmtsRight(types', blocks[j].stmts) /\ TermRight(types', blocks[j].term)
    BY <1>6, <2>1, StmtsGrow, TermGrows
  <2> QED BY <1>5, <2>2 DEF BlockRight
<1>8. Grows(source'.types, types') BY <1>5, <1>6, GrowsTrans DEF NormInv
<1> QED BY <1>5, <1>6, <1>7, <1>8 DEF NormInv

\* The end of a block.
LEMMA TermKeeps ==
  ASSUME NormInv, NormalizeTerminator
  PROVE  NormInv'
<1> DEFINE t == Block0.term
           r == normalizeTerminator(c0, t)
           b == [stmts |-> r.c.stmts, term |-> r.term]
           more == Append(blocks, b)
<1>1. AtTerm /\ Close(r) BY DEF NormalizeTerminator
<1>2. source \in Programs /\ Len(blocks) + 1 \in 1..Len(source.blocks)
  <2>1. Len(blocks) \in Nat BY SeqFacts DEF NormInv
  <2>2. Len(blocks) < Len(source.blocks) BY <1>1 DEF AtTerm, InBlock
  <2>3. Len(source.blocks) \in Nat BY ProgramsAreScalar DEF NormInv, ScalarProgram
  <2> QED BY <2>1, <2>2, <2>3 DEF NormInv
<1>3. t \in Terminators(source.types) /\ Block0 \in ToSet(source.blocks)
  BY <1>2, SourceBlocks DEF Block0
<1>4. t.kind \in {"branch", "switch"} => t.on # <<>>
  BY <1>2, <1>3, ProgramsAreScalar DEF ScalarProgram
<1>5. Context(c0) /\ c0.types = types BY ContextNow
<1> HIDE DEF t
<1>6. Continues(c0, r.c) /\ TermRight(r.c.types, r.term) BY <1>3, <1>4, <1>5, TermFacts DEF NormInv
<1> HIDE DEF r
<1>7. /\ types' = r.c.types /\ blocks' = more /\ stmts' = <<>> /\ next' = 1
      /\ source' = source /\ verdict' = verdict
  BY <1>1 DEF Close
<1>8. /\ IsSeq(more) /\ Len(more) = Len(blocks) + 1 /\ more[Len(blocks) + 1] = b
      /\ \A i \in 1..Len(blocks) : more[i] = blocks[i]
  BY AppendFacts DEF NormInv
<1>9. Grows(types, types') BY <1>5, <1>6, <1>7 DEF Continues
<1>10. StmtsRight(types', b.stmts) /\ TermRight(types', b.term)
  BY <1>6, <1>7 DEF Continues, Context
<1>11. Len(blocks) \in Nat BY SeqFacts DEF NormInv
<1> HIDE DEF b, more
<1>12. \A j \in 1..Len(more) : StmtsRight(types', more[j].stmts) /\ TermRight(types', more[j].term)
  <2> TAKE j \in 1..Len(more)
  <2>1. CASE j \in 1..Len(blocks)
    <3>1. StmtsRight(types, blocks[j].stmts) /\ TermRight(types, blocks[j].term)
      BY <2>1 DEF NormInv, BlockRight
    <3>2. StmtsRight(types', blocks[j].stmts) /\ TermRight(types', blocks[j].term)
      BY <1>9, <3>1, StmtsGrow, TermGrows
    <3> QED BY <1>8, <2>1, <3>2
  <2>2. CASE j = Len(blocks) + 1 BY <1>8, <1>10, <2>2
  <2> QED BY <1>8, <1>11, <2>1, <2>2
<1>13. StmtsRight(types', <<>>)
  <2>1. IsSeq(<<>>) /\ Len(<<>>) = 0 BY EmptyFacts
  <2>2. 1..0 = {} OBVIOUS
  <2> QED BY <2>1, <2>2 DEF StmtsRight
<1>14. Grows(source'.types, types') BY <1>7, <1>9, GrowsTrans DEF NormInv
<1> QED BY <1>7, <1>8, <1>12, <1>13, <1>14 DEF NormInv, BlockRight

\* The verifier finds nothing.
LEMMA Verified ==
  ASSUME NormInv
  PROVE  verifyNormProgram(Normalised)
<1> DEFINE f == Normalised
<1>1. f.types = types /\ f.blocks = blocks
  <2>1. source = [types |-> source.types, entry |-> source.entry, exit |-> source.exit,
                  blocks |-> source.blocks, ports |-> source.ports]
    BY SourceBlocks DEF NormInv
  <2> QED BY <2>1 DEF Normalised
<1> HIDE DEF f
<1>2. ToSet(blocks) = {blocks[j] : j \in 1..Len(blocks)} BY SeqFacts DEF NormInv
<1>3. ASSUME NEW b \in ToSet(blocks)
      PROVE  /\ \A s \in ToSet(b.stmts) :
                  /\ s.k = "assign" => TypeOf(types, s.args[1]) = types[s.to[1]]
                  /\ s.k = "op" => types[s.to[1]].w = s.w
                  /\ s.k = "lookup" => \A o \in ToSet(Tail(s.args)) : TypeOf(types, o) = types[s.to[1]]
             /\ b.term.kind = "branch" => TypeOf(types, b.term.on[1]).bool
  <2>1. StmtsRight(types, b.stmts) /\ TermRight(types, b.term) BY <1>2 DEF NormInv, BlockRight
  <2>2. ToSet(b.stmts) = {b.stmts[j] : j \in 1..Len(b.stmts)} BY <2>1, SeqFacts DEF StmtsRight
  <2>3. ASSUME NEW s \in ToSet(b.stmts)
        PROVE  /\ s.k = "assign" => TypeOf(types, s.args[1]) = types[s.to[1]]
               /\ s.k = "op" => types[s.to[1]].w = s.w
               /\ s.k = "lookup" => \A o \in ToSet(Tail(s.args)) : TypeOf(types, o) = types[s.to[1]]
    <3>1. StmtRight(types, s) BY <2>1, <2>2 DEF StmtsRight
    <3>2. ASSUME s.k = "lookup", NEW o \in ToSet(Tail(s.args)) PROVE TypeOf(types, o) = types[s.to[1]]
      <4> DEFINE rest == Tail(s.args)
      <4>1. /\ s.args # <<>> /\ AllUsable(types, s.args)
            /\ \A i \in 2..Len(s.args) : TypeOf(types, s.args[i]) = types[s.to[1]]
        BY <3>1, <3>2 DEF StmtRight
      <4>2. /\ AllUsable(types, rest)
            /\ \A i \in 1..Len(rest) : rest[i] = s.args[i + 1] /\ i + 1 \in 1..Len(s.args)
        BY <4>1, TailOperands
      <4> HIDE DEF rest
      <4>3. ToSet(rest) = {rest[i] : i \in 1..Len(rest)} BY <4>2, SeqFacts DEF AllUsable
      <4>4. PICK i \in 1..Len(rest) : o = rest[i] BY <3>2, <4>3 DEF rest
      <4>5. i + 1 \in 2..Len(s.args) BY <4>2
      <4> QED BY <4>1, <4>2, <4>4, <4>5
    <3> QED BY <3>1, <3>2 DEF StmtRight
  <2>4. b.term.kind = "branch" => TypeOf(types, b.term.on[1]).bool
    BY <2>1 DEF TermRight, Bool
  <2> QED BY <2>3, <2>4
<1> QED BY <1>1, <1>3 DEF verifyNormProgram, f

\* NormInv holds at the start, and every step keeps it.
LEMMA NormInit == ASSUME Init PROVE NormInv
<1>1. source \in Programs /\ types = source.types /\ blocks = <<>> /\ stmts = <<>> BY DEF Init
<1>2. IsSeq(<<>>) /\ Len(<<>>) = 0 BY EmptyFacts
<1>3. 1..0 = {} OBVIOUS
<1>4. IsSeq(source.types) BY <1>1, SourceBlocks
<1>5. Grows(source.types, types) BY <1>1, <1>4, GrowsSelf
<1>6. StmtsRight(types, stmts) BY <1>1, <1>2, <1>3 DEF StmtsRight
<1> QED BY <1>1, <1>2, <1>3, <1>5, <1>6 DEF Init, NormInv

\* Every step keeps it: a statement, the end of a block, a refusal, the verifier.
LEMMA NormStep == ASSUME NormInv, [Next]_vars PROVE NormInv'
<1>1. ASSUME UNCHANGED <<source, types, blocks, stmts, next>>, verdict' # "unsound" PROVE NormInv'
  BY <1>1 DEF NormInv, BlockRight
<1>2. CASE NormalizeAssign BY <1>2, StmtKeeps DEF NormalizeAssign
<1>3. CASE NormalizeOp BY <1>3, StmtKeeps DEF NormalizeOp
<1>4. CASE NormalizeLookup BY <1>4, StmtKeeps DEF NormalizeLookup
<1>5. CASE NormalizeLookupWrite BY <1>5, StmtKeeps DEF NormalizeLookupWrite
<1>6. CASE NormalizeTerminator BY <1>6, TermKeeps
<1>7. CASE Reject BY <1>1, <1>7 DEF Reject, Stop
<1>8. CASE RejectLimit BY <1>1, <1>8 DEF RejectLimit, Stop
<1>9. CASE Verify BY <1>1, <1>9, Verified DEF Verify, Stop
<1>10. CASE UNCHANGED vars BY <1>1, <1>10 DEF vars, NormInv
<1> QED BY <1>2, <1>3, <1>4, <1>5, <1>6, <1>7, <1>8, <1>9, <1>10 DEF Next, Finished

\* The views are where the invariant says.
LEMMA NormInvForm == ASSUME NormInv PROVE NormalForm
<1>1. ASSUME NEW b \in ToSet(blocks), NEW s \in ToSet(b.stmts), NEW i \in DOMAIN s.args, s.args[i].sv
      PROVE  i \in ViewsRead(s)
  <2>1. ToSet(blocks) = {blocks[j] : j \in 1..Len(blocks)} BY SeqFacts DEF NormInv
  <2>2. StmtsRight(types, b.stmts) BY <2>1 DEF NormInv, BlockRight
  <2>3. ToSet(b.stmts) = {b.stmts[j] : j \in 1..Len(b.stmts)} BY <2>2, SeqFacts DEF StmtsRight
  <2>4. StmtRight(types, s) BY <2>2, <2>3 DEF StmtsRight
  <2>5. DOMAIN s.args = 1..Len(s.args) BY <2>4, SeqFacts DEF StmtRight, AllUsable
  <2> QED BY <1>1, <2>4, <2>5 DEF StmtRight
<1>2. verdict # "unsound" BY DEF NormInv
<1> QED BY <1>1, <1>2 DEF NormalForm

\* Whatever the functions and the limits, each block that is finished or at
\* work is right over the symbols so far, and the verifier objects to nothing.
THEOREM NormInvHolds == Spec => []NormInv
<1>1. Init => NormInv BY NormInit
<1>2. NormInv /\ [Next]_vars => NormInv' BY NormStep
<1> QED BY <1>1, <1>2, PTL DEF Spec

\* NormalForm: what normalizeOperations hands on passes verifyNormProgram, and
\* a view is left only where the operation itself reads the sign.
THEOREM NormalFormHolds == Spec => []NormalForm
<1>1. NormInv => NormalForm BY NormInvForm
<1> QED BY <1>1, NormInvHolds, PTL
=============================================================================
