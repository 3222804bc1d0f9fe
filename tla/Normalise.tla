----------------------------- MODULE Normalise -----------------------------
(***************************************************************************)
(* Stage S8, operation normalisation (src/src/s8opnorm/S8Norm.cpp): every  *)
(* operation is given operands and a result of the widths it is defined    *)
(* for, by casts in between, and a division by a constant becomes a        *)
(* multiplication, a slice and shifts.  Both programs are in the language  *)
(* of FlatCfg.                                                             *)
(*                                                                         *)
(* A lowering takes c, the symbol table and the statements of the block so *)
(* far, and gives back c and the operand o that holds the value.           *)
(***************************************************************************)
EXTENDS FlatCfg

CONSTANTS
  Programs,      \* the functions given to the stage
  MaxSymbols,    \* NormOptions::max_symbols
  MaxMagicWidth  \* the widest operand of a division by multiplication, 64 in the code

VARIABLES
  source,   \* the function given
  types,    \* the symbols of the output, temporaries at the end
  blocks,   \* the blocks that are finished
  stmts,    \* the statements of the block at work
  next,     \* the next statement of the source's block
  verdict   \* "running", "done" or "rejected"; "unsound" if the verifier objects

vars == <<source, types, blocks, stmts, next, verdict>>

-----------------------------------------------------------------------------
(* Casts.                                                                  *)

Val(c, o) == [c |-> c, o |-> o]
Emit(c, s) == [c EXCEPT !.stmts = Append(@, s)]
createTemp(c, t) == [c EXCEPT !.types = Append(@, t)]

OpInto(c, x, op, args, n) == Emit(c, [Do(x, op, args, n) EXCEPT !.w = c.types[x].w])
materializeOp(c, op, t, args, n) ==
  Val(OpInto(createTemp(c, t), Len(c.types) + 1, op, args, n), Use(Len(c.types) + 1))

\* A literal keeps the bits that its type has room for.
normalizeOperand(o) == IF o.kind = "lit" THEN [o EXCEPT !.v = @ % 2^o.t.w] ELSE o

CastKind(from, to, sv) ==
  CASE ~from.bool /\ to.bool -> "reduce_or"
    [] (from.bool \/ ~to.bool) /\ from.w < to.w -> IF sv THEN "sext" ELSE "zext"
    [] (from.bool \/ ~to.bool) /\ from.w > to.w -> "trunc"
    [] OTHER -> "cast"

\* The result of a cast has no view; a value of the right type keeps its own.
castTo(c, o, t) ==
  IF TypeOf(c.types, o) = t THEN Val(c, o)
  ELSE materializeOp(c, CastKind(TypeOf(c.types, o), t, o.sv), t, <<o>>, <<>>)
castToBool(c, o) == castTo(c, o, Bool)

WithArg(r, args) == [c |-> r.c, args |-> Append(args, r.o)]
CastNext(all, part) == WithArg(castTo(all.c, part.o, part.t), all.args)
CastArgs(c, args, t) ==
  FoldLeft(CastNext, [c |-> c, args |-> <<>>], [i \in DOMAIN args |-> [o |-> args[i], t |-> t]])
CastLast(c, args, t) == WithArg(castTo(c, Last(args), t), Front(args))
OpOn(all, op, t, n) == materializeOp(all.c, op, t, all.args, n)

\* A cast that is made has reserved a temporary too, which nothing uses.
emitCastToTarget(r, x) ==
  IF TypeOf(r.c.types, r.o) = r.c.types[x] THEN Emit(r.c, Copy(x, Unsigned(r.o)))
  ELSE OpInto(createTemp(r.c, r.c.types[x]), x,
              CastKind(TypeOf(r.c.types, r.o), r.c.types[x], r.o.sv), <<r.o>>, <<>>)

-----------------------------------------------------------------------------
(* Division by a constant d of a value a of w bits.                        *)

isPowerOfTwo(d, w) == \E k \in 0..(w - 1) : d = 2^k
log2PowerOfTwo(d, w) == CHOOSE k \in 0..(w - 1) : d = 2^k

\* A round of the search for the multiplier: p grows until 2^p is so large
\* that rounding the multiplier up does not show.
MagicRound(m, d, w, nc) ==
  LET over1 == m.r1 >= nc - m.r1
      over2 == m.r2 + 1 >= d - m.r2
  IN [p |-> m.p + 1,
      q1 |-> 2 * m.q1 + Bit(over1),
      r1 |-> 2 * m.r1 - (IF over1 THEN nc ELSE 0),
      q2 |-> 2 * m.q2 + Bit(over2),
      r2 |-> 2 * m.r2 + 1 - (IF over2 THEN d ELSE 0),
      add |-> m.add \/ m.q2 >= (IF over2 THEN 2^w - 1 ELSE 2^(w - 1))]
\* Mutant: the search ends a round early.
AnotherRoundEarly(m, d, w) == m.p + 1 < 2 * w /\ 2 * m.q1 < d - 1 - m.r2
AnotherRound(m, d, w) ==
  LET delta == d - 1 - m.r2
  IN m.p < 2 * w /\ (m.q1 < delta \/ (m.q1 = delta /\ m.r1 = 0))
MagicStart(d, w, nc) ==
  [p |-> w - 1, q1 |-> 2^(w - 1) \div nc, r1 |-> 2^(w - 1) % nc,
   q2 |-> (2^(w - 1) - 1) \div d, r2 |-> (2^(w - 1) - 1) % d, add |-> FALSE]
MagicEnd(d, w, nc) ==
  FoldLeft(LAMBDA m, i : IF AnotherRound(m, d, w) THEN MagicRound(m, d, w, nc) ELSE m,
           MagicRound(MagicStart(d, w, nc), d, w, nc), [i \in 1..w |-> i])
computeUnsignedMagic(d, w) ==
  LET m == MagicEnd(d, w, (2^w - 1) - ((2^w - 1) % d))
  IN [multiplier |-> m.q2 + 1 - (IF m.add THEN 2^w ELSE 0), add |-> m.add, shift |-> m.p - w]

\* The shift amount has 64 bits in the code.
makeShiftRight(r, n) ==
  IF n <= 0 THEN r
  ELSE materializeOp(r.c, "lshr", TypeOf(r.c.types, r.o), <<r.o, Const(n, Word(16))>>, <<>>)
makeSlice(r, hi, lo) == materializeOp(r.c, "slice", Word(hi - lo + 1), <<r.o>>, <<hi, lo>>)

Corrected(half, high, w, n) ==
  makeShiftRight(materializeOp(half.c, "add", Word(w + 1), <<half.o, high>>, <<>>), n - 1)
FromHigh(high, a, w, magic) ==
  IF ~magic.add THEN makeShiftRight(high, magic.shift)
  ELSE Corrected(makeShiftRight(materializeOp(high.c, "sub", Word(w), <<a, high.o>>, <<>>), 1),
                 high.o, w, magic.shift)
DivByMagic(c, a, w, magic) ==
  FromHigh(makeSlice(materializeOp(c, "mul", Word(2 * w), <<a, Const(magic.multiplier, Word(w))>>, <<>>),
                     2 * w - 1, w),
           a, w, magic)

lowerUnsignedDivConst(c, a, d, w) ==
  CASE d >= 2^w -> Val(c, Const(0, Word(w)))
    [] d = 1 -> Val(c, a)
    [] d \in 2..(2^w - 1) /\ isPowerOfTwo(d, w) -> makeSlice(Val(c, a), w - 1, log2PowerOfTwo(d, w))
    [] OTHER -> DivByMagic(c, a, w, computeUnsignedMagic(d, w))

Minus(product, a, w) == materializeOp(product.c, "sub", Word(w), <<a, product.o>>, <<>>)
Low(r, w) == castTo(r.c, r.o, Word(w))
Remainder(quotient, a, d, w) ==
  Minus(Low(materializeOp(quotient.c, "mul", Word(2 * w), <<quotient.o, Const(d, Word(w))>>, <<>>), w), a, w)
lowerUnsignedModConst(c, a, d, w) ==
  CASE d >= 2^w -> Val(c, a)
    [] d = 1 -> Val(c, Const(0, Word(w)))
    [] d \in 2..(2^w - 1) /\ isPowerOfTwo(d, w) -> makeSlice(Val(c, a), log2PowerOfTwo(d, w) - 1, 0)
    [] OTHER -> Remainder(Low(lowerUnsignedDivConst(c, a, d, w), w), a, d, w)

-----------------------------------------------------------------------------
(* Operations.  t is the type of the statement's target.                   *)

Widths(ts, args) == {TypeOf(ts, o).w : o \in ToSet(args)}
Logical == {"land", "lor"}
Arithmetic == {"add", "sub"}
Bitwise == {"bitand", "bitor", "bitxor"}
Equality == {"eq", "ne"}
Orders == {"lt", "le", "gt", "ge"}

normalizeUnary(c, op, args, t) ==
  CASE op = "lnot" -> OpOn(CastArgs(c, args, Bool), op, Bool, <<>>)
    [] op \in {"bitnot", "neg"} -> OpOn(CastArgs(c, args, t), op, t, <<>>)
    [] op = "plus" -> castTo(c, args[1], t)

Shifted(r, op, amount, t) ==
  materializeOp(r.c, IF op = "shl" THEN "shl" ELSE IF r.o.sv THEN "ashr" ELSE "lshr", t,
                <<r.o, amount>>, <<>>)
normalizeBinary(c, op, args, t) ==
  LET max == Word(Max(Widths(c.types, args)))
      wide == Word(Max(Widths(c.types, args) \cup {t.w}))
  IN CASE op = "div" -> lowerUnsignedDivConst(c, args[1], args[2].v, TypeOf(c.types, args[1]).w)
       [] op = "mod" -> lowerUnsignedModConst(c, args[1], args[2].v, TypeOf(c.types, args[1]).w)
       [] op \in Arithmetic -> OpOn(CastArgs(c, args, max), op, max, <<>>)
       [] op = "mul" ->
            materializeOp(c, op, Word(TypeOf(c.types, args[1]).w + TypeOf(c.types, args[2]).w), args, <<>>)
       [] op \in Bitwise -> OpOn(CastArgs(c, args, wide), op, wide, <<>>)
       [] op \in Logical -> OpOn(CastArgs(c, args, Bool), op, Bool, <<>>)
       [] op \in {"shl", "shr"} -> Shifted(castTo(c, args[1], t), op, args[2], t)
       [] op \in Equality \cup Orders -> OpOn(CastArgs(c, args, max), op, Bool, <<>>)

MuxOn(cond, values, t) ==
  materializeOp(values.c, "mux", t, <<cond>> \o values.args, <<>>)
normalizeMux(c, args, t) ==
  LET cond == castToBool(c, args[1])
  IN MuxOn(cond.o, CastArgs(cond.c, Tail(args), t), t)

hardwareRawType(ts, op, args, n, t) ==
  LET w(i) == TypeOf(ts, args[i]).w
  IN CASE op \in {"add_carry", "zext", "sext", "trunc", "dyn_slice"} -> t
       [] op = "slice" -> Word(n[1] - n[2] + 1)
       [] op \in {"bit", "dyn_bit", "reduce_or", "reduce_and", "reduce_xor"} -> Bool
       [] op \in {"write_slice", "write_bit", "dyn_write_slice", "dyn_write_bit"} -> TypeOf(ts, args[1])
       [] op = "concat" -> Word(FoldLeft(LAMBDA sum, o : sum + TypeOf(ts, o).w, 0, args))
       [] op = "repeat" -> Word(w(1) * n[1])
HardwareArgs(c, op, args, n) ==
  CASE op = "sext" -> [c |-> c, args |-> <<Signed(args[1])>>]
    [] op = "write_slice" -> CastLast(c, args, Word(n[1] - n[2] + 1))
    [] op \in {"write_bit", "dyn_write_bit"} -> CastLast(c, args, Bool)
    [] OTHER -> [c |-> c, args |-> args]
normalizeHardware(c, op, args, n, t) ==
  OpOn(HardwareArgs(c, op, args, n), op, hardwareRawType(c.types, op, args, n, t), n)

normalizeOperation(c, op, args, n, t) ==
  CASE op \in {"lnot", "bitnot", "neg", "plus"} -> normalizeUnary(c, op, args, t)
    [] op \in {"div", "mod", "mul", "shl", "shr"} \cup Arithmetic \cup Bitwise \cup Logical
         \cup Equality \cup Orders -> normalizeBinary(c, op, args, t)
    [] op = "mux" -> normalizeMux(c, args, t)
    [] op = "cast" -> castTo(c, args[1], t)
    [] OTHER -> normalizeHardware(c, op, args, n, t)

LookupOn(all, s, index) == Emit(all.c, [s EXCEPT !.args = <<index>> \o all.args])
normalizeLookup(c, s, args) == LookupOn(CastArgs(c, Tail(args), c.types[s.to[1]]), s, args[1])

\* The type that the elements and the value of a write are given.
WideType(ts, targets) ==
  FoldLeft(LAMBDA wide, x : IF ts[x] = wide THEN wide ELSE Word(Max({wide.w, ts[x].w})),
           ts[targets[1]], targets)
\* Mutant: the value is stored with its view.
WriteWithView(all, s, index) == Emit(all.c, [s EXCEPT !.args = <<index>> \o all.args])
WriteOn(all, s, index) ==
  Emit(all.c, [s EXCEPT !.args = <<index, Unsigned(all.args[1])>> \o Tail(all.args)])
normalizeLookupWrite(c, s, args) ==
  WriteOn(CastArgs(c, Tail(args), WideType(c.types, s.to)), s, args[1])

normalizeStmt(c, s) ==
  LET args == [i \in DOMAIN s.args |-> normalizeOperand(s.args[i])]
  IN CASE s.k = "assign" -> emitCastToTarget(Val(c, args[1]), s.to[1])
       [] s.k = "op" ->
            emitCastToTarget(normalizeOperation(c, s.op, args, s.n, c.types[s.to[1]]), s.to[1])
       [] s.k = "lookup" -> normalizeLookup(c, s, args)
       [] s.k = "write" -> normalizeLookupWrite(c, s, args)

\* The casts of a terminator's operands end the block.
SwitchOn(all, t, on) == [c |-> all.c, term |-> [t EXCEPT !.on = <<on>>, !.cases = all.args]]
BranchOn(r, t) == [c |-> r.c, term |-> [t EXCEPT !.on = <<r.o>>]]
normalizeTerminator(c, t) ==
  LET operands(args) == [i \in DOMAIN args |-> normalizeOperand(args[i])]
      on == operands(t.on)
  IN CASE t.kind = "branch" -> BranchOn(castToBool(c, on[1]), t)
       [] t.kind = "switch" ->
            SwitchOn(CastArgs(c, operands(t.cases), TypeOf(c.types, on[1])), t, on[1])
       [] OTHER -> [c |-> c, term |-> t]

-----------------------------------------------------------------------------
(* What is refused.                                                        *)

\* parseLiteral: digits that need more bits than the type has.
LiteralTooWide(o) ==
  o.kind = "lit" /\ IF o.t.bool THEN o.v \notin {0, 1} ELSE o.v >= 2^o.t.w \/ -o.v >= 2^o.t.w

\* The operands that may have a signed view (rejectSignedView).
SignedPositions(ts, s) ==
  CASE s.k = "write" -> {2}
    [] s.k = "assign" \/ s.op \in {"sext", "shr"} -> {1}
    [] s.op = "cast" -> IF ts[s.to[1]].w < TypeOf(ts, s.args[1]).w THEN {} ELSE {1}
    [] s.op \in {"mul"} \cup Orders -> {1, 2}
    [] OTHER -> {}
rejectSignedView(ts, s) == \E i \in DOMAIN s.args : s.args[i].sv /\ i \notin SignedPositions(ts, s)

BadDivisor(ts, a, d) ==
  LET w == TypeOf(ts, a).w
  IN \/ d.kind = "var"
     \/ d.v = 0
     \/ d.v < 2^w /\ ~isPowerOfTwo(d.v, w) /\ w > MaxMagicWidth

BadHardware(op, w, n, t) ==
  CASE op = "add_carry" -> t.w <= 1 \/ w[1] + 1 # t.w \/ w[2] + 1 # t.w \/ w[3] # 1
    [] op \in {"zext", "sext"} -> t.w < w[1]
    [] op = "trunc" -> t.w > w[1]
    [] op \in {"slice", "write_slice"} -> n[2] < 0 \/ n[1] < n[2] \/ n[1] >= w[1]
    [] op \in {"bit", "write_bit"} -> n[1] < 0 \/ n[1] >= w[1]
    [] op = "dyn_slice" -> t.w > w[1]
    [] op = "dyn_write_slice" -> w[3] > w[1]
    [] op = "concat" -> w = <<>>
    [] op = "repeat" -> n[1] <= 0
    [] OTHER -> FALSE

Refused(ts, s) ==
  \/ \E o \in ToSet(s.args) : LiteralTooWide(o)
  \/ rejectSignedView(ts, s)
  \/ s.op \in {"div", "mod"} /\ BadDivisor(ts, s.args[1], s.args[2])
  \/ s.k = "op" /\ BadHardware(s.op, [i \in DOMAIN s.args |-> TypeOf(ts, s.args[i]).w], s.n, ts[s.to[1]])

\* Cases that are constants of the switch's type must differ.
DuplicateCase(ts, t) ==
  LET type == TypeOf(ts, t.on[1])
      same(a) == a.kind = "lit" /\ a.t = type
  IN t.kind = "switch" /\ \E i, j \in DOMAIN t.cases :
       /\ i < j
       /\ same(t.cases[i]) /\ same(t.cases[j])
       /\ normalizeOperand(t.cases[i]).v = normalizeOperand(t.cases[j]).v
RefusedTerm(ts, t) == DuplicateCase(ts, t) \/ \E o \in ToSet(t.on) \cup ToSet(t.cases) : LiteralTooWide(o)

verifyNormProgram(f) ==
  \A b \in ToSet(f.blocks) :
    /\ \A s \in ToSet(b.stmts) :
         /\ s.k = "assign" => TypeOf(f.types, s.args[1]) = f.types[s.to[1]]
         /\ s.k = "op" => f.types[s.to[1]].w = s.w
         /\ s.k = "lookup" => \A o \in ToSet(Tail(s.args)) : TypeOf(f.types, o) = f.types[s.to[1]]
    /\ b.term.kind = "branch" => TypeOf(f.types, b.term.on[1]).bool

-----------------------------------------------------------------------------
(* What stage S7 hands over, as S8 checks it on the way: symbols that      *)
(* exist, and operations with the operands they need.                      *)

ScalarTypes == [w : Nat \ {0}, bool : BOOLEAN]
Operands(ts) == [kind : {"lit"}, v : Int, t : ScalarTypes, sv : BOOLEAN]
                \cup [kind : {"var"}, v : DOMAIN ts, sv : BOOLEAN]
Statements(ts) == [k : {"assign", "op", "lookup", "write"}, op : STRING, to : Seq(DOMAIN ts) \ {<<>>},
                   args : Seq(Operands(ts)), n : Seq(Int), w : Nat]
Terminators(ts) == [kind : STRING, on : Seq(Operands(ts)), cases : Seq(Operands(ts)), to : Seq(Nat)]

Arity(op) ==
  CASE op \in {"mux", "add_carry", "dyn_write_slice", "dyn_write_bit"} -> 3
    [] op \in {"div", "mod", "mul", "shl", "shr", "dyn_slice", "dyn_bit", "write_slice", "write_bit"}
         \cup Arithmetic \cup Bitwise \cup Logical \cup Equality \cup Orders -> 2
    [] OTHER -> 1
EnoughOperands(s) ==
  CASE s.k = "op" -> s.op = "concat" \/ Len(s.args) = Arity(s.op)
    [] s.k = "write" -> Len(s.args) >= 2
    [] OTHER -> s.args # <<>>
ScalarProgram(f) ==
  /\ f \in [types : Seq(ScalarTypes), entry : Nat, exit : Nat,
           blocks : Seq([stmts : Seq(Statements(f.types)), term : Terminators(f.types)]),
           ports : Seq([x : DOMAIN f.types, dir : {"in", "out"}])]
  /\ \A b \in ToSet(f.blocks) :
       /\ \A s \in ToSet(b.stmts) : EnoughOperands(s) /\ (s.k \in {"lookup", "write"} => s.op = s.k)
       /\ b.term.kind \in {"branch", "switch"} => b.term.on # <<>>
ASSUME ProgramsAreScalar == \A f \in Programs : ScalarProgram(f)

-----------------------------------------------------------------------------
Init ==
  /\ source \in Programs
  /\ types = source.types
  /\ blocks = <<>> /\ stmts = <<>> /\ next = 1 /\ verdict = "running"

c0 == [types |-> types, stmts |-> stmts]
InBlock == verdict = "running" /\ Len(blocks) < Len(source.blocks)
Block0 == source.blocks[Len(blocks) + 1]
AtStmt == InBlock /\ next <= Len(Block0.stmts)
AtTerm == InBlock /\ next > Len(Block0.stmts)

Extend(c) ==
  /\ Len(c.types) <= MaxSymbols
  /\ types' = c.types /\ stmts' = c.stmts /\ next' = next + 1
  /\ UNCHANGED <<source, blocks, verdict>>
NormalizeStmt(kind) ==
  /\ AtStmt
  /\ Block0.stmts[next].k = kind
  /\ ~Refused(types, Block0.stmts[next])
  /\ Extend(normalizeStmt(c0, Block0.stmts[next]))
NormalizeAssign == NormalizeStmt("assign")
NormalizeOp == NormalizeStmt("op")
NormalizeLookup == NormalizeStmt("lookup")
NormalizeLookupWrite == NormalizeStmt("write")

Close(r) ==
  /\ Len(r.c.types) <= MaxSymbols
  /\ types' = r.c.types
  /\ blocks' = Append(blocks, [stmts |-> r.c.stmts, term |-> r.term])
  /\ stmts' = <<>> /\ next' = 1
  /\ UNCHANGED <<source, verdict>>
NormalizeTerminator ==
  AtTerm /\ ~RefusedTerm(types, Block0.term) /\ Close(normalizeTerminator(c0, Block0.term))

Stop(v) == verdict' = v /\ UNCHANGED <<source, types, blocks, stmts, next>>
Reject ==
  \/ AtStmt /\ Refused(types, Block0.stmts[next]) /\ Stop("rejected")
  \/ AtTerm /\ RefusedTerm(types, Block0.term) /\ Stop("rejected")
\* createTemp: one more symbol than the limit allows.
RejectLimit ==
  \/ /\ AtStmt /\ ~Refused(types, Block0.stmts[next])
     /\ Len(normalizeStmt(c0, Block0.stmts[next]).types) > MaxSymbols
     /\ Stop("rejected")
  \/ /\ AtTerm /\ ~RefusedTerm(types, Block0.term)
     /\ Len(normalizeTerminator(c0, Block0.term).c.types) > MaxSymbols
     /\ Stop("rejected")

Normalised == [source EXCEPT !.types = types, !.blocks = blocks]
\* After StateUpgrade, which changes the type of nothing.
Verify ==
  /\ verdict = "running" /\ Len(blocks) = Len(source.blocks)
  /\ Stop(IF verifyNormProgram(Normalised) THEN "done" ELSE "unsound")

Finished == verdict # "running" /\ UNCHANGED vars

Next ==
  \/ NormalizeAssign \/ NormalizeOp \/ NormalizeLookup \/ NormalizeLookupWrite
  \/ NormalizeTerminator \/ Reject \/ RejectLimit \/ Verify \/ Finished

Spec == Init /\ [][Next]_vars

-----------------------------------------------------------------------------
(* Properties *)

Starts(f) ==
  LET top == 2^Max({1} \cup {f.types[x].w : x \in InputPorts(f)}) - 1
  IN {[x \in DOMAIN f.types |-> IF x \in InputPorts(f) THEN i[x] ELSE 0] :
        i \in {j \in [InputPorts(f) -> 0..top] : \A x \in InputPorts(f) : j[x] < 2^f.types[x].w}}
\* Temporaries start with any value: nothing reads them before it is written.
WithTemps(env) == [x \in DOMAIN types |-> IF x \in DOMAIN env THEN env[x] ELSE 0]

\* normalizeOperations keeps what the function computes, for all inputs: casts
\* extend by the view of the operand they replace, and a quotient or a
\* remainder that is multiplied and shifted together is exact.
NormalisingKeepsMeaning ==
  verdict = "done" => \A env \in Starts(source) :
    FlatOutputs(Normalised, WithTemps(env)) = FlatOutputs(source, env)

\* The program is what the later stages take for granted (verifyNormProgram,
\* and S11, which reads views): the verifier finds nothing, and a view is left
\* only where the operation itself reads the sign.
ViewsRead(s) ==
  IF s.k # "op" THEN {} ELSE IF s.op \in {"sext", "ashr"} THEN {1}
  ELSE IF s.op \in {"mul", "cast", "trunc", "reduce_or"} \cup Orders THEN DOMAIN s.args ELSE {}
NormalForm ==
  /\ verdict # "unsound"
  /\ \A b \in ToSet(blocks) : \A s \in ToSet(b.stmts) : \A i \in DOMAIN s.args :
       s.args[i].sv => i \in ViewsRead(s)
=============================================================================
