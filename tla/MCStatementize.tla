--------------------------- MODULE MCStatementize ---------------------------
(***************************************************************************)
(* Programs of a top function and four helpers.  The top function has the  *)
(* output ports a, an array of three words, o, two words that the struct s *)
(* is copied to, and y, and the inputs i, j and b.                         *)
(***************************************************************************)
EXTENDS Validate

W == Word(2)
List == Array(3, W)
Rec == Struct(<<W, W>>)
N(v) == LitE(v, W)
A == VarE("a", List)
S == VarE("s", Rec)
Pair == Array(2, W)
O == VarE("o", Pair)
Y == VarE("y", W)
I == VarE("i", W)
J == VarE("j", Word(1))
B == VarE("b", Bool)
X == VarE("x", W)
Z == VarE("z", W)
El(e) == IndexE(A, e)
Fd(f) == FieldE(S, f)
Add(l, r) == BinE("add", W, l, r)
Lt(l, r) == BinE("lt", Bool, l, r)
Eq(l, r) == BinE("eq", Bool, l, r)
Bump(e) == CallE("bump", W, <<e>>)
Less(l, r) == CallE("less", W, <<l, r>>)

Param(x, t, mode) == [x |-> x, t |-> t, mode |-> mode]
Fn(name, params, body) == [name |-> name, params |-> params, body |-> body]
Helpers ==
  <<Fn("bump", <<Param("x", W, "ref")>>, <<ReturnS(<<PostE("add", X)>>)>>),
    Fn("less", <<Param("x", W, "value"), Param("z", W, "const_ref")>>,
       <<SetS(X, BinE("sub", W, X, Z)), ReturnS(<<X>>)>>),
    Fn("make", <<Param("x", W, "value"), Param("z", W, "value")>>,
       <<DeclInit("s", Rec, CtorE(Rec, <<X, Z>>)), ReturnS(<<S>>)>>),
    Fn("clear", <<Param("x", W, "ref")>>, <<SetS(X, N(0)), ReturnS(<<>>)>>)>>
Make(l, r) == CallE("make", Rec, <<l, r>>)
Clear(e) == CallE("clear", W, <<e>>)

TopParams == <<Param("a", List, "ref"), Param("o", Pair, "ref"), Param("y", W, "ref"),
           Param("i", W, "value"), Param("j", Word(1), "value"), Param("b", Bool, "value")>>
Fill == <<DeclS("s", Rec), SetS(A, CtorE(List, <<N(1), I, N(2)>>)), SetS(Fd(1), N(1)), SetS(Fd(2), I)>>
Copied == <<SetS(IndexE(O, N(0)), Fd(1)), SetS(IndexE(O, N(1)), Fd(2))>>
Program(body) == <<Fn("top", TopParams, Fill \o body \o Copied)>> \o Helpers

-----------------------------------------------------------------------------
(* Where the order shows: an operand that is only a location is read by    *)
(* the statement that uses it, after what a later operand has written.     *)

RECURSIVE Names(_), Writes(_), Late(_), Disturbed(_), Partial(_)
Names(e) == (IF e.k = "var" THEN {e.name} ELSE {}) \cup UNION {Names(e.args[i]) : i \in DOMAIN e.args}
Root(e) == IF IsPlaceE(e) \/ e.k = "cast" THEN Names(IF e.k = "var" THEN e ELSE e.args[1]) ELSE {}
Writes(e) ==
  (CASE e.k \in {"set", "opset", "pre", "post"} -> Root(e.args[1])
     [] e.k = "call" -> UNION {Root(e.args[i]) : i \in DOMAIN e.args}
     [] OTHER -> {}) \cup UNION {Writes(e.args[i]) : i \in DOMAIN e.args}
\* What is read when the operand of e is used.
Late(e) ==
  CASE e.k = "var" -> {e.name}
    [] e.k \in {"index", "field", "cast"} -> UNION {Late(e.args[i]) : i \in DOMAIN e.args}
    [] e.k \in {"set", "opset", "pre"} -> Late(e.args[1])
    [] OTHER -> {}
IndexNames(e) == IF e.k = "index" THEN Names(e.args[2]) ELSE {}
InTurn(e) == IF e.k = "set" THEN <<e.args[2], e.args[1]>> ELSE e.args
Disturbed(e) ==
  \/ e.k \notin {"logic", "ternary"} /\ \E m, n \in DOMAIN e.args :
       m < n /\ Late(InTurn(e)[m]) \cap Writes(InTurn(e)[n]) # {}
  \/ e.k = "opset" /\ lvalueNeedsPrelude(e.args[1])
       /\ \/ Names(e.args[1]) \cap Writes(e.args[2]) # {}
          \/ Writes(e.args[1]) \cap Names(e.args[2]) # {}
  \/ e.k \in {"set", "opset", "pre"} /\ IndexNames(e.args[1]) \cap Root(e.args[1]) # {}
  \/ \E i \in DOMAIN e.args : Disturbed(e.args[i])
\* An arm of a choice that may not exist, and is looked at all the same.
Partial(e) == (e.k = "index" /\ e.args[2].k # "lit") \/ \E i \in DOMAIN e.args : Partial(e.args[i])
SpeculatesPast(e) == e.k = "ternary" /\ \E i \in 2..3 : Partial(e.args[i])

-----------------------------------------------------------------------------
Bare == {I, Y, El(I), Fd(2), N(1)}
Effects == {PostE("add", I), IncE("sub", Y), PostE("add", El(N(1))), SetE(Y, I), OpSetE("add", I, Y),
            Bump(I), Bump(El(I)), El(PostE("add", J)), SetE(El(PostE("add", J)), Y),
            Less(I, PostE("add", Y))}
Pure == {Add(I, Y), El(El(J)), Less(Fd(2), I), FieldE(Make(I, N(2)), 2), UnE("neg", W, Fd(2))}
Leaf == Bare \cup Effects \cup Pure

Calm(es) == {e \in es : ~Disturbed(e)}
Pairs == Calm({Add(l, r) : l \in Leaf, r \in Effects} \cup {Add(l, r) : l \in Effects, r \in Leaf}
                \cup {BinE("shl", W, l, r) : l \in Bare, r \in Effects})
Calls == Calm({Less(l, r) : l, r \in Bare \cup Effects} \cup {FieldE(Make(l, r), 2) : l, r \in Effects})
Targets == {Y, El(J), El(PostE("add", J)), El(Bump(I)), Fd(1), El(El(J)), El(Add(I, N(1)))}
Sets == Calm({SetE(l, r) : l \in Targets, r \in Leaf})
OpSets == Calm({OpSetE(op, l, r) : op \in {"add", "shl"}, l \in Targets, r \in Leaf})
Values == Pairs \cup Calls \cup Sets \cup OpSets

Conditions == {B, J, Lt(I, Y), Eq(PostE("add", I), N(1)), Eq(El(I), N(1)), UnE("lnot", Bool, B),
               Eq(Bump(Y), I), CastE(Bool, I)}
Logics == {LogicE(op, l, r) : op \in {"land", "lor"}, l, r \in Conditions}
Deep == {LogicE(op, LogicE("land", B, l), r) : op \in {"land", "lor"},
           l \in {J, Eq(El(I), N(1))}, r \in {Eq(PostE("add", I), N(1)), Eq(Bump(Y), I)}}
Selections == Calm({e \in {TernE(q, l, r) : q \in {B, Eq(PostE("add", I), N(1)), LogicE("land", B, Eq(El(I), N(1)))},
                                        l, r \in {I, Fd(2), Bump(Y), PostE("add", I), SetE(Y, I), Less(I, Y), Add(I, Y)}}
                 : ~SpeculatesPast(e)})

\* Numbers with a sign, in the operations that look at it.
W3 == Word(3)
Views == {AsView(I), AsSigned(I), CastE(W, I), AsSigned(CastE(W, I)), AsSigned(CastE(W3, AsSigned(I)))}
Signs ==
  {SetS(VarE("t", W3), e) : e \in Views \cup
     {BinE("mul", W3, l, r) : l, r \in {AsView(I), AsSigned(Y), I}} \cup
     {BinE("shr", W, l, J) : l \in {AsView(I), AsSigned(Y), I}} \cup
     {[TernE(B, l, r) EXCEPT !.sg = "view"] : l, r \in {AsView(I), AsView(Y)}}}
  \cup {SetS(VarE("t", W3), CastE(W3, BinE(op, Bool, l, r))) :
     op \in {"lt", "ge"}, l, r \in {AsView(I), AsSigned(Y), AsView(LitE(3, W))}}
\* Operations on bits; a dynamic write holds its value before its index.
Bits ==
  Calm({HwE("concat", Word(4), <<>>, <<l, r>>) : l, r \in {I, PostE("add", Y), Bump(I)}} \cup
       {HwE("slice", Word(1), <<1, 1>>, <<l>>) : l \in {I, Bump(Y)}} \cup
       {HwE("dyn_write_bit", W, <<>>, <<l, v, n>>) : l \in {I, Bump(Y)}, v \in {B, Eq(PostE("add", Y), N(1))},
          n \in {J, PostE("add", J)}})

Signed1(s) == Program(<<SetS(Y, N(3)), DeclS("t", W3), s, IfS(Lt(VarE("t", W3), LitE(4, W3)), <<SetS(Y, N(0))>>, <<>>),
                        SetS(Fd(1), CastE(W, VarE("t", W3)))>>)
Expressions ==
  {Program(<<SetS(Y, e)>>) : e \in Pairs \cup Calls \cup Selections}
  \cup {Program(<<ExprS(e)>>) : e \in Sets \cup OpSets \cup Calm(Effects)}
  \cup {Program(<<SetS(l, r)>>) : l \in Targets,
          r \in {Bump(I), Less(I, J), SetE(Y, I), Add(I, Bump(Y)), CtorE(W, <<Bump(I)>>)}}
  \cup {Program(<<SetS(S, r), SetS(A, CtorE(List, <<Bump(I), I, Fd(1)>>))>>) : r \in {Make(I, Y), CtorE(Rec, <<>>), S}}
  \cup {Signed1(s) : s \in Signs}
  \cup {Program(<<SetS(Y, CastE(W, e))>>) : e \in Bits}

-----------------------------------------------------------------------------
\* Statements with bodies, their conditions and values with side effects.
Tests == {B, Lt(I, Y), Eq(El(Fd(1)), I), Eq(PostE("add", I), N(1)), Eq(Bump(Y), I)}
         \cup Deep \cup {LogicE("lor", Eq(I, N(3)), Eq(El(I), N(1)))}
Runs == {<<SetS(Y, Add(Y, I))>>, <<ExprS(Clear(El(J)))>>, <<DeclInit("i", W, N(3)), SetS(Y, I)>>}
Counted == {<<Lt(X, N(3)), PostE("add", X)>>, <<Lt(X, N(2)), OpSetE("add", X, N(2))>>,
            <<LogicE("land", Lt(X, N(3)), Lt(El(X), N(2))), PostE("add", X)>>,
            <<Lt(Bump(X), N(3)), IncE("add", El(J))>>}
Inside(t) == IfS(t, <<ContinueS>>, <<ExprS(OpSetE("add", Y, X)), IfS(Eq(X, I), <<BreakS>>, <<>>)>>)
Loops ==
  {<<ForS(<<DeclInit("x", W, N(0))>>, <<q[1]>>, <<q[2]>>, <<Inside(t)>>), SetS(Fd(2), Y)>> :
     q \in Counted, t \in {B, Eq(El(X), I)}}
  \cup {<<k, SetS(Fd(2), Y)>> :
     k \in {WhileS(q, <<IfS(B, <<ContinueS>>, <<BreakS>>)>>) : q \in {Lt(PostE("add", Y), N(3)), Lt(Bump(Y), I)}}}
  \cup {<<DoS(q, body), SetS(Fd(2), Y)>> :
     q \in {Lt(PostE("add", Y), N(2)), LogicE("land", B, Lt(Bump(Y), N(3)))},
     body \in {<<IfS(J, <<ContinueS>>, <<>>), ExprS(PostE("add", El(J)))>>,
               <<DeclInit("y", W, I), SetS(Fd(1), Y)>>}}
  \cup {<<DeclInit("x", W, I), ForS(<<SetS(X, N(0))>>, <<Lt(X, N(2))>>, <<>>, <<ExprS(IncE("add", X)), r[1]>>)>>
        : r \in Runs}
Switches ==
  {<<SwitchS(on, <<Clause(<<N(1)>>, first), Clause(second, <<SetS(Fd(1), Y)>>), Clause(<<v>>, <<SetS(Y, N(2))>>)>>)>> :
     on \in {I, PostE("add", I), Add(I, J)}, first \in {<<SetS(Y, I), BreakS>>, <<DeclInit("y", W, I), SetS(Fd(2), Y)>>},
     second \in {<<>>, <<N(2)>>}, v \in {N(0), Fd(1), Bump(Fd(1))}}
Scopes ==
  {<<DeclInit("x", W, I), BlockS(<<DeclInit("x", W, v)>> \o <<SetS(Y, X)>>), SetS(Fd(1), X)>> :
     v \in {N(2), Add(I, N(1)), Bump(Y)}}
  \cup {<<IfS(t, r, <<DeclInit("y", W, J), SetS(Fd(1), Y)>>), SetS(Fd(2), Y)>> : t \in Tests, r \in Runs}
  \cup {<<ConstructS(S, <<l, r>>), IfS(B, <<ReturnS(<<>>)>>, <<>>), SetS(Y, Fd(1))>> :
          l \in {I, Bump(I)}, r \in {N(1), Bump(Y)}}
  \cup {<<ConstructS(El(Bump(I)), <<Y>>), ExprS(CtorE(Rec, <<Bump(Y), J>>))>>,
        <<DeclInit("t", Rec, Make(Bump(I), I)), SetS(S, VarE("t", Rec))>>,
        <<DeclInit("t", Rec, CtorE(Rec, <<>>)), SetS(FieldE(VarE("t", Rec), 1), I), SetS(S, VarE("t", Rec))>>}

-----------------------------------------------------------------------------
\* Programs that S2 refuses, and some that it only nearly refuses.
Never(body) == IfS(LitE(0, Bool), body, <<>>)
Bodies ==
  {<<SetS(Y, CommaE(I, J))>>, <<SetS(Y, Add(Z, I))>>, <<BlockS(<<DeclInit("x", W, I)>>), SetS(Y, X)>>,
   <<DeclInit("x", W, X)>>, <<SetS(Y, X), DeclS("x", W)>>, <<DeclS("y", W)>>, <<BlockS(<<DeclS("y", W)>>)>>,
   <<DeclS("x", W), DeclS("x", Bool)>>, <<DeclS("x", W), BlockS(<<DeclS("x", Bool)>>), SetS(X, I)>>,
   <<IfS(B, <<DeclInit("x", W, I)>>, <<SetS(Y, X)>>)>>, <<IfS(B, <<DeclS("x", W)>>, <<DeclInit("x", W, I)>>)>>,
   <<BreakS>>, <<ContinueS>>, <<IfS(B, <<BreakS>>, <<>>)>>, <<SwitchS(I, <<Clause(<<>>, <<ContinueS>>)>>)>>,
   <<SwitchS(I, <<Clause(<<N(1)>>, <<IfS(B, <<BreakS>>, <<>>)>>)>>)>>,
   <<SwitchS(I, <<Clause(<<N(1)>>, <<DeclInit("x", W, I)>>), Clause(<<>>, <<SetS(Y, X)>>)>>)>>,
   <<SwitchS(I, <<Clause(<<N(1)>>, <<DeclS("x", W)>>), Clause(<<>>, <<DeclS("x", W)>>)>>)>>,
   <<WhileS(B, <<SwitchS(I, <<Clause(<<>>, <<IfS(J, <<ContinueS>>, <<BreakS>>)>>)>>), BreakS>>), BreakS>>,
   <<WhileS(Lt(X, I), <<DeclS("x", W), BreakS>>)>>, <<DoS(Lt(X, I), <<DeclS("x", W)>>)>>,
   <<ForS(<<DeclInit("x", W, N(0))>>, <<Lt(X, I)>>, <<IncE("add", X)>>, <<DeclS("x", W)>>)>>,
   <<ForS(<<DeclInit("x", W, N(0))>>, <<Lt(X, I)>>, <<IncE("add", X)>>, <<BlockS(<<DeclS("x", W)>>), BreakS>>)>>,
   <<ForS(<<>>, <<Lt(I, Y)>>, <<SetE(Y, X)>>, <<DeclInit("x", W, I), BreakS>>)>>,
   <<ForS(<<DeclInit("x", W, N(0))>>, <<B>>, <<>>, <<BreakS>>), SetS(Y, X)>>,
   <<ReturnS(<<I>>)>>, <<DeclS("x", Array(0, W))>>, <<DeclS("x", Struct(<<>>))>>, <<DeclS("x", Array(2, Rec))>>,
   <<SetS(Y, CallE("less", W, <<I>>))>>, <<SetS(Y, CallE("more", W, <<I>>))>>,
   <<Never(<<ExprS(CallE("top", W, <<A, O, Y, I, J, B>>))>>)>>}
IllTypedBodies ==
  {<<SetS(Y, SetE(Bump(I), J))>>, <<ExprS(PostE("add", N(1)))>>, <<SetS(S, CastE(Rec, A))>>}

\* More helpers, and calls of them that are never made.
One1(name, mode, t, body) == Fn(name, <<Param("x", t, mode)>>, body)
CallIn(name, e) == <<Never(<<SetS(Y, CallE(name, W, <<e>>))>>)>>
Calls1(name) == <<ReturnS(<<CallE(name, W, <<X>>)>>)>>
MoreHelpers ==
  {<<One1("f", "value", W, Calls1("f"))>>,
   <<One1("f", "value", W, Calls1("g")), One1("g", "value", W, Calls1("f"))>>,
   <<One1("f", "value", W, Calls1("g")), One1("g", "value", W, Calls1("h")), One1("h", "value", W, Calls1("g"))>>,
   <<One1("f", "value", W, Calls1("g")), One1("g", "value", W, Calls1("bump"))>>,
   <<One1("f", "value", W, Calls1("h")), One1("h", "value", W, <<>>), One1("g", "value", W, Calls1("h"))>>,
   <<One1("f", "value", W, <<>>), One1("f", "value", Word(1), <<>>)>>,
   <<One1("f", "value", W, <<>>), One1("f", "const_ref", Word(1), <<>>)>>,
   <<One1("f", "const_ref", W, <<>>), One1("f", "value", Word(1), <<>>)>>,
   <<One1("f", "value", W, <<>>), One1("f", "ref", W, <<>>)>>,
   <<One1("f", "value", W, <<>>), One1("f", "value", W, <<ReturnS(<<X>>)>>)>>,
   <<One1("f", "value", W, <<>>), Fn("f", <<>>, <<>>)>>,
   <<One1("f", "value", W, Calls1("f")), One1("f", "value", Word(1), <<>>)>>,
   <<One1("f", "value", W, <<ReturnS(<<CallE("f", W, <<VarE("z", Word(1))>>)>>)>>), One1("f", "value", Word(1), <<>>)>>,
   <<Fn("f", <<Param("x", W, "value"), Param("z", Word(1), "value")>>,
        <<ReturnS(<<CallE("f", W, <<VarE("z", Word(1))>>)>>)>>), One1("f", "value", Word(1), <<>>)>>,
   <<One1("f", "value", W, <<SetS(Y, X)>>)>>, <<One1("f", "value", W, <<DeclS("x", W)>>)>>,
   <<One1("f", "value", Struct(<<>>), <<>>)>>, <<One1("f", "pointer", W, <<>>)>>,
   <<Fn("f", <<Param("x", W, "value"), Param("x", W, "value")>>, <<>>)>>}
PortLists ==
  {<<Param("a", List, "ref"), Param("p", t, "ref")>> : t \in {Rec, Array(2, Rec), Array(2, Array(1, W)), Array(0, W), W}}
  \cup {<<Param("a", List, "ref"), Param("p", W, "pointer")>>, <<Param("a", W, "ref"), Param("a", W, "ref")>>}
Doubtful ==
  {Program(body) : body \in Bodies \cup IllTypedBodies}
  \cup {Program(CallIn("f", e)) \o more : e \in {I, J}, more \in MoreHelpers}
  \cup {<<Fn("top", ports, <<>>)>> : ports \in PortLists}

\* The order of reading that the stage promises and does not keep: the
\* operand is read after a later argument, or the left side, has changed it.
LateReads ==
  {Program(<<SetS(Y, Less(I, PostE("add", I)))>>), Program(<<SetS(El(PostE("add", J)), J)>>),
   Program(<<ExprS(OpSetE("add", El(PostE("add", J)), Add(J, N(0))))>>),
   Program(<<SetS(Y, TernE(Lt(I, N(3)), El(I), I))>>)}

Structured == {Program(p) : p \in Loops \cup Switches \cup Scopes}
Functions == Expressions \cup Structured \cup Doubtful
=============================================================================
