----------------------------- MODULE MCFlatten -----------------------------
(***************************************************************************)
(* Programs of a top function and a few helpers, over words of one and two *)
(* bits, arrays of two and structs of two fields.                          *)
(***************************************************************************)
EXTENDS Flatten

W1 == Word(1)
W2 == Word(2)
Pair == Array(2, W2)
Row == Array(2, W1)
Rows == Array(2, Row)
Rec == Struct(<<W1, W2>>)
Recs == Array(2, Rec)

N(v) == Const(v, W2)
B(v) == Const(v, W1)
Param(x, mode) == [x |-> x, mode |-> mode]
Block(stmts, term) == [stmts |-> stmts, term |-> term]
\* The last block is the exit.
Fn(name, params, ret, types, blocks) ==
  [name |-> name, lambda |-> FALSE, params |-> params, ret |-> ret, types |-> types,
   blocks |-> blocks \o <<Block(<<>>, Exit)>>, entry |-> 1, exit |-> Len(blocks) + 1]
Straight(name, params, ret, types, stmts) == Fn(name, params, ret, types, <<Block(stmts, Jump(2))>>)

\* The symbols of the top function: 1 to 5 are output ports, 8 to 10 inputs.
TopTypes == <<Pair, Rec, Rows, Recs, W2, W2, Rec, W1, W1, W2, Bool>>
V == Use(5)
T == Use(6)
S == Use(2)
R == Use(7)
I == Use(8)
J == Use(9)
K == Use(10)
C == Use(11)
A(i) == Place(1, <<i>>)
M(i, j) == Place(3, <<i, j>>)
Rw(i) == Place(3, <<i>>)
Bs(i) == Place(4, <<i>>)
Sx == Place(2, <<Field(2)>>)
Si == Place(2, <<Field(1)>>)
Bx(i) == Place(4, <<i, Field(2)>>)
Bi(i) == Place(4, <<i, Field(1)>>)

TopParams == [x \in 1..5 |-> Param(x, "ref")] \o [x \in 1..3 |-> Param(7 + x, "value")]
Fill == <<Set(A(B(0)), K), Set(A(B(1)), N(1)), Set(Si, I), Set(Sx, N(2)),
          Set(M(B(0), B(1)), I), Set(M(B(1), B(0)), J), Set(Bi(B(0)), J), Set(Bi(B(1)), B(1)), Set(Bx(B(1)), K)>>
Top(blocks) == Fn("top", TopParams, NoSymbol, TopTypes, blocks)
Body(stmts) == Top(<<Block(Fill \o stmts, Jump(2))>>)
Program(top, callees) == [top |-> top, callees |-> callees]

-----------------------------------------------------------------------------
(* Helpers.                                                                *)

P == Use(1)
Q == Use(2)
Add(to, a, b) == Compute(to, "add", <<a, b>>)
Bump == Straight("bump", <<Param(1, "ref")>>, NoSymbol, <<W2>>, <<Add(P, P, N(1))>>)
\* An overload that calls the other one.
BumpRecord == Straight("bump", <<Param(1, "ref")>>, NoSymbol, <<Rec>>, <<Call("bump", <<>>, <<Place(1, <<Field(2)>>)>>)>>)
Lambda == [Straight("bump", <<Param(1, "ref")>>, NoSymbol, <<W2>>, <<Add(P, P, N(2))>>) EXCEPT !.lambda = TRUE]
LambdaOfRow == [Straight("bump", <<Param(1, "ref")>>, NoSymbol, <<Row>>, <<>>) EXCEPT !.lambda = TRUE]
Twice == Straight("twice", <<Param(1, "ref")>>, NoSymbol, <<W2>>,
                  <<Call("bump", <<>>, <<P>>), Call("bump", <<>>, <<P>>)>>)
AddTo == Straight("add_to", <<Param(1, "const_ref"), Param(2, "ref")>>, NoSymbol, <<W2, W2>>,
                  <<Add(Q, Q, P), Add(Q, Q, P)>>)
\* The lesser of two numbers, by an early return.
Least(sv) ==
  Fn("least", <<Param(1, "value"), Param(2, "value")>>, 3, <<W2, W2, W2, Bool>>,
     <<Block(<<Compute(Use(4), "lt", <<[P EXCEPT !.sv = sv], [Q EXCEPT !.sv = sv]>>)>>, Branch(Use(4), 2, 3)),
       Block(<<Set(Use(3), P)>>, Return),
       Block(<<Set(Use(3), Q)>>, Jump(4))>>)
StoreAt == Straight("store", <<Param(1, "ref"), Param(2, "value"), Param(3, "value")>>, NoSymbol,
                    <<Pair, W1, W2>>, <<Set(Place(1, <<Q>>), Use(3))>>)
MarkRow == Straight("mark", <<Param(1, "ref"), Param(2, "value")>>, NoSymbol, <<Row, W1>>,
                    <<Set(Place(1, <<Q>>), B(1))>>)
Touch == Straight("touch", <<Param(1, "ref")>>, NoSymbol, <<Rec>>,
                  <<Set(Place(1, <<Field(2)>>), Place(1, <<Field(1)>>)), Set(Place(1, <<Field(1)>>), B(0))>>)
Make == Straight("make", <<Param(1, "value"), Param(2, "const_ref")>>, 3, <<W1, W2, Rec>>,
                 <<Construct(Use(3), <<P, Q>>)>>)
Links == <<"one", "two", "three", "four", "five">>
Chain(n) == Straight(Links[n], <<>>, NoSymbol, <<>>, <<Call(Links[n + 1], <<>>, <<>>)>>)
Loop == Straight("loop", <<Param(1, "ref")>>, NoSymbol, <<W2>>, <<Call("back", <<>>, <<P>>)>>)
Back == Straight("back", <<Param(1, "ref")>>, NoSymbol, <<W2>>, <<Call("loop", <<>>, <<P>>)>>)
Moved == Straight("moved", <<Param(1, "rvalue_ref")>>, NoSymbol, <<W2>>, <<>>)

Helpers == <<Bump, BumpRecord, Twice, AddTo, Least(FALSE), StoreAt, MarkRow, Touch, Make>>

-----------------------------------------------------------------------------
(* Calls.                                                                  *)

WordPlaces == {A(I), A(B(1)), Sx, Bx(J), V}
Calls ==
  {<<Call("bump", <<>>, <<p>>)>> : p \in WordPlaces \cup {S, Bs(I)}}
  \cup {<<Call("twice", <<>>, <<p>>)>> : p \in WordPlaces}
  \cup {<<Call("add_to", <<>>, <<p, q>>)>> : p \in WordPlaces \cup {N(3)}, q \in {A(J), Sx}}
  \cup {<<Call("least", <<q>>, <<p, K>>)>> : p \in WordPlaces, q \in {A(J), V}}
  \cup {<<Call("store", <<>>, <<Use(1), i, K>>), Call("mark", <<>>, <<Rw(j), i>>), Call("touch", <<>>, <<r>>)>> :
          i \in {I, Si, B(1)}, j \in {J, B(0)}, r \in {S, Bs(I), Bs(B(0))}}
  \cup {<<Call("make", <<q>>, <<I, K>>), Set(Sx, q2)>> : q \in {R, Bs(J)}, q2 \in {A(I), Bx(J)}}
\* The call comes first, or in one branch.
Placed(call) ==
  {Body(call \o <<Set(V, A(I))>>),
   Top(<<Block(Fill \o <<Compute(C, "lt", <<I, J>>)>>, Branch(C, 2, 3)), Block(call, Jump(4)),
         Block(<<Set(V, N(3))>>, Return), Block(<<Set(A(I), V)>>, Jump(5))>>)}
CallPrograms == UNION {{Program(top, Helpers) : top \in Placed(call)} : call \in Calls}
SignedCompare ==
  {Program(Body(<<Call("least", <<V>>, <<K, N(1)>>)>>), <<Least(TRUE)>>)}
Lambdas == {Program(Body(<<Call("bump", <<>>, <<V>>)>>), cs) : cs \in {<<Bump, Lambda>>, <<LambdaOfRow, Bump>>}}

Limits == {Program(Body(<<Call(Links[n], <<>>, <<>>)>>), [i \in 1..4 |-> Chain(i)]
                   \o <<Straight(Links[5], <<>>, NoSymbol, <<>>, <<>>)>>) : n \in 1..4}
  \cup {Program(Body([i \in 1..n |-> Call("bump", <<>>, <<V>>)]), Helpers) : n \in {4, 10}}
Bad == {Program(Body(<<s>>), Helpers \o <<Loop, Back, Moved>>) :
          s \in {Call("loop", <<>>, <<V>>), Call("moved", <<>>, <<V>>), Call("bump", <<>>, <<N(1)>>),
                 Call("bump", <<>>, <<Rw(I)>>), Call("none", <<>>, <<>>), Call("bump", <<V>>, <<T>>)}}
  \cup {Program(Body(<<Call("bump", <<>>, <<V>>)>>), <<Bump, Bump>>),
        Program([Body(<<>>) EXCEPT !.ret = 6], <<>>)}

-----------------------------------------------------------------------------
(* Accesses and aggregates.                                                *)

Bits == {I, B(1), Si, M(I, J), Bi(J)}
Words == {A(i) : i \in Bits} \cup {Bx(i) : i \in {I, B(0), M(B(0), J)}} \cup {Sx, V, K}
Flags == {M(i, j) : i \in {I, B(0), Bi(J)}, j \in {J, B(1), Si}} \cup {Bi(I), Si}
Records == {S, R, Bs(I), Bs(B(1)), Bs(M(I, J)), Bs(Bi(J)), Bs(Si)}
RowPlaces == {Rw(I), Rw(B(0)), Rw(Si), Rw(M(B(0), J))}
Assignments ==
  {Set(p, q) : p \in Words \ {K}, q \in {A(I), Bx(M(B(0), J)), Sx}}
  \cup {Set(p, q) : p \in {A(I), Bx(I), V}, q \in Words} \cup {Set(p, q) : p, q \in Flags}
  \cup {Set(p, q) : p, q \in Records} \cup {Set(p, q) : p, q \in RowPlaces}

\* The symbols that the indices of an operand read.
RECURSIVE IndexSymbols(_)
IndexSymbols(o) ==
  UNION {{i.v} \cup IndexSymbols(i) : i \in {a \in Indices(o) : a.kind # "lit"}}
\* An index is an element of the variable that is assigned.
SelfIndexed(s) == s.to[1].v \in IndexSymbols(s.to[1]) \cup IndexSymbols(s.args[1])

SoundAssignments == {s \in Assignments : ~SelfIndexed(s)}
Others ==
  {Compute(C, "lt", <<A(I), [Bx(J) EXCEPT !.sv = TRUE]>>), Compute(A(I), "add", <<K, K>>),
   Compute(R, "mux", <<I, S, Bs(B(0))>>), Compute(R, "mux", <<I, S, Bs(J)>>), Compute(R, "add", <<S, S>>),
   Compute(T, "mux", <<M(I, J), A(I), Bx(J)>>),
   Construct(R, <<Bi(J), Bx(I)>>), Construct(R, <<Bs(I)>>), Construct(S, <<>>), Construct(V, <<A(I)>>),
   Construct(R, <<I>>), Construct(Bs(I), <<>>), [Construct(R, <<A(J), M(I, J)>>) EXCEPT !.n = <<2, 1>>],
   Set(V, A(Const(2, W2))), Set(M(I, Const(3, W2)), B(0))}
Read == <<Set(Sx, T), Set(Bs(J), R)>>
Statements ==
  {Program(Body(<<s>>), <<>>) : s \in SoundAssignments}
  \cup {Program(Body(<<s>> \o Read), <<>>) : s \in Others}
Terms ==
  {Program(Top(<<Block(Fill, t), Block(<<Set(V, N(1))>>, Return), Block(<<Set(V, N(2))>>, Jump(4))>>), <<>>) :
     t \in {Branch(M(I, J), 2, 3), Branch(Si, 3, 2), Switch(A(J), <<N(0), N(1)>>, <<2, 3, 2>>)}}
\* More leaves than are allowed: in the ports, a statement, a terminator.
Wide(n, stmts, t) ==
  Program(Fn("top", <<Param(1, "ref"), Param(2, "value")>>, NoSymbol, <<Array(n, W1), W1>>,
             <<Block(stmts, t), Block(<<>>, Jump(3))>>), <<>>)
At1 == Place(1, <<Use(2)>>)
TooWide == {Wide(40, <<>>, Jump(2)), Wide(39, <<Set(At1, At1)>>, Jump(2)), Wide(39, <<>>, Branch(At1, 2, 2))}

Sound == CallPrograms \cup SignedCompare \cup Lambdas \cup Limits \cup Bad \cup Statements \cup Terms \cup TooWide

-----------------------------------------------------------------------------
(* What the two stages get wrong.                                          *)

\* The index of the argument has the number of a variable of the callee.
Clashing ==
  {Program(Fn("top", <<Param(1, "ref"), Param(2, "value"), Param(3, "value")>>, NoSymbol, <<Pair, W1, W2>>,
              <<Block(<<Set(Place(1, <<B(1)>>), N(1)), Call("add", <<>>, <<Place(1, <<Use(2)>>), Use(3)>>)>>, Jump(2))>>),
           <<Straight("add", <<Param(1, "ref"), Param(2, "value")>>, NoSymbol, <<W2, W2>>, <<Add(P, P, Q)>>)>>)}
SelfIndexing == {Program(Body(<<s>>), <<>>) : s \in {a \in Assignments : SelfIndexed(a)}}
=============================================================================
