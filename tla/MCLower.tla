------------------------------- MODULE MCLower -------------------------------
(***************************************************************************)
(* Small loop-free functions of every shape S4 to S8 produce.  Symbols:    *)
(* 1 an input word, 2 and 3 input conditions, 4 the output, 5 and 6 local  *)
(* words, 7 a local condition.                                             *)
(***************************************************************************)
EXTENDS Beir

W == Word(2)
L(v) == Lit(v, W)
A == Var(1)
C == Var(2)
D == Var(3)
O == Var(4)
X == Var(5)
Y == Var(6)
B == Var(7)

\* A block is its statements and its terminator; the entry comes first.
Block(stmts, term) == [stmts |-> stmts, term |-> term]
Function(blocks, exit) ==
  [blocks |-> blocks, entry |-> 1, exit |-> exit,
   types |-> <<W, Bool, Bool, W, W, W, Bool>>,
   ports |-> <<[x |-> 1, dir |-> "in"], [x |-> 2, dir |-> "in"],
               [x |-> 3, dir |-> "in"], [x |-> 4, dir |-> "out"]>>]

SetX == {<<Assign(5, A)>>, <<Assign(5, L(1)), Op(5, "add", <<X, A>>)>>}
UseX == {<<Assign(4, X)>>, <<Op(4, "add", <<X, O>>)>>}
Writes2 == <<LookupWrite(<<5, 6>>, C, X, <<X, Y>>)>>
Either == {<<>>} \cup SetX \cup UseX

Straight == {Function(<<Block(s \o t, Exit)>>, 1) : s \in Either, t \in Either}

Diamond == {Function(<<Block(s, Branch(C, 2, 3)), Block(y, Jump(4)), Block(n, Jump(4)), Block(t, Exit)>>, 4) :
              s \in SetX \cup {<<>>}, y, n \in Either, t \in UseX}

OneArm == {Function(<<Block(s, Branch(C, 2, 3)), Block(y, Jump(3)), Block(t, Exit)>>, 3) :
             s, y, t \in Either}

SameTarget == {Function(<<Block(s, Branch(C, 2, 2)), Block(t, Exit)>>, 2) : s, t \in Either}

\* A condition computed inside a branch.
Nested == {Function(<<Block(s, Branch(C, 2, 6)),
                      Block(<<Op(7, "eq", <<A, L(k)>>)>>, Branch(B, 3, 4)),
                      Block(y, Jump(5)), Block(n, Jump(5)), Block(m, Jump(6)), Block(t, Exit)>>, 6) :
             k \in {0, 2}, s \in SetX, y, n, m \in {<<>>, <<Assign(5, L(2))>>, <<Op(5, "add", <<X, L(1)>>)>>},
             t \in {<<Assign(4, X)>>}}

\* Two clauses of a switch on the input, one target shared or not.
Switches == {Function(<<Block(s, Switch(A, <<L(0), L(2)>>, <<2, 2 + i, 4>>)),
                        Block(y, Jump(5)), Block(n, Jump(5)), Block(m, Jump(5)), Block(t, Exit)>>, 5) :
               i \in {0, 1}, s \in SetX \cup {<<>>}, y, n, m \in {<<>>, <<Assign(5, L(3))>>, <<Assign(4, A)>>},
               t \in UseX}

\* Code that no path reaches, with an edge into code that one does.
Dead == {Function(<<Block(s, Jump(3)), Block(y, Jump(3)), Block(t, Exit)>>, e) :
           s, y, t \in Either, e \in {2, 3}}

\* Two reached exits and an exit that is not reached; a loop.
Malformed == {Function(<<Block(<<>>, Branch(C, 2, 3)), Block(<<>>, Exit), Block(<<>>, Exit), Block(<<>>, Unreachable)>>, 4),
              Function(<<Block(<<>>, Branch(C, 2, 3)), Block(<<>>, Jump(1)), Block(<<>>, Exit)>>, 3),
              Function(<<Block(<<Assign(1, L(0))>>, Exit)>>, 1)}

\* Dynamic reads and writes: as many elements as the index has values, or
\* fewer, and a write of one element to another.
Pair == <<Assign(5, A), Assign(6, L(3))>>
Dynamic ==
  {Function(<<Block(Pair \o w \o <<Lookup(4, C, <<X, Y>>)>>, Branch(D, 2, 3)),
              Block(v, Jump(3)), Block(<<Op(4, "add", <<O, Y>>)>>, Exit)>>, 3) :
     w, v \in {Writes2, <<LookupWrite(<<5, 6>>, A, L(2), <<X, Y>>)>>,
               <<LookupWrite(<<5, 7>>, C, A, <<X, D>>), Op(6, "mux", <<B, X, Y>>)>>}}

\* The same case twice.
Twice == {Function(<<Block(<<>>, Switch(A, <<L(2), L(k)>>, <<2, 2, 3>>)), Block(<<>>, Jump(3)), Block(<<>>, Exit)>>, 3) :
            k \in {2, 3}}

\* A switch on a value computed in a block that some runs avoid.
LateSwitches ==
  {Function(<<Block(<<>>, Branch(C, 2, 5)), Block(<<Op(6, "add", <<A, L(1)>>)>>, Switch(Y, <<L(0)>>, <<3, 4>>)),
              Block(s, Jump(5)), Block(<<>>, Jump(5)), Block(<<Assign(4, A)>>, Exit)>>, 5) :
     s \in SetX \cup {<<>>}}

\* Three elements and an index of one bit.
NarrowIndex ==
  {Function(<<Block(Pair \o <<Assign(7, D), LookupWrite(<<5, 6, 7>>, C, L(2), <<X, Y, B>>),
                               Op(4, "mux", <<B, X, Y>>)>>, Exit)>>, 1)}

Functions == Straight \cup Diamond \cup OneArm \cup SameTarget \cup Nested \cup Switches
             \cup Twice \cup LateSwitches \cup Dead \cup Malformed \cup Dynamic
=============================================================================
