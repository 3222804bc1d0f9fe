------------------------------ MODULE MCUpgrade ------------------------------
(***************************************************************************)
(* Functions for StateUpgrade.  Symbols: 1 an input word, 2 and 3 input    *)
(* conditions, 4 the output, 5 and 6 local words, 7 a local condition.     *)
(***************************************************************************)
EXTENDS StateUpgrade

W == Word(2)
L(v) == Lit(v, W)
A == Var(1)
C == Var(2)
D == Var(3)
O == Var(4)
X == Var(5)
Y == Var(6)
B == Var(7)

Block(stmts, term) == [stmts |-> stmts, term |-> term]
Function(blocks) ==
  [blocks |-> blocks, entry |-> 1, exit |-> Len(blocks),
   types |-> <<W, Bool, Bool, W, W, W, Bool>>,
   ports |-> <<[x |-> 1, dir |-> "in"], [x |-> 2, dir |-> "in"],
               [x |-> 3, dir |-> "in"], [x |-> 4, dir |-> "out"]>>]

Start == <<Assign(5, L(3)), Op(6, "add", <<A, L(2)>>), Assign(7, D)>>
Locals == {Assign(5, A), Op(6, "add", <<A, L(1)>>), Op(6, "add", <<X, Y>>), Assign(5, Y),
           Op(7, "eq", <<X, L(2)>>)}
Dynamic == {Op(6, "dyn_bit", <<A, C>>), Lookup(6, C, <<X, Y>>), LookupWrite(<<5, 6>>, C, A, <<X, Y>>)}
Ports == {Assign(4, X), Op(4, "add", <<O, Y>>)}
Stmts == Locals \cup Dynamic \cup Ports
Ends == {Assign(4, O), Assign(4, X), Op(4, "mux", <<B, Y, O>>)}

\* An arm of up to three statements, with a second arm or none.
Arms3 ==
  {Function(<<Block(Start, Branch(C, 2, 3)), Block(s, Jump(4)), Block(n, Jump(4)), Block(<<e>>, Exit)>>) :
     s \in SeqOf(Stmts, 2) \cup {<<a, b, c>> : a, b \in Locals, c \in Ports},
     n \in {<<>>, <<Assign(4, Y)>>, <<Assign(5, A)>>}, e \in Ends}
OneArm ==
  {Function(<<Block(start, Branch(C, 2, 3)), Block(s, Jump(3)), Block(<<e>>, Exit)>>) :
     start \in {Start, <<>>}, s \in SeqOf(Stmts, 2), e \in Ends}

\* A branch in an arm, on a condition from outside or from the arm.
Nested ==
  {Function(<<Block(Start, Branch(C, 2, 6)), Block(s, Branch(c, 3, 4)), Block(y, Jump(5)),
              Block(n, Jump(5)), Block(m, Jump(6)), Block(<<e>>, Exit)>>) :
     c \in {D, B}, s \in {<<>>} \cup {<<a>> : a \in Locals},
     y \in {<<a, b>> : a \in Locals, b \in Ports} \cup {<<a>> : a \in Dynamic},
     n, m \in {<<>>, <<Assign(4, Y)>>}, e \in Ends}

\* An arm of two blocks, and a switch, whose arms are left alone.
Longer ==
  {Function(<<Block(Start, Branch(C, 2, 4)), Block(<<a>>, Jump(3)), Block(<<b, c>>, Jump(4)),
              Block(<<e>>, Exit)>>) : a, b \in Locals, c \in Ports, e \in Ends}
Switches ==
  {Function(<<Block(Start, Switch(A, <<L(0), L(2)>>, <<2, 3, 4>>)), Block(<<a, b>>, Jump(4)),
              Block(<<b>>, Jump(4)), Block(<<e>>, Exit)>>) : a \in Locals, b \in Ports, e \in Ends}

\* A block reads a variable, and writes it later.
ReadsThenWrites(f) ==
  \E b \in Blocks(f) \ {1} : \E i, j \in DOMAIN f.blocks[b].stmts :
    /\ i <= j
    /\ Reads(f.blocks[b].stmts[i].args) \cap ToSet(f.blocks[b].stmts[j].to) \cap {5, 6, 7} # {}

All == Arms3 \cup OneArm \cup Nested \cup Longer \cup Switches
Functions == {f \in All : ~ReadsThenWrites(f)}
EarlyReads == {f \in All : ReadsThenWrites(f)}
=============================================================================
