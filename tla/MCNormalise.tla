---------------------------- MODULE MCNormalise ----------------------------
(***************************************************************************)
(* Functions of one operation for every small choice of widths and views,  *)
(* divisions by every constant, and a few blocks with other statements.    *)
(* Symbols: 1 to 3 are inputs, 4 is the output, 5 and 6 are locals.        *)
(***************************************************************************)
EXTENDS Normalise

A == Use(1)
B == Use(2)
C == Use(3)
O == Use(4)

W(n) == Word(n)
Block(body, term) == [stmts |-> body, term |-> term]
Function(ins, out, bodies) ==
  [types |-> ins \o <<out, out, out>>, entry |-> 1, exit |-> Len(bodies), blocks |-> bodies,
   ports |-> <<[x |-> 1, dir |-> "in"], [x |-> 2, dir |-> "in"],
               [x |-> 3, dir |-> "in"], [x |-> 4, dir |-> "out"]>>]
One(ins, out, s) == Function(ins, out, <<Block(<<s>>, Exit)>>)
Views(o) == {o, Signed(o)}

Words == {W(1), W(2), W(3)}
Types == Words \cup {Bool}

Binary ==
  {One(<<a, b, Bool>>, t, Do(4, op, <<A, B>>, <<>>)) : a, b \in Types, t \in {W(1), W(3), W(4)},
     op \in Arithmetic \cup Bitwise \cup Logical \cup Equality}
Signedness ==
  {One(<<a, b, Bool>>, t, Do(4, op, <<x, y>>, <<>>)) : a, b \in Words, t \in {W(4), Bool},
     op \in Orders \cup {"mul"}, x \in Views(A), y \in Views(B)}
\* The narrower operand alone has a view.
LosesView(f) ==
  LET s == f.blocks[1].stmts[1]
  IN s.op \in Orders /\ \E i, j \in {1, 2} :
       s.args[i].sv /\ ~s.args[j].sv /\ TypeOf(f.types, s.args[i]).w < TypeOf(f.types, s.args[j]).w
Unary ==
  {One(<<a, a, Bool>>, t, Do(4, op, <<x>>, <<>>)) : a \in Types, t \in Words \cup {W(5)},
     op \in {"lnot", "neg", "bitnot", "plus", "cast"}, x \in Views(A)}
Casts ==
  {One(<<a, a, Bool>>, t, Copy(4, x)) : a \in Types, t \in Types \cup {W(5)}, x \in Views(A)}
  \cup {One(<<a, a, Bool>>, t, Copy(4, Const(1, t))) : a, t \in {W(2)}}
Literals ==
  {One(<<t, t, Bool>>, W(3), Do(4, "add", <<A, [Const(0, t) EXCEPT !.v = v]>>, <<>>)) :
     t \in {W(2), Bool}, v \in -4..5}
Shifts ==
  {One(<<a, b, Bool>>, t, Do(4, op, <<A, B>>, <<>>)) : a, b \in Words, t \in {W(3), W(4)}, op \in {"shl", "shr"}}
  \cup {One(<<a, b, Bool>>, a, Do(4, "shr", <<Signed(A), y>>, <<>>)) : a, b \in Words, y \in Views(B)}
Selected ==
  {One(<<a, b, c>>, t, Do(4, "mux", <<C, x, B>>, <<>>)) : a, b \in {W(1), W(3)}, c \in {W(2), Bool},
     t \in {W(2), W(3)}, x \in Views(A)}

Hardware ==
  LET on(ins, t, op, args, n) == One(ins, t, Do(4, op, args, n))
      ins(a) == <<a, W(2), W(1)>>
  IN {on(ins(a), t, op, <<x>>, <<>>) : a, t \in Words, op \in {"zext", "sext", "trunc"}, x \in Views(A)}
     \cup {on(ins(W(3)), t, "slice", <<A>>, n) : t \in Words, n \in (0..3) \X (-1..2)}
     \cup {on(ins(W(3)), t, "write_slice", <<A, B>>, n) : t \in {W(3), W(4)}, n \in (0..3) \X (0..2)}
     \cup {on(ins(W(3)), t, op, <<A>>, <<>>) : t \in {Bool, W(2)}, op \in {"reduce_or", "reduce_and", "reduce_xor"}}
     \cup {on(ins(W(3)), W(3), op, <<A>> \o v, <<i>>) : op \in {"bit"}, v \in {<<>>}, i \in -1..3}
     \cup {on(ins(W(3)), W(3), "write_bit", <<A, v>>, <<i>>) : v \in {B, C}, i \in -1..3}
     \cup {on(ins(W(3)), t, "dyn_slice", <<A, B>>, <<>>) : t \in {W(2), W(4)}}
     \cup {on(ins(W(3)), t, "dyn_bit", <<A, B>>, <<>>) : t \in {Bool, W(2)}}
     \cup {on(ins(W(3)), W(4), op, <<A, B, v>>, <<>>) : op \in {"dyn_write_bit", "dyn_write_slice"}, v \in {B, C}}
     \cup {on(ins(W(2)), W(n), "concat", <<A, B, C>>, <<>>) : n \in 4..6}
     \cup {on(ins(W(2)), W(4), "repeat", <<A>>, <<n>>) : n \in 0..2}
     \cup {on(ins(W(n)), W(3), "add_carry", <<A, B, C>>, <<>>) : n \in 2..3}

Divisions ==
  {One(<<W(w), Bool, Bool>>, t, Do(4, op, <<A, Const(d, W(6))>>, <<>>)) :
     w \in 1..5, d \in 0..33, op \in {"div", "mod"}, t \in {W(2), W(5), W(6)}}
  \cup {One(<<W(6), Bool, Bool>>, W(6), Do(4, op, <<A, d>>, <<>>)) :
          op \in {"div", "mod"}, d \in {Const(8, W(6)), Const(9, W(6)), B, Signed(Const(2, W(6)))}}
  \cup {Function(<<W(4), Bool, Bool>>, W(4),
                 <<Block(<<Do(4, "mod", <<A, Const(d, W(4))>>, <<>>)>>, Branch(A, 2, 2)), Block(<<>>, Exit)>>) :
          d \in 0..15}

Accesses ==
  {One(<<W(2), a, b>>, t, Select(4, i, <<B, x, Const(1, W(1))>>)) : a, b \in {W(1), W(3)}, t \in {W(2), W(3)},
     i \in {A, Signed(A), C}, x \in {C, Signed(C)}}
  \cup {One(<<W(2), a, b>>, t, Replace(<<5, 4>>, i, x, <<O, y>>)) : a, b \in {W(1), W(3)}, t \in {W(2), W(3)},
          i \in {A, C}, x \in Views(B), y \in {C, Const(2, W(2))}}

\* A value of one block is what the next one switches on.
Branching ==
  LET ins == <<W(2), W(1), Bool>>
      first == <<Do(5, "add", <<A, B>>, <<>>), Copy(4, C)>>
      arm(v) == Block(<<Do(4, "sub", <<O, Const(v, W(2))>>, <<>>)>>, Jump(4))
      f(t, u) == Function(ins, W(3), <<Block(first, t), arm(1), arm(2),
                                       Block(<<Do(4, "add", <<O, u>>, <<>>)>>, Exit)>>)
  IN {f(Branch(c, 2, 3), u) : c \in {C, A, Signed(A), Use(5), Const(1, Bool)}, u \in {A, Use(5)}}
     \cup {f(Switch(x, <<c, d>>, <<2, 3, 4>>), A) : x \in {A, B, Use(5)},
             c, d \in {Const(1, W(2)), Const(2, W(2)), Const(2, W(3)), C}}

Functions ==
  Binary \cup {f \in Signedness : ~LosesView(f)} \cup Unary \cup Casts \cup Literals \cup Shifts
  \cup Selected \cup Hardware \cup Divisions \cup Accesses \cup Branching
=============================================================================
