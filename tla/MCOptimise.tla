----------------------------- MODULE MCOptimise -----------------------------
(***************************************************************************)
(* Programs for Optimise: input ports 1 and 2 of two bits, 3 of one bit,   *)
(* a few signals, and the output port last.                                *)
(***************************************************************************)
EXTENDS ResetValues

In(name, w) == Signal(w, name, Driver("port", <<>>))
Tmp(w, d) == Signal(w, "", d)
Out(w, d) == Signal(w, "o", d)

Ins == << In("a", 2), In("b", 2), In("c", 1) >>
A == Sym(1, 2)
B == Sym(2, 2)
C == Sym(3, 1)

Part4(op, lo, hi) == Part(op, lo, hi, <<Sym(6, 4)>>)

-----------------------------------------------------------------------------
(* Two operations, and the first one again with its operands exchanged *)

Ops2 == {"add", "sub", "and", "or", "xor"}
Chains ==
  { Ins \o << Tmp(2, Driver(op1, <<x, y>>)), Tmp(2, Driver(op2, <<Sym(4, 2), z>>)),
              Tmp(2, Driver(op1, <<y, x>>)), Out(2, Driver("sub", <<Sym(5, 2), Sym(6, 2)>>)) >> :
      op1, op2 \in Ops2,
      x \in {A, Lit(2, 2)}, y \in {B, Lit(0, 2), Lit(3, 2)}, z \in {A, Lit(1, 2)} }
Nots ==
  { Ins \o << Tmp(2, Driver("not", <<x>>)), Tmp(2, Driver(op, <<Sym(4, 2), y>>)),
              Tmp(2, Driver("not", <<Sym(z, 2)>>)), Out(2, Driver("neg", <<Sym(6, 2)>>)) >> :
      x \in {A, Lit(2, 2), Lit(3, 2)}, op \in Ops2, y \in {A, Lit(0, 2)}, z \in {4, 5} }

-----------------------------------------------------------------------------
(* A selection of bits from a wider value, and a reader of it *)

Wide == {Driver("zext", <<A>>), Driver("sext", <<Signed(A)>>), Driver("concat", <<B, A>>),
         Driver("add", <<Sym(4, 4), Lit(3, 4)>>), Driver("mul", <<A, B>>),
         Driver("mul", <<Signed(A), Signed(B)>>), Driver("addc", <<Sym(4, 4), Sym(4, 4), C>>),
         Driver("or", <<Sym(4, 4), Lit(8, 4)>>), Driver("not", <<Sym(4, 4)>>),
         Driver("ite", <<C, Sym(4, 4), Sym(5, 4)>>), Driver("wslice", <<Lit(0, 4), A>>),
         Driver("shl", <<Sym(4, 4), B>>), Driver("shl", <<Sym(5, 4), Lit(1, 2)>>),
         Driver("shr", <<Signed(Sym(5, 4)), B>>), Driver("shr", <<Sym(4, 4), Lit(1, 2)>>)}
WideOf(d) == IF d.op = "wslice" THEN [d EXCEPT !.hi = 1] ELSE d
Cuts == {<<2, Driver("trunc", <<Sym(6, 4)>>)>>, <<1, Driver("trunc", <<Sym(6, 4)>>)>>,
         <<4, Part4("slice", 0, 3)>>, <<2, Part4("slice", 1, 2)>>, <<3, Part4("slice", 1, 3)>>,
         <<2, Part4("slice", 2, 3)>>, <<1, Part4("bit", 3, 3)>>}
Readers(w) ==
  {<<w, Assign(Sym(7, w))>>, <<1, Driver("eq", <<Sym(7, w), Lit(1, w)>>)>>,
   <<w + 2, Driver("concat", <<Sym(7, w), B>>)>>, <<5, Driver("zext", <<Sym(7, w)>>)>>,
   <<5, Driver("sext", <<Signed(Sym(7, w))>>)>>}
Bases == << Tmp(4, Driver("zext", <<B>>)), Tmp(4, Driver("sext", <<Signed(B)>>)) >>

\* A signed reader of bits that are known to be zero, or that cross into a
\* sign, is what SignFills is about.
LosesSign(d, cut, reader) ==
  \/ d.op = "sext" /\ cut[2].op = "slice" /\ cut[2].lo = 1
  \/ reader[2].op = "sext" /\ d.op \notin {"concat", "sext"}
Selections ==
  UNION {{ Ins \o Bases \o << Tmp(4, WideOf(d)), Tmp(cut[1], cut[2]), Tmp(r[1], r[2]), Out(r[1], Assign(Sym(8, r[1]))) >> :
             r \in {q \in Readers(cut[1]) : ~LosesSign(d, cut, q)}} : d \in Wide, cut \in Cuts}

-----------------------------------------------------------------------------
(* Selections between values *)

Muxes ==
  { Ins \o << Tmp(2, Driver("ite", <<g, x, B>>)),
              Tmp(2, Driver("ite", IF first THEN <<h, Sym(4, 2), y>> ELSE <<h, y, Sym(4, 2)>>)),
              Out(2, Assign(Sym(5, 2))) >> :
      g, h \in {C, Lit(0, 1), Lit(1, 1)}, x \in {A, Lit(2, 2)}, y \in {A, B}, first \in BOOLEAN }
Cases ==
  { Ins \o << Tmp(1, Driver("eq", <<s, Lit(0, 2)>>)), Tmp(1, Driver("eq", <<Lit(1, 2), s>>)),
              Tmp(2, Driver("case", <<Sym(4, 1), x, Sym(5, 1), y, z>>)),
              Out(4, Driver("zext", <<Sym(6, 2)>>)) >> :
      s \in {A, Lit(0, 2), Lit(1, 2), Lit(2, 2)}, x, y, z \in {A, B, Lit(1, 2)} }

-----------------------------------------------------------------------------
(* Selections and writes at a place that is computed or constant *)

Four == Tmp(4, Driver("concat", <<B, A>>))
Places ==
  { Ins \o << Four, Tmp(2, Driver(op, <<x, Lit(1, 2)>>)), Tmp(d[1], d[2]), Out(d[1], Assign(Sym(6, d[1]))) >> :
      op \in {"add", "and", "xor"}, x \in {A, Lit(1, 2), Lit(2, 2)},
      d \in {<<2, Driver("dslice", <<Sym(4, 4), Sym(5, 2)>>)>>, <<1, Driver("dbit", <<Sym(4, 4), Sym(5, 2)>>)>>,
             <<4, Driver("dwslice", <<Sym(4, 4), Sym(5, 2), B>>)>>,
             <<4, Driver("dwbit", <<Sym(4, 4), Sym(5, 2), C>>)>>} }
Writes ==
  { Ins \o << Four, Tmp(w[1], w[2]), Tmp(1, Driver(op, <<x>>)), Out(w[1] + 1, Driver("concat", <<Sym(5, w[1]), Sym(6, 1)>>)) >> :
      w \in {<<2, Part("wslice", 0, 1, <<A, B>>)>>, <<4, Part("wslice", 1, 2, <<Sym(4, 4), A>>)>>,
             <<4, Part("wbit", 3, 3, <<Sym(4, 4), C>>)>>, <<1, Part("wbit", 0, 0, <<Lit(0, 1), C>>)>>,
             <<2, Part("slice", 0, 1, <<A>>)>>, <<1, Part("bit", 0, 0, <<C>>)>>},
      op \in {"ror", "rand", "rxor"}, x \in {C, A, Sym(4, 4), Lit(2, 2), Lit(3, 2)} }

\* Conditions, and comparisons of values that are known in part.
Conditions ==
  { Ins \o << Tmp(4, Driver("zext", <<A>>)), Tmp(4, Driver(ext, <<B>>)), Tmp(1, Driver(op, <<Sym(4, 4), y>>)),
              Tmp(1, Driver(join, <<Sym(6, 1), z>>)), Out(1, Driver("lnot", <<Sym(7, 1)>>)) >> :
      op \in {"eq", "ne", "lt", "ge"}, ext \in {"zext", "concat"},
      y \in {Sym(5, 4), Lit(2, 4), Lit(9, 4)}, join \in {"land", "lor"}, z \in {C, Lit(0, 1), Lit(1, 1)} }

\* A right shift that fills with the sign of a value with zeros in front, and
\* a shift of a value whose sign is in front.
SignFills ==
  { Ins \o << Tmp(4, Driver("zext", <<A>>)), Tmp(4, Driver("shr", <<Signed(Sym(4, 4)), n>>)), Out(4, Assign(Sym(5, 4))) >> :
      n \in {B, Lit(1, 2)} }
  \cup
  { Ins \o << Tmp(4, Driver("sext", <<Signed(A)>>)), Tmp(4, Driver("shr", <<Sym(4, 4), Lit(1, 2)>>)),
              Out(4, Assign(Sym(5, 4))) >> }

\* Every operation that may read its operands as signed.
Views ==
  { Ins \o << Tmp(4, Driver("sext", <<Signed(B)>>)), Tmp(o[2], Driver(o[1], <<x, y>>)), Out(o[2], Assign(Sym(5, o[2]))) >> :
      o \in {<<"add", 2>>, <<"sub", 2>>, <<"mul", 2>>, <<"mul", 4>>} \cup {"lt", "le", "gt", "ge", "eq"} \X {1},
      x \in {A, Signed(A)}, y \in {B, Signed(B)} }
  \cup
  { Ins \o << Tmp(4, Driver("sext", <<Signed(B)>>)), Tmp(w, Driver(op, <<x, y>>)), Out(w, Assign(Sym(5, w))) >> :
      w \in {2, 4}, op \in {"shl", "shr"}, x \in {A, Signed(A), Signed(Sym(4, 4))}, y \in {B, Sym(4, 4)} }

\* The local passes, and one half of them or the other.
Local == {"fold_assign_chains", "constant_folding", "width_simplification", "algebraic_identities",
          "common_subexpressions", "dead_node_elimination"}
Widths == {"constant_folding", "width_simplification"}
OfValues == Chains \cup Nots \cup Muxes \cup Cases \cup Views
OfBits == Selections \cup Places \cup Writes \cup Conditions
LocalPrograms == (OfValues \X {Local, Local \ Widths}) \cup (OfBits \X {Local, Widths})

-----------------------------------------------------------------------------
(* Chains of updates of bit ranges, with an alias between them *)

Over(lo, hi, base, v) == Part("wslice", lo, hi, <<base, v>>)
Updates ==
  { Ins \o << Four, Tmp(4, Over(r[1], r[2], x, A)), Tmp(4, Assign(Sym(5, 4))), Tmp(4, Over(q[1], q[2], Sym(6, 4), y)),
              Out(4, Over(2, 3, Sym(7, 4), z)), Signal(4, "other", Driver("not", <<Sym(other, 4)>>)) >> :
      r \in {<<0, 1>>, <<1, 2>>}, q \in {<<0, 0>>, <<1, 3>>, <<2, 3>>}, x \in {Sym(4, 4), Lit(5, 4)}, y \in {B, C},
      z \in {C, Sym(4, 4)}, other \in {4, 6} }

(* A chain of one operation, whose inside is read once more or is not *)

ChainsOf3 ==
  { Ins \o << In("e", 2), Tmp(2, Driver(op, <<A, B>>)), Tmp(2, Driver(op, <<Sym(5, 2), y>>)),
              Tmp(2, Driver(op2, <<Sym(6, 2), z>>)), Out(2, Driver(op, <<Sym(7, 2), Sym(4, 2)>>)),
              Signal(2, "other", Driver("not", <<Sym(other, 2)>>)) >> :
      op, op2 \in {"add", "and", "xor"}, y \in {Lit(1, 2), Signed(A), Sym(4, 2)}, z \in {B, Sym(5, 2)}, other \in {2, 6} }

-----------------------------------------------------------------------------
(* Trees of selections, with conditions that are related *)

Is(o, k) == Driver("eq", <<o, Lit(k, 2)>>)
ZeroIs == Tmp(1, Is(A, 0))                 \* signal 4
OneIs == Tmp(1, Is(A, 1))                  \* signal 5
Eq0 == Sym(4, 1)
Eq1 == Sym(5, 1)

MuxTrees ==
  { Ins \o << ZeroIs, OneIs, Tmp(2, Driver("ite", <<c1, A, Lit(2, 2)>>)),
              Tmp(2, Driver("ite", IF first THEN <<c2, Sym(6, 2), B>> ELSE <<c2, B, Sym(6, 2)>>)),
              Tmp(2, Driver("ite", <<c3, Sym(7, 2), y>>)), Out(2, Assign(Sym(8, 2))) >> :
      c1, c2, c3 \in {C, Eq0, Eq1}, first \in BOOLEAN, y \in {A, Sym(6, 2), Sym(7, 2)} }

\* Cases whose conditions overlap, or contain each other.
Guard(k, g) == CASE g = 1 -> Driver("and", <<Eq0, C>>) [] g = 2 -> Driver("or", <<Eq1, C>>)
                 [] g = 3 -> Driver("lnot", <<Eq1>>) [] g = 4 -> Driver("bit", <<A>>)
                 [] g = 5 -> Driver("ne", <<Lit(2, 2), A>>) [] g = 6 -> Driver("lor", <<C, Sym(k, 1)>>)
GuardCases ==
  { Ins \o << ZeroIs, OneIs, Tmp(1, Guard(4, g)), Tmp(1, Guard(6, h)),
              Out(2, Driver("case", <<Sym(6, 1), A, Sym(7, 1), Lit(1, 2), Eq0, B, Lit(3, 2)>>)) >> :
      g \in 1..5, h \in 1..6 }

-----------------------------------------------------------------------------
(* A selection whose value matters only where another one takes a side: its *)
(* condition is that of the other, one that excludes it, or has a part that *)
(* is settled there. The last family has a write port.                      *)

InnerGuard(k) == CASE k = 1 -> Driver("assign", <<Eq1>>) [] k = 2 -> Driver("lnot", <<Eq0>>)
              [] k = 3 -> Driver("and", <<Eq1, C>>) [] k = 4 -> Driver("and", <<C, Sym(6, 1)>>)
              [] k = 5 -> Driver("lnot", <<Sym(6, 1)>>)
Sinks ==
  { Ins \o << ZeroIs, OneIs, Tmp(1, Driver("and", <<Eq0, C>>)), Tmp(1, InnerGuard(k)), Tmp(1, Driver("lnot", <<Sym(7, 1)>>)),
              Tmp(2, Driver("ite", <<i, A, B>>)), Tmp(2, Driver("xor", <<Sym(9, 2), B>>)),
              Out(2, Driver("ite", IF then THEN <<o, Sym(10, 2), x>> ELSE <<o, x, Sym(10, 2)>>)) >> :
      k \in 1..5, i \in {Sym(7, 1), Sym(8, 1)}, o \in {Eq0, C, Sym(6, 1)}, then \in BOOLEAN, x \in {A, Sym(9, 2)} }
WritePorts ==
  { Ins \o << ZeroIs, OneIs, Tmp(1, Driver("and", <<Eq0, C>>)), Tmp(1, InnerGuard(k)),
              Signal(2, "wdata", Driver("ite", <<i, A, B>>)), Signal(1, "wen", Assign(e)),
              Out(2, Driver("not", <<Sym(other, 2)>>)) >> :
      k \in 1..5, i \in {Sym(7, 1), Eq1, C}, e \in {Eq0, Sym(7, 1), C}, other \in {2, 8} }

-----------------------------------------------------------------------------
(* Control logic over a bit and comparisons of one value *)

Lesser == Tmp(1, Driver("lt", <<A, Lit(1, 2)>>))   \* signal 6
Third(j) == IF j = 1 THEN Lesser ELSE Tmp(1, Driver("ge", <<Signed(A), Signed(B)>>))
Bits == {C, Eq0, Sym(6, 1)}
Gates(u, v, w) == {Driver(op, <<u, v>>) : op \in {"and", "lor", "eq"}}
                    \cup {Driver("ite", <<u, v, w>>), Driver("case", <<Eq0, u, Eq1, w, u>>), Driver("lnot", <<u>>)}
Control(j, g, h, x, y) ==
  Ins \o << ZeroIs, OneIs, Third(j), Tmp(1, g), Tmp(1, h), Tmp(1, Driver("xor", <<Sym(8, 1), x>>)),
            Signal(1, "q", Driver("lnot", <<Sym(y, 1)>>)), Out(2, Driver("ite", <<Sym(9, 1), A, B>>)) >>
GatesOver == Gates(C, Eq0, Sym(6, 1)) \X Gates(Sym(7, 1), Eq1, C)
Controls == {Control(j, gh[1], gh[2], Eq1, 8) : j \in {1, 2}, gh \in GatesOver}
              \cup {Control(1, gh[1], gh[2], Sym(6, 1), 7) : gh \in GatesOver}
FewControls == {Control(j, gh[1], gh[2], Eq1, 8) : j \in {1, 2}, gh \in {x \in GatesOver : x[1].op # x[2].op /\ x[2].op \in {"and", "ite"}}}

\* One pass alone, or all of them.
Alone(pass) == {pass, "dead_node_elimination"}
Structural ==
  UNION {Updates \X {Alone("bit_range_update_coalescing")},
         ChainsOf3 \X {Alone("balance_trees")},
         (MuxTrees \cup GuardCases) \X {Alone("exclusive_muxes")},
         (Sinks \cup WritePorts) \X {Alone("predicate_sinking")},
         Controls \X {Alone("boolean_control_normalization")}}
Whole == (FewControls \cup MuxTrees \cup Sinks \cup WritePorts) \X {Options}
StructuralPrograms == Structural \cup Whole

AllPrograms == LocalPrograms \cup StructuralPrograms
=============================================================================
