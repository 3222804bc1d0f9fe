----------------------------- MODULE MCCfgBuild -----------------------------
(***************************************************************************)
(* Functions for CfgBuild: every kind of loop around ifs, switches and     *)
(* inner loops whose branches act, break, continue or return.  Conditions  *)
(* are results of calls, so that the order of all tests is in the trace.   *)
(***************************************************************************)
EXTENDS CfgBuild

CONSTANTS Length   \* the number of calls a run makes at most

Bits == {0, 1}
AllOracles == [1..Length -> Bits]

Act(f) == Call(NoSymbol, f, <<>>, {})
Ask(f) == Call(1, f, <<>>, {})
C == Var(1)
Leave == ReturnOf(<<Lit(1, Bool)>>)
End == ReturnOf(<<Lit(2, Unsigned(2))>>)

Leaves == {<<>>, <<Act("a")>>, <<Break>>, <<Continue>>, <<Leave>>}
Ifs == {<<Ask("if"), If(C, yes, no)>> : yes, no \in Leaves \cup {<<Break, Act("dead")>>}}
Clauses(b1, b2) ==
  {<<[value |-> <<0>>, body |-> b1], [value |-> <<1>>, body |-> b2]>>,
   <<[value |-> <<1>>, body |-> b1], [value |-> <<>>, body |-> b2]>>,
   <<[value |-> <<>>, body |-> b1], [value |-> <<0>>, body |-> b2]>>}
Switches ==
  {<<Ask("switch"), SwitchOn(C, c)>> : c \in UNION {Clauses(b1, b2) : b1, b2 \in Leaves}}
Inner == {<<While(<<Ask("while")>>, C, i \o <<Act("b")>>)>> : i \in Ifs}
Bodies1 == Ifs \cup Switches \cup Inner

Loops(body) ==
  {For(<<Act("init")>>, <<Ask("for")>>, <<C>>, <<Act("step")>>, body),
   For(<<>>, <<>>, <<>>, <<Act("step")>>, body),
   While(<<Ask("loop")>>, C, body),
   DoWhile(<<Ask("do")>>, C, body)}

Function(body, returns) == [body |-> body, types |-> <<Bool>>, returns |-> returns]

Looping ==
  {Function(<<l, Act("z"), End>>, TRUE) : l \in UNION {Loops(b \o <<Act("y")>>) : b \in Bodies1}}
Straight ==
  {Function(<<Ask("if"), If(C, yes, no), Act("z")>>, FALSE) :
     yes, no \in {<<>>, <<Act("a")>>, <<ReturnOf(<<>>), Act("dead")>>}}
Falling ==
  {Function(<<Ask("if"), If(C, yes, no)>>, TRUE) : yes, no \in {<<Leave>>, <<Act("a")>>}}

Returning == {<<Leave>>, <<Act("a"), End>>}
Switching ==
  {Function(<<Ask("switch"), SwitchOn(C, c)>>, TRUE) :
     c \in UNION {Clauses(b1, b2) : b1, b2 \in Returning \cup {<<Act("a")>>}}}

Misplaced ==
  {Function(<<Break>>, FALSE), Function(<<Act("a"), Continue>>, FALSE),
   Function(<<ReturnOf(<<>>)>>, TRUE), Function(<<Leave>>, FALSE)}

Functions == Misplaced \cup Looping \cup Straight \cup Falling

\* Every statement of the functions' bodies, at whatever depth.
Parts(s) ==
  CASE s.k = "if" -> ToSet(s.yes) \cup ToSet(s.no)
    [] s.k = "for" -> ToSet(s.init) \cup ToSet(s.prelude) \cup ToSet(s.step) \cup ToSet(s.body)
    [] s.k \in {"while", "do"} -> ToSet(s.prelude) \cup ToSet(s.body)
    [] s.k = "switch" -> UNION {ToSet(c.body) : c \in ToSet(s.clauses)}
    [] OTHER -> {}
Within(stmts) == stmts \cup UNION {Parts(s) : s \in stmts}
AllStatements == Within(Within(Within(UNION {ToSet(p.body) : p \in Functions})))
=============================================================================
