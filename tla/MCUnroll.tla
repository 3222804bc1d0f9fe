------------------------------ MODULE MCUnroll ------------------------------
(***************************************************************************)
(* Functions with counted loops.  Symbols: 1 a condition, 2 the counter,   *)
(* 3 a temporary, 4 an inner counter, 5 an accumulator, 6 the temporary    *)
(* that S3 puts the result of ++i in.                                      *)
(***************************************************************************)
EXTENDS Unroll

CONSTANT Length   \* the number of calls a run makes at most

\* Runs in which the calls return all the same but one.
Bits == {0, 1}
FewChanges ==
  {[i \in 1..Length |-> IF i = k THEN 1 - b ELSE b] : b \in Bits, k \in 0..Length}

C == Var(1)
I == Var(2)
T == Var(3)
J == Var(4)
Sum == Var(5)
U2 == Unsigned(2)
U3 == Unsigned(3)
S3 == Signed(3)

Log(f, args) == Call(NoSymbol, f, args, {})
Start1 == Log("start", <<I>>)
Ask == Call(1, "ask", <<>>, {})

\* The loop of the counter x of type t, in its three forms.
Init1(x, t, init) == <<Decl(x), Assign(x, Lit(init, t))>>
Cond(x, t, op, bound) == <<Op(1, op, Bool, Var(x), Lit(bound, t))>>
Increment == <<Decl(6), Op(6, "add", U3, I, Lit(1, U3)), Assign(2, Var(6))>>
Step1(x, t, op, step) == <<Op(x, op, t, Var(x), Lit(step, t))>>
Forms(x, t, init, op, bound, step, body) ==
  {<<For(Init1(x, t, init), Cond(x, t, op, bound), <<C>>, step, body)>>,
   Init1(x, t, init) \o <<While(Cond(x, t, op, bound), C, body \o step)>>,
   Init1(x, t, init) \o <<DoWhile(Cond(x, t, op, bound), C, body \o step)>>}

Function(body, t) ==
  [body |-> <<Decl(5), Assign(5, Lit(0, U3))>> \o body \o <<Log("end", <<I>>), ReturnOf(<<Sum>>)>>,
   types |-> <<Bool, t, U3, U2, U3, t>>, returns |-> TRUE]

-----------------------------------------------------------------------------
\* Every comparison, direction and width.
Counting ==
  UNION {UNION {{Function(l, t) : l \in
     Forms(2, t, init, op, bound, Step1(2, t, dir, step), <<Start1>>)} :
       init \in {0, 2}, op \in Compares, bound \in {0, 1, 3}, step \in {1, 2}, dir \in {"add", "sub"}} :
     t \in {U2, S3}}

\* The constant on the left.
Mirrored ==
  {Function(<<For(Init1(2, U3, init), <<Op(1, op, Bool, Lit(2, U3), I)>>, <<C>>,
                  Step1(2, U3, dir, 1), <<Start1>>)>>, U3) :
     init \in {0, 2, 3}, op \in Compares, dir \in {"add", "sub"}}

\* What a body may do with the counter and with control.
Exits == {<<>>, <<Break>>, <<Continue>>, <<ReturnOf(<<I>>)>>, <<Log("a", <<I>>)>>}
Temporary == <<Decl(3), Op(3, "add", U3, I, Lit(1, U3)), Log("t", <<T>>)>>
Branches == {<<Ask, If(C, yes, no)>> : yes, no \in Exits}
Paths == {<<Ask, Decl(3), If(C, <<Assign(3, I)>>, <<Op(3, "add", U3, I, Lit(k, U3))>>), Log("t", <<T>>)>> :
            k \in {0, 1}}
Switches ==
  {<<SwitchOn(I, <<[value |-> <<1>>, body |-> b1], [value |-> <<2>>, body |-> b2],
                   [value |-> <<>>, body |-> <<Log("d", <<I>>)>>]>>)>> :
     b1 \in Exits, b2 \in {<<>>, <<Break>>}}
Carried == {<<Op(5, "add", U3, Sum, I), Log("sum", <<Sum>>)>>,
            <<Log("before", <<T>>), Op(3, "mul", U3, I, Lit(2, U3)), Log("after", <<T>>)>>}
Skips == {<<Op(2, "add", U3, I, Lit(1, U3)), Log("i", <<I>>)>>,
          Temporary \o <<Assign(2, T)>>}
\* Inner loops step first, so that a continue does not skip the step.
StepJ == Step1(4, U2, "add", 1)
Inner(body) ==
  {<<For(Init1(4, U2, 0), Cond(4, U2, "lt", 2), <<C>>, StepJ, body)>>,
   Init1(4, U2, 0) \o <<While(Cond(4, U2, "lt", 2), C, StepJ \o body)>>,
   Init1(4, U2, 0) \o <<DoWhile(Cond(4, U2, "lt", 2), C, StepJ \o body)>>}
Nested ==
  UNION {Inner(b) : b \in {<<Log("in", <<I, J>>), Ask, If(C, e, <<>>)>> : e \in Exits}
                          \cup {<<Op(3, "add", U3, I, Lit(1, U3)), Log("in", <<T, J>>)>>}}
AfterInner == {b \o <<Ask, If(C, e, <<>>)>> : b \in Inner(<<Log("in", <<J>>)>>), e \in Exits \ {<<Continue>>}}

Bodies1 == {Temporary} \cup Branches \cup Paths \cup Switches \cup Carried \cup Skips
             \cup Nested \cup AfterInner

Working ==
  UNION {{Function(l, U3) :
            l \in Forms(2, U3, 0, "lt", 3, Increment, <<Start1>> \o b \o <<Log("b", <<I>>)>>)} :
         b \in Bodies1}

\* Two loops, one after the other.
Sequel ==
  {Function(a \o b, U3) :
     a \in Forms(2, U3, 0, "lt", 2, Step1(2, U3, "add", 1), <<Start1, Ask, If(C, <<Break>>, <<>>)>>),
     b \in Inner(<<Log("in", <<I, J>>)>>)}

-----------------------------------------------------------------------------
\* The functions of the runs that disagree with the documentation.
Three(body) ==
  <<For(Init1(2, U3, 0), Cond(2, U3, "lt", 3), <<C>>, Step1(2, U3, "add", 1), <<Start1>> \o body)>>
UpTo(x, body) ==
  <<For(Init1(2, U3, 0), <<Op(1, "lt", Bool, I, Var(x))>>, <<C>>, Step1(2, U3, "add", 1),
        <<Start1>> \o body)>>

\* n = 3; for (i = 0; i < n; ++i) n = 2;
ChangingBounds == {Function(<<Assign(3, Lit(3, U3))>> \o UpTo(3, <<Assign(3, Lit(2, U3))>>), U3)}
\* n = 3; bump(n); for (i = 0; i < n; ++i) ;
ReferenceArguments ==
  {Function(<<Assign(3, Lit(2, U3)), Call(NoSymbol, "bump", <<T>>, {1})>> \o UpTo(3, <<>>), U3)}

Functions == Counting \cup Mirrored \cup Working \cup Sequel

\* Every statement of the functions' bodies, at whatever depth.
Parts(s) ==
  CASE s.k = "if" -> ToSet(s.yes) \cup ToSet(s.no)
    [] s.k = "for" -> ToSet(s.init) \cup ToSet(s.prelude) \cup ToSet(s.step) \cup ToSet(s.body)
    [] s.k \in {"while", "do"} -> ToSet(s.prelude) \cup ToSet(s.body)
    [] s.k = "switch" -> UNION {ToSet(c.body) : c \in ToSet(s.clauses)}
    [] OTHER -> {}
Within(stmts) == stmts \cup UNION {Parts(s) : s \in stmts}
AllStatements == Within(Within(Within(UNION {ToSet(p.body) : p \in Functions})))
=============================================================================
