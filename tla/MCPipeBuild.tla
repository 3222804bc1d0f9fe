----------------------------- MODULE MCPipeBuild -----------------------------
(***************************************************************************)
(* Small programs for PipeBuild: every dependency graph on one input and   *)
(* three operations without a cycle, with every choice of delays and a few *)
(* of widths and outputs, with and without a valid port; and every graph   *)
(* at all, cyclic ones included, with equal delays.  Delays are multiples  *)
(* of Scale, so that the bisection's resolution is finer than any          *)
(* difference between two schedules.                                       *)
(***************************************************************************)
EXTENDS PipeBuild

CONSTANTS Scale, Delays

AscSeq(S) == SetToSortSeq(S, LAMBDA a, b : a < b)

\* Signal 1 is the data input, 2..n are operations, n is an output.
Plain(n, Reads(_, _), delays, widths, outs) ==
  {[n |-> n, kind |-> [i \in 1..n |-> IF i = 1 THEN "in" ELSE "op"],
    args |-> [i \in 1..n |-> IF i = 1 THEN <<>> ELSE AscSeq(a[i])],
    cost |-> [i \in 1..n |-> IF i = 1 THEN 0 ELSE Scale * c[i]],
    width |-> w, out |-> o, vin |-> NoNode, vout |-> NoNode] :
     a \in {f \in [2..n -> SUBSET (1..n)] :
              \A i \in 2..n, j \in 1..n : j \in f[i] => Reads(i, j)},
     c \in [2..n -> delays], w \in widths, o \in outs}

\* The same program with a valid input as signal n+1 that signal 3 also
\* reads, and the backend's placeholder output as signal n+2.
WithValid(p) ==
  LET n == p.n IN
  [p EXCEPT !.n = n + 2,
            !.kind = @ @@ (n + 1 :> "in" @@ n + 2 :> "op"),
            !.args = [@ EXCEPT ![3] = Append(@, n + 1)] @@ (n + 1 :> <<>> @@ n + 2 :> <<>>),
            !.cost = @ @@ (n + 1 :> 0 @@ n + 2 :> 0),
            !.width = @ @@ (n + 1 :> 1 @@ n + 2 :> 1),
            !.out = @ \cup {n + 2}, !.vin = n + 1, !.vout = n + 2]

Backwards(i, j) == j < i
Anywhere(i, j) == j # i

Forward == Plain(4, Backwards, Delays, {<<4, 1, 4, 1>>, <<1, 4, 2, 1>>}, {{4}, {3, 4}})
Arbitrary == Plain(4, Anywhere, {1}, {<<4, 1, 4, 1>>}, {{4}})
Wide == Forward \cup Arbitrary
Broken == {[p EXCEPT !.kind[2] = "none"] : p \in Plain(3, Backwards, {1}, {<<1, 1, 1>>}, {{3}})}
SmallPrograms == Wide \cup {WithValid(p) : p \in Wide} \cup Broken
=============================================================================
