------------------------------- MODULE Validate -------------------------------
(***************************************************************************)
(* Stage S2 (src/src/s2validate/S2Validate.cpp) in front of stage S3: a    *)
(* program that is no program of the supported subset is refused before    *)
(* anything is lowered.  Signatures are looked at first, then the bodies,  *)
(* one function after the other, then the graph of calls they have left.   *)
(*                                                                         *)
(* Names are looked up in a stack of scopes of this stage's own; S3 looks  *)
(* them up again in another (createSymbol, resolveSymbol), and S6 resolves *)
(* calls by a rule of its own.                                             *)
(***************************************************************************)
EXTENDS Statementize

VARIABLE s2   \* [stage, at, calls, ok]: the function to look at next, the
              \* calls found, FALSE when an error is thrown

validateVars == <<vars, s2>>

-----------------------------------------------------------------------------
(* Types and signatures.                                                   *)

RECURSIVE validateType(_), topPortType(_)
validateType(t) ==
  CASE IsScalar(t) -> t.w > 0
    [] IsStruct(t) -> t.fields # <<>> /\ \A i \in DOMAIN t.fields : validateType(t.fields[i])
    [] OTHER -> t.n > 0 /\ validateType(t.elem)
\* A port is a scalar or an array of them.
topPortType(t) == ~IsStruct(t) /\ IF IsScalar(t) THEN t.w > 0 ELSE t.n > 0 /\ topPortType(t.elem)

signatureKey(f) == <<f.name, [i \in DOMAIN f.params |-> <<f.params[i].t, f.params[i].mode>>]>>
validateParam(top, q) ==
  /\ q.mode \in {"value", "const_ref", "ref"}
  /\ IF top THEN topPortType(q.t) ELSE validateType(q.t)
validateFunctionSignatures(p) ==
  /\ IsInjective([i \in DOMAIN p |-> signatureKey(p[i])])
  /\ \A i \in DOMAIN p :
       /\ IsInjective([j \in DOMAIN p[i].params |-> p[i].params[j].x])
       /\ \A j \in DOMAIN p[i].params : validateParam(i = 1, p[i].params[j])

-----------------------------------------------------------------------------
(* Bodies.  v is [scopes, calls, ok]; scopes are sets of names, innermost  *)
(* last.  at says where a statement stands: in function f, in a loop, in a *)
(* switch.                                                                 *)

\* A parameter that is a reference never has the type of an expression.
Exact(f, e) ==
  \A j \in DOMAIN f.params : f.params[j].mode = "value" /\ f.params[j].t = e.args[j].t
\* Types are compared only where the number of arguments leaves a choice.
resolveCall(p, e) ==
  LET arity == {i \in DOMAIN p : p[i].name = e.name /\ Len(p[i].params) = Len(e.args)}
      exact == {i \in arity : Exact(p[i], e)}
  IN IF Cardinality(arity) = 1 THEN arity ELSE IF Cardinality(exact) = 1 THEN exact ELSE {}

RECURSIVE validateExpr(_, _, _), Callees(_, _)
validateExpr(p, names, e) ==
  /\ e.k # "comma"
  /\ e.k = "var" => e.name \in names
  /\ \A i \in DOMAIN e.args : validateExpr(p, names, e.args[i])
  /\ e.k = "call" => resolveCall(p, e) # {}
Callees(p, e) ==
  (IF e.k = "call" THEN resolveCall(p, e) ELSE {}) \cup UNION {Callees(p, e.args[i]) : i \in DOMAIN e.args}

Refuse(v, bad) == [v EXCEPT !.ok = @ /\ ~bad]
Visible(v) == UNION ToSet(v.scopes)
validateExprs(p, f, v, es) ==
  [Refuse(v, \E e \in ToSet(es) : ~validateExpr(p, Visible(v), e)) EXCEPT
     !.calls = @ \cup {<<f, g>> : g \in UNION {Callees(p, e) : e \in ToSet(es)}}]
\* Mutant: a name may be declared again where it is visible.
DeclareAlways(v, x) == [v EXCEPT !.scopes = Append(Front(@), Last(@) \cup {x})]
declareSymbol(v, x) ==
  [Refuse(v, x \in Last(v.scopes)) EXCEPT !.scopes = Append(Front(@), Last(@) \cup {x})]

InLoop(at) == [at EXCEPT !.loop = TRUE]
InSwitch(at) == [at EXCEPT !.switch = TRUE]

RECURSIVE validateStmt(_, _, _, _)
validateStmtList(p, v, body, at) == FoldLeft(LAMBDA w, s : validateStmt(p, w, s, at), v, body)
Opened(v) == [v EXCEPT !.scopes = Append(@, {})]
Closed(v) == [v EXCEPT !.scopes = Front(@)]
Nested(p, v, body, at) == Closed(validateStmtList(p, Opened(v), body, at))
\* The body of a for loop is in the scope of its initialisation.
validateFor(p, v, s, at) ==
  LET head == validateExprs(p, at.f, validateStmtList(p, Opened(v), s.init, at), s.cond \o s.step)
  IN Closed(validateStmtList(p, head, s.body, InLoop(at)))
\* Every clause of a switch has a scope.
validateClause(p, v, clause, at) ==
  Nested(p, validateExprs(p, at.f, v, clause.value), clause.body, InSwitch(at))
validateStmt(p, v, s, at) ==
  CASE s.k = "decl" ->
         LET w == declareSymbol(Refuse(v, ~validateType(s.t)), s.x)
         IN IF s.init = <<>> THEN w ELSE validateExprs(p, at.f, w, s.init)
    [] s.k = "set" -> validateExprs(p, at.f, v, s.args)
    [] s.k = "construct" -> validateExprs(p, at.f, v, <<s.to>> \o s.args)
    [] s.k = "if" -> Nested(p, Nested(p, validateExprs(p, at.f, v, <<s.cond>>), s.yes, at), s.no, at)
    [] s.k = "for" -> validateFor(p, v, s, at)
    [] s.k \in {"while", "do"} -> Nested(p, validateExprs(p, at.f, v, s.cond), s.body, InLoop(at))
    [] s.k = "switch" ->
         FoldLeft(LAMBDA w, clause : validateClause(p, w, clause, at),
                  validateExprs(p, at.f, v, <<s.on>>), s.clauses)
    [] s.k = "block" -> Nested(p, v, s.body, at)
    [] s.k = "break" -> Refuse(v, ~at.loop /\ ~at.switch)
    [] s.k = "continue" -> Refuse(v, ~at.loop)
    [] s.k = "return" -> Refuse(validateExprs(p, at.f, v, s.val), at.f = 1 /\ s.val # <<>>)
    [] s.k = "expr" -> validateExprs(p, at.f, v, <<s.e>>)

validateBody(p, f, calls) ==
  LET start == FoldLeft(LAMBDA v, q : declareSymbol(v, q.x),
                        [scopes |-> <<{}>>, calls |-> calls, ok |-> TRUE], p[f].params)
  IN validateStmtList(p, start, p[f].body, [f |-> f, loop |-> FALSE, switch |-> FALSE])

-----------------------------------------------------------------------------
(* Recursion: a depth-first search from every function but the top, which  *)
(* no edge leads to either.                                                *)

RECURSIVE detectRecursionFrom(_, _, _)
Meet(calls, v, n) ==
  IF n \in v.open THEN [v EXCEPT !.found = TRUE]
  ELSE IF n \in v.done THEN v ELSE detectRecursionFrom(calls, v, n)
detectRecursionFrom(calls, v, id) ==
  LET next == {e[2] : e \in {c2 \in calls : c2[1] = id}} \ {1}
      w == FoldSet(LAMBDA n, u : Meet(calls, u, n), [v EXCEPT !.open = @ \cup {id}], next)
  IN [w EXCEPT !.open = @ \ {id}, !.done = @ \cup {id}]
Recursive(p, calls) ==
  FoldSet(LAMBDA n, v : IF n \in v.done THEN v ELSE detectRecursionFrom(calls, v, n),
          [open |-> {}, done |-> {}, found |-> FALSE], DOMAIN p \ {1}).found

-----------------------------------------------------------------------------
(* The stage, and S3 after it.                                             *)

ValidateInit == Init /\ s2 = [stage |-> "signatures", at |-> 1, calls |-> {}, ok |-> TRUE]

ValidateSignatures ==
  /\ s2.stage = "signatures"
  /\ s2' = [s2 EXCEPT !.stage = IF validateFunctionSignatures(source) THEN "bodies" ELSE "refused"]
  /\ UNCHANGED vars

ValidateBody ==
  /\ s2.stage = "bodies" /\ s2.at \in DOMAIN source
  /\ LET v == validateBody(source, s2.at, s2.calls)
     IN s2' = [s2 EXCEPT !.at = @ + 1, !.calls = v.calls, !.ok = v.ok,
                         !.stage = IF v.ok THEN @ ELSE "refused"]
  /\ UNCHANGED vars

ValidateNoRecursion ==
  /\ s2.stage = "bodies" /\ s2.at \notin DOMAIN source
  /\ s2' = [s2 EXCEPT !.stage = IF Recursive(source, s2.calls) THEN "refused" ELSE "accepted"]
  /\ UNCHANGED vars

Refused2 == s2.stage = "refused" /\ UNCHANGED validateVars

ValidateNext ==
  \/ ValidateSignatures \/ ValidateBody \/ ValidateNoRecursion \/ Refused2
  \/ (s2.stage = "accepted" /\ Next /\ UNCHANGED s2)
ValidateSpec == ValidateInit /\ [][ValidateNext]_validateVars

-----------------------------------------------------------------------------
(* The supported subset, said without scopes or searches.  An occurrence   *)
(* has a path: the numbers of the statements and lists it is in, from the  *)
(* outside.  A declaration is seen by what comes after it in its list.     *)

RECURSIVE NamesIn(_), CallsIn(_), Occurrences(_, _, _)
NamesIn(e) == (IF e.k = "var" THEN {e.name} ELSE {}) \cup UNION {NamesIn(e.args[i]) : i \in DOMAIN e.args}
CallsIn(e) == (IF e.k \in {"call", "comma"} THEN {e} ELSE {}) \cup UNION {CallsIn(e.args[i]) : i \in DOMAIN e.args}
\* A target that is no location, or an aggregate where another is wanted.
RECURSIVE IllTyped(_)
Location(e) == IsPlaceE(e) \/ (e.k = "cast" /\ IsPlaceE(e.args[1]))
IllTyped(e) ==
  \/ e.k \in {"set", "opset", "pre", "post"} /\ ~Location(e.args[1])
  \/ e.k = "cast" /\ (~IsScalar(e.t) \/ ~IsScalar(e.args[1].t)) /\ e.t # e.args[1].t
  \/ \E i \in DOMAIN e.args : IllTyped(e.args[i])

Occurs(k, x, path) == [k |-> k, x |-> x, path |-> path, call |-> <<>>]
ReadsOf(es, path) ==
  {Occurs("use", x, path) : x \in UNION {NamesIn(e) : e \in ToSet(es)}}
  \cup {Occurs("ill", "", path) : e \in {e \in ToSet(es) : IllTyped(e)}}
  \cup {[Occurs("call", "", path) EXCEPT !.call = <<e>>] : e \in UNION {CallsIn(e) : e \in ToSet(es)}}
InList(body, list, from, jumps) ==
  UNION {Occurrences(body[i], Append(list, from + i), jumps) : i \in DOMAIN body}
\* jumps are those that may stand here.
Occurrences(s, path, jumps) ==
  CASE s.k = "decl" -> {Occurs("decl", s.x, path)} \cup ReadsOf(s.init, Append(path, 0))
                       \cup (IF validateType(s.t) THEN {} ELSE {Occurs("bad", "", path)})
    [] s.k = "set" -> ReadsOf(s.args, path)
    [] s.k = "construct" -> ReadsOf(<<s.to>> \o s.args, path)
    [] s.k = "if" ->
         ReadsOf(<<s.cond>>, path) \cup InList(s.yes, Append(path, 1), 0, jumps)
         \cup InList(s.no, Append(path, 2), 0, jumps)
    [] s.k = "for" ->
         LET list == Append(path, 1)
             n == Len(s.init) + 1
         IN InList(s.init, list, 0, jumps) \cup ReadsOf(s.cond \o s.step, Append(list, n))
            \cup InList(s.body, list, n, {"break", "continue"})
    [] s.k \in {"while", "do"} ->
         ReadsOf(s.cond, path) \cup InList(s.body, Append(path, 1), 0, {"break", "continue"})
    [] s.k = "switch" ->
         ReadsOf(<<s.on>>, path) \cup
         UNION {ReadsOf(s.clauses[i].value, path)
                \cup InList(s.clauses[i].body, Append(path, i), 0, jumps \cup {"break"}) : i \in DOMAIN s.clauses}
    [] s.k = "block" -> InList(s.body, Append(path, 1), 0, jumps)
    [] s.k = "return" -> ReadsOf(s.val, path) \cup (IF s.val # <<>> THEN {Occurs("value", "", path)} ELSE {})
    [] s.k = "expr" -> ReadsOf(<<s.e>>, path)
    [] OTHER -> IF s.k \in jumps THEN {} ELSE {Occurs("bad", "", path)}
OccurrencesIn(f) ==
  {Occurs("decl", q.x, <<0>>) : q \in ToSet(f.params)} \cup InList(f.body, <<>>, 0, {})

SameList(d, u) == Len(d.path) <= Len(u.path) /\ IsPrefix(Front(d.path), u.path)
Sees(u, d) ==
  LET n == Len(d.path)
  IN /\ d.k = "decl" /\ d.x = u.x /\ SameList(d, u)
     /\ u.path[n] > d.path[n] \/ (u.path[n] = d.path[n] /\ Len(u.path) > n)
LawfulScopes(occurrences) ==
  /\ \A u \in occurrences : u.k = "use" => \E d \in occurrences : Sees(u, d)
  /\ \A d, e \in occurrences :
       d.k = "decl" /\ e.k = "decl" /\ d.x = e.x /\ d # e => Front(d.path) # Front(e.path)
  /\ \A u \in occurrences : u.k # "bad"

\* One function has the name and as many parameters, or one of several is
\* exactly the one that is called.
Fitting(p, e) ==
  {i \in DOMAIN p : /\ e.k = "call" /\ p[i].name = e.name /\ Len(p[i].params) = Len(e.args)
                    /\ \A j \in DOMAIN p \ {i} :
                         p[j].name = e.name /\ Len(p[j].params) = Len(e.args) => Exact(p[i], e) /\ ~Exact(p[j], e)}
CallsOfAll(occurrences) == {u.call[1] : u \in {o \in occurrences : o.k = "call"}}
\* In every set of helpers there is one that calls none of the set.
NoCycle(helpers, edges) ==
  \A group \in SUBSET helpers \ {{}} : \E f \in group : \A g \in group : <<f, g>> \notin edges
LawfulCalls(p, calls) ==
  /\ \A i \in DOMAIN p : \A e \in calls[i] : Fitting(p, e) # {}
  /\ NoCycle(DOMAIN p \ {1},
             UNION {{<<i, g>> : g \in UNION {Fitting(p, e) : e \in calls[i]}} : i \in DOMAIN p})
Lawful(p) ==
  LET occurrences == [i \in DOMAIN p |-> OccurrencesIn(p[i])]
  IN /\ \A i \in DOMAIN p : LawfulScopes(occurrences[i])
     /\ LawfulCalls(p, [i \in DOMAIN p |-> CallsOfAll(occurrences[i])])
     /\ \A o \in occurrences[1] : o.k # "value"

-----------------------------------------------------------------------------
\* S2 accepts the lawful programs and no others (validateBodies,
\* validateNoRecursion), as far as the signatures let it come to that; and
\* what it accepts S3 lowers, finding every name in scopes of its own, unless
\* the program is ill typed, which S2 does not look at.
ValidatedExactly ==
  /\ s2.stage = "accepted" /\ phase # "lower" => Lawful(source)
  /\ s2.stage = "refused" => ~Lawful(source) \/ ~validateFunctionSignatures(source)
  /\ phase = "failed" => \E i \in DOMAIN source : \E o \in OccurrencesIn(source[i]) : o.k = "ill"
=============================================================================
