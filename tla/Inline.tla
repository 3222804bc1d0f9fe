------------------------------- MODULE Inline -------------------------------
(***************************************************************************)
(* Stage S6: every call is replaced by the body of its callee              *)
(* (src/src/s6inline/S6Inline.cpp).  The engine works depth first: the     *)
(* first call of the first block is resolved, its callee is inlined        *)
(* completely on a stack of its own copies, kept in a cache, and copied to *)
(* the site; then the scan starts again.                                   *)
(*                                                                         *)
(* A value parameter becomes a fresh variable that is assigned in a        *)
(* binding block; a reference parameter becomes another name of the        *)
(* caller's lvalue, with the indices of that lvalue unevaluated.           *)
(***************************************************************************)
EXTENDS AggCfg

CONSTANTS Programs,        \* the programs to inline
          MaxInlineDepth,  \* InlineOptions::max_inline_depth
          MaxClonedBlocks  \* InlineOptions::max_cloned_blocks

VARIABLES program,  \* the input
          stack,    \* the functions being inlined, [of, fn]; of = 0 is the top
          cache,    \* callees without calls, by position
          phase     \* "inline", then see Flatten; "failed" when an error is thrown

inlineVars == <<program, stack, cache, phase>>

Current == Last(stack)

-----------------------------------------------------------------------------
(* Names.  A binding maps the callee's symbols to lvalues of the caller; a *)
(* fresh variable is an lvalue without accesses.                           *)

LValueOf(x, acc) == IF acc = <<>> THEN Use(x) ELSE Place(x, acc)

\* Mutant: the accesses of the callee come before those of the argument.
RECURSIVE RemappedInside(_, _, _)
RemappedInside(bind, o, keep) ==
  LET bound == IF o.v \in DOMAIN bind THEN bind[o.v] ELSE Use(o.v)
      acc == Accesses(o) \o Accesses(bound)
      new == LValueOf(bound.v, [i \in DOMAIN acc |->
               IF IsIndex(acc[i]) THEN RemappedInside(bind, acc[i], FALSE) ELSE acc[i]])
  IN IF o.kind = "lit" \/ (o.kind = "var" /\ o.v \notin DOMAIN bind) THEN o
     ELSE [new EXCEPT !.sv = keep /\ o.sv]

\* A signed view stays only where the caller of this operator keeps it.
RECURSIVE Remapped(_, _, _)
Remapped(bind, o, keep) ==
  LET bound == IF o.v \in DOMAIN bind THEN bind[o.v] ELSE Use(o.v)
      acc == Accesses(bound) \o Accesses(o)
      \* The accesses of the bound lvalue are run through the map once more.
      new == LValueOf(bound.v, [i \in DOMAIN acc |->
               IF IsIndex(acc[i]) THEN Remapped(bind, acc[i], FALSE) ELSE acc[i]])
  IN IF o.kind = "lit" \/ (o.kind = "var" /\ o.v \notin DOMAIN bind) THEN o
     ELSE [new EXCEPT !.sv = keep /\ o.sv]

\* The operands whose signed view the operation needs.
KeepsView(s, i) ==
  s.k = "op" /\ (s.op \in {"mul", "lt", "le", "gt", "ge", "cast"} \/ (s.op = "shr" /\ i = 1))

RemappedStmt(bind, s) ==
  [s EXCEPT !.to = [i \in DOMAIN @ |-> Remapped(bind, @[i], FALSE)],
            !.args = [i \in DOMAIN @ |-> Remapped(bind, @[i], KeepsView(s, i))]]

\* Block b of the callee becomes block b + offset.
RemappedTerm(bind, term, offset, exit) ==
  LET t == [term EXCEPT !.on = [i \in DOMAIN @ |-> Remapped(bind, @[i], FALSE)],
                        !.cases = [i \in DOMAIN @ |-> Remapped(bind, @[i], FALSE)],
                        !.to = [i \in DOMAIN @ |-> @[i] + offset]]
  IN IF term.kind = "return" THEN Jump(exit + offset) ELSE t

-----------------------------------------------------------------------------
(* One call site.                                                          *)

CallsOf(f) == {<<b, i>> \in UNION {{b} \X DOMAIN f.blocks[b].stmts : b \in Blocks(f)} :
                 f.blocks[b].stmts[i].k = "call"}
FirstCall(f) ==
  CHOOSE c \in CallsOf(f) : \A d \in CallsOf(f) : c[1] < d[1] \/ (c[1] = d[1] /\ c[2] <= d[2])
StmtAt(f, c) == f.blocks[c[1]].stmts[c[2]]

\* Mutant: a constant reference is always a copy's name.
ByAliasOfMutable(p, arg) == p.mode = "ref"
\* A constant reference is bound to a literal like a value.
ByAlias(p, arg) == p.mode = "ref" \/ (p.mode = "const_ref" /\ arg.kind # "lit")
Bindable(callee, call) ==
  /\ \A i \in DOMAIN call.args :
       /\ callee.params[i].mode \in {"value", "const_ref", "ref"}
       /\ callee.params[i].mode = "ref" => call.args[i].kind # "lit"
  /\ call.to # <<>> => callee.ret # NoSymbol

\* The callee's symbols that get a copy: value parameters, then all others.
FreshSymbols(callee, call) ==
  LET params == [i \in DOMAIN callee.params |-> callee.params[i].x]
      copied == SelectSeq([i \in DOMAIN params |-> i],
                          LAMBDA i : ~ByAlias(callee.params[i], call.args[i]))
  IN [i \in DOMAIN copied |-> params[copied[i]]]
     \o SelectSeq([x \in DOMAIN callee.types |-> x], LAMBDA x : x \notin ToSet(params))

Binding(caller, callee, call) ==
  LET fresh == FreshSymbols(callee, call)
      place(x) == IF x \in ToSet(fresh)
                  THEN Use(Len(caller.types) + CHOOSE i \in DOMAIN fresh : fresh[i] = x)
                  ELSE call.args[CHOOSE i \in DOMAIN callee.params : callee.params[i].x = x]
  IN [x \in DOMAIN callee.types |-> place(x)]

BindingStmts(bind, callee, call) ==
  FlattenSeq([i \in DOMAIN callee.params |->
    IF ByAlias(callee.params[i], call.args[i]) THEN <<>>
    ELSE LET new == bind[callee.params[i].x] IN <<Decl(new.v), Set(new, call.args[i])>>])

\* Where the callee's exit goes on: at the write-back, or at the rest.
\* Mutant: always at the rest.
RestAlways(n, callee, call) == n + 1
ExitTarget(n, callee, call) == IF call.to # <<>> THEN n + Len(callee.blocks) + 3 ELSE n + 1

\* The blocks after those of the caller: the rest of the call's block, the
\* binding, the copies of the callee's blocks, and the write-back.
Inlined(caller, site, callee) ==
  LET call == StmtAt(caller, site)
      old == caller.blocks[site[1]]
      n == Len(caller.blocks)
      bind == Binding(caller, callee, call)
      fresh == FreshSymbols(callee, call)
      cloned(b) ==
        [stmts |-> [i \in DOMAIN callee.blocks[b].stmts |-> RemappedStmt(bind, callee.blocks[b].stmts[i])],
         term |-> IF b = callee.exit THEN Jump(ExitTarget(n, callee, call))
                  ELSE RemappedTerm(bind, callee.blocks[b].term, n + 2, callee.exit)]
      new == <<[stmts |-> SubSeq(old.stmts, site[2] + 1, Len(old.stmts)), term |-> old.term],
               [stmts |-> BindingStmts(bind, callee, call), term |-> Jump(callee.entry + n + 2)]>>
             \o [b \in Blocks(callee) |-> cloned(b)]
             \o (IF call.to # <<>> THEN <<[stmts |-> <<Set(call.to[1], bind[callee.ret])>>, term |-> Jump(n + 1)]>>
                 ELSE <<>>)
      cut == [stmts |-> SubSeq(old.stmts, 1, site[2] - 1), term |-> Jump(n + 2)]
  IN [caller EXCEPT !.blocks = [@ EXCEPT ![site[1]] = cut] \o new,
                    !.types = @ \o [i \in DOMAIN fresh |-> callee.types[fresh[i]]]]
-----------------------------------------------------------------------------
(* The engine.                                                             *)

InlineInit ==
  /\ program \in Programs
  /\ stack = <<[of |-> 0, fn |-> program.top]>>
  /\ cache = [i \in {} |-> program.top]
  /\ phase = "inline"

Replacing == phase = "inline" /\ CallsOf(Current.fn) # {}
TheCall == StmtAt(Current.fn, FirstCall(Current.fn))
Resolved == Candidates(program, Current.fn, TheCall)
Callee == CHOOSE i \in Resolved : TRUE
\* Mutant: an overload of a function on the stack is taken for that function.
OverloadOnStack(i) ==
  \E k \in DOMAIN stack : stack[k].of # 0 /\ program.callees[stack[k].of].name = program.callees[i].name
OnStack(i) == \E k \in DOMAIN stack : stack[k].of = i
\* Every level of nesting counts twice.
Depth == 2 * Len(stack) - 1
Fail == phase' = "failed" /\ UNCHANGED <<program, stack, cache>>

NoCallee == Replacing /\ Cardinality(Resolved) # 1 /\ Fail
TooDeep == Replacing /\ Cardinality(Resolved) = 1 /\ Depth > MaxInlineDepth /\ Fail
Recursion ==
  Replacing /\ Cardinality(Resolved) = 1 /\ Callee \notin DOMAIN cache /\ OnStack(Callee) /\ Fail

\* A callee that was not met before is inlined first, in a copy.
EnterCallee ==
  /\ Replacing
  /\ Cardinality(Resolved) = 1 /\ Depth <= MaxInlineDepth
  /\ Callee \notin DOMAIN cache /\ ~OnStack(Callee)
  /\ stack' = Append(stack, [of |-> Callee, fn |-> program.callees[Callee]])
  /\ UNCHANGED <<program, cache, phase>>

Cached(i, fn) == [j \in DOMAIN cache \cup {i} |-> IF j = i THEN fn ELSE cache[j]]
LeaveCallee ==
  /\ phase = "inline" /\ Len(stack) > 1 /\ CallsOf(Current.fn) = {}
  /\ cache' = Cached(Current.of, Current.fn)
  /\ stack' = Front(stack)
  /\ UNCHANGED <<program, phase>>

AtSite ==
  Replacing /\ Cardinality(Resolved) = 1 /\ Depth <= MaxInlineDepth /\ Callee \in DOMAIN cache
NewBody == Inlined(Current.fn, FirstCall(Current.fn), cache[Callee])
InlineSite ==
  /\ AtSite
  /\ Bindable(cache[Callee], TheCall)
  /\ Len(NewBody.blocks) <= MaxClonedBlocks
  /\ stack' = [stack EXCEPT ![Len(stack)].fn = NewBody]
  /\ UNCHANGED <<program, cache, phase>>
RejectSite ==
  /\ AtSite
  /\ Bindable(cache[Callee], TheCall) => Len(NewBody.blocks) > MaxClonedBlocks
  /\ Fail

InlineNext ==
  \/ NoCallee \/ TooDeep \/ Recursion
  \/ EnterCallee \/ LeaveCallee
  \/ InlineSite \/ RejectSite
FullyInlined == phase = "inline" /\ Len(stack) = 1 /\ CallsOf(Current.fn) = {}

\* What the engine checks of a body it has finished.
SymbolsOf(os) == {o.v : o \in {x \in os : x.kind # "lit"}}
Verified(f) ==
  /\ CallsOf(f) = {}
  /\ {f.entry, f.exit} \subseteq Blocks(f) /\ f.blocks[f.exit].term.kind = "exit"
  /\ \A b \in Blocks(f) :
       LET block == f.blocks[b]
           used == block.term.on \o block.term.cases
                   \o FlattenSeq([i \in DOMAIN block.stmts |-> block.stmts[i].to \o block.stmts[i].args])
       IN /\ Succs(f, b) \subseteq Blocks(f)
          /\ b \notin ReachFrom(f, Succs(f, b))
          /\ SymbolsOf(ToSet(used) \cup UNION {Indices(o) : o \in ToSet(used)}) \subseteq DOMAIN f.types

-----------------------------------------------------------------------------
(* Properties.                                                             *)

\* The functions that a call of f can reach, by position.
Called(f) == UNION {Candidates(program, f, StmtAt(f, c)) : c \in CallsOf(f)}
RECURSIVE Within(_, _)
Within(n, S) ==
  IF n = 0 THEN S ELSE Within(n - 1, S \cup UNION {Called(program.callees[i]) : i \in S})
ReachedFrom(f) == Within(Len(program.callees), Called(f))
Reached == {program.top} \cup {program.callees[i] : i \in ReachedFrom(program.top)}
Illegal ==
  \/ \E i \in ReachedFrom(program.top) : i \in ReachedFrom(program.callees[i])
  \/ \E f \in Reached : \E c \in CallsOf(f) :
       LET found == Candidates(program, f, StmtAt(f, c))
       IN Cardinality(found) # 1 \/ ~Bindable(program.callees[CHOOSE i \in found : TRUE], StmtAt(f, c))

\* What is inlined so far: the callees as the engine has them now.
CalleesNow ==
  [i \in DOMAIN program.callees |->
     IF i \in DOMAIN cache THEN cache[i]
     ELSE IF OnStack(i) THEN stack[CHOOSE k \in DOMAIN stack : stack[k].of = i].fn
     ELSE program.callees[i]]

\* At every moment the program with the bodies as they are now leaves in the
\* ports of the top function what the source program leaves there: value
\* parameters are copies, reference parameters are the caller's variables,
\* and a call's result arrives (S6Inline.cpp inlineSite, bindParams).
InliningKeepsMeaning ==
  \A input \in (IF phase = "inline" /\ DOMAIN cache # {} /\ ~Illegal THEN InputsOf(program.top) ELSE {}) :
    Outcome([program EXCEPT !.callees = CalleesNow], stack[1].fn, input)
      = Outcome(program, program.top, input)

\* Within the limits, inlining fails for the programs that have a recursive,
\* unresolved, ambiguous or unbindable call in a function the top reaches, and
\* for no others: the engine's own checks of a finished body never fail
\* (S6Inline.cpp resolve, fullyInlinedCallee, bindParams, verifyFunction).
InlinableExactly ==
  /\ FullyInlined => ~Illegal
  /\ phase = "inline" /\ CallsOf(Current.fn) = {} => Verified(Current.fn)
  /\ phase = "failed" =>
       \/ Illegal
       \/ Depth > MaxInlineDepth
       \/ Callee \in DOMAIN cache /\ Len(NewBody.blocks) > MaxClonedBlocks
=============================================================================
