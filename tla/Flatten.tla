------------------------------ MODULE Flatten ------------------------------
(***************************************************************************)
(* Stage S7 behind stage S6: the inlined function over structs and arrays  *)
(* becomes one over words (src/src/s7flatten/S7Flatten.cpp).  A variable   *)
(* becomes one variable per leaf of its type, an assignment of aggregates  *)
(* one assignment per leaf, and an access with a computed index a lookup   *)
(* among the leaves it may mean, or a write that leaves all but one of     *)
(* them alone.                                                             *)
(***************************************************************************)
EXTENDS Inline

CONSTANT MaxLeaves  \* FlattenOptions::max_leaf_symbols

VARIABLES flat,  \* the leaves of the symbols and the output so far: types, blocks
          at     \* the next statement of the inlined function, [b, i]

flattenVars == <<flat, at>>
vars == <<program, stack, cache, phase, flat, at>>

Source == stack[1].fn
Done == phase \in {"flat", "failed", "rejected"}

-----------------------------------------------------------------------------
(* Leaves.  A leaf is [path, t, x] with its new variable x.  A selection   *)
(* is a sequence of leaves, or an index with a selection for each element. *)

Tally(ns) == FoldLeft(LAMBDA sum, n : sum + n, 0, ns)
\* The leaf variables of each symbol, numbered in the order of the symbols.
LeafMaps(types) ==
  FoldLeft(LAMBDA maps, t :
             LET n == Tally([i \in DOMAIN maps |-> Len(maps[i])])
             IN Append(maps, [i \in DOMAIN Leaves(t) |->
                  [path |-> Leaves(t)[i].path, t |-> Leaves(t)[i].t, x |-> n + i]]),
           <<>>, types)
LeafTypes(maps) == LET all == FlattenSeq(maps) IN [i \in DOMAIN all |-> all[i].t]
LeafPorts(f, maps) ==
  FlattenSeq([i \in DOMAIN f.params |->
    LET p == f.params[i]
    IN [j \in DOMAIN maps[p.x] |->
          [x |-> maps[p.x][j].x, dir |-> IF p.mode = "ref" THEN "out" ELSE "in"]]])

Static(leaves) == [leaves |-> leaves, dyn |-> <<>>]
Dynamic(index, choices) == [leaves |-> <<>>, dyn |-> <<[index |-> index, choices |-> choices]>>]
IsDynamic(sel) == sel.dyn # <<>>
Uses(leaves) == [i \in DOMAIN leaves |-> Use(leaves[i].x)]

RECURSIVE LeavesOf(_)
LeavesOf(sel) ==
  IF IsDynamic(sel) THEN FlattenSeq([i \in DOMAIN sel.dyn[1].choices |-> LeavesOf(sel.dyn[1].choices[i])])
  ELSE sel.leaves
RECURSIVE SelectionWidth(_)
SelectionWidth(sel) ==
  IF IsDynamic(sel) THEN SelectionWidth(sel.dyn[1].choices[1]) ELSE Len(sel.leaves)

-----------------------------------------------------------------------------
(* Reading.  A context has the variables and the statements so far.        *)

Emit(c, s) == [c EXCEPT !.out = Append(@, s)]
\* The next temporary is the variable after those there are.
LookupTemp(c, index, elems) ==
  LET x == Len(c.types) + 1
      t == TypeOf(c.types, elems[1])
  IN [c |-> Emit([c EXCEPT !.types = Append(@, t)], Select(x, index, elems)), o |-> Use(x)]

Put(m, r) == [c |-> r.c, os |-> Append(m.os, r.o)]
PutAll(m, r) == [c |-> r.c, os |-> m.os \o r.os]
Nothing(c) == [c |-> c, os |-> <<>>]

\* Leaf i of a selection; a dynamic one needs a lookup, and one for every
\* element that is dynamic again.
RECURSIVE ReadLeaf(_, _, _)
Elements(c, dyn, i) ==
  FoldLeft(LAMBDA m, choice : Put(m, ReadLeaf(m.c, choice, i)), Nothing(c), dyn.choices)
LookupElement(elems, index) == LookupTemp(elems.c, index, elems.os)
ReadLeaf(c, sel, i) ==
  IF IsDynamic(sel) THEN LookupElement(Elements(c, sel.dyn[1], i), sel.dyn[1].index)
  ELSE [c |-> c, o |-> Use(sel.leaves[i].x)]
\* The first n leaves of a selection, in one context after another.
ReadLeaves(c, sel, n) ==
  FoldLeft(LAMBDA m, i : Put(m, ReadLeaf(m.c, sel, i)), Nothing(c), [i \in 1..n |-> i])

\* What is selected, as an operand if it is one leaf.
Selected(r, sv) ==
  [c |-> r.c, sel |-> r.sel,
   os |-> IF Len(r.sel.leaves) = 1 THEN <<[Use(r.sel.leaves[1].x) EXCEPT !.sv = sv]>>
          ELSE Uses(r.sel.leaves)]
FirstLeaf(v, sv) ==
  IF IsDynamic(v.sel) THEN [ReadLeaf(v.c, v.sel, 1) EXCEPT !.o.sv = sv] ELSE [c |-> v.c, o |-> v.os[1]]

\* What the accesses acc behind prefix mean.  The operand of an index is
\* flattened before the elements are looked at, once for each way there.
RECURSIVE Resolve(_, _, _, _, _)
FlatValue(c, maps, o) ==
  IF o.kind = "lit" THEN [c |-> c, sel |-> Static(<<>>), os |-> <<o>>]
  ELSE Selected(Resolve(c, maps, maps[o.v], Accesses(o), <<>>), o.sv)
FlatOperand(c, maps, o) == FirstLeaf(FlatValue(c, maps, o), o.sv)
\* One selection for each element there is behind prefix.
ElementSelections(c, maps, leaves, acc, prefix, last) ==
  FoldLeft(LAMBDA m, i : LET r == Resolve(m.c, maps, leaves, acc, Append(prefix, i))
                         IN [c |-> r.c, sels |-> Append(m.sels, r.sel)],
           [c |-> c, sels |-> <<>>], [i \in 1..(last + 1) |-> i - 1])
Chosen(choices, index) == [c |-> choices.c, sel |-> Dynamic(index, choices.sels)]
AnyOf(index, maps, leaves, acc, prefix, under) ==
  Chosen(ElementSelections(index.c, maps, leaves, acc, prefix,
                           Max({leaf.path[Len(prefix) + 1] : leaf \in ToSet(under)})), index.o)
Resolve(c, maps, leaves, acc, prefix) ==
  LET under == SelectSeq(leaves, LAMBDA leaf : IsPrefix(prefix, leaf.path))
  IN IF acc = <<>> THEN [c |-> c, sel |-> Static(under)]
     ELSE IF Head(acc).kind \in {"field", "lit"}
     THEN Resolve(c, maps, leaves, Tail(acc), Append(prefix, Head(acc).v))
     ELSE AnyOf(FlatOperand(c, maps, Head(acc)), maps, leaves, Tail(acc), prefix, under)
\* Mutant: the first element of an array is taken for what an index means.
TargetFirst(c, maps, o) ==
  Resolve(c, maps, maps[o.v],
          [i \in DOMAIN Accesses(o) |->
             LET a == Accesses(o)[i] IN IF a.kind \in {"field", "lit"} THEN a ELSE [kind |-> "field", v |-> 0]],
          <<>>)
Target(c, maps, o) == Resolve(c, maps, maps[o.v], Accesses(o), <<>>)

FlatOperands(c, maps, args) ==
  FoldLeft(LAMBDA m, o : Put(m, FlatOperand(m.c, maps, o)), Nothing(c), args)
\* All leaves of the arguments; those with a computed index are read at once.
AllLeaves(v) == IF IsDynamic(v.sel) THEN ReadLeaves(v.c, v.sel, SelectionWidth(v.sel)) ELSE v
FlatValues(c, maps, args) ==
  FoldLeft(LAMBDA m, o : PutAll(m, AllLeaves(FlatValue(m.c, maps, o))), Nothing(c), args)

-----------------------------------------------------------------------------
(* Writing.                                                                *)

\* One write to the leaf old[i] for element i; into fresh variables if the
\* leaves themselves are not to be written yet.
WriteLeaf(c, index, old, value, actual) ==
  LET n == Len(c.types)
      to == IF actual THEN [i \in DOMAIN old |-> old[i].x] ELSE [i \in DOMAIN old |-> n + i]
      grown == IF actual THEN c.types ELSE c.types \o [i \in DOMAIN old |-> old[i].t]
  IN [c |-> Emit([c EXCEPT !.types = grown], Replace(to, index, value, Uses(old))),
      os |-> [i \in DOMAIN to |-> Use(to[i])]]

CopyLeaves(c, leaves, values) ==
  FoldLeft(LAMBDA m, i : Emit(m, Copy(leaves[i].x, values[i])), c, [i \in DOMAIN leaves |-> i])

\* An array of arrays: what each element would become is computed aside, and
\* the element of the outer index is written back.
RECURSIVE WriteSelection(_, _, _, _)
WriteSelection(c, sel, values, actual) ==
  LET dyn == sel.dyn[1]
      nested == \E i \in DOMAIN dyn.choices : IsDynamic(dyn.choices[i])
      inner == FoldLeft(LAMBDA m, choice :
                          LET r == WriteSelection(m.c, choice, values, FALSE)
                          IN [c |-> r.c, new |-> Append(m.new, r.os)],
                        [c |-> c, new |-> <<>>], dyn.choices)
      groups == [i \in DOMAIN dyn.choices |-> LeavesOf(dyn.choices[i])]
      old(j) == [i \in DOMAIN groups |-> groups[i][j]]
      write(m, j) ==
        LET picked == LookupTemp(m.c, dyn.index, [i \in DOMAIN groups |-> inner.new[i][j]])
            r == IF nested THEN WriteLeaf(picked.c, dyn.index, old(j), picked.o, actual)
                 ELSE WriteLeaf(m.c, dyn.index, old(j), values[j], actual)
        IN [c |-> r.c, columns |-> Append(m.columns, r.os)]
      all == FoldLeft(write, [c |-> IF nested THEN inner.c ELSE c, columns |-> <<>>],
                      [j \in DOMAIN groups[1] |-> j])
  IN IF ~IsDynamic(sel)
     THEN IF actual THEN [c |-> CopyLeaves(c, sel.leaves, values), os |-> Uses(sel.leaves)]
          ELSE [c |-> c, os |-> values]
     ELSE [c |-> all.c,
           os |-> FlattenSeq([i \in DOMAIN groups |->
                    [j \in DOMAIN groups[1] |-> all.columns[j][i]]])]

-----------------------------------------------------------------------------
(* Statements.                                                             *)

\* The target is resolved before the value, and each leaf of a static target
\* gets its own lookup.
SelectInto(elems, x, index) == Emit(elems.c, Select(x, index, elems.os))
WriteBack(values, sel) == WriteSelection(values.c, sel, values.os, TRUE).c
AssignValue(lhs, rhs) ==
  LET dyn == rhs.sel.dyn[1]
      into(m, i) == SelectInto(Elements(m, dyn, i), lhs.leaves[i].x, dyn.index)
  IN IF IsDynamic(lhs)
     THEN WriteBack(IF IsDynamic(rhs.sel) THEN ReadLeaves(rhs.c, rhs.sel, SelectionWidth(lhs)) ELSE rhs, lhs)
     ELSE IF IsDynamic(rhs.sel) THEN FoldLeft(into, rhs.c, [i \in DOMAIN lhs.leaves |-> i])
     ELSE CopyLeaves(rhs.c, lhs.leaves, rhs.os)
AssignTo(lhs, maps, value) == AssignValue(lhs.sel, FlatValue(lhs.c, maps, value))
LowerAssign(c, maps, s) == AssignTo(Target(c, maps, s.to[1]), maps, s.args[1])

\* Only a multiplexer has a target of several leaves.
EmitOp(args, x, s) == Emit(args.c, Do(x, s.op, args.os, s.n))
EmitMuxes(m, leaves, cond) ==
  FoldLeft(LAMBDA c, i : Emit(c, Do(leaves[i].x, "mux", <<cond, m.yes[i], m.no[i]>>, <<>>)),
           m.c, [i \in DOMAIN leaves |-> i])
ElseLeaves(yes, maps, no) ==
  LET r == FlatValue(yes.c, maps, no) IN [c |-> r.c, yes |-> yes.os, no |-> r.os]
MuxOn(cond, maps, s, leaves) ==
  EmitMuxes(ElseLeaves(FlatValue(cond.c, maps, s.args[2]), maps, s.args[3]), leaves, cond.o)
OpInto(to, maps, s) ==
  IF Len(to.sel.leaves) = 1 THEN EmitOp(FlatOperands(to.c, maps, s.args), to.sel.leaves[1].x, s)
  ELSE MuxOn(FlatOperand(to.c, maps, s.args[1]), maps, s, to.sel.leaves)
LowerOp(c, maps, s) == OpInto(Target(c, maps, s.to[1]), maps, s)

\* Without arguments everything is zero; with a constructor (s.n) a field gets
\* its parameter; else the leaves get those of the arguments in order.
CopyArgs(args, leaves) == CopyLeaves(args.c, leaves, args.os)
CopyParams(args, leaves, n) ==
  CopyLeaves(args.c, leaves, [i \in DOMAIN leaves |-> args.os[n[leaves[i].path[1]]]])
ConstructInto(to, maps, s) ==
  LET leaves == to.sel.leaves
  IN IF s.args = <<>> THEN CopyLeaves(to.c, leaves, [i \in DOMAIN leaves |-> Const(0, leaves[i].t)])
     ELSE IF s.n # <<>> /\ Len(leaves) > 1
     THEN CopyParams(FlatOperands(to.c, maps, s.args), leaves, s.n)
     ELSE CopyArgs(IF Len(leaves) = 1 THEN FlatOperands(to.c, maps, s.args) ELSE FlatValues(to.c, maps, s.args),
                   leaves)
LowerConstruct(c, maps, s) == ConstructInto(Target(c, maps, s.to[1]), maps, s)

LowerStmt(c, maps, s) ==
  CASE s.k = "assign" -> LowerAssign(c, maps, s)
    [] s.k = "op" -> LowerOp(c, maps, s)
    [] s.k = "construct" -> LowerConstruct(c, maps, s)
    [] OTHER -> c

\* What follows a return is the end of the top function.
TermWith(on, cases, term) ==
  [c |-> cases.c,
   term |-> IF term.kind = "return" THEN Exit ELSE [term EXCEPT !.on = on.os, !.cases = cases.os]]
TermOn(on, maps, term) == TermWith(on, FlatOperands(on.c, maps, term.cases), term)
LowerTerm(c, maps, term) == TermOn(FlatOperands(c, maps, term.on), maps, term)

\* Forms that are refused.
HasComputedIndex(o) == \E a \in Indices(o) : a.kind # "lit"
RECURSIVE OutOfRange(_, _)
OutOfRange(types, o) ==
  LET acc == Accesses(o)
      upTo(i) == TypeOfPlace(types, [o EXCEPT !.acc = SubSeq(acc, 1, i - 1)])
  IN \E i \in DOMAIN acc : IsIndex(acc[i]) /\ IF acc[i].kind = "lit" THEN acc[i].v >= upTo(i).n
                                               ELSE OutOfRange(types, acc[i])
LeafCount(types, o) == Len(Leaves(TypeOfOperand(types, o)))
Unsupported(types, s) ==
  \/ s.k # "decl" /\ \E o \in ToSet(s.to \o s.args) : OutOfRange(types, o)
  \/ s.k \in {"op", "construct"} /\ HasComputedIndex(s.to[1])
  \/ s.k = "op" /\ LeafCount(types, s.to[1]) # 1 /\ (s.op # "mux" \/ \E i \in 2..3 : HasComputedIndex(s.args[i]))
  \/ s.k = "construct" /\ s.args # <<>> /\ s.n = <<>>
     /\ LeafCount(types, s.to[1]) # Tally([i \in DOMAIN s.args |-> LeafCount(types, s.args[i])])
TooManyLeaves(types) == MaxLeaves # 0 /\ Len(types) > MaxLeaves

-----------------------------------------------------------------------------
(* The two stages.                                                         *)

Init ==
  /\ InlineInit
  /\ flat = [maps |-> <<>>, types |-> <<>>, blocks |-> <<>>, out |-> <<>>]
  /\ at = [b |-> 0, i |-> 0]

InlineStep == InlineNext /\ UNCHANGED flattenVars

Reject == phase' = "rejected" /\ UNCHANGED <<program, stack, cache, flat, at>>

\* A top function with a result is refused.
StartFlatten ==
  /\ FullyInlined
  /\ Source.ret = NoSymbol
  /\ LET maps == LeafMaps(Source.types)
     IN /\ ~TooManyLeaves(LeafTypes(maps))
        /\ flat' = [flat EXCEPT !.maps = maps, !.types = LeafTypes(maps)]
  /\ phase' = "flatten"
  /\ at' = [b |-> 1, i |-> 1]
  /\ UNCHANGED <<program, stack, cache>>
RejectTop ==
  /\ FullyInlined
  /\ Source.ret = NoSymbol => TooManyLeaves(LeafTypes(LeafMaps(Source.types)))
  /\ Reject

InBlock == phase = "flatten" /\ at.i <= Len(Source.blocks[at.b].stmts)
ThisStmt == Source.blocks[at.b].stmts[at.i]
Context == [types |-> flat.types, out |-> flat.out]
Lowered == LowerStmt(Context, flat.maps, ThisStmt)
FlattenStmt ==
  /\ InBlock
  /\ ~Unsupported(Source.types, ThisStmt) /\ ~TooManyLeaves(Lowered.types)
  /\ flat' = [flat EXCEPT !.types = Lowered.types, !.out = Lowered.out]
  /\ at' = [at EXCEPT !.i = @ + 1]
  /\ UNCHANGED <<program, stack, cache, phase>>
RejectStmt ==
  /\ InBlock
  /\ ~Unsupported(Source.types, ThisStmt) => TooManyLeaves(Lowered.types)
  /\ Reject

AtTerm == phase = "flatten" /\ ~InBlock
LoweredTerm == LowerTerm(Context, flat.maps, Source.blocks[at.b].term)
FlattenTerm ==
  /\ AtTerm /\ ~TooManyLeaves(LoweredTerm.c.types)
  /\ LET r == LoweredTerm
     IN flat' = [flat EXCEPT !.types = r.c.types, !.out = <<>>,
                             !.blocks = Append(@, [stmts |-> r.c.out, term |-> r.term])]
  /\ at' = [b |-> at.b + 1, i |-> 1]
  /\ phase' = IF at.b = Len(Source.blocks) THEN "flat" ELSE phase
  /\ UNCHANGED <<program, stack, cache>>

RejectTerm == AtTerm /\ TooManyLeaves(LoweredTerm.c.types) /\ Reject

Finished == Done /\ UNCHANGED vars
Next ==
  \/ InlineStep
  \/ StartFlatten \/ RejectTop
  \/ FlattenStmt \/ RejectStmt \/ FlattenTerm \/ RejectTerm
  \/ Finished
Spec == Init /\ [][Next]_vars

-----------------------------------------------------------------------------
(* Properties.                                                             *)

FlatFunction ==
  [types |-> flat.types, blocks |-> flat.blocks, entry |-> Source.entry, exit |-> Source.exit,
   ports |-> LeafPorts(Source, flat.maps)]
\* Every leaf of an input port gets its part of the input, the others zero.
LeafInput(input) ==
  LET word(x, leaf) == IF x \in DOMAIN input THEN input[x][leaf.path] ELSE 0
      given == FlattenSeq([x \in DOMAIN flat.maps |->
                 [j \in DOMAIN flat.maps[x] |-> word(x, flat.maps[x][j])]])
  IN given \o [i \in 1..(Len(flat.types) - Len(given)) |-> 0]

\* What the two stages make of the program leaves in every leaf of every port
\* what the source program leaves there, also through computed indices and
\* arrays of arrays (S7Flatten.cpp lowerAssign, applySelectionWrite).
FlatteningKeepsMeaning ==
  phase = "flat" =>
    LET ports == Ports(Source, TRUE)
    IN \A input \in InputsOf(program.top) :
         LET out == FlatOutputs(FlatFunction, LeafInput(input))
             end == Outcome(program, program.top, input)
         IN \A i \in DOMAIN ports : \A leaf \in ToSet(flat.maps[ports[i].x]) :
              out[leaf.x] = end[i][leaf.path]
=============================================================================
