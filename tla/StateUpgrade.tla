---------------------------- MODULE StateUpgrade ----------------------------
(***************************************************************************)
(* The last part of stage S8, hoistBranchLocalCombinational of             *)
(* src/src/s8opnorm/S81StateUpgrade.cpp: a computation in the arm of a     *)
(* branch moves in front of the branch, under a new name that replaces the *)
(* old one in the blocks only that arm leads to.                           *)
(*                                                                         *)
(* Branches are visited deepest first, so that what leaves an inner branch *)
(* is seen again in the arm around it.                                     *)
(***************************************************************************)
EXTENDS NormCfg

CONSTANT Programs   \* the functions given to the pass

VARIABLES
  source,   \* the function before the pass
  fn,       \* the function now
  todo,     \* the blocks whose branch is still to be visited
  parent,   \* the block visited
  arms,     \* parent's children still to be visited
  at,       \* the next statement of the first of arms
  defs      \* local_defs: what statements that stay in that arm write

vars == <<source, fn, todo, parent, arms, at, defs>>

-----------------------------------------------------------------------------

\* The longest way from the entry, -1 for blocks that are not reached.
Lengthen(f, d, b) ==
  [d EXCEPT ![b] = Max({d[b]} \cup {d[a] + 1 : a \in {p \in Preds(f, b) : d[p] >= 0}})]
Depths(f) ==
  FoldLeft(LAMBDA depths, round : FoldLeft(LAMBDA d, b : Lengthen(f, d, b), depths, [b \in Blocks(f) |-> b]),
           [b \in Blocks(f) |-> IF b = f.entry THEN 0 ELSE -1], f.blocks)

\* Mutant: outer branches first.
Shallowest(depths, blocks) == {b \in blocks : \A c \in blocks : depths[b] <= depths[c]}
Deepest(depths, blocks) == {b \in blocks : \A c \in blocks : depths[b] >= depths[c]}

OneWayIn(f, b) == Cardinality(Preds(f, b)) = 1
Arms(f, b) ==
  IF f.blocks[b].term.kind # "branch" THEN <<>>
  ELSE SelectSeq(Ascending(Succs(f, b)), LAMBDA c : OneWayIn(f, c))

\* The blocks in which the new name replaces the old one.
Region(f, arm) ==
  LET grow(r) == r \cup {b \in UNION {Succs(f, a) : a \in r} : OneWayIn(f, b)}
  IN FoldLeft(LAMBDA r, b : grow(r), {arm}, f.blocks)

\* Defined for all values of the operands.
Total(s) == s.k \in {"assign", "op"} /\ s.op # "dyn_bit"

UsedOutside(f, x, region) ==
  \E b \in ReachFrom(f, (UNION {Succs(f, r) : r \in region}) \ region) :
    x \in ReadsOfTerm(f.blocks[b].term) \cup UNION {Reads(s.args) : s \in ToSet(f.blocks[b].stmts)}
\* Mutant: a second write in the region does not matter.
EscapesByUse(f, arm, i, x, region) == UsedOutside(f, x, region)
\* What statement i of arm writes is written again, or read where arms meet.
Escapes(f, arm, i, x, region) ==
  \/ \E b \in region : \E j \in DOMAIN f.blocks[b].stmts :
       <<b, j>> # <<arm, i>> /\ x \in ToSet(f.blocks[b].stmts[j].to)
  \/ UsedOutside(f, x, region)

\* Mutant: operands may come from statements that stay.
HoistableAnyway(f, arm, i, staying) ==
  LET s == f.blocks[arm].stmts[i]
  IN Total(s) /\ s.to[1] \notin {p.x : p \in ToSet(f.ports)}
       /\ ~Escapes(f, arm, i, s.to[1], Region(f, arm))
\* Statement i of arm may go, given what the statements that stay write.
Hoistable(f, arm, i, staying) ==
  LET s == f.blocks[arm].stmts[i]
  IN /\ Total(s)
     /\ s.to[1] \notin {p.x : p \in ToSet(f.ports)}
     /\ Reads(s.args) \cap staying = {}
     /\ ~Escapes(f, arm, i, s.to[1], Region(f, arm))

\* renameUses
Renamed(args, x, y) == [i \in DOMAIN args |-> IF args[i] = Var(x) THEN Var(y) ELSE args[i]]
RenamedBlock(b, x, y) ==
  [stmts |-> [i \in DOMAIN b.stmts |-> [b.stmts[i] EXCEPT !.args = Renamed(@, x, y)]],
   term |-> [b.term EXCEPT !.on = Renamed(@, x, y), !.cases = Renamed(@, x, y)]]

Hoisted(f, p, arm, i) ==
  LET x == f.blocks[arm].stmts[i].to[1]
      y == Len(f.types) + 1
      renamed == [b \in Blocks(f) |-> IF b \in Region(f, arm) THEN RenamedBlock(f.blocks[b], x, y)
                                      ELSE f.blocks[b]]
      moved == [renamed[arm].stmts[i] EXCEPT !.to = <<y>>]
  IN [f EXCEPT !.types = Append(@, f.types[x]),
               !.blocks = [renamed EXCEPT ![arm].stmts = RemoveAt(@, i),
                                          ![p].stmts = Append(@, moved)]]

-----------------------------------------------------------------------------
Init ==
  /\ source \in Programs
  /\ fn = source
  /\ todo = ReachFrom(source, {source.entry})
  /\ parent = NoBlock /\ arms = <<>> /\ at = 1 /\ defs = {}

\* Blocks of one depth come in the order that std::sort leaves them in.
VisitBranch ==
  /\ arms = <<>>
  /\ \E b \in Deepest(Depths(fn), todo) :
       /\ todo' = todo \ {b}
       /\ parent' = b
       /\ arms' = Arms(fn, b)
  /\ at' = 1 /\ defs' = {}
  /\ UNCHANGED <<source, fn>>

InArm == arms # <<>> /\ at <= Len(fn.blocks[Head(arms)].stmts)

KeepStmt ==
  /\ InArm
  /\ ~Hoistable(fn, Head(arms), at, defs)
  /\ defs' = defs \cup ToSet(fn.blocks[Head(arms)].stmts[at].to)
  /\ at' = at + 1
  /\ UNCHANGED <<source, fn, todo, parent, arms>>

\* The statement leaves the arm, so that at now is the next one.
HoistStmt ==
  /\ InArm
  /\ Hoistable(fn, Head(arms), at, defs)
  /\ fn' = Hoisted(fn, parent, Head(arms), at)
  /\ UNCHANGED <<source, todo, parent, arms, at, defs>>

LeaveArm ==
  /\ arms # <<>> /\ at > Len(fn.blocks[Head(arms)].stmts)
  /\ arms' = Tail(arms)
  /\ at' = 1 /\ defs' = {}
  /\ UNCHANGED <<source, fn, todo, parent>>

Done == arms = <<>> /\ todo = {}
Finished == Done /\ UNCHANGED vars

Next == VisitBranch \/ KeepStmt \/ HoistStmt \/ LeaveArm \/ Finished

Spec == Init /\ [][Next]_vars

-----------------------------------------------------------------------------
(* Properties *)

\* Whatever has been moved so far, the function computes what it computed
\* before, for all inputs (hoistBranchLocalCombinational).
HoistingKeepsMeaning ==
  \A input \in Inputs(fn) : Outputs(fn, input) = Outputs(source, input)

\* What may be unassigned at the start of b, over all paths.
MayBeUnassigned(f) ==
  LET locals == DOMAIN f.types \ {p.x : p \in ToSet(f.ports)}
      out(in, b) == in[b] \ UNION {ToSet(s.to) : s \in ToSet(f.blocks[b].stmts)}
      pass(in, b) == [in EXCEPT ![b] = @ \cup UNION {out(in, a) : a \in Preds(f, b)}]
      round(in) == FoldLeft(pass, in, [b \in Blocks(f) |-> b])
  IN FoldLeft(LAMBDA in, b : round(in),
              [b \in Blocks(f) |-> IF b = f.entry THEN locals ELSE {}], f.blocks)
ReadsUnassigned(f) ==
  LET start == MayBeUnassigned(f)
      left(b, i) == start[b] \ UNION {ToSet(f.blocks[b].stmts[j].to) : j \in 1..(i - 1)}
  IN \E b \in ReachFrom(f, {f.entry}) :
       \/ \E i \in DOMAIN f.blocks[b].stmts : Reads(f.blocks[b].stmts[i].args) \cap left(b, i) # {}
       \/ ReadsOfTerm(f.blocks[b].term) \cap left(b, Len(f.blocks[b].stmts) + 1) # {}
\* Moving a computation forward never makes it read a variable that some path
\* has not assigned yet: S9 would refuse a function it accepts without the pass.
HoistingKeepsAssigned == ReadsUnassigned(fn) => ReadsUnassigned(source)

\* Deepest first is far enough: once the pass is through, no arm of a branch
\* holds a statement that could still move.
NothingLeftToHoist ==
  Done => \A b \in ReachFrom(fn, {fn.entry}) : \A arm \in ToSet(Arms(fn, b)) :
    \A i \in DOMAIN fn.blocks[arm].stmts :
      ~Hoistable(fn, arm, i, UNION {ToSet(fn.blocks[arm].stmts[j].to) : j \in 1..(i - 1)})
=============================================================================
