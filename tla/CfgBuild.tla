------------------------------ MODULE CfgBuild ------------------------------
(***************************************************************************)
(* Stage S4: CFGBuilder of src/s4cfg/S4CFG.cpp turns the structured body   *)
(* of a function into basic blocks, lowerFunctionExits gives it a single   *)
(* exit, and verifyFunctionCFG checks the result.                          *)
(*                                                                         *)
(* The builder is recursive; here its call stack is the agenda, which      *)
(* holds the statements still to be built and, after the statements of a   *)
(* nested body, what the enclosing handler does when that body is done.    *)
(***************************************************************************)
EXTENDS Cfg

CONSTANTS
  Programs,    \* [body, types, returns, outputs] of the functions
  Statements   \* the statements in their bodies, nested ones included

\* What S3Statementize.h lets a statement hold: bodies and clauses are lists
\* of statements, loop parts lists of sequential ones (checked by emitList).
IsStatement(s) ==
  IsSequential(s) \/
  s.k \in {"if", "for", "while", "do", "switch", "break", "continue", "return"}

Simple == {s \in Statements : IsSequential(s)}
IsLoop(s) == s.k \in {"for", "while", "do"}
StatementLists == Seq(Statements)

ASSUME StatementsAssumption ==
  /\ \A p \in Programs : p.body \in StatementLists
  /\ \A s \in Statements :
       /\ IsStatement(s)
       /\ s.k = "if" => s.yes \in StatementLists /\ s.no \in StatementLists
       /\ IsLoop(s) => s.prelude \in Seq(Simple) /\ s.body \in StatementLists
       /\ s.k = "for" => s.init \in Seq(Simple) /\ s.step \in Seq(Simple)
       /\ s.k = "switch" => /\ s.clauses \in Seq(ToSet(s.clauses))
                            /\ \A c \in ToSet(s.clauses) : c.body \in StatementLists

VARIABLES
  phase,      \* "build", "lower", "verify", then "built", "refused" or "failed"
  prog,
  fn,         \* the CFG under construction
  cur,        \* current_, NoBlock when control cannot get here
  loops,      \* loop_stack_
  breaks, continues,   \* break_targets_, continue_targets_
  agenda

builder == <<phase, prog, cur, loops, breaks, continues, agenda>>
vars == <<builder, fn>>

-----------------------------------------------------------------------------
(* Blocks, edges and terminators *)

AddBlocks(f, stacks) ==
  [f EXCEPT !.blocks = @ \o [i \in DOMAIN stacks |-> Block(stacks[i])]]
New(i) == Len(fn.blocks) + i
Emit(f, b, stmts) == [f EXCEPT !.blocks[b].stmts = @ \o stmts]

\* The terminator and one edge per target.
Terminate(f, b, term, kinds) ==
  [f EXCEPT !.blocks[b].term = term,
            !.blocks[b].succ = [i \in DOMAIN term.to |-> [to |-> term.to[i], kind |-> kinds[i]]]]

JumpTo(f, b, target, kind) ==
  IF b = NoBlock THEN f ELSE Terminate(f, b, Jump(target), <<kind>>)

AddRegion(f, post, condition, prelude, body, exit) ==
  [f EXCEPT !.regions = Append(@, [id |-> Len(@) + 1, post |-> post, condition |-> condition,
                                   prelude |-> prelude, body |-> body, exit |-> exit])]

\* Entry, body and exit block; the entry jumps to the body.
Init ==
  /\ prog \in Programs
  /\ fn = JumpTo([blocks |-> <<Block(<<>>), Block(<<>>), [Block(<<>>) EXCEPT !.term = Exit]>>,
                  regions |-> <<>>, entry |-> 1, exit |-> 3, types |-> prog.types],
                 1, 2, "fallthrough")
  /\ cur = 2
  /\ loops = <<>> /\ breaks = <<>> /\ continues = <<>>
  /\ agenda = prog.body
  /\ phase = "build"

Item == Head(agenda)
Building(k) == phase = "build" /\ agenda # <<>> /\ Item.k = k
Reached(k) == Building(k) /\ cur # NoBlock

-----------------------------------------------------------------------------
(* Statements *)

BuildSequential ==
  /\ phase = "build" /\ agenda # <<>> /\ IsSequential(Item) /\ cur # NoBlock
  /\ fn' = Emit(fn, cur, <<Item>>)
  /\ agenda' = Tail(agenda)
  /\ UNCHANGED <<phase, prog, cur, loops, breaks, continues>>

\* Statements after a jump are dropped with a warning.
SkipUnreachable ==
  /\ phase = "build" /\ agenda # <<>> /\ cur = NoBlock
  /\ IsStatement(Item)
  /\ agenda' = Tail(agenda)
  /\ UNCHANGED <<phase, prog, fn, cur, loops, breaks, continues>>

BuildIf ==
  /\ Reached("if")
  /\ fn' = Terminate(AddBlocks(fn, <<loops, loops, loops>>), cur,
                     Branch(Item.cond, New(1), New(2)), <<"true", "false">>)
  /\ cur' = New(1)
  /\ agenda' = Item.yes \o <<[k |-> "endthen", merge |-> New(3), no |-> New(2)]>>
                 \o Item.no \o <<[k |-> "endelse", merge |-> New(3)]>> \o Tail(agenda)
  /\ UNCHANGED <<phase, prog, loops, breaks, continues>>

EndThen ==
  /\ Building("endthen")
  /\ fn' = JumpTo(fn, cur, Item.merge, "fallthrough")
  /\ cur' = Item.no
  /\ agenda' = Tail(agenda)
  /\ UNCHANGED <<phase, prog, loops, breaks, continues>>

\* Mutant: the merge block is current even when neither branch reaches it.
MergeAlways(f, merge) == merge

\* After two branches that both leave, nothing is reached.
MergeOf(f, merge) == IF Preds(f, merge) = {} THEN NoBlock ELSE merge

EndElse ==
  /\ Building("endelse")
  /\ fn' = JumpTo(fn, cur, Item.merge, "fallthrough")
  /\ cur' = MergeOf(fn', Item.merge)
  /\ agenda' = Tail(agenda)
  /\ UNCHANGED <<phase, prog, loops, breaks, continues>>

-----------------------------------------------------------------------------
(* Loops.  A region's id is its number. *)

RegionId == Len(fn.regions) + 1
Inside == Append(loops, RegionId)

\* The condition block tests, or jumps into the body of a for (;;).
TestBlock(f, condition, cond, body, exit) ==
  IF cond = <<>> THEN JumpTo(f, condition, body, "jump")
  ELSE Terminate(f, condition, Branch(cond[1], body, exit), <<"true", "false">>)

\* Mutant: continue skips the step.
ContinueToPrelude(prelude, step) == prelude

ContinueTarget(prelude, step) == step

BuildFor ==
  /\ Reached("for")
  /\ LET prelude == New(1)  condition == New(2)  body == New(3)  step == New(4)  exit == New(5)
         made    == AddRegion(AddBlocks(Emit(fn, cur, Item.init),
                                        <<Inside, Inside, Inside, Inside, loops>>),
                              FALSE, condition, prelude, body, exit)
         entered == JumpTo(made, cur, prelude, "fallthrough")
         tested  == JumpTo(Emit(entered, prelude, Item.prelude), prelude, condition, "fallthrough")
     IN /\ fn' = TestBlock(tested, condition, Item.cond, body, exit)
        /\ cur' = body
        /\ loops' = Inside
        /\ breaks' = Append(breaks, exit)
        /\ continues' = Append(continues, ContinueTarget(prelude, step))
        /\ agenda' = Item.body \o <<[k |-> "endfor", prelude |-> prelude, step |-> step,
                                     exit |-> exit, stmts |-> Item.step]>> \o Tail(agenda)
  /\ UNCHANGED <<phase, prog>>

LeaveLoop ==
  /\ loops' = Front(loops) /\ breaks' = Front(breaks) /\ continues' = Front(continues)
  /\ cur' = Item.exit
  /\ agenda' = Tail(agenda)
  /\ UNCHANGED <<phase, prog>>

\* The step block is built when the body is, and closes the loop.
EndFor ==
  /\ Building("endfor")
  /\ fn' = JumpTo(Emit(JumpTo(fn, cur, Item.step, "fallthrough"), Item.step, Item.stmts),
                  Item.step, Item.prelude, "jump")
  /\ LeaveLoop

BuildWhile ==
  /\ Reached("while")
  /\ LET prelude == New(1)  condition == New(2)  body == New(3)  exit == New(4)
         made    == AddRegion(AddBlocks(fn, <<Inside, Inside, Inside, loops>>),
                              FALSE, condition, prelude, body, exit)
         entered == JumpTo(made, cur, prelude, "fallthrough")
         tested  == JumpTo(Emit(entered, prelude, Item.prelude), prelude, condition, "fallthrough")
     IN /\ fn' = TestBlock(tested, condition, Item.cond, body, exit)
        /\ cur' = body
        /\ loops' = Inside
        /\ breaks' = Append(breaks, exit)
        /\ continues' = Append(continues, prelude)
        /\ agenda' = Item.body \o <<[k |-> "endwhile", prelude |-> prelude, exit |-> exit]>>
                       \o Tail(agenda)
  /\ UNCHANGED <<phase, prog>>

EndWhile ==
  /\ Building("endwhile")
  /\ fn' = JumpTo(fn, cur, Item.prelude, "jump")
  /\ LeaveLoop

BuildDoWhile ==
  /\ Reached("do")
  /\ LET body == New(1)  prelude == New(2)  condition == New(3)  exit == New(4)
         made == AddRegion(AddBlocks(fn, <<Inside, Inside, Inside, loops>>),
                           TRUE, condition, prelude, body, exit)
     IN /\ fn' = JumpTo(made, cur, body, "fallthrough")
        /\ cur' = body
        /\ loops' = Inside
        /\ breaks' = Append(breaks, exit)
        /\ continues' = Append(continues, prelude)
        /\ agenda' = Item.body \o <<[k |-> "enddo", prelude |-> prelude, condition |-> condition,
                                     body |-> body, exit |-> exit, loop |-> Item]>> \o Tail(agenda)
  /\ UNCHANGED <<phase, prog>>

EndDoWhile ==
  /\ Building("enddo")
  /\ LET ended  == JumpTo(fn, cur, Item.prelude, "fallthrough")
         tested == JumpTo(Emit(ended, Item.prelude, Item.loop.prelude),
                          Item.prelude, Item.condition, "fallthrough")
     IN fn' = TestBlock(tested, Item.condition, Item.loop.cond, Item.body, Item.exit)
  /\ LeaveLoop

-----------------------------------------------------------------------------
(* Switch, jumps, returns *)

\* The clause block of the first default, or the exit.
DefaultTarget(clauses, exit) ==
  LET defaults == {i \in DOMAIN clauses : clauses[i].value = <<>>}
  IN IF defaults = {} THEN exit ELSE exit + Min(defaults)

\* The clauses that have a value, in order.
Valued(clauses) ==
  FoldLeftDomain(LAMBDA valued, i : IF clauses[i].value = <<>> THEN valued ELSE Append(valued, i),
                 <<>>, clauses)

\* Each body in its block, one after the other.
ClauseItems(clauses, exit) ==
  FoldLeftDomain(LAMBDA items, i :
                   items \o (<<[k |-> "case", block |-> exit + i]>> \o clauses[i].body),
                 <<>>, clauses)

BuildSwitch ==
  /\ Reached("switch")
  /\ LET exit   == New(1)
         count  == Len(Item.clauses)
         valued == Valued(Item.clauses)
         vals   == [i \in DOMAIN valued |-> Item.clauses[valued[i]].value[1]]
         to     == [i \in DOMAIN valued |-> exit + valued[i]]
     IN /\ fn' = Terminate(AddBlocks(fn, [i \in 1..count + 1 |-> loops]), cur,
                           Switch(Item.on, vals, Append(to, DefaultTarget(Item.clauses, exit))),
                           [i \in 1..Len(to) + 1 |-> IF i > Len(to) THEN "default" ELSE "case"])
        /\ breaks' = Append(breaks, exit)
        /\ agenda' = ClauseItems(Item.clauses, exit)
                       \o <<[k |-> "endswitch", exit |-> exit]>> \o Tail(agenda)
  /\ cur' = NoBlock
  /\ UNCHANGED <<phase, prog, loops, continues>>

\* The clause before falls through.
BuildCase ==
  /\ Building("case")
  /\ fn' = JumpTo(fn, cur, Item.block, "fallthrough")
  /\ cur' = Item.block
  /\ agenda' = Tail(agenda)
  /\ UNCHANGED <<phase, prog, loops, breaks, continues>>

\* The exit is current whether or not anything reaches it.
EndSwitchBody ==
  /\ Building("endswitch")
  /\ fn' = JumpTo(fn, cur, Item.exit, "fallthrough")
  /\ cur' = Item.exit
  /\ breaks' = Front(breaks)
  /\ agenda' = Tail(agenda)
  /\ UNCHANGED <<phase, prog, loops, continues>>

\* Mutant: break leaves the outermost construct.
BreakOutermost == Head(breaks)

BreakTarget == Last(breaks)

\* Mutant: the block that jumped stays current.
StillCurrent == cur

AfterJump == NoBlock

\* "Not inside a loop or switch", "returns without a value".
RejectStatement ==
  /\ \/ Reached("break") /\ breaks = <<>>
     \/ Reached("continue") /\ continues = <<>>
     \/ Reached("return") /\ prog.returns /\ Item.val = <<>>
  /\ phase' = "refused"
  /\ UNCHANGED <<prog, fn, cur, loops, breaks, continues, agenda>>

BuildBreak ==
  /\ Reached("break") /\ breaks # <<>>
  /\ fn' = JumpTo(fn, cur, BreakTarget, "break")
  /\ cur' = AfterJump
  /\ agenda' = Tail(agenda)
  /\ UNCHANGED <<phase, prog, loops, breaks, continues>>

BuildContinue ==
  /\ Reached("continue") /\ continues # <<>>
  /\ fn' = JumpTo(fn, cur, Last(continues), "continue")
  /\ cur' = AfterJump
  /\ agenda' = Tail(agenda)
  /\ UNCHANGED <<phase, prog, loops, breaks, continues>>

BuildReturn ==
  /\ Reached("return")
  /\ prog.returns => Item.val # <<>>
  /\ fn' = Terminate(fn, cur, Return(Item.val, fn.exit), <<"return">>)
  /\ cur' = AfterJump
  /\ agenda' = Tail(agenda)
  /\ UNCHANGED <<phase, prog, loops, breaks, continues>>

-----------------------------------------------------------------------------
(* The end of the function *)

\* Control that falls off the end returns, in a void function only.
FinishBody ==
  /\ phase = "build" /\ agenda = <<>>
  /\ phase' = IF cur # NoBlock /\ prog.returns THEN "failed" ELSE "lower"
  /\ fn' = IF cur # NoBlock /\ ~prog.returns
           THEN Terminate(fn, cur, Return(<<>>, fn.exit), <<"return">>) ELSE fn
  /\ cur' = NoBlock
  /\ UNCHANGED <<prog, loops, breaks, continues, agenda>>

\* The return slot, declared at the entry, follows the function's symbols.
Slot == Len(prog.types) + 1
ReturnType == Unsigned(3)

\* Mutant: only the first return writes the slot.
LowerFirstReturn(f, b) ==
  LET t == f.blocks[b].term
  IN IF t.kind # "return" THEN f.blocks[b]
     ELSE [f.blocks[b] EXCEPT !.term = Jump(f.exit), !.stmts =
             IF t.on = <<>> \/ \E a \in Blocks(f) : a < b /\ f.blocks[a].term.kind = "return"
             THEN @ ELSE Append(@, Assign(Slot, t.on[1]))]

LowerReturn(f, b) ==
  LET t == f.blocks[b].term
  IN IF t.kind # "return" THEN f.blocks[b]
     ELSE [f.blocks[b] EXCEPT !.term = Jump(f.exit), !.stmts =
             IF t.on = <<>> THEN @ ELSE Append(@, Assign(Slot, t.on[1]))]

\* Returns have a value exactly in a function that returns one.
ReturnsMatch ==
  \A b \in Blocks(fn) : fn.blocks[b].term.kind = "return" =>
    (fn.blocks[b].term.on # <<>>) = prog.returns

LowerFunctionExits ==
  /\ phase = "lower"
  /\ LET slotted == IF ~prog.returns THEN fn
                    ELSE [fn EXCEPT !.types = Append(@, ReturnType),
                                    !.blocks[fn.entry].stmts = <<Decl(Slot)>> \o @]
     IN fn' = [slotted EXCEPT !.blocks = [b \in Blocks(fn) |-> LowerReturn(slotted, b)]]
  /\ phase' = IF ReturnsMatch THEN "verify" ELSE "refused"
  /\ UNCHANGED <<prog, cur, loops, breaks, continues, agenda>>

\* verifyFunctionCFG; the targets of edges and terminator are compared sorted.
Occurrences(targets, t) == Cardinality({i \in DOMAIN targets : targets[i] = t})

VerifyOk(f) ==
  \A b \in Blocks(f) :
    LET bb == f.blocks[b]
        heads == [i \in DOMAIN bb.succ |-> bb.succ[i].to]
    IN /\ b = f.exit <=> bb.term.kind = "exit"
       /\ ToSet(heads) \cup ToSet(bb.term.to) \subseteq Blocks(f)
       /\ \A t \in Blocks(f) : Occurrences(heads, t) = Occurrences(bb.term.to, t)
       /\ \A i \in DOMAIN bb.stmts : IsSequential(bb.stmts[i])

VerifyFunctionCFG ==
  /\ phase = "verify"
  /\ phase' = IF VerifyOk(fn) THEN "built" ELSE "failed"
  /\ UNCHANGED <<prog, fn, cur, loops, breaks, continues, agenda>>

Stopped == phase \in {"built", "refused", "failed"} /\ UNCHANGED vars

BuildStep ==
  \/ BuildSequential \/ SkipUnreachable
  \/ BuildIf \/ EndThen \/ EndElse
  \/ BuildFor \/ EndFor \/ BuildWhile \/ EndWhile \/ BuildDoWhile \/ EndDoWhile
  \/ BuildSwitch \/ BuildCase \/ EndSwitchBody
  \/ BuildBreak \/ BuildContinue \/ BuildReturn \/ RejectStatement
  \/ FinishBody \/ LowerFunctionExits \/ VerifyFunctionCFG

Next == BuildStep \/ Stopped

Spec == Init /\ [][Next]_vars
-----------------------------------------------------------------------------
(* Properties *)

CONSTANTS Oracles, Fuel   \* the call results to run with; steps to run for

\* The CFG does what the structured body means: for every outcome of its
\* calls the same calls happen in the same order, it stops at the same
\* point, and the return slot holds the value returned.
Matches(got, ref) ==
  /\ got.m.trace = ref.m.trace
  /\ got.m.cut = ref.m.cut
  /\ got.ended = (ref.ended /\ ~ref.m.cut)
  /\ got.ended /\ prog.returns => got.m.env[Slot] = ref.val[1]
MeansTheSame ==
  \A results \in Oracles : Matches(RunCfg(fn, results, Fuel), RunBody(prog, results, Fuel))

SameBehaviour == phase = "built" => MeansTheSame

\* What S5 relies on: without the entries of its loop regions the CFG has no
\* cycle; a region is entered at its entry only, and left only for its exit
\* or the function's.  Stage S5 keeps this for the regions that remain.
Members(r) == {b \in Reachable(fn) : r.id \in ToSet(fn.blocks[b].loops)}
EntryOf(r) == IF r.post THEN r.body ELSE r.prelude

RegionsSound ==
  phase = "built" =>
    /\ LET entries == {EntryOf(r) : r \in ToSet(fn.regions)}
       IN \A b \in Blocks(fn) \ entries :
            b \notin ReachFrom(fn, Succs(fn, b), entries)
    /\ \A r \in ToSet(fn.regions) :
         /\ ReachFrom(fn, {fn.entry}, {EntryOf(r)}) \cap Members(r) = {}
         /\ \A b \in Members(r) :
              Succs(fn, b) \ Members(r) \subseteq {r.exit, fn.exit}

\* Nothing is added to a block once control has left it: until the exits are
\* lowered, a block with a terminator keeps its statements and its edges.
ClosedBlocksStay ==
  [][phase = "build" =>
       \A b \in Blocks(fn) : fn.blocks[b].term # Open => fn'.blocks[b] = fn.blocks[b]]_vars

\* A function is refused only if it "may fall through without return"
\* (FinishBody's message): some run of it ends without a value.
EndsWithoutValue(run) == run.ended /\ ~run.m.cut /\ run.val = <<>>
OnlyFallThroughFails ==
  phase = "failed" =>
    \E results \in Oracles : EndsWithoutValue(RunBody(prog, results, Fuel))
=============================================================================
