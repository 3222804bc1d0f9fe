---------------------------- MODULE CfgBuildProofs ----------------------------
(***************************************************************************)
(* Proofs about CfgBuild, for every set of programs that is made of        *)
(* statements as stage S3 makes them.                                      *)
(*                                                                         *)
(* The inductive invariant IInv has two halves.  The graph built so far is *)
(* sound (GraphOk): every edge stays in its loop nest, or enters a region  *)
(* at its entry, or leaves one for its exit, and the blocks have ranks     *)
(* that rise along every edge but those to region entries and to blocks    *)
(* that have not been closed yet.  And what the call stack of the builder  *)
(* will still do fits that graph: between two items of the agenda there is *)
(* a context, the three stacks of targets and the blocks the pending       *)
(* handlers still own, which no terminator has closed (Segment).  A block  *)
(* is then closed once, by the handler that owns it or as the current      *)
(* block, and where it jumps to was made for its loop nest.                *)
(***************************************************************************)
EXTENDS CfgBuild, FoldFacts

-----------------------------------------------------------------------------
(* Sequences *)

\* A sequence of sequential statements.
AllSequential(s) == IsSeq(s) /\ \A i \in DOMAIN s : IsSequential(s[i])

\* A loop part that StatementsAssumption lists is sequential.
LEMMA SimpleFacts ==
  ASSUME NEW s \in Seq(Simple)
  PROVE  AllSequential(s)
<1>1. IsSeq(s) BY SeqOver
<1> QED BY <1>1 DEF AllSequential, Simple

\* Two lists of sequential statements make one.
LEMMA SequentialConcat ==
  ASSUME NEW s, NEW t, AllSequential(s), AllSequential(t)
  PROVE  AllSequential(s \o t)
<1>1. IsSeq(s) /\ IsSeq(t) BY DEF AllSequential
<1>2. /\ \A i \in 1..Len(s) : IsSequential(s[i])
      /\ \A i \in 1..Len(t) : IsSequential(t[i])
  BY <1>1, SeqFacts DEF AllSequential
<1>3. IsSeq(s \o t) /\ Len(s \o t) = Len(s) + Len(t) BY <1>1, ConcatFacts
<1>4. Len(s) \in Nat /\ Len(t) \in Nat /\ DOMAIN (s \o t) = 1..(Len(s) + Len(t))
  BY <1>1, <1>3, SeqFacts
<1>5. ASSUME NEW i \in 1..(Len(s) + Len(t)) PROVE IsSequential((s \o t)[i])
  <2>1. CASE i <= Len(s) BY <1>1, <1>2, <1>4, <2>1, ConcatFacts
  <2>2. CASE i > Len(s)
    <3>1. i - Len(s) \in 1..Len(t) /\ i = Len(s) + (i - Len(s)) BY <1>4, <2>2
    <3>2. (s \o t)[i] = t[i - Len(s)] BY <1>1, <3>1, ConcatFacts
    <3> QED BY <1>2, <3>1, <3>2
  <2> QED BY <1>4, <2>1, <2>2
<1> QED BY <1>3, <1>4, <1>5 DEF AllSequential

-----------------------------------------------------------------------------
(* The graph *)

\* What a graph holds at a block: the loops around it (loop_stack), where its
\* terminator goes; the blocks no terminator has closed; the region entries.
LoopsOf(f, b) == f.blocks[b].loops
Targets(f, b) == ToSet(f.blocks[b].term.to)
OpenBlocks(f) == {b \in Blocks(f) : f.blocks[b].term = Open}
Entries(f) == {EntryOf(f.regions[i]) : i \in DOMAIN f.regions}

\* A block in loop nest l may go to t: to the function's exit, to a block of the
\* same nest, to the entry of a region right inside, to the exit of the innermost.
Flow(f, l, t) ==
  \/ t = f.exit
  \/ LoopsOf(f, t) = l
  \/ \E i \in DOMAIN f.regions : LoopsOf(f, t) = Append(l, i) /\ t = EntryOf(f.regions[i])
  \/ \E i \in DOMAIN f.regions : l = Append(LoopsOf(f, t), i) /\ t = f.regions[i].exit

\* What every block satisfies, open or closed: its edges are its terminator's,
\* in order, and stay within the loop structure; only the exit block exits.
BlockOk(f, b) ==
  LET bb == f.blocks[b]
  IN /\ bb = [stmts |-> bb.stmts, term |-> bb.term, succ |-> bb.succ, loops |-> bb.loops]
     /\ AllSequential(bb.stmts)
     /\ bb.loops \in Seq(Nat)
     /\ bb.term.to \in Seq(Blocks(f))
     /\ bb.succ = [i \in DOMAIN bb.term.to |->
                     [to |-> bb.term.to[i], kind |-> bb.succ[i].kind]]
     /\ b = f.exit <=> bb.term.kind = "exit"
     /\ bb.term.kind = "return" => bb.term.to = <<f.exit>>
     /\ b = f.exit => bb.loops = <<>> /\ bb.term.to = <<>>
     /\ \A t \in Targets(f, b) : Flow(f, bb.loops, t)

\* A rank that rises along every edge that neither enters a region nor leads to
\* a block without successors: the only cycles go through region entries.
Ranked(f, rank) ==
  \A b \in Blocks(f) : \A t \in Targets(f, b) :
    \/ t \in Entries(f)
    \/ f.blocks[t].term.to = <<>>
    \/ rank[b] < rank[t]

\* The graph the builder has made so far.
GraphOk(f) ==
  /\ f = [blocks |-> f.blocks, regions |-> f.regions, entry |-> 1, exit |-> 3,
          types |-> f.types]
  /\ IsSeq(f.blocks) /\ Len(f.blocks) >= 3
  /\ IsSeq(f.regions)
  /\ \A i \in DOMAIN f.regions : f.regions[i].id = i
  /\ LoopsOf(f, 1) = <<>>
  /\ \A b \in Blocks(f) : BlockOk(f, b)
  /\ \E rank \in [Blocks(f) -> Nat] : Ranked(f, rank)

-----------------------------------------------------------------------------
(* The agenda *)

\* A context: the three target stacks of CFGBuilder when an item is reached, and
\* the blocks the handlers on the call stack have made but not built yet.
Ctx(l, b, c, o) == [loops |-> l, breaks |-> b, continues |-> c, own |-> o]

\* A target a break or continue may use: not closed, or the entry of a region.
Aim(f, c, t) == t \in Blocks(f) /\ (t \in c.own \/ t \in Entries(f)) /\ Flow(f, c.loops, t)

\* The stacks of a context aim at blocks of the graph.
Good(f, c) ==
  /\ c.loops \in Seq(Nat) /\ c.breaks \in Seq(Nat) /\ c.continues \in Seq(Nat)
  /\ c.own \subseteq Blocks(f)
  /\ c.breaks # <<>> => Aim(f, c, Last(c.breaks))
  /\ c.continues # <<>> => Aim(f, c, Last(c.continues))

\* How an item changes the context: it keeps the stacks, gives up the blocks it
\* builds, or (LeavesTo) pops the three stacks at the end of a loop.
Keeps(c, d) == d.loops = c.loops /\ d.breaks = c.breaks /\ d.continues = c.continues
GivesUp(c, own, d) == c.own = own \cup d.own /\ own \cap d.own = {}
In(f, b, l) == b \in Blocks(f) /\ LoopsOf(f, b) = l

LeavesTo(f, c, d, exit) ==
  /\ c.loops # <<>> /\ d.loops = Front(c.loops)
  /\ c.breaks # <<>> /\ d.breaks = Front(c.breaks)
  /\ c.continues # <<>> /\ d.continues = Front(c.continues)
  /\ In(f, exit, d.loops)
  /\ Flow(f, c.loops, exit)

\* What each marker of the agenda takes from the context before it, c, to d.
AtEndThen(f, it, c, d) ==
  /\ it.k = "endthen" /\ Keeps(c, d) /\ GivesUp(c, {it.no}, d)
  /\ it.merge \in d.own /\ In(f, it.no, c.loops) /\ In(f, it.merge, c.loops)
AtEndElse(f, it, c, d) ==
  /\ it.k = "endelse" /\ Keeps(c, d) /\ GivesUp(c, {it.merge}, d) /\ In(f, it.merge, c.loops)
AtEndFor(f, it, c, d) ==
  /\ it.k = "endfor" /\ LeavesTo(f, c, d, it.exit) /\ GivesUp(c, {it.step, it.exit}, d)
  /\ it.step # it.exit /\ In(f, it.step, c.loops)
  /\ it.prelude \in Entries(f) /\ In(f, it.prelude, c.loops)
  /\ AllSequential(it.stmts)
AtEndWhile(f, it, c, d) ==
  /\ it.k = "endwhile" /\ LeavesTo(f, c, d, it.exit) /\ GivesUp(c, {it.exit}, d)
  /\ it.prelude \in Entries(f) /\ In(f, it.prelude, c.loops)
AtEndDo(f, it, c, d) ==
  /\ it.k = "enddo" /\ LeavesTo(f, c, d, it.exit)
  /\ GivesUp(c, {it.prelude, it.condition, it.exit}, d)
  /\ it.prelude # it.condition /\ it.prelude # it.exit /\ it.condition # it.exit
  /\ In(f, it.prelude, c.loops) /\ In(f, it.condition, c.loops)
  /\ it.body \in Entries(f) /\ In(f, it.body, c.loops)
  /\ AllSequential(it.loop.prelude)
AtCase(f, it, c, d) ==
  /\ it.k = "case" /\ Keeps(c, d) /\ GivesUp(c, {it.block}, d) /\ In(f, it.block, c.loops)
AtEndSwitch(f, it, c, d) ==
  /\ it.k = "endswitch" /\ d.loops = c.loops /\ d.continues = c.continues
  /\ c.breaks # <<>> /\ d.breaks = Front(c.breaks)
  /\ GivesUp(c, {it.exit}, d) /\ In(f, it.exit, c.loops)

\* An item between two contexts; a statement leaves the context as it is.
ItemOk(f, it, c, d) ==
  \/ it \in Statements /\ d = c
  \/ AtEndThen(f, it, c, d) \/ AtEndElse(f, it, c, d)
  \/ AtEndFor(f, it, c, d) \/ AtEndWhile(f, it, c, d) \/ AtEndDo(f, it, c, d)
  \/ AtCase(f, it, c, d) \/ AtEndSwitch(f, it, c, d)

\* A part of the agenda that leads from context c to context d.
Path(f, s, cs) ==
  /\ \A i \in 1..(Len(s) + 1) : Good(f, cs[i])
  /\ \A i \in 1..Len(s) : ItemOk(f, s[i], cs[i], cs[i + 1])

Segment(f, s, c, d) ==
  /\ IsSeq(s)
  /\ \E cs : Path(f, s, cs) /\ cs[1] = c /\ cs[Len(s) + 1] = d

\* The context of the first item is the state: the owned blocks are open.
Current(c) ==
  /\ c.loops = loops /\ c.breaks = breaks /\ c.continues = continues
  /\ c.own \subseteq OpenBlocks(fn)
  /\ cur \notin c.own

\* current_ is an open block inside the loops of loop_stack_.
CurOk == cur # NoBlock => cur \in OpenBlocks(fn) /\ LoopsOf(fn, cur) = loops

\* The invariant while statements are built, and after.
BuildInv ==
  /\ GraphOk(fn)
  /\ CurOk
  /\ \E c, d : Segment(fn, agenda, c, d) /\ Current(c)

AfterInv == GraphOk(fn)

\* The inductive invariant.
IInv ==
  /\ prog \in Programs
  /\ phase \in {"build", "lower", "verify", "built", "refused", "failed"}
  /\ IF phase = "build" THEN BuildInv ELSE AfterInv

-----------------------------------------------------------------------------
(* Growing graphs *)

\* Building only adds: blocks keep their loops, regions stay, and a block that
\* has a terminator does not change.
Grows(f, f2) ==
  /\ f2.exit = f.exit
  /\ Blocks(f) \subseteq Blocks(f2)
  /\ \A b \in Blocks(f) : LoopsOf(f2, b) = LoopsOf(f, b)
  /\ DOMAIN f.regions \subseteq DOMAIN f2.regions
  /\ \A i \in DOMAIN f.regions : f2.regions[i] = f.regions[i]
  /\ \A b \in Blocks(f) \ OpenBlocks(f) : f2.blocks[b] = f.blocks[b]

\* Growing is transitive.
LEMMA GrowsAlong ==
  ASSUME NEW f, NEW f2, NEW f3, Grows(f, f2), Grows(f2, f3)
  PROVE  Grows(f, f3)
<1>1. ASSUME NEW b \in Blocks(f) \ OpenBlocks(f) PROVE f3.blocks[b] = f.blocks[b]
  <2>1. f2.blocks[b] = f.blocks[b] /\ b \in Blocks(f2) BY DEF Grows
  <2>2. b \notin OpenBlocks(f2) BY <2>1 DEF OpenBlocks
  <2> QED BY <2>1, <2>2 DEF Grows
<1>2. \A i \in DOMAIN f.regions : f3.regions[i] = f.regions[i] BY DEF Grows
<1>3. \A b \in Blocks(f) : LoopsOf(f3, b) = LoopsOf(f, b) BY DEF Grows
<1>4. f3.exit = f.exit /\ Blocks(f) \subseteq Blocks(f3)
      /\ DOMAIN f.regions \subseteq DOMAIN f3.regions
  BY DEF Grows
<1> QED BY <1>1, <1>2, <1>3, <1>4 DEF Grows

\* A graph that does not change grows.
LEMMA GrowsNot ==
  ASSUME NEW f
  PROVE  Grows(f, f)
BY DEF Grows

\* Region entries stay entries.
LEMMA EntriesStay ==
  ASSUME NEW f, NEW f2, Grows(f, f2)
  PROVE  Entries(f) \subseteq Entries(f2)
BY DEF Grows, Entries

\* An edge that fits the loop structure keeps fitting it.
LEMMA FlowStays ==
  ASSUME NEW f, NEW f2, Grows(f, f2), NEW l, NEW t \in Blocks(f), Flow(f, l, t)
  PROVE  Flow(f2, l, t)
<1>1. LoopsOf(f2, t) = LoopsOf(f, t) /\ f2.exit = f.exit BY DEF Grows
<1>2. \A i \in DOMAIN f.regions : i \in DOMAIN f2.regions /\ f2.regions[i] = f.regions[i]
  BY DEF Grows
<1>3. CASE \E i \in DOMAIN f.regions : LoopsOf(f, t) = Append(l, i) /\ t = EntryOf(f.regions[i])
  BY <1>1, <1>2, <1>3 DEF Flow
<1>4. CASE \E i \in DOMAIN f.regions : l = Append(LoopsOf(f, t), i) /\ t = f.regions[i].exit
  BY <1>1, <1>2, <1>4 DEF Flow
<1>5. CASE t = f.exit \/ LoopsOf(f, t) = l
  BY <1>1, <1>5 DEF Flow
<1> QED BY <1>3, <1>4, <1>5 DEF Flow

\* A block that does not change stays sound while others are added.
LEMMA BlockStays ==
  ASSUME NEW f, NEW f2, Grows(f, f2), NEW b \in Blocks(f), BlockOk(f, b),
         f2.blocks[b] = f.blocks[b]
  PROVE  BlockOk(f2, b)
<1> DEFINE bb == f.blocks[b]
<1>1. bb.term.to \in Seq(Blocks(f)) BY DEF BlockOk
<1>2. Targets(f, b) \subseteq Blocks(f) /\ Targets(f2, b) = Targets(f, b)
  BY <1>1, SeqOver DEF Targets
<1>3. \A t \in Targets(f2, b) : Flow(f2, bb.loops, t)
  BY <1>2, FlowStays DEF BlockOk
<1>4. Blocks(f) \subseteq Blocks(f2) /\ f2.exit = f.exit BY DEF Grows
<1>5. bb.term.to \in Seq(Blocks(f2)) BY <1>1, <1>4
<1> HIDE DEF bb
<1>6. /\ bb = [stmts |-> bb.stmts, term |-> bb.term, succ |-> bb.succ, loops |-> bb.loops]
      /\ AllSequential(bb.stmts) /\ bb.loops \in Seq(Nat)
      /\ bb.succ = [i \in DOMAIN bb.term.to |->
                     [to |-> bb.term.to[i], kind |-> bb.succ[i].kind]]
  BY DEF BlockOk, bb
<1>7. /\ b = f.exit <=> bb.term.kind = "exit"
      /\ bb.term.kind = "return" => bb.term.to = <<f.exit>>
      /\ b = f.exit => bb.loops = <<>> /\ bb.term.to = <<>>
  BY DEF BlockOk, bb
<1>8. f2.blocks[b] = bb BY DEF bb
<1> QED BY <1>3, <1>4, <1>5, <1>6, <1>7, <1>8 DEF BlockOk

\* The ranks of a graph that only gained blocks without edges and regions.
LEMMA RankStays ==
  ASSUME NEW f, NEW f2, GraphOk(f), Grows(f, f2),
         \A b \in Blocks(f) : f2.blocks[b].term = f.blocks[b].term,
         \A b \in Blocks(f2) \ Blocks(f) : f2.blocks[b].term.to = <<>>
  PROVE  \E rank \in [Blocks(f2) -> Nat] : Ranked(f2, rank)
<1>1. PICK rank \in [Blocks(f) -> Nat] : Ranked(f, rank) BY DEF GraphOk
<1> DEFINE rank2 == [b \in Blocks(f2) |-> IF b \in Blocks(f) THEN rank[b] ELSE 0]
<1>2. rank2 \in [Blocks(f2) -> Nat] OBVIOUS
<1>3. ASSUME NEW b \in Blocks(f2), NEW t \in Targets(f2, b)
      PROVE  t \in Entries(f2) \/ f2.blocks[t].term.to = <<>> \/ rank2[b] < rank2[t]
  <2>1. b \in Blocks(f) BY EmptyFacts DEF Targets
  <2>2. t \in Targets(f, b) BY <2>1 DEF Targets
  <2>3. f.blocks[b].term.to \in Seq(Blocks(f)) BY <2>1 DEF GraphOk, BlockOk
  <2>4. t \in Blocks(f) BY <2>2, <2>3, SeqOver DEF Targets
  <2>5. t \in Entries(f) \/ f.blocks[t].term.to = <<>> \/ rank[b] < rank[t]
    BY <1>1, <2>1, <2>2 DEF Ranked
  <2>6. rank2[b] = rank[b] /\ rank2[t] = rank[t]
    <3>1. b \in Blocks(f2) /\ t \in Blocks(f2) BY <2>4 DEF Grows
    <3> QED BY <2>1, <2>4, <3>1
  <2> HIDE DEF rank2
  <2> QED BY <2>4, <2>5, <2>6, EntriesStay
<1> HIDE DEF rank2
<1>4. Ranked(f2, rank2) BY <1>3 DEF Ranked
<1> QED BY <1>2, <1>4

\* What GraphOk says, in the form the proofs use.
LEMMA GraphFacts ==
  ASSUME NEW f, GraphOk(f)
  PROVE  /\ f = [blocks |-> f.blocks, regions |-> f.regions, entry |-> 1, exit |-> 3,
                 types |-> f.types]
         /\ f.exit = 3
         /\ IsSeq(f.blocks) /\ Len(f.blocks) \in Nat /\ Len(f.blocks) >= 3
         /\ Blocks(f) = 1..Len(f.blocks)
         /\ IsSeq(f.regions) /\ Len(f.regions) \in Nat
         /\ DOMAIN f.regions = 1..Len(f.regions)
         /\ \A i \in DOMAIN f.regions : f.regions[i].id = i
         /\ \A b \in Blocks(f) : BlockOk(f, b)
         /\ OpenBlocks(f) \subseteq Blocks(f)
<1>1. f = [blocks |-> f.blocks, regions |-> f.regions, entry |-> 1, exit |-> 3,
           types |-> f.types]
  BY DEF GraphOk
<1>2. f.exit = 3 BY <1>1
<1>3. IsSeq(f.blocks) /\ IsSeq(f.regions) /\ Len(f.blocks) >= 3
      /\ \A i \in DOMAIN f.regions : f.regions[i].id = i
  BY DEF GraphOk
<1>4. \A b \in Blocks(f) : BlockOk(f, b) BY DEF GraphOk
<1>5. OpenBlocks(f) \subseteq Blocks(f) BY DEF OpenBlocks
<1> QED BY <1>1, <1>2, <1>3, <1>4, <1>5, SeqFacts DEF Blocks

-----------------------------------------------------------------------------
(* The steps the handlers are made of *)

\* Replacing the blocks or the regions of a graph.
LEMMA RecordFacts ==
  ASSUME NEW f, f = [blocks |-> f.blocks, regions |-> f.regions, entry |-> 1, exit |-> 3,
                     types |-> f.types], NEW x
  PROVE  /\ [f EXCEPT !.blocks = x] = [blocks |-> x, regions |-> f.regions, entry |-> 1,
                                       exit |-> 3, types |-> f.types]
         /\ [f EXCEPT !.regions = x] = [blocks |-> f.blocks, regions |-> x, entry |-> 1,
                                        exit |-> 3, types |-> f.types]
OBVIOUS

\* A new block has no statement, no edge and no terminator.
LEMMA OpenFacts ==
  /\ Open.kind = "open" /\ Open.to = <<>>
  /\ \A l : /\ Block(l) = [stmts |-> <<>>, term |-> Open, succ |-> <<>>, loops |-> l]
            /\ Block(l).stmts = <<>> /\ Block(l).term = Open
            /\ Block(l).succ = <<>> /\ Block(l).loops = l
BY DEF Open, Block

\* What GraphOk says of one block; an open one is not the exit.
LEMMA BlockFacts ==
  ASSUME NEW f, GraphOk(f), NEW b \in Blocks(f)
  PROVE  /\ BlockOk(f, b) /\ Targets(f, b) \subseteq Blocks(f)
         /\ \A t \in Targets(f, b) : Flow(f, LoopsOf(f, b), t)
         /\ LoopsOf(f, b) \in Seq(Nat)
         /\ b \in OpenBlocks(f) => b # 3 /\ b # 0 /\ Targets(f, b) = {}
<1>1. BlockOk(f, b) /\ b \in 1..Len(f.blocks) /\ f.exit = 3 BY GraphFacts
<1>2. Targets(f, b) \subseteq Blocks(f) BY <1>1, SeqOver DEF BlockOk, Targets
<1>3. b \in OpenBlocks(f) => b # 3
  BY <1>1, OpenFacts DEF OpenBlocks, BlockOk
<1>4. b \in OpenBlocks(f) => Targets(f, b) = {}
  BY <1>1, OpenFacts, EmptyFacts DEF OpenBlocks, Targets
<1>5. LoopsOf(f, b) \in Seq(Nat) /\ \A t \in Targets(f, b) : Flow(f, LoopsOf(f, b), t)
  BY <1>1 DEF BlockOk, LoopsOf
<1>6. b # 0 BY <1>1
<1> QED BY <1>1, <1>2, <1>3, <1>4, <1>5, <1>6

\* Every block AddBlocks adds is open and in the loops it was given.
LEMMA BlocksAdded ==
  ASSUME NEW f, GraphOk(f), NEW stacks \in Seq(Seq(Nat))
  PROVE  /\ GraphOk(AddBlocks(f, stacks)) /\ Grows(f, AddBlocks(f, stacks))
         /\ Len(AddBlocks(f, stacks).blocks) = Len(f.blocks) + Len(stacks)
         /\ AddBlocks(f, stacks).regions = f.regions
         /\ OpenBlocks(AddBlocks(f, stacks)) =
              OpenBlocks(f) \cup {Len(f.blocks) + i : i \in 1..Len(stacks)}
         /\ \A i \in 1..Len(stacks) : LoopsOf(AddBlocks(f, stacks), Len(f.blocks) + i) = stacks[i]
<1> DEFINE f2 == AddBlocks(f, stacks)
           new == [i \in DOMAIN stacks |-> Block(stacks[i])]
           n == Len(f.blocks)
<1>1. n \in Nat /\ n >= 3 /\ Len(stacks) \in Nat /\ DOMAIN stacks = 1..Len(stacks)
  BY GraphFacts
<1>2. IsSeq(new) /\ Len(new) = Len(stacks) BY <1>1, SeqIs
<1>3. f2 = [blocks |-> f.blocks \o new, regions |-> f.regions, entry |-> 1, exit |-> 3,
            types |-> f.types]
  BY GraphFacts, RecordFacts DEF AddBlocks
<1>4. /\ f2.blocks = f.blocks \o new /\ f2.regions = f.regions
      /\ f2.exit = 3 /\ f.exit = 3
  BY <1>3, GraphFacts
<1>5. IsSeq(f.blocks) BY GraphFacts
<1> HIDE DEF f2
<1>6. /\ IsSeq(f2.blocks) /\ Len(f2.blocks) = n + Len(stacks)
      /\ \A b \in 1..n : f2.blocks[b] = f.blocks[b]
      /\ \A i \in 1..Len(stacks) : f2.blocks[n + i] = new[i]
  <2> DEFINE old == f.blocks
  <2> HIDE DEF new
  <2>1. IsSeq(old) BY <1>5
  <2> HIDE DEF old
  <2>2. /\ IsSeq(old \o new) /\ Len(old \o new) = Len(old) + Len(stacks)
        /\ \A b \in 1..Len(old) : (old \o new)[b] = old[b]
        /\ \A i \in 1..Len(stacks) : (old \o new)[Len(old) + i] = new[i]
    <3>1. IsSeq(new) BY <1>2
    <3>2. /\ IsSeq(old \o new) /\ Len(old \o new) = Len(old) + Len(new)
          /\ \A b \in 1..Len(old) : (old \o new)[b] = old[b]
          /\ \A i \in 1..Len(new) : (old \o new)[Len(old) + i] = new[i]
      BY <2>1, <3>1, ConcatFacts
    <3> QED BY <1>2, <3>2
  <2>3. f2.blocks = old \o new /\ n = Len(old) BY <1>4 DEF old
  <2> QED BY <2>2, <2>3 DEF old
<1>7. \A i \in 1..Len(stacks) : f2.blocks[n + i] = Block(stacks[i])
  BY <1>1, <1>6
<1> HIDE DEF new
<1>8. Blocks(f) = 1..n /\ Blocks(f2) = 1..(n + Len(stacks))
  BY <1>6, SeqFacts, GraphFacts DEF Blocks
<1>9. Grows(f, f2)
  BY <1>1, <1>4, <1>6, <1>8 DEF Grows, LoopsOf
<1>10. \A b \in Blocks(f2) \ Blocks(f) : \E i \in 1..Len(stacks) : b = n + i
  <2> SUFFICES ASSUME NEW b \in Blocks(f2) \ Blocks(f) PROVE \E i \in 1..Len(stacks) : b = n + i
    OBVIOUS
  <2>1. b - n \in 1..Len(stacks) /\ b = n + (b - n) BY <1>1, <1>8
  <2> QED BY <2>1
<1>11. \E rank \in [Blocks(f2) -> Nat] : Ranked(f2, rank)
  <2>1. \A b \in Blocks(f) : f2.blocks[b].term = f.blocks[b].term BY <1>6, <1>8
  <2>2. \A b \in Blocks(f2) \ Blocks(f) : f2.blocks[b].term.to = <<>>
    <3> SUFFICES ASSUME NEW b \in Blocks(f2) \ Blocks(f) PROVE f2.blocks[b].term.to = <<>>
      OBVIOUS
    <3>1. PICK i \in 1..Len(stacks) : b = n + i BY <1>10
    <3>2. f2.blocks[b].term = Open BY <1>7, <3>1, OpenFacts
    <3> QED BY <3>2, OpenFacts
  <2> QED BY <1>9, <2>1, <2>2, RankStays
<1>12. ASSUME NEW b \in Blocks(f2) PROVE BlockOk(f2, b)
  <2>1. CASE b \in Blocks(f)
    BY <1>6, <1>8, <1>9, <2>1, BlockStays, GraphFacts
  <2>2. CASE b \notin Blocks(f)
    <3>1. PICK i \in 1..Len(stacks) : b = n + i BY <1>10, <2>2
    <3>2. f2.blocks[b] = Block(stacks[i]) /\ stacks[i] \in Seq(Nat) BY <1>1, <1>7, <3>1
    <3>3. b # 3 BY <1>1, <3>1
    <3> DEFINE bb == f2.blocks[b]
    <3>4. /\ bb = [stmts |-> bb.stmts, term |-> bb.term, succ |-> bb.succ, loops |-> bb.loops]
          /\ bb.stmts = <<>> /\ bb.succ = <<>> /\ bb.term = Open /\ bb.loops \in Seq(Nat)
      BY <3>2, OpenFacts
    <3> HIDE DEF bb
    <3>5. bb.term.to = <<>> /\ bb.term.kind = "open" BY <3>4, OpenFacts
    <3>6. Targets(f2, b) = {} BY <3>5, EmptyFacts DEF bb, Targets
    <3>7. AllSequential(bb.stmts) BY <3>4, EmptyFacts DEF AllSequential
    <3>8. bb.succ = [j \in DOMAIN bb.term.to |->
                       [to |-> bb.term.to[j], kind |-> bb.succ[j].kind]]
      BY <3>4, <3>5
    <3>9. bb.term.to \in Seq(Blocks(f2)) BY <3>5
    <3> QED BY <1>4, <3>3, <3>4, <3>5, <3>6, <3>7, <3>8, <3>9 DEF BlockOk, bb
  <2> QED BY <2>1, <2>2
<1>13. GraphOk(f2)
  <2>1. f2 = [blocks |-> f2.blocks, regions |-> f2.regions, entry |-> 1, exit |-> 3,
              types |-> f2.types]
    BY <1>3
  <2>2. LoopsOf(f2, 1) = <<>>
    <3>1. LoopsOf(f, 1) = <<>> BY DEF GraphOk
    <3>2. 1 \in 1..n BY <1>1
    <3>3. f2.blocks[1] = f.blocks[1] BY <1>6, <3>2
    <3> QED BY <3>1, <3>3 DEF LoopsOf
  <2>3. IsSeq(f2.regions) /\ \A i \in DOMAIN f2.regions : f2.regions[i].id = i
    BY <1>4, GraphFacts
  <2>4. IsSeq(f2.blocks) /\ Len(f2.blocks) >= 3 BY <1>1, <1>6
  <2> QED BY <1>11, <1>12, <2>1, <2>2, <2>3, <2>4 DEF GraphOk
<1>14. OpenBlocks(f2) = OpenBlocks(f) \cup {n + i : i \in 1..Len(stacks)}
  <2>1. \A b \in Blocks(f) : b \in Blocks(f2) /\ (b \in OpenBlocks(f2) <=> b \in OpenBlocks(f))
    BY <1>6, <1>8, <1>9 DEF OpenBlocks, Grows
  <2>2. \A i \in 1..Len(stacks) : n + i \in OpenBlocks(f2)
    <3>1. \A i \in 1..Len(stacks) : n + i \in Blocks(f2) BY <1>1, <1>8
    <3> QED BY <1>7, <3>1, OpenFacts DEF OpenBlocks
  <2>3. OpenBlocks(f) \subseteq Blocks(f) /\ OpenBlocks(f2) \subseteq Blocks(f2) BY DEF OpenBlocks
  <2> QED BY <1>10, <2>1, <2>2, <2>3
<1>15. \A i \in 1..Len(stacks) : LoopsOf(f2, n + i) = stacks[i]
  BY <1>7, OpenFacts DEF LoopsOf
<1> QED BY <1>4, <1>6, <1>9, <1>13, <1>14, <1>15 DEF f2

\* AddRegion, by the region it adds.
WithRegion(f, r) == [f EXCEPT !.regions = Append(@, r)]

\* Adding a region with the next number keeps the graph sound.
LEMMA RegionAdded ==
  ASSUME NEW f, GraphOk(f), NEW r, r.id = Len(f.regions) + 1
  PROVE  LET f2 == WithRegion(f, r)
         IN /\ GraphOk(f2) /\ Grows(f, f2)
            /\ f2.blocks = f.blocks /\ OpenBlocks(f2) = OpenBlocks(f)
            /\ r.id \in DOMAIN f2.regions /\ f2.regions[r.id] = r
<1> DEFINE f2 == WithRegion(f, r)
           id == r.id
<1>1. f2 = [blocks |-> f.blocks, regions |-> Append(f.regions, r), entry |-> 1, exit |-> 3,
            types |-> f.types]
  BY GraphFacts, RecordFacts DEF WithRegion
<1>2. f2.blocks = f.blocks /\ f2.regions = Append(f.regions, r) /\ f2.exit = 3 /\ f.exit = 3
  BY <1>1, GraphFacts
<1> HIDE DEF f2
<1>3. /\ IsSeq(f2.regions) /\ DOMAIN f2.regions = 1..(Len(f.regions) + 1)
      /\ \A i \in DOMAIN f.regions : f2.regions[i] = f.regions[i]
      /\ f2.regions[id] = r
      /\ DOMAIN f.regions = 1..Len(f.regions) /\ Len(f.regions) \in Nat
  BY <1>2, AppendFacts, SeqFacts, GraphFacts
<1>4. Grows(f, f2)
  BY <1>2, <1>3 DEF Grows, Blocks, LoopsOf
<1>5. Blocks(f2) = Blocks(f) /\ OpenBlocks(f2) = OpenBlocks(f)
  BY <1>2 DEF Blocks, OpenBlocks
<1>6. \E rank \in [Blocks(f2) -> Nat] : Ranked(f2, rank)
  BY <1>2, <1>4, <1>5, RankStays
<1>7. \A b \in Blocks(f2) : BlockOk(f2, b)
  BY <1>2, <1>4, <1>5, BlockStays, GraphFacts
<1>8. GraphOk(f2)
  <2>1. f2 = [blocks |-> f2.blocks, regions |-> f2.regions, entry |-> 1, exit |-> 3,
              types |-> f2.types]
    BY <1>1
  <2>2. LoopsOf(f2, 1) = <<>> BY <1>2 DEF GraphOk, LoopsOf
  <2>3. \A i \in DOMAIN f2.regions : f2.regions[i].id = i
    <3>1. \A i \in DOMAIN f2.regions : i \in DOMAIN f.regions \/ i = id BY <1>3
    <3> QED BY <1>3, <3>1, GraphFacts
  <2>4. IsSeq(f2.blocks) /\ Len(f2.blocks) >= 3 BY <1>2, GraphFacts
  <2> QED BY <1>3, <1>6, <1>7, <2>1, <2>2, <2>3, <2>4 DEF GraphOk
<1>9. id \in DOMAIN f2.regions BY <1>3
<1> QED BY <1>2, <1>3, <1>4, <1>5, <1>8, <1>9 DEF f2

\* Replacing parts of a block.
LEMMA BlockRecord ==
  ASSUME NEW r, r = [stmts |-> r.stmts, term |-> r.term, succ |-> r.succ, loops |-> r.loops],
         NEW x, NEW y
  PROVE  /\ [r EXCEPT !.stmts = x] =
              [stmts |-> x, term |-> r.term, succ |-> r.succ, loops |-> r.loops]
         /\ [r EXCEPT !.term = x, !.succ = y] =
              [stmts |-> r.stmts, term |-> x, succ |-> y, loops |-> r.loops]
         /\ [r EXCEPT !.term = x, !.stmts = y] =
              [stmts |-> y, term |-> x, succ |-> r.succ, loops |-> r.loops]
<1>1. [r EXCEPT !.stmts = x] =
        [stmts |-> x, term |-> r.term, succ |-> r.succ, loops |-> r.loops]
  OBVIOUS
<1> DEFINE a == [r EXCEPT !.term = x]
<1>2. a = [stmts |-> r.stmts, term |-> x, succ |-> r.succ, loops |-> r.loops]
  OBVIOUS
<1>3. /\ [r EXCEPT !.term = x, !.succ = y] = [a EXCEPT !.succ = y]
      /\ [r EXCEPT !.term = x, !.stmts = y] = [a EXCEPT !.stmts = y]
  OBVIOUS
<1> HIDE DEF a
<1>4. [a EXCEPT !.succ = y] =
        [stmts |-> r.stmts, term |-> x, succ |-> y, loops |-> r.loops]
  BY <1>2
<1>5. [a EXCEPT !.stmts = y] =
        [stmts |-> y, term |-> x, succ |-> r.succ, loops |-> r.loops]
  BY <1>2
<1> QED BY <1>1, <1>3, <1>4, <1>5

\* A step that changes one open block, but not the loops it is in.
Changes(f, f2, b, bb) ==
  /\ f2 = [blocks |-> [f.blocks EXCEPT ![b] = bb], regions |-> f.regions, entry |-> 1,
           exit |-> 3, types |-> f.types]
  /\ bb.loops = LoopsOf(f, b)

\* Such a step only grows the graph.
LEMMA BlockChanged ==
  ASSUME NEW f, GraphOk(f), NEW b \in OpenBlocks(f), NEW f2, NEW bb, Changes(f, f2, b, bb)
  PROVE  /\ f2 = [blocks |-> f2.blocks, regions |-> f2.regions, entry |-> 1, exit |-> 3,
                  types |-> f2.types]
         /\ f2.exit = 3 /\ f2.regions = f.regions
         /\ IsSeq(f2.blocks) /\ Len(f2.blocks) = Len(f.blocks) /\ Blocks(f2) = Blocks(f)
         /\ b \in Blocks(f) /\ f2.blocks[b] = bb
         /\ \A a \in Blocks(f) : a # b => f2.blocks[a] = f.blocks[a]
         /\ Grows(f, f2)
         /\ LoopsOf(f2, 1) = <<>>
         /\ Entries(f2) = Entries(f)
         /\ \A a \in Blocks(f) : a # b => BlockOk(f2, a)
<1>1. /\ IsSeq(f.blocks) /\ Len(f.blocks) \in Nat /\ Blocks(f) = 1..Len(f.blocks)
      /\ f.exit = 3 /\ b \in Blocks(f)
  BY GraphFacts
<1>2. f2.blocks = [f.blocks EXCEPT ![b] = bb] /\ f2.regions = f.regions /\ f2.exit = 3
      /\ f2.types = f.types
  BY DEF Changes
<1>3. f2 = [blocks |-> f2.blocks, regions |-> f2.regions, entry |-> 1, exit |-> 3,
            types |-> f2.types]
  BY <1>2 DEF Changes
<1>4. DOMAIN f.blocks = 1..Len(f.blocks) BY <1>1 DEF Blocks
<1>5. f2.blocks = [a \in 1..Len(f.blocks) |-> f2.blocks[a]]
  BY <1>2, <1>4
<1>6. IsSeq(f2.blocks) /\ Len(f2.blocks) = Len(f.blocks)
  BY <1>1, <1>5, SeqIs
<1>7. Blocks(f2) = Blocks(f) BY <1>1, <1>6, SeqFacts DEF Blocks
<1>8. f2.blocks[b] = bb /\ \A a \in Blocks(f) : a # b => f2.blocks[a] = f.blocks[a]
  BY <1>1, <1>2, <1>4
<1>9. \A a \in Blocks(f) : LoopsOf(f2, a) = LoopsOf(f, a)
  BY <1>8 DEF LoopsOf, Changes
<1>10. Grows(f, f2)
  BY <1>1, <1>2, <1>7, <1>8, <1>9 DEF Grows
<1>11. LoopsOf(f2, 1) = <<>>
  <2>1. LoopsOf(f, 1) = <<>> /\ 1 \in Blocks(f)
    BY <1>1 DEF GraphOk
  <2> QED BY <1>9, <2>1
<1>12. Entries(f2) = Entries(f) BY <1>2 DEF Entries
<1>13. \A a \in Blocks(f) : a # b => BlockOk(f2, a)
  BY <1>8, <1>10, BlockStays, GraphFacts
<1> QED BY <1>1, <1>2, <1>3, <1>6, <1>7, <1>8, <1>10, <1>11, <1>12, <1>13

\* Adding sequential statements to an open block keeps the graph sound.
LEMMA Emitted ==
  ASSUME NEW f, GraphOk(f), NEW b \in OpenBlocks(f), NEW stmts, AllSequential(stmts)
  PROVE  /\ GraphOk(Emit(f, b, stmts)) /\ Grows(f, Emit(f, b, stmts))
         /\ Len(Emit(f, b, stmts).blocks) = Len(f.blocks)
         /\ Emit(f, b, stmts).regions = f.regions
         /\ OpenBlocks(Emit(f, b, stmts)) = OpenBlocks(f)
         /\ Entries(Emit(f, b, stmts)) = Entries(f)
<1> DEFINE f2 == Emit(f, b, stmts)
           old == f.blocks[b]
           bb == [stmts |-> old.stmts \o stmts, term |-> old.term, succ |-> old.succ,
                  loops |-> old.loops]
<1>1. b \in Blocks(f) /\ b \in DOMAIN f.blocks BY DEF OpenBlocks, Blocks
<1>2. BlockOk(f, b) BY <1>1, GraphFacts
<1>3. old = [stmts |-> old.stmts, term |-> old.term, succ |-> old.succ, loops |-> old.loops]
  BY <1>2 DEF BlockOk
<1>4. Changes(f, f2, b, bb)
  <2>1. [old EXCEPT !.stmts = @ \o stmts] = bb
    <3> DEFINE x == old.stmts \o stmts
    <3>1. [old EXCEPT !.stmts = @ \o stmts] = [old EXCEPT !.stmts = x] OBVIOUS
    <3>2. bb = [stmts |-> x, term |-> old.term, succ |-> old.succ, loops |-> old.loops] OBVIOUS
    <3> HIDE DEF old, x, bb
    <3>3. [old EXCEPT !.stmts = x] =
            [stmts |-> x, term |-> old.term, succ |-> old.succ, loops |-> old.loops]
      BY <1>3, BlockRecord
    <3> QED BY <3>1, <3>2, <3>3
  <2>2. f2 = [f EXCEPT !.blocks = [f.blocks EXCEPT ![b] = [old EXCEPT !.stmts = @ \o stmts]]]
    BY <1>1 DEF Emit
  <2>3. f2 = [f EXCEPT !.blocks = [f.blocks EXCEPT ![b] = bb]] BY <2>1, <2>2
  <2>4. bb.loops = LoopsOf(f, b) BY DEF LoopsOf
  <2> HIDE DEF f2, bb
  <2>5. f2 = [blocks |-> [f.blocks EXCEPT ![b] = bb], regions |-> f.regions, entry |-> 1,
              exit |-> 3, types |-> f.types]
    BY <2>3, GraphFacts, RecordFacts
  <2> QED BY <2>4, <2>5 DEF Changes
<1>5. /\ bb = [stmts |-> bb.stmts, term |-> bb.term, succ |-> bb.succ, loops |-> bb.loops]
      /\ bb.stmts = old.stmts \o stmts /\ bb.term = old.term /\ bb.succ = old.succ
      /\ bb.loops = old.loops
  OBVIOUS
<1> HIDE DEF f2, bb
<1>6. /\ f2.blocks[b] = bb /\ Blocks(f2) = Blocks(f) /\ Grows(f, f2) /\ f2.exit = 3
      /\ \A a \in Blocks(f) : a # b => f2.blocks[a] = f.blocks[a]
      /\ \A a \in Blocks(f) : a # b => BlockOk(f2, a)
      /\ f2 = [blocks |-> f2.blocks, regions |-> f2.regions, entry |-> 1, exit |-> 3,
               types |-> f2.types]
      /\ f2.regions = f.regions /\ IsSeq(f2.blocks) /\ Len(f2.blocks) = Len(f.blocks)
      /\ LoopsOf(f2, 1) = <<>> /\ Entries(f2) = Entries(f)
  BY <1>4, BlockChanged
<1>7. f.exit = 3 BY GraphFacts
<1>8. BlockOk(f2, b)
  <2>1. AllSequential(bb.stmts)
    <3>1. AllSequential(old.stmts) BY <1>2 DEF BlockOk
    <3> HIDE DEF old
    <3>2. AllSequential(old.stmts \o stmts) BY <3>1, SequentialConcat
    <3> QED BY <1>5, <3>2
  <2>2. Targets(f2, b) = Targets(f, b) BY <1>5, <1>6 DEF Targets
  <2>3. \A t \in Targets(f2, b) : Flow(f2, bb.loops, t)
    <3>1. Targets(f, b) \subseteq Blocks(f) BY <1>1, BlockFacts
    <3>2. \A t \in Targets(f, b) : Flow(f, old.loops, t) BY <1>2 DEF BlockOk
    <3> QED BY <1>5, <1>6, <2>2, <3>1, <3>2, FlowStays
  <2> HIDE DEF old
  <2>4. /\ old.loops \in Seq(Nat) /\ old.term.to \in Seq(Blocks(f))
        /\ old.succ = [i \in DOMAIN old.term.to |->
                        [to |-> old.term.to[i], kind |-> old.succ[i].kind]]
        /\ b = f.exit <=> old.term.kind = "exit"
        /\ old.term.kind = "return" => old.term.to = <<f.exit>>
        /\ b = f.exit => old.loops = <<>> /\ old.term.to = <<>>
    BY <1>2 DEF BlockOk, old
  <2> QED BY <1>5, <1>6, <1>7, <2>1, <2>3, <2>4 DEF BlockOk
<1>9. \A a \in Blocks(f2) : BlockOk(f2, a) BY <1>6, <1>8
<1>10. \A a \in Blocks(f) : f2.blocks[a].term = f.blocks[a].term
  BY <1>5, <1>6
<1>11. \E rank \in [Blocks(f2) -> Nat] : Ranked(f2, rank)
  BY <1>6, <1>10, RankStays
<1>12. GraphOk(f2)
  <2>1. Len(f2.blocks) >= 3 BY <1>6, GraphFacts
  <2>2. IsSeq(f2.regions) /\ \A i \in DOMAIN f2.regions : f2.regions[i].id = i
    BY <1>6, GraphFacts
  <2> QED BY <1>6, <1>9, <1>11, <2>1, <2>2 DEF GraphOk
<1>13. OpenBlocks(f2) = OpenBlocks(f) BY <1>6, <1>10 DEF OpenBlocks
<1> QED BY <1>6, <1>12, <1>13 DEF f2

\* Where block b, which is open, may be sent: to another open block, to the
\* function's exit or to the entry of a region, within the loop structure.
MayGo(f, b, t) ==
  /\ t \in Blocks(f)
  /\ t \in OpenBlocks(f) \ {b} \/ t = 3 \/ t \in Entries(f)
  /\ Flow(f, LoopsOf(f, b), t)

\* A terminator that may close block b.
Ends(f, b, term) ==
  /\ term.kind \notin {"open", "exit"}
  /\ term.to \in Seq(Blocks(f))
  /\ term.kind = "return" => term.to = <<3>>
  /\ \A t \in ToSet(term.to) : MayGo(f, b, t)

\* A block that is closed gets a higher rank than the blocks closed before.
LEMMA RankRises ==
  ASSUME NEW f, GraphOk(f), NEW b \in OpenBlocks(f), NEW f2, NEW bb, Changes(f, f2, b, bb),
         Ends(f, b, bb.term)
  PROVE  \E rank \in [Blocks(f2) -> Nat] : Ranked(f2, rank)
<1>1. PICK rank \in [Blocks(f) -> Nat] : Ranked(f, rank) BY DEF GraphOk
<1>2. /\ f2.blocks[b] = bb /\ Blocks(f2) = Blocks(f) /\ Entries(f2) = Entries(f)
      /\ \A a \in Blocks(f) : a # b => f2.blocks[a] = f.blocks[a]
      /\ b \in Blocks(f)
  BY BlockChanged
<1> DEFINE R == {rank[a] : a \in Blocks(f)}
<1>3. R \in SUBSET Nat /\ IsFiniteSet(R)
  <2>1. Blocks(f) = 1..Len(f.blocks) /\ Len(f.blocks) \in Nat BY GraphFacts
  <2>2. IsFiniteSet(Blocks(f)) BY <2>1, FS_Interval
  <2>3. rank \in [Blocks(f) -> R] /\ \A k \in R : \E a \in Blocks(f) : rank[a] = k
    OBVIOUS
  <2>4. R \in SUBSET Nat OBVIOUS
  <2> HIDE DEF R
  <2>5. rank \in Surjection(Blocks(f), R) BY <2>3 DEF Surjection
  <2>6. IsFiniteSet(R) BY <2>2, <2>5, FS_Surjection
  <2> QED BY <2>4, <2>6
<1> HIDE DEF R
<1>4. PICK m \in Nat : \A k \in R : k <= m BY <1>3, FiniteIsBounded
<1>5. ASSUME NEW a \in Blocks(f) PROVE rank[a] \in Nat /\ rank[a] < m + 1
  <2>1. rank[a] \in R BY DEF R
  <2>2. rank[a] <= m /\ rank[a] \in Nat BY <1>3, <1>4, <2>1
  <2> QED BY <2>2
<1> DEFINE rank2 == [a \in Blocks(f) |-> IF a = b THEN m + 1 ELSE rank[a]]
<1>6. rank2 \in [Blocks(f) -> Nat] OBVIOUS
<1>7. rank2[b] = m + 1 /\ \A a \in Blocks(f) : a # b => rank2[a] = rank[a] BY <1>2
<1> HIDE DEF rank2
<1>8. ASSUME NEW a \in Blocks(f), NEW t \in Targets(f2, a)
      PROVE  t \in Entries(f) \/ f2.blocks[t].term.to = <<>> \/ rank2[a] < rank2[t]
  <2>1. CASE a = b
    <3>1. MayGo(f, b, t) BY <1>2, <2>1 DEF Ends, Targets
    <3>2. t \in Blocks(f) BY <3>1 DEF MayGo
    <3>3. CASE t \in Entries(f) BY <3>3
    <3>4. CASE t \in OpenBlocks(f) \ {b}
      <4>1. f.blocks[t].term = Open BY <3>4 DEF OpenBlocks
      <4> QED BY <1>2, <3>2, <3>4, <4>1, OpenFacts
    <3>5. CASE t = 3
      <4>1. b # 3 BY <1>2, BlockFacts
      <4>2. f.exit = 3 /\ BlockOk(f, 3) BY <3>2, <3>5, GraphFacts
      <4>3. f.blocks[3].term.to = <<>> BY <4>2 DEF BlockOk
      <4> QED BY <1>2, <3>2, <3>5, <4>1, <4>3
    <3> QED BY <3>1, <3>3, <3>4, <3>5 DEF MayGo
  <2>2. CASE a # b
    <3>1. t \in Targets(f, a) BY <1>2, <2>2 DEF Targets
    <3>2. t \in Blocks(f) BY <3>1, BlockFacts
    <3>3. t \in Entries(f) \/ f.blocks[t].term.to = <<>> \/ rank[a] < rank[t]
      BY <1>1, <3>1 DEF Ranked
    <3>4. CASE t = b BY <1>5, <1>7, <2>2, <3>4
    <3>5. CASE t # b BY <1>2, <1>7, <2>2, <3>2, <3>3, <3>5
    <3> QED BY <3>4, <3>5
  <2> QED BY <2>1, <2>2
<1>9. Ranked(f2, rank2) BY <1>2, <1>8 DEF Ranked
<1> QED BY <1>2, <1>6, <1>9

\* Giving an open block its terminator, with one edge per target, keeps the
\* graph sound and closes that block only.
LEMMA Terminated ==
  ASSUME NEW f, GraphOk(f), NEW b \in OpenBlocks(f), NEW term, Ends(f, b, term), NEW kinds
  PROVE  /\ GraphOk(Terminate(f, b, term, kinds)) /\ Grows(f, Terminate(f, b, term, kinds))
         /\ Len(Terminate(f, b, term, kinds).blocks) = Len(f.blocks)
         /\ Terminate(f, b, term, kinds).regions = f.regions
         /\ OpenBlocks(Terminate(f, b, term, kinds)) = OpenBlocks(f) \ {b}
         /\ Entries(Terminate(f, b, term, kinds)) = Entries(f)
         /\ Targets(Terminate(f, b, term, kinds), b) = ToSet(term.to)
<1> DEFINE f2 == Terminate(f, b, term, kinds)
           old == f.blocks[b]
           succ == [i \in DOMAIN term.to |-> [to |-> term.to[i], kind |-> kinds[i]]]
           bb == [stmts |-> old.stmts, term |-> term, succ |-> succ, loops |-> old.loops]
<1>1. b \in Blocks(f) /\ b \in DOMAIN f.blocks BY DEF OpenBlocks, Blocks
<1>2. BlockOk(f, b) BY <1>1, GraphFacts
<1>3. old = [stmts |-> old.stmts, term |-> old.term, succ |-> old.succ, loops |-> old.loops]
  BY <1>2 DEF BlockOk
<1>4. Changes(f, f2, b, bb)
  <2> DEFINE o1 == [stmts |-> old.stmts, term |-> term, succ |-> old.succ, loops |-> old.loops]
             b1 == [f.blocks EXCEPT ![b] = o1]
             f1 == [blocks |-> b1, regions |-> f.regions, entry |-> 1, exit |-> 3,
                    types |-> f.types]
             b2 == [b1 EXCEPT ![b] = bb]
  <2>1. [old EXCEPT !.term = term] = o1 BY <1>3
  <2>2. [f EXCEPT !.blocks[b].term = term] = f1
    <3>1. [f EXCEPT !.blocks[b].term = term] =
            [f EXCEPT !.blocks = [f.blocks EXCEPT ![b] = [old EXCEPT !.term = term]]]
      BY <1>1
    <3>2. [f EXCEPT !.blocks[b].term = term] = [f EXCEPT !.blocks = b1] BY <2>1, <3>1
    <3> HIDE DEF b1, o1, old
    <3> QED BY <3>2, GraphFacts, RecordFacts
  <2>3. f2 = [f1 EXCEPT !.blocks[b].succ = succ] BY <2>2 DEF Terminate
  <2>4. b1[b] = o1 /\ b \in DOMAIN b1 BY <1>1
  <2>5. [o1 EXCEPT !.succ = succ] = bb OBVIOUS
  <2>6. f2 = [blocks |-> b2, regions |-> f.regions, entry |-> 1, exit |-> 3,
              types |-> f.types]
    <3> HIDE DEF b1, o1, bb, succ, f2
    <3>1. f2 = [f1 EXCEPT !.blocks = [b1 EXCEPT ![b] = [o1 EXCEPT !.succ = succ]]]
      BY <2>3, <2>4
    <3>2. f2 = [f1 EXCEPT !.blocks = b2] BY <2>5, <3>1
    <3> HIDE DEF b2
    <3> QED BY <3>2
  <2>7. b2 = [f.blocks EXCEPT ![b] = bb]
    <3> HIDE DEF o1, bb
    <3> QED BY <1>1
  <2>8. bb.loops = LoopsOf(f, b) BY DEF LoopsOf
  <2> HIDE DEF f2, bb, b2
  <2> QED BY <2>6, <2>7, <2>8 DEF Changes
<1>5. /\ bb = [stmts |-> bb.stmts, term |-> bb.term, succ |-> bb.succ, loops |-> bb.loops]
      /\ bb.stmts = old.stmts /\ bb.term = term /\ bb.succ = succ
      /\ bb.loops = old.loops
  OBVIOUS
<1>6. succ = [i \in DOMAIN term.to |-> [to |-> term.to[i], kind |-> succ[i].kind]]
  <2>1. \A i \in DOMAIN term.to : succ[i].kind = kinds[i] OBVIOUS
  <2> QED BY <2>1
<1> HIDE DEF f2, bb, succ
<1>7. /\ f2.blocks[b] = bb /\ Blocks(f2) = Blocks(f) /\ Grows(f, f2) /\ f2.exit = 3
      /\ \A a \in Blocks(f) : a # b => f2.blocks[a] = f.blocks[a]
      /\ \A a \in Blocks(f) : a # b => BlockOk(f2, a)
      /\ f2 = [blocks |-> f2.blocks, regions |-> f2.regions, entry |-> 1, exit |-> 3,
               types |-> f2.types]
      /\ f2.regions = f.regions /\ IsSeq(f2.blocks) /\ Len(f2.blocks) = Len(f.blocks)
      /\ LoopsOf(f2, 1) = <<>> /\ Entries(f2) = Entries(f)
  BY <1>4, BlockChanged
<1>8. b # 3 /\ f.exit = 3 BY <1>1, BlockFacts, GraphFacts
<1>9. Targets(f2, b) = ToSet(term.to) BY <1>5, <1>7 DEF Targets
<1>10. BlockOk(f2, b)
  <2>1. \A t \in Targets(f2, b) : t \in Blocks(f) /\ Flow(f, old.loops, t)
    BY <1>9 DEF Ends, MayGo, LoopsOf
  <2> HIDE DEF old
  <2>2. \A t \in Targets(f2, b) : Flow(f2, bb.loops, t)
    BY <1>5, <1>7, <2>1, FlowStays
  <2>3. AllSequential(bb.stmts) /\ bb.loops \in Seq(Nat) BY <1>2, <1>5 DEF BlockOk, old
  <2>4. /\ bb.term.to \in Seq(Blocks(f2)) /\ bb.term.kind # "exit"
        /\ bb.term.kind = "return" => bb.term.to = <<f2.exit>>
    BY <1>5, <1>7 DEF Ends
  <2>5. bb.succ = [i \in DOMAIN bb.term.to |->
                     [to |-> bb.term.to[i], kind |-> bb.succ[i].kind]]
    BY <1>5, <1>6
  <2> QED BY <1>5, <1>7, <1>8, <2>2, <2>3, <2>4, <2>5 DEF BlockOk
<1>11. \A a \in Blocks(f2) : BlockOk(f2, a) BY <1>7, <1>10
<1>12. \E rank \in [Blocks(f2) -> Nat] : Ranked(f2, rank)
  <2>1. Ends(f, b, bb.term) BY <1>5
  <2> QED BY <1>4, <2>1, RankRises
<1>13. GraphOk(f2)
  <2>1. Len(f2.blocks) >= 3 BY <1>7, GraphFacts
  <2>2. IsSeq(f2.regions) /\ \A i \in DOMAIN f2.regions : f2.regions[i].id = i
    BY <1>7, GraphFacts
  <2> QED BY <1>7, <1>11, <1>12, <2>1, <2>2 DEF GraphOk
<1>14. OpenBlocks(f2) = OpenBlocks(f) \ {b}
  <2>1. f2.blocks[b].term # Open BY <1>5, <1>7, OpenFacts DEF Ends
  <2> QED BY <1>7, <2>1 DEF OpenBlocks
<1> QED BY <1>7, <1>9, <1>13, <1>14 DEF f2

\* The targets of a jump.
LEMMA JumpFacts ==
  \A t : Jump(t).kind = "jump" /\ Jump(t).to = <<t>>
BY DEF Jump, Open

\* The targets of a branch.
LEMMA BranchFacts ==
  \A c, y, n : Branch(c, y, n).kind = "branch" /\ Branch(c, y, n).to = <<y, n>>
BY DEF Branch, Open

\* The same for JumpTo, which does nothing when control cannot get there.
LEMMA Jumped ==
  ASSUME NEW f, GraphOk(f), NEW b, b # NoBlock => b \in OpenBlocks(f),
         NEW t, b # NoBlock => MayGo(f, b, t), NEW kind
  PROVE  /\ GraphOk(JumpTo(f, b, t, kind)) /\ Grows(f, JumpTo(f, b, t, kind))
         /\ Len(JumpTo(f, b, t, kind).blocks) = Len(f.blocks)
         /\ JumpTo(f, b, t, kind).regions = f.regions
         /\ OpenBlocks(JumpTo(f, b, t, kind)) = OpenBlocks(f) \ {b}
         /\ Entries(JumpTo(f, b, t, kind)) = Entries(f)
<1>1. CASE b = NoBlock
  <2>1. JumpTo(f, b, t, kind) = f BY <1>1 DEF JumpTo
  <2>2. b \notin OpenBlocks(f) BY <1>1, BlockFacts, GraphFacts DEF NoBlock
  <2> QED BY <2>1, <2>2, GrowsNot
<1>2. CASE b # NoBlock
  <2>1. JumpTo(f, b, t, kind) = Terminate(f, b, Jump(t), <<kind>>) BY <1>2 DEF JumpTo
  <2>2. Ends(f, b, Jump(t))
    <3>1. Jump(t).kind = "jump" /\ Jump(t).to = <<t>> /\ ToSet(Jump(t).to) = {t}
      BY JumpFacts, SingleFacts
    <3>2. t \in Blocks(f) /\ MayGo(f, b, t) BY <1>2 DEF MayGo
    <3> QED BY <3>1, <3>2 DEF Ends
  <2>3. b \in OpenBlocks(f) BY <1>2
  <2> QED BY <2>1, <2>2, <2>3, Terminated
<1> QED BY <1>1, <1>2

-----------------------------------------------------------------------------
(* Segments of the agenda *)

\* A target of a context stays one while the graph grows.
LEMMA AimStays ==
  ASSUME NEW f, NEW f2, Grows(f, f2), NEW c, NEW t, Aim(f, c, t)
  PROVE  Aim(f2, c, t)
<1>1. t \in Blocks(f2) BY DEF Aim, Grows
<1>2. t \in c.own \/ t \in Entries(f2) BY EntriesStay DEF Aim
<1>3. Flow(f2, c.loops, t) BY FlowStays DEF Aim
<1> QED BY <1>1, <1>2, <1>3 DEF Aim

\* A context stays good while the graph grows.
LEMMA GoodStays ==
  ASSUME NEW f, NEW f2, Grows(f, f2), NEW c, Good(f, c)
  PROVE  Good(f2, c)
<1>1. Blocks(f) \subseteq Blocks(f2) BY DEF Grows
<1> QED BY <1>1, AimStays DEF Good

\* A block stays in its loops while the graph grows.
LEMMA InStays ==
  ASSUME NEW f, NEW f2, Grows(f, f2), NEW b, NEW l, In(f, b, l)
  PROVE  In(f2, b, l)
BY DEF Grows, In

\* The end of a loop stays one while the graph grows.
LEMMA LeavesStay ==
  ASSUME NEW f, NEW f2, Grows(f, f2), NEW c, NEW d, NEW exit, LeavesTo(f, c, d, exit)
  PROVE  LeavesTo(f2, c, d, exit)
<1>1. In(f2, exit, d.loops) BY InStays DEF LeavesTo
<1>2. Flow(f2, c.loops, exit) BY FlowStays DEF LeavesTo, In
<1> QED BY <1>1, <1>2 DEF LeavesTo

\* An item stays between its contexts while the graph grows.
LEMMA ItemStays ==
  ASSUME NEW f, NEW f2, Grows(f, f2), NEW it, NEW c, NEW d, ItemOk(f, it, c, d)
  PROVE  ItemOk(f2, it, c, d)
<1>1. CASE it \in Statements /\ d = c BY <1>1 DEF ItemOk
<1>2. CASE AtEndThen(f, it, c, d)
  <2>1. AtEndThen(f2, it, c, d) BY <1>2, InStays DEF AtEndThen
  <2> QED BY <2>1 DEF ItemOk
<1>3. CASE AtEndElse(f, it, c, d)
  <2>1. AtEndElse(f2, it, c, d) BY <1>3, InStays DEF AtEndElse
  <2> QED BY <2>1 DEF ItemOk
<1>4. CASE AtEndFor(f, it, c, d)
  <2>1. AtEndFor(f2, it, c, d) BY <1>4, InStays, LeavesStay, EntriesStay DEF AtEndFor
  <2> QED BY <2>1 DEF ItemOk
<1>5. CASE AtEndWhile(f, it, c, d)
  <2>1. AtEndWhile(f2, it, c, d) BY <1>5, InStays, LeavesStay, EntriesStay DEF AtEndWhile
  <2> QED BY <2>1 DEF ItemOk
<1>6. CASE AtEndDo(f, it, c, d)
  <2>1. AtEndDo(f2, it, c, d) BY <1>6, InStays, LeavesStay, EntriesStay DEF AtEndDo
  <2> QED BY <2>1 DEF ItemOk
<1>7. CASE AtCase(f, it, c, d)
  <2>1. AtCase(f2, it, c, d) BY <1>7, InStays DEF AtCase
  <2> QED BY <2>1 DEF ItemOk
<1>8. CASE AtEndSwitch(f, it, c, d)
  <2>1. AtEndSwitch(f2, it, c, d) BY <1>8, InStays DEF AtEndSwitch
  <2> QED BY <2>1 DEF ItemOk
<1> QED BY <1>1, <1>2, <1>3, <1>4, <1>5, <1>6, <1>7, <1>8 DEF ItemOk

\* So the agenda stays a segment while the graph grows.
LEMMA SegmentStays ==
  ASSUME NEW f, NEW f2, Grows(f, f2), NEW s, NEW c, NEW d, Segment(f, s, c, d)
  PROVE  Segment(f2, s, c, d)
<1>1. PICK cs : Path(f, s, cs) /\ cs[1] = c /\ cs[Len(s) + 1] = d BY DEF Segment
<1>2. Path(f2, s, cs) BY <1>1, GoodStays, ItemStays DEF Path
<1> QED BY <1>1, <1>2 DEF Segment

\* The contexts at both ends of a segment are good.
LEMMA SegmentFacts ==
  ASSUME NEW f, NEW s, NEW c, NEW d, Segment(f, s, c, d)
  PROVE  IsSeq(s) /\ Good(f, c) /\ Good(f, d)
<1>1. PICK cs : Path(f, s, cs) /\ cs[1] = c /\ cs[Len(s) + 1] = d BY DEF Segment
<1>2. IsSeq(s) /\ Len(s) \in Nat BY SeqFacts DEF Segment
<1>3. 1 \in 1..(Len(s) + 1) /\ Len(s) + 1 \in 1..(Len(s) + 1) BY <1>2
<1>4. Good(f, cs[1]) /\ Good(f, cs[Len(s) + 1]) BY <1>1, <1>3 DEF Path
<1> QED BY <1>1, <1>2, <1>4

\* A list of statements leaves its context as it is.
LEMMA BodySegment ==
  ASSUME NEW f, NEW c, Good(f, c), NEW s \in Seq(Statements)
  PROVE  Segment(f, s, c, c)
<1>1. IsSeq(s) /\ Len(s) \in Nat BY SeqOver
<1>2. \A i \in 1..Len(s) : s[i] \in Statements OBVIOUS
<1> DEFINE cs == [i \in 1..(Len(s) + 1) |-> c]
<1>3. \A i \in 1..(Len(s) + 1) : cs[i] = c OBVIOUS
<1>4. 1 \in 1..(Len(s) + 1) /\ Len(s) + 1 \in 1..(Len(s) + 1)
      /\ \A i \in 1..Len(s) : i \in 1..(Len(s) + 1) /\ i + 1 \in 1..(Len(s) + 1)
  BY <1>1
<1> HIDE DEF cs
<1>5. \A i \in 1..Len(s) : ItemOk(f, s[i], cs[i], cs[i + 1])
  BY <1>2, <1>3, <1>4 DEF ItemOk
<1>6. Path(f, s, cs) BY <1>3, <1>5 DEF Path
<1> QED BY <1>1, <1>3, <1>4, <1>6 DEF Segment

\* A single item is a segment.
LEMMA ItemSegment ==
  ASSUME NEW f, NEW c, NEW d, Good(f, c), Good(f, d), NEW it, ItemOk(f, it, c, d)
  PROVE  Segment(f, <<it>>, c, d)
<1> DEFINE cs == [i \in 1..2 |-> IF i = 1 THEN c ELSE d]
<1>1. cs[1] = c /\ cs[2] = d OBVIOUS
<1> HIDE DEF cs
<1>2. \A i \in 1..2 : i = 1 \/ i = 2 OBVIOUS
<1>3. IsSeq(<<it>>) /\ Len(<<it>>) = 1 /\ <<it>>[1] = it BY SingleFacts
<1>4. \A i \in 1..1 : i = 1 OBVIOUS
<1> DEFINE s == <<it>>
<1>5. Len(s) + 1 = 2 BY <1>3
<1> HIDE DEF s
<1>6. Path(f, s, cs)
  <2>1. \A i \in 1..(Len(s) + 1) : Good(f, cs[i]) BY <1>1, <1>2, <1>5
  <2>2. \A i \in 1..Len(s) : ItemOk(f, s[i], cs[i], cs[i + 1])
    <3>1. ItemOk(f, s[1], cs[1], cs[2]) BY <1>1, <1>3 DEF s
    <3> QED BY <1>3, <1>4, <3>1 DEF s
  <2> QED BY <2>1, <2>2 DEF Path
<1>7. Segment(f, s, c, d) BY <1>1, <1>3, <1>5, <1>6 DEF Segment, s
<1> QED BY <1>7 DEF s

\* Segments that meet in a context make one.
LEMMA SegmentsJoin ==
  ASSUME NEW f, NEW s, NEW t, NEW c, NEW d, NEW e, Segment(f, s, c, d), Segment(f, t, d, e)
  PROVE  Segment(f, s \o t, c, e)
<1>1. PICK cs : Path(f, s, cs) /\ cs[1] = c /\ cs[Len(s) + 1] = d BY DEF Segment
<1>2. PICK ct : Path(f, t, ct) /\ ct[1] = d /\ ct[Len(t) + 1] = e BY DEF Segment
<1> DEFINE n == Len(s)
           m == Len(t)
           u == s \o t
           cu == [i \in 1..(n + m + 1) |-> IF i <= n THEN cs[i] ELSE ct[i - n]]
<1>3. /\ IsSeq(s) /\ IsSeq(t) /\ n \in Nat /\ m \in Nat
  BY SeqFacts DEF Segment
<1>4. /\ IsSeq(u) /\ Len(u) = n + m
      /\ \A i \in 1..n : u[i] = s[i]
      /\ \A i \in 1..m : u[n + i] = t[i]
  BY <1>3, ConcatFacts
<1> HIDE DEF u
<1>5. /\ \A i \in 1..n : cu[i] = cs[i]
      /\ \A i \in 1..(m + 1) : cu[n + i] = ct[i]
  <2>1. \A i \in 1..(m + 1) : n + i \in 1..(n + m + 1) /\ ~ (n + i <= n) /\ (n + i) - n = i
    BY <1>3
  <2>2. \A i \in 1..n : i \in 1..(n + m + 1) BY <1>3
  <2> QED BY <2>1, <2>2
<1> HIDE DEF cu
<1>6. cu[n + 1] = cs[n + 1]
  <2>1. 1 \in 1..(m + 1) BY <1>3
  <2> QED BY <1>1, <1>2, <1>5, <2>1
<1>7. \A i \in 1..(n + 1) : cu[i] = cs[i]
  <2>1. \A i \in 1..(n + 1) : i \in 1..n \/ i = n + 1 BY <1>3
  <2> QED BY <1>5, <1>6, <2>1
<1>8. ASSUME NEW i \in 1..(n + m + 1) PROVE Good(f, cu[i])
  <2>1. CASE i <= n
    <3>1. i \in 1..(n + 1) BY <1>3, <2>1
    <3> QED BY <1>1, <1>7, <3>1 DEF Path
  <2>2. CASE i > n
    <3>1. i - n \in 1..(m + 1) /\ n + (i - n) = i BY <1>3, <2>2
    <3>2. cu[i] = ct[i - n] BY <1>5, <3>1
    <3> QED BY <1>2, <3>1, <3>2 DEF Path
  <2> QED BY <1>3, <2>1, <2>2
<1>9. ASSUME NEW i \in 1..(n + m) PROVE ItemOk(f, u[i], cu[i], cu[i + 1])
  <2>1. CASE i <= n
    <3>1. i \in 1..n /\ i \in 1..(n + 1) /\ i + 1 \in 1..(n + 1) BY <1>3, <2>1
    <3>2. u[i] = s[i] /\ cu[i] = cs[i] /\ cu[i + 1] = cs[i + 1] BY <1>4, <1>7, <3>1
    <3>3. ItemOk(f, s[i], cs[i], cs[i + 1]) BY <1>1, <3>1 DEF Path
    <3> QED BY <3>2, <3>3
  <2>2. CASE i > n
    <3> DEFINE j == i - n
    <3>1. j \in 1..m /\ j \in 1..(m + 1) /\ j + 1 \in 1..(m + 1) /\ n + j = i
          /\ n + (j + 1) = i + 1
      BY <1>3, <2>2
    <3> HIDE DEF j
    <3>2. u[i] = t[j] /\ cu[i] = ct[j] BY <1>4, <1>5, <3>1
    <3>3. cu[i + 1] = ct[j + 1] BY <1>5, <3>1
    <3>4. ItemOk(f, t[j], ct[j], ct[j + 1]) BY <1>2, <3>1 DEF Path
    <3> QED BY <3>2, <3>3, <3>4
  <2> QED BY <1>3, <2>1, <2>2
<1>10. Path(f, u, cu)
  BY <1>4, <1>8, <1>9 DEF Path
<1>11. cu[1] = c
  <2>1. 1 \in 1..(n + 1) BY <1>3
  <2> QED BY <1>1, <1>7, <2>1
<1>12. cu[Len(u) + 1] = e
  <2>1. m + 1 \in 1..(m + 1) /\ Len(u) + 1 = n + (m + 1) BY <1>3, <1>4
  <2> QED BY <1>2, <1>5, <2>1
<1>13. Segment(f, u, c, e) BY <1>4, <1>10, <1>11, <1>12 DEF Segment
<1> QED BY <1>13 DEF u

\* The first item of a segment, and the rest.
LEMMA SegmentHead ==
  ASSUME NEW f, NEW s, NEW c, NEW e, Segment(f, s, c, e), s # <<>>
  PROVE  \E d : ItemOk(f, Head(s), c, d) /\ Good(f, c) /\ Good(f, d) /\ Segment(f, Tail(s), d, e)
<1>1. PICK cs : Path(f, s, cs) /\ cs[1] = c /\ cs[Len(s) + 1] = e BY DEF Segment
<1> DEFINE n == Len(s)
           t == Tail(s)
           ct == [i \in 1..n |-> cs[i + 1]]
<1>2. IsSeq(s) BY DEF Segment
<1>3. /\ IsSeq(t) /\ n \in Nat \ {0} /\ Len(t) = n - 1 /\ Head(s) = s[1]
      /\ \A i \in 1..(n - 1) : t[i] = s[i + 1]
  BY <1>2, TailFacts
<1> HIDE DEF t
<1>4. \A i \in 1..n : ct[i] = cs[i + 1] OBVIOUS
<1> HIDE DEF ct
<1>5. ASSUME NEW i \in 1..(Len(t) + 1) PROVE Good(f, ct[i])
  <2>1. i \in 1..n /\ i + 1 \in 1..(n + 1) BY <1>3
  <2> QED BY <1>1, <1>4, <2>1 DEF Path
<1>6. ASSUME NEW i \in 1..Len(t) PROVE ItemOk(f, t[i], ct[i], ct[i + 1])
  <2>1. i \in 1..(n - 1) /\ i \in 1..n /\ i + 1 \in 1..n BY <1>3
  <2>2. ItemOk(f, s[i + 1], cs[i + 1], cs[(i + 1) + 1]) BY <1>1, <2>1 DEF Path
  <2>3. t[i] = s[i + 1] /\ ct[i] = cs[i + 1] /\ ct[i + 1] = cs[(i + 1) + 1] BY <1>3, <1>4, <2>1
  <2> QED BY <2>2, <2>3
<1>7. Path(f, t, ct) BY <1>5, <1>6 DEF Path
<1>8. 1 \in 1..n /\ n \in 1..n /\ 1 \in 1..(n + 1) /\ 1 + 1 \in 1..(n + 1) /\ Len(t) + 1 = n
  BY <1>3
<1>9. ct[1] = cs[1 + 1] /\ ct[Len(t) + 1] = e BY <1>1, <1>4, <1>8
<1>10. Segment(f, t, ct[1], e) BY <1>3, <1>7, <1>9 DEF Segment
<1>11. ItemOk(f, Head(s), c, ct[1]) BY <1>1, <1>3, <1>8, <1>9 DEF Path
<1>12. Good(f, c) /\ Good(f, ct[1]) BY <1>1, <1>8, <1>9 DEF Path
<1> QED BY <1>10, <1>11, <1>12 DEF t

\* The parts of a context.
LEMMA CtxFacts ==
  \A l, b, k, o : /\ Ctx(l, b, k, o).loops = l /\ Ctx(l, b, k, o).breaks = b
                  /\ Ctx(l, b, k, o).continues = k /\ Ctx(l, b, k, o).own = o
BY DEF Ctx

\* More owned blocks do not harm the targets of a context.
LEMMA GoodWidens ==
  ASSUME NEW f, NEW c, Good(f, c), NEW d, Keeps(c, d),
         c.own \subseteq d.own, d.own \subseteq Blocks(f)
  PROVE  Good(f, d)
<1>1. \A t : Aim(f, c, t) => Aim(f, d, t) BY DEF Aim, Keeps
<1> QED BY <1>1 DEF Good, Keeps

-----------------------------------------------------------------------------
(* The handlers *)

\* The kind of an item decides what it is.
LEMMA KindFacts ==
  ASSUME NEW f, NEW it, NEW c, NEW d, ItemOk(f, it, c, d)
  PROVE  /\ IsStatement(it) => it \in Statements /\ d = c
         /\ it.k = "endthen" => AtEndThen(f, it, c, d)
         /\ it.k = "endelse" => AtEndElse(f, it, c, d)
         /\ it.k = "endfor" => AtEndFor(f, it, c, d)
         /\ it.k = "endwhile" => AtEndWhile(f, it, c, d)
         /\ it.k = "enddo" => AtEndDo(f, it, c, d)
         /\ it.k = "case" => AtCase(f, it, c, d)
         /\ it.k = "endswitch" => AtEndSwitch(f, it, c, d)
<1>1. it \in Statements => IsStatement(it) BY StatementsAssumption
<1> QED
  BY <1>1 DEF ItemOk, IsStatement, IsSequential, AtEndThen, AtEndElse, AtEndFor, AtEndWhile,
     AtEndDo, AtCase, AtEndSwitch

\* What the handlers start from: the first item and the rest of the agenda.
Start3(c, d, e) ==
  /\ ItemOk(fn, Item, c, d)
  /\ Good(fn, c) /\ Good(fn, d)
  /\ Segment(fn, Tail(agenda), d, e)
  /\ Current(c)

\* A handler finds its item between two contexts.
LEMMA AgendaHead ==
  ASSUME BuildInv, agenda # <<>>
  PROVE  \E c, d, e : Start3(c, d, e)
<1>1. PICK c, e : Segment(fn, agenda, c, e) /\ Current(c) BY DEF BuildInv
<1>2. PICK d : ItemOk(fn, Head(agenda), c, d) /\ Good(fn, c) /\ Good(fn, d)
               /\ Segment(fn, Tail(agenda), d, e)
  BY <1>1, SegmentHead
<1>3. Start3(c, d, e) BY <1>1, <1>2 DEF Start3, Item
<1> QED BY <1>3

\* The current block may go wherever the context allows.
LEMMA CurrentMayGo ==
  ASSUME BuildInv, NEW c, Current(c), NEW t, Aim(fn, c, t)
  PROVE  cur # NoBlock => MayGo(fn, cur, t)
<1> SUFFICES ASSUME cur # NoBlock PROVE MayGo(fn, cur, t)
  OBVIOUS
<1>1. cur \in OpenBlocks(fn) /\ LoopsOf(fn, cur) = c.loops BY DEF BuildInv, CurOk, Current
<1>2. t \in c.own => t \in OpenBlocks(fn) \ {cur} BY DEF Current
<1> QED BY <1>1, <1>2 DEF Aim, MayGo

\* The current block is open, and a block.
LEMMA CurIs ==
  ASSUME BuildInv
  PROVE  /\ GraphOk(fn)
         /\ cur # NoBlock =>
              cur \in OpenBlocks(fn) /\ cur \in Blocks(fn) /\ LoopsOf(fn, cur) = loops
         /\ NoBlock \notin Blocks(fn)
<1>1. GraphOk(fn) BY DEF BuildInv
<1>2. Blocks(fn) = 1..Len(fn.blocks) BY <1>1, GraphFacts
<1>3. NoBlock \notin Blocks(fn) BY <1>2 DEF NoBlock
<1> QED BY <1>1, <1>3 DEF BuildInv, CurOk, OpenBlocks

\* How the handlers end: a sound graph, and a segment for the new agenda.
LEMMA Rebuilt ==
  ASSUME GraphOk(fn)', CurOk', NEW c, NEW d, Segment(fn', agenda', c, d), Current(c)'
  PROVE  BuildInv'
BY DEF BuildInv

\* BuildSequential keeps the invariant.
LEMMA SequentialKeeps ==
  ASSUME BuildInv, BuildSequential
  PROVE  BuildInv' /\ Grows(fn, fn')
<1>1. agenda # <<>> /\ cur # NoBlock /\ IsSequential(Item) BY DEF BuildSequential
<1>2. PICK c, d, e : Start3(c, d, e) BY <1>1, AgendaHead
<1>3. d = c BY <1>1, <1>2, KindFacts DEF Start3, IsStatement
<1>4. AllSequential(<<Item>>) BY <1>1, SingleFacts, SeqFacts DEF AllSequential
<1>5. cur \in OpenBlocks(fn) /\ GraphOk(fn) BY <1>1, CurIs
<1>6. fn' = Emit(fn, cur, <<Item>>) BY DEF BuildSequential
<1>7. GraphOk(fn') /\ Grows(fn, fn') /\ OpenBlocks(fn') = OpenBlocks(fn)
  BY <1>4, <1>5, <1>6, Emitted
<1>8. UNCHANGED <<cur, loops, breaks, continues>> /\ agenda' = Tail(agenda)
  BY DEF BuildSequential
<1>9. CurOk'
  <2>1. cur \in Blocks(fn) /\ LoopsOf(fn, cur) = loops BY <1>1, CurIs
  <2>2. LoopsOf(fn', cur) = loops BY <1>7, <2>1 DEF Grows
  <2> QED BY <1>5, <1>7, <1>8, <2>2 DEF CurOk
<1>10. Segment(fn', agenda', c, e) BY <1>2, <1>3, <1>7, <1>8, SegmentStays DEF Start3
<1>11. Current(c)' BY <1>2, <1>7, <1>8 DEF Start3, Current
<1> QED BY <1>7, <1>9, <1>10, <1>11, Rebuilt

\* SkipUnreachable keeps the invariant.
LEMMA SkipKeeps ==
  ASSUME BuildInv, SkipUnreachable
  PROVE  BuildInv' /\ Grows(fn, fn')
<1>1. agenda # <<>> /\ cur = NoBlock /\ IsStatement(Item) BY DEF SkipUnreachable
<1>2. PICK c, d, e : Start3(c, d, e) BY <1>1, AgendaHead
<1>3. d = c BY <1>1, <1>2, KindFacts DEF Start3
<1>4. UNCHANGED <<fn, cur, loops, breaks, continues>> /\ agenda' = Tail(agenda)
  BY DEF SkipUnreachable
<1>5. GraphOk(fn)' BY <1>4 DEF BuildInv
<1>6. CurOk' BY <1>1, <1>4 DEF CurOk
<1>7. Segment(fn', agenda', c, e) BY <1>2, <1>3, <1>4 DEF Start3
<1>8. Current(c)' BY <1>2, <1>4 DEF Start3, Current
<1>9. Grows(fn, fn') BY <1>4, GrowsNot
<1> QED BY <1>5, <1>6, <1>7, <1>8, <1>9, Rebuilt

\* A terminator that may close the current block, after which nothing is reached.
LEMMA JumpKeeps ==
  ASSUME BuildInv, agenda # <<>>, cur # NoBlock, NEW c, NEW e, Start3(c, c, e),
         NEW term, NEW kinds, Ends(fn, cur, term), fn' = Terminate(fn, cur, term, kinds),
         cur' = NoBlock, agenda' = Tail(agenda), UNCHANGED <<loops, breaks, continues>>
  PROVE  BuildInv' /\ Grows(fn, fn')
<1>1. cur \in OpenBlocks(fn) /\ GraphOk(fn) /\ NoBlock \notin Blocks(fn) BY CurIs
<1>2. GraphOk(fn') /\ Grows(fn, fn') /\ OpenBlocks(fn') = OpenBlocks(fn) \ {cur}
  BY <1>1, Terminated
<1>3. CurOk' BY DEF CurOk
<1>4. Segment(fn', agenda', c, e) BY <1>2, SegmentStays DEF Start3
<1>5. Current(c)'
  <2>1. c.own \subseteq OpenBlocks(fn) /\ cur \notin c.own BY DEF Start3, Current
  <2>2. NoBlock \notin c.own BY <1>1, <2>1 DEF OpenBlocks
  <2> QED BY <1>2, <2>1, <2>2 DEF Start3, Current
<1> QED BY <1>2, <1>3, <1>4, <1>5, Rebuilt

\* A jump may close a block that may go to its target.
LEMMA JumpEnds ==
  ASSUME NEW b, NEW t, MayGo(fn, b, t)
  PROVE  Ends(fn, b, Jump(t))
<1>1. Jump(t).kind = "jump" /\ Jump(t).to = <<t>> /\ ToSet(Jump(t).to) = {t}
  BY JumpFacts, SingleFacts
<1>2. t \in Blocks(fn) BY DEF MayGo
<1> QED BY <1>1, <1>2 DEF Ends

\* BuildBreak keeps the invariant.
LEMMA BreakKeeps ==
  ASSUME BuildInv, BuildBreak
  PROVE  BuildInv' /\ Grows(fn, fn')
<1>1. agenda # <<>> /\ cur # NoBlock /\ IsStatement(Item) /\ breaks # <<>>
  BY DEF BuildBreak, Reached, Building, IsStatement
<1>2. PICK c, d, e : Start3(c, d, e) BY <1>1, AgendaHead
<1>3. d = c BY <1>1, <1>2, KindFacts DEF Start3
<1>4. Aim(fn, c, Last(breaks)) BY <1>1, <1>2 DEF Start3, Current, Good
<1>5. MayGo(fn, cur, Last(breaks)) BY <1>1, <1>2, <1>4, CurrentMayGo DEF Start3
<1>6. fn' = Terminate(fn, cur, Jump(Last(breaks)), <<"break">>)
  BY <1>1 DEF BuildBreak, JumpTo, BreakTarget
<1>7. cur' = NoBlock /\ agenda' = Tail(agenda) /\ UNCHANGED <<loops, breaks, continues>>
  BY DEF BuildBreak, AfterJump
<1>8. Ends(fn, cur, Jump(Last(breaks))) BY <1>5, JumpEnds
<1> QED BY <1>1, <1>2, <1>3, <1>6, <1>7, <1>8, JumpKeeps

\* BuildContinue keeps the invariant.
LEMMA ContinueKeeps ==
  ASSUME BuildInv, BuildContinue
  PROVE  BuildInv' /\ Grows(fn, fn')
<1>1. agenda # <<>> /\ cur # NoBlock /\ IsStatement(Item) /\ continues # <<>>
  BY DEF BuildContinue, Reached, Building, IsStatement
<1>2. PICK c, d, e : Start3(c, d, e) BY <1>1, AgendaHead
<1>3. d = c BY <1>1, <1>2, KindFacts DEF Start3
<1>4. Aim(fn, c, Last(continues)) BY <1>1, <1>2 DEF Start3, Current, Good
<1>5. MayGo(fn, cur, Last(continues)) BY <1>1, <1>2, <1>4, CurrentMayGo DEF Start3
<1>6. fn' = Terminate(fn, cur, Jump(Last(continues)), <<"continue">>)
  BY <1>1 DEF BuildContinue, JumpTo
<1>7. cur' = NoBlock /\ agenda' = Tail(agenda) /\ UNCHANGED <<loops, breaks, continues>>
  BY DEF BuildContinue, AfterJump
<1>8. Ends(fn, cur, Jump(Last(continues))) BY <1>5, JumpEnds
<1> QED BY <1>1, <1>2, <1>3, <1>6, <1>7, <1>8, JumpKeeps

\* A return goes to the function's exit.
LEMMA ReturnFacts ==
  \A val, t : Return(val, t).kind = "return" /\ Return(val, t).to = <<t>>
BY DEF Return, Open

\* So it may close any open block.
LEMMA ReturnEnds ==
  ASSUME GraphOk(fn), NEW b \in Blocks(fn), NEW val
  PROVE  Ends(fn, b, Return(val, fn.exit))
<1> DEFINE r == Return(val, fn.exit)
<1>1. fn.exit = 3 /\ 3 \in Blocks(fn) BY GraphFacts
<1>2. r.kind = "return" /\ r.to = <<3>> /\ ToSet(r.to) = {3}
  BY <1>1, ReturnFacts, SingleFacts
<1> HIDE DEF r
<1>3. MayGo(fn, b, 3) BY <1>1 DEF MayGo, Flow
<1>4. Ends(fn, b, r) BY <1>1, <1>2, <1>3 DEF Ends
<1> QED BY <1>4 DEF r

\* BuildReturn keeps the invariant.
LEMMA ReturnKeeps ==
  ASSUME BuildInv, BuildReturn
  PROVE  BuildInv' /\ Grows(fn, fn')
<1>1. agenda # <<>> /\ cur # NoBlock /\ IsStatement(Item)
  BY DEF BuildReturn, Reached, Building, IsStatement
<1>2. PICK c, d, e : Start3(c, d, e) BY <1>1, AgendaHead
<1>3. d = c BY <1>1, <1>2, KindFacts DEF Start3
<1>4. fn' = Terminate(fn, cur, Return(Item.val, fn.exit), <<"return">>) BY DEF BuildReturn
<1>5. cur' = NoBlock /\ agenda' = Tail(agenda) /\ UNCHANGED <<loops, breaks, continues>>
  BY DEF BuildReturn, AfterJump
<1>6. Ends(fn, cur, Return(Item.val, fn.exit)) BY <1>1, CurIs, ReturnEnds
<1> QED BY <1>1, <1>2, <1>3, <1>4, <1>5, <1>6, JumpKeeps

\* The end of a nested body: its marker goes, a block it owned may be current.
LEMMA MoveKeeps ==
  ASSUME BuildInv, NEW c, NEW d, NEW e, Start3(c, d, e), GraphOk(fn'), Grows(fn, fn'),
         d.own \subseteq OpenBlocks(fn'), cur' \notin d.own,
         cur' # NoBlock => cur' \in OpenBlocks(fn') /\ In(fn, cur', d.loops),
         agenda' = Tail(agenda),
         loops' = d.loops, breaks' = d.breaks, continues' = d.continues
  PROVE  BuildInv'
<1>1. Segment(fn', agenda', d, e) BY SegmentStays DEF Start3
<1>2. Current(d)' BY DEF Current
<1>3. CurOk' BY InStays DEF CurOk, In
<1> QED BY <1>1, <1>2, <1>3, Rebuilt

\* Control goes on from the current block to a block the marker owns.
LEMMA GoOn ==
  ASSUME BuildInv, NEW c, NEW d, NEW e, Start3(c, d, e),
         NEW t, t \in c.own, In(fn, t, c.loops), NEW how
  PROVE  /\ GraphOk(JumpTo(fn, cur, t, how)) /\ Grows(fn, JumpTo(fn, cur, t, how))
         /\ OpenBlocks(JumpTo(fn, cur, t, how)) = OpenBlocks(fn) \ {cur}
         /\ Entries(JumpTo(fn, cur, t, how)) = Entries(fn)
         /\ c.own \subseteq OpenBlocks(JumpTo(fn, cur, t, how))
         /\ c.own \subseteq Blocks(fn) /\ NoBlock \notin c.own
<1>1. GraphOk(fn) /\ (cur # NoBlock => cur \in OpenBlocks(fn)) /\ NoBlock \notin Blocks(fn)
  BY CurIs
<1>2. Aim(fn, c, t) BY DEF Aim, In, Flow
<1>3. cur # NoBlock => MayGo(fn, cur, t) BY <1>2, CurrentMayGo DEF Start3
<1>4. c.own \subseteq OpenBlocks(fn) /\ cur \notin c.own BY DEF Start3, Current
<1>5. c.own \subseteq Blocks(fn) BY <1>4 DEF OpenBlocks
<1> DEFINE f2 == JumpTo(fn, cur, t, how)
<1> HIDE DEF f2
<1>6. /\ GraphOk(f2) /\ Grows(fn, f2) /\ OpenBlocks(f2) = OpenBlocks(fn) \ {cur}
      /\ Entries(f2) = Entries(fn)
  <2>1. GraphOk(fn) BY <1>1
  <2>2. cur # NoBlock => cur \in OpenBlocks(fn) BY <1>1
  <2>3. GraphOk(JumpTo(fn, cur, t, how)) BY <1>3, <2>1, <2>2, Jumped
  <2>4. Grows(fn, JumpTo(fn, cur, t, how)) BY <1>3, <2>1, <2>2, Jumped
  <2>5. OpenBlocks(JumpTo(fn, cur, t, how)) = OpenBlocks(fn) \ {cur} BY <1>3, <2>1, <2>2, Jumped
  <2>6. JumpTo(fn, cur, t, how).regions = fn.regions
    <3>1. DOMAIN fn = {"blocks", "regions", "entry", "exit", "types"}
      <4>1. fn = [blocks |-> fn.blocks, regions |-> fn.regions, entry |-> 1, exit |-> 3,
                  types |-> fn.types]
        BY <2>1, GraphFacts
      <4> QED BY <4>1
    <3> QED BY <3>1 DEF JumpTo, Terminate
  <2> QED BY <2>3, <2>4, <2>5, <2>6 DEF f2, Entries
<1> HIDE DEF f2
<1>7. c.own \subseteq OpenBlocks(f2) BY <1>4, <1>6
<1> QED BY <1>1, <1>5, <1>6, <1>7 DEF f2

\* EndThen keeps the invariant.
LEMMA EndThenKeeps ==
  ASSUME BuildInv, EndThen
  PROVE  BuildInv' /\ Grows(fn, fn')
<1>1. agenda # <<>> /\ Item.k = "endthen" BY DEF EndThen, Building
<1>2. PICK c, d, e : Start3(c, d, e) BY <1>1, AgendaHead
<1>3. AtEndThen(fn, Item, c, d) BY <1>1, <1>2, KindFacts DEF Start3
<1>4. Item.merge \in c.own /\ In(fn, Item.merge, c.loops) /\ Item.no \in c.own
      /\ In(fn, Item.no, d.loops) /\ Item.no \notin d.own /\ d.own \subseteq c.own
  BY <1>3 DEF AtEndThen, GivesUp, Keeps
<1>5. fn' = JumpTo(fn, cur, Item.merge, "fallthrough") /\ cur' = Item.no
      /\ agenda' = Tail(agenda) /\ UNCHANGED <<loops, breaks, continues>>
  BY DEF EndThen
<1>6. GraphOk(fn') /\ Grows(fn, fn') /\ c.own \subseteq OpenBlocks(fn')
  BY <1>2, <1>4, <1>5, GoOn
<1>7. loops' = d.loops /\ breaks' = d.breaks /\ continues' = d.continues
  BY <1>2, <1>3, <1>5 DEF AtEndThen, Keeps, Start3, Current
<1>8. BuildInv' BY <1>2, <1>4, <1>5, <1>6, <1>7, MoveKeeps
<1> QED BY <1>6, <1>8

\* EndElse keeps the invariant.
LEMMA EndElseKeeps ==
  ASSUME BuildInv, EndElse
  PROVE  BuildInv' /\ Grows(fn, fn')
<1>1. agenda # <<>> /\ Item.k = "endelse" BY DEF EndElse, Building
<1>2. PICK c, d, e : Start3(c, d, e) BY <1>1, AgendaHead
<1>3. AtEndElse(fn, Item, c, d) BY <1>1, <1>2, KindFacts DEF Start3
<1>4. Item.merge \in c.own /\ In(fn, Item.merge, c.loops)
      /\ In(fn, Item.merge, d.loops) /\ Item.merge \notin d.own /\ d.own \subseteq c.own
  BY <1>3 DEF AtEndElse, GivesUp, Keeps
<1>5. fn' = JumpTo(fn, cur, Item.merge, "fallthrough")
      /\ (cur' = NoBlock \/ cur' = Item.merge)
      /\ agenda' = Tail(agenda) /\ UNCHANGED <<loops, breaks, continues>>
  BY DEF EndElse, MergeOf
<1>6. GraphOk(fn') /\ Grows(fn, fn') /\ c.own \subseteq OpenBlocks(fn') /\ NoBlock \notin c.own
  BY <1>2, <1>4, <1>5, GoOn
<1>7. loops' = d.loops /\ breaks' = d.breaks /\ continues' = d.continues
  BY <1>2, <1>3, <1>5 DEF AtEndElse, Keeps, Start3, Current
<1>8. BuildInv' BY <1>2, <1>4, <1>5, <1>6, <1>7, MoveKeeps
<1> QED BY <1>6, <1>8

\* BuildCase keeps the invariant.
LEMMA CaseKeeps ==
  ASSUME BuildInv, BuildCase
  PROVE  BuildInv' /\ Grows(fn, fn')
<1>1. agenda # <<>> /\ Item.k = "case" BY DEF BuildCase, Building
<1>2. PICK c, d, e : Start3(c, d, e) BY <1>1, AgendaHead
<1>3. AtCase(fn, Item, c, d) BY <1>1, <1>2, KindFacts DEF Start3
<1>4. Item.block \in c.own /\ In(fn, Item.block, c.loops)
      /\ In(fn, Item.block, d.loops) /\ Item.block \notin d.own /\ d.own \subseteq c.own
  BY <1>3 DEF AtCase, GivesUp, Keeps
<1>5. fn' = JumpTo(fn, cur, Item.block, "fallthrough") /\ cur' = Item.block
      /\ agenda' = Tail(agenda) /\ UNCHANGED <<loops, breaks, continues>>
  BY DEF BuildCase
<1>6. GraphOk(fn') /\ Grows(fn, fn') /\ c.own \subseteq OpenBlocks(fn')
  BY <1>2, <1>4, <1>5, GoOn
<1>7. loops' = d.loops /\ breaks' = d.breaks /\ continues' = d.continues
  BY <1>2, <1>3, <1>5 DEF AtCase, Keeps, Start3, Current
<1>8. BuildInv' BY <1>2, <1>4, <1>5, <1>6, <1>7, MoveKeeps
<1> QED BY <1>6, <1>8

\* EndSwitchBody keeps the invariant.
LEMMA EndSwitchKeeps ==
  ASSUME BuildInv, EndSwitchBody
  PROVE  BuildInv' /\ Grows(fn, fn')
<1>1. agenda # <<>> /\ Item.k = "endswitch" BY DEF EndSwitchBody, Building
<1>2. PICK c, d, e : Start3(c, d, e) BY <1>1, AgendaHead
<1>3. AtEndSwitch(fn, Item, c, d) BY <1>1, <1>2, KindFacts DEF Start3
<1>4. Item.exit \in c.own /\ In(fn, Item.exit, c.loops)
      /\ In(fn, Item.exit, d.loops) /\ Item.exit \notin d.own /\ d.own \subseteq c.own
  BY <1>3 DEF AtEndSwitch, GivesUp
<1>5. fn' = JumpTo(fn, cur, Item.exit, "fallthrough") /\ cur' = Item.exit
      /\ agenda' = Tail(agenda) /\ UNCHANGED <<loops, continues>> /\ breaks' = Front(breaks)
  BY DEF EndSwitchBody
<1>6. GraphOk(fn') /\ Grows(fn, fn') /\ c.own \subseteq OpenBlocks(fn')
  BY <1>2, <1>4, <1>5, GoOn
<1>7. loops' = d.loops /\ breaks' = d.breaks /\ continues' = d.continues
  BY <1>2, <1>3, <1>5 DEF AtEndSwitch, Start3, Current
<1>8. BuildInv' BY <1>2, <1>4, <1>5, <1>6, <1>7, MoveKeeps
<1> QED BY <1>6, <1>8

-----------------------------------------------------------------------------
(* The ends of loops *)

\* The end of a loop pops the stacks to the context outside.
LEMMA LoopLeft ==
  ASSUME BuildInv, LeaveLoop, NEW c, NEW d, NEW e, Start3(c, d, e), LeavesTo(fn, c, d, Item.exit),
         Item.exit \in c.own, d.own \subseteq c.own, Item.exit \notin d.own,
         GraphOk(fn'), Grows(fn, fn'), d.own \cup {Item.exit} \subseteq OpenBlocks(fn')
  PROVE  BuildInv'
<1>1. loops' = d.loops /\ breaks' = d.breaks /\ continues' = d.continues
      /\ cur' = Item.exit /\ agenda' = Tail(agenda) /\ In(fn, Item.exit, d.loops)
  BY DEF LeaveLoop, LeavesTo, Start3, Current
<1> QED BY <1>1, MoveKeeps

\* EndWhile keeps the invariant.
LEMMA EndWhileKeeps ==
  ASSUME BuildInv, EndWhile
  PROVE  BuildInv' /\ Grows(fn, fn')
<1>1. agenda # <<>> /\ Item.k = "endwhile" BY DEF EndWhile, Building
<1>2. PICK c, d, e : Start3(c, d, e) BY <1>1, AgendaHead
<1>3. AtEndWhile(fn, Item, c, d) BY <1>1, <1>2, KindFacts DEF Start3
<1>4. Item.exit \in c.own /\ d.own \subseteq c.own /\ Item.exit \notin d.own
  BY <1>3 DEF AtEndWhile, GivesUp
<1>5. Aim(fn, c, Item.prelude) BY <1>3 DEF AtEndWhile, Aim, In, Flow
<1>6. cur # NoBlock => MayGo(fn, cur, Item.prelude) BY <1>2, <1>5, CurrentMayGo DEF Start3
<1>7. fn' = JumpTo(fn, cur, Item.prelude, "jump") /\ LeaveLoop BY DEF EndWhile
<1>8. GraphOk(fn') /\ Grows(fn, fn') /\ OpenBlocks(fn') = OpenBlocks(fn) \ {cur}
  BY <1>6, <1>7, CurIs, Jumped
<1>9. c.own \subseteq OpenBlocks(fn) \ {cur} BY <1>2 DEF Start3, Current
<1>10. BuildInv'
  <2>1. LeavesTo(fn, c, d, Item.exit) BY <1>3 DEF AtEndWhile
  <2>2. d.own \cup {Item.exit} \subseteq OpenBlocks(fn') BY <1>4, <1>8, <1>9
  <2> QED BY <1>2, <1>4, <1>7, <1>8, <2>1, <2>2, LoopLeft
<1> QED BY <1>8, <1>10

\* EndFor keeps the invariant.
LEMMA EndForKeeps ==
  ASSUME BuildInv, EndFor
  PROVE  BuildInv' /\ Grows(fn, fn')
<1>1. agenda # <<>> /\ Item.k = "endfor" BY DEF EndFor, Building
<1>2. PICK c, d, e : Start3(c, d, e) BY <1>1, AgendaHead
<1>3. AtEndFor(fn, Item, c, d) BY <1>1, <1>2, KindFacts DEF Start3
<1>4. /\ Item.exit \in c.own /\ d.own \subseteq c.own /\ Item.exit \notin d.own
      /\ Item.step \in c.own /\ Item.step \notin d.own /\ Item.step # Item.exit
      /\ In(fn, Item.step, c.loops) /\ In(fn, Item.prelude, c.loops)
      /\ Item.prelude \in Entries(fn) /\ AllSequential(Item.stmts)
      /\ LeavesTo(fn, c, d, Item.exit)
  BY <1>3 DEF AtEndFor, GivesUp
<1> DEFINE f1 == JumpTo(fn, cur, Item.step, "fallthrough")
           f2 == Emit(f1, Item.step, Item.stmts)
           f3 == JumpTo(f2, Item.step, Item.prelude, "jump")
<1>5. fn' = f3 /\ LeaveLoop BY DEF EndFor
<1>6. GraphOk(f1) /\ Grows(fn, f1) /\ c.own \subseteq OpenBlocks(f1) /\ Entries(f1) = Entries(fn)
      /\ NoBlock \notin c.own
  BY <1>2, <1>4, GoOn
<1> HIDE DEF f1
<1>7. Item.step \in OpenBlocks(f1) BY <1>4, <1>6
<1>8. GraphOk(f2) /\ Grows(f1, f2) /\ OpenBlocks(f2) = OpenBlocks(f1) /\ Entries(f2) = Entries(f1)
  BY <1>4, <1>6, <1>7, Emitted
<1> HIDE DEF f2
<1>9. Grows(fn, f2) BY <1>6, <1>8, GrowsAlong
<1>10. In(f2, Item.step, c.loops) /\ In(f2, Item.prelude, c.loops)
  BY <1>4, <1>9, InStays
<1>11. MayGo(f2, Item.step, Item.prelude)
  BY <1>4, <1>6, <1>8, <1>10 DEF MayGo, Flow, In
<1>12. GraphOk(f3) /\ Grows(f2, f3) /\ OpenBlocks(f3) = OpenBlocks(f2) \ {Item.step}
  <2>1. Item.step \in OpenBlocks(f2) BY <1>7, <1>8
  <2> QED BY <1>8, <1>11, <2>1, Jumped
<1> HIDE DEF f3
<1>13. Grows(fn, fn') /\ GraphOk(fn') BY <1>5, <1>9, <1>12, GrowsAlong
<1>14. d.own \cup {Item.exit} \subseteq OpenBlocks(fn') BY <1>4, <1>5, <1>6, <1>8, <1>12
<1>15. BuildInv' BY <1>2, <1>4, <1>5, <1>13, <1>14, LoopLeft
<1> QED BY <1>13, <1>15

\* The condition block branches to the body and the exit, or jumps in.
LEMMA Tested ==
  ASSUME NEW f, GraphOk(f), NEW b \in OpenBlocks(f), NEW cond, NEW body, NEW exit,
         MayGo(f, b, body), MayGo(f, b, exit)
  PROVE  LET f2 == TestBlock(f, b, cond, body, exit)
         IN /\ GraphOk(f2) /\ Grows(f, f2) /\ OpenBlocks(f2) = OpenBlocks(f) \ {b}
            /\ Len(f2.blocks) = Len(f.blocks)
<1>1. CASE cond = <<>>
  <2>1. TestBlock(f, b, cond, body, exit) = JumpTo(f, b, body, "jump")
    BY <1>1 DEF TestBlock
  <2> QED BY <2>1, Jumped
<1>2. CASE cond # <<>>
  <2> DEFINE t == Branch(cond[1], body, exit)
  <2>1. TestBlock(f, b, cond, body, exit) = Terminate(f, b, t, <<"true", "false">>)
    BY <1>2 DEF TestBlock
  <2>2. t.kind = "branch" /\ t.to = <<body, exit>> BY BranchFacts
  <2> HIDE DEF t
  <2>3. body \in Blocks(f) /\ exit \in Blocks(f) BY DEF MayGo
  <2>4. ToSet(t.to) = {body, exit} BY <2>2 DEF ToSet
  <2>5. Ends(f, b, t) BY <2>2, <2>3, <2>4 DEF Ends
  <2> QED BY <2>1, <2>5, Terminated
<1> QED BY <1>1, <1>2

\* EndDoWhile keeps the invariant.
LEMMA EndDoKeeps ==
  ASSUME BuildInv, EndDoWhile
  PROVE  BuildInv' /\ Grows(fn, fn')
<1>1. agenda # <<>> /\ Item.k = "enddo" BY DEF EndDoWhile, Building
<1>2. PICK c, d, e : Start3(c, d, e) BY <1>1, AgendaHead
<1>3. AtEndDo(fn, Item, c, d) BY <1>1, <1>2, KindFacts DEF Start3
<1> DEFINE prelude == Item.prelude
           condition == Item.condition
           exit == Item.exit
           body == Item.body
<1>4. /\ exit \in c.own /\ d.own \subseteq c.own /\ exit \notin d.own
      /\ prelude \in c.own /\ condition \in c.own
      /\ prelude \notin d.own /\ condition \notin d.own
      /\ prelude # exit /\ condition # exit /\ prelude # condition
      /\ In(fn, prelude, c.loops) /\ In(fn, condition, c.loops) /\ In(fn, body, c.loops)
      /\ body \in Entries(fn) /\ AllSequential(Item.loop.prelude)
      /\ LeavesTo(fn, c, d, exit)
  BY <1>3 DEF AtEndDo, GivesUp
<1> DEFINE f1 == JumpTo(fn, cur, prelude, "fallthrough")
           f2 == Emit(f1, prelude, Item.loop.prelude)
           f3 == JumpTo(f2, prelude, condition, "fallthrough")
           f4 == TestBlock(f3, condition, Item.loop.cond, body, exit)
<1>5. fn' = f4 /\ LeaveLoop BY DEF EndDoWhile
<1> HIDE DEF prelude, condition, exit, body
<1>6. GraphOk(f1) /\ Grows(fn, f1) /\ c.own \subseteq OpenBlocks(f1) /\ Entries(f1) = Entries(fn)
      /\ NoBlock \notin c.own
  BY <1>2, <1>4, GoOn
<1> HIDE DEF f1
<1>7. prelude \in OpenBlocks(f1) BY <1>4, <1>6
<1>8. GraphOk(f2) /\ Grows(f1, f2) /\ OpenBlocks(f2) = OpenBlocks(f1) /\ Entries(f2) = Entries(f1)
  BY <1>4, <1>6, <1>7, Emitted
<1> HIDE DEF f2
<1>9. Grows(fn, f2) BY <1>6, <1>8, GrowsAlong
<1>10. In(f2, prelude, c.loops) /\ In(f2, condition, c.loops)
  BY <1>4, <1>9, InStays
<1>11. MayGo(f2, prelude, condition)
  BY <1>4, <1>6, <1>8, <1>10 DEF MayGo, Flow, In
<1>12. /\ GraphOk(f3) /\ Grows(f2, f3) /\ OpenBlocks(f3) = OpenBlocks(f2) \ {prelude}
       /\ Entries(f3) = Entries(f2)
  <2>1. prelude \in OpenBlocks(f2) BY <1>7, <1>8
  <2> QED BY <1>8, <1>11, <2>1, Jumped
<1> HIDE DEF f3
<1>13. Grows(fn, f3) BY <1>9, <1>12, GrowsAlong
<1>14. c.own \ {prelude} \subseteq OpenBlocks(f3) BY <1>6, <1>8, <1>12
<1>15. LoopsOf(f3, condition) = c.loops /\ In(f3, body, c.loops)
  BY <1>4, <1>13, InStays DEF In
<1>16. MayGo(f3, condition, body)
  BY <1>4, <1>6, <1>8, <1>12, <1>15 DEF MayGo, Flow, In
<1>17. MayGo(f3, condition, exit)
  <2>1. exit \in Blocks(fn) /\ Flow(fn, c.loops, exit) BY <1>4 DEF LeavesTo, In
  <2>2. Flow(f3, c.loops, exit) BY <1>13, <2>1, FlowStays
  <2>3. exit \in OpenBlocks(f3) \ {condition} BY <1>4, <1>14
  <2> QED BY <1>15, <2>2, <2>3 DEF MayGo, OpenBlocks
<1>18. GraphOk(f4) /\ Grows(f3, f4) /\ OpenBlocks(f4) = OpenBlocks(f3) \ {condition}
  <2>1. condition \in OpenBlocks(f3) BY <1>4, <1>14
  <2> QED BY <1>12, <1>16, <1>17, <2>1, Tested
<1> HIDE DEF f4
<1>19. Grows(fn, fn') /\ GraphOk(fn') BY <1>5, <1>13, <1>18, GrowsAlong
<1>20. d.own \cup {exit} \subseteq OpenBlocks(fn') BY <1>4, <1>5, <1>14, <1>18
<1>21. BuildInv' BY <1>2, <1>4, <1>5, <1>19, <1>20, LoopLeft DEF exit
<1> QED BY <1>19, <1>21

-----------------------------------------------------------------------------
(* Entering a loop *)

\* The context of the body of loop r.
BodyCtx(c, r, exit, next, own) ==
  Ctx(Append(c.loops, r), Append(c.breaks, exit), Append(c.continues, next), own \cup c.own)

\* It is good, and the end of the loop returns from it.
LEMMA BodyCtxGood ==
  ASSUME NEW f, Blocks(f) \subseteq Nat, NEW c, Good(f, c), NEW r \in Nat, r \in DOMAIN f.regions,
         NEW exit, f.regions[r].exit = exit, In(f, exit, c.loops),
         NEW own, own \subseteq Blocks(f), exit \in own,
         NEW next, In(f, next, Append(c.loops, r)), next \in own \/ next \in Entries(f)
  PROVE  /\ Good(f, BodyCtx(c, r, exit, next, own))
         /\ LeavesTo(f, BodyCtx(c, r, exit, next, own), c, exit)
<1> DEFINE b == BodyCtx(c, r, exit, next, own)
<1>1. /\ b.loops = Append(c.loops, r) /\ b.breaks = Append(c.breaks, exit)
      /\ b.continues = Append(c.continues, next) /\ b.own = own \cup c.own
  BY DEF BodyCtx, Ctx
<1> HIDE DEF b
<1>2. c.loops \in Seq(Nat) /\ c.breaks \in Seq(Nat) /\ c.continues \in Seq(Nat)
      /\ c.own \subseteq Blocks(f)
  BY DEF Good
<1>3. IsSeq(c.loops) /\ IsSeq(c.breaks) /\ IsSeq(c.continues) BY <1>2, SeqOver
<1>4. /\ b.loops # <<>> /\ Front(b.loops) = c.loops
      /\ b.breaks # <<>> /\ Front(b.breaks) = c.breaks /\ Last(b.breaks) = exit
      /\ b.continues # <<>> /\ Front(b.continues) = c.continues /\ Last(b.continues) = next
  <2>1. Append(c.loops, r) # <<>> /\ Front(Append(c.loops, r)) = c.loops
    BY <1>3, AppendFacts
  <2>2. /\ Append(c.breaks, exit) # <<>> /\ Front(Append(c.breaks, exit)) = c.breaks
        /\ Last(Append(c.breaks, exit)) = exit
    BY <1>3, AppendFacts
  <2>3. /\ Append(c.continues, next) # <<>> /\ Front(Append(c.continues, next)) = c.continues
        /\ Last(Append(c.continues, next)) = next
    BY <1>3, AppendFacts
  <2> QED BY <1>1, <2>1, <2>2, <2>3
<1>5. Flow(f, b.loops, exit)
  <2>1. LoopsOf(f, exit) = c.loops BY DEF In
  <2>2. b.loops = Append(LoopsOf(f, exit), r) BY <1>1, <2>1
  <2> QED BY <2>2 DEF Flow
<1>6. LeavesTo(f, b, c, exit) BY <1>4, <1>5 DEF LeavesTo
<1>7. Aim(f, b, exit) BY <1>1, <1>5 DEF Aim, In
<1>8. Aim(f, b, next) BY <1>1 DEF Aim, In, Flow
<1>9. b.breaks \in Seq(Nat) /\ b.continues \in Seq(Nat)
  BY <1>1, <1>2 DEF In
<1>10. b.loops \in Seq(Nat) /\ b.own \subseteq Blocks(f) BY <1>1, <1>2
<1>11. Good(f, b) BY <1>4, <1>7, <1>8, <1>9, <1>10 DEF Good
<1> QED BY <1>6, <1>11 DEF b

\* A loop handler ends in the context of the body.
LEMMA LoopEntered ==
  ASSUME BuildInv, NEW c, NEW e, Start3(c, c, e), GraphOk(fn'), Grows(fn, fn'),
         NEW b, NEW item, ItemOk(fn', item, b, c), Good(fn', b),
         NEW body \in Seq(Statements), agenda' = body \o <<item>> \o Tail(agenda),
         loops' = b.loops, breaks' = b.breaks, continues' = b.continues,
         b.own \subseteq OpenBlocks(fn'), cur' \notin b.own,
         cur' \in OpenBlocks(fn'), LoopsOf(fn', cur') = b.loops
  PROVE  BuildInv'
<1>1. Segment(fn', Tail(agenda), c, e) BY SegmentStays DEF Start3
<1>2. Good(fn', c) BY GoodStays DEF Start3
<1>3. Segment(fn', <<item>>, b, c) BY <1>2, ItemSegment
<1>4. Segment(fn', body, b, b) BY BodySegment
<1>5. Segment(fn', body \o <<item>>, b, c) BY <1>3, <1>4, SegmentsJoin
<1>6. Segment(fn', agenda', b, e) BY <1>1, <1>5, SegmentsJoin
<1>7. Current(b)' BY DEF Current
<1>8. CurOk' BY DEF CurOk
<1> QED BY <1>6, <1>7, <1>8, Rebuilt

\* The blocks of a loop, new in f: the entry and the exit are known to a
\* region.
LoopIn(f, l, r, entry, exit) ==
  /\ r \in DOMAIN f.regions
  /\ EntryOf(f.regions[r]) = entry /\ f.regions[r].exit = exit
  /\ In(f, entry, Append(l, r)) /\ In(f, exit, l)

\* They stay so while the graph grows.
LEMMA LoopInStays ==
  ASSUME NEW f, NEW f2, Grows(f, f2), NEW l, NEW r, NEW entry, NEW exit,
         LoopIn(f, l, r, entry, exit)
  PROVE  LoopIn(f2, l, r, entry, exit)
<1>1. r \in DOMAIN f2.regions /\ f2.regions[r] = f.regions[r] BY DEF LoopIn, Grows
<1> QED BY <1>1, InStays DEF LoopIn

\* The loop is entered at its entry and left to its exit.
LEMMA LoopFlows ==
  ASSUME NEW f, NEW l, NEW r, NEW entry, NEW exit, LoopIn(f, l, r, entry, exit)
  PROVE  Flow(f, l, entry) /\ Flow(f, Append(l, r), exit) /\ entry \in Entries(f)
BY DEF LoopIn, In, Flow, Entries

\* The pretest of a loop: the current block enters the prelude, the prelude
\* goes to the condition, which tests.
LEMMA Pretested ==
  ASSUME NEW f, GraphOk(f), NEW b \in OpenBlocks(f), NEW l, LoopsOf(f, b) = l, NEW r,
         NEW prelude, NEW condition, NEW body, NEW exit, LoopIn(f, l, r, prelude, exit),
         {prelude, condition, body, exit} \subseteq OpenBlocks(f) \ {b},
         prelude # condition, prelude # body, prelude # exit,
         condition # body, condition # exit,
         In(f, condition, Append(l, r)), In(f, body, Append(l, r)),
         NEW stmts, AllSequential(stmts), NEW cond
  PROVE  LET f1 == JumpTo(f, b, prelude, "fallthrough")
             f2 == JumpTo(Emit(f1, prelude, stmts), prelude, condition, "fallthrough")
             f3 == TestBlock(f2, condition, cond, body, exit)
         IN /\ GraphOk(f3) /\ Grows(f, f3) /\ Len(f3.blocks) = Len(f.blocks)
            /\ OpenBlocks(f3) = OpenBlocks(f) \ {b, prelude, condition}
<1> DEFINE f1 == JumpTo(f, b, prelude, "fallthrough")
           g == Emit(f1, prelude, stmts)
           f2 == JumpTo(g, prelude, condition, "fallthrough")
           f3 == TestBlock(f2, condition, cond, body, exit)
           in == Append(l, r)
<1>1. Flow(f, l, prelude) /\ In(f, prelude, in) /\ In(f, exit, l)
  BY LoopFlows DEF LoopIn
<1>2. MayGo(f, b, prelude) BY <1>1 DEF MayGo, In
<1>3. /\ GraphOk(f1) /\ Grows(f, f1) /\ OpenBlocks(f1) = OpenBlocks(f) \ {b}
      /\ Len(f1.blocks) = Len(f.blocks)
  BY <1>2, Jumped
<1> HIDE DEF f1
<1>4. prelude \in OpenBlocks(f1) BY <1>3
<1>5. /\ GraphOk(g) /\ Grows(f1, g) /\ OpenBlocks(g) = OpenBlocks(f) \ {b}
      /\ Len(g.blocks) = Len(f.blocks)
  BY <1>3, <1>4, Emitted
<1> HIDE DEF g
<1>6. Grows(f, g) BY <1>3, <1>5, GrowsAlong
<1>7. In(g, prelude, in) /\ In(g, condition, in) BY <1>1, <1>6, InStays
<1> HIDE DEF in
<1>8. MayGo(g, prelude, condition) BY <1>5, <1>7 DEF MayGo, In, Flow
<1>9. /\ GraphOk(f2) /\ Grows(g, f2) /\ OpenBlocks(f2) = OpenBlocks(f) \ {b, prelude}
      /\ Len(f2.blocks) = Len(f.blocks)
  <2>1. prelude \in OpenBlocks(g) BY <1>5
  <2>2. /\ GraphOk(f2) /\ Grows(g, f2) /\ OpenBlocks(f2) = OpenBlocks(g) \ {prelude}
        /\ Len(f2.blocks) = Len(g.blocks)
    BY <1>5, <1>8, <2>1, Jumped
  <2> HIDE DEF f2
  <2> QED BY <1>5, <2>2
<1> HIDE DEF f2
<1>10. Grows(f, f2) BY <1>6, <1>9, GrowsAlong
<1>11. In(f2, condition, in) /\ In(f2, body, in) /\ LoopIn(f2, l, r, prelude, exit)
  BY <1>10, InStays, LoopInStays DEF in
<1>12. {condition, body, exit} \subseteq OpenBlocks(f2) BY <1>9
<1>13. MayGo(f2, condition, body) BY <1>11, <1>12 DEF MayGo, In, Flow
<1>14. MayGo(f2, condition, exit)
  <2>1. Flow(f2, in, exit) BY <1>11, LoopFlows DEF in
  <2> QED BY <1>11, <1>12, <2>1 DEF MayGo, In, LoopIn
<1>15. /\ GraphOk(f3) /\ Grows(f2, f3) /\ OpenBlocks(f3) = OpenBlocks(f2) \ {condition}
       /\ Len(f3.blocks) = Len(f2.blocks)
  <2>1. condition \in OpenBlocks(f2) BY <1>12
  <2> QED BY <1>9, <1>13, <1>14, <2>1, Tested
<1> HIDE DEF f3
<1>16. Grows(f, f3) BY <1>10, <1>15, GrowsAlong
<1>17. OpenBlocks(f3) = OpenBlocks(f) \ {b, prelude, condition} BY <1>9, <1>15
<1> QED BY <1>9, <1>15, <1>16, <1>17 DEF f1, g, f2, f3

\* f2 is f with open blocks for the stacks, and perhaps regions, added.
NewBlocks(f, stacks) == {Len(f.blocks) + i : i \in 1..Len(stacks)}
Opened(f, f2, stacks) ==
  /\ GraphOk(f2) /\ Grows(f, f2)
  /\ OpenBlocks(f2) = OpenBlocks(f) \cup NewBlocks(f, stacks)
  /\ \A i \in 1..Len(stacks) : In(f2, Len(f.blocks) + i, stacks[i])

\* Region r of f, by what the invariant needs of it.
RegionIs(f, r, entry, exit) ==
  /\ r \in DOMAIN f.regions /\ r \in Nat
  /\ f.regions[r].exit = exit /\ EntryOf(f.regions[r]) = entry

\* Adding the blocks and the region of a loop.
LEMMA LoopMade ==
  ASSUME NEW f, GraphOk(f), NEW stacks \in Seq(Seq(Nat)), NEW r, r.id = Len(f.regions) + 1
  PROVE  LET f2 == WithRegion(AddBlocks(f, stacks), r)
         IN /\ Opened(f, f2, stacks)
            /\ r.id \in DOMAIN f2.regions /\ r.id \in Nat /\ f2.regions[r.id] = r
<1> DEFINE f1 == AddBlocks(f, stacks)
           f2 == WithRegion(f1, r)
           n == Len(f.blocks)
<1>1. /\ GraphOk(f1) /\ Grows(f, f1) /\ Len(f1.blocks) = n + Len(stacks)
      /\ f1.regions = f.regions
      /\ OpenBlocks(f1) = OpenBlocks(f) \cup {n + i : i \in 1..Len(stacks)}
      /\ \A i \in 1..Len(stacks) : LoopsOf(f1, n + i) = stacks[i]
  BY BlocksAdded
<1> HIDE DEF f1
<1>2. /\ GraphOk(f2) /\ Grows(f1, f2) /\ f2.blocks = f1.blocks /\ OpenBlocks(f2) = OpenBlocks(f1)
      /\ r.id \in DOMAIN f2.regions /\ f2.regions[r.id] = r
  BY <1>1, RegionAdded
<1> HIDE DEF f2
<1>3. Grows(f, f2) BY <1>1, <1>2, GrowsAlong
<1>4. ASSUME NEW i \in 1..Len(stacks) PROVE In(f2, n + i, stacks[i])
  <2>1. n + i \in OpenBlocks(f2) BY <1>1, <1>2
  <2>2. LoopsOf(f2, n + i) = stacks[i] BY <1>1, <1>2 DEF LoopsOf
  <2> QED BY <2>1, <2>2 DEF In, OpenBlocks
<1>5. r.id \in Nat BY GraphFacts
<1>6. OpenBlocks(f2) = OpenBlocks(f) \cup NewBlocks(f, stacks)
  BY <1>1, <1>2 DEF NewBlocks
<1>7. Opened(f, f2, stacks) BY <1>2, <1>3, <1>4, <1>6 DEF Opened
<1> QED BY <1>2, <1>5, <1>7 DEF f1, f2

\* The blocks and the region of a for and while loop.
LEMMA PretestMade ==
  ASSUME NEW f, GraphOk(f), NEW stacks \in Seq(Seq(Nat)), NEW condition, NEW prelude,
         NEW body, NEW exit
  PROVE  LET f2 == AddRegion(AddBlocks(f, stacks), FALSE, condition, prelude, body, exit)
         IN Opened(f, f2, stacks) /\ RegionIs(f2, Len(f.regions) + 1, prelude, exit)
<1> DEFINE id == Len(f.regions) + 1
           r == [id |-> id, post |-> FALSE, condition |-> condition,
                 prelude |-> prelude, body |-> body, exit |-> exit]
           f1 == AddBlocks(f, stacks)
           f2 == AddRegion(f1, FALSE, condition, prelude, body, exit)
<1>1. r.id = id /\ r.exit = exit /\ EntryOf(r) = prelude BY DEF EntryOf
<1>2. f1.regions = f.regions /\ DOMAIN f1 = {"blocks", "regions", "entry", "exit", "types"}
  <2>1. f1.regions = f.regions /\ GraphOk(f1) BY BlocksAdded
  <2> HIDE DEF f1
  <2>2. f1 = [blocks |-> f1.blocks, regions |-> f1.regions, entry |-> 1, exit |-> 3,
              types |-> f1.types]
    BY <2>1, GraphFacts
  <2> QED BY <2>1, <2>2
<1>3. f2 = WithRegion(f1, r)
  <2> HIDE DEF f1
  <2> QED BY <1>2 DEF AddRegion, WithRegion
<1> HIDE DEF r
<1>4. /\ Opened(f, WithRegion(f1, r), stacks)
      /\ r.id \in DOMAIN WithRegion(f1, r).regions /\ r.id \in Nat
      /\ WithRegion(f1, r).regions[r.id] = r
  BY <1>1, LoopMade
<1> HIDE DEF f1
<1>5. /\ Opened(f, f2, stacks) /\ r.id \in DOMAIN f2.regions /\ r.id \in Nat
      /\ f2.regions[r.id] = r
  BY <1>3, <1>4
<1> HIDE DEF f2
<1>6. RegionIs(f2, id, prelude, exit) BY <1>1, <1>5 DEF RegionIs
<1> QED BY <1>5, <1>6 DEF f1, f2

\* The blocks and the region of a do loop.
LEMMA PosttestMade ==
  ASSUME NEW f, GraphOk(f), NEW stacks \in Seq(Seq(Nat)), NEW condition, NEW prelude,
         NEW body, NEW exit
  PROVE  LET f2 == AddRegion(AddBlocks(f, stacks), TRUE, condition, prelude, body, exit)
         IN Opened(f, f2, stacks) /\ RegionIs(f2, Len(f.regions) + 1, body, exit)
<1> DEFINE id == Len(f.regions) + 1
           r == [id |-> id, post |-> TRUE, condition |-> condition,
                 prelude |-> prelude, body |-> body, exit |-> exit]
           f1 == AddBlocks(f, stacks)
           f2 == AddRegion(f1, TRUE, condition, prelude, body, exit)
<1>1. r.id = id /\ r.exit = exit /\ EntryOf(r) = body BY DEF EntryOf
<1>2. f1.regions = f.regions /\ DOMAIN f1 = {"blocks", "regions", "entry", "exit", "types"}
  <2>1. f1.regions = f.regions /\ GraphOk(f1) BY BlocksAdded
  <2> HIDE DEF f1
  <2>2. f1 = [blocks |-> f1.blocks, regions |-> f1.regions, entry |-> 1, exit |-> 3,
              types |-> f1.types]
    BY <2>1, GraphFacts
  <2> QED BY <2>1, <2>2
<1>3. f2 = WithRegion(f1, r)
  <2> HIDE DEF f1
  <2> QED BY <1>2 DEF AddRegion, WithRegion
<1> HIDE DEF r
<1>4. /\ Opened(f, WithRegion(f1, r), stacks)
      /\ r.id \in DOMAIN WithRegion(f1, r).regions /\ r.id \in Nat
      /\ WithRegion(f1, r).regions[r.id] = r
  BY <1>1, LoopMade
<1> HIDE DEF f1
<1>5. /\ Opened(f, f2, stacks) /\ r.id \in DOMAIN f2.regions /\ r.id \in Nat
      /\ f2.regions[r.id] = r
  BY <1>3, <1>4
<1> HIDE DEF f2
<1>6. RegionIs(f2, id, body, exit) BY <1>1, <1>5 DEF RegionIs
<1> QED BY <1>5, <1>6 DEF f1, f2

\* What holds when a handler opens a nested construct.
LEMMA Opening ==
  ASSUME BuildInv, agenda # <<>>, cur # NoBlock, IsStatement(Item)
  PROVE  /\ \E c, e : Start3(c, c, e)
         /\ Item \in Statements
         /\ GraphOk(fn) /\ cur \in OpenBlocks(fn) /\ LoopsOf(fn, cur) = loops
         /\ loops \in Seq(Nat) /\ Append(loops, RegionId) \in Seq(Nat)
         /\ Len(fn.blocks) \in Nat /\ Blocks(fn) = 1..Len(fn.blocks)
<1>1. PICK c, d, e : Start3(c, d, e) BY AgendaHead
<1>2. d = c /\ Item \in Statements BY <1>1, KindFacts DEF Start3
<1>3. loops \in Seq(Nat) BY <1>1 DEF Start3, Current, Good
<1>4. GraphOk(fn) /\ cur \in OpenBlocks(fn) /\ LoopsOf(fn, cur) = loops BY CurIs
<1>5. RegionId \in Nat BY <1>4, GraphFacts DEF RegionId
<1>6. Append(loops, RegionId) \in Seq(Nat) BY <1>3, <1>5
<1>7. Len(fn.blocks) \in Nat /\ Blocks(fn) = 1..Len(fn.blocks) BY <1>4, GraphFacts
<1> QED BY <1>1, <1>2, <1>3, <1>4, <1>6, <1>7

\* BuildWhile keeps the invariant.
LEMMA WhileKeeps ==
  ASSUME BuildInv, BuildWhile
  PROVE  BuildInv' /\ Grows(fn, fn')
<1>1. agenda # <<>> /\ cur # NoBlock /\ Item.k = "while" /\ IsStatement(Item)
  BY DEF BuildWhile, Reached, Building, IsStatement
<1>2. PICK c, e : Start3(c, c, e) BY <1>1, Opening
<1>3. /\ Item \in Statements /\ GraphOk(fn) /\ cur \in OpenBlocks(fn) /\ LoopsOf(fn, cur) = loops
      /\ loops \in Seq(Nat) /\ Inside \in Seq(Nat)
      /\ Len(fn.blocks) \in Nat /\ Blocks(fn) = 1..Len(fn.blocks)
  BY <1>1, Opening DEF Inside
<1>4. AllSequential(Item.prelude) /\ Item.body \in Seq(Statements)
  BY <1>1, <1>3, StatementsAssumption, SimpleFacts DEF IsLoop, StatementLists
<1> DEFINE prelude == New(1)
           condition == New(2)
           body == New(3)
           exit == New(4)
           stacks == <<Inside, Inside, Inside, loops>>
           f1 == AddRegion(AddBlocks(fn, stacks), FALSE, condition, prelude, body, exit)
           f2 == JumpTo(f1, cur, prelude, "fallthrough")
           f3 == JumpTo(Emit(f2, prelude, Item.prelude), prelude, condition, "fallthrough")
           f4 == TestBlock(f3, condition, Item.cond, body, exit)
           item == [k |-> "endwhile", prelude |-> prelude, exit |-> exit]
           new == {prelude, condition, body, exit}
<1>5. /\ fn' = f4 /\ cur' = body /\ loops' = Inside
      /\ breaks' = Append(breaks, exit) /\ continues' = Append(continues, prelude)
      /\ agenda' = Item.body \o <<item>> \o Tail(agenda)
  BY DEF BuildWhile
<1>6. /\ prelude = Len(fn.blocks) + 1 /\ condition = Len(fn.blocks) + 2
      /\ body = Len(fn.blocks) + 3 /\ exit = Len(fn.blocks) + 4
  BY DEF New
<1>7. stacks \in Seq(Seq(Nat)) /\ Len(stacks) = 4 /\ stacks[1] = Inside /\ stacks[2] = Inside
      /\ stacks[3] = Inside /\ stacks[4] = loops
  BY <1>3
<1>8. item.k = "endwhile" /\ item.prelude = prelude /\ item.exit = exit OBVIOUS
<1> HIDE DEF prelude, condition, body, exit, stacks, item
<1>9. NewBlocks(fn, stacks) = new
  <2>1. 1..4 = {1, 2, 3, 4} OBVIOUS
  <2> QED BY <1>6, <1>7, <2>1 DEF NewBlocks
<1>10. /\ GraphOk(f1) /\ Grows(fn, f1) /\ OpenBlocks(f1) = OpenBlocks(fn) \cup new
       /\ LoopIn(f1, loops, RegionId, prelude, exit)
       /\ In(f1, condition, Inside) /\ In(f1, body, Inside)
       /\ RegionId \in Nat
  <2>1. GraphOk(fn) /\ stacks \in Seq(Seq(Nat)) BY <1>3, <1>7
  <2> HIDE DEF f1
  <2>2. Opened(fn, f1, stacks) /\ RegionIs(f1, RegionId, prelude, exit)
    BY <2>1, PretestMade DEF RegionId, f1
  <2>3. 1 \in 1..4 /\ 2 \in 1..4 /\ 3 \in 1..4 /\ 4 \in 1..4 OBVIOUS
  <2>4. In(f1, prelude, Inside) /\ In(f1, condition, Inside) /\ In(f1, body, Inside)
        /\ In(f1, exit, loops)
    BY <1>6, <1>7, <2>3, <2>2 DEF Opened
  <2> QED BY <1>9, <2>4, <2>2 DEF LoopIn, Inside, Opened, RegionIs
<1> HIDE DEF f1
<1>11. /\ new \cap Blocks(fn) = {}
       /\ prelude # condition /\ prelude # body /\ prelude # exit
       /\ condition # body /\ condition # exit /\ body # exit
  <2>1. new \cap Blocks(fn) = {} BY <1>3, <1>6
  <2>2. Len(fn.blocks) \in Nat BY <1>3
  <2>3. prelude # condition /\ prelude # body /\ prelude # exit BY <1>6, <2>2
  <2>4. condition # body /\ condition # exit /\ body # exit BY <1>6, <2>2
  <2> QED BY <2>1, <2>3, <2>4
<1>12. /\ GraphOk(f4) /\ Grows(f1, f4)
       /\ OpenBlocks(f4) = OpenBlocks(f1) \ {cur, prelude, condition}
  <2>1. LoopsOf(f1, cur) = loops /\ cur \in OpenBlocks(f1) /\ cur \in Blocks(fn)
    BY <1>3, <1>10 DEF Grows, OpenBlocks
  <2>2. new \subseteq OpenBlocks(f1) \ {cur} BY <1>10, <1>11, <2>1
  <2> QED BY <1>4, <1>10, <1>11, <2>1, <2>2, Pretested DEF Inside
<1> HIDE DEF f4
<1>13. Grows(fn, fn') /\ GraphOk(fn') BY <1>5, <1>10, <1>12, GrowsAlong
<1> DEFINE b == BodyCtx(c, RegionId, exit, prelude, {exit})
<1>14. /\ LoopIn(f4, loops, RegionId, prelude, exit) /\ In(f4, body, Inside)
  BY <1>10, <1>12, LoopInStays, InStays
<1>15. c.loops = loops /\ c.breaks = breaks /\ c.continues = continues
       /\ c.own \subseteq OpenBlocks(fn) /\ cur \notin c.own /\ Good(fn, c)
  BY <1>2 DEF Start3, Current
<1>16. Good(f4, b) /\ LeavesTo(f4, b, c, exit)
  <2>1. Good(f4, c) BY <1>5, <1>13, <1>15, GoodStays
  <2>2. Blocks(f4) \subseteq Nat BY <1>12, GraphFacts
  <2>3. prelude \in Entries(f4) /\ In(f4, prelude, Append(c.loops, RegionId))
        /\ In(f4, exit, c.loops) /\ RegionId \in DOMAIN f4.regions
        /\ f4.regions[RegionId].exit = exit
    BY <1>14, <1>15, LoopFlows DEF LoopIn
  <2>4. {exit} \subseteq Blocks(f4) BY <2>3 DEF In
  <2> QED BY <1>10, <2>1, <2>2, <2>3, <2>4, BodyCtxGood
<1>17. /\ b.loops = Inside /\ b.breaks = Append(breaks, exit)
       /\ b.continues = Append(continues, prelude) /\ b.own = {exit} \cup c.own
  BY <1>15 DEF BodyCtx, Ctx, Inside
<1> HIDE DEF b
<1>18. c.own \subseteq Blocks(fn) /\ exit \notin c.own /\ body \notin b.own
  BY <1>11, <1>15, <1>17 DEF OpenBlocks
<1>19. ItemOk(f4, item, b, c)
  <2>1. GivesUp(b, {item.exit}, c) BY <1>8, <1>17, <1>18 DEF GivesUp
  <2>2. item.prelude \in Entries(f4) /\ In(f4, item.prelude, b.loops)
    BY <1>8, <1>14, <1>17, LoopFlows DEF LoopIn, Inside
  <2>3. AtEndWhile(f4, item, b, c) BY <1>8, <1>16, <2>1, <2>2 DEF AtEndWhile
  <2> QED BY <2>3 DEF ItemOk
<1>20. b.own \subseteq OpenBlocks(f4) /\ body \in OpenBlocks(f4)
  <2>1. cur \in Blocks(fn) BY <1>3 DEF OpenBlocks
  <2>2. body # cur /\ exit # cur BY <1>11, <2>1
  <2>3. c.own \subseteq OpenBlocks(f4) BY <1>10, <1>11, <1>12, <1>15, <1>18
  <2> QED BY <1>10, <1>11, <1>12, <1>17, <2>2, <2>3
<1>21. BuildInv'
  BY <1>2, <1>4, <1>5, <1>13, <1>14, <1>16, <1>17, <1>18, <1>19, <1>20, LoopEntered DEF In
<1> QED BY <1>13, <1>21

\* BuildFor keeps the invariant.
LEMMA ForKeeps ==
  ASSUME BuildInv, BuildFor
  PROVE  BuildInv' /\ Grows(fn, fn')
<1>1. agenda # <<>> /\ cur # NoBlock /\ Item.k = "for" /\ IsStatement(Item)
  BY DEF BuildFor, Reached, Building, IsStatement
<1>2. PICK c, e : Start3(c, c, e) BY <1>1, Opening
<1>3. /\ Item \in Statements /\ GraphOk(fn) /\ cur \in OpenBlocks(fn) /\ LoopsOf(fn, cur) = loops
      /\ loops \in Seq(Nat) /\ Inside \in Seq(Nat)
      /\ Len(fn.blocks) \in Nat /\ Blocks(fn) = 1..Len(fn.blocks)
  BY <1>1, Opening DEF Inside
<1>4. /\ AllSequential(Item.prelude) /\ AllSequential(Item.init) /\ AllSequential(Item.step)
      /\ Item.body \in Seq(Statements)
  BY <1>1, <1>3, StatementsAssumption, SimpleFacts DEF IsLoop, StatementLists
<1> DEFINE prelude == New(1)
           condition == New(2)
           body == New(3)
           step == New(4)
           exit == New(5)
           stacks == <<Inside, Inside, Inside, Inside, loops>>
           g == Emit(fn, cur, Item.init)
           f1 == AddRegion(AddBlocks(g, stacks), FALSE, condition, prelude, body, exit)
           f2 == JumpTo(f1, cur, prelude, "fallthrough")
           f3 == JumpTo(Emit(f2, prelude, Item.prelude), prelude, condition, "fallthrough")
           f4 == TestBlock(f3, condition, Item.cond, body, exit)
           item == [k |-> "endfor", prelude |-> prelude, step |-> step, exit |-> exit,
                    stmts |-> Item.step]
           new == {prelude, condition, body, step, exit}
<1>5. /\ fn' = f4 /\ cur' = body /\ loops' = Inside
      /\ breaks' = Append(breaks, exit) /\ continues' = Append(continues, step)
      /\ agenda' = Item.body \o <<item>> \o Tail(agenda)
  BY DEF BuildFor, ContinueTarget
<1>6. /\ prelude = Len(fn.blocks) + 1 /\ condition = Len(fn.blocks) + 2
      /\ body = Len(fn.blocks) + 3 /\ step = Len(fn.blocks) + 4 /\ exit = Len(fn.blocks) + 5
  BY DEF New
<1>7. stacks \in Seq(Seq(Nat)) /\ Len(stacks) = 5 /\ stacks[1] = Inside /\ stacks[2] = Inside
      /\ stacks[3] = Inside /\ stacks[4] = Inside /\ stacks[5] = loops
  BY <1>3
<1>8. item.k = "endfor" /\ item.prelude = prelude /\ item.step = step /\ item.exit = exit
      /\ item.stmts = Item.step
  OBVIOUS
<1> HIDE DEF prelude, condition, body, step, exit, stacks, item
<1> HIDE DEF g
<1>9. /\ GraphOk(g) /\ Grows(fn, g) /\ OpenBlocks(g) = OpenBlocks(fn)
       /\ Len(g.blocks) = Len(fn.blocks) /\ g.regions = fn.regions
  BY <1>3, <1>4, Emitted DEF g
<1>10. NewBlocks(g, stacks) = new
  <2>1. 1..5 = {1, 2, 3, 4, 5} OBVIOUS
  <2> QED BY <1>6, <1>7, <1>9, <2>1 DEF NewBlocks
<1>11. /\ GraphOk(f1) /\ Grows(fn, f1) /\ OpenBlocks(f1) = OpenBlocks(fn) \cup new
       /\ LoopIn(f1, loops, RegionId, prelude, exit)
       /\ In(f1, condition, Inside) /\ In(f1, body, Inside) /\ In(f1, step, Inside)
       /\ RegionId \in Nat
  <2>1. GraphOk(g) /\ stacks \in Seq(Seq(Nat)) /\ RegionId = Len(g.regions) + 1
    BY <1>7, <1>9 DEF RegionId
  <2> HIDE DEF f1
  <2>2. Opened(g, f1, stacks) /\ RegionIs(f1, RegionId, prelude, exit)
    BY <2>1, PretestMade DEF f1
  <2>3. 1 \in 1..5 /\ 2 \in 1..5 /\ 3 \in 1..5 /\ 4 \in 1..5 /\ 5 \in 1..5 OBVIOUS
  <2>4. In(f1, prelude, Inside) /\ In(f1, condition, Inside) /\ In(f1, body, Inside)
        /\ In(f1, step, Inside) /\ In(f1, exit, loops)
    BY <1>6, <1>7, <1>9, <2>3, <2>2 DEF Opened
  <2>5. Grows(fn, f1) BY <1>9, <2>2, GrowsAlong DEF Opened
  <2> QED BY <1>10, <1>9, <2>4, <2>2, <2>5 DEF LoopIn, Inside, Opened, RegionIs
<1> HIDE DEF f1
<1>12. /\ new \cap Blocks(fn) = {}
       /\ prelude # condition /\ prelude # body /\ prelude # exit
       /\ condition # body /\ condition # exit /\ body # exit
       /\ step # prelude /\ step # condition /\ step # body /\ step # exit
  <2>1. new \cap Blocks(fn) = {} BY <1>3, <1>6
  <2>2. Len(fn.blocks) \in Nat BY <1>3
  <2>3. prelude # condition /\ prelude # body /\ prelude # exit BY <1>6, <2>2
  <2>4. condition # body /\ condition # exit /\ body # exit BY <1>6, <2>2
  <2>5. step # prelude /\ step # condition /\ step # body /\ step # exit BY <1>6, <2>2
  <2> QED BY <2>1, <2>3, <2>4, <2>5
<1>13. /\ GraphOk(f4) /\ Grows(f1, f4)
       /\ OpenBlocks(f4) = OpenBlocks(f1) \ {cur, prelude, condition}
  <2>1. LoopsOf(f1, cur) = loops /\ cur \in OpenBlocks(f1) /\ cur \in Blocks(fn)
    BY <1>3, <1>11 DEF Grows, OpenBlocks
  <2>2. new \subseteq OpenBlocks(f1) \ {cur} BY <1>11, <1>12, <2>1
  <2> QED BY <1>4, <1>11, <1>12, <2>1, <2>2, Pretested DEF Inside
<1> HIDE DEF f4
<1>14. Grows(fn, fn') /\ GraphOk(fn') BY <1>5, <1>11, <1>13, GrowsAlong
<1> DEFINE b == BodyCtx(c, RegionId, exit, step, {step, exit})
<1>15. /\ LoopIn(f4, loops, RegionId, prelude, exit) /\ In(f4, body, Inside)
       /\ In(f4, step, Inside)
  BY <1>11, <1>13, LoopInStays, InStays
<1>16. c.loops = loops /\ c.breaks = breaks /\ c.continues = continues
       /\ c.own \subseteq OpenBlocks(fn) /\ cur \notin c.own /\ Good(fn, c)
  BY <1>2 DEF Start3, Current
<1>17. Good(f4, b) /\ LeavesTo(f4, b, c, exit)
  <2>1. Good(f4, c) BY <1>5, <1>14, <1>16, GoodStays
  <2>2. Blocks(f4) \subseteq Nat BY <1>13, GraphFacts
  <2>3. In(f4, step, Append(c.loops, RegionId))
        /\ In(f4, exit, c.loops) /\ RegionId \in DOMAIN f4.regions
        /\ f4.regions[RegionId].exit = exit
    BY <1>15, <1>16 DEF LoopIn, Inside
  <2>4. {step, exit} \subseteq Blocks(f4) BY <2>3 DEF In
  <2> QED BY <1>11, <2>1, <2>2, <2>3, <2>4, BodyCtxGood
<1>18. /\ b.loops = Inside /\ b.breaks = Append(breaks, exit)
       /\ b.continues = Append(continues, step) /\ b.own = {step, exit} \cup c.own
  BY <1>16 DEF BodyCtx, Ctx, Inside
<1> HIDE DEF b
<1>19. c.own \subseteq Blocks(fn) /\ exit \notin c.own /\ step \notin c.own /\ body \notin b.own
  BY <1>12, <1>16, <1>18 DEF OpenBlocks
<1>20. ItemOk(f4, item, b, c)
  <2>1. GivesUp(b, {item.step, item.exit}, c) BY <1>8, <1>18, <1>19 DEF GivesUp
  <2>2. item.prelude \in Entries(f4) /\ In(f4, item.prelude, b.loops)
    BY <1>8, <1>15, <1>18, LoopFlows DEF LoopIn, Inside
  <2>3. AtEndFor(f4, item, b, c)
    BY <1>4, <1>8, <1>12, <1>15, <1>17, <1>18, <2>1, <2>2 DEF AtEndFor
  <2> QED BY <2>3 DEF ItemOk
<1>21. b.own \subseteq OpenBlocks(f4) /\ body \in OpenBlocks(f4)
  <2>1. cur \in Blocks(fn) BY <1>3 DEF OpenBlocks
  <2>2. body # cur /\ exit # cur /\ step # cur BY <1>12, <2>1
  <2>3. c.own \subseteq OpenBlocks(f4) BY <1>11, <1>12, <1>13, <1>16, <1>19
  <2> QED BY <1>11, <1>12, <1>13, <1>18, <2>2, <2>3
<1>22. BuildInv'
  BY <1>2, <1>4, <1>5, <1>14, <1>15, <1>17, <1>18, <1>19, <1>20, <1>21, LoopEntered DEF In
<1> QED BY <1>14, <1>22

\* BuildDoWhile keeps the invariant.
LEMMA DoWhileKeeps ==
  ASSUME BuildInv, BuildDoWhile
  PROVE  BuildInv' /\ Grows(fn, fn')
<1>1. agenda # <<>> /\ cur # NoBlock /\ Item.k = "do" /\ IsStatement(Item)
  BY DEF BuildDoWhile, Reached, Building, IsStatement
<1>2. PICK c, e : Start3(c, c, e) BY <1>1, Opening
<1>3. /\ Item \in Statements /\ GraphOk(fn) /\ cur \in OpenBlocks(fn) /\ LoopsOf(fn, cur) = loops
      /\ loops \in Seq(Nat) /\ Inside \in Seq(Nat)
      /\ Len(fn.blocks) \in Nat /\ Blocks(fn) = 1..Len(fn.blocks)
  BY <1>1, Opening DEF Inside
<1>4. AllSequential(Item.prelude) /\ Item.body \in Seq(Statements)
  BY <1>1, <1>3, StatementsAssumption, SimpleFacts DEF IsLoop, StatementLists
<1> DEFINE body == New(1)
           prelude == New(2)
           condition == New(3)
           exit == New(4)
           stacks == <<Inside, Inside, Inside, loops>>
           f1 == AddRegion(AddBlocks(fn, stacks), TRUE, condition, prelude, body, exit)
           f4 == JumpTo(f1, cur, body, "fallthrough")
           item == [k |-> "enddo", prelude |-> prelude, condition |-> condition,
                    body |-> body, exit |-> exit, loop |-> Item]
           new == {prelude, condition, body, exit}
<1>5. /\ fn' = f4 /\ cur' = body /\ loops' = Inside
      /\ breaks' = Append(breaks, exit) /\ continues' = Append(continues, prelude)
      /\ agenda' = Item.body \o <<item>> \o Tail(agenda)
  BY DEF BuildDoWhile
<1>6. /\ body = Len(fn.blocks) + 1 /\ prelude = Len(fn.blocks) + 2
      /\ condition = Len(fn.blocks) + 3 /\ exit = Len(fn.blocks) + 4
  BY DEF New
<1>7. stacks \in Seq(Seq(Nat)) /\ Len(stacks) = 4 /\ stacks[1] = Inside /\ stacks[2] = Inside
      /\ stacks[3] = Inside /\ stacks[4] = loops
  BY <1>3
<1>8. item.k = "enddo" /\ item.prelude = prelude /\ item.exit = exit
      /\ item.condition = condition /\ item.body = body /\ item.loop = Item
  OBVIOUS
<1> HIDE DEF prelude, condition, body, exit, stacks, item
<1>9. NewBlocks(fn, stacks) = new
  <2>1. 1..4 = {1, 2, 3, 4} OBVIOUS
  <2> QED BY <1>6, <1>7, <2>1 DEF NewBlocks
<1>10. /\ GraphOk(f1) /\ Grows(fn, f1) /\ OpenBlocks(f1) = OpenBlocks(fn) \cup new
       /\ LoopIn(f1, loops, RegionId, body, exit)
       /\ In(f1, condition, Inside) /\ In(f1, prelude, Inside)
       /\ RegionId \in Nat
  <2>1. GraphOk(fn) /\ stacks \in Seq(Seq(Nat)) BY <1>3, <1>7
  <2> HIDE DEF f1
  <2>2. Opened(fn, f1, stacks) /\ RegionIs(f1, RegionId, body, exit)
    BY <2>1, PosttestMade DEF RegionId, f1
  <2>3. 1 \in 1..4 /\ 2 \in 1..4 /\ 3 \in 1..4 /\ 4 \in 1..4 OBVIOUS
  <2>4. In(f1, prelude, Inside) /\ In(f1, condition, Inside) /\ In(f1, body, Inside)
        /\ In(f1, exit, loops)
    BY <1>6, <1>7, <2>3, <2>2 DEF Opened
  <2> QED BY <1>9, <2>4, <2>2 DEF LoopIn, Inside, Opened, RegionIs
<1> HIDE DEF f1
<1>11. /\ new \cap Blocks(fn) = {}
       /\ prelude # condition /\ prelude # body /\ prelude # exit
       /\ condition # body /\ condition # exit /\ body # exit
  <2>1. new \cap Blocks(fn) = {} BY <1>3, <1>6
  <2>2. Len(fn.blocks) \in Nat BY <1>3
  <2>3. prelude # condition /\ prelude # body /\ prelude # exit BY <1>6, <2>2
  <2>4. condition # body /\ condition # exit /\ body # exit BY <1>6, <2>2
  <2> QED BY <2>1, <2>3, <2>4
<1>12. /\ GraphOk(f4) /\ Grows(f1, f4)
       /\ OpenBlocks(f4) = OpenBlocks(f1) \ {cur}
  <2>1. LoopsOf(f1, cur) = loops /\ cur \in OpenBlocks(f1) /\ cur \in Blocks(fn)
    BY <1>3, <1>10 DEF Grows, OpenBlocks
  <2>2. body \in OpenBlocks(f1) \ {cur} BY <1>10, <1>11, <2>1
  <2>3. Flow(f1, loops, body) BY <1>10, LoopFlows
  <2>4. MayGo(f1, cur, body) BY <2>1, <2>2, <2>3 DEF MayGo, OpenBlocks
  <2>5. GraphOk(f1) /\ cur \in OpenBlocks(f1) /\ MayGo(f1, cur, body) BY <1>10, <2>1, <2>4
  <2>6. GraphOk(JumpTo(f1, cur, body, "fallthrough")) BY <2>5, Jumped
  <2>7. Grows(f1, JumpTo(f1, cur, body, "fallthrough")) BY <2>5, Jumped
  <2>8. OpenBlocks(JumpTo(f1, cur, body, "fallthrough")) = OpenBlocks(f1) \ {cur}
    BY <2>5, Jumped
  <2> QED BY <2>6, <2>7, <2>8
<1> HIDE DEF f4
<1>13. Grows(fn, fn') /\ GraphOk(fn') BY <1>5, <1>10, <1>12, GrowsAlong
<1> DEFINE b == BodyCtx(c, RegionId, exit, prelude, {prelude, condition, exit})
<1>14. /\ LoopIn(f4, loops, RegionId, body, exit) /\ In(f4, prelude, Inside)
       /\ In(f4, condition, Inside)
  BY <1>10, <1>12, LoopInStays, InStays
<1>15. c.loops = loops /\ c.breaks = breaks /\ c.continues = continues
       /\ c.own \subseteq OpenBlocks(fn) /\ cur \notin c.own /\ Good(fn, c)
  BY <1>2 DEF Start3, Current
<1>16. Good(f4, b) /\ LeavesTo(f4, b, c, exit)
  <2>1. Good(f4, c) BY <1>5, <1>13, <1>15, GoodStays
  <2>2. Blocks(f4) \subseteq Nat BY <1>12, GraphFacts
  <2>3. In(f4, prelude, Append(c.loops, RegionId))
        /\ In(f4, exit, c.loops) /\ RegionId \in DOMAIN f4.regions
        /\ f4.regions[RegionId].exit = exit
    BY <1>14, <1>15 DEF LoopIn, Inside
  <2>4. {prelude, condition, exit} \subseteq Blocks(f4) BY <1>14, <2>3 DEF In
  <2> QED BY <1>10, <2>1, <2>2, <2>3, <2>4, BodyCtxGood
<1>17. /\ b.loops = Inside /\ b.breaks = Append(breaks, exit)
       /\ b.continues = Append(continues, prelude) /\ b.own = {prelude, condition, exit} \cup c.own
  BY <1>15 DEF BodyCtx, Ctx, Inside
<1> HIDE DEF b
<1>18. c.own \subseteq Blocks(fn) /\ exit \notin c.own /\ prelude \notin c.own
       /\ condition \notin c.own /\ body \notin b.own
  BY <1>11, <1>15, <1>17 DEF OpenBlocks
<1>19. ItemOk(f4, item, b, c)
  <2>1. GivesUp(b, {item.prelude, item.condition, item.exit}, c)
    BY <1>8, <1>17, <1>18 DEF GivesUp
  <2>2. item.body \in Entries(f4) /\ In(f4, item.body, b.loops)
    BY <1>8, <1>14, <1>17, LoopFlows DEF LoopIn, Inside
  <2>3. AtEndDo(f4, item, b, c)
    BY <1>4, <1>8, <1>11, <1>14, <1>16, <1>17, <2>1, <2>2 DEF AtEndDo
  <2> QED BY <2>3 DEF ItemOk
<1>20. b.own \subseteq OpenBlocks(f4) /\ body \in OpenBlocks(f4)
  <2>1. cur \in Blocks(fn) BY <1>3 DEF OpenBlocks
  <2>2. new \cap {cur} = {} BY <1>11, <2>1
  <2>3. c.own \subseteq OpenBlocks(f4) BY <1>10, <1>11, <1>12, <1>15, <1>18
  <2> QED BY <1>10, <1>11, <1>12, <1>17, <2>2, <2>3
<1>21. BuildInv'
  <2>1. LoopsOf(f4, body) = b.loops BY <1>14, <1>17 DEF LoopIn, In, Inside
  <2> QED
    BY <1>2, <1>4, <1>5, <1>13, <1>16, <1>17, <1>18, <1>19, <1>20, <2>1, LoopEntered
<1> QED BY <1>13, <1>21

\* A handler ends in the context its new agenda starts from.
LEMMA Entered ==
  ASSUME GraphOk(fn'), NEW c, NEW e, Segment(fn', agenda', c, e),
         loops' = c.loops, breaks' = c.breaks, continues' = c.continues,
         c.own \subseteq OpenBlocks(fn'), cur' \notin c.own,
         cur' # NoBlock => cur' \in OpenBlocks(fn') /\ LoopsOf(fn', cur') = loops'
  PROVE  BuildInv'
<1>1. Current(c)' BY DEF Current
<1>2. CurOk' BY DEF CurOk
<1> QED BY <1>1, <1>2, Rebuilt

\* AddBlocks opens blocks.
LEMMA BlocksOpened ==
  ASSUME NEW f, GraphOk(f), NEW stacks \in Seq(Seq(Nat))
  PROVE  Opened(f, AddBlocks(f, stacks), stacks)
<1> DEFINE f2 == AddBlocks(f, stacks)
<1>1. /\ GraphOk(f2) /\ Grows(f, f2) /\ Len(f2.blocks) = Len(f.blocks) + Len(stacks)
      /\ OpenBlocks(f2) = OpenBlocks(f) \cup {Len(f.blocks) + i : i \in 1..Len(stacks)}
      /\ \A i \in 1..Len(stacks) : LoopsOf(f2, Len(f.blocks) + i) = stacks[i]
  BY BlocksAdded
<1> HIDE DEF f2
<1>2. OpenBlocks(f2) = OpenBlocks(f) \cup NewBlocks(f, stacks) BY <1>1 DEF NewBlocks
<1>3. ASSUME NEW i \in 1..Len(stacks) PROVE In(f2, Len(f.blocks) + i, stacks[i])
  <2>1. Len(f.blocks) + i \in OpenBlocks(f2) BY <1>1
  <2> QED BY <1>1, <2>1 DEF In, OpenBlocks
<1>4. Opened(f, f2, stacks) BY <1>1, <1>2, <1>3 DEF Opened
<1> QED BY <1>4 DEF f2

\* BuildIf keeps the invariant.
LEMMA IfKeeps ==
  ASSUME BuildInv, BuildIf
  PROVE  BuildInv' /\ Grows(fn, fn')
<1>1. agenda # <<>> /\ cur # NoBlock /\ Item.k = "if" /\ IsStatement(Item)
  BY DEF BuildIf, Reached, Building, IsStatement
<1>2. PICK c, e : Start3(c, c, e) BY <1>1, Opening
<1>3. /\ Item \in Statements /\ GraphOk(fn) /\ cur \in OpenBlocks(fn) /\ LoopsOf(fn, cur) = loops
      /\ loops \in Seq(Nat)
      /\ Len(fn.blocks) \in Nat /\ Blocks(fn) = 1..Len(fn.blocks)
  BY <1>1, Opening
<1>4. Item.yes \in Seq(Statements) /\ Item.no \in Seq(Statements)
  BY <1>1, <1>3, StatementsAssumption DEF StatementLists
<1> DEFINE yes == New(1)
           no == New(2)
           merge == New(3)
           stacks == <<loops, loops, loops>>
           f1 == AddBlocks(fn, stacks)
           t == Branch(Item.cond, yes, no)
           f2 == Terminate(f1, cur, t, <<"true", "false">>)
           then == [k |-> "endthen", merge |-> merge, no |-> no]
           else == [k |-> "endelse", merge |-> merge]
<1>5. /\ fn' = f2 /\ cur' = yes /\ UNCHANGED <<loops, breaks, continues>>
      /\ agenda' = Item.yes \o <<then>> \o Item.no \o <<else>> \o Tail(agenda)
  BY DEF BuildIf
<1>6. yes = Len(fn.blocks) + 1 /\ no = Len(fn.blocks) + 2 /\ merge = Len(fn.blocks) + 3
  BY DEF New
<1>7. /\ stacks \in Seq(Seq(Nat)) /\ Len(stacks) = 3
      /\ stacks[1] = loops /\ stacks[2] = loops /\ stacks[3] = loops
  BY <1>3
<1>8. /\ then.k = "endthen" /\ then.merge = merge /\ then.no = no
      /\ else.k = "endelse" /\ else.merge = merge
  OBVIOUS
<1>9. t.kind = "branch" /\ t.to = <<yes, no>> BY BranchFacts
<1> HIDE DEF yes, no, merge, stacks, then, else, t
<1>10. NewBlocks(fn, stacks) = {yes, no, merge}
  <2>1. 1..3 = {1, 2, 3} OBVIOUS
  <2> QED BY <1>6, <1>7, <2>1 DEF NewBlocks
<1>11. /\ GraphOk(f1) /\ Grows(fn, f1) /\ OpenBlocks(f1) = OpenBlocks(fn) \cup {yes, no, merge}
       /\ In(f1, yes, loops) /\ In(f1, no, loops) /\ In(f1, merge, loops)
  <2>1. Opened(fn, f1, stacks) BY <1>3, <1>7, BlocksOpened
  <2> HIDE DEF f1
  <2>2. 1 \in 1..3 /\ 2 \in 1..3 /\ 3 \in 1..3 OBVIOUS
  <2> QED BY <1>6, <1>7, <1>10, <2>1, <2>2 DEF Opened
<1> HIDE DEF f1
<1>12. {yes, no, merge} \cap Blocks(fn) = {} /\ yes # no /\ yes # merge /\ no # merge
       /\ cur \in Blocks(fn)
  BY <1>3, <1>6 DEF OpenBlocks
<1>13. /\ GraphOk(f2) /\ Grows(f1, f2) /\ OpenBlocks(f2) = OpenBlocks(f1) \ {cur}
  <2>1. LoopsOf(f1, cur) = loops /\ cur \in OpenBlocks(f1)
    BY <1>3, <1>11, <1>12 DEF Grows
  <2>2. MayGo(f1, cur, yes) /\ MayGo(f1, cur, no)
    BY <1>11, <1>12, <2>1 DEF MayGo, In, Flow
  <2>3. yes \in Blocks(f1) /\ no \in Blocks(f1) BY <2>2 DEF MayGo
  <2>4. ToSet(t.to) = {yes, no} BY <1>9 DEF ToSet
  <2>5. Ends(f1, cur, t) BY <1>9, <2>2, <2>3, <2>4 DEF Ends
  <2> QED BY <1>11, <2>1, <2>5, Terminated
<1> HIDE DEF f2
<1>14. Grows(fn, fn') /\ GraphOk(fn') BY <1>5, <1>11, <1>13, GrowsAlong
<1> DEFINE c1 == Ctx(c.loops, c.breaks, c.continues, {merge} \cup c.own)
           c2 == Ctx(c.loops, c.breaks, c.continues, {no, merge} \cup c.own)
<1>15. c.loops = loops /\ c.breaks = breaks /\ c.continues = continues
       /\ c.own \subseteq OpenBlocks(fn) /\ cur \notin c.own /\ Good(fn, c)
  BY <1>2 DEF Start3, Current
<1>16. /\ Keeps(c, c1) /\ Keeps(c, c2) /\ Keeps(c1, c) /\ Keeps(c2, c1)
       /\ c1.own = {merge} \cup c.own /\ c2.own = {no, merge} \cup c.own
       /\ c1.loops = loops /\ c2.loops = loops /\ c2.breaks = breaks /\ c2.continues = continues
  BY <1>15, CtxFacts DEF Keeps
<1> HIDE DEF c1, c2
<1>17. In(f2, yes, loops) /\ In(f2, no, loops) /\ In(f2, merge, loops)
  BY <1>11, <1>13, InStays
<1>18. c.own \subseteq Blocks(fn) /\ {yes, no, merge} \cap c.own = {}
  BY <1>12, <1>15 DEF OpenBlocks
<1>19. c.own \cup {yes, no, merge} \subseteq OpenBlocks(f2)
  BY <1>11, <1>12, <1>13, <1>15
<1>20. Good(f2, c) /\ Good(f2, c1) /\ Good(f2, c2)
  <2>1. Good(f2, c) BY <1>5, <1>14, <1>15, GoodStays
  <2>2. c1.own \subseteq Blocks(f2) /\ c2.own \subseteq Blocks(f2)
    BY <1>16, <1>19 DEF OpenBlocks
  <2>3. Good(f2, c1) BY <1>16, <2>1, <2>2, GoodWidens
  <2>4. Good(f2, c2) BY <1>16, <2>1, <2>2, GoodWidens
  <2> QED BY <2>1, <2>3, <2>4
<1>21. ItemOk(f2, then, c2, c1)
  <2>1. GivesUp(c2, {then.no}, c1) BY <1>8, <1>12, <1>16, <1>18 DEF GivesUp
  <2>2. AtEndThen(f2, then, c2, c1) BY <1>8, <1>16, <1>17, <2>1 DEF AtEndThen
  <2> QED BY <2>2 DEF ItemOk
<1>22. ItemOk(f2, else, c1, c)
  <2>1. GivesUp(c1, {else.merge}, c) BY <1>8, <1>16, <1>18 DEF GivesUp
  <2>2. AtEndElse(f2, else, c1, c) BY <1>8, <1>16, <1>17, <2>1 DEF AtEndElse
  <2> QED BY <2>2 DEF ItemOk
<1>23. Segment(f2, agenda', c2, e)
  <2>1. Segment(f2, Item.yes, c2, c2) /\ Segment(f2, Item.no, c1, c1)
    BY <1>4, <1>20, BodySegment
  <2>2. Segment(f2, <<then>>, c2, c1) /\ Segment(f2, <<else>>, c1, c)
    BY <1>20, <1>21, <1>22, ItemSegment
  <2>3. Segment(f2, Tail(agenda), c, e) BY <1>2, <1>5, <1>14, SegmentStays DEF Start3
  <2>4. Segment(f2, Item.yes \o <<then>>, c2, c1) BY <2>1, <2>2, SegmentsJoin
  <2>5. Segment(f2, Item.yes \o <<then>> \o Item.no, c2, c1) BY <2>1, <2>4, SegmentsJoin
  <2>6. Segment(f2, Item.yes \o <<then>> \o Item.no \o <<else>>, c2, c)
    BY <2>2, <2>5, SegmentsJoin
  <2> QED BY <1>5, <2>3, <2>6, SegmentsJoin
<1>24. yes \notin c2.own /\ c2.own \subseteq OpenBlocks(f2) BY <1>12, <1>16, <1>18, <1>19
<1>25. yes \in OpenBlocks(f2) /\ LoopsOf(f2, yes) = loops BY <1>17, <1>19 DEF In
<1>26. BuildInv' BY <1>5, <1>14, <1>16, <1>23, <1>24, <1>25, Entered
<1> QED BY <1>14, <1>26

-----------------------------------------------------------------------------
(* The clauses of a switch *)

\* Valued lists positions of clauses.
LEMMA ValuedFacts ==
  ASSUME NEW clauses, IsSeq(clauses)
  PROVE  Valued(clauses) \in Seq(1..Len(clauses))
<1> DEFINE n == Len(clauses)
           seq == [i \in DOMAIN clauses |-> i]
           A == Seq(1..n)
           op(a, i) == IF clauses[i].value = <<>> THEN a ELSE Append(a, i)
           body(f) == [s \in SUBSET DOMAIN seq |->
                         IF s = {} THEN <<>> ELSE op(f[s \ {Max(s)}], seq[Max(s)])]
           it == CHOOSE f : f = body(f)
           F == [k \in 1..n |-> [a \in A |-> op(a, k)]]
<1>1. Valued(clauses) = it[DOMAIN seq]
  BY DEF Valued, FoldLeftDomain, FoldLeft, MapThenFoldSet
<1>2. n \in Nat /\ DOMAIN seq = 1..n /\ \A i \in 1..n : seq[i] = i BY SeqFacts
<1>3. <<>> \in A OBVIOUS
<1> HIDE DEF n, seq
<1>4. ASSUME NEW a \in A, NEW k \in 1..n PROVE op(a, k) \in A
  <2>1. Append(a, k) \in A OBVIOUS
  <2> HIDE DEF A
  <2> QED BY <2>1
<1> HIDE DEF op, A
<1>5. F \in [1..n -> [A -> A]] BY <1>4
<1>6. \A k \in 1..n : \A a \in A : F[k][a] = op(a, k) OBVIOUS
<1> HIDE DEF F
<1>7. PICK f : Folds(f, F, <<>>, n, A)
  BY <1>2, <1>3, <1>5, FoldEquation
<1>8. f = body(f)
  <2>1. f = [s \in SUBSET (1..n) |-> f[s]] /\ f[{}] = <<>> BY <1>7 DEF Folds
  <2>2. ASSUME NEW s \in SUBSET (1..n), s # {}
        PROVE  f[s] = op(f[s \ {Max(s)}], seq[Max(s)])
    <3>1. /\ Max(s) \in 1..n /\ f[s \ {Max(s)}] \in A
          /\ f[s] = F[Max(s)][f[s \ {Max(s)}]]
      BY <1>7, <2>2 DEF Folds
    <3> QED BY <1>2, <1>6, <3>1
  <2>3. f = [s \in SUBSET (1..n) |->
               IF s = {} THEN <<>> ELSE op(f[s \ {Max(s)}], seq[Max(s)])]
    BY <2>1, <2>2
  <2> QED BY <1>2, <2>3
<1>9. it = body(it) BY <1>8
<1> HIDE DEF it
<1>10. \A s \in SUBSET (1..n) :
         it[s] = IF s = {} THEN <<>> ELSE op(it[s \ {Max(s)}], seq[Max(s)])
  BY <1>2, <1>9
<1> HIDE DEF body
<1>11. Unfolds(it, F, <<>>, n, A)
  <2>1. it[{}] = <<>>
    <3>1. {} \in SUBSET (1..n) OBVIOUS
    <3> QED BY <1>10, <3>1
  <2>2. ASSUME NEW s \in SUBSET (1..n), s # {}, it[s \ {Max(s)}] \in A
        PROVE  it[s] = F[Max(s)][it[s \ {Max(s)}]]
    <3>1. Max(s) \in 1..n BY <1>2, <2>2, MaxOfPositions
    <3>2. it[s] = op(it[s \ {Max(s)}], seq[Max(s)]) BY <1>10, <2>2
    <3> QED BY <1>2, <1>6, <2>2, <3>1, <3>2
  <2> QED BY <2>1, <2>2 DEF Unfolds
<1>12. \A k \in 0..n : it[1..k] \in A
  BY <1>2, <1>3, <1>5, <1>11, FoldRuns
<1>13. Valued(clauses) \in A BY <1>1, <1>2, <1>12
<1> QED BY <1>13 DEF A, n

\* The marker that starts a clause.
CaseMark(b) == [k |-> "case", block |-> b]

\* The bodies of the clauses, each in the context its mark opens.
LEMMA ClausesSegment ==
  ASSUME NEW f, NEW clauses, IsSeq(clauses), NEW exit, NEW C,
         \A i \in DOMAIN clauses : clauses[i].body \in Seq(Statements),
         \A i \in 0..Len(clauses) : Good(f, C[i]),
         \A i \in 1..Len(clauses) : AtCase(f, CaseMark(exit + i), C[i - 1], C[i])
  PROVE  Segment(f, ClauseItems(clauses, exit), C[0], C[Len(clauses)])
<1> DEFINE n == Len(clauses)
           seq == [i \in DOMAIN clauses |-> i]
           X == Statements \cup {CaseMark(exit + i) : i \in 1..n}
           A == Seq(X)
           piece(i) == <<CaseMark(exit + i)>> \o clauses[i].body
           op(a, i) == a \o piece(i)
           body(g) == [s \in SUBSET DOMAIN seq |->
                         IF s = {} THEN <<>> ELSE op(g[s \ {Max(s)}], seq[Max(s)])]
           it == CHOOSE g : g = body(g)
           F == [k \in 1..n |-> [a \in A |-> op(a, k)]]
<1>1. ClauseItems(clauses, exit) = it[DOMAIN seq]
  BY DEF ClauseItems, FoldLeftDomain, FoldLeft, MapThenFoldSet, CaseMark
<1>2. n \in Nat /\ DOMAIN seq = 1..n /\ (\A i \in 1..n : seq[i] = i) /\ DOMAIN clauses = 1..n
  BY SeqFacts
<1>3. <<>> \in A OBVIOUS
<1> HIDE DEF n, seq
<1>4. ASSUME NEW a \in A, NEW k \in 1..n PROVE op(a, k) \in A
  <2>1. CaseMark(exit + k) \in X /\ clauses[k].body \in Seq(Statements) BY <1>2
  <2>2. <<CaseMark(exit + k)>> \in Seq(X) BY <2>1
  <2>3. clauses[k].body \in Seq(X) BY <2>1
  <2> HIDE DEF X
  <2>4. piece(k) \in Seq(X) BY <2>2, <2>3
  <2> QED BY <2>4
<1>5. ASSUME NEW k \in 1..n PROVE Segment(f, piece(k), C[k - 1], C[k])
  <2>1. k - 1 \in 0..n /\ k \in 0..n BY <1>2
  <2>2. Good(f, C[k - 1]) /\ Good(f, C[k]) /\ AtCase(f, CaseMark(exit + k), C[k - 1], C[k])
    BY <2>1 DEF n
  <2>3. ItemOk(f, CaseMark(exit + k), C[k - 1], C[k]) BY <2>2 DEF ItemOk
  <2>4. Segment(f, <<CaseMark(exit + k)>>, C[k - 1], C[k]) BY <2>2, <2>3, ItemSegment
  <2>5. clauses[k].body \in Seq(Statements) BY <1>2
  <2>6. Segment(f, clauses[k].body, C[k], C[k]) BY <2>2, <2>5, BodySegment
  <2> QED BY <2>4, <2>6, SegmentsJoin
<1> HIDE DEF piece, X, A
<1>6. F \in [1..n -> [A -> A]] BY <1>4
<1>7. \A k \in 1..n : \A a \in A : F[k][a] = op(a, k) OBVIOUS
<1> HIDE DEF F
<1> HIDE DEF op
<1>8. PICK g : Folds(g, F, <<>>, n, A)
  BY <1>2, <1>3, <1>6, FoldEquation
<1>9. g = body(g)
  <2>1. g = [s \in SUBSET (1..n) |-> g[s]] /\ g[{}] = <<>> BY <1>8 DEF Folds
  <2>2. ASSUME NEW s \in SUBSET (1..n), s # {}
        PROVE  g[s] = op(g[s \ {Max(s)}], seq[Max(s)])
    <3>1. /\ Max(s) \in 1..n /\ g[s \ {Max(s)}] \in A
          /\ g[s] = F[Max(s)][g[s \ {Max(s)}]]
      BY <1>8, <2>2 DEF Folds
    <3> QED BY <1>2, <1>7, <3>1
  <2>3. g = [s \in SUBSET (1..n) |->
               IF s = {} THEN <<>> ELSE op(g[s \ {Max(s)}], seq[Max(s)])]
    BY <2>1, <2>2
  <2> QED BY <1>2, <2>3
<1>10. it = body(it) BY <1>9
<1> HIDE DEF it
<1>11. \A s \in SUBSET (1..n) :
         it[s] = IF s = {} THEN <<>> ELSE op(it[s \ {Max(s)}], seq[Max(s)])
  BY <1>2, <1>10
<1> HIDE DEF body
<1>12. Unfolds(it, F, <<>>, n, A)
  <2>1. it[{}] = <<>>
    <3>1. {} \in SUBSET (1..n) OBVIOUS
    <3> QED BY <1>11, <3>1
  <2>2. ASSUME NEW s \in SUBSET (1..n), s # {}, it[s \ {Max(s)}] \in A
        PROVE  it[s] = F[Max(s)][it[s \ {Max(s)}]]
    <3>1. Max(s) \in 1..n BY <1>2, <2>2, MaxOfPositions
    <3>2. it[s] = op(it[s \ {Max(s)}], seq[Max(s)]) BY <1>11, <2>2
    <3> QED BY <1>2, <1>7, <2>2, <3>1, <3>2
  <2> QED BY <2>1, <2>2 DEF Unfolds
<1>13. /\ it[1..0] = <<>>
       /\ \A k \in 0..n : it[1..k] \in A
       /\ \A k \in 1..n : it[1..k] = F[k][it[1..(k - 1)]]
  BY <1>2, <1>3, <1>6, <1>12, FoldRuns
<1>14. \A k \in 1..n : it[1..k] = it[1..(k - 1)] \o piece(k)
  <2> TAKE k \in 1..n
  <2>1. k - 1 \in 0..n BY <1>2
  <2>2. it[1..k] = F[k][it[1..(k - 1)]] /\ it[1..(k - 1)] \in A BY <1>13, <2>1
  <2>3. it[1..k] = op(it[1..(k - 1)], k) BY <1>7, <2>2
  <2> QED BY <2>3 DEF op
<1> DEFINE T == {k \in Nat : k <= n => Segment(f, it[1..k], C[0], C[k])}
<1>15. 0 \in T
  <2>1. 0 \in 0..n BY <1>2
  <2>2. Good(f, C[0]) BY <2>1 DEF n
  <2>3. <<>> \in Seq(Statements) OBVIOUS
  <2>4. Segment(f, <<>>, C[0], C[0]) BY <2>2, <2>3, BodySegment
  <2> QED BY <1>13, <2>4
<1>16. ASSUME NEW k \in Nat, k \in T PROVE k + 1 \in T
  <2> SUFFICES ASSUME k + 1 <= n PROVE Segment(f, it[1..(k + 1)], C[0], C[k + 1])
    OBVIOUS
  <2>1. Segment(f, it[1..k], C[0], C[k]) /\ k + 1 \in 1..n /\ (k + 1) - 1 = k BY <1>2, <1>16
  <2>2. Segment(f, piece(k + 1), C[(k + 1) - 1], C[k + 1]) BY <1>5, <2>1
  <2>3. Segment(f, piece(k + 1), C[k], C[k + 1]) BY <2>1, <2>2
  <2>4. it[1..(k + 1)] = it[1..((k + 1) - 1)] \o piece(k + 1) BY <1>14, <2>1
  <2>5. it[1..(k + 1)] = it[1..k] \o piece(k + 1) BY <2>1, <2>4
  <2> QED BY <2>1, <2>3, <2>5, SegmentsJoin
<1> HIDE DEF T
<1>17. n \in T BY <1>2, <1>15, <1>16, InductiveSet
<1>18. Segment(f, it[1..n], C[0], C[n]) BY <1>2, <1>17 DEF T
<1> QED BY <1>1, <1>2, <1>18 DEF n

\* The default goes to a clause block, or to the exit.
LEMMA DefaultFacts ==
  ASSUME NEW clauses, IsSeq(clauses), NEW exit \in Nat
  PROVE  \E j \in 0..Len(clauses) : DefaultTarget(clauses, exit) = exit + j
<1> DEFINE defaults == {i \in DOMAIN clauses : clauses[i].value = <<>>}
<1>1. Len(clauses) \in Nat /\ DOMAIN clauses = 1..Len(clauses) BY SeqFacts
<1>2. defaults \in SUBSET Nat /\ defaults \subseteq 1..Len(clauses) BY <1>1
<1>3. DefaultTarget(clauses, exit) = IF defaults = {} THEN exit ELSE exit + Min(defaults)
  BY DEF DefaultTarget
<1> HIDE DEF defaults
<1>4. CASE defaults = {}
  <2>1. 0 \in 0..Len(clauses) /\ exit = exit + 0 BY <1>1
  <2> QED BY <1>3, <1>4, <2>1
<1>5. CASE defaults # {}
  <2>1. Min(defaults) \in defaults BY <1>2, <1>5, MinIsLeast
  <2> DEFINE m == Min(defaults)
             n == Len(clauses)
  <2> HIDE DEF m, n
  <2>2. m \in 1..n /\ n \in Nat BY <1>1, <1>2, <2>1 DEF m, n
  <2>3. m \in 0..n BY <2>2
  <2>4. Min(defaults) \in 0..Len(clauses) BY <2>3 DEF m, n
  <2> QED BY <1>3, <1>5, <2>4
<1> QED BY <1>4, <1>5

\* The targets of a switch.
LEMMA SwitchFacts ==
  \A on, vals, to : Switch(on, vals, to).kind = "switch" /\ Switch(on, vals, to).to = to
BY DEF Switch

\* The numbers of the blocks of a switch, from the one before the exit and
\* from the exit.
LEMMA Shifted ==
  ASSUME NEW n \in Nat, NEW count \in Nat
  PROVE  /\ \A j \in 0..count : j + 1 \in 1..(count + 1) /\ (n + 1) + j = n + (j + 1)
         /\ \A i \in 1..(count + 1) : i - 1 \in 0..count /\ n + i = (n + 1) + (i - 1)
OBVIOUS

\* The block numbers of the clauses in a list of clauses.
LEMMA Moved ==
  ASSUME NEW count \in Nat, NEW exit, NEW N, NEW s \in Seq(1..count),
         \A i \in 1..count : exit + i \in N
  PROVE  [i \in DOMAIN s |-> exit + s[i]] \in Seq(N)
<1>1. \A i \in 1..Len(s) : s[i] \in 1..count OBVIOUS
<1>2. \A i \in 1..Len(s) : exit + s[i] \in N BY <1>1
<1>3. DOMAIN s = 1..Len(s) /\ Len(s) \in Nat OBVIOUS
<1>4. [i \in 1..Len(s) |-> exit + s[i]] \in [1..Len(s) -> N] BY <1>2
<1> QED BY <1>3, <1>4

\* BuildSwitch keeps the invariant.
LEMMA SwitchKeeps ==
  ASSUME BuildInv, BuildSwitch
  PROVE  BuildInv' /\ Grows(fn, fn')
<1>1. agenda # <<>> /\ cur # NoBlock /\ Item.k = "switch" /\ IsStatement(Item)
  BY DEF BuildSwitch, Reached, Building, IsStatement
<1>2. PICK c, e : Start3(c, c, e) BY <1>1, Opening
<1>3. /\ Item \in Statements /\ GraphOk(fn) /\ cur \in OpenBlocks(fn) /\ LoopsOf(fn, cur) = loops
      /\ loops \in Seq(Nat)
      /\ Len(fn.blocks) \in Nat /\ Blocks(fn) = 1..Len(fn.blocks)
  BY <1>1, Opening
<1> DEFINE clauses == Item.clauses
           count == Len(Item.clauses)
           exit == New(1)
           valued == Valued(clauses)
           vals == [i \in DOMAIN valued |-> clauses[valued[i]].value[1]]
           to == [i \in DOMAIN valued |-> exit + valued[i]]
           stacks == [i \in 1..count + 1 |-> loops]
           f1 == AddBlocks(fn, stacks)
           t == Switch(Item.on, vals, Append(to, DefaultTarget(clauses, exit)))
           kinds == [i \in 1..Len(to) + 1 |-> IF i > Len(to) THEN "default" ELSE "case"]
           f2 == Terminate(f1, cur, t, kinds)
           item == [k |-> "endswitch", exit |-> exit]
           new == {exit + j : j \in 0..count}
<1>4. /\ fn' = f2 /\ cur' = NoBlock /\ UNCHANGED <<loops, continues>>
      /\ breaks' = Append(breaks, exit)
      /\ agenda' = ClauseItems(clauses, exit) \o <<item>> \o Tail(agenda)
  BY DEF BuildSwitch
<1>5. /\ IsSeq(clauses) /\ count \in Nat /\ count = Len(clauses) /\ DOMAIN clauses = 1..count
      /\ \A i \in DOMAIN clauses : clauses[i].body \in Seq(Statements)
  <2>1. /\ clauses \in Seq(ToSet(clauses))
        /\ \A x \in ToSet(clauses) : x.body \in Seq(Statements)
    BY <1>1, <1>3, StatementsAssumption DEF StatementLists
  <2> HIDE DEF clauses
  <2>2. IsSeq(clauses) BY <2>1, SeqOver
  <2>3. Len(clauses) \in Nat /\ DOMAIN clauses = 1..Len(clauses)
        /\ ToSet(clauses) = {clauses[i] : i \in 1..Len(clauses)}
    BY <2>2, SeqFacts
  <2> QED BY <2>1, <2>2, <2>3 DEF clauses
<1>6. exit = Len(fn.blocks) + 1 /\ exit \in Nat BY <1>3 DEF New
<1>7. item.k = "endswitch" /\ item.exit = exit OBVIOUS
<1>8. t.kind = "switch" /\ t.to = Append(to, DefaultTarget(clauses, exit))
  <2> HIDE DEF vals, to, clauses, exit
  <2> QED BY SwitchFacts
<1>9. stacks \in Seq(Seq(Nat)) /\ Len(stacks) = count + 1
      /\ \A i \in 1..count + 1 : stacks[i] = loops
  BY <1>3, <1>5
<1> HIDE DEF t, kinds, item, vals, stacks, count, exit, clauses
<1>10. ASSUME NEW b \in new PROVE \E i \in 1..(count + 1) : b = Len(fn.blocks) + i
  <2>1. PICK j \in 0..count : b = exit + j OBVIOUS
  <2>2. Len(fn.blocks) \in Nat /\ count \in Nat /\ exit = Len(fn.blocks) + 1
    BY <1>3, <1>5, <1>6
  <2> HIDE DEF new
  <2>3. j + 1 \in 1..(count + 1) /\ b = Len(fn.blocks) + (j + 1) BY <2>1, <2>2, Shifted
  <2> QED BY <2>3
<1>11. NewBlocks(fn, stacks) = new
  <2>1. ASSUME NEW i \in 1..(count + 1) PROVE Len(fn.blocks) + i \in new
    <3>1. i - 1 \in 0..count /\ Len(fn.blocks) + i = exit + (i - 1) BY <1>3, <1>5, <1>6
    <3> QED BY <3>1
  <2> HIDE DEF new
  <2> QED BY <1>9, <1>10, <2>1 DEF NewBlocks
<1>12. /\ GraphOk(f1) /\ Grows(fn, f1) /\ OpenBlocks(f1) = OpenBlocks(fn) \cup new
       /\ \A b \in new : In(f1, b, loops)
  <2>1. Opened(fn, f1, stacks) BY <1>3, <1>9, BlocksOpened
  <2> HIDE DEF f1, new
  <2>2. \A b \in new : In(f1, b, loops) BY <1>9, <1>10, <2>1 DEF Opened
  <2> QED BY <1>11, <2>1, <2>2 DEF Opened
<1> HIDE DEF f1
<1>13. new \cap Blocks(fn) = {} /\ cur \in Blocks(fn) /\ new \subseteq Nat
  BY <1>3, <1>5, <1>6 DEF OpenBlocks
<1>14. /\ Append(to, DefaultTarget(clauses, exit)) \in Seq(new)
  <2>1. valued \in Seq(1..count) BY <1>5, ValuedFacts
  <2>2. PICK j \in 0..count : DefaultTarget(clauses, exit) = exit + j
    BY <1>5, <1>6, DefaultFacts
  <2>3. DefaultTarget(clauses, exit) \in new BY <2>2
  <2> HIDE DEF valued
  <2>4. \A i \in 1..count : exit + i \in new
    <3>1. \A i \in 1..count : i \in 0..count BY <1>5
    <3> QED BY <3>1
  <2> HIDE DEF new
  <2>5. to \in Seq(new) BY <1>5, <2>1, <2>4, Moved
  <2> QED BY <2>3, <2>5
<1> HIDE DEF new
<1>15. /\ GraphOk(f2) /\ Grows(f1, f2) /\ OpenBlocks(f2) = OpenBlocks(f1) \ {cur}
  <2>1. LoopsOf(f1, cur) = loops /\ cur \in OpenBlocks(f1)
    BY <1>3, <1>12, <1>13 DEF Grows
  <2>2. \A b \in new : MayGo(f1, cur, b)
    BY <1>12, <1>13, <2>1 DEF MayGo, In, Flow
  <2>3. new \subseteq Blocks(f1) BY <2>2 DEF MayGo
  <2>4. t.to \in Seq(new) BY <1>8, <1>14
  <2>5. ToSet(t.to) \subseteq new BY <2>4, SeqOver
  <2>6. t.to \in Seq(Blocks(f1)) BY <2>3, <2>4
  <2>7. Ends(f1, cur, t) BY <1>8, <2>2, <2>5, <2>6 DEF Ends
  <2> QED BY <1>12, <2>1, <2>7, Terminated
<1> HIDE DEF f2
<1>16. Grows(fn, fn') /\ GraphOk(fn') BY <1>4, <1>12, <1>15, GrowsAlong
<1>17. c.loops = loops /\ c.breaks = breaks /\ c.continues = continues
       /\ c.own \subseteq OpenBlocks(fn) /\ cur \notin c.own /\ Good(fn, c)
  BY <1>2 DEF Start3, Current
<1>18. Good(f2, c) BY <1>4, <1>16, <1>17, GoodStays
<1>19. \A b \in new : In(f2, b, c.loops) BY <1>12, <1>15, <1>17, InStays
<1>20. c.own \cup new \subseteq OpenBlocks(f2) /\ c.own \subseteq Blocks(fn) /\ c.own \cap new = {}
  BY <1>12, <1>13, <1>15, <1>17 DEF OpenBlocks
<1> DEFINE rest(i) == {exit + j : j \in (i + 1)..count}
           own(i) == {exit} \cup rest(i) \cup c.own
           C == [i \in 0..count |-> Ctx(c.loops, Append(c.breaks, exit), c.continues, own(i))]
<1> HIDE DEF own
<1>21. \A i \in 0..count : /\ C[i].loops = c.loops /\ C[i].breaks = Append(c.breaks, exit)
                           /\ C[i].continues = c.continues /\ C[i].own = own(i)
  <2> TAKE i \in 0..count
  <2>1. C[i] = Ctx(c.loops, Append(c.breaks, exit), c.continues, own(i)) OBVIOUS
  <2> HIDE DEF C
  <2> DEFINE l == c.loops
             b == Append(c.breaks, exit)
             k == c.continues
             o == own(i)
  <2> HIDE DEF l, b, k, o
  <2>2. C[i] = Ctx(l, b, k, o) BY <2>1 DEF l, b, k, o
  <2>3. C[i].loops = l /\ C[i].breaks = b /\ C[i].continues = k /\ C[i].own = o
    BY <2>2, CtxFacts
  <2> QED BY <2>3 DEF l, b, k, o
<1>22. exit \in new /\ \A i \in 0..count : rest(i) \subseteq new
  <2>1. 0 \in 0..count /\ exit = exit + 0 BY <1>5, <1>6
  <2>2. \A i \in 0..count : (i + 1)..count \subseteq 0..count BY <1>5
  <2> QED BY <2>1, <2>2 DEF new
<1>23. \A i \in 1..count : /\ i - 1 \in 0..count /\ i \in 0..count /\ exit + i \in new
                           /\ rest(i - 1) = {exit + i} \cup rest(i)
                           /\ exit + i \notin rest(i) /\ exit + i # exit
  <2> TAKE i \in 1..count
  <2>1. ((i - 1) + 1)..count = {i} \cup ((i + 1)..count) BY <1>5
  <2>2. \A j \in (i + 1)..count : exit + i # exit + j BY <1>5, <1>6
  <2>3. i - 1 \in 0..count /\ i \in 0..count /\ exit + i # exit BY <1>5, <1>6
  <2>4. exit + i \in new BY <2>3 DEF new
  <2> QED BY <2>1, <2>2, <2>3, <2>4
<1> USE DEF own
<1> HIDE DEF rest, C
<1>24. IsSeq(c.breaks) /\ c.breaks \in Seq(Nat) BY <1>17, SeqOver DEF Good
<1>25. /\ Append(c.breaks, exit) # <<>> /\ Front(Append(c.breaks, exit)) = c.breaks
       /\ Last(Append(c.breaks, exit)) = exit /\ Append(c.breaks, exit) \in Seq(Nat)
  BY <1>6, <1>24, AppendFacts
<1>26. ASSUME NEW i \in 0..count PROVE Good(f2, C[i])
  <2>1. /\ C[i].loops = c.loops /\ C[i].breaks = Append(c.breaks, exit)
        /\ C[i].continues = c.continues /\ C[i].own = own(i)
    BY <1>21
  <2>2. own(i) \subseteq Blocks(f2) BY <1>20, <1>22 DEF OpenBlocks
  <2>3. Aim(f2, C[i], exit) BY <1>19, <1>22, <2>1 DEF Aim, In, Flow
  <2>4. \A x : Aim(f2, c, x) => Aim(f2, C[i], x) BY <2>1 DEF Aim
  <2> HIDE DEF own
  <2> QED BY <1>18, <1>25, <2>1, <2>2, <2>3, <2>4 DEF Good
<1>27. ASSUME NEW i \in 1..count PROVE AtCase(f2, CaseMark(exit + i), C[i - 1], C[i])
  <2>1. CaseMark(exit + i).k = "case" /\ CaseMark(exit + i).block = exit + i BY DEF CaseMark
  <2>2. i - 1 \in 0..count /\ i \in 0..count BY <1>23
  <2>3. Keeps(C[i - 1], C[i]) BY <1>21, <2>2 DEF Keeps
  <2>4. C[i - 1].own = own(i - 1) /\ C[i].own = own(i) /\ C[i - 1].loops = c.loops
    BY <1>21, <2>2
  <2>5. exit + i \notin own(i) BY <1>20, <1>23
  <2>6. own(i - 1) = {exit + i} \cup own(i) BY <1>23
  <2> HIDE DEF own
  <2>7. GivesUp(C[i - 1], {exit + i}, C[i]) BY <2>4, <2>5, <2>6 DEF GivesUp
  <2>8. In(f2, exit + i, C[i - 1].loops) BY <1>19, <1>23, <2>4
  <2> QED BY <2>1, <2>3, <2>7, <2>8 DEF AtCase
<1>28. 0 \in 0..count /\ count \in 0..count BY <1>5
<1>29. C[count].own = {exit} \cup c.own
  <2>1. rest(count) = {}
    <3>1. (count + 1)..count = {} BY <1>5
    <3> QED BY <3>1 DEF rest
  <2> QED BY <1>21, <1>28, <2>1
<1>30. ItemOk(f2, item, C[count], c)
  <2>1. exit \notin c.own BY <1>20, <1>22
  <2>2. GivesUp(C[count], {exit}, c) BY <1>29, <2>1 DEF GivesUp
  <2>3. In(f2, exit, C[count].loops) BY <1>19, <1>21, <1>22, <1>28
  <2>4. C[count].loops = c.loops /\ C[count].continues = c.continues
        /\ C[count].breaks = Append(c.breaks, exit)
    BY <1>21, <1>28
  <2>5. AtEndSwitch(f2, item, C[count], c)
    BY <1>7, <1>25, <2>2, <2>3, <2>4 DEF AtEndSwitch
  <2> QED BY <2>5 DEF ItemOk
<1>31. Segment(f2, agenda', C[0], e)
  <2>1. Segment(f2, ClauseItems(clauses, exit), C[0], C[count])
    BY <1>5, <1>26, <1>27, ClausesSegment
  <2>2. Segment(f2, <<item>>, C[count], c) BY <1>18, <1>26, <1>28, <1>30, ItemSegment
  <2>3. Segment(f2, Tail(agenda), c, e) BY <1>2, <1>4, <1>16, SegmentStays DEF Start3
  <2>4. Segment(f2, ClauseItems(clauses, exit) \o <<item>>, C[0], c)
    BY <2>1, <2>2, SegmentsJoin
  <2> QED BY <1>4, <2>3, <2>4, SegmentsJoin
<1>32. C[0].own \subseteq OpenBlocks(f2)
  <2>1. own(0) \subseteq c.own \cup new BY <1>22, <1>28
  <2> QED BY <1>20, <1>21, <1>28, <2>1
<1>33. NoBlock \notin C[0].own
  <2>1. GraphOk(f2) BY <1>15
  <2>2. NoBlock \notin OpenBlocks(f2) BY <2>1, GraphFacts DEF NoBlock, OpenBlocks
  <2> QED BY <1>32, <2>2
<1>34. loops' = C[0].loops /\ breaks' = C[0].breaks /\ continues' = C[0].continues
  BY <1>4, <1>17, <1>21, <1>28
<1>35. BuildInv' BY <1>4, <1>16, <1>31, <1>32, <1>33, <1>34, Entered
<1> QED BY <1>16, <1>35

-----------------------------------------------------------------------------
(* Lowering the exits, and the verifier *)

\* A block whose statements and terminator are rewritten, its edges are not.
Relabelled(old, bb) ==
  /\ bb = [stmts |-> bb.stmts, term |-> bb.term, succ |-> old.succ, loops |-> old.loops]
  /\ AllSequential(bb.stmts)
  /\ bb.term.to = old.term.to
  /\ bb.term.kind = "exit" <=> old.term.kind = "exit"
  /\ bb.term.kind = "return" => old.term.kind = "return"

\* A block that does not change is relabelled.
LEMMA RelabelledFacts ==
  ASSUME NEW old, NEW bb, Relabelled(old, bb)
  PROVE  bb.loops = old.loops /\ bb.succ = old.succ /\ bb.term.to = old.term.to
BY DEF Relabelled

\* Rewriting blocks in that way keeps the graph sound.
LEMMA Relabelling ==
  ASSUME NEW f, GraphOk(f), NEW f2,
         f2 = [blocks |-> f2.blocks, regions |-> f.regions, entry |-> 1, exit |-> 3,
               types |-> f2.types],
         f2.blocks = [b \in Blocks(f) |-> f2.blocks[b]],
         \A b \in Blocks(f) : Relabelled(f.blocks[b], f2.blocks[b])
  PROVE  GraphOk(f2)
<1>1. f2.regions = f.regions /\ f2.exit = 3 /\ f.exit = 3 BY GraphFacts
<1>2. Len(f.blocks) \in Nat /\ Len(f.blocks) >= 3 /\ Blocks(f) = 1..Len(f.blocks) BY GraphFacts
<1>3. IsSeq(f2.blocks) /\ Len(f2.blocks) = Len(f.blocks) BY <1>2, SeqIs
<1>4. Blocks(f2) = Blocks(f) BY <1>2, <1>3, SeqFacts DEF Blocks
<1>5. \A b \in Blocks(f) : /\ f2.blocks[b].loops = f.blocks[b].loops
                           /\ f2.blocks[b].succ = f.blocks[b].succ
                           /\ f2.blocks[b].term.to = f.blocks[b].term.to
  BY RelabelledFacts
<1>6. Entries(f2) = Entries(f) BY <1>1 DEF Entries
<1>7. \A b \in Blocks(f) : LoopsOf(f2, b) = LoopsOf(f, b) /\ Targets(f2, b) = Targets(f, b)
  BY <1>5 DEF LoopsOf, Targets
<1>8. ASSUME NEW l, NEW t \in Blocks(f), Flow(f, l, t) PROVE Flow(f2, l, t)
  BY <1>1, <1>7, <1>8 DEF Flow
<1>9. ASSUME NEW b \in Blocks(f) PROVE BlockOk(f2, b)
  <2>1. BlockOk(f, b) /\ Relabelled(f.blocks[b], f2.blocks[b]) /\ Targets(f, b) \subseteq Blocks(f)
    BY BlockFacts
  <2> DEFINE old == f.blocks[b]
             bb == f2.blocks[b]
  <2>2. /\ bb = [stmts |-> bb.stmts, term |-> bb.term, succ |-> old.succ, loops |-> old.loops]
        /\ AllSequential(bb.stmts) /\ bb.term.to = old.term.to
        /\ bb.term.kind = "exit" <=> old.term.kind = "exit"
        /\ bb.term.kind = "return" => old.term.kind = "return"
    BY <2>1 DEF Relabelled
  <2>3. bb.succ = old.succ /\ bb.loops = old.loops BY <2>2
  <2>4. \A t \in Targets(f2, b) : Flow(f2, old.loops, t)
    <3>1. \A t \in Targets(f, b) : Flow(f, old.loops, t) BY <2>1 DEF BlockOk
    <3> QED BY <1>7, <1>8, <2>1, <3>1
  <2>5. /\ old.loops \in Seq(Nat) /\ old.term.to \in Seq(Blocks(f))
        /\ old.succ = [i \in DOMAIN old.term.to |->
                         [to |-> old.term.to[i], kind |-> old.succ[i].kind]]
        /\ b = f.exit <=> old.term.kind = "exit"
        /\ old.term.kind = "return" => old.term.to = <<f.exit>>
        /\ b = f.exit => old.loops = <<>> /\ old.term.to = <<>>
    BY <2>1 DEF BlockOk
  <2> HIDE DEF old
  <2>6. bb = [stmts |-> bb.stmts, term |-> bb.term, succ |-> bb.succ, loops |-> bb.loops]
    <3> HIDE DEF bb
    <3> QED BY <2>2, <2>3
  <2>7. bb.succ = [i \in DOMAIN bb.term.to |->
                     [to |-> bb.term.to[i], kind |-> bb.succ[i].kind]]
    <3> HIDE DEF bb
    <3> QED BY <2>2, <2>3, <2>5
  <2>8. bb.loops \in Seq(Nat) /\ bb.term.to \in Seq(Blocks(f2)) BY <1>4, <2>2, <2>3, <2>5
  <2>9. /\ b = f2.exit <=> bb.term.kind = "exit"
        /\ bb.term.kind = "return" => bb.term.to = <<f2.exit>>
        /\ b = f2.exit => bb.loops = <<>> /\ bb.term.to = <<>>
    BY <1>1, <2>2, <2>3, <2>5
  <2>10. \A t \in Targets(f2, b) : Flow(f2, bb.loops, t) BY <2>3, <2>4
  <2> QED BY <2>2, <2>6, <2>7, <2>8, <2>9, <2>10 DEF BlockOk
<1>10. \E rank \in [Blocks(f2) -> Nat] : Ranked(f2, rank)
  <2>1. PICK rank \in [Blocks(f) -> Nat] : Ranked(f, rank) BY DEF GraphOk
  <2>2. ASSUME NEW b \in Blocks(f), NEW t \in Targets(f, b)
        PROVE  t \in Entries(f2) \/ f2.blocks[t].term.to = <<>> \/ rank[b] < rank[t]
    <3>1. t \in Blocks(f) BY BlockFacts
    <3>2. t \in Entries(f) \/ f.blocks[t].term.to = <<>> \/ rank[b] < rank[t]
      BY <2>1 DEF Ranked
    <3> QED BY <1>5, <1>6, <3>1, <3>2
  <2>3. Ranked(f2, rank) BY <1>4, <1>7, <2>2 DEF Ranked
  <2> QED BY <1>4, <2>3
<1>11. LoopsOf(f2, 1) = <<>>
  <2>1. 1 \in Blocks(f) /\ LoopsOf(f, 1) = <<>> BY <1>2 DEF GraphOk
  <2> QED BY <1>7, <2>1
<1>12. /\ f2 = [blocks |-> f2.blocks, regions |-> f2.regions, entry |-> 1, exit |-> 3,
                types |-> f2.types]
       /\ IsSeq(f2.regions) /\ \A i \in DOMAIN f2.regions : f2.regions[i].id = i
  BY <1>1, GraphFacts
<1> QED BY <1>2, <1>3, <1>4, <1>9, <1>10, <1>11, <1>12 DEF GraphOk

\* A sequential statement may be added at either end.
LEMMA StatementAdded ==
  ASSUME NEW s, AllSequential(s), NEW x, IsSequential(x)
  PROVE  AllSequential(Append(s, x)) /\ AllSequential(<<x>> \o s)
<1>1. AllSequential(<<x>>) BY SingleFacts, SeqFacts DEF AllSequential
<1>2. AllSequential(<<x>> \o s) /\ AllSequential(s \o <<x>>) BY <1>1, SequentialConcat
<1>3. s \in Seq(ToSet(s) \cup {x}) /\ x \in ToSet(s) \cup {x}
  <2>1. s \in Seq(ToSet(s)) BY DEF AllSequential, IsSeq
  <2> QED BY <2>1
<1>4. Append(s, x) = s \o <<x>> BY <1>3
<1> QED BY <1>2, <1>4

\* LowerReturn relabels: the edge to the exit was the return's.
LEMMA LoweredBlock ==
  ASSUME NEW f, f.exit = 3, NEW b, NEW old, f.blocks[b] = old,
         old = [stmts |-> old.stmts, term |-> old.term, succ |-> old.succ, loops |-> old.loops],
         AllSequential(old.stmts), old.term.kind = "return" => old.term.to = << 3 >>
  PROVE  Relabelled(old, LowerReturn(f, b))
<1> DEFINE bb == LowerReturn(f, b)
           t == old.term
<1>1. CASE t.kind # "return"
  <2>1. bb = old BY <1>1 DEF LowerReturn
  <2> HIDE DEF bb, t
  <2>2. Relabelled(old, bb) BY <2>1 DEF Relabelled
  <2> QED BY <2>2 DEF bb
<1>2. CASE t.kind = "return"
  <2> DEFINE stmts == IF t.on = <<>> THEN old.stmts ELSE Append(old.stmts, Assign(Slot, t.on[1]))
  <2>1. bb = [old EXCEPT !.term = Jump(3), !.stmts = stmts] BY <1>2 DEF LowerReturn
  <2>2. IsSequential(Assign(Slot, t.on[1])) BY DEF IsSequential, Assign
  <2>3. AllSequential(stmts) BY <2>2, StatementAdded
  <2> HIDE DEF stmts, t, bb
  <2>4. bb = [stmts |-> stmts, term |-> Jump(3), succ |-> old.succ, loops |-> old.loops]
    BY <2>1, BlockRecord
  <2>5. Jump(3).kind = "jump" /\ Jump(3).to = <<3>> BY JumpFacts
  <2>6. bb.stmts = stmts /\ bb.term = Jump(3) BY <2>4
  <2>7. old.term.kind = "return" /\ old.term.to = <<3>> BY <1>2 DEF t
  <2>8. Relabelled(old, bb) BY <2>3, <2>4, <2>5, <2>6, <2>7 DEF Relabelled
  <2> QED BY <2>8 DEF bb
<1> QED BY <1>1, <1>2

\* Relabelling is transitive.
LEMMA RelabelledTwice ==
  ASSUME NEW a, NEW b, NEW c, Relabelled(a, b), Relabelled(b, c)
  PROVE  Relabelled(a, c)
<1>1. b.succ = a.succ /\ b.loops = a.loops BY DEF Relabelled
<1> QED BY <1>1 DEF Relabelled

\* lowerFunctionExits keeps the graph sound.
LEMMA LowerKeeps ==
  ASSUME GraphOk(fn), LowerFunctionExits
  PROVE  GraphOk(fn')
<1> DEFINE g == IF ~prog.returns THEN fn
                ELSE [fn EXCEPT !.types = Append(@, ReturnType),
                                !.blocks[fn.entry].stmts = <<Decl(Slot)>> \o @]
           ty == IF ~prog.returns THEN fn.types ELSE Append(fn.types, ReturnType)
           head == [fn.blocks[1] EXCEPT !.stmts = <<Decl(Slot)>> \o @]
           bs == IF ~prog.returns THEN fn.blocks ELSE [fn.blocks EXCEPT ![1] = head]
<1>1. fn' = [g EXCEPT !.blocks = [b \in Blocks(fn) |-> LowerReturn(g, b)]]
  BY DEF LowerFunctionExits
<1>2. /\ fn = [blocks |-> fn.blocks, regions |-> fn.regions, entry |-> 1, exit |-> 3,
               types |-> fn.types]
      /\ Blocks(fn) = 1..Len(fn.blocks) /\ Len(fn.blocks) \in Nat /\ Len(fn.blocks) >= 3
      /\ DOMAIN fn.blocks = Blocks(fn)
  BY GraphFacts DEF Blocks
<1>3. fn.entry = 1 /\ 1 \in Blocks(fn) BY <1>2
<1>4. g = [blocks |-> bs, regions |-> fn.regions, entry |-> 1, exit |-> 3, types |-> ty]
  <2>1. CASE ~prog.returns BY <1>2, <2>1
  <2>2. CASE prog.returns
    <3> DEFINE h == [fn EXCEPT !.types = Append(@, ReturnType)]
    <3>1. h = [blocks |-> fn.blocks, regions |-> fn.regions, entry |-> 1, exit |-> 3, types |-> ty]
      BY <1>2, <2>2
    <3>2. g = [h EXCEPT !.blocks[fn.entry].stmts = <<Decl(Slot)>> \o @]
      BY <1>2, <2>2
    <3> HIDE DEF h, g, ty
    <3>3. g = [h EXCEPT !.blocks = [h.blocks EXCEPT ![1] = [h.blocks[1] EXCEPT
                                      !.stmts = <<Decl(Slot)>> \o @]]]
      BY <1>3, <3>2
    <3>4. h.blocks = fn.blocks BY <3>1
    <3>5. g = [h EXCEPT !.blocks = bs] BY <2>2, <3>3, <3>4
    <3> HIDE DEF bs
    <3> QED BY <3>1, <3>5
  <2> QED BY <2>1, <2>2
<1> HIDE DEF g, ty
<1>5. ASSUME NEW b \in Blocks(fn) PROVE Relabelled(fn.blocks[b], bs[b])
  <2>1. BlockOk(fn, b) BY BlockFacts
  <2> DEFINE old == fn.blocks[b]
  <2>2. /\ old = [stmts |-> old.stmts, term |-> old.term, succ |-> old.succ, loops |-> old.loops]
        /\ AllSequential(old.stmts)
    BY <2>1 DEF BlockOk
  <2>3. Relabelled(old, old)
    <3> HIDE DEF old
    <3> QED BY <2>2 DEF Relabelled
  <2>4. CASE bs[b] = old BY <2>3, <2>4
  <2>5. CASE b = 1 /\ prog.returns
    <3>1. bs[b] = head BY <1>2, <1>3, <2>5
    <3>2. IsSequential(Decl(Slot)) BY DEF IsSequential, Decl
    <3> DEFINE stmts == <<Decl(Slot)>> \o old.stmts
    <3>3. AllSequential(stmts) BY <2>2, <3>2, StatementAdded
    <3>4. head = [old EXCEPT !.stmts = stmts] BY <2>5
    <3> HIDE DEF old, head, stmts, bs
    <3>5. head = [stmts |-> stmts, term |-> old.term, succ |-> old.succ, loops |-> old.loops]
      BY <2>2, <3>4, BlockRecord
    <3>6. Relabelled(old, head) BY <3>3, <3>5 DEF Relabelled
    <3> QED BY <3>1, <3>6 DEF old
  <2>6. CASE ~(b = 1 /\ prog.returns)
    <3>1. bs[b] = old BY <1>2, <2>6
    <3> QED BY <2>4, <3>1
  <2> QED BY <2>5, <2>6
<1> HIDE DEF bs
<1>6. g.exit = 3 /\ g.blocks = bs BY <1>4
<1>7. ASSUME NEW b \in Blocks(fn) PROVE Relabelled(fn.blocks[b], LowerReturn(g, b))
  <2>1. Relabelled(fn.blocks[b], bs[b]) /\ BlockOk(fn, b) BY <1>5, BlockFacts
  <2> DEFINE old == bs[b]
  <2>2. old.term.kind = "return" => old.term.to = <<3>>
    <3>1. fn.blocks[b].term.kind = "return" => fn.blocks[b].term.to = <<3>>
      BY <1>2, <2>1 DEF BlockOk
    <3> QED BY <2>1, <3>1 DEF Relabelled
  <2>3. old = [stmts |-> old.stmts, term |-> old.term, succ |-> old.succ, loops |-> old.loops]
        /\ AllSequential(old.stmts)
    <3> DEFINE was == fn.blocks[b]
    <3> HIDE DEF old, was
    <3>1. Relabelled(was, old) BY <2>1 DEF old, was
    <3>2. old.succ = was.succ /\ old.loops = was.loops BY <3>1 DEF Relabelled
    <3> QED BY <3>1, <3>2 DEF Relabelled
  <2>4. g.blocks[b] = old BY <1>6
  <2> HIDE DEF old
  <2>5. Relabelled(old, LowerReturn(g, b)) BY <1>6, <2>2, <2>3, <2>4, LoweredBlock
  <2> QED BY <2>1, <2>5, RelabelledTwice DEF old
<1> DEFINE lowered == [b \in Blocks(fn) |-> LowerReturn(g, b)]
<1>8. \A b \in Blocks(fn) : lowered[b] = LowerReturn(g, b) OBVIOUS
<1>9. lowered = [b \in Blocks(fn) |-> lowered[b]] OBVIOUS
<1> HIDE DEF lowered
<1>10. fn' = [blocks |-> lowered, regions |-> fn.regions, entry |-> 1, exit |-> 3, types |-> ty]
  <2>1. fn' = [g EXCEPT !.blocks = lowered] BY <1>1 DEF lowered
  <2> QED BY <1>4, <2>1
<1> DEFINE f2 == [blocks |-> lowered, regions |-> fn.regions, entry |-> 1, exit |-> 3, types |-> ty]
<1>11. f2.blocks = lowered /\ f2.types = ty OBVIOUS
<1>12. f2 = [blocks |-> f2.blocks, regions |-> fn.regions, entry |-> 1, exit |-> 3,
             types |-> f2.types]
  OBVIOUS
<1>13. fn' = f2 BY <1>10
<1> HIDE DEF f2
<1>14. f2.blocks = [b \in Blocks(fn) |-> f2.blocks[b]] BY <1>9, <1>11
<1>15. \A b \in Blocks(fn) : Relabelled(fn.blocks[b], f2.blocks[b]) BY <1>7, <1>8, <1>11
<1>16. GraphOk(f2) BY <1>12, <1>14, <1>15, Relabelling
<1> QED BY <1>13, <1>16

\* What the builder guarantees is what verifyFunctionCFG asks for.
LEMMA Verified ==
  ASSUME NEW f, GraphOk(f)
  PROVE  VerifyOk(f)
<1> SUFFICES ASSUME NEW b \in Blocks(f)
             PROVE  LET bb == f.blocks[b]
                        heads == [i \in DOMAIN bb.succ |-> bb.succ[i].to]
                    IN /\ b = f.exit <=> bb.term.kind = "exit"
                       /\ ToSet(heads) \cup ToSet(bb.term.to) \subseteq Blocks(f)
                       /\ \A t \in Blocks(f) : Occurrences(heads, t) = Occurrences(bb.term.to, t)
                       /\ \A i \in DOMAIN bb.stmts : IsSequential(bb.stmts[i])
  BY DEF VerifyOk
<1> DEFINE bb == f.blocks[b]
           to == bb.term.to
<1>1. BlockOk(f, b) BY BlockFacts
<1>2. to \in Seq(Blocks(f)) /\ ToSet(to) \subseteq Blocks(f) BY <1>1, SeqOver DEF BlockOk
<1>3. bb.succ = [i \in DOMAIN to |-> [to |-> to[i], kind |-> bb.succ[i].kind]]
  BY <1>1 DEF BlockOk
<1>4. to = [i \in DOMAIN to |-> to[i]] BY <1>2
<1> DEFINE succ == bb.succ
<1>5. [i \in DOMAIN succ |-> succ[i].to] = to
  <2> HIDE DEF to, succ
  <2>1. DOMAIN succ = DOMAIN to /\ \A i \in DOMAIN to : succ[i].to = to[i]
    BY <1>3 DEF succ
  <2> QED BY <1>4, <2>1
<1>6. (b = f.exit <=> bb.term.kind = "exit") /\ \A i \in DOMAIN bb.stmts : IsSequential(bb.stmts[i])
  BY <1>1 DEF BlockOk, AllSequential
<1> DEFINE heads == [i \in DOMAIN succ |-> succ[i].to]
<1>7. heads = to BY <1>5
<1> HIDE DEF to, heads
<1>8. /\ ToSet(heads) \cup ToSet(to) \subseteq Blocks(f)
      /\ \A t \in Blocks(f) : Occurrences(heads, t) = Occurrences(to, t)
  BY <1>2, <1>7
<1> QED BY <1>6, <1>8 DEF heads, to

-----------------------------------------------------------------------------
(* The invariant *)

\* The entry, the body and the exit block form a sound graph.
LEMMA InitHolds ==
  ASSUME Init
  PROVE  IInv
<1> DEFINE jumped == [Block(<<>>) EXCEPT !.term = Jump(2),
                                         !.succ = <<[to |-> 2, kind |-> "fallthrough"]>>]
           left == [Block(<<>>) EXCEPT !.term = Exit]
           bs == <<jumped, Block(<<>>), left>>
           start == [blocks |-> <<Block(<<>>), Block(<<>>), left>>,
                     regions |-> <<>>, entry |-> 1, exit |-> 3, types |-> prog.types]
<1>1. /\ Block(<<>>) = [stmts |-> <<>>, term |-> Open, succ |-> <<>>, loops |-> <<>>]
      /\ Open.kind = "open" /\ Open.to = <<>>
  BY OpenFacts
<1>2. left = [stmts |-> <<>>, term |-> Exit, succ |-> <<>>, loops |-> <<>>]
      /\ Exit.kind = "exit" /\ Exit.to = <<>>
  BY <1>1 DEF Exit, Open
<1>3. jumped = [stmts |-> <<>>, term |-> Jump(2), succ |-> <<[to |-> 2, kind |-> "fallthrough"]>>,
                loops |-> <<>>]
      /\ Jump(2).kind = "jump" /\ Jump(2).to = <<2>>
  <2> DEFINE r == Block(<<>>)
             x == Jump(2)
             y == <<[to |-> 2, kind |-> "fallthrough"]>>
             set == [r EXCEPT !.term = x, !.succ = y]
  <2>1. /\ r = [stmts |-> r.stmts, term |-> r.term, succ |-> r.succ, loops |-> r.loops]
        /\ r.stmts = <<>> /\ r.loops = <<>>
    BY OpenFacts
  <2>2. jumped = set OBVIOUS
  <2>3. x.kind = "jump" /\ x.to = <<2>> BY JumpFacts
  <2> HIDE DEF jumped, r, x, y
  <2> DEFINE half == [r EXCEPT !.term = x]
  <2>4. half = [stmts |-> r.stmts, term |-> x, succ |-> r.succ, loops |-> r.loops] BY <2>1
  <2>5. set = [half EXCEPT !.succ = y] OBVIOUS
  <2> HIDE DEF half, set
  <2>6. [half EXCEPT !.succ = y] =
          [stmts |-> r.stmts, term |-> x, succ |-> y, loops |-> r.loops]
    BY <2>4
  <2> QED BY <2>1, <2>2, <2>3, <2>5, <2>6 DEF x, y
<1>4. fn = [blocks |-> bs, regions |-> <<>>, entry |-> 1, exit |-> 3, types |-> prog.types]
  <2> DEFINE empty == Block(<<>>)
  <2> HIDE DEF left, empty
  <2>1. fn = JumpTo(start, 1, 2, "fallthrough") BY DEF Init, left, empty
  <2>2. JumpTo(start, 1, 2, "fallthrough") =
          [start EXCEPT !.blocks[1].term = Jump(2),
                        !.blocks[1].succ = <<[to |-> 2, kind |-> "fallthrough"]>>]
    <3> DEFINE term == Jump(2)
               to == term.to
               edge == [to |-> 2, kind |-> "fallthrough"]
               one == [i \in DOMAIN to |-> [to |-> to[i], kind |-> <<"fallthrough">>[i]]]
               f == start
    <3>1. one = <<edge>>
      <4>1. to = <<2>> BY JumpFacts
      <4> HIDE DEF to
      <4>2. DOMAIN one = 1..1 /\ one[1] = edge BY <4>1
      <4>3. one = [i \in 1..1 |-> one[i]] BY <4>2
      <4> HIDE DEF one, edge
      <4> QED BY <4>2, <4>3
    <3> HIDE DEF f, term
    <3>2. Terminate(f, 1, term, <<"fallthrough">>) =
            [f EXCEPT !.blocks[1].term = term, !.blocks[1].succ = one]
      BY DEF Terminate
    <3> HIDE DEF one, to, edge
    <3>3. Terminate(f, 1, term, <<"fallthrough">>) =
            [f EXCEPT !.blocks[1].term = term, !.blocks[1].succ = <<edge>>]
      BY <3>1, <3>2
    <3>4. JumpTo(f, 1, 2, "fallthrough") = Terminate(f, 1, term, <<"fallthrough">>)
      BY DEF JumpTo, NoBlock, term
    <3> QED BY <3>3, <3>4 DEF f, term, edge
  <2> DEFINE a == [start EXCEPT !.blocks[1].term = Jump(2)]
             half == [empty EXCEPT !.term = Jump(2)]
  <2>3. a = [blocks |-> <<half, empty, left>>, regions |-> <<>>, entry |-> 1,
             exit |-> 3, types |-> prog.types]
    BY DEF empty
  <2>4. JumpTo(start, 1, 2, "fallthrough") =
          [a EXCEPT !.blocks[1].succ = <<[to |-> 2, kind |-> "fallthrough"]>>]
    BY <2>2
  <2> DEFINE edges == <<[to |-> 2, kind |-> "fallthrough"]>>
  <2> HIDE DEF a, half, edges
  <2>5. [a EXCEPT !.blocks[1].succ = edges] =
          [blocks |-> <<[half EXCEPT !.succ = edges], empty, left>>, regions |-> <<>>,
           entry |-> 1, exit |-> 3, types |-> prog.types]
    BY <2>3
  <2>6. [half EXCEPT !.succ = edges] = jumped BY DEF half, empty, edges
  <2> HIDE DEF jumped
  <2> QED BY <2>1, <2>4, <2>5, <2>6 DEF edges, empty
<1> HIDE DEF jumped, left
<1>5. /\ bs[1] = jumped /\ bs[2] = Block(<<>>) /\ bs[3] = left
      /\ bs = [i \in 1..3 |-> bs[i]] /\ Len(bs) = 3 /\ DOMAIN bs = 1..3
  OBVIOUS
<1>6. IsSeq(bs) BY <1>5, SeqIs
<1> HIDE DEF bs
<1>7. fn.blocks = bs /\ fn.regions = <<>> /\ fn.exit = 3 /\ fn.types = prog.types BY <1>4
<1>8. Blocks(fn) = {1, 2, 3} BY <1>5, <1>7 DEF Blocks
<1>9. /\ LoopsOf(fn, 1) = <<>> /\ LoopsOf(fn, 2) = <<>> /\ LoopsOf(fn, 3) = <<>>
      /\ Targets(fn, 1) = {2} /\ Targets(fn, 2) = {} /\ Targets(fn, 3) = {}
      /\ fn.blocks[2].term.to = <<>>
  <2>1. ToSet(<<2>>) = {2} BY SingleFacts
  <2> QED BY <1>1, <1>2, <1>3, <1>5, <1>7, <2>1, EmptyFacts DEF LoopsOf, Targets
<1>10. AllSequential(<<>>) BY EmptyFacts DEF AllSequential
<1>11. BlockOk(fn, 1)
  <2> DEFINE bb == fn.blocks[1]
  <2>1. bb = jumped BY <1>5, <1>7
  <2> HIDE DEF bb
  <2>2. /\ bb = [stmts |-> bb.stmts, term |-> bb.term, succ |-> bb.succ, loops |-> bb.loops]
        /\ bb.stmts = <<>> /\ bb.loops = <<>> /\ bb.term.kind = "jump" /\ bb.term.to = <<2>>
        /\ bb.succ = <<[to |-> 2, kind |-> "fallthrough"]>>
    BY <1>3, <2>1
  <2>3. bb.term.to \in Seq(Blocks(fn)) BY <1>8, <2>2
  <2>4. bb.succ = [i \in DOMAIN bb.term.to |-> [to |-> bb.term.to[i], kind |-> bb.succ[i].kind]]
    <3> DEFINE edge == [to |-> 2, kind |-> "fallthrough"]
               to == <<2>>
               mine == [i \in DOMAIN to |-> [to |-> to[i], kind |-> <<edge>>[i].kind]]
    <3>1. DOMAIN mine = 1..1 /\ mine[1] = edge OBVIOUS
    <3>2. mine = [i \in 1..1 |-> mine[i]] BY <3>1
    <3> HIDE DEF mine, edge
    <3>3. mine = <<edge>> BY <3>1, <3>2
    <3> QED BY <2>2, <3>3 DEF mine, edge
  <2>5. Flow(fn, bb.loops, 2) BY <1>9, <2>2 DEF Flow
  <2> QED BY <1>7, <1>9, <1>10, <2>2, <2>3, <2>4, <2>5 DEF BlockOk, bb
<1>12. BlockOk(fn, 2)
  <2> DEFINE bb == fn.blocks[2]
  <2>1. bb = Block(<<>>) BY <1>5, <1>7
  <2> HIDE DEF bb
  <2>2. /\ bb = [stmts |-> bb.stmts, term |-> bb.term, succ |-> bb.succ, loops |-> bb.loops]
        /\ bb.stmts = <<>> /\ bb.loops = <<>> /\ bb.term.kind = "open" /\ bb.term.to = <<>>
        /\ bb.succ = <<>>
    BY <1>1, <2>1
  <2>3. bb.succ = [i \in DOMAIN bb.term.to |-> [to |-> bb.term.to[i], kind |-> bb.succ[i].kind]]
    BY <2>2
  <2> QED BY <1>7, <1>9, <1>10, <2>2, <2>3 DEF BlockOk, bb
<1>13. BlockOk(fn, 3)
  <2> DEFINE bb == fn.blocks[3]
  <2>1. bb = left BY <1>5, <1>7
  <2> HIDE DEF bb
  <2>2. /\ bb = [stmts |-> bb.stmts, term |-> bb.term, succ |-> bb.succ, loops |-> bb.loops]
        /\ bb.stmts = <<>> /\ bb.loops = <<>> /\ bb.term.kind = "exit" /\ bb.term.to = <<>>
        /\ bb.succ = <<>>
    BY <1>2, <2>1
  <2>3. bb.succ = [i \in DOMAIN bb.term.to |-> [to |-> bb.term.to[i], kind |-> bb.succ[i].kind]]
    BY <2>2
  <2> QED BY <1>7, <1>9, <1>10, <2>2, <2>3 DEF BlockOk, bb
<1>14. \E rank \in [Blocks(fn) -> Nat] : Ranked(fn, rank)
  <2> DEFINE rank == [b \in Blocks(fn) |-> 0]
  <2>1. rank \in [Blocks(fn) -> Nat] OBVIOUS
  <2> HIDE DEF rank
  <2>2. Ranked(fn, rank) BY <1>8, <1>9 DEF Ranked
  <2> QED BY <2>1, <2>2
<1>15. GraphOk(fn)
  <2>1. fn = [blocks |-> fn.blocks, regions |-> fn.regions, entry |-> 1, exit |-> 3,
              types |-> fn.types]
    BY <1>4, <1>7
  <2>2. IsSeq(fn.regions) /\ \A i \in DOMAIN fn.regions : fn.regions[i].id = i
    BY <1>7, EmptyFacts
  <2>3. IsSeq(fn.blocks) /\ Len(fn.blocks) >= 3 BY <1>5, <1>6, <1>7
  <2> QED BY <1>8, <1>9, <1>11, <1>12, <1>13, <1>14, <2>1, <2>2, <2>3 DEF GraphOk
<1>16. CurOk
  <2>1. 2 \in OpenBlocks(fn) BY <1>5, <1>7, <1>8, OpenFacts DEF OpenBlocks
  <2> QED BY <1>9, <2>1 DEF CurOk, Init
<1> DEFINE c == Ctx(<<>>, <<>>, <<>>, {})
<1>17. c.loops = <<>> /\ c.breaks = <<>> /\ c.continues = <<>> /\ c.own = {} BY CtxFacts
<1> HIDE DEF c
<1>18. Good(fn, c) BY <1>17 DEF Good
<1>19. Current(c) BY <1>17 DEF Current, Init
<1>20. prog \in Programs /\ phase = "build" /\ agenda = prog.body BY DEF Init
<1>21. agenda \in Seq(Statements) BY <1>20, StatementsAssumption DEF StatementLists
<1>22. Segment(fn, agenda, c, c) BY <1>18, <1>21, BodySegment
<1>23. BuildInv BY <1>15, <1>16, <1>19, <1>22 DEF BuildInv
<1> QED BY <1>20, <1>23 DEF IInv

\* The end of the function closes its last block.
LEMMA FinishKeeps ==
  ASSUME BuildInv, FinishBody
  PROVE  GraphOk(fn') /\ Grows(fn, fn') /\ phase' \in {"failed", "lower"}
<1>1. GraphOk(fn) BY DEF BuildInv
<1>2. CASE cur # NoBlock /\ ~prog.returns
  <2>1. fn' = Terminate(fn, cur, Return(<<>>, fn.exit), <<"return">>) BY <1>2 DEF FinishBody
  <2>2. cur \in OpenBlocks(fn) /\ cur \in Blocks(fn) BY <1>2, CurIs
  <2>3. Ends(fn, cur, Return(<<>>, fn.exit)) BY <1>1, <2>2, ReturnEnds
  <2>4. GraphOk(fn') /\ Grows(fn, fn') BY <1>1, <2>1, <2>2, <2>3, Terminated
  <2> QED BY <2>4 DEF FinishBody
<1>3. CASE ~(cur # NoBlock /\ ~prog.returns)
  <2>1. fn' = fn BY <1>3 DEF FinishBody
  <2> QED BY <1>1, <2>1, GrowsNot DEF FinishBody
<1> QED BY <1>2, <1>3

\* The steps that build the graph.
Handler ==
  \/ BuildSequential \/ SkipUnreachable
  \/ BuildIf \/ EndThen \/ EndElse
  \/ BuildFor \/ EndFor \/ BuildWhile \/ EndWhile \/ BuildDoWhile \/ EndDoWhile
  \/ BuildSwitch \/ BuildCase \/ EndSwitchBody
  \/ BuildBreak \/ BuildContinue \/ BuildReturn

\* Each of them keeps the invariant and only grows the graph.
LEMMA HandlersKeep ==
  ASSUME BuildInv, Handler
  PROVE  BuildInv' /\ Grows(fn, fn')
<1>1. CASE BuildSequential BY <1>1, SequentialKeeps
<1>2. CASE SkipUnreachable BY <1>2, SkipKeeps
<1>3. CASE BuildIf BY <1>3, IfKeeps
<1>4. CASE EndThen BY <1>4, EndThenKeeps
<1>5. CASE EndElse BY <1>5, EndElseKeeps
<1>6. CASE BuildFor BY <1>6, ForKeeps
<1>7. CASE EndFor BY <1>7, EndForKeeps
<1>8. CASE BuildWhile BY <1>8, WhileKeeps
<1>9. CASE EndWhile BY <1>9, EndWhileKeeps
<1>10. CASE BuildDoWhile BY <1>10, DoWhileKeeps
<1>11. CASE EndDoWhile BY <1>11, EndDoKeeps
<1>12. CASE BuildSwitch BY <1>12, SwitchKeeps
<1>13. CASE BuildCase BY <1>13, CaseKeeps
<1>14. CASE EndSwitchBody BY <1>14, EndSwitchKeeps
<1>15. CASE BuildBreak BY <1>15, BreakKeeps
<1>16. CASE BuildContinue BY <1>16, ContinueKeeps
<1>17. CASE BuildReturn BY <1>17, ReturnKeeps
<1> QED
  BY <1>1, <1>2, <1>3, <1>4, <1>5, <1>6, <1>7, <1>8, <1>9, <1>10, <1>11, <1>12, <1>13, <1>14,
     <1>15, <1>16, <1>17 DEF Handler

\* None of them ends the phase.
LEMMA HandlerPhase ==
  ASSUME Handler
  PROVE  phase = "build" /\ phase' = phase /\ prog' = prog
BY DEF Handler, BuildSequential, SkipUnreachable, BuildIf, EndThen, EndElse, BuildFor, EndFor,
   BuildWhile, EndWhile, BuildDoWhile, EndDoWhile, BuildSwitch, BuildCase, EndSwitchBody,
   BuildBreak, BuildContinue, BuildReturn, LeaveLoop, Building, Reached

\* Every step of the stage keeps the invariant.
LEMMA StepHolds ==
  ASSUME IInv, [Next]_vars
  PROVE  IInv'
<1>1. CASE Handler
  <2>1. phase = "build" /\ phase' = phase /\ prog' = prog BY <1>1, HandlerPhase
  <2>2. BuildInv' BY <1>1, <2>1, HandlersKeep DEF IInv
  <2> QED BY <2>1, <2>2 DEF IInv
<1>2. CASE RejectStatement
  <2>1. phase = "build" /\ phase' = "refused" /\ UNCHANGED <<prog, fn>>
    BY <1>2 DEF RejectStatement, Reached, Building
  <2>2. GraphOk(fn) BY <2>1 DEF IInv, BuildInv
  <2>3. GraphOk(fn)' BY <2>1, <2>2
  <2> QED BY <2>1, <2>3 DEF IInv, AfterInv
<1>3. CASE FinishBody
  <2>1. phase = "build" /\ UNCHANGED prog BY <1>3 DEF FinishBody
  <2>2. GraphOk(fn') /\ phase' \in {"failed", "lower"} BY <1>3, <2>1, FinishKeeps DEF IInv
  <2> QED BY <2>1, <2>2 DEF IInv, AfterInv
<1>4. CASE LowerFunctionExits
  <2>1. phase = "lower" /\ UNCHANGED prog /\ phase' \in {"verify", "refused"}
    BY <1>4 DEF LowerFunctionExits
  <2>2. GraphOk(fn) BY <2>1 DEF IInv, AfterInv
  <2>3. GraphOk(fn') BY <1>4, <2>2, LowerKeeps
  <2> QED BY <2>1, <2>3 DEF IInv, AfterInv
<1>5. CASE VerifyFunctionCFG
  <2>1. phase = "verify" /\ UNCHANGED <<prog, fn>> /\ phase' \in {"built", "failed"}
    BY <1>5 DEF VerifyFunctionCFG
  <2>2. GraphOk(fn) BY <2>1 DEF IInv, AfterInv
  <2>3. GraphOk(fn)' BY <2>1, <2>2
  <2> QED BY <2>1, <2>3 DEF IInv, AfterInv
<1>6. CASE UNCHANGED vars
  BY <1>6 DEF vars, builder, IInv, BuildInv, AfterInv, CurOk, Current
<1> QED
  BY <1>1, <1>2, <1>3, <1>4, <1>5, <1>6 DEF Next, BuildStep, Stopped, Handler

\* CFGBuilder always holds a sound graph and an agenda that fits it, and
\* lowerFunctionExits and verifyFunctionCFG find a sound graph.
THEOREM GraphInvariant == Spec => []IInv
<1>1. Init => IInv BY InitHolds
<1>2. IInv /\ [Next]_vars => IInv' BY StepHolds
<1> QED BY <1>1, <1>2, PTL DEF Spec

\* While statements are built the graph only grows.
LEMMA BuildingOnlyGrows ==
  ASSUME IInv, [Next]_vars, phase = "build"
  PROVE  Grows(fn, fn')
<1>1. BuildInv BY DEF IInv
<1>2. CASE Handler BY <1>1, <1>2, HandlersKeep
<1>3. CASE FinishBody BY <1>1, <1>3, FinishKeeps
<1>4. CASE RejectStatement \/ UNCHANGED vars
  BY <1>4, GrowsNot DEF RejectStatement, vars
<1>5. ~LowerFunctionExits /\ ~VerifyFunctionCFG BY DEF LowerFunctionExits, VerifyFunctionCFG
<1> QED BY <1>2, <1>3, <1>4, <1>5 DEF Next, BuildStep, Stopped, Handler

\* Whatever CFGBuilder does after it gave a block its terminator, it never adds
\* a statement or an edge to that block: a pending handler owns only blocks that
\* nobody else may close.
THEOREM BlocksAreClosed == Spec => ClosedBlocksStay
<1> DEFINE Stay == phase = "build" =>
                     \A b \in Blocks(fn) : fn.blocks[b].term # Open => fn'.blocks[b] = fn.blocks[b]
<1>1. IInv /\ [Next]_vars => [Stay]_vars
  <2> SUFFICES ASSUME IInv, [Next]_vars, phase = "build", NEW b \in Blocks(fn),
                      fn.blocks[b].term # Open
               PROVE  fn'.blocks[b] = fn.blocks[b]
    OBVIOUS
  <2>1. Grows(fn, fn') BY BuildingOnlyGrows
  <2> QED BY <2>1 DEF Grows, OpenBlocks
<1> QED BY <1>1, GraphInvariant, PTL DEF Spec, ClosedBlocksStay

\* verifyFunctionCFG guards against errors of the builder: it has none to find.
VerifierAccepts == phase = "verify" => VerifyOk(fn)

\* verifyFunctionCFG accepts every graph CFGBuilder and lowerFunctionExits make.
THEOREM NothingToReject == Spec => []VerifierAccepts
<1>1. IInv => VerifierAccepts BY Verified DEF IInv, AfterInv, VerifierAccepts
<1> QED BY <1>1, GraphInvariant, PTL

-----------------------------------------------------------------------------
(* Reaching *)

\* The successors of a set of blocks.
Heads(f, S) == UNION {Succs(f, b) : b \in S}

\* The edges of a block are its terminator's targets, and blocks.
LEMMA SuccsFacts ==
  ASSUME NEW f, GraphOk(f), NEW b \in Blocks(f)
  PROVE  Succs(f, b) = Targets(f, b) /\ Succs(f, b) \subseteq Blocks(f)
<1> DEFINE to == f.blocks[b].term.to
           succ == f.blocks[b].succ
<1>1. to \in Seq(Blocks(f)) /\ succ = [i \in DOMAIN to |-> [to |-> to[i], kind |-> succ[i].kind]]
  <2>1. BlockOk(f, b) BY BlockFacts
  <2> QED BY <2>1 DEF BlockOk
<1> HIDE DEF to, succ
<1>2. DOMAIN succ = DOMAIN to /\ \A i \in DOMAIN to : succ[i].to = to[i] BY <1>1
<1>3. {e.to : e \in ToSet(succ)} = ToSet(to) BY <1>2 DEF ToSet
<1>4. Targets(f, b) \subseteq Blocks(f) BY BlockFacts
<1> QED BY <1>3, <1>4 DEF Succs, Targets, to, succ

\* The fold of ReachFrom: a set of blocks after each of its steps.
Reaching(f, from, avoid, reach) ==
  /\ reach[0] = from \ avoid
  /\ \A k \in 1..Len(f.blocks) :
       reach[k] = reach[k - 1] \cup (Heads(f, reach[k - 1]) \ avoid)
  /\ \A k \in 0..Len(f.blocks) : reach[k] \subseteq Blocks(f)
  /\ ReachFrom(f, from, avoid) = reach[Len(f.blocks)]

\* The fold of ReachFrom adds the successors once per block.
LEMMA ReachRuns ==
  ASSUME NEW f, GraphOk(f), NEW from \in SUBSET Blocks(f), NEW avoid
  PROVE  \E reach : Reaching(f, from, avoid, reach)
<1> DEFINE seq == f.blocks
           n == Len(seq)
           A == SUBSET Blocks(f)
           base == from \ avoid
           op(a, x) == a \cup ((UNION {Succs(f, b) : b \in a}) \ avoid)
           body(g) == [s \in SUBSET DOMAIN seq |->
                         IF s = {} THEN base ELSE op(g[s \ {Max(s)}], seq[Max(s)])]
           it == CHOOSE g : g = body(g)
           F == [k \in 1..n |-> [a \in A |-> op(a, k)]]
           reach == [k \in 0..n |-> it[1..k]]
<1>1. ReachFrom(f, from, avoid) = it[DOMAIN seq]
  BY DEF ReachFrom, FoldLeft, MapThenFoldSet
<1>2. n \in Nat /\ DOMAIN seq = 1..n BY GraphFacts DEF Blocks
<1>3. base \in A OBVIOUS
<1>4. ASSUME NEW a \in A PROVE op(a, 0) \in A
  <2>1. \A b \in a : Succs(f, b) \subseteq Blocks(f) BY SuccsFacts
  <2> QED BY <2>1
<1>5. \A a, x, y : op(a, x) = op(a, y) /\ op(a, x) = a \cup (Heads(f, a) \ avoid) BY DEF Heads
<1> HIDE DEF op, A, base
<1>6. F \in [1..n -> [A -> A]] BY <1>4, <1>5
<1>7. \A k \in 1..n : \A a \in A : F[k][a] = op(a, k) OBVIOUS
<1> HIDE DEF F, n, seq
<1>8. PICK g : Folds(g, F, base, n, A)
  BY <1>2, <1>3, <1>6, FoldEquation
<1>9. g = body(g)
  <2>1. g = [s \in SUBSET (1..n) |-> g[s]] /\ g[{}] = base BY <1>8 DEF Folds
  <2>2. ASSUME NEW s \in SUBSET (1..n), s # {}
        PROVE  g[s] = op(g[s \ {Max(s)}], seq[Max(s)])
    <3>1. /\ Max(s) \in 1..n /\ g[s \ {Max(s)}] \in A
          /\ g[s] = F[Max(s)][g[s \ {Max(s)}]]
      BY <1>8, <2>2 DEF Folds
    <3> QED BY <1>5, <1>7, <3>1
  <2>3. g = [s \in SUBSET (1..n) |->
               IF s = {} THEN base ELSE op(g[s \ {Max(s)}], seq[Max(s)])]
    BY <2>1, <2>2
  <2> QED BY <1>2, <2>3
<1>10. it = body(it) BY <1>9
<1> HIDE DEF it
<1>11. \A s \in SUBSET (1..n) :
         it[s] = IF s = {} THEN base ELSE op(it[s \ {Max(s)}], seq[Max(s)])
  BY <1>2, <1>10
<1> HIDE DEF body
<1>12. Unfolds(it, F, base, n, A)
  <2>1. it[{}] = base
    <3>1. {} \in SUBSET (1..n) OBVIOUS
    <3> QED BY <1>11, <3>1
  <2>2. ASSUME NEW s \in SUBSET (1..n), s # {}, it[s \ {Max(s)}] \in A
        PROVE  it[s] = F[Max(s)][it[s \ {Max(s)}]]
    <3>1. Max(s) \in 1..n BY <1>2, <2>2, MaxOfPositions
    <3>2. it[s] = op(it[s \ {Max(s)}], seq[Max(s)]) BY <1>11, <2>2
    <3> QED BY <1>5, <1>7, <2>2, <3>1, <3>2
  <2> QED BY <2>1, <2>2 DEF Unfolds
<1>13. /\ it[1..0] = base
       /\ \A k \in 0..n : it[1..k] \in A
       /\ \A k \in 1..n : it[1..k] = F[k][it[1..(k - 1)]]
  BY <1>2, <1>3, <1>6, <1>12, FoldRuns
<1>14. \A k \in 0..n : reach[k] = it[1..k] OBVIOUS
<1> HIDE DEF reach
<1>15. \A k \in 1..n : reach[k] = reach[k - 1] \cup (Heads(f, reach[k - 1]) \ avoid)
  <2> SUFFICES ASSUME NEW k \in 1..n
               PROVE  reach[k] = reach[k - 1] \cup (Heads(f, reach[k - 1]) \ avoid)
    OBVIOUS
  <2>1. k \in 0..n /\ k - 1 \in 0..n BY <1>2
  <2>2. reach[k] = F[k][reach[k - 1]] /\ reach[k - 1] \in A BY <1>13, <1>14, <2>1
  <2> QED BY <1>5, <1>7, <2>2
<1>16. reach[0] = base /\ reach[n] = it[1..n]
  <2>1. 0 \in 0..n /\ n \in 0..n BY <1>2
  <2> QED BY <1>13, <1>14, <2>1
<1>17. \A k \in 0..n : reach[k] \in A BY <1>13, <1>14
<1>18. Reaching(f, from, avoid, reach)
  BY <1>1, <1>2, <1>15, <1>16, <1>17 DEF A, base, n, seq, Reaching
<1> QED BY <1>18

\* What is reached lies in every set that holds the start and that no edge leaves.
LEMMA ReachInside ==
  ASSUME NEW f, GraphOk(f), NEW from \in SUBSET Blocks(f), NEW avoid,
         NEW K \in SUBSET Blocks(f), from \ avoid \subseteq K,
         \A b \in K : Targets(f, b) \ avoid \subseteq K
  PROVE  ReachFrom(f, from, avoid) \subseteq K
<1> DEFINE n == Len(f.blocks)
<1>1. n \in Nat BY GraphFacts
<1>2. PICK reach : Reaching(f, from, avoid, reach) BY ReachRuns
<1>3. /\ reach[0] = from \ avoid
      /\ \A k \in 1..n : reach[k] = reach[k - 1] \cup (Heads(f, reach[k - 1]) \ avoid)
      /\ \A k \in 0..n : reach[k] \subseteq Blocks(f)
      /\ ReachFrom(f, from, avoid) = reach[n]
  BY <1>2 DEF Reaching
<1> HIDE DEF n
<1> DEFINE T == {k \in Nat : k <= n => reach[k] \subseteq K}
<1>4. 0 \in T BY <1>3
<1>5. ASSUME NEW k \in Nat, k \in T PROVE k + 1 \in T
  <2> SUFFICES ASSUME k + 1 <= n PROVE reach[k + 1] \subseteq K OBVIOUS
  <2>1. reach[k] \subseteq K /\ k + 1 \in 1..n /\ (k + 1) - 1 = k BY <1>1, <1>5
  <2>2. reach[k + 1] = reach[k] \cup (Heads(f, reach[k]) \ avoid) BY <1>3, <2>1
  <2>3. Heads(f, reach[k]) \ avoid \subseteq K
    <3>1. \A b \in reach[k] : Succs(f, b) \ avoid \subseteq K BY <2>1, SuccsFacts
    <3> QED BY <3>1 DEF Heads
  <2> QED BY <2>1, <2>2, <2>3
<1> HIDE DEF T
<1>6. n \in T BY <1>1, <1>4, <1>5, InductiveSet
<1> QED BY <1>1, <1>3, <1>6 DEF T

\* A set that has not stopped growing has a block more at every step: the fold
\* of ReachFrom, one step per block, is long enough.
LEMMA ReachableClosed ==
  ASSUME NEW f, GraphOk(f), NEW b \in Reachable(f)
  PROVE  b \in Blocks(f) /\ Targets(f, b) \subseteq Reachable(f)
<1> DEFINE n == Len(f.blocks)
<1>1. n \in Nat /\ n >= 3 /\ Blocks(f) = 1..n /\ f.entry = 1 /\ {1} \in SUBSET Blocks(f)
  <2>1. f = [blocks |-> f.blocks, regions |-> f.regions, entry |-> 1, exit |-> 3,
             types |-> f.types]
    BY GraphFacts
  <2>2. f.entry = 1 BY <2>1
  <2>3. n \in Nat /\ n >= 3 /\ Blocks(f) = 1..n BY GraphFacts
  <2> QED BY <2>2, <2>3
<1>2. PICK reach : Reaching(f, {1}, {}, reach) BY <1>1, ReachRuns
<1>3. /\ reach[0] = {1} \ {}
      /\ \A k \in 1..n : reach[k] = reach[k - 1] \cup (Heads(f, reach[k - 1]) \ {})
      /\ \A k \in 0..n : reach[k] \subseteq Blocks(f)
      /\ ReachFrom(f, {1}, {}) = reach[n]
  BY <1>2 DEF Reaching
<1> HIDE DEF n
<1> DEFINE Closed(S) == Heads(f, S) \subseteq S
           T == {k \in Nat : k <= n => Closed(reach[k]) \/ Cardinality(reach[k]) >= k + 1}
<1>4. ASSUME NEW k \in 0..n
      PROVE  /\ IsFiniteSet(reach[k]) /\ Cardinality(reach[k]) \in Nat
             /\ Cardinality(reach[k]) <= n
  <2>1. IsFiniteSet(1..n) /\ Cardinality(1..n) = n BY <1>1, FS_Interval
  <2>2. reach[k] \in SUBSET (1..n) BY <1>1, <1>3
  <2>3. IsFiniteSet(reach[k]) /\ Cardinality(reach[k]) <= n BY <2>1, <2>2, FS_Subset
  <2>4. Cardinality(reach[k]) \in Nat BY <2>3, FS_CardinalityType
  <2> QED BY <2>3, <2>4
<1>5. 0 \in T
  <2>1. reach[0] = {1} BY <1>3
  <2>2. Cardinality(reach[0]) = 1 BY <2>1, FS_Singleton
  <2> QED BY <2>2
<1>6. ASSUME NEW k \in Nat, k \in T PROVE k + 1 \in T
  <2> SUFFICES ASSUME k + 1 <= n
               PROVE  Closed(reach[k + 1]) \/ Cardinality(reach[k + 1]) >= k + 2
    OBVIOUS
  <2>1. k \in 0..n /\ k + 1 \in 0..n /\ k + 1 \in 1..n /\ (k + 1) - 1 = k BY <1>1
  <2>2. reach[k + 1] = reach[k] \cup Heads(f, reach[k]) BY <1>3, <2>1
  <2>3. CASE Closed(reach[k])
    <3>1. reach[k + 1] = reach[k] BY <2>2, <2>3
    <3> QED BY <2>3, <3>1
  <2>4. CASE ~Closed(reach[k])
    <3>1. Cardinality(reach[k]) >= k + 1 BY <1>6, <2>1, <2>4
    <3>2. reach[k] \in SUBSET reach[k + 1] /\ reach[k] # reach[k + 1] BY <2>2, <2>4
    <3>3. /\ IsFiniteSet(reach[k + 1])
          /\ Cardinality(reach[k]) \in Nat /\ Cardinality(reach[k + 1]) \in Nat
      BY <1>4, <2>1
    <3>4. /\ Cardinality(reach[k]) <= Cardinality(reach[k + 1])
          /\ Cardinality(reach[k + 1]) # Cardinality(reach[k])
      BY <3>2, <3>3, FS_Subset
    <3> QED BY <3>1, <3>3, <3>4
  <2> QED BY <2>3, <2>4
<1> HIDE DEF T
<1>7. n \in T BY <1>1, <1>5, <1>6, InductiveSet
<1>8. Closed(reach[n])
  <2>1. n \in 0..n BY <1>1
  <2>2. ~(Cardinality(reach[n]) >= n + 1) BY <1>1, <1>4, <2>1
  <2> QED BY <1>1, <1>7, <2>2 DEF T
<1>9. Reachable(f) = reach[n] BY <1>1, <1>3 DEF Reachable
<1>10. b \in Blocks(f)
  <2>1. n \in 0..n BY <1>1
  <2> QED BY <1>3, <1>9, <2>1
<1>11. Succs(f, b) \subseteq Reachable(f) BY <1>8, <1>9 DEF Heads
<1> QED BY <1>10, <1>11, SuccsFacts

-----------------------------------------------------------------------------
(* Regions *)

\* Without the entries of the regions no path comes back.
LEMMA LoopsHaveEntries ==
  ASSUME NEW f, GraphOk(f), NEW b \in Blocks(f)
  PROVE  b \notin ReachFrom(f, Succs(f, b), Entries(f))
<1>1. PICK rank \in [Blocks(f) -> Nat] : Ranked(f, rank) BY DEF GraphOk
<1> DEFINE Stops(x) == f.blocks[x].term.to = <<>>
           K == {x \in Blocks(f) : ~Stops(b) /\ (Stops(x) \/ rank[b] < rank[x])}
<1>2. Succs(f, b) = Targets(f, b) /\ Succs(f, b) \in SUBSET Blocks(f) BY SuccsFacts
<1>3. ASSUME NEW x \in Blocks(f), Stops(x) PROVE Targets(f, x) = {}
  BY <1>3, EmptyFacts DEF Targets
<1>4. Succs(f, b) \ Entries(f) \subseteq K
  <2> SUFFICES ASSUME NEW t \in Targets(f, b), t \notin Entries(f) PROVE t \in K
    BY <1>2
  <2>1. t \in Blocks(f) BY <1>2
  <2>2. Stops(t) \/ rank[b] < rank[t] BY <1>1 DEF Ranked
  <2>3. ~Stops(b) BY <1>3
  <2> QED BY <2>1, <2>2, <2>3
<1>5. ASSUME NEW x \in K, NEW t \in Targets(f, x), t \notin Entries(f) PROVE t \in K
  <2>1. x \in Blocks(f) /\ ~Stops(b) OBVIOUS
  <2>2. t \in Blocks(f) BY <2>1, BlockFacts
  <2>3. ~Stops(x) BY <1>3, <2>1
  <2>4. rank[b] < rank[x] BY <2>3
  <2>5. Stops(t) \/ rank[x] < rank[t] BY <1>1, <1>5, <2>1 DEF Ranked
  <2>6. rank[b] \in Nat /\ rank[x] \in Nat /\ rank[t] \in Nat BY <2>1, <2>2
  <2>7. Stops(t) \/ rank[b] < rank[t] BY <2>4, <2>5, <2>6
  <2> QED BY <2>1, <2>2, <2>7
<1>6. b \notin K
  <2>1. rank[b] \in Nat OBVIOUS
  <2> QED BY <2>1
<1>7. K \in SUBSET Blocks(f) OBVIOUS
<1> HIDE DEF K
<1>8. \A x \in K : Targets(f, x) \ Entries(f) \subseteq K BY <1>5
<1>9. ReachFrom(f, Succs(f, b), Entries(f)) \subseteq K BY <1>2, <1>4, <1>7, <1>8, ReachInside
<1> QED BY <1>6, <1>9

\* The exit of the function is in no loop.
LEMMA ExitLoops ==
  ASSUME NEW f, GraphOk(f)
  PROVE  f.exit \in Blocks(f) /\ ToSet(LoopsOf(f, f.exit)) = {}
<1>1. f.exit = 3 /\ 3 \in Blocks(f) BY GraphFacts
<1>2. LoopsOf(f, 3) = <<>> BY <1>1, BlockFacts DEF BlockOk, LoopsOf
<1> QED BY <1>1, <1>2, EmptyFacts

\* An edge enters a region only at its entry and leaves it only to its exit.
LEMMA EdgeCrosses ==
  ASSUME NEW f, GraphOk(f), NEW b \in Blocks(f), NEW t \in Targets(f, b),
         NEW i \in DOMAIN f.regions
  PROVE  /\ i \in ToSet(LoopsOf(f, t)) /\ i \notin ToSet(LoopsOf(f, b)) =>
              t = EntryOf(f.regions[i])
         /\ i \in ToSet(LoopsOf(f, b)) /\ i \notin ToSet(LoopsOf(f, t)) =>
              t = f.exit \/ t = f.regions[i].exit
<1> DEFINE l == LoopsOf(f, b)
           m == LoopsOf(f, t)
<1>1. Flow(f, l, t) /\ t \in Blocks(f) BY BlockFacts
<1>2. IsSeq(l) /\ IsSeq(m)
  <2>1. l \in Seq(Nat) /\ m \in Seq(Nat) BY <1>1, BlockFacts
  <2> QED BY <2>1, SeqOver
<1> HIDE DEF l, m
<1>3. CASE t = f.exit
  <2>1. ToSet(m) = {} BY <1>3, ExitLoops DEF m
  <2> QED BY <1>3, <2>1 DEF m
<1>4. CASE m = l BY <1>4 DEF l, m
<1>5. ASSUME NEW j \in DOMAIN f.regions, m = Append(l, j), t = EntryOf(f.regions[j])
      PROVE  /\ i \in ToSet(m) /\ i \notin ToSet(l) => t = EntryOf(f.regions[i])
             /\ i \in ToSet(l) => i \in ToSet(m)
  <2>1. ToSet(m) = ToSet(l) \cup {j} BY <1>2, <1>5, AppendFacts
  <2> QED BY <1>5, <2>1
<1>6. ASSUME NEW j \in DOMAIN f.regions, l = Append(m, j), t = f.regions[j].exit
      PROVE  /\ i \in ToSet(m) => i \in ToSet(l)
             /\ i \in ToSet(l) /\ i \notin ToSet(m) => t = f.regions[i].exit
  <2>1. ToSet(l) = ToSet(m) \cup {j} BY <1>2, <1>6, AppendFacts
  <2> QED BY <1>6, <2>1
<1> QED BY <1>1, <1>3, <1>4, <1>5, <1>6 DEF Flow, l, m

\* A path that avoids the entry of a region stays outside of it.
LEMMA EnteredAtEntry ==
  ASSUME NEW f, GraphOk(f), NEW i \in DOMAIN f.regions
  PROVE  \A b \in ReachFrom(f, {1}, {EntryOf(f.regions[i])}) : i \notin ToSet(LoopsOf(f, b))
<1> DEFINE K == {x \in Blocks(f) : i \notin ToSet(LoopsOf(f, x))}
<1>1. 1 \in K
  <2>1. 1 \in Blocks(f) BY GraphFacts
  <2>2. LoopsOf(f, 1) = <<>> BY DEF GraphOk
  <2> QED BY <2>1, <2>2, EmptyFacts
<1>2. ASSUME NEW x \in K, NEW t \in Targets(f, x), t # EntryOf(f.regions[i]) PROVE t \in K
  <2>1. t \in Blocks(f) BY BlockFacts
  <2> QED BY <1>2, <2>1, EdgeCrosses
<1>3. K \in SUBSET Blocks(f) OBVIOUS
<1>4. \A x \in K : i \notin ToSet(LoopsOf(f, x)) OBVIOUS
<1> HIDE DEF K
<1> DEFINE avoid == {EntryOf(f.regions[i])}
<1>5. \A x \in K : Targets(f, x) \ avoid \subseteq K BY <1>2
<1>6. {1} \in SUBSET Blocks(f) /\ {1} \ avoid \subseteq K BY <1>1, <1>3
<1> HIDE DEF avoid
<1>7. ReachFrom(f, {1}, avoid) \subseteq K BY <1>3, <1>5, <1>6, ReachInside
<1> QED BY <1>4, <1>7 DEF avoid

\* What stage S5 relies on holds for every program CFGBuilder accepts: its loop
\* regions account for every cycle, are entered at their entries only and left
\* only for their exits or the function's.
THEOREM RegionsAreSound == Spec => []RegionsSound
<1> SUFFICES IInv => RegionsSound
  BY GraphInvariant, PTL
<1> SUFFICES ASSUME IInv, phase = "built" PROVE RegionsSound
  BY DEF RegionsSound
<1>1. GraphOk(fn) BY DEF IInv, AfterInv
<1>2. /\ fn.entry = 1 /\ fn.exit = 3 /\ IsSeq(fn.regions)
      /\ \A i \in DOMAIN fn.regions : fn.regions[i].id = i
  <2>1. fn = [blocks |-> fn.blocks, regions |-> fn.regions, entry |-> 1, exit |-> 3,
              types |-> fn.types]
    BY <1>1, GraphFacts
  <2>2. fn.entry = 1 BY <2>1
  <2> QED BY <1>1, <2>2, GraphFacts
<1>3. ToSet(fn.regions) = {fn.regions[i] : i \in DOMAIN fn.regions} BY <1>2, SeqFacts
<1>4. {EntryOf(r) : r \in ToSet(fn.regions)} = Entries(fn) BY <1>3 DEF Entries
<1>5. \A b \in Blocks(fn) : b \notin ReachFrom(fn, Succs(fn, b), Entries(fn))
  BY <1>1, LoopsHaveEntries
<1>6. ASSUME NEW r \in ToSet(fn.regions)
      PROVE  /\ ReachFrom(fn, {fn.entry}, {EntryOf(r)}) \cap Members(r) = {}
             /\ \A b \in Members(r) : Succs(fn, b) \ Members(r) \subseteq {r.exit, fn.exit}
  <2>1. PICK i \in DOMAIN fn.regions : r = fn.regions[i] BY <1>3
  <2>2. r.id = i BY <1>2, <2>1
  <2>3. Members(r) = {b \in Reachable(fn) : i \in ToSet(LoopsOf(fn, b))}
    BY <2>2 DEF Members, LoopsOf
  <2>4. \A b \in ReachFrom(fn, {1}, {EntryOf(r)}) : i \notin ToSet(LoopsOf(fn, b))
    BY <1>1, <2>1, EnteredAtEntry
  <2>5. ASSUME NEW b \in Members(r), NEW t \in Succs(fn, b), t \notin Members(r)
        PROVE  t \in {r.exit, fn.exit}
    <3>1. b \in Reachable(fn) /\ i \in ToSet(LoopsOf(fn, b)) BY <2>3
    <3>2. b \in Blocks(fn) /\ Targets(fn, b) \subseteq Reachable(fn)
      BY <1>1, <3>1, ReachableClosed
    <3>3. t \in Targets(fn, b) BY <1>1, <3>2, SuccsFacts
    <3>4. t \in Reachable(fn) BY <3>2, <3>3
    <3>5. i \notin ToSet(LoopsOf(fn, t)) BY <2>3, <2>5, <3>4
    <3>6. t = fn.exit \/ t = fn.regions[i].exit BY <1>1, <3>1, <3>2, <3>3, <3>5, EdgeCrosses
    <3> QED BY <2>1, <3>6
  <2>6. ReachFrom(fn, {fn.entry}, {EntryOf(r)}) \cap Members(r) = {} BY <1>2, <2>3, <2>4
  <2> QED BY <2>5, <2>6
<1> QED BY <1>4, <1>5, <1>6 DEF RegionsSound
=============================================================================
