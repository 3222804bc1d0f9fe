# A TLA+ verification of RTLzz

RTLzz compiles functions written in a restricted C++ dialect into SystemVerilog
modules.  The compiler is a chain of stages, each a function from one
intermediate representation to the next; the last ones schedule the resulting
combinational graph into a clocked pipeline and print it.  This directory holds
TLA+ models of those stages, TLC runs that check them on bounded instances, and
TLAPS proofs of the properties that matter most.  Paths below are relative to
the repository root.

## 1. The system

    C++ source
      │  S0   Clang 18 front end, AST import          src/s0clang18, src/s0ast
      │  S1   API normalisation                       src/s1apinorm
      │  S2   validation of the language subset       src/s2validate
      │  S3   statementize: calls and side effects become statements  src/s3statementize
      │  S4   control-flow graph                      src/s4cfg
      │  S5   loop unrolling                          src/s5unroll
      │  S6   inlining of helpers                     src/s6inline
      │  S7   flattening of structs and arrays        src/s7flatten
      │  S8   operation normalisation, state upgrade  src/s8opnorm
      │  S9   SSA                                     src/s9ssa
      │  S10  predication: the CFG becomes one block  src/s10predicate
      │  S11  BEIR, a graph of operations             src/s11beir, src/backend/beir.cpp
      │  BEOPT  optimiser, a list of passes           src/backend/beopt*
      │  pipeline  scheduling, registers, reset       src/backend/pipeline*
      ▼  RTL  SystemVerilog text                      src/backend/rtlgen.cpp, circt_bridge.cpp

Control flows strictly forwards: `src/pipelinev2/PipelineV2.cpp` calls the
stages in order and stops at the first one that reports a failure.  No stage
keeps state between calls and nothing runs concurrently inside the compiler; the
concurrency is in the hardware it produces, where every register of a pipeline
moves at once and several transactions are in flight.

## 2. Inventory

"State" is what a component keeps while it runs; all of it is local to one call.

| component | state | operations | what is hard | what makes it correct |
|---|---|---|---|---|
| S0 Clang front end (`s0clang18`) | Clang session, tables of functions, records, template bindings, lambdas, diagnostics | select the top, import types, expressions, statements, initialisers, calls; reachability; port lifting; validation | scope of names and captures, order of evaluation of Clang sugar | every accepted construct keeps its C++ meaning, everything else is diagnosed at its place |
| S0 AST (`s0ast`) | surface program; a second, native builder kept for tests | recognise the `Int`/`Bits` API, print, hand out the surface AST | – | the two builders agree |
| S1 (`s1apinorm`) | result tree, summaries | API calls to typed expressions | width and sign views of slices and casts | the types the later stages trust |
| S2 (`s2validate`) | – (read only) | checks of the language subset | – | what S3 and later assume has been checked |
| S3 (`s3statementize`) | symbols, temporaries, statement list per nesting | linearise expressions; `&&`, `\|\|` and `?:` become ifs; `++` | order of side effects, short circuit, values read before a later effect of the same expression | the C++ order of evaluation |
| S4 (`s4cfg`) | blocks, current block, break and continue targets, loop stack | one handler per statement kind, lowering of function exits, verifier | jumps out of nested constructs, code after a jump | same calls in the same order; loop regions cover every cycle |
| S5 (`s5unroll`) | CFG, constant environment, body facts | analyse a loop, clone the body per iteration, compact | stale facts, width of derived values, stale block numbers | same meaning, no loop left |
| S6 (`s6inline`) | CFG, cache of inlined callees, depth, budgets | bind parameters, copy blocks, return slots, accessors | aliases of references, recursion, budgets | call by value and by reference as in C++ |
| S7 (`s7flatten`) | leaf symbols of every aggregate, statement list | leaf by leaf copies, dynamic reads and writes, ports | order of leaf copies when source and target overlap | an aggregate assignment is atomic |
| S8 (`s8opnorm`) | CFG of words, views, magic numbers; S8.1 region facts | widths and signed views, division by constants, hoisting of branch-local computations | width, sign, magic-number arithmetic, renaming of uses | the operation of the source on its type |
| S9 (`s9ssa`) | liveness, environments, values | renaming, phis, expansion of dynamic writes, ports | partial definitions, joins | every use reads the definition that reaches it |
| S10 (`s10predicate`) | guards, definitions, decision diagrams | guards, mux chains, availability check | shared edges, lazily read operands | one guarded definition per value; nothing read outside its guard |
| S11 (`s11beir`) | graph | signals, ports, drivers, tables | dropping the guards | the graph computes the program |
| BEIR (`backend/beir`) | graph, replacement map, value facts, dirty flag | `MutableProgram`: replace, resolve, compact | chains of replacements, stale facts, renumbering | a rewrite keeps the outputs |
| BEOPT (`backend/beopt*`) | the same, per iteration | 13 passes, the list eight times over | facts read before a rewrite and used after it, widths and signed views | outputs equal for every input |
| pipeliner (`backend/pipeline*`) | bisection bounds, stages, delay chains, reset values | schedule, materialise, valid chain, reset evaluation | time: which transaction a register holds | outputs are those of the combinational graph, a fixed number of cycles later |
| RTL writer (`rtlgen`, `rtl_names`, `circt_bridge`) | names, lines | print, uniquify names, debug report; a bridge to external CIRCT tools | collision of names | the text means the graph |
| driver (`pipelinev2`, `rtlzz`, `main`) | results of the stages, debug providers | run the stages in order, stop at the first failure | providers that outlive what they print, early return for port metadata | the first failing stage is reported with the last good state |
| debug (`debug`) | thread-local stack of contexts | push, pop, format | unwinding | contexts match the stack |
| scripts | – | differential tests against Verilator | – | – |

Interaction is by value only: each stage receives the previous stage's program
and returns a new one or an error.  There is no shared state, except the
thread-local context stack of `debug`, no I/O between stages, no persistence and
no concurrency.  The hard part is therefore *sequences of rewrites*: facts
collected at one step and used at a later one, numbers that change meaning when
something is compacted, and corner cases of widths.  In the generated hardware
the hard part is time.  The hazards in `PROJECT.json` are of these kinds.

## 3. From expressions to a scalar CFG (S2, S3, S6, S7, S8)

S4 and S5 stand between S3 and S6; they have section 4.

### S2 and S3: validation and statements

| module | what it is |
|---|---|
| `Ast` | the normalised syntax tree and the statements of S3, and what running each of them means |
| `Statementize` | stage S3: expressions by recursion, statements one per step, `verifyStmt` |
| `Validate` | stage S2 in front of it: `ValidateSignatures`, one `ValidateBody` per function, `ValidateNoRecursion` |
| `MCStatementize` | instances for TLC |

`work` in `Statementize` is the stack of statement lists that are being built,
one frame per nested body with what the enclosing handler does next; the context
`c` has the symbols and S3's own scopes of names.  `s2` in `Validate` is the
function that is looked at next and the calls seen so far.  A program that S2
refuses never reaches S3.

The meaning of the tree is that of C++ with the order of evaluation that
`src/src/s3statementize/checklist.md:104-120` fixes.  A run *traps* when it
accesses an element that does not exist; `StatementizingKeepsMeaning` demands
the same outputs, and no trap that the tree does not have, so the statements of
a short-circuited operand may not run early.  `ValidatedExactly` says which
programs are accepted: those that are `Lawful`, a description by visibility and
positions in the tree that mentions no scope stack and no order of visits.

Met while modelling:

* the stack of scopes of S2 and that of S3 agree on nested bodies; a clause of a
  `switch` has a scope of its own in both, unlike in C++;
* the type of a reference parameter is a reference in the signature and never
  one in an argument, so two overloads of which one has reference parameters
  cannot be told apart and the call is refused, although
  `src/src/s2validate/checklist.md:71-72` allows overloads; the current Clang
  front end gives every instance a unique name, so the case does not arise from
  source;
* a helper that calls the top function passes S2, whose search for recursion
  starts at the helpers and the lambdas; S6 refuses it as an unknown callee;
* an operand that is only a variable or an element is read by the statement that
  uses it, after later operands have been computed: `f(i, i++)` passes the new
  `i` and `a[i++] = i` stores it, where `checklist.md:106-108` and `:113-114`
  promise the order of the text; a compound assignment lowers its left side
  before the right one; `++a[a[0]]` reads a changed index again.  The family
  `LateReads` of `MCStatementize` holds such programs, the run does not use it;
* an arm of `?:` without side effects is evaluated whether it is chosen or not,
  also when it may access an element that does not exist (`SpeculatesPast`);
* a conversion of a signed built-in value to a wider unsigned type is not marked,
  and S8 extends it with zeros.

### S6 and S7: inlining and flattening

| module | what it is |
|---|---|
| `AggCfg` | functions over structs, arrays and words that call each other, and their meaning in C++ (objects, references, value parameters) |
| `Inline` | stage S6, depth first with a stack of copies, the cache of finished callees and the two limits |
| `FlatCfg` | scalar programs with signed views, the output of S7 and the input of S8 |
| `Flatten` | stage S7 behind S6: leaves, lookups, conditional writes |
| `MCFlatten` | instances for TLC |

`stack` in `Inline` holds the functions whose bodies are being inlined, `cache`
the finished ones; a call is resolved, bound, copied and written back as the
code does it, one call per step.  `flat` in `Flatten` is the table of leaves and
the blocks written so far; one step flattens one statement.

`InliningKeepsMeaning` compares with the program in which a reference is bound
*once*, to an object; `FlatteningKeepsMeaning` with an aggregate assignment that
is one step.  `InlinableExactly` says that a program is refused exactly when it
reaches an unknown, recursive, ambiguous or unbindable call, or exceeds a limit.

### S8: widths, views and division

| module | what it is |
|---|---|
| `Normalise` | stage S8: casts to the width of each operation, division by a constant by multiplication, lookups, terminators, verifier |
| `NormaliseProofs` | the proofs about `Normalise` |
| `MCNormalise` | every operation for every small choice of widths and views |

`NormalisingKeepsMeaning` evaluates a function before and after for all inputs;
`NormalForm` is what S8.1 and S9 take for granted of every operation.

`NormaliseProofs` proves `Spec => []NormalForm`, for every set of functions, of
any size and any widths, and for all limits: `verifyNormProgram` never finds
anything to reject, and no signed view outlives its use.

*Assumption.*  `ProgramsAreScalar`, which TLC evaluates on the instance: symbols
that exist (`symbolAt`, `S8Norm.cpp:303`), scalar types with a width
(`normType`, `:87`), and as many operands as the operation needs, which S8 checks
itself and fails on as malformed (`:452`, `:869`, `:976`, `:994`, `:1040`).
Nothing is assumed of the types or the views of operands: what S8 refuses is
part of the model.

*The invariant.*  `NormalForm` speaks of finished blocks and of the verdict, so
it is not inductive.  `NormInv` says that `types` continues the symbols of the
source (`Grows`), that every statement of a finished block and of the block at
work is `StmtRight` over the symbols so far – operands that exist, the type that
the verifier asks for, views only where `ViewsRead` allows – and that every
finished branch has a condition of type bool.

*The argument.*  A lowering takes a context and returns one that continues it
(`Continues`) with an operand over its symbols (`Lowered`); what is right over a
symbol table is right over every continuation of it.  That is proved of
`castTo`, of the fold over casts, of each round of a division by multiplication,
of every operation (`OperationFacts`) and of the four statements.  The views
come from `rejectSignedView`: an operation that may be given one reads it, hands
it to the cast that widens the operand, or, as `write` does, drops it.
That the value is the right one as well stays with `NormalisingKeepsMeaning`,
which evaluates.

Met while modelling and left out of the families: a signed operand that is
widened to meet an unsigned one loses its view, so a comparison reads it as
unsigned (`LosesView`); a signed right shift into a wider target shifts in
zeros; a product is extended with zeros.  The lowerings of signed division and
remainder by constants are never reached, although item 19 of
`src/src/s8opnorm/checklist.md` lists them as supported; they are not modelled.
S6 drops the signed view of values it assigns and of arguments.

### Runs

* `statements` – expressions of up to three operations with side effects in
  every position, short circuits three deep, signed reads, operations on bits;
  every kind of statement and loop with such expressions as conditions, jumps at
  every place, shadowed names, aggregates that are returned, passed and
  constructed; and programs S2 has to refuse (names out of scope, bad types,
  duplicate parameters and signatures, recursion of one to three functions,
  misplaced jumps, ports of a struct type) next to those it must not.  Words
  have two bits, so that an index can leave the array of three.
* `flatten` – calls by value and by reference of words, rows, elements and
  fields, two levels deep, in a branch or before one, overloads and lambdas,
  chains up to the depth limit and bodies up to the block limit, recursion and
  unknown callees; assignments between all kinds of places with nested dynamic indices,
  lookups in terminators, aggregates wider than the leaf limit.  Index words
  have one bit: every index is in range, and both values are tried.
* `normalise` – operands of one to three bits, with and without a view, targets
  of one to three bits; divisions and remainders of one to five bits by every
  constant, zero included.  The magic numbers of a width depend on the width
  alone, and with five bits both forms, with and without the extra addition,
  occur.
* `alias_index`, `leaf_order` – see section 8.

## 4. From statements to a loop-free CFG (S4, S5)

| module | what it is |
|---|---|
| `Cfg` | the sequential statements of S3, blocks, terminators, loop regions, and the run of a CFG; the reference: structured statements and their C++ meaning |
| `CfgBuild` | stage S4, one action per handler of `CFGBuilder` |
| `Unroll` | stage S5: `analyzeLoop` as operators, then unrolling of one region, compaction, `verifyNoLoops` |
| `CfgBuildProofs` | the proofs about `CfgBuild` |
| `MCCfgBuild`, `MCUnroll` | instances for TLC |

### State and actions

`fn` is the CFG under construction, `cur` is `current_`, `loops`, `breaks` and
`continues` are the builder's three stacks.  The recursion of `buildStmtList` is
the `agenda`: the statements still to be built and, behind the statements of a
nested body, a marker for what the enclosing handler does next.  Each of
`BuildIf`, `EndThen`, `EndElse`, `BuildFor`, `EndFor`, … is the part of one
handler between two recursive calls.  In `Unroll`, `Analyze` is `analyzeLoop`,
`UnrollRegion` the whole of `unrollForLoop` and `Compact` is `compactReachable`;
`plan` carries the analysis from the first to the second.

### Meaning

A program's meaning is the list of calls it makes, with their arguments and its
result, for given results of the calls (an *oracle*), up to a number of steps
(`Fuel`, in bursts of ten).  `SameBehaviour` and `UnrollingKeepsMeaning` compare
the CFG with the structured program for all oracles of the instance.  Variables
nobody has written are `Undef`, and a run that branches on one is not compared:
the source program has no meaning there.

### Runs

* `cfg` – all four kinds of loops around every pair of branches that act, break,
  continue or return, in an if, a switch with three arrangements of clauses and
  an inner loop; value-returning functions that fall through; misplaced breaks,
  continues and returns.  Conditions are calls, so the trace shows the order and
  the number of tests.  Five calls reach the second iteration of every loop,
  also behind a continue.
* `unroll` – counters of two and three bits, signed and unsigned, both
  directions, all comparisons, the constant on either side, zero to four
  iterations and more than the limit allows; bodies with copies of the counter,
  joins, breaks, continues, returns, switches, accumulators, inner loops of the
  three kinds; two loops after each other.  Counters of three bits wrap around
  within the iteration limit of four, so both ends of the range are met.
  `CountableLoopsGo` is the other direction: a loop that a reader can count is
  not given up.

  `RegionsSound` is a property of this run too: the region entries must account
  for the cycles that are left after every unrolling, whose blocks have new
  numbers and whose edges have lost their labels.

### What is proved of S4

`CfgBuildProofs` proves, for every set of programs and every depth of nesting,
two of the four properties of the `cfg` run, `RegionsSound`
(`RegionsAreSound`) and `ClosedBlocksStay` (`BlocksAreClosed`), and a part of a
third: that a function is never rejected by `verifyFunctionCFG`
(`NothingToReject`), which leaves control that may fall off the end as the only
way to fail.

*Assumption.*  `StatementsAssumption` says that programs are made of statements as
`S3Statementize.h` declares them: bodies and clauses are lists of statements,
and the parts of a loop that run before its test or after its body hold
sequential ones only, which is what `emitList` insists on (`S4CFG.cpp:319`).
`Statements` is the set of all statements in the programs, nested ones included;
TLC collects it from the instance and evaluates the assumption on it.

*The invariant* (`IInv`).  None of the three is inductive: that a merge block is
still open when `EndElse` jumps out of it, or that a `continue` lands inside its
loop, was decided several calls up the stack.  `IInv` says two things.

* The graph so far is sound (`GraphOk`).  Every edge from a block inside the
  loops `l` goes to the function's exit, to a block inside the same loops, to the
  entry of a region right inside, or to the exit of the innermost region
  (`Flow`).  And the blocks have a rank that rises along every edge, but for the
  edges to region entries and to blocks without successors (`Ranked`).  A block
  gets its rank when it is closed, above all blocks closed before it; so an edge
  can only fall if it leads to a block that was already closed, and the handlers
  send control there only through region entries.
* The agenda fits the graph (`Segment`).  Between two items stands a *context*:
  the three target stacks that `CFGBuilder` has when it gets there, and the
  blocks that pending handlers own, which have been made but not built.  A
  statement leaves its context as it is; a marker gives up the blocks its handler
  is about to build, and the marker of a loop pops the stacks.  In the first
  context the stacks are the builder's, and every owned block is open.  A target
  of break or continue is an owned block, hence open, or the entry of a region,
  and within `Flow` of the context's loops.

That a handler keeps the second half is the same argument each time: it splits
the first item's part of the agenda into segments that meet in new contexts
(`BodySegment`, `ItemSegment`, `SegmentsJoin`), which stay segments while the
graph grows (`SegmentStays`).  The clauses of a switch are a fold over their
list, so `ClausesSegment` goes by induction along it.

*The theorems.*  `BlocksAreClosed`: every handler only `Grows` the graph, and a
block with a terminator is not among the ones it may change.  `NothingToReject`:
`GraphOk` contains what `verifyFunctionCFG` asks for, and
`lowerFunctionExits` only relabels blocks (`Relabelling`).  `RegionsAreSound`:
away from region entries ranks rise, so no path returns (`LoopsHaveEntries`);
`Flow` says where an edge crosses a region's border (`EdgeCrosses`), which with
"what is reached lies in every closed set" (`ReachInside`) shows that a region is
entered at its entry only; and since the members of a region are *reachable*
blocks, leaving it only to an exit needs that the reachable blocks are closed
under edges: the fold in `ReachFrom` takes one step per block, and a set that
has not stopped growing has one more block after every step
(`ReachableClosed`).

`SameBehaviour` and `OnlyFallThroughFails` stay with TLC: they speak of runs of
programs, which are defined by recursion over their data.

### Abstractions

Only scalar variables and the operators add, sub, mul and comparisons; array and
field accesses, constructors and the remaining operators of `applyBinary` go
through the same paths of the analysis as "unknown" and are left out.  A loop
header has one predecessor outside the loop, as in every CFG that S4 builds.

## 5. From the CFG to a graph (S8.1 to S11)

| module | what it is |
|---|---|
| `NormCfg` | the program after S8: words, statements, terminators, and their run |
| `StateUpgrade` | S8.1: hoisting of branch-local computations, one action per statement visited |
| `Ssa` | stage S9: `analyzeCFG`, `computeLiveness`, renaming per block, ports, `verifySSAProgram` |
| `Predicate` | stage S10: guards, mux chains, guarded definitions, `verifyPredicateProgram` |
| `Beir` | `beir::Program`: signals, drivers, outputs, and evaluation; stage S11: ports, drivers, tables, outputs |
| `FoldSteps` | a left fold as a sequence of steps; the greatest element of a set of numbers |
| `SsaProofs` | the proofs about `Ssa`, and that S10 and S11 leave the result alone |
| `MCUpgrade`, `MCLower` | instances for TLC |

In `StateUpgrade`, `todo`, `parent`, `arms` and `at` are the positions of the
three nested loops of `hoistBranchLocalCombinational`, `defs` is `local_defs`
and `source` the function before the pass, which `fn` is compared with in every
state: each single move has to keep the meaning.  A statement leaves its block
when it is moved, not at the end of the traversal; what the code marks as erased
is never looked at again.

The three machines of S9 to S11 run one after the other on the same function: the state of a
stage is the constant input of the next.  `phase` is the position in the chain;
`live` and `todo` are the fixpoint of `computeLiveness` (one pass per step) and
the blocks not yet renamed; `ssa`, `pred` and `graph` are the three results,
grown block by block or definition by definition as in the code.

`SsaKeepsMeaning`, `GuardsExact` and `GraphComputesProgram` compare each result
with the run of the S8 program for *all* inputs of the instance;
`DefsDominateUses` is about every value on every path; `RefusedExactly` and
`OnlyLateSwitchRejected` say which functions a stage refuses, so that a stage
that refuses everything is not correct.

### Runs

* `hoist` – one or two arms of up to three statements, arms of two blocks, branches
  in arms, switches; dynamic reads and writes, writes of the port, values used
  where the arms meet, variables assigned in the arm only.  Three statements are
  enough for a definition, an intermediate one that stays, and a use; two levels
  of branches for a computation that moves twice.  Arms that read a variable and
  then write it are in the family `EarlyReads`, which no run uses (section 8).

* `lowering` – straight code, diamonds, one-armed ifs, both edges to one block,
  nested conditions, switches with shared targets and repeated cases, dead code
  with an edge into live code, missing and multiple exits, cycles, dynamic reads
  and writes.  Words have two bits, and a function has at most three inputs, so
  every function is evaluated on all its inputs.  Two words and a condition are
  enough for values that are defined on one path only, swapped, or partly dead.
  `LateSwitches` are switches on values that a branch computes, which S10
  refuses (section 8).

### What is proved of S9

`SsaProofs` proves, for every set of well-formed functions, that `SsaSpec`
implies `[]DefsDominateUses` and `[]RefusedExactly`, and that both still hold
along the chain of the `lowering` run, of which `BeirSpec` is the specification.
The second one says that S9 refuses the functions with a cycle, without an exit,
that write an input or that read a variable some path leaves undefined, and no
other, and that `verifySSAProgram` never finds anything to reject.

*Assumption.*  `ProgramsWellFormed`, which TLC evaluates on the instance, is what
the code checks before it renames anything: symbols, blocks and ports that
exist, operands of the type that is written (`verifyNormProgram`,
`S8Norm.cpp:1478`), targets of a dynamic write that differ and come with one
element each (`S9SSA.cpp:676`).

*The invariant.*  Both properties speak of the finished form only, so neither is
inductive.  `SsaInv` has one part for every phase:

* `Settling`, while liveness is computed: the order is `Forward` (no block leads
  to an earlier one, or to itself) and lists the reached blocks; what is
  `Accountable`: a variable that is live where it may be undefined is an output,
  or is read by a block that such a path reaches;
* `Renaming`, while blocks are renamed.  Of the blocks renamed so far: the
  environment names values of the right type that are defined on every path to
  the end of the block (`EnvsRight`); a variable live there without a value is a
  local that some path leaves unwritten (`MissingExplained`); where such a path
  leads, nothing reads the variable (`UndefinedKept`); no input was written
  (`InputsKept`); and the code reads only what is ready at that point
  (`CodesRight`).

`MissingExplained` and `UndefinedKept` are the two directions of
`RefusedExactly`, and each needs `EnvsRight`, which needs that liveness has
settled (`LiveSettled`): a join makes a phi for the live variables only, so a
value that is read later but not live would be lost.

*The argument.*  `Spread` is the least set that holds its start and is closed
under the edges (`SpreadInside`, `SpreadClosed`), so dominance can be used as path reasoning
without paths: a set that is closed and misses a block shows that the block is
not reached.  The depth-first search of `analyzeCFG` is a fold over twice as many
steps as there are blocks; its invariant says that the finished blocks are
closed under successors and in order, and a measure, that the stack is empty in
the end.  A pass of `computeLiveness` that changes nothing has found a fixed
point, because every block is updated exactly once in it.  The renaming of a
block is three folds: over the live variables of a join, over the statements, and
over the elements of a dynamic write; each keeps `Good`, the form for one context
of the invariant.  A value is defined at a join when it is the same on all
edges, since a block that dominates all predecessors dominates the block.

### What stays with TLC

`SsaKeepsMeaning` and `GraphComputesProgram` compare runs: what a fold over the
blocks computes under every input, for two machines whose steps do not
correspond one to one.  `GuardsExact` and `OnlyLateSwitchRejected` quantify over
the worlds that satisfy all the definitions made so far; an inductive form would
have to extend every such world at every definition.  These are checked for all
inputs of the instance.

### Abstractions

Version numbers, names, source locations, the value limit and array port groups
are left out.  The decision diagrams of `verifyPredicateProgram` are replaced by
what they decide: implication in every assignment of the atoms (`Worlds`).
`computeLiveness` ends with a pass that changes nothing, which is a step here as
in the code.  The runs index tables only inside their bounds; the family
`NarrowIndex` of `MCLower`, which no run uses, does not (section 8).

## 6. The optimiser (BEIR, BEOPT)

`optimizeProgram` rewrites the graph of S11 by a list of passes, the whole list
a fixed number of times.  The passes share one `MutableProgram`: the graph, the
value facts of its signals (bits known to be zero or one, constants) and a flag
that says the facts are out of date.  The passes that change the structure run
once, half way through the iterations, and the control is normalised once more
at the end.

| module | what it is |
|---|---|
| `RtlGraph` | the graph with widths and signed views, and the value of every operation as `rtlgen.cpp` writes it |
| `OptRules` | the value facts of `beir.cpp`; aliases, compaction, and the passes that look at one operation: assign chains, constants, constant slices, identities, common expressions, dead nodes |
| `OptWidth` | the width pass: meeting selections and extensions, widths that are filled and looked at, narrowing |
| `OptStructure` | updates of bit ranges, parallel selections, balanced trees; conditions as Boolean terms, cofactors, exclusive branches |
| `OptPredicate` | predicate sinking: where a value matters, what is settled there, conditions without their settled parts |
| `OptControl` | normalisation of one-bit logic: terms, rewriting, truth tables; import and export |
| `Optimise` | the driver: one action per pass, in its order, with its options |
| `ResetValues` | the evaluator of `pipeline_reset.cpp`, against the text of the RTL |
| `MCOptimise` | instances for TLC |

A pass is a deterministic function of the graph and the facts, so each is one
action; what a rewrite of one signal leaves is what the rewrite of the next one
sees.  `facts` and `dirty` are kept as in the code, and what matters is *when*
they are recomputed: a pass that asks for facts recomputes them only if the flag
is set.  Every pass returns its program together with its own account of whether
it changed anything (`Left`), which is what it marks the facts from: the flag is
never derived from a comparison of two graphs.  The account follows the code of
the pass (`beopt_constant.hpp:198`, `beopt_algebraic.hpp:476`,
`beopt_assign_chains.hpp:168`, `beopt_slices.hpp:39`,
`beopt_width.hpp:1224,1232`, `beopt_bit_updates.hpp:264`,
`beopt_structure.hpp:140,224`, `beopt_case_guards.hpp:295`,
`beopt_boolean.hpp:913`, `beopt_predicate.hpp:1418`, `beir.cpp:1377,1430`); only
the normalisation's is read off the program it wrote, for each signal is
rewritten once at most.  `options` switches passes off, as the command line does.  `promise`
remembers what the given program shows at its ports for every input, and
`MeaningKept` compares it with the graph after every pass.  `FactsSound` says of
facts that are not marked out of date that they are true of the graph as it is
now.  A pass that forgets its mark is caught where the next reader of the facts
follows before anybody else marks them: the mutant of `optimise` is the narrowing
of widths that does not say that it narrowed.  The sinking of predicates could
forget its mark unseen: the passes around it, normalisation and the removal of
dead nodes, mark in its stead.  `ResetValuesShown` evaluates the graph before the
first pass and after the last one by the code
of `pipeline_reset.cpp` and compares with what the written RTL shows: the
evaluator is a second reading of every operation and must agree with the first.

The reference is the generated text, not the C++ semantics: signedness is a
property of an operand's view, an operation is unsigned unless both sides are
signed, a shift has the width of its left operand, `unique case` takes its first
true branch.

The structural passes keep Boolean terms by structure, as the code's tables keep
one node for equal terms; where the code goes through candidates in the order
of its tables, any one order is taken.  What the solver of `beopt_predicate.hpp`
proves is what holds under every assignment of the atoms.  Limits on time and
size only make a pass stop early; they are above any program here, as is the
older demand analysis in the same file, which nothing calls.

* `optimise` – an instance is a program with its options.  Nine families for the
  local passes, each with all local passes and with half of them: chains of
  binary operations, complements and copies; extensions and concatenations of
  which a part is selected and widened again, read by every kind of operation;
  nested selections and cases with constant and equal conditions; dynamic
  accesses whose place becomes a constant; writes; comparisons of values known
  in part; signed views (`Views`).  Seven for the structural ones, each pass
  alone and the smaller families with the whole list: updates of overlapping bit
  ranges, chains of three operations with an inner reader, trees of selections
  with related conditions, overlapping cases, selections under selections, write
  ports, control logic over comparisons of one value.  Words of one, two and
  four bits have an inner position, an end and a carry; every input is
  evaluated.  A second iteration is what shows a fact kept too long, as dead
  nodes are removed and renumbered at the end of the first.

### Abstractions

Arrays, array ports, division, names and debug information are left out (names
take part in the code's operand signatures only as a further reason not to merge
two signals).  A port stands for one node, and a write port is one pair of data
and enable.  The literal of a generated shift has eight bits instead of 32.  The
list runs twice instead of eight times.  Left out of the families, because they
go wrong (section 8): signed readers of values that the width pass narrows
(`LosesSign`), right shifts of sign-extended values (`SignFills`).  For a case
with two true conditions the first counts, as `index.ai.md:299` promises; the
text's `unique case` leaves it open, and the cases the optimiser itself makes are
exclusive.  `ResetValuesShown` leaves out ordering comparisons with one
signed and one unsigned view (`OneView`): the RTL compares them unsigned, the
evaluator each by its own view.  Logical operations read conditions of one bit,
as S9 produces them.
## 7. The automatic pipeliner

`pipeline::build` takes the optimised combinational graph and a number of
register stages.  It chooses a stage for every operation, inserts the registers
this requires, and rewires every operand to the copy of the signal that belongs
to its reader's transaction.

| module | what it is |
|---|---|
| `PipeGraph` | `struct Graph` of pipeline.cpp as pure operators: liveness, the smallest-id-first topological order, constants, `schedule(cap)`, `evaluate(stages)` |
| `PipeBuild` | `pipeline::build` as a state machine, one action per loop iteration or phase: bisection, relaxation, delay chains, valid chain, rewiring, `validateProgram` |
| `DelayLine` | the abstract promise at the ports: results leave a fixed number of cycles after their inputs |
| `PipeRtl` | the RTL at run time: wires settle in any order their drivers allow, all registers load at the clock edge, synchronous reset |
| `PipeRtlProofs` | the proofs about `PipeRtl` |
| `FoldFacts` | facts about the operators of the community modules, and induction over naturals and finite sets without operator parameters |
| `PipeGraphProofs` | what `schedule` and `evaluate` compute, for every well-formed program |
| `PipeBuildProofs` | the scheduler: its invariant, monotone feasibility, optimality, the tolerance, progress; materialisation, rewiring and `validateProgram`: the second invariant, success, shared chains, balanced latencies |
| `MCPipeBuild`, `MCPipeRtl` | instances for TLC |

### State and actions

`PipeBuild`'s `phase` is the position in `build`; `lower`, `upper`, `iter` are
the bisection's locals; `stages`, `report` and `before` are `result.stages`,
`current` and `before`; `mat` collects the registers (in the order they are
appended to `result.registers`), the `delayed` table, `valid_nodes` and the
rewired drivers.  Delays are doubles in the code and integers here; delays in
the instance are multiples of `Scale = 4`, so the bisection's last step is finer
than the difference between two schedules, as it is with 64 halvings of a
double.

In `PipeRtl` a design is any record that satisfies `LegalDesign`: a legal
schedule (what `evaluate` accepts) with a delay chain long enough for every
reader.  That every design `build` produces is such a record is what
`DesignIsMaterialised` proves of `PipeBuild`.  Operations are the
constant operator `Apply`; TLC instantiates it with the term constructor, so a
value shows which transaction every one of its operands came from.

### Runs

* `build` – every forward dependency graph of one input and three operations,
  two delays, two width and output profiles, with and without a valid port, and
  zero to two register stages; and a family of arbitrary graphs, backward edges
  and undriven signals included, on which `build` has to fail exactly when the
  graph is undriven or cyclic (about 105 000 states).  Three operations are
  enough for a join of paths of different length and for a bisection with
  several feasible caps; two stages for a delay chain with two registers and a
  shared prefix.
* `rtl` – five program shapes (a join, two outputs, a data path that reads the
  valid input, a constant, no valid port) under every legal schedule with one
  and two stages, with two data values, bubbles and resets at any cycle; besides
  safety, that a valid transaction comes out (section 9).

Two stages and two distinguishable data values suffice to exhibit every mixing
of neighbouring transactions; what happens for longer pipelines is proved.

### What is proved of the RTL

`PipeRtlProofs` proves, for every set of legal designs, every depth, every input
domain and every interpretation of the operations, that `Spec` implies
`[]TypeOK`, `[]RegistersAligned`, `[]WiresAligned`, `[]ResetOutputs` and the
refinement `ImplementsDelayLine`.  The inductive invariant `IInv` adds to these
that the design is one of `Designs` and `ResetRegisters`: after a reset every
register holds the reset value of its signal.  It is needed because the wires of
the next cycle are computed from registers, and registers from wires: neither
alignment is inductive without the other, and the alignment of the valid chain
is what justifies leaving a disabled register alone.  The only assumption is
`DesignsAreLegal`, which TLC evaluates on the instance.

### What is proved of `build`

All seven properties of the `build` run are theorems, for every set of
well-formed programs, every set of stage counts and every tolerance:
`FeasibilityIsMonotone`, `BaselineIsOptimal`, `RelaxationIsBounded`,
`BuildMakesProgress`, `BuildAlwaysSucceeds`, `ChainsAreShared` and
`LatencyIsBalanced`.

*Assumptions.*  `ProgramsAssumption` says that `build` is called with
`WellFormed` programs: signals numbered from one, every operand a signal of the
program, inputs without operands and never outputs, natural costs and widths,
and a valid input and a valid output that come together, the valid output read
by nobody.  Types and operands are what `BEIRBuilder` builds (`S11BEIR.cpp:437`),
which gives every output a signal of its own; a program that mentions its valid
output is what `pipeline_valid.cpp:21` rejects.
`OptionsAssumption` says that counts and the
tolerance are naturals.  TLC evaluates both on the instance.

*The scheduler* (`IInv` of `PipeBuildProofs`).  None of the properties is
inductive: that the relaxation stays within the tolerance needs that `report` is
the report of the current `stages`, which needs that the stages are legal, which
needs that the bisection hands on an assignment that `schedule` produced, on a
graph whose order is topological.  `IInv` states all of this: the graph is
`SoundGraph` (what the constructor guarantees when it does not throw: the order
lists the live signals once, operands first, constants depend on constants only)
and is `Analyse(prog)`; while bisecting, `stages` meets the cap `upper`; from the
baseline on the stages are legal, the report is theirs, it is within the
tolerance, and the bits are at most the baseline's.

The lemma under both monotonicity and optimality is that greedy placement
dominates (`PipeGraphProofs`): if any legal assignment keeps every stage delay
under a cap, then `schedule` under this or a larger cap succeeds and puts every
node no later than that assignment does, in stage and, within the same stage, in
arrival time.  It goes by induction along the order; `OperandsComeFirst` and
`SlotIsUnder` are its step.  A schedule under a cap is itself legal and
within the cap (`ScheduleMeets`), so a smaller cap's schedule is the witness for
a larger one.  The bisection then keeps "the upper end is met, and below the
lower end nothing is"; after at most 64 halvings the ends are one unit apart.

`BaselineIsOptimal` has one hypothesis, `Resolvable(s, w)`: delays are multiples
of `s >= 2` units, and `w` are 64 halvings of an interval that contains the sum
of all costs, down to one unit.  It stands for the resolution of a double: two
schedules whose delays differ do so by more than the last halving.  Without it
the interval may end one unit above an optimum that is its lower end, which is
never tried; TLC's instance (`Scale = 4`) satisfies it.

*The design* (`DesignInv` of `PipeBuildProofs`).  `Complete(mat)` says what the
chain loops have built when they end: every signal that is no constant has a
chain that starts with it and has one register for every stage up to its last
use, each fed by the one before; every register belongs to such a chain; the
valid chain is the chain of the valid input and gates the data registers.  It is
proved through the loops, with `Grown` as the invariant of each: `Grown(m, len)`
speaks of the chains that exist so far, so a new register extends its own chain
and disturbs no other.  From `Complete`:

* a register is determined by its signal and its stage (`PlacesDiffer`), which
  is `ChainsShared`; so the register list has no duplicates, and counting it by
  owner gives the sums `evaluate` predicted (`PredictionHolds`, by `TotalByOwner`);
* the offset of an operand is inside its chain, because the last use is the
  latest reader (`AlwaysWires`): `vector::at` never throws;
* the operand found there has the reader's stage and the operand's origin
  (`OperandsArePlaced`), so `validateProgram` accepts (`DesignIsValid`);
* "a program signal is at its stage, a register one after its source" is a
  bound that every driver carries over (`LevelsCarry`), so every path crosses as
  many registers as the stage says.

`DesignInv` adds that nothing has failed: with `StartScheduleIInv` (the sum of
all costs is a cap that is always met) this is `BuildSucceeds`.

*Induction.*  The provers take no theorem with an operator parameter, so
`FoldFacts` derives what is needed from the least element of a set of naturals:
that a fold runs through a function of its steps (`FoldRuns`), that a sum over a
finite set exists and adds up.  With this, every loop of `build` is a run of
states with an invariant.


## 8. Where code and documents disagree

Two of these are runs that TLC ends with a counterexample.

| run | what happens |
|---|---|
| `alias_index` | an element passed by reference keeps its index as an expression, and the copy of the callee renames the symbols in it by the *callee's* table: `add(p[i], w)` writes another element, or the index is expanded without end (`S6Inline.cpp:262`) |
| `leaf_order` | an assignment of an aggregate reads each leaf when its turn comes: in `s = b[s.i]` the field `i` is written first and then used as the index for the rest (`S7Flatten.cpp:931`) |

The passing `flatten` run leaves out exactly the inputs these two use.  What else
was met while modelling is kept out of the instances of the passing runs; where
a family of inputs is named, it is in the MC module, so that the behaviour can
be reproduced by adding it to the set of programs.

| stage | what happens | family |
|---|---|---|
| S2, S3 | see section 3 | `LateReads` |
| S4 | a value-returning function that ends in a switch whose clauses all return is refused, although an if in the same place is accepted (`S4CFG.cpp:635`) | `Switching` of `MCCfgBuild` |
| S5 | a loop bound that the body assigns is taken from before the loop (`S5Unroll.cpp:802`) | `ChangingBounds` of `MCUnroll` |
| S5 | a loop bound keeps its old value although a helper changed it by reference (`S5Unroll.cpp:201`) | `ReferenceArguments` of `MCUnroll` |
| S5 | a copy of a counter in a narrower variable is replaced by the untruncated counter (`S5Unroll.cpp:455`); a counter is stepped in the type of its initial literal (`:851`); a do-while loop whose body always leaves is refused once another loop was unrolled (`:372`) | – |
| S8 | see section 3 | – |
| S8.1 | hoisting renames a variable also where the arm reads it before writing it (`S81StateUpgrade.cpp:234`) | `EarlyReads` of `MCUpgrade` |
| S9 | a dynamic write through an index too narrow for the array writes two elements (`S9SSA.cpp:701`) | `NarrowIndex` of `MCLower` |
| S10 | a switch on a value computed inside a branch is refused (`S10Predicate.cpp:485`); `OnlyLateSwitchRejected` says that nothing else is | `LateSwitches` of `MCLower` |
| S11 | a function that reads an output before writing it is accepted and reads zero (`S11BEIR.cpp:800`) | – |
| BEOPT | a signed right shift of a zero-extended value fills with the narrow value's sign once the width pass has narrowed it, and a slice across a sign extension loses the sign (`beopt_width.hpp:1110`, `:475`); a sign extension, a signed product, a truncation that keeps the sign and a dynamic slice likewise | `SignFills` of `MCOptimise` |
| BEOPT | folding can carry the signed view of a constant into an operation that was unsigned | – |
| reset | an ordering comparison of one signed and one unsigned view is unsigned in the RTL and mixed in the evaluator | – |

## 9. Termination, liveness and fairness

A stage is a sequential program that nothing can delay, so fairness would only
say that the program runs.  Termination is instead checked as a ranking:
`BuildProgresses` requires that every step of `PipeBuild` decreases a measure of
phase, iterations left and schedule; it is an action property and needs no
fairness.  For the other machines termination is not a property of a run; that
none of them gets stuck before a final phase is the deadlock check, which is on
for all of them but S9 to S11, where a refused program has no successor and
`RefusedExactly` and `OnlyLateSwitchRejected` say which programs may be refused,
and the optimiser, which simply ends after its last iteration.

The RTL runs for ever, and there time is the subject.  `ValidIsDelivered` says
that what is presented as valid is followed by a valid output unless a reset
discards it.  It is checked under `FairSpec`: a driver whose operands are known
settles in the end, and the clock goes on.  Both are what hardware does: a
combinational network without cycles settles within the clock period it was
timed for, and the clock is outside the design.  Nothing is assumed of the
inputs: they may never be valid again, so the property fails for a pipeline
whose valid chain waits for a transaction behind it.  That the output appears
after exactly the promised number of cycles is the refinement
`ImplementsDelayLine`, which is safety.

## 10. What is proved, checked and left out

*Proved*: every safety property of the `rtl` run, for every legal design, every
depth, every input domain and every interpretation of the operations; every
property of the `build` run, for every well-formed program, every number of
stages and every tolerance (the optimality of the baseline for delays the
bisection can resolve; both section 7); and of the `cfg` run the shape of the
graph, for programs of any nesting (section 4): regions that account for the
cycles, blocks that stay closed, nothing for the verifier to reject; and of the
`lowering` run what S9 refuses and that its definitions dominate their uses, for
every well-formed function (section 5); and of the `normalise` run the form of
the program that S8 hands on (section 3).

*Checked only*: `ValidIsDelivered`, since liveness is beyond the prover; what the
CFGs of S4, the programs of S8, the SSA form of S9 and the graph of S11 mean; the
guards of S10; and the other stages S2 to S8.1 and the optimiser, on the bounded
families named above.  Their meanings are recursive evaluations of expressions
and statements; most of those modules use recursive operators, which the prover
does not accept.  Loops over naturals, sequences and finite sets, as in `build`
and in the clauses of a switch, are within reach.

*Not modelled*, with the reason in `PROJECT.json`: S0, which is a traversal of
Clang's data structures and has no state of its own worth the name; S1, a tree
rewrite whose result types the models take as given; the text writers but for
the value of the expressions they write; array ports and names in S11; the
driver, a fixed sequence of calls; the debug printers.

## 11. Plan

1. Proofs: that a design with `DesignInv` is a `LegalDesign` of `PipeRtl`; that
   unrolling keeps `RegionsSound`, from the theorem about S4.
2. Proofs: that the guards of S10 are exact, from `DefsDominateUses` and an
   invariant over the worlds of the definitions made so far.
3. The lemmas of the optimiser that need no evaluation: acyclicity of the graph
   through alias replacement and compaction.
4. `Driver`: first failing stage, last good debug text, early return for port
   metadata.
5. S1 in front of `Validate`: views of slices and casts.
