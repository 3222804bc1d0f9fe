--------------------------------- MODULE Beir ---------------------------------
(***************************************************************************)
(* Stage S11 (src/src/s11beir/S11BEIR.cpp): the definitions become a graph *)
(* of signals whose drivers have no guards.  Inputs are read from their    *)
(* ports, the initial value of an output is the constant zero, and every   *)
(* output port is driven by the final value of its variable.               *)
(*                                                                         *)
(* The first signals are the values of stage S10, with the same ids; one   *)
(* per output port and one per table of a dynamic read follow.             *)
(*                                                                         *)
(* The backend's program (src/src/backend/beir.hpp): a graph of signals,   *)
(* each with a width and at most one driver, an operation on literals and  *)
(* other signals.  Nothing is guarded: every driver holds at all times.    *)
(*                                                                         *)
(*   signals   Seq of [w, driver]; a NodeId is an index                    *)
(*   outputs   Seq of [x, node]: the signal each output port shows         *)
(***************************************************************************)
EXTENDS Predicate

Driver(op, args) == [op |-> op, args |-> args]
NoDriver == Driver("none", <<>>)
EmptyGraph == [signals |-> <<>>, outputs |-> <<>>, ok |-> TRUE]

Nodes(g) == DOMAIN g.signals
AddSignal(g, w) == [g EXCEPT !.signals = Append(@, [w |-> w, driver |-> NoDriver])]
LastNode(g) == Len(g.signals)

\* A second driver of a signal is an error.
SetDriver(g, n, op, args) ==
  IF g.signals[n].driver # NoDriver THEN [g EXCEPT !.ok = FALSE]
  ELSE [g EXCEPT !.signals[n].driver = Driver(op, args)]

-----------------------------------------------------------------------------
(* What the graph shows for given inputs: signals take their value once    *)
(* the operands of their drivers have one.  A signal on a cycle, or one    *)
(* that no driver leads to, has none.                                      *)

Operands(d) == IF d.op = "port" THEN {} ELSE {a.v : a \in {o \in ToSet(d.args) : o.kind = "val"}}

NodeValue(known, input, s) ==
  LET d == s.driver
      v == [i \in DOMAIN d.args |-> IF d.args[i].kind = "lit" THEN d.args[i].v ELSE known[d.args[i].v]]
  IN CASE d.op = "port" -> input[d.args[1]]
       [] d.op = "aggregate" -> v
       [] d.op = "access" -> IF v[2] + 1 \in DOMAIN v[1] THEN v[1][v[2] + 1] ELSE 0
       [] OTHER -> OpValue(d.op, s.w, v)

Settle(g, input, known) ==
  LET visit(m, n) ==
        IF n \in DOMAIN m \/ g.signals[n].driver = NoDriver
           \/ ~(Operands(g.signals[n].driver) \subseteq DOMAIN m)
        THEN m ELSE m @@ (n :> NodeValue(m, input, g.signals[n]))
  IN FoldLeft(visit, known, [n \in Nodes(g) |-> n])

Evaluate(g, input) ==
  LET pass[k \in 0..Len(g.signals)] ==
        IF k = 0 THEN <<>>
        ELSE LET before == pass[k - 1]
             IN IF DOMAIN before = Nodes(g) THEN before ELSE Settle(g, input, before)
  IN pass[Len(g.signals)]

\* Acyclic, with a driver for every signal.
WellDriven(g, input) == DOMAIN Evaluate(g, input) = Nodes(g)

-----------------------------------------------------------------------------
VARIABLE graph

beirVars == <<predVars, graph>>

\* The port whose variable starts with value v.
InitialOf(x) ==
  CHOOSE v \in DOMAIN ssa.values : ssa.values[v].kind = "initial" /\ ssa.values[v].base = x

\* createPortsAndInputDrivers, driveOutputInitials
CreatePort(g, port) ==
  LET w == fn.types[port.x].w
      h == AddSignal(g, w)
  IN IF port.dir = "in" THEN SetDriver(g, InitialOf(port.x), "port", <<port.x>>)
     ELSE [h EXCEPT !.outputs = Append(@, [x |-> port.x, node |-> LastNode(h)])]
DriveOutputInitial(g, x) == SetDriver(g, InitialOf(x), "copy", <<Lit(0, fn.types[x])>>)

\* Mutant: two elements need no table either.
EmitFirst(g, d) ==
  IF Len(d.args) <= 3 THEN SetDriver(g, d.x, "copy", <<d.args[2]>>)
  ELSE LET h == AddSignal(g, pred.values[d.x].t.w)
       IN SetDriver(SetDriver(h, LastNode(h), "aggregate", Tail(d.args)), d.x,
                    "access", <<Val(LastNode(h)), d.args[1]>>)

\* lowerLookup: a table of the elements, read at the index; a single element
\* needs no table.
EmitLookup(g, d) ==
  LET h == AddSignal(g, pred.values[d.x].t.w)
      table == SetDriver(h, LastNode(h), "aggregate", Tail(d.args))
  IN IF Len(d.args) = 2 THEN SetDriver(g, d.x, "copy", <<d.args[2]>>)
     ELSE SetDriver(table, d.x, "access", <<Val(LastNode(h)), d.args[1]>>)

EmitDefinition(g, d) ==
  IF d.k = "lookup" THEN EmitLookup(g, d) ELSE SetDriver(g, d.x, d.op, d.args)

BindOutput(g, port) == SetDriver(g, port.node, "copy", <<Val(ssa.finals[port.x])>>)

-----------------------------------------------------------------------------
(* The stage *)

BeirInit == PredInit /\ graph = EmptyGraph

CreatePorts ==
  /\ phase = "predicated"
  /\ phase' = "graph"
  /\ todo' = [i \in DOMAIN pred.defs |-> i]
  /\ LET values == FoldLeft(LAMBDA g, v : AddSignal(g, v.t.w), EmptyGraph, pred.values)
         ports == FoldLeft(CreatePort, values, fn.ports)
     IN graph' = FoldLeft(DriveOutputInitial, ports, Ascending(OutputPorts(fn)))
  /\ UNCHANGED <<fn, live, ssa, pred>>

EmitNext ==
  /\ phase = "graph" /\ todo # <<>>
  /\ graph' = EmitDefinition(graph, pred.defs[Head(todo)])
  /\ todo' = Tail(todo)
  /\ UNCHANGED <<fn, phase, live, ssa, pred>>

BindOutputs ==
  /\ phase = "graph" /\ todo = <<>>
  /\ graph' = FoldLeft(BindOutput, graph, graph.outputs)
  /\ phase' = IF graph'.ok THEN "beir" ELSE "failed"
  /\ UNCHANGED <<fn, live, todo, ssa, pred>>

BeirNext == (PredNext /\ UNCHANGED graph) \/ CreatePorts \/ EmitNext \/ BindOutputs
BeirSpec == BeirInit /\ [][BeirNext]_beirVars

-----------------------------------------------------------------------------
(* Properties *)

\* The graph has one driver for every signal and no cycle, and shows at its
\* outputs what the function computes before S9, for every input: erasing the
\* guards loses nothing (build, emitDefinition).
GraphComputesProgram ==
  /\ phase # "failed"
  /\ phase = "beir" => \A input \in Inputs(fn) :
       /\ WellDriven(graph, input)
       /\ LET value == Evaluate(graph, input)
          IN \A p \in ToSet(graph.outputs) : value[p.node] = Outputs(fn, input)[p.x]
=============================================================================
