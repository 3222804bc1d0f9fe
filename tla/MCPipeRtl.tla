------------------------------ MODULE MCPipeRtl ------------------------------
(***************************************************************************)
(* Designs for PipeRtl: a few programs whose data paths split and join,    *)
(* with and without a valid port that the data path also reads, under      *)
(* every legal schedule and register count (PipeGraph's definitions).      *)
(* Operations are uninterpreted: a value is the term that computed it, so  *)
(* any mixture of two transactions is visible.                             *)
(***************************************************************************)
EXTENDS PipeRtl, TLC

CONSTANTS Depths, Shapes, UseReset

PG == INSTANCE PipeGraph

Term(id, operands) == <<id, operands>>

\* Signal 1 is the data input, 2 the valid input (if any), the last signal
\* the output.
Prog(args, outs, consts) ==
  [n |-> Len(args), kind |-> [i \in 1..Len(args) |-> IF i \in {1, 2} THEN "in" ELSE "op"],
   args |-> args, cost |-> [i \in 1..Len(args) |-> 1],
   width |-> [i \in 1..Len(args) |-> 1], out |-> outs]

ShapeSet ==
  [join   |-> [p |-> Prog(<<<<>>, <<>>, <<1>>, <<1, 3>>>>, {4}, {}), valid |-> TRUE],
   twoOut |-> [p |-> Prog(<<<<>>, <<>>, <<1>>, <<3>>, <<3, 1>>>>, {4, 5}, {}), valid |-> TRUE],
   guard  |-> [p |-> Prog(<<<<>>, <<>>, <<1>>, <<2, 3, 1>>>>, {4}, {}), valid |-> TRUE],
   const  |-> [p |-> Prog(<<<<>>, <<>>, <<>>, <<3, 1, 2>>, <<4, 3>>>>, {5}, {3}), valid |-> TRUE],
   plain  |-> [p |-> Prog(<<<<>>, <<>>, <<1, 2>>, <<3, 1>>>>, {4}, {}), valid |-> FALSE]]

Vectors == {<<<<v>>, b>> : v \in {"a", "b"}, b \in BOOLEAN}

\* The explicit table of a function, for TLC.
Table(f) == f @@ <<>>

Values(g, x) ==
  LET step(acc, id) ==
        [acc EXCEPT ![id] = IF id \in g.input THEN x[id]
                            ELSE Term(id, Table([i \in DOMAIN g.p.args[id] |->
                                                   acc[g.p.args[id][i]]]))]
  IN PG!FoldLeft(step, Table([id \in 1..g.p.n |-> FALSE]), g.order)

Full(name) ==
  LET s == ShapeSet[name]
  IN [vin |-> IF s.valid THEN 2 ELSE PG!NoNode, vout |-> PG!NoNode] @@ s.p

DesignOf(p, g, depth, st) ==
  LET value == Table([x \in Vectors |-> Values(g, x)])
  IN [node |-> g.live, in |-> g.input, const |-> g.const, out |-> p.out,
      args |-> Table([id \in g.live |-> p.args[id]]), depth |-> depth,
      stage |-> Table([id \in g.live |-> st[id]]),
      end |-> Table([id \in g.live |-> PG!LastUse(g, depth, st, id)]),
      vin |-> IF p.vin = PG!NoNode THEN None ELSE p.vin, reset |-> UseReset,
      x |-> Vectors, x0 |-> <<<<"a">>, FALSE>>,
      comb |-> Table([id \in g.live |-> Table([x \in Vectors |-> value[x][id]])])]

DesignsOf(name, depth) ==
  UNION {{DesignOf(Full(name), g, depth, st) :
            st \in {s \in [1..g.p.n -> 0..depth] : PG!LegalStages(g, depth, s)}} :
         g \in {PG!Analyse(Full(name))}}

Small == UNION {DesignsOf(name, depth) : name \in Shapes, depth \in Depths}
=============================================================================
