------------------------------ MODULE DelayLine ------------------------------
(***************************************************************************)
(* What a pipelined module promises at its ports (the comment on           *)
(* PipelineReport in rtlzz.hpp and the pipeline section of index.ai.md):   *)
(* the results of a transaction are sampled a fixed number of cycles after *)
(* its inputs were presented, one transaction per cycle, in order, and the *)
(* valid output is the valid input delayed by the same number of cycles.   *)
(* Reset behaves as if the reset inputs had been presented all along.      *)
(*                                                                         *)
(* The promise is a record: depth (the register stages), x (the input      *)
(* vectors), x0 (the reset inputs), reset (whether there is a reset),      *)
(* valid [x -> BOOLEAN] and result [x -> outputs].                         *)
(***************************************************************************)
EXTENDS Integers

CONSTANT Unknown  \* what the line holds at power-up

VARIABLES
  promise,
  line,           \* line[k]: the inputs presented k cycles ago
  data, flag      \* the data and valid outputs last sampled

vars == <<promise, line, data, flag>>

Init ==
  /\ line[0] \in promise.x
  /\ line = [k \in 0..promise.depth |-> IF k = 0 THEN line[0] ELSE Unknown]

\* One clock edge: sample the outputs of the oldest inputs, shift the line.
Edge(next, reset) ==
  LET oldest == line[promise.depth]
  IN /\ line' = [k \in 0..promise.depth |->
                   IF k = 0 THEN next ELSE IF reset THEN promise.x0 ELSE line[k - 1]]
     /\ oldest # Unknown =>
          /\ flag' = promise.valid[oldest]
          /\ promise.valid[oldest] => data' = promise.result[oldest]
     /\ UNCHANGED promise

Next == \E next \in promise.x, reset \in {FALSE, promise.reset} : Edge(next, reset)

Spec == Init /\ [][Next]_vars
=============================================================================
