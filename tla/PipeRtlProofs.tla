---------------------------- MODULE PipeRtlProofs ----------------------------
(***************************************************************************)
(* The running pipeline keeps its transactions apart, for every legal      *)
(* design, of any size and depth, and any operations: the invariants of    *)
(* PipeRtl, and every step of it is a step of DelayLine or a stutter.      *)
(***************************************************************************)
EXTENDS PipeRtl, TLAPS

\* After a reset every register holds its reset value.
ResetRegisters == fresh => \A r \in Registers : q[r] = ResetValue(r)

IInv ==
  /\ d \in Designs
  /\ TypeOK
  /\ RegistersAligned
  /\ WiresAligned
  /\ ResetRegisters
  /\ ResetOutputs

\* A signal seen at stage s, on the wire or in a register, is the signal's
\* value for the inputs presented s cycles ago.
LEMMA SeenAligned ==
  ASSUME IInv, NEW v \in d.node \ d.const, NEW s \in 0..d.depth,
         d.stage[v] <= s, s <= d.end[v],
         s = d.stage[v] => v \in DOMAIN wire,
         line[s] # Unknown, v = d.vin \/ Valid(line[s])
  PROVE  Seen(v, s) = d.comb[v][line[s]]
<1>1. LegalDesign(d) BY DesignsAreLegal DEF IInv
<1>2. v = d.vin => v \in d.in BY <1>1 DEF LegalDesign
<1>3. CASE s = d.stage[v]
  BY <1>2, <1>3 DEF IInv, WiresAligned, Seen
<1>4. CASE s # d.stage[v]
  <2>1. d.stage[v] \in Nat /\ s \in 1..d.depth /\ d.stage[v] < s
    BY <1>1, <1>4 DEF LegalDesign
  <2>2. <<v, s>> \in Registers BY <2>1 DEF Registers
  <2>3. q[<<v, s>>] = d.comb[v][line[s]]
    BY <2>2 DEF IInv, RegistersAligned
  <2> QED BY <1>4, <2>3 DEF Seen
<1> QED BY <1>3, <1>4

-----------------------------------------------------------------------------
(* The initial states *)

LEMMA InitInv == Init => IInv
<1> SUFFICES ASSUME Init PROVE IInv
  OBVIOUS
<1>1. d \in Designs /\ LegalDesign(d) BY DesignsAreLegal DEF Init
<1>2. in # Unknown /\ d.depth \in Nat BY <1>1 DEF Init, LegalDesign
<1>3. \A r \in Registers : r[2] \in 1..d.depth BY DEF Registers
<1>4. \A k \in 1..d.depth : line[k] = Unknown BY <1>2 DEF Init
<1>5. DOMAIN wire = {} BY DEF Init, NoWires
<1>6. TypeOK
  <2>1. \A r \in Registers : r[1] = d.vin => q[r] \in BOOLEAN
    BY DEF Init
  <2>2. line \in [0..d.depth -> d.x \cup {Unknown}] /\ line[0] = in
    BY <1>2 DEF Init
  <2> QED BY <1>5, <2>1, <2>2 DEF Init, TypeOK
<1>7. RegistersAligned BY <1>3, <1>4 DEF RegistersAligned
<1>8. WiresAligned BY <1>5 DEF WiresAligned
<1>9. ResetRegisters /\ ResetOutputs BY DEF Init, ResetRegisters, ResetOutputs
<1> QED BY <1>1, <1>6, <1>7, <1>8, <1>9 DEF IInv

-----------------------------------------------------------------------------
(* A signal settles *)

\* The operands a driver reads, once the wires it waits for are there.
LEMMA OperandAligned ==
  ASSUME IInv, NEW id \in d.node \ d.in, Awaited(id) \subseteq DOMAIN wire,
         NEW i \in DOMAIN d.args[id]
  PROVE  LET v == d.args[id][i]
         IN /\ v \in d.const => Operand(id, v) = d.comb[v][d.x0]
            /\ v \notin d.const /\ line[d.stage[id]] # Unknown /\ Valid(line[d.stage[id]])
                 => Operand(id, v) = d.comb[v][line[d.stage[id]]]
            /\ v \notin d.const /\ fresh /\ d.stage[id] > 0
                 => Operand(id, v) = d.comb[v][d.x0]
<1> DEFINE v == d.args[id][i]
           s == d.stage[id]
<1>1. LegalDesign(d) BY DesignsAreLegal DEF IInv
<1>2. v \in d.node /\ s \in 0..d.depth /\ d.stage[v] \in 0..d.depth
      /\ d.end[v] \in 0..d.depth /\ d.depth \in Nat
  <2>1. d.args[id] \in Seq(d.node) BY <1>1 DEF LegalDesign
  <2>2. v \in d.node BY <2>1
  <2> QED BY <1>1, <2>2 DEF LegalDesign
<1>3. v \notin d.const => d.stage[v] <= s /\ s <= d.end[v]
  BY <1>1 DEF LegalDesign
<1>4. v \in d.const \/ s = d.stage[v] => v \in DOMAIN wire
  BY <1>2 DEF Awaited
<1>5. ASSUME v \in d.const PROVE Operand(id, v) = d.comb[v][d.x0]
  BY <1>4, <1>5 DEF Operand, IInv, WiresAligned
<1>6. ASSUME v \notin d.const, line[s] # Unknown, Valid(line[s])
      PROVE  Operand(id, v) = d.comb[v][line[s]]
  <2>1. Seen(v, s) = d.comb[v][line[s]]
    BY <1>2, <1>3, <1>4, <1>6, SeenAligned
  <2> QED BY <1>6, <2>1 DEF Operand
<1>7. ASSUME v \notin d.const, fresh, s > 0
      PROVE  Operand(id, v) = d.comb[v][d.x0]
  <2>1. CASE s = d.stage[v]
    BY <1>4, <1>7, <2>1 DEF Operand, Seen, IInv, ResetOutputs
  <2>2. CASE s # d.stage[v]
    <3>1. <<v, s>> \in Registers
      BY <1>2, <1>3, <1>7, <2>2 DEF Registers
    <3>2. q[<<v, s>>] = d.comb[v][d.x0]
      BY <1>7, <3>1 DEF IInv, ResetRegisters, ResetValue
    <3> QED BY <1>7, <2>2, <3>2 DEF Operand, Seen
  <2> QED BY <2>1, <2>2
<1> QED BY <1>5, <1>6, <1>7

LEMMA SettleInv ==
  ASSUME IInv, NEW id \in d.node, Settle(id)
  PROVE  IInv'
<1> DEFINE s == d.stage[id]
           read == [i \in DOMAIN d.args[id] |-> Operand(id, d.args[id][i])]
           ran(x) == [i \in DOMAIN d.args[id] |-> d.comb[d.args[id][i]][x]]
<1>1. LegalDesign(d) BY DesignsAreLegal DEF IInv
<1>2. UNCHANGED <<d, in, q, data, flag, line, fresh>> BY DEF Settle
<1>3. Registers' = Registers BY <1>2 DEF Registers
<1>4. /\ DOMAIN wire' = DOMAIN wire \cup {id}
      /\ \A w \in DOMAIN wire : wire'[w] = wire[w]
      /\ id \in d.in => wire'[id] = in[id]
      /\ id \notin d.in => wire'[id] = Apply(id, read)
  BY DEF Settle
<1>5. \A x : Valid(x)' = Valid(x) BY <1>2 DEF Valid
<1>6. TypeOK' BY <1>2, <1>3, <1>4 DEF IInv, TypeOK
<1>7. RegistersAligned' BY <1>2, <1>3, <1>5 DEF IInv, RegistersAligned
<1>8. ResetRegisters' BY <1>2, <1>3 DEF IInv, ResetRegisters, ResetValue
<1>9. in \in d.x /\ line[0] = in /\ s \in 0..d.depth /\ line[s] \in d.x \cup {Unknown}
  BY <1>1 DEF IInv, TypeOK, LegalDesign
<1>10. d.x0 \in d.x /\ Unknown \notin d.x BY <1>1 DEF LegalDesign
<1>11. CASE id \in d.in
  <2>1. s = 0 /\ wire'[id] = d.comb[id][line[s]] /\ id \notin d.const
    BY <1>1, <1>4, <1>9, <1>11 DEF LegalDesign
  <2>2. WiresAligned'
    BY <1>2, <1>4, <1>5, <2>1 DEF IInv, WiresAligned
  <2>3. ResetOutputs' BY <1>2, <1>4, <2>1 DEF IInv, ResetOutputs
  <2> QED BY <1>2, <1>6, <1>7, <1>8, <2>2, <2>3 DEF IInv
<1>12. CASE id \notin d.in
  <2>1. Awaited(id) \subseteq DOMAIN wire BY <1>12 DEF Settle
  <2>2. \A x \in d.x : d.comb[id][x] = Apply(id, ran(x))
    <3>1. id \in d.node \ d.in BY <1>12
    <3> QED BY <1>1, <3>1 DEF LegalDesign
  <2>3. \A i \in DOMAIN d.args[id] :
          LET v == d.args[id][i]
          IN /\ v \in d.const =>
                  /\ Operand(id, v) = d.comb[v][d.x0]
                  /\ \A x \in d.x : d.comb[v][x] = d.comb[v][d.x0]
             /\ v \notin d.const /\ line[s] # Unknown /\ Valid(line[s])
                  => Operand(id, v) = d.comb[v][line[s]]
             /\ v \notin d.const /\ fresh /\ s > 0 => Operand(id, v) = d.comb[v][d.x0]
             /\ id \in d.const => v \in d.const
    <3> TAKE i \in DOMAIN d.args[id]
    <3> DEFINE v == d.args[id][i]
    <3>1. id \in d.node \ d.in BY <1>12
    <3>2. id \in d.const => v \in d.const BY <1>1, <3>1 DEF LegalDesign
    <3>3. v \in d.const => \A x \in d.x : d.comb[v][x] = d.comb[v][d.x0]
      BY <1>1, <1>10 DEF LegalDesign
    <3> QED BY <2>1, <3>1, <3>2, <3>3, OperandAligned
  <2>4. ASSUME id \in d.const PROVE wire'[id] = d.comb[id][d.x0]
    <3>1. read = ran(d.x0) BY <2>3, <2>4
    <3> QED BY <1>4, <1>10, <1>12, <2>2, <3>1
  <2>5. ASSUME line[s] # Unknown, Valid(line[s])
        PROVE  wire'[id] = d.comb[id][line[s]]
    <3>1. line[s] \in d.x BY <1>9, <2>5
    <3>2. read = ran(line[s]) BY <2>3, <2>5, <3>1
    <3> QED BY <1>4, <1>12, <2>2, <3>1, <3>2
  <2>6. ASSUME fresh, s > 0 PROVE wire'[id] = d.comb[id][d.x0]
    <3>1. read = ran(d.x0) BY <2>3, <2>6
    <3> QED BY <1>4, <1>10, <1>12, <2>2, <3>1
  <2>7. WiresAligned'
    BY <1>2, <1>4, <1>5, <1>12, <2>4, <2>5 DEF IInv, WiresAligned
  <2>8. ResetOutputs' BY <1>2, <1>4, <2>6 DEF IInv, ResetOutputs
  <2> QED BY <1>2, <1>6, <1>7, <1>8, <2>7, <2>8 DEF IInv
<1> QED BY <1>11, <1>12

-----------------------------------------------------------------------------
(* A clock edge *)

\* With every wire settled, the valid signal is a bit wherever it is read.
LEMMA ValidIsBit ==
  ASSUME IInv, DOMAIN wire = d.node, d.vin # None, NEW s \in 0..d.depth
  PROVE  Seen(d.vin, s) \in BOOLEAN
<1>1. LegalDesign(d) BY DesignsAreLegal DEF IInv
<1>2. d.vin \in d.node \ d.const /\ d.vin \in d.in /\ d.stage[d.vin] = 0
      /\ d.end[d.vin] = d.depth /\ d.depth \in Nat
  BY <1>1 DEF LegalDesign
<1>3. CASE s = 0
  <2>1. in \in d.x /\ line[0] = in /\ in # Unknown
    BY <1>1 DEF IInv, TypeOK, LegalDesign
  <2>2. wire[d.vin] = d.comb[d.vin][in]
    BY <1>2, <2>1 DEF IInv, WiresAligned
  <2>3. d.comb[d.vin][in] = in[d.vin] /\ in[d.vin] \in BOOLEAN
    BY <1>1, <1>2, <2>1 DEF LegalDesign
  <2> QED BY <1>2, <1>3, <2>2, <2>3 DEF Seen
<1>4. CASE s # 0
  <2>1. <<d.vin, s>> \in Registers BY <1>2, <1>4 DEF Registers
  <2> QED BY <1>2, <1>4, <2>1 DEF IInv, TypeOK, Seen
<1> QED BY <1>3, <1>4

LEMMA ClockInv ==
  ASSUME IInv, NEW reset \in {FALSE, d.reset}, NEW next \in d.x, Clock(reset, next)
  PROVE  IInv'
<1>1. LegalDesign(d) BY DesignsAreLegal DEF IInv
<1>2. /\ DOMAIN wire = d.node
      /\ d' = d /\ in' = next /\ fresh' = reset /\ flag' = ValidNow
      /\ DOMAIN wire' = {}
  BY DEF Clock, NoWires
<1>3. d.depth \in Nat /\ d.x0 \in d.x /\ Unknown \notin d.x BY <1>1 DEF LegalDesign
<1>4. line' = [k \in 0..d.depth |->
                 IF k = 0 THEN next ELSE IF reset THEN d.x0 ELSE line[k - 1]]
  BY DEF Clock
<1>5. Registers' = Registers BY <1>2 DEF Registers
<1>6. DOMAIN q' = Registers /\ \A r \in Registers : q'[r] = Load(r, reset)
  BY DEF Clock
<1>7. \A x : Valid(x)' = Valid(x) BY <1>2 DEF Valid
<1>8. \A r \in Registers :
        /\ r[1] \in d.node \ d.const /\ r[2] \in 1..d.depth
        /\ r[2] - 1 \in 0..d.depth
        /\ d.stage[r[1]] <= r[2] - 1 /\ r[2] - 1 <= d.end[r[1]]
  <2> TAKE r \in Registers
  <2>1. r[1] \in d.node \ d.const /\ r[2] \in 1..d.depth
        /\ d.stage[r[1]] < r[2] /\ r[2] <= d.end[r[1]]
    BY DEF Registers
  <2>2. d.stage[r[1]] \in 0..d.depth /\ d.end[r[1]] \in 0..d.depth
    BY <1>1, <2>1 DEF LegalDesign
  <2> QED BY <1>3, <2>1, <2>2
<1>9. ASSUME NEW r \in Registers, r[1] = d.vin PROVE q'[r] \in BOOLEAN
  <2>1. d.vin # None BY <1>1, <1>8, <1>9 DEF LegalDesign
  <2>2. Seen(d.vin, r[2] - 1) \in BOOLEAN BY <1>2, <1>8, <2>1, ValidIsBit
  <2>3. ResetValue(r) \in BOOLEAN
    <3>1. d.vin \in d.in /\ d.x0[d.vin] \in BOOLEAN BY <1>1, <2>1 DEF LegalDesign
    <3>2. d.comb[d.vin][d.x0] = d.x0[d.vin] BY <1>1, <3>1 DEF LegalDesign
    <3> QED BY <1>9, <3>1, <3>2 DEF ResetValue
  <2> QED BY <1>6, <1>9, <2>2, <2>3 DEF Load, Enabled
<1>10. TypeOK'
  <2>1. flag' \in BOOLEAN
    <3>1. d.depth \in 0..d.depth BY <1>3
    <3> QED BY <1>2, <3>1, ValidIsBit DEF ValidNow
  <2>2. line' \in [0..d.depth -> d.x \cup {Unknown}]
    <3>1. line \in [0..d.depth -> d.x \cup {Unknown}] BY DEF IInv, TypeOK
    <3>2. \A k \in 0..d.depth : k # 0 => k - 1 \in 0..d.depth BY <1>3
    <3> QED BY <1>3, <1>4, <3>1, <3>2
  <2>3. line'[0] = next BY <1>3, <1>4
  <2> QED BY <1>2, <1>5, <1>6, <1>9, <2>1, <2>2, <2>3 DEF TypeOK
<1>11. ASSUME NEW r \in Registers, line'[r[2]] # Unknown,
              r[1] = d.vin \/ Valid(line'[r[2]])
       PROVE  q'[r] = d.comb[r[1]][line'[r[2]]]
  <2>1. line'[r[2]] = IF reset THEN d.x0 ELSE line[r[2] - 1]
    BY <1>3, <1>4, <1>8
  <2>2. CASE reset
    BY <1>6, <2>1, <2>2 DEF Load, ResetValue
  <2>3. CASE ~reset
    <3>1. line'[r[2]] = line[r[2] - 1] BY <2>1, <2>3
    <3>2. Seen(r[1], r[2] - 1) = d.comb[r[1]][line[r[2] - 1]]
      BY <1>2, <1>8, <1>11, <3>1, SeenAligned
    <3>3. Enabled(r)
      <4>1. CASE r[1] = d.vin \/ d.vin = None BY <4>1 DEF Enabled
      <4>2. CASE r[1] # d.vin /\ d.vin # None
        <5>1. d.vin \in d.node \ d.const /\ d.vin \in d.in /\ d.stage[d.vin] = 0
              /\ d.end[d.vin] = d.depth
          BY <1>1, <4>2 DEF LegalDesign
        <5>2. Seen(d.vin, r[2] - 1) = d.comb[d.vin][line[r[2] - 1]]
          BY <1>2, <1>3, <1>8, <1>11, <3>1, <5>1, SeenAligned
        <5>3. line[r[2] - 1] \in d.x
          BY <1>8, <1>11, <3>1 DEF IInv, TypeOK
        <5>4. d.comb[d.vin][line[r[2] - 1]] = line[r[2] - 1][d.vin]
              /\ line[r[2] - 1][d.vin] \in BOOLEAN
          BY <1>1, <4>2, <5>1, <5>3 DEF LegalDesign
        <5> QED BY <1>11, <3>1, <4>2, <5>2, <5>4 DEF Enabled, Valid
      <4> QED BY <4>1, <4>2
    <3> QED BY <1>6, <2>3, <3>1, <3>2, <3>3 DEF Load
  <2> QED BY <2>2, <2>3
<1>12. RegistersAligned' BY <1>2, <1>5, <1>7, <1>11 DEF RegistersAligned
<1>13. WiresAligned' /\ ResetOutputs' BY <1>2 DEF WiresAligned, ResetOutputs
<1>14. ResetRegisters'
  BY <1>2, <1>5, <1>6 DEF ResetRegisters, ResetValue, Load
<1> QED BY <1>2, <1>10, <1>12, <1>13, <1>14 DEF IInv

-----------------------------------------------------------------------------
(* The theorems *)

LEMMA NextInv == IInv /\ [Next]_vars => IInv'
<1> SUFFICES ASSUME IInv, [Next]_vars PROVE IInv'
  OBVIOUS
<1>1. CASE \E id \in d.node : Settle(id)
  BY <1>1, SettleInv
<1>2. CASE \E reset \in {FALSE, d.reset}, next \in d.x : Clock(reset, next)
  BY <1>2, ClockInv
<1>3. CASE UNCHANGED vars
  <2>1. Registers' = Registers /\ \A x : Valid(x)' = Valid(x)
    BY <1>3 DEF vars, Registers, Valid
  <2> QED BY <1>3, <2>1 DEF vars, IInv, TypeOK, RegistersAligned, WiresAligned,
                           ResetRegisters, ResetOutputs, ResetValue
<1> QED BY <1>1, <1>2, <1>3 DEF Next

LEMMA Invariance == Spec => []IInv
BY InitInv, NextInv, PTL DEF Spec

\* The running pipeline keeps its types: its registers are those of the
\* delay chains, and a valid register or output is a bit.
THEOREM TypeCorrect == Spec => []TypeOK
<1>1. IInv => TypeOK BY DEF IInv
<1> QED BY <1>1, Invariance, PTL

\* For every legal schedule, a register of stage s never holds data of any
\* other transaction than the one presented s cycles ago (build's delay
\* chains and valid enables, rtlgen's always_ff block).
THEOREM RegistersCorrect == Spec => []RegistersAligned
<1>1. IInv => RegistersAligned BY DEF IInv
<1> QED BY <1>1, Invariance, PTL

\* A wire never mixes operands of two transactions.
THEOREM WiresCorrect == Spec => []WiresAligned
<1>1. IInv => WiresAligned BY DEF IInv
<1> QED BY <1>1, Invariance, PTL

\* After a reset the outputs are those of the input reset values.
THEOREM ResetCorrect == Spec => []ResetOutputs
<1>1. IInv => ResetOutputs BY DEF IInv
<1> QED BY <1>1, Invariance, PTL

\* A clock edge is a step of the delay line.
LEMMA ClockRefines ==
  ASSUME IInv, NEW reset \in {FALSE, d.reset}, NEW next \in d.x, Clock(reset, next)
  PROVE  Line!Next
<1> DEFINE oldest == line[d.depth]
<1>1. LegalDesign(d) BY DesignsAreLegal DEF IInv
<1>2. d.depth \in 0..d.depth BY <1>1 DEF LegalDesign
<1>3. Promise.depth = d.depth /\ Promise.x = d.x /\ Promise.x0 = d.x0
      /\ Promise.reset = d.reset /\ Promise' = Promise
      /\ Promise.valid = [x \in d.x |-> Valid(x)]
      /\ Promise.result = [x \in d.x |-> [id \in d.out |-> d.comb[id][x]]]
  BY DEF Promise, Clock, Valid
<1>4. line' = [k \in 0..d.depth |->
                 IF k = 0 THEN next ELSE IF reset THEN d.x0 ELSE line[k - 1]]
  BY DEF Clock
<1>5. ASSUME oldest # Unknown
      PROVE  /\ flag' = Promise.valid[oldest]
             /\ Promise.valid[oldest] => data' = Promise.result[oldest]
  <2>1. oldest \in d.x BY <1>2, <1>5 DEF IInv, TypeOK
  <2>2. flag' = Valid(oldest)
    <3>1. CASE d.vin = None BY <3>1 DEF Clock, ValidNow, Valid
    <3>2. CASE d.vin # None
      <4>1. d.vin \in d.node \ d.const /\ d.vin \in d.in /\ d.stage[d.vin] = 0
            /\ d.end[d.vin] = d.depth /\ d.depth \in Nat
        BY <1>1, <3>2 DEF LegalDesign
      <4>2. Seen(d.vin, d.depth) = d.comb[d.vin][oldest]
        BY <1>2, <1>5, <4>1, SeenAligned DEF Clock
      <4>3. d.comb[d.vin][oldest] = oldest[d.vin]
        BY <1>1, <2>1, <4>1 DEF LegalDesign
      <4> QED BY <3>2, <4>2, <4>3 DEF Clock, ValidNow, Valid
    <3> QED BY <3>1, <3>2
  <2>3. ASSUME Valid(oldest), NEW id \in d.out PROVE wire[id] = d.comb[id][oldest]
    <3>1. id \in d.node /\ d.stage[id] = d.depth BY <1>1 DEF LegalDesign
    <3>2. id \in DOMAIN wire BY <3>1 DEF Clock
    <3>3. oldest = line[d.stage[id]] BY <3>1
    <3> HIDE DEF oldest
    <3> QED BY <1>5, <2>3, <3>2, <3>3 DEF IInv, WiresAligned
  <2>4. Valid(oldest) => data' = [id \in d.out |-> d.comb[id][oldest]]
    BY <2>3 DEF Clock
  <2>5. Promise.valid[oldest] = Valid(oldest)
        /\ Promise.result[oldest] = [id \in d.out |-> d.comb[id][oldest]]
    BY <1>3, <2>1
  <2> QED BY <2>2, <2>4, <2>5
<1>6. Line!Edge(next, reset)
  <2>1. line[Promise.depth] = oldest BY <1>3
  <2>2. line' = [k \in 0..Promise.depth |->
                   IF k = 0 THEN next ELSE IF reset THEN Promise.x0 ELSE line[k - 1]]
    BY <1>3, <1>4
  <2> HIDE DEF oldest
  <2> QED BY <1>3, <1>5, <2>1, <2>2 DEF Line!Edge
<1>7. next \in Promise.x /\ reset \in {FALSE, Promise.reset} BY <1>3
<1> QED BY <1>6, <1>7 DEF Line!Next

LEMMA StepRefines == IInv /\ [Next]_vars => [Line!Next]_Line!vars
<1> SUFFICES ASSUME IInv, [Next]_vars PROVE [Line!Next]_Line!vars
  OBVIOUS
<1>1. CASE \E id \in d.node : Settle(id)
  BY <1>1 DEF Settle, Line!vars, Promise, Valid
<1>2. CASE \E reset \in {FALSE, d.reset}, next \in d.x : Clock(reset, next)
  BY <1>2, ClockRefines
<1>3. CASE UNCHANGED vars
  BY <1>3 DEF vars, Line!vars, Promise, Valid
<1> QED BY <1>1, <1>2, <1>3 DEF Next

\* The pipeline of a legal schedule is the delay line of its program, for
\* any operations: fixed latency, order kept, one result per transaction.
THEOREM PipelineIsDelayLine == Spec => ImplementsDelayLine
<1>1. Init => Line!Init
  <2> SUFFICES ASSUME Init PROVE Line!Init
    OBVIOUS
  <2>1. d.depth \in Nat BY DesignsAreLegal DEF Init, LegalDesign
  <2> QED BY <2>1 DEF Init, Line!Init, Promise
<1> QED BY <1>1, Invariance, StepRefines, PTL DEF Spec, ImplementsDelayLine, Line!Spec

=============================================================================
