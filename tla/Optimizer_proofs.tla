-------------------------- MODULE Optimizer_proofs --------------------------
(***************************************************************************)
(* What the optimizer guarantees for every circuit the builder can finish. *)
(***************************************************************************)
EXTENDS Optimizer, Tape_proofs, FiniteSetTheorems

-----------------------------------------------------------------------------
(* Typed circuits.                                                         *)

\* The instructions a circuit of this interface is made of.
Instructions(c) ==
  [kind : {"Const"}, value : BOOLEAN]
  \cup [kind : {"Input"}, index : 1 .. c.input_count]
  \cup [kind : {"RegisterOutput"}, reg : DOMAIN c.regs]
  \cup [kind : {"Gate"}, op : GateOp, ins : Seq(Nat)]

\* A gate has as many operands as its operation takes, of those before it.
Reads(op, ins, below) == ins \in [1 .. arity(op) -> 1 .. below] /\ Len(ins) = arity(op)

NodesOf(c) ==
  {q \in Seq(Instructions(c)) :
     \A id \in 1 .. Len(q) : IsGate(q[id]) => Reads(q[id].op, q[id].ins, id - 1)}

\* The values of the inputs and of the registers.
Environment(c, e) == e.inputs \in [1 .. c.input_count -> BOOLEAN] /\ e.state \in [DOMAIN c.regs -> BOOLEAN]

\* v has the value of every node.
Consistent(q, v, e) ==
  \A id \in 1 .. Len(q) : v[id] \in BOOLEAN /\ v[id] = InstValue(q[id], v, e.inputs, e.state)

\* The arity of an operation.
LEMMA Arities ==
  /\ \A op \in GateOp : arity(op) \in 1 .. 3
  /\ \A op \in Commutative : op \in GateOp /\ arity(op) = 2
  /\ \A op \in Unary : op \in GateOp /\ arity(op) = 1
  /\ "Mux" \in GateOp /\ arity("Mux") = 3
BY DEF arity, GateOp, Unary, Commutative

\* An instruction is one of four kinds.
LEMMA Kinds ==
  ASSUME NEW c, NEW inst \in Instructions(c)
  PROVE  /\ inst.kind \in {"Const", "Input", "RegisterOutput", "Gate"}
         /\ inst.kind = "Const" => inst = Const(inst.value) /\ inst.value \in BOOLEAN
         /\ inst.kind = "Input" => inst = Input(inst.index) /\ inst.index \in 1 .. c.input_count
         /\ inst.kind = "RegisterOutput" => inst = RegisterOutput(inst.reg) /\ inst.reg \in DOMAIN c.regs
         /\ IsGate(inst) => inst = Gate(inst.op, inst.ins) /\ inst.op \in GateOp /\ inst.ins \in Seq(Nat)
<1>1. CASE inst \in [kind : {"Const"}, value : BOOLEAN]
  BY <1>1 DEF Const, IsGate
<1>2. CASE inst \in [kind : {"Input"}, index : 1 .. c.input_count]
  BY <1>2 DEF Input, IsGate
<1>3. CASE inst \in [kind : {"RegisterOutput"}, reg : DOMAIN c.regs]
  BY <1>3 DEF RegisterOutput, IsGate
<1>4. CASE inst \in [kind : {"Gate"}, op : GateOp, ins : Seq(Nat)]
  BY <1>4 DEF Gate, IsGate
<1>. QED BY <1>1, <1>2, <1>3, <1>4 DEF Instructions

\* The instructions of the four kinds.
LEMMA Made ==
  ASSUME NEW c
  PROVE  /\ \A v \in BOOLEAN : Const(v) \in Instructions(c) /\ Const(v).kind = "Const" /\ Const(v).value = v
         /\ \A i \in 1 .. c.input_count : Input(i) \in Instructions(c)
         /\ \A r \in DOMAIN c.regs : RegisterOutput(r) \in Instructions(c)
         /\ \A op \in GateOp : \A ins \in Seq(Nat) :
              /\ Gate(op, ins) \in Instructions(c) /\ IsGate(Gate(op, ins))
              /\ Gate(op, ins).op = op /\ Gate(op, ins).ins = ins
BY DEF Instructions, Const, Input, RegisterOutput, Gate, IsGate

\* The operands of a gate are the signals it reads.
LEMMA OperandsRead ==
  ASSUME NEW inst, IsGate(inst), NEW below \in Nat, inst.op \in GateOp, Reads(inst.op, inst.ins, below)
  PROVE  /\ Operands(inst) = {inst.ins[i] : i \in 1 .. arity(inst.op)}
         /\ Operands(inst) \subseteq 1 .. below /\ inst.ins[1] \in Operands(inst)
<1>1. DOMAIN inst.ins = 1 .. arity(inst.op) /\ arity(inst.op) \in 1 .. 3
  BY Arities DEF Reads
<1>2. Operands(inst) = {inst.ins[i] : i \in 1 .. arity(inst.op)}
  BY <1>1 DEF Operands, ToSet
<1>3. \A i \in 1 .. arity(inst.op) : inst.ins[i] \in 1 .. below
  BY DEF Reads
<1>4. 1 \in 1 .. arity(inst.op)
  BY <1>1
<1>. QED BY <1>2, <1>3, <1>4

\* value is the operation applied to the values of its operands.
Applied(op, ins, v, value) ==
  /\ arity(op) = 1 => value = Apply(op, v[ins[1]], FALSE, FALSE)
  /\ arity(op) = 2 => value = Apply(op, v[ins[1]], v[ins[2]], FALSE)
  /\ arity(op) = 3 => value = Apply(op, v[ins[1]], v[ins[2]], v[ins[3]])

\* The value of a gate is its operation applied to those of its operands.
LEMMA GateValue ==
  ASSUME NEW inst, IsGate(inst), NEW below, Reads(inst.op, inst.ins, below),
         NEW v, NEW inputs, NEW state
  PROVE  Applied(inst.op, inst.ins, v, InstValue(inst, v, inputs, state))
<1>. DEFINE op == inst.op
            ins == inst.ins
            at(i) == IF i <= Len(ins) THEN v[ins[i]] ELSE FALSE
<1>2. InstValue(inst, v, inputs, state) = Apply(op, at(1), at(2), at(3))
  BY DEF InstValue, IsGate
<1>3. Len(ins) = arity(op)
  BY DEF Reads
<1>4. arity(op) = 1 => at(1) = v[ins[1]] /\ at(2) = FALSE /\ at(3) = FALSE
  BY <1>3
<1>5. arity(op) = 2 => at(1) = v[ins[1]] /\ at(2) = v[ins[2]] /\ at(3) = FALSE
  BY <1>3
<1>6. arity(op) = 3 => at(1) = v[ins[1]] /\ at(2) = v[ins[2]] /\ at(3) = v[ins[3]]
  BY <1>3
<1>. HIDE DEF at
<1>. QED BY <1>2, <1>4, <1>5, <1>6 DEF Applied

\* The values of instructions that are not gates.
LEMMA SourceValue ==
  ASSUME NEW inst, NEW v, NEW inputs, NEW state
  PROVE  /\ inst.kind = "Const" => InstValue(inst, v, inputs, state) = inst.value
         /\ inst.kind = "Input" => InstValue(inst, v, inputs, state) = inputs[inst.index]
         /\ inst.kind = "RegisterOutput" => InstValue(inst, v, inputs, state) = state[inst.reg]
BY DEF InstValue, IsGate

\* An instruction has a Boolean value.
LEMMA ValueType ==
  ASSUME NEW c, NEW inst \in Instructions(c), NEW e, Environment(c, e), NEW v
  PROVE  InstValue(inst, v, e.inputs, e.state) \in BOOLEAN
<1>1. CASE inst.kind = "Const"
  BY <1>1, Kinds, SourceValue
<1>2. CASE inst.kind = "Input"
  BY <1>2, Kinds, SourceValue DEF Environment
<1>3. CASE inst.kind = "RegisterOutput"
  BY <1>3, Kinds, SourceValue DEF Environment
<1>4. CASE inst.kind = "Gate"
  BY <1>4, ApplyType DEF InstValue, IsGate
<1>. QED BY <1>1, <1>2, <1>3, <1>4, Kinds

\* An instruction reads nothing but its operands.
LEMMA ValueReads ==
  ASSUME NEW c, NEW inst \in Instructions(c), NEW below \in Nat,
         IsGate(inst) => Reads(inst.op, inst.ins, below), NEW v, NEW w, NEW inputs, NEW state,
         \A x \in Operands(inst) : v[x] = w[x]
  PROVE  InstValue(inst, v, inputs, state) = InstValue(inst, w, inputs, state)
<1>1. CASE ~IsGate(inst)
  <2>1. inst.kind \in {"Const", "Input", "RegisterOutput"}
    BY <1>1, Kinds DEF IsGate
  <2>. QED BY <2>1, Kinds, SourceValue
<1>2. CASE IsGate(inst)
  <2>1. IsGate(inst) /\ inst.op \in GateOp /\ Reads(inst.op, inst.ins, below)
    BY <1>2, Kinds
  <2>2. \A i \in 1 .. arity(inst.op) : v[inst.ins[i]] = w[inst.ins[i]]
    BY <1>2, <2>1, OperandsRead
  <2>3. arity(inst.op) \in 1 .. 3
    BY <2>1, Arities
  <2>7. /\ Applied(inst.op, inst.ins, v, InstValue(inst, v, inputs, state))
        /\ Applied(inst.op, inst.ins, w, InstValue(inst, w, inputs, state))
    BY <2>1, GateValue
  <2>4. CASE arity(inst.op) = 1
    <3>1. v[inst.ins[1]] = w[inst.ins[1]]
      BY <2>2, <2>4
    <3>. QED BY <2>4, <2>7, <3>1 DEF Applied
  <2>5. CASE arity(inst.op) = 2
    <3>1. v[inst.ins[1]] = w[inst.ins[1]] /\ v[inst.ins[2]] = w[inst.ins[2]]
      BY <2>2, <2>5
    <3>. QED BY <2>5, <2>7, <3>1 DEF Applied
  <2>6. CASE arity(inst.op) = 3
    <3>1. v[inst.ins[1]] = w[inst.ins[1]] /\ v[inst.ins[2]] = w[inst.ins[2]] /\ v[inst.ins[3]] = w[inst.ins[3]]
      BY <2>2, <2>6
    <3>. QED BY <2>6, <2>7, <3>1 DEF Applied
  <2>. QED BY <2>3, <2>4, <2>5, <2>6
<1>. QED BY <1>1, <1>2

\* What a member of a node list is.
LEMMA Nodes ==
  ASSUME NEW c, NEW q \in NodesOf(c)
  PROVE  /\ q \in Seq(Instructions(c)) /\ Len(q) \in Nat /\ DOMAIN q = 1 .. Len(q)
         /\ \A id \in 1 .. Len(q) :
              /\ q[id] \in Instructions(c) /\ id - 1 \in Nat
              /\ IsGate(q[id]) => q[id].op \in GateOp /\ Reads(q[id].op, q[id].ins, id - 1)
              /\ Operands(q[id]) \subseteq 1 .. id - 1
<1>1. q \in Seq(Instructions(c)) /\ Len(q) \in Nat /\ DOMAIN q = 1 .. Len(q)
  BY DEF NodesOf
<1>2. ASSUME NEW id \in 1 .. Len(q)
      PROVE  /\ q[id] \in Instructions(c) /\ id - 1 \in Nat
             /\ IsGate(q[id]) => q[id].op \in GateOp /\ Reads(q[id].op, q[id].ins, id - 1)
             /\ Operands(q[id]) \subseteq 1 .. id - 1
  <2>1. q[id] \in Instructions(c) /\ id - 1 \in Nat
    BY <1>1
  <2>2. IsGate(q[id]) => q[id].op \in GateOp /\ Reads(q[id].op, q[id].ins, id - 1)
    BY <2>1, Kinds DEF NodesOf
  <2>3. CASE IsGate(q[id])
    BY <2>1, <2>2, <2>3, OperandsRead
  <2>4. CASE ~IsGate(q[id])
    BY <2>1, <2>2, <2>4 DEF Operands
  <2>. QED BY <2>1, <2>2, <2>3, <2>4
<1>. QED BY <1>1, <1>2

\* A node list has one consistent assignment of values.
LEMMA ConsistentUnique ==
  ASSUME NEW c, NEW q \in NodesOf(c), NEW e, NEW v, NEW w, Consistent(q, v, e), Consistent(q, w, e)
  PROVE  \A id \in 1 .. Len(q) : v[id] = w[id]
<1>. DEFINE n == Len(q)
            S == {k \in 0 .. n : \A id \in 1 .. k : v[id] = w[id]}
<1>1. n \in Nat /\ 0 \in Nat
  BY Nodes
<1>2. 0 \in S
  BY <1>1
<1>3. ASSUME NEW k \in 0 .. n - 1, k \in S PROVE k + 1 \in S
  <2>1. k + 1 \in 1 .. n /\ (k + 1) - 1 = k /\ k + 1 \in 0 .. n /\ k \in Nat
    BY <1>1
  <2>2. q[k + 1] \in Instructions(c) /\ Operands(q[k + 1]) \subseteq 1 .. k
    BY <2>1, Nodes
  <2>3. IsGate(q[k + 1]) => Reads(q[k + 1].op, q[k + 1].ins, k)
    BY <2>1, Nodes
  <2>4. \A x \in Operands(q[k + 1]) : v[x] = w[x]
    BY <1>3, <2>2
  <2>5. InstValue(q[k + 1], v, e.inputs, e.state) = InstValue(q[k + 1], w, e.inputs, e.state)
    BY <2>1, <2>2, <2>3, <2>4, ValueReads
  <2>6. v[k + 1] = w[k + 1]
    BY <2>1, <2>5 DEF Consistent
  <2>7. \A id \in 1 .. k + 1 : id = k + 1 \/ id \in 1 .. k
    BY <2>1
  <2>. QED BY <1>3, <2>1, <2>6, <2>7
<1>4. \A k \in 0 .. n : k \in S
  <2>. HIDE DEF S, n
  <2>. QED BY <1>1, <1>2, <1>3, IntervalInduction
<1>5. n \in S
  BY <1>1, <1>4
<1>. QED BY <1>5

\* The interpreter's pass gives every signal its value.
LEMMA InterpConsistent ==
  ASSUME NEW c, NEW d, d.insts \in NodesOf(c), NEW e, Environment(c, e)
  PROVE  /\ InterpValues(d, e.inputs, e.state) \in [1 .. Len(d.insts) -> BOOLEAN]
         /\ Consistent(d.insts, InterpValues(d, e.inputs, e.state), e)
<1>. DEFINE n == Len(d.insts)
            of(k, q) == InstValue(d.insts[k], q, e.inputs, e.state)
            next == [k \in 1 .. n |-> [q \in Seq(BOOLEAN) |-> of(k, q)]]
            body(q) == [k \in 0 .. n |-> IF k = 0 THEN <<>>
                                         ELSE LET before == q[k - 1] IN Append(before, of(k, before))]
            values == CHOOSE q : q = body(q)
<1>1. n \in Nat
  BY Nodes
<1>2. next \in [1 .. n -> [Seq(BOOLEAN) -> BOOLEAN]]
  <2>1. ASSUME NEW k \in 1 .. n, NEW q \in Seq(BOOLEAN) PROVE of(k, q) \in BOOLEAN
    BY Nodes, ValueType
  <2>. HIDE DEF of
  <2>. QED BY <2>1
<1>3. PICK f \in [0 .. n -> Seq(BOOLEAN)] : Appends(f, n, next)
  <2>. HIDE DEF next, n
  <2>. QED BY <1>1, <1>2, Appending
<1>4. Begins(f, n, BOOLEAN, next)
  <2>. HIDE DEF next, n
  <2>. QED BY <1>1, <1>3, Appended
<1>5. f = body(f)
  <2>1. ASSUME NEW k \in 0 .. n PROVE f[k] = body(f)[k]
    <3>1. CASE k = 0
      BY <1>3, <3>1 DEF Appends
    <3>2. CASE k # 0
      <4>1. k \in 1 .. n /\ k - 1 \in 0 .. n
        BY <1>1, <3>2
      <4>2. f[k] = Append(f[k - 1], next[k][f[k - 1]]) /\ f[k - 1] \in Seq(BOOLEAN)
        BY <1>3, <4>1 DEF Appends
      <4>3. next[k][f[k - 1]] = of(k, f[k - 1])
        BY <4>1, <4>2
      <4>. HIDE DEF of, next
      <4>. QED BY <3>2, <4>2, <4>3
    <3>. QED BY <3>1, <3>2
  <2>2. DOMAIN f = 0 .. n /\ DOMAIN body(f) = 0 .. n
    OBVIOUS
  <2>. HIDE DEF of, n
  <2>. QED BY <2>1, <2>2
<1>6. values = body(values)
  <2>. HIDE DEF body
  <2>. QED BY <1>5
<1>7. InterpValues(d, e.inputs, e.state) = values[n]
  BY DEF InterpValues
<1>8. values = f
  <2>1. ASSUME NEW k \in 1 .. n, values[k - 1] = f[k - 1] PROVE values[k] = f[k]
    <3>1. k \in 0 .. n /\ k # 0
      BY <1>1
    <3>2. body(values)[k] = Append(values[k - 1], of(k, values[k - 1])) /\ body(f)[k] = Append(f[k - 1], of(k, f[k - 1]))
      <4>. HIDE DEF of, values
      <4>. QED BY <3>1
    <3>3. Append(values[k - 1], of(k, values[k - 1])) = Append(f[k - 1], of(k, f[k - 1]))
      <4>. HIDE DEF of, values
      <4>. QED BY <2>1
    <3>. QED BY <1>5, <1>6, <3>2, <3>3
  <2>2. 0 \in 0 .. n
    BY <1>1
  <2>3. body(values)[0] = <<>> /\ body(f)[0] = <<>>
    <3>. HIDE DEF values
    <3>. QED BY <2>2
  <2>4. DOMAIN body(values) = 0 .. n /\ body(values) = [k \in 0 .. n |-> body(values)[k]]
    <3>. HIDE DEF values
    <3>. QED OBVIOUS
  <2>. HIDE DEF body, values, n
  <2>. QED BY <1>1, <1>3, <1>5, <1>6, <2>1, <2>3, <2>4, SameSteps
<1>9. f[n] \in [1 .. n -> BOOLEAN]
  BY <1>4 DEF Begins
<1>10. ASSUME NEW k \in 1 .. n PROVE f[n][k] \in BOOLEAN /\ f[n][k] = of(k, f[n])
  <2>1. k - 1 \in 0 .. n /\ k - 1 \in Nat
    BY <1>1
  <2>2. f[n][k] = next[k][f[k - 1]] /\ f[k - 1] \in Seq(BOOLEAN) /\ \A j \in 1 .. k - 1 : f[k - 1][j] = f[n][j]
    BY <1>4, <2>1 DEF Begins
  <2>3. f[n][k] = of(k, f[k - 1])
    BY <2>2
  <2>4. d.insts[k] \in Instructions(c) /\ Operands(d.insts[k]) \subseteq 1 .. k - 1
    BY Nodes
  <2>5. IsGate(d.insts[k]) => Reads(d.insts[k].op, d.insts[k].ins, k - 1)
    BY Nodes
  <2>6. \A x \in Operands(d.insts[k]) : f[k - 1][x] = f[n][x]
    BY <2>2, <2>4
  <2>7. of(k, f[k - 1]) = of(k, f[n])
    BY <2>1, <2>4, <2>5, <2>6, ValueReads
  <2>. QED BY <1>9, <2>3, <2>7
<1>11. Consistent(d.insts, f[n], e)
  BY <1>10 DEF Consistent
<1>. HIDE DEF values, n
<1>. QED BY <1>7, <1>8, <1>9, <1>11 DEF n

-----------------------------------------------------------------------------
(* The rewriter's node list.                                               *)

\* No rule rewrites the gate further.
Plain(q, op, ins) ==
  /\ op # "Buf"
  /\ \A i \in 1 .. arity(op) : q[ins[i]].kind # "Const"
  /\ op = "Not" => ~(IsGate(q[ins[1]]) /\ q[ins[1]].op = "Not")
  /\ op \in Commutative => ins[1] # ins[2] /\ ~complements(q, ins[1], ins[2])
  /\ op = "Mux" => ins[1] # ins[2] /\ ins[1] # ins[3] /\ ins[2] # ins[3]

\* A pair of operands that may be exchanged is in order.
InOrder(op, ins) == op \in Commutative => ins[1] <= ins[2]

\* Constants and gates are nodes once.
Once(q) == \A g, h \in 1 .. Len(q) : q[g] = q[h] /\ q[g].kind \in {"Const", "Gate"} => g = h

Normal(q) ==
  /\ \A g \in 1 .. Len(q) : IsGate(q[g]) => Plain(q, q[g].op, q[g].ins) /\ InOrder(q[g].op, q[g].ins)
  /\ Once(q)

Good(c) == {q \in NodesOf(c) : Normal(q)}

\* new is old and further constants and gates.
Extends(c, old, new) ==
  /\ new \in Good(c) /\ Len(old) \in Nat /\ Len(new) \in Nat /\ Len(old) <= Len(new)
  /\ \A id \in 1 .. Len(old) : new[id] = old[id]
  /\ \A id \in Len(old) + 1 .. Len(new) : new[id].kind \in {"Const", "Gate"}

\* A node list extends itself.
LEMMA ExtendsSelf ==
  ASSUME NEW c, NEW q \in Good(c)
  PROVE  Extends(c, q, q)
<1>1. q \in NodesOf(c)
  BY DEF Good
<1>2. Len(q) \in Nat
  BY <1>1, Nodes
<1>. QED BY <1>2 DEF Extends

\* Extending twice is extending.
LEMMA ExtendsTwice ==
  ASSUME NEW c, NEW p, NEW q, NEW r, Extends(c, p, q), Extends(c, q, r)
  PROVE  Extends(c, p, r)
<1>1. /\ r \in Good(c) /\ Len(p) \in Nat /\ Len(q) \in Nat /\ Len(r) \in Nat
      /\ Len(p) <= Len(q) /\ Len(q) <= Len(r)
  BY DEF Extends
<1>2. ASSUME NEW id \in 1 .. Len(p) PROVE r[id] = p[id]
  <2>1. id \in 1 .. Len(q)
    BY <1>1
  <2>. QED BY <2>1 DEF Extends
<1>3. ASSUME NEW id \in Len(p) + 1 .. Len(r) PROVE r[id].kind \in {"Const", "Gate"}
  <2>1. id \in Len(q) + 1 .. Len(r) \/ id \in 1 .. Len(q)
    BY <1>1
  <2>2. CASE id \in 1 .. Len(q)
    <3>1. id \in Len(p) + 1 .. Len(q) /\ r[id] = q[id]
      BY <1>1, <2>2 DEF Extends
    <3>. QED BY <3>1 DEF Extends
  <2>. QED BY <2>1, <2>2 DEF Extends
<1>. QED BY <1>1, <1>2, <1>3 DEF Extends

\* A gate is plain whatever follows its operands.
LEMMA PlainStays ==
  ASSUME NEW q, NEW r, NEW n \in Nat, NEW op \in GateOp, NEW ins, Reads(op, ins, n),
         \A id \in 1 .. n : q[id] = r[id], Plain(q, op, ins)
  PROVE  Plain(r, op, ins)
<1>1. \A i \in 1 .. arity(op) : r[ins[i]] = q[ins[i]]
  BY DEF Reads
<1>2. op = "Not" => r[ins[1]] = q[ins[1]]
  BY <1>1, Arities DEF Unary
<1>3. op \in Commutative => r[ins[1]] = q[ins[1]] /\ r[ins[2]] = q[ins[2]]
  BY <1>1, Arities
<1>. QED BY <1>1, <1>2, <1>3 DEF Plain, complements, Inverts

\* A new node that no rule rewrites keeps the list normal.
LEMMA Pushed ==
  ASSUME NEW c, NEW q \in Good(c), NEW node \in Instructions(c),
         IsGate(node) => /\ Reads(node.op, node.ins, Len(q))
                         /\ Plain(q, node.op, node.ins) /\ InOrder(node.op, node.ins),
         node.kind \in {"Const", "Gate"} => \A id \in 1 .. Len(q) : q[id] # node
  PROVE  /\ Append(q, node) \in Good(c)
         /\ Len(Append(q, node)) = Len(q) + 1 /\ Append(q, node)[Len(q) + 1] = node
         /\ \A id \in 1 .. Len(q) : Append(q, node)[id] = q[id]
<1>. DEFINE n == Len(q)
            r == Append(q, node)
<1>1. q \in NodesOf(c) /\ Normal(q)
  BY DEF Good
<1>2. q \in Seq(Instructions(c)) /\ n \in Nat
  BY <1>1, Nodes
<1>3. /\ r \in Seq(Instructions(c)) /\ Len(r) = n + 1 /\ r[n + 1] = node
      /\ \A id \in 1 .. n : r[id] = q[id]
  BY <1>2
<1>. HIDE DEF r
<1>4. \A id \in 1 .. n + 1 : id \in 1 .. n \/ id = n + 1
  BY <1>2
<1>5. ASSUME NEW id \in 1 .. n + 1, IsGate(r[id]) PROVE Reads(r[id].op, r[id].ins, id - 1)
  <2>1. CASE id \in 1 .. n
    BY <1>1, <1>3, <1>5, <2>1, Nodes
  <2>2. CASE id = n + 1
    <3>1. id - 1 = n
      BY <1>2, <2>2
    <3>. QED BY <1>3, <1>5, <2>2, <3>1
  <2>. QED BY <1>4, <2>1, <2>2
<1>6. r \in NodesOf(c)
  BY <1>2, <1>3, <1>5 DEF NodesOf
<1>7. ASSUME NEW id \in 1 .. n + 1, IsGate(r[id])
      PROVE  Plain(r, r[id].op, r[id].ins) /\ InOrder(r[id].op, r[id].ins)
  <2>1. CASE id \in 1 .. n
    <3>1. r[id] = q[id] /\ q[id].op \in GateOp /\ Reads(q[id].op, q[id].ins, id - 1) /\ id - 1 \in Nat
      BY <1>1, <1>3, <1>7, <2>1, Nodes
    <3>2. Plain(q, q[id].op, q[id].ins) /\ InOrder(q[id].op, q[id].ins)
      BY <1>1, <1>3, <1>7, <2>1 DEF Normal
    <3>3. \A x \in 1 .. id - 1 : q[x] = r[x]
      BY <1>2, <1>3
    <3>. QED BY <3>1, <3>2, <3>3, PlainStays
  <2>2. CASE id = n + 1
    <3>1. r[id] = node /\ node.op \in GateOp
      BY <1>3, <1>7, <2>2, Kinds
    <3>2. \A x \in 1 .. n : q[x] = r[x]
      BY <1>3
    <3>. QED BY <1>2, <1>7, <3>1, <3>2, PlainStays
  <2>. QED BY <1>4, <2>1, <2>2
<1>8. Once(r)
  <2>1. ASSUME NEW g \in 1 .. n + 1, NEW h \in 1 .. n + 1, r[g] = r[h], r[g].kind \in {"Const", "Gate"}
        PROVE  g = h
    <3>1. CASE g \in 1 .. n /\ h \in 1 .. n
      BY <1>1, <1>3, <2>1, <3>1 DEF Normal, Once
    <3>2. CASE g = n + 1 /\ h \in 1 .. n
      BY <1>3, <2>1, <3>2
    <3>3. CASE g \in 1 .. n /\ h = n + 1
      BY <1>3, <2>1, <3>3
    <3>. QED BY <1>4, <3>1, <3>2, <3>3
  <2>. QED BY <1>3, <2>1 DEF Once
<1>. QED BY <1>3, <1>6, <1>7, <1>8 DEF Good, Normal, r

\* Interning a node gives its identifier.
LEMMA Interned ==
  ASSUME NEW c, NEW q \in Good(c), NEW node \in Instructions(c), node.kind \in {"Const", "Gate"},
         IsGate(node) => /\ Reads(node.op, node.ins, Len(q))
                         /\ Plain(q, node.op, node.ins) /\ InOrder(node.op, node.ins)
  PROVE  LET r == Intern(q, node) IN
         Extends(c, q, r.nodes) /\ r.id \in 1 .. Len(r.nodes) /\ r.nodes[r.id] = node
<1>. DEFINE r == Intern(q, node)
<1>. SUFFICES Extends(c, q, r.nodes) /\ r.id \in 1 .. Len(r.nodes) /\ r.nodes[r.id] = node
  OBVIOUS
<1>1. q \in NodesOf(c)
  BY DEF Good
<1>2. Len(q) \in Nat /\ DOMAIN q = 1 .. Len(q)
  BY <1>1, Nodes
<1>3. CASE Contains(q, node)
  <2>1. \E id \in DOMAIN q : q[id] = node
    BY <1>2, <1>3 DEF Contains
  <2>2. r = Found(q, CHOOSE id \in DOMAIN q : q[id] = node)
    BY <1>3 DEF Intern
  <2>3. r.nodes = q /\ r.id \in DOMAIN q /\ q[r.id] = node
    BY <2>1, <2>2 DEF Found
  <2>. HIDE DEF r
  <2>. QED BY <1>2, <2>3, ExtendsSelf
<1>4. CASE ~Contains(q, node)
  <2>1. \A id \in 1 .. Len(q) : q[id] # node
    BY <1>4 DEF Contains
  <2>2. r.nodes = Append(q, node) /\ r.id = Len(q) + 1
    BY <1>4 DEF Intern, push, Found
  <2>3. /\ Append(q, node) \in Good(c)
        /\ Len(Append(q, node)) = Len(q) + 1 /\ Append(q, node)[Len(q) + 1] = node
        /\ \A id \in 1 .. Len(q) : Append(q, node)[id] = q[id]
    BY <2>1, Pushed
  <2>. DEFINE new == Append(q, node)
  <2>. HIDE DEF new, r
  <2>4. new \in Good(c) /\ Len(new) = Len(q) + 1 /\ new[Len(q) + 1] = node
        /\ \A id \in 1 .. Len(q) : new[id] = q[id]
    BY <2>3 DEF new
  <2>5. \A id \in Len(q) + 1 .. Len(new) : id = Len(q) + 1
    BY <1>2, <2>4
  <2>6. Extends(c, q, new)
    BY <1>2, <2>4, <2>5 DEF Extends
  <2>. QED BY <1>2, <2>2, <2>4, <2>6 DEF new
<1>. QED BY <1>3, <1>4

\* Values consistent with a list are consistent with those it extends.
LEMMA ConsistentBefore ==
  ASSUME NEW c, NEW q, NEW r, Extends(c, q, r), NEW v, NEW e, Consistent(r, v, e)
  PROVE  Consistent(q, v, e)
<1>1. ASSUME NEW id \in 1 .. Len(q) PROVE id \in 1 .. Len(r) /\ r[id] = q[id]
  BY DEF Extends
<1>. QED BY <1>1 DEF Consistent

\* The value of a node.
LEMMA NodeValue ==
  ASSUME NEW c, NEW q \in NodesOf(c), NEW v, NEW e, Consistent(q, v, e), NEW id \in 1 .. Len(q)
  PROVE  /\ v[id] \in BOOLEAN
         /\ q[id].kind = "Const" => v[id] = q[id].value
         /\ IsGate(q[id]) => Applied(q[id].op, q[id].ins, v, v[id])
<1>1. v[id] \in BOOLEAN /\ v[id] = InstValue(q[id], v, e.inputs, e.state)
  BY DEF Consistent
<1>2. q[id].kind = "Const" => v[id] = q[id].value
  BY <1>1, SourceValue
<1>3. CASE IsGate(q[id])
  <2>1. Reads(q[id].op, q[id].ins, id - 1)
    BY <1>3, Nodes
  <2>2. Applied(q[id].op, q[id].ins, v, InstValue(q[id], v, e.inputs, e.state))
    BY <1>3, <2>1, GateValue
  <2>. QED BY <1>1, <1>2, <2>2
<1>. QED BY <1>1, <1>2, <1>3

\* A rewrite extends the list and gives a node of it.
Rewrites(c, q, r) == Extends(c, q, r.nodes) /\ r.id \in 1 .. Len(r.nodes)

\* It gives a node of this value.
Gives(c, q, r, b) ==
  /\ Rewrites(c, q, r)
  /\ \A v, e : Consistent(r.nodes, v, e) => v[r.id] = b

\* It gives a node that has the value of the operation.
Computes(c, q, r, op, x, y, z) ==
  /\ Rewrites(c, q, r)
  /\ \A v, e : Consistent(r.nodes, v, e) => v[r.id] = Apply(op, v[x], v[y], v[z])

\* konst gives a node of its value.
LEMMA KonstGives ==
  ASSUME NEW c, NEW q \in Good(c), NEW b \in BOOLEAN
  PROVE  Gives(c, q, konst(q, b), b)
<1>. DEFINE r == konst(q, b)
<1>1. Const(b) \in Instructions(c) /\ Const(b).kind = "Const" /\ Const(b).value = b /\ ~IsGate(Const(b))
  BY Made DEF Const, IsGate
<1>2. Extends(c, q, r.nodes) /\ r.id \in 1 .. Len(r.nodes) /\ r.nodes[r.id] = Const(b)
  BY <1>1, Interned DEF konst
<1>. HIDE DEF r
<1>3. r.nodes \in NodesOf(c)
  BY <1>2 DEF Extends, Good
<1>4. ASSUME NEW v, NEW e, Consistent(r.nodes, v, e) PROVE v[r.id] = b
  BY <1>1, <1>2, <1>3, <1>4, NodeValue
<1>5. Gives(c, q, r, b)
  BY <1>2, <1>4 DEF Gives, Rewrites
<1>. QED BY <1>5 DEF r

\* The operands of a gate of one, two and three operands.
LEMMA Tuples ==
  ASSUME NEW n \in Nat, NEW x \in 1 .. n, NEW y \in 1 .. n, NEW z \in 1 .. n
  PROVE  /\ <<x>> \in Seq(Nat) /\ \A op \in Unary : Reads(op, <<x>>, n)
         /\ <<x, y>> \in Seq(Nat) /\ \A op \in Commutative : Reads(op, <<x, y>>, n)
         /\ <<x, y, z>> \in Seq(Nat) /\ Reads("Mux", <<x, y, z>>, n)
<1>1. <<x>> \in [1 .. 1 -> 1 .. n] /\ Len(<<x>>) = 1
  OBVIOUS
<1>2. <<x, y>> \in [1 .. 2 -> 1 .. n] /\ Len(<<x, y>>) = 2
  OBVIOUS
<1>3. <<x, y, z>> \in [1 .. 3 -> 1 .. n] /\ Len(<<x, y, z>>) = 3
  OBVIOUS
<1>4. x \in Nat /\ y \in Nat /\ z \in Nat
  OBVIOUS
<1>. QED BY <1>1, <1>2, <1>3, <1>4, Arities DEF Reads

\* A gate that no rule rewrites is interned with the value of its operation.
LEMMA GateInterned ==
  ASSUME NEW c, NEW q \in Good(c), NEW op \in GateOp, NEW ins \in Seq(Nat),
         Reads(op, ins, Len(q)), Plain(q, op, ins), InOrder(op, ins)
  PROVE  LET r == Intern(q, Gate(op, ins)) IN
         /\ Rewrites(c, q, r)
         /\ \A v, e : Consistent(r.nodes, v, e) => Applied(op, ins, v, v[r.id])
<1>. DEFINE node == Gate(op, ins)
            r == Intern(q, node)
<1>1. /\ node \in Instructions(c) /\ node.kind = "Gate" /\ IsGate(node)
      /\ node.op = op /\ node.ins = ins
  BY Made DEF IsGate
<1>2. Extends(c, q, r.nodes) /\ r.id \in 1 .. Len(r.nodes) /\ r.nodes[r.id] = node
  <2>. HIDE DEF node
  <2>. QED BY <1>1, Interned
<1>. HIDE DEF r, node
<1>3. r.nodes \in NodesOf(c)
  BY <1>2 DEF Extends, Good
<1>4. ASSUME NEW v, NEW e, Consistent(r.nodes, v, e) PROVE Applied(op, ins, v, v[r.id])
  BY <1>1, <1>2, <1>3, <1>4, NodeValue
<1>. QED BY <1>2, <1>4 DEF Rewrites, r, node

\* An inverter that no rule rewrites.
LEMMA GateNot ==
  ASSUME NEW c, NEW q \in Good(c), NEW x \in 1 .. Len(q), Plain(q, "Not", <<x>>)
  PROVE  Computes(c, q, gate(q, "Not", <<x>>), "Not", x, x, x)
<1>. DEFINE r == Intern(q, Gate("Not", <<x>>))
<1>1. Len(q) \in Nat /\ "Not" \in Unary /\ "Not" \in GateOp /\ arity("Not") = 1 /\ "Not" \notin Commutative
  BY Nodes, Arities DEF Good, Unary, Commutative
<1>2. <<x>> \in Seq(Nat) /\ Reads("Not", <<x>>, Len(q)) /\ InOrder("Not", <<x>>)
  BY <1>1, Tuples DEF InOrder
<1>3. Rewrites(c, q, r) /\ \A v, e : Consistent(r.nodes, v, e) => Applied("Not", <<x>>, v, v[r.id])
  BY <1>1, <1>2, GateInterned
<1>4. gate(q, "Not", <<x>>) = r
  BY <1>1 DEF gate
<1>. HIDE DEF r
<1>5. ASSUME NEW v, NEW e, Consistent(r.nodes, v, e) PROVE v[r.id] = Apply("Not", v[x], v[x], v[x])
  <2>1. Applied("Not", <<x>>, v, v[r.id])
    BY <1>3, <1>5
  <2>2. v[r.id] = Apply("Not", v[x], FALSE, FALSE)
    BY <1>1, <2>1 DEF Applied
  <2>3. Apply("Not", v[x], FALSE, FALSE) = Apply("Not", v[x], v[x], v[x])
    BY DEF Apply
  <2>. QED BY <2>2, <2>3
<1>. QED BY <1>3, <1>4, <1>5 DEF Computes

\* A gate of two operands that no rule rewrites.
LEMMA GateTwo ==
  ASSUME NEW c, NEW q \in Good(c), NEW op \in Commutative, NEW a \in 1 .. Len(q), NEW b \in 1 .. Len(q),
         q[a].kind # "Const", q[b].kind # "Const", a # b, ~complements(q, a, b)
  PROVE  Computes(c, q, gate(q, op, <<a, b>>), op, a, b, b)
<1>. DEFINE ins == IF a > b THEN <<b, a>> ELSE <<a, b>>
            r == Intern(q, Gate(op, ins))
<1>1. Len(q) \in Nat /\ op \in GateOp /\ arity(op) = 2 /\ op # "Buf" /\ op # "Not" /\ op # "Mux"
  BY Nodes, Arities DEF Good, Commutative
<1>2. ins \in Seq(Nat) /\ Reads(op, ins, Len(q))
  BY <1>1, Tuples
<1>3. InOrder(op, ins)
  BY <1>1 DEF InOrder
<1>4. \/ ins[1] = a /\ ins[2] = b
      \/ ins[1] = b /\ ins[2] = a
  OBVIOUS
<1>. HIDE DEF ins
<1>5. Plain(q, op, ins)
  <2>1. \A i \in 1 .. arity(op) : ins[i] = a \/ ins[i] = b
    BY <1>1, <1>4
  <2>. QED BY <1>1, <1>4, <2>1 DEF Plain, complements
<1>6. Rewrites(c, q, r) /\ \A v, e : Consistent(r.nodes, v, e) => Applied(op, ins, v, v[r.id])
  BY <1>1, <1>2, <1>3, <1>5, GateInterned
<1>7. gate(q, op, <<a, b>>) = r
  BY <1>1 DEF gate, ins
<1>. HIDE DEF r
<1>8. ASSUME NEW v, NEW e, Consistent(r.nodes, v, e) PROVE v[r.id] = Apply(op, v[a], v[b], v[b])
  <2>1. Applied(op, ins, v, v[r.id])
    BY <1>6, <1>8
  <2>2. v[r.id] = Apply(op, v[ins[1]], v[ins[2]], FALSE)
    BY <1>1, <2>1 DEF Applied
  <2>3. Consistent(q, v, e)
    BY <1>6, <1>8, ConsistentBefore DEF Rewrites
  <2>4. v[a] \in BOOLEAN /\ v[b] \in BOOLEAN
    BY <2>3 DEF Consistent
  <2>5. CASE ins[1] = a /\ ins[2] = b
    <3>1. Apply(op, v[a], v[b], FALSE) = Apply(op, v[a], v[b], v[b])
      BY DEF Apply, Commutative
    <3>. QED BY <2>2, <2>5, <3>1
  <2>6. CASE ins[1] = b /\ ins[2] = a
    <3>1. Apply(op, v[b], v[a], FALSE) = Apply(op, v[a], v[b], v[b])
      BY <2>4 DEF Apply, Commutative
    <3>. QED BY <2>2, <2>6, <3>1
  <2>. QED BY <1>4, <2>5, <2>6
<1>. QED BY <1>6, <1>7, <1>8 DEF Computes

\* A multiplexer that no rule rewrites.
LEMMA GateMux ==
  ASSUME NEW c, NEW q \in Good(c), NEW s \in 1 .. Len(q), NEW t \in 1 .. Len(q), NEW f \in 1 .. Len(q),
         Plain(q, "Mux", <<s, t, f>>)
  PROVE  Computes(c, q, gate(q, "Mux", <<s, t, f>>), "Mux", s, t, f)
<1>. DEFINE r == Intern(q, Gate("Mux", <<s, t, f>>))
<1>1. Len(q) \in Nat /\ "Mux" \in GateOp /\ arity("Mux") = 3 /\ "Mux" \notin Commutative
  BY Nodes, Arities DEF Good, Commutative
<1>2. <<s, t, f>> \in Seq(Nat) /\ Reads("Mux", <<s, t, f>>, Len(q)) /\ InOrder("Mux", <<s, t, f>>)
  BY <1>1, Tuples DEF InOrder
<1>3. Rewrites(c, q, r) /\ \A v, e : Consistent(r.nodes, v, e) => Applied("Mux", <<s, t, f>>, v, v[r.id])
  BY <1>1, <1>2, GateInterned
<1>4. gate(q, "Mux", <<s, t, f>>) = r
  BY <1>1 DEF gate
<1>. HIDE DEF r
<1>5. ASSUME NEW v, NEW e, Consistent(r.nodes, v, e) PROVE v[r.id] = Apply("Mux", v[s], v[t], v[f])
  <2>1. Applied("Mux", <<s, t, f>>, v, v[r.id])
    BY <1>3, <1>5
  <2>. QED BY <1>1, <2>1 DEF Applied
<1>. QED BY <1>3, <1>4, <1>5 DEF Computes

-----------------------------------------------------------------------------
(* The rewriting rules.                                                    *)

\* A constant stands for an operation that has its value.
LEMMA ByConstant ==
  ASSUME NEW c, NEW q \in Good(c), NEW b \in BOOLEAN, NEW op, NEW x, NEW y, NEW z,
         \A v, e : Consistent(q, v, e) => Apply(op, v[x], v[y], v[z]) = b
  PROVE  Computes(c, q, konst(q, b), op, x, y, z)
<1>1. Gives(c, q, konst(q, b), b)
  BY KonstGives
<1>2. ASSUME NEW v, NEW e, Consistent(konst(q, b).nodes, v, e)
      PROVE  v[konst(q, b).id] = Apply(op, v[x], v[y], v[z])
  <2>1. v[konst(q, b).id] = b
    BY <1>1, <1>2 DEF Gives
  <2>2. Consistent(q, v, e)
    BY <1>1, <1>2, ConsistentBefore DEF Gives, Rewrites
  <2>3. Apply(op, v[x], v[y], v[z]) = b
    BY <2>2
  <2>. QED BY <2>1, <2>3
<1>. QED BY <1>1, <1>2 DEF Computes, Gives

\* A node stands for an operation that has its value.
LEMMA ByNode ==
  ASSUME NEW c, NEW q \in Good(c), NEW id \in 1 .. Len(q), NEW op, NEW x, NEW y, NEW z,
         \A v, e : Consistent(q, v, e) => Apply(op, v[x], v[y], v[z]) = v[id]
  PROVE  Computes(c, q, Found(q, id), op, x, y, z)
<1>1. Found(q, id).nodes = q /\ Found(q, id).id = id
  BY DEF Found
<1>2. Rewrites(c, q, Found(q, id))
  BY <1>1, ExtendsSelf DEF Rewrites
<1>3. ASSUME NEW v, NEW e, Consistent(q, v, e) PROVE v[id] = Apply(op, v[x], v[y], v[z])
  <2>1. Apply(op, v[x], v[y], v[z]) = v[id]
    BY <1>3
  <2>. QED BY <2>1
<1>. QED BY <1>1, <1>2, <1>3 DEF Computes

\* An operation stands for another that has its value.
LEMMA ByOther ==
  ASSUME NEW c, NEW q \in Good(c), NEW r, NEW op, NEW x, NEW y, NEW z,
         NEW other, NEW i, NEW j, NEW k, Computes(c, q, r, other, i, j, k),
         \A v, e : Consistent(q, v, e) => Apply(op, v[x], v[y], v[z]) = Apply(other, v[i], v[j], v[k])
  PROVE  Computes(c, q, r, op, x, y, z)
<1>1. ASSUME NEW v, NEW e, Consistent(r.nodes, v, e) PROVE v[r.id] = Apply(op, v[x], v[y], v[z])
  <2>1. v[r.id] = Apply(other, v[i], v[j], v[k])
    BY <1>1 DEF Computes
  <2>2. Consistent(q, v, e)
    BY <1>1, ConsistentBefore DEF Computes, Rewrites
  <2>3. Apply(op, v[x], v[y], v[z]) = Apply(other, v[i], v[j], v[k])
    BY <2>2
  <2>. QED BY <2>1, <2>3
<1>. QED BY <1>1 DEF Computes

\* What the operations give.
LEMMA Operations ==
  ASSUME NEW a \in BOOLEAN, NEW b \in BOOLEAN, NEW d \in BOOLEAN
  PROVE  /\ Apply("Not", a, b, d) = ~a /\ Apply("Buf", a, b, d) = a
         /\ Apply("Mux", a, b, d) = IF a THEN b ELSE d
BY DEF Apply

\* not inverts, and folds constants and double inversions.
LEMMA NotComputes ==
  ASSUME NEW c, NEW q \in Good(c), NEW x \in 1 .. Len(q)
  PROVE  Computes(c, q, not(q, x), "Not", x, x, x)
<1>1. q \in NodesOf(c) /\ q[x] \in Instructions(c)
  BY Nodes DEF Good
<1>2. ASSUME NEW v, NEW e, Consistent(q, v, e)
      PROVE  v[x] \in BOOLEAN /\ Apply("Not", v[x], v[x], v[x]) = ~v[x]
  <2>1. v[x] \in BOOLEAN
    BY <1>1, <1>2, NodeValue
  <2>. QED BY <2>1, Operations
<1>3. CASE IsKonst(q, x)
  <2>1. q[x].kind = "Const" /\ q[x].value \in BOOLEAN
    BY <1>1, <1>3, Kinds DEF IsKonst
  <2>. DEFINE b == ~q[x].value
  <2>2. ASSUME NEW v, NEW e, Consistent(q, v, e) PROVE Apply("Not", v[x], v[x], v[x]) = b
    <3>1. v[x] = q[x].value
      BY <1>1, <2>1, <2>2, NodeValue
    <3>. QED BY <1>2, <2>2, <3>1
  <2>3. not(q, x) = konst(q, b)
    BY <1>3 DEF not
  <2>4. b \in BOOLEAN
    OBVIOUS
  <2>. HIDE DEF b
  <2>. QED BY <2>2, <2>3, <2>4, ByConstant
<1>4. CASE ~IsKonst(q, x) /\ IsGate(q[x]) /\ q[x].op = "Not"
  <2>. DEFINE y == q[x].ins[1]
  <2>1. Reads("Not", q[x].ins, x - 1) /\ arity("Not") = 1
    BY <1>1, <1>4, Nodes, Arities DEF Unary
  <2>2. y \in 1 .. x - 1
    BY <2>1 DEF Reads
  <2>3. y \in 1 .. Len(q)
    <3>1. Len(q) \in Nat
      BY <1>1, Nodes
    <3>. HIDE DEF y
    <3>. QED BY <2>2, <3>1
  <2>4. ASSUME NEW v, NEW e, Consistent(q, v, e) PROVE Apply("Not", v[x], v[x], v[x]) = v[y]
    <3>1. Applied("Not", q[x].ins, v, v[x])
      BY <1>1, <1>4, <2>4, NodeValue
    <3>2. v[x] = Apply("Not", v[y], FALSE, FALSE)
      BY <2>1, <3>1 DEF Applied
    <3>3. v[y] \in BOOLEAN /\ v[x] \in BOOLEAN
      BY <2>3, <2>4 DEF Consistent
    <3>4. v[x] = ~v[y]
      BY <3>2, <3>3, Operations
    <3>5. Apply("Not", v[x], v[x], v[x]) = ~v[x]
      BY <1>2, <2>4
    <3>. QED BY <3>3, <3>4, <3>5
  <2>5. not(q, x) = Found(q, y)
    BY <1>4 DEF not
  <2>. HIDE DEF y
  <2>. QED BY <2>3, <2>4, <2>5, ByNode
<1>5. CASE ~IsKonst(q, x) /\ ~(IsGate(q[x]) /\ q[x].op = "Not")
  <2>1. not(q, x) = gate(q, "Not", <<x>>)
    BY <1>5 DEF not
  <2>2. arity("Not") = 1 /\ "Not" \notin Commutative
    BY Arities DEF Unary, Commutative
  <2>3. Plain(q, "Not", <<x>>)
    BY <1>5, <2>2 DEF Plain, IsKonst
  <2>. QED BY <2>1, <2>3, GateNot
<1>. QED BY <1>3, <1>4, <1>5

\* NotIf inverts or not, as told.
LEMMA NotIfComputes ==
  ASSUME NEW c, NEW q \in Good(c), NEW x \in 1 .. Len(q), NEW inverted \in BOOLEAN
  PROVE  Computes(c, q, NotIf(inverted, q, x), IF inverted THEN "Not" ELSE "Buf", x, x, x)
<1>1. CASE inverted
  BY <1>1, NotComputes DEF NotIf
<1>2. CASE ~inverted
  <2>1. ASSUME NEW v, NEW e, Consistent(q, v, e) PROVE Apply("Buf", v[x], v[x], v[x]) = v[x]
    <3>1. v[x] \in BOOLEAN
      BY <2>1 DEF Consistent
    <3>. QED BY <3>1, Operations
  <2>2. Computes(c, q, Found(q, x), "Buf", x, x, x)
    BY <2>1, ByNode
  <2>. QED BY <1>2, <2>2 DEF NotIf
<1>. QED BY <1>1, <1>2

\* A possibly inverted node stands for an operation that has its value.
LEMMA ByNotIf ==
  ASSUME NEW c, NEW q \in Good(c), NEW x \in 1 .. Len(q), NEW inverted \in BOOLEAN,
         NEW op, NEW i, NEW j, NEW k,
         \A v, e : Consistent(q, v, e) => Apply(op, v[i], v[j], v[k]) = (v[x] # inverted)
  PROVE  Computes(c, q, NotIf(inverted, q, x), op, i, j, k)
<1>. DEFINE other == IF inverted THEN "Not" ELSE "Buf"
<1>1. Computes(c, q, NotIf(inverted, q, x), other, x, x, x)
  BY NotIfComputes
<1>2. ASSUME NEW v, NEW e, Consistent(q, v, e)
      PROVE  Apply(op, v[i], v[j], v[k]) = Apply(other, v[x], v[x], v[x])
  <2>1. v[x] \in BOOLEAN
    BY <1>2 DEF Consistent
  <2>2. Apply(op, v[i], v[j], v[k]) = (v[x] # inverted)
    BY <1>2
  <2>3. Apply(other, v[x], v[x], v[x]) = (v[x] # inverted)
    BY <2>1, Operations
  <2>. QED BY <2>2, <2>3
<1>. HIDE DEF other
<1>. QED BY <1>1, <1>2, ByOther

\* Constants and complements have the values that the rules take them to have.
LEMMA KnownValues ==
  ASSUME NEW c, NEW q \in Good(c), NEW v, NEW e, Consistent(q, v, e),
         NEW a \in 1 .. Len(q), NEW b \in 1 .. Len(q)
  PROVE  /\ v[a] \in BOOLEAN /\ v[b] \in BOOLEAN
         /\ \A x \in BOOLEAN : IsConst(q, a, x) => v[a] = x
         /\ IsKonst(q, a) => v[a] = q[a].value /\ q[a].value \in BOOLEAN
         /\ complements(q, a, b) => v[a] = ~v[b]
<1>1. q \in NodesOf(c)
  BY DEF Good
<1>2. v[a] \in BOOLEAN /\ v[b] \in BOOLEAN
  BY DEF Consistent
<1>3. \A x \in BOOLEAN : IsConst(q, a, x) => v[a] = x
  <2>1. ASSUME NEW x \in BOOLEAN, IsConst(q, a, x) PROVE v[a] = x
    <3>1. q[a].kind = "Const" /\ q[a].value = x
      BY <2>1 DEF IsConst, Const
    <3>. QED BY <1>1, <3>1, NodeValue
  <2>. QED BY <2>1
<1>4. IsKonst(q, a) => v[a] = q[a].value /\ q[a].value \in BOOLEAN
  BY <1>1, <1>2, NodeValue DEF IsKonst
<1>5. ASSUME NEW x \in 1 .. Len(q), NEW y \in 1 .. Len(q), Inverts(q, x, y) PROVE v[x] = ~v[y]
  <2>1. IsGate(q[x]) /\ q[x].op = "Not" /\ q[x].ins = <<y>>
    BY <1>5 DEF Inverts, Gate, IsGate
  <2>2. Applied("Not", <<y>>, v, v[x])
    BY <1>1, <2>1, NodeValue
  <2>3. v[x] = Apply("Not", v[y], FALSE, FALSE)
    BY <2>2, Arities DEF Applied, Unary
  <2>4. v[y] \in BOOLEAN
    BY DEF Consistent
  <2>. QED BY <2>3, <2>4, Operations
<1>6. complements(q, a, b) => v[a] = ~v[b]
  <2>1. CASE Inverts(q, a, b)
    BY <1>5, <2>1
  <2>2. CASE Inverts(q, b, a)
    <3>1. v[b] = ~v[a]
      BY <1>5, <2>2
    <3>. QED BY <1>2, <3>1
  <2>. QED BY <2>1, <2>2 DEF complements
<1>. QED BY <1>2, <1>3, <1>4, <1>6

\* Each value of a node that is a constant is one of the two.
LEMMA ConstOf ==
  ASSUME NEW c, NEW q \in Good(c), NEW a \in 1 .. Len(q), NEW x \in BOOLEAN,
         ~IsConst(q, a, x), ~IsConst(q, a, ~x)
  PROVE  q[a].kind # "Const"
<1>1. q[a] \in Instructions(c)
  BY Nodes DEF Good
<1>2. q[a].kind = "Const" => q[a] = Const(q[a].value) /\ q[a].value \in BOOLEAN
  BY <1>1, Kinds
<1>. QED BY <1>2 DEF IsConst

\* The operation has a dominating operand value, and a possibly inverted result.
Dominated(op, dominant, inverted) ==
  \A x, y, z \in BOOLEAN :
    Apply(op, x, y, z) = ((IF x = dominant \/ y = dominant THEN dominant ELSE ~dominant) # inverted)

\* The rules for And, Or, Nand and Nor keep the value.
LEMMA LatticeComputes ==
  ASSUME NEW c, NEW q \in Good(c), NEW op \in Commutative, NEW dominant \in BOOLEAN, NEW inverted \in BOOLEAN,
         NEW a \in 1 .. Len(q), NEW b \in 1 .. Len(q), Dominated(op, dominant, inverted)
  PROVE  Computes(c, q, Lattice(q, op, dominant, inverted, a, b), op, a, b, b)
<1>. DEFINE r == Lattice(q, op, dominant, inverted, a, b)
            dom(x) == IsConst(q, x, dominant)
            neu(x) == IsConst(q, x, ~dominant)
<1>0. (dominant # inverted) \in BOOLEAN
  OBVIOUS
<1>1. ASSUME NEW v, NEW e, Consistent(q, v, e)
      PROVE  /\ v[a] \in BOOLEAN /\ v[b] \in BOOLEAN
             /\ dom(a) => v[a] = dominant
             /\ dom(b) => v[b] = dominant
             /\ neu(a) => v[a] = ~dominant
             /\ neu(b) => v[b] = ~dominant
             /\ complements(q, a, b) => v[a] = ~v[b]
             /\ Apply(op, v[a], v[b], v[b])
                  = ((IF v[a] = dominant \/ v[b] = dominant THEN dominant ELSE ~dominant) # inverted)
  <2>0. (~dominant) \in BOOLEAN
    OBVIOUS
  <2>1. v[a] \in BOOLEAN /\ v[b] \in BOOLEAN
    BY <1>1, KnownValues
  <2>2. /\ dom(a) => v[a] = dominant
        /\ dom(b) => v[b] = dominant
        /\ neu(a) => v[a] = ~dominant
        /\ neu(b) => v[b] = ~dominant
    BY <1>1, <2>0, KnownValues
  <2>3. complements(q, a, b) => v[a] = ~v[b]
    BY <1>1, KnownValues
  <2>4. Apply(op, v[a], v[b], v[b])
          = ((IF v[a] = dominant \/ v[b] = dominant THEN dominant ELSE ~dominant) # inverted)
    BY <2>1 DEF Dominated
  <2>. QED BY <2>1, <2>2, <2>3, <2>4
<1>2. CASE dom(a) \/ dom(b)
  <2>1. r = konst(q, dominant # inverted)
    BY <1>2 DEF Lattice
  <2>2. ASSUME NEW v, NEW e, Consistent(q, v, e) PROVE Apply(op, v[a], v[b], v[b]) = (dominant # inverted)
    BY <1>1, <1>2, <2>2
  <2>. HIDE DEF r
  <2>. QED BY <1>0, <2>1, <2>2, ByConstant DEF r
<1>3. CASE ~dom(a) /\ ~dom(b) /\ neu(a)
  <2>1. r = NotIf(inverted, q, b)
    BY <1>3 DEF Lattice
  <2>2. ASSUME NEW v, NEW e, Consistent(q, v, e) PROVE Apply(op, v[a], v[b], v[b]) = (v[b] # inverted)
    BY <1>1, <1>3, <2>2
  <2>. HIDE DEF r
  <2>. QED BY <2>1, <2>2, ByNotIf DEF r
<1>4. CASE ~dom(a) /\ ~dom(b) /\ ~neu(a) /\ (neu(b) \/ a = b)
  <2>1. r = NotIf(inverted, q, a)
    BY <1>4 DEF Lattice
  <2>2. ASSUME NEW v, NEW e, Consistent(q, v, e) PROVE Apply(op, v[a], v[b], v[b]) = (v[a] # inverted)
    BY <1>1, <1>4, <2>2
  <2>. HIDE DEF r
  <2>. QED BY <2>1, <2>2, ByNotIf DEF r
<1>5. CASE ~dom(a) /\ ~dom(b) /\ ~neu(a) /\ ~neu(b) /\ a # b /\ complements(q, a, b)
  <2>1. r = konst(q, dominant # inverted)
    BY <1>5 DEF Lattice
  <2>2. ASSUME NEW v, NEW e, Consistent(q, v, e) PROVE Apply(op, v[a], v[b], v[b]) = (dominant # inverted)
    BY <1>1, <1>5, <2>2
  <2>. HIDE DEF r
  <2>. QED BY <1>0, <2>1, <2>2, ByConstant DEF r
<1>6. CASE ~dom(a) /\ ~dom(b) /\ ~neu(a) /\ ~neu(b) /\ a # b /\ ~complements(q, a, b)
  <2>1. r = gate(q, op, <<a, b>>)
    BY <1>6 DEF Lattice
  <2>2. q[a].kind # "Const" /\ q[b].kind # "Const"
    BY <1>6, ConstOf
  <2>. HIDE DEF r
  <2>. QED BY <1>6, <2>1, <2>2, GateTwo DEF r
<1>. QED BY <1>2, <1>3, <1>4, <1>5, <1>6

\* The operation tells whether its operands differ, possibly inverted.
Differs(op, inverted) == \A x, y, z \in BOOLEAN : Apply(op, x, y, z) = ((x # y) # inverted)

\* The rules for Xor and Xnor keep the value.
LEMMA ParityComputes ==
  ASSUME NEW c, NEW q \in Good(c), NEW op \in Commutative, NEW inverted \in BOOLEAN,
         NEW a \in 1 .. Len(q), NEW b \in 1 .. Len(q), Differs(op, inverted)
  PROVE  Computes(c, q, Parity(q, op, inverted, a, b), op, a, b, b)
<1>. DEFINE r == Parity(q, op, inverted, a, b)
            va == q[a].value
            vb == q[b].value
<1>0. /\ ((va # vb) # inverted) \in BOOLEAN /\ (va # inverted) \in BOOLEAN
      /\ (vb # inverted) \in BOOLEAN /\ (~inverted) \in BOOLEAN
  <2>. HIDE DEF va, vb
  <2>. QED BY Zenon
<1>1. ASSUME NEW v, NEW e, Consistent(q, v, e)
      PROVE  /\ v[a] \in BOOLEAN /\ v[b] \in BOOLEAN
             /\ IsKonst(q, a) => v[a] = va
             /\ IsKonst(q, b) => v[b] = vb
             /\ complements(q, a, b) => v[a] = ~v[b]
             /\ Apply(op, v[a], v[b], v[b]) = ((v[a] # v[b]) # inverted)
  <2>1. v[a] \in BOOLEAN /\ v[b] \in BOOLEAN
    BY <1>1, KnownValues
  <2>2. (IsKonst(q, a) => v[a] = va) /\ (IsKonst(q, b) => v[b] = vb)
    BY <1>1, KnownValues
  <2>3. complements(q, a, b) => v[a] = ~v[b]
    BY <1>1, KnownValues
  <2>4. Apply(op, v[a], v[b], v[b]) = ((v[a] # v[b]) # inverted)
    BY <2>1 DEF Differs
  <2>. QED BY <2>1, <2>2, <2>3, <2>4
<1>2. CASE IsKonst(q, a) /\ IsKonst(q, b)
  <2>1. r = konst(q, (va # vb) # inverted)
    BY <1>2 DEF Parity
  <2>2. ASSUME NEW v, NEW e, Consistent(q, v, e) PROVE Apply(op, v[a], v[b], v[b]) = ((va # vb) # inverted)
    BY <1>1, <1>2, <2>2
  <2>. HIDE DEF r, va, vb
  <2>. QED BY <1>0, <2>1, <2>2, ByConstant DEF r
<1>3. CASE IsKonst(q, a) /\ ~IsKonst(q, b)
  <2>1. r = NotIf(va # inverted, q, b)
    BY <1>3 DEF Parity
  <2>2. ASSUME NEW v, NEW e, Consistent(q, v, e) PROVE Apply(op, v[a], v[b], v[b]) = (v[b] # (va # inverted))
    <3>1. v[a] = va
      BY <1>1, <1>3, <2>2
    <3>. HIDE DEF va
    <3>. QED BY <1>1, <2>2, <3>1
  <2>. HIDE DEF r, va, vb
  <2>. QED BY <1>0, <2>1, <2>2, ByNotIf DEF r
<1>4. CASE ~IsKonst(q, a) /\ IsKonst(q, b)
  <2>1. r = NotIf(vb # inverted, q, a)
    BY <1>4 DEF Parity
  <2>2. ASSUME NEW v, NEW e, Consistent(q, v, e) PROVE Apply(op, v[a], v[b], v[b]) = (v[a] # (vb # inverted))
    <3>1. v[b] = vb
      BY <1>1, <1>4, <2>2
    <3>. HIDE DEF vb
    <3>. QED BY <1>1, <2>2, <3>1
  <2>. HIDE DEF r, va, vb
  <2>. QED BY <1>0, <2>1, <2>2, ByNotIf DEF r
<1>5. CASE ~IsKonst(q, a) /\ ~IsKonst(q, b) /\ a = b
  <2>1. r = konst(q, inverted)
    BY <1>5 DEF Parity
  <2>2. ASSUME NEW v, NEW e, Consistent(q, v, e) PROVE Apply(op, v[a], v[b], v[b]) = inverted
    BY <1>1, <1>5, <2>2
  <2>. HIDE DEF r, va, vb
  <2>. QED BY <2>1, <2>2, ByConstant DEF r
<1>6. CASE ~IsKonst(q, a) /\ ~IsKonst(q, b) /\ a # b /\ complements(q, a, b)
  <2>1. r = konst(q, ~inverted)
    BY <1>6 DEF Parity
  <2>2. ASSUME NEW v, NEW e, Consistent(q, v, e) PROVE Apply(op, v[a], v[b], v[b]) = ~inverted
    BY <1>1, <1>6, <2>2
  <2>. HIDE DEF r, va, vb
  <2>. QED BY <1>0, <2>1, <2>2, ByConstant DEF r
<1>7. CASE ~IsKonst(q, a) /\ ~IsKonst(q, b) /\ a # b /\ ~complements(q, a, b)
  <2>1. r = gate(q, op, <<a, b>>)
    BY <1>7 DEF Parity
  <2>2. q[a].kind # "Const" /\ q[b].kind # "Const"
    BY <1>7 DEF IsKonst
  <2>. HIDE DEF r, va, vb
  <2>. QED BY <1>7, <2>1, <2>2, GateTwo DEF r
<1>. QED BY <1>2, <1>3, <1>4, <1>5, <1>6, <1>7

\* The gates of two operands.
LEMMA BinaryComputes ==
  ASSUME NEW c, NEW q \in Good(c), NEW a \in 1 .. Len(q), NEW b \in 1 .. Len(q)
  PROVE  /\ Computes(c, q, and(q, a, b), "And", a, b, b)
         /\ Computes(c, q, or(q, a, b), "Or", a, b, b)
         /\ Computes(c, q, nand(q, a, b), "Nand", a, b, b)
         /\ Computes(c, q, nor(q, a, b), "Nor", a, b, b)
         /\ Computes(c, q, xor(q, a, b), "Xor", a, b, b)
         /\ Computes(c, q, xnor(q, a, b), "Xnor", a, b, b)
<1>1. {"And", "Or", "Nand", "Nor", "Xor", "Xnor"} \subseteq Commutative
  BY DEF Commutative
<1>2. /\ Dominated("And", FALSE, FALSE) /\ Dominated("Or", TRUE, FALSE)
      /\ Dominated("Nand", FALSE, TRUE) /\ Dominated("Nor", TRUE, TRUE)
      /\ Differs("Xor", FALSE) /\ Differs("Xnor", TRUE)
  BY DEF Dominated, Differs, Apply
<1>3. Computes(c, q, and(q, a, b), "And", a, b, b)
  BY <1>1, <1>2, LatticeComputes DEF and
<1>4. Computes(c, q, or(q, a, b), "Or", a, b, b)
  BY <1>1, <1>2, LatticeComputes DEF or
<1>5. Computes(c, q, nand(q, a, b), "Nand", a, b, b)
  BY <1>1, <1>2, LatticeComputes DEF nand
<1>6. Computes(c, q, nor(q, a, b), "Nor", a, b, b)
  BY <1>1, <1>2, LatticeComputes DEF nor
<1>7. Computes(c, q, xor(q, a, b), "Xor", a, b, b)
  BY <1>1, <1>2, ParityComputes DEF xor
<1>8. Computes(c, q, xnor(q, a, b), "Xnor", a, b, b)
  BY <1>1, <1>2, ParityComputes DEF xnor
<1>. QED BY <1>3, <1>4, <1>5, <1>6, <1>7, <1>8

\* An operation on an inverted node stands for another that has its value.
LEMMA ByInverted ==
  ASSUME NEW c, NEW q \in Good(c), NEW s \in 1 .. Len(q), NEW m, Computes(c, q, m, "Not", s, s, s),
         NEW x \in 1 .. Len(q), NEW other, NEW r, Computes(c, m.nodes, r, other, m.id, x, x),
         NEW op, NEW i, NEW j, NEW k,
         \A v, e : Consistent(q, v, e) => Apply(op, v[i], v[j], v[k]) = Apply(other, ~v[s], v[x], v[x])
  PROVE  Computes(c, q, r, op, i, j, k)
<1>1. Extends(c, q, m.nodes) /\ Extends(c, m.nodes, r.nodes) /\ r.id \in 1 .. Len(r.nodes)
  BY DEF Computes, Rewrites
<1>2. Extends(c, q, r.nodes)
  BY <1>1, ExtendsTwice
<1>3. ASSUME NEW v, NEW e, Consistent(r.nodes, v, e) PROVE v[r.id] = Apply(op, v[i], v[j], v[k])
  <2>1. Consistent(m.nodes, v, e) /\ Consistent(q, v, e)
    BY <1>1, <1>2, <1>3, ConsistentBefore
  <2>2. v[r.id] = Apply(other, v[m.id], v[x], v[x])
    BY <1>3 DEF Computes
  <2>3. v[m.id] = Apply("Not", v[s], v[s], v[s]) /\ v[s] \in BOOLEAN
    BY <2>1 DEF Computes, Consistent
  <2>4. v[m.id] = ~v[s]
    BY <2>3, Operations
  <2>5. Apply(op, v[i], v[j], v[k]) = Apply(other, ~v[s], v[x], v[x])
    BY <2>1
  <2>. QED BY <2>2, <2>4, <2>5
<1>. QED BY <1>1, <1>2, <1>3 DEF Computes, Rewrites

\* The rules for Mux keep the value.
LEMMA MuxComputes ==
  ASSUME NEW c, NEW q \in Good(c), NEW s \in 1 .. Len(q), NEW t \in 1 .. Len(q), NEW f \in 1 .. Len(q)
  PROVE  Computes(c, q, mux(q, s, t, f), "Mux", s, t, f)
<1>. DEFINE r == mux(q, s, t, f)
            m == not(q, s)
            T(x) == IsConst(q, x, TRUE)
            F(x) == IsConst(q, x, FALSE)
<1>1. /\ r = IF IsKonst(q, s) THEN Found(q, IF q[s].value THEN t ELSE f)
             ELSE IF t = f THEN Found(q, t)
             ELSE IF T(t) THEN IF F(f) THEN Found(q, s) ELSE or(q, s, f)
             ELSE IF F(t) THEN IF T(f) THEN m ELSE and(m.nodes, m.id, f)
             ELSE IF F(f) THEN and(q, s, t)
             ELSE IF T(f) THEN or(m.nodes, m.id, t)
             ELSE IF s = t THEN or(q, s, f)
             ELSE IF s = f THEN and(q, s, t)
             ELSE gate(q, "Mux", <<s, t, f>>)
  BY DEF mux
<1>2. Computes(c, q, m, "Not", s, s, s)
  BY NotComputes
<1>3. /\ m.nodes \in Good(c) /\ m.id \in 1 .. Len(m.nodes)
      /\ \A x \in 1 .. Len(q) : x \in 1 .. Len(m.nodes)
  BY <1>2 DEF Computes, Rewrites, Extends
<1>. HIDE DEF r, m
<1>4. ASSUME NEW v, NEW e, Consistent(q, v, e)
      PROVE  /\ v[s] \in BOOLEAN /\ v[t] \in BOOLEAN /\ v[f] \in BOOLEAN
             /\ IsKonst(q, s) => v[s] = q[s].value
             /\ T(t) => v[t] = TRUE
             /\ F(t) => v[t] = FALSE
             /\ T(f) => v[f] = TRUE
             /\ F(f) => v[f] = FALSE
             /\ Apply("Mux", v[s], v[t], v[f]) = IF v[s] THEN v[t] ELSE v[f]
  <2>1. v[s] \in BOOLEAN /\ v[t] \in BOOLEAN /\ v[f] \in BOOLEAN
    BY <1>4 DEF Consistent
  <2>2. IsKonst(q, s) => v[s] = q[s].value
    BY <1>4, KnownValues
  <2>3. (T(t) => v[t] = TRUE) /\ (F(t) => v[t] = FALSE)
    BY <1>4, KnownValues
  <2>4. (T(f) => v[f] = TRUE) /\ (F(f) => v[f] = FALSE)
    BY <1>4, KnownValues
  <2>5. Apply("Mux", v[s], v[t], v[f]) = IF v[s] THEN v[t] ELSE v[f]
    BY <2>1, Operations
  <2>. QED BY <2>1, <2>2, <2>3, <2>4, <2>5
<1>5. ASSUME NEW x \in BOOLEAN, NEW y \in BOOLEAN, NEW z \in BOOLEAN
      PROVE  /\ Apply("And", x, y, z) = (x /\ y)
             /\ Apply("Or", x, y, z) = (x \/ y)
             /\ Apply("Not", x, y, z) = ~x
  <2>1. Apply("And", x, y, z) = (x /\ y)
    BY DEF Apply
  <2>2. Apply("Or", x, y, z) = (x \/ y)
    BY DEF Apply
  <2>. QED BY <2>1, <2>2, Operations
<1>6. CASE IsKonst(q, s)
  <2>1. r = Found(q, IF q[s].value THEN t ELSE f)
    BY <1>1, <1>6
  <2>2. CASE q[s].value
    <3>1. ASSUME NEW v, NEW e, Consistent(q, v, e) PROVE Apply("Mux", v[s], v[t], v[f]) = v[t]
      BY <1>4, <1>6, <2>2, <3>1
    <3>. QED BY <2>1, <2>2, <3>1, ByNode DEF r
  <2>3. CASE ~q[s].value
    <3>1. ASSUME NEW v, NEW e, Consistent(q, v, e) PROVE Apply("Mux", v[s], v[t], v[f]) = v[f]
      BY <1>4, <1>6, <2>3, <3>1
    <3>. QED BY <2>1, <2>3, <3>1, ByNode DEF r
  <2>. QED BY <2>2, <2>3
<1>7. CASE ~IsKonst(q, s) /\ t = f
  <2>1. r = Found(q, t)
    BY <1>1, <1>7
  <2>2. ASSUME NEW v, NEW e, Consistent(q, v, e) PROVE Apply("Mux", v[s], v[t], v[f]) = v[t]
    BY <1>4, <1>7, <2>2
  <2>. QED BY <2>1, <2>2, ByNode DEF r
<1>8. CASE ~IsKonst(q, s) /\ t # f /\ T(t) /\ F(f)
  <2>1. r = Found(q, s)
    BY <1>1, <1>8
  <2>2. ASSUME NEW v, NEW e, Consistent(q, v, e) PROVE Apply("Mux", v[s], v[t], v[f]) = v[s]
    BY <1>4, <1>8, <2>2
  <2>. QED BY <2>1, <2>2, ByNode DEF r
<1>9. CASE /\ ~IsKonst(q, s) /\ t # f
           /\ \/ T(t) /\ ~F(f)
              \/ ~T(t) /\ ~F(t) /\ ~F(f) /\ ~T(f) /\ s = t
  <2>1. r = or(q, s, f)
    BY <1>1, <1>9
  <2>2. ASSUME NEW v, NEW e, Consistent(q, v, e)
        PROVE  Apply("Mux", v[s], v[t], v[f]) = Apply("Or", v[s], v[f], v[f])
    <3>1. Apply("Or", v[s], v[f], v[f]) = (v[s] \/ v[f])
      BY <1>4, <1>5, <2>2
    <3>. QED BY <1>4, <1>9, <2>2, <3>1
  <2>3. Computes(c, q, or(q, s, f), "Or", s, f, f)
    BY BinaryComputes
  <2>. QED BY <2>1, <2>2, <2>3, ByOther DEF r
<1>10. CASE ~IsKonst(q, s) /\ t # f /\ ~T(t) /\ F(t) /\ T(f)
  <2>1. r = m
    BY <1>1, <1>10
  <2>2. ASSUME NEW v, NEW e, Consistent(q, v, e)
        PROVE  Apply("Mux", v[s], v[t], v[f]) = Apply("Not", v[s], v[s], v[s])
    <3>1. Apply("Not", v[s], v[s], v[s]) = ~v[s]
      BY <1>4, <1>5, <2>2
    <3>. QED BY <1>4, <1>10, <2>2, <3>1
  <2>. QED BY <1>2, <2>1, <2>2, ByOther DEF r
<1>11. CASE ~IsKonst(q, s) /\ t # f /\ ~T(t) /\ F(t) /\ ~T(f)
  <2>1. r = and(m.nodes, m.id, f)
    BY <1>1, <1>11
  <2>2. ASSUME NEW v, NEW e, Consistent(q, v, e)
        PROVE  Apply("Mux", v[s], v[t], v[f]) = Apply("And", ~v[s], v[f], v[f])
    <3>1. Apply("And", ~v[s], v[f], v[f]) = (~v[s] /\ v[f])
      BY <1>4, <1>5, <2>2
    <3>. QED BY <1>4, <1>11, <2>2, <3>1
  <2>3. Computes(c, m.nodes, and(m.nodes, m.id, f), "And", m.id, f, f)
    BY <1>3, BinaryComputes
  <2>. QED BY <1>2, <2>1, <2>2, <2>3, ByInverted DEF r
<1>12. CASE /\ ~IsKonst(q, s) /\ t # f /\ ~T(t) /\ ~F(t)
            /\ \/ F(f)
               \/ ~F(f) /\ ~T(f) /\ s # t /\ s = f
  <2>1. r = and(q, s, t)
    BY <1>1, <1>12
  <2>2. ASSUME NEW v, NEW e, Consistent(q, v, e)
        PROVE  Apply("Mux", v[s], v[t], v[f]) = Apply("And", v[s], v[t], v[t])
    <3>1. Apply("And", v[s], v[t], v[t]) = (v[s] /\ v[t])
      BY <1>4, <1>5, <2>2
    <3>. QED BY <1>4, <1>12, <2>2, <3>1
  <2>3. Computes(c, q, and(q, s, t), "And", s, t, t)
    BY BinaryComputes
  <2>. QED BY <2>1, <2>2, <2>3, ByOther DEF r
<1>13. CASE ~IsKonst(q, s) /\ t # f /\ ~T(t) /\ ~F(t) /\ ~F(f) /\ T(f)
  <2>1. r = or(m.nodes, m.id, t)
    BY <1>1, <1>13
  <2>2. ASSUME NEW v, NEW e, Consistent(q, v, e)
        PROVE  Apply("Mux", v[s], v[t], v[f]) = Apply("Or", ~v[s], v[t], v[t])
    <3>1. Apply("Or", ~v[s], v[t], v[t]) = (~v[s] \/ v[t])
      BY <1>4, <1>5, <2>2
    <3>. QED BY <1>4, <1>13, <2>2, <3>1
  <2>3. Computes(c, m.nodes, or(m.nodes, m.id, t), "Or", m.id, t, t)
    BY <1>3, BinaryComputes
  <2>. QED BY <1>2, <2>1, <2>2, <2>3, ByInverted DEF r
<1>14. CASE /\ ~IsKonst(q, s) /\ t # f /\ ~T(t) /\ ~F(t) /\ ~F(f) /\ ~T(f) /\ s # t /\ s # f
  <2>1. r = gate(q, "Mux", <<s, t, f>>)
    BY <1>1, <1>14
  <2>2. q[t].kind # "Const" /\ q[f].kind # "Const" /\ q[s].kind # "Const"
    BY <1>14, ConstOf DEF IsKonst
  <2>3. arity("Mux") = 3 /\ "Mux" \notin Commutative
    BY Arities DEF Commutative
  <2>4. Plain(q, "Mux", <<s, t, f>>)
    <3>1. \A i \in 1 .. 3 : i = 1 \/ i = 2 \/ i = 3
      OBVIOUS
    <3>. QED BY <1>14, <2>2, <2>3, <3>1 DEF Plain
  <2>. QED BY <2>1, <2>4, GateMux DEF r
<1>. QED BY <1>6, <1>7, <1>8, <1>9, <1>10, <1>11, <1>12, <1>13, <1>14

-----------------------------------------------------------------------------
(* The forward rewrite.                                                    *)

\* f goes through B, each step making of one value the next.
Constructs(f, n, B, b, step) ==
  /\ f = [k \in 0 .. n |-> f[k]]
  /\ f[0] = b
  /\ \A k \in 0 .. n : f[k] \in B[k]
  /\ \A k \in 1 .. n : f[k] = step[k][f[k - 1]]

\* A function whose steps each keep an invariant exists.
LEMMA Constructing ==
  ASSUME NEW n \in Nat, NEW B, NEW b \in B[0], NEW step,
         \A k \in 1 .. n : \A x \in B[k - 1] : step[k][x] \in B[k]
  PROVE  \E f : Constructs(f, n, B, b, step)
<1>. DEFINE V == UNION {B[k] : k \in 0 .. n}
            total == [k \in 0 .. n |-> [x \in V |-> IF k # 0 /\ x \in B[k - 1] THEN step[k][x] ELSE x]]
<1>1. \A k \in 0 .. n : B[k] \subseteq V
  OBVIOUS
<1>2. total \in [0 .. n -> [V -> V]]
  <2>1. ASSUME NEW k \in 0 .. n, NEW x \in V, k # 0, x \in B[k - 1] PROVE step[k][x] \in V
    <3>1. k \in 1 .. n
      BY <2>1
    <3>. QED BY <1>1, <2>1, <3>1
  <2>. HIDE DEF V
  <2>. QED BY <2>1
<1>3. b \in V /\ 0 \in Nat /\ 0 <= n
  BY <1>1
<1>4. PICK f \in [0 .. n -> V] : Iterates(f, 0, n, b, total)
  <2>. HIDE DEF total, V
  <2>. QED BY <1>2, <1>3, Iteration
<1>5. f[0] = b
  <2>1. 0 \in 0 .. n
    OBVIOUS
  <2>. HIDE DEF total, V
  <2>. QED BY <1>4, <2>1 DEF Iterates
<1>6. ASSUME NEW k \in 1 .. n, f[k - 1] \in B[k - 1] PROVE f[k] = step[k][f[k - 1]]
  <2>1. k \in 0 .. n /\ k # 0 /\ k - 1 \in 0 .. n
    OBVIOUS
  <2>2. f[k] = total[k][f[k - 1]] /\ f[k - 1] \in V
    BY <1>4, <2>1 DEF Iterates
  <2>. HIDE DEF V
  <2>. QED BY <1>6, <2>1, <2>2
<1>. DEFINE S == {k \in 0 .. n : f[k] \in B[k]}
<1>7. ASSUME NEW k \in 0 .. n - 1, k \in S PROVE k + 1 \in S
  <2>1. k + 1 \in 1 .. n /\ k + 1 \in 0 .. n /\ (k + 1) - 1 = k
    OBVIOUS
  <2>2. f[k + 1] = step[k + 1][f[k]] /\ f[k] \in B[k]
    BY <1>6, <1>7, <2>1
  <2>3. f[k + 1] \in B[k + 1]
    BY <2>1, <2>2
  <2>. QED BY <2>1, <2>3
<1>8. 0 \in S
  BY <1>5
<1>9. \A k \in 0 .. n : k \in S
  <2>. HIDE DEF S
  <2>. QED BY <1>3, <1>7, <1>8, IntervalInduction
<1>10. ASSUME NEW k \in 1 .. n PROVE f[k] = step[k][f[k - 1]]
  <2>1. k - 1 \in 0 .. n
    OBVIOUS
  <2>. QED BY <1>6, <1>9, <2>1
<1>11. f = [k \in 0 .. n |-> f[k]]
  <2>. HIDE DEF V
  <2>. QED BY <1>4
<1>12. \A k \in 0 .. n : f[k] \in B[k]
  BY <1>9
<1>13. Constructs(f, n, B, b, step)
  BY <1>5, <1>10, <1>11, <1>12 DEF Constructs
<1>. QED BY <1>13

\* What the rewrite of each instruction is.
LEMMA RewriteOf ==
  ASSUME NEW nodes, NEW repr, NEW inst
  PROVE  LET r == Rewrite(nodes, repr, inst)
             at(i) == repr[inst.ins[i]]
         IN
         /\ inst.kind = "Const" => r = konst(nodes, inst.value)
         /\ inst.kind \in {"Input", "RegisterOutput"} => r = push(nodes, inst)
         /\ IsGate(inst) =>
              /\ inst.op = "Buf" => r = Found(nodes, at(1))
              /\ inst.op = "Not" => r = not(nodes, at(1))
              /\ inst.op = "And" => r = and(nodes, at(1), at(2))
              /\ inst.op = "Or" => r = or(nodes, at(1), at(2))
              /\ inst.op = "Xor" => r = xor(nodes, at(1), at(2))
              /\ inst.op = "Nand" => r = nand(nodes, at(1), at(2))
              /\ inst.op = "Nor" => r = nor(nodes, at(1), at(2))
              /\ inst.op = "Xnor" => r = xnor(nodes, at(1), at(2))
              /\ inst.op = "Mux" => r = mux(nodes, at(1), at(2), at(3))
BY DEF Rewrite, IsGate

\* Operands beyond the arity do not change the value.
LEMMA Padding ==
  ASSUME NEW op \in GateOp, NEW x, NEW y, NEW z
  PROVE  /\ arity(op) = 1 => Apply(op, x, y, z) = Apply(op, x, FALSE, FALSE)
         /\ arity(op) = 2 => Apply(op, x, y, z) = Apply(op, x, y, FALSE)
<1>1. ASSUME arity(op) = 1 PROVE Apply(op, x, y, z) = Apply(op, x, FALSE, FALSE)
  <2>1. op \in Unary
    BY <1>1 DEF arity, GateOp
  <2>. QED BY <2>1 DEF Unary, Apply
<1>2. ASSUME arity(op) = 2 PROVE Apply(op, x, y, z) = Apply(op, x, y, FALSE)
  <2>1. op \in Commutative
    BY <1>2 DEF arity, GateOp
  <2>. QED BY <2>1 DEF Commutative, Apply
<1>. QED BY <1>1, <1>2

\* A node that has the value of an instruction whose operands have those of
\* their nodes.
Stands(c, q, repr, inst, r) ==
  /\ Rewrites(c, q, r)
  /\ \A v, w, e : Consistent(r.nodes, v, e) /\ (\A x \in Operands(inst) : v[repr[x]] = w[x])
                  => v[r.id] = InstValue(inst, w, e.inputs, e.state)

\* An operation on the nodes of the operands stands for the gate.
LEMMA ComputesStands ==
  ASSUME NEW c, NEW q \in Good(c), NEW n \in Nat, NEW inst, IsGate(inst), inst.op \in GateOp,
         Reads(inst.op, inst.ins, n), NEW repr, NEW r, NEW y, NEW z,
         Computes(c, q, r, inst.op, repr[inst.ins[1]], y, z),
         arity(inst.op) > 1 => y = repr[inst.ins[2]],
         arity(inst.op) > 2 => z = repr[inst.ins[3]]
  PROVE  Stands(c, q, repr, inst, r)
<1>. DEFINE op == inst.op
            ins == inst.ins
<1>1. arity(op) \in 1 .. 3
  BY Arities
<1>2. ASSUME NEW v, NEW w, NEW e, Consistent(r.nodes, v, e), \A x \in Operands(inst) : v[repr[x]] = w[x]
      PROVE  v[r.id] = InstValue(inst, w, e.inputs, e.state)
  <2>1. Applied(op, ins, w, InstValue(inst, w, e.inputs, e.state))
    BY GateValue
  <2>2. v[r.id] = Apply(op, v[repr[ins[1]]], v[y], v[z])
    BY <1>2 DEF Computes
  <2>3. \A i \in 1 .. arity(op) : v[repr[ins[i]]] = w[ins[i]]
    BY <1>2, OperandsRead
  <2>4. v[repr[ins[1]]] = w[ins[1]]
    BY <1>1, <2>3
  <2>. HIDE DEF op, ins
  <2>5. CASE arity(op) = 1
    <3>1. Apply(op, w[ins[1]], v[y], v[z]) = Apply(op, w[ins[1]], FALSE, FALSE)
      BY <2>5, Padding DEF op
    <3>. QED BY <2>1, <2>2, <2>4, <2>5, <3>1 DEF Applied
  <2>6. CASE arity(op) = 2
    <3>1. v[y] = w[ins[2]]
      BY <2>3, <2>6 DEF op, ins
    <3>2. v[r.id] = Apply(op, w[ins[1]], w[ins[2]], v[z])
      BY <2>2, <2>4, <3>1
    <3>3. v[r.id] = Apply(op, w[ins[1]], w[ins[2]], FALSE)
      BY <2>6, <3>2, Padding DEF op
    <3>. QED BY <2>1, <2>6, <3>3 DEF Applied
  <2>7. CASE arity(op) = 3
    <3>1. v[y] = w[ins[2]] /\ v[z] = w[ins[3]]
      BY <2>3, <2>7 DEF op, ins
    <3>2. v[r.id] = Apply(op, w[ins[1]], w[ins[2]], w[ins[3]])
      BY <2>2, <2>4, <3>1
    <3>. QED BY <2>1, <2>7, <3>2 DEF Applied
  <2>. QED BY <1>1, <2>5, <2>6, <2>7 DEF op
<1>. QED BY <1>2 DEF Computes, Stands

\* The rewrite of a constant or of a gate stands for it.
LEMMA RewriteStands ==
  ASSUME NEW c, NEW q \in Good(c), NEW n \in Nat, NEW inst \in Instructions(c),
         inst.kind \in {"Const", "Gate"}, IsGate(inst) => Reads(inst.op, inst.ins, n),
         NEW repr, \A s \in 1 .. n : repr[s] \in 1 .. Len(q)
  PROVE  Stands(c, q, repr, inst, Rewrite(q, repr, inst))
<1>. DEFINE r == Rewrite(q, repr, inst)
            at(i) == repr[inst.ins[i]]
<1>1. CASE inst.kind = "Const"
  <2>1. inst.value \in BOOLEAN /\ r = konst(q, inst.value)
    BY <1>1, Kinds, RewriteOf
  <2>2. Gives(c, q, r, inst.value)
    BY <2>1, KonstGives
  <2>. HIDE DEF r
  <2>3. ASSUME NEW v, NEW w, NEW e, Consistent(r.nodes, v, e)
        PROVE  v[r.id] = InstValue(inst, w, e.inputs, e.state)
    BY <1>1, <2>2, <2>3, SourceValue DEF Gives
  <2>. QED BY <2>2, <2>3 DEF Gives, Stands, r
<1>2. CASE inst.kind = "Gate"
  <2>1. IsGate(inst) /\ inst.op \in GateOp /\ Reads(inst.op, inst.ins, n)
    BY <1>2, Kinds DEF IsGate
  <2>2. ASSUME NEW i \in 1 .. arity(inst.op) PROVE at(i) \in 1 .. Len(q)
    BY <2>1 DEF Reads
  <2>3. 1 \in 1 .. arity(inst.op)
    BY <2>1, Arities
  <2>4. at(1) \in 1 .. Len(q)
    BY <2>2, <2>3
  <2>5. ASSUME arity(inst.op) > 1 PROVE at(2) \in 1 .. Len(q)
    <3>1. 2 \in 1 .. arity(inst.op)
      BY <2>1, <2>5, Arities
    <3>. QED BY <2>2, <3>1
  <2>6. ASSUME arity(inst.op) > 2 PROVE at(3) \in 1 .. Len(q)
    <3>1. 3 \in 1 .. arity(inst.op)
      BY <2>1, <2>6, Arities
    <3>. QED BY <2>2, <3>1
  <2>7. CASE inst.op = "Buf"
    <3>1. r = Found(q, at(1))
      BY <2>1, <2>7, RewriteOf
    <3>2. ASSUME NEW v, NEW e, Consistent(q, v, e) PROVE Apply("Buf", v[at(1)], v[at(1)], v[at(1)]) = v[at(1)]
      <4>1. v[at(1)] \in BOOLEAN
        BY <2>4, <3>2 DEF Consistent
      <4>. QED BY <4>1, Operations
    <3>3. Computes(c, q, r, "Buf", at(1), at(1), at(1))
      <4>. HIDE DEF at, r
      <4>. QED BY <2>4, <3>1, <3>2, ByNode
    <3>4. arity("Buf") = 1
      BY Arities DEF Unary
    <3>. HIDE DEF r
    <3>. QED BY <2>1, <2>7, <3>3, <3>4, ComputesStands DEF r
  <2>8. CASE inst.op = "Not"
    <3>1. r = not(q, at(1))
      BY <2>1, <2>8, RewriteOf
    <3>2. Computes(c, q, r, "Not", at(1), at(1), at(1))
      <4>. HIDE DEF at, r
      <4>. QED BY <2>4, <3>1, NotComputes
    <3>3. arity("Not") = 1
      BY Arities DEF Unary
    <3>. HIDE DEF r
    <3>. QED BY <2>1, <2>8, <3>2, <3>3, ComputesStands DEF r
  <2>9. CASE inst.op \in Commutative
    <3>1. arity(inst.op) = 2
      BY <2>9, Arities
    <3>2. \/ inst.op = "And" /\ r = and(q, at(1), at(2))
          \/ inst.op = "Or" /\ r = or(q, at(1), at(2))
          \/ inst.op = "Nand" /\ r = nand(q, at(1), at(2))
          \/ inst.op = "Nor" /\ r = nor(q, at(1), at(2))
          \/ inst.op = "Xor" /\ r = xor(q, at(1), at(2))
          \/ inst.op = "Xnor" /\ r = xnor(q, at(1), at(2))
      <4>1. \/ inst.op = "And" \/ inst.op = "Or" \/ inst.op = "Nand"
            \/ inst.op = "Nor" \/ inst.op = "Xor" \/ inst.op = "Xnor"
        BY <2>9 DEF Commutative
      <4>. HIDE DEF r
      <4>. QED BY <2>1, <4>1, RewriteOf DEF r
    <3>3. Computes(c, q, r, inst.op, at(1), at(2), at(2))
      <4>1. at(2) \in 1 .. Len(q)
        BY <2>5, <3>1
      <4>. HIDE DEF at, r
      <4>. QED BY <2>4, <3>2, <4>1, BinaryComputes
    <3>. HIDE DEF r
    <3>. QED BY <2>1, <3>1, <3>3, ComputesStands DEF r
  <2>10. CASE inst.op = "Mux"
    <3>1. r = mux(q, at(1), at(2), at(3))
      BY <2>1, <2>10, RewriteOf
    <3>2. arity("Mux") = 3
      BY Arities
    <3>3. Computes(c, q, r, "Mux", at(1), at(2), at(3))
      <4>1. at(2) \in 1 .. Len(q) /\ at(3) \in 1 .. Len(q)
        BY <2>5, <2>6, <2>10, <3>2
      <4>. HIDE DEF at, r
      <4>. QED BY <2>4, <3>1, <4>1, MuxComputes
    <3>. HIDE DEF r
    <3>. QED BY <2>1, <2>10, <3>2, <3>3, ComputesStands DEF r
  <2>. QED BY <2>1, <2>7, <2>8, <2>9, <2>10 DEF GateOp, Unary
<1>. QED BY <1>1, <1>2

\* Inputs and register outputs.
IsSource(inst) == inst.kind \in {"Input", "RegisterOutput"}

\* The first k signals have nodes of their values, and the sources theirs.
Forward(c, k, x) ==
  /\ x.nodes \in Good(c)
  /\ x.repr \in Seq(Nat) /\ Len(x.repr) = k
  /\ \A s \in 1 .. k : x.repr[s] \in 1 .. Len(x.nodes)
  /\ \A v, w, e : Consistent(x.nodes, v, e) /\ Consistent(c.insts, w, e)
                  => \A s \in 1 .. k : v[x.repr[s]] = w[s]
  /\ \A id \in 1 .. Len(x.nodes) : IsSource(x.nodes[id])
       => \E s \in 1 .. k : c.insts[s] = x.nodes[id] /\ x.repr[s] = id
  /\ \A s \in 1 .. k : IsSource(c.insts[s]) => x.nodes[x.repr[s]] = c.insts[s]

\* The rewriter's state after one more instruction.
Further(c, k, x) ==
  [nodes |-> Rewrite(x.nodes, x.repr, c.insts[k]).nodes,
   repr  |-> Append(x.repr, Rewrite(x.nodes, x.repr, c.insts[k]).id)]

\* The rewrite of the next instruction carries this on.
LEMMA Forwarded ==
  ASSUME NEW c, c.insts \in NodesOf(c), NEW k \in 1 .. Len(c.insts), NEW x, Forward(c, k - 1, x)
  PROVE  Forward(c, k, Further(c, k, x))
<1>. DEFINE inst == c.insts[k]
            q == x.nodes
            r == Rewrite(q, x.repr, inst)
            y == Further(c, k, x)
<1>1. /\ inst \in Instructions(c) /\ k - 1 \in Nat /\ k \in Nat
      /\ IsGate(inst) => Reads(inst.op, inst.ins, k - 1)
      /\ Operands(inst) \subseteq 1 .. k - 1
  BY Nodes
<1>2. q \in Good(c) /\ q \in NodesOf(c) /\ Len(q) \in Nat
  BY Nodes DEF Forward, Good
<1>3. y.nodes = r.nodes /\ y.repr = Append(x.repr, r.id)
  BY DEF Further
<1>4. x.repr \in Seq(Nat) /\ Len(x.repr) = k - 1 /\ \A s \in 1 .. k - 1 : x.repr[s] \in 1 .. Len(q)
  BY DEF Forward
<1>5. /\ r.nodes \in Good(c) /\ Len(r.nodes) \in Nat /\ Len(q) <= Len(r.nodes)
      /\ r.id \in 1 .. Len(r.nodes)
      /\ \A id \in 1 .. Len(q) : r.nodes[id] = q[id]
      /\ \A id \in Len(q) + 1 .. Len(r.nodes) : IsSource(r.nodes[id]) => r.nodes[id] = inst /\ id = r.id
      /\ IsSource(inst) => r.nodes[r.id] = inst
      /\ \A v, w, e : /\ Consistent(r.nodes, v, e) /\ Consistent(c.insts, w, e)
                      /\ \A u \in 1 .. k - 1 : v[x.repr[u]] = w[u]
                      => v[r.id] = w[k]
  <2>1. CASE inst.kind \in {"Const", "Gate"}
    <3>1. Stands(c, q, x.repr, inst, r)
      <4>. HIDE DEF inst, q, r
      <4>. QED BY <1>1, <1>2, <1>4, <2>1, RewriteStands DEF r
    <3>. HIDE DEF r
    <3>2. Extends(c, q, r.nodes) /\ r.id \in 1 .. Len(r.nodes)
      BY <3>1 DEF Stands, Rewrites
    <3>3. ASSUME NEW v, NEW w, NEW e, Consistent(r.nodes, v, e), Consistent(c.insts, w, e),
                 \A u \in 1 .. k - 1 : v[x.repr[u]] = w[u]
          PROVE  v[r.id] = w[k]
      <4>1. v[r.id] = InstValue(inst, w, e.inputs, e.state)
        BY <1>1, <3>1, <3>3 DEF Stands
      <4>. QED BY <3>3, <4>1 DEF Consistent
    <3>4. ~IsSource(inst)
      BY <2>1 DEF IsSource
    <3>5. \A id \in Len(q) + 1 .. Len(r.nodes) : ~IsSource(r.nodes[id])
      BY <3>2 DEF Extends, IsSource
    <3>. HIDE DEF inst, q
    <3>. QED BY <3>2, <3>3, <3>4, <3>5 DEF Extends
  <2>2. CASE IsSource(inst)
    <3>1. r.nodes = Append(q, inst) /\ r.id = Len(q) + 1
      BY <2>2, RewriteOf DEF IsSource, push, Found
    <3>. HIDE DEF r
    <3>2. /\ Append(q, inst) \in Good(c) /\ Len(Append(q, inst)) = Len(q) + 1
          /\ Append(q, inst)[Len(q) + 1] = inst
          /\ \A id \in 1 .. Len(q) : Append(q, inst)[id] = q[id]
      <4>1. ~IsGate(inst) /\ inst.kind \notin {"Const", "Gate"}
        BY <2>2 DEF IsSource, IsGate
      <4>. HIDE DEF inst, q
      <4>. QED BY <1>1, <1>2, <4>1, Pushed
    <3>3. /\ r.nodes \in Good(c) /\ Len(r.nodes) = Len(q) + 1 /\ r.nodes[r.id] = inst
          /\ \A id \in 1 .. Len(q) : r.nodes[id] = q[id]
      BY <3>1, <3>2
    <3>4. r.id \in 1 .. Len(r.nodes) /\ Len(q) <= Len(r.nodes)
      BY <1>2, <3>1, <3>3
    <3>5. ASSUME NEW v, NEW w, NEW e, Consistent(r.nodes, v, e), Consistent(c.insts, w, e)
          PROVE  v[r.id] = w[k]
      <4>1. v[r.id] = InstValue(inst, v, e.inputs, e.state) /\ w[k] = InstValue(inst, w, e.inputs, e.state)
        BY <3>3, <3>4, <3>5 DEF Consistent
      <4>2. InstValue(inst, v, e.inputs, e.state) = InstValue(inst, w, e.inputs, e.state)
        BY <2>2, SourceValue DEF IsSource
      <4>. QED BY <4>1, <4>2
    <3>6. \A id \in Len(q) + 1 .. Len(r.nodes) : id = r.id
      BY <1>2, <3>1, <3>3
    <3>. HIDE DEF inst, q
    <3>. QED BY <1>2, <3>3, <3>4, <3>5, <3>6
  <2>. QED BY <1>1, <2>1, <2>2, Kinds DEF IsSource
<1>6. /\ y.repr \in Seq(Nat) /\ Len(y.repr) = k /\ y.repr[k] = r.id
      /\ \A s \in 1 .. k - 1 : y.repr[s] = x.repr[s]
  <2>1. r.id \in Nat
    BY <1>5
  <2>. HIDE DEF r
  <2>. QED BY <1>1, <1>3, <1>4, <2>1
<1>7. \A s \in 1 .. k : s = k \/ s \in 1 .. k - 1
  OBVIOUS
<1>. HIDE DEF r, y, inst, q
<1>8. \A s \in 1 .. k : y.repr[s] \in 1 .. Len(y.nodes)
  BY <1>2, <1>3, <1>4, <1>5, <1>6, <1>7
<1>9. ASSUME NEW v, NEW w, NEW e, Consistent(y.nodes, v, e), Consistent(c.insts, w, e), NEW s \in 1 .. k
      PROVE  v[y.repr[s]] = w[s]
  <2>1. Consistent(q, v, e)
    <3>1. \A id \in 1 .. Len(q) : id \in 1 .. Len(r.nodes) /\ r.nodes[id] = q[id]
      BY <1>2, <1>5
    <3>. QED BY <1>3, <1>9, <3>1 DEF Consistent
  <2>2. \A u \in 1 .. k - 1 : v[x.repr[u]] = w[u]
    BY <1>9, <2>1 DEF Forward, q
  <2>3. v[r.id] = w[k]
    BY <1>3, <1>5, <1>9, <2>2
  <2>. QED BY <1>6, <1>7, <2>2, <2>3
<1>10. ASSUME NEW id \in 1 .. Len(y.nodes), IsSource(y.nodes[id])
       PROVE  \E s \in 1 .. k : c.insts[s] = y.nodes[id] /\ y.repr[s] = id
  <2>1. id \in 1 .. Len(q) \/ id \in Len(q) + 1 .. Len(r.nodes)
    BY <1>2, <1>3, <1>5
  <2>2. CASE id \in 1 .. Len(q)
    <3>1. PICK s \in 1 .. k - 1 : c.insts[s] = q[id] /\ x.repr[s] = id
      BY <1>3, <1>5, <1>10, <2>2 DEF Forward, q
    <3>2. s \in 1 .. k
      BY <1>1
    <3>. QED BY <1>3, <1>5, <1>6, <2>2, <3>1, <3>2
  <2>3. CASE id \in Len(q) + 1 .. Len(r.nodes)
    <3>1. k \in 1 .. k
      BY <1>1
    <3>. QED BY <1>3, <1>5, <1>6, <1>10, <2>3, <3>1 DEF inst
  <2>. QED BY <2>1, <2>2, <2>3
<1>11. ASSUME NEW s \in 1 .. k, IsSource(c.insts[s]) PROVE y.nodes[y.repr[s]] = c.insts[s]
  <2>1. CASE s = k
    BY <1>3, <1>5, <1>6, <1>11, <2>1 DEF inst
  <2>2. CASE s \in 1 .. k - 1
    <3>1. q[x.repr[s]] = c.insts[s] /\ x.repr[s] \in 1 .. Len(q)
      BY <1>11, <2>2 DEF Forward, q
    <3>. QED BY <1>3, <1>5, <1>6, <2>2, <3>1
  <2>. QED BY <1>7, <2>1, <2>2
<1>. QED BY <1>3, <1>5, <1>6, <1>8, <1>9, <1>10, <1>11 DEF Forward, y

\* A function that goes from each instruction to the next is the rewriter's.
LEMMA ForwardUnique ==
  ASSUME NEW c, Len(c.insts) \in Nat, NEW f, f = [k \in 0 .. Len(c.insts) |-> f[k]],
         f[0] = [nodes |-> <<>>, repr |-> <<>>],
         \A k \in 1 .. Len(c.insts) : f[k] = Further(c, k, f[k - 1])
  PROVE  ForwardRewrite(c) = f[Len(c.insts)]
<1>. DEFINE n == Len(c.insts)
            first == [nodes |-> <<>>, repr |-> <<>>]
            after(k, before) == LET res == Rewrite(before.nodes, before.repr, c.insts[k])
                                IN  [nodes |-> res.nodes, repr |-> Append(before.repr, res.id)]
            body(q) == [k \in 0 .. n |-> IF k = 0 THEN first ELSE LET before == q[k - 1] IN after(k, before)]
            upTo == CHOOSE q : q = body(q)
<1>1. ForwardRewrite(c) = upTo[n]
  BY DEF ForwardRewrite
<1>2. \A k, x : after(k, x) = Further(c, k, x)
  BY DEF Further
<1>. HIDE DEF after, first
<1>3. f = body(f)
  <2>1. ASSUME NEW k \in 0 .. n PROVE f[k] = body(f)[k]
    <3>1. CASE k = 0
      BY <3>1 DEF first
    <3>2. CASE k # 0
      <4>1. k \in 1 .. n
        BY <3>2
      <4>2. f[k] = after(k, f[k - 1])
        BY <1>2, <4>1
      <4>. QED BY <3>2, <4>2
    <3>. QED BY <3>1, <3>2
  <2>2. DOMAIN f = 0 .. n /\ DOMAIN body(f) = 0 .. n
    <3>. HIDE DEF n
    <3>. QED BY DEF n
  <2>3. f = [k \in 0 .. n |-> f[k]]
    OBVIOUS
  <2>. HIDE DEF n
  <2>. QED BY <2>1, <2>2, <2>3
<1>4. upTo = body(upTo)
  <2>. HIDE DEF body
  <2>. QED BY <1>3
<1>5. upTo = f
  <2>1. ASSUME NEW k \in 1 .. n, upTo[k - 1] = f[k - 1] PROVE upTo[k] = f[k]
    <3>1. k \in 0 .. n /\ k # 0
      OBVIOUS
    <3>2. body(upTo)[k] = after(k, upTo[k - 1]) /\ body(f)[k] = after(k, f[k - 1])
      <4>. HIDE DEF upTo
      <4>. QED BY <3>1
    <3>. QED BY <1>3, <1>4, <2>1, <3>2
  <2>2. 0 \in 0 .. n
    OBVIOUS
  <2>3. body(upTo)[0] = first /\ body(f)[0] = first
    <3>. HIDE DEF upTo
    <3>. QED BY <2>2
  <2>4. DOMAIN body(upTo) = 0 .. n /\ body(upTo) = [k \in 0 .. n |-> body(upTo)[k]]
    <3>. HIDE DEF upTo
    <3>. QED OBVIOUS
  <2>5. DOMAIN f = 0 .. n /\ f = [k \in 0 .. n |-> f[k]] /\ n \in Nat
    OBVIOUS
  <2>. HIDE DEF body, upTo
  <2>6. upTo[0] = f[0] /\ DOMAIN upTo = 0 .. n /\ upTo = [k \in 0 .. n |-> upTo[k]]
    BY <1>3, <1>4, <2>3, <2>4
  <2>. QED BY <2>1, <2>5, <2>6, SameSteps
<1>. HIDE DEF upTo
<1>. QED BY <1>1, <1>5

\* The forward rewrite gives every signal a node of its value.
LEMMA ForwardRewritten ==
  ASSUME NEW c, c.insts \in NodesOf(c)
  PROVE  Forward(c, Len(c.insts), ForwardRewrite(c))
<1>. DEFINE n == Len(c.insts)
            first == [nodes |-> <<>>, repr |-> <<>>]
            B == [k \in 0 .. n |-> {x \in [nodes : Good(c), repr : Seq(Nat)] : Forward(c, k, x)}]
            step == [k \in 1 .. n |-> [x \in B[k - 1] |-> Further(c, k, x)]]
<1>1. n \in Nat
  BY Nodes
<1>2. first \in B[0]
  <2>1. <<>> \in Good(c)
    BY DEF Good, NodesOf, Normal, Once
  <2>2. Forward(c, 0, first)
    BY <2>1 DEF Forward
  <2>3. first \in [nodes : Good(c), repr : Seq(Nat)]
    BY <2>1
  <2>. HIDE DEF first
  <2>. QED BY <1>1, <2>2, <2>3
<1>3. ASSUME NEW k \in 1 .. n, NEW x \in B[k - 1] PROVE step[k][x] = Further(c, k, x) /\ step[k][x] \in B[k]
  <2>1. k - 1 \in 0 .. n /\ k \in 0 .. n
    BY <1>1
  <2>2. Forward(c, k - 1, x)
    BY <2>1
  <2>3. Forward(c, k, Further(c, k, x))
    BY <2>2, Forwarded
  <2>4. step[k][x] = Further(c, k, x)
    <3>. HIDE DEF B
    <3>. QED OBVIOUS
  <2>5. Further(c, k, x) \in [nodes : Good(c), repr : Seq(Nat)]
    BY <2>3 DEF Forward, Further
  <2>. HIDE DEF step
  <2>. QED BY <2>1, <2>3, <2>4, <2>5
<1>4. PICK f : Constructs(f, n, B, first, step)
  <2>. HIDE DEF n, B, first, step
  <2>. QED BY <1>1, <1>2, <1>3, Constructing
<1>5. \A k \in 1 .. n : f[k] = Further(c, k, f[k - 1])
  <2>1. \A k \in 1 .. n : k - 1 \in 0 .. n
    BY <1>1
  <2>. HIDE DEF B, step, n
  <2>. QED BY <1>3, <1>4, <2>1 DEF Constructs
<1>6. Forward(c, n, f[n])
  <2>1. n \in 0 .. n
    BY <1>1
  <2>2. f[n] \in B[n]
    <3>. HIDE DEF B, step, n
    <3>. QED BY <1>4, <2>1 DEF Constructs
  <2>. QED BY <2>1, <2>2
<1>7. ForwardRewrite(c) = f[n]
  <2>1. f = [k \in 0 .. n |-> f[k]] /\ f[0] = first
    <3>. HIDE DEF B, step, first
    <3>. QED BY <1>4 DEF Constructs
  <2>. QED BY <1>1, <1>5, <2>1, ForwardUnique
<1>. QED BY <1>6, <1>7

-----------------------------------------------------------------------------
(* The nodes that are reached.                                             *)

\* R holds the roots and what its members read, and nothing without a reader.
Reaches(q, roots, R) ==
  /\ R \subseteq 1 .. Len(q) /\ roots \subseteq R
  /\ \A id \in R : Operands(q[id]) \subseteq R
  /\ \A id \in R : id \in roots \/ \E g \in R : id \in Operands(q[g])

\* The descending pass reaches what is read from the roots.
LEMMA ReachedReaches ==
  ASSUME NEW c, NEW q \in NodesOf(c), NEW roots \in SUBSET (1 .. Len(q))
  PROVE  Reaches(q, roots, Reached(q, roots))
<1>. DEFINE n == Len(q)
            U == SUBSET (1 .. n)
            after(id, live) == IF id \in live THEN live \cup Operands(q[id]) ELSE live
            body(m) == [id \in 1 .. n + 1 |-> IF id = n + 1 THEN roots
                          ELSE LET live == m[id + 1]
                               IN  IF id \in live THEN live \cup Operands(q[id]) ELSE live]
            marked == CHOOSE m : m = body(m)
            step == [k \in 0 .. n |-> [live \in U |-> IF k = 0 THEN live ELSE after((n + 1) - k, live)]]
<1>1. n \in Nat /\ \A id \in 1 .. n : Operands(q[id]) \subseteq 1 .. id - 1
  BY Nodes
<1>2. ASSUME NEW id \in 1 .. n, NEW live \in U PROVE after(id, live) \in U
  <2>1. Operands(q[id]) \subseteq 1 .. n
    BY <1>1
  <2>. QED BY <2>1
<1>. HIDE DEF after
<1>3. step \in [0 .. n -> [U -> U]]
  <2>1. ASSUME NEW k \in 0 .. n, NEW live \in U, k # 0 PROVE after((n + 1) - k, live) \in U
    <3>1. (n + 1) - k \in 1 .. n
      BY <1>1, <2>1
    <3>. HIDE DEF U, n
    <3>. QED BY <1>2, <3>1
  <2>. HIDE DEF U, n
  <2>. QED BY <2>1
<1>4. PICK f \in [0 .. n -> U] : Iterates(f, 0, n, roots, step)
  <2>1. roots \in U /\ 0 \in Nat /\ 0 <= n
    BY <1>1
  <2>. HIDE DEF U, n, step
  <2>. QED BY <1>1, <1>3, <2>1, Iteration
<1>. DEFINE at == [id \in 1 .. n + 1 |-> f[(n + 1) - id]]
<1>5. /\ at \in [1 .. n + 1 -> U] /\ at[n + 1] = roots
      /\ \A id \in 1 .. n : at[id] = after(id, at[id + 1])
  <2>1. \A id \in 1 .. n + 1 : (n + 1) - id \in 0 .. n
    BY <1>1
  <2>2. f[0] = roots
    <3>1. 0 \in 0 .. n
      BY <1>1
    <3>. HIDE DEF U, n, step
    <3>. QED BY <1>4, <3>1 DEF Iterates
  <2>3. n + 1 \in 1 .. n + 1 /\ (n + 1) - (n + 1) = 0
    BY <1>1
  <2>4. ASSUME NEW id \in 1 .. n PROVE at[id] = after(id, at[id + 1])
    <3>1. /\ (n + 1) - id \in 0 .. n /\ (n + 1) - id # 0 /\ ((n + 1) - id) - 1 \in 0 .. n
          /\ id \in 1 .. n + 1 /\ id + 1 \in 1 .. n + 1
          /\ ((n + 1) - id) - 1 = (n + 1) - (id + 1) /\ (n + 1) - ((n + 1) - id) = id
      BY <1>1
    <3>. HIDE DEF U, n
    <3>2. f[(n + 1) - id] = step[(n + 1) - id][f[((n + 1) - id) - 1]]
      <4>. HIDE DEF step
      <4>. QED BY <1>4, <3>1 DEF Iterates
    <3>3. f[((n + 1) - id) - 1] \in U
      BY <3>1
    <3>4. step[(n + 1) - id][f[((n + 1) - id) - 1]] = after(id, f[((n + 1) - id) - 1])
      BY <3>1, <3>3
    <3>. QED BY <3>1, <3>2, <3>4
  <2>. HIDE DEF U, n
  <2>. QED BY <2>1, <2>2, <2>3, <2>4
<1>. HIDE DEF at
<1>6. at = body(at)
  <2>1. ASSUME NEW id \in 1 .. n + 1 PROVE at[id] = body(at)[id]
    <3>1. CASE id = n + 1
      <4>. HIDE DEF n
      <4>. QED BY <1>5, <3>1
    <3>2. CASE id # n + 1
      <4>1. id \in 1 .. n
        BY <1>1, <3>2
      <4>. HIDE DEF n
      <4>. QED BY <1>5, <3>2, <4>1 DEF after
    <3>. QED BY <3>1, <3>2
  <2>. HIDE DEF U, n
  <2>. QED BY <1>5, <2>1
<1>7. marked = body(marked)
  <2>. HIDE DEF body
  <2>. QED BY <1>6
<1>8. Reached(q, roots) = marked[1]
  BY DEF Reached
<1>. HIDE DEF marked
<1>9. \A id \in 1 .. n + 1 : marked[id] = at[id]
  <2>. DEFINE S == {k \in 0 .. n : marked[(n + 1) - k] = at[(n + 1) - k]}
  <2>1. 0 \in S
    <3>1. (n + 1) - 0 = n + 1 /\ n + 1 \in 1 .. n + 1 /\ 0 \in 0 .. n
      BY <1>1
    <3>2. body(marked)[n + 1] = roots
      <4>. HIDE DEF n
      <4>. QED BY <3>1
    <3>3. marked[n + 1] = roots
      BY <1>7, <3>2
    <3>. HIDE DEF n
    <3>. QED BY <1>5, <3>1, <3>3
  <2>2. ASSUME NEW k \in 0 .. n - 1, k \in S PROVE k + 1 \in S
    <3>. DEFINE id == (n + 1) - (k + 1)
    <3>1. /\ id \in 1 .. n + 1 /\ id # n + 1 /\ id \in 1 .. n /\ id + 1 = (n + 1) - k
          /\ k + 1 \in 0 .. n /\ id + 1 \in 1 .. n + 1
      BY <1>1
    <3>2. marked[id + 1] = at[id + 1]
      BY <2>2, <3>1
    <3>3. body(marked)[id] = after(id, marked[id + 1])
      <4>. HIDE DEF id, n
      <4>. QED BY <3>1 DEF after
    <3>4. marked[id] = after(id, at[id + 1])
      BY <1>7, <3>2, <3>3
    <3>5. marked[id] = at[id]
      BY <1>5, <3>1, <3>4
    <3>. QED BY <3>1, <3>5
  <2>3. \A k \in 0 .. n : k \in S
    <3>1. 0 \in Nat
      OBVIOUS
    <3>. HIDE DEF S, n
    <3>. QED BY <1>1, <2>1, <2>2, <3>1, IntervalInduction
  <2>4. ASSUME NEW id \in 1 .. n + 1 PROVE marked[id] = at[id]
    <3>1. (n + 1) - id \in 0 .. n /\ (n + 1) - ((n + 1) - id) = id
      BY <1>1
    <3>2. (n + 1) - id \in S
      BY <2>3, <3>1
    <3>. QED BY <3>1, <3>2
  <2>. QED BY <2>4
<1>10. Reached(q, roots) = at[1]
  <2>1. 1 \in 1 .. n + 1
    BY <1>1
  <2>. QED BY <1>8, <1>9, <2>1
\* What is marked stays marked.
<1>11. ASSUME NEW id \in 1 .. n + 1 PROVE at[id] \subseteq at[1]
  <2>. DEFINE S == {k \in 1 .. n + 1 : at[k] \subseteq at[1]}
  <2>1. 1 \in S
    BY <1>1
  <2>2. ASSUME NEW k \in 1 .. (n + 1) - 1, k \in S PROVE k + 1 \in S
    <3>1. k \in 1 .. n /\ k + 1 \in 1 .. n + 1
      BY <1>1
    <3>2. at[k + 1] \subseteq at[k]
      <4>1. at[k] = after(k, at[k + 1])
        BY <1>5, <3>1
      <4>. QED BY <4>1 DEF after
    <3>. QED BY <2>2, <3>1, <3>2
  <2>3. \A k \in 1 .. n + 1 : k \in S
    <3>1. 1 \in Nat /\ n + 1 \in Nat
      BY <1>1
    <3>. HIDE DEF S, n
    <3>. QED BY <2>1, <2>2, <3>1, IntervalInduction
  <2>. QED BY <2>3
\* A node is marked before the pass comes to it, if at all.
<1>12. ASSUME NEW id \in 1 .. n, id \in at[1] PROVE id \in at[id + 1]
  <2>. DEFINE S == {k \in 1 .. id + 1 : id \in at[k]}
  <2>1. 1 \in S
    BY <1>12
  <2>2. ASSUME NEW k \in 1 .. (id + 1) - 1, k \in S PROVE k + 1 \in S
    <3>1. k \in 1 .. n /\ k + 1 \in 1 .. id + 1 /\ id \notin 1 .. k - 1
      BY <1>1
    <3>2. Operands(q[k]) \subseteq 1 .. k - 1
      BY <1>1, <3>1
    <3>3. at[k] = after(k, at[k + 1])
      BY <1>5, <3>1
    <3>. HIDE DEF n
    <3>. QED BY <2>2, <3>1, <3>2, <3>3 DEF after
  <2>3. \A k \in 1 .. id + 1 : k \in S
    <3>1. 1 \in Nat /\ id + 1 \in Nat
      BY <1>1
    <3>. HIDE DEF S, n
    <3>. QED BY <2>1, <2>2, <3>1, IntervalInduction
  <2>4. id + 1 \in 1 .. id + 1
    BY <1>1
  <2>. QED BY <2>3, <2>4
<1>13. ASSUME NEW id \in at[1] PROVE Operands(q[id]) \subseteq at[1]
  <2>1. id \in 1 .. n
    <3>1. 1 \in 1 .. n + 1
      BY <1>1
    <3>. QED BY <1>5, <3>1
  <2>2. id \in at[id + 1] /\ at[id] = after(id, at[id + 1]) /\ id \in 1 .. n + 1
    BY <1>1, <1>5, <1>12, <2>1
  <2>3. Operands(q[id]) \subseteq at[id]
    BY <2>2 DEF after
  <2>. QED BY <1>11, <2>2, <2>3
<1>14. ASSUME NEW id \in 1 .. n + 1
       PROVE  \A x \in at[id] : x \in roots \/ \E g \in at[1] : x \in Operands(q[g])
  <2>. DEFINE S == {k \in 0 .. n : \A x \in at[(n + 1) - k] : x \in roots \/ \E g \in at[1] : x \in Operands(q[g])}
  <2>1. 0 \in S
    <3>1. (n + 1) - 0 = n + 1 /\ 0 \in 0 .. n
      BY <1>1
    <3>. HIDE DEF n
    <3>. QED BY <1>5, <3>1
  <2>2. ASSUME NEW k \in 0 .. n - 1, k \in S PROVE k + 1 \in S
    <3>. DEFINE m == (n + 1) - (k + 1)
    <3>1. m \in 1 .. n /\ m + 1 = (n + 1) - k /\ k + 1 \in 0 .. n /\ m + 1 \in 1 .. n + 1
      BY <1>1
    <3>2. \A x \in at[m + 1] : x \in roots \/ \E g \in at[1] : x \in Operands(q[g])
      BY <2>2, <3>1
    <3>3. at[m] = after(m, at[m + 1]) /\ at[m + 1] \subseteq at[1]
      BY <1>5, <1>11, <3>1
    <3>. HIDE DEF m
    <3>4. \A x \in at[m] : x \in roots \/ \E g \in at[1] : x \in Operands(q[g])
      BY <3>2, <3>3 DEF after
    <3>. QED BY <3>1, <3>4 DEF m
  <2>3. \A k \in 0 .. n : k \in S
    <3>1. 0 \in Nat
      OBVIOUS
    <3>. HIDE DEF S, n
    <3>. QED BY <1>1, <2>1, <2>2, <3>1, IntervalInduction
  <2>4. (n + 1) - id \in 0 .. n /\ (n + 1) - ((n + 1) - id) = id
    BY <1>1
  <2>5. (n + 1) - id \in S
    BY <2>3, <2>4
  <2>. QED BY <2>4, <2>5
<1>15. 1 \in 1 .. n + 1 /\ n + 1 \in 1 .. n + 1
  BY <1>1
<1>16. at[1] \subseteq 1 .. n /\ roots \subseteq at[1]
  BY <1>5, <1>11, <1>15
<1>. QED BY <1>10, <1>13, <1>14, <1>15, <1>16 DEF Reaches

-----------------------------------------------------------------------------
(* Keeping a closed set of nodes and renumbering them.                     *)

\* A node with its operands at their new places.
Emit(place, node) ==
  IF IsGate(node)
  THEN [node EXCEPT !.ins = [i \in DOMAIN node.ins |-> place[node.ins[i]]]]
  ELSE node

\* The operands of the node are among the members of L, read from below.
Within(c, L, n, node) ==
  /\ node \in Instructions(c) /\ Operands(node) \subseteq L
  /\ IsGate(node) => node.op \in GateOp /\ Reads(node.op, node.ins, n)

\* out is the node but for the numbers of its operands.
Emits(place, node, out) ==
  /\ out.kind = node.kind
  /\ IsGate(node) <=> IsGate(out)
  /\ ~IsGate(node) => out = node
  /\ IsGate(node) =>
       /\ out = Gate(node.op, [i \in 1 .. arity(node.op) |-> place[node.ins[i]]])
       /\ out.op = node.op
       /\ out.ins = [i \in 1 .. arity(node.op) |-> place[node.ins[i]]]

\* Emit keeps everything of a node but the numbers of its operands.
LEMMA Emitted ==
  ASSUME NEW c, NEW L, NEW n \in Nat, NEW node, Within(c, L, n, node), NEW place
  PROVE  Emits(place, node, Emit(place, node))
<1>1. CASE ~IsGate(node)
  BY <1>1 DEF Emit, Emits
<1>2. CASE IsGate(node)
  <2>. DEFINE op == node.op
              old == node.ins
              ins == [i \in 1 .. arity(op) |-> place[old[i]]]
  <2>1. node = Gate(op, old) /\ DOMAIN old = 1 .. arity(op)
    BY <1>2, Kinds DEF Within, Reads
  <2>2. Emit(place, node) = [node EXCEPT !.ins = ins]
    BY <1>2, <2>1 DEF Emit
  <2>. HIDE DEF op, old, ins
  <2>3. [Gate(op, old) EXCEPT !.ins = ins] = Gate(op, ins)
    BY DEF Gate
  <2>4. Emit(place, node) = Gate(op, ins)
    BY <2>1, <2>2, <2>3
  <2>5. Gate(op, ins).kind = "Gate" /\ Gate(op, ins).op = op /\ Gate(op, ins).ins = ins
    BY DEF Gate
  <2>. QED BY <1>2, <2>4, <2>5 DEF IsGate, Emits, op, old, ins
<1>. QED BY <1>1, <1>2

\* Different nodes stay different.
LEMMA EmitInjective ==
  ASSUME NEW c, NEW L, NEW place, \A x, y \in L : place[x] = place[y] => x = y,
         NEW n \in Nat, NEW a, Within(c, L, n, a), NEW m \in Nat, NEW b, Within(c, L, m, b),
         Emit(place, a) = Emit(place, b)
  PROVE  a = b
<1>0. Emits(place, a, Emit(place, a)) /\ Emits(place, b, Emit(place, b))
  BY Emitted
<1>1. IsGate(a) <=> IsGate(b)
  BY <1>0 DEF Emits
<1>2. CASE ~IsGate(a)
  BY <1>0, <1>1, <1>2 DEF Emits
<1>3. CASE IsGate(a)
  <2>1. a.op = b.op /\ IsGate(b)
    BY <1>0, <1>1, <1>3 DEF Emits
  <2>2. [i \in 1 .. arity(a.op) |-> place[a.ins[i]]] = [i \in 1 .. arity(a.op) |-> place[b.ins[i]]]
    <3>. DEFINE F == [i \in 1 .. arity(a.op) |-> place[a.ins[i]]]
                H == [i \in 1 .. arity(b.op) |-> place[b.ins[i]]]
    <3>1. Emit(place, a).ins = F /\ Emit(place, b).ins = H
      BY <1>0, <1>3, <2>1 DEF Emits
    <3>2. F = H
      <4>. HIDE DEF F, H
      <4>. QED BY <3>1
    <3>. QED BY <2>1, <3>2
  <2>3. /\ a.ins \in [1 .. arity(a.op) -> 1 .. n] /\ b.ins \in [1 .. arity(a.op) -> 1 .. m]
        /\ a.op \in GateOp /\ Reads(a.op, a.ins, n) /\ Reads(b.op, b.ins, m)
    BY <1>3, <2>1 DEF Within, Reads
  <2>4. ASSUME NEW i \in 1 .. arity(a.op) PROVE a.ins[i] = b.ins[i]
    <3>1. place[a.ins[i]] = place[b.ins[i]]
      <4>. DEFINE F == [j \in 1 .. arity(a.op) |-> place[a.ins[j]]]
                  H == [j \in 1 .. arity(a.op) |-> place[b.ins[j]]]
      <4>1. F[i] = H[i]
        BY <2>2
      <4>. QED BY <4>1
    <3>2. a.ins[i] \in Operands(a) /\ b.ins[i] \in Operands(b)
      BY <1>3, <2>1, <2>3, OperandsRead
    <3>. QED BY <3>1, <3>2 DEF Within
  <2>5. a.ins = b.ins
    <3>1. a.op = b.op
      BY <2>1
    <3>2. /\ a.ins = [i \in 1 .. arity(a.op) |-> a.ins[i]]
          /\ b.ins = [i \in 1 .. arity(a.op) |-> b.ins[i]]
      BY <2>3, <3>1
    <3>3. [i \in 1 .. arity(a.op) |-> a.ins[i]] = [i \in 1 .. arity(a.op) |-> b.ins[i]]
      BY <2>4
    <3>. QED BY ONLY <3>2, <3>3
  <2>6. a = Gate(a.op, a.ins) /\ b = Gate(b.op, b.ins)
    BY <1>3, <2>1, Kinds DEF Within
  <2>. QED BY <2>1, <2>5, <2>6
<1>. QED BY <1>2, <1>3

\* The kept nodes in order, each with its operands at their new places.
Renumber(q, L) == [p \in DOMAIN Ascending(L) |-> Emit(Rank(L), q[Ascending(L)[p]])]

\* A set of nodes and their operands.
Closed(q, L) == L \subseteq 1 .. Len(q) /\ \A id \in L : Operands(q[id]) \subseteq L

\* What the renumbered list is.
Renumbers(c, q, L, new) ==
  /\ Cardinality(L) \in Nat /\ Len(new) = Cardinality(L) /\ new \in Good(c)
  /\ \A id \in L : /\ Rank(L)[id] \in 1 .. Len(new)
                   /\ new[Rank(L)[id]] = Emit(Rank(L), q[id])
                   /\ Ascending(L)[Rank(L)[id]] = id
  /\ \A p \in 1 .. Len(new) : /\ Ascending(L)[p] \in L
                              /\ Rank(L)[Ascending(L)[p]] = p
                              /\ new[p] = Emit(Rank(L), q[Ascending(L)[p]])
  /\ \A v, e : Consistent(q, v, e)
               => Consistent(new, [p \in 1 .. Len(new) |-> v[Ascending(L)[p]]], e)

\* Keeping a closed set of nodes of a normal list gives a normal list, of the
\* same values.
LEMMA Renumbered ==
  ASSUME NEW c, NEW q \in Good(c), NEW L, Closed(q, L)
  PROVE  Renumbers(c, q, L, Renumber(q, L))
<1>. DEFINE n == Len(q)
            m == Cardinality(L)
            kept == Ascending(L)
            place == Rank(L)
            new == Renumber(q, L)
<1>1. q \in NodesOf(c) /\ Normal(q) /\ n \in Nat
  BY Nodes DEF Good
<1>2. Ascends(L) /\ m \in Nat
  <2>1. L \subseteq 1 .. n
    BY DEF Closed
  <2>2. IsFiniteSet(1 .. n)
    BY <1>1, FS_Interval
  <2>3. IsFiniteSet(L)
    BY <2>1, <2>2, FS_Subset
  <2>4. L \in SUBSET Nat
    BY <2>1
  <2>. QED BY <2>3, <2>4, AscendingOrder, FS_CardinalityType
<1>3. /\ kept \in [1 .. m -> L] /\ place \in [L -> 1 .. m]
      /\ \A k \in 1 .. m : place[kept[k]] = k
      /\ \A x \in L : kept[place[x]] = x
      /\ \A x, y \in L : place[x] = place[y] => x = y
      /\ \A x, y \in L : x < y <=> place[x] < place[y]
  BY <1>2 DEF Ascends, Numbered
<1>. HIDE DEF kept, place
<1>4. ASSUME NEW id \in L
      PROVE  Within(c, L, id - 1, q[id]) /\ id - 1 \in Nat /\ id \in 1 .. n /\ Operands(q[id]) \subseteq 1 .. id - 1
  BY <1>1, Nodes DEF Closed, Within
<1>5. new = [p \in 1 .. m |-> Emit(place, q[kept[p]])]
  <2>1. DOMAIN kept = 1 .. m
    BY <1>3
  <2>. QED BY <2>1 DEF Renumber, kept, place
<1>. HIDE DEF new, m
<1>6. ASSUME NEW p \in 1 .. m
      PROVE  kept[p] \in L /\ new[p] = Emit(place, q[kept[p]]) /\ new[p].kind = q[kept[p]].kind
  <2>1. kept[p] \in L
    BY <1>3
  <2>2. new[p] = Emit(place, q[kept[p]])
    BY <1>5
  <2>3. Emits(place, q[kept[p]], Emit(place, q[kept[p]]))
    BY <1>4, <2>1, Emitted
  <2>. QED BY <2>1, <2>2, <2>3 DEF Emits
<1>7. ASSUME NEW id \in L PROVE place[id] \in 1 .. m /\ new[place[id]] = Emit(place, q[id])
  <2>1. place[id] \in 1 .. m /\ kept[place[id]] = id
    BY <1>3
  <2>. QED BY <1>6, <2>1
\* A gate reads the new places of its operands, which lie below its own.
<1>8. ASSUME NEW p \in 1 .. m, IsGate(new[p])
      PROVE  LET node == q[kept[p]] IN
             /\ IsGate(node) /\ node.op \in GateOp /\ new[p].op = node.op
             /\ new[p] = Gate(node.op, new[p].ins)
             /\ Reads(node.op, new[p].ins, p - 1)
             /\ \A i \in 1 .. arity(node.op) : node.ins[i] \in L /\ new[p].ins[i] = place[node.ins[i]]
  <2>. DEFINE node == q[kept[p]]
              op == node.op
              ins == [i \in 1 .. arity(op) |-> place[node.ins[i]]]
  <2>1. kept[p] \in L /\ new[p] = Emit(place, node) /\ place[kept[p]] = p
    BY <1>3, <1>6
  <2>2. Within(c, L, kept[p] - 1, node) /\ kept[p] - 1 \in Nat /\ Operands(node) \subseteq L
        /\ Operands(node) \subseteq 1 .. kept[p] - 1
    BY <1>4, <2>1 DEF Within
  <2>3. IsGate(node) /\ new[p].op = op /\ new[p] = Gate(op, ins) /\ new[p].ins = ins
    <3>1. Emits(place, node, Emit(place, node))
      BY <2>2, Emitted
    <3>. QED BY <1>8, <2>1, <3>1 DEF Emits
  <2>4. op \in GateOp /\ Reads(op, node.ins, kept[p] - 1) /\ arity(op) \in 1 .. 3
    BY <2>2, <2>3, Arities DEF Within
  <2>5. ASSUME NEW i \in 1 .. arity(op) PROVE node.ins[i] \in L /\ place[node.ins[i]] \in 1 .. p - 1
    <3>1. node.ins[i] \in Operands(node)
      BY <2>2, <2>3, <2>4, OperandsRead
    <3>2. node.ins[i] \in L /\ node.ins[i] < kept[p] /\ kept[p] \in L
      <4>1. node.ins[i] \in 1 .. kept[p] - 1 /\ node.ins[i] \in L
        BY <2>2, <3>1
      <4>2. kept[p] \in 1 .. n
        BY <1>4, <2>1
      <4>. HIDE DEF node, n
      <4>. QED BY <1>1, <2>1, <4>1, <4>2
    <3>3. place[node.ins[i]] < place[kept[p]] /\ place[node.ins[i]] \in 1 .. m
      BY <1>3, <3>2
    <3>. QED BY <2>1, <3>2, <3>3
  <2>6. ins \in [1 .. arity(op) -> 1 .. p - 1] /\ Len(ins) = arity(op)
    <3>. HIDE DEF op
    <3>1. ins \in [1 .. arity(op) -> 1 .. p - 1] /\ arity(op) \in Nat
      BY <2>4, <2>5
    <3>. QED BY <3>1
  <2>7. Reads(op, ins, p - 1)
    BY <2>6 DEF Reads
  <2>. HIDE DEF op, node
  <2>. QED BY <2>3, <2>4, <2>5, <2>7 DEF op, node
<1>9. new \in Seq(Instructions(c)) /\ Len(new) = m
  <2>1. ASSUME NEW p \in 1 .. m PROVE new[p] \in Instructions(c)
    <3>1. CASE ~IsGate(new[p])
      <4>1. kept[p] \in L /\ new[p] = Emit(place, q[kept[p]])
        BY <1>6
      <4>2. Within(c, L, kept[p] - 1, q[kept[p]]) /\ kept[p] - 1 \in Nat
        BY <1>4, <4>1
      <4>3. new[p] = q[kept[p]]
        <5>1. Emits(place, q[kept[p]], Emit(place, q[kept[p]]))
          BY <4>2, Emitted
        <5>. QED BY <3>1, <4>1, <5>1 DEF Emits
      <4>. QED BY <4>2, <4>3 DEF Within
    <3>2. CASE IsGate(new[p])
      <4>. DEFINE op == q[kept[p]].op
                  ins == new[p].ins
      <4>1. op \in GateOp /\ new[p] = Gate(op, ins) /\ Reads(op, ins, p - 1)
        BY <1>8, <3>2
      <4>2. arity(op) \in Nat
        BY <4>1, Arities
      <4>. HIDE DEF op, ins
      <4>3. ins \in [1 .. arity(op) -> Nat]
        BY <4>1 DEF Reads
      <4>4. ins \in Seq(Nat)
        BY <4>2, <4>3
      <4>. QED BY <4>1, <4>4, Made
    <3>. QED BY <3>1, <3>2
  <2>2. new \in [1 .. m -> Instructions(c)]
    <3>1. new = [p \in 1 .. m |-> new[p]]
      BY <1>5
    <3>. QED BY <2>1, <3>1
  <2>3. m \in Nat
    BY <1>2
  <2>. QED BY <2>2, <2>3
<1>10. new \in NodesOf(c)
  <2>1. \A p \in 1 .. m : IsGate(new[p]) => Reads(new[p].op, new[p].ins, p - 1)
    BY <1>8
  <2>. QED BY <1>9, <2>1 DEF NodesOf
<1>11. ASSUME NEW p \in 1 .. m, IsGate(new[p])
       PROVE  Plain(new, new[p].op, new[p].ins) /\ InOrder(new[p].op, new[p].ins)
  <2>. DEFINE node == q[kept[p]]
              op == node.op
              old == node.ins
              ins == new[p].ins
  <2>1. /\ IsGate(node) /\ op \in GateOp /\ new[p].op = op
        /\ \A i \in 1 .. arity(op) : old[i] \in L /\ ins[i] = place[old[i]]
    BY <1>8, <1>11
  <2>2. kept[p] \in L /\ kept[p] \in 1 .. n
    BY <1>4, <1>6
  <2>3. Plain(q, op, old) /\ InOrder(op, old)
    BY <1>1, <2>1, <2>2 DEF Normal
  <2>4. ASSUME NEW i \in 1 .. arity(op)
        PROVE  /\ old[i] \in L /\ ins[i] = place[old[i]] /\ new[ins[i]] = Emit(place, q[old[i]])
               /\ Within(c, L, old[i] - 1, q[old[i]]) /\ old[i] - 1 \in Nat
               /\ new[ins[i]].kind = q[old[i]].kind
               /\ IsGate(new[ins[i]]) => IsGate(q[old[i]]) /\ new[ins[i]].op = q[old[i]].op
    <3>1. old[i] \in L /\ ins[i] = place[old[i]]
      BY <2>1
    <3>2. new[ins[i]] = Emit(place, q[old[i]]) /\ Within(c, L, old[i] - 1, q[old[i]]) /\ old[i] - 1 \in Nat
      BY <1>4, <1>7, <3>1
    <3>3. Emits(place, q[old[i]], Emit(place, q[old[i]]))
      BY <3>2, Emitted
    <3>. HIDE DEF old, ins, op, node
    <3>. QED BY <3>1, <3>2, <3>3 DEF Emits
  <2>. HIDE DEF node, op, old, ins
  <2>5. \A i, j \in 1 .. arity(op) : ins[i] = ins[j] => old[i] = old[j]
    BY <1>3, <2>4
  <2>6. op # "Buf" /\ \A i \in 1 .. arity(op) : new[ins[i]].kind # "Const"
    BY <2>3, <2>4 DEF Plain
  <2>7. ASSUME op = "Not" PROVE ~(IsGate(new[ins[1]]) /\ new[ins[1]].op = "Not")
    <3>1. 1 \in 1 .. arity(op)
      BY <2>1, Arities
    <3>. QED BY <2>3, <2>4, <2>7, <3>1 DEF Plain
  <2>8. ASSUME op \in Commutative
        PROVE  ins[1] # ins[2] /\ ~complements(new, ins[1], ins[2]) /\ ins[1] <= ins[2]
    <3>1. arity(op) = 2 /\ 1 \in 1 .. 2 /\ 2 \in 1 .. 2
      BY <2>8, Arities
    <3>2. old[1] # old[2] /\ ~complements(q, old[1], old[2]) /\ old[1] <= old[2]
      BY <2>3, <2>8 DEF Plain, InOrder
    <3>3. ASSUME NEW i \in 1 .. 2, NEW j \in 1 .. 2, Inverts(new, ins[i], ins[j])
          PROVE  Inverts(q, old[i], old[j])
      <4>1. /\ old[i] \in L /\ old[j] \in L /\ new[ins[i]] = Emit(place, q[old[i]])
            /\ Within(c, L, old[i] - 1, q[old[i]]) /\ old[i] - 1 \in Nat
            /\ ins[j] = place[old[j]]
        BY <2>4, <3>1
      <4>. DEFINE inverter == Gate("Not", <<old[j]>>)
      <4>2. new[ins[i]] = Gate("Not", <<place[old[j]]>>)
        BY <3>3, <4>1 DEF Inverts
      <4>3. /\ inverter \in Instructions(c) /\ IsGate(inverter)
            /\ inverter.op = "Not" /\ inverter.ins = <<old[j]>>
            /\ "Not" \in Unary /\ "Not" \in GateOp /\ arity("Not") = 1 /\ Reads("Not", <<old[j]>>, n)
        <5>1. old[j] \in 1 .. n
          BY <1>4, <4>1
        <5>2. "Not" \in Unary /\ "Not" \in GateOp /\ arity("Not") = 1
          BY Arities DEF Unary
        <5>3. <<old[j]>> \in Seq(Nat) /\ Reads("Not", <<old[j]>>, n)
          BY <1>1, <5>1, <5>2, Tuples
        <5>. HIDE DEF n
        <5>. QED BY <5>2, <5>3, Made
      <4>4. Operands(inverter) = {old[j]}
        <5>1. Operands(inverter) = {inverter.ins[x] : x \in 1 .. 1}
          <6>. HIDE DEF inverter
          <6>. QED BY <1>1, <4>3, OperandsRead
        <5>2. \A x \in 1 .. 1 : inverter.ins[x] = old[j]
          BY <4>3
        <5>. HIDE DEF inverter
        <5>. QED BY <5>1, <5>2
      <4>. HIDE DEF inverter
      <4>5. Within(c, L, n, inverter)
        BY <4>1, <4>3, <4>4 DEF Within
      <4>6. Emit(place, inverter) = Gate("Not", [x \in 1 .. 1 |-> place[inverter.ins[x]]])
        <5>1. Emits(place, inverter, Emit(place, inverter))
          BY <1>1, <4>5, Emitted
        <5>. QED BY <4>3, <5>1 DEF Emits
      <4>7. [x \in 1 .. 1 |-> place[inverter.ins[x]]] = <<place[old[j]]>>
        BY <4>3
      <4>8. Emit(place, q[old[i]]) = Emit(place, inverter)
        BY <4>1, <4>2, <4>6, <4>7
      <4>9. q[old[i]] = inverter
        BY <1>1, <1>3, <4>1, <4>5, <4>8, EmitInjective
      <4>. QED BY <4>9 DEF Inverts, inverter
    <3>4. ins[1] # ins[2]
      BY <2>5, <3>1, <3>2
    <3>5. ~complements(new, ins[1], ins[2])
      BY <3>1, <3>2, <3>3 DEF complements
    <3>6. ins[1] <= ins[2]
      <4>1. /\ old[1] \in L /\ old[2] \in L /\ ins[1] = place[old[1]] /\ ins[2] = place[old[2]]
            /\ old[1] \in 1 .. n /\ old[2] \in 1 .. n
        BY <1>4, <2>4, <3>1
      <4>2. old[1] < old[2]
        BY <3>2, <4>1
      <4>3. place[old[1]] < place[old[2]] /\ place[old[1]] \in 1 .. m /\ place[old[2]] \in 1 .. m
        BY <1>3, <4>1, <4>2
      <4>. QED BY <4>1, <4>3
    <3>. QED BY <3>4, <3>5, <3>6
  <2>9. ASSUME op = "Mux" PROVE ins[1] # ins[2] /\ ins[1] # ins[3] /\ ins[2] # ins[3]
    <3>1. 1 \in 1 .. arity(op) /\ 2 \in 1 .. arity(op) /\ 3 \in 1 .. arity(op)
      BY <2>9, Arities
    <3>. QED BY <2>3, <2>5, <2>9, <3>1 DEF Plain
  <2>10. Plain(new, op, ins) /\ InOrder(op, ins)
    BY <2>6, <2>7, <2>8, <2>9 DEF Plain, InOrder
  <2>. QED BY <2>1, <2>10 DEF ins
<1>12. Once(new)
  <2>1. ASSUME NEW g \in 1 .. m, NEW h \in 1 .. m, new[g] = new[h], new[g].kind \in {"Const", "Gate"}
        PROVE  g = h
    <3>1. /\ kept[g] \in L /\ new[g] = Emit(place, q[kept[g]]) /\ new[g].kind = q[kept[g]].kind
          /\ kept[h] \in L /\ new[h] = Emit(place, q[kept[h]])
      BY <1>6
    <3>2. /\ Within(c, L, kept[g] - 1, q[kept[g]]) /\ kept[g] - 1 \in Nat /\ kept[g] \in 1 .. n
          /\ Within(c, L, kept[h] - 1, q[kept[h]]) /\ kept[h] - 1 \in Nat /\ kept[h] \in 1 .. n
      BY <1>4, <3>1
    <3>3. Emit(place, q[kept[g]]) = Emit(place, q[kept[h]])
      BY <2>1, <3>1
    <3>4. q[kept[g]] = q[kept[h]]
      BY <1>3, <3>2, <3>3, EmitInjective
    <3>5. kept[g] = kept[h]
      BY <1>1, <2>1, <3>1, <3>2, <3>4 DEF Normal, Once
    <3>6. place[kept[g]] = g /\ place[kept[h]] = h
      BY <1>3
    <3>. QED BY <3>5, <3>6
  <2>. QED BY <1>9, <2>1 DEF Once
<1>13. new \in Good(c)
  BY <1>9, <1>10, <1>11, <1>12 DEF Good, Normal
\* The values of the kept nodes are consistent with the renumbered list.
<1>14. ASSUME NEW v, NEW e, Consistent(q, v, e)
       PROVE  Consistent(new, [p \in 1 .. m |-> v[kept[p]]], e)
  <2>. DEFINE w == [p \in 1 .. m |-> v[kept[p]]]
  <2>1. \A p \in 1 .. m : w[p] = v[kept[p]]
    OBVIOUS
  <2>. HIDE DEF w
  <2>2. ASSUME NEW p \in 1 .. m PROVE w[p] \in BOOLEAN /\ w[p] = InstValue(new[p], w, e.inputs, e.state)
    <3>. DEFINE node == q[kept[p]]
    <3>1. kept[p] \in L /\ new[p] = Emit(place, node)
      BY <1>6
    <3>2. Within(c, L, kept[p] - 1, node) /\ kept[p] - 1 \in Nat /\ kept[p] \in 1 .. n
      BY <1>4, <3>1
    <3>3. v[kept[p]] \in BOOLEAN /\ v[kept[p]] = InstValue(node, v, e.inputs, e.state)
      BY <1>14, <3>2 DEF Consistent
    <3>4. CASE ~IsGate(node)
      <4>1. new[p] = node /\ node.kind \in {"Const", "Input", "RegisterOutput"}
        <5>1. Emits(place, node, Emit(place, node))
          BY <3>2, Emitted
        <5>2. node.kind \in {"Const", "Input", "RegisterOutput"}
          BY <3>2, <3>4, Kinds DEF Within, IsGate
        <5>. QED BY <3>1, <3>4, <5>1, <5>2 DEF Emits
      <4>2. InstValue(node, v, e.inputs, e.state) = InstValue(node, w, e.inputs, e.state)
        <5>. HIDE DEF node
        <5>. QED BY <4>1, SourceValue
      <4>. QED BY <2>1, <3>3, <4>1, <4>2
    <3>5. CASE IsGate(node)
      <4>. DEFINE op == node.op
                  old == node.ins
                  ins == new[p].ins
      <4>1. IsGate(new[p])
        <5>1. Emits(place, node, Emit(place, node))
          BY <3>2, Emitted
        <5>. QED BY <3>1, <3>5, <5>1 DEF Emits
      <4>2. /\ op \in GateOp /\ new[p].op = op /\ Reads(op, ins, p - 1)
            /\ \A i \in 1 .. arity(op) : old[i] \in L /\ ins[i] = place[old[i]]
        BY <1>8, <4>1
      <4>3. Reads(op, old, kept[p] - 1)
        BY <3>2, <3>5 DEF Within
      <4>4. Applied(op, old, v, v[kept[p]])
        BY <3>3, <3>5, <4>3, GateValue
      <4>5. Applied(op, ins, w, InstValue(new[p], w, e.inputs, e.state))
        BY <4>1, <4>2, GateValue
      <4>6. ASSUME NEW i \in 1 .. arity(op) PROVE w[ins[i]] = v[old[i]]
        <5>1. old[i] \in L /\ ins[i] = place[old[i]]
          BY <4>2
        <5>2. place[old[i]] \in 1 .. m /\ kept[place[old[i]]] = old[i]
          BY <1>3, <5>1
        <5>. HIDE DEF old, ins, op
        <5>. QED BY <2>1, <5>1, <5>2
      <4>7. arity(op) \in 1 .. 3
        BY <4>2, Arities
      <4>. HIDE DEF old, ins, op
      <4>8. InstValue(new[p], w, e.inputs, e.state) = v[kept[p]]
        <5>1. CASE arity(op) = 1
          <6>1. w[ins[1]] = v[old[1]]
            BY <4>6, <5>1
          <6>. QED BY <4>4, <4>5, <5>1, <6>1 DEF Applied
        <5>2. CASE arity(op) = 2
          <6>1. w[ins[1]] = v[old[1]] /\ w[ins[2]] = v[old[2]]
            BY <4>6, <5>2
          <6>. QED BY <4>4, <4>5, <5>2, <6>1 DEF Applied
        <5>3. CASE arity(op) = 3
          <6>1. w[ins[1]] = v[old[1]] /\ w[ins[2]] = v[old[2]] /\ w[ins[3]] = v[old[3]]
            BY <4>6, <5>3
          <6>. QED BY <4>4, <4>5, <5>3, <6>1 DEF Applied
        <5>. QED BY <4>7, <5>1, <5>2, <5>3
      <4>. QED BY <2>1, <3>3, <4>8
    <3>. QED BY <3>4, <3>5
  <2>. QED BY <1>9, <2>2 DEF Consistent, w
<1>15. \A p \in 1 .. m : kept[p] \in L /\ place[kept[p]] = p /\ new[p] = Emit(place, q[kept[p]])
  BY <1>3, <1>6
<1>16. \A id \in L : place[id] \in 1 .. m /\ new[place[id]] = Emit(place, q[id]) /\ kept[place[id]] = id
  BY <1>3, <1>7
<1>17. m \in Nat
  BY <1>2
<1>. QED BY <1>9, <1>13, <1>14, <1>15, <1>16, <1>17 DEF Renumbers, new, m, kept, place

-----------------------------------------------------------------------------
(* The optimizer.                                                          *)

\* Circuits whose signals are in topological order.
Circuit(c) ==
  /\ c.input_count \in Nat /\ c.insts \in NodesOf(c)
  /\ Len(c.regs) \in Nat /\ c.regs \in [1 .. Len(c.regs) -> [data : 1 .. Len(c.insts), initial : BOOLEAN]]
  /\ Len(c.outputs) \in Nat /\ c.outputs \in [1 .. Len(c.outputs) -> 1 .. Len(c.insts)]

\* The nodes that the optimizer keeps.
LiveOf(c) == Live(ForwardRewrite(c).nodes, Roots(c, ForwardRewrite(c).repr))

\* d is c with its signals represented by the kept nodes.
OptimizesBy(c, d, fwd, L) ==
  /\ Forward(c, Len(c.insts), fwd) /\ Renumbers(c, fwd.nodes, L, d.insts)
  /\ Closed(fwd.nodes, L)
  /\ \A id \in 1 .. Len(fwd.nodes) : IsSource(fwd.nodes[id]) => id \in L
  /\ \A id \in L : ~IsSource(fwd.nodes[id])
       => id \in Roots(c, fwd.repr) \/ \E g \in L : id \in Operands(fwd.nodes[g])
  /\ d.input_count = c.input_count
  /\ d.regs = [r \in 1 .. Len(c.regs) |->
                 [data |-> Rank(L)[fwd.repr[c.regs[r].data]], initial |-> c.regs[r].initial]]
  /\ d.outputs = [o \in 1 .. Len(c.outputs) |-> Rank(L)[fwd.repr[c.outputs[o]]]]
  /\ \A r \in 1 .. Len(c.regs) : fwd.repr[c.regs[r].data] \in L
  /\ \A o \in 1 .. Len(c.outputs) : fwd.repr[c.outputs[o]] \in L

Optimizes(c, d) == OptimizesBy(c, d, ForwardRewrite(c), LiveOf(c))

\* optimize rewrites forward, keeps what is live and renumbers it.
LEMMA Optimized ==
  ASSUME NEW c, Circuit(c)
  PROVE  Optimizes(c, optimize(c))
<1>. DEFINE fwd == ForwardRewrite(c)
            q == fwd.nodes
            roots == Roots(c, fwd.repr)
            R == Reached(q, roots)
            L == LiveOf(c)
            d == optimize(c)
            to(s) == Rank(L)[fwd.repr[s]]
<1>1. Forward(c, Len(c.insts), fwd)
  BY ForwardRewritten DEF Circuit
<1>. HIDE DEF fwd
<1>2. q \in Good(c) /\ q \in NodesOf(c) /\ Len(q) \in Nat /\ DOMAIN q = 1 .. Len(q)
  BY <1>1, Nodes DEF Forward, Good
<1>3. \A s \in 1 .. Len(c.insts) : fwd.repr[s] \in 1 .. Len(q)
  BY <1>1 DEF Forward
<1>4. DOMAIN c.regs = 1 .. Len(c.regs) /\ DOMAIN c.outputs = 1 .. Len(c.outputs)
  BY DEF Circuit
<1>5. /\ \A r \in 1 .. Len(c.regs) : c.regs[r].data \in 1 .. Len(c.insts)
      /\ \A o \in 1 .. Len(c.outputs) : c.outputs[o] \in 1 .. Len(c.insts)
  BY DEF Circuit
<1>6. /\ \A r \in 1 .. Len(c.regs) : fwd.repr[c.regs[r].data] \in roots
      /\ \A o \in 1 .. Len(c.outputs) : fwd.repr[c.outputs[o]] \in roots
      /\ roots \subseteq 1 .. Len(q)
  BY <1>3, <1>4, <1>5 DEF Roots, ToSet
<1>. HIDE DEF roots, q
<1>7. Reaches(q, roots, R)
  BY <1>2, <1>6, ReachedReaches
<1>8. L = R \cup {id \in 1 .. Len(q) : IsSource(q[id])}
  BY <1>2 DEF LiveOf, Live, IsSource, fwd, q, roots
<1>. HIDE DEF L, R
<1>9. Closed(q, L)
  <2>1. L \subseteq 1 .. Len(q)
    BY <1>7, <1>8 DEF Reaches
  <2>2. ASSUME NEW id \in L PROVE Operands(q[id]) \subseteq L
    <3>1. CASE id \in R
      BY <1>7, <1>8, <3>1 DEF Reaches
    <3>2. CASE IsSource(q[id])
      BY <3>2 DEF IsSource, Operands, IsGate
    <3>. QED BY <1>8, <3>1, <3>2
  <2>. QED BY <2>1, <2>2 DEF Closed
<1>10. \A id \in L : ~IsSource(q[id]) => id \in roots \/ \E g \in L : id \in Operands(q[g])
  BY <1>7, <1>8 DEF Reaches
<1>11. d.insts = Renumber(q, L) /\ d.input_count = c.input_count
  BY DEF optimize, Compacted, Renumber, Emit, LiveOf, fwd, q, roots, L
<1>12. Renumbers(c, q, L, d.insts)
  BY <1>2, <1>9, <1>11, Renumbered
<1>13. d.outputs = [o \in 1 .. Len(c.outputs) |-> to(c.outputs[o])]
  BY <1>4 DEF optimize, Compacted, LiveOf, fwd, q, roots, L
<1>14. d.regs = [r \in 1 .. Len(c.regs) |-> [data |-> to(c.regs[r].data), initial |-> c.regs[r].initial]]
  <2>1. d.regs = [r \in 1 .. Len(c.regs) |-> [c.regs[r] EXCEPT !.data = to(c.regs[r].data)]]
    BY <1>4 DEF optimize, Compacted, LiveOf, fwd, q, roots, L
  <2>2. ASSUME NEW r \in 1 .. Len(c.regs)
        PROVE  [c.regs[r] EXCEPT !.data = to(c.regs[r].data)]
                 = [data |-> to(c.regs[r].data), initial |-> c.regs[r].initial]
    <3>1. c.regs[r] \in [data : 1 .. Len(c.insts), initial : BOOLEAN]
      BY DEF Circuit
    <3>. HIDE DEF to
    <3>. QED BY <3>1
  <2>. HIDE DEF d, to
  <2>. QED BY <2>1, <2>2
<1>15. roots \subseteq L
  BY <1>7, <1>8 DEF Reaches
<1>16. /\ \A r \in 1 .. Len(c.regs) : fwd.repr[c.regs[r].data] \in L
       /\ \A o \in 1 .. Len(c.outputs) : fwd.repr[c.outputs[o]] \in L
  BY <1>6, <1>15
<1>17. \A id \in 1 .. Len(q) : IsSource(q[id]) => id \in L
  BY <1>8
<1>. HIDE DEF d
<1>18. OptimizesBy(c, d, fwd, L)
  BY <1>1, <1>9, <1>10, <1>11, <1>12, <1>13, <1>14, <1>16, <1>17 DEF OptimizesBy, q, roots
<1>. QED BY <1>18 DEF Optimizes, d, fwd, L

\* The optimized circuit is a circuit of the same interface.
LEMMA OptimizedCircuit ==
  ASSUME NEW c, Circuit(c)
  PROVE  LET d == optimize(c) IN
         /\ Circuit(d) /\ d.insts \in Good(c) /\ NodesOf(d) = NodesOf(c) /\ Good(d) = Good(c)
         /\ d.input_count = c.input_count
         /\ Len(d.regs) = Len(c.regs) /\ Len(d.outputs) = Len(c.outputs)
         /\ DOMAIN d.regs = DOMAIN c.regs /\ DOMAIN d.outputs = DOMAIN c.outputs
         /\ InitialState(d) = InitialState(c) /\ Environments(d) = Environments(c)
<1>. DEFINE d == optimize(c)
            L == LiveOf(c)
            repr == ForwardRewrite(c).repr
            to(s) == Rank(L)[repr[s]]
<1>1. Optimizes(c, d)
  BY Optimized
<1>. HIDE DEF d
<1>2. /\ d.insts \in Good(c) /\ Len(d.insts) = Cardinality(L) /\ Cardinality(L) \in Nat
      /\ \A id \in L : Rank(L)[id] \in 1 .. Len(d.insts)
  BY <1>1 DEF Optimizes, OptimizesBy, Renumbers
<1>3. /\ d.input_count = c.input_count
      /\ d.regs = [r \in 1 .. Len(c.regs) |-> [data |-> to(c.regs[r].data), initial |-> c.regs[r].initial]]
      /\ d.outputs = [o \in 1 .. Len(c.outputs) |-> to(c.outputs[o])]
  BY <1>1 DEF Optimizes, OptimizesBy
<1>4. /\ \A r \in 1 .. Len(c.regs) : to(c.regs[r].data) \in 1 .. Len(d.insts)
      /\ \A o \in 1 .. Len(c.outputs) : to(c.outputs[o]) \in 1 .. Len(d.insts)
  <2>1. /\ \A r \in 1 .. Len(c.regs) : repr[c.regs[r].data] \in L
        /\ \A o \in 1 .. Len(c.outputs) : repr[c.outputs[o]] \in L
    BY <1>1 DEF Optimizes, OptimizesBy
  <2>. HIDE DEF L, repr
  <2>. QED BY <1>2, <2>1
<1>. HIDE DEF to
<1>5. Len(c.regs) \in Nat /\ Len(c.outputs) \in Nat /\ DOMAIN c.regs = 1 .. Len(c.regs)
      /\ DOMAIN c.outputs = 1 .. Len(c.outputs) /\ c.input_count \in Nat
      /\ \A r \in 1 .. Len(c.regs) : c.regs[r].initial \in BOOLEAN
  BY DEF Circuit
<1>6. /\ d.regs \in [1 .. Len(c.regs) -> [data : 1 .. Len(d.insts), initial : BOOLEAN]]
      /\ d.outputs \in [1 .. Len(c.outputs) -> 1 .. Len(d.insts)]
  BY <1>3, <1>4, <1>5
<1>7. Len(d.regs) = Len(c.regs) /\ Len(d.outputs) = Len(c.outputs)
  <2>1. \A S : \A n \in Nat : \A f \in [1 .. n -> S] : Len(f) = n
    OBVIOUS
  <2>. HIDE DEF L
  <2>. QED BY <1>5, <1>6, <2>1
<1>8. DOMAIN d.regs = DOMAIN c.regs /\ DOMAIN d.outputs = DOMAIN c.outputs
  BY <1>5, <1>6
<1>9. Instructions(d) = Instructions(c)
  BY <1>3, <1>8 DEF Instructions
<1>10. NodesOf(d) = NodesOf(c)
  BY <1>9 DEF NodesOf
<1>11. Good(d) = Good(c)
  BY <1>10 DEF Good
<1>12. Circuit(d)
  <2>1. d.insts \in NodesOf(d)
    BY <1>2, <1>10 DEF Good
  <2>. QED BY <1>3, <1>5, <1>6, <1>7, <2>1 DEF Circuit
<1>13. InitialState(d) = InitialState(c)
  <2>1. \A r \in 1 .. Len(c.regs) : d.regs[r].initial = c.regs[r].initial
    BY <1>3
  <2>. QED BY <1>5, <1>8, <2>1 DEF InitialState
<1>14. Environments(d) = Environments(c)
  BY <1>3, <1>8 DEF Environments
<1>. QED BY <1>2, <1>3, <1>7, <1>8, <1>10, <1>11, <1>12, <1>13, <1>14 DEF d

\* A member of Environments gives every input and every register a value.
LEMMA EnvironmentOf ==
  ASSUME NEW c, NEW e \in Environments(c)
  PROVE  Environment(c, e)
BY DEF Environments, Environment

\* Every register and output of the optimized circuit is what the kept node
\* for the register's data or the output is renumbered to.
LEMMA KeptRoots ==
  ASSUME NEW c, NEW d, NEW fwd, NEW L, OptimizesBy(c, d, fwd, L)
  PROVE  /\ \A r \in 1 .. Len(c.regs) : /\ d.regs[r].data = Rank(L)[fwd.repr[c.regs[r].data]]
                                       /\ fwd.repr[c.regs[r].data] \in L
         /\ \A o \in 1 .. Len(c.outputs) : /\ d.outputs[o] = Rank(L)[fwd.repr[c.outputs[o]]]
                                          /\ fwd.repr[c.outputs[o]] \in L
<1>1. d.regs = [r \in 1 .. Len(c.regs) |->
                  [data |-> Rank(L)[fwd.repr[c.regs[r].data]], initial |-> c.regs[r].initial]]
  BY DEF OptimizesBy
<1>2. d.outputs = [o \in 1 .. Len(c.outputs) |-> Rank(L)[fwd.repr[c.outputs[o]]]]
  BY DEF OptimizesBy
<1>3. /\ \A r \in 1 .. Len(c.regs) : fwd.repr[c.regs[r].data] \in L
      /\ \A o \in 1 .. Len(c.outputs) : fwd.repr[c.outputs[o]] \in L
  BY DEF OptimizesBy
<1>4. \A r \in 1 .. Len(c.regs) : d.regs[r].data = Rank(L)[fwd.repr[c.regs[r].data]]
  BY <1>1
<1>5. \A o \in 1 .. Len(c.outputs) : d.outputs[o] = Rank(L)[fwd.repr[c.outputs[o]]]
  BY <1>2
<1>. QED BY <1>3, <1>4, <1>5

\* The optimized circuit does what the circuit does: every tick of it, from
\* any state and on any inputs, gives the same state and outputs.
LEMMA OptimizePreserves ==
  ASSUME NEW c, Circuit(c), NEW e, Environment(c, e)
  PROVE  InterpTick(optimize(c), e.inputs, e.state) = InterpTick(c, e.inputs, e.state)
<1>. DEFINE d == optimize(c)
            L == LiveOf(c)
            fwd == ForwardRewrite(c)
            q == fwd.nodes
            repr == fwd.repr
            v == InterpValues([insts |-> q], e.inputs, e.state)
            w == InterpValues(c, e.inputs, e.state)
            u == InterpValues(d, e.inputs, e.state)
            kept == [p \in 1 .. Len(d.insts) |-> v[Ascending(L)[p]]]
            to(s) == Rank(L)[repr[s]]
<1>1. Optimizes(c, d)
  BY Optimized
<1>2. Circuit(d) /\ d.insts \in Good(c) /\ DOMAIN d.regs = DOMAIN c.regs /\ DOMAIN d.outputs = DOMAIN c.outputs
  BY OptimizedCircuit
<1>. HIDE DEF d, fwd
<1>3. q \in Good(c) /\ q \in NodesOf(c)
  BY <1>1 DEF Optimizes, OptimizesBy, Forward, Good, fwd
<1>4. Consistent(q, v, e)
  <2>. DEFINE one == [insts |-> q]
  <2>1. one.insts = q
    OBVIOUS
  <2>. HIDE DEF one, q
  <2>2. Consistent(one.insts, InterpValues(one, e.inputs, e.state), e)
    BY <1>3, <2>1, InterpConsistent
  <2>. QED BY <2>1, <2>2 DEF one
<1>5. Consistent(c.insts, w, e)
  BY InterpConsistent DEF Circuit
<1>6. Consistent(d.insts, u, e)
  BY <1>2, InterpConsistent DEF Good
<1>. HIDE DEF v, w, u
<1>7. Consistent(d.insts, kept, e)
  <2>1. Renumbers(c, q, L, d.insts)
    BY <1>1 DEF Optimizes, OptimizesBy, fwd
  <2>. HIDE DEF q, L
  <2>. QED BY <1>4, <2>1 DEF Renumbers
<1>8. \A p \in 1 .. Len(d.insts) : u[p] = kept[p]
  <2>1. d.insts \in NodesOf(c)
    BY <1>2 DEF Good
  <2>. HIDE DEF kept
  <2>. QED BY <1>6, <1>7, <2>1, ConsistentUnique
<1>9. ASSUME NEW s \in 1 .. Len(c.insts), repr[s] \in L PROVE u[to(s)] = w[s]
  <2>1. to(s) \in 1 .. Len(d.insts) /\ Ascending(L)[to(s)] = repr[s]
    BY <1>1, <1>9 DEF Optimizes, OptimizesBy, Renumbers, fwd
  <2>2. u[to(s)] = v[repr[s]]
    <3>. HIDE DEF to, repr, L
    <3>. QED BY <1>8, <2>1
  <2>3. v[repr[s]] = w[s]
    BY <1>1, <1>4, <1>5 DEF Optimizes, OptimizesBy, Forward, fwd
  <2>. QED BY <2>2, <2>3
<1>10. DOMAIN c.regs = 1 .. Len(c.regs) /\ DOMAIN c.outputs = 1 .. Len(c.outputs)
       /\ (\A r \in 1 .. Len(c.regs) : c.regs[r].data \in 1 .. Len(c.insts))
       /\ (\A o \in 1 .. Len(c.outputs) : c.outputs[o] \in 1 .. Len(c.insts))
  BY DEF Circuit
<1>11. ASSUME NEW r \in DOMAIN c.regs PROVE u[d.regs[r].data] = w[c.regs[r].data]
  <2>1. d.regs[r].data = to(c.regs[r].data) /\ repr[c.regs[r].data] \in L
    <3>1. OptimizesBy(c, d, fwd, L)
      BY <1>1 DEF Optimizes, fwd
    <3>. HIDE DEF L
    <3>. QED BY <1>10, <3>1, KeptRoots
  <2>. HIDE DEF to, repr, L
  <2>. QED BY <1>9, <1>10, <2>1
<1>12. ASSUME NEW o \in DOMAIN c.outputs PROVE u[d.outputs[o]] = w[c.outputs[o]]
  <2>1. d.outputs[o] = to(c.outputs[o]) /\ repr[c.outputs[o]] \in L
    <3>1. OptimizesBy(c, d, fwd, L)
      BY <1>1 DEF Optimizes, fwd
    <3>. HIDE DEF L
    <3>. QED BY <1>10, <3>1, KeptRoots
  <2>. HIDE DEF to, repr, L
  <2>. QED BY <1>9, <1>10, <2>1
<1>13. InterpTick(d, e.inputs, e.state)
         = [state |-> [r \in DOMAIN d.regs |-> u[d.regs[r].data]],
            outputs |-> [o \in DOMAIN d.outputs |-> u[d.outputs[o]]]]
  BY DEF InterpTick, u
<1>14. InterpTick(c, e.inputs, e.state)
         = [state |-> [r \in DOMAIN c.regs |-> w[c.regs[r].data]],
            outputs |-> [o \in DOMAIN c.outputs |-> w[c.outputs[o]]]]
  BY DEF InterpTick, w
<1>15. /\ [r \in DOMAIN d.regs |-> u[d.regs[r].data]] = [r \in DOMAIN c.regs |-> w[c.regs[r].data]]
       /\ [o \in DOMAIN d.outputs |-> u[d.outputs[o]]] = [o \in DOMAIN c.outputs |-> w[c.outputs[o]]]
  BY <1>2, <1>11, <1>12
<1>. QED BY <1>13, <1>14, <1>15 DEF d

\* Something reads signal p.
Observed(d, p) ==
  \/ p \in ToSet(d.outputs) \/ \E r \in DOMAIN d.regs : d.regs[r].data = p
  \/ \E h \in 1 .. Len(d.insts) : IsGate(d.insts[h]) /\ p \in Operands(d.insts[h])

\* Something reads every constant and every gate of the optimized circuit.
LEMMA OptimizedObserved ==
  ASSUME NEW c, Circuit(c), NEW p \in 1 .. Len(optimize(c).insts), ~IsSource(optimize(c).insts[p])
  PROVE  Observed(optimize(c), p)
<1>. DEFINE d == optimize(c)
            L == LiveOf(c)
            fwd == ForwardRewrite(c)
            q == fwd.nodes
            repr == fwd.repr
            place == Rank(L)
            id == Ascending(L)[p]
<1>1. OptimizesBy(c, d, fwd, L)
  BY Optimized DEF Optimizes
<1>2. Circuit(c) /\ DOMAIN d.regs = 1 .. Len(c.regs) /\ DOMAIN d.outputs = 1 .. Len(c.outputs)
      /\ DOMAIN c.regs = 1 .. Len(c.regs) /\ DOMAIN c.outputs = 1 .. Len(c.outputs)
  BY OptimizedCircuit DEF Circuit
<1>. HIDE DEF d, fwd, L
<1>3. Renumbers(c, q, L, d.insts) /\ q \in NodesOf(c) /\ Closed(q, L)
  BY <1>1 DEF OptimizesBy, Forward, Good
<1>4. id \in L /\ place[id] = p /\ d.insts[p] = Emit(place, q[id])
  BY <1>3 DEF Renumbers, d
<1>. HIDE DEF id, place, q
<1>5. ASSUME NEW g \in L
      PROVE  Within(c, L, g - 1, q[g]) /\ g - 1 \in Nat
  BY <1>3, Nodes DEF Closed, Within
<1>6. ASSUME NEW g \in L
      PROVE  Emits(place, q[g], Emit(place, q[g]))
  BY <1>5, Emitted
<1>7. ~IsSource(q[id])
  BY <1>4, <1>6 DEF IsSource, Emits, d
<1>8. id \in Roots(c, repr) \/ \E g \in L : id \in Operands(q[g])
  BY <1>1, <1>4, <1>7 DEF OptimizesBy, q
<1>9. CASE \E o \in 1 .. Len(c.outputs) : id = repr[c.outputs[o]]
  <2>1. PICK o \in 1 .. Len(c.outputs) : id = repr[c.outputs[o]]
    BY <1>9
  <2>2. d.outputs[o] = place[repr[c.outputs[o]]]
    BY <1>1, KeptRoots DEF place
  <2>3. o \in DOMAIN d.outputs /\ d.outputs[o] = p
    BY <1>2, <1>4, <2>1, <2>2
  <2>4. p \in ToSet(d.outputs)
    BY <2>3 DEF ToSet
  <2>. QED BY <2>4 DEF Observed, d
<1>10. CASE \E r \in 1 .. Len(c.regs) : id = repr[c.regs[r].data]
  <2>1. PICK r \in 1 .. Len(c.regs) : id = repr[c.regs[r].data]
    BY <1>10
  <2>2. d.regs[r].data = place[repr[c.regs[r].data]]
    BY <1>1, KeptRoots DEF place
  <2>3. r \in DOMAIN d.regs /\ d.regs[r].data = p
    BY <1>2, <1>4, <2>1, <2>2
  <2>. QED BY <2>3 DEF Observed, d
<1>11. CASE \E g \in L : id \in Operands(q[g])
  <2>1. PICK g \in L : id \in Operands(q[g])
    BY <1>11
  <2>2. IsGate(q[g]) /\ q[g].op \in GateOp /\ Reads(q[g].op, q[g].ins, g - 1) /\ g - 1 \in Nat
    BY <1>5, <2>1 DEF Operands, Within
  <2>3. PICK i \in 1 .. arity(q[g].op) : id = q[g].ins[i]
    BY <2>1, <2>2, OperandsRead
  <2>. DEFINE node == d.insts[place[g]]
              op == q[g].op
  <2>4. place[g] \in 1 .. Len(d.insts) /\ node = Emit(place, q[g])
    BY <1>3 DEF Renumbers, place
  <2>5. IsGate(node) /\ node.ins = [j \in 1 .. arity(op) |-> place[q[g].ins[j]]]
    BY <1>6, <2>2, <2>4 DEF Emits
  <2>6. Operands(node) = {node.ins[j] : j \in 1 .. arity(op)}
    <3>1. DOMAIN node.ins = 1 .. arity(op)
      BY <2>5
    <3>. HIDE DEF node, op
    <3>. QED BY <2>5, <3>1 DEF Operands, ToSet
  <2>7. node.ins[i] = p
    <3>. HIDE DEF node
    <3>. QED BY <1>4, <2>3, <2>5
  <2>8. p \in Operands(node)
    <3>. HIDE DEF node
    <3>. QED BY <2>3, <2>6, <2>7
  <2>. QED BY <2>4, <2>5, <2>8 DEF Observed, d
<1>12. Roots(c, repr) = {repr[c.outputs[o]] : o \in 1 .. Len(c.outputs)}
                        \cup {repr[c.regs[r].data] : r \in 1 .. Len(c.regs)}
  BY <1>2 DEF Roots, ToSet
<1>. HIDE DEF repr
<1>. QED BY <1>8, <1>9, <1>10, <1>11, <1>12

\* The optimized circuit is in normal form.
LEMMA OptimizeNormal ==
  ASSUME NEW c, Circuit(c)
  PROVE  NormalForm(optimize(c))
<1>. DEFINE d == optimize(c)
            q == d.insts
            gates == {s \in Insts(d) : IsGate(d.insts[s])}
            Not(s) == s \in gates /\ d.insts[s].op = "Not"
<1>1. q \in Good(c) /\ q \in NodesOf(c) /\ Normal(q)
  BY OptimizedCircuit DEF Good
<1>2. \A s \in 1 .. Len(q) : ~IsSource(q[s]) => Observed(d, s)
  BY OptimizedObserved
<1>. HIDE DEF d
<1>3. gates = {s \in 1 .. Len(q) : IsGate(q[s])}
  BY DEF Insts
<1>4. ASSUME NEW g \in gates
      PROVE  /\ q[g].op # "Buf"
             /\ \A x \in Operands(q[g]) : q[x].kind # "Const" /\ ~(Not(g) /\ Not(x))
             /\ \A h \in gates : q[g] = q[h] => g = h
             /\ \/ g \in ToSet(d.outputs) \/ \E r \in DOMAIN d.regs : d.regs[r].data = g
                \/ \E h \in gates : g \in Operands(q[h])
  <2>1. g \in 1 .. Len(q) /\ IsGate(q[g])
    BY <1>3
  <2>2. /\ q[g].op \in GateOp /\ Reads(q[g].op, q[g].ins, g - 1) /\ g - 1 \in Nat
        /\ Plain(q, q[g].op, q[g].ins)
    BY <1>1, <2>1, Nodes DEF Normal
  <2>3. Operands(q[g]) = {q[g].ins[i] : i \in 1 .. arity(q[g].op)}
    BY <2>1, <2>2, OperandsRead
  <2>4. q[g].op # "Buf"
    BY <2>2 DEF Plain
  <2>5. ASSUME NEW x \in Operands(q[g]) PROVE q[x].kind # "Const" /\ ~(Not(g) /\ Not(x))
    <3>1. PICK i \in 1 .. arity(q[g].op) : x = q[g].ins[i]
      BY <2>3
    <3>2. q[x].kind # "Const"
      BY <2>2, <3>1 DEF Plain
    <3>3. ASSUME Not(g), Not(x) PROVE FALSE
      <4>1. q[g].op = "Not" /\ IsGate(q[x]) /\ q[x].op = "Not"
        BY <3>3
      <4>2. i = 1
        BY <3>1, <4>1 DEF arity, Unary
      <4>. QED BY <2>2, <3>1, <4>1, <4>2 DEF Plain
    <3>. QED BY <3>2, <3>3
  <2>6. ASSUME NEW h \in gates, q[g] = q[h] PROVE g = h
    <3>1. h \in 1 .. Len(q) /\ q[g].kind \in {"Const", "Gate"}
      BY <1>3, <2>1 DEF IsGate
    <3>. QED BY <1>1, <2>1, <2>6, <3>1 DEF Normal, Once
  <2>7. Observed(d, g)
    BY <1>2, <2>1 DEF IsGate, IsSource
  <2>8. \/ g \in ToSet(d.outputs) \/ \E r \in DOMAIN d.regs : d.regs[r].data = g
        \/ \E h \in gates : g \in Operands(q[h])
    BY <1>3, <2>7 DEF Observed
  <2>. QED BY <2>4, <2>5, <2>6, <2>8
<1>5. NormalForm(d)
  BY <1>4 DEF NormalForm
<1>. QED BY <1>5 DEF d

\* Each input and each register has one instruction.
Source(c) == {Input(i) : i \in 1 .. c.input_count} \cup {RegisterOutput(r) : r \in DOMAIN c.regs}

SourcesOnce(c) ==
  \A source \in Source(c) : \E s \in Insts(c) : {x \in Insts(c) : c.insts[x] = source} = {s}

\* The optimizer keeps the one instruction of every input and of every register.
LEMMA OptimizeSources ==
  ASSUME NEW c, Circuit(c), SourcesOnce(c)
  PROVE  SourcesOnce(optimize(c))
<1>. DEFINE d == optimize(c)
            L == LiveOf(c)
            fwd == ForwardRewrite(c)
            q == fwd.nodes
            repr == fwd.repr
            place == Rank(L)
            kept == Ascending(L)
<1>1. OptimizesBy(c, d, fwd, L)
  BY Optimized DEF Optimizes
<1>2. d.input_count = c.input_count /\ DOMAIN d.regs = DOMAIN c.regs
  BY OptimizedCircuit
<1>. HIDE DEF d, fwd, L
<1>3. Renumbers(c, q, L, d.insts) /\ q \in NodesOf(c) /\ Closed(q, L)
  BY <1>1 DEF OptimizesBy, Forward, Good
<1>4. Forward(c, Len(c.insts), fwd) /\ \A id \in 1 .. Len(q) : IsSource(q[id]) => id \in L
  BY <1>1 DEF OptimizesBy
<1>5. \A id \in L : /\ place[id] \in 1 .. Len(d.insts) /\ d.insts[place[id]] = Emit(place, q[id])
  BY <1>3 DEF Renumbers
<1>6. \A p \in 1 .. Len(d.insts) : /\ kept[p] \in L /\ place[kept[p]] = p
                                   /\ d.insts[p] = Emit(place, q[kept[p]])
  BY <1>3 DEF Renumbers
<1>7. ASSUME NEW g \in L PROVE Emits(place, q[g], Emit(place, q[g])) /\ g \in 1 .. Len(q)
  <2>1. Within(c, L, g - 1, q[g]) /\ g - 1 \in Nat
    BY <1>3, Nodes DEF Closed, Within
  <2>. QED BY <1>3, <2>1, Emitted DEF Closed
<1>. HIDE DEF place, kept, q
<1>8. Source(d) = Source(c)
  BY <1>2 DEF Source
<1>9. \A x \in Source(c) : IsSource(x) /\ ~IsGate(x)
  BY DEF Source, Input, RegisterOutput, IsSource, IsGate
<1>10. ASSUME NEW source \in Source(c)
       PROVE  \E s \in Insts(d) : {x \in Insts(d) : d.insts[x] = source} = {s}
  <2>1. PICK s \in Insts(c) : {x \in Insts(c) : c.insts[x] = source} = {s}
    BY DEF SourcesOnce
  <2>2. s \in 1 .. Len(c.insts) /\ c.insts[s] = source /\ \A x \in 1 .. Len(c.insts) : c.insts[x] = source => x = s
    BY <2>1 DEF Insts
  <2>. DEFINE id == repr[s]
  <2>3. q[id] = source /\ id \in 1 .. Len(q)
    BY <1>4, <1>9, <2>2 DEF Forward, q
  <2>. HIDE DEF id
  <2>4. ASSUME NEW x \in 1 .. Len(q), q[x] = source PROVE x = id
    <3>1. IsSource(q[x])
      BY <1>9, <2>4
    <3>2. PICK u \in 1 .. Len(c.insts) : c.insts[u] = q[x] /\ repr[u] = x
      BY <1>4, <3>1 DEF Forward, q
    <3>3. u = s
      BY <2>2, <2>4, <3>2
    <3>. QED BY <3>2, <3>3 DEF id
  <2>5. id \in L
    BY <1>4, <1>9, <2>3
  <2>6. place[id] \in 1 .. Len(d.insts) /\ d.insts[place[id]] = source
    BY <1>5, <1>7, <1>9, <2>3, <2>5 DEF Emits
  <2>7. ASSUME NEW x \in 1 .. Len(d.insts), d.insts[x] = source PROVE x = place[id]
    <3>1. kept[x] \in L /\ place[kept[x]] = x /\ Emit(place, q[kept[x]]) = source
      BY <1>6, <2>7
    <3>2. ~IsGate(q[kept[x]]) /\ q[kept[x]] = source /\ kept[x] \in 1 .. Len(q)
      BY <1>7, <1>9, <3>1 DEF Emits
    <3>. QED BY <2>4, <3>1, <3>2
  <2>. QED BY <2>6, <2>7 DEF Insts
<1>11. SourcesOnce(d)
  BY <1>8, <1>10 DEF SourcesOnce
<1>. QED BY <1>11 DEF d

\* No rule rewrites a gate of a normal list: it is interned as it is.
LEMMA PlainInterned ==
  ASSUME NEW c, NEW nodes, NEW repr, NEW n \in Nat, NEW inst \in Instructions(c), IsGate(inst),
         Reads(inst.op, inst.ins, n), \A i \in 1 .. n : repr[i] = i,
         Plain(nodes, inst.op, inst.ins), InOrder(inst.op, inst.ins)
  PROVE  Rewrite(nodes, repr, inst) = Intern(nodes, inst)
<1>. DEFINE op == inst.op
            ins == inst.ins
            r == Rewrite(nodes, repr, inst)
<1>1. inst = Gate(op, ins) /\ op \in GateOp /\ arity(op) \in 1 .. 3
  BY Kinds, Arities
<1>2. ins \in [1 .. arity(op) -> 1 .. n]
  BY DEF Reads
<1>3. \A i \in 1 .. arity(op) : repr[ins[i]] = ins[i] /\ nodes[ins[i]].kind # "Const"
  BY <1>2 DEF Plain
<1>4. \A i \in 1 .. arity(op) : /\ ~IsKonst(nodes, ins[i])
                                /\ \A v : ~IsConst(nodes, ins[i], v)
  <2>1. \A v : Const(v).kind = "Const"
    BY DEF Const
  <2>. QED BY <1>3, <2>1 DEF IsKonst, IsConst
<1>5. op # "Buf"
  BY DEF Plain
<1>6. CASE op = "Not"
  <2>1. arity(op) = 1 /\ 1 \in 1 .. arity(op) /\ op \notin Commutative
    BY <1>6, Arities DEF Unary, Commutative
  <2>2. r = not(nodes, ins[1])
    BY <1>3, <1>6, <2>1, RewriteOf
  <2>3. r = gate(nodes, "Not", <<ins[1]>>)
    BY <1>4, <1>6, <2>1, <2>2 DEF Plain, not
  <2>4. ins = <<ins[1]>>
    <3>. HIDE DEF ins, op
    <3>1. ins = [i \in 1 .. 1 |-> ins[i]] /\ <<ins[1]>> = [i \in 1 .. 1 |-> ins[i]]
      BY <1>2, <2>1
    <3>. QED BY <3>1
  <2>5. r = Intern(nodes, Gate(op, ins))
    <3>. HIDE DEF r, ins, op
    <3>. QED BY <1>6, <2>1, <2>3, <2>4 DEF gate
  <2>. QED BY <1>1, <2>5
<1>7. CASE op \in Commutative
  <2>1. arity(op) = 2 /\ 1 \in 1 .. arity(op) /\ 2 \in 1 .. arity(op)
    BY <1>7, Arities
  <2>. DEFINE a == ins[1]
              b == ins[2]
  <2>2. repr[a] = a /\ repr[b] = b /\ a # b /\ a <= b /\ ~complements(nodes, a, b)
        /\ ~IsKonst(nodes, a) /\ ~IsKonst(nodes, b) /\ a \in Nat /\ b \in Nat
        /\ (\A v : ~IsConst(nodes, a, v)) /\ (\A v : ~IsConst(nodes, b, v))
    BY <1>2, <1>3, <1>4, <1>7, <2>1 DEF Plain, InOrder
  <2>3. ins = <<a, b>>
    <3>. HIDE DEF ins, op
    <3>1. ins = [i \in 1 .. 2 |-> ins[i]] /\ <<ins[1], ins[2]>> = [i \in 1 .. 2 |-> ins[i]]
      BY <1>2, <2>1
    <3>. QED BY <3>1
  <2>4. gate(nodes, op, <<a, b>>) = Intern(nodes, Gate(op, ins))
    <3>1. ~(a > b)
      BY <2>2
    <3>. HIDE DEF a, b, ins, op
    <3>. QED BY <2>3, <3>1 DEF gate
  <2>5. /\ Lattice(nodes, op, FALSE, FALSE, a, b) = gate(nodes, op, <<a, b>>)
        /\ Lattice(nodes, op, TRUE, FALSE, a, b) = gate(nodes, op, <<a, b>>)
        /\ Lattice(nodes, op, FALSE, TRUE, a, b) = gate(nodes, op, <<a, b>>)
        /\ Lattice(nodes, op, TRUE, TRUE, a, b) = gate(nodes, op, <<a, b>>)
    <3>. HIDE DEF a, b, ins, op
    <3>. QED BY <2>2 DEF Lattice
  <2>6. /\ Parity(nodes, op, FALSE, a, b) = gate(nodes, op, <<a, b>>)
        /\ Parity(nodes, op, TRUE, a, b) = gate(nodes, op, <<a, b>>)
    <3>. HIDE DEF a, b, ins, op
    <3>. QED BY <2>2 DEF Parity
  <2>7. \/ op = "And" /\ r = and(nodes, a, b)
        \/ op = "Or" /\ r = or(nodes, a, b)
        \/ op = "Nand" /\ r = nand(nodes, a, b)
        \/ op = "Nor" /\ r = nor(nodes, a, b)
        \/ op = "Xor" /\ r = xor(nodes, a, b)
        \/ op = "Xnor" /\ r = xnor(nodes, a, b)
    <3>1. \/ op = "And" \/ op = "Or" \/ op = "Nand"
          \/ op = "Nor" \/ op = "Xor" \/ op = "Xnor"
      BY <1>7 DEF Commutative
    <3>2. repr[ins[1]] = a /\ repr[ins[2]] = b
      BY <2>2
    <3>. HIDE DEF r, a, b
    <3>. QED BY <3>1, <3>2, RewriteOf DEF r
  <2>8. r = gate(nodes, op, <<a, b>>)
    <3>. HIDE DEF r, a, b, op
    <3>. QED BY <2>5, <2>6, <2>7 DEF and, or, nand, nor, xor, xnor
  <2>. QED BY <1>1, <2>4, <2>8
<1>8. CASE op = "Mux"
  <2>1. arity(op) = 3 /\ 1 \in 1 .. 3 /\ 2 \in 1 .. 3 /\ 3 \in 1 .. 3 /\ op \notin Commutative
    BY <1>8, Arities DEF Commutative
  <2>. DEFINE a == ins[1]
              b == ins[2]
              f == ins[3]
  <2>2. /\ repr[a] = a /\ repr[b] = b /\ repr[f] = f /\ a # b /\ a # f /\ b # f
        /\ ~IsKonst(nodes, a)
        /\ (\A v : ~IsConst(nodes, b, v)) /\ (\A v : ~IsConst(nodes, f, v))
    BY <1>3, <1>4, <1>8, <2>1 DEF Plain
  <2>3. ins = <<a, b, f>>
    <3>. HIDE DEF ins, op
    <3>1. ins = [i \in 1 .. 3 |-> ins[i]] /\ <<ins[1], ins[2], ins[3]>> = [i \in 1 .. 3 |-> ins[i]]
      BY <1>2, <2>1
    <3>. QED BY <3>1
  <2>4. r = mux(nodes, a, b, f)
    <3>1. repr[ins[1]] = a /\ repr[ins[2]] = b /\ repr[ins[3]] = f
      BY <2>2
    <3>. HIDE DEF r, a, b, f
    <3>. QED BY <1>8, <3>1, RewriteOf DEF r
  <2>5. mux(nodes, a, b, f) = gate(nodes, "Mux", <<a, b, f>>)
    <3>. HIDE DEF a, b, f, ins, op
    <3>. QED BY <2>2 DEF mux
  <2>6. gate(nodes, "Mux", <<a, b, f>>) = Intern(nodes, Gate(op, ins))
    <3>. HIDE DEF a, b, f, ins, op
    <3>. QED BY <1>8, <2>1, <2>3 DEF gate
  <2>. QED BY <1>1, <2>4, <2>5, <2>6
<1>. QED BY <1>1, <1>5, <1>6, <1>7, <1>8 DEF GateOp, Unary

\* The first k members of a sequence.
First(q, k) == [i \in 1 .. k |-> q[i]]

\* Rewriting a normal list goes through the list itself.
LEMMA ForwardNormal ==
  ASSUME NEW c, c.insts \in Good(c)
  PROVE  ForwardRewrite(c) = [nodes |-> c.insts, repr |-> [i \in 1 .. Len(c.insts) |-> i]]
<1>. DEFINE q == c.insts
            n == Len(q)
            f == [k \in 0 .. n |-> [nodes |-> First(q, k), repr |-> [i \in 1 .. k |-> i]]]
<1>1. q \in NodesOf(c) /\ Normal(q) /\ n \in Nat /\ q \in Seq(Instructions(c))
  BY Nodes DEF Good
<1>2. \A k \in 0 .. n : /\ First(q, k) \in Seq(Instructions(c)) /\ Len(First(q, k)) = k
                        /\ \A i \in 1 .. k : First(q, k)[i] = q[i]
  <2>1. ASSUME NEW k \in 0 .. n
        PROVE  /\ First(q, k) \in Seq(Instructions(c)) /\ Len(First(q, k)) = k
               /\ \A i \in 1 .. k : First(q, k)[i] = q[i]
    <3>1. \A i \in 1 .. k : q[i] \in Instructions(c)
      BY <1>1
    <3>2. First(q, k) \in [1 .. k -> Instructions(c)] /\ k \in Nat
      BY <3>1 DEF First
    <3>3. First(q, k) \in Seq(Instructions(c)) /\ Len(First(q, k)) = k
      <4>. HIDE DEF q, n
      <4>. QED BY <3>2
    <3>. QED BY <3>3 DEF First
  <2>. QED BY <2>1
<1>3. f[0] = [nodes |-> <<>>, repr |-> <<>>]
  <2>1. 0 \in 0 .. n
    BY <1>1
  <2>2. First(q, 0) = <<>> /\ [i \in 1 .. 0 |-> i] = <<>>
    BY DEF First
  <2>. QED BY <2>1, <2>2
<1>4. ASSUME NEW k \in 1 .. n PROVE f[k] = Further(c, k, f[k - 1])
  <2>. DEFINE pre == First(q, k - 1)
              id == [i \in 1 .. k - 1 |-> i]
              inst == q[k]
              r == Rewrite(pre, id, inst)
  <2>1. k - 1 \in 0 .. n /\ k \in 0 .. n /\ k - 1 \in Nat
    BY <1>1
  <2>2. /\ pre \in Seq(Instructions(c)) /\ Len(pre) = k - 1 /\ DOMAIN pre = 1 .. k - 1
        /\ \A i \in 1 .. k - 1 : pre[i] = q[i]
    BY <1>2, <2>1
  <2>3. inst \in Instructions(c) /\ IsGate(inst) => inst.op \in GateOp /\ Reads(inst.op, inst.ins, k - 1)
    BY <1>1, Nodes
  <2>4. r = push(pre, inst)
    <3>1. CASE IsSource(inst)
      BY <3>1, RewriteOf DEF IsSource
    <3>2. CASE inst.kind \in {"Const", "Gate"}
      <4>1. ~Contains(pre, inst)
        <5>1. ASSUME NEW i \in 1 .. k - 1 PROVE pre[i] # inst
          <6>1. i \in 1 .. n /\ i # k /\ pre[i] = q[i]
            BY <2>2
          <6>. QED BY <1>1, <3>2, <6>1 DEF Normal, Once
        <5>. HIDE DEF pre, inst
        <5>. QED BY <2>2, <5>1 DEF Contains
      <4>2. Intern(pre, inst) = push(pre, inst)
        BY <4>1 DEF Intern
      <4>3. CASE inst.kind = "Const"
        <5>1. inst \in Instructions(c)
          BY <1>1
        <5>2. inst = Const(inst.value) /\ r = konst(pre, inst.value)
          BY <4>3, <5>1, Kinds, RewriteOf
        <5>. HIDE DEF r, inst, pre
        <5>. QED BY <4>2, <5>2 DEF konst
      <4>4. CASE IsGate(inst)
        <5>1. inst \in Instructions(c) /\ inst.op \in GateOp /\ Reads(inst.op, inst.ins, k - 1)
          BY <1>1, <4>4, Nodes
        <5>2. Plain(q, inst.op, inst.ins) /\ InOrder(inst.op, inst.ins)
          BY <1>1, <4>4 DEF Normal
        <5>3. Plain(pre, inst.op, inst.ins)
          <6>1. \A i \in 1 .. k - 1 : q[i] = pre[i]
            BY <2>2
          <6>. HIDE DEF pre, inst, q
          <6>. QED BY <2>1, <5>1, <5>2, <6>1, PlainStays
        <5>4. \A i \in 1 .. k - 1 : id[i] = i
          OBVIOUS
        <5>5. r = Intern(pre, inst)
          <6>. HIDE DEF pre, inst, id
          <6>. QED BY <2>1, <4>4, <5>1, <5>2, <5>3, <5>4, PlainInterned
        <5>. QED BY <4>2, <5>5
      <4>. QED BY <3>2, <4>3, <4>4 DEF IsGate
    <3>3. inst \in Instructions(c)
      BY <1>1
    <3>. QED BY <3>1, <3>2, <3>3, Kinds DEF IsSource
  <2>5. r.nodes = Append(pre, inst) /\ r.id = k
    <3>. HIDE DEF r, pre, inst
    <3>1. Len(pre) + 1 = k
      BY <2>2
    <3>. QED BY <2>4, <3>1 DEF push, Found
  <2>6. Append(pre, inst) = First(q, k)
    <3>1. inst \in Instructions(c)
      BY <1>1
    <3>2. /\ Append(pre, inst) \in Seq(Instructions(c)) /\ Len(Append(pre, inst)) = k
          /\ \A i \in 1 .. k : Append(pre, inst)[i] = q[i]
      <4>1. /\ Append(pre, inst) \in Seq(Instructions(c)) /\ Len(Append(pre, inst)) = Len(pre) + 1
            /\ Append(pre, inst)[Len(pre) + 1] = inst
            /\ \A i \in 1 .. Len(pre) : Append(pre, inst)[i] = pre[i]
        <5>. HIDE DEF pre, inst
        <5>. QED BY <2>2, <3>1
      <4>2. \A i \in 1 .. k : i = Len(pre) + 1 \/ i \in 1 .. Len(pre)
        <5>. HIDE DEF pre
        <5>. QED BY <2>2
      <4>3. Len(pre) + 1 = k
        <5>. HIDE DEF pre
        <5>. QED BY <2>2
      <4>. HIDE DEF pre
      <4>. QED BY <2>2, <4>1, <4>2, <4>3
    <3>3. /\ First(q, k) \in Seq(Instructions(c)) /\ Len(First(q, k)) = k
          /\ \A i \in 1 .. k : First(q, k)[i] = q[i]
      BY <1>2, <2>1
    <3>. DEFINE A == Append(pre, inst)
                F == First(q, k)
    <3>. HIDE DEF A, F
    <3>. QED BY <3>2, <3>3 DEF A, F
  <2>7. Append(id, k) = [i \in 1 .. k |-> i]
    <3>1. id \in [1 .. k - 1 -> Nat] /\ k \in Nat
      OBVIOUS
    <3>2. id \in Seq(Nat) /\ Len(id) = k - 1
      BY <2>1, <3>1
    <3>3. Append(id, k) \in Seq(Nat) /\ Len(Append(id, k)) = Len(id) + 1
          /\ Append(id, k)[Len(id) + 1] = k
          /\ \A i \in 1 .. Len(id) : Append(id, k)[i] = id[i]
      <4>. HIDE DEF id
      <4>. QED BY <3>1, <3>2
    <3>4. Len(id) + 1 = k
      <4>. HIDE DEF id
      <4>. QED BY <3>2
    <3>5. \A i \in 1 .. k : Append(id, k)[i] = i
      <4>1. \A i \in 1 .. k : i = k \/ i \in 1 .. k - 1
        OBVIOUS
      <4>2. \A i \in 1 .. k - 1 : id[i] = i
        OBVIOUS
      <4>. HIDE DEF id
      <4>. QED BY <3>2, <3>3, <3>4, <4>1, <4>2
    <3>. DEFINE A == Append(id, k)
                I == [i \in 1 .. k |-> i]
    <3>6. I \in Seq(Nat) /\ Len(I) = k /\ \A i \in 1 .. k : I[i] = i
      OBVIOUS
    <3>7. A \in Seq(Nat) /\ Len(A) = k /\ \A i \in 1 .. k : A[i] = i
      <4>. HIDE DEF id
      <4>. QED BY <3>3, <3>4, <3>5
    <3>. HIDE DEF A, I
    <3>8. A = I
      BY <3>6, <3>7
    <3>. QED BY <3>8 DEF A, I
  <2>8. f[k - 1] = [nodes |-> pre, repr |-> id] /\ f[k] = [nodes |-> First(q, k), repr |-> [i \in 1 .. k |-> i]]
    BY <2>1
  <2>9. Further(c, k, f[k - 1]) = [nodes |-> r.nodes, repr |-> Append(id, r.id)]
    <3>1. f[k - 1].nodes = pre /\ f[k - 1].repr = id
      BY <2>8
    <3>. HIDE DEF f, pre, id
    <3>. QED BY <3>1 DEF Further
  <2>. HIDE DEF f, r, pre, id
  <2>. QED BY <2>5, <2>6, <2>7, <2>8, <2>9
<1>5. ForwardRewrite(c) = f[n]
  <2>1. f = [k \in 0 .. n |-> f[k]]
    OBVIOUS
  <2>. HIDE DEF f
  <2>. QED BY <1>1, <1>3, <1>4, <2>1, ForwardUnique
<1>6. f[n] = [nodes |-> First(q, n), repr |-> [i \in 1 .. n |-> i]]
  BY <1>1
<1>7. First(q, n) = q
  BY <1>1 DEF First
<1>. QED BY <1>5, <1>6, <1>7


\* Renumbering nothing leaves a node as it is.
LEMMA EmitSame ==
  ASSUME NEW c, NEW L, NEW n \in Nat, NEW node, Within(c, L, n, node), NEW place,
         \A x \in L : place[x] = x
  PROVE  Emit(place, node) = node
<1>1. Emits(place, node, Emit(place, node))
  BY Emitted
<1>2. CASE ~IsGate(node)
  BY <1>1, <1>2 DEF Emits
<1>3. CASE IsGate(node)
  <2>. DEFINE op == node.op
              ins == node.ins
  <2>1. node = Gate(op, ins) /\ op \in GateOp /\ Reads(op, ins, n)
    BY <1>3, Kinds DEF Within
  <2>2. \A i \in 1 .. arity(op) : ins[i] \in Operands(node)
    BY <1>3, <2>1, OperandsRead
  <2>3. \A i \in 1 .. arity(op) : place[ins[i]] = ins[i]
    BY <2>2 DEF Within
  <2>4. ins = [i \in 1 .. arity(op) |-> ins[i]]
    BY <2>1 DEF Reads
  <2>5. [i \in 1 .. arity(op) |-> place[ins[i]]] = [i \in 1 .. arity(op) |-> ins[i]]
    <3>. HIDE DEF op, ins
    <3>. QED BY <2>3
  <2>6. Emit(place, node) = Gate(op, [i \in 1 .. arity(op) |-> place[ins[i]]])
    BY <1>1, <1>3 DEF Emits
  <2>. HIDE DEF op, ins
  <2>. QED BY <2>1, <2>4, <2>5, <2>6
<1>. QED BY <1>2, <1>3

\* A circuit in normal form in which everything is read stays as it is.
LEMMA OptimizeNothing ==
  ASSUME NEW d, Circuit(d), d.insts \in Good(d),
         \A p \in 1 .. Len(d.insts) : ~IsSource(d.insts[p]) => Observed(d, p)
  PROVE  /\ optimize(d).insts = d.insts /\ optimize(d).regs = d.regs
         /\ optimize(d).outputs = d.outputs /\ optimize(d).input_count = d.input_count
<1>. DEFINE q == d.insts
            n == Len(q)
            L == LiveOf(d)
            fwd == ForwardRewrite(d)
            b == optimize(d)
<1>1. q \in NodesOf(d) /\ n \in Nat /\ q \in Seq(Instructions(d))
  BY Nodes DEF Good
<1>2. fwd = [nodes |-> q, repr |-> [i \in 1 .. n |-> i]]
  BY ForwardNormal
<1>3. fwd.nodes = q /\ \A s \in 1 .. n : fwd.repr[s] = s
  <2>1. fwd.nodes = q /\ fwd.repr = [i \in 1 .. n |-> i]
    <3>. HIDE DEF fwd, q, n
    <3>. QED BY <1>2
  <2>. HIDE DEF fwd, q, n
  <2>. QED BY <2>1
<1>4. OptimizesBy(d, b, fwd, L)
  BY Optimized DEF Optimizes
<1>. HIDE DEF fwd, L, b
<1>5. /\ Renumbers(d, q, L, b.insts) /\ Closed(q, L)
      /\ \A id \in 1 .. n : IsSource(q[id]) => id \in L
      /\ b.input_count = d.input_count
      /\ b.regs = [r \in 1 .. Len(d.regs) |->
                     [data |-> Rank(L)[fwd.repr[d.regs[r].data]], initial |-> d.regs[r].initial]]
      /\ b.outputs = [o \in 1 .. Len(d.outputs) |-> Rank(L)[fwd.repr[d.outputs[o]]]]
      /\ \A r \in 1 .. Len(d.regs) : fwd.repr[d.regs[r].data] \in L
      /\ \A o \in 1 .. Len(d.outputs) : fwd.repr[d.outputs[o]] \in L
  BY <1>3, <1>4 DEF OptimizesBy
<1>6. /\ \A r \in 1 .. Len(d.regs) : d.regs[r].data \in 1 .. n /\ fwd.repr[d.regs[r].data] = d.regs[r].data
      /\ \A o \in 1 .. Len(d.outputs) : d.outputs[o] \in 1 .. n /\ fwd.repr[d.outputs[o]] = d.outputs[o]
      /\ DOMAIN d.regs = 1 .. Len(d.regs) /\ DOMAIN d.outputs = 1 .. Len(d.outputs)
  BY <1>3 DEF Circuit
\* Nothing is dropped: the last dropped node would have a reader that is kept.
<1>7. L = 1 .. n
  <2>. DEFINE T == {k \in 0 .. n : n - k \in 1 .. n /\ n - k \notin L}
  <2>1. T = {}
    <3>. SUFFICES ASSUME T # {} PROVE FALSE
      OBVIOUS
    <3>1. T \in SUBSET Nat
      OBVIOUS
    <3>2. PICK m \in T : \A k \in T : m <= k
      BY <3>1, LeastMember
    <3>. DEFINE p == n - m
    <3>3. p \in 1 .. n /\ p \notin L
      BY <3>2
    <3>4. ASSUME NEW h \in 1 .. n, h > p PROVE h \in L
      <4>1. m \in 0 .. n /\ n - m = p
        BY <3>2
      <4>2. h \notin L => n - h \in T
        <5>1. n - h \in 0 .. n /\ n - (n - h) = h
          <6>. HIDE DEF n
          <6>. QED BY <1>1
        <5>. QED BY <5>1
      <4>3. h \notin L => m <= n - h
        BY <3>2, <4>2
      <4>. HIDE DEF p, n, T
      <4>. QED BY <1>1, <3>4, <4>1, <4>3
    <3>. HIDE DEF p
    <3>5. Observed(d, p)
      BY <1>5, <3>3
    <3>6. ASSUME p \in ToSet(d.outputs) PROVE FALSE
      <4>1. PICK o \in DOMAIN d.outputs : d.outputs[o] = p
        BY <3>6 DEF ToSet
      <4>2. o \in 1 .. Len(d.outputs)
        BY <1>6
      <4>3. fwd.repr[d.outputs[o]] \in L
        BY <1>5, <4>2
      <4>4. fwd.repr[d.outputs[o]] = d.outputs[o]
        BY <1>6, <4>2
      <4>. QED BY <3>3, <4>1, <4>3, <4>4
    <3>7. ASSUME NEW r \in DOMAIN d.regs, d.regs[r].data = p PROVE FALSE
      <4>1. r \in 1 .. Len(d.regs)
        BY <1>6
      <4>2. fwd.repr[d.regs[r].data] \in L
        BY <1>5, <4>1
      <4>3. fwd.repr[d.regs[r].data] = d.regs[r].data
        BY <1>6, <4>1
      <4>. QED BY <3>3, <3>7, <4>2, <4>3
    <3>8. ASSUME NEW h \in 1 .. n, p \in Operands(q[h]) PROVE FALSE
      <4>1. Operands(q[h]) \subseteq 1 .. h - 1
        BY <1>1, Nodes
      <4>2. h \in L
        BY <3>3, <3>4, <3>8, <4>1
      <4>3. p \in L
        BY <1>5, <3>8, <4>2 DEF Closed
      <4>. QED BY <3>3, <4>3
    <3>. QED BY <3>5, <3>6, <3>7, <3>8 DEF Observed
  <2>2. ASSUME NEW p \in 1 .. n PROVE p \in L
    <3>1. n - p \in 0 .. n /\ n - (n - p) = p
      BY <1>1
    <3>. QED BY <2>1, <3>1
  <2>. QED BY <1>5, <2>2 DEF Closed
<1>8. /\ Cardinality(L) = n
      /\ \A x \in 1 .. n : Rank(L)[x] = x /\ Ascending(L)[x] = x
  BY <1>1, <1>7, RankWhole
<1>9. b.insts = q
  <2>1. b.insts \in Seq(Instructions(d)) /\ Len(b.insts) = n
    BY <1>5, <1>8, Nodes DEF Renumbers, Good
  <2>2. ASSUME NEW p \in 1 .. n PROVE b.insts[p] = q[p]
    <3>1. b.insts[p] = Emit(Rank(L), q[p])
      BY <1>5, <1>8, <2>1 DEF Renumbers
    <3>2. Within(d, L, p - 1, q[p]) /\ p - 1 \in Nat
      BY <1>1, <1>5, <1>7, Nodes DEF Closed, Within
    <3>3. Emit(Rank(L), q[p]) = q[p]
      BY <1>7, <1>8, <3>2, EmitSame
    <3>. QED BY <3>1, <3>3
  <2>. HIDE DEF q
  <2>. QED BY <1>1, <2>1, <2>2
<1>10. b.regs = d.regs
  <2>1. d.regs = [r \in 1 .. Len(d.regs) |-> d.regs[r]]
    BY DEF Circuit
  <2>2. ASSUME NEW r \in 1 .. Len(d.regs)
        PROVE  [data |-> Rank(L)[fwd.repr[d.regs[r].data]], initial |-> d.regs[r].initial] = d.regs[r]
    <3>1. Rank(L)[fwd.repr[d.regs[r].data]] = d.regs[r].data
      BY <1>6, <1>8
    <3>2. d.regs[r] \in [data : 1 .. n, initial : BOOLEAN]
      BY DEF Circuit
    <3>3. [data |-> d.regs[r].data, initial |-> d.regs[r].initial] = d.regs[r]
      BY <3>2
    <3>. QED BY <3>1, <3>3
  <2>. QED BY <1>5, <2>1, <2>2
<1>11. b.outputs = d.outputs
  <2>1. d.outputs = [o \in 1 .. Len(d.outputs) |-> d.outputs[o]]
    BY DEF Circuit
  <2>2. ASSUME NEW o \in 1 .. Len(d.outputs) PROVE Rank(L)[fwd.repr[d.outputs[o]]] = d.outputs[o]
    BY <1>6, <1>8
  <2>. QED BY <1>5, <2>1, <2>2
<1>. QED BY <1>5, <1>9, <1>10, <1>11 DEF b

\* Optimizing an optimized circuit changes nothing.
LEMMA OptimizeIdempotent ==
  ASSUME NEW c, Circuit(c)
  PROVE  optimize(optimize(c)) = optimize(c)
<1>. DEFINE d == optimize(c)
            b == optimize(d)
<1>1. Circuit(d) /\ d.insts \in Good(d)
  BY OptimizedCircuit
<1>2. \A p \in 1 .. Len(d.insts) : ~IsSource(d.insts[p]) => Observed(d, p)
  BY OptimizedObserved
<1>3. b.insts = d.insts /\ b.regs = d.regs /\ b.outputs = d.outputs /\ b.input_count = d.input_count
  <2>. HIDE DEF d
  <2>. QED BY <1>1, <1>2, OptimizeNothing DEF b
<1>4. \A x : optimize(x) = [insts |-> optimize(x).insts, regs |-> optimize(x).regs,
                            outputs |-> optimize(x).outputs, input_count |-> optimize(x).input_count]
  BY DEF optimize, Compacted
<1>5. d = [insts |-> d.insts, regs |-> d.regs, outputs |-> d.outputs, input_count |-> d.input_count]
  BY <1>4
<1>6. b = [insts |-> b.insts, regs |-> b.regs, outputs |-> b.outputs, input_count |-> b.input_count]
  BY <1>4
<1>. HIDE DEF b, d
<1>7. b = d
  BY <1>3, <1>5, <1>6
<1>. QED BY <1>7 DEF b, d
=============================================================================
