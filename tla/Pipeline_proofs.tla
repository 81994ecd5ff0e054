-------------------------- MODULE Pipeline_proofs --------------------------
(***************************************************************************)
(* From a client's calls to a tape, for every sequence of calls and every  *)
(* bound on them: the builder's invariant, and what the optimizer and the  *)
(* compiler make of what it finishes.                                      *)
(***************************************************************************)
EXTENDS Pipeline, Optimizer_proofs

\* The circuit the builder holds.
Built == [insts |-> insts, regs |-> regs, outputs |-> outputs,
          input_count |-> next_input_index - 1]

RegsTyped ==
  /\ Len(regs) \in Nat
  /\ regs \in [1 .. Len(regs) -> [data : 0 .. Len(insts), initial : BOOLEAN]]

\* What holds of the builder before finish(): its instructions read earlier
\* signals, and every input and register has exactly one source instruction.
BuilderInv ==
  /\ next_input_index - 1 \in Nat /\ next_input_index \in Nat
  /\ insts \in NodesOf(Built)
  /\ RegsTyped
  /\ Len(outputs) \in Nat /\ outputs \in [1 .. Len(outputs) -> 1 .. Len(insts)]
  /\ SourcesOnce(Built)

\* What finish() and Compiled::new leave behind.
ResultInv ==
  /\ result.status \in {"building", "panicked", "ok", "CycleDetected", "UndrivenRegister"}
  /\ result.status = "ok" => Circuit(result.circuit) /\ SourcesOnce(result.circuit)
  /\ result.status = "UndrivenRegister" => regs[result.reg].data = Undriven
  /\ Compiles => /\ result.status = "ok"
                 /\ optimized = optimize(result.circuit)
                 /\ tape = Compiled(optimized)

Inv == BuilderInv /\ ResultInv

-----------------------------------------------------------------------------
(* The builder.                                                            *)

\* An instruction that reads earlier signals can be pushed; if it is a
\* source, it must be a new one.
LEMMA PushedInst ==
  ASSUME NEW c, NEW d, NEW inst, c.insts \in NodesOf(c), SourcesOnce(c),
         c.input_count \in Nat, d.input_count \in Nat, c.input_count <= d.input_count,
         DOMAIN c.regs \subseteq DOMAIN d.regs,
         inst \in Instructions(d), IsGate(inst) => Reads(inst.op, inst.ins, Len(c.insts)),
         d.insts = Append(c.insts, inst), Source(d) \subseteq Source(c) \cup {inst},
         inst \in Source(d) => \A x \in Insts(c) : c.insts[x] # inst
  PROVE  d.insts \in NodesOf(d) /\ Len(d.insts) = Len(c.insts) + 1 /\ SourcesOnce(d)
<1>. DEFINE q == c.insts
            n == Len(q)
            r == Append(q, inst)
<1>1. Instructions(c) \subseteq Instructions(d)
  BY DEF Instructions
<1>2. q \in Seq(Instructions(c)) /\ n \in Nat
        /\ \A id \in 1 .. n : q[id] \in Instructions(c) /\ (IsGate(q[id]) => Reads(q[id].op, q[id].ins, id - 1))
  BY Nodes
<1>3. q \in Seq(Instructions(d))
  <2>1. \A id \in 1 .. n : q[id] \in Instructions(d)
    BY <1>1, <1>2
  <2>. HIDE DEF q
  <2>. QED BY <1>2, <2>1
<1>4. r \in Seq(Instructions(d)) /\ Len(r) = n + 1 /\ r[n + 1] = inst
        /\ \A id \in 1 .. n : r[id] = q[id]
  <2>. HIDE DEF q
  <2>. QED BY <1>3
<1>5. r \in NodesOf(d)
  <2>. SUFFICES ASSUME NEW id \in 1 .. n + 1, IsGate(r[id]) PROVE Reads(r[id].op, r[id].ins, id - 1)
    BY <1>4 DEF NodesOf
  <2>1. CASE id = n + 1
    BY <1>2, <1>4, <2>1
  <2>2. CASE id \in 1 .. n
    BY <1>2, <1>4, <2>2
  <2>. QED BY <1>2, <2>1, <2>2
<1>6. SourcesOnce(d)
  <2>. SUFFICES ASSUME NEW source \in Source(d)
                PROVE  \E s \in 1 .. n + 1 : {x \in 1 .. n + 1 : r[x] = source} = {s}
    BY <1>4 DEF SourcesOnce, Insts
  <2>1. CASE source = inst
    <3>1. \A x \in 1 .. n : r[x] # source
      BY <1>4, <2>1 DEF Insts
    <3>2. {x \in 1 .. n + 1 : r[x] = source} = {n + 1}
      <4>. HIDE DEF n, r
      <4>. QED BY <1>2, <1>4, <2>1, <3>1
    <3>. QED BY <1>2, <3>2
  <2>2. CASE source # inst
    <3>1. source \in Source(c)
      BY <2>2
    <3>2. PICK s \in 1 .. n : {x \in 1 .. n : q[x] = source} = {s}
      BY <3>1 DEF SourcesOnce, Insts
    <3>3. {x \in 1 .. n + 1 : r[x] = source} = {s}
      <4>1. \A x \in 1 .. n : r[x] = source <=> x = s
        BY <1>4, <3>2
      <4>. HIDE DEF n, r
      <4>. QED BY <1>2, <1>4, <2>2, <4>1
    <3>. QED BY <1>2, <3>3
  <2>. QED BY <2>1, <2>2
<1>. QED BY <1>4, <1>5, <1>6

\* The builder starts out with nothing.
LEMMA BuilderInit ==
  Init => Inv
<1>. SUFFICES ASSUME Init PROVE Inv
  OBVIOUS
<1>. USE DEF Init, new
<1>1. Built = [insts |-> <<>>, regs |-> <<>>, outputs |-> <<>>, input_count |-> 0]
  BY DEF Built
<1>2. insts \in NodesOf(Built)
  BY DEF NodesOf
<1>3. SourcesOnce(Built)
  BY <1>1 DEF SourcesOnce, Source
<1>4. RegsTyped
  BY DEF RegsTyped
<1>5. Len(outputs) \in Nat /\ outputs \in [1 .. Len(outputs) -> 1 .. Len(insts)]
  OBVIOUS
<1>6. BuilderInv
  BY <1>2, <1>3, <1>4, <1>5 DEF BuilderInv
<1>7. ResultInv
  BY DEF ResultInv, Building, Compiles
<1>. QED BY <1>6, <1>7 DEF Inv

\* Pushing an instruction keeps what the builder holds consistent.
LEMMA BuilderPush ==
  ASSUME BuilderInv, NEW inst, insts' = Append(insts, inst), UNCHANGED outputs,
         next_input_index' - 1 \in Nat, next_input_index' \in Nat, next_input_index <= next_input_index',
         DOMAIN regs \subseteq DOMAIN regs', RegsTyped',
         inst \in Instructions(Built'), IsGate(inst) => Reads(inst.op, inst.ins, Len(insts)),
         Source(Built') \subseteq Source(Built) \cup {inst},
         inst \in Source(Built') => \A x \in 1 .. Len(insts) : insts[x] # inst
  PROVE  BuilderInv'
<1>. DEFINE c == Built
            d == Built'
<1>1. c.insts = insts /\ d.insts = insts' /\ c.regs = regs /\ d.regs = regs'
        /\ c.input_count = next_input_index - 1 /\ d.input_count = next_input_index' - 1
  BY DEF Built
<1>2. c.insts \in NodesOf(c) /\ SourcesOnce(c) /\ c.input_count \in Nat
  BY <1>1 DEF BuilderInv
<1>3. c.input_count <= d.input_count /\ d.input_count \in Nat
  <2>1. \A x, y \in Nat : x <= y => x - 1 <= y - 1
    OBVIOUS
  <2>2. next_input_index \in Nat
    BY DEF BuilderInv
  <2>3. next_input_index - 1 <= next_input_index' - 1
    BY <2>1, <2>2
  <2>. HIDE DEF c, d
  <2>. QED BY <1>1, <2>3
<1>4. inst \in Source(d) => \A x \in Insts(c) : c.insts[x] # inst
  BY <1>1 DEF Insts
<1>5. d.insts = Append(c.insts, inst) /\ DOMAIN c.regs \subseteq DOMAIN d.regs
        /\ (IsGate(inst) => Reads(inst.op, inst.ins, Len(c.insts)))
  BY <1>1
<1>6. inst \in Instructions(d) /\ Source(d) \subseteq Source(c) \cup {inst}
  OBVIOUS
<1>7. d.insts \in NodesOf(d) /\ Len(d.insts) = Len(c.insts) + 1 /\ SourcesOnce(d)
  <2>. HIDE DEF c, d
  <2>. QED BY <1>2, <1>3, <1>4, <1>5, <1>6, PushedInst
<1>8. Len(insts) \in Nat /\ Len(insts') = Len(insts) + 1
  BY <1>1, <1>2, <1>7, Nodes
<1>9. outputs' \in [1 .. Len(outputs') -> 1 .. Len(insts')] /\ Len(outputs') \in Nat
  <2>1. outputs \in [1 .. Len(outputs) -> 1 .. Len(insts)] /\ Len(outputs) \in Nat
    BY DEF BuilderInv
  <2>. QED BY <1>8, <2>1
<1>. QED BY <1>1, <1>7, <1>9 DEF BuilderInv

\* Every instruction the builder holds is well formed, and a longer sequence
\* of them keeps the registers typed.
LEMMA BuilderFacts ==
  ASSUME BuilderInv
  PROVE  /\ Len(insts) \in Nat /\ next_input_index \in Nat /\ next_input_index - 1 \in Nat
         /\ \A x \in 1 .. Len(insts) : insts[x] \in Instructions(Built)
         /\ \A inst : Len(Append(insts, inst)) = Len(insts) + 1
         /\ \A inst : insts' = Append(insts, inst) /\ UNCHANGED regs => RegsTyped'
         /\ Len(regs) \in Nat /\ DOMAIN regs = 1 .. Len(regs)
         /\ \A op \in GateOp : \A ins \in Seq(Nat) : Gate(op, ins) \in Instructions(Built)
<1>1. insts \in NodesOf(Built) /\ next_input_index \in Nat /\ next_input_index - 1 \in Nat /\ RegsTyped
  BY DEF BuilderInv
<1>2. Len(insts) \in Nat /\ insts \in Seq(Instructions(Built))
        /\ \A x \in 1 .. Len(insts) : insts[x] \in Instructions(Built)
  BY <1>1, Nodes
<1>3. \A S : \A q \in Seq(S) : \A x : Len(Append(q, x)) = Len(q) + 1
  <2>. SUFFICES ASSUME NEW S, NEW q \in Seq(S), NEW x PROVE Len(Append(q, x)) = Len(q) + 1
    OBVIOUS
  <2>1. q \in Seq(S \cup {x})
    OBVIOUS
  <2>. QED BY <2>1
<1>4. \A inst : Len(Append(insts, inst)) = Len(insts) + 1
  BY <1>2, <1>3
<1>5. ASSUME NEW inst, insts' = Append(insts, inst), UNCHANGED regs PROVE RegsTyped'
  <2>1. Len(insts') = Len(insts) + 1
    BY <1>4, <1>5
  <2>2. [data : 0 .. Len(insts), initial : BOOLEAN] \subseteq [data : 0 .. Len(insts'), initial : BOOLEAN]
    BY <1>2, <2>1
  <2>3. regs \in [1 .. Len(regs) -> [data : 0 .. Len(insts'), initial : BOOLEAN]]
    BY <1>1, <2>2 DEF RegsTyped
  <2>. QED BY <1>1, <1>5, <2>3 DEF RegsTyped
<1>6. \A op \in GateOp : \A ins \in Seq(Nat) : Gate(op, ins) \in Instructions(Built)
  BY Made
<1>. QED BY <1>1, <1>2, <1>4, <1>5, <1>6 DEF RegsTyped

\* Appending to a sequence whose elements are of a type.
LEMMA AppendTyped ==
  ASSUME NEW T, NEW n \in Nat, NEW q \in [1 .. n -> T], Len(q) = n, NEW x \in T
  PROVE  Append(q, x) \in [1 .. n + 1 -> T] /\ Len(Append(q, x)) = n + 1
<1>. DEFINE r == Append(q, x)
<1>1. q \in Seq(T)
  OBVIOUS
<1>2. r \in Seq(T) /\ Len(r) = Len(q) + 1
  BY <1>1
<1>3. r \in [1 .. n + 1 -> T] /\ Len(r) = n + 1
  <2>. HIDE DEF r
  <2>. QED BY <1>2
<1>. QED BY <1>3

\* Declaring an input keeps the invariant: its index is a new one.
LEMMA InputStep ==
  ASSUME BuilderInv, input
  PROVE  BuilderInv'
<1>. DEFINE n == next_input_index
            inst == Input(n)
<1>1. insts' = Append(insts, inst) /\ next_input_index' = n + 1 /\ UNCHANGED <<regs, outputs>>
  BY DEF input
<1>2. n \in Nat /\ n - 1 \in Nat /\ n \in 1 .. n /\ n + 1 - 1 = n /\ n <= n + 1
        /\ 1 .. n = (1 .. n - 1) \cup {n} /\ n \notin 1 .. n - 1
  BY BuilderFacts
<1>3. RegsTyped'
  BY <1>1, BuilderFacts
<1>4. /\ Built.input_count = n - 1 /\ (Built').input_count = n
      /\ Built.regs = regs /\ (Built').regs = regs
  BY <1>1, <1>2 DEF Built
<1>5. inst \in Instructions(Built')
  BY <1>2, <1>4, Made
<1>6. Source(Built') \subseteq Source(Built) \cup {inst}
  <2>. HIDE DEF n
  <2>. QED BY <1>2, <1>4 DEF Source
<1>7. ASSUME NEW x \in 1 .. Len(insts), insts[x] = inst PROVE FALSE
  <2>1. insts[x] \in Instructions(Built)
    BY BuilderFacts
  <2>2. inst.kind = "Input" /\ inst.index = n
    BY DEF Input
  <2>3. inst.index \in 1 .. n - 1
    <3>. HIDE DEF inst, n
    <3>. QED BY <1>4, <1>7, <2>1, <2>2, Kinds
  <2>. QED BY <1>2, <2>2, <2>3
<1>8. ~IsGate(inst)
  BY DEF IsGate, Input
<1>. HIDE DEF inst
<1>. QED BY <1>1, <1>2, <1>3, <1>5, <1>6, <1>7, <1>8, BuilderPush DEF n

\* A constant or a gate is no source, so pushing one adds none.
LEMMA PlainStep ==
  ASSUME BuilderInv, NEW inst, insts' = Append(insts, inst), UNCHANGED <<regs, outputs, next_input_index>>,
         inst.kind \in {"Const", "Gate"}, inst \in Instructions(Built),
         IsGate(inst) => Reads(inst.op, inst.ins, Len(insts))
  PROVE  BuilderInv'
<1>1. /\ Built.input_count = (Built').input_count
      /\ Built.regs = (Built').regs
  BY DEF Built
<1>2. RegsTyped' /\ next_input_index \in Nat /\ next_input_index - 1 \in Nat
      /\ next_input_index <= next_input_index
  BY BuilderFacts
<1>3. inst \in Instructions(Built') /\ Source(Built') = Source(Built)
  BY <1>1 DEF Instructions, Source
<1>4. inst \notin Source(Built')
  BY DEF Source, Input, RegisterOutput
<1>. QED BY <1>2, <1>3, <1>4, BuilderPush

\* Pushing a gate over signals keeps the invariant.
LEMMA GateStep ==
  ASSUME BuilderInv, NEW op \in GateOp, NEW ins, PushGate(op, ins), ins \in Seq(Nat),
         Reads(op, ins, Len(insts))
  PROVE  BuilderInv'
<1>. DEFINE inst == Gate(op, ins)
<1>1. insts' = Append(insts, inst) /\ UNCHANGED <<regs, outputs, next_input_index>>
  BY DEF PushGate
<1>2. inst \in Instructions(Built) /\ inst.kind = "Gate" /\ inst.op = op /\ inst.ins = ins
  BY BuilderFacts DEF Gate
<1>. HIDE DEF inst
<1>. QED BY <1>1, <1>2, PlainStep

\* Pushing a register keeps the invariant: its output is a new source.
LEMMA RegisterStep ==
  ASSUME BuilderInv, NEW data \in 0 .. Len(insts), NEW initial \in BOOLEAN, PushRegister(data, initial)
  PROVE  BuilderInv'
<1>. DEFINE n == Len(regs)
            inst == RegisterOutput(n + 1)
            new_reg == [data |-> data, initial |-> initial]
<1>1. /\ insts' = Append(insts, inst) /\ UNCHANGED <<outputs, next_input_index>>
      /\ regs' = Append(regs, new_reg)
  BY DEF PushRegister
<1>2. /\ n \in Nat /\ DOMAIN regs = 1 .. n /\ Len(insts) \in Nat
      /\ next_input_index \in Nat /\ next_input_index - 1 \in Nat /\ next_input_index <= next_input_index
  BY BuilderFacts
<1>3. /\ RegsTyped' /\ Len(regs') = n + 1
  <2>. DEFINE T == [data : 0 .. Len(insts'), initial : BOOLEAN]
  <2>1. Len(insts') = Len(insts) + 1
    BY <1>1, BuilderFacts
  <2>2. new_reg \in T /\ [data : 0 .. Len(insts), initial : BOOLEAN] \subseteq T
    BY <1>2, <2>1
  <2>3. regs \in [1 .. n -> T]
    BY <2>2 DEF BuilderInv, RegsTyped
  <2>4. Append(regs, new_reg) \in [1 .. n + 1 -> T] /\ Len(Append(regs, new_reg)) = n + 1
    <3>. HIDE DEF T, new_reg
    <3>. QED BY <1>2, <2>2, <2>3, AppendTyped
  <2>. HIDE DEF new_reg
  <2>. QED BY <1>1, <1>2, <2>4 DEF RegsTyped
<1>4. DOMAIN regs' = 1 .. n + 1
  BY <1>3 DEF RegsTyped
<1>5. /\ Built.input_count = (Built').input_count
      /\ Built.regs = regs /\ (Built').regs = regs'
  BY <1>1 DEF Built
<1>6. inst \in Instructions(Built')
  BY <1>2, <1>4, <1>5, Made
<1>7. n + 1 \in 1 .. n + 1 /\ 1 .. n + 1 = (1 .. n) \cup {n + 1} /\ n + 1 \notin 1 .. n
  BY <1>2
<1>8. Source(Built') \subseteq Source(Built) \cup {inst}
  <2>. HIDE DEF n
  <2>. QED BY <1>2, <1>4, <1>5, <1>7 DEF Source
<1>9. ASSUME NEW x \in 1 .. Len(insts), insts[x] = inst PROVE FALSE
  <2>1. insts[x] \in Instructions(Built)
    BY BuilderFacts
  <2>2. inst.kind = "RegisterOutput" /\ inst.reg = n + 1
    BY DEF RegisterOutput
  <2>3. inst.reg \in 1 .. n
    <3>. HIDE DEF inst, n
    <3>. QED BY <1>2, <1>5, <1>9, <2>1, <2>2, Kinds
  <2>. QED BY <1>7, <2>2, <2>3
<1>10. ~IsGate(inst)
  BY DEF IsGate, RegisterOutput
<1>11. DOMAIN regs \subseteq DOMAIN regs'
  BY <1>2, <1>4, <1>7
<1>. HIDE DEF inst, n, new_reg
<1>. QED BY <1>1, <1>2, <1>3, <1>6, <1>8, <1>9, <1>10, <1>11, BuilderPush

\* Driving a register and declaring an output leave the signals alone.
LEMMA WireStep ==
  ASSUME BuilderInv, UNCHANGED <<insts, next_input_index>>, DOMAIN regs' = DOMAIN regs, RegsTyped',
         Len(outputs') \in Nat, outputs' \in [1 .. Len(outputs') -> 1 .. Len(insts)]
  PROVE  BuilderInv'
<1>1. /\ (Built').input_count = Built.input_count /\ (Built').insts = Built.insts
      /\ DOMAIN (Built').regs = DOMAIN Built.regs
  BY DEF Built
<1>2. NodesOf(Built') = NodesOf(Built)
  BY <1>1 DEF NodesOf, Instructions
<1>3. SourcesOnce(Built')
  <2>. DEFINE c == Built
              d == Built'
  <2>1. SourcesOnce(c) /\ d.input_count = c.input_count /\ d.insts = c.insts /\ DOMAIN d.regs = DOMAIN c.regs
    BY <1>1 DEF BuilderInv
  <2>. HIDE DEF c, d
  <2>2. Source(d) = Source(c) /\ Insts(d) = Insts(c)
    BY <2>1 DEF Source, Insts
  <2>3. SourcesOnce(d)
    BY <2>1, <2>2 DEF SourcesOnce
  <2>. QED BY <2>3 DEF d
<1>. QED BY <1>2, <1>3 DEF BuilderInv

\* Every call of a client keeps the builder's invariant.
LEMMA BuilderStep ==
  ASSUME BuilderInv, BuilderNext
  PROVE  BuilderInv'
<1>. USE BuilderAssumption
<1>1. Len(insts) \in Nat /\ Len(insts) \in 0 .. Len(insts) /\ Signals = 1 .. Len(insts)
  BY BuilderFacts DEF Signals
<1>2. CASE input
  BY <1>2, InputStep
<1>3. ASSUME NEW v \in Constants, const_val(v) PROVE BuilderInv'
  <2>1. insts' = Append(insts, Const(v)) /\ UNCHANGED <<regs, outputs, next_input_index>>
    BY <1>3 DEF const_val
  <2>2. Const(v) \in Instructions(Built) /\ Const(v).kind = "Const" /\ ~IsGate(Const(v))
    <3>1. v \in BOOLEAN
      OBVIOUS
    <3>. QED BY <3>1, Made DEF Const, IsGate
  <2>. QED BY <2>1, <2>2, PlainStep
<1>4. ASSUME NEW op \in Ops, NEW x \in Signals, unary(op, x) PROVE BuilderInv'
  <2>1. op \in Unary /\ op \in GateOp /\ PushGate(op, <<x>>)
    BY <1>4 DEF unary
  <2>2. <<x>> \in Seq(Nat) /\ Reads(op, <<x>>, Len(insts))
    BY <1>1, <2>1, Tuples
  <2>. QED BY <2>1, <2>2, GateStep
<1>5. ASSUME NEW op \in Ops, NEW a \in Signals, NEW b \in Signals, binary(op, a, b) PROVE BuilderInv'
  <2>1. op \in Commutative /\ op \in GateOp /\ PushGate(op, <<a, b>>)
    BY <1>5 DEF binary
  <2>2. <<a, b>> \in Seq(Nat) /\ Reads(op, <<a, b>>, Len(insts))
    BY <1>1, <2>1, Tuples
  <2>. QED BY <2>1, <2>2, GateStep
<1>6. ASSUME NEW s \in Signals, NEW t \in Signals, NEW e \in Signals, ternary(s, t, e) PROVE BuilderInv'
  <2>1. "Mux" \in GateOp /\ PushGate("Mux", <<s, t, e>>)
    BY <1>6 DEF ternary
  <2>2. <<s, t, e>> \in Seq(Nat) /\ Reads("Mux", <<s, t, e>>, Len(insts))
    BY <1>1, Tuples
  <2>. QED BY <2>1, <2>2, GateStep
<1>7. ASSUME NEW v \in Initials, reg(v) PROVE BuilderInv'
  <2>1. v \in BOOLEAN /\ PushRegister(Undriven, v) /\ Undriven \in 0 .. Len(insts)
    BY <1>1, <1>7 DEF reg, Undriven
  <2>. QED BY <2>1, RegisterStep
<1>8. ASSUME NEW s \in Signals, NEW v \in Initials, register(s, v) PROVE BuilderInv'
  <2>1. v \in BOOLEAN /\ PushRegister(s, v) /\ s \in 0 .. Len(insts)
    BY <1>1, <1>8 DEF register
  <2>. QED BY <2>1, RegisterStep
<1>9. ASSUME NEW r \in DOMAIN regs, NEW s \in Signals, drive(r, s) PROVE BuilderInv'
  <2>1. UNCHANGED <<insts, outputs, next_input_index>>
    BY <1>9 DEF drive
  <2>2. regs' = regs \/ regs' = [regs EXCEPT ![r].data = s]
    BY <1>9 DEF drive
  <2>3. DOMAIN regs' = DOMAIN regs
    BY <2>2
  <2>4. RegsTyped'
    <3>. DEFINE T == [data : 0 .. Len(insts), initial : BOOLEAN]
                n == Len(regs)
    <3>1. n \in Nat /\ regs \in [1 .. n -> T] /\ r \in 1 .. n
      BY DEF BuilderInv, RegsTyped
    <3>2. [regs[r] EXCEPT !.data = s] \in T
      BY <1>1, <3>1
    <3>3. [regs EXCEPT ![r].data = s] \in [1 .. n -> T]
      <4>. HIDE DEF n, T
      <4>. QED BY <3>1, <3>2
    <3>4. regs' \in [1 .. n -> T]
      BY <2>2, <3>1, <3>3
    <3>5. Len(regs') = n
      <4>. HIDE DEF n, T
      <4>. QED BY <3>1, <3>4
    <3>. QED BY <2>1, <3>1, <3>4, <3>5 DEF RegsTyped
  <2>5. Len(outputs') \in Nat /\ outputs' \in [1 .. Len(outputs') -> 1 .. Len(insts)]
    BY <2>1 DEF BuilderInv
  <2>. QED BY <2>1, <2>3, <2>4, <2>5, WireStep
<1>10. ASSUME NEW s \in Signals, output(s) PROVE BuilderInv'
  <2>1. UNCHANGED <<insts, regs, next_input_index>> /\ outputs' = Append(outputs, s)
    BY <1>10 DEF output
  <2>2. Len(outputs) \in Nat /\ outputs \in [1 .. Len(outputs) -> 1 .. Len(insts)]
    BY DEF BuilderInv
  <2>3. Append(outputs, s) \in [1 .. Len(outputs) + 1 -> 1 .. Len(insts)]
          /\ Len(Append(outputs, s)) = Len(outputs) + 1
    <3>. DEFINE n == Len(outputs)
                T == 1 .. Len(insts)
    <3>1. n \in Nat /\ outputs \in [1 .. n -> T] /\ s \in T
      BY <1>1, <2>2
    <3>. HIDE DEF n, T
    <3>2. Len(outputs) = n
      BY DEF n
    <3>3. Append(outputs, s) \in [1 .. n + 1 -> T] /\ Len(Append(outputs, s)) = n + 1
      BY <3>1, <3>2, AppendTyped
    <3>. QED BY <3>3 DEF n, T
  <2>4. RegsTyped'
    BY <2>1 DEF BuilderInv, RegsTyped
  <2>5. Len(outputs') \in Nat /\ outputs' \in [1 .. Len(outputs') -> 1 .. Len(insts)]
    BY <2>1, <2>2, <2>3
  <2>. QED BY <2>1, <2>4, <2>5, WireStep
<1>11. CASE finish
  <2>1. UNCHANGED <<insts, regs, outputs, next_input_index>>
    BY <1>11 DEF finish
  <2>2. RegsTyped' /\ Len(outputs') \in Nat /\ outputs' \in [1 .. Len(outputs') -> 1 .. Len(insts)]
    BY <2>1 DEF BuilderInv, RegsTyped
  <2>. QED BY <2>1, <2>2, WireStep
<1>. QED BY <1>2, <1>3, <1>4, <1>5, <1>6, <1>7, <1>8, <1>9, <1>10, <1>11 DEF BuilderNext

\* finish() reports an undriven register only if there is one, and else
\* returns a circuit.
LEMMA FinishStep ==
  ASSUME BuilderInv, finish
  PROVE  /\ result'.status \in {"ok", "CycleDetected", "UndrivenRegister"}
         /\ result'.status = "ok" => Circuit(result'.circuit) /\ SourcesOnce(result'.circuit)
         /\ result'.status = "UndrivenRegister" => regs'[result'.reg].data = Undriven
<1>. DEFINE undriven == {r \in DOMAIN regs : regs[r].data = Undriven}
<1>1. \/ result' = CycleDetected
      \/ undriven # {} /\ result' = UndrivenRegister(CHOOSE r \in DOMAIN regs :
                            /\ regs[r].data = Undriven
                            /\ \A q \in 1 .. r - 1 : regs[q].data # Undriven)
      \/ undriven = {} /\ result' = Ok(Built)
  <2>. DEFINE some == \E r \in DOMAIN regs : regs[r].data = Undriven
              reported == UndrivenRegister(CHOOSE r \in DOMAIN regs :
                            /\ regs[r].data = Undriven
                            /\ \A q \in 1 .. r - 1 : regs[q].data # Undriven)
  <2>1. result' = IF ~topo_order_ok THEN CycleDetected ELSE IF some THEN reported ELSE Ok(Built)
    BY DEF finish, Built
  <2>2. some <=> undriven # {}
    OBVIOUS
  <2>. HIDE DEF some, undriven, reported
  <2>3. \/ result' = CycleDetected
        \/ undriven # {} /\ result' = reported
        \/ undriven = {} /\ result' = Ok(Built)
    BY <2>1, <2>2
  <2>. QED BY <2>3 DEF reported
<1>2. UNCHANGED regs
  BY DEF finish
<1>3. CASE result' = CycleDetected
  BY <1>3 DEF CycleDetected
<1>4. CASE undriven # {} /\ result' = UndrivenRegister(CHOOSE r \in DOMAIN regs :
                            /\ regs[r].data = Undriven
                            /\ \A q \in 1 .. r - 1 : regs[q].data # Undriven)
  <2>1. DOMAIN regs = 1 .. Len(regs) /\ Len(regs) \in Nat
    BY BuilderFacts
  <2>2. PICK r \in undriven : \A q \in undriven : r <= q
    <3>1. undriven \in SUBSET Nat
      BY <2>1
    <3>. HIDE DEF undriven
    <3>. QED BY <1>4, <3>1, LeastMember
  <2>3. \A q \in 1 .. r - 1 : regs[q].data # Undriven
    BY <2>1, <2>2
  <2>. DEFINE first(x) == regs[x].data = Undriven /\ \A q \in 1 .. x - 1 : regs[q].data # Undriven
              w == CHOOSE x \in DOMAIN regs : first(x)
  <2>4. w \in DOMAIN regs /\ first(w)
    BY <2>2, <2>3
  <2>5. result' = UndrivenRegister(w)
    BY <1>4
  <2>. HIDE DEF w
  <2>. QED BY <1>2, <2>4, <2>5 DEF UndrivenRegister
<1>5. CASE undriven = {} /\ result' = Ok(Built)
  <2>1. /\ Built.insts = insts /\ Built.regs = regs /\ Built.outputs = outputs
        /\ Built.input_count = next_input_index - 1
    BY DEF Built
  <2>2. /\ regs \in [1 .. Len(regs) -> [data : 1 .. Len(insts), initial : BOOLEAN]]
    <3>1. \A r \in 1 .. Len(regs) : regs[r] \in [data : 1 .. Len(insts), initial : BOOLEAN]
      <4>. SUFFICES ASSUME NEW r \in 1 .. Len(regs)
                    PROVE  regs[r] \in [data : 1 .. Len(insts), initial : BOOLEAN]
        OBVIOUS
      <4>1. regs[r] \in [data : 0 .. Len(insts), initial : BOOLEAN] /\ Len(insts) \in Nat
        BY BuilderFacts DEF BuilderInv, RegsTyped
      <4>2. regs[r].data # 0
        BY <1>5, BuilderFacts DEF Undriven
      <4>3. regs[r].data \in 1 .. Len(insts)
        BY <4>1, <4>2
      <4>. QED BY <4>1, <4>3
    <3>. QED BY <3>1 DEF BuilderInv, RegsTyped
  <2>3. Circuit(Built)
    BY <2>1, <2>2 DEF BuilderInv, RegsTyped, Circuit
  <2>4. result'.status = "ok" /\ result'.circuit = Built
    BY <1>5 DEF Ok
  <2>. QED BY <2>3, <2>4 DEF BuilderInv
<1>. QED BY <1>1, <1>3, <1>4, <1>5

-----------------------------------------------------------------------------
(* Levels.                                                                 *)

\* The greatest member of a bounded set, 0 if it has none.
LEMMA MaxOfSet ==
  ASSUME NEW m \in Nat, NEW S \in SUBSET (0 .. m)
  PROVE  /\ MaxOf(S) \in 0 .. m /\ MaxOf(S) \in S \cup {0}
         /\ \A y \in S : y <= MaxOf(S)
<1>. DEFINE T == {k \in 0 .. m : m - k \in S \cup {0}}
<1>1. T \in SUBSET Nat /\ m \in T
  OBVIOUS
<1>2. PICK k \in T : \A j \in T : k <= j
  <2>. HIDE DEF T
  <2>. QED BY <1>1, LeastMember
<1>. DEFINE x == m - k
<1>3. x \in S \cup {0} /\ x \in 0 .. m
  BY <1>2
<1>4. ASSUME NEW y \in S PROVE y <= x
  <2>1. m - y \in 0 .. m /\ m - (m - y) = y
    OBVIOUS
  <2>2. k <= m - y
    BY <1>2, <2>1
  <2>. QED BY <2>1, <2>2
<1>. HIDE DEF x
<1>5. MaxOf(S) \in S \cup {0} /\ \A y \in S : y <= MaxOf(S)
  BY <1>3, <1>4 DEF MaxOf
<1>6. S \cup {0} \subseteq 0 .. m
  OBVIOUS
<1>. QED BY <1>5, <1>6

\* Sources are at level 0, and a gate is one above its highest operand.
Levels(c, level) ==
  /\ level \in [1 .. Len(c.insts) -> 0 .. Len(c.insts)]
  /\ \A s \in 1 .. Len(c.insts) :
       /\ ~IsGate(c.insts[s]) => level[s] = 0
       /\ IsGate(c.insts[s]) =>
            /\ level[s] >= 1
            /\ \A x \in Operands(c.insts[s]) : level[x] < level[s]
            /\ level[s] > 1 => \E x \in Operands(c.insts[s]) : level[x] = level[s] - 1

\* The level of the next instruction, given those of the ones before it.
LevelAfter(c, k, before) ==
  IF IsGate(c.insts[k]) THEN 1 + MaxOf({before[s] : s \in Operands(c.insts[k])}) ELSE 0

\* A function that appends the level of each instruction gives the levels.
LEMMA LevelizeUnique ==
  ASSUME NEW c, Len(c.insts) \in Nat, NEW f, f = [k \in 0 .. Len(c.insts) |-> f[k]], f[0] = <<>>,
         \A k \in 1 .. Len(c.insts) : f[k] = Append(f[k - 1], LevelAfter(c, k, f[k - 1]))
  PROVE  Levelize(c) = f[Len(c.insts)]
<1>. DEFINE n == Len(c.insts)
            after(k, before) == LET inst == c.insts[k]
                                IN  Append(before, IF IsGate(inst)
                                                   THEN 1 + MaxOf({before[s] : s \in Operands(inst)})
                                                   ELSE 0)
            body(q) == [k \in 0 .. n |-> IF k = 0 THEN <<>> ELSE LET before == q[k - 1] IN after(k, before)]
            upTo == CHOOSE q : q = body(q)
<1>1. Levelize(c) = upTo[n]
  BY DEF Levelize
<1>2. \A k, x : after(k, x) = Append(x, LevelAfter(c, k, x))
  BY DEF LevelAfter
<1>. HIDE DEF after
<1>3. f = body(f)
  <2>1. ASSUME NEW k \in 0 .. n PROVE f[k] = body(f)[k]
    <3>1. CASE k = 0
      BY <3>1
    <3>2. CASE k # 0
      <4>1. k \in 1 .. n
        BY <3>2
      <4>2. f[k] = after(k, f[k - 1])
        BY <1>2, <4>1
      <4>. QED BY <3>2, <4>2
    <3>. QED BY <3>1, <3>2
  <2>2. DOMAIN f = 0 .. n /\ DOMAIN body(f) = 0 .. n
    <3>. HIDE DEF n
    <3>. QED BY DEF n
  <2>3. f = [k \in 0 .. n |-> f[k]]
    OBVIOUS
  <2>. HIDE DEF n
  <2>. QED BY <2>1, <2>2, <2>3
<1>4. upTo = body(upTo)
  <2>. HIDE DEF body
  <2>. QED BY <1>3
<1>5. upTo = f
  <2>1. ASSUME NEW k \in 1 .. n, upTo[k - 1] = f[k - 1] PROVE upTo[k] = f[k]
    <3>1. k \in 0 .. n /\ k # 0
      OBVIOUS
    <3>2. body(upTo)[k] = after(k, upTo[k - 1]) /\ body(f)[k] = after(k, f[k - 1])
      <4>. HIDE DEF upTo
      <4>. QED BY <3>1
    <3>. QED BY <1>3, <1>4, <2>1, <3>2
  <2>2. 0 \in 0 .. n
    OBVIOUS
  <2>3. body(upTo)[0] = <<>> /\ body(f)[0] = <<>>
    <3>. HIDE DEF upTo
    <3>. QED BY <2>2
  <2>4. DOMAIN body(upTo) = 0 .. n /\ body(upTo) = [k \in 0 .. n |-> body(upTo)[k]]
    <3>. HIDE DEF upTo
    <3>. QED OBVIOUS
  <2>5. DOMAIN f = 0 .. n /\ f = [k \in 0 .. n |-> f[k]] /\ n \in Nat
    OBVIOUS
  <2>. HIDE DEF body, upTo
  <2>6. upTo[0] = f[0] /\ DOMAIN upTo = 0 .. n /\ upTo = [k \in 0 .. n |-> upTo[k]]
    BY <1>3, <1>4, <2>3, <2>4
  <2>. QED BY <2>1, <2>5, <2>6, SameSteps
<1>. HIDE DEF upTo
<1>. QED BY <1>1, <1>5

\* Levelize finds the levels.
LEMMA Leveled ==
  ASSUME NEW c, c.insts \in NodesOf(c)
  PROVE  Levels(c, Levelize(c))
<1>. DEFINE q == c.insts
            n == Len(q)
            \* the first k levels
            right(k, x) ==
              /\ x \in [1 .. k -> 0 .. k] /\ Len(x) = k
              /\ \A s \in 1 .. k :
                   /\ ~IsGate(q[s]) => x[s] = 0
                   /\ IsGate(q[s]) =>
                        /\ x[s] >= 1
                        /\ \A y \in Operands(q[s]) : x[y] < x[s]
                        /\ x[s] > 1 => \E y \in Operands(q[s]) : x[y] = x[s] - 1
            B == [k \in 0 .. n |-> {x \in Seq(Nat) : right(k, x)}]
            step == [k \in 1 .. n |-> [x \in Seq(Nat) |-> Append(x, LevelAfter(c, k, x))]]
<1>1. q \in NodesOf(c) /\ n \in Nat /\ \A s \in 1 .. n : Operands(q[s]) \subseteq 1 .. s - 1
  BY Nodes
<1>. HIDE DEF q, n
<1>2. <<>> \in B[0]
  <2>1. 0 \in 0 .. n /\ right(0, <<>>)
    BY <1>1
  <2>. QED BY <2>1
<1>3. ASSUME NEW k \in 1 .. n, NEW x, x \in Seq(Nat), right(k - 1, x)
      PROVE  LET y == Append(x, LevelAfter(c, k, x)) IN y \in Seq(Nat) /\ right(k, y)
  <2>. DEFINE S == {x[s] : s \in Operands(q[k])}
              l == LevelAfter(c, k, x)
              y == Append(x, l)
  <2>1. k - 1 \in Nat /\ k \in Nat /\ 1 .. k = (1 .. k - 1) \cup {k} /\ k \notin 1 .. k - 1
    BY <1>1
  <2>2. Operands(q[k]) \subseteq 1 .. k - 1
    BY <1>1
  <2>3. S \in SUBSET (0 .. k - 1)
    BY <1>3, <2>2
  <2>4. /\ MaxOf(S) \in 0 .. k - 1 /\ MaxOf(S) \in S \cup {0} /\ \A z \in S : z <= MaxOf(S)
    BY <2>1, <2>3, MaxOfSet
  <2>5. l = IF IsGate(q[k]) THEN 1 + MaxOf(S) ELSE 0
    BY DEF LevelAfter, q
  <2>6. l \in 0 .. k
    BY <2>1, <2>4, <2>5
  <2>. HIDE DEF l
  <2>7. y \in Seq(Nat) /\ Len(y) = k /\ y[k] = l /\ \A s \in 1 .. k - 1 : y[s] = x[s]
    BY <1>3, <2>1, <2>6
  <2>. HIDE DEF y, S
  <2>8. y \in [1 .. k -> 0 .. k]
    <3>1. \A s \in 1 .. k : y[s] \in 0 .. k
      BY <1>3, <2>1, <2>6, <2>7
    <3>. QED BY <2>7, <3>1
  <2>9. ASSUME NEW s \in 1 .. k
        PROVE  /\ ~IsGate(q[s]) => y[s] = 0
               /\ IsGate(q[s]) =>
                        /\ y[s] >= 1
                        /\ \A z \in Operands(q[s]) : y[z] < y[s]
                        /\ y[s] > 1 => \E z \in Operands(q[s]) : y[z] = y[s] - 1
    <3>1. CASE s \in 1 .. k - 1
      <4>1. \A z \in Operands(q[s]) : z \in 1 .. k - 1
        BY <1>1, <2>1, <3>1
      <4>2. y[s] = x[s] /\ \A z \in Operands(q[s]) : y[z] = x[z]
        BY <2>7, <3>1, <4>1
      <4>. QED BY <1>3, <3>1, <4>2
    <3>2. CASE s = k
      <4>1. \A z \in Operands(q[k]) : y[z] = x[z] /\ x[z] \in S
        BY <2>2, <2>7 DEF S
      <4>2. ~IsGate(q[k]) => y[k] = 0
        BY <2>5, <2>7
      <4>3. IsGate(q[k]) => y[k] = 1 + MaxOf(S)
        BY <2>5, <2>7
      <4>4. ASSUME IsGate(q[k]), y[k] > 1 PROVE \E z \in Operands(q[k]) : y[z] = y[k] - 1
        <5>1. MaxOf(S) \in S
          BY <2>4, <4>3, <4>4
        <5>2. PICK z \in Operands(q[k]) : x[z] = MaxOf(S)
          BY <5>1 DEF S
        <5>. QED BY <2>4, <4>1, <4>3, <4>4, <5>2
      <4>5. ASSUME IsGate(q[k]), NEW z \in Operands(q[k]) PROVE y[z] < y[k]
        <5>1. y[z] = x[z] /\ x[z] \in S
          BY <4>1, <4>5
        <5>2. x[z] <= MaxOf(S)
          BY <2>4, <5>1
        <5>3. x[z] \in Nat /\ MaxOf(S) \in Nat
          <6>1. 0 .. k - 1 \subseteq Nat
            OBVIOUS
          <6>. QED BY <2>3, <2>4, <5>1, <6>1
        <5>. QED BY <4>3, <4>5, <5>1, <5>2, <5>3
      <4>6. IsGate(q[k]) => y[k] >= 1
        BY <2>4, <4>3
      <4>. QED BY <3>2, <4>2, <4>4, <4>5, <4>6
    <3>. QED BY <2>1, <3>1, <3>2
  <2>10. right(k, y)
    BY <2>7, <2>8, <2>9
  <2>. QED BY <2>7, <2>10 DEF y, l
<1>. HIDE DEF right
<1>4. \A k \in 1 .. n : \A x \in B[k - 1] : step[k][x] \in B[k]
  <2>. SUFFICES ASSUME NEW k \in 1 .. n, NEW x \in B[k - 1] PROVE step[k][x] \in B[k]
    OBVIOUS
  <2>1. k - 1 \in 0 .. n /\ k \in 0 .. n
    BY <1>1
  <2>2. x \in Seq(Nat) /\ right(k - 1, x)
    BY <2>1
  <2>3. step[k][x] = Append(x, LevelAfter(c, k, x))
    BY <2>2
  <2>4. Append(x, LevelAfter(c, k, x)) \in Seq(Nat) /\ right(k, Append(x, LevelAfter(c, k, x)))
    BY <1>3, <2>2
  <2>. HIDE DEF step
  <2>. QED BY <2>1, <2>3, <2>4
<1>5. PICK f : Constructs(f, n, B, <<>>, step)
  <2>. HIDE DEF B, step
  <2>. QED BY <1>1, <1>2, <1>4, Constructing
<1>6. ASSUME NEW k \in 1 .. n PROVE f[k] = Append(f[k - 1], LevelAfter(c, k, f[k - 1]))
  <2>1. k - 1 \in 0 .. n
    BY <1>1
  <2>2. f[k - 1] \in B[k - 1] /\ f[k] = step[k][f[k - 1]]
    <3>. HIDE DEF B, step
    <3>. QED BY <1>5, <2>1 DEF Constructs
  <2>3. f[k - 1] \in Seq(Nat)
    BY <2>1, <2>2
  <2>. QED BY <2>2, <2>3
<1>7. Levelize(c) = f[n]
  <2>1. f = [k \in 0 .. n |-> f[k]] /\ f[0] = <<>>
    BY <1>5 DEF Constructs
  <2>. HIDE DEF step, B
  <2>. QED BY <1>1, <1>6, <2>1, LevelizeUnique DEF n, q
<1>8. right(n, f[n])
  <2>1. n \in 0 .. n
    BY <1>1
  <2>2. f[n] \in B[n]
    <3>. HIDE DEF B, step
    <3>. QED BY <1>5, <2>1 DEF Constructs
  <2>. QED BY <2>1, <2>2
<1>. QED BY <1>7, <1>8 DEF right, Levels, q, n

-----------------------------------------------------------------------------
(* The schedule.                                                           *)

\* The second key of the schedule.
Key(c, u) == IF IsGate(c.insts[u]) THEN OpKey[c.insts[u].op] ELSE 0

\* sch lists the signals by level, operation and number, and place gives the
\* place of each signal in it.
Scheduled(c, level, sch, place) ==
  LET S == 1 .. Len(c.insts) IN
  /\ sch \in [S -> S] /\ Len(sch) = Len(c.insts) /\ place \in [S -> S]
  /\ \A k \in S : place[sch[k]] = k
  /\ \A s \in S : sch[place[s]] = s
  /\ \A s, u \in S : place[s] <= place[u] <=> s \in UpTo(c, level, u)

\* The second key is a number.
LEMMA KeyType ==
  ASSUME NEW c, c.insts \in NodesOf(c), NEW u \in 1 .. Len(c.insts)
  PROVE  Key(c, u) \in Nat
<1>1. IsGate(c.insts[u]) => c.insts[u].op \in GateOp
  BY Nodes
<1>2. \A op \in GateOp : OpKey[op] \in Nat
  BY DEF OpKey, GateOp
<1>. QED BY <1>1, <1>2 DEF Key

\* A signal comes up to another one if it is at a lower level, or at the same
\* level with a lower key, or with the same key and an earlier number.
LEMMA UpToOrder ==
  ASSUME NEW c, c.insts \in NodesOf(c), NEW level, Levels(c, level),
         NEW s \in 1 .. Len(c.insts), NEW u \in 1 .. Len(c.insts)
  PROVE  /\ level[s] \in Nat /\ level[u] \in Nat /\ Key(c, s) \in Nat /\ Key(c, u) \in Nat
         /\ s \in UpTo(c, level, u) <=>
              \/ level[s] < level[u]
              \/ level[s] = level[u] /\ Key(c, s) < Key(c, u)
              \/ level[s] = level[u] /\ Key(c, s) = Key(c, u) /\ s <= u
<1>1. level[s] \in Nat /\ level[u] \in Nat
  BY DEF Levels
<1>2. Key(c, s) \in Nat /\ Key(c, u) \in Nat
  BY KeyType
<1>3. s \in UpTo(c, level, u) <=>
              \/ level[s] < level[u]
              \/ level[s] = level[u] /\ Key(c, s) < Key(c, u)
              \/ level[s] = level[u] /\ Key(c, s) = Key(c, u) /\ s <= u
  BY DEF UpTo, Key, Insts
<1>. QED BY <1>1, <1>2, <1>3

\* The schedule of Compiled::new is such a list.
LEMMA Schedules ==
  ASSUME NEW c, c.insts \in NodesOf(c), NEW level, Levels(c, level)
  PROVE  Scheduled(c, level, Ordered(1 .. Len(c.insts), SlotOrder(c, level)), SlotOrder(c, level))
<1>. DEFINE n == Len(c.insts)
            S == 1 .. n
            place == SlotOrder(c, level)
            down == [s \in S |-> UpTo(c, level, s)]
            before(s, u) == \/ level[s] < level[u]
                            \/ level[s] = level[u] /\ Key(c, s) < Key(c, u)
                            \/ level[s] = level[u] /\ Key(c, s) = Key(c, u) /\ s <= u
<1>1. n \in Nat /\ IsFiniteSet(S) /\ Cardinality(S) = n
  <2>1. n \in Nat
    BY Nodes
  <2>. HIDE DEF n
  <2>2. IsFiniteSet(1 .. n)
    BY <2>1, FS_Interval
  <2>. QED BY <2>1, <2>2, RankWhole
<1>2. \A s \in S : level[s] \in Nat /\ Key(c, s) \in Nat
  BY KeyType DEF Levels
<1>3. \A s, u \in S : s \in down[u] <=> before(s, u)
  BY UpToOrder
<1>4. down \in [S -> SUBSET S]
  BY DEF UpTo, Insts
<1>. HIDE DEF down, n
<1>5. \A s \in S : s \in down[s]
  BY <1>2, <1>3
<1>6. \A x, y \in S : x \in down[y] => down[x] \subseteq down[y]
  <2>1. ASSUME NEW x \in S, NEW y \in S, x \in down[y], NEW z \in down[x] PROVE z \in down[y]
    <3>1. z \in S
      BY <1>4
    <3>2. before(z, x) /\ before(x, y)
      BY <1>3, <2>1, <3>1
    <3>4. /\ level[x] \in Nat /\ level[y] \in Nat /\ level[z] \in Nat
          /\ Key(c, x) \in Nat /\ Key(c, y) \in Nat /\ Key(c, z) \in Nat
          /\ x \in Nat /\ y \in Nat /\ z \in Nat
      BY <1>1, <1>2, <3>1
    <3>3. before(z, y)
      BY <3>2, <3>4
    <3>. QED BY <1>3, <3>1, <3>3
  <2>. QED BY <2>1
<1>7. ASSUME NEW x \in S, NEW y \in S
      PROVE  /\ x \in down[y] \/ y \in down[x]
             /\ x \in down[y] /\ y \in down[x] => x = y
  <2>. DEFINE i == level[x]
              j == level[y]
              p == Key(c, x)
              q == Key(c, y)
  <2>1. i \in Nat /\ j \in Nat /\ p \in Nat /\ q \in Nat /\ x \in Nat /\ y \in Nat
    BY <1>1, <1>2
  <2>2. /\ x \in down[y] <=> (i < j \/ (i = j /\ p < q) \/ (i = j /\ p = q /\ x <= y))
        /\ y \in down[x] <=> (j < i \/ (j = i /\ q < p) \/ (j = i /\ q = p /\ y <= x))
    BY <1>3
  <2>. HIDE DEF i, j, p, q, S
  <2>. QED BY <2>1, <2>2
<1>8. /\ \A x, y \in S : x \in down[y] \/ y \in down[x]
      /\ \A x, y \in S : x \in down[y] /\ y \in down[x] => x = y
  BY <1>7
<1>9. place = [x \in S |-> Cardinality(down[x])]
  BY DEF SlotOrder, Insts, down, n
<1>10. Numbered(S, place) /\ \A x, y \in S : place[x] <= place[y] <=> x \in down[y]
  <2>. HIDE DEF place, S
  <2>. QED BY <1>1, <1>4, <1>5, <1>6, <1>8, <1>9, Ranking
<1>. DEFINE sch == Ordered(S, place)
<1>11. /\ sch \in [1 .. n -> S] /\ Len(sch) = n
       /\ \A k \in 1 .. n : place[sch[k]] = k
       /\ \A x \in S : sch[place[x]] = x
  BY <1>1, <1>10, OrderedPlaces
<1>12. place \in [S -> S]
  BY <1>1, <1>10 DEF Numbered
<1>13. \A s, u \in S : place[s] <= place[u] <=> s \in UpTo(c, level, u)
  BY <1>10 DEF down
<1>. HIDE DEF sch, place
<1>14. Scheduled(c, level, sch, place)
  BY <1>11, <1>12, <1>13 DEF Scheduled, n
<1>. QED BY <1>14 DEF sch, place, n

\* What the schedule means for places: signals go up in level, gates follow
\* all sources, and operands precede their gate.
LEMMA ScheduledOrder ==
  ASSUME NEW c, c.insts \in NodesOf(c), NEW level, Levels(c, level), NEW sch, NEW place,
         Scheduled(c, level, sch, place),
         NEW s \in 1 .. Len(c.insts), NEW u \in 1 .. Len(c.insts)
  PROVE  /\ place[s] < place[u] => level[s] <= level[u]
         /\ level[s] < level[u] => place[s] < place[u]
         /\ IsGate(c.insts[s]) /\ place[s] <= place[u] => IsGate(c.insts[u])
         /\ s \in Operands(c.insts[u]) => place[s] < place[u]
         /\ place[s] < place[u] /\ level[s] = level[u] => Key(c, s) <= Key(c, u)
         /\ place[s] = place[u] => s = u
<1>. DEFINE S == 1 .. Len(c.insts)
<1>1. place[s] \in Nat /\ place[u] \in Nat /\ (place[s] = place[u] => s = u)
  <2>1. Len(c.insts) \in Nat
    BY Nodes
  <2>. QED BY <2>1 DEF Scheduled
<1>2. place[s] <= place[u] <=> s \in UpTo(c, level, u)
  BY DEF Scheduled
<1>3. place[u] <= place[s] <=> u \in UpTo(c, level, s)
  BY DEF Scheduled
<1>4. /\ level[s] \in Nat /\ level[u] \in Nat /\ Key(c, s) \in Nat /\ Key(c, u) \in Nat
      /\ place[s] <= place[u] <=>
              \/ level[s] < level[u]
              \/ level[s] = level[u] /\ Key(c, s) < Key(c, u)
              \/ level[s] = level[u] /\ Key(c, s) = Key(c, u) /\ s <= u
  BY <1>2, UpToOrder
<1>5. place[u] <= place[s] <=>
              \/ level[u] < level[s]
              \/ level[u] = level[s] /\ Key(c, u) < Key(c, s)
              \/ level[u] = level[s] /\ Key(c, u) = Key(c, s) /\ u <= s
  BY <1>3, UpToOrder
<1>6. level[s] < level[u] => place[s] < place[u]
  BY <1>1, <1>4, <1>5
<1>7. IsGate(c.insts[s]) /\ place[s] <= place[u] => IsGate(c.insts[u])
  <2>1. IsGate(c.insts[s]) => level[s] >= 1
    BY DEF Levels
  <2>2. ~IsGate(c.insts[u]) => level[u] = 0
    BY DEF Levels
  <2>. QED BY <1>4, <2>1, <2>2
<1>8. s \in Operands(c.insts[u]) => level[s] < level[u]
  BY DEF Levels, Operands
<1>. QED BY <1>1, <1>4, <1>5, <1>6, <1>7, <1>8

-----------------------------------------------------------------------------
(* The tape.                                                               *)

\* The instruction in each slot, the slots of the gates, the slots a gate
\* reads, and the slot of a source.
Placed(c, sch) == [slot \in 1 .. Len(c.insts) |-> c.insts[sch[slot]]]
GatesIn(c, inst) == {slot \in 1 .. Len(c.insts) : IsGate(inst[slot])}
OperandSlots(c, inst, place) ==
  [slot \in 1 .. Len(c.insts) |->
     IF slot \in GatesIn(c, inst) THEN [i \in DOMAIN inst[slot].ins |-> place[inst[slot].ins[i]]] ELSE <<>>]
Nth(c, operand, i) ==
  [slot \in 1 .. Len(c.insts) |-> IF i \in DOMAIN operand[slot] THEN operand[slot][i] ELSE 1]
SlotWith(c, inst, source) ==
  IF \E slot \in 1 .. Len(c.insts) : inst[slot] = source
  THEN CHOOSE slot \in 1 .. Len(c.insts) : inst[slot] = source ELSE NoSlot

\* The fields of a tape, given the instruction and the operands of each slot.
Laid(c, t, level, sch, place, inst, operand, rows) ==
  LET S == 1 .. Len(c.insts)
      gates == GatesIn(c, inst)
      consts == Ascending({slot \in S : inst[slot].kind = "Const"})
  IN
  /\ t.a = Nth(c, operand, 1) /\ t.b = Nth(c, operand, 2) /\ t.c = Nth(c, operand, 3)
  /\ t.ops = [slot \in S |-> IF slot \in gates THEN inst[slot].op ELSE "Buf"]
  /\ t.gate_start = CHOOSE s \in gates \cup {Len(c.insts) + 1} : \A g \in gates : s <= g
  /\ t.slot_level = [slot \in S |-> level[sch[slot]]]
  /\ t.runs = Runs(gates, t.ops, t.slot_level)
  /\ t.levels = LevelsOf(gates, t.slot_level, t.runs)
  /\ t.input_slots = [i \in 1 .. c.input_count |-> SlotWith(c, inst, Input(i))]
  /\ t.const_slots = [k \in DOMAIN consts |-> <<consts[k], inst[consts[k]].value>>]
  /\ t.reg_out_slots = [r \in DOMAIN c.regs |-> SlotWith(c, inst, RegisterOutput(r))]
  /\ t.reg_in_slots = [r \in DOMAIN c.regs |-> place[c.regs[r].data]]
  /\ t.reg_initial = [r \in DOMAIN c.regs |-> c.regs[r].initial]
  /\ t.output_slots = [o \in DOMAIN c.outputs |-> place[c.outputs[o]]]
  /\ t.succ_offsets = [s \in 1 .. Len(c.insts) + 1 |-> Len(FlattenSeq(SubSeq(rows, 1, s - 1)))]
  /\ t.succ = FlattenSeq(rows)

\* A tape laid out for a circuit by a schedule.
Lays(c, t, level, sch, place) ==
  LET inst == Placed(c, sch)
      operand == OperandSlots(c, inst, place)
      rows == SuccessorRows(Len(c.insts), GatesIn(c, inst), operand)
  IN  Laid(c, t, level, sch, place, inst, operand, rows)

\* The fields of a compiled tape, in terms of the schedule.
LEMMA CompiledFields ==
  ASSUME NEW c, NEW level, level = Levelize(c),
         NEW sch, sch = Ordered(1 .. Len(c.insts), SlotOrder(c, level)),
         NEW pos, pos = [s \in 1 .. Len(c.insts) |-> CHOOSE slot \in 1 .. Len(c.insts) : sch[slot] = s]
  PROVE  Lays(c, Compiled(c), level, sch, pos)
<1>. DEFINE inst == Placed(c, sch)
            gates == GatesIn(c, inst)
            operand == OperandSlots(c, inst, pos)
            rows == SuccessorRows(Len(c.insts), gates, operand)
            ops == [slot \in 1 .. Len(c.insts) |-> IF slot \in gates THEN inst[slot].op ELSE "Buf"]
            slot_level == [slot \in 1 .. Len(c.insts) |-> level[sch[slot]]]
            runs == Runs(gates, ops, slot_level)
            consts == Ascending({slot \in 1 .. Len(c.insts) : inst[slot].kind = "Const"})
            t == [a |-> Nth(c, operand, 1), b |-> Nth(c, operand, 2), c |-> Nth(c, operand, 3), ops |-> ops,
                  gate_start    |-> CHOOSE s \in gates \cup {Len(c.insts) + 1} : \A g \in gates : s <= g,
                  runs          |-> runs,
                  levels        |-> LevelsOf(gates, slot_level, runs),
                  input_slots   |-> [i \in 1 .. c.input_count |-> SlotWith(c, inst, Input(i))],
                  const_slots   |-> [k \in DOMAIN consts |-> <<consts[k], inst[consts[k]].value>>],
                  reg_out_slots |-> [r \in DOMAIN c.regs |-> SlotWith(c, inst, RegisterOutput(r))],
                  reg_in_slots  |-> [r \in DOMAIN c.regs |-> pos[c.regs[r].data]],
                  reg_initial   |-> [r \in DOMAIN c.regs |-> c.regs[r].initial],
                  output_slots  |-> [o \in DOMAIN c.outputs |-> pos[c.outputs[o]]],
                  succ_offsets  |-> [s \in 1 .. Len(c.insts) + 1 |-> Len(FlattenSeq(SubSeq(rows, 1, s - 1)))],
                  succ          |-> FlattenSeq(rows),
                  slot_level    |-> slot_level]
<1>1. Compiled(c) = t
  BY DEF Compiled, Placed, GatesIn, OperandSlots, Nth, SlotWith
<1>2. Laid(c, t, level, sch, pos, inst, operand, rows)
  <2>. HIDE DEF inst, operand, rows
  <2>. QED BY DEF Laid
<1>. HIDE DEF t
<1>. QED BY <1>1, <1>2 DEF Lays

\* t is the tape of circuit c.
TapeFor(c, t, level, sch, place) ==
  /\ Circuit(c) /\ SourcesOnce(c)
  /\ Levels(c, level) /\ Scheduled(c, level, sch, place) /\ Lays(c, t, level, sch, place)

\* Compiled lays a tape out by levels and a schedule.
LEMMA CompiledLays ==
  ASSUME NEW c, Circuit(c), SourcesOnce(c)
  PROVE  \E level, sch, place : TapeFor(c, Compiled(c), level, sch, place)
<1>. DEFINE n == Len(c.insts)
            level == Levelize(c)
            place == SlotOrder(c, level)
            sch == Ordered(1 .. n, place)
            pos == [s \in 1 .. n |-> CHOOSE slot \in 1 .. n : sch[slot] = s]
<1>1. c.insts \in NodesOf(c)
  BY DEF Circuit
<1>2. Levels(c, level)
  BY <1>1, Leveled
<1>. HIDE DEF level
<1>3. Scheduled(c, level, sch, place)
  BY <1>1, <1>2, Schedules
<1>4. level = Levelize(c)
  BY DEF level
<1>5. Lays(c, Compiled(c), level, sch, pos)
  BY <1>4, CompiledFields
<1>. HIDE DEF sch, place
<1>6. pos = place
  <2>1. ASSUME NEW s \in 1 .. n PROVE pos[s] = place[s]
    <3>1. /\ place[s] \in 1 .. n /\ sch[place[s]] = s
          /\ \A slot \in 1 .. n : sch[slot] = s => slot = place[s]
      BY <1>3 DEF Scheduled
    <3>. HIDE DEF n
    <3>. QED BY <3>1
  <2>2. place = [s \in 1 .. n |-> place[s]]
    BY <1>3 DEF Scheduled
  <2>3. pos = [s \in 1 .. n |-> pos[s]]
    OBVIOUS
  <2>. HIDE DEF pos, n
  <2>. QED BY <2>1, <2>2, <2>3
<1>7. TapeFor(c, Compiled(c), level, sch, place)
  BY <1>2, <1>3, <1>5, <1>6 DEF TapeFor
<1>. QED BY <1>7

\* A gate's record in the tape, given its operands' places.
GateLaid(c, t, place, k, op, ins) ==
  /\ t.ops[k] = op /\ t.a[k] = place[ins[1]]
  /\ t.b[k] = IF arity(op) > 1 THEN place[ins[2]] ELSE 1
  /\ t.c[k] = IF arity(op) > 2 THEN place[ins[3]] ELSE 1

\* What the tape says of each slot.
LEMMA SlotFacts ==
  ASSUME NEW c, NEW t, NEW level, NEW sch, NEW place, TapeFor(c, t, level, sch, place),
         NEW k \in 1 .. Len(c.insts)
  PROVE  LET s == sch[k] inst == c.insts[s] IN
         /\ s \in 1 .. Len(c.insts) /\ place[s] = k /\ inst \in Instructions(c)
         /\ t.slot_level[k] = level[s]
         /\ IsGate(inst) => /\ inst.op \in GateOp /\ Reads(inst.op, inst.ins, s - 1)
                            /\ GateLaid(c, t, place, k, inst.op, inst.ins)
         /\ ~IsGate(inst) => t.ops[k] = "Buf" /\ t.a[k] = 1 /\ t.b[k] = 1 /\ t.c[k] = 1
<1>. DEFINE S == 1 .. Len(c.insts)
            s == sch[k]
            i == c.insts[s]
            inst == Placed(c, sch)
            operand == OperandSlots(c, inst, place)
            rows == SuccessorRows(Len(c.insts), GatesIn(c, inst), operand)
<1>1. s \in S /\ place[s] = k
  BY DEF TapeFor, Scheduled
<1>2. i \in Instructions(c) /\ (IsGate(i) => i.op \in GateOp /\ Reads(i.op, i.ins, s - 1))
  BY <1>1, Nodes DEF TapeFor, Circuit
<1>3. inst[k] = i /\ (k \in GatesIn(c, inst) <=> IsGate(i))
  BY DEF Placed, GatesIn
<1>4. Laid(c, t, level, sch, place, inst, operand, rows)
  BY DEF TapeFor, Lays
<1>5. operand[k] = IF IsGate(i) THEN [j \in DOMAIN i.ins |-> place[i.ins[j]]] ELSE <<>>
  BY <1>3 DEF OperandSlots
<1>. HIDE DEF operand, rows, inst
<1>6. /\ t.slot_level[k] = level[s] /\ t.ops[k] = (IF IsGate(i) THEN i.op ELSE "Buf")
      /\ t.a[k] = Nth(c, operand, 1)[k] /\ t.b[k] = Nth(c, operand, 2)[k] /\ t.c[k] = Nth(c, operand, 3)[k]
  BY <1>3, <1>4 DEF Laid
<1>7. \A j : Nth(c, operand, j)[k] = IF j \in DOMAIN operand[k] THEN operand[k][j] ELSE 1
  BY DEF Nth
<1>. HIDE DEF i, s
<1>8. CASE IsGate(i)
  <2>1. operand[k] = [j \in 1 .. arity(i.op) |-> place[i.ins[j]]] /\ arity(i.op) \in 1 .. 3
    BY <1>2, <1>5, <1>8, Arities DEF Reads
  <2>2. \A j \in 1 .. 3 : Nth(c, operand, j)[k] = IF j <= arity(i.op) THEN place[i.ins[j]] ELSE 1
    BY <1>7, <2>1
  <2>3. /\ t.a[k] = place[i.ins[1]]
        /\ t.b[k] = IF arity(i.op) > 1 THEN place[i.ins[2]] ELSE 1
        /\ t.c[k] = IF arity(i.op) > 2 THEN place[i.ins[3]] ELSE 1
    BY <1>6, <2>1, <2>2
  <2>4. GateLaid(c, t, place, k, i.op, i.ins)
    BY <1>6, <1>8, <2>3 DEF GateLaid
  <2>. QED BY <1>1, <1>2, <1>6, <1>8, <2>4 DEF i, s
<1>9. CASE ~IsGate(i)
  <2>1. operand[k] = <<>>
    BY <1>5, <1>9
  <2>2. \A j : Nth(c, operand, j)[k] = 1
    BY <1>7, <2>1
  <2>. QED BY <1>1, <1>2, <1>6, <1>9, <2>2 DEF i, s
<1>. QED BY <1>8, <1>9

\* The gates are the last slots.
LEMMA GateRegion ==
  ASSUME NEW c, NEW t, NEW level, NEW sch, NEW place, TapeFor(c, t, level, sch, place)
  PROVE  /\ Len(c.insts) \in Nat /\ Slots(t) = 1 .. Len(c.insts) /\ slot_count(t) = Len(c.insts)
         /\ t.gate_start \in 1 .. Len(c.insts) + 1
         /\ \A k \in 1 .. Len(c.insts) : k \in GateSlots(t) <=> IsGate(c.insts[sch[k]])
<1>. DEFINE n == Len(c.insts)
            inst == Placed(c, sch)
            gates == GatesIn(c, inst)
            operand == OperandSlots(c, inst, place)
            rows == SuccessorRows(n, gates, operand)
<1>1. n \in Nat
  BY Nodes DEF TapeFor, Circuit
<1>2. Laid(c, t, level, sch, place, inst, operand, rows)
  BY DEF TapeFor, Lays
<1>3. gates = {k \in 1 .. n : IsGate(c.insts[sch[k]])}
  BY DEF Placed, GatesIn
<1>. HIDE DEF operand, rows, inst
<1>4. t.gate_start = CHOOSE s \in gates \cup {n + 1} : \A g \in gates : s <= g
  BY <1>2 DEF Laid
<1>5. t.ops = [k \in 1 .. n |-> IF k \in gates THEN inst[k].op ELSE "Buf"]
  BY <1>2 DEF Laid
<1>. HIDE DEF gates, n
<1>6. Len(t.ops) = n
  BY <1>1, <1>5
<1>7. gates \cup {n + 1} \in SUBSET Nat
  BY <1>1, <1>3
<1>8. \E s \in gates \cup {n + 1} : \A g \in gates : s <= g
  <2>1. PICK m \in gates \cup {n + 1} : \A g \in gates \cup {n + 1} : m <= g
    BY <1>7, LeastMember
  <2>. QED BY <2>1
<1>9. t.gate_start \in gates \cup {n + 1} /\ \A g \in gates : t.gate_start <= g
  BY <1>4, <1>8
<1>10. ASSUME NEW k \in 1 .. n PROVE k >= t.gate_start <=> IsGate(c.insts[sch[k]])
  <2>1. IsGate(c.insts[sch[k]]) => t.gate_start <= k
    BY <1>3, <1>9
  <2>2. ASSUME t.gate_start <= k PROVE IsGate(c.insts[sch[k]])
    <3>1. t.gate_start \in 1 .. n /\ IsGate(c.insts[sch[t.gate_start]])
      BY <1>1, <1>3, <1>9, <2>2
    <3>2. /\ sch[k] \in 1 .. n /\ place[sch[k]] = k
          /\ sch[t.gate_start] \in 1 .. n /\ place[sch[t.gate_start]] = t.gate_start
      BY <3>1 DEF TapeFor, Scheduled, n
    <3>. QED BY <2>2, <3>1, <3>2, ScheduledOrder DEF TapeFor, Circuit, n
  <2>. QED BY <1>1, <1>3, <1>9, <2>1, <2>2
<1>11. t.gate_start \in 1 .. n + 1
  BY <1>1, <1>3, <1>9
<1>12. \A k \in 1 .. n : k \in GateSlots(t) <=> IsGate(c.insts[sch[k]])
  BY <1>1, <1>6, <1>10, <1>11 DEF GateSlots, slot_count
<1>. QED BY <1>1, <1>6, <1>11, <1>12 DEF Slots, slot_count, n

\* A gate of the tape reads the slots of the signals that the gate of the
\* circuit reads.
LEMMA GateOperands ==
  ASSUME NEW c, NEW t, NEW level, NEW sch, NEW place, TapeFor(c, t, level, sch, place),
         NEW k \in GateSlots(t)
  PROVE  /\ k \in 1 .. Len(c.insts) /\ IsGate(c.insts[sch[k]])
         /\ OperandsOf(t, k) = {place[x] : x \in Operands(c.insts[sch[k]])}
         /\ \A x \in Operands(c.insts[sch[k]]) :
              /\ x \in 1 .. Len(c.insts) /\ place[x] \in 1 .. Len(c.insts)
              /\ place[x] < k /\ level[x] < level[sch[k]]
<1>. DEFINE n == Len(c.insts)
            s == sch[k]
            inst == c.insts[s]
            op == inst.op
            ins == inst.ins
<1>1. n \in Nat /\ k \in 1 .. n /\ IsGate(inst)
  BY GateRegion DEF GateSlots
<1>2. /\ s \in 1 .. n /\ place[s] = k
      /\ op \in GateOp /\ Reads(op, ins, s - 1) /\ GateLaid(c, t, place, k, op, ins)
  BY <1>1, SlotFacts
<1>3. s - 1 \in Nat
  BY <1>1, <1>2
<1>. HIDE DEF inst, s
<1>4. Operands(inst) = {ins[i] : i \in 1 .. arity(op)} /\ Operands(inst) \subseteq 1 .. s - 1
  BY <1>1, <1>2, <1>3, OperandsRead
<1>5. OperandsOf(t, k) = {place[ins[i]] : i \in 1 .. arity(op)}
  <2>1. arity(op) \in 1 .. 3
    BY <1>2, Arities
  <2>2. /\ t.ops[k] = op /\ t.a[k] = place[ins[1]]
        /\ arity(op) > 1 => t.b[k] = place[ins[2]]
        /\ arity(op) > 2 => t.c[k] = place[ins[3]]
    BY <1>2 DEF GateLaid
  <2>. DEFINE m == arity(op)
              F(i) == place[ins[i]]
  <2>3. OperandsOf(t, k) = {F(1)} \cup (IF m > 1 THEN {F(2)} ELSE {}) \cup (IF m > 2 THEN {F(3)} ELSE {})
    BY <2>2 DEF OperandsOf
  <2>. HIDE DEF m, op, ins
  <2>4. CASE m = 1
    <3>1. 1 .. m = {1}
      BY <2>4
    <3>2. {F(i) : i \in 1 .. m} = {F(1)}
      BY <3>1
    <3>. QED BY <2>3, <2>4, <3>2 DEF m
  <2>5. CASE m = 2
    <3>1. 1 .. m = {1, 2}
      BY <2>5
    <3>2. {F(i) : i \in 1 .. m} = {F(1), F(2)}
      BY <3>1
    <3>. QED BY <2>3, <2>5, <3>2 DEF m
  <2>6. CASE m = 3
    <3>1. 1 .. m = {1, 2, 3}
      BY <2>6
    <3>2. {F(i) : i \in 1 .. m} = {F(1), F(2), F(3)}
      BY <3>1
    <3>. QED BY <2>3, <2>6, <3>2 DEF m
  <2>. QED BY <2>1, <2>4, <2>5, <2>6 DEF m
<1>6. OperandsOf(t, k) = {place[x] : x \in Operands(inst)}
  BY <1>4, <1>5
<1>7. ASSUME NEW x \in Operands(inst)
      PROVE  x \in 1 .. n /\ place[x] \in 1 .. n /\ place[x] < k /\ level[x] < level[s]
  <2>1. x \in 1 .. n
    <3>1. x \in 1 .. s - 1 /\ s \in 1 .. n /\ n \in Nat
      BY <1>1, <1>2, <1>4
    <3>. HIDE DEF n
    <3>. QED BY <3>1
  <2>2. place[x] \in 1 .. n
    BY <2>1 DEF TapeFor, Scheduled, n
  <2>3. place[x] < place[s]
    BY <1>2, <2>1, ScheduledOrder DEF TapeFor, Circuit, n, inst
  <2>4. level[x] < level[s]
    BY <1>1, <1>2 DEF TapeFor, Levels, n, inst
  <2>. QED BY <1>2, <2>1, <2>2, <2>3, <2>4
<1>. QED BY <1>1, <1>6, <1>7 DEF inst, s, n

-----------------------------------------------------------------------------
(* The successor map.                                                      *)

\* Row s names the gates that have s among their operands.
Dependents(n, gates, operand, rows) ==
  /\ rows \in [1 .. n -> Seq(1 .. n)]
  /\ \A s \in 1 .. n : {rows[s][j] : j \in 1 .. Len(rows[s])}
                           = {g \in gates : \E i \in DOMAIN operand[g] : operand[g][i] = s}

\* A row of the successor map names the gates that read the slot.
LEMMA RowsExact ==
  ASSUME NEW n \in Nat, NEW gates \in SUBSET (1 .. n), NEW operand,
         \A g \in gates : \E m \in Nat : DOMAIN operand[g] = 1 .. m
  PROVE  Dependents(n, gates, operand, SuccessorRows(n, gates, operand))
<1>. DEFINE rows == SuccessorRows(n, gates, operand)
            reads(g, s) == {i \in DOMAIN operand[g] : operand[g][i] = s}
            cells(s) == [g \in 1 .. n |-> IF g \in gates THEN [i \in 1 .. Cardinality(reads(g, s)) |-> g] ELSE <<>>]
<1>1. ASSUME NEW g \in gates, NEW s
      PROVE  Cardinality(reads(g, s)) \in Nat /\ (Cardinality(reads(g, s)) = 0 <=> reads(g, s) = {})
  <2>1. PICK m \in Nat : DOMAIN operand[g] = 1 .. m
    OBVIOUS
  <2>2. IsFiniteSet(1 .. m)
    BY FS_Interval
  <2>3. reads(g, s) \subseteq 1 .. m
    BY <2>1
  <2>. HIDE DEF reads
  <2>4. IsFiniteSet(reads(g, s))
    BY <2>2, <2>3, FS_Subset
  <2>. QED BY <2>4, FS_CardinalityType, FS_EmptySet
<1>2. rows = [s \in 1 .. n |-> FlattenSeq(cells(s))]
  BY DEF SuccessorRows
<1>. HIDE DEF reads, rows
<1>3. ASSUME NEW s \in 1 .. n
      PROVE  /\ FlattenSeq(cells(s)) \in Seq(1 .. n)
             /\ \A x : (\E j \in 1 .. Len(FlattenSeq(cells(s))) : FlattenSeq(cells(s))[j] = x)
                         <=> (x \in gates /\ reads(x, s) # {})
  <2>. DEFINE q == cells(s)
              size(g) == Cardinality(reads(g, s))
  <2>1. ASSUME NEW g \in 1 .. n
        PROVE  /\ q[g] \in Seq(1 .. n)
               /\ g \in gates => Len(q[g]) = size(g) /\ \A j \in 1 .. Len(q[g]) : q[g][j] = g
               /\ g \notin gates => Len(q[g]) = 0
    <3>1. CASE g \in gates
      <4>1. size(g) \in Nat /\ q[g] = [i \in 1 .. size(g) |-> g]
        BY <1>1, <3>1
      <4>. HIDE DEF size, q
      <4>. QED BY <3>1, <4>1
    <3>2. CASE g \notin gates
      <4>1. q[g] = <<>>
        BY <3>2
      <4>. HIDE DEF q
      <4>. QED BY <3>2, <4>1
    <3>. QED BY <3>1, <3>2
  <2>2. q \in [1 .. n -> Seq(1 .. n)]
    <3>1. q = [g \in 1 .. n |-> q[g]]
      OBVIOUS
    <3>. HIDE DEF q
    <3>. QED BY <2>1, <3>1
  <2>. HIDE DEF q, size
  <2>3. Flattened(n, q) /\ FlattenSeq(q) \in Seq(1 .. n)
    BY <2>2, FlattenParts
  <2>4. ASSUME NEW x
        PROVE  (\E k \in 1 .. n : \E j \in 1 .. Len(q[k]) : q[k][j] = x) <=> (x \in gates /\ reads(x, s) # {})
    <3>1. ASSUME NEW k \in 1 .. n, NEW j \in 1 .. Len(q[k]), q[k][j] = x PROVE x \in gates /\ reads(x, s) # {}
      <4>1. k \in gates
        BY <2>1, <3>1
      <4>2. x = k /\ Len(q[k]) = size(k)
        BY <2>1, <3>1, <4>1
      <4>3. size(k) # 0
        BY <3>1, <4>2
      <4>. QED BY <1>1, <4>1, <4>2, <4>3 DEF size
    <3>2. ASSUME x \in gates, reads(x, s) # {}
          PROVE  \E k \in 1 .. n : \E j \in 1 .. Len(q[k]) : q[k][j] = x
      <4>1. x \in 1 .. n /\ size(x) \in Nat /\ size(x) # 0
        BY <1>1, <3>2 DEF size
      <4>2. Len(q[x]) = size(x) /\ \A j \in 1 .. Len(q[x]) : q[x][j] = x
        BY <2>1, <3>2, <4>1
      <4>3. 1 \in 1 .. Len(q[x])
        BY <4>1, <4>2
      <4>. QED BY <4>1, <4>2, <4>3
    <3>. QED BY <3>1, <3>2
  <2>5. \A x : (\E j \in 1 .. Len(FlattenSeq(q)) : FlattenSeq(q)[j] = x)
                 <=> (\E k \in 1 .. n : \E j \in 1 .. Len(q[k]) : q[k][j] = x)
    BY <2>3 DEF Flattened
  <2>6. \A x : (\E j \in 1 .. Len(FlattenSeq(q)) : FlattenSeq(q)[j] = x) <=> (x \in gates /\ reads(x, s) # {})
    BY <2>4, <2>5
  <2>. QED BY <2>3, <2>6 DEF q
<1>. HIDE DEF cells
<1>4. rows \in [1 .. n -> Seq(1 .. n)]
  BY <1>2, <1>3
<1>5. ASSUME NEW s \in 1 .. n
      PROVE  {rows[s][j] : j \in 1 .. Len(rows[s])} = {g \in gates : \E i \in DOMAIN operand[g] : operand[g][i] = s}
  <2>1. rows[s] = FlattenSeq(cells(s))
    BY <1>2
  <2>2. \A x : (\E j \in 1 .. Len(rows[s]) : rows[s][j] = x) <=> (x \in gates /\ reads(x, s) # {})
    BY <1>3, <2>1
  <2>. HIDE DEF rows
  <2>3. \A x : x \in {rows[s][j] : j \in 1 .. Len(rows[s])} <=> (x \in gates /\ reads(x, s) # {})
    BY <2>2
  <2>4. \A x : x \in {g \in gates : \E i \in DOMAIN operand[g] : operand[g][i] = s}
                 <=> (x \in gates /\ reads(x, s) # {})
    BY DEF reads
  <2>. QED BY <2>3, <2>4
<1>. QED BY <1>4, <1>5 DEF rows, Dependents

\* The operands of a gate, in slots.
LEMMA OperandRow ==
  ASSUME NEW c, NEW t, NEW level, NEW sch, NEW place, TapeFor(c, t, level, sch, place),
         NEW k \in GateSlots(t)
  PROVE  LET operand == OperandSlots(c, Placed(c, sch), place) IN
         /\ DOMAIN operand[k] = 1 .. arity(t.ops[k]) /\ arity(t.ops[k]) \in Nat
         /\ \A s : (\E i \in DOMAIN operand[k] : operand[k][i] = s) <=> s \in OperandsOf(t, k)
<1>. DEFINE inst == c.insts[sch[k]]
            ins == inst.ins
            operand == OperandSlots(c, Placed(c, sch), place)
<1>1. k \in 1 .. Len(c.insts) /\ IsGate(inst) /\ OperandsOf(t, k) = {place[x] : x \in Operands(inst)}
  BY GateOperands
<1>2. /\ sch[k] \in 1 .. Len(c.insts) /\ inst.op \in GateOp /\ Reads(inst.op, ins, sch[k] - 1)
      /\ t.ops[k] = inst.op
  BY <1>1, SlotFacts DEF GateLaid
<1>3. sch[k] - 1 \in Nat
  BY <1>2
<1>4. Operands(inst) = {ins[i] : i \in 1 .. arity(inst.op)}
  BY <1>1, <1>2, <1>3, OperandsRead
<1>5. Placed(c, sch)[k] = inst /\ k \in GatesIn(c, Placed(c, sch))
  BY <1>1 DEF Placed, GatesIn
<1>6. operand[k] = [i \in DOMAIN ins |-> place[ins[i]]]
  BY <1>1, <1>5 DEF OperandSlots
<1>7. DOMAIN ins = 1 .. arity(inst.op) /\ arity(inst.op) \in Nat
  BY <1>2, Arities DEF Reads
<1>. HIDE DEF operand, inst
<1>8. \A s : (\E i \in 1 .. arity(inst.op) : place[ins[i]] = s) <=> s \in {place[x] : x \in Operands(inst)}
  BY <1>4
<1>. DEFINE m == arity(inst.op)
<1>9. DOMAIN operand[k] = 1 .. m /\ \A i \in 1 .. m : operand[k][i] = place[ins[i]]
  BY <1>6, <1>7
<1>10. \A s : (\E i \in DOMAIN operand[k] : operand[k][i] = s) <=> s \in OperandsOf(t, k)
  <2>1. \A s : (\E i \in 1 .. m : place[ins[i]] = s) <=> s \in OperandsOf(t, k)
    BY <1>1, <1>8
  <2>. HIDE DEF m, ins
  <2>. QED BY <1>9, <2>1
<1>11. arity(t.ops[k]) = m /\ m \in Nat
  BY <1>2, <1>7
<1>. HIDE DEF m, ins
<1>. QED BY <1>9, <1>10, <1>11 DEF operand

\* The successor map of a compiled tape is exact.
LEMMA SuccessorsLaid ==
  ASSUME NEW c, NEW t, NEW level, NEW sch, NEW place, TapeFor(c, t, level, sch, place)
  PROVE  SuccessorsExact(t)
<1>. DEFINE n == Len(c.insts)
            inst == Placed(c, sch)
            gates == GatesIn(c, inst)
            operand == OperandSlots(c, inst, place)
            rows == SuccessorRows(n, gates, operand)
<1>1. n \in Nat /\ Slots(t) = 1 .. n /\ gates = GateSlots(t)
  <2>1. n \in Nat /\ Slots(t) = 1 .. n /\ slot_count(t) = n /\ t.gate_start \in 1 .. n + 1
        /\ \A k \in 1 .. n : k \in GateSlots(t) <=> IsGate(c.insts[sch[k]])
    BY GateRegion
  <2>2. \A k \in 1 .. n : k \in gates <=> IsGate(c.insts[sch[k]])
    BY DEF GatesIn, Placed
  <2>3. gates \subseteq 1 .. n
    BY DEF GatesIn
  <2>4. GateSlots(t) \subseteq 1 .. n
    <3>. HIDE DEF n
    <3>. QED BY <2>1 DEF GateSlots
  <2>. HIDE DEF gates, n
  <2>. QED BY <2>1, <2>2, <2>3, <2>4
<1>2. Laid(c, t, level, sch, place, inst, operand, rows)
  BY DEF TapeFor, Lays
<1>3. \A k \in gates : /\ DOMAIN operand[k] = 1 .. arity(t.ops[k]) /\ arity(t.ops[k]) \in Nat
                       /\ \A s : (\E i \in DOMAIN operand[k] : operand[k][i] = s) <=> s \in OperandsOf(t, k)
  BY <1>1, OperandRow
<1>4. gates \subseteq 1 .. n
  BY DEF GatesIn
<1>. HIDE DEF operand, inst, gates
<1>5. Dependents(n, gates, operand, rows)
  <2>1. \A g \in gates : \E m \in Nat : DOMAIN operand[g] = 1 .. m
    BY <1>3
  <2>. HIDE DEF n
  <2>. QED BY <1>1, <1>4, <2>1, RowsExact
<1>. HIDE DEF rows
<1>6. t.succ = FlattenSeq(rows)
      /\ t.succ_offsets = [s \in 1 .. n + 1 |-> Len(FlattenSeq(SubSeq(rows, 1, s - 1)))]
  BY <1>2 DEF Laid
<1>. HIDE DEF n
<1>7. Flattened(n, rows)
  BY <1>1, <1>5, FlattenParts DEF Dependents
<1>8. ASSUME NEW s \in 1 .. n PROVE successors(t, s) = {g \in gates : s \in OperandsOf(t, g)}
  <2>1. s \in 1 .. n + 1 /\ s + 1 \in 1 .. n + 1 /\ (s + 1) - 1 = s
    BY <1>1
  <2>2. t.succ_offsets[s] = Len(FlattenSeq(SubSeq(rows, 1, s - 1)))
        /\ t.succ_offsets[s + 1] = Len(FlattenSeq(SubSeq(rows, 1, s)))
    BY <1>6, <2>1
  <2>3. {FlattenSeq(rows)[i] : i \in Len(FlattenSeq(SubSeq(rows, 1, s - 1))) + 1
                                        .. Len(FlattenSeq(SubSeq(rows, 1, s)))}
          = {rows[s][j] : j \in 1 .. Len(rows[s])}
    BY <1>7 DEF Flattened
  <2>5. successors(t, s) = {FlattenSeq(rows)[i] : i \in Len(FlattenSeq(SubSeq(rows, 1, s - 1))) + 1
                                                        .. Len(FlattenSeq(SubSeq(rows, 1, s)))}
    BY <1>6, <2>2 DEF successors
  <2>4. {g \in gates : \E i \in DOMAIN operand[g] : operand[g][i] = s} = {g \in gates : s \in OperandsOf(t, g)}
    BY <1>3
  <2>. QED BY <1>5, <2>3, <2>4, <2>5 DEF Dependents
<1>. QED BY <1>1, <1>8 DEF SuccessorsExact

-----------------------------------------------------------------------------
(* The sources and the contract.                                           *)

\* The slot of an input or of a register is the one that holds it.
LEMMA SourceSlot ==
  ASSUME NEW c, NEW t, NEW level, NEW sch, NEW place, TapeFor(c, t, level, sch, place),
         NEW source \in Source(c)
  PROVE  LET slot == SlotWith(c, Placed(c, sch), source) IN
         /\ slot \in Sources(t) /\ slot \in 1 .. Len(c.insts) /\ c.insts[sch[slot]] = source
<1>. DEFINE n == Len(c.insts)
            inst == Placed(c, sch)
            slot == SlotWith(c, inst, source)
<1>1. PICK s \in 1 .. n : c.insts[s] = source
  BY DEF TapeFor, SourcesOnce, Insts
<1>2. place[s] \in 1 .. n /\ sch[place[s]] = s
  BY DEF TapeFor, Scheduled
<1>3. \A k \in 1 .. n : inst[k] = c.insts[sch[k]]
  BY DEF Placed
<1>. HIDE DEF inst
<1>4. inst[place[s]] = source
  BY <1>1, <1>2, <1>3
<1>5. slot \in 1 .. n /\ inst[slot] = source
  BY <1>2, <1>4 DEF SlotWith
<1>. HIDE DEF slot
<1>6. ~IsGate(source)
  BY DEF Source, Input, RegisterOutput, IsGate
<1>7. slot \in Slots(t) /\ slot \notin GateSlots(t)
  BY <1>3, <1>5, <1>6, GateRegion
<1>. QED BY <1>3, <1>5, <1>7 DEF Sources, slot, inst

\* The fields of the tape that list slots.
Listed(c, t, sch, place, consts) ==
  /\ \A k \in DOMAIN consts : /\ consts[k] \in 1 .. Len(c.insts) /\ consts[k] \in Sources(t)
                              /\ c.insts[sch[consts[k]]].kind = "Const"
                              /\ c.insts[sch[consts[k]]].value \in BOOLEAN
                              /\ \A j \in DOMAIN consts : consts[j] = consts[k] => j = k
  /\ consts \in Seq(Nat) /\ \A k \in 1 .. Len(c.insts) :
       c.insts[sch[k]].kind = "Const" => \E j \in DOMAIN consts : consts[j] = k
  /\ t.const_slots = [k \in DOMAIN consts |-> <<consts[k], c.insts[sch[consts[k]]].value>>]

\* The constants of the tape are those of the circuit.
LEMMA ConstSlots ==
  ASSUME NEW c, NEW t, NEW level, NEW sch, NEW place, TapeFor(c, t, level, sch, place)
  PROVE  \E consts : Listed(c, t, sch, place, consts)
<1>. DEFINE n == Len(c.insts)
            inst == Placed(c, sch)
            operand == OperandSlots(c, inst, place)
            rows == SuccessorRows(n, GatesIn(c, inst), operand)
            S == {slot \in 1 .. n : inst[slot].kind = "Const"}
            consts == Ascending(S)
<1>1. n \in Nat
  BY GateRegion
<1>2. Laid(c, t, level, sch, place, inst, operand, rows)
  BY DEF TapeFor, Lays
<1>3. \A k \in 1 .. n : inst[k] = c.insts[sch[k]]
  BY DEF Placed
<1>. HIDE DEF inst, operand, rows
<1>4. t.const_slots = [k \in DOMAIN consts |-> <<consts[k], inst[consts[k]].value>>]
  BY <1>2 DEF Laid
<1>5. S \subseteq 1 .. n /\ \A k \in 1 .. n : k \in S <=> c.insts[sch[k]].kind = "Const"
  BY <1>3
<1>. HIDE DEF S
<1>. HIDE DEF n
<1>6. S \in SUBSET Nat /\ IsFiniteSet(S)
  <2>1. IsFiniteSet(1 .. n)
    BY <1>1, FS_Interval
  <2>2. 1 .. n \subseteq Nat /\ S \subseteq 1 .. n
    BY <1>5
  <2>3. IsFiniteSet(S)
    BY <2>1, <2>2, FS_Subset
  <2>. QED BY <2>2, <2>3
<1>7. /\ consts \in [1 .. Cardinality(S) -> S] /\ Cardinality(S) \in Nat
      /\ \A k \in 1 .. Cardinality(S) : Rank(S)[consts[k]] = k
      /\ \A x \in S : consts[Rank(S)[x]] = x /\ Rank(S)[x] \in 1 .. Cardinality(S)
  <2>1. Ascends(S)
    BY <1>6, AscendingOrder
  <2>2. Cardinality(S) \in Nat
    BY <1>6, FS_CardinalityType
  <2>. QED BY <2>1, <2>2 DEF Ascends, Numbered
<1>. HIDE DEF consts
<1>8. ASSUME NEW k \in DOMAIN consts
      PROVE  /\ consts[k] \in 1 .. n /\ consts[k] \in Sources(t)
             /\ c.insts[sch[consts[k]]].kind = "Const" /\ c.insts[sch[consts[k]]].value \in BOOLEAN
             /\ inst[consts[k]] = c.insts[sch[consts[k]]]
             /\ \A j \in DOMAIN consts : consts[j] = consts[k] => j = k
  <2>. DEFINE s == consts[k]
              i == c.insts[sch[s]]
  <2>1. s \in S /\ s \in 1 .. n
    BY <1>5, <1>7
  <2>2. i.kind = "Const"
    BY <1>5, <2>1
  <2>3. i \in Instructions(c)
    BY <2>1, SlotFacts DEF n
  <2>4. i.value \in BOOLEAN
    <3>. HIDE DEF i
    <3>. QED BY <2>2, <2>3, Kinds
  <2>5. ~IsGate(i)
    BY <2>2 DEF IsGate
  <2>6. s \in Sources(t)
    BY <2>1, <2>5, GateRegion DEF Sources, n
  <2>7. \A j \in DOMAIN consts : consts[j] = consts[k] => j = k
    BY <1>7
  <2>. QED BY <1>3, <2>1, <2>2, <2>4, <2>6, <2>7
<1>9. consts \in Seq(Nat)
  <2>. DEFINE m == Cardinality(S)
  <2>1. consts \in [1 .. m -> Nat] /\ m \in Nat
    BY <1>6, <1>7
  <2>. HIDE DEF m
  <2>. QED BY <2>1
<1>10. \A k \in 1 .. n : c.insts[sch[k]].kind = "Const" => \E j \in DOMAIN consts : consts[j] = k
  BY <1>5, <1>7
<1>11. t.const_slots = [k \in DOMAIN consts |-> <<consts[k], c.insts[sch[consts[k]]].value>>]
  BY <1>4, <1>8
<1>12. Listed(c, t, sch, place, consts)
  BY <1>8, <1>9, <1>10, <1>11 DEF Listed, n
<1>. QED BY <1>12

\* The fields of the tape that name sources, registers and outputs.
Wired(c, t, sch, place) ==
  /\ t.input_slots = [i \in 1 .. c.input_count |-> SlotWith(c, Placed(c, sch), Input(i))]
  /\ t.reg_out_slots = [r \in 1 .. Len(c.regs) |-> SlotWith(c, Placed(c, sch), RegisterOutput(r))]
  /\ t.reg_in_slots = [r \in 1 .. Len(c.regs) |-> place[c.regs[r].data]]
  /\ t.reg_initial = [r \in 1 .. Len(c.regs) |-> c.regs[r].initial]
  /\ t.output_slots = [o \in 1 .. Len(c.outputs) |-> place[c.outputs[o]]]
  /\ InputIds(t) = 1 .. c.input_count /\ c.input_count \in Nat /\ Len(t.input_slots) \in Nat
  /\ Registers(t) = 1 .. Len(c.regs) /\ Len(c.regs) \in Nat /\ Len(t.reg_out_slots) \in Nat
  /\ OutputIds(t) = 1 .. Len(c.outputs) /\ Len(c.outputs) \in Nat /\ Len(t.output_slots) \in Nat
  /\ \A r \in 1 .. Len(c.regs) : c.regs[r].data \in 1 .. Len(c.insts) /\ c.regs[r].initial \in BOOLEAN
  /\ \A o \in 1 .. Len(c.outputs) : c.outputs[o] \in 1 .. Len(c.insts)
  /\ \A i \in 1 .. c.input_count : Input(i) \in Source(c)
  /\ \A r \in 1 .. Len(c.regs) : RegisterOutput(r) \in Source(c)

\* The tape is wired to its circuit.
LEMMA TapeWired ==
  ASSUME NEW c, NEW t, NEW level, NEW sch, NEW place, TapeFor(c, t, level, sch, place)
  PROVE  Wired(c, t, sch, place)
<1>. DEFINE inst == Placed(c, sch)
            operand == OperandSlots(c, inst, place)
            rows == SuccessorRows(Len(c.insts), GatesIn(c, inst), operand)
<1>1. Laid(c, t, level, sch, place, inst, operand, rows)
  BY DEF TapeFor, Lays
<1>. HIDE DEF inst, operand, rows
<1>2. /\ c.input_count \in Nat /\ Len(c.regs) \in Nat /\ Len(c.outputs) \in Nat
      /\ DOMAIN c.regs = 1 .. Len(c.regs) /\ DOMAIN c.outputs = 1 .. Len(c.outputs)
      /\ \A r \in 1 .. Len(c.regs) : c.regs[r].data \in 1 .. Len(c.insts) /\ c.regs[r].initial \in BOOLEAN
      /\ \A o \in 1 .. Len(c.outputs) : c.outputs[o] \in 1 .. Len(c.insts)
  BY DEF TapeFor, Circuit
<1>3. /\ \A i \in 1 .. c.input_count : Input(i) \in Source(c)
      /\ \A r \in 1 .. Len(c.regs) : RegisterOutput(r) \in Source(c)
  BY <1>2 DEF Source
<1>4. /\ t.input_slots = [i \in 1 .. c.input_count |-> SlotWith(c, inst, Input(i))]
      /\ t.reg_out_slots = [r \in 1 .. Len(c.regs) |-> SlotWith(c, inst, RegisterOutput(r))]
      /\ t.reg_in_slots = [r \in 1 .. Len(c.regs) |-> place[c.regs[r].data]]
      /\ t.reg_initial = [r \in 1 .. Len(c.regs) |-> c.regs[r].initial]
      /\ t.output_slots = [o \in 1 .. Len(c.outputs) |-> place[c.outputs[o]]]
  BY <1>1, <1>2 DEF Laid
<1>5. Len(t.input_slots) = c.input_count /\ Len(t.reg_out_slots) = Len(c.regs) /\ Len(t.output_slots) = Len(c.outputs)
  BY <1>2, <1>4
<1>. QED BY <1>2, <1>3, <1>4, <1>5 DEF Wired, InputIds, Registers, OutputIds, inst

\* The fields of a compiled tape are typed.
LEMMA TapeTyped ==
  ASSUME NEW c, NEW t, NEW level, NEW sch, NEW place, TapeFor(c, t, level, sch, place)
  PROVE  FieldsTyped(t)
<1>. DEFINE n == Len(c.insts)
            S == 1 .. n
            inst == Placed(c, sch)
            operand == OperandSlots(c, inst, place)
            rows == SuccessorRows(n, GatesIn(c, inst), operand)
<1>1. n \in Nat /\ Slots(t) = S /\ slot_count(t) = n /\ t.gate_start \in 1 .. n + 1
  BY GateRegion
<1>2. Laid(c, t, level, sch, place, inst, operand, rows)
  BY DEF TapeFor, Lays
<1>3. /\ t.a = [k \in S |-> t.a[k]] /\ t.b = [k \in S |-> t.b[k]] /\ t.c = [k \in S |-> t.c[k]]
      /\ t.ops = [k \in S |-> t.ops[k]] /\ t.slot_level = [k \in S |-> t.slot_level[k]]
  <2>. HIDE DEF inst, operand, rows
  <2>. QED BY <1>2 DEF Laid, Nth
<1>4. ASSUME NEW k \in S
      PROVE  t.ops[k] \in GateOp /\ t.a[k] \in S /\ t.b[k] \in S /\ t.c[k] \in S /\ t.slot_level[k] \in Nat
  <2>. DEFINE s == sch[k]
              i == c.insts[s]
              op == i.op
              ins == i.ins
  <2>1. /\ s \in S /\ t.slot_level[k] = level[s]
        /\ IsGate(i) => op \in GateOp /\ Reads(op, ins, s - 1) /\ GateLaid(c, t, place, k, op, ins)
        /\ ~IsGate(i) => t.ops[k] = "Buf" /\ t.a[k] = 1 /\ t.b[k] = 1 /\ t.c[k] = 1
    BY SlotFacts
  <2>2. 1 \in S /\ "Buf" \in GateOp
    BY <1>1 DEF GateOp, Unary
  <2>3. level[s] \in Nat
    BY <2>1 DEF TapeFor, Levels
  <2>4. \A x \in S : place[x] \in S
    BY DEF TapeFor, Scheduled
  <2>5. ASSUME IsGate(i)
        PROVE  t.ops[k] \in GateOp /\ t.a[k] \in S /\ t.b[k] \in S /\ t.c[k] \in S
    <3>1. op \in GateOp /\ Reads(op, ins, s - 1) /\ GateLaid(c, t, place, k, op, ins)
      BY <2>1, <2>5
    <3>2. arity(op) \in 1 .. 3
      BY <3>1, Arities
    <3>3. 1 .. s - 1 \subseteq S
      <4>. HIDE DEF n, s
      <4>. QED BY <1>1, <2>1
    <3>. HIDE DEF op, ins, s, S
    <3>4. \A j \in 1 .. arity(op) : place[ins[j]] \in S
      BY <2>4, <3>1, <3>3 DEF Reads
    <3>5. place[ins[1]] \in S /\ (arity(op) > 1 => place[ins[2]] \in S) /\ (arity(op) > 2 => place[ins[3]] \in S)
      BY <3>2, <3>4
    <3>. QED BY <2>2, <3>1, <3>5 DEF GateLaid
  <2>. HIDE DEF i
  <2>. QED BY <2>1, <2>2, <2>3, <2>5
<1>5. Wired(c, t, sch, place)
  BY TapeWired
<1>6. \A source \in Source(c) : SlotWith(c, Placed(c, sch), source) \in S
  BY SourceSlot
<1>7. /\ t.ops \in [S -> GateOp] /\ t.a \in [S -> S] /\ t.b \in [S -> S] /\ t.c \in [S -> S]
      /\ t.slot_level \in [S -> Nat]
  <2>. HIDE DEF S
  <2>. QED BY <1>3, <1>4
<1>8. /\ Len(t.input_slots) \in Nat /\ t.input_slots \in [InputIds(t) -> S]
      /\ Len(t.reg_out_slots) \in Nat /\ t.reg_out_slots \in [Registers(t) -> S]
  BY <1>5, <1>6 DEF Wired
<1>9. /\ t.reg_in_slots \in [Registers(t) -> S] /\ t.reg_initial \in [Registers(t) -> BOOLEAN]
      /\ Len(t.output_slots) \in Nat /\ t.output_slots \in [OutputIds(t) -> S]
  <2>1. \A x \in S : place[x] \in S
    BY DEF TapeFor, Scheduled
  <2>. QED BY <1>5, <2>1 DEF Wired
<1>10. Len(t.const_slots) \in Nat /\ t.const_slots \in [1 .. Len(t.const_slots) -> S \X BOOLEAN]
  <2>1. PICK consts : Listed(c, t, sch, place, consts)
    BY ConstSlots
  <2>. DEFINE m == Len(consts)
              value(k) == c.insts[sch[consts[k]]].value
  <2>2. m \in Nat /\ DOMAIN consts = 1 .. m
    BY <2>1 DEF Listed
  <2>3. t.const_slots = [k \in DOMAIN consts |-> <<consts[k], value(k)>>]
        /\ \A k \in DOMAIN consts : consts[k] \in S /\ value(k) \in BOOLEAN
    BY <2>1 DEF Listed
  <2>. HIDE DEF value, m, S
  <2>4. t.const_slots = [k \in 1 .. m |-> <<consts[k], value(k)>>]
    BY <2>2, <2>3
  <2>5. Len(t.const_slots) = m
    BY <2>2, <2>4
  <2>. QED BY <2>2, <2>3, <2>4, <2>5
<1>. HIDE DEF S
<1>. QED BY <1>1, <1>7, <1>8, <1>9, <1>10 DEF FieldsTyped

\* The operand validation holds of a compiled tape.
LEMMA OperandsValid ==
  ASSUME NEW c, NEW t, NEW level, NEW sch, NEW place, TapeFor(c, t, level, sch, place)
  PROVE  OperandsBelow(t)
<1>1. SUFFICES ASSUME NEW g \in GateSlots(t), NEW s \in OperandsOf(t, g)
               PROVE  s < g /\ t.slot_level[s] < t.slot_level[g]
  BY DEF OperandsBelow
<1>2. PICK x \in Operands(c.insts[sch[g]]) : s = place[x]
  BY GateOperands
<1>3. /\ g \in 1 .. Len(c.insts) /\ x \in 1 .. Len(c.insts) /\ place[x] \in 1 .. Len(c.insts)
      /\ place[x] < g /\ level[x] < level[sch[g]]
  BY <1>2, GateOperands
<1>4. t.slot_level[g] = level[sch[g]] /\ t.slot_level[s] = level[sch[s]]
  BY <1>2, <1>3, SlotFacts
<1>5. sch[place[x]] = x
  BY <1>3 DEF TapeFor, Scheduled
<1>. QED BY <1>2, <1>3, <1>4, <1>5

\* Sources of a compiled tape are distinct slots before the gates.
LEMMA SourcesApart ==
  ASSUME NEW c, NEW t, NEW level, NEW sch, NEW place, TapeFor(c, t, level, sch, place)
  PROVE  SourcesDisjoint(t)
<1>. DEFINE holds(slot) == c.insts[sch[slot]]
<1>1. Wired(c, t, sch, place)
  BY TapeWired
<1>2. PICK consts : Listed(c, t, sch, place, consts)
  BY ConstSlots
<1>3. ASSUME NEW i \in InputIds(t)
      PROVE  t.input_slots[i] \in Sources(t) /\ holds(t.input_slots[i]) = Input(i)
  BY <1>1, <1>3, SourceSlot DEF Wired
<1>4. ASSUME NEW r \in Registers(t)
      PROVE  t.reg_out_slots[r] \in Sources(t) /\ holds(t.reg_out_slots[r]) = RegisterOutput(r)
  BY <1>1, <1>4, SourceSlot DEF Wired
<1>5. DOMAIN t.const_slots = DOMAIN consts /\ \A k \in DOMAIN consts : t.const_slots[k][1] = consts[k]
  BY <1>2 DEF Listed
<1>6. \A k \in DOMAIN consts : /\ consts[k] \in Sources(t) /\ holds(consts[k]).kind = "Const"
                               /\ \A j \in DOMAIN consts : consts[j] = consts[k] => j = k
  BY <1>2 DEF Listed
<1>. HIDE DEF holds
<1>7. \A i, j : Input(i) = Input(j) => i = j
  <2>1. ASSUME NEW i, NEW j, Input(i) = Input(j) PROVE i = j
    <3>1. Input(i).index = i /\ Input(j).index = j
      BY DEF Input
    <3>. QED BY <2>1, <3>1
  <2>. QED BY <2>1
<1>8. \A q, r : RegisterOutput(q) = RegisterOutput(r) => q = r
  <2>1. ASSUME NEW q, NEW r, RegisterOutput(q) = RegisterOutput(r) PROVE q = r
    <3>1. RegisterOutput(q).reg = q /\ RegisterOutput(r).reg = r
      BY DEF RegisterOutput
    <3>. QED BY <2>1, <3>1
  <2>. QED BY <2>1
<1>9. \A i : Input(i).kind = "Input" /\ RegisterOutput(i).kind = "RegisterOutput"
  BY DEF Input, RegisterOutput
<1>10. \A i, j \in InputIds(t) : t.input_slots[i] = t.input_slots[j] => i = j
  BY <1>3, <1>7
<1>11. \A q, r \in Registers(t) : t.reg_out_slots[q] = t.reg_out_slots[r] => q = r
  BY <1>4, <1>8
<1>12. \A j, k \in DOMAIN t.const_slots : t.const_slots[j][1] = t.const_slots[k][1] => j = k
  BY <1>5, <1>6
<1>13. \A i \in InputIds(t), r \in Registers(t) : t.input_slots[i] # t.reg_out_slots[r]
  BY <1>3, <1>4, <1>9
<1>14. \A k \in DOMAIN t.const_slots :
         /\ \A i \in InputIds(t) : t.input_slots[i] # t.const_slots[k][1]
         /\ \A r \in Registers(t) : t.reg_out_slots[r] # t.const_slots[k][1]
  BY <1>3, <1>4, <1>5, <1>6, <1>9
<1>. QED BY <1>3, <1>4, <1>5, <1>6, <1>10, <1>11, <1>12, <1>13, <1>14 DEF SourcesDisjoint

\* Only one slot holds a source.
LEMMA OneSlot ==
  ASSUME NEW c, NEW t, NEW level, NEW sch, NEW place, TapeFor(c, t, level, sch, place),
         NEW source \in Source(c), NEW k \in 1 .. Len(c.insts), c.insts[sch[k]] = source
  PROVE  SlotWith(c, Placed(c, sch), source) = k
<1>. DEFINE n == Len(c.insts)
            slot == SlotWith(c, Placed(c, sch), source)
<1>1. slot \in 1 .. n /\ c.insts[sch[slot]] = source
  BY SourceSlot
<1>2. PICK s \in 1 .. n : {x \in 1 .. n : c.insts[x] = source} = {s}
  BY DEF TapeFor, SourcesOnce, Insts
<1>. HIDE DEF slot
<1>3. sch[slot] \in 1 .. n /\ sch[k] \in 1 .. n /\ place[sch[slot]] = slot /\ place[sch[k]] = k
  BY <1>1 DEF TapeFor, Scheduled
<1>. HIDE DEF n
<1>4. sch[slot] = s /\ sch[k] = s
  BY <1>1, <1>2, <1>3
<1>. QED BY <1>3, <1>4 DEF slot

\* Every slot before the gates holds an input, a register's output or a constant.
LEMMA SourcesAll ==
  ASSUME NEW c, NEW t, NEW level, NEW sch, NEW place, TapeFor(c, t, level, sch, place)
  PROVE  SourcesNamed(t)
<1>1. Wired(c, t, sch, place)
  BY TapeWired
<1>2. PICK consts : Listed(c, t, sch, place, consts)
  BY ConstSlots
<1>3. ASSUME NEW s \in Sources(t)
      PROVE  /\ t.ops[s] = "Buf"
             /\ \/ \E i \in InputIds(t) : t.input_slots[i] = s
                \/ \E r \in Registers(t) : t.reg_out_slots[r] = s
                \/ \E k \in DOMAIN t.const_slots : t.const_slots[k][1] = s
  <2>. DEFINE inst == c.insts[sch[s]]
  <2>1. s \in 1 .. Len(c.insts) /\ ~IsGate(inst)
    BY <1>3, GateRegion DEF Sources
  <2>2. t.ops[s] = "Buf" /\ inst \in Instructions(c)
    BY <2>1, SlotFacts
  <2>3. \A source \in Source(c) : inst = source => SlotWith(c, Placed(c, sch), source) = s
    BY <2>1, OneSlot
  <2>. HIDE DEF inst
  <2>4. CASE inst.kind = "Const"
    <3>1. PICK j \in DOMAIN consts : consts[j] = s
      BY <1>2, <2>1, <2>4 DEF Listed, inst
    <3>2. j \in DOMAIN t.const_slots /\ t.const_slots[j][1] = s
      BY <1>2, <3>1 DEF Listed
    <3>. QED BY <2>2, <3>2
  <2>5. CASE inst.kind = "Input"
    <3>1. PICK i \in 1 .. c.input_count : inst = Input(i)
      BY <2>2, <2>5 DEF Instructions, Input
    <3>2. i \in InputIds(t) /\ t.input_slots[i] = s
      BY <1>1, <2>3, <3>1 DEF Wired
    <3>. QED BY <2>2, <3>2
  <2>6. CASE inst.kind = "RegisterOutput"
    <3>1. PICK r \in DOMAIN c.regs : inst = RegisterOutput(r)
      BY <2>2, <2>6 DEF Instructions, RegisterOutput
    <3>2. r \in 1 .. Len(c.regs)
      BY <3>1 DEF TapeFor, Circuit
    <3>3. r \in Registers(t) /\ t.reg_out_slots[r] = s
      BY <1>1, <2>3, <3>1, <3>2 DEF Wired
    <3>. QED BY <2>2, <3>3
  <2>7. inst.kind \in {"Const", "Input", "RegisterOutput", "Gate"} /\ inst.kind # "Gate"
    BY <2>1, <2>2 DEF Instructions, IsGate, inst
  <2>. QED BY <2>4, <2>5, <2>6, <2>7
<1>. QED BY <1>3 DEF SourcesNamed

\* Compiling a circuit gives a tape that the engines can run.
LEMMA CompiledContract ==
  ASSUME NEW c, Circuit(c), SourcesOnce(c)
  PROVE  TapeContract(Compiled(c))
<1>1. PICK level, sch, place : TapeFor(c, Compiled(c), level, sch, place)
  BY CompiledLays
<1>. QED BY <1>1, TapeTyped, OperandsValid, SuccessorsLaid, SourcesApart, SourcesAll DEF TapeContract

-----------------------------------------------------------------------------
(* What a settled tape computes.                                           *)

\* A settled buffer holds the constants, the inputs and the register state.
Holds(t, v, e) ==
  /\ v \in Buffers(t) /\ ConstsHeld(t, v) /\ Settled(t, v)
  /\ \A i \in InputIds(t) : v[t.input_slots[i]] = e.inputs[i]
  /\ \A r \in Registers(t) : v[t.reg_out_slots[r]] = e.state[r]

\* The value in a slot is that of its instruction, given the values of the
\* signals in their slots.
LEMMA SlotValue ==
  ASSUME NEW c, NEW t, NEW level, NEW sch, NEW place, TapeFor(c, t, level, sch, place),
         NEW e, NEW v, Holds(t, v, e), NEW w, w = [s \in 1 .. Len(c.insts) |-> v[place[s]]],
         NEW k \in 1 .. Len(c.insts)
  PROVE  v[k] \in BOOLEAN /\ v[k] = InstValue(c.insts[sch[k]], w, e.inputs, e.state)
<1>. DEFINE s == sch[k]
            i == c.insts[s]
            value == InstValue(i, w, e.inputs, e.state)
<1>1. /\ s \in 1 .. Len(c.insts) /\ place[s] = k /\ i \in Instructions(c)
      /\ IsGate(i) => i.op \in GateOp /\ Reads(i.op, i.ins, s - 1) /\ GateLaid(c, t, place, k, i.op, i.ins)
  BY SlotFacts
<1>2. v[k] \in BOOLEAN
  BY GateRegion DEF Holds, Buffers
<1>3. Wired(c, t, sch, place)
  BY TapeWired
<1>4. CASE i.kind = "Const"
  <2>1. PICK consts : Listed(c, t, sch, place, consts)
    BY ConstSlots
  <2>2. PICK j \in DOMAIN consts : consts[j] = k
    BY <1>4, <2>1 DEF Listed
  <2>3. t.const_slots[j] = <<k, i.value>> /\ j \in DOMAIN t.const_slots
    BY <2>1, <2>2 DEF Listed
  <2>4. v[k] = i.value
    <3>1. t.const_slots[j][1] = k /\ t.const_slots[j][2] = i.value
      BY <2>3
    <3>. QED BY <2>3, <3>1 DEF Holds, ConstsHeld
  <2>5. value = i.value
    BY <1>4, SourceValue
  <2>. QED BY <1>2, <2>4, <2>5
<1>5. CASE i.kind = "Input"
  <2>1. i = Input(i.index) /\ i.index \in 1 .. c.input_count
    BY <1>1, <1>5, Kinds
  <2>2. Input(i.index) \in Source(c) /\ i.index \in InputIds(t)
        /\ t.input_slots[i.index] = SlotWith(c, Placed(c, sch), Input(i.index))
    BY <1>3, <2>1 DEF Wired
  <2>3. SlotWith(c, Placed(c, sch), Input(i.index)) = k
    <3>. DEFINE source == Input(i.index)
    <3>1. c.insts[sch[k]] = source /\ source \in Source(c)
      BY <2>1, <2>2
    <3>. HIDE DEF source
    <3>2. SlotWith(c, Placed(c, sch), source) = k
      BY <3>1, OneSlot
    <3>. QED BY <3>2 DEF source
  <2>4. v[k] = e.inputs[i.index]
    BY <2>2, <2>3 DEF Holds
  <2>5. value = e.inputs[i.index]
    BY <1>5, SourceValue
  <2>. QED BY <1>2, <2>4, <2>5
<1>6. CASE i.kind = "RegisterOutput"
  <2>1. i = RegisterOutput(i.reg) /\ i.reg \in 1 .. Len(c.regs)
    <3>1. DOMAIN c.regs = 1 .. Len(c.regs)
      BY DEF TapeFor, Circuit
    <3>. QED BY <1>1, <1>6, <3>1, Kinds
  <2>2. RegisterOutput(i.reg) \in Source(c) /\ i.reg \in Registers(t)
        /\ t.reg_out_slots[i.reg] = SlotWith(c, Placed(c, sch), RegisterOutput(i.reg))
    BY <1>3, <2>1 DEF Wired
  <2>3. SlotWith(c, Placed(c, sch), RegisterOutput(i.reg)) = k
    <3>. DEFINE source == RegisterOutput(i.reg)
    <3>1. c.insts[sch[k]] = source /\ source \in Source(c)
      BY <2>1, <2>2
    <3>. HIDE DEF source
    <3>2. SlotWith(c, Placed(c, sch), source) = k
      BY <3>1, OneSlot
    <3>. QED BY <3>2 DEF source
  <2>4. v[k] = e.state[i.reg]
    BY <2>2, <2>3 DEF Holds
  <2>5. value = e.state[i.reg]
    BY <1>6, SourceValue
  <2>. QED BY <1>2, <2>4, <2>5
<1>7. CASE IsGate(i)
  <2>. DEFINE op == i.op
              ins == i.ins
  <2>1. op \in GateOp /\ Reads(op, ins, s - 1) /\ GateLaid(c, t, place, k, op, ins) /\ arity(op) \in 1 .. 3
    BY <1>1, <1>7, Arities
  <2>2. k \in GateSlots(t)
    BY <1>7, GateRegion
  <2>3. v[k] = eval_gate(t, v, k)
    BY <2>2 DEF Holds, Settled
  <2>4. Applied(op, ins, w, value)
    BY <1>7, <2>1, GateValue
  <2>5. \A j \in 1 .. arity(op) : w[ins[j]] = v[place[ins[j]]]
    <3>1. 1 .. s - 1 \subseteq 1 .. Len(c.insts)
      <4>1. Len(c.insts) \in Nat
        BY GateRegion
      <4>. HIDE DEF s
      <4>. QED BY <1>1, <4>1
    <3>2. \A j \in 1 .. arity(op) : ins[j] \in 1 .. Len(c.insts)
      BY <2>1, <3>1 DEF Reads
    <3>. HIDE DEF op, ins
    <3>. QED BY <3>2
  <2>. DEFINE x == t.a[k]
              y == t.b[k]
              z == t.c[k]
  <2>6. /\ t.ops[k] = op /\ x = place[ins[1]]
        /\ arity(op) > 1 => y = place[ins[2]]
        /\ arity(op) > 2 => z = place[ins[3]]
    BY <2>1 DEF GateLaid
  <2>7. eval_gate(t, v, k) = Apply(op, v[x], IF arity(op) > 1 THEN v[y] ELSE FALSE,
                                             IF arity(op) > 2 THEN v[z] ELSE FALSE)
    BY <2>6 DEF eval_gate
  <2>. HIDE DEF op, ins, value, x, y, z
  <2>8. CASE arity(op) = 1
    <3>1. value = Apply(op, w[ins[1]], FALSE, FALSE) /\ w[ins[1]] = v[x]
      BY <2>4, <2>5, <2>6, <2>8 DEF Applied
    <3>2. eval_gate(t, v, k) = Apply(op, v[x], FALSE, FALSE)
      BY <2>7, <2>8
    <3>. QED BY <1>2, <2>3, <3>1, <3>2 DEF value
  <2>9. CASE arity(op) = 2
    <3>1. value = Apply(op, w[ins[1]], w[ins[2]], FALSE) /\ w[ins[1]] = v[x] /\ w[ins[2]] = v[y]
      BY <2>4, <2>5, <2>6, <2>9 DEF Applied
    <3>2. eval_gate(t, v, k) = Apply(op, v[x], v[y], FALSE)
      BY <2>7, <2>9
    <3>. QED BY <1>2, <2>3, <3>1, <3>2 DEF value
  <2>10. CASE arity(op) = 3
    <3>1. value = Apply(op, w[ins[1]], w[ins[2]], w[ins[3]])
          /\ w[ins[1]] = v[x] /\ w[ins[2]] = v[y] /\ w[ins[3]] = v[z]
      BY <2>4, <2>5, <2>6, <2>10 DEF Applied
    <3>2. eval_gate(t, v, k) = Apply(op, v[x], v[y], v[z])
      BY <2>7, <2>10
    <3>. QED BY <1>2, <2>3, <3>1, <3>2 DEF value
  <2>. QED BY <2>1, <2>8, <2>9, <2>10
<1>. HIDE DEF i, s
<1>. QED BY <1>1, <1>4, <1>5, <1>6, <1>7, Kinds DEF IsGate, i, s

\* A settled tape computes what the interpreter computes on its circuit.
LEMMA SettledTape ==
  ASSUME NEW c, NEW t, NEW level, NEW sch, NEW place, TapeFor(c, t, level, sch, place),
         NEW e, Environment(c, e), NEW v, Holds(t, v, e)
  PROVE  [state |-> capture_next(t, v), outputs |-> OutputsOf(t, v)] = InterpTick(c, e.inputs, e.state)
<1>. DEFINE n == Len(c.insts)
            w == [s \in 1 .. n |-> v[place[s]]]
            u == InterpValues(c, e.inputs, e.state)
<1>1. n \in Nat /\ c.insts \in NodesOf(c)
  BY GateRegion DEF TapeFor, Circuit
<1>2. Consistent(c.insts, w, e)
  <2>1. ASSUME NEW s \in 1 .. n
        PROVE  w[s] \in BOOLEAN /\ w[s] = InstValue(c.insts[s], w, e.inputs, e.state)
    <3>1. place[s] \in 1 .. n /\ sch[place[s]] = s /\ w[s] = v[place[s]]
      BY DEF TapeFor, Scheduled
    <3>2. w = [x \in 1 .. Len(c.insts) |-> v[place[x]]]
      OBVIOUS
    <3>. HIDE DEF w
    <3>3. /\ v[place[s]] \in BOOLEAN
          /\ v[place[s]] = InstValue(c.insts[sch[place[s]]], w, e.inputs, e.state)
      BY <3>1, <3>2, SlotValue
    <3>. QED BY <3>1, <3>3
  <2>. HIDE DEF w
  <2>. QED BY <2>1 DEF Consistent
<1>3. Consistent(c.insts, u, e)
  BY <1>1, InterpConsistent
<1>4. \A s \in 1 .. n : u[s] = v[place[s]]
  <2>1. \A s \in 1 .. n : w[s] = u[s]
    <3>. HIDE DEF u, w
    <3>. QED BY <1>1, <1>2, <1>3, ConsistentUnique
  <2>. HIDE DEF u
  <2>. QED BY <2>1
<1>5. InterpTick(c, e.inputs, e.state) = [state   |-> [r \in DOMAIN c.regs |-> u[c.regs[r].data]],
                                          outputs |-> [o \in DOMAIN c.outputs |-> u[c.outputs[o]]]]
  BY DEF InterpTick
<1>. HIDE DEF u, n
<1>6. Wired(c, t, sch, place) /\ DOMAIN c.regs = 1 .. Len(c.regs) /\ DOMAIN c.outputs = 1 .. Len(c.outputs)
  BY TapeWired DEF TapeFor, Circuit
<1>7. capture_next(t, v) = [r \in DOMAIN c.regs |-> u[c.regs[r].data]]
  <2>1. ASSUME NEW r \in 1 .. Len(c.regs) PROVE v[t.reg_in_slots[r]] = u[c.regs[r].data]
    <3>. DEFINE data == c.regs[r].data
    <3>1. t.reg_in_slots[r] = place[data] /\ data \in 1 .. n
      BY <1>6 DEF Wired, n
    <3>. HIDE DEF data
    <3>2. u[data] = v[place[data]]
      BY <1>4, <3>1
    <3>. QED BY <3>1, <3>2 DEF data
  <2>2. Registers(t) = DOMAIN c.regs
    BY <1>6 DEF Wired
  <2>. QED BY <1>6, <2>1, <2>2 DEF capture_next
<1>8. OutputsOf(t, v) = [o \in DOMAIN c.outputs |-> u[c.outputs[o]]]
  <2>1. ASSUME NEW o \in 1 .. Len(c.outputs) PROVE v[t.output_slots[o]] = u[c.outputs[o]]
    <3>. DEFINE data == c.outputs[o]
    <3>1. t.output_slots[o] = place[data] /\ data \in 1 .. n
      BY <1>6 DEF Wired, n
    <3>. HIDE DEF data
    <3>2. u[data] = v[place[data]]
      BY <1>4, <3>1
    <3>. QED BY <3>1, <3>2 DEF data
  <2>2. OutputIds(t) = DOMAIN c.outputs
    BY <1>6 DEF Wired
  <2>. QED BY <1>6, <2>1, <2>2 DEF OutputsOf
<1>. QED BY <1>5, <1>7, <1>8

\* Compiling an optimized circuit keeps the meaning of the circuit.
LEMMA CompiledValues ==
  ASSUME NEW c, Circuit(c), SourcesOnce(c), NEW e, Environment(c, e),
         NEW v, Holds(Compiled(optimize(c)), v, e)
  PROVE  LET t == Compiled(optimize(c)) IN
         [state |-> capture_next(t, v), outputs |-> OutputsOf(t, v)] = InterpTick(c, e.inputs, e.state)
<1>. DEFINE d == optimize(c)
            t == Compiled(d)
<1>1. Circuit(d) /\ SourcesOnce(d)
  BY OptimizedCircuit, OptimizeSources
<1>2. Environment(d, e)
  BY OptimizedCircuit DEF Environment
<1>3. InterpTick(d, e.inputs, e.state) = InterpTick(c, e.inputs, e.state)
  BY OptimizePreserves
<1>. HIDE DEF d
<1>4. PICK level, sch, place : TapeFor(d, t, level, sch, place)
  BY <1>1, CompiledLays
<1>5. Holds(t, v, e)
  BY DEF d
<1>. HIDE DEF t
<1>6. [state |-> capture_next(t, v), outputs |-> OutputsOf(t, v)] = InterpTick(d, e.inputs, e.state)
  BY <1>2, <1>4, <1>5, SettledTape
<1>. QED BY <1>3, <1>6 DEF t, d

-----------------------------------------------------------------------------
(* Segments.                                                               *)

\* The slots of lo .. n where key changes, in ascending order.
Cuts(gates, key) == {g \in gates : g - 1 \in gates => key[g - 1] # key[g]}

Cut(n, lo, key, starts, m) ==
  /\ m \in Nat /\ DOMAIN starts = 1 .. m /\ Len(starts) = m
  /\ \A k \in 1 .. m : starts[k] \in Cuts(lo .. n, key)
  /\ \A j, k \in 1 .. m : starts[j] < starts[k] <=> j < k
  /\ \A g \in Cuts(lo .. n, key) : \E k \in 1 .. m : starts[k] = g

\* Ascending lists them.
LEMMA CutsAscend ==
  ASSUME NEW n \in Nat, NEW lo \in 1 .. n + 1, NEW key
  PROVE  \E m : Cut(n, lo, key, Ascending(Cuts(lo .. n, key)), m)
<1>. DEFINE S == Cuts(lo .. n, key)
            starts == Ascending(S)
            m == Cardinality(S)
<1>1. S \subseteq lo .. n /\ lo .. n \in SUBSET Nat
  BY DEF Cuts
<1>2. IsFiniteSet(S)
  <2>1. lo \in Int /\ n \in Int
    OBVIOUS
  <2>2. IsFiniteSet(lo .. n)
    BY <2>1, FS_Interval
  <2>. HIDE DEF S
  <2>. QED BY <1>1, <2>2, FS_Subset
<1>. HIDE DEF S
<1>3. Ascends(S) /\ m \in Nat
  BY <1>1, <1>2, AscendingOrder, FS_CardinalityType
<1>4. /\ starts \in [1 .. m -> S] /\ Len(starts) = m
      /\ \A k \in 1 .. m : Rank(S)[starts[k]] = k
      /\ \A x \in S : starts[Rank(S)[x]] = x /\ Rank(S)[x] \in 1 .. m
      /\ \A x, y \in S : x < y <=> Rank(S)[x] < Rank(S)[y]
  BY <1>3 DEF Ascends, Numbered
<1>. HIDE DEF starts, m
<1>5. /\ \A k \in 1 .. m : starts[k] \in S
      /\ \A j, k \in 1 .. m : starts[j] < starts[k] <=> j < k
      /\ \A g \in S : \E k \in 1 .. m : starts[k] = g
  BY <1>4
<1>6. Cut(n, lo, key, starts, m)
  BY <1>3, <1>4, <1>5 DEF Cut, S
<1>. QED BY <1>6 DEF starts, S

\* The segments follow one another from lo to n, each with one key, a new one
\* wherever the key changes.
Segmented(n, lo, key, segs, m) ==
  /\ m \in Nat /\ DOMAIN segs = 1 .. m /\ Len(segs) = m
  /\ \A k \in 1 .. m : /\ segs[k].start \in lo .. n /\ segs[k].end \in lo + 1 .. n + 1
                       /\ segs[k].start < segs[k].end
                       /\ segs[k].start \in Cuts(lo .. n, key)
                       /\ k < m => segs[k].end = segs[k + 1].start
                       /\ k = m => segs[k].end = n + 1
  /\ \A j, k \in 1 .. m : segs[j].start < segs[k].start <=> j < k
  /\ \A g \in Cuts(lo .. n, key) : \E k \in 1 .. m : segs[k].start = g
  /\ \A g \in lo .. n : \E k \in 1 .. m : segs[k].start <= g /\ g < segs[k].end
  /\ \A k \in 1 .. m : \A g \in segs[k].start .. segs[k].end - 1 : key[g] = key[segs[k].start]
  /\ lo <= n => m >= 1 /\ segs[1].start = lo

\* Segments cuts the gates so.
LEMMA SegmentsCut ==
  ASSUME NEW n \in Nat, NEW lo \in 1 .. n + 1, NEW key
  PROVE  \E m : Segmented(n, lo, key, Segments(lo .. n, key), m)
<1>. DEFINE segs == Segments(lo .. n, key)
            starts == Ascending(Cuts(lo .. n, key))
            ends(k) == IF k < Len(starts) THEN starts[k + 1] ELSE MaxOf(lo .. n) + 1
<1>1. PICK m : Cut(n, lo, key, starts, m)
  BY CutsAscend
<1>2. segs = [k \in DOMAIN starts |-> [start |-> starts[k], end |-> ends(k)]]
  BY DEF Segments, Cuts
<1>. HIDE DEF segs, starts
<1>3. /\ m \in Nat /\ DOMAIN starts = 1 .. m /\ Len(starts) = m
      /\ \A k \in 1 .. m : starts[k] \in Cuts(lo .. n, key)
      /\ \A j, k \in 1 .. m : starts[j] < starts[k] <=> j < k
      /\ \A g \in Cuts(lo .. n, key) : \E k \in 1 .. m : starts[k] = g
  BY <1>1 DEF Cut
<1>4. \A g \in Cuts(lo .. n, key) : g \in lo .. n /\ g \in Nat
  BY DEF Cuts
<1>5. m >= 1 => MaxOf(lo .. n) = n
  <2>. SUFFICES ASSUME m >= 1 PROVE MaxOf(lo .. n) = n
    OBVIOUS
  <2>1. starts[1] \in lo .. n
    BY <1>3, <1>4
  <2>2. lo .. n \in SUBSET (0 .. n) /\ n \in lo .. n
    BY <2>1
  <2>3. MaxOf(lo .. n) \in 0 .. n /\ \A y \in lo .. n : y <= MaxOf(lo .. n)
    BY <2>2, MaxOfSet
  <2>. QED BY <2>2, <2>3
<1>6. ASSUME NEW k \in 1 .. m
      PROVE  /\ segs[k].start = starts[k] /\ segs[k].end = ends(k)
             /\ k < m => ends(k) = starts[k + 1]
             /\ k = m => ends(k) = n + 1
  <2>1. segs[k] = [start |-> starts[k], end |-> ends(k)]
    BY <1>2, <1>3
  <2>. QED BY <1>3, <1>5, <2>1
<1>. HIDE DEF ends
<1>7. ASSUME NEW k \in 1 .. m
      PROVE  /\ starts[k] \in lo .. n /\ ends(k) \in lo + 1 .. n + 1 /\ starts[k] < ends(k)
             /\ k < m => k + 1 \in 1 .. m
  <2>1. starts[k] \in lo .. n
    BY <1>3, <1>4
  <2>2. CASE k < m
    <3>1. k + 1 \in 1 .. m /\ k < k + 1
      BY <1>3, <2>2
    <3>2. starts[k + 1] \in lo .. n /\ starts[k] < starts[k + 1]
      BY <1>3, <1>4, <3>1
    <3>3. ends(k) = starts[k + 1]
      BY <1>6, <2>2
    <3>. QED BY <2>1, <3>1, <3>2, <3>3
  <2>3. CASE k = m
    <3>1. ends(k) = n + 1
      BY <1>6, <2>3
    <3>. QED BY <1>3, <2>1, <2>3, <3>1
  <2>. QED BY <1>3, <2>2, <2>3
\* no cut strictly inside a segment
<1>8. ASSUME NEW k \in 1 .. m, NEW g \in Cuts(lo .. n, key), starts[k] < g PROVE ends(k) <= g
  <2>1. PICK j \in 1 .. m : starts[j] = g
    BY <1>3
  <2>2. k < j
    BY <1>3, <1>8, <2>1
  <2>3. k < m /\ k + 1 \in 1 .. m
    BY <1>3, <2>2
  <2>4. ends(k) = starts[k + 1]
    BY <1>6, <2>3
  <2>5. ~(starts[j] < starts[k + 1])
    <3>1. ~(j < k + 1)
      BY <1>3, <2>2
    <3>. QED BY <1>3, <2>3, <3>1
  <2>6. starts[j] \in Nat /\ starts[k + 1] \in Nat
    BY <1>3, <1>4, <2>3
  <2>. QED BY <2>1, <2>4, <2>5, <2>6
<1>9. ASSUME NEW k \in 1 .. m, NEW g \in starts[k] .. ends(k) - 1 PROVE key[g] = key[starts[k]]
  <2>. DEFINE a == starts[k]
              b == ends(k)
              S == {h \in a .. b - 1 : key[h] = key[a]}
  <2>1. a \in Nat /\ b \in Nat /\ a < b /\ lo <= a /\ b <= n + 1
    BY <1>7
  <2>. HIDE DEF a, b
  <2>2. a \in S /\ b - 1 \in Nat
    BY <2>1
  <2>3. ASSUME NEW h \in a .. (b - 1) - 1, h \in S PROVE h + 1 \in S
    <3>1. h \in a .. b - 1 /\ h + 1 \in a .. b - 1 /\ h \in lo .. n /\ h + 1 \in lo .. n /\ (h + 1) - 1 = h
          /\ a < h + 1 /\ h + 1 < b
      BY <2>1
    <3>2. h + 1 \notin Cuts(lo .. n, key)
      <4>1. ~(b <= h + 1)
        BY <2>1, <3>1
      <4>. QED BY <1>8, <3>1, <4>1 DEF a, b
    <3>3. key[h] = key[h + 1]
      BY <3>1, <3>2 DEF Cuts
    <3>4. key[h] = key[a]
      BY <2>3
    <3>. QED BY <3>1, <3>3, <3>4
  <2>4. \A h \in a .. b - 1 : h \in S
    <3>. HIDE DEF S
    <3>. QED BY <2>1, <2>2, <2>3, IntervalInduction
  <2>5. g \in S
    <3>. HIDE DEF S
    <3>. QED BY <2>4 DEF a, b
  <2>. QED BY <2>5 DEF a
<1>10. ASSUME lo <= n PROVE m >= 1 /\ starts[1] = lo
  <2>1. lo \in Cuts(lo .. n, key)
    <3>1. lo - 1 \notin lo .. n /\ lo \in lo .. n
      BY <1>10
    <3>. QED BY <3>1 DEF Cuts
  <2>2. PICK j \in 1 .. m : starts[j] = lo
    BY <1>3, <2>1
  <2>3. 1 \in 1 .. m /\ m >= 1
    BY <1>3
  <2>4. ~(starts[1] < starts[j])
    BY <1>7, <2>2, <2>3
  <2>5. ~(1 < j)
    BY <1>3, <2>3, <2>4
  <2>. QED BY <2>2, <2>3, <2>5
<1>11. ASSUME NEW g \in lo .. n PROVE \E k \in 1 .. m : starts[k] <= g /\ g < ends(k)
  <2>. DEFINE S == {h \in lo .. n : \E k \in 1 .. m : starts[k] <= h /\ h < ends(k)}
  <2>1. lo <= n /\ lo \in Nat
    OBVIOUS
  <2>2. lo \in S
    <3>1. 1 \in 1 .. m /\ starts[1] = lo
      BY <1>3, <1>10, <2>1
    <3>2. starts[1] < ends(1)
      BY <1>7, <3>1
    <3>. QED BY <2>1, <3>1, <3>2
  <2>3. ASSUME NEW h \in lo .. n - 1, h \in S PROVE h + 1 \in S
    <3>1. PICK k \in 1 .. m : starts[k] <= h /\ h < ends(k)
      BY <2>3
    <3>2. starts[k] \in Nat /\ ends(k) \in Nat /\ ends(k) <= n + 1 /\ h \in Nat /\ h + 1 \in lo .. n
      BY <1>7
    <3>3. CASE h + 1 < ends(k)
      <4>1. starts[k] <= h + 1
        BY <3>1, <3>2
      <4>. QED BY <3>2, <3>3, <4>1
    <3>4. CASE ~(h + 1 < ends(k))
      <4>1. h + 1 = ends(k)
        BY <3>1, <3>2, <3>4
      <4>2. k # m
        <5>1. ends(k) # n + 1
          BY <3>2, <4>1
        <5>. QED BY <1>6, <5>1
      <4>3. k < m /\ k + 1 \in 1 .. m
        BY <1>3, <4>2
      <4>4. starts[k + 1] = h + 1
        BY <1>6, <4>1, <4>3
      <4>5. starts[k + 1] < ends(k + 1)
        BY <1>7, <4>3
      <4>6. starts[k + 1] <= h + 1 /\ h + 1 < ends(k + 1)
        BY <3>2, <4>4, <4>5
      <4>. QED BY <3>2, <4>3, <4>6
    <3>. QED BY <3>3, <3>4
  <2>4. \A h \in lo .. n : h \in S
    <3>. HIDE DEF S
    <3>. QED BY <2>1, <2>2, <2>3, IntervalInduction
  <2>5. g \in S
    <3>. HIDE DEF S
    <3>. QED BY <2>4
  <2>. QED BY <2>5
<1>12. DOMAIN segs = 1 .. m /\ Len(segs) = m
  <2>1. segs = [k \in 1 .. m |-> [start |-> starts[k], end |-> ends(k)]]
    BY <1>2, <1>3 DEF ends
  <2>. QED BY <1>3, <2>1
<1>13. ASSUME NEW k \in 1 .. m
       PROVE  /\ segs[k].start \in lo .. n /\ segs[k].end \in lo + 1 .. n + 1
              /\ segs[k].start < segs[k].end
              /\ segs[k].start \in Cuts(lo .. n, key)
              /\ k < m => segs[k].end = segs[k + 1].start
              /\ k = m => segs[k].end = n + 1
  <2>1. segs[k].start = starts[k] /\ segs[k].end = ends(k)
    BY <1>6
  <2>2. segs[k].start \in lo .. n /\ segs[k].end \in lo + 1 .. n + 1 /\ segs[k].start < segs[k].end
    BY <1>7, <2>1
  <2>3. segs[k].start \in Cuts(lo .. n, key)
    BY <1>3, <2>1
  <2>4. ASSUME k < m PROVE segs[k].end = segs[k + 1].start
    <3>1. k + 1 \in 1 .. m
      BY <1>7, <2>4
    <3>2. segs[k + 1].start = starts[k + 1]
      BY <1>6, <3>1
    <3>. QED BY <1>6, <2>1, <2>4, <3>2
  <2>5. k = m => segs[k].end = n + 1
    BY <1>6, <2>1
  <2>. QED BY <2>2, <2>3, <2>4, <2>5
<1>14. \A j, k \in 1 .. m : segs[j].start < segs[k].start <=> j < k
  BY <1>3, <1>6
<1>15. \A g \in Cuts(lo .. n, key) : \E k \in 1 .. m : segs[k].start = g
  BY <1>3, <1>6
<1>16. \A g \in lo .. n : \E k \in 1 .. m : segs[k].start <= g /\ g < segs[k].end
  BY <1>6, <1>11
<1>17. \A k \in 1 .. m : \A g \in segs[k].start .. segs[k].end - 1 : key[g] = key[segs[k].start]
  BY <1>6, <1>9
<1>18. lo <= n => m >= 1 /\ segs[1].start = lo
  <2>1. ASSUME lo <= n PROVE m >= 1 /\ segs[1].start = lo
    <3>1. 1 \in 1 .. m
      BY <1>3, <1>10, <2>1
    <3>. QED BY <1>6, <1>10, <2>1, <3>1
  <2>. QED BY <2>1
<1>19. Segmented(n, lo, key, segs, m)
  BY <1>3, <1>12, <1>13, <1>14, <1>15, <1>16, <1>17, <1>18 DEF Segmented
<1>. QED BY <1>19 DEF segs

-----------------------------------------------------------------------------
(* Levels and runs.                                                        *)

\* Levels go up with the slots, and a gate above level 1 comes after a gate
\* one level below.
Stacked(n, lo, height) ==
  /\ n \in Nat /\ lo \in 1 .. n + 1
  /\ \A s \in 1 .. n : height[s] \in Nat
  /\ \A s, u \in 1 .. n : s < u => height[s] <= height[u]
  /\ \A g \in lo .. n : height[g] >= 1
  /\ \A g \in lo .. n : height[g] > 1 => \E h \in lo .. n : h < g /\ height[h] = height[g] - 1

\* The slots of a compiled tape are stacked so.
LEMMA TapeStacked ==
  ASSUME NEW c, NEW t, NEW level, NEW sch, NEW place, TapeFor(c, t, level, sch, place)
  PROVE  Stacked(Len(c.insts), t.gate_start, t.slot_level) /\ GateSlots(t) = t.gate_start .. Len(c.insts)
<1>. DEFINE n == Len(c.insts)
<1>1. /\ n \in Nat /\ t.gate_start \in 1 .. n + 1 /\ GateSlots(t) = t.gate_start .. n
      /\ \A k \in 1 .. n : k \in GateSlots(t) <=> IsGate(c.insts[sch[k]])
  BY GateRegion DEF GateSlots
<1>2. \A k \in 1 .. n : sch[k] \in 1 .. n /\ place[sch[k]] = k /\ t.slot_level[k] = level[sch[k]]
  BY SlotFacts
<1>3. \A s \in 1 .. n : level[s] \in Nat
  BY DEF TapeFor, Levels
<1>4. ASSUME NEW s \in 1 .. n, NEW u \in 1 .. n, s < u PROVE t.slot_level[s] <= t.slot_level[u]
  <2>1. sch[s] \in 1 .. n /\ sch[u] \in 1 .. n /\ place[sch[s]] < place[sch[u]]
    BY <1>2, <1>4
  <2>2. level[sch[s]] <= level[sch[u]]
    BY <2>1, ScheduledOrder DEF TapeFor, Circuit
  <2>. QED BY <1>2, <2>2
<1>5. ASSUME NEW g \in GateSlots(t)
      PROVE  /\ t.slot_level[g] >= 1
             /\ t.slot_level[g] > 1 => \E h \in GateSlots(t) : h < g /\ t.slot_level[h] = t.slot_level[g] - 1
  <2>. DEFINE s == sch[g]
  <2>1. g \in 1 .. n /\ IsGate(c.insts[s]) /\ s \in 1 .. n /\ t.slot_level[g] = level[s]
    BY <1>2, GateOperands
  <2>2. /\ level[s] >= 1
        /\ level[s] > 1 => \E x \in Operands(c.insts[s]) : level[x] = level[s] - 1
    BY <2>1 DEF TapeFor, Levels
  <2>3. ASSUME level[s] > 1
        PROVE  \E h \in GateSlots(t) : h < g /\ t.slot_level[h] = t.slot_level[g] - 1
    <3>1. PICK x \in Operands(c.insts[s]) : level[x] = level[s] - 1
      BY <2>2, <2>3
    <3>2. x \in 1 .. n /\ place[x] \in 1 .. n /\ place[x] < g
      BY GateOperands
    <3>3. level[x] # 0
      BY <1>3, <2>1, <2>3, <3>1
    <3>4. IsGate(c.insts[x])
      BY <3>2, <3>3 DEF TapeFor, Levels
    <3>5. sch[place[x]] = x
      BY <3>2 DEF TapeFor, Scheduled
    <3>6. place[x] \in GateSlots(t)
      BY <1>1, <3>2, <3>4, <3>5
    <3>7. t.slot_level[place[x]] = t.slot_level[g] - 1
      BY <1>2, <2>1, <3>1, <3>2, <3>5
    <3>. QED BY <3>2, <3>6, <3>7
  <2>. QED BY <2>1, <2>2, <2>3
<1>6. \A s \in 1 .. n : t.slot_level[s] \in Nat
  BY <1>2, <1>3
<1>. HIDE DEF n
<1>7. Stacked(n, t.gate_start, t.slot_level)
  BY <1>1, <1>4, <1>5, <1>6 DEF Stacked
<1>. QED BY <1>1, <1>7 DEF n

\* The gates of the k-th segment are those of level k.
LevelNumbered(n, lo, height, segs, m) ==
  /\ \A g \in lo .. n : height[g] \in 1 .. m
  /\ \A k \in 1 .. m : segs[k].start .. segs[k].end - 1 = {g \in lo .. n : height[g] = k}

\* Levels are numbered from 1 without gaps.
LEMMA LevelNumbers ==
  ASSUME NEW n, NEW lo, NEW height, Stacked(n, lo, height), NEW segs, NEW m,
         Segmented(n, lo, height, segs, m)
  PROVE  LevelNumbered(n, lo, height, segs, m)
<1>1. /\ n \in Nat /\ lo \in 1 .. n + 1 /\ m \in Nat
      /\ \A s \in 1 .. n : height[s] \in Nat
      /\ \A s, u \in 1 .. n : s < u => height[s] <= height[u]
  BY DEF Stacked, Segmented
<1>2. ASSUME NEW g \in lo .. n
      PROVE  /\ g \in 1 .. n /\ height[g] \in Nat /\ height[g] >= 1
             /\ height[g] > 1 => \E h \in lo .. n : h < g /\ height[h] = height[g] - 1
  <2>1. g \in 1 .. n
    BY <1>1
  <2>. QED BY <1>1, <2>1 DEF Stacked
<1>. DEFINE from(k) == segs[k].start
            to(k) == segs[k].end
<1>3. ASSUME NEW k \in 1 .. m
      PROVE  /\ from(k) \in lo .. n /\ to(k) \in lo + 1 .. n + 1 /\ from(k) < to(k)
             /\ from(k) \in Cuts(lo .. n, height)
             /\ k < m => to(k) = from(k + 1)
             /\ \A g \in from(k) .. to(k) - 1 : height[g] = height[from(k)]
  BY DEF Segmented
<1>4. /\ \A g \in lo .. n : \E k \in 1 .. m : from(k) <= g /\ g < to(k)
      /\ lo <= n => m >= 1 /\ from(1) = lo
  BY DEF Segmented
<1>. HIDE DEF from, to
<1>. DEFINE S == {k \in 1 .. m : height[from(k)] = k}
<1>5. ASSUME m >= 1 PROVE 1 \in S
  <2>1. 1 \in 1 .. m
    BY <1>1, <1>5
  <2>2. from(1) \in lo .. n
    BY <1>3, <2>1
  <2>3. from(1) = lo /\ lo \in lo .. n
    BY <1>1, <1>4, <2>2
  <2>4. ~(height[lo] > 1)
    <3>1. ASSUME NEW h \in lo .. n PROVE ~(h < lo)
      BY <1>1
    <3>. QED BY <1>2, <2>3, <3>1
  <2>5. height[lo] = 1
    BY <1>2, <2>3, <2>4
  <2>. QED BY <2>1, <2>3, <2>5
<1>6. ASSUME NEW k \in 1 .. m - 1, k \in S PROVE k + 1 \in S
  <2>. DEFINE p == from(k)
              q == from(k + 1)
  <2>1. k \in 1 .. m /\ k + 1 \in 1 .. m /\ k < m /\ k \in Nat
    BY <1>1
  <2>2. /\ p \in lo .. n /\ q \in lo .. n /\ p < q /\ q \in Cuts(lo .. n, height)
        /\ \A g \in p .. q - 1 : height[g] = height[p]
    BY <1>3, <2>1
  <2>3. height[p] = k
    BY <1>6
  <2>. HIDE DEF p, q
  <2>4. q - 1 \in p .. q - 1 /\ q - 1 \in lo .. n /\ q - 1 < q /\ q \in Nat
    BY <1>1, <2>2
  <2>5. height[q - 1] = k
    BY <2>2, <2>3, <2>4
  <2>6. height[q - 1] # height[q]
    BY <2>2, <2>4 DEF Cuts
  <2>7. height[q] \in Nat /\ height[q - 1] <= height[q]
    BY <1>1, <1>2, <2>2, <2>4
  <2>8. height[q] >= k + 1
    BY <2>1, <2>5, <2>6, <2>7
  <2>9. ASSUME height[q] > k + 1 PROVE FALSE
    <3>1. height[q] > 1
      BY <2>1, <2>7, <2>9
    <3>2. PICK h \in lo .. n : h < q /\ height[h] = height[q] - 1
      BY <1>2, <2>2, <3>1
    <3>3. h \in 1 .. n /\ q - 1 \in 1 .. n
      BY <1>2, <2>4
    <3>4. h = q - 1 \/ h < q - 1
      BY <2>4, <3>2, <3>3
    <3>5. height[h] <= height[q - 1] \/ height[h] = height[q - 1]
      BY <1>1, <3>3, <3>4
    <3>. QED BY <2>1, <2>5, <2>7, <2>9, <3>2, <3>5
  <2>10. height[q] = k + 1
    BY <2>1, <2>7, <2>8, <2>9
  <2>. QED BY <2>1, <2>10 DEF q
<1>7. \A k \in 1 .. m : height[from(k)] = k
  <2>1. ASSUME m >= 1 PROVE \A k \in 1 .. m : k \in S
    <3>1. 1 \in S
      BY <1>5, <2>1
    <3>. HIDE DEF S
    <3>. QED BY <1>1, <1>6, <3>1, IntervalInduction
  <2>2. m < 1 => 1 .. m = {}
    BY <1>1
  <2>. QED BY <1>1, <2>1, <2>2
<1>. HIDE DEF S
<1>8. ASSUME NEW g \in lo .. n, NEW k \in 1 .. m, from(k) <= g, g < to(k) PROVE height[g] = k
  <2>1. g \in from(k) .. to(k) - 1
    BY <1>1, <1>3, <1>8
  <2>. QED BY <1>3, <1>7, <2>1
<1>9. \A g \in lo .. n : height[g] \in 1 .. m
  BY <1>4, <1>8
<1>10. ASSUME NEW k \in 1 .. m PROVE from(k) .. to(k) - 1 = {g \in lo .. n : height[g] = k}
  <2>1. ASSUME NEW g \in from(k) .. to(k) - 1 PROVE g \in lo .. n /\ height[g] = k
    <3>1. g \in lo .. n /\ from(k) <= g /\ g < to(k)
      BY <1>1, <1>3
    <3>. QED BY <1>8, <3>1
  <2>2. ASSUME NEW g \in lo .. n, height[g] = k PROVE g \in from(k) .. to(k) - 1
    <3>1. PICK j \in 1 .. m : from(j) <= g /\ g < to(j)
      BY <1>4
    <3>2. j = k
      BY <1>8, <2>2, <3>1
    <3>. QED BY <1>1, <1>3, <3>1, <3>2
  <2>. QED BY <2>1, <2>2
<1>. QED BY <1>9, <1>10 DEF LevelNumbered, from, to

\* The number of segments before a slot.
CountBefore(segs, m, slot) == Cardinality({k \in 1 .. m : segs[k].start < slot})

\* The r-th segment starts at the slot, which the slot after all of them does
\* for the one after the last.
BeginsAt(n, segs, m, r, slot) ==
  r \in 1 .. m + 1 /\ (IF r <= m THEN slot = segs[r].start ELSE slot = n + 1)

\* There are r - 1 segments before the r-th.
LEMMA SegmentsBefore ==
  ASSUME NEW n \in Nat, NEW lo \in Nat, NEW key, NEW segs, NEW m, Segmented(n, lo, key, segs, m),
         NEW r, NEW slot, BeginsAt(n, segs, m, r, slot)
  PROVE  CountBefore(segs, m, slot) = r - 1
<1>1. m \in Nat /\ r - 1 \in Nat /\ r \in 1 .. m + 1
  BY DEF Segmented, BeginsAt
<1>2. \A k \in 1 .. m : segs[k].start \in lo .. n
  BY DEF Segmented
<1>3. \A j, k \in 1 .. m : segs[j].start < segs[k].start <=> j < k
  BY DEF Segmented
<1>4. {k \in 1 .. m : segs[k].start < slot} = 1 .. r - 1
  <2>1. ASSUME NEW k \in 1 .. m PROVE segs[k].start < slot <=> k <= r - 1
    <3>1. CASE r <= m
      <4>1. r \in 1 .. m /\ slot = segs[r].start
        BY <1>1, <3>1 DEF BeginsAt
      <4>2. segs[k].start < slot <=> k < r
        BY <1>3, <4>1
      <4>. QED BY <1>1, <4>2
    <3>2. CASE ~(r <= m)
      <4>1. slot = n + 1 /\ r = m + 1
        BY <1>1, <3>2 DEF BeginsAt
      <4>2. segs[k].start < slot
        BY <1>2, <4>1
      <4>. QED BY <1>1, <4>1, <4>2
    <3>. QED BY <3>1, <3>2
  <2>2. 1 .. r - 1 \subseteq 1 .. m
    BY <1>1
  <2>3. \A k : k \in {j \in 1 .. m : segs[j].start < slot} <=> k \in 1 .. r - 1
    <3>1. \A k \in 1 .. m : k <= r - 1 <=> k \in 1 .. r - 1
      BY <1>1
    <3>. QED BY <2>1, <2>2, <3>1
  <2>. QED BY <2>3
<1>5. Cardinality(1 .. r - 1) = r - 1
  BY <1>1, RankWhole
<1>. QED BY <1>4, <1>5 DEF CountBefore

\* A level is the segments first .. past - 1 of the runs.
Covers(segs, M, first, past, from, to) ==
  /\ first \in 1 .. M /\ past \in 1 .. M + 1 /\ first < past
  /\ segs[first].start = from /\ segs[past - 1].end = to
  /\ \A r \in first .. past - 1 :
       /\ r \in 1 .. M /\ from <= segs[r].start /\ segs[r].end <= to
       /\ r + 1 < past => segs[r + 1].start = segs[r].end

\* The segments of a finer key between two places where segments start or end.
LEMMA Covering ==
  ASSUME NEW n \in Nat, NEW lo \in Nat, NEW key, NEW segs, NEW M, Segmented(n, lo, key, segs, M),
         NEW first \in 1 .. M, NEW past, NEW to, BeginsAt(n, segs, M, past, to), segs[first].start < to
  PROVE  Covers(segs, M, first, past, segs[first].start, to)
<1>. DEFINE from(k) == segs[k].start
            end(k) == segs[k].end
<1>1. /\ M \in Nat
      /\ \A k \in 1 .. M : /\ from(k) \in lo .. n /\ end(k) \in lo + 1 .. n + 1 /\ from(k) < end(k)
                           /\ k < M => end(k) = from(k + 1)
                           /\ k = M => end(k) = n + 1
      /\ \A j, k \in 1 .. M : from(j) < from(k) <=> j < k
  BY DEF Segmented
<1>2. past \in Nat /\ past - 1 \in Nat /\ first \in Nat /\ past \in 1 .. M + 1
      /\ (IF past <= M THEN to = segs[past].start ELSE to = n + 1)
  BY <1>1 DEF BeginsAt
<1>3. first < past
  <2>1. CASE past <= M
    <3>1. past \in 1 .. M /\ from(first) < from(past)
      BY <1>1, <1>2, <2>1
    <3>. HIDE DEF from
    <3>. QED BY <1>1, <3>1
  <2>2. CASE ~(past <= M)
    BY <1>1, <1>2, <2>2
  <2>. QED BY <2>1, <2>2
<1>4. past - 1 \in 1 .. M /\ end(past - 1) = to
  <2>1. past - 1 \in 1 .. M /\ (past - 1) + 1 = past
    BY <1>1, <1>2, <1>3
  <2>2. CASE past <= M
    <3>1. past - 1 < M /\ to = from(past)
      BY <1>1, <1>2, <2>2
    <3>. HIDE DEF from, end
    <3>. QED BY <1>1, <2>1, <3>1
  <2>3. CASE ~(past <= M)
    <3>1. past - 1 = M /\ to = n + 1
      BY <1>1, <1>2, <2>3
    <3>. HIDE DEF from, end
    <3>. QED BY <1>1, <2>1, <3>1
  <2>. QED BY <2>2, <2>3
<1>. HIDE DEF from, end
<1>5. ASSUME NEW r \in first .. past - 1
      PROVE  /\ r \in 1 .. M /\ from(first) <= from(r) /\ end(r) <= to
             /\ r + 1 < past => from(r + 1) = end(r)
  <2>1. r \in 1 .. M /\ r \in Nat /\ first <= r /\ r <= past - 1
    BY <1>1, <1>2
  <2>2. from(r) \in Nat /\ from(first) \in Nat /\ end(r) \in Nat /\ from(past - 1) \in Nat /\ end(past - 1) \in Nat
    BY <1>1, <1>4, <2>1
  <2>3. from(first) <= from(r)
    <3>1. ~(r < first)
      BY <2>1
    <3>2. ~(from(r) < from(first))
      BY <1>1, <2>1, <3>1
    <3>. QED BY <2>2, <3>2
  <2>4. ASSUME r + 1 < past PROVE from(r + 1) = end(r) /\ end(r) <= to
    <3>1. r < M /\ r + 1 \in 1 .. M
      BY <1>1, <1>2, <1>4, <2>1, <2>4
    <3>2. from(r + 1) = end(r)
      BY <1>1, <2>1, <3>1
    <3>3. ~(past - 1 < r + 1)
      BY <1>2, <2>1, <2>4
    <3>4. ~(from(past - 1) < from(r + 1))
      BY <1>1, <1>4, <3>1, <3>3
    <3>5. from(past - 1) < end(past - 1) /\ from(r + 1) \in Nat
      BY <1>1, <1>4, <3>1
    <3>6. end(r) <= end(past - 1)
      BY <2>2, <3>2, <3>4, <3>5
    <3>. QED BY <1>4, <3>2, <3>6
  <2>5. ASSUME ~(r + 1 < past) PROVE end(r) <= to
    <3>1. r = past - 1
      BY <1>2, <2>1, <2>5
    <3>2. end(r) = to
      BY <1>4, <3>1
    <3>. QED BY <2>2, <3>2
  <2>. QED BY <2>1, <2>3, <2>4, <2>5
<1>. QED BY <1>2, <1>3, <1>4, <1>5 DEF Covers, from, end

\* The finer key of the runs: level and operation.
RunKey(gates, height, ops) == [g \in gates |-> <<height[g], ops[g]>>]

\* Where the level changes, so does the key of the runs.
LEMMA CutsFiner ==
  ASSUME NEW gates, NEW height, NEW ops, NEW g \in Cuts(gates, height)
  PROVE  g \in Cuts(gates, RunKey(gates, height, ops))
<1>. DEFINE key == RunKey(gates, height, ops)
<1>1. g \in gates
  BY DEF Cuts
<1>2. ASSUME g - 1 \in gates PROVE key[g - 1] # key[g]
  <2>1. height[g - 1] # height[g]
    BY <1>2 DEF Cuts
  <2>2. key[g - 1] = <<height[g - 1], ops[g - 1]>> /\ key[g] = <<height[g], ops[g]>>
    BY <1>1, <1>2 DEF RunKey
  <2>. HIDE DEF key
  <2>. QED BY <2>1, <2>2
<1>. HIDE DEF key
<1>. QED BY <1>1, <1>2 DEF Cuts, key

\* The levels and runs of a tape, in terms of their segments.
Grouped(t, n, lo, segs, m, runs, M) ==
  /\ Segmented(n, lo, t.slot_level, segs, m)
  /\ Segmented(n, lo, RunKey(lo .. n, t.slot_level, t.ops), runs, M)
  /\ Len(t.levels) = m /\ Len(t.runs) = M /\ DOMAIN t.runs = 1 .. M
  /\ \A k \in 1 .. M : /\ t.runs[k].op = t.ops[runs[k].start]
                       /\ t.runs[k].start = runs[k].start /\ t.runs[k].end = runs[k].end
  /\ \A k \in 1 .. m :
       t.levels[k] = [start |-> segs[k].start, end |-> segs[k].end,
                      run_start |-> CountBefore(runs, M, segs[k].start) + 1,
                      run_end |-> CountBefore(runs, M, segs[k].end) + 1]

\* A compiled tape is grouped into such levels and runs.
LEMMA TapeGrouped ==
  ASSUME NEW c, NEW t, NEW level, NEW sch, NEW place, TapeFor(c, t, level, sch, place)
  PROVE  \E segs, m, runs, M : Grouped(t, Len(c.insts), t.gate_start, segs, m, runs, M)
<1>. DEFINE n == Len(c.insts)
            lo == t.gate_start
            inst == Placed(c, sch)
            gates == GatesIn(c, inst)
            operand == OperandSlots(c, inst, place)
            rows == SuccessorRows(n, gates, operand)
            segs == Segments(lo .. n, t.slot_level)
            key == RunKey(lo .. n, t.slot_level, t.ops)
            runs == Segments(lo .. n, key)
            before(slot) == Cardinality({k \in DOMAIN t.runs : t.runs[k].start < slot})
<1>1. n \in Nat /\ lo \in 1 .. n + 1 /\ gates = lo .. n
  <2>1. n \in Nat /\ lo \in 1 .. n + 1 /\ GateSlots(t) = lo .. n
        /\ \A k \in 1 .. n : k \in GateSlots(t) <=> IsGate(c.insts[sch[k]])
    BY GateRegion DEF GateSlots
  <2>2. \A k \in 1 .. n : k \in gates <=> IsGate(c.insts[sch[k]])
    BY DEF GatesIn, Placed
  <2>3. gates \subseteq 1 .. n
    BY DEF GatesIn
  <2>4. lo .. n \subseteq 1 .. n
    <3>. HIDE DEF n, lo
    <3>. QED BY <2>1
  <2>. HIDE DEF gates, n, lo
  <2>. QED BY <2>1, <2>2, <2>3, <2>4
<1>2. Laid(c, t, level, sch, place, inst, operand, rows)
  BY DEF TapeFor, Lays
<1>3. t.runs = Runs(gates, t.ops, t.slot_level) /\ t.levels = LevelsOf(gates, t.slot_level, t.runs)
  <2>. HIDE DEF inst, operand, rows
  <2>. QED BY <1>2 DEF Laid
<1>. HIDE DEF gates, n, lo
<1>4. PICK m : Segmented(n, lo, t.slot_level, segs, m)
  BY <1>1, SegmentsCut
<1>5. PICK M : Segmented(n, lo, key, runs, M)
  <2>. HIDE DEF key
  <2>. QED BY <1>1, SegmentsCut
<1>6. t.runs = [k \in DOMAIN runs |-> [op |-> t.ops[runs[k].start], start |-> runs[k].start, end |-> runs[k].end]]
  BY <1>1, <1>3 DEF Runs, RunKey
<1>7. t.levels = [k \in DOMAIN segs |-> [start |-> segs[k].start, end |-> segs[k].end,
                                         run_start |-> before(segs[k].start) + 1,
                                         run_end |-> before(segs[k].end) + 1]]
  BY <1>1, <1>3 DEF LevelsOf
<1>. HIDE DEF runs, segs, key
<1>8. DOMAIN runs = 1 .. M /\ DOMAIN segs = 1 .. m /\ m \in Nat
  BY <1>4, <1>5 DEF Segmented
<1>9. DOMAIN t.runs = 1 .. M /\ Len(t.runs) = M
  <2>1. M \in Nat
    BY <1>5 DEF Segmented
  <2>. QED BY <1>6, <1>8, <2>1
<1>10. ASSUME NEW k \in 1 .. M
       PROVE  /\ t.runs[k].op = t.ops[runs[k].start]
              /\ t.runs[k].start = runs[k].start /\ t.runs[k].end = runs[k].end
  <2>1. t.runs[k] = [op |-> t.ops[runs[k].start], start |-> runs[k].start, end |-> runs[k].end]
    BY <1>6, <1>8
  <2>. QED BY <2>1
<1>11. \A slot : before(slot) = CountBefore(runs, M, slot)
  <2>1. \A slot : {k \in DOMAIN t.runs : t.runs[k].start < slot} = {r \in 1 .. M : runs[r].start < slot}
    BY <1>9, <1>10
  <2>. QED BY <2>1 DEF CountBefore
<1>. HIDE DEF before
<1>12. Len(t.levels) = m
  BY <1>7, <1>8
<1>13. \A k \in 1 .. m :
         t.levels[k] = [start |-> segs[k].start, end |-> segs[k].end,
                        run_start |-> CountBefore(runs, M, segs[k].start) + 1,
                        run_end |-> CountBefore(runs, M, segs[k].end) + 1]
  BY <1>7, <1>8, <1>11
<1>14. Grouped(t, n, lo, segs, m, runs, M)
  BY <1>4, <1>5, <1>9, <1>10, <1>12, <1>13 DEF Grouped, key
<1>. QED BY <1>14 DEF n, lo

\* The runs of a level.
LEMMA LevelRuns ==
  ASSUME NEW t, NEW n \in Nat, NEW lo \in Nat, NEW segs, NEW m, NEW runs, NEW M,
         Grouped(t, n, lo, segs, m, runs, M), NEW k \in 1 .. m
  PROVE  /\ t.levels[k].start = segs[k].start /\ t.levels[k].end = segs[k].end
         /\ Covers(runs, M, t.levels[k].run_start, t.levels[k].run_end, segs[k].start, segs[k].end)
<1>. DEFINE key == RunKey(lo .. n, t.slot_level, t.ops)
            from == segs[k].start
            to == segs[k].end
            count(slot) == CountBefore(runs, M, slot)
<1>1. /\ Segmented(n, lo, t.slot_level, segs, m) /\ Segmented(n, lo, key, runs, M)
      /\ t.levels[k] = [start |-> from, end |-> to, run_start |-> count(from) + 1, run_end |-> count(to) + 1]
  BY DEF Grouped
<1>2. /\ m \in Nat /\ from \in Cuts(lo .. n, t.slot_level) /\ from < to
      /\ k < m => to \in Cuts(lo .. n, t.slot_level)
      /\ k = m => to = n + 1
  <2>1. m \in Nat /\ \A j \in 1 .. m : /\ segs[j].start \in Cuts(lo .. n, t.slot_level)
                                       /\ segs[j].start < segs[j].end
                                       /\ j < m => segs[j].end = segs[j + 1].start
                                       /\ j = m => segs[j].end = n + 1
    BY <1>1 DEF Segmented
  <2>2. k < m => k + 1 \in 1 .. m
    BY <2>1
  <2>. QED BY <2>1, <2>2
<1>. HIDE DEF key
<1>3. M \in Nat /\ \A g \in Cuts(lo .. n, t.slot_level) : \E r \in 1 .. M : runs[r].start = g
  <2>1. M \in Nat /\ \A g \in Cuts(lo .. n, key) : \E r \in 1 .. M : runs[r].start = g
    BY <1>1 DEF Segmented
  <2>. QED BY <2>1, CutsFiner DEF key
<1>4. PICK first \in 1 .. M : runs[first].start = from
  BY <1>2, <1>3
<1>5. count(from) = first - 1
  <2>. HIDE DEF from, to, count
  <2>1. BeginsAt(n, runs, M, first, from)
    BY <1>3, <1>4 DEF BeginsAt
  <2>2. Segmented(n, lo, key, runs, M)
    BY <1>1
  <2>. QED BY <2>1, <2>2, SegmentsBefore DEF count
<1>6. \E past : BeginsAt(n, runs, M, past, to)
  <2>1. CASE k < m
    <3>1. PICK past \in 1 .. M : runs[past].start = to
      BY <1>2, <1>3, <2>1
    <3>2. past \in 1 .. M + 1 /\ past <= M
      BY <1>3
    <3>3. BeginsAt(n, runs, M, past, to)
      BY <3>1, <3>2 DEF BeginsAt
    <3>. QED BY <3>3
  <2>2. CASE k = m
    <3>1. M + 1 \in 1 .. M + 1 /\ ~(M + 1 <= M) /\ to = n + 1
      BY <1>2, <1>3, <2>2
    <3>2. BeginsAt(n, runs, M, M + 1, to)
      BY <3>1 DEF BeginsAt
    <3>. QED BY <3>2
  <2>. QED BY <1>2, <2>1, <2>2
<1>7. PICK past : BeginsAt(n, runs, M, past, to)
  BY <1>6
<1>. HIDE DEF from, to, count
<1>8. count(to) = past - 1 /\ past \in Nat
  <2>1. Segmented(n, lo, key, runs, M)
    BY <1>1
  <2>2. past \in Nat
    BY <1>3, <1>7 DEF BeginsAt
  <2>. QED BY <1>7, <2>1, <2>2, SegmentsBefore DEF count
<1>9. Covers(runs, M, first, past, runs[first].start, to)
  <2>1. runs[first].start < to
    BY <1>2, <1>4
  <2>. QED BY <1>1, <1>7, <2>1, Covering
<1>10. t.levels[k].start = from /\ t.levels[k].end = to
       /\ t.levels[k].run_start = count(from) + 1 /\ t.levels[k].run_end = count(to) + 1
  BY <1>1
<1>11. t.levels[k].run_start = first /\ t.levels[k].run_end = past
  BY <1>3, <1>5, <1>8, <1>10
<1>. QED BY <1>4, <1>9, <1>10, <1>11 DEF from, to

\* The levels and the runs of a compiled tape are exact.
LEMMA TapeSchedule ==
  ASSUME NEW c, NEW t, NEW level, NEW sch, NEW place, TapeFor(c, t, level, sch, place)
  PROVE  ScheduleContract(t)
<1>. DEFINE n == Len(c.insts)
            lo == t.gate_start
            key == RunKey(lo .. n, t.slot_level, t.ops)
<1>1. Stacked(n, lo, t.slot_level) /\ GateSlots(t) = lo .. n /\ Slots(t) = 1 .. n
  BY TapeStacked, GateRegion
<1>2. PICK segs, m, runs, M : Grouped(t, n, lo, segs, m, runs, M)
  BY TapeGrouped
<1>. HIDE DEF n, lo
<1>3. n \in Nat /\ lo \in 1 .. n + 1 /\ lo \in Nat
  BY <1>1 DEF Stacked
<1>4. Segmented(n, lo, t.slot_level, segs, m) /\ Segmented(n, lo, key, runs, M) /\ Len(t.levels) = m
  BY <1>2 DEF Grouped
<1>10. \A r \in 1 .. M : /\ t.runs[r].op = t.ops[runs[r].start]
                         /\ t.runs[r].start = runs[r].start /\ t.runs[r].end = runs[r].end
  BY <1>2 DEF Grouped
<1>. HIDE DEF key
<1>5. LevelNumbered(n, lo, t.slot_level, segs, m)
  BY <1>1, <1>4, LevelNumbers
<1>6. \A k \in 1 .. m :
        /\ t.levels[k].start = segs[k].start /\ t.levels[k].end = segs[k].end
        /\ Covers(runs, M, t.levels[k].run_start, t.levels[k].run_end, segs[k].start, segs[k].end)
  BY <1>2, <1>3, LevelRuns
<1>13. m \in Nat /\ M \in Nat
  BY <1>4 DEF Segmented
<1>14. \A k \in 1 .. m : segs[k].start \in Nat /\ segs[k].end \in Nat /\ segs[k].start < segs[k].end
  <2>1. \A k \in 1 .. m : segs[k].start \in lo .. n /\ segs[k].end \in lo + 1 .. n + 1 /\ segs[k].start < segs[k].end
    BY <1>4 DEF Segmented
  <2>. QED BY <1>3, <2>1
<1>7. ASSUME NEW r \in 1 .. M
      PROVE  /\ runs[r].start \in lo .. n /\ runs[r].start \in Nat /\ runs[r].end \in Nat /\ runs[r].end <= n + 1
             /\ runs[r].start < runs[r].end
             /\ \A g \in runs[r].start .. runs[r].end - 1 : key[g] = key[runs[r].start]
  <2>1. /\ runs[r].start \in lo .. n /\ runs[r].end \in lo + 1 .. n + 1 /\ runs[r].start < runs[r].end
        /\ \A g \in runs[r].start .. runs[r].end - 1 : key[g] = key[runs[r].start]
    BY <1>4 DEF Segmented
  <2>. QED BY <1>3, <2>1
<1>8. LevelsExact(t)
  <2>1. \A s, u \in 1 .. n : s < u => t.slot_level[s] <= t.slot_level[u]
    BY <1>1 DEF Stacked
  <2>2. \A g \in lo .. n : t.slot_level[g] \in 1 .. m
    BY <1>5 DEF LevelNumbered
  <2>3. \A k \in 1 .. m : LevelSlots(t, k) = {g \in lo .. n : t.slot_level[g] = k}
    BY <1>5, <1>6 DEF LevelNumbered, LevelSlots
  <2>4. \A k \in 1 .. m : t.levels[k].start \in Nat /\ t.levels[k].end \in Nat /\ t.levels[k].start < t.levels[k].end
    BY <1>6, <1>14
  <2>. QED BY <1>1, <1>4, <1>13, <2>1, <2>2, <2>3, <2>4 DEF LevelsExact
<1>9. ASSUME NEW r \in 1 .. M, NEW g \in runs[r].start .. runs[r].end - 1 PROVE t.ops[g] = t.runs[r].op
  <2>. DEFINE a == runs[r].start
              b == runs[r].end
  <2>1. a \in lo .. n /\ a \in Nat /\ b \in Nat /\ b <= n + 1 /\ key[g] = key[a]
    BY <1>7
  <2>2. t.runs[r].op = t.ops[a] /\ g \in a .. b - 1
    BY <1>10
  <2>. HIDE DEF a, b
  <2>3. g \in lo .. n
    BY <1>3, <2>1, <2>2
  <2>4. key[g] = <<t.slot_level[g], t.ops[g]>> /\ key[a] = <<t.slot_level[a], t.ops[a]>>
    BY <2>1, <2>3 DEF RunKey, key
  <2>5. t.ops[g] = t.ops[a]
    <3>1. key[g][2] = t.ops[g] /\ key[a][2] = t.ops[a]
      BY <2>4
    <3>. QED BY <2>1, <3>1
  <2>. QED BY <2>2, <2>5
<1>11. ASSUME NEW k \in 1 .. m
       PROVE  LET l == t.levels[k] IN
              /\ l.run_start \in Nat /\ l.run_end \in Nat /\ l.run_start < l.run_end
              /\ t.runs[l.run_start].start = l.start /\ t.runs[l.run_end - 1].end = l.end
              /\ \A r \in l.run_start .. l.run_end - 1 : LET run == t.runs[r] IN
                   /\ run.start \in Nat /\ run.end \in Nat
                   /\ l.start <= run.start /\ run.start < run.end /\ run.end <= l.end
                   /\ r + 1 < l.run_end => t.runs[r + 1].start = run.end
                   /\ \A g \in run.start .. run.end - 1 : t.ops[g] = run.op
  <2>. DEFINE first == t.levels[k].run_start
              past == t.levels[k].run_end
              from == t.levels[k].start
              to == t.levels[k].end
  <2>1. Covers(runs, M, first, past, from, to)
    BY <1>6
  <2>. HIDE DEF first, past, from, to
  <2>2. /\ first \in 1 .. M /\ past \in 1 .. M + 1 /\ first < past
        /\ runs[first].start = from /\ runs[past - 1].end = to
        /\ \A r \in first .. past - 1 :
             /\ r \in 1 .. M /\ from <= runs[r].start /\ runs[r].end <= to
             /\ r + 1 < past => runs[r + 1].start = runs[r].end
    BY <2>1 DEF Covers
  <2>3. past - 1 \in 1 .. M /\ first \in Nat /\ past \in Nat
    BY <1>13, <2>2
  <2>4. t.runs[first].start = from /\ t.runs[past - 1].end = to
    BY <1>10, <2>2, <2>3
  <2>5. ASSUME NEW r \in first .. past - 1
        PROVE  /\ t.runs[r].start \in Nat /\ t.runs[r].end \in Nat
               /\ from <= t.runs[r].start /\ t.runs[r].start < t.runs[r].end /\ t.runs[r].end <= to
               /\ r + 1 < past => t.runs[r + 1].start = t.runs[r].end
               /\ \A g \in t.runs[r].start .. t.runs[r].end - 1 : t.ops[g] = t.runs[r].op
    <3>1. /\ r \in 1 .. M /\ from <= runs[r].start /\ runs[r].end <= to
          /\ r + 1 < past => runs[r + 1].start = runs[r].end
      BY <2>2
    <3>2. t.runs[r].start = runs[r].start /\ t.runs[r].end = runs[r].end
      BY <1>10, <3>1
    <3>3. ASSUME r + 1 < past PROVE t.runs[r + 1].start = t.runs[r].end
      <4>1. r + 1 \in 1 .. M
        BY <1>13, <2>2, <2>3, <3>1, <3>3
      <4>. QED BY <1>10, <3>1, <3>2, <3>3, <4>1
    <3>4. \A g \in t.runs[r].start .. t.runs[r].end - 1 : t.ops[g] = t.runs[r].op
      BY <1>9, <3>1, <3>2
    <3>5. runs[r].start \in Nat /\ runs[r].end \in Nat /\ runs[r].start < runs[r].end
      BY <1>7, <3>1
    <3>. QED BY <3>1, <3>2, <3>3, <3>4, <3>5
  <2>. QED BY <2>2, <2>3, <2>4, <2>5 DEF first, past, from, to
<1>12. LevelRunsExact(t)
  BY <1>4, <1>11 DEF LevelRunsExact
<1>16. ASSUME NEW q \in 1 .. M, NEW r \in 1 .. M, q < r PROVE runs[q].end <= runs[r].start
  <2>1. q + 1 \in 1 .. M /\ q < M
    BY <1>13, <1>16
  <2>2. runs[q].end = runs[q + 1].start
    BY <1>4, <2>1 DEF Segmented
  <2>3. \A j, k \in 1 .. M : runs[j].start < runs[k].start <=> j < k
    BY <1>4 DEF Segmented
  <2>4. ~(r < q + 1)
    BY <1>13, <1>16
  <2>5. ~(runs[r].start < runs[q + 1].start)
    BY <2>1, <2>3, <2>4
  <2>6. runs[r].start \in Nat /\ runs[q + 1].start \in Nat
    BY <1>7, <2>1
  <2>. QED BY <2>2, <2>5, <2>6
<1>17. ASSUME NEW r \in 1 .. M
       PROVE  \E k \in 1 .. m : r \in t.levels[k].run_start .. t.levels[k].run_end - 1
  <2>. DEFINE k == t.slot_level[runs[r].start]
              first == t.levels[k].run_start
              past == t.levels[k].run_end
              from == segs[k].start
              to == segs[k].end
  <2>1. runs[r].start \in lo .. n /\ runs[r].start \in Nat
    BY <1>7
  <2>2. k \in 1 .. m /\ runs[r].start \in from .. to - 1
    BY <1>5, <2>1 DEF LevelNumbered
  <2>3. Covers(runs, M, first, past, from, to) /\ from \in Nat /\ to \in Nat
    BY <1>6, <1>14, <2>2
  <2>. HIDE DEF first, past, from, to, k
  <2>4. /\ first \in 1 .. M /\ past \in 1 .. M + 1 /\ first < past
        /\ runs[first].start = from /\ runs[past - 1].end = to /\ past - 1 \in 1 .. M
    BY <1>13, <2>3 DEF Covers
  <2>5. \A i, j \in 1 .. M : runs[i].start < runs[j].start <=> i < j
    BY <1>4 DEF Segmented
  <2>6. ~(r < first)
    <3>1. ~(runs[r].start < runs[first].start)
      BY <2>1, <2>2, <2>3, <2>4
    <3>. QED BY <2>4, <2>5, <3>1
  <2>7. ~(past - 1 < r)
    <3>1. ASSUME past - 1 < r PROVE FALSE
      <4>1. runs[past - 1].end <= runs[r].start
        BY <1>16, <2>4, <3>1
      <4>. QED BY <2>1, <2>2, <2>3, <2>4, <4>1
    <3>. QED BY <3>1
  <2>8. r \in first .. past - 1
    BY <1>13, <2>4, <2>6, <2>7
  <2>. QED BY <2>2, <2>8 DEF first, past
<1>18. RunsExact(t)
  <2>1. Len(t.runs) = M /\ DOMAIN t.runs = 1 .. M
    BY <1>2 DEF Grouped
  <2>2. ASSUME NEW k \in 1 .. m PROVE t.levels[k].run_start .. t.levels[k].run_end - 1 \subseteq 1 .. M
    BY <1>6, <1>13, <2>2 DEF Covers
  <2>3. \A q, r \in 1 .. M : q < r => t.runs[q].end <= t.runs[r].start
    BY <1>10, <1>16
  <2>4. ASSUME NEW g \in lo .. n PROVE \E r \in 1 .. M : g \in t.runs[r].start .. t.runs[r].end - 1
    <3>1. PICK r \in 1 .. M : runs[r].start <= g /\ g < runs[r].end
      BY <1>4, <2>4 DEF Segmented
    <3>2. g \in runs[r].start .. runs[r].end - 1
      BY <1>3, <1>7, <3>1
    <3>. QED BY <1>10, <3>2
  <2>. QED BY <1>1, <1>4, <1>13, <1>17, <2>1, <2>2, <2>3, <2>4 DEF RunsExact
<1>15. PaddingFirst(t)
  <2>1. ASSUME NEW g \in GateSlots(t)
        PROVE  (arity(t.ops[g]) < 2 => t.b[g] = 1) /\ (arity(t.ops[g]) < 3 => t.c[g] = 1)
    <3>. DEFINE i == c.insts[sch[g]]
    <3>1. g \in 1 .. n /\ IsGate(i)
      BY GateOperands DEF n
    <3>2. i.op \in GateOp /\ GateLaid(c, t, place, g, i.op, i.ins)
      BY <3>1, SlotFacts DEF n
    <3>3. arity(i.op) \in 1 .. 3
      BY <3>2, Arities
    <3>. HIDE DEF i
    <3>. QED BY <3>2, <3>3 DEF GateLaid
  <2>. QED BY <2>1 DEF PaddingFirst
<1>. QED BY <1>8, <1>12, <1>15, <1>18 DEF ScheduleContract

\* Compiling a circuit gives a tape whose levels and runs are exact.
LEMMA CompiledSchedule ==
  ASSUME NEW c, Circuit(c), SourcesOnce(c)
  PROVE  ScheduleContract(Compiled(c))
<1>1. PICK level, sch, place : TapeFor(c, Compiled(c), level, sch, place)
  BY CompiledLays
<1>. QED BY <1>1, TapeSchedule

-----------------------------------------------------------------------------
(* From calls to a tape.                                                   *)

\* The invariant is inductive.
LEMMA InvStep ==
  ASSUME Inv, [Next]_vars
  PROVE  Inv'
<1>1. ASSUME BuilderNext, UNCHANGED <<optimized, tape>> PROVE Inv'
  <2>1. BuilderInv'
    BY <1>1, BuilderStep DEF Inv
  <2>2. result = Building
    BY <1>1 DEF BuilderNext, input, const_val, unary, binary, ternary, PushGate, reg, register,
                PushRegister, drive, output, finish
  <2>3. ~Compiles /\ ~Compiles'
    BY <1>1, <2>2 DEF Inv, ResultInv, Compiles, Building
  <2>4. ASSUME finish PROVE ResultInv'
    BY <2>3, <2>4, FinishStep DEF Inv, ResultInv
  <2>5. ASSUME result' = Building \/ result' = Panicked PROVE ResultInv'
    BY <2>3, <2>5 DEF ResultInv, Building, Panicked
  <2>6. finish \/ result' = Building \/ result' = Panicked
    BY <1>1, <2>2 DEF BuilderNext, input, const_val, unary, binary, ternary, PushGate, reg, register,
                PushRegister, drive, output
  <2>7. ResultInv'
    BY <2>4, <2>5, <2>6 DEF Inv
  <2>. QED BY <2>1, <2>7 DEF Inv
<1>2. ASSUME CompileCircuit PROVE Inv'
  <2>1. /\ UNCHANGED <<insts, regs, outputs, next_input_index, result>> /\ result.status = "ok"
        /\ optimized' = optimize(result.circuit) /\ tape' = Compiled(optimized')
    BY <1>2 DEF CompileCircuit, builderVars
  <2>2. BuilderInv'
    BY <2>1 DEF Inv, BuilderInv, Built, RegsTyped
  <2>3. ResultInv'
    BY <2>1 DEF Inv, ResultInv
  <2>. QED BY <2>2, <2>3 DEF Inv
<1>3. CASE UNCHANGED vars
  BY <1>3 DEF vars, Inv, BuilderInv, Built, RegsTyped, ResultInv, Compiles
<1>. QED BY <1>1, <1>2, <1>3 DEF Next

\* Every reachable state of the pipeline satisfies the invariant.
THEOREM Invariant == Spec => []Inv
BY BuilderInit, InvStep, PTL DEF Spec

\* What compiling leaves behind, in terms of the circuit that was built.
LEMMA CompilesOk ==
  ASSUME Inv, Compiles
  PROVE  /\ Circuit(result.circuit) /\ SourcesOnce(result.circuit)
         /\ optimized = optimize(result.circuit) /\ tape = Compiled(optimized)
BY DEF Inv, ResultInv

\* The builder's signals, registers and outputs are typed in every reachable
\* state, and only a finished circuit is compiled.
THEOREM TypeCorrect == Spec => []TypeOK
<1>1. ASSUME Inv PROVE TypeOK
  <2>1. BuilderInv /\ ResultInv
    BY <1>1 DEF Inv
  <2>2. \A s \in Signals : insts[s].kind \in {"Const", "Input", "RegisterOutput", "Gate"}
    BY <2>1, BuilderFacts, Kinds DEF Signals
  <2>3. \A r \in DOMAIN regs : regs[r].data \in Signals \cup {Undriven}
    <3>1. Len(insts) \in Nat /\ DOMAIN regs = 1 .. Len(regs)
          /\ regs \in [1 .. Len(regs) -> [data : 0 .. Len(insts), initial : BOOLEAN]]
      BY <2>1, BuilderFacts DEF BuilderInv, RegsTyped
    <3>2. \A r \in DOMAIN regs : regs[r].data \in 0 .. Len(insts)
      BY <3>1
    <3>3. 0 .. Len(insts) = (1 .. Len(insts)) \cup {0}
      BY <3>1
    <3>. QED BY <3>2, <3>3 DEF Signals, Undriven
  <2>4. \A o \in DOMAIN outputs : outputs[o] \in Signals
    BY <2>1 DEF BuilderInv, Signals
  <2>. QED BY <2>1, <2>2, <2>3, <2>4 DEF TypeOK, ResultInv
<1>. QED BY <1>1, Invariant, PTL

\* A circuit of the builder or the optimizer is well formed.
LEMMA CircuitWellFormed ==
  ASSUME NEW c, Circuit(c), SourcesOnce(c)
  PROVE  WellFormed(c)
<1>1. \A s \in Insts(c) : \A x \in Operands(c.insts[s]) : x \in 1 .. s - 1
  BY Nodes DEF Circuit, Insts
<1>2. /\ \A r \in DOMAIN c.regs : c.regs[r].data \in Insts(c)
      /\ \A o \in DOMAIN c.outputs : c.outputs[o] \in Insts(c)
  BY DEF Circuit, Insts
<1>. QED BY <1>1, <1>2 DEF WellFormed, SourcesOnce, Source

\* finish() returns a well-formed circuit or names a register that is really
\* undriven, and the optimizer keeps the circuit's interface.
THEOREM InterfaceHolds == Spec => []InterfaceKept
<1>1. ASSUME Inv PROVE InterfaceKept
  <2>1. result.status = "ok" => WellFormed(result.circuit)
    BY <1>1, CircuitWellFormed DEF Inv, ResultInv
  <2>2. result.status = "UndrivenRegister" => regs[result.reg].data = Undriven
    BY <1>1 DEF Inv, ResultInv
  <2>3. ASSUME Compiles
        PROVE  /\ WellFormed(optimized)
               /\ optimized.input_count = result.circuit.input_count
               /\ InitialState(optimized) = InitialState(result.circuit)
               /\ Len(optimized.outputs) = Len(result.circuit.outputs)
    <3>. DEFINE c == result.circuit
    <3>1. Circuit(c) /\ SourcesOnce(c) /\ optimized = optimize(c)
      BY <1>1, <2>3, CompilesOk
    <3>. HIDE DEF c
    <3>2. /\ Circuit(optimize(c)) /\ SourcesOnce(optimize(c))
          /\ optimize(c).input_count = c.input_count /\ InitialState(optimize(c)) = InitialState(c)
          /\ Len(optimize(c).outputs) = Len(c.outputs)
      BY <3>1, OptimizedCircuit, OptimizeSources
    <3>3. WellFormed(optimized)
      BY <3>1, <3>2, CircuitWellFormed
    <3>. QED BY <3>1, <3>2, <3>3 DEF c
  <2>. QED BY <2>1, <2>2, <2>3 DEF InterfaceKept
<1>. QED BY <1>1, Invariant, PTL

\* Whatever circuit was built, the interpreter cannot tell it from its
\* optimized form.
THEOREM OptimizerCorrect == Spec => []OptimizerPreserves
<1>1. ASSUME Inv PROVE OptimizerPreserves
  <2>. DEFINE c == result.circuit
  <2>1. ASSUME Compiles, NEW e \in Environments(c)
        PROVE  InterpTick(optimized, e.inputs, e.state) = InterpTick(c, e.inputs, e.state)
    <3>1. Circuit(c) /\ optimized = optimize(c)
      BY <1>1, <2>1, CompilesOk
    <3>. HIDE DEF c
    <3>. QED BY <2>1, <3>1, EnvironmentOf, OptimizePreserves
  <2>. QED BY <2>1 DEF OptimizerPreserves
<1>. QED BY <1>1, Invariant, PTL

\* The optimizer leaves every circuit in normal form.
THEOREM OptimizerNormalizes == Spec => []OptimizerNormalForm
<1>1. ASSUME Inv PROVE OptimizerNormalForm
  BY <1>1, CompilesOk, OptimizeNormal DEF OptimizerNormalForm
<1>. QED BY <1>1, Invariant, PTL

\* Optimizing an optimized circuit changes nothing.
THEOREM OptimizerStable == Spec => []OptimizerIdempotent
<1>1. ASSUME Inv PROVE OptimizerIdempotent
  BY <1>1, CompilesOk, OptimizeIdempotent DEF OptimizerIdempotent
<1>. QED BY <1>1, Invariant, PTL
\* Whatever circuit was built, its tape is one that the engines can run:
\* operands are strictly below their gate, the successor map is exact, and no
\* two sources share a slot.
THEOREM CompilerValid == Spec => []CompilerContract
<1>1. ASSUME Inv PROVE CompilerContract
  <2>1. ASSUME Compiles PROVE TapeContract(tape)
    <3>1. Circuit(optimized) /\ SourcesOnce(optimized) /\ tape = Compiled(optimized)
      BY <1>1, <2>1, CompilesOk, OptimizedCircuit, OptimizeSources
    <3>. QED BY <3>1, CompiledContract
  <2>. QED BY <2>1 DEF CompilerContract
<1>. QED BY <1>1, Invariant, PTL

\* The levels and the runs of the tape partition its gates in slot order, one
\* level number to a level and one operation to a run.
THEOREM ScheduleValid == Spec => []ScheduleGrouped
<1>1. ASSUME Inv PROVE ScheduleGrouped
  <2>1. ASSUME Compiles PROVE ScheduleContract(tape)
    <3>1. Circuit(optimized) /\ SourcesOnce(optimized) /\ tape = Compiled(optimized)
      BY <1>1, <2>1, CompilesOk, OptimizedCircuit, OptimizeSources
    <3>. QED BY <3>1, CompiledSchedule
  <2>. QED BY <2>1 DEF ScheduleGrouped
<1>. QED BY <1>1, Invariant, PTL

\* Settling the tape and reading its registers and outputs gives what the
\* interpreter computes on the circuit the client built.
THEOREM CompilerCorrect == Spec => []CompiledAgrees
<1>1. ASSUME Inv PROVE CompiledAgrees
  <2>. DEFINE c == result.circuit
  <2>1. ASSUME Compiles, NEW e \in Environments(c), NEW v \in Buffers(tape), ConstsHeld(tape, v),
               Settled(tape, v),
               \A i \in InputIds(tape) : v[tape.input_slots[i]] = e.inputs[i],
               \A r \in Registers(tape) : v[tape.reg_out_slots[r]] = e.state[r]
        PROVE  [state |-> capture_next(tape, v), outputs |-> OutputsOf(tape, v)]
                 = InterpTick(c, e.inputs, e.state)
    <3>1. Circuit(c) /\ SourcesOnce(c) /\ tape = Compiled(optimize(c))
      BY <1>1, <2>1, CompilesOk
    <3>2. Holds(tape, v, e)
      BY <2>1 DEF Holds
    <3>3. Environment(c, e)
      BY <2>1, EnvironmentOf
    <3>. HIDE DEF c
    <3>. QED BY <3>1, <3>2, <3>3, CompiledValues
  <2>. QED BY <2>1 DEF CompiledAgrees
<1>. QED BY <1>1, Invariant, PTL
=============================================================================
