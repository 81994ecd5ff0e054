--------------------------- MODULE CircuitBuilder ---------------------------
(***************************************************************************)
(* ryzr_core::CircuitBuilder: the calls a client makes on a builder, in    *)
(* any order, up to the finish() that consumes it. Names and debug names   *)
(* are left out. The signals and registers a client passes are those the   *)
(* builder returned to it.                                                 *)
(***************************************************************************)
EXTENDS Netlist

CONSTANTS
  Ops,            \* the gate operations the client uses
  Initials,       \* the initial register values it uses
  Constants,      \* the constants it uses
  MaxSources,     \* bound on inputs, constants and registers together
  MaxGates,       \* bound on gates
  MaxOutputs,     \* bound on declared outputs
  DebugAssertions \* whether debug_assert! is compiled in

ASSUME BuilderAssumption ==
  /\ Ops \subseteq GateOp /\ Initials \subseteq BOOLEAN /\ Constants \subseteq BOOLEAN
  /\ {MaxSources, MaxGates, MaxOutputs} \subseteq Nat
  /\ DebugAssertions \in BOOLEAN

VARIABLES
  insts,            \* instructions in creation order
  regs,             \* registers [data, initial]; data = Undriven before drive
  outputs,          \* signals declared as outputs
  next_input_index, \* the next input's index
  result            \* what finish() returned, Building before that

builderVars == <<insts, regs, outputs, next_input_index, result>>

Undriven == 0
Building == [status |-> "building"]
Panicked == [status |-> "panicked"]
Ok(c) == [status |-> "ok", circuit |-> c]
CycleDetected == [status |-> "CycleDetected"]
UndrivenRegister(r) == [status |-> "UndrivenRegister", reg |-> r]

Signals == 1 .. Len(insts)
GateCount == Cardinality({s \in Signals : IsGate(insts[s])})
RoomForSource == Len(insts) - GateCount < MaxSources
RoomForGate == GateCount < MaxGates

new ==
  /\ insts = <<>> /\ regs = <<>> /\ outputs = <<>>
  /\ next_input_index = 1
  /\ result = Building

input ==
  /\ result = Building /\ RoomForSource
  /\ insts' = Append(insts, Input(next_input_index))
  /\ next_input_index' = next_input_index + 1
  /\ UNCHANGED <<regs, outputs, result>>

const_val(value) ==
  /\ result = Building /\ RoomForSource
  /\ insts' = Append(insts, Const(value))
  /\ UNCHANGED <<regs, outputs, next_input_index, result>>

PushGate(op, ins) ==
  /\ result = Building /\ RoomForGate
  /\ insts' = Append(insts, Gate(op, ins))
  /\ UNCHANGED <<regs, outputs, next_input_index, result>>

unary(op, x)     == op \in Unary /\ PushGate(op, <<x>>)
binary(op, a, b) == op \in Commutative /\ PushGate(op, <<a, b>>)
ternary(s, t, e) == "Mux" \in Ops /\ PushGate("Mux", <<s, t, e>>)

\* Push a register with the given data input, and its output signal.
PushRegister(data, initial) ==
  /\ result = Building /\ RoomForSource
  /\ regs' = Append(regs, [data |-> data, initial |-> initial])
  /\ insts' = Append(insts, RegisterOutput(Len(regs) + 1))
  /\ UNCHANGED <<outputs, next_input_index, result>>

reg(initial) == PushRegister(Undriven, initial)
register(data, initial) == PushRegister(data, initial)

\* A second drive trips the debug assertion; without it the last one wins.
drive(r, data) ==
  /\ result = Building
  /\ IF DebugAssertions /\ regs[r].data # Undriven
     THEN result' = Panicked /\ UNCHANGED regs
     ELSE regs' = [regs EXCEPT ![r].data = data] /\ UNCHANGED result
  /\ UNCHANGED <<insts, outputs, next_input_index>>

\* Mutant: the signal after the given one is recorded.
OutputOffByOne(s) ==
  /\ result = Building /\ Len(outputs) < MaxOutputs
  /\ outputs' = Append(outputs, s + 1)
  /\ UNCHANGED <<insts, regs, next_input_index, result>>

output(s) ==
  /\ result = Building /\ Len(outputs) < MaxOutputs
  /\ outputs' = Append(outputs, s)
  /\ UNCHANGED <<insts, regs, next_input_index, result>>

\* Creation order is kept when it is topological.
topo_order_ok == \A s \in Signals : \A x \in Operands(insts[s]) : x < s

\* Creation order being the schedule, finish() renames no signal.
finish ==
  /\ result = Building
  /\ result' =
       IF ~topo_order_ok THEN CycleDetected
       ELSE IF \E r \in DOMAIN regs : regs[r].data = Undriven
       THEN UndrivenRegister(CHOOSE r \in DOMAIN regs :
              /\ regs[r].data = Undriven
              /\ \A q \in 1 .. r - 1 : regs[q].data # Undriven)
       ELSE Ok([insts |-> insts, regs |-> regs, outputs |-> outputs,
                input_count |-> next_input_index - 1])
  /\ UNCHANGED <<insts, regs, outputs, next_input_index>>

BuilderNext ==
  \/ input
  \/ \E v \in Constants : const_val(v)
  \/ \E op \in Ops, x \in Signals : unary(op, x)
  \/ \E op \in Ops, a, b \in Signals : binary(op, a, b)
  \/ \E s, t, e \in Signals : ternary(s, t, e)
  \/ \E v \in Initials : reg(v)
  \/ \E s \in Signals, v \in Initials : register(s, v)
  \/ \E r \in DOMAIN regs, s \in Signals : drive(r, s)
  \/ \E s \in Signals : output(s)
  \/ finish
=============================================================================
