------------------------------ MODULE Pipeline ------------------------------
(***************************************************************************)
(* From a client's builder calls to a tape: the builder produces a         *)
(* circuit, and Compiled::new optimizes it and compiles the result. The    *)
(* properties compare the three forms with the interpreter.                *)
(***************************************************************************)
EXTENDS CircuitBuilder, Optimizer, Compile

VARIABLES
  optimized, \* the optimizer's circuit
  tape       \* the compiled tape

vars == <<insts, regs, outputs, next_input_index, result, optimized, tape>>

Absent == <<>>

Init == new /\ optimized = Absent /\ tape = Absent

\* Compiled::new: optimize first, then compile what is left.
CompileCircuit ==
  /\ result.status = "ok" /\ tape = Absent
  /\ optimized' = optimize(result.circuit)
  /\ tape' = Compiled(optimized')
  /\ UNCHANGED builderVars

Next ==
  \/ BuilderNext /\ UNCHANGED <<optimized, tape>>
  \/ CompileCircuit

Spec == Init /\ [][Next]_vars

Compiles == tape # Absent

TypeOK ==
  /\ \A s \in Signals : insts[s].kind \in {"Const", "Input", "RegisterOutput", "Gate"}
  /\ \A r \in DOMAIN regs : regs[r].data \in Signals \cup {Undriven}
  /\ \A o \in DOMAIN outputs : outputs[o] \in Signals
  /\ result.status \in {"building", "panicked", "ok", "CycleDetected", "UndrivenRegister"}
  /\ Compiles => result.status = "ok"

\* A circuit whose signals are in topological order and whose inputs and
\* registers each have exactly one source instruction.
WellFormed(c) ==
  /\ \A s \in Insts(c) : \A x \in Operands(c.insts[s]) : x \in 1 .. s - 1
  /\ \A r \in DOMAIN c.regs : c.regs[r].data \in Insts(c)
  /\ \A o \in DOMAIN c.outputs : c.outputs[o] \in Insts(c)
  /\ \A source \in {Input(i) : i \in 1 .. c.input_count}
                   \cup {RegisterOutput(r) : r \in DOMAIN c.regs} :
       \E s \in Insts(c) : {x \in Insts(c) : c.insts[x] = source} = {s}

\* finish() of any sequence of builder calls either reports an undriven
\* register that the circuit really has, or a well-formed circuit, and the
\* optimizer keeps every input and register in it, live or not: engines
\* index input_slots and reg_out_slots by them.
InterfaceKept ==
  /\ result.status = "ok" => WellFormed(result.circuit)
  /\ result.status = "UndrivenRegister" => regs[result.reg].data = Undriven
  /\ Compiles =>
       /\ WellFormed(optimized)
       /\ optimized.input_count = result.circuit.input_count
       /\ InitialState(optimized) = InitialState(result.circuit)
       /\ Len(optimized.outputs) = Len(result.circuit.outputs)

\* Observable equivalence: on every assignment of inputs and registers, the
\* interpreter sees the same outputs and next state in both circuits.
OptimizerPreserves ==
  Compiles => \A e \in Environments(result.circuit) :
    InterpTick(optimized, e.inputs, e.state) = InterpTick(result.circuit, e.inputs, e.state)

\* The optimizer leaves the form in which the packed engines look for
\* patterns of gates.
OptimizerNormalForm == Compiles => NormalForm(optimized)

\* Optimizing again changes nothing: every rewrite the optimizer makes
\* leaves operands to which no further rewrite applies.
OptimizerIdempotent == Compiles => optimize(optimized) = optimized

\* The operand validation of Compiled::new never fires, its successor map
\* and its source slots are exact.
CompilerContract == Compiles => TapeContract(tape)

\* Levels and runs partition the gate region in slot order: each level is
\* the gates of one level number, each run one operation inside one level.
ScheduleGrouped == Compiles => ScheduleContract(tape)

\* The settled tape computes what the interpreter computes on the circuit
\* the client built, from any register state and inputs.
CompiledAgrees ==
  Compiles =>
    \A e \in Environments(result.circuit) :
      \A values \in {v \in Buffers(tape) : ConstsHeld(tape, v)} :
        (/\ Settled(tape, values)
         /\ \A i \in InputIds(tape) : values[tape.input_slots[i]] = e.inputs[i]
         /\ \A r \in Registers(tape) : values[tape.reg_out_slots[r]] = e.state[r])
        => [state |-> capture_next(tape, values), outputs |-> OutputsOf(tape, values)]
             = InterpTick(result.circuit, e.inputs, e.state)
=============================================================================
