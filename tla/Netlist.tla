------------------------------ MODULE Netlist ------------------------------
(***************************************************************************)
(* Finished circuits and the naive interpreter that defines their meaning. *)
(*                                                                         *)
(* A circuit is a record [insts, regs, outputs, input_count]: insts is the *)
(* sequence of instructions in signal order, regs the sequence of          *)
(* registers [data, initial], outputs the sequence of output signals.      *)
(* Signals, registers and input indices count from 1 (from 0 in the code). *)
(***************************************************************************)
EXTENDS Gates, Order, SequencesExt

Const(v) == [kind |-> "Const", value |-> v]
Input(i) == [kind |-> "Input", index |-> i]
RegisterOutput(r) == [kind |-> "RegisterOutput", reg |-> r]
Gate(op, ins) == [kind |-> "Gate", op |-> op, ins |-> ins]

IsGate(inst) == inst.kind = "Gate"
Insts(c) == 1 .. Len(c.insts)
Operands(inst) == IF IsGate(inst) THEN ToSet(inst.ins) ELSE {}

\* The value of one instruction, given those of the instructions before it.
InstValue(inst, values, inputs, state) ==
  LET v(i) == IF i <= Len(inst.ins) THEN values[inst.ins[i]] ELSE FALSE
  IN  CASE inst.kind = "Const" -> inst.value
        [] inst.kind = "Input" -> inputs[inst.index]
        [] inst.kind = "RegisterOutput" -> state[inst.reg]
        [] IsGate(inst) -> Apply(inst.op, v(1), v(2), v(3))

\* The forward pass of Interpreter::tick.
InterpValues(c, inputs, state) ==
  LET values[n \in 0 .. Len(c.insts)] ==
        IF n = 0 THEN <<>>
        ELSE LET before == values[n - 1]
             IN  Append(before, InstValue(c.insts[n], before, inputs, state))
  IN  values[Len(c.insts)]

\* What one tick of the interpreter leaves in its state and outputs.
InterpTick(c, inputs, state) ==
  LET values == InterpValues(c, inputs, state)
  IN  [state   |-> [r \in DOMAIN c.regs |-> values[c.regs[r].data]],
       outputs |-> [o \in DOMAIN c.outputs |-> values[c.outputs[o]]]]

InitialState(c) == [r \in DOMAIN c.regs |-> c.regs[r].initial]

\* Every assignment of the external inputs and of the registers.
Environments(c) == [inputs : [1 .. c.input_count -> BOOLEAN],
                    state  : [DOMAIN c.regs -> BOOLEAN]]
=============================================================================
