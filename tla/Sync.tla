-------------------------------- MODULE Sync --------------------------------
(***************************************************************************)
(* The promise of the Engine trait: a synchronous machine. One tick is one *)
(* clock cycle: the combinational logic settles from this cycle's inputs   *)
(* and registers, the registers latch, and the outputs show the settled    *)
(* values. Inputs are sticky. Every engine implements this specification.  *)
(***************************************************************************)
EXTENDS Tape

CONSTANT Tapes

VARIABLES
  tape,   \* the compiled circuit, fixed
  inputs, \* the latched external inputs
  state,  \* the registers
  outs    \* what output() returns, for every output

syncVars == <<tape, inputs, state, outs>>

Low(t) == [i \in InputIds(t) |-> FALSE]
PowerOnOutputs(t) == OutputsOf(t, initial_values(t))

PoweredOn ==
  /\ inputs = Low(tape)
  /\ state = tape.reg_initial
  /\ outs = PowerOnOutputs(tape)

Init == tape \in Tapes /\ PoweredOn

\* An output wired straight to an input follows it at once.
SetInput(i, value) ==
  /\ inputs' = [inputs EXCEPT ![i] = value]
  /\ outs' = [o \in OutputIds(tape) |->
                IF tape.output_slots[o] = tape.input_slots[i] THEN value ELSE outs[o]]
  /\ UNCHANGED <<tape, state>>

\* The source slots hold the constants, the inputs and the registers.
SourcesHold(t, values, ins, regs) ==
  /\ ConstsHeld(t, values)
  /\ \A i \in InputIds(t) : values[t.input_slots[i]] = ins[i]
  /\ \A r \in Registers(t) : values[t.reg_out_slots[r]] = regs[r]

\* One cycle that settles on `values`.
TickOn(values) ==
  /\ Settled(tape, values)
  /\ SourcesHold(tape, values, inputs, state)
  /\ state' = capture_next(tape, values)
  /\ outs' = OutputsOf(tape, values)
  /\ UNCHANGED <<tape, inputs>>

Tick == \E values \in Buffers(tape) : TickOn(values)

\* Back to power-on.
Reset ==
  /\ inputs' = Low(tape)
  /\ state' = tape.reg_initial
  /\ outs' = PowerOnOutputs(tape)
  /\ UNCHANGED tape

Next ==
  \/ \E i \in InputIds(tape), value \in BOOLEAN : SetInput(i, value)
  \/ Tick
  \/ Reset

Spec == Init /\ [][Next]_syncVars
=============================================================================
