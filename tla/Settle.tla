------------------------------- MODULE Settle -------------------------------
(***************************************************************************)
(* A value buffer settled as the scalar engine's run loop does it.         *)
(***************************************************************************)
EXTENDS Tape, Integers

\* The buffer after each gate of the tape, in slot order; first as it is
\* before any.
sweep(t, values) ==
  LET after[g \in t.gate_start - 1 .. slot_count(t)] ==
        IF g < t.gate_start THEN values
        ELSE LET v == after[g - 1] IN [v EXCEPT ![g] = eval_gate(t, v, g)]
  IN  after

\* Every gate of the buffer evaluated.
settle(t, values) == sweep(t, values)[slot_count(t)]
=============================================================================
