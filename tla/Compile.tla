------------------------------ MODULE Compile ------------------------------
(***************************************************************************)
(* Compiled::new on an already optimized circuit: levelize, schedule by    *)
(* (level, op, signal), lay the tape out, group it into runs and levels,   *)
(* wire registers and outputs, and build the CSR successor map.            *)
(***************************************************************************)
EXTENDS Netlist, Tape

MaxOf(S) == CHOOSE x \in S \cup {0} : \A y \in S : y <= x

\* Mutant: only the first operand counts.
LevelizeFirstOperand(c) ==
  LET level[n \in 0 .. Len(c.insts)] ==
        IF n = 0 THEN <<>>
        ELSE LET before == level[n - 1]
                 inst   == c.insts[n]
             IN  Append(before, IF IsGate(inst) THEN 1 + before[inst.ins[1]] ELSE 0)
  IN  level[Len(c.insts)]

\* Level of every signal: 0 for sources, one above its operands for a gate.
Levelize(c) ==
  LET level[n \in 0 .. Len(c.insts)] ==
        IF n = 0 THEN <<>>
        ELSE LET before == level[n - 1]
                 inst   == c.insts[n]
             IN  Append(before, IF IsGate(inst)
                                THEN 1 + MaxOf({before[s] : s \in Operands(inst)})
                                ELSE 0)
  IN  level[Len(c.insts)]

\* The signals that come before signal s in the schedule, and s itself.
UpTo(c, level, s) ==
  LET key(u) == IF IsGate(c.insts[u]) THEN OpKey[c.insts[u].op] ELSE 0
  IN  {u \in Insts(c) : \/ level[u] < level[s]
                        \/ level[u] = level[s] /\ key(u) < key(s)
                        \/ level[u] = level[s] /\ key(u) = key(s) /\ u <= s}

\* The place of each signal in the schedule.
SlotOrder(c, level) == [s \in Insts(c) |-> Cardinality(UpTo(c, level, s))]

\* The maximal ranges of the gate slots, which are contiguous, on which `key`
\* is constant: each ends where the next one starts.
Segments(gates, key) ==
  LET starts == Ascending({g \in gates : g - 1 \in gates => key[g - 1] # key[g]})
  IN  [k \in DOMAIN starts |->
         [start |-> starts[k],
          end   |-> IF k < Len(starts) THEN starts[k + 1] ELSE MaxOf(gates) + 1]]

\* Mutant: a run goes on past the end of its level.
RunsAcrossLevels(gates, ops, slot_level) ==
  LET segments == Segments(gates, ops)
  IN  [k \in DOMAIN segments |->
         [op |-> ops[segments[k].start], start |-> segments[k].start, end |-> segments[k].end]]

Runs(gates, ops, slot_level) ==
  LET segments == Segments(gates, [g \in gates |-> <<slot_level[g], ops[g]>>])
  IN  [k \in DOMAIN segments |->
         [op |-> ops[segments[k].start], start |-> segments[k].start, end |-> segments[k].end]]

\* The levels of the schedule, each with its half-open range of runs.
LevelsOf(gates, slot_level, runs) ==
  LET segments == Segments(gates, slot_level)
      before(slot) == Cardinality({k \in DOMAIN runs : runs[k].start < slot})
  IN  [k \in DOMAIN segments |->
         [start |-> segments[k].start, end |-> segments[k].end,
          run_start |-> before(segments[k].start) + 1,
          run_end |-> before(segments[k].end) + 1]]

\* The CSR rows: for each slot its dependent gates in slot order, a gate
\* once per operand that names the slot.
SuccessorRows(n, gates, operand) ==
  [s \in 1 .. n |->
     FlattenSeq([g \in 1 .. n |->
       IF g \in gates
       THEN [i \in 1 .. Cardinality({i \in DOMAIN operand[g] : operand[g][i] = s}) |-> g]
       ELSE <<>>])]

Compiled(c) ==
  LET n        == Len(c.insts)
      level    == Levelize(c)
      schedule == Ordered(1 .. n, SlotOrder(c, level))
      pos      == [s \in 1 .. n |-> CHOOSE slot \in 1 .. n : schedule[slot] = s]
      inst     == [slot \in 1 .. n |-> c.insts[schedule[slot]]]
      gates    == {slot \in 1 .. n : IsGate(inst[slot])}
      operand  == [slot \in 1 .. n |-> IF slot \in gates
                     THEN [i \in DOMAIN inst[slot].ins |-> pos[inst[slot].ins[i]]] ELSE <<>>]
      nth(i)   == [slot \in 1 .. n |-> IF i \in DOMAIN operand[slot] THEN operand[slot][i] ELSE 1]
      ops      == [slot \in 1 .. n |-> IF slot \in gates THEN inst[slot].op ELSE "Buf"]
      slot_level == [slot \in 1 .. n |-> level[schedule[slot]]]
      runs     == Runs(gates, ops, slot_level)
      rows     == SuccessorRows(n, gates, operand)
      consts   == Ascending({slot \in 1 .. n : inst[slot].kind = "Const"})
      slotOf(source) == IF \E slot \in 1 .. n : inst[slot] = source
                        THEN CHOOSE slot \in 1 .. n : inst[slot] = source ELSE NoSlot
  IN  [a |-> nth(1), b |-> nth(2), c |-> nth(3), ops |-> ops,
       gate_start    |-> CHOOSE s \in gates \cup {n + 1} : \A g \in gates : s <= g,
       runs          |-> runs,
       levels        |-> LevelsOf(gates, slot_level, runs),
       input_slots   |-> [i \in 1 .. c.input_count |-> slotOf(Input(i))],
       const_slots   |-> [k \in DOMAIN consts |-> <<consts[k], inst[consts[k]].value>>],
       reg_out_slots |-> [r \in DOMAIN c.regs |-> slotOf(RegisterOutput(r))],
       reg_in_slots  |-> [r \in DOMAIN c.regs |-> pos[c.regs[r].data]],
       reg_initial   |-> [r \in DOMAIN c.regs |-> c.regs[r].initial],
       output_slots  |-> [o \in DOMAIN c.outputs |-> pos[c.outputs[o]]],
       succ_offsets  |-> [s \in 1 .. n + 1 |-> Len(FlattenSeq(SubSeq(rows, 1, s - 1)))],
       succ          |-> FlattenSeq(rows),
       slot_level    |-> slot_level]
=============================================================================
