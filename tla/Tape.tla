-------------------------------- MODULE Tape --------------------------------
(***************************************************************************)
(* The compiled tape every engine runs: the fields of struct Compiled and  *)
(* what the engines rely on when they index with them unchecked.           *)
(*                                                                         *)
(* A tape is a record with the fields of Compiled. Slots, inputs,          *)
(* registers, outputs, runs and levels count from 1; ranges are half open  *)
(* as in the code.                                                         *)
(***************************************************************************)
EXTENDS Gates, Sequences

NoSlot == 0  \* u32::MAX in reg_out_slots and input_slots

slot_count(t) == Len(t.ops)
Slots(t) == 1 .. slot_count(t)
GateSlots(t) == t.gate_start .. slot_count(t)
Sources(t) == Slots(t) \ GateSlots(t)
InputIds(t) == 1 .. Len(t.input_slots)
Registers(t) == 1 .. Len(t.reg_out_slots)
OutputIds(t) == 1 .. Len(t.output_slots)

\* The slots of level k.
LevelSlots(t, k) == t.levels[k].start .. t.levels[k].end - 1

\* The operand slots gate g reads.
OperandsOf(t, g) ==
  {t.a[g]} \cup (IF arity(t.ops[g]) > 1 THEN {t.b[g]} ELSE {})
           \cup (IF arity(t.ops[g]) > 2 THEN {t.c[g]} ELSE {})

\* Row `slot` of the CSR successor map.
successors(t, slot) ==
  {t.succ[i] : i \in t.succ_offsets[slot] + 1 .. t.succ_offsets[slot + 1]}

\* The value of gate g computed from the value buffer.
eval_gate(t, values, g) ==
  LET b == IF arity(t.ops[g]) > 1 THEN values[t.b[g]] ELSE FALSE
      c == IF arity(t.ops[g]) > 2 THEN values[t.c[g]] ELSE FALSE
  IN  Apply(t.ops[g], values[t.a[g]], b, c)

Buffers(t) == [Slots(t) -> BOOLEAN]
Settled(t, values) == \A g \in GateSlots(t) : values[g] = eval_gate(t, values, g)

\* The value of a slot in a fresh buffer: constants and register initials
\* applied, everything else low.
initial_values(t) ==
  [s \in Slots(t) |->
     \/ \E k \in DOMAIN t.const_slots : t.const_slots[k] = <<s, TRUE>>
     \/ \E r \in Registers(t) : t.reg_out_slots[r] = s /\ t.reg_initial[r]]

\* The clock edge: latched register values scattered to the output slots.
apply_edge(t, values, scratch) ==
  [s \in Slots(t) |->
     IF \E r \in Registers(t) : t.reg_out_slots[r] = s
     THEN scratch[CHOOSE r \in Registers(t) : t.reg_out_slots[r] = s]
     ELSE values[s]]

\* The next register values, read from the settled buffer.
capture_next(t, values) == [r \in Registers(t) |-> values[t.reg_in_slots[r]]]

\* What output() returns, for every output.
OutputsOf(t, values) == [o \in OutputIds(t) |-> values[t.output_slots[o]]]

ConstsHeld(t, values) ==
  \A k \in DOMAIN t.const_slots : values[t.const_slots[k][1]] = t.const_slots[k][2]

-----------------------------------------------------------------------------
(* What Compiled::new promises the engines.                                *)

FieldsTyped(t) ==
  /\ slot_count(t) \in Nat /\ t.gate_start \in 1 .. slot_count(t) + 1
  /\ t.ops \in [Slots(t) -> GateOp]
  /\ t.a \in [Slots(t) -> Slots(t)]
  /\ t.b \in [Slots(t) -> Slots(t)]
  /\ t.c \in [Slots(t) -> Slots(t)]
  /\ t.slot_level \in [Slots(t) -> Nat]
  /\ Len(t.input_slots) \in Nat /\ t.input_slots \in [InputIds(t) -> Slots(t)]
  /\ Len(t.reg_out_slots) \in Nat /\ t.reg_out_slots \in [Registers(t) -> Slots(t)]
  /\ t.reg_in_slots \in [Registers(t) -> Slots(t)]
  /\ t.reg_initial \in [Registers(t) -> BOOLEAN]
  /\ Len(t.output_slots) \in Nat /\ t.output_slots \in [OutputIds(t) -> Slots(t)]
  /\ Len(t.const_slots) \in Nat
  /\ t.const_slots \in [1 .. Len(t.const_slots) -> Slots(t) \X BOOLEAN]

\* The operand validation: strictly earlier slots at strictly lower levels.
OperandsBelow(t) ==
  \A g \in GateSlots(t) : \A s \in OperandsOf(t, g) :
    s < g /\ t.slot_level[s] < t.slot_level[g]

\* A gate is a successor of a slot exactly when it reads that slot.
SuccessorsExact(t) ==
  \A s \in Slots(t) : successors(t, s) = {g \in GateSlots(t) : s \in OperandsOf(t, g)}

\* Inputs, constants and register outputs are sources, none of them twice.
SourcesDisjoint(t) ==
  /\ \A i \in InputIds(t) : t.input_slots[i] \in Sources(t)
  /\ \A r \in Registers(t) : t.reg_out_slots[r] \in Sources(t)
  /\ \A k \in DOMAIN t.const_slots : t.const_slots[k][1] \in Sources(t)
  /\ \A i, j \in InputIds(t) : t.input_slots[i] = t.input_slots[j] => i = j
  /\ \A q, r \in Registers(t) : t.reg_out_slots[q] = t.reg_out_slots[r] => q = r
  /\ \A j, k \in DOMAIN t.const_slots : t.const_slots[j][1] = t.const_slots[k][1] => j = k
  /\ \A i \in InputIds(t), r \in Registers(t) : t.input_slots[i] # t.reg_out_slots[r]
  /\ \A k \in DOMAIN t.const_slots :
       /\ \A i \in InputIds(t) : t.input_slots[i] # t.const_slots[k][1]
       /\ \A r \in Registers(t) : t.reg_out_slots[r] # t.const_slots[k][1]

\* There are no other sources, and their operation is Buf, which is not run.
SourcesNamed(t) ==
  \A s \in Sources(t) :
    /\ t.ops[s] = "Buf"
    /\ \/ \E i \in InputIds(t) : t.input_slots[i] = s
       \/ \E r \in Registers(t) : t.reg_out_slots[r] = s
       \/ \E k \in DOMAIN t.const_slots : t.const_slots[k][1] = s

TapeContract(t) ==
  FieldsTyped(t) /\ OperandsBelow(t) /\ SuccessorsExact(t) /\ SourcesDisjoint(t) /\ SourcesNamed(t)

\* What the engines that sweep the whole tape rely on besides: slots are in
\* level order, a level is all the gates of one level number, its runs
\* follow one another from its first slot to its last, each of one
\* operation, there are no other runs, and absent operands point at the
\* first slot.
LevelsExact(t) ==
  /\ Len(t.levels) \in Nat
  /\ \A s, u \in Slots(t) : s < u => t.slot_level[s] <= t.slot_level[u]
  /\ \A g \in GateSlots(t) : t.slot_level[g] \in 1 .. Len(t.levels)
  /\ \A k \in 1 .. Len(t.levels) :
       /\ t.levels[k].start \in Nat /\ t.levels[k].end \in Nat
       /\ t.levels[k].start < t.levels[k].end
       /\ LevelSlots(t, k) = {g \in GateSlots(t) : t.slot_level[g] = k}

LevelRunsExact(t) ==
  \A k \in 1 .. Len(t.levels) : LET level == t.levels[k] IN
    /\ level.run_start \in Nat /\ level.run_end \in Nat
    /\ level.run_start < level.run_end
    /\ t.runs[level.run_start].start = level.start
    /\ t.runs[level.run_end - 1].end = level.end
    /\ \A r \in level.run_start .. level.run_end - 1 : LET run == t.runs[r] IN
         /\ run.start \in Nat /\ run.end \in Nat
         /\ level.start <= run.start /\ run.start < run.end /\ run.end <= level.end
         /\ r + 1 < level.run_end => t.runs[r + 1].start = run.end
         /\ \A g \in run.start .. run.end - 1 : t.ops[g] = run.op

RunsExact(t) ==
  /\ Len(t.runs) \in Nat /\ DOMAIN t.runs = 1 .. Len(t.runs)
  /\ \A k \in 1 .. Len(t.levels) : t.levels[k].run_start .. t.levels[k].run_end - 1 \subseteq DOMAIN t.runs
  /\ \A r \in DOMAIN t.runs : \E k \in 1 .. Len(t.levels) :
       r \in t.levels[k].run_start .. t.levels[k].run_end - 1
  /\ \A q, r \in DOMAIN t.runs : q < r => t.runs[q].end <= t.runs[r].start
  /\ \A g \in GateSlots(t) : \E r \in DOMAIN t.runs : g \in t.runs[r].start .. t.runs[r].end - 1

PaddingFirst(t) ==
  \A g \in GateSlots(t) :
    (arity(t.ops[g]) < 2 => t.b[g] = 1) /\ (arity(t.ops[g]) < 3 => t.c[g] = 1)

ScheduleContract(t) == LevelsExact(t) /\ LevelRunsExact(t) /\ RunsExact(t) /\ PaddingFirst(t)
=============================================================================
