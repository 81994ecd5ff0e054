---------------------------- MODULE EventEngine ----------------------------
(***************************************************************************)
(* The event-driven engine: a tick re-evaluates only the gates in the cone *)
(* of what changed, level by level, from per-level worklists.              *)
(*                                                                         *)
(* A bucket is a Vec of slots in the code. Its order plays no part in what *)
(* the engine promises, so it is a bag here: bucket[s] counts the entries  *)
(* of slot s in the bucket of its level, draining[s] those in the bucket   *)
(* taken by the level being processed, which is drained in any order.      *)
(***************************************************************************)
EXTENDS Tape

CONSTANT Tapes  \* the compiled circuits an engine may be given

ASSUME TapesAssumption == \A t \in Tapes : TapeContract(t)

VARIABLES
  tape,
  values,      \* the value buffer
  reg_scratch, \* next register values, captured at the end of a tick
  queued,      \* the dedup bitmask
  bucket, draining,
  phase,       \* "idle" between calls, "sweep" and "drain" inside tick()
  level,       \* the level the sweep has reached
  evaluated,   \* history: the gates evaluated in this tick
  outs         \* history: what output() returns to the caller

vars == <<tape, values, reg_scratch, queued, bucket, draining, phase, level,
          evaluated, outs>>

\* Mutant: no dedup.
EnqueueTwice(flags, slots) ==
  /\ bucket' = [s \in Slots(tape) |-> IF s \in slots THEN bucket[s] + 1 ELSE bucket[s]]
  /\ queued' = flags \cup slots

\* Each slot in `slots` whose flag is down is flagged and pushed to its bucket.
enqueue(flags, slots) ==
  /\ bucket' = [s \in Slots(tape) |->
                  IF s \in slots \ flags THEN bucket[s] + 1 ELSE bucket[s]]
  /\ queued' = flags \cup slots

Empty(t) == [s \in Slots(t) |-> 0]

\* Power-on: every gate queued once, since none was ever evaluated.
PowerOn(t) ==
  [values |-> initial_values(t), queued |-> GateSlots(t),
   bucket |-> [s \in Slots(t) |-> IF s \in GateSlots(t) THEN 1 ELSE 0]]

Init ==
  /\ tape \in Tapes
  /\ values = PowerOn(tape).values
  /\ reg_scratch = tape.reg_initial
  /\ queued = PowerOn(tape).queued
  /\ bucket = PowerOn(tape).bucket
  /\ draining = Empty(tape)
  /\ phase = "idle" /\ level = 0
  /\ evaluated = {}
  /\ outs = OutputsOf(tape, values)

reset ==
  /\ phase = "idle"
  /\ values' = PowerOn(tape).values
  /\ reg_scratch' = tape.reg_initial
  /\ queued' = PowerOn(tape).queued
  /\ bucket' = PowerOn(tape).bucket
  /\ outs' = OutputsOf(tape, values')
  /\ UNCHANGED <<tape, draining, phase, level, evaluated>>

\* Sources whose value changes dirty their dependents.
Dependents(changed) == UNION {successors(tape, s) : s \in changed}

\* Mutant: the dependents are not queued.
WriteSourcesSilent(new) == values' = new /\ UNCHANGED <<queued, bucket>>

WriteSources(new) ==
  LET changed == {s \in Slots(tape) : values[s] # new[s]}
  IN  values' = new /\ enqueue(queued, Dependents(changed))

set_input(i, value) ==
  /\ phase = "idle"
  /\ WriteSources([values EXCEPT ![tape.input_slots[i]] = value])
  /\ outs' = OutputsOf(tape, values')
  /\ UNCHANGED <<tape, reg_scratch, draining, phase, level, evaluated>>

\* Mutant: the captured registers are not applied.
ClockEdgeLost ==
  /\ phase = "idle"
  /\ phase' = "sweep" /\ level' = 0 /\ evaluated' = {}
  /\ UNCHANGED <<tape, values, queued, bucket, reg_scratch, draining, outs>>

\* tick() starts: the captured registers reach their output slots.
ClockEdge ==
  /\ phase = "idle"
  /\ WriteSources(apply_edge(tape, values, reg_scratch))
  /\ phase' = "sweep" /\ level' = 0 /\ evaluated' = {}
  /\ UNCHANGED <<tape, reg_scratch, draining, outs>>

AtLevel(s) == tape.slot_level[s] = level

\* buckets.len(): the sweep ends above the level of every slot.
SweepDone == \A s \in Slots(tape) : tape.slot_level[s] < level

\* The level's bucket is moved out, an empty one left in its place.
TakeBucket ==
  /\ phase = "sweep" /\ ~SweepDone
  /\ draining' = [s \in Slots(tape) |-> IF AtLevel(s) THEN bucket[s] ELSE 0]
  /\ bucket' = [s \in Slots(tape) |-> IF AtLevel(s) THEN 0 ELSE bucket[s]]
  /\ phase' = "drain"
  /\ UNCHANGED <<tape, values, reg_scratch, queued, level, evaluated, outs>>

\* Mutant: the flag stays up.
DrainKeepsFlag(g) ==
  /\ phase = "drain" /\ draining[g] > 0
  /\ draining' = [draining EXCEPT ![g] = @ - 1]
  /\ evaluated' = evaluated \cup {g}
  /\ LET value == eval_gate(tape, values, g)
     IN  /\ values' = [values EXCEPT ![g] = value]
         /\ enqueue(queued, IF values[g] # value THEN successors(tape, g) ELSE {})
  /\ UNCHANGED <<tape, reg_scratch, phase, level, outs>>

\* Mutant: a gate that changed is queued with its dependents.
DrainRequeues(g) ==
  /\ phase = "drain" /\ draining[g] > 0
  /\ draining' = [draining EXCEPT ![g] = @ - 1]
  /\ evaluated' = evaluated \cup {g}
  /\ LET value == eval_gate(tape, values, g)
     IN  /\ values' = [values EXCEPT ![g] = value]
         /\ enqueue(queued \ {g},
                    IF values[g] # value THEN {g} \cup successors(tape, g) ELSE {})
  /\ UNCHANGED <<tape, reg_scratch, phase, level, outs>>

\* One entry of the taken bucket: the flag is cleared, the gate evaluated,
\* and if its value changed its dependents are queued.
DrainSlot(g) ==
  /\ phase = "drain" /\ draining[g] > 0
  /\ draining' = [draining EXCEPT ![g] = @ - 1]
  /\ evaluated' = evaluated \cup {g}
  /\ LET value == eval_gate(tape, values, g)
     IN  /\ values' = [values EXCEPT ![g] = value]
         /\ enqueue(queued \ {g},
                    IF values[g] # value THEN successors(tape, g) ELSE {})
  /\ UNCHANGED <<tape, reg_scratch, phase, level, outs>>

\* Mutant: a level is skipped.
LevelSkipped ==
  /\ phase = "drain" /\ draining = Empty(tape)
  /\ bucket' = [s \in Slots(tape) |-> IF AtLevel(s) THEN 0 ELSE bucket[s]]
  /\ phase' = "sweep" /\ level' = level + 2
  /\ UNCHANGED <<tape, values, reg_scratch, queued, draining, evaluated, outs>>

\* Mutant: the sweep visits the same level again.
LevelRepeated ==
  /\ phase = "drain" /\ draining = Empty(tape)
  /\ phase' = "sweep"
  /\ UNCHANGED <<tape, values, reg_scratch, queued, bucket, draining, level, evaluated, outs>>

\* The drained Vec is handed back over the level's bucket: whatever was
\* pushed there meanwhile would be lost.
LevelDone ==
  /\ phase = "drain" /\ draining = Empty(tape)
  /\ bucket' = [s \in Slots(tape) |-> IF AtLevel(s) THEN 0 ELSE bucket[s]]
  /\ phase' = "sweep" /\ level' = level + 1
  /\ UNCHANGED <<tape, values, reg_scratch, queued, draining, evaluated, outs>>

\* Mutant: the registers are captured before the sweep is complete.
CaptureEarly ==
  /\ phase = "sweep"
  /\ reg_scratch' = capture_next(tape, values)
  /\ outs' = OutputsOf(tape, values)
  /\ phase' = "idle" /\ level' = 0
  /\ UNCHANGED <<tape, values, queued, bucket, draining, evaluated>>

\* tick() ends: the next register values are captured.
Capture ==
  /\ phase = "sweep" /\ SweepDone
  /\ reg_scratch' = capture_next(tape, values)
  /\ outs' = OutputsOf(tape, values)
  /\ phase' = "idle" /\ level' = 0
  /\ UNCHANGED <<tape, values, queued, bucket, draining, evaluated>>

TickStep ==
  \/ TakeBucket
  \/ \E g \in Slots(tape) : DrainSlot(g)
  \/ LevelDone
  \/ Capture

Next ==
  \/ \E i \in InputIds(tape), value \in BOOLEAN : set_input(i, value)
  \/ reset
  \/ ClockEdge
  \/ TickStep

\* tick() runs to its end once it is called; nobody has to call it.
Spec == Init /\ [][Next]_vars /\ WF_vars(TickStep)

-----------------------------------------------------------------------------
TypeOK ==
  /\ TapeContract(tape)
  /\ values \in Buffers(tape)
  /\ reg_scratch \in [Registers(tape) -> BOOLEAN]
  /\ queued \subseteq GateSlots(tape)
  /\ bucket \in [Slots(tape) -> {0, 1}] /\ draining \in [Slots(tape) -> {0, 1}]
  /\ phase \in {"idle", "sweep", "drain"} /\ level \in Nat
  /\ evaluated \subseteq GateSlots(tape)
  /\ outs \in [OutputIds(tape) -> BOOLEAN]

\* The dedup bitmask and the worklists agree: a flagged slot is in exactly one
\* worklist, once, and a slot that is not flagged is in none. A flag left up
\* would keep a dirty gate out of the worklists for ever.
QueueExact ==
  \A s \in Slots(tape) : bucket[s] + draining[s] = IF s \in queued THEN 1 ELSE 0

\* "Everything outside the cone provably cannot change": at every moment,
\* inside a tick too, a gate that is not queued already has the value its
\* operands call for.
CleanGatesSettled ==
  \A g \in GateSlots(tape) \ queued : values[g] = eval_gate(tape, values, g)

\* One ascending sweep is a complete settle: nothing is queued behind the
\* sweep, and a bucket does not grow while it is drained (the debug_assert
\* of tick()), so LevelDone loses nothing.
SweepAscends ==
  /\ phase = "sweep" => \A s \in queued : tape.slot_level[s] >= level
  /\ phase = "drain" => \A s \in Slots(tape) : bucket[s] > 0 => tape.slot_level[s] > level
  /\ \A s \in Slots(tape) : draining[s] > 0 => phase = "drain" /\ AtLevel(s)

\* "A gate is evaluated at most once per tick": a gate this tick has
\* evaluated is not queued again before the tick ends.
EvaluatedOnce == phase # "idle" => evaluated \cap queued = {}

\* Inside a tick the register outputs hold the captured values.
EdgeHeld ==
  phase # "idle" =>
    \A r \in Registers(tape) : values[tape.reg_out_slots[r]] = reg_scratch[r]

\* The inductive invariant behind the properties above. The worklists, the
\* flags and the values only stay exact together: a gate may be dropped from
\* the worklists because the sweep is past its level and its value is right.
IInv ==
  /\ TypeOK /\ QueueExact /\ CleanGatesSettled /\ SweepAscends
  /\ EdgeHeld /\ ConstsHeld(tape, values)
  /\ phase = "idle" => outs = OutputsOf(tape, values)
  /\ phase # "idle" => \A s \in evaluated :
       /\ s \notin queued
       /\ tape.slot_level[s] <= level
       /\ phase = "sweep" => tape.slot_level[s] < level

\* The engine is a synchronous machine: seen through set_input, output, tick
\* and reset it does what the Engine trait promises.
Abs == INSTANCE Sync WITH
  inputs <- [i \in InputIds(tape) |-> values[tape.input_slots[i]]],
  state  <- reg_scratch
ImplementsSync == Abs!Spec

\* A tick that has begun ends.
TickCompletes == phase # "idle" ~> phase = "idle"
=============================================================================
