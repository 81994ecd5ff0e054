--------------------------- MODULE ThreadedEngine ---------------------------
(***************************************************************************)
(* The level-parallel engine and, with a threshold above the width of      *)
(* every level, the scalar one: a tick recomputes every gate, level after  *)
(* level. A narrow level runs on the calling thread, run by run; a wide    *)
(* one is shared out among the workers of the rayon pool, who evaluate its *)
(* slots in any order and meet at the end of the level.                    *)
(*                                                                         *)
(* A worker reads its operands in one step and writes its slot in another, *)
(* so that a write between the two is seen.                                *)
(***************************************************************************)
EXTENDS Tape

CONSTANTS
  Tapes,      \* the compiled circuits an engine may be given
  Thresholds, \* the widths a client may tune it to
  Workers     \* the threads of the pool

ASSUME TapesAssumption == \A t \in Tapes : TapeContract(t) /\ ScheduleContract(t)
ASSUME ThresholdsAssumption == Thresholds \subseteq Nat

VARIABLES
  tape,
  parallel_threshold,
  values,      \* the value buffer
  reg_scratch, \* next register values, captured at the end of a tick
  phase,       \* "idle" between calls; "levels", "runs", "parallel" in tick()
  level,       \* index of the current level
  run, slot,   \* position of the calling thread in a narrow level
  claimed,     \* slots of a wide level handed to a worker
  job,         \* the slot each worker is evaluating, NoSlot if none
  loaded,      \* the value each worker has computed for it
  outs         \* history: what output() returns to the caller

position == <<phase, level, run, slot>>
workers == <<claimed, job, loaded>>
config == <<tape, parallel_threshold>>
vars == <<config, values, reg_scratch, position, workers, outs>>

Level == tape.levels[level]

\* Mutant: the whole rest of the buffer is shared out at once.
SlotsToTheEnd == Level.start .. slot_count(tape)

SlotsOfLevel == LevelSlots(tape, level)
Width == Level.end - Level.start

Init ==
  /\ tape \in Tapes
  /\ \E threshold \in Thresholds :  \* with_threshold: at least 1
       parallel_threshold = IF threshold = 0 THEN 1 ELSE threshold
  /\ values = initial_values(tape)
  /\ reg_scratch = tape.reg_initial
  /\ phase = "idle" /\ level = 1 /\ run = 1 /\ slot = 1
  /\ claimed = {} /\ job = [w \in Workers |-> NoSlot] /\ loaded = [w \in Workers |-> FALSE]
  /\ outs = OutputsOf(tape, values)

reset ==
  /\ phase = "idle"
  /\ values' = initial_values(tape)
  /\ reg_scratch' = tape.reg_initial
  /\ outs' = OutputsOf(tape, values')
  /\ UNCHANGED <<config, position, workers>>

set_input(i, value) ==
  /\ phase = "idle"
  /\ values' = [values EXCEPT ![tape.input_slots[i]] = value]
  /\ outs' = OutputsOf(tape, values')
  /\ UNCHANGED <<config, reg_scratch, position, workers>>

\* Mutant: the captured registers are not applied.
ClockEdgeLost ==
  /\ phase = "idle"
  /\ phase' = "levels" /\ level' = 1
  /\ UNCHANGED <<config, values, reg_scratch, run, slot, workers, outs>>

\* tick() starts: the captured registers reach their output slots.
ClockEdge ==
  /\ phase = "idle"
  /\ values' = apply_edge(tape, values, reg_scratch)
  /\ phase' = "levels" /\ level' = 1
  /\ UNCHANGED <<config, reg_scratch, run, slot, workers, outs>>

InTick(p) == phase = p /\ UNCHANGED <<config, reg_scratch, outs>>

EnterNarrowLevel ==
  /\ InTick("levels") /\ level <= Len(tape.levels)
  /\ Width < parallel_threshold
  /\ phase' = "runs"
  /\ run' = Level.run_start /\ slot' = tape.runs[run'].start
  /\ UNCHANGED <<values, level, workers>>

\* One gate of eval_run: the operation and its arity are the run's.
EvalSlot ==
  /\ InTick("runs") /\ slot < tape.runs[run].end
  /\ LET op == tape.runs[run].op
         b == IF arity(op) > 1 THEN values[tape.b[slot]] ELSE FALSE
         c == IF arity(op) > 2 THEN values[tape.c[slot]] ELSE FALSE
     IN  values' = [values EXCEPT ![slot] = Apply(op, values[tape.a[slot]], b, c)]
  /\ slot' = slot + 1
  /\ UNCHANGED <<phase, level, run, workers>>

\* Mutant: a run is skipped.
RunSkipped ==
  /\ InTick("runs") /\ slot = tape.runs[run].end
  /\ run + 1 < Level.run_end
  /\ run' = run + 1 /\ slot' = tape.runs[run'].end
  /\ UNCHANGED <<values, phase, level, workers>>

NextRun ==
  /\ InTick("runs") /\ slot = tape.runs[run].end
  /\ run + 1 < Level.run_end
  /\ run' = run + 1 /\ slot' = tape.runs[run'].start
  /\ UNCHANGED <<values, phase, level, workers>>

\* Mutant: the level after a narrow one is skipped.
NarrowLevelSkips ==
  /\ InTick("runs") /\ slot = tape.runs[run].end
  /\ run + 1 = Level.run_end
  /\ phase' = "levels" /\ level' = level + 2
  /\ UNCHANGED <<values, run, slot, workers>>

NarrowLevelDone ==
  /\ InTick("runs") /\ slot = tape.runs[run].end
  /\ run + 1 = Level.run_end
  /\ phase' = "levels" /\ level' = level + 1
  /\ UNCHANGED <<values, run, slot, workers>>

\* The level's slots are split off the buffer and handed to the pool.
EnterWideLevel ==
  /\ InTick("levels") /\ level <= Len(tape.levels)
  /\ Width >= parallel_threshold
  /\ phase' = "parallel" /\ claimed' = {}
  /\ UNCHANGED <<values, level, run, slot, job, loaded>>

\* Mutant: slots are not handed out exclusively.
LoadShared(w) ==
  /\ InTick("parallel") /\ job[w] = NoSlot
  /\ \E g \in SlotsOfLevel :
       /\ claimed' = claimed \cup {g}
       /\ job' = [job EXCEPT ![w] = g]
       /\ loaded' = [loaded EXCEPT ![w] = eval_gate(tape, values, g)]
  /\ UNCHANGED <<values, position>>

\* A worker takes a slot and computes it from the lower part of the buffer.
Load(w) ==
  /\ InTick("parallel") /\ job[w] = NoSlot
  /\ \E g \in SlotsOfLevel \ claimed :
       /\ claimed' = claimed \cup {g}
       /\ job' = [job EXCEPT ![w] = g]
       /\ loaded' = [loaded EXCEPT ![w] = eval_gate(tape, values, g)]
  /\ UNCHANGED <<values, position>>

\* Mutant: a finished job is never reported.
StoreUnreported(w) ==
  /\ InTick("parallel") /\ job[w] # NoSlot
  /\ values' = [values EXCEPT ![job[w]] = loaded[w]]
  /\ UNCHANGED <<position, claimed, job, loaded>>

Store(w) ==
  /\ InTick("parallel") /\ job[w] # NoSlot
  /\ values' = [values EXCEPT ![job[w]] = loaded[w]]
  /\ job' = [job EXCEPT ![w] = NoSlot]
  /\ UNCHANGED <<position, claimed, loaded>>

\* Mutant: the level ends when its last slot is handed out.
BarrierEarly ==
  /\ InTick("parallel") /\ claimed = SlotsOfLevel
  /\ phase' = "levels" /\ level' = level + 1
  /\ UNCHANGED <<values, run, slot, workers>>

\* for_each returns when every slot of the level has been written.
Barrier ==
  /\ InTick("parallel") /\ claimed = SlotsOfLevel
  /\ \A w \in Workers : job[w] = NoSlot
  /\ phase' = "levels" /\ level' = level + 1
  /\ UNCHANGED <<values, run, slot, workers>>

\* tick() ends: the next register values are captured.
Capture ==
  /\ phase = "levels" /\ level > Len(tape.levels)
  /\ reg_scratch' = capture_next(tape, values)
  /\ outs' = OutputsOf(tape, values)
  /\ phase' = "idle"
  /\ UNCHANGED <<config, values, level, run, slot, workers>>

TickStep ==
  \/ EnterNarrowLevel \/ EvalSlot \/ NextRun \/ NarrowLevelDone
  \/ EnterWideLevel \/ Barrier
  \/ \E w \in Workers : Load(w) \/ Store(w)
  \/ Capture

Next ==
  \/ \E i \in InputIds(tape), value \in BOOLEAN : set_input(i, value)
  \/ reset
  \/ ClockEdge
  \/ TickStep

\* The calling thread runs tick() to its end, and the pool runs every job.
Spec == Init /\ [][Next]_vars /\ WF_vars(TickStep)

-----------------------------------------------------------------------------
TypeOK ==
  /\ TapeContract(tape) /\ ScheduleContract(tape)
  /\ values \in Buffers(tape)
  /\ reg_scratch \in [Registers(tape) -> BOOLEAN]
  /\ phase \in {"idle", "levels", "runs", "parallel"}
  /\ parallel_threshold \in Nat \ {0}
  /\ level \in 1 .. Len(tape.levels) + 1
  /\ claimed \subseteq GateSlots(tape)
  /\ job \in [Workers -> GateSlots(tape) \cup {NoSlot}]
  /\ loaded \in [Workers -> BOOLEAN]
  /\ outs \in [OutputIds(tape) -> BOOLEAN]

Busy(w) == job[w] # NoSlot

\* "Gates of the current level only read slots below level.start and write
\* their own range, which split_at_mut hands out disjointly": what a worker
\* reads unchecked, the padding operand of a narrow gate included, lies in
\* the lower part of the buffer, and no two workers write the same slot.
DataRaceFree ==
  phase = "parallel" => \A w \in Workers : Busy(w) =>
    /\ {tape.a[job[w]], tape.b[job[w]], tape.c[job[w]]} \subseteq 1 .. Level.start - 1
    /\ job[w] \in SlotsOfLevel
    /\ \A other \in Workers \ {w} : job[other] # job[w]

\* A value computed before another worker's write is still the right one
\* when it is stored.
LoadedStaysFresh ==
  \A w \in Workers : Busy(w) => loaded[w] = eval_gate(tape, values, job[w])

\* "Gates within one level are independent": once the level barrier is
\* passed, every gate of the levels behind it has settled for good, on the
\* narrow and on the wide path alike, and in any mix of the two.
LevelsBehindSettled ==
  phase # "idle" => \A k \in 1 .. level - 1 :
    \A g \in LevelSlots(tape, k) :
      values[g] = eval_gate(tape, values, g)

\* Inside a tick the register outputs hold the captured values.
EdgeHeld ==
  phase # "idle" =>
    \A r \in Registers(tape) : values[tape.reg_out_slots[r]] = reg_scratch[r]

SettledAt(g) == values[g] = eval_gate(tape, values, g)

\* On a narrow level the gates before the current one have settled.
NarrowProgress ==
  phase = "runs" =>
    /\ level <= Len(tape.levels)
    /\ run \in Level.run_start .. Level.run_end - 1
    /\ slot \in tape.runs[run].start .. tape.runs[run].end
    /\ \A g \in Level.start .. slot - 1 : SettledAt(g)

\* On a wide level the gates handed out have settled, but for those some
\* worker still holds.
WideProgress ==
  /\ phase = "parallel" =>
       /\ level <= Len(tape.levels)
       /\ claimed \subseteq SlotsOfLevel
       /\ \A w \in Workers : Busy(w) => job[w] \in claimed
       /\ \A g \in claimed : SettledAt(g) \/ \E w \in Workers : job[w] = g
  /\ phase # "parallel" => \A w \in Workers : ~Busy(w)

\* The inductive invariant behind the properties above.
IInv ==
  /\ TypeOK /\ DataRaceFree /\ LoadedStaysFresh /\ LevelsBehindSettled
  /\ EdgeHeld /\ ConstsHeld(tape, values)
  /\ NarrowProgress /\ WideProgress
  /\ phase = "idle" => outs = OutputsOf(tape, values)

\* The engine is a synchronous machine, whatever the threshold and the
\* scheduling of the workers.
Abs == INSTANCE Sync WITH
  inputs <- [i \in InputIds(tape) |-> values[tape.input_slots[i]]],
  state  <- reg_scratch
ImplementsSync == Abs!Spec

\* A tick that has begun ends: no level waits for a worker for ever.
TickCompletes == phase # "idle" ~> phase = "idle"
=============================================================================
