------------------------ MODULE ThreadedEngine_proofs ------------------------
(***************************************************************************)
(* Proofs about the level-parallel engine, for every set of tapes that     *)
(* keep the contract of the tape compiler, every threshold and every set   *)
(* of workers.                                                             *)
(***************************************************************************)
EXTENDS ThreadedEngine, Tape_proofs

\* A slot is a positive number, so NoSlot is none.
LEMMA GatesAreNotNoSlot ==
  ASSUME NEW t, TapeContract(t)
  PROVE  NoSlot \notin GateSlots(t)
BY DEF TapeContract, FieldsTyped, GateSlots, NoSlot

\* Outside a wide level the workers hold nothing.
LEMMA IdleWorkers ==
  ASSUME IInv, phase # "parallel", phase' # "parallel", workers' = workers
  PROVE  DataRaceFree' /\ LoadedStaysFresh' /\ WideProgress'
<1>1. job' = job
  BY DEF workers
<1>2. \A w \in Workers : job[w] = NoSlot
  BY DEF IInv, WideProgress, Busy
<1>. QED BY <1>1, <1>2 DEF DataRaceFree, LoadedStaysFresh, WideProgress, Busy

\* A step inside a tick that writes no source slot keeps the constants and
\* the applied edge.
LEMMA SourcesKept ==
  ASSUME IInv, phase # "idle", tape' = tape, reg_scratch' = reg_scratch,
         \A s \in Slots(tape) \ GateSlots(tape) : values'[s] = values[s]
  PROVE  EdgeHeld' /\ ConstsHeld(tape, values)'
<1>1. TapeContract(tape)
  BY DEF IInv, TypeOK
<1>2. EdgeHeld'
  BY <1>1, SlotKinds DEF IInv, EdgeHeld
<1>3. \A k \in DOMAIN tape.const_slots :
        tape.const_slots[k][1] \in Slots(tape) \ GateSlots(tape)
  BY <1>1 DEF TapeContract, SourcesDisjoint, Sources
<1>4. ConstsHeld(tape, values)'
  BY <1>3 DEF IInv, ConstsHeld
<1>. QED BY <1>2, <1>4

\* Writing to a gate of the current level the value its operands call for
\* keeps what has settled, in the levels behind and in this one.
LEMMA GateWritten ==
  ASSUME IInv, level \in 1 .. Len(tape.levels), phase # "idle",
         NEW g \in LevelSlots(tape, level), tape' = tape, level' = level,
         reg_scratch' = reg_scratch,
         values' = [values EXCEPT ![g] = eval_gate(tape, values, g)]
  PROVE  /\ values' \in Buffers(tape)
         /\ EdgeHeld' /\ ConstsHeld(tape, values)' /\ LevelsBehindSettled'
         /\ \A h \in LevelSlots(tape, level) :
              /\ eval_gate(tape, values', h) = eval_gate(tape, values, h)
              /\ h = g \/ SettledAt(h) => SettledAt(h)'
<1>1. /\ TapeContract(tape) /\ ScheduleContract(tape) /\ values \in Buffers(tape)
      /\ LevelsBehindSettled
  BY DEF IInv, TypeOK
<1>2. \A k \in 1 .. Len(tape.levels) : \A h \in LevelSlots(tape, k) :
        h \in GateSlots(tape) /\ tape.slot_level[h] = k
  BY <1>1, LevelReadsBelow
<1>3. /\ values' \in Buffers(tape)
      /\ \A s \in Slots(tape) : s # g => values'[s] = values[s]
      /\ \A h \in GateSlots(tape) : tape.slot_level[h] <= level =>
           /\ eval_gate(tape, values', h) = eval_gate(tape, values, h)
           /\ h = g \/ values[h] = eval_gate(tape, values, h)
                => values'[h] = eval_gate(tape, values', h)
  <2>1. g \in GateSlots(tape) /\ tape.slot_level[g] = level
    BY <1>2
  <2>. DEFINE w == [values EXCEPT ![g] = eval_gate(tape, values, g)]
  <2>2. /\ w \in Buffers(tape)
        /\ \A s \in Slots(tape) : s # g => w[s] = values[s]
        /\ \A h \in GateSlots(tape) : tape.slot_level[h] <= tape.slot_level[g] =>
             /\ eval_gate(tape, w, h) = eval_gate(tape, values, h)
             /\ h = g \/ values[h] = eval_gate(tape, values, h)
                  => w[h] = eval_gate(tape, w, h)
    BY <1>1, <2>1, WriteSettles
  <2>3. values' = w
    OBVIOUS
  <2>. HIDE DEF w
  <2>. QED BY <2>1, <2>2, <2>3
<1>4. EdgeHeld' /\ ConstsHeld(tape, values)'
  BY <1>2, <1>3, SourcesKept
<1>5. LevelsBehindSettled'
  <2>. SUFFICES ASSUME NEW k \in 1 .. level - 1, NEW h \in LevelSlots(tape, k), phase' # "idle"
                PROVE  values'[h] = eval_gate(tape, values', h)
    BY DEF LevelsBehindSettled
  <2>1. Len(tape.levels) \in Nat
    BY <1>1 DEF ScheduleContract, LevelsExact
  <2>2. k \in 1 .. Len(tape.levels) /\ k <= level
    BY <2>1
  <2>3. h \in GateSlots(tape) /\ tape.slot_level[h] <= level
    BY <1>2, <2>2
  <2>4. values[h] = eval_gate(tape, values, h)
    BY <1>1 DEF LevelsBehindSettled
  <2>. QED BY <1>3, <2>3, <2>4
<1>6. \A h \in LevelSlots(tape, level) :
        h \in GateSlots(tape) /\ tape.slot_level[h] <= level
  BY <1>2
<1>. QED BY <1>3, <1>4, <1>5, <1>6 DEF SettledAt

-----------------------------------------------------------------------------
(* The inductive invariant.                                                *)

\* The invariant holds at power-on.
LEMMA InitInv == Init => IInv
<1>. SUFFICES ASSUME Init PROVE IInv
  OBVIOUS
<1>. USE DEF Init
<1>1. TapeContract(tape) /\ ScheduleContract(tape)
  BY TapesAssumption
<1>2. TypeOK
  <2>1. reg_scratch \in [Registers(tape) -> BOOLEAN]
    BY <1>1 DEF TapeContract, FieldsTyped
  <2>2. parallel_threshold \in Nat \ {0}
    BY ThresholdsAssumption
  <2>3. level \in 1 .. Len(tape.levels) + 1
    BY <1>1 DEF ScheduleContract, LevelsExact
  <2>4. outs \in [OutputIds(tape) -> BOOLEAN] /\ values \in Buffers(tape)
    BY <1>1, InitialSources, ReadsTyped
  <2>5. job \in [Workers -> GateSlots(tape) \cup {NoSlot}] /\ loaded \in [Workers -> BOOLEAN]
    OBVIOUS
  <2>. QED BY <1>1, <2>1, <2>2, <2>3, <2>4, <2>5 DEF TypeOK
<1>3. ConstsHeld(tape, values)
  BY <1>1, InitialSources
<1>. QED BY <1>1, <1>2, <1>3
         DEF IInv, DataRaceFree, LoadedStaysFresh, LevelsBehindSettled, EdgeHeld,
             NarrowProgress, WideProgress, Busy

\* One step per action keeps the invariant.
LEMMA NextInv == IInv /\ [Next]_vars => IInv'
<1>. SUFFICES ASSUME IInv, [Next]_vars PROVE IInv'
  OBVIOUS
<1>0. /\ TypeOK /\ TapeContract(tape) /\ ScheduleContract(tape) /\ LevelsBehindSettled
      /\ EdgeHeld /\ ConstsHeld(tape, values) /\ NarrowProgress /\ WideProgress
      /\ Len(tape.levels) \in Nat /\ level \in Nat
  <2>1. TypeOK /\ TapeContract(tape) /\ ScheduleContract(tape)
    BY DEF IInv, TypeOK
  <2>2. Len(tape.levels) \in Nat
    BY <2>1 DEF ScheduleContract, LevelsExact
  <2>3. level \in Nat
    BY <2>1, <2>2 DEF TypeOK
  <2>. QED BY <2>1, <2>2, <2>3 DEF IInv
<1>1. ASSUME NEW i \in InputIds(tape), NEW value \in BOOLEAN, set_input(i, value)
      PROVE  IInv'
  <2>. DEFINE s == tape.input_slots[i]
  <2>1. /\ phase = "idle" /\ phase' = phase /\ values' = [values EXCEPT ![s] = value]
        /\ tape' = tape /\ parallel_threshold' = parallel_threshold
        /\ reg_scratch' = reg_scratch /\ level' = level /\ workers' = workers
        /\ outs' = OutputsOf(tape, values')
    BY <1>1 DEF set_input, config, position
  <2>2. values' \in Buffers(tape)
    BY <1>0, <2>1, SlotKinds DEF TypeOK, Buffers
  <2>3. TypeOK'
    BY <1>0, <2>1, <2>2, ReadsTyped DEF TypeOK, workers
  <2>4. ConstsHeld(tape, values)'
    <3>1. ASSUME NEW k \in DOMAIN tape.const_slots
          PROVE  values'[tape.const_slots[k][1]] = values[tape.const_slots[k][1]]
      <4>1. tape.const_slots[k][1] \in Slots(tape) /\ tape.const_slots[k][1] # s
        BY <1>0 DEF TapeContract, SourcesDisjoint, Sources
      <4>. QED BY <1>0, <2>1, <4>1 DEF TypeOK, Buffers
    <3>. QED BY <1>0, <2>1, <3>1 DEF ConstsHeld
  <2>5. DataRaceFree' /\ LoadedStaysFresh' /\ WideProgress'
    BY <2>1, IdleWorkers
  <2>. QED BY <2>1, <2>3, <2>4, <2>5 DEF IInv, LevelsBehindSettled, EdgeHeld, NarrowProgress
<1>2. ASSUME reset PROVE IInv'
  <2>1. /\ phase = "idle" /\ phase' = phase /\ values' = initial_values(tape)
        /\ tape' = tape /\ parallel_threshold' = parallel_threshold
        /\ reg_scratch' = tape.reg_initial /\ level' = level /\ workers' = workers
        /\ outs' = OutputsOf(tape, values')
    BY <1>2 DEF reset, config, position
  <2>2. values' \in Buffers(tape) /\ ConstsHeld(tape, values)'
    BY <1>0, <2>1, InitialSources DEF ConstsHeld
  <2>3. TypeOK'
    <3>1. reg_scratch' \in [Registers(tape) -> BOOLEAN]
      BY <1>0, <2>1 DEF TapeContract, FieldsTyped
    <3>. QED BY <1>0, <2>1, <2>2, <3>1, ReadsTyped DEF TypeOK, workers
  <2>5. DataRaceFree' /\ LoadedStaysFresh' /\ WideProgress'
    BY <2>1, IdleWorkers
  <2>. QED BY <2>1, <2>2, <2>3, <2>5 DEF IInv, LevelsBehindSettled, EdgeHeld, NarrowProgress
<1>3. ASSUME ClockEdge PROVE IInv'
  <2>1. /\ phase = "idle" /\ phase' = "levels" /\ level' = 1
        /\ values' = apply_edge(tape, values, reg_scratch)
        /\ tape' = tape /\ parallel_threshold' = parallel_threshold
        /\ reg_scratch' = reg_scratch /\ workers' = workers /\ outs' = outs
    BY <1>3 DEF ClockEdge, config
  <2>2. /\ values' \in Buffers(tape)
        /\ \A r \in Registers(tape) : values'[tape.reg_out_slots[r]] = reg_scratch[r]
        /\ \A s \in Slots(tape) :
             (\A r \in Registers(tape) : tape.reg_out_slots[r] # s) => values'[s] = values[s]
    BY <1>0, <2>1, EdgeWrites DEF TypeOK
  <2>3. TypeOK'
    BY <1>0, <2>1, <2>2 DEF TypeOK, workers
  <2>4. EdgeHeld' /\ ConstsHeld(tape, values)'
    BY <1>0, <2>1, <2>2 DEF EdgeHeld, ConstsHeld, TapeContract, SourcesDisjoint, FieldsTyped
  <2>5. DataRaceFree' /\ LoadedStaysFresh' /\ WideProgress'
    BY <2>1, IdleWorkers
  <2>6. LevelsBehindSettled' /\ NarrowProgress'
    BY <2>1 DEF LevelsBehindSettled, NarrowProgress
  <2>. QED BY <2>1, <2>3, <2>4, <2>5, <2>6 DEF IInv
<1>4. ASSUME EnterNarrowLevel PROVE IInv'
  <2>1. /\ phase = "levels" /\ phase' = "runs" /\ level' = level /\ level <= Len(tape.levels)
        /\ run' = Level.run_start /\ slot' = tape.runs[run'].start
        /\ values' = values /\ tape' = tape /\ parallel_threshold' = parallel_threshold
        /\ reg_scratch' = reg_scratch /\ workers' = workers /\ outs' = outs
    BY <1>4 DEF EnterNarrowLevel, InTick, config
  <2>2. TypeOK'
    BY <1>0, <2>1 DEF TypeOK, workers
  <2>3. EdgeHeld' /\ ConstsHeld(tape, values)' /\ LevelsBehindSettled'
    BY <1>0, <2>1 DEF EdgeHeld, ConstsHeld, LevelsBehindSettled
  <2>4. DataRaceFree' /\ LoadedStaysFresh' /\ WideProgress'
    BY <2>1, IdleWorkers
  <2>5. NarrowProgress'
    <3>1. level \in 1 .. Len(tape.levels)
      BY <1>0, <2>1 DEF TypeOK
    <3>2. /\ Level.run_start \in Nat /\ Level.run_end \in Nat /\ Level.run_start < Level.run_end
          /\ tape.runs[Level.run_start].start = Level.start /\ Level.start \in Nat
          /\ tape.runs[Level.run_start].end \in Nat
          /\ tape.runs[Level.run_start].start < tape.runs[Level.run_start].end
      <4>1. Level.start \in Nat
        BY <1>0, <3>1 DEF ScheduleContract, LevelsExact, Level
      <4>2. /\ Level.run_start \in Nat /\ Level.run_end \in Nat /\ Level.run_start < Level.run_end
            /\ tape.runs[Level.run_start].start = Level.start
            /\ \A r \in Level.run_start .. Level.run_end - 1 :
                 tape.runs[r].end \in Nat /\ tape.runs[r].start < tape.runs[r].end
        BY <1>0, <3>1 DEF ScheduleContract, LevelRunsExact, Level
      <4>3. Level.run_start \in Level.run_start .. Level.run_end - 1
        BY <4>2
      <4>. QED BY <4>1, <4>2, <4>3
    <3>. QED BY <2>1, <3>2 DEF NarrowProgress, Level
  <2>. QED BY <2>1, <2>2, <2>3, <2>4, <2>5 DEF IInv
<1>5. ASSUME EvalSlot PROVE IInv'
  <2>. DEFINE op == tape.runs[run].op
  <2>1. /\ phase = "runs" /\ phase' = phase /\ level' = level /\ run' = run
        /\ slot < tape.runs[run].end /\ slot' = slot + 1
        /\ tape' = tape /\ parallel_threshold' = parallel_threshold
        /\ reg_scratch' = reg_scratch /\ workers' = workers /\ outs' = outs
    BY <1>5 DEF EvalSlot, InTick, config
  <2>2. /\ level \in 1 .. Len(tape.levels) /\ run \in Level.run_start .. Level.run_end - 1
        /\ slot \in tape.runs[run].start .. tape.runs[run].end
        /\ \A g \in Level.start .. slot - 1 : SettledAt(g)
    BY <1>0, <2>1 DEF NarrowProgress, TypeOK
  <2>3. /\ tape.runs[run].start \in Nat /\ tape.runs[run].end \in Nat
        /\ Level.start <= tape.runs[run].start /\ tape.runs[run].end <= Level.end
        /\ Level.start \in Nat /\ Level.end \in Nat
        /\ \A g \in tape.runs[run].start .. tape.runs[run].end - 1 : tape.ops[g] = op
    BY <1>0, <2>2 DEF ScheduleContract, LevelRunsExact, LevelsExact, Level
  <2>4. slot \in LevelSlots(tape, level) /\ tape.ops[slot] = op
    <3>1. slot \in tape.runs[run].start .. tape.runs[run].end - 1
      BY <2>1, <2>2, <2>3
    <3>2. slot \in Level.start .. Level.end - 1
      BY <2>3, <3>1
    <3>. QED BY <2>3, <3>1, <3>2 DEF LevelSlots, Level
  <2>5. values' = [values EXCEPT ![slot] = eval_gate(tape, values, slot)]
    BY <1>5, <2>4 DEF EvalSlot, eval_gate
  <2>6. /\ values' \in Buffers(tape)
        /\ EdgeHeld' /\ ConstsHeld(tape, values)' /\ LevelsBehindSettled'
        /\ \A h \in LevelSlots(tape, level) : h = slot \/ SettledAt(h) => SettledAt(h)'
    BY <2>1, <2>2, <2>4, <2>5, GateWritten
  <2>7. TypeOK'
    BY <1>0, <2>1, <2>6 DEF TypeOK, workers
  <2>8. DataRaceFree' /\ LoadedStaysFresh' /\ WideProgress'
    BY <2>1, IdleWorkers
  <2>9. NarrowProgress'
    <3>1. \A g \in Level.start .. slot : g \in LevelSlots(tape, level)
      BY <2>2, <2>3, <2>4 DEF LevelSlots, Level
    <3>2. \A g \in Level.start .. slot : SettledAt(g)'
      BY <2>2, <2>3, <2>6, <3>1
    <3>. QED BY <2>1, <2>2, <2>3, <3>2 DEF NarrowProgress, Level
  <2>. QED BY <2>1, <2>6, <2>7, <2>8, <2>9 DEF IInv
<1>6. ASSUME NextRun PROVE IInv'
  <2>1. /\ phase = "runs" /\ phase' = phase /\ level' = level
        /\ slot = tape.runs[run].end /\ run + 1 < Level.run_end
        /\ run' = run + 1 /\ slot' = tape.runs[run + 1].start
        /\ values' = values /\ tape' = tape /\ parallel_threshold' = parallel_threshold
        /\ reg_scratch' = reg_scratch /\ workers' = workers /\ outs' = outs
    BY <1>6 DEF NextRun, InTick, config
  <2>2. TypeOK'
    BY <1>0, <2>1 DEF TypeOK, workers
  <2>3. EdgeHeld' /\ ConstsHeld(tape, values)' /\ LevelsBehindSettled'
    BY <1>0, <2>1 DEF EdgeHeld, ConstsHeld, LevelsBehindSettled
  <2>4. DataRaceFree' /\ LoadedStaysFresh' /\ WideProgress'
    BY <2>1, IdleWorkers
  <2>5. NarrowProgress'
    <3>1. /\ level \in 1 .. Len(tape.levels) /\ run \in Level.run_start .. Level.run_end - 1
          /\ \A g \in Level.start .. slot - 1 : SettledAt(g)
      BY <1>0, <2>1 DEF NarrowProgress, TypeOK
    <3>2. /\ Level.run_start \in Nat /\ Level.run_end \in Nat
          /\ tape.runs[run + 1].start = tape.runs[run].end
      BY <1>0, <2>1, <3>1 DEF ScheduleContract, LevelRunsExact, Level
    <3>3. run + 1 \in Level.run_start .. Level.run_end - 1
      BY <2>1, <3>1, <3>2
    <3>4. tape.runs[run + 1].start \in tape.runs[run + 1].start .. tape.runs[run + 1].end
      BY <1>0, <3>1, <3>3 DEF ScheduleContract, LevelRunsExact, Level
    <3>. QED BY <2>1, <3>1, <3>2, <3>3, <3>4 DEF NarrowProgress, Level, SettledAt
  <2>. QED BY <2>1, <2>2, <2>3, <2>4, <2>5 DEF IInv
<1>7. ASSUME NarrowLevelDone PROVE IInv'
  <2>1. /\ phase = "runs" /\ phase' = "levels" /\ level' = level + 1
        /\ slot = tape.runs[run].end /\ run + 1 = Level.run_end
        /\ values' = values /\ tape' = tape /\ parallel_threshold' = parallel_threshold
        /\ reg_scratch' = reg_scratch /\ workers' = workers /\ outs' = outs
    BY <1>7 DEF NarrowLevelDone, InTick, config
  <2>2. /\ level \in 1 .. Len(tape.levels) /\ run \in Level.run_start .. Level.run_end - 1
        /\ \A g \in Level.start .. slot - 1 : SettledAt(g)
    BY <1>0, <2>1 DEF NarrowProgress, TypeOK
  <2>3. slot = Level.end
    <3>1. Level.run_start \in Nat /\ Level.run_end \in Nat
          /\ tape.runs[Level.run_end - 1].end = Level.end
      BY <1>0, <2>2 DEF ScheduleContract, LevelRunsExact, Level
    <3>2. run = Level.run_end - 1
      BY <2>1, <2>2, <3>1
    <3>. QED BY <2>1, <3>1, <3>2
  <2>4. TypeOK'
    BY <1>0, <2>1, <2>2 DEF TypeOK, workers
  <2>5. EdgeHeld' /\ ConstsHeld(tape, values)'
    BY <1>0, <2>1 DEF EdgeHeld, ConstsHeld
  <2>6. LevelsBehindSettled'
    BY <1>0, <2>1, <2>2, <2>3 DEF LevelsBehindSettled, SettledAt, LevelSlots, Level
  <2>7. DataRaceFree' /\ LoadedStaysFresh' /\ WideProgress'
    BY <2>1, IdleWorkers
  <2>. QED BY <2>1, <2>4, <2>5, <2>6, <2>7 DEF IInv, NarrowProgress
<1>8. ASSUME EnterWideLevel PROVE IInv'
  <2>1. /\ phase = "levels" /\ phase' = "parallel" /\ level' = level /\ level <= Len(tape.levels)
        /\ claimed' = {} /\ job' = job /\ loaded' = loaded
        /\ values' = values /\ tape' = tape /\ parallel_threshold' = parallel_threshold
        /\ reg_scratch' = reg_scratch /\ outs' = outs
    BY <1>8 DEF EnterWideLevel, InTick, config
  <2>2. \A w \in Workers : job[w] = NoSlot
    BY <1>0, <2>1 DEF WideProgress, Busy
  <2>3. TypeOK'
    BY <1>0, <2>1 DEF TypeOK
  <2>4. EdgeHeld' /\ ConstsHeld(tape, values)' /\ LevelsBehindSettled'
    BY <1>0, <2>1 DEF EdgeHeld, ConstsHeld, LevelsBehindSettled
  <2>5. DataRaceFree' /\ LoadedStaysFresh' /\ WideProgress' /\ NarrowProgress'
    BY <2>1, <2>2 DEF DataRaceFree, LoadedStaysFresh, WideProgress, NarrowProgress, Busy
  <2>. QED BY <2>1, <2>3, <2>4, <2>5 DEF IInv
<1>9. ASSUME NEW w \in Workers, Load(w) PROVE IInv'
  <2>1. PICK g \in SlotsOfLevel \ claimed :
          /\ claimed' = claimed \cup {g}
          /\ job' = [job EXCEPT ![w] = g]
          /\ loaded' = [loaded EXCEPT ![w] = eval_gate(tape, values, g)]
    BY <1>9 DEF Load
  <2>2. /\ phase = "parallel" /\ phase' = phase /\ level' = level /\ job[w] = NoSlot
        /\ values' = values /\ tape' = tape /\ parallel_threshold' = parallel_threshold
        /\ reg_scratch' = reg_scratch /\ outs' = outs
    BY <1>9 DEF Load, InTick, config, position
  <2>3. /\ level \in 1 .. Len(tape.levels) /\ claimed \subseteq SlotsOfLevel
        /\ \A x \in Workers : Busy(x) => job[x] \in claimed
        /\ \A h \in claimed : SettledAt(h) \/ \E x \in Workers : job[x] = h
    BY <1>0, <2>2 DEF WideProgress, TypeOK
  <2>4. /\ g \in GateSlots(tape)
        /\ {tape.a[g], tape.b[g], tape.c[g]} \subseteq 1 .. Level.start - 1
    BY <1>0, <2>3, LevelReadsBelow DEF SlotsOfLevel, Level
  <2>5. job \in [Workers -> GateSlots(tape) \cup {NoSlot}] /\ loaded \in [Workers -> BOOLEAN]
    BY <1>0 DEF TypeOK
  <2>6. /\ job'[w] = g /\ loaded'[w] = eval_gate(tape, values, g)
        /\ \A x \in Workers : x # w => job'[x] = job[x] /\ loaded'[x] = loaded[x]
    BY <2>1, <2>5
  <2>7. TypeOK'
    <3>1. job' \in [Workers -> GateSlots(tape) \cup {NoSlot}]
      BY <2>1, <2>4, <2>5
    <3>2. loaded' \in [Workers -> BOOLEAN]
      BY <2>1, <2>5, EvalType
    <3>3. claimed' \subseteq GateSlots(tape)
      BY <1>0, <2>1, <2>4 DEF TypeOK
    <3>. QED BY <1>0, <2>2, <3>1, <3>2, <3>3 DEF TypeOK
  <2>8. EdgeHeld' /\ ConstsHeld(tape, values)' /\ LevelsBehindSettled'
    BY <1>0, <2>2 DEF EdgeHeld, ConstsHeld, LevelsBehindSettled
  <2>9. DataRaceFree'
    <3>1. DataRaceFree
      BY DEF IInv
    <3>. SUFFICES ASSUME NEW x \in Workers, job'[x] # NoSlot
                  PROVE  /\ {tape.a[job'[x]], tape.b[job'[x]], tape.c[job'[x]]}
                              \subseteq 1 .. Level.start - 1
                         /\ job'[x] \in SlotsOfLevel
                         /\ \A other \in Workers \ {x} : job'[other] # job'[x]
      BY <2>2 DEF DataRaceFree, Busy, SlotsOfLevel, Level
    <3>2. CASE x = w
      <4>1. \A other \in Workers \ {w} : job[other] # g
        BY <2>1, <2>3, <2>4, <1>0, GatesAreNotNoSlot DEF Busy
      <4>. QED BY <2>1, <2>4, <2>6, <3>2, <4>1
    <3>3. CASE x # w
      <4>1. job'[x] = job[x] /\ Busy(x) /\ job[x] \in claimed
        BY <2>3, <2>6, <3>3 DEF Busy
      <4>2. job[x] # g
        BY <2>1, <4>1
      <4>3. /\ {tape.a[job[x]], tape.b[job[x]], tape.c[job[x]]} \subseteq 1 .. Level.start - 1
            /\ job[x] \in SlotsOfLevel
            /\ \A other \in Workers \ {x} : job[other] # job[x]
        BY <2>2, <3>1, <4>1 DEF DataRaceFree
      <4>. QED BY <2>6, <4>1, <4>2, <4>3
    <3>. QED BY <3>2, <3>3
  <2>10. LoadedStaysFresh'
    <3>. SUFFICES ASSUME NEW x \in Workers, job'[x] # NoSlot
                  PROVE  loaded'[x] = eval_gate(tape, values, job'[x])
      BY <2>2 DEF LoadedStaysFresh, Busy
    <3>1. x # w => loaded[x] = eval_gate(tape, values, job[x])
      BY <2>6 DEF IInv, LoadedStaysFresh, Busy
    <3>. QED BY <2>6, <3>1
  <2>11. WideProgress'
    <3>1. \A h \in claimed' : SettledAt(h) \/ \E x \in Workers : job'[x] = h
      <4>. SUFFICES ASSUME NEW h \in claimed, ~SettledAt(h)
                    PROVE  \E x \in Workers : job'[x] = h
        BY <2>1, <2>6
      <4>1. PICK x \in Workers : job[x] = h
        BY <2>3
      <4>2. h \in GateSlots(tape)
        BY <1>0 DEF TypeOK
      <4>3. x # w
        BY <1>0, <2>2, <4>1, <4>2, GatesAreNotNoSlot
      <4>. QED BY <2>6, <4>1, <4>3
    <3>2. \A x \in Workers : job'[x] # NoSlot => job'[x] \in claimed'
      BY <2>1, <2>3, <2>6 DEF Busy
    <3>3. claimed' \subseteq SlotsOfLevel
      BY <2>1, <2>3
    <3>. QED BY <2>2, <2>3, <3>1, <3>2, <3>3
             DEF WideProgress, Busy, SettledAt, SlotsOfLevel
  <2>. QED BY <2>2, <2>7, <2>8, <2>9, <2>10, <2>11 DEF IInv, NarrowProgress
<1>10. ASSUME NEW w \in Workers, Store(w) PROVE IInv'
  <2>. DEFINE g == job[w]
  <2>1. /\ phase = "parallel" /\ phase' = phase /\ level' = level /\ g # NoSlot
        /\ job' = [job EXCEPT ![w] = NoSlot]
        /\ claimed' = claimed /\ loaded' = loaded
        /\ tape' = tape /\ parallel_threshold' = parallel_threshold
        /\ reg_scratch' = reg_scratch /\ outs' = outs
    BY <1>10 DEF Store, InTick, config, position
  <2>2. /\ level \in 1 .. Len(tape.levels) /\ claimed \subseteq SlotsOfLevel
        /\ \A x \in Workers : Busy(x) => job[x] \in claimed
        /\ \A h \in claimed : SettledAt(h) \/ \E x \in Workers : job[x] = h
    BY <1>0, <2>1 DEF WideProgress, TypeOK
  <2>3. g \in LevelSlots(tape, level)
    BY <2>1, <2>2 DEF Busy, SlotsOfLevel
  <2>4. values' = [values EXCEPT ![g] = eval_gate(tape, values, g)]
    <3>1. loaded[w] = eval_gate(tape, values, g)
      BY <2>1 DEF IInv, LoadedStaysFresh, Busy
    <3>. QED BY <1>10, <3>1 DEF Store
  <2>5. /\ values' \in Buffers(tape)
        /\ EdgeHeld' /\ ConstsHeld(tape, values)' /\ LevelsBehindSettled'
        /\ \A h \in LevelSlots(tape, level) :
             /\ eval_gate(tape, values', h) = eval_gate(tape, values, h)
             /\ h = g \/ SettledAt(h) => SettledAt(h)'
    BY <2>1, <2>2, <2>3, <2>4, GateWritten
  <2>6. job \in [Workers -> GateSlots(tape) \cup {NoSlot}]
    BY <1>0 DEF TypeOK
  <2>7. job'[w] = NoSlot /\ \A x \in Workers : x # w => job'[x] = job[x]
    BY <2>1, <2>6
  <2>8. TypeOK'
    <3>1. job' \in [Workers -> GateSlots(tape) \cup {NoSlot}]
      BY <2>1, <2>6
    <3>. QED BY <1>0, <2>1, <2>5, <3>1 DEF TypeOK
  <2>9. DataRaceFree'
    <3>1. DataRaceFree
      BY DEF IInv
    <3>. SUFFICES ASSUME NEW x \in Workers, job'[x] # NoSlot
                  PROVE  /\ {tape.a[job'[x]], tape.b[job'[x]], tape.c[job'[x]]}
                              \subseteq 1 .. Level.start - 1
                         /\ job'[x] \in SlotsOfLevel
                         /\ \A other \in Workers \ {x} : job'[other] # job'[x]
      BY <2>1 DEF DataRaceFree, Busy, SlotsOfLevel, Level
    <3>2. x # w /\ job'[x] = job[x] /\ Busy(x)
      BY <2>7 DEF Busy
    <3>3. /\ {tape.a[job[x]], tape.b[job[x]], tape.c[job[x]]} \subseteq 1 .. Level.start - 1
          /\ job[x] \in SlotsOfLevel
          /\ \A other \in Workers \ {x} : job[other] # job[x]
      BY <2>1, <3>1, <3>2 DEF DataRaceFree
    <3>. QED BY <2>7, <3>2, <3>3
  <2>10. LoadedStaysFresh'
    <3>. SUFFICES ASSUME NEW x \in Workers, job'[x] # NoSlot
                  PROVE  loaded[x] = eval_gate(tape, values', job'[x])
      BY <2>1 DEF LoadedStaysFresh, Busy
    <3>1. x # w /\ job'[x] = job[x] /\ Busy(x)
      BY <2>7 DEF Busy
    <3>2. loaded[x] = eval_gate(tape, values, job[x])
      BY <3>1 DEF IInv, LoadedStaysFresh
    <3>3. job[x] \in LevelSlots(tape, level)
      BY <2>2, <3>1 DEF SlotsOfLevel
    <3>. QED BY <2>5, <3>1, <3>2, <3>3
  <2>11. WideProgress'
    <3>1. \A h \in claimed : SettledAt(h)' \/ \E x \in Workers : job'[x] = h
      <4>. SUFFICES ASSUME NEW h \in claimed, ~SettledAt(h)'
                    PROVE  \E x \in Workers : job'[x] = h
        OBVIOUS
      <4>1. h # g /\ ~SettledAt(h)
        BY <2>2, <2>5 DEF SlotsOfLevel
      <4>2. PICK x \in Workers : job[x] = h
        BY <2>2, <4>1
      <4>. QED BY <2>7, <4>1, <4>2
    <3>2. \A x \in Workers : job'[x] # NoSlot => job'[x] \in claimed
      BY <2>2, <2>7 DEF Busy
    <3>. QED BY <2>1, <2>2, <3>1, <3>2 DEF WideProgress, Busy, SlotsOfLevel
  <2>. QED BY <2>1, <2>5, <2>8, <2>9, <2>10, <2>11 DEF IInv, NarrowProgress
<1>11. ASSUME Barrier PROVE IInv'
  <2>1. /\ phase = "parallel" /\ phase' = "levels" /\ level' = level + 1
        /\ claimed = SlotsOfLevel /\ \A w \in Workers : job[w] = NoSlot
        /\ claimed' = claimed /\ job' = job /\ loaded' = loaded
        /\ values' = values /\ tape' = tape /\ parallel_threshold' = parallel_threshold
        /\ reg_scratch' = reg_scratch /\ outs' = outs
    BY <1>11 DEF Barrier, InTick, config, workers
  <2>2. /\ level \in 1 .. Len(tape.levels)
        /\ \A h \in SlotsOfLevel : SettledAt(h) \/ \E x \in Workers : job[x] = h
    BY <1>0, <2>1 DEF WideProgress, TypeOK
  <2>3. TypeOK'
    BY <1>0, <2>1, <2>2 DEF TypeOK
  <2>4. EdgeHeld' /\ ConstsHeld(tape, values)'
    BY <1>0, <2>1 DEF EdgeHeld, ConstsHeld
  <2>5. LevelsBehindSettled'
    <3>1. \A h \in LevelSlots(tape, level) : values[h] = eval_gate(tape, values, h)
      <4>1. \A h \in LevelSlots(tape, level) : h \in GateSlots(tape)
        BY <1>0, <2>2, LevelReadsBelow
      <4>. QED BY <1>0, <2>1, <2>2, <4>1, GatesAreNotNoSlot DEF SettledAt, SlotsOfLevel
    <3>. QED BY <1>0, <2>1, <3>1 DEF LevelsBehindSettled
  <2>6. DataRaceFree' /\ LoadedStaysFresh' /\ WideProgress' /\ NarrowProgress'
    BY <2>1 DEF DataRaceFree, LoadedStaysFresh, WideProgress, NarrowProgress, Busy
  <2>. QED BY <2>1, <2>3, <2>4, <2>5, <2>6 DEF IInv
<1>12. ASSUME Capture PROVE IInv'
  <2>1. /\ phase = "levels" /\ phase' = "idle" /\ level' = level
        /\ reg_scratch' = capture_next(tape, values) /\ outs' = OutputsOf(tape, values)
        /\ values' = values /\ tape' = tape /\ parallel_threshold' = parallel_threshold
        /\ workers' = workers
    BY <1>12 DEF Capture, config
  <2>2. TypeOK'
    BY <1>0, <2>1, ReadsTyped DEF TypeOK, workers
  <2>3. DataRaceFree' /\ LoadedStaysFresh' /\ WideProgress'
    BY <2>1, IdleWorkers
  <2>. QED BY <1>0, <2>1, <2>2, <2>3
           DEF IInv, EdgeHeld, ConstsHeld, LevelsBehindSettled, NarrowProgress
<1>13. CASE UNCHANGED vars
  BY <1>13 DEF vars, config, position, workers, IInv, TypeOK, DataRaceFree, LoadedStaysFresh,
               LevelsBehindSettled, EdgeHeld, ConstsHeld, NarrowProgress, WideProgress,
               Busy, SettledAt, Level, SlotsOfLevel
<1>. QED BY <1>1, <1>2, <1>3, <1>4, <1>5, <1>6, <1>7, <1>8, <1>9, <1>10, <1>11, <1>12, <1>13
         DEF Next, TickStep

\* The invariant holds of every behaviour of the engine.
THEOREM InvariantHolds == Spec => []IInv
<1>1. Init => IInv
  BY InitInv
<1>2. IInv /\ [Next]_vars => IInv'
  BY NextInv
<1>. QED BY <1>1, <1>2, PTL DEF Spec

\* Every variable of the engine stays typed: the position in the tape, the
\* jobs of the workers, the buffers.
THEOREM TypeCorrect == Spec => []TypeOK
<1>1. IInv => TypeOK
  BY DEF IInv
<1>. QED BY <1>1, InvariantHolds, PTL

\* The SAFETY comment of eval_gate, for every circuit and any number of
\* workers: what a worker reads unchecked lies below the level, and nobody
\* else writes its slot.
THEOREM NoDataRace == Spec => []DataRaceFree
<1>1. IInv => DataRaceFree
  BY DEF IInv
<1>. QED BY <1>1, InvariantHolds, PTL

\* No write of another worker changes what a worker has computed.
THEOREM NoStaleStore == Spec => []LoadedStaysFresh
<1>1. IInv => LoadedStaysFresh
  BY DEF IInv
<1>. QED BY <1>1, InvariantHolds, PTL

\* Levels behind the current one have settled, whichever path they took.
THEOREM LevelsSettle == Spec => []LevelsBehindSettled
<1>1. IInv => LevelsBehindSettled
  BY DEF IInv
<1>. QED BY <1>1, InvariantHolds, PTL

-----------------------------------------------------------------------------
(* Refinement of the synchronous machine.                                  *)

\* The abstract machine reads a tape as the engine does.
LEMMA SameReading ==
  ASSUME NEW t, NEW v
  PROVE  /\ Abs!Slots(t) = Slots(t) /\ Abs!InputIds(t) = InputIds(t)
         /\ Abs!Registers(t) = Registers(t) /\ Abs!OutputIds(t) = OutputIds(t)
         /\ Abs!Buffers(t) = Buffers(t)
         /\ Abs!OutputsOf(t, v) = OutputsOf(t, v)
         /\ Abs!capture_next(t, v) = capture_next(t, v)
         /\ Abs!initial_values(t) = initial_values(t)
         /\ Abs!Settled(t, v) <=> Settled(t, v)
         /\ Abs!ConstsHeld(t, v) <=> ConstsHeld(t, v)
<1>1. /\ Abs!Slots(t) = Slots(t) /\ Abs!InputIds(t) = InputIds(t)
      /\ Abs!Registers(t) = Registers(t) /\ Abs!OutputIds(t) = OutputIds(t)
      /\ Abs!GateSlots(t) = GateSlots(t)
  BY DEF Abs!Slots, Slots, Abs!slot_count, slot_count, Abs!InputIds, InputIds,
         Abs!Registers, Registers, Abs!OutputIds, OutputIds, Abs!GateSlots, GateSlots
<1>2. Abs!Buffers(t) = Buffers(t) /\ Abs!OutputsOf(t, v) = OutputsOf(t, v)
  BY <1>1 DEF Abs!Buffers, Buffers, Abs!OutputsOf, OutputsOf
<1>3. Abs!capture_next(t, v) = capture_next(t, v)
  BY <1>1 DEF Abs!capture_next, capture_next
<1>4. Abs!initial_values(t) = initial_values(t)
  BY <1>1 DEF Abs!initial_values, initial_values
<1>5. \A g : Abs!eval_gate(t, v, g) = eval_gate(t, v, g)
  BY DEF Abs!eval_gate, eval_gate, Abs!Apply, Apply, Abs!arity, arity, Abs!Unary, Unary
<1>6. Abs!Settled(t, v) <=> Settled(t, v)
  BY <1>1, <1>5 DEF Abs!Settled, Settled
<1>7. Abs!ConstsHeld(t, v) <=> ConstsHeld(t, v)
  BY DEF Abs!ConstsHeld, ConstsHeld
<1>. QED BY <1>1, <1>2, <1>3, <1>4, <1>6, <1>7

\* The abstract inputs are the contents of the input slots.
AbsInputs == [i \in InputIds(tape) |-> values[tape.input_slots[i]]]

\* The engine's initial states map to those of the synchronous machine.
LEMMA InitRefines == Init => Abs!Init
<1>. SUFFICES ASSUME Init PROVE Abs!Init
  OBVIOUS
<1>1. TapeContract(tape) /\ values = initial_values(tape)
  BY TapesAssumption DEF Init
<1>2. AbsInputs = [i \in InputIds(tape) |-> FALSE]
  BY <1>1, InitialSources DEF AbsInputs
<1>. QED BY <1>1, <1>2, SameReading
         DEF Init, Abs!Init, Abs!PoweredOn, Abs!Low, Abs!PowerOnOutputs, AbsInputs

\* A step that leaves the input slots, the captured registers and the shown
\* outputs alone is a stuttering step of the synchronous machine.
LEMMA Stutters ==
  ASSUME tape' = tape, reg_scratch' = reg_scratch, outs' = outs,
         \A i \in InputIds(tape) :
           values'[tape.input_slots[i]] = values[tape.input_slots[i]]
  PROVE  UNCHANGED Abs!syncVars
<1>1. AbsInputs' = AbsInputs
  BY DEF AbsInputs
<1>. QED BY <1>1 DEF Abs!syncVars, AbsInputs

\* Every step of the engine is a step of the synchronous machine or none.
LEMMA StepRefines == IInv /\ [Next]_vars => [Abs!Next]_(Abs!syncVars)
<1>. SUFFICES ASSUME IInv, [Next]_vars PROVE [Abs!Next]_(Abs!syncVars)
  OBVIOUS
<1>0. TapeContract(tape) /\ ScheduleContract(tape) /\ TypeOK
  BY DEF IInv, TypeOK
<1>1. ASSUME NEW i \in InputIds(tape), NEW value \in BOOLEAN, set_input(i, value)
      PROVE  Abs!Next
  <2>. DEFINE s == tape.input_slots[i]
  <2>1. /\ values' = [values EXCEPT ![s] = value] /\ outs' = OutputsOf(tape, values')
        /\ outs = OutputsOf(tape, values) /\ tape' = tape /\ reg_scratch' = reg_scratch
    BY <1>1 DEF set_input, config, IInv
  <2>2. s \in Slots(tape)
    BY <1>0, SlotKinds
  <2>3. \A x \in Slots(tape) : values'[x] = IF x = s THEN value ELSE values[x]
    BY <1>0, <2>1, <2>2 DEF TypeOK, Buffers
  <2>4. AbsInputs' = [AbsInputs EXCEPT ![i] = value]
    <3>1. \A j \in InputIds(tape) :
            values'[tape.input_slots[j]] = IF j = i THEN value ELSE values[tape.input_slots[j]]
      BY <1>0, <2>3, SlotKinds DEF TapeContract, SourcesDisjoint
    <3>. QED BY <2>1, <3>1 DEF AbsInputs
  <2>5. outs' = [o \in OutputIds(tape) |->
                   IF tape.output_slots[o] = s THEN value ELSE outs[o]]
    <3>1. \A o \in OutputIds(tape) : tape.output_slots[o] \in Slots(tape)
      BY <1>0 DEF TapeContract, FieldsTyped
    <3>2. \A o \in OutputIds(tape) : outs[o] = values[tape.output_slots[o]]
      BY <2>1 DEF OutputsOf
    <3>. QED BY <2>1, <2>3, <3>1, <3>2 DEF OutputsOf
  <2>6. Abs!SetInput(i, value)
    BY <2>1, <2>4, <2>5, SameReading DEF Abs!SetInput, AbsInputs
  <2>. QED BY <2>6, SameReading DEF Abs!Next
<1>2. ASSUME reset PROVE Abs!Next
  <2>1. /\ values' = initial_values(tape) /\ outs' = OutputsOf(tape, initial_values(tape))
        /\ tape' = tape /\ reg_scratch' = tape.reg_initial
    BY <1>2 DEF reset, config
  <2>2. AbsInputs' = [i \in InputIds(tape) |-> FALSE]
    BY <1>0, <2>1, InitialSources DEF AbsInputs
  <2>3. Abs!Reset
    BY <2>1, <2>2, SameReading DEF Abs!Reset, Abs!Low, Abs!PowerOnOutputs, AbsInputs
  <2>. QED BY <2>3 DEF Abs!Next
<1>3. ASSUME ClockEdge PROVE UNCHANGED Abs!syncVars
  <2>1. /\ values' = apply_edge(tape, values, reg_scratch)
        /\ tape' = tape /\ reg_scratch' = reg_scratch /\ outs' = outs
    BY <1>3 DEF ClockEdge, config
  <2>2. \A s \in Slots(tape) :
          (\A r \in Registers(tape) : tape.reg_out_slots[r] # s) => values'[s] = values[s]
    BY <1>0, <2>1, EdgeWrites DEF TypeOK
  <2>3. \A i \in InputIds(tape), r \in Registers(tape) :
          tape.reg_out_slots[r] # tape.input_slots[i]
    BY <1>0 DEF TapeContract, SourcesDisjoint
  <2>. QED BY <1>0, <2>1, <2>2, <2>3, SlotKinds, Stutters
<1>4. ASSUME EnterNarrowLevel \/ NextRun \/ NarrowLevelDone \/ EnterWideLevel \/ Barrier
             \/ \E w \in Workers : Load(w)
      PROVE  UNCHANGED Abs!syncVars
  BY <1>4, Stutters
     DEF EnterNarrowLevel, NextRun, NarrowLevelDone, EnterWideLevel, Barrier, Load,
         InTick, config
<1>5. ASSUME NEW g \in GateSlots(tape), InTick(phase),
             \E x : values' = [values EXCEPT ![g] = x]
      PROVE  UNCHANGED Abs!syncVars
  <2>1. \A i \in InputIds(tape) :
          tape.input_slots[i] \in Slots(tape) /\ tape.input_slots[i] # g
    BY <1>0, SlotKinds
  <2>2. values \in Buffers(tape)
    BY <1>0 DEF TypeOK
  <2>. QED BY <1>5, <2>1, <2>2, Stutters DEF Buffers, InTick, config
<1>6. ASSUME EvalSlot PROVE UNCHANGED Abs!syncVars
  <2>1. /\ phase = "runs" /\ InTick(phase) /\ slot < tape.runs[run].end
        /\ \E x : values' = [values EXCEPT ![slot] = x]
    BY <1>6 DEF EvalSlot, InTick
  <2>2. /\ level \in 1 .. Len(tape.levels) /\ run \in Level.run_start .. Level.run_end - 1
        /\ slot \in tape.runs[run].start .. tape.runs[run].end
    BY <1>0, <2>1 DEF IInv, NarrowProgress, TypeOK, ScheduleContract, LevelsExact
  <2>3. slot \in LevelSlots(tape, level)
    BY <1>0, <2>1, <2>2
       DEF ScheduleContract, LevelRunsExact, LevelsExact, LevelSlots, Level
  <2>4. slot \in GateSlots(tape)
    BY <1>0, <2>2, <2>3, LevelReadsBelow
  <2>. QED BY <1>5, <2>1, <2>4
<1>7. ASSUME NEW w \in Workers, Store(w) PROVE UNCHANGED Abs!syncVars
  <2>1. job[w] \in GateSlots(tape)
    BY <1>0, <1>7 DEF Store, TypeOK
  <2>2. InTick(phase) /\ \E x : values' = [values EXCEPT ![job[w]] = x]
    BY <1>7 DEF Store, InTick
  <2>. QED BY <1>5, <2>1, <2>2
<1>8. ASSUME Capture PROVE Abs!Next
  <2>1. /\ phase = "levels" /\ level > Len(tape.levels) /\ tape' = tape /\ values' = values
        /\ reg_scratch' = capture_next(tape, values) /\ outs' = OutputsOf(tape, values)
    BY <1>8 DEF Capture, config
  <2>2. Settled(tape, values)
    <3>. SUFFICES ASSUME NEW g \in GateSlots(tape) PROVE values[g] = eval_gate(tape, values, g)
      BY DEF Settled
    <3>. DEFINE k == tape.slot_level[g]
    <3>1. k \in 1 .. Len(tape.levels) /\ g \in LevelSlots(tape, k)
      BY <1>0 DEF ScheduleContract, LevelsExact
    <3>2. k \in 1 .. level - 1
      BY <1>0, <2>1, <3>1 DEF TypeOK, ScheduleContract, LevelsExact
    <3>. QED BY <2>1, <3>1, <3>2 DEF IInv, LevelsBehindSettled
  <2>3. Abs!SourcesHold(tape, values, AbsInputs, reg_scratch)
    BY <2>1, SameReading DEF Abs!SourcesHold, AbsInputs, IInv, EdgeHeld
  <2>4. AbsInputs' = AbsInputs
    BY <2>1 DEF AbsInputs
  <2>5. Abs!Tick
    BY <1>0, <2>1, <2>2, <2>3, <2>4, SameReading DEF Abs!Tick, Abs!TickOn, AbsInputs, TypeOK
  <2>. QED BY <2>5 DEF Abs!Next
<1>9. CASE UNCHANGED vars
  BY <1>9, Stutters DEF vars, config
<1>. QED BY <1>1, <1>2, <1>3, <1>4, <1>6, <1>7, <1>8, <1>9 DEF Next, TickStep

\* For every circuit, threshold and schedule of the workers, the
\* level-parallel engine does what the Engine trait promises.
THEOREM Refinement == Spec => ImplementsSync
<1>1. Init => Abs!Init
  BY InitRefines
<1>2. IInv /\ [Next]_vars => [Abs!Next]_(Abs!syncVars)
  BY StepRefines
<1>. QED BY <1>1, <1>2, InvariantHolds, PTL DEF Spec, ImplementsSync, Abs!Spec
=============================================================================
