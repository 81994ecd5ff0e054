------------------------- MODULE EventEngine_proofs -------------------------
(***************************************************************************)
(* Proofs about the event-driven engine, for every set of tapes that keep  *)
(* the contract of the tape compiler.                                      *)
(***************************************************************************)
EXTENDS EventEngine, Tape_proofs

-----------------------------------------------------------------------------
(* The inductive invariant.                                                *)

\* Writing source slots and queueing the dependents of those that changed
\* keeps the worklists exact and the gates that are not queued settled.
LEMMA WriteSourcesKeeps ==
  ASSUME IInv, phase = "idle", tape' = tape, draining' = draining,
         NEW new \in Buffers(tape), WriteSources(new),
         \A g \in GateSlots(tape) : new[g] = values[g]
  PROVE  /\ values' = new
         /\ queued' \subseteq GateSlots(tape)
         /\ bucket' \in [Slots(tape) -> {0, 1}]
         /\ \A s \in Slots(tape) : draining[s] = 0
         /\ QueueExact' /\ CleanGatesSettled'
<1>. USE DEF IInv, TypeOK
<1>. DEFINE changed == {s \in Slots(tape) : values[s] # new[s]}
            dirty == Dependents(changed)
<1>1. /\ values' = new
      /\ queued' = queued \cup dirty
      /\ bucket' = [s \in Slots(tape) |->
                      IF s \in dirty \ queued THEN bucket[s] + 1 ELSE bucket[s]]
  BY DEF WriteSources, enqueue
<1>2. dirty \subseteq GateSlots(tape)
  <2>1. \A s \in changed : successors(tape, s) \subseteq GateSlots(tape)
    BY SuccessorsAbove
  <2>. QED BY <2>1 DEF Dependents
<1>3. \A s \in Slots(tape) : draining[s] = 0
  BY DEF SweepAscends
<1>4. \A s \in Slots(tape) \ queued : bucket[s] = 0
  BY <1>3 DEF QueueExact
<1>5. \A s \in queued : s \in Slots(tape) /\ bucket[s] = 1
  BY <1>3, SlotKinds DEF QueueExact
<1>6. bucket' \in [Slots(tape) -> {0, 1}]
  BY <1>1, <1>4
<1>7. QueueExact'
  BY <1>1, <1>3, <1>4, <1>5 DEF QueueExact
<1>8. CleanGatesSettled'
  <2>. SUFFICES ASSUME NEW g \in GateSlots(tape), g \notin queued, g \notin dirty
                PROVE  new[g] = eval_gate(tape, new, g)
    BY <1>1 DEF CleanGatesSettled
  <2>1. \A s \in OperandsOf(tape, g) : s \in Slots(tape)
    BY OperandsAreSlots
  <2>2. \A s \in OperandsOf(tape, g) : s \notin changed
    BY <2>1 DEF TapeContract, SuccessorsExact, Dependents
  <2>3. eval_gate(tape, values, g) = eval_gate(tape, new, g)
    BY <2>1, <2>2, EvalReadsOperands
  <2>4. values[g] = eval_gate(tape, values, g)
    BY DEF CleanGatesSettled
  <2>. QED BY <2>3, <2>4
<1>. QED BY <1>1, <1>2, <1>3, <1>6, <1>7, <1>8

\* An engine at power-on, as built or after reset.
LEMMA PowerOnInv ==
  ASSUME NEW t, TapeContract(t)
  PROVE  /\ PowerOn(t).values = initial_values(t)
         /\ PowerOn(t).queued = GateSlots(t)
         /\ PowerOn(t).bucket \in [Slots(t) -> {0, 1}]
         /\ Empty(t) \in [Slots(t) -> {0, 1}]
         /\ \A s \in Slots(t) :
              /\ Empty(t)[s] = 0
              /\ PowerOn(t).bucket[s] = IF s \in GateSlots(t) THEN 1 ELSE 0
BY DEF PowerOn, Empty

\* The invariant holds at power-on.
LEMMA InitInv == Init => IInv
<1>. SUFFICES ASSUME Init PROVE IInv
  OBVIOUS
<1>. USE DEF Init
<1>1. TapeContract(tape)
  BY TapesAssumption
<1>2. TypeOK
  <2>1. GateSlots(tape) \subseteq Slots(tape)
    BY <1>1, SlotKinds
  <2>2. reg_scratch \in [Registers(tape) -> BOOLEAN]
    BY <1>1 DEF TapeContract, FieldsTyped
  <2>. QED BY <1>1, <2>1, <2>2, InitialSources, PowerOnInv, ReadsTyped DEF TypeOK
<1>3. QueueExact
  BY <1>1, PowerOnInv DEF QueueExact
<1>4. CleanGatesSettled
  BY <1>1, PowerOnInv DEF CleanGatesSettled
<1>5. SweepAscends
  BY <1>1, PowerOnInv DEF SweepAscends
<1>6. ConstsHeld(tape, values)
  BY <1>1, InitialSources, PowerOnInv
<1>. QED BY <1>2, <1>3, <1>4, <1>5, <1>6 DEF IInv, EdgeHeld

\* One step per action keeps the invariant.
LEMMA NextInv == IInv /\ [Next]_vars => IInv'
<1>. SUFFICES ASSUME IInv, [Next]_vars PROVE IInv'
  OBVIOUS
<1>. USE DEF IInv, TypeOK
<1>1. ASSUME NEW i \in InputIds(tape), NEW value \in BOOLEAN, set_input(i, value)
      PROVE  IInv'
  <2>. DEFINE new == [values EXCEPT ![tape.input_slots[i]] = value]
  <2>1. phase = "idle" /\ WriteSources(new)
    BY <1>1 DEF set_input
  <2>2. /\ tape' = tape /\ reg_scratch' = reg_scratch /\ draining' = draining
        /\ phase' = phase /\ level' = level /\ evaluated' = evaluated
        /\ outs' = OutputsOf(tape, values')
    BY <1>1 DEF set_input
  <2>3. new \in Buffers(tape) /\ \A g \in GateSlots(tape) : new[g] = values[g]
    BY SlotKinds DEF Buffers
  <2>4. /\ values' = new /\ queued' \subseteq GateSlots(tape)
        /\ bucket' \in [Slots(tape) -> {0, 1}]
        /\ QueueExact' /\ CleanGatesSettled'
        /\ \A s \in Slots(tape) : draining[s] = 0
    BY <2>1, <2>2, <2>3, WriteSourcesKeeps
  <2>5. TypeOK'
    BY <2>2, <2>3, <2>4, ReadsTyped DEF TypeOK
  <2>6. ConstsHeld(tape, values)'
    <3>1. ASSUME NEW k \in DOMAIN tape.const_slots
          PROVE  values'[tape.const_slots[k][1]] = values[tape.const_slots[k][1]]
      <4>1. tape.const_slots[k][1] \in Slots(tape)
        BY DEF TapeContract, SourcesDisjoint, Sources
      <4>2. tape.const_slots[k][1] # tape.input_slots[i]
        BY DEF TapeContract, SourcesDisjoint
      <4>. QED BY <2>4, <4>1, <4>2 DEF Buffers
    <3>. QED BY <2>2, <3>1 DEF ConstsHeld
  <2>7. SweepAscends' /\ EdgeHeld'
    BY <2>1, <2>2, <2>4 DEF SweepAscends, EdgeHeld
  <2>. QED BY <2>1, <2>2, <2>4, <2>5, <2>6, <2>7 DEF IInv
<1>2. ASSUME reset PROVE IInv'
  <2>1. /\ phase = "idle" /\ phase' = phase /\ tape' = tape /\ level' = level
        /\ draining' = draining /\ evaluated' = evaluated
        /\ values' = PowerOn(tape).values /\ queued' = PowerOn(tape).queued
        /\ bucket' = PowerOn(tape).bucket /\ reg_scratch' = tape.reg_initial
        /\ outs' = OutputsOf(tape, values')
    BY <1>2 DEF reset
  <2>2. \A s \in Slots(tape) : draining[s] = 0
    BY <2>1 DEF SweepAscends
  <2>3. TypeOK'
    <3>1. reg_scratch' \in [Registers(tape) -> BOOLEAN]
      BY <2>1 DEF TapeContract, FieldsTyped
    <3>. QED BY <2>1, <3>1, InitialSources, PowerOnInv, ReadsTyped DEF TypeOK
  <2>4. QueueExact' /\ CleanGatesSettled' /\ SweepAscends' /\ EdgeHeld'
    BY <2>1, <2>2, PowerOnInv DEF QueueExact, CleanGatesSettled, SweepAscends, EdgeHeld
  <2>5. ConstsHeld(tape, values)'
    <3>1. ConstsHeld(tape, initial_values(tape))
      BY InitialSources
    <3>2. values' = initial_values(tape)
      BY <2>1, PowerOnInv
    <3>. QED BY <2>1, <3>1, <3>2 DEF ConstsHeld
  <2>. QED BY <2>1, <2>3, <2>4, <2>5 DEF IInv
<1>3. ASSUME ClockEdge PROVE IInv'
  <2>. DEFINE new == apply_edge(tape, values, reg_scratch)
  <2>1. /\ phase = "idle" /\ WriteSources(new)
        /\ phase' = "sweep" /\ level' = 0 /\ evaluated' = {}
        /\ tape' = tape /\ reg_scratch' = reg_scratch /\ draining' = draining
        /\ outs' = outs
    BY <1>3 DEF ClockEdge
  <2>2. /\ new \in Buffers(tape)
        /\ \A r \in Registers(tape) : new[tape.reg_out_slots[r]] = reg_scratch[r]
        /\ \A s \in Slots(tape) :
             (\A r \in Registers(tape) : tape.reg_out_slots[r] # s) => new[s] = values[s]
    BY EdgeWrites
  <2>3. \A g \in GateSlots(tape) : new[g] = values[g]
    BY <2>2, SlotKinds
  <2>4. /\ values' = new /\ queued' \subseteq GateSlots(tape)
        /\ bucket' \in [Slots(tape) -> {0, 1}]
        /\ QueueExact' /\ CleanGatesSettled'
        /\ \A s \in Slots(tape) : draining[s] = 0
    BY <2>1, <2>2, <2>3, WriteSourcesKeeps
  <2>5. TypeOK'
    BY <2>1, <2>2, <2>4 DEF TypeOK
  <2>6. ConstsHeld(tape, values)'
    BY <2>1, <2>2, <2>4 DEF ConstsHeld, TapeContract, SourcesDisjoint, FieldsTyped
  <2>7. EdgeHeld'
    BY <2>1, <2>2, <2>4 DEF EdgeHeld
  <2>8. SweepAscends'
    <3>1. \A s \in queued' : tape.slot_level[s] >= 0
      <4>1. \A s \in Slots(tape) : tape.slot_level[s] \in Nat
        BY DEF TapeContract, FieldsTyped
      <4>. QED BY <2>4, <4>1, SlotKinds
    <3>. QED BY <2>1, <2>4, <3>1 DEF SweepAscends
  <2>. QED BY <2>1, <2>5, <2>4, <2>6, <2>7, <2>8 DEF IInv
<1>4. ASSUME TakeBucket PROVE IInv'
  <2>1. /\ phase = "sweep" /\ phase' = "drain" /\ tape' = tape /\ level' = level
        /\ values' = values /\ reg_scratch' = reg_scratch /\ queued' = queued
        /\ evaluated' = evaluated /\ outs' = outs
        /\ draining' = [s \in Slots(tape) |-> IF AtLevel(s) THEN bucket[s] ELSE 0]
        /\ bucket' = [s \in Slots(tape) |-> IF AtLevel(s) THEN 0 ELSE bucket[s]]
    BY <1>4 DEF TakeBucket
  <2>2. \A s \in Slots(tape) : draining[s] = 0
    BY <2>1 DEF SweepAscends
  <2>3. TypeOK'
    BY <2>1 DEF TypeOK
  <2>4. QueueExact'
    BY <2>1, <2>2 DEF QueueExact
  <2>5. CleanGatesSettled' /\ EdgeHeld' /\ ConstsHeld(tape, values)'
    BY <2>1 DEF CleanGatesSettled, EdgeHeld, ConstsHeld
  <2>6. SweepAscends'
    <3>1. \A s \in Slots(tape) : bucket[s] > 0 => tape.slot_level[s] >= level
      BY <2>1, <2>2 DEF QueueExact, SweepAscends
    <3>2. \A s \in Slots(tape) : tape.slot_level[s] \in Nat
      BY DEF TapeContract, FieldsTyped
    <3>3. \A s \in Slots(tape) : bucket'[s] > 0 => tape.slot_level[s] > level
      BY <2>1, <3>1, <3>2 DEF AtLevel
    <3>4. \A s \in Slots(tape) : draining'[s] > 0 => AtLevel(s)
      BY <2>1
    <3>. QED BY <2>1, <3>3, <3>4 DEF SweepAscends, AtLevel
  <2>. QED BY <2>1, <2>3, <2>4, <2>5, <2>6 DEF IInv
<1>5. ASSUME NEW g \in Slots(tape), DrainSlot(g) PROVE IInv'
  <2>. DEFINE value == eval_gate(tape, values, g)
              dirty == IF values[g] # value THEN successors(tape, g) ELSE {}
              open  == queued \ {g}
  <2>1. /\ phase = "drain" /\ draining[g] > 0
        /\ draining' = [draining EXCEPT ![g] = @ - 1]
        /\ evaluated' = evaluated \cup {g}
        /\ values' = [values EXCEPT ![g] = value]
        /\ queued' = open \cup dirty
        /\ bucket' = [s \in Slots(tape) |->
                        IF s \in dirty \ open THEN bucket[s] + 1 ELSE bucket[s]]
        /\ tape' = tape /\ reg_scratch' = reg_scratch /\ phase' = phase
        /\ level' = level /\ outs' = outs
    BY <1>5 DEF DrainSlot, enqueue
  <2>2. \A s \in dirty : /\ s \in GateSlots(tape) /\ s # g
                        /\ tape.slot_level[s] > tape.slot_level[g]
    BY SuccessorsAbove
  <2>3. AtLevel(g) /\ draining[g] = 1 /\ g \in queued /\ bucket[g] = 0
    BY <2>1 DEF SweepAscends, QueueExact
  <2>4. g \in GateSlots(tape) /\ GateSlots(tape) \subseteq Slots(tape)
    BY <2>3, SlotKinds
  <2>5. value \in BOOLEAN
    BY EvalType
  <2>6. \A s \in dirty \ open : s \in Slots(tape) /\ s \notin queued /\ bucket[s] = 0 /\ draining[s] = 0
    BY <2>2, <2>4 DEF QueueExact
  <2>7. TypeOK'
    <3>1. values' \in Buffers(tape)
      BY <2>1, <2>5 DEF Buffers
    <3>2. bucket' \in [Slots(tape) -> {0, 1}]
      BY <2>1, <2>6
    <3>3. draining' \in [Slots(tape) -> {0, 1}]
      BY <2>1, <2>3
    <3>4. queued' \subseteq GateSlots(tape) /\ evaluated' \subseteq GateSlots(tape)
      BY <2>1, <2>2, <2>4
    <3>. QED BY <2>1, <3>1, <3>2, <3>3, <3>4 DEF TypeOK
  <2>8. QueueExact'
    <3>. SUFFICES ASSUME NEW s \in Slots(tape)
                  PROVE  bucket'[s] + draining'[s] = IF s \in queued' THEN 1 ELSE 0
      BY <2>1 DEF QueueExact
    <3>1. CASE s = g
      <4>1. bucket'[s] = 0 /\ draining'[s] = 0
        BY <2>1, <2>2, <2>3, <3>1
      <4>2. s \notin queued'
        BY <2>1, <2>2, <3>1
      <4>. QED BY <4>1, <4>2
    <3>2. CASE s # g /\ s \in dirty \ open
      <4>1. bucket'[s] = 1 /\ draining'[s] = 0
        BY <2>1, <2>6, <3>2
      <4>. QED BY <2>1, <3>2, <4>1
    <3>3. CASE s # g /\ s \notin dirty \ open
      <4>1. bucket'[s] = bucket[s] /\ draining'[s] = draining[s]
        BY <2>1, <3>3
      <4>2. s \in queued' <=> s \in queued
        BY <2>1, <3>3
      <4>. QED BY <4>1, <4>2 DEF QueueExact
    <3>. QED BY <3>1, <3>2, <3>3
  <2>9. CleanGatesSettled'
    <3>. SUFFICES ASSUME NEW h \in GateSlots(tape), h \notin queued'
                  PROVE  values'[h] = eval_gate(tape, values', h)
      BY <2>1 DEF CleanGatesSettled
    <3>1. ASSUME g \notin OperandsOf(tape, h)
          PROVE  eval_gate(tape, values', h) = eval_gate(tape, values, h)
      <4>1. \A s \in OperandsOf(tape, h) : values'[s] = values[s]
        BY <2>1, <3>1, OperandsAreSlots DEF Buffers
      <4>. QED BY <4>1, EvalReadsOperands
    <3>2. CASE h = g
      <4>1. g \notin OperandsOf(tape, g)
        BY <2>4 DEF TapeContract, OperandsBelow, GateSlots, FieldsTyped
      <4>2. values'[g] = value
        BY <2>1 DEF Buffers
      <4>. QED BY <3>1, <3>2, <4>1, <4>2
    <3>3. CASE h # g
      <4>1. h \notin queued /\ h \notin dirty
        BY <2>1, <3>3
      <4>2. values[h] = eval_gate(tape, values, h)
        BY <4>1 DEF CleanGatesSettled
      <4>3. values'[h] = values[h]
        BY <2>1, <2>4, <3>3 DEF Buffers
      <4>4. CASE values[g] = value
        <5>1. values' = values
          BY <2>1, <4>4 DEF Buffers
        <5>. QED BY <4>2, <5>1
      <4>5. CASE values[g] # value
        <5>1. g \notin OperandsOf(tape, h)
          BY <4>1, <4>5 DEF TapeContract, SuccessorsExact
        <5>. QED BY <3>1, <4>2, <4>3, <5>1
      <4>. QED BY <4>4, <4>5
    <3>. QED BY <3>2, <3>3
  <2>10. SweepAscends'
    <3>1. \A s \in Slots(tape) : bucket'[s] > 0 => tape.slot_level[s] > level
      BY <2>1, <2>2, <2>3 DEF SweepAscends, AtLevel
    <3>2. \A s \in Slots(tape) : draining'[s] > 0 => AtLevel(s)
      BY <2>1, <2>3 DEF SweepAscends
    <3>. QED BY <2>1, <3>1, <3>2 DEF SweepAscends, AtLevel
  <2>11. EdgeHeld' /\ ConstsHeld(tape, values)'
    <3>1. \A s \in Slots(tape) \ GateSlots(tape) : values'[s] = values[s]
      BY <2>1, <2>4 DEF Buffers
    <3>2. \A k \in DOMAIN tape.const_slots :
            tape.const_slots[k][1] \in Slots(tape) \ GateSlots(tape)
      BY DEF TapeContract, SourcesDisjoint, Sources
    <3>. QED BY <2>1, <3>1, <3>2, SlotKinds DEF EdgeHeld, ConstsHeld
  <2>12. \A s \in evaluated' : s \notin queued' /\ tape.slot_level[s] <= level
    <3>1. tape.slot_level[g] = level
      BY <2>3 DEF AtLevel
    <3>2. g \notin queued'
      BY <2>1, <2>2
    <3>3. \A s \in dirty : tape.slot_level[s] > level
      BY <2>2, <3>1
    <3>4. \A s \in evaluated : s \notin dirty
      <4>1. \A s \in evaluated : tape.slot_level[s] \in Nat /\ tape.slot_level[s] <= level
        BY <2>1, <2>4 DEF TapeContract, FieldsTyped
      <4>. QED BY <3>3, <4>1
    <3>. QED BY <2>1, <3>1, <3>2, <3>4
  <2>. QED BY <2>1, <2>7, <2>8, <2>9, <2>10, <2>11, <2>12 DEF IInv
<1>6. ASSUME LevelDone PROVE IInv'
  <2>1. /\ phase = "drain" /\ draining = Empty(tape) /\ phase' = "sweep"
        /\ level' = level + 1 /\ tape' = tape /\ values' = values
        /\ reg_scratch' = reg_scratch /\ queued' = queued /\ draining' = draining
        /\ evaluated' = evaluated /\ outs' = outs
        /\ bucket' = [s \in Slots(tape) |-> IF AtLevel(s) THEN 0 ELSE bucket[s]]
    BY <1>6 DEF LevelDone
  <2>2. bucket' = bucket
    BY <2>1 DEF SweepAscends, AtLevel
  <2>3. \A s \in Slots(tape) : draining[s] = 0 /\ tape.slot_level[s] \in Nat
    BY <2>1 DEF Empty, TapeContract, FieldsTyped
  <2>4. TypeOK' /\ QueueExact' /\ CleanGatesSettled' /\ EdgeHeld' /\ ConstsHeld(tape, values)'
    BY <2>1, <2>2 DEF TypeOK, QueueExact, CleanGatesSettled, EdgeHeld, ConstsHeld
  <2>5. \A s \in queued : s \in Slots(tape) /\ tape.slot_level[s] > level
    BY <2>1, <2>3, SlotKinds DEF QueueExact, SweepAscends
  <2>6. SweepAscends'
    BY <2>1, <2>2, <2>3, <2>5 DEF SweepAscends
  <2>7. \A s \in evaluated : /\ s \notin queued /\ tape.slot_level[s] < level + 1
                             /\ tape.slot_level[s] <= level + 1
    BY <2>1, <2>3, SlotKinds
  <2>. QED BY <2>1, <2>4, <2>6, <2>7 DEF IInv
<1>7. ASSUME Capture PROVE IInv'
  <2>1. /\ phase = "sweep" /\ phase' = "idle" /\ level' = 0 /\ tape' = tape
        /\ values' = values /\ queued' = queued /\ bucket' = bucket
        /\ draining' = draining /\ evaluated' = evaluated
        /\ reg_scratch' = capture_next(tape, values) /\ outs' = OutputsOf(tape, values)
    BY <1>7 DEF Capture
  <2>2. \A s \in Slots(tape) : draining[s] = 0
    BY <2>1 DEF SweepAscends
  <2>3. TypeOK'
    BY <2>1, ReadsTyped DEF TypeOK
  <2>4. QueueExact' /\ CleanGatesSettled' /\ SweepAscends' /\ EdgeHeld' /\ ConstsHeld(tape, values)'
    BY <2>1, <2>2 DEF QueueExact, CleanGatesSettled, SweepAscends, EdgeHeld, ConstsHeld
  <2>. QED BY <2>1, <2>3, <2>4 DEF IInv
<1>8. CASE UNCHANGED vars
  <2>. USE <1>8 DEF vars
  <2>1. TypeOK' /\ QueueExact' /\ CleanGatesSettled'
    BY DEF TypeOK, QueueExact, CleanGatesSettled
  <2>2. SweepAscends' /\ EdgeHeld' /\ ConstsHeld(tape, values)'
    BY DEF SweepAscends, EdgeHeld, ConstsHeld, AtLevel
  <2>. QED BY <2>1, <2>2 DEF IInv
<1>. QED BY <1>1, <1>2, <1>3, <1>4, <1>5, <1>6, <1>7, <1>8 DEF Next, TickStep

\* The inductive invariant holds in every state the engine reaches, whatever
\* circuit it was built from.
THEOREM InvariantHolds == Spec => []IInv
<1>1. Init => IInv
  BY InitInv
<1>2. IInv /\ [Next]_vars => IInv'
  BY NextInv
<1>. QED BY <1>1, <1>2, PTL DEF Spec

\* The properties of the run, each from the inductive invariant.
THEOREM TypeCorrect == Spec => []TypeOK
BY InvariantHolds, PTL DEF IInv

\* The dedup bitmask mirrors the worklists for every circuit.
THEOREM WorklistsExact == Spec => []QueueExact
BY InvariantHolds, PTL DEF IInv

\* No gate outside the queued cone is ever stale.
THEOREM ConeRecomputed == Spec => []CleanGatesSettled
BY InvariantHolds, PTL DEF IInv

\* The ascending sweep loses no dirty gate.
THEOREM SweepComplete == Spec => []SweepAscends
BY InvariantHolds, PTL DEF IInv

\* A gate is evaluated at most once per tick.
THEOREM AtMostOncePerTick == Spec => []EvaluatedOnce
<1>1. IInv => EvaluatedOnce
  BY DEF IInv, EvaluatedOnce
<1>. QED BY <1>1, InvariantHolds, PTL

-----------------------------------------------------------------------------
(* Refinement of the synchronous machine.                                  *)

\* The abstract machine reads a tape as the engine does.
LEMMA SameReading ==
  ASSUME NEW t, NEW v
  PROVE  /\ Abs!Slots(t) = Slots(t) /\ Abs!InputIds(t) = InputIds(t)
         /\ Abs!Registers(t) = Registers(t) /\ Abs!OutputIds(t) = OutputIds(t)
         /\ Abs!Buffers(t) = Buffers(t)
         /\ Abs!OutputsOf(t, v) = OutputsOf(t, v)
         /\ Abs!capture_next(t, v) = capture_next(t, v)
         /\ Abs!initial_values(t) = initial_values(t)
         /\ Abs!Settled(t, v) <=> Settled(t, v)
         /\ Abs!ConstsHeld(t, v) <=> ConstsHeld(t, v)
<1>1. /\ Abs!Slots(t) = Slots(t) /\ Abs!InputIds(t) = InputIds(t)
      /\ Abs!Registers(t) = Registers(t) /\ Abs!OutputIds(t) = OutputIds(t)
      /\ Abs!GateSlots(t) = GateSlots(t)
  BY DEF Abs!Slots, Slots, Abs!slot_count, slot_count, Abs!InputIds, InputIds,
         Abs!Registers, Registers, Abs!OutputIds, OutputIds, Abs!GateSlots, GateSlots
<1>2. Abs!Buffers(t) = Buffers(t) /\ Abs!OutputsOf(t, v) = OutputsOf(t, v)
  BY <1>1 DEF Abs!Buffers, Buffers, Abs!OutputsOf, OutputsOf
<1>3. Abs!capture_next(t, v) = capture_next(t, v)
  BY <1>1 DEF Abs!capture_next, capture_next
<1>4. Abs!initial_values(t) = initial_values(t)
  BY <1>1 DEF Abs!initial_values, initial_values
<1>5. \A g : Abs!eval_gate(t, v, g) = eval_gate(t, v, g)
  BY DEF Abs!eval_gate, eval_gate, Abs!Apply, Apply, Abs!arity, arity, Abs!Unary, Unary
<1>6. Abs!Settled(t, v) <=> Settled(t, v)
  BY <1>1, <1>5 DEF Abs!Settled, Settled
<1>7. Abs!ConstsHeld(t, v) <=> ConstsHeld(t, v)
  BY DEF Abs!ConstsHeld, ConstsHeld
<1>. QED BY <1>1, <1>2, <1>3, <1>4, <1>6, <1>7

\* The abstract inputs are the contents of the input slots.
AbsInputs == [i \in InputIds(tape) |-> values[tape.input_slots[i]]]

\* The engine's initial states map to those of the synchronous machine.
LEMMA InitRefines == Init => Abs!Init
<1>. SUFFICES ASSUME Init PROVE Abs!Init
  OBVIOUS
<1>1. TapeContract(tape) /\ values = initial_values(tape)
  BY TapesAssumption, PowerOnInv DEF Init
<1>2. AbsInputs = [i \in InputIds(tape) |-> FALSE]
  BY <1>1, InitialSources DEF AbsInputs
<1>3. outs = OutputsOf(tape, initial_values(tape))
  BY <1>1 DEF Init
<1>. QED BY <1>1, <1>2, <1>3, SameReading
         DEF Init, Abs!Init, Abs!PoweredOn, Abs!Low, Abs!PowerOnOutputs, AbsInputs

\* A step that leaves the input slots, the captured registers and the shown
\* outputs alone is a stuttering step of the synchronous machine.
LEMMA Stutters ==
  ASSUME tape' = tape, reg_scratch' = reg_scratch, outs' = outs,
         \A i \in InputIds(tape) :
           values'[tape.input_slots[i]] = values[tape.input_slots[i]]
  PROVE  UNCHANGED Abs!syncVars
<1>1. AbsInputs' = AbsInputs
  BY DEF AbsInputs
<1>. QED BY <1>1 DEF Abs!syncVars, AbsInputs

\* Every step of the engine is a step of the synchronous machine or none.
LEMMA StepRefines == IInv /\ [Next]_vars => [Abs!Next]_(Abs!syncVars)
<1>. SUFFICES ASSUME IInv, [Next]_vars PROVE [Abs!Next]_(Abs!syncVars)
  OBVIOUS
<1>. USE DEF IInv, TypeOK
<1>1. ASSUME NEW i \in InputIds(tape), NEW value \in BOOLEAN, set_input(i, value)
      PROVE  Abs!Next
  <2>. DEFINE s == tape.input_slots[i]
  <2>1. /\ values' = [values EXCEPT ![s] = value] /\ outs' = OutputsOf(tape, values')
        /\ outs = OutputsOf(tape, values) /\ tape' = tape /\ reg_scratch' = reg_scratch
    BY <1>1 DEF set_input, WriteSources
  <2>2. s \in Slots(tape)
    BY SlotKinds
  <2>3. \A x \in Slots(tape) : values'[x] = IF x = s THEN value ELSE values[x]
    BY <2>1, <2>2 DEF Buffers
  <2>4. AbsInputs' = [AbsInputs EXCEPT ![i] = value]
    <3>1. \A j \in InputIds(tape) :
            values'[tape.input_slots[j]] = IF j = i THEN value ELSE values[tape.input_slots[j]]
      BY <2>3, SlotKinds DEF TapeContract, SourcesDisjoint
    <3>. QED BY <2>1, <3>1 DEF AbsInputs
  <2>5. outs' = [o \in OutputIds(tape) |->
                   IF tape.output_slots[o] = s THEN value ELSE outs[o]]
    <3>1. \A o \in OutputIds(tape) : tape.output_slots[o] \in Slots(tape)
      BY DEF TapeContract, FieldsTyped
    <3>2. \A o \in OutputIds(tape) : outs[o] = values[tape.output_slots[o]]
      BY <2>1 DEF OutputsOf
    <3>. QED BY <2>1, <2>3, <3>1, <3>2 DEF OutputsOf
  <2>6. Abs!SetInput(i, value)
    BY <2>1, <2>4, <2>5, SameReading DEF Abs!SetInput, AbsInputs
  <2>. QED BY <2>6, SameReading DEF Abs!Next
<1>2. ASSUME reset PROVE Abs!Next
  <2>1. /\ values' = initial_values(tape) /\ outs' = OutputsOf(tape, initial_values(tape))
        /\ tape' = tape /\ reg_scratch' = tape.reg_initial
    BY <1>2, PowerOnInv DEF reset
  <2>2. AbsInputs' = [i \in InputIds(tape) |-> FALSE]
    BY <2>1, InitialSources DEF AbsInputs
  <2>3. Abs!Reset
    BY <2>1, <2>2, SameReading DEF Abs!Reset, Abs!Low, Abs!PowerOnOutputs, AbsInputs
  <2>. QED BY <2>3 DEF Abs!Next
<1>3. ASSUME ClockEdge PROVE UNCHANGED Abs!syncVars
  <2>1. /\ values' = apply_edge(tape, values, reg_scratch)
        /\ tape' = tape /\ reg_scratch' = reg_scratch /\ outs' = outs
    BY <1>3 DEF ClockEdge, WriteSources
  <2>2. \A s \in Slots(tape) :
          (\A r \in Registers(tape) : tape.reg_out_slots[r] # s) => values'[s] = values[s]
    BY <2>1, EdgeWrites
  <2>3. \A i \in InputIds(tape), r \in Registers(tape) :
          tape.reg_out_slots[r] # tape.input_slots[i]
    BY DEF TapeContract, SourcesDisjoint
  <2>. QED BY <2>1, <2>2, <2>3, SlotKinds, Stutters
<1>4. ASSUME TakeBucket \/ LevelDone PROVE UNCHANGED Abs!syncVars
  BY <1>4, Stutters DEF TakeBucket, LevelDone
<1>5. ASSUME NEW g \in Slots(tape), DrainSlot(g) PROVE UNCHANGED Abs!syncVars
  <2>1. /\ values' = [values EXCEPT ![g] = eval_gate(tape, values, g)]
        /\ draining[g] > 0
        /\ tape' = tape /\ reg_scratch' = reg_scratch /\ outs' = outs
    BY <1>5 DEF DrainSlot
  <2>2. g \in GateSlots(tape)
    BY <2>1 DEF QueueExact
  <2>3. \A i \in InputIds(tape) :
          tape.input_slots[i] \in Slots(tape) /\ tape.input_slots[i] # g
    BY <2>2, SlotKinds
  <2>. QED BY <2>1, <2>3, Stutters DEF Buffers
<1>6. ASSUME Capture PROVE Abs!Next
  <2>1. /\ phase = "sweep" /\ SweepDone /\ tape' = tape /\ values' = values
        /\ reg_scratch' = capture_next(tape, values) /\ outs' = OutputsOf(tape, values)
    BY <1>6 DEF Capture
  <2>2. queued = {}
    <3>1. \A s \in queued : s \in Slots(tape) /\ tape.slot_level[s] >= level
      BY <2>1, SlotKinds DEF SweepAscends
    <3>2. \A s \in Slots(tape) : tape.slot_level[s] \in Nat /\ tape.slot_level[s] < level
      BY <2>1 DEF SweepDone, TapeContract, FieldsTyped
    <3>. QED BY <3>1, <3>2
  <2>3. Settled(tape, values)
    BY <2>2 DEF CleanGatesSettled, Settled
  <2>4. \A r \in Registers(tape) : values[tape.reg_out_slots[r]] = reg_scratch[r]
    BY <2>1 DEF EdgeHeld
  <2>5. Abs!SourcesHold(tape, values, AbsInputs, reg_scratch)
    BY <2>4, SameReading DEF Abs!SourcesHold, AbsInputs
  <2>6. AbsInputs' = AbsInputs
    BY <2>1 DEF AbsInputs
  <2>7. Abs!Tick
    BY <2>1, <2>3, <2>5, <2>6, SameReading DEF Abs!Tick, Abs!TickOn, AbsInputs
  <2>. QED BY <2>7 DEF Abs!Next
<1>7. CASE UNCHANGED vars
  BY <1>7, Stutters DEF vars
<1>. QED BY <1>1, <1>2, <1>3, <1>4, <1>5, <1>6, <1>7 DEF Next, TickStep

\* For every circuit, the event-driven engine does what the Engine trait
\* promises: skipping the gates outside the cone of what changed is
\* invisible through set_input, tick, reset and output.
THEOREM Refinement == Spec => ImplementsSync
<1>1. Init => Abs!Init
  BY InitRefines
<1>2. IInv /\ [Next]_vars => [Abs!Next]_(Abs!syncVars)
  BY StepRefines
<1>. QED BY <1>1, <1>2, InvariantHolds, PTL DEF Spec, ImplementsSync, Abs!Spec
=============================================================================
