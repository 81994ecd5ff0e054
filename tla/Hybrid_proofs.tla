--------------------------- MODULE Hybrid_proofs ---------------------------
(***************************************************************************)
(* Theorems about the race of the hybrid engine, for any number of         *)
(* candidates, any sizes of warmup, group, budget and cap, and any clock   *)
(* that does not go back; and about the calls made to the winner, for      *)
(* every tape that keeps the compiler's contract.                          *)
(***************************************************************************)
EXTENDS Hybrid, Tape_proofs

\* The counters and the history of a race; the candidate being timed comes
\* after those that have left the race, and one of those is the best.
RaceTyped ==
  /\ racing \in Nat /\ ticks \in Nat /\ elapsed \in Nat
  /\ times \in Seq(Nat) /\ Len(times) = racing - 1
  /\ best.racer \in 0 .. Len(times)
  /\ best.time \in Nat
  /\ best.racer = 0 => times = <<>>

RaceInv == RaceTyped /\ FastestWins

\* The constants by name.
LEMMA Constants ==
  /\ Candidates \in Nat \ {0} /\ Warmup \in Nat /\ Group \in Nat \ {0}
  /\ Budget \in Nat /\ MaxTicks \in Nat /\ Steps \subseteq Nat
BY RaceAssumption

\* A quotient of naturals is one.
LEMMA QuotientNat == ASSUME NEW n \in Nat, NEW d \in Nat \ {0} PROVE n \div d \in Nat
OBVIOUS

\* The race invariant holds when nobody has raced.
LEMMA InitRace == Init => RaceInv
<1>1. ASSUME Init PROVE /\ racing = 1 /\ ticks = 0 /\ elapsed = 0 /\ times = <<>>
                        /\ best = [racer |-> 0, time |-> 0, engine |-> PowerOn(tape)]
  BY <1>1 DEF Init, NoBest
<1>2. QED
  BY <1>1 DEF RaceInv, RaceTyped, FastestWins

\* The steps that do not judge a candidate.
LEMMA FrameRace ==
  ASSUME RaceInv, UNCHANGED <<racing, best, times>>, ticks' \in Nat, elapsed' \in Nat
  PROVE  RaceInv'
BY DEF RaceInv, RaceTyped, FastestWins

\* A candidate judged: its time is appended, and it is the best one or not.
LEMMA JudgedRace ==
  ASSUME RaceInv, NEW time \in Nat, racing' = racing + 1,
         best' = BestWith(time), times' = Append(times, time), ticks' = 0, elapsed' = 0
  PROVE  RaceInv'
<1>. USE DEF RaceInv, RaceTyped
<1>1. /\ times' \in Seq(Nat) /\ Len(times') = Len(times) + 1 /\ Len(times') = racing' - 1
      /\ \A k \in 1 .. Len(times) : times'[k] = times[k]
      /\ times'[Len(times) + 1] = time /\ racing = Len(times) + 1
      /\ Len(times) \in Nat
  OBVIOUS
<1>2. /\ \A k \in 1 .. Len(times) : times[k] \in Nat
      /\ best.racer # 0 => /\ best.time = times[best.racer]
                           /\ \A k \in 1 .. Len(times) : times[k] >= best.time
                           /\ \A k \in 1 .. best.racer - 1 : times[k] > best.time
  BY <1>1 DEF FastestWins
<1>3. CASE Beats(time, best)
  <2>1. best' = [racer |-> racing, time |-> time, engine |-> engine]
    BY <1>3 DEF BestWith
  <2>2. \A k \in 1 .. Len(times) : times[k] > time
    <3>1. CASE best.racer = 0
      BY <3>1, <1>1
    <3>2. CASE best.racer # 0
      <4>1. time < best.time
        BY <1>3, <3>2 DEF Beats
      <4>2. \A k \in 1 .. Len(times) : times[k] >= best.time /\ times[k] \in Nat
        BY <3>2, <1>2
      <4>3. QED
        BY <4>1, <4>2
    <3>3. QED
      BY <3>1, <3>2
  <2>3. RaceTyped'
    BY <2>1, <1>1
  <2>4. FastestWins'
    BY <2>1, <2>2, <1>1 DEF FastestWins
  <2>5. QED
    BY <2>3, <2>4
<1>4. CASE ~Beats(time, best)
  <2>1. best' = best
    BY <1>4 DEF BestWith
  <2>2. best.racer # 0 /\ time >= best.time
    BY <1>4 DEF Beats
  <2>3. RaceTyped'
    BY <2>1, <2>2, <1>1
  <2>4. /\ best'.time = times'[best'.racer]
        /\ \A k \in 1 .. Len(times) : times'[k] >= best'.time
        /\ times'[Len(times) + 1] >= best'.time
        /\ \A k \in 1 .. best'.racer - 1 : times'[k] > best'.time
    BY <2>1, <2>2, <1>1, <1>2
  <2>5. \A k \in 1 .. Len(times') : k \in 1 .. Len(times) \/ k = Len(times) + 1
    BY <1>1
  <2>6. \A k \in 1 .. Len(times') : times'[k] >= best'.time
    BY <2>4, <2>5
  <2>7. FastestWins'
    BY <2>4, <2>6 DEF FastestWins
  <2>8. QED
    BY <2>3, <2>7
<1>5. QED
  BY <1>3, <1>4

\* Every step keeps the race invariant.
LEMMA NextRace == RaceInv /\ [Next]_vars => RaceInv'
<1>. SUFFICES ASSUME RaceInv, [Next]_vars PROVE RaceInv'
  OBVIOUS
<1>. USE DEF race
<1>1. ticks \in Nat /\ elapsed \in Nat /\ racing \in Nat
  BY DEF RaceInv, RaceTyped
<1>2. CASE WarmupTick
  BY <1>1, <1>2, FrameRace DEF WarmupTick
<1>3. CASE TimedTick
  BY <1>1, <1>3, FrameRace DEF TimedTick
<1>4. CASE ReadClock
  <2>1. PICK step \in Steps :
          LET time  == elapsed + step
              count == Counted(ticks)
          IN  IF ~Timed(time, count)
              THEN /\ ticks' = count /\ elapsed' = time /\ UNCHANGED <<racing, best, times>>
              ELSE /\ best' = BestWith(time \div count)
                   /\ times' = Append(times, time \div count)
                   /\ racing' = racing + 1 /\ ticks' = 0 /\ elapsed' = 0
    BY <1>4 DEF ReadClock
  <2>. DEFINE time == elapsed + step
             count == Counted(ticks)
  <2>2. time \in Nat /\ count \in Nat \ {0}
    BY <1>1, Constants DEF Counted
  <2>3. CASE ~Timed(time, count)
    BY <2>1, <2>2, <2>3, FrameRace
  <2>4. CASE Timed(time, count)
    <3>1. time \div count \in Nat
      BY <2>2, QuotientNat
    <3>. HIDE DEF time, count
    <3>2. /\ best' = BestWith(time \div count) /\ times' = Append(times, time \div count)
          /\ racing' = racing + 1 /\ ticks' = 0 /\ elapsed' = 0
      BY <2>1, <2>4 DEF time, count
    <3>3. QED
      BY <3>1, <3>2, JudgedRace
  <2>5. QED
    BY <2>3, <2>4
<1>5. CASE \E i \in InputIds(tape), value \in BOOLEAN : set_input(i, value)
  BY <1>1, <1>5, FrameRace DEF set_input
<1>6. CASE tick
  BY <1>1, <1>6, FrameRace DEF tick
<1>7. CASE UNCHANGED vars
  BY <1>1, <1>7, FrameRace DEF vars
<1>8. QED
  BY <1>2, <1>3, <1>4, <1>5, <1>6, <1>7 DEF Next, RaceStep

\* The race keeps its books: as many times as candidates that have left it.
THEOREM RaceInvariant == Spec => []RaceInv
<1>1. QED
  BY InitRace, NextRace, PTL DEF Spec

\* The candidate kept by the constructor is the fastest of all raced, and the
\* first of those as fast, for every clock.
THEOREM KeepsTheFastest == Spec => []FastestWins
<1>1. RaceInv => FastestWins
  BY DEF RaceInv
<1>2. QED
  BY <1>1, RaceInvariant, PTL

-----------------------------------------------------------------------------
(* The calls.                                                              *)

Engines(t) ==
  [inputs : [InputIds(t) -> BOOLEAN], state : [Registers(t) -> BOOLEAN],
   outs : [OutputIds(t) -> BOOLEAN]]

EngineInv == tape \in Tapes /\ engine \in Engines(tape)

\* The source slots hold the constants, the inputs and the registers.
Holds(t, values, ins, regs) ==
  /\ ConstsHeld(t, values)
  /\ \A i \in InputIds(t) : values[t.input_slots[i]] = ins[i]
  /\ \A r \in Registers(t) : values[t.reg_out_slots[r]] = regs[r]

\* A fresh candidate is an engine.
LEMMA PowerOnTyped ==
  ASSUME NEW t, TapeContract(t) PROVE PowerOn(t) \in Engines(t)
<1>1. OutputsOf(t, initial_values(t)) \in [OutputIds(t) -> BOOLEAN]
  BY InitialSources, ReadsTyped
<1>2. t.reg_initial \in [Registers(t) -> BOOLEAN]
  BY DEF TapeContract, FieldsTyped
<1>. QED BY <1>1, <1>2 DEF PowerOn, Engines

\* The buffer a tick starts from holds the constants, inputs and registers.
LEMMA SourcesPlaced ==
  ASSUME NEW t, TapeContract(t), NEW e \in Engines(t)
  PROVE  /\ SourceValues(t, e) \in Buffers(t)
         /\ Holds(t, SourceValues(t, e), e.inputs, e.state)
<1>. DEFINE isInput(s) == \E i \in InputIds(t) : t.input_slots[i] = s
            held == [s \in Slots(t) |->
                       IF isInput(s)
                       THEN e.inputs[CHOOSE i \in InputIds(t) : t.input_slots[i] = s]
                       ELSE initial_values(t)[s]]
            new == apply_edge(t, held, e.state)
<1>1. SourceValues(t, e) = new
  BY DEF SourceValues
<1>2. e.inputs \in [InputIds(t) -> BOOLEAN] /\ e.state \in [Registers(t) -> BOOLEAN]
  BY DEF Engines
<1>3. held \in Buffers(t)
  BY <1>2, InitialSources DEF Buffers
<1>4. ASSUME NEW i \in InputIds(t)
      PROVE  held[t.input_slots[i]] = e.inputs[i]
  <2>. DEFINE s == t.input_slots[i]
              j == CHOOSE j \in InputIds(t) : t.input_slots[j] = s
  <2>1. s \in Slots(t)
    BY DEF TapeContract, FieldsTyped
  <2>2. j \in InputIds(t) /\ t.input_slots[j] = s
    OBVIOUS
  <2>3. j = i
    BY <2>2 DEF TapeContract, SourcesDisjoint
  <2>4. held[s] = e.inputs[j]
    BY <2>1
  <2>. QED BY <2>3, <2>4
<1>5. ASSUME NEW s \in Slots(t), ~isInput(s)
      PROVE  held[s] = initial_values(t)[s]
  BY <1>5
<1>. HIDE DEF held
<1>6. /\ new \in Buffers(t)
      /\ \A r \in Registers(t) : new[t.reg_out_slots[r]] = e.state[r]
      /\ \A s \in Slots(t) : (\A r \in Registers(t) : t.reg_out_slots[r] # s) => new[s] = held[s]
  BY <1>2, <1>3, EdgeWrites
<1>. HIDE DEF new
<1>7. \A i \in InputIds(t) : new[t.input_slots[i]] = e.inputs[i]
  BY <1>4, <1>6 DEF TapeContract, FieldsTyped, SourcesDisjoint
<1>8. ConstsHeld(t, new)
  <2>. SUFFICES ASSUME NEW k \in DOMAIN t.const_slots
                PROVE  new[t.const_slots[k][1]] = t.const_slots[k][2]
    BY DEF ConstsHeld
  <2>1. t.const_slots[k][1] \in Slots(t)
    BY DEF TapeContract, FieldsTyped
  <2>2. /\ ~isInput(t.const_slots[k][1])
        /\ \A r \in Registers(t) : t.reg_out_slots[r] # t.const_slots[k][1]
    BY DEF TapeContract, SourcesDisjoint
  <2>3. initial_values(t)[t.const_slots[k][1]] = t.const_slots[k][2]
    BY InitialSources DEF ConstsHeld
  <2>. QED BY <1>5, <1>6, <2>1, <2>2, <2>3
<1>. QED BY <1>1, <1>6, <1>7, <1>8 DEF Holds

\* A tick of a candidate is a cycle of the synchronous machine.
LEMMA TickCycles ==
  ASSUME NEW t, TapeContract(t), NEW e \in Engines(t)
  PROVE  LET values == settle(t, SourceValues(t, e)) IN
         /\ values \in Buffers(t) /\ Settled(t, values)
         /\ Holds(t, values, e.inputs, e.state)
         /\ Ticked(t, e) \in Engines(t) /\ Ticked(t, e).inputs = e.inputs
         /\ Ticked(t, e).state = capture_next(t, values)
         /\ Ticked(t, e).outs = OutputsOf(t, values)
<1>. DEFINE sources == SourceValues(t, e)
            values == settle(t, sources)
<1>1. sources \in Buffers(t) /\ Holds(t, sources, e.inputs, e.state)
  BY SourcesPlaced
<1>. HIDE DEF sources
<1>2. /\ values \in Buffers(t) /\ Settled(t, values)
      /\ \A s \in Slots(t) \ GateSlots(t) : values[s] = sources[s]
  BY <1>1, SettleSettles
<1>. HIDE DEF values
<1>3. Holds(t, values, e.inputs, e.state)
  <2>1. /\ \A i \in InputIds(t) : t.input_slots[i] \in Slots(t) \ GateSlots(t)
        /\ \A r \in Registers(t) : t.reg_out_slots[r] \in Slots(t) \ GateSlots(t)
    BY SlotKinds
  <2>2. \A k \in DOMAIN t.const_slots : t.const_slots[k][1] \in Slots(t) \ GateSlots(t)
    BY DEF TapeContract, SourcesDisjoint, Sources
  <2>3. ConstsHeld(t, values)
    BY <1>1, <1>2, <2>2 DEF Holds, ConstsHeld
  <2>. QED BY <1>1, <1>2, <2>1, <2>3 DEF Holds
<1>4. /\ OutputsOf(t, values) \in [OutputIds(t) -> BOOLEAN]
      /\ capture_next(t, values) \in [Registers(t) -> BOOLEAN]
  BY <1>2, ReadsTyped
<1>5. Ticked(t, e) = [e EXCEPT !.state = capture_next(t, values), !.outs = OutputsOf(t, values)]
  BY DEF Ticked, values, sources
<1>6. /\ Ticked(t, e) \in Engines(t) /\ Ticked(t, e).inputs = e.inputs
      /\ Ticked(t, e).state = capture_next(t, values)
      /\ Ticked(t, e).outs = OutputsOf(t, values)
  BY <1>4, <1>5 DEF Engines
<1>. QED BY <1>2, <1>3, <1>6 DEF values, sources

\* An input change is one of the synchronous machine.
LEMMA DriveSets ==
  ASSUME NEW t, TapeContract(t), NEW e \in Engines(t),
         NEW i \in InputIds(t), NEW value \in BOOLEAN
  PROVE  /\ Driven(t, e, i, value) \in Engines(t)
         /\ Driven(t, e, i, value).inputs = [e.inputs EXCEPT ![i] = value]
         /\ Driven(t, e, i, value).state = e.state
         /\ Driven(t, e, i, value).outs =
              [o \in OutputIds(t) |->
                 IF t.output_slots[o] = t.input_slots[i] THEN value ELSE e.outs[o]]
BY DEF Driven, Engines

\* An engine stays an engine.
LEMMA NextEngine == EngineInv /\ [Next]_vars => EngineInv'
<1>. SUFFICES ASSUME EngineInv, [Next]_vars PROVE EngineInv'
  OBVIOUS
<1>. USE DEF EngineInv
<1>1. TapeContract(tape)
  BY TapesAssumption
<1>2. tape' = tape
  BY DEF Next, RaceStep, WarmupTick, TimedTick, ReadClock, set_input, tick, vars
<1>3. engine' \in Engines(tape)
  <2>1. CASE WarmupTick \/ TimedTick \/ tick
    BY <1>1, <2>1, TickCycles DEF WarmupTick, TimedTick, tick
  <2>2. CASE ReadClock
    <3>1. engine' = engine \/ engine' = PowerOn(tape)
      BY <2>2 DEF ReadClock, Restored
    <3>. QED BY <1>1, <3>1, PowerOnTyped
  <2>3. CASE \E i \in InputIds(tape), value \in BOOLEAN : set_input(i, value)
    <3>1. PICK i \in InputIds(tape), value \in BOOLEAN : engine' = Driven(tape, engine, i, value)
      BY <2>3 DEF set_input
    <3>. QED BY <1>1, <3>1, DriveSets
  <2>4. CASE UNCHANGED vars
    BY <2>4 DEF vars
  <2>. QED BY <2>1, <2>2, <2>3, <2>4 DEF Next, RaceStep
<1>. QED BY <1>2, <1>3

\* Before the race no engine has been handed out.
LEMMA InitEngine == Init => EngineInv
BY TapesAssumption, PowerOnTyped DEF Init, EngineInv

\* The abstract machine reads a tape as the engine does.
LEMMA SameReading ==
  ASSUME NEW t, NEW v, NEW ins, NEW regs
  PROVE  /\ Abs!InputIds(t) = InputIds(t) /\ Abs!OutputIds(t) = OutputIds(t)
         /\ Abs!Buffers(t) = Buffers(t)
         /\ Abs!OutputsOf(t, v) = OutputsOf(t, v)
         /\ Abs!capture_next(t, v) = capture_next(t, v)
         /\ Abs!initial_values(t) = initial_values(t)
         /\ Abs!Settled(t, v) <=> Settled(t, v)
         /\ Abs!SourcesHold(t, v, ins, regs) <=> Holds(t, v, ins, regs)
<1>1. /\ Abs!Slots(t) = Slots(t) /\ Abs!InputIds(t) = InputIds(t)
      /\ Abs!Registers(t) = Registers(t) /\ Abs!OutputIds(t) = OutputIds(t)
      /\ Abs!GateSlots(t) = GateSlots(t)
  BY DEF Abs!Slots, Slots, Abs!slot_count, slot_count, Abs!InputIds, InputIds,
         Abs!Registers, Registers, Abs!OutputIds, OutputIds, Abs!GateSlots, GateSlots
<1>2. Abs!OutputsOf(t, v) = OutputsOf(t, v) /\ Abs!capture_next(t, v) = capture_next(t, v)
  BY <1>1 DEF Abs!OutputsOf, OutputsOf, Abs!capture_next, capture_next
<1>3. Abs!initial_values(t) = initial_values(t)
  BY <1>1 DEF Abs!initial_values, initial_values
<1>4. \A g : Abs!eval_gate(t, v, g) = eval_gate(t, v, g)
  BY DEF Abs!eval_gate, eval_gate, Abs!Apply, Apply, Abs!arity, arity, Abs!Unary, Unary
<1>5. Abs!Settled(t, v) <=> Settled(t, v)
  BY <1>1, <1>4 DEF Abs!Settled, Settled
<1>6. Abs!ConstsHeld(t, v) <=> ConstsHeld(t, v)
  BY DEF Abs!ConstsHeld, ConstsHeld
<1>7. Abs!SourcesHold(t, v, ins, regs) <=> Holds(t, v, ins, regs)
  BY <1>1, <1>6 DEF Abs!SourcesHold, Holds
<1>8. Abs!Buffers(t) = Buffers(t)
  BY <1>1 DEF Abs!Buffers, Buffers
<1>. QED BY <1>1, <1>2, <1>3, <1>5, <1>7, <1>8

\* The constructor returns a machine at power-on.
LEMMA InitRefines == Init => Abs!PoweredOn
<1>. SUFFICES ASSUME Init PROVE Abs!PoweredOn
  OBVIOUS
<1>1. Client = PowerOn(tape)
  BY DEF Init, Client
<1>. QED BY <1>1, SameReading DEF PowerOn, Abs!PoweredOn, Abs!Low, Abs!PowerOnOutputs

\* Every step is one of the synchronous machine, or nothing to the client.
LEMMA StepRefines == RaceInv /\ EngineInv /\ [Next]_vars => [AbsNext]_(Abs!syncVars)
<1>. SUFFICES ASSUME RaceInv, EngineInv, [Next]_vars PROVE [AbsNext]_(Abs!syncVars)
  OBVIOUS
<1>1. TapeContract(tape) /\ engine \in Engines(tape)
  BY TapesAssumption DEF EngineInv
<1>. USE DEF race
<1>2. ASSUME tape' = tape, Client' = Client PROVE UNCHANGED Abs!syncVars
  BY <1>2 DEF Abs!syncVars
<1>3. CASE WarmupTick \/ TimedTick
  <2>1. tape' = tape /\ Client' = Client
    BY <1>3 DEF WarmupTick, TimedTick, Client, Built
  <2>. QED BY <1>2, <2>1
<1>4. CASE ReadClock
  <2>1. tape' = tape /\ ~Built
    BY <1>4 DEF ReadClock
  <2>2. Client = PowerOn(tape)
    BY <2>1 DEF Client
  <2>3. Client' = PowerOn(tape)
    <3>1. CASE racing' = racing
      BY <2>1, <3>1 DEF Client, Built
    <3>2. CASE racing' = racing + 1 /\ racing = Candidates
      <4>1. engine' = PowerOn(tape)
        BY <1>4, <3>2, Constants DEF ReadClock, Restored
      <4>. QED BY <2>1, <4>1 DEF Client
    <3>3. CASE racing' = racing + 1 /\ racing # Candidates
      <4>1. racing \in Nat /\ Candidates \in Nat
        BY Constants DEF RaceInv, RaceTyped
      <4>2. ~(racing' > Candidates)
        BY <2>1, <3>3, <4>1 DEF Built
      <4>. QED BY <2>1, <4>2 DEF Client, Built
    <3>4. racing' = racing \/ racing' = racing + 1
      BY <1>4 DEF ReadClock
    <3>. QED BY <3>1, <3>2, <3>3, <3>4
  <2>. QED BY <1>2, <2>1, <2>2, <2>3
<1>5. ASSUME NEW i \in InputIds(tape), NEW value \in BOOLEAN, set_input(i, value)
      PROVE  AbsNext
  <2>1. /\ tape' = tape /\ Client = engine /\ Client' = Driven(tape, engine, i, value)
    BY <1>5 DEF set_input, Client, Built
  <2>2. Abs!SetInput(i, value)
    <3>1. /\ Client'.inputs = [Client.inputs EXCEPT ![i] = value]
          /\ Client'.state = Client.state
          /\ Client'.outs = [o \in OutputIds(tape) |->
               IF tape.output_slots[o] = tape.input_slots[i] THEN value ELSE Client.outs[o]]
      BY <1>1, <2>1, DriveSets
    <3>2. OutputIds(tape) = Abs!OutputIds(tape)
      BY SameReading
    <3>. QED BY <2>1, <3>1, <3>2 DEF Abs!SetInput
  <2>. QED BY <2>2 DEF AbsNext
<1>6. CASE tick
  <2>1. /\ tape' = tape /\ Client = engine /\ Client' = Ticked(tape, engine) /\ Built
    BY <1>6 DEF tick, Client, Built
  <2>2. Abs!TickOn(settle(tape, SourceValues(tape, engine)))
    <3>. DEFINE values == settle(tape, SourceValues(tape, engine))
    <3>1. /\ Settled(tape, values) /\ Holds(tape, values, engine.inputs, engine.state)
          /\ Client'.inputs = engine.inputs /\ Client'.state = capture_next(tape, values)
          /\ Client'.outs = OutputsOf(tape, values)
      BY <1>1, <2>1, TickCycles
    <3>. QED BY <2>1, <3>1, SameReading DEF Abs!TickOn
  <2>. QED BY <2>1, <2>2 DEF AbsNext
<1>7. CASE UNCHANGED vars
  <2>1. tape' = tape /\ Client' = Client
    BY <1>7 DEF vars, Client, Built
  <2>. QED BY <1>2, <2>1
<1>. QED BY <1>3, <1>4, <1>5, <1>6, <1>7 DEF Next, RaceStep

\* "Whatever wins, the results stay bit-for-bit identical to every other
\* engine": for any clock, and so for any winner, the constructor returns a
\* synchronous machine at power-on, and the calls are those of that machine.
THEOREM Refinement == Spec => ImplementsSync
<1>1. Spec => [](RaceInv /\ EngineInv)
  <2>1. Init => EngineInv
    BY InitEngine
  <2>2. EngineInv /\ [Next]_vars => EngineInv'
    BY NextEngine
  <2>. QED BY <2>1, <2>2, RaceInvariant, PTL DEF Spec
<1>. QED BY <1>1, InitRefines, StepRefines, PTL DEF Spec, ImplementsSync

\* The cycles on a computed buffer are cycles of the synchronous machine,
\* whose specification the engine implements.
THEOREM ImplementsEngine == Spec => Abs!Spec
<1>1. Init => Abs!Init
  BY InitRefines DEF Init, Abs!Init
<1>2. EngineInv /\ [AbsNext]_(Abs!syncVars) => [Abs!Next]_(Abs!syncVars)
  <2>. SUFFICES ASSUME EngineInv, AbsNext PROVE Abs!Next
    BY DEF Abs!syncVars
  <2>1. CASE \E i \in InputIds(tape), value \in BOOLEAN : Abs!SetInput(i, value)
    BY <2>1, SameReading DEF Abs!Next
  <2>2. CASE Built /\ Abs!TickOn(settle(tape, SourceValues(tape, engine)))
    <3>1. TapeContract(tape) /\ engine \in Engines(tape)
      BY TapesAssumption DEF EngineInv
    <3>2. settle(tape, SourceValues(tape, engine)) \in Abs!Buffers(tape)
      BY <3>1, TickCycles, SameReading
    <3>. QED BY <2>2, <3>2 DEF Abs!Tick, Abs!Next
  <2>. QED BY <2>1, <2>2 DEF AbsNext
<1>3. Spec => []EngineInv
  BY InitEngine, NextEngine, PTL DEF Spec
<1>. QED BY <1>1, <1>2, <1>3, Refinement, PTL DEF Spec, ImplementsSync, Abs!Spec
=============================================================================
