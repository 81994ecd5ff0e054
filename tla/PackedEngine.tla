---------------------------- MODULE PackedEngine ----------------------------
(***************************************************************************)
(* The packed engine: one bit of an arena per signal, one task per word.   *)
(* A tick copies the register words, runs the tasks in plan order and      *)
(* captures the next register words.                                       *)
(***************************************************************************)
EXTENDS Pack, Settle

CONSTANT Tapes  \* the compiled circuits an engine may be given

VARIABLES
  tape,    \* the compiled circuit
  plan,    \* its plan
  bits,    \* the arena
  staging, \* next register words, captured at the end of a tick
  pc,      \* 0 between calls, else the next task of the tick
  outs     \* history: what output() returns to the caller

ASSUME TapesAssumption == \A t \in Tapes : TapeContract(t)

config == <<tape, plan>>
vars == <<config, bits, staging, pc, outs>>

\* Output o: a constant of the plan or a bit of the arena.
output(t, p, arena, o) ==
  LET slot == t.output_slots[o]
  IN  IF IsConstSlot(t, slot) THEN IsTrueSlot(t, slot) ELSE BitAt(arena, p.pos[slot])

PlanOutputs(t, p, arena) == [o \in OutputIds(t) |-> output(t, p, arena, o)]

\* The arena with register words copied in.
CopyIn(p, arena, words) ==
  [w \in DOMAIN arena |->
     IF w - p.reg_word + 1 \in DOMAIN p.reg_init THEN words[w - p.reg_word + 1] ELSE arena[w]]

\* The captured registers of a reset engine, with the pad word if there is one.
StagedInit(p) ==
  [k \in 1 .. p.staging_words |-> IF k \in DOMAIN p.reg_init THEN p.reg_init[k] ELSE {}]

PowerOn(p) == CopyIn(p, [w \in 0 .. p.words - 1 |-> {}], p.reg_init)

Init ==
  /\ tape \in Tapes
  /\ plan = Plan(tape)
  /\ bits = PowerOn(plan)
  /\ staging = StagedInit(plan)
  /\ pc = 0
  /\ outs = PlanOutputs(tape, plan, bits)

reset ==
  /\ pc = 0
  /\ bits' = PowerOn(plan)
  /\ staging' = StagedInit(plan)
  /\ outs' = PlanOutputs(tape, plan, bits')
  /\ UNCHANGED <<config, pc>>

\* Input i sits at position i - 1, whatever its slot.
set_input(i, value) ==
  /\ pc = 0
  /\ LET w == WordOf(i - 1)
     IN  bits' = [bits EXCEPT ![w] = IF value THEN @ \cup {Offset(i - 1)}
                                              ELSE @ \ {Offset(i - 1)}]
  /\ outs' = PlanOutputs(tape, plan, bits')
  /\ UNCHANGED <<config, staging, pc>>

ClockEdge ==
  /\ pc = 0
  /\ bits' = CopyIn(plan, bits, staging)
  /\ pc' = 1
  /\ UNCHANGED <<config, staging, outs>>

\* Mutant: the task cursor moves twice.
TaskSkipped ==
  /\ pc \in DOMAIN plan.tasks
  /\ bits' = [bits EXCEPT ![plan.tasks[pc].dst] = TaskWord(bits, bits, plan.tasks[pc])]
  /\ pc' = pc + 2
  /\ UNCHANGED <<config, staging, outs>>

\* Mutant: the task cursor stays.
TaskRepeats ==
  /\ pc \in DOMAIN plan.tasks
  /\ bits' = [bits EXCEPT ![plan.tasks[pc].dst] = TaskWord(bits, bits, plan.tasks[pc])]
  /\ UNCHANGED <<config, staging, pc, outs>>

RunTask ==
  /\ pc \in DOMAIN plan.tasks
  /\ bits' = [bits EXCEPT ![plan.tasks[pc].dst] = TaskWord(bits, bits, plan.tasks[pc])]
  /\ pc' = pc + 1
  /\ UNCHANGED <<config, staging, outs>>

\* The gathered next register words; the pad word stays.
Captured(view) ==
  [k \in DOMAIN staging |->
     IF k \in DOMAIN plan.capture THEN gather(view, plan.capture[k]) ELSE staging[k]]

\* tick() ends: the next register words are captured, and the writes applied.
Capture ==
  /\ pc = Len(plan.tasks) + 1
  /\ staging' = Written(bits, plan.writes, Captured(bits))
  /\ outs' = PlanOutputs(tape, plan, bits)
  /\ pc' = 0
  /\ UNCHANGED <<config, bits>>

TickStep == RunTask \/ Capture

Next ==
  \/ \E i \in InputIds(tape), value \in BOOLEAN : set_input(i, value)
  \/ reset
  \/ ClockEdge
  \/ TickStep

Spec == Init /\ [][Next]_vars /\ WF_vars(TickStep)

-----------------------------------------------------------------------------
TypeOK ==
  /\ bits \in [0 .. plan.words - 1 -> SUBSET Lanes]
  /\ staging \in [1 .. plan.staging_words -> SUBSET Lanes]
  /\ pc \in 0 .. Len(plan.tasks) + 1
  /\ outs \in [OutputIds(tape) -> BOOLEAN]

\* The positions whose bits reach the word a stream gathers.
Reads(stream) ==
  {seg.src : seg \in stream.splats}
    \cup UNION {{seg.src + k - seg.shift : k \in seg.mask} : seg \in stream.funnels}

\* All addresses a memory read or write may see, and the bits at each.
AddressesOf(access) == 0 .. 2 ^ Len(access.addr_pos) - 1
Loaded(read, addr) == {LoadedFrom(read, addr).src + k : k \in Field(read.width)}
Stored(write, addr) == {write.base_bit + addr * write.width + k : k \in Field(write.width)}

TaskReads(task) ==
  (UNION {Reads(task.streams[i]) : i \in 1 .. 3})
    \cup ToSet(task.read.addr_pos)
    \cup (UNION {Loaded(task.read, addr) : addr \in AddressesOf(task.read)})
WriteReads(write) == ToSet(write.addr_pos) \cup {write.enable_pos} \cup Reads(write.data)
CaptureReads(p) ==
  (UNION {Reads(p.capture[k]) : k \in DOMAIN p.capture})
    \cup (UNION {WriteReads(p.writes[k]) : k \in DOMAIN p.writes})
Placed(p) == {s \in DOMAIN p.pos : p.pos[s] # NoPos}
PlacedSources(t, p) == Placed(p) \cap Sources(t)

\* Tasks, the capture and the outputs read positions of signals of the tape,
\* no two of which share one.
ReadsSignals(t, p) ==
  LET signals == {p.pos[s] : s \in Placed(p)}
      wanted == {s \in {t.output_slots[o] : o \in OutputIds(t)} : ~IsConstSlot(t, s)}
  IN  /\ \A k \in DOMAIN p.tasks : TaskReads(p.tasks[k]) \subseteq signals
      /\ CaptureReads(p) \subseteq signals
      /\ wanted \subseteq Placed(p)
      /\ \A s, u \in Placed(p) : p.pos[s] = p.pos[u] => s = u

\* "Pad bits hold garbage; nothing ever reads them", and a gate that has
\* left the windows for a chain has left them for good: what a task, the
\* capture or an output reads is the position of some signal of the tape.
\* The plan never changes; this and the next invariants of the plan alone look
\* at it between calls.
ReadsOnlySignals == pc = 0 => ReadsSignals(tape, plan)

\* The streams of a plan, and a position that a gather may load two words at.
StreamsOf(p) ==
  {p.tasks[k].streams[i] : k \in DOMAIN p.tasks, i \in 1 .. 3}
    \cup {p.capture[k] : k \in DOMAIN p.capture}
    \cup {p.writes[k].data : k \in DOMAIN p.writes}
InBounds(p, position) == position >= 0 /\ WordOf(position) + 1 < p.words

\* The contract gather() relies on when it indexes unchecked, which the plan
\* asserts of every segment: its word and the one after it are in the arena.
\* So are the two words that a memory read loads.
LoadsInBounds(p) ==
  /\ \A stream \in StreamsOf(p) : \A seg \in stream.funnels \cup stream.splats : InBounds(p, seg.src)
  /\ \A k \in DOMAIN p.tasks : LET read == p.tasks[k].read IN
       \A addr \in AddressesOf(read) : InBounds(p, LoadedFrom(read, addr).src)
GathersInBounds == LoadsInBounds(plan)

\* At this address write k patches the captured bits of the cells of that
\* word and no others; the word it patches and the next one, which the JIT
\* stores whether or not the field straddles, are in the staging buffer.
PatchesWord(t, p, k, addr, stage) ==
  LET write == p.writes[k]
      bank  == p.banks[k]
  IN  /\ {Offset(q) + WordBits * (p.reg_word + WordOf(q)) : q \in Stored(write, addr)}
           = {p.pos[t.reg_out_slots[bank.base_reg + addr * bank.width + i]] : i \in 0 .. bank.width - 1}
      /\ WordOf(write.base_bit + addr * write.width) + 2 \in DOMAIN stage

\* So it is at every address, whatever the address bits are.
PatchesOwnCells ==
  \A k \in DOMAIN plan.writes : \A addr \in AddressesOf(plan.writes[k]) :
    PatchesWord(tape, plan, k, addr, staging)

\* "A write mux may be read only by its own bank cell": it is gone, so a
\* second register could not capture it.
WriteMuxLatchedOnce ==
  \A k \in DOMAIN plan.banks : \A r \in Cells(plan.banks[k]) : \A q \in LiveRegs(tape) :
    tape.reg_in_slots[q] = tape.reg_in_slots[r] => q = r

\* A word is written once in a tick, source words never, and whoever reads it
\* runs later.
WritesPrecedeReads(t, p) ==
  LET sources == {WordOf(p.pos[s]) : s \in PlacedSources(t, p)}
  IN  \A k \in DOMAIN p.tasks :
        /\ p.tasks[k].dst \notin sources
        /\ \A j \in 1 .. k :
             /\ p.tasks[j].dst = p.tasks[k].dst => j = k
             /\ p.tasks[k].dst \notin {WordOf(x) : x \in TaskReads(p.tasks[j])}

\* "No gather reads a task's word before that task ran". The packed JIT keeps
\* words in variables on the strength of this.
WrittenBeforeRead == pc = 0 => WritesPrecedeReads(tape, plan)

\* "The fused tasks run right before the windows of this level": no window
\* of a chain's level comes before the chain.
ChainsBeforeLevel ==
  LET removed == UNION {ChainGates(plan.chains[c].links) : c \in DOMAIN plan.chains}
      word(s) == WordOf(plan.pos[s])
  IN  \A c \in DOMAIN plan.chains, j, k \in DOMAIN plan.tasks :
        plan.tasks[k].dst = word(Last(plan.chains[c].links).carry) /\ j < k =>
          \A s \in Placed(plan) \ removed :
            word(s) = plan.tasks[j].dst => tape.slot_level[s] < plan.chains[c].ready

-----------------------------------------------------------------------------
\* A tape settled with these sources high and the others low.
SettledWith(t, high) == settle(t, [s \in Slots(t) |-> IsTrueSlot(t, s) \/ s \in high])

\* The sources as the arena holds them, settled.
Reference == SettledWith(tape, {s \in PlacedSources(tape, plan) : BitAt(bits, plan.pos[s])})

\* When the last task of a tick has run, every signal that has a place has the
\* value that evaluating the tape gate by gate gives it: no chain, no memory
\* read and no gather has changed what any gate computes.
SettledAtCapture ==
  LET reference == Reference
  IN  pc = Len(plan.tasks) + 1 => \A s \in Placed(plan) : BitAt(bits, plan.pos[s]) = reference[s]

-----------------------------------------------------------------------------
(* How a plan is built.                                                    *)

\* The positions of signals, and a slot whose value a stream can take.
Positioned(p) == {p.pos[s] : s \in Placed(p)}
Gathered(t, p, slot) == slot = NoSlot \/ IsConstSlot(t, slot) \/ slot \in Placed(p)

\* Every signal has a position of its own, with a word above it. Inputs come
\* first, the registers fill their words, and a reset puts their initial
\* values there.
LaidOut(t, p) ==
  /\ p.words \in Nat /\ p.reg_word \in Nat /\ DOMAIN p.pos = Slots(t)
  /\ \A s \in Placed(p) : p.pos[s] \in Nat /\ WordOf(p.pos[s]) + 1 < p.words
  /\ \A s, u \in Placed(p) : p.pos[s] = p.pos[u] => s = u
  /\ p.reg_init \in Seq(SUBSET Lanes) /\ p.reg_word + Len(p.reg_init) <= p.words
  /\ \A i \in InputIds(t) : p.pos[t.input_slots[i]] = i - 1
  /\ \A r \in Registers(t) :
       /\ p.pos[t.reg_out_slots[r]] = WordBits * p.reg_word + r - 1
       /\ WordOf(r - 1) + 1 \in DOMAIN p.reg_init
       /\ Offset(r - 1) \in p.reg_init[WordOf(r - 1) + 1] <=> t.reg_initial[r]
  /\ \A s \in PlacedSources(t, p) :
       \/ \E i \in InputIds(t) : t.input_slots[i] = s
       \/ \E r \in Registers(t) : t.reg_out_slots[r] = s
  /\ \A s \in Placed(p) :
       WordOf(p.pos[s]) - p.reg_word + 1 \in DOMAIN p.reg_init =>
         \E r \in Registers(t) : t.reg_out_slots[r] = s

\* The signals of a word are among these slots, from its lowest bit on.
FilledBy(p, w, slots) ==
  \A s \in Placed(p) : WordOf(p.pos[s]) = w =>
    \E i \in DOMAIN slots : slots[i] = s /\ Offset(p.pos[s]) = i - 1

\* A task of the gates of its word.
IsGateTask(t, p, task) ==
  LET signals == {s \in Placed(p) : WordOf(p.pos[s]) = task.dst}
      slots == [i \in 1 .. Cardinality(signals) |->
                  CHOOSE s \in signals : p.pos[s] = WordBits * task.dst + i - 1]
  IN  /\ {p.pos[s] : s \in signals} = {WordBits * task.dst + i - 1 : i \in 1 .. Cardinality(signals)}
      /\ slots \in Seq(GateSlots(t)) /\ Len(slots) \in 1 .. WordBits
      /\ FilledBy(p, task.dst, slots)
      /\ \A i \in DOMAIN slots :
           /\ t.ops[slots[i]] = task.op
           /\ \A s \in OperandsOf(t, slots[i]) : Gathered(t, p, s)
      /\ task = GateTask(t, p.pos, slots, task.op)

\* A task of a chain, for the sums and the carry-out or for gates that escape.
IsChainTask(t, p, task) ==
  \E c \in DOMAIN p.chains : LET chain == p.chains[c] IN
    /\ IsChain(t, chain)
    /\ \A s \in ChainInputs(chain.links) : Gathered(t, p, s)
    /\ \E block \in {<<"Add", SumBlock(chain)>>, <<"Xor", PxqBlock(chain)>>, <<"And", GBlock(chain)>>} :
         /\ task = ChainTask(t, p.pos, chain, block[1], task.dst)
         /\ FilledBy(p, task.dst, block[2])

\* Positions and widths are what they are taken for.
AccessTyped(access) ==
  access.addr_pos \in Seq(Nat) /\ access.base_bit \in Nat /\ access.width \in Nat

\* The arena that holds a buffer of the tape, pad bits low.
Holding(p, values) ==
  [w \in 0 .. p.words - 1 |->
     {l \in Lanes : \E s \in Placed(p) : p.pos[s] = WordBits * w + l /\ values[s]}]

\* A memory read. On every settled tape it yields what its tree of gates does.
IsReadTask(t, p, task) ==
  /\ task = [Task("MemRead", task.dst, NoStream, NoStream, NoStream) EXCEPT !.read = task.read]
  /\ AccessTyped(task.read) /\ task.read.width # 0 /\ TaskReads(task) \subseteq Positioned(p)
  /\ \A high \in SUBSET PlacedSources(t, p) :
       LET values == SettledWith(t, high)
           arena == Holding(p, values)
           word == ReadWord(arena, arena, task.read)
       IN  \A s \in Placed(p) : WordOf(p.pos[s]) = task.dst => (Offset(p.pos[s]) \in word <=> values[s])

\* The tasks cover every gate that has a place, whoever reads a word runs
\* after the task that writes it, and outputs can be read.
TasksBuilt(t, p) ==
  /\ Len(p.tasks) \in Nat /\ DOMAIN p.tasks = 1 .. Len(p.tasks)
  /\ \A k \in DOMAIN p.tasks : LET task == p.tasks[k] IN
       /\ task.dst \in {WordOf(x) : x \in Positioned(p)}
       /\ IsGateTask(t, p, task) \/ IsChainTask(t, p, task) \/ IsReadTask(t, p, task)
  /\ \A s \in Placed(p) \ Sources(t) : \E k \in DOMAIN p.tasks : p.tasks[k].dst = WordOf(p.pos[s])
  /\ WritesPrecedeReads(t, p)
  /\ \A o \in OutputIds(t) : Gathered(t, p, t.output_slots[o])

\* The registers that word k captures, in order.
CaptureWindow(t, p, k) ==
  [i \in 1 .. Min({WordBits, Len(t.reg_out_slots) - WordBits * (k - 1)}) |->
     CaptureSlot(t, p.banks, WordBits * (k - 1) + i)]

\* The write of a bank: it addresses every word of it, and its cells are
\* registers in a row.
IsWrite(t, p, bank, write) ==
  /\ write = MemWrite(t, p.pos, bank, p.reg_word) /\ AccessTyped(write)
  /\ bank.base_reg \in Nat \ {0} /\ Cells(bank) \subseteq Registers(t)
  /\ bank.width \in 1 .. WordBits /\ bank.words = 2 ^ Len(write.addr_pos)
  /\ bank.enable \in Placed(p) /\ ToSet(bank.addr_bits) \subseteq Placed(p)
  /\ bank.data \in Seq(Slots(t)) /\ Len(bank.data) = bank.width
  /\ \A i \in DOMAIN bank.data : Gathered(t, p, bank.data[i])

\* Every register is captured, and on every settled tape the cells of the
\* banks capture what their write muxes yield.
CaptureBuilt(t, p) ==
  /\ DOMAIN p.capture = DOMAIN p.reg_init /\ Len(p.reg_init) = WordsFor(Len(t.reg_out_slots))
  /\ \A k \in DOMAIN p.capture : p.capture[k] = plan_stream(t, p.pos, CaptureWindow(t, p, k))
  /\ \A r \in Registers(t) : Gathered(t, p, CaptureSlot(t, p.banks, r))
  /\ Len(p.writes) \in Nat /\ DOMAIN p.writes = 1 .. Len(p.writes) /\ DOMAIN p.banks = DOMAIN p.writes
  /\ \A k \in DOMAIN p.writes : IsWrite(t, p, p.banks[k], p.writes[k])
  /\ p.staging_words = StagingWords(Len(p.reg_init), p.banks)
  /\ \A high \in IF p.banks = <<>> THEN {} ELSE SUBSET PlacedSources(t, p) :
       LET values == SettledWith(t, high)
           arena == Holding(p, values)
           stage == Written(arena, p.writes, [k \in DOMAIN p.capture |-> gather(arena, p.capture[k])])
       IN  \A k \in DOMAIN p.banks : \A r \in Cells(p.banks[k]) :
             Offset(r - 1) \in stage[WordOf(r - 1) + 1] <=> values[t.reg_in_slots[r]]

\* Every plan is built like this. Memories alone are compared with their
\* gates here, on whatever values the sources have, the registers'
\* unreachable ones included. As the plan never changes, it is looked at when
\* the engine is at power-on.
PlanBuilt(t, p) == LaidOut(t, p) /\ TasksBuilt(t, p) /\ CaptureBuilt(t, p)
PlanSound ==
  pc = 0 /\ bits = PowerOn(plan) /\ staging = StagedInit(plan) => PlanBuilt(tape, plan)

-----------------------------------------------------------------------------
\* The engine is a synchronous machine, whose cycle is the capture that ends
\* a tick. The settled buffer of Sync!Tick is computed rather than searched for.
Abs == INSTANCE Sync WITH
  inputs <- [i \in InputIds(tape) |-> BitAt(bits, i - 1)],
  state  <- [r \in Registers(tape) |-> Offset(r - 1) \in staging[WordOf(r - 1) + 1]]
AbsNext ==
  \/ \E i \in InputIds(tape), value \in BOOLEAN : Abs!SetInput(i, value)
  \/ pc # 0 /\ pc' = 0 /\ Abs!TickOn(Reference)
  \/ Abs!Reset
ImplementsSync == Abs!PoweredOn /\ [][AbsNext]_(Abs!syncVars)

\* A tick that has begun ends.
TickCompletes == pc # 0 ~> pc = 0
=============================================================================
