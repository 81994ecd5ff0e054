# A verification project for ryzr

ryzr simulates synchronous digital circuits. A client builds a netlist of
gates and registers, the netlist is optimized and compiled once into a *tape*,
and one of several engines runs the tape tick by tick. The repository's one
rule is that every engine produces results "bit-for-bit identical to a naive
reference interpreter" (README.md). This directory states that rule, and what
the parts rely on to keep it, in TLA+: models that TLC checks on small
instances, and theorems that the TLA+ proof system checks for every instance.

    tlc  -config Pipeline.cfg       Pipeline.tla
    tlc  -config EventEngine.cfg    MCEventEngine.tla
    tlc  -config ThreadedEngine.cfg MCThreadedEngine.tla
    tlc  -config PackedEngine.cfg   MCPackedEngine.tla
    tlc  -config PackedJit.cfg      MCPackedJit.tla
    tlc  -config Hybrid.cfg         MCHybrid.tla
    tlc  -config Cpu.cfg            MCCpu.tla
    tlc  -config ChainBoundary.cfg  MCPackedEngine.tla
    tlc  -config JitLoads.cfg       MCPackedJit.tla
    tlc  -config InnerData.cfg      MCPackedEngine.tla
    tlc  -config SharedWrite.cfg    MCPackedEngine.tla
    tlc  -config WideFile.cfg       MCPackedEngine.tla
    tlapm Tape_proofs.tla
    tlapm EventEngine_proofs.tla
    tlapm ThreadedEngine_proofs.tla
    tlapm Hybrid_proofs.tla
    tlapm Pack_proofs.tla
    tlapm Packed_proofs.tla
    tlapm Optimizer_proofs.tla
    tlapm Pipeline_proofs.tla

## 1. The system

### Components, their state and their operations

| component | source | state | operations |
|---|---|---|---|
| circuit builder | ryzr-core/circuit.rs | instructions, registers with an optional data input, outputs, next input index | `constant`, `input`, `reg`, `drive`, `add_register`, `gate`, `output`, `finish` |
| reference interpreter | ryzr-core/backend.rs | signal values, register values | `tick(inputs)` |
| netlist optimizer | ryzr-core/opt.rs | the rewritten node list, a structural hash table, the two shared constants | `optimize` |
| tape compiler | ryzr-backend/compile.rs | none, `Compiled` is immutable and shared | `Compiled::new` |
| engine contract | ryzr-backend/lib.rs | (trait) | `set_input`, `output`, `tick`, `run` |
| event-driven engine | ryzr-backend/event.rs | value buffer, captured registers, per-level buckets, dedup bitmask | trait, `reset` |
| scalar engine | ryzr-backend/scalar.rs | value buffer, captured registers | trait |
| level-parallel engine | ryzr-backend/threaded.rs | the same, and a threshold; the workers of a rayon pool inside a tick | trait, `with_threshold`, `reset` |
| packed plan, SWAR engine | ryzr-backend/pack.rs | bit arena, staging words; the plan is immutable | trait, `reset` |
| chain fusion, memory fusion | ryzr-backend/fuse.rs, mem.rs | none, analyses of a tape | `find_chains`, `find_banks`, `find_regfiles` |
| packed JIT engine | ryzr-backend/pack_jit.rs | bit arena, native code | trait, `reset` |
| hybrid engine | ryzr-backend/hybrid.rs | the candidate that won | trait; `race_single` while it is built |
| RISC-V RTL library, CPU | ryzr-riscv/rtl.rs, cpu.rs | a circuit, whose registers are the PC, x1 to x31 and the RAM | `build_cpu`, then the trait of an engine |
| RISC-V emulator | ryzr-riscv/emu.rs | PC, registers, RAM, ROM | `new`, `step`, `run` |
| RISC-V assembler | ryzr-riscv/asm.rs | none | one encoder per mnemonic |

### How they interact

The builder's `finish` sorts the netlist topologically and renumbers it.
`Compiled::new` calls `optimize`, assigns each gate a level one above its
operands, sorts by (level, operation, id), and lays the result out as arrays,
with a successor map and a validation of all operands. Engines share the tape
by reference and index it without bounds checks, on the strength of that
validation. The packed engines derive a second plan from the tape. The hybrid
engine builds every candidate, runs each on the live circuit, resets the
winner to power-on and forwards all calls to it. An engine is driven by one
caller: `set_input`, `output` and `tick` never overlap. Concurrency exists
only inside a tick of the level-parallel engine.

A register is latched in two halves: the end of a tick captures its next value
from the settled buffer, the start of the next tick writes it to the
register's output slot. Calls made in between see settled values from before
the edge.

### What is hard, and what correctness means

* **Builder and optimizer**: forward references between registers and logic; about
  forty rewrite rules with side conditions that feed one another. Correct: the
  result is observably equivalent, keeps the interface by position, and is a
  normal form for those rules.
* **Compiler**: two reorderings, then unchecked indexing. Correct: operands lie
  strictly below in slot and in level, the successor map is exact, levels and
  runs partition the gates, and the settled tape computes what the interpreter
  computes on the circuit that was built.
* **Event-driven engine**: the dirty set is kept twice (flag and worklist) and
  carries over from call to call; a gate missed once stays wrong. Correct: the
  two agree, a gate outside the set is settled, one ascending sweep is enough.
* **Level-parallel engine**: several threads, two paths for a level. Correct: no
  worker reads a slot that another may write, a level starts when those before
  it have settled, and the outcome does not depend on scheduling or threshold.
* **All engines**: the split latch, inputs changed between ticks, reset after
  any number of ticks. Correct: seen from outside, an engine is the synchronous
  machine of the `Engine` trait.
* **Packed plan and fusion**: relocation of bits, task order, and removal of gates that
  something else may still read. Correct: every gathered bit is in the arena
  and was written before it is read, what is removed is not needed, and a word
  addition gives the sums and the carries of the gates it replaces.
* **Memory fusion**: a tree of muxes becomes an indexed load and a row of muxes a
  masked store, on the strength of structural checks. Correct: load and store
  use the same address as the gates did, at every address; only cells of the
  bank change; nobody else needed what is gone.
* **Hybrid engine**: the choice depends on time, and every candidate has advanced
  when it is made. Correct: whichever wins, the client cannot tell; the race ends.
* **Core and emulator**: two descriptions of one machine, one of them in wires.
  Correct: they agree in every state a program reaches, on operands at the
  corners, on misaligned and wrapping addresses and on encodings no mnemonic has.

The list of hazards, each at its line with the properties aimed at it, is in
`PROJECT.json`.

## 2. The modules

| module | models |
|---|---|
| `Gates` | gate operations, their arities and their meaning |
| `Netlist` | circuits and the interpreter: `InterpTick` is one tick |
| `CircuitBuilder` | the builder as a state machine, one action per call |
| `Optimizer` | `optimize` as an operator: forward rewrite, liveness, emission |
| `Tape` | the fields of `Compiled`, evaluation of a gate, edge and capture, and `TapeContract`, what the compiler promises the engines |
| `Compile` | `Compiled::new` as an operator on an optimized circuit |
| `Pipeline` | builder, then optimizer, then compiler; properties comparing the three with the interpreter |
| `Sync` | the abstract specification: the synchronous machine of the `Engine` trait |
| `EventEngine` | the event-driven engine |
| `ThreadedEngine` | the level-parallel engine, and the scalar engine as its narrow path |
| `Order` | finite sets as sequences: `Ordered` by given places, `Rank`, `Ascending` |
| `Fuse` | `find_chains` as an operator on a tape |
| `Mem` | `find_banks` and `find_regfiles` as operators on a tape |
| `Pack` | `Plan::new` as an operator on a tape: layout, gather programs, tasks, memory reads and writes; evaluation of a task |
| `Settle` | the run loop of the scalar engine as an operator: a buffer evaluated gate by gate |
| `PackedEngine` | the packed engine, and what a plan owes it: `PlanBuilt`, how plans are built, and `PlanContract`, what follows from that |
| `PackedJit` | the packed JIT engine: the packed engine with a word cache |
| `Hybrid` | the hybrid engine: the race, and the calls forwarded to the winner |
| `Word32` | 32-bit words and the integer operations of the emulator on them |
| `Asm` | the instruction encoders |
| `Emulator` | the instruction-level emulator |
| `Rtl` | the word-level circuit library |
| `Cpu` | the gate-level core as `build_cpu` wires it, one action per tick |
| `MCTapes`, `MCEventEngine`, `MCThreadedEngine`, `MCPackedEngine`, `MCPackedJit`, `MCHybrid` | circuits for the engine runs, and the instances |
| `MCCpu` | programs for the core, and its instance |
| `Optimizer_proofs` | lemmas about circuits and about every pass of the optimizer |
| `Pipeline_proofs` | theorems about the builder, the optimizer and the compiler |
| `Tape_proofs`, `EventEngine_proofs`, `ThreadedEngine_proofs` | lemmas about tapes, evaluation gate by gate settles a buffer; theorems about the two engines |
| `Hybrid_proofs` | theorems about the race and the engine it hands out |
| `Pack_proofs` | lemmas and theorems about words, funnels, gather programs, addresses, memory writes and the native add; a plan built as `PlanBuilt` says keeps `PlanContract` |
| `Packed_proofs` | theorems about the packed engine and the packed JIT engine; the planner keeps `PlanBuilt` on every tape without memories |

Conventions. Signals, slots, inputs, registers, outputs, runs and levels count
from 1 instead of 0, and 0 stands for the absent index `u32::MAX`; bit positions
and words of the packed arena count from 0, and there -1 is the absent position. Ranges are
half open as in the code. A byte of the value buffer is a Boolean. Names,
debug names and list pools are left out. Names in lower case are the code's
own. A definition marked *Mutant* is a plausible bug, never part of a
specification; it shows that the property it is paired with in `PROJECT.json`
can fail.

**CircuitBuilder.** `insts`, `regs`, `outputs` and `next_input_index` are the
fields of the builder. `reg` declares a register whose data input comes later,
`add_register` one with its input, `drive` wires one: a second `drive` panics in a
debug build (`DebugAssertions`) and overwrites in a release build. `finish` is
the topological sort with its two errors, and the renumbering.

**Optimizer.** The node list is threaded through the operators as the code
threads `&mut self`: each returns the list and the id of the representative.
The structural hash table is the list itself, searched for an equal node. One
operator states a lattice rule (`and`, `or` and their negations differ in
their neutral and dominating constants), one a parity rule. `ForwardRewrite` is the
loop over the instructions, `Compacted` the liveness pass and the emission given its result.

**Compile** is the six numbered steps of `Compiled::new`: levels, schedule,
arrays, runs and levels, wiring, successors. The validation is not an
assertion of the model but a property of its result, `CompilerContract`.

**EventEngine.** A tick is `ClockEdge`, then for each level `TakeBucket`, one
`DrainSlot` for each entry in any order, and `LevelDone`, and at last `Capture`. The
code drains a `Vec` in order; as no property depends on that order, the model
allows every one, and a bucket is a bag so that an entry queued twice is seen.
`LevelDone` empties the bucket of its level as the code does, so that anything
queued there meanwhile is really lost. `outs` is what the caller reads from
`output()`; it changes only at the end of a call.

**ThreadedEngine.** A narrow level is run on the calling thread, gate by gate
(`EvalSlot`, `NextRun`); on a wide level each worker claims a slot and computes its value in
one step (`Load`) and writes it in another (`Store`), and the level ends
(`Barrier`) when all are stored. rayon's splitting into chunks is abstracted to
the choice of any unclaimed slot by any worker, which contains every split.

**Sync.** Inputs, registers and outputs only. `Tick` picks the settled buffer for the
current inputs and registers (there is one, since gates are ordered), latches
and shows. The engines implement it under the refinement mapping that reads
`inputs` from the input slots (or bits) and `state` from the captured registers.

**Fuse.** `FullLinks` and `inc_link` recognize a link, `admit` asks that its
interior gates feed nothing else and notes which gates escape,
`Grown` is the greedy loop of `try_chain`, and `trim` chooses
the longest consistent prefix, which `commit` keeps. `found.used` is the flag
array that `find_chains` returns. `IsLink` and `IsChain` are the conditions of the
recognizers alone, without the greedy search, which is what the proofs need of a chain.

**Pack.** A word is the set of its one bits, and `WordBits`, 64 in the code, is a
constant, as are `FUNNEL_MIN`, `MIN_CHAIN` and `MAX_CHAIN`. `Blocks` lists the groups of signals
that get words of their own, in arena order; base positions
and `pos` follow from it. The code keeps all segments in one pool consumed in
task order; here each stream has its own set of segments, as their bits are
combined by `or`. A fused chain is an `Add` task on whole words
(`WrappingAdd`), the rest are gate tasks lane by lane. The native shifts of a
funnel are modelled on bit positions. `Structures` collects what is fused. A memory read is a task with an
address instead of streams (`ReadTask`, `ReadWord`), a memory write (`MemWrite`)
is applied to the captured registers by `Written`.

**Mem.** `Words` and `Arrays` are the write side: cells that hold or take a data
bit, grouped by select and then by data bus. A read tree is rebuilt from the leaves up, as rows
of nodes, where the code recurses from the top: both ask for a mux over every pair
of nodes and for one select per level. `Removable`, `ConsumersAbove` and `OneHot`
are the safety checks; `eval` is the code's partial evaluation of a cone, over the
whole tape at once. `MIN_WORDS`, 16 in the code, is a constant. Where the code walks a
hash map the model goes by base register; memories do not overlap, so that order
only moves words of the arena. `Latching` keeps the code's consumer map, in which the last
register wins. `try_shape` asks for room for one word more than a file stores (`base +
logical * width`), as the code does: a file at the very end of the register list is found
only as a smaller one, or not at all, which costs speed and nothing else.

**PackedEngine.** A tick is `ClockEdge`, one `RunTask` per task, and `Capture`;
`staging` holds the captured register words. Input i is bit i of the
arena. `Capture` is the gathering of the next register words and then the memory
writes, in one step as nothing runs in between. **PackedJit** adds what the generated code has on top: a value per word
loaded or stored, kept for a function of `Chunk` tasks. Gathers read the
cached value where there is one, a store updates it, the register copy at the
edge and the calls of the client work on memory. A memory read takes its address
from cached words and loads the word itself from the arena.

**Hybrid.** A candidate is a record of inputs, registers and outputs: a machine
as `Sync` describes it, since that each engine is one is what the other modules
are about. `WarmupTick`, `TimedTick` and `ReadClock` are the body of `time_per_tick`,
run for one candidate after another; the clock advances by any step of `Steps`
from one reading to the next. The last `ReadClock` resets the winner and returns it.

**Emulator, Asm, Word32.** A word is the set of its one bits, as TLC's integers end at
2^31 - 1; addition and order work on halves. An instruction is assembled from a
record of its mnemonic and operands. `Execute` has one case per opcode.

**Rtl, Cpu.** The core is modelled at the level of its words of wires: each operator is one
block of `build_cpu`, each library network is what its gates compute, built the way
the network is (a mux tree halves its items, an adder ripples, a shifter has
stages). `tick` settles all signals from the PC, the registers and the RAM and
latches. That a circuit's gates are evaluated right is the business of the other modules.

## 3. The runs

**`pipeline`** (940 thousand distinct states). Every sequence of builder calls
with up to 2 sources, 2 gates and 1 output, over the operations Not, Buf, And,
Nor and Mux and the constant TRUE, in a release build; each finished circuit
is optimized and compiled. Two gates after two sources are enough for
each rewrite rule to fire on the result of another (a constant from a
complement, a double inversion, a mux turned into a lattice gate), for a
register to feed itself through two gates, for an undriven or doubly driven
register and for two levels of gates. `And` and `Nor` stand for the
lattice operations, plain and inverted. The parity operations are
left to the engine tapes. `InterfaceKept`, `OptimizerPreserves`,
`OptimizerNormalForm` and `OptimizerIdempotent` are about the optimizer;
`CompilerContract` and `ScheduleGrouped` are what the engines rely on;
`CompiledAgrees` closes the chain from the client's circuit to the tape, for
every register state and input.

The run may stop (the pipeline ends when a circuit is compiled, or with an
error), so deadlock is not checked there.

**`event`** (19 thousand states). Five hand-written circuits (a counter with enable,
reconverging paths of three lengths, a shift register with no gate, a
free-running divider four levels deep, a bit-serial adder with a level of four
gates) and every circuit of one input, one
register and two gates of a family, each driven by any calls in any
order. The properties hold at every step inside a tick, not just between
calls. `ImplementsSync` is the refinement of `Sync`, `TickCompletes` that a
tick ends. `IInv` is the inductive invariant of the proof, checked here first.

**`threaded`** (19 thousand states). The hand-written circuits with thresholds 0 (clamped to 1:
every level in parallel), 2 (mixed) and 9 (none: the scalar engine) and two
workers, the least for which one reads while another writes.
`DataRaceFree` is the argument of the `SAFETY` comment and of the borrow split,
`LoadedStaysFresh` its consequence, `LevelsBehindSettled` the meaning of the
barrier. `IInv` is again the invariant of the proof.

**`packed`** (85 thousand states). Words of four bits, funnels from two bits, chains of
two or three links and memories from four words, so that a small circuit has several words, gathers that straddle two of
them, chains whose carry-out is the top bit of its word, and a memory whose words cross arena words. The hand-written
circuits are accumulators whose propagate or generate gate is also an output,
an incrementing chain, a chain that mixes both kinds of link, one adder feeding another, a chain cut
because an operand settles late, one emitted after the last level, and more
registers than a word. The memories are banks of one and two bits per word, written
with what they read, flipped, at an address of an input and a gate; the same with two
decoders swapped, and with an inner node of the read tree observed, which must stay gates;
and register files of one and two bits per word with two read ports. To these come all circuits of three And or Xor gates over two inputs and a register
whose first gate joins an input and the register,
and every variation of a two-bit adder with one wire moved or one
interior signal observed: the tapes on which a removal could be wrong. `ReadsOnlySignals` says that
what is fused away is read by nothing that stays and that no pad bit is read,
`GathersInBounds` that the unchecked indexing is in bounds, `WrittenBeforeRead` that the task
order is topological, `PatchesOwnCells` that at every address a memory write reaches the cells
of that word and nothing else, `SettledAtCapture` that after the last task every placed
signal holds what the tape, evaluated gate by gate, holds: chains, carries, memory
reads and all. `PlanSound` says that every plan is built as `PlanBuilt` describes, which is the
assumption of the proofs; its clauses about memories are the only ones that evaluate gates. For `ImplementsSync` the settled buffer of `Sync!Tick` is that reference
evaluation, which is the one witness the abstract action has. It is the property that sees a
wrong memory write: the states after a tick are compared with the gates' own.

**`packed_jit`** (33 thousand states). The hand-written circuits and the memories with functions of two
tasks, so that a tick crosses functions and the capture has a cache of
its own to read. `CacheCoherent` is the claim "can never observe a stale state"
of pack_jit.rs.

**`hybrid`** (44 thousand states). Four candidates on the hand-written circuits, groups of two ticks, at
most four timed ticks, and a clock that stands, or moves by half the budget or all of it: every order of
finish, ties included, and measurements that end by time and by count.
`FastestWins` compares the kept candidate with all that were raced, `ImplementsSync` says that
the engine the constructor returns is the synchronous machine from power-on,
`RaceEnds` that the constructor returns although the clock may never move.

**`cpu`** (13 thousand states). 1,368 programs: two registers are loaded with pairs of corner values
(0, 1, -1, the least, the largest, and one with four different bytes), then comes an
instruction of each kind and each funct3, with immediates of both signs, forward and
backward branches, jumps to odd and to wrapping targets, loads and stores of each
width at each byte offset over a RAM of two words that wraps, x0 as a destination, and encodings that
no mnemonic produces. Shifts by an immediate get amounts of 0 to 31, with `srai` marked by
bit 10 as in asm.rs, and raw words with all immediate bits set. Nine retired instructions let every program reach its end and the
HALT padding. `MirrorsEmulator` is the lockstep claim of cpu.rs, with the registers, the
RAM and the PC compared after every instruction, and no tick is excused for changing nothing;
`DecodesSource` says that the fields and immediates the emulator extracts are those the assembler
was given, and that bit 30 is set for `srai` and not for `srli` and `slli`.
Programs stop at the bound, so deadlock is not checked.

**`chain_boundary`** and **`jit_loads`** find a violation, of what a comment says.
fuse.rs and pack.rs say that a chain runs right before the windows of
level `ready`; the planner compares `ready` with the 0-based index of a level
whose gates have level index + 1, and so emits the chain one level later, which
is sound because whoever reads the chain lies above `ready`. pack_jit.rs says
that no gather reads a task's word before that task ran; a funnel that is not
aligned loads the next word too, needed or not, and that word may come later. The
stale value is masked off, and replaced in the cache when the task stores.

**`inner_data`**, **`shared_write`** and **`wide_file`** find violations of what the code
relies on, on circuits a client can build. In the first a bank is written with an inner node of its own read tree. The
removal check counts the write muxes as removed readers, although their data
operand is still gathered; the node has no place any more, and the
planner's own assertion fails ("gather source out of the arena"). In the second
a register declared before a bank latches the same mux as one of its cells, and the
consumer map has forgotten it: the mux is removed and the register captures
a signal without a place. In the third the words of a register file are one bit wider than
an arena word; a fused read fills one word only, and the bits above are never
computed. With words of exactly an arena word the same circuit passes.

**Fairness.** All engines assume `WF_vars(TickStep)` and nothing else: `tick()`
is a plain call, so once begun it goes on, and rayon's `for_each` returns
only when every item has been processed. Nothing makes a client call
`tick`, `set_input` or `reset`, so those actions have no fairness. The hybrid engine assumes
`WF_vars(RaceStep)` in the same way: its constructor is a loop of plain calls.

## 4. What is proved

The proofs form one chain, from the calls of the client to the bits an engine shows. The
pipeline's theorems say that the tape of every circuit computes what the interpreter
computes on the circuit that was built; the engines' theorems say that an engine is the
synchronous machine of its tape. The two meet in `TapeContract` and, for
the level-parallel engine and the planner, `ScheduleContract` (levels and runs partition the
gates, runs within levels): the engines assume them of every tape (`TapesAssumption`), and the pipeline's
theorems prove them of every tape the compiler makes, so for compiled tapes the
assumption is discharged.

**The pipeline.** `Pipeline_proofs`, over the lemmas of `Optimizer_proofs`, proves for every
bound on the calls, every set of operations, and with or without debug assertions:

* `Invariant`: `Spec => []Inv`, and from it `TypeCorrect`;
* `InterfaceHolds`: the optimizer keeps inputs, registers and outputs;
* `OptimizerCorrect`, `OptimizerNormalizes`, `OptimizerStable`: the optimized circuit
  computes what the circuit computes, is in normal form, and is optimized to itself;
* `CompilerValid`, `ScheduleValid`: the tape keeps `TapeContract` and `ScheduleContract`;
* `CompilerCorrect`: a buffer settled on the tape shows and latches what the interpreter
  computes on the circuit that the client built. By `Tape_proofs` there is exactly one
  such buffer.

`Inv` is the conjunction of `BuilderInv` (gates read signals that exist already, and each input and
each register is the source of at most one signal, which a renumbering must not break) and `ResultInv` (a
finished circuit is sorted and has its registers wired, `optimized` is `optimize` of it and `tape` is
`Compiled` of that). What then has to be shown is what the two passes compute on any sorted circuit:

* *Forward rewrite.* A valuation is `Consistent` if each signal has the value of its
  instruction; on a sorted circuit there is one (`ConsistentUnique`, by induction over the
  signals), and the interpreter computes it. Each of the optimizer's constructors returns a node
  with the value its operation has on the operands, and an extension of the node list
  (`LatticeComputes`, `ParityComputes`, `MuxComputes`, `NotComputes`, one case per rule), so by
  induction over the instructions each representative has the value of what it stands for.
* *Liveness and emission.* The live nodes are those reached from a root, and the sources; they are closed under
  operands, and numbering them in order keeps the values (`Renumbered`).
* *Normal form and stability.* Every node the list ends with was refused by all rules, and no
  two are equal. Rewriting such a list makes each node as it is, in the same place
  (`ForwardNormal`), all are live, and renumbering is the identity.
* *Schedule.* Levels lie strictly above those of the operands, and slots follow the linear order of level, key
  and number (`ScheduledOrder`), so operands precede their gates. The rows of the
  successor map, concatenated, keep their place (`FlattenParts`, `SuccessorsLaid`).
* *Levels and runs.* The segments of a sequence of keys are its maximal constant ranges (`SegmentsCut`).
  A gate above level 1 has an operand one level lower, so no level is empty and the k-th
  segment is level k (`LevelNumbers`); the cuts of runs refine those of
  levels (`CutsFiner`), so runs nest in levels.
* *Values.* A settled buffer, read through the slots of the signals, is a consistent valuation
  of the optimized circuit (`SettledTape`), and there is only one.

**The engines on a tape.** `EventEngine_proofs` proves, for every set of such tapes, of any size:

* `InvariantHolds`: `Spec => []IInv`, and from it `TypeCorrect`,
  `WorklistsExact`, `ConeRecomputed`, `SweepComplete` and `AtMostOncePerTick`;
* `Refinement`: `Spec => ImplementsSync`, the engine is the synchronous machine.

The properties are not inductive one by one. A gate may leave the worklists
only because its value is right (`CleanGatesSettled`), which holds after its
evaluation because its operands are no longer queued or will queue it again
when they change (`SuccessorsExact` in the contract); `LevelDone` loses
nothing only because nothing is queued at its level (`SweepAscends`), which
needs that successors lie strictly above (`OperandsBelow`); that flags and worklists agree
(`QueueExact`) carries the one over to the other; and that a gate is not
evaluated twice needs that evaluated gates lie at levels already swept. `IInv` is the
conjunction of these with the held constants, the applied edge and the typed
state. When the sweep is done nothing is queued, so the whole buffer is
settled, and `Capture` maps to `Sync!Tick` with the buffer itself as witness.
`ClockEdge` and the steps of the sweep map to stuttering.

`ThreadedEngine_proofs` proves, for every set of such tapes, every set of
thresholds and any number of workers:

* `InvariantHolds`: `Spec => []IInv`, and from it `TypeCorrect`, `NoDataRace`,
  `NoStaleStore`, `LevelsSettle` and `SameReading`;
* `Refinement`: `Spec => ImplementsSync`. With a threshold that no level
  reaches this is a theorem about the scalar engine.

That all levels behind are settled is not inductive either: inside a level it
has to say how far the level has come. On a narrow level
every gate before `slot` is settled (`NarrowProgress`), on a wide one every
slot that is neither unclaimed nor in the hands of a worker (`WideProgress`). A
`Store` keeps the settled part because it writes a gate of the current level,
and no gate at or below that level reads it (`LevelReadsBelow`); it makes its
own slot settled because the loaded value is still what the operands give
(`LoadedStaysFresh`), since no worker writes an operand in between. At the
barrier `WideProgress` covers the whole level, which is the next level's start.

`Hybrid_proofs` proves `KeepsTheFastest`, `Spec => []FastestWins`, from `RaceAssumption` (sizes are
naturals, a group is not empty, the clock does not go back), for any number of candidates.
The invariant `RaceInv` adds that a time is recorded for each candidate that has left the race, and
that somebody is the best as soon as there is one; a candidate judged is compared with all earlier
ones through the best of them only. `Refinement`, `Spec => ImplementsSync`, and `ImplementsEngine`
say that the engine handed out is the synchronous machine at power-on, whichever candidate won. They
rest on `Tape_proofs`: the scalar run loop settles a buffer (`SettleSettles`), and a settled
buffer is determined by its sources (`SettledUnique`), both by induction over the slots.

**The packed engines.** `Packed_proofs` proves, for every word size, every threshold of the planner and every set of
tapes and plans under the two assumptions below:

* `PackedInvariant`: `Spec => []PackedInv`, and from it `TypeCorrect`, `GathersStayInBounds`,
  `SignalsOnlyRead`, `CellsOnlyPatched` and `Settles` (`SettledAtCapture`);
* `Refinement`: `Spec => ImplementsSync`, and `ImplementsEngine`;
* `CacheNeverStale`: `JitSpec => []CacheCoherent`, for any number of tasks per function;
  `JitIsPacked`: every step of the JIT engine is a step of the packed one, and so `JitRefinement`.

`SettledAtCapture` speaks of the end of a tick only. `PackedInv` follows the tick task by task: the
words of the tasks that have run hold the settled values of their signals (`Progress`), the
register words are the staged ones (`Latched`), and between ticks the outputs are what the arena
gives (`Shown`). A task that has run stays right because each word belongs to one task, and the next
one reads words of earlier tasks or sources only (`WritesPrecedeReads`), so it reads what it would read
from a fully settled arena. What it then writes is right by `BuiltContract` of
`Pack_proofs`, which goes through the kinds of task:

* a *gate task* yields in each lane its gate's value: `GatherExact` (the gather program of a window
  yields exactly the bits of its slots, be they constant, in a run that straddles words, or scattered),
  then the operation lane by lane;
* a *chain task* yields all sums and the carry-out: every link keeps the equations of a full adder or
  an incrementer (`LinksAdd`), so the values of the carry gates are the carries of a ripple addition,
  and the native wrapping add ripples (`AddRipples`, by induction over the bits of the word). Tasks for gates
  that escape a chain are those gates lane by lane;
* a *memory read* yields the addressed word, which is what the tree of muxes yields, and the *capture* stages for
  each register its data input, except that cells of a bank hold their old value until
  the memory write patches them.

Assumptions: `TapesAssumption` as above, the bounds on the planner's constants
(`WordAssumption`), and `PlansBuilt`, a hypothesis of each theorem about an engine in `Packed_proofs`: the plan of each tape is
built as `PlanBuilt` says, i.e. signals have positions of their own, tasks are
gate tasks, chain tasks and memory reads in an order in which writers precede readers, and the capture and the
memory writes are the planner's for the registers and banks it found. `PlanBuilt` is structure, not values, with one
exception: that a memory's read and write agree with the gates they
replace is part of it as a comparison of values, since the recognizers of `Mem` are folds over partial evaluations.
The `packed` run checks `PlanBuilt` of every tape as `PlanSound`. The three findings
about memories in section 3 are circuits on which it does not hold; the code does not rule them out,
so the theorems say nothing about them.

**The planner.** On a tape that keeps both contracts and in which no memory is found (`NoMemories`), `PlansBuilt` is
no assumption: `PlanIsBuilt` proves `PlanBuilt(t, Plan(t))` for every such tape, with chains of adders and without,
every word size and every threshold. If all tapes are such (`PlainTapes`; of the 502 tapes of the `packed` run
498 are, 100 of them with a chain), `PlannerSound` is `Spec => []PlanSound`, `PlannerOrders` is
`Spec => []WrittenBeforeRead`, and `PlainEngines` says that both engines are the synchronous machine. The argument:

* *Chains.* What `find_chains` returns is `FoundWell` (`ChainsFound`, by induction over the loops of `Grown` and of
  the heads): each chain is strung from admitted links, carry to carry-in, no two chains share a gate, and none is
  longer than a word. A fused gate that is not materialized is read by its own chain only (`HiddenGates`), so
  what anybody else reads is `Visible`. `ready` lies above the levels of all inputs of a chain and not above
  those of the gates it leaves to be read (`ChainReady`).
* *Layout.* No signal is at two places of the blocks (`EntriesApart`), each block starts a word (`BasesLaid`), so positions
  are apart, a word belongs to one block, and everything visible has a place (`PlanLaid`, `VisiblePlaced`).
* *Order.* `Due` gives each signal its moment in a tick: 0 for sources, `2 * level` for a gate of a run,
  `2 * ready + 1` for the gates of a chain. Each task is a `Job`: all signals of its word are due at one moment, and all it
  reads is due strictly before (`RunJob`, `ChainJob`). The list of tasks is sorted by these moments and names no
  word twice (`TasksInOrder`), so whoever reads a word comes after the task that writes it (`WritesFirst`), and
  every word of gates is written (`GatesWritten`).
* *Capture.* Word k of the capture gathers the next states of its registers (`PlanCaptures`), and each of
  these is observed and so visible.

**Only model-checked.** The liveness properties, as they rest on fairness.
`PlanSound` and `WrittenBeforeRead` on tapes with memories: the recognizers of `Mem` are folds over partial evaluations of
mux trees, and three findings show that `PlanSound` does not hold for all of these tapes.
`ChainsBeforeLevel`, the claim of a comment, is refuted by the `chain_boundary` run.
And the core and the emulator, which are checked on programs (`MirrorsEmulator`,
`DecodesSource`), and the findings of section 3, which are counterexamples.

## 5. Not modelled, and the plan

Order of work, most important first.

1. *Done*: `Pipeline`, `EventEngine`, `ThreadedEngine` with their
   abstract machine and the refinement proofs.
2. *Done*: the packed plan and the packed engine, with chain fusion.
3. *Done*: the word cache of the packed JIT engine.
4. *Done*: memory and register-file fusion, with the reads and writes of a fused
   memory in the plan and in both packed engines.
5. *Done*: the hybrid engine over candidates that are synchronous machines.
6. *Done*: the RISC-V core, its library, the assembler and the emulator in lockstep.
7. *Done*: the race keeps the fastest candidate, proved for any number of them and any clock.
8. *Done*: the packed engine and its JIT implement the synchronous machine, from how a plan is built;
   gathers, memory writes and the native add for every layout and word size; the engine that the
   hybrid's race hands out.
9. *Done*: builder, optimizer and compiler, proved for every circuit.
10. *Done*: the planner on tapes without memories: chains, layout, order of tasks, capture.
11. *Open*: the same with memories, for the banks and register files that a stricter recognizer would accept.

Not modelled: the emission of native instructions in `pack_jit.rs` (cranelift; what the
emitted code computes is modelled); `plan_report` and the `RYZR_PACK_STATS` output,
which print and change nothing; the sample programs of `programs.rs`, fixed instruction
lists; the examples, benchmarks and tests, which drive the crates above.
The core is not built gate by gate and run through the engines: with 32-bit words and 31
registers it is far beyond a model checker.
