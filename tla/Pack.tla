-------------------------------- MODULE Pack --------------------------------
(***************************************************************************)
(* The word-level plan of the packed engines: where each signal lives in   *)
(* the bit arena, the tasks of a tick in order, and for each operand word  *)
(* the program that gathers its bits.                                      *)
(*                                                                         *)
(* An arena is a function from word indices, from 0, to words; a word is   *)
(* the set of its one bits, each in 0 .. WordBits - 1. Bit positions in    *)
(* the arena count from 0 too. The segment pools of the code, consumed in  *)
(* task order, are kept here with the stream they belong to.               *)
(***************************************************************************)
EXTENDS Fuse, Mem

CONSTANTS
  WordBits, \* 64
  FunnelMin \* FUNNEL_MIN: contiguous bits worth a funnel shift

ASSUME WordAssumption ==
  /\ WordBits \in Nat \ {0} /\ FunnelMin \in Nat \ {0}
  /\ MinChain \in Nat \ {0} /\ MaxChain \in 1 .. WordBits - 1

NoPos == -1  \* u32::MAX in pos

WordOf(p) == p \div WordBits
Offset(p) == p % WordBits
Lanes == 0 .. WordBits - 1
WordsFor(bits) == (bits + WordBits - 1) \div WordBits
AlignUp(bits) == WordBits * WordsFor(bits)

BitAt(arena, p) == Offset(p) \in arena[WordOf(p)]

chunks(slots) ==
  [k \in 1 .. WordsFor(Len(slots)) |->
     SubSeq(slots, WordBits * (k - 1) + 1, Min({WordBits * k, Len(slots)}))]

IsConstSlot(t, s) == \E k \in DOMAIN t.const_slots : t.const_slots[k][1] = s
IsTrueSlot(t, s) == \E k \in DOMAIN t.const_slots : t.const_slots[k] = <<s, TRUE>>

-----------------------------------------------------------------------------
(* Gather programs.                                                        *)

NoStream == [imm |-> {}, funnels |-> {}, splats |-> {}]

\* The bits of a window to be gathered: neither absent nor constant.
Open(t, window) == {i \in DOMAIN window : window[i] # NoSlot /\ ~IsConstSlot(t, window[i])}

\* Mutant: contiguity is not compared across bits of the window.
FollowsAlways(t, pos, window, i) == {i - 1, i} \subseteq Open(t, window)

\* Bit i of a window lies right after bit i - 1 in the arena too.
Follows(t, pos, window, i) ==
  /\ {i - 1, i} \subseteq Open(t, window)
  /\ pos[window[i]] = pos[window[i - 1]] + 1

\* Lower one operand stream: constants fold into an immediate word, long
\* contiguous runs become funnels, the rest one splat per source bit.
plan_stream(t, pos, window) ==
  LET open == Open(t, window)
      source(i) == pos[window[i]]
      runAt(i) == {j \in i .. Len(window) : \A k \in i + 1 .. j : Follows(t, pos, window, k)}
      funnels == {i \in open : ~Follows(t, pos, window, i) /\ Cardinality(runAt(i)) >= FunnelMin}
      rest == open \ UNION {runAt(i) : i \in funnels}
  IN  [imm |-> {i - 1 : i \in {j \in DOMAIN window : IsTrueSlot(t, window[j])}},
       funnels |-> {[src |-> source(i), shift |-> i - 1, mask |-> {j - 1 : j \in runAt(i)}]
                      : i \in funnels},
       splats |-> {[src |-> source(i), mask |-> {j - 1 : j \in {k \in rest : source(k) = source(i)}}]
                      : i \in rest}]

\* Source bit src + k lands at bit shift + k, where the mask lets it.
Funnel(arena, seg) ==
  LET lo == arena[WordOf(seg.src)]
      hi == arena[WordOf(seg.src) + 1]
      o == Offset(seg.src)
      word == {k \in Lanes : k + o \in lo \/ k + o - WordBits \in hi}
  IN  {k \in seg.mask : k - seg.shift \in word}

Splat(arena, seg) == IF BitAt(arena, seg.src) THEN seg.mask ELSE {}

gather(arena, stream) ==
  stream.imm \cup (UNION {Funnel(arena, seg) : seg \in stream.funnels})
             \cup (UNION {Splat(arena, seg) : seg \in stream.splats})

-----------------------------------------------------------------------------
(* What is fused: chains, and the read trees and write muxes of memories.  *)

ReadPlan(found, zero_word0) ==
  [read_tops |-> found.read_tops, addr_bits |-> found.addr_bits, base_reg |-> found.base_reg,
   width |-> found.width, read_ready |-> found.read_ready, zero_word0 |-> zero_word0]

Structures(found, banks, regfiles) ==
  [chains |-> found.chains, banks |-> banks,
   reads  |-> [k \in DOMAIN banks |-> ReadPlan(banks[k], FALSE)]
                \o [k \in DOMAIN regfiles |-> ReadPlan(regfiles[k], TRUE)],
   used   |-> found.used \cup UNION {memory.fused : memory \in ToSet(banks \o regfiles)}]

-----------------------------------------------------------------------------
(* Arena layout: inputs, registers, gate runs without their fused gates,   *)
(* chain words, words that are read; each region starts a word.            *)

Live(t) == Ascending({r \in Registers(t) : t.reg_out_slots[r] # NoSlot})
LiveOut(t) == [k \in DOMAIN Live(t) |-> t.reg_out_slots[Live(t)[k]]]

RunSlots(used, run) == Ascending((run.start .. run.end - 1) \ used)

\* The words of a chain: its sums with the carry-out above them, and the
\* P xor Q and P and Q words if some gate of theirs escapes.
SumBlock(chain) ==
  Append([i \in DOMAIN chain.links |-> chain.links[i].sum], Last(chain.links).carry)
PxqBlock(chain) == IF chain.ext_pxq THEN [i \in DOMAIN chain.links |-> chain.links[i].pxq] ELSE <<>>
GBlock(chain) == IF chain.ext_g THEN [i \in DOMAIN chain.links |-> chain.links[i].g] ELSE <<>>

Blocks(t, fused) ==
  <<t.input_slots, LiveOut(t)>>
    \o [k \in DOMAIN t.runs |-> RunSlots(fused.used, t.runs[k])]
    \o FlattenSeq([k \in DOMAIN fused.chains |->
         <<SumBlock(fused.chains[k]), PxqBlock(fused.chains[k]), GBlock(fused.chains[k])>>])
    \o [k \in DOMAIN fused.reads |-> fused.reads[k].read_tops]

\* The first position of every block, and the end of the last.
Bases(blocks) ==
  LET base[k \in 1 .. Len(blocks) + 1] ==
        IF k = 1 THEN 0 ELSE base[k - 1] + AlignUp(Len(blocks[k - 1]))
  IN  base

Positions(t, blocks) ==
  LET bases == Bases(blocks)
      at == UNION {{<<k, i>> : i \in DOMAIN blocks[k]} : k \in DOMAIN blocks}
  IN  [s \in Slots(t) |->
         IF \E x \in at : blocks[x[1]][x[2]] = s
         THEN LET x == CHOOSE x \in at : blocks[x[1]][x[2]] = s IN bases[x[1]] + x[2] - 1
         ELSE NoPos]

-----------------------------------------------------------------------------
(* Tasks.                                                                  *)

NoRead == [addr_pos |-> <<>>, base_bit |-> 0, width |-> 0, zero_word0 |-> FALSE]

Task(op, dst, a, b, c) == [op |-> op, dst |-> dst, streams |-> <<a, b, c>>, read |-> NoRead]

\* The task of a word of gates of one operation.
GateTask(t, pos, slots, op) ==
  LET stream(sel) == plan_stream(t, pos, [i \in DOMAIN slots |-> sel[slots[i]]])
  IN  Task(op, WordOf(pos[slots[1]]), stream(t.a),
           IF arity(op) > 1 THEN stream(t.b) ELSE NoStream,
           IF arity(op) > 2 THEN stream(t.c) ELSE NoStream)

\* One task per word of a run.
RunTasks(t, pos, slots, op) ==
  [k \in DOMAIN chunks(slots) |-> GateTask(t, pos, chunks(slots)[k], op)]

\* A task of a chain: the sum of its operands and the carry-in, or a gate of each link.
ChainTask(t, pos, chain, op, dst) ==
  Task(op, dst, plan_stream(t, pos, [i \in DOMAIN chain.links |-> chain.links[i].p]),
       plan_stream(t, pos, [i \in DOMAIN chain.links |-> chain.links[i].q]),
       IF op = "Add" THEN plan_stream(t, pos, <<chain.cin>>) ELSE NoStream)

\* A chain's tasks; `words` are the destinations of its three blocks.
ChainTasks(t, pos, chain, words) ==
  (IF chain.ext_pxq THEN <<ChainTask(t, pos, chain, "Xor", words[2])>> ELSE <<>>)
    \o (IF chain.ext_g THEN <<ChainTask(t, pos, chain, "And", words[3])>> ELSE <<>>)
    \o <<ChainTask(t, pos, chain, "Add", words[1])>>

\* A memory read, as a task of its own.
ReadTask(t, pos, read, dst) ==
  [Task("MemRead", dst, NoStream, NoStream, NoStream) EXCEPT !.read =
     [addr_pos |-> [j \in DOMAIN read.addr_bits |-> pos[read.addr_bits[j]]],
      base_bit |-> pos[t.reg_out_slots[read.base_reg]],
      width |-> read.width, zero_word0 |-> read.zero_word0]]

\* A memory write, applied to the captured registers.
MemWrite(t, pos, bank, reg_word) ==
  [addr_pos |-> [j \in DOMAIN bank.addr_bits |-> pos[bank.addr_bits[j]]],
   base_bit |-> pos[t.reg_out_slots[bank.base_reg]] - WordBits * reg_word,
   width |-> bank.width, enable_pos |-> pos[bank.enable], data |-> plan_stream(t, pos, bank.data)]

Cells(bank) == bank.base_reg .. bank.base_reg + bank.words * bank.width - 1

\* What a register captures: the cells of a bank hold themselves.
CaptureSlot(t, banks, r) ==
  IF \E k \in DOMAIN banks : r \in Cells(banks[k]) THEN t.reg_out_slots[r] ELSE t.reg_in_slots[r]

\* levels[level], from 0, is the first by which `ready` is due; what is due
\* by no level comes after the last.
EmittedAt(ready_level, last) == Min({ready_level, last})

\* The indices of `readies` emitted at a level, the readier first.
EmissionOrder(readies, level, last) ==
  LET due == {k \in DOMAIN readies : EmittedAt(readies[k], last) = level}
      upTo(k) == {j \in due : readies[j] < readies[k] \/ (readies[j] = readies[k] /\ j <= k)}
  IN  Ordered(due, [k \in due |-> Cardinality(upTo(k))])

\* Mutant: the pad word is forgotten.
WordsWithoutPad(bases) == WordOf(bases[Len(bases)])

\* The size of the arena: a pad word lets every funnel load two words.
ArenaWords(bases) == WordOf(bases[Len(bases)]) + 1

\* Mutant: no scratch word above the registers.
StagingWithoutPad(captured, banks) == captured

\* A pad word lets a write store two words.
StagingWords(captured, banks) == captured + IF banks = <<>> THEN 0 ELSE 1

\* The plan of a tape with these structures fused and this layout.
PlanAt(t, fused, blocks, bases, pos) ==
  LET chains == fused.chains
      reads  == fused.reads
      last   == Len(t.levels)
      base(k) == WordOf(bases[k])
      first(c) == 2 + Len(t.runs) + 3 * (c - 1)
      chain(c) == ChainTasks(t, pos, chains[c], [i \in 1 .. 3 |-> base(first(c) + i)])
      read(m) == ReadTask(t, pos, reads[m], base(first(Len(chains) + 1) + m))
      runs(level) == FlattenSeq(
        [i \in 1 .. t.levels[level].run_end - t.levels[level].run_start |->
           LET run == t.runs[t.levels[level].run_start + i - 1]
           IN  RunTasks(t, pos, RunSlots(fused.used, run), run.op)])
      emitted(level) ==
        LET c == EmissionOrder([k \in DOMAIN chains |-> chains[k].ready], level, last)
            m == EmissionOrder([k \in DOMAIN reads |-> reads[k].read_ready], level, last)
        IN  FlattenSeq([i \in DOMAIN c |-> chain(c[i])]) \o [i \in DOMAIN m |-> read(m[i])]
      live == Live(t)
      captured == chunks([k \in DOMAIN live |-> CaptureSlot(t, fused.banks, live[k])])
  IN  [chains   |-> chains,
       reads    |-> reads,
       banks    |-> fused.banks,
       pos      |-> pos,
       words    |-> ArenaWords(bases),
       tasks    |-> FlattenSeq([k \in 1 .. last + 1 |->
                      emitted(k - 1) \o IF k <= last THEN runs(k) ELSE <<>>]),
       capture  |-> [k \in DOMAIN captured |-> plan_stream(t, pos, captured[k])],
       writes   |-> [k \in DOMAIN fused.banks |-> MemWrite(t, pos, fused.banks[k], base(2))],
       reg_word |-> base(2),
       staging_words |-> StagingWords(Len(captured), fused.banks),
       reg_init |-> [k \in DOMAIN captured |->
                      {l \in Lanes : /\ WordBits * (k - 1) + l + 1 \in DOMAIN live
                                     /\ t.reg_initial[live[WordBits * (k - 1) + l + 1]]}]]

PlanOn(t, fused, blocks) == PlanAt(t, fused, blocks, Bases(blocks), Positions(t, blocks))
PlanWith(t, fused) == PlanOn(t, fused, Blocks(t, fused))
Plan(t) == PlanWith(t, Structures(find_chains(t), find_banks(t), find_regfiles(t)))

-----------------------------------------------------------------------------
(* Evaluation of a task.                                                   *)

\* The number that bits stand for, the lowest first.
Number(bits) ==
  LET value[n \in 0 .. Len(bits)] ==
        IF n = 0 THEN 0 ELSE value[n - 1] + IF bits[n] THEN 2 ^ (n - 1) ELSE 0
  IN  value[Len(bits)]

WordValue(word) == Number([k \in 1 .. WordBits |-> k - 1 \in word])
WordFor(n) == {k \in Lanes : (n \div 2 ^ k) % 2 = 1}

\* The native add, wrapping.
WrappingAdd(a, b, c) == WordFor(WordValue(a) + WordValue(b) + WordValue(c))

\* ones(width)
Field(width) == 0 .. Min({width, WordBits}) - 1

AddressAt(arena, addr_pos) ==
  Number([j \in DOMAIN addr_pos |-> BitAt(arena, addr_pos[j])])

\* Mutant: the words of a register file are taken to start at word 0.
LoadedFromUnbiased(read, addr) ==
  [src |-> read.base_bit + addr * read.width, shift |-> 0, mask |-> Field(read.width)]

\* Where the word at an address is. In a register file word 1 comes first.
LoadedFrom(read, addr) ==
  [src |-> read.base_bit + (IF read.zero_word0 /\ addr # 0 THEN addr - 1 ELSE addr) * read.width,
   shift |-> 0, mask |-> Field(read.width)]

\* The addressed word of the arena, the address bits taken from `view`.
ReadWord(view, arena, read) ==
  LET addr == AddressAt(view, read.addr_pos)
  IN  IF read.zero_word0 /\ addr = 0 THEN {} ELSE Funnel(arena, LoadedFrom(read, addr))

\* The word a task computes from the words it views; a memory read loads the arena.
TaskWord(view, arena, task) ==
  LET a == gather(view, task.streams[1])
      b == gather(view, task.streams[2])
      c == gather(view, task.streams[3])
  IN  IF task.op = "MemRead" THEN ReadWord(view, arena, task.read)
      ELSE IF task.op = "Add" THEN WrappingAdd(a, b, c)
      ELSE {k \in Lanes : Apply(task.op, k \in a, k \in b, k \in c)}

\* Bits off to off + width - 1 of the staging words, which count from 1, replaced.
patch(stage, off, width, value) ==
  [w \in DOMAIN stage |->
     LET bit(l) == WordBits * (w - 1) + l - off
     IN  {l \in Lanes : IF bit(l) \in Field(width) THEN bit(l) \in value ELSE l \in stage[w]}]

StoredAt(arena, write) == write.base_bit + AddressAt(arena, write.addr_pos) * write.width

\* The captured registers with the memory writes applied, one after another.
Written(arena, writes, stage) ==
  LET after[k \in 0 .. Len(writes)] ==
        IF k = 0 THEN stage
        ELSE LET st == after[k - 1]
                 write == writes[k]
             IN  IF BitAt(arena, write.enable_pos)
                 THEN patch(st, StoredAt(arena, write), write.width, gather(arena, write.data))
                 ELSE st
  IN  after[Len(writes)]
=============================================================================
