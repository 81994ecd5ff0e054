---------------------------- MODULE Packed_proofs ----------------------------
(***************************************************************************)
(* Theorems about the packed engine and its JIT, for every tape that keeps *)
(* the compiler's contract and every plan that keeps its own: at the end   *)
(* of a tick each signal that has a place has the value that evaluating    *)
(* the tape gate by gate gives it, and the calls are those of the          *)
(* synchronous machine.                                                    *)
(*                                                                         *)
(* A tick is followed through its tasks: after each of them the words      *)
(* written so far hold what the settled tape holds, so the next one reads  *)
(* what it would read from a settled arena.                                *)
(*                                                                         *)
(* From "Links of a tape" on, the planner: the plan of a tape in which no  *)
(* memory is found keeps that contract. Chains are disjoint and hide what  *)
(* they fuse, blocks put each visible signal at one place, and the tasks   *)
(* are listed in the order of the moments their words are due: 2 * level   *)
(* for a run, 2 * ready + 1 for a chain, before which all it reads is due. *)
(***************************************************************************)
EXTENDS PackedJit, Pack_proofs

\* Every plan an engine is given is built as PackedEngine says. The runs check
\* it of each tape, as PlanSound.
PlansBuilt == \A t \in Tapes : PlanBuilt(t, Plan(t))

-----------------------------------------------------------------------------
(* What a task, the capture and the writes read.                           *)

\* A gather looks at the positions its stream reads and nowhere else.
LEMMA GatherLocal ==
  ASSUME NEW p, p.words \in Nat, NEW x \in Arenas(p), NEW y \in Arenas(p),
         NEW stream, StreamTyped(stream),
         \A seg \in stream.funnels \cup stream.splats : InBounds(p, seg.src),
         Agree(x, y, Reads(stream))
  PROVE  gather(x, stream) = gather(y, stream) /\ gather(x, stream) \subseteq Lanes
<1>1. ASSUME NEW seg \in stream.funnels PROVE Funnel(x, seg) = Funnel(y, seg) /\ Funnel(x, seg) \subseteq Lanes
  <2>1. seg.src \in Nat /\ seg.mask \subseteq Lanes /\ seg.shift \in Nat
    BY DEF StreamTyped
  <2>2. LoadableFromBoth(x, y, seg)
    BY <2>1, ArenaLoadable DEF LoadableFromBoth
  <2>3. Agree(x, y, {seg.src + k - seg.shift : k \in seg.mask})
    BY DEF Agree, Reads
  <2>4. Funnel(x, seg) = Funnel(y, seg)
    BY <2>1, <2>2, <2>3, FunnelLocal
  <2>5. Funnel(x, seg) \subseteq seg.mask
    BY DEF Funnel
  <2>. QED BY <2>1, <2>4, <2>5
<1>2. ASSUME NEW seg \in stream.splats PROVE Splat(x, seg) = Splat(y, seg) /\ Splat(x, seg) \subseteq Lanes
  BY DEF Splat, Agree, Reads, StreamTyped
<1>3. stream.imm \subseteq Lanes
  BY DEF StreamTyped
<1>. QED BY <1>1, <1>2, <1>3 DEF gather

\* An address is made of the bits at its positions, and is one of the
\* addresses the access may see.
LEMMA AddressLocal ==
  ASSUME NEW x, NEW y, NEW access, AccessTyped(access), Agree(x, y, ToSet(access.addr_pos))
  PROVE  /\ AddressAt(x, access.addr_pos) = AddressAt(y, access.addr_pos)
         /\ AddressAt(x, access.addr_pos) \in AddressesOf(access)
         /\ AddressAt(x, access.addr_pos) \in Nat
<1>. DEFINE at(view) == [j \in DOMAIN access.addr_pos |-> BitAt(view, access.addr_pos[j])]
            n == Len(access.addr_pos)
<1>1. access.addr_pos \in Seq(Nat) /\ n \in Nat /\ DOMAIN access.addr_pos = 1 .. n
  BY DEF AccessTyped
<1>2. at(x) = at(y)
  <2>1. \A j \in DOMAIN access.addr_pos : BitAt(x, access.addr_pos[j]) <=> BitAt(y, access.addr_pos[j])
    BY DEF Agree, ToSet
  <2>2. \A j \in DOMAIN access.addr_pos : BitAt(x, access.addr_pos[j]) = BitAt(y, access.addr_pos[j])
    BY <2>1 DEF BitAt
  <2>. QED BY <2>2
<1>3. at(x) \in Seq(BOOLEAN) /\ Len(at(x)) = n
  BY <1>1 DEF BitAt
<1>4. Number(at(x)) \in 0 .. Power(n) - 1
  <2>. HIDE DEF at
  <2>. QED BY <1>1, <1>3, NumberRange
<1>5. AddressesOf(access) = 0 .. Power(n) - 1
  BY Zenon DEF AddressesOf, Power
<1>6. Number(at(x)) \in Nat
  BY <1>1, <1>4, PowerCounts
<1>7. AddressAt(x, access.addr_pos) = Number(at(x)) /\ AddressAt(y, access.addr_pos) = Number(at(y))
  BY DEF AddressAt
<1>. HIDE DEF at, n
<1>. QED BY <1>2, <1>4, <1>5, <1>6, <1>7

\* A memory read loads the field of its address, and nothing from elsewhere.
LEMMA ReadLocal ==
  ASSUME NEW p, p.words \in Nat, NEW x \in Arenas(p), NEW y \in Arenas(p),
         NEW read, AccessTyped(read),
         \A addr \in AddressesOf(read) : InBounds(p, LoadedFrom(read, addr).src),
         Agree(x, y, ToSet(read.addr_pos)),
         Agree(x, y, UNION {Loaded(read, addr) : addr \in AddressesOf(read)})
  PROVE  ReadWord(x, x, read) = ReadWord(y, y, read) /\ ReadWord(x, x, read) \subseteq Lanes
<1>. DEFINE addr == AddressAt(x, read.addr_pos)
            seg == LoadedFrom(read, addr)
<1>1. addr = AddressAt(y, read.addr_pos) /\ addr \in AddressesOf(read) /\ addr \in Nat
  BY AddressLocal
<1>. HIDE DEF addr
<1>2. read.base_bit \in Nat /\ read.width \in Nat
  BY DEF AccessTyped
<1>3. /\ seg.shift = 0 /\ seg.mask = Field(read.width)
      /\ seg.src = read.base_bit
                     + (IF read.zero_word0 /\ addr # 0 THEN addr - 1 ELSE addr) * read.width
  BY DEF LoadedFrom
<1>4. seg.src \in Int /\ InBounds(p, seg.src)
  BY <1>1, <1>2, <1>3
<1>5. seg.src \in Nat
  BY <1>4 DEF InBounds
<1>6. seg.mask \subseteq Lanes
  BY <1>2, <1>3, FieldLanes
<1>7. LoadableFromBoth(x, y, seg)
  BY <1>4, <1>5, <1>6, ArenaLoadable DEF LoadableFromBoth
<1>8. Agree(x, y, {seg.src + k - seg.shift : k \in seg.mask})
  <2>1. \A k \in seg.mask : seg.src + k - seg.shift = seg.src + k
    BY <1>3, <1>5, <1>6 DEF Lanes
  <2>2. \A k \in seg.mask : seg.src + k \in Loaded(read, addr)
    BY <1>3 DEF Loaded
  <2>3. \A k \in seg.mask : BitAt(x, seg.src + k) <=> BitAt(y, seg.src + k)
    BY <1>1, <2>2 DEF Agree
  <2>. HIDE DEF seg
  <2>. QED BY <2>1, <2>3 DEF Agree
<1>9. Funnel(x, seg) = Funnel(y, seg) /\ Funnel(x, seg) \subseteq Lanes
  <2>1. Funnel(x, seg) \subseteq seg.mask
    BY DEF Funnel
  <2>. HIDE DEF seg
  <2>. QED BY <1>3, <1>6, <1>7, <1>8, <2>1, FunnelLocal
<1>10. /\ ReadWord(x, x, read) = IF read.zero_word0 /\ addr = 0 THEN {} ELSE Funnel(x, seg)
       /\ ReadWord(y, y, read) = IF read.zero_word0 /\ addr = 0 THEN {} ELSE Funnel(y, seg)
  BY <1>1 DEF ReadWord, addr
<1>. HIDE DEF seg
<1>. QED BY <1>9, <1>10

\* A task computes the same word from two arenas that agree on what it reads.
LEMMA TaskLocal ==
  ASSUME NEW t, NEW p, PlanTyped(t, p), LoadsInBounds(p), NEW k \in DOMAIN p.tasks,
         NEW x \in Arenas(p), NEW y \in Arenas(p), Agree(x, y, TaskReads(p.tasks[k]))
  PROVE  /\ TaskWord(x, x, p.tasks[k]) = TaskWord(y, y, p.tasks[k])
         /\ TaskWord(x, x, p.tasks[k]) \subseteq Lanes
<1>. DEFINE task == p.tasks[k]
<1>1. p.words \in Nat /\ AccessTyped(task.read)
  BY DEF PlanTyped
<1>2. ASSUME NEW i \in 1 .. 3
      PROVE  gather(x, task.streams[i]) = gather(y, task.streams[i])
  <2>. DEFINE stream == task.streams[i]
  <2>1. stream \in StreamsOf(p)
    BY DEF StreamsOf
  <2>2. StreamTyped(stream) /\ \A seg \in stream.funnels \cup stream.splats : InBounds(p, seg.src)
    BY <2>1 DEF PlanTyped, LoadsInBounds
  <2>3. Agree(x, y, Reads(stream))
    BY DEF Agree, TaskReads
  <2>. HIDE DEF stream
  <2>4. gather(x, stream) = gather(y, stream)
    BY <1>1, <2>2, <2>3, GatherLocal
  <2>. QED BY <2>4 DEF stream
<1>3. ReadWord(x, x, task.read) = ReadWord(y, y, task.read) /\ ReadWord(x, x, task.read) \subseteq Lanes
  <2>1. \A addr \in AddressesOf(task.read) : InBounds(p, LoadedFrom(task.read, addr).src)
    BY DEF LoadsInBounds
  <2>2. /\ Agree(x, y, ToSet(task.read.addr_pos))
        /\ Agree(x, y, UNION {Loaded(task.read, addr) : addr \in AddressesOf(task.read)})
    BY DEF Agree, TaskReads
  <2>. QED BY <1>1, <2>1, <2>2, ReadLocal
<1>4. \A a, b, c : WrappingAdd(a, b, c) \subseteq Lanes
  BY DEF WrappingAdd, WordFor
<1>5. /\ gather(x, task.streams[1]) = gather(y, task.streams[1])
      /\ gather(x, task.streams[2]) = gather(y, task.streams[2])
      /\ gather(x, task.streams[3]) = gather(y, task.streams[3])
  BY <1>2
<1>. HIDE DEF task
<1>6. TaskWord(x, x, task) = TaskWord(y, y, task)
  BY <1>3, <1>5 DEF TaskWord
<1>7. TaskWord(x, x, task) \subseteq Lanes
  BY <1>3, <1>4 DEF TaskWord
<1>. QED BY <1>6, <1>7 DEF task

\* The writes are the same from two arenas that agree on what the capture reads.
LEMMA WritesLocal ==
  ASSUME NEW t, NEW p, PlanTyped(t, p), LoadsInBounds(p),
         NEW x \in Arenas(p), NEW y \in Arenas(p), Agree(x, y, CaptureReads(p))
  PROVE  /\ SameWrites(x, y, p.writes)
         /\ \A k \in DOMAIN p.capture :
              gather(x, p.capture[k]) = gather(y, p.capture[k]) /\ gather(x, p.capture[k]) \subseteq Lanes
<1>1. p.words \in Nat /\ DOMAIN p.writes = 1 .. Len(p.writes)
  BY DEF PlanTyped
<1>2. ASSUME NEW stream \in StreamsOf(p), Agree(x, y, Reads(stream))
      PROVE  gather(x, stream) = gather(y, stream) /\ gather(x, stream) \subseteq Lanes
  <2>1. StreamTyped(stream) /\ \A seg \in stream.funnels \cup stream.splats : InBounds(p, seg.src)
    BY DEF PlanTyped, LoadsInBounds
  <2>. QED BY <1>1, <1>2, <2>1, GatherLocal
<1>3. ASSUME NEW k \in DOMAIN p.capture
      PROVE  gather(x, p.capture[k]) = gather(y, p.capture[k]) /\ gather(x, p.capture[k]) \subseteq Lanes
  <2>1. p.capture[k] \in StreamsOf(p)
    BY DEF StreamsOf
  <2>2. Agree(x, y, Reads(p.capture[k]))
    BY DEF Agree, CaptureReads
  <2>. QED BY <1>2, <2>1, <2>2
<1>4. ASSUME NEW k \in 1 .. Len(p.writes)
      PROVE  /\ BitAt(x, p.writes[k].enable_pos) <=> BitAt(y, p.writes[k].enable_pos)
             /\ StoredAt(x, p.writes[k]) = StoredAt(y, p.writes[k])
             /\ gather(x, p.writes[k].data) = gather(y, p.writes[k].data)
  <2>. DEFINE write == p.writes[k]
  <2>1. k \in DOMAIN p.writes /\ AccessTyped(write) /\ write.data \in StreamsOf(p)
    BY <1>1 DEF PlanTyped, StreamsOf
  <2>2. Agree(x, y, WriteReads(write))
    BY <2>1 DEF Agree, CaptureReads
  <2>. HIDE DEF write
  <2>3. /\ Agree(x, y, ToSet(write.addr_pos)) /\ Agree(x, y, Reads(write.data))
        /\ BitAt(x, write.enable_pos) <=> BitAt(y, write.enable_pos)
    BY <2>2 DEF Agree, WriteReads
  <2>4. gather(x, write.data) = gather(y, write.data)
    BY <1>2, <2>1, <2>3
  <2>5. StoredAt(x, write) = StoredAt(y, write)
    BY <2>1, <2>3, AddressLocal DEF StoredAt
  <2>. QED BY <2>3, <2>4, <2>5 DEF write
<1>. QED BY <1>3, <1>4 DEF SameWrites

-----------------------------------------------------------------------------
(* The settled tape and the arena that holds it.                           *)

Sound(t, p) == TapeContract(t) /\ PlanContract(t, p)

HighSources(t, p, x) == {s \in PlacedSources(t, p) : BitAt(x, p.pos[s])}

\* The sources as an arena holds them, settled.
Ref(t, p, x) == SettledWith(t, HighSources(t, p, x))

\* A plan that keeps its contract is laid out on a tape that keeps its own.
LEMMA SoundIsLaid == ASSUME NEW t, NEW p, Sound(t, p) PROVE Laid(t, p)
BY DEF Sound, Laid, PlanContract

\* A signal that has a place has its own, and no constant has one.
LEMMA PlacedApart ==
  ASSUME NEW t, NEW p, Sound(t, p)
  PROVE  /\ Placed(p) \subseteq Slots(t)
         /\ \A s, u \in Placed(p) : p.pos[s] = p.pos[u] => s = u
         /\ \A s \in Placed(p) :
              /\ p.pos[s] \in Nat /\ WordOf(p.pos[s]) \in 0 .. p.words - 1 /\ Offset(p.pos[s]) \in Lanes
              /\ p.pos[s] = WordBits * WordOf(p.pos[s]) + Offset(p.pos[s])
         /\ \A s \in PlacedSources(t, p) : ~IsConstSlot(t, s) /\ ~IsTrueSlot(t, s)
<1>1. Laid(t, p)
  BY SoundIsLaid
<1>. QED BY <1>1, Places DEF Laid, LaidOut

\* The reference is settled, and has the arena's sources and the constants.
LEMMA RefSettled ==
  ASSUME NEW t, NEW p, Sound(t, p), NEW x
  PROVE  /\ Ref(t, p, x) \in Buffers(t) /\ Settled(t, Ref(t, p, x))
         /\ ConstsHeld(t, Ref(t, p, x))
         /\ \A s \in PlacedSources(t, p) : Ref(t, p, x)[s] <=> BitAt(x, p.pos[s])
         /\ \A s \in Slots(t) : IsConstSlot(t, s) => Ref(t, p, x)[s] = IsTrueSlot(t, s)
<1>. DEFINE high == HighSources(t, p, x)
            values == Ref(t, p, x)
<1>1. high \in SUBSET PlacedSources(t, p) /\ values = SettledWith(t, high)
      /\ \A s \in PlacedSources(t, p) : s \in high <=> BitAt(x, p.pos[s])
  BY DEF HighSources, Ref
<1>. HIDE DEF high, values
<1>2. /\ SettledValues(t, values)
      /\ \A s \in PlacedSources(t, p) : values[s] <=> s \in high
  BY <1>1, SoundIsLaid, SettledWithHigh
<1>3. \A s \in Slots(t) : IsConstSlot(t, s) => values[s] = IsTrueSlot(t, s)
  BY <1>2 DEF SettledValues
<1>4. ConstsHeld(t, values)
  <2>. SUFFICES ASSUME NEW k \in DOMAIN t.const_slots
                PROVE  values[t.const_slots[k][1]] = t.const_slots[k][2]
    BY DEF ConstsHeld
  <2>. QED BY <1>3, ConstSlots DEF Sound
<1>. QED BY <1>1, <1>2, <1>3, <1>4 DEF SettledValues, values

\* Two arenas agree on what is read if they agree on every signal.
AgreeOn(x, p, values, signals) == \A s \in signals : BitAt(x, p.pos[s]) <=> values[s]

\* An arena that has the settled values of some signals reads as the settled
\* arena at their positions.
LEMMA AgreeThrough ==
  ASSUME NEW t, NEW p, Sound(t, p), NEW x, NEW values, NEW signals \in SUBSET Placed(p),
         AgreeOn(x, p, values, signals), NEW positions,
         positions \subseteq {p.pos[s] : s \in signals}
  PROVE  Agree(x, Holding(p, values), positions)
<1>. SUFFICES ASSUME NEW q \in positions PROVE BitAt(x, q) <=> BitAt(Holding(p, values), q)
  BY DEF Agree
<1>1. PICK s \in signals : q = p.pos[s]
  OBVIOUS
<1>. QED BY <1>1, SoundIsLaid, HoldingHolds DEF AgreeOn

\* A task that reads the settled values of its operands computes the settled
\* values of its word.
LEMMA TaskSettles ==
  ASSUME NEW t, NEW p, Sound(t, p), NEW x \in Arenas(p), NEW k \in DOMAIN p.tasks,
         Agree(x, Holding(p, Ref(t, p, x)), TaskReads(p.tasks[k]))
  PROVE  /\ TaskWord(x, x, p.tasks[k]) \subseteq Lanes
         /\ \A s \in Placed(p) : WordOf(p.pos[s]) = p.tasks[k].dst =>
              (Offset(p.pos[s]) \in TaskWord(x, x, p.tasks[k]) <=> Ref(t, p, x)[s])
<1>. DEFINE high == HighSources(t, p, x)
            values == Ref(t, p, x)
            arena == Holding(p, values)
            task == p.tasks[k]
<1>1. high \in SUBSET PlacedSources(t, p) /\ values = SettledWith(t, high)
  BY DEF HighSources, Ref
<1>2. arena \in Arenas(p)
  BY SoundIsLaid, HoldingHolds
<1>3. TaskWord(x, x, task) = TaskWord(arena, arena, task) /\ TaskWord(x, x, task) \subseteq Lanes
  <2>. HIDE DEF arena
  <2>. QED BY <1>2, TaskLocal DEF Sound, PlanContract, arena
<1>4. \A s \in Placed(p) : WordOf(p.pos[s]) = task.dst =>
        (Offset(p.pos[s]) \in TaskWord(arena, arena, task) <=> values[s])
  <2>1. Faithful(t, p)
    BY DEF Sound, PlanContract
  <2>. HIDE DEF high, values
  <2>. QED BY <1>1, <2>1 DEF Faithful, Computes
<1>. HIDE DEF values, arena, task
<1>5. TaskWord(x, x, task) \subseteq Lanes
  BY <1>3
<1>6. \A s \in Placed(p) : WordOf(p.pos[s]) = task.dst =>
        (Offset(p.pos[s]) \in TaskWord(x, x, task) <=> values[s])
  BY <1>3, <1>4
<1>. QED BY <1>5, <1>6 DEF values, task

\* A capture that reads settled values registers the next value of every
\* register, whatever the pad word of the staging buffer holds.
CapturedInto(p, x, stage) ==
  [k \in DOMAIN stage |-> IF k \in DOMAIN p.capture THEN gather(x, p.capture[k]) ELSE stage[k]]

\* The capture stages for every register what its data input holds when the
\* tape has settled, memory writes included.
LEMMA CaptureSettles ==
  ASSUME NEW t, NEW p, Sound(t, p), NEW x \in Arenas(p), NEW stage \in Stages(p.staging_words),
         Agree(x, Holding(p, Ref(t, p, x)), CaptureReads(p))
  PROVE  LET next == Written(x, p.writes, CapturedInto(p, x, stage)) IN
         /\ next \in Stages(p.staging_words)
         /\ \A r \in Registers(t) :
              Offset(r - 1) \in next[WordOf(r - 1) + 1] <=> Ref(t, p, x)[t.reg_in_slots[r]]
<1>. DEFINE high == HighSources(t, p, x)
            values == Ref(t, p, x)
            arena == Holding(p, values)
            n == Len(p.reg_init)
            m == p.staging_words
            v == [k \in DOMAIN p.capture |-> gather(arena, p.capture[k])]
            u == CapturedInto(p, x, stage)
<1>1. high \in SUBSET PlacedSources(t, p) /\ values = SettledWith(t, high)
  BY DEF HighSources, Ref
<1>2. arena \in Arenas(p)
  BY SoundIsLaid, HoldingHolds
<1>3. PlanTyped(t, p) /\ LoadsInBounds(p) /\ Faithful(t, p) /\ LaidOut(t, p)
  BY DEF Sound, PlanContract
<1>4. /\ n \in Nat /\ m \in Nat /\ n <= m /\ DOMAIN p.capture = 1 .. n /\ DOMAIN p.reg_init = 1 .. n
      /\ Len(p.writes) \in Nat
  BY <1>3 DEF PlanTyped
<1>5. /\ SameWrites(arena, x, p.writes)
      /\ \A k \in DOMAIN p.capture :
           gather(x, p.capture[k]) = gather(arena, p.capture[k]) /\ gather(x, p.capture[k]) \subseteq Lanes
  <2>. HIDE DEF arena
  <2>1. /\ SameWrites(x, arena, p.writes)
        /\ \A k \in DOMAIN p.capture :
             gather(x, p.capture[k]) = gather(arena, p.capture[k]) /\ gather(x, p.capture[k]) \subseteq Lanes
    BY <1>2, <1>3, WritesLocal DEF arena
  <2>. QED BY <2>1 DEF SameWrites
<1>6. v \in Stages(n)
  <2>. HIDE DEF arena, n
  <2>. QED BY <1>4, <1>5 DEF Stages
<1>7. u \in Stages(m)
  <2>. HIDE DEF arena, n
  <2>. QED BY <1>4, <1>5 DEF Stages, CapturedInto
<1>8. SameWords(v, u, n)
  <2>1. \A w \in 1 .. n : w \in DOMAIN stage
    BY <1>4 DEF Stages
  <2>2. \A w \in 1 .. n : u[w] = gather(x, p.capture[w])
    <3>. HIDE DEF n
    <3>. QED BY <1>4, <2>1 DEF CapturedInto
  <2>. HIDE DEF arena, n, u
  <2>. QED BY <1>4, <1>5, <2>2 DEF SameWords
<1>9. \A r \in Registers(t) :
        Offset(r - 1) \in Written(arena, p.writes, v)[WordOf(r - 1) + 1] <=> values[t.reg_in_slots[r]]
  <2>. HIDE DEF high, values
  <2>. QED BY <1>1, <1>3 DEF Faithful, Captures
<1>. HIDE DEF values, arena, n, m, v, u
<1>10. /\ Written(x, p.writes, u) \in Stages(m)
       /\ SameWords(Written(arena, p.writes, v), Written(x, p.writes, u), n)
  BY <1>4, <1>5, <1>6, <1>7, <1>8, WrittenLocal
<1>11. \A r \in Registers(t) : WordOf(r - 1) + 1 \in 1 .. n
  BY <1>3, <1>4 DEF LaidOut
<1>. QED BY <1>9, <1>10, <1>11 DEF SameWords, u, m, values

-----------------------------------------------------------------------------
(* Where the inputs and the registers are.                                 *)

\* Input i is at position i - 1, and is no register.
LEMMA InputPlace ==
  ASSUME NEW t, NEW p, Sound(t, p), NEW i \in InputIds(t)
  PROVE  /\ t.input_slots[i] \in PlacedSources(t, p) /\ p.pos[t.input_slots[i]] = i - 1
         /\ \A r \in Registers(t) : t.reg_out_slots[r] # t.input_slots[i]
<1>1. p.pos[t.input_slots[i]] = i - 1 /\ DOMAIN p.pos = Slots(t)
  BY DEF Sound, PlanContract, LaidOut, PlanTyped
<1>2. i - 1 # NoPos
  BY DEF InputIds, NoPos
<1>3. t.input_slots[i] \in Sources(t) /\ t.input_slots[i] \in Slots(t)
  BY DEF Sound, TapeContract, SourcesDisjoint, Sources
<1>4. \A r \in Registers(t) : t.reg_out_slots[r] # t.input_slots[i]
  BY DEF Sound, TapeContract, SourcesDisjoint
<1>. QED BY <1>1, <1>2, <1>3, <1>4 DEF PlacedSources, Placed

\* Register r is bit r - 1 of the register words.
LEMMA RegisterPlace ==
  ASSUME NEW t, NEW p, Sound(t, p), NEW r \in Registers(t)
  PROVE  /\ t.reg_out_slots[r] \in PlacedSources(t, p)
         /\ WordOf(p.pos[t.reg_out_slots[r]]) = p.reg_word + WordOf(r - 1)
         /\ Offset(p.pos[t.reg_out_slots[r]]) = Offset(r - 1)
         /\ WordOf(r - 1) \in Nat /\ WordOf(r - 1) + 1 \in DOMAIN p.reg_init
<1>. DEFINE s == t.reg_out_slots[r]
<1>1. /\ p.pos[s] = WordBits * p.reg_word + r - 1 /\ DOMAIN p.pos = Slots(t) /\ p.reg_word \in Nat
      /\ WordOf(r - 1) + 1 \in DOMAIN p.reg_init
  BY DEF Sound, PlanContract, LaidOut, PlanTyped
<1>2. r - 1 \in Nat
  BY DEF Registers
<1>3. WordOf(r - 1) \in Nat /\ Offset(r - 1) \in Lanes /\ r - 1 = WordBits * WordOf(r - 1) + Offset(r - 1)
  BY <1>2, PositionSplit
<1>4. WordBits * p.reg_word + r - 1 = WordBits * (p.reg_word + WordOf(r - 1)) + Offset(r - 1)
  <2>1. \A a, b \in Nat : WordBits * (a + b) = WordBits * a + WordBits * b /\ WordBits * a \in Nat
    BY WordWidth
  <2>2. WordBits * (p.reg_word + WordOf(r - 1)) = WordBits * p.reg_word + WordBits * WordOf(r - 1)
    BY <1>1, <1>3, <2>1
  <2>3. WordBits * p.reg_word \in Nat /\ WordBits * WordOf(r - 1) \in Nat
    BY <1>1, <1>3, <2>1
  <2>. QED BY <1>3, <2>2, <2>3 DEF Lanes, Registers
<1>5. WordOf(p.pos[s]) = p.reg_word + WordOf(r - 1) /\ Offset(p.pos[s]) = Offset(r - 1)
  BY <1>1, <1>3, <1>4, PositionJoin
<1>6. p.pos[s] # NoPos
  BY <1>1, <1>2, WordWidth DEF NoPos
<1>7. s \in Sources(t) /\ s \in Slots(t)
  BY DEF Sound, TapeContract, SourcesDisjoint, Sources
<1>. QED BY <1>1, <1>3, <1>5, <1>6, <1>7 DEF PlacedSources, Placed

\* Register words are copied to the words of the registers and nowhere else.
LEMMA CopyInWrites ==
  ASSUME NEW t, NEW p, Sound(t, p), NEW x \in Arenas(p), NEW words,
         \A k \in DOMAIN p.reg_init : words[k] \subseteq Lanes
  PROVE  /\ CopyIn(p, x, words) \in Arenas(p)
         /\ \A k \in DOMAIN p.reg_init : CopyIn(p, x, words)[p.reg_word + k - 1] = words[k]
         /\ \A s \in Placed(p) : (\A r \in Registers(t) : t.reg_out_slots[r] # s) =>
              (BitAt(CopyIn(p, x, words), p.pos[s]) <=> BitAt(x, p.pos[s]))
<1>. DEFINE n == Len(p.reg_init)
            new == CopyIn(p, x, words)
<1>1. /\ p.words \in Nat /\ p.reg_word \in Nat /\ n \in Nat /\ DOMAIN p.reg_init = 1 .. n
      /\ p.reg_word + n <= p.words
  BY DEF Sound, PlanContract, PlanTyped
<1>2. /\ DOMAIN new = 0 .. p.words - 1
      /\ \A w \in 0 .. p.words - 1 :
           new[w] = IF w - p.reg_word + 1 \in DOMAIN p.reg_init THEN words[w - p.reg_word + 1] ELSE x[w]
  BY DEF CopyIn, Arenas
<1>3. new = [w \in 0 .. p.words - 1 |-> new[w]]
  BY DEF CopyIn, Arenas
<1>. HIDE DEF new, n
<1>4. new \in Arenas(p)
  <2>1. \A w \in 0 .. p.words - 1 : new[w] \in SUBSET Lanes
    BY <1>2 DEF Arenas
  <2>. QED BY <1>3, <2>1 DEF Arenas
<1>5. ASSUME NEW k \in DOMAIN p.reg_init PROVE new[p.reg_word + k - 1] = words[k]
  <2>1. p.reg_word + k - 1 \in 0 .. p.words - 1 /\ (p.reg_word + k - 1) - p.reg_word + 1 = k
    BY <1>1
  <2>. QED BY <1>2, <2>1
<1>6. ASSUME NEW s \in Placed(p), \A r \in Registers(t) : t.reg_out_slots[r] # s
      PROVE  BitAt(new, p.pos[s]) <=> BitAt(x, p.pos[s])
  <2>1. WordOf(p.pos[s]) - p.reg_word + 1 \notin DOMAIN p.reg_init
    BY <1>6 DEF Sound, PlanContract, LaidOut
  <2>2. WordOf(p.pos[s]) \in 0 .. p.words - 1
    BY PlacedApart
  <2>. QED BY <1>2, <2>1, <2>2 DEF BitAt
<1>. QED BY <1>4, <1>5, <1>6 DEF new

\* The outputs are Booleans, and those of the buffer the arena holds.
LEMMA OutputsRead ==
  ASSUME NEW t, NEW p, Sound(t, p), NEW x
  PROVE  /\ PlanOutputs(t, p, x) \in [OutputIds(t) -> BOOLEAN]
         /\ \A values \in Buffers(t) :
              /\ AgreeOn(x, p, values, Placed(p))
              /\ \A s \in Slots(t) : IsConstSlot(t, s) => values[s] = IsTrueSlot(t, s)
              => PlanOutputs(t, p, x) = OutputsOf(t, values)
<1>1. \A o \in OutputIds(t) : output(t, p, x, o) \in BOOLEAN
  <2>1. \A s, q : IsTrueSlot(t, s) \in BOOLEAN /\ BitAt(x, q) \in BOOLEAN
    BY DEF IsTrueSlot, BitAt
  <2>. QED BY <2>1, Zenon DEF output
<1>2. ASSUME NEW values \in Buffers(t), AgreeOn(x, p, values, Placed(p)),
             \A s \in Slots(t) : IsConstSlot(t, s) => values[s] = IsTrueSlot(t, s)
      PROVE  PlanOutputs(t, p, x) = OutputsOf(t, values)
  <2>1. ASSUME NEW o \in OutputIds(t) PROVE output(t, p, x, o) = values[t.output_slots[o]]
    <3>. DEFINE s == t.output_slots[o]
    <3>1. s \in Slots(t) /\ values[s] \in BOOLEAN
      BY DEF Sound, TapeContract, FieldsTyped, Buffers
    <3>2. CASE IsConstSlot(t, s)
      BY <1>2, <3>1, <3>2 DEF output
    <3>3. CASE ~IsConstSlot(t, s)
      <4>1. s \in Placed(p)
        BY <3>3 DEF Sound, PlanContract, ReadsSignals
      <4>2. BitAt(x, p.pos[s]) <=> values[s]
        BY <1>2, <4>1 DEF AgreeOn
      <4>3. BitAt(x, p.pos[s]) = values[s]
        BY <3>1, <4>2 DEF BitAt
      <4>. QED BY <3>3, <4>3 DEF output
    <3>. QED BY <3>2, <3>3
  <2>. QED BY <2>1 DEF PlanOutputs, OutputsOf
<1>. QED BY <1>1, <1>2 DEF PlanOutputs

\* The reference depends on the sources alone.
LEMMA RefLocal ==
  ASSUME NEW t, NEW p, NEW x, NEW y,
         \A s \in PlacedSources(t, p) : BitAt(x, p.pos[s]) <=> BitAt(y, p.pos[s])
  PROVE  Ref(t, p, x) = Ref(t, p, y)
<1>1. HighSources(t, p, x) = HighSources(t, p, y)
  BY DEF HighSources
<1>. QED BY <1>1 DEF Ref

-----------------------------------------------------------------------------
(* The invariant of a tick.                                                *)

Configured == tape \in Tapes /\ plan = Plan(tape)

\* Between calls the caller sees the outputs of the arena.
Shown == pc = 0 => outs = PlanOutputs(tape, plan, bits)

\* During a tick the registers are those of the staging buffer.
Latched ==
  pc # 0 => \A r \in Registers(tape) :
    BitAt(bits, plan.pos[tape.reg_out_slots[r]]) <=> Offset(r - 1) \in staging[WordOf(r - 1) + 1]

\* The words of the tasks that have run are settled.
Progress ==
  \A k \in DOMAIN plan.tasks : k < pc =>
    \A s \in Placed(plan) : WordOf(plan.pos[s]) = plan.tasks[k].dst =>
      (BitAt(bits, plan.pos[s]) <=> Ref(tape, plan, bits)[s])

PackedInv == Configured /\ TypeOK /\ Shown /\ Latched /\ Progress

\* The plan at hand keeps its contract.
LEMMA ConfigSound ==
  ASSUME PlansBuilt, Configured
  PROVE  Sound(tape, plan) /\ PlanTyped(tape, plan)
BY TapesAssumption, BuiltContract DEF PlansBuilt, Configured, Sound, PlanContract

\* The reference of the run is the settled buffer of the arena's sources.
LEMMA ReferenceIsRef == Reference = Ref(tape, plan, bits)
BY DEF Reference, Ref, HighSources

\* The next task reads sources and words that have been written, all settled.
LEMMA NextTaskReads ==
  ASSUME PlansBuilt, PackedInv, pc \in DOMAIN plan.tasks
  PROVE  Agree(bits, Holding(plan, Ref(tape, plan, bits)), TaskReads(plan.tasks[pc]))
<1>. DEFINE values == Ref(tape, plan, bits)
            signals == {s \in Placed(plan) : BitAt(bits, plan.pos[s]) <=> values[s]}
<1>1. Sound(tape, plan) /\ PlanTyped(tape, plan)
  BY ConfigSound DEF PackedInv
<1>2. ASSUME NEW q \in TaskReads(plan.tasks[pc]) PROVE q \in {plan.pos[s] : s \in signals}
  <2>1. PICK s \in Placed(plan) : q = plan.pos[s]
    BY <1>1 DEF Sound, PlanContract, ReadsSignals
  <2>2. CASE s \in Sources(tape)
    <3>1. BitAt(bits, plan.pos[s]) <=> values[s]
      BY <1>1, <2>2, RefSettled DEF PlacedSources
    <3>. QED BY <2>1, <3>1
  <2>3. CASE s \notin Sources(tape)
    <3>1. PICK j \in DOMAIN plan.tasks : plan.tasks[j].dst = WordOf(plan.pos[s])
      BY <1>1, <2>3 DEF Sound, PlanContract, Faithful
    <3>2. DOMAIN plan.tasks = 1 .. Len(plan.tasks) /\ Len(plan.tasks) \in Nat
      BY <1>1 DEF PlanTyped
    <3>3. j < pc
      <4>1. SUFFICES ASSUME pc <= j PROVE FALSE
        BY <3>2
      <4>2. pc \in 1 .. j
        BY <3>2, <4>1
      <4>3. plan.tasks[j].dst \notin {WordOf(y) : y \in TaskReads(plan.tasks[pc])}
        BY <1>1, <4>2 DEF Sound, PlanContract, WritesPrecedeReads
      <4>. QED BY <2>1, <3>1, <4>3
    <3>4. BitAt(bits, plan.pos[s]) <=> values[s]
      BY <3>1, <3>3 DEF PackedInv, Progress
    <3>. QED BY <2>1, <3>4
  <2>. QED BY <2>2, <2>3
<1>3. signals \in SUBSET Placed(plan) /\ AgreeOn(bits, plan, values, signals)
  BY DEF AgreeOn
<1>4. TaskReads(plan.tasks[pc]) \subseteq {plan.pos[s] : s \in signals}
  BY <1>2
<1>. HIDE DEF signals, values
<1>5. Agree(bits, Holding(plan, values), TaskReads(plan.tasks[pc]))
  BY <1>1, <1>3, <1>4, AgreeThrough
<1>. QED BY <1>5 DEF values

\* When every task has run, every signal that has a place is settled.
LEMMA AllSettled ==
  ASSUME PlansBuilt, PackedInv, pc = Len(plan.tasks) + 1
  PROVE  AgreeOn(bits, plan, Ref(tape, plan, bits), Placed(plan))
<1>. SUFFICES ASSUME NEW s \in Placed(plan)
              PROVE  BitAt(bits, plan.pos[s]) <=> Ref(tape, plan, bits)[s]
  BY DEF AgreeOn
<1>1. Sound(tape, plan) /\ PlanTyped(tape, plan)
  BY ConfigSound DEF PackedInv
<1>2. CASE s \in Sources(tape)
  BY <1>1, <1>2, RefSettled DEF PlacedSources
<1>3. CASE s \notin Sources(tape)
  <2>1. PICK j \in DOMAIN plan.tasks : plan.tasks[j].dst = WordOf(plan.pos[s])
    BY <1>1, <1>3 DEF Sound, PlanContract, Faithful
  <2>2. j < pc
    BY <1>1 DEF PlanTyped
  <2>. QED BY <2>1, <2>2 DEF PackedInv, Progress
<1>. QED BY <1>2, <1>3

\* What is read when a tick ends is settled.
LEMMA CaptureReadsSettled ==
  ASSUME PlansBuilt, PackedInv, pc = Len(plan.tasks) + 1
  PROVE  Agree(bits, Holding(plan, Ref(tape, plan, bits)), CaptureReads(plan))
<1>1. Sound(tape, plan)
  BY ConfigSound DEF PackedInv
<1>2. CaptureReads(plan) \subseteq {plan.pos[s] : s \in Placed(plan)}
  BY <1>1 DEF Sound, PlanContract, ReadsSignals
<1>. QED BY <1>1, <1>2, AllSettled, AgreeThrough

\* A reset gives every register its first value and everything else none.
LEMMA ResetState ==
  ASSUME NEW t, NEW p, Sound(t, p)
  PROVE  /\ PowerOn(p) \in Arenas(p) /\ StagedInit(p) \in Stages(p.staging_words)
         /\ \A r \in Registers(t) : Offset(r - 1) \in StagedInit(p)[WordOf(r - 1) + 1] <=> t.reg_initial[r]
         /\ AgreeOn(PowerOn(p), p, initial_values(t), Placed(p))
<1>. DEFINE empty == [w \in 0 .. p.words - 1 |-> {}]
<1>1. /\ p.reg_init \in Seq(SUBSET Lanes) /\ Len(p.reg_init) <= p.staging_words
      /\ Len(p.reg_init) \in Nat /\ DOMAIN p.reg_init = 1 .. Len(p.reg_init) /\ p.staging_words \in Nat
      /\ \A k \in DOMAIN p.reg_init : p.reg_init[k] \subseteq Lanes
  BY DEF Sound, PlanContract, PlanTyped
<1>2. empty \in Arenas(p) /\ \A w \in 0 .. p.words - 1 : empty[w] = {}
  BY DEF Arenas
<1>3. PowerOn(p) = CopyIn(p, empty, p.reg_init)
  BY DEF PowerOn
<1>. HIDE DEF empty
<1>4. /\ PowerOn(p) \in Arenas(p)
      /\ \A k \in DOMAIN p.reg_init : PowerOn(p)[p.reg_word + k - 1] = p.reg_init[k]
      /\ \A s \in Placed(p) : (\A r \in Registers(t) : t.reg_out_slots[r] # s) =>
           (BitAt(PowerOn(p), p.pos[s]) <=> BitAt(empty, p.pos[s]))
  BY <1>1, <1>2, <1>3, CopyInWrites
<1>5. StagedInit(p) \in Stages(p.staging_words)
  BY <1>1 DEF StagedInit, Stages
<1>6. ASSUME NEW r \in Registers(t)
      PROVE  Offset(r - 1) \in p.reg_init[WordOf(r - 1) + 1] <=> t.reg_initial[r]
  BY DEF Sound, PlanContract, LaidOut
<1>7. ASSUME NEW r \in Registers(t)
      PROVE  StagedInit(p)[WordOf(r - 1) + 1] = p.reg_init[WordOf(r - 1) + 1]
  <2>1. WordOf(r - 1) + 1 \in DOMAIN p.reg_init
    BY RegisterPlace
  <2>2. WordOf(r - 1) + 1 \in 1 .. p.staging_words
    BY <1>1, <2>1
  <2>. QED BY <2>1, <2>2 DEF StagedInit
<1>8. ASSUME NEW s \in Placed(p) PROVE BitAt(PowerOn(p), p.pos[s]) <=> initial_values(t)[s]
  <2>1. s \in Slots(t)
    BY PlacedApart
  <2>2. CASE \E r \in Registers(t) : t.reg_out_slots[r] = s
    <3>1. PICK r \in Registers(t) : t.reg_out_slots[r] = s
      BY <2>2
    <3>. DEFINE w == WordOf(r - 1)
    <3>2. /\ WordOf(p.pos[s]) = p.reg_word + w /\ Offset(p.pos[s]) = Offset(r - 1)
          /\ w \in Nat /\ w + 1 \in DOMAIN p.reg_init /\ s \in PlacedSources(t, p)
      BY <3>1, RegisterPlace
    <3>3. p.reg_word + (w + 1) - 1 = p.reg_word + w
      BY <3>2 DEF Sound, PlanContract, PlanTyped
    <3>4. PowerOn(p)[p.reg_word + w] = p.reg_init[w + 1]
      BY <1>4, <3>2, <3>3
    <3>5. BitAt(PowerOn(p), p.pos[s]) <=> t.reg_initial[r]
      BY <1>6, <3>2, <3>4 DEF BitAt
    <3>6. ~IsTrueSlot(t, s)
      BY <3>2, PlacedApart
    <3>7. \A q \in Registers(t) : t.reg_out_slots[q] = s => q = r
      BY <3>1 DEF Sound, TapeContract, SourcesDisjoint
    <3>8. initial_values(t)[s] <=> t.reg_initial[r]
      BY <2>1, <3>1, <3>6, <3>7 DEF initial_values, IsTrueSlot
    <3>. QED BY <3>5, <3>8
  <2>3. CASE \A r \in Registers(t) : t.reg_out_slots[r] # s
    <3>1. ~BitAt(PowerOn(p), p.pos[s])
      <4>1. WordOf(p.pos[s]) \in 0 .. p.words - 1
        BY PlacedApart
      <4>. QED BY <1>2, <1>4, <2>3, <4>1 DEF BitAt
    <3>2. ~IsTrueSlot(t, s)
      <4>1. CASE s \in Sources(t)
        BY <4>1, PlacedApart DEF PlacedSources
      <4>2. CASE s \notin Sources(t)
        BY <4>2, ConstSlots DEF Sound, IsConstSlot
      <4>. QED BY <4>1, <4>2
    <3>3. ~initial_values(t)[s]
      BY <2>1, <2>3, <3>2 DEF initial_values, IsTrueSlot
    <3>. QED BY <3>1, <3>3
  <2>. QED BY <2>2, <2>3
<1>. QED BY <1>4, <1>5, <1>6, <1>7, <1>8 DEF AgreeOn

\* Nothing has run between calls.
LEMMA BetweenCalls ==
  ASSUME Configured', TypeOK', Shown', pc' = 0, PlansBuilt
  PROVE  PackedInv'
<1>1. Sound(tape, plan)' /\ PlanTyped(tape, plan)'
  <2>1. Configured' => Sound(tape', plan') /\ PlanTyped(tape', plan')
    BY TapesAssumption, BuiltContract DEF PlansBuilt, Configured, Sound, PlanContract
  <2>. QED BY <2>1
<1>2. \A k \in DOMAIN plan'.tasks : ~(k < pc')
  BY <1>1 DEF PlanTyped
<1>. QED BY <1>2 DEF PackedInv, Latched, Progress

\* The invariant holds at power-on.
LEMMA InitPacked == ASSUME PlansBuilt, Init PROVE PackedInv
<1>1. Configured
  BY DEF Init, Configured
<1>2. Sound(tape, plan) /\ PlanTyped(tape, plan)
  BY <1>1, ConfigSound
<1>3. TypeOK
  <2>1. 0 \in 0 .. Len(plan.tasks) + 1
    BY <1>2 DEF PlanTyped
  <2>. QED BY <1>2, <2>1, ResetState, OutputsRead DEF Init, TypeOK, Arenas, Stages
<1>4. Shown
  BY DEF Init, Shown
<1>5. \A k \in DOMAIN plan.tasks : ~(k < pc)
  BY <1>2 DEF Init, PlanTyped
<1>. QED BY <1>1, <1>3, <1>4, <1>5 DEF PackedInv, Latched, Progress, Init

\* A reset restores the invariant.
LEMMA ResetPacked == ASSUME PlansBuilt, PackedInv, reset PROVE PackedInv'
<1>1. tape' = tape /\ plan' = plan /\ pc' = 0
  BY DEF reset, config
<1>2. Sound(tape, plan) /\ PlanTyped(tape, plan)
  BY ConfigSound DEF PackedInv
<1>3. Configured'
  BY <1>1 DEF PackedInv, Configured
<1>4. TypeOK'
  <2>1. 0 \in 0 .. Len(plan.tasks) + 1
    BY <1>2 DEF PlanTyped
  <2>. QED BY <1>1, <1>2, <2>1, ResetState, OutputsRead DEF reset, TypeOK, Arenas, Stages
<1>5. Shown'
  BY <1>1 DEF reset, Shown
<1>. QED BY <1>1, <1>3, <1>4, <1>5, BetweenCalls

WithInput(x, i, value) ==
  [x EXCEPT ![WordOf(i - 1)] = IF value THEN @ \cup {Offset(i - 1)} ELSE @ \ {Offset(i - 1)}]

\* An input is one bit of the arena.
LEMMA InputBit ==
  ASSUME NEW t, NEW p, Sound(t, p), NEW x \in Arenas(p), NEW i \in InputIds(t), NEW value \in BOOLEAN
  PROVE  /\ WithInput(x, i, value) \in Arenas(p) /\ BitAt(WithInput(x, i, value), i - 1) = value
         /\ \A q \in Nat : q # i - 1 => (BitAt(WithInput(x, i, value), q) <=> BitAt(x, q))
<1>. DEFINE w == WordOf(i - 1)
            l == Offset(i - 1)
            y == WithInput(x, i, value)
<1>1. w \in 0 .. p.words - 1 /\ l \in Lanes /\ i - 1 = WordBits * w + l
  BY InputPlace, PlacedApart DEF PlacedSources
<1>2. x[w] \in SUBSET Lanes
  BY <1>1 DEF Arenas
<1>3. y \in Arenas(p)
  BY <1>1, <1>2 DEF Arenas, WithInput
<1>4. y[w] = (IF value THEN x[w] \cup {l} ELSE x[w] \ {l}) /\ \A v \in 0 .. p.words - 1 : v # w => y[v] = x[v]
  BY <1>1 DEF Arenas, WithInput
<1>5. BitAt(y, i - 1) = value
  BY <1>4 DEF BitAt
<1>6. ASSUME NEW q \in Nat, q # i - 1 PROVE BitAt(y, q) <=> BitAt(x, q)
  <2>1. WordOf(q) = w => Offset(q) # l
    BY <1>1, <1>6, PositionSplit
  <2>2. WordOf(q) # w => y[WordOf(q)] = x[WordOf(q)]
    BY DEF Arenas, WithInput
  <2>. HIDE DEF w, l
  <2>3. CASE WordOf(q) = w
    BY <1>4, <2>1, <2>3 DEF BitAt
  <2>4. CASE WordOf(q) # w
    BY <2>2, <2>4 DEF BitAt
  <2>. QED BY <2>3, <2>4
<1>. QED BY <1>3, <1>5, <1>6

\* Setting an input keeps the invariant: it changes no register and no word
\* that a task of this tick has written.
LEMMA InputPacked ==
  ASSUME PlansBuilt, PackedInv, NEW i \in InputIds(tape), NEW value \in BOOLEAN, set_input(i, value)
  PROVE  PackedInv'
<1>1. tape' = tape /\ plan' = plan /\ pc' = 0 /\ staging' = staging /\ pc = 0
  BY DEF set_input, config
<1>2. Sound(tape, plan) /\ PlanTyped(tape, plan)
  BY ConfigSound DEF PackedInv
<1>3. Configured'
  BY <1>1 DEF PackedInv, Configured
<1>4. TypeOK'
  <2>1. bits \in Arenas(plan)
    BY DEF PackedInv, TypeOK, Arenas
  <2>2. bits' = WithInput(bits, i, value)
    BY DEF set_input, WithInput
  <2>3. bits' \in Arenas(plan)
    BY <1>2, <2>1, <2>2, InputBit
  <2>4. outs' \in [OutputIds(tape) -> BOOLEAN]
    BY <1>2, OutputsRead DEF set_input
  <2>. QED BY <1>1, <2>3, <2>4 DEF PackedInv, TypeOK, Arenas
<1>5. Shown'
  BY <1>1 DEF set_input, Shown
<1>. QED BY <1>1, <1>3, <1>4, <1>5, BetweenCalls

\* The clock edge puts the staged registers where the tasks read them.
LEMMA EdgePacked == ASSUME PlansBuilt, PackedInv, ClockEdge PROVE PackedInv'
<1>1. /\ tape' = tape /\ plan' = plan /\ pc' = 1 /\ staging' = staging /\ outs' = outs
      /\ bits' = CopyIn(plan, bits, staging)
  BY DEF ClockEdge, config
<1>2. Sound(tape, plan) /\ PlanTyped(tape, plan)
  BY ConfigSound DEF PackedInv
<1>3. /\ bits \in Arenas(plan) /\ staging \in Stages(plan.staging_words) /\ outs \in [OutputIds(tape) -> BOOLEAN]
  BY DEF PackedInv, TypeOK, Arenas, Stages
<1>4. \A k \in DOMAIN plan.reg_init : staging[k] \subseteq Lanes
  <2>1. DOMAIN plan.reg_init \subseteq 1 .. plan.staging_words
    BY <1>2 DEF PlanTyped
  <2>. QED BY <1>3, <2>1 DEF Stages
<1>5. /\ bits' \in Arenas(plan)
      /\ \A k \in DOMAIN plan.reg_init : bits'[plan.reg_word + k - 1] = staging[k]
  BY <1>1, <1>2, <1>3, <1>4, CopyInWrites
<1>6. TypeOK'
  <2>1. 1 \in 0 .. Len(plan.tasks) + 1
    BY <1>2 DEF PlanTyped
  <2>. QED BY <1>1, <1>3, <1>5, <2>1 DEF TypeOK, Arenas, Stages
<1>7. ASSUME NEW r \in Registers(tape)
      PROVE  BitAt(bits', plan.pos[tape.reg_out_slots[r]]) <=> Offset(r - 1) \in staging[WordOf(r - 1) + 1]
  <2>. DEFINE s == tape.reg_out_slots[r]
              w == WordOf(r - 1)
  <2>1. /\ WordOf(plan.pos[s]) = plan.reg_word + w /\ Offset(plan.pos[s]) = Offset(r - 1)
        /\ w \in Nat /\ w + 1 \in DOMAIN plan.reg_init
    BY <1>2, RegisterPlace
  <2>2. plan.reg_word + (w + 1) - 1 = plan.reg_word + w
    BY <1>2, <2>1 DEF PlanTyped
  <2>3. bits'[plan.reg_word + w] = staging[w + 1]
    BY <1>5, <2>1, <2>2
  <2>. QED BY <2>1, <2>3 DEF BitAt
<1>8. \A k \in DOMAIN plan.tasks : ~(k < 1)
  BY <1>2 DEF PlanTyped
<1>9. Configured'
  BY <1>1 DEF PackedInv, Configured
<1>10. Latched'
  BY <1>1, <1>7 DEF Latched
<1>11. Shown' /\ Progress'
  BY <1>1, <1>8 DEF Shown, Progress
<1>. QED BY <1>6, <1>9, <1>10, <1>11 DEF PackedInv

\* A task writes its word settled, and no source.
LEMMA TaskWrites ==
  ASSUME PlansBuilt, PackedInv, RunTask
  PROVE  /\ bits' \in Arenas(plan)
         /\ \A s \in Placed(plan) :
              /\ WordOf(plan.pos[s]) = plan.tasks[pc].dst =>
                   (BitAt(bits', plan.pos[s]) <=> Ref(tape, plan, bits)[s])
              /\ WordOf(plan.pos[s]) # plan.tasks[pc].dst =>
                   (BitAt(bits', plan.pos[s]) <=> BitAt(bits, plan.pos[s]))
         /\ \A s \in PlacedSources(tape, plan) :
              BitAt(bits', plan.pos[s]) <=> BitAt(bits, plan.pos[s])
         /\ Ref(tape, plan, bits') = Ref(tape, plan, bits)
<1>. DEFINE task == plan.tasks[pc]
            word == TaskWord(bits, bits, task)
            values == Ref(tape, plan, bits)
<1>1. pc \in DOMAIN plan.tasks /\ bits' = [bits EXCEPT ![task.dst] = word]
  BY DEF RunTask
<1>2. Sound(tape, plan) /\ PlanTyped(tape, plan)
  BY ConfigSound DEF PackedInv
<1>3. bits \in Arenas(plan) /\ task.dst \in 0 .. plan.words - 1
  BY <1>1, <1>2 DEF PackedInv, TypeOK, Arenas, PlanTyped
<1>4. /\ word \subseteq Lanes
      /\ \A s \in Placed(plan) : WordOf(plan.pos[s]) = task.dst =>
           (Offset(plan.pos[s]) \in word <=> values[s])
  BY <1>1, <1>2, <1>3, NextTaskReads, TaskSettles
<1>5. ASSUME NEW s \in PlacedSources(tape, plan) PROVE WordOf(plan.pos[s]) # task.dst
  BY <1>1, <1>2 DEF Sound, PlanContract, WritesPrecedeReads
<1>. HIDE DEF task, word, values
<1>6. /\ bits' \in Arenas(plan) /\ bits'[task.dst] = word
      /\ \A w \in 0 .. plan.words - 1 : w # task.dst => bits'[w] = bits[w]
  BY <1>1, <1>3, <1>4 DEF Arenas
<1>7. ASSUME NEW s \in Placed(plan)
      PROVE  /\ WordOf(plan.pos[s]) = task.dst => (BitAt(bits', plan.pos[s]) <=> values[s])
             /\ WordOf(plan.pos[s]) # task.dst => (BitAt(bits', plan.pos[s]) <=> BitAt(bits, plan.pos[s]))
  <2>1. WordOf(plan.pos[s]) \in 0 .. plan.words - 1
    BY <1>2, PlacedApart
  <2>. QED BY <1>4, <1>6, <2>1 DEF BitAt
<1>8. \A s \in PlacedSources(tape, plan) : BitAt(bits', plan.pos[s]) <=> BitAt(bits, plan.pos[s])
  BY <1>5, <1>7 DEF PlacedSources
<1>9. Ref(tape, plan, bits') = values
  BY <1>8, RefLocal DEF values
<1>. QED BY <1>6, <1>7, <1>8, <1>9 DEF task, values

\* A task keeps the invariant: its own word becomes settled.
LEMMA TaskPacked == ASSUME PlansBuilt, PackedInv, RunTask PROVE PackedInv'
<1>1. /\ tape' = tape /\ plan' = plan /\ pc' = pc + 1 /\ staging' = staging /\ outs' = outs
      /\ pc \in DOMAIN plan.tasks
  BY DEF RunTask, config
<1>2. Sound(tape, plan) /\ PlanTyped(tape, plan)
  BY ConfigSound DEF PackedInv
<1>3. DOMAIN plan.tasks = 1 .. Len(plan.tasks) /\ Len(plan.tasks) \in Nat
  BY <1>2 DEF PlanTyped
<1>4. TypeOK'
  <2>1. bits' \in Arenas(plan)
    BY TaskWrites
  <2>2. pc + 1 \in 0 .. Len(plan.tasks) + 1
    BY <1>1, <1>3
  <2>. QED BY <1>1, <2>1, <2>2 DEF PackedInv, TypeOK, Arenas
<1>5. Latched'
  <2>1. \A r \in Registers(tape) : BitAt(bits, plan.pos[tape.reg_out_slots[r]])
                                       <=> Offset(r - 1) \in staging[WordOf(r - 1) + 1]
    BY <1>1, <1>3 DEF PackedInv, Latched
  <2>2. \A r \in Registers(tape) : tape.reg_out_slots[r] \in PlacedSources(tape, plan)
    BY <1>2, RegisterPlace
  <2>3. \A r \in Registers(tape) : BitAt(bits', plan.pos[tape.reg_out_slots[r]])
                                       <=> Offset(r - 1) \in staging[WordOf(r - 1) + 1]
    BY <2>1, <2>2, TaskWrites
  <2>. QED BY <1>1, <2>3 DEF Latched
<1>6. Progress'
  <2>1. ASSUME NEW k \in DOMAIN plan.tasks, k < pc + 1, NEW s \in Placed(plan),
               WordOf(plan.pos[s]) = plan.tasks[k].dst
        PROVE  BitAt(bits', plan.pos[s]) <=> Ref(tape, plan, bits)[s]
    <3>1. CASE WordOf(plan.pos[s]) = plan.tasks[pc].dst
      BY <3>1, TaskWrites
    <3>2. CASE WordOf(plan.pos[s]) # plan.tasks[pc].dst
      <4>1. k < pc
        BY <1>1, <1>3, <2>1, <3>2
      <4>. QED BY <2>1, <3>2, <4>1, TaskWrites DEF PackedInv, Progress
    <3>. QED BY <3>1, <3>2
  <2>2. Ref(tape, plan, bits') = Ref(tape, plan, bits)
    BY TaskWrites
  <2>. QED BY <1>1, <2>1, <2>2 DEF Progress
<1>7. Configured' /\ Shown'
  BY <1>1, <1>3 DEF PackedInv, Configured, Shown
<1>. QED BY <1>4, <1>5, <1>6, <1>7 DEF PackedInv

\* The end of a tick registers the settled values.
LEMMA CaptureWrites ==
  ASSUME PlansBuilt, PackedInv, Capture
  PROVE  /\ staging' \in Stages(plan.staging_words)
         /\ \A r \in Registers(tape) :
              Offset(r - 1) \in staging'[WordOf(r - 1) + 1] <=> Ref(tape, plan, bits)[tape.reg_in_slots[r]]
<1>1. pc = Len(plan.tasks) + 1 /\ staging' = Written(bits, plan.writes, CapturedInto(plan, bits, staging))
  BY DEF Capture, Captured, CapturedInto
<1>2. Sound(tape, plan) /\ bits \in Arenas(plan) /\ staging \in Stages(plan.staging_words)
  BY ConfigSound DEF PackedInv, TypeOK, Arenas, Stages
<1>. QED BY <1>1, <1>2, CaptureReadsSettled, CaptureSettles

\* The capture keeps the invariant, and leaves the arena as it is.
LEMMA CapturePacked == ASSUME PlansBuilt, PackedInv, Capture PROVE PackedInv'
<1>1. tape' = tape /\ plan' = plan /\ pc' = 0 /\ bits' = bits /\ outs' = PlanOutputs(tape, plan, bits)
  BY DEF Capture, config
<1>2. Sound(tape, plan) /\ PlanTyped(tape, plan)
  BY ConfigSound DEF PackedInv
<1>3. TypeOK'
  <2>1. 0 \in 0 .. Len(plan.tasks) + 1
    BY <1>2 DEF PlanTyped
  <2>2. outs' \in [OutputIds(tape) -> BOOLEAN]
    BY <1>1, <1>2, OutputsRead
  <2>. QED BY <1>1, <2>1, <2>2, CaptureWrites DEF PackedInv, TypeOK, Stages
<1>4. Configured' /\ Shown'
  BY <1>1 DEF PackedInv, Configured, Shown
<1>. QED BY <1>1, <1>3, <1>4, BetweenCalls

\* Every step keeps the invariant.
LEMMA NextPacked == ASSUME PlansBuilt, PackedInv, [Next]_vars PROVE PackedInv'
<1>1. CASE Next
  BY <1>1, InputPacked, ResetPacked, EdgePacked, TaskPacked, CapturePacked DEF Next, TickStep
<1>2. CASE UNCHANGED vars
  BY <1>2 DEF vars, config, PackedInv, Configured, TypeOK, Shown, Latched, Progress
<1>. QED BY <1>1, <1>2

\* After every step the words of the tasks that have run are settled.
THEOREM PackedInvariant == ASSUME PlansBuilt PROVE Spec => []PackedInv
BY InitPacked, NextPacked, PTL DEF Spec

\* "Pad bits hold garbage": the words of the arena and of the staging buffer
\* are words throughout, the task cursor stays in the tick, and every output
\* has a value.
THEOREM TypeCorrect == ASSUME PlansBuilt PROVE Spec => []TypeOK
<1>1. PackedInv => TypeOK
  BY DEF PackedInv
<1>. QED BY <1>1, PackedInvariant, PTL

\* When the last task of a tick has run, every signal that has a place has
\* the value that evaluating the tape gate by gate gives it.
THEOREM Settles == ASSUME PlansBuilt PROVE Spec => []SettledAtCapture
<1>1. ASSUME PackedInv PROVE SettledAtCapture
  <2>. SUFFICES ASSUME pc = Len(plan.tasks) + 1, NEW s \in Placed(plan)
                PROVE  BitAt(bits, plan.pos[s]) = Reference[s]
    BY DEF SettledAtCapture
  <2>1. Sound(tape, plan) /\ s \in Slots(tape)
    BY <1>1, ConfigSound, PlacedApart DEF PackedInv
  <2>2. BitAt(bits, plan.pos[s]) <=> Reference[s]
    BY <1>1, AllSettled, ReferenceIsRef DEF AgreeOn
  <2>3. Reference[s] \in BOOLEAN
    BY <2>1, RefSettled, ReferenceIsRef DEF Buffers
  <2>. QED BY <2>2, <2>3 DEF BitAt
<1>. QED BY <1>1, PackedInvariant, PTL

\* No gather and no memory read of a tick loads a word outside the arena,
\* though gather() indexes unchecked.
THEOREM GathersStayInBounds == ASSUME PlansBuilt PROVE Spec => []GathersInBounds
<1>1. ASSUME PackedInv PROVE GathersInBounds
  BY <1>1, ConfigSound DEF PackedInv, Sound, PlanContract, GathersInBounds
<1>. QED BY <1>1, PackedInvariant, PTL

\* Tasks, the capture and the outputs read places of signals, never the pad
\* bits nor a place that two signals share.
THEOREM SignalsOnlyRead == ASSUME PlansBuilt PROVE Spec => []ReadsOnlySignals
<1>1. ASSUME PackedInv PROVE ReadsOnlySignals
  BY <1>1, ConfigSound DEF PackedInv, Sound, PlanContract, ReadsOnlySignals
<1>. QED BY <1>1, PackedInvariant, PTL

\* Whatever a memory write's address bits are, it patches the cells of that
\* word and no other register, inside the staging buffer.
THEOREM CellsOnlyPatched == ASSUME PlansBuilt PROVE Spec => []PatchesOwnCells
<1>1. ASSUME PackedInv PROVE PatchesOwnCells
  <2>1. Sound(tape, plan) /\ CaptureBuilt(tape, plan)
    BY <1>1, ConfigSound DEF PackedInv, PlansBuilt, Configured, PlanBuilt
  <2>2. Laid(tape, plan) /\ staging \in Stages(plan.staging_words)
    BY <1>1, <2>1, SoundIsLaid DEF PackedInv, TypeOK, Stages
  <2>. QED BY <2>1, <2>2, OwnCells DEF PatchesOwnCells
<1>. QED BY <1>1, PackedInvariant, PTL

-----------------------------------------------------------------------------
(* The engine is a synchronous machine.                                    *)

\* What the engine stands for: the inputs in the arena, the registers in the
\* staging buffer.
InputsIn(t, x) == [i \in InputIds(t) |-> BitAt(x, i - 1)]
StateIn(t, stage) == [r \in Registers(t) |-> Offset(r - 1) \in stage[WordOf(r - 1) + 1]]
AllLow(t) == [i \in InputIds(t) |-> FALSE]

HeldInputs == InputsIn(tape, bits)
StagedState == StateIn(tape, staging)

\* The abstract machine reads a tape as the engine does.
LEMMA SameReading ==
  ASSUME NEW t, NEW v, NEW ins, NEW regs
  PROVE  /\ Abs!InputIds(t) = InputIds(t) /\ Abs!OutputIds(t) = OutputIds(t)
         /\ Abs!Buffers(t) = Buffers(t)
         /\ Abs!OutputsOf(t, v) = OutputsOf(t, v)
         /\ Abs!capture_next(t, v) = capture_next(t, v)
         /\ Abs!initial_values(t) = initial_values(t)
         /\ Abs!Settled(t, v) <=> Settled(t, v)
         /\ Abs!SourcesHold(t, v, ins, regs) <=>
              /\ ConstsHeld(t, v)
              /\ \A i \in InputIds(t) : v[t.input_slots[i]] = ins[i]
              /\ \A r \in Registers(t) : v[t.reg_out_slots[r]] = regs[r]
<1>1. /\ Abs!Slots(t) = Slots(t) /\ Abs!InputIds(t) = InputIds(t)
      /\ Abs!Registers(t) = Registers(t) /\ Abs!OutputIds(t) = OutputIds(t)
      /\ Abs!GateSlots(t) = GateSlots(t)
  BY DEF Abs!Slots, Slots, Abs!slot_count, slot_count, Abs!InputIds, InputIds,
         Abs!Registers, Registers, Abs!OutputIds, OutputIds, Abs!GateSlots, GateSlots
<1>2. Abs!OutputsOf(t, v) = OutputsOf(t, v) /\ Abs!capture_next(t, v) = capture_next(t, v)
  BY <1>1 DEF Abs!OutputsOf, OutputsOf, Abs!capture_next, capture_next
<1>3. Abs!initial_values(t) = initial_values(t)
  BY <1>1 DEF Abs!initial_values, initial_values
<1>4. \A g : Abs!eval_gate(t, v, g) = eval_gate(t, v, g)
  BY DEF Abs!eval_gate, eval_gate, Abs!Apply, Apply, Abs!arity, arity, Abs!Unary, Unary
<1>5. Abs!Settled(t, v) <=> Settled(t, v)
  BY <1>1, <1>4 DEF Abs!Settled, Settled
<1>6. Abs!ConstsHeld(t, v) <=> ConstsHeld(t, v)
  BY DEF Abs!ConstsHeld, ConstsHeld
<1>7. Abs!SourcesHold(t, v, ins, regs) <=>
              /\ ConstsHeld(t, v)
              /\ \A i \in InputIds(t) : v[t.input_slots[i]] = ins[i]
              /\ \A r \in Registers(t) : v[t.reg_out_slots[r]] = regs[r]
  BY <1>1, <1>6 DEF Abs!SourcesHold
<1>8. Abs!Buffers(t) = Buffers(t)
  BY <1>1 DEF Abs!Buffers, Buffers
<1>. QED BY <1>1, <1>2, <1>3, <1>5, <1>7, <1>8

\* A reset engine is a synchronous machine at power-on.
LEMMA ResetRefines ==
  ASSUME NEW t, NEW p, Sound(t, p)
  PROVE  /\ InputsIn(t, PowerOn(p)) = AllLow(t)
         /\ StateIn(t, StagedInit(p)) = t.reg_initial
         /\ PlanOutputs(t, p, PowerOn(p)) = OutputsOf(t, initial_values(t))
<1>. USE DEF Sound
<1>1. AgreeOn(PowerOn(p), p, initial_values(t), Placed(p))
  BY ResetState
<1>2. /\ initial_values(t) \in Buffers(t)
      /\ \A i \in InputIds(t) : initial_values(t)[t.input_slots[i]] = FALSE
  BY InitialSources
<1>3. ASSUME NEW i \in InputIds(t) PROVE BitAt(PowerOn(p), i - 1) = FALSE
  <2>1. t.input_slots[i] \in Placed(p) /\ p.pos[t.input_slots[i]] = i - 1
    BY InputPlace DEF PlacedSources
  <2>2. ~BitAt(PowerOn(p), i - 1)
    BY <1>1, <1>2, <2>1 DEF AgreeOn
  <2>. QED BY <2>2 DEF BitAt
<1>4. StateIn(t, StagedInit(p)) = t.reg_initial
  <2>1. t.reg_initial \in [Registers(t) -> BOOLEAN]
    BY DEF TapeContract, FieldsTyped
  <2>2. \A r \in Registers(t) : Offset(r - 1) \in StagedInit(p)[WordOf(r - 1) + 1] <=> t.reg_initial[r]
    BY ResetState
  <2>3. \A r \in Registers(t) : (Offset(r - 1) \in StagedInit(p)[WordOf(r - 1) + 1]) = t.reg_initial[r]
    BY <2>1, <2>2
  <2>. QED BY <2>1, <2>3 DEF StateIn
<1>5. PlanOutputs(t, p, PowerOn(p)) = OutputsOf(t, initial_values(t))
  <2>1. ASSUME NEW s \in Slots(t), IsConstSlot(t, s) PROVE initial_values(t)[s] = IsTrueSlot(t, s)
    <3>1. \A r \in Registers(t) : t.reg_out_slots[r] # s
      BY <2>1 DEF IsConstSlot, TapeContract, SourcesDisjoint
    <3>. QED BY <3>1 DEF initial_values, IsTrueSlot
  <2>. QED BY <1>1, <1>2, <2>1, OutputsRead
<1>. QED BY <1>3, <1>4, <1>5 DEF InputsIn, AllLow

\* At power-on the engine is the machine at power-on.
LEMMA InitRefines == ASSUME PlansBuilt, Init PROVE Abs!PoweredOn
<1>1. Sound(tape, plan)
  BY ConfigSound DEF Init, Configured
<1>2. HeldInputs = AllLow(tape) /\ StagedState = tape.reg_initial
  BY <1>1, ResetRefines DEF Init, HeldInputs, StagedState
<1>3. outs = OutputsOf(tape, initial_values(tape))
  BY <1>1, ResetRefines DEF Init
<1>. QED BY <1>2, <1>3, SameReading DEF Abs!PoweredOn, Abs!Low, Abs!PowerOnOutputs, HeldInputs, StagedState, InputsIn, StateIn, AllLow

\* A reset is the machine's.
LEMMA ResetStep == ASSUME PlansBuilt, PackedInv, reset PROVE Abs!Reset
<1>1. Sound(tape, plan) /\ tape' = tape
  BY ConfigSound DEF PackedInv, reset, config
<1>2. HeldInputs' = AllLow(tape) /\ StagedState' = tape.reg_initial
  BY <1>1, ResetRefines DEF reset, HeldInputs, StagedState
<1>3. outs' = OutputsOf(tape, initial_values(tape))
  BY <1>1, ResetRefines DEF reset
<1>. QED BY <1>1, <1>2, <1>3, SameReading DEF Abs!Reset, Abs!Low, Abs!PowerOnOutputs, HeldInputs, StagedState, InputsIn, StateIn, AllLow

\* An output wired straight to an input follows it, and no other changes.
LEMMA InputStep ==
  ASSUME PlansBuilt, PackedInv, NEW i \in InputIds(tape), NEW value \in BOOLEAN, set_input(i, value)
  PROVE  Abs!SetInput(i, value)
<1>1. /\ Sound(tape, plan) /\ bits \in Arenas(plan) /\ tape' = tape /\ plan' = plan /\ staging' = staging
      /\ bits' = WithInput(bits, i, value) /\ outs' = PlanOutputs(tape, plan, bits')
      /\ outs = PlanOutputs(tape, plan, bits)
  BY ConfigSound DEF PackedInv, TypeOK, Arenas, Shown, set_input, config, WithInput
<1>2. /\ BitAt(bits', i - 1) = value
      /\ \A q \in Nat : q # i - 1 => (BitAt(bits', q) <=> BitAt(bits, q))
  BY <1>1, InputBit
<1>3. HeldInputs' = [HeldInputs EXCEPT ![i] = value]
  <2>1. ASSUME NEW j \in InputIds(tape), j # i PROVE BitAt(bits', j - 1) = BitAt(bits, j - 1)
    <3>1. j - 1 \in Nat /\ j - 1 # i - 1
      BY <2>1 DEF InputIds
    <3>. QED BY <1>2, <3>1 DEF BitAt
  <2>. QED BY <1>1, <1>2, <2>1 DEF HeldInputs, InputsIn
<1>4. StagedState' = StagedState
  BY <1>1 DEF StagedState, StateIn
<1>5. outs' = [o \in OutputIds(tape) |->
                 IF tape.output_slots[o] = tape.input_slots[i] THEN value ELSE outs[o]]
  <2>1. ASSUME NEW o \in OutputIds(tape)
        PROVE  output(tape, plan, bits', o) =
                 IF tape.output_slots[o] = tape.input_slots[i] THEN value ELSE output(tape, plan, bits, o)
    <3>. DEFINE s == tape.output_slots[o]
    <3>1. /\ tape.input_slots[i] \in Placed(plan) /\ plan.pos[tape.input_slots[i]] = i - 1
          /\ ~IsConstSlot(tape, tape.input_slots[i])
      BY <1>1, InputPlace, PlacedApart DEF PlacedSources
    <3>2. CASE IsConstSlot(tape, s)
      BY <3>1, <3>2 DEF output
    <3>3. CASE ~IsConstSlot(tape, s) /\ s = tape.input_slots[i]
      BY <1>2, <3>1, <3>3 DEF output
    <3>4. CASE ~IsConstSlot(tape, s) /\ s # tape.input_slots[i]
      <4>1. s \in Placed(plan)
        BY <1>1, <3>4 DEF Sound, PlanContract, ReadsSignals
      <4>2. plan.pos[s] \in Nat /\ plan.pos[s] # i - 1
        BY <1>1, <3>1, <3>4, <4>1, PlacedApart
      <4>3. BitAt(bits', plan.pos[s]) = BitAt(bits, plan.pos[s])
        BY <1>2, <4>2 DEF BitAt
      <4>. QED BY <3>4, <4>3 DEF output
    <3>. QED BY <3>2, <3>3, <3>4
  <2>. QED BY <1>1, <2>1 DEF PlanOutputs
<1>. QED BY <1>1, <1>3, <1>4, <1>5, SameReading DEF Abs!SetInput, HeldInputs, StagedState, InputsIn, StateIn

\* The end of a tick is a cycle of the synchronous machine.
LEMMA CaptureStep == ASSUME PlansBuilt, PackedInv, Capture PROVE pc # 0 /\ pc' = 0 /\ Abs!TickOn(Reference)
<1>. DEFINE values == Ref(tape, plan, bits)
<1>1. /\ Sound(tape, plan) /\ PlanTyped(tape, plan) /\ bits \in Arenas(plan)
      /\ tape' = tape /\ bits' = bits /\ pc' = 0 /\ outs' = PlanOutputs(tape, plan, bits)
      /\ pc = Len(plan.tasks) + 1
  BY ConfigSound DEF PackedInv, TypeOK, Arenas, Capture, config
<1>2. pc # 0
  BY <1>1 DEF PlanTyped
<1>3. /\ values \in Buffers(tape) /\ Settled(tape, values) /\ ConstsHeld(tape, values)
      /\ \A s \in PlacedSources(tape, plan) : values[s] <=> BitAt(bits, plan.pos[s])
      /\ \A s \in Slots(tape) : IsConstSlot(tape, s) => values[s] = IsTrueSlot(tape, s)
  BY <1>1, RefSettled
<1>4. AgreeOn(bits, plan, values, Placed(plan))
  BY <1>1, AllSettled
<1>5. ASSUME NEW r \in Registers(tape)
      PROVE  Offset(r - 1) \in staging'[WordOf(r - 1) + 1] <=> values[tape.reg_in_slots[r]]
  BY CaptureWrites
<1>. HIDE DEF values
<1>6. ASSUME NEW i \in InputIds(tape) PROVE values[tape.input_slots[i]] = HeldInputs[i]
  <2>1. tape.input_slots[i] \in PlacedSources(tape, plan) /\ plan.pos[tape.input_slots[i]] = i - 1
    BY <1>1, InputPlace
  <2>2. values[tape.input_slots[i]] \in BOOLEAN
    BY <1>1, <1>3 DEF Sound, TapeContract, FieldsTyped, Buffers
  <2>3. values[tape.input_slots[i]] <=> BitAt(bits, i - 1)
    BY <1>3, <2>1
  <2>4. values[tape.input_slots[i]] = BitAt(bits, i - 1)
    BY <2>2, <2>3 DEF BitAt
  <2>. QED BY <2>4 DEF HeldInputs, InputsIn
<1>7. ASSUME NEW r \in Registers(tape) PROVE values[tape.reg_out_slots[r]] = StagedState[r]
  <2>1. tape.reg_out_slots[r] \in PlacedSources(tape, plan)
    BY <1>1, RegisterPlace
  <2>2. values[tape.reg_out_slots[r]] \in BOOLEAN
    BY <1>1, <1>3 DEF Sound, TapeContract, FieldsTyped, Buffers
  <2>3. BitAt(bits, plan.pos[tape.reg_out_slots[r]]) <=> Offset(r - 1) \in staging[WordOf(r - 1) + 1]
    BY <1>2 DEF PackedInv, Latched
  <2>4. values[tape.reg_out_slots[r]] = (Offset(r - 1) \in staging[WordOf(r - 1) + 1])
    BY <1>3, <2>1, <2>2, <2>3
  <2>. QED BY <2>4 DEF StagedState, StateIn
<1>8. StagedState' = capture_next(tape, values)
  <2>1. \A r \in Registers(tape) : values[tape.reg_in_slots[r]] \in BOOLEAN
    BY <1>1, <1>3 DEF Sound, TapeContract, FieldsTyped, Buffers
  <2>2. \A r \in Registers(tape) :
          (Offset(r - 1) \in staging'[WordOf(r - 1) + 1]) = values[tape.reg_in_slots[r]]
    BY <1>5, <2>1
  <2>. QED BY <1>1, <2>2 DEF StagedState, StateIn, capture_next
<1>9. HeldInputs' = HeldInputs
  BY <1>1 DEF HeldInputs, InputsIn
<1>10. outs' = OutputsOf(tape, values)
  BY <1>1, <1>3, <1>4, OutputsRead
<1>11. Reference = values
  BY ReferenceIsRef DEF values
<1>12. Abs!SourcesHold(tape, values, HeldInputs, StagedState)
  BY <1>3, <1>6, <1>7, SameReading
<1>13. Abs!TickOn(values)
  BY <1>1, <1>3, <1>8, <1>9, <1>10, <1>12, SameReading DEF Abs!TickOn, HeldInputs, StagedState, InputsIn, StateIn
<1>. QED BY <1>1, <1>2, <1>11, <1>13

\* The clock edge and the tasks show the caller nothing.
LEMMA QuietStep ==
  ASSUME PlansBuilt, PackedInv, ClockEdge \/ RunTask \/ UNCHANGED vars
  PROVE  UNCHANGED Abs!syncVars
<1>1. Sound(tape, plan) /\ bits \in Arenas(plan) /\ staging \in Stages(plan.staging_words)
  BY ConfigSound DEF PackedInv, TypeOK, Arenas, Stages
<1>2. tape' = tape /\ plan' = plan /\ staging' = staging /\ outs' = outs
  BY DEF ClockEdge, RunTask, vars, config
<1>3. ASSUME NEW i \in InputIds(tape) PROVE BitAt(bits', i - 1) <=> BitAt(bits, i - 1)
  <2>. DEFINE s == tape.input_slots[i]
  <2>1. /\ s \in PlacedSources(tape, plan) /\ s \in Placed(plan) /\ plan.pos[s] = i - 1
        /\ \A r \in Registers(tape) : tape.reg_out_slots[r] # s
    BY <1>1, InputPlace DEF PlacedSources
  <2>. HIDE DEF s
  <2>2. CASE ClockEdge
    <3>1. bits' = CopyIn(plan, bits, staging)
      BY <2>2 DEF ClockEdge
    <3>2. \A k \in DOMAIN plan.reg_init : staging[k] \subseteq Lanes
      <4>1. DOMAIN plan.reg_init \subseteq 1 .. plan.staging_words
        BY <1>1 DEF Sound, PlanContract, PlanTyped
      <4>. QED BY <1>1, <4>1 DEF Stages
    <3>. QED BY <1>1, <2>1, <3>1, <3>2, CopyInWrites
  <2>3. CASE RunTask
    BY <2>1, <2>3, TaskWrites
  <2>4. CASE UNCHANGED vars
    BY <2>4 DEF vars
  <2>. QED BY <2>2, <2>3, <2>4
<1>4. HeldInputs' = HeldInputs
  <2>1. \A i \in InputIds(tape) : BitAt(bits', i - 1) = BitAt(bits, i - 1)
    BY <1>3 DEF BitAt
  <2>. QED BY <1>2, <2>1 DEF HeldInputs, InputsIn
<1>5. StagedState' = StagedState
  BY <1>2 DEF StagedState
<1>. QED BY <1>2, <1>4, <1>5 DEF Abs!syncVars, HeldInputs, StagedState, InputsIn, StateIn

\* Every step is one of the synchronous machine, or nothing to the caller.
LEMMA StepRefines == ASSUME PlansBuilt, PackedInv, [Next]_vars PROVE [AbsNext]_(Abs!syncVars)
<1>1. CASE \E i \in InputIds(tape), value \in BOOLEAN : set_input(i, value)
  BY <1>1, InputStep DEF AbsNext
<1>2. CASE reset
  BY <1>2, ResetStep DEF AbsNext
<1>3. CASE Capture
  BY <1>3, CaptureStep DEF AbsNext
<1>4. CASE ClockEdge \/ RunTask \/ UNCHANGED vars
  BY <1>4, QuietStep
<1>. QED BY <1>1, <1>2, <1>3, <1>4 DEF Next, TickStep

\* "Bit-for-bit identical to every other engine": the constructor returns a
\* synchronous machine at power-on, and its calls are those of that machine,
\* on whatever words, gathers, chains and memories the plan is made of.
THEOREM Refinement == ASSUME PlansBuilt PROVE Spec => ImplementsSync
BY PackedInvariant, InitRefines, StepRefines, PTL DEF Spec, ImplementsSync

\* A cycle on the computed reference is a cycle of the synchronous machine.
LEMMA CycleIsTick ==
  ASSUME PlansBuilt, PackedInv, [AbsNext]_(Abs!syncVars)
  PROVE  [Abs!Next]_(Abs!syncVars)
<1>. SUFFICES ASSUME AbsNext PROVE Abs!Next
  BY DEF Abs!syncVars
<1>1. CASE \E i \in InputIds(tape), value \in BOOLEAN : Abs!SetInput(i, value)
  BY <1>1, SameReading DEF Abs!Next
<1>2. CASE Abs!TickOn(Reference)
  <2>1. Sound(tape, plan)
    BY ConfigSound DEF PackedInv
  <2>2. Reference \in Abs!Buffers(tape)
    BY <2>1, RefSettled, ReferenceIsRef, SameReading
  <2>. QED BY <1>2, <2>2 DEF Abs!Tick, Abs!Next
<1>3. CASE Abs!Reset
  BY <1>3 DEF Abs!Next
<1>. QED BY <1>1, <1>2, <1>3 DEF AbsNext

\* The packed engine implements the specification of the engines.
THEOREM ImplementsEngine == ASSUME PlansBuilt PROVE Spec => Abs!Spec
<1>1. Init => Abs!Init
  BY InitRefines DEF Init, Abs!Init
<1>. QED BY <1>1, PackedInvariant, Refinement, CycleIsTick, PTL DEF Spec, ImplementsSync, Abs!Spec

-----------------------------------------------------------------------------
(* The packed JIT.                                                         *)

\* A variable holds a word of the arena, and between calls there is none.
CacheInv == CacheCoherent /\ DOMAIN cache \subseteq DOMAIN bits /\ (pc = 0 => cache = NoWords)

JitInv == PackedInv /\ CacheInv

\* The code sees the arena as it is.
LEMMA ViewIsArena == ASSUME JitInv PROVE View = bits
<1>1. \A w \in DOMAIN Known : Known[w] = bits[w]
  BY DEF JitInv, CacheInv, CacheCoherent, Known, NoWords
<1>2. bits = [w \in DOMAIN bits |-> bits[w]]
  BY DEF JitInv, PackedInv, TypeOK
<1>. QED BY <1>1, <1>2 DEF View

\* What a task loads is in the arena.
LEMMA TaskLoadsArena ==
  ASSUME PlansBuilt, PackedInv, NEW k \in DOMAIN plan.tasks
  PROVE  TaskLoads(plan.tasks[k]) \subseteq DOMAIN bits /\ plan.tasks[k].dst \in DOMAIN bits
<1>. DEFINE task == plan.tasks[k]
<1>1. Sound(tape, plan) /\ PlanTyped(tape, plan) /\ DOMAIN bits = 0 .. plan.words - 1
  BY ConfigSound DEF PackedInv, TypeOK
<1>2. ASSUME NEW i \in 1 .. 3 PROVE Loads(task.streams[i]) \subseteq 0 .. plan.words - 1
  <2>. DEFINE stream == task.streams[i]
  <2>1. stream \in StreamsOf(plan)
    BY DEF StreamsOf
  <2>2. ASSUME NEW seg \in stream.funnels \cup stream.splats
        PROVE  WordOf(seg.src) \in 0 .. plan.words - 1 /\ WordOf(seg.src) + 1 \in 0 .. plan.words - 1
    <3>1. seg.src \in Nat /\ InBounds(plan, seg.src) /\ plan.words \in Nat
      BY <1>1, <2>1, <2>2 DEF PlanTyped, StreamTyped, Sound, PlanContract, LoadsInBounds
    <3>2. WordOf(seg.src) \in Nat
      BY <3>1, PositionSplit
    <3>. QED BY <3>1, <3>2 DEF InBounds
  <2>. HIDE DEF stream
  <2>3. Loads(stream) \subseteq 0 .. plan.words - 1
    BY <2>2 DEF Loads
  <2>. QED BY <2>3 DEF stream
<1>3. ASSUME NEW q \in ToSet(task.read.addr_pos) PROVE WordOf(q) \in 0 .. plan.words - 1
  <2>1. q \in TaskReads(task)
    BY DEF TaskReads
  <2>2. PICK s \in Placed(plan) : q = plan.pos[s]
    BY <1>1, <2>1 DEF Sound, PlanContract, ReadsSignals
  <2>. QED BY <1>1, <2>2, PlacedApart
<1>4. task.dst \in 0 .. plan.words - 1
  BY <1>1 DEF PlanTyped
<1>. HIDE DEF task
<1>5. TaskLoads(task) \subseteq 0 .. plan.words - 1
  BY <1>2, <1>3 DEF TaskLoads
<1>. QED BY <1>1, <1>4, <1>5 DEF task

\* A native task is a task of the packed engine, and leaves the variables
\* holding what the arena does.
LEMMA JitTaskRuns == ASSUME PlansBuilt, JitInv, JitTask PROVE RunTask /\ CacheInv'
<1>. DEFINE task == plan.tasks[pc]
            word == TaskWord(View, bits, task)
            loads == TaskLoads(task) \cup {task.dst}
<1>1. /\ pc \in DOMAIN plan.tasks /\ bits' = [bits EXCEPT ![task.dst] = word] /\ pc' = pc + 1
      /\ cache' = [Caching(loads) EXCEPT ![task.dst] = word]
  BY DEF JitTask
<1>2. RunTask
  BY ViewIsArena DEF JitTask, RunTask
<1>3. View = bits
  BY ViewIsArena
<1>4. loads \subseteq DOMAIN bits /\ task.dst \in loads
  BY <1>1, TaskLoadsArena DEF JitInv
<1>5. DOMAIN Known \subseteq DOMAIN bits
  BY DEF JitInv, CacheInv, Known, NoWords
<1>6. pc' # 0
  BY <1>1, ConfigSound DEF JitInv, PackedInv, PlanTyped
<1>. HIDE DEF task, word, loads
<1>7. /\ DOMAIN cache' = DOMAIN Known \cup loads
      /\ \A w \in DOMAIN cache' : cache'[w] = IF w = task.dst THEN word ELSE bits[w]
  BY <1>1, <1>3, <1>4 DEF Caching
<1>8. /\ DOMAIN bits' = DOMAIN bits
      /\ \A w \in DOMAIN bits : bits'[w] = IF w = task.dst THEN word ELSE bits[w]
  BY <1>1
<1>. QED BY <1>2, <1>4, <1>5, <1>6, <1>7, <1>8 DEF CacheInv, CacheCoherent

\* The invariant of the native code holds at power-on, with an empty cache.
LEMMA InitJit == ASSUME PlansBuilt, JitInit PROVE JitInv
BY InitPacked DEF JitInit, JitInv, CacheInv, CacheCoherent, NoWords

\* Every step of the native code is one of the packed engine.
LEMMA JitSteps == ASSUME PlansBuilt, JitInv, [JitNext]_jitVars PROVE JitInv' /\ [Next]_vars
<1>1. CASE JitTask
  <2>1. RunTask /\ CacheInv'
    BY <1>1, JitTaskRuns
  <2>. QED BY <2>1, TaskPacked DEF JitInv, Next, TickStep
<1>2. CASE JitCapture
  <2>1. Capture
    BY <1>2, ViewIsArena DEF JitCapture, Capture
  <2>2. CacheInv'
    BY <1>2 DEF JitCapture, CacheInv, CacheCoherent, NoWords
  <2>. QED BY <2>1, <2>2, CapturePacked DEF JitInv, Next, TickStep
<1>3. CASE /\ \/ \E i \in InputIds(tape), value \in BOOLEAN : set_input(i, value)
              \/ reset
              \/ ClockEdge
           /\ UNCHANGED cache
  <2>1. Next
    BY <1>3 DEF Next
  <2>2. PackedInv'
    BY <2>1, NextPacked DEF JitInv
  <2>3. cache' = NoWords
    BY <1>3 DEF set_input, reset, ClockEdge, JitInv, CacheInv
  <2>4. CacheInv'
    BY <2>3 DEF CacheInv, CacheCoherent, NoWords
  <2>. QED BY <2>1, <2>2, <2>4 DEF JitInv
<1>4. CASE UNCHANGED jitVars
  <2>1. UNCHANGED vars /\ cache' = cache
    BY <1>4 DEF jitVars
  <2>2. PackedInv'
    BY <2>1, NextPacked DEF JitInv
  <2>3. CacheInv'
    BY <2>1 DEF JitInv, CacheInv, CacheCoherent, vars
  <2>. QED BY <2>1, <2>2, <2>3 DEF JitInv
<1>. QED BY <1>1, <1>2, <1>3, <1>4 DEF JitNext, JitStep

\* The packed invariant and a coherent cache, always.
THEOREM JitInvariant == ASSUME PlansBuilt PROVE JitSpec => []JitInv
BY InitJit, JitSteps, PTL DEF JitSpec

\* "Caching the loaded/stored value per word can never observe a stale
\* state", for any number of tasks per function: also a word loaded before
\* its own task had run.
THEOREM CacheNeverStale == ASSUME PlansBuilt PROVE JitSpec => []CacheCoherent
<1>1. JitInv => CacheCoherent
  BY DEF JitInv, CacheInv
<1>. QED BY <1>1, JitInvariant, PTL

\* The native code takes the steps of the packed engine.
THEOREM JitIsPacked == ASSUME PlansBuilt PROVE JitSpec => Init /\ [][Next]_vars
<1>1. JitInit => Init
  BY DEF JitInit
<1>. QED BY <1>1, JitSteps, JitInvariant, PTL DEF JitSpec

\* And so it is the same synchronous machine.
THEOREM JitRefinement == ASSUME PlansBuilt PROVE JitSpec => ImplementsSync
<1>1. Init /\ [][Next]_vars => []PackedInv
  BY InitPacked, NextPacked, PTL
<1>. QED BY <1>1, JitIsPacked, InitRefines, StepRefines, PTL DEF ImplementsSync

-----------------------------------------------------------------------------
(* Links of a tape.                                                        *)

\* xor_of finds an exclusive or gate over its operands.
LEMMA XorGate ==
  ASSUME NEW t, TapeContract(t), NEW x, NEW y, XorOf(t, x, y) # NoSlot
  PROVE  /\ XorOf(t, x, y) \in GateSlots(t) /\ t.ops[XorOf(t, x, y)] = "Xor"
         /\ {t.a[XorOf(t, x, y)], t.b[XorOf(t, x, y)]} = {x, y}
<1>. DEFINE xors == {s \in GateSlots(t) : t.ops[s] = "Xor" /\ {t.a[s], t.b[s]} = {x, y}}
<1>1. xors # {} /\ XorOf(t, x, y) = Min(xors)
  <2>1. xors = {s \in GatesOf(t, "Xor") : {t.a[s], t.b[s]} = {x, y}}
    BY DEF GatesOf
  <2>. QED BY <2>1 DEF XorOf
<1>2. xors \in SUBSET Nat
  BY SlotKinds DEF Slots
<1>3. \E m \in xors : \A n \in xors : m <= n
  <2>. HIDE DEF xors
  <2>. QED BY <1>1, <1>2, LeastMember
<1>4. Min(xors) \in xors
  <2>. HIDE DEF xors
  <2>. QED BY <1>3 DEF Min
<1>. QED BY <1>1, <1>4

LinkRecords ==
  [p : Nat, q : Nat, pxq : Nat, g : Nat, prop : Nat, carry : Nat, sum : Nat, cin : Nat,
   ext_pxq : BOOLEAN, ext_g : BOOLEAN]

\* The gates of a link, and the gates that read its operands.
LinkShaped(t, link) ==
  /\ link \in LinkRecords /\ IsLink(t, link)
  /\ link.carry \in GateSlots(t) /\ link.p \in Slots(t) /\ link.cin \in Slots(t)
  /\ link.sum # NoSlot => link.sum \in GateSlots(t) /\ t.ops[link.sum] = "Xor"
  /\ IsFull(link) =>
       /\ {link.pxq, link.g, link.prop} \subseteq GateSlots(t) /\ link.q \in Slots(t)
       /\ t.ops[link.pxq] = "Xor" /\ t.ops[link.g] = "And" /\ t.ops[link.carry] = "Or"
       /\ t.ops[link.prop] = "And" /\ link.sum # link.pxq
       /\ {link.p, link.q} \subseteq OperandsOf(t, link.g) /\ link.cin \in OperandsOf(t, link.prop)
  /\ ~IsFull(link) =>
       /\ link.q = NoSlot /\ link.pxq = NoSlot /\ link.g = NoSlot /\ link.prop = NoSlot
       /\ t.ops[link.carry] = "And" /\ {link.p, link.cin} \subseteq OperandsOf(t, link.carry)

\* A slot whose operation is not Buf is a gate, and reads two slots if the
\* operation is binary.
LEMMA BinaryGate ==
  ASSUME NEW t, TapeContract(t), NEW s \in Slots(t), t.ops[s] \in {"And", "Or", "Xor"}
  PROVE  s \in GateSlots(t) /\ OperandsOf(t, s) = {t.a[s], t.b[s]} /\ t.a[s] \in Slots(t) /\ t.b[s] \in Slots(t)
<1>1. s \in GateSlots(t)
  BY DEF TapeContract, SourcesNamed, Sources
<1>2. arity(t.ops[s]) = 2
  BY DEF arity, Unary
<1>3. t.a[s] \in Slots(t) /\ t.b[s] \in Slots(t)
  BY DEF TapeContract, FieldsTyped
<1>. QED BY <1>1, <1>2, <1>3 DEF OperandsOf

\* A matched full adder is a link.
LEMMA FullShaped ==
  ASSUME NEW t, TapeContract(t), NEW s \in GateSlots(t), t.ops[s] = "Or", NEW g, NEW prop,
         (g = t.a[s] /\ prop = t.b[s]) \/ (g = t.b[s] /\ prop = t.a[s]), NEW link \in full_link(t, g, prop, s)
  PROVE  LinkShaped(t, link) /\ link.carry = s /\ IsFull(link)
<1>. DEFINE p == t.a[g]
            q == t.b[g]
            pxq == XorOf(t, p, q)
            cin == IF t.a[prop] = pxq THEN t.b[prop] ELSE t.a[prop]
            sum == XorOf(t, pxq, cin)
<1>1. /\ link = Link(p, q, pxq, g, prop, s, sum, cin) /\ t.ops[g] = "And" /\ t.ops[prop] = "And"
      /\ pxq # NoSlot /\ pxq \in {t.a[prop], t.b[prop]}
  BY DEF full_link
<1>2. s \in Slots(t) /\ g \in Slots(t) /\ prop \in Slots(t) /\ Slots(t) \subseteq Nat \ {NoSlot}
  <2>1. s \in Slots(t) /\ Slots(t) \subseteq Nat \ {NoSlot}
    BY SlotKinds DEF Slots, NoSlot
  <2>2. t.a[s] \in Slots(t) /\ t.b[s] \in Slots(t)
    BY <2>1 DEF TapeContract, FieldsTyped
  <2>. QED BY <2>1, <2>2
<1>3. /\ g \in GateSlots(t) /\ OperandsOf(t, g) = {p, q} /\ p \in Slots(t) /\ q \in Slots(t)
      /\ prop \in GateSlots(t) /\ OperandsOf(t, prop) = {t.a[prop], t.b[prop]}
      /\ t.a[prop] \in Slots(t) /\ t.b[prop] \in Slots(t)
  BY <1>1, <1>2, BinaryGate
<1>4. pxq \in GateSlots(t) /\ t.ops[pxq] = "Xor"
  BY <1>1, XorGate
<1>5. cin \in Slots(t) /\ cin \in OperandsOf(t, prop)
  BY <1>3
<1>6. sum # NoSlot => sum \in GateSlots(t) /\ t.ops[sum] = "Xor" /\ sum # pxq
  <2>1. ASSUME sum # NoSlot PROVE sum \in GateSlots(t) /\ t.ops[sum] = "Xor" /\ sum # pxq
    <3>1. sum \in GateSlots(t) /\ t.ops[sum] = "Xor" /\ {t.a[sum], t.b[sum]} = {pxq, cin}
      BY <2>1, XorGate
    <3>2. OperandsOf(t, sum) = {t.a[sum], t.b[sum]}
      BY <3>1, SlotKinds, BinaryGate
    <3>3. pxq < sum
      BY <3>1, <3>2 DEF TapeContract, OperandsBelow
    <3>4. sum \in Nat
      BY <3>1, SlotKinds, <1>2
    <3>. QED BY <3>1, <3>3, <3>4
  <2>. QED BY <2>1
<1>7. GateSlots(t) \subseteq Slots(t)
  BY SlotKinds
<1>. HIDE DEF p, q, pxq, cin, sum
<1>8. sum \in Nat /\ (sum = pxq => FALSE)
  <2>1. NoSlot \in Nat
    BY DEF NoSlot
  <2>. QED BY <1>1, <1>2, <1>6, <1>7, <2>1
<1>9. /\ link.p = p /\ link.q = q /\ link.pxq = pxq /\ link.g = g /\ link.prop = prop /\ link.carry = s
      /\ link.sum = sum /\ link.cin = cin /\ link.ext_pxq = FALSE /\ link.ext_g = FALSE
  BY <1>1 DEF Link
<1>10. link \in LinkRecords
  <2>1. {p, q, pxq, g, prop, s, sum, cin} \subseteq Nat
    BY <1>2, <1>3, <1>4, <1>5, <1>7, <1>8
  <2>. QED BY <1>1, <2>1 DEF Link, LinkRecords
<1>11. IsFull(link)
  BY <1>2, <1>9 DEF IsFull
<1>12. IsLink(t, link)
  <2>1. link_gates(link) \cup {s} \subseteq GateSlots(t)
    BY <1>3, <1>4, <1>6, <1>9 DEF link_gates
  <2>2. link = [link EXCEPT !.ext_pxq = link.ext_pxq, !.ext_g = link.ext_g]
    BY <1>10 DEF LinkRecords
  <2>. DEFINE full == full_link(t, t.a[s], t.b[s], s) \cup full_link(t, t.b[s], t.a[s], s)
  <2>3. link \in full
    OBVIOUS
  <2>4. \E bare \in full : link = [bare EXCEPT !.ext_pxq = link.ext_pxq, !.ext_g = link.ext_g]
    <3>. HIDE DEF full
    <3>. QED BY <2>2, <2>3
  <2>. HIDE DEF full
  <2>. QED BY <1>9, <2>1, <2>4 DEF IsLink, full
<1>. QED BY <1>1, <1>3, <1>4, <1>5, <1>6, <1>8, <1>9, <1>10, <1>11, <1>12 DEF LinkShaped

\* An And gate with either operand as carry-in is a link.
LEMMA IncShaped ==
  ASSUME NEW t, TapeContract(t), NEW s \in GateSlots(t), t.ops[s] = "And", NEW p, NEW cin,
         (p = t.a[s] /\ cin = t.b[s]) \/ (p = t.b[s] /\ cin = t.a[s])
  PROVE  LET link == inc_link(t, p, cin, s) IN
         LinkShaped(t, link) /\ link.carry = s /\ ~IsFull(link) /\ link.cin = cin
<1>. DEFINE sum == XorOf(t, p, cin)
            link == inc_link(t, p, cin, s)
<1>1. link = Link(p, NoSlot, NoSlot, NoSlot, NoSlot, s, sum, cin)
  BY DEF inc_link
<1>2. s \in Slots(t) /\ Slots(t) \subseteq Nat /\ GateSlots(t) \subseteq Slots(t) /\ NoSlot \in Nat
  BY SlotKinds DEF Slots, NoSlot
<1>3. OperandsOf(t, s) = {t.a[s], t.b[s]} /\ t.a[s] \in Slots(t) /\ t.b[s] \in Slots(t)
  BY <1>2, BinaryGate
<1>4. sum # NoSlot => sum \in GateSlots(t) /\ t.ops[sum] = "Xor"
  BY XorGate
<1>. HIDE DEF sum
<1>5. /\ link.p = p /\ link.q = NoSlot /\ link.pxq = NoSlot /\ link.g = NoSlot /\ link.prop = NoSlot
      /\ link.carry = s /\ link.sum = sum /\ link.cin = cin /\ link.ext_pxq = FALSE /\ link.ext_g = FALSE
  BY <1>1 DEF Link
<1>6. link \in LinkRecords
  <2>1. {p, s, sum, cin, NoSlot} \subseteq Nat
    BY <1>2, <1>3, <1>4
  <2>. QED BY <1>1, <2>1 DEF Link, LinkRecords
<1>7. ~IsFull(link)
  BY <1>5 DEF IsFull
<1>8. IsLink(t, link)
  <2>1. link_gates(link) \cup {s} \subseteq GateSlots(t)
    BY <1>4, <1>5 DEF link_gates
  <2>2. link = [link EXCEPT !.ext_pxq = link.ext_pxq, !.ext_g = link.ext_g]
    BY <1>6 DEF LinkRecords
  <2>. DEFINE inc == {inc_link(t, t.a[s], t.b[s], s), inc_link(t, t.b[s], t.a[s], s)}
  <2>3. link \in inc
    OBVIOUS
  <2>. HIDE DEF inc, link
  <2>4. \E bare \in inc : link = [bare EXCEPT !.ext_pxq = link.ext_pxq, !.ext_g = link.ext_g]
    BY <2>2, <2>3
  <2>. QED BY <1>5, <2>1, <2>4 DEF IsLink, inc
<1>. HIDE DEF link
<1>9. LinkShaped(t, link)
  BY <1>3, <1>4, <1>5, <1>6, <1>7, <1>8 DEF LinkShaped
<1>. QED BY <1>5, <1>7, <1>9 DEF link

\* The links of a tape, as try_chain gets them.
LinksOf(t) == {link \in LinkRecords : LinkShaped(t, link)}

\* A set with one member or none, as a sequence.
LEMMA FewToSeq ==
  ASSUME NEW V, NEW S \in SUBSET V, NEW x, S = {} \/ S = {x}
  PROVE  /\ SetToSeq(S) \in Seq(V)
         /\ S = {} => SetToSeq(S) = <<>>
         /\ S = {x} => SetToSeq(S) = <<x>>
<1>1. CASE S = {}
  <2>1. Cardinality(S) = 0
    BY <1>1, FS_EmptySet
  <2>2. \A f \in [1 .. 0 -> S] : f = <<>>
    OBVIOUS
  <2>3. <<>> \in [1 .. 0 -> S] /\ IsInjective(<<>>)
    BY DEF IsInjective
  <2>4. SetToSeq(S) = CHOOSE f \in [1 .. 0 -> S] : IsInjective(f)
    BY <2>1 DEF SetToSeq
  <2>5. SetToSeq(S) \in [1 .. 0 -> S]
    BY <2>3, <2>4
  <2>6. SetToSeq(S) = <<>>
    BY <2>2, <2>5
  <2>7. {} # {x} /\ <<>> \in Seq(V)
    OBVIOUS
  <2>. QED BY <1>1, <2>6, <2>7
<1>2. CASE S = {x}
  <2>1. Cardinality(S) = 1
    BY <1>2, FS_Singleton
  <2>2. \A f \in [1 .. 1 -> S] : f = <<x>>
    BY <1>2
  <2>3. <<x>> \in [1 .. 1 -> S] /\ IsInjective(<<x>>)
    BY <1>2 DEF IsInjective
  <2>4. SetToSeq(S) = CHOOSE f \in [1 .. 1 -> S] : IsInjective(f)
    BY <2>1 DEF SetToSeq
  <2>5. SetToSeq(S) \in [1 .. 1 -> S]
    BY <2>3, <2>4
  <2>6. SetToSeq(S) = <<x>>
    BY <2>2, <2>5
  <2>7. {} # {x} /\ <<x>> \in Seq(V)
    BY <1>2
  <2>. QED BY <1>2, <2>6, <2>7
<1>. QED BY <1>1, <1>2

\* The gates of an operation in ascending order are a sequence of them.
LEMMA AscendingGates ==
  ASSUME NEW t, TapeContract(t), NEW S \in SUBSET GateSlots(t)
  PROVE  Ascending(S) \in Seq(S) /\ Len(Ascending(S)) \in Nat /\ DOMAIN Ascending(S) = 1 .. Len(Ascending(S))
<1>1. S \in SUBSET Nat /\ IsFiniteSet(S)
  <2>1. GateSlots(t) \subseteq 1 .. slot_count(t) /\ slot_count(t) \in Nat
    BY SlotKinds DEF Slots, TapeContract, FieldsTyped
  <2>2. IsFiniteSet(1 .. slot_count(t))
    BY <2>1, FS_Interval
  <2>. QED BY <2>1, <2>2, FS_Subset
<1>2. Ascends(S)
  BY <1>1, AscendingOrder
<1>3. Ascending(S) \in [1 .. Cardinality(S) -> S] /\ Len(Ascending(S)) = Cardinality(S) /\ Cardinality(S) \in Nat
  BY <1>2 DEF Ascends, Numbered
<1>. QED BY <1>3

\* What full_link returns is one link or none.
LEMMA OneFullLink ==
  ASSUME NEW t, NEW g, NEW prop, NEW s
  PROVE  LET links == full_link(t, g, prop, s) IN links = {} \/ links = {CHOOSE x \in links : TRUE}
<1>. DEFINE p == t.a[g]
            q == t.b[g]
            pxq == XorOf(t, p, q)
            cin == IF t.a[prop] = pxq THEN t.b[prop] ELSE t.a[prop]
            sum == XorOf(t, pxq, cin)
            x == Link(p, q, pxq, g, prop, s, sum, cin)
            links == full_link(t, g, prop, s)
<1>1. links \subseteq {x}
  BY DEF full_link
<1>. HIDE DEF x, links
<1>2. links # {} => links = {x} /\ (CHOOSE y \in links : TRUE) = x
  BY <1>1
<1>3. links = {} \/ links = {CHOOSE y \in links : TRUE}
  BY <1>2
<1>. QED BY <1>3 DEF links

\* Every link that is looked up is a link of the tape.
LEMMA FullLinksShaped ==
  ASSUME NEW t, TapeContract(t)
  PROVE  FullLinks(t) \in Seq(LinksOf(t))
<1>. DEFINE ors == Ascending(GatesOf(t, "Or"))
            n == Len(ors)
            V == LinksOf(t)
            one(s) == full_link(t, t.a[s], t.b[s], s)
            other(s) == full_link(t, t.b[s], t.a[s], s)
            seqs == [i \in DOMAIN ors |-> SetToSeq(one(ors[i])) \o SetToSeq(other(ors[i]))]
<1>1. GatesOf(t, "Or") \subseteq GateSlots(t) /\ \A s \in GatesOf(t, "Or") : t.ops[s] = "Or"
  BY DEF GatesOf
<1>2. n \in Nat /\ DOMAIN ors = 1 .. n /\ \A i \in 1 .. n : ors[i] \in GatesOf(t, "Or")
  BY <1>1, AscendingGates
<1>3. ASSUME NEW s \in GatesOf(t, "Or") PROVE one(s) \subseteq V /\ other(s) \subseteq V
  <2>1. s \in GateSlots(t) /\ t.ops[s] = "Or"
    BY <1>1
  <2>2. ASSUME NEW link \in one(s) PROVE link \in V
    <3>1. LinkShaped(t, link)
      BY <2>1, <2>2, FullShaped
    <3>. QED BY <3>1 DEF LinksOf, LinkShaped
  <2>3. ASSUME NEW link \in other(s) PROVE link \in V
    <3>1. LinkShaped(t, link)
      BY <2>1, <2>3, FullShaped
    <3>. QED BY <3>1 DEF LinksOf, LinkShaped
  <2>. QED BY <2>2, <2>3
<1>4. ASSUME NEW s \in GatesOf(t, "Or") PROVE SetToSeq(one(s)) \o SetToSeq(other(s)) \in Seq(V)
  <2>1. one(s) \subseteq V /\ other(s) \subseteq V
    BY <1>3
  <2>2. (one(s) = {} \/ one(s) = {CHOOSE x \in one(s) : TRUE})
        /\ (other(s) = {} \/ other(s) = {CHOOSE x \in other(s) : TRUE})
    BY OneFullLink
  <2>. HIDE DEF one, other, V
  <2>4. SetToSeq(one(s)) \in Seq(V) /\ SetToSeq(other(s)) \in Seq(V)
    BY <2>1, <2>2, FewToSeq
  <2>. QED BY <2>4
<1>5. FullLinks(t) = FlattenSeq(seqs)
  BY DEF FullLinks
<1>. HIDE DEF ors, V, one, other, n
<1>6. seqs \in [1 .. n -> Seq(V)]
  BY <1>2, <1>4
<1>. HIDE DEF seqs
<1>7. FlattenSeq(seqs) \in Seq(V)
  BY <1>2, <1>6, FlattenParts
<1>. QED BY <1>5, <1>7 DEF V

\* So is every head of an incrementer.
LEMMA IncHeadsShaped ==
  ASSUME NEW t, TapeContract(t)
  PROVE  IncHeads(t) \in Seq(LinksOf(t))
<1>. DEFINE ands == Ascending(GatesOf(t, "And"))
            n == Len(ands)
            V == LinksOf(t)
            one(s) == inc_link(t, t.a[s], t.b[s], s)
            other(s) == inc_link(t, t.b[s], t.a[s], s)
            seqs == [i \in DOMAIN ands |-> <<one(ands[i]), other(ands[i])>>]
<1>1. GatesOf(t, "And") \subseteq GateSlots(t) /\ \A s \in GatesOf(t, "And") : t.ops[s] = "And"
  BY DEF GatesOf
<1>2. n \in Nat /\ DOMAIN ands = 1 .. n /\ \A i \in 1 .. n : ands[i] \in GatesOf(t, "And")
  BY <1>1, AscendingGates
<1>3. ASSUME NEW s \in GatesOf(t, "And") PROVE one(s) \in V /\ other(s) \in V
  <2>1. s \in GateSlots(t) /\ t.ops[s] = "And"
    BY <1>1
  <2>3. \A p, cin : (p = t.a[s] /\ cin = t.b[s]) \/ (p = t.b[s] /\ cin = t.a[s])
                    => LinkShaped(t, inc_link(t, p, cin, s))
    BY <2>1, IncShaped
  <2>2. LinkShaped(t, one(s)) /\ LinkShaped(t, other(s))
    BY <2>3
  <2>. HIDE DEF one, other
  <2>. QED BY <2>2 DEF LinksOf, LinkShaped
<1>4. IncHeads(t) = FlattenSeq(seqs)
  BY DEF IncHeads
<1>. HIDE DEF ands, V, one, other, n
<1>5. seqs \in [1 .. n -> Seq(V)]
  BY <1>2, <1>3
<1>. HIDE DEF seqs
<1>6. FlattenSeq(seqs) \in Seq(V)
  BY <1>2, <1>5, FlattenParts
<1>. QED BY <1>4, <1>6 DEF V

\* And every link among which one is looked up by its carry-in.
LEMMA CandidatesShaped ==
  ASSUME NEW t, TapeContract(t), NEW carry
  PROVE  Candidates(t, carry) \in Seq(LinksOf(t))
<1>. DEFINE S == {s \in GatesOf(t, "And") : carry \in {t.a[s], t.b[s]}}
            ands == Ascending(S)
            n == Len(ands)
            V == LinksOf(t)
            incs == [i \in DOMAIN ands |->
                       inc_link(t, IF t.a[ands[i]] = carry THEN t.b[ands[i]] ELSE t.a[ands[i]], carry, ands[i])]
<1>1. S \subseteq GateSlots(t) /\ \A s \in S : t.ops[s] = "And" /\ carry \in {t.a[s], t.b[s]}
  BY DEF GatesOf
<1>2. n \in Nat /\ DOMAIN ands = 1 .. n /\ \A i \in 1 .. n : ands[i] \in S
  <2>. HIDE DEF S
  <2>. QED BY <1>1, AscendingGates
<1>. HIDE DEF S
<1>3. ASSUME NEW s \in S PROVE inc_link(t, IF t.a[s] = carry THEN t.b[s] ELSE t.a[s], carry, s) \in V
  <2>. DEFINE p == IF t.a[s] = carry THEN t.b[s] ELSE t.a[s]
  <2>1. (p = t.a[s] /\ carry = t.b[s]) \/ (p = t.b[s] /\ carry = t.a[s])
    BY <1>1
  <2>. HIDE DEF p
  <2>2. s \in GateSlots(t) /\ t.ops[s] = "And"
    BY <1>1
  <2>3. LinkShaped(t, inc_link(t, p, carry, s))
    BY <2>1, <2>2, IncShaped
  <2>. QED BY <2>3 DEF LinksOf, LinkShaped, p
<1>4. incs \in Seq(V)
  <2>. HIDE DEF V, ands
  <2>1. incs \in [1 .. n -> V]
    BY <1>2, <1>3
  <2>. HIDE DEF incs
  <2>. QED BY <1>2, <2>1
<1>5. Candidates(t, carry) = FullLinks(t) \o incs
  BY DEF Candidates, S
<1>. QED BY <1>4, <1>5, FullLinksShaped

-----------------------------------------------------------------------------
(* Chains grow from admitted links.                                        *)

\* A link with its escape flags: what does not escape is read by the link alone.
LinkAdmitted(t, link) ==
  /\ LinkShaped(t, link)
  /\ IsFull(link) => /\ Interior(t, link.prop, {link.carry})
                     /\ ~link.ext_pxq => Interior(t, link.pxq, {link.prop, link.sum})
                     /\ ~link.ext_g => Interior(t, link.g, {link.carry})
  /\ ~IsFull(link) => ~link.ext_pxq /\ ~link.ext_g

AdmittedLinks(t) == {link \in LinkRecords : LinkAdmitted(t, link)}

\* admit returns one link or none.
LEMMA OneAdmitted ==
  ASSUME NEW t, NEW taken, NEW link
  PROVE  LET links == admit(t, taken, link) IN links = {} \/ links = {CHOOSE x \in links : TRUE}
<1>. DEFINE links == admit(t, taken, link)
            x == [link EXCEPT
                   !.ext_pxq = IsFull(link) /\ ~Interior(t, link.pxq, {link.prop, link.sum}),
                   !.ext_g   = IsFull(link) /\ ~Interior(t, link.g, {link.carry})]
<1>1. links \subseteq {x}
  BY DEF admit
<1>. HIDE DEF x, links
<1>2. links # {} => links = {x} /\ (CHOOSE y \in links : TRUE) = x
  BY <1>1
<1>3. links = {} \/ links = {CHOOSE y \in links : TRUE}
  BY <1>2
<1>. QED BY <1>3 DEF links

\* An admitted link is the link with its flags, and takes only gates that are free.
LEMMA AdmitAdmits ==
  ASSUME NEW t, NEW taken, NEW link \in LinksOf(t), NEW x \in admit(t, taken, link)
  PROVE  /\ x \in AdmittedLinks(t) /\ link_gates(x) \cap taken = {}
         /\ x.cin = link.cin /\ x.carry = link.carry /\ Fed(x) = Fed(link)
<1>. DEFINE u == IsFull(link) /\ ~Interior(t, link.pxq, {link.prop, link.sum})
            v == IsFull(link) /\ ~Interior(t, link.g, {link.carry})
<1>1. /\ x = [link EXCEPT !.ext_pxq = u, !.ext_g = v] /\ link_gates(link) \cap taken = {}
      /\ IsFull(link) => Interior(t, link.prop, {link.carry})
  BY DEF admit
<1>2. u \in BOOLEAN /\ v \in BOOLEAN /\ link \in LinkRecords /\ LinkShaped(t, link)
  BY DEF LinksOf
<1>3. ~IsFull(link) => ~u /\ ~v
  OBVIOUS
<1>4. IsFull(link) => /\ ~u => Interior(t, link.pxq, {link.prop, link.sum})
                      /\ ~v => Interior(t, link.g, {link.carry})
  OBVIOUS
<1>. HIDE DEF u, v
<1>5. /\ x \in LinkRecords /\ x.ext_pxq = u /\ x.ext_g = v
      /\ x.p = link.p /\ x.q = link.q /\ x.pxq = link.pxq /\ x.g = link.g /\ x.prop = link.prop
      /\ x.carry = link.carry /\ x.sum = link.sum /\ x.cin = link.cin
  BY <1>1, <1>2 DEF LinkRecords
<1>6. link_gates(x) = link_gates(link) /\ (IsFull(x) <=> IsFull(link)) /\ Fed(x) = Fed(link)
  BY <1>5 DEF link_gates, IsFull, Fed
<1>7. IsLink(t, x)
  <2>. DEFINE s == link.carry
              full == full_link(t, t.a[s], t.b[s], s) \cup full_link(t, t.b[s], t.a[s], s)
              inc  == {inc_link(t, t.a[s], t.b[s], s), inc_link(t, t.b[s], t.a[s], s)}
              kinds == IF t.ops[s] = "Or" THEN full ELSE IF t.ops[s] = "And" THEN inc ELSE {}
  <2>1. /\ link_gates(link) \cup {s} \subseteq GateSlots(t)
        /\ \E bare \in kinds : link = [bare EXCEPT !.ext_pxq = link.ext_pxq, !.ext_g = link.ext_g]
    BY <1>2 DEF LinkShaped, IsLink
  <2>. HIDE DEF kinds
  <2>2. PICK bare \in kinds : link = [bare EXCEPT !.ext_pxq = link.ext_pxq, !.ext_g = link.ext_g]
    BY <2>1
  <2>3. x = [bare EXCEPT !.ext_pxq = x.ext_pxq, !.ext_g = x.ext_g]
    BY <1>1, <1>5, <2>2
  <2>4. \E b \in kinds : x = [b EXCEPT !.ext_pxq = x.ext_pxq, !.ext_g = x.ext_g]
    BY <2>3
  <2>. QED BY <1>5, <1>6, <2>1, <2>4 DEF IsLink, kinds
<1>8. LinkShaped(t, x)
  BY <1>2, <1>5, <1>6, <1>7 DEF LinkShaped
<1>9. LinkAdmitted(t, x)
  BY <1>1, <1>3, <1>4, <1>5, <1>6, <1>8 DEF LinkAdmitted
<1>. QED BY <1>1, <1>5, <1>6, <1>9 DEF AdmittedLinks

\* Links one after another, each fed by the carry of the one before, which
\* feeds nothing else, of gates that are free.
Strung(t, used, links) ==
  /\ links \in Seq(AdmittedLinks(t)) /\ links # <<>>
  /\ \A i \in 1 .. Len(links) : link_gates(links[i]) \cap used = {}
  /\ \A i, j \in 1 .. Len(links) : i # j => link_gates(links[i]) \cap link_gates(links[j]) = {}
  /\ \A i \in 2 .. Len(links) :
       links[i].cin = links[i - 1].carry /\ Interior(t, links[i - 1].carry, Fed(links[i]))

\* The chosen continuation is an admitted link that the carry feeds.
LEMMA ContinuationFits ==
  ASSUME NEW t, TapeContract(t), NEW taken, NEW carry
  PROVE  LET next == continuation(t, taken, carry) IN
         /\ next = {} \/ next = {CHOOSE x \in next : TRUE}
         /\ \A x \in next : /\ x \in AdmittedLinks(t) /\ link_gates(x) \cap taken = {}
                            /\ x.cin = carry /\ Interior(t, carry, Fed(x))
<1>. DEFINE links == Candidates(t, carry)
            fit == {k \in DOMAIN links : /\ links[k].cin = carry /\ Interior(t, carry, Fed(links[k]))
                                         /\ admit(t, taken, links[k]) # {}}
            next == continuation(t, taken, carry)
<1>1. next = IF fit = {} THEN {} ELSE admit(t, taken, links[Min(fit)])
  BY DEF continuation
<1>2. links \in Seq(LinksOf(t))
  BY CandidatesShaped
<1>. HIDE DEF links
<1>3. fit \in SUBSET Nat
  BY <1>2
<1>4. ASSUME fit # {} PROVE Min(fit) \in fit
  <2>. HIDE DEF fit
  <2>1. PICK m \in fit : \A n \in fit : m <= n
    BY <1>3, <1>4, LeastMember
  <2>. QED BY <2>1 DEF Min
<1>. DEFINE link == links[Min(fit)]
<1>5. ASSUME fit # {}
      PROVE  link \in LinksOf(t) /\ link.cin = carry /\ Interior(t, carry, Fed(link))
  <2>1. Min(fit) \in DOMAIN links /\ link.cin = carry /\ Interior(t, carry, Fed(link))
    BY <1>4, <1>5
  <2>2. \A k \in DOMAIN links : links[k] \in LinksOf(t)
    BY <1>2
  <2>. QED BY <2>1, <2>2
<1>. HIDE DEF fit, next
<1>6. CASE fit = {}
  <2>1. next = {}
    BY <1>1, <1>6
  <2>. QED BY <2>1 DEF next
<1>7. CASE fit # {}
  <2>1. next = admit(t, taken, link)
    BY <1>1, <1>7
  <2>2. next = {} \/ next = {CHOOSE x \in next : TRUE}
    BY <2>1, OneAdmitted
  <2>3. ASSUME NEW x \in next
        PROVE  /\ x \in AdmittedLinks(t) /\ link_gates(x) \cap taken = {}
               /\ x.cin = carry /\ Interior(t, carry, Fed(x))
    <3>. HIDE DEF link
    <3>1. link \in LinksOf(t) /\ link.cin = carry /\ Interior(t, carry, Fed(link))
      BY <1>5, <1>7 DEF link
    <3>2. /\ x \in AdmittedLinks(t) /\ link_gates(x) \cap taken = {}
          /\ x.cin = link.cin /\ Fed(x) = Fed(link)
      BY <2>1, <2>3, <3>1, AdmitAdmits
    <3>. QED BY <3>1, <3>2
  <2>. QED BY <2>2, <2>3 DEF next
<1>. QED BY <1>6, <1>7

\* The gates of the links of a sequence.
LEMMA GatesOfChain ==
  ASSUME NEW V, NEW links \in Seq(V), NEW s
  PROVE  s \in ChainGates(links) <=> \E i \in 1 .. Len(links) : s \in link_gates(links[i])
BY DEF ChainGates

\* One step of growing a chain keeps it strung.
LEMMA Continued ==
  ASSUME NEW t, TapeContract(t), NEW used, NEW links, Strung(t, used, links)
  PROVE  LET more == links \o SetToSeq(continuation(t, used \cup ChainGates(links), Last(links).carry))
         IN  Strung(t, used, more) /\ Len(more) <= Len(links) + 1
<1>. DEFINE taken == used \cup ChainGates(links)
            carry == Last(links).carry
            next == continuation(t, taken, carry)
            x == CHOOSE y \in next : TRUE
            n == Len(links)
<1>1. /\ next = {} \/ next = {x}
      /\ \A y \in next : /\ y \in AdmittedLinks(t) /\ link_gates(y) \cap taken = {}
                         /\ y.cin = carry /\ Interior(t, carry, Fed(y))
  BY ContinuationFits
<1>2. links \in Seq(AdmittedLinks(t)) /\ n \in Nat /\ n > 0 /\ carry = links[n].carry
  BY DEF Strung, Last
<1>. HIDE DEF carry, next, x
<1>3. next \subseteq AdmittedLinks(t)
  BY <1>1
<1>4. /\ next = {} => SetToSeq(next) = <<>>
      /\ next = {x} => SetToSeq(next) = <<x>>
  BY <1>1, <1>3, FewToSeq
<1>5. CASE next = {}
  <2>. DEFINE more == links \o SetToSeq(next)
  <2>1. more = links
    BY <1>2, <1>4, <1>5
  <2>. HIDE DEF more
  <2>2. Strung(t, used, more) /\ Len(more) <= n + 1
    BY <1>2, <2>1
  <2>. QED BY <2>2 DEF more, next, carry
<1>6. CASE next = {x}
  <2>. DEFINE more == links \o SetToSeq(next)
  <2>1. more = Append(links, x) /\ x \in AdmittedLinks(t)
    <3>1. x \in AdmittedLinks(t) /\ more = links \o <<x>>
      BY <1>3, <1>4, <1>6
    <3>. HIDE DEF more
    <3>. QED BY <1>2, <3>1
  <2>2. /\ more \in Seq(AdmittedLinks(t)) /\ Len(more) = n + 1 /\ more # <<>>
        /\ \A i \in 1 .. n : more[i] = links[i]
        /\ more[n + 1] = x
    BY <1>2, <2>1
  <2>3. /\ link_gates(x) \cap used = {} /\ \A i \in 1 .. n : link_gates(x) \cap link_gates(links[i]) = {}
    <3>1. link_gates(x) \cap taken = {}
      BY <1>1, <1>6
    <3>2. \A i \in 1 .. n : link_gates(links[i]) \subseteq ChainGates(links)
      BY <1>2, GatesOfChain
    <3>. QED BY <3>1, <3>2
  <2>4. x.cin = links[n].carry /\ Interior(t, links[n].carry, Fed(x))
    BY <1>1, <1>2, <1>6
  <2>. HIDE DEF more, taken, n
  <2>5. \A i \in 1 .. n : link_gates(more[i]) \cap used = {}
    BY <2>2 DEF Strung, n
  <2>6. \A i \in 1 .. n + 1 : link_gates(more[i]) \cap used = {}
    BY <1>2, <2>2, <2>3, <2>5
  <2>7. ASSUME NEW i \in 1 .. n + 1, NEW j \in 1 .. n + 1, i # j
        PROVE  link_gates(more[i]) \cap link_gates(more[j]) = {}
    <3>1. CASE i \in 1 .. n /\ j \in 1 .. n
      BY <2>2, <2>7, <3>1 DEF Strung, n
    <3>2. CASE i = n + 1 /\ j \in 1 .. n
      BY <2>2, <2>3, <3>2
    <3>3. CASE i \in 1 .. n /\ j = n + 1
      BY <2>2, <2>3, <3>3
    <3>. QED BY <1>2, <2>7, <3>1, <3>2, <3>3
  <2>8. ASSUME NEW i \in 2 .. n + 1
        PROVE  more[i].cin = more[i - 1].carry /\ Interior(t, more[i - 1].carry, Fed(more[i]))
    <3>1. CASE i = n + 1
      BY <1>2, <2>2, <2>4, <3>1
    <3>2. CASE i # n + 1
      <4>1. i \in 2 .. n /\ i \in 1 .. n /\ i - 1 \in 1 .. n
        BY <1>2, <3>2
      <4>2. links[i].cin = links[i - 1].carry /\ Interior(t, links[i - 1].carry, Fed(links[i]))
        BY <4>1 DEF Strung, n
      <4>. QED BY <2>2, <4>1, <4>2
    <3>. QED BY <3>1, <3>2
  <2>9. Strung(t, used, more) /\ Len(more) <= n + 1
    BY <1>2, <2>2, <2>6, <2>7, <2>8 DEF Strung
  <2>. QED BY <2>9 DEF more, next, carry, taken, n
<1>. QED BY <1>1, <1>5, <1>6

\* A chain grown from an admitted link is strung, and not too long.
LEMMA GrownStrung ==
  ASSUME NEW t, TapeContract(t), NEW used, NEW head \in AdmittedLinks(t), link_gates(head) \cap used = {}
  PROVE  Strung(t, used, Grown(t, used, head)) /\ Len(Grown(t, used, head)) \in 1 .. MaxChain
<1>. DEFINE B == {q \in Seq(AdmittedLinks(t)) : Strung(t, used, q)}
            more(q) == q \o SetToSeq(continuation(t, used \cup ChainGates(q), Last(q).carry))
            step == [n \in 1 .. MaxChain |-> [q \in B |-> more(q)]]
            body(f) == [n \in 1 .. MaxChain |-> IF n = 1 THEN <<head>> ELSE more(f[n - 1])]
            grown == CHOOSE f : f = body(f)
<1>1. 1 \in Nat /\ MaxChain \in Nat /\ 1 <= MaxChain
  BY WordAssumption
<1>2. <<head>> \in B
  <2>1. <<head>> \in Seq(AdmittedLinks(t)) /\ Len(<<head>>) = 1 /\ <<head>>[1] = head /\ <<head>> # <<>>
    OBVIOUS
  <2>2. \A i \in 1 .. 1 : i = 1
    OBVIOUS
  <2>3. Strung(t, used, <<head>>)
    BY <2>1, <2>2 DEF Strung
  <2>. QED BY <2>1, <2>3
<1>3. \A q \in B : more(q) \in B /\ Len(more(q)) <= Len(q) + 1
  <2>1. ASSUME NEW q \in B PROVE Strung(t, used, more(q)) /\ Len(more(q)) <= Len(q) + 1
    BY Continued
  <2>2. ASSUME NEW q \in B PROVE more(q) \in Seq(AdmittedLinks(t))
    BY <2>1 DEF Strung
  <2>. HIDE DEF more
  <2>. QED BY <2>1, <2>2
<1>4. Grown(t, used, head) = grown[MaxChain]
  BY DEF Grown
<1>. HIDE DEF more
<1>5. step \in [1 .. MaxChain -> [B -> B]]
  <2>. HIDE DEF B
  <2>. QED BY <1>3
<1>6. PICK f \in [1 .. MaxChain -> B] : Iterates(f, 1, MaxChain, <<head>>, step)
  <2>. HIDE DEF B, step
  <2>. QED BY <1>1, <1>2, <1>5, Iteration
<1>. HIDE DEF B
<1>7. f = body(f)
  <2>1. ASSUME NEW n \in 1 .. MaxChain PROVE f[n] = IF n = 1 THEN <<head>> ELSE more(f[n - 1])
    <3>1. CASE n = 1
      BY <1>6, <3>1 DEF Iterates
    <3>2. CASE n # 1
      <4>1. n - 1 \in 1 .. MaxChain
        BY <1>1, <3>2
      <4>2. f[n - 1] \in B
        BY <4>1
      <4>3. f[n] = step[n][f[n - 1]]
        BY <1>6, <3>2 DEF Iterates
      <4>. QED BY <3>2, <4>2, <4>3
    <3>. QED BY <3>1, <3>2
  <2>. QED BY <2>1
<1>8. grown = body(grown)
  <2>. HIDE DEF body
  <2>. QED BY <1>7
<1>9. \A n \in 1 .. MaxChain : grown[n] = IF n = 1 THEN <<head>> ELSE more(grown[n - 1])
  <2>. HIDE DEF grown
  <2>. QED BY <1>8
<1>. HIDE DEF grown
<1>. DEFINE S == {n \in 1 .. MaxChain : grown[n] \in B /\ Len(grown[n]) <= n}
<1>10. 1 \in S
  <2>1. grown[1] = <<head>> /\ 1 \in 1 .. MaxChain
    BY <1>1, <1>9
  <2>2. Len(<<head>>) = 1
    OBVIOUS
  <2>3. grown[1] \in B /\ Len(grown[1]) <= 1
    <3>1. Len(grown[1]) = 1
      BY <2>1, <2>2, Zenon
    <3>. QED BY <1>2, <2>1, <3>1
  <2>. QED BY <2>1, <2>3
<1>11. ASSUME NEW n \in 1 .. MaxChain - 1, n \in S PROVE n + 1 \in S
  <2>1. n + 1 \in 1 .. MaxChain /\ n + 1 # 1 /\ (n + 1) - 1 = n
    BY <1>1
  <2>2. grown[n + 1] = more(grown[n])
    BY <1>9, <2>1
  <2>3. grown[n] \in B /\ Len(grown[n]) <= n
    BY <1>11
  <2>4. Len(grown[n]) \in Nat /\ Len(more(grown[n])) \in Nat
    BY <1>3, <2>3 DEF B
  <2>. QED BY <1>3, <2>1, <2>2, <2>3, <2>4
<1>12. \A n \in 1 .. MaxChain : n \in S
  <2>. HIDE DEF S
  <2>. QED BY <1>1, <1>10, <1>11, IntervalInduction
<1>13. Grown(t, used, head) \in B /\ Len(Grown(t, used, head)) <= MaxChain
  <2>1. MaxChain \in 1 .. MaxChain
    BY <1>1
  <2>. QED BY <1>4, <1>12, <2>1
<1>. DEFINE chain == Grown(t, used, head)
<1>14. Strung(t, used, chain) /\ chain \in Seq(AdmittedLinks(t)) /\ chain # <<>>
  BY <1>13 DEF B, Strung
<1>. HIDE DEF chain
<1>15. Len(chain) \in Nat /\ Len(chain) > 0
  BY <1>14
<1>. QED BY <1>1, <1>13, <1>14, <1>15 DEF chain

\* So is the part of it up to some link.
LEMMA TrimmedStrung ==
  ASSUME NEW t, NEW used, NEW links, Strung(t, used, links), NEW n \in 1 .. Len(links)
  PROVE  Strung(t, used, SubSeq(links, 1, n)) /\ Len(SubSeq(links, 1, n)) = n
<1>. DEFINE kept == SubSeq(links, 1, n)
<1>1. links \in Seq(AdmittedLinks(t)) /\ Len(links) \in Nat
  BY DEF Strung
<1>2. /\ kept \in Seq(AdmittedLinks(t)) /\ Len(kept) = n /\ n \in Nat /\ n <= Len(links)
      /\ \A i \in 1 .. n : kept[i] = links[i]
  BY <1>1
<1>3. kept # <<>>
  BY <1>2
<1>. HIDE DEF kept
<1>4. \A i \in 1 .. n : i \in 1 .. Len(links)
  BY <1>1
<1>5. \A i \in 1 .. n : link_gates(kept[i]) \cap used = {}
  BY <1>2, <1>4 DEF Strung
<1>6. \A i, j \in 1 .. n : i # j => link_gates(kept[i]) \cap link_gates(kept[j]) = {}
  BY <1>2, <1>4 DEF Strung
<1>7. ASSUME NEW i \in 2 .. n
      PROVE  kept[i].cin = kept[i - 1].carry /\ Interior(t, kept[i - 1].carry, Fed(kept[i]))
  <2>1. i \in 1 .. n /\ i - 1 \in 1 .. n /\ i \in 2 .. Len(links)
    BY <1>1
  <2>. QED BY <1>2, <2>1 DEF Strung
<1>8. Strung(t, used, kept) /\ Len(kept) = n
  BY <1>2, <1>3, <1>5, <1>6, <1>7 DEF Strung
<1>. QED BY <1>8 DEF kept

\* A bounded set of numbers that is not empty has a greatest member.
LEMMA GreatestMember ==
  ASSUME NEW m \in Nat, NEW T \in SUBSET (0 .. m), T # {}
  PROVE  Max(T) \in T /\ \A n \in T : n <= Max(T)
<1>. DEFINE D == {m - n : n \in T}
<1>1. D \in SUBSET Nat /\ D # {}
  <2>1. \A n \in T : m - n \in Nat
    OBVIOUS
  <2>2. D # {}
    OBVIOUS
  <2>. QED BY <2>1, <2>2
<1>2. PICK d \in D : \A e \in D : d <= e
  <2>. HIDE DEF D
  <2>. QED BY <1>1, LeastMember
<1>3. PICK x \in T : d = m - x
  OBVIOUS
<1>4. \A n \in T : x >= n
  <2>1. ASSUME NEW n \in T PROVE x >= n
    <3>1. m - n \in D
      OBVIOUS
    <3>2. m - x <= m - n
      BY <1>2, <1>3, <3>1
    <3>. QED BY <3>2
  <2>. QED BY <2>1
<1>5. Max(T) \in T /\ \A n \in T : Max(T) >= n
  BY <1>4 DEF Max
<1>. QED BY <1>5

\* The links of a chain that is committed.
ChainLinks(t, links) ==
  Strung(t, {}, links) /\ Len(links) \in 1 .. MaxChain /\ consistent(t, links)

ChainsOf(t) == {Chain(t, links) : links \in {q \in Seq(AdmittedLinks(t)) : ChainLinks(t, q)}}

\* The chains found so far are such chains, no two of which share a gate.
FoundWell(t, found) ==
  /\ found \in [chains : Seq(ChainsOf(t)), used : SUBSET Nat]
  /\ found.used = UNION {ChainGates(found.chains[c].links) : c \in 1 .. Len(found.chains)}
  /\ \A c, d \in 1 .. Len(found.chains) :
       c # d => ChainGates(found.chains[c].links) \cap ChainGates(found.chains[d].links) = {}

\* A chain of a tape has its links.
LEMMA ChainHasLinks ==
  ASSUME NEW t, NEW chain \in ChainsOf(t)
  PROVE  ChainLinks(t, chain.links) /\ chain = Chain(t, chain.links)
<1>1. PICK links \in Seq(AdmittedLinks(t)) : ChainLinks(t, links) /\ chain = Chain(t, links)
  BY DEF ChainsOf
<1>2. Chain(t, links).links = links
  BY DEF Chain
<1>. QED BY <1>1, <1>2

\* Gates of links are gates of the tape.
LEMMA ChainGatesNat ==
  ASSUME NEW t, NEW used, NEW links, Strung(t, used, links)
  PROVE  ChainGates(links) \subseteq GateSlots(t) /\ ChainGates(links) \cap used = {}
<1>1. links \in Seq(AdmittedLinks(t))
  BY DEF Strung
<1>2. ASSUME NEW i \in 1 .. Len(links) PROVE link_gates(links[i]) \subseteq GateSlots(t)
  <2>1. links[i] \in AdmittedLinks(t)
    BY <1>1, <1>2
  <2>2. IsLink(t, links[i])
    BY <2>1 DEF AdmittedLinks, LinkAdmitted, LinkShaped
  <2>. QED BY <2>2 DEF IsLink
<1>. QED BY <1>1, <1>2, GatesOfChain DEF Strung

\* Trying a head commits a chain or leaves what was found.
LEMMA TriedWell ==
  ASSUME NEW t, TapeContract(t), NEW found, FoundWell(t, found), NEW head \in LinksOf(t)
  PROVE  FoundWell(t, try_chain(t, found, head))
<1>. DEFINE heads == admit(t, found.used, head)
            first == CHOOSE link \in heads : TRUE
            links == Grown(t, found.used, first)
            sizes == {n \in MinChain .. Len(links) : consistent(t, SubSeq(links, 1, n))}
            kept  == SubSeq(links, 1, Max(sizes))
<1>1. try_chain(t, found, head) =
        IF heads = {} \/ sizes = {} THEN found
        ELSE [chains |-> Append(found.chains, Chain(t, kept)), used |-> found.used \cup ChainGates(kept)]
  BY DEF try_chain, trim, commit
<1>2. CASE heads = {} \/ sizes = {}
  <2>. HIDE DEF heads, sizes
  <2>. QED BY <1>1, <1>2
<1>3. CASE ~(heads = {} \/ sizes = {})
  <2>. DEFINE made == [chains |-> Append(found.chains, Chain(t, kept)), used |-> found.used \cup ChainGates(kept)]
              n == Max(sizes)
  <2>1. try_chain(t, found, head) = made
    <3>. HIDE DEF heads, sizes, made
    <3>. QED BY <1>1, <1>3 DEF made
  <2>2. first \in AdmittedLinks(t) /\ link_gates(first) \cap found.used = {}
    <3>1. first \in heads
      BY <1>3
    <3>. HIDE DEF first
    <3>. QED BY <3>1, AdmitAdmits
  <2>. HIDE DEF first, heads
  <2>3. Strung(t, found.used, links) /\ Len(links) \in 1 .. MaxChain
    BY <2>2, GrownStrung
  <2>. HIDE DEF links
  <2>4. MinChain \in Nat /\ MinChain > 0 /\ MaxChain \in Nat
    BY WordAssumption
  <2>5. n \in sizes
    <3>1. sizes \in SUBSET (0 .. Len(links)) /\ Len(links) \in Nat
      BY <2>3, <2>4
    <3>. HIDE DEF sizes
    <3>. QED BY <1>3, <3>1, GreatestMember
  <2>6. n \in 1 .. Len(links) /\ consistent(t, kept)
    BY <2>3, <2>4, <2>5
  <2>. HIDE DEF sizes, n
  <2>7. Strung(t, found.used, kept) /\ Len(kept) = n
    BY <2>3, <2>6, TrimmedStrung DEF n
  <2>. HIDE DEF kept
  <2>8. ChainLinks(t, kept)
    <3>1. Strung(t, {}, kept)
      BY <2>7 DEF Strung
    <3>2. Len(kept) \in 1 .. MaxChain
      BY <2>3, <2>4, <2>6, <2>7
    <3>. QED BY <2>6, <3>1, <3>2 DEF ChainLinks
  <2>9. Chain(t, kept) \in ChainsOf(t) /\ Chain(t, kept).links = kept
    <3>1. kept \in Seq(AdmittedLinks(t))
      BY <2>7 DEF Strung
    <3>. QED BY <2>8, <3>1 DEF ChainsOf, Chain
  <2>10. ChainGates(kept) \cap found.used = {} /\ ChainGates(kept) \subseteq Nat
    <3>1. GateSlots(t) \subseteq Nat
      BY SlotKinds DEF Slots
    <3>. QED BY <2>7, <3>1, ChainGatesNat
  <2>. DEFINE m == Len(found.chains)
              gates(c) == ChainGates(found.chains[c].links)
  <2>11. /\ found.chains \in Seq(ChainsOf(t)) /\ found.used \subseteq Nat /\ m \in Nat
         /\ found.used = UNION {gates(c) : c \in 1 .. m}
         /\ \A c, d \in 1 .. m : c # d => gates(c) \cap gates(d) = {}
    BY DEF FoundWell
  <2>12. /\ made.chains \in Seq(ChainsOf(t)) /\ Len(made.chains) = m + 1 /\ made.used = found.used \cup ChainGates(kept)
         /\ \A c \in 1 .. m : made.chains[c] = found.chains[c]
         /\ made.chains[m + 1].links = kept
         /\ made \in [chains : Seq(ChainsOf(t)), used : SUBSET Nat]
    BY <2>9, <2>10, <2>11
  <2>. HIDE DEF m
  <2>13. \A c \in 1 .. m : ChainGates(made.chains[c].links) = gates(c) /\ gates(c) \subseteq found.used
    BY <2>11, <2>12
  <2>14. ChainGates(made.chains[m + 1].links) = ChainGates(kept)
    BY <2>12
  <2>. HIDE DEF made, gates
  <2>15. 1 .. m + 1 = (1 .. m) \cup {m + 1} /\ m + 1 \notin 1 .. m
    BY <2>11
  <2>16. made.used = UNION {ChainGates(made.chains[c].links) : c \in 1 .. Len(made.chains)}
    BY <2>11, <2>12, <2>13, <2>14, <2>15
  <2>17. \A c, d \in 1 .. m + 1 :
           c # d => ChainGates(made.chains[c].links) \cap ChainGates(made.chains[d].links) = {}
    BY <2>10, <2>11, <2>13, <2>14, <2>15
  <2>18. FoundWell(t, made)
    BY <2>12, <2>16, <2>17 DEF FoundWell
  <2>. QED BY <2>1, <2>18
<1>. QED BY <1>2, <1>3

\* What find_chains commits to: each chain is strung from admitted links, carry
\* to carry-in, fits a word and passes the check of its levels, and no gate is in
\* two chains.
THEOREM ChainsFound ==
  ASSUME NEW t, TapeContract(t)
  PROVE  FoundWell(t, find_chains(t))
<1>. DEFINE heads == FullLinks(t) \o IncHeads(t)
            n == Len(heads)
            none == [chains |-> <<>>, used |-> {}]
            B == {f \in [chains : Seq(ChainsOf(t)), used : SUBSET Nat] : FoundWell(t, f)}
            step == [k \in 0 .. n |-> [f \in B |-> IF k = 0 THEN f ELSE try_chain(t, f, heads[k])]]
            body(f) == [k \in 0 .. n |-> IF k = 0 THEN none ELSE try_chain(t, f[k - 1], heads[k])]
            found == CHOOSE f : f = body(f)
<1>1. heads \in Seq(LinksOf(t)) /\ n \in Nat
  BY FullLinksShaped, IncHeadsShaped
<1>2. \A k \in 1 .. n : heads[k] \in LinksOf(t)
  BY <1>1
<1>3. none \in B
  <2>1. none \in [chains : Seq(ChainsOf(t)), used : SUBSET Nat] /\ Len(none.chains) = 0 /\ none.used = {}
    OBVIOUS
  <2>. HIDE DEF none
  <2>2. FoundWell(t, none)
    BY <2>1 DEF FoundWell
  <2>. QED BY <2>1, <2>2
<1>4. find_chains(t) = found[n]
  BY DEF find_chains
<1>. HIDE DEF heads, n, none
<1>5. \A k \in 1 .. n, f \in B : try_chain(t, f, heads[k]) \in B
  <2>1. ASSUME NEW k \in 1 .. n, NEW f \in B PROVE FoundWell(t, try_chain(t, f, heads[k]))
    BY <1>2, TriedWell
  <2>2. \A f : FoundWell(t, f) => f \in B
    BY DEF FoundWell
  <2>. HIDE DEF B
  <2>. QED BY <2>1, <2>2
<1>6. PICK f \in [0 .. n -> B] : Iterates(f, 0, n, none, step)
  <2>. HIDE DEF B
  <2>1. step \in [0 .. n -> [B -> B]]
    BY <1>1, <1>5
  <2>2. 0 \in Nat /\ 0 <= n
    BY <1>1
  <2>. HIDE DEF step
  <2>. QED BY <1>1, <1>3, <2>1, <2>2, Iteration
<1>. HIDE DEF B
<1>7. f = body(f)
  <2>1. ASSUME NEW k \in 0 .. n PROVE f[k] = IF k = 0 THEN none ELSE try_chain(t, f[k - 1], heads[k])
    <3>1. CASE k = 0
      BY <1>6, <3>1 DEF Iterates
    <3>2. CASE k # 0
      <4>1. k - 1 \in 0 .. n
        BY <1>1, <3>2
      <4>2. f[k - 1] \in B
        BY <4>1
      <4>3. f[k] = step[k][f[k - 1]]
        BY <1>6, <3>2 DEF Iterates
      <4>. QED BY <3>2, <4>2, <4>3
    <3>. QED BY <3>1, <3>2
  <2>. QED BY <2>1
<1>8. found = body(found)
  <2>. HIDE DEF body
  <2>. QED BY <1>7
<1>9. \A k \in 0 .. n : found[k] = IF k = 0 THEN none ELSE try_chain(t, found[k - 1], heads[k])
  <2>. HIDE DEF found
  <2>. QED BY <1>8
<1>. HIDE DEF found
<1>. DEFINE S == {k \in 0 .. n : found[k] \in B}
<1>10. \A k \in 0 .. n : k \in S
  <2>1. 0 \in S /\ 0 \in Nat
    BY <1>1, <1>3, <1>9
  <2>2. ASSUME NEW k \in 0 .. n - 1, k \in S PROVE k + 1 \in S
    <3>1. k + 1 \in 0 .. n /\ k + 1 \in 1 .. n /\ (k + 1) - 1 = k
      BY <1>1
    <3>2. found[k + 1] = try_chain(t, found[k], heads[k + 1])
      BY <1>9, <3>1
    <3>. QED BY <1>5, <2>2, <3>1, <3>2
  <2>. HIDE DEF S
  <2>. QED BY <1>1, <2>1, <2>2, IntervalInduction
<1>11. n \in S
  BY <1>1, <1>10
<1>. QED BY <1>4, <1>11 DEF B

\* A link of a chain, by name.
LEMMA LinkOfChain ==
  ASSUME NEW t, NEW used, NEW links, Strung(t, used, links), NEW i \in 1 .. Len(links)
  PROVE  LinkAdmitted(t, links[i]) /\ LinkShaped(t, links[i]) /\ links[i] \in LinkRecords
<1>1. links[i] \in AdmittedLinks(t)
  BY DEF Strung
<1>. QED BY <1>1 DEF AdmittedLinks, LinkAdmitted

\* A gate of a link is not absent.
LEMMA LinkGate ==
  ASSUME NEW link, NEW s
  PROVE  s \in link_gates(link) <=> s # NoSlot /\ s \in {link.pxq, link.g, link.prop, link.carry, link.sum}
BY DEF link_gates

\* What reads a slot is a gate.
LEMMA SuccessorsAreGates ==
  ASSUME NEW t, TapeContract(t), NEW s \in Slots(t)
  PROVE  /\ successors(t, s) \subseteq GateSlots(t) /\ NoSlot \notin GateSlots(t)
         /\ \A h \in GateSlots(t) : s \in OperandsOf(t, h) => h \in successors(t, s)
<1>1. successors(t, s) = {g \in GateSlots(t) : s \in OperandsOf(t, g)}
  BY DEF TapeContract, SuccessorsExact
<1>2. NoSlot \notin Slots(t) /\ GateSlots(t) \subseteq Slots(t)
  BY SlotKinds DEF Slots, NoSlot
<1>. QED BY <1>1, <1>2

\* An interior gate of a chain, which has no place in the arena, is read by the
\* gates of its own chain alone, and is neither an output nor a next state: the
\* checks of the matcher on consumers are enough to remove it.
THEOREM HiddenGates ==
  ASSUME NEW t, TapeContract(t), NEW used, NEW links, Strung(t, used, links),
         NEW s \in ChainGates(links), s \notin Materialized(links)
  PROVE  s \notin Observed(t) /\ successors(t, s) \subseteq ChainGates(links)
<1>. DEFINE n == Len(links)
<1>1. links \in Seq(AdmittedLinks(t)) /\ n \in Nat /\ n > 0
  BY DEF Strung
<1>2. PICK i \in 1 .. n : s \in link_gates(links[i])
  BY <1>1, GatesOfChain
<1>3. LinkAdmitted(t, links[i]) /\ LinkShaped(t, links[i])
  BY LinkOfChain
<1>. DEFINE link == links[i]
<1>4. s # NoSlot /\ s \in {link.pxq, link.g, link.prop, link.carry, link.sum}
  BY <1>2, LinkGate
<1>5. s \in Slots(t)
  <2>1. ChainGates(links) \subseteq GateSlots(t)
    BY ChainGatesNat
  <2>. QED BY <2>1, SlotKinds
<1>6. successors(t, s) \subseteq GateSlots(t) /\ NoSlot \notin GateSlots(t)
  BY <1>5, SuccessorsAreGates
<1>7. link_gates(link) \subseteq ChainGates(links)
  BY <1>1, GatesOfChain
<1>8. \A allowed : Interior(t, s, allowed) /\ (allowed \subseteq ChainGates(links) \cup {NoSlot})
        => s \notin Observed(t) /\ successors(t, s) \subseteq ChainGates(links)
  BY <1>6 DEF Interior, only_feeds
<1>9. link.sum = s => FALSE
  <2>1. link.sum = s => s \in Materialized(links)
    BY <1>1, <1>4 DEF Materialized
  <2>. QED BY <2>1
<1>10. i \in DOMAIN links
  BY <1>1
<1>11. CASE s = link.prop
  <2>1. IsFull(link)
    BY <1>4, <1>11 DEF IsFull
  <2>2. Interior(t, s, {link.carry})
    BY <1>3, <1>11, <2>1 DEF LinkAdmitted
  <2>3. {link.carry} \subseteq ChainGates(links) \cup {NoSlot}
    BY <1>7, LinkGate
  <2>. QED BY <1>8, <2>2, <2>3
<1>12. CASE s = link.pxq
  <2>1. IsFull(link)
    BY <1>3, <1>4, <1>12 DEF LinkShaped
  <2>2. ~link.ext_pxq
    <3>1. link.ext_pxq => s \in Materialized(links)
      BY <1>4, <1>10, <1>12 DEF Materialized
    <3>. QED BY <3>1
  <2>3. Interior(t, s, {link.prop, link.sum})
    BY <1>3, <1>12, <2>1, <2>2 DEF LinkAdmitted
  <2>4. {link.prop, link.sum} \subseteq ChainGates(links) \cup {NoSlot}
    BY <1>7, LinkGate
  <2>. QED BY <1>8, <2>3, <2>4
<1>13. CASE s = link.g
  <2>1. IsFull(link)
    BY <1>3, <1>4, <1>13 DEF LinkShaped
  <2>2. ~link.ext_g
    <3>1. link.ext_g => s \in Materialized(links)
      BY <1>4, <1>10, <1>13 DEF Materialized
    <3>. QED BY <3>1
  <2>3. Interior(t, s, {link.carry})
    BY <1>3, <1>13, <2>1, <2>2 DEF LinkAdmitted
  <2>4. {link.carry} \subseteq ChainGates(links) \cup {NoSlot}
    BY <1>7, LinkGate
  <2>. QED BY <1>8, <2>3, <2>4
<1>14. CASE s = link.carry
  <2>1. i # n
    <3>1. i = n => s \in Materialized(links)
      BY <1>4, <1>14 DEF Materialized, Last
    <3>. QED BY <3>1
  <2>2. i + 1 \in 2 .. n /\ (i + 1) - 1 = i /\ i + 1 \in 1 .. n
    BY <1>1, <2>1
  <2>. DEFINE next == links[i + 1]
  <2>3. Interior(t, s, Fed(next))
    BY <1>14, <2>2 DEF Strung
  <2>4. Fed(next) \subseteq ChainGates(links) \cup {NoSlot}
    <3>1. Fed(next) \subseteq {next.prop, next.carry, next.sum}
      BY DEF Fed
    <3>2. link_gates(next) \subseteq ChainGates(links)
      BY <1>1, <2>2, GatesOfChain
    <3>. HIDE DEF next
    <3>. QED BY <3>1, <3>2, LinkGate
  <2>. QED BY <1>8, <2>3, <2>4
<1>. QED BY <1>4, <1>9, <1>11, <1>12, <1>13, <1>14

\* An operand of a chain is an operand of one of its gates.
LEMMA ChainReads ==
  ASSUME NEW t, TapeContract(t), NEW used, NEW links, Strung(t, used, links), NEW s \in ChainInputs(links)
  PROVE  s \in Slots(t) /\ \E h \in ChainGates(links) : h \in successors(t, s)
<1>. DEFINE n == Len(links)
<1>1. links \in Seq(AdmittedLinks(t)) /\ n \in Nat /\ n > 0 /\ 1 \in 1 .. n /\ DOMAIN links = 1 .. n
  BY DEF Strung
<1>2. s # NoSlot /\ \E i \in 1 .. n : s = links[i].p \/ s = links[i].q \/ s = links[i].cin
  BY <1>1 DEF ChainInputs
<1>3. PICK i \in 1 .. n : s = links[i].p \/ s = links[i].q \/ s = links[i].cin
  BY <1>2
<1>. DEFINE link == links[i]
<1>4. LinkShaped(t, link)
  BY LinkOfChain
<1>5. link_gates(link) \subseteq ChainGates(links)
  BY <1>1, GatesOfChain
<1>6. NoSlot \notin GateSlots(t)
  BY SlotKinds DEF Slots, NoSlot
<1>. HIDE DEF link, n
<1>7. s \in Slots(t) /\ \E h \in link_gates(link) : h \in GateSlots(t) /\ s \in OperandsOf(t, h)
  <2>1. CASE IsFull(link)
    <3>1. /\ link.p \in Slots(t) /\ link.q \in Slots(t) /\ link.cin \in Slots(t)
          /\ link.g \in GateSlots(t) /\ link.prop \in GateSlots(t)
          /\ link.p \in OperandsOf(t, link.g) /\ link.q \in OperandsOf(t, link.g)
          /\ link.cin \in OperandsOf(t, link.prop)
      BY <1>4, <2>1 DEF LinkShaped
    <3>2. link.g \in link_gates(link) /\ link.prop \in link_gates(link)
      BY <1>6, <3>1, LinkGate
    <3>. QED BY <1>3, <3>1, <3>2 DEF link
  <2>2. CASE ~IsFull(link)
    <3>1. /\ link.p \in Slots(t) /\ link.q = NoSlot /\ link.cin \in Slots(t) /\ link.carry \in GateSlots(t)
          /\ link.p \in OperandsOf(t, link.carry) /\ link.cin \in OperandsOf(t, link.carry)
      BY <1>4, <2>2 DEF LinkShaped
    <3>2. link.carry \in link_gates(link)
      BY <1>6, <3>1, LinkGate
    <3>. QED BY <1>2, <1>3, <3>1, <3>2 DEF link
  <2>. QED BY <2>1, <2>2
<1>8. PICK h \in link_gates(link) : h \in GateSlots(t) /\ s \in OperandsOf(t, h)
  BY <1>7
<1>9. h \in successors(t, s)
  BY <1>7, <1>8, SuccessorsAreGates
<1>. QED BY <1>5, <1>7, <1>8, <1>9

\* The highest level.
LEMMA LevelsBounded ==
  ASSUME NEW t, TapeContract(t), ScheduleContract(t), NEW g \in GateSlots(t), NEW s \in Slots(t)
  PROVE  t.slot_level[s] \in 0 .. Len(t.levels) /\ Len(t.levels) \in Nat /\ t.slot_level[g] \in 1 .. Len(t.levels)
<1>1. /\ Len(t.levels) \in Nat /\ \A x, u \in Slots(t) : x < u => t.slot_level[x] <= t.slot_level[u]
      /\ \A h \in GateSlots(t) : t.slot_level[h] \in 1 .. Len(t.levels)
  BY DEF ScheduleContract, LevelsExact
<1>2. t.slot_level[s] \in Nat
  BY DEF TapeContract, FieldsTyped
<1>3. CASE s \in GateSlots(t)
  BY <1>1, <1>3
<1>4. CASE s \notin GateSlots(t)
  <2>1. g \in Slots(t) /\ s < g
    BY <1>4, SlotKinds DEF GateSlots, Slots, TapeContract, FieldsTyped
  <2>2. t.slot_level[s] <= t.slot_level[g]
    BY <1>1, <2>1
  <2>. QED BY <1>1, <1>2, <2>2
<1>. QED BY <1>1, <1>3, <1>4

\* The level `ready` of a chain lies above those of all its operands, and no gate
\* it leaves to be read lies below it (fuse.rs:286-289).
THEOREM ChainReady ==
  ASSUME NEW t, TapeContract(t), ScheduleContract(t), NEW links, ChainLinks(t, links)
  PROVE  /\ ready(t, links) \in 1 .. Len(t.levels) /\ Len(t.levels) \in Nat
         /\ \A s \in ChainInputs(links) : s \in Slots(t) /\ t.slot_level[s] \in Nat /\ t.slot_level[s] < ready(t, links)
         /\ \A s \in Materialized(links) : t.slot_level[s] >= ready(t, links)
<1>. DEFINE T == {t.slot_level[s] : s \in ChainInputs(links)}
            m == Len(t.levels)
            last == Last(links).carry
<1>1. Strung(t, {}, links) /\ consistent(t, links)
  BY DEF ChainLinks
<1>2. links \in Seq(AdmittedLinks(t)) /\ Len(links) \in Nat /\ Len(links) > 0 /\ 1 \in 1 .. Len(links)
      /\ last = links[Len(links)].carry /\ Len(links) \in 1 .. Len(links)
  BY <1>1 DEF Strung, Last
<1>3. last \in GateSlots(t) /\ last # NoSlot
  <2>1. LinkShaped(t, links[Len(links)])
    BY <1>1, <1>2, LinkOfChain
  <2>2. NoSlot \notin GateSlots(t)
    BY SlotKinds DEF Slots, NoSlot
  <2>. QED BY <1>2, <2>1, <2>2 DEF LinkShaped
<1>4. \A s \in ChainInputs(links) : s \in Slots(t)
  BY <1>1, ChainReads
<1>5. m \in Nat /\ \A s \in Slots(t) : t.slot_level[s] \in 0 .. m
  BY <1>3, LevelsBounded
<1>6. links[1].cin \in ChainInputs(links)
  <2>1. LinkShaped(t, links[1])
    BY <1>1, <1>2, LinkOfChain
  <2>2. links[1].cin # NoSlot
    BY <2>1, SlotKinds DEF LinkShaped, Slots, NoSlot
  <2>. QED BY <2>2 DEF ChainInputs
<1>7. T \in SUBSET (0 .. m) /\ T # {}
  BY <1>4, <1>5, <1>6
<1>8. Max(T) \in T /\ \A n \in T : n <= Max(T)
  <2>. HIDE DEF T
  <2>. QED BY <1>5, <1>7, GreatestMember
<1>9. ready(t, links) = 1 + Max(T)
  BY DEF ready
<1>10. \A s \in Materialized(links) : t.slot_level[s] >= ready(t, links)
  BY <1>1 DEF consistent
<1>11. last \in Materialized(links)
  BY <1>3 DEF Materialized
<1>12. t.slot_level[last] \in 1 .. m /\ t.slot_level[last] >= ready(t, links)
  BY <1>3, <1>10, <1>11, LevelsBounded, SlotKinds
<1>. DEFINE top == Max(T)
<1>13. top \in 0 .. m /\ \A n \in T : n <= top
  <2>. HIDE DEF T
  <2>. QED BY <1>7, <1>8
<1>14. ASSUME NEW s \in ChainInputs(links) PROVE t.slot_level[s] <= top /\ t.slot_level[s] \in 0 .. m
  BY <1>4, <1>5, <1>13
<1>. HIDE DEF T, top, last, m
<1>. QED BY <1>4, <1>5, <1>9, <1>10, <1>12, <1>13, <1>14 DEF top, m

\* A chain of the tape is a chain of links of it.
LEMMA ChainIsChain ==
  ASSUME NEW t, NEW chain \in ChainsOf(t)
  PROVE  IsChain(t, chain)
<1>. DEFINE links == chain.links
            n == Len(links)
<1>1. ChainLinks(t, links) /\ chain = Chain(t, links)
  BY ChainHasLinks
<1>2. Strung(t, {}, links) /\ n \in 1 .. MaxChain
  BY <1>1 DEF ChainLinks
<1>3. DOMAIN links = 1 .. n
  BY <1>2 DEF Strung
<1>4. chain.cin = links[1].cin
  BY <1>1 DEF Chain
<1>. HIDE DEF links, n
<1>5. ASSUME NEW i \in 1 .. n
      PROVE  IsLink(t, links[i]) /\ links[i].cin = IF i = 1 THEN chain.cin ELSE links[i - 1].carry
  <2>1. IsLink(t, links[i])
    BY <1>2, LinkOfChain DEF LinkShaped, n
  <2>2. i # 1 => i \in 2 .. n
    BY <1>2
  <2>. QED BY <1>2, <1>4, <2>1, <2>2 DEF Strung, n
<1>. QED BY <1>2, <1>3, <1>5 DEF IsChain, links, n

-----------------------------------------------------------------------------
(* The blocks of the arena.                                                *)

\* Sequences of three, flattened.
Triples(n, a, b, c) == [k \in 1 .. n |-> <<a[k], b[k], c[k]>>]
InThrees(q, n, V, a, b, c) ==
  /\ q \in Seq(V) /\ Len(q) = 3 * n
  /\ \A k \in 1 .. n : /\ q[3 * (k - 1) + 1] = a[k] /\ q[3 * (k - 1) + 2] = b[k]
                       /\ q[3 * (k - 1) + 3] = c[k]
LEMMA FlattenTriples ==
  ASSUME NEW n \in Nat, NEW V, NEW a \in [1 .. n -> V], NEW b \in [1 .. n -> V], NEW c \in [1 .. n -> V]
  PROVE  InThrees(FlattenSeq(Triples(n, a, b, c)), n, V, a, b, c)
<1>. DEFINE seqs == Triples(n, a, b, c)
<1>1. seqs \in [1 .. n -> Seq(V)]
  BY DEF Triples
<1>2. \A k \in 1 .. n : Len(seqs[k]) = 3 /\ seqs[k][1] = a[k] /\ seqs[k][2] = b[k] /\ seqs[k][3] = c[k]
  BY DEF Triples
<1>. HIDE DEF seqs
<1>3. PICK f : Joins(f, n, V, seqs)
  BY <1>1, Joining
<1>4. InPlace(f, n, seqs)
  BY <1>1, <1>3, JoinedParts
<1>5. /\ \A k \in 0 .. n : Len(f[k]) \in Nat
      /\ FlattenSeq(seqs) = f[n]
      /\ \A k \in 1 .. n : Len(f[k]) = Len(f[k - 1]) + Len(seqs[k])
                           /\ \A j \in 1 .. Len(seqs[k]) : f[k][Len(f[k - 1]) + j] = seqs[k][j]
      /\ \A k \in 0 .. n : Len(f[k]) <= Len(f[n]) /\ \A i \in 1 .. Len(f[k]) : f[n][i] = f[k][i]
  BY <1>4 DEF InPlace
<1>. DEFINE S == {k \in 0 .. n : Len(f[k]) = 3 * k}
<1>6. \A k \in 0 .. n : k \in S
  <2>1. 0 \in S
    <3>1. f[0] = <<>>
      BY <1>3 DEF Joins
    <3>. QED BY <3>1
  <2>2. ASSUME NEW k \in 0 .. n - 1, k \in S PROVE k + 1 \in S
    <3>1. k + 1 \in 1 .. n /\ (k + 1) - 1 = k /\ k + 1 \in 0 .. n
      OBVIOUS
    <3>2. Len(f[k + 1]) = Len(f[k]) + Len(seqs[k + 1])
      BY <1>5, <3>1
    <3>3. Len(f[k]) = 3 * k /\ Len(seqs[k + 1]) = 3
      BY <1>2, <2>2, <3>1
    <3>. QED BY <3>1, <3>2, <3>3
  <2>3. 0 \in Nat
    OBVIOUS
  <2>. HIDE DEF S
  <2>. QED BY <2>1, <2>2, <2>3, IntervalInduction
<1>7. \A k \in 0 .. n : Len(f[k]) = 3 * k
  BY <1>6
<1>8. ASSUME NEW k \in 1 .. n, NEW j \in 1 .. 3 PROVE f[n][3 * (k - 1) + j] = seqs[k][j]
  <2>1. k - 1 \in 0 .. n /\ k \in 0 .. n
    OBVIOUS
  <2>2. Len(f[k - 1]) = 3 * (k - 1) /\ Len(f[k]) = 3 * k
    BY <1>7, <2>1
  <2>3. j \in 1 .. Len(seqs[k])
    BY <1>2
  <2>4. f[k][Len(f[k - 1]) + j] = seqs[k][j]
    BY <1>5, <2>3
  <2>5. 3 * (k - 1) + j \in 1 .. Len(f[k])
    BY <2>2
  <2>6. f[n][3 * (k - 1) + j] = f[k][3 * (k - 1) + j]
    BY <1>5, <2>1, <2>5
  <2>. QED BY <2>2, <2>4, <2>6
<1>9. f[n] \in Seq(V) /\ Len(f[n]) = 3 * n
  <2>1. n \in 0 .. n
    OBVIOUS
  <2>. QED BY <1>3, <1>7, <2>1 DEF Joins
<1>10. 1 \in 1 .. 3 /\ 2 \in 1 .. 3 /\ 3 \in 1 .. 3
  OBVIOUS
<1>11. ASSUME NEW k \in 1 .. n
       PROVE  f[n][3 * (k - 1) + 1] = a[k] /\ f[n][3 * (k - 1) + 2] = b[k] /\ f[n][3 * (k - 1) + 3] = c[k]
  <2>1. f[n][3 * (k - 1) + 1] = seqs[k][1] /\ f[n][3 * (k - 1) + 2] = seqs[k][2] /\ f[n][3 * (k - 1) + 3] = seqs[k][3]
    BY <1>8, <1>10
  <2>. QED BY <1>2, <2>1
<1>. QED BY <1>5, <1>9, <1>11 DEF InThrees, seqs

\* Two sequences, one after the other.
After(a, b) ==
  /\ Len(a) \in Nat /\ Len(b) \in Nat /\ Len(a \o b) = Len(a) + Len(b)
  /\ \A i \in 1 .. Len(a) : (a \o b)[i] = a[i]
  /\ \A i \in 1 .. Len(b) : (a \o b)[Len(a) + i] = b[i]
LEMMA Concatenated ==
  ASSUME NEW V, NEW a \in Seq(V), NEW b \in Seq(V)
  PROVE  a \o b \in Seq(V) /\ After(a, b)
BY DEF After

\* The gates of a run that are not fused, in slot order.
LEMMA RunOfLevel ==
  ASSUME NEW t, ScheduleContract(t), NEW r \in 1 .. Len(t.runs)
  PROVE  \E l \in 1 .. Len(t.levels) :
           /\ r \in t.levels[l].run_start .. t.levels[l].run_end - 1
           /\ t.runs[r].start \in Nat /\ t.runs[r].end \in Nat
           /\ t.levels[l].start <= t.runs[r].start /\ t.runs[r].start < t.runs[r].end
           /\ t.runs[r].end <= t.levels[l].end
           /\ \A g \in t.runs[r].start .. t.runs[r].end - 1 :
                g \in GateSlots(t) /\ t.slot_level[g] = l /\ t.ops[g] = t.runs[r].op
<1>1. PICK l \in 1 .. Len(t.levels) : r \in t.levels[l].run_start .. t.levels[l].run_end - 1
  BY DEF ScheduleContract, RunsExact
<1>2. /\ t.runs[r].start \in Nat /\ t.runs[r].end \in Nat
      /\ t.levels[l].start <= t.runs[r].start /\ t.runs[r].start < t.runs[r].end
      /\ t.runs[r].end <= t.levels[l].end
      /\ \A g \in t.runs[r].start .. t.runs[r].end - 1 : t.ops[g] = t.runs[r].op
  BY <1>1 DEF ScheduleContract, LevelRunsExact
<1>3. /\ t.levels[l].start \in Nat /\ t.levels[l].end \in Nat
      /\ LevelSlots(t, l) = {g \in GateSlots(t) : t.slot_level[g] = l}
  BY DEF ScheduleContract, LevelsExact
<1>4. \A g \in t.runs[r].start .. t.runs[r].end - 1 : g \in LevelSlots(t, l)
  BY <1>2, <1>3 DEF LevelSlots
<1>. QED BY <1>1, <1>2, <1>3, <1>4

RunGates(t, used, r) == (t.runs[r].start .. t.runs[r].end - 1) \ used

LEMMA RunSlotsAscend ==
  ASSUME NEW t, TapeContract(t), ScheduleContract(t), NEW used, NEW r \in 1 .. Len(t.runs)
  PROVE  LET slots == RunSlots(used, t.runs[r]) IN
         /\ RunGates(t, used, r) \in SUBSET GateSlots(t)
         /\ slots \in Seq(RunGates(t, used, r)) /\ slots \in Seq(Nat)
         /\ \A i, j \in 1 .. Len(slots) : slots[i] = slots[j] => i = j
         /\ \A s \in RunGates(t, used, r) : \E i \in 1 .. Len(slots) : slots[i] = s
<1>. DEFINE T == RunGates(t, used, r)
<1>1. /\ t.runs[r].start \in Nat /\ t.runs[r].end \in Nat
      /\ \A g \in t.runs[r].start .. t.runs[r].end - 1 : g \in GateSlots(t)
  BY RunOfLevel
<1>2. T \in SUBSET GateSlots(t)
  BY <1>1 DEF RunGates
<1>3. T \in SUBSET Nat /\ IsFiniteSet(T)
  <2>1. IsFiniteSet(t.runs[r].start .. t.runs[r].end - 1)
    <3>1. \A a, b \in Nat : IsFiniteSet(a .. b - 1)
      <4>1. \A a, b \in Int : IsFiniteSet(a .. b)
        BY FS_Interval
      <4>. QED BY <4>1
    <3>. QED BY <1>1, <3>1
  <2>2. IsFiniteSet(T)
    BY <2>1, FS_Subset DEF RunGates
  <2>. QED BY <1>1, <2>2 DEF RunGates
<1>4. RunSlots(used, t.runs[r]) = Ascending(T)
  BY DEF RunSlots, RunGates
<1>. HIDE DEF T
<1>5. /\ Ascending(T) \in [1 .. Cardinality(T) -> T] /\ Len(Ascending(T)) = Cardinality(T) /\ Cardinality(T) \in Nat
      /\ \A k \in 1 .. Cardinality(T) : Rank(T)[Ascending(T)[k]] = k
      /\ \A x \in T : Ascending(T)[Rank(T)[x]] = x /\ Rank(T)[x] \in 1 .. Cardinality(T)
  BY <1>3, AscendingOrder DEF Ascends, Numbered
<1>6. Ascending(T) \in Seq(T) /\ Ascending(T) \in Seq(Nat)
  <2>. DEFINE n == Cardinality(T)
              q == Ascending(T)
  <2>1. n \in Nat /\ q \in [1 .. n -> T]
    BY <1>5
  <2>2. q \in [1 .. n -> Nat]
    BY <1>3, <2>1
  <2>. HIDE DEF n, q
  <2>. QED BY <2>1, <2>2 DEF q
<1>. QED BY <1>2, <1>4, <1>5, <1>6 DEF T

\* The block before those of a chain.
BeforeChain(t, c) == 2 + Len(t.runs) + 3 * (c - 1)

\* The blocks of a tape without memories.
BlocksMade(t, found, blocks) ==
  /\ blocks \in Seq(Seq(Nat)) /\ Len(blocks) = 2 + Len(t.runs) + 3 * Len(found.chains)
  /\ blocks[1] = t.input_slots /\ blocks[2] = LiveOut(t)
  /\ \A r \in 1 .. Len(t.runs) : blocks[2 + r] = RunSlots(found.used, t.runs[r])
  /\ \A c \in 1 .. Len(found.chains) :
       /\ blocks[BeforeChain(t, c) + 1] = SumBlock(found.chains[c])
       /\ blocks[BeforeChain(t, c) + 2] = PxqBlock(found.chains[c])
       /\ blocks[BeforeChain(t, c) + 3] = GBlock(found.chains[c])

\* There are no other blocks.
LEMMA BlockIndex ==
  ASSUME NEW m \in Nat, NEW n \in Nat, NEW k \in 1 .. 2 + m + 3 * n
  PROVE  \/ k = 1 \/ k = 2 \/ \E r \in 1 .. m : k = 2 + r
         \/ \E c \in 1 .. n, j \in 1 .. 3 : k = 2 + m + 3 * (c - 1) + j
<1>1. CASE k <= 2
  BY <1>1
<1>2. CASE k > 2 /\ k <= 2 + m
  <2>1. k - 2 \in 1 .. m /\ k = 2 + (k - 2)
    BY <1>2
  <2>. QED BY <2>1
<1>3. CASE k > 2 + m
  <2>. DEFINE x == k - 3 - m
              q == x \div 3
              j == (x % 3) + 1
  <2>1. x \in Nat /\ x < 3 * n
    BY <1>3
  <2>. HIDE DEF x
  <2>2. q \in Nat /\ x % 3 \in 0 .. 2 /\ x = (3 * q) + (x % 3)
    BY <2>1
  <2>. HIDE DEF q
  <2>3. q + 1 \in 1 .. n /\ j \in 1 .. 3 /\ k = 2 + m + 3 * ((q + 1) - 1) + j
    BY <2>1, <2>2 DEF x
  <2>. QED BY <2>3
<1>. QED BY <1>1, <1>2, <1>3

\* The registers are all live: a tape has a slot for the output of each.
LEMMA AllLive ==
  ASSUME NEW t, TapeContract(t)
  PROVE  LET n == Len(t.reg_out_slots) IN
         /\ n \in Nat /\ DOMAIN Live(t) = 1 .. n /\ Len(Live(t)) = n /\ \A r \in 1 .. n : Live(t)[r] = r
         /\ DOMAIN LiveOut(t) = 1 .. n /\ LiveOut(t) \in Seq(Slots(t)) /\ Len(LiveOut(t)) = n
         /\ \A r \in 1 .. n : LiveOut(t)[r] = t.reg_out_slots[r]
<1>. DEFINE n == Len(t.reg_out_slots)
<1>1. n \in Nat /\ \A r \in 1 .. n : t.reg_out_slots[r] \in Slots(t)
  BY DEF TapeContract, FieldsTyped, Registers
<1>2. NoSlot \notin Slots(t)
  BY SlotKinds DEF Slots, NoSlot
<1>3. {r \in Registers(t) : t.reg_out_slots[r] # NoSlot} = 1 .. n
  BY <1>1, <1>2 DEF Registers
<1>4. Live(t) = Ascending(1 .. n)
  BY <1>3 DEF Live
<1>. HIDE DEF n
<1>5. Cardinality(1 .. n) = n /\ \A r \in 1 .. n : Ascending(1 .. n)[r] = r
  BY <1>1, RankWhole
<1>6. Ascending(1 .. n) \in [1 .. n -> 1 .. n] /\ Len(Ascending(1 .. n)) = n
  <2>1. 1 .. n \in SUBSET Nat /\ IsFiniteSet(1 .. n)
    BY <1>1, FS_Interval
  <2>2. Ascends(1 .. n)
    BY <2>1, AscendingOrder
  <2>. QED BY <1>5, <2>2 DEF Ascends
<1>7. DOMAIN Live(t) = 1 .. n /\ Len(Live(t)) = n /\ \A r \in 1 .. n : Live(t)[r] = r
  BY <1>4, <1>5, <1>6
<1>8. LiveOut(t) = [r \in 1 .. n |-> t.reg_out_slots[r]]
  BY <1>7 DEF LiveOut
<1>9. LiveOut(t) \in Seq(Slots(t)) /\ Len(LiveOut(t)) = n
  BY <1>1, <1>8
<1>. QED BY <1>1, <1>7, <1>8, <1>9 DEF n

\* Two blocks, some runs and the triples of the chains, one after another.
Listed(blocks, V, x, y, m, n, runs, a, b, c) ==
  /\ blocks \in Seq(V) /\ Len(blocks) = 2 + m + 3 * n /\ blocks[1] = x /\ blocks[2] = y
  /\ \A k \in 1 .. m : blocks[2 + k] = runs[k]
  /\ \A k \in 1 .. n : /\ blocks[2 + m + 3 * (k - 1) + 1] = a[k]
                       /\ blocks[2 + m + 3 * (k - 1) + 2] = b[k]
                       /\ blocks[2 + m + 3 * (k - 1) + 3] = c[k]
LEMMA BlockList ==
  ASSUME NEW V, NEW x \in V, NEW y \in V, NEW m \in Nat, NEW n \in Nat, NEW runs \in [1 .. m -> V],
         NEW a \in [1 .. n -> V], NEW b \in [1 .. n -> V], NEW c \in [1 .. n -> V]
  PROVE  Listed(<<x, y>> \o runs \o FlattenSeq(Triples(n, a, b, c)) \o <<>>, V, x, y, m, n, runs, a, b, c)
<1>. DEFINE words == FlattenSeq(Triples(n, a, b, c))
            sources == <<x, y>>
            front == sources \o runs
            blocks == front \o words
<1>1. InThrees(words, n, V, a, b, c)
  BY FlattenTriples
<1>2. runs \in Seq(V) /\ Len(runs) = m
  OBVIOUS
<1>3. sources \in Seq(V) /\ Len(sources) = 2 /\ sources[1] = x /\ sources[2] = y
  OBVIOUS
<1>. HIDE DEF words, sources
<1>4. words \in Seq(V) /\ Len(words) = 3 * n
  BY <1>1 DEF InThrees
<1>5. front \in Seq(V) /\ After(sources, runs)
  BY <1>2, <1>3, Concatenated
<1>6. /\ Len(front) = 2 + m
      /\ \A i \in 1 .. 2 : front[i] = sources[i]
      /\ \A i \in 1 .. m : front[2 + i] = runs[i]
  BY <1>2, <1>3, <1>5 DEF After
<1>. HIDE DEF front
<1>7. blocks \in Seq(V) /\ After(front, words)
  BY <1>4, <1>5, Concatenated
<1>8. /\ Len(blocks) = 2 + m + 3 * n
      /\ \A i \in 1 .. 2 + m : blocks[i] = front[i]
      /\ \A i \in 1 .. 3 * n : blocks[2 + m + i] = words[i]
  BY <1>4, <1>6, <1>7 DEF After
<1>. HIDE DEF blocks
<1>9. blocks[1] = x /\ blocks[2] = y
  <2>1. 1 \in 1 .. 2 + m /\ 2 \in 1 .. 2 + m /\ 1 \in 1 .. 2 /\ 2 \in 1 .. 2
    OBVIOUS
  <2>. QED BY <1>3, <1>6, <1>8, <2>1
<1>10. ASSUME NEW k \in 1 .. m PROVE blocks[2 + k] = runs[k]
  <2>1. 2 + k \in 1 .. 2 + m
    OBVIOUS
  <2>. QED BY <1>6, <1>8, <2>1
<1>11. ASSUME NEW k \in 1 .. n, NEW j \in 1 .. 3
       PROVE  blocks[2 + m + 3 * (k - 1) + j] = words[3 * (k - 1) + j]
  <2>1. 3 * (k - 1) + j \in 1 .. 3 * n /\ 2 + m + (3 * (k - 1) + j) = 2 + m + 3 * (k - 1) + j
    OBVIOUS
  <2>. QED BY <1>8, <2>1
<1>12. 1 \in 1 .. 3 /\ 2 \in 1 .. 3 /\ 3 \in 1 .. 3
  OBVIOUS
<1>13. ASSUME NEW k \in 1 .. n
       PROVE  /\ blocks[2 + m + 3 * (k - 1) + 1] = a[k]
              /\ blocks[2 + m + 3 * (k - 1) + 2] = b[k]
              /\ blocks[2 + m + 3 * (k - 1) + 3] = c[k]
  <2>1. /\ blocks[2 + m + 3 * (k - 1) + 1] = words[3 * (k - 1) + 1]
        /\ blocks[2 + m + 3 * (k - 1) + 2] = words[3 * (k - 1) + 2]
        /\ blocks[2 + m + 3 * (k - 1) + 3] = words[3 * (k - 1) + 3]
    BY <1>11, <1>12
  <2>. QED BY <1>1, <2>1 DEF InThrees
<1>14. Listed(blocks, V, x, y, m, n, runs, a, b, c)
  BY <1>7, <1>8, <1>9, <1>10, <1>13 DEF Listed
<1>15. <<x, y>> \o runs \o FlattenSeq(Triples(n, a, b, c)) \o <<>> = blocks
  <2>1. \A q \in Seq(V) : q \o <<>> = q
    OBVIOUS
  <2>2. <<x, y>> \o runs \o FlattenSeq(Triples(n, a, b, c)) \o <<>> = blocks \o <<>>
    BY DEF blocks, front, words, sources
  <2>. QED BY <1>7, <2>1, <2>2
<1>. QED BY <1>14, <1>15

\* The words of a chain as blocks.
LEMMA ChainBlocks ==
  ASSUME NEW t, NEW chain \in ChainsOf(t)
  PROVE  SumBlock(chain) \in Seq(Nat) /\ PxqBlock(chain) \in Seq(Nat) /\ GBlock(chain) \in Seq(Nat)
<1>. DEFINE links == chain.links
            n == Len(links)
<1>1. links \in Seq(AdmittedLinks(t)) /\ links # <<>>
  BY ChainHasLinks DEF ChainLinks, Strung
<1>2. AdmittedLinks(t) \subseteq LinkRecords
  BY DEF AdmittedLinks
<1>3. DOMAIN links = 1 .. n /\ n \in Nat /\ n \in 1 .. n
  BY <1>1
<1>4. \A i \in 1 .. n : links[i] \in LinkRecords
  BY <1>1, <1>2
<1>5. \A i \in 1 .. n : links[i].sum \in Nat /\ links[i].pxq \in Nat /\ links[i].g \in Nat /\ links[i].carry \in Nat
  BY <1>4 DEF LinkRecords
<1>. HIDE DEF n
<1>6. [i \in 1 .. n |-> links[i].sum] \in Seq(Nat)
  BY <1>3, <1>5
<1>7. [i \in 1 .. n |-> links[i].pxq] \in Seq(Nat) /\ [i \in 1 .. n |-> links[i].g] \in Seq(Nat)
      /\ <<>> \in Seq(Nat)
  BY <1>3, <1>5
<1>8. Last(links).carry \in Nat
  BY <1>3, <1>5 DEF Last, n
<1>9. Append([i \in 1 .. n |-> links[i].sum], Last(links).carry) \in Seq(Nat)
  BY <1>6, <1>8
<1>. QED BY <1>3, <1>7, <1>9 DEF SumBlock, PxqBlock, GBlock

\* The blocks of a tape are those.
LEMMA PlainBlocks ==
  ASSUME NEW t, TapeContract(t), ScheduleContract(t), NEW found, FoundWell(t, found),
         NEW fused, fused.chains = found.chains, fused.used = found.used, fused.reads = <<>>
  PROVE  BlocksMade(t, found, Blocks(t, fused))
<1>. DEFINE V == Seq(Nat)
            m == Len(t.runs)
            n == Len(found.chains)
            sums == [c \in 1 .. n |-> SumBlock(found.chains[c])]
            pxqs == [c \in 1 .. n |-> PxqBlock(found.chains[c])]
            gs == [c \in 1 .. n |-> GBlock(found.chains[c])]
            runs == [k \in 1 .. m |-> RunSlots(found.used, t.runs[k])]
            triples == [c \in 1 .. n |-> <<SumBlock(found.chains[c]), PxqBlock(found.chains[c]), GBlock(found.chains[c])>>]
            blocks == Blocks(t, fused)
<1>1. m \in Nat /\ DOMAIN t.runs = 1 .. m
  BY DEF ScheduleContract, RunsExact
<1>2. n \in Nat /\ found.chains \in Seq(ChainsOf(t)) /\ DOMAIN found.chains = 1 .. n
  BY DEF FoundWell
<1>3. t.input_slots \in V
  <2>1. Slots(t) \subseteq Nat
    BY DEF Slots
  <2>2. t.input_slots \in [1 .. Len(t.input_slots) -> Slots(t)] /\ Len(t.input_slots) \in Nat
    BY DEF TapeContract, FieldsTyped, InputIds
  <2>. QED BY <2>1, <2>2
<1>4. LiveOut(t) \in V
  <2>1. Slots(t) \subseteq Nat
    BY DEF Slots
  <2>2. LiveOut(t) \in Seq(Slots(t))
    BY AllLive
  <2>. QED BY <2>1, <2>2
<1>5. ASSUME NEW k \in 1 .. m PROVE RunSlots(found.used, t.runs[k]) \in V
  BY RunSlotsAscend
<1>6. ASSUME NEW c \in 1 .. n
      PROVE  SumBlock(found.chains[c]) \in V /\ PxqBlock(found.chains[c]) \in V /\ GBlock(found.chains[c]) \in V
  <2>1. found.chains[c] \in ChainsOf(t)
    BY <1>2
  <2>. QED BY <2>1, ChainBlocks
<1>7. /\ sums \in [1 .. n -> V] /\ pxqs \in [1 .. n -> V] /\ gs \in [1 .. n -> V] /\ runs \in [1 .. m -> V]
      /\ \A k \in 1 .. m : runs[k] = RunSlots(found.used, t.runs[k])
      /\ \A c \in 1 .. n : /\ sums[c] = SumBlock(found.chains[c]) /\ pxqs[c] = PxqBlock(found.chains[c])
                           /\ gs[c] = GBlock(found.chains[c])
  <2>. HIDE DEF V, m, n
  <2>. QED BY <1>5, <1>6
<1>8. blocks = <<t.input_slots, LiveOut(t)>> \o runs \o FlattenSeq(Triples(n, sums, pxqs, gs)) \o <<>>
  <2>1. [k \in DOMAIN fused.reads |-> fused.reads[k].read_tops] = <<>>
    OBVIOUS
  <2>2. Triples(n, sums, pxqs, gs) = triples
    BY <1>7 DEF Triples
  <2>3. blocks = <<t.input_slots, LiveOut(t)>> \o runs \o FlattenSeq(triples) \o <<>>
    BY <1>1, <1>2, <2>1 DEF Blocks
  <2>. QED BY <2>2, <2>3
<1>. HIDE DEF m, n, V, blocks, runs, sums, pxqs, gs, triples
<1>9. Listed(blocks, V, t.input_slots, LiveOut(t), m, n, runs, sums, pxqs, gs)
  BY <1>1, <1>2, <1>3, <1>4, <1>7, <1>8, BlockList
<1>10. \A c \in 1 .. n, j \in 1 .. 3 : BeforeChain(t, c) + j = 2 + m + 3 * (c - 1) + j
  BY <1>1, <1>2 DEF BeforeChain, m
<1>11. 1 \in 1 .. 3 /\ 2 \in 1 .. 3 /\ 3 \in 1 .. 3
  OBVIOUS
<1>12. ASSUME NEW c \in 1 .. n
       PROVE  /\ blocks[BeforeChain(t, c) + 1] = SumBlock(found.chains[c])
              /\ blocks[BeforeChain(t, c) + 2] = PxqBlock(found.chains[c])
              /\ blocks[BeforeChain(t, c) + 3] = GBlock(found.chains[c])
  <2>1. /\ BeforeChain(t, c) + 1 = 2 + m + 3 * (c - 1) + 1
        /\ BeforeChain(t, c) + 2 = 2 + m + 3 * (c - 1) + 2
        /\ BeforeChain(t, c) + 3 = 2 + m + 3 * (c - 1) + 3
    BY <1>10, <1>11
  <2>. QED BY <1>7, <1>9, <2>1 DEF Listed
<1>13. BlocksMade(t, found, blocks)
  BY <1>7, <1>9, <1>12 DEF BlocksMade, Listed, m, n, V
<1>. QED BY <1>13 DEF blocks

\* The blocks of a chain.
ChainBlock(chain, j) == IF j = 1 THEN SumBlock(chain) ELSE IF j = 2 THEN PxqBlock(chain) ELSE GBlock(chain)

\* What is at place i of block j of a chain: a gate of the link.
Placing(links, j, i, s, l) ==
  /\ l \in 1 .. Len(links)
  /\ \/ j = 1 /\ i = l /\ s = links[l].sum
     \/ j = 1 /\ i = Len(links) + 1 /\ l = Len(links) /\ s = links[l].carry
     \/ j = 2 /\ i = l /\ s = links[l].pxq
     \/ j = 3 /\ i = l /\ s = links[l].g

\* The length of a block of a chain.
LEMMA ChainBlockLength ==
  ASSUME NEW t, NEW chain \in ChainsOf(t)
  PROVE  LET n == Len(chain.links) IN
         /\ n \in 1 .. MaxChain /\ DOMAIN chain.links = 1 .. n
         /\ Len(SumBlock(chain)) = n + 1 /\ DOMAIN SumBlock(chain) = 1 .. n + 1
         /\ \A i \in 1 .. n : SumBlock(chain)[i] = chain.links[i].sum
         /\ SumBlock(chain)[n + 1] = chain.links[n].carry
         /\ chain.ext_pxq => /\ DOMAIN PxqBlock(chain) = 1 .. n /\ Len(PxqBlock(chain)) = n
                             /\ \A i \in 1 .. n : PxqBlock(chain)[i] = chain.links[i].pxq
         /\ chain.ext_g => /\ DOMAIN GBlock(chain) = 1 .. n /\ Len(GBlock(chain)) = n
                           /\ \A i \in 1 .. n : GBlock(chain)[i] = chain.links[i].g
         /\ ~chain.ext_pxq => PxqBlock(chain) = <<>>
         /\ ~chain.ext_g => GBlock(chain) = <<>>
<1>. DEFINE links == chain.links
            n == Len(links)
            sums == [i \in 1 .. n |-> links[i].sum]
<1>1. links \in Seq(AdmittedLinks(t)) /\ links # <<>> /\ n \in 1 .. MaxChain
  BY ChainHasLinks DEF ChainLinks, Strung
<1>2. DOMAIN links = 1 .. n /\ n \in Nat
  BY <1>1
<1>3. Last(links).carry = links[n].carry
  BY DEF Last
<1>. HIDE DEF n
<1>4. sums \in Seq({links[i].sum : i \in 1 .. n}) /\ Len(sums) = n
  BY <1>2
<1>5. \A i \in 1 .. n : sums[i] = links[i].sum
  OBVIOUS
<1>6. SumBlock(chain) = Append(sums, links[n].carry)
  BY <1>2, <1>3 DEF SumBlock
<1>. HIDE DEF sums
<1>7. \A V : \A q \in Seq(V) : \A x \in V :
        /\ DOMAIN Append(q, x) = 1 .. Len(q) + 1 /\ Len(Append(q, x)) = Len(q) + 1
        /\ Append(q, x)[Len(q) + 1] = x /\ \A i \in 1 .. Len(q) : Append(q, x)[i] = q[i]
  OBVIOUS
<1>8. /\ DOMAIN SumBlock(chain) = 1 .. n + 1 /\ Len(SumBlock(chain)) = n + 1
      /\ SumBlock(chain)[n + 1] = links[n].carry /\ \A i \in 1 .. n : SumBlock(chain)[i] = sums[i]
  <2>. DEFINE V == {links[i].sum : i \in 1 .. n} \cup {links[n].carry}
  <2>1. sums \in Seq(V) /\ links[n].carry \in V
    BY <1>4
  <2>. HIDE DEF V
  <2>. QED BY <1>4, <1>6, <1>7, <2>1
<1>9. \A f : LET q == [i \in 1 .. n |-> f[i]] IN Len(q) = n /\ DOMAIN q = 1 .. n
  BY <1>2
<1>10. chain.ext_pxq => /\ DOMAIN PxqBlock(chain) = 1 .. n /\ Len(PxqBlock(chain)) = n
                        /\ \A i \in 1 .. n : PxqBlock(chain)[i] = links[i].pxq
  <2>. HIDE DEF links
  <2>1. chain.ext_pxq => PxqBlock(chain) = [i \in 1 .. n |-> links[i].pxq]
    BY <1>2 DEF PxqBlock, links
  <2>. QED BY <1>2, <2>1
<1>11. chain.ext_g => /\ DOMAIN GBlock(chain) = 1 .. n /\ Len(GBlock(chain)) = n
                      /\ \A i \in 1 .. n : GBlock(chain)[i] = links[i].g
  <2>. HIDE DEF links
  <2>1. chain.ext_g => GBlock(chain) = [i \in 1 .. n |-> links[i].g]
    BY <1>2 DEF GBlock, links
  <2>. QED BY <1>2, <2>1
<1>12. (~chain.ext_pxq => PxqBlock(chain) = <<>>) /\ (~chain.ext_g => GBlock(chain) = <<>>)
  BY DEF PxqBlock, GBlock
<1>. QED BY <1>1, <1>2, <1>5, <1>8, <1>10, <1>11, <1>12 DEF n

\* An entry of a block of a chain is a gate of one of its links.
LEMMA ChainEntry ==
  ASSUME NEW t, NEW chain \in ChainsOf(t), NEW j \in 1 .. 3, NEW i \in DOMAIN ChainBlock(chain, j)
  PROVE  \E l : Placing(chain.links, j, i, ChainBlock(chain, j)[i], l)
<1>. DEFINE n == Len(chain.links)
            s == ChainBlock(chain, j)[i]
<1>1. n \in Nat /\ n > 0
  BY ChainBlockLength
<1>2. CASE j = 1
  <2>1. i \in 1 .. n + 1 /\ s = SumBlock(chain)[i]
    BY <1>2, ChainBlockLength DEF ChainBlock
  <2>2. CASE i = n + 1
    <3>1. s = chain.links[n].carry
      BY <2>1, <2>2, ChainBlockLength
    <3>2. Placing(chain.links, j, i, s, n)
      BY <1>1, <1>2, <2>2, <3>1 DEF Placing
    <3>. QED BY <3>2
  <2>3. CASE i # n + 1
    <3>1. i \in 1 .. n
      BY <1>1, <2>1, <2>3
    <3>2. s = chain.links[i].sum
      BY <2>1, <3>1, ChainBlockLength
    <3>3. Placing(chain.links, j, i, s, i)
      BY <1>2, <3>1, <3>2 DEF Placing
    <3>. QED BY <3>3
  <2>. QED BY <2>2, <2>3
<1>3. CASE j = 2
  <2>1. i \in DOMAIN PxqBlock(chain) /\ s = PxqBlock(chain)[i]
    BY <1>3 DEF ChainBlock
  <2>2. chain.ext_pxq
    <3>1. DOMAIN <<>> = {}
      OBVIOUS
    <3>. QED BY <2>1, <3>1, ChainBlockLength
  <2>3. i \in 1 .. n /\ s = chain.links[i].pxq
    BY <2>1, <2>2, ChainBlockLength
  <2>4. Placing(chain.links, j, i, s, i)
    BY <1>3, <2>3 DEF Placing
  <2>. QED BY <2>4
<1>4. CASE j = 3
  <2>1. i \in DOMAIN GBlock(chain) /\ s = GBlock(chain)[i]
    BY <1>4 DEF ChainBlock
  <2>2. chain.ext_g
    <3>1. DOMAIN <<>> = {}
      OBVIOUS
    <3>. QED BY <2>1, <3>1, ChainBlockLength
  <2>3. i \in 1 .. n /\ s = chain.links[i].g
    BY <2>1, <2>2, ChainBlockLength
  <2>4. Placing(chain.links, j, i, s, i)
    BY <1>4, <2>3 DEF Placing
  <2>. QED BY <2>4
<1>. QED BY <1>2, <1>3, <1>4

\* No gate of a chain is at two places of its blocks.
LEMMA ChainEntriesApart ==
  ASSUME NEW t, NEW chain \in ChainsOf(t), NEW s, s # NoSlot,
         NEW j, NEW i, NEW l, Placing(chain.links, j, i, s, l),
         NEW k, NEW h, NEW m, Placing(chain.links, k, h, s, m)
  PROVE  j = k /\ i = h
<1>. DEFINE links == chain.links
            n == Len(links)
<1>1. Strung(t, {}, links)
  BY ChainHasLinks DEF ChainLinks
<1>2. l \in 1 .. n /\ m \in 1 .. n /\ n \in Nat
  BY <1>1 DEF Placing, Strung
<1>3. s \in link_gates(links[l]) /\ s \in link_gates(links[m])
  BY LinkGate DEF Placing
<1>4. l = m
  BY <1>1, <1>2, <1>3 DEF Strung
<1>5. LinkShaped(t, links[l])
  BY <1>1, <1>2, LinkOfChain
<1>. DEFINE link == links[l]
<1>6. link.sum # NoSlot => t.ops[link.sum] = "Xor"
  BY <1>5 DEF LinkShaped
<1>7. IsFull(link) => /\ t.ops[link.pxq] = "Xor" /\ t.ops[link.g] = "And" /\ t.ops[link.carry] = "Or"
                      /\ link.sum # link.pxq
  BY <1>5 DEF LinkShaped
<1>8. ~IsFull(link) => link.pxq = NoSlot /\ link.g = NoSlot /\ t.ops[link.carry] = "And"
  BY <1>5 DEF LinkShaped
<1>9. "Xor" # "And" /\ "Xor" # "Or" /\ "And" # "Or"
  OBVIOUS
<1>10. /\ \/ j = 1 /\ i = l /\ s = link.sum
          \/ j = 1 /\ i = n + 1 /\ s = link.carry
          \/ j = 2 /\ i = l /\ s = link.pxq
          \/ j = 3 /\ i = l /\ s = link.g
       /\ \/ k = 1 /\ h = l /\ s = link.sum
          \/ k = 1 /\ h = n + 1 /\ s = link.carry
          \/ k = 2 /\ h = l /\ s = link.pxq
          \/ k = 3 /\ h = l /\ s = link.g
  BY <1>4 DEF Placing
<1>. HIDE DEF link, n
<1>11. CASE IsFull(link)
  BY <1>6, <1>7, <1>9, <1>10, <1>11
<1>12. CASE ~IsFull(link)
  BY <1>6, <1>8, <1>9, <1>10, <1>12
<1>. QED BY <1>11, <1>12

\* What an entry of a block is: an input, a register, a gate of a run that is
\* not fused, or a gate of a chain.
AtChain(t, found, k, i, s, c, j) ==
  /\ k = BeforeChain(t, c) + j /\ \E l : Placing(found.chains[c].links, j, i, s, l)
  /\ s \in ChainGates(found.chains[c].links)
AtRun(t, found, k, s, r) == k = 2 + r /\ s \in RunGates(t, found.used, r)
Entry(t, found, k, i, s) ==
  \/ k = 1 /\ i \in InputIds(t) /\ s = t.input_slots[i]
  \/ k = 2 /\ i \in Registers(t) /\ s = t.reg_out_slots[i]
  \/ \E r \in 1 .. Len(t.runs) : AtRun(t, found, k, s, r)
  \/ \E c \in 1 .. Len(found.chains), j \in 1 .. 3 : AtChain(t, found, k, i, s, c, j)

\* The chains found, by name.
LEMMA ChainByName ==
  ASSUME NEW t, NEW found, FoundWell(t, found), NEW c \in 1 .. Len(found.chains)
  PROVE  /\ found.chains[c] \in ChainsOf(t) /\ ChainLinks(t, found.chains[c].links)
         /\ Strung(t, {}, found.chains[c].links)
         /\ ChainGates(found.chains[c].links) \subseteq found.used
         /\ ChainGates(found.chains[c].links) \subseteq GateSlots(t)
<1>1. found.chains[c] \in ChainsOf(t)
  BY DEF FoundWell
<1>2. ChainLinks(t, found.chains[c].links) /\ Strung(t, {}, found.chains[c].links)
  BY <1>1, ChainHasLinks DEF ChainLinks
<1>3. ChainGates(found.chains[c].links) \subseteq GateSlots(t)
  BY <1>2, ChainGatesNat
<1>4. ChainGates(found.chains[c].links) \subseteq found.used
  BY DEF FoundWell
<1>. QED BY <1>1, <1>2, <1>3, <1>4

\* Every entry of a block that is not absent is one of these.
LEMMA Entries ==
  ASSUME NEW t, TapeContract(t), ScheduleContract(t), NEW found, FoundWell(t, found),
         NEW blocks, BlocksMade(t, found, blocks),
         NEW k \in 1 .. Len(blocks), NEW i \in DOMAIN blocks[k], blocks[k][i] # NoSlot
  PROVE  Entry(t, found, k, i, blocks[k][i])
<1>. DEFINE m == Len(t.runs)
            n == Len(found.chains)
            s == blocks[k][i]
<1>1. m \in Nat /\ n \in Nat /\ Len(blocks) = 2 + m + 3 * n
  BY DEF ScheduleContract, RunsExact, FoundWell, BlocksMade
<1>2. \/ k = 1 \/ k = 2 \/ \E r \in 1 .. m : k = 2 + r
      \/ \E c \in 1 .. n, j \in 1 .. 3 : k = 2 + m + 3 * (c - 1) + j
  <2>1. k \in 1 .. 2 + m + 3 * n
    BY <1>1
  <2>. HIDE DEF m, n
  <2>. QED BY <1>1, <2>1, BlockIndex
<1>3. CASE k = 1
  <2>1. s = t.input_slots[i] /\ i \in DOMAIN t.input_slots
    BY <1>3 DEF BlocksMade
  <2>2. DOMAIN t.input_slots = InputIds(t)
    BY DEF TapeContract, FieldsTyped
  <2>. QED BY <1>3, <2>1, <2>2 DEF Entry
<1>4. CASE k = 2
  <2>1. s = LiveOut(t)[i] /\ i \in DOMAIN LiveOut(t)
    BY <1>4 DEF BlocksMade
  <2>2. i \in Registers(t) /\ LiveOut(t)[i] = t.reg_out_slots[i]
    BY <2>1, AllLive DEF Registers
  <2>. QED BY <1>4, <2>1, <2>2 DEF Entry
<1>5. ASSUME NEW r \in 1 .. m, k = 2 + r PROVE AtRun(t, found, k, s, r)
  <2>1. blocks[k] = RunSlots(found.used, t.runs[r])
    BY <1>5 DEF BlocksMade
  <2>2. blocks[k] \in Seq(RunGates(t, found.used, r))
    BY <2>1, RunSlotsAscend
  <2>3. s \in RunGates(t, found.used, r)
    BY <2>2
  <2>. QED BY <1>5, <2>3 DEF AtRun
<1>6. ASSUME NEW c \in 1 .. n, NEW j \in 1 .. 3, k = 2 + m + 3 * (c - 1) + j
      PROVE  AtChain(t, found, k, i, s, c, j)
  <2>. DEFINE chain == found.chains[c]
  <2>1. k = BeforeChain(t, c) + j
    BY <1>6 DEF BeforeChain
  <2>2. blocks[k] = ChainBlock(chain, j)
    <3>1. /\ blocks[BeforeChain(t, c) + 1] = SumBlock(chain) /\ blocks[BeforeChain(t, c) + 2] = PxqBlock(chain)
          /\ blocks[BeforeChain(t, c) + 3] = GBlock(chain)
      BY DEF BlocksMade
    <3>2. j = 1 \/ j = 2 \/ j = 3
      OBVIOUS
    <3>. QED BY <2>1, <3>1, <3>2 DEF ChainBlock
  <2>3. chain \in ChainsOf(t) /\ Strung(t, {}, chain.links)
    BY ChainByName
  <2>4. PICK l : Placing(chain.links, j, i, s, l)
    BY <2>2, <2>3, ChainEntry
  <2>5. s \in link_gates(chain.links[l]) /\ l \in 1 .. Len(chain.links)
    BY <2>4, LinkGate DEF Placing
  <2>6. s \in ChainGates(chain.links)
    BY <2>3, <2>5, GatesOfChain DEF Strung
  <2>. QED BY <2>1, <2>4, <2>6 DEF AtChain
<1>. QED BY <1>2, <1>3, <1>4, <1>5, <1>6 DEF Entry

\* What kind of signal an entry is.
LEMMA EntryKinds ==
  ASSUME NEW t, TapeContract(t), ScheduleContract(t), NEW found, FoundWell(t, found)
  PROVE  /\ \A i \in InputIds(t) : t.input_slots[i] \in Slots(t) \ GateSlots(t)
         /\ \A r \in Registers(t) : t.reg_out_slots[r] \in Slots(t) \ GateSlots(t)
         /\ \A k, s : \A r \in 1 .. Len(t.runs) : AtRun(t, found, k, s, r) => s \in GateSlots(t) \ found.used
         /\ \A k, i, s : \A c \in 1 .. Len(found.chains), j \in 1 .. 3 :
              AtChain(t, found, k, i, s, c, j) => s \in GateSlots(t) \cap found.used
         /\ GateSlots(t) \subseteq Slots(t)
<1>1. ASSUME NEW k, NEW s, NEW r \in 1 .. Len(t.runs), AtRun(t, found, k, s, r)
      PROVE  s \in GateSlots(t) \ found.used
  <2>1. RunGates(t, found.used, r) \in SUBSET GateSlots(t)
    BY RunSlotsAscend
  <2>2. s \in RunGates(t, found.used, r)
    BY <1>1 DEF AtRun
  <2>. QED BY <2>1, <2>2 DEF RunGates
<1>2. ASSUME NEW k, NEW i, NEW s, NEW c \in 1 .. Len(found.chains), NEW j \in 1 .. 3, AtChain(t, found, k, i, s, c, j)
      PROVE  s \in GateSlots(t) \cap found.used
  <2>1. ChainGates(found.chains[c].links) \subseteq found.used /\ ChainGates(found.chains[c].links) \subseteq GateSlots(t)
    BY ChainByName
  <2>. QED BY <1>2, <2>1 DEF AtChain
<1>. QED BY <1>1, <1>2, SlotKinds

\* Runs do not overlap.
LEMMA RunsApart ==
  ASSUME NEW t, ScheduleContract(t), NEW r \in 1 .. Len(t.runs), NEW q \in 1 .. Len(t.runs), NEW s,
         s \in t.runs[r].start .. t.runs[r].end - 1, s \in t.runs[q].start .. t.runs[q].end - 1
  PROVE  r = q
<1>1. /\ Len(t.runs) \in Nat /\ r \in Nat /\ q \in Nat
      /\ r < q => t.runs[r].end <= t.runs[q].start
      /\ q < r => t.runs[q].end <= t.runs[r].start
  BY DEF ScheduleContract, RunsExact
<1>2. /\ t.runs[r].start \in Nat /\ t.runs[r].end \in Nat /\ t.runs[q].start \in Nat /\ t.runs[q].end \in Nat
  BY RunOfLevel
<1>3. s \in Int /\ t.runs[r].start <= s /\ s < t.runs[r].end /\ t.runs[q].start <= s /\ s < t.runs[q].end
  BY <1>2
<1>4. (r < q => FALSE) /\ (q < r => FALSE)
  BY <1>1, <1>2, <1>3
<1>. QED BY <1>1, <1>4

\* No signal is at two places.
LEMMA EntriesApart ==
  ASSUME NEW t, TapeContract(t), ScheduleContract(t), NEW found, FoundWell(t, found),
         NEW blocks, BlocksMade(t, found, blocks),
         NEW k \in 1 .. Len(blocks), NEW i \in DOMAIN blocks[k],
         NEW h \in 1 .. Len(blocks), NEW j \in DOMAIN blocks[h],
         NEW s, s # NoSlot, blocks[k][i] = s, blocks[h][j] = s
  PROVE  k = h /\ i = j
<1>1. Entry(t, found, k, i, s) /\ Entry(t, found, h, j, s)
  BY Entries
<1>2. /\ \A x \in InputIds(t) : t.input_slots[x] \notin GateSlots(t)
      /\ \A r \in Registers(t) : t.reg_out_slots[r] \notin GateSlots(t)
      /\ \A x : \A r \in 1 .. Len(t.runs) : AtRun(t, found, x, s, r) => s \in GateSlots(t) /\ s \notin found.used
      /\ \A x, y : \A c \in 1 .. Len(found.chains), d \in 1 .. 3 :
              AtChain(t, found, x, y, s, c, d) => s \in GateSlots(t) /\ s \in found.used
  BY EntryKinds
<1>3. CASE s \notin GateSlots(t)
  <2>1. /\ \A x, y \in InputIds(t) : t.input_slots[x] = t.input_slots[y] => x = y
        /\ \A x, y \in Registers(t) : t.reg_out_slots[x] = t.reg_out_slots[y] => x = y
        /\ \A x \in InputIds(t), y \in Registers(t) : t.input_slots[x] # t.reg_out_slots[y]
    BY DEF TapeContract, SourcesDisjoint
  <2>2. \/ k = 1 /\ i \in InputIds(t) /\ s = t.input_slots[i]
        \/ k = 2 /\ i \in Registers(t) /\ s = t.reg_out_slots[i]
    BY <1>1, <1>2, <1>3 DEF Entry
  <2>3. \/ h = 1 /\ j \in InputIds(t) /\ s = t.input_slots[j]
        \/ h = 2 /\ j \in Registers(t) /\ s = t.reg_out_slots[j]
    BY <1>1, <1>2, <1>3 DEF Entry
  <2>. QED BY <2>1, <2>2, <2>3
<1>4. CASE s \in GateSlots(t) /\ s \notin found.used
  <2>1. PICK r \in 1 .. Len(t.runs) : AtRun(t, found, k, s, r)
    BY <1>1, <1>2, <1>4 DEF Entry
  <2>2. PICK q \in 1 .. Len(t.runs) : AtRun(t, found, h, s, q)
    BY <1>1, <1>2, <1>4 DEF Entry
  <2>3. s \in t.runs[r].start .. t.runs[r].end - 1 /\ s \in t.runs[q].start .. t.runs[q].end - 1
    BY <2>1, <2>2 DEF AtRun, RunGates
  <2>4. r = q
    BY <2>3, RunsApart
  <2>5. k = h /\ k = 2 + r
    BY <2>1, <2>2, <2>4 DEF AtRun
  <2>6. blocks[k] = RunSlots(found.used, t.runs[r])
    BY <2>5 DEF BlocksMade
  <2>7. /\ blocks[k] \in Seq(Nat)
        /\ \A x, y \in 1 .. Len(blocks[k]) : blocks[k][x] = blocks[k][y] => x = y
    <3>. DEFINE slots == RunSlots(found.used, t.runs[r])
    <3>1. /\ slots \in Seq(Nat)
          /\ \A x, y \in 1 .. Len(slots) : slots[x] = slots[y] => x = y
      BY RunSlotsAscend
    <3>. HIDE DEF slots
    <3>2. blocks[k] = slots
      BY <2>6 DEF slots
    <3>. QED BY <3>1, <3>2
  <2>8. i \in 1 .. Len(blocks[k]) /\ j \in 1 .. Len(blocks[k])
    BY <2>5, <2>7
  <2>. QED BY <2>5, <2>7, <2>8
<1>5. CASE s \in GateSlots(t) /\ s \in found.used
  <2>1. PICK c \in 1 .. Len(found.chains), x \in 1 .. 3 : AtChain(t, found, k, i, s, c, x)
    BY <1>1, <1>2, <1>5 DEF Entry
  <2>2. PICK d \in 1 .. Len(found.chains), y \in 1 .. 3 : AtChain(t, found, h, j, s, d, y)
    BY <1>1, <1>2, <1>5 DEF Entry
  <2>3. c = d
    BY <2>1, <2>2 DEF AtChain, FoundWell
  <2>4. PICK l : Placing(found.chains[c].links, x, i, s, l)
    BY <2>1 DEF AtChain
  <2>5. PICK m : Placing(found.chains[c].links, y, j, s, m)
    BY <2>2, <2>3 DEF AtChain
  <2>6. found.chains[c] \in ChainsOf(t)
    BY ChainByName
  <2>7. x = y /\ i = j
    BY <2>4, <2>5, <2>6, ChainEntriesApart
  <2>. QED BY <2>1, <2>2, <2>3, <2>7 DEF AtChain
<1>. QED BY <1>3, <1>4, <1>5

-----------------------------------------------------------------------------
(* The layout.                                                             *)

\* So many words hold so many bits, and no fewer do.
LEMMA WordsEnough ==
  ASSUME NEW n \in Nat
  PROVE  /\ WordsFor(n) \in Nat /\ n <= WordBits * WordsFor(n) /\ WordBits * WordsFor(n) < n + WordBits
         /\ WordBits * WordsFor(n) \in Nat
<1>. DEFINE x == n + WordBits - 1
            w == x \div WordBits
            rem == x % WordBits
<1>1. WordBits \in Nat /\ WordBits > 0 /\ x \in Int /\ x >= 0
  BY WordWidth
<1>2. w \in Int /\ rem \in 0 .. WordBits - 1 /\ x = WordBits * w + rem /\ w \in Nat
  BY <1>1, Division
<1>3. WordsFor(n) = w
  BY DEF WordsFor
<1>. DEFINE z == WordBits * w
<1>4. z \in Nat
  BY <1>1, <1>2
<1>. HIDE DEF w, rem, z
<1>5. x = z + rem
  BY <1>2 DEF z
<1>6. n <= z /\ z < n + WordBits
  BY <1>1, <1>2, <1>4, <1>5
<1>. QED BY <1>2, <1>3, <1>4, <1>6 DEF z

\* The first word of each block.
FirstWords(blocks, w) ==
  /\ w \in [1 .. Len(blocks) + 1 -> Nat] /\ w[1] = 0
  /\ \A k \in 1 .. Len(blocks) : w[k + 1] = w[k] + WordsFor(Len(blocks[k]))

\* The layout of some blocks.
Layout(t, blocks, w, pos) ==
  /\ FirstWords(blocks, w) /\ DOMAIN pos = Slots(t)
  /\ \A k \in 1 .. Len(blocks) : \A i \in 1 .. Len(blocks[k]) :
       blocks[k][i] \in Slots(t) => pos[blocks[k][i]] = WordBits * w[k] + (i - 1)
  /\ \A s \in Slots(t) : pos[s] # NoPos =>
       \E k \in 1 .. Len(blocks) : \E i \in 1 .. Len(blocks[k]) : blocks[k][i] = s

\* Each block begins a word, above the words of the block before.
LEMMA BasesLaid ==
  ASSUME NEW blocks \in Seq(Seq(Nat))
  PROVE  LET w == [k \in 1 .. Len(blocks) + 1 |-> WordOf(Bases(blocks)[k])] IN
         /\ FirstWords(blocks, w) /\ Len(Bases(blocks)) = Len(blocks) + 1
         /\ \A k \in 1 .. Len(blocks) + 1 : Bases(blocks)[k] = WordBits * w[k]
<1>. DEFINE n == Len(blocks)
            step == [k \in 1 .. n + 1 |-> [b \in Nat |-> b + AlignUp(Len(blocks[k - 1]))]]
            body(f) == [k \in 1 .. n + 1 |-> IF k = 1 THEN 0 ELSE f[k - 1] + AlignUp(Len(blocks[k - 1]))]
            base == CHOOSE f : f = body(f)
<1>1. n \in Nat /\ 1 \in Nat /\ n + 1 \in Nat /\ 1 <= n + 1 /\ 0 \in Nat
  OBVIOUS
<1>2. \A k \in 1 .. n : Len(blocks[k]) \in Nat
  OBVIOUS
<1>3. Bases(blocks) = base
  BY DEF Bases
<1>. DEFINE size == [k \in 1 .. n + 1 |-> IF k = 1 THEN 0 ELSE WordsFor(Len(blocks[k - 1]))]
            up == [k \in 1 .. n + 1 |-> [b \in Nat |-> b + size[k]]]
<1>4. ASSUME NEW k \in 2 .. n + 1
      PROVE  size[k] \in Nat /\ size[k] = WordsFor(Len(blocks[k - 1])) /\ AlignUp(Len(blocks[k - 1])) = WordBits * size[k]
  <2>1. k - 1 \in 1 .. n /\ k \in 1 .. n + 1 /\ k # 1
    BY <1>1
  <2>2. Len(blocks[k - 1]) \in Nat
    BY <1>2, <2>1
  <2>3. size[k] = WordsFor(Len(blocks[k - 1]))
    BY <2>1
  <2>. QED BY <2>2, <2>3, WordsEnough DEF AlignUp
<1>5. size \in [1 .. n + 1 -> Nat]
  <2>1. \A k \in 1 .. n + 1 : k = 1 \/ k \in 2 .. n + 1
    BY <1>1
  <2>. HIDE DEF n
  <2>. QED BY <1>2, <1>4, <2>1
<1>. HIDE DEF size, n
<1>6. up \in [1 .. n + 1 -> [Nat -> Nat]]
  BY <1>5
<1>7. PICK w \in [1 .. n + 1 -> Nat] : Iterates(w, 1, n + 1, 0, up)
  <2>. HIDE DEF up
  <2>. QED BY <1>1, <1>6, Iteration
<1>8. w[1] = 0 /\ \A k \in 2 .. n + 1 : w[k] = w[k - 1] + size[k]
  <2>1. 1 \in 1 .. n + 1
    BY <1>1
  <2>2. ASSUME NEW k \in 2 .. n + 1 PROVE w[k] = w[k - 1] + size[k]
    <3>1. k \in 1 .. n + 1 /\ k # 1 /\ k - 1 \in 1 .. n + 1
      BY <1>1
    <3>2. w[k] = up[k][w[k - 1]] /\ w[k - 1] \in Nat
      BY <1>7, <3>1 DEF Iterates
    <3>. QED BY <3>1, <3>2
  <2>. QED BY <1>7, <2>1, <2>2 DEF Iterates
<1>. DEFINE g == [k \in 1 .. n + 1 |-> WordBits * w[k]]
<1>9. g = body(g)
  <2>1. ASSUME NEW k \in 1 .. n + 1
        PROVE  g[k] = IF k = 1 THEN 0 ELSE g[k - 1] + AlignUp(Len(blocks[k - 1]))
    <3>1. CASE k = 1
      BY <1>8, <3>1, WordWidth
    <3>2. CASE k # 1
      <4>1. k \in 2 .. n + 1 /\ k - 1 \in 1 .. n + 1
        BY <1>1, <3>2
      <4>2. w[k] = w[k - 1] + size[k] /\ AlignUp(Len(blocks[k - 1])) = WordBits * size[k]
        BY <1>4, <1>8, <4>1
      <4>3. WordBits \in Nat /\ w[k - 1] \in Nat /\ size[k] \in Nat
        BY <1>5, <1>7, <4>1, WordWidth
      <4>4. WordBits * (w[k - 1] + size[k]) = WordBits * w[k - 1] + WordBits * size[k]
        BY <4>3
      <4>5. g[k] = WordBits * w[k] /\ g[k - 1] = WordBits * w[k - 1]
        BY <4>1
      <4>. QED BY <3>2, <4>2, <4>4, <4>5
    <3>. QED BY <3>1, <3>2
  <2>. QED BY <2>1 DEF n
<1>10. base = body(base)
  <2>. HIDE DEF body
  <2>. QED BY <1>9
<1>11. /\ DOMAIN base = 1 .. n + 1 /\ base = [k \in 1 .. n + 1 |-> base[k]]
       /\ \A k \in 1 .. n + 1 : base[k] = IF k = 1 THEN 0 ELSE base[k - 1] + AlignUp(Len(blocks[k - 1]))
  <2>. HIDE DEF base
  <2>. QED BY <1>10 DEF n
<1>. HIDE DEF base, g
<1>. DEFINE S == {k \in 1 .. n + 1 : base[k] = g[k]}
<1>12. \A k \in 1 .. n + 1 : k \in S
  <2>1. g[1] = 0 /\ \A k \in 1 .. n + 1 : g[k] = IF k = 1 THEN 0 ELSE g[k - 1] + AlignUp(Len(blocks[k - 1]))
    <3>1. 1 \in 1 .. n + 1
      BY <1>1
    <3>. QED BY <1>9, <3>1 DEF n
  <2>2. 1 \in S
    <3>1. 1 \in 1 .. n + 1
      BY <1>1
    <3>. QED BY <1>11, <2>1, <3>1
  <2>3. ASSUME NEW k \in 1 .. (n + 1) - 1, k \in S PROVE k + 1 \in S
    <3>1. k + 1 \in 1 .. n + 1 /\ k + 1 # 1 /\ (k + 1) - 1 = k /\ k \in 1 .. n + 1
      BY <1>1
    <3>2. base[k + 1] = base[k] + AlignUp(Len(blocks[k]))
      BY <1>11, <3>1
    <3>3. g[k + 1] = g[k] + AlignUp(Len(blocks[k]))
      BY <2>1, <3>1
    <3>4. base[k] = g[k]
      BY <2>3
    <3>. QED BY <3>1, <3>2, <3>3, <3>4
  <2>. HIDE DEF S
  <2>. QED BY <1>1, <2>2, <2>3, IntervalInduction
<1>13. ASSUME NEW k \in 1 .. n + 1 PROVE base[k] = WordBits * w[k] /\ WordOf(base[k]) = w[k]
  <2>1. base[k] = WordBits * w[k]
    BY <1>12 DEF g
  <2>2. w[k] \in Int /\ 0 \in Lanes /\ WordBits * w[k] + 0 = WordBits * w[k]
    BY <1>7, WordWidth DEF Lanes
  <2>. QED BY <2>1, <2>2, PositionJoin
<1>14. [k \in 1 .. n + 1 |-> WordOf(base[k])] = w
  BY <1>7, <1>13
<1>15. FirstWords(blocks, w)
  <2>1. ASSUME NEW k \in 1 .. n PROVE w[k + 1] = w[k] + WordsFor(Len(blocks[k]))
    <3>1. k + 1 \in 2 .. n + 1 /\ (k + 1) - 1 = k
      BY <1>1
    <3>. QED BY <1>4, <1>8, <3>1
  <2>. QED BY <1>7, <1>8, <2>1 DEF FirstWords, n
<1>16. Len(base) = n + 1
  BY <1>1, <1>11
<1>17. \A k \in 1 .. n + 1 : base[k] = WordBits * w[k]
  BY <1>13
<1>. QED BY <1>3, <1>14, <1>15, <1>16, <1>17 DEF n

\* Where the signals of blocks are, if none is at two places.
LEMMA PositionsLaid ==
  ASSUME NEW t, NoSlot \notin Slots(t), NEW blocks \in Seq(Seq(Nat)),
         \A k, h \in 1 .. Len(blocks) : \A i \in 1 .. Len(blocks[k]), j \in 1 .. Len(blocks[h]) :
           blocks[k][i] # NoSlot /\ blocks[k][i] = blocks[h][j] => k = h /\ i = j
  PROVE  Layout(t, blocks, [k \in 1 .. Len(blocks) + 1 |-> WordOf(Bases(blocks)[k])], Positions(t, blocks))
<1>. DEFINE n == Len(blocks)
            bases == Bases(blocks)
            w == [k \in 1 .. n + 1 |-> WordOf(bases[k])]
            at == UNION {{<<k, i>> : i \in DOMAIN blocks[k]} : k \in DOMAIN blocks}
            holds(x, s) == blocks[x[1]][x[2]] = s
            pos == Positions(t, blocks)
<1>1. FirstWords(blocks, w) /\ \A k \in 1 .. n + 1 : bases[k] = WordBits * w[k]
  BY BasesLaid
<1>2. pos = [s \in Slots(t) |->
         IF \E x \in at : holds(x, s)
         THEN LET x == CHOOSE x \in at : holds(x, s) IN bases[x[1]] + x[2] - 1
         ELSE NoPos]
  BY DEF Positions
<1>3. \A x \in at : /\ x[1] \in 1 .. n /\ x[2] \in 1 .. Len(blocks[x[1]]) /\ x = <<x[1], x[2]>>
  OBVIOUS
<1>4. \A k \in 1 .. n : \A i \in 1 .. Len(blocks[k]) : <<k, i>> \in at
  OBVIOUS
<1>. HIDE DEF at, bases, w, n, pos
<1>5. ASSUME NEW k \in 1 .. n, NEW i \in 1 .. Len(blocks[k]), blocks[k][i] \in Slots(t)
      PROVE  pos[blocks[k][i]] = WordBits * w[k] + (i - 1)
  <2>. DEFINE s == blocks[k][i]
              x == CHOOSE x \in at : holds(x, s)
  <2>1. <<k, i>> \in at /\ holds(<<k, i>>, s)
    BY <1>4
  <2>2. x \in at /\ holds(x, s)
    <3>. HIDE DEF holds
    <3>. QED BY <2>1
  <2>3. x[1] = k /\ x[2] = i
    <3>. HIDE DEF x
    <3>1. x[1] \in 1 .. n /\ x[2] \in 1 .. Len(blocks[x[1]]) /\ blocks[x[1]][x[2]] = s /\ s # NoSlot
      BY <1>3, <1>5, <2>2
    <3>. DEFINE h == x[1]
                j == x[2]
    <3>2. h \in 1 .. Len(blocks) /\ j \in 1 .. Len(blocks[h]) /\ blocks[k][i] # NoSlot /\ blocks[k][i] = blocks[h][j]
      BY <3>1 DEF n
    <3>3. k \in 1 .. Len(blocks) /\ i \in 1 .. Len(blocks[k])
      BY DEF n
    <3>. HIDE DEF h, j
    <3>4. k = h /\ i = j
      BY <3>2, <3>3
    <3>. QED BY <3>4 DEF h, j
  <2>4. pos[s] = bases[x[1]] + x[2] - 1
    <3>. HIDE DEF holds
    <3>. QED BY <1>2, <1>5, <2>1
  <2>5. bases[k] = WordBits * w[k] /\ w[k] \in Nat /\ WordBits * w[k] \in Nat /\ i \in Nat
    <3>1. k \in 1 .. n + 1 /\ i \in Nat
      BY DEF n
    <3>2. w[k] \in Nat
      BY <1>1, <3>1 DEF FirstWords, n
    <3>. QED BY <1>1, <3>1, <3>2, WordWidth
  <2>. DEFINE z == WordBits * w[k]
  <2>. HIDE DEF x, z
  <2>6. bases[x[1]] + x[2] - 1 = z + i - 1 /\ z \in Nat /\ i \in Nat
    BY <2>3, <2>5 DEF z
  <2>7. z + i - 1 = z + (i - 1)
    BY <2>6
  <2>. QED BY <2>4, <2>6, <2>7 DEF z
<1>6. ASSUME NEW s \in Slots(t), pos[s] # NoPos
      PROVE  \E k \in 1 .. n : \E i \in 1 .. Len(blocks[k]) : blocks[k][i] = s
  <2>1. PICK x \in at : holds(x, s)
    <3>. HIDE DEF holds
    <3>. QED BY <1>2, <1>6
  <2>. QED BY <1>3, <2>1
<1>7. DOMAIN pos = Slots(t)
  <2>. HIDE DEF holds
  <2>. QED BY <1>2
<1>. QED BY <1>1, <1>5, <1>6, <1>7 DEF Layout, n, w, bases, pos

-----------------------------------------------------------------------------
(* Places in the arena.                                                    *)

\* A tape with its chains, its blocks and their layout.
Made(t, found, blocks, w, pos) ==
  /\ TapeContract(t) /\ ScheduleContract(t) /\ FoundWell(t, found)
  /\ BlocksMade(t, found, blocks) /\ Layout(t, blocks, w, pos)

\* The words of a block.
WordsOf(w, k) == w[k] .. w[k + 1] - 1

\* Words ascend with the blocks.
LEMMA WordsAscend ==
  ASSUME NEW blocks \in Seq(Seq(Nat)), NEW w, FirstWords(blocks, w)
  PROVE  /\ Len(blocks) \in Nat /\ \A k \in 1 .. Len(blocks) + 1 : w[k] \in Nat
         /\ \A h \in 1 .. Len(blocks) + 1 : \A k \in 1 .. h : w[k] <= w[h]
         /\ \A k, h \in 1 .. Len(blocks) : \A x : x \in WordsOf(w, k) /\ x \in WordsOf(w, h) => k = h
<1>. DEFINE n == Len(blocks)
            S == {h \in 1 .. n + 1 : \A k \in 1 .. h : w[k] <= w[h]}
<1>1. n \in Nat /\ 1 \in Nat /\ n + 1 \in Nat
  OBVIOUS
<1>2. \A k \in 1 .. n + 1 : w[k] \in Nat
  BY DEF FirstWords
<1>3. \A k \in 1 .. n : w[k] <= w[k + 1]
  <2>1. ASSUME NEW k \in 1 .. n PROVE w[k] <= w[k + 1]
    <3>1. Len(blocks[k]) \in Nat
      OBVIOUS
    <3>2. WordsFor(Len(blocks[k])) \in Nat /\ w[k + 1] = w[k] + WordsFor(Len(blocks[k]))
      BY <3>1, WordsEnough DEF FirstWords
    <3>3. w[k] \in Nat
      BY <1>1, <1>2
    <3>. QED BY <3>2, <3>3
  <2>. QED BY <2>1
<1>. HIDE DEF n
<1>4. \A h \in 1 .. n + 1 : h \in S
  <2>1. 1 \in S
    BY <1>1, <1>2
  <2>2. ASSUME NEW h \in 1 .. (n + 1) - 1, h \in S PROVE h + 1 \in S
    <3>1. h + 1 \in 1 .. n + 1 /\ h \in 1 .. n /\ h \in 1 .. n + 1
      BY <1>1
    <3>2. ASSUME NEW k \in 1 .. h + 1 PROVE w[k] <= w[h + 1]
      <4>1. k \in 1 .. n + 1 /\ (k = h + 1 \/ k \in 1 .. h)
        BY <1>1, <3>1
      <4>2. w[h] <= w[h + 1] /\ w[h] \in Nat /\ w[h + 1] \in Nat /\ w[k] \in Nat
        BY <1>2, <1>3, <3>1, <4>1
      <4>3. k \in 1 .. h => w[k] <= w[h]
        BY <2>2
      <4>. QED BY <4>1, <4>2, <4>3
    <3>. QED BY <3>1, <3>2
  <2>. HIDE DEF S
  <2>. QED BY <1>1, <2>1, <2>2, IntervalInduction
<1>5. ASSUME NEW k \in 1 .. n, NEW h \in 1 .. n, k < h, NEW x, x \in WordsOf(w, k), x \in WordsOf(w, h)
      PROVE  FALSE
  <2>1. h \in 1 .. n + 1 /\ k + 1 \in 1 .. h /\ k + 1 \in 1 .. n + 1 /\ k \in 1 .. n + 1
    BY <1>1, <1>5
  <2>2. w[k + 1] <= w[h] /\ w[k + 1] \in Nat /\ w[h] \in Nat /\ w[k] \in Nat
    BY <1>2, <1>4, <2>1
  <2>. QED BY <1>5, <2>2 DEF WordsOf
<1>6. ASSUME NEW k \in 1 .. n, NEW h \in 1 .. n, NEW x, x \in WordsOf(w, k), x \in WordsOf(w, h) PROVE k = h
  <2>1. k < h \/ h < k \/ k = h
    BY <1>1
  <2>. QED BY <1>5, <1>6, <2>1
<1>. QED BY <1>1, <1>2, <1>4, <1>6 DEF n

\* A signal's place among the blocks.
Seat(blocks, k, i, s) ==
  k \in 1 .. Len(blocks) /\ i \in 1 .. Len(blocks[k]) /\ blocks[k][i] = s /\ s # NoSlot

\* What that says of the indices.
LEMMA SeatIndices ==
  ASSUME NEW blocks \in Seq(Seq(Nat)), NEW k, NEW i, NEW s, Seat(blocks, k, i, s)
  PROVE  /\ Len(blocks) \in Nat /\ k \in 1 .. Len(blocks) /\ k \in 1 .. Len(blocks) + 1
         /\ blocks[k] \in Seq(Nat) /\ Len(blocks[k]) \in Nat
         /\ i \in 1 .. Len(blocks[k]) /\ i \in DOMAIN blocks[k] /\ i \in Nat
         /\ blocks[k][i] = s /\ s # NoSlot
<1>1. Len(blocks) \in Nat /\ k \in 1 .. Len(blocks) /\ i \in 1 .. Len(blocks[k])
  BY DEF Seat
<1>2. blocks[k] \in Seq(Nat)
  BY <1>1
<1>. DEFINE q == blocks[k]
            n == Len(blocks)
<1>3. Len(q) \in Nat /\ DOMAIN q = 1 .. Len(q)
  <2>. HIDE DEF q
  <2>. QED BY <1>2 DEF q
<1>4. k \in 1 .. n + 1
  <2>. HIDE DEF n
  <2>. QED BY <1>1 DEF n
<1>. QED BY <1>1, <1>2, <1>3, <1>4 DEF Seat

\* The words of a block by their number.
LEMMA WordsGrow ==
  ASSUME NEW blocks \in Seq(Seq(Nat)), NEW w, FirstWords(blocks, w), NEW k \in 1 .. Len(blocks)
  PROVE  /\ w[k] \in Nat /\ w[k + 1] \in Nat /\ WordsFor(Len(blocks[k])) \in Nat
         /\ w[k + 1] = w[k] + WordsFor(Len(blocks[k]))
         /\ WordBits * w[k] \in Nat
<1>. DEFINE n == Len(blocks)
<1>1. n \in Nat /\ blocks[k] \in Seq(Nat)
  OBVIOUS
<1>2. Len(blocks[k]) \in Nat
  BY <1>1
<1>3. w[k + 1] = w[k] + WordsFor(Len(blocks[k])) /\ w \in [1 .. n + 1 -> Nat]
  BY DEF FirstWords
<1>4. k \in 1 .. n
  OBVIOUS
<1>. HIDE DEF n
<1>5. k \in 1 .. n + 1 /\ k + 1 \in 1 .. n + 1
  BY <1>1, <1>4
<1>6. w[k] \in Nat /\ w[k + 1] \in Nat
  BY <1>3, <1>5
<1>7. WordsFor(Len(blocks[k])) \in Nat
  BY <1>2, WordsEnough
<1>8. WordBits * w[k] \in Nat
  BY <1>6, WordWidth
<1>. QED BY <1>3, <1>6, <1>7, <1>8

\* Where that place is in the arena.
Seated(blocks, w, pos, k, i, s) ==
  /\ pos[s] \in Nat /\ pos[s] = WordBits * w[k] + (i - 1)
  /\ WordOf(pos[s]) = w[k] + WordOf(i - 1) /\ Offset(pos[s]) = Offset(i - 1)
  /\ WordOf(i - 1) \in Nat /\ Offset(i - 1) \in Lanes /\ i - 1 = WordBits * WordOf(i - 1) + Offset(i - 1)
  /\ WordOf(i - 1) < WordsFor(Len(blocks[k])) /\ WordOf(pos[s]) \in WordsOf(w, k)

\* Every entry of a block has its place.
LEMMA SeatsPlaced ==
  ASSUME NEW t, NEW found, NEW blocks, NEW w, NEW pos, Made(t, found, blocks, w, pos),
         NEW k, NEW i, NEW s, Seat(blocks, k, i, s)
  PROVE  s \in Slots(t) /\ Entry(t, found, k, i, s) /\ Seated(blocks, w, pos, k, i, s)
<1>1. blocks \in Seq(Seq(Nat)) /\ FirstWords(blocks, w)
  BY DEF Made, BlocksMade, Layout
<1>2. k \in 1 .. Len(blocks) /\ blocks[k] \in Seq(Nat) /\ Len(blocks) \in Nat
  BY <1>1 DEF Seat
<1>3. i \in DOMAIN blocks[k] /\ i \in 1 .. Len(blocks[k]) /\ Len(blocks[k]) \in Nat
  BY <1>2 DEF Seat
<1>4. Entry(t, found, k, i, blocks[k][i])
  <2>1. blocks[k][i] # NoSlot
    BY DEF Seat
  <2>. QED BY <1>2, <1>3, <2>1, Entries DEF Made
<1>5. Entry(t, found, k, i, s)
  BY <1>4 DEF Seat
<1>6. s \in Slots(t)
  <2>1. TapeContract(t) /\ ScheduleContract(t) /\ FoundWell(t, found)
    BY DEF Made
  <2>. QED BY <1>5, <2>1, EntryKinds DEF Entry
<1>7. pos[s] = WordBits * w[k] + (i - 1)
  BY <1>2, <1>3, <1>6 DEF Made, Layout, Seat
<1>8. w[k] \in Nat /\ w[k + 1] = w[k] + WordsFor(Len(blocks[k])) /\ w[k] \in Int
  BY <1>1, <1>2, WordsGrow
<1>. DEFINE p == i - 1
            v == WordOf(p)
            o == Offset(p)
            z == WordBits * w[k]
<1>9. p \in Int /\ p >= 0 /\ p \in Nat /\ p < Len(blocks[k])
  BY <1>3
<1>10. v \in Int /\ v \in Nat /\ o \in Lanes /\ p = WordBits * v + o
  BY <1>9, PositionSplit
<1>11. WordBits \in Nat /\ WordBits > 0
  BY WordWidth
<1>. HIDE DEF p, v, o
<1>12. pos[s] = WordBits * (w[k] + v) + o
  <2>1. WordBits * (w[k] + v) = WordBits * w[k] + WordBits * v
    BY <1>8, <1>10, <1>11
  <2>2. WordBits * w[k] \in Int /\ WordBits * v \in Int /\ o \in Int
    BY <1>8, <1>10, <1>11 DEF Lanes
  <2>. DEFINE y == WordBits * v
              zz == WordBits * (w[k] + v)
  <2>3. zz = z + y /\ z \in Int /\ y \in Int /\ o \in Int /\ p = y + o /\ pos[s] = z + p
    BY <1>7, <1>10, <2>1, <2>2 DEF p
  <2>. HIDE DEF y, z, zz
  <2>4. pos[s] = zz + o
    BY <2>3
  <2>. QED BY <2>4 DEF zz
<1>13. w[k] + v \in Int
  BY <1>8, <1>10
<1>14. WordOf(pos[s]) = w[k] + v /\ Offset(pos[s]) = o
  BY <1>10, <1>12, <1>13, PositionJoin
<1>15. pos[s] \in Nat
  <2>1. z \in Nat
    BY <1>8, <1>11
  <2>2. pos[s] = z + p
    BY <1>7 DEF p
  <2>. HIDE DEF z
  <2>. QED BY <1>9, <2>1, <2>2
<1>16. v < WordsFor(Len(blocks[k]))
  <2>. DEFINE m == WordsFor(Len(blocks[k]))
              x == WordBits * m
              y == WordBits * v
  <2>1. m \in Nat /\ Len(blocks[k]) <= x /\ x \in Nat
    BY <1>3, WordsEnough
  <2>2. p = y + o /\ o >= 0 /\ o \in Int /\ y \in Nat
    BY <1>10, <1>11 DEF Lanes
  <2>3. m <= v => x <= y
    <3>. HIDE DEF m
    <3>1. m \in Nat /\ v \in Nat /\ WordBits \in Nat
      BY <1>10, <1>11, <2>1
    <3>2. ASSUME m <= v PROVE WordBits * m <= WordBits * v
      <4>1. v = m + (v - m) /\ v - m \in Nat
        BY <3>1, <3>2
      <4>. DEFINE d == v - m
      <4>. HIDE DEF d
      <4>2. v = m + d /\ d \in Nat
        BY <4>1 DEF d
      <4>3. WordBits * v = WordBits * m + WordBits * d /\ WordBits * d \in Nat /\ WordBits * m \in Nat
        BY <3>1, <4>2
      <4>. QED BY <4>3
    <3>. QED BY <3>2
  <2>. HIDE DEF m, x, y
  <2>4. v < m
    BY <1>3, <1>9, <1>10, <2>1, <2>2, <2>3
  <2>. QED BY <2>4 DEF m
<1>17. WordOf(pos[s]) \in WordsOf(w, k)
  <2>1. WordsFor(Len(blocks[k])) \in Nat
    BY <1>3, WordsEnough
  <2>2. w[k] <= w[k] + v /\ w[k] + v <= w[k + 1] - 1 /\ w[k + 1] \in Nat
    BY <1>8, <1>10, <1>16, <2>1
  <2>. QED BY <1>8, <1>13, <1>14, <2>2 DEF WordsOf
<1>. QED BY <1>5, <1>6, <1>7, <1>10, <1>14, <1>15, <1>16, <1>17 DEF Seated, p, v, o

\* The signals that have a place, and their words.
LEMMA PlacesSeated ==
  ASSUME NEW t, NEW found, NEW blocks, NEW w, NEW pos, Made(t, found, blocks, w, pos),
         NEW s \in Slots(t)
  PROVE  /\ pos[s] # NoPos => \E k, i : Seat(blocks, k, i, s)
         /\ \A k, i : Seat(blocks, k, i, s) => pos[s] # NoPos
<1>1. s # NoSlot
  BY DEF Slots, NoSlot
<1>2. ASSUME pos[s] # NoPos PROVE \E k, i : Seat(blocks, k, i, s)
  <2>1. PICK k \in 1 .. Len(blocks) : \E i \in 1 .. Len(blocks[k]) : blocks[k][i] = s
    BY <1>2 DEF Made, Layout
  <2>2. PICK i \in 1 .. Len(blocks[k]) : blocks[k][i] = s
    BY <2>1
  <2>. QED BY <1>1, <2>2 DEF Seat
<1>3. ASSUME NEW k, NEW i, Seat(blocks, k, i, s) PROVE pos[s] # NoPos
  <2>1. pos[s] \in Nat
    BY <1>3, SeatsPlaced DEF Seated
  <2>. QED BY <2>1 DEF NoPos
<1>. QED BY <1>2, <1>3

\* A word of a block holds signals of that block only, and no two signals
\* share a position.
LEMMA SeatsApart ==
  ASSUME NEW t, NEW found, NEW blocks, NEW w, NEW pos, Made(t, found, blocks, w, pos),
         NEW k, NEW i, NEW s, Seat(blocks, k, i, s)
  PROVE  /\ \A h \in 1 .. Len(blocks) : WordOf(pos[s]) \in WordsOf(w, h) => h = k
         /\ \A h, j : Seat(blocks, h, j, s) => h = k /\ j = i
         /\ \A h, j, u : Seat(blocks, h, j, u) /\ pos[u] = pos[s] => u = s
<1>1. blocks \in Seq(Seq(Nat)) /\ FirstWords(blocks, w)
  BY DEF Made, BlocksMade, Layout
<1>2. /\ k \in 1 .. Len(blocks) /\ i \in 1 .. Len(blocks[k]) /\ Len(blocks[k]) \in Nat
      /\ Seated(blocks, w, pos, k, i, s)
  BY <1>1, SeatsPlaced, SeatIndices
<1>3. ASSUME NEW h \in 1 .. Len(blocks), WordOf(pos[s]) \in WordsOf(w, h) PROVE h = k
  <2>1. WordOf(pos[s]) \in WordsOf(w, k)
    BY <1>2 DEF Seated
  <2>. QED BY <1>1, <1>2, <1>3, <2>1, WordsAscend
<1>4. ASSUME NEW h, NEW j, Seat(blocks, h, j, s) PROVE h = k /\ j = i
  <2>1. h \in 1 .. Len(blocks) /\ j \in DOMAIN blocks[h] /\ blocks[h][j] = s
    BY <1>1, <1>4 DEF Seat
  <2>2. k \in 1 .. Len(blocks) /\ i \in DOMAIN blocks[k] /\ blocks[k][i] = s /\ s # NoSlot
    BY <1>1 DEF Seat
  <2>3. TapeContract(t) /\ ScheduleContract(t) /\ FoundWell(t, found) /\ BlocksMade(t, found, blocks)
    BY DEF Made
  <2>. QED BY <2>1, <2>2, <2>3, EntriesApart
<1>5. ASSUME NEW h, NEW j, NEW u, Seat(blocks, h, j, u), pos[u] = pos[s] PROVE u = s
  <2>1. Seated(blocks, w, pos, h, j, u) /\ h \in 1 .. Len(blocks) /\ j \in 1 .. Len(blocks[h]) /\ Len(blocks[h]) \in Nat
    BY <1>1, <1>5, SeatsPlaced, SeatIndices
  <2>2. WordOf(pos[s]) \in WordsOf(w, h)
    BY <1>5, <2>1 DEF Seated
  <2>3. h = k
    BY <1>3, <2>1, <2>2
  <2>. DEFINE z == WordBits * w[k]
  <2>4. z \in Nat
    BY <1>1, <1>2, WordsGrow
  <2>5. pos[s] = z + (i - 1) /\ pos[u] = z + (j - 1)
    BY <1>2, <2>1, <2>3 DEF Seated
  <2>. HIDE DEF z
  <2>6. i = j
    BY <1>2, <1>5, <2>1, <2>4, <2>5
  <2>. QED BY <1>5, <2>3, <2>6 DEF Seat
<1>. QED BY <1>3, <1>4, <1>5

-----------------------------------------------------------------------------
(* Words cut from the blocks.                                              *)

\* An entry of word k of a sequence of slots.
ChunkEntryAt(slots, k, q, i, b) ==
  b \in 1 .. Len(slots) /\ q[i] = slots[b] /\ WordOf(b - 1) = k - 1 /\ Offset(b - 1) = i - 1

\* Word k of a sequence of slots.
WordChunk(slots, k, q) ==
  /\ Len(q) \in 1 .. WordBits /\ DOMAIN q = 1 .. Len(q)
  /\ Len(q) = Min({WordBits, Len(slots) - WordBits * (k - 1)})
  /\ \A i \in 1 .. Len(q) : ChunkEntryAt(slots, k, q, i, WordBits * (k - 1) + i)
  /\ \A x \in 1 .. Len(slots) : WordOf(x - 1) = k - 1 =>
       /\ Offset(x - 1) + 1 \in 1 .. Len(q) /\ q[Offset(x - 1) + 1] = slots[x]

\* A sequence of slots is cut into words.
LEMMA ChunksCut ==
  ASSUME NEW V, NEW slots \in Seq(V)
  PROVE  /\ Len(chunks(slots)) = WordsFor(Len(slots)) /\ DOMAIN chunks(slots) = 1 .. WordsFor(Len(slots))
         /\ WordsFor(Len(slots)) \in Nat
         /\ \A k \in 1 .. WordsFor(Len(slots)) : chunks(slots)[k] \in Seq(V) /\ WordChunk(slots, k, chunks(slots)[k])
<1>. DEFINE n == Len(slots)
            m == WordsFor(n)
<1>1. n \in Nat /\ m \in Nat /\ WordBits * m < n + WordBits /\ n <= WordBits * m
  BY WordsEnough
<1>2. WordBits \in Nat /\ WordBits > 0
  BY WordWidth
<1>. HIDE DEF m
<1>3. DOMAIN chunks(slots) = 1 .. m /\ Len(chunks(slots)) = m
  BY <1>1 DEF chunks, m
<1>4. ASSUME NEW k \in 1 .. m PROVE chunks(slots)[k] \in Seq(V) /\ WordChunk(slots, k, chunks(slots)[k])
  <2>. DEFINE b == WordBits * (k - 1)
              e == Min({WordBits * k, n})
              q == SubSeq(slots, b + 1, e)
              l == e - b
  <2>1. chunks(slots)[k] = q
    BY <1>3 DEF chunks, m
  <2>2. b \in Nat /\ b < n /\ WordBits * k = b + WordBits /\ WordBits * k \in Nat
    <3>1. k \in Nat /\ k - 1 \in Nat /\ k <= m
      BY <1>1
    <3>2. b \in Nat /\ WordBits * k \in Nat
      BY <1>2, <3>1
    <3>3. WordBits * k = b + WordBits
      <4>. DEFINE j == k - 1
      <4>1. k = j + 1 /\ j \in Nat
        BY <3>1
      <4>. HIDE DEF j
      <4>2. WordBits * (j + 1) = WordBits * j + WordBits
        BY <1>2, <4>1
      <4>. QED BY <4>1, <4>2 DEF j
    <3>4. WordBits * k <= WordBits * m
      <4>. DEFINE d == m - k
      <4>1. m = k + d /\ d \in Nat
        BY <1>1, <3>1
      <4>. HIDE DEF d
      <4>2. WordBits * m = WordBits * k + WordBits * d /\ WordBits * d \in Nat
        BY <1>2, <3>1, <4>1
      <4>. QED BY <3>2, <4>2
    <3>. DEFINE x == WordBits * k
                y == WordBits * m
    <3>5. y < n + WordBits /\ x <= y /\ x = b + WordBits /\ b \in Nat /\ x \in Nat /\ y \in Nat
      BY <1>1, <1>2, <3>2, <3>3, <3>4
    <3>. HIDE DEF b, x, y
    <3>6. b < n
      BY <1>1, <1>2, <3>5
    <3>. QED BY <3>5, <3>6 DEF x
  <2>3. e = IF b + WordBits <= n THEN b + WordBits ELSE n
    BY <1>1, <2>2, SmallerOfTwo
  <2>4. Min({WordBits, n - b}) = IF WordBits <= n - b THEN WordBits ELSE n - b
    BY <1>1, <1>2, <2>2, SmallerOfTwo
  <2>. HIDE DEF b, e, n
  <2>5. /\ l \in 1 .. WordBits /\ e \in Nat /\ e <= n /\ e = b + l /\ l = Min({WordBits, n - b})
    BY <1>1, <1>2, <2>2, <2>3, <2>4
  <2>6. DOMAIN q = 1 .. l /\ Len(q) = l /\ q \in Seq(V) /\ \A i \in 1 .. l : q[i] = slots[b + i]
    <3>. HIDE DEF l
    <3>1. e \in 0 .. n /\ b + 1 \in 1 .. e + 1
      BY <1>1, <2>2, <2>5
    <3>2. \A x \in 1 .. n : slots[x] \in V
      BY DEF n
    <3>3. \A i \in 1 .. l : b + i \in 1 .. n /\ i + (b + 1) - 1 = b + i
      BY <1>1, <2>2, <2>5
    <3>4. b + 1 \in Nat /\ e \in Nat /\ n \in Nat /\ e <= n /\ b + 1 <= e /\ l = 1 + e - (b + 1)
      BY <1>1, <2>2, <2>5
    <3>5. /\ q \in Seq(V) /\ Len(q) = 1 + e - (b + 1)
          /\ \A i \in 1 .. 1 + e - (b + 1) : q[i] = slots[i + (b + 1) - 1]
      <4>. DEFINE c == b + 1
      <4>. HIDE DEF c
      <4>1. q \in Seq(V) /\ Len(q) = 1 + e - c /\ \A i \in 1 .. 1 + e - c : q[i] = slots[i + c - 1]
        <5>1. c \in 1 .. e /\ e \in 1 .. Len(slots) /\ q = SubSeq(slots, c, e)
          BY <2>2, <3>4 DEF c, n
        <5>. HIDE DEF q
        <5>. QED BY <5>1
      <4>. QED BY <4>1 DEF c
    <3>. HIDE DEF q
    <3>6. DOMAIN q = 1 .. Len(q)
      BY <3>5
    <3>7. \A i \in 1 .. l : i + (b + 1) - 1 = b + i
      BY <2>2, <2>5
    <3>. QED BY <3>4, <3>5, <3>6, <3>7
  <2>. HIDE DEF q, l
  <2>7. ASSUME NEW i \in 1 .. l
        PROVE  b + i \in 1 .. n /\ WordOf(b + i - 1) = k - 1 /\ Offset(b + i - 1) = i - 1
    <3>1. b + i \in 1 .. n /\ i - 1 \in Lanes /\ b + i - 1 = b + (i - 1)
      BY <1>1, <1>2, <2>2, <2>5 DEF Lanes
    <3>2. k - 1 \in Int
      OBVIOUS
    <3>. QED BY <3>1, <3>2, PositionJoin DEF b
  <2>8. ASSUME NEW x \in 1 .. n, WordOf(x - 1) = k - 1
        PROVE  Offset(x - 1) + 1 \in 1 .. l /\ b + (Offset(x - 1) + 1) = x
    <3>. DEFINE o == Offset(x - 1)
    <3>1. x - 1 \in Int
      OBVIOUS
    <3>2. o \in Lanes /\ x - 1 = WordBits * WordOf(x - 1) + o
      BY <3>1, PositionSplit
    <3>3. x - 1 = b + o
      BY <2>8, <3>2 DEF b
    <3>. HIDE DEF o
    <3>4. o \in 0 .. WordBits - 1 /\ x <= n /\ x \in Nat
      BY <1>1, <3>2 DEF Lanes
    <3>5. o + 1 \in 1 .. l /\ b + (o + 1) = x
      BY <1>1, <1>2, <2>2, <2>3, <2>5, <3>3, <3>4
    <3>. QED BY <3>5 DEF o
  <2>9. WordChunk(slots, k, q)
    <3>1. ASSUME NEW i \in 1 .. Len(q) PROVE ChunkEntryAt(slots, k, q, i, b + i)
      <4>1. i \in 1 .. l /\ q[i] = slots[b + i]
        BY <2>6
      <4>. DEFINE y == b + i
      <4>2. y \in 1 .. n /\ WordOf(y - 1) = k - 1 /\ Offset(y - 1) = i - 1 /\ q[i] = slots[y]
        BY <2>2, <2>7, <4>1
      <4>. HIDE DEF y
      <4>3. ChunkEntryAt(slots, k, q, i, y)
        BY <4>2 DEF ChunkEntryAt, n
      <4>. QED BY <4>3 DEF y
    <3>2. ASSUME NEW x \in 1 .. n, WordOf(x - 1) = k - 1
          PROVE  Offset(x - 1) + 1 \in 1 .. Len(q) /\ q[Offset(x - 1) + 1] = slots[x]
      <4>1. Offset(x - 1) + 1 \in 1 .. l /\ b + (Offset(x - 1) + 1) = x
        BY <2>8, <3>2
      <4>. QED BY <2>6, <4>1
    <3>3. Len(q) \in 1 .. WordBits /\ DOMAIN q = 1 .. Len(q) /\ Len(q) = Min({WordBits, n - WordBits * (k - 1)})
      BY <2>5, <2>6 DEF b
    <3>4. \A i \in 1 .. Len(q) : ChunkEntryAt(slots, k, q, i, WordBits * (k - 1) + i)
      BY <3>1 DEF b
    <3>. QED BY <3>2, <3>3, <3>4 DEF WordChunk, n
  <2>. QED BY <2>1, <2>6, <2>9
<1>. QED BY <1>1, <1>3, <1>4 DEF m

\* A word of a block: its signals, in their order.
ChunkHeld(t, pos, x, q) ==
  /\ \A i \in 1 .. Len(q) : q[i] # NoSlot =>
       q[i] \in Slots(t) /\ pos[q[i]] = WordBits * x + i - 1 /\ WordOf(pos[q[i]]) = x /\ Offset(pos[q[i]]) = i - 1
  /\ \A s \in Slots(t) : pos[s] # NoPos /\ WordOf(pos[s]) = x =>
       \E i \in 1 .. Len(q) : q[i] = s /\ Offset(pos[s]) = i - 1

\* Word j of block k is at word w[k] + j - 1 of the arena.
LEMMA ChunkOfBlock ==
  ASSUME NEW t, NEW found, NEW blocks, NEW w, NEW pos, Made(t, found, blocks, w, pos),
         NEW k \in 1 .. Len(blocks), NEW j \in 1 .. WordsFor(Len(blocks[k]))
  PROVE  /\ WordChunk(blocks[k], j, chunks(blocks[k])[j]) /\ chunks(blocks[k])[j] \in Seq(Nat)
         /\ w[k] + j - 1 \in WordsOf(w, k)
         /\ ChunkHeld(t, pos, w[k] + j - 1, chunks(blocks[k])[j])
<1>. DEFINE slots == blocks[k]
            q == chunks(slots)[j]
            x == w[k] + j - 1
<1>1. blocks \in Seq(Seq(Nat)) /\ FirstWords(blocks, w)
  BY DEF Made, BlocksMade, Layout
<1>2. slots \in Seq(Nat)
  BY <1>1
<1>3. WordChunk(slots, j, q) /\ q \in Seq(Nat) /\ WordsFor(Len(slots)) \in Nat
  <2>. HIDE DEF slots
  <2>1. j \in 1 .. WordsFor(Len(slots))
    BY DEF slots
  <2>. QED BY <1>2, <2>1, ChunksCut
<1>4. w[k] \in Nat /\ w[k + 1] = w[k] + WordsFor(Len(slots)) /\ w[k + 1] \in Nat
  BY <1>1, WordsGrow
<1>5. x \in WordsOf(w, k) /\ x \in Nat /\ x = w[k] + (j - 1) /\ j \in Nat
  BY <1>3, <1>4 DEF WordsOf
<1>6. ASSUME NEW i \in 1 .. Len(q), q[i] # NoSlot
      PROVE  q[i] \in Slots(t) /\ pos[q[i]] = WordBits * x + i - 1 /\ WordOf(pos[q[i]]) = x /\ Offset(pos[q[i]]) = i - 1
  <2>. DEFINE b == WordBits * (j - 1) + i
  <2>. HIDE DEF q, slots
  <2>1. b \in 1 .. Len(slots) /\ q[i] = slots[b] /\ WordOf(b - 1) = j - 1 /\ Offset(b - 1) = i - 1
    <3>1. ChunkEntryAt(slots, j, q, i, b)
      BY <1>3 DEF WordChunk
    <3>. QED BY <3>1 DEF ChunkEntryAt
  <2>. HIDE DEF b
  <2>. USE DEF slots
  <2>2. Seat(blocks, k, b, q[i])
    BY <1>6, <2>1 DEF Seat
  <2>3. q[i] \in Slots(t) /\ Seated(blocks, w, pos, k, b, q[i])
    BY <2>2, SeatsPlaced
  <2>4. WordOf(pos[q[i]]) = x /\ Offset(pos[q[i]]) = i - 1 /\ pos[q[i]] \in Nat
    BY <1>5, <2>1, <2>3 DEF Seated
  <2>5. pos[q[i]] = WordBits * x + (i - 1) /\ i \in Int
    <3>1. pos[q[i]] = WordBits * WordOf(pos[q[i]]) + Offset(pos[q[i]])
      <4>. DEFINE y == pos[q[i]]
      <4>1. y \in Int
        BY <2>4
      <4>. HIDE DEF y
      <4>2. y = WordBits * WordOf(y) + Offset(y)
        BY <4>1, PositionSplit
      <4>. QED BY <4>2 DEF y
    <3>2. i \in Int
      OBVIOUS
    <3>. QED BY <2>4, <3>1, <3>2
  <2>6. WordBits * x + (i - 1) = WordBits * x + i - 1
    <3>. DEFINE z == WordBits * x
    <3>1. z \in Int
      BY <1>5, WordWidth
    <3>. HIDE DEF z
    <3>. QED BY <2>5, <3>1
  <2>. QED BY <2>3, <2>4, <2>5, <2>6
<1>7. ASSUME NEW s \in Slots(t), pos[s] # NoPos, WordOf(pos[s]) = x
      PROVE  \E i \in 1 .. Len(q) : q[i] = s /\ Offset(pos[s]) = i - 1
  <2>1. PICK h, i : Seat(blocks, h, i, s)
    BY <1>7, PlacesSeated
  <2>2. h = k
    <3>1. WordOf(pos[s]) \in WordsOf(w, k)
      BY <1>5, <1>7
    <3>. QED BY <2>1, <3>1, SeatsApart
  <2>3. Seated(blocks, w, pos, k, i, s) /\ i \in 1 .. Len(slots) /\ slots[i] = s
    BY <2>1, <2>2, SeatsPlaced DEF Seat
  <2>4. WordOf(i - 1) = j - 1
    <3>1. w[k] + (j - 1) = w[k] + WordOf(i - 1) /\ WordOf(i - 1) \in Nat
      BY <1>5, <1>7, <2>3 DEF Seated
    <3>. HIDE DEF x
    <3>. QED BY <1>4, <3>1
  <2>5. Offset(i - 1) + 1 \in 1 .. Len(q) /\ q[Offset(i - 1) + 1] = slots[i]
    BY <1>3, <2>3, <2>4 DEF WordChunk
  <2>6. Offset(pos[s]) = Offset(i - 1) /\ Offset(i - 1) \in Int
    <3>1. Offset(i - 1) \in Lanes
      BY <2>3 DEF Seated
    <3>. QED BY <2>3, <3>1, WordWidth DEF Seated, Lanes
  <2>. DEFINE o == Offset(i - 1)
  <2>. HIDE DEF o, q
  <2>7. o + 1 \in 1 .. Len(q) /\ q[o + 1] = s /\ Offset(pos[s]) = (o + 1) - 1
    BY <2>3, <2>5, <2>6 DEF o
  <2>. QED BY <2>7
<1>. QED BY <1>3, <1>5, <1>6, <1>7 DEF ChunkHeld

-----------------------------------------------------------------------------
(* Who may read what.                                                      *)

\* The slots that others than their own chain may read.
Visible(t, found, s) ==
  \/ s \notin found.used
  \/ \E c \in 1 .. Len(found.chains) : s \in Materialized(found.chains[c].links)

\* The blocks of the sources, the runs and the chains, by number.
LEMMA BlockNumbers ==
  ASSUME NEW t, NEW found, NEW blocks, NEW w, NEW pos, Made(t, found, blocks, w, pos)
  PROVE  /\ 1 \in 1 .. Len(blocks) /\ 2 \in 1 .. Len(blocks)
         /\ \A r \in 1 .. Len(t.runs) : 2 + r \in 1 .. Len(blocks) /\ 2 + r # 1 /\ 2 + r # 2
         /\ \A c \in 1 .. Len(found.chains) : \A j \in 1 .. 3 :
              /\ BeforeChain(t, c) + j \in 1 .. Len(blocks) /\ BeforeChain(t, c) + j # 1 /\ BeforeChain(t, c) + j # 2
              /\ \A r \in 1 .. Len(t.runs) : 2 + r # BeforeChain(t, c) + j
              /\ \A d \in 1 .. Len(found.chains) : \A h \in 1 .. 3 :
                   BeforeChain(t, c) + j = BeforeChain(t, d) + h => c = d /\ j = h
<1>. DEFINE m == Len(t.runs)
            n == Len(found.chains)
<1>1. m \in Nat /\ n \in Nat /\ Len(blocks) = 2 + m + 3 * n
  BY DEF Made, ScheduleContract, RunsExact, FoundWell, BlocksMade
<1>2. \A c : BeforeChain(t, c) = 2 + m + 3 * (c - 1)
  BY DEF BeforeChain
<1>. HIDE DEF m, n
<1>3. 1 \in 1 .. Len(blocks) /\ 2 \in 1 .. Len(blocks)
  BY <1>1
<1>4. \A r \in 1 .. m : 2 + r \in 1 .. Len(blocks) /\ 2 + r # 1 /\ 2 + r # 2
  BY <1>1
<1>5. ASSUME NEW c \in 1 .. n, NEW j \in 1 .. 3
      PROVE  /\ BeforeChain(t, c) + j \in 1 .. Len(blocks) /\ BeforeChain(t, c) + j # 1 /\ BeforeChain(t, c) + j # 2
             /\ \A r \in 1 .. m : 2 + r # BeforeChain(t, c) + j
             /\ \A d \in 1 .. n : \A h \in 1 .. 3 :
                  BeforeChain(t, c) + j = BeforeChain(t, d) + h => c = d /\ j = h
  <2>. DEFINE b == BeforeChain(t, c)
  <2>1. b = 2 + m + 3 * (c - 1) /\ b \in Nat /\ b >= 2 + m /\ b + 3 <= 2 + m + 3 * n
    BY <1>1, <1>2
  <2>2. ASSUME NEW d \in 1 .. n, NEW h \in 1 .. 3, b + j = BeforeChain(t, d) + h PROVE c = d /\ j = h
    <3>1. 2 + m + 3 * (c - 1) + j = 2 + m + 3 * (d - 1) + h
      BY <1>2, <2>2
    <3>2. c \in Int /\ d \in Int /\ j \in 1 .. 3 /\ h \in 1 .. 3
      OBVIOUS
    <3>3. 3 * c + j = 3 * d + h
      BY <1>1, <3>1, <3>2
    <3>. QED BY <3>2, <3>3
  <2>. HIDE DEF b
  <2>3. b + j \in 1 .. Len(blocks) /\ b + j # 1 /\ b + j # 2 /\ \A r \in 1 .. m : 2 + r # b + j
    BY <1>1, <2>1
  <2>. QED BY <2>2, <2>3 DEF b
<1>. QED BY <1>3, <1>4, <1>5 DEF m, n

\* Every input, every register, every gate that is not fused and every gate of
\* a chain that something else may read is in a block.
LEMMA VisibleSeats ==
  ASSUME NEW t, NEW found, NEW blocks, NEW w, NEW pos, Made(t, found, blocks, w, pos)
  PROVE  /\ \A i \in InputIds(t) : Seat(blocks, 1, i, t.input_slots[i])
         /\ \A r \in Registers(t) : Seat(blocks, 2, r, t.reg_out_slots[r])
         /\ \A r \in 1 .. Len(t.runs), s \in GateSlots(t) : s \in RunGates(t, found.used, r) =>
              \E i : Seat(blocks, 2 + r, i, s)
         /\ \A c \in 1 .. Len(found.chains) : \A s \in Materialized(found.chains[c].links) :
              \E j \in 1 .. 3 : \E i : Seat(blocks, BeforeChain(t, c) + j, i, s)
<1>1. TapeContract(t) /\ ScheduleContract(t) /\ FoundWell(t, found) /\ BlocksMade(t, found, blocks)
  BY DEF Made
<1>2. NoSlot \notin Slots(t) /\ GateSlots(t) \subseteq Slots(t)
  BY <1>1, SlotKinds DEF Slots, NoSlot
<1>3. ASSUME NEW i \in InputIds(t) PROVE Seat(blocks, 1, i, t.input_slots[i])
  <2>1. t.input_slots[i] # NoSlot
    BY <1>1, <1>2, SlotKinds
  <2>2. blocks[1] = t.input_slots /\ 1 \in 1 .. Len(blocks)
    BY <1>1, BlockNumbers DEF BlocksMade
  <2>. QED BY <2>1, <2>2 DEF Seat, InputIds
<1>4. ASSUME NEW r \in Registers(t) PROVE Seat(blocks, 2, r, t.reg_out_slots[r])
  <2>1. t.reg_out_slots[r] # NoSlot
    BY <1>1, <1>2, SlotKinds
  <2>2. blocks[2] = LiveOut(t) /\ 2 \in 1 .. Len(blocks)
    BY <1>1, BlockNumbers DEF BlocksMade
  <2>3. Len(LiveOut(t)) = Len(t.reg_out_slots) /\ LiveOut(t)[r] = t.reg_out_slots[r]
    BY <1>1, AllLive DEF Registers
  <2>. QED BY <2>1, <2>2, <2>3 DEF Seat, Registers
<1>5. ASSUME NEW r \in 1 .. Len(t.runs), NEW s \in GateSlots(t), s \in RunGates(t, found.used, r)
      PROVE  \E i : Seat(blocks, 2 + r, i, s)
  <2>1. blocks[2 + r] = RunSlots(found.used, t.runs[r])
    BY <1>1 DEF BlocksMade
  <2>. DEFINE slots == RunSlots(found.used, t.runs[r])
  <2>2. \E i \in 1 .. Len(slots) : slots[i] = s
    BY <1>1, <1>5, RunSlotsAscend
  <2>. HIDE DEF slots
  <2>3. PICK i \in 1 .. Len(slots) : slots[i] = s
    BY <2>2
  <2>4. Seat(blocks, 2 + r, i, s)
    <3>1. blocks[2 + r] = slots
      BY <2>1 DEF slots
    <3>2. 2 + r \in 1 .. Len(blocks)
      BY BlockNumbers
    <3>. QED BY <1>2, <2>3, <3>1, <3>2 DEF Seat
  <2>. QED BY <2>4
<1>6. ASSUME NEW c \in 1 .. Len(found.chains), NEW s \in Materialized(found.chains[c].links)
      PROVE  \E j \in 1 .. 3 : \E i : Seat(blocks, BeforeChain(t, c) + j, i, s)
  <2>. DEFINE chain == found.chains[c]
              links == chain.links
              n == Len(links)
  <2>1. chain \in ChainsOf(t) /\ chain = Chain(t, links)
    BY <1>1, ChainByName, ChainHasLinks
  <2>2. /\ blocks[BeforeChain(t, c) + 1] = SumBlock(chain) /\ blocks[BeforeChain(t, c) + 2] = PxqBlock(chain)
        /\ blocks[BeforeChain(t, c) + 3] = GBlock(chain)
    BY <1>1 DEF BlocksMade
  <2>3. \A j \in 1 .. 3 : BeforeChain(t, c) + j \in 1 .. Len(blocks)
    BY BlockNumbers
  <2>4. /\ n \in Nat /\ n >= 1 /\ DOMAIN links = 1 .. n
        /\ Len(SumBlock(chain)) = n + 1
        /\ \A i \in 1 .. n : SumBlock(chain)[i] = links[i].sum
        /\ SumBlock(chain)[n + 1] = links[n].carry
        /\ chain.ext_pxq => Len(PxqBlock(chain)) = n /\ \A i \in 1 .. n : PxqBlock(chain)[i] = links[i].pxq
        /\ chain.ext_g => Len(GBlock(chain)) = n /\ \A i \in 1 .. n : GBlock(chain)[i] = links[i].g
    <3>1. n \in 1 .. MaxChain /\ DOMAIN links = 1 .. n /\ Len(SumBlock(chain)) = n + 1
      BY <2>1, ChainBlockLength
    <3>2. (\A i \in 1 .. n : SumBlock(chain)[i] = links[i].sum) /\ SumBlock(chain)[n + 1] = links[n].carry
      BY <2>1, ChainBlockLength
    <3>3. chain.ext_pxq => Len(PxqBlock(chain)) = n /\ \A i \in 1 .. n : PxqBlock(chain)[i] = links[i].pxq
      BY <2>1, ChainBlockLength
    <3>4. chain.ext_g => Len(GBlock(chain)) = n /\ \A i \in 1 .. n : GBlock(chain)[i] = links[i].g
      BY <2>1, ChainBlockLength
    <3>. HIDE DEF n, links, chain
    <3>5. n \in Nat /\ n >= 1
      BY <3>1
    <3>. QED BY <3>1, <3>2, <3>3, <3>4, <3>5
  <2>5. /\ chain.ext_pxq <=> \E i \in DOMAIN links : links[i].ext_pxq
        /\ chain.ext_g <=> \E i \in DOMAIN links : links[i].ext_g
    <3>. HIDE DEF links
    <3>1. Chain(t, links).ext_pxq = (\E i \in DOMAIN links : links[i].ext_pxq)
          /\ Chain(t, links).ext_g = (\E i \in DOMAIN links : links[i].ext_g)
      BY DEF Chain
    <3>. QED BY <2>1, <3>1
  <2>6. s # NoSlot /\ \/ \E i \in 1 .. n : s = links[i].sum
                      \/ s = links[n].carry
                      \/ \E i \in 1 .. n : links[i].ext_pxq /\ s = links[i].pxq
                      \/ \E i \in 1 .. n : links[i].ext_g /\ s = links[i].g
    <3>1. DOMAIN links = 1 .. n
      BY <2>4
    <3>2. Last(links) = links[n]
      BY DEF Last
    <3>. HIDE DEF links, n
    <3>3. s \in Materialized(links)
      BY DEF links
    <3>. QED BY <3>1, <3>2, <3>3 DEF Materialized
  <2>. HIDE DEF n, links, chain
  <2>7. n + 1 \in 1 .. n + 1 /\ \A i \in 1 .. n : i \in 1 .. n + 1
    BY <2>4
  <2>8. CASE \E i \in 1 .. n : s = links[i].sum
    <3>1. PICK i \in 1 .. n : s = links[i].sum
      BY <2>8
    <3>2. Seat(blocks, BeforeChain(t, c) + 1, i, s)
      BY <2>2, <2>3, <2>4, <2>6, <2>7, <3>1 DEF Seat
    <3>. QED BY <3>2
  <2>9. CASE s = links[n].carry
    <3>1. Seat(blocks, BeforeChain(t, c) + 1, n + 1, s)
      BY <2>2, <2>3, <2>4, <2>6, <2>7, <2>9 DEF Seat
    <3>. QED BY <3>1
  <2>10. CASE \E i \in 1 .. n : links[i].ext_pxq /\ s = links[i].pxq
    <3>1. PICK i \in 1 .. n : links[i].ext_pxq /\ s = links[i].pxq
      BY <2>10
    <3>2. chain.ext_pxq
      BY <2>4, <2>5, <3>1
    <3>3. Seat(blocks, BeforeChain(t, c) + 2, i, s)
      BY <2>2, <2>3, <2>4, <2>6, <3>1, <3>2 DEF Seat
    <3>. QED BY <3>3
  <2>11. CASE \E i \in 1 .. n : links[i].ext_g /\ s = links[i].g
    <3>1. PICK i \in 1 .. n : links[i].ext_g /\ s = links[i].g
      BY <2>11
    <3>2. chain.ext_g
      BY <2>4, <2>5, <3>1
    <3>3. Seat(blocks, BeforeChain(t, c) + 3, i, s)
      BY <2>2, <2>3, <2>4, <2>6, <3>1, <3>2 DEF Seat
    <3>. QED BY <3>3
  <2>. QED BY <2>6, <2>8, <2>9, <2>10, <2>11
<1>. QED BY <1>3, <1>4, <1>5, <1>6

\* What is visible can be gathered.
LEMMA VisiblePlaced ==
  ASSUME NEW t, NEW found, NEW blocks, NEW w, NEW pos, Made(t, found, blocks, w, pos),
         NEW s \in Slots(t), Visible(t, found, s)
  PROVE  pos[s] # NoPos \/ IsConstSlot(t, s)
<1>1. TapeContract(t) /\ ScheduleContract(t) /\ FoundWell(t, found)
  BY DEF Made
<1>2. (\E k, i : Seat(blocks, k, i, s)) => pos[s] # NoPos
  BY PlacesSeated
<1>3. CASE s \notin GateSlots(t)
  <2>1. s \in Sources(t)
    BY <1>3 DEF Sources
  <2>2. \/ \E i \in InputIds(t) : t.input_slots[i] = s
        \/ \E r \in Registers(t) : t.reg_out_slots[r] = s
        \/ IsConstSlot(t, s)
    BY <1>1, <2>1 DEF TapeContract, SourcesNamed, IsConstSlot
  <2>. QED BY <1>2, <2>2, VisibleSeats
<1>4. CASE s \in GateSlots(t) /\ s \notin found.used
  <2>1. PICK r \in 1 .. Len(t.runs) : s \in t.runs[r].start .. t.runs[r].end - 1
    BY <1>1, <1>4 DEF ScheduleContract, RunsExact
  <2>2. s \in RunGates(t, found.used, r)
    BY <1>4, <2>1 DEF RunGates
  <2>3. \E i : Seat(blocks, 2 + r, i, s)
    BY <1>4, <2>2, VisibleSeats
  <2>. QED BY <1>2, <2>3
<1>5. CASE s \in found.used
  <2>1. PICK c \in 1 .. Len(found.chains) : s \in Materialized(found.chains[c].links)
    BY <1>5 DEF Visible
  <2>2. \E j \in 1 .. 3 : \E i : Seat(blocks, BeforeChain(t, c) + j, i, s)
    BY <2>1, VisibleSeats
  <2>. QED BY <1>2, <2>2
<1>. QED BY <1>3, <1>4, <1>5

\* What a gate that is not fused reads, what a chain reads and what is observed
\* outside the gates is visible.
LEMMA ReadersSee ==
  ASSUME NEW t, TapeContract(t), NEW found, FoundWell(t, found)
  PROVE  /\ \A g \in GateSlots(t) \ found.used : \A s \in OperandsOf(t, g) : s \in Slots(t) /\ Visible(t, found, s)
         /\ \A c \in 1 .. Len(found.chains) : \A s \in ChainInputs(found.chains[c].links) :
              s \in Slots(t) /\ Visible(t, found, s)
         /\ \A s \in Observed(t) : Visible(t, found, s)
<1>1. ASSUME NEW s, ~Visible(t, found, s)
      PROVE  \E c \in 1 .. Len(found.chains) :
               /\ s \in ChainGates(found.chains[c].links) /\ s \notin Observed(t)
               /\ successors(t, s) \subseteq ChainGates(found.chains[c].links)
  <2>1. s \in found.used /\ \A c \in 1 .. Len(found.chains) : s \notin Materialized(found.chains[c].links)
    BY <1>1 DEF Visible
  <2>2. PICK c \in 1 .. Len(found.chains) : s \in ChainGates(found.chains[c].links)
    BY <2>1 DEF FoundWell
  <2>3. Strung(t, {}, found.chains[c].links)
    BY ChainByName
  <2>4. s \notin Observed(t) /\ successors(t, s) \subseteq ChainGates(found.chains[c].links)
    BY <2>1, <2>2, <2>3, HiddenGates
  <2>. QED BY <2>2, <2>4
<1>2. ASSUME NEW g \in GateSlots(t) \ found.used, NEW s \in OperandsOf(t, g)
      PROVE  s \in Slots(t) /\ Visible(t, found, s)
  <2>1. s \in Slots(t)
    BY OperandsAreSlots
  <2>2. g \in successors(t, s)
    BY <2>1, SuccessorsAreGates
  <2>3. \A c \in 1 .. Len(found.chains) : ChainGates(found.chains[c].links) \subseteq found.used
    BY ChainByName
  <2>. QED BY <1>1, <2>1, <2>2, <2>3
<1>3. ASSUME NEW c \in 1 .. Len(found.chains), NEW s \in ChainInputs(found.chains[c].links)
      PROVE  s \in Slots(t) /\ Visible(t, found, s)
  <2>1. Strung(t, {}, found.chains[c].links) /\ ChainLinks(t, found.chains[c].links)
    BY ChainByName
  <2>2. s \in Slots(t) /\ \E h \in ChainGates(found.chains[c].links) : h \in successors(t, s)
    BY <2>1, ChainReads
  <2>3. s \notin ChainGates(found.chains[c].links)
    BY <2>1 DEF ChainLinks, consistent
  <2>4. ASSUME ~Visible(t, found, s) PROVE FALSE
    <3>1. PICK d \in 1 .. Len(found.chains) :
            s \in ChainGates(found.chains[d].links) /\ successors(t, s) \subseteq ChainGates(found.chains[d].links)
      BY <1>1, <2>4
    <3>2. PICK h \in ChainGates(found.chains[c].links) : h \in successors(t, s)
      BY <2>2
    <3>3. h \in ChainGates(found.chains[d].links)
      BY <3>1, <3>2
    <3>4. c = d
      BY <3>2, <3>3 DEF FoundWell
    <3>. QED BY <2>3, <3>1, <3>4
  <2>. QED BY <2>2, <2>4
<1>4. ASSUME NEW s \in Observed(t) PROVE Visible(t, found, s)
  BY <1>1
<1>. QED BY <1>2, <1>3, <1>4

-----------------------------------------------------------------------------
(* A plan without memories.                                                *)

\* The tasks of a plan without memories.
ChainTasksOf(t, found, blocks, pos, c) ==
  ChainTasks(t, pos, found.chains[c], [i \in 1 .. 3 |-> WordOf(Bases(blocks)[BeforeChain(t, c) + i])])
RunTasksOf(t, found, pos, r) == RunTasks(t, pos, RunSlots(found.used, t.runs[r]), t.runs[r].op)
ChainOrder(t, found, level) ==
  EmissionOrder([k \in DOMAIN found.chains |-> found.chains[k].ready], level, Len(t.levels))
ChainsAt(t, found, blocks, pos, level) ==
  FlattenSeq([i \in DOMAIN ChainOrder(t, found, level) |->
    ChainTasksOf(t, found, blocks, pos, ChainOrder(t, found, level)[i])]) \o <<>>
RunsAt(t, found, pos, level) ==
  FlattenSeq([i \in 1 .. t.levels[level].run_end - t.levels[level].run_start |->
    RunTasksOf(t, found, pos, t.levels[level].run_start + i - 1)])
TasksAt(t, found, blocks, pos, k) ==
  ChainsAt(t, found, blocks, pos, k - 1) \o (IF k <= Len(t.levels) THEN RunsAt(t, found, pos, k) ELSE <<>>)

\* The next states in the order of the registers.
NextSlots(t) == [r \in 1 .. Len(t.reg_out_slots) |-> t.reg_in_slots[r]]

\* A plan without memories.
Drawn(t, found, blocks, p) ==
  /\ p.chains = found.chains /\ p.banks = <<>> /\ p.writes = <<>>
  /\ p.pos = Positions(t, blocks) /\ p.words = ArenaWords(Bases(blocks)) /\ p.reg_word = WordOf(Bases(blocks)[2])
  /\ p.tasks = FlattenSeq([k \in 1 .. Len(t.levels) + 1 |-> TasksAt(t, found, blocks, p.pos, k)])
  /\ p.capture = [k \in DOMAIN chunks(NextSlots(t)) |-> plan_stream(t, p.pos, chunks(NextSlots(t))[k])]
  /\ p.staging_words = Len(chunks(NextSlots(t)))
  /\ p.reg_init = [k \in DOMAIN chunks(NextSlots(t)) |->
       {l \in Lanes : /\ WordBits * (k - 1) + l + 1 \in Registers(t)
                      /\ t.reg_initial[WordBits * (k - 1) + l + 1]}]

\* What is fused when there are no memories.
LEMMA PlainStructures ==
  ASSUME NEW found
  PROVE  LET fused == Structures(found, <<>>, <<>>) IN
         fused.chains = found.chains /\ fused.banks = <<>> /\ fused.reads = <<>> /\ fused.used = found.used
<1>1. DOMAIN <<>> = {} /\ <<>> \o <<>> = <<>> /\ ToSet(<<>>) = {}
  BY DEF ToSet
<1>2. \A f : [k \in {} |-> f[k]] = <<>>
  OBVIOUS
<1>3. \A banks, z : [k \in {} |-> ReadPlan(banks[k], z)] = <<>>
  OBVIOUS
<1>4. UNION {memory.fused : memory \in {}} = {}
  OBVIOUS
<1>5. [k \in DOMAIN <<>> |-> ReadPlan(<<>>[k], FALSE)] \o [k \in DOMAIN <<>> |-> ReadPlan(<<>>[k], TRUE)] = <<>>
  BY <1>1, <1>3
<1>6. found.used \cup UNION {memory.fused : memory \in ToSet(<<>> \o <<>>)} = found.used
  BY <1>1, <1>4
<1>. QED BY <1>5, <1>6 DEF Structures

\* Nothing is in no order.
LEMMA NothingOrdered ==
  ASSUME NEW level, NEW last
  PROVE  EmissionOrder(<<>>, level, last) = <<>>
<1>. DEFINE due == {k \in DOMAIN <<>> : EmittedAt(<<>>[k], last) = level}
            upTo(k) == {j \in due : <<>>[j] < <<>>[k] \/ (<<>>[j] = <<>>[k] /\ j <= k)}
            place == [k \in due |-> Cardinality(upTo(k))]
<1>1. due = {}
  OBVIOUS
<1>2. EmissionOrder(<<>>, level, last) = Ordered(due, place)
  BY DEF EmissionOrder
<1>. HIDE DEF due, upTo
<1>3. Cardinality({}) = 0
  BY FS_EmptySet
<1>4. place \in [{} -> 1 .. 0]
  BY <1>1
<1>. HIDE DEF place
<1>5. Numbered({}, place)
  BY <1>3, <1>4 DEF Numbered
<1>6. Ordered({}, place) \in [1 .. 0 -> {}]
  BY <1>3, <1>5, OrderedPlaces
<1>7. Ordered({}, place) = <<>>
  BY <1>6
<1>. QED BY <1>1, <1>2, <1>7

\* Without memories a plan is like this.
LEMMA PlainPlan ==
  ASSUME NEW t, TapeContract(t), NEW found, NEW fused, fused = Structures(found, <<>>, <<>>), NEW blocks
  PROVE  Drawn(t, found, blocks, PlanOn(t, fused, blocks))
<1>. DEFINE p == PlanOn(t, fused, blocks)
            bases == Bases(blocks)
            pos == Positions(t, blocks)
            live == Live(t)
            n == Len(t.reg_out_slots)
            captured == chunks([k \in DOMAIN live |-> CaptureSlot(t, <<>>, live[k])])
            last == Len(t.levels)
            order(level) == EmissionOrder([k \in DOMAIN fused.chains |-> fused.chains[k].ready], level, last)
            reads(level) == EmissionOrder([k \in DOMAIN fused.reads |-> fused.reads[k].read_ready], level, last)
            chain(c) == ChainTasks(t, pos, fused.chains[c],
                                   [i \in 1 .. 3 |-> WordOf(bases[2 + Len(t.runs) + 3 * (c - 1) + i])])
            read(m) == ReadTask(t, pos, fused.reads[m],
                                WordOf(bases[2 + Len(t.runs) + 3 * ((Len(fused.chains) + 1) - 1) + m]))
            emitted(level) == FlattenSeq([i \in DOMAIN order(level) |-> chain(order(level)[i])])
                                \o [i \in DOMAIN reads(level) |-> read(reads(level)[i])]
<1>1. fused.chains = found.chains /\ fused.banks = <<>> /\ fused.reads = <<>> /\ fused.used = found.used
  BY PlainStructures
<1>2. DOMAIN live = 1 .. n /\ (\A r \in 1 .. n : live[r] = r) /\ n \in Nat
  BY AllLive
<1>3. captured = chunks(NextSlots(t))
  <2>1. [k \in DOMAIN live |-> CaptureSlot(t, <<>>, live[k])] = NextSlots(t)
    BY <1>2 DEF CaptureSlot, NextSlots
  <2>. QED BY <2>1
<1>4. \A level : emitted(level) = ChainsAt(t, found, blocks, pos, level)
  <2>. SUFFICES ASSUME NEW level PROVE emitted(level) = ChainsAt(t, found, blocks, pos, level)
    OBVIOUS
  <2>1. order(level) = ChainOrder(t, found, level)
    BY <1>1 DEF ChainOrder
  <2>2. reads(level) = <<>>
    <3>1. [k \in DOMAIN fused.reads |-> fused.reads[k].read_ready] = <<>>
      BY <1>1
    <3>. QED BY <3>1, NothingOrdered
  <2>3. [i \in DOMAIN reads(level) |-> read(reads(level)[i])] = <<>>
    <3>. HIDE DEF read
    <3>1. DOMAIN <<>> = {}
      OBVIOUS
    <3>. QED BY <2>2, <3>1
  <2>4. \A c : chain(c) = ChainTasksOf(t, found, blocks, pos, c)
    BY <1>1 DEF ChainTasksOf, BeforeChain
  <2>. HIDE DEF chain, order, reads, read
  <2>. QED BY <2>1, <2>3, <2>4 DEF ChainsAt
<1>5. \A level : FlattenSeq([i \in 1 .. t.levels[level].run_end - t.levels[level].run_start |->
           LET run == t.runs[t.levels[level].run_start + i - 1]
           IN  RunTasks(t, pos, RunSlots(fused.used, run), run.op)]) = RunsAt(t, found, pos, level)
  BY <1>1 DEF RunsAt, RunTasksOf
<1>. DEFINE runs(level) == FlattenSeq([i \in 1 .. t.levels[level].run_end - t.levels[level].run_start |->
              LET run == t.runs[t.levels[level].run_start + i - 1]
              IN  RunTasks(t, pos, RunSlots(fused.used, run), run.op)])
            tasks == FlattenSeq([k \in 1 .. last + 1 |-> emitted(k - 1) \o IF k <= last THEN runs(k) ELSE <<>>])
<1>6. tasks = FlattenSeq([k \in 1 .. Len(t.levels) + 1 |-> TasksAt(t, found, blocks, pos, k)])
  <2>. HIDE DEF emitted, runs
  <2>1. \A k : (emitted(k - 1) \o IF k <= last THEN runs(k) ELSE <<>>) = TasksAt(t, found, blocks, pos, k)
    BY <1>4, <1>5 DEF TasksAt, runs
  <2>. QED BY <2>1
<1>7. /\ p.chains = fused.chains /\ p.banks = fused.banks /\ p.pos = pos /\ p.words = ArenaWords(bases)
      /\ p.reg_word = WordOf(bases[2]) /\ p.tasks = tasks
      /\ p.writes = [k \in DOMAIN fused.banks |-> MemWrite(t, pos, fused.banks[k], WordOf(bases[2]))]
  BY DEF PlanOn, PlanAt
<1>8. /\ p.capture = [k \in DOMAIN captured |-> plan_stream(t, pos, captured[k])]
      /\ p.staging_words = StagingWords(Len(captured), <<>>)
      /\ p.reg_init = [k \in DOMAIN captured |->
           {l \in Lanes : /\ WordBits * (k - 1) + l + 1 \in DOMAIN live
                          /\ t.reg_initial[live[WordBits * (k - 1) + l + 1]]}]
  BY <1>1 DEF PlanOn, PlanAt
<1>9. p.writes = <<>>
  <2>1. DOMAIN fused.banks = {}
    BY <1>1
  <2>2. \A f : [k \in {} |-> f[k]] = <<>>
    OBVIOUS
  <2>3. \A banks, z : [k \in {} |-> MemWrite(t, pos, banks[k], z)] = <<>>
    OBVIOUS
  <2>. HIDE DEF p, pos, bases
  <2>. QED BY <1>7, <2>1, <2>3
<1>10. p.staging_words = Len(captured) + 0
  BY <1>8 DEF StagingWords
<1>11. Len(captured) \in Nat
  <2>1. NextSlots(t) \in Seq({t.reg_in_slots[r] : r \in 1 .. n})
    BY <1>2 DEF NextSlots
  <2>2. Len(chunks(NextSlots(t))) \in Nat
    BY <2>1, ChunksCut
  <2>. QED BY <1>3, <2>2
<1>12. p.reg_init = [k \in DOMAIN captured |->
         {l \in Lanes : /\ WordBits * (k - 1) + l + 1 \in Registers(t)
                        /\ t.reg_initial[WordBits * (k - 1) + l + 1]}]
  <2>1. DOMAIN live = Registers(t) /\ \A r \in Registers(t) : live[r] = r
    BY <1>2 DEF Registers
  <2>2. \A k : {l \in Lanes : /\ WordBits * (k - 1) + l + 1 \in DOMAIN live
                             /\ t.reg_initial[live[WordBits * (k - 1) + l + 1]]}
             = {l \in Lanes : /\ WordBits * (k - 1) + l + 1 \in Registers(t)
                             /\ t.reg_initial[WordBits * (k - 1) + l + 1]}
    <3>. HIDE DEF live
    <3>1. \A x : x \in DOMAIN live /\ t.reg_initial[live[x]] <=> x \in Registers(t) /\ t.reg_initial[x]
      BY <2>1
    <3>. QED BY <3>1
  <2>. HIDE DEF captured, live, p
  <2>. QED BY <1>8, <2>2
<1>13. p.capture = [k \in DOMAIN captured |-> plan_stream(t, p.pos, captured[k])]
  BY <1>7, <1>8
<1>. HIDE DEF p, captured, tasks, bases, pos
<1>14. p.staging_words = Len(captured)
  BY <1>10, <1>11
<1>15. /\ p.pos = Positions(t, blocks) /\ p.words = ArenaWords(Bases(blocks)) /\ p.reg_word = WordOf(Bases(blocks)[2])
  BY <1>7 DEF pos, bases
<1>16. p.tasks = FlattenSeq([k \in 1 .. Len(t.levels) + 1 |-> TasksAt(t, found, blocks, p.pos, k)])
  BY <1>6, <1>7
<1>17. p.chains = found.chains /\ p.banks = <<>>
  BY <1>1, <1>7
<1>18. Drawn(t, found, blocks, p)
  BY <1>3, <1>9, <1>12, <1>13, <1>14, <1>15, <1>16, <1>17 DEF Drawn
<1>. QED BY <1>18 DEF p

\* A plan without memories, and all it is made from.
Whole(t, found, blocks, w, p) ==
  /\ Made(t, found, blocks, w, p.pos) /\ Drawn(t, found, blocks, p)
  /\ w = [k \in 1 .. Len(blocks) + 1 |-> WordOf(Bases(blocks)[k])]

\* The words of the arena.
LEMMA WholeWords ==
  ASSUME NEW t, NEW found, NEW blocks, NEW w, NEW p, Whole(t, found, blocks, w, p)
  PROVE  /\ blocks \in Seq(Seq(Nat)) /\ FirstWords(blocks, w) /\ Len(blocks) \in Nat
         /\ p.words \in Nat /\ p.words = w[Len(blocks) + 1] + 1 /\ p.reg_word = w[2] /\ w[2] \in Nat /\ w[1] = 0
         /\ \A k \in 1 .. Len(blocks) : \A x \in WordsOf(w, k) : x \in Nat /\ x + 1 < p.words
         /\ \A k \in 1 .. Len(blocks) + 1 : WordOf(Bases(blocks)[k]) = w[k]
<1>. DEFINE n == Len(blocks)
<1>1. blocks \in Seq(Seq(Nat)) /\ FirstWords(blocks, w) /\ n \in Nat
  <2>1. blocks \in Seq(Seq(Nat)) /\ FirstWords(blocks, w)
    BY DEF Whole, Made, BlocksMade, Layout
  <2>. QED BY <2>1
<1>2. Len(Bases(blocks)) = n + 1
  BY <1>1, BasesLaid
<1>3. \A k \in 1 .. n + 1 : WordOf(Bases(blocks)[k]) = w[k]
  BY DEF Whole
<1>4. n + 1 \in 1 .. n + 1 /\ 2 \in 1 .. n /\ 2 \in 1 .. n + 1
  <2>1. 2 \in 1 .. n
    BY BlockNumbers DEF Whole
  <2>. HIDE DEF n
  <2>. QED BY <1>1, <2>1
<1>5. p.words = w[n + 1] + 1 /\ p.reg_word = w[2]
  BY <1>2, <1>3, <1>4 DEF Whole, Drawn, ArenaWords
<1>6. \A k \in 1 .. n + 1 : w[k] \in Nat
  BY <1>1, WordsAscend
<1>7. ASSUME NEW k \in 1 .. n, NEW x \in WordsOf(w, k) PROVE x \in Nat /\ x + 1 < p.words
  <2>1. k + 1 \in 1 .. n + 1 /\ k \in 1 .. n + 1
    BY <1>1
  <2>2. w[k + 1] <= w[n + 1]
    BY <1>1, <1>4, <2>1, WordsAscend
  <2>3. w[k] \in Nat /\ w[k + 1] \in Nat /\ w[n + 1] \in Nat
    BY <1>4, <1>6, <2>1
  <2>. QED BY <1>5, <2>2, <2>3 DEF WordsOf
<1>8. w[1] = 0
  BY <1>1 DEF FirstWords
<1>9. p.words \in Nat /\ w[2] \in Nat
  BY <1>4, <1>5, <1>6
<1>. HIDE DEF n
<1>10. blocks \in Seq(Seq(Nat)) /\ FirstWords(blocks, w)
  BY <1>1
<1>. QED BY <1>1, <1>3, <1>5, <1>7, <1>8, <1>9, <1>10 DEF n

\* The signals that are placed.
LEMMA WholePlaced ==
  ASSUME NEW t, NEW found, NEW blocks, NEW w, NEW p, Whole(t, found, blocks, w, p)
  PROVE  /\ DOMAIN p.pos = Slots(t) /\ Placed(p) \subseteq Slots(t)
         /\ \A k, i, s : Seat(blocks, k, i, s) => s \in Placed(p) /\ Entry(t, found, k, i, s)
                           /\ Seated(blocks, w, p.pos, k, i, s) /\ k \in 1 .. Len(blocks)
         /\ \A s \in Placed(p) : \E k, i : Seat(blocks, k, i, s)
         /\ \A s \in Slots(t) : Visible(t, found, s) => s \in Placed(p) \/ IsConstSlot(t, s)
<1>1. Made(t, found, blocks, w, p.pos)
  BY DEF Whole
<1>2. DOMAIN p.pos = Slots(t)
  BY <1>1 DEF Made, Layout
<1>3. \A s : s \in Placed(p) <=> s \in Slots(t) /\ p.pos[s] # NoPos
  BY <1>2 DEF Placed
<1>4. ASSUME NEW k, NEW i, NEW s, Seat(blocks, k, i, s)
      PROVE  /\ s \in Placed(p) /\ Entry(t, found, k, i, s)
             /\ Seated(blocks, w, p.pos, k, i, s) /\ k \in 1 .. Len(blocks)
  <2>1. s \in Slots(t) /\ Entry(t, found, k, i, s) /\ Seated(blocks, w, p.pos, k, i, s)
    BY <1>1, <1>4, SeatsPlaced
  <2>2. p.pos[s] # NoPos
    BY <1>1, <1>4, <2>1, PlacesSeated
  <2>. QED BY <1>3, <1>4, <2>1, <2>2 DEF Seat
<1>5. \A s \in Placed(p) : \E k, i : Seat(blocks, k, i, s)
  BY <1>1, <1>3, PlacesSeated
<1>6. ASSUME NEW s \in Slots(t), Visible(t, found, s) PROVE s \in Placed(p) \/ IsConstSlot(t, s)
  BY <1>1, <1>3, <1>6, VisiblePlaced
<1>. QED BY <1>2, <1>3, <1>4, <1>5, <1>6

\* What a reset puts in the register words.
LEMMA ResetWords ==
  ASSUME NEW t, NEW found, NEW blocks, NEW w, NEW p, Whole(t, found, blocks, w, p)
  PROVE  /\ p.reg_init \in Seq(SUBSET Lanes) /\ Len(p.reg_init) = WordsFor(Len(t.reg_out_slots))
         /\ w[3] = w[2] + Len(p.reg_init)
         /\ \A r \in Registers(t) :
              /\ WordOf(r - 1) + 1 \in DOMAIN p.reg_init
              /\ Offset(r - 1) \in p.reg_init[WordOf(r - 1) + 1] <=> t.reg_initial[r]
<1>. DEFINE n == Len(t.reg_out_slots)
            m == WordsFor(n)
            cut == chunks(NextSlots(t))
            wordAt(k) == {l \in Lanes : /\ WordBits * (k - 1) + l + 1 \in Registers(t)
                                        /\ t.reg_initial[WordBits * (k - 1) + l + 1]}
<1>1. TapeContract(t) /\ n \in Nat
  BY DEF Whole, Made, TapeContract, FieldsTyped
<1>2. m \in Nat
  BY <1>1, WordsEnough
<1>3. NextSlots(t) \in Seq({t.reg_in_slots[r] : r \in 1 .. n}) /\ Len(NextSlots(t)) = n
  BY <1>1 DEF NextSlots
<1>4. DOMAIN cut = 1 .. m /\ Len(cut) = m
  BY <1>3, ChunksCut
<1>5. p.reg_init = [k \in 1 .. m |-> wordAt(k)]
  <2>. HIDE DEF m
  <2>. QED BY <1>4 DEF Whole, Drawn
<1>6. p.reg_init \in Seq(SUBSET Lanes) /\ Len(p.reg_init) = m /\ DOMAIN p.reg_init = 1 .. m
  <2>1. \A k \in 1 .. m : wordAt(k) \in SUBSET Lanes
    OBVIOUS
  <2>. HIDE DEF wordAt, m
  <2>. QED BY <1>2, <1>5, <2>1
<1>7. w[3] = w[2] + m
  <2>1. blocks \in Seq(Seq(Nat)) /\ FirstWords(blocks, w) /\ 2 \in 1 .. Len(blocks)
    BY WholeWords, BlockNumbers DEF Whole
  <2>2. w[2 + 1] = w[2] + WordsFor(Len(blocks[2]))
    BY <2>1, WordsGrow
  <2>3. Len(blocks[2]) = n
    BY <1>1, AllLive DEF Whole, Made, BlocksMade
  <2>4. 2 + 1 = 3
    OBVIOUS
  <2>. QED BY <2>2, <2>3, <2>4
<1>8. ASSUME NEW r \in Registers(t)
      PROVE  WordOf(r - 1) + 1 \in 1 .. m /\ (Offset(r - 1) \in wordAt(WordOf(r - 1) + 1) <=> t.reg_initial[r])
  <2>. DEFINE v == WordOf(r - 1)
              o == Offset(r - 1)
  <2>1. Seat(blocks, 2, r, t.reg_out_slots[r])
    BY VisibleSeats DEF Whole
  <2>2. Seated(blocks, w, p.pos, 2, r, t.reg_out_slots[r])
    BY <2>1, WholePlaced
  <2>3. v \in Nat /\ o \in Lanes /\ r - 1 = WordBits * v + o /\ v < WordsFor(Len(blocks[2]))
    BY <2>2 DEF Seated
  <2>4. Len(blocks[2]) = n
    BY <1>1, AllLive DEF Whole, Made, BlocksMade
  <2>5. v + 1 \in 1 .. m /\ (v + 1) - 1 = v
    <3>. HIDE DEF v
    <3>1. v \in Nat /\ v < m
      BY <2>3, <2>4
    <3>. HIDE DEF m
    <3>. QED BY <1>2, <3>1
  <2>6. WordBits * ((v + 1) - 1) + o + 1 = r
    <3>1. r \in Nat
      BY DEF Registers
    <3>. DEFINE z == WordBits * v
    <3>2. z \in Nat
      BY <2>3, WordWidth
    <3>3. o \in Nat
      BY <2>3, WordWidth DEF Lanes
    <3>. HIDE DEF o, z
    <3>4. r - 1 = z + o
      BY <2>3 DEF z, o
    <3>5. z + o + 1 = r
      BY <3>1, <3>2, <3>3, <3>4
    <3>. QED BY <2>5, <3>5 DEF z
  <2>7. o \in wordAt(v + 1) <=> t.reg_initial[r]
    <3>1. o \in wordAt(v + 1) <=> /\ WordBits * ((v + 1) - 1) + o + 1 \in Registers(t)
                                  /\ t.reg_initial[WordBits * ((v + 1) - 1) + o + 1]
      BY <2>3
    <3>. QED BY <2>6, <3>1
  <2>. QED BY <2>5, <2>7
<1>9. ASSUME NEW r \in Registers(t)
      PROVE  WordOf(r - 1) + 1 \in DOMAIN p.reg_init /\ (Offset(r - 1) \in p.reg_init[WordOf(r - 1) + 1] <=> t.reg_initial[r])
  <2>. HIDE DEF wordAt, m
  <2>. QED BY <1>5, <1>6, <1>8
<1>. QED BY <1>6, <1>7, <1>9

\* Every signal has a position of its own.
LEMMA PlanLaid ==
  ASSUME NEW t, NEW found, NEW blocks, NEW w, NEW p, Whole(t, found, blocks, w, p)
  PROVE  LaidOut(t, p)
<1>1. Made(t, found, blocks, w, p.pos) /\ TapeContract(t)
  BY DEF Whole, Made
<1>2. p.words \in Nat /\ p.reg_word \in Nat /\ DOMAIN p.pos = Slots(t)
  BY WholeWords, WholePlaced
<1>3. ASSUME NEW s \in Placed(p) PROVE p.pos[s] \in Nat /\ WordOf(p.pos[s]) + 1 < p.words
  <2>1. PICK k, i : Seat(blocks, k, i, s)
    BY WholePlaced
  <2>2. Seated(blocks, w, p.pos, k, i, s) /\ k \in 1 .. Len(blocks)
    BY <2>1, WholePlaced
  <2>. QED BY <2>2, WholeWords DEF Seated
<1>4. ASSUME NEW s \in Placed(p), NEW u \in Placed(p), p.pos[s] = p.pos[u] PROVE s = u
  <2>1. PICK k, i : Seat(blocks, k, i, s)
    BY WholePlaced
  <2>2. PICK h, j : Seat(blocks, h, j, u)
    BY WholePlaced
  <2>. QED BY <1>1, <1>4, <2>1, <2>2, SeatsApart
<1>5. p.reg_init \in Seq(SUBSET Lanes) /\ p.reg_word + Len(p.reg_init) <= p.words
  <2>1. p.reg_init \in Seq(SUBSET Lanes) /\ w[3] = w[2] + Len(p.reg_init) /\ p.reg_word = w[2]
    BY ResetWords, WholeWords
  <2>2. 2 \in 1 .. Len(blocks) /\ Len(blocks) \in Nat
    BY <1>1, WholeWords, BlockNumbers
  <2>3. 3 \in 1 .. Len(blocks) + 1 /\ Len(blocks) + 1 \in 1 .. Len(blocks) + 1
    BY <2>2
  <2>4. w[3] <= w[Len(blocks) + 1]
    BY <2>3, WholeWords, WordsAscend
  <2>5. p.words = w[Len(blocks) + 1] + 1
    BY WholeWords
  <2>6. w[3] \in Nat /\ w[Len(blocks) + 1] \in Nat
    BY <2>3, WholeWords, WordsAscend
  <2>. QED BY <2>1, <2>4, <2>5, <2>6
<1>6. ASSUME NEW i \in InputIds(t) PROVE p.pos[t.input_slots[i]] = i - 1
  <2>1. Seat(blocks, 1, i, t.input_slots[i])
    BY <1>1, VisibleSeats
  <2>2. p.pos[t.input_slots[i]] = WordBits * w[1] + (i - 1) /\ w[1] = 0
    BY <2>1, WholePlaced, WholeWords DEF Seated
  <2>3. i \in Nat /\ WordBits \in Nat
    BY WordWidth DEF InputIds
  <2>4. WordBits * 0 + (i - 1) = i - 1
    BY <2>3
  <2>. QED BY <2>2, <2>4
<1>7. ASSUME NEW r \in Registers(t) PROVE p.pos[t.reg_out_slots[r]] = WordBits * p.reg_word + r - 1
  <2>1. Seat(blocks, 2, r, t.reg_out_slots[r])
    BY <1>1, VisibleSeats
  <2>2. p.pos[t.reg_out_slots[r]] = WordBits * w[2] + (r - 1) /\ w[2] = p.reg_word /\ w[2] \in Nat
    BY <2>1, WholePlaced, WholeWords DEF Seated
  <2>3. r \in Nat /\ WordBits * w[2] \in Nat
    BY <2>2, WordWidth DEF Registers
  <2>. DEFINE z == WordBits * w[2]
  <2>. HIDE DEF z
  <2>4. z + (r - 1) = z + r - 1
    BY <2>3 DEF z
  <2>. QED BY <2>2, <2>4 DEF z
<1>8. ASSUME NEW s \in PlacedSources(t, p)
      PROVE  (\E i \in InputIds(t) : t.input_slots[i] = s) \/ (\E r \in Registers(t) : t.reg_out_slots[r] = s)
  <2>1. s \in Placed(p) /\ s \notin GateSlots(t)
    BY DEF PlacedSources, Sources
  <2>2. PICK k, i : Seat(blocks, k, i, s)
    BY <2>1, WholePlaced
  <2>3. Entry(t, found, k, i, s)
    BY <2>2, WholePlaced
  <2>4. TapeContract(t) /\ ScheduleContract(t) /\ FoundWell(t, found)
    BY <1>1 DEF Made
  <2>5. /\ \A r \in 1 .. Len(t.runs) : AtRun(t, found, k, s, r) => s \in GateSlots(t)
        /\ \A c \in 1 .. Len(found.chains), j \in 1 .. 3 : AtChain(t, found, k, i, s, c, j) => s \in GateSlots(t)
    BY <2>4, EntryKinds
  <2>. QED BY <2>1, <2>3, <2>5 DEF Entry
<1>9. ASSUME NEW s \in Placed(p), WordOf(p.pos[s]) - p.reg_word + 1 \in DOMAIN p.reg_init
      PROVE  \E r \in Registers(t) : t.reg_out_slots[r] = s
  <2>1. PICK k, i : Seat(blocks, k, i, s)
    BY WholePlaced
  <2>2. Seated(blocks, w, p.pos, k, i, s) /\ Entry(t, found, k, i, s)
    BY <2>1, WholePlaced
  <2>3. WordOf(p.pos[s]) \in WordsOf(w, 2)
    <3>. DEFINE x == WordOf(p.pos[s])
    <3>1. DOMAIN p.reg_init = 1 .. Len(p.reg_init) /\ Len(p.reg_init) \in Nat /\ w[3] = w[2] + Len(p.reg_init)
      BY ResetWords
    <3>2. p.reg_word = w[2] /\ w[2] \in Nat
      BY WholeWords
    <3>3. x \in Int
      <4>1. k \in 1 .. Len(blocks)
        BY <2>1, WholePlaced
      <4>. QED BY <2>2, <4>1, WholeWords DEF Seated
    <3>4. x - w[2] + 1 \in 1 .. Len(p.reg_init)
      BY <1>9, <3>1, <3>2
    <3>5. 2 + 1 = 3
      OBVIOUS
    <3>. HIDE DEF x
    <3>6. x \in w[2] .. w[3] - 1
      BY <3>1, <3>2, <3>3, <3>4
    <3>. QED BY <3>5, <3>6 DEF WordsOf, x
  <2>4. k = 2
    <3>1. 2 \in 1 .. Len(blocks)
      BY <1>1, BlockNumbers
    <3>. QED BY <1>1, <2>1, <2>3, <3>1, SeatsApart
  <2>5. Seat(blocks, 2, i, s)
    BY <2>1, <2>4
  <2>6. blocks[2] = LiveOut(t) /\ Len(LiveOut(t)) = Len(t.reg_out_slots)
    BY <1>1, AllLive DEF Made, BlocksMade
  <2>7. i \in Registers(t) /\ s = LiveOut(t)[i]
    BY <2>5, <2>6 DEF Seat, Registers
  <2>8. LiveOut(t)[i] = t.reg_out_slots[i]
    BY <1>1, <2>7, AllLive DEF Registers
  <2>. QED BY <2>7, <2>8
<1>10. \A r \in Registers(t) :
         /\ WordOf(r - 1) + 1 \in DOMAIN p.reg_init
         /\ Offset(r - 1) \in p.reg_init[WordOf(r - 1) + 1] <=> t.reg_initial[r]
  BY ResetWords
<1>. QED BY <1>2, <1>3, <1>4, <1>5, <1>6, <1>7, <1>8, <1>9, <1>10 DEF LaidOut

\* The registers are captured.
LEMMA PlanCaptures ==
  ASSUME NEW t, NEW found, NEW blocks, NEW w, NEW p, Whole(t, found, blocks, w, p)
  PROVE  CaptureBuilt(t, p)
<1>. DEFINE n == Len(t.reg_out_slots)
            m == WordsFor(n)
            next == NextSlots(t)
            cut == chunks(next)
            V == {t.reg_in_slots[r] : r \in 1 .. n}
<1>1. TapeContract(t) /\ FoundWell(t, found) /\ Drawn(t, found, blocks, p)
  BY DEF Whole, Made
<1>2. n \in Nat
  BY <1>1 DEF TapeContract, FieldsTyped
<1>3. next \in Seq(V) /\ Len(next) = n /\ \A r \in 1 .. n : next[r] = t.reg_in_slots[r]
  BY <1>2 DEF NextSlots
<1>. HIDE DEF V, next, n
<1>4. /\ m \in Nat /\ DOMAIN cut = 1 .. m /\ Len(cut) = m
      /\ \A k \in 1 .. m : cut[k] \in Seq(V) /\ WordChunk(next, k, cut[k])
  BY <1>3, ChunksCut
<1>5. /\ p.capture = [k \in 1 .. m |-> plan_stream(t, p.pos, cut[k])]
      /\ p.banks = <<>> /\ p.writes = <<>> /\ p.staging_words = m
  <2>. HIDE DEF m
  <2>. QED BY <1>1, <1>4 DEF Drawn, next
<1>6. p.reg_init \in Seq(SUBSET Lanes) /\ Len(p.reg_init) = m
  BY ResetWords DEF n
<1>7. DOMAIN p.capture = 1 .. m /\ DOMAIN p.reg_init = 1 .. m
  <2>. HIDE DEF m
  <2>. QED BY <1>5, <1>6
<1>8. ASSUME NEW r PROVE CaptureSlot(t, p.banks, r) = t.reg_in_slots[r]
  BY <1>5 DEF CaptureSlot
<1>9. ASSUME NEW k \in 1 .. m PROVE CaptureWindow(t, p, k) = cut[k]
  <2>. DEFINE q == cut[k]
              l == Min({WordBits, n - WordBits * (k - 1)})
              at(i) == WordBits * (k - 1) + i
  <2>1. q \in Seq(V) /\ WordChunk(next, k, q)
    BY <1>4
  <2>2. CaptureWindow(t, p, k) = [i \in 1 .. l |-> CaptureSlot(t, p.banks, at(i))]
    BY DEF CaptureWindow, n
  <2>. HIDE DEF q, l, at
  <2>3. Len(q) = l /\ q = [i \in 1 .. l |-> q[i]]
    <3>1. Len(q) = l /\ DOMAIN q = 1 .. Len(q)
      BY <1>3, <2>1 DEF WordChunk, l
    <3>. QED BY <2>1, <3>1
  <2>4. ASSUME NEW i \in 1 .. l PROVE CaptureSlot(t, p.banks, at(i)) = q[i]
    <3>1. ChunkEntryAt(next, k, q, i, at(i))
      BY <2>1, <2>3 DEF WordChunk, at
    <3>2. at(i) \in 1 .. n /\ q[i] = next[at(i)]
      BY <1>3, <3>1 DEF ChunkEntryAt
    <3>. QED BY <1>3, <1>8, <3>2
  <2>5. CaptureWindow(t, p, k) = q
    BY <2>2, <2>3, <2>4
  <2>. QED BY <2>5 DEF q
<1>10. ASSUME NEW r \in Registers(t) PROVE Gathered(t, p, CaptureSlot(t, p.banks, r))
  <2>1. t.reg_out_slots[r] # NoSlot
    BY <1>1, SlotKinds DEF Slots, NoSlot
  <2>2. t.reg_in_slots[r] \in Observed(t)
    BY <2>1 DEF Observed
  <2>3. t.reg_in_slots[r] \in Slots(t)
    BY <1>1 DEF TapeContract, FieldsTyped
  <2>4. Visible(t, found, t.reg_in_slots[r])
    BY <1>1, <2>2, ReadersSee
  <2>5. t.reg_in_slots[r] \in Placed(p) \/ IsConstSlot(t, t.reg_in_slots[r])
    BY <2>3, <2>4, WholePlaced
  <2>. QED BY <1>8, <2>5 DEF Gathered
<1>11. /\ Len(p.writes) \in Nat /\ DOMAIN p.writes = 1 .. Len(p.writes) /\ DOMAIN p.banks = DOMAIN p.writes
       /\ \A k \in DOMAIN p.writes : IsWrite(t, p, p.banks[k], p.writes[k])
  <2>1. DOMAIN <<>> = {} /\ Len(<<>>) = 0
    OBVIOUS
  <2>. QED BY <1>5, <2>1
<1>12. p.staging_words = StagingWords(Len(p.reg_init), p.banks)
  <2>. HIDE DEF m
  <2>1. StagingWords(m, p.banks) = m + 0
    BY <1>5 DEF StagingWords
  <2>2. m + 0 = m
    BY <1>4
  <2>. QED BY <1>5, <1>6, <2>1, <2>2
<1>13. ASSUME NEW k \in DOMAIN p.capture PROVE p.capture[k] = plan_stream(t, p.pos, CaptureWindow(t, p, k))
  <2>. HIDE DEF m, cut
  <2>. QED BY <1>5, <1>7, <1>9, <1>13
<1>14. DOMAIN p.capture = DOMAIN p.reg_init /\ Len(p.reg_init) = WordsFor(Len(t.reg_out_slots))
  BY <1>6, <1>7 DEF n
<1>15. p.banks = <<>>
  BY <1>5
<1>. HIDE DEF m, cut
<1>. QED BY <1>10, <1>11, <1>12, <1>13, <1>14, <1>15 DEF CaptureBuilt

-----------------------------------------------------------------------------
(* The order of the tasks.                                                 *)

\* When a signal is due in a tick: sources before it, the gates of a run at
\* their level, and those of a chain right before the level it is emitted at
\* the end of.
Due(t, found, s) ==
  IF s \notin GateSlots(t) THEN 0
  ELSE IF s \notin found.used THEN 2 * t.slot_level[s]
  ELSE 2 * found.chains[CHOOSE c \in 1 .. Len(found.chains) :
                          s \in ChainGates(found.chains[c].links)].ready + 1

\* What that is for each kind of signal.
LEMMA DueOf ==
  ASSUME NEW t, TapeContract(t), ScheduleContract(t), NEW found, FoundWell(t, found)
  PROVE  /\ \A s \in Slots(t) \ GateSlots(t) : Due(t, found, s) = 0
         /\ \A s \in GateSlots(t) \ found.used :
              Due(t, found, s) = 2 * t.slot_level[s] /\ t.slot_level[s] \in 1 .. Len(t.levels)
         /\ \A c \in 1 .. Len(found.chains) :
              /\ found.chains[c].ready \in 1 .. Len(t.levels)
              /\ found.chains[c].ready = ready(t, found.chains[c].links)
              /\ \A s \in ChainGates(found.chains[c].links) : Due(t, found, s) = 2 * found.chains[c].ready + 1
<1>1. ASSUME NEW s \in Slots(t) \ GateSlots(t) PROVE Due(t, found, s) = 0
  BY DEF Due
<1>2. ASSUME NEW s \in GateSlots(t) \ found.used
      PROVE  Due(t, found, s) = 2 * t.slot_level[s] /\ t.slot_level[s] \in 1 .. Len(t.levels)
  <2>1. s \in Slots(t)
    BY SlotKinds
  <2>2. t.slot_level[s] \in 1 .. Len(t.levels)
    BY <2>1, LevelsBounded
  <2>. QED BY <2>2 DEF Due
<1>3. ASSUME NEW c \in 1 .. Len(found.chains)
      PROVE  /\ found.chains[c].ready \in 1 .. Len(t.levels)
             /\ found.chains[c].ready = ready(t, found.chains[c].links)
             /\ \A s \in ChainGates(found.chains[c].links) : Due(t, found, s) = 2 * found.chains[c].ready + 1
  <2>. DEFINE chain == found.chains[c]
  <2>1. /\ chain \in ChainsOf(t) /\ ChainLinks(t, chain.links)
        /\ ChainGates(chain.links) \subseteq found.used /\ ChainGates(chain.links) \subseteq GateSlots(t)
    BY ChainByName
  <2>2. chain = Chain(t, chain.links)
    BY <2>1, ChainHasLinks
  <2>3. chain.ready = ready(t, chain.links)
    <3>1. \A links : Chain(t, links).ready = ready(t, links)
      BY DEF Chain
    <3>. HIDE DEF chain
    <3>. QED BY <2>2, <3>1
  <2>4. ready(t, chain.links) \in 1 .. Len(t.levels)
    BY <2>1, ChainReady
  <2>5. ASSUME NEW s \in ChainGates(chain.links)
        PROVE  Due(t, found, s) = 2 * chain.ready + 1
    <3>. DEFINE d == CHOOSE e \in 1 .. Len(found.chains) : s \in ChainGates(found.chains[e].links)
    <3>1. d \in 1 .. Len(found.chains) /\ s \in ChainGates(found.chains[d].links)
      <4>1. \E e \in 1 .. Len(found.chains) : s \in ChainGates(found.chains[e].links)
        BY DEF chain
      <4>. QED BY <4>1
    <3>2. d = c
      <4>. HIDE DEF d
      <4>1. ChainGates(found.chains[c].links) \cap ChainGates(found.chains[d].links) # {}
        BY <3>1 DEF chain
      <4>. QED BY <3>1, <4>1 DEF FoundWell
    <3>3. Due(t, found, s) = 2 * found.chains[d].ready + 1
      BY <2>1 DEF Due
    <3>. HIDE DEF d
    <3>. QED BY <3>2, <3>3
  <2>. QED BY <2>3, <2>4, <2>5
<1>. QED BY <1>1, <1>2, <1>3

\* What a chain leaves to be read is among its gates.
LEMMA MaterializedGates ==
  ASSUME NEW t, NEW used, NEW links, Strung(t, used, links), NEW s \in Materialized(links)
  PROVE  s \in ChainGates(links)
<1>. DEFINE n == Len(links)
<1>1. links \in Seq(AdmittedLinks(t)) /\ n \in Nat /\ n > 0 /\ DOMAIN links = 1 .. n /\ Last(links) = links[n]
  BY DEF Strung, Last
<1>2. s # NoSlot
  BY DEF Materialized
<1>3. \E i \in 1 .. n : s \in {links[i].sum, links[i].carry, links[i].pxq, links[i].g}
  BY <1>1 DEF Materialized
<1>4. PICK i \in 1 .. n : s \in {links[i].sum, links[i].carry, links[i].pxq, links[i].g}
  BY <1>3
<1>5. s \in link_gates(links[i])
  BY <1>2, <1>4, LinkGate
<1>. QED BY <1>1, <1>5, GatesOfChain

\* What others may read is due at its level or right after it.
LEMMA VisibleDue ==
  ASSUME NEW t, TapeContract(t), ScheduleContract(t), NEW found, FoundWell(t, found),
         NEW s \in Slots(t), Visible(t, found, s)
  PROVE  Due(t, found, s) \in Nat /\ t.slot_level[s] \in Nat /\ Due(t, found, s) <= 2 * t.slot_level[s] + 1
<1>1. t.slot_level[s] \in Nat
  BY DEF TapeContract, FieldsTyped
<1>2. CASE s \notin GateSlots(t)
  <2>1. Due(t, found, s) = 0
    BY <1>2, DueOf
  <2>. QED BY <1>1, <2>1
<1>3. CASE s \in GateSlots(t) \ found.used
  <2>1. Due(t, found, s) = 2 * t.slot_level[s]
    BY <1>3, DueOf
  <2>. QED BY <1>1, <2>1
<1>4. CASE s \in found.used
  <2>1. PICK c \in 1 .. Len(found.chains) : s \in Materialized(found.chains[c].links)
    BY <1>4 DEF Visible
  <2>. DEFINE links == found.chains[c].links
  <2>2. ChainLinks(t, links) /\ Strung(t, {}, links)
    BY ChainByName
  <2>3. s \in ChainGates(links)
    BY <2>1, <2>2, MaterializedGates
  <2>4. /\ Due(t, found, s) = 2 * ready(t, links) + 1 /\ ready(t, links) \in 1 .. Len(t.levels)
    <3>1. /\ found.chains[c].ready = ready(t, links) /\ found.chains[c].ready \in 1 .. Len(t.levels)
          /\ \A x \in ChainGates(found.chains[c].links) : Due(t, found, x) = 2 * found.chains[c].ready + 1
      BY DueOf
    <3>. QED BY <2>3, <3>1
  <2>5. t.slot_level[s] >= ready(t, links)
    BY <2>1, <2>2, ChainReady
  <2>. HIDE DEF links
  <2>. QED BY <1>1, <2>4, <2>5
<1>. QED BY <1>2, <1>3, <1>4

-----------------------------------------------------------------------------
(* Tasks and when they are due.                                            *)

\* The signals at these positions are all due earlier.
ReadsBefore(t, found, p, positions, n) ==
  /\ positions \subseteq Positioned(p)
  /\ \A s \in Placed(p) : p.pos[s] \in positions => Due(t, found, s) < n

\* A stream of a window reads the signals of the window.
LEMMA WindowReads ==
  ASSUME NEW t, NEW p, Laid(t, p), NEW found, NEW n, NEW window, WindowGathered(t, p, window),
         \A j \in DOMAIN window : window[j] # NoSlot => Due(t, found, window[j]) < n
  PROVE  ReadsBefore(t, found, p, Reads(plan_stream(t, p.pos, window)), n)
<1>. DEFINE stream == plan_stream(t, p.pos, window)
            sources == {p.pos[window[j]] : j \in Open(t, window)}
<1>1. ASSUME NEW j \in Open(t, window)
      PROVE  window[j] \in Placed(p) /\ p.pos[window[j]] \in Nat /\ Due(t, found, window[j]) < n
  <2>1. window[j] \in Placed(p) /\ j \in DOMAIN window /\ window[j] # NoSlot
    BY DEF Open, WindowGathered, Gathered
  <2>. QED BY <2>1, Places
<1>2. WindowFits(t, p.pos, window)
  BY <1>1 DEF WindowFits, WindowGathered
<1>3. /\ \A seg \in stream.funnels \cup stream.splats : seg.src \in sources
      /\ \A seg \in stream.funnels : \A k \in seg.mask : seg.src + k - seg.shift \in sources
  BY <1>2, StreamOfWindow
<1>4. sources \subseteq Positioned(p)
  BY <1>1 DEF Positioned
<1>5. ASSUME NEW s \in Placed(p), p.pos[s] \in sources PROVE Due(t, found, s) < n
  <2>1. PICK j \in Open(t, window) : p.pos[s] = p.pos[window[j]]
    BY <1>5
  <2>2. window[j] = s
    BY <1>1, <2>1 DEF Laid, LaidOut
  <2>. QED BY <1>1, <2>2
<1>. HIDE DEF stream, sources
<1>6. Reads(stream) \subseteq sources
  BY <1>3 DEF Reads
<1>7. ReadsBefore(t, found, p, Reads(stream), n)
  BY <1>4, <1>5, <1>6 DEF ReadsBefore
<1>. QED BY <1>7 DEF stream

\* A task without a memory read reads what its streams do.
LEMMA StreamsRead ==
  ASSUME NEW t, NEW found, NEW p, NEW n, NEW task, task.read = NoRead,
         \A i \in 1 .. 3 : ReadsBefore(t, found, p, Reads(task.streams[i]), n)
  PROVE  ReadsBefore(t, found, p, TaskReads(task), n)
<1>2. /\ Field(NoRead.width) = {} /\ ToSet(NoRead.addr_pos) = {}
  <2>1. Min({0, WordBits}) = 0
    BY SmallerOfTwo, WordWidth
  <2>. QED BY <2>1 DEF NoRead, Field, ToSet
<1>3. ASSUME NEW addr PROVE Loaded(NoRead, addr) = {}
  BY <1>2 DEF Loaded
<1>4. TaskReads(task) = UNION {Reads(task.streams[i]) : i \in 1 .. 3}
  BY <1>2, <1>3 DEF TaskReads
<1>. QED BY <1>4 DEF ReadsBefore

\* No stream reads nothing.
LEMMA NothingRead ==
  ASSUME NEW t, NEW found, NEW p, NEW n
  PROVE  ReadsBefore(t, found, p, Reads(NoStream), n)
BY NoStreamReads DEF ReadsBefore

\* A word filled with gates of one operation: these are its signals.
GatesHeld(t, p, x, q, op) ==
  /\ q \in Seq(GateSlots(t)) /\ Len(q) \in 1 .. WordBits /\ x \in Nat
  /\ ChunkHeld(t, p.pos, x, q)
  /\ \A i \in 1 .. Len(q) : /\ q[i] \in Placed(p) /\ t.ops[q[i]] = op
                            /\ \A s \in OperandsOf(t, q[i]) : Gathered(t, p, s)

\* Their task is one of gates.
LEMMA GateTaskBuilt ==
  ASSUME NEW t, NEW p, Laid(t, p), NEW x, NEW q, NEW op, GatesHeld(t, p, x, q, op),
         NEW task, task = GateTask(t, p.pos, q, op)
  PROVE  IsGateTask(t, p, task) /\ task.dst = x /\ task.op = op /\ GateTaskOf(t, p, task, q)
<1>. DEFINE m == Len(q)
            at(i) == WordBits * x + i - 1
            signals == {s \in Placed(p) : WordOf(p.pos[s]) = x}
<1>1. /\ q \in Seq(GateSlots(t)) /\ m \in 1 .. WordBits /\ m \in Nat /\ x \in Nat /\ DOMAIN q = 1 .. m
      /\ WordBits \in Nat
  BY WordWidth DEF GatesHeld
<1>2. /\ \A s \in Placed(p) : s \in Slots(t) /\ p.pos[s] # NoPos
      /\ NoSlot \notin GateSlots(t)
  <2>1. TapeContract(t) /\ DOMAIN p.pos = Slots(t)
    BY DEF Laid, LaidOut
  <2>2. NoSlot \notin GateSlots(t)
    BY <2>1, SlotKinds DEF Slots, NoSlot
  <2>. QED BY <2>1, <2>2 DEF Placed
<1>3. ASSUME NEW i \in 1 .. m
      PROVE  q[i] \in signals /\ q[i] # NoSlot /\ p.pos[q[i]] = at(i) /\ at(i) \in Nat /\ Offset(p.pos[q[i]]) = i - 1
  <2>1. q[i] \in GateSlots(t) /\ q[i] \in Placed(p)
    BY <1>1 DEF GatesHeld
  <2>2. q[i] # NoSlot
    BY <1>2, <2>1
  <2>3. p.pos[q[i]] = WordBits * x + i - 1 /\ WordOf(p.pos[q[i]]) = x /\ Offset(p.pos[q[i]]) = i - 1
    BY <2>2 DEF GatesHeld, ChunkHeld
  <2>4. p.pos[q[i]] \in Nat
    BY <2>1, Places
  <2>. QED BY <2>1, <2>2, <2>3, <2>4
<1>4. ASSUME NEW s \in signals PROVE \E i \in 1 .. m : q[i] = s /\ Offset(p.pos[s]) = i - 1
  <2>1. s \in Slots(t) /\ p.pos[s] # NoPos /\ WordOf(p.pos[s]) = x
    BY <1>2
  <2>. QED BY <2>1 DEF GatesHeld, ChunkHeld
<1>5. ASSUME NEW i \in 1 .. m, NEW j \in 1 .. m, q[i] = q[j] PROVE i = j
  <2>1. i - 1 = j - 1
    BY <1>3, <1>5
  <2>. QED BY <2>1
<1>6. Cardinality(signals) = m
  <2>1. q \in Bijection(1 .. m, signals)
    <3>. HIDE DEF signals
    <3>1. q \in [1 .. m -> signals]
      BY <1>1, <1>3
    <3>. QED BY <1>4, <1>5, <3>1 DEF Bijection, Injection, Surjection, IsInjective
  <2>. QED BY <1>1, <2>1, FS_CountingElements DEF ExistsBijection
<1>7. task.dst = x /\ task.op = op
  <2>1. WordOf(p.pos[q[1]]) = x
    BY <1>1, <1>3
  <2>. QED BY <2>1 DEF GateTask, Task
<1>8. {p.pos[s] : s \in signals} = {at(i) : i \in 1 .. m}
  <2>1. \A s \in signals : \E i \in 1 .. m : p.pos[s] = at(i)
    <3>. HIDE DEF at, signals, m
    <3>. QED BY <1>3, <1>4
  <2>2. \A i \in 1 .. m : \E s \in signals : p.pos[s] = at(i)
    <3>. HIDE DEF at, signals, m
    <3>. QED BY <1>3
  <2>. HIDE DEF at, signals, m
  <2>. QED BY <2>1, <2>2
<1>9. q = [i \in 1 .. m |-> CHOOSE s \in signals : p.pos[s] = at(i)]
  <2>1. ASSUME NEW i \in 1 .. m PROVE q[i] = CHOOSE s \in signals : p.pos[s] = at(i)
    <3>1. \A s \in signals : p.pos[s] = at(i) => s = q[i]
      <4>1. \A s, u \in Placed(p) : p.pos[s] = p.pos[u] => s = u
        BY DEF Laid, LaidOut
      <4>. QED BY <1>3, <4>1
    <3>. HIDE DEF signals, at
    <3>. QED BY <1>3, <3>1
  <2>. HIDE DEF signals, at
  <2>2. q = [i \in 1 .. m |-> q[i]]
    BY <1>1
  <2>. QED BY <2>1, <2>2
<1>10. FilledBy(p, x, q)
  <2>1. ASSUME NEW s \in Placed(p), WordOf(p.pos[s]) = x
        PROVE  \E i \in DOMAIN q : q[i] = s /\ Offset(p.pos[s]) = i - 1
    BY <1>1, <1>4, <2>1
  <2>. QED BY <2>1 DEF FilledBy
<1>11. \A i \in DOMAIN q : t.ops[q[i]] = op /\ \A s \in OperandsOf(t, q[i]) : Gathered(t, p, s)
  BY <1>1 DEF GatesHeld
<1>12. GateTaskOf(t, p, task, q)
  BY <1>1, <1>7, <1>10, <1>11 DEF GateTaskOf
<1>13. IsGateTask(t, p, task)
  <2>. DEFINE sig == {s \in Placed(p) : WordOf(p.pos[s]) = task.dst}
              slots == [i \in 1 .. Cardinality(sig) |->
                          CHOOSE s \in sig : p.pos[s] = WordBits * task.dst + i - 1]
  <2>1. sig = signals
    BY <1>7
  <2>2. slots = q
    <3>. HIDE DEF signals, sig
    <3>. QED BY <1>6, <1>7, <1>9, <2>1
  <2>3. {p.pos[s] : s \in sig} = {WordBits * task.dst + i - 1 : i \in 1 .. Cardinality(sig)}
    <3>. HIDE DEF signals, sig
    <3>. QED BY <1>6, <1>7, <1>8, <2>1
  <2>. HIDE DEF sig
  <2>4. /\ slots \in Seq(GateSlots(t)) /\ Len(slots) \in 1 .. WordBits
        /\ FilledBy(p, task.dst, slots)
        /\ \A i \in DOMAIN slots :
             /\ t.ops[slots[i]] = task.op
             /\ \A s \in OperandsOf(t, slots[i]) : Gathered(t, p, s)
        /\ task = GateTask(t, p.pos, slots, task.op)
    <3>. HIDE DEF slots
    <3>. QED BY <1>12, <2>2 DEF GateTaskOf
  <2>. QED BY <2>3, <2>4, Zenon DEF IsGateTask, sig, slots
<1>. QED BY <1>7, <1>12, <1>13

\* A task that fits the plan: it writes a word of gates due now, and reads
\* words of signals due earlier.
Job(t, found, p, task, n) ==
  /\ task.dst \in {WordOf(x) : x \in Positioned(p)}
  /\ IsGateTask(t, p, task) \/ IsChainTask(t, p, task)
  /\ \A s \in Placed(p) : WordOf(p.pos[s]) = task.dst => s \in GateSlots(t) /\ Due(t, found, s) = n
  /\ ReadsBefore(t, found, p, TaskReads(task), n)

\* The gates of a run of a level.
LEMMA RunAtLevel ==
  ASSUME NEW t, ScheduleContract(t), NEW l \in 1 .. Len(t.levels),
         NEW r \in t.levels[l].run_start .. t.levels[l].run_end - 1
  PROVE  /\ r \in 1 .. Len(t.runs)
         /\ \A g \in t.runs[r].start .. t.runs[r].end - 1 :
              g \in GateSlots(t) /\ t.slot_level[g] = l /\ t.ops[g] = t.runs[r].op
<1>. DEFINE level == t.levels[l]
            run == t.runs[r]
<1>1. r \in 1 .. Len(t.runs)
  BY DEF ScheduleContract, RunsExact
<1>2. /\ level.start \in Nat /\ level.end \in Nat /\ LevelSlots(t, l) = {g \in GateSlots(t) : t.slot_level[g] = l}
  BY DEF ScheduleContract, LevelsExact
<1>3. /\ run.start \in Nat /\ run.end \in Nat /\ level.start <= run.start /\ run.end <= level.end
      /\ \A g \in run.start .. run.end - 1 : t.ops[g] = run.op
  BY DEF ScheduleContract, LevelRunsExact
<1>4. ASSUME NEW g \in run.start .. run.end - 1 PROVE g \in LevelSlots(t, l)
  BY <1>2, <1>3 DEF LevelSlots
<1>. QED BY <1>1, <1>2, <1>3, <1>4

\* Operands of a gate that is not fused are due before it.
LEMMA OperandsDue ==
  ASSUME NEW t, TapeContract(t), ScheduleContract(t), NEW found, FoundWell(t, found),
         NEW g \in GateSlots(t) \ found.used, NEW s \in OperandsOf(t, g)
  PROVE  s \in Slots(t) /\ Visible(t, found, s) /\ Due(t, found, s) < 2 * t.slot_level[g]
<1>1. s \in Slots(t) /\ Visible(t, found, s)
  BY ReadersSee
<1>2. Due(t, found, s) \in Nat /\ t.slot_level[s] \in Nat /\ Due(t, found, s) <= 2 * t.slot_level[s] + 1
  BY <1>1, VisibleDue
<1>3. t.slot_level[s] < t.slot_level[g]
  BY DEF TapeContract, OperandsBelow
<1>4. t.slot_level[g] \in Nat
  BY SlotKinds DEF TapeContract, FieldsTyped
<1>. QED BY <1>1, <1>2, <1>3, <1>4

\* The task of word j of a run.
LEMMA RunJob ==
  ASSUME NEW t, NEW found, NEW blocks, NEW w, NEW p, Whole(t, found, blocks, w, p),
         NEW l \in 1 .. Len(t.levels), NEW r \in t.levels[l].run_start .. t.levels[l].run_end - 1,
         NEW j \in 1 .. WordsFor(Len(blocks[2 + r])),
         NEW task, task = GateTask(t, p.pos, chunks(blocks[2 + r])[j], t.runs[r].op)
  PROVE  Job(t, found, p, task, 2 * l) /\ task.dst = w[2 + r] + j - 1 /\ task.dst \in WordsOf(w, 2 + r)
<1>. DEFINE slots == blocks[2 + r]
            q == chunks(slots)[j]
            m == Len(q)
            x == w[2 + r] + j - 1
            op == t.runs[r].op
<1>1. /\ TapeContract(t) /\ ScheduleContract(t) /\ FoundWell(t, found) /\ Made(t, found, blocks, w, p.pos)
      /\ BlocksMade(t, found, blocks)
  BY DEF Whole, Made
<1>2. /\ r \in 1 .. Len(t.runs)
      /\ \A g \in t.runs[r].start .. t.runs[r].end - 1 :
           g \in GateSlots(t) /\ t.slot_level[g] = l /\ t.ops[g] = op
  BY <1>1, RunAtLevel
<1>3. 2 + r \in 1 .. Len(blocks)
  BY <1>1, <1>2, BlockNumbers
<1>4. Laid(t, p)
  BY <1>1, PlanLaid DEF Laid
<1>5. /\ WordChunk(slots, j, q) /\ q \in Seq(Nat) /\ x \in WordsOf(w, 2 + r) /\ ChunkHeld(t, p.pos, x, q)
  BY <1>1, <1>3, ChunkOfBlock
<1>6. x \in Nat
  BY <1>3, <1>5, WholeWords
<1>7. slots \in Seq(RunGates(t, found.used, r))
  <2>1. slots = RunSlots(found.used, t.runs[r])
    BY <1>1, <1>2 DEF BlocksMade
  <2>. QED BY <1>1, <1>2, <2>1, RunSlotsAscend
<1>. HIDE DEF slots, q, x
<1>8. m \in 1 .. WordBits /\ DOMAIN q = 1 .. m /\ m \in Nat
  BY <1>5, WordWidth DEF WordChunk
<1>9. ASSUME NEW i \in 1 .. m
      PROVE  q[i] \in RunGates(t, found.used, r)
  <2>1. ChunkEntryAt(slots, j, q, i, WordBits * (j - 1) + i)
    BY <1>5 DEF WordChunk
  <2>2. PICK b \in 1 .. Len(slots) : q[i] = slots[b]
    BY <2>1 DEF ChunkEntryAt
  <2>. QED BY <1>7, <2>2
<1>10. ASSUME NEW g \in RunGates(t, found.used, r)
       PROVE  /\ g \in GateSlots(t) \ found.used /\ t.slot_level[g] = l /\ t.ops[g] = op
              /\ g \in Slots(t) /\ Due(t, found, g) = 2 * l
  <2>1. g \in GateSlots(t) \ found.used /\ t.slot_level[g] = l /\ t.ops[g] = op
    BY <1>2 DEF RunGates
  <2>2. g \in Slots(t)
    BY <1>1, <2>1, SlotKinds
  <2>3. Due(t, found, g) = 2 * t.slot_level[g]
    BY <1>1, <2>1, DueOf
  <2>. QED BY <2>1, <2>2, <2>3
<1>11. ASSUME NEW s \in Slots(t), Visible(t, found, s) PROVE Gathered(t, p, s)
  BY <1>11, WholePlaced DEF Gathered
<1>12. ASSUME NEW i \in 1 .. m
       PROVE  /\ q[i] \in Placed(p) /\ t.ops[q[i]] = op /\ q[i] \in GateSlots(t)
              /\ \A s \in OperandsOf(t, q[i]) : Gathered(t, p, s) /\ Due(t, found, s) < 2 * l
  <2>. DEFINE g == q[i]
  <2>1. g \in RunGates(t, found.used, r)
    BY <1>9
  <2>. HIDE DEF g
  <2>2. /\ g \in GateSlots(t) \ found.used /\ t.slot_level[g] = l /\ t.ops[g] = op /\ g \in Slots(t)
    BY <1>10, <2>1
  <2>3. g \in Placed(p)
    <3>1. \E h : Seat(blocks, 2 + r, h, g)
      BY <1>1, <1>2, <2>1, <2>2, VisibleSeats
    <3>. QED BY <3>1, WholePlaced
  <2>4. \A s \in OperandsOf(t, g) : s \in Slots(t) /\ Visible(t, found, s) /\ Due(t, found, s) < 2 * t.slot_level[g]
    BY <1>1, <2>2, OperandsDue
  <2>. QED BY <1>11, <2>2, <2>3, <2>4 DEF g
<1>13. GatesHeld(t, p, x, q, op)
  <2>1. q \in Seq(GateSlots(t))
    <3>1. q = [i \in 1 .. m |-> q[i]]
      BY <1>5, <1>8
    <3>. HIDE DEF m
    <3>2. q \in [1 .. m -> GateSlots(t)]
      BY <1>12, <3>1
    <3>. QED BY <1>8, <3>2
  <2>. HIDE DEF op
  <2>. QED BY <1>5, <1>6, <1>8, <1>12, <2>1 DEF GatesHeld
<1>14. IsGateTask(t, p, task) /\ task.dst = x /\ task.op = op /\ GateTaskOf(t, p, task, q)
  <2>1. task = GateTask(t, p.pos, q, op)
    BY DEF q, slots
  <2>. HIDE DEF op
  <2>. QED BY <1>4, <1>13, <2>1, GateTaskBuilt
<1>15. ASSUME NEW s \in Placed(p), WordOf(p.pos[s]) = x
       PROVE  s \in GateSlots(t) /\ Due(t, found, s) = 2 * l
  <2>1. s \in Slots(t) /\ p.pos[s] # NoPos
    BY WholePlaced DEF Placed
  <2>2. PICK i \in 1 .. m : q[i] = s
    BY <1>5, <1>15, <2>1 DEF ChunkHeld
  <2>. QED BY <1>9, <1>10, <2>2
<1>16. x \in {WordOf(y) : y \in Positioned(p)}
  <2>1. 1 \in 1 .. m
    BY <1>8
  <2>2. q[1] \in Placed(p) /\ q[1] \in GateSlots(t)
    BY <1>12, <2>1
  <2>3. q[1] # NoSlot
    BY <1>1, <2>2, SlotKinds DEF Slots, NoSlot
  <2>4. WordOf(p.pos[q[1]]) = x
    BY <1>5, <2>1, <2>3 DEF ChunkHeld
  <2>. QED BY <2>2, <2>4 DEF Positioned
<1>17. ReadsBefore(t, found, p, TaskReads(task), 2 * l)
  <2>. DEFINE n == 2 * l
  <2>1. /\ task.streams[1] = plan_stream(t, p.pos, Operand(t.a, q))
        /\ task.streams[2] = IF arity(task.op) > 1 THEN plan_stream(t, p.pos, Operand(t.b, q)) ELSE NoStream
        /\ task.streams[3] = IF arity(task.op) > 2 THEN plan_stream(t, p.pos, Operand(t.c, q)) ELSE NoStream
        /\ task.read = NoRead
    BY <1>14, GateStreams
  <2>2. /\ WindowGathered(t, p, Operand(t.a, q))
        /\ arity(task.op) > 1 => WindowGathered(t, p, Operand(t.b, q))
        /\ arity(task.op) > 2 => WindowGathered(t, p, Operand(t.c, q))
    BY <1>4, <1>14, GateWindows
  <2>. HIDE DEF n
  <2>3. ASSUME NEW i \in DOMAIN q
        PROVE  /\ Due(t, found, t.a[q[i]]) < n
               /\ arity(task.op) > 1 => Due(t, found, t.b[q[i]]) < n
               /\ arity(task.op) > 2 => Due(t, found, t.c[q[i]]) < n
    <3>1. t.ops[q[i]] = task.op /\ \A s \in OperandsOf(t, q[i]) : Due(t, found, s) < n
      BY <1>8, <1>12, <1>14 DEF n
    <3>. QED BY <3>1 DEF OperandsOf
  <2>4. ASSUME NEW sel, WindowGathered(t, p, Operand(sel, q)), \A i \in DOMAIN q : Due(t, found, sel[q[i]]) < n
        PROVE  ReadsBefore(t, found, p, Reads(plan_stream(t, p.pos, Operand(sel, q))), n)
    <3>. DEFINE window == Operand(sel, q)
    <3>1. DOMAIN window = DOMAIN q /\ \A i \in DOMAIN q : window[i] = sel[q[i]]
      BY DEF Operand
    <3>2. WindowGathered(t, p, window)
      BY <2>4
    <3>. HIDE DEF window
    <3>3. \A i \in DOMAIN window : Due(t, found, window[i]) < n
      BY <2>4, <3>1
    <3>4. ReadsBefore(t, found, p, Reads(plan_stream(t, p.pos, window)), n)
      BY <1>4, <3>2, <3>3, WindowReads
    <3>. QED BY <3>4 DEF window
  <2>5. ReadsBefore(t, found, p, Reads(task.streams[1]), n)
    BY <2>1, <2>2, <2>3, <2>4
  <2>6. ReadsBefore(t, found, p, Reads(task.streams[2]), n)
    BY <2>1, <2>2, <2>3, <2>4, NothingRead
  <2>7. ReadsBefore(t, found, p, Reads(task.streams[3]), n)
    BY <2>1, <2>2, <2>3, <2>4, NothingRead
  <2>8. ASSUME NEW i \in 1 .. 3 PROVE ReadsBefore(t, found, p, Reads(task.streams[i]), n)
    <3>1. i = 1 \/ i = 2 \/ i = 3
      OBVIOUS
    <3>. QED BY <2>5, <2>6, <2>7, <3>1
  <2>9. ReadsBefore(t, found, p, TaskReads(task), n)
    BY <2>1, <2>8, StreamsRead
  <2>. QED BY <2>9 DEF n
<1>18. Job(t, found, p, task, 2 * l)
  BY <1>14, <1>15, <1>16, <1>17 DEF Job
<1>. QED BY <1>5, <1>14, <1>18 DEF x

\* The operation that yields a block of a chain, and whether there is one.
ChainOp(y) == IF y = 1 THEN "Add" ELSE IF y = 2 THEN "Xor" ELSE "And"
HasBlock(chain, y) == y = 1 \/ (y = 2 /\ chain.ext_pxq) \/ (y = 3 /\ chain.ext_g)

\* A lane is a position of the first word.
LEMMA FirstWord ==
  ASSUME NEW l \in Lanes
  PROVE  WordOf(l) = 0 /\ Offset(l) = l
<1>1. WordBits * 0 + l = l
  BY WordWidth DEF Lanes
<1>2. WordOf(WordBits * 0 + l) = 0 /\ Offset(WordBits * 0 + l) = l
  BY PositionJoin
<1>. QED BY <1>1, <1>2

\* A block of a chain that there is has a gate of the chain in it, and fits a
\* word.
LEMMA ChainBlockHolds ==
  ASSUME NEW t, NEW chain \in ChainsOf(t), NEW y \in 1 .. 3, HasBlock(chain, y)
  PROVE  /\ Len(ChainBlock(chain, y)) \in 1 .. WordBits
         /\ \E i \in 1 .. Len(ChainBlock(chain, y)) : ChainBlock(chain, y)[i] \in GateSlots(t)
<1>. DEFINE links == chain.links
            n == Len(links)
<1>1. ChainLinks(t, links) /\ chain = Chain(t, links) /\ Strung(t, {}, links)
  BY ChainHasLinks DEF ChainLinks
<1>2. n \in 1 .. MaxChain /\ DOMAIN links = 1 .. n
  BY ChainBlockLength
<1>3. n \in Nat /\ n >= 1 /\ n + 1 \in 1 .. WordBits /\ n \in 1 .. WordBits
  BY <1>2, WordAssumption
<1>4. ASSUME NEW i \in 1 .. n PROVE LinkAdmitted(t, links[i]) /\ LinkShaped(t, links[i])
  BY <1>1, LinkOfChain
<1>5. CASE y = 1
  <2>1. Len(SumBlock(chain)) = n + 1 /\ SumBlock(chain)[n + 1] = links[n].carry
    BY ChainBlockLength
  <2>2. links[n].carry \in GateSlots(t)
    BY <1>3, <1>4 DEF LinkShaped
  <2>3. ChainBlock(chain, y) = SumBlock(chain)
    BY <1>5 DEF ChainBlock
  <2>. HIDE DEF n
  <2>4. n + 1 \in 1 .. n + 1
    BY <1>3
  <2>. QED BY <1>3, <2>1, <2>2, <2>3, <2>4
<1>6. CASE y = 2
  <2>1. chain.ext_pxq
    BY <1>6 DEF HasBlock
  <2>2. chain.ext_pxq = \E i \in DOMAIN links : links[i].ext_pxq
    <3>1. \A q : Chain(t, q).ext_pxq = \E i \in DOMAIN q : q[i].ext_pxq
      BY DEF Chain
    <3>. HIDE DEF links
    <3>. QED BY <1>1, <3>1
  <2>3. PICK i \in 1 .. n : links[i].ext_pxq
    BY <1>2, <2>1, <2>2
  <2>4. links[i].pxq \in GateSlots(t)
    BY <1>4, <2>3 DEF LinkAdmitted, LinkShaped
  <2>5. Len(PxqBlock(chain)) = n /\ PxqBlock(chain)[i] = links[i].pxq
    BY <2>1, ChainBlockLength
  <2>6. ChainBlock(chain, y) = PxqBlock(chain)
    BY <1>6 DEF ChainBlock
  <2>. HIDE DEF n
  <2>. QED BY <1>3, <2>4, <2>5, <2>6
<1>7. CASE y = 3
  <2>1. chain.ext_g
    BY <1>7 DEF HasBlock
  <2>2. chain.ext_g = \E i \in DOMAIN links : links[i].ext_g
    <3>1. \A q : Chain(t, q).ext_g = \E i \in DOMAIN q : q[i].ext_g
      BY DEF Chain
    <3>. HIDE DEF links
    <3>. QED BY <1>1, <3>1
  <2>3. PICK i \in 1 .. n : links[i].ext_g
    BY <1>2, <2>1, <2>2
  <2>4. links[i].g \in GateSlots(t)
    BY <1>4, <2>3 DEF LinkAdmitted, LinkShaped
  <2>5. Len(GBlock(chain)) = n /\ GBlock(chain)[i] = links[i].g
    BY <2>1, ChainBlockLength
  <2>6. ChainBlock(chain, y) = GBlock(chain)
    BY <1>7 DEF ChainBlock
  <2>. HIDE DEF n
  <2>. QED BY <1>3, <2>4, <2>5, <2>6
<1>. QED BY <1>5, <1>6, <1>7

\* What a chain reads is due before it.
LEMMA InputsDue ==
  ASSUME NEW t, TapeContract(t), ScheduleContract(t), NEW found, FoundWell(t, found),
         NEW c \in 1 .. Len(found.chains), NEW s \in ChainInputs(found.chains[c].links)
  PROVE  s \in Slots(t) /\ Visible(t, found, s) /\ Due(t, found, s) < 2 * found.chains[c].ready + 1
<1>. DEFINE links == found.chains[c].links
            due == found.chains[c].ready
<1>1. s \in Slots(t) /\ Visible(t, found, s)
  BY ReadersSee
<1>2. Due(t, found, s) \in Nat /\ t.slot_level[s] \in Nat /\ Due(t, found, s) <= 2 * t.slot_level[s] + 1
  BY <1>1, VisibleDue
<1>3. due = ready(t, links) /\ due \in 1 .. Len(t.levels)
  BY DueOf
<1>4. ChainLinks(t, links)
  BY ChainByName
<1>5. t.slot_level[s] < ready(t, links) /\ Len(t.levels) \in Nat
  BY <1>4, ChainReady
<1>. HIDE DEF links, due
<1>6. due \in Nat /\ t.slot_level[s] < due
  BY <1>3, <1>5
<1>7. Due(t, found, s) < 2 * due + 1
  BY <1>2, <1>6
<1>. QED BY <1>1, <1>7 DEF due

\* A block of a chain is one word of the arena, that holds gates of the chain.
LEMMA ChainWordHeld ==
  ASSUME NEW t, NEW found, NEW blocks, NEW w, NEW p, Whole(t, found, blocks, w, p),
         NEW c \in 1 .. Len(found.chains), NEW y \in 1 .. 3, HasBlock(found.chains[c], y)
  PROVE  LET k == BeforeChain(t, c) + y
             x == w[k]
         IN  /\ k \in 1 .. Len(blocks) /\ blocks[k] = ChainBlock(found.chains[c], y)
             /\ x \in WordsOf(w, k) /\ x \in {WordOf(z) : z \in Positioned(p)}
             /\ FilledBy(p, x, blocks[k])
             /\ \A s \in Placed(p) : WordOf(p.pos[s]) = x => s \in ChainGates(found.chains[c].links)
<1>. DEFINE k == BeforeChain(t, c) + y
            x == w[k]
            chain == found.chains[c]
            block == blocks[k]
<1>1. /\ TapeContract(t) /\ ScheduleContract(t) /\ FoundWell(t, found) /\ Made(t, found, blocks, w, p.pos)
      /\ BlocksMade(t, found, blocks)
  BY DEF Whole, Made
<1>2. k \in 1 .. Len(blocks)
  BY <1>1, BlockNumbers
<1>3. block = ChainBlock(chain, y)
  <2>. DEFINE b == BeforeChain(t, c)
  <2>1. blocks[b + 1] = SumBlock(chain) /\ blocks[b + 2] = PxqBlock(chain) /\ blocks[b + 3] = GBlock(chain)
    BY <1>1 DEF BlocksMade
  <2>2. y = 1 \/ y = 2 \/ y = 3
    OBVIOUS
  <2>. HIDE DEF b, chain
  <2>3. blocks[b + y] = ChainBlock(chain, y)
    BY <2>1, <2>2 DEF ChainBlock
  <2>. QED BY <2>3 DEF b
<1>4. chain \in ChainsOf(t)
  BY <1>1, ChainByName
<1>5. /\ Len(block) \in 1 .. WordBits
      /\ \E i \in 1 .. Len(block) : block[i] \in GateSlots(t)
  BY <1>3, <1>4, ChainBlockHolds
<1>6. /\ blocks \in Seq(Seq(Nat)) /\ FirstWords(blocks, w)
  BY WholeWords
<1>. HIDE DEF chain, k
<1>7. w[k] \in Nat /\ w[k + 1] \in Nat /\ w[k + 1] = w[k] + WordsFor(Len(block)) /\ WordsFor(Len(block)) \in Nat
  BY <1>2, <1>6, WordsGrow
<1>8. x \in WordsOf(w, k)
  <2>. DEFINE m == Len(block)
              e == WordsFor(m)
  <2>1. m \in Nat /\ m >= 1
    BY <1>5, WordWidth
  <2>2. m <= WordBits * e /\ e \in Nat
    <3>. HIDE DEF m
    <3>. QED BY <2>1, WordsEnough
  <2>3. w[k + 1] = w[k] + e
    BY <1>7
  <2>. HIDE DEF m, e
  <2>4. e # 0
    <3>1. ASSUME e = 0 PROVE FALSE
      <4>1. WordBits * 0 = 0
        BY WordWidth
      <4>. QED BY <2>1, <2>2, <3>1, <4>1
    <3>. QED BY <3>1
  <2>. QED BY <1>7, <2>2, <2>3, <2>4 DEF WordsOf
<1>9. ASSUME NEW s \in Placed(p), WordOf(p.pos[s]) = x
      PROVE  /\ \E i \in DOMAIN block : block[i] = s /\ Offset(p.pos[s]) = i - 1
             /\ s \in ChainGates(found.chains[c].links)
  <2>1. PICK h, i : Seat(blocks, h, i, s)
    BY WholePlaced
  <2>2. Entry(t, found, h, i, s) /\ Seated(blocks, w, p.pos, h, i, s) /\ s # NoSlot
    BY <2>1, WholePlaced DEF Seat
  <2>3. h = k
    BY <1>1, <1>2, <1>8, <1>9, <2>1, SeatsApart
  <2>4. /\ i \in 1 .. Len(block) /\ i \in DOMAIN block /\ i \in Nat /\ block[i] = s
    BY <1>6, <2>1, <2>3, SeatIndices
  <2>5. WordOf(i - 1) = 0
    <3>1. WordOf(p.pos[s]) = w[k] + WordOf(i - 1) /\ WordOf(i - 1) \in Nat
      BY <2>2, <2>3 DEF Seated
    <3>. QED BY <1>7, <1>9, <3>1
  <2>6. Offset(p.pos[s]) = i - 1
    <3>1. i - 1 = WordBits * WordOf(i - 1) + Offset(i - 1) /\ Offset(i - 1) \in Lanes /\ Offset(p.pos[s]) = Offset(i - 1)
      BY <2>2 DEF Seated
    <3>2. WordBits * 0 = 0
      BY WordWidth
    <3>3. i - 1 = 0 + Offset(i - 1) /\ Offset(i - 1) \in Nat
      BY <2>5, <3>1, <3>2 DEF Lanes
    <3>. QED BY <3>1, <3>3
  <2>7. s \in ChainGates(found.chains[c].links)
    <3>1. k # 1 /\ k # 2 /\ \A r \in 1 .. Len(t.runs) : 2 + r # k
      BY <1>1, BlockNumbers DEF k
    <3>2. PICK d \in 1 .. Len(found.chains), j \in 1 .. 3 : AtChain(t, found, k, i, s, d, j)
      BY <2>2, <2>3, <3>1 DEF Entry, AtRun
    <3>3. BeforeChain(t, c) + y = BeforeChain(t, d) + j /\ s \in ChainGates(found.chains[d].links)
      BY <3>2 DEF AtChain, k
    <3>4. c = d
      BY <1>1, <3>3, BlockNumbers
    <3>. QED BY <3>3, <3>4
  <2>. QED BY <2>4, <2>6, <2>7
<1>10. FilledBy(p, x, block)
  BY <1>9 DEF FilledBy
<1>11. x \in {WordOf(z) : z \in Positioned(p)}
  <2>1. PICK i \in 1 .. Len(block) : block[i] \in GateSlots(t)
    BY <1>5
  <2>. DEFINE s == block[i]
  <2>2. s # NoSlot
    BY <1>1, <2>1, SlotKinds DEF Slots, NoSlot
  <2>3. Seat(blocks, k, i, s)
    BY <1>2, <2>1, <2>2 DEF Seat
  <2>. HIDE DEF s
  <2>4. s \in Placed(p) /\ Seated(blocks, w, p.pos, k, i, s)
    BY <2>3, WholePlaced
  <2>5. WordOf(i - 1) = 0
    <3>1. i - 1 \in Lanes
      BY <1>5, <2>1, WordWidth DEF Lanes
    <3>. QED BY <3>1, FirstWord
  <2>6. WordOf(p.pos[s]) = x
    BY <1>7, <2>4, <2>5 DEF Seated
  <2>. QED BY <2>4, <2>6 DEF Positioned
<1>. HIDE DEF block, x
<1>. QED BY <1>2, <1>3, <1>8, <1>9, <1>10, <1>11 DEF k, x, block, chain

\* The task of a block of a chain.
LEMMA ChainJob ==
  ASSUME NEW t, NEW found, NEW blocks, NEW w, NEW p, Whole(t, found, blocks, w, p),
         NEW c \in 1 .. Len(found.chains), NEW y \in 1 .. 3, HasBlock(found.chains[c], y),
         NEW task, task = ChainTask(t, p.pos, found.chains[c], ChainOp(y), w[BeforeChain(t, c) + y])
  PROVE  /\ Job(t, found, p, task, 2 * found.chains[c].ready + 1)
         /\ task.dst = w[BeforeChain(t, c) + y] /\ task.dst \in WordsOf(w, BeforeChain(t, c) + y)
<1>. DEFINE k == BeforeChain(t, c) + y
            x == w[k]
            chain == found.chains[c]
            n == 2 * chain.ready + 1
            block == ChainBlock(chain, y)
<1>1. /\ TapeContract(t) /\ ScheduleContract(t) /\ FoundWell(t, found) /\ Drawn(t, found, blocks, p)
  BY DEF Whole, Made
<1>2. /\ x \in WordsOf(w, k) /\ x \in {WordOf(z) : z \in Positioned(p)}
      /\ FilledBy(p, x, block)
      /\ \A s \in Placed(p) : WordOf(p.pos[s]) = x => s \in ChainGates(chain.links)
  BY ChainWordHeld
<1>3. chain \in ChainsOf(t) /\ ChainGates(chain.links) \subseteq GateSlots(t)
  BY <1>1, ChainByName
<1>4. Laid(t, p)
  BY <1>1, PlanLaid DEF Laid
<1>5. \A s \in ChainGates(chain.links) : Due(t, found, s) = n
  BY <1>1, DueOf
<1>6. ASSUME NEW s \in ChainInputs(chain.links)
      PROVE  Gathered(t, p, s) /\ Due(t, found, s) < n
  <2>1. s \in Slots(t) /\ Visible(t, found, s) /\ Due(t, found, s) < n
    BY <1>1, InputsDue
  <2>. HIDE DEF n
  <2>. QED BY <2>1, WholePlaced DEF Gathered
<1>7. task = ChainTask(t, p.pos, chain, ChainOp(y), x) /\ task.dst = x
  BY DEF ChainTask, Task
<1>8. IsChain(t, chain)
  BY <1>3, ChainIsChain
<1>9. c \in DOMAIN p.chains /\ p.chains[c] = chain
  <2>1. p.chains = found.chains
    BY <1>1 DEF Drawn
  <2>2. DOMAIN found.chains = 1 .. Len(found.chains)
    BY <1>1 DEF FoundWell
  <2>. QED BY <2>1, <2>2
<1>10. <<ChainOp(y), block>> \in {<<"Add", SumBlock(chain)>>, <<"Xor", PxqBlock(chain)>>, <<"And", GBlock(chain)>>}
  <2>1. y = 1 \/ y = 2 \/ y = 3
    OBVIOUS
  <2>. HIDE DEF chain
  <2>2. \/ ChainOp(y) = "Add" /\ block = SumBlock(chain)
        \/ ChainOp(y) = "Xor" /\ block = PxqBlock(chain)
        \/ ChainOp(y) = "And" /\ block = GBlock(chain)
    BY <2>1 DEF ChainOp, ChainBlock
  <2>. HIDE DEF block
  <2>. QED BY <2>2
<1>. HIDE DEF x, k, chain, n, block
<1>11. ChainTaskOf(t, p, task, chain, ChainOp(y), block)
  BY <1>2, <1>6, <1>7, <1>8, <1>10 DEF ChainTaskOf
<1>12. IsChainTask(t, p, task)
  <2>. DEFINE b == <<ChainOp(y), block>>
  <2>1. /\ b \in {<<"Add", SumBlock(chain)>>, <<"Xor", PxqBlock(chain)>>, <<"And", GBlock(chain)>>}
        /\ task = ChainTask(t, p.pos, chain, b[1], task.dst) /\ FilledBy(p, task.dst, b[2])
    BY <1>2, <1>7, <1>10
  <2>. HIDE DEF b
  <2>. QED BY <1>6, <1>8, <1>9, <2>1 DEF IsChainTask
<1>13. ReadsBefore(t, found, p, TaskReads(task), n)
  <2>1. ChainTaskStreams(t, p, task, chain, ChainOp(y))
    BY <1>11, ChainStreams
  <2>2. /\ Len(chain.links) \in 1 .. WordBits - 1 /\ DOMAIN chain.links = 1 .. Len(chain.links)
        /\ WindowGathered(t, p, Ps(chain)) /\ WindowGathered(t, p, Qs(chain))
        /\ WindowGathered(t, p, <<chain.cin>>)
    BY <1>4, <1>11, ChainWindows
  <2>3. ASSUME NEW i \in DOMAIN chain.links
        PROVE  /\ chain.links[i].p # NoSlot => Due(t, found, chain.links[i].p) < n
               /\ chain.links[i].q # NoSlot => Due(t, found, chain.links[i].q) < n
    BY <1>6 DEF ChainInputs
  <2>4. chain.cin # NoSlot => Due(t, found, chain.cin) < n
    <3>1. chain.cin = chain.links[1].cin
      <4>1. \A links : Chain(t, links).cin = links[1].cin
        BY DEF Chain
      <4>. QED BY <1>3, <4>1, ChainHasLinks
    <3>. QED BY <1>6, <3>1 DEF ChainInputs
  <2>5. ReadsBefore(t, found, p, Reads(plan_stream(t, p.pos, Ps(chain))), n)
    <3>1. DOMAIN Ps(chain) = DOMAIN chain.links /\ \A i \in DOMAIN chain.links : Ps(chain)[i] = chain.links[i].p
      BY DEF Ps
    <3>. QED BY <1>4, <2>2, <2>3, <3>1, WindowReads
  <2>6. ReadsBefore(t, found, p, Reads(plan_stream(t, p.pos, Qs(chain))), n)
    <3>1. DOMAIN Qs(chain) = DOMAIN chain.links /\ \A i \in DOMAIN chain.links : Qs(chain)[i] = chain.links[i].q
      BY DEF Qs
    <3>. QED BY <1>4, <2>2, <2>3, <3>1, WindowReads
  <2>7. ReadsBefore(t, found, p, Reads(plan_stream(t, p.pos, <<chain.cin>>)), n)
    <3>. DEFINE window == <<chain.cin>>
    <3>1. DOMAIN window = {1} /\ window[1] = chain.cin
      OBVIOUS
    <3>2. WindowGathered(t, p, window)
      BY <2>2
    <3>. HIDE DEF window
    <3>3. ReadsBefore(t, found, p, Reads(plan_stream(t, p.pos, window)), n)
      BY <1>4, <2>4, <3>1, <3>2, WindowReads
    <3>. QED BY <3>3 DEF window
  <2>8. ASSUME NEW i \in 1 .. 3 PROVE ReadsBefore(t, found, p, Reads(task.streams[i]), n)
    <3>1. i = 1 \/ i = 2 \/ i = 3
      OBVIOUS
    <3>. QED BY <2>1, <2>5, <2>6, <2>7, <3>1, NothingRead DEF ChainTaskStreams
  <2>9. task.read = NoRead
    BY <2>1 DEF ChainTaskStreams
  <2>. QED BY <2>8, <2>9, StreamsRead
<1>14. \A s \in Placed(p) : WordOf(p.pos[s]) = task.dst => s \in GateSlots(t) /\ Due(t, found, s) = n
  BY <1>2, <1>3, <1>5, <1>7
<1>15. Job(t, found, p, task, n)
  BY <1>2, <1>7, <1>12, <1>13, <1>14 DEF Job
<1>. QED BY <1>2, <1>7, <1>15 DEF k, x, n, chain

-----------------------------------------------------------------------------
(* Sequences in turn.                                                      *)

\* Each element and every later one are a pair of R.
InTurn(q, R) == \A i, j \in 1 .. Len(q) : i < j => <<q[i], q[j]>> \in R
Before(a, b, R) == \A i \in 1 .. Len(a), j \in 1 .. Len(b) : <<a[i], b[j]>> \in R

\* Two sequences in turn, one after the other.
LEMMA ConcatenatedInTurn ==
  ASSUME NEW V, NEW a \in Seq(V), NEW b \in Seq(V), NEW R, InTurn(a, R), InTurn(b, R), Before(a, b, R)
  PROVE  InTurn(a \o b, R)
<1>. DEFINE q == a \o b
            n == Len(a)
            m == Len(b)
<1>1. After(a, b) /\ n \in Nat /\ m \in Nat
  BY Concatenated
<1>2. Len(q) = n + m /\ (\A i \in 1 .. n : q[i] = a[i]) /\ \A i \in 1 .. m : q[n + i] = b[i]
  BY <1>1 DEF After
<1>. HIDE DEF q, n, m
<1>3. ASSUME NEW i \in 1 .. Len(q), NEW j \in 1 .. Len(q), i < j PROVE <<q[i], q[j]>> \in R
  <2>1. CASE j <= n
    <3>1. i \in 1 .. n /\ j \in 1 .. n
      BY <1>1, <1>2, <1>3, <2>1
    <3>. QED BY <1>2, <1>3, <3>1 DEF InTurn, n
  <2>2. CASE i <= n /\ j > n
    <3>1. PICK k \in 1 .. m : j = n + k
      <4>1. j - n \in 1 .. m /\ j = n + (j - n)
        BY <1>1, <1>2, <2>2
      <4>. QED BY <4>1
    <3>2. q[j] = b[k] /\ q[i] = a[i] /\ i \in 1 .. n
      BY <1>1, <1>2, <2>2, <3>1
    <3>. QED BY <3>2 DEF Before, n, m
  <2>3. CASE i > n
    <3>1. PICK k \in 1 .. m : j = n + k
      <4>1. j - n \in 1 .. m /\ j = n + (j - n)
        BY <1>1, <1>2, <1>3, <2>3
      <4>. QED BY <4>1
    <3>2. PICK h \in 1 .. m : i = n + h
      <4>1. i - n \in 1 .. m /\ i = n + (i - n)
        BY <1>1, <1>2, <2>3
      <4>. QED BY <4>1
    <3>3. h < k /\ q[i] = b[h] /\ q[j] = b[k]
      BY <1>1, <1>2, <1>3, <3>1, <3>2
    <3>. QED BY <3>3 DEF InTurn, m
  <2>. QED BY <1>1, <1>2, <2>1, <2>2, <2>3
<1>. QED BY <1>3 DEF InTurn, q

\* Sequences in turn, flattened.
LEMMA FlattenedInTurn ==
  ASSUME NEW n \in Nat, NEW V, NEW seqs \in [1 .. n -> Seq(V)], NEW R,
         \A k \in 1 .. n : InTurn(seqs[k], R),
         \A k, m \in 1 .. n : k < m => Before(seqs[k], seqs[m], R)
  PROVE  InTurn(FlattenSeq(seqs), R)
<1>1. PICK f : Joins(f, n, V, seqs)
  BY Joining
<1>2. Len(seqs) = n
  OBVIOUS
<1>3. FlattenSeq(seqs) = f[n]
  BY <1>1, <1>2, Flattening
<1>4. f \in [0 .. n -> Seq(V)] /\ f[0] = <<>> /\ \A k \in 1 .. n : f[k] = f[k - 1] \o seqs[k]
  BY <1>1 DEF Joins
<1>. DEFINE From(k) == \A i \in 1 .. Len(f[k]) : \E m \in 1 .. k : \E j \in 1 .. Len(seqs[m]) : f[k][i] = seqs[m][j]
            S == {k \in 0 .. n : InTurn(f[k], R) /\ From(k)}
<1>5. 0 \in S
  <2>1. InTurn(<<>>, R) /\ From(0)
    BY <1>4 DEF InTurn
  <2>. QED BY <1>4, <2>1
<1>6. ASSUME NEW k \in 0 .. n - 1, k \in S PROVE k + 1 \in S
  <2>1. k + 1 \in 1 .. n /\ k \in 0 .. n /\ (k + 1) - 1 = k
    OBVIOUS
  <2>. DEFINE a == f[k]
              b == seqs[k + 1]
  <2>2. a \in Seq(V) /\ b \in Seq(V) /\ f[k + 1] = a \o b
    BY <1>4, <2>1
  <2>3. InTurn(a, R) /\ InTurn(b, R) /\ From(k)
    BY <1>6, <2>1
  <2>4. Before(a, b, R)
    <3>1. ASSUME NEW i \in 1 .. Len(a), NEW j \in 1 .. Len(b) PROVE <<a[i], b[j]>> \in R
      <4>1. PICK m \in 1 .. k : \E h \in 1 .. Len(seqs[m]) : a[i] = seqs[m][h]
        BY <2>3
      <4>2. Before(seqs[m], b, R)
        <5>1. m \in 1 .. n /\ m < k + 1
          OBVIOUS
        <5>. QED BY <2>1, <5>1
      <4>. QED BY <4>1, <4>2 DEF Before
    <3>. QED BY <3>1 DEF Before
  <2>5. InTurn(f[k + 1], R)
    <3>. HIDE DEF a, b
    <3>. QED BY <2>2, <2>3, <2>4, ConcatenatedInTurn
  <2>6. From(k + 1)
    <3>1. After(a, b)
      BY <2>2, Concatenated
    <3>. DEFINE la == Len(a)
                lb == Len(b)
    <3>2. /\ la \in Nat /\ lb \in Nat /\ Len(f[k + 1]) = la + lb
          /\ \A i \in 1 .. la : f[k + 1][i] = a[i]
          /\ \A i \in 1 .. lb : f[k + 1][la + i] = b[i]
      BY <2>2, <3>1 DEF After
    <3>3. ASSUME NEW i \in 1 .. la + lb
          PROVE  \E m \in 1 .. k + 1 : \E j \in 1 .. Len(seqs[m]) : f[k + 1][i] = seqs[m][j]
      <4>1. CASE i <= la
        <5>1. i \in 1 .. la
          BY <3>2, <4>1
        <5>2. PICK m \in 1 .. k : \E j \in 1 .. Len(seqs[m]) : a[i] = seqs[m][j]
          BY <2>3, <5>1
        <5>3. m \in 1 .. k + 1
          OBVIOUS
        <5>. QED BY <3>2, <5>1, <5>2, <5>3
      <4>2. CASE i > la
        <5>1. PICK j \in 1 .. lb : i = la + j
          <6>. HIDE DEF la, lb
          <6>1. i - la \in 1 .. lb /\ i = la + (i - la)
            BY <3>2, <4>2
          <6>. QED BY <6>1
        <5>2. f[k + 1][i] = seqs[k + 1][j] /\ j \in 1 .. Len(seqs[k + 1])
          BY <3>2, <5>1
        <5>. QED BY <2>1, <5>2
      <4>3. i <= la \/ i > la
        <5>. HIDE DEF la, lb
        <5>. QED BY <3>2
      <4>. QED BY <4>1, <4>2, <4>3
    <3>. QED BY <3>2, <3>3
  <2>. HIDE DEF From
  <2>. QED BY <2>1, <2>5, <2>6
<1>7. \A k \in 0 .. n : k \in S
  <2>. HIDE DEF S
  <2>. QED BY <1>5, <1>6, IntervalInduction
<1>8. n \in S
  <2>. HIDE DEF S
  <2>. QED BY <1>7
<1>. QED BY <1>3, <1>8

\* The indices emitted at a level, each once.
EmittedOnce(readies, n, level, last) ==
  LET order == EmissionOrder(readies, level, last) IN
  /\ Len(order) \in Nat /\ DOMAIN order = 1 .. Len(order)
  /\ \A i \in 1 .. Len(order) : order[i] \in 1 .. n /\ EmittedAt(readies[order[i]], last) = level
  /\ \A i, j \in 1 .. Len(order) : order[i] = order[j] => i = j
  /\ \A k \in 1 .. n : EmittedAt(readies[k], last) = level => \E i \in 1 .. Len(order) : order[i] = k

\* So they are.
LEMMA EmissionOnce ==
  ASSUME NEW n \in Nat, NEW readies \in [1 .. n -> Nat], NEW level, NEW last
  PROVE  EmittedOnce(readies, n, level, last)
<1>. DEFINE due == {k \in DOMAIN readies : EmittedAt(readies[k], last) = level}
            upTo(k) == {j \in due : readies[j] < readies[k] \/ (readies[j] = readies[k] /\ j <= k)}
            place == [k \in due |-> Cardinality(upTo(k))]
            down == [k \in due |-> upTo(k)]
            order == Ordered(due, place)
<1>1. DOMAIN readies = 1 .. n /\ due \in SUBSET (1 .. n) /\ \A k \in due : readies[k] \in Nat /\ k \in Nat
  OBVIOUS
<1>2. IsFiniteSet(due)
  <2>1. IsFiniteSet(1 .. n)
    BY FS_Interval
  <2>. QED BY <1>1, <2>1, FS_Subset
<1>3. EmissionOrder(readies, level, last) = order
  BY Zenon DEF EmissionOrder
<1>4. Numbered(due, place)
  <2>1. down \in [due -> SUBSET due]
    OBVIOUS
  <2>. HIDE DEF due
  <2>2. \A x \in due : x \in down[x]
    BY <1>1
  <2>3. ASSUME NEW x \in due, NEW y \in due, x \in down[y] PROVE down[x] \subseteq down[y]
    <3>1. ASSUME NEW z \in down[x] PROVE z \in down[y]
      <4>1. z \in due /\ (readies[z] < readies[x] \/ (readies[z] = readies[x] /\ z <= x))
        BY <3>1
      <4>2. readies[x] < readies[y] \/ (readies[x] = readies[y] /\ x <= y)
        BY <2>3
      <4>3. /\ readies[x] \in Nat /\ readies[y] \in Nat /\ readies[z] \in Nat
            /\ x \in Nat /\ y \in Nat /\ z \in Nat
        BY <1>1, <4>1
      <4>4. readies[z] < readies[y] \/ (readies[z] = readies[y] /\ z <= y)
        BY <4>1, <4>2, <4>3
      <4>. QED BY <4>1, <4>4
    <3>. QED BY <3>1
  <2>4. \A x, y \in due : x \in down[y] \/ y \in down[x]
    BY <1>1
  <2>5. \A x, y \in due : x \in down[y] /\ y \in down[x] => x = y
    BY <1>1
  <2>6. place = [x \in due |-> Cardinality(down[x])]
    OBVIOUS
  <2>. HIDE DEF place, down
  <2>. QED BY <1>2, <2>1, <2>2, <2>3, <2>4, <2>5, <2>6, Ranking
<1>. HIDE DEF place
<1>5. /\ order \in [1 .. Cardinality(due) -> due] /\ Len(order) = Cardinality(due)
      /\ \A k \in 1 .. Cardinality(due) : place[order[k]] = k
      /\ \A x \in due : order[place[x]] = x
  <2>. HIDE DEF due
  <2>. QED BY <1>4, OrderedPlaces
<1>6. Cardinality(due) \in Nat /\ \A x \in due : place[x] \in 1 .. Cardinality(due)
  <2>. HIDE DEF due
  <2>. QED BY <1>4 DEF Numbered
<1>. HIDE DEF order
<1>7. DOMAIN order = 1 .. Len(order) /\ Len(order) \in Nat
  BY <1>5, <1>6
<1>8. \A i \in 1 .. Len(order) : order[i] \in 1 .. n /\ EmittedAt(readies[order[i]], last) = level
  BY <1>1, <1>5
<1>9. \A i, j \in 1 .. Len(order) : order[i] = order[j] => i = j
  BY <1>5
<1>10. \A k \in 1 .. n : EmittedAt(readies[k], last) = level => \E i \in 1 .. Len(order) : order[i] = k
  BY <1>1, <1>5, <1>6
<1>. QED BY <1>3, <1>7, <1>8, <1>9, <1>10 DEF EmittedOnce

-----------------------------------------------------------------------------
(* The tasks of a level, and all of them.                                  *)

\* The tasks of a run and of a chain.
RunJobs(t, blocks, p, r) ==
  {GateTask(t, p.pos, chunks(blocks[2 + r])[j], t.runs[r].op) : j \in 1 .. WordsFor(Len(blocks[2 + r]))}
ChainJobOf(t, found, w, p, c, y) ==
  ChainTask(t, p.pos, found.chains[c], ChainOp(y), w[BeforeChain(t, c) + y])
ChainJobs(t, found, w, p, c) ==
  {ChainJobOf(t, found, w, p, c, y) : y \in {z \in 1 .. 3 : HasBlock(found.chains[c], z)}}
Jobs(t, found, blocks, w, p) ==
  (UNION {RunJobs(t, blocks, p, r) : r \in 1 .. Len(t.runs)})
    \cup (UNION {ChainJobs(t, found, w, p, c) : c \in 1 .. Len(found.chains)})

\* When a word is due, and the tasks that may follow one another.
WordDue(t, found, p, x) == Due(t, found, CHOOSE s \in Placed(p) : WordOf(p.pos[s]) = x)
Turns(t, found, p, V) ==
  {z \in V \X V : /\ z[1].dst # z[2].dst
                  /\ WordDue(t, found, p, z[1].dst) <= WordDue(t, found, p, z[2].dst)}

\* The word of a task is due when its signals are.
LEMMA JobDue ==
  ASSUME NEW t, NEW found, NEW p, NEW task, NEW n, Job(t, found, p, task, n)
  PROVE  WordDue(t, found, p, task.dst) = n
<1>1. \E s \in Placed(p) : WordOf(p.pos[s]) = task.dst
  BY DEF Job, Positioned
<1>. DEFINE u == CHOOSE s \in Placed(p) : WordOf(p.pos[s]) = task.dst
<1>2. u \in Placed(p) /\ WordOf(p.pos[u]) = task.dst
  BY <1>1
<1>3. WordDue(t, found, p, task.dst) = Due(t, found, u)
  BY DEF WordDue
<1>. HIDE DEF u
<1>. QED BY <1>2, <1>3 DEF Job

\* A task may follow another that is not due later, if it writes another word.
LEMMA JobsTurn ==
  ASSUME NEW t, NEW found, NEW p, NEW V, NEW x \in V, NEW y \in V, NEW n \in Nat, NEW m \in Nat,
         Job(t, found, p, x, n), Job(t, found, p, y, m), n <= m, n = m => x.dst # y.dst
  PROVE  <<x, y>> \in Turns(t, found, p, V)
<1>1. WordDue(t, found, p, x.dst) = n /\ WordDue(t, found, p, y.dst) = m
  BY JobDue
<1>2. x.dst # y.dst
  BY <1>1
<1>. QED BY <1>1, <1>2 DEF Turns

\* Tasks in turn, all due at once.
Queue(t, found, p, V, q, n) ==
  /\ q \in Seq(V) /\ InTurn(q, Turns(t, found, p, V))
  /\ \A i \in 1 .. Len(q) : Job(t, found, p, q[i], n)

\* Tasks that are due at once and write different words are in turn.
LEMMA QueueOfJobs ==
  ASSUME NEW t, NEW found, NEW p, NEW V, NEW q \in Seq(V), NEW n \in Nat,
         \A i \in 1 .. Len(q) : Job(t, found, p, q[i], n),
         \A i, j \in 1 .. Len(q) : i < j => q[i].dst # q[j].dst
  PROVE  Queue(t, found, p, V, q, n)
<1>1. ASSUME NEW i \in 1 .. Len(q), NEW j \in 1 .. Len(q), i < j
      PROVE  <<q[i], q[j]>> \in Turns(t, found, p, V)
  <2>1. q[i] \in V /\ q[j] \in V /\ q[i].dst # q[j].dst /\ n <= n
    BY <1>1
  <2>. QED BY <2>1, JobsTurn
<1>. QED BY <1>1 DEF Queue, InTurn

\* The tasks of a run.
LEMMA RunQueued ==
  ASSUME NEW t, NEW found, NEW blocks, NEW w, NEW p, Whole(t, found, blocks, w, p),
         NEW l \in 1 .. Len(t.levels), NEW r \in t.levels[l].run_start .. t.levels[l].run_end - 1
  PROVE  LET q == RunTasksOf(t, found, p.pos, r) IN
         /\ Queue(t, found, p, Jobs(t, found, blocks, w, p), q, 2 * l)
         /\ Len(q) = WordsFor(Len(blocks[2 + r])) /\ Len(q) \in Nat
         /\ \A j \in 1 .. Len(q) : q[j].dst = w[2 + r] + j - 1 /\ q[j].dst \in WordsOf(w, 2 + r)
<1>. DEFINE slots == blocks[2 + r]
            m == WordsFor(Len(slots))
            q == RunTasksOf(t, found, p.pos, r)
            V == Jobs(t, found, blocks, w, p)
            n == 2 * l
<1>1. /\ TapeContract(t) /\ ScheduleContract(t) /\ FoundWell(t, found) /\ Made(t, found, blocks, w, p.pos)
      /\ BlocksMade(t, found, blocks)
  BY DEF Whole, Made
<1>2. r \in 1 .. Len(t.runs)
  BY <1>1, RunAtLevel
<1>3. slots = RunSlots(found.used, t.runs[r])
  BY <1>1, <1>2 DEF BlocksMade
<1>4. slots \in Seq(Nat)
  <2>1. RunSlots(found.used, t.runs[r]) \in Seq(Nat)
    BY <1>1, <1>2, RunSlotsAscend
  <2>. QED BY <1>3, <2>1
<1>5. m \in Nat /\ DOMAIN chunks(slots) = 1 .. m
  <2>. HIDE DEF slots
  <2>. QED BY <1>4, ChunksCut
<1>6. q = [j \in 1 .. m |-> GateTask(t, p.pos, chunks(slots)[j], t.runs[r].op)]
  <2>1. q = [j \in DOMAIN chunks(slots) |-> GateTask(t, p.pos, chunks(slots)[j], t.runs[r].op)]
    <3>. HIDE DEF slots
    <3>. QED BY <1>3 DEF RunTasksOf, RunTasks
  <2>. HIDE DEF slots, m, q
  <2>. QED BY <1>5, <2>1
<1>. HIDE DEF q
<1>7. ASSUME NEW j \in 1 .. m
      PROVE  /\ q[j] \in V /\ Job(t, found, p, q[j], n)
             /\ q[j].dst = w[2 + r] + j - 1 /\ q[j].dst \in WordsOf(w, 2 + r)
  <2>1. q[j] = GateTask(t, p.pos, chunks(blocks[2 + r])[j], t.runs[r].op)
    BY <1>6
  <2>2. q[j] \in V
    BY <1>2, <2>1 DEF Jobs, RunJobs
  <2>3. Job(t, found, p, q[j], 2 * l) /\ q[j].dst = w[2 + r] + j - 1 /\ q[j].dst \in WordsOf(w, 2 + r)
    BY <2>1, RunJob
  <2>. QED BY <2>2, <2>3
<1>. HIDE DEF V, m
<1>8. q \in Seq(V) /\ Len(q) = m /\ DOMAIN q = 1 .. m
  <2>1. q \in [1 .. m -> V]
    <3>1. q = [j \in 1 .. m |-> q[j]]
      BY <1>6
    <3>. QED BY <1>7, <3>1
  <2>. QED BY <1>5, <2>1
<1>9. w[2 + r] \in Nat
  <2>1. 2 + r \in 1 .. Len(blocks)
    BY <1>1, <1>2, BlockNumbers
  <2>2. blocks \in Seq(Seq(Nat)) /\ FirstWords(blocks, w)
    BY WholeWords
  <2>. QED BY <2>1, <2>2, WordsGrow
<1>10. ASSUME NEW i \in 1 .. m, NEW j \in 1 .. m, i < j PROVE q[i].dst # q[j].dst
  <2>1. q[i].dst = w[2 + r] + i - 1 /\ q[j].dst = w[2 + r] + j - 1
    BY <1>7
  <2>. QED BY <1>5, <1>9, <1>10, <2>1
<1>11. n \in Nat
  OBVIOUS
<1>12. Queue(t, found, p, V, q, n)
  <2>. HIDE DEF n
  <2>. QED BY <1>7, <1>8, <1>10, <1>11, QueueOfJobs
<1>. QED BY <1>5, <1>7, <1>8, <1>12 DEF q, V, m

\* Sequences of one or none, one after another.
LEMMA SomeOfThree ==
  ASSUME NEW a, NEW b, NEW c
  PROVE  /\ <<a>> \o <<b>> \o <<c>> = <<a, b, c>> /\ <<a>> \o <<>> \o <<c>> = <<a, c>>
         /\ <<>> \o <<b>> \o <<c>> = <<b, c>> /\ <<>> \o <<>> \o <<c>> = <<c>>
<1>. DEFINE V == {a, b, c}
<1>1. ASSUME NEW x \in V, NEW y \in V PROVE <<x>> \o <<y>> = <<x, y>>
  <2>. DEFINE q == <<x>> \o <<y>>
              l == <<x>>
              r == <<y>>
  <2>1. l \in Seq(V) /\ r \in Seq(V) /\ Len(l) = 1 /\ Len(r) = 1 /\ l[1] = x /\ r[1] = y
    OBVIOUS
  <2>2. q = l \o r
    OBVIOUS
  <2>. HIDE DEF V, l, r, q
  <2>3. q \in Seq(V) /\ After(l, r)
    BY <2>1, <2>2, Concatenated
  <2>4. Len(q) = 2 /\ q[1] = x /\ q[1 + 1] = y
    BY <2>1, <2>2, <2>3 DEF After
  <2>5. q = <<x, y>>
    BY <2>3, <2>4
  <2>. QED BY <2>5 DEF q
<1>2. ASSUME NEW x \in V PROVE <<x>> \o <<>> = <<x>> /\ <<>> \o <<x>> = <<x>>
  <2>. DEFINE l == <<x>>
  <2>1. l \in Seq(V)
    OBVIOUS
  <2>. HIDE DEF V, l
  <2>2. l \o <<>> = l /\ <<>> \o l = l
    BY <2>1
  <2>. QED BY <2>2 DEF l
<1>3. <<a, b>> \o <<c>> = <<a, b, c>>
  <2>. DEFINE l == <<a, b>>
              r == <<c>>
              q == l \o r
  <2>1. l \in Seq(V) /\ r \in Seq(V) /\ Len(l) = 2 /\ Len(r) = 1 /\ l[1] = a /\ l[2] = b /\ r[1] = c
    OBVIOUS
  <2>. HIDE DEF V, l, r
  <2>2. q \in Seq(V) /\ After(l, r)
    BY <2>1, Concatenated
  <2>3. Len(q) = 3 /\ q[1] = a /\ q[2] = b /\ q[2 + 1] = c
    BY <2>1, <2>2 DEF After
  <2>. HIDE DEF q
  <2>4. q = <<a, b, c>>
    BY <2>2, <2>3
  <2>. QED BY <2>4 DEF q, l, r
<1>4. <<>> \o <<>> = <<>>
  OBVIOUS
<1>. QED BY <1>1, <1>2, <1>3, <1>4

\* The tasks of a chain.
LEMMA ChainQueued ==
  ASSUME NEW t, NEW found, NEW blocks, NEW w, NEW p, Whole(t, found, blocks, w, p),
         NEW c \in 1 .. Len(found.chains)
  PROVE  LET q == ChainTasksOf(t, found, blocks, p.pos, c) IN
         /\ Queue(t, found, p, Jobs(t, found, blocks, w, p), q, 2 * found.chains[c].ready + 1)
         /\ \A i \in 1 .. Len(q) : \E y \in 1 .. 3 : q[i].dst \in WordsOf(w, BeforeChain(t, c) + y)
         /\ \A y \in 1 .. 3 : HasBlock(found.chains[c], y) =>
              \E i \in 1 .. Len(q) : q[i].dst = w[BeforeChain(t, c) + y]
<1>. DEFINE q == ChainTasksOf(t, found, blocks, p.pos, c)
            V == Jobs(t, found, blocks, w, p)
            chain == found.chains[c]
            n == 2 * chain.ready + 1
            b == BeforeChain(t, c)
            job(y) == ChainJobOf(t, found, w, p, c, y)
<1>1. /\ TapeContract(t) /\ ScheduleContract(t) /\ FoundWell(t, found) /\ Made(t, found, blocks, w, p.pos)
  BY DEF Whole, Made
<1>2. /\ blocks \in Seq(Seq(Nat)) /\ FirstWords(blocks, w)
      /\ \A k \in 1 .. Len(blocks) + 1 : WordOf(Bases(blocks)[k]) = w[k]
  BY WholeWords
<1>3. ASSUME NEW y \in 1 .. 3
      PROVE  b + y \in 1 .. Len(blocks) /\ WordOf(Bases(blocks)[b + y]) = w[b + y]
  <2>1. b + y \in 1 .. Len(blocks)
    BY <1>1, BlockNumbers
  <2>2. b + y \in 1 .. Len(blocks) + 1
    BY <1>2, <2>1
  <2>. QED BY <1>2, <2>1, <2>2
<1>4. n \in Nat
  <2>1. chain.ready \in 1 .. Len(t.levels)
    BY <1>1, DueOf
  <2>. HIDE DEF chain
  <2>. QED BY <2>1
<1>5. ASSUME NEW y \in 1 .. 3, HasBlock(chain, y)
      PROVE  job(y) \in V /\ Job(t, found, p, job(y), n) /\ job(y).dst = w[b + y] /\ job(y).dst \in WordsOf(w, b + y)
  <2>1. job(y) \in V
    BY <1>5 DEF Jobs, ChainJobs
  <2>2. job(y) = ChainTask(t, p.pos, found.chains[c], ChainOp(y), w[BeforeChain(t, c) + y])
    BY DEF ChainJobOf
  <2>3. /\ Job(t, found, p, job(y), 2 * found.chains[c].ready + 1)
        /\ job(y).dst = w[BeforeChain(t, c) + y] /\ job(y).dst \in WordsOf(w, BeforeChain(t, c) + y)
    BY <1>5, <2>2, ChainJob
  <2>. QED BY <2>1, <2>3
<1>6. q = (IF chain.ext_pxq THEN <<job(2)>> ELSE <<>>) \o (IF chain.ext_g THEN <<job(3)>> ELSE <<>>) \o <<job(1)>>
  <2>. DEFINE at == [i \in 1 .. 3 |-> WordOf(Bases(blocks)[b + i])]
  <2>1. at[1] = w[b + 1] /\ at[2] = w[b + 2] /\ at[3] = w[b + 3]
    BY <1>3
  <2>2. q = ChainTasks(t, p.pos, chain, at)
    BY DEF ChainTasksOf
  <2>. HIDE DEF at
  <2>3. /\ job(1) = ChainTask(t, p.pos, chain, "Add", at[1])
        /\ job(2) = ChainTask(t, p.pos, chain, "Xor", at[2])
        /\ job(3) = ChainTask(t, p.pos, chain, "And", at[3])
    BY <2>1 DEF ChainJobOf, ChainOp
  <2>. HIDE DEF job, chain, q
  <2>. QED BY <2>2, <2>3 DEF ChainTasks
<1>7. HasBlock(chain, 1) /\ (HasBlock(chain, 2) <=> chain.ext_pxq) /\ (HasBlock(chain, 3) <=> chain.ext_g)
  BY DEF HasBlock
<1>8. ASSUME NEW y \in 1 .. 3, NEW z \in 1 .. 3, HasBlock(chain, y), HasBlock(chain, z), y # z
      PROVE  job(y).dst # job(z).dst
  <2>1. b + y \in 1 .. Len(blocks) /\ b + z \in 1 .. Len(blocks) /\ b + y # b + z
    BY <1>1, <1>8, BlockNumbers
  <2>2. job(y).dst \in WordsOf(w, b + y) /\ job(z).dst \in WordsOf(w, b + z)
    BY <1>5, <1>8
  <2>. QED BY <1>2, <2>1, <2>2, WordsAscend
<1>9. /\ job(1) \in V /\ (chain.ext_pxq => job(2) \in V) /\ (chain.ext_g => job(3) \in V)
  BY <1>5, <1>7
<1>. DEFINE Shape(m, f) ==
              /\ m \in 1 .. 3 /\ f \in [1 .. m -> 1 .. 3]
              /\ \A i, j \in 1 .. m : f[i] = f[j] => i = j
              /\ \A i \in 1 .. m : HasBlock(chain, f[i])
              /\ \A y \in 1 .. 3 : HasBlock(chain, y) => \E i \in 1 .. m : f[i] = y
              /\ q = [i \in 1 .. m |-> job(f[i])]
<1>10. \E m, f : Shape(m, f)
  <2>1. ASSUME NEW y \in 1 .. 3 PROVE y = 1 \/ y = 2 \/ y = 3
    OBVIOUS
  <2>2. CASE chain.ext_pxq /\ chain.ext_g
    <3>. DEFINE f == <<2, 3, 1>>
    <3>1. q = <<job(2), job(3), job(1)>>
      <4>. HIDE DEF job, chain, q
      <4>. QED BY <1>6, <2>2, SomeOfThree
    <3>2. q = [i \in 1 .. 3 |-> job(f[i])]
      <4>. HIDE DEF job, chain, q
      <4>. QED BY <3>1
    <3>3. Shape(3, f)
      <4>. HIDE DEF job, chain, q
      <4>. QED BY <1>7, <2>1, <2>2, <3>2
    <3>. HIDE DEF Shape, f
    <3>. QED BY <3>3
  <2>3. CASE chain.ext_pxq /\ ~chain.ext_g
    <3>. DEFINE f == <<2, 1>>
    <3>1. q = <<job(2), job(1)>>
      <4>. HIDE DEF job, chain, q
      <4>. QED BY <1>6, <2>3, SomeOfThree
    <3>2. q = [i \in 1 .. 2 |-> job(f[i])]
      <4>. HIDE DEF job, chain, q
      <4>. QED BY <3>1
    <3>3. Shape(2, f)
      <4>. HIDE DEF job, chain, q
      <4>. QED BY <1>7, <2>1, <2>3, <3>2
    <3>. HIDE DEF Shape, f
    <3>. QED BY <3>3
  <2>4. CASE ~chain.ext_pxq /\ chain.ext_g
    <3>. DEFINE f == <<3, 1>>
    <3>1. q = <<job(3), job(1)>>
      <4>. HIDE DEF job, chain, q
      <4>. QED BY <1>6, <2>4, SomeOfThree
    <3>2. q = [i \in 1 .. 2 |-> job(f[i])]
      <4>. HIDE DEF job, chain, q
      <4>. QED BY <3>1
    <3>3. Shape(2, f)
      <4>. HIDE DEF job, chain, q
      <4>. QED BY <1>7, <2>1, <2>4, <3>2
    <3>. HIDE DEF Shape, f
    <3>. QED BY <3>3
  <2>5. CASE ~chain.ext_pxq /\ ~chain.ext_g
    <3>. DEFINE f == <<1>>
    <3>1. q = <<job(1)>>
      <4>. HIDE DEF job, chain, q
      <4>. QED BY <1>6, <2>5, SomeOfThree
    <3>2. q = [i \in 1 .. 1 |-> job(f[i])]
      <4>. HIDE DEF job, chain, q
      <4>. QED BY <3>1
    <3>3. Shape(1, f)
      <4>. HIDE DEF job, chain, q
      <4>. QED BY <1>7, <2>1, <2>5, <3>2
    <3>. HIDE DEF Shape, f
    <3>. QED BY <3>3
  <2>. QED BY <2>2, <2>3, <2>4, <2>5
<1>. HIDE DEF q, V, chain, n, job, b
<1>11. PICK m, f : Shape(m, f)
  BY <1>10
<1>12. m \in Nat /\ Len(q) = m /\ DOMAIN q = 1 .. m /\ \A i \in 1 .. m : q[i] = job(f[i]) /\ f[i] \in 1 .. 3
  BY <1>11
<1>13. ASSUME NEW i \in 1 .. m
       PROVE  q[i] \in V /\ Job(t, found, p, q[i], n) /\ q[i].dst \in WordsOf(w, b + f[i])
  BY <1>5, <1>11, <1>12
<1>14. q \in Seq(V)
  <2>1. q = [i \in 1 .. m |-> q[i]]
    BY <1>11
  <2>2. q \in [1 .. m -> V]
    BY <1>13, <2>1
  <2>. QED BY <1>12, <2>2
<1>15. ASSUME NEW i \in 1 .. m, NEW j \in 1 .. m, i < j PROVE q[i].dst # q[j].dst
  <2>1. f[i] # f[j] /\ HasBlock(chain, f[i]) /\ HasBlock(chain, f[j])
    BY <1>11, <1>12, <1>15
  <2>. QED BY <1>8, <1>12, <2>1
<1>16. Queue(t, found, p, V, q, n)
  BY <1>4, <1>12, <1>13, <1>14, <1>15, QueueOfJobs
<1>17. \A i \in 1 .. Len(q) : \E y \in 1 .. 3 : q[i].dst \in WordsOf(w, b + y)
  BY <1>12, <1>13
<1>18. ASSUME NEW y \in 1 .. 3, HasBlock(chain, y) PROVE \E i \in 1 .. Len(q) : q[i].dst = w[b + y]
  <2>1. PICK i \in 1 .. m : f[i] = y
    BY <1>11, <1>18
  <2>2. q[i] = job(y) /\ job(y).dst = w[b + y]
    BY <1>5, <1>12, <1>18, <2>1
  <2>. QED BY <1>12, <2>2
<1>. QED BY <1>16, <1>17, <1>18 DEF q, V, chain, n, b

\* No task of one sequence writes a word that one of the other does.
Apart(a, b) == \A i \in 1 .. Len(a), j \in 1 .. Len(b) : a[i].dst # b[j].dst

\* Queues that write different words.
Joinable(t, found, p, V, seqs, n, due) ==
  /\ n \in Nat /\ due \in Nat /\ DOMAIN seqs = 1 .. n /\ seqs = [k \in 1 .. n |-> seqs[k]]
  /\ \A k \in 1 .. n : Queue(t, found, p, V, seqs[k], due)
  /\ \A k, m \in 1 .. n : k < m => Apart(seqs[k], seqs[m])

\* Every element of the sequences is one of q.
Covers(q, seqs, n) ==
  \A k \in 1 .. n : \A j \in 1 .. Len(seqs[k]) : \E i \in 1 .. Len(q) : q[i] = seqs[k][j]

\* Such queues, one after another.
LEMMA QueuesJoined ==
  ASSUME NEW t, NEW found, NEW p, NEW V, NEW due, NEW n, NEW seqs, Joinable(t, found, p, V, seqs, n, due)
  PROVE  Queue(t, found, p, V, FlattenSeq(seqs), due) /\ Covers(FlattenSeq(seqs), seqs, n)
<1>0. /\ n \in Nat /\ due \in Nat /\ DOMAIN seqs = 1 .. n /\ seqs = [k \in 1 .. n |-> seqs[k]]
      /\ \A k \in 1 .. n : Queue(t, found, p, V, seqs[k], due)
      /\ \A k, m \in 1 .. n : k < m => Apart(seqs[k], seqs[m])
  BY DEF Joinable
<1>. DEFINE all == FlattenSeq(seqs)
            R == Turns(t, found, p, V)
<1>1. seqs \in [1 .. n -> Seq(V)]
  BY <1>0 DEF Queue
<1>2. Flattened(n, seqs) /\ all \in Seq(V)
  BY <1>0, <1>1, FlattenParts
<1>3. \A k \in 1 .. n : InTurn(seqs[k], R)
  BY <1>0 DEF Queue
<1>4. ASSUME NEW k \in 1 .. n, NEW m \in 1 .. n, k < m PROVE Before(seqs[k], seqs[m], R)
  <2>1. ASSUME NEW i \in 1 .. Len(seqs[k]), NEW j \in 1 .. Len(seqs[m]) PROVE <<seqs[k][i], seqs[m][j]>> \in R
    <3>. DEFINE x == seqs[k][i]
                y == seqs[m][j]
    <3>1. Job(t, found, p, x, due) /\ Job(t, found, p, y, due)
      BY <1>0 DEF Queue
    <3>2. x \in V /\ y \in V
      BY <1>1
    <3>3. x.dst # y.dst
      BY <1>0, <1>4 DEF Apart
    <3>. HIDE DEF x, y
    <3>4. <<x, y>> \in R
      BY <1>0, <3>1, <3>2, <3>3, JobsTurn
    <3>. QED BY <3>4 DEF x, y
  <2>. QED BY <2>1 DEF Before
<1>5. InTurn(all, R)
  <2>. HIDE DEF R
  <2>. QED BY <1>0, <1>1, <1>3, <1>4, FlattenedInTurn
<1>6. ASSUME NEW i \in 1 .. Len(all) PROVE Job(t, found, p, all[i], due)
  <2>1. \E k \in 1 .. n : \E j \in 1 .. Len(seqs[k]) : seqs[k][j] = all[i]
    BY <1>2 DEF Flattened
  <2>. QED BY <1>0, <2>1 DEF Queue
<1>7. ASSUME NEW k \in 1 .. n, NEW j \in 1 .. Len(seqs[k])
      PROVE  \E i \in 1 .. Len(all) : all[i] = seqs[k][j]
  BY <1>2 DEF Flattened
<1>8. Queue(t, found, p, V, all, due)
  BY <1>2, <1>5, <1>6 DEF Queue
<1>. QED BY <1>7, <1>8 DEF Covers

\* The words that the tasks of a level write.
Writes(q, x) == \E i \in 1 .. Len(q) : q[i].dst = x
RunsWritten(t, blocks, w, q, l) ==
  \A r \in t.levels[l].run_start .. t.levels[l].run_end - 1 :
    \A j \in 1 .. WordsFor(Len(blocks[2 + r])) : Writes(q, w[2 + r] + j - 1)
ChainsWritten(t, found, w, q, level) ==
  \A c \in 1 .. Len(found.chains) : found.chains[c].ready = level =>
    \A y \in 1 .. 3 : HasBlock(found.chains[c], y) => Writes(q, w[BeforeChain(t, c) + y])

\* The runs of a level.
LEMMA RunsQueued ==
  ASSUME NEW t, NEW found, NEW blocks, NEW w, NEW p, Whole(t, found, blocks, w, p),
         NEW l \in 1 .. Len(t.levels)
  PROVE  LET q == RunsAt(t, found, p.pos, l) IN
         Queue(t, found, p, Jobs(t, found, blocks, w, p), q, 2 * l) /\ RunsWritten(t, blocks, w, q, l)
<1>. DEFINE first == t.levels[l].run_start
            next == t.levels[l].run_end
            n == next - first
            seqs == [k \in 1 .. n |-> RunTasksOf(t, found, p.pos, first + k - 1)]
            V == Jobs(t, found, blocks, w, p)
            q == RunsAt(t, found, p.pos, l)
            due == 2 * l
<1>1. /\ ScheduleContract(t) /\ Made(t, found, blocks, w, p.pos)
      /\ blocks \in Seq(Seq(Nat)) /\ FirstWords(blocks, w)
  BY WholeWords DEF Whole, Made
<1>2. first \in Nat /\ next \in Nat /\ first < next
  BY <1>1 DEF ScheduleContract, LevelRunsExact
<1>. HIDE DEF first, next
<1>3. n \in Nat
  BY <1>2
<1>4. ASSUME NEW r \in first .. next - 1
      PROVE  LET tasks == RunTasksOf(t, found, p.pos, r) IN
             /\ r \in 1 .. Len(t.runs) /\ 2 + r \in 1 .. Len(blocks)
             /\ Queue(t, found, p, V, tasks, due)
             /\ Len(tasks) = WordsFor(Len(blocks[2 + r]))
             /\ \A j \in 1 .. Len(tasks) : tasks[j].dst = w[2 + r] + j - 1 /\ tasks[j].dst \in WordsOf(w, 2 + r)
  <2>1. r \in t.levels[l].run_start .. t.levels[l].run_end - 1
    BY DEF first, next
  <2>2. r \in 1 .. Len(t.runs)
    BY <1>1, <2>1, RunAtLevel
  <2>3. 2 + r \in 1 .. Len(blocks)
    BY <1>1, <2>2, BlockNumbers
  <2>. QED BY <2>1, <2>2, <2>3, RunQueued
<1>. HIDE DEF V, due
<1>5. ASSUME NEW k \in 1 .. n
      PROVE  first + k - 1 \in first .. next - 1 /\ seqs[k] = RunTasksOf(t, found, p.pos, first + k - 1)
  BY <1>2
<1>6. \A k \in 1 .. n : Queue(t, found, p, V, seqs[k], due)
  <2>. HIDE DEF seqs, n
  <2>. QED BY <1>4, <1>5
<1>7. ASSUME NEW k \in 1 .. n, NEW m \in 1 .. n, k < m PROVE Apart(seqs[k], seqs[m])
  <2>. DEFINE r == first + k - 1
              s == first + m - 1
  <2>1. r \in first .. next - 1 /\ s \in first .. next - 1 /\ 2 + r # 2 + s
    BY <1>2, <1>7
  <2>2. seqs[k] = RunTasksOf(t, found, p.pos, r) /\ seqs[m] = RunTasksOf(t, found, p.pos, s)
    BY <1>5
  <2>. HIDE DEF r, s, seqs, n
  <2>3. ASSUME NEW i \in 1 .. Len(seqs[k]), NEW j \in 1 .. Len(seqs[m]) PROVE seqs[k][i].dst # seqs[m][j].dst
    <3>1. seqs[k][i].dst \in WordsOf(w, 2 + r) /\ seqs[m][j].dst \in WordsOf(w, 2 + s)
      BY <1>4, <2>1, <2>2
    <3>2. 2 + r \in 1 .. Len(blocks) /\ 2 + s \in 1 .. Len(blocks)
      BY <1>4, <2>1
    <3>. QED BY <1>1, <2>1, <3>1, <3>2, WordsAscend
  <2>. QED BY <2>3 DEF Apart
<1>8. q = FlattenSeq(seqs)
  BY DEF RunsAt, first, next
<1>9. DOMAIN seqs = 1 .. n /\ seqs = [k \in 1 .. n |-> seqs[k]] /\ due \in Nat
  BY DEF due
<1>. HIDE DEF seqs, n, q
<1>10. Joinable(t, found, p, V, seqs, n, due)
  BY <1>3, <1>6, <1>7, <1>9 DEF Joinable
<1>12. Queue(t, found, p, V, q, due) /\ Covers(q, seqs, n)
  BY <1>8, <1>10, QueuesJoined
<1>11. ASSUME NEW r \in first .. next - 1, NEW j \in 1 .. WordsFor(Len(blocks[2 + r]))
       PROVE  \E i \in 1 .. Len(q) : q[i].dst = w[2 + r] + j - 1
  <2>1. PICK k \in 1 .. n : r = first + k - 1
    <3>1. r - first + 1 \in 1 .. n /\ r = first + (r - first + 1) - 1
      BY <1>2 DEF n
    <3>. QED BY <3>1
  <2>2. seqs[k] = RunTasksOf(t, found, p.pos, r)
    BY <1>5, <2>1
  <2>3. j \in 1 .. Len(seqs[k]) /\ seqs[k][j].dst = w[2 + r] + j - 1
    BY <1>4, <2>2
  <2>. QED BY <1>12, <2>3 DEF Covers
<1>13. RunsWritten(t, blocks, w, q, l)
  BY <1>11 DEF RunsWritten, Writes, first, next
<1>. QED BY <1>12, <1>13 DEF V, q, due

\* The chains emitted at a level.
LEMMA ChainsQueued ==
  ASSUME NEW t, NEW found, NEW blocks, NEW w, NEW p, Whole(t, found, blocks, w, p),
         NEW level \in 0 .. Len(t.levels)
  PROVE  LET q == ChainsAt(t, found, blocks, p.pos, level) IN
         /\ Queue(t, found, p, Jobs(t, found, blocks, w, p), q, 2 * level + 1)
         /\ ChainsWritten(t, found, w, q, level)
<1>. DEFINE order == ChainOrder(t, found, level)
            n == Len(order)
            tasks(c) == ChainTasksOf(t, found, blocks, p.pos, c)
            seqs == [k \in DOMAIN order |-> tasks(order[k])]
            V == Jobs(t, found, blocks, w, p)
            q == ChainsAt(t, found, blocks, p.pos, level)
            due == 2 * level + 1
            m == Len(found.chains)
            last == Len(t.levels)
            readies == [k \in DOMAIN found.chains |-> found.chains[k].ready]
<1>1. /\ TapeContract(t) /\ ScheduleContract(t) /\ FoundWell(t, found) /\ Made(t, found, blocks, w, p.pos)
      /\ blocks \in Seq(Seq(Nat)) /\ FirstWords(blocks, w)
  BY WholeWords DEF Whole, Made
<1>2. m \in Nat /\ DOMAIN found.chains = 1 .. m /\ last \in Nat
  BY <1>1 DEF FoundWell, ScheduleContract, LevelsExact
<1>3. ASSUME NEW c \in 1 .. m
      PROVE  /\ readies[c] = found.chains[c].ready /\ found.chains[c].ready \in 1 .. last
             /\ EmittedAt(readies[c], last) = found.chains[c].ready
  <2>1. readies[c] = found.chains[c].ready /\ found.chains[c].ready \in 1 .. last
    BY <1>1, <1>2, DueOf
  <2>. DEFINE x == found.chains[c].ready
  <2>2. x \in Nat /\ x <= last
    BY <1>2, <2>1
  <2>3. Min({x, last}) = x
    <3>. HIDE DEF x, last
    <3>. QED BY <1>2, <2>2, SmallerOfTwo
  <2>. QED BY <2>1, <2>3 DEF EmittedAt
<1>4. readies \in [1 .. m -> Nat]
  <2>1. DOMAIN readies = 1 .. m
    BY <1>2
  <2>. HIDE DEF m, last
  <2>. QED BY <1>2, <1>3, <2>1
<1>5. /\ n \in Nat /\ DOMAIN order = 1 .. n
      /\ \A i \in 1 .. n : order[i] \in 1 .. m /\ found.chains[order[i]].ready = level
      /\ \A i, j \in 1 .. n : order[i] = order[j] => i = j
      /\ \A c \in 1 .. m : found.chains[c].ready = level => \E i \in 1 .. n : order[i] = c
  <2>1. order = EmissionOrder(readies, level, last)
    BY DEF ChainOrder
  <2>. HIDE DEF order, readies, last, m
  <2>2. EmittedOnce(readies, m, level, last)
    BY <1>2, <1>4, EmissionOnce
  <2>. QED BY <1>3, <2>1, <2>2 DEF EmittedOnce
<1>. HIDE DEF order, n, V, m, readies, last
<1>6. ASSUME NEW c \in 1 .. m, found.chains[c].ready = level
      PROVE  /\ Queue(t, found, p, V, tasks(c), due)
             /\ \A i \in 1 .. Len(tasks(c)) : \E y \in 1 .. 3 : tasks(c)[i].dst \in WordsOf(w, BeforeChain(t, c) + y)
             /\ \A y \in 1 .. 3 : HasBlock(found.chains[c], y) =>
                  \E i \in 1 .. Len(tasks(c)) : tasks(c)[i].dst = w[BeforeChain(t, c) + y]
  <2>1. c \in 1 .. Len(found.chains)
    BY DEF m
  <2>. QED BY <1>6, <2>1, ChainQueued DEF V
<1>. HIDE DEF tasks, due
<1>7. DOMAIN seqs = 1 .. n /\ seqs = [k \in 1 .. n |-> seqs[k]] /\ due \in Nat
  BY <1>5 DEF due
<1>8. ASSUME NEW k \in 1 .. n
      PROVE  seqs[k] = tasks(order[k]) /\ order[k] \in 1 .. m /\ found.chains[order[k]].ready = level
  BY <1>5
<1>. HIDE DEF seqs
<1>9. \A k \in 1 .. n : Queue(t, found, p, V, seqs[k], due)
  BY <1>6, <1>8
<1>10. ASSUME NEW k \in 1 .. n, NEW h \in 1 .. n, k < h PROVE Apart(seqs[k], seqs[h])
  <2>. DEFINE c == order[k]
              d == order[h]
  <2>1. /\ seqs[k] = tasks(c) /\ c \in 1 .. m /\ found.chains[c].ready = level
        /\ seqs[h] = tasks(d) /\ d \in 1 .. m /\ found.chains[d].ready = level
    BY <1>8
  <2>2. c # d
    BY <1>5, <1>10
  <2>. HIDE DEF c, d
  <2>3. ASSUME NEW i \in 1 .. Len(seqs[k]), NEW j \in 1 .. Len(seqs[h]) PROVE seqs[k][i].dst # seqs[h][j].dst
    <3>1. PICK y \in 1 .. 3 : seqs[k][i].dst \in WordsOf(w, BeforeChain(t, c) + y)
      BY <1>6, <2>1
    <3>2. PICK z \in 1 .. 3 : seqs[h][j].dst \in WordsOf(w, BeforeChain(t, d) + z)
      BY <1>6, <2>1
    <3>3. c \in 1 .. Len(found.chains) /\ d \in 1 .. Len(found.chains)
      BY <2>1 DEF m
    <3>4. BeforeChain(t, c) + y \in 1 .. Len(blocks)
      BY <1>1, <3>3, BlockNumbers
    <3>5. BeforeChain(t, d) + z \in 1 .. Len(blocks)
      BY <1>1, <3>3, BlockNumbers
    <3>6. BeforeChain(t, c) + y # BeforeChain(t, d) + z
      <4>1. Made(t, found, blocks, w, p.pos)
        BY <1>1
      <4>2. BeforeChain(t, c) + y = BeforeChain(t, d) + z => c = d
        BY ONLY <3>3, <4>1, y \in 1 .. 3, z \in 1 .. 3, BlockNumbers
      <4>. QED BY <2>2, <4>2
    <3>. DEFINE b == BeforeChain(t, c) + y
                e == BeforeChain(t, d) + z
    <3>. HIDE DEF b, e
    <3>7. b \in 1 .. Len(blocks) /\ e \in 1 .. Len(blocks) /\ b # e
      BY <3>4, <3>5, <3>6 DEF b, e
    <3>8. seqs[k][i].dst \in WordsOf(w, b) /\ seqs[h][j].dst \in WordsOf(w, e)
      BY <3>1, <3>2 DEF b, e
    <3>. DEFINE x == seqs[k][i].dst
                v == seqs[h][j].dst
    <3>. HIDE DEF x, v
    <3>9. x \in WordsOf(w, b) /\ v \in WordsOf(w, e)
      BY <3>8 DEF x, v
    <3>10. x # v
      BY <1>1, <3>7, <3>9, WordsAscend
    <3>. QED BY <3>10 DEF x, v
  <2>. QED BY <2>3 DEF Apart
<1>14. Joinable(t, found, p, V, seqs, n, due)
  BY <1>5, <1>7, <1>9, <1>10 DEF Joinable
<1>11. Queue(t, found, p, V, FlattenSeq(seqs), due) /\ Covers(FlattenSeq(seqs), seqs, n)
  BY <1>14, QueuesJoined
<1>12. q = FlattenSeq(seqs)
  <2>. DEFINE all == FlattenSeq(seqs)
  <2>1. q = all \o <<>>
    BY DEF ChainsAt, seqs, tasks, order
  <2>2. all \in Seq(V)
    BY <1>11 DEF Queue
  <2>. HIDE DEF all, q
  <2>. QED BY <2>1, <2>2 DEF all
<1>. HIDE DEF q
<1>13. ASSUME NEW c \in 1 .. m, found.chains[c].ready = level, NEW y \in 1 .. 3, HasBlock(found.chains[c], y)
       PROVE  \E i \in 1 .. Len(q) : q[i].dst = w[BeforeChain(t, c) + y]
  <2>1. PICK k \in 1 .. n : order[k] = c
    BY <1>5, <1>13
  <2>2. seqs[k] = tasks(c)
    BY <1>8, <2>1
  <2>3. PICK j \in 1 .. Len(seqs[k]) : seqs[k][j].dst = w[BeforeChain(t, c) + y]
    BY <1>6, <1>13, <2>2
  <2>. QED BY <1>11, <1>12, <2>3 DEF Covers
<1>15. ChainsWritten(t, found, w, q, level)
  BY <1>13 DEF ChainsWritten, Writes, m
<1>. QED BY <1>11, <1>12, <1>15 DEF V, q, due

\* Tasks in turn, due at one of two moments.
DueAt(t, found, p, x, k) == Job(t, found, p, x, 2 * k - 1) \/ Job(t, found, p, x, 2 * k)
Batch(t, found, p, V, q, k) ==
  /\ q \in Seq(V) /\ InTurn(q, Turns(t, found, p, V))
  /\ \A i \in 1 .. Len(q) : DueAt(t, found, p, q[i], k)

\* A queue and one due right after it.
LEMMA TwoQueues ==
  ASSUME NEW t, NEW found, NEW p, NEW V, NEW k \in Nat, 2 * k - 1 \in Nat, NEW a, NEW b,
         Queue(t, found, p, V, a, 2 * k - 1), Queue(t, found, p, V, b, 2 * k)
  PROVE  /\ Batch(t, found, p, V, a \o b, k)
         /\ \A x : Writes(a, x) \/ Writes(b, x) => Writes(a \o b, x)
<1>. DEFINE q == a \o b
            R == Turns(t, found, p, V)
            n == 2 * k - 1
            m == 2 * k
            la == Len(a)
            lb == Len(b)
<1>1. n \in Nat /\ m \in Nat /\ n <= m /\ n # m
  OBVIOUS
<1>. HIDE DEF n, m
<1>2. a \in Seq(V) /\ b \in Seq(V) /\ InTurn(a, R) /\ InTurn(b, R)
  BY DEF Queue
<1>3. (\A i \in 1 .. la : Job(t, found, p, a[i], n)) /\ \A i \in 1 .. lb : Job(t, found, p, b[i], m)
  BY DEF Queue, n, m
<1>4. Before(a, b, R)
  <2>1. ASSUME NEW i \in 1 .. la, NEW j \in 1 .. lb PROVE <<a[i], b[j]>> \in R
    <3>. DEFINE x == a[i]
                y == b[j]
    <3>1. x \in V /\ y \in V /\ Job(t, found, p, x, n) /\ Job(t, found, p, y, m)
      BY <1>2, <1>3
    <3>. HIDE DEF x, y
    <3>2. <<x, y>> \in R
      BY <1>1, <3>1, JobsTurn
    <3>. QED BY <3>2 DEF x, y
  <2>. QED BY <2>1 DEF Before
<1>5. InTurn(q, R)
  <2>. HIDE DEF R
  <2>. QED BY <1>2, <1>4, ConcatenatedInTurn
<1>6. q \in Seq(V) /\ After(a, b)
  BY <1>2, Concatenated
<1>7. /\ la \in Nat /\ lb \in Nat /\ Len(q) = la + lb
      /\ (\A i \in 1 .. la : q[i] = a[i]) /\ \A i \in 1 .. lb : q[la + i] = b[i]
  BY <1>6 DEF After
<1>. HIDE DEF q, R, la, lb
<1>8. ASSUME NEW i \in 1 .. Len(q) PROVE DueAt(t, found, p, q[i], k)
  <2>1. CASE i <= la
    <3>1. i \in 1 .. la
      BY <1>7, <2>1
    <3>. QED BY <1>3, <1>7, <3>1 DEF DueAt, n
  <2>2. CASE i > la
    <3>1. PICK j \in 1 .. lb : i = la + j
      <4>1. i - la \in 1 .. lb /\ i = la + (i - la)
        BY <1>7, <2>2
      <4>. QED BY <4>1
    <3>. QED BY <1>3, <1>7, <3>1 DEF DueAt, m
  <2>. QED BY <1>7, <2>1, <2>2
<1>9. Batch(t, found, p, V, q, k)
  BY <1>5, <1>6, <1>8 DEF Batch, q, R
<1>10. ASSUME NEW x, Writes(a, x) PROVE Writes(q, x)
  <2>1. PICK i \in 1 .. la : a[i].dst = x
    BY <1>10 DEF Writes, la
  <2>2. i \in 1 .. Len(q) /\ q[i].dst = x
    BY <1>7, <2>1
  <2>. QED BY <2>2 DEF Writes
<1>11. ASSUME NEW x, Writes(b, x) PROVE Writes(q, x)
  <2>1. PICK i \in 1 .. lb : b[i].dst = x
    BY <1>11 DEF Writes, lb
  <2>2. la + i \in 1 .. Len(q) /\ q[la + i].dst = x
    BY <1>7, <2>1
  <2>. QED BY <2>2 DEF Writes
<1>. QED BY <1>9, <1>10, <1>11 DEF q

\* The tasks of a level: the chains that became ready at the level before it,
\* then its runs.
LEMMA LevelBatch ==
  ASSUME NEW t, NEW found, NEW blocks, NEW w, NEW p, Whole(t, found, blocks, w, p),
         NEW k \in 1 .. Len(t.levels) + 1
  PROVE  LET q == TasksAt(t, found, blocks, p.pos, k) IN
         /\ Batch(t, found, p, Jobs(t, found, blocks, w, p), q, k)
         /\ ChainsWritten(t, found, w, q, k - 1)
         /\ k <= Len(t.levels) => RunsWritten(t, blocks, w, q, k)
<1>. DEFINE last == Len(t.levels)
            V == Jobs(t, found, blocks, w, p)
            a == ChainsAt(t, found, blocks, p.pos, k - 1)
            b == IF k <= last THEN RunsAt(t, found, p.pos, k) ELSE <<>>
            q == TasksAt(t, found, blocks, p.pos, k)
<1>1. last \in Nat
  BY DEF Whole, Made, ScheduleContract, LevelsExact
<1>2. k \in Nat /\ k - 1 \in 0 .. last /\ 2 * (k - 1) + 1 = 2 * k - 1 /\ 2 * k - 1 \in Nat /\ 2 * k \in Nat
  BY <1>1
<1>3. Queue(t, found, p, V, a, 2 * (k - 1) + 1) /\ ChainsWritten(t, found, w, a, k - 1)
  <2>. DEFINE level == k - 1
  <2>. HIDE DEF level
  <2>1. level \in 0 .. Len(t.levels)
    BY <1>2 DEF level
  <2>2. LET h == ChainsAt(t, found, blocks, p.pos, level) IN
         /\ Queue(t, found, p, Jobs(t, found, blocks, w, p), h, 2 * level + 1)
         /\ ChainsWritten(t, found, w, h, level)
    BY <2>1, ChainsQueued
  <2>. QED BY <2>2 DEF level
<1>4. Queue(t, found, p, V, b, 2 * k) /\ (k <= last => RunsWritten(t, blocks, w, b, k))
  <2>1. CASE k <= last
    <3>1. k \in 1 .. Len(t.levels)
      BY <1>1, <2>1
    <3>2. LET h == RunsAt(t, found, p.pos, k) IN
         Queue(t, found, p, Jobs(t, found, blocks, w, p), h, 2 * k) /\ RunsWritten(t, blocks, w, h, k)
      BY <3>1, RunsQueued
    <3>3. b = RunsAt(t, found, p.pos, k)
      BY <2>1
    <3>. QED BY <3>2, <3>3
  <2>2. CASE ~(k <= last)
    <3>1. b = <<>>
      BY <2>2
    <3>2. Queue(t, found, p, V, <<>>, 2 * k)
      BY DEF Queue, InTurn
    <3>. QED BY <2>2, <3>1, <3>2
  <2>. QED BY <2>1, <2>2
<1>5. q = a \o b
  BY DEF TasksAt
<1>. HIDE DEF a, b, q, V, last
<1>6. Queue(t, found, p, V, a, 2 * k - 1)
  BY <1>2, <1>3
<1>7. Batch(t, found, p, V, q, k) /\ \A x : Writes(a, x) \/ Writes(b, x) => Writes(q, x)
  BY <1>2, <1>4, <1>5, <1>6, TwoQueues
<1>8. ChainsWritten(t, found, w, q, k - 1)
  BY <1>3, <1>7 DEF ChainsWritten
<1>9. k <= last => RunsWritten(t, blocks, w, q, k)
  BY <1>4, <1>7 DEF RunsWritten
<1>. QED BY <1>7, <1>8, <1>9 DEF q, V, last

\* The tasks of a plan: in turn, each of its time, every word written.
InOrder(t, found, blocks, w, p) ==
  LET V == Jobs(t, found, blocks, w, p) IN
  /\ p.tasks \in Seq(V) /\ InTurn(p.tasks, Turns(t, found, p, V))
  /\ \A i \in 1 .. Len(p.tasks) : \E k \in 1 .. Len(t.levels) + 1 : DueAt(t, found, p, p.tasks[i], k)
  /\ \A l \in 1 .. Len(t.levels) : RunsWritten(t, blocks, w, p.tasks, l)
  /\ \A l \in 0 .. Len(t.levels) : ChainsWritten(t, found, w, p.tasks, l)

\* The tasks of a later level are due later.
LEMMA BatchesTurn ==
  ASSUME NEW t, NEW found, NEW p, NEW V, NEW k \in Nat \ {0}, NEW m \in Nat \ {0}, k < m,
         NEW a, NEW b, Batch(t, found, p, V, a, k), Batch(t, found, p, V, b, m)
  PROVE  Before(a, b, Turns(t, found, p, V))
<1>1. ASSUME NEW i \in 1 .. Len(a), NEW j \in 1 .. Len(b) PROVE <<a[i], b[j]>> \in Turns(t, found, p, V)
  <2>. DEFINE x == a[i]
              y == b[j]
  <2>1. x \in V /\ y \in V /\ DueAt(t, found, p, x, k) /\ DueAt(t, found, p, y, m)
    BY DEF Batch
  <2>. HIDE DEF x, y
  <2>2. PICK n \in Nat : n <= 2 * k /\ Job(t, found, p, x, n)
    <3>1. 2 * k - 1 \in Nat /\ 2 * k \in Nat /\ 2 * k - 1 <= 2 * k /\ 2 * k <= 2 * k
      OBVIOUS
    <3>. QED BY <2>1, <3>1 DEF DueAt
  <2>3. PICK h \in Nat : 2 * m - 1 <= h /\ Job(t, found, p, y, h)
    <3>1. 2 * m - 1 \in Nat /\ 2 * m \in Nat /\ 2 * m - 1 <= 2 * m /\ 2 * m - 1 <= 2 * m - 1
      OBVIOUS
    <3>. QED BY <2>1, <3>1 DEF DueAt
  <2>4. n < h
    BY <2>2, <2>3
  <2>5. n <= h /\ n # h
    BY <2>4
  <2>6. <<x, y>> \in Turns(t, found, p, V)
    BY <2>1, <2>2, <2>3, <2>5, JobsTurn
  <2>. QED BY <2>6 DEF x, y
<1>. QED BY <1>1 DEF Before

\* So are the tasks of a plan.
LEMMA TasksInOrder ==
  ASSUME NEW t, NEW found, NEW blocks, NEW w, NEW p, Whole(t, found, blocks, w, p)
  PROVE  InOrder(t, found, blocks, w, p)
<1>. DEFINE last == Len(t.levels)
            n == last + 1
            V == Jobs(t, found, blocks, w, p)
            R == Turns(t, found, p, V)
            at(k) == TasksAt(t, found, blocks, p.pos, k)
            seqs == [k \in 1 .. n |-> at(k)]
            q == FlattenSeq(seqs)
<1>1. last \in Nat
  BY DEF Whole, Made, ScheduleContract, LevelsExact
<1>2. n \in Nat /\ \A k \in 1 .. n : k \in Nat \ {0} /\ k \in 1 .. last + 1
  BY <1>1
<1>3. p.tasks = q
  BY DEF Whole, Drawn
<1>4. ASSUME NEW k \in 1 .. n
      PROVE  /\ Batch(t, found, p, V, at(k), k) /\ ChainsWritten(t, found, w, at(k), k - 1)
             /\ k <= last => RunsWritten(t, blocks, w, at(k), k)
  <2>1. k \in 1 .. Len(t.levels) + 1
    BY <1>2
  <2>. QED BY <2>1, LevelBatch
<1>. HIDE DEF V, at
<1>5. DOMAIN seqs = 1 .. n /\ \A k \in 1 .. n : seqs[k] = at(k)
  OBVIOUS
<1>6. seqs \in [1 .. n -> Seq(V)]
  BY <1>4 DEF Batch
<1>. HIDE DEF seqs, n, R
<1>7. Flattened(n, seqs) /\ q \in Seq(V)
  BY <1>2, <1>6, FlattenParts
<1>8. \A k \in 1 .. n : InTurn(seqs[k], R)
  BY <1>4, <1>5 DEF Batch, R
<1>9. ASSUME NEW k \in 1 .. n, NEW m \in 1 .. n, k < m PROVE Before(seqs[k], seqs[m], R)
  <2>1. Batch(t, found, p, V, seqs[k], k) /\ Batch(t, found, p, V, seqs[m], m)
    BY <1>4, <1>5
  <2>2. k \in Nat \ {0} /\ m \in Nat \ {0}
    BY <1>2
  <2>. QED BY <1>9, <2>1, <2>2, BatchesTurn DEF R
<1>10. InTurn(q, R)
  BY <1>2, <1>6, <1>8, <1>9, FlattenedInTurn
<1>. HIDE DEF q
<1>11. ASSUME NEW i \in 1 .. Len(q) PROVE \E k \in 1 .. n : DueAt(t, found, p, q[i], k)
  <2>1. PICK k \in 1 .. n : \E j \in 1 .. Len(seqs[k]) : seqs[k][j] = q[i]
    BY <1>7 DEF Flattened, q
  <2>. QED BY <1>4, <1>5, <2>1 DEF Batch
<1>12. ASSUME NEW k \in 1 .. n, NEW x, Writes(at(k), x) PROVE Writes(q, x)
  <2>1. PICK j \in 1 .. Len(seqs[k]) : seqs[k][j].dst = x
    BY <1>5, <1>12 DEF Writes
  <2>2. \E i \in 1 .. Len(q) : q[i] = seqs[k][j]
    BY <1>7 DEF Flattened, q
  <2>. QED BY <2>1, <2>2 DEF Writes
<1>13. ASSUME NEW l \in 1 .. last PROVE RunsWritten(t, blocks, w, q, l)
  <2>1. l \in 1 .. n /\ l <= last
    BY <1>1 DEF n
  <2>2. RunsWritten(t, blocks, w, at(l), l)
    BY <1>4, <2>1
  <2>. QED BY <1>12, <2>1, <2>2 DEF RunsWritten
<1>14. ASSUME NEW l \in 0 .. last PROVE ChainsWritten(t, found, w, q, l)
  <2>. DEFINE k == l + 1
  <2>1. k \in 1 .. n /\ k - 1 = l
    BY <1>1 DEF n
  <2>. HIDE DEF k
  <2>2. ChainsWritten(t, found, w, at(k), l)
    BY <1>4, <2>1
  <2>. QED BY <1>12, <2>1, <2>2 DEF ChainsWritten
<1>15. p.tasks \in Seq(V) /\ InTurn(p.tasks, R)
  BY <1>3, <1>7, <1>10
<1>16. \A i \in 1 .. Len(p.tasks) : \E k \in 1 .. last + 1 : DueAt(t, found, p, p.tasks[i], k)
  BY <1>3, <1>11 DEF n
<1>17. /\ \A l \in 1 .. last : RunsWritten(t, blocks, w, p.tasks, l)
       /\ \A l \in 0 .. last : ChainsWritten(t, found, w, p.tasks, l)
  BY <1>3, <1>13, <1>14
<1>. QED BY <1>15, <1>16, <1>17, Zenon DEF InOrder, V, R, last

\* Some task writes the word of every gate that has a place.
LEMMA GatesWritten ==
  ASSUME NEW t, NEW found, NEW blocks, NEW w, NEW p, Whole(t, found, blocks, w, p),
         NEW s \in Placed(p) \ Sources(t)
  PROVE  Writes(p.tasks, WordOf(p.pos[s]))
<1>1. /\ TapeContract(t) /\ ScheduleContract(t) /\ FoundWell(t, found) /\ BlocksMade(t, found, blocks)
      /\ InOrder(t, found, blocks, w, p) /\ blocks \in Seq(Seq(Nat)) /\ FirstWords(blocks, w)
  BY WholeWords, TasksInOrder DEF Whole, Made
<1>2. s \in GateSlots(t)
  BY WholePlaced DEF Sources
<1>3. PICK k, i : Seat(blocks, k, i, s)
  BY WholePlaced
<1>4. Entry(t, found, k, i, s) /\ Seated(blocks, w, p.pos, k, i, s)
  BY <1>3, WholePlaced
<1>5. k \in 1 .. Len(blocks) /\ i \in 1 .. Len(blocks[k]) /\ i \in Nat /\ Len(blocks[k]) \in Nat /\ s # NoSlot
  BY <1>1, <1>3, SeatIndices
<1>6. w[k] \in Nat
  BY <1>1, <1>5, WordsGrow
<1>7. CASE \E r \in 1 .. Len(t.runs) : AtRun(t, found, k, s, r)
  <2>1. PICK r \in 1 .. Len(t.runs) : k = 2 + r
    BY <1>7 DEF AtRun
  <2>2. PICK l \in 1 .. Len(t.levels) : r \in t.levels[l].run_start .. t.levels[l].run_end - 1
    BY <1>1, RunOfLevel
  <2>3. RunsWritten(t, blocks, w, p.tasks, l)
    BY <1>1 DEF InOrder
  <2>. DEFINE h == WordOf(i - 1)
              m == WordsFor(Len(blocks[2 + r]))
              j == h + 1
  <2>4. h \in Nat /\ h < m /\ WordOf(p.pos[s]) = w[2 + r] + h /\ w[2 + r] \in Nat /\ m \in Nat
    <3>1. h \in Nat /\ h < WordsFor(Len(blocks[k])) /\ WordOf(p.pos[s]) = w[k] + h
      BY <1>4 DEF Seated
    <3>2. WordsFor(Len(blocks[k])) \in Nat
      BY <1>5, WordsEnough
    <3>. QED BY <1>6, <2>1, <3>1, <3>2
  <2>. HIDE DEF h
  <2>5. j \in 1 .. m /\ WordOf(p.pos[s]) = w[2 + r] + j - 1
    <3>. HIDE DEF m
    <3>. QED BY <2>4
  <2>. HIDE DEF j
  <2>6. Writes(p.tasks, w[2 + r] + j - 1)
    BY <2>2, <2>3, <2>5 DEF RunsWritten
  <2>. QED BY <2>5, <2>6
<1>8. CASE \E c \in 1 .. Len(found.chains), j \in 1 .. 3 : AtChain(t, found, k, i, s, c, j)
  <2>1. PICK c \in 1 .. Len(found.chains), j \in 1 .. 3 : k = BeforeChain(t, c) + j
    BY <1>8 DEF AtChain
  <2>. DEFINE chain == found.chains[c]
  <2>2. HasBlock(chain, j)
    <3>. DEFINE b == BeforeChain(t, c)
    <3>1. blocks[b + 1] = SumBlock(chain) /\ blocks[b + 2] = PxqBlock(chain) /\ blocks[b + 3] = GBlock(chain)
      BY <1>1 DEF BlocksMade
    <3>2. j = 1 \/ j = 2 \/ j = 3
      OBVIOUS
    <3>3. blocks[k] # <<>>
      BY <1>5
    <3>. HIDE DEF b, chain
    <3>4. k = b + j
      BY <2>1 DEF b
    <3>5. (~chain.ext_pxq => PxqBlock(chain) = <<>>) /\ (~chain.ext_g => GBlock(chain) = <<>>)
      BY DEF PxqBlock, GBlock
    <3>. QED BY <3>1, <3>2, <3>3, <3>4, <3>5 DEF HasBlock
  <2>3. blocks[k] = ChainBlock(chain, j)
    BY <2>1, <2>2, ChainWordHeld
  <2>4. Len(blocks[k]) \in 1 .. WordBits
    <3>1. chain \in ChainsOf(t)
      BY <1>1, ChainByName
    <3>2. Len(ChainBlock(chain, j)) \in 1 .. WordBits
      BY <2>2, <3>1, ChainBlockHolds
    <3>. QED BY <2>3, <3>2
  <2>5. WordOf(i - 1) = 0
    <3>1. i - 1 \in Lanes
      BY <1>5, <2>4, WordWidth DEF Lanes
    <3>. QED BY <3>1, FirstWord
  <2>6. WordOf(p.pos[s]) = w[BeforeChain(t, c) + j]
    BY <1>4, <1>6, <2>1, <2>5 DEF Seated
  <2>7. chain.ready \in 0 .. Len(t.levels)
    <3>1. chain.ready \in 1 .. Len(t.levels) /\ Len(t.levels) \in Nat
      BY <1>1, DueOf DEF ScheduleContract, LevelsExact
    <3>. QED BY <3>1
  <2>8. ChainsWritten(t, found, w, p.tasks, chain.ready)
    BY <1>1, <2>7 DEF InOrder
  <2>9. Writes(p.tasks, w[BeforeChain(t, c) + j])
    BY <2>2, <2>8 DEF ChainsWritten
  <2>. QED BY <2>6, <2>9
<1>9. CASE \/ k = 1 /\ i \in InputIds(t) /\ s = t.input_slots[i]
           \/ k = 2 /\ i \in Registers(t) /\ s = t.reg_out_slots[i]
  BY <1>1, <1>2, <1>9, SlotKinds
<1>. QED BY <1>4, <1>7, <1>8, <1>9 DEF Entry

\* Every task is a job, due when its word is.
LEMMA TasksDue ==
  ASSUME NEW t, NEW found, NEW blocks, NEW w, NEW p, InOrder(t, found, blocks, w, p),
         NEW k \in 1 .. Len(p.tasks)
  PROVE  LET n == WordDue(t, found, p, p.tasks[k].dst) IN n \in Nat /\ Job(t, found, p, p.tasks[k], n)
<1>. DEFINE task == p.tasks[k]
<1>1. PICK l \in 1 .. Len(t.levels) + 1 : DueAt(t, found, p, task, l)
  BY DEF InOrder
<1>2. 2 * l - 1 \in Nat /\ 2 * l \in Nat
  OBVIOUS
<1>3. PICK n \in Nat : Job(t, found, p, task, n)
  BY <1>1, <1>2 DEF DueAt
<1>4. WordDue(t, found, p, task.dst) = n
  BY <1>3, JobDue
<1>. QED BY <1>3, <1>4

\* Whoever reads a word runs after the task that writes it.
LEMMA WritesFirst ==
  ASSUME NEW t, NEW found, NEW blocks, NEW w, NEW p, InOrder(t, found, blocks, w, p),
         Len(p.tasks) \in Nat, DOMAIN p.tasks = 1 .. Len(p.tasks)
  PROVE  WritesPrecedeReads(t, p)
<1>. DEFINE due(k) == WordDue(t, found, p, p.tasks[k].dst)
            V == Jobs(t, found, blocks, w, p)
<1>1. ASSUME NEW k \in DOMAIN p.tasks PROVE due(k) \in Nat /\ Job(t, found, p, p.tasks[k], due(k))
  BY TasksDue
<1>2. ASSUME NEW j \in DOMAIN p.tasks, NEW k \in DOMAIN p.tasks, j < k
      PROVE  p.tasks[j].dst # p.tasks[k].dst /\ due(j) <= due(k)
  <2>. DEFINE z == <<p.tasks[j], p.tasks[k]>>
  <2>1. z \in Turns(t, found, p, V)
    BY <1>2 DEF InOrder, InTurn
  <2>2. z[1] = p.tasks[j] /\ z[2] = p.tasks[k]
    OBVIOUS
  <2>. HIDE DEF z
  <2>3. z[1].dst # z[2].dst /\ WordDue(t, found, p, z[1].dst) <= WordDue(t, found, p, z[2].dst)
    BY <2>1 DEF Turns
  <2>. QED BY <2>2, <2>3
<1>. HIDE DEF due
<1>3. ASSUME NEW k \in DOMAIN p.tasks, NEW s \in PlacedSources(t, p) PROVE p.tasks[k].dst # WordOf(p.pos[s])
  BY <1>1 DEF Job, PlacedSources, Sources
<1>4. ASSUME NEW k \in DOMAIN p.tasks, NEW j \in 1 .. k, p.tasks[j].dst = p.tasks[k].dst PROVE j = k
  <2>1. j \in DOMAIN p.tasks /\ (j = k \/ j < k)
    OBVIOUS
  <2>. QED BY <1>2, <1>4, <2>1
<1>5. ASSUME NEW k \in DOMAIN p.tasks, NEW j \in 1 .. k, NEW x \in TaskReads(p.tasks[j])
      PROVE  p.tasks[k].dst # WordOf(x)
  <2>1. j \in DOMAIN p.tasks /\ (j = k \/ j < k)
    OBVIOUS
  <2>2. due(j) <= due(k)
    BY <1>1, <1>2, <2>1
  <2>3. ReadsBefore(t, found, p, TaskReads(p.tasks[j]), due(j))
    BY <1>1, <2>1 DEF Job
  <2>4. PICK s \in Placed(p) : x = p.pos[s]
    BY <2>3 DEF ReadsBefore, Positioned
  <2>5. Due(t, found, s) < due(j)
    BY <2>3, <2>4 DEF ReadsBefore
  <2>6. p.tasks[k].dst = WordOf(p.pos[s]) => Due(t, found, s) = due(k)
    BY <1>1 DEF Job
  <2>. QED BY <1>1, <2>1, <2>2, <2>4, <2>5, <2>6
<1>. QED BY <1>3, <1>4, <1>5 DEF WritesPrecedeReads

\* The tasks of a plan without memories cover its gates, in an order in which
\* nothing is read before it is written.
LEMMA PlanTasks ==
  ASSUME NEW t, NEW found, NEW blocks, NEW w, NEW p, Whole(t, found, blocks, w, p)
  PROVE  TasksBuilt(t, p)
<1>1. TapeContract(t) /\ FoundWell(t, found) /\ InOrder(t, found, blocks, w, p)
  BY TasksInOrder DEF Whole, Made
<1>2. Len(p.tasks) \in Nat /\ DOMAIN p.tasks = 1 .. Len(p.tasks)
  <2>. DEFINE V == Jobs(t, found, blocks, w, p)
  <2>1. p.tasks \in Seq(V)
    BY <1>1 DEF InOrder
  <2>. HIDE DEF V
  <2>. QED BY <2>1
<1>3. ASSUME NEW k \in DOMAIN p.tasks
      PROVE  /\ p.tasks[k].dst \in {WordOf(x) : x \in Positioned(p)}
             /\ IsGateTask(t, p, p.tasks[k]) \/ IsChainTask(t, p, p.tasks[k]) \/ IsReadTask(t, p, p.tasks[k])
  BY <1>1, <1>2, TasksDue DEF Job
<1>4. \A s \in Placed(p) \ Sources(t) : \E k \in DOMAIN p.tasks : p.tasks[k].dst = WordOf(p.pos[s])
  BY <1>2, GatesWritten DEF Writes
<1>5. WritesPrecedeReads(t, p)
  BY <1>1, <1>2, WritesFirst
<1>6. ASSUME NEW o \in OutputIds(t) PROVE Gathered(t, p, t.output_slots[o])
  <2>1. t.output_slots[o] \in Slots(t)
    BY <1>1 DEF TapeContract, FieldsTyped
  <2>2. Visible(t, found, t.output_slots[o])
    BY <1>1, ReadersSee DEF Observed
  <2>. QED BY <2>1, <2>2, WholePlaced DEF Gathered
<1>. QED BY <1>2, <1>3, <1>4, <1>5, <1>6 DEF TasksBuilt

-----------------------------------------------------------------------------
(* What the planner makes.                                                 *)

\* A tape in which no memory is found: chains alone are fused.
NoMemories(t) == find_banks(t) = <<>> /\ find_regfiles(t) = <<>>

\* The chains that are found, the blocks and their layout make such a plan.
LEMMA PlanIsWhole ==
  ASSUME NEW t, TapeContract(t), ScheduleContract(t), NoMemories(t)
  PROVE  \E found, blocks, w : Whole(t, found, blocks, w, Plan(t))
<1>. DEFINE found == find_chains(t)
            fused == Structures(found, <<>>, <<>>)
            blocks == Blocks(t, fused)
            w == [k \in 1 .. Len(blocks) + 1 |-> WordOf(Bases(blocks)[k])]
            p == Plan(t)
<1>1. FoundWell(t, found)
  BY ChainsFound
<1>2. fused.chains = found.chains /\ fused.used = found.used /\ fused.reads = <<>>
  BY PlainStructures
<1>3. p = PlanOn(t, fused, blocks)
  BY DEF Plan, PlanWith, NoMemories
<1>. HIDE DEF found, p
<1>4. Drawn(t, found, blocks, p)
  <2>. DEFINE b == blocks
              f == fused
  <2>1. f = Structures(found, <<>>, <<>>) /\ p = PlanOn(t, f, b)
    BY <1>3
  <2>. HIDE DEF f, b
  <2>2. Drawn(t, found, b, p)
    BY <2>1, PlainPlan
  <2>. QED BY <2>2 DEF b
<1>5. p.pos = Positions(t, blocks)
  BY <1>4 DEF Drawn
<1>. HIDE DEF fused
<1>6. BlocksMade(t, found, blocks)
  BY <1>1, <1>2, PlainBlocks
<1>. HIDE DEF blocks
<1>7. blocks \in Seq(Seq(Nat))
  BY <1>6 DEF BlocksMade
<1>8. NoSlot \notin Slots(t)
  BY DEF Slots, NoSlot
<1>9. ASSUME NEW k \in 1 .. Len(blocks), NEW h \in 1 .. Len(blocks),
             NEW i \in 1 .. Len(blocks[k]), NEW j \in 1 .. Len(blocks[h]),
             blocks[k][i] # NoSlot, blocks[k][i] = blocks[h][j]
      PROVE  k = h /\ i = j
  <2>. DEFINE s == blocks[k][i]
  <2>1. i \in DOMAIN blocks[k] /\ j \in DOMAIN blocks[h]
    BY <1>7
  <2>2. s # NoSlot /\ blocks[k][i] = s /\ blocks[h][j] = s
    BY <1>9
  <2>. HIDE DEF s
  <2>. QED BY <1>1, <1>6, <2>1, <2>2, EntriesApart
<1>10. Layout(t, blocks, w, p.pos)
  <2>1. \A k, h \in 1 .. Len(blocks) : \A i \in 1 .. Len(blocks[k]), j \in 1 .. Len(blocks[h]) :
          blocks[k][i] # NoSlot /\ blocks[k][i] = blocks[h][j] => k = h /\ i = j
    BY <1>9
  <2>2. Layout(t, blocks, w, Positions(t, blocks))
    BY <1>7, <1>8, <2>1, PositionsLaid
  <2>. QED BY <1>5, <2>2
<1>11. Whole(t, found, blocks, w, p)
  BY <1>1, <1>4, <1>6, <1>10 DEF Whole, Made
<1>. QED BY <1>11 DEF p

\* Plan::new makes the layout, the tasks, their order and the capture that the
\* engine needs, from every circuit in which no memory is found. Of a chain it
\* says that it runs when "by then all of its operands have settled" and that
\* what reads it "still executes after" (pack.rs:468-471).
THEOREM PlanIsBuilt ==
  ASSUME NEW t, TapeContract(t), ScheduleContract(t), NoMemories(t)
  PROVE  PlanBuilt(t, Plan(t))
<1>1. PICK found, blocks, w : Whole(t, found, blocks, w, Plan(t))
  BY PlanIsWhole
<1>. QED BY <1>1, PlanLaid, PlanTasks, PlanCaptures DEF PlanBuilt

\* What the theorems about the engine ask of its plans.
PlainTapes == \A t \in Tapes : ScheduleContract(t) /\ NoMemories(t)
COROLLARY PlansAreBuilt == ASSUME PlainTapes PROVE PlansBuilt
BY TapesAssumption, PlanIsBuilt DEF PlainTapes, PlansBuilt

\* Between calls the engine has a plan built like this.
THEOREM PlannerSound == ASSUME PlainTapes PROVE Spec => []PlanSound
<1>1. PackedInv => PlanSound
  BY PlansAreBuilt DEF PackedInv, Configured, PlansBuilt, PlanSound
<1>2. Spec => []PackedInv
  BY PlansAreBuilt, PackedInvariant
<1>. QED BY <1>1, <1>2, PTL

\* A task executes after the tasks whose words its gathers load, chains among
\* the windows of their level included (pack.rs:513-567),
\* and no task writes a word of sources.
THEOREM PlannerOrders == ASSUME PlainTapes PROVE Spec => []WrittenBeforeRead
<1>1. PackedInv => WrittenBeforeRead
  BY PlansAreBuilt DEF PackedInv, Configured, PlansBuilt, PlanBuilt, TasksBuilt, WrittenBeforeRead
<1>2. Spec => []PackedInv
  BY PlansAreBuilt, PackedInvariant
<1>. QED BY <1>1, <1>2, PTL

\* With these plans both engines are the synchronous machine, and nothing is
\* asked of the planner any more.
THEOREM PlainEngines ==
  ASSUME PlainTapes
  PROVE  /\ Spec => []SettledAtCapture /\ Abs!Spec
         /\ JitSpec => []CacheCoherent /\ ImplementsSync
<1>1. PlansBuilt
  BY PlansAreBuilt
<1>2. (Spec => []SettledAtCapture) /\ (Spec => Abs!Spec)
  BY <1>1, Settles, ImplementsEngine
<1>3. (JitSpec => []CacheCoherent) /\ (JitSpec => ImplementsSync)
  BY <1>1, CacheNeverStale, JitRefinement
<1>. QED BY <1>2, <1>3
=============================================================================
