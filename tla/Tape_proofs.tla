---------------------------- MODULE Tape_proofs ----------------------------
(***************************************************************************)
(* Lemmas about a tape that keeps the compiler's contract, used by the     *)
(* proofs of every engine, and what settling a buffer of such a tape       *)
(* computes: it settles it, it keeps the sources, and no other settled     *)
(* buffer has the same sources.                                            *)
(*                                                                         *)
(* A sweep is an iteration over the gates. The principle its proofs use    *)
(* is that a non-empty set of naturals has a least member.                 *)
(***************************************************************************)
EXTENDS Settle, Order, SequencesExt, TLAPS, FiniteSetTheorems, WellFoundedInduction

\* A gate operation gives a Boolean.
LEMMA ApplyType ==
  ASSUME NEW op, NEW a, NEW b, NEW c
  PROVE  Apply(op, a, b, c) \in BOOLEAN
BY DEF Apply

\* eval_gate gives a Boolean.
LEMMA EvalType ==
  ASSUME NEW t, NEW values, NEW g
  PROVE  eval_gate(t, values, g) \in BOOLEAN
BY ApplyType DEF eval_gate

\* eval_gate reads nothing but the operands of the gate.
LEMMA EvalReadsOperands ==
  ASSUME NEW t, NEW v, NEW w, NEW g, \A s \in OperandsOf(t, g) : v[s] = w[s]
  PROVE  eval_gate(t, v, g) = eval_gate(t, w, g)
<1>1. v[t.a[g]] = w[t.a[g]]
  BY DEF OperandsOf
<1>2. arity(t.ops[g]) > 1 => v[t.b[g]] = w[t.b[g]]
  BY DEF OperandsOf
<1>3. arity(t.ops[g]) > 2 => v[t.c[g]] = w[t.c[g]]
  BY DEF OperandsOf
<1>. QED BY <1>1, <1>2, <1>3 DEF eval_gate

\* No gate is its own successor, and successors lie at higher levels.
LEMMA SuccessorsAbove ==
  ASSUME NEW t, TapeContract(t), NEW g \in Slots(t), NEW s \in successors(t, g)
  PROVE  s \in GateSlots(t) /\ s # g /\ t.slot_level[s] > t.slot_level[g]
<1>1. s \in GateSlots(t) /\ g \in OperandsOf(t, s)
  BY DEF TapeContract, SuccessorsExact
<1>2. g < s /\ t.slot_level[g] < t.slot_level[s]
  BY <1>1 DEF TapeContract, OperandsBelow
<1>3. s \in Slots(t) /\ s \in Nat /\ g \in Nat
  BY <1>1 DEF TapeContract, FieldsTyped, GateSlots, Slots
<1>4. t.slot_level[s] \in Nat /\ t.slot_level[g] \in Nat
  BY <1>3 DEF TapeContract, FieldsTyped
<1>. QED BY <1>1, <1>2, <1>3, <1>4

\* Sources and gates are slots, and no slot is both.
LEMMA SlotKinds ==
  ASSUME NEW t, TapeContract(t)
  PROVE  /\ GateSlots(t) \subseteq Slots(t) /\ Sources(t) \subseteq Slots(t)
         /\ \A i \in InputIds(t) : t.input_slots[i] \in Slots(t) \ GateSlots(t)
         /\ \A r \in Registers(t) : t.reg_out_slots[r] \in Slots(t) \ GateSlots(t)
BY DEF TapeContract, FieldsTyped, SourcesDisjoint, GateSlots, Slots, Sources

\* Operands are slots.
LEMMA OperandsAreSlots ==
  ASSUME NEW t, TapeContract(t), NEW g \in GateSlots(t)
  PROVE  OperandsOf(t, g) \subseteq Slots(t)
<1>1. g \in Slots(t)
  BY SlotKinds
<1>2. t.a[g] \in Slots(t) /\ t.b[g] \in Slots(t) /\ t.c[g] \in Slots(t)
  BY <1>1 DEF TapeContract, FieldsTyped
<1>. QED BY <1>2 DEF OperandsOf

\* initial_values holds the constants, and is low on the inputs.
LEMMA InitialSources ==
  ASSUME NEW t, TapeContract(t)
  PROVE  /\ initial_values(t) \in Buffers(t)
         /\ ConstsHeld(t, initial_values(t))
         /\ \A i \in InputIds(t) : initial_values(t)[t.input_slots[i]] = FALSE
<1>. USE DEF TapeContract, SourcesDisjoint
<1>1. initial_values(t) \in Buffers(t)
  BY DEF initial_values, Buffers
<1>2. ASSUME NEW k \in DOMAIN t.const_slots
      PROVE  initial_values(t)[t.const_slots[k][1]] = t.const_slots[k][2]
  <2>1. t.const_slots[k] \in Slots(t) \X BOOLEAN
    BY DEF FieldsTyped
  <2>2. PICK s \in Slots(t), v \in BOOLEAN : t.const_slots[k] = <<s, v>>
    BY <2>1
  <2>3. \A r \in Registers(t) : t.reg_out_slots[r] # s
    BY <2>2
  <2>4. \A j \in DOMAIN t.const_slots : t.const_slots[j][1] = s => j = k
    BY <2>2
  <2>5. (\E j \in DOMAIN t.const_slots : t.const_slots[j] = <<s, TRUE>>) <=> v
    <3>1. CASE v = TRUE
      BY <2>2, <3>1
    <3>2. CASE v = FALSE
      <4>. SUFFICES ASSUME NEW j \in DOMAIN t.const_slots, t.const_slots[j] = <<s, TRUE>>
                    PROVE  FALSE
        BY <3>2
      <4>1. t.const_slots[j][1] = s /\ t.const_slots[j][2] = TRUE
        OBVIOUS
      <4>2. t.const_slots[k][2] = FALSE
        BY <2>2, <3>2
      <4>. QED BY <2>4, <4>1, <4>2
    <3>. QED BY <3>1, <3>2
  <2>6. initial_values(t)[s] <=> v
    BY <2>3, <2>5 DEF initial_values
  <2>7. initial_values(t)[s] \in BOOLEAN
    BY <1>1 DEF Buffers
  <2>. QED BY <2>2, <2>6, <2>7
<1>3. ASSUME NEW i \in InputIds(t)
      PROVE  initial_values(t)[t.input_slots[i]] = FALSE
  <2>1. t.input_slots[i] \in Slots(t)
    BY DEF FieldsTyped
  <2>2. \A r \in Registers(t) : t.reg_out_slots[r] # t.input_slots[i]
    OBVIOUS
  <2>3. ASSUME NEW k \in DOMAIN t.const_slots, t.const_slots[k] = <<t.input_slots[i], TRUE>>
        PROVE  FALSE
    <3>1. t.const_slots[k][1] = t.input_slots[i]
      BY <2>3
    <3>. QED BY <3>1
  <2>. QED BY <2>1, <2>2, <2>3 DEF initial_values
<1>. QED BY <1>1, <1>2, <1>3 DEF ConstsHeld

\* The clock edge writes the register outputs and no other slot.
LEMMA EdgeWrites ==
  ASSUME NEW t, TapeContract(t), NEW values \in Buffers(t),
         NEW scratch \in [Registers(t) -> BOOLEAN]
  PROVE  LET new == apply_edge(t, values, scratch) IN
         /\ new \in Buffers(t)
         /\ \A r \in Registers(t) : new[t.reg_out_slots[r]] = scratch[r]
         /\ \A s \in Slots(t) :
              (\A r \in Registers(t) : t.reg_out_slots[r] # s) => new[s] = values[s]
<1>. DEFINE new == apply_edge(t, values, scratch)
<1>1. new \in Buffers(t)
  BY DEF apply_edge, Buffers
<1>2. ASSUME NEW r \in Registers(t)
      PROVE  new[t.reg_out_slots[r]] = scratch[r]
  <2>. DEFINE s == t.reg_out_slots[r]
              q == CHOOSE q \in Registers(t) : t.reg_out_slots[q] = s
  <2>1. s \in Slots(t)
    BY DEF TapeContract, FieldsTyped
  <2>2. q \in Registers(t) /\ t.reg_out_slots[q] = s
    OBVIOUS
  <2>3. q = r
    BY <2>2 DEF TapeContract, SourcesDisjoint
  <2>4. new[s] = scratch[q]
    BY <2>1 DEF apply_edge
  <2>. QED BY <2>3, <2>4
<1>3. ASSUME NEW s \in Slots(t), \A r \in Registers(t) : t.reg_out_slots[r] # s
      PROVE  new[s] = values[s]
  BY <1>3 DEF apply_edge
<1>. QED BY <1>1, <1>2, <1>3

\* Reading a typed buffer gives typed outputs and registers.
LEMMA ReadsTyped ==
  ASSUME NEW t, TapeContract(t), NEW values \in Buffers(t)
  PROVE  /\ OutputsOf(t, values) \in [OutputIds(t) -> BOOLEAN]
         /\ capture_next(t, values) \in [Registers(t) -> BOOLEAN]
BY DEF OutputsOf, capture_next, TapeContract, FieldsTyped, Buffers

\* Writing to a gate the value its operands call for settles it, and keeps
\* settled every gate of its level or below.
LEMMA WriteSettles ==
  ASSUME NEW t, TapeContract(t), NEW v \in Buffers(t), NEW g \in GateSlots(t)
  PROVE  LET w == [v EXCEPT ![g] = eval_gate(t, v, g)] IN
         /\ w \in Buffers(t)
         /\ \A s \in Slots(t) : s # g => w[s] = v[s]
         /\ \A h \in GateSlots(t) : t.slot_level[h] <= t.slot_level[g] =>
              /\ eval_gate(t, w, h) = eval_gate(t, v, h)
              /\ h = g \/ v[h] = eval_gate(t, v, h) => w[h] = eval_gate(t, w, h)
<1>. DEFINE w == [v EXCEPT ![g] = eval_gate(t, v, g)]
<1>1. g \in Slots(t)
  BY SlotKinds
<1>2. w \in Buffers(t)
  BY EvalType DEF Buffers
<1>3. w[g] = eval_gate(t, v, g) /\ \A s \in Slots(t) : s # g => w[s] = v[s]
  BY <1>1 DEF Buffers
<1>4. ASSUME NEW h \in GateSlots(t), t.slot_level[h] <= t.slot_level[g]
      PROVE  eval_gate(t, w, h) = eval_gate(t, v, h)
  <2>1. \A s \in OperandsOf(t, h) : s \in Slots(t) /\ t.slot_level[s] < t.slot_level[h]
    BY OperandsAreSlots DEF TapeContract, OperandsBelow
  <2>2. h \in Slots(t) /\ \A s \in Slots(t) : t.slot_level[s] \in Nat
    BY SlotKinds DEF TapeContract, FieldsTyped
  <2>3. \A s \in OperandsOf(t, h) : s \in Slots(t) /\ s # g
    BY <1>1, <1>4, <2>1, <2>2
  <2>. QED BY <1>3, <2>3, EvalReadsOperands
<1>5. ASSUME NEW h \in GateSlots(t), t.slot_level[h] <= t.slot_level[g],
             h = g \/ v[h] = eval_gate(t, v, h)
      PROVE  w[h] = eval_gate(t, w, h)
  <2>1. h \in Slots(t) /\ eval_gate(t, w, h) = eval_gate(t, v, h)
    BY <1>4, <1>5, SlotKinds
  <2>. QED BY <1>3, <1>5, <2>1
<1>. QED BY <1>2, <1>3, <1>4, <1>5

\* The gates of a level, and where their operand slots lie, absent operands
\* included: below the first slot of the level.
LEMMA LevelReadsBelow ==
  ASSUME NEW t, TapeContract(t), ScheduleContract(t),
         NEW k \in 1 .. Len(t.levels), NEW g \in LevelSlots(t, k)
  PROVE  /\ g \in GateSlots(t) /\ t.slot_level[g] = k
         /\ {t.a[g], t.b[g], t.c[g]} \subseteq 1 .. t.levels[k].start - 1
<1>. DEFINE first == t.levels[k].start
<1>1. /\ g \in GateSlots(t) /\ t.slot_level[g] = k
      /\ first \in GateSlots(t) /\ t.slot_level[first] = k
  BY DEF ScheduleContract, LevelsExact, LevelSlots
<1>2. \A s \in OperandsOf(t, g) : s \in 1 .. first - 1
  <2>. SUFFICES ASSUME NEW s \in OperandsOf(t, g) PROVE s \in 1 .. first - 1
    OBVIOUS
  <2>1. s \in Slots(t) /\ t.slot_level[s] < k
    BY <1>1, OperandsAreSlots DEF TapeContract, OperandsBelow
  <2>2. first \in Slots(t)
    BY <1>1, SlotKinds
  <2>3. ~(first <= s)
    <3>1. first <= s => t.slot_level[first] <= t.slot_level[s]
      <4>1. first < s => t.slot_level[first] <= t.slot_level[s]
        BY <2>1, <2>2 DEF ScheduleContract, LevelsExact
      <4>2. t.slot_level[first] \in Nat /\ first \in Nat /\ s \in Nat
        BY <2>1, <2>2, <1>1 DEF Slots
      <4>. QED BY <4>1, <4>2
    <3>2. t.slot_level[s] \in Nat
      BY <2>1 DEF TapeContract, FieldsTyped
    <3>. QED BY <1>1, <2>1, <3>1, <3>2
  <2>. QED BY <2>1, <2>2, <2>3 DEF Slots
<1>3. t.a[g] \in 1 .. first - 1
  BY <1>2 DEF OperandsOf
<1>4. 1 \in 1 .. first - 1
  <2>1. first \in Nat
    BY DEF ScheduleContract, LevelsExact
  <2>. QED BY <1>3, <2>1
<1>5. t.b[g] \in 1 .. first - 1
  <2>1. CASE arity(t.ops[g]) > 1
    BY <1>2, <2>1 DEF OperandsOf
  <2>2. CASE arity(t.ops[g]) < 2
    BY <1>1, <1>4, <2>2 DEF ScheduleContract, PaddingFirst
  <2>. QED BY <2>1, <2>2 DEF arity
<1>6. t.c[g] \in 1 .. first - 1
  <2>1. CASE arity(t.ops[g]) > 2
    BY <1>2, <2>1 DEF OperandsOf
  <2>2. CASE arity(t.ops[g]) < 3
    BY <1>1, <1>4, <2>2 DEF ScheduleContract, PaddingFirst
  <2>. QED BY <2>1, <2>2 DEF arity
<1>. QED BY <1>1, <1>3, <1>5, <1>6

\* A non-empty set of naturals has a least member.
LEMMA LeastMember ==
  ASSUME NEW T \in SUBSET Nat, T # {}
  PROVE  \E m \in T : \A n \in T : m <= n
<1>1. \E m \in T : \A n \in T : ~ (<<n, m>> \in OpToRel(<, Nat))
  BY NatLessThanWellFounded, WFMin
<1>2. PICK m \in T : \A n \in T : ~ (<<n, m>> \in OpToRel(<, Nat))
  BY <1>1
<1>3. ASSUME NEW n \in T PROVE m <= n
  <2>1. ~(n < m)
    BY <1>2 DEF OpToRel
  <2>. QED BY <2>1
<1>. QED BY <1>3

\* What holds of the first number of an interval, and of the next whenever
\* it holds of one, holds of all.
LEMMA IntervalInduction ==
  ASSUME NEW lo \in Nat, NEW hi \in Nat, NEW S, lo \in S,
         \A n \in lo .. hi - 1 : n \in S => n + 1 \in S
  PROVE  \A n \in lo .. hi : n \in S
<1>. DEFINE T == {n \in lo .. hi : n \notin S}
<1>. SUFFICES ASSUME T # {} PROVE FALSE
  OBVIOUS
<1>1. T \in SUBSET Nat
  OBVIOUS
<1>2. PICK m \in T : \A n \in T : m <= n
  BY <1>1, LeastMember
<1>3. m # lo /\ m \in lo .. hi
  OBVIOUS
<1>4. m - 1 \in lo .. hi - 1 /\ (m - 1) + 1 = m
  BY <1>3
<1>5. m - 1 \in S
  BY <1>2, <1>4
<1>. QED BY <1>4, <1>5

\* f starts with b, and each step makes of one value the next.
Iterates(f, lo, hi, b, step) ==
  \A n \in lo .. hi : f[n] = IF n = lo THEN b ELSE step[n][f[n - 1]]

\* A function defined by its first value and by what each step makes of the
\* value before exists.
LEMMA Iteration ==
  ASSUME NEW lo \in Nat, NEW hi \in Nat, lo <= hi, NEW B, NEW b \in B,
         NEW step \in [lo .. hi -> [B -> B]]
  PROVE  \E f \in [lo .. hi -> B] : Iterates(f, lo, hi, b, step)
<1>. DEFINE upTo(f, n) == \A k \in lo .. n : f[k] = IF k = lo THEN b ELSE step[k][f[k - 1]]
            S == {n \in lo .. hi : \E f \in [lo .. n -> B] : upTo(f, n)}
<1>1. lo \in S
  <2>1. upTo([k \in lo .. lo |-> b], lo) /\ [k \in lo .. lo |-> b] \in [lo .. lo -> B]
    OBVIOUS
  <2>2. lo \in lo .. hi
    OBVIOUS
  <2>3. \E f \in [lo .. lo -> B] : upTo(f, lo)
    <3>. HIDE DEF upTo
    <3>. QED BY <2>1
  <2>. HIDE DEF upTo
  <2>. QED BY <2>2, <2>3
<1>2. ASSUME NEW n \in lo .. hi - 1, n \in S PROVE n + 1 \in S
  <2>1. PICK f \in [lo .. n -> B] : upTo(f, n)
    BY <1>2
  <2>. DEFINE h == [k \in lo .. n + 1 |-> IF k = n + 1 THEN step[n + 1][f[n]] ELSE f[k]]
  <2>2. n + 1 \in lo .. hi /\ f[n] \in B /\ step[n + 1] \in [B -> B]
    OBVIOUS
  <2>3. h \in [lo .. n + 1 -> B]
    BY <2>2
  <2>4. \A k \in lo .. n : h[k] = f[k]
    OBVIOUS
  <2>5. h[n + 1] = step[n + 1][f[n]] /\ h[(n + 1) - 1] = f[n]
    OBVIOUS
  <2>6. ASSUME NEW k \in lo .. n + 1
        PROVE  h[k] = IF k = lo THEN b ELSE step[k][h[k - 1]]
    <3>1. CASE k = n + 1
      BY <2>5, <3>1
    <3>2. CASE k # n + 1 /\ k # lo
      <4>1. k \in lo .. n /\ k - 1 \in lo .. n
        BY <3>2
      <4>. HIDE DEF h
      <4>. QED BY <2>1, <2>4, <3>2, <4>1
    <3>3. CASE k # n + 1 /\ k = lo
      <4>1. k \in lo .. n
        BY <3>3
      <4>. HIDE DEF h
      <4>. QED BY <2>1, <2>4, <3>3, <4>1
    <3>. QED BY <3>1, <3>2, <3>3
  <2>. HIDE DEF h
  <2>. QED BY <2>2, <2>3, <2>6
<1>3. hi \in S
  <2>. HIDE DEF S
  <2>1. \A n \in lo .. hi : n \in S
    BY <1>1, <1>2, IntervalInduction
  <2>. QED BY <2>1
<1>. QED BY <1>3 DEF Iterates

\* The bounds of a sweep.
LEMMA SweepBounds ==
  ASSUME NEW t, TapeContract(t)
  PROVE  /\ t.gate_start - 1 \in Nat /\ slot_count(t) \in Nat
         /\ t.gate_start \in Nat /\ t.gate_start - 1 <= slot_count(t)
BY DEF TapeContract, FieldsTyped

\* A sweep starts from the buffer as it is, and each gate is evaluated on the
\* buffer that the gate before it has left.
LEMMA SweepRecursion ==
  ASSUME NEW t, TapeContract(t), NEW values \in Buffers(t)
  PROVE  /\ sweep(t, values)[t.gate_start - 1] = values
         /\ \A g \in GateSlots(t) :
              sweep(t, values)[g] =
                [sweep(t, values)[g - 1] EXCEPT ![g] = eval_gate(t, sweep(t, values)[g - 1], g)]
<1>. DEFINE lo == t.gate_start - 1
            hi == slot_count(t)
            B == Buffers(t)
            step == [n \in lo .. hi |-> [v \in B |-> [v EXCEPT ![n] = eval_gate(t, v, n)]]]
            f == sweep(t, values)
<1>1. lo \in Nat /\ hi \in Nat /\ lo <= hi /\ t.gate_start = lo + 1
  BY SweepBounds
<1>2. step \in [lo .. hi -> [B -> B]]
  <2>1. ASSUME NEW n \in lo .. hi, NEW v \in B PROVE [v EXCEPT ![n] = eval_gate(t, v, n)] \in B
    BY EvalType DEF Buffers
  <2>. QED BY <2>1
<1>3. PICK h \in [lo .. hi -> B] : Iterates(h, lo, hi, values, step)
  <2>1. values \in B
    OBVIOUS
  <2>. HIDE DEF step, B, lo, hi
  <2>. QED BY <1>1, <1>2, <2>1, Iteration
<1>. DEFINE body(q) == [n \in lo .. hi |-> IF n < t.gate_start THEN values
                                          ELSE LET v == q[n - 1] IN [v EXCEPT ![n] = eval_gate(t, v, n)]]
<1>4. h = body(h)
  <2>1. ASSUME NEW n \in lo .. hi
        PROVE  h[n] = body(h)[n]
    <3>1. CASE n = lo
      <4>1. n < t.gate_start
        BY <1>1, <3>1
      <4>2. h[n] = values
        BY <1>3, <3>1 DEF Iterates
      <4>. QED BY <4>1, <4>2
    <3>2. CASE n # lo
      <4>1. ~(n < t.gate_start) /\ n - 1 \in lo .. hi
        BY <1>1, <3>2
      <4>2. h[n] = step[n][h[n - 1]]
        BY <1>3, <3>2 DEF Iterates
      <4>3. h[n - 1] \in B
        BY <1>3, <4>1
      <4>. QED BY <4>1, <4>2, <4>3
    <3>. QED BY <3>1, <3>2
  <2>. HIDE DEF lo, hi
  <2>2. DOMAIN h = lo .. hi /\ DOMAIN body(h) = lo .. hi
    BY <1>3
  <2>. QED BY <1>3, <2>1, <2>2
<1>5. f = CHOOSE q : q = body(q)
  BY DEF sweep
<1>6. f = body(f)
  <2>. HIDE DEF body, f
  <2>. QED BY <1>4, <1>5
<1>7. f[lo] = values
  <2>1. lo \in lo .. hi /\ lo < t.gate_start
    BY <1>1
  <2>2. body(f)[lo] = values
    <3>. HIDE DEF f
    <3>. QED BY <2>1
  <2>. QED BY <1>6, <2>2
<1>8. ASSUME NEW g \in GateSlots(t)
      PROVE  f[g] = [f[g - 1] EXCEPT ![g] = eval_gate(t, f[g - 1], g)]
  <2>1. g \in lo .. hi /\ ~(g < t.gate_start)
    BY <1>1 DEF GateSlots
  <2>2. body(f)[g] = [f[g - 1] EXCEPT ![g] = eval_gate(t, f[g - 1], g)]
    <3>. HIDE DEF f
    <3>. QED BY <2>1
  <2>. QED BY <1>6, <2>2
<1>. QED BY <1>7, <1>8

\* After gate g every gate up to g is settled, and no other slot has changed.
SweptTo(t, values, g) ==
  LET v == sweep(t, values)[g] IN
  /\ v \in Buffers(t)
  /\ \A s \in Slots(t) : (s \notin GateSlots(t) \/ s > g) => v[s] = values[s]
  /\ \A h \in GateSlots(t) : h <= g => v[h] = eval_gate(t, v, h)

\* After slot g every gate up to g has the value its operands call for, and the
\* other slots are untouched.
LEMMA SweepSettles ==
  ASSUME NEW t, TapeContract(t), NEW values \in Buffers(t)
  PROVE  \A g \in t.gate_start - 1 .. slot_count(t) : SweptTo(t, values, g)
<1>. DEFINE lo == t.gate_start - 1
            hi == slot_count(t)
            S == {g \in lo .. hi : SweptTo(t, values, g)}
<1>1. lo \in Nat /\ hi \in Nat /\ lo <= hi /\ t.gate_start = lo + 1
  BY SweepBounds
<1>2. \A h \in GateSlots(t) : h \in Slots(t) /\ h \in Nat /\ h > lo /\ h <= hi
  BY <1>1, SlotKinds DEF GateSlots, Slots
<1>3. lo \in S
  <2>1. sweep(t, values)[lo] = values
    BY SweepRecursion
  <2>2. \A h \in GateSlots(t) : ~(h <= lo)
    BY <1>1, <1>2
  <2>. QED BY <1>1, <2>1, <2>2 DEF SweptTo
<1>4. ASSUME NEW n \in lo .. hi - 1, n \in S PROVE n + 1 \in S
  <2>. DEFINE g == n + 1
              v == sweep(t, values)[n]
              w == sweep(t, values)[g]
  <2>1. g \in GateSlots(t) /\ g \in lo .. hi /\ g - 1 = n /\ n \in Nat /\ g \in Slots(t)
    BY <1>1, <1>2 DEF GateSlots
  <2>2. /\ v \in Buffers(t)
        /\ \A s \in Slots(t) : (s \notin GateSlots(t) \/ s > n) => v[s] = values[s]
        /\ \A h \in GateSlots(t) : h <= n => v[h] = eval_gate(t, v, h)
    BY <1>4 DEF SweptTo
  <2>3. w = [v EXCEPT ![g] = eval_gate(t, v, g)]
    BY <2>1, SweepRecursion
  <2>4. /\ w \in Buffers(t) /\ w[g] = eval_gate(t, v, g)
        /\ \A s \in Slots(t) : s # g => w[s] = v[s]
    BY <2>1, <2>2, <2>3, EvalType DEF Buffers
  <2>. HIDE DEF g, v, w
  <2>5. ASSUME NEW s \in Slots(t), s \notin GateSlots(t) \/ s > g PROVE w[s] = values[s]
    <3>1. s # g /\ (s \notin GateSlots(t) \/ s > n)
      BY <2>1, <2>5 DEF g, Slots
    <3>. QED BY <2>2, <2>4, <3>1
  <2>6. ASSUME NEW h \in GateSlots(t), h <= g PROVE w[h] = eval_gate(t, w, h)
    <3>1. \A s \in OperandsOf(t, h) : s \in Slots(t) /\ s < h
      BY OperandsAreSlots DEF TapeContract, OperandsBelow
    <3>2. \A s \in OperandsOf(t, h) : s \in Slots(t) /\ s # g
      BY <1>2, <2>1, <2>6, <3>1 DEF Slots
    <3>3. eval_gate(t, w, h) = eval_gate(t, v, h)
      BY <2>4, <3>2, EvalReadsOperands
    <3>4. CASE h = g
      BY <2>4, <3>3, <3>4
    <3>5. CASE h # g
      <4>1. h <= n
        BY <1>2, <2>1, <2>6, <3>5 DEF g
      <4>. QED BY <1>2, <2>2, <2>4, <3>3, <3>5, <4>1
    <3>. QED BY <3>4, <3>5
  <2>7. SweptTo(t, values, g)
    BY <2>4, <2>5, <2>6 DEF SweptTo, w
  <2>. QED BY <2>1, <2>7 DEF g
<1>5. \A n \in lo .. hi : n \in S
  <2>. HIDE DEF S, lo, hi
  <2>. QED BY <1>1, <1>3, <1>4, IntervalInduction
<1>. QED BY <1>5

\* Settling a buffer gives one in which every gate has the value its operands
\* call for, and leaves the sources alone.
THEOREM SettleSettles ==
  ASSUME NEW t, TapeContract(t), NEW values \in Buffers(t)
  PROVE  /\ settle(t, values) \in Buffers(t)
         /\ Settled(t, settle(t, values))
         /\ \A s \in Slots(t) \ GateSlots(t) : settle(t, values)[s] = values[s]
<1>1. slot_count(t) \in t.gate_start - 1 .. slot_count(t)
  BY SweepBounds
<1>2. SweptTo(t, values, slot_count(t))
  BY <1>1, SweepSettles
<1>3. \A h \in GateSlots(t) : h <= slot_count(t)
  BY SweepBounds DEF GateSlots
<1>. QED BY <1>2, <1>3 DEF SweptTo, settle, Settled

\* "Bit-for-bit identical": the sources determine the settled buffer. Two
\* engines that have settled on the same inputs, constants and registers, in
\* whatever order they evaluated the gates, agree on every slot.
THEOREM SettledUnique ==
  ASSUME NEW t, TapeContract(t), NEW v \in Buffers(t), NEW w \in Buffers(t),
         Settled(t, v), Settled(t, w), \A s \in Sources(t) : v[s] = w[s]
  PROVE  v = w
<1>. DEFINE hi == slot_count(t)
            S == {n \in 0 .. hi : \A s \in 1 .. n : v[s] = w[s]}
<1>1. hi \in Nat
  BY SweepBounds
<1>2. 0 \in S
  BY <1>1
<1>3. ASSUME NEW n \in 0 .. hi - 1, n \in S PROVE n + 1 \in S
  <2>1. \A s \in 1 .. n : v[s] = w[s]
    BY <1>3
  <2>2. n + 1 \in Slots(t) /\ n + 1 \in 0 .. hi /\ n \in Nat
    BY <1>1 DEF Slots
  <2>3. CASE n + 1 \in Sources(t)
    BY <2>1, <2>2, <2>3
  <2>4. CASE n + 1 \in GateSlots(t)
    <3>1. \A s \in OperandsOf(t, n + 1) : s \in Slots(t) /\ s < n + 1
      BY <2>4, OperandsAreSlots DEF TapeContract, OperandsBelow
    <3>2. \A s \in OperandsOf(t, n + 1) : v[s] = w[s]
      BY <2>1, <2>2, <3>1 DEF Slots
    <3>3. v[n + 1] = w[n + 1]
      BY <2>4, <3>2, EvalReadsOperands DEF Settled
    <3>. QED BY <2>1, <2>2, <3>3
  <2>. QED BY <2>2, <2>3, <2>4 DEF Sources
<1>4. hi \in S
  <2>. HIDE DEF S, hi
  <2>1. \A n \in 0 .. hi : n \in S
    BY <1>1, <1>2, <1>3, IntervalInduction
  <2>. QED BY <1>1, <2>1
<1>5. \A s \in Slots(t) : v[s] = w[s]
  BY <1>4 DEF Slots
<1>. QED BY <1>5 DEF Buffers
-----------------------------------------------------------------------------
(* Sequences built one element at a time, and sets in order.               *)

\* f[k] is the sequence of the first k elements, and each of them is made from
\* the sequence before it.
Appends(f, n, next) ==
  /\ f[0] = <<>>
  /\ \A k \in 1 .. n : f[k] = Append(f[k - 1], next[k][f[k - 1]])

\* A sequence whose elements are made one from those before it exists.
LEMMA Appending ==
  ASSUME NEW n \in Nat, NEW V, NEW next \in [1 .. n -> [Seq(V) -> V]]
  PROVE  \E f \in [0 .. n -> Seq(V)] : Appends(f, n, next)
<1>. DEFINE step == [k \in 0 .. n |-> [q \in Seq(V) |->
                       IF k = 0 THEN q ELSE Append(q, next[k][q])]]
<1>1. step \in [0 .. n -> [Seq(V) -> Seq(V)]]
  <2>1. ASSUME NEW k \in 0 .. n, NEW q \in Seq(V), k # 0 PROVE Append(q, next[k][q]) \in Seq(V)
    <3>1. next[k][q] \in V
      BY <2>1
    <3>. QED BY <3>1
  <2>. QED BY <2>1
<1>2. PICK f \in [0 .. n -> Seq(V)] : Iterates(f, 0, n, <<>>, step)
  <2>1. 0 \in Nat /\ 0 <= n /\ <<>> \in Seq(V)
    OBVIOUS
  <2>. HIDE DEF step
  <2>. QED BY <1>1, <2>1, Iteration
<1>3. f[0] = <<>>
  BY <1>2, 0 \in 0 .. n DEF Iterates
<1>4. ASSUME NEW k \in 1 .. n PROVE f[k] = Append(f[k - 1], next[k][f[k - 1]])
  <2>1. k \in 0 .. n /\ k # 0 /\ k - 1 \in 0 .. n
    OBVIOUS
  <2>2. f[k] = step[k][f[k - 1]]
    BY <1>2, <2>1 DEF Iterates
  <2>3. f[k - 1] \in Seq(V)
    BY <2>1
  <2>. QED BY <2>1, <2>2, <2>3
<1>. QED BY <1>3, <1>4 DEF Appends

\* Each of these sequences is the beginning of the last one.
Begins(f, n, V, next) ==
  /\ f[n] \in [1 .. n -> V] /\ Len(f[n]) = n
  /\ \A k \in 0 .. n : f[k] \in Seq(V) /\ Len(f[k]) = k /\ \A j \in 1 .. k : f[k][j] = f[n][j]
  /\ \A k \in 1 .. n : f[n][k] = next[k][f[k - 1]]

\* An appending function gives the beginnings of one sequence.
LEMMA Appended ==
  ASSUME NEW n \in Nat, NEW V, NEW next, NEW f \in [0 .. n -> Seq(V)], Appends(f, n, next)
  PROVE  Begins(f, n, V, next)
<1>. DEFINE S == {k \in 0 .. n : Len(f[k]) = k}
<1>1. \A k \in 0 .. n : Len(f[k]) = k
  <2>1. 0 \in S
    BY DEF Appends
  <2>2. ASSUME NEW k \in 0 .. n - 1, k \in S PROVE k + 1 \in S
    <3>1. k \in 0 .. n /\ k + 1 \in 1 .. n /\ (k + 1) - 1 = k /\ k + 1 \in 0 .. n
      OBVIOUS
    <3>2. f[k + 1] = Append(f[k], next[k + 1][f[k]])
      BY <3>1 DEF Appends
    <3>3. Len(f[k]) = k /\ f[k] \in Seq(V)
      BY <2>2, <3>1
    <3>4. Len(f[k + 1]) = k + 1
      BY <3>2, <3>3
    <3>. QED BY <3>1, <3>4
  <2>3. \A k \in 0 .. n : k \in S
    <3>1. 0 \in Nat
      OBVIOUS
    <3>. HIDE DEF S
    <3>. QED BY <2>1, <2>2, <3>1, IntervalInduction
  <2>. QED BY <2>3
<1>2. ASSUME NEW k \in 1 .. n
      PROVE  f[k][k] = next[k][f[k - 1]] /\ \A j \in 1 .. k - 1 : f[k][j] = f[k - 1][j]
  <2>1. k \in 0 .. n /\ k - 1 \in 0 .. n /\ k \in Nat
    OBVIOUS
  <2>2. f[k - 1] \in Seq(V) /\ Len(f[k - 1]) = k - 1
    BY <1>1, <2>1
  <2>3. f[k] = Append(f[k - 1], next[k][f[k - 1]])
    BY DEF Appends
  <2>. QED BY <2>1, <2>2, <2>3
<1>. DEFINE T(k) == {m \in k .. n : \A j \in 1 .. k : f[m][j] = f[k][j]}
<1>3. ASSUME NEW k \in 0 .. n PROVE n \in T(k)
  <2>1. k \in T(k)
    OBVIOUS
  <2>2. ASSUME NEW m \in k .. n - 1, m \in T(k) PROVE m + 1 \in T(k)
    <3>1. m + 1 \in 1 .. n /\ (m + 1) - 1 = m /\ m + 1 \in k .. n /\ m \in Nat
      OBVIOUS
    <3>2. \A j \in 1 .. m : f[m + 1][j] = f[m][j]
      BY <1>2, <3>1
    <3>3. \A j \in 1 .. k : j \in 1 .. m
      OBVIOUS
    <3>. QED BY <2>2, <3>1, <3>2, <3>3
  <2>3. \A m \in k .. n : m \in T(k)
    <3>1. k \in Nat
      OBVIOUS
    <3>. HIDE DEF T
    <3>. QED BY <2>1, <2>2, <3>1, IntervalInduction
  <2>4. n \in k .. n
    OBVIOUS
  <2>. QED BY <2>3, <2>4
<1>4. \A k \in 0 .. n : \A j \in 1 .. k : f[k][j] = f[n][j]
  BY <1>3
<1>5. ASSUME NEW k \in 1 .. n PROVE f[n][k] = next[k][f[k - 1]]
  BY <1>2, <1>4
<1>6. n \in 0 .. n /\ f[n] \in Seq(V) /\ Len(f[n]) = n
  BY <1>1
<1>7. f[n] \in [1 .. n -> V]
  BY <1>6
<1>. QED BY <1>1, <1>4, <1>5, <1>6, <1>7 DEF Begins

\* Two functions on an interval are one if they start alike and go on alike.
LEMMA SameSteps ==
  ASSUME NEW n \in Nat, NEW f, NEW h, DOMAIN f = 0 .. n, DOMAIN h = 0 .. n,
         f = [k \in 0 .. n |-> f[k]], h = [k \in 0 .. n |-> h[k]], f[0] = h[0],
         \A k \in 1 .. n : f[k - 1] = h[k - 1] => f[k] = h[k]
  PROVE  f = h
<1>. DEFINE S == {k \in 0 .. n : f[k] = h[k]}
<1>1. 0 \in S
  OBVIOUS
<1>2. ASSUME NEW k \in 0 .. n - 1, k \in S PROVE k + 1 \in S
  <2>1. k + 1 \in 1 .. n /\ (k + 1) - 1 = k /\ k + 1 \in 0 .. n
    OBVIOUS
  <2>. QED BY <1>2, <2>1
<1>3. \A k \in 0 .. n : k \in S
  <2>1. 0 \in Nat
    OBVIOUS
  <2>. HIDE DEF S
  <2>. QED BY <1>1, <1>2, <2>1, IntervalInduction
<1>4. \A k \in 0 .. n : f[k] = h[k]
  BY <1>3
<1>. QED BY <1>4

\* Each member of S has a place of its own, and no place is empty.
Numbered(S, place) ==
  /\ Cardinality(S) \in Nat
  /\ place \in [S -> 1 .. Cardinality(S)]
  /\ \A x, y \in S : place[x] = place[y] => x = y
  /\ \A k \in 1 .. Cardinality(S) : \E x \in S : place[x] = k

\* In a total order each member of a finite set has the place that the number
\* of members up to it says.
LEMMA Ranking ==
  ASSUME NEW S, IsFiniteSet(S), NEW down \in [S -> SUBSET S],
         \A x \in S : x \in down[x],
         \A x, y \in S : x \in down[y] => down[x] \subseteq down[y],
         \A x, y \in S : x \in down[y] \/ y \in down[x],
         \A x, y \in S : x \in down[y] /\ y \in down[x] => x = y,
         NEW place, place = [x \in S |-> Cardinality(down[x])]
  PROVE  /\ Numbered(S, place)
         /\ \A x, y \in S : place[x] <= place[y] <=> x \in down[y]
<1>. DEFINE n == Cardinality(S)
<1>1. n \in Nat
  BY FS_CardinalityType
<1>2. ASSUME NEW x \in S
      PROVE  IsFiniteSet(down[x]) /\ place[x] = Cardinality(down[x]) /\ place[x] \in 1 .. n
  <2>1. down[x] \in SUBSET S /\ down[x] # {}
    OBVIOUS
  <2>2. IsFiniteSet(down[x]) /\ Cardinality(down[x]) <= n
    BY <2>1, FS_Subset
  <2>3. Cardinality(down[x]) \in Nat /\ Cardinality(down[x]) # 0
    BY <2>1, <2>2, FS_CardinalityType, FS_EmptySet
  <2>. QED BY <1>1, <2>2, <2>3
<1>3. ASSUME NEW x \in S, NEW y \in S, x \in down[y] PROVE place[x] <= place[y]
  <2>1. down[x] \in SUBSET down[y]
    BY <1>3
  <2>2. Cardinality(down[x]) <= Cardinality(down[y])
    BY <1>2, <2>1, FS_Subset
  <2>. QED BY <1>2, <2>2
<1>4. ASSUME NEW x \in S, NEW y \in S, x \in down[y], place[x] = place[y] PROVE x = y
  <2>1. down[x] \in SUBSET down[y]
    BY <1>4
  <2>2. Cardinality(down[y]) = Cardinality(down[x])
    BY <1>2, <1>4
  <2>3. down[y] = down[x]
    BY <1>2, <2>1, <2>2, FS_Subset
  <2>. QED BY <1>4, <2>3
<1>5. ASSUME NEW x \in S, NEW y \in S, place[x] = place[y] PROVE x = y
  BY <1>4, <1>5
<1>6. ASSUME NEW x \in S, NEW y \in S, place[x] <= place[y] PROVE x \in down[y]
  <2>1. CASE y \in down[x]
    <3>1. place[y] <= place[x]
      BY <1>3, <2>1
    <3>2. place[x] = place[y]
      BY <1>2, <1>6, <3>1
    <3>. QED BY <1>5, <3>2
  <2>. QED BY <2>1
<1>7. place \in [S -> 1 .. n]
  BY <1>2
<1>8. place \in Injection(S, 1 .. n)
  BY <1>5, <1>7 DEF Injection, IsInjective
<1>9. IsFiniteSet(1 .. n) /\ Cardinality(1 .. n) = n
  BY <1>1, FS_Interval
<1>10. place \in Surjection(S, 1 .. n)
  BY <1>8, <1>9, FS_Injection
<1>11. \A k \in 1 .. n : \E x \in S : place[x] = k
  BY <1>10 DEF Surjection
<1>. QED BY <1>1, <1>3, <1>5, <1>6, <1>7, <1>11 DEF Numbered

\* Ordered gives the members of the set at their places.
LEMMA OrderedPlaces ==
  ASSUME NEW S, NEW place, Numbered(S, place)
  PROVE  /\ Ordered(S, place) \in [1 .. Cardinality(S) -> S]
         /\ Len(Ordered(S, place)) = Cardinality(S)
         /\ \A k \in 1 .. Cardinality(S) : place[Ordered(S, place)[k]] = k
         /\ \A x \in S : Ordered(S, place)[place[x]] = x
<1>. DEFINE n == Cardinality(S)
            at(k) == CHOOSE x \in S : place[x] = k
            next == [k \in 1 .. n |-> [q \in Seq(S) |-> at(k)]]
            body(q) == [k \in 0 .. n |-> IF k = 0 THEN <<>> ELSE Append(q[k - 1], at(k))]
            upTo == CHOOSE q : q = body(q)
<1>1. n \in Nat
  BY DEF Numbered
<1>2. \A k \in 1 .. n : at(k) \in S /\ place[at(k)] = k
  BY DEF Numbered
<1>3. next \in [1 .. n -> [Seq(S) -> S]]
  BY <1>2
<1>4. PICK f \in [0 .. n -> Seq(S)] : Appends(f, n, next)
  <2>. HIDE DEF next, n
  <2>. QED BY <1>1, <1>3, Appending
<1>5. f = body(f)
  <2>1. ASSUME NEW k \in 0 .. n PROVE f[k] = body(f)[k]
    <3>1. CASE k = 0
      BY <1>4, <3>1 DEF Appends
    <3>2. CASE k # 0
      <4>1. k \in 1 .. n /\ k - 1 \in 0 .. n
        BY <1>1, <3>2
      <4>2. f[k] = Append(f[k - 1], next[k][f[k - 1]]) /\ f[k - 1] \in Seq(S)
        BY <1>4, <4>1 DEF Appends
      <4>3. next[k][f[k - 1]] = at(k)
        BY <4>1, <4>2
      <4>. HIDE DEF at, next
      <4>. QED BY <3>2, <4>2, <4>3
    <3>. QED BY <3>1, <3>2
  <2>2. DOMAIN f = 0 .. n /\ DOMAIN body(f) = 0 .. n
    OBVIOUS
  <2>. HIDE DEF at, n
  <2>. QED BY <2>1, <2>2
<1>6. upTo = body(upTo)
  <2>. HIDE DEF body
  <2>. QED BY <1>5
<1>7. Ordered(S, place) = upTo[n]
  BY DEF Ordered
<1>8. upTo = f
  <2>1. ASSUME NEW k \in 1 .. n, upTo[k - 1] = f[k - 1] PROVE upTo[k] = f[k]
    <3>1. k \in 0 .. n /\ k # 0
      BY <1>1
    <3>2. body(upTo)[k] = Append(upTo[k - 1], at(k)) /\ body(f)[k] = Append(f[k - 1], at(k))
      <4>. HIDE DEF at, upTo
      <4>. QED BY <3>1
    <3>. QED BY <1>5, <1>6, <2>1, <3>2
  <2>2. 0 \in 0 .. n
    BY <1>1
  <2>3. body(upTo)[0] = <<>> /\ body(f)[0] = <<>>
    <3>. HIDE DEF upTo
    <3>. QED BY <2>2
  <2>4. DOMAIN body(upTo) = 0 .. n /\ body(upTo) = [k \in 0 .. n |-> body(upTo)[k]]
    <3>. HIDE DEF upTo
    <3>. QED OBVIOUS
  <2>. HIDE DEF body, upTo, n
  <2>. QED BY <1>1, <1>4, <1>5, <1>6, <2>1, <2>3, <2>4, SameSteps
<1>9. /\ f[n] \in [1 .. n -> S] /\ Len(f[n]) = n
      /\ \A k \in 1 .. n : f[n][k] = next[k][f[k - 1]] /\ f[k - 1] \in Seq(S)
  <2>1. \A k \in 1 .. n : k - 1 \in 0 .. n
    BY <1>1
  <2>. HIDE DEF next, n
  <2>2. \A k \in 1 .. n : f[k - 1] \in Seq(S)
    BY <2>1
  <2>3. Appends(f, n, next)
    BY <1>4
  <2>4. Begins(f, n, S, next)
    BY <1>1, <2>3, Appended
  <2>. QED BY <2>2, <2>4 DEF Begins
<1>10. \A k \in 1 .. n : f[n][k] = at(k)
  BY <1>9
<1>11. ASSUME NEW x \in S PROVE f[n][place[x]] = x
  <2>1. place[x] \in 1 .. n
    BY DEF Numbered
  <2>2. place[at(place[x])] = place[x] /\ at(place[x]) \in S
    BY <1>2, <2>1
  <2>3. at(place[x]) = x
    <3>. HIDE DEF at
    <3>. QED BY <2>2 DEF Numbered
  <2>. QED BY <1>10, <2>1, <2>3
<1>. HIDE DEF at, upTo
<1>. QED BY <1>2, <1>7, <1>8, <1>9, <1>10, <1>11

\* The numbers of a finite set in ascending order, each at its rank.
Ascends(S) ==
  /\ Numbered(S, Rank(S))
  /\ \A x, y \in S : x < y <=> Rank(S)[x] < Rank(S)[y]
  /\ Ascending(S) \in [1 .. Cardinality(S) -> S] /\ Len(Ascending(S)) = Cardinality(S)
  /\ \A k \in 1 .. Cardinality(S) : Rank(S)[Ascending(S)[k]] = k
  /\ \A x \in S : Ascending(S)[Rank(S)[x]] = x

\* Ranks order a finite set of numbers, and Ascending lists it in that order.
LEMMA AscendingOrder ==
  ASSUME NEW S \in SUBSET Nat, IsFiniteSet(S)
  PROVE  Ascends(S)
<1>. DEFINE down == [x \in S |-> {y \in S : y <= x}]
            place == [x \in S |-> Cardinality(down[x])]
<1>1. down \in [S -> SUBSET S]
  OBVIOUS
<1>2. \A x, y \in S : x \in down[y] <=> x <= y
  OBVIOUS
<1>3. \A x \in S : x \in down[x]
  BY <1>2
<1>4. \A x, y \in S : x \in down[y] => down[x] \subseteq down[y]
  <2>1. ASSUME NEW x \in S, NEW y \in S, x \in down[y], NEW z \in down[x] PROVE z \in down[y]
    <3>1. z \in S /\ z <= x /\ x <= y
      BY <2>1
    <3>. QED BY <3>1
  <2>. HIDE DEF down
  <2>. QED BY <2>1
<1>5. \A x, y \in S : x \in down[y] \/ y \in down[x]
  BY <1>2
<1>6. \A x, y \in S : x \in down[y] /\ y \in down[x] => x = y
  BY <1>2
<1>7. /\ Numbered(S, place)
      /\ \A x, y \in S : place[x] <= place[y] <=> x \in down[y]
  <2>. HIDE DEF down
  <2>. QED BY <1>1, <1>3, <1>4, <1>5, <1>6, Ranking
<1>8. Rank(S) = place
  BY DEF Rank
<1>. HIDE DEF down, place
<1>9. \A x \in S : place[x] \in Nat
  BY <1>7 DEF Numbered
<1>10. \A x, y \in S : x < y <=> place[x] < place[y]
  BY <1>2, <1>7, <1>9
<1>11. /\ Ordered(S, place) \in [1 .. Cardinality(S) -> S]
       /\ Len(Ordered(S, place)) = Cardinality(S)
       /\ \A k \in 1 .. Cardinality(S) : place[Ordered(S, place)[k]] = k
       /\ \A x \in S : Ordered(S, place)[place[x]] = x
  BY <1>7, OrderedPlaces
<1>. QED BY <1>7, <1>8, <1>10, <1>11 DEF Ascends, Ascending

\* A set of all numbers from 1 ranks each at itself.
LEMMA RankWhole ==
  ASSUME NEW n \in Nat
  PROVE  /\ Cardinality(1 .. n) = n
         /\ \A x \in 1 .. n : Rank(1 .. n)[x] = x /\ Ascending(1 .. n)[x] = x
<1>1. IsFiniteSet(1 .. n) /\ Cardinality(1 .. n) = n
  BY FS_Interval
<1>2. ASSUME NEW x \in 1 .. n PROVE Rank(1 .. n)[x] = x
  <2>1. {y \in 1 .. n : y <= x} = 1 .. x
    OBVIOUS
  <2>2. Cardinality(1 .. x) = x
    BY FS_Interval
  <2>3. Rank(1 .. n)[x] = Cardinality({y \in 1 .. n : y <= x})
    BY DEF Rank
  <2>. QED BY <2>1, <2>2, <2>3
<1>3. Ascends(1 .. n)
  <2>1. 1 .. n \in SUBSET Nat
    OBVIOUS
  <2>. QED BY <1>1, <2>1, AscendingOrder
<1>4. ASSUME NEW x \in 1 .. n PROVE Ascending(1 .. n)[x] = x
  BY <1>2, <1>3 DEF Ascends
<1>. QED BY <1>1, <1>2, <1>4

-----------------------------------------------------------------------------
(* Flattened sequences.                                                    *)

\* f[k] is the first k of the sequences put one after another.
Joins(f, n, V, seqs) ==
  /\ f \in [0 .. n -> Seq(V)] /\ f[0] = <<>>
  /\ \A k \in 1 .. n : f[k] = f[k - 1] \o seqs[k]

\* The sequences can be put one after another.
LEMMA Joining ==
  ASSUME NEW n \in Nat, NEW V, NEW seqs \in [1 .. n -> Seq(V)]
  PROVE  \E f : Joins(f, n, V, seqs)
<1>. DEFINE step == [k \in 0 .. n |-> [q \in Seq(V) |-> IF k = 0 THEN q ELSE q \o seqs[k]]]
<1>1. step \in [0 .. n -> [Seq(V) -> Seq(V)]]
  <2>1. ASSUME NEW k \in 0 .. n, NEW q \in Seq(V), k # 0 PROVE q \o seqs[k] \in Seq(V)
    <3>1. seqs[k] \in Seq(V)
      BY <2>1
    <3>. QED BY <3>1
  <2>. QED BY <2>1
<1>2. PICK f \in [0 .. n -> Seq(V)] : Iterates(f, 0, n, <<>>, step)
  <2>1. 0 \in Nat /\ 0 <= n /\ <<>> \in Seq(V)
    OBVIOUS
  <2>. HIDE DEF step
  <2>. QED BY <1>1, <2>1, Iteration
<1>3. f[0] = <<>>
  BY <1>2, 0 \in 0 .. n DEF Iterates
<1>4. ASSUME NEW k \in 1 .. n PROVE f[k] = f[k - 1] \o seqs[k]
  <2>1. k \in 0 .. n /\ k # 0 /\ k - 1 \in 0 .. n
    OBVIOUS
  <2>2. f[k] = step[k][f[k - 1]]
    BY <1>2, <2>1 DEF Iterates
  <2>3. f[k - 1] \in Seq(V)
    BY <2>1
  <2>. QED BY <2>1, <2>2, <2>3
<1>. QED BY <1>3, <1>4 DEF Joins

\* What is flattened is that.
LEMMA Flattening ==
  ASSUME NEW n \in Nat, NEW V, NEW seqs \in [1 .. n -> Seq(V)], Len(seqs) = n, NEW f, Joins(f, n, V, seqs)
  PROVE  FlattenSeq(seqs) = f[n]
<1>1. CASE n = 0
  <2>1. FlattenSeq(seqs) = seqs
    BY <1>1 DEF FlattenSeq
  <2>2. seqs = <<>>
    BY <1>1
  <2>. QED BY <1>1, <2>1, <2>2 DEF Joins
<1>2. CASE n # 0
  <2>. DEFINE h == [k \in 1 .. n |-> f[k]]
              body(q) == [i \in 1 .. n |-> IF i = 1 THEN seqs[i] ELSE q[i - 1] \o seqs[i]]
              flatten == CHOOSE q : q = body(q)
  <2>1. FlattenSeq(seqs) = flatten[n]
    BY <1>2 DEF FlattenSeq
  <2>2. \A k \in 1 .. n : f[k] = f[k - 1] \o seqs[k]
    BY DEF Joins
  <2>3. h = body(h)
    <3>1. ASSUME NEW k \in 1 .. n PROVE h[k] = body(h)[k]
      <4>1. CASE k = 1
        <5>1. seqs[1] \in Seq(V) /\ f[0] = <<>> /\ f[1] = f[0] \o seqs[1]
          <6>1. 1 - 1 = 0
            OBVIOUS
          <6>. QED BY <2>2, <4>1, <6>1 DEF Joins
        <5>2. f[1] = seqs[1]
          BY <5>1
        <5>. QED BY <4>1, <5>2
      <4>2. CASE k # 1
        <5>1. k - 1 \in 1 .. n
          BY <4>2
        <5>. QED BY <2>2, <4>2, <5>1
      <4>. QED BY <4>1, <4>2
    <3>2. h = [k \in 1 .. n |-> h[k]] /\ body(h) = [k \in 1 .. n |-> body(h)[k]]
      OBVIOUS
    <3>. HIDE DEF h, body
    <3>. QED BY <3>1, <3>2
  <2>4. flatten = body(flatten)
    <3>. HIDE DEF body, h
    <3>. QED BY <2>3
  <2>. DEFINE S == {k \in 1 .. n : flatten[k] = f[k]}
  <2>5. 1 \in S
    <3>1. 1 \in 1 .. n
      BY <1>2
    <3>2. body(flatten)[1] = seqs[1] /\ body(h)[1] = seqs[1] /\ h[1] = f[1]
      <4>. HIDE DEF flatten
      <4>. QED BY <3>1
    <3>. HIDE DEF flatten, body, h
    <3>. QED BY <2>3, <2>4, <3>1, <3>2
  <2>6. ASSUME NEW k \in 1 .. n - 1, k \in S PROVE k + 1 \in S
    <3>1. k + 1 \in 1 .. n /\ k + 1 # 1 /\ (k + 1) - 1 = k /\ k \in 1 .. n
      OBVIOUS
    <3>2. body(flatten)[k + 1] = flatten[k] \o seqs[k + 1]
      <4>. HIDE DEF flatten
      <4>. QED BY <3>1
    <3>3. f[k + 1] = f[k] \o seqs[k + 1]
      BY <2>2, <3>1
    <3>4. flatten[k + 1] = flatten[k] \o seqs[k + 1]
      <4>. HIDE DEF flatten, body
      <4>. QED BY <2>4, <3>2
    <3>5. flatten[k] = f[k]
      BY <2>6
    <3>. HIDE DEF flatten
    <3>. QED BY <3>1, <3>3, <3>4, <3>5
  <2>7. \A k \in 1 .. n : k \in S
    <3>. HIDE DEF S
    <3>. QED BY <2>5, <2>6, IntervalInduction
  <2>8. n \in S
    <3>. HIDE DEF S
    <3>. QED BY <1>2, <2>7
  <2>. QED BY <2>1, <2>8
<1>. QED BY <1>1, <1>2

\* The first k of the sequences, flattened, are the beginning of all of them.
InPlace(f, n, seqs) ==
  /\ \A k \in 0 .. n : Len(f[k]) \in Nat /\ FlattenSeq(SubSeq(seqs, 1, k)) = f[k]
  /\ FlattenSeq(seqs) = f[n]
  /\ \A k \in 1 .. n : Len(f[k]) = Len(f[k - 1]) + Len(seqs[k])
                       /\ \A j \in 1 .. Len(seqs[k]) : f[k][Len(f[k - 1]) + j] = seqs[k][j]
  /\ \A k \in 0 .. n : Len(f[k]) <= Len(f[n]) /\ \A i \in 1 .. Len(f[k]) : f[n][i] = f[k][i]

\* So they are.
LEMMA JoinedParts ==
  ASSUME NEW n \in Nat, NEW V, NEW seqs \in [1 .. n -> Seq(V)], NEW f, Joins(f, n, V, seqs)
  PROVE  InPlace(f, n, seqs)
<1>1. f \in [0 .. n -> Seq(V)] /\ f[0] = <<>> /\ \A k \in 1 .. n : f[k] = f[k - 1] \o seqs[k]
  BY DEF Joins
<1>2. \A k \in 0 .. n : Len(f[k]) \in Nat
  BY <1>1
<1>3. ASSUME NEW k \in 0 .. n PROVE FlattenSeq(SubSeq(seqs, 1, k)) = f[k]
  <2>. DEFINE part == [i \in 1 .. k |-> seqs[i]]
              g == [i \in 0 .. k |-> f[i]]
  <2>1. SubSeq(seqs, 1, k) = part
    <3>1. seqs \in Seq(Seq(V)) /\ Len(seqs) = n /\ k \in Nat /\ k <= n
      OBVIOUS
    <3>2. Len(SubSeq(seqs, 1, k)) = k /\ \A i \in 1 .. k : SubSeq(seqs, 1, k)[i] = seqs[i]
      BY <3>1
    <3>3. SubSeq(seqs, 1, k) \in Seq(Seq(V)) /\ part \in Seq(Seq(V)) /\ Len(part) = k
      BY <3>1
    <3>. QED BY <3>2, <3>3
  <2>2. part \in [1 .. k -> Seq(V)] /\ Len(part) = k /\ k \in Nat
    OBVIOUS
  <2>3. Joins(g, k, V, part)
    <3>1. ASSUME NEW i \in 1 .. k PROVE g[i] = g[i - 1] \o part[i]
      <4>1. i \in 1 .. n /\ i - 1 \in 0 .. k /\ i \in 0 .. k
        OBVIOUS
      <4>. QED BY <1>1, <4>1
    <3>2. g \in [0 .. k -> Seq(V)] /\ g[0] = <<>>
      BY <1>1
    <3>. HIDE DEF g, part
    <3>. QED BY <3>1, <3>2 DEF Joins
  <2>4. g[k] = f[k]
    OBVIOUS
  <2>. HIDE DEF g, part
  <2>5. FlattenSeq(part) = g[k]
    BY <2>2, <2>3, Flattening
  <2>. QED BY <2>1, <2>4, <2>5
<1>4. FlattenSeq(seqs) = f[n]
  <2>1. Len(seqs) = n
    OBVIOUS
  <2>. QED BY <2>1, Flattening
<1>5. ASSUME NEW k \in 1 .. n
      PROVE  /\ Len(f[k]) = Len(f[k - 1]) + Len(seqs[k])
             /\ \A j \in 1 .. Len(seqs[k]) : f[k][Len(f[k - 1]) + j] = seqs[k][j]
             /\ \A j \in 1 .. Len(f[k - 1]) : f[k][j] = f[k - 1][j]
  <2>1. k - 1 \in 0 .. n
    OBVIOUS
  <2>2. f[k] = f[k - 1] \o seqs[k] /\ f[k - 1] \in Seq(V) /\ seqs[k] \in Seq(V)
    BY <1>1, <2>1
  <2>. QED BY <2>2
<1>6. ASSUME NEW k \in 0 .. n PROVE Len(f[k]) <= Len(f[n]) /\ \A i \in 1 .. Len(f[k]) : f[n][i] = f[k][i]
  <2>. DEFINE S == {m \in k .. n : Len(f[k]) <= Len(f[m]) /\ \A i \in 1 .. Len(f[k]) : f[m][i] = f[k][i]}
  <2>1. k \in S
    BY <1>2
  <2>2. ASSUME NEW m \in k .. n - 1, m \in S PROVE m + 1 \in S
    <3>1. m + 1 \in 1 .. n /\ (m + 1) - 1 = m /\ m + 1 \in k .. n /\ m \in 0 .. n /\ m + 1 \in 0 .. n
      OBVIOUS
    <3>2. Len(f[m + 1]) = Len(f[m]) + Len(seqs[m + 1]) /\ \A j \in 1 .. Len(f[m]) : f[m + 1][j] = f[m][j]
      BY <1>5, <3>1
    <3>3. Len(f[k]) <= Len(f[m]) /\ \A i \in 1 .. Len(f[k]) : f[m][i] = f[k][i]
      BY <2>2
    <3>4. Len(seqs[m + 1]) \in Nat /\ Len(f[m]) \in Nat /\ Len(f[k]) \in Nat
      BY <1>2, <3>1
    <3>5. Len(f[k]) <= Len(f[m + 1])
      <4>. DEFINE x == Len(f[k])
                  y == Len(f[m])
                  z == Len(seqs[m + 1])
                  w == Len(f[m + 1])
      <4>1. x \in Nat /\ y \in Nat /\ z \in Nat /\ w = y + z /\ x <= y
        BY <3>2, <3>3, <3>4
      <4>. HIDE DEF x, y, z, w
      <4>2. x <= w
        BY <4>1
      <4>. QED BY <4>2 DEF x, w
    <3>6. ASSUME NEW i \in 1 .. Len(f[k]) PROVE f[m + 1][i] = f[k][i]
      <4>1. i \in 1 .. Len(f[m])
        BY <3>3, <3>4
      <4>. QED BY <3>2, <3>3, <4>1
    <3>. QED BY <3>1, <3>5, <3>6
  <2>3. \A m \in k .. n : m \in S
    <3>1. k \in Nat
      OBVIOUS
    <3>. HIDE DEF S
    <3>. QED BY <2>1, <2>2, <3>1, IntervalInduction
  <2>4. n \in S
    <3>. HIDE DEF S
    <3>. QED BY <2>3
  <2>. QED BY <2>4
<1>. QED BY <1>2, <1>3, <1>4, <1>5, <1>6 DEF InPlace

\* Where each of the sequences is in the flattened one, and what is in that.
Flattened(n, seqs) ==
  /\ \A k \in 1 .. n :
       {FlattenSeq(seqs)[i] : i \in Len(FlattenSeq(SubSeq(seqs, 1, k - 1))) + 1
                                      .. Len(FlattenSeq(SubSeq(seqs, 1, k)))}
         = {seqs[k][j] : j \in 1 .. Len(seqs[k])}
  /\ \A x : (\E i \in 1 .. Len(FlattenSeq(seqs)) : FlattenSeq(seqs)[i] = x)
               <=> (\E k \in 1 .. n : \E j \in 1 .. Len(seqs[k]) : seqs[k][j] = x)

\* Flattening keeps each sequence in its place.
LEMMA FlattenParts ==
  ASSUME NEW n \in Nat, NEW V, NEW seqs \in [1 .. n -> Seq(V)]
  PROVE  Flattened(n, seqs) /\ FlattenSeq(seqs) \in Seq(V)
<1>1. PICK f : Joins(f, n, V, seqs)
  BY Joining
<1>2. InPlace(f, n, seqs)
  BY <1>1, JoinedParts
<1>3. FlattenSeq(seqs) = f[n] /\ \A k \in 0 .. n : FlattenSeq(SubSeq(seqs, 1, k)) = f[k]
  BY <1>2 DEF InPlace
<1>4. \A k \in 0 .. n : Len(f[k]) \in Nat /\ Len(f[k]) <= Len(f[n])
                        /\ \A i \in 1 .. Len(f[k]) : f[n][i] = f[k][i]
  BY <1>2 DEF InPlace
<1>5. \A k \in 1 .. n : Len(f[k]) = Len(f[k - 1]) + Len(seqs[k])
                        /\ \A j \in 1 .. Len(seqs[k]) : f[k][Len(f[k - 1]) + j] = seqs[k][j]
  BY <1>2 DEF InPlace
<1>6. ASSUME NEW k \in 1 .. n, NEW i \in Len(f[k - 1]) + 1 .. Len(f[k])
      PROVE  i - Len(f[k - 1]) \in 1 .. Len(seqs[k]) /\ f[n][i] = seqs[k][i - Len(f[k - 1])]
  <2>. DEFINE a == Len(f[k - 1])
              j == i - a
  <2>1. k - 1 \in 0 .. n /\ k \in 0 .. n
    OBVIOUS
  <2>2. a \in Nat /\ Len(f[k]) \in Nat /\ Len(f[k]) = a + Len(seqs[k]) /\ Len(seqs[k]) \in Nat
    BY <1>4, <1>5, <2>1
  <2>3. i \in 1 .. Len(f[k]) /\ j \in 1 .. Len(seqs[k]) /\ a + j = i
    BY <2>2
  <2>4. f[n][i] = f[k][i]
    BY <1>4, <2>1, <2>3
  <2>5. f[k][a + j] = seqs[k][j]
    BY <1>5, <2>3
  <2>. QED BY <2>3, <2>4, <2>5
<1>7. ASSUME NEW k \in 1 .. n, NEW j \in 1 .. Len(seqs[k])
      PROVE  /\ Len(f[k - 1]) + j \in Len(f[k - 1]) + 1 .. Len(f[k])
             /\ Len(f[k - 1]) + j \in 1 .. Len(f[n])
             /\ f[n][Len(f[k - 1]) + j] = seqs[k][j]
  <2>. DEFINE a == Len(f[k - 1])
  <2>1. k - 1 \in 0 .. n /\ k \in 0 .. n /\ n \in 0 .. n
    OBVIOUS
  <2>2. a \in Nat /\ Len(f[k]) \in Nat /\ Len(f[k]) = a + Len(seqs[k]) /\ Len(seqs[k]) \in Nat
        /\ Len(f[k]) <= Len(f[n]) /\ Len(f[n]) \in Nat
    BY <1>4, <1>5, <2>1
  <2>3. a + j \in a + 1 .. Len(f[k]) /\ a + j \in 1 .. Len(f[n]) /\ a + j \in 1 .. Len(f[k])
    BY <2>2
  <2>4. f[n][a + j] = f[k][a + j]
    BY <1>4, <2>1, <2>3
  <2>5. f[k][a + j] = seqs[k][j]
    BY <1>5
  <2>. QED BY <2>3, <2>4, <2>5
<1>8. ASSUME NEW k \in 1 .. n
      PROVE  {f[n][i] : i \in Len(f[k - 1]) + 1 .. Len(f[k])} = {seqs[k][j] : j \in 1 .. Len(seqs[k])}
  <2>. DEFINE I == Len(f[k - 1]) + 1 .. Len(f[k])
              J == 1 .. Len(seqs[k])
  <2>1. \A i \in I : \E j \in J : f[n][i] = seqs[k][j]
    BY <1>6
  <2>2. \A j \in J : \E i \in I : f[n][i] = seqs[k][j]
    BY <1>7
  <2>. HIDE DEF I, J
  <2>3. {f[n][i] : i \in I} = {seqs[k][j] : j \in J}
    BY <2>1, <2>2
  <2>. QED BY <2>3 DEF I, J
\* Every position is in the part of some sequence.
<1>9. ASSUME NEW i \in 1 .. Len(f[n])
      PROVE  \E k \in 1 .. n : i \in Len(f[k - 1]) + 1 .. Len(f[k])
  <2>. DEFINE T == {k \in 0 .. n : i <= Len(f[k])}
  <2>1. n \in 0 .. n /\ Len(f[n]) \in Nat
    BY <1>4
  <2>2. n \in T /\ T \in SUBSET Nat
    BY <2>1
  <2>3. PICK k \in T : \A m \in T : k <= m
    <3>. HIDE DEF T
    <3>. QED BY <2>2, LeastMember
  <2>4. k # 0
    <3>1. Len(f[0]) = 0
      BY <1>1 DEF Joins
    <3>. QED BY <2>3, <3>1
  <2>5. k \in 1 .. n /\ k - 1 \in 0 .. n /\ k - 1 \notin T
    BY <2>3, <2>4
  <2>6. Len(f[k - 1]) \in Nat /\ Len(f[k]) \in Nat /\ i <= Len(f[k]) /\ ~(i <= Len(f[k - 1]))
    BY <1>4, <2>3, <2>5
  <2>. QED BY <2>5, <2>6
<1>10. \A x : (\E i \in 1 .. Len(f[n]) : f[n][i] = x)
                <=> (\E k \in 1 .. n : \E j \in 1 .. Len(seqs[k]) : seqs[k][j] = x)
  <2>1. ASSUME NEW i \in 1 .. Len(f[n])
        PROVE  \E k \in 1 .. n : \E j \in 1 .. Len(seqs[k]) : seqs[k][j] = f[n][i]
    <3>1. PICK k \in 1 .. n : i \in Len(f[k - 1]) + 1 .. Len(f[k])
      BY <1>9
    <3>. QED BY <1>6, <3>1
  <2>2. ASSUME NEW k \in 1 .. n, NEW j \in 1 .. Len(seqs[k])
        PROVE  \E i \in 1 .. Len(f[n]) : f[n][i] = seqs[k][j]
    BY <1>7
  <2>3. ASSUME NEW x, \E k \in 1 .. n : \E j \in 1 .. Len(seqs[k]) : seqs[k][j] = x
        PROVE  \E i \in 1 .. Len(f[n]) : f[n][i] = x
    <3>1. PICK k \in 1 .. n : \E j \in 1 .. Len(seqs[k]) : seqs[k][j] = x
      BY <2>3
    <3>2. PICK j \in 1 .. Len(seqs[k]) : seqs[k][j] = x
      BY <3>1
    <3>. QED BY <2>2, <3>2
  <2>. QED BY <2>1, <2>3
<1>11. \A k \in 1 .. n : k - 1 \in 0 .. n /\ k \in 0 .. n
  OBVIOUS
<1>12. ASSUME NEW k \in 1 .. n
       PROVE  {FlattenSeq(seqs)[i] : i \in Len(FlattenSeq(SubSeq(seqs, 1, k - 1))) + 1
                                      .. Len(FlattenSeq(SubSeq(seqs, 1, k)))}
                = {seqs[k][j] : j \in 1 .. Len(seqs[k])}
  <2>1. /\ FlattenSeq(SubSeq(seqs, 1, k - 1)) = f[k - 1] /\ FlattenSeq(SubSeq(seqs, 1, k)) = f[k]
        /\ FlattenSeq(seqs) = f[n]
    BY <1>3, <1>11
  <2>. DEFINE a == FlattenSeq(SubSeq(seqs, 1, k - 1))
              b == FlattenSeq(SubSeq(seqs, 1, k))
              all == FlattenSeq(seqs)
  <2>2. a = f[k - 1] /\ b = f[k] /\ all = f[n]
    BY <2>1
  <2>3. {f[n][i] : i \in Len(f[k - 1]) + 1 .. Len(f[k])} = {seqs[k][j] : j \in 1 .. Len(seqs[k])}
    BY <1>8
  <2>. HIDE DEF a, b, all
  <2>4. {all[i] : i \in Len(a) + 1 .. Len(b)} = {seqs[k][j] : j \in 1 .. Len(seqs[k])}
    BY <2>2, <2>3
  <2>. QED BY <2>4 DEF a, b, all
<1>13. f[n] \in Seq(V)
  BY <1>1 DEF Joins
<1>. QED BY <1>3, <1>10, <1>12, <1>13 DEF Flattened
=============================================================================
