----------------------------- MODULE Pack_proofs -----------------------------
(***************************************************************************)
(* Lemmas about the operators of the packed plan: bit positions, gather    *)
(* programs, addresses, and patches, for every word width. From them: a    *)
(* plan built as the packed engines build it computes what its tape does.  *)
(* Every task yields the gates of its word on any settled arena, whether   *)
(* it is a word of gates, a chain turned into one addition or a memory     *)
(* read, and the capture yields the next value of every register.          *)
(***************************************************************************)
EXTENDS PackedEngine, Tape_proofs, FiniteSetTheorems

\* The word width by name.
LEMMA WordWidth == WordBits \in Nat /\ WordBits > 0
BY WordAssumption

\* A quotient and a remainder, and no others, make up a number.
LEMMA Division ==
  ASSUME NEW a \in Int, NEW b \in Nat, b > 0
  PROVE  /\ a \div b \in Int /\ a % b \in 0 .. b - 1 /\ a = b * (a \div b) + (a % b)
         /\ a >= 0 => a \div b \in Nat
OBVIOUS

\* Quotient and remainder are determined by their sum and range.
LEMMA DivisionUnique ==
  ASSUME NEW b \in Nat, b > 0, NEW q \in Int, NEW r \in 0 .. b - 1
  PROVE  (b * q + r) \div b = q /\ (b * q + r) % b = r
<1>. DEFINE a == b * q + r
            d == a \div b
<1>1. a \in Int /\ d \in Int /\ a % b \in 0 .. b - 1 /\ a = b * d + (a % b)
  OBVIOUS
<1>. HIDE DEF a
<1>2. a = b * q + r
  BY DEF a
<1>3. b * (d - q) = r - (a % b)
  BY <1>1, <1>2
<1>4. d - q \in Int /\ b * (d - q) < b /\ b * (d - q) > -b
  BY <1>1, <1>3
<1>5. d - q = 0
  BY <1>4
<1>. QED BY <1>1, <1>3, <1>5 DEF a

\* A position is a word and a lane, and they determine it.
LEMMA PositionSplit ==
  ASSUME NEW p \in Int
  PROVE  /\ WordOf(p) \in Int /\ Offset(p) \in Lanes /\ p = WordBits * WordOf(p) + Offset(p)
         /\ p >= 0 => WordOf(p) \in Nat
BY WordWidth, Division DEF WordOf, Offset, Lanes

\* A word and a lane make a position, and come back from it.
LEMMA PositionJoin ==
  ASSUME NEW w \in Int, NEW l \in Lanes
  PROVE  WordOf(WordBits * w + l) = w /\ Offset(WordBits * w + l) = l
BY WordWidth, DivisionUnique DEF WordOf, Offset, Lanes

\* A step of a number of lanes from a position stays in its word or goes to
\* the next.
LEMMA PositionStep ==
  ASSUME NEW p \in Int, NEW k \in Lanes
  PROVE  /\ k + Offset(p) < WordBits =>
              WordOf(p + k) = WordOf(p) /\ Offset(p + k) = k + Offset(p)
         /\ k + Offset(p) >= WordBits =>
              WordOf(p + k) = WordOf(p) + 1 /\ Offset(p + k) = k + Offset(p) - WordBits
<1>1. WordOf(p) \in Int /\ Offset(p) \in Lanes /\ p = WordBits * WordOf(p) + Offset(p)
  BY PositionSplit
<1>2. WordBits \in Nat /\ WordBits > 0 /\ k \in Nat /\ k < WordBits
  BY WordWidth DEF Lanes
<1>3. ASSUME k + Offset(p) < WordBits
      PROVE  WordOf(p + k) = WordOf(p) /\ Offset(p + k) = k + Offset(p)
  <2>1. k + Offset(p) \in Lanes
    BY <1>1, <1>2, <1>3 DEF Lanes
  <2>2. p + k = WordBits * WordOf(p) + (k + Offset(p))
    BY <1>1, <1>2 DEF Lanes
  <2>. QED BY <1>1, <2>1, <2>2, PositionJoin
<1>4. ASSUME k + Offset(p) >= WordBits
      PROVE  WordOf(p + k) = WordOf(p) + 1 /\ Offset(p + k) = k + Offset(p) - WordBits
  <2>1. k + Offset(p) - WordBits \in Lanes
    BY <1>1, <1>2, <1>4 DEF Lanes
  <2>2. p + k = WordBits * (WordOf(p) + 1) + (k + Offset(p) - WordBits)
    BY <1>1, <1>2 DEF Lanes
  <2>. QED BY <1>1, <2>1, <2>2, PositionJoin
<1>. QED BY <1>3, <1>4

\* The smaller of two numbers.
LEMMA SmallerOfTwo ==
  ASSUME NEW a \in Int, NEW b \in Int
  PROVE  Min({a, b}) = IF a <= b THEN a ELSE b
<1>. DEFINE least(x) == \A y \in {a, b} : x <= y
            m == IF a <= b THEN a ELSE b
<1>1. m \in {a, b} /\ least(m)
  OBVIOUS
<1>2. Min({a, b}) = CHOOSE x \in {a, b} : least(x)
  BY DEF Min
<1>3. Min({a, b}) \in {a, b} /\ least(Min({a, b}))
  <2>. HIDE DEF least, m
  <2>. QED BY <1>1, <1>2
<1>. QED BY <1>1, <1>3

\* A field is of lanes.
LEMMA FieldLanes == ASSUME NEW width \in Nat PROVE Field(width) \subseteq Lanes
BY SmallerOfTwo, WordWidth DEF Field, Lanes

-----------------------------------------------------------------------------
(* Gather programs.                                                        *)

\* The words that a position may be loaded with.
Loadable(arena, p) ==
  p \in Nat /\ arena[WordOf(p)] \subseteq Lanes /\ arena[WordOf(p) + 1] \subseteq Lanes

\* A funnel moves bit src + k to bit shift + k, whether or not the bits
\* straddle two words.
THEOREM FunnelMoves ==
  ASSUME NEW arena, NEW seg, Loadable(arena, seg.src), seg.mask \subseteq Lanes,
         seg.shift \in Nat, NEW k
  PROVE  k \in Funnel(arena, seg) <=>
           /\ k \in seg.mask /\ k - seg.shift \in Lanes
           /\ BitAt(arena, seg.src + (k - seg.shift))
<1>. DEFINE lo == arena[WordOf(seg.src)]
            hi == arena[WordOf(seg.src) + 1]
            o == Offset(seg.src)
            j == k - seg.shift
<1>1. seg.src \in Int /\ lo \subseteq Lanes /\ hi \subseteq Lanes
  BY DEF Loadable
<1>2. k \in Funnel(arena, seg) <=>
        k \in seg.mask /\ j \in Lanes /\ (j + o \in lo \/ j + o - WordBits \in hi)
  BY DEF Funnel
<1>3. ASSUME j \in Lanes
      PROVE  (j + o \in lo \/ j + o - WordBits \in hi) <=> BitAt(arena, seg.src + j)
  <2>. HIDE DEF j
  <2>1. o \in Lanes /\ WordBits \in Nat
    BY <1>1, PositionSplit, WordWidth
  <2>2. CASE j + o < WordBits
    <3>1. WordOf(seg.src + j) = WordOf(seg.src) /\ Offset(seg.src + j) = j + o
      BY <1>1, <1>3, <2>2, PositionStep
    <3>2. j + o - WordBits \notin Lanes
      BY <1>3, <2>1, <2>2 DEF Lanes
    <3>. QED BY <1>1, <3>1, <3>2 DEF BitAt
  <2>3. CASE j + o >= WordBits
    <3>1. WordOf(seg.src + j) = WordOf(seg.src) + 1 /\ Offset(seg.src + j) = j + o - WordBits
      BY <1>1, <1>3, <2>3, PositionStep
    <3>2. j + o \notin Lanes
      BY <1>3, <2>1, <2>3 DEF Lanes
    <3>. QED BY <1>1, <3>1, <3>2 DEF BitAt
  <2>. QED BY <1>3, <2>1, <2>2, <2>3 DEF Lanes
<1>. QED BY <1>2, <1>3

-----------------------------------------------------------------------------
(* Numbers.                                                                *)

\* The power of two that a bit of a number stands for, by a name that the
\* provers take as it is.
Power(n) == 2 ^ n

\* A power of two is a natural number: it counts the subsets of n numbers.
LEMMA PowerCounts ==
  ASSUME NEW n \in Nat
  PROVE  Power(n) \in Nat /\ Power(n) = Cardinality(SUBSET (1 .. n)) /\ IsFiniteSet(SUBSET (1 .. n))
<1>1. IsFiniteSet(1 .. n) /\ Cardinality(1 .. n) = n
  BY FS_Interval
<1>2. IsFiniteSet(SUBSET (1 .. n)) /\ Cardinality(SUBSET (1 .. n)) = 2 ^ Cardinality(1 .. n)
  BY <1>1, FS_SUBSET
<1>3. Cardinality(SUBSET (1 .. n)) = Power(n)
  BY <1>1, <1>2, Zenon DEF Power
<1>. QED BY <1>2, <1>3, FS_CardinalityType

\* The subsets of a longer interval are those without its last number and
\* those with it, as many of one kind as of the other.
LEMMA PowerDoubles ==
  ASSUME NEW n \in Nat
  PROVE  Power(n + 1) = Power(n) + Power(n)
<1>. DEFINE A == SUBSET (1 .. n)
            B == {X \cup {n + 1} : X \in A}
            f == [X \in A |-> X \cup {n + 1}]
<1>1. \A X \in A : n + 1 \notin X
  OBVIOUS
<1>2. f \in Bijection(A, B)
  <2>1. f \in [A -> B]
    OBVIOUS
  <2>2. ASSUME NEW X \in A, NEW Y \in A, f[X] = f[Y] PROVE X = Y
    BY <1>1, <2>2
  <2>3. f \in Injection(A, B)
    <3>. HIDE DEF f, A, B
    <3>. QED BY <2>1, <2>2 DEF Injection, IsInjective
  <2>4. \A Y \in B : \E X \in A : f[X] = Y
    OBVIOUS
  <2>5. f \in Surjection(A, B)
    <3>. HIDE DEF f, A, B
    <3>. QED BY <2>1, <2>4 DEF Surjection
  <2>. HIDE DEF f, A, B
  <2>. QED BY <2>3, <2>5 DEF Bijection
<1>3. Power(n) = Cardinality(A) /\ IsFiniteSet(A) /\ Power(n) \in Nat
  BY PowerCounts
<1>4. IsFiniteSet(B) /\ Cardinality(B) = Cardinality(A)
  <2>. HIDE DEF f, A, B
  <2>. QED BY <1>2, <1>3, FS_Bijection DEF ExistsBijection
<1>5. SUBSET (1 .. n + 1) = A \cup B
  <2>1. ASSUME NEW X \in SUBSET (1 .. n + 1) PROVE X \in A \cup B
    <3>1. CASE n + 1 \in X
      <4>1. X \ {n + 1} \in A /\ X = (X \ {n + 1}) \cup {n + 1}
        BY <3>1
      <4>. QED BY <4>1
    <3>2. CASE n + 1 \notin X
      BY <3>2
    <3>. QED BY <3>1, <3>2
  <2>2. 1 .. n \subseteq 1 .. n + 1 /\ n + 1 \in 1 .. n + 1
    OBVIOUS
  <2>. QED BY <2>1, <2>2
<1>6. A \cap B = {}
  BY <1>1
<1>7. Cardinality(A \cup B) = Cardinality(A) + Cardinality(B) - Cardinality(A \cap B)
  <2>. HIDE DEF A, B
  <2>. QED BY <1>3, <1>4, FS_Union
<1>8. Power(n + 1) = Cardinality(SUBSET (1 .. n + 1))
  BY PowerCounts
<1>9. Power(n + 1) = Cardinality(A \cup B)
  <2>. HIDE DEF A, B
  <2>. QED BY <1>5, <1>8
<1>10. Cardinality(A \cap B) = 0
  <2>. HIDE DEF A, B
  <2>. QED BY <1>6, FS_EmptySet
<1>. HIDE DEF A, B
<1>. QED BY <1>3, <1>4, <1>7, <1>9, <1>10

\* The values of the first bits, one bit more at a time.
Counts(value, bs) ==
  \A k \in 0 .. Len(bs) :
    value[k] = IF k = 0 THEN 0 ELSE value[k - 1] + IF bs[k] THEN Power(k - 1) ELSE 0

\* A number is the last of the values of its first bits.
LEMMA NumberCounts ==
  ASSUME NEW bs, Len(bs) \in Nat
  PROVE  \E value : Number(bs) = value[Len(bs)] /\ Counts(value, bs)
<1>. DEFINE n == Len(bs)
            add(k) == IF bs[k] THEN Power(k - 1) ELSE 0
            step == [k \in 0 .. n |-> [v \in Nat |-> v + IF k = 0 THEN 0 ELSE add(k)]]
            body(q) == [k \in 0 .. n |-> IF k = 0 THEN 0 ELSE q[k - 1] + add(k)]
            f == CHOOSE q : q = body(q)
<1>1. ASSUME NEW k \in 0 .. n, k # 0 PROVE k - 1 \in 0 .. n /\ k - 1 \in Nat /\ add(k) \in Nat
  <2>1. k - 1 \in 0 .. n /\ k - 1 \in Nat
    BY <1>1
  <2>2. Power(k - 1) \in Nat
    BY <2>1, PowerCounts
  <2>. QED BY <2>1, <2>2
<1>2. step \in [0 .. n -> [Nat -> Nat]]
  <2>. HIDE DEF add
  <2>. QED BY <1>1
<1>3. PICK h \in [0 .. n -> Nat] : Iterates(h, 0, n, 0, step)
  <2>. HIDE DEF step
  <2>1. 0 \in Nat /\ n \in Nat /\ 0 <= n
    OBVIOUS
  <2>. HIDE DEF n
  <2>. QED BY <1>2, <2>1, Iteration
<1>4. \A k \in 0 .. n : h[k] = IF k = 0 THEN 0 ELSE h[k - 1] + add(k)
  <2>. HIDE DEF add
  <2>. QED BY <1>1, <1>3 DEF Iterates
<1>5. h = body(h)
  <2>. HIDE DEF add
  <2>. QED BY <1>4
<1>6. Number(bs) = f[n]
  BY Zenon DEF Number, Power
<1>7. f = body(f)
  <2>. HIDE DEF body
  <2>. QED BY <1>5
<1>8. \A k \in 0 .. n : f[k] = IF k = 0 THEN 0 ELSE f[k - 1] + add(k)
  <2>. HIDE DEF f, add
  <2>. QED BY <1>7
<1>9. Counts(f, bs)
  <2>. HIDE DEF f
  <2>. QED BY <1>8 DEF Counts
<1>. HIDE DEF f
<1>. QED BY <1>6, <1>9

\* The number of w bits takes w bits: an address of an access is one of
\* AddressesOf it.
THEOREM NumberRange ==
  ASSUME NEW bs, Len(bs) \in Nat
  PROVE  Number(bs) \in 0 .. Power(Len(bs)) - 1
<1>. DEFINE n == Len(bs)
<1>1. PICK value : Number(bs) = value[n] /\ Counts(value, bs)
  BY NumberCounts
<1>. DEFINE S == {k \in 0 .. n : value[k] \in 0 .. Power(k) - 1}
<1>2. 0 \in S
  <2>1. Power(0) = 1
    BY DEF Power
  <2>2. value[0] = 0
    BY <1>1 DEF Counts
  <2>. QED BY <2>1, <2>2
<1>3. ASSUME NEW k \in 0 .. n - 1, k \in S PROVE k + 1 \in S
  <2>1. k \in Nat /\ k + 1 \in 0 .. n /\ k + 1 # 0 /\ (k + 1) - 1 = k
    OBVIOUS
  <2>2. value[k + 1] = value[k] + IF bs[k + 1] THEN Power(k) ELSE 0
    BY <1>1, <2>1 DEF Counts
  <2>3. Power(k + 1) = Power(k) + Power(k) /\ Power(k) \in Nat
    BY <2>1, PowerDoubles, PowerCounts
  <2>. QED BY <1>3, <2>1, <2>2, <2>3
<1>4. n \in S
  <2>. HIDE DEF S
  <2>1. \A k \in 0 .. n : k \in S
    BY <1>2, <1>3, IntervalInduction
  <2>. QED BY <2>1
<1>. QED BY <1>1, <1>4

-----------------------------------------------------------------------------
(* What a task reads.                                                      *)

\* Two arenas agree at these positions.
Agree(x, y, positions) == \A p \in positions : BitAt(x, p) <=> BitAt(y, p)

\* A segment may be gathered from both arenas.
LoadableFromBoth(x, y, seg) == Loadable(x, seg.src) /\ Loadable(y, seg.src) /\ seg.mask \subseteq Lanes

\* A funnel looks at the positions it moves and nowhere else.
LEMMA FunnelLocal ==
  ASSUME NEW x, NEW y, NEW seg, LoadableFromBoth(x, y, seg), seg.shift \in Nat,
         Agree(x, y, {seg.src + k - seg.shift : k \in seg.mask})
  PROVE  Funnel(x, seg) = Funnel(y, seg)
<1>1. ASSUME NEW k PROVE k \in Funnel(x, seg) <=> k \in Funnel(y, seg)
  <2>1. CASE k \in seg.mask
    <3>1. seg.src + (k - seg.shift) = seg.src + k - seg.shift
      BY <2>1 DEF LoadableFromBoth, Loadable, Lanes
    <3>2. BitAt(x, seg.src + (k - seg.shift)) <=> BitAt(y, seg.src + (k - seg.shift))
      BY <2>1, <3>1 DEF Agree
    <3>. QED BY <3>2, FunnelMoves DEF LoadableFromBoth
  <2>2. CASE k \notin seg.mask
    BY <2>2 DEF Funnel
  <2>. QED BY <2>1, <2>2
<1>. QED BY <1>1

-----------------------------------------------------------------------------
(* Memory writes.                                                          *)

Stages(n) == [1 .. n -> SUBSET Lanes]

\* One write, if it is enabled.
Applied(arena, write, stage) ==
  IF BitAt(arena, write.enable_pos)
  THEN patch(stage, StoredAt(arena, write), write.width, gather(arena, write.data))
  ELSE stage

\* The stages that the writes leave, one after another.
Patches(after, arena, writes, stage) ==
  \A k \in 0 .. Len(writes) :
    after[k] = IF k = 0 THEN stage ELSE Applied(arena, writes[k], after[k - 1])

\* A memory write leaves a staging buffer of the same words.
LEMMA AppliedTyped ==
  ASSUME NEW n, NEW stage \in Stages(n), NEW arena, NEW write
  PROVE  Applied(arena, write, stage) \in Stages(n)
BY DEF Applied, patch, Stages

\* The writes are applied one after another, the last one last.
LEMMA WrittenPatches ==
  ASSUME NEW n, NEW stage \in Stages(n), NEW arena, NEW writes, Len(writes) \in Nat
  PROVE  \E after \in [0 .. Len(writes) -> Stages(n)] :
           Written(arena, writes, stage) = after[Len(writes)] /\ Patches(after, arena, writes, stage)
<1>. DEFINE m == Len(writes)
            B == Stages(n)
            step == [k \in 0 .. m |-> [v \in B |-> IF k = 0 THEN v ELSE Applied(arena, writes[k], v)]]
            body(q) == [k \in 0 .. m |-> IF k = 0 THEN stage ELSE Applied(arena, writes[k], q[k - 1])]
            f == CHOOSE q : q = body(q)
<1>1. step \in [0 .. m -> [B -> B]]
  BY AppliedTyped
<1>2. PICK h \in [0 .. m -> B] : Iterates(h, 0, m, stage, step)
  <2>1. 0 \in Nat /\ m \in Nat /\ 0 <= m /\ stage \in B
    OBVIOUS
  <2>. HIDE DEF step, m, B
  <2>. QED BY <1>1, <2>1, Iteration
<1>3. \A k \in 0 .. m : h[k] = IF k = 0 THEN stage ELSE Applied(arena, writes[k], h[k - 1])
  <2>1. ASSUME NEW k \in 0 .. m, k # 0 PROVE k - 1 \in 0 .. m
    BY <2>1
  <2>. HIDE DEF B
  <2>. QED BY <1>2, <2>1 DEF Iterates
<1>4. h = body(h)
  <2>. HIDE DEF B
  <2>. QED BY <1>3
<1>5. Written(arena, writes, stage) = f[m]
  BY Zenon DEF Written, Applied
<1>6. f = body(f)
  <2>. HIDE DEF body
  <2>. QED BY <1>4
<1>7. \A k \in 0 .. m : f[k] = IF k = 0 THEN stage ELSE Applied(arena, writes[k], f[k - 1])
  <2>. HIDE DEF f
  <2>. QED BY <1>6
<1>8. f = [k \in 0 .. m |-> f[k]]
  <2>. HIDE DEF f
  <2>. QED BY <1>6
<1>. HIDE DEF f
<1>. DEFINE S == {k \in 0 .. m : f[k] \in B}
<1>9. 0 \in S
  BY <1>7
<1>10. ASSUME NEW k \in 0 .. m - 1, k \in S PROVE k + 1 \in S
  <2>1. k + 1 \in 0 .. m /\ k + 1 # 0 /\ (k + 1) - 1 = k
    OBVIOUS
  <2>2. f[k + 1] = Applied(arena, writes[k + 1], f[k])
    BY <1>7, <2>1
  <2>. QED BY <1>10, <2>1, <2>2, AppliedTyped
<1>11. \A k \in 0 .. m : k \in S
  <2>. HIDE DEF S
  <2>. QED BY <1>9, <1>10, IntervalInduction
<1>12. f \in [0 .. m -> B]
  <2>. HIDE DEF B
  <2>. QED BY <1>8, <1>11
<1>. QED BY <1>5, <1>7, <1>12 DEF Patches

\* A word is patched by what it holds.
LEMMA PatchLocal ==
  ASSUME NEW v, NEW u, NEW w \in DOMAIN v \cap DOMAIN u, v[w] = u[w],
         NEW off, NEW width, NEW value
  PROVE  patch(v, off, width, value)[w] = patch(u, off, width, value)[w]
BY DEF patch

\* A bit of a patched word.
LEMMA PatchBit ==
  ASSUME NEW stage, NEW off, NEW width, NEW value, NEW w \in DOMAIN stage, NEW l \in Lanes
  PROVE  l \in patch(stage, off, width, value)[w] <=>
           IF WordBits * (w - 1) + (l - off) \in Field(width)
           THEN WordBits * (w - 1) + (l - off) \in value ELSE l \in stage[w]
BY DEF patch

\* Two arenas enable the same writes, at the same places, of the same data.
SameWrites(x, y, writes) ==
  \A k \in 1 .. Len(writes) :
    /\ BitAt(x, writes[k].enable_pos) <=> BitAt(y, writes[k].enable_pos)
    /\ StoredAt(x, writes[k]) = StoredAt(y, writes[k])
    /\ gather(x, writes[k].data) = gather(y, writes[k].data)

SameWords(v, u, n) == \A w \in 1 .. n : v[w] = u[w]

\* What the writes leave in a word depends on that word alone: the pad word
\* of the staging buffer leaks into no register.
THEOREM WrittenLocal ==
  ASSUME NEW n \in Nat, NEW m \in Nat, n <= m, NEW v \in Stages(n), NEW u \in Stages(m),
         SameWords(v, u, n),
         NEW x, NEW y, NEW writes, Len(writes) \in Nat, SameWrites(x, y, writes)
  PROVE  /\ Written(x, writes, v) \in Stages(n) /\ Written(y, writes, u) \in Stages(m)
         /\ SameWords(Written(x, writes, v), Written(y, writes, u), n)
<1>. DEFINE last == Len(writes)
<1>1. PICK f \in [0 .. last -> Stages(n)] : Written(x, writes, v) = f[last] /\ Patches(f, x, writes, v)
  BY WrittenPatches
<1>2. PICK g \in [0 .. last -> Stages(m)] : Written(y, writes, u) = g[last] /\ Patches(g, y, writes, u)
  BY WrittenPatches
<1>. DEFINE S == {k \in 0 .. last : \A w \in 1 .. n : f[k][w] = g[k][w]}
<1>3. 0 \in S
  <2>1. f[0] = v /\ g[0] = u
    BY <1>1, <1>2 DEF Patches
  <2>. QED BY <2>1 DEF SameWords
<1>4. ASSUME NEW k \in 0 .. last - 1, k \in S PROVE k + 1 \in S
  <2>. DEFINE write == writes[k + 1]
  <2>1. k \in 0 .. last /\ k + 1 \in 0 .. last /\ k + 1 # 0 /\ (k + 1) - 1 = k /\ k + 1 \in 1 .. last
    OBVIOUS
  <2>2. f[k + 1] = Applied(x, write, f[k]) /\ g[k + 1] = Applied(y, write, g[k])
    BY <1>1, <1>2, <2>1 DEF Patches
  <2>3. ASSUME NEW w \in 1 .. n PROVE f[k + 1][w] = g[k + 1][w]
    <3>1. f[k][w] = g[k][w]
      BY <1>4
    <3>2. w \in DOMAIN f[k] \cap DOMAIN g[k]
      <4>1. f[k] \in Stages(n) /\ g[k] \in Stages(m) /\ w \in 1 .. m
        BY <2>1
      <4>. QED BY <4>1 DEF Stages
    <3>3. \A off, width, value : patch(f[k], off, width, value)[w] = patch(g[k], off, width, value)[w]
      BY <3>1, <3>2, PatchLocal
    <3>4. /\ BitAt(x, write.enable_pos) <=> BitAt(y, write.enable_pos)
          /\ StoredAt(x, write) = StoredAt(y, write)
          /\ gather(x, write.data) = gather(y, write.data)
      BY <2>1 DEF SameWrites
    <3>. QED BY <2>2, <3>1, <3>3, <3>4 DEF Applied
  <2>. QED BY <2>1, <2>3
<1>5. last \in S
  <2>. HIDE DEF S
  <2>1. \A k \in 0 .. last : k \in S
    BY <1>3, <1>4, IntervalInduction
  <2>. QED BY <2>1
<1>6. f[last] \in Stages(n) /\ g[last] \in Stages(m)
  OBVIOUS
<1>. QED BY <1>1, <1>2, <1>5, <1>6 DEF SameWords

-----------------------------------------------------------------------------
(* The native add.                                                         *)

\* Powers of two multiply by adding their exponents.
LEMMA PowerAdds ==
  ASSUME NEW k \in Nat, NEW j \in Nat
  PROVE  Power(k + j) = Power(k) * Power(j)
<1>. DEFINE S == {m \in 0 .. j : Power(k + m) = Power(k) * Power(m)}
<1>1. 0 \in S
  <2>1. Power(0) = 1
    BY DEF Power
  <2>2. Power(k) \in Nat
    BY PowerCounts
  <2>3. Power(k) * 1 = Power(k)
    BY <2>2
  <2>4. k + 0 = k
    OBVIOUS
  <2>5. Power(k + 0) = Power(k) * Power(0)
    BY <2>1, <2>3, <2>4, Zenon
  <2>. QED BY <2>5
<1>2. ASSUME NEW m \in 0 .. j - 1, m \in S PROVE m + 1 \in S
  <2>1. m \in Nat /\ m + 1 \in 0 .. j /\ k + m \in Nat /\ k + (m + 1) = (k + m) + 1
    OBVIOUS
  <2>2. Power(m + 1) = Power(m) + Power(m) /\ Power((k + m) + 1) = Power(k + m) + Power(k + m)
    BY <2>1, PowerDoubles
  <2>3. Power(k) \in Nat /\ Power(m) \in Nat
    BY <2>1, PowerCounts
  <2>4. Power(k + m) = Power(k) * Power(m)
    BY <1>2
  <2>5. Power(k) * (Power(m) + Power(m)) = Power(k) * Power(m) + Power(k) * Power(m)
    BY <2>3
  <2>6. Power(k + (m + 1)) = Power(k) * Power(m + 1)
    BY <2>1, <2>2, <2>4, <2>5
  <2>. QED BY <2>1, <2>6
<1>3. \A m \in 0 .. j : m \in S
  <2>. HIDE DEF S
  <2>. QED BY <1>1, <1>2, IntervalInduction
<1>. QED BY <1>3

\* Bits as numbers.
Bit(b) == IF b THEN 1 ELSE 0

\* The number that some bits form so far is natural.
LEMMA CountsNatural ==
  ASSUME NEW bs, Len(bs) \in Nat, NEW value, Counts(value, bs)
  PROVE  \A k \in 0 .. Len(bs) : value[k] \in Nat
<1>. DEFINE S == {k \in 0 .. Len(bs) : value[k] \in Nat}
<1>1. 0 \in S
  BY DEF Counts
<1>2. ASSUME NEW k \in 0 .. Len(bs) - 1, k \in S PROVE k + 1 \in S
  <2>1. k \in Nat /\ k + 1 \in 0 .. Len(bs) /\ k + 1 # 0 /\ (k + 1) - 1 = k
    OBVIOUS
  <2>2. value[k + 1] = value[k] + IF bs[k + 1] THEN Power(k) ELSE 0
    BY <2>1 DEF Counts
  <2>3. Power(k) \in Nat
    BY <2>1, PowerCounts
  <2>. QED BY <1>2, <2>1, <2>2, <2>3
<1>. HIDE DEF S
<1>3. \A k \in 0 .. Len(bs) : k \in S
  BY <1>1, <1>2, IntervalInduction
<1>. QED BY <1>3 DEF S

\* What the bits from k on add to a number is a multiple of Power(k).
LEMMA HighPart ==
  ASSUME NEW bs, Len(bs) \in Nat, NEW value, Counts(value, bs), NEW k \in 0 .. Len(bs)
  PROVE  \E high \in Nat : value[Len(bs)] = value[k] + Power(k) * high
<1>. DEFINE n == Len(bs)
            S == {m \in k .. n : \E high \in Nat : value[m] = value[k] + Power(k) * high}
<1>1. k \in Nat /\ n \in Nat /\ Power(k) \in Nat /\ \A m \in 0 .. n : value[m] \in Nat
  <2>1. k \in Nat /\ n \in Nat
    OBVIOUS
  <2>2. Power(k) \in Nat
    BY <2>1, PowerCounts
  <2>. QED BY <2>1, <2>2, CountsNatural
<1>2. k \in S
  <2>1. value[k] = value[k] + Power(k) * 0
    BY <1>1
  <2>. QED BY <1>1, <2>1
<1>3. ASSUME NEW m \in k .. n - 1, m \in S PROVE m + 1 \in S
  <2>1. m \in Nat /\ m + 1 \in 0 .. n /\ m + 1 \in k .. n /\ m + 1 # 0 /\ (m + 1) - 1 = m
        /\ m - k \in Nat /\ m = k + (m - k)
    BY <1>1
  <2>2. value[m + 1] = value[m] + IF bs[m + 1] THEN Power(m) ELSE 0
    BY <2>1 DEF Counts
  <2>3. PICK high \in Nat : value[m] = value[k] + Power(k) * high
    BY <1>3
  <2>4. Power(m - k) \in Nat /\ Power(m) = Power(k) * Power(m - k)
    BY <1>1, <2>1, PowerAdds, PowerCounts
  <2>. DEFINE more == IF bs[m + 1] THEN Power(m - k) ELSE 0
  <2>5. more \in Nat /\ value[m + 1] = value[m] + Power(k) * more
    BY <1>1, <2>2, <2>4, <2>1
  <2>. HIDE DEF more
  <2>6. value[k] \in Nat
    BY <1>1
  <2>7. Power(k) * (high + more) = Power(k) * high + Power(k) * more
    BY <1>1, <2>3, <2>5
  <2>8. value[m + 1] = value[k] + Power(k) * (high + more) /\ high + more \in Nat
    <3>1. Power(k) * high \in Nat /\ Power(k) * more \in Nat
      BY <1>1, <2>3, <2>5
    <3>. QED BY <2>3, <2>5, <2>6, <2>7, <3>1
  <2>. QED BY <2>1, <2>8
<1>4. \A m \in k .. n : m \in S
  <2>. HIDE DEF S, n
  <2>. QED BY <1>1, <1>2, <1>3, IntervalInduction
<1>5. n \in S
  <2>1. n \in k .. n
    OBVIOUS
  <2>. HIDE DEF S, n
  <2>. QED BY <1>4, <2>1
<1>. QED BY <1>5

\* The bits of a word, the lowest first.
WordBitsOf(word) == [k \in 1 .. WordBits |-> k - 1 \in word]

\* The number a word stands for counts its bits, the lowest first.
LEMMA WordCounts ==
  ASSUME NEW word
  PROVE  /\ Len(WordBitsOf(word)) = WordBits
         /\ \E value : WordValue(word) = value[WordBits] /\ Counts(value, WordBitsOf(word))
<1>. DEFINE bs == WordBitsOf(word)
<1>1. bs \in Seq(BOOLEAN) /\ Len(bs) = WordBits
  BY WordWidth DEF WordBitsOf
<1>2. WordValue(word) = Number(bs)
  BY DEF WordValue, WordBitsOf
<1>3. Len(bs) \in Nat
  BY <1>1, WordWidth
<1>. HIDE DEF bs
<1>4. PICK value : Number(bs) = value[Len(bs)] /\ Counts(value, bs)
  BY <1>3, NumberCounts
<1>5. WordValue(word) = value[WordBits] /\ Counts(value, bs)
  BY <1>1, <1>2, <1>4
<1>. QED BY <1>1, <1>5 DEF bs

Odd(x, y, z) == x # (y # z)
Majority(x, y, z) == (x /\ y) \/ (x /\ z) \/ (y /\ z)

\* The carries of a ripple adder over two words, from a carry-in.
Ripples(carry, a, b, cin) ==
  \A k \in 0 .. WordBits :
    carry[k] = IF k = 0 THEN cin ELSE Majority(k - 1 \in a, k - 1 \in b, carry[k - 1])

\* The full adder as arithmetic.
LEMMA FullAdder ==
  ASSUME NEW x \in BOOLEAN, NEW y \in BOOLEAN, NEW z \in BOOLEAN
  PROVE  Bit(x) + Bit(y) + Bit(z) = Bit(Odd(x, y, z)) + 2 * Bit(Majority(x, y, z))
BY DEF Bit, Odd, Majority

\* Up to bit k the addends and the carry-in make a remainder below Power(k)
\* and the carry out of bit k - 1.
RippleStep(r, va, vb, carry, k) ==
  /\ r \in 0 .. Power(k) - 1
  /\ va[k] + vb[k] + Bit(carry[0]) = r + Power(k) * Bit(carry[k])

\* Below every bit, the sum of two words and the carry-in is a remainder and
\* the carry into that bit.
LEMMA RippleSum ==
  ASSUME NEW a, NEW b, NEW va, NEW vb,
         Counts(va, WordBitsOf(a)), Counts(vb, WordBitsOf(b)),
         NEW carry \in [0 .. WordBits -> BOOLEAN], Ripples(carry, a, b, carry[0])
  PROVE  \A k \in 0 .. WordBits : \E r : RippleStep(r, va, vb, carry, k)
<1>. DEFINE S == {k \in 0 .. WordBits : \E r : RippleStep(r, va, vb, carry, k)}
<1>1. WordBits \in Nat /\ Len(WordBitsOf(a)) = WordBits /\ Len(WordBitsOf(b)) = WordBits
  BY WordWidth, WordCounts
<1>2. /\ \A k \in 0 .. WordBits : va[k] \in Nat /\ vb[k] \in Nat
      /\ \A k \in 0 .. WordBits : Bit(carry[k]) \in 0 .. 1
  BY <1>1, CountsNatural DEF Bit
<1>3. 0 \in S
  <2>1. Power(0) = 1
    BY DEF Power
  <2>2. va[0] = 0 /\ vb[0] = 0
    BY <1>1 DEF Counts
  <2>3. 0 \in 0 .. WordBits /\ Bit(carry[0]) \in Nat
    BY <1>1, <1>2
  <2>4. RippleStep(0, va, vb, carry, 0)
    BY <2>1, <2>2, <2>3 DEF RippleStep
  <2>. QED BY <2>3, <2>4
<1>4. ASSUME NEW k \in 0 .. WordBits - 1, k \in S PROVE k + 1 \in S
  <2>1. k \in Nat /\ k \in 0 .. WordBits /\ k + 1 \in 1 .. WordBits /\ k + 1 \in 0 .. WordBits
        /\ k + 1 # 0 /\ (k + 1) - 1 = k
    BY <1>1
  <2>. DEFINE x == k \in a
              y == k \in b
              z == carry[k]
  <2>2. PICK r : RippleStep(r, va, vb, carry, k)
    BY <1>4
  <2>3. va[k + 1] = va[k] + Power(k) * Bit(x) /\ vb[k + 1] = vb[k] + Power(k) * Bit(y)
    <3>1. Power(k) \in Nat
      BY <2>1, PowerCounts
    <3>2. (WordBitsOf(a)[k + 1] <=> x) /\ (WordBitsOf(b)[k + 1] <=> y)
      BY <2>1 DEF WordBitsOf
    <3>3. /\ va[k + 1] = va[k] + IF WordBitsOf(a)[k + 1] THEN Power(k) ELSE 0
          /\ vb[k + 1] = vb[k] + IF WordBitsOf(b)[k + 1] THEN Power(k) ELSE 0
      BY <1>1, <2>1 DEF Counts
    <3>4. /\ Power(k) * Bit(x) = IF x THEN Power(k) ELSE 0
          /\ Power(k) * Bit(y) = IF y THEN Power(k) ELSE 0
      BY <3>1 DEF Bit
    <3>. HIDE DEF x, y
    <3>. QED BY <3>2, <3>3, <3>4
  <2>4. carry[k + 1] = Majority(x, y, z)
    BY <2>1 DEF Ripples
  <2>5. x \in BOOLEAN /\ y \in BOOLEAN /\ z \in BOOLEAN
    BY <2>1
  <2>. DEFINE s == Bit(Odd(x, y, z))
              m == Bit(carry[k + 1])
              P == Power(k)
              q == r + P * s
  <2>6. Bit(x) + Bit(y) + Bit(z) = s + 2 * m
    <3>. HIDE DEF x, y, z
    <3>. QED BY <2>4, <2>5, FullAdder
  <2>7. s \in 0 .. 1 /\ m \in 0 .. 1 /\ Bit(x) \in 0 .. 1 /\ Bit(y) \in 0 .. 1 /\ Bit(z) \in 0 .. 1
    BY DEF Bit
  <2>8. P \in Nat /\ Power(k + 1) = P + P
    BY <2>1, PowerCounts, PowerDoubles
  <2>9. r \in 0 .. P - 1 /\ va[k] + vb[k] + Bit(carry[0]) = r + P * Bit(z)
    BY <2>2 DEF RippleStep
  <2>10. va[k] \in Nat /\ vb[k] \in Nat /\ Bit(carry[0]) \in Nat
    BY <1>1, <1>2, <2>1
  <2>. HIDE DEF x, y, z, s, m, P
  <2>11. P * s = (IF s = 1 THEN P ELSE 0) /\ P * m \in Nat
    BY <2>7, <2>8
  <2>12. q \in 0 .. Power(k + 1) - 1
    BY <2>7, <2>8, <2>9, <2>11
  <2>13. P * Bit(x) + P * Bit(y) + P * Bit(z) = P * s + (P + P) * m
    <3>1. P * (Bit(x) + Bit(y) + Bit(z)) = P * Bit(x) + P * Bit(y) + P * Bit(z)
      BY <2>7, <2>8
    <3>2. P * (s + 2 * m) = P * s + (P + P) * m
      BY <2>7, <2>8
    <3>. QED BY <2>6, <3>1, <3>2
  <2>14. va[k + 1] + vb[k + 1] + Bit(carry[0]) = q + Power(k + 1) * m
    <3>1. P * Bit(x) \in Nat /\ P * Bit(y) \in Nat /\ P * Bit(z) \in Nat /\ P * s \in Nat
          /\ (P + P) * m \in Nat
      BY <2>7, <2>8
    <3>2. va[k + 1] = va[k] + P * Bit(x) /\ vb[k + 1] = vb[k] + P * Bit(y)
      BY <2>3 DEF P
    <3>3. r \in Int
      BY <2>8, <2>9
    <3>. DEFINE px == P * Bit(x)
                py == P * Bit(y)
                pz == P * Bit(z)
                ps == P * s
                pm == (P + P) * m
    <3>4. px \in Nat /\ py \in Nat /\ pz \in Nat /\ ps \in Nat /\ pm \in Nat
          /\ va[k] + vb[k] + Bit(carry[0]) = r + pz /\ px + py + pz = ps + pm
      BY <2>9, <2>13, <3>1
    <3>5. (va[k] + px) + (vb[k] + py) + Bit(carry[0]) = (r + ps) + pm
      <4>. DEFINE u == va[k]
                  v == vb[k]
                  c == Bit(carry[0])
      <4>1. u \in Nat /\ v \in Nat /\ c \in Nat /\ u + v + c = r + pz
        BY <2>10, <3>4
      <4>. HIDE DEF px, py, pz, ps, pm, u, v, c
      <4>2. (u + px) + (v + py) + c = (r + ps) + pm
        BY <3>3, <3>4, <4>1
      <4>. QED BY <4>2 DEF u, v, c
    <3>6. va[k + 1] + vb[k + 1] + Bit(carry[0]) = (r + P * s) + (P + P) * m
      BY <3>2, <3>5
    <3>. QED BY <2>8, <3>6
  <2>15. RippleStep(q, va, vb, carry, k + 1)
    <3>. HIDE DEF q
    <3>. QED BY <2>12, <2>14 DEF RippleStep, m
  <2>. QED BY <2>1, <2>15
<1>. HIDE DEF S
<1>5. \A k \in 0 .. WordBits : k \in S
  BY <1>1, <1>3, <1>4, IntervalInduction
<1>. QED BY <1>5 DEF S

\* The word of a carry-in.
CarryWord(cin) == IF cin THEN {0} ELSE {}

\* A word of at most bit 0 counts as that bit.
LEMMA CarryIn ==
  ASSUME NEW cin \in BOOLEAN
  PROVE  WordValue(CarryWord(cin)) = Bit(cin)
<1>. DEFINE c == CarryWord(cin)
<1>. HIDE DEF c
<1>1. PICK vc : WordValue(c) = vc[WordBits] /\ Counts(vc, WordBitsOf(c))
  BY WordCounts
<1>2. WordBits \in Nat /\ WordBits > 0 /\ Len(WordBitsOf(c)) = WordBits
  BY WordWidth, WordCounts
<1>3. \A k \in 0 .. WordBits : vc[k] = IF k = 0 THEN 0 ELSE vc[k - 1] + IF WordBitsOf(c)[k] THEN Power(k - 1) ELSE 0
  BY <1>1, <1>2 DEF Counts
<1>. DEFINE S == {k \in 1 .. WordBits : vc[k] = Bit(cin)}
<1>4. 1 \in S
  <2>1. Power(0) = 1
    BY DEF Power
  <2>2. vc[0] = 0 /\ vc[1] = vc[0] + IF WordBitsOf(c)[1] THEN Power(0) ELSE 0
    <3>1. 0 \in 0 .. WordBits /\ 1 \in 0 .. WordBits /\ 1 - 1 = 0
      BY <1>2
    <3>. QED BY <1>3, <3>1
  <2>3. WordBitsOf(c)[1] <=> cin
    BY <1>2 DEF WordBitsOf, c, CarryWord
  <2>. QED BY <1>2, <2>1, <2>2, <2>3 DEF Bit
<1>5. ASSUME NEW k \in 1 .. WordBits - 1, k \in S PROVE k + 1 \in S
  <2>1. k \in Nat /\ k # 0 /\ k + 1 \in 0 .. WordBits /\ k + 1 \in 1 .. WordBits /\ (k + 1) - 1 = k /\ k + 1 # 0
    BY <1>2
  <2>2. ~WordBitsOf(c)[k + 1]
    BY <2>1 DEF WordBitsOf, c, CarryWord
  <2>3. vc[k + 1] = vc[k] + 0
    BY <1>3, <2>1, <2>2
  <2>4. vc[k] = Bit(cin) /\ Bit(cin) \in Nat
    BY <1>5 DEF Bit
  <2>. QED BY <2>1, <2>3, <2>4
<1>6. WordBits \in S
  <2>1. WordBits \in 1 .. WordBits /\ 1 \in Nat
    BY <1>2
  <2>. HIDE DEF S
  <2>. QED BY <1>2, <1>4, <1>5, <2>1, IntervalInduction
<1>. QED BY <1>1, <1>6 DEF c

\* A carry sequence over a word, and the lanes in which an adder's sum is set.
Carries == [0 .. WordBits -> BOOLEAN]
OddLanes(a, b, carry) == {k \in Lanes : Odd(k \in a, k \in b, carry[k])}

\* "The native add propagates the carry through all lanes": a lane of the sum
\* of two words and a carry-in is what a ripple adder has there.
THEOREM AddRipples ==
  ASSUME NEW a, NEW b, NEW carry \in Carries, Ripples(carry, a, b, carry[0])
  PROVE  WrappingAdd(a, b, CarryWord(carry[0])) = OddLanes(a, b, carry)
<1>. DEFINE c == CarryWord(carry[0])
<1>0. carry \in [0 .. WordBits -> BOOLEAN]
  BY DEF Carries
<1>1. WordBits \in Nat /\ WordBits > 0 /\ Len(WordBitsOf(a)) = WordBits /\ Len(WordBitsOf(b)) = WordBits
  BY WordWidth, WordCounts
<1>2. PICK va : WordValue(a) = va[WordBits] /\ Counts(va, WordBitsOf(a))
  BY WordCounts
<1>3. PICK vb : WordValue(b) = vb[WordBits] /\ Counts(vb, WordBitsOf(b))
  BY WordCounts
<1>4. carry[0] \in BOOLEAN /\ WordValue(c) = Bit(carry[0])
  <2>1. carry[0] \in BOOLEAN
    BY <1>0, <1>1
  <2>. QED BY <2>1, CarryIn
<1>. HIDE DEF c
<1>. DEFINE total == WordValue(a) + WordValue(b) + WordValue(c)
<1>5. WrappingAdd(a, b, c) = {k \in Lanes : (total \div Power(k)) % 2 = 1}
  BY Zenon DEF WrappingAdd, WordFor, Power
<1>6. ASSUME NEW k \in Lanes
      PROVE  (total \div Power(k)) % 2 = 1 <=> Odd(k \in a, k \in b, carry[k])
  <2>1. k \in Nat /\ k \in 0 .. WordBits /\ k + 1 \in 0 .. WordBits /\ k + 1 # 0 /\ (k + 1) - 1 = k
    BY <1>1 DEF Lanes
  <2>2. PICK r : RippleStep(r, va, vb, carry, k)
    BY <1>0, <1>2, <1>3, <2>1, RippleSum
  <2>3. PICK ha \in Nat : va[WordBits] = va[k + 1] + Power(k + 1) * ha
    BY <1>1, <1>2, <2>1, HighPart
  <2>4. PICK hb \in Nat : vb[WordBits] = vb[k + 1] + Power(k + 1) * hb
    BY <1>1, <1>3, <2>1, HighPart
  <2>. DEFINE P == Power(k)
              x == k \in a
              y == k \in b
              z == carry[k]
              s == Bit(Odd(x, y, z))
              m == Bit(Majority(x, y, z))
              d == s + 2 * (m + ha + hb)
  <2>5. P \in Nat /\ P > 0 /\ Power(k + 1) = P + P
    <3>1. Power(k) \in Nat /\ Power(k + 1) = Power(k) + Power(k)
      BY <2>1, PowerCounts, PowerDoubles
    <3>2. r \in 0 .. Power(k) - 1
      BY <2>2 DEF RippleStep
    <3>. QED BY <3>1, <3>2
  <2>6. va[k + 1] = va[k] + P * Bit(x) /\ vb[k + 1] = vb[k] + P * Bit(y)
    <3>1. (WordBitsOf(a)[k + 1] <=> x) /\ (WordBitsOf(b)[k + 1] <=> y)
      <4>1. k + 1 \in 1 .. WordBits
        BY <1>1, <2>1
      <4>. QED BY <2>1, <4>1 DEF WordBitsOf
    <3>2. /\ va[k + 1] = va[k] + IF WordBitsOf(a)[k + 1] THEN Power(k) ELSE 0
          /\ vb[k + 1] = vb[k] + IF WordBitsOf(b)[k + 1] THEN Power(k) ELSE 0
      BY <1>1, <1>2, <1>3, <2>1 DEF Counts
    <3>3. /\ P * Bit(x) = IF x THEN P ELSE 0
          /\ P * Bit(y) = IF y THEN P ELSE 0
      BY <2>5 DEF Bit
    <3>. HIDE DEF x, y
    <3>. QED BY <3>1, <3>2, <3>3
  <2>7. Bit(x) + Bit(y) + Bit(z) = s + 2 * m
    <3>1. x \in BOOLEAN /\ y \in BOOLEAN /\ z \in BOOLEAN
      BY <1>0, <2>1
    <3>. HIDE DEF x, y, z
    <3>. QED BY <3>1, FullAdder
  <2>8. s \in 0 .. 1 /\ m \in 0 .. 1 /\ Bit(x) \in 0 .. 1 /\ Bit(y) \in 0 .. 1 /\ Bit(z) \in 0 .. 1
    BY DEF Bit
  <2>9. /\ va[k] \in Nat /\ vb[k] \in Nat /\ Bit(carry[0]) \in Nat
        /\ r \in 0 .. P - 1 /\ va[k] + vb[k] + Bit(carry[0]) = r + P * Bit(z)
    <3>1. va[k] \in Nat /\ vb[k] \in Nat
      BY <1>1, <1>2, <1>3, <2>1, CountsNatural
    <3>. QED BY <2>2, <3>1 DEF Bit, RippleStep
  <2>10. total = va[WordBits] + vb[WordBits] + Bit(carry[0])
    BY <1>2, <1>3, <1>4, Zenon
  <2>. DEFINE u == va[k]
              v == vb[k]
              cin == Bit(carry[0])
              px == P * Bit(x)
              py == P * Bit(y)
              pz == P * Bit(z)
              qa == (P + P) * ha
              qb == (P + P) * hb
  <2>11. px \in Nat /\ py \in Nat /\ pz \in Nat /\ qa \in Nat /\ qb \in Nat
    BY <2>5, <2>8
  <2>12. P * d = px + py + pz + qa + qb
    <3>1. P * (Bit(x) + Bit(y) + Bit(z)) = px + py + pz
      BY <2>5, <2>8
    <3>2. P * d = P * (s + 2 * m) + qa + qb
      <4>. HIDE DEF P, s, m
      <4>. QED BY <2>5, <2>8
    <3>. HIDE DEF P, x, y, z, d, px, py, pz, qa, qb, s, m
    <3>. QED BY <2>7, <3>1, <3>2
  <2>13. total = (u + px + qa) + (v + py + qb) + cin
    <3>. HIDE DEF total, x, y
    <3>. QED BY <2>3, <2>4, <2>5, <2>6, <2>10
  <2>14. total = P * d + r
    <3>1. u \in Nat /\ v \in Nat /\ cin \in Nat /\ r \in Int /\ u + v + cin = r + pz
      BY <2>5, <2>9
    <3>. HIDE DEF total, u, v, cin, P, x, y, z, d, px, py, pz, qa, qb
    <3>. QED BY <2>11, <2>12, <2>13, <3>1
  <2>15. d \in Nat /\ d % 2 = s
    <3>1. m + ha + hb \in Nat
      BY <2>8
    <3>. HIDE DEF s, m
    <3>. QED BY <2>8, <3>1
  <2>16. total \div P = d
    <3>. HIDE DEF total, d, P
    <3>. QED BY <2>5, <2>9, <2>14, <2>15, DivisionUnique
  <2>17. s = 1 <=> Odd(x, y, z)
    BY DEF Bit
  <2>. HIDE DEF total, d, s
  <2>. QED BY <2>15, <2>16, <2>17
<1>. HIDE DEF total
<1>. QED BY <1>5, <1>6 DEF OddLanes, c

-----------------------------------------------------------------------------
(* What a gather program yields.                                           *)

\* A window fits a word, and its signals have positions.
WindowFits(t, pos, window) ==
  /\ DOMAIN window = 1 .. Len(window) /\ Len(window) \in 0 .. WordBits
  /\ \A j \in Open(t, window) : pos[window[j]] \in Nat

\* Along a contiguous run of a window the positions count up.
LEMMA RunCounts ==
  ASSUME NEW t, NEW pos, NEW window, WindowFits(t, pos, window),
         NEW i \in Open(t, window), NEW j \in i .. Len(window),
         \A k \in i + 1 .. j : Follows(t, pos, window, k)
  PROVE  j \in Open(t, window) /\ pos[window[j]] = pos[window[i]] + (j - i)
<1>. DEFINE S == {m \in i .. j : m \in Open(t, window) /\ pos[window[m]] = pos[window[i]] + (m - i)}
<1>1. Len(window) \in Nat /\ Open(t, window) \subseteq 1 .. Len(window)
      /\ \A m \in Open(t, window) : pos[window[m]] \in Nat
  BY DEF WindowFits, Open
<1>2. i \in Nat /\ j \in Nat /\ i <= j
  BY <1>1
<1>3. i \in S
  BY <1>1, <1>2
<1>4. ASSUME NEW m \in i .. j - 1, m \in S PROVE m + 1 \in S
  <2>1. m \in Nat /\ m + 1 \in i + 1 .. j /\ m + 1 \in i .. j /\ (m + 1) - 1 = m
    BY <1>2
  <2>2. Follows(t, pos, window, m + 1)
    BY <2>1
  <2>3. m + 1 \in Open(t, window) /\ pos[window[m + 1]] = pos[window[m]] + 1
    BY <2>1, <2>2 DEF Follows
  <2>4. m \in Open(t, window) /\ pos[window[m]] = pos[window[i]] + (m - i)
    BY <1>4
  <2>5. pos[window[m]] \in Nat /\ pos[window[i]] \in Nat
    BY <1>1, <2>4
  <2>6. pos[window[m + 1]] = pos[window[i]] + ((m + 1) - i)
    <3>. DEFINE here == pos[window[m]]
                first == pos[window[i]]
                next == pos[window[m + 1]]
    <3>1. next = here + 1 /\ here = first + (m - i)
      BY <2>3, <2>4
    <3>2. here \in Nat /\ first \in Nat /\ m \in Nat /\ i \in Nat
      BY <1>2, <2>1, <2>5
    <3>3. next = first + ((m + 1) - i)
      <4>. HIDE DEF here, first, next
      <4>. QED BY <3>1, <3>2
    <3>. QED BY <3>3
  <2>. QED BY <2>1, <2>3, <2>6
<1>5. \A m \in i .. j : m \in S
  <2>. HIDE DEF S
  <2>. QED BY <1>2, <1>3, <1>4, IntervalInduction
<1>. QED BY <1>2, <1>5

\* A funnel moves a run of the window, a splat copies one source to the bits
\* that ask for it, and together they serve every bit.
FunnelShape(t, pos, window, seg) ==
  \E i \in Open(t, window) : \E run \in SUBSET Open(t, window) :
    /\ i \in run /\ seg.src = pos[window[i]] /\ seg.shift = i - 1 /\ seg.mask = {j - 1 : j \in run}
    /\ \A j \in run : j - i \in Lanes /\ pos[window[j]] = pos[window[i]] + (j - i)
SplatShape(t, pos, window, seg) ==
  \E i \in Open(t, window) : \E same \in SUBSET Open(t, window) :
    /\ i \in same /\ seg.src = pos[window[i]] /\ seg.mask = {j - 1 : j \in same}
    /\ \A j \in same : pos[window[j]] = pos[window[i]]
Serves(stream, lane) ==
  (\E seg \in stream.funnels : lane \in seg.mask) \/ (\E seg \in stream.splats : lane \in seg.mask)

\* What plan_stream makes of a window: every segment moves the bits of its
\* lanes, and every lane that needs a bit is served by one.
LEMMA StreamShape ==
  ASSUME NEW t, NEW pos, NEW window, WindowFits(t, pos, window)
  PROVE  LET stream == plan_stream(t, pos, window) IN
         /\ stream.imm = {i - 1 : i \in {j \in DOMAIN window : IsTrueSlot(t, window[j])}}
         /\ \A seg \in stream.funnels : FunnelShape(t, pos, window, seg)
         /\ \A seg \in stream.splats : SplatShape(t, pos, window, seg)
         /\ \A j \in Open(t, window) : Serves(stream, j - 1)
<1>. DEFINE n == Len(window)
            open == Open(t, window)
            source(i) == pos[window[i]]
            runAt(i) == {j \in i .. n : \A k \in i + 1 .. j : Follows(t, pos, window, k)}
            F == {i \in open : ~Follows(t, pos, window, i) /\ Cardinality(runAt(i)) >= FunnelMin}
            rest == open \ UNION {runAt(i) : i \in F}
            moved(i) == {j - 1 : j \in runAt(i)}
            fun(i) == [src |-> source(i), shift |-> i - 1, mask |-> moved(i)]
            alike(i) == {k \in rest : source(k) = source(i)}
            copied(i) == {j - 1 : j \in alike(i)}
            spl(i) == [src |-> source(i), mask |-> copied(i)]
            imm == {i - 1 : i \in {j \in DOMAIN window : IsTrueSlot(t, window[j])}}
            stream == plan_stream(t, pos, window)
<1>1. stream = [imm |-> imm, funnels |-> {fun(i) : i \in F}, splats |-> {spl(i) : i \in rest}]
  BY Zenon DEF plan_stream
<1>2. stream.imm = imm /\ stream.funnels = {fun(i) : i \in F} /\ stream.splats = {spl(i) : i \in rest}
  <2>. HIDE DEF imm, fun, spl, F, rest, stream
  <2>. QED BY <1>1
<1>3. /\ n \in Nat /\ n <= WordBits /\ open \subseteq 1 .. n /\ WordBits \in Nat
      /\ \A i \in open : source(i) \in Nat
  BY WordWidth DEF WindowFits, Open
<1>. HIDE DEF n, open
<1>4. \A i \in F : i \in open
  <2>. HIDE DEF runAt
  <2>. QED OBVIOUS
<1>5. \A j \in rest : j \in open
  <2>. HIDE DEF runAt, F
  <2>. QED OBVIOUS
<1>6. ASSUME NEW i \in open, NEW j \in runAt(i)
      PROVE  j \in open /\ source(j) = source(i) + (j - i) /\ j - i \in Lanes
  <2>1. j \in i .. n /\ \A k \in i + 1 .. j : Follows(t, pos, window, k)
    OBVIOUS
  <2>2. j \in open /\ source(j) = source(i) + (j - i)
    BY <2>1, RunCounts DEF n, open
  <2>3. j - i \in Lanes
    <3>. HIDE DEF runAt, source
    <3>. QED BY <1>3, <2>1 DEF Lanes
  <2>. QED BY <2>2, <2>3
<1>7. ASSUME NEW i \in open PROVE i \in runAt(i)
  <2>1. i \in i .. n /\ i + 1 .. i = {}
    BY <1>3
  <2>. QED BY <2>1
<1>8. ASSUME NEW i \in F PROVE FunnelShape(t, pos, window, fun(i))
  <2>1. fun(i).src = source(i) /\ fun(i).shift = i - 1 /\ fun(i).mask = moved(i)
    <3>. HIDE DEF source, moved
    <3>. QED OBVIOUS
  <2>2. i \in open
    BY <1>4
  <2>3. i \in runAt(i)
    BY <1>7, <2>2
  <2>4. runAt(i) \in SUBSET open
    <3>. HIDE DEF runAt
    <3>. QED BY <1>6, <2>2
  <2>5. \A j \in runAt(i) : j - i \in Lanes /\ source(j) = source(i) + (j - i)
    <3>. HIDE DEF runAt
    <3>. QED BY <1>6, <2>2
  <2>. HIDE DEF fun, runAt, F
  <2>. QED BY <2>1, <2>2, <2>3, <2>4, <2>5 DEF FunnelShape, open
<1>9. ASSUME NEW i \in rest PROVE SplatShape(t, pos, window, spl(i))
  <2>1. spl(i).src = source(i) /\ spl(i).mask = copied(i)
    <3>. HIDE DEF source, copied
    <3>. QED OBVIOUS
  <2>2. i \in open /\ i \in alike(i) /\ alike(i) \in SUBSET open
    <3>. HIDE DEF rest, source
    <3>. QED BY <1>5
  <2>3. \A j \in alike(i) : source(j) = source(i)
    <3>. HIDE DEF rest, source
    <3>. QED OBVIOUS
  <2>. HIDE DEF spl, alike, rest
  <2>. QED BY <2>1, <2>2, <2>3 DEF SplatShape, open
<1>10. ASSUME NEW j \in open PROVE Serves(stream, j - 1)
  <2>1. CASE j \in rest
    <3>1. spl(j) \in stream.splats
      <4>. HIDE DEF spl, rest, stream
      <4>. QED BY <1>2, <2>1
    <3>2. spl(j).mask = copied(j)
      <4>. HIDE DEF source, copied
      <4>. QED OBVIOUS
    <3>3. j - 1 \in copied(j)
      <4>. HIDE DEF rest, source
      <4>. QED BY <2>1
    <3>. HIDE DEF spl, copied, stream
    <3>. QED BY <3>1, <3>2, <3>3 DEF Serves
  <2>2. CASE j \notin rest
    <3>1. PICK i \in F : j \in runAt(i)
      <4>. HIDE DEF runAt, F
      <4>. QED BY <2>2
    <3>2. fun(i) \in stream.funnels
      <4>. HIDE DEF fun, F, stream
      <4>. QED BY <1>2, <3>1
    <3>3. fun(i).mask = moved(i) /\ j - 1 \in moved(i)
      <4>1. fun(i).mask = moved(i)
        <5>. HIDE DEF source, moved
        <5>. QED OBVIOUS
      <4>2. j - 1 \in moved(i)
        <5>. HIDE DEF runAt
        <5>. QED BY <3>1
      <4>. QED BY <4>1, <4>2
    <3>. HIDE DEF fun, moved, stream
    <3>. QED BY <3>2, <3>3 DEF Serves
  <2>. QED BY <2>1, <2>2
<1>11. \A seg \in stream.funnels : FunnelShape(t, pos, window, seg)
  <2>. HIDE DEF fun, F, stream
  <2>. QED BY <1>2, <1>8
<1>12. \A seg \in stream.splats : SplatShape(t, pos, window, seg)
  <2>. HIDE DEF spl, rest, stream
  <2>. QED BY <1>2, <1>9
<1>. HIDE DEF stream, imm
<1>. QED BY <1>2, <1>10, <1>11, <1>12 DEF stream, imm, open

\* The word of a window: a constant bit has its value, a signal the bit at
\* its place, an absent bit is low.
WindowWord(t, pos, window, arena) ==
  {i - 1 : i \in {j \in DOMAIN window :
     IsTrueSlot(t, window[j]) \/ (j \in Open(t, window) /\ BitAt(arena, pos[window[j]]))}}

\* A gather yields the word of its window, whatever part of it the plan
\* makes immediate, funnels or splats, on any layout and for any threshold.
THEOREM GatherExact ==
  ASSUME NEW t, NEW pos, NEW window, WindowFits(t, pos, window),
         NEW arena, \A j \in Open(t, window) : Loadable(arena, pos[window[j]])
  PROVE  gather(arena, plan_stream(t, pos, window)) = WindowWord(t, pos, window, arena)
<1>. DEFINE open == Open(t, window)
            source(i) == pos[window[i]]
            bit(i) == BitAt(arena, source(i))
            imm == {i - 1 : i \in {j \in DOMAIN window : IsTrueSlot(t, window[j])}}
            stream == plan_stream(t, pos, window)
<1>1. /\ stream.imm = imm
      /\ \A seg \in stream.funnels : FunnelShape(t, pos, window, seg)
      /\ \A seg \in stream.splats : SplatShape(t, pos, window, seg)
      /\ \A j \in open : Serves(stream, j - 1)
  BY StreamShape
<1>. HIDE DEF stream, imm
<1>2. open \subseteq 1 .. Len(window) /\ Len(window) <= WordBits /\ Len(window) \in Nat
      /\ WordBits \in Nat /\ DOMAIN window = 1 .. Len(window) /\ \A i \in open : source(i) \in Nat
  BY WordWidth DEF WindowFits, Open
<1>3. ASSUME NEW seg \in stream.funnels, NEW x
      PROVE  x \in Funnel(arena, seg) <=> \E j \in open : j - 1 \in seg.mask /\ x = j - 1 /\ bit(j)
  <2>1. PICK i \in open, run \in SUBSET open :
          /\ i \in run /\ seg.src = source(i) /\ seg.shift = i - 1 /\ seg.mask = {j - 1 : j \in run}
          /\ \A j \in run : j - i \in Lanes /\ source(j) = source(i) + (j - i)
    BY <1>1 DEF FunnelShape
  <2>. HIDE DEF open, source
  <2>2. seg.mask \subseteq Lanes /\ seg.shift \in Nat /\ Loadable(arena, seg.src) /\ i \in Int
    BY <1>2, <2>1 DEF Lanes, open, source
  <2>3. x \in Funnel(arena, seg) <=>
          x \in seg.mask /\ x - seg.shift \in Lanes /\ BitAt(arena, seg.src + (x - seg.shift))
    BY <2>2, FunnelMoves
  <2>4. ASSUME NEW j \in open, j - 1 \in seg.mask
        PROVE  (j - 1) - seg.shift \in Lanes /\ seg.src + ((j - 1) - seg.shift) = source(j)
    <3>1. PICK k \in run : j - 1 = k - 1
      BY <2>1, <2>4
    <3>2. k = j
      BY <1>2, <3>1
    <3>3. j \in run /\ (j - 1) - seg.shift = j - i
      BY <1>2, <2>1, <2>2, <3>1, <3>2
    <3>. QED BY <2>1, <3>3
  <2>5. x \in seg.mask <=> \E j \in open : j - 1 \in seg.mask /\ x = j - 1
    BY <2>1
  <2>. QED BY <2>3, <2>4, <2>5
<1>4. ASSUME NEW seg \in stream.splats, NEW x
      PROVE  x \in Splat(arena, seg) <=> \E j \in open : j - 1 \in seg.mask /\ x = j - 1 /\ bit(j)
  <2>1. PICK i \in open, same \in SUBSET open :
          /\ i \in same /\ seg.src = source(i) /\ seg.mask = {j - 1 : j \in same}
          /\ \A j \in same : source(j) = source(i)
    BY <1>1 DEF SplatShape
  <2>. HIDE DEF open, source
  <2>2. ASSUME NEW j \in open, j - 1 \in seg.mask PROVE source(j) = seg.src
    <3>1. PICK k \in same : j - 1 = k - 1
      BY <2>1, <2>2
    <3>2. k = j
      BY <1>2, <3>1
    <3>. QED BY <2>1, <3>1, <3>2
  <2>3. x \in seg.mask <=> \E j \in open : j - 1 \in seg.mask /\ x = j - 1
    BY <2>1
  <2>. QED BY <2>2, <2>3 DEF Splat
<1>5. ASSUME NEW x
      PROVE  x \in gather(arena, stream) <=> x \in imm \/ \E j \in open : x = j - 1 /\ bit(j)
  <2>1. x \in gather(arena, stream) <=>
          \/ x \in imm
          \/ \E seg \in stream.funnels : x \in Funnel(arena, seg)
          \/ \E seg \in stream.splats : x \in Splat(arena, seg)
    BY <1>1 DEF gather
  <2>2. \A j \in open : \/ \E seg \in stream.funnels : j - 1 \in seg.mask
                       \/ \E seg \in stream.splats : j - 1 \in seg.mask
    BY <1>1 DEF Serves
  <2>. HIDE DEF open, bit
  <2>. QED BY <1>3, <1>4, <2>1, <2>2
<1>6. ASSUME NEW x
      PROVE  x \in WindowWord(t, pos, window, arena) <=> x \in imm \/ \E j \in open : x = j - 1 /\ bit(j)
  <2>1. x \in WindowWord(t, pos, window, arena) <=>
          \E j \in DOMAIN window : x = j - 1 /\ (IsTrueSlot(t, window[j]) \/ (j \in open /\ bit(j)))
    BY DEF WindowWord, open
  <2>2. x \in imm <=> \E j \in DOMAIN window : x = j - 1 /\ IsTrueSlot(t, window[j])
    BY DEF imm
  <2>. HIDE DEF bit
  <2>. QED BY <1>2, <2>1, <2>2
<1>. HIDE DEF bit
<1>7. gather(arena, stream) = WindowWord(t, pos, window, arena)
  BY <1>5, <1>6
<1>. QED BY <1>7 DEF stream

\* A gather program has the types of one, and moves bits of its window only.
LEMMA StreamOfWindow ==
  ASSUME NEW t, NEW pos, NEW window, WindowFits(t, pos, window)
  PROVE  LET stream == plan_stream(t, pos, window)
             sources == {pos[window[j]] : j \in Open(t, window)} IN
         /\ stream.imm \subseteq Lanes
         /\ \A seg \in stream.funnels \cup stream.splats :
              seg.src \in sources /\ seg.src \in Nat /\ seg.mask \subseteq Lanes
         /\ \A seg \in stream.funnels :
              seg.shift \in Nat /\ \A k \in seg.mask : seg.src + k - seg.shift \in sources
<1>. DEFINE open == Open(t, window)
            source(i) == pos[window[i]]
            stream == plan_stream(t, pos, window)
            sources == {pos[window[j]] : j \in Open(t, window)}
<1>1. /\ stream.imm = {i - 1 : i \in {j \in DOMAIN window : IsTrueSlot(t, window[j])}}
      /\ \A seg \in stream.funnels : FunnelShape(t, pos, window, seg)
      /\ \A seg \in stream.splats : SplatShape(t, pos, window, seg)
  BY StreamShape
<1>. HIDE DEF stream
<1>2. open \subseteq 1 .. Len(window) /\ Len(window) <= WordBits /\ Len(window) \in Nat
      /\ WordBits \in Nat /\ DOMAIN window = 1 .. Len(window) /\ \A i \in open : source(i) \in Nat
  BY WordWidth DEF WindowFits, Open
<1>3. stream.imm \subseteq Lanes
  BY <1>1, <1>2 DEF Lanes
<1>4. ASSUME NEW seg \in stream.funnels
      PROVE  /\ seg.src \in sources /\ seg.src \in Nat /\ seg.mask \subseteq Lanes /\ seg.shift \in Nat
             /\ \A k \in seg.mask : seg.src + k - seg.shift \in sources
  <2>1. PICK i \in open, run \in SUBSET open :
          /\ i \in run /\ seg.src = source(i) /\ seg.shift = i - 1 /\ seg.mask = {j - 1 : j \in run}
          /\ \A j \in run : j - i \in Lanes /\ source(j) = source(i) + (j - i)
    BY <1>1 DEF FunnelShape
  <2>2. seg.src \in sources /\ seg.src \in Nat /\ i \in 1 .. Len(window) /\ seg.shift \in Nat
    BY <1>2, <2>1
  <2>. HIDE DEF open, source
  <2>3. seg.mask \subseteq Lanes
    BY <1>2, <2>1 DEF Lanes
  <2>4. ASSUME NEW k \in seg.mask PROVE seg.src + k - seg.shift \in sources
    <3>1. PICK j \in run : k = j - 1
      BY <2>1
    <3>2. j \in Int /\ source(i) \in Nat
      BY <1>2, <2>1, <3>1
    <3>3. seg.src + k - seg.shift = source(j)
      BY <2>1, <2>2, <3>1, <3>2
    <3>. QED BY <3>1, <3>3 DEF open, source
  <2>. HIDE DEF sources
  <2>. QED BY <2>2, <2>3, <2>4
<1>5. ASSUME NEW seg \in stream.splats
      PROVE  seg.src \in sources /\ seg.src \in Nat /\ seg.mask \subseteq Lanes
  <2>1. PICK i \in open, same \in SUBSET open :
          i \in same /\ seg.src = source(i) /\ seg.mask = {j - 1 : j \in same}
    BY <1>1 DEF SplatShape
  <2>2. seg.src \in sources /\ seg.src \in Nat
    BY <1>2, <2>1
  <2>. HIDE DEF open, source
  <2>3. seg.mask \subseteq Lanes
    BY <1>2, <2>1 DEF Lanes
  <2>. QED BY <2>2, <2>3
<1>. HIDE DEF sources
<1>. QED BY <1>3, <1>4, <1>5 DEF stream, sources

-----------------------------------------------------------------------------
(* What a plan computes.                                                   *)

Arenas(p) == [0 .. p.words - 1 -> SUBSET Lanes]

\* Words, positions and masks are what they are taken for.
StreamTyped(stream) ==
  /\ stream.imm \subseteq Lanes
  /\ \A seg \in stream.funnels \cup stream.splats : seg.src \in Nat /\ seg.mask \subseteq Lanes
  /\ \A seg \in stream.funnels : seg.shift \in Nat
PlanTyped(t, p) ==
  /\ p.words \in Nat /\ p.reg_word \in Nat /\ p.staging_words \in Nat
  /\ DOMAIN p.pos = Slots(t)
  /\ \A s \in Placed(p) : p.pos[s] \in Nat /\ WordOf(p.pos[s]) < p.words
  /\ p.reg_init \in Seq(SUBSET Lanes) /\ DOMAIN p.capture = DOMAIN p.reg_init
  /\ Len(p.reg_init) <= p.staging_words /\ p.reg_word + Len(p.reg_init) <= p.words
  /\ Len(p.tasks) \in Nat /\ DOMAIN p.tasks = 1 .. Len(p.tasks)
  /\ \A k \in DOMAIN p.tasks : p.tasks[k].dst \in 0 .. p.words - 1 /\ AccessTyped(p.tasks[k].read)
  /\ Len(p.writes) \in Nat /\ DOMAIN p.writes = 1 .. Len(p.writes)
  /\ \A k \in DOMAIN p.writes : AccessTyped(p.writes[k]) /\ p.writes[k].enable_pos \in Nat
  /\ \A stream \in StreamsOf(p) : StreamTyped(stream)

\* On every settled tape a task computes the gates of its word, and the
\* capture the next value of every register; and every gate that has a place
\* is of the word of some task.
Computes(t, p, task, values) ==
  LET arena == Holding(p, values) IN
  \A s \in Placed(p) : WordOf(p.pos[s]) = task.dst =>
    (Offset(p.pos[s]) \in TaskWord(arena, arena, task) <=> values[s])
Captures(t, p, values) ==
  LET arena == Holding(p, values)
      stage == Written(arena, p.writes, [k \in DOMAIN p.capture |-> gather(arena, p.capture[k])])
  IN  \A r \in Registers(t) :
        Offset(r - 1) \in stage[WordOf(r - 1) + 1] <=> values[t.reg_in_slots[r]]
Faithful(t, p) ==
  /\ \A s \in Placed(p) \ Sources(t) : \E k \in DOMAIN p.tasks : p.tasks[k].dst = WordOf(p.pos[s])
  /\ \A high \in SUBSET PlacedSources(t, p) :
       /\ \A k \in DOMAIN p.tasks : Computes(t, p, p.tasks[k], SettledWith(t, high))
       /\ Captures(t, p, SettledWith(t, high))

\* What the engine relies on. That it follows from how a plan is built is the
\* last theorem of this module.
PlanContract(t, p) ==
  /\ PlanTyped(t, p) /\ LaidOut(t, p) /\ LoadsInBounds(p)
  /\ ReadsSignals(t, p) /\ WritesPrecedeReads(t, p) /\ Faithful(t, p)

-----------------------------------------------------------------------------
(* Places and values.                                                      *)

Laid(t, p) == TapeContract(t) /\ LaidOut(t, p)

\* A constant slot has one value.
LEMMA ConstSlots ==
  ASSUME NEW t, TapeContract(t)
  PROVE  /\ \A s : IsTrueSlot(t, s) => IsConstSlot(t, s)
         /\ \A k \in DOMAIN t.const_slots :
              /\ t.const_slots[k][1] \in Sources(t) /\ t.const_slots[k][1] \in Slots(t)
              /\ IsConstSlot(t, t.const_slots[k][1])
              /\ IsTrueSlot(t, t.const_slots[k][1]) = t.const_slots[k][2]
<1>1. ASSUME NEW s, NEW k \in DOMAIN t.const_slots
      PROVE  t.const_slots[k] = <<s, TRUE>> <=> t.const_slots[k][1] = s /\ t.const_slots[k][2] = TRUE
  <2>1. t.const_slots[k] \in Slots(t) \X BOOLEAN
    BY DEF TapeContract, FieldsTyped
  <2>. DEFINE u == t.const_slots[k][1]
              v == t.const_slots[k][2]
  <2>2. t.const_slots[k] = <<u, v>> /\ u \in Slots(t) /\ v \in BOOLEAN
    BY <2>1
  <2>. HIDE DEF u, v
  <2>3. ASSUME u = s, v = TRUE PROVE <<u, v>> = <<s, TRUE>>
    BY <2>3, Zenon
  <2>4. ASSUME <<u, v>> = <<s, TRUE>> PROVE u = s /\ v
    BY <2>2, <2>4
  <2>5. t.const_slots[k] = <<s, TRUE>> <=> u = s /\ v = TRUE
    BY <2>2, <2>3, <2>4
  <2>. QED BY <2>5 DEF u, v
<1>2. \A s : IsTrueSlot(t, s) => IsConstSlot(t, s)
  BY <1>1 DEF IsTrueSlot, IsConstSlot
<1>3. ASSUME NEW k \in DOMAIN t.const_slots
      PROVE  /\ t.const_slots[k][1] \in Sources(t) /\ t.const_slots[k][1] \in Slots(t)
             /\ IsConstSlot(t, t.const_slots[k][1])
             /\ IsTrueSlot(t, t.const_slots[k][1]) = t.const_slots[k][2]
  <2>. DEFINE s == t.const_slots[k][1]
              v == t.const_slots[k][2]
  <2>1. s \in Sources(t) /\ s \in Slots(t) /\ v \in BOOLEAN
    BY DEF TapeContract, FieldsTyped, SourcesDisjoint
  <2>2. \A j \in DOMAIN t.const_slots : t.const_slots[j][1] = s => j = k
    BY DEF TapeContract, SourcesDisjoint
  <2>3. IsConstSlot(t, s)
    BY DEF IsConstSlot
  <2>4. IsTrueSlot(t, s) <=> v
    <3>. HIDE DEF s, v
    <3>1. ASSUME IsTrueSlot(t, s) PROVE v
      <4>1. PICK j \in DOMAIN t.const_slots : t.const_slots[j][1] = s /\ t.const_slots[j][2] = TRUE
        BY <1>1, <3>1 DEF IsTrueSlot
      <4>2. j = k
        BY <2>2, <4>1
      <4>. QED BY <4>1, <4>2 DEF v
    <3>2. ASSUME v PROVE IsTrueSlot(t, s)
      <4>1. t.const_slots[k][1] = s /\ t.const_slots[k][2] = TRUE
        BY <2>1, <3>2 DEF s, v
      <4>2. t.const_slots[k] = <<s, TRUE>>
        BY <1>1, <4>1
      <4>. QED BY <4>2 DEF IsTrueSlot
    <3>. QED BY <3>1, <3>2
  <2>5. IsTrueSlot(t, s) \in BOOLEAN
    BY DEF IsTrueSlot
  <2>. HIDE DEF s, v
  <2>6. IsTrueSlot(t, s) = v
    BY <2>1, <2>4, <2>5
  <2>. QED BY <2>1, <2>3, <2>6 DEF s, v
<1>. QED BY <1>2, <1>3

\* A signal that has a place has its own, in the arena with a word above it,
\* and no constant has one.
LEMMA Places ==
  ASSUME NEW t, NEW p, Laid(t, p)
  PROVE  /\ Placed(p) \subseteq Slots(t) /\ p.words \in Nat
         /\ \A s \in Placed(p) :
              /\ p.pos[s] \in Nat /\ WordOf(p.pos[s]) \in 0 .. p.words - 1 /\ Offset(p.pos[s]) \in Lanes
              /\ p.pos[s] = WordBits * WordOf(p.pos[s]) + Offset(p.pos[s])
              /\ InBounds(p, p.pos[s])
         /\ \A s \in PlacedSources(t, p) : ~IsConstSlot(t, s) /\ ~IsTrueSlot(t, s)
<1>. USE DEF Laid
<1>1. Placed(p) \subseteq Slots(t) /\ p.words \in Nat
  BY DEF LaidOut, Placed
<1>2. ASSUME NEW s \in Placed(p)
      PROVE  /\ p.pos[s] \in Nat /\ WordOf(p.pos[s]) \in 0 .. p.words - 1 /\ Offset(p.pos[s]) \in Lanes
             /\ p.pos[s] = WordBits * WordOf(p.pos[s]) + Offset(p.pos[s])
             /\ InBounds(p, p.pos[s])
  <2>1. p.pos[s] \in Nat /\ WordOf(p.pos[s]) + 1 < p.words
    BY DEF LaidOut
  <2>. QED BY <1>1, <2>1, PositionSplit DEF InBounds
<1>3. ASSUME NEW s \in PlacedSources(t, p) PROVE ~IsConstSlot(t, s) /\ ~IsTrueSlot(t, s)
  <2>1. \/ \E i \in InputIds(t) : t.input_slots[i] = s
        \/ \E r \in Registers(t) : t.reg_out_slots[r] = s
    BY DEF LaidOut
  <2>2. \A k \in DOMAIN t.const_slots : t.const_slots[k][1] # s
    BY <2>1 DEF TapeContract, SourcesDisjoint
  <2>3. ~IsConstSlot(t, s)
    BY <2>2 DEF IsConstSlot
  <2>4. ~IsTrueSlot(t, s)
    BY <2>3, ConstSlots
  <2>. QED BY <2>3, <2>4
<1>. QED BY <1>1, <1>2, <1>3

\* The values of a settled tape, constants included.
SettledValues(t, v) ==
  /\ v \in Buffers(t) /\ Settled(t, v)
  /\ \A s \in Slots(t) : IsConstSlot(t, s) => v[s] = IsTrueSlot(t, s)

\* What SettledWith yields is a settled buffer with the given sources.
LEMMA SettledWithHigh ==
  ASSUME NEW t, NEW p, Laid(t, p), NEW high \in SUBSET PlacedSources(t, p)
  PROVE  /\ SettledValues(t, SettledWith(t, high))
         /\ \A s \in PlacedSources(t, p) : SettledWith(t, high)[s] <=> s \in high
<1>. DEFINE sources == [s \in Slots(t) |-> IsTrueSlot(t, s) \/ s \in high]
            values == settle(t, sources)
<1>1. TapeContract(t) /\ sources \in Buffers(t) /\ SettledWith(t, high) = values
  BY DEF Laid, Buffers, SettledWith, IsTrueSlot
<1>2. \A s \in Slots(t) : sources[s] = (IsTrueSlot(t, s) \/ s \in high)
  OBVIOUS
<1>. HIDE DEF sources
<1>3. /\ values \in Buffers(t) /\ Settled(t, values)
      /\ \A s \in Sources(t) : values[s] = sources[s]
  BY <1>1, SettleSettles DEF Sources
<1>. HIDE DEF values
<1>4. ASSUME NEW s \in PlacedSources(t, p) PROVE values[s] <=> s \in high
  <2>1. s \in Sources(t) /\ s \in Slots(t) /\ ~IsTrueSlot(t, s)
    BY Places DEF PlacedSources
  <2>. QED BY <1>2, <1>3, <2>1
<1>5. ASSUME NEW s \in Slots(t), IsConstSlot(t, s) PROVE values[s] = IsTrueSlot(t, s)
  <2>1. s \notin high
    BY <1>5, Places
  <2>2. s \in Sources(t)
    BY <1>1, <1>5 DEF IsConstSlot, TapeContract, SourcesDisjoint
  <2>. QED BY <1>2, <1>3, <2>1, <2>2 DEF IsTrueSlot
<1>. QED BY <1>1, <1>3, <1>4, <1>5 DEF SettledValues

\* The arena that holds a buffer holds the value of each signal at its place.
LEMMA HoldingHolds ==
  ASSUME NEW t, NEW p, Laid(t, p), NEW values
  PROVE  /\ Holding(p, values) \in Arenas(p)
         /\ \A s \in Placed(p) : BitAt(Holding(p, values), p.pos[s]) <=> values[s]
<1>1. Holding(p, values) \in Arenas(p)
  BY DEF Holding, Arenas
<1>2. ASSUME NEW s \in Placed(p) PROVE BitAt(Holding(p, values), p.pos[s]) <=> values[s]
  <2>. DEFINE w == WordOf(p.pos[s])
              l == Offset(p.pos[s])
  <2>1. w \in 0 .. p.words - 1 /\ l \in Lanes /\ p.pos[s] = WordBits * w + l
    BY Places
  <2>. HIDE DEF w, l
  <2>2. Holding(p, values)[w] = {k \in Lanes : \E u \in Placed(p) : p.pos[u] = WordBits * w + k /\ values[u]}
    BY <2>1 DEF Holding
  <2>3. l \in Holding(p, values)[w] <=> \E u \in Placed(p) : p.pos[u] = p.pos[s] /\ values[u]
    BY <2>1, <2>2
  <2>4. (\E u \in Placed(p) : p.pos[u] = p.pos[s] /\ values[u]) <=> values[s]
    BY DEF Laid, LaidOut
  <2>. QED BY <2>3, <2>4 DEF BitAt, w, l
<1>. QED BY <1>1, <1>2

\* A segment of a plan may be gathered from any arena.
LEMMA ArenaLoadable ==
  ASSUME NEW p, p.words \in Nat, NEW x \in Arenas(p), NEW position \in Nat, InBounds(p, position)
  PROVE  Loadable(x, position)
<1>1. WordOf(position) \in Nat
  BY PositionSplit
<1>2. WordOf(position) \in 0 .. p.words - 1 /\ WordOf(position) + 1 \in 0 .. p.words - 1
  BY <1>1 DEF InBounds
<1>. QED BY <1>2 DEF Loadable, Arenas

-----------------------------------------------------------------------------
(* Operand words.                                                          *)

\* The values of the slots of a window, absent ones low.
ValueWord(window, values) ==
  {i - 1 : i \in {j \in DOMAIN window : window[j] # NoSlot /\ values[window[j]]}}

WindowGathered(t, p, window) ==
  /\ DOMAIN window = 1 .. Len(window) /\ Len(window) \in 0 .. WordBits
  /\ \A i \in DOMAIN window : Gathered(t, p, window[i])

\* A stream of a window whose slots have places, from an arena that holds a
\* settled tape, yields their values.
LEMMA GatherHolds ==
  ASSUME NEW t, NEW p, Laid(t, p), NEW values, SettledValues(t, values),
         NEW window, WindowGathered(t, p, window)
  PROVE  gather(Holding(p, values), plan_stream(t, p.pos, window)) = ValueWord(window, values)
<1>. DEFINE arena == Holding(p, values)
<1>1. ASSUME NEW j \in Open(t, window)
      PROVE  /\ window[j] \in Placed(p) /\ p.pos[window[j]] \in Nat
             /\ Loadable(arena, p.pos[window[j]])
             /\ BitAt(arena, p.pos[window[j]]) <=> values[window[j]]
  <2>1. window[j] \in Placed(p)
    BY DEF Open, WindowGathered, Gathered
  <2>2. p.pos[window[j]] \in Nat /\ InBounds(p, p.pos[window[j]]) /\ p.words \in Nat
    BY <2>1, Places
  <2>3. arena \in Arenas(p) /\ (BitAt(arena, p.pos[window[j]]) <=> values[window[j]])
    BY <2>1, HoldingHolds
  <2>. HIDE DEF arena
  <2>. QED BY <2>1, <2>2, <2>3, ArenaLoadable
<1>. HIDE DEF arena
<1>2. WindowFits(t, p.pos, window)
  BY <1>1 DEF WindowFits, WindowGathered
<1>3. gather(arena, plan_stream(t, p.pos, window)) = WindowWord(t, p.pos, window, arena)
  BY <1>1, <1>2, GatherExact
<1>4. ASSUME NEW j \in DOMAIN window
      PROVE  IsTrueSlot(t, window[j]) \/ (j \in Open(t, window) /\ BitAt(arena, p.pos[window[j]]))
               <=> window[j] # NoSlot /\ values[window[j]]
  <2>1. CASE IsConstSlot(t, window[j])
    <3>1. window[j] \in Slots(t)
      BY <2>1 DEF Laid, TapeContract, SourcesDisjoint, Sources, IsConstSlot
    <3>2. window[j] # NoSlot
      BY <3>1 DEF Slots, NoSlot
    <3>3. values[window[j]] = IsTrueSlot(t, window[j])
      BY <2>1, <3>1 DEF SettledValues
    <3>. QED BY <2>1, <3>2, <3>3 DEF Open
  <2>2. CASE ~IsConstSlot(t, window[j])
    <3>1. ~IsTrueSlot(t, window[j])
      BY <2>2, ConstSlots DEF Laid
    <3>2. j \in Open(t, window) <=> window[j] # NoSlot
      BY <2>2 DEF Open
    <3>. QED BY <1>1, <3>1, <3>2
  <2>. QED BY <2>1, <2>2
<1>5. WindowWord(t, p.pos, window, arena) = ValueWord(window, values)
  BY <1>4 DEF WindowWord, ValueWord
<1>. QED BY <1>3, <1>5 DEF arena

\* It reads places of signals only.
LEMMA StreamReads ==
  ASSUME NEW t, NEW p, Laid(t, p), NEW window, WindowGathered(t, p, window)
  PROVE  LET stream == plan_stream(t, p.pos, window) IN
         /\ StreamTyped(stream) /\ Reads(stream) \subseteq Positioned(p)
         /\ \A seg \in stream.funnels \cup stream.splats : InBounds(p, seg.src)
<1>. DEFINE stream == plan_stream(t, p.pos, window)
            sources == {p.pos[window[j]] : j \in Open(t, window)}
<1>1. ASSUME NEW j \in Open(t, window) PROVE window[j] \in Placed(p) /\ p.pos[window[j]] \in Nat
  <2>1. window[j] \in Placed(p)
    BY DEF Open, WindowGathered, Gathered
  <2>. QED BY <2>1, Places
<1>2. WindowFits(t, p.pos, window)
  BY <1>1 DEF WindowFits, WindowGathered
<1>3. sources \subseteq Positioned(p) /\ \A q \in Positioned(p) : InBounds(p, q)
  BY <1>1, Places DEF Positioned
<1>4. /\ stream.imm \subseteq Lanes
      /\ \A seg \in stream.funnels \cup stream.splats :
           seg.src \in sources /\ seg.src \in Nat /\ seg.mask \subseteq Lanes
      /\ \A seg \in stream.funnels :
           seg.shift \in Nat /\ \A k \in seg.mask : seg.src + k - seg.shift \in sources
  BY <1>2, StreamOfWindow
<1>. HIDE DEF stream, sources
<1>5. StreamTyped(stream)
  BY <1>4 DEF StreamTyped
<1>6. Reads(stream) \subseteq Positioned(p)
  BY <1>3, <1>4 DEF Reads
<1>. QED BY <1>3, <1>4, <1>5, <1>6 DEF stream

\* No stream reads nothing.
LEMMA NoStreamReads ==
  /\ StreamTyped(NoStream) /\ Reads(NoStream) = {} /\ NoStream.funnels \cup NoStream.splats = {}
  /\ \A arena : gather(arena, NoStream) = {}
BY DEF NoStream, StreamTyped, Reads, gather

-----------------------------------------------------------------------------
(* Words of gates.                                                         *)

\* What a task must compute: the settled values of the signals of its word.
Yields(p, task, values, word) ==
  \A s \in Placed(p) : WordOf(p.pos[s]) = task.dst => (Offset(p.pos[s]) \in word <=> values[s])

\* The task of a word that these gates fill.
GateTaskOf(t, p, task, slots) ==
  /\ slots \in Seq(GateSlots(t)) /\ Len(slots) \in 1 .. WordBits
  /\ FilledBy(p, task.dst, slots)
  /\ \A i \in DOMAIN slots :
       /\ t.ops[slots[i]] = task.op
       /\ \A s \in OperandsOf(t, slots[i]) : Gathered(t, p, s)
  /\ task = GateTask(t, p.pos, slots, task.op)

\* A gate task has the slots of its word.
LEMMA GateTaskHasSlots ==
  ASSUME NEW t, NEW p, NEW task, IsGateTask(t, p, task)
  PROVE  \E slots : GateTaskOf(t, p, task, slots)
BY Zenon DEF IsGateTask, GateTaskOf

\* The windows of its operands.
Operand(sel, slots) == [i \in DOMAIN slots |-> sel[slots[i]]]

\* The streams of a gate task gather the windows of its operands.
LEMMA GateStreams ==
  ASSUME NEW t, NEW p, NEW task, NEW slots, GateTaskOf(t, p, task, slots)
  PROVE  /\ task.streams[1] = plan_stream(t, p.pos, Operand(t.a, slots))
         /\ task.streams[2] = IF arity(task.op) > 1 THEN plan_stream(t, p.pos, Operand(t.b, slots)) ELSE NoStream
         /\ task.streams[3] = IF arity(task.op) > 2 THEN plan_stream(t, p.pos, Operand(t.c, slots)) ELSE NoStream
         /\ task.read = NoRead
<1>. DEFINE a == plan_stream(t, p.pos, Operand(t.a, slots))
            b == IF arity(task.op) > 1 THEN plan_stream(t, p.pos, Operand(t.b, slots)) ELSE NoStream
            c == IF arity(task.op) > 2 THEN plan_stream(t, p.pos, Operand(t.c, slots)) ELSE NoStream
            dst == WordOf(p.pos[slots[1]])
<1>1. task = Task(task.op, dst, a, b, c)
  BY Zenon DEF GateTaskOf, GateTask, Operand
<1>. HIDE DEF a, b, c, dst
<1>2. \A op : LET made == Task(op, dst, a, b, c) IN
        made.streams[1] = a /\ made.streams[2] = b /\ made.streams[3] = c /\ made.read = NoRead
  BY DEF Task
<1>3. task.streams[1] = a /\ task.streams[2] = b /\ task.streams[3] = c /\ task.read = NoRead
  BY <1>1, <1>2, Zenon
<1>. QED BY <1>3 DEF a, b, c

\* The windows of a gate task can be gathered, as many as its gates have
\* operands.
LEMMA GateWindows ==
  ASSUME NEW t, NEW p, Laid(t, p), NEW task, NEW slots, GateTaskOf(t, p, task, slots)
  PROVE  /\ task.op \in GateOp /\ DOMAIN slots = 1 .. Len(slots) /\ Len(slots) \in 1 .. WordBits
         /\ \A i \in DOMAIN slots : slots[i] \in GateSlots(t)
         /\ WindowGathered(t, p, Operand(t.a, slots))
         /\ arity(task.op) > 1 => WindowGathered(t, p, Operand(t.b, slots))
         /\ arity(task.op) > 2 => WindowGathered(t, p, Operand(t.c, slots))
<1>1. /\ DOMAIN slots = 1 .. Len(slots) /\ Len(slots) \in 1 .. WordBits
      /\ \A i \in DOMAIN slots : slots[i] \in GateSlots(t)
  BY DEF GateTaskOf
<1>2. task.op \in GateOp
  <2>1. 1 \in DOMAIN slots /\ slots[1] \in GateSlots(t)
    BY <1>1
  <2>2. slots[1] \in Slots(t)
    BY <2>1, SlotKinds DEF Laid
  <2>. QED BY <2>1, <2>2 DEF GateTaskOf, Laid, TapeContract, FieldsTyped
<1>3. ASSUME NEW sel, \A i \in DOMAIN slots : sel[slots[i]] \in OperandsOf(t, slots[i])
      PROVE  WindowGathered(t, p, Operand(sel, slots))
  <2>1. \A i \in DOMAIN slots : Gathered(t, p, sel[slots[i]])
    BY <1>3 DEF GateTaskOf
  <2>2. DOMAIN Operand(sel, slots) = DOMAIN slots /\ \A i \in DOMAIN slots : Operand(sel, slots)[i] = sel[slots[i]]
    BY DEF Operand
  <2>3. Operand(sel, slots) \in Seq({sel[slots[i]] : i \in DOMAIN slots}) /\ Len(Operand(sel, slots)) = Len(slots)
    BY <1>1 DEF Operand
  <2>. QED BY <1>1, <2>1, <2>2, <2>3 DEF WindowGathered
<1>4. \A i \in DOMAIN slots :
        /\ t.a[slots[i]] \in OperandsOf(t, slots[i])
        /\ arity(task.op) > 1 => t.b[slots[i]] \in OperandsOf(t, slots[i])
        /\ arity(task.op) > 2 => t.c[slots[i]] \in OperandsOf(t, slots[i])
  BY DEF OperandsOf, GateTaskOf
<1>5. WindowGathered(t, p, Operand(t.a, slots))
  BY <1>3, <1>4
<1>6. arity(task.op) > 1 => WindowGathered(t, p, Operand(t.b, slots))
  BY <1>3, <1>4
<1>7. arity(task.op) > 2 => WindowGathered(t, p, Operand(t.c, slots))
  BY <1>3, <1>4
<1>. QED BY <1>1, <1>2, <1>5, <1>6, <1>7

\* A lane of an operand word.
LEMMA OperandLane ==
  ASSUME NEW t, NEW values, NEW sel, NEW slots, NEW n \in Nat, DOMAIN slots = 1 .. n,
         NEW i \in 1 .. n, sel[slots[i]] \in Slots(t)
  PROVE  i - 1 \in ValueWord(Operand(sel, slots), values) <=> values[sel[slots[i]]]
<1>1. sel[slots[i]] # NoSlot
  BY DEF Slots, NoSlot
<1>2. \A j \in 1 .. n : i - 1 = j - 1 => i = j
  OBVIOUS
<1>. QED BY <1>1, <1>2 DEF ValueWord, Operand

\* A task of a word of gates evaluates them.
LEMMA GateTaskYields ==
  ASSUME NEW t, NEW p, Laid(t, p), NEW values, SettledValues(t, values),
         NEW task, IsGateTask(t, p, task)
  PROVE  LET arena == Holding(p, values) IN Yields(p, task, values, TaskWord(arena, arena, task))
<1>. DEFINE arena == Holding(p, values)
            word(i) == gather(arena, task.streams[i])
<1>1. PICK slots : GateTaskOf(t, p, task, slots)
  BY GateTaskHasSlots
<1>2. /\ task.op \in GateOp /\ DOMAIN slots = 1 .. Len(slots) /\ Len(slots) \in 1 .. WordBits
      /\ \A i \in DOMAIN slots : slots[i] \in GateSlots(t)
      /\ WindowGathered(t, p, Operand(t.a, slots))
      /\ arity(task.op) > 1 => WindowGathered(t, p, Operand(t.b, slots))
      /\ arity(task.op) > 2 => WindowGathered(t, p, Operand(t.c, slots))
  BY <1>1, GateWindows
<1>3. /\ word(1) = ValueWord(Operand(t.a, slots), values)
      /\ word(2) = IF arity(task.op) > 1 THEN ValueWord(Operand(t.b, slots), values) ELSE {}
      /\ word(3) = IF arity(task.op) > 2 THEN ValueWord(Operand(t.c, slots), values) ELSE {}
  <2>1. \A window : WindowGathered(t, p, window) =>
          gather(arena, plan_stream(t, p.pos, window)) = ValueWord(window, values)
    BY GatherHolds
  <2>2. gather(arena, NoStream) = {}
    BY NoStreamReads
  <2>. HIDE DEF arena
  <2>. QED BY <1>1, <1>2, <2>1, <2>2, GateStreams
<1>4. TaskWord(arena, arena, task) = {k \in Lanes : Apply(task.op, k \in word(1), k \in word(2), k \in word(3))}
  <2>1. task.op # "MemRead" /\ task.op # "Add"
    BY <1>2 DEF GateOp, Unary, Commutative
  <2>. HIDE DEF arena
  <2>. QED BY <2>1 DEF TaskWord
<1>. HIDE DEF arena, word
<1>5. ASSUME NEW s \in Placed(p), WordOf(p.pos[s]) = task.dst
      PROVE  Offset(p.pos[s]) \in TaskWord(arena, arena, task) <=> values[s]
  <2>1. PICK i \in DOMAIN slots : slots[i] = s /\ Offset(p.pos[s]) = i - 1
    BY <1>1, <1>5 DEF GateTaskOf, FilledBy
  <2>. DEFINE n == Len(slots)
  <2>2. n \in Nat /\ DOMAIN slots = 1 .. n /\ i \in 1 .. n /\ i - 1 \in Lanes
    BY <1>2, WordWidth DEF Lanes
  <2>3. s \in GateSlots(t) /\ s \in Slots(t) /\ t.ops[s] = task.op
    BY <1>1, <1>2, <2>1, SlotKinds DEF Laid, GateTaskOf
  <2>4. t.a[s] \in Slots(t) /\ t.b[s] \in Slots(t) /\ t.c[s] \in Slots(t)
    BY <2>3 DEF Laid, TapeContract, FieldsTyped
  <2>. HIDE DEF n
  <2>5. /\ i - 1 \in ValueWord(Operand(t.a, slots), values) <=> values[t.a[s]]
        /\ i - 1 \in ValueWord(Operand(t.b, slots), values) <=> values[t.b[s]]
        /\ i - 1 \in ValueWord(Operand(t.c, slots), values) <=> values[t.c[s]]
    BY <2>1, <2>2, <2>4, OperandLane
  <2>6. values[t.a[s]] \in BOOLEAN /\ values[t.b[s]] \in BOOLEAN /\ values[t.c[s]] \in BOOLEAN
    BY <2>4 DEF SettledValues, Buffers
  <2>7. /\ (i - 1 \in word(1)) = values[t.a[s]]
        /\ (i - 1 \in word(2)) = IF arity(task.op) > 1 THEN values[t.b[s]] ELSE FALSE
        /\ (i - 1 \in word(3)) = IF arity(task.op) > 2 THEN values[t.c[s]] ELSE FALSE
    <3>1. \A set, v : v \in BOOLEAN /\ (i - 1 \in set <=> v) => (i - 1 \in set) = v
      OBVIOUS
    <3>2. (i - 1 \in word(1)) = values[t.a[s]]
      BY <1>3, <2>5, <2>6, <3>1, Zenon
    <3>3. (i - 1 \in word(2)) = IF arity(task.op) > 1 THEN values[t.b[s]] ELSE FALSE
      <4>1. CASE arity(task.op) > 1
        BY <1>3, <2>5, <2>6, <3>1, <4>1, Zenon
      <4>2. CASE ~(arity(task.op) > 1)
        <5>1. word(2) = {}
          BY <1>3, <4>2
        <5>2. (i - 1 \in word(2)) = FALSE
          BY <3>1, <5>1
        <5>. QED BY <4>2, <5>2, Zenon
      <4>. QED BY <4>1, <4>2
    <3>4. (i - 1 \in word(3)) = IF arity(task.op) > 2 THEN values[t.c[s]] ELSE FALSE
      <4>1. CASE arity(task.op) > 2
        BY <1>3, <2>5, <2>6, <3>1, <4>1, Zenon
      <4>2. CASE ~(arity(task.op) > 2)
        <5>1. word(3) = {}
          BY <1>3, <4>2
        <5>2. (i - 1 \in word(3)) = FALSE
          BY <3>1, <5>1
        <5>. QED BY <4>2, <5>2, Zenon
      <4>. QED BY <4>1, <4>2
    <3>. QED BY <3>2, <3>3, <3>4
  <2>8. values[s] = Apply(task.op, i - 1 \in word(1), i - 1 \in word(2), i - 1 \in word(3))
    <3>1. values[s] = eval_gate(t, values, s)
      BY <2>3 DEF SettledValues, Settled
    <3>. QED BY <2>3, <2>7, <3>1, Zenon DEF eval_gate
  <2>9. i - 1 \in TaskWord(arena, arena, task) <=> Apply(task.op, i - 1 \in word(1), i - 1 \in word(2), i - 1 \in word(3))
    BY <1>4, <2>2
  <2>. QED BY <2>1, <2>8, <2>9
<1>. QED BY <1>5 DEF Yields, arena

-----------------------------------------------------------------------------
(* Chains.                                                                 *)

\* Two-operand gates of a settled tape.
LEMMA SettledGate ==
  ASSUME NEW t, TapeContract(t), NEW v \in Buffers(t), Settled(t, v), NEW g \in GateSlots(t)
  PROVE  /\ t.a[g] \in Slots(t) /\ t.b[g] \in Slots(t) /\ v[t.a[g]] \in BOOLEAN /\ v[t.b[g]] \in BOOLEAN
         /\ t.ops[g] = "And" => v[g] = (v[t.a[g]] /\ v[t.b[g]])
         /\ t.ops[g] = "Or"  => v[g] = (v[t.a[g]] \/ v[t.b[g]])
         /\ t.ops[g] = "Xor" => v[g] = (v[t.a[g]] # v[t.b[g]])
<1>1. g \in Slots(t)
  BY SlotKinds
<1>2. t.a[g] \in Slots(t) /\ t.b[g] \in Slots(t)
  BY <1>1 DEF TapeContract, FieldsTyped
<1>3. v[t.a[g]] \in BOOLEAN /\ v[t.b[g]] \in BOOLEAN /\ v[g] \in BOOLEAN
  BY <1>1, <1>2 DEF Buffers
<1>4. v[g] = eval_gate(t, v, g)
  BY DEF Settled
<1>5. t.ops[g] \in {"And", "Or", "Xor"} => v[g] = Apply(t.ops[g], v[t.a[g]], v[t.b[g]], FALSE)
  <2>1. t.ops[g] \in {"And", "Or", "Xor"} => arity(t.ops[g]) > 1 /\ ~(arity(t.ops[g]) > 2)
    BY DEF arity, Unary
  <2>. QED BY <1>4, <2>1, Zenon DEF eval_gate
<1>6. \A a, b \in BOOLEAN :
        /\ Apply("And", a, b, FALSE) = (a /\ b)
        /\ Apply("Or", a, b, FALSE) = (a \/ b)
        /\ Apply("Xor", a, b, FALSE) = (a # b)
  BY DEF Apply
<1>. QED BY <1>2, <1>3, <1>5, <1>6

\* xor_of finds an exclusive or of its operands.
LEMMA XorFound ==
  ASSUME NEW t, TapeContract(t), NEW v \in Buffers(t), Settled(t, v),
         NEW x \in Slots(t), NEW y \in Slots(t), XorOf(t, x, y) # NoSlot
  PROVE  XorOf(t, x, y) \in GateSlots(t) /\ v[XorOf(t, x, y)] = (v[x] # v[y])
<1>. DEFINE xors == {s \in GateSlots(t) : t.ops[s] = "Xor" /\ {t.a[s], t.b[s]} = {x, y}}
<1>1. xors # {} /\ XorOf(t, x, y) = Min(xors)
  <2>1. xors = {s \in GatesOf(t, "Xor") : {t.a[s], t.b[s]} = {x, y}}
    BY DEF GatesOf
  <2>. QED BY <2>1 DEF XorOf
<1>2. xors \in SUBSET Nat
  BY SlotKinds DEF Slots
<1>3. \E m \in xors : \A n \in xors : m <= n
  <2>. HIDE DEF xors
  <2>. QED BY <1>1, <1>2, LeastMember
<1>4. Min(xors) \in xors
  <2>. HIDE DEF xors
  <2>. QED BY <1>3 DEF Min
<1>. DEFINE g == XorOf(t, x, y)
<1>5. g \in GateSlots(t) /\ t.ops[g] = "Xor" /\ {t.a[g], t.b[g]} = {x, y}
  BY <1>1, <1>4
<1>. HIDE DEF g, xors
<1>6. v[g] = (v[t.a[g]] # v[t.b[g]])
  BY <1>5, SettledGate
<1>7. (t.a[g] = x /\ t.b[g] = y) \/ (t.a[g] = y /\ t.b[g] = x)
  BY <1>5
<1>8. (v[x] # v[y]) = (v[y] # v[x])
  OBVIOUS
<1>. QED BY <1>5, <1>6, <1>7, <1>8 DEF g

\* The value of a slot that may be absent.
Held(v, s) == s # NoSlot /\ v[s]

\* What the gates of a link compute.
LinkComputes(t, v, link) ==
  /\ link.p \in Slots(t) /\ link.cin \in Slots(t) /\ link.carry \in GateSlots(t)
  /\ v[link.carry] = Majority(v[link.p], Held(v, link.q), v[link.cin])
  /\ link.sum # NoSlot => v[link.sum] = Odd(v[link.p], Held(v, link.q), v[link.cin])
  /\ link.pxq # NoSlot => v[link.pxq] = (v[link.p] # Held(v, link.q))
  /\ link.g # NoSlot => v[link.g] = (v[link.p] /\ Held(v, link.q))

\* A full adder's carry, sum and inner gates are what a link says.
LEMMA FullLinkComputes ==
  ASSUME NEW t, TapeContract(t), NEW v \in Buffers(t), Settled(t, v),
         NEW s \in GateSlots(t), t.ops[s] = "Or", NEW g \in GateSlots(t), NEW prop \in GateSlots(t),
         {g, prop} = {t.a[s], t.b[s]}, NEW link \in full_link(t, g, prop, s)
  PROVE  LinkComputes(t, v, link)
<1>. DEFINE p == t.a[g]
            q == t.b[g]
            pxq == XorOf(t, p, q)
            cin == IF t.a[prop] = pxq THEN t.b[prop] ELSE t.a[prop]
            sum == XorOf(t, pxq, cin)
<1>1. /\ link = Link(p, q, pxq, g, prop, s, sum, cin)
      /\ t.ops[g] = "And" /\ t.ops[prop] = "And"
      /\ pxq # NoSlot /\ pxq \in {t.a[prop], t.b[prop]}
  BY DEF full_link
<1>2. /\ p \in Slots(t) /\ q \in Slots(t) /\ v[p] \in BOOLEAN /\ v[q] \in BOOLEAN
      /\ v[g] = (v[p] /\ v[q])
  BY <1>1, SettledGate
<1>3. pxq \in GateSlots(t) /\ pxq \in Slots(t) /\ v[pxq] = (v[p] # v[q])
  BY <1>1, <1>2, XorFound, SlotKinds
<1>4. /\ t.a[prop] \in Slots(t) /\ t.b[prop] \in Slots(t)
      /\ v[t.a[prop]] \in BOOLEAN /\ v[t.b[prop]] \in BOOLEAN
      /\ v[prop] = (v[t.a[prop]] /\ v[t.b[prop]])
  BY <1>1, SettledGate
<1>. HIDE DEF p, q, pxq
<1>5. cin \in Slots(t) /\ v[cin] \in BOOLEAN /\ v[prop] = (v[pxq] /\ v[cin])
  BY <1>1, <1>4
<1>. HIDE DEF cin
<1>6. sum # NoSlot => v[sum] = (v[pxq] # v[cin])
  BY <1>3, <1>5, XorFound
<1>. HIDE DEF sum
<1>7. v[s] = (v[g] \/ v[prop])
  <2>1. v[s] = (v[t.a[s]] \/ v[t.b[s]])
    BY SettledGate
  <2>2. (t.a[s] = g /\ t.b[s] = prop) \/ (t.a[s] = prop /\ t.b[s] = g)
    OBVIOUS
  <2>3. (v[g] \/ v[prop]) = (v[prop] \/ v[g])
    OBVIOUS
  <2>. QED BY <2>1, <2>2, <2>3
<1>8. Held(v, q) = v[q]
  BY <1>2 DEF Held, Slots, NoSlot
<1>9. v[s] = Majority(v[p], v[q], v[cin])
  <2>1. \A x, y, z \in BOOLEAN : ((x /\ y) \/ ((x # y) /\ z)) = Majority(x, y, z)
    BY DEF Majority
  <2>. QED BY <1>2, <1>3, <1>5, <1>7, <2>1
<1>10. sum # NoSlot => v[sum] = Odd(v[p], v[q], v[cin])
  <2>1. \A x, y, z \in BOOLEAN : ((x # y) # z) = Odd(x, y, z)
    BY DEF Odd
  <2>. QED BY <1>2, <1>3, <1>5, <1>6, <2>1
<1>11. /\ link.p = p /\ link.q = q /\ link.pxq = pxq /\ link.g = g /\ link.carry = s
       /\ link.sum = sum /\ link.cin = cin
  BY <1>1 DEF Link
<1>. QED BY <1>2, <1>3, <1>5, <1>8, <1>9, <1>10, <1>11 DEF LinkComputes

\* An incrementer's carry and sum are what a link without a second operand
\* says.
LEMMA IncLinkComputes ==
  ASSUME NEW t, TapeContract(t), NEW v \in Buffers(t), Settled(t, v),
         NEW s \in GateSlots(t), t.ops[s] = "And", NEW p, NEW cin,
         (p = t.a[s] /\ cin = t.b[s]) \/ (p = t.b[s] /\ cin = t.a[s])
  PROVE  LinkComputes(t, v, inc_link(t, p, cin, s))
<1>. DEFINE sum == XorOf(t, p, cin)
            link == inc_link(t, p, cin, s)
<1>1. /\ p \in Slots(t) /\ cin \in Slots(t) /\ v[p] \in BOOLEAN /\ v[cin] \in BOOLEAN
      /\ v[s] = (v[p] /\ v[cin])
  <2>1. /\ t.a[s] \in Slots(t) /\ t.b[s] \in Slots(t)
        /\ v[t.a[s]] \in BOOLEAN /\ v[t.b[s]] \in BOOLEAN
        /\ v[s] = (v[t.a[s]] /\ v[t.b[s]])
    BY SettledGate
  <2>2. (v[p] /\ v[cin]) = (v[cin] /\ v[p])
    OBVIOUS
  <2>. QED BY <2>1, <2>2
<1>2. sum # NoSlot => v[sum] = (v[p] # v[cin])
  BY <1>1, XorFound
<1>3. link = Link(p, NoSlot, NoSlot, NoSlot, NoSlot, s, sum, cin)
  BY DEF inc_link
<1>. HIDE DEF link, sum
<1>4. /\ link.p = p /\ link.q = NoSlot /\ link.pxq = NoSlot /\ link.g = NoSlot /\ link.carry = s
      /\ link.sum = sum /\ link.cin = cin
  BY <1>3 DEF Link
<1>5. Held(v, NoSlot) = FALSE
  BY DEF Held
<1>6. \A x, z \in BOOLEAN : (x /\ z) = Majority(x, FALSE, z) /\ (x # z) = Odd(x, FALSE, z)
  BY DEF Majority, Odd
<1>7. LinkComputes(t, v, link)
  BY <1>1, <1>2, <1>4, <1>5, <1>6 DEF LinkComputes
<1>. QED BY <1>7 DEF link

\* Escape flags say nothing of values.
Flagged(bare, x, y) == [bare EXCEPT !.ext_pxq = x, !.ext_g = y]

\* Noting which gates of a link escape leaves what the link computes.
LEMMA FlagsAside ==
  ASSUME NEW t, NEW v, NEW p, NEW q, NEW pxq, NEW g, NEW prop, NEW carry, NEW sum, NEW cin,
         NEW bare, bare = Link(p, q, pxq, g, prop, carry, sum, cin), NEW x, NEW y,
         NEW link, link = Flagged(bare, x, y)
  PROVE  /\ link.carry = bare.carry /\ link.g = bare.g /\ link.prop = bare.prop
         /\ LinkComputes(t, v, bare) => LinkComputes(t, v, link)
<1>1. /\ link.p = p /\ link.q = q /\ link.pxq = pxq /\ link.g = g /\ link.carry = carry
      /\ link.sum = sum /\ link.cin = cin /\ link.prop = prop
  BY DEF Link, Flagged
<1>2. /\ bare.p = p /\ bare.q = q /\ bare.pxq = pxq /\ bare.g = g /\ bare.carry = carry
      /\ bare.sum = sum /\ bare.cin = cin /\ bare.prop = prop
  BY DEF Link
<1>3. LinkComputes(t, v, bare) => LinkComputes(t, v, link)
  BY <1>1, <1>2, Zenon DEF LinkComputes
<1>. QED BY <1>1, <1>2, <1>3

\* Every link of a tape is one bit of a ripple adder.
LEMMA LinksAdd ==
  ASSUME NEW t, TapeContract(t), NEW v \in Buffers(t), Settled(t, v), NEW link, IsLink(t, link)
  PROVE  LinkComputes(t, v, link)
<1>. DEFINE s == link.carry
            full == full_link(t, t.a[s], t.b[s], s) \cup full_link(t, t.b[s], t.a[s], s)
            inc  == {inc_link(t, t.a[s], t.b[s], s), inc_link(t, t.b[s], t.a[s], s)}
<1>1. PICK bare \in IF t.ops[s] = "Or" THEN full ELSE IF t.ops[s] = "And" THEN inc ELSE {} :
        link = [bare EXCEPT !.ext_pxq = link.ext_pxq, !.ext_g = link.ext_g]
  BY Zenon DEF IsLink
<1>. DEFINE x == link.ext_pxq
            y == link.ext_g
<1>2. link = Flagged(bare, x, y)
  BY <1>1, Zenon DEF Flagged
<1>. HIDE DEF x, y
<1>3. s \in GateSlots(t) /\ link_gates(link) \subseteq GateSlots(t)
  BY DEF IsLink
<1>4. CASE t.ops[s] = "Or"
  <2>1. PICK g, prop : {g, prop} = {t.a[s], t.b[s]} /\ bare \in full_link(t, g, prop, s)
    <3>1. bare \in full
      BY <1>1, <1>4
    <3>2. {t.a[s], t.b[s]} = {t.b[s], t.a[s]}
      OBVIOUS
    <3>. HIDE DEF s
    <3>. QED BY <3>1, <3>2
  <2>2. \E p, q, pxq, sum, cin : bare = Link(p, q, pxq, g, prop, s, sum, cin)
    BY <2>1, Zenon DEF full_link
  <2>3. PICK p, q, pxq, sum, cin : bare = Link(p, q, pxq, g, prop, s, sum, cin)
    BY <2>2
  <2>4. link.g = bare.g /\ link.prop = bare.prop /\ (LinkComputes(t, v, bare) => LinkComputes(t, v, link))
    <3>. HIDE DEF s
    <3>. QED BY <1>2, <2>3, FlagsAside
  <2>5. bare.g = g /\ bare.prop = prop
    BY <2>3 DEF Link
  <2>6. g \in GateSlots(t) /\ prop \in GateSlots(t)
    <3>1. t.a[s] \in Slots(t) /\ t.b[s] \in Slots(t)
      BY <1>3, SlotKinds DEF TapeContract, FieldsTyped
    <3>2. g # NoSlot /\ prop # NoSlot
      BY <2>1, <3>1 DEF Slots, NoSlot
    <3>. QED BY <1>3, <2>4, <2>5, <3>2 DEF link_gates
  <2>7. LinkComputes(t, v, bare)
    <3>. HIDE DEF s
    <3>. QED BY <1>3, <1>4, <2>1, <2>6, FullLinkComputes
  <2>. QED BY <2>4, <2>7
<1>5. CASE t.ops[s] = "And"
  <2>1. PICK p, cin : /\ (p = t.a[s] /\ cin = t.b[s]) \/ (p = t.b[s] /\ cin = t.a[s])
                      /\ bare = inc_link(t, p, cin, s)
    <3>1. bare \in inc
      BY <1>1, <1>5
    <3>. HIDE DEF s
    <3>. QED BY <3>1
  <2>2. LinkComputes(t, v, bare)
    <3>. HIDE DEF s
    <3>. QED BY <1>3, <1>5, <2>1, IncLinkComputes
  <2>3. bare = Link(p, NoSlot, NoSlot, NoSlot, NoSlot, s, XorOf(t, p, cin), cin)
    BY <2>1 DEF inc_link
  <2>. HIDE DEF s
  <2>. QED BY <1>2, <2>2, <2>3, FlagsAside
<1>6. t.ops[s] = "Or" \/ t.ops[s] = "And"
  BY <1>1
<1>. QED BY <1>4, <1>5, <1>6

\* The operand words of a chain.
ChainWord(v, slots) == {i - 1 : i \in {j \in DOMAIN slots : Held(v, slots[j])}}
Ps(chain) == [i \in DOMAIN chain.links |-> chain.links[i].p]
Qs(chain) == [i \in DOMAIN chain.links |-> chain.links[i].q]

\* "One word addition evaluates the entire chain": on any settled tape the
\* native add of the operand words yields the sum of every link, and above
\* them the carry-out, whatever full adders and incrementers the chain mixes.
THEOREM ChainAdds ==
  ASSUME NEW t, TapeContract(t), NEW v \in Buffers(t), Settled(t, v), NEW chain, IsChain(t, chain)
  PROVE  LET n == Len(chain.links)
             word == WrappingAdd(ChainWord(v, Ps(chain)), ChainWord(v, Qs(chain)),
                                 CarryWord(v[chain.cin]))
         IN  /\ \A i \in 1 .. n : chain.links[i].sum # NoSlot =>
                  (i - 1 \in word <=> v[chain.links[i].sum])
             /\ n \in word <=> v[chain.links[n].carry]
<1>. DEFINE n == Len(chain.links)
            link(i) == chain.links[i]
            a == ChainWord(v, Ps(chain))
            b == ChainWord(v, Qs(chain))
            carry == [k \in 0 .. WordBits |->
                        IF k = 0 THEN v[chain.cin] ELSE IF k <= n THEN v[link(k).carry] ELSE FALSE]
            c == CarryWord(v[chain.cin])
            word == WrappingAdd(a, b, c)
<1>1. n \in 1 .. WordBits - 1 /\ n \in Nat /\ WordBits \in Nat /\ DOMAIN chain.links = 1 .. n
  <2>1. MaxChain \in 1 .. WordBits - 1 /\ WordBits \in Nat
    BY WordAssumption
  <2>. QED BY <2>1 DEF IsChain
<1>2. ASSUME NEW i \in 1 .. n
      PROVE  /\ LinkComputes(t, v, link(i))
             /\ link(i).cin = IF i = 1 THEN chain.cin ELSE link(i - 1).carry
  BY <1>1, LinksAdd DEF IsChain
<1>3. ASSUME NEW i \in 1 .. n
      PROVE  v[link(i).p] \in BOOLEAN /\ v[link(i).cin] \in BOOLEAN /\ v[link(i).carry] \in BOOLEAN
             /\ link(i).p # NoSlot
  <2>1. link(i).p \in Slots(t) /\ link(i).cin \in Slots(t) /\ link(i).carry \in Slots(t)
    BY <1>2, SlotKinds DEF LinkComputes
  <2>. QED BY <2>1 DEF Buffers, Slots, NoSlot
<1>4. v[chain.cin] \in BOOLEAN
  <2>1. link(1).cin = chain.cin
    BY <1>1, <1>2
  <2>. QED BY <1>1, <1>3, <2>1
<1>. HIDE DEF n, link
<1>5. carry \in [0 .. WordBits -> BOOLEAN]
  <2>1. \A k \in 0 .. WordBits : k # 0 /\ k <= n => k \in 1 .. n
    BY <1>1
  <2>. QED BY <1>3, <1>4, <2>1
<1>6. /\ \A i \in 1 .. n : carry[i - 1] = v[link(i).cin] /\ carry[i] = v[link(i).carry]
      /\ \A k \in 0 .. WordBits : k > n => carry[k] = FALSE
      /\ carry[0] = v[chain.cin]
  <2>1. \A k \in 0 .. WordBits :
          carry[k] = IF k = 0 THEN v[chain.cin] ELSE IF k <= n THEN v[link(k).carry] ELSE FALSE
    OBVIOUS
  <2>. HIDE DEF carry
  <2>2. ASSUME NEW i \in 1 .. n PROVE carry[i - 1] = v[link(i).cin] /\ carry[i] = v[link(i).carry]
    <3>1. i \in 0 .. WordBits /\ i - 1 \in 0 .. WordBits /\ i # 0 /\ i <= n /\ (i = 1 <=> i - 1 = 0) /\ i - 1 <= n
      BY <1>1
    <3>. QED BY <1>2, <2>1, <3>1
  <2>3. ASSUME NEW k \in 0 .. WordBits, k > n PROVE carry[k] = FALSE
    <3>1. k # 0 /\ ~(k <= n)
      BY <1>1, <2>3
    <3>. QED BY <2>1, <3>1
  <2>4. carry[0] = v[chain.cin]
    <3>1. 0 \in 0 .. WordBits
      BY <1>1
    <3>. QED BY <2>1, <3>1
  <2>. QED BY <2>2, <2>3, <2>4
<1>. HIDE DEF carry
<1>7. ASSUME NEW slots, DOMAIN slots = 1 .. n, NEW k \in Nat
      PROVE  k \in ChainWord(v, slots) <=> k + 1 \in 1 .. n /\ Held(v, slots[k + 1])
  <2>1. \A j \in 1 .. n : k = j - 1 <=> j = k + 1
    BY <1>1
  <2>. QED BY <1>7, <2>1 DEF ChainWord
<1>8. ASSUME NEW k \in Nat
      PROVE  /\ k \in a <=> k + 1 \in 1 .. n /\ v[link(k + 1).p]
             /\ k \in b <=> k + 1 \in 1 .. n /\ Held(v, link(k + 1).q)
  <2>1. DOMAIN Ps(chain) = 1 .. n /\ DOMAIN Qs(chain) = 1 .. n
    BY <1>1 DEF Ps, Qs
  <2>2. k + 1 \in 1 .. n => Ps(chain)[k + 1] = link(k + 1).p /\ Qs(chain)[k + 1] = link(k + 1).q
    BY <1>1 DEF Ps, Qs, link
  <2>3. k + 1 \in 1 .. n => (Held(v, link(k + 1).p) <=> v[link(k + 1).p])
    BY <1>3 DEF Held
  <2>. QED BY <1>7, <2>1, <2>2, <2>3
<1>. HIDE DEF a, b, c
<1>9. ASSUME NEW k \in 0 .. WordBits
      PROVE  carry[k] = IF k = 0 THEN carry[0] ELSE Majority(k - 1 \in a, k - 1 \in b, carry[k - 1])
  <2>1. CASE k = 0
    BY <2>1
  <2>2. CASE k \in 1 .. n
    <3>1. k - 1 \in Nat /\ (k - 1) + 1 = k /\ k - 1 \in 0 .. WordBits /\ k # 0
      BY <1>1, <2>2
    <3>2. (k - 1 \in a <=> v[link(k).p]) /\ (k - 1 \in b <=> Held(v, link(k).q))
      BY <1>8, <2>2, <3>1
    <3>3. carry[k - 1] = v[link(k).cin] /\ carry[k] = v[link(k).carry]
      BY <1>6, <2>2
    <3>4. v[link(k).carry] = Majority(v[link(k).p], Held(v, link(k).q), v[link(k).cin])
      BY <1>2, <2>2 DEF LinkComputes
    <3>5. Majority(v[link(k).p], Held(v, link(k).q), v[link(k).cin])
            = Majority(k - 1 \in a, k - 1 \in b, v[link(k).cin])
      BY <3>2 DEF Majority
    <3>. QED BY <3>1, <3>3, <3>4, <3>5
  <2>3. CASE k > n
    <3>1. k - 1 \in Nat /\ ~((k - 1) + 1 \in 1 .. n) /\ k # 0
      BY <1>1, <2>3
    <3>2. k - 1 \notin a /\ k - 1 \notin b
      BY <1>8, <3>1
    <3>3. carry[k] = FALSE
      BY <1>6, <2>3
    <3>4. Majority(k - 1 \in a, k - 1 \in b, carry[k - 1]) = FALSE
      BY <3>2 DEF Majority
    <3>. QED BY <3>1, <3>3, <3>4
  <2>4. k = 0 \/ k \in 1 .. n \/ k > n
    BY <1>1
  <2>. QED BY <2>1, <2>2, <2>3, <2>4
<1>10. word = {k \in Lanes : Odd(k \in a, k \in b, carry[k])}
  <2>1. Ripples(carry, a, b, carry[0])
    BY <1>9 DEF Ripples
  <2>2. c = CarryWord(carry[0])
    BY <1>6 DEF c
  <2>3. word = OddLanes(a, b, carry)
    BY <1>5, <2>1, <2>2, AddRipples DEF Carries
  <2>. HIDE DEF word
  <2>. QED BY <2>3 DEF OddLanes
<1>. HIDE DEF word
<1>11. ASSUME NEW i \in 1 .. n, link(i).sum # NoSlot PROVE i - 1 \in word <=> v[link(i).sum]
  <2>1. i - 1 \in Nat /\ (i - 1) + 1 = i /\ i - 1 \in 0 .. WordBits /\ i - 1 \in Lanes
    BY <1>1 DEF Lanes
  <2>2. (i - 1 \in a <=> v[link(i).p]) /\ (i - 1 \in b <=> Held(v, link(i).q))
    BY <1>8, <2>1
  <2>3. carry[i - 1] = v[link(i).cin]
    BY <1>6
  <2>4. v[link(i).sum] = Odd(v[link(i).p], Held(v, link(i).q), v[link(i).cin])
    BY <1>2, <1>11 DEF LinkComputes
  <2>5. (i - 1 \in a) = v[link(i).p] /\ (i - 1 \in b) = Held(v, link(i).q)
    BY <1>3, <2>2 DEF Held
  <2>6. Odd(v[link(i).p], Held(v, link(i).q), v[link(i).cin]) = Odd(i - 1 \in a, i - 1 \in b, v[link(i).cin])
    BY <2>5
  <2>. QED BY <1>10, <2>1, <2>3, <2>4, <2>6
<1>12. n \in word <=> v[link(n).carry]
  <2>1. n \in Nat /\ n \in Lanes /\ n \in 0 .. WordBits /\ n \in 1 .. n /\ ~(n + 1 \in 1 .. n)
    BY <1>1 DEF Lanes
  <2>2. n \notin a /\ n \notin b
    BY <1>8, <2>1
  <2>3. carry[n] = v[link(n).carry] /\ v[link(n).carry] \in BOOLEAN
    BY <1>6, <1>3, <2>1
  <2>4. \A z \in BOOLEAN : Odd(FALSE, FALSE, z) = z
    BY DEF Odd
  <2>5. (n \in a) = FALSE /\ (n \in b) = FALSE
    BY <2>2
  <2>6. Odd(n \in a, n \in b, carry[n]) = carry[n]
    BY <2>3, <2>4, <2>5
  <2>. QED BY <1>10, <2>1, <2>3, <2>6
<1>13. /\ \A i \in 1 .. n : link(i).sum # NoSlot => (i - 1 \in word <=> v[link(i).sum])
       /\ n \in word <=> v[link(n).carry]
  BY <1>11, <1>12
<1>. QED BY <1>13 DEF word, a, b, c, n, link

\* Two windows and a third of the carry-in alone, gathered from a settled
\* arena: the task of a chain.
ChainTaskOf(t, p, task, chain, op, block) ==
  /\ IsChain(t, chain) /\ \A s \in ChainInputs(chain.links) : Gathered(t, p, s)
  /\ <<op, block>> \in {<<"Add", SumBlock(chain)>>, <<"Xor", PxqBlock(chain)>>, <<"And", GBlock(chain)>>}
  /\ task = ChainTask(t, p.pos, chain, op, task.dst)
  /\ FilledBy(p, task.dst, block)

\* A chain task has a chain and one of its blocks.
LEMMA ChainTaskHasChain ==
  ASSUME NEW t, NEW p, NEW task, IsChainTask(t, p, task)
  PROVE  \E chain, op, block : ChainTaskOf(t, p, task, chain, op, block)
<1>1. PICK c \in DOMAIN p.chains : LET chain == p.chains[c] IN
        /\ IsChain(t, chain)
        /\ \A s \in ChainInputs(chain.links) : Gathered(t, p, s)
        /\ \E block \in {<<"Add", SumBlock(chain)>>, <<"Xor", PxqBlock(chain)>>, <<"And", GBlock(chain)>>} :
             /\ task = ChainTask(t, p.pos, chain, block[1], task.dst)
             /\ FilledBy(p, task.dst, block[2])
  BY Zenon DEF IsChainTask
<1>. DEFINE chain == p.chains[c]
<1>2. PICK block \in {<<"Add", SumBlock(chain)>>, <<"Xor", PxqBlock(chain)>>, <<"And", GBlock(chain)>>} :
        /\ task = ChainTask(t, p.pos, chain, block[1], task.dst)
        /\ FilledBy(p, task.dst, block[2])
  BY <1>1
<1>. HIDE DEF chain
<1>3. block = <<block[1], block[2]>>
  BY <1>2
<1>. QED BY <1>1, <1>2, <1>3, Zenon DEF ChainTaskOf, chain

\* The streams of a chain's task.
ChainTaskStreams(t, p, task, chain, op) ==
  /\ task.op = op /\ task.read = NoRead
  /\ task.streams[1] = plan_stream(t, p.pos, Ps(chain))
  /\ task.streams[2] = plan_stream(t, p.pos, Qs(chain))
  /\ task.streams[3] = IF op = "Add" THEN plan_stream(t, p.pos, <<chain.cin>>) ELSE NoStream

\* The streams of a chain task gather the operands of its links and the
\* carry-in.
LEMMA ChainStreams ==
  ASSUME NEW t, NEW p, NEW task, NEW chain, NEW op, NEW block, ChainTaskOf(t, p, task, chain, op, block)
  PROVE  ChainTaskStreams(t, p, task, chain, op)
<1>. DEFINE a == plan_stream(t, p.pos, Ps(chain))
            b == plan_stream(t, p.pos, Qs(chain))
            c == IF op = "Add" THEN plan_stream(t, p.pos, <<chain.cin>>) ELSE NoStream
            dst == task.dst
<1>1. task = Task(op, dst, a, b, c)
  BY Zenon DEF ChainTaskOf, ChainTask, Ps, Qs
<1>. HIDE DEF a, b, c, dst
<1>2. LET made == Task(op, dst, a, b, c) IN
        made.streams[1] = a /\ made.streams[2] = b /\ made.streams[3] = c /\ made.read = NoRead /\ made.op = op
  BY DEF Task
<1>3. task.streams[1] = a /\ task.streams[2] = b /\ task.streams[3] = c /\ task.read = NoRead /\ task.op = op
  BY <1>1, <1>2, Zenon
<1>. QED BY <1>3 DEF ChainTaskStreams, a, b, c

\* The windows of a chain task can be gathered, and leave a lane for the
\* carry-out.
LEMMA ChainWindows ==
  ASSUME NEW t, NEW p, Laid(t, p), NEW task, NEW chain, NEW op, NEW block,
         ChainTaskOf(t, p, task, chain, op, block)
  PROVE  /\ Len(chain.links) \in 1 .. WordBits - 1 /\ DOMAIN chain.links = 1 .. Len(chain.links)
         /\ WindowGathered(t, p, Ps(chain)) /\ WindowGathered(t, p, Qs(chain))
         /\ WindowGathered(t, p, <<chain.cin>>)
<1>. DEFINE n == Len(chain.links)
<1>1. n \in 1 .. WordBits - 1 /\ n \in Nat /\ WordBits \in Nat /\ DOMAIN chain.links = 1 .. n
      /\ chain.cin = chain.links[1].cin
  <2>1. MaxChain \in 1 .. WordBits - 1 /\ WordBits \in Nat
    BY WordAssumption
  <2>. QED BY <2>1 DEF IsChain, ChainTaskOf
<1>2. ASSUME NEW i \in 1 .. n PROVE Gathered(t, p, chain.links[i].p) /\ Gathered(t, p, chain.links[i].q)
  <2>1. \A s \in {chain.links[i].p, chain.links[i].q} : s # NoSlot => s \in ChainInputs(chain.links)
    BY <1>1 DEF ChainInputs
  <2>. QED BY <2>1 DEF ChainTaskOf, Gathered
<1>3. Gathered(t, p, chain.cin)
  <2>1. chain.cin # NoSlot => chain.cin \in ChainInputs(chain.links)
    BY <1>1 DEF ChainInputs
  <2>. QED BY <2>1 DEF ChainTaskOf, Gathered
<1>4. DOMAIN Ps(chain) = 1 .. n /\ Len(Ps(chain)) = n /\ DOMAIN Qs(chain) = 1 .. n /\ Len(Qs(chain)) = n
  <2>1. Ps(chain) \in Seq({chain.links[i].p : i \in 1 .. n}) /\ Len(Ps(chain)) = n
    BY <1>1 DEF Ps
  <2>2. Qs(chain) \in Seq({chain.links[i].q : i \in 1 .. n}) /\ Len(Qs(chain)) = n
    BY <1>1 DEF Qs
  <2>. QED BY <1>1, <2>1, <2>2 DEF Ps, Qs
<1>5. WindowGathered(t, p, Ps(chain))
  BY <1>1, <1>2, <1>4 DEF WindowGathered, Ps
<1>6. WindowGathered(t, p, Qs(chain))
  BY <1>1, <1>2, <1>4 DEF WindowGathered, Qs
<1>7. WindowGathered(t, p, <<chain.cin>>)
  BY <1>1, <1>3 DEF WindowGathered
<1>. QED BY <1>1, <1>5, <1>6, <1>7

\* The words that a chain's task gathers.
ChainWords(task, chain, op, values, arena) ==
  /\ task.op = op
  /\ gather(arena, task.streams[1]) = ChainWord(values, Ps(chain))
  /\ gather(arena, task.streams[2]) = ChainWord(values, Qs(chain))
  /\ gather(arena, task.streams[3]) = IF op = "Add" THEN CarryWord(values[chain.cin]) ELSE {}

\* From an arena that holds a settled tape, they are its operands and carry-in.
LEMMA ChainOperands ==
  ASSUME NEW t, NEW p, Laid(t, p), NEW values, SettledValues(t, values),
         NEW task, NEW chain, NEW op, NEW block, ChainTaskOf(t, p, task, chain, op, block)
  PROVE  ChainWords(task, chain, op, values, Holding(p, values))
<1>. DEFINE arena == Holding(p, values)
            carry == <<chain.cin>>
<1>1. \A window : WindowGathered(t, p, window) =>
        gather(arena, plan_stream(t, p.pos, window)) = ValueWord(window, values)
  BY GatherHolds
<1>2. gather(arena, NoStream) = {}
  BY NoStreamReads
<1>. HIDE DEF arena
<1>3. \A window : ValueWord(window, values) = ChainWord(values, window)
  BY DEF ValueWord, ChainWord, Held
<1>4. ValueWord(carry, values) = CarryWord(values[chain.cin])
  <2>1. 1 \in DOMAIN chain.links /\ IsLink(t, chain.links[1]) /\ chain.links[1].cin = chain.cin
    <3>1. Len(chain.links) \in 1 .. WordBits - 1 /\ DOMAIN chain.links = 1 .. Len(chain.links)
      BY ChainWindows, Zenon
    <3>2. 1 \in DOMAIN chain.links
      BY <3>1, WordWidth
    <3>. QED BY <3>2 DEF ChainTaskOf, IsChain
  <2>2. chain.cin \in Slots(t)
    BY <2>1, LinksAdd DEF LinkComputes, Laid, SettledValues
  <2>3. chain.cin # NoSlot /\ values[chain.cin] \in BOOLEAN
    BY <2>2 DEF Slots, NoSlot, SettledValues, Buffers
  <2>4. ValueWord(carry, values) = {i - 1 : i \in {j \in {1} : values[chain.cin]}}
    BY <2>3 DEF ValueWord
  <2>5. CASE values[chain.cin]
    BY <2>4, <2>5 DEF CarryWord
  <2>6. CASE ~values[chain.cin]
    BY <2>4, <2>6 DEF CarryWord
  <2>. QED BY <2>5, <2>6
<1>. HIDE DEF carry
<1>5. /\ gather(arena, plan_stream(t, p.pos, Ps(chain))) = ChainWord(values, Ps(chain))
      /\ gather(arena, plan_stream(t, p.pos, Qs(chain))) = ChainWord(values, Qs(chain))
      /\ gather(arena, plan_stream(t, p.pos, carry)) = CarryWord(values[chain.cin])
  BY <1>1, <1>3, <1>4, ChainWindows DEF carry
<1>6. ChainTaskStreams(t, p, task, chain, op)
  BY ChainStreams
<1>. QED BY <1>2, <1>5, <1>6 DEF ChainTaskStreams, ChainWords, arena, carry

\* A task of a chain computes the sums and the carry-out of its links, or the
\* gates that escape, as the links' own gates do.
LEMMA ChainTaskYields ==
  ASSUME NEW t, NEW p, Laid(t, p), NEW values, SettledValues(t, values),
         NEW task, IsChainTask(t, p, task)
  PROVE  LET arena == Holding(p, values) IN Yields(p, task, values, TaskWord(arena, arena, task))
<1>. DEFINE arena == Holding(p, values)
            word(i) == gather(arena, task.streams[i])
            result == TaskWord(arena, arena, task)
<1>1. PICK chain, op, block : ChainTaskOf(t, p, task, chain, op, block)
  BY ChainTaskHasChain
<1>. DEFINE n == Len(chain.links)
            link(i) == chain.links[i]
<1>2. n \in 1 .. WordBits - 1 /\ n \in Nat /\ WordBits \in Nat /\ DOMAIN chain.links = 1 .. n
  <2>1. Len(chain.links) \in 1 .. WordBits - 1 /\ DOMAIN chain.links = 1 .. Len(chain.links)
    BY <1>1, ChainWindows, Zenon
  <2>. QED BY <2>1, WordWidth
<1>3. /\ word(1) = ChainWord(values, Ps(chain))
      /\ word(2) = ChainWord(values, Qs(chain))
      /\ word(3) = IF op = "Add" THEN CarryWord(values[chain.cin]) ELSE {}
      /\ task.op = op
  <2>1. ChainWords(task, chain, op, values, arena)
    BY <1>1, ChainOperands
  <2>. QED BY <2>1 DEF ChainWords
<1>4. IsChain(t, chain) /\ FilledBy(p, task.dst, block)
  BY <1>1 DEF ChainTaskOf
<1>5. CASE op = "Add"
  <2>1. result = WrappingAdd(word(1), word(2), word(3))
    <3>. HIDE DEF arena
    <3>. QED BY <1>3, <1>5 DEF TaskWord
  <2>. HIDE DEF word, result, n, link
  <2>2. /\ \A i \in 1 .. n : link(i).sum # NoSlot => (i - 1 \in result <=> values[link(i).sum])
        /\ n \in result <=> values[link(n).carry]
    BY <1>3, <1>4, <1>5, <2>1, ChainAdds DEF n, link, Laid, SettledValues
  <2>3. block = SumBlock(chain)
    BY <1>1, <1>5 DEF ChainTaskOf
  <2>4. DOMAIN block = 1 .. n + 1 /\ (\A i \in 1 .. n : block[i] = link(i).sum) /\ block[n + 1] = link(n).carry
    <3>. DEFINE sums == [i \in 1 .. n |-> link(i).sum]
    <3>1. sums \in Seq({link(i).sum : i \in 1 .. n}) /\ Len(sums) = n
      BY <1>2
    <3>2. block = Append(sums, link(n).carry)
      BY <1>2, <2>3 DEF SumBlock, Last, link, n
    <3>. QED BY <1>2, <3>1, <3>2
  <2>5. ASSUME NEW s \in Placed(p), WordOf(p.pos[s]) = task.dst
        PROVE  Offset(p.pos[s]) \in result <=> values[s]
    <3>1. PICK i \in DOMAIN block : block[i] = s /\ Offset(p.pos[s]) = i - 1
      BY <1>4, <2>5 DEF FilledBy
    <3>2. s # NoSlot
      BY Places DEF Slots, NoSlot
    <3>3. i \in 1 .. n \/ (i = n + 1 /\ i - 1 = n)
      BY <1>2, <2>4
    <3>. QED BY <2>2, <2>4, <3>1, <3>2, <3>3
  <2>. QED BY <2>5 DEF Yields, result, arena
<1>6. CASE op # "Add"
  <2>1. op \in {"Xor", "And"} /\ word(3) = {}
    BY <1>1, <1>3, <1>6 DEF ChainTaskOf
  <2>2. result = {k \in Lanes : Apply(op, k \in word(1), k \in word(2), k \in word(3))}
    <3>. HIDE DEF arena
    <3>. QED BY <1>3, <2>1 DEF TaskWord
  <2>. HIDE DEF word, result, n, link
  <2>3. /\ op = "Xor" => block = PxqBlock(chain)
        /\ op = "And" => block = GBlock(chain)
    BY <1>1 DEF ChainTaskOf
  <2>4. ASSUME NEW s \in Placed(p), WordOf(p.pos[s]) = task.dst
        PROVE  Offset(p.pos[s]) \in result <=> values[s]
    <3>1. PICK i \in DOMAIN block : block[i] = s /\ Offset(p.pos[s]) = i - 1
      BY <1>4, <2>4 DEF FilledBy
    <3>2. s # NoSlot
      BY Places DEF Slots, NoSlot
    <3>3. i \in 1 .. n /\ s = IF op = "Xor" THEN link(i).pxq ELSE link(i).g
      BY <1>2, <2>1, <2>3, <3>1 DEF PxqBlock, GBlock, link
    <3>4. LinkComputes(t, values, link(i))
      BY <1>2, <1>4, <3>3, LinksAdd DEF IsChain, link, Laid, SettledValues
    <3>. DEFINE x == values[link(i).p]
                y == Held(values, link(i).q)
    <3>5. values[s] = IF op = "Xor" THEN x # y ELSE x /\ y
      BY <3>2, <3>3, <3>4 DEF LinkComputes
    <3>6. i - 1 \in Lanes /\ (i - 1 \in word(1) <=> x) /\ (i - 1 \in word(2) <=> y)
      <4>1. i - 1 \in Lanes
        BY <1>2, <3>3 DEF Lanes
      <4>2. \A slots : DOMAIN slots = 1 .. n => (i - 1 \in ChainWord(values, slots) <=> Held(values, slots[i]))
        <5>1. \A j \in 1 .. n : i - 1 = j - 1 <=> i = j
          BY <1>2, <3>3
        <5>. QED BY <3>3, <5>1 DEF ChainWord
      <4>3. /\ DOMAIN Ps(chain) = 1 .. n /\ Ps(chain)[i] = link(i).p
            /\ DOMAIN Qs(chain) = 1 .. n /\ Qs(chain)[i] = link(i).q
        BY <1>2, <3>3 DEF Ps, Qs, link
      <4>4. link(i).p # NoSlot
        BY <3>4 DEF LinkComputes, Slots, NoSlot
      <4>. QED BY <1>3, <4>1, <4>2, <4>3, <4>4 DEF Held
    <3>7. x \in BOOLEAN /\ y \in BOOLEAN
      BY <3>4 DEF LinkComputes, SettledValues, Buffers, Held
    <3>. HIDE DEF x, y
    <3>8. (i - 1 \in word(1)) = x /\ (i - 1 \in word(2)) = y /\ (i - 1 \in word(3)) = FALSE
      BY <2>1, <3>6, <3>7
    <3>9. i - 1 \in result <=> Apply(op, x, y, FALSE)
      BY <2>2, <3>6, <3>8
    <3>10. Apply(op, x, y, FALSE) = IF op = "Xor" THEN x # y ELSE x /\ y
      BY <2>1, <3>7 DEF Apply
    <3>. QED BY <3>1, <3>5, <3>9, <3>10
  <2>. QED BY <2>4 DEF Yields, result, arena
<1>. QED BY <1>5, <1>6

-----------------------------------------------------------------------------
(* Every task.                                                             *)

\* What the engine relies on of a task.
TaskTyped(p, task) ==
  /\ task.dst \in 0 .. p.words - 1 /\ AccessTyped(task.read)
  /\ \A i \in 1 .. 3 : StreamTyped(task.streams[i])
TaskInBounds(p, task) ==
  /\ \A i \in 1 .. 3 : \A seg \in task.streams[i].funnels \cup task.streams[i].splats : InBounds(p, seg.src)
  /\ \A addr \in AddressesOf(task.read) : InBounds(p, LoadedFrom(task.read, addr).src)
TaskSound(t, p, task) ==
  /\ TaskTyped(p, task) /\ TaskInBounds(p, task) /\ TaskReads(task) \subseteq Positioned(p)
  /\ \A high \in SUBSET PlacedSources(t, p) : Computes(t, p, task, SettledWith(t, high))

\* A stream that is gathered from places of signals, or none.
StreamSound(p, stream) ==
  /\ StreamTyped(stream) /\ Reads(stream) \subseteq Positioned(p)
  /\ \A seg \in stream.funnels \cup stream.splats : InBounds(p, seg.src)

\* A stream reads positions of signals, inside the arena.
LEMMA StreamsSound ==
  ASSUME NEW t, NEW p, Laid(t, p)
  PROVE  /\ StreamSound(p, NoStream)
         /\ \A window : WindowGathered(t, p, window) => StreamSound(p, plan_stream(t, p.pos, window))
<1>1. StreamSound(p, NoStream)
  BY NoStreamReads DEF StreamSound
<1>2. ASSUME NEW window, WindowGathered(t, p, window)
      PROVE  StreamSound(p, plan_stream(t, p.pos, window))
  <2>. DEFINE stream == plan_stream(t, p.pos, window)
  <2>1. /\ StreamTyped(stream) /\ Reads(stream) \subseteq Positioned(p)
        /\ \A seg \in stream.funnels \cup stream.splats : InBounds(p, seg.src)
    BY <1>2, StreamReads
  <2>. HIDE DEF stream
  <2>2. StreamSound(p, stream)
    BY <2>1 DEF StreamSound
  <2>. QED BY <2>2 DEF stream
<1>. QED BY <1>1, <1>2

\* The addresses of an access are numbers.
LEMMA Addresses ==
  ASSUME NEW access, access.addr_pos \in Seq(Nat)
  PROVE  AddressesOf(access) = 0 .. Power(Len(access.addr_pos)) - 1
         /\ AddressesOf(access) \subseteq Nat /\ 0 \in AddressesOf(access)
<1>1. AddressesOf(access) = 0 .. Power(Len(access.addr_pos)) - 1
  BY Zenon DEF AddressesOf, Power
<1>2. Power(Len(access.addr_pos)) \in Nat /\ Power(Len(access.addr_pos)) > 0
  <2>1. Len(access.addr_pos) \in Nat
    OBVIOUS
  <2>2. Power(Len(access.addr_pos)) \in Nat
    BY <2>1, PowerCounts
  <2>3. Number(access.addr_pos) \in 0 .. Power(Len(access.addr_pos)) - 1
    BY <2>1, NumberRange
  <2>. QED BY <2>2, <2>3
<1>. QED BY <1>1, <1>2

\* A task without a memory read.
LEMMA NoReadSound ==
  ASSUME NEW t, NEW p, Laid(t, p), NEW task, task.read = NoRead, task.dst \in {WordOf(x) : x \in Positioned(p)},
         \A i \in 1 .. 3 : StreamSound(p, task.streams[i])
  PROVE  TaskTyped(p, task) /\ TaskInBounds(p, task) /\ TaskReads(task) \subseteq Positioned(p)
<1>1. task.dst \in 0 .. p.words - 1 /\ InBounds(p, 0)
  <2>1. PICK s \in Placed(p) : task.dst = WordOf(p.pos[s])
    BY DEF Positioned
  <2>2. WordOf(p.pos[s]) \in 0 .. p.words - 1 /\ InBounds(p, p.pos[s]) /\ p.words \in Nat /\ p.pos[s] \in Nat
    BY Places
  <2>3. WordOf(0) = 0
    BY WordWidth, PositionJoin DEF Lanes
  <2>. QED BY <2>1, <2>2, <2>3 DEF InBounds
<1>2. /\ AccessTyped(NoRead) /\ Field(NoRead.width) = {} /\ ToSet(NoRead.addr_pos) = {}
      /\ NoRead.addr_pos \in Seq(Nat)
  <2>1. Min({0, WordBits}) = 0
    BY SmallerOfTwo, WordWidth
  <2>. QED BY <2>1 DEF AccessTyped, NoRead, Field, ToSet
<1>3. ASSUME NEW addr \in AddressesOf(NoRead) PROVE LoadedFrom(NoRead, addr).src = 0 /\ Loaded(NoRead, addr) = {}
  <2>1. addr \in Nat
    BY <1>2, Addresses
  <2>2. LoadedFrom(NoRead, addr).src = 0
    BY <2>1 DEF LoadedFrom, NoRead
  <2>. QED BY <1>2, <2>2 DEF Loaded
<1>4. TaskReads(task) \subseteq Positioned(p)
  BY <1>2, <1>3 DEF TaskReads, StreamSound
<1>. QED BY <1>1, <1>2, <1>3, <1>4 DEF TaskTyped, TaskInBounds, StreamSound

\* A memory read.
LEMMA ReadSound ==
  ASSUME NEW t, NEW p, Laid(t, p), NEW task, IsReadTask(t, p, task),
         task.dst \in {WordOf(x) : x \in Positioned(p)}
  PROVE  TaskSound(t, p, task)
<1>. DEFINE bare == Task("MemRead", task.dst, NoStream, NoStream, NoStream)
<1>1. task.op = "MemRead" /\ task.streams = <<NoStream, NoStream, NoStream>>
  <2>1. task = [bare EXCEPT !.read = task.read]
    BY DEF IsReadTask
  <2>2. \A read : LET made == [bare EXCEPT !.read = read] IN
          made.op = "MemRead" /\ made.streams = <<NoStream, NoStream, NoStream>>
    BY DEF Task
  <2>. HIDE DEF bare
  <2>. QED BY <2>1, <2>2, Zenon
<1>2. /\ AccessTyped(task.read) /\ task.read.width # 0 /\ TaskReads(task) \subseteq Positioned(p)
  BY DEF IsReadTask
<1>3. \A i \in 1 .. 3 : StreamSound(p, task.streams[i])
  BY <1>1, StreamsSound
<1>4. task.dst \in 0 .. p.words - 1
  BY Places DEF Positioned
<1>5. ASSUME NEW addr \in AddressesOf(task.read) PROVE InBounds(p, LoadedFrom(task.read, addr).src)
  <2>. DEFINE src == LoadedFrom(task.read, addr).src
  <2>1. addr \in Nat
    BY <1>2, Addresses DEF AccessTyped
  <2>2. src \in Int
    <3>1. task.read.base_bit \in Int /\ task.read.width \in Int
      BY <1>2 DEF AccessTyped
    <3>2. \A x \in Int : x * task.read.width \in Int
      BY <3>1
    <3>3. LoadedFrom(task.read, addr).src
            = task.read.base_bit + (IF task.read.zero_word0 /\ addr # 0 THEN addr - 1 ELSE addr) * task.read.width
      BY DEF LoadedFrom
    <3>. QED BY <2>1, <3>1, <3>2, <3>3
  <2>3. 0 \in Field(task.read.width)
    <3>1. task.read.width \in Nat /\ task.read.width > 0
      BY <1>2 DEF AccessTyped
    <3>. QED BY <3>1, SmallerOfTwo, WordWidth DEF Field
  <2>4. src + 0 \in Loaded(task.read, addr)
    BY <2>3 DEF Loaded
  <2>. HIDE DEF src
  <2>5. src \in Positioned(p)
    BY <1>2, <2>2, <2>4 DEF TaskReads
  <2>. QED BY <2>5, Places DEF Positioned, src
<1>6. ASSUME NEW high \in SUBSET PlacedSources(t, p)
      PROVE  Computes(t, p, task, SettledWith(t, high))
  <2>. DEFINE values == SettledWith(t, high)
              arena == Holding(p, values)
  <2>1. \A s \in Placed(p) : WordOf(p.pos[s]) = task.dst =>
          (Offset(p.pos[s]) \in ReadWord(arena, arena, task.read) <=> values[s])
    BY DEF IsReadTask
  <2>. HIDE DEF arena, values
  <2>2. TaskWord(arena, arena, task) = ReadWord(arena, arena, task.read)
    BY <1>1 DEF TaskWord
  <2>. QED BY <2>1, <2>2 DEF Computes, values, arena
<1>. QED BY <1>2, <1>3, <1>4, <1>5, <1>6 DEF TaskSound, TaskTyped, TaskInBounds, StreamSound

\* A task of gates or of a chain.
LEMMA WordSound ==
  ASSUME NEW t, NEW p, Laid(t, p), NEW task, IsGateTask(t, p, task) \/ IsChainTask(t, p, task),
         task.dst \in {WordOf(x) : x \in Positioned(p)}
  PROVE  TaskSound(t, p, task)
<1>1. task.read = NoRead /\ \A i \in 1 .. 3 : StreamSound(p, task.streams[i])
  <2>1. CASE IsGateTask(t, p, task)
    <3>1. PICK slots : GateTaskOf(t, p, task, slots)
      BY <2>1, GateTaskHasSlots
    <3>2. /\ WindowGathered(t, p, Operand(t.a, slots))
          /\ arity(task.op) > 1 => WindowGathered(t, p, Operand(t.b, slots))
          /\ arity(task.op) > 2 => WindowGathered(t, p, Operand(t.c, slots))
      BY <3>1, GateWindows
    <3>3. /\ StreamSound(p, task.streams[1]) /\ StreamSound(p, task.streams[2])
          /\ StreamSound(p, task.streams[3]) /\ task.read = NoRead
      BY <3>1, <3>2, GateStreams, StreamsSound
    <3>. QED BY <3>3
  <2>2. CASE IsChainTask(t, p, task)
    <3>1. PICK chain, op, block : ChainTaskOf(t, p, task, chain, op, block)
      BY <2>2, ChainTaskHasChain
    <3>2. /\ WindowGathered(t, p, Ps(chain)) /\ WindowGathered(t, p, Qs(chain))
          /\ WindowGathered(t, p, <<chain.cin>>)
      BY <3>1, ChainWindows, Zenon
    <3>3. ChainTaskStreams(t, p, task, chain, op)
      BY <3>1, ChainStreams
    <3>4. /\ StreamSound(p, task.streams[1]) /\ StreamSound(p, task.streams[2])
          /\ StreamSound(p, task.streams[3]) /\ task.read = NoRead
      BY <3>2, <3>3, StreamsSound DEF ChainTaskStreams
    <3>. QED BY <3>4
  <2>. QED BY <2>1, <2>2
<1>2. TaskTyped(p, task) /\ TaskInBounds(p, task) /\ TaskReads(task) \subseteq Positioned(p)
  BY <1>1, NoReadSound
<1>3. ASSUME NEW high \in SUBSET PlacedSources(t, p)
      PROVE  Computes(t, p, task, SettledWith(t, high))
  <2>. DEFINE values == SettledWith(t, high)
              arena == Holding(p, values)
  <2>1. SettledValues(t, values)
    BY SettledWithHigh
  <2>. HIDE DEF values
  <2>2. Yields(p, task, values, TaskWord(arena, arena, task))
    BY <2>1, GateTaskYields, ChainTaskYields
  <2>. QED BY <2>2 DEF Yields, Computes, values
<1>. QED BY <1>2, <1>3 DEF TaskSound

-----------------------------------------------------------------------------
(* The capture.                                                            *)

\* Word k captures the registers from WordBits * (k - 1) + 1 on.
LEMMA CaptureWindows ==
  ASSUME NEW t, NEW p, Laid(t, p), CaptureBuilt(t, p), NEW k \in DOMAIN p.capture
  PROVE  /\ WindowGathered(t, p, CaptureWindow(t, p, k))
         /\ \A r \in Registers(t) : WordOf(r - 1) + 1 = k =>
              /\ Offset(r - 1) + 1 \in DOMAIN CaptureWindow(t, p, k)
              /\ CaptureWindow(t, p, k)[Offset(r - 1) + 1] = CaptureSlot(t, p.banks, r)
<1>. DEFINE R == Len(t.reg_out_slots)
            first == WordBits * (k - 1)
            n == IF WordBits <= R - first THEN WordBits ELSE R - first
            window == CaptureWindow(t, p, k)
<1>1. R \in Nat /\ WordBits \in Nat /\ WordBits > 0 /\ Registers(t) = 1 .. R
  BY WordWidth DEF Laid, TapeContract, FieldsTyped, Registers
<1>2. k \in Nat /\ k >= 1 /\ k <= WordsFor(R)
  <2>1. p.reg_init \in Seq(SUBSET Lanes) /\ DOMAIN p.capture = DOMAIN p.reg_init /\ Len(p.reg_init) = WordsFor(R)
    BY DEF CaptureBuilt, Laid, LaidOut
  <2>. HIDE DEF R
  <2>. QED BY <2>1
<1>3. first \in Nat /\ first < R
  <2>. DEFINE q == WordsFor(R)
              up == WordBits * q
              top == WordBits * k
  <2>1. q \in Int /\ up \in Int /\ up <= R + WordBits - 1
    <3>1. R + WordBits - 1 \in Int
      BY <1>1
    <3>. DEFINE x == R + WordBits - 1
    <3>2. x \div WordBits \in Int /\ x % WordBits \in 0 .. WordBits - 1
          /\ x = WordBits * (x \div WordBits) + (x % WordBits)
      BY <1>1, <3>1, Division
    <3>3. q = x \div WordBits
      BY DEF WordsFor
    <3>. HIDE DEF x, q, R
    <3>. QED BY <1>1, <3>2, <3>3 DEF x
  <2>. HIDE DEF q
  <2>2. top <= up
    BY <1>1, <1>2, <2>1 DEF q
  <2>3. first = top - WordBits /\ first \in Nat
    BY <1>1, <1>2
  <2>4. top \in Int
    BY <1>1, <1>2
  <2>. HIDE DEF up, top, first, R
  <2>. QED BY <1>1, <2>1, <2>2, <2>3, <2>4
<1>4. n \in 1 .. WordBits
  <2>. HIDE DEF first, R
  <2>. QED BY <1>1, <1>3
<1>5. window = [i \in 1 .. n |-> CaptureSlot(t, p.banks, first + i)]
  <2>1. Min({WordBits, R - first}) = n
    <3>. HIDE DEF first, R
    <3>. QED BY <1>1, <1>3, SmallerOfTwo
  <2>. QED BY <2>1, Zenon DEF CaptureWindow
<1>6. ASSUME NEW i \in 1 .. n PROVE first + i \in Registers(t)
  <2>. HIDE DEF first, R
  <2>. QED BY <1>1, <1>3, <1>4
<1>7. ASSUME NEW r \in Registers(t), WordOf(r - 1) + 1 = k
      PROVE  Offset(r - 1) + 1 \in 1 .. n /\ first + (Offset(r - 1) + 1) = r
  <2>1. r \in Int /\ r - 1 \in Int /\ r <= R
    BY <1>1
  <2>2. WordOf(r - 1) \in Int /\ Offset(r - 1) \in 0 .. WordBits - 1
        /\ r - 1 = WordBits * WordOf(r - 1) + Offset(r - 1)
    BY <2>1, PositionSplit DEF Lanes
  <2>3. WordOf(r - 1) = k - 1
    BY <1>2, <1>7, <2>2
  <2>4. r - 1 = first + Offset(r - 1)
    BY <2>2, <2>3
  <2>. HIDE DEF first, R
  <2>. QED BY <1>1, <1>3, <2>1, <2>2, <2>4
<1>. HIDE DEF n, first, window
<1>8. WindowGathered(t, p, window)
  <2>1. DOMAIN window = 1 .. n /\ \A i \in 1 .. n : window[i] = CaptureSlot(t, p.banks, first + i)
    BY <1>5
  <2>2. window \in Seq({CaptureSlot(t, p.banks, first + i) : i \in 1 .. n}) /\ Len(window) = n
    BY <1>1, <1>4, <1>5
  <2>3. \A i \in 1 .. n : Gathered(t, p, CaptureSlot(t, p.banks, first + i))
    BY <1>6 DEF CaptureBuilt
  <2>. QED BY <1>1, <1>4, <2>1, <2>2, <2>3 DEF WindowGathered
<1>9. ASSUME NEW r \in Registers(t), WordOf(r - 1) + 1 = k
      PROVE  Offset(r - 1) + 1 \in DOMAIN window /\ window[Offset(r - 1) + 1] = CaptureSlot(t, p.banks, r)
  BY <1>5, <1>7, <1>9
<1>. QED BY <1>8, <1>9 DEF window

\* The captured word of a register holds the value of the slot it captures.
LEMMA CaptureGathers ==
  ASSUME NEW t, NEW p, Laid(t, p), CaptureBuilt(t, p), NEW values, SettledValues(t, values),
         NEW r \in Registers(t)
  PROVE  /\ WordOf(r - 1) + 1 \in DOMAIN p.capture
         /\ Offset(r - 1) \in gather(Holding(p, values), p.capture[WordOf(r - 1) + 1])
              <=> values[CaptureSlot(t, p.banks, r)]
<1>. DEFINE k == WordOf(r - 1) + 1
            l == Offset(r - 1)
            arena == Holding(p, values)
            window == CaptureWindow(t, p, k)
<1>1. k \in DOMAIN p.capture /\ p.capture[k] = plan_stream(t, p.pos, window)
  BY DEF CaptureBuilt, Laid, LaidOut
<1>2. l \in Nat
  <2>1. r - 1 \in Int
    BY DEF Registers
  <2>2. l \in Lanes
    BY <2>1, PositionSplit
  <2>. QED BY <2>2, WordWidth DEF Lanes
<1>3. WindowGathered(t, p, window) /\ l + 1 \in DOMAIN window /\ window[l + 1] = CaptureSlot(t, p.banks, r)
  BY <1>1, CaptureWindows
<1>. HIDE DEF k, l, arena, window
<1>4. CaptureSlot(t, p.banks, r) # NoSlot
  <2>1. CaptureSlot(t, p.banks, r) \in Slots(t)
    BY DEF CaptureSlot, Laid, TapeContract, FieldsTyped
  <2>. QED BY <2>1 DEF Slots, NoSlot
<1>5. gather(arena, p.capture[k]) = ValueWord(window, values)
  BY <1>1, <1>3, GatherHolds DEF arena
<1>6. l \in ValueWord(window, values) <=> values[CaptureSlot(t, p.banks, r)]
  <2>1. DOMAIN window \subseteq Int /\ \A j \in DOMAIN window : l = j - 1 <=> j = l + 1
    BY <1>2, <1>3 DEF WindowGathered
  <2>. QED BY <1>3, <1>4, <2>1 DEF ValueWord
<1>. QED BY <1>1, <1>5, <1>6 DEF k, l, arena

-----------------------------------------------------------------------------
(* Memory writes.                                                          *)

\* The bits at an address of a write are the cells of its word.
LEMMA WriteCells ==
  ASSUME NEW t, NEW p, Laid(t, p), NEW bank, NEW write, IsWrite(t, p, bank, write),
         NEW addr \in AddressesOf(write)
  PROVE  /\ write.width = bank.width /\ bank.width \in 1 .. WordBits
         /\ write.base_bit + addr * write.width \in Nat
         /\ \A j \in 0 .. bank.width - 1 : LET r == bank.base_reg + addr * bank.width + j IN
              /\ r \in Cells(bank) /\ r \in Registers(t)
              /\ write.base_bit + addr * write.width + j = r - 1
<1>. DEFINE width == bank.width
            words == bank.words
            base == bank.base_reg
<1>1. write.width = width /\ write.base_bit = p.pos[t.reg_out_slots[base]] - WordBits * p.reg_word
  BY DEF IsWrite, MemWrite
<1>2. /\ width \in Nat /\ width > 0 /\ base \in Nat /\ Cells(bank) \subseteq Registers(t) /\ write.base_bit \in Nat
      /\ width \in 1 .. WordBits
  BY WordWidth DEF IsWrite, AccessTyped
<1>3. words \in Nat /\ addr \in Nat /\ addr < words
  <2>1. words = Power(Len(write.addr_pos))
    BY Zenon DEF IsWrite, Power
  <2>2. write.addr_pos \in Seq(Nat)
    BY DEF IsWrite, AccessTyped
  <2>3. words \in Nat
    <3>1. Len(write.addr_pos) \in Nat
      BY <2>2
    <3>2. Power(Len(write.addr_pos)) \in Nat
      BY <3>1, PowerCounts
    <3>. QED BY <2>1, <3>2
  <2>4. AddressesOf(write) = 0 .. words - 1
    BY <2>1, <2>2, Addresses
  <2>. HIDE DEF words
  <2>. QED BY <2>3, <2>4
<1>. DEFINE off == addr * width
            size == words * width
<1>4. off \in Nat /\ size \in Nat /\ off + width <= size
  <2>1. off \in Nat /\ size \in Nat /\ (addr + 1) * width = off + width
    BY <1>2, <1>3
  <2>2. (addr + 1) * width <= words * width
    BY <1>2, <1>3
  <2>. QED BY <2>1, <2>2
<1>5. Cells(bank) = base .. base + size - 1
  BY DEF Cells
<1>6. base \in Registers(t)
  <2>. HIDE DEF base, size, width
  <2>. QED BY <1>2, <1>4, <1>5
<1>7. write.base_bit = base - 1
  <2>1. p.pos[t.reg_out_slots[base]] = WordBits * p.reg_word + base - 1 /\ p.reg_word \in Nat
    BY <1>6 DEF Laid, LaidOut
  <2>. DEFINE x == WordBits * p.reg_word
  <2>2. x \in Nat
    BY <2>1, WordWidth
  <2>. HIDE DEF x
  <2>3. p.pos[t.reg_out_slots[base]] = x + base - 1 /\ write.base_bit = p.pos[t.reg_out_slots[base]] - x
    BY <1>1, <2>1 DEF x
  <2>. QED BY <1>2, <2>2, <2>3
<1>8. ASSUME NEW j \in 0 .. width - 1
      PROVE  base + off + j \in Cells(bank) /\ write.base_bit + off + j = (base + off + j) - 1
  <2>. HIDE DEF base, size, width, off
  <2>. QED BY <1>2, <1>4, <1>5, <1>7
<1>9. write.base_bit + addr * write.width = write.base_bit + off
  BY <1>1
<1>10. write.base_bit + off \in Nat
  <2>. HIDE DEF base, size, width, off
  <2>. QED BY <1>2, <1>4
<1>. QED BY <1>1, <1>2, <1>8, <1>9, <1>10

\* Wherever a write goes, it leaves what is not a cell of its bank alone.
LEMMA WriteSpares ==
  ASSUME NEW t, NEW p, Laid(t, p), NEW bank, NEW write, IsWrite(t, p, bank, write),
         NEW r \in Registers(t), r \notin Cells(bank),
         NEW n, NEW stage \in Stages(n), WordOf(r - 1) + 1 \in 1 .. n, NEW arena
  PROVE  Offset(r - 1) \in Applied(arena, write, stage)[WordOf(r - 1) + 1]
           <=> Offset(r - 1) \in stage[WordOf(r - 1) + 1]
<1>. DEFINE w == WordOf(r - 1) + 1
            l == Offset(r - 1)
            addr == AddressAt(arena, write.addr_pos)
            off == StoredAt(arena, write)
<1>1. addr \in AddressesOf(write)
  <2>. DEFINE held == [j \in DOMAIN write.addr_pos |-> BitAt(arena, write.addr_pos[j])]
  <2>1. write.addr_pos \in Seq(Nat)
    BY DEF IsWrite, AccessTyped
  <2>2. Len(held) = Len(write.addr_pos) /\ Len(write.addr_pos) \in Nat
    <3>1. held \in Seq({held[j] : j \in DOMAIN write.addr_pos}) /\ Len(held) = Len(write.addr_pos)
      BY <2>1
    <3>. QED BY <2>1, <3>1
  <2>3. addr = Number(held)
    BY DEF AddressAt
  <2>. HIDE DEF held
  <2>. QED BY <2>1, <2>2, <2>3, NumberRange, Addresses
<1>. HIDE DEF addr
<1>2. off = write.base_bit + addr * write.width
  BY DEF StoredAt, addr
<1>3. r \in Nat /\ l \in Lanes /\ w \in Int /\ r - 1 = WordBits * (w - 1) + l
  <2>1. r \in Nat /\ r - 1 \in Int
    BY DEF Registers
  <2>2. WordOf(r - 1) \in Int /\ l \in Lanes /\ r - 1 = WordBits * WordOf(r - 1) + l
    BY <2>1, PositionSplit
  <2>3. w - 1 = WordOf(r - 1) /\ w \in Int
    BY <2>2
  <2>. QED BY <2>1, <2>2, <2>3
<1>4. (r - 1) - off \notin Field(write.width)
  <2>1. /\ write.width = bank.width /\ off \in Nat
        /\ \A j \in 0 .. bank.width - 1 : LET q == bank.base_reg + addr * bank.width + j IN
             /\ q \in Cells(bank) /\ off + j = q - 1
    BY <1>1, <1>2, WriteCells
  <2>2. Field(write.width) = 0 .. bank.width - 1 /\ bank.width \in Nat
    <3>1. bank.width \in Nat /\ bank.width <= WordBits
      BY WordWidth DEF IsWrite
    <3>. QED BY <2>1, <3>1, SmallerOfTwo, WordWidth DEF Field
  <2>. HIDE DEF off
  <2>3. ASSUME (r - 1) - off \in 0 .. bank.width - 1 PROVE FALSE
    <3>. DEFINE j == (r - 1) - off
                q == bank.base_reg + addr * bank.width + j
    <3>1. j \in 0 .. bank.width - 1 /\ off + j = r - 1
      BY <1>3, <2>1, <2>3
    <3>2. q \in Cells(bank) /\ off + j = q - 1
      BY <2>1, <3>1
    <3>3. q \in Int
      BY <3>2 DEF Cells
    <3>. HIDE DEF q
    <3>4. q = r
      BY <1>3, <3>1, <3>2, <3>3
    <3>. QED BY <3>2, <3>4
  <2>. QED BY <2>2, <2>3
<1>5. l \in patch(stage, off, write.width, gather(arena, write.data))[w] <=> l \in stage[w]
  <2>1. w \in DOMAIN stage
    BY DEF Stages
  <2>2. off \in Int
    BY <1>1, <1>2, WriteCells
  <2>3. WordBits * (w - 1) + (l - off) = (r - 1) - off
    <3>1. WordBits * (w - 1) \in Int /\ l \in Int
      BY <1>3, WordWidth DEF Lanes
    <3>. DEFINE base == WordBits * (w - 1)
    <3>. HIDE DEF w, l, off, base
    <3>2. r - 1 = base + l /\ base \in Int
      BY <1>3, <3>1 DEF base
    <3>3. base + (l - off) = (r - 1) - off
      BY <1>3, <2>2, <3>1, <3>2
    <3>. QED BY <3>3 DEF base
  <2>. DEFINE width == write.width
              value == gather(arena, write.data)
  <2>. HIDE DEF width, value, w, l, off
  <2>4. l \in patch(stage, off, width, value)[w] <=>
          IF WordBits * (w - 1) + (l - off) \in Field(width)
          THEN WordBits * (w - 1) + (l - off) \in value ELSE l \in stage[w]
    BY <1>3, <2>1, PatchBit
  <2>. QED BY <1>4, <2>3, <2>4 DEF width, value
<1>. QED BY <1>5 DEF Applied

\* The writes of a plan leave what is no bank's cell alone.
LEMMA WrittenSpares ==
  ASSUME NEW t, NEW p, Laid(t, p), CaptureBuilt(t, p),
         NEW r \in Registers(t), \A k \in DOMAIN p.banks : r \notin Cells(p.banks[k]),
         NEW n, NEW stage \in Stages(n), WordOf(r - 1) + 1 \in 1 .. n, NEW arena
  PROVE  Offset(r - 1) \in Written(arena, p.writes, stage)[WordOf(r - 1) + 1]
           <=> Offset(r - 1) \in stage[WordOf(r - 1) + 1]
<1>. DEFINE w == WordOf(r - 1) + 1
            l == Offset(r - 1)
            last == Len(p.writes)
<1>1. last \in Nat /\ DOMAIN p.banks = 1 .. last /\ \A k \in 1 .. last : IsWrite(t, p, p.banks[k], p.writes[k])
  BY DEF CaptureBuilt
<1>2. PICK after \in [0 .. last -> Stages(n)] :
        Written(arena, p.writes, stage) = after[last] /\ Patches(after, arena, p.writes, stage)
  BY <1>1, WrittenPatches
<1>. DEFINE S == {k \in 0 .. last : l \in after[k][w] <=> l \in stage[w]}
<1>3. 0 \in S
  <2>1. after[0] = stage /\ 0 \in 0 .. last
    BY <1>1, <1>2 DEF Patches
  <2>. QED BY <2>1
<1>4. ASSUME NEW k \in 0 .. last - 1, k \in S PROVE k + 1 \in S
  <2>1. k \in 0 .. last /\ k + 1 \in 0 .. last /\ k + 1 # 0 /\ (k + 1) - 1 = k /\ k + 1 \in 1 .. last
    BY <1>1
  <2>2. after[k + 1] = Applied(arena, p.writes[k + 1], after[k]) /\ after[k] \in Stages(n)
    BY <1>2, <2>1 DEF Patches
  <2>3. IsWrite(t, p, p.banks[k + 1], p.writes[k + 1]) /\ r \notin Cells(p.banks[k + 1])
    BY <1>1, <2>1
  <2>4. l \in Applied(arena, p.writes[k + 1], after[k])[w] <=> l \in after[k][w]
    BY <2>2, <2>3, WriteSpares
  <2>. QED BY <1>4, <2>1, <2>2, <2>4
<1>5. last \in S
  <2>. HIDE DEF S
  <2>1. \A k \in 0 .. last : k \in S
    BY <1>1, <1>3, <1>4, IntervalInduction
  <2>. QED BY <1>1, <2>1
<1>. QED BY <1>2, <1>5

\* On every settled tape the capture yields the next value of every register.
LEMMA CaptureSound ==
  ASSUME NEW t, NEW p, Laid(t, p), CaptureBuilt(t, p), NEW high \in SUBSET PlacedSources(t, p)
  PROVE  Captures(t, p, SettledWith(t, high))
<1>. DEFINE values == SettledWith(t, high)
            arena == Holding(p, values)
            n == Len(p.reg_init)
            stage == [k \in DOMAIN p.capture |-> gather(arena, p.capture[k])]
<1>1. SettledValues(t, values)
  BY SettledWithHigh
<1>2. DOMAIN p.capture = 1 .. n
  BY DEF CaptureBuilt, Laid, LaidOut
<1>3. stage \in Stages(n)
  <2>1. ASSUME NEW k \in DOMAIN p.capture PROVE gather(arena, p.capture[k]) \subseteq Lanes
    <3>. DEFINE window == CaptureWindow(t, p, k)
    <3>1. p.capture[k] = plan_stream(t, p.pos, window) /\ WindowGathered(t, p, window)
      BY CaptureWindows DEF CaptureBuilt
    <3>. HIDE DEF window, values
    <3>2. gather(arena, p.capture[k]) = ValueWord(window, values)
      BY <1>1, <3>1, GatherHolds
    <3>. QED BY <3>1, <3>2, WordWidth DEF ValueWord, WindowGathered, Lanes
  <2>. HIDE DEF arena
  <2>. QED BY <1>2, <2>1 DEF Stages
<1>4. ASSUME NEW r \in Registers(t)
      PROVE  Offset(r - 1) \in Written(arena, p.writes, stage)[WordOf(r - 1) + 1] <=> values[t.reg_in_slots[r]]
  <2>1. CASE \E k \in DOMAIN p.banks : r \in Cells(p.banks[k])
    <3>1. p.banks # <<>>
      BY <2>1
    <3>2. high \in IF p.banks = <<>> THEN {} ELSE SUBSET PlacedSources(t, p)
      BY <3>1
    <3>3. \A k \in DOMAIN p.banks : \A q \in Cells(p.banks[k]) :
            Offset(q - 1) \in Written(arena, p.writes, stage)[WordOf(q - 1) + 1] <=> values[t.reg_in_slots[q]]
      BY <3>2 DEF CaptureBuilt
    <3>. QED BY <2>1, <3>3
  <2>2. CASE \A k \in DOMAIN p.banks : r \notin Cells(p.banks[k])
    <3>1. CaptureSlot(t, p.banks, r) = t.reg_in_slots[r]
      BY <2>2 DEF CaptureSlot
    <3>. HIDE DEF values
    <3>2. WordOf(r - 1) + 1 \in DOMAIN p.capture
          /\ (Offset(r - 1) \in gather(arena, p.capture[WordOf(r - 1) + 1]) <=> values[t.reg_in_slots[r]])
      BY <1>1, <3>1, CaptureGathers
    <3>. HIDE DEF arena
    <3>3. Offset(r - 1) \in stage[WordOf(r - 1) + 1] <=> values[t.reg_in_slots[r]]
      BY <3>2
    <3>. HIDE DEF stage
    <3>4. Offset(r - 1) \in Written(arena, p.writes, stage)[WordOf(r - 1) + 1]
            <=> Offset(r - 1) \in stage[WordOf(r - 1) + 1]
      BY <1>2, <1>3, <2>2, <3>2, WrittenSpares
    <3>. QED BY <3>3, <3>4
  <2>. QED BY <2>1, <2>2
<1>. QED BY <1>4 DEF Captures

\* What the capture reads has a place, and its streams may be gathered.
LEMMA CaptureStreams ==
  ASSUME NEW t, NEW p, Laid(t, p), CaptureBuilt(t, p)
  PROVE  /\ \A k \in DOMAIN p.capture : StreamSound(p, p.capture[k])
         /\ \A k \in DOMAIN p.writes :
              /\ AccessTyped(p.writes[k]) /\ p.writes[k].enable_pos \in Nat
              /\ StreamSound(p, p.writes[k].data) /\ WriteReads(p.writes[k]) \subseteq Positioned(p)
<1>1. ASSUME NEW k \in DOMAIN p.capture PROVE StreamSound(p, p.capture[k])
  BY CaptureWindows, StreamsSound DEF CaptureBuilt
<1>2. ASSUME NEW k \in DOMAIN p.writes
      PROVE  /\ AccessTyped(p.writes[k]) /\ p.writes[k].enable_pos \in Nat
             /\ StreamSound(p, p.writes[k].data) /\ WriteReads(p.writes[k]) \subseteq Positioned(p)
  <2>. DEFINE bank == p.banks[k]
              write == p.writes[k]
  <2>1. IsWrite(t, p, bank, write)
    BY DEF CaptureBuilt
  <2>. HIDE DEF bank, write
  <2>2. /\ write.addr_pos = [j \in DOMAIN bank.addr_bits |-> p.pos[bank.addr_bits[j]]]
        /\ write.enable_pos = p.pos[bank.enable] /\ write.data = plan_stream(t, p.pos, bank.data)
    BY <2>1 DEF IsWrite, MemWrite
  <2>3. bank.enable \in Placed(p) /\ ToSet(bank.addr_bits) \subseteq Placed(p) /\ AccessTyped(write)
    BY <2>1 DEF IsWrite
  <2>4. WindowGathered(t, p, bank.data)
    <3>1. /\ bank.data \in Seq(Slots(t)) /\ Len(bank.data) = bank.width /\ bank.width \in 1 .. WordBits
          /\ \A i \in DOMAIN bank.data : Gathered(t, p, bank.data[i])
      BY <2>1 DEF IsWrite
    <3>. QED BY <3>1, WordWidth DEF WindowGathered
  <2>5. StreamSound(p, write.data)
    BY <2>2, <2>4, StreamsSound
  <2>6. write.enable_pos \in Nat /\ write.enable_pos \in Positioned(p)
    BY <2>2, <2>3, Places DEF Positioned
  <2>7. ToSet(write.addr_pos) \subseteq Positioned(p)
    BY <2>2, <2>3 DEF ToSet, Positioned
  <2>. QED BY <2>3, <2>5, <2>6, <2>7 DEF WriteReads, StreamSound, write
<1>. QED BY <1>1, <1>2

\* A memory write patches, at any address, the cells of that word.
LEMMA OwnCells ==
  ASSUME NEW t, NEW p, Laid(t, p), CaptureBuilt(t, p), NEW k \in DOMAIN p.writes,
         NEW addr \in AddressesOf(p.writes[k]), NEW stage \in Stages(p.staging_words)
  PROVE  PatchesWord(t, p, k, addr, stage)
<1>. DEFINE write == p.writes[k]
            bank == p.banks[k]
            off == write.base_bit + addr * write.width
            reg(i) == bank.base_reg + addr * bank.width + i
            place(q) == Offset(q) + WordBits * (p.reg_word + WordOf(q))
            cell(i) == p.pos[t.reg_out_slots[reg(i)]]
<1>1. /\ write.width = bank.width /\ bank.width \in 1 .. WordBits /\ off \in Nat
      /\ \A j \in 0 .. bank.width - 1 : reg(j) \in Registers(t) /\ off + j = reg(j) - 1
  <2>1. IsWrite(t, p, bank, write)
    BY DEF CaptureBuilt
  <2>. QED BY <2>1, WriteCells
<1>2. Field(write.width) = 0 .. bank.width - 1 /\ bank.width \in Nat /\ 0 \in 0 .. bank.width - 1
  <2>1. bank.width \in Nat /\ bank.width <= WordBits /\ bank.width > 0
    BY <1>1, WordWidth
  <2>. QED BY <1>1, <2>1, SmallerOfTwo, WordWidth DEF Field
<1>3. Stored(write, addr) = {off + j : j \in 0 .. bank.width - 1}
  BY <1>2 DEF Stored
<1>. HIDE DEF write, bank, off, reg
<1>4. ASSUME NEW j \in 0 .. bank.width - 1 PROVE place(off + j) = cell(j)
  <2>. DEFINE r == reg(j)
              x == off + j
              a == WordBits * p.reg_word
              b == WordBits * WordOf(x)
  <2>1. r \in Registers(t) /\ x = r - 1
    BY <1>1
  <2>. HIDE DEF r, x
  <2>2. r \in Int /\ x \in Int
    BY <2>1 DEF Registers
  <2>3. p.pos[t.reg_out_slots[r]] = a + r - 1 /\ p.reg_word \in Nat
    BY <2>1 DEF Laid, LaidOut
  <2>4. WordOf(x) \in Int /\ Offset(x) \in Int /\ x = b + Offset(x)
    <3>1. WordOf(x) \in Int /\ Offset(x) \in Lanes /\ x = b + Offset(x)
      BY <2>2, PositionSplit
    <3>. QED BY <3>1, WordWidth DEF Lanes
  <2>5. a \in Int /\ b \in Int /\ WordBits * (p.reg_word + WordOf(x)) = a + b
    BY <2>3, <2>4, WordWidth
  <2>. DEFINE c == WordBits * (p.reg_word + WordOf(x))
  <2>. HIDE DEF a, b, c
  <2>6. Offset(x) + c = p.pos[t.reg_out_slots[r]]
    BY <2>1, <2>2, <2>3, <2>4, <2>5 DEF c
  <2>. QED BY <2>6 DEF c, r, x
<1>5. {place(q) : q \in Stored(write, addr)} = {cell(i) : i \in 0 .. bank.width - 1}
  <2>. HIDE DEF place, cell
  <2>. QED BY <1>3, <1>4
<1>6. WordOf(off) + 2 \in DOMAIN stage
  <2>1. reg(0) \in Registers(t) /\ off = reg(0) - 1
    BY <1>1, <1>2
  <2>2. WordOf(off) + 1 \in DOMAIN p.reg_init /\ DOMAIN p.reg_init = 1 .. Len(p.reg_init)
        /\ Len(p.reg_init) \in Nat
    BY <2>1 DEF Laid, LaidOut
  <2>3. p.staging_words = Len(p.reg_init) + 1
    <3>1. p.banks # <<>>
      BY DEF CaptureBuilt
    <3>. QED BY <2>2, <3>1 DEF CaptureBuilt, StagingWords
  <2>4. WordOf(off) \in Int
    BY <1>1, PositionSplit
  <2>5. DOMAIN stage = 1 .. p.staging_words
    BY DEF Stages
  <2>. QED BY <2>2, <2>3, <2>4, <2>5
<1>. QED BY <1>5, <1>6 DEF PatchesWord, write, bank, off, reg

\* A plan built as the engines build it keeps the contract they rely on.
THEOREM BuiltContract ==
  ASSUME NEW t, TapeContract(t), NEW p, PlanBuilt(t, p)
  PROVE  PlanContract(t, p)
<1>1. Laid(t, p) /\ LaidOut(t, p) /\ TasksBuilt(t, p) /\ CaptureBuilt(t, p)
  BY DEF Laid, PlanBuilt
<1>2. \A k \in DOMAIN p.tasks : TaskSound(t, p, p.tasks[k])
  <2>1. ASSUME NEW k \in DOMAIN p.tasks PROVE TaskSound(t, p, p.tasks[k])
    <3>1. /\ p.tasks[k].dst \in {WordOf(x) : x \in Positioned(p)}
          /\ IsGateTask(t, p, p.tasks[k]) \/ IsChainTask(t, p, p.tasks[k]) \/ IsReadTask(t, p, p.tasks[k])
      BY <1>1 DEF TasksBuilt
    <3>. QED BY <1>1, <3>1, WordSound, ReadSound
  <2>. QED BY <2>1
<1>3. ASSUME NEW stream \in StreamsOf(p) PROVE StreamSound(p, stream)
  <2>1. ASSUME NEW k \in DOMAIN p.tasks, NEW i \in 1 .. 3 PROVE StreamSound(p, p.tasks[k].streams[i])
    <3>1. TaskSound(t, p, p.tasks[k])
      BY <1>2
    <3>2. Reads(p.tasks[k].streams[i]) \subseteq TaskReads(p.tasks[k])
      BY DEF TaskReads
    <3>. QED BY <3>1, <3>2 DEF TaskSound, TaskTyped, TaskInBounds, StreamSound
  <2>2. \/ \E k \in DOMAIN p.tasks, i \in 1 .. 3 : stream = p.tasks[k].streams[i]
        \/ \E k \in DOMAIN p.capture : stream = p.capture[k]
        \/ \E k \in DOMAIN p.writes : stream = p.writes[k].data
    BY <1>3 DEF StreamsOf
  <2>. QED BY <1>1, <2>1, <2>2, CaptureStreams
<1>4. PlanTyped(t, p)
  <2>1. /\ p.words \in Nat /\ p.reg_word \in Nat /\ DOMAIN p.pos = Slots(t)
        /\ \A s \in Placed(p) : p.pos[s] \in Nat /\ WordOf(p.pos[s]) < p.words
        /\ p.reg_init \in Seq(SUBSET Lanes) /\ p.reg_word + Len(p.reg_init) <= p.words
    <3>1. \A s \in Placed(p) : WordOf(p.pos[s]) \in 0 .. p.words - 1 /\ p.words \in Nat
      BY <1>1, Places
    <3>. QED BY <1>1, <3>1 DEF LaidOut
  <2>2. p.staging_words \in Nat /\ Len(p.reg_init) <= p.staging_words
    <3>1. Len(p.reg_init) \in Nat
      BY <2>1
    <3>. QED BY <1>1, <3>1 DEF CaptureBuilt, StagingWords
  <2>3. /\ DOMAIN p.capture = DOMAIN p.reg_init
        /\ Len(p.tasks) \in Nat /\ DOMAIN p.tasks = 1 .. Len(p.tasks)
        /\ Len(p.writes) \in Nat /\ DOMAIN p.writes = 1 .. Len(p.writes)
    BY <1>1 DEF CaptureBuilt, TasksBuilt
  <2>4. \A k \in DOMAIN p.tasks : p.tasks[k].dst \in 0 .. p.words - 1 /\ AccessTyped(p.tasks[k].read)
    BY <1>2 DEF TaskSound, TaskTyped
  <2>5. \A k \in DOMAIN p.writes : AccessTyped(p.writes[k]) /\ p.writes[k].enable_pos \in Nat
    BY <1>1, CaptureStreams
  <2>6. \A stream \in StreamsOf(p) : StreamTyped(stream)
    BY <1>3 DEF StreamSound
  <2>. QED BY <2>1, <2>2, <2>3, <2>4, <2>5, <2>6 DEF PlanTyped
<1>5. LoadsInBounds(p)
  BY <1>2, <1>3 DEF LoadsInBounds, StreamSound, TaskSound, TaskInBounds
<1>6. ReadsSignals(t, p)
  <2>1. \A k \in DOMAIN p.tasks : TaskReads(p.tasks[k]) \subseteq Positioned(p)
    BY <1>2 DEF TaskSound
  <2>2. CaptureReads(p) \subseteq Positioned(p)
    BY <1>1, CaptureStreams DEF CaptureReads, StreamSound
  <2>3. ASSUME NEW o \in OutputIds(t), ~IsConstSlot(t, t.output_slots[o]) PROVE t.output_slots[o] \in Placed(p)
    <3>1. t.output_slots[o] \in Slots(t)
      BY DEF TapeContract, FieldsTyped
    <3>2. Gathered(t, p, t.output_slots[o])
      BY <1>1 DEF TasksBuilt
    <3>. QED BY <2>3, <3>1, <3>2 DEF Gathered, Slots, NoSlot
  <2>4. \A s, u \in Placed(p) : p.pos[s] = p.pos[u] => s = u
    BY <1>1 DEF LaidOut
  <2>. QED BY <2>1, <2>2, <2>3, <2>4 DEF ReadsSignals, Positioned
<1>7. WritesPrecedeReads(t, p)
  BY <1>1 DEF TasksBuilt
<1>8. Faithful(t, p)
  <2>1. \A s \in Placed(p) \ Sources(t) : \E k \in DOMAIN p.tasks : p.tasks[k].dst = WordOf(p.pos[s])
    BY <1>1 DEF TasksBuilt
  <2>2. \A high \in SUBSET PlacedSources(t, p) : \A k \in DOMAIN p.tasks :
          Computes(t, p, p.tasks[k], SettledWith(t, high))
    BY <1>2 DEF TaskSound
  <2>3. \A high \in SUBSET PlacedSources(t, p) : Captures(t, p, SettledWith(t, high))
    BY <1>1, CaptureSound
  <2>. QED BY <2>1, <2>2, <2>3 DEF Faithful
<1>. QED BY <1>1, <1>4, <1>5, <1>6, <1>7, <1>8 DEF PlanContract
=============================================================================
