-------------------------------- MODULE Mem --------------------------------
(***************************************************************************)
(* find_banks and find_regfiles: memories built from gates on a tape, whose*)
(* read trees become indexed loads in the packed engines, and in a bank    *)
(* the writes an indexed store.                                            *)
(*                                                                         *)
(* A memory is an array of registers, word by word. In a bank every        *)
(* register holds its value unless its word is written, and a balanced tree*)
(* of muxes reads the addressed word. In a register file word 0 is zero    *)
(* and has no register, and only the read ports are recognized.            *)
(*                                                                         *)
(* Both functions return sequences in the order of the base registers; the *)
(* code's order is that of its hash maps.                                  *)
(***************************************************************************)
EXTENDS Tape, SequencesExt, Integers

CONSTANT MinWords \* MIN_WORDS: words worth fusing

ASSUME MinWordsAssumption == MinWords \in Nat /\ MinWords >= 4

ZeroWord == -1 \* the leaf of the word that has no register

PowersOfTwo(n) == {m \in 1 .. n : \E k \in 0 .. n : m = 2 ^ k}
Log2(n) == CHOOSE k \in 0 .. n : n = 2 ^ k

LiveRegs(t) == {r \in Registers(t) : t.reg_out_slots[r] # NoSlot}

-----------------------------------------------------------------------------
(* Words: the write side.                                                  *)

\* Next state mux(select, data, r): r holds unless it is selected.
IsCell(t, r) ==
  /\ r \in LiveRegs(t)
  /\ t.ops[t.reg_in_slots[r]] = "Mux"
  /\ t.c[t.reg_in_slots[r]] = t.reg_out_slots[r]

Select(t, r) == t.a[t.reg_in_slots[r]]
Data(t, r) == t.b[t.reg_in_slots[r]]

\* A word is all the cells of one select, at consecutive registers.
Words(t) ==
  LET cells  == {r \in Registers(t) : IsCell(t, r)}
      groups == {{r \in cells : Select(t, r) = we} : we \in {Select(t, r) : r \in cells}}
  IN  {[base |-> Min(g), width |-> Cardinality(g)] :
         g \in {h \in groups : Max(h) - Min(h) + 1 = Cardinality(h)}}

DataBus(t, word) == [i \in 1 .. word.width |-> Data(t, word.base + i - 1)]

\* Words that share a data bus, a power of two of them, one after another.
Arrays(t) ==
  LET words == Words(t)
      sharing(bus) == {w \in words : DataBus(t, w) = bus}
      array(group) == [base |-> Min({w.base : w \in group}),
                       width |-> (CHOOSE w \in group : TRUE).width,
                       words |-> Cardinality(group)]
      bases(x) == {x.base + k * x.width : k \in 0 .. x.words - 1}
      groups == {g \in {sharing(bus) : bus \in {DataBus(t, w) : w \in words}} :
                   /\ Cardinality(g) >= MinWords /\ Cardinality(g) \in PowersOfTwo(Cardinality(g))
                   /\ {w.base : w \in g} = bases(array(g))}
  IN  {array(g) : g \in groups}

-----------------------------------------------------------------------------
(* Read trees, as rows of nodes from the leaves up: rows[d + 1][i] are the *)
(* gates of level d for bit i.                                             *)

MuxesOver(t, hi, lo) ==
  {s \in GateSlots(t) : t.ops[s] = "Mux" /\ t.b[s] = hi /\ t.c[s] = lo}

\* The last mux between two slots.
mux_by_bc(t, hi, lo) ==
  LET muxes == MuxesOver(t, hi, lo) IN IF muxes = {} THEN NoSlot ELSE Max(muxes)

\* A row for one bit: every pair of nodes joined by its mux.
Joined(t, row) == [j \in 1 .. Len(row) \div 2 |-> mux_by_bc(t, row[2 * j], row[2 * j - 1])]

\* The trees of a bank, from the register outputs of its words.
match_tree(t, leaves) ==
  FoldLeft(LAMBDA rows, d : Append(rows, [i \in DOMAIN leaves |-> Joined(t, Last(rows)[i])]),
           <<leaves>>, [d \in 1 .. Log2(Len(leaves[1])) |-> d])

Depths(rows) == 1 .. Len(rows) - 1
Nodes(rows, d) == UNION {ToSet(rows[d + 1][i]) : i \in DOMAIN rows[d + 1]}
TreeGates(rows) == UNION {Nodes(rows, d) : d \in Depths(rows)}
Tops(rows) == [i \in DOMAIN rows[1] |-> Last(rows)[i][1]]

\* Every node is there, and the nodes of a level share their select.
Matched(t, rows) ==
  /\ NoSlot \notin TreeGates(rows)
  /\ \A d \in Depths(rows) : Cardinality({t.a[m] : m \in Nodes(rows, d)}) = 1

\* A row for one bit of a register file: as above but for this select, and an And
\* stands for the mux over the zero word.
JoinedBy(t, sel, row) ==
  LET gates(hi, lo) ==
        IF lo = ZeroWord
        THEN {s \in GateSlots(t) : t.ops[s] = "And" /\ {t.a[s], t.b[s]} = {sel, hi}}
        ELSE {s \in MuxesOver(t, hi, lo) : t.a[s] = sel}
      only(S) == IF Cardinality(S) = 1 THEN CHOOSE s \in S : TRUE ELSE NoSlot
  IN  [j \in 1 .. Len(row) \div 2 |-> only(gates(row[2 * j], row[2 * j - 1]))]

\* The select of the next level, read off the last two nodes of a row: an
\* ambiguous one is none.
SelectAbove(t, row) ==
  LET muxes == MuxesOver(t, row[Len(row)], row[Len(row) - 1])
  IN  IF Cardinality(muxes) = 1 THEN t.a[CHOOSE m \in muxes : TRUE] ELSE NoSlot

\* The trees of one read port, told apart by the select of its lowest level.
match_reg_tree(t, leaves, lsb) ==
  FoldLeft(LAMBDA tree, d :
             LET row == Last(tree.rows)
                 sel == IF d = 1 THEN lsb ELSE SelectAbove(t, row[1])
             IN  [addr_bits |-> Append(tree.addr_bits, sel),
                  rows |-> Append(tree.rows, [i \in DOMAIN leaves |-> JoinedBy(t, sel, row[i])])],
           [addr_bits |-> <<>>, rows |-> <<leaves>>], [d \in 1 .. Log2(Len(leaves[1])) |-> d])

-----------------------------------------------------------------------------
(* Conditions of removal and of relocation.                                *)

\* The registers latching m; reg_in remembers the last of them.
Latching(t, m) == {r \in LiveRegs(t) : t.reg_in_slots[r] = m}

\* Apart from the roots, which are relocated, nothing that stays reads what
\* is removed; a write mux may be latched by a cell.
Removable(t, removed, roots, write_muxes, cells) ==
  \A m \in removed \ roots :
    /\ \A o \in OutputIds(t) : t.output_slots[o] # m
    /\ Latching(t, m) # {} => m \in write_muxes /\ Max(Latching(t, m)) \in cells
    /\ successors(t, m) \subseteq removed

\* One above the address bits.
read_ready(t, addr_bits) == 1 + Max({t.slot_level[s] : s \in ToSet(addr_bits)})

ConsumersAbove(t, tops, level) ==
  \A i \in DOMAIN tops : \A s \in successors(t, tops[i]) : t.slot_level[s] >= level

-----------------------------------------------------------------------------
(* Banks.                                                                  *)

\* The slots whose value follows from the assigned ones, gate by gate.
eval(t, assigned) ==
  LET knows(v, s) == s \in v.high \cup v.low
      value(v, s) == s \in v.high
      known(v, g) ==
        /\ knows(v, t.a[g])
        /\ arity(t.ops[g]) > 1 => knows(v, t.b[g])
        /\ t.ops[g] = "Mux" /\ ~value(v, t.a[g]) => knows(v, t.c[g])
      step(v, g) ==
        IF knows(v, g) \/ ~known(v, g) THEN v
        ELSE IF Apply(t.ops[g], value(v, t.a[g]), value(v, t.b[g]), value(v, t.c[g]))
             THEN [v EXCEPT !.high = @ \cup {g}] ELSE [v EXCEPT !.low = @ \cup {g}]
      consts(bit) == {t.const_slots[k][1] : k \in {j \in DOMAIN t.const_slots :
                                                     t.const_slots[j][2] = bit}}
  IN  FoldLeft(step, [high |-> assigned.high \cup consts(TRUE), low |-> assigned.low \cup consts(FALSE)],
               [i \in 1 .. slot_count(t) + 1 - t.gate_start |-> t.gate_start + i - 1])

\* The address bits at the value v.
Address(addr_bits, v) ==
  LET bits(b) == {addr_bits[d] : d \in {e \in DOMAIN addr_bits : (v \div 2 ^ (e - 1)) % 2 = b}}
  IN  [high |-> bits(1), low |-> bits(0)]

\* The operand that all the write enables share, the first one first.
Enable(t, selects) ==
  LET shared(c) == \A k \in DOMAIN selects : c \in {t.a[selects[k]], t.b[selects[k]]}
  IN  IF \E k \in DOMAIN selects : t.ops[selects[k]] # "And" THEN NoSlot
      ELSE IF shared(t.a[selects[1]]) THEN t.a[selects[1]]
      ELSE IF shared(t.b[selects[1]]) THEN t.b[selects[1]] ELSE NoSlot

\* The other operand of a write enable.
Decoder(t, we, enable) == IF t.a[we] = enable THEN t.b[we] ELSE t.a[we]

\* Mutant: the decoders are not tried.
OneHotUnchecked(t, selects, enable, addr_bits) == TRUE

\* At every address exactly that word's decoder is high.
OneHot(t, selects, enable, addr_bits) ==
  \A v \in 0 .. Len(selects) - 1 :
    LET values == eval(t, Address(addr_bits, v))
    IN  \A k \in DOMAIN selects :
          Decoder(t, selects[k], enable) \in IF k = v + 1 THEN values.high ELSE values.low

\* The bank of an array with these read trees and this enable, if all of it holds.
BankOf(t, array, rows, selects, enable) ==
  LET cells == array.base .. array.base + array.words * array.width - 1
      writes == {t.reg_in_slots[r] : r \in cells}
      addr_bits == [d \in Depths(rows) |-> t.a[CHOOSE m \in Nodes(rows, d) : TRUE]]
  IN  IF /\ Matched(t, rows) /\ enable # NoSlot
         /\ OneHot(t, selects, enable, addr_bits)
         /\ Removable(t, TreeGates(rows) \cup writes, ToSet(Tops(rows)), writes, cells)
         /\ ConsumersAbove(t, Tops(rows), read_ready(t, addr_bits))
      THEN {[base_reg |-> array.base, words |-> array.words, width |-> array.width,
             addr_bits |-> addr_bits, enable |-> enable, data |-> DataBus(t, array),
             read_tops |-> Tops(rows), fused |-> TreeGates(rows) \cup writes,
             read_ready |-> read_ready(t, addr_bits)]}
      ELSE {}

find_banks(t) ==
  LET bank(array) ==
        LET cell(k, i) == array.base + (k - 1) * array.width + i - 1
            selects == [k \in 1 .. array.words |-> Select(t, cell(k, 1))]
            leaves == [i \in 1 .. array.width |->
                         [k \in 1 .. array.words |-> t.reg_out_slots[cell(k, i)]]]
        IN  BankOf(t, array, match_tree(t, leaves), selects, Enable(t, selects))
  IN  SetToSortSeq(UNION {bank(array) : array \in Arrays(t)},
                   LAMBDA x, y : x.base_reg < y.base_reg)

-----------------------------------------------------------------------------
(* Register files.                                                         *)

\* The read port with these trees, if it may be fused.
RegRead(t, base, width, tree) ==
  LET gates == TreeGates(tree.rows)
      tops  == Tops(tree.rows)
  IN  IF /\ NoSlot \notin gates
         /\ Removable(t, gates, ToSet(tops), {}, {})
         /\ ConsumersAbove(t, tops, read_ready(t, tree.addr_bits))
      THEN {[base_reg |-> base, width |-> width, addr_bits |-> tree.addr_bits,
             read_tops |-> tops, fused |-> gates, read_ready |-> read_ready(t, tree.addr_bits)]}
      ELSE {}

\* The read ports of a file of `logical` words whose word 1 is at `base`:
\* one for each select of the lowest muxes. The bound asks for room for
\* `logical` stored words, one more than there are.
try_shape(t, base, width, logical) ==
  LET leaf(i, k) == IF k = 1 THEN ZeroWord ELSE t.reg_out_slots[base + (k - 2) * width + i - 1]
      leaves == [i \in 1 .. width |-> [k \in 1 .. logical |-> leaf(i, k)]]
      muxes == MuxesOver(t, leaf(1, 4), leaf(1, 3))
  IN  IF base - 1 + logical * width > Len(t.reg_out_slots) THEN {}
      ELSE UNION {RegRead(t, base, width, match_reg_tree(t, leaves, t.a[m])) : m \in muxes}

TopsOf(reads) == UNION {ToSet(read.read_tops) : read \in reads}

\* The largest file that starts at the word `seed` and is not part of one
\* already found.
FromSeed(t, found, seed) ==
  LET max_words == (Len(t.reg_out_slots) - seed.base + 1) \div seed.width + 1
      shape(n) == try_shape(t, seed.base, seed.width, n)
      sizes == {n \in PowersOfTwo(max_words) :
                  /\ n >= MinWords /\ shape(n) # {}
                  /\ TopsOf(shape(n)) \cap UNION {read.fused : read \in ToSet(found)} = {}}
  IN  IF sizes = {} THEN found
      ELSE found \o SetToSortSeq(shape(Max(sizes)), LAMBDA x, y : x.read_tops[1] < y.read_tops[1])

find_regfiles(t) ==
  FoldLeft(LAMBDA found, seed : FromSeed(t, found, seed), <<>>,
           SetToSortSeq(Words(t), LAMBDA v, w : v.base < w.base))
=============================================================================
