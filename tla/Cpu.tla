-------------------------------- MODULE Cpu --------------------------------
(***************************************************************************)
(* The single-cycle gate-level RV32I core as build_cpu wires it: every     *)
(* signal of the datapath for the current state, and the clock edge.       *)
(***************************************************************************)
EXTENDS Rtl

CONSTANT RamWords \* words of RAM, a power of two

ASSUME RamAssumption == \E k \in 0 .. RamWords : RamWords = 2 ^ k

VARIABLES
  rom, \* the constants of the fetch tree, from address 0
  pc,  \* the PC registers
  x,   \* x1 .. x31; x0 has no storage
  mem  \* the RAM cells

vars == <<rom, pc, x, mem>>

Emu == INSTANCE Emulator WITH
  regs <- [r \in 0 .. 31 |-> IF r = 0 THEN {} ELSE x[r]], ram <- mem

Log2(n) == CHOOSE k \in 0 .. n : n = 2 ^ k

build_cpu(program) ==
  /\ rom = Emu!pad_rom(program)
  /\ pc = {}
  /\ x = [r \in 1 .. 31 |-> {}]
  /\ mem = [w \in 0 .. RamWords - 1 |-> {}]

\* Words 0 to n - 1 of a memory, as the leaves of a mux tree.
Leaves(words, n) == [k \in 1 .. n |-> words[k - 1]]

-----------------------------------------------------------------------------
(* Fetch and decode.                                                       *)

Fetch ==
  LET n == Cardinality(DOMAIN rom)
  IN  mux_tree(Wires(pc, 2, 2 + Log2(n)), Leaves(rom, n))

Control(instr) ==
  LET is(opcode) == match_bits(Wires(instr, 0, 7), opcode)
  IN  [lui |-> is(55), auipc |-> is(23), jal |-> is(111), jalr |-> is(103), branch |-> is(99),
       load |-> is(3), store |-> is(35), opimm |-> is(19), op |-> is(51),
       funct3 |-> Wires(instr, 12, 15), f3d |-> decoder(Wires(instr, 12, 15)),
       instr30 |-> 30 \in instr]

\* Each bit of an immediate is an instruction wire.
Wired(instr, wire(_)) == {i \in BitIds : wire(i) \in instr}

imm_i(instr) == Wired(instr, LAMBDA i : IF i < 11 THEN 20 + i ELSE 31)
imm_s(instr) == Wired(instr, LAMBDA i : IF i < 5 THEN 7 + i ELSE IF i < 11 THEN 20 + i ELSE 31)
imm_b(instr) ==
  Wired(instr, LAMBDA i : IF i < 5 THEN 7 + i ELSE IF i < 11 THEN 20 + i
                          ELSE IF i = 11 THEN 7 ELSE 31) \ {0}
imm_u(instr) == instr \ 0 .. 11
imm_j(instr) ==
  Wired(instr, LAMBDA i : IF i < 11 THEN 20 + i ELSE IF i = 11 THEN 20
                          ELSE IF i < 20 THEN i ELSE 31) \ {0}

\* A read port of the register file, over x0 and the registers.
ReadPort(sel) == mux_tree(sel, <<{}>> \o x)

-----------------------------------------------------------------------------
(* The arithmetic unit.                                                    *)

alu_b(instr, k, rs2) ==
  mux_word(k.load \/ k.store \/ k.jalr \/ k.opimm,
           mux_word(k.store, imm_s(instr), imm_i(instr)), rs2)

\* The shared adder, and the subtraction for comparisons.
add_sub(k, a, b) ==
  LET sub_flag == k.op /\ k.instr30 /\ k.f3d[1]
  IN  adder(a, mux_word(sub_flag, word_not(b), b), sub_flag).sum
Compared(a, b, diff) ==
  [lt |-> IF (31 \in a) # (31 \in b) THEN 31 \in a ELSE 31 \in diff.sum,
   ltu |-> ~diff.carry, eq |-> equal(a, b)]

alu_out(k, a, b, sum, compared) ==
  LET shamt == Wires(b, 0, 5)
      bit(s) == IF s THEN {0} ELSE {}
  IN  mux_tree(k.funct3,
        <<sum, shift_left(a, shamt), bit(compared.lt), bit(compared.ltu), word_xor(a, b),
          shift_right(a, shamt, k.instr30 /\ 31 \in a), word_or(a, b), word_and(a, b)>>)

-----------------------------------------------------------------------------
(* Data memory.                                                            *)

AddressWires(addr) == Wires(addr, 2, 2 + Log2(RamWords))
mem_word(addr) == mux_tree(AddressWires(addr), Leaves(mem, RamWords))

\* The word moved right, or left, by the byte offset.
RightLane(w, addr) ==
  LET half_shift == mux_word(0 \in addr, shr(w, 8), w)
  IN  mux_word(1 \in addr, shr(half_shift, 16), half_shift)
LeftLane(w, addr) ==
  LET s_half == mux_word(0 \in addr, shl(w, 8), w)
  IN  mux_word(1 \in addr, shl(s_half, 16), s_half)

load_data(k, lane) ==
  LET signed(n) == {i \in BitIds : IF i < n THEN i \in lane ELSE n - 1 \in lane}
      unsigned(n) == lane \cap 0 .. n - 1
  IN  mux_tree(k.funct3, <<signed(8), signed(16), lane, lane, unsigned(8), unsigned(16), lane, lane>>)

\* Mutant: a halfword store enables the bytes by the low address bit.
HalfEnableOfBit0(k, addr) ==
  {j \in 0 .. 3 : \/ k.f3d[3]
                  \/ k.f3d[2] /\ (IF j < 2 THEN 0 \notin addr ELSE 0 \in addr)
                  \/ k.f3d[1] /\ decoder(Wires(addr, 0, 2))[j + 1]}

\* The bytes that a store enables.
byte_en(k, addr) ==
  {j \in 0 .. 3 : \/ k.f3d[3]
                  \/ k.f3d[2] /\ (IF j < 2 THEN 1 \notin addr ELSE 1 \in addr)
                  \/ k.f3d[1] /\ decoder(Wires(addr, 0, 2))[j + 1]}

merged(k, addr, sdata, word) ==
  LET enabled == byte_en(k, addr)
  IN  {i \in BitIds : IF i \div 8 \in enabled THEN i \in sdata ELSE i \in word}

-----------------------------------------------------------------------------
(* Next state.                                                             *)

pc_target(instr, k) ==
  add(pc, mux_word(k.auipc, imm_u(instr), mux_word(k.jal, imm_j(instr), imm_b(instr))))

jump(k, compared) ==
  LET lt_kind == IF k.funct3[2] THEN compared.ltu ELSE compared.lt
      base_cond == IF k.funct3[3] THEN lt_kind ELSE compared.eq
  IN  (k.branch /\ base_cond # k.funct3[1]) \/ k.jal \/ k.jalr

reg_write(k) == k.opimm \/ k.op \/ k.lui \/ k.auipc \/ k.jal \/ k.jalr \/ k.load

\* The value written back.
wb(instr, k, alu, target, pc4, loaded) ==
  mux_word(k.load, loaded,
    mux_word(k.jal \/ k.jalr, pc4, mux_word(k.auipc, target, mux_word(k.lui, imm_u(instr), alu))))

\* The edge, from the settled signals.
Latch(instr, k, rs2, sum, compared, alu, target, pc4) ==
  LET lines == decoder(Wires(instr, 7, 12))
      word == wb(instr, k, alu, target, pc4, load_data(k, RightLane(mem_word(sum), sum)))
      cells == merged(k, sum, LeftLane(rs2, sum), mem_word(sum))
      selected == decoder(AddressWires(sum))
  IN  /\ pc' = mux_word(jump(k, compared), mux_word(k.jalr, sum \ {0}, target), pc4)
      /\ x' = [r \in 1 .. 31 |-> mux_word(reg_write(k) /\ lines[r + 1], word, x[r])]
      /\ mem' = [w \in 0 .. RamWords - 1 |-> mux_word(k.store /\ selected[w + 1], cells, mem[w])]
      /\ UNCHANGED rom

Computing(instr, k, a, b, rs2, sum, compared) ==
  Latch(instr, k, rs2, sum, compared, alu_out(k, a, b, sum, compared), pc_target(instr, k),
        add(pc, WordOf(4)))
Operating(instr, k, a, b, rs2) ==
  Computing(instr, k, a, b, rs2, add_sub(k, a, b), Compared(a, b, adder(a, word_not(b), TRUE)))
Reading(instr, k, rs1, rs2) == Operating(instr, k, rs1, alu_b(instr, k, rs2), rs2)
Decoding(instr) ==
  Reading(instr, Control(instr), ReadPort(Wires(instr, 15, 20)), ReadPort(Wires(instr, 20, 25)))

\* One tick retires one instruction.
tick == Decoding(Fetch)
=============================================================================
