------------------------------ MODULE Emulator ------------------------------
(***************************************************************************)
(* The instruction-level RV32I emulator: one step retires one instruction. *)
(* It is the specification of the gate-level core.                         *)
(***************************************************************************)
EXTENDS Asm

CONSTANT RamWords \* words of RAM, a power of two

VARIABLES rom, pc, regs, ram

HALT == jal(0, 0)

\* The ROM image, padded with HALT to a power of two, at least two.
pad_rom(program) ==
  LET len == Min({n \in {2 ^ k : k \in 1 .. Len(program) + 1} : n >= Len(program)})
  IN  [i \in 0 .. len - 1 |-> IF i < Len(program) THEN program[i + 1] ELSE HALT]

\* A byte address as the index of a word, wrapping at `words`.
IndexOf(addr, words) == Number(addr, 2, XLEN) % words

PoweredOn ==
  /\ pc = {}
  /\ regs = [r \in 0 .. 31 |-> {}]
  /\ ram = [i \in 0 .. RamWords - 1 |-> {}]

new(program) == rom = pad_rom(program) /\ PoweredOn

-----------------------------------------------------------------------------
(* Decoding.                                                               *)

Decode(instr) ==
  [opcode |-> Number(instr, 0, 7), rd |-> Number(instr, 7, 12), f3 |-> Number(instr, 12, 15),
   rs1 |-> Number(instr, 15, 20), rs2 |-> Number(instr, 20, 25), bit30 |-> 30 \in instr,
   imm_i |-> sar(instr, 20),
   imm_s |-> sar(instr \cap 25 .. 31, 20) \cup Place(instr, 7, 12, 0),
   imm_b |-> sar(instr \cap {31}, 19) \cup Place(instr, 7, 8, 11) \cup Place(instr, 25, 31, 5)
               \cup Place(instr, 8, 12, 1),
   imm_u |-> instr \cap 12 .. 31,
   imm_j |-> sar(instr \cap {31}, 11) \cup (instr \cap 12 .. 19) \cup Place(instr, 20, 21, 11)
               \cup Place(instr, 21, 31, 1)]

-----------------------------------------------------------------------------
(* Execution.                                                              *)

Write(rd, value) == regs' = [regs EXCEPT ![rd] = IF rd = 0 THEN @ ELSE value]

Truth(b) == IF b THEN {0} ELSE {}

Taken(f3, a, b) ==
  CASE f3 \in {0, 2} -> a = b
    [] f3 \in {1, 3} -> a # b
    [] f3 = 4 -> SignedBelow(a, b)
    [] f3 = 5 -> ~SignedBelow(a, b)
    [] f3 = 6 -> Below(a, b)
    [] f3 = 7 -> ~Below(a, b)

\* The low bits of a word, sign extended.
Extended(w, width) == sar(shl(w, XLEN - width), XLEN - width)

Loaded(f3, lane) ==
  CASE f3 = 0 -> Extended(lane, 8)
    [] f3 = 1 -> Extended(lane, 16)
    [] f3 = 4 -> lane \cap 0 .. 7
    [] f3 = 5 -> lane \cap 0 .. 15
    [] OTHER -> lane

StoreMask(f3, offset) ==
  CASE f3 = 0 -> shl(0 .. 7, 8 * offset)
    [] f3 = 1 -> IF offset >= 2 THEN 16 .. 31 ELSE 0 .. 15
    [] f3 = 2 -> BitIds
    [] OTHER -> {}

Computed(f3, subtract, arithmetic, a, b) ==
  LET n == Number(b, 0, 5)
  IN  CASE f3 = 0 -> IF subtract THEN wrapping_sub(a, b) ELSE wrapping_add(a, b)
        [] f3 = 1 -> shl(a, n)
        [] f3 = 2 -> Truth(SignedBelow(a, b))
        [] f3 = 3 -> Truth(Below(a, b))
        [] f3 = 4 -> (a \cup b) \ (a \cap b)
        [] f3 = 5 -> IF arithmetic THEN sar(a, n) ELSE shr(a, n)
        [] f3 = 6 -> a \cup b
        [] f3 = 7 -> a \cap b

Four == WordOf(4)

\* One instruction, decoded as d, its operands a and b.
Execute(d, a, b) ==
  CASE d.opcode = Lui ->
         Write(d.rd, d.imm_u) /\ pc' = wrapping_add(pc, Four) /\ UNCHANGED ram
    [] d.opcode = Auipc ->
         Write(d.rd, wrapping_add(pc, d.imm_u)) /\ pc' = wrapping_add(pc, Four) /\ UNCHANGED ram
    [] d.opcode = Jal ->
         Write(d.rd, wrapping_add(pc, Four)) /\ pc' = wrapping_add(pc, d.imm_j) /\ UNCHANGED ram
    [] d.opcode = Jalr ->
         /\ Write(d.rd, wrapping_add(pc, Four))
         /\ pc' = wrapping_add(a, d.imm_i) \ {0}
         /\ UNCHANGED ram
    [] d.opcode = Branch ->
         /\ pc' = wrapping_add(pc, IF Taken(d.f3, a, b) THEN d.imm_b ELSE Four)
         /\ UNCHANGED <<regs, ram>>
    [] d.opcode = Load ->
         LET addr == wrapping_add(a, d.imm_i)
             lane == shr(ram[IndexOf(addr, RamWords)], 8 * Number(addr, 0, 2))
         IN  Write(d.rd, Loaded(d.f3, lane)) /\ pc' = wrapping_add(pc, Four) /\ UNCHANGED ram
    [] d.opcode = Store ->
         LET addr == wrapping_add(a, d.imm_s)
             mask == StoreMask(d.f3, Number(addr, 0, 2))
         IN  /\ ram' = [ram EXCEPT ![IndexOf(addr, RamWords)] =
                          (@ \ mask) \cup (shl(b, 8 * Number(addr, 0, 2)) \cap mask)]
             /\ pc' = wrapping_add(pc, Four)
             /\ UNCHANGED regs
    [] d.opcode \in {OpImm, Op} ->
         /\ Write(d.rd, Computed(d.f3, d.opcode = Op /\ d.bit30, d.bit30, a,
                                 IF d.opcode = OpImm THEN d.imm_i ELSE b))
         /\ pc' = wrapping_add(pc, Four)
         /\ UNCHANGED ram
    [] OTHER -> pc' = wrapping_add(pc, Four) /\ UNCHANGED <<regs, ram>>

Run(d) == Execute(d, regs[d.rs1], regs[d.rs2])

step == Run(Decode(rom[IndexOf(pc, Cardinality(DOMAIN rom))])) /\ UNCHANGED rom
=============================================================================
