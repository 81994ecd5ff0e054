------------------------------- MODULE MCCpu -------------------------------
(***************************************************************************)
(* Model-checking instance of the core: programs that load two registers   *)
(* with corner values and then run one instruction of every kind.          *)
(***************************************************************************)
EXTENDS Cpu, Asm

CONSTANT MaxRetired \* bound: instructions retired by a program

VARIABLES
  source, \* history: the assembly source of the program
  retired \* history: how many instructions it has retired

mcVars == <<vars, source, retired>>

Ins(op, rd, rs1, rs2, imm) == [op |-> op, rd |-> rd, rs1 |-> rs1, rs2 |-> rs2, imm |-> imm]
I(op, rd, rs1, imm) == Ins(op, rd, rs1, 0, imm)

\* A word that no mnemonic stands for.
Raw(word) == Ins("raw", 0, 0, 0, word)

Assembled(src) == [k \in DOMAIN src |-> IF src[k].op = "raw" THEN src[k].imm ELSE assemble(src[k])]

\* The corner values 0, 1, -1, the least, the largest, and one of all bytes,
\* as the upper immediate and the addend that load them.
Corners == {<<{}, 0>>, <<{}, 1>>, <<{}, -1>>, <<{31}, 0>>, <<{31}, -1>>, <<{12, 14, 18, 29, 31}, 1656>>}
LoadCorner(r, value) ==
  (IF value[1] = {} THEN <<>> ELSE <<Ins("lui", r, 0, 0, value[1])>>)
    \o <<I("addi", r, IF value[1] = {} THEN 0 ELSE r, value[2])>>

Byte == <<{12, 14, 18, 29, 31}, 1656>>

\* The immediate of these is a shift amount, 0 to 31. Words of theirs with other
\* bits set are given raw.
Shifts == {"slli", "srli", "srai"}

\* Register and immediate arithmetic: every funct3 and both values of bit 30.
Arithmetic ==
  {<<Ins(op, 7, 5, 6, 0)>> : op \in DOMAIN RType}
    \cup {<<Raw(rtype(32, 6, 5, f3, 0, Op))>> : f3 \in {1, 7}}
ImmediateArithmetic ==
  {<<I(op, 7, 5, imm)>> : op \in {o \in DOMAIN IType : IType[o][2] = OpImm} \ Shifts, imm \in {-1, 5, 31}}
    \cup {<<I(op, 7, 5, shamt)>> : op \in Shifts, shamt \in {0, 1, 5, 31}}
    \cup {<<Raw(itype(BitIds, 5, f3, 7, OpImm))>> : f3 \in {1, 5}}
    \cup {<<I("addi", 0, 5, 2047)>>, <<I("sltiu", 5, 5, -2048)>>}

\* Branches forth and back, each with a mark on both sides; no mnemonic has
\* funct3 2 or 3.
Branches ==
  {<<Ins(op, 0, 5, 6, 8), I("addi", 7, 0, 1)>> : op \in DOMAIN BType}
    \cup {<<Ins(op, 0, 5, 6, -4)>> : op \in {"beq", "bgeu"}}
    \cup {<<Raw(btype(8, 6, 5, f3)), I("addi", 7, 0, 1)>> : f3 \in {2, 3}}

\* Memory: x5 is an address or a value, x6 what is stored.
Loads ==
  {<<Ins("sw", 0, 5, 6, 0), I(op, 7, 5, imm)>> :
     op \in {o \in DOMAIN IType : IType[o][2] = Load}, imm \in {0, 1, 2, 3, -3}}
    \cup {<<Ins("sw", 0, 5, 6, 0), Raw(itype(WordOf(1), 5, f3, 7, Load))>> : f3 \in {3, 7}}
Stores ==
  {<<Ins("sw", 0, 0, 6, 0), Ins(op, 0, 0, 5, imm), I("lw", 7, 0, 4)>> :
     op \in DOMAIN SType, imm \in {0, 1, 2, 3, 5}}
    \cup {<<Raw(stype(1, 5, 6, f3))>> : f3 \in {3, 4}}

\* Jumps, upper immediates and opcodes the core does not implement.
Jumps ==
  {<<Ins("jal", rd, 0, 0, imm)>> : rd \in {0, 1}, imm \in {8, -4, 2048, 1048574, -1048576}}
    \cup {<<I("jalr", rd, 5, imm)>> : rd \in {0, 5}, imm \in {-1, 9}}
    \cup {<<Ins(op, 7, 0, 0, {12, 30, 31})>> : op \in {"lui", "auipc"}}
    \cup {<<Raw(rtype(0, 6, 5, 0, 7, opcode))>> : opcode \in {15, 115}}

Pairs == {<<v, w>> : v, w \in Corners}
Sources ==
  {LoadCorner(5, p[1]) \o LoadCorner(6, p[2]) \o body : p \in Pairs, body \in Arithmetic \cup Branches}
    \cup {LoadCorner(5, v) \o body : v \in Corners, body \in ImmediateArithmetic \cup Jumps}
    \cup {LoadCorner(5, v) \o LoadCorner(6, Byte) \o body : v \in Corners, body \in Loads \cup Stores}

Init == (\E src \in Sources : source = src /\ build_cpu(Assembled(src))) /\ retired = 0
Next == retired < MaxRetired /\ tick /\ retired' = retired + 1 /\ UNCHANGED source
\* A program stops at the bound.
Spec == Init /\ [][Next]_mcVars

\* "The bundled Emulator mirrors this model exactly, including out-of-range
\* wrap-around and misaligned-access behavior": in lockstep, on any program.
\* Every tick is a step of the emulator; one in which nothing changes has to be
\* a step of it too, such as HALT, since it counts as retired.
MirrorsEmulator == Emu!PoweredOn /\ [][Emu!step]_mcVars

\* What is fetched decodes to the instruction that was written: the encoders of
\* asm.rs and the field extraction of emu.rs agree, immediates included. Of a
\* shift that is its amount and bit 30, which alone tells srai from srli.
DecodesSource ==
  LET n == Emu!IndexOf(pc, Cardinality(DOMAIN rom))
      i == source[n + 1]
      d == Emu!Decode(rom[n])
      registers(rd, rs1, rs2) == d.rd = rd /\ d.rs1 = rs1 /\ d.rs2 = rs2
  IN  n < Len(source) =>
        CASE i.op \in DOMAIN IType ->
               /\ <<d.f3, d.opcode>> = IType[i.op] /\ d.rd = i.rd /\ d.rs1 = i.rs1
               /\ IF i.op \in Shifts
                  THEN Number(d.imm_i, 0, 5) = i.imm /\ d.bit30 = (i.op = "srai")
                  ELSE d.imm_i = WordOf(i.imm)
          [] i.op \in DOMAIN BType ->
               /\ d.f3 = BType[i.op] /\ d.opcode = Branch /\ d.rs1 = i.rs1 /\ d.rs2 = i.rs2
               /\ d.imm_b = WordOf(i.imm)
          [] i.op \in DOMAIN SType ->
               /\ d.f3 = SType[i.op] /\ d.opcode = Store /\ d.rs1 = i.rs1 /\ d.rs2 = i.rs2
               /\ d.imm_s = WordOf(i.imm)
          [] i.op \in DOMAIN RType ->
               /\ d.f3 = RType[i.op][2] /\ d.bit30 = (RType[i.op][1] = 32) /\ d.opcode = Op
               /\ registers(i.rd, i.rs1, i.rs2)
          [] i.op \in {"lui", "auipc"} ->
               /\ d.opcode = (IF i.op = "lui" THEN Lui ELSE Auipc) /\ d.rd = i.rd
               /\ d.imm_u = i.imm
          [] i.op = "jal" -> d.opcode = Jal /\ d.rd = i.rd /\ d.imm_j = WordOf(i.imm)
          [] i.op = "raw" -> TRUE
=============================================================================
