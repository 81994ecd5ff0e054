-------------------------------- MODULE Asm --------------------------------
(***************************************************************************)
(* The instruction encoders. An instruction is assembled from a record of  *)
(* its mnemonic, its registers and its immediate; for lui and auipc the    *)
(* immediate is a word, and itype takes its own as the word it is used as. *)
(***************************************************************************)
EXTENDS Word32

OpImm == 19
Op == 51
Lui == 55
Auipc == 23
Jal == 111
Jalr == 103
Branch == 99
Load == 3
Store == 35

rtype(funct7, rs2, rs1, funct3, rd, opcode) ==
  shl(WordOf(funct7), 25) \cup shl(WordOf(rs2), 20) \cup shl(WordOf(rs1), 15)
    \cup shl(WordOf(funct3), 12) \cup shl(WordOf(rd), 7) \cup WordOf(opcode)

itype(imm, rs1, funct3, rd, opcode) ==
  Place(imm, 0, 12, 20) \cup rtype(0, 0, rs1, funct3, rd, opcode)

stype(imm, rs2, rs1, funct3) ==
  Place(WordOf(imm), 5, 12, 25) \cup rtype(0, rs2, rs1, funct3, 0, Store)
    \cup Place(WordOf(imm), 0, 5, 7)

btype(offset, rs2, rs1, funct3) ==
  LET imm == WordOf(offset)
  IN  Place(imm, 12, 13, 31) \cup Place(imm, 5, 11, 25) \cup rtype(0, rs2, rs1, funct3, 0, Branch)
        \cup Place(imm, 1, 5, 8) \cup Place(imm, 11, 12, 7)

upper(value, rd, opcode) == Place(value, 12, XLEN, 12) \cup rtype(0, 0, 0, 0, rd, opcode)

jal(rd, offset) ==
  LET imm == WordOf(offset)
  IN  Place(imm, 20, 21, 31) \cup Place(imm, 1, 11, 21) \cup Place(imm, 11, 12, 20)
        \cup Place(imm, 12, 20, 12) \cup rtype(0, 0, 0, 0, rd, Jal)

\* funct3 and opcode of the mnemonics with a 12-bit immediate; funct3 of the
\* branches and stores; funct7 and funct3 of the register forms.
IType ==
  [addi |-> <<0, OpImm>>, slti |-> <<2, OpImm>>, sltiu |-> <<3, OpImm>>, xori |-> <<4, OpImm>>,
   ori |-> <<6, OpImm>>, andi |-> <<7, OpImm>>, slli |-> <<1, OpImm>>, srli |-> <<5, OpImm>>,
   srai |-> <<5, OpImm>>, jalr |-> <<0, Jalr>>, lb |-> <<0, Load>>, lh |-> <<1, Load>>,
   lw |-> <<2, Load>>, lbu |-> <<4, Load>>, lhu |-> <<5, Load>>]
BType == [beq |-> 0, bne |-> 1, blt |-> 4, bge |-> 5, bltu |-> 6, bgeu |-> 7]
SType == [sb |-> 0, sh |-> 1, sw |-> 2]
RType ==
  [add |-> <<0, 0>>, sub |-> <<32, 0>>, sll |-> <<0, 1>>, slt |-> <<0, 2>>, sltu |-> <<0, 3>>,
   xor |-> <<0, 4>>, srl |-> <<0, 5>>, sra |-> <<32, 5>>, or |-> <<0, 6>>, and |-> <<0, 7>>]

\* Mutant: the mark of srai is one bit too low.
MarkedAtBit9(i) == IF i.op = "srai" THEN WordOf(i.imm) \cup {9} ELSE WordOf(i.imm)

\* The immediate of an IType mnemonic. srai sets bit 10 over its shift amount:
\* bit 30 of the instruction.
immediate(i) == IF i.op = "srai" THEN WordOf(i.imm) \cup {10} ELSE WordOf(i.imm)

assemble(i) ==
  CASE i.op \in DOMAIN IType -> itype(immediate(i), i.rs1, IType[i.op][1], i.rd, IType[i.op][2])
    [] i.op \in DOMAIN BType -> btype(i.imm, i.rs2, i.rs1, BType[i.op])
    [] i.op \in DOMAIN SType -> stype(i.imm, i.rs2, i.rs1, SType[i.op])
    [] i.op \in DOMAIN RType -> rtype(RType[i.op][1], i.rs2, i.rs1, RType[i.op][2], i.rd, Op)
    [] i.op = "lui" -> upper(i.imm, i.rd, Lui)
    [] i.op = "auipc" -> upper(i.imm, i.rd, Auipc)
    [] i.op = "jal" -> jal(i.rd, i.imm)
=============================================================================
