--------------------------- MODULE MCPackedEngine ---------------------------
(***************************************************************************)
(* Model-checking instance of the packed engine: circuits with ripple      *)
(* adders and counters for words of a few bits.                            *)
(***************************************************************************)
EXTENDS PackedEngine, MCTapes

Inputs(n) == [i \in 1 .. n |-> Input(i)]
RegOuts(n) == [r \in 1 .. n |-> RegisterOutput(r)]

\* A full adder whose five gates are signals n to n + 4: its sum is n + 2
\* and its carry n + 4. A half adder: its sum is n and its carry n + 1.
FullAdder(n, p, q, c) ==
  <<Gate("Xor", <<p, q>>), Gate("And", <<p, q>>), Gate("Xor", <<n, c>>),
    Gate("And", <<n, c>>), Gate("Or", <<n + 1, n + 3>>)>>
HalfAdder(p, c) == <<Gate("Xor", <<p, c>>), Gate("And", <<p, c>>)>>

\* acc := acc + in on three bits, with the given outputs. The sums are
\* signals 7, 11 and 16; bit 1 propagates by 9 and generates by 10.
Accumulator(outputs) == Circuit(
  Inputs(3) \o RegOuts(3) \o HalfAdder(4, 1) \o FullAdder(9, 5, 2, 8) \o FullAdder(14, 6, 3, 13),
  <<Reg(7, FALSE), Reg(11, TRUE), Reg(16, FALSE)>>, outputs, 3)

\* A three-bit counter that can be stopped: a chain of incrementers whose
\* first carry-in is the input.
StopCounter == Circuit(
  Inputs(1) \o RegOuts(3) \o HalfAdder(2, 1) \o HalfAdder(3, 6) \o HalfAdder(4, 8),
  <<Reg(5, TRUE), Reg(7, FALSE), Reg(9, FALSE)>>, <<10>>, 1)

\* A two-bit number and a carry added to three bits: full adders, then an
\* incrementer.
Mixed == Circuit(
  Inputs(2) \o RegOuts(4) \o FullAdder(7, 3, 1, 6) \o FullAdder(12, 4, 2, 11) \o HalfAdder(5, 16),
  <<Reg(9, FALSE), Reg(14, FALSE), Reg(17, FALSE), Reg(18, TRUE)>>, <<18, 14>>, 2)

\* One adder feeds another, its sums and its carry.
Cascade == Circuit(
  Inputs(3) \o RegOuts(2) \o FullAdder(6, 1, 4, 3) \o FullAdder(11, 2, 5, 10)
    \o FullAdder(16, 8, 5, 15) \o FullAdder(21, 13, 1, 20),
  <<Reg(18, FALSE), Reg(25, FALSE)>>, <<18, 23>>, 3)

\* The third link's operand settles after the first sum is due: the chain
\* is cut.
LateOperand == Circuit(
  Inputs(3) \o RegOuts(2) \o <<Gate("Nand", <<1, 4>>), Gate("Nor", <<6, 5>>)>>
    \o FullAdder(8, 1, 4, 3) \o FullAdder(13, 2, 5, 12) \o FullAdder(18, 7, 2, 17),
  <<Reg(20, FALSE), Reg(22, TRUE)>>, <<10, 15>>, 3)

\* A conjunction in a row, to the fuser a chain without sums; its last
\* operand settles just before it, so that it is emitted after all levels.
Conjunction == Circuit(
  Inputs(3) \o RegOuts(1) \o <<Gate("Nand", <<1, 4>>), Gate("Nor", <<5, 3>>), Gate("And", <<1, 2>>),
                               Gate("And", <<3, 7>>), Gate("And", <<6, 8>>)>>,
  <<Reg(9, FALSE)>>, <<9>>, 3)

\* More registers and gates than a word has bits, shifted by one.
WideShift == Circuit(
  Inputs(1) \o RegOuts(6) \o [i \in 1 .. 6 |-> Gate("Xor", <<i + 1, 1>>)] \o <<Const(TRUE)>>,
  <<Reg(9, TRUE), Reg(10, FALSE), Reg(11, FALSE), Reg(12, TRUE), Reg(13, FALSE), Reg(8, FALSE)>>,
  <<7, 14, 12>>, 1)

\* Every circuit of two inputs, a register and three gates of these kinds,
\* the first of them over an input and the register.
Pairs(n) == {<<x, y>> \in (1 .. n) \X (1 .. n) : x < y}
AndXor(n) == {Gate(op, pair) : op \in {"And", "Xor"}, pair \in Pairs(n)}
AndXorCircuits ==
  {Circuit(Inputs(2) \o RegOuts(1) \o <<g, h, k>>, <<Reg(6, FALSE)>>, <<5>>, 2) :
     g \in {Gate(op, <<1, 3>>) : op \in {"And", "Xor"}}, h \in AndXor(4), k \in AndXor(5)}

\* A two-bit adder of two links, with one operand of one gate of the second
\* rewired to a register or gate, or one interior signal observed.
Adder == Circuit(
  Inputs(2) \o RegOuts(2) \o FullAdder(5, 1, 3, 2) \o FullAdder(10, 2, 4, 9),
  <<Reg(7, FALSE), Reg(12, FALSE)>>, <<14>>, 2)
BentAdders ==
  {[Adder EXCEPT !.insts[g].ins[i] = s] :
     <<g, i, s>> \in {x \in (10 .. 14) \X (1 .. 2) \X (3 .. 13) : x[3] < x[1]}}
    \cup {[Adder EXCEPT !.outputs = <<14, s>>] : s \in 5 .. 13}

-----------------------------------------------------------------------------
(* Memories.                                                               *)

\* A one-hot decoder of two address bits x and y, four gates from n + 3 on.
Decoders(n, x, y) ==
  <<Gate("Not", <<x>>), Gate("Not", <<y>>), Gate("And", <<n + 1, n + 2>>),
    Gate("And", <<x, n + 2>>), Gate("And", <<n + 1, y>>), Gate("And", <<x, y>>)>>

ReadTree(n, x, y, words) ==
  <<Gate("Mux", <<x, words[2], words[1]>>), Gate("Mux", <<x, words[4], words[3]>>),
    Gate("Mux", <<y, n + 2, n + 1>>)>>

\* A bank of four words: inputs 1 (address) and 2 (enable), a register 3, the
\* cells, and the second address bit, which is whether 1 differs from 3.
RamCell(width, k, i) == 3 + (k - 1) * width + i
RamGates(width) == 4 + 4 * width
RamTop(width, i) == RamGates(width) + 10 + 3 * i
RamInner(width, i) == RamTop(width, i) - 2
RamData(width, i) == RamGates(width) + 10 + 3 * width + i
RamWrite(width, k, i) == RamData(width, width) + (k - 1) * width + i

\* `data` are the gates of the data bus, `order` permutes the decoders, and
\* `latched` is the next state of the first register.
Ram(width, order, data, latched, outputs) ==
  LET n == RamGates(width)
      cells == [c \in 1 .. 4 * width |-> <<(c - 1) \div width + 1, ((c - 1) % width) + 1>>]
  IN  Circuit(
        Inputs(2) \o RegOuts(1 + 4 * width) \o <<Gate("Xor", <<1, 3>>)>> \o Decoders(n, 1, n)
          \o [k \in 1 .. 4 |-> Gate("And", <<2, n + 2 + order[k]>>)]
          \o FlattenSeq([i \in 1 .. width |->
               ReadTree(n + 10 + 3 * (i - 1), 1, n, [k \in 1 .. 4 |-> RamCell(width, k, i)])])
          \o data
          \o [c \in DOMAIN cells |->
               Gate("Mux", <<n + 6 + cells[c][1], RamData(width, cells[c][2]),
                             RamCell(width, cells[c][1], cells[c][2])>>)],
        <<Reg(latched, FALSE)>>
          \o [c \in DOMAIN cells |-> Reg(RamWrite(width, cells[c][1], cells[c][2]), cells[c][2] = 2)],
        outputs, 2)

InOrder == <<1, 2, 3, 4>>
Flips(width) == [i \in 1 .. width |-> Gate(IF i = 1 THEN "Not" ELSE "Buf", <<RamTop(width, 1)>>)]

\* Banks whose words, one or two bits wide, are read, flipped and written back.
Rams == {Ram(w, InOrder, Flips(w), 1, [i \in 1 .. w |-> RamTop(w, i)]) : w \in 1 .. 2}

\* Not banks: two decoders are swapped, or a mux inside the read tree is an
\* output.
NotRams == {Ram(1, <<1, 3, 2, 4>>, Flips(1), 1, <<RamTop(1, 1)>>),
            Ram(1, InOrder, Flips(1), 1, <<RamTop(1, 1), RamInner(1, 1)>>)}

\* The data bus comes from the middle of the read tree.
InnerData == Ram(1, InOrder, <<Gate("Buf", <<RamInner(1, 1)>>)>>, 1, <<RamTop(1, 1)>>)

\* The first register latches what the first cell latches.
SharedWrite == Ram(1, InOrder, Flips(1), RamWrite(1, 1, 1), <<RamTop(1, 1)>>)

\* A register file of four words, three of them stored, with read ports
\* `ports`, pairs of inputs as address bits, and as many registers again as a
\* word has. The first of those enables the writes of the flipped first port;
\* bit `ones` of the stored words is initially set.
FileCell(width, k, i) == 2 + (k - 1) * width + i
File(width, ports, ones) ==
  LET n == 2 + 4 * width
      at(p, i) == n + 9 + 3 * ((p - 1) * width + i - 1)
      top(p, i) == at(p, i) + 3
      port(p, i) ==
        <<Gate("And", <<ports[p][1], FileCell(width, 1, i)>>),
          Gate("Mux", <<ports[p][1], FileCell(width, 3, i), FileCell(width, 2, i)>>),
          Gate("Mux", <<ports[p][2], at(p, i) + 2, at(p, i) + 1>>)>>
      ends  == [c \in 1 .. Len(ports) * width |-> <<(c - 1) \div width + 1, ((c - 1) % width) + 1>>]
      cells == [c \in 1 .. 3 * width |-> <<(c - 1) \div width + 1, ((c - 1) % width) + 1>>]
      data  == at(Len(ports) + 1, 1)
  IN  Circuit(
        Inputs(2) \o RegOuts(4 * width) \o Decoders(n, 1, 2)
          \o [k \in 1 .. 3 |-> Gate("And", <<FileCell(width, 4, 1), n + 3 + k>>)]
          \o FlattenSeq([c \in DOMAIN ends |-> port(ends[c][1], ends[c][2])])
          \o <<Gate("Not", <<top(1, 1)>>)>>
          \o [c \in DOMAIN cells |->
               Gate("Mux", <<n + 6 + cells[c][1], IF cells[c][2] = 1 THEN data + 1 ELSE top(1, 1),
                             FileCell(width, cells[c][1], cells[c][2])>>)],
        [c \in DOMAIN cells |-> Reg(data + 1 + c, cells[c][2] = ones)]
          \o [i \in 1 .. width |-> Reg(2, FALSE)],
        [c \in DOMAIN ends |-> top(ends[c][1], ends[c][2])], 2)

Files == {File(w, <<<<1, 2>>, <<2, 1>>>>, 2) : w \in 1 .. 2}

\* A register file whose words are wider than an arena word.
WideFile == File(WordBits + 1, <<<<1, 2>>>>, WordBits + 1)

MemTapes == TapesOf(Rams \cup NotRams \cup Files)
InnerDataTapes == TapesOf({InnerData})
SharedWriteTapes == TapesOf({SharedWrite})
WideFileTapes == TapesOf({WideFile})

AdderTapes ==
  TapesOf({Accumulator(<<18>>), Accumulator(<<18, 9>>), Accumulator(<<18, 10>>), StopCounter,
           Mixed, Cascade, LateOperand, Conjunction, WideShift, Counter, SerialAdder})
JitTapes == AdderTapes \cup MemTapes
PackedTapes == JitTapes \cup TapesOf(AndXorCircuits \cup BentAdders)
=============================================================================
