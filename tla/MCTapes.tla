------------------------------ MODULE MCTapes ------------------------------
(***************************************************************************)
(* The circuits the engines are checked on, compiled by the models of the  *)
(* optimizer and of the tape compiler.                                     *)
(***************************************************************************)
EXTENDS Compile

Opt == INSTANCE Optimizer

Reg(data, initial) == [data |-> data, initial |-> initial]
Circuit(insts, regs, outputs, inputs) ==
  [insts |-> insts, regs |-> regs, outputs |-> outputs, input_count |-> inputs]

\* A two-bit counter with an enable input, the carry, and the input itself
\* as outputs.
Counter == Circuit(
  <<Input(1), RegisterOutput(1), RegisterOutput(2),
    Gate("Xor", <<2, 1>>), Gate("And", <<2, 1>>), Gate("Xor", <<3, 5>>)>>,
  <<Reg(4, FALSE), Reg(6, TRUE)>>, <<6, 5, 1>>, 1)

\* Paths of different length from one input meet again: a change of input 1
\* reaches the last gate along three of them.
Reconvergent == Circuit(
  <<Input(1), Input(2), Gate("Not", <<1>>), Gate("Nand", <<3, 2>>),
    Gate("Xor", <<4, 1>>), Gate("Mux", <<5, 3, 1>>)>>,
  <<>>, <<6, 4>>, 2)

\* A shift register with a constant feeding an output: no gate at all.
Shift == Circuit(
  <<RegisterOutput(1), RegisterOutput(2), Input(1), Const(TRUE)>>,
  <<Reg(3, TRUE), Reg(1, FALSE)>>, <<2, 4>>, 1)

\* A free-running divider with a deep settle that changes on every tick.
Divider == Circuit(
  <<RegisterOutput(1), RegisterOutput(2), Gate("Not", <<1>>), Gate("Or", <<1, 2>>),
    Gate("Xnor", <<4, 3>>), Gate("Nor", <<5, 2>>), Gate("Mux", <<6, 3, 2>>)>>,
  <<Reg(3, FALSE), Reg(7, TRUE)>>, <<7>>, 0)

\* A bit-serial adder in its majority form: a level of four gates in two
\* runs, then one of two, and the carry latched for the next bit.
SerialAdder == Circuit(
  <<Input(1), Input(2), RegisterOutput(1),
    Gate("And", <<1, 2>>), Gate("And", <<1, 3>>), Gate("And", <<2, 3>>),
    Gate("Xor", <<1, 2>>), Gate("Or", <<4, 5>>), Gate("Xor", <<7, 3>>),
    Gate("Or", <<8, 6>>)>>,
  <<Reg(10, FALSE)>>, <<9>>, 2)

\* Every circuit of one input, one register and two gates of these kinds.
Binary(op, n) == {Gate(op, <<x, y>>) : x, y \in 1 .. n}
Muxes(n) == {Gate("Mux", <<s, t, e>>) : s, t, e \in 1 .. n}
SmallCircuits ==
  {Circuit(<<Input(1), RegisterOutput(1), g, h>>, <<Reg(4, init)>>, <<3, 4>>, 1) :
     g \in Binary("Nand", 2) \cup Muxes(2), h \in Binary("Xor", 3) \cup Muxes(3),
     init \in BOOLEAN}

TapesOf(circuits) == {Compiled(Opt!optimize(c)) : c \in circuits}

HandTapes == TapesOf({Counter, Reconvergent, Shift, Divider, SerialAdder})
AllTapes == HandTapes \cup TapesOf(SmallCircuits)
=============================================================================
