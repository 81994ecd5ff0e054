------------------------------- MODULE Gates -------------------------------
(***************************************************************************)
(* The gate operations of ryzr: their arity, their truth functions and the *)
(* order in which the tape scheduler sorts them.                           *)
(***************************************************************************)
EXTENDS Naturals

Unary == {"Not", "Buf"}
Commutative == {"And", "Or", "Xor", "Nand", "Nor", "Xnor"}
GateOp == Unary \cup Commutative \cup {"Mux"}

\* Mutant: the third operand of a Mux is forgotten.
ArityWithoutMux(op) == IF op \in Unary THEN 1 ELSE 2

arity(op) == IF op \in Unary THEN 1 ELSE IF op = "Mux" THEN 3 ELSE 2

\* Operands beyond the arity are ignored. For a Mux, a selects b over c.
Apply(op, a, b, c) ==
  \/ op = "And"  /\ a /\ b
  \/ op = "Or"   /\ (a \/ b)
  \/ op = "Xor"  /\ a # b
  \/ op = "Nand" /\ ~(a /\ b)
  \/ op = "Nor"  /\ ~(a \/ b)
  \/ op = "Xnor" /\ a = b
  \/ op = "Not"  /\ ~a
  \/ op = "Buf"  /\ a
  \/ op = "Mux"  /\ IF a THEN b ELSE c

\* The discriminants of the tape opcode, the second key of the schedule.
OpKey == [op \in GateOp |->
  CASE op = "And" -> 0 [] op = "Or"  -> 1 [] op = "Xor"  -> 2
    [] op = "Nand" -> 3 [] op = "Nor" -> 4 [] op = "Xnor" -> 5
    [] op = "Not" -> 6 [] op = "Buf" -> 7 [] OTHER -> 8]
=============================================================================
