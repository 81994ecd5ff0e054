------------------------------ MODULE MCHybrid ------------------------------
(***************************************************************************)
(* Model-checking instance of the hybrid engine: the hand-written circuits.*)
(***************************************************************************)
EXTENDS Hybrid, MCTapes
=============================================================================
