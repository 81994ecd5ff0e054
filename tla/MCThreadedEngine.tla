-------------------------- MODULE MCThreadedEngine --------------------------
(***************************************************************************)
(* Model-checking instance of the level-parallel engine.                   *)
(***************************************************************************)
EXTENDS ThreadedEngine, MCTapes
=============================================================================
