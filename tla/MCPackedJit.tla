----------------------------- MODULE MCPackedJit -----------------------------
(***************************************************************************)
(* Model-checking instance of the packed JIT engine.                       *)
(***************************************************************************)
EXTENDS PackedJit, MCPackedEngine
=============================================================================
