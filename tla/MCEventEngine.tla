--------------------------- MODULE MCEventEngine ---------------------------
(***************************************************************************)
(* Model-checking instance of the event-driven engine.                     *)
(***************************************************************************)
EXTENDS EventEngine, MCTapes
=============================================================================
