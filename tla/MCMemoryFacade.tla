---------------------------- MODULE MCMemoryFacade --------------------------
(***************************************************************************)
(* An instance of MemoryFacade for TLC: two calls at a time, of either      *)
(* deployment; two memories and two passages.                               *)
(***************************************************************************)
EXTENDS MemoryFacade

MCModes == {"legacy", "capture"}
=============================================================================
