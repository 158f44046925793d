-------------------------- MODULE MCLiveCallMerge ---------------------------
(***************************************************************************)
(* The owner is called by the assistant and a caller rings in; the calls   *)
(* may be merged twice, in either direction.                               *)
(***************************************************************************)
EXTENDS LiveCallMerge, TLC

CONSTANTS owner, caller, m1, m2

MCKinds == Progress \cup StreamKinds
MergeSymmetry == Permutations(Merges)
=============================================================================
