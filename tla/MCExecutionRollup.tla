------------------------- MODULE MCExecutionRollup --------------------------
(***************************************************************************)
(* "draft" and "check" are independent, "send" needs "draft" and a gate.   *)
(***************************************************************************)
EXTENDS ExecutionRollup, TLC

CONSTANTS c1, c2, draft, check, send, approval

MCPrereqs == [s \in Steps |-> IF s = send THEN {draft} ELSE {}]
MCGatesOf == [s \in Steps |-> IF s = send THEN {approval} ELSE {}]
SessionSymmetry == Permutations(Sessions)
=============================================================================
