-------------------------- MODULE MCDispatchOutbox --------------------------
(***************************************************************************)
(* Two dispatches: "ring" is claimed under an id per execution, "text"     *)
(* under the stable id of the runbook and, as by default, three times.     *)
(***************************************************************************)
EXTENDS DispatchOutbox

CONSTANTS ring, text, worker

MCMaxAttempts == [d \in Dispatches |-> IF d = ring THEN 2 ELSE 3]

MCIdOf(d, n) == IF d = ring THEN <<d, n>> ELSE worker
MCWorkerIds == {MCIdOf(d, n) : d \in Dispatches, n \in 1 .. 3}
=============================================================================
