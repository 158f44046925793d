------------------------------ MODULE MCRuntime -----------------------------
(***************************************************************************)
(* The parts of the runtime that share no state: the turns of a task, the  *)
(* summary of its plan, its dispatches, and a call of the voice service.   *)
(* A step of one changes nothing the others can see, so every behaviour    *)
(* of all of them interleaves behaviours of each; one of them is chosen    *)
(* and runs alone, and the states are those of one after the other.        *)
(*                                                                         *)
(* The others stay where they begin, where nothing fair is enabled, so the *)
(* fairness asked of the whole is that of the part that runs.              *)
(***************************************************************************)
EXTENDS MCTurnEngine, MCExecutionRollup, MCDispatchOutbox, MCRealtimeCall

VARIABLE part

RuntimeInit ==
    /\ part \in {"turns", "rollup", "outbox", "call"}
    /\ TurnInit /\ (part = "turns" \/ status = "new")
    /\ RollupInit /\ (part = "rollup" \/ \A s \in Steps : rows[s].due = "now")
    /\ OutboxInit
    /\ CallInit /\ (part = "call" \/ D = CHOOSE d \in Deployments : TRUE)

RuntimeNext ==
    \/ /\ part = "turns" /\ TurnNext
       /\ UNCHANGED <<part, rollupVars, outboxVars, callVars>>
    \/ /\ part = "rollup" /\ RollupNext
       /\ UNCHANGED <<part, turnVars, outboxVars, callVars>>
    \/ /\ part = "outbox" /\ OutboxNext
       /\ UNCHANGED <<part, turnVars, rollupVars, callVars>>
    \/ /\ part = "call" /\ CallNext
       /\ UNCHANGED <<part, turnVars, rollupVars, outboxVars>>

RuntimeSpec ==
    /\ RuntimeInit
    /\ [][RuntimeNext]_<<part, turnVars, rollupVars, outboxVars, callVars>>
    /\ OutboxFairness /\ CallFairness
=============================================================================
