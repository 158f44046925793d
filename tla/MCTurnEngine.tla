---------------------------- MODULE MCTurnEngine ----------------------------
(***************************************************************************)
(* Calls on one task.  Three turns may be started.  Two channels answer    *)
(* the user's question, the provider calls back, the orchestrator pauses   *)
(* for the callback or for a timer, completes the turn or cancels the task *)
(* while anything of this is under way.                                    *)
(***************************************************************************)
EXTENDS TurnEngine

CONSTANTS process, finish, turn, rerun, again, ask, resume, answer, callback,
          pause, retry, tick, complete, cancel

MCOp == [c \in Calls |->
    CASE c = process -> [fn |-> "process-task", expected |-> "new",
                         to |-> "waiting_user"]
      [] c = finish -> [fn |-> "process-task", expected |-> "ready",
                        to |-> "completed"]
      [] c \in {turn, rerun, again} ->
                 [fn |-> "run-task-turn", expected |-> "ready"]
      [] c = ask -> [fn |-> "wait-for-user"]
      [] c = resume -> [fn |-> "resume-task"]
      [] c = answer -> [fn |-> "wake-task", trigger |-> "user_response"]
      [] c = callback -> [fn |-> "elevenlabs-post-call",
                          trigger |-> "external_event"]
      [] c = pause -> [fn |-> "advance_task", to |-> "waiting_external",
                       timer |-> "keep"]
      [] c = retry -> [fn |-> "advance_task", to |-> "retry_scheduled",
                       timer |-> "set"]
      [] c = tick -> [fn |-> "wake-task", trigger |-> "scheduled_time"]
      [] c = complete -> [fn |-> "complete-task"]
      [] c = cancel -> [fn |-> "advance_task", to |-> "cancelled",
                        timer |-> "keep"]]
=============================================================================
