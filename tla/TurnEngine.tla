----------------------------- MODULE TurnEngine -----------------------------
(***************************************************************************)
(* The life of one task: the tasks row, its append-only task_events, and   *)
(* the endpoints that move it (supabase/functions run-task-turn,           *)
(* wait-for-user, resume-task, complete-task, decide-task-turn,            *)
(* process-task, wake-task and elevenlabs-post-call over the database      *)
(* functions advance_task, process_task_turn and wake_task_delivery).      *)
(*                                                                         *)
(* Every database function locks the tasks row first, so a call is one     *)
(* action.  Every caller may deliver its call any number of times and at   *)
(* any moment: a resend after a lost response, a duplicate webhook and two *)
(* channels racing are choices of when an action happens.  decide-task-turn *)
(* sends the same call as wait-for-user or complete-task and has no action *)
(* of its own.  A refused call changes nothing and has none either, except *)
(* the one refusal the post-call webhook reports as a success.             *)
(***************************************************************************)
EXTENDS Integers, Sequences

CONSTANTS
    Calls,      \* caller-owned call ids, one for each distinct operation
    Op,         \* Op[c]: the operation c stands for
    None        \* SQL NULL

Terminal == {"completed", "failed", "cancelled"}

Status == Terminal \cup {"new", "ready", "running", "waiting_user",
                         "waiting_external", "retry_scheduled"}

WakesFrom == [user_response |-> "waiting_user",
              external_event |-> "waiting_external",
              scheduled_time |-> "retry_scheduled"]

Triggers == DOMAIN WakesFrom

Operation ==
         [fn : {"run-task-turn"}, expected : {"new", "ready"}]
    \cup [fn : {"wait-for-user", "resume-task", "complete-task"}]
    \cup [fn : {"process-task"}, expected : {"new", "ready"},
          to : {"waiting_user", "completed"}]
    \cup [fn : {"wake-task"}, trigger : Triggers]
    \cup [fn : {"elevenlabs-post-call"},
          trigger : {"user_response", "external_event"}]
    \cup [fn : {"advance_task"}, to : Status, timer : {"keep", "set"}]

ASSUME OperationAssumption == Op \in [Calls -> Operation]

ASSUME NoneAssumption == None \notin Status

VARIABLES
    status,     \* tasks.status
    timer,      \* tasks.next_action_at: NULL, ahead of now() or reached
    log,        \* task_events, oldest first
    done,       \* calls a caller has a success response to
    effects,    \* effects[c]: how often wake-task told the caller of c to act
    ignored     \* post-call deliveries answered "ignored"

turnVars == <<status, timer, log, done, effects, ignored>>

TurnInit ==
    /\ status \in {"new", "ready"}     \* create_task, create_task_plan
    /\ timer = "none"
    /\ log = <<>>
    /\ done = {}
    /\ effects = [c \in Calls |-> 0]
    /\ ignored = {}

-----------------------------------------------------------------------------
(* advance_task. *)

\* The transition table; a move to the same status is always allowed.
Moves ==
    [s \in Status |->
       CASE s = "new" -> {"ready", "running", "cancelled", "failed"}
         [] s = "ready" -> {"running", "cancelled", "failed"}
         [] s = "running" -> Status \ {"new", "running"}
         [] s = "waiting_user" -> {"ready", "running", "cancelled", "failed"}
         [] s = "waiting_external" ->
              {"ready", "running", "retry_scheduled", "cancelled", "failed"}
         [] s = "retry_scheduled" -> {"ready", "running", "cancelled", "failed"}
         [] s \in Terminal -> {}]

\* One call of advance_task: its arguments.  "part" is the suffix that
\* process_task_turn adds to the call id, "all" where there is none.
Advance(call, part, type, expected, to, clock) ==
    [id |-> [call |-> call, part |-> part], type |-> type,
     expected |-> expected, to |-> to, timer |-> clock]

\* Mutant: a replay is looked for in the last event only.
RecordedLast(events, id) ==
    events # <<>> /\ events[Len(events)].id = id

Recorded(events, id) == \E i \in DOMAIN events : events[i].id = id

Permitted(from, a) == /\ a.expected \in {None, from}
                      /\ a.to \in Moves[from] \cup {from}

TimerAfter(now, a) == CASE a.timer = "keep" -> now
                        [] a.timer = "clear" -> "none"
                        [] a.timer = "set" -> "ahead"

EventOf(from, a) == [id |-> a.id, type |-> a.type, from |-> from, to |-> a.to]

\* The id is on record: the task is returned as it is.
Replayed(a) == Recorded(log, a.id) /\ UNCHANGED <<status, timer, log>>

Applied(a) == /\ ~Recorded(log, a.id)
              /\ Permitted(status, a)
              /\ status' = a.to
              /\ timer' = TimerAfter(timer, a)
              /\ log' = Append(log, EventOf(status, a))

Answered(c) == done' = done \cup {c} /\ UNCHANGED <<effects, ignored>>

-----------------------------------------------------------------------------
(* The endpoints. *)

Start(c, part) == Advance(c, part, "turn.started", Op[c].expected, "running",
                          "keep")
Ask(c, part) == Advance(c, part, "turn.waiting_for_user", "running",
                        "waiting_user", "keep")
Finish(c, part) == Advance(c, part, "turn.completed", "running", "completed",
                           "clear")

Once(c, a) == /\ Replayed(a) \/ Applied(a)
              /\ Answered(c)

RunTaskTurn(c) == Op[c].fn = "run-task-turn" /\ Once(c, Start(c, "all"))

WaitForUser(c) == Op[c].fn = "wait-for-user" /\ Once(c, Ask(c, "all"))

CompleteTask(c) == Op[c].fn = "complete-task" /\ Once(c, Finish(c, "all"))

\* Mutant: resume-task sends no expected_status.
ResumeAnyTask(c) ==
    /\ Op[c].fn = "resume-task"
    /\ Once(c, Advance(c, "all", "user.responded", None, "ready", "keep"))

\* resume-task leaves next_action_at alone, wake-task clears it.
ResumeTask(c) ==
    /\ Op[c].fn = "resume-task"
    /\ Once(c, Advance(c, "all", "user.responded", "waiting_user", "ready", "keep"))

\* A trusted caller of the database function itself: the one way to wait for an
\* external event or a timer, to fail and to cancel.
AdvanceTask(c) ==
    /\ Op[c].fn = "advance_task"
    /\ Once(c, Advance(c, "all", "advanced", None, Op[c].to, Op[c].timer))

\* process_task_turn: both calls of advance_task commit, or neither does.
Turn(c) == <<Start(c, ":started"),
             IF Op[c].to = "waiting_user" THEN Ask(c, ":decision")
             ELSE Finish(c, ":decision")>>

ProcessTask(c) ==
    LET start == Turn(c)[1]
        decision == Turn(c)[2]
    IN /\ Op[c].fn = "process-task"
       /\ Answered(c)
       /\ \/ Replayed(start) /\ Recorded(log, decision.id)
          \/ /\ ~Recorded(log, start.id)
             /\ ~Recorded(log, decision.id)
             /\ Permitted(status, start)
             /\ Permitted(start.to, decision)
             /\ status' = decision.to
             /\ timer' = TimerAfter(TimerAfter(timer, start), decision)
             /\ log' = log \o <<EventOf(status, start), EventOf(start.to, decision)>>

-----------------------------------------------------------------------------
(* wake_task_delivery: wake_task behind one replay test under the same lock. *)

WakeEvent == [user_response |-> "user.responded",
              external_event |-> "external.received",
              scheduled_time |-> "timer.elapsed"]

Wake(c) == Advance(c, "all", WakeEvent[Op[c].trigger], WakesFrom[Op[c].trigger],
                   "ready", "clear")

Wakeable(c) == /\ status = WakesFrom[Op[c].trigger]
               /\ Op[c].trigger = "scheduled_time" => timer # "ahead"

\* The caller runs its downstream effect when, and only when, the response says
\* replayed = false.
WakeTask(c) ==
    /\ Op[c].fn = "wake-task"
    /\ done' = done \cup {c}
    /\ UNCHANGED ignored
    /\ \/ Replayed(Wake(c)) /\ UNCHANGED effects
       \/ /\ Wakeable(c)
          /\ Applied(Wake(c))
          /\ effects' = [effects EXCEPT ![c] = @ + 1]

PostCall(c) ==
    /\ Op[c].fn = "elevenlabs-post-call"
    /\ Answered(c)
    /\ Replayed(Wake(c)) \/ (Wakeable(c) /\ Applied(Wake(c)))

\* A conflict is reported to the provider as 200, so it delivers no more.
IgnorePostCall(c) ==
    /\ Op[c].fn = "elevenlabs-post-call"
    /\ ~Recorded(log, Wake(c).id)
    /\ ~Wakeable(c)
    /\ ignored' = ignored \cup {c}
    /\ UNCHANGED <<status, timer, log, done, effects>>

\* The clock passes next_action_at.
TimerPasses == /\ timer = "ahead"
               /\ timer' = "reached"
               /\ UNCHANGED <<status, log, done, effects, ignored>>

TurnNext ==
    \/ \E c \in Calls :
         \/ RunTaskTurn(c) \/ WaitForUser(c) \/ ResumeTask(c)
         \/ CompleteTask(c) \/ ProcessTask(c) \/ AdvanceTask(c)
         \/ WakeTask(c) \/ PostCall(c) \/ IgnorePostCall(c)
    \/ TimerPasses

TurnSpec == TurnInit /\ [][TurnNext]_turnVars

-----------------------------------------------------------------------------
(* Properties. *)

CallId == [call : Calls, part : {"all", ":started", ":decision"}]

EventType == {"turn.started", "turn.waiting_for_user", "turn.completed",
              "advanced", "user.responded", "external.received",
              "timer.elapsed"}

EventRow == [id : CallId, type : EventType, from : Status, to : Status]

\* Every row is well formed.
TurnTypeOK ==
    /\ status \in Status
    /\ timer \in {"none", "ahead", "reached"}
    /\ log \in Seq(EventRow)
    /\ done \subseteq Calls
    /\ effects \in [Calls -> Nat]
    /\ ignored \subseteq Calls

\* The advance_task calls c makes.
AdvancesOf(c) ==
    CASE Op[c].fn = "process-task" -> {":started", ":decision"}
      [] OTHER -> {"all"}

Positions(c, part) == {i \in DOMAIN log : log[i].id = [call |-> c, part |-> part]}

\* A call a caller has a success response to has been applied, exactly once and
\* all of it; any other call has left nothing behind.  A processed turn leaves
\* its two events next to each other.  A wake tells its caller to act once,
\* however often it is delivered and whatever the task has done in between.
AppliedOnceOrNever ==
    \A c \in Calls :
        IF c \notin done THEN \A i \in DOMAIN log : log[i].id.call # c
        ELSE /\ \A part \in AdvancesOf(c) :
                  \E i \in DOMAIN log : Positions(c, part) = {i}
             /\ \A i \in Positions(c, ":decision") :
                  i > 1 /\ log[i - 1].id = [call |-> c, part |-> ":started"]
             /\ effects[c] = IF Op[c].fn = "wake-task" THEN 1 ELSE 0

\* Between two wakes the task was paused again: the answers of two channels, or
\* a timer and a callback, never resume the same pause twice.
EachPauseWokenOnce ==
    \A i, j \in DOMAIN log :
        (i < j /\ {log[i].type, log[j].type}
                    \subseteq {WakeEvent[t] : t \in Triggers})
            => \E k \in i + 1 .. j - 1 :
                 log[k].to \in {WakesFrom[t] : t \in Triggers}

\* elevenlabs-post-call: a conflict "cannot improve with provider retries".  So
\* a delivery that was answered "ignored" is never one that would wake the task.
ConflictsCannotImprove ==
    \A c \in ignored : ~Recorded(log, Wake(c).id) => ~Wakeable(c)
=============================================================================
