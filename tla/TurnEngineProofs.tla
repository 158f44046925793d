-------------------------- MODULE TurnEngineProofs --------------------------
(***************************************************************************)
(* What the turn engine promises its callers, for any set of calls of any  *)
(* kind: a call is applied once or never, and a pause is resumed once.     *)
(*                                                                         *)
(* Every step that changes the task appends the events of one call that    *)
(* has no event yet, and the status is where the last event left it.  A    *)
(* wake leaves a waiting status, so since the wake before it some event    *)
(* must have paused the task.                                              *)
(***************************************************************************)
EXTENDS TurnEngine, SequenceTheorems, TLAPS

USE OperationAssumption, NoneAssumption

Timers == {"none", "ahead", "reached"}

WaitStatuses == {WakesFrom[t] : t \in Triggers}

WakeTypes == {WakeEvent[t] : t \in Triggers}

-----------------------------------------------------------------------------
(* The inductive invariant. *)

\* The last event left the task where it is.
StatusIsLast == log # <<>> => log[Len(log)].to = status

WakesGoReady == \A i \in DOMAIN log :
                    log[i].type \in WakeTypes => log[i].to = "ready"

\* The effect of a wake comes with its event.
NoEffectYet == \A c \in Calls \ done : effects[c] = 0

IInv == /\ TurnTypeOK
        /\ StatusIsLast
        /\ WakesGoReady
        /\ NoEffectYet
        /\ AppliedOnceOrNever
        /\ EachPauseWokenOnce

-----------------------------------------------------------------------------
(* The operations. *)

\* The three ways to wait and to be woken.
LEMMA WakeTable ==
  /\ Triggers = {"user_response", "external_event", "scheduled_time"}
  /\ WakeTypes = {"user.responded", "external.received", "timer.elapsed"}
  /\ WaitStatuses = {"waiting_user", "waiting_external", "retry_scheduled"}
  /\ \A t \in Triggers : WakesFrom[t] \in WaitStatuses
                        /\ WakeEvent[t] \in WakeTypes
<1>1. Triggers = {"user_response", "external_event", "scheduled_time"}
  BY DEF Triggers, WakesFrom
<1>2. /\ WakesFrom["user_response"] = "waiting_user"
      /\ WakesFrom["external_event"] = "waiting_external"
      /\ WakesFrom["scheduled_time"] = "retry_scheduled"
      /\ WakeEvent["user_response"] = "user.responded"
      /\ WakeEvent["external_event"] = "external.received"
      /\ WakeEvent["scheduled_time"] = "timer.elapsed"
  BY DEF WakesFrom, WakeEvent
<1> QED BY <1>1, <1>2 DEF WakeTypes, WaitStatuses

\* What a call of each kind carries.
LEMMA OpCarries ==
  ASSUME NEW c \in Calls
  PROVE  /\ Op[c].fn = "process-task" => Op[c].to \in {"waiting_user", "completed"}
         /\ Op[c].fn = "advance_task" =>
              Op[c].to \in Status /\ Op[c].timer \in {"keep", "set"}
         /\ Op[c].fn \in {"wake-task", "elevenlabs-post-call"} =>
              Op[c].trigger \in Triggers
         /\ Op[c].fn \in {"run-task-turn", "process-task"} =>
              Op[c].expected \in {"new", "ready"}
<1>1. Op[c] \in Operation
  BY DEF OperationAssumption
<1>2. CASE Op[c] \in [fn : {"run-task-turn"}, expected : {"new", "ready"}]
  BY <1>2
<1>3. CASE Op[c] \in [fn : {"wait-for-user", "resume-task", "complete-task"}]
  BY <1>3
<1>4. CASE Op[c] \in [fn : {"process-task"}, expected : {"new", "ready"},
                      to : {"waiting_user", "completed"}]
  BY <1>4
<1>5. CASE Op[c] \in [fn : {"wake-task"}, trigger : Triggers]
  BY <1>5
<1>6. CASE Op[c] \in [fn : {"elevenlabs-post-call"},
                      trigger : {"user_response", "external_event"}]
  BY <1>6, WakeTable
<1>7. CASE Op[c] \in [fn : {"advance_task"}, to : Status, timer : {"keep", "set"}]
  BY <1>7
<1> QED BY <1>1, <1>2, <1>3, <1>4, <1>5, <1>6, <1>7 DEF Operation

\* The arguments of one call of advance_task.
Argument == [id : CallId, type : EventType, expected : Status \cup {None},
             to : Status, timer : {"keep", "clear", "set"}]

\* advance_task sets or clears the timer, or leaves it alone.
LEMMA TimerTyped ==
  ASSUME NEW now \in Timers, NEW a \in Argument
  PROVE  TimerAfter(now, a) \in Timers
BY DEF Timers, TimerAfter, Argument

-----------------------------------------------------------------------------
(* What a step does to the task. *)

\* c appends its events to the log; a wake is the first of them.
Grown(c) ==
    /\ log' \in Seq(EventRow)
    /\ Len(log') > Len(log)
    /\ \A i \in 1 .. Len(log) : log'[i] = log[i]
    /\ \A i \in Len(log) + 1 .. Len(log') :
         /\ log'[i].id.call = c
         /\ log'[i].type \in WakeTypes => /\ i = Len(log) + 1
                                          /\ status \in WaitStatuses
                                          /\ log'[i].to = "ready"
    /\ log'[Len(log')].to = status'

\* c appends one event for each of its calls of advance_task.
OneForEach(c) ==
    \/ /\ AdvancesOf(c) = {"all"}
       /\ Len(log') = Len(log) + 1
       /\ log'[Len(log) + 1].id = [call |-> c, part |-> "all"]
    \/ /\ AdvancesOf(c) = {":started", ":decision"}
       /\ Len(log') = Len(log) + 2
       /\ log'[Len(log) + 1].id = [call |-> c, part |-> ":started"]
       /\ log'[Len(log) + 2].id = [call |-> c, part |-> ":decision"]

\* The step that applies c.
Applies(c) == /\ status' \in Status
              /\ Grown(c)
              /\ OneForEach(c)
              /\ done' = done \cup {c}
              /\ effects' = [effects EXCEPT
                     ![c] = IF Op[c].fn = "wake-task" THEN 1 ELSE 0]

\* One applied call of advance_task appends one event.
LEMMA OneEvent ==
  ASSUME TurnTypeOK, NEW c \in Calls, NEW a \in Argument, Applied(a),
         AdvancesOf(c) = {"all"}, a.id = [call |-> c, part |-> "all"],
         a.type \in WakeTypes => status \in WaitStatuses /\ a.to = "ready"
  PROVE  status' \in Status /\ Grown(c) /\ OneForEach(c)
<1> DEFINE e == EventOf(status, a)
<1>1. e = [id |-> a.id, type |-> a.type, from |-> status, to |-> a.to]
  BY DEF EventOf
<1>2. e \in EventRow /\ log \in Seq(EventRow)
  BY <1>1 DEF Argument, EventRow, TurnTypeOK
<1>3. e.id = a.id /\ e.type = a.type /\ e.to = a.to
  BY <1>1
<1>4. log' = Append(log, e) /\ status' = a.to
  BY DEF Applied
<1> HIDE DEF e
<1>5. /\ log' \in Seq(EventRow)
      /\ Len(log') = Len(log) + 1
      /\ \A i \in 1 .. Len(log) : log'[i] = log[i]
      /\ log'[Len(log) + 1] = e
      /\ Len(log) \in Nat
  BY <1>2, <1>4, AppendProperties, LenProperties
<1>6. a.id.call = c
  OBVIOUS
<1>7. \A i \in Len(log) + 1 .. Len(log') : i = Len(log) + 1
  BY <1>5
<1>8. Grown(c)
  BY <1>3, <1>4, <1>5, <1>6, <1>7 DEF Grown
<1>9. a.to \in Status
  BY DEF Argument
<1> QED BY <1>3, <1>4, <1>5, <1>8, <1>9 DEF OneForEach

\* A call that is not on record has not been applied at all.
LEMMA NotRecorded ==
  ASSUME IInv, NEW c \in Calls, NEW part \in AdvancesOf(c)
  PROVE  Recorded(log, [call |-> c, part |-> part]) <=> c \in done
<1> DEFINE id == [call |-> c, part |-> part]
<1>1. CASE c \in done
  <2>1. PICK i \in DOMAIN log : Positions(c, part) = {i}
    BY <1>1 DEF IInv, AppliedOnceOrNever
  <2> QED BY <1>1, <2>1 DEF Positions, Recorded
<1>2. CASE c \notin done
  <2>1. \A i \in DOMAIN log : log[i].id.call # c
    BY <1>2 DEF IInv, AppliedOnceOrNever
  <2>2. id.call = c
    OBVIOUS
  <2> QED BY <1>2, <2>1, <2>2 DEF Recorded
<1> QED BY <1>1, <1>2

\* A processed turn appends its two events.
LEMMA TwoEvents ==
  ASSUME TurnTypeOK, NEW c \in Calls, NEW a \in Argument, NEW b \in Argument,
         AdvancesOf(c) = {":started", ":decision"},
         a.id = [call |-> c, part |-> ":started"],
         b.id = [call |-> c, part |-> ":decision"],
         a.type \notin WakeTypes, b.type \notin WakeTypes,
         status' = b.to,
         log' = log \o <<EventOf(status, a), EventOf(a.to, b)>>
  PROVE  status' \in Status /\ Grown(c) /\ OneForEach(c)
<1> DEFINE e == EventOf(status, a)
           f == EventOf(a.to, b)
           more == <<e, f>>
<1>1. /\ e = [id |-> a.id, type |-> a.type, from |-> status, to |-> a.to]
      /\ f = [id |-> b.id, type |-> b.type, from |-> a.to, to |-> b.to]
  BY DEF EventOf
<1>2. e \in EventRow /\ f \in EventRow /\ log \in Seq(EventRow)
  BY <1>1 DEF Argument, EventRow, TurnTypeOK
<1>3. /\ e.id = a.id /\ e.type = a.type
      /\ f.id = b.id /\ f.type = b.type /\ f.to = b.to
  BY <1>1
<1>4. log' = log \o more
  OBVIOUS
<1> HIDE DEF e, f
<1>5. /\ more \in Seq(EventRow)
      /\ Len(more) = 2
      /\ more[1] = e /\ more[2] = f
  BY <1>2
<1> HIDE DEF more
<1>6. /\ log' \in Seq(EventRow)
      /\ Len(log') = Len(log) + 2
      /\ \A i \in 1 .. Len(log) + 2 :
           log'[i] = IF i <= Len(log) THEN log[i] ELSE more[i - Len(log)]
      /\ Len(log) \in Nat
  BY <1>2, <1>4, <1>5, ConcatProperties, LenProperties
<1>7. /\ \A i \in 1 .. Len(log) : log'[i] = log[i]
      /\ log'[Len(log) + 1] = e
      /\ log'[Len(log) + 2] = f
  <2>1. Len(log) + 1 \in 1 .. Len(log) + 2 /\ Len(log) + 2 \in 1 .. Len(log) + 2
    BY <1>6
  <2>2. /\ log'[Len(log) + 1] = more[(Len(log) + 1) - Len(log)]
        /\ log'[Len(log) + 2] = more[(Len(log) + 2) - Len(log)]
    BY <1>6, <2>1
  <2>3. (Len(log) + 1) - Len(log) = 1 /\ (Len(log) + 2) - Len(log) = 2
    BY <1>6
  <2>4. \A i \in 1 .. Len(log) : log'[i] = log[i]
    BY <1>6
  <2> QED BY <1>5, <2>2, <2>3, <2>4
<1>8. \A i \in Len(log) + 1 .. Len(log') : i = Len(log) + 1 \/ i = Len(log) + 2
  BY <1>6
<1>9. a.id.call = c /\ b.id.call = c
  OBVIOUS
<1>10. Grown(c)
  <2>1. \A i \in Len(log) + 1 .. Len(log') :
          log'[i].id.call = c /\ log'[i].type \notin WakeTypes
    BY <1>3, <1>7, <1>8, <1>9
  <2>2. log'[Len(log')].to = status'
    BY <1>3, <1>6, <1>7
  <2>3. Len(log') > Len(log)
    BY <1>6
  <2> QED BY <1>6, <1>7, <2>1, <2>2, <2>3 DEF Grown
<1>11. b.to \in Status
  BY DEF Argument
<1> QED BY <1>3, <1>6, <1>7, <1>10, <1>11 DEF OneForEach

\* The statuses and event types an endpoint uses.
LEMMA Words ==
  /\ {"ready", "running", "waiting_user", "completed"} \subseteq Status
  /\ EventType = WakeTypes \cup {"turn.started", "turn.waiting_for_user",
                                 "turn.completed", "advanced"}
  /\ {"turn.started", "turn.waiting_for_user", "turn.completed", "advanced"}
       \cap WakeTypes = {}
  /\ WaitStatuses \subseteq Status
BY WakeTable DEF Status, Terminal, EventType

\* A call on record changes nothing but what its caller is told.
LEMMA ReplayKeeps ==
  ASSUME IInv, NEW c \in Calls, NEW part \in AdvancesOf(c),
         NEW a \in Argument,
         a.id = [call |-> c, part |-> part], Replayed(a)
  PROVE  c \in done /\ UNCHANGED <<status, timer, log>>
<1>1. Recorded(log, a.id) /\ UNCHANGED <<status, timer, log>>
  BY DEF Replayed
<1>2. Recorded(log, [call |-> c, part |-> part])
  BY <1>1
<1> QED BY <1>1, <1>2, NotRecorded

\* Every call id of advance_task is well formed.
LEMMA Ids ==
  ASSUME NEW c \in Calls, NEW part \in {"all", ":started", ":decision"}
  PROVE  [call |-> c, part |-> part] \in CallId
BY DEF CallId

\* The task is as it was, or one call that had left nothing behind is applied.
Moves1(c) == Applies(c) /\ c \in Calls \ done

Stays == UNCHANGED <<status, log, done, effects>>

Kept == timer' \in Timers /\ ignored' \subseteq Calls

\* An endpoint that makes one call of advance_task.
LEMMA OnceStep ==
  ASSUME IInv, NEW c \in Calls, NEW a \in Argument,
         AdvancesOf(c) = {"all"}, a.id = [call |-> c, part |-> "all"],
         Op[c].fn # "wake-task",
         a.type \in WakeTypes =>
            a.to = "ready" /\ (Applied(a) => status \in WaitStatuses),
         Once(c, a)
  PROVE  Kept /\ (Stays \/ Moves1(c))
<1>1. Kept
  <2>1. ignored' = ignored /\ ignored \subseteq Calls /\ timer \in Timers
    BY DEF Once, Answered, IInv, TurnTypeOK, Timers
  <2>2. timer' = timer \/ timer' = TimerAfter(timer, a)
    BY DEF Once, Replayed, Applied
  <2> QED BY <2>1, <2>2, TimerTyped DEF Kept
<1>2. CASE Replayed(a)
  <2>1. c \in done /\ UNCHANGED <<status, timer, log>>
    BY <1>2, ReplayKeeps
  <2> QED BY <1>1, <2>1 DEF Once, Answered, Stays
<1>3. CASE Applied(a)
  <2>1. c \notin done
    <3>1. ~Recorded(log, a.id)
      BY <1>3 DEF Applied
    <3>2. ~Recorded(log, [call |-> c, part |-> "all"])
      BY <3>1
    <3> QED BY <3>2, NotRecorded
  <2>2. status' \in Status /\ Grown(c) /\ OneForEach(c)
    BY <1>3, OneEvent DEF IInv
  <2>3. done' = done \cup {c} /\ effects' = effects
    BY DEF Once, Answered
  <2>4. effects[c] = 0 /\ effects \in [Calls -> Nat]
    BY <2>1 DEF IInv, NoEffectYet, TurnTypeOK
  <2>5. effects' = [effects EXCEPT
           ![c] = IF Op[c].fn = "wake-task" THEN 1 ELSE 0]
    BY <2>3, <2>4
  <2> QED BY <1>1, <2>1, <2>2, <2>3, <2>5 DEF Applies, Moves1
<1> QED BY <1>2, <1>3 DEF Once

\* Every endpoint that makes one call and tells its caller nothing more.
LEMMA OneCall ==
  ASSUME IInv, NEW c \in Calls,
         \/ RunTaskTurn(c) \/ WaitForUser(c) \/ ResumeTask(c)
         \/ CompleteTask(c) \/ AdvanceTask(c)
  PROVE  Kept /\ (Stays \/ Moves1(c))
<1>1. Op[c].fn # "process-task" => AdvancesOf(c) = {"all"}
  BY DEF AdvancesOf
<1>2. CASE RunTaskTurn(c)
  <2> DEFINE a == Start(c, "all")
  <2>1. Op[c].fn = "run-task-turn" /\ Once(c, a)
    BY <1>2 DEF RunTaskTurn
  <2>2. /\ "turn.started" \in EventType /\ "turn.started" \notin WakeTypes
        /\ Op[c].expected \in Status \cup {None} /\ "running" \in Status
    BY <2>1, Words, OpCarries DEF Status
  <2>3. /\ a \in Argument /\ a.type = "turn.started"
        /\ a.id = [call |-> c, part |-> "all"]
    BY <2>2, Ids DEF Start, Advance, Argument
  <2> HIDE DEF a
  <2> QED BY <1>1, <2>1, <2>2, <2>3, OnceStep
<1>3. CASE WaitForUser(c)
  <2> DEFINE a == Ask(c, "all")
  <2>1. Op[c].fn = "wait-for-user" /\ Once(c, a)
    BY <1>3 DEF WaitForUser
  <2>2. /\ "turn.waiting_for_user" \in EventType
        /\ "turn.waiting_for_user" \notin WakeTypes
        /\ "running" \in Status /\ "waiting_user" \in Status
    BY Words
  <2>3. /\ a \in Argument /\ a.type = "turn.waiting_for_user"
        /\ a.id = [call |-> c, part |-> "all"]
    BY <2>2, Ids DEF Ask, Advance, Argument
  <2> HIDE DEF a
  <2> QED BY <1>1, <2>1, <2>2, <2>3, OnceStep
<1>4. CASE ResumeTask(c)
  <2> DEFINE a == Advance(c, "all", "user.responded", "waiting_user", "ready",
                          "keep")
  <2>1. Op[c].fn = "resume-task" /\ Once(c, a)
    BY <1>4 DEF ResumeTask
  <2>2. /\ "user.responded" \in EventType /\ "ready" \in Status
        /\ "waiting_user" \in Status /\ "waiting_user" \in WaitStatuses
    BY Words, WakeTable
  <2>3. /\ a \in Argument /\ a.to = "ready" /\ a.expected = "waiting_user"
        /\ a.id = [call |-> c, part |-> "all"]
    BY <2>2, Ids DEF Advance, Argument
  <2> HIDE DEF a
  <2>4. Applied(a) => a.expected \in {None, status}
    BY DEF Applied, Permitted
  <2>5. Applied(a) => status \in WaitStatuses
    BY <2>2, <2>3, <2>4
  <2> QED BY <1>1, <2>1, <2>3, <2>5, OnceStep
<1>5. CASE CompleteTask(c)
  <2> DEFINE a == Finish(c, "all")
  <2>1. Op[c].fn = "complete-task" /\ Once(c, a)
    BY <1>5 DEF CompleteTask
  <2>2. /\ "turn.completed" \in EventType /\ "turn.completed" \notin WakeTypes
        /\ "running" \in Status /\ "completed" \in Status
    BY Words
  <2>3. /\ a \in Argument /\ a.type = "turn.completed"
        /\ a.id = [call |-> c, part |-> "all"]
    BY <2>2, Ids DEF Finish, Advance, Argument
  <2> HIDE DEF a
  <2> QED BY <1>1, <2>1, <2>2, <2>3, OnceStep
<1>6. CASE AdvanceTask(c)
  <2> DEFINE a == Advance(c, "all", "advanced", None, Op[c].to, Op[c].timer)
  <2>1. Op[c].fn = "advance_task" /\ Once(c, a)
    BY <1>6 DEF AdvanceTask
  <2>2. /\ "advanced" \in EventType /\ "advanced" \notin WakeTypes
        /\ Op[c].to \in Status /\ Op[c].timer \in {"keep", "clear", "set"}
    BY <2>1, Words, OpCarries
  <2>3. /\ a \in Argument /\ a.type = "advanced"
        /\ a.id = [call |-> c, part |-> "all"]
    BY <2>2, Ids DEF Advance, Argument
  <2> HIDE DEF a
  <2> QED BY <1>1, <2>1, <2>2, <2>3, OnceStep
<1> QED BY <1>2, <1>3, <1>4, <1>5, <1>6

\* The arguments of a wake.
LEMMA WakeArgument ==
  ASSUME NEW c \in Calls, Op[c].fn \in {"wake-task", "elevenlabs-post-call"}
  PROVE  /\ Wake(c) \in Argument
         /\ Wake(c).id = [call |-> c, part |-> "all"]
         /\ Wake(c).to = "ready"
         /\ AdvancesOf(c) = {"all"}
         /\ Wakeable(c) => status \in WaitStatuses
<1> DEFINE type == WakeEvent[Op[c].trigger]
           from == WakesFrom[Op[c].trigger]
<1>1. /\ type \in EventType /\ from \in Status
      /\ "ready" \in Status /\ from \in WaitStatuses
  BY OpCarries, WakeTable, Words
<1>2. Wake(c) = Advance(c, "all", type, from, "ready", "clear")
  BY DEF Wake
<1>3. AdvancesOf(c) = {"all"}
  BY DEF AdvancesOf
<1>4. Wakeable(c) => status = from
  BY DEF Wakeable
<1> HIDE DEF type, from
<1>5. /\ Wake(c) \in Argument
      /\ Wake(c).id = [call |-> c, part |-> "all"]
      /\ Wake(c).to = "ready"
  <2> DEFINE id == [call |-> c, part |-> "all"]
  <2>1. id \in CallId
    BY Ids
  <2>2. Wake(c) = [id |-> id, type |-> type, expected |-> from, to |-> "ready",
                   timer |-> "clear"]
    BY <1>2 DEF Advance
  <2> HIDE DEF id
  <2>3. Wake(c) \in Argument /\ Wake(c).id = id /\ Wake(c).to = "ready"
    BY <1>1, <2>1, <2>2 DEF Argument
  <2> QED BY <2>3 DEF id
<1> QED BY <1>1, <1>3, <1>4, <1>5

\* wake-task and the post-call webhook, which reports a conflict as success.
LEMMA WakeCall ==
  ASSUME IInv, NEW c \in Calls,
         WakeTask(c) \/ PostCall(c) \/ IgnorePostCall(c)
  PROVE  Kept /\ (Stays \/ Moves1(c))
<1>1. CASE PostCall(c)
  <2>1. Op[c].fn = "elevenlabs-post-call" /\ Once(c, Wake(c))
    BY <1>1 DEF PostCall, Once
  <2>2. Applied(Wake(c)) => Wakeable(c)
    <3>1. Applied(Wake(c)) => ~Replayed(Wake(c))
      BY DEF Applied, Replayed
    <3> QED BY <1>1, <3>1 DEF PostCall
  <2> QED BY <2>1, <2>2, WakeArgument, OnceStep
<1>2. CASE IgnorePostCall(c)
  BY <1>2 DEF IgnorePostCall, Stays, Kept, IInv, TurnTypeOK, Timers
<1>3. CASE WakeTask(c)
  <2> DEFINE a == Wake(c)
  <2>1. Op[c].fn = "wake-task" /\ done' = done \cup {c} /\ ignored' = ignored
    BY <1>3 DEF WakeTask
  <2>2. /\ a \in Argument /\ a.id = [call |-> c, part |-> "all"]
        /\ a.to = "ready" /\ AdvancesOf(c) = {"all"}
        /\ Wakeable(c) => status \in WaitStatuses
    BY <2>1, WakeArgument
  <2>3. \/ Replayed(a) /\ effects' = effects
        \/ /\ Wakeable(c) /\ Applied(a)
           /\ effects' = [effects EXCEPT ![c] = @ + 1]
    BY <1>3 DEF WakeTask
  <2> HIDE DEF a
  <2>4. Kept
    <3>1. timer' = timer \/ timer' = TimerAfter(timer, a)
      BY <2>3 DEF Replayed, Applied
    <3>2. ignored \subseteq Calls /\ timer \in Timers
      BY DEF IInv, TurnTypeOK, Timers
    <3> QED BY <2>1, <2>2, <3>1, <3>2, TimerTyped DEF Kept
  <2>5. CASE Replayed(a) /\ effects' = effects
    <3>1. c \in done /\ UNCHANGED <<status, timer, log>>
      BY <2>2, <2>5, ReplayKeeps
    <3> QED BY <2>1, <2>4, <2>5, <3>1 DEF Stays
  <2>6. CASE /\ Wakeable(c) /\ Applied(a)
             /\ effects' = [effects EXCEPT ![c] = @ + 1]
    <3>1. c \notin done
      <4>1. ~Recorded(log, a.id)
        BY <2>6 DEF Applied
      <4>2. ~Recorded(log, [call |-> c, part |-> "all"])
        BY <2>2, <4>1
      <4> QED BY <2>2, <4>2, NotRecorded
    <3>2. status' \in Status /\ Grown(c) /\ OneForEach(c)
      BY <2>2, <2>6, OneEvent DEF IInv
    <3>3. effects[c] = 0
      BY <3>1 DEF IInv, NoEffectYet
    <3>4. effects' = [effects EXCEPT
             ![c] = IF Op[c].fn = "wake-task" THEN 1 ELSE 0]
      BY <2>1, <2>6, <3>3
    <3> QED BY <2>1, <2>4, <3>1, <3>2, <3>4 DEF Applies, Moves1
  <2> QED BY <2>3, <2>5, <2>6
<1> QED BY <1>1, <1>2, <1>3

\* process_task_turn applies its two moves together, or replays both.
LEMMA ProcessCall ==
  ASSUME IInv, NEW c \in Calls, ProcessTask(c)
  PROVE  Kept /\ (Stays \/ Moves1(c))
<1> DEFINE a == Turn(c)[1]
           b == Turn(c)[2]
<1>1. /\ Op[c].fn = "process-task"
      /\ AdvancesOf(c) = {":started", ":decision"}
  BY DEF ProcessTask, AdvancesOf
<1>2. /\ Op[c].to \in {"waiting_user", "completed"}
      /\ Op[c].expected \in {"new", "ready"}
  BY <1>1, OpCarries
<1>3. /\ a \in Argument /\ a.id = [call |-> c, part |-> ":started"]
      /\ a.type = "turn.started"
  <2> DEFINE id == [call |-> c, part |-> ":started"]
  <2>1. id \in CallId
    BY Ids
  <2>2. a = [id |-> id, type |-> "turn.started", expected |-> Op[c].expected,
             to |-> "running", timer |-> "keep"]
    BY DEF Turn, Start, Advance
  <2>3. /\ "turn.started" \in EventType /\ "running" \in Status
        /\ Op[c].expected \in Status \cup {None}
    BY <1>2, Words DEF Status
  <2> HIDE DEF id, a
  <2>4. a \in Argument /\ a.id = id /\ a.type = "turn.started"
    BY <2>1, <2>2, <2>3 DEF Argument
  <2> QED BY <2>4 DEF id
<1>4. /\ b \in Argument /\ b.id = [call |-> c, part |-> ":decision"]
      /\ b.type \in {"turn.waiting_for_user", "turn.completed"}
  <2> DEFINE id == [call |-> c, part |-> ":decision"]
  <2>1. id \in CallId
    BY Ids
  <2>2. \/ b = [id |-> id, type |-> "turn.waiting_for_user",
                expected |-> "running", to |-> "waiting_user", timer |-> "keep"]
        \/ b = [id |-> id, type |-> "turn.completed", expected |-> "running",
                to |-> "completed", timer |-> "clear"]
    BY DEF Turn, Ask, Finish, Advance
  <2>3. {"turn.waiting_for_user", "turn.completed"} \subseteq EventType
    BY Words
  <2>4. {"running", "waiting_user", "completed"} \subseteq Status
    BY Words
  <2> HIDE DEF id, b
  <2>5. /\ b \in Argument /\ b.id = id
        /\ b.type \in {"turn.waiting_for_user", "turn.completed"}
    BY <2>1, <2>2, <2>3, <2>4 DEF Argument
  <2> QED BY <2>5 DEF id
<1>5. /\ done' = done \cup {c} /\ effects' = effects /\ ignored' = ignored
      /\ \/ Replayed(a) /\ Recorded(log, b.id)
         \/ /\ ~Recorded(log, a.id)
            /\ status' = b.to
            /\ timer' = TimerAfter(TimerAfter(timer, a), b)
            /\ log' = log \o <<EventOf(status, a), EventOf(a.to, b)>>
  BY DEF ProcessTask, Answered
<1> HIDE DEF a, b
<1>6. ignored \subseteq Calls /\ timer \in Timers /\ effects \in [Calls -> Nat]
  BY DEF IInv, TurnTypeOK, Timers
<1>7. CASE Replayed(a)
  <2>1. c \in done /\ UNCHANGED <<status, timer, log>>
    BY <1>1, <1>3, <1>7, ReplayKeeps
  <2> QED BY <1>5, <1>6, <2>1 DEF Stays, Kept
<1>8. CASE /\ ~Recorded(log, a.id)
           /\ status' = b.to
           /\ timer' = TimerAfter(TimerAfter(timer, a), b)
           /\ log' = log \o <<EventOf(status, a), EventOf(a.to, b)>>
  <2>1. Kept
    <3>1. TimerAfter(timer, a) \in Timers
      BY <1>3, <1>6, TimerTyped
    <3>2. timer' \in Timers
      BY <1>4, <1>8, <3>1, TimerTyped
    <3> QED BY <1>5, <1>6, <3>2 DEF Kept
  <2>2. c \notin done
    <3>1. ~Recorded(log, [call |-> c, part |-> ":started"])
      BY <1>3, <1>8
    <3> QED BY <1>1, <3>1, NotRecorded
  <2>3. a.type \notin WakeTypes /\ b.type \notin WakeTypes
    BY <1>3, <1>4, Words
  <2>4. TurnTypeOK
    BY DEF IInv
  <2>5. status' \in Status /\ Grown(c) /\ OneForEach(c)
    BY <1>1, <1>3, <1>4, <1>8, <2>3, <2>4, TwoEvents
  <2>6. effects[c] = 0
    BY <2>2 DEF IInv, NoEffectYet
  <2>7. effects' = [effects EXCEPT
           ![c] = IF Op[c].fn = "wake-task" THEN 1 ELSE 0]
    BY <1>1, <1>5, <1>6, <2>6
  <2> QED BY <1>5, <2>1, <2>2, <2>5, <2>7 DEF Applies, Moves1
<1> QED BY <1>5, <1>7, <1>8

\* What any step does to the task.
LEMMA EveryStep ==
  ASSUME IInv, [TurnNext]_turnVars
  PROVE  Kept /\ (Stays \/ \E c \in Calls : Moves1(c))
<1>1. ASSUME NEW c \in Calls,
             \/ RunTaskTurn(c) \/ WaitForUser(c) \/ ResumeTask(c)
             \/ CompleteTask(c) \/ ProcessTask(c) \/ AdvanceTask(c)
             \/ WakeTask(c) \/ PostCall(c) \/ IgnorePostCall(c)
      PROVE  Kept /\ (Stays \/ Moves1(c))
  BY <1>1, OneCall, ProcessCall, WakeCall
<1>2. CASE TimerPasses
  BY <1>2 DEF TimerPasses, Kept, Stays, IInv, TurnTypeOK, Timers
<1>3. CASE UNCHANGED turnVars
  BY <1>3 DEF turnVars, Kept, Stays, IInv, TurnTypeOK, Timers
<1> QED BY <1>1, <1>2, <1>3 DEF TurnNext

-----------------------------------------------------------------------------
(* The invariant. *)

\* A task starts with an empty log.
LEMMA InitIInv == TurnInit => IInv
<1> SUFFICES ASSUME TurnInit PROVE IInv
  OBVIOUS
<1>1. DOMAIN log = {} /\ log \in Seq(EventRow)
  BY DEF TurnInit
<1>2. status \in Status
  BY DEF TurnInit, Status
<1>3. TurnTypeOK
  BY <1>1, <1>2 DEF TurnInit, TurnTypeOK
<1>4. StatusIsLast /\ WakesGoReady /\ NoEffectYet
  BY <1>1 DEF TurnInit, StatusIsLast, WakesGoReady, NoEffectYet
<1>5. AppliedOnceOrNever
  BY <1>1 DEF TurnInit, AppliedOnceOrNever
<1>6. EachPauseWokenOnce
  BY <1>1 DEF EachPauseWokenOnce
<1> QED BY <1>3, <1>4, <1>5, <1>6 DEF IInv

\* A step that leaves the log alone keeps what the log says.
LEMMA StaysIInv == IInv /\ Kept /\ Stays => IInv'
<1> SUFFICES ASSUME IInv, Kept, Stays PROVE IInv'
  OBVIOUS
<1> USE DEF Stays
<1>1. TurnTypeOK'
  BY DEF IInv, TurnTypeOK, Kept, Timers
<1>2. /\ StatusIsLast' /\ WakesGoReady' /\ NoEffectYet'
      /\ EachPauseWokenOnce'
  BY DEF IInv, StatusIsLast, WakesGoReady, NoEffectYet, EachPauseWokenOnce
<1>3. AppliedOnceOrNever'
  BY DEF IInv, AppliedOnceOrNever, Positions, AdvancesOf
<1> QED BY <1>1, <1>2, <1>3 DEF IInv

\* The positions of the log before and after a call is applied.
LEMMA GrownDomain ==
  ASSUME IInv, NEW c \in Calls, Grown(c)
  PROVE  /\ Len(log) \in Nat /\ Len(log') \in Nat /\ Len(log) < Len(log')
         /\ DOMAIN log = 1 .. Len(log) /\ DOMAIN log' = 1 .. Len(log')
         /\ \A i \in DOMAIN log' : i \in DOMAIN log
                                  \/ i \in Len(log) + 1 .. Len(log')
         /\ DOMAIN log \subseteq DOMAIN log'
         /\ \A i \in DOMAIN log : log'[i] = log[i]
<1>1. log \in Seq(EventRow) /\ log' \in Seq(EventRow)
  BY DEF IInv, TurnTypeOK, Grown
<1>2. /\ Len(log) \in Nat /\ Len(log') \in Nat
      /\ DOMAIN log = 1 .. Len(log) /\ DOMAIN log' = 1 .. Len(log')
  BY <1>1, LenProperties
<1>3. Len(log) < Len(log')
  BY <1>2 DEF Grown
<1> QED BY <1>2, <1>3 DEF Grown

\* The applied call is on record once, all of it.
LEMMA AppliesOnce ==
  ASSUME IInv, NEW c \in Calls, Moves1(c)
  PROVE  /\ \A part \in AdvancesOf(c) :
              \E i \in DOMAIN log' : Positions(c, part)' = {i}
         /\ \A i \in Positions(c, ":decision")' :
              i > 1 /\ log'[i - 1].id = [call |-> c, part |-> ":started"]
         /\ effects'[c] = IF Op[c].fn = "wake-task" THEN 1 ELSE 0
<1> DEFINE id(part) == [call |-> c, part |-> part]
           n == Len(log)
<1>1. c \notin done /\ Grown(c) /\ OneForEach(c)
  BY DEF Moves1, Applies
<1>2. \A i \in DOMAIN log : log[i].id.call # c
  BY <1>1 DEF IInv, AppliedOnceOrNever
<1>3. ASSUME NEW part, NEW i \in DOMAIN log', log'[i].id = id(part)
      PROVE  i \in n + 1 .. Len(log')
  <2>1. log'[i].id.call = c
    BY <1>3
  <2> QED BY <1>1, <1>2, <2>1, GrownDomain
<1>4. /\ n \in Nat /\ DOMAIN log' = 1 .. Len(log') /\ Len(log') \in Nat
      /\ n < Len(log')
  BY <1>1, GrownDomain
<1>5. effects'[c] = IF Op[c].fn = "wake-task" THEN 1 ELSE 0
  BY DEF Moves1, Applies, IInv, TurnTypeOK
<1>6. \A part : Positions(c, part)' = {i \in DOMAIN log' : log'[i].id = id(part)}
  BY DEF Positions
<1>7. id("all") # id(":decision") /\ id(":started") # id(":decision")
  OBVIOUS
<1> HIDE DEF id, n
<1>8. CASE /\ AdvancesOf(c) = {"all"}
           /\ Len(log') = n + 1
           /\ log'[n + 1].id = id("all")
  <2>1. n + 1 \in DOMAIN log' /\ \A i \in n + 1 .. Len(log') : i = n + 1
    BY <1>4, <1>8
  <2>2. Positions(c, "all")' = {n + 1}
    BY <1>3, <1>6, <1>8, <2>1
  <2>3. Positions(c, ":decision")' = {}
    BY <1>3, <1>6, <1>7, <1>8, <2>1
  <2> QED BY <1>5, <1>8, <2>1, <2>2, <2>3
<1>9. CASE /\ AdvancesOf(c) = {":started", ":decision"}
           /\ Len(log') = n + 2
           /\ log'[n + 1].id = id(":started")
           /\ log'[n + 2].id = id(":decision")
  <2>1. /\ n + 1 \in DOMAIN log' /\ n + 2 \in DOMAIN log'
        /\ \A i \in n + 1 .. Len(log') : i = n + 1 \/ i = n + 2
    BY <1>4, <1>9
  <2>2. Positions(c, ":started")' = {n + 1}
    BY <1>3, <1>6, <1>7, <1>9, <2>1
  <2>3. Positions(c, ":decision")' = {n + 2}
    BY <1>3, <1>6, <1>7, <1>9, <2>1
  <2>4. n + 2 > 1 /\ (n + 2) - 1 = n + 1
    BY <1>4
  <2>5. log'[(n + 2) - 1].id = [call |-> c, part |-> ":started"]
    BY <1>9, <2>4 DEF id
  <2> QED BY <1>5, <1>9, <2>1, <2>2, <2>3, <2>4, <2>5
<1> QED BY <1>1, <1>8, <1>9 DEF OneForEach, id, n

\* The calls that are not applied by the step are on record as before.
LEMMA OthersAsBefore ==
  ASSUME IInv, NEW c \in Calls, Moves1(c), NEW x \in Calls, x # c
  PROVE  /\ x \in done' <=> x \in done
         /\ effects'[x] = effects[x]
         /\ \A part : Positions(x, part)' = Positions(x, part)
         /\ (\A i \in DOMAIN log : log[i].id.call # x)
              => \A i \in DOMAIN log' : log'[i].id.call # x
         /\ \A i \in Positions(x, ":decision") : log'[i - 1] = log[i - 1]
                                               \/ ~(i > 1)
<1>1. Grown(c)
  BY DEF Moves1, Applies
<1>2. \A i \in Len(log) + 1 .. Len(log') : log'[i].id.call = c
  BY <1>1 DEF Grown
<1>3. ASSUME NEW part PROVE Positions(x, part)' = Positions(x, part)
  <2>1. \A i \in DOMAIN log' :
          log'[i].id = [call |-> x, part |-> part] => log'[i].id.call = x
    OBVIOUS
  <2>2. \A i \in DOMAIN log' :
          log'[i].id = [call |-> x, part |-> part] => i \in DOMAIN log
    BY <1>1, <1>2, <2>1, GrownDomain
  <2> QED BY <1>1, <2>2, GrownDomain DEF Positions
<1>4. (\A i \in DOMAIN log : log[i].id.call # x)
        => \A i \in DOMAIN log' : log'[i].id.call # x
  BY <1>1, <1>2, GrownDomain
<1>5. ASSUME NEW i \in Positions(x, ":decision"), i > 1
      PROVE  log'[i - 1] = log[i - 1]
  <2>1. i \in DOMAIN log
    BY DEF Positions
  <2>2. i - 1 \in DOMAIN log
    BY <1>1, <1>5, <2>1, GrownDomain
  <2> QED BY <1>1, <2>2, GrownDomain
<1>6. effects'[x] = effects[x] /\ (x \in done' <=> x \in done)
  BY DEF Moves1, Applies, IInv, TurnTypeOK
<1> QED BY <1>3, <1>4, <1>5, <1>6

\* A step that applies a call keeps what the log says.
LEMMA AppliesIInv ==
  ASSUME IInv, Kept, NEW c \in Calls, Moves1(c)
  PROVE  IInv'
<1>1. /\ c \notin done /\ status' \in Status /\ Grown(c) /\ OneForEach(c)
      /\ done' = done \cup {c}
      /\ effects' = [effects EXCEPT
             ![c] = IF Op[c].fn = "wake-task" THEN 1 ELSE 0]
  BY DEF Moves1, Applies
<1> DEFINE n == Len(log)
<1>2. /\ n \in Nat /\ Len(log') \in Nat /\ n < Len(log')
      /\ DOMAIN log = 1 .. n /\ DOMAIN log' = 1 .. Len(log')
      /\ \A i \in DOMAIN log' : i \in DOMAIN log \/ i \in n + 1 .. Len(log')
      /\ \A i \in DOMAIN log : i \in DOMAIN log' /\ log'[i] = log[i]
  BY <1>1, GrownDomain
<1>3. TurnTypeOK'
  <2>1. done' \subseteq Calls /\ effects' \in [Calls -> Nat]
    BY <1>1 DEF IInv, TurnTypeOK
  <2> QED BY <1>1, <2>1 DEF Grown, Kept, Timers, TurnTypeOK
<1>4. StatusIsLast'
  BY <1>1 DEF StatusIsLast, Grown
<1>5. WakesGoReady'
  BY <1>1, <1>2 DEF IInv, WakesGoReady, Grown
<1>6. NoEffectYet'
  BY <1>1 DEF IInv, NoEffectYet, TurnTypeOK
<1>7. AppliedOnceOrNever'
  <2> SUFFICES ASSUME NEW x \in Calls
               PROVE  IF x \notin done'
                      THEN \A i \in DOMAIN log' : log'[i].id.call # x
                      ELSE /\ \A part \in AdvancesOf(x) :
                                \E i \in DOMAIN log' : Positions(x, part)' = {i}
                           /\ \A i \in Positions(x, ":decision")' :
                                /\ i > 1
                                /\ log'[i - 1].id
                                     = [call |-> x, part |-> ":started"]
                           /\ effects'[x]
                                = IF Op[x].fn = "wake-task" THEN 1 ELSE 0
    BY DEF AppliedOnceOrNever, AdvancesOf
  <2>1. CASE x = c
    BY <1>1, <2>1, AppliesOnce
  <2>2. CASE x # c
    <3>1. CASE x \notin done
      BY <2>2, <3>1, OthersAsBefore DEF IInv, AppliedOnceOrNever
    <3>2. CASE x \in done
      <4>1. /\ \A part \in AdvancesOf(x) :
                 \E i \in DOMAIN log : Positions(x, part) = {i}
            /\ \A i \in Positions(x, ":decision") :
                 i > 1 /\ log[i - 1].id = [call |-> x, part |-> ":started"]
            /\ effects[x] = IF Op[x].fn = "wake-task" THEN 1 ELSE 0
        BY <3>2 DEF IInv, AppliedOnceOrNever
      <4> QED BY <1>2, <2>2, <3>2, <4>1, OthersAsBefore
    <3> QED BY <3>1, <3>2
  <2> QED BY <2>1, <2>2
<1>8. EachPauseWokenOnce'
  <2> SUFFICES ASSUME NEW i \in DOMAIN log', NEW j \in DOMAIN log', i < j,
                      log'[i].type \in WakeTypes, log'[j].type \in WakeTypes
               PROVE  \E k \in i + 1 .. j - 1 : log'[k].to \in WaitStatuses
    BY DEF EachPauseWokenOnce, WakeTypes, WaitStatuses
  <2>1. CASE j \in DOMAIN log
    <3>1. i \in DOMAIN log
      BY <1>2, <2>1
    <3>2. log[i].type \in WakeTypes /\ log[j].type \in WakeTypes
      BY <1>2, <2>1, <3>1
    <3>3. PICK k \in i + 1 .. j - 1 : log[k].to \in WaitStatuses
      BY <2>1, <3>1, <3>2 DEF IInv, EachPauseWokenOnce, WakeTypes, WaitStatuses
    <3>4. k \in DOMAIN log
      BY <1>2, <2>1, <3>1
    <3> QED BY <1>2, <3>3, <3>4
  <2>2. CASE j \notin DOMAIN log
    <3>1. j = n + 1 /\ status \in WaitStatuses
      BY <1>1, <1>2, <2>2 DEF Grown
    <3>2. i \in DOMAIN log /\ n # 0
      BY <1>2, <3>1
    <3>3. log[i].type \in WakeTypes /\ log[n].to = status
      BY <1>2, <3>2 DEF IInv, StatusIsLast
    <3>4. log[i].to = "ready"
      BY <3>2, <3>3 DEF IInv, WakesGoReady
    <3>5. i # n
      BY <3>1, <3>3, <3>4, WakeTable
    <3>6. n \in i + 1 .. j - 1 /\ n \in DOMAIN log
      BY <1>2, <3>1, <3>2, <3>5
    <3>7. log'[n].to \in WaitStatuses
      BY <1>2, <3>1, <3>3, <3>6
    <3> QED BY <3>6, <3>7
  <2> QED BY <2>1, <2>2
<1> QED BY <1>3, <1>4, <1>5, <1>6, <1>7, <1>8 DEF IInv

\* The invariant holds whoever calls, however often and in whatever order.
LEMMA IInvHolds == TurnSpec => []IInv
<1>1. IInv /\ [TurnNext]_turnVars => IInv'
  BY EveryStep, StaysIInv, AppliesIInv
<1> QED BY InitIInv, <1>1, PTL DEF TurnSpec

-----------------------------------------------------------------------------
(* What the turn engine promises. *)

\* The tasks row, its events and what the callers were told are well formed.
THEOREM TaskTyped == TurnSpec => []TurnTypeOK
<1>1. IInv => TurnTypeOK
  BY DEF IInv
<1> QED BY <1>1, IInvHolds, PTL

\* A caller-owned call id makes every call of an endpoint safe to resend: it is
\* applied once and all of it, or has left nothing behind, and a wake tells its
\* caller once to act.
THEOREM CallsApplyOnce == TurnSpec => []AppliedOnceOrNever
<1>1. IInv => AppliedOnceOrNever
  BY DEF IInv
<1> QED BY <1>1, IInvHolds, PTL

\* wake_task and resume-task leave a waiting status, so two of them never resume
\* the same pause.
THEOREM PausesWokenOnce == TurnSpec => []EachPauseWokenOnce
<1>1. IInv => EachPauseWokenOnce
  BY DEF IInv
<1> QED BY <1>1, IInvHolds, PTL

\* task_events is append-only, and its last event says where the task is: the
\* row and its log never part.
THEOREM LogTellsStatus ==
    TurnSpec => []StatusIsLast /\ [][\A i \in DOMAIN log : log'[i] = log[i]]_turnVars
<1>1. IInv => StatusIsLast
  BY DEF IInv
<1>2. IInv /\ [TurnNext]_turnVars => [\A i \in DOMAIN log : log'[i] = log[i]]_turnVars
  <2> SUFFICES ASSUME IInv, [TurnNext]_turnVars, NEW i \in DOMAIN log
               PROVE  log'[i] = log[i]
    OBVIOUS
  <2>1. CASE Stays
    BY <2>1 DEF Stays
  <2>2. ASSUME NEW c \in Calls, Moves1(c) PROVE log'[i] = log[i]
    BY <2>2, GrownDomain DEF Moves1, Applies
  <2> QED BY <2>1, <2>2, EveryStep
<1> QED BY <1>1, <1>2, IInvHolds, PTL DEF TurnSpec
=============================================================================
