--------------------------- MODULE DispatchOutbox ---------------------------
(***************************************************************************)
(* The durable side-effect outbox: task_dispatches, the four functions     *)
(* enqueue_, claim_, complete_ and retry_task_dispatch, and the workflow   *)
(* executions that claim a row, call the provider and report.              *)
(*                                                                         *)
(* A claim raises attempt_count, so <<d, n>> names the execution that made *)
(* the n-th claim of d.  The database knows it only by its worker id,      *)
(* IdOf(d, n): one id for all executions of a workflow, or one for each.   *)
(* An execution may stop for ever at any point and may act long after its  *)
(* five minutes are over.  now() is compared with two instants only, so a  *)
(* claim is in time or not and a row due or not.                           *)
(***************************************************************************)
EXTENDS Integers, Sequences, FiniteSets

CONSTANTS
    Dispatches,     \* intents of one task, named by their dedupe_key
    MaxAttempts,    \* MaxAttempts[d]: attempt budget of d
    WorkerIds,      \* what a worker calls itself
    IdOf(_, _),     \* IdOf(d, n): worker_id of the n-th claim of d
    Nobody          \* SQL NULL

ASSUME BudgetAssumption == MaxAttempts \in [Dispatches -> Nat \ {0}]
ASSUME IdAssumption ==
    /\ Nobody \notin WorkerIds
    /\ \A d \in Dispatches : \A n \in 1 .. MaxAttempts[d] :
         IdOf(d, n) \in WorkerIds

VARIABLES
    row,    \* rows of task_dispatches
    run     \* run[d][n]: the execution that made the n-th claim of d

outboxVars == <<row, run>>

-----------------------------------------------------------------------------
(* result is the execution whose result the row keeps, 0 for NULL.          *)

Row == [status : {"absent", "pending", "processing", "completed", "failed"},
        attempts : Nat, owner : WorkerIds \cup {Nobody}, due : BOOLEAN,
        result : Nat]

Execution == [phase : {"claimed", "sent", "erred", "over"},
              inTime : BOOLEAN]

OutboxInit ==
    /\ row = [d \in Dispatches |-> [status |-> "absent", attempts |-> 0,
                                    owner |-> Nobody, due |-> FALSE,
                                    result |-> 0]]
    /\ run = [d \in Dispatches |-> <<>>]

\* enqueue_task_dispatch.  ON CONFLICT DO NOTHING: a repeated intent, also one
\* with another payload, changes nothing.
Enqueue(d) ==
    /\ row[d].status = "absent"
    /\ \E due \in BOOLEAN :
         row' = [row EXCEPT ![d].status = "pending", ![d].due = due]
    /\ UNCHANGED run

-----------------------------------------------------------------------------
(* claim_task_dispatch: release every abandoned row, then lease one.        *)

\* Mutant: a claim is abandoned at once.
AbandonedAtOnce(d) == row[d].status = "processing"

Abandoned(d) == /\ row[d].status = "processing"
                /\ ~run[d][row[d].attempts].inTime

Exhausted(d) == row[d].attempts >= MaxAttempts[d]

\* d goes back to the queue or, with its budget spent, is given up.
GivenBack(d, due) ==
    [row[d] EXCEPT !.status = IF Exhausted(d) THEN "failed" ELSE "pending",
                   !.due = IF Exhausted(d) THEN @ ELSE due,
                   !.owner = Nobody]

\* Mutant: only rows with attempts left are released.
SweptRowWithinBudget ==
    [d \in Dispatches |-> IF Abandoned(d) /\ ~Exhausted(d)
                          THEN GivenBack(d, TRUE) ELSE row[d]]

SweptRow == [d \in Dispatches |->
                IF Abandoned(d) THEN GivenBack(d, TRUE) ELSE row[d]]

\* SKIP LOCKED: rows ranked before d may be locked, so any due row may be taken.
Claim(d) ==
    /\ SweptRow[d].status = "pending"
    /\ SweptRow[d].due
    /\ ~Exhausted(d)
    /\ row' = [SweptRow EXCEPT ![d].status = "processing",
                               ![d].attempts = @ + 1,
                               ![d].owner = IdOf(d, row[d].attempts + 1)]
    /\ run' = [run EXCEPT ![d] = Append(@, [phase |-> "claimed",
                                            inTime |-> TRUE])]

ClaimNothing == /\ \E d \in Dispatches : Abandoned(d)
                /\ row' = SweptRow
                /\ UNCHANGED run

-----------------------------------------------------------------------------
(* An execution: it calls the provider once, then reports.                  *)

Moved(d, n, phase) == run' = [run EXCEPT ![d][n].phase = phase]

\* Whether a provider acted although it answered with an error is not known here.
ProviderCall(d, n) ==
    /\ run[d][n].phase = "claimed"
    /\ \E phase \in {"sent", "erred"} : Moved(d, n, phase)
    /\ UNCHANGED row

Owns(d, n) == row[d].status = "processing" /\ row[d].owner = IdOf(d, n)

\* Mutant: the owner is not compared.
CompleteByAnyone(d, n) ==
    /\ run[d][n].phase = "sent"
    /\ row[d].status = "processing"
    /\ row' = [row EXCEPT ![d].status = "completed", ![d].owner = Nobody,
                          ![d].result = n]
    /\ Moved(d, n, "over")

\* complete_task_dispatch.  A completed row is returned to any caller; a call
\* refused with PT409 ends the execution; a lost response may be asked for again.
Complete(d, n) ==
    /\ run[d][n].phase = "sent"
    /\ \/ Owns(d, n) /\ row' = [row EXCEPT ![d].status = "completed",
                                           ![d].owner = Nobody,
                                           ![d].result = n]
       \/ ~Owns(d, n) /\ UNCHANGED row
    /\ Moved(d, n, "over") \/ (Owns(d, n) /\ UNCHANGED run)

\* retry_task_dispatch, called once; the delay is at least a second.
Retry(d, n) ==
    /\ run[d][n].phase = "erred"
    /\ \/ Owns(d, n) /\ row' = [row EXCEPT ![d] = GivenBack(d, FALSE)]
       \/ ~Owns(d, n) /\ UNCHANGED row
    /\ Moved(d, n, "over")

-----------------------------------------------------------------------------
(* The clock passes locked_at + 5 minutes, or available_at. *)

LeaseRunsOut(d, n) == /\ run[d][n].inTime
                      /\ run' = [run EXCEPT ![d][n].inTime = FALSE]
                      /\ UNCHANGED row

BecomeDue(d) == /\ row[d].status = "pending"
                /\ ~row[d].due
                /\ row' = [row EXCEPT ![d].due = TRUE]
                /\ UNCHANGED run

Poll == ClaimNothing \/ \E d \in Dispatches : Claim(d)

Works(d, n) == ProviderCall(d, n) \/ Complete(d, n) \/ Retry(d, n)

TimePasses(d) == BecomeDue(d) \/ \E n \in DOMAIN run[d] : LeaseRunsOut(d, n)

OutboxNext ==
    \/ Poll
    \/ \E d \in Dispatches :
         \/ Enqueue(d)
         \/ TimePasses(d)
         \/ \E n \in DOMAIN run[d] : Works(d, n)

OutboxSpec == OutboxInit /\ [][OutboxNext]_outboxVars

\* The workflow runs every 30 seconds and the clock runs.  No execution is fair:
\* each may crash or hang.
OutboxFairness ==
    /\ WF_outboxVars(Poll)
    /\ \A d \in Dispatches : WF_outboxVars(TimePasses(d))

OutboxFairSpec == OutboxSpec /\ OutboxFairness

-----------------------------------------------------------------------------
(* Properties. *)

\* Every row is well formed; a row has an owner exactly while it is processing
\* (task_dispatches_lock_check) and one execution for each of its attempts.
OutboxTypeOK ==
    /\ row \in [Dispatches -> Row]
    /\ run \in [Dispatches -> Seq(Execution)]
    /\ \A d \in Dispatches :
         /\ row[d].attempts = Len(run[d])
         /\ row[d].owner # Nobody <=> row[d].status = "processing"

\* Executions of d that still work on a claim that is not older than five
\* minutes.
InCharge(d) ==
    {n \in DOMAIN run[d] : run[d][n].inTime /\ run[d][n].phase # "over"}

\* "Claims are exclusive" (turn-engine.md:175): no two executions are in charge of
\* one dispatch.  It is refuted under the stable worker id that
\* turn-engine-runbook.md:42 prescribes: an execution that lost its claim gives up
\* the claim of its successor, and a third one starts beside that.
ClaimsExclusive == \A d \in Dispatches : Cardinality(InCharge(d)) <= 1

\* An earlier claim of d was made under the worker id of the n-th.
Namesake(d, n) == \E k \in 1 .. n - 1 : IdOf(d, k) = IdOf(d, n)

\* Under whatever ids: an execution that is in charge has the row's last claim, and
\* the row is not given to another, unless an earlier execution bears its name.  So
\* claims are exclusive where no id is used twice, and nothing but a shared id makes
\* them otherwise: no sweep, no claim and no report by another name.
LostToNamesakesOnly ==
    \A d \in Dispatches : \A n \in InCharge(d) :
        \/ n = row[d].attempts /\ row[d].status \in {"processing", "completed"}
        \/ Namesake(d, n)

\* The result on record bears the name of the last claim: an abandoned execution
\* ends the claim that replaced its own only if both have one worker id, and never
\* where each has its own.
ResultOfLastClaim ==
    \A d \in Dispatches : row[d].status = "completed" =>
        IdOf(d, row[d].result) = IdOf(d, row[d].attempts)

\* A recorded intent is not forgotten: it is completed or its budget is spent,
\* even if every execution that claims it vanishes.
EveryIntentSettles ==
    \A d \in Dispatches :
        row[d].status = "pending" ~> row[d].status \in {"completed", "failed"}
=============================================================================
