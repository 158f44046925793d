--------------------------- MODULE ExecutionGraph ---------------------------
(***************************************************************************)
(* The execution graph of one planned task: its steps, the leases workers  *)
(* hold on them, the decision gates in front of them and the append-only   *)
(* event rows (supabase/migrations, functions claim_task_step,             *)
(* complete_task_step, fail_task_step and resolve_task_decision).          *)
(*                                                                         *)
(* Each function is one database transaction that locks the rows it        *)
(* changes, so each outcome of a call is one action.  The exception is     *)
(* claim_task_step: it reads the tasks and threads rows without a lock, so *)
(* Pick, its SELECT, and Claim, the rest, are two actions.  What it reads  *)
(* of prerequisites and gates never changes back.  Three abstractions:     *)
(*                                                                         *)
(*  - time.  now() is compared with two stored instants only; a row holds  *)
(*    the outcome of the comparison (lease "live"/"expired", due TRUE or   *)
(*    FALSE) and LeaseRunsOut and BecomeDue change it at any moment.       *)
(*  - claim tokens.  gen_random_uuid() never repeats and a claim raises    *)
(*    attempt_count, so attempt_count names the claim; 0 is NULL.          *)
(*  - workers.  An execution is only the token it was given.  It may       *)
(*    answer with it at any time, any number of times, with either call,   *)
(*    or never: a crash, a lost response, a resend and a late answer are   *)
(*    all choices of when, and whether, Complete and Fail happen.          *)
(***************************************************************************)
EXTENDS Integers

CONSTANTS
    Steps,          \* the steps of the plan
    Gates,          \* its decision gates
    Workers,        \* callers of claim_task_step
    Actors,         \* people who may answer a decision
    OptionKeys,     \* option keys a caller may send
    Prereqs,        \* Prereqs[s]: the steps s depends on
    GatesOf,        \* GatesOf[s]: the gates that block s
    MaxAttempts,    \* MaxAttempts[s]: attempt budget of s
    Handles,        \* Handles[w]: the steps w's step-type filter admits
    Owner,          \* Owner[g]: owner_ref of the decision behind g
    OptionsOf,      \* OptionsOf[g]: its declared options
    Keys,           \* idempotency keys callers send
    KeyOf(_, _),    \* the one an answer carries: kind, attempt
    None            \* SQL NULL; also the key of an event the database names

Kinds == {"complete", "fail"}

ASSUME PrereqsAssumption == Prereqs \in [Steps -> SUBSET Steps]
ASSUME GatesAssumption == GatesOf \in [Steps -> SUBSET Gates]
ASSUME BudgetAssumption == MaxAttempts \in [Steps -> Nat \ {0}]
ASSUME HandlesAssumption == Handles \in [Workers -> SUBSET Steps]
ASSUME DecisionAssumption == /\ Owner \in [Gates -> Actors]
                             /\ OptionsOf \in [Gates -> SUBSET OptionKeys]
ASSUME KeyAssumption ==
    /\ None \notin Keys
    /\ \A k \in Kinds, s \in Steps :
         \A n \in 1 .. MaxAttempts[s] : KeyOf(k, n) \in Keys

VARIABLES
    step,       \* rows of task_steps
    events,     \* rows of task_step_events, per step
    decision,   \* rows of task_decisions
    gate,       \* rows of task_gates
    open,       \* neither the task nor its thread is in a terminal status
    picked,     \* steps a claim has selected, and locked, but not yet leased
    acked       \* answers a worker got a success response to

vars == <<step, events, decision, gate, open, picked, acked>>

-----------------------------------------------------------------------------
(* Rows. *)

\* The CHECK constraint of the table admits five more statuses; no function
\* writes them.
StepRow == [status : {"pending", "ready", "running", "completed", "failed"},
            attempts : Nat,
            token : Nat,
            lease : {"none", "live", "expired"},
            due : BOOLEAN]

Answers == {"completed", "retry_scheduled", "failed"}
Settling == Answers \cup {"lease_expired"}

\* "by" is the claim token the caller presented; 0 for the scheduler.
EventRow == [type : Settling \cup {"claimed"}, attempt : Nat, by : Nat,
             key : Keys \cup {None}]

DecisionRow == [status : {"pending", "resolved"},
                option : OptionKeys \cup {None}, by : Actors \cup {None}]

GateRow == [status : {"pending", "satisfied"},
            resolution : OptionKeys \cup {None}]

Event(type, attempt, by, key) ==
    [type |-> type, attempt |-> attempt, by |-> by, key |-> key]

Settled(s) == step[s].status \in {"completed", "failed"}

KeysUsed(s) == {e.key : e \in events[s]}

-----------------------------------------------------------------------------
(* A plan as create_task_plan commits it. *)

Init == /\ \E due \in [Steps -> BOOLEAN] :
              step = [s \in Steps |-> [status |-> "pending", attempts |-> 0,
                                      token |-> 0, lease |-> "none",
                                      due |-> due[s]]]
        /\ events = [s \in Steps |-> {}]
        /\ decision = [g \in Gates |-> [status |-> "pending",
                                        option |-> None, by |-> None]]
        /\ gate = [g \in Gates |-> [status |-> "pending",
                                    resolution |-> None]]
        /\ open = TRUE
        /\ picked = {}
        /\ acked = {}

-----------------------------------------------------------------------------
(* claim_task_step: first put back every step whose lease has run out, then *)
(* lease one runnable step.                                                 *)

LeaseLost(s) == step[s].status = "running" /\ step[s].lease = "expired"

\* Mutant: one attempt too many.
ExhaustedLate(s) == step[s].attempts > MaxAttempts[s]

Exhausted(s) == step[s].attempts >= MaxAttempts[s]

\* The row of s once nobody holds it: claim columns NULL, attempt kept.
Unclaimed(s, status, due) ==
    [status |-> status, attempts |-> step[s].attempts,
     token |-> 0, lease |-> "none", due |-> due]

\* Mutant: a step is put back whatever its budget.
AfterAttemptAlwaysReady(s) == "ready"

AfterAttempt(s) == IF Exhausted(s) THEN "failed" ELSE "ready"

\* Mutant: the claim columns are not cleared.
PutBackClaimed(s) == [step[s] EXCEPT !.status = AfterAttempt(s)]

PutBack(s) == Unclaimed(s, AfterAttempt(s), step[s].due)

SweptStep == [s \in Steps |-> IF LeaseLost(s) THEN PutBack(s) ELSE step[s]]

SweptEvents ==
    [s \in Steps |->
        IF LeaseLost(s)
        THEN events[s] \cup {Event("lease_expired", step[s].attempts, 0, None)}
        ELSE events[s]]

\* Mutant: a prerequisite has to be over, not completed.
UnlockedByEnded(s) ==
    /\ \A p \in Prereqs[s] : step[p].status \in {"completed", "failed"}
    /\ \A g \in GatesOf[s] : gate[g].status = "satisfied"

Unlocked(s) == /\ \A p \in Prereqs[s] : step[p].status = "completed"
               /\ \A g \in GatesOf[s] : gate[g].status = "satisfied"

\* Mutant: a step that was put back is not offered again.
QueuedOnce(s) == /\ SweptStep[s].status = "pending"
                 /\ step[s].due
                 /\ ~Exhausted(s)

Queued(s) == /\ SweptStep[s].status \in {"pending", "ready"}
             /\ step[s].due
             /\ ~Exhausted(s)

Leased(s) == [status |-> "running", attempts |-> step[s].attempts + 1,
              token |-> step[s].attempts + 1, lease |-> "live",
              due |-> step[s].due]

\* Mutant: the task and its thread are not looked at.
PickOfClosed(w, s) ==
    /\ s \in Handles[w] \ picked
    /\ Queued(s)
    /\ Unlocked(s)
    /\ picked' = picked \cup {s}
    /\ UNCHANGED <<step, events, decision, gate, open, acked>>

\* ORDER BY ... FOR UPDATE SKIP LOCKED: a concurrent transaction may hold the
\* rows ranked before s, so any step in the queue that the filter admits may be
\* selected.  The sweep is not visible to others before Claim commits it.
Pick(w, s) ==
    /\ open
    /\ s \in Handles[w] \ picked
    /\ Queued(s)
    /\ Unlocked(s)
    /\ picked' = picked \cup {s}
    /\ UNCHANGED <<step, events, decision, gate, open, acked>>

\* The row lock keeps s in the queue; nothing looks at the task again.
Claim(s) ==
    /\ s \in picked
    /\ picked' = picked \ {s}
    /\ step' = [SweptStep EXCEPT ![s] = Leased(s)]
    /\ events' = [SweptEvents EXCEPT
                    ![s] = @ \cup {Event("claimed", step[s].attempts + 1,
                                         step[s].attempts + 1, None)}]
    /\ UNCHANGED <<decision, gate, open, acked>>

\* The session is lost before it commits.
ClaimLost(s) ==
    /\ s \in picked
    /\ picked' = picked \ {s}
    /\ UNCHANGED <<step, events, decision, gate, open, acked>>

\* The call returns no row but its sweep commits.  It may find nothing although
\* a step is runnable: that row is locked, or the filter leaves it out.
ClaimNothing ==
    /\ \E s \in Steps : LeaseLost(s)
    /\ step' = SweptStep
    /\ events' = SweptEvents
    /\ UNCHANGED <<decision, gate, open, picked, acked>>

-----------------------------------------------------------------------------
(* complete_task_step and fail_task_step.  A refused call (PT409, or an     *)
(* output validate_task_step_output rejects) changes nothing.               *)

Call(kind, s, n) == [kind |-> kind, step |-> s, token |-> n]

\* The caller was given this token by some claim of s.
Given(s, n) == n \in 1 .. step[s].attempts

\* Mutants: any claim of a running step will do; the attempt is compared instead
\* of the claim.
HoldsAny(s, n) == step[s].status = "running" /\ step[s].lease = "live"

HoldsByAttempt(s, n) == step[s].attempts = n

Holds(s, n) == /\ step[s].status = "running"
               /\ step[s].token = n
               /\ step[s].lease = "live"

\* Mutant: an answer counts as repeated if its claim has given one.
ReplayByClaim(kind, s, n) ==
    /\ Given(s, n)
    /\ \E e \in events[s] : e.type \in Answers /\ e.by = n
    /\ acked' = acked \cup {Call(kind, s, n)}
    /\ UNCHANGED <<step, events, decision, gate, open, picked>>

\* The key is already in task_step_events: return the row as it is now.
Replay(kind, s, n) ==
    /\ Given(s, n)
    /\ KeyOf(kind, n) \in KeysUsed(s)
    /\ acked' = acked \cup {Call(kind, s, n)}
    /\ UNCHANGED <<step, events, decision, gate, open, picked>>

Complete(s, n) ==
    /\ Given(s, n)
    /\ KeyOf("complete", n) \notin KeysUsed(s)
    /\ Holds(s, n)
    /\ step' = [step EXCEPT ![s] = Unclaimed(s, "completed", step[s].due)]
    /\ events' = [events EXCEPT
                    ![s] = @ \cup {Event("completed", step[s].attempts, n,
                                         KeyOf("complete", n))}]
    /\ acked' = acked \cup {Call("complete", s, n)}
    /\ UNCHANGED <<decision, gate, open, picked>>

\* delayed: retry_delay_seconds > 0.
Fail(s, n, delayed) ==
    /\ Given(s, n)
    /\ KeyOf("fail", n) \notin KeysUsed(s)
    /\ Holds(s, n)
    /\ step' = [step EXCEPT ![s] =
                  Unclaimed(s, AfterAttempt(s),
                            IF Exhausted(s) THEN step[s].due ELSE ~delayed)]
    /\ events' = [events EXCEPT
                    ![s] = @ \cup {Event(IF Exhausted(s) THEN "failed"
                                         ELSE "retry_scheduled",
                                         step[s].attempts, n,
                                         KeyOf("fail", n))}]
    /\ acked' = acked \cup {Call("fail", s, n)}
    /\ UNCHANGED <<decision, gate, open, picked>>

-----------------------------------------------------------------------------
(* resolve_task_decision.  The replay test by key needs no state: a pending *)
(* decision has no event yet, and a decided one is returned or refused      *)
(* unchanged.                                                               *)

\* Mutants: the owner, or the status, is not compared.
ResolveByAnyone(g, actor, option) ==
    /\ decision[g].status = "pending"
    /\ option \in OptionsOf[g]
    /\ decision' = [decision EXCEPT ![g] = [status |-> "resolved",
                                            option |-> option, by |-> actor]]
    /\ gate' = [gate EXCEPT ![g] = [status |-> "satisfied",
                                    resolution |-> option]]
    /\ UNCHANGED <<step, events, open, picked, acked>>

ResolveAgain(g, actor, option) ==
    /\ actor = Owner[g]
    /\ option \in OptionsOf[g]
    /\ decision' = [decision EXCEPT ![g] = [status |-> "resolved",
                                            option |-> option, by |-> actor]]
    /\ gate' = [gate EXCEPT ![g] = [status |-> "satisfied",
                                    resolution |-> option]]
    /\ UNCHANGED <<step, events, open, picked, acked>>

Resolve(g, actor, option) ==
    /\ decision[g].status = "pending"
    /\ actor = Owner[g]
    /\ option \in OptionsOf[g]
    /\ decision' = [decision EXCEPT ![g] = [status |-> "resolved",
                                            option |-> option, by |-> actor]]
    /\ gate' = [gate EXCEPT ![g] = [status |-> "satisfied",
                                    resolution |-> option]]
    /\ UNCHANGED <<step, events, open, picked, acked>>

\* advance_task moves the task to completed, failed or cancelled.  No function
\* reopens a task, and none cancels its steps.
CloseTask ==
    /\ open
    /\ open' = FALSE
    /\ UNCHANGED <<step, events, decision, gate, picked, acked>>

-----------------------------------------------------------------------------
(* The clock passes lease_expires_at or available_at. *)

LeaseRunsOut(s) ==
    /\ step[s].status = "running"
    /\ step[s].lease = "live"
    /\ step' = [step EXCEPT ![s].lease = "expired"]
    /\ UNCHANGED <<events, decision, gate, open, picked, acked>>

BecomeDue(s) ==
    /\ ~step[s].due
    /\ step' = [step EXCEPT ![s].due = TRUE]
    /\ UNCHANGED <<events, decision, gate, open, picked, acked>>

-----------------------------------------------------------------------------

Poll == ClaimNothing \/ \E w \in Workers, s \in Steps : Pick(w, s)

ClaimEnds(s) == Claim(s) \/ ClaimLost(s)

Answer(s) ==
    \E n \in 1 .. step[s].attempts :
        \/ Complete(s, n)
        \/ \E delayed \in BOOLEAN : Fail(s, n, delayed)
        \/ \E kind \in Kinds : Replay(kind, s, n)

Decide == \E g \in Gates, a \in Actors, o \in OptionKeys : Resolve(g, a, o)

Next == \/ Poll
        \/ \E s \in Steps : ClaimEnds(s) \/ Answer(s)
        \/ Decide
        \/ CloseTask
        \/ \E s \in Steps : LeaseRunsOut(s) \/ BecomeDue(s)

Spec == Init /\ [][Next]_vars

\* Workers poll on a schedule, a transaction ends and the clock runs; sessions
\* are not lost for ever.  Nothing else is fair: a worker may crash and an owner
\* may never answer.
FairSpec == /\ Spec
            /\ WF_vars(Poll)
            /\ \A s \in Steps : WF_vars(ClaimEnds(s)) /\ SF_vars(Claim(s))
            /\ \A s \in Steps : WF_vars(LeaseRunsOut(s)) /\ WF_vars(BecomeDue(s))

-----------------------------------------------------------------------------
(* Properties. *)

\* Every row is well formed, and a step carries a token and a lease exactly
\* while it is running (task_steps_claim_check), the token of its last claim.
TypeOK ==
    /\ step \in [Steps -> StepRow]
    /\ events \in [Steps -> SUBSET EventRow]
    /\ decision \in [Gates -> DecisionRow]
    /\ gate \in [Gates -> GateRow]
    /\ open \in BOOLEAN
    /\ picked \subseteq Steps
    /\ acked \subseteq [kind : Kinds, step : Steps, token : Nat]
    /\ \A s \in Steps :
         IF step[s].status = "running"
         THEN step[s].token = step[s].attempts /\ step[s].lease # "none"
         ELSE step[s].token = 0 /\ step[s].lease = "none"

\* A step has been started only if every prerequisite is completed, whatever
\* leases, retries and late answers came in between: claim_task_step tests the
\* prerequisites once, and nothing takes a completion back afterwards.
PrereqsFirst ==
    \A s \in Steps : step[s].attempts > 0 =>
        \A p \in Prereqs[s] : step[p].status = "completed"

\* A step behind a decision has been started only after the decision's owner
\* chose one of the declared options, and the gate still records that choice.
OwnerDecidedFirst ==
    \A s \in Steps : step[s].attempts > 0 =>
        \A g \in GatesOf[s] : /\ decision[g].status = "resolved"
                             /\ decision[g].by = Owner[g]
                             /\ decision[g].option \in OptionsOf[g]
                             /\ gate[g].resolution = decision[g].option

SettledBy(s, n) == {e \in events[s] : e.type \in Settling /\ e.attempt = n}

\* Each attempt ends exactly once (completed, failed, put back for a retry or
\* taken away when its lease ran out), except the one that is running, however
\* answers, resends and sweeps of several executions interleave.
AttemptEndsOnce ==
    \A s \in Steps : \A n \in 1 .. step[s].attempts :
        /\ \A e, f \in SettledBy(s, n) : e = f
        /\ SettledBy(s, n) = {} <=>
             (step[s].status = "running" /\ n = step[s].attempts)

\* An answer is recorded against the claim it was made under: an execution that
\* lost its lease never ends the attempt of the execution that replaced it.
LateAnswersHarmless ==
    \A s \in Steps : \A e \in events[s] :
        /\ e.attempt \in 1 .. step[s].attempts
        /\ e.type \in Answers => e.by = e.attempt

\* The budget is spent exactly: no step is given up early, and a step that can
\* no longer be claimed never waits in the queue as if it could be.
BudgetSpentExactly ==
    \A s \in Steps :
        /\ step[s].attempts <= MaxAttempts[s]
        /\ step[s].status = "failed" => step[s].attempts = MaxAttempts[s]
        /\ step[s].status \in {"pending", "ready"} => ~Exhausted(s)

\* A success response is true: the completion it confirms is the step's last
\* event, the failure it confirms is on record.  A resent answer is confirmed
\* from the event log without looking at the claim.
AckTruthful ==
    \A c \in acked :
        \E e \in events[c.step] :
            /\ e.by = c.token
            /\ IF c.kind = "complete"
               THEN /\ e.type = "completed"
                    /\ e.attempt = step[c.step].attempts
                    /\ step[c.step].status = "completed"
               ELSE e.type \in {"retry_scheduled", "failed"}

\* A completed or failed step is never touched again and a decision is never
\* changed: late answers, replays and sweeps leave both alone.
FinalIsFinal ==
    [][/\ \A s \in Steps : Settled(s) =>
            /\ step'[s].status = step[s].status
            /\ step'[s].attempts = step[s].attempts
            /\ events'[s] = events[s]
       /\ \A g \in Gates : decision[g].status = "resolved" =>
            /\ decision'[g] = decision[g]
            /\ gate'[g] = gate[g]]_vars

\* Once the task or its thread is terminal no claim selects a step, also not one
\* the sweep puts back into the queue of a terminal task.  Only a claim that had
\* selected its step before still leases it: claim_task_step looks at the task
\* first and at nothing but the step's row afterwards.
NothingPickedAfterClose ==
    [][~open => /\ ~open'
                /\ picked' \subseteq picked
                /\ \A s \in Steps : step'[s].attempts # step[s].attempts
                                      => s \in picked \ picked']_vars

\* A step whose prerequisites and gates are satisfied is completed or its budget
\* is spent, unless the task is closed: no interleaving leaves it in the queue, nor
\* with a worker that is lost.
UnlockedIsSettled ==
    \A s \in Steps :
        Unlocked(s) /\ (\E w \in Workers : s \in Handles[w])
            ~> (Settled(s) \/ ~open)

-----------------------------------------------------------------------------
(* Refinement. *)

LedgerState(status) == CASE status \in {"pending", "ready"} -> "open"
                         [] status = "running" -> "held"
                         [] status = "completed" -> "done"
                         [] status = "failed" -> "dead"

Ledger == INSTANCE WorkLedger WITH
    job <- [s \in Steps |-> [state |-> LedgerState(step[s].status),
                             tries |-> step[s].attempts]],
    decided <- {g \in Gates : gate[g].status = "satisfied"},
    accepting <- open,
    promised <- picked

\* The leases, tokens, keys and sweeps of the execution graph implement the
\* ledger: one holder at a time, the budget, the order and one ending per step.
ImplementsLedger == Ledger!LedgerSpec
=============================================================================
