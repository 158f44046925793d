--------------------------- MODULE ExecutionRollup --------------------------
(***************************************************************************)
(* The summary tasks.execution_status that triggers keep of a task's steps *)
(* and gates (refresh_task_execution_rollup), statement by statement under *)
(* READ COMMITTED.  A transaction changes a step or a gate row, which it   *)
(* keeps locked; the AFTER trigger then counts the rows it can see, its    *)
(* own changes and what others have committed, and only then updates, and  *)
(* so locks, the tasks row.  Nothing orders the count of one transaction   *)
(* with the update of another.                                             *)
(*                                                                         *)
(* The trigger runs once for every row a statement changes, after the      *)
(* statement.  ExecutionGraph says when a step may change; here a session  *)
(* makes any change of status one of its functions makes.                  *)
(***************************************************************************)
EXTENDS Integers, FiniteSets

CONSTANTS
    Sessions,   \* database sessions
    Steps,      \* the steps of one task
    Gates,      \* its gates
    Prereqs,    \* Prereqs[s]: the steps s depends on
    GatesOf,    \* GatesOf[s]: the gates that block s
    NoSession      \* no session

ASSUME RollupAssumption == /\ Prereqs \in [Steps -> SUBSET Steps]
                           /\ GatesOf \in [Steps -> SUBSET Gates]
                           /\ NoSession \notin Sessions /\ IsFiniteSet(Sessions)
                           /\ Steps \cap Gates = {} /\ IsFiniteSet(Steps \cup Gates)

VARIABLES
    rows,       \* committed step and gate rows
    mine,       \* mine[c]: the rows c has changed, which it keeps locked
    pc,         \* pc[c]: the next statement of c's transaction
    queued,     \* queued[c]: trigger calls its last statement still owes
    counted,    \* counted[c]: the status c's trigger computed last
    taskLock,   \* the session that has updated the tasks row, until it commits
    rollup,     \* committed tasks.execution_status
    overlapped  \* history: two transactions have been open at once

rollupVars == <<rows, mine, pc, queued, counted, taskLock, rollup, overlapped>>

-----------------------------------------------------------------------------
(* pending and ready are one status here: nothing tells them apart.  due    *)
(* compares available_at with now(): never ahead of it, "ahead", or ahead   *)
(* when the step was queued and "reached" since.                            *)

StepRow == [status : {"ready", "running", "completed", "failed"},
            due : {"now", "ahead", "reached"}]
GateRow == [status : {"pending", "satisfied"}, due : {"now"}]

In(view, status) == {s \in Steps : view[s].status = status}

Startable(view, s) ==
    /\ view[s].status = "ready"
    /\ view[s].due # "ahead"
    /\ \A p \in Prereqs[s] : view[p].status = "completed"
    /\ \A g \in GatesOf[s] : view[g].status = "satisfied"

\* Mutant: work is over when nothing is left to start.
RollupWhenAllStarted(view) ==
    IF In(view, "failed") # {} THEN "failed"
    ELSE IF In(view, "ready") = {} THEN "completed"
    ELSE IF In(view, "running") # {} THEN "running"
    ELSE IF \E s \in Steps : Startable(view, s) THEN "ready"
    ELSE "waiting"

\* The CASE of refresh_task_execution_rollup: the first that applies.
RollupOf(view) ==
    IF Steps = {} THEN "unplanned"
    ELSE IF In(view, "failed") # {} THEN "failed"
    ELSE IF In(view, "running") # {} THEN "running"
    ELSE IF In(view, "completed") = Steps THEN "completed"
    ELSE IF \E s \in Steps : Startable(view, s) THEN "ready"
    ELSE "waiting"

RollupInit ==
    /\ \E due \in [Steps -> {"now", "ahead"}] :
         rows = [r \in Steps \cup Gates |->
                   IF r \in Steps THEN [status |-> "ready", due |-> due[r]]
                   ELSE [status |-> "pending", due |-> "now"]]
    /\ mine = [c \in Sessions |-> <<>>]
    /\ pc = [c \in Sessions |-> "idle"]
    /\ queued = [c \in Sessions |-> 0]
    /\ counted = [c \in Sessions |-> "unplanned"]
    /\ taskLock = NoSession
    /\ rollup = RollupOf(rows)
    /\ overlapped = FALSE

-----------------------------------------------------------------------------
Over(new, old) == [r \in DOMAIN new \cup DOMAIN old |->
                     IF r \in DOMAIN new THEN new[r] ELSE old[r]]

\* What c reads: everything committed, overlaid with its own changes.
View(c) == Over(mine[c], rows)

\* An UPDATE of rows no other transaction holds, and the triggers it queues.
UpdateRows(c, new) ==
    /\ \A d \in Sessions \ {c} : DOMAIN new \cap DOMAIN mine[d] = {}
    /\ mine' = [mine EXCEPT ![c] = Over(new, @)]
    /\ queued' = [queued EXCEPT ![c] = Cardinality(DOMAIN new)]
    /\ UNCHANGED <<rows, counted, taskLock, rollup>>

\* claim_task_step leases a step, after its sweep has run if it had one.
Take(c, s) == /\ pc[c] \in {"idle", "swept"}
              /\ Startable(View(c), s)
              /\ pc' = [pc EXCEPT ![c] = "count"]
              /\ UpdateRows(c, [r \in {s} |-> [status |-> "running", due |-> "now"]])

\* claim_task_step puts the steps with an expired lease back, or gives them up.
Sweep(c) == /\ pc[c] = "idle"
            /\ pc' = [pc EXCEPT ![c] = "sweep-count"]
            /\ \E lost \in (SUBSET In(rows, "running")) \ {{}} :
                 \E status \in [lost -> {"ready", "failed"}] :
                   UpdateRows(c, [s \in lost |-> [status |-> status[s], due |-> "now"]])

\* complete_task_step and fail_task_step; only a retry can be delayed.
EndStep(c, s) ==
    /\ pc[c] = "idle"
    /\ rows[s].status = "running"
    /\ pc' = [pc EXCEPT ![c] = "count"]
    /\ \E row \in StepRow :
         /\ row.status # "running"
         /\ \/ row.due = "now"
            \/ row.status = "ready" /\ row.due = "ahead"
         /\ UpdateRows(c, [r \in {s} |-> row])

\* Mutant: task_gates has no trigger.
SatisfyUnseen(c, g) ==
    /\ pc[c] = "idle"
    /\ rows[g].status = "pending"
    /\ pc' = [pc EXCEPT ![c] = "written"]
    /\ counted' = [counted EXCEPT ![c] = rollup]
    /\ mine' = [mine EXCEPT ![c] = [r \in {g} |->
                                      [status |-> "satisfied", due |-> "now"]]]
    /\ UNCHANGED <<rows, queued, taskLock, rollup>>

\* resolve_task_decision.
Satisfy(c, g) == /\ pc[c] = "idle"
                 /\ rows[g].status = "pending"
                 /\ pc' = [pc EXCEPT ![c] = "count"]
                 /\ UpdateRows(c, [r \in {g} |->
                                   [status |-> "satisfied", due |-> "now"]])

\* The two SELECTs of the trigger function.
Count(c) ==
    /\ pc[c] \in {"count", "sweep-count"}
    /\ counted' = [counted EXCEPT ![c] = RollupOf(View(c))]
    /\ pc' = [pc EXCEPT ![c] = IF @ = "count" THEN "write" ELSE "sweep-write"]
    /\ UNCHANGED <<rows, mine, queued, taskLock, rollup>>

\* Its UPDATE of the tasks row, which waits for the row lock.
Write(c) ==
    /\ pc[c] \in {"write", "sweep-write"}
    /\ taskLock \in {NoSession, c}
    /\ taskLock' = c
    /\ queued' = [queued EXCEPT ![c] = @ - 1]
    /\ pc' = [pc EXCEPT ![c] =
                CASE @ = "write" -> "written"
                  [] @ = "sweep-write" /\ queued[c] > 1 -> "sweep-count"
                  [] @ = "sweep-write" /\ queued[c] = 1 -> "swept"]
    /\ UNCHANGED <<rows, mine, counted, rollup>>

\* The transaction ends: its locks go, and so does what only it knew.
End(c) ==
    /\ mine' = [mine EXCEPT ![c] = <<>>]
    /\ queued' = [queued EXCEPT ![c] = 0]
    /\ counted' = [counted EXCEPT ![c] = "unplanned"]
    /\ pc' = [pc EXCEPT ![c] = "idle"]
    /\ taskLock' = IF taskLock = c THEN NoSession ELSE taskLock

Commit(c) == /\ pc[c] \in {"written", "swept"}
             /\ rows' = View(c)
             /\ rollup' = counted[c]
             /\ End(c)

\* The session is lost before it commits: everything it wrote is undone.
Abort(c) == /\ pc[c] # "idle"
            /\ End(c)
            /\ UNCHANGED <<rows, rollup>>

\* available_at passes.  No trigger runs.
StepComesDue(s) ==
    /\ rows[s].due = "ahead"
    /\ rows' = [rows EXCEPT ![s].due = "reached"]
    /\ UNCHANGED <<mine, pc, queued, counted, taskLock, rollup>>

Step == \/ \E c \in Sessions :
             \/ \E s \in Steps : Take(c, s) \/ EndStep(c, s)
             \/ Sweep(c)
             \/ \E g \in Gates : Satisfy(c, g)
             \/ Count(c) \/ Write(c) \/ Commit(c) \/ Abort(c)
        \/ \E s \in Steps : StepComesDue(s)

RollupNext ==
    /\ Step
    /\ overlapped' = (\/ overlapped
                      \/ Cardinality({c \in Sessions : pc'[c] # "idle"}) > 1)

RollupSpec == RollupInit /\ [][RollupNext]_rollupVars

-----------------------------------------------------------------------------
(* Properties. *)

RollupStatuses == {"unplanned", "failed", "running", "completed", "ready", "waiting"}

\* Rows are well formed; a session that is idle holds no lock.
RollupTypeOK ==
    /\ \A s \in Steps : rows[s] \in StepRow
    /\ \A g \in Gates : rows[g] \in GateRow
    /\ pc \in [Sessions -> {"idle", "count", "write", "written",
                             "sweep-count", "sweep-write", "swept"}]
    /\ queued \in [Sessions -> 0 .. Cardinality(Steps \cup Gates)]
    /\ counted \in [Sessions -> RollupStatuses]
    /\ rollup \in RollupStatuses
    /\ taskLock \in Sessions \cup {NoSession}
    /\ overlapped \in BOOLEAN
    /\ \A c \in Sessions : pc[c] = "idle" => mine[c] = <<>> /\ taskLock # c

\* However transactions interleave, a summary that says the work is over is
\* right: "completed" means every step is, "failed" means one has given up.
\* Both statuses are final, so even an outdated count of them still holds.
TerminalRollupTruthful ==
    /\ rollup = "completed" => In(rows, "completed") = Steps
    /\ rollup = "failed" => In(rows, "failed") # {}

\* Rows as they were when the instant the steps in late wait for was ahead.
Before(view, late) ==
    [r \in Steps \cup Gates |->
        IF r \in late THEN [view[r] EXCEPT !.due = "ahead"] ELSE view[r]]

\* The summary is that of the rows, now or, since no trigger runs when available_at
\* passes, before some of them became due.
Current(view, status) ==
    \E late \in SUBSET {s \in Steps : view[s].due = "reached"} :
        status = RollupOf(Before(view, late))

\* Once every transaction is over the summary is that of the rows.
QuietRollupCurrent ==
    (\A c \in Sessions : pc[c] = "idle") => Current(rows, rollup)

\* As long as transactions come one at a time the triggers keep it so: sweeps of
\* several rows, gates, rolled-back transactions and steps that become due.
SerialRollupCurrent == ~overlapped => QuietRollupCurrent
=============================================================================
