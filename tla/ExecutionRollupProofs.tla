------------------------ MODULE ExecutionRollupProofs -----------------------
(***************************************************************************)
(* What the summary of a task is worth, for any steps, gates and number of *)
(* sessions.                                                               *)
(*                                                                         *)
(* The argument: a step that is completed or failed is never changed       *)
(* again, so nobody holds its row, and a count that found the work over is *)
(* right whatever others commit before it is written.  As long as there is *)
(* one transaction at a time, a count is also that of the rows its         *)
(* transaction commits, up to steps that became due since.                 *)
(***************************************************************************)
EXTENDS ExecutionRollup, FiniteSetTheorems, TLAPS

-----------------------------------------------------------------------------
(* The inductive invariant. *)

Rows == Steps \cup Gates

\* Some of the rows, with the columns a step or a gate has.
AreRows(f) == /\ DOMAIN f \subseteq Rows
              /\ \A s \in DOMAIN f \cap Steps : f[s] \in StepRow
              /\ \A g \in DOMAIN f \cap Gates : f[g] \in GateRow

Shape ==
    /\ AreRows(rows) /\ DOMAIN rows = Rows
    /\ DOMAIN mine = Sessions /\ \A c \in Sessions : AreRows(mine[c])
    /\ pc \in [Sessions -> {"idle", "count", "write", "written",
                             "sweep-count", "sweep-write", "swept"}]
    /\ queued \in [Sessions -> 0 .. Cardinality(Rows)]
    /\ counted \in [Sessions -> RollupStatuses]
    /\ rollup \in RollupStatuses
    /\ taskLock \in Sessions \cup {NoSession}

\* What a session holds, and for how long.
Locks ==
    /\ \A c, d \in Sessions : c # d => DOMAIN mine[c] \cap DOMAIN mine[d] = {}
    /\ \A c \in Sessions :
         /\ pc[c] = "idle" => /\ mine[c] = <<>> /\ taskLock # c
                              /\ counted[c] = "unplanned"
         /\ pc[c] \in {"count", "write", "sweep-count", "sweep-write"} =>
              queued[c] # 0

\* Only a step that is not over is changed.
Unfinished == \A c \in Sessions : \A s \in DOMAIN mine[c] \cap Steps :
                rows[s].status \in {"ready", "running"}

\* The work is over in the view, if the status says so.
Says(view, status) ==
    /\ status = "completed" => \A s \in Steps : view[s].status = "completed"
    /\ status = "failed" => \E s \in Steps : view[s].status = "failed"

Truthful == /\ Says(rows, rollup)
            /\ \A c \in Sessions : Says(View(c), counted[c])

Core == Shape /\ Locks /\ Unfinished /\ Truthful

\* One transaction at a time.
Single == \A c, d \in Sessions : pc[c] # "idle" /\ pc[d] # "idle" => c = d

\* The summary is that of the rows, and the last count of a transaction that of the
\* rows it will commit.
Fresh == /\ Current(rows, rollup)
         /\ \A c \in Sessions :
              pc[c] \in {"write", "sweep-write", "written", "swept"} =>
                Current(View(c), counted[c])

IInv == Core /\ overlapped \in BOOLEAN /\ (~overlapped => Single /\ Fresh)

-----------------------------------------------------------------------------
(* Views and summaries. *)

\* The empty transaction holds nothing.
LEMMA NothingHeld == DOMAIN <<>> = {} /\ AreRows(<<>>)
<1>1. DOMAIN <<>> = {}
  OBVIOUS
<1> QED BY <1>1 DEF AreRows

\* Rows in front of rows.
LEMMA OverFacts ==
  ASSUME NEW f, NEW g, AreRows(f), AreRows(g)
  PROVE  /\ AreRows(Over(f, g)) /\ DOMAIN Over(f, g) = DOMAIN f \cup DOMAIN g
         /\ \A r \in DOMAIN f : Over(f, g)[r] = f[r]
         /\ \A r \in DOMAIN g \ DOMAIN f : Over(f, g)[r] = g[r]
<1> DEFINE h == Over(f, g)
<1>1. h = [r \in DOMAIN f \cup DOMAIN g |-> IF r \in DOMAIN f THEN f[r] ELSE g[r]]
  BY DEF Over
<1> HIDE DEF h
<1>2. /\ DOMAIN h = DOMAIN f \cup DOMAIN g
      /\ \A r \in DOMAIN f : h[r] = f[r]
      /\ \A r \in DOMAIN g \ DOMAIN f : h[r] = g[r]
  BY <1>1
<1>3. AreRows(h)
  BY <1>2 DEF AreRows
<1> QED BY <1>2, <1>3 DEF h

\* What a session reads is all the rows.
LEMMA ViewFacts ==
  ASSUME Shape, NEW c \in Sessions
  PROVE  /\ AreRows(View(c)) /\ DOMAIN View(c) = Rows
         /\ \A r \in DOMAIN mine[c] : View(c)[r] = mine[c][r]
         /\ \A r \in Rows \ DOMAIN mine[c] : View(c)[r] = rows[r]
<1>1. /\ AreRows(mine[c]) /\ AreRows(rows) /\ DOMAIN rows = Rows
      /\ DOMAIN mine[c] \subseteq Rows
  BY DEF Shape, AreRows
<1>2. /\ AreRows(View(c)) /\ DOMAIN View(c) = DOMAIN mine[c] \cup DOMAIN rows
      /\ \A r \in DOMAIN mine[c] : View(c)[r] = mine[c][r]
      /\ \A r \in DOMAIN rows \ DOMAIN mine[c] : View(c)[r] = rows[r]
  <2> DEFINE m == mine[c]
  <2>1. AreRows(m) /\ AreRows(rows)
    BY <1>1
  <2> HIDE DEF m
  <2>2. /\ AreRows(Over(m, rows)) /\ DOMAIN Over(m, rows) = DOMAIN m \cup DOMAIN rows
        /\ \A r \in DOMAIN m : Over(m, rows)[r] = m[r]
        /\ \A r \in DOMAIN rows \ DOMAIN m : Over(m, rows)[r] = rows[r]
    BY <2>1, OverFacts
  <2> QED BY <2>2 DEF View, m
<1>3. DOMAIN mine[c] \cup DOMAIN rows = Rows
  BY <1>1
<1> QED BY <1>1, <1>2, <1>3

\* A summary is one of the statuses, and says the work is over only if it is.
LEMMA RollupFacts ==
  ASSUME NEW view
  PROVE  RollupOf(view) \in RollupStatuses /\ Says(view, RollupOf(view))
<1>1. CASE Steps = {}
  BY <1>1 DEF RollupOf, RollupStatuses, Says
<1>2. CASE Steps # {} /\ In(view, "failed") # {}
  <2>1. RollupOf(view) = "failed"
    BY <1>2 DEF RollupOf
  <2> QED BY <1>2, <2>1 DEF RollupStatuses, Says, In
<1>3. CASE Steps # {} /\ In(view, "failed") = {}
  <2>1. RollupOf(view) =
          IF In(view, "running") # {} THEN "running"
          ELSE IF In(view, "completed") = Steps THEN "completed"
          ELSE IF \E s \in Steps : Startable(view, s) THEN "ready"
          ELSE "waiting"
    BY <1>3 DEF RollupOf
  <2>2. RollupOf(view) = "completed" => In(view, "completed") = Steps
    BY <2>1
  <2>3. RollupOf(view) = "completed" => \A s \in Steps : view[s].status = "completed"
    BY <2>2 DEF In
  <2>4. RollupOf(view) \in {"running", "completed", "ready", "waiting"}
    BY <2>1
  <2> QED BY <2>3, <2>4 DEF RollupStatuses, Says
<1> QED BY <1>1, <1>2, <1>3

\* The summary that is counted now is current.
LEMMA CountedIsCurrent ==
  ASSUME NEW view, view = [r \in Rows |-> view[r]]
  PROVE  Current(view, RollupOf(view))
<1>1. Before(view, {}) = [r \in Rows |-> view[r]]
  BY DEF Before, Rows
<1>2. Before(view, {}) = view
  BY <1>1
<1> QED BY <1>2 DEF Current

\* A summary stays what it was when a step becomes due.
LEMMA DueStaysCurrent ==
  ASSUME NEW view, AreRows(view), DOMAIN view = Rows,
         NEW s \in Steps, view[s].due = "ahead",
         NEW status, Current(view, status)
  PROVE  Current([view EXCEPT ![s].due = "reached"], status)
<1> DEFINE next == [view EXCEPT ![s].due = "reached"]
<1>1. PICK late \in SUBSET {t \in Steps : view[t].due = "reached"} :
        status = RollupOf(Before(view, late))
  BY DEF Current
<1> DEFINE later == late \cup {s}
<1>2. /\ view[s] \in StepRow /\ s \in Rows
      /\ \A r \in Rows : r # s => next[r] = view[r]
      /\ next[s] = [view[s] EXCEPT !.due = "reached"]
  BY DEF AreRows, Rows
<1> HIDE DEF next
<1>3. next[s].due = "reached" /\ [next[s] EXCEPT !.due = "ahead"] = view[s]
  BY <1>2 DEF StepRow
<1>4. later \in SUBSET {t \in Steps : next[t].due = "reached"} /\ s \notin late
  BY <1>1, <1>2, <1>3 DEF Rows
<1>5. \A r \in Rows : (IF r \in later THEN [next[r] EXCEPT !.due = "ahead"] ELSE next[r])
                    = (IF r \in late THEN [view[r] EXCEPT !.due = "ahead"] ELSE view[r])
  BY <1>2, <1>3, <1>4
<1>6. Before(next, later) = Before(view, late)
  BY <1>5 DEF Before, Rows
<1> QED BY <1>1, <1>4, <1>6 DEF Current, next

-----------------------------------------------------------------------------
(* A statement changes rows. *)

\* A session changes rows that are not over and that nobody else holds, and its
\* triggers are still to run.
LEMMA UpdateKeeps ==
  ASSUME Core, NEW c \in Sessions, NEW new, AreRows(new), DOMAIN new # {},
         IsFiniteSet(Rows),
         UpdateRows(c, new), NEW p \in {"count", "sweep-count"}, pc' = [pc EXCEPT ![c] = p],
         \A s \in DOMAIN new \cap Steps : rows[s].status \in {"ready", "running"},
         \/ counted[c] = "unplanned"
         \/ \A s \in Steps : \/ s \notin DOMAIN new
                             \/ View(c)[s].status \notin {"completed", "failed"}
  PROVE  Core' /\ (Fresh => Fresh')
<1> DEFINE m == Over(new, mine[c])
<1>1. /\ mine' = [mine EXCEPT ![c] = m]
      /\ queued' = [queued EXCEPT ![c] = Cardinality(DOMAIN new)]
      /\ rows' = rows /\ counted' = counted /\ taskLock' = taskLock
      /\ rollup' = rollup
      /\ \A d \in Sessions \ {c} : DOMAIN new \cap DOMAIN mine[d] = {}
  BY DEF UpdateRows
<1>2. /\ AreRows(m) /\ DOMAIN m = DOMAIN new \cup DOMAIN mine[c]
      /\ \A r \in DOMAIN new : m[r] = new[r]
      /\ \A r \in DOMAIN mine[c] \ DOMAIN new : m[r] = mine[c][r]
  <2> DEFINE x == mine[c]
  <2>1. AreRows(x)
    BY DEF Core, Shape
  <2> HIDE DEF x
  <2>2. /\ AreRows(Over(new, x)) /\ DOMAIN Over(new, x) = DOMAIN new \cup DOMAIN x
        /\ \A r \in DOMAIN new : Over(new, x)[r] = new[r]
        /\ \A r \in DOMAIN x \ DOMAIN new : Over(new, x)[r] = x[r]
    BY <2>1, OverFacts
  <2> QED BY <2>2 DEF x
<1> HIDE DEF m
<1>3. /\ mine'[c] = m /\ \A d \in Sessions : d # c => mine'[d] = mine[d]
      /\ DOMAIN mine' = Sessions
      /\ pc'[c] = p /\ \A d \in Sessions : d # c => pc'[d] = pc[d]
  BY <1>1 DEF Core, Shape
<1>4. Cardinality(DOMAIN new) \in 1 .. Cardinality(Rows)
  <2>1. DOMAIN new \in SUBSET Rows
    BY DEF AreRows
  <2>2. /\ IsFiniteSet(DOMAIN new) /\ Cardinality(DOMAIN new) <= Cardinality(Rows)
    BY <2>1, FS_Subset
  <2>3. /\ Cardinality(DOMAIN new) \in Nat /\ Cardinality(Rows) \in Nat
        /\ Cardinality(DOMAIN new) # 0
    BY <2>2, FS_CardinalityType, FS_EmptySet
  <2> QED BY <2>2, <2>3
<1>5. Shape'
  <2>1. \A d \in Sessions : AreRows(mine'[d])
    BY <1>2, <1>3 DEF Core, Shape
  <2>2. queued' \in [Sessions -> 0 .. Cardinality(Rows)]
    BY <1>1, <1>4 DEF Core, Shape
  <2>3. AreRows(rows)' /\ DOMAIN rows' = Rows
    BY <1>1 DEF Core, Shape, AreRows
  <2>4. pc' \in [Sessions -> {"idle", "count", "write", "written",
                               "sweep-count", "sweep-write", "swept"}]
    BY DEF Core, Shape
  <2>5. \A d \in Sessions : AreRows(mine[d])'
    BY <2>1 DEF AreRows
  <2> QED BY <1>1, <1>3, <2>2, <2>3, <2>4, <2>5 DEF Core, Shape
<1>6. Locks'
  <2>1. \A d \in Sessions : d # c => DOMAIN mine'[c] \cap DOMAIN mine'[d] = {}
    BY <1>1, <1>2, <1>3 DEF Core, Locks
  <2>2. \A d, e \in Sessions : d # e => DOMAIN mine'[d] \cap DOMAIN mine'[e] = {}
    BY <1>3, <2>1 DEF Core, Locks
  <2>3. /\ queued'[c] # 0 /\ \A d \in Sessions : d # c => queued'[d] = queued[d]
    BY <1>1, <1>4 DEF Core, Shape
  <2> QED BY <1>1, <1>3, <2>2, <2>3 DEF Core, Locks
<1>7. Unfinished'
  <2> SUFFICES ASSUME NEW d \in Sessions, NEW s \in DOMAIN mine'[d] \cap Steps
               PROVE  rows[s].status \in {"ready", "running"}
    BY <1>1 DEF Unfinished
  <2> QED BY <1>2, <1>3 DEF Core, Unfinished
<1>8. \A d \in Sessions : d # c => View(d)' = View(d)
  BY <1>1, <1>3 DEF View, Over
<1>9. ASSUME NEW s \in Steps, s \notin DOMAIN new PROVE View(c)'[s] = View(c)[s]
  <2>1. /\ s \in Rows /\ AreRows(rows) /\ DOMAIN rows = Rows /\ AreRows(mine[c])
    BY DEF Rows, Core, Shape
  <2>2. View(c)' = Over(m, rows)
    BY <1>1, <1>3 DEF View, Over
  <2>3. AreRows(m) /\ AreRows(rows)
    BY <1>2, <2>1
  <2>4. /\ AreRows(Over(m, rows)) /\ DOMAIN Over(m, rows) = DOMAIN m \cup DOMAIN rows
        /\ \A r \in DOMAIN m : Over(m, rows)[r] = m[r]
        /\ \A r \in DOMAIN rows \ DOMAIN m : Over(m, rows)[r] = rows[r]
    BY <2>3, OverFacts
  <2>5. CASE s \in DOMAIN mine[c]
    <3>1. View(c)'[s] = m[s] /\ m[s] = mine[c][s]
      BY <1>2, <1>9, <2>2, <2>4, <2>5
    <3>2. View(c)[s] = mine[c][s]
      BY <2>5, ViewFacts DEF Core
    <3> QED BY <3>1, <3>2
  <2>6. CASE s \notin DOMAIN mine[c]
    <3>1. View(c)'[s] = rows[s]
      BY <1>2, <1>9, <2>1, <2>2, <2>4, <2>6
    <3>2. View(c)[s] = rows[s]
      BY <2>1, <2>6, ViewFacts DEF Core
    <3> QED BY <3>1, <3>2
  <2> QED BY <2>5, <2>6
<1>10. Says(View(c), counted[c])'
  <2>1. Says(View(c), counted[c])
    BY DEF Core, Truthful
  <2>2. CASE counted[c] = "unplanned"
    BY <1>1, <2>2 DEF Says
  <2>3. CASE \A s \in Steps : \/ s \notin DOMAIN new
                              \/ View(c)[s].status \notin {"completed", "failed"}
    BY <1>1, <1>9, <2>1, <2>3 DEF Says
  <2> QED BY <2>2, <2>3
<1>11. Truthful'
  <2>1. ASSUME NEW d \in Sessions PROVE Says(View(d), counted[d])'
    BY <1>1, <1>8, <1>10 DEF Core, Truthful, Says
  <2>2. Says(rows, rollup)'
    BY <1>1 DEF Core, Truthful, Says
  <2> QED BY <2>1, <2>2 DEF Truthful
<1>12. ASSUME Fresh PROVE Fresh'
  <2>1. Current(rows, rollup)'
    BY <1>1, <1>12 DEF Fresh
  <2>2. ASSUME NEW d \in Sessions,
               pc'[d] \in {"write", "sweep-write", "written", "swept"}
        PROVE  Current(View(d), counted[d])'
    BY <1>1, <1>3, <1>8, <1>12, <2>2 DEF Fresh
  <2> QED BY <2>1, <2>2 DEF Fresh
<1> QED BY <1>5, <1>6, <1>7, <1>11, <1>12 DEF Core

\* A row of its own.
LEMMA OneRow ==
  ASSUME NEW r \in Rows, NEW row, r \in Steps => row \in StepRow,
         r \in Gates => row \in GateRow
  PROVE  AreRows([x \in {r} |-> row]) /\ DOMAIN [x \in {r} |-> row] = {r}
BY DEF AreRows

\* Taking a step, giving back those of lost sessions, ending one, satisfying a gate.
LEMMA ChangesKeep ==
  ASSUME Core, NEW c \in Sessions,
         \/ \E s \in Steps : Take(c, s) \/ EndStep(c, s)
         \/ Sweep(c)
         \/ \E g \in Gates : Satisfy(c, g)
  PROVE  Core' /\ (Fresh => Fresh')
<1>1. /\ IsFiniteSet(Rows) /\ Steps \cap Gates = {}
      /\ \A s \in Steps : s \in Rows /\ rows[s] \in StepRow
      /\ pc[c] = "idle" => counted[c] = "unplanned"
  BY RollupAssumption DEF Rows, Core, Shape, AreRows, Locks
<1>2. ASSUME NEW s \in Steps, Take(c, s) PROVE Core' /\ (Fresh => Fresh')
  <2> DEFINE new == [r \in {s} |-> [status |-> "running", due |-> "now"]]
  <2>1. /\ View(c)[s].status = "ready" /\ pc' = [pc EXCEPT ![c] = "count"]
        /\ UpdateRows(c, new)
    BY <1>2 DEF Take, Startable
  <2>2. AreRows(new) /\ DOMAIN new = {s}
    BY <1>1, OneRow DEF StepRow
  <2> HIDE DEF new
  <2>3. rows[s].status \in {"ready", "running"}
    <3>1. CASE s \in DOMAIN mine[c]
      BY <3>1 DEF Core, Unfinished
    <3>2. CASE s \notin DOMAIN mine[c]
      <4>1. View(c)[s] = rows[s]
        BY <1>1, <3>2, ViewFacts DEF Core
      <4> QED BY <2>1, <4>1
    <3> QED BY <3>1, <3>2
  <2>4. \A t \in Steps : \/ t \notin DOMAIN new
                         \/ View(c)[t].status \notin {"completed", "failed"}
    BY <2>1, <2>2
  <2>5. \A t \in DOMAIN new \cap Steps : rows[t].status \in {"ready", "running"}
    BY <2>2, <2>3
  <2>6. DOMAIN new # {}
    BY <2>2
  <2> QED BY <1>1, <2>1, <2>2, <2>4, <2>5, <2>6, UpdateKeeps
<1>3. ASSUME NEW s \in Steps, EndStep(c, s) PROVE Core' /\ (Fresh => Fresh')
  <2>1. PICK row \in StepRow : UpdateRows(c, [r \in {s} |-> row])
    BY <1>3 DEF EndStep
  <2> DEFINE new == [r \in {s} |-> row]
  <2>2. AreRows(new) /\ DOMAIN new = {s}
    BY <1>1, OneRow
  <2>3. UpdateRows(c, new)
    BY <2>1
  <2> HIDE DEF new
  <2>4. /\ rows[s].status = "running" /\ pc' = [pc EXCEPT ![c] = "count"]
        /\ counted[c] = "unplanned"
    BY <1>1, <1>3 DEF EndStep
  <2>5. /\ DOMAIN new # {}
        /\ \A t \in DOMAIN new \cap Steps : rows[t].status \in {"ready", "running"}
    BY <2>2, <2>4
  <2> QED BY <1>1, <2>2, <2>3, <2>4, <2>5, UpdateKeeps
<1>4. ASSUME Sweep(c) PROVE Core' /\ (Fresh => Fresh')
  <2>1. PICK lost \in (SUBSET In(rows, "running")) \ {{}} :
          \E status \in [lost -> {"ready", "failed"}] :
            UpdateRows(c, [s \in lost |-> [status |-> status[s], due |-> "now"]])
    BY <1>4 DEF Sweep
  <2>2. PICK status \in [lost -> {"ready", "failed"}] :
          UpdateRows(c, [s \in lost |-> [status |-> status[s], due |-> "now"]])
    BY <2>1
  <2> DEFINE new == [s \in lost |-> [status |-> status[s], due |-> "now"]]
  <2>3. lost # {} /\ lost \subseteq Steps /\ \A s \in lost : rows[s].status = "running"
    BY DEF In
  <2>4. \A s \in lost : [status |-> status[s], due |-> "now"] \in StepRow
    <3>1. \A s \in lost : status[s] \in {"ready", "failed"}
      OBVIOUS
    <3> QED BY <3>1 DEF StepRow
  <2>5. DOMAIN new = lost /\ \A s \in lost : new[s] \in StepRow
    BY <2>4
  <2>6. UpdateRows(c, new)
    BY <2>2
  <2> HIDE DEF new
  <2>7. AreRows(new)
    BY <1>1, <2>3, <2>5 DEF AreRows, Rows
  <2>8. /\ pc' = [pc EXCEPT ![c] = "sweep-count"] /\ counted[c] = "unplanned"
    BY <1>1, <1>4 DEF Sweep
  <2>9. /\ DOMAIN new # {}
        /\ \A t \in DOMAIN new \cap Steps : rows[t].status \in {"ready", "running"}
    BY <2>3, <2>5
  <2> QED BY <1>1, <2>6, <2>7, <2>8, <2>9, UpdateKeeps
<1>5. ASSUME NEW g \in Gates, Satisfy(c, g) PROVE Core' /\ (Fresh => Fresh')
  <2> DEFINE new == [r \in {g} |-> [status |-> "satisfied", due |-> "now"]]
  <2>1. /\ UpdateRows(c, new) /\ pc' = [pc EXCEPT ![c] = "count"]
        /\ counted[c] = "unplanned"
    BY <1>1, <1>5 DEF Satisfy
  <2>2. AreRows(new) /\ DOMAIN new = {g}
    BY <1>1, OneRow DEF GateRow, Rows
  <2> HIDE DEF new
  <2>3. DOMAIN new # {} /\ DOMAIN new \cap Steps = {}
    BY <1>1, <2>2
  <2> QED BY <1>1, <2>1, <2>2, <2>3, UpdateKeeps
<1> QED BY <1>2, <1>3, <1>4, <1>5

-----------------------------------------------------------------------------
(* The trigger counts and writes. *)

\* What a session reads is a function on the rows.
LEMMA ViewIsRows ==
  ASSUME Shape, NEW c \in Sessions
  PROVE  View(c) = [r \in Rows |-> View(c)[r]]
<1>1. DOMAIN View(c) = Rows
  BY ViewFacts
<1>2. View(c) = [r \in DOMAIN mine[c] \cup DOMAIN rows |->
                   IF r \in DOMAIN mine[c] THEN mine[c][r] ELSE rows[r]]
  BY DEF View, Over
<1> QED BY <1>1, <1>2

\* A count is one of what the session reads.
LEMMA CountKeeps ==
  ASSUME Core, NEW c \in Sessions, Count(c)
  PROVE  Core' /\ (Fresh => Fresh')
<1> DEFINE v == View(c)
<1>1. /\ RollupOf(v) \in RollupStatuses /\ Says(v, RollupOf(v)) /\ Current(v, RollupOf(v))
  BY RollupFacts, CountedIsCurrent, ViewIsRows DEF Core
<1> HIDE DEF v
<1>2. /\ rows' = rows /\ mine' = mine /\ queued' = queued /\ taskLock' = taskLock
      /\ rollup' = rollup
      /\ counted' = [counted EXCEPT ![c] = RollupOf(v)]
      /\ pc[c] \in {"count", "sweep-count"}
      /\ pc' = [pc EXCEPT ![c] = IF @ = "count" THEN "write" ELSE "sweep-write"]
  BY DEF Count, v
<1>3. /\ counted'[c] = RollupOf(v) /\ pc'[c] \in {"write", "sweep-write"}
      /\ \A d \in Sessions : d # c => counted'[d] = counted[d] /\ pc'[d] = pc[d]
  BY <1>2 DEF Core, Shape
<1>4. \A d \in Sessions : View(d)' = View(d)
  BY <1>2 DEF View, Over
<1>5. Shape'
  <2>1. counted' \in [Sessions -> RollupStatuses]
    BY <1>1, <1>2 DEF Core, Shape
  <2>2. pc' \in [Sessions -> {"idle", "count", "write", "written",
                               "sweep-count", "sweep-write", "swept"}]
    BY <1>2 DEF Core, Shape
  <2> QED BY <1>2, <2>1, <2>2 DEF Core, Shape, AreRows
<1>6. Locks'
  BY <1>2, <1>3 DEF Core, Locks
<1>7. Unfinished'
  BY <1>2 DEF Core, Unfinished
<1>8. Truthful'
  BY <1>1, <1>2, <1>3, <1>4 DEF Core, Truthful, Says, v
<1>9. ASSUME Fresh PROVE Fresh'
  <2>1. Current(rows, rollup)'
    BY <1>2, <1>9 DEF Fresh
  <2>2. ASSUME NEW d \in Sessions,
               pc'[d] \in {"write", "sweep-write", "written", "swept"}
        PROVE  Current(View(d), counted[d])'
    BY <1>1, <1>3, <1>4, <1>9, <2>2 DEF Fresh, v
  <2> QED BY <2>1, <2>2 DEF Fresh
<1> QED BY <1>5, <1>6, <1>7, <1>8, <1>9 DEF Core

\* The row of the task is written with the last count.
LEMMA WriteKeeps ==
  ASSUME Core, NEW c \in Sessions, Write(c)
  PROVE  Core' /\ (Fresh => Fresh')
<1>1. /\ rows' = rows /\ mine' = mine /\ counted' = counted /\ rollup' = rollup
      /\ taskLock' = c /\ queued' = [queued EXCEPT ![c] = @ - 1]
      /\ pc[c] \in {"write", "sweep-write"}
      /\ pc' = [pc EXCEPT ![c] =
                  CASE @ = "write" -> "written"
                    [] @ = "sweep-write" /\ queued[c] > 1 -> "sweep-count"
                    [] @ = "sweep-write" /\ queued[c] = 1 -> "swept"]
  BY DEF Write
<1>2. queued[c] \in Nat /\ queued[c] # 0 /\ Cardinality(Rows) \in Nat
  <2>1. queued[c] \in 0 .. Cardinality(Rows) /\ queued[c] # 0
    BY <1>1 DEF Core, Shape, Locks
  <2>2. Cardinality(Rows) \in Nat
    BY RollupAssumption, FS_CardinalityType DEF Rows
  <2> QED BY <2>1, <2>2
<1>3. /\ queued'[c] = queued[c] - 1
      /\ \A d \in Sessions : d # c => queued'[d] = queued[d] /\ pc'[d] = pc[d]
  BY <1>1 DEF Core, Shape
<1>4. \/ pc'[c] \in {"written", "swept"}
      \/ pc'[c] = "sweep-count" /\ queued[c] > 1
  <2>1. pc'[c] = CASE pc[c] = "write" -> "written"
                   [] pc[c] = "sweep-write" /\ queued[c] > 1 -> "sweep-count"
                   [] pc[c] = "sweep-write" /\ queued[c] = 1 -> "swept"
    BY <1>1 DEF Core, Shape
  <2>2. CASE pc[c] = "write"
    BY <2>1, <2>2
  <2>3. CASE pc[c] = "sweep-write" /\ queued[c] > 1
    BY <2>1, <2>3
  <2>4. CASE pc[c] = "sweep-write" /\ queued[c] = 1
    BY <2>1, <2>4
  <2> QED BY <1>1, <1>2, <2>2, <2>3, <2>4
<1>5. \A d \in Sessions : View(d)' = View(d)
  BY <1>1 DEF View, Over
<1>6. Shape'
  <2>1. pc' \in [Sessions -> {"idle", "count", "write", "written",
                               "sweep-count", "sweep-write", "swept"}]
    <3> DEFINE x == CASE pc[c] = "write" -> "written"
                      [] pc[c] = "sweep-write" /\ queued[c] > 1 -> "sweep-count"
                      [] pc[c] = "sweep-write" /\ queued[c] = 1 -> "swept"
    <3>1. pc' = [pc EXCEPT ![c] = x]
      BY <1>1
    <3> HIDE DEF x
    <3>2. x \in {"written", "swept", "sweep-count"}
      BY <1>4, <3>1 DEF Core, Shape
    <3> QED BY <3>1, <3>2 DEF Core, Shape
  <2>2. queued' \in [Sessions -> 0 .. Cardinality(Rows)]
    <3>1. queued \in [Sessions -> 0 .. Cardinality(Rows)]
      BY DEF Core, Shape
    <3>2. queued[c] - 1 \in 0 .. Cardinality(Rows)
      BY <1>2, <3>1
    <3> QED BY <1>1, <3>1, <3>2
  <2> QED BY <1>1, <2>1, <2>2 DEF Core, Shape, AreRows
<1>7. Locks'
  <2>1. /\ pc'[c] # "idle"
        /\ pc'[c] \in {"count", "write", "sweep-count", "sweep-write"} =>
             queued'[c] # 0
    BY <1>2, <1>3, <1>4
  <2> QED BY <1>1, <1>3, <2>1 DEF Core, Locks
<1>8. Unfinished'
  BY <1>1 DEF Core, Unfinished
<1>9. Truthful'
  BY <1>1, <1>5 DEF Core, Truthful, Says
<1>10. ASSUME Fresh PROVE Fresh'
  <2>1. Current(rows, rollup)'
    BY <1>1, <1>10 DEF Fresh
  <2>2. ASSUME NEW d \in Sessions,
               pc'[d] \in {"write", "sweep-write", "written", "swept"}
        PROVE  Current(View(d), counted[d])'
    <3>1. pc[d] \in {"write", "sweep-write", "written", "swept"}
      BY <1>1, <1>3, <2>2
    <3> QED BY <1>1, <1>5, <1>10, <3>1 DEF Fresh
  <2> QED BY <2>1, <2>2 DEF Fresh
<1> QED BY <1>6, <1>7, <1>8, <1>9, <1>10 DEF Core

-----------------------------------------------------------------------------
(* Transactions end. *)

\* What a session had not committed is gone; the others keep what they hold.
LEMMA EndFacts ==
  ASSUME Core, NEW c \in Sessions, pc[c] # "idle", End(c)
  PROVE  /\ mine'[c] = <<>> /\ counted'[c] = "unplanned" /\ pc'[c] = "idle"
         /\ taskLock' # c
         /\ \A d \in Sessions : d # c =>
              /\ mine'[d] = mine[d] /\ counted'[d] = counted[d] /\ pc'[d] = pc[d]
              /\ queued'[d] = queued[d]
         /\ DOMAIN mine' = Sessions /\ \A d \in Sessions : AreRows(mine'[d])
         /\ pc' \in [Sessions -> {"idle", "count", "write", "written",
                                   "sweep-count", "sweep-write", "swept"}]
         /\ queued' \in [Sessions -> 0 .. Cardinality(Rows)]
         /\ counted' \in [Sessions -> RollupStatuses]
         /\ taskLock' \in Sessions \cup {NoSession}
         /\ Locks'
<1>1. /\ mine' = [mine EXCEPT ![c] = <<>>]
      /\ queued' = [queued EXCEPT ![c] = 0]
      /\ counted' = [counted EXCEPT ![c] = "unplanned"]
      /\ pc' = [pc EXCEPT ![c] = "idle"]
      /\ taskLock' = IF taskLock = c THEN NoSession ELSE taskLock
  BY DEF End
<1>2. Cardinality(Rows) \in Nat /\ NoSession \notin Sessions
  BY RollupAssumption, FS_CardinalityType DEF Rows
<1>3. /\ mine'[c] = <<>> /\ counted'[c] = "unplanned" /\ pc'[c] = "idle"
      /\ taskLock' # c
      /\ \A d \in Sessions : d # c =>
           /\ mine'[d] = mine[d] /\ counted'[d] = counted[d] /\ pc'[d] = pc[d]
           /\ queued'[d] = queued[d]
      /\ DOMAIN mine' = Sessions
  BY <1>1, <1>2 DEF Core, Shape
<1>4. \A d \in Sessions : AreRows(mine'[d])
  BY <1>3, NothingHeld DEF Core, Shape
<1>5. pc' \in [Sessions -> {"idle", "count", "write", "written",
                             "sweep-count", "sweep-write", "swept"}]
  BY <1>1 DEF Core, Shape
<1>6. queued' \in [Sessions -> 0 .. Cardinality(Rows)]
  BY <1>1, <1>2 DEF Core, Shape
<1>7. counted' \in [Sessions -> RollupStatuses]
  BY <1>1 DEF Core, Shape, RollupStatuses
<1>8. taskLock' \in Sessions \cup {NoSession}
  BY <1>1 DEF Core, Shape
<1>9. Locks'
  <2>1. \A d, e \in Sessions : d # e => DOMAIN mine'[d] \cap DOMAIN mine'[e] = {}
    BY <1>3, NothingHeld DEF Core, Locks
  <2>2. \A d \in Sessions : pc'[d] = "idle" => taskLock' # d
    BY <1>1, <1>2, <1>3 DEF Core, Locks
  <2>3. \A d \in Sessions :
          /\ pc'[d] = "idle" => mine'[d] = <<>> /\ counted'[d] = "unplanned"
          /\ pc'[d] \in {"count", "write", "sweep-count", "sweep-write"} =>
               queued'[d] # 0
    BY <1>3 DEF Core, Locks
  <2> QED BY <2>1, <2>2, <2>3 DEF Locks
<1> QED BY <1>3, <1>4, <1>5, <1>6, <1>7, <1>8, <1>9

\* A commit publishes rows and a summary that agree on whether the work is over.
LEMMA CommitKeeps ==
  ASSUME Core, NEW c \in Sessions, Commit(c)
  PROVE  Core' /\ (Fresh /\ Single => Fresh')
<1> DEFINE v == View(c)
<1>1. /\ rows' = v /\ rollup' = counted[c] /\ End(c) /\ pc[c] \in {"written", "swept"}
  BY DEF Commit
<1>2. /\ AreRows(v) /\ DOMAIN v = Rows /\ Says(v, counted[c])
      /\ \A r \in DOMAIN mine[c] : v[r] = mine[c][r]
      /\ \A r \in Rows \ DOMAIN mine[c] : v[r] = rows[r]
  BY ViewFacts DEF Core, Truthful
<1> HIDE DEF v
<1>3. /\ mine'[c] = <<>> /\ counted'[c] = "unplanned" /\ pc'[c] = "idle"
      /\ \A d \in Sessions : d # c =>
           /\ mine'[d] = mine[d] /\ counted'[d] = counted[d] /\ pc'[d] = pc[d]
  BY <1>1, EndFacts
<1>4. Shape' /\ Locks'
  <2>1. /\ DOMAIN mine' = Sessions /\ \A d \in Sessions : AreRows(mine'[d])
        /\ pc' \in [Sessions -> {"idle", "count", "write", "written",
                                  "sweep-count", "sweep-write", "swept"}]
        /\ queued' \in [Sessions -> 0 .. Cardinality(Rows)]
        /\ counted' \in [Sessions -> RollupStatuses]
        /\ taskLock' \in Sessions \cup {NoSession}
        /\ Locks'
    BY <1>1, EndFacts
  <2>2. AreRows(rows)' /\ DOMAIN rows' = Rows
    BY <1>1, <1>2 DEF AreRows
  <2>3. rollup' \in RollupStatuses
    BY <1>1 DEF Core, Shape
  <2>4. \A d \in Sessions : AreRows(mine[d])'
    BY <2>1 DEF AreRows
  <2> QED BY <2>1, <2>2, <2>3, <2>4 DEF Shape
<1>5. \A d \in Sessions : \A s \in DOMAIN mine'[d] \cap Steps :
        d # c /\ rows'[s] = rows[s]
  <2> SUFFICES ASSUME NEW d \in Sessions, NEW s \in DOMAIN mine'[d] \cap Steps
               PROVE  d # c /\ rows'[s] = rows[s]
    OBVIOUS
  <2>1. d # c
    BY <1>3, NothingHeld
  <2>2. s \notin DOMAIN mine[c] /\ s \in Rows
    BY <1>3, <2>1 DEF Core, Locks, Rows
  <2> QED BY <1>1, <1>2, <2>1, <2>2
<1>6. Unfinished'
  <2> SUFFICES ASSUME NEW d \in Sessions, NEW s \in DOMAIN mine'[d] \cap Steps
               PROVE  rows'[s].status \in {"ready", "running"}
    BY DEF Unfinished
  <2> QED BY <1>3, <1>5 DEF Core, Unfinished
<1>7. \A s \in Steps : rows[s].status \in {"completed", "failed"} =>
                         rows'[s] = rows[s]
  <2> SUFFICES ASSUME NEW s \in Steps, rows[s].status \in {"completed", "failed"}
               PROVE  rows'[s] = rows[s]
    OBVIOUS
  <2>1. s \notin DOMAIN mine[c] /\ s \in Rows
    BY DEF Core, Unfinished, Rows
  <2> QED BY <1>1, <1>2, <2>1
<1>8. ASSUME NEW d \in Sessions PROVE Says(View(d), counted[d])'
  <2>1. CASE d = c
    BY <1>3, <2>1 DEF Says
  <2>2. CASE d # c
    <3>1. ASSUME NEW s \in Steps, View(d)[s].status \in {"completed", "failed"}
          PROVE  View(d)'[s] = View(d)[s]
      <4>1. /\ s \in Rows /\ mine'[d] = mine[d] /\ DOMAIN rows = Rows
            /\ DOMAIN rows' = Rows
        BY <1>1, <1>2, <1>3, <2>2 DEF Rows, Core, Shape
      <4>2. /\ View(d) = [r \in DOMAIN mine[d] \cup Rows |->
                            IF r \in DOMAIN mine[d] THEN mine[d][r] ELSE rows[r]]
            /\ View(d)' = [r \in DOMAIN mine[d] \cup Rows |->
                            IF r \in DOMAIN mine[d] THEN mine[d][r] ELSE rows'[r]]
        BY <4>1 DEF View, Over
      <4>3. CASE s \in DOMAIN mine[d]
        BY <4>1, <4>2, <4>3
      <4>4. CASE s \notin DOMAIN mine[d]
        BY <1>7, <3>1, <4>1, <4>2, <4>4
      <4> QED BY <4>3, <4>4
    <3>2. Says(View(d), counted[d]) /\ counted'[d] = counted[d]
      BY <1>3, <2>2 DEF Core, Truthful
    <3> QED BY <3>1, <3>2 DEF Says
  <2> QED BY <2>1, <2>2
<1>9. Truthful'
  BY <1>1, <1>2, <1>8 DEF Truthful, Says
<1>10. ASSUME Fresh, Single PROVE Fresh'
  <2>1. Current(rows, rollup)'
    BY <1>1, <1>10 DEF Fresh, Current, v
  <2>2. \A d \in Sessions : pc'[d] = "idle"
    BY <1>1, <1>3, <1>10 DEF Single
  <2> QED BY <2>1, <2>2 DEF Fresh
<1> QED BY <1>4, <1>6, <1>9, <1>10 DEF Core

\* A lost session takes what it had not committed with it.
LEMMA AbortKeeps ==
  ASSUME Core, NEW c \in Sessions, Abort(c)
  PROVE  Core' /\ (Fresh /\ Single => Fresh')
<1>1. /\ rows' = rows /\ rollup' = rollup /\ End(c) /\ pc[c] # "idle"
  BY DEF Abort
<1>2. /\ mine'[c] = <<>> /\ counted'[c] = "unplanned" /\ pc'[c] = "idle"
      /\ \A d \in Sessions : d # c =>
           /\ mine'[d] = mine[d] /\ counted'[d] = counted[d] /\ pc'[d] = pc[d]
  BY <1>1, EndFacts
<1>3. Shape' /\ Locks'
  <2>1. /\ DOMAIN mine' = Sessions /\ \A d \in Sessions : AreRows(mine'[d])
        /\ pc' \in [Sessions -> {"idle", "count", "write", "written",
                                  "sweep-count", "sweep-write", "swept"}]
        /\ queued' \in [Sessions -> 0 .. Cardinality(Rows)]
        /\ counted' \in [Sessions -> RollupStatuses]
        /\ taskLock' \in Sessions \cup {NoSession}
        /\ Locks'
    BY <1>1, EndFacts
  <2>2. AreRows(rows)' /\ DOMAIN rows' = Rows /\ rollup' \in RollupStatuses
    BY <1>1 DEF Core, Shape, AreRows
  <2>3. \A d \in Sessions : AreRows(mine[d])'
    BY <2>1 DEF AreRows
  <2> QED BY <2>1, <2>2, <2>3 DEF Shape
<1>4. Unfinished'
  <2> SUFFICES ASSUME NEW d \in Sessions, NEW s \in DOMAIN mine'[d] \cap Steps
               PROVE  rows'[s].status \in {"ready", "running"}
    BY DEF Unfinished
  <2>1. d # c
    BY <1>2, NothingHeld
  <2> QED BY <1>1, <1>2, <2>1 DEF Core, Unfinished
<1>5. Truthful'
  <2>1. ASSUME NEW d \in Sessions PROVE Says(View(d), counted[d])'
    <3>1. CASE d = c
      BY <1>2, <3>1 DEF Says
    <3>2. CASE d # c
      <4>1. View(d)' = View(d) /\ counted'[d] = counted[d]
        BY <1>1, <1>2, <3>2 DEF View, Over
      <4> QED BY <4>1 DEF Core, Truthful, Says
    <3> QED BY <3>1, <3>2
  <2> QED BY <1>1, <2>1 DEF Core, Truthful, Says
<1>6. ASSUME Fresh, Single PROVE Fresh'
  <2>1. Current(rows, rollup)'
    BY <1>1, <1>6 DEF Fresh, Current
  <2>2. \A d \in Sessions : pc'[d] = "idle"
    BY <1>1, <1>2, <1>6 DEF Single
  <2> QED BY <2>1, <2>2 DEF Fresh
<1> QED BY <1>3, <1>4, <1>5, <1>6 DEF Core

-----------------------------------------------------------------------------
(* Time passes. *)

\* A row that becomes due is a row still, of the same status.
LEMMA DueFacts ==
  ASSUME NEW view, AreRows(view), DOMAIN view = Rows,
         NEW s \in Steps, view[s].due = "ahead"
  PROVE  LET next == [view EXCEPT ![s].due = "reached"]
         IN  /\ AreRows(next) /\ DOMAIN next = Rows
             /\ \A t \in Steps : next[t].status = view[t].status
             /\ \A r \in Rows : r # s => next[r] = view[r]
<1> DEFINE next == [view EXCEPT ![s].due = "reached"]
<1>1. /\ s \in Rows /\ view[s] \in StepRow /\ s \notin Gates
  BY RollupAssumption DEF AreRows, Rows
<1>2. /\ next[s] \in StepRow /\ next[s].status = view[s].status
  BY <1>1 DEF StepRow
<1>3. DOMAIN next = Rows /\ \A r \in Rows : r # s => next[r] = view[r]
  BY <1>1
<1> HIDE DEF next
<1>4. AreRows(next)
  BY <1>1, <1>2, <1>3 DEF AreRows
<1>5. \A t \in Steps : next[t].status = view[t].status
  BY <1>2, <1>3 DEF Rows
<1> QED BY <1>3, <1>4, <1>5 DEF next

\* No status changes when a step becomes due.
LEMMA BecomeDueKeeps ==
  ASSUME Core, NEW s \in Steps, StepComesDue(s)
  PROVE  Core' /\ (Fresh => Fresh')
<1>1. /\ rows[s].due = "ahead" /\ rows' = [rows EXCEPT ![s].due = "reached"]
      /\ mine' = mine /\ pc' = pc /\ queued' = queued /\ counted' = counted
      /\ taskLock' = taskLock /\ rollup' = rollup
  BY DEF StepComesDue
<1>2. /\ AreRows(rows') /\ DOMAIN rows' = Rows /\ DOMAIN rows = Rows /\ s \in Rows
      /\ \A t \in Steps : rows'[t].status = rows[t].status
      /\ \A r \in Rows : r # s => rows'[r] = rows[r]
  BY <1>1, DueFacts DEF Core, Shape, Rows
<1>3. ASSUME NEW d \in Sessions
      PROVE  /\ \A t \in Steps : View(d)'[t].status = View(d)[t].status
             /\ \A status \in RollupStatuses :
                  Current(View(d), status) => Current(View(d)', status)
  <2> DEFINE v == View(d)
             w == View(d)'
  <2>1. /\ v = [r \in DOMAIN mine[d] \cup Rows |->
                  IF r \in DOMAIN mine[d] THEN mine[d][r] ELSE rows[r]]
        /\ w = [r \in DOMAIN mine[d] \cup Rows |->
                  IF r \in DOMAIN mine[d] THEN mine[d][r] ELSE rows'[r]]
    BY <1>1, <1>2 DEF View, Over
  <2>2. AreRows(v) /\ DOMAIN v = Rows /\ DOMAIN mine[d] \subseteq Rows
    BY ViewFacts DEF Core, Shape, AreRows
  <2> HIDE DEF v, w
  <2>3. CASE s \in DOMAIN mine[d]
    <3>1. w = v
      BY <1>2, <2>1, <2>2, <2>3
    <3> QED BY <3>1 DEF v, w
  <2>4. CASE s \notin DOMAIN mine[d]
    <3>1. v[s] = rows[s]
      BY <1>2, <2>1, <2>4
    <3>2. w = [v EXCEPT ![s].due = "reached"]
      BY <1>1, <1>2, <2>1, <2>2, <2>4, <3>1
    <3>3. \A t \in Steps : w[t].status = v[t].status
      BY <1>1, <2>2, <3>1, <3>2, DueFacts
    <3>4. \A status \in RollupStatuses : Current(v, status) => Current(w, status)
      BY <1>1, <2>2, <3>1, <3>2, DueStaysCurrent
    <3> QED BY <3>3, <3>4 DEF v, w
  <2> QED BY <2>3, <2>4
<1>4. Shape'
  BY <1>1, <1>2 DEF Core, Shape, AreRows
<1>5. Locks'
  BY <1>1 DEF Core, Locks
<1>6. Unfinished'
  BY <1>1, <1>2 DEF Core, Unfinished
<1>7. Truthful'
  <2>1. ASSUME NEW d \in Sessions PROVE Says(View(d), counted[d])'
    BY <1>1, <1>3 DEF Core, Truthful, Says
  <2>2. Says(rows, rollup)'
    BY <1>1, <1>2 DEF Core, Truthful, Says
  <2> QED BY <2>1, <2>2 DEF Truthful
<1>8. ASSUME Fresh PROVE Fresh'
  <2>1. Current(rows', rollup)
    BY <1>1, <1>8, DueStaysCurrent DEF Fresh, Core, Shape
  <2>2. ASSUME NEW d \in Sessions,
               pc'[d] \in {"write", "sweep-write", "written", "swept"}
        PROVE  Current(View(d)', counted[d])
    <3>1. Current(View(d), counted[d]) /\ counted[d] \in RollupStatuses
      BY <1>1, <1>8, <2>2 DEF Fresh, Core, Shape
    <3> QED BY <1>3, <3>1
  <2>3. Current(rows, rollup)'
    BY <1>1, <2>1 DEF Current
  <2>4. ASSUME NEW d \in Sessions,
               pc'[d] \in {"write", "sweep-write", "written", "swept"}
        PROVE  Current(View(d), counted[d])'
    BY <1>1, <2>2, <2>4 DEF Current
  <2> QED BY <2>3, <2>4 DEF Fresh
<1> QED BY <1>4, <1>5, <1>6, <1>7, <1>8 DEF Core

-----------------------------------------------------------------------------
(* The invariant. *)

\* Before two transactions have been open at once there is at most one.
LEMMA OneAtATime ==
  ASSUME RollupNext, Shape', ~overlapped'
  PROVE  ~overlapped /\ Single'
<1> DEFINE Open == {c \in Sessions : pc'[c] # "idle"}
<1>1. ~overlapped /\ ~(Cardinality(Open) > 1)
  BY DEF RollupNext
<1>2. IsFiniteSet(Open) /\ Cardinality(Open) \in Nat
  BY RollupAssumption, FS_Subset, FS_CardinalityType
<1>3. ASSUME NEW c \in Open, NEW d \in Open, c # d PROVE FALSE
  <2>1. {c, d} \in SUBSET Open
    OBVIOUS
  <2>2. Cardinality({c, d}) <= Cardinality(Open)
    BY <1>2, <2>1, FS_Subset
  <2>3. /\ IsFiniteSet({c}) /\ Cardinality({c}) = 1 /\ d \notin {c}
    BY <1>3, FS_Singleton
  <2>4. Cardinality({c} \cup {d}) = Cardinality({c}) + 1
    BY <2>3, FS_AddElement
  <2>5. {c} \cup {d} = {c, d}
    OBVIOUS
  <2>6. Cardinality({c, d}) = 2
    BY <2>3, <2>4, <2>5
  <2> QED BY <1>1, <1>2, <2>2, <2>6
<1>4. Single'
  BY <1>3 DEF Single
<1> QED BY <1>1, <1>4

\* Nothing has been counted.
LEMMA Initially == RollupInit => IInv
<1> SUFFICES ASSUME RollupInit PROVE IInv
  OBVIOUS
<1>1. PICK due \in [Steps -> {"now", "ahead"}] :
        rows = [r \in Rows |-> IF r \in Steps THEN [status |-> "ready", due |-> due[r]]
                               ELSE [status |-> "pending", due |-> "now"]]
  BY DEF RollupInit, Rows
<1>2. /\ mine = [c \in Sessions |-> <<>>] /\ pc = [c \in Sessions |-> "idle"]
      /\ queued = [c \in Sessions |-> 0]
      /\ counted = [c \in Sessions |-> "unplanned"]
      /\ taskLock = NoSession /\ rollup = RollupOf(rows) /\ overlapped = FALSE
  BY DEF RollupInit
<1>3. /\ Steps \cap Gates = {} /\ NoSession \notin Sessions
      /\ Cardinality(Rows) \in Nat
  BY RollupAssumption, FS_CardinalityType DEF Rows
<1>4. DOMAIN rows = Rows /\ AreRows(rows) /\ rows = [r \in Rows |-> rows[r]]
  BY <1>1, <1>3 DEF AreRows, StepRow, GateRow, Rows
<1>5. /\ rollup \in RollupStatuses /\ Says(rows, rollup) /\ Current(rows, rollup)
  BY <1>2, <1>4, RollupFacts, CountedIsCurrent
<1>6. Shape
  BY <1>2, <1>3, <1>4, <1>5, NothingHeld DEF Shape, RollupStatuses
<1>7. Locks /\ Unfinished
  BY <1>2, <1>3, NothingHeld DEF Locks, Unfinished
<1>8. Truthful
  BY <1>2, <1>5 DEF Truthful, Says
<1>9. Single /\ Fresh
  BY <1>2, <1>5 DEF Single, Fresh
<1> QED BY <1>2, <1>6, <1>7, <1>8, <1>9 DEF IInv, Core

\* Every step keeps the invariant.
LEMMA Inductive == IInv /\ [RollupNext]_rollupVars => IInv'
<1> SUFFICES ASSUME IInv, [RollupNext]_rollupVars PROVE IInv'
  OBVIOUS
<1>1. CASE RollupNext
  <2>1. Core' /\ (Fresh /\ Single => Fresh')
    <3>1. Core
      BY DEF IInv
    <3>2. ASSUME NEW c \in Sessions,
                 \/ \E s \in Steps : Take(c, s) \/ EndStep(c, s)
                 \/ Sweep(c)
                 \/ \E g \in Gates : Satisfy(c, g)
          PROVE  Core' /\ (Fresh => Fresh')
      BY <3>1, <3>2, ChangesKeep
    <3>3. ASSUME NEW c \in Sessions, Count(c) \/ Write(c)
          PROVE  Core' /\ (Fresh => Fresh')
      BY <3>1, <3>3, CountKeeps, WriteKeeps
    <3>4. ASSUME NEW c \in Sessions, Commit(c) \/ Abort(c)
          PROVE  Core' /\ (Fresh /\ Single => Fresh')
      BY <3>1, <3>4, CommitKeeps, AbortKeeps
    <3>5. ASSUME NEW s \in Steps, StepComesDue(s)
          PROVE  Core' /\ (Fresh => Fresh')
      BY <3>1, <3>5, BecomeDueKeeps
    <3> QED BY <1>1, <3>2, <3>3, <3>4, <3>5 DEF RollupNext, Step
  <2>2. overlapped' \in BOOLEAN
    BY <1>1 DEF RollupNext, IInv
  <2>3. ASSUME ~overlapped' PROVE Single' /\ Fresh'
    <3>1. ~overlapped /\ Single'
      BY <1>1, <2>1, <2>3, OneAtATime DEF Core
    <3>2. Fresh /\ Single
      BY <3>1 DEF IInv
    <3> QED BY <2>1, <3>1, <3>2
  <2> QED BY <2>1, <2>2, <2>3 DEF IInv
<1>2. CASE UNCHANGED rollupVars
  <2>1. /\ rows' = rows /\ mine' = mine /\ pc' = pc /\ queued' = queued
        /\ counted' = counted /\ taskLock' = taskLock /\ rollup' = rollup
        /\ overlapped' = overlapped
    BY <1>2 DEF rollupVars
  <2>2. Shape'
    BY <2>1 DEF IInv, Core, Shape, AreRows
  <2>3. Locks' /\ Unfinished'
    BY <2>1 DEF IInv, Core, Locks, Unfinished
  <2>4. \A d \in Sessions : View(d)' = View(d)
    BY <2>1 DEF View, Over
  <2>5. Truthful'
    BY <2>1, <2>4 DEF IInv, Core, Truthful, Says
  <2>6. ~overlapped => Single' /\ Fresh'
    BY <2>1, <2>4 DEF IInv, Single, Fresh
  <2> QED BY <2>1, <2>2, <2>3, <2>5, <2>6 DEF IInv, Core
<1> QED BY <1>1, <1>2

-----------------------------------------------------------------------------
(* The theorems. *)

\* The rows keep their shape, every lock has an owner that is at work, and what an
\* idle session holds is nothing.
THEOREM SummaryTyped == RollupSpec => []RollupTypeOK
<1>1. IInv => RollupTypeOK
  BY DEF IInv, Core, Shape, Locks, RollupTypeOK, AreRows, Rows
<1> QED BY Initially, Inductive, <1>1, PTL DEF RollupSpec

\* However transactions interleave, are lost or wait, a summary that says the work is
\* over is right: refresh_task_execution_rollup may publish an outdated count, never
\* an untrue "completed" or "failed".
THEOREM FinalSummaryTrue == RollupSpec => []TerminalRollupTruthful
<1>1. IInv => TerminalRollupTruthful
  BY DEF IInv, Core, Truthful, Says, TerminalRollupTruthful, In
<1> QED BY Initially, Inductive, <1>1, PTL DEF RollupSpec

\* As long as transactions come one at a time the summary is that of the rows once
\* they are over, whatever sweeps, gates and rollbacks they were made of.
THEOREM SerialSummaryCurrent == RollupSpec => []SerialRollupCurrent
<1>1. IInv => SerialRollupCurrent
  BY DEF IInv, Fresh, SerialRollupCurrent, QuietRollupCurrent
<1> QED BY Initially, Inductive, <1>1, PTL DEF RollupSpec
=============================================================================
