------------------------ MODULE ExecutionGraphProofs ------------------------
(***************************************************************************)
(* What the execution graph guarantees for every plan: any finite or       *)
(* infinite set of steps, any dependencies, gates, budgets, workers and    *)
(* key scheme.                                                             *)
(*                                                                         *)
(* The invariants speak of one step at a time, or of a step and its        *)
(* prerequisites, while a claim changes many steps at once.  So Next is    *)
(* first reduced to what it does to a single step (lemma EveryStepMoves),  *)
(* field by field; every invariant is then proved from Move alone.         *)
(***************************************************************************)
EXTENDS ExecutionGraph, TLAPS

-----------------------------------------------------------------------------
(* Well-formed rows. *)

RowInv == TypeOK /\ BudgetSpentExactly

\* Queued(s) in terms of the row as it is, before the sweep.
Waiting(s) == /\ LeaseLost(s) \/ step[s].status \in {"pending", "ready"}
              /\ step[s].due
              /\ ~Exhausted(s)

PickInv == \A s \in picked : Waiting(s)

BaseInv == RowInv /\ PickInv

USE BudgetAssumption

\* A new plan has well-formed rows, and nothing of it is picked.
LEMMA InitBase == Init => BaseInv
  BY DEF Init, BaseInv, RowInv, PickInv, TypeOK, BudgetSpentExactly, StepRow,
         EventRow, DecisionRow, GateRow, Exhausted

\* The row a sweep puts back, field by field.
LEMMA PutBackFields ==
  ASSUME TypeOK, NEW s \in Steps
  PROVE  /\ PutBack(s) \in StepRow
         /\ PutBack(s).status = IF Exhausted(s) THEN "failed" ELSE "ready"
         /\ PutBack(s).attempts = step[s].attempts
         /\ PutBack(s).due = step[s].due
         /\ PutBack(s).token = 0
         /\ PutBack(s).lease = "none"
  BY DEF TypeOK, PutBack, Unclaimed, AfterAttempt, StepRow

\* What the sweep leaves of a table is a table, and its budgets are exact.
LEMMA SweptRows ==
  ASSUME BaseInv
  PROVE  /\ SweptStep \in [Steps -> StepRow]
         /\ SweptEvents \in [Steps -> SUBSET EventRow]
         /\ \A s \in Steps :
              /\ SweptStep[s].attempts = step[s].attempts
              /\ SweptStep[s].due = step[s].due
              /\ SweptStep[s].status = "failed"
                   => step[s].attempts = MaxAttempts[s]
              /\ SweptStep[s].status \in {"pending", "ready"} => ~Exhausted(s)
              /\ IF SweptStep[s].status = "running"
                 THEN SweptStep[s].token = step[s].attempts
                      /\ SweptStep[s].lease # "none"
                 ELSE SweptStep[s].token = 0 /\ SweptStep[s].lease = "none"
<1> USE DEF BaseInv, RowInv
<1>1. SweptStep \in [Steps -> StepRow]
  BY PutBackFields DEF SweptStep, TypeOK
<1>2. SweptEvents \in [Steps -> SUBSET EventRow]
  BY DEF SweptEvents, TypeOK, StepRow, EventRow, Event, Settling
<1>3. ASSUME NEW s \in Steps
      PROVE  /\ SweptStep[s].attempts = step[s].attempts
             /\ SweptStep[s].due = step[s].due
             /\ SweptStep[s].status = "failed"
                  => step[s].attempts = MaxAttempts[s]
             /\ SweptStep[s].status \in {"pending", "ready"} => ~Exhausted(s)
             /\ IF SweptStep[s].status = "running"
                THEN SweptStep[s].token = step[s].attempts
                     /\ SweptStep[s].lease # "none"
                ELSE SweptStep[s].token = 0 /\ SweptStep[s].lease = "none"
  <2>1. CASE LeaseLost(s)
    <3>1. SweptStep[s] = PutBack(s)
      BY <2>1 DEF SweptStep
    <3>2. step[s].attempts \in Nat /\ MaxAttempts[s] \in Nat
      BY DEF TypeOK, StepRow
    <3> QED
      BY <3>1, <3>2, PutBackFields DEF BudgetSpentExactly, Exhausted
  <2>2. CASE ~LeaseLost(s)
    BY <2>2 DEF SweptStep, TypeOK, BudgetSpentExactly
  <2> QED
    BY <2>1, <2>2
<1> QED
  BY <1>1, <1>2, <1>3

\* A claimed step is in the queue: the sweep and the test before it agree.
LEMMA QueuedIsWaiting ==
  ASSUME BaseInv, NEW s \in Steps
  PROVE  Queued(s) <=> Waiting(s)
  BY PutBackFields
     DEF Queued, Waiting, SweptStep, LeaseLost, BaseInv, RowInv, TypeOK, StepRow

\* No action spoils a row or a budget.
LEMMA NextRows ==
  ASSUME BaseInv, [Next]_vars
  PROVE  RowInv'
<1> USE DEF BaseInv, RowInv
<1>1. ASSUME NEW s \in Steps, Claim(s)
      PROVE  RowInv'
  <2>1. Leased(s) \in StepRow
        /\ Leased(s).status = "running" /\ Leased(s).lease = "live"
        /\ Leased(s).attempts = step[s].attempts + 1
        /\ Leased(s).token = step[s].attempts + 1
    BY DEF Leased, StepRow, TypeOK
  <2>2. step[s].attempts + 1 <= MaxAttempts[s]
    BY <1>1 DEF Claim, PickInv, Waiting, Exhausted, TypeOK, StepRow
  <2>3. step' = [SweptStep EXCEPT ![s] = Leased(s)]
    BY <1>1 DEF Claim
  <2>4. step' \in [Steps -> StepRow]
    BY <2>1, <2>3, SweptRows
  <2>5. events' \in [Steps -> SUBSET EventRow]
    BY <1>1, SweptRows DEF Claim, EventRow, Event, TypeOK, StepRow
  <2>6. \A t \in Steps : step'[t] = IF t = s THEN Leased(s) ELSE SweptStep[t]
    BY <2>3, SweptRows
  <2>7. TypeOK'
    BY <1>1, <2>1, <2>4, <2>5, <2>6, SweptRows DEF Claim, TypeOK
  <2>8. BudgetSpentExactly'
    BY <2>1, <2>2, <2>6, SweptRows DEF BudgetSpentExactly, Exhausted
  <2> QED
    BY <2>7, <2>8
<1>2. CASE ClaimNothing
  BY <1>2, SweptRows DEF ClaimNothing, TypeOK, BudgetSpentExactly, Exhausted
<1>3. ASSUME NEW s \in Steps, NEW n \in 1 .. step[s].attempts, Complete(s, n)
      PROVE  RowInv'
  <2>1. KeyOf("complete", n) \in Keys
    BY KeyAssumption DEF TypeOK, BudgetSpentExactly, StepRow, Kinds
  <2>2. /\ step' \in [Steps -> StepRow]
        /\ step'[s].status = "completed" /\ step'[s].attempts = step[s].attempts
        /\ step'[s].token = 0 /\ step'[s].lease = "none"
        /\ \A t \in Steps \ {s} : step'[t] = step[t]
    BY <1>3 DEF Complete, Unclaimed, TypeOK, StepRow
  <2>3. events' \in [Steps -> SUBSET EventRow]
    BY <1>3, <2>1
       DEF Complete, TypeOK, StepRow, EventRow, Event, Settling, Answers
  <2>4. acked' \subseteq [kind : Kinds, step : Steps, token : Nat]
    BY <1>3 DEF Complete, Call, TypeOK, Kinds, StepRow
  <2> QED
    BY <1>3, <2>2, <2>3, <2>4
       DEF Complete, TypeOK, BudgetSpentExactly, Exhausted
<1>4. ASSUME NEW s \in Steps, NEW n \in 1 .. step[s].attempts,
             NEW delayed \in BOOLEAN, Fail(s, n, delayed)
      PROVE  RowInv'
  <2>1. KeyOf("fail", n) \in Keys
    BY KeyAssumption DEF TypeOK, BudgetSpentExactly, StepRow, Kinds
  <2>2. /\ step' \in [Steps -> StepRow]
        /\ step'[s].status = IF Exhausted(s) THEN "failed" ELSE "ready"
        /\ step'[s].attempts = step[s].attempts
        /\ step'[s].token = 0 /\ step'[s].lease = "none"
        /\ \A t \in Steps \ {s} : step'[t] = step[t]
    <3>1. Unclaimed(s, AfterAttempt(s),
                    IF Exhausted(s) THEN step[s].due ELSE ~delayed) \in StepRow
      BY DEF TypeOK, StepRow, Unclaimed, AfterAttempt
    <3> QED
      BY <1>4, <3>1 DEF Fail, TypeOK, Unclaimed, AfterAttempt
  <2>3. events' \in [Steps -> SUBSET EventRow]
    BY <1>4, <2>1
       DEF Fail, TypeOK, StepRow, EventRow, Event, Settling, Answers
  <2>4. acked' \subseteq [kind : Kinds, step : Steps, token : Nat]
    BY <1>4 DEF Fail, Call, TypeOK, Kinds, StepRow
  <2>5. step[s].attempts \in Nat /\ MaxAttempts[s] \in Nat
    BY DEF TypeOK, StepRow
  <2> QED
    BY <1>4, <2>2, <2>3, <2>4, <2>5
       DEF Fail, TypeOK, BudgetSpentExactly, Exhausted
<1>5. ASSUME NEW s \in Steps, NEW n \in 1 .. step[s].attempts,
             NEW kind \in Kinds, Replay(kind, s, n)
      PROVE  RowInv'
  BY <1>5 DEF Replay, Call, TypeOK, BudgetSpentExactly, Exhausted, StepRow
<1>6. ASSUME NEW g \in Gates, NEW a \in Actors, NEW o \in OptionKeys,
             Resolve(g, a, o)
      PROVE  RowInv'
  BY <1>6 DEF Resolve, TypeOK, BudgetSpentExactly, Exhausted,
              DecisionRow, GateRow
<1>7. CASE CloseTask
  BY <1>7 DEF CloseTask, TypeOK, BudgetSpentExactly, Exhausted
<1>8. ASSUME NEW s \in Steps, LeaseRunsOut(s)
      PROVE  RowInv'
  <2>1. /\ step' \in [Steps -> StepRow]
        /\ step'[s].status = "running" /\ step[s].status = "running"
        /\ step'[s].attempts = step[s].attempts
        /\ step'[s].token = step[s].token /\ step'[s].lease = "expired"
        /\ \A t \in Steps \ {s} : step'[t] = step[t]
    BY <1>8 DEF LeaseRunsOut, TypeOK, StepRow
  <2> QED
    BY <1>8, <2>1 DEF LeaseRunsOut, TypeOK, BudgetSpentExactly, Exhausted
<1>9. ASSUME NEW s \in Steps, BecomeDue(s)
      PROVE  RowInv'
  <2>1. /\ step' \in [Steps -> StepRow]
        /\ step'[s].status = step[s].status
        /\ step'[s].attempts = step[s].attempts
        /\ step'[s].token = step[s].token /\ step'[s].lease = step[s].lease
        /\ \A t \in Steps \ {s} : step'[t] = step[t]
    BY <1>9 DEF BecomeDue, TypeOK, StepRow
  <2> QED
    BY <1>9, <2>1 DEF BecomeDue, TypeOK, BudgetSpentExactly, Exhausted
<1>10. ASSUME NEW w \in Workers, NEW s \in Steps, Pick(w, s)
       PROVE  RowInv'
  BY <1>10 DEF Pick, TypeOK, BudgetSpentExactly, Exhausted
<1>11. ASSUME NEW s \in Steps, ClaimLost(s)
       PROVE  RowInv'
  BY <1>11 DEF ClaimLost, TypeOK, BudgetSpentExactly, Exhausted
<1>12. CASE UNCHANGED vars
  BY <1>12 DEF vars, TypeOK, BudgetSpentExactly, Exhausted
<1> QED
  BY <1>1, <1>2, <1>3, <1>4, <1>5, <1>6, <1>7, <1>8, <1>9, <1>10, <1>11,
     <1>12
     DEF Next, Poll, ClaimEnds, Answer, Decide

\* A picked step stays in the queue until its claim ends: the sweep of another
\* claim leaves it there, and no answer is accepted for it.
LEMMA NextPick ==
  ASSUME BaseInv, [Next]_vars
  PROVE  PickInv'
<1> USE DEF BaseInv, RowInv
<1> SUFFICES ASSUME NEW s \in picked' PROVE Waiting(s)'
  BY DEF PickInv
<1>1. s \in Steps
  BY NextRows DEF TypeOK
<1>2. s \in picked => Waiting(s)
  BY DEF PickInv
<1>3. ASSUME s \in picked, step'[s] = step[s]
      PROVE  Waiting(s)'
  BY <1>2, <1>3 DEF Waiting, LeaseLost, Exhausted
<1>4. ASSUME s \in picked, step'[s] = SweptStep[s]
      PROVE  Waiting(s)'
  BY <1>1, <1>2, <1>4, PutBackFields
     DEF Waiting, SweptStep, LeaseLost, Exhausted
<1>5. ASSUME NEW w \in Workers, NEW t \in Steps, Pick(w, t)
      PROVE  Waiting(s)'
  <2>1. Waiting(t) /\ step' = step
    BY <1>5, QueuedIsWaiting DEF Pick
  <2> QED
    BY <1>2, <1>5, <2>1 DEF Pick, Waiting, LeaseLost, Exhausted
<1>6. ASSUME NEW t \in Steps, Claim(t)
      PROVE  Waiting(s)'
  <2>1. s \in picked /\ s # t
    BY <1>6 DEF Claim
  <2>2. step'[s] = SweptStep[s]
    BY <1>1, <1>6, <2>1, SweptRows DEF Claim
  <2> QED
    BY <1>4, <2>1, <2>2
<1>7. ASSUME NEW t \in Steps, ClaimLost(t)
      PROVE  Waiting(s)'
  BY <1>3, <1>7 DEF ClaimLost
<1>8. CASE ClaimNothing
  BY <1>4, <1>8 DEF ClaimNothing
<1>9. ASSUME NEW t \in Steps, NEW n \in 1 .. step[t].attempts,
             Complete(t, n) \/ \E delayed \in BOOLEAN : Fail(t, n, delayed)
      PROVE  Waiting(s)'
  <2>1. s \in picked /\ step[t].status = "running" /\ step[t].lease = "live"
    BY <1>9 DEF Complete, Fail, Holds
  <2>2. s # t
    BY <1>2, <2>1 DEF Waiting, LeaseLost
  <2> QED
    BY <1>1, <1>3, <1>9, <2>1, <2>2 DEF Complete, Fail, TypeOK
<1>10. ASSUME NEW t \in Steps, LeaseRunsOut(t) \/ BecomeDue(t)
       PROVE  Waiting(s)'
  <2>1. s \in picked
    BY <1>10 DEF LeaseRunsOut, BecomeDue
  <2>2. s # t
    BY <1>2, <1>10, <2>1 DEF Waiting, LeaseLost, LeaseRunsOut, BecomeDue
  <2> QED
    BY <1>1, <1>3, <1>10, <2>1, <2>2 DEF LeaseRunsOut, BecomeDue, TypeOK
<1>11. CASE step' = step /\ picked' = picked
  BY <1>3, <1>11
<1> QED
  BY <1>5, <1>6, <1>7, <1>8, <1>9, <1>10, <1>11
     DEF Next, Poll, ClaimEnds, Answer, Decide, Replay, Resolve, CloseTask, vars

\* The inductive step of BaseHolds.
LEMMA NextBase ==
  ASSUME BaseInv, [Next]_vars
  PROVE  BaseInv'
  BY NextRows, NextPick DEF BaseInv

\* Every row stays well formed and every budget is spent exactly.
THEOREM BaseHolds == Spec => []BaseInv
  BY InitBase, NextBase, PTL DEF Spec

\* Every row of every table is well formed, and a step carries the token of its
\* last claim, and a lease, exactly while it runs.
THEOREM TypeCorrect == Spec => []TypeOK
  BY BaseHolds, PTL DEF BaseInv, RowInv

\* No step is tried more often than its budget, or given up before it is spent.
THEOREM BudgetCorrect == Spec => []BudgetSpentExactly
  BY BaseHolds, PTL DEF BaseInv, RowInv

-----------------------------------------------------------------------------
(* What one action does to one step. *)

\* At most the clock touched it.
Stays(s) == /\ step'[s].status = step[s].status
            /\ step'[s].attempts = step[s].attempts
            /\ events'[s] = events[s]

Returned(s) == /\ LeaseLost(s)
               /\ step'[s].status = AfterAttempt(s)
               /\ step'[s].attempts = step[s].attempts
               /\ events'[s] = SweptEvents[s]

Taken(s) == /\ s \in picked \ picked'
            /\ ~Exhausted(s)
            /\ LeaseLost(s) \/ step[s].status \in {"pending", "ready"}
            /\ step'[s].status = "running"
            /\ step'[s].attempts = step[s].attempts + 1
            /\ events'[s] = SweptEvents[s] \cup
                  {Event("claimed", step[s].attempts + 1,
                         step[s].attempts + 1, None)}

AnswerType(s, kind) == IF kind = "complete" THEN "completed"
                       ELSE IF Exhausted(s) THEN "failed" ELSE "retry_scheduled"

Answered(s, kind) ==
    /\ step[s].status = "running"
    /\ step'[s].status = IF kind = "complete" THEN "completed"
                         ELSE AfterAttempt(s)
    /\ step'[s].attempts = step[s].attempts
    /\ events'[s] = events[s] \cup
          {Event(AnswerType(s, kind), step[s].attempts, step[s].attempts,
                 KeyOf(kind, step[s].attempts))}

Move(s) == \/ Stays(s)
           \/ Returned(s)
           \/ Taken(s)
           \/ \E kind \in Kinds : Answered(s, kind)

\* What the sweep makes of one step.
LEMMA SweptOrNot ==
  ASSUME BaseInv, NEW s \in Steps,
         step'[s] = SweptStep[s], events'[s] = SweptEvents[s]
  PROVE  Stays(s) \/ Returned(s)
  BY PutBackFields
     DEF Stays, Returned, SweptStep, SweptEvents, PutBack, Unclaimed, BaseInv,
         RowInv

\* Every action, the whole claim with its sweep included, does one of the four
\* moves to every step.
LEMMA EveryStepMoves ==
  ASSUME BaseInv, [Next]_vars
  PROVE  \A s \in Steps : Move(s)
<1> SUFFICES ASSUME NEW s \in Steps PROVE Move(s)
  OBVIOUS
<1> USE DEF BaseInv, RowInv
<1>1. ASSUME NEW t \in Steps, Claim(t)
      PROVE  Move(s)
  <2>1. CASE s = t
    <3>1. step'[s] = Leased(s)
      BY <1>1, <2>1, SweptRows DEF Claim
    <3>2. events'[s] = SweptEvents[s] \cup
            {Event("claimed", step[s].attempts + 1, step[s].attempts + 1, None)}
      BY <1>1, <2>1, SweptRows DEF Claim
    <3>3. s \in picked \ picked' /\ Waiting(s)
      BY <1>1, <2>1 DEF Claim, PickInv
    <3>4. Taken(s)
      BY <3>1, <3>2, <3>3 DEF Taken, Waiting, Leased
    <3> QED
      BY <3>4 DEF Move
  <2>2. CASE s # t
    BY <1>1, <2>2, SweptRows, SweptOrNot DEF Claim, Move
  <2> QED
    BY <2>1, <2>2
<1>2. CASE ClaimNothing
  BY <1>2, SweptOrNot DEF ClaimNothing, Move
<1>3. ASSUME NEW t \in Steps, NEW n \in 1 .. step[t].attempts, Complete(t, n)
      PROVE  Move(s)
  <2>1. CASE s = t
    <3>1. n = step[s].attempts
      BY <1>3, <2>1 DEF Complete, Holds, TypeOK
    <3>2. Answered(s, "complete")
      BY <1>3, <2>1, <3>1
         DEF Complete, Holds, TypeOK, Answered, AnswerType, Unclaimed
    <3> QED
      BY <3>2 DEF Move, Kinds
  <2>2. CASE s # t
    BY <1>3, <2>2 DEF Complete, TypeOK, Move, Stays
  <2> QED
    BY <2>1, <2>2
<1>4. ASSUME NEW t \in Steps, NEW n \in 1 .. step[t].attempts,
             NEW delayed \in BOOLEAN, Fail(t, n, delayed)
      PROVE  Move(s)
  <2>1. CASE s = t
    <3>1. n = step[s].attempts
      BY <1>4, <2>1 DEF Fail, Holds, TypeOK
    <3>2. Answered(s, "fail")
      BY <1>4, <2>1, <3>1
         DEF Fail, Holds, TypeOK, Answered, AnswerType, Unclaimed
    <3> QED
      BY <3>2 DEF Move, Kinds
  <2>2. CASE s # t
    BY <1>4, <2>2 DEF Fail, TypeOK, Move, Stays
  <2> QED
    BY <2>1, <2>2
<1>5. ASSUME NEW t \in Steps, LeaseRunsOut(t) \/ BecomeDue(t)
      PROVE  Move(s)
  BY <1>5 DEF LeaseRunsOut, BecomeDue, TypeOK, StepRow, Move, Stays
<1>6. CASE step' = step /\ events' = events
  BY <1>6 DEF Move, Stays
<1> QED
  BY <1>1, <1>2, <1>3, <1>4, <1>5, <1>6
     DEF Next, Poll, Pick, ClaimEnds, ClaimLost, Answer, Decide, Replay,
         Resolve, CloseTask, vars

-----------------------------------------------------------------------------
(* Order: prerequisites and decisions come first, and stay. *)

\* A gate is satisfied by its decision only, which records who chose what.
GateInv == \A g \in Gates : gate[g].status = "satisfied" =>
              /\ decision[g].status = "resolved"
              /\ decision[g].by = Owner[g]
              /\ decision[g].option \in OptionsOf[g]
              /\ gate[g].resolution = decision[g].option

StartInv == \A s \in Steps : step[s].attempts > 0 \/ s \in picked
                              => Unlocked(s)

\* A decision is made once, by its owner, together with its gate.
LEMMA GatesMove ==
  ASSUME BaseInv, [Next]_vars, NEW g \in Gates
  PROVE  \/ decision'[g] = decision[g] /\ gate'[g] = gate[g]
         \/ /\ decision[g].status = "pending"
            /\ decision'[g].status = "resolved"
            /\ decision'[g].by = Owner[g]
            /\ decision'[g].option \in OptionsOf[g]
            /\ gate'[g].status = "satisfied"
            /\ gate'[g].resolution = decision'[g].option
  BY DEF BaseInv, RowInv, TypeOK, Next, Poll, Pick, ClaimEnds, Claim, ClaimLost,
         ClaimNothing, Answer, Decide, Complete, Fail, Replay, Resolve,
         CloseTask, LeaseRunsOut, BecomeDue, vars

\* A completion is never taken back, a failure neither, and the step's event
\* rows are closed with it.
LEMMA SettledStays ==
  ASSUME BaseInv, NEW s \in Steps, Move(s), Settled(s)
  PROVE  Stays(s)
  BY DEF Move, Returned, Taken, Answered, Settled, LeaseLost

\* A satisfied gate stays satisfied, and agrees with its decision.
LEMMA NextGates ==
  ASSUME BaseInv, GateInv, [Next]_vars
  PROVE  /\ GateInv'
         /\ \A g \in Gates : gate[g].status = "satisfied"
                              => gate'[g].status = "satisfied"
<1>1. GateInv'
  BY GatesMove DEF GateInv
<1>2. \A g \in Gates : gate[g].status = "satisfied"
                        => gate'[g].status = "satisfied"
  BY GatesMove
<1> QED
  BY <1>1, <1>2

\* What claim_task_step reads without a lock never changes back.
LEMMA UnlockedStays ==
  ASSUME BaseInv, GateInv, [Next]_vars, NEW s \in Steps, Unlocked(s)
  PROVE  Unlocked(s)'
<1>1. ASSUME NEW p \in Prereqs[s] PROVE step'[p].status = "completed"
  <2>1. p \in Steps
    BY PrereqsAssumption
  <2>2. step[p].status = "completed"
    BY DEF Unlocked
  <2> QED
    BY <2>1, <2>2, EveryStepMoves, SettledStays DEF Settled, Stays
<1>2. ASSUME NEW g \in GatesOf[s] PROVE gate'[g].status = "satisfied"
  <2>1. g \in Gates /\ gate[g].status = "satisfied"
    BY GatesAssumption DEF Unlocked
  <2> QED
    BY <2>1, NextGates
<1> QED
  BY <1>1, <1>2 DEF Unlocked

\* A step is picked only when it is unlocked.
LEMMA PickedIsUnlocked ==
  ASSUME [Next]_vars, NEW s \in picked', s \notin picked
  PROVE  Unlocked(s)
  BY DEF Next, Poll, Pick, ClaimEnds, Claim, ClaimLost, ClaimNothing, Answer,
         Decide, Complete, Fail, Replay, Resolve, CloseTask, LeaseRunsOut,
         BecomeDue, vars

\* A step that is picked or has been started is unlocked, and stays so.
LEMMA NextStart ==
  ASSUME BaseInv, GateInv, StartInv, [Next]_vars
  PROVE  StartInv'
<1> SUFFICES ASSUME NEW s \in Steps, step'[s].attempts > 0 \/ s \in picked'
             PROVE  Unlocked(s)'
  BY DEF StartInv
<1>1. Move(s)
  BY EveryStepMoves
<1>2. step[s].attempts \in Nat
  BY DEF BaseInv, RowInv, TypeOK, StepRow
<1>3. CASE s \in picked \/ step[s].attempts > 0
  BY <1>3, UnlockedStays DEF StartInv
<1>4. CASE s \notin picked /\ ~(step[s].attempts > 0)
  <2>1. s \in picked'
    BY <1>1, <1>2, <1>4 DEF Move, Stays, Returned, Taken, Answered
  <2> QED
    BY <1>4, <2>1, PickedIsUnlocked, UnlockedStays
<1> QED
  BY <1>3, <1>4

OrderInv == BaseInv /\ GateInv /\ StartInv

\* The order invariant of the specification.
LEMMA OrderHolds == Spec => []OrderInv
<1>1. Init => OrderInv
  BY InitBase DEF Init, OrderInv, GateInv, StartInv
<1>2. OrderInv /\ [Next]_vars => OrderInv'
  BY NextBase, NextGates, NextStart DEF OrderInv
<1> QED
  BY <1>1, <1>2, PTL DEF Spec

\* claim_task_step starts no step before all its prerequisites are completed.
THEOREM PrereqsCorrect == Spec => []PrereqsFirst
<1>1. OrderInv => PrereqsFirst
  BY DEF OrderInv, StartInv, Unlocked, PrereqsFirst
<1> QED
  BY <1>1, OrderHolds, PTL

\* No step is ever started before the owners of its decisions have chosen.
THEOREM OwnersCorrect == Spec => []OwnerDecidedFirst
<1>1. OrderInv => OwnerDecidedFirst
  BY GatesAssumption
     DEF OrderInv, StartInv, Unlocked, GateInv, OwnerDecidedFirst
<1> QED
  BY <1>1, OrderHolds, PTL

\* What is settled or decided stays so.
THEOREM FinalCorrect == Spec => FinalIsFinal
<1>1. BaseInv /\ [Next]_vars
        => [/\ \A s \in Steps : Settled(s) =>
                 /\ step'[s].status = step[s].status
                 /\ step'[s].attempts = step[s].attempts
                 /\ events'[s] = events[s]
            /\ \A g \in Gates : decision[g].status = "resolved" =>
                 /\ decision'[g] = decision[g]
                 /\ gate'[g] = gate[g]]_vars
  BY EveryStepMoves, SettledStays, GatesMove DEF Stays
<1> QED
  BY <1>1, BaseHolds, PTL DEF Spec, FinalIsFinal

\* claim_task_step selects nothing of a closed task, and starts nothing it had
\* not selected before; no task reopens.
THEOREM CloseCorrect == Spec => NothingPickedAfterClose
<1> DEFINE Quiet == /\ ~open'
                    /\ picked' \subseteq picked
                    /\ \A s \in Steps : step'[s].attempts # step[s].attempts
                                          => s \in picked \ picked'
<1>1. ASSUME BaseInv, [Next]_vars, ~open
      PROVE  Quiet
  <2>1. ~open' /\ picked' \subseteq picked
    BY <1>1 DEF Next, Poll, Pick, ClaimEnds, Claim, ClaimLost, ClaimNothing,
                Answer, Decide, Complete, Fail, Replay, Resolve, CloseTask,
                LeaseRunsOut, BecomeDue, vars
  <2>2. \A s \in Steps : step'[s].attempts # step[s].attempts
                            => s \in picked \ picked'
    BY <1>1, EveryStepMoves DEF Move, Stays, Returned, Taken, Answered
  <2> QED
    BY <2>1, <2>2
<1>2. BaseInv /\ [Next]_vars => [~open => Quiet]_vars
  BY <1>1
<1> QED
  BY <1>2, BaseHolds, PTL DEF Spec, NothingPickedAfterClose

-----------------------------------------------------------------------------
(* The event log: each attempt ends once, by its own holder. *)

LogOf(s) ==
    /\ step[s].status = "running" => step[s].attempts > 0
    /\ \A e \in events[s] : /\ e.attempt \in 1 .. step[s].attempts
                            /\ e.type \in Answers => e.by = e.attempt
    /\ \A n \in 1 .. step[s].attempts :
         /\ \A e, f \in SettledBy(s, n) : e = f
         /\ SettledBy(s, n) = {} <=>
              (step[s].status = "running" /\ n = step[s].attempts)

LogInv == \A s \in Steps : LogOf(s)

\* One new settling event for the running attempt, and nothing else.
LEMMA EndOfAttempt ==
  ASSUME BaseInv, NEW s \in Steps, LogOf(s),
         NEW type \in Settling, NEW by, NEW key,
         type \in Answers => by = step[s].attempts,
         step[s].status = "running", step'[s].status # "running",
         step'[s].attempts = step[s].attempts,
         events'[s] = events[s] \cup {Event(type, step[s].attempts, by, key)}
  PROVE  LogOf(s)'
<1> DEFINE new == Event(type, step[s].attempts, by, key)
<1>1. step[s].attempts \in Nat
  BY DEF BaseInv, RowInv, TypeOK, StepRow
<1>2. new.type = type /\ new.attempt = step[s].attempts /\ new.by = by
  BY DEF Event
<1>3. \A e \in events'[s] : /\ e.attempt \in 1 .. step'[s].attempts
                            /\ e.type \in Answers => e.by = e.attempt
  BY <1>1, <1>2 DEF LogOf
<1>4. ASSUME NEW n \in 1 .. step'[s].attempts
      PROVE  /\ \A e, f \in SettledBy(s, n)' : e = f
             /\ SettledBy(s, n)' # {}
  <2>1. CASE n = step[s].attempts
    <3>1. SettledBy(s, n) = {}
      BY <2>1, <1>4 DEF LogOf
    <3>2. SettledBy(s, n)' = {new}
      BY <3>1, <2>1, <1>2 DEF SettledBy
    <3> QED
      BY <3>2
  <2>2. CASE n # step[s].attempts
    <3>1. SettledBy(s, n)' = SettledBy(s, n)
      BY <2>2, <1>2 DEF SettledBy
    <3> QED
      BY <3>1, <2>2, <1>4 DEF LogOf
  <2> QED
    BY <2>1, <2>2
<1> QED
  BY <1>3, <1>4 DEF LogOf

\* No move spoils the log of a step.
LEMMA NextLog ==
  ASSUME BaseInv, NEW s \in Steps, LogOf(s), Move(s)
  PROVE  LogOf(s)'
<1>1. step[s].attempts \in Nat
  BY DEF BaseInv, RowInv, TypeOK, StepRow
<1>2. CASE Stays(s)
  BY <1>2 DEF Stays, LogOf, SettledBy
<1>3. CASE Returned(s)
  <2>1. events'[s] = events[s] \cup
                     {Event("lease_expired", step[s].attempts, 0, None)}
    BY <1>3 DEF Returned, SweptEvents
  <2> QED
    BY <1>3, <2>1, EndOfAttempt
       DEF Returned, LeaseLost, AfterAttempt, Settling, Answers
<1>4. ASSUME NEW kind \in Kinds, Answered(s, kind)
      PROVE  LogOf(s)'
  <2>1. AnswerType(s, kind) \in Settling
    BY DEF AnswerType, Settling, Answers
  <2> QED
    BY <1>4, <2>1, EndOfAttempt DEF Answered, AfterAttempt
<1>5. CASE Taken(s)
  <2> DEFINE n == step[s].attempts
             old == SweptEvents[s]
             new == Event("claimed", n + 1, n + 1, None)
  <2>1. \A e \in old : /\ e.attempt \in 1 .. n
                       /\ e.type \in Answers => e.by = e.attempt
    BY <1>1 DEF SweptEvents, LogOf, LeaseLost, Event, Answers
  <2>2. ASSUME NEW m \in 1 .. n
        PROVE  /\ \A e, f \in SettledBy(s, m)' : e = f
               /\ SettledBy(s, m)' # {}
    <3>1. SettledBy(s, m)' = {e \in old : e.type \in Settling /\ e.attempt = m}
      BY <1>5, <1>1 DEF Taken, SettledBy, Event
    <3>2. CASE ~LeaseLost(s)
      <4>1. SettledBy(s, m)' = SettledBy(s, m)
        BY <3>1, <3>2 DEF SweptEvents, SettledBy
      <4>2. step[s].status # "running"
        BY <1>5, <3>2 DEF Taken
      <4> QED
        BY <4>1, <4>2 DEF LogOf
    <3>3. CASE LeaseLost(s)
      <4> DEFINE lost == Event("lease_expired", n, 0, None)
      <4>1. lost.type \in Settling /\ lost.attempt = n
        BY DEF Event, Settling
      <4>2. CASE m = n
        <5>1. SettledBy(s, m) = {}
          BY <3>3, <4>2 DEF LogOf, LeaseLost
        <5>2. SettledBy(s, m)' = {lost}
          BY <3>1, <3>3, <4>1, <4>2, <5>1 DEF SweptEvents, SettledBy
        <5> QED
          BY <5>2
      <4>3. CASE m # n
        <5>1. SettledBy(s, m)' = SettledBy(s, m)
          BY <3>1, <3>3, <4>1, <4>3 DEF SweptEvents, SettledBy
        <5> QED
          BY <5>1, <4>3 DEF LogOf
      <4> QED
        BY <4>2, <4>3
    <3> QED
      BY <3>2, <3>3
  <2>3. ASSUME NEW m \in Nat, m = n + 1 PROVE SettledBy(s, m)' = {}
    BY <2>3, <1>5, <1>1, <2>1 DEF Taken, SettledBy, Event, Settling, Answers
  <2>4. \A e \in events'[s] : /\ e.attempt \in 1 .. step'[s].attempts
                              /\ e.type \in Answers => e.by = e.attempt
    BY <1>5, <1>1, <2>1 DEF Taken, Event, Answers
  <2>5. step'[s].attempts = n + 1 /\ step'[s].status = "running"
    BY <1>5 DEF Taken
  <2>6. ASSUME NEW m \in 1 .. step'[s].attempts
        PROVE  /\ \A e, f \in SettledBy(s, m)' : e = f
               /\ SettledBy(s, m)' = {} <=> m = step'[s].attempts
    <3>1. CASE m = n + 1
      BY <3>1, <2>3, <2>5
    <3>2. CASE m \in 1 .. n
      BY <3>2, <2>2, <2>5, <1>1
    <3> QED
      BY <3>1, <3>2, <2>5, <1>1
  <2> QED
    BY <2>4, <2>5, <2>6, <1>1 DEF LogOf
<1> QED
  BY <1>2, <1>3, <1>4, <1>5 DEF Move

\* The log invariant of the specification.
LEMMA LogHolds == Spec => [](BaseInv /\ LogInv)
<1>1. Init => BaseInv /\ LogInv
  BY InitBase DEF Init, LogInv, LogOf
<1>2. BaseInv /\ LogInv /\ [Next]_vars => (BaseInv /\ LogInv)'
  BY NextBase, NextLog, EveryStepMoves DEF LogInv
<1> QED
  BY <1>1, <1>2, PTL DEF Spec

\* Every attempt ends exactly once, however answers and sweeps interleave.
THEOREM AttemptsCorrect == Spec => []AttemptEndsOnce
<1>1. LogInv => AttemptEndsOnce
  BY DEF LogInv, LogOf, AttemptEndsOnce
<1> QED
  BY <1>1, LogHolds, PTL

\* An answer never ends an attempt it was not given for.
THEOREM LateAnswersCorrect == Spec => []LateAnswersHarmless
<1>1. LogInv => LateAnswersHarmless
  BY DEF LogInv, LogOf, LateAnswersHarmless
<1> QED
  BY <1>1, LogHolds, PTL

-----------------------------------------------------------------------------
(* Acknowledgements.  They are truthful when callers, like the published    *)
(* workers, send a key of their own for every attempt and kind of answer.   *)

DistinctKeys == \A s \in Steps : \A k, l \in Kinds :
                  \A m, n \in 1 .. MaxAttempts[s] :
                    KeyOf(k, m) = KeyOf(l, n) => k = l /\ m = n

KeysOf(s) ==
    \A e \in events[s] :
        /\ e.type \in {"claimed", "lease_expired"} => e.key = None
        /\ e.type = "completed" => /\ e.key = KeyOf("complete", e.attempt)
                                  /\ e.attempt = step[s].attempts
                                  /\ step[s].status = "completed"
        /\ e.type \in {"retry_scheduled", "failed"}
             => e.key = KeyOf("fail", e.attempt)

KeyInv == \A s \in Steps : KeysOf(s)

\* The key of every event names the attempt and the answer it records.
LEMMA NextKeys ==
  ASSUME BaseInv, NEW s \in Steps, LogOf(s), KeysOf(s), Move(s)
  PROVE  KeysOf(s)'
<1>1. CASE Stays(s)
  BY <1>1 DEF Stays, KeysOf
<1>2. step[s].status # "completed" => \A e \in events[s] : e.type # "completed"
  BY DEF KeysOf
<1>3. CASE Returned(s)
  BY <1>2, <1>3 DEF Returned, LeaseLost, SweptEvents, KeysOf, Event
<1>4. CASE Taken(s)
  BY <1>2, <1>4 DEF Taken, LeaseLost, SweptEvents, KeysOf, Event
<1>5. ASSUME NEW kind \in Kinds, Answered(s, kind)
      PROVE  KeysOf(s)'
  BY <1>2, <1>5 DEF Answered, AnswerType, Kinds, KeysOf, Event
<1> QED
  BY <1>1, <1>3, <1>4, <1>5 DEF Move

AckInv == BaseInv /\ LogInv /\ KeyInv /\ AckTruthful

\* What confirms an answer stays on record.
LEMMA AckStays ==
  ASSUME AckInv, [Next]_vars, NEW c \in acked
  PROVE  \E e \in events'[c.step] :
            /\ e.by = c.token
            /\ IF c.kind = "complete"
               THEN /\ e.type = "completed"
                    /\ e.attempt = step'[c.step].attempts
                    /\ step'[c.step].status = "completed"
               ELSE e.type \in {"retry_scheduled", "failed"}
<1>1. c.step \in Steps
  BY DEF AckInv, BaseInv, RowInv, TypeOK
<1>2. Move(c.step)
  BY <1>1, EveryStepMoves DEF AckInv
<1>3. events[c.step] \subseteq events'[c.step]
  BY <1>1, <1>2 DEF Move, Stays, Returned, Taken, Answered, SweptEvents
<1>4. step[c.step].status = "completed" => Stays(c.step)
  BY <1>1, <1>2, SettledStays DEF Settled, AckInv
<1> QED
  BY <1>3, <1>4 DEF AckInv, AckTruthful, Stays

\* A worker that is told its answer was accepted can rely on it, also when the
\* answer was sent twice: complete_task_step and fail_task_step confirm a resent
\* answer from the event log alone.
THEOREM AcksCorrect == DistinctKeys => (Spec => []AckTruthful)
<1> SUFFICES ASSUME DistinctKeys PROVE Spec => []AckTruthful
  OBVIOUS
<1>1. Init => AckInv
  BY InitBase DEF Init, AckInv, LogInv, LogOf, KeyInv, KeysOf, AckTruthful
<1>2. AckInv /\ [Next]_vars => AckInv'
  <2> SUFFICES ASSUME AckInv, [Next]_vars PROVE AckInv'
    OBVIOUS
  <2> USE DEF AckInv
  <2>1. BaseInv' /\ LogInv' /\ KeyInv'
    BY NextBase, NextLog, NextKeys, EveryStepMoves DEF LogInv, KeyInv
  <2>2. ASSUME NEW c \in acked' \ acked
        PROVE  \E e \in events'[c.step] :
                  /\ e.by = c.token
                  /\ IF c.kind = "complete"
                     THEN /\ e.type = "completed"
                          /\ e.attempt = step'[c.step].attempts
                          /\ step'[c.step].status = "completed"
                     ELSE e.type \in {"retry_scheduled", "failed"}
    <3>1. ASSUME NEW s \in Steps, NEW n \in 1 .. step[s].attempts, Complete(s, n),
                 c = Call("complete", s, n)
          PROVE  \E e \in events'[s] : /\ e.by = n /\ e.type = "completed"
                                       /\ e.attempt = step'[s].attempts
                                       /\ step'[s].status = "completed"
      BY <3>1 DEF Complete, Unclaimed, BaseInv, RowInv, TypeOK, Event
    <3>2. ASSUME NEW s \in Steps, NEW n \in 1 .. step[s].attempts,
                 NEW delayed \in BOOLEAN, Fail(s, n, delayed),
                 c = Call("fail", s, n)
          PROVE  \E e \in events'[s] : /\ e.by = n
                                       /\ e.type \in {"retry_scheduled", "failed"}
      <4> DEFINE type == IF Exhausted(s) THEN "failed" ELSE "retry_scheduled"
                 new == Event(type, step[s].attempts, n, KeyOf("fail", n))
      <4>1. new \in events'[s]
        BY <3>2 DEF Fail, BaseInv, RowInv, TypeOK
      <4>2. new.by = n /\ new.type \in {"retry_scheduled", "failed"}
        BY DEF Event
      <4> QED
        BY <4>1, <4>2
    <3>3. ASSUME NEW s \in Steps, NEW n \in 1 .. step[s].attempts,
                 NEW kind \in Kinds, Replay(kind, s, n), c = Call(kind, s, n)
          PROVE  \E e \in events'[s] :
                    /\ e.by = n
                    /\ IF kind = "complete"
                       THEN /\ e.type = "completed"
                            /\ e.attempt = step'[s].attempts
                            /\ step'[s].status = "completed"
                       ELSE e.type \in {"retry_scheduled", "failed"}
      <4>1. PICK e \in events[s] : e.key = KeyOf(kind, n)
        BY <3>3 DEF Replay, KeysUsed
      <4>2. n \in 1 .. MaxAttempts[s] /\ e.attempt \in 1 .. MaxAttempts[s]
        BY DEF LogInv, LogOf, BaseInv, RowInv, TypeOK, StepRow, BudgetSpentExactly
      <4>3. e.key # None
        BY <4>1, <4>2, KeyAssumption
      <4>4. e \in EventRow
        BY DEF BaseInv, RowInv, TypeOK
      <4>5. e.type \in Answers
        BY <4>3, <4>4 DEF KeyInv, KeysOf, EventRow, Settling
      <4>6. e.by = e.attempt
        BY <4>5 DEF LogInv, LogOf
      <4>7. CASE e.type = "completed"
        <5>1. kind = "complete" /\ n = e.attempt
          BY <4>1, <4>2, <4>7 DEF KeyInv, KeysOf, DistinctKeys, Kinds
        <5> QED
          BY <5>1, <4>6, <4>7, <3>3 DEF Replay, KeyInv, KeysOf
      <4>8. CASE e.type # "completed"
        <5>1. e.key = KeyOf("fail", e.attempt)
          BY <4>5, <4>8 DEF KeyInv, KeysOf, Answers
        <5>2. kind = "fail" /\ n = e.attempt
          <6>1. KeyOf(kind, n) = KeyOf("fail", e.attempt) /\ "fail" \in Kinds
            BY <4>1, <5>1 DEF Kinds
          <6> QED
            BY <6>1, <4>2 DEF DistinctKeys
        <5> QED
          BY <5>2, <4>5, <4>6, <4>8, <3>3 DEF Replay, Answers
      <4> QED
        BY <4>7, <4>8
    <3> QED
      BY <3>1, <3>2, <3>3
         DEF Next, Poll, Pick, ClaimEnds, Claim, ClaimLost, ClaimNothing,
             Answer, Decide, Complete, Fail, Replay, Resolve, CloseTask,
             LeaseRunsOut, BecomeDue, vars, Call
  <2> QED
    BY <2>1, <2>2, AckStays DEF AckTruthful
<1> QED
  BY <1>1, <1>2, PTL DEF Spec, AckInv

-----------------------------------------------------------------------------
(* The execution graph implements the work ledger. *)

Job == [s \in Steps |-> [state |-> LedgerState(step[s].status),
                        tries |-> step[s].attempts]]

Lost == {s \in Steps : LeaseLost(s)}

Decided == {g \in Gates : gate[g].status = "satisfied"}

\* A step that leaves the status and the attempts of every step alone does not
\* change the ledger.
LEMMA SameJob ==
  ASSUME \A s \in Steps : /\ step'[s].status = step[s].status
                          /\ step'[s].attempts = step[s].attempts
  PROVE  Job' = Job
  BY DEF Job, LedgerState

\* The sweep returns the jobs whose holders lost their leases.
LEMMA SweepIsLoss ==
  ASSUME BaseInv, NEW s \in Steps, NEW lost, lost = Lost
  PROVE  Ledger!Without(lost)[s] = [state |-> LedgerState(SweptStep[s].status),
                                    tries |-> step[s].attempts]
<1>1. step[s].attempts \in Nat /\ MaxAttempts[s] \in Nat
  BY DEF BaseInv, RowInv, TypeOK, StepRow
<1>2. CASE LeaseLost(s)
  <2>1. SweptStep[s].status = AfterAttempt(s)
    BY <1>2, PutBackFields DEF SweptStep, BaseInv, RowInv, AfterAttempt
  <2> QED
    BY <1>1, <1>2, <2>1
       DEF Ledger!Without, Lost, LedgerState, AfterAttempt, Exhausted
<1>3. CASE ~LeaseLost(s)
  BY <1>3 DEF Ledger!Without, Lost, SweptStep
<1> QED
  BY <1>2, <1>3

\* Every step of the execution graph is one step of the ledger, or none.
LEMMA NextRefines ==
  ASSUME OrderInv, [Next]_vars
  PROVE  [Ledger!LedgerNext]_(Ledger!ledgerVars)
<1> USE DEF OrderInv
<1> DEFINE Goal == [Ledger!LedgerNext]_(Ledger!ledgerVars)
<1> PICK lost : lost = Lost
  OBVIOUS
<1>1. \A s \in Steps : step[s].attempts \in Nat /\ MaxAttempts[s] \in Nat
  BY DEF BaseInv, RowInv, TypeOK, StepRow
<1>2. ASSUME NEW s \in Steps, Claim(s)
      PROVE  Goal
  <2> s \in picked /\ Waiting(s) /\ Queued(s) /\ Unlocked(s)
    BY <1>2, QueuedIsWaiting DEF Claim, BaseInv, PickInv, StartInv
  <2>1. lost \in SUBSET Steps /\ lost \subseteq Ledger!Held
    BY DEF Lost, LeaseLost, Ledger!Held, LedgerState
  <2>2. Ledger!Without(lost)[s].state = "open"
    <3>1. LedgerState(SweptStep[s].status) = "open"
      BY DEF Queued, LedgerState
    <3>2. Ledger!Without(lost)[s] = [state |-> LedgerState(SweptStep[s].status),
                                     tries |-> step[s].attempts]
      BY SweepIsLoss
    <3> QED
      BY <3>1, <3>2
  <2>3. /\ \A p \in Prereqs[s] : Job[p].state = "done"
        /\ GatesOf[s] \subseteq Decided
    BY PrereqsAssumption, GatesAssumption
       DEF Unlocked, Job, Decided, LedgerState
  <2>4. Job[s].tries < MaxAttempts[s]
    BY <1>1 DEF Queued, Exhausted, Job
  <2>5. Job' = [Ledger!Without(lost) EXCEPT
                  ![s] = [state |-> "held", tries |-> Job[s].tries + 1]]
    <3>1. \A t \in Steps : step'[t] = IF t = s THEN Leased(s) ELSE SweptStep[t]
      BY <1>2, SweptRows DEF Claim
    <3>2. ASSUME NEW t \in Steps
          PROVE  Job'[t] = IF t = s
                           THEN [state |-> "held", tries |-> Job[s].tries + 1]
                           ELSE Ledger!Without(lost)[t]
      <4>1. CASE t = s
        BY <3>1, <4>1 DEF Job, Leased, LedgerState
      <4>2. CASE t # s
        BY <3>1, <4>2, SweepIsLoss, SweptRows DEF Job
      <4> QED
        BY <4>1, <4>2
    <3> QED
      BY <3>2 DEF Job, Ledger!Without
  <2>6. Ledger!HandOut(lost, s)
    BY <1>2, <2>1, <2>2, <2>3, <2>4, <2>5
       DEF Ledger!HandOut, Ledger!Eligible, Claim, Job, Decided
  <2> QED
    BY <2>1, <2>6 DEF Ledger!LedgerNext
<1>3. CASE ClaimNothing
  <2>1. lost \in SUBSET Steps /\ lost \subseteq Ledger!Held
    BY DEF Lost, LeaseLost, Ledger!Held, LedgerState
  <2>2. Job' = Ledger!Without(lost)
    <3>1. \A t \in Steps : Job'[t] = Ledger!Without(lost)[t]
      BY <1>3, SweepIsLoss, SweptRows DEF ClaimNothing, Job
    <3> QED
      BY <3>1 DEF Job, Ledger!Without
  <2>3. Ledger!Lose(lost)
    BY <1>3, <2>1, <2>2 DEF Ledger!Lose, ClaimNothing, Job
  <2> QED
    BY <2>1, <2>3 DEF Ledger!LedgerNext
<1>4. ASSUME NEW s \in Steps, NEW n \in 1 .. step[s].attempts, Complete(s, n)
      PROVE  Goal
  <2>1. Ledger!Finish(s)
    BY <1>4 DEF Complete, Holds, Unclaimed, Ledger!Finish, Ledger!Held,
                LedgerState, BaseInv, RowInv, TypeOK
  <2> QED
    BY <2>1 DEF Ledger!LedgerNext
<1>5. ASSUME NEW s \in Steps, NEW n \in 1 .. step[s].attempts,
             NEW delayed \in BOOLEAN, Fail(s, n, delayed)
      PROVE  Goal
  <2>1. {s} \in SUBSET Steps /\ {s} \subseteq Ledger!Held
    BY <1>5 DEF Fail, Holds, Ledger!Held, LedgerState
  <2>2. Job' = Ledger!Without({s})
    <3>1. \A t \in Steps : step'[t] = IF t = s
            THEN Unclaimed(s, AfterAttempt(s),
                           IF Exhausted(s) THEN step[s].due ELSE ~delayed)
            ELSE step[t]
      BY <1>5 DEF Fail, BaseInv, RowInv, TypeOK
    <3>2. Job'[s] = [state |-> LedgerState(AfterAttempt(s)),
                     tries |-> step[s].attempts]
      BY <3>1 DEF Job, Unclaimed
    <3>3. Ledger!Without({s})[s] = [state |-> LedgerState(AfterAttempt(s)),
                                    tries |-> step[s].attempts]
      BY <1>1 DEF Ledger!Without, AfterAttempt, Exhausted, LedgerState
    <3>4. \A t \in Steps \ {s} : Job'[t] = Ledger!Without({s})[t]
      BY <3>1 DEF Job, Ledger!Without
    <3> QED
      BY <3>2, <3>3, <3>4 DEF Job, Ledger!Without
  <2>3. Ledger!Lose({s})
    BY <1>5, <2>1, <2>2 DEF Ledger!Lose, Fail, Job
  <2> QED
    BY <2>1, <2>3 DEF Ledger!LedgerNext
<1>6. ASSUME NEW g \in Gates, NEW a \in Actors, NEW o \in OptionKeys,
             Resolve(g, a, o)
      PROVE  Goal
  <2>1. g \notin Decided
    BY <1>6 DEF Resolve, GateInv, Decided
  <2>2. Decided' = Decided \cup {g}
    BY <1>6 DEF Resolve, Decided, BaseInv, RowInv, TypeOK
  <2>3. Ledger!DecideGate(g)
    BY <1>6, <2>1, <2>2, SameJob
       DEF Ledger!DecideGate, Resolve, Decided, Job
  <2> QED
    BY <2>3 DEF Ledger!LedgerNext
<1>7. CASE CloseTask
  <2>1. Ledger!Stop
    BY <1>7, SameJob DEF CloseTask, Ledger!Stop, Job
  <2> QED
    BY <2>1 DEF Ledger!LedgerNext
<1>8. ASSUME \A s \in Steps : /\ step'[s].status = step[s].status
                             /\ step'[s].attempts = step[s].attempts,
             gate' = gate, open' = open, picked' = picked
      PROVE  Goal
  BY <1>8, SameJob DEF Ledger!ledgerVars, Job
<1>9. ASSUME NEW s \in Steps, LeaseRunsOut(s) \/ BecomeDue(s)
      PROVE  Goal
  BY <1>8, <1>9 DEF LeaseRunsOut, BecomeDue, BaseInv, RowInv, TypeOK, StepRow
<1>10. ASSUME NEW w \in Workers, NEW s \in Steps, Pick(w, s)
       PROVE  Goal
  <2>1. /\ \A p \in Prereqs[s] : Job[p].state = "done"
        /\ GatesOf[s] \subseteq Decided
    BY <1>10, PrereqsAssumption, GatesAssumption
       DEF Pick, Unlocked, Job, Decided, LedgerState
  <2>2. Job[s].tries < MaxAttempts[s]
    BY <1>1, <1>10 DEF Pick, Queued, Exhausted, Job
  <2>3. Ledger!Promise(s)
    BY <1>10, <2>1, <2>2, SameJob
       DEF Ledger!Promise, Ledger!Eligible, Pick, Job, Decided
  <2> QED
    BY <2>3 DEF Ledger!LedgerNext
<1>11. ASSUME NEW s \in Steps, ClaimLost(s)
       PROVE  Goal
  <2>1. Ledger!Withdraw(s)
    BY <1>11, SameJob DEF Ledger!Withdraw, ClaimLost, Job
  <2> QED
    BY <2>1 DEF Ledger!LedgerNext
<1> QED
  BY <1>2, <1>3, <1>4, <1>5, <1>6, <1>7, <1>8, <1>9, <1>10, <1>11
     DEF Next, Poll, ClaimEnds, Answer, Decide, Replay, vars

\* Every behaviour of the execution graph is a behaviour of the ledger.
THEOREM LedgerImplemented == Spec => ImplementsLedger
<1>1. Init => Ledger!LedgerInit
  BY DEF Init, Ledger!LedgerInit, LedgerState
<1>2. OrderInv /\ [Next]_vars => [Ledger!LedgerNext]_(Ledger!ledgerVars)
  BY NextRefines
<1> QED
  BY <1>1, <1>2, OrderHolds, PTL
     DEF Spec, ImplementsLedger, Ledger!LedgerSpec
=============================================================================
