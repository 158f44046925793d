------------------------ MODULE DispatchOutboxProofs ------------------------
(***************************************************************************)
(* What the outbox promises under whatever worker ids, for any number of   *)
(* dispatches and any attempt budgets: a claim in time is lost only to an  *)
(* earlier execution of the same name, and only a report by the name of    *)
(* the last claim leaves its result on the row.                            *)
(*                                                                         *)
(* The argument follows one dispatch.  Whoever is in charge of it is the   *)
(* execution of its last claim, and only while the row is processing or    *)
(* completed, or has a namesake; so a row that can be claimed again has    *)
(* nobody in charge but namesakes.                                         *)
(***************************************************************************)
EXTENDS DispatchOutbox, SequenceTheorems, FiniteSetTheorems, TLAPS

USE BudgetAssumption, IdAssumption

Busy(d, n) == run[d][n].inTime /\ run[d][n].phase # "over"

-----------------------------------------------------------------------------
(* The inductive invariant. *)

\* The owner of a row is the execution of its last claim.
OwnerClaimedLast(d) ==
    row[d].status = "processing" =>
        row[d].attempts # 0 /\ row[d].owner = IdOf(d, row[d].attempts)

LastInCharge(d) ==
    \A n \in DOMAIN run[d] :
        Busy(d, n) => \/ /\ n = row[d].attempts
                         /\ row[d].status \in {"processing", "completed"}
                      \/ Namesake(d, n)

LastResult(d) == row[d].status = "completed" =>
                   IdOf(d, row[d].result) = IdOf(d, row[d].attempts)

Led(d) == /\ row[d].attempts <= MaxAttempts[d]
          /\ OwnerClaimedLast(d)
          /\ LastInCharge(d) /\ LastResult(d)

\* A well-formed row with its executions, of which the last one leads.
Good(d) == /\ row[d] \in Row
           /\ run[d] \in Seq(Execution)
           /\ row[d].attempts = Len(run[d])
           /\ row[d].owner # Nobody <=> row[d].status = "processing"
           /\ Led(d)

Tables == /\ row = [d \in Dispatches |-> row[d]]
          /\ run = [d \in Dispatches |-> run[d]]

IInv == Tables /\ \A d \in Dispatches : Good(d)

-----------------------------------------------------------------------------
(* What a step does to the executions of one dispatch. *)

\* No execution of d starts, and none takes charge that was not.
Calmer(d) == /\ run'[d] \in Seq(Execution)
             /\ Len(run'[d]) = Len(run[d])
             /\ \A n \in DOMAIN run[d] : Busy(d, n)' => Busy(d, n)

\* The clock or an execution itself may take it out of charge; it touches no
\* other execution.
LEMMA OneMoves ==
  ASSUME IInv, NEW d \in Dispatches, NEW n \in DOMAIN run[d],
         NEW e \in Execution, run' = [run EXCEPT ![d][n] = e],
         e.inTime /\ e.phase # "over" => Busy(d, n)
  PROVE  /\ run' = [x \in Dispatches |-> run'[x]]
         /\ \A x \in Dispatches : Calmer(x)
         /\ run'[d][n] = e
<1>1. /\ run' = [x \in Dispatches |-> run'[x]]
      /\ run'[d] = [run[d] EXCEPT ![n] = e]
      /\ \A x \in Dispatches : x # d => run'[x] = run[x]
  BY DEF IInv, Tables
<1>2. run[d] \in Seq(Execution) /\ n \in 1 .. Len(run[d])
  BY DEF IInv, Good
<1>3. /\ run'[d] \in Seq(Execution)
      /\ Len(run'[d]) = Len(run[d])
      /\ \A m \in 1 .. Len(run[d]) :
           run'[d][m] = IF m = n THEN e ELSE run[d][m]
  BY <1>1, <1>2, ExceptSeq
<1>4. DOMAIN run[d] = 1 .. Len(run[d])
  BY <1>2
<1>5. Calmer(d)
  BY <1>3, <1>4 DEF Calmer, Busy
<1>6. ASSUME NEW x \in Dispatches, x # d PROVE Calmer(x)
  BY <1>1, <1>6 DEF Calmer, Busy, IInv, Good
<1> QED BY <1>1, <1>2, <1>3, <1>5, <1>6

\* Executions that do nothing are calm.
LEMMA StillIsCalm ==
  ASSUME NEW d \in Dispatches, Good(d), run'[d] = run[d]
  PROVE  Calmer(d)
BY DEF Calmer, Busy, Good

\* A dispatch whose row is as before stays good when its executions calm down.
LEMMA CalmerIsGood ==
  ASSUME NEW d \in Dispatches, Good(d), Calmer(d), row'[d] = row[d]
  PROVE  Good(d)'
<1>1. DOMAIN run'[d] = 1 .. Len(run'[d]) /\ DOMAIN run[d] = 1 .. Len(run[d])
  BY DEF Good, Calmer
<1>2. LastInCharge(d) => LastInCharge(d)'
  BY <1>1 DEF LastInCharge, Calmer, Namesake
<1> QED BY <1>2 DEF Good, Calmer, Led, OwnerClaimedLast, LastResult

-----------------------------------------------------------------------------
(* What a step does to the row of one dispatch. *)

\* A row that is given back or given up is a row without an owner.
LEMMA ReleasedRow ==
  ASSUME NEW d \in Dispatches, Good(d), NEW due \in BOOLEAN
  PROVE  /\ GivenBack(d, due) \in Row
         /\ GivenBack(d, due).attempts = row[d].attempts
         /\ GivenBack(d, due).owner = Nobody
         /\ GivenBack(d, due).status \in {"pending", "failed"}
         /\ GivenBack(d, due).status = "pending"
              => row[d].attempts < MaxAttempts[d]
<1> USE DEF Good, Row, GivenBack
<1>1. row[d].attempts \in Nat /\ MaxAttempts[d] \in Nat
  OBVIOUS
<1>2. CASE Exhausted(d)
  <2>1. GivenBack(d, due) = [row[d] EXCEPT !.status = "failed", !.owner = Nobody]
    BY <1>2
  <2> QED BY <2>1
<1>3. CASE ~Exhausted(d)
  <2>1. GivenBack(d, due) = [row[d] EXCEPT !.status = "pending", !.due = due,
                                          !.owner = Nobody]
    BY <1>3
  <2>2. row[d].attempts < MaxAttempts[d]
    BY <1>1, <1>3 DEF Exhausted
  <2> QED BY <2>1, <2>2
<1> QED BY <1>2, <1>3

\* A dispatch stays good when its row is released and only namesakes are in charge.
LEMMA ReleasedIsGood ==
  ASSUME NEW d \in Dispatches, Good(d), Calmer(d), NEW due \in BOOLEAN,
         row'[d] = GivenBack(d, due),
         \A n \in DOMAIN run[d] : Busy(d, n)' => Namesake(d, n)
  PROVE  Good(d)'
<1>1. DOMAIN run'[d] = DOMAIN run[d]
  BY DEF Good, Calmer
<1>2. LastInCharge(d)'
  BY <1>1 DEF LastInCharge, Namesake
<1>3. row'[d] \in Row /\ row'[d].attempts = row[d].attempts
      /\ row'[d].owner = Nobody /\ row'[d].status \in {"pending", "failed"}
  BY ReleasedRow
<1> QED BY <1>2, <1>3
     DEF Good, Calmer, Led, OwnerClaimedLast, LastResult

\* The sweep of claim_task_dispatch releases only a claim that is out of time;
\* afterwards only namesakes are in charge of a row that waits.
LEMMA Swept ==
  ASSUME NEW d \in Dispatches, Good(d)
  PROVE  /\ row'[d] = SweptRow[d] /\ run'[d] = run[d] => Good(d)'
         /\ SweptRow[d].attempts = row[d].attempts
         /\ SweptRow[d] \in Row
         /\ SweptRow[d].status = "pending" =>
              \A n \in DOMAIN run[d] : Busy(d, n) => Namesake(d, n)
<1>1. SweptRow[d] = IF Abandoned(d) THEN GivenBack(d, TRUE) ELSE row[d]
  BY DEF SweptRow
<1>2. CASE Abandoned(d)
  <2>1. \A n \in DOMAIN run[d] : Busy(d, n) => Namesake(d, n)
    BY <1>2 DEF Abandoned, Good, Led, LastInCharge, Busy
  <2>2. ASSUME row'[d] = SweptRow[d], run'[d] = run[d] PROVE Good(d)'
    <3>1. Calmer(d)
      BY <2>2, StillIsCalm
    <3>2. \A n \in DOMAIN run[d] : Busy(d, n)' => Namesake(d, n)
      BY <2>1, <2>2 DEF Busy
    <3> QED BY <1>1, <1>2, <2>2, <3>1, <3>2, ReleasedIsGood
  <2> QED BY <1>1, <1>2, <2>1, <2>2, ReleasedRow
<1>3. CASE ~Abandoned(d)
  <2>1. ASSUME row'[d] = row[d], run'[d] = run[d] PROVE Good(d)'
    <3>1. Calmer(d)
      BY <2>1, StillIsCalm
    <3> QED BY <2>1, <3>1, CalmerIsGood
  <2>2. SweptRow[d] = row[d]
    BY <1>1, <1>3
  <2>3. row[d].status = "pending" =>
          \A n \in DOMAIN run[d] : Busy(d, n) => Namesake(d, n)
    BY DEF Good, Led, LastInCharge
  <2>4. row[d] \in Row
    BY DEF Good
  <2> QED BY <2>1, <2>2, <2>3, <2>4
<1> QED BY <1>2, <1>3

\* A claim starts the one execution in charge, but for namesakes.
LEMMA Claimed ==
  ASSUME NEW d \in Dispatches, Good(d), Claim(d),
         run'[d] = Append(run[d], [phase |-> "claimed", inTime |-> TRUE]),
         row'[d] = [SweptRow[d] EXCEPT !.status = "processing",
                                       !.attempts = @ + 1,
                                       !.owner = IdOf(d, row[d].attempts + 1)]
  PROVE  Good(d)'
<1> DEFINE e == [phase |-> "claimed", inTime |-> TRUE]
           last == Len(run[d]) + 1
<1>1. e \in Execution /\ run[d] \in Seq(Execution)
  BY DEF Execution, Good
<1>2. /\ run'[d] \in Seq(Execution)
      /\ Len(run'[d]) = last
      /\ \A n \in 1 .. Len(run[d]) : run'[d][n] = run[d][n]
  BY <1>1, AppendProperties
<1>3. /\ SweptRow[d] \in Row
      /\ SweptRow[d].attempts = row[d].attempts
      /\ row[d].attempts = Len(run[d])
      /\ row[d].attempts \in Nat
  BY Swept DEF Good, Row
<1>4. /\ row[d].attempts < MaxAttempts[d]
      /\ MaxAttempts[d] \in Nat
  BY <1>3 DEF Claim, Exhausted
<1>5. IdOf(d, last) \in WorkerIds /\ last \in Nat /\ last # 0
  BY <1>3, <1>4
<1>6. /\ row'[d] \in Row
      /\ row'[d].attempts = last
      /\ row'[d].owner = IdOf(d, last)
      /\ row'[d].status = "processing"
  <2> DEFINE s == SweptRow[d]
             id == IdOf(d, last)
  <2>1. row'[d] = [s EXCEPT !.status = "processing", !.attempts = last,
                            !.owner = id]
    BY <1>3
  <2>2. s \in Row /\ last \in Nat /\ id \in WorkerIds
    BY <1>3, <1>5
  <2> HIDE DEF s, id, last
  <2>3. /\ row'[d] \in Row
        /\ row'[d].attempts = last
        /\ row'[d].owner = id
        /\ row'[d].status = "processing"
    BY <2>1, <2>2 DEF Row
  <2> QED BY <2>3 DEF id
<1>7. LastInCharge(d)'
  <2> SUFFICES ASSUME NEW n \in DOMAIN run'[d], Busy(d, n)', ~Namesake(d, n)
               PROVE  n = last
    BY <1>6 DEF LastInCharge, Namesake
  <2>1. n \in 1 .. last /\ DOMAIN run[d] = 1 .. Len(run[d])
    BY <1>1, <1>2
  <2>2. ASSUME n \in 1 .. Len(run[d]) PROVE FALSE
    <3>1. Busy(d, n)
      BY <1>2, <2>2 DEF Busy
    <3> QED BY <2>1, <2>2, <3>1, Swept DEF Claim
  <2> QED BY <1>3, <2>1, <2>2
<1>8. OwnerClaimedLast(d)' /\ LastResult(d)'
  BY <1>3, <1>6 DEF OwnerClaimedLast, LastResult
<1>9. row'[d].owner # Nobody
  BY <1>5, <1>6
<1>10. row'[d].attempts <= MaxAttempts[d]
  BY <1>3, <1>4, <1>6
<1> HIDE DEF last
<1> QED BY <1>2, <1>6, <1>7, <1>8, <1>9, <1>10 DEF Good, Led

-----------------------------------------------------------------------------
(* The invariant of the outbox. *)

\* Nothing is enqueued at first.
LEMMA InitGood == OutboxInit => IInv
<1> SUFFICES ASSUME OutboxInit PROVE IInv
  OBVIOUS
<1>1. Tables
  BY DEF OutboxInit, Tables
<1>2. ASSUME NEW d \in Dispatches PROVE Good(d)
  <2>1. /\ row[d] = [status |-> "absent", attempts |-> 0, owner |-> Nobody,
                     due |-> FALSE, result |-> 0]
        /\ run[d] = <<>>
    BY DEF OutboxInit
  <2>2. row[d] \in Row
    BY <2>1 DEF Row
  <2>3. run[d] \in Seq(Execution) /\ Len(run[d]) = 0 /\ DOMAIN run[d] = {}
    BY <2>1
  <2> QED BY <2>1, <2>2, <2>3
       DEF Good, Led, OwnerClaimedLast, LastInCharge, LastResult
<1> QED BY <1>1, <1>2 DEF IInv

\* A call that finds its execution the owner bears the name of the last claim.
LEMMA OwnerIsNamed ==
  ASSUME NEW d \in Dispatches, Good(d), NEW n \in DOMAIN run[d], Owns(d, n)
  PROVE  /\ IdOf(d, n) = IdOf(d, row[d].attempts)
         /\ n \in Nat /\ row[d].attempts \in Nat
         /\ n # row[d].attempts => Namesake(d, row[d].attempts)
<1>1. /\ row[d].attempts \in Nat
      /\ row[d].attempts = Len(run[d])
      /\ row[d].owner = IdOf(d, row[d].attempts)
  BY DEF Good, Led, OwnerClaimedLast, Owns, Row
<1>2. n \in 1 .. row[d].attempts
  BY <1>1 DEF Good
<1>3. n # row[d].attempts => n \in 1 .. row[d].attempts - 1
  BY <1>1, <1>2
<1>4. IdOf(d, n) = IdOf(d, row[d].attempts)
  BY <1>1 DEF Owns
<1>5. n # row[d].attempts => Namesake(d, row[d].attempts)
  BY <1>3, <1>4, Zenon DEF Namesake
<1> QED BY <1>1, <1>2, <1>4, <1>5

\* An execution calls the provider or reports.
LEMMA WorksKeepsGood ==
  ASSUME IInv, NEW d \in Dispatches, NEW n \in DOMAIN run[d], Works(d, n)
  PROVE  IInv'
<1> DEFINE e(phase) == [run[d][n] EXCEPT !.phase = phase]
<1>1. run[d] \in Seq(Execution) /\ run[d][n] \in Execution
  BY DEF IInv, Good
<1>2. ASSUME NEW phase \in {"sent", "erred", "over"}, Moved(d, n, phase),
             run[d][n].phase # "over"
      PROVE  /\ run' = [x \in Dispatches |-> run'[x]]
             /\ \A x \in Dispatches : Calmer(x)
             /\ run'[d][n].phase = phase
  <2>1. run' = [run EXCEPT ![d][n] = e(phase)]
    BY <1>2 DEF Moved
  <2>2. /\ e(phase) \in Execution
        /\ e(phase).inTime = run[d][n].inTime
        /\ e(phase).phase = phase
    BY <1>1, <1>2 DEF Execution
  <2>3. e(phase).inTime /\ e(phase).phase # "over" => Busy(d, n)
    BY <1>2, <2>2 DEF Busy
  <2> HIDE DEF e
  <2> QED BY <2>1, <2>2, <2>3, OneMoves
<1>3. \A x \in Dispatches : Good(x)
  BY DEF IInv
<1>4. CASE ProviderCall(d, n)
  <2>1. PICK phase \in {"sent", "erred"} : Moved(d, n, phase)
    BY <1>4 DEF ProviderCall
  <2>2. /\ run' = [x \in Dispatches |-> run'[x]]
        /\ \A x \in Dispatches : Calmer(x)
    BY <1>2, <1>4, <2>1 DEF ProviderCall
  <2>3. row' = row
    BY <1>4 DEF ProviderCall
  <2>4. \A x \in Dispatches : Good(x)'
    BY <1>3, <2>2, <2>3, CalmerIsGood
  <2> QED BY <2>2, <2>3, <2>4 DEF IInv, Tables
<1>5. CASE Complete(d, n)
  <2>1. /\ run' = [x \in Dispatches |-> run'[x]]
        /\ \A x \in Dispatches : Calmer(x)
    <3>1. CASE Moved(d, n, "over")
      BY <1>2, <1>5, <3>1 DEF Complete
    <3>2. CASE run' = run
      BY <1>3, <3>2, StillIsCalm DEF IInv, Tables
    <3> QED BY <1>5, <3>1, <3>2 DEF Complete
  <2>2. CASE row' = row
    <3>1. \A x \in Dispatches : Good(x)'
      BY <1>3, <2>1, <2>2, CalmerIsGood
    <3> QED BY <2>1, <2>2, <3>1 DEF IInv, Tables
  <2>3. CASE /\ Owns(d, n)
             /\ row' = [row EXCEPT ![d].status = "completed",
                                   ![d].owner = Nobody, ![d].result = n]
    <3>1. /\ row' = [x \in Dispatches |-> row'[x]]
          /\ row'[d] = [row[d] EXCEPT !.status = "completed",
                                      !.owner = Nobody, !.result = n]
          /\ \A x \in Dispatches : x # d => row'[x] = row[x]
      BY <2>3 DEF IInv, Tables
    <3>2. n \in Nat
      BY <1>1
    <3>3. /\ row'[d] \in Row
          /\ row'[d].status = "completed"
          /\ row'[d].owner = Nobody
          /\ row'[d].result = n
          /\ row'[d].attempts = row[d].attempts
      BY <1>3, <3>1, <3>2 DEF Good, Row
    <3>4. DOMAIN run'[d] = DOMAIN run[d]
      BY <1>1, <2>1 DEF Calmer
    <3>5. LastInCharge(d)' /\ LastResult(d)'
      <4>1. IdOf(d, n) = IdOf(d, row[d].attempts)
        BY <1>3, <2>3, OwnerIsNamed
      <4>2. \A m \in DOMAIN run[d] :
              Busy(d, m)' => m = row[d].attempts \/ Namesake(d, m)
        BY <1>3, <2>1 DEF Calmer, Good, Led, LastInCharge
      <4> QED BY <3>3, <3>4, <4>1, <4>2 DEF LastInCharge, LastResult, Namesake
    <3>6. Good(d)'
      BY <1>3, <2>1, <3>3, <3>5
         DEF Good, Calmer, Led, OwnerClaimedLast
    <3>7. \A x \in Dispatches : x # d => Good(x)'
      BY <1>3, <2>1, <3>1, CalmerIsGood
    <3> QED BY <2>1, <3>1, <3>6, <3>7 DEF IInv, Tables
  <2> QED BY <1>5, <2>2, <2>3 DEF Complete
<1>6. CASE Retry(d, n)
  <2>1. /\ run' = [x \in Dispatches |-> run'[x]]
        /\ \A x \in Dispatches : Calmer(x)
        /\ run'[d][n].phase = "over"
    BY <1>2, <1>6 DEF Retry
  <2>2. CASE row' = row
    <3>1. \A x \in Dispatches : Good(x)'
      BY <1>3, <2>1, <2>2, CalmerIsGood
    <3> QED BY <2>1, <2>2, <3>1 DEF IInv, Tables
  <2>3. CASE Owns(d, n) /\ row' = [row EXCEPT ![d] = GivenBack(d, FALSE)]
    <3>1. /\ row' = [x \in Dispatches |-> row'[x]]
          /\ row'[d] = GivenBack(d, FALSE)
          /\ \A x \in Dispatches : x # d => row'[x] = row[x]
      BY <2>3 DEF IInv, Tables
    <3>2. \A m \in DOMAIN run[d] : Busy(d, m)' => Namesake(d, m)
      <4> SUFFICES ASSUME NEW m \in DOMAIN run[d], Busy(d, m)', ~Namesake(d, m)
                   PROVE  FALSE
        OBVIOUS
      <4>1. m = row[d].attempts
        BY <1>3, <2>1 DEF Calmer, Good, Led, LastInCharge
      <4>2. n = row[d].attempts
        BY <1>3, <2>3, <4>1, OwnerIsNamed
      <4> QED BY <2>1, <4>1, <4>2 DEF Busy
    <3>3. Good(d)'
      BY <1>3, <2>1, <3>1, <3>2, ReleasedIsGood
    <3>4. \A x \in Dispatches : x # d => Good(x)'
      BY <1>3, <2>1, <3>1, CalmerIsGood
    <3> QED BY <2>1, <3>1, <3>3, <3>4 DEF IInv, Tables
  <2> QED BY <1>6, <2>2, <2>3 DEF Retry
<1> QED BY <1>4, <1>5, <1>6 DEF Works

\* The workflow polls: it sweeps every row and claims at most one.
LEMMA PollKeepsGood == IInv /\ Poll => IInv'
<1> SUFFICES ASSUME IInv, Poll PROVE IInv'
  OBVIOUS
<1>1. \A x \in Dispatches : Good(x)
  BY DEF IInv
<1>2. CASE ClaimNothing
  <2>1. row' = SweptRow /\ run' = run
    BY <1>2 DEF ClaimNothing
  <2>2. \A x \in Dispatches : Good(x)'
    BY <1>1, <2>1, Swept
  <2>3. SweptRow = [x \in Dispatches |-> SweptRow[x]]
    BY DEF SweptRow
  <2> QED BY <2>1, <2>2, <2>3 DEF IInv, Tables
<1>3. ASSUME NEW d \in Dispatches, Claim(d) PROVE IInv'
  <2> DEFINE e == [phase |-> "claimed", inTime |-> TRUE]
  <2>1. SweptRow = [x \in Dispatches |-> SweptRow[x]]
    BY DEF SweptRow
  <2>2. /\ row' = [x \in Dispatches |-> row'[x]]
        /\ run' = [x \in Dispatches |-> run'[x]]
    BY <1>3, <2>1 DEF Claim, IInv, Tables
  <2>3. \A x \in Dispatches : x # d => row'[x] = SweptRow[x] /\ run'[x] = run[x]
    BY <1>3, <2>1 DEF Claim, IInv, Tables
  <2>4. run'[d] = Append(run[d], e)
    BY <1>3 DEF Claim, IInv, Tables
  <2>5. row'[d] = [SweptRow[d] EXCEPT !.status = "processing",
                                      !.attempts = @ + 1,
                                      !.owner = IdOf(d, row[d].attempts + 1)]
    BY <1>3, <2>1 DEF Claim
  <2>6. Good(d)'
    BY <1>1, <1>3, <2>4, <2>5, Claimed
  <2>7. \A x \in Dispatches : x # d => Good(x)'
    BY <1>1, <2>3, Swept
  <2> QED BY <2>2, <2>6, <2>7 DEF IInv, Tables
<1> QED BY <1>2, <1>3 DEF Poll

\* A new intent, a backoff that ends and a lease that runs out.
LEMMA RestKeepsGood ==
  ASSUME IInv, NEW d \in Dispatches, Enqueue(d) \/ TimePasses(d)
  PROVE  IInv'
<1>1. \A x \in Dispatches : Good(x)
  BY DEF IInv
<1>2. CASE Enqueue(d) \/ BecomeDue(d)
  <2>1. PICK due \in BOOLEAN :
          row' = [row EXCEPT ![d].status = "pending", ![d].due = due]
    <3>1. CASE Enqueue(d)
      BY <3>1 DEF Enqueue
    <3>2. CASE BecomeDue(d)
      <4>1. row' = [row EXCEPT ![d].status = "pending", ![d].due = TRUE]
        BY <1>1, <3>2 DEF BecomeDue, IInv, Tables, Good, Row
      <4> QED BY <4>1
    <3> QED BY <1>2, <3>1, <3>2
  <2>2. run' = run /\ row[d].status \in {"absent", "pending"}
    BY <1>2 DEF Enqueue, BecomeDue
  <2>3. /\ row' = [x \in Dispatches |-> row'[x]]
        /\ row'[d] = [row[d] EXCEPT !.status = "pending", !.due = due]
        /\ \A x \in Dispatches : x # d => row'[x] = row[x]
    BY <2>1 DEF IInv, Tables
  <2>4. \A x \in Dispatches : Calmer(x)
    BY <1>1, <2>2, StillIsCalm
  <2>5. /\ row'[d] \in Row
        /\ row'[d].status = "pending"
        /\ row'[d].owner = row[d].owner
        /\ row'[d].attempts = row[d].attempts
    BY <1>1, <2>3 DEF Good, Row
  <2>6. LastInCharge(d)'
    BY <1>1, <2>2 DEF Good, Led, LastInCharge, Busy, Namesake
  <2>7. Good(d)'
    BY <1>1, <2>2, <2>5, <2>6
       DEF Good, Led, OwnerClaimedLast, LastResult
  <2>8. \A x \in Dispatches : x # d => Good(x)'
    BY <1>1, <2>3, <2>4, CalmerIsGood
  <2> QED BY <2>2, <2>3, <2>7, <2>8 DEF IInv, Tables
<1>3. ASSUME NEW n \in DOMAIN run[d], LeaseRunsOut(d, n) PROVE IInv'
  <2> DEFINE e == [run[d][n] EXCEPT !.inTime = FALSE]
  <2>1. run[d] \in Seq(Execution) /\ run[d][n] \in Execution
    BY <1>1 DEF Good
  <2>2. e \in Execution /\ ~e.inTime
    BY <2>1 DEF Execution
  <2>3. run' = [run EXCEPT ![d][n] = e] /\ row' = row
    BY <1>3 DEF LeaseRunsOut
  <2> HIDE DEF e
  <2>4. /\ run' = [x \in Dispatches |-> run'[x]]
        /\ \A x \in Dispatches : Calmer(x)
    BY <2>2, <2>3, OneMoves
  <2>5. \A x \in Dispatches : Good(x)'
    BY <1>1, <2>3, <2>4, CalmerIsGood
  <2> QED BY <2>3, <2>4, <2>5 DEF IInv, Tables
<1> QED BY <1>2, <1>3 DEF TimePasses

\* The invariant holds whatever the executions, the workflow and the clock do.
LEMMA IInvHolds == OutboxSpec => []IInv
<1>1. IInv /\ [OutboxNext]_outboxVars => IInv'
  <2> SUFFICES ASSUME IInv, [OutboxNext]_outboxVars PROVE IInv'
    OBVIOUS
  <2>1. CASE OutboxNext
    BY <2>1, PollKeepsGood, RestKeepsGood, WorksKeepsGood DEF OutboxNext
  <2>2. CASE UNCHANGED outboxVars
    BY <2>2 DEF outboxVars, IInv, Tables, Good, Led, OwnerClaimedLast, LastInCharge,
                LastResult, Busy, Namesake
  <2> QED BY <2>1, <2>2
<1> QED BY InitGood, <1>1, PTL DEF OutboxSpec

-----------------------------------------------------------------------------
(* What the outbox promises. *)

\* Every row is well formed, has an owner exactly while it is processing
\* (task_dispatches_lock_check), and counts one attempt for each of its claims.
THEOREM OutboxTyped == OutboxSpec => []OutboxTypeOK
<1>1. IInv => OutboxTypeOK
  BY DEF IInv, Tables, Good, OutboxTypeOK
<1> QED BY <1>1, IInvHolds, PTL

\* claim_task_dispatch counts an attempt for every claim and never leases a row
\* beyond its budget: max_attempts bounds how often a provider is called.
THEOREM BudgetKept ==
    OutboxSpec => [](\A d \in Dispatches : Len(run[d]) <= MaxAttempts[d])
<1>1. IInv => \A d \in Dispatches : Len(run[d]) <= MaxAttempts[d]
  BY DEF IInv, Good, Led
<1> QED BY <1>1, IInvHolds, PTL

\* Whatever the worker ids: an execution in charge keeps its claim from everyone
\* but an earlier execution of the same name (complete_ and retry_task_dispatch
\* compare the owner, claim_task_dispatch the age of the claim).
THEOREM ClaimsKeptFromOthers == OutboxSpec => []LostToNamesakesOnly
<1>1. IInv => LostToNamesakesOnly
  BY DEF IInv, Good, Led, LastInCharge, LostToNamesakesOnly, InCharge, Busy
<1> QED BY <1>1, IInvHolds, PTL

\* So claims are exclusive, if every execution of d has a worker id of its own.
\* The runbook's stable id is not of this kind.
THEOREM OwnIdsClaimExclusively ==
    OutboxSpec => [](\A d \in Dispatches :
                 (\A m, n \in 1 .. MaxAttempts[d] :
                    m # n => IdOf(d, m) # IdOf(d, n))
                 => Cardinality(InCharge(d)) <= 1)
<1>1. ASSUME IInv, NEW d \in Dispatches,
             \A m, n \in 1 .. MaxAttempts[d] : m # n => IdOf(d, m) # IdOf(d, n)
      PROVE  Cardinality(InCharge(d)) <= 1
  <2>1. InCharge(d) \subseteq {row[d].attempts}
    <3> SUFFICES ASSUME NEW n \in InCharge(d) PROVE n = row[d].attempts
      OBVIOUS
    <3>1. n \in 1 .. Len(run[d]) /\ Len(run[d]) \in Nat
      BY <1>1 DEF InCharge, IInv, Good
    <3>2. n \in 1 .. MaxAttempts[d] /\ MaxAttempts[d] \in Nat
      BY <1>1, <3>1 DEF IInv, Good, Led
    <3>3. ~Namesake(d, n)
      BY <1>1, <3>2 DEF Namesake
    <3> QED BY <1>1, <3>3 DEF IInv, Good, Led, LastInCharge, InCharge, Busy
  <2>2. /\ IsFiniteSet({row[d].attempts})
        /\ Cardinality({row[d].attempts}) = 1
    BY FS_Singleton
  <2> QED BY <2>1, <2>2, FS_Subset
<1>2. IInv => \A d \in Dispatches :
                 (\A m, n \in 1 .. MaxAttempts[d] :
                    m # n => IdOf(d, m) # IdOf(d, n))
                 => Cardinality(InCharge(d)) <= 1
  BY <1>1
<1> QED BY <1>2, IInvHolds, PTL

\* Whatever the worker ids: the result on a completed row is that of an execution
\* by the name of its last claim, however late earlier executions answer.
THEOREM LastClaimReports == OutboxSpec => []ResultOfLastClaim
<1>1. IInv => ResultOfLastClaim
  BY DEF IInv, Good, Led, LastResult, ResultOfLastClaim
<1> QED BY <1>1, IInvHolds, PTL
=============================================================================
