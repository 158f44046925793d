----------------------------- MODULE CaptureQueue ---------------------------
(***************************************************************************)
(* Background memory (litegraph-memory-facade): what a caller says is      *)
(* captured in a queue, and workers turn each capture into facts of the    *)
(* owner's graph.  A worker holds a job under a lease that fences its      *)
(* checkpoints, but not its writes to the graph: those are made harmless   *)
(* by receipts, under a key per fact and repair and for the exact payload. *)
(*                                                                         *)
(* Captures are numbered by created_at, and one is committed before the    *)
(* next is created.  The n-th claim of a capture gets the lease token n.   *)
(* now() is the time a transaction begins, so a checkpoint, and a claim,   *)
(* is two steps: what is compared with the clock, and what is written; and *)
(* between them a checkpoint may take longer than the back-off it writes.  *)
(***************************************************************************)
EXTENDS Integers, Sequences, FiniteSets

CONSTANTS
    Workers,        \* worker loops, of one or several processes
    Drafts,         \* Drafts[c]: what extraction can make of capture c, a set of
                    \* sequences of dispositions, one for each unit it finds
    MaxAttempts,    \* attempts a capture is given (3 in the code)
    MaxFaults       \* bound: crashes, leases overrun and lost connections

Dispositions == {"retain", "clarify", "ignore"}

ASSUME CaptureAssumption == /\ Drafts \in Seq(SUBSET (Seq(Dispositions) \ {<<>>}))
                            /\ MaxAttempts \in Nat \ {0}
                            /\ MaxFaults \in Nat

VARIABLES
    row,        \* rows of memory_captures
    job,        \* job[w]: what the worker holds in memory
    graph,      \* the receipts in the graph, each with its facts
    faults      \* faults so far

vars == <<row, job, graph, faults>>

-----------------------------------------------------------------------------
Captures == DOMAIN Drafts

MaxRepairs == 2

Final == {"complete", "partial", "needs_attention"}

\* A payload is named by the attempt that prepared it; "ok" is whether the graph
\* accepts it, which is a matter of its arguments.
NoPayload == [by |-> 0, ok |-> FALSE]

Unit == [state : {"pending", "prepared", "saved", "ignored",
                  "needs_clarification", "needs_attention"},
         repairs : 0 .. MaxRepairs, payload : [by : Nat, ok : BOOLEAN]]

NoPlan == <<>>

\* "due" is available_at <= now(), "lease" lease_until > now().
Row == [state : {"absent", "pending", "processing"} \cup Final,
        attempts : Nat, lease : BOOLEAN, due : BOOLEAN, plan : Seq(Unit)]

\* pc "saving", "writing" and "late" are a checkpoint, "why" the place it is called
\* from; "late" is one whose transaction began longer ago than the back-off.
Job == [pc : {"idle", "looked", "extract", "unit", "saving", "writing", "late"},
        why : {"none", "plan", "prepared", "done", "skip", "final",
               "rescue"},
        capture : Nat, attempt : Nat, plan : Seq(Unit), at : Nat]

NoJob == [pc |-> "idle", why |-> "none", capture |-> 0, attempt |-> 0,
          plan |-> NoPlan, at |-> 0]

Init == /\ row = [c \in Captures |-> [state |-> "absent", attempts |-> 0,
                                      lease |-> FALSE, due |-> TRUE,
                                      plan |-> NoPlan]]
        /\ job = [w \in Workers |-> NoJob]
        /\ graph = {}
        /\ faults = 0

Fault == faults < MaxFaults /\ faults' = faults + 1

-----------------------------------------------------------------------------
(* CaptureQueue. *)

\* A repeated capture changes nothing.
Capture(c) == /\ row[c].state = "absent"
              /\ \A d \in Captures : d < c => row[d].state # "absent"
              /\ row' = [row EXCEPT ![c].state = "pending"]
              /\ UNCHANGED <<job, graph, faults>>

Waiting(c) == row[c].state \in {"pending", "processing"}

\* Mutant: a capture that is not due is passed over.
OldestDue(c) == /\ Waiting(c) /\ row[c].due
                   /\ \A d \in Captures : d < c => ~(Waiting(d) /\ row[d].due)

\* A newer capture does not overtake a retry.
Oldest(c) == Waiting(c) /\ \A d \in Captures : d < c => ~Waiting(d)

\* Mutant: a job that was begun is being done.
BusyForever(c) == row[c].state = "processing"

Busy(c) == row[c].state = "processing" /\ row[c].lease

\* claim takes the owner's lock and looks for a job that is being done.
Look(w) == /\ job[w].pc = "idle"
           /\ \A v \in Workers : job[v].pc # "looked"
           /\ \A c \in Captures : ~Busy(c)
           /\ \E c \in Captures : Oldest(c) /\ row[c].due
           /\ job' = [job EXCEPT ![w].pc = "looked"]
           /\ UNCHANGED <<row, graph, faults>>

Claimed(w, c) ==
    /\ row' = [row EXCEPT ![c].state = "processing", ![c].lease = TRUE,
                          ![c].attempts = @ + 1]
    /\ job' = [job EXCEPT ![w] =
                 [NoJob EXCEPT !.pc = IF row[c].plan = NoPlan THEN "extract"
                                      ELSE "unit",
                               !.capture = c, !.at = 1,
                               !.attempt = row[c].attempts + 1,
                               !.plan = row[c].plan]]

\* Then it takes the first job, as that is now, unless its row is not due.
Take(w) ==
    /\ job[w].pc = "looked"
    /\ \/ \E c \in Captures : Oldest(c) /\ row[c].due /\ Claimed(w, c)
       \/ /\ ~\E c \in Captures : Oldest(c) /\ row[c].due
          /\ job' = [job EXCEPT ![w] = NoJob]
          /\ UNCHANGED row
    /\ UNCHANGED <<graph, faults>>

-----------------------------------------------------------------------------
(* CaptureWorker.process. *)

Open(u) == u.state \in {"pending", "prepared"}

OpenFrom(plan, i) == {k \in i .. Len(plan) : Open(plan[k])}

HasOpen(plan) == OpenFrom(plan, 1) # {}

\* The unit w is at.
Current(w) == LET ks == OpenFrom(job[w].plan, job[w].at)
              IN  CHOOSE k \in ks : \A l \in ks : k <= l

AtUnit(w, state) ==
    /\ job[w].pc = "unit"
    /\ OpenFrom(job[w].plan, job[w].at) # {}
    /\ job[w].plan[Current(w)].state = state

\* A checkpoint is to be made, of the plan as it is in memory.
Saving(w, plan, why) ==
    job' = [job EXCEPT ![w].pc = "saving", ![w].why = why, ![w].plan = plan,
                       ![w].at = IF OpenFrom(job[w].plan, @) # {} THEN Current(w)
                                 ELSE @]

NewUnit(disposition) ==
    [state |-> CASE disposition = "retain" -> "pending"
                 [] disposition = "clarify" -> "needs_clarification"
                 [] disposition = "ignore" -> "ignored",
     repairs |-> 0, payload |-> NoPayload]

Extract(w) ==
    /\ job[w].pc = "extract"
    /\ \/ \E draft \in Drafts[job[w].capture] :
            Saving(w, [k \in DOMAIN draft |-> NewUnit(draft[k])], "plan")
       \/ Saving(w, NoPlan, "rescue")
    /\ UNCHANGED <<row, graph, faults>>

Put(w, unit) == [job[w].plan EXCEPT ![Current(w)] = unit]

\* Mutant: the graph is written before the payload is durable.
PrepareAndGo(w) ==
    /\ AtUnit(w, "pending")
    /\ \E ok \in BOOLEAN :
         job' = [job EXCEPT ![w].at = Current(w), ![w].plan =
                   [@ EXCEPT ![Current(w)].state = "prepared",
                             ![Current(w)].payload = [by |-> job[w].attempt,
                                                      ok |-> ok]]]
    /\ UNCHANGED <<row, graph, faults>>

\* The resolver asks models.  The heartbeats between its steps write what the row
\* has, to keep the lease, and are left out: a lease lost meanwhile is found lost
\* by the checkpoint that follows.
Prepare(w) ==
    /\ AtUnit(w, "pending")
    /\ LET u == job[w].plan[Current(w)]
       IN  \/ \E state \in {"saved", "needs_clarification"} :
                Saving(w, Put(w, [u EXCEPT !.state = state]), "done")
           \/ \E ok \in BOOLEAN :
                Saving(w, Put(w, [u EXCEPT !.state = "prepared",
                                           !.payload = [by |-> job[w].attempt,
                                                        ok |-> ok]]), "prepared")
           \/ Saving(w, job[w].plan, "skip")
    /\ UNCHANGED <<row, graph, faults>>

Receipt(w) == LET u == job[w].plan[Current(w)]
              IN  [capture |-> job[w].capture, fact |-> Current(w),
                   key |-> u.repairs, by |-> u.payload.by]

\* The receipt under the key of r, if there is one.
Found(r) == {s \in graph : /\ s.capture = r.capture
                           /\ s.fact = r.fact
                           /\ s.key = r.key}

StoredUnit(w) == [job[w].plan[Current(w)] EXCEPT !.state = "saved"]

\* A definite rejection; not every error is one the resolver may correct.
Rejected(w) ==
    LET u == job[w].plan[Current(w)]
    IN  \E state \in {"pending", "needs_attention"} :
          /\ state = "pending" => u.repairs + 1 < MaxRepairs
          /\ Saving(w, Put(w, [state |-> state, repairs |-> u.repairs + 1,
                               payload |-> NoPayload]), "done")

\* Mutant: an error of the graph is taken for an answer.
StoreUnread(w) ==
    /\ AtUnit(w, "prepared")
    /\ Saving(w, Put(w, StoredUnit(w)), "done")
    /\ graph' = graph \cup {Receipt(w)} \/ UNCHANGED graph
    /\ UNCHANGED <<row, faults>>

\* GraphMemory.store: a payload under a key that has its receipt is not written
\* again.  An error leaves open whether the facts were written.
Store(w) ==
    /\ AtUnit(w, "prepared")
    /\ LET r == Receipt(w)
           ok == job[w].plan[Current(w)].payload.ok
       IN  \/ r \in graph /\ Saving(w, Put(w, StoredUnit(w)), "done")
                          /\ UNCHANGED graph
           \/ /\ Found(r) = {} /\ ok
              /\ graph' = graph \cup {r}
              /\ Saving(w, Put(w, StoredUnit(w)), "done")
                 \/ Saving(w, job[w].plan, "skip")
           \/ /\ \/ Found(r) \ {r} # {}
                 \/ Found(r) = {} /\ ~ok
              /\ Rejected(w)
              /\ UNCHANGED graph
           \/ Saving(w, job[w].plan, "skip") /\ UNCHANGED graph
    /\ UNCHANGED <<row, faults>>

\* With no attempt left, what is open needs attention.
Closed(w) ==
    [k \in DOMAIN job[w].plan |->
       IF Open(job[w].plan[k]) /\ job[w].attempt >= MaxAttempts
       THEN [job[w].plan[k] EXCEPT !.state = "needs_attention"]
       ELSE job[w].plan[k]]

Finish(w) == /\ job[w].pc = "unit"
             /\ OpenFrom(job[w].plan, job[w].at) = {}
             /\ Saving(w, Closed(w), "final")
             /\ UNCHANGED <<row, graph, faults>>

-----------------------------------------------------------------------------
(* CaptureQueue.checkpoint, and who catches what it raises.                 *)

Outcome(plan) ==
    CASE \A k \in DOMAIN plan : plan[k].state \in {"saved", "ignored"} -> "complete"
      [] \E k \in DOMAIN plan : plan[k].state = "saved"
           /\ \E l \in DOMAIN plan : plan[l].state \notin {"saved", "ignored"}
           -> "partial"
      [] OTHER -> "needs_attention"

StateWritten(j) ==
    CASE j.why = "rescue" -> IF j.attempt < MaxAttempts THEN "pending"
                             ELSE "needs_attention"
      [] j.why = "final" -> IF HasOpen(j.plan) THEN "pending" ELSE Outcome(j.plan)
      [] OTHER -> "processing"

\* Mutant: the token is not compared.
FencedByLease(w) == row[job[w].capture].state # "absent"

Fenced(w) == row[job[w].capture].attempts = job[w].attempt

Ended(w) == job' = [job EXCEPT ![w] = NoJob]

\* A skipped unit is left for the next attempt.
Returns(w) == IF job[w].why \in {"final", "rescue"} THEN Ended(w)
              ELSE job' = [job EXCEPT ![w].pc = "unit", ![w].why = "none",
                                      ![w].at = IF job[w].why = "skip" THEN @ + 1
                                                ELSE @]

\* An error inside the loop over a unit is caught there, others by run; the plan
\* just extracted is not in the job yet.
Raises(w) ==
    CASE job[w].why \in {"prepared", "done"} ->
           job' = [job EXCEPT ![w].pc = "saving", ![w].why = "skip"]
      [] job[w].why = "plan" ->
           job' = [job EXCEPT ![w].pc = "saving", ![w].why = "rescue",
                              ![w].plan = NoPlan]
      [] job[w].why \in {"skip", "final"} ->
           job' = [job EXCEPT ![w].pc = "saving", ![w].why = "rescue"]
      [] job[w].why = "rescue" -> Ended(w)

\* The transaction begins; a worker that has lost its lease drops the job.
BeginCheckpoint(w) ==
    /\ job[w].pc = "saving"
    /\ IF Fenced(w) /\ row[job[w].capture].lease
       THEN job' = [job EXCEPT ![w].pc = "writing"]
       ELSE Ended(w)
    /\ UNCHANGED <<row, graph, faults>>

\* Fifteen seconds pass while the transaction waits to write, for the row or for the
\* database.  A claim compares with the time of its own beginning.  Where the row is
\* over once it is written, nobody asks when it is due.
Stall(w) == /\ job[w].pc = "writing" /\ StateWritten(job[w]) \notin Final
            /\ \A v \in Workers : job[v].pc # "looked"
            /\ job' = [job EXCEPT ![w].pc = "late"]
            /\ UNCHANGED <<row, graph, faults>>

InCheckpoint(w) == job[w].pc \in {"writing", "late"}

\* lease_until and available_at count from the beginning of the transaction.
Written(w) ==
    row' = [row EXCEPT ![job[w].capture].state = StateWritten(job[w]),
                       ![job[w].capture].plan = job[w].plan,
                       ![job[w].capture].lease = TRUE,
                       ![job[w].capture].due = (job[w].pc = "late")]

WriteCheckpoint(w) ==
    /\ InCheckpoint(w)
    /\ IF Fenced(w) THEN Written(w) /\ Returns(w)
       ELSE UNCHANGED row /\ Ended(w)
    /\ UNCHANGED <<graph, faults>>

\* The connection is lost, before the row is written or before it is known.
LoseCheckpoint(w) ==
    /\ InCheckpoint(w)
    /\ Fault
    /\ UNCHANGED row \/ (Fenced(w) /\ Written(w))
    /\ Raises(w)
    /\ UNCHANGED graph

-----------------------------------------------------------------------------
(* Faults and the clock. *)

Holds(w, c) == job[w].capture = c /\ Fenced(w)

\* The process of w stops.
Crash(w) == /\ job[w].capture # 0
            /\ Fault
            /\ Ended(w)
            /\ UNCHANGED <<row, graph>>

\* lease_until passes while a worker has the job still.
Overrun(c) == /\ row[c].lease
              /\ Waiting(c) => row[c].due
              /\ \E w \in Workers : Holds(w, c)
              /\ Fault
              /\ row' = [row EXCEPT ![c].lease = FALSE]
              /\ UNCHANGED <<job, graph>>

\* lease_until passes, and no worker has the job.
LeaseRunsOut(c) == /\ row[c].state = "processing"
                   /\ row[c].lease
                   /\ row[c].due
                   /\ \A w \in Workers : ~Holds(w, c)
                   /\ row' = [row EXCEPT ![c].lease = FALSE]
                   /\ UNCHANGED <<job, graph, faults>>

\* available_at passes, but not for a claim whose transaction has begun.
BecomeDue(c) == /\ Waiting(c)
                /\ ~row[c].due
                /\ \A w \in Workers : job[w].pc # "looked"
                /\ row' = [row EXCEPT ![c].due = TRUE]
                /\ UNCHANGED <<job, graph, faults>>

\* What goes on without a fault.
Works(w) == \/ Look(w) \/ Take(w) \/ Extract(w) \/ Prepare(w) \/ Store(w)
            \/ Finish(w) \/ BeginCheckpoint(w) \/ WriteCheckpoint(w)

TimePasses(c) == BecomeDue(c) \/ LeaseRunsOut(c)

Goes == \/ \E w \in Workers : Works(w)
        \/ \E c \in Captures : TimePasses(c)

Next == \/ \E c \in Captures : Capture(c) \/ Overrun(c)
        \/ \E w \in Workers : Stall(w) \/ LoseCheckpoint(w) \/ Crash(w)
        \/ Goes

Spec == Init /\ [][Next]_vars

-----------------------------------------------------------------------------
(* Properties. *)

\* Rows and jobs have the states the code gives them: a unit is repaired at most
\* twice, and one that is prepared has its payload.
TypeOK ==
    /\ row \in [Captures -> Row]
    /\ job \in [Workers -> Job]
    /\ faults \in 0 .. MaxFaults
    /\ \A c \in Captures : \A k \in DOMAIN row[c].plan :
         row[c].plan[k].state = "prepared" => row[c].plan[k].payload # NoPayload

\* The facts of a capture enter the graph only when no older capture is still to
\* be resolved: a retry is not overtaken, so a correction comes after what it
\* corrects.
InOrder ==
    [][\A r \in graph' \ graph : \A d \in Captures :
         d < r.capture => \/ row[d].state \in Final
                          \/ row[d].plan # NoPlan /\ ~HasOpen(row[d].plan)]_vars

\* A fact enters the graph under one payload only, however often workers crash,
\* lose their lease or do not hear the graph's answer.
WrittenOnce ==
    \A r, s \in graph : r.capture = s.capture /\ r.fact = s.fact => r = s

\* What the queue tells the caller is saved is in the graph: a unit that was
\* written has its receipt, and a complete capture has nothing else but what was
\* ignored or already known.
SavedIsInGraph ==
    \A c \in Captures :
       /\ \A k \in DOMAIN row[c].plan :
            LET u == row[c].plan[k]
            IN  u.state = "saved" /\ u.payload # NoPayload =>
                  [capture |-> c, fact |-> k, key |-> u.repairs,
                   by |-> u.payload.by] \in graph
       /\ row[c].state = "complete" =>
            /\ row[c].plan # NoPlan
            /\ \A k \in DOMAIN row[c].plan :
                 row[c].plan[k].state \in {"saved", "ignored"}

\* A unit the caller was told is saved stays saved: no worker that lost its lease
\* writes its older plan over the newer one.
SavedStays ==
    [][\A c \in Captures : \A k \in DOMAIN row[c].plan :
         row[c].plan[k].state = "saved" =>
           /\ k \in DOMAIN row'[c].plan
           /\ row'[c].plan[k].state = "saved"]_vars

\* Nobody waits for ever: a state in which no worker can go on and the clock has
\* nothing to change is one in which every capture is complete, partial or given up,
\* whatever workers were lost on the way.
NothingIsStranded ==
    \/ \A c \in Captures : row[c].state \in Final \cup {"absent"}
    \/ ENABLED <<Goes>>_vars

\* "One leased job runs per configured owner, in capture order."
\* (litegraph-memory-facade/CONVERSATIONAL_CAPTURE.md:70): no job is claimed while one
\* has a lease that has not run out.  It is refuted: the row of a late checkpoint is
\* due as soon as it is written, under a lease of two minutes, and a claim that looked
\* for leases before it takes the job over.
OneLeasedJob ==
    [][\A c \in Captures : row'[c].attempts # row[c].attempts =>
         \A d \in Captures : ~Busy(d)]_vars
=============================================================================
