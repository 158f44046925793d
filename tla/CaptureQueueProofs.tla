-------------------------- MODULE CaptureQueueProofs ------------------------
(***************************************************************************)
(* What the capture queue promises, for any number of workers, captures,   *)
(* units and attempts.                                                     *)
(*                                                                         *)
(* The argument: a payload may be written to the graph only while a worker *)
(* works from a plan that was durable, so whatever has been written, or    *)
(* may still be by a worker that lost its lease, is what the row says; and *)
(* the one worker whose checkpoints count has a plan that is ahead of the  *)
(* row.                                                                    *)
(***************************************************************************)
EXTENDS CaptureQueue, WellFoundedInduction, SequenceTheorems, TLAPS

USE CaptureAssumption

-----------------------------------------------------------------------------
(* The inductive invariant. *)

Fresh == {"pending", "needs_clarification", "ignored"}

Receipts == [capture : Captures, fact : Nat, key : 0 .. MaxRepairs, by : Nat]

UnitLed(u) ==
    /\ u.state = "pending" => u.payload = NoPayload /\ u.repairs < MaxRepairs
    /\ u.state = "prepared" => u.payload.by # 0 /\ u.repairs < MaxRepairs

PlanLed(p) == p \in Seq(Unit) /\ \A k \in DOMAIN p : UnitLed(p[k])

\* The receipt of a unit of capture c that is at fact k.
ReceiptOf(c, k, u) == [capture |-> c, fact |-> k, key |-> u.repairs,
                       by |-> u.payload.by]

HasReceipts(g, c, p) ==
    \A k \in DOMAIN p : p[k].state = "saved" /\ p[k].payload # NoPayload =>
                          ReceiptOf(c, k, p[k]) \in g

\* The plan says of receipt r that it is, or may be, written.
Matches(p, r) ==
    /\ r.fact \in DOMAIN p
    /\ p[r.fact].state \in {"prepared", "saved", "needs_attention"}
    /\ p[r.fact].repairs = r.key
    /\ p[r.fact].payload = [by |-> r.by, ok |-> TRUE]

CanWrite(w, r) == /\ job[w].pc = "unit" /\ job[w].capture = r.capture
                  /\ Matches(job[w].plan, r)
                  /\ job[w].plan[r.fact].state = "prepared"

Issued(r) == r \in graph \/ \E w \in Workers : CanWrite(w, r)

\* What is saved in plan p is saved in plan q.
Carries(p, q) == \A k \in DOMAIN p : p[k].state = "saved" =>
                   k \in DOMAIN q /\ q[k].state = "saved"

Settled(c) == \/ row[c].state \in Final
              \/ row[c].plan # NoPlan /\ ~HasOpen(row[c].plan)

\* Nothing of its capture is left for w to resolve.
Resting(j) == /\ j.plan # NoPlan /\ ~HasOpen(j.plan)
              /\ j.pc # "extract" /\ j.why # "plan"

HoldersRest(c) == \A w \in Workers : Holds(w, c) => Resting(job[w])

Behind(c) == Settled(c) /\ HoldersRest(c)

\* A job, apart from what else there is.
JobShape(j) ==
    /\ PlanLed(j.plan)
    /\ j.capture = 0 <=> j.pc \in {"idle", "looked"}
    /\ j.capture # 0 => j.capture \in Captures /\ j.attempt # 0 /\ j.at # 0
    /\ j.pc = "extract" => j.plan = NoPlan
    /\ j.pc = "unit" => j.plan # NoPlan
    /\ j.pc \in {"saving", "writing", "late"} <=> j.why # "none"
    /\ j.why \in {"plan", "prepared", "done", "skip", "final"} => j.plan # NoPlan
    /\ j.why = "plan" => \A k \in DOMAIN j.plan : j.plan[k].state \in Fresh

JobLed(w) ==
    /\ JobShape(job[w])
    /\ job[w].capture # 0 =>
         /\ job[w].attempt <= row[job[w].capture].attempts
         /\ HasReceipts(graph, job[w].capture, job[w].plan)
         /\ \A d \in Captures : d < job[w].capture => Behind(d)
    /\ job[w].pc = "looked" => \A v \in Workers : job[v].pc = "looked" => v = w
    /\ \A v \in Workers : v # w /\ job[w].capture # 0
                          /\ job[v].capture = job[w].capture =>
                            job[v].attempt # job[w].attempt

RowLed(c) ==
    /\ PlanLed(row[c].plan)
    /\ HasReceipts(graph, c, row[c].plan)
    /\ row[c].state = "complete" =>
         /\ row[c].plan # NoPlan
         /\ \A k \in DOMAIN row[c].plan :
              row[c].plan[k].state \in {"saved", "ignored"}
    /\ row[c].state = "absent" => row[c].attempts = 0
    /\ row[c].state # "absent" =>
         \A d \in Captures : d < c => row[d].state # "absent"
    /\ row[c].state \in Final => HoldersRest(c)
    /\ \A w \in Workers : Holds(w, c) => Carries(row[c].plan, job[w].plan)

ReceiptLed(r) ==
    Issued(r) => /\ Matches(row[r.capture].plan, r)
                 /\ \A w \in Workers : Holds(w, r.capture) =>
                                         Matches(job[w].plan, r)

Typed == /\ row \in [Captures -> Row]
         /\ job \in [Workers -> Job]
         /\ graph \subseteq Receipts
         /\ faults \in 0 .. MaxFaults

IInv == /\ Typed
        /\ \A c \in Captures : RowLed(c)
        /\ \A w \in Workers : JobLed(w)
        /\ \A r \in Receipts : ReceiptLed(r)

-----------------------------------------------------------------------------
(* Plans. *)

\* Captures are numbered from one.
LEMMA CaptureNumbers == Captures \subseteq Nat \ {0}
BY LenProperties DEF Captures

\* The positions of a plan, and what an empty plan says.
LEMMA PlanFacts ==
  ASSUME NEW p \in Seq(Unit)
  PROVE  /\ Len(p) \in Nat /\ DOMAIN p = 1 .. Len(p)
         /\ \A k \in DOMAIN p : p[k] \in Unit
         /\ p = NoPlan <=> DOMAIN p = {}
         /\ HasOpen(p) <=> \E k \in DOMAIN p : Open(p[k])
<1>1. Len(p) \in Nat /\ DOMAIN p = 1 .. Len(p) /\ \A k \in DOMAIN p : p[k] \in Unit
  BY LenProperties, ElementOfSeq
<1>2. p = NoPlan <=> DOMAIN p = {}
  <2>1. Len(<<>>) = 0 /\ (p # <<>> => Len(p) # 0)
    BY EmptySeq
  <2>2. \A n \in Nat : 1 .. n = {} <=> n = 0
    <3>1. \A n \in Nat : n # 0 => 1 \in 1 .. n
      OBVIOUS
    <3>2. 1 .. 0 = {}
      OBVIOUS
    <3> QED BY <3>1, <3>2
  <2>3. p = NoPlan <=> Len(p) = 0
    BY <2>1 DEF NoPlan
  <2>4. DOMAIN p = {} <=> Len(p) = 0
    BY <1>1, <2>2
  <2> QED BY <2>3, <2>4
<1>3. HasOpen(p) <=> \E k \in DOMAIN p : Open(p[k])
  BY <1>1 DEF HasOpen, OpenFrom
<1> QED BY <1>1, <1>2, <1>3

\* A plan that is empty says nothing.
LEMMA NoPlanLed ==
  /\ PlanLed(NoPlan) /\ DOMAIN NoPlan = {}
  /\ \A g, c : HasReceipts(g, c, NoPlan)
  /\ \A r \in Receipts : ~Matches(NoPlan, r)
<1>1. NoPlan \in Seq(Unit)
  BY EmptySeq DEF NoPlan
<1>2. DOMAIN NoPlan = {}
  BY <1>1, PlanFacts
<1> QED BY <1>1, <1>2 DEF PlanLed, HasReceipts, Matches

\* One unit of a plan is replaced.
LEMMA PutFacts ==
  ASSUME NEW p, PlanLed(p), NEW i \in DOMAIN p, NEW u \in Unit, UnitLed(u)
  PROVE  LET q == [p EXCEPT ![i] = u]
         IN  /\ PlanLed(q) /\ DOMAIN q = DOMAIN p /\ q # NoPlan
             /\ q[i] = u /\ \A k \in DOMAIN p : k # i => q[k] = p[k]
<1> DEFINE q == [p EXCEPT ![i] = u]
<1>1. p \in Seq(Unit) /\ DOMAIN p = 1 .. Len(p)
  BY PlanFacts DEF PlanLed
<1>2. q \in Seq(Unit) /\ DOMAIN q = DOMAIN p
  BY <1>1, ExceptSeq
<1>3. q[i] = u /\ \A k \in DOMAIN p : k # i => q[k] = p[k]
  BY <1>1
<1> HIDE DEF q
<1>4. PlanLed(q)
  BY <1>2, <1>3 DEF PlanLed
<1>5. q # NoPlan
  BY <1>2, NoPlanLed
<1> QED BY <1>2, <1>3, <1>4, <1>5 DEF q

\* Some numbers have a least one.
LEMMA LeastOf ==
  ASSUME NEW ks \in SUBSET Nat, ks # {}
  PROVE  \E k \in ks : \A l \in ks : k <= l
<1> DEFINE less == OpToRel(<, Nat)
<1>1. less = {x \in Nat \X Nat : x[1] < x[2]}
  BY DEF OpToRel
<1>2. IsWellFoundedOn(less, Nat)
  BY NatLessThanWellFounded
<1> HIDE DEF less
<1>3. \E k \in ks : \A l \in ks : <<l, k>> \notin less
  BY <1>2, WFMin
<1>4. \A k, l \in Nat : <<l, k>> \notin less => k <= l
  <2> SUFFICES ASSUME NEW k \in Nat, NEW l \in Nat, l < k
               PROVE  <<l, k>> \in {x \in Nat \X Nat : x[1] < x[2]}
    BY <1>1
  <2>1. <<l, k>> \in Nat \X Nat /\ <<l, k>>[1] = l /\ <<l, k>>[2] = k
    OBVIOUS
  <2> QED BY <2>1
<1> QED BY <1>3, <1>4

\* The unit a worker is at is an open one of its plan.
LEMMA CurrentIsOpen ==
  ASSUME NEW w \in Workers, job[w].plan \in Seq(Unit), job[w].at \in Nat \ {0},
         OpenFrom(job[w].plan, job[w].at) # {}
  PROVE  /\ Current(w) \in DOMAIN job[w].plan /\ Current(w) \in Nat \ {0}
         /\ Open(job[w].plan[Current(w)])
<1> DEFINE ks == OpenFrom(job[w].plan, job[w].at)
<1>1. Len(job[w].plan) \in Nat /\ DOMAIN job[w].plan = 1 .. Len(job[w].plan)
  BY PlanFacts
<1>2. ks \subseteq Nat
  BY <1>1 DEF OpenFrom
<1>3. \E k \in ks : \A l \in ks : k <= l
  BY <1>2, LeastOf
<1>4. Current(w) \in ks
  BY <1>3 DEF Current
<1> QED BY <1>1, <1>4 DEF OpenFrom

-----------------------------------------------------------------------------
(* A worker goes on. *)

\* The step of a job: it ends, or its plan gets ahead, saved units and whatever
\* may be written to the graph kept.
Onward(w) ==
    \/ job'[w] = NoJob
    \/ /\ job'[w].capture = job[w].capture /\ job'[w].attempt = job[w].attempt
       /\ job[w].capture # 0 /\ JobShape(job'[w])
       /\ HasReceipts(graph', job[w].capture, job'[w].plan)
       /\ Carries(job[w].plan, job'[w].plan)
       /\ Resting(job[w]) => Resting(job'[w])
       /\ Fenced(w) => \A r \in Receipts :
            Issued(r) /\ r.capture = job[w].capture => Matches(job'[w].plan, r)

\* Worker w alone moves, and calls for a checkpoint.
Moves(w) == /\ job' = [job EXCEPT ![w] = job'[w]] /\ job'[w] \in Job
            /\ Onward(w) /\ job'[w].pc = "saving"

\* An idle worker has nothing.
LEMMA Idle ==
  /\ NoJob \in Job /\ JobShape(NoJob) /\ NoJob.capture = 0 /\ NoJob.pc = "idle"
  /\ \A j \in Job : j = [NoJob EXCEPT !.pc = "looked"] =>
                       JobShape(j) /\ j.capture = 0 /\ j.pc = "looked"
<1>1. /\ NoJob.pc = "idle" /\ NoJob.why = "none" /\ NoJob.capture = 0
      /\ NoJob.plan = NoPlan
  BY DEF NoJob
<1>2. NoPlan \in Seq(Unit)
  BY NoPlanLed DEF PlanLed
<1>3. NoJob \in Job
  BY <1>2 DEF NoJob, Job
<1>4. JobShape(NoJob)
  BY <1>1, NoPlanLed DEF JobShape
<1>5. ASSUME NEW j \in Job, j = [NoJob EXCEPT !.pc = "looked"]
      PROVE  JobShape(j) /\ j.capture = 0 /\ j.pc = "looked"
  <2>1. /\ j.pc = "looked" /\ j.why = "none" /\ j.capture = 0 /\ j.plan = NoPlan
    BY <1>5 DEF NoJob
  <2> QED BY <2>1, NoPlanLed DEF JobShape
<1> QED BY <1>1, <1>3, <1>4, <1>5

\* A worker goes on with its job, and no row changes.
LEMMA JobMoved ==
  ASSUME IInv, NEW w \in Workers, row' = row, faults' \in 0 .. MaxFaults,
         job' = [job EXCEPT ![w] = job'[w]], job'[w] \in Job,
         graph \subseteq graph',
         \A r \in graph' : r \in graph \/ (r \in Receipts /\ CanWrite(w, r)),
         Onward(w), job'[w].pc # "unit", job'[w].pc # "looked"
  PROVE  IInv'
<1>1. Typed' /\ \A v \in Workers : v # w => job'[v] = job[v]
  BY DEF IInv, Typed
<1>2. \A r \in Receipts : Issued(r)' => Issued(r)
  BY <1>1 DEF Issued, CanWrite
<1>3. /\ job'[w].capture # 0 => /\ job'[w].capture = job[w].capture
                                /\ job'[w].attempt = job[w].attempt
      /\ JobShape(job'[w])
  BY Idle DEF Onward
<1>4. \A v \in Workers, c \in Captures :
        /\ Holds(v, c)' => Holds(v, c)
        /\ Holds(v, c)' /\ Resting(job[v]) => Resting(job'[v])
        /\ Holds(v, c)' => Carries(job[v].plan, job'[v].plan)
  <2> SUFFICES ASSUME NEW v \in Workers, NEW c \in Captures, Holds(v, c)'
               PROVE  /\ Holds(v, c)
                      /\ Resting(job[v]) => Resting(job'[v])
                      /\ Carries(job[v].plan, job'[v].plan)
    OBVIOUS
  <2>1. CASE v = w
    <3>1. job'[w].capture # 0
      BY <2>1, CaptureNumbers DEF Holds
    <3>2. job'[w] # NoJob
      BY <3>1, Idle
    <3> QED BY <1>3, <2>1, <3>1, <3>2 DEF Holds, Fenced, Onward
  <2>2. CASE v # w
    BY <1>1, <2>2 DEF Holds, Fenced, Carries
  <2> QED BY <2>1, <2>2
<1>5. \A c \in Captures : /\ HoldersRest(c) => HoldersRest(c)'
                          /\ Behind(c) => Behind(c)'
  BY <1>4 DEF HoldersRest, Behind, Settled
<1>6. \A c, q : HasReceipts(graph, c, q) => HasReceipts(graph', c, q)
  BY DEF HasReceipts
<1>7. ASSUME NEW c \in Captures PROVE RowLed(c)'
  <2>1. RowLed(c)
    BY DEF IInv
  <2>2. \A v \in Workers : Holds(v, c)' => Carries(row[c].plan, job'[v].plan)
    BY <1>4, <2>1 DEF RowLed, Carries
  <2>3. HasReceipts(graph, c, row[c].plan)'
    BY <1>6, <2>1 DEF RowLed
  <2> QED BY <1>5, <2>1, <2>2, <2>3 DEF RowLed
<1>8. ASSUME NEW v \in Workers PROVE JobLed(v)'
  <2>1. JobLed(v) /\ JobLed(w)
    BY DEF IInv
  <2>2. CASE v # w
    <3>2. job[v].capture # 0 => HasReceipts(graph', job'[v].capture, job'[v].plan)
      BY <1>1, <1>6, <2>1, <2>2 DEF JobLed
    <3>3. job[v].pc = "looked" => \A u \in Workers : job'[u].pc = "looked" => u = v
      BY <1>1, <2>1, <2>2 DEF JobLed
    <3>4. \A u \in Workers : u # v /\ job'[v].capture # 0
                             /\ job'[u].capture = job'[v].capture =>
                               job'[u].attempt # job'[v].attempt
      BY <1>1, <1>3, <2>1, <2>2 DEF JobLed
    <3>5. \A d \in Captures : d < job[v].capture /\ job[v].capture # 0 => Behind(d)'
      BY <1>5, <2>1 DEF JobLed
    <3> QED BY <1>1, <2>1, <2>2, <3>2, <3>3, <3>4, <3>5 DEF JobLed
  <2>3. CASE v = w
    <3>1. CASE job'[w].capture = 0
      BY <1>3, <2>3, <3>1 DEF JobLed
    <3>2. CASE job'[w].capture # 0
      <4>1. job'[w] # NoJob
        BY <3>2, Idle
      <4>2. HasReceipts(graph', job'[w].capture, job'[w].plan)
        BY <4>1, <1>3, <3>2 DEF Onward
      <4>3. \A d \in Captures : d < job'[w].capture => Behind(d)'
        BY <1>3, <1>5, <2>1, <3>2 DEF JobLed
      <4>4. \A u \in Workers : u # w /\ job'[u].capture = job'[w].capture =>
                                 job'[u].attempt # job'[w].attempt
        BY <1>1, <1>3, <2>1, <3>2 DEF JobLed
      <4>5. job'[w].attempt <= row'[job'[w].capture].attempts
        BY <1>3, <2>1, <3>2 DEF JobLed
      <4> QED BY <1>3, <2>3, <4>2, <4>3, <4>4, <4>5 DEF JobLed
    <3> QED BY <3>1, <3>2
  <2> QED BY <2>2, <2>3
<1>9. ASSUME NEW r \in Receipts PROVE ReceiptLed(r)'
  <2> SUFFICES ASSUME Issued(r)'
               PROVE  /\ Matches(row[r.capture].plan, r)
                      /\ \A v \in Workers : Holds(v, r.capture)' =>
                                              Matches(job'[v].plan, r)
    BY DEF ReceiptLed, Matches
  <2>1. Issued(r) /\ ReceiptLed(r) /\ r.capture \in Captures
    BY <1>2 DEF IInv, Receipts
  <2>2. ASSUME NEW v \in Workers, Holds(v, r.capture)'
        PROVE  Matches(job'[v].plan, r)
    <3>1. Holds(v, r.capture) /\ Matches(job[v].plan, r)
      BY <1>4, <2>1, <2>2 DEF ReceiptLed
    <3>2. CASE v = w
      <4>1. job'[w].capture # 0 /\ job'[w] # NoJob
        BY <2>1, <2>2, <3>2, CaptureNumbers, Idle DEF Holds
      <4> QED BY <2>1, <3>1, <3>2, <4>1 DEF Onward, Holds
    <3>3. CASE v # w
      BY <1>1, <3>1, <3>3
    <3> QED BY <3>2, <3>3
  <2> QED BY <2>1, <2>2 DEF ReceiptLed
<1> QED BY <1>1, <1>7, <1>8, <1>9 DEF IInv

\* A checkpoint that is called for.
LEMMA SavingMoves ==
  ASSUME IInv, NEW w \in Workers, job[w].capture # 0,
         NEW p, PlanLed(p), NEW why \in {"plan", "prepared", "done", "skip", "final",
                                         "rescue"},
         Saving(w, p, why),
         why # "rescue" => p # NoPlan,
         why = "plan" => \A k \in DOMAIN p : p[k].state \in Fresh,
         HasReceipts(graph', job[w].capture, p), Carries(job[w].plan, p),
         Resting(job[w]) => p # NoPlan /\ ~HasOpen(p) /\ why # "plan",
         Fenced(w) => \A r \in Receipts :
                        Issued(r) /\ r.capture = job[w].capture => Matches(p, r)
  PROVE  Moves(w)
<1> DEFINE at == IF OpenFrom(job[w].plan, job[w].at) # {} THEN Current(w)
                 ELSE job[w].at
           j == [job[w] EXCEPT !.pc = "saving", !.why = why, !.plan = p, !.at = at]
<1>1. /\ job[w] \in Job /\ JobShape(job[w]) /\ job[w].at \in Nat \ {0}
      /\ job[w].plan \in Seq(Unit) /\ p \in Seq(Unit)
      /\ job \in [Workers -> Job]
  BY DEF IInv, Typed, JobLed, JobShape, PlanLed, Job
<1>2. at \in Nat \ {0}
  BY <1>1, CurrentIsOpen
<1>3. job' = [job EXCEPT ![w] = j]
  BY <1>1 DEF Saving
<1> HIDE DEF at
<1>4. /\ j \in Job /\ j.pc = "saving" /\ j.why = why /\ j.plan = p
      /\ j.capture = job[w].capture /\ j.attempt = job[w].attempt /\ j.at = at
  BY <1>1, <1>2 DEF Job
<1> HIDE DEF j
<1>5. job'[w] = j
  BY <1>1, <1>3
<1>6. JobShape(j)
  BY <1>1, <1>2, <1>4 DEF JobShape
<1>7. Resting(job[w]) => Resting(j)
  BY <1>4 DEF Resting
<1> QED BY <1>3, <1>4, <1>5, <1>6, <1>7 DEF Onward, Moves

\* What a worker knows of its job.
LEMMA JobFacts ==
  ASSUME IInv, NEW w \in Workers
  PROVE  /\ job[w] \in Job /\ JobShape(job[w]) /\ job \in [Workers -> Job]
         /\ job[w].pc \notin {"idle", "looked"} <=> job[w].capture # 0
         /\ job[w].capture # 0 =>
              /\ job[w].capture \in Captures
              /\ HasReceipts(graph, job[w].capture, job[w].plan)
              /\ Fenced(w) => \A r \in Receipts :
                   Issued(r) /\ r.capture = job[w].capture => Matches(job[w].plan, r)
<1>1. JobLed(w) /\ job[w] \in Job /\ job \in [Workers -> Job]
  BY DEF IInv, Typed
<1>2. Fenced(w) => \A r \in Receipts :
        Issued(r) /\ r.capture = job[w].capture => Matches(job[w].plan, r)
  BY DEF IInv, ReceiptLed, Holds
<1> QED BY <1>1, <1>2 DEF JobLed, JobShape

\* A unit is replaced that was open: nothing saved is lost.
LEMMA PutMoves ==
  ASSUME IInv, NEW w \in Workers, job[w].pc = "unit",
         OpenFrom(job[w].plan, job[w].at) # {}, NEW u \in Unit, UnitLed(u)
  PROVE  LET q == Put(w, u)
             i == Current(w)
         IN  /\ PlanLed(q) /\ q # NoPlan /\ DOMAIN q = DOMAIN job[w].plan
             /\ q[i] = u /\ i \in DOMAIN job[w].plan /\ i \in Nat \ {0}
             /\ \A k \in DOMAIN job[w].plan : k # i => q[k] = job[w].plan[k]
             /\ Open(job[w].plan[i]) /\ ~Resting(job[w])
             /\ Carries(job[w].plan, q)
<1>1. /\ PlanLed(job[w].plan) /\ job[w].plan \in Seq(Unit) /\ job[w].at \in Nat \ {0}
  BY JobFacts DEF JobShape, PlanLed, Job
<1>2. /\ Current(w) \in DOMAIN job[w].plan /\ Current(w) \in Nat \ {0}
      /\ Open(job[w].plan[Current(w)])
  BY <1>1, CurrentIsOpen
<1> DEFINE q == Put(w, u)
<1>3. /\ PlanLed(q) /\ DOMAIN q = DOMAIN job[w].plan /\ q # NoPlan
      /\ q[Current(w)] = u
      /\ \A k \in DOMAIN job[w].plan : k # Current(w) => q[k] = job[w].plan[k]
  BY <1>1, <1>2, PutFacts DEF Put
<1> HIDE DEF q
<1>4. ~Resting(job[w])
  BY <1>1, <1>2, PlanFacts DEF Resting
<1>5. Carries(job[w].plan, q)
  BY <1>2, <1>3 DEF Carries, Open
<1> QED BY <1>2, <1>3, <1>4, <1>5 DEF q

\* A function on the positions of a sequence is a sequence.
LEMMA MappedSeq ==
  ASSUME NEW S, NEW T, NEW s \in Seq(S), NEW f \in [DOMAIN s -> T]
  PROVE  f \in Seq(T) /\ DOMAIN f = DOMAIN s
<1>1. Len(s) \in Nat /\ DOMAIN s = 1 .. Len(s)
  BY LenProperties
<1>2. [1 .. Len(s) -> T] \in {[1 .. n -> T] : n \in Nat} /\ f \in [1 .. Len(s) -> T]
  BY <1>1, Zenon
<1>3. f \in UNION {[1 .. n -> T] : n \in Nat}
  BY <1>2, Zenon
<1>4. Seq(T) = UNION {[1 .. n -> T] : n \in Nat}
  BY SeqDef, Zenon
<1>5. f \in Seq(T)
  BY <1>3, <1>4, Zenon
<1> QED BY <1>5

\* What extraction makes of a capture says nothing yet of the graph.
LEMMA NewPlan ==
  ASSUME NEW c \in Captures, NEW draft \in Drafts[c]
  PROVE  LET p == [k \in DOMAIN draft |-> NewUnit(draft[k])]
         IN  /\ PlanLed(p) /\ p # NoPlan
             /\ \A k \in DOMAIN p : p[k].state \in Fresh /\ p[k].payload = NoPayload
<1> DEFINE p == [k \in DOMAIN draft |-> NewUnit(draft[k])]
<1>1. draft \in Seq(Dispositions) /\ draft # <<>>
  <2>1. Drafts[c] \in SUBSET (Seq(Dispositions) \ {<<>>})
    BY ElementOfSeq, LenProperties DEF Captures
  <2> QED BY <2>1
<1>2. /\ Len(draft) \in Nat /\ DOMAIN draft = 1 .. Len(draft) /\ Len(draft) # 0
      /\ \A k \in DOMAIN draft : draft[k] \in Dispositions
  BY <1>1, LenProperties, ElementOfSeq, EmptySeq
<1>3. \A d \in Dispositions :
        /\ NewUnit(d) \in Unit /\ UnitLed(NewUnit(d))
        /\ NewUnit(d).state \in Fresh /\ NewUnit(d).payload = NoPayload
  <2> TAKE d \in Dispositions
  <2>1. NewUnit(d).state \in Fresh
    BY DEF NewUnit, Fresh, Dispositions
  <2>2. NewUnit(d).repairs = 0 /\ NewUnit(d).payload = NoPayload
    BY DEF NewUnit
  <2>3. NewUnit(d) \in Unit
    BY <2>1 DEF NewUnit, Unit, Fresh, NoPayload, MaxRepairs, Dispositions
  <2> QED BY <2>1, <2>2, <2>3 DEF UnitLed, Fresh, MaxRepairs
<1>4. p \in [DOMAIN draft -> Unit]
  BY <1>2, <1>3
<1>5. p \in Seq(Unit) /\ DOMAIN p = DOMAIN draft
  BY <1>1, <1>4, MappedSeq
<1>6. \A k \in DOMAIN p : /\ UnitLed(p[k]) /\ p[k].state \in Fresh
                          /\ p[k].payload = NoPayload
  BY <1>2, <1>3, <1>5
<1> HIDE DEF p
<1>7. p # NoPlan
  <2>1. 1 \in DOMAIN p
    BY <1>2, <1>5
  <2> QED BY <2>1, NoPlanLed
<1> QED BY <1>5, <1>6, <1>7 DEF PlanLed, p

-----------------------------------------------------------------------------
(* The steps of a worker that write no row. *)

\* A plan is extracted, or cannot be.
LEMMA ExtractKeeps == ASSUME IInv, NEW w \in Workers, Extract(w) PROVE IInv'
<1>1. /\ job[w].pc = "extract" /\ row' = row /\ graph' = graph /\ faults' = faults
      /\ faults' \in 0 .. MaxFaults
  BY DEF Extract, IInv, Typed
<1>2. /\ job[w].capture \in Captures /\ job[w].capture # 0 /\ job[w].plan = NoPlan
      /\ ~Resting(job[w])
  BY <1>1, JobFacts DEF JobShape, Resting
<1>3. Fenced(w) => \A r \in Receipts : ~(Issued(r) /\ r.capture = job[w].capture)
  BY <1>2, JobFacts, NoPlanLed
<1>4. \A p : Carries(job[w].plan, p)
  BY <1>2, NoPlanLed DEF Carries
<1>5. Moves(w)
  <2>1. CASE Saving(w, NoPlan, "rescue")
    <3>1. HasReceipts(graph', job[w].capture, NoPlan) /\ PlanLed(NoPlan)
      BY NoPlanLed
    <3> QED BY <1>2, <1>3, <1>4, <2>1, <3>1, SavingMoves
  <2>2. ASSUME NEW draft \in Drafts[job[w].capture],
               Saving(w, [k \in DOMAIN draft |-> NewUnit(draft[k])], "plan")
        PROVE  Moves(w)
    <3> DEFINE p == [k \in DOMAIN draft |-> NewUnit(draft[k])]
    <3>1. /\ PlanLed(p) /\ p # NoPlan
          /\ \A k \in DOMAIN p : p[k].state \in Fresh /\ p[k].payload = NoPayload
      BY <1>2, NewPlan
    <3>2. Saving(w, p, "plan")
      BY <2>2
    <3> HIDE DEF p
    <3>3. HasReceipts(graph', job[w].capture, p)
      BY <3>1 DEF HasReceipts, Fresh
    <3> QED BY <1>2, <1>3, <1>4, <3>1, <3>2, <3>3, SavingMoves
  <2> QED BY <2>1, <2>2 DEF Extract
<1> QED BY <1>1, <1>5, JobMoved DEF Moves

\* The unit a worker is at is replaced: what was written for it, or may still be, is
\* what the new one says.
LEMMA PutsUnit ==
  ASSUME IInv, NEW w \in Workers, job[w].pc = "unit",
         OpenFrom(job[w].plan, job[w].at) # {}, NEW u \in Unit, UnitLed(u),
         NEW why \in {"prepared", "done"}, Saving(w, Put(w, u), why),
         graph \subseteq graph',
         u.state = "saved" /\ u.payload # NoPayload =>
           ReceiptOf(job[w].capture, Current(w), u) \in graph',
         Fenced(w) => \A r \in Receipts :
           Issued(r) /\ r.capture = job[w].capture /\ r.fact = Current(w) =>
             /\ u.state \in {"prepared", "saved", "needs_attention"}
             /\ u.repairs = r.key /\ u.payload = [by |-> r.by, ok |-> TRUE]
  PROVE  Moves(w)
<1> DEFINE q == Put(w, u)
           i == Current(w)
<1>1. /\ PlanLed(q) /\ q # NoPlan /\ DOMAIN q = DOMAIN job[w].plan
      /\ q[i] = u /\ i \in DOMAIN job[w].plan
      /\ \A k \in DOMAIN job[w].plan : k # i => q[k] = job[w].plan[k]
      /\ ~Resting(job[w]) /\ Carries(job[w].plan, q)
  BY PutMoves
<1>2. Saving(w, q, why)
  OBVIOUS
<1>3. /\ job[w].capture # 0
      /\ HasReceipts(graph, job[w].capture, job[w].plan)
      /\ Fenced(w) => \A r \in Receipts :
           Issued(r) /\ r.capture = job[w].capture => Matches(job[w].plan, r)
  BY JobFacts
<1> HIDE DEF q, i
<1>4. HasReceipts(graph', job[w].capture, q)
  <2> SUFFICES ASSUME NEW k \in DOMAIN q, q[k].state = "saved",
                      q[k].payload # NoPayload
               PROVE  ReceiptOf(job[w].capture, k, q[k]) \in graph'
    BY DEF HasReceipts
  <2>1. CASE k = i
    BY <1>1, <2>1 DEF i
  <2>2. CASE k # i
    BY <1>1, <1>3, <2>2 DEF HasReceipts
  <2> QED BY <2>1, <2>2
<1>5. ASSUME Fenced(w), NEW r \in Receipts, Issued(r), r.capture = job[w].capture
      PROVE  Matches(q, r)
  <2>1. CASE r.fact = i
    BY <1>1, <1>5, <2>1 DEF Matches, i
  <2>2. CASE r.fact # i
    BY <1>1, <1>3, <1>5, <2>2 DEF Matches
  <2> QED BY <2>1, <2>2
<1> QED BY <1>1, <1>2, <1>3, <1>4, <1>5, SavingMoves

\* A unit is left for the next attempt.
LEMMA SkipMoves ==
  ASSUME IInv, NEW w \in Workers, job[w].pc = "unit", graph \subseteq graph',
         Saving(w, job[w].plan, "skip")
  PROVE  Moves(w)
<1>1. /\ job[w].capture # 0 /\ PlanLed(job[w].plan) /\ job[w].plan # NoPlan
      /\ HasReceipts(graph, job[w].capture, job[w].plan)
      /\ Fenced(w) => \A r \in Receipts :
           Issued(r) /\ r.capture = job[w].capture => Matches(job[w].plan, r)
  BY JobFacts DEF JobShape
<1>2. /\ HasReceipts(graph', job[w].capture, job[w].plan)
      /\ Carries(job[w].plan, job[w].plan)
      /\ Resting(job[w]) => ~HasOpen(job[w].plan)
  BY <1>1 DEF HasReceipts, Carries, Resting
<1> QED BY <1>1, <1>2, SavingMoves

\* The unit a worker is at, and what its job says of it.
LEMMA UnitFacts ==
  ASSUME IInv, NEW w \in Workers, NEW state, AtUnit(w, state)
  PROVE  LET u == job[w].plan[Current(w)]
         IN  /\ job[w].pc = "unit" /\ OpenFrom(job[w].plan, job[w].at) # {}
             /\ u \in Unit /\ UnitLed(u) /\ u.state = state
             /\ Current(w) \in DOMAIN job[w].plan /\ Current(w) \in Nat
             /\ job[w].attempt \in Nat \ {0} /\ job[w].capture \in Captures
<1>1. /\ job[w].pc = "unit" /\ OpenFrom(job[w].plan, job[w].at) # {}
      /\ job[w].plan[Current(w)].state = state
  BY DEF AtUnit
<1>2. /\ PlanLed(job[w].plan) /\ job[w].plan \in Seq(Unit) /\ job[w].at \in Nat \ {0}
      /\ job[w].attempt \in Nat \ {0} /\ job[w].capture \in Captures
  BY <1>1, JobFacts DEF JobShape, PlanLed, Job
<1>3. Current(w) \in DOMAIN job[w].plan /\ Current(w) \in Nat
  BY <1>1, <1>2, CurrentIsOpen
<1> QED BY <1>1, <1>2, <1>3, PlanFacts DEF PlanLed

\* The resolver answers for a unit, or fails.
LEMMA PrepareKeeps == ASSUME IInv, NEW w \in Workers, Prepare(w) PROVE IInv'
<1> DEFINE u == job[w].plan[Current(w)]
<1>1. /\ AtUnit(w, "pending") /\ row' = row /\ graph' = graph /\ faults' = faults
      /\ faults' \in 0 .. MaxFaults
  BY DEF Prepare, IInv, Typed
<1>2. /\ job[w].pc = "unit" /\ OpenFrom(job[w].plan, job[w].at) # {}
      /\ u \in Unit /\ u.state = "pending" /\ u.payload = NoPayload
      /\ u.repairs \in 0 .. MaxRepairs /\ u.repairs < MaxRepairs
      /\ job[w].attempt \in Nat \ {0}
  BY <1>1, UnitFacts DEF UnitLed, Unit
<1>3. Fenced(w) => \A r \in Receipts :
        ~(Issued(r) /\ r.capture = job[w].capture /\ r.fact = Current(w))
  BY <1>2, JobFacts DEF Matches
<1>4. ASSUME NEW state \in {"saved", "needs_clarification"},
             Saving(w, Put(w, [u EXCEPT !.state = state]), "done")
      PROVE  Moves(w)
  <2> DEFINE v == [u EXCEPT !.state = state]
  <2>1. v \in Unit /\ v.state = state /\ v.payload = NoPayload
    BY <1>2 DEF Unit
  <2>2. Saving(w, Put(w, v), "done")
    BY <1>4
  <2> HIDE DEF v, u
  <2>3. UnitLed(v)
    BY <2>1 DEF UnitLed
  <2> QED BY <1>1, <1>2, <1>3, <2>1, <2>2, <2>3, PutsUnit
<1>5. ASSUME NEW ok \in BOOLEAN,
             Saving(w, Put(w, [u EXCEPT !.state = "prepared",
                                        !.payload = [by |-> job[w].attempt,
                                                     ok |-> ok]]), "prepared")
      PROVE  Moves(w)
  <2> DEFINE v == [u EXCEPT !.state = "prepared",
                            !.payload = [by |-> job[w].attempt, ok |-> ok]]
  <2>1. /\ v \in Unit /\ v.state = "prepared" /\ v.payload.by = job[w].attempt
        /\ v.repairs = u.repairs
    BY <1>2 DEF Unit
  <2>2. Saving(w, Put(w, v), "prepared")
    BY <1>5
  <2> HIDE DEF v
  <2>3. UnitLed(v)
    BY <1>2, <2>1 DEF UnitLed
  <2> HIDE DEF u
  <2> QED BY <1>1, <1>2, <1>3, <2>1, <2>2, <2>3, PutsUnit
<1>6. ASSUME Saving(w, job[w].plan, "skip") PROVE Moves(w)
  BY <1>1, <1>2, <1>6, SkipMoves
<1>7. Moves(w)
  BY <1>4, <1>5, <1>6 DEF Prepare
<1> QED BY <1>1, <1>7, JobMoved DEF Moves

\* The receipt a worker asks for, and what may be written under its key.
LEMMA ReceiptFacts ==
  ASSUME IInv, NEW w \in Workers, AtUnit(w, "prepared")
  PROVE  LET u == job[w].plan[Current(w)]
             r == Receipt(w)
         IN  /\ r \in Receipts /\ r = ReceiptOf(job[w].capture, Current(w), u)
             /\ u.payload.ok => CanWrite(w, r)
             /\ Fenced(w) => \A s \in Receipts :
                  Issued(s) /\ s.capture = job[w].capture /\ s.fact = Current(w) =>
                    /\ s = r /\ u.payload = [by |-> s.by, ok |-> TRUE]
                    /\ u.repairs = s.key
<1> DEFINE u == job[w].plan[Current(w)]
           r == Receipt(w)
<1>1. /\ u \in Unit /\ u.state = "prepared" /\ job[w].pc = "unit"
      /\ Current(w) \in DOMAIN job[w].plan /\ Current(w) \in Nat
      /\ job[w].capture \in Captures
  BY UnitFacts
<1>2. /\ u.repairs \in 0 .. MaxRepairs /\ u.payload \in [by : Nat, ok : BOOLEAN]
  BY <1>1 DEF Unit
<1>3. r = [capture |-> job[w].capture, fact |-> Current(w),
           key |-> u.repairs, by |-> u.payload.by]
  BY DEF Receipt
<1> HIDE DEF u, r
<1>4. r \in Receipts /\ r = ReceiptOf(job[w].capture, Current(w), u)
  BY <1>1, <1>2, <1>3 DEF Receipts, ReceiptOf
<1>5. ASSUME u.payload.ok PROVE CanWrite(w, r)
  <2>1. u.payload = [by |-> r.by, ok |-> TRUE]
    BY <1>2, <1>3, <1>5
  <2> QED BY <1>1, <1>3, <2>1 DEF CanWrite, Matches, u
<1>6. ASSUME Fenced(w), NEW s \in Receipts, Issued(s), s.capture = job[w].capture,
             s.fact = Current(w)
      PROVE  /\ s = r /\ u.payload = [by |-> s.by, ok |-> TRUE]
             /\ u.repairs = s.key
  <2>1. Matches(job[w].plan, s)
    BY <1>1, <1>6, JobFacts
  <2>2. u.repairs = s.key /\ u.payload = [by |-> s.by, ok |-> TRUE]
    BY <1>6, <2>1 DEF Matches, u
  <2>3. s = [capture |-> s.capture, fact |-> s.fact, key |-> s.key, by |-> s.by]
    BY DEF Receipts
  <2>4. u.payload.by = s.by
    BY <2>2
  <2> QED BY <1>3, <1>6, <2>2, <2>3, <2>4
<1> QED BY <1>4, <1>5, <1>6 DEF u, r

\* The facts of a unit are written, refused, or left in doubt.
LEMMA StoreKeeps == ASSUME IInv, NEW w \in Workers, Store(w) PROVE IInv'
<1> DEFINE u == job[w].plan[Current(w)]
           r == Receipt(w)
<1>1. /\ AtUnit(w, "prepared") /\ row' = row /\ faults' = faults
      /\ faults' \in 0 .. MaxFaults /\ graph \subseteq Receipts
  BY DEF Store, IInv, Typed
<1>2. /\ job[w].pc = "unit" /\ OpenFrom(job[w].plan, job[w].at) # {}
      /\ u \in Unit /\ u.state = "prepared" /\ u.repairs \in 0 .. MaxRepairs
      /\ u.payload \in [by : Nat, ok : BOOLEAN] /\ u.repairs < MaxRepairs
  BY <1>1, UnitFacts DEF UnitLed, Unit
<1>3. /\ r \in Receipts /\ r = ReceiptOf(job[w].capture, Current(w), u)
      /\ u.payload.ok => CanWrite(w, r)
      /\ Fenced(w) => \A s \in Receipts :
           Issued(s) /\ s.capture = job[w].capture /\ s.fact = Current(w) =>
             /\ s = r /\ u.payload = [by |-> s.by, ok |-> TRUE]
             /\ u.repairs = s.key
  BY <1>1, ReceiptFacts
<1>4. ASSUME Saving(w, Put(w, StoredUnit(w)), "done"), r \in graph',
             graph \subseteq graph'
      PROVE  Moves(w)
  <2> DEFINE v == StoredUnit(w)
  <2>1. /\ v \in Unit /\ v.state = "saved" /\ v.payload = u.payload
        /\ v.repairs = u.repairs
    BY <1>2 DEF Unit, StoredUnit
  <2>2. Saving(w, Put(w, v), "done")
    BY <1>4
  <2> HIDE DEF v, u, r
  <2>3. UnitLed(v) /\ ReceiptOf(job[w].capture, Current(w), v) \in graph'
    BY <1>3, <1>4, <2>1 DEF UnitLed, ReceiptOf
  <2> QED BY <1>2, <1>3, <1>4, <2>1, <2>2, <2>3, PutsUnit
<1>5. ASSUME Rejected(w), Found(r) \ {r} # {} \/ (Found(r) = {} /\ ~u.payload.ok),
             graph' = graph
      PROVE  Moves(w)
  <2>1. ASSUME Fenced(w), NEW s \in Receipts, Issued(s),
               s.capture = job[w].capture, s.fact = Current(w)
        PROVE  FALSE
    <3> HIDE DEF u, r
    <3>0. s = r /\ u.payload = [by |-> s.by, ok |-> TRUE]
      BY <1>3, <2>1
    <3>1. s = r /\ u.payload.ok
      BY <3>0
    <3>2. PICK t \in graph : t # r /\ t.capture = r.capture /\ t.fact = r.fact
      BY <1>5, <3>1 DEF Found
    <3>3. t \in Receipts /\ Issued(t)
      BY <1>1 DEF Issued
    <3>4. t.capture = job[w].capture /\ t.fact = Current(w)
      BY <2>1, <3>1, <3>2
    <3> QED BY <1>3, <2>1, <3>2, <3>3, <3>4
  <2>2. PICK state \in {"pending", "needs_attention"} :
          /\ state = "pending" => u.repairs + 1 < MaxRepairs
          /\ Saving(w, Put(w, [state |-> state, repairs |-> u.repairs + 1,
                               payload |-> NoPayload]), "done")
    BY <1>5 DEF Rejected
  <2> DEFINE v == [state |-> state, repairs |-> u.repairs + 1, payload |-> NoPayload]
  <2>3. v \in Unit /\ v.state = state /\ v.payload = NoPayload
        /\ v.repairs = u.repairs + 1
    BY <1>2 DEF Unit, NoPayload, MaxRepairs
  <2>4. Saving(w, Put(w, v), "done")
    BY <2>2
  <2> HIDE DEF v, u, r
  <2>5. UnitLed(v) /\ v.state # "saved"
    BY <2>2, <2>3 DEF UnitLed
  <2> QED BY <1>2, <1>5, <2>1, <2>3, <2>4, <2>5, PutsUnit
<1>6. ASSUME Saving(w, job[w].plan, "skip"), graph \subseteq graph' PROVE Moves(w)
  BY <1>2, <1>6, SkipMoves
<1>7. /\ Moves(w) /\ graph \subseteq graph'
      /\ \A s \in graph' : s \in graph \/ (s \in Receipts /\ CanWrite(w, s))
  <2>1. CASE r \in graph /\ Saving(w, Put(w, StoredUnit(w)), "done") /\ graph' = graph
    BY <1>4, <2>1
  <2>2. CASE /\ u.payload.ok /\ graph' = graph \cup {r}
             /\ \/ Saving(w, Put(w, StoredUnit(w)), "done")
                \/ Saving(w, job[w].plan, "skip")
    BY <1>3, <1>4, <1>6, <2>2
  <2>3. CASE /\ Found(r) \ {r} # {} \/ (Found(r) = {} /\ ~u.payload.ok)
             /\ Rejected(w) /\ graph' = graph
    BY <1>5, <2>3
  <2>4. CASE Saving(w, job[w].plan, "skip") /\ graph' = graph
    BY <1>6, <2>4
  <2> QED BY <2>1, <2>2, <2>3, <2>4 DEF Store
<1> QED BY <1>1, <1>7, JobMoved DEF Moves

\* What is open when the last attempt ends needs attention; the rest is kept.
LEMMA ClosedFacts ==
  ASSUME IInv, NEW w \in Workers, job[w].pc = "unit"
  PROVE  /\ PlanLed(Closed(w)) /\ DOMAIN Closed(w) = DOMAIN job[w].plan
         /\ \A k \in DOMAIN job[w].plan :
              \/ Closed(w)[k] = job[w].plan[k]
              \/ /\ Open(job[w].plan[k]) /\ Closed(w)[k].state = "needs_attention"
                 /\ Closed(w)[k].repairs = job[w].plan[k].repairs
                 /\ Closed(w)[k].payload = job[w].plan[k].payload
<1> DEFINE p == job[w].plan
           q == Closed(w)
<1>1. /\ PlanLed(p) /\ p \in Seq(Unit)
      /\ \A k \in DOMAIN p : p[k] \in Unit
  BY JobFacts, PlanFacts DEF JobShape, PlanLed
<1>2. q = [k \in DOMAIN p |-> IF Open(p[k]) /\ job[w].attempt >= MaxAttempts
                              THEN [p[k] EXCEPT !.state = "needs_attention"]
                              ELSE p[k]]
  BY DEF Closed
<1> HIDE DEF p, q
<1>3. ASSUME NEW k \in DOMAIN p
      PROVE  /\ q[k] \in Unit /\ UnitLed(q[k])
             /\ \/ q[k] = p[k]
                \/ /\ Open(p[k]) /\ q[k].state = "needs_attention"
                   /\ q[k].repairs = p[k].repairs /\ q[k].payload = p[k].payload
  <2> DEFINE v == [p[k] EXCEPT !.state = "needs_attention"]
  <2>1. /\ v \in Unit /\ v.state = "needs_attention" /\ v.repairs = p[k].repairs
        /\ v.payload = p[k].payload
    BY <1>1 DEF Unit
  <2>2. (q[k] = v /\ Open(p[k])) \/ q[k] = p[k]
    BY <1>2
  <2> HIDE DEF v
  <2>3. UnitLed(v) /\ UnitLed(p[k]) /\ p[k] \in Unit
    BY <1>1, <2>1 DEF UnitLed, PlanLed
  <2> QED BY <2>1, <2>2, <2>3
<1>4. q \in [DOMAIN p -> Unit]
  BY <1>2, <1>3
<1>5. q \in Seq(Unit) /\ DOMAIN q = DOMAIN p
  BY <1>1, <1>4, MappedSeq
<1>6. PlanLed(q)
  BY <1>3, <1>5 DEF PlanLed
<1> QED BY <1>3, <1>5, <1>6 DEF p, q

\* The last checkpoint of a job is called for.
LEMMA FinishKeeps == ASSUME IInv, NEW w \in Workers, Finish(w) PROVE IInv'
<1> DEFINE p == job[w].plan
           q == Closed(w)
<1>1. /\ job[w].pc = "unit" /\ row' = row /\ graph' = graph /\ faults' = faults
      /\ faults' \in 0 .. MaxFaults /\ Saving(w, q, "final")
  BY DEF Finish, IInv, Typed
<1>2. /\ PlanLed(q) /\ DOMAIN q = DOMAIN p
      /\ \A k \in DOMAIN p :
           \/ q[k] = p[k]
           \/ /\ Open(p[k]) /\ q[k].state = "needs_attention"
              /\ q[k].repairs = p[k].repairs /\ q[k].payload = p[k].payload
  BY <1>1, ClosedFacts
<1>3. /\ job[w].capture # 0 /\ p # NoPlan /\ p \in Seq(Unit)
      /\ HasReceipts(graph, job[w].capture, p)
      /\ Fenced(w) => \A r \in Receipts :
           Issued(r) /\ r.capture = job[w].capture => Matches(p, r)
  BY <1>1, JobFacts DEF JobShape, PlanLed
<1>4. Resting(job[w]) => ~HasOpen(p)
  BY DEF Resting
<1> HIDE DEF p, q
<1>5. q \in Seq(Unit) /\ q # NoPlan
  BY <1>2, <1>3, PlanFacts DEF PlanLed
<1>6. ~HasOpen(p) => ~HasOpen(q)
  BY <1>2, <1>3, <1>5, PlanFacts DEF Open
<1>7. HasReceipts(graph', job[w].capture, q)
  BY <1>1, <1>2, <1>3 DEF HasReceipts, ReceiptOf
<1>8. Carries(p, q)
  BY <1>2 DEF Carries, Open
<1>9. \A r \in Receipts : Matches(p, r) => Matches(q, r)
  BY <1>2 DEF Matches
<1>10. Moves(w)
  BY <1>1, <1>2, <1>3, <1>4, <1>5, <1>6, <1>7, <1>8, <1>9, SavingMoves DEF p
<1> QED BY <1>1, <1>10, JobMoved DEF Moves

\* A worker drops its job.
LEMMA EndedKeeps ==
  ASSUME IInv, NEW w \in Workers, Ended(w), row' = row, graph' = graph,
         faults' \in 0 .. MaxFaults
  PROVE  IInv'
<1>1. job' = [job EXCEPT ![w] = job'[w]] /\ job'[w] = NoJob
  BY JobFacts DEF Ended
<1> QED BY <1>1, Idle, JobMoved DEF Onward

\* A checkpoint goes on, and nothing has been written yet.
LEMMA CheckpointMoves ==
  ASSUME IInv, NEW w \in Workers, NEW pc \in {"writing", "late"},
         job[w].pc \in {"saving", "writing"}, job' = [job EXCEPT ![w].pc = pc],
         row' = row, graph' = graph, faults' \in 0 .. MaxFaults
  PROVE  IInv'
<1> DEFINE j == [job[w] EXCEPT !.pc = pc]
<1>1. /\ job[w] \in Job /\ JobShape(job[w]) /\ job \in [Workers -> Job]
      /\ job[w].capture # 0 /\ HasReceipts(graph, job[w].capture, job[w].plan)
      /\ Fenced(w) => \A r \in Receipts :
           Issued(r) /\ r.capture = job[w].capture => Matches(job[w].plan, r)
  BY JobFacts
<1>2. job' = [job EXCEPT ![w] = j] /\ j \in Job
  BY <1>1 DEF Job
<1>3. /\ j.pc = pc /\ j.why = job[w].why /\ j.capture = job[w].capture
      /\ j.attempt = job[w].attempt /\ j.plan = job[w].plan /\ j.at = job[w].at
  BY <1>1 DEF Job
<1> HIDE DEF j
<1>4. job'[w] = j
  BY <1>1, <1>2
<1>5. JobShape(j)
  BY <1>1, <1>3 DEF JobShape
<1>6. Resting(job[w]) => Resting(j)
  BY <1>3 DEF Resting
<1>7. Carries(job[w].plan, j.plan)
  BY <1>3 DEF Carries
<1>8. Onward(w)
  BY <1>1, <1>3, <1>4, <1>5, <1>6, <1>7 DEF Onward
<1> QED BY <1>2, <1>3, <1>4, <1>8, JobMoved

\* The transaction of a checkpoint begins, or the lease is found lost.
LEMMA BeginKeeps == ASSUME IInv, NEW w \in Workers, BeginCheckpoint(w) PROVE IInv'
<1>1. /\ job[w].pc = "saving" /\ row' = row /\ graph' = graph /\ faults' = faults
      /\ faults' \in 0 .. MaxFaults
  BY DEF BeginCheckpoint, IInv, Typed
<1>2. CASE job' = [job EXCEPT ![w].pc = "writing"]
  BY <1>1, <1>2, CheckpointMoves
<1>3. CASE Ended(w)
  BY <1>1, <1>3, EndedKeeps
<1> QED BY <1>2, <1>3 DEF BeginCheckpoint

\* It takes longer than the back-off.
LEMMA StallKeeps == ASSUME IInv, NEW w \in Workers, Stall(w) PROVE IInv'
<1>1. /\ job[w].pc = "writing" /\ row' = row /\ graph' = graph /\ faults' = faults
      /\ faults' \in 0 .. MaxFaults /\ job' = [job EXCEPT ![w].pc = "late"]
  BY DEF Stall, IInv, Typed
<1> QED BY <1>1, CheckpointMoves

-----------------------------------------------------------------------------
(* A checkpoint is written. *)

\* What worker w does when its checkpoint was written, or when it does not know.
Follows(w) ==
    /\ job' = [job EXCEPT ![w] = job'[w]] /\ job'[w] \in Job
    /\ Onward(w) /\ job'[w].pc # "looked"
    /\ job'[w].pc = "unit" => job'[w].plan = job[w].plan
    /\ StateWritten(job[w]) \in Final => job'[w] = NoJob \/ Resting(job'[w])

\* A checkpoint leaves a final state when nothing is open, or when the last attempt
\* could not even be made.
LEMMA StateFacts ==
  ASSUME NEW j \in Job
  PROVE  /\ StateWritten(j) \in {"pending", "processing"} \cup Final
         /\ StateWritten(j) \in Final => \/ j.why = "rescue"
                                         \/ j.why = "final" /\ ~HasOpen(j.plan)
         /\ StateWritten(j) = "complete" =>
              /\ j.why = "final"
              /\ \A k \in DOMAIN j.plan : j.plan[k].state \in {"saved", "ignored"}
<1>1. /\ Outcome(j.plan) \in Final
      /\ Outcome(j.plan) = "complete" =>
           \A k \in DOMAIN j.plan : j.plan[k].state \in {"saved", "ignored"}
  BY DEF Outcome, Final
<1>2. CASE j.why = "rescue"
  BY <1>2 DEF StateWritten, Final
<1>3. CASE j.why = "final"
  BY <1>1, <1>3 DEF StateWritten, Final
<1>4. CASE j.why \notin {"rescue", "final"}
  BY <1>4 DEF StateWritten, Final
<1> QED BY <1>2, <1>3, <1>4

\* A worker at a checkpoint may go on with the plan it has.
LEMMA SamePlanFollows ==
  ASSUME IInv, NEW w \in Workers, InCheckpoint(w), graph' = graph,
         NEW j \in Job, job' = [job EXCEPT ![w] = j], JobShape(j),
         j.capture = job[w].capture, j.attempt = job[w].attempt,
         j.plan = job[w].plan, j.pc # "looked", j.why # "plan",
         job[w].why # "rescue"
  PROVE  Follows(w)
<1>1. /\ job[w] \in Job /\ JobShape(job[w]) /\ job \in [Workers -> Job]
      /\ job[w].capture # 0 /\ HasReceipts(graph, job[w].capture, job[w].plan)
      /\ Fenced(w) => \A r \in Receipts :
           Issued(r) /\ r.capture = job[w].capture => Matches(job[w].plan, r)
  BY JobFacts DEF InCheckpoint
<1>2. job'[w] = j
  BY <1>1
<1>3. j.pc # "extract" \/ j.plan = NoPlan
  BY DEF JobShape
<1>4. Resting(job[w]) => Resting(j)
  BY <1>3 DEF Resting
<1>5. Carries(job[w].plan, j.plan)
  BY DEF Carries
<1>6. StateWritten(job[w]) \in Final => Resting(j)
  <2>1. job[w].plan # NoPlan \/ job[w].why # "final"
    BY <1>1 DEF JobShape
  <2> QED BY <1>1, <1>3, <2>1, StateFacts DEF Resting
<1> QED BY <1>1, <1>2, <1>4, <1>5, <1>6 DEF Follows, Onward

\* A worker may drop its job.
LEMMA EndedFollows ==
  ASSUME IInv, NEW w \in Workers, Ended(w)
  PROVE  Follows(w) /\ job'[w].pc = "idle"
<1>1. job' = [job EXCEPT ![w] = NoJob] /\ job'[w] = NoJob
  BY JobFacts DEF Ended
<1> QED BY <1>1, Idle DEF Follows, Onward

\* The checkpoint was made: the job goes on, or is done.
LEMMA ReturnsFollows ==
  ASSUME IInv, NEW w \in Workers, InCheckpoint(w), graph' = graph, Returns(w)
  PROVE  Follows(w)
<1>1. CASE job[w].why \in {"final", "rescue"}
  BY <1>1, EndedFollows DEF Returns
<1>2. CASE job[w].why \notin {"final", "rescue"}
  <2> DEFINE at == IF job[w].why = "skip" THEN job[w].at + 1 ELSE job[w].at
             j == [job[w] EXCEPT !.pc = "unit", !.why = "none", !.at = at]
  <2>1. /\ job[w] \in Job /\ JobShape(job[w]) /\ job \in [Workers -> Job]
        /\ job[w].at \in Nat \ {0} /\ job[w].why # "none"
    BY JobFacts DEF JobShape, Job, InCheckpoint
  <2>2. job' = [job EXCEPT ![w] = j]
    BY <1>2, <2>1 DEF Returns
  <2>3. at \in Nat \ {0}
    BY <2>1
  <2> HIDE DEF at
  <2>4. /\ j \in Job /\ j.pc = "unit" /\ j.why = "none" /\ j.at = at
        /\ j.capture = job[w].capture /\ j.attempt = job[w].attempt
        /\ j.plan = job[w].plan
    BY <2>1, <2>3 DEF Job
  <2> HIDE DEF j
  <2>5. job[w].plan # NoPlan
    BY <1>2, <2>1 DEF JobShape, Job
  <2>6. JobShape(j)
    BY <2>1, <2>3, <2>4, <2>5 DEF JobShape
  <2> QED BY <1>2, <2>2, <2>4, <2>6, SamePlanFollows
<1> QED BY <1>1, <1>2

\* The connection was lost: whoever catches that makes a checkpoint again.
LEMMA RaisesFollows ==
  ASSUME IInv, NEW w \in Workers, InCheckpoint(w), graph' = graph, Raises(w)
  PROVE  Follows(w) /\ job'[w].pc \in {"idle", "saving"}
<1>1. /\ job[w] \in Job /\ JobShape(job[w]) /\ job \in [Workers -> Job]
      /\ job[w].at \in Nat \ {0} /\ job[w].why # "none" /\ job[w].capture # 0
      /\ Fenced(w) => \A r \in Receipts :
           Issued(r) /\ r.capture = job[w].capture => Matches(job[w].plan, r)
  BY JobFacts DEF JobShape, Job, InCheckpoint
<1>2. ASSUME NEW why \in {"skip", "rescue"}, job[w].why \notin {"plan", "rescue"},
             job' = [job EXCEPT ![w].pc = "saving", ![w].why = why]
      PROVE  Follows(w) /\ job'[w].pc = "saving"
  <2> DEFINE j == [job[w] EXCEPT !.pc = "saving", !.why = why]
  <2>1. job' = [job EXCEPT ![w] = j]
    BY <1>1, <1>2
  <2>2. /\ j \in Job /\ j.pc = "saving" /\ j.why = why /\ j.at = job[w].at
        /\ j.capture = job[w].capture /\ j.attempt = job[w].attempt
        /\ j.plan = job[w].plan
    BY <1>1, <1>2 DEF Job
  <2> HIDE DEF j
  <2>3. job[w].plan # NoPlan
    BY <1>1, <1>2 DEF JobShape, Job
  <2>4. JobShape(j)
    BY <1>1, <1>2, <2>2, <2>3 DEF JobShape
  <2>5. Follows(w)
    BY <1>2, <2>1, <2>2, <2>4, SamePlanFollows
  <2>6. job'[w] = j
    BY <1>1, <2>1
  <2> QED BY <2>2, <2>5, <2>6
<1>3. CASE job[w].why \in {"prepared", "done"}
  BY <1>2, <1>3 DEF Raises
<1>4. CASE job[w].why \in {"skip", "final"}
  BY <1>2, <1>4 DEF Raises
<1>5. CASE job[w].why = "plan"
  <2> DEFINE j == [job[w] EXCEPT !.pc = "saving", !.why = "rescue", !.plan = NoPlan]
  <2>1. job' = [job EXCEPT ![w] = j]
    BY <1>1, <1>5 DEF Raises
  <2>2. /\ j \in Job /\ j.pc = "saving" /\ j.why = "rescue" /\ j.at = job[w].at
        /\ j.capture = job[w].capture /\ j.attempt = job[w].attempt
        /\ j.plan = NoPlan
    BY <1>1, NoPlanLed DEF Job, PlanLed
  <2> HIDE DEF j
  <2>3. job'[w] = j
    BY <1>1, <2>1
  <2>4. \A k \in DOMAIN job[w].plan : job[w].plan[k].state \in Fresh
    BY <1>1, <1>5 DEF JobShape
  <2>5. JobShape(j)
    BY <1>1, <2>2, NoPlanLed DEF JobShape
  <2>6. /\ Carries(job[w].plan, NoPlan) /\ ~Resting(job[w])
        /\ \A r \in Receipts : ~Matches(job[w].plan, r)
    BY <1>5, <2>4 DEF Carries, Resting, Matches, Fresh
  <2>7. StateWritten(job[w]) \notin Final
    BY <1>1, <1>5, StateFacts
  <2>8. Onward(w)
    BY <1>1, <2>2, <2>3, <2>5, <2>6, NoPlanLed DEF Onward
  <2> QED BY <2>1, <2>2, <2>3, <2>7, <2>8 DEF Follows
<1>6. CASE job[w].why = "rescue"
  BY <1>6, EndedFollows DEF Raises
<1> QED BY <1>1, <1>3, <1>4, <1>5, <1>6 DEF Job

\* A worker whose lease token is the row's writes the row.
LEMMA Checkpointed ==
  ASSUME IInv, NEW w \in Workers, InCheckpoint(w), Fenced(w), Written(w),
         graph' = graph, faults' \in 0 .. MaxFaults, Follows(w)
  PROVE  IInv'
<1> DEFINE c == job[w].capture
<1>1. /\ JobLed(w) /\ c \in Captures /\ c # 0
      /\ PlanLed(job[w].plan) /\ job[w].plan \in Seq(Unit)
      /\ HasReceipts(graph, c, job[w].plan) /\ job[w].attempt # 0
      /\ \A r \in Receipts :
           Issued(r) /\ r.capture = c => Matches(job[w].plan, r)
      /\ job[w] \in Job /\ JobShape(job[w])
  BY JobFacts DEF IInv, JobShape, PlanLed, InCheckpoint
<1>2. /\ \A d \in Captures : d # c => row'[d] = row[d]
      /\ \A d \in Captures : row'[d].attempts = row[d].attempts
      /\ row'[c].state = StateWritten(job[w]) /\ row'[c].plan = job[w].plan
      /\ row' \in [Captures -> Row]
  <2> DEFINE x == [row[c] EXCEPT !.state = StateWritten(job[w]), !.plan = job[w].plan,
                                 !.lease = TRUE, !.due = (job[w].pc = "late")]
  <2>1. row \in [Captures -> Row]
    BY DEF IInv, Typed
  <2>2. row' = [row EXCEPT ![c] = x]
    BY <1>1, <2>1 DEF Written
  <2>3. StateWritten(job[w]) \in {"pending", "processing"} \cup Final
    BY <1>1, StateFacts
  <2>4. /\ x \in Row /\ x.state = StateWritten(job[w]) /\ x.plan = job[w].plan
        /\ x.attempts = row[c].attempts
    BY <1>1, <2>1, <2>3 DEF Row
  <2> HIDE DEF x, c
  <2> QED BY <1>1, <2>1, <2>2, <2>4
<1> HIDE DEF c
<1>3. /\ Typed' /\ \A v \in Workers : v # w => job'[v] = job[v]
      /\ JobShape(job'[w])
      /\ job'[w].capture # 0 => /\ job'[w] # NoJob /\ job'[w].capture = c
                                /\ job'[w].attempt = job[w].attempt
  BY <1>2, Idle DEF IInv, Typed, Follows, Onward, c
<1>4. ASSUME NEW v \in Workers, NEW d \in Captures, Holds(v, d)'
      PROVE  /\ Holds(v, d) /\ (d = c <=> v = w)
             /\ v = w => job'[w] # NoJob /\ job'[w].capture # 0
             /\ v # w => job'[v] = job[v]
  <2>1. CASE v = w
    <3>1. job'[w].capture # 0
      BY <1>4, <2>1, CaptureNumbers DEF Holds
    <3>2. d = c
      BY <1>3, <1>4, <2>1, <3>1 DEF Holds
    <3> QED BY <1>3, <2>1, <3>1, <3>2 DEF Holds, c
  <2>2. CASE v # w
    <3>1. job'[v] = job[v] /\ job[v].capture = d /\ job[v].attempt = row[d].attempts
      BY <1>2, <1>3, <1>4, <2>2 DEF Holds, Fenced
    <3>2. d # c
      BY <1>1, <2>2, <3>1 DEF JobLed, Fenced, c
    <3> QED BY <2>2, <3>1, <3>2 DEF Holds, Fenced
  <2> QED BY <2>1, <2>2
<1>5. Holds(w, c) /\ StateWritten(job[w]) # "absent" /\ row[c].state # "absent"
  <2>1. RowLed(c) /\ row[c].attempts = job[w].attempt
    BY <1>1 DEF IInv, Fenced, c
  <2>2. row[c].state # "absent"
    BY <1>1, <2>1 DEF RowLed
  <2> QED BY <1>1, <2>2, StateFacts DEF Holds, Final, c
<1>6. ASSUME NEW d \in Captures, HoldersRest(d) PROVE HoldersRest(d)'
  <2> SUFFICES ASSUME NEW v \in Workers, Holds(v, d)' PROVE Resting(job'[v])
    BY DEF HoldersRest, Resting
  <2>1. Holds(v, d) /\ Resting(job[v])
    BY <1>4, <1>6 DEF HoldersRest
  <2> QED BY <1>4, <2>1 DEF Follows, Onward
<1>7. ASSUME NEW d \in Captures, Behind(d) PROVE Behind(d)'
  <2>1. HoldersRest(d)'
    BY <1>6, <1>7 DEF Behind
  <2>2. CASE d = c
    <3>1. Resting(job[w])
      BY <1>5, <1>7, <2>2 DEF Behind, HoldersRest
    <3>2. Settled(d)'
      BY <1>2, <2>2, <3>1 DEF Resting, Settled
    <3> QED BY <2>1, <3>2 DEF Behind
  <2>3. CASE d # c
    <3>1. Settled(d)'
      BY <1>2, <1>7, <2>3 DEF Behind, Settled
    <3> QED BY <2>1, <3>1 DEF Behind
  <2> QED BY <2>2, <2>3
<1>8. ASSUME NEW d \in Captures PROVE RowLed(d)'
  <2>1. RowLed(d)
    BY DEF IInv
  <2>2. /\ PlanLed(row'[d].plan) /\ HasReceipts(graph', d, row'[d].plan)
        /\ row'[d].state = "absent" => row'[d].attempts = 0
        /\ row'[d].state = "complete" =>
             /\ row'[d].plan # NoPlan
             /\ \A k \in DOMAIN row'[d].plan :
                  row'[d].plan[k].state \in {"saved", "ignored"}
    <3>1. CASE d = c
      <4>1. StateWritten(job[w]) = "complete" =>
              /\ job[w].plan # NoPlan
              /\ \A k \in DOMAIN job[w].plan :
                   job[w].plan[k].state \in {"saved", "ignored"}
        BY <1>1, StateFacts DEF JobShape
      <4> QED BY <1>1, <1>2, <1>5, <3>1, <4>1
    <3>2. CASE d # c
      BY <1>2, <2>1, <3>2 DEF RowLed
    <3> QED BY <3>1, <3>2
  <2>3. row'[d].state # "absent" =>
          \A e \in Captures : e < d => row'[e].state # "absent"
    BY <1>2, <1>5, <2>1 DEF RowLed
  <2>4. row'[d].state \in Final => HoldersRest(d)'
    <3>1. CASE d = c
      <4> SUFFICES ASSUME StateWritten(job[w]) \in Final, NEW v \in Workers,
                          Holds(v, d)'
                   PROVE  Resting(job'[v])
        BY <1>2, <3>1 DEF HoldersRest, Resting
      <4> QED BY <1>4, <3>1 DEF Follows
    <3>2. CASE d # c
      BY <1>2, <1>6, <2>1, <3>2 DEF RowLed
    <3> QED BY <3>1, <3>2
  <2>5. ASSUME NEW v \in Workers, Holds(v, d)'
        PROVE  Carries(row'[d].plan, job'[v].plan)
    <3>1. CASE v = w
      BY <1>2, <1>4, <2>5, <3>1 DEF Follows, Onward
    <3>2. CASE v # w
      BY <1>2, <1>4, <2>1, <2>5, <3>2 DEF RowLed
    <3> QED BY <3>1, <3>2
  <2>6. HasReceipts(graph, d, row[d].plan)'
    BY <2>2
  <2> QED BY <2>2, <2>3, <2>4, <2>5, <2>6 DEF RowLed
<1>9. ASSUME NEW v \in Workers PROVE JobLed(v)'
  <2>1. JobLed(v)
    BY DEF IInv
  <2>2. CASE v # w
    <3>1. job[v].pc = "looked" => \A u \in Workers : job'[u].pc = "looked" => u = v
      BY <1>3, <2>1 DEF JobLed, Follows
    <3>2. \A u \in Workers : u # v /\ job'[v].capture # 0
                             /\ job'[u].capture = job'[v].capture =>
                               job'[u].attempt # job'[v].attempt
      BY <1>3, <2>1, <2>2 DEF JobLed, c
    <3>3. \A d \in Captures : d < job[v].capture /\ job[v].capture # 0 => Behind(d)'
      BY <1>7, <2>1 DEF JobLed
    <3>4. job[v].capture # 0 => job[v].capture \in Captures
      BY <2>1 DEF JobLed, JobShape
    <3> QED BY <1>2, <1>3, <2>1, <2>2, <3>1, <3>2, <3>3, <3>4 DEF JobLed
  <2>3. CASE v = w
    <3>1. CASE job'[w].capture = 0
      BY <1>3, <2>3, <3>1 DEF JobLed, Follows
    <3>2. CASE job'[w].capture # 0
      <4>1. HasReceipts(graph', job'[w].capture, job'[w].plan)
        BY <1>3, <3>2 DEF Follows, Onward, c
      <4>2. \A d \in Captures : d < job'[w].capture => Behind(d)'
        BY <1>1, <1>3, <1>7, <3>2 DEF JobLed, c
      <4>3. \A u \in Workers : u # w /\ job'[u].capture = job'[w].capture =>
                                 job'[u].attempt # job'[w].attempt
        BY <1>1, <1>3, <3>2 DEF JobLed, c
      <4>4. job'[w].attempt <= row'[job'[w].capture].attempts
        BY <1>1, <1>2, <1>3, <3>2 DEF JobLed, c
      <4> QED BY <1>3, <2>3, <3>2, <4>1, <4>2, <4>3, <4>4 DEF JobLed, Follows
    <3> QED BY <3>1, <3>2
  <2> QED BY <2>2, <2>3
<1>10. ASSUME NEW r \in Receipts PROVE ReceiptLed(r)'
  <2> SUFFICES ASSUME Issued(r)'
               PROVE  /\ Matches(row'[r.capture].plan, r)
                      /\ \A v \in Workers : Holds(v, r.capture)' =>
                                              Matches(job'[v].plan, r)
    BY DEF ReceiptLed, Matches
  <2>1. r.capture \in Captures /\ ReceiptLed(r)
    BY DEF IInv, Receipts
  <2>2. \/ Issued(r)
        \/ /\ r.capture = c /\ Matches(job[w].plan, r)
           /\ job'[w].plan = job[w].plan
    <3>1. CASE r \in graph
      BY <3>1 DEF Issued
    <3>2. ASSUME NEW v \in Workers, v # w, CanWrite(v, r)' PROVE Issued(r)
      BY <1>3, <3>2 DEF Issued, CanWrite
    <3>3. ASSUME CanWrite(w, r)'
          PROVE  /\ r.capture = c /\ Matches(job[w].plan, r)
                 /\ job'[w].plan = job[w].plan
      <4>1. /\ job'[w].pc = "unit" /\ job'[w].capture = r.capture
            /\ Matches(job'[w].plan, r)
        BY <3>3 DEF CanWrite, Matches
      <4>2. job'[w].capture # 0
        BY <2>1, <4>1, CaptureNumbers
      <4> QED BY <1>3, <4>1, <4>2 DEF Follows
    <3> QED BY <3>1, <3>2, <3>3 DEF Issued
  <2>3. CASE r.capture = c
    <3>1. Matches(job[w].plan, r)
      BY <1>1, <2>2, <2>3
    <3>2. ASSUME NEW v \in Workers, Holds(v, r.capture)' PROVE Matches(job'[v].plan, r)
      <4>1. v = w /\ job'[w] # NoJob
        BY <1>4, <2>1, <2>3, <3>2
      <4>2. CASE Issued(r)
        BY <1>5, <2>3, <4>1, <4>2 DEF Follows, Onward, c
      <4>3. CASE job'[w].plan = job[w].plan
        BY <3>1, <4>1, <4>3
      <4> QED BY <2>2, <4>2, <4>3
    <3> QED BY <1>2, <2>3, <3>1, <3>2
  <2>4. CASE r.capture # c
    BY <1>2, <1>4, <2>1, <2>2, <2>4 DEF ReceiptLed
  <2> QED BY <2>3, <2>4
<1> QED BY <1>3, <1>8, <1>9, <1>10 DEF IInv

\* The row is written under the lease token, or the job is dropped.
LEMMA WriteKeeps == ASSUME IInv, NEW w \in Workers, WriteCheckpoint(w) PROVE IInv'
<1>1. /\ InCheckpoint(w) /\ graph' = graph /\ faults' = faults
      /\ faults' \in 0 .. MaxFaults
  BY DEF WriteCheckpoint, IInv, Typed
<1>2. CASE Fenced(w) /\ Written(w) /\ Returns(w)
  BY <1>1, <1>2, ReturnsFollows, Checkpointed
<1>3. CASE row' = row /\ Ended(w)
  BY <1>1, <1>3, EndedKeeps
<1> QED BY <1>2, <1>3 DEF WriteCheckpoint

\* The connection is lost, before or after the row was written.
LEMMA LoseKeeps == ASSUME IInv, NEW w \in Workers, LoseCheckpoint(w) PROVE IInv'
<1>1. /\ InCheckpoint(w) /\ graph' = graph /\ Raises(w)
      /\ faults' \in 0 .. MaxFaults
  BY DEF LoseCheckpoint, Fault, IInv, Typed
<1>2. Follows(w) /\ job'[w].pc \in {"idle", "saving"}
  BY <1>1, RaisesFollows
<1>3. CASE row' = row
  BY <1>1, <1>2, <1>3, JobMoved DEF Follows
<1>4. CASE Fenced(w) /\ Written(w)
  BY <1>1, <1>2, <1>4, Checkpointed
<1> QED BY <1>3, <1>4 DEF LoseCheckpoint

\* The process of a worker stops.
LEMMA CrashKeeps == ASSUME IInv, NEW w \in Workers, Crash(w) PROVE IInv'
<1>1. /\ row' = row /\ graph' = graph /\ Ended(w) /\ faults' \in 0 .. MaxFaults
  BY DEF Crash, Fault, IInv, Typed
<1> QED BY <1>1, EndedKeeps

-----------------------------------------------------------------------------
(* A job is claimed. *)

\* No job is being done, and a claim begins.
LEMMA LookKeeps == ASSUME IInv, NEW w \in Workers, Look(w) PROVE IInv'
<1> DEFINE j == [job[w] EXCEPT !.pc = "looked"]
<1>1. /\ job[w].pc = "idle" /\ row' = row /\ graph' = graph /\ faults' = faults
      /\ \A v \in Workers : job[v].pc # "looked"
  BY DEF Look
<1>2. /\ job[w] \in Job /\ JobShape(job[w]) /\ job \in [Workers -> Job]
      /\ job[w].capture = 0 /\ job[w].why = "none"
  BY <1>1, JobFacts DEF JobShape
<1>3. job' = [job EXCEPT ![w] = j]
  BY <1>2 DEF Look
<1>4. /\ j \in Job /\ j.pc = "looked" /\ j.why = "none" /\ j.capture = 0
      /\ j.plan = job[w].plan
  BY <1>2 DEF Job
<1> HIDE DEF j
<1>5. /\ job'[w] = j /\ \A v \in Workers : v # w => job'[v] = job[v]
      /\ JobShape(j) /\ Typed'
  BY <1>1, <1>2, <1>3, <1>4 DEF JobShape, IInv, Typed
<1>6. \A v \in Workers, c \in Captures : Holds(v, c)' => v # w /\ Holds(v, c)
  BY <1>1, <1>4, <1>5, CaptureNumbers DEF Holds, Fenced
<1>7. \A c \in Captures : /\ HoldersRest(c) => HoldersRest(c)'
                          /\ Behind(c) => Behind(c)'
  BY <1>1, <1>5, <1>6 DEF HoldersRest, Behind, Settled, Resting
<1>8. ASSUME NEW c \in Captures PROVE RowLed(c)'
  <2>1. RowLed(c)
    BY DEF IInv
  <2>2. \A v \in Workers : Holds(v, c)' => Carries(row[c].plan, job'[v].plan)
    BY <1>5, <1>6, <2>1 DEF RowLed
  <2> QED BY <1>1, <1>7, <2>1, <2>2 DEF RowLed
<1>9. ASSUME NEW v \in Workers PROVE JobLed(v)'
  <2>1. JobLed(v)
    BY DEF IInv
  <2>2. CASE v = w
    <3>1. \A u \in Workers : job'[u].pc = "looked" => u = w
      BY <1>1, <1>5
    <3> QED BY <1>4, <1>5, <2>2, <3>1 DEF JobLed
  <2>3. CASE v # w
    <3>1. job'[v].pc # "looked" /\ job'[v] = job[v]
      BY <1>1, <1>5, <2>3
    <3>2. \A u \in Workers : u # v /\ job'[v].capture # 0
                             /\ job'[u].capture = job'[v].capture =>
                               job'[u].attempt # job'[v].attempt
      BY <1>4, <1>5, <2>1, <2>3 DEF JobLed
    <3>3. \A d \in Captures : d < job[v].capture /\ job[v].capture # 0 => Behind(d)'
      BY <1>7, <2>1 DEF JobLed
    <3> QED BY <1>1, <2>1, <2>3, <3>1, <3>2, <3>3 DEF JobLed
  <2> QED BY <2>2, <2>3
<1>10. ASSUME NEW r \in Receipts PROVE ReceiptLed(r)'
  <2>1. ReceiptLed(r) /\ r.capture \in Captures
    BY DEF IInv, Receipts
  <2>2. Issued(r)' => Issued(r)
    BY <1>1, <1>4, <1>5 DEF Issued, CanWrite
  <2> QED BY <1>1, <1>5, <1>6, <2>1, <2>2 DEF ReceiptLed
<1> QED BY <1>5, <1>8, <1>9, <1>10 DEF IInv

\* The oldest job is claimed, under a new token: whoever had it is fenced off.
LEMMA ClaimKeeps ==
  ASSUME IInv, NEW w \in Workers, job[w].pc = "looked", NEW c \in Captures, Oldest(c),
         Claimed(w, c), graph' = graph, faults' = faults
  PROVE  IInv'
<1> DEFINE pc == IF row[c].plan = NoPlan THEN "extract" ELSE "unit"
           n == row[c].attempts + 1
           p == row[c].plan
           j == [NoJob EXCEPT !.pc = pc, !.capture = c, !.at = 1, !.attempt = n,
                              !.plan = p]
           x == [row[c] EXCEPT !.state = "processing", !.lease = TRUE,
                               !.attempts = n]
<1>1. /\ job[w] \in Job /\ JobShape(job[w]) /\ job \in [Workers -> Job]
      /\ job[w].capture = 0 /\ JobLed(w) /\ RowLed(c)
      /\ row \in [Captures -> Row] /\ row[c].attempts \in Nat
      /\ c \in Nat \ {0} /\ row[c].plan \in Seq(Unit) /\ Waiting(c)
  BY JobFacts, CaptureNumbers DEF IInv, Typed, Row, Oldest
<1>2. job' = [job EXCEPT ![w] = j] /\ row' = [row EXCEPT ![c] = x]
  BY <1>1 DEF Claimed
<1>3. n \in Nat /\ p \in Seq(Unit) /\ pc \in {"extract", "unit"} /\ row[c] \in Row
  BY <1>1
<1> HIDE DEF n, p, pc
<1>4. /\ j \in Job /\ j.capture = c /\ j.attempt = n /\ j.why = "none"
      /\ j.plan = p /\ j.at = 1 /\ j.pc = pc
  <2>1. NoJob \in Job /\ NoJob.why = "none" /\ c \in Nat
    BY <1>1, Idle DEF NoJob
  <2> QED BY <1>3, <2>1 DEF Job
<1>5. /\ x \in Row /\ x.state = "processing" /\ x.attempts = n
      /\ x.plan = row[c].plan
  BY <1>3 DEF Row
<1> HIDE DEF j, x
<1>6. /\ j \in Job /\ j.capture = c /\ j.attempt = row[c].attempts + 1 /\ j.why = "none"
      /\ j.plan = row[c].plan /\ j.at = 1
      /\ j.pc = IF row[c].plan = NoPlan THEN "extract" ELSE "unit"
  BY <1>4 DEF n, p, pc
<1>7. /\ x \in Row /\ x.state = "processing" /\ x.attempts = row[c].attempts + 1
      /\ x.plan = row[c].plan
  BY <1>5 DEF n
<1>8. /\ job'[w] = j /\ \A v \in Workers : v # w => job'[v] = job[v]
      /\ row'[c] = x /\ \A d \in Captures : d # c => row'[d] = row[d]
      /\ Typed'
  BY <1>1, <1>2, <1>6, <1>7 DEF IInv, Typed
<1>9. JobShape(j)
  BY <1>1, <1>6 DEF JobShape, RowLed
<1>10. ASSUME NEW v \in Workers, NEW d \in Captures, Holds(v, d)'
      PROVE  /\ d = c <=> v = w
             /\ v # w => Holds(v, d) /\ job'[v] = job[v]
  <2>1. CASE v = w
    BY <1>6, <1>8, <1>10, <2>1 DEF Holds
  <2>2. CASE v # w
    <3>1. JobLed(v) /\ job[v] \in Job
      BY JobFacts DEF IInv
    <3>2. d # c
      <4> SUFFICES ASSUME d = c PROVE FALSE
        OBVIOUS
      <4>1. /\ job[v].capture = c /\ job[v].attempt = row[c].attempts + 1
        BY <1>7, <1>8, <1>10, <2>2 DEF Holds, Fenced
      <4>2. job[v].attempt <= row[c].attempts
        BY <1>1, <3>1, <4>1 DEF JobLed
      <4> QED BY <1>1, <4>1, <4>2
    <3> QED BY <1>8, <1>10, <2>2, <3>2 DEF Holds, Fenced
  <2> QED BY <2>1, <2>2
<1>11. row[c].plan # NoPlan /\ ~HasOpen(row[c].plan) => Resting(j)
  BY <1>6 DEF Resting
<1>12. ASSUME NEW d \in Captures, d # c, HoldersRest(d) PROVE HoldersRest(d)'
  BY <1>10, <1>12 DEF HoldersRest, Resting
<1>13. ASSUME NEW d \in Captures, Behind(d) PROVE Behind(d)'
  <2>1. CASE d = c
    <3>1. row[c].plan # NoPlan /\ ~HasOpen(row[c].plan)
      BY <1>1, <1>13, <2>1 DEF Behind, Settled, Waiting, Final
    <3>2. Settled(d)'
      BY <1>7, <1>8, <2>1, <3>1 DEF Settled
    <3>3. HoldersRest(d)'
      <4> SUFFICES ASSUME NEW v \in Workers, Holds(v, d)' PROVE Resting(job'[v])
        BY DEF HoldersRest, Resting
      <4> QED BY <1>8, <1>10, <1>11, <2>1, <3>1
    <3> QED BY <3>2, <3>3 DEF Behind
  <2>2. CASE d # c
    <3>1. Settled(d)'
      BY <1>8, <1>13, <2>2 DEF Behind, Settled
    <3> QED BY <1>12, <1>13, <2>2, <3>1 DEF Behind
  <2> QED BY <2>1, <2>2
<1>14. \A d \in Captures : d < c => Behind(d)
  <2> SUFFICES ASSUME NEW d \in Captures, d < c PROVE Behind(d)
    OBVIOUS
  <2>1. RowLed(d) /\ row[d] \in Row
    BY <1>1 DEF IInv
  <2>2. row[d].state # "absent" /\ ~Waiting(d)
    BY <1>1 DEF RowLed, Waiting, Oldest
  <2>3. row[d].state \in Final
    BY <2>1, <2>2 DEF Row, Waiting
  <2> QED BY <2>1, <2>3 DEF RowLed, Behind, Settled
<1>15. ASSUME NEW d \in Captures PROVE RowLed(d)'
  <2>1. RowLed(d)
    BY DEF IInv
  <2>2. CASE d = c
    <3>1. ASSUME NEW v \in Workers, Holds(v, d)'
          PROVE  Carries(row'[d].plan, job'[v].plan)
      BY <1>6, <1>7, <1>8, <1>10, <2>2, <3>1 DEF Carries
    <3>2. \A e \in Captures : e < d => row'[e].state # "absent"
      <4>1. row[c].state # "absent"
        BY <1>1 DEF Waiting
      <4> QED BY <1>1, <1>7, <1>8, <2>2, <4>1 DEF RowLed
    <3>3. row'[d].state = "processing" /\ row'[d].plan = row[c].plan
      BY <1>7, <1>8, <2>2
    <3> QED BY <1>1, <2>2, <3>1, <3>2, <3>3 DEF RowLed, Final
  <2>3. CASE d # c
    <3>1. row'[d] = row[d] /\ row[c].state # "absent" /\ row'[c].state # "absent"
      BY <1>1, <1>7, <1>8, <2>3 DEF Waiting
    <3>2. ASSUME NEW v \in Workers, Holds(v, d)'
          PROVE  Carries(row'[d].plan, job'[v].plan)
      BY <1>10, <2>1, <2>3, <3>1, <3>2 DEF RowLed
    <3>3. row'[d].state # "absent" =>
            \A e \in Captures : e < d => row'[e].state # "absent"
      BY <1>8, <2>1, <3>1 DEF RowLed
    <3> QED BY <1>12, <2>1, <2>3, <3>1, <3>2, <3>3 DEF RowLed
  <2> QED BY <2>2, <2>3
<1>16. \A v \in Workers : v # w /\ job[v].capture = c => job[v].attempt # j.attempt
  <2> SUFFICES ASSUME NEW v \in Workers, job[v].capture = c PROVE job[v].attempt # j.attempt
    OBVIOUS
  <2>1. JobLed(v) /\ job[v].attempt \in Nat
    BY JobFacts DEF IInv, Job
  <2>2. job[v].attempt <= row[c].attempts
    BY <1>1, <2>1 DEF JobLed
  <2> QED BY <1>1, <1>6, <2>1, <2>2
<1>17. ASSUME NEW v \in Workers PROVE JobLed(v)'
  <2>1. JobLed(v) /\ job[v] \in Job
    BY JobFacts DEF IInv
  <2>2. CASE v = w
    <3>1. /\ j.attempt <= row'[c].attempts /\ j.pc # "looked" /\ job'[v] = j
          /\ j.capture = c
      BY <1>1, <1>6, <1>7, <1>8, <2>2
    <3>2. HasReceipts(graph', c, j.plan)
      BY <1>1, <1>6 DEF RowLed
    <3>3. \A d \in Captures : d < c => Behind(d)'
      BY <1>13, <1>14
    <3>4. \A u \in Workers : u # w /\ job'[u].capture = c => job'[u].attempt # j.attempt
      BY <1>8, <1>16
    <3> QED BY <1>9, <2>2, <3>1, <3>2, <3>3, <3>4 DEF JobLed
  <2>3. CASE v # w
    <3>1. job'[v] = job[v] /\ job[v].pc # "looked"
      BY <1>1, <1>8, <2>3 DEF JobLed
    <3>2. job[v].capture # 0 => /\ job[v].capture \in Captures
                                /\ job[v].attempt <= row'[job[v].capture].attempts
      <4>1. job[v].capture # 0 => /\ job[v].capture \in Captures
                                  /\ job[v].attempt <= row[job[v].capture].attempts
        BY <2>1 DEF JobLed, JobShape
      <4>2. CASE job[v].capture = c
        BY <1>1, <1>7, <1>8, <2>1, <4>1, <4>2 DEF Job
      <4>3. CASE job[v].capture # c
        BY <1>8, <4>1, <4>3
      <4> QED BY <4>2, <4>3
    <3>3. \A u \in Workers : u # v /\ job'[v].capture # 0
                             /\ job'[u].capture = job'[v].capture =>
                               job'[u].attempt # job'[v].attempt
      BY <1>6, <1>8, <1>16, <2>1, <2>3 DEF JobLed
    <3>4. \A d \in Captures : d < job[v].capture /\ job[v].capture # 0 => Behind(d)'
      BY <1>13, <2>1 DEF JobLed
    <3>5. job[v].capture # 0 => HasReceipts(graph', job[v].capture, job[v].plan)
      BY <2>1 DEF JobLed
    <3> QED BY <2>1, <2>3, <3>1, <3>2, <3>3, <3>4, <3>5 DEF JobLed
  <2> QED BY <2>2, <2>3
<1>18. ASSUME NEW r \in Receipts PROVE ReceiptLed(r)'
  <2> SUFFICES ASSUME Issued(r)'
               PROVE  /\ Matches(row'[r.capture].plan, r)
                      /\ \A v \in Workers : Holds(v, r.capture)' =>
                                              Matches(job'[v].plan, r)
    BY DEF ReceiptLed, Matches
  <2>1. ReceiptLed(r) /\ r.capture \in Captures
    BY DEF IInv, Receipts
  <2>2. Issued(r) \/ CanWrite(w, r)'
    BY <1>8 DEF Issued, CanWrite
  <2>3. CanWrite(w, r)' => r.capture = c /\ Matches(row[c].plan, r)
    BY <1>6, <1>8 DEF CanWrite, Matches
  <2>4. Matches(row[r.capture].plan, r)
    BY <2>1, <2>2, <2>3 DEF ReceiptLed
  <2>5. row'[r.capture].plan = row[r.capture].plan
    BY <1>7, <1>8, <2>1
  <2>6. ASSUME NEW v \in Workers, Holds(v, r.capture)' PROVE Matches(job'[v].plan, r)
    <3>1. CASE v = w
      BY <1>6, <1>8, <1>10, <2>1, <2>4, <2>6, <3>1
    <3>2. CASE v # w
      <4>1. r.capture # c /\ Holds(v, r.capture) /\ job'[v] = job[v]
        BY <1>10, <2>1, <2>6, <3>2
      <4> QED BY <2>1, <2>2, <2>3, <4>1 DEF ReceiptLed
    <3> QED BY <3>1, <3>2
  <2> QED BY <2>4, <2>5, <2>6
<1> QED BY <1>8, <1>15, <1>17, <1>18 DEF IInv

\* A claim ends, with a job or with none.
LEMMA TakeKeeps == ASSUME IInv, NEW w \in Workers, Take(w) PROVE IInv'
<1>1. /\ job[w].pc = "looked" /\ graph' = graph /\ faults' = faults
      /\ faults' \in 0 .. MaxFaults
  BY DEF Take, IInv, Typed
<1>2. ASSUME NEW c \in Captures, Oldest(c), Claimed(w, c) PROVE IInv'
  BY <1>1, <1>2, ClaimKeeps
<1>3. CASE row' = row /\ Ended(w)
  BY <1>1, <1>3, EndedKeeps
<1> QED BY <1>2, <1>3 DEF Take, Ended

-----------------------------------------------------------------------------
(* Rows change by themselves. *)

\* A row changes, but neither its plan nor its lease token.
LEMMA RowMoved ==
  ASSUME IInv, UNCHANGED <<job, graph>>, faults' \in 0 .. MaxFaults,
         NEW c \in Captures, NEW x \in Row, row' = [row EXCEPT ![c] = x],
         x.plan = row[c].plan, x.attempts = row[c].attempts,
         \/ x.state = row[c].state
         \/ /\ row[c].state = "absent" /\ x.state = "pending"
            /\ \A d \in Captures : d < c => row[d].state # "absent"
  PROVE  IInv'
<1>1. /\ job' = job /\ graph' = graph /\ row \in [Captures -> Row]
      /\ row'[c] = x /\ \A d \in Captures : d # c => row'[d] = row[d]
      /\ Typed'
  BY DEF IInv, Typed
<1>2. \A d \in Captures :
        /\ row'[d].plan = row[d].plan /\ row'[d].attempts = row[d].attempts
        /\ row'[d].state \in Final <=> row[d].state \in Final
        /\ row'[d].state = "complete" <=> row[d].state = "complete"
        /\ row[d].state # "absent" => row'[d].state # "absent"
  BY <1>1 DEF Final
<1>3. \A d \in Captures, w \in Workers : Holds(w, d)' <=> Holds(w, d)
  BY <1>1, <1>2 DEF Holds, Fenced
<1>4. \A d \in Captures : /\ HoldersRest(d)' <=> HoldersRest(d)
                          /\ Behind(d)' <=> Behind(d)
  BY <1>1, <1>2, <1>3 DEF HoldersRest, Behind, Settled, Resting
<1>5. ASSUME NEW d \in Captures PROVE RowLed(d)'
  <2>1. RowLed(d)
    BY DEF IInv
  <2>2. row'[d].state # "absent" =>
          \A e \in Captures : e < d => row'[e].state # "absent"
    BY <1>1, <1>2, <2>1 DEF RowLed
  <2>3. row'[d].state = "absent" => row[d].state = "absent"
    BY <1>2
  <2> QED BY <1>1, <1>2, <1>3, <1>4, <2>1, <2>2, <2>3 DEF RowLed
<1>6. ASSUME NEW w \in Workers PROVE JobLed(w)'
  <2>1. JobLed(w)
    BY DEF IInv
  <2>2. job[w].capture # 0 => job[w].capture \in Captures
    BY <2>1 DEF JobLed, JobShape
  <2> QED BY <1>1, <1>2, <1>4, <2>1, <2>2 DEF JobLed
<1>7. ASSUME NEW r \in Receipts PROVE ReceiptLed(r)'
  <2>1. ReceiptLed(r) /\ r.capture \in Captures
    BY DEF IInv, Receipts
  <2>2. Issued(r)' <=> Issued(r)
    BY <1>1 DEF Issued, CanWrite
  <2> QED BY <1>1, <1>2, <1>3, <2>1, <2>2 DEF ReceiptLed
<1> QED BY <1>1, <1>5, <1>6, <1>7 DEF IInv

\* Something is captured, a lease runs out or a retry becomes due.
LEMMA RowsKeep ==
  ASSUME IInv, NEW c \in Captures,
         Capture(c) \/ Overrun(c) \/ LeaseRunsOut(c) \/ BecomeDue(c)
  PROVE  IInv'
<1>1. /\ row \in [Captures -> Row] /\ row[c] \in Row /\ UNCHANGED <<job, graph>>
      /\ faults' \in 0 .. MaxFaults
  BY DEF IInv, Typed, Capture, Overrun, LeaseRunsOut, BecomeDue, Fault
<1>2. CASE Capture(c)
  <2> DEFINE x == [row[c] EXCEPT !.state = "pending"]
  <2>1. row' = [row EXCEPT ![c] = x]
    BY <1>1, <1>2 DEF Capture
  <2>2. /\ x \in Row /\ x.state = "pending" /\ x.plan = row[c].plan
        /\ x.attempts = row[c].attempts
    BY <1>1 DEF Row
  <2> HIDE DEF x
  <2>3. row[c].state = "absent" /\ \A d \in Captures : d < c => row[d].state # "absent"
    BY <1>2 DEF Capture
  <2> QED BY <1>1, <2>1, <2>2, <2>3, RowMoved
<1>3. CASE Overrun(c) \/ LeaseRunsOut(c)
  <2> DEFINE x == [row[c] EXCEPT !.lease = FALSE]
  <2>1. row' = [row EXCEPT ![c] = x]
    BY <1>1, <1>3 DEF Overrun, LeaseRunsOut
  <2>2. /\ x \in Row /\ x.state = row[c].state /\ x.plan = row[c].plan
        /\ x.attempts = row[c].attempts
    BY <1>1 DEF Row
  <2> HIDE DEF x
  <2> QED BY <1>1, <2>1, <2>2, RowMoved
<1>4. CASE BecomeDue(c)
  <2> DEFINE x == [row[c] EXCEPT !.due = TRUE]
  <2>1. row' = [row EXCEPT ![c] = x]
    BY <1>1, <1>4 DEF BecomeDue
  <2>2. /\ x \in Row /\ x.state = row[c].state /\ x.plan = row[c].plan
        /\ x.attempts = row[c].attempts
    BY <1>1 DEF Row
  <2> HIDE DEF x
  <2> QED BY <1>1, <2>1, <2>2, RowMoved
<1> QED BY <1>2, <1>3, <1>4

-----------------------------------------------------------------------------
(* The invariant holds always. *)

\* Nothing is captured yet.
LEMMA InitLed == Init => IInv
<1> SUFFICES ASSUME Init PROVE IInv
  OBVIOUS
<1> DEFINE x == [state |-> "absent", attempts |-> 0, lease |-> FALSE, due |-> TRUE,
                 plan |-> NoPlan]
<1>1. /\ row = [c \in Captures |-> x] /\ job = [w \in Workers |-> NoJob]
      /\ graph = {} /\ faults = 0
  BY DEF Init
<1>2. x \in Row /\ x.state = "absent" /\ x.attempts = 0 /\ x.plan = NoPlan
  BY NoPlanLed DEF Row, PlanLed
<1> HIDE DEF x
<1>3. /\ \A w \in Workers : job[w] = NoJob
      /\ \A c \in Captures : row[c] = x
      /\ \A w \in Workers, c \in Captures : ~Holds(w, c)
      /\ \A r \in Receipts : ~Issued(r)
  BY <1>1, Idle, CaptureNumbers DEF Holds, Issued, CanWrite
<1>4. Typed
  BY <1>1, <1>2, Idle DEF Typed
<1>5. \A c \in Captures : RowLed(c)
  BY <1>2, <1>3, NoPlanLed DEF RowLed, Final
<1>6. \A w \in Workers : JobLed(w)
  BY <1>3, Idle DEF JobLed
<1>7. \A r \in Receipts : ReceiptLed(r)
  BY <1>3 DEF ReceiptLed
<1> QED BY <1>4, <1>5, <1>6, <1>7 DEF IInv

\* Whatever a worker, the caller or the clock does.
LEMMA StepLed == IInv /\ [Next]_vars => IInv'
<1> SUFFICES ASSUME IInv, [Next]_vars PROVE IInv'
  OBVIOUS
<1>1. ASSUME NEW w \in Workers, Works(w) PROVE IInv'
  BY <1>1, LookKeeps, TakeKeeps, ExtractKeeps, PrepareKeeps, StoreKeeps, FinishKeeps,
     BeginKeeps, WriteKeeps DEF Works
<1>2. ASSUME NEW c \in Captures, Capture(c) \/ Overrun(c) \/ TimePasses(c)
      PROVE  IInv'
  BY <1>2, RowsKeep DEF TimePasses
<1>3. ASSUME NEW w \in Workers, Stall(w) \/ LoseCheckpoint(w) \/ Crash(w) PROVE IInv'
  BY <1>3, StallKeeps, LoseKeeps, CrashKeeps
<1>4. CASE UNCHANGED vars
  <2>1. row' = row /\ job' = job /\ graph' = graph /\ faults' = faults
    BY <1>4 DEF vars
  <2>2. Typed'
    BY <2>1 DEF IInv, Typed
  <2>3. /\ \A w \in Workers, c \in Captures : Holds(w, c)' <=> Holds(w, c)
        /\ \A c \in Captures : Busy(c)' <=> Busy(c)
        /\ \A r \in Receipts : Issued(r)' <=> Issued(r)
    BY <2>1 DEF Holds, Fenced, Busy, Issued, CanWrite
  <2>4. \A c \in Captures : /\ HoldersRest(c)' <=> HoldersRest(c)
                            /\ Behind(c)' <=> Behind(c)
    BY <2>1, <2>3 DEF HoldersRest, Behind, Settled
  <2>5. \A c \in Captures : RowLed(c)'
    BY <2>1, <2>3, <2>4 DEF IInv, RowLed
  <2>6. \A w \in Workers : JobLed(w)'
    BY <2>1, <2>3, <2>4 DEF IInv, JobLed
  <2>7. \A r \in Receipts : ReceiptLed(r)'
    <3> SUFFICES ASSUME NEW r \in Receipts PROVE ReceiptLed(r)'
      OBVIOUS
    <3>1. ReceiptLed(r) /\ r.capture \in Captures
      BY DEF IInv, Receipts
    <3> QED BY <2>1, <2>3, <3>1 DEF ReceiptLed
  <2> QED BY <2>2, <2>5, <2>6, <2>7 DEF IInv
<1> QED BY <1>1, <1>2, <1>3, <1>4 DEF Next, Goes

\* The invariant of the queue, its workers and the graph.
LEMMA Inductive == Spec => []IInv
BY InitLed, StepLed, PTL DEF Spec

-----------------------------------------------------------------------------
(* What follows. *)

\* Only a claim gives a lease token, and only a checkpoint writes a plan.
LEMMA RowsAlone ==
  ASSUME IInv, NEW d \in Captures, Capture(d) \/ Overrun(d) \/ TimePasses(d)
  PROVE  \A c \in Captures : /\ row'[c].plan = row[c].plan
                             /\ row'[c].attempts = row[c].attempts
<1>1. row \in [Captures -> Row] /\ row[d] \in Row
  BY DEF IInv, Typed
<1>2. ASSUME NEW x \in Row, row' = [row EXCEPT ![d] = x],
             x.plan = row[d].plan, x.attempts = row[d].attempts
      PROVE  \A c \in Captures : /\ row'[c].plan = row[c].plan
                                 /\ row'[c].attempts = row[c].attempts
  BY <1>1, <1>2
<1>3. CASE Capture(d)
  <2>1. row' = [row EXCEPT ![d] = [row[d] EXCEPT !.state = "pending"]]
    BY <1>1, <1>3 DEF Capture
  <2> QED BY <1>1, <1>2, <2>1 DEF Row
<1>4. CASE Overrun(d) \/ LeaseRunsOut(d)
  <2>1. row' = [row EXCEPT ![d] = [row[d] EXCEPT !.lease = FALSE]]
    BY <1>1, <1>4 DEF Overrun, LeaseRunsOut
  <2> QED BY <1>1, <1>2, <2>1 DEF Row
<1>5. CASE BecomeDue(d)
  <2>1. row' = [row EXCEPT ![d] = [row[d] EXCEPT !.due = TRUE]]
    BY <1>1, <1>5 DEF BecomeDue
  <2> QED BY <1>1, <1>2, <2>1 DEF Row
<1> QED BY <1>3, <1>4, <1>5 DEF TimePasses

\* Rows and jobs have the states the code gives them, and a unit that is prepared
\* has its payload (capture_worker.py keeps the arguments before it stores them).
THEOREM QueueTyped == Spec => []TypeOK
<1>1. IInv => TypeOK
  <2> SUFFICES ASSUME IInv PROVE TypeOK
    OBVIOUS
  <2>1. ASSUME NEW c \in Captures, NEW k \in DOMAIN row[c].plan,
               row[c].plan[k].state = "prepared"
        PROVE  row[c].plan[k].payload # NoPayload
    <3>1. UnitLed(row[c].plan[k])
      BY DEF IInv, RowLed, PlanLed
    <3> QED BY <2>1, <3>1 DEF UnitLed, NoPayload
  <2> QED BY <2>1 DEF TypeOK, IInv, Typed
<1> QED BY Inductive, <1>1, PTL

\* However often workers crash, lose their lease or do not hear the graph's answer, a
\* fact enters the graph under one payload: what may still be written is what the row
\* says, and the row's plan names one repair and one payload for it.
THEOREM FactsOnce == Spec => []WrittenOnce
<1>1. IInv => WrittenOnce
  <2> SUFFICES ASSUME IInv, NEW r \in graph, NEW s \in graph,
                      r.capture = s.capture, r.fact = s.fact
               PROVE  r = s
    BY DEF WrittenOnce
  <2>1. r \in Receipts /\ s \in Receipts /\ Issued(r) /\ Issued(s)
    BY DEF IInv, Typed, Issued
  <2>2. Matches(row[r.capture].plan, r) /\ Matches(row[r.capture].plan, s)
    BY <2>1 DEF IInv, ReceiptLed
  <2>3. r.key = s.key
    BY <2>2 DEF Matches
  <2>4. [by |-> r.by, ok |-> TRUE] = [by |-> s.by, ok |-> TRUE]
    BY <2>2 DEF Matches
  <2>5. r.by = s.by
    BY <2>4
  <2> QED BY <2>1, <2>3, <2>5 DEF Receipts
<1> QED BY Inductive, <1>1, PTL

\* What the row calls saved is in the graph, and a capture that is complete has
\* nothing else but what was ignored or known already.
THEOREM SavedIsWritten == Spec => []SavedIsInGraph
<1>1. IInv => SavedIsInGraph
  <2> SUFFICES ASSUME IInv, NEW c \in Captures
               PROVE  /\ \A k \in DOMAIN row[c].plan :
                           LET u == row[c].plan[k]
                           IN  u.state = "saved" /\ u.payload # NoPayload =>
                                 [capture |-> c, fact |-> k, key |-> u.repairs,
                                  by |-> u.payload.by] \in graph
                      /\ row[c].state = "complete" =>
                           /\ row[c].plan # NoPlan
                           /\ \A k \in DOMAIN row[c].plan :
                                row[c].plan[k].state \in {"saved", "ignored"}
    BY DEF SavedIsInGraph
  <2>1. RowLed(c)
    BY DEF IInv
  <2> QED BY <2>1 DEF RowLed, HasReceipts, ReceiptOf
<1> QED BY Inductive, <1>1, PTL

\* However leases run out, and although a claim may take over a job that is still being
\* done, the token fences: of all the workers that have a job of a capture in memory,
\* at most one can still write its row, and no other gets its token (claim, checkpoint).
THEOREM OneHolder ==
  Spec => [](\A c \in Captures, v, w \in Workers :
               Holds(v, c) /\ Holds(w, c) => v = w)
<1>1. IInv => \A c \in Captures, v, w \in Workers :
                Holds(v, c) /\ Holds(w, c) => v = w
  <2> SUFFICES ASSUME IInv, NEW c \in Captures, NEW v \in Workers, NEW w \in Workers,
                      Holds(v, c), Holds(w, c)
               PROVE  v = w
    OBVIOUS
  <2>1. JobLed(w) /\ c # 0
    BY CaptureNumbers DEF IInv
  <2> QED BY <2>1 DEF JobLed, Holds, Fenced
<1> QED BY Inductive, <1>1, PTL

\* A correction never enters the graph before what it corrects: when a fact is
\* written, every older capture has nothing left to resolve, and not even a worker
\* that lost its lease can write one of its facts late.
THEOREM FactsInOrder == Spec => InOrder
<1>1. IInv /\ [Next]_vars =>
        [\A r \in graph' \ graph : \A d \in Captures :
           d < r.capture => \/ row[d].state \in Final
                            \/ row[d].plan # NoPlan /\ ~HasOpen(row[d].plan)]_vars
  <2> SUFFICES ASSUME IInv, [Next]_vars, NEW r \in graph' \ graph,
                      NEW d \in Captures, d < r.capture
               PROVE  Settled(d)
    BY DEF vars, Settled
  <2>1. PICK w \in Workers : Store(w)
    BY DEF Next, Goes, Works, TimePasses, vars, Capture, Overrun, LeaseRunsOut,
       BecomeDue, Stall, LoseCheckpoint, Crash, Look, Take, Extract, Prepare, Finish,
       BeginCheckpoint, WriteCheckpoint
  <2>2. r = Receipt(w) /\ AtUnit(w, "prepared")
    BY <2>1 DEF Store
  <2>3. r.capture = job[w].capture /\ job[w].capture # 0
    BY <2>2, UnitFacts, JobFacts DEF Receipt
  <2>4. JobLed(w)
    BY DEF IInv
  <2> QED BY <2>3, <2>4 DEF JobLed, Behind
<1> QED BY Inductive, <1>1, PTL DEF Spec, InOrder

\* A unit the caller was told is saved stays saved: the one worker whose checkpoints
\* count has a plan that carries everything the row has.
THEOREM SavedKept == Spec => SavedStays
<1>1. IInv /\ [Next]_vars =>
        [\A c \in Captures : \A k \in DOMAIN row[c].plan :
           row[c].plan[k].state = "saved" =>
             /\ k \in DOMAIN row'[c].plan
             /\ row'[c].plan[k].state = "saved"]_vars
  <2> SUFFICES ASSUME IInv, [Next]_vars, NEW c \in Captures
               PROVE  Carries(row[c].plan, row'[c].plan)
    BY DEF vars, Carries
  <2>1. row \in [Captures -> Row] /\ row[c] \in Row
    BY DEF IInv, Typed
  <2>2. \/ row'[c].plan = row[c].plan
        \/ \E w \in Workers : Fenced(w) /\ Written(w) /\ InCheckpoint(w)
    <3>1. ASSUME NEW w \in Workers, Works(w) PROVE <2>2
      <4>1. ASSUME NEW d \in Captures, Claimed(w, d) PROVE row'[c].plan = row[c].plan
        BY <2>1, <4>1 DEF Claimed
      <4> QED BY <3>1, <4>1 DEF Works, Look, Take, Extract, Prepare, Store, Finish,
                 BeginCheckpoint, WriteCheckpoint
    <3>2. ASSUME NEW d \in Captures, Capture(d) \/ Overrun(d) \/ TimePasses(d)
          PROVE  row'[c].plan = row[c].plan
      BY <3>2, RowsAlone
    <3>3. ASSUME NEW w \in Workers, Stall(w) \/ LoseCheckpoint(w) \/ Crash(w)
          PROVE  <2>2
      BY <3>3 DEF Stall, LoseCheckpoint, Crash
    <3> QED BY <3>1, <3>2, <3>3 DEF Next, Goes, vars
  <2>3. ASSUME NEW w \in Workers, Fenced(w), Written(w), InCheckpoint(w)
        PROVE  Carries(row[c].plan, row'[c].plan)
    <3>1. job[w].capture \in Captures
      BY <2>3, JobFacts DEF InCheckpoint
    <3>2. CASE job[w].capture = c
      <4>1. row'[c].plan = job[w].plan /\ Holds(w, c)
        BY <2>1, <2>3, <3>2 DEF Written, Holds
      <4> QED BY <4>1 DEF IInv, RowLed
    <3>3. CASE job[w].capture # c
      BY <2>1, <2>3, <3>1, <3>3 DEF Written, Carries
    <3> QED BY <3>2, <3>3
  <2> QED BY <2>2, <2>3 DEF Carries
<1> QED BY Inductive, <1>1, PTL DEF Spec, SavedStays

-----------------------------------------------------------------------------
(* Nobody waits for everybody.  What Goes asks for, action by action: the  *)
(* operator of the prover for what is possible is missing.                 *)

CanLook(w) == /\ job[w].pc = "idle" /\ \A v \in Workers : job[v].pc # "looked"
              /\ \A c \in Captures : ~Busy(c)
              /\ \E c \in Captures : Oldest(c) /\ row[c].due

CanWork(w) == \/ CanLook(w)
              \/ job[w].pc \in {"looked", "extract", "saving"} \/ InCheckpoint(w)
              \/ AtUnit(w, "pending") \/ AtUnit(w, "prepared")
              \/ job[w].pc = "unit" /\ OpenFrom(job[w].plan, job[w].at) = {}

CanPass(c) ==
    \/ Waiting(c) /\ ~row[c].due /\ \A w \in Workers : job[w].pc # "looked"
    \/ row[c].state = "processing" /\ row[c].lease /\ row[c].due
         /\ \A w \in Workers : ~Holds(w, c)

\* A worker that has a job is never stuck with it.
LEMMA BusyWorks ==
  ASSUME IInv, NEW w \in Workers, job[w].pc # "idle"
  PROVE  CanWork(w)
<1>1. job[w] \in Job /\ JobShape(job[w])
  BY DEF IInv, Typed, JobLed
<1>2. CASE job[w].pc = "unit" /\ OpenFrom(job[w].plan, job[w].at) # {}
  <2>1. job[w].plan \in Seq(Unit) /\ job[w].at \in Nat \ {0}
    BY <1>1, <1>2 DEF Job, JobShape
  <2>2. Open(job[w].plan[Current(w)])
    BY <1>2, <2>1, CurrentIsOpen
  <2> QED BY <1>2, <2>2 DEF CanWork, AtUnit, Open
<1>3. CASE ~(job[w].pc = "unit" /\ OpenFrom(job[w].plan, job[w].at) # {})
  BY <1>1, <1>3 DEF CanWork, InCheckpoint, Job
<1> QED BY <1>2, <1>3

\* When all workers are idle the clock frees a job, or the oldest one can be looked for.
LEMMA IdleGoesOn ==
  ASSUME IInv, NEW w \in Workers, \A v \in Workers : job[v].pc = "idle",
         NEW c \in Captures, Waiting(c)
  PROVE  CanWork(w) \/ \E d \in Captures : CanPass(d)
<1>1. \A v \in Workers : job[v].capture = 0 /\ job[v].pc # "looked"
  BY DEF IInv, JobLed, JobShape
<1>2. \A v \in Workers, d \in Captures : ~Holds(v, d)
  BY <1>1, CaptureNumbers DEF Holds
<1>3. CASE \E d \in Captures : Busy(d)
  BY <1>1, <1>2, <1>3 DEF Busy, CanPass, Waiting
<1>4. CASE \A d \in Captures : ~Busy(d)
  <2> DEFINE waiting == {d \in Captures : Waiting(d)}
  <2>1. waiting \in SUBSET Nat /\ waiting # {}
    BY CaptureNumbers
  <2>2. \E d \in waiting : \A e \in waiting : d <= e
    BY <2>1, LeastOf
  <2>3. PICK d \in Captures : Waiting(d) /\ \A e \in Captures : Waiting(e) => d <= e
    BY <2>2
  <2>4. Oldest(d)
    BY <2>3, CaptureNumbers DEF Oldest
  <2>5. CASE row[d].due
    BY <1>1, <1>4, <2>4, <2>5 DEF CanWork, CanLook
  <2>6. CASE ~row[d].due
    BY <1>1, <2>3, <2>6 DEF CanPass
  <2> QED BY <2>5, <2>6
<1> QED BY <1>3, <1>4

\* Whatever workers were lost, and however many captures wait for each other: as long
\* as there is a worker, a capture that is not done can go on, at once or when a lease
\* or a back-off has passed (CaptureWorker.run, CaptureQueue.claim).
THEOREM NobodyWaitsForEver ==
  ASSUME Workers # {}
  PROVE  Spec => [](\/ \E w \in Workers : CanWork(w)
                    \/ \E c \in Captures : CanPass(c)
                    \/ \A c \in Captures : row[c].state \in Final \cup {"absent"})
<1>1. IInv => \/ \E w \in Workers : CanWork(w)
              \/ \E c \in Captures : CanPass(c)
              \/ \A c \in Captures : row[c].state \in Final \cup {"absent"}
  <2> SUFFICES ASSUME IInv, NEW c \in Captures, row[c].state \notin Final \cup {"absent"}
               PROVE  \/ \E w \in Workers : CanWork(w)
                      \/ \E d \in Captures : CanPass(d)
    OBVIOUS
  <2>1. Waiting(c)
    BY DEF IInv, Typed, Row, Waiting
  <2>2. CASE \E w \in Workers : job[w].pc # "idle"
    BY <2>2, BusyWorks
  <2>3. CASE \A w \in Workers : job[w].pc = "idle"
    BY <2>1, <2>3, IdleGoesOn
  <2> QED BY <2>2, <2>3
<1> QED BY Inductive, <1>1, PTL
=============================================================================
