------------------------ MODULE LiveCallMergeProofs -------------------------
(***************************************************************************)
(* What the live-call registry and the merges promise, for any number of   *)
(* calls and merge requests and any choice of callbacks.                   *)
(*                                                                         *)
(* Three facts carry the rest: a request that was ever approved names the  *)
(* call the approval came through; whoever puts a leg in a room executes   *)
(* an approved request; and a call that no merge was started for is driven *)
(* by its own callbacks alone, so its record follows from what was heard.  *)
(***************************************************************************)
EXTENDS LiveCallMerge, TLAPS

USE CallsAssumption, RoomAssumption, NoneAssumption

-----------------------------------------------------------------------------
(* The inductive invariant of the merges. *)

\* What a request looks like at each status.
RequestLed(m) ==
    /\ merge[m].status = "absent" => merge[m].from = None /\ merge[m].to = None
    /\ merge[m].status # "absent" => merge[m].from \in Calls /\ merge[m].to \in Calls
    /\ merge[m].status \in {"absent", "offered", "approved"} => starts[m] = 0
    /\ merge[m].status \in {"executing", "joined", "failed"} =>
         starts[m] = 1 /\ merge[m].answer = "approved"
    /\ merge[m].status = "approved" => merge[m].answer = "approved"
    /\ merge[m].status \in {"absent", "offered"} => merge[m].answer = None
    /\ merge[m].answer = "approved" => merge[m].by = merge[m].from
    /\ bridge[m] \notin {"idle", "over"} <=> merge[m].status = "executing"

\* A leg is in the room of a merge that was executed for it.
RoomLed(m, c) ==
    leg[c] = m => c \in Between(m) /\ starts[m] = 1 /\ merge[m].answer = "approved"

MergingLed(c) ==
    session[c].status = "merging" =>
        \E m \in Merges : c \in Between(m) /\ merge[m].status = "executing"

\* A session that somebody joined has heard of it.
JoinedLed(c) ==
    presence[c].joined # 0 =>
        /\ session[c].status # "absent"
        /\ c \in Outgoing => session[c].status \in Over \/ session[c].last >= 2

Untouched(c) == \A m \in Merges : c \in Between(m) => starts[m] = 0

\* What was heard of an originated call that no merge was started for, and what
\* is recorded of it.
OutgoingLed(c) ==
    /\ leg[c] \notin Rooms
    /\ "answered" \in heard[c] => leg[c] \in {"up", "gone"}
    /\ "completed" \in heard[c] =>
         leg[c] = "gone" /\ session[c].status = "ended"
    /\ "no-answer" \in heard[c] =>
         leg[c] = "missed" /\ session[c].status = "failed"
    /\ session[c].status \in Over =>
         "completed" \in heard[c] \/ "no-answer" \in heard[c]
    /\ session[c].status = "active" => "answered" \in heard[c] /\ session[c].last = 2
    /\ session[c].status = "ringing" => session[c].last < 2
    /\ session[c].status # "merging"
    /\ presence[c].joined # 0 <=>
         "completed" \in heard[c] \/ "answered" \in heard[c]
    /\ "answered" \in heard[c] => session[c].status # "ringing"

IncomingLed(c) ==
    /\ leg[c] \in {"up", "gone"}
    /\ fetched[c] = "ended" => leg[c] = "gone"
    /\ session[c].status \in {"absent", "active", "ended"}
    /\ session[c].status = "ended" => leg[c] = "gone"
    /\ "completed" \in heard[c] => session[c].status = "ended"
    /\ session[c].status # "ended" => session[c].last = -1
    /\ presence[c].joined # 0 <=> heard[c] # {}

CallLed(c) == /\ heard[c] \subseteq KindsOf(c)
              /\ heard[c] = {} <=> session[c].status = "absent"
              /\ heard[c] = {} => session[c].last = -1
              /\ JoinedLed(c)
              /\ MergingLed(c)
              /\ \A m \in Merges : RoomLed(m, c)
              /\ Untouched(c) =>
                   IF c \in Outgoing THEN OutgoingLed(c) ELSE IncomingLed(c)

Legs == {"ringing", "up", "missed", "gone"} \cup Rooms
Presences == [joined : Times, left : Times]
Fetches == {"none", "active", "ended"}

CallsTyped == /\ leg \in [Calls -> Legs]
              /\ session \in [Calls -> SessionRow]
              /\ heard \in [Calls -> SUBSET (Progress \cup StreamKinds)]
              /\ presence \in [Calls -> Presences]
              /\ fetched \in [Calls -> Fetches]

MergesTyped == /\ merge \in [Merges -> MergeRow]
               /\ bridge \in [Merges -> Phases]
               /\ starts \in [Merges -> 0 .. 1]

IInv == /\ CallsTyped /\ MergesTyped
        /\ \A m \in Merges : RequestLed(m)
        /\ \A c \in Calls : CallLed(c)

-----------------------------------------------------------------------------
(* The callbacks. *)

\* The kinds of an originated call, and of an incoming one.
LEMMA KindsByDirection ==
  ASSUME NEW c \in Calls, NEW kind \in KindsOf(c)
  PROVE  /\ c \in Outgoing =>
              /\ kind \in {"initiated", "ringing", "answered", "no-answer",
                          "completed"}
              /\ Number(c, kind) = CASE kind = "initiated" -> 0
                                     [] kind = "ringing" -> 1
                                     [] kind = "completed" -> 3
                                     [] OTHER -> 2
              /\ StatusOf(c, kind) = CASE kind = "answered" -> "active"
                                       [] kind = "completed" -> "ended"
                                       [] kind = "no-answer" -> "failed"
                                       [] OTHER -> "ringing"
         /\ c \notin Outgoing =>
              /\ kind \in {"stream-started", "stream-error", "stream-stopped",
                          "completed"}
              /\ Number(c, kind) = IF kind = "completed" THEN 0 ELSE -1
              /\ StatusOf(c, kind) = CASE kind = "stream-started" -> "active"
                                       [] kind = "stream-error" -> fetched[c]
                                       [] OTHER -> "ended"
<1>1. CASE c \in Outgoing
  <2>1. kind \in {"initiated", "ringing", "answered", "no-answer", "completed"}
    BY <1>1 DEF KindsOf, Progress
  <2> QED BY <1>1, <2>1 DEF Number, StatusOf, StreamKinds
<1>2. CASE c \notin Outgoing
  <2>1. kind \in {"stream-started", "stream-error", "stream-stopped", "completed"}
    BY <1>2 DEF KindsOf, StreamKinds
  <2> QED BY <1>2, <2>1 DEF Number, StatusOf, StreamKinds
<1> QED BY <1>1, <1>2

\* What each kind of callback reports.
LEMMA KindFacts ==
  ASSUME NEW c \in Calls, NEW kind \in KindsOf(c), fetched[c] \in Fetches,
         kind = "stream-error" => fetched[c] # "none"
  PROVE  /\ kind \in Progress \cup StreamKinds
         /\ OccurredAt(kind) \in Times \ {0}
         /\ Number(c, kind) \in -1 .. 3
         /\ StatusOf(c, kind) \in {"ringing", "active", "ended", "failed"}
<1>1. /\ kind \in Progress \cup StreamKinds
      /\ kind \in {"initiated", "ringing", "answered", "no-answer", "completed",
                  "stream-started", "stream-error", "stream-stopped"}
  BY DEF KindsOf, Progress, StreamKinds
<1>2. OccurredAt(kind) \in Times \ {0}
  BY <1>1 DEF OccurredAt, Times
<1>3. Number(c, kind) \in -1 .. 3
  BY <1>1 DEF Number
<1>4. StatusOf(c, kind) \in {"ringing", "active", "ended", "failed"}
  BY <1>1 DEF StatusOf, Fetches
<1> QED BY <1>1, <1>2, <1>3, <1>4

\* The effect of a callback on its call; no other call is touched.
LEMMA Recorded ==
  ASSUME CallsTyped, NEW c \in Calls, NEW kind \in KindsOf(c), Record(c, kind)
  PROVE  /\ CallsTyped'
         /\ kind \notin heard[c] /\ Happened(c, kind)
         /\ kind = "stream-error" => fetched[c] # "none"
         /\ heard'[c] = heard[c] \cup {kind}
         /\ presence'[c].joined # 0 <=>
              presence[c].joined # 0 \/ Came(StatusOf(c, kind))
         /\ Applies(c, kind) =>
              /\ session'[c].status = StatusOf(c, kind)
              /\ session'[c].last = Larger(session[c].last, Number(c, kind))
         /\ ~Applies(c, kind) => session'[c] = session[c]
         /\ leg' = leg /\ fetched' = fetched
         /\ \A d \in Calls : d # c => /\ heard'[d] = heard[d]
                                      /\ session'[d] = session[d]
                                      /\ presence'[d] = presence[d]
<1> DEFINE status == StatusOf(c, kind)
           at == OccurredAt(kind)
           number == Number(c, kind)
           p == PresenceAfter(c, status, at)
           last == Larger(session[c].last, number)
<1>1. /\ fetched[c] \in Fetches /\ presence[c] \in Presences
      /\ session[c] \in SessionRow
      /\ kind = "stream-error" => fetched[c] # "none"
  BY DEF CallsTyped, Record
<1>2. /\ kind \in Progress \cup StreamKinds /\ at \in Times \ {0}
      /\ number \in -1 .. 3 /\ status \in {"ringing", "active", "ended", "failed"}
  BY <1>1, KindFacts
<1>3. /\ presence' = [presence EXCEPT ![c] = p]
      /\ heard' = [heard EXCEPT ![c] = @ \cup {kind}]
      /\ kind \notin heard[c] /\ Happened(c, kind)
      /\ leg' = leg /\ fetched' = fetched
  BY DEF Record
<1>4. /\ Applies(c, kind) => session' = [session EXCEPT ![c].status = status,
                                                       ![c].last = last]
      /\ ~Applies(c, kind) => session' = session
  <2>1. Applies(c, kind) => session' = [session EXCEPT ![c].status = status,
                                           ![c].last = Larger(@, number)]
    BY DEF Record
  <2>2. ~Applies(c, kind) => session' = session
    BY DEF Record
  <2> HIDE DEF status, number
  <2> QED BY <1>1, <2>1, <2>2 DEF SessionRow, CallsTyped
<1> HIDE DEF status, at, number
<1>5. p \in Presences /\ (p.joined # 0 <=> presence[c].joined # 0 \/ Came(status))
  <2>1. /\ p.joined = IF Came(status) /\ presence[c].joined = 0 THEN at
                      ELSE presence[c].joined
        /\ p.joined \in Times /\ p \in Presences
    BY <1>1, <1>2 DEF PresenceAfter, Presences
  <2> QED BY <1>2, <2>1
<1>6. last \in -1 .. 3
  BY <1>1, <1>2 DEF Larger, SessionRow
<1> HIDE DEF p, last
<1>7. presence' \in [Calls -> Presences]
  BY <1>3, <1>5 DEF CallsTyped
<1>8. heard' \in [Calls -> SUBSET (Progress \cup StreamKinds)]
  BY <1>2, <1>3 DEF CallsTyped
<1>9. /\ session' \in [Calls -> SessionRow]
      /\ Applies(c, kind) => session'[c].status = status /\ session'[c].last = last
      /\ ~Applies(c, kind) => session'[c] = session[c]
  <2> DEFINE s == [session[c] EXCEPT !.status = status, !.last = last]
  <2>1. s \in SessionRow /\ s.status = status /\ s.last = last
    BY <1>1, <1>2, <1>6 DEF SessionRow, Over
  <2>2. CASE Applies(c, kind)
    <3>1. session' = [session EXCEPT ![c] = s]
      BY <1>4, <2>2 DEF CallsTyped
    <3> HIDE DEF s
    <3> QED BY <2>1, <2>2, <3>1 DEF CallsTyped
  <2>3. CASE ~Applies(c, kind)
    BY <1>4, <2>3 DEF CallsTyped
  <2> QED BY <2>2, <2>3
<1>10. CallsTyped'
  BY <1>3, <1>7, <1>8, <1>9 DEF CallsTyped
<1>11. \A d \in Calls : d # c => /\ heard'[d] = heard[d]
                                /\ session'[d] = session[d]
                                /\ presence'[d] = presence[d]
  BY <1>3, <1>4 DEF CallsTyped
<1>12. heard'[c] = heard[c] \cup {kind} /\ presence'[c] = p
  BY <1>3 DEF CallsTyped
<1> QED BY <1>1, <1>3, <1>5, <1>9, <1>10, <1>11, <1>12 DEF status, number, last

-----------------------------------------------------------------------------
(* What every step leaves standing. *)

\* A request keeps its calls, its approval and its start.
Forward(m) ==
    /\ merge[m].status # "absent" =>
         merge'[m].from = merge[m].from /\ merge'[m].to = merge[m].to
    /\ starts[m] = 1 => starts'[m] = 1
    /\ merge[m].answer = "approved" =>
         merge'[m].answer = "approved" /\ merge'[m].by = merge[m].by

SameCall(c) == /\ session'[c] = session[c] /\ heard'[c] = heard[c]
               /\ presence'[c] = presence[c]

\* A call that no merge was started for after a step had none before it, and is
\* in the room of a merge with its consent if it was before.
LEMMA Followed ==
  ASSUME MergesTyped, \A m \in Merges : RequestLed(m) /\ Forward(m),
         NEW c \in Calls
  PROVE  /\ Untouched(c)' => Untouched(c)
         /\ \A m \in Merges : RoomLed(m, c) /\ leg'[c] = leg[c] => RoomLed(m, c)'
<1>1. \A m \in Merges : starts[m] = 1 => Between(m)' = Between(m) /\ starts'[m] = 1
  BY DEF RequestLed, Forward, Between, MergesTyped, MergeRow, Final
<1>2. \A m \in Merges : starts[m] \in 0 .. 1
  BY DEF MergesTyped
<1>3. Untouched(c)' => Untouched(c)
  BY <1>1, <1>2 DEF Untouched
<1>4. \A m \in Merges : RoomLed(m, c) /\ leg'[c] = leg[c] => RoomLed(m, c)'
  BY <1>1 DEF RoomLed, Forward
<1> QED BY <1>3, <1>4

\* A call that a step does not touch stays well led, if its merge goes on.
LEMMA KeptCall ==
  ASSUME MergesTyped, \A m \in Merges : RequestLed(m) /\ Forward(m),
         NEW c \in Calls, CallLed(c), SameCall(c), leg'[c] = leg[c],
         fetched'[c] = fetched[c], MergingLed(c) => MergingLed(c)'
  PROVE  CallLed(c)'
<1>1. /\ Untouched(c)' => Untouched(c)
      /\ \A m \in Merges : RoomLed(m, c)'
  BY Followed DEF CallLed
<1>2. JoinedLed(c)' /\ MergingLed(c)'
  BY DEF CallLed, JoinedLed, SameCall
<1>3. Untouched(c)' => IF c \in Outgoing THEN OutgoingLed(c)' ELSE IncomingLed(c)'
  BY <1>1 DEF CallLed, OutgoingLed, IncomingLed, SameCall
<1> QED BY <1>1, <1>2, <1>3 DEF CallLed, SameCall

-----------------------------------------------------------------------------
(* The requests. *)

\* No callback touches a request.
LEMMA RequestsStay ==
  ASSUME MergesTyped, \A m \in Merges : RequestLed(m), UNCHANGED mergeVars
  PROVE  MergesTyped' /\ \A m \in Merges : RequestLed(m)' /\ Forward(m)
BY DEF mergeVars, MergesTyped, RequestLed, Forward

\* Whatever a step does to one request, it leaves the others as they are.
LEMMA OneRequest ==
  ASSUME MergesTyped, \A m \in Merges : RequestLed(m), NEW m \in Merges,
         merge' = [merge EXCEPT ![m] = merge'[m]], merge'[m] \in MergeRow,
         bridge' = [bridge EXCEPT ![m] = bridge'[m]], bridge'[m] \in Phases,
         starts' = [starts EXCEPT ![m] = starts'[m]], starts'[m] \in 0 .. 1,
         RequestLed(m)', Forward(m)
  PROVE  /\ MergesTyped' /\ \A k \in Merges : RequestLed(k)' /\ Forward(k)
         /\ \A k \in Merges : k # m => /\ Between(k)' = Between(k)
                                       /\ merge'[k] = merge[k]
<1>1. MergesTyped'
  BY DEF MergesTyped
<1>2. \A k \in Merges : k # m => /\ merge'[k] = merge[k] /\ starts'[k] = starts[k]
                                 /\ bridge'[k] = bridge[k]
  BY DEF MergesTyped
<1> QED BY <1>1, <1>2 DEF RequestLed, Forward, Between

\* What an action of the functions or of the bridge does to its request.
LEMMA RequestSteps ==
  ASSUME MergesTyped, \A k \in Merges : RequestLed(k), NEW m \in Merges,
         \/ \E c, d \in Calls : Propose(m, c, d)
         \/ \E c \in Calls, answer \in Answered : Answer(m, c, answer)
         \/ Claim(m)
         \/ Expire(m)
         \/ Execute(m) \/ Crash(m)
  PROVE  /\ MergesTyped' /\ \A k \in Merges : RequestLed(k)' /\ Forward(k)
         /\ \A k \in Merges : k # m => /\ Between(k)' = Between(k)
                                       /\ merge'[k] = merge[k]
<1>0. /\ merge[m] \in MergeRow /\ bridge[m] \in Phases /\ starts[m] \in 0 .. 1
      /\ bridge = [bridge EXCEPT ![m] = bridge[m]]
      /\ starts = [starts EXCEPT ![m] = starts[m]]
      /\ merge = [merge EXCEPT ![m] = merge[m]]
      /\ RequestLed(m)
  BY DEF MergesTyped
<1> DEFINE Changed == merge' = [merge EXCEPT ![m] = merge'[m]]
           Kept == bridge' = bridge /\ starts' = starts
           Well == merge'[m] \in MergeRow /\ RequestLed(m)' /\ Forward(m)
           Moved(p) == /\ bridge' = [bridge EXCEPT ![m] = p]
                       /\ merge' = merge /\ starts' = starts
<1>1. SUFFICES
        /\ merge' = [merge EXCEPT ![m] = merge'[m]] /\ merge'[m] \in MergeRow
        /\ bridge' = [bridge EXCEPT ![m] = bridge'[m]] /\ bridge'[m] \in Phases
        /\ starts' = [starts EXCEPT ![m] = starts'[m]] /\ starts'[m] \in 0 .. 1
        /\ RequestLed(m)' /\ Forward(m)
  BY OneRequest
<1>2. ASSUME NEW from \in Calls, NEW to \in Calls, Propose(m, from, to)
      PROVE  Changed /\ Kept /\ Well
  <2> DEFINE r == [merge[m] EXCEPT !.status = "offered", !.from = from, !.to = to]
  <2>1. /\ merge' = [merge EXCEPT ![m] = r] /\ merge[m].status = "absent"
        /\ bridge' = bridge /\ starts' = starts
    BY <1>0, <1>2 DEF Propose, MergesTyped
  <2>2. /\ r \in MergeRow /\ r.status = "offered" /\ r.from = from /\ r.to = to
        /\ r.answer = merge[m].answer /\ r.by = merge[m].by
    BY <1>0 DEF MergeRow
  <2> HIDE DEF r
  <2>3. merge'[m] = r
    BY <2>1 DEF MergesTyped
  <2>4. RequestLed(m)' /\ Forward(m)
    BY <1>0, <2>1, <2>2, <2>3 DEF RequestLed, Forward
  <2> QED BY Zenon, <2>1, <2>2, <2>3, <2>4
<1>3. ASSUME NEW c \in Calls, NEW answer \in Answered, Answer(m, c, answer)
      PROVE  Changed /\ Kept /\ Well
  <2>1. CASE merge[m].late
    <3> DEFINE r == [merge[m] EXCEPT !.status = "expired"]
    <3>1. /\ merge' = [merge EXCEPT ![m] = r] /\ merge[m].status = "offered"
          /\ bridge' = bridge /\ starts' = starts
      BY <1>0, <1>3, <2>1 DEF Answer, MergesTyped
    <3>2. /\ r \in MergeRow /\ r.status = "expired" /\ r.from = merge[m].from
          /\ r.to = merge[m].to /\ r.answer = merge[m].answer /\ r.by = merge[m].by
      BY <1>0 DEF MergeRow, Final
    <3> HIDE DEF r
    <3>3. merge'[m] = r
      BY <3>1 DEF MergesTyped
    <3>4. RequestLed(m)' /\ Forward(m)
      BY <1>0, <3>1, <3>2, <3>3 DEF RequestLed, Forward
    <3> QED BY Zenon, <3>1, <3>2, <3>3, <3>4
  <2>2. CASE ~merge[m].late
    <3> DEFINE r == [merge[m] EXCEPT !.status = answer, !.answer = answer, !.by = c]
    <3>1. /\ merge' = [merge EXCEPT ![m] = r] /\ merge[m].status = "offered"
          /\ bridge' = bridge /\ starts' = starts /\ c = merge[m].from
      BY <1>0, <1>3, <2>2 DEF Answer, MergesTyped
    <3>2. /\ r \in MergeRow /\ r.status = answer /\ r.from = merge[m].from
          /\ r.to = merge[m].to /\ r.answer = answer /\ r.by = c
      BY <1>0 DEF MergeRow, Final, Answered
    <3> HIDE DEF r
    <3>3. merge'[m] = r
      BY <3>1 DEF MergesTyped
    <3>4. RequestLed(m)' /\ Forward(m)
      BY <1>0, <3>1, <3>2, <3>3 DEF RequestLed, Forward, Answered
    <3> QED BY Zenon, <3>1, <3>2, <3>3, <3>4
  <2> QED BY <2>1, <2>2
<1>4. CASE Claim(m)
  <2>1. CASE merge[m].late
    <3> DEFINE r == [merge[m] EXCEPT !.status = "expired"]
    <3>1. /\ merge' = [merge EXCEPT ![m] = r] /\ merge[m].status = "approved"
          /\ bridge' = bridge /\ starts' = starts
      BY <1>0, <1>4, <2>1 DEF Claim, MergesTyped
    <3>2. /\ r \in MergeRow /\ r.status = "expired" /\ r.from = merge[m].from
          /\ r.to = merge[m].to /\ r.answer = merge[m].answer /\ r.by = merge[m].by
      BY <1>0 DEF MergeRow, Final
    <3> HIDE DEF r
    <3>3. merge'[m] = r
      BY <3>1 DEF MergesTyped
    <3>4. RequestLed(m)' /\ Forward(m)
      BY <1>0, <3>1, <3>2, <3>3 DEF RequestLed, Forward
    <3>5. Changed /\ Kept /\ Well
      BY Zenon, <3>1, <3>2, <3>3, <3>4
    <3> QED BY <1>0, <3>5
  <2>2. CASE ~merge[m].late
    <3> DEFINE r == [merge[m] EXCEPT !.status = "executing"]
    <3>1. /\ merge' = [merge EXCEPT ![m] = r] /\ merge[m].status = "approved"
          /\ bridge' = [bridge EXCEPT ![m] = "claimed"]
          /\ starts' = [starts EXCEPT ![m] = starts[m] + 1]
      BY <1>0, <1>4, <2>2 DEF Claim, MergesTyped
    <3>2. /\ r \in MergeRow /\ r.status = "executing" /\ r.from = merge[m].from
          /\ r.to = merge[m].to /\ r.answer = merge[m].answer /\ r.by = merge[m].by
      BY <1>0 DEF MergeRow, Final
    <3> HIDE DEF r
    <3>3. merge'[m] = r /\ bridge'[m] = "claimed" /\ starts'[m] = 1
      BY <1>0, <3>1 DEF MergesTyped, RequestLed
    <3>4. RequestLed(m)' /\ Forward(m)
      BY <1>0, <3>1, <3>2, <3>3 DEF RequestLed, Forward
    <3>5. "claimed" \in Phases /\ 1 \in 0 .. 1
      BY DEF Phases
    <3>6. starts' = [starts EXCEPT ![m] = 1]
      <4>1. starts[m] + 1 = 1
        BY <1>0, <3>1 DEF RequestLed
      <4> QED BY <3>1, <4>1
    <3>7. /\ merge' = [merge EXCEPT ![m] = merge'[m]] /\ merge'[m] \in MergeRow
          /\ bridge' = [bridge EXCEPT ![m] = bridge'[m]]
          /\ starts' = [starts EXCEPT ![m] = starts'[m]]
      BY Zenon, <3>1, <3>2, <3>3, <3>6
    <3> QED BY <3>3, <3>4, <3>5, <3>7
  <2> QED BY <1>0, <2>1, <2>2
<1>5. CASE Expire(m)
  <2> DEFINE r == [merge[m] EXCEPT !.late = TRUE]
  <2>1. /\ merge' = [merge EXCEPT ![m] = r]
        /\ bridge' = bridge /\ starts' = starts
    BY <1>0, <1>5 DEF Expire, MergesTyped
  <2>2. /\ r \in MergeRow /\ r.status = merge[m].status /\ r.from = merge[m].from
        /\ r.to = merge[m].to /\ r.answer = merge[m].answer /\ r.by = merge[m].by
    BY <1>0 DEF MergeRow
  <2> HIDE DEF r
  <2>3. merge'[m] = r
    BY <2>1 DEF MergesTyped
  <2>4. RequestLed(m)' /\ Forward(m)
    BY <1>0, <2>1, <2>2, <2>3 DEF RequestLed, Forward
  <2>5. Changed /\ Kept /\ Well
    BY Zenon, <2>1, <2>2, <2>3, <2>4
  <2> QED BY <1>0, <2>5
<1>6. ASSUME NEW p \in Phases, Moved(p), bridge[m] \notin {"idle", "over"},
             p \notin {"idle", "over"}
      PROVE  /\ Changed /\ bridge' = [bridge EXCEPT ![m] = bridge'[m]]
             /\ bridge'[m] \in Phases /\ starts' = starts /\ Well
  <2>1. bridge'[m] = p
    BY <1>6 DEF MergesTyped
  <2> QED BY <1>0, <1>6, <2>1 DEF RequestLed, Forward
<1>7. CASE Preflight(m) \/ CreateAgent(m) \/ Crash(m)
           \/ Redirect(m, merge[m].to, "agent", "guest")
           \/ Redirect(m, merge[m].from, "guest", "owner")
  <2>1. /\ \E p \in {"ready", "erred", "agent", "dead", "guest", "owner"} : Moved(p)
        /\ bridge[m] \notin {"idle", "over"}
    BY <1>7 DEF Preflight, CreateAgent, Crash, Redirect, Goes
  <2> QED BY <1>0, <1>6, <2>1 DEF Phases
<1>8. CASE Report(m)
  <2> DEFINE result == IF bridge[m] = "owner" THEN "joined" ELSE "failed"
             r == [merge[m] EXCEPT !.status = result]
  <2>1. /\ merge' = [merge EXCEPT ![m] = r] /\ merge[m].status = "executing"
        /\ bridge' = [bridge EXCEPT ![m] = "over"] /\ starts' = starts
    BY <1>0, <1>8 DEF Report, Complete, MergesTyped
  <2>2. /\ r \in MergeRow /\ r.status \in {"joined", "failed"}
        /\ r.from = merge[m].from
        /\ r.to = merge[m].to /\ r.answer = merge[m].answer /\ r.by = merge[m].by
    BY <1>0 DEF MergeRow, Final
  <2> HIDE DEF r
  <2>3. merge'[m] = r /\ bridge'[m] = "over"
    BY <2>1 DEF MergesTyped
  <2>4. RequestLed(m)' /\ Forward(m)
    BY <1>0, <2>1, <2>2, <2>3 DEF RequestLed, Forward
  <2> QED BY <1>0, <2>1, <2>2, <2>3, <2>4 DEF Phases
<1>9. CASE \/ \E c, d \in Calls : Propose(m, c, d)
           \/ \E c \in Calls, answer \in Answered : Answer(m, c, answer)
  BY <1>0, <1>2, <1>3, <1>9
<1> QED BY <1>4, <1>5, <1>7, <1>8, <1>9 DEF Execute

-----------------------------------------------------------------------------
(* The callbacks and the provider. *)

\* A callback keeps the record of an originated call true to what was heard.
LEMMA OutgoingRecorded ==
  ASSUME CallsTyped, NEW c \in Outgoing, NEW kind \in KindsOf(c),
         Record(c, kind), CallLed(c), Untouched(c)
  PROVE  OutgoingLed(c)'
<1>0. c \in Calls
  BY DEF Calls
<1> DEFINE n == Number(c, kind)
           status == StatusOf(c, kind)
<1>1. /\ kind \notin heard[c] /\ Happened(c, kind)
      /\ heard'[c] = heard[c] \cup {kind} /\ leg' = leg
      /\ presence'[c].joined # 0 <=> presence[c].joined # 0 \/ Came(status)
      /\ Applies(c, kind) => /\ session'[c].status = status
                             /\ session'[c].last = Larger(session[c].last, n)
      /\ ~Applies(c, kind) => session'[c] = session[c]
  BY <1>0, Recorded
<1>2. /\ kind \in {"initiated", "ringing", "answered", "no-answer", "completed"}
      /\ n = CASE kind = "initiated" -> 0
               [] kind = "ringing" -> 1
               [] kind = "completed" -> 3
               [] OTHER -> 2
      /\ status = CASE kind = "answered" -> "active"
                    [] kind = "completed" -> "ended"
                    [] kind = "no-answer" -> "failed"
                    [] OTHER -> "ringing"
  BY <1>0, KindsByDirection
<1>3. /\ OutgoingLed(c)
      /\ heard[c] = {} <=> session[c].status = "absent"
      /\ heard[c] = {} => session[c].last = -1
  BY <1>0 DEF CallLed
<1>4. /\ session[c].last \in -1 .. 3
      /\ session[c].status \in {"absent", "ringing", "active", "merging", "ended",
                               "failed"}
  BY <1>0 DEF CallsTyped, SessionRow, Over
<1>5. Applies(c, kind) <=> \/ session[c].status = "absent"
                           \/ /\ session[c].status \notin Over
                              /\ n > session[c].last
  BY <1>2 DEF Applies, StreamKinds
<1>6. presence'[c].joined # 0 <=>
        presence[c].joined # 0 \/ kind \in {"answered", "completed"}
  BY <1>1, <1>2 DEF Came
<1> HIDE DEF n, status
<1>7. CASE kind = "answered"
  <2>1. n = 2 /\ status = "active" /\ leg[c] \notin {"ringing", "missed"}
    BY <1>1, <1>2, <1>7 DEF Happened
  <2>2. leg[c] \in {"up", "gone"}
    BY <1>0, <1>3, <2>1 DEF OutgoingLed, CallsTyped, Legs
  <2>3. CASE Applies(c, kind)
    BY <1>1, <1>3, <1>4, <1>5, <1>6, <1>7, <2>1, <2>2, <2>3
       DEF OutgoingLed, Over, Larger
  <2>4. CASE ~Applies(c, kind)
    BY <1>1, <1>3, <1>4, <1>5, <1>6, <1>7, <2>1, <2>2, <2>4 DEF OutgoingLed, Over
  <2> QED BY <2>3, <2>4
<1>8. CASE kind = "completed"
  <2>1. n = 3 /\ status = "ended" /\ leg[c] = "gone"
    BY <1>1, <1>2, <1>8 DEF Happened
  <2>2. session[c].status \notin Over /\ session[c].last <= 2
    BY <1>1, <1>3, <1>4, <1>8, <2>1 DEF OutgoingLed, Over
  <2>3. Applies(c, kind) /\ "no-answer" \notin heard[c]
    BY <1>3, <1>5, <1>4, <2>1, <2>2 DEF OutgoingLed
  <2> QED BY <1>1, <1>3, <1>6, <1>8, <2>1, <2>3 DEF OutgoingLed, Over
<1>9. CASE kind = "no-answer"
  <2>1. n = 2 /\ status = "failed" /\ leg[c] = "missed"
    BY <1>1, <1>2, <1>9 DEF Happened
  <2>2. session[c].status \notin Over /\ session[c].last < 2
    BY <1>1, <1>3, <1>4, <1>9, <2>1 DEF OutgoingLed, Over
  <2>3. Applies(c, kind) /\ "completed" \notin heard[c] /\ "answered" \notin heard[c]
    BY <1>3, <1>5, <1>4, <2>1, <2>2 DEF OutgoingLed
  <2> QED BY <1>1, <1>3, <1>6, <1>9, <2>1, <2>3 DEF OutgoingLed, Over
<1>10. CASE kind \in {"initiated", "ringing"}
  <2>1. n \in 0 .. 1 /\ status = "ringing"
    BY <1>2, <1>10
  <2>2. CASE Applies(c, kind)
    <3>1. /\ "answered" \notin heard[c] /\ "completed" \notin heard[c]
          /\ "no-answer" \notin heard[c]
      BY <1>3, <1>4, <1>5, <2>1, <2>2 DEF OutgoingLed, Over
    <3>2. session[c].last < n
      BY <1>3, <1>4, <1>5, <2>1, <2>2
    <3> QED BY <1>1, <1>3, <1>4, <1>6, <1>10, <2>1, <2>2, <3>1, <3>2
            DEF OutgoingLed, Over, Larger
  <2>3. CASE ~Applies(c, kind)
    BY <1>1, <1>3, <1>6, <1>10, <2>3 DEF OutgoingLed
  <2> QED BY <2>2, <2>3
<1> QED BY <1>2, <1>7, <1>8, <1>9, <1>10

\* A callback keeps the record of an incoming call true to what was heard.
LEMMA IncomingRecorded ==
  ASSUME CallsTyped, NEW c \in Incoming, NEW kind \in KindsOf(c),
         Record(c, kind), CallLed(c), Untouched(c)
  PROVE  IncomingLed(c)'
<1>0. c \in Calls /\ c \notin Outgoing
  BY DEF Calls
<1> DEFINE n == Number(c, kind)
           status == StatusOf(c, kind)
<1>1. /\ kind \notin heard[c] /\ Happened(c, kind)
      /\ kind = "stream-error" => fetched[c] # "none"
      /\ heard'[c] = heard[c] \cup {kind} /\ leg' = leg /\ fetched' = fetched
      /\ presence'[c].joined # 0 <=> presence[c].joined # 0 \/ Came(status)
      /\ Applies(c, kind) => /\ session'[c].status = status
                             /\ session'[c].last = Larger(session[c].last, n)
      /\ ~Applies(c, kind) => session'[c] = session[c]
  BY <1>0, Recorded
<1>2. /\ kind \in {"stream-started", "stream-error", "stream-stopped", "completed"}
      /\ n = IF kind = "completed" THEN 0 ELSE -1
      /\ status = CASE kind = "stream-started" -> "active"
                    [] kind = "stream-error" -> fetched[c]
                    [] OTHER -> "ended"
  BY <1>0, KindsByDirection
<1>3. IncomingLed(c)
  BY <1>0 DEF CallLed
<1>4. /\ fetched[c] \in {"none", "active", "ended"}
      /\ leg[c] \in {"up", "gone"} /\ leg[c] \notin Rooms
  BY <1>0, <1>3 DEF CallsTyped, Fetches, IncomingLed
<1>5. status \in {"active", "ended"} /\ (status = "ended" => leg[c] = "gone")
  BY <1>1, <1>2, <1>3, <1>4 DEF Happened, IncomingLed
<1>6. presence'[c].joined # 0
  BY <1>1, <1>5 DEF Came
<1>7. Applies(c, kind) <=> session[c].status # "ended"
  BY <1>2, <1>3 DEF Applies, IncomingLed, StreamKinds, Over
<1>8. kind = "completed" => status = "ended"
  BY <1>2
<1>9. n \in -1 .. 0 /\ (kind # "completed" => n = -1)
  BY <1>2
<1> HIDE DEF n, status
<1>10. CASE session[c].status = "ended"
  BY <1>1, <1>3, <1>4, <1>6, <1>7, <1>10 DEF IncomingLed
<1>11. CASE session[c].status # "ended"
  <2>1. session'[c].status = status /\ session'[c].last = Larger(-1, n)
    BY <1>1, <1>3, <1>7, <1>11 DEF IncomingLed
  <2>2. status # "ended" => session'[c].last = -1
    BY <1>8, <1>9, <2>1 DEF Larger
  <2>3. "completed" \in heard'[c] => session'[c].status = "ended"
    BY <1>1, <1>3, <1>8, <1>11, <2>1 DEF IncomingLed
  <2> QED BY <1>1, <1>3, <1>4, <1>5, <1>6, <2>1, <2>2, <2>3 DEF IncomingLed
<1> QED BY <1>10, <1>11

\* A callback leaves its call well led, whatever else is going on.
LEMMA RecordLeads ==
  ASSUME IInv, UNCHANGED mergeVars, NEW c \in Calls, NEW kind \in KindsOf(c),
         Record(c, kind)
  PROVE  CallsTyped' /\ \A d \in Calls : CallLed(d)'
<1>1. /\ CallsTyped /\ MergesTyped /\ CallLed(c) /\ Record(c, kind)
      /\ \A m \in Merges : RequestLed(m) /\ Forward(m)
      /\ \A d \in Calls : MergingLed(d) /\ CallLed(d)
  BY RequestsStay DEF IInv, CallLed
<1>2. /\ CallsTyped' /\ heard'[c] = heard[c] \cup {kind}
      /\ presence'[c].joined # 0 <=>
           presence[c].joined # 0 \/ Came(StatusOf(c, kind))
      /\ Applies(c, kind) =>
           /\ session'[c].status = StatusOf(c, kind)
           /\ session'[c].last = Larger(session[c].last, Number(c, kind))
      /\ ~Applies(c, kind) => session'[c] = session[c]
      /\ leg' = leg /\ fetched' = fetched
      /\ \A d \in Calls : d # c => SameCall(d)
  BY <1>1, Recorded DEF SameCall
<1>3. ASSUME NEW d \in Calls, d # c
      PROVE  CallLed(d)'
  <2>1. MergingLed(d)'
    BY <1>1, <1>2, <1>3 DEF MergingLed, SameCall, Between, mergeVars
  <2> QED BY <1>1, <1>2, <1>3, <2>1, KeptCall
<1>4. /\ StatusOf(c, kind) \in {"ringing", "active", "ended", "failed"}
      /\ Number(c, kind) \in -1 .. 3 /\ session[c].last \in -1 .. 3
      /\ kind = "stream-error" => fetched[c] # "none"
  <2>1. /\ fetched[c] \in Fetches /\ (kind = "stream-error" => fetched[c] # "none")
        /\ session[c] \in SessionRow
    BY <1>1 DEF CallsTyped, Record
  <2> QED BY <2>1, KindFacts DEF SessionRow
<1>5. ~Applies(c, kind) => /\ session[c].status # "absent"
                           /\ \/ session[c].status \in Over
                              \/ Number(c, kind) <= session[c].last
  BY <1>4 DEF Applies
<1>6. heard'[c] \subseteq KindsOf(c) /\ heard'[c] # {}
      /\ session'[c].status # "absent"
  BY <1>1, <1>2, <1>4, <1>5 DEF CallLed
<1>7. JoinedLed(c)'
  <2>1. c \in Outgoing /\ Came(StatusOf(c, kind)) => Number(c, kind) >= 2
    BY KindsByDirection DEF Came
  <2>2. c \in Outgoing /\ presence'[c].joined # 0 =>
          session'[c].status \in Over \/ session'[c].last >= 2
    <3>1. CASE Applies(c, kind)
      <4>1. session[c].status \notin Over
        BY <3>1 DEF Applies, Over
      <4> QED BY <1>1, <1>2, <1>4, <2>1, <3>1, <4>1 DEF CallLed, JoinedLed, Larger
    <3>2. CASE ~Applies(c, kind)
      BY <1>1, <1>2, <1>4, <1>5, <2>1, <3>2 DEF CallLed, JoinedLed
    <3> QED BY <3>1, <3>2
  <2> QED BY <1>6, <2>2 DEF JoinedLed
<1>8. MergingLed(c)'
  BY <1>1, <1>2, <1>4 DEF MergingLed, Between, mergeVars
<1>9. \A m \in Merges : RoomLed(m, c)'
  BY <1>1, <1>2, Followed DEF CallLed
<1>10. Untouched(c)' =>
         IF c \in Outgoing THEN OutgoingLed(c)' ELSE IncomingLed(c)'
  <2>1. Untouched(c)' => Untouched(c)
    BY <1>1, Followed
  <2>2. CASE c \in Outgoing
    BY <1>1, <2>1, <2>2, OutgoingRecorded
  <2>3. CASE c \notin Outgoing
    BY <1>1, <2>1, <2>3, IncomingRecorded DEF Calls
  <2> QED BY <2>2, <2>3
<1>11. CallLed(c)'
  BY <1>6, <1>7, <1>8, <1>9, <1>10 DEF CallLed
<1> QED BY <1>2, <1>3, <1>11

\* Nor does what happens at the provider, or the answer it gives.
LEMMA ProviderLeads ==
  ASSUME IInv, UNCHANGED mergeVars, NEW c \in Calls,
         PickUp(c) \/ HangUp(c) \/ FetchCall(c)
  PROVE  CallsTyped' /\ \A d \in Calls : CallLed(d)'
<1>1. /\ CallsTyped /\ MergesTyped
      /\ \A m \in Merges : RequestLed(m) /\ Forward(m)
      /\ \A d \in Calls : CallLed(d)
  BY RequestsStay DEF IInv
<1>2. \A d \in Calls : SameCall(d)
  BY DEF PickUp, HangUp, FetchCall, SameCall
<1>3. \E l \in Legs, f \in Fetches : leg' = [leg EXCEPT ![c] = l]
                                   /\ fetched' = [fetched EXCEPT ![c] = f]
  <2>1. /\ leg[c] \in Legs /\ fetched[c] \in Fetches
        /\ leg = [leg EXCEPT ![c] = leg[c]]
        /\ fetched = [fetched EXCEPT ![c] = fetched[c]]
    BY <1>1 DEF CallsTyped
  <2>2. CASE PickUp(c)
    BY <2>1, <2>2 DEF PickUp, Legs
  <2>3. CASE HangUp(c)
    BY <2>1, <2>3 DEF HangUp, Legs
  <2>4. CASE FetchCall(c)
    BY <2>1, <2>4 DEF FetchCall, Fetches
  <2> QED BY <2>2, <2>3, <2>4
<1>4. \A d \in Calls : d # c => leg'[d] = leg[d] /\ fetched'[d] = fetched[d]
  BY <1>1, <1>3 DEF CallsTyped
<1>5. CallsTyped'
  BY <1>1, <1>3 DEF CallsTyped, PickUp, HangUp, FetchCall
<1>6. \A d \in Calls : MergingLed(d) => MergingLed(d)'
  BY <1>2 DEF MergingLed, SameCall, Between, mergeVars
<1>7. \A d \in Calls : d # c => CallLed(d)'
  BY <1>1, <1>2, <1>4, <1>6, KeptCall
<1>8. CallLed(c)'
  <2>1. /\ Untouched(c)' => Untouched(c)
        /\ leg'[c] = leg[c] => \A m \in Merges : RoomLed(m, c)'
    BY <1>1, Followed DEF CallLed
  <2>2. leg'[c] \in Rooms => leg'[c] = leg[c]
    BY <1>1 DEF PickUp, HangUp, FetchCall, CallsTyped
  <2>3. \A m \in Merges : RoomLed(m, c)'
    BY <2>1, <2>2 DEF RoomLed
  <2>4. Untouched(c) =>
          IF c \in Outgoing THEN OutgoingLed(c)' ELSE IncomingLed(c)'
    <3>1. CASE PickUp(c)
      <4>1. leg[c] = "ringing" /\ leg'[c] \in {"up", "missed"} /\ fetched' = fetched
        BY <1>1, <3>1 DEF PickUp, CallsTyped
      <4> QED BY <1>1, <1>2, <4>1
              DEF CallLed, SameCall, OutgoingLed, IncomingLed
    <3>2. CASE HangUp(c)
      <4>1. /\ leg[c] \in {"up"} \cup Rooms /\ leg'[c] = "gone"
            /\ fetched' = fetched
        BY <1>1, <3>2 DEF HangUp, OnLine, CallsTyped
      <4> QED BY <1>1, <1>2, <4>1
              DEF CallLed, SameCall, OutgoingLed, IncomingLed
    <3>3. CASE FetchCall(c)
      <4>1. /\ leg' = leg
            /\ fetched'[c] = IF leg[c] \in {"up"} \cup Rooms THEN "active" ELSE "ended"
        BY <1>1, <3>3 DEF FetchCall, OnLine, CallsTyped
      <4> QED BY <1>1, <1>2, <4>1
              DEF CallLed, SameCall, OutgoingLed, IncomingLed
    <3> QED BY <3>1, <3>2, <3>3
  <2> QED BY <1>1, <1>2, <1>6, <2>1, <2>3, <2>4
          DEF CallLed, SameCall, JoinedLed
<1> QED BY <1>5, <1>7, <1>8

-----------------------------------------------------------------------------
(* The functions and the bridge. *)

\* A step of a merge that changes no call leaves every call well led.
LEMMA MergeLeads ==
  ASSUME IInv, NEW m \in Merges, UNCHANGED callVars,
         \A k \in Merges : Forward(k),
         merge[m].status = "executing" => merge'[m].status = "executing",
         \A k \in Merges : k # m => merge'[k] = merge[k]
  PROVE  CallsTyped' /\ \A d \in Calls : CallLed(d)'
<1>1. /\ CallsTyped /\ MergesTyped
      /\ \A k \in Merges : RequestLed(k) /\ Forward(k)
      /\ \A d \in Calls : CallLed(d)
  BY DEF IInv
<1>2. /\ CallsTyped' /\ leg' = leg /\ fetched' = fetched
      /\ \A d \in Calls : SameCall(d)
  BY <1>1 DEF callVars, CallsTyped, SameCall
<1>3. \A k \in Merges : merge[k].status = "executing" =>
                          merge'[k].status = "executing" /\ Between(k)' = Between(k)
  BY <1>1 DEF Forward, Between
<1>4. \A d \in Calls : MergingLed(d) => MergingLed(d)'
  BY <1>2, <1>3 DEF MergingLed, SameCall
<1> QED BY <1>1, <1>2, <1>4, KeptCall

\* The claim of a merge takes its two calls out of the callbacks' hands.
LEMMA ClaimLeads ==
  ASSUME IInv, NEW m \in Merges, Claim(m), ~merge[m].late,
         \A k \in Merges : Forward(k),
         \A k \in Merges : k # m => merge'[k] = merge[k]
  PROVE  CallsTyped' /\ \A d \in Calls : CallLed(d)'
<1>1. /\ CallsTyped /\ MergesTyped
      /\ \A k \in Merges : RequestLed(k) /\ Forward(k)
      /\ \A d \in Calls : CallLed(d)
  BY DEF IInv
<1>2. /\ merge[m].status = "approved" /\ Merging(m)
      /\ \A c \in Between(m) : Live(c)
      /\ merge'[m].status = "executing" /\ starts'[m] = 1
      /\ leg' = leg /\ heard' = heard /\ presence' = presence /\ fetched' = fetched
  <2>1. starts[m] = 0 /\ merge[m] \in MergeRow
    BY <1>1 DEF Claim, RequestLed, MergesTyped
  <2> QED BY <1>1, <2>1 DEF Claim, MergesTyped, MergeRow
<1>3. \A d \in Calls : IF d \in Between(m)
                       THEN /\ session'[d].status = "merging"
                            /\ session'[d].last = session[d].last
                            /\ session'[d] \in SessionRow
                       ELSE session'[d] = session[d]
  <2>1. \A d \in Calls : session[d] \in SessionRow
    BY <1>1 DEF CallsTyped
  <2>2. \A d \in Calls : session'[d] = IF d \in Between(m)
                                       THEN [session[d] EXCEPT !.status = "merging"]
                                       ELSE session[d]
    BY <1>2 DEF Merging
  <2> QED BY <2>1, <2>2 DEF SessionRow
<1>4. CallsTyped'
  BY <1>1, <1>2, <1>3 DEF CallsTyped, Merging
<1>5. /\ \A k \in Merges : merge[k].status = "executing" =>
                             /\ merge'[k].status = "executing"
                             /\ Between(k)' = Between(k)
      /\ Between(m)' = Between(m)
  BY <1>1, <1>2 DEF Forward, Between
<1>6. ASSUME NEW d \in Calls, d \notin Between(m)
      PROVE  CallLed(d)'
  <2>1. SameCall(d) /\ (MergingLed(d) => MergingLed(d)')
    BY <1>2, <1>3, <1>5, <1>6 DEF SameCall, MergingLed
  <2> QED BY <1>1, <1>2, <2>1, KeptCall
<1>7. ASSUME NEW d \in Calls, d \in Between(m)
      PROVE  CallLed(d)'
  <2>1. session[d].status \in {"ringing", "active"}
    BY <1>2, <1>7 DEF Live
  <2>2. MergingLed(d)' /\ ~Untouched(d)'
    BY <1>2, <1>5, <1>7 DEF MergingLed, Untouched
  <2>3. JoinedLed(d)'
    BY <1>1, <1>2, <1>3, <1>7, <2>1 DEF CallLed, JoinedLed, Over
  <2>4. \A k \in Merges : RoomLed(k, d)'
    BY <1>1, <1>2, Followed DEF CallLed
  <2> QED BY <1>1, <1>2, <1>3, <1>7, <2>1, <2>2, <2>3, <2>4 DEF CallLed
<1> QED BY <1>4, <1>6, <1>7

\* The report of a merge returns its calls to the callbacks.
LEMMA ReportLeads ==
  ASSUME IInv, NEW m \in Merges, Report(m),
         \A k \in Merges : Forward(k),
         \A k \in Merges : k # m => merge'[k] = merge[k]
  PROVE  CallsTyped' /\ \A d \in Calls : CallLed(d)'
<1>1. /\ CallsTyped /\ MergesTyped
      /\ \A k \in Merges : RequestLed(k) /\ Forward(k)
      /\ \A d \in Calls : CallLed(d)
  BY DEF IInv
<1>2. /\ merge[m].status = "executing" /\ Active(m)
      /\ leg' = leg /\ heard' = heard /\ presence' = presence /\ fetched' = fetched
      /\ starts' = starts /\ starts[m] = 1
  BY <1>1 DEF Report, Complete, RequestLed
<1>3. \A d \in Calls : IF d \in Between(m) /\ session[d].status = "merging"
                       THEN /\ session'[d].status = "active"
                            /\ session'[d].last = session[d].last
                            /\ session'[d] \in SessionRow
                       ELSE session'[d] = session[d]
  <2>1. \A d \in Calls : session[d] \in SessionRow
    BY <1>1 DEF CallsTyped
  <2>2. \A d \in Calls : session'[d] =
                           IF d \in Between(m) /\ session[d].status = "merging"
                           THEN [session[d] EXCEPT !.status = "active"]
                           ELSE session[d]
    BY <1>2 DEF Active
  <2> QED BY <2>1, <2>2 DEF SessionRow
<1>4. CallsTyped'
  BY <1>1, <1>2, <1>3 DEF CallsTyped, Active
<1>5. \A k \in Merges : k # m /\ merge[k].status = "executing" =>
                          /\ merge'[k].status = "executing"
                          /\ Between(k)' = Between(k)
  BY <1>1, <1>2 DEF Forward, Between
<1>6. \A d \in Calls : d \notin Between(m) => (MergingLed(d) => MergingLed(d)')
  BY <1>3, <1>5 DEF MergingLed
<1>7. ASSUME NEW d \in Calls,
             d \notin Between(m) \/ session[d].status # "merging"
      PROVE  CallLed(d)'
  <2>1. SameCall(d) /\ (MergingLed(d) => MergingLed(d)')
    BY <1>2, <1>3, <1>6, <1>7 DEF SameCall, MergingLed
  <2> QED BY <1>1, <1>2, <2>1, KeptCall
<1>8. ASSUME NEW d \in Calls, d \in Between(m), session[d].status = "merging"
      PROVE  CallLed(d)'
  <2>1. MergingLed(d)'
    BY <1>3, <1>8 DEF MergingLed
  <2>2. ~Untouched(d)'
    BY <1>1, <1>2, <1>8, Followed DEF Untouched
  <2>3. JoinedLed(d)'
    BY <1>1, <1>2, <1>3, <1>8 DEF CallLed, JoinedLed, Over
  <2>4. \A k \in Merges : RoomLed(k, d)'
    BY <1>1, <1>2, Followed DEF CallLed
  <2> QED BY <1>1, <1>2, <1>3, <1>8, <2>1, <2>2, <2>3, <2>4 DEF CallLed
<1> QED BY <1>4, <1>7, <1>8

\* A leg is moved into the room of a merge that was started for it.
LEMMA RedirectLeads ==
  ASSUME IInv, NEW m \in Merges, NEW c \in Between(m), Redirected(m, c),
         merge[m].status = "executing",
         UNCHANGED <<merge, starts, session, heard, presence, fetched>>
  PROVE  CallsTyped' /\ \A d \in Calls : CallLed(d)'
<1>1. /\ CallsTyped /\ MergesTyped
      /\ \A k \in Merges : RequestLed(k)
      /\ \A d \in Calls : CallLed(d)
  BY DEF IInv
<1>2. /\ c \in Calls /\ starts[m] = 1 /\ merge[m].answer = "approved"
  BY <1>1 DEF RequestLed, Between
<1>3. \A k \in Merges : Forward(k)
  BY DEF Forward
<1>4. /\ leg'[c] = m /\ leg' \in [Calls -> Legs]
      /\ \A d \in Calls : d # c => leg'[d] = leg[d]
  BY <1>1, <1>2 DEF Redirected, CallsTyped, Legs
<1>5. CallsTyped' /\ \A d \in Calls : SameCall(d)
  BY <1>1, <1>4 DEF CallsTyped, SameCall
<1>6. \A d \in Calls : MergingLed(d) => MergingLed(d)'
  BY DEF MergingLed, Between
<1>7. \A d \in Calls : d # c => CallLed(d)'
  BY <1>1, <1>3, <1>4, <1>5, <1>6, KeptCall
<1>8. CallLed(c)'
  <2>1. ~Untouched(c)'
    BY <1>2 DEF Untouched, Between
  <2>2. \A k \in Merges : RoomLed(k, c)'
    BY <1>2, <1>4 DEF RoomLed, Between
  <2> QED BY <1>1, <1>2, <1>5, <1>6, <2>1, <2>2 DEF CallLed, SameCall, JoinedLed
<1> QED BY <1>5, <1>7, <1>8

-----------------------------------------------------------------------------
(* The theorems. *)

\* Nothing has been heard, asked or merged.
LEMMA InitLed == Init => IInv
<1> SUFFICES ASSUME Init PROVE IInv
  OBVIOUS
<1>1. CallsTyped
  BY DEF Init, CallsInit, CallsTyped, Legs, SessionRow, Presences, Times, Fetches,
         Over
<1>2. \A m \in Merges :
        /\ merge[m] = [status |-> "absent", from |-> None, to |-> None,
                       late |-> FALSE, answer |-> None, by |-> None]
        /\ bridge[m] = "idle" /\ starts[m] = 0
  BY DEF Init
<1>3. MergesTyped
  BY <1>2 DEF Init, MergesTyped, MergeRow, Phases, Final
<1>4. \A m \in Merges : RequestLed(m)
  BY <1>2 DEF RequestLed
<1>5. ASSUME NEW c \in Calls
      PROVE  CallLed(c)
  <2>1. /\ session[c].status = "absent" /\ session[c].last = -1 /\ heard[c] = {}
        /\ presence[c].joined = 0 /\ fetched[c] = "none"
        /\ leg[c] = IF c \in Outgoing THEN "ringing" ELSE "up"
    BY DEF Init, CallsInit
  <2>2. leg[c] \notin Rooms
    BY <2>1
  <2> QED BY <2>1, <2>2 DEF CallLed, JoinedLed, MergingLed, RoomLed, OutgoingLed,
                            IncomingLed, Over
<1> QED BY <1>1, <1>3, <1>4, <1>5 DEF IInv

\* Every step keeps the requests going and every record true.
LEMMA StepLed == IInv /\ [Next]_vars => IInv' /\ \A m \in Merges : Forward(m)
<1> SUFFICES ASSUME IInv, [Next]_vars
             PROVE  IInv' /\ \A m \in Merges : Forward(m)
  OBVIOUS
<1>1. MergesTyped /\ \A m \in Merges : RequestLed(m)
  BY DEF IInv
<1>2. ASSUME NEW m \in Merges,
             \/ \E c, d \in Calls : Propose(m, c, d)
             \/ \E c \in Calls, answer \in Answered : Answer(m, c, answer)
             \/ Claim(m)
             \/ Expire(m)
             \/ Execute(m) \/ Crash(m)
      PROVE  IInv' /\ \A k \in Merges : Forward(k)
  <2>1. /\ MergesTyped' /\ \A k \in Merges : RequestLed(k)' /\ Forward(k)
        /\ \A k \in Merges : k # m => merge'[k] = merge[k]
    BY <1>1, <1>2, RequestSteps
  <2>2. SUFFICES CallsTyped' /\ \A d \in Calls : CallLed(d)'
    BY <2>1 DEF IInv
  <2>3. /\ RequestLed(m) /\ merge[m] \in MergeRow /\ bridge[m] \in Phases
        /\ merge \in [Merges -> MergeRow]
    BY <1>1 DEF MergesTyped
  <2>4. CASE \/ \E c, d \in Calls : Propose(m, c, d)
             \/ \E c \in Calls, answer \in Answered : Answer(m, c, answer)
    <3>1. UNCHANGED callVars /\ merge[m].status # "executing"
      BY <2>4 DEF Propose, Answer
    <3> QED BY <2>1, <3>1, MergeLeads
  <2>5. CASE Claim(m)
    <3>1. CASE merge[m].late
      <4>1. UNCHANGED callVars /\ merge[m].status # "executing"
        BY <2>5, <3>1 DEF Claim, callVars
      <4> QED BY <2>1, <4>1, MergeLeads
    <3>2. CASE ~merge[m].late
      BY <2>1, <2>5, <3>2, ClaimLeads
    <3> QED BY <3>1, <3>2
  <2>6. CASE Expire(m)
    <3>1. UNCHANGED callVars /\ merge'[m].status = merge[m].status
      BY <2>3, <2>6 DEF Expire, MergeRow
    <3> QED BY <2>1, <3>1, MergeLeads
  <2>7. CASE Preflight(m) \/ CreateAgent(m) \/ Crash(m)
    <3>1. UNCHANGED callVars /\ merge' = merge
      BY <2>7 DEF Preflight, CreateAgent, Crash, Goes, callVars
    <3> QED BY <2>1, <3>1, MergeLeads
  <2>8. ASSUME NEW c \in Between(m), NEW before, NEW after,
               before \in {"agent", "guest"}, Redirect(m, c, before, after)
        PROVE  CallsTyped' /\ \A d \in Calls : CallLed(d)'
    <3>1. merge[m].status = "executing"
      BY <2>3, <2>8 DEF Redirect, RequestLed
    <3>2. UNCHANGED <<merge, starts, session, heard, presence, fetched>>
      BY <2>8 DEF Redirect, Goes
    <3>3. CASE Redirected(m, c)
      BY <3>1, <3>2, <3>3, RedirectLeads
    <3>4. CASE UNCHANGED leg
      <4>1. UNCHANGED callVars /\ merge' = merge
        BY <3>2, <3>4 DEF callVars
      <4> QED BY <2>1, <4>1, MergeLeads
    <3> QED BY <2>8, <3>3, <3>4 DEF Redirect
  <2>9. CASE \/ Redirect(m, merge[m].to, "agent", "guest")
             \/ Redirect(m, merge[m].from, "guest", "owner")
    BY <2>8, <2>9 DEF Between
  <2>10. CASE Report(m)
    BY <2>1, <2>10, ReportLeads
  <2> QED BY <1>2, <2>4, <2>5, <2>6, <2>7, <2>9, <2>10 DEF Execute
<1>3. ASSUME CallsNext, UNCHANGED mergeVars
      PROVE  IInv' /\ \A m \in Merges : Forward(m)
  <2>1. MergesTyped' /\ \A m \in Merges : RequestLed(m)' /\ Forward(m)
    BY <1>1, <1>3, RequestsStay
  <2>2. CallsTyped' /\ \A d \in Calls : CallLed(d)'
    BY <1>3, RecordLeads, ProviderLeads DEF CallsNext
  <2> QED BY <2>1, <2>2 DEF IInv
<1>4. CASE UNCHANGED vars
  <2>1. UNCHANGED mergeVars /\ UNCHANGED callVars
    BY <1>4 DEF vars
  <2>2. MergesTyped' /\ \A m \in Merges : RequestLed(m)' /\ Forward(m)
    BY <1>1, <2>1, RequestsStay
  <2>3. CallsTyped' /\ \A d \in Calls : CallLed(d)'
    BY <2>1 DEF IInv, callVars, mergeVars, CallsTyped, CallLed, JoinedLed, MergingLed,
                RoomLed, Untouched, OutgoingLed, IncomingLed, Between
  <2> QED BY <2>2, <2>3 DEF IInv
<1> QED BY <1>2, <1>3, <1>4 DEF Next, MergeNext

\* Every reachable state satisfies the inductive invariant.
LEMMA Inductive == Spec => []IInv
<1>1. IInv /\ [Next]_vars => IInv'
  BY StepLed
<1> QED BY InitLed, <1>1, PTL DEF Spec

\* Rows are well formed, a session has heard something exactly when it exists, and
\* the bridge works on the requests that are executing.
THEOREM RegistryTyped == Spec => []TypeOK
<1>1. IInv => TypeOK
  <2> SUFFICES ASSUME IInv PROVE TypeOK
    OBVIOUS
  <2>1. CallsTypeOK
    BY DEF IInv, CallsTyped, CallLed, CallsTypeOK, Legs, Presences, Fetches
  <2> QED BY <2>1 DEF IInv, MergesTyped, RequestLed, TypeOK
<1> QED BY Inductive, <1>1, PTL

\* Nobody is put into a room of a merge that the owner did not approve through
\* the call that asked for it.
THEOREM RoomsHaveConsent == Spec => []NoMergeWithoutConsent
<1>1. IInv => NoMergeWithoutConsent
  BY DEF IInv, CallLed, RoomLed, RequestLed, NoMergeWithoutConsent
<1> QED BY Inductive, <1>1, PTL

\* A session is "merging" only while a merge of its call is executing; and a merge is
\* executing from its one claim to the report of the bridge, or for good if the bridge
\* stops before (claim_ and complete_live_call_merge_execution).
THEOREM MergingEnds == Spec => []MergingIsExecuting
<1>1. IInv => MergingIsExecuting
  <2> SUFFICES ASSUME IInv PROVE MergingIsExecuting
    OBVIOUS
  <2>1. \A m \in Merges : starts[m] \in 0 .. 1
    BY DEF IInv, MergesTyped
  <2> QED BY <2>1 DEF IInv, CallLed, MergingLed, RequestLed, MergingIsExecuting
<1> QED BY Inductive, <1>1, PTL

\* No step sets a call that somebody joined back to ringing, and the row of a call
\* that is over is never written again.
LEMMA RecordMovesOn ==
  ASSUME IInv, NEW c \in Calls, NEW kind \in KindsOf(c), Record(c, kind)
  PROVE  /\ session[c].status \in Over => session'[c] = session[c]
         /\ presence[c].joined # 0 =>
              Rank(session'[c].status) >= Rank(session[c].status)
<1>1. /\ CallsTyped /\ JoinedLed(c)
      /\ session[c].status \in {"absent", "ringing", "active", "merging", "ended",
                               "failed"}
      /\ session[c].last \in -1 .. 3 /\ fetched[c] \in Fetches
  BY DEF IInv, CallLed, CallsTyped, SessionRow, Over
<1>2. /\ Applies(c, kind) => session'[c].status = StatusOf(c, kind)
      /\ ~Applies(c, kind) => session'[c] = session[c]
      /\ kind = "stream-error" => fetched[c] # "none"
  BY <1>1, Recorded
<1>3. \A s, t \in {"absent", "ringing", "active", "merging", "ended", "failed"} :
        /\ Rank(s) \in 0 .. 3
        /\ t \in {"active", "ended", "failed"} /\ s \notin Over => Rank(t) >= Rank(s)
  BY DEF Rank, Over
<1>4. CASE ~Applies(c, kind)
  BY <1>1, <1>2, <1>3, <1>4
<1>5. CASE Applies(c, kind)
  <2>1. presence[c].joined # 0 =>
          session[c].status # "absent" /\ session[c].status \notin Over
    BY <1>1, <1>5 DEF Applies, JoinedLed
  <2>2. session[c].status \notin Over
    BY <1>5 DEF Applies, Over
  <2>3. presence[c].joined # 0 => StatusOf(c, kind) \in {"active", "ended", "failed"}
    <3>1. CASE c \in Outgoing
      <4>1. presence[c].joined # 0 => Number(c, kind) > session[c].last
                                      /\ session[c].last >= 2
        BY <1>1, <1>5, <2>1, <3>1, KindsByDirection
           DEF Applies, JoinedLed, StreamKinds
      <4> QED BY <1>1, <3>1, <4>1, KindsByDirection
    <3>2. CASE c \notin Outgoing
      BY <1>1, <1>2, <3>2, KindsByDirection DEF Fetches
    <3> QED BY <3>1, <3>2
  <2> QED BY <1>1, <1>2, <1>3, <1>5, <2>2, <2>3
<1> QED BY <1>4, <1>5

\* No late callback, merge or report sets back a call that somebody joined.
THEOREM NoCallRegresses == Spec => CallNeverRegresses
<1> DEFINE Onward == \A c \in Calls :
             /\ session[c].status \in Over => session'[c] = session[c]
             /\ presence[c].joined # 0 =>
                  Rank(session'[c].status) >= Rank(session[c].status)
<1>1. IInv /\ [Next]_vars => [Onward]_callVars
  <2> SUFFICES ASSUME IInv, Next PROVE Onward
    BY DEF vars, callVars
  <2>0. /\ \A c \in Calls : session[c] \in SessionRow
        /\ \A s \in {"absent", "ringing", "active", "merging", "ended", "failed"} :
             Rank(s) \in 0 .. 3
        /\ Rank("active") = 2 /\ Rank("merging") = 2 /\ Rank("ringing") = 1
    BY DEF IInv, CallsTyped, Rank, Over
  <2>1. ASSUME session' = session PROVE Onward
    BY <2>0, <2>1 DEF SessionRow, Over
  <2>2. ASSUME NEW c \in Calls, NEW kind \in KindsOf(c), Record(c, kind)
        PROVE  Onward
    <3>1. \A d \in Calls : d # c => session'[d] = session[d]
      BY <2>2, Recorded DEF IInv
    <3>2. \A d \in Calls : d # c => Rank(session'[d].status) >= Rank(session[d].status)
      BY <2>0, <3>1 DEF SessionRow, Over
    <3> QED BY <2>2, <3>1, <3>2, RecordMovesOn
  <2>3. ASSUME NEW m \in Merges, Claim(m)
        PROVE  Onward
    <3>1. CASE merge[m].late
      BY <2>1, <2>3, <3>1 DEF Claim
    <3>2. CASE ~merge[m].late
      <4>1. \A d \in Calls :
              /\ d \in Between(m) => /\ session[d].status \in {"ringing", "active"}
                                     /\ session'[d].status = "merging"
              /\ d \notin Between(m) => session'[d] = session[d]
        BY <2>0, <2>3, <3>2 DEF Claim, Merging, Live, SessionRow
      <4> QED BY <2>0, <4>1 DEF SessionRow, Over
    <3> QED BY <3>1, <3>2
  <2>4. ASSUME NEW m \in Merges, Report(m)
        PROVE  Onward
    <3>1. \A d \in Calls :
            \/ session'[d] = session[d]
            \/ session[d].status = "merging" /\ session'[d].status = "active"
      BY <2>0, <2>4 DEF Report, Complete, Active, SessionRow
    <3> QED BY <2>0, <3>1 DEF SessionRow, Over
  <2>5. \/ session' = session
        \/ \E c \in Calls : \E kind \in KindsOf(c) : Record(c, kind)
        \/ \E m \in Merges : Claim(m) \/ Report(m)
    BY DEF Next, MergeNext, CallsNext, Propose, Answer, Expire, Execute, Crash,
           Preflight, CreateAgent, Redirect, Goes, PickUp, HangUp, FetchCall, callVars
  <2> QED BY <2>1, <2>2, <2>3, <2>4, <2>5
<1>2. Spec => [][Onward]_callVars
  BY Inductive, <1>1, PTL DEF Spec
<1> QED BY <1>2 DEF CallNeverRegresses

\* If the provider is asked to report answers and ends, then once it has been heard
\* out the record of a call no merge was started for is what the provider says.
THEOREM QuietCallsAreTrue ==
  ASSUME {"answered", "no-answer", "completed"} \subseteq Kinds
  PROVE  Spec => []QuietCallsAreCurrent
<1>1. IInv => QuietCallsAreCurrent
  <2> SUFFICES ASSUME IInv, NEW c \in Calls, Untouched(c), heard[c] # {}, AllHeard(c)
               PROVE  Current(c)
    BY DEF QuietCallsAreCurrent, Untouched
  <2>1. /\ session[c].status # "absent" /\ leg[c] \in Legs
        /\ session[c].status \in {"ringing", "active", "merging", "ended", "failed"}
        /\ IF c \in Outgoing THEN OutgoingLed(c) ELSE IncomingLed(c)
    BY DEF IInv, CallLed, CallsTyped, SessionRow, Over
  <2>2. /\ leg[c] = "gone" => "completed" \in heard[c]
        /\ c \in Outgoing =>
             /\ leg[c] = "missed" => "no-answer" \in heard[c]
             /\ leg[c] \notin {"ringing", "missed"} => "answered" \in heard[c]
    BY DEF AllHeard, KindsOf, Happened, Progress, StreamKinds
  <2>3. CASE c \in Outgoing
    BY <2>1, <2>2, <2>3 DEF OutgoingLed, Current, Legs, Over
  <2>4. CASE c \notin Outgoing
    BY <2>1, <2>2, <2>4 DEF IncomingLed, Current
  <2> QED BY <2>3, <2>4
<1> QED BY Inductive, <1>1, PTL
=============================================================================
