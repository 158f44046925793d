------------------------------ MODULE LiveCalls ------------------------------
(***************************************************************************)
(* The live-call registry (supabase/migrations, record_live_call_status,   *)
(* called by functions/twilio-call-status): one session per telephone      *)
(* call, kept up to date by callbacks of the provider.                     *)
(*                                                                         *)
(* A callback may be delivered at any time after what it reports, again,   *)
(* late or never.  Two deliveries for one call wait for each other at the  *)
(* session row and look for the event again behind it, so a delivery is    *)
(* one action; a repeated one changes nothing and has none.  A stream      *)
(* error reports nothing by itself: the handler asks the provider for the  *)
(* status of the call, and records the answer in a second step.            *)
(*                                                                         *)
(* The legs are the provider's own view of its calls.  A leg may be moved  *)
(* into a conference room (module LiveCallMerge).  No function writes the  *)
(* status "held", and the two participants of a call are always in the     *)
(* same state.                                                             *)
(***************************************************************************)
EXTENDS Integers, FiniteSets

CONSTANTS
    Incoming,   \* calls to the assistant's number
    Outgoing,   \* calls the bridge originates
    Kinds,      \* kinds of callback the provider was asked for
    Rooms       \* conference rooms

Calls == Incoming \cup Outgoing

\* An originated call reports its progress, an incoming one its media stream and
\* its end.
Progress == {"initiated", "ringing", "answered", "no-answer", "completed"}
StreamKinds == {"stream-started", "stream-error", "stream-stopped"}

KindsOf(c) == Kinds \cap (IF c \in Outgoing THEN Progress
                          ELSE StreamKinds \cup {"completed"})

ASSUME CallsAssumption == /\ Incoming \cap Outgoing = {}
                          /\ Kinds \subseteq Progress \cup StreamKinds

VARIABLES
    leg,        \* leg[c]: where the provider has the call
    session,    \* rows of live_call_sessions
    heard,      \* heard[c]: rows of live_call_events
    presence,   \* presence[c]: joined_at and left_at of the participants of c
    fetched     \* fetched[c]: the provider's answer to a stream error

callVars == <<leg, session, heard, presence, fetched>>

-----------------------------------------------------------------------------
\* When it happened what a callback of this kind reports; SQL NULL is 0.
OccurredAt(kind) ==
    CASE kind = "initiated" -> 1
      [] kind = "ringing" -> 2
      [] kind \in {"answered", "no-answer", "stream-started"} -> 3
      [] kind = "stream-error" -> 4
      [] kind = "stream-stopped" -> 5
      [] kind = "completed" -> 6

Times == 0 .. 6

Over == {"ended", "failed"}

SessionRow == [status : {"absent", "ringing", "active", "merging"} \cup Over,
               last : -1 .. 3]

CallsInit ==
    /\ leg = [c \in Calls |-> IF c \in Outgoing THEN "ringing" ELSE "up"]
    /\ session = [c \in Calls |-> [status |-> "absent", last |-> -1]]
    /\ heard = [c \in Calls |-> {}]
    /\ presence = [c \in Calls |-> [joined |-> 0, left |-> 0]]
    /\ fetched = [c \in Calls |-> "none"]

-----------------------------------------------------------------------------
(* The provider. *)

OnLine(c) == leg[c] \in {"up"} \cup Rooms

PickUp(c) == /\ leg[c] = "ringing"
             /\ \E result \in {"up", "missed"} :
                  leg' = [leg EXCEPT ![c] = result]
             /\ UNCHANGED <<session, heard, presence, fetched>>

HangUp(c) == /\ OnLine(c)
             /\ leg' = [leg EXCEPT ![c] = "gone"]
             /\ UNCHANGED <<session, heard, presence, fetched>>

\* The callbacks there is a reason for.  A redirected leg has left its stream.
Happened(c, kind) ==
    CASE kind \in {"initiated", "ringing"} -> TRUE
      [] kind \in {"answered", "stream-started", "stream-error"} ->
           leg[c] \notin {"ringing", "missed"}
      [] kind = "no-answer" -> leg[c] = "missed"
      [] kind = "stream-stopped" -> leg[c] \in {"gone"} \cup Rooms
      [] kind = "completed" -> leg[c] = "gone"

-----------------------------------------------------------------------------
(* record_live_call_status. *)

\* SequenceNumber; a stream callback has none.
Number(c, kind) ==
    CASE kind \in StreamKinds -> -1
      [] kind = "completed" -> IF c \in Outgoing THEN 3 ELSE 0
      [] kind = "initiated" -> 0
      [] kind = "ringing" -> 1
      [] OTHER -> 2

\* v_status.
StatusOf(c, kind) ==
    CASE kind \in {"initiated", "ringing"} -> "ringing"
      [] kind \in {"answered", "stream-started"} -> "active"
      [] kind \in {"completed", "stream-stopped"} -> "ended"
      [] kind = "no-answer" -> "failed"
      [] kind = "stream-error" -> fetched[c]

\* Mutants: an event is applied to a call that is over; out of order.
AppliesAlways(c, kind) ==
    \/ session[c].status = "absent"
    \/ kind \in StreamKinds
    \/ Number(c, kind) > session[c].last

AppliesUnordered(c, kind) == session[c].status \notin Over

\* v_should_apply.
Applies(c, kind) ==
    \/ session[c].status = "absent"
    \/ /\ session[c].status \notin Over
       /\ kind \in StreamKinds \/ Number(c, kind) > session[c].last

Came(status) == status \in {"active", "ended"}

\* The upsert of the participants, which does not ask whether the event applies:
\* the first event in joined_at, the latest one to come in left_at.
PresenceAfter(c, status, at) ==
    [joined |-> IF Came(status) /\ presence[c].joined = 0 THEN at
                ELSE presence[c].joined,
     left |-> IF \/ status = "ended"
                 \/ status = "failed" /\ presence[c].joined # 0
              THEN at ELSE presence[c].left]

\* The check live_call_participants_presence_check; an event that would break it
\* is refused, and nothing of it recorded.
Presentable(p) == p.left = 0 \/ (p.joined # 0 /\ p.left >= p.joined)

Larger(a, b) == IF a > b THEN a ELSE b

Record(c, kind) ==
    /\ kind \in KindsOf(c) \ heard[c]
    /\ Happened(c, kind)
    /\ kind = "stream-error" => fetched[c] # "none"
    /\ LET p == PresenceAfter(c, StatusOf(c, kind), OccurredAt(kind))
       IN  Presentable(p) /\ presence' = [presence EXCEPT ![c] = p]
    /\ heard' = [heard EXCEPT ![c] = @ \cup {kind}]
    /\ IF Applies(c, kind)
       THEN session' = [session EXCEPT
                          ![c].status = StatusOf(c, kind),
                          ![c].last = Larger(@, Number(c, kind))]
       ELSE UNCHANGED session
    /\ UNCHANGED <<leg, fetched>>

\* A redelivered stream error asks again, and may get another answer.
FetchCall(c) ==
    /\ "stream-error" \in KindsOf(c) \ heard[c]
    /\ Happened(c, "stream-error")
    /\ fetched' = [fetched EXCEPT
                     ![c] = IF OnLine(c) THEN "active" ELSE "ended"]
    /\ UNCHANGED <<leg, session, heard, presence>>

CallsNext == \E c \in Calls :
                \/ PickUp(c) \/ HangUp(c) \/ FetchCall(c)
                \/ \E kind \in KindsOf(c) : Record(c, kind)

CallsSpec == CallsInit /\ [][CallsNext]_callVars

-----------------------------------------------------------------------------
(* Properties. *)

\* Every row is well formed; a session is the trace of at least one event,
\* and every event has its session.
CallsTypeOK ==
    /\ leg \in [Calls -> {"ringing", "up", "missed", "gone"} \cup Rooms]
    /\ session \in [Calls -> SessionRow]
    /\ heard \in [Calls -> SUBSET (Progress \cup StreamKinds)]
    /\ presence \in [Calls -> [joined : Times, left : Times]]
    /\ fetched \in [Calls -> {"none", "active", "ended"}]
    /\ \A c \in Calls : heard[c] = {} <=> session[c].status = "absent"

Rank(status) == CASE status = "absent" -> 0
                  [] status = "ringing" -> 1
                  [] status \in {"active", "merging"} -> 2
                  [] status \in Over -> 3

\* A late callback, numbered or not, never sets back a call that somebody joined:
\* it does not ring again, and a call that is over keeps the row it ended with.
\* A call that is claimed for a merge before it is answered may still ring.
CallNeverRegresses ==
    [][\A c \in Calls :
         /\ session[c].status \in Over => session'[c] = session[c]
         /\ presence[c].joined # 0 =>
              Rank(session'[c].status) >= Rank(session[c].status)]_callVars

\* Every callback there was reason for; a stream error need not occur.
AllHeard(c) == \A kind \in KindsOf(c) \ {"stream-error"} :
                   Happened(c, kind) => kind \in heard[c]

\* What is recorded of the call is what the provider says of it.
Current(c) ==
    CASE leg[c] = "ringing" -> session[c].status = "ringing"
      [] leg[c] = "up" -> session[c].status = "active" /\ presence[c].joined # 0
      [] leg[c] = "missed" -> session[c].status = "failed" /\ presence[c].joined = 0
      [] leg[c] = "gone" -> session[c].status = "ended" /\ presence[c].joined # 0
      [] OTHER -> TRUE

\* tests/live_call_registry.sql: an out-of-order callback "is audited": what
\* happened can be recorded, whatever was recorded before.
EveryCallbackIsAudited ==
    \A c \in Calls : \A kind \in KindsOf(c) \ heard[c] :
        Happened(c, kind) /\ kind # "stream-error" =>
            Presentable(PresenceAfter(c, StatusOf(c, kind), OccurredAt(kind)))
=============================================================================
