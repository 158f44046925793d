----------------------------- MODULE RealtimeCall ---------------------------
(***************************************************************************)
(* One call of the voice service (gpt-live-poc): the webhook of the        *)
(* provider starts a controller that resolves the caller, accepts the call *)
(* and attaches a socket to the provider's session, the sideband.  What    *)
(* the session reports and what it is told are two ordered streams, so     *)
(* each side acts on a state the other may have left.                      *)
(***************************************************************************)
EXTENDS Integers, Sequences, FiniteSets

CONSTANTS
    Deployments,    \* settings the service may have been started with
    McpCalls,       \* calls of memory tools the model may make
    LocalCalls,     \* calls of functions the service itself has to answer
    MaxTurns        \* bound: turns the caller takes

ASSUME RealtimeAssumption ==
    /\ Deployments \subseteq
         [api : {"live", "realtime"}, graph : BOOLEAN, tools : BOOLEAN,
          invite : BOOLEAN, resume : BOOLEAN, gate : BOOLEAN]
    /\ LocalCalls \cap McpCalls = {}
    /\ MaxTurns \in Nat

VARIABLES
    call,       \* the controller, with the variables of its sideband
    session,    \* the session at the provider
    inbox,      \* events on the way to the sideband
    outbox      \* events on the way to the session

callVars == <<call, session, inbox, outbox>>

-----------------------------------------------------------------------------
D == call.d

\* The opening is spoken with turn detection off.
Guarded == D.api = "realtime" /\ (D.invite \/ D.resume)

\* "partial" is a caller that is recognized without the references a graph needs.
Statuses == {"none", "not_found", "recognized", "partial", "unavailable"}

\* Event of either stream: about a response, a call, or the tools of an update.
Event(kind, id, ok) == [kind |-> kind, id |-> id, ok |-> ok]

CallInit ==
    /\ \E d \in Deployments :
         call = [d |-> d, pc |-> "incoming", status |-> "none",
                 requested |-> FALSE, released |-> "no", deadline |-> FALSE,
                 greeting |-> FALSE, active |-> FALSE, handled |-> {},
                 continued |-> {}, pending |-> {}, followups |-> 0,
                 confirmed |-> FALSE]
    /\ session = [vad |-> TRUE, tools |-> "none", active |-> "none",
                  playing |-> FALSE, greetings |-> 0, turns |-> 0, made |-> {},
                  asked |-> {}, running |-> {}, unspoken |-> {}, answered |-> {}]
    /\ inbox = <<>>
    /\ outbox = <<>>

-----------------------------------------------------------------------------
(* The webhook, the resolution of the caller and the acceptance. *)

\* Any failure of the lookup is an account that is unavailable.
Resolutions == IF D.api = "live" \/ ~D.resume THEN {"not_found"}
               ELSE Statuses \ {"none"}

\* The incoming event is acknowledged at once and the caller resolved meanwhile.
Resolve ==
    /\ call.pc = "incoming"
    /\ \E status \in Resolutions :
         call' = [call EXCEPT !.pc = "accepting", !.status = status]
    /\ UNCHANGED <<session, inbox, outbox>>

Recognized == call.status \in (IF D.graph THEN {"recognized"}
                               ELSE {"recognized", "partial"})

MemoryTools == IF D.tools THEN "memory" ELSE "none"

\* live_session_payload and realtime_call_payload: what the model is offered.
Offered ==
    CASE D.api = "live" -> IF D.tools THEN "read" ELSE "none"
      [] D.api = "realtime" /\ Recognized -> MemoryTools
      [] D.api = "realtime" /\ ~Recognized
           /\ call.status \in {"partial", "unavailable"} -> "none"
      [] D.api = "realtime" /\ call.status = "not_found" ->
           IF D.invite THEN "validate"
           ELSE IF D.graph THEN "none" ELSE MemoryTools

Attaches == Offered # "none" \/ Guarded

\* The call is refused, or accepted with turn detection off if it has an opening;
\* then the sideband is attached, or nothing is left for the controller to do.
Accept ==
    /\ call.pc = "accepting"
    /\ \/ /\ call' = [call EXCEPT !.pc = IF Attaches THEN "connecting" ELSE "ended"]
          /\ session' = [session EXCEPT !.vad = ~Guarded,
                           !.tools = IF D.api = "live" THEN Offered ELSE "none"]
       \/ call' = [call EXCEPT !.pc = "ended"] /\ UNCHANGED session
    /\ UNCHANGED <<inbox, outbox>>

Update(tools) == Event("update", tools, FALSE)

\* Mutant: the opening has no deadline.
ConnectUnbounded ==
    /\ call.pc = "connecting"
    /\ call' = [call EXCEPT !.pc = "attached"]
    /\ outbox' = IF D.api = "live" THEN <<>> ELSE <<Update(Offered)>>
    /\ UNCHANGED <<session, inbox>>

\* The opening is given its deadline and the session its tools.
Connect ==
    /\ call.pc = "connecting"
    /\ call' = [call EXCEPT !.pc = "attached", !.deadline = Guarded]
    /\ outbox' = IF D.api = "live" THEN <<>> ELSE <<Update(Offered)>>
    /\ UNCHANGED <<session, inbox>>

\* An exception ends the controller, and so does the end of the call; the socket is
\* closed, with what is on the way.
Lose == /\ call.pc \in {"connecting", "attached"}
        /\ call' = [call EXCEPT !.pc = "ended"]
        /\ inbox' = <<>> /\ outbox' = <<>>
        /\ UNCHANGED session

-----------------------------------------------------------------------------
(* The sideband. *)

Attached == call.pc = "attached"

\* The event at the head of the stream is of this kind; it is handled in one step.
Receives(kind) ==
    /\ Attached
    /\ inbox # <<>>
    /\ Head(inbox).kind = kind
    /\ inbox' = Tail(inbox)
    /\ UNCHANGED session

Id == Head(inbox).id

Ignored == UNCHANGED <<call, outbox>>

\* release_opening, in the state c the handler is in.
Released(c, reason) ==
    IF c.released # "no" THEN c
    ELSE [c EXCEPT !.released = reason, !.requested = TRUE, !.deadline = FALSE]

\* The greeting is silenced if it must be, and turn detection is switched on.
ReleaseEvents(c, silence) ==
    IF c.released # "no" THEN <<>>
    ELSE (IF silence /\ c.greeting
          THEN (IF c.active THEN <<Event("cancel", "greeting", FALSE)>> ELSE <<>>)
                 \o <<Event("clear", "greeting", FALSE)>>
          ELSE <<>>)
         \o <<Event("listen", "none", FALSE)>>

\* OpeningDeadline.messages: the time is up, whatever events are waiting.
OpeningTimeout ==
    /\ Attached
    /\ call.deadline
    /\ call' = Released(call, "deadline")
    /\ outbox' = outbox \o ReleaseEvents(call, TRUE)
    /\ UNCHANGED <<session, inbox>>

OnSpeechStarted ==
    /\ Receives("speech")
    /\ call' = [call EXCEPT !.followups = 0]
    /\ UNCHANGED outbox

Create(about, tools) == [kind |-> "create", id |-> about, ok |-> tools]

\* The output of a call, and a response to it, with tools or without.
Answer(id, tools) == <<Event("output", id, FALSE), Create({}, tools)>>

\* Mutant: each of the two events that report a call is taken for a call.
OnLocalCallEachTime ==
    /\ Receives("function")
    /\ call' = [call EXCEPT !.handled = @ \cup {Id}]
    /\ outbox' = outbox \o Answer(Id, D.api = "live")

\* A function call is reported twice and handled once.  In a live session the call
\* reads a file; in a realtime session it is answered that there is no such function.
OnLocalCall ==
    /\ Receives("function")
    /\ ~Head(inbox).ok \/ Id \in call.handled
    /\ IF Id \in call.handled THEN Ignored
       ELSE /\ call' = [call EXCEPT !.handled = @ \cup {Id}]
            /\ outbox' = outbox \o Answer(Id, D.api = "live")

\* Mutant: the tools are handed out with any answer of the backend.
OnCodeSpokenAnyhow ==
    /\ Receives("function")
    /\ Head(inbox).ok /\ Id \notin call.handled
    /\ \E status \in {"confirmed", "refused"} :
         /\ call' = [call EXCEPT !.handled = @ \cup {Id},
                                 !.confirmed = @ \/ status = "confirmed"]
         /\ outbox' = outbox \o <<Event("output", Id, FALSE), Update(MemoryTools),
                                  Create({}, FALSE)>>

\* verify_onboarding_code, of a recognized caller too: the backend confirms the code
\* or not.  An exception is not caught here: Lose.
OnCodeSpoken ==
    /\ Receives("function")
    /\ Head(inbox).ok /\ Id \notin call.handled
    /\ \/ /\ D.invite
          /\ call' = [call EXCEPT !.handled = @ \cup {Id}, !.confirmed = TRUE]
          /\ outbox' = outbox \o <<Event("output", Id, FALSE), Update(MemoryTools),
                                   Create({}, FALSE)>>
       \/ /\ call' = [call EXCEPT !.handled = @ \cup {Id}]
          /\ outbox' = outbox \o Answer(Id, FALSE)

\* Mutant: the greeting is asked for until it has begun.
OnSessionUpdatedUntilGreeted ==
    /\ Receives("updated")
    /\ IF Guarded /\ ~call.greeting
       THEN /\ call' = [call EXCEPT !.requested = TRUE]
            /\ outbox' = Append(outbox, Event("greet", "greeting", FALSE))
       ELSE Ignored

\* The first update that is confirmed asks for the greeting.
OnSessionUpdated ==
    /\ Receives("updated")
    /\ IF Guarded /\ ~call.requested
       THEN /\ call' = [call EXCEPT !.requested = TRUE]
            /\ outbox' = Append(outbox, Event("greet", "greeting", FALSE))
       ELSE Ignored

OnResponseCreated ==
    /\ Receives("created")
    /\ call' = [call EXCEPT !.active = TRUE,
                            !.greeting = @ \/ Id = "greeting"]
    /\ UNCHANGED outbox

\* Mutant: the end of any playback releases the opening.
OnAnyPlaybackEnded ==
    /\ Receives("stopped") \/ Receives("created")
    /\ call' = Released(call, "played")
    /\ outbox' = outbox \o ReleaseEvents(call, FALSE)

OnPlaybackEnded ==
    /\ Receives("stopped")
    /\ IF call.greeting /\ Id = "greeting"
       THEN /\ call' = Released(call, "played")
            /\ outbox' = outbox \o ReleaseEvents(call, FALSE)
       ELSE Ignored

MaxFollowups == 3

\* continue_mcp: a response about these results, with tools for a few of them.
ContinueMcp(c, results) ==
    [c EXCEPT !.continued = @ \cup results, !.pending = {},
              !.followups = IF @ < MaxFollowups THEN @ + 1 ELSE @]

Continuation(c, results) == Create(results, c.followups < MaxFollowups)

\* Mutant: results that came during a response are not taken up after it.
OnResponseDoneOnly ==
    /\ Receives("done")
    /\ LET c == [call EXCEPT !.active = FALSE]
           broken == call.greeting /\ Id = "greeting" /\ ~Head(inbox).ok
       IN  /\ call' = IF broken THEN Released(c, "broken") ELSE c
           /\ outbox' = IF broken THEN outbox \o ReleaseEvents(c, TRUE) ELSE outbox

\* A greeting that was cut off will not be played to its end; the results that
\* came during the response are taken up together.
OnResponseDone ==
    /\ Receives("done")
    /\ LET c == [call EXCEPT !.active = FALSE]
           broken == call.greeting /\ Id = "greeting" /\ ~Head(inbox).ok
           e == IF broken THEN Released(c, "broken") ELSE c
           events == IF broken THEN ReleaseEvents(c, TRUE) ELSE <<>>
       IN  IF c.pending = {}
           THEN call' = e /\ outbox' = outbox \o events
           ELSE /\ call' = ContinueMcp(e, c.pending)
                /\ outbox' = outbox \o events \o <<Continuation(e, c.pending)>>

\* A result is reported twice and taken up once, at once or after the response.
OnMcpResult ==
    /\ Receives("mcp")
    /\ IF Id \in call.continued THEN Ignored
       ELSE IF call.active
       THEN call' = [call EXCEPT !.pending = @ \cup {Id}] /\ UNCHANGED outbox
       ELSE /\ call' = [ContinueMcp(call, {Id}) EXCEPT !.pending = call.pending]
            /\ outbox' = Append(outbox, Continuation(call, {Id}))

\* A request is reported twice and answered once: a tool outside the allow list is
\* refused, and the conversation goes on.
OnApprovalRequest ==
    /\ Receives("approval")
    /\ IF Id \in call.handled THEN Ignored
       ELSE /\ call' = [call EXCEPT !.handled = @ \cup {Id}]
            /\ outbox' = outbox \o <<Event("approval", Id, Head(inbox).ok),
                                     Create({}, TRUE)>>

\* An error is logged.
OnError == Receives("error") /\ Ignored

Sideband == \/ OnSpeechStarted \/ OnLocalCall \/ OnCodeSpoken \/ OnSessionUpdated
            \/ OnResponseCreated \/ OnPlaybackEnded \/ OnResponseDone
            \/ OnMcpResult \/ OnApprovalRequest \/ OnError

-----------------------------------------------------------------------------
(* The session at the provider. *)

\* The sideband of a live session looks for function calls only.
Reports(events) ==
    inbox' = inbox \o (IF D.api = "realtime" THEN events ELSE <<>>)

Other(id) == IF id = "greeting" THEN id ELSE "other"

\* A response begins: it can speak of every result there is by now.
Begun(s, response) == [s EXCEPT !.active = response, !.unspoken = {}]

Created(response) == Event("created", Other(response), TRUE)

\* The session takes an event; it has one response at a time.
Obey ==
    /\ Attached
    /\ outbox # <<>>
    /\ outbox' = Tail(outbox)
    /\ UNCHANGED call
    /\ LET e == Head(outbox)
           s == session
       IN  CASE e.kind = "update" ->
                  /\ session' = [s EXCEPT !.tools = e.id]
                  /\ Reports(<<Event("updated", "none", TRUE)>>)
             [] e.kind = "listen" ->
                  /\ session' = [s EXCEPT !.vad = TRUE]
                  /\ Reports(<<Event("updated", "none", TRUE)>>)
             [] e.kind \in {"greet", "create"} /\ s.active # "none" ->
                  UNCHANGED session /\ Reports(<<Event("error", "none", FALSE)>>)
             [] e.kind = "greet" /\ s.active = "none" ->
                  /\ session' = [Begun(s, "greeting") EXCEPT !.playing = TRUE,
                                   !.greetings = @ + 1]
                  /\ Reports(<<Created("greeting")>>)
             [] e.kind = "create" /\ s.active = "none" ->
                  /\ session' = [Begun(s, IF e.ok THEN "reply" ELSE "words")
                                   EXCEPT !.answered = @ \cup e.id]
                  /\ Reports(<<Created("reply")>>)
             [] e.kind = "cancel" ->
                  IF s.active = "greeting"
                  THEN /\ session' = [s EXCEPT !.active = "none"]
                       /\ Reports(<<Event("done", "greeting", FALSE)>>)
                  ELSE UNCHANGED session /\ Reports(<<Event("error", "none", FALSE)>>)
             [] e.kind = "clear" ->
                  /\ session' = [s EXCEPT !.playing = FALSE]
                  /\ Reports(IF s.playing THEN <<Event("stopped", "greeting", TRUE)>>
                             ELSE <<>>)
             [] e.kind = "output" ->
                  /\ session' = [s EXCEPT !.answered = @ \cup {e.id}]
                  /\ Reports(<<>>)
             [] e.kind = "approval" ->
                  /\ session' = [s EXCEPT !.asked = @ \ {e.id},
                                   !.running = IF e.ok THEN @ \cup {e.id} ELSE @]
                  /\ Reports(<<>>)

\* A response ends; one that fails is not heard to its end.
ResponseEnds ==
    /\ Attached
    /\ session.active # "none"
    /\ \E ok \in BOOLEAN :
         /\ ok \/ session.active = "greeting"
         /\ session' = [session EXCEPT !.active = "none", !.playing = @ /\ ok]
         /\ Reports(<<Event("done", Other(session.active), ok)>>)
    /\ UNCHANGED <<call, outbox>>

\* The greeting has been played, and this is reported, or not.
PlaybackEnds ==
    /\ Attached
    /\ session.playing /\ session.active # "greeting"
    /\ session' = [session EXCEPT !.playing = FALSE]
    /\ Reports(<<Event("stopped", "greeting", TRUE)>>) \/ Reports(<<>>)
    /\ UNCHANGED <<call, outbox>>

\* With turn detection the caller interrupts what is spoken and is answered.
CallerSpeaks ==
    /\ Attached
    /\ session.vad
    /\ session.turns < MaxTurns
    /\ session' = [Begun(session, "reply") EXCEPT !.turns = @ + 1, !.playing = FALSE]
    /\ Reports(<<Event("speech", "none", TRUE)>>
               \o (IF session.active = "none" THEN <<>>
                   ELSE <<Event("done", Other(session.active), FALSE)>>)
               \o (IF session.playing THEN <<Event("stopped", "greeting", TRUE)>>
                   ELSE <<>>)
               \o <<Created("reply")>>)
    /\ UNCHANGED <<call, outbox>>

\* The model calls a function, one it is offered or one it made up: that of the
\* enrolment code, or another, which is answered like the code where nobody enrolls.
CallsFunction(f) ==
    /\ Attached
    /\ session.active = "reply"
    /\ f \notin session.made
    /\ D.api = "realtime" \/ session.tools = "read"
    /\ session' = [session EXCEPT !.made = @ \cup {f}]
    /\ \E code \in BOOLEAN :
         LET e == Event("function", f, code)
         IN  /\ code => D.api = "realtime" /\ D.invite
             /\ inbox' = inbox \o (IF D.api = "live" THEN <<e>> ELSE <<e, e>>)
    /\ UNCHANGED <<call, outbox>>

\* The model calls a memory tool, which the provider runs, or asks about first.
CallsMemory(m) ==
    /\ Attached
    /\ session.active = "reply" /\ session.tools = "memory"
    /\ m \notin session.made
    /\ IF D.gate
       THEN /\ session' = [session EXCEPT !.made = @ \cup {m}, !.asked = @ \cup {m}]
            /\ \E allowed \in BOOLEAN :
                 LET e == Event("approval", m, allowed) IN Reports(<<e, e>>)
       ELSE /\ session' = [session EXCEPT !.made = @ \cup {m}, !.running = @ \cup {m}]
            /\ Reports(<<>>)
    /\ UNCHANGED <<call, outbox>>

MemoryAnswers(m) ==
    /\ Attached
    /\ m \in session.running
    /\ session' = [session EXCEPT !.running = @ \ {m}, !.unspoken = @ \cup {m}]
    /\ Reports(<<Event("mcp", m, TRUE), Event("mcp", m, TRUE)>>)
    /\ UNCHANGED <<call, outbox>>

CallNext ==
    \/ Resolve \/ Accept \/ Connect \/ Lose
    \/ OpeningTimeout \/ Sideband
    \/ Obey \/ ResponseEnds \/ PlaybackEnds \/ CallerSpeaks
    \/ \E f \in LocalCalls : CallsFunction(f)
    \/ \E m \in McpCalls : CallsMemory(m) \/ MemoryAnswers(m)

\* The sideband handles what it receives and its clock runs; the session takes
\* what it is sent, and a response ends.
CallFairness ==
    /\ WF_callVars(Sideband) /\ WF_callVars(OpeningTimeout)
    /\ WF_callVars(Obey) /\ WF_callVars(ResponseEnds)

CallSpec == CallInit /\ [][CallNext]_callVars /\ CallFairness

-----------------------------------------------------------------------------
(* Properties. *)

\* The caller is greeted at most once, whichever of the playback, its failure and
\* the deadline ends the opening, and however late the session takes its update.
GreetedAtMostOnce == session.greetings <= 1

\* Noise on the line does not cut off the greeting: the session listens while it is
\* played only because the time for the opening was up.
OpeningUninterrupted ==
    session.vad /\ session.playing => call.released = "deadline"

\* Where callers enroll with a code, the session has the tools of the memory only if
\* the caller was recognized or the backend confirmed the code.
MemoryOnlyForTrusted ==
    D.invite /\ session.tools = "memory" => Recognized \/ call.confirmed

\* The session is given one output per function call and asked for one response per
\* memory result, although it reports both twice and while it speaks of others.
AnsweredOnce ==
    \A x \in LocalCalls \cup McpCalls :
        LET about(e) == \/ e.kind = "output" /\ e.id = x
                        \/ e.kind = "create" /\ x \in e.id
            coming == {i \in DOMAIN outbox : about(outbox[i])}
        IN  Cardinality(coming) + Cardinality(session.answered \cap {x}) <= 1

\* The caller is heard in the end, whichever events of the opening never come.
ListeningRestored == Guarded /\ Attached ~> session.vad \/ call.pc = "ended"

\* A result of the memory is spoken of without the caller having to ask again, also
\* if it comes while something else is being said.
ResultsSpoken ==
    \A m \in McpCalls :
        m \in session.unspoken ~> m \notin session.unspoken \/ call.pc = "ended"
=============================================================================
