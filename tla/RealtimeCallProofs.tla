------------------------- MODULE RealtimeCallProofs -------------------------
(***************************************************************************)
(* The safety properties of a call, for any deployments, any calls of      *)
(* functions and of memory tools, and any number of turns.                 *)
(*                                                                         *)
(* The service and the session only meet in the two streams.  So a step is *)
(* told by what it adds to a stream: what the service may say (Says), what *)
(* the session may do and report (Does), each whatever the other has done  *)
(* meanwhile.  Every handler says and every event of the session does no   *)
(* more than that, and this alone keeps the invariant.                     *)
(***************************************************************************)
EXTENDS RealtimeCall, FiniteSetTheorems, TLAPS

-----------------------------------------------------------------------------
(* Types. *)

Calls == LocalCalls \cup McpCalls

Call == [d : Deployments,
         pc : {"incoming", "accepting", "connecting", "attached", "ended"},
         status : Statuses, requested : BOOLEAN,
         released : {"no", "played", "broken", "deadline"}, deadline : BOOLEAN,
         greeting : BOOLEAN, active : BOOLEAN, handled : SUBSET Calls,
         continued : SUBSET McpCalls, pending : SUBSET McpCalls,
         followups : 0 .. MaxFollowups, confirmed : BOOLEAN]

Tools == {"none", "read", "validate", "memory"}

Session == [vad : BOOLEAN, tools : Tools,
            active : {"none", "greeting", "reply", "words"}, playing : BOOLEAN,
            greetings : 0 .. 1, turns : Nat, made : SUBSET Calls,
            asked : SUBSET McpCalls, running : SUBSET McpCalls,
            unspoken : SUBSET McpCalls, answered : SUBSET Calls]

\* What a session is told: the tools and the calls an event is about.
Told == [kind : {"update"}, id : Tools, ok : {FALSE}]
          \cup [kind : {"listen", "greet", "cancel", "clear"},
                id : {"none", "greeting"}, ok : {FALSE}]
          \cup [kind : {"output"}, id : LocalCalls, ok : {FALSE}]
          \cup [kind : {"create"}, id : SUBSET McpCalls, ok : BOOLEAN]
          \cup [kind : {"approval"}, id : McpCalls, ok : BOOLEAN]

\* What it reports.
Heard == [kind : {"updated", "error", "speech", "created", "done", "stopped"},
          id : {"none", "greeting", "other"}, ok : BOOLEAN]
           \cup [kind : {"function"}, id : LocalCalls, ok : BOOLEAN]
           \cup [kind : {"approval", "mcp"}, id : McpCalls, ok : BOOLEAN]

Typed == /\ call \in Call /\ session \in Session
         /\ inbox \in Seq(Heard) /\ outbox \in Seq(Told)

-----------------------------------------------------------------------------
(* Streams. *)

In(stream, events) == \E i \in DOMAIN stream : stream[i] \in events

Once(stream, events) ==
    \A i, j \in DOMAIN stream : stream[i] \in events /\ stream[j] \in events => i = j

Greets == {e \in Told : e.kind = "greet"}
Listens == {e \in Told : e.kind = "listen"}
Cancels == {e \in Told : e.kind = "cancel"}
Grants == {e \in Told : e.kind = "update" /\ e.id = "memory"}
About(x) == {e \in Told : \/ e.kind = "output" /\ e.id = x
                          \/ e.kind = "create" /\ x \in e.id}

Stops == {e \in Heard : e.kind = "stopped"}
Breaks == {e \in Heard : e.kind = "done" /\ e.id = "greeting" /\ ~e.ok}

-----------------------------------------------------------------------------
(* The inductive invariant. *)

Trusted == D.invite => Recognized \/ call.confirmed

\* Before the sideband is attached nothing has been said.
Stages ==
    /\ call.pc \in {"incoming", "accepting", "connecting"} => outbox = <<>>
    /\ call.pc \in {"incoming", "accepting"} =>
         session.tools = "none" /\ session.greetings = 0 /\ call.released = "no"
    /\ call.pc \in {"incoming", "accepting", "connecting"} =>
         call.released = "no"
    /\ call.pc # "incoming" => call.status # "none"

\* One greeting is asked for, where the opening is guarded.
Greeting ==
    /\ ~call.requested => session.greetings = 0 /\ ~In(outbox, Greets)
    /\ In(outbox, Greets) => session.greetings = 0 /\ Guarded
    /\ Once(outbox, Greets)
    /\ session.greetings = 1 => Guarded
    /\ session.playing \/ session.active = "greeting" => session.greetings = 1

\* The session listens when the opening was released, and that was done because the
\* greeting is over, or the time for it.
Opening ==
    /\ call.pc \in {"connecting", "attached"} /\ Guarded
         /\ (session.vad \/ In(outbox, Listens)) => call.released # "no"
    /\ call.released \in {"played", "broken"} =>
         ~session.playing /\ session.greetings = 1
    /\ In(outbox, Cancels) => call.released = "deadline"
    /\ In(inbox, Stops) => ~session.playing /\ session.greetings = 1
    /\ In(inbox, Breaks) =>
         /\ session.greetings = 1
         /\ ~session.playing \/ call.released = "deadline"
    /\ session.vad /\ session.playing => call.released = "deadline"

Granted == session.tools = "memory" \/ In(outbox, Grants) => Trusted

\* The service remembers what it has spoken of.
Spoken(c, x) == IF x \in LocalCalls THEN x \in c.handled ELSE x \in c.continued

Answers ==
    /\ ~call.active => call.pending = {}
    /\ call.pending \cap call.continued = {}
    /\ \A x \in Calls :
         /\ Once(outbox, About(x))
         /\ In(outbox, About(x)) => Spoken(call, x) /\ x \notin session.answered
         /\ x \in session.answered => Spoken(call, x)

IInv == Typed /\ Stages /\ Greeting /\ Opening /\ Granted /\ Answers

-----------------------------------------------------------------------------
(* Streams lose their first event and grow at their end. *)

\* What is left of a stream was in it.
LEMMA TailFacts ==
  ASSUME NEW S, NEW s \in Seq(S), s # <<>>, NEW E
  PROVE  /\ Head(s) \in S /\ Tail(s) \in Seq(S)
         /\ In(Tail(s), E) => In(s, E)
         /\ Head(s) \in E => In(s, E)
         /\ Once(s, E) => Once(Tail(s), E)
         /\ Once(s, E) /\ Head(s) \in E => ~In(Tail(s), E)
<1> DEFINE t == Tail(s)
<1>1. /\ Head(s) \in S /\ t \in Seq(S) /\ Head(s) = s[1] /\ 1 \in DOMAIN s
      /\ \A i \in DOMAIN t : i + 1 \in DOMAIN s /\ t[i] = s[i + 1] /\ i \in Nat /\ i > 0
  OBVIOUS
<1> HIDE DEF t
<1>2. In(t, E) => In(s, E)
  BY <1>1 DEF In
<1>3. Head(s) \in E => In(s, E)
  BY <1>1 DEF In
<1>4. ASSUME Once(s, E) PROVE Once(t, E)
  <2> SUFFICES ASSUME NEW i \in DOMAIN t, NEW j \in DOMAIN t, t[i] \in E, t[j] \in E
               PROVE  i = j
    BY DEF Once
  <2>1. i + 1 = j + 1
    BY <1>1, <1>4 DEF Once
  <2> QED BY <1>1, <2>1
<1>5. ASSUME Once(s, E), Head(s) \in E, In(t, E) PROVE FALSE
  <2>1. PICK i \in DOMAIN t : t[i] \in E
    BY <1>5 DEF In
  <2>2. i + 1 = 1
    BY <1>1, <1>5, <2>1 DEF Once
  <2> QED BY <1>1, <2>2
<1> QED BY <1>1, <1>2, <1>3, <1>4, <1>5 DEF t

\* What is in a stream that grew was in it or is new.
LEMMA JoinFacts ==
  ASSUME NEW S, NEW s \in Seq(S), NEW t \in Seq(S), NEW E
  PROVE  /\ s \o t \in Seq(S)
         /\ In(s \o t, E) <=> In(s, E) \/ In(t, E)
         /\ Once(s, E) /\ Once(t, E) /\ ~(In(s, E) /\ In(t, E)) => Once(s \o t, E)
<1> DEFINE u == s \o t
<1>1. /\ u \in Seq(S) /\ Len(s) \in Nat
      /\ DOMAIN s = 1 .. Len(s) /\ DOMAIN t = 1 .. Len(t) /\ Len(t) \in Nat
      /\ DOMAIN u = 1 .. Len(s) + Len(t)
      /\ \A i \in DOMAIN s : u[i] = s[i]
      /\ \A i \in DOMAIN t : u[Len(s) + i] = t[i]
  OBVIOUS
<1> HIDE DEF u
<1>2. \A i \in DOMAIN u : \/ i \in DOMAIN s
                          \/ i - Len(s) \in DOMAIN t /\ u[i] = t[i - Len(s)]
  <2> SUFFICES ASSUME NEW i \in DOMAIN u, i \notin DOMAIN s
               PROVE  i - Len(s) \in DOMAIN t /\ u[i] = t[i - Len(s)]
    OBVIOUS
  <2>1. i - Len(s) \in DOMAIN t /\ Len(s) + (i - Len(s)) = i
    BY <1>1
  <2> QED BY <1>1, <2>1
<1>3. In(u, E) <=> In(s, E) \/ In(t, E)
  <2>1. ASSUME In(u, E) PROVE In(s, E) \/ In(t, E)
    BY <1>1, <1>2, <2>1 DEF In
  <2>2. ASSUME In(s, E) PROVE In(u, E)
    BY <1>1, <2>2 DEF In
  <2>3. ASSUME In(t, E) PROVE In(u, E)
    <3>1. PICK i \in DOMAIN t : t[i] \in E
      BY <2>3 DEF In
    <3>2. Len(s) + i \in DOMAIN u
      BY <1>1
    <3> QED BY <1>1, <3>1, <3>2 DEF In
  <2> QED BY <2>1, <2>2, <2>3
<1>4. ASSUME Once(s, E), Once(t, E), ~(In(s, E) /\ In(t, E)) PROVE Once(u, E)
  <2> SUFFICES ASSUME NEW i \in DOMAIN u, NEW j \in DOMAIN u, u[i] \in E, u[j] \in E
               PROVE  i = j
    BY DEF Once
  <2>1. CASE i \in DOMAIN s /\ j \in DOMAIN s
    BY <1>1, <1>4, <2>1 DEF Once
  <2>2. CASE i \notin DOMAIN s /\ j \notin DOMAIN s
    <3>1. i - Len(s) = j - Len(s)
      BY <1>2, <1>4, <2>2 DEF Once
    <3> QED BY <1>1, <3>1
  <2>3. CASE i \in DOMAIN s /\ j \notin DOMAIN s
    BY <1>1, <1>2, <1>4, <2>3 DEF In
  <2>4. CASE i \notin DOMAIN s /\ j \in DOMAIN s
    BY <1>1, <1>2, <1>4, <2>4 DEF In
  <2> QED BY <2>1, <2>2, <2>3, <2>4
<1> QED BY <1>1, <1>3, <1>4 DEF u

\* The empty stream, and one or two events.
LEMMA FewFacts ==
  ASSUME NEW S, NEW E, NEW a \in S, NEW b \in S
  PROVE  /\ <<>> \in Seq(S) /\ ~In(<<>>, E) /\ Once(<<>>, E)
         /\ <<a>> \in Seq(S) /\ (In(<<a>>, E) <=> a \in E) /\ Once(<<a>>, E)
         /\ <<a, b>> \in Seq(S) /\ (In(<<a, b>>, E) <=> a \in E \/ b \in E)
         /\ ~(a \in E /\ b \in E) => Once(<<a, b>>, E)
<1>1. <<>> \in Seq(S) /\ ~In(<<>>, E) /\ Once(<<>>, E)
  BY DEF In, Once
<1>2. <<a>> \in Seq(S) /\ (In(<<a>>, E) <=> a \in E) /\ Once(<<a>>, E)
  <2>1. DOMAIN <<a>> = {1} /\ <<a>>[1] = a
    OBVIOUS
  <2> QED BY <2>1 DEF In, Once
<1>3. /\ <<a, b>> \in Seq(S) /\ (In(<<a, b>>, E) <=> a \in E \/ b \in E)
      /\ ~(a \in E /\ b \in E) => Once(<<a, b>>, E)
  <2>1. DOMAIN <<a, b>> = {1, 2} /\ <<a, b>>[1] = a /\ <<a, b>>[2] = b
    OBVIOUS
  <2>2. <<a, b>> \in Seq(S)
    OBVIOUS
  <2> QED BY <2>1, <2>2 DEF In, Once
<1> QED BY <1>1, <1>2, <1>3

-----------------------------------------------------------------------------
(* What the service may do while it has a sideband: say evs. *)

Consumes == inbox' = inbox \/ (inbox # <<>> /\ inbox' = Tail(inbox))

Says(evs) ==
    /\ evs \in Seq(Told) /\ outbox' = outbox \o evs /\ session' = session /\ Consumes
    /\ call.pc \in {"connecting", "attached"} /\ call'.pc \in {"attached", "ended"}
    /\ call' \in Call /\ call'.d = call.d /\ call'.status = call.status
    /\ call.confirmed => call'.confirmed
    /\ In(evs, Grants) => Trusted'
    /\ call.requested => call'.requested
    /\ In(evs, Greets) => ~call.requested /\ call'.requested /\ Guarded
    /\ Once(evs, Greets)
    /\ \/ call'.released = call.released
       \/ call.released = "no" /\ call'.released = "deadline"
       \/ call.released = "no" /\ ~session.playing /\ session.greetings = 1
    /\ In(evs, Listens) => call'.released # "no"
    /\ In(evs, Cancels) => call'.released = "deadline"
    /\ ~call'.active => call'.pending = {}
    /\ call'.pending \cap call'.continued = {}
    /\ \A x \in Calls : /\ Once(evs, About(x))
                        /\ In(evs, About(x)) => ~Spoken(call, x) /\ Spoken(call', x)
                        /\ Spoken(call, x) => Spoken(call', x)

\* Whatever the service says so, it keeps the invariant.
LEMMA SaysKeeps ==
  ASSUME IInv, NEW evs, Says(evs)
  PROVE  IInv'
<1>1. /\ outbox \in Seq(Told) /\ evs \in Seq(Told) /\ outbox' = outbox \o evs
      /\ session' = session /\ inbox \in Seq(Heard)
  BY DEF IInv, Typed, Says
<1>2. ASSUME NEW E
      PROVE  /\ outbox' \in Seq(Told)
             /\ In(outbox', E) <=> In(outbox, E) \/ In(evs, E)
             /\ Once(outbox, E) /\ Once(evs, E) /\ ~(In(outbox, E) /\ In(evs, E)) =>
                  Once(outbox', E)
  BY <1>1, JoinFacts
<1>3. ASSUME NEW E PROVE inbox' \in Seq(Heard) /\ (In(inbox', E) => In(inbox, E))
  <2>1. CASE inbox' = inbox
    BY <1>1, <2>1
  <2>2. CASE inbox # <<>> /\ inbox' = Tail(inbox)
    BY <1>1, <2>2, TailFacts
  <2> QED BY <2>1, <2>2 DEF Says, Consumes
<1>4. Guarded' = Guarded /\ Recognized' = Recognized /\ D' = D
  BY DEF Says, Guarded, Recognized, D
<1>5. Typed'
  BY <1>1, <1>2, <1>3 DEF IInv, Typed, Says
<1>6. Stages'
  BY DEF Says, Stages, IInv
<1>7. Greeting'
  <2>1. In(outbox, Greets)' <=> In(outbox', Greets)
    BY DEF In, Greets
  <2>2. Once(outbox, Greets)' <=> Once(outbox', Greets)
    BY DEF Once, Greets
  <2>3. ~call'.requested => session.greetings = 0 /\ ~In(outbox', Greets)
    BY <1>2 DEF IInv, Greeting, Says
  <2>4. In(outbox', Greets) => session.greetings = 0 /\ Guarded
    BY <1>2 DEF IInv, Greeting, Says
  <2>5. Once(outbox', Greets)
    BY <1>2 DEF IInv, Greeting, Says
  <2> QED BY <1>1, <1>4, <2>1, <2>2, <2>3, <2>4, <2>5 DEF IInv, Greeting
<1>8. Opening'
  <2>1. /\ In(outbox, Listens)' <=> In(outbox', Listens)
        /\ In(outbox, Cancels)' <=> In(outbox', Cancels)
        /\ In(inbox, Stops)' <=> In(inbox', Stops)
        /\ In(inbox, Breaks)' <=> In(inbox', Breaks)
    BY DEF In, Listens, Cancels, Stops, Breaks
  <2>2. /\ call.released # "no" => call'.released = call.released
        /\ call'.released \in {"played", "broken"} /\ call.released = "no" =>
             ~session.playing /\ session.greetings = 1
    BY DEF Says
  <2>3. call'.pc \in {"connecting", "attached"} /\ Guarded
          /\ (session.vad \/ In(outbox', Listens)) => call'.released # "no"
    BY <1>2, <2>2 DEF IInv, Opening, Says
  <2>4. call'.released \in {"played", "broken"} =>
          ~session.playing /\ session.greetings = 1
    BY <2>2 DEF IInv, Opening
  <2>5. In(outbox', Cancels) => call'.released = "deadline"
    BY <1>2, <2>2 DEF IInv, Opening, Says
  <2>6. In(inbox', Stops) => ~session.playing /\ session.greetings = 1
    BY <1>3 DEF IInv, Opening
  <2>7. In(inbox', Breaks) => /\ session.greetings = 1
                              /\ ~session.playing \/ call'.released = "deadline"
    BY <1>3, <2>2 DEF IInv, Opening
  <2>8. session.vad /\ session.playing => call'.released = "deadline"
    BY <2>2 DEF IInv, Opening
  <2> QED BY <1>1, <1>4, <2>1, <2>3, <2>4, <2>5, <2>6, <2>7, <2>8 DEF Opening
<1>9. Granted'
  <2>1. In(outbox, Grants)' <=> In(outbox', Grants)
    BY DEF In, Grants
  <2>2. Trusted => Trusted'
    BY <1>4 DEF Trusted, Says
  <2> QED BY <1>1, <1>2, <2>1, <2>2 DEF IInv, Granted, Says
<1>10. Answers'
  <2>1. ASSUME NEW x \in Calls
        PROVE  /\ Once(outbox, About(x))'
               /\ In(outbox, About(x))' => Spoken(call, x)' /\ x \notin session'.answered
               /\ x \in session'.answered => Spoken(call, x)'
    <3>1. /\ Once(outbox, About(x))' <=> Once(outbox', About(x))
          /\ In(outbox, About(x))' <=> In(outbox', About(x))
          /\ Spoken(call, x)' <=> Spoken(call', x)
      BY DEF Once, In, About, Spoken
    <3>2. /\ Once(evs, About(x))
          /\ In(evs, About(x)) => ~Spoken(call, x) /\ Spoken(call', x)
          /\ Spoken(call, x) => Spoken(call', x)
      BY DEF Says
    <3>3. /\ Once(outbox, About(x))
          /\ In(outbox, About(x)) => Spoken(call, x) /\ x \notin session.answered
          /\ x \in session.answered => Spoken(call, x)
      BY DEF IInv, Answers
    <3> QED BY <1>1, <1>2, <3>1, <3>2, <3>3
  <2> QED BY <2>1 DEF Answers, Says
<1> QED BY <1>5, <1>6, <1>7, <1>8, <1>9, <1>10 DEF IInv

-----------------------------------------------------------------------------
(* What the session may do: take the next event it is sent, or none, and report *)
(* evs. *)

Takes(E) == outbox # <<>> /\ Head(outbox) \in E /\ outbox' = Tail(outbox)

Does(evs) ==
    /\ evs \in Seq(Heard) /\ inbox' = inbox \o evs /\ call' = call
    /\ call.pc = "attached" /\ session' \in Session
    /\ outbox' = outbox \/ (outbox # <<>> /\ outbox' = Tail(outbox))
    /\ \/ /\ session'.greetings = session.greetings
          /\ session'.playing => session.playing
          /\ session'.active = "greeting" => session.active = "greeting"
       \/ Takes(Greets) /\ session'.greetings = 1
    /\ session'.tools = "memory" => session.tools = "memory" \/ Takes(Grants)
    /\ session'.vad => session.vad \/ Takes(Listens)
    /\ In(evs, Stops) => session.playing /\ ~session'.playing
    /\ In(evs, Breaks) => /\ session.active = "greeting"
                          /\ ~session'.playing \/ Takes(Cancels)
    /\ \A x \in session'.answered : x \in session.answered \/ Takes(About(x))

\* Whatever the session does so, it keeps the invariant.
LEMMA DoesKeeps ==
  ASSUME IInv, NEW evs, Does(evs)
  PROVE  IInv'
<1>1. /\ outbox \in Seq(Told) /\ evs \in Seq(Heard) /\ inbox' = inbox \o evs
      /\ call' = call /\ inbox \in Seq(Heard) /\ call.pc = "attached"
  BY DEF IInv, Typed, Does
<1>2. ASSUME NEW E
      PROVE  /\ inbox' \in Seq(Heard)
             /\ In(inbox', E) <=> In(inbox, E) \/ In(evs, E)
  BY <1>1, JoinFacts
<1>3. ASSUME NEW E
      PROVE  /\ outbox' \in Seq(Told)
             /\ In(outbox', E) => In(outbox, E)
             /\ Once(outbox, E) => Once(outbox', E)
             /\ Takes(E) => In(outbox, E)
             /\ Takes(E) /\ Once(outbox, E) => ~In(outbox', E)
  <2>1. CASE outbox = <<>>
    BY <1>1, <2>1 DEF Takes, Does
  <2>2. CASE outbox # <<>>
    <3>1. /\ Tail(outbox) \in Seq(Told)
          /\ In(Tail(outbox), E) => In(outbox, E)
          /\ Head(outbox) \in E => In(outbox, E)
          /\ Once(outbox, E) => Once(Tail(outbox), E)
          /\ Once(outbox, E) /\ Head(outbox) \in E => ~In(Tail(outbox), E)
      BY <1>1, <2>2, TailFacts
    <3> QED BY <1>1, <2>2, <3>1 DEF Takes, Does
  <2> QED BY <2>1, <2>2
<1>4. Guarded' = Guarded /\ Recognized' = Recognized /\ D' = D /\ Trusted' = Trusted
  BY <1>1 DEF Guarded, Recognized, D, Trusted
<1>5. Typed'
  BY <1>1, <1>2, <1>3 DEF IInv, Typed, Does
<1>6. Stages'
  BY <1>1 DEF Stages, IInv
<1>a. /\ session.greetings \in 0 .. 1
      /\ \/ /\ session'.greetings = session.greetings
            /\ session'.playing => session.playing
            /\ session'.active = "greeting" => session.active = "greeting"
         \/ Takes(Greets) /\ session'.greetings = 1
  BY DEF Does, IInv, Typed, Session
<1>b. Takes(Greets) =>
        /\ In(outbox, Greets) /\ ~In(outbox', Greets) /\ Guarded
        /\ call.requested /\ session.greetings = 0
  BY <1>3 DEF IInv, Greeting
<1>7. Greeting'
  <2>1. In(outbox, Greets)' <=> In(outbox', Greets)
    BY DEF In, Greets
  <2>2. Once(outbox, Greets)' <=> Once(outbox', Greets)
    BY DEF Once, Greets
  <2>3. ~call.requested => session'.greetings = 0 /\ ~In(outbox', Greets)
    BY <1>3, <1>a, <1>b DEF IInv, Greeting
  <2>4. In(outbox', Greets) => session'.greetings = 0 /\ Guarded
    BY <1>3, <1>a, <1>b DEF IInv, Greeting
  <2>5. Once(outbox', Greets)
    BY <1>3 DEF IInv, Greeting
  <2>6. /\ session'.greetings = 1 => Guarded
        /\ session'.playing \/ session'.active = "greeting" => session'.greetings = 1
    BY <1>a, <1>b DEF IInv, Greeting
  <2> QED BY <1>1, <1>4, <2>1, <2>2, <2>3, <2>4, <2>5, <2>6 DEF Greeting
<1>8. Opening'
  <2>1. /\ In(outbox, Listens)' <=> In(outbox', Listens)
        /\ In(outbox, Cancels)' <=> In(outbox', Cancels)
        /\ In(inbox, Stops)' <=> In(inbox', Stops)
        /\ In(inbox, Breaks)' <=> In(inbox', Breaks)
    BY DEF In, Listens, Cancels, Stops, Breaks
  <2>2. Guarded /\ (session.vad \/ In(outbox, Listens)) => call.released # "no"
    BY <1>1 DEF IInv, Opening
  <2>3. Guarded /\ (session'.vad \/ In(outbox', Listens)) => call.released # "no"
    BY <1>3, <2>2 DEF Does
  <2>4. call.released \in {"played", "broken"} =>
          ~session'.playing /\ session'.greetings = 1
    BY <1>a, <1>b DEF IInv, Opening
  <2>5. In(outbox', Cancels) => call.released = "deadline"
    BY <1>3 DEF IInv, Opening
  <2>6. In(inbox', Stops) => ~session'.playing /\ session'.greetings = 1
    <3>1. CASE In(inbox, Stops)
      BY <1>a, <1>b, <3>1 DEF IInv, Opening
    <3>2. CASE In(evs, Stops)
      BY <1>a, <3>2 DEF IInv, Greeting, Does
    <3> QED BY <1>2, <3>1, <3>2
  <2>7. In(inbox', Breaks) => /\ session'.greetings = 1
                              /\ ~session'.playing \/ call.released = "deadline"
    <3>1. CASE In(inbox, Breaks)
      BY <1>a, <1>b, <3>1 DEF IInv, Opening
    <3>2. CASE In(evs, Breaks)
      <4>1. session'.greetings = 1
        BY <1>a, <3>2 DEF IInv, Greeting, Does
      <4>2. Takes(Cancels) => call.released = "deadline"
        BY <1>3 DEF IInv, Opening
      <4> QED BY <3>2, <4>1, <4>2 DEF Does
    <3> QED BY <1>2, <3>1, <3>2
  <2>8. session'.vad /\ session'.playing => call.released = "deadline"
    <3> SUFFICES ASSUME session'.vad, session'.playing, call.released # "deadline"
                 PROVE  FALSE
      OBVIOUS
    <3>1. call.released \in {"no", "played", "broken", "deadline"}
      BY DEF IInv, Typed, Call
    <3>2. Guarded
      BY <1>a, <1>b DEF IInv, Greeting
    <3> QED BY <2>3, <2>4, <3>1, <3>2
  <2> QED BY <1>1, <1>4, <2>1, <2>3, <2>4, <2>5, <2>6, <2>7, <2>8 DEF Opening
<1>9. Granted'
  <2>1. In(outbox, Grants)' <=> In(outbox', Grants)
    BY DEF In, Grants
  <2> QED BY <1>3, <1>4, <2>1 DEF IInv, Granted, Does
<1>10. Answers'
  <2>1. ASSUME NEW x \in Calls
        PROVE  /\ Once(outbox, About(x))'
               /\ In(outbox, About(x))' => Spoken(call, x)' /\ x \notin session'.answered
               /\ x \in session'.answered => Spoken(call, x)'
    <3>1. /\ Once(outbox, About(x))' <=> Once(outbox', About(x))
          /\ In(outbox, About(x))' <=> In(outbox', About(x))
          /\ Spoken(call, x)' <=> Spoken(call, x)
      BY <1>1 DEF Once, In, About, Spoken
    <3>2. /\ Once(outbox, About(x))
          /\ In(outbox, About(x)) => Spoken(call, x) /\ x \notin session.answered
          /\ x \in session.answered => Spoken(call, x)
      BY DEF IInv, Answers
    <3>3. x \in session'.answered => x \in session.answered \/ Takes(About(x))
      BY DEF Does
    <3> QED BY <1>3, <3>1, <3>2, <3>3
  <2> QED BY <1>1, <2>1 DEF Answers, IInv
<1> QED BY <1>5, <1>6, <1>7, <1>8, <1>9, <1>10 DEF IInv

-----------------------------------------------------------------------------
(* The handlers of the service say no more than that. *)

\* The event at the head of the stream, and what follows from its kind.
LEMMA HeadFacts ==
  ASSUME IInv, NEW kind, Receives(kind)
  PROVE  /\ Consumes /\ session' = session /\ call.pc = "attached"
         /\ call \in Call /\ Head(inbox).kind = kind
         /\ kind = "function" => Id \in LocalCalls
         /\ kind \in {"mcp", "approval"} => Id \in McpCalls
         /\ Head(inbox).ok \in BOOLEAN
         /\ kind = "stopped" => ~session.playing /\ session.greetings = 1
         /\ kind = "done" /\ Id = "greeting" /\ ~Head(inbox).ok =>
              /\ session.greetings = 1
              /\ ~session.playing \/ call.released = "deadline"
<1> DEFINE e == Head(inbox)
<1>1. /\ inbox # <<>> /\ inbox' = Tail(inbox) /\ session' = session
      /\ call.pc = "attached" /\ e.kind = kind
  BY DEF Receives, Attached
<1>2. inbox \in Seq(Heard) /\ call \in Call
  BY DEF IInv, Typed
<1>3. /\ e \in Heard
      /\ e \in Stops => In(inbox, Stops)
      /\ e \in Breaks => In(inbox, Breaks)
  BY <1>1, <1>2, TailFacts
<1>4. Id = e.id
  BY DEF Id
<1> HIDE DEF e
<1>5. /\ kind = "function" => e.id \in LocalCalls
      /\ kind \in {"mcp", "approval"} => e.id \in McpCalls
      /\ e.ok \in BOOLEAN
  BY <1>1, <1>3 DEF Heard
<1>6. kind = "stopped" => ~session.playing /\ session.greetings = 1
  BY <1>1, <1>3 DEF Stops, IInv, Opening
<1>7. kind = "done" /\ e.id = "greeting" /\ ~e.ok =>
        /\ session.greetings = 1
        /\ ~session.playing \/ call.released = "deadline"
  BY <1>1, <1>3 DEF Breaks, IInv, Opening
<1> QED BY <1>1, <1>2, <1>4, <1>5, <1>6, <1>7 DEF Consumes, e

\* A step that says nothing and only takes notes.
LEMMA QuietSays ==
  ASSUME IInv, Consumes, session' = session, outbox' = outbox,
         call.pc \in {"connecting", "attached"}, call'.pc \in {"attached", "ended"},
         call' \in Call, call'.d = call.d, call'.status = call.status,
         call'.confirmed = call.confirmed, call'.requested = call.requested,
         call'.released = call.released, call'.continued = call.continued,
         call'.handled = call.handled,
         ~call'.active => call'.pending = {},
         call'.pending \cap call'.continued = {}
  PROVE  Says(<<>>)
<1>1. <<>> \in Seq(Told) /\ outbox' = outbox \o <<>>
  BY DEF IInv, Typed
<1>2. ASSUME NEW E PROVE ~In(<<>>, E) /\ Once(<<>>, E)
  BY DEF In, Once
<1>3. \A x \in Calls : Spoken(call', x) <=> Spoken(call, x)
  BY DEF Spoken
<1> QED BY <1>1, <1>2, <1>3 DEF Says

\* An event nobody is interested in.
LEMMA IgnoredSays ==
  ASSUME IInv, NEW kind, Receives(kind), Ignored
  PROVE  Says(<<>>)
<1>1. /\ Consumes /\ session' = session /\ call.pc = "attached" /\ call \in Call
  BY HeadFacts
<1>2. call' = call /\ outbox' = outbox
  BY DEF Ignored
<1>3. (~call.active => call.pending = {}) /\ call.pending \cap call.continued = {}
  BY DEF IInv, Answers
<1> QED BY <1>1, <1>2, <1>3, QuietSays

\* The caller began to speak, or a response did.
LEMMA NotedSays ==
  ASSUME IInv, OnSpeechStarted \/ OnResponseCreated
  PROVE  Says(<<>>)
<1>1. call \in Call /\ call.pending \cap call.continued = {}
      /\ (~call.active => call.pending = {})
  BY DEF IInv, Typed, Answers
<1>2. CASE OnSpeechStarted
  <2>1. /\ Consumes /\ session' = session /\ call.pc = "attached"
    BY <1>2, HeadFacts DEF OnSpeechStarted
  <2>2. call' = [call EXCEPT !.followups = 0] /\ outbox' = outbox
    BY <1>2 DEF OnSpeechStarted
  <2>3. /\ call' \in Call /\ call'.d = call.d /\ call'.status = call.status
        /\ call'.confirmed = call.confirmed /\ call'.requested = call.requested
        /\ call'.released = call.released /\ call'.continued = call.continued
        /\ call'.handled = call.handled /\ call'.pending = call.pending
        /\ call'.active = call.active /\ call'.pc = call.pc
    BY <1>1, <2>2 DEF Call, MaxFollowups
  <2> QED BY <1>1, <2>1, <2>2, <2>3, QuietSays
<1>3. CASE OnResponseCreated
  <2>1. /\ Consumes /\ session' = session /\ call.pc = "attached"
    BY <1>3, HeadFacts DEF OnResponseCreated
  <2>2. /\ call' = [call EXCEPT !.active = TRUE, !.greeting = @ \/ Id = "greeting"]
        /\ outbox' = outbox
    BY <1>3 DEF OnResponseCreated
  <2>3. /\ call' \in Call /\ call'.d = call.d /\ call'.status = call.status
        /\ call'.confirmed = call.confirmed /\ call'.requested = call.requested
        /\ call'.released = call.released /\ call'.continued = call.continued
        /\ call'.handled = call.handled /\ call'.pending = call.pending
        /\ call'.active /\ call'.pc = call.pc
    BY <1>1, <2>2 DEF Call
  <2> QED BY <1>1, <2>1, <2>2, <2>3, QuietSays
<1> QED BY <1>2, <1>3

\* The socket is lost, with what is on the way.
LEMMA LoseKeeps ==
  ASSUME IInv, Lose
  PROVE  IInv'
<1>1. /\ call \in Call /\ session \in Session
      /\ call.pc \in {"connecting", "attached"} /\ session' = session
      /\ outbox' = <<>> /\ inbox' = <<>> /\ call' = [call EXCEPT !.pc = "ended"]
  BY DEF IInv, Typed, Lose
<1>2. /\ call' \in Call /\ call'.d = call.d /\ call'.status = call.status
      /\ call'.confirmed = call.confirmed /\ call'.requested = call.requested
      /\ call'.released = call.released /\ call'.continued = call.continued
      /\ call'.handled = call.handled /\ call'.pending = call.pending
      /\ call'.active = call.active /\ call'.pc = "ended"
  BY <1>1 DEF Call
<1>3. ASSUME NEW E PROVE ~In(outbox', E) /\ ~In(inbox', E) /\ Once(outbox', E)
  BY <1>1 DEF In, Once
<1>4. Typed'
  BY <1>1, <1>2 DEF Typed
<1>5. Stages'
  BY <1>1, <1>2 DEF IInv, Stages
<1>6. Guarded' = Guarded
  BY <1>2 DEF Guarded, D
<1>7. Greeting'
  BY <1>1, <1>2, <1>3, <1>6 DEF IInv, Greeting
<1>8. Opening'
  BY <1>1, <1>2, <1>3 DEF IInv, Opening
<1>9. Trusted' = Trusted
  BY <1>2 DEF Trusted, Recognized, D
<1>10. Granted'
  BY <1>1, <1>3, <1>9 DEF IInv, Granted
<1>11. \A x : Spoken(call', x) <=> Spoken(call, x)
  BY <1>2 DEF Spoken
<1>12. Answers'
  BY <1>1, <1>2, <1>3, <1>11 DEF IInv, Answers
<1> QED BY <1>4, <1>5, <1>7, <1>8, <1>10, <1>12 DEF IInv

\* The events there are, and what they are taken for.
LEMMA EventFacts ==
  /\ \A f \in LocalCalls : LET e == Event("output", f, FALSE)
                           IN  /\ e \in Told /\ e.kind = "output" /\ e.id = f
  /\ \A M \in SUBSET McpCalls, b \in BOOLEAN :
       Create(M, b) \in Told /\ Create(M, b).kind = "create" /\ Create(M, b).id = M
  /\ \A m \in McpCalls, b \in BOOLEAN :
       Event("approval", m, b) \in Told /\ Event("approval", m, b).kind = "approval"
  /\ \A t \in Tools : Update(t) \in Told /\ Update(t).kind = "update" /\ Update(t).id = t
  /\ Event("greet", "greeting", FALSE) \in Greets
  /\ Event("cancel", "greeting", FALSE) \in Cancels
  /\ Event("listen", "none", FALSE) \in Listens
  /\ LET e == Event("clear", "greeting", FALSE) IN e \in Told /\ e.kind = "clear"
BY DEF Event, Create, Update, Told, Greets, Cancels, Listens

\* A stream grows by one event.
LEMMA AppendFact ==
  ASSUME NEW S, NEW s \in Seq(S), NEW a \in S
  PROVE  Append(s, a) = s \o <<a>>
OBVIOUS

\* Three events.
LEMMA ThreeFact ==
  ASSUME NEW S, NEW a \in S, NEW b \in S, NEW c \in S
  PROVE  <<a, b, c>> = <<a>> \o <<b, c>>
OBVIOUS

\* Joining is associative.
LEMMA AssocFact ==
  ASSUME NEW S, NEW s \in Seq(S), NEW t \in Seq(S), NEW u \in Seq(S)
  PROVE  (s \o t) \o u = s \o (t \o u)
OBVIOUS

\* An event is of one kind.
LEMMA KindFacts ==
  ASSUME NEW e \in Told
  PROVE  /\ e \in Greets <=> e.kind = "greet"
         /\ e \in Listens <=> e.kind = "listen"
         /\ e \in Cancels <=> e.kind = "cancel"
         /\ e \in Grants <=> e.kind = "update" /\ e.id = "memory"
         /\ \A x : e \in About(x) <=> \/ e.kind = "output" /\ e.id = x
                                      \/ e.kind = "create" /\ x \in e.id
BY DEF Greets, Listens, Cancels, Grants, About

\* What is not in a stream is not there twice.
LEMMA NoneOnce == ASSUME NEW s, NEW E, ~In(s, E) PROVE Once(s, E)
BY DEF In, Once

\* Asking for the greeting.
LEMMA SessionUpdatedSays ==
  ASSUME IInv, OnSessionUpdated
  PROVE  \E evs : Says(evs)
<1>1. /\ Receives("updated")
      /\ \/ Ignored
         \/ /\ Guarded /\ ~call.requested
            /\ call' = [call EXCEPT !.requested = TRUE]
            /\ outbox' = Append(outbox, Event("greet", "greeting", FALSE))
  BY DEF OnSessionUpdated
<1>2. CASE Ignored
  BY <1>1, <1>2, IgnoredSays
<1>3. CASE /\ Guarded /\ ~call.requested
           /\ call' = [call EXCEPT !.requested = TRUE]
           /\ outbox' = Append(outbox, Event("greet", "greeting", FALSE))
  <2> DEFINE g == Event("greet", "greeting", FALSE)
  <2>1. g \in Told /\ g.kind = "greet"
    BY EventFacts DEF Greets
  <2>2. outbox' = outbox \o <<g>>
    <3>1. outbox \in Seq(Told)
      BY DEF IInv, Typed
    <3>2. Append(outbox, g) = outbox \o <<g>>
      BY <2>1, <3>1, AppendFact
    <3> QED BY <1>3, <3>2
  <2> HIDE DEF g
  <2>3. ASSUME NEW E PROVE /\ <<g>> \in Seq(Told) /\ (In(<<g>>, E) <=> g \in E)
                           /\ Once(<<g>>, E)
    BY <2>1, FewFacts
  <2>4. /\ g \notin Listens /\ g \notin Cancels /\ g \notin Grants
        /\ \A x : g \notin About(x)
    BY <2>1, KindFacts
  <2>5. /\ Consumes /\ session' = session /\ call.pc = "attached" /\ call \in Call
    BY <1>1, HeadFacts
  <2>6. /\ call' \in Call /\ call'.d = call.d /\ call'.status = call.status
        /\ call'.confirmed = call.confirmed /\ call'.requested
        /\ call'.released = call.released /\ call'.continued = call.continued
        /\ call'.handled = call.handled /\ call'.pending = call.pending
        /\ call'.active = call.active /\ call'.pc = call.pc
    BY <1>3, <2>5 DEF Call
  <2>7. /\ call.pending \cap call.continued = {}
        /\ (~call.active => call.pending = {})
    BY DEF IInv, Answers
  <2>8. \A x \in Calls : Spoken(call', x) <=> Spoken(call, x)
    BY <2>6 DEF Spoken
  <2>9. Says(<<g>>)
    BY <1>3, <2>2, <2>3, <2>4, <2>5, <2>6, <2>7, <2>8 DEF Says
  <2> QED BY <2>9
<1> QED BY <1>1, <1>2, <1>3

\* A call is answered with its output and a response about nothing in particular.
LEMMA AnswerFacts ==
  ASSUME NEW f \in LocalCalls, NEW b \in BOOLEAN
  PROVE  /\ Answer(f, b) \in Seq(Told)
         /\ ~In(Answer(f, b), Greets) /\ ~In(Answer(f, b), Listens)
         /\ ~In(Answer(f, b), Cancels) /\ ~In(Answer(f, b), Grants)
         /\ \A x : /\ In(Answer(f, b), About(x)) <=> x = f
                   /\ Once(Answer(f, b), About(x))
<1> DEFINE o == Event("output", f, FALSE)
           c == Create({}, b)
<1>1. /\ o \in Told /\ o.kind = "output" /\ o.id = f
      /\ c \in Told /\ c.kind = "create" /\ c.id = {}
  BY EventFacts
<1>2. Answer(f, b) = <<o, c>>
  BY DEF Answer
<1> HIDE DEF o, c
<1>3. ASSUME NEW E
      PROVE  /\ <<o, c>> \in Seq(Told) /\ (In(<<o, c>>, E) <=> o \in E \/ c \in E)
             /\ ~(o \in E /\ c \in E) => Once(<<o, c>>, E)
  BY <1>1, FewFacts
<1>4. /\ o \notin Greets /\ o \notin Listens /\ o \notin Cancels /\ o \notin Grants
      /\ c \notin Greets /\ c \notin Listens /\ c \notin Cancels /\ c \notin Grants
      /\ \A x : (o \in About(x) <=> x = f) /\ c \notin About(x)
  BY <1>1, KindFacts
<1> QED BY <1>2, <1>3, <1>4

\* The output of a function that was not answered before.
LEMMA AnswerSays ==
  ASSUME IInv, NEW f \in LocalCalls, f \notin call.handled, NEW b \in BOOLEAN,
         Consumes, session' = session, call.pc = "attached",
         call' = [call EXCEPT !.handled = @ \cup {f}],
         outbox' = outbox \o Answer(f, b)
  PROVE  Says(Answer(f, b))
<1>1. /\ call \in Call /\ call.pending \cap call.continued = {}
      /\ (~call.active => call.pending = {})
  BY DEF IInv, Typed, Answers
<1>2. /\ call' \in Call /\ call'.d = call.d /\ call'.status = call.status
      /\ call'.confirmed = call.confirmed /\ call'.requested = call.requested
      /\ call'.released = call.released /\ call'.continued = call.continued
      /\ call'.handled = call.handled \cup {f} /\ call'.pending = call.pending
      /\ call'.active = call.active /\ call'.pc = call.pc
  BY <1>1 DEF Call, Calls
<1>3. /\ \A x \in Calls : Spoken(call, x) => Spoken(call', x)
      /\ ~Spoken(call, f) /\ Spoken(call', f)
  BY <1>2 DEF Spoken
<1>4. /\ Answer(f, b) \in Seq(Told)
      /\ ~In(Answer(f, b), Greets) /\ ~In(Answer(f, b), Listens)
      /\ ~In(Answer(f, b), Cancels) /\ ~In(Answer(f, b), Grants)
      /\ \A x : /\ In(Answer(f, b), About(x)) <=> x = f
                /\ Once(Answer(f, b), About(x))
  BY AnswerFacts
<1>5. Once(Answer(f, b), Greets)
  BY <1>4, NoneOnce
<1> DEFINE evs == Answer(f, b)
<1> HIDE DEF evs
<1> QED BY <1>1, <1>2, <1>3, <1>4, <1>5 DEF Says

\* A function is called that is not the verification of a code.
LEMMA LocalCallSays ==
  ASSUME IInv, OnLocalCall
  PROVE  \E evs : Says(evs)
<1>1. /\ Receives("function")
      /\ \/ Id \in call.handled /\ Ignored
         \/ /\ Id \notin call.handled
            /\ call' = [call EXCEPT !.handled = @ \cup {Id}]
            /\ outbox' = outbox \o Answer(Id, D.api = "live")
  BY DEF OnLocalCall
<1>2. CASE Ignored
  BY <1>1, <1>2, IgnoredSays
<1>3. CASE /\ Id \notin call.handled
           /\ call' = [call EXCEPT !.handled = @ \cup {Id}]
           /\ outbox' = outbox \o Answer(Id, D.api = "live")
  <2>1. Consumes /\ session' = session /\ call.pc = "attached" /\ Id \in LocalCalls
    BY <1>1, HeadFacts
  <2>2. (D.api = "live") \in BOOLEAN
    OBVIOUS
  <2>3. Says(Answer(Id, D.api = "live"))
    BY <1>3, <2>1, <2>2, AnswerSays
  <2> QED BY <2>3
<1> QED BY <1>1, <1>2, <1>3

\* A code is verified: the tools of the memory are handed out when it is confirmed.
LEMMA CodeSpokenSays ==
  ASSUME IInv, OnCodeSpoken
  PROVE  \E evs : Says(evs)
<1>1. /\ Receives("function") /\ Id \notin call.handled
      /\ \/ /\ D.invite
            /\ call' = [call EXCEPT !.handled = @ \cup {Id}, !.confirmed = TRUE]
            /\ outbox' = outbox \o <<Event("output", Id, FALSE), Update(MemoryTools),
                                     Create({}, FALSE)>>
         \/ /\ call' = [call EXCEPT !.handled = @ \cup {Id}]
            /\ outbox' = outbox \o Answer(Id, FALSE)
  BY DEF OnCodeSpoken
<1>2. /\ Consumes /\ session' = session /\ call.pc = "attached" /\ Id \in LocalCalls
      /\ call \in Call /\ call.pending \cap call.continued = {}
      /\ (~call.active => call.pending = {})
  BY <1>1, HeadFacts DEF IInv, Answers
<1>3. ASSUME call' = [call EXCEPT !.handled = @ \cup {Id}, !.confirmed = TRUE],
             outbox' = outbox \o <<Event("output", Id, FALSE), Update(MemoryTools),
                                   Create({}, FALSE)>>
      PROVE  \E evs : Says(evs)
  <2> DEFINE id == Id
             o == Event("output", Id, FALSE)
             u == Update(MemoryTools)
             c == Create({}, FALSE)
             evs == <<o>> \o <<u, c>>
  <2>1. /\ o \in Told /\ o.kind = "output" /\ o.id = Id
        /\ u \in Told /\ u.kind = "update"
        /\ c \in Told /\ c.kind = "create" /\ c.id = {}
    BY <1>2, EventFacts DEF MemoryTools, Tools
  <2>2. <<o, u, c>> = <<o>> \o <<u, c>>
    BY <2>1, ThreeFact
  <2>3. outbox' = outbox \o evs
    BY <1>3, <2>2
  <2>4. call' = [call EXCEPT !.handled = @ \cup {id}, !.confirmed = TRUE]
    BY <1>3
  <2>5. id \in LocalCalls /\ id \notin call.handled /\ o.id = id
    BY <1>1, <1>2, <2>1
  <2> HIDE DEF o, u, c, id
  <2>6. ASSUME NEW E
        PROVE  /\ <<o>> \in Seq(Told) /\ (In(<<o>>, E) <=> o \in E) /\ Once(<<o>>, E)
               /\ <<u, c>> \in Seq(Told) /\ (In(<<u, c>>, E) <=> u \in E \/ c \in E)
               /\ ~(u \in E /\ c \in E) => Once(<<u, c>>, E)
    BY <2>1, FewFacts
  <2>7. ASSUME NEW E
        PROVE  /\ evs \in Seq(Told) /\ (In(evs, E) <=> o \in E \/ u \in E \/ c \in E)
               /\ ~(o \in E /\ u \in E) /\ ~(o \in E /\ c \in E) /\ ~(u \in E /\ c \in E)
                    => Once(evs, E)
    BY <2>6, JoinFacts
  <2> HIDE DEF evs
  <2>8. /\ o \notin Greets /\ o \notin Listens /\ o \notin Cancels /\ o \notin Grants
        /\ c \notin Greets /\ c \notin Listens /\ c \notin Cancels /\ c \notin Grants
        /\ u \notin Greets /\ u \notin Listens /\ u \notin Cancels
        /\ \A x : (o \in About(x) <=> x = id) /\ c \notin About(x) /\ u \notin About(x)
    BY <2>1, <2>5, KindFacts
  <2>9. /\ ~In(evs, Greets) /\ ~In(evs, Listens) /\ ~In(evs, Cancels)
        /\ Once(evs, Greets)
        /\ \A x : Once(evs, About(x)) /\ (In(evs, About(x)) <=> x = id)
    BY <2>7, <2>8
  <2>10. /\ call' \in Call /\ call'.d = call.d /\ call'.status = call.status
         /\ call'.confirmed /\ call'.requested = call.requested
         /\ call'.released = call.released /\ call'.continued = call.continued
         /\ call'.handled = call.handled \cup {id} /\ call'.pending = call.pending
         /\ call'.active = call.active /\ call'.pc = call.pc
    BY <1>2, <2>4, <2>5 DEF Call, Calls
  <2>11. /\ \A x \in Calls : Spoken(call, x) => Spoken(call', x)
         /\ ~Spoken(call, id) /\ Spoken(call', id)
    BY <2>5, <2>10 DEF Spoken
  <2>12. Trusted'
    BY <2>10 DEF Trusted
  <2>13. evs \in Seq(Told)
    BY <2>7
  <2>14. Says(evs)
    BY <1>2, <2>3, <2>9, <2>10, <2>11, <2>12, <2>13 DEF Says
  <2> QED BY <2>14
<1>4. ASSUME call' = [call EXCEPT !.handled = @ \cup {Id}],
             outbox' = outbox \o Answer(Id, FALSE)
      PROVE  \E evs : Says(evs)
  <2>1. Says(Answer(Id, FALSE))
    BY <1>1, <1>2, <1>4, AnswerSays
  <2> QED BY <2>1
<1> QED BY <1>1, <1>3, <1>4

\* What an opening that is released looks like.
LEMMA ReleasedFacts ==
  ASSUME NEW c \in Call, NEW reason \in {"played", "broken", "deadline"}
  PROVE  LET r == Released(c, reason)
         IN  /\ r \in Call /\ r.d = c.d /\ r.status = c.status /\ r.pc = c.pc
             /\ r.confirmed = c.confirmed /\ r.active = c.active
             /\ r.handled = c.handled /\ r.continued = c.continued
             /\ r.pending = c.pending /\ r.followups = c.followups
             /\ c.requested => r.requested
             /\ c.released # "no" => r.released = c.released
             /\ c.released = "no" => r.released = reason
<1>1. CASE c.released # "no"
  <2>1. Released(c, reason) = c
    BY <1>1 DEF Released
  <2> QED BY <1>1, <2>1
<1>2. CASE c.released = "no"
  <2>1. Released(c, reason)
          = [c EXCEPT !.released = reason, !.requested = TRUE, !.deadline = FALSE]
    BY <1>2 DEF Released
  <2> QED BY <1>2, <2>1 DEF Call
<1> QED BY <1>1, <1>2

\* What is said of a release: that the session has to listen, and for some that it has
\* to be silent.
LEMMA ReleaseFacts ==
  ASSUME NEW c \in Call, NEW silence \in BOOLEAN
  PROVE  LET evs == ReleaseEvents(c, silence)
         IN  /\ evs \in Seq(Told)
             /\ ~In(evs, Greets) /\ ~In(evs, Grants) /\ \A x : ~In(evs, About(x))
             /\ In(evs, Listens) => c.released = "no"
             /\ In(evs, Cancels) => c.released = "no" /\ silence /\ c.active
<1> DEFINE evs == ReleaseEvents(c, silence)
           stop == Event("cancel", "greeting", FALSE)
           clear == Event("clear", "greeting", FALSE)
           listen == Event("listen", "none", FALSE)
           both == <<stop>> \o <<clear>>
           one == <<>> \o <<clear>>
           l == <<listen>>
<1>1. /\ stop \in Told /\ stop.kind = "cancel" /\ clear \in Told /\ clear.kind = "clear"
      /\ listen \in Told /\ listen.kind = "listen"
  BY EventFacts DEF Cancels, Listens
<1>2. /\ c.released # "no" => evs = <<>>
      /\ c.released = "no" => \/ evs = both \o l /\ silence /\ c.active
                              \/ evs = one \o l
                              \/ evs = <<>> \o l
  BY DEF ReleaseEvents
<1> HIDE DEF evs, stop, clear, listen
<1>3. ASSUME NEW e \in Told, NEW E
      PROVE  /\ <<>> \in Seq(Told) /\ ~In(<<>>, E)
             /\ <<e>> \in Seq(Told) /\ (In(<<e>>, E) <=> e \in E)
  BY FewFacts
<1>4. ASSUME NEW E
      PROVE  /\ both \in Seq(Told) /\ (In(both, E) <=> stop \in E \/ clear \in E)
             /\ one \in Seq(Told) /\ (In(one, E) <=> clear \in E)
             /\ l \in Seq(Told) /\ (In(l, E) <=> listen \in E)
             /\ <<>> \in Seq(Told) /\ ~In(<<>>, E)
  BY <1>1, <1>3, JoinFacts
<1> HIDE DEF both, one, l
<1>5. ASSUME NEW E
      PROVE  /\ both \o l \in Seq(Told) /\ one \o l \in Seq(Told)
             /\ <<>> \o l \in Seq(Told)
             /\ In(both \o l, E) <=> In(both, E) \/ In(l, E)
             /\ In(one \o l, E) <=> In(one, E) \/ In(l, E)
             /\ In(<<>> \o l, E) <=> In(<<>>, E) \/ In(l, E)
  BY <1>4, JoinFacts
<1>6. /\ stop \notin Greets /\ stop \notin Grants /\ stop \notin Listens
      /\ clear \notin Greets /\ clear \notin Grants /\ clear \notin Listens
      /\ clear \notin Cancels /\ listen \notin Cancels
      /\ listen \notin Greets /\ listen \notin Grants
      /\ \A x : stop \notin About(x) /\ clear \notin About(x) /\ listen \notin About(x)
  BY <1>1, KindFacts
<1>7. evs \in Seq(Told)
  BY <1>2, <1>4, <1>5
<1>8. ASSUME NEW E, In(evs, E)
      PROVE  /\ c.released = "no"
             /\ \/ listen \in E \/ clear \in E
                \/ stop \in E /\ silence /\ c.active
  <2>1. CASE evs = <<>>
    BY <1>4, <1>8, <2>1
  <2>2. CASE c.released = "no" /\ evs = both \o l /\ silence /\ c.active
    BY <1>4, <1>5, <1>8, <2>2
  <2>3. CASE c.released = "no" /\ evs = one \o l
    BY <1>4, <1>5, <1>8, <2>3
  <2>4. CASE c.released = "no" /\ evs = <<>> \o l
    BY <1>4, <1>5, <1>8, <2>4
  <2> QED BY <1>2, <2>1, <2>2, <2>3, <2>4
<1> QED BY <1>6, <1>7, <1>8 DEF evs

\* The opening is released.
LEMMA ReleaseSays ==
  ASSUME IInv, Consumes, session' = session, call.pc = "attached",
         NEW reason \in {"played", "deadline"},
         call' = Released(call, reason),
         outbox' = outbox \o ReleaseEvents(call, reason = "deadline"),
         reason = "played" => ~session.playing /\ session.greetings = 1
  PROVE  Says(ReleaseEvents(call, reason = "deadline"))
<1> DEFINE evs == ReleaseEvents(call, reason = "deadline")
<1>1. /\ call \in Call /\ call.pending \cap call.continued = {}
      /\ (~call.active => call.pending = {}) /\ (reason = "deadline") \in BOOLEAN
  BY DEF IInv, Typed, Answers
<1>2. /\ evs \in Seq(Told)
      /\ ~In(evs, Greets) /\ ~In(evs, Grants) /\ \A x : ~In(evs, About(x))
      /\ In(evs, Listens) => call.released = "no"
      /\ In(evs, Cancels) => call.released = "no" /\ reason = "deadline"
  BY <1>1, ReleaseFacts
<1>3. /\ call' \in Call /\ call'.d = call.d /\ call'.status = call.status
      /\ call'.confirmed = call.confirmed /\ (call.requested => call'.requested)
      /\ call.released # "no" => call'.released = call.released
      /\ call.released = "no" => call'.released = reason
      /\ call'.continued = call.continued
      /\ call'.handled = call.handled /\ call'.pending = call.pending
      /\ call'.active = call.active /\ call'.pc = call.pc
  BY <1>1, ReleasedFacts
<1>4. \A x \in Calls : Spoken(call', x) <=> Spoken(call, x)
  BY <1>3 DEF Spoken
<1>5. Once(evs, Greets) /\ \A x : Once(evs, About(x))
  BY <1>2, NoneOnce
<1>6. outbox' = outbox \o evs
  OBVIOUS
<1> HIDE DEF evs
<1>7. Says(evs)
  BY <1>1, <1>2, <1>3, <1>4, <1>5, <1>6 DEF Says
<1> QED BY <1>7 DEF evs

\* The time for the greeting is over, or the greeting.
LEMMA OpeningSays ==
  ASSUME IInv, OpeningTimeout \/ OnPlaybackEnded
  PROVE  \E evs : Says(evs)
<1>1. CASE OpeningTimeout
  <2>1. /\ Consumes /\ session' = session /\ call.pc = "attached"
        /\ call' = Released(call, "deadline")
        /\ outbox' = outbox \o ReleaseEvents(call, "deadline" = "deadline")
    BY <1>1 DEF OpeningTimeout, Attached, Consumes
  <2>2. Says(ReleaseEvents(call, "deadline" = "deadline"))
    BY <2>1, ReleaseSays
  <2> QED BY <2>2
<1>2. CASE OnPlaybackEnded
  <2>1. /\ Receives("stopped")
        /\ \/ Ignored
           \/ /\ call' = Released(call, "played")
              /\ outbox' = outbox \o ReleaseEvents(call, FALSE)
    BY <1>2 DEF OnPlaybackEnded
  <2>2. CASE Ignored
    BY <2>1, <2>2, IgnoredSays
  <2>3. CASE /\ call' = Released(call, "played")
             /\ outbox' = outbox \o ReleaseEvents(call, FALSE)
    <3>1. /\ Consumes /\ session' = session /\ call.pc = "attached"
          /\ ~session.playing /\ session.greetings = 1
      BY <2>1, HeadFacts
    <3>2. outbox' = outbox \o ReleaseEvents(call, "played" = "deadline")
      BY <2>3
    <3>3. Says(ReleaseEvents(call, "played" = "deadline"))
      BY <2>3, <3>1, <3>2, ReleaseSays
    <3> QED BY <3>3
  <2> QED BY <2>1, <2>2, <2>3
<1> QED BY <1>1, <1>2

\* Results are taken up.
LEMMA ContinueFacts ==
  ASSUME NEW c \in Call, NEW results \in SUBSET McpCalls
  PROVE  LET n == ContinueMcp(c, results)
         IN  /\ n \in Call /\ n.d = c.d /\ n.status = c.status /\ n.pc = c.pc
             /\ n.confirmed = c.confirmed /\ n.requested = c.requested
             /\ n.released = c.released /\ n.active = c.active
             /\ n.handled = c.handled /\ n.continued = c.continued \cup results
             /\ n.pending = {}
<1> DEFINE n == ContinueMcp(c, results)
           more == IF c.followups < MaxFollowups THEN c.followups + 1 ELSE c.followups
<1>1. n = [c EXCEPT !.continued = c.continued \cup results, !.pending = {},
                    !.followups = more]
  BY DEF ContinueMcp
<1>2. more \in 0 .. MaxFollowups
  BY DEF Call, MaxFollowups
<1> HIDE DEF n, more
<1>3. /\ n \in Call /\ n.d = c.d /\ n.status = c.status /\ n.pc = c.pc
      /\ n.confirmed = c.confirmed /\ n.requested = c.requested
      /\ n.released = c.released /\ n.active = c.active
      /\ n.handled = c.handled /\ n.continued = c.continued \cup results
      /\ n.pending = {}
  BY <1>1, <1>2 DEF Call
<1> QED BY <1>3 DEF n

\* The response that speaks of them.
LEMMA ContinuationFacts ==
  ASSUME NEW c \in Call, NEW results \in SUBSET McpCalls
  PROVE  LET k == Continuation(c, results)
         IN  /\ k \in Told /\ k \notin Greets /\ k \notin Listens /\ k \notin Cancels
             /\ k \notin Grants /\ \A x : k \in About(x) <=> x \in results
<1> DEFINE k == Continuation(c, results)
<1>1. k \in Told /\ k.kind = "create" /\ k.id = results
  <2>1. (c.followups < MaxFollowups) \in BOOLEAN
    OBVIOUS
  <2> QED BY <2>1, EventFacts DEF Continuation
<1> HIDE DEF k
<1>2. /\ k \notin Greets /\ k \notin Listens /\ k \notin Cancels
      /\ k \notin Grants /\ \A x : k \in About(x) <=> x \in results
  BY <1>1, KindFacts
<1> QED BY <1>1, <1>2 DEF k

\* A result of the memory.
LEMMA McpResultSays ==
  ASSUME IInv, OnMcpResult
  PROVE  \E evs : Says(evs)
<1>1. /\ Receives("mcp")
      /\ \/ Ignored
         \/ /\ Id \notin call.continued /\ call.active
            /\ call' = [call EXCEPT !.pending = @ \cup {Id}] /\ outbox' = outbox
         \/ /\ Id \notin call.continued /\ ~call.active
            /\ call' = [ContinueMcp(call, {Id}) EXCEPT !.pending = call.pending]
            /\ outbox' = Append(outbox, Continuation(call, {Id}))
  BY DEF OnMcpResult
<1>2. /\ Consumes /\ session' = session /\ call.pc = "attached" /\ Id \in McpCalls
      /\ call \in Call /\ call.pending \cap call.continued = {}
      /\ (~call.active => call.pending = {}) /\ outbox \in Seq(Told)
  BY <1>1, HeadFacts DEF IInv, Answers, Typed
<1>3. CASE Ignored
  BY <1>1, <1>3, IgnoredSays
<1>4. CASE /\ Id \notin call.continued /\ call.active
           /\ call' = [call EXCEPT !.pending = @ \cup {Id}] /\ outbox' = outbox
  <2>1. /\ call' \in Call /\ call'.d = call.d /\ call'.status = call.status
        /\ call'.confirmed = call.confirmed /\ call'.requested = call.requested
        /\ call'.released = call.released /\ call'.continued = call.continued
        /\ call'.handled = call.handled /\ call'.pending = call.pending \cup {Id}
        /\ call'.active = call.active /\ call'.pc = call.pc
    BY <1>2, <1>4 DEF Call
  <2>2. call'.pending \cap call'.continued = {}
    BY <1>2, <1>4, <2>1
  <2>3. Says(<<>>)
    BY <1>2, <1>4, <2>1, <2>2, QuietSays
  <2> QED BY <2>3
<1>5. CASE /\ Id \notin call.continued /\ ~call.active
           /\ call' = [ContinueMcp(call, {Id}) EXCEPT !.pending = call.pending]
           /\ outbox' = Append(outbox, Continuation(call, {Id}))
  <2> DEFINE id == Id
             n == ContinueMcp(call, {id})
             k == Continuation(call, {id})
  <2>1. /\ id \in McpCalls /\ {id} \in SUBSET McpCalls /\ id \notin call.continued
        /\ call' = [n EXCEPT !.pending = call.pending]
        /\ outbox' = Append(outbox, k)
    BY <1>2, <1>5
  <2>2. /\ k \in Told /\ k \notin Greets /\ k \notin Listens /\ k \notin Cancels
        /\ k \notin Grants /\ \A x : k \in About(x) <=> x \in {id}
    BY <1>2, <2>1, ContinuationFacts
  <2>3. /\ n \in Call /\ n.d = call.d /\ n.status = call.status /\ n.pc = call.pc
        /\ n.confirmed = call.confirmed /\ n.requested = call.requested
        /\ n.released = call.released /\ n.active = call.active
        /\ n.handled = call.handled /\ n.continued = call.continued \cup {id}
    BY <1>2, <2>1, ContinueFacts
  <2> HIDE DEF id, n, k
  <2>4. outbox' = outbox \o <<k>>
    BY <1>2, <2>1, <2>2, AppendFact
  <2>5. ASSUME NEW E PROVE /\ <<k>> \in Seq(Told) /\ (In(<<k>>, E) <=> k \in E)
                           /\ Once(<<k>>, E)
    BY <2>2, FewFacts
  <2>6. /\ call' \in Call /\ call'.d = call.d /\ call'.status = call.status
        /\ call'.confirmed = call.confirmed /\ call'.requested = call.requested
        /\ call'.released = call.released /\ call'.pending = {}
        /\ call'.continued = call.continued \cup {id}
        /\ call'.handled = call.handled /\ call'.pc = call.pc
    BY <1>2, <1>5, <2>1, <2>3 DEF Call
  <2>7. /\ \A x \in Calls : Spoken(call, x) => Spoken(call', x)
        /\ ~Spoken(call, id) /\ Spoken(call', id)
    BY <2>1, <2>6, RealtimeAssumption DEF Spoken
  <2>8. Says(<<k>>)
    BY <1>2, <2>2, <2>4, <2>5, <2>6, <2>7 DEF Says
  <2> QED BY <2>8
<1> QED BY <1>1, <1>3, <1>4, <1>5

\* A response is over: the opening is released if it was the greeting and failed, and
\* the results that came meanwhile are taken up.
LEMMA ResponseDoneSays ==
  ASSUME IInv, OnResponseDone
  PROVE  \E evs : Says(evs)
<1> DEFINE c == [call EXCEPT !.active = FALSE]
           broken == call.greeting /\ Id = "greeting" /\ ~Head(inbox).ok
           e == IF broken THEN Released(c, "broken") ELSE c
           events == IF broken THEN ReleaseEvents(c, TRUE) ELSE <<>>
           k == Continuation(e, c.pending)
<1>1. /\ Receives("done")
      /\ \/ c.pending = {} /\ call' = e /\ outbox' = outbox \o events
         \/ /\ call' = ContinueMcp(e, c.pending)
            /\ outbox' = (outbox \o events) \o <<k>>
  BY Zenon DEF OnResponseDone
<1>2. /\ Consumes /\ session' = session /\ call.pc = "attached"
      /\ call \in Call /\ call.pending \cap call.continued = {}
      /\ (~call.active => call.pending = {}) /\ outbox \in Seq(Told)
      /\ broken /\ call.released = "no" => ~session.playing /\ session.greetings = 1
  BY <1>1, HeadFacts DEF IInv, Answers, Typed
<1>3. /\ c \in Call /\ c.d = call.d /\ c.status = call.status /\ c.pc = call.pc
      /\ c.confirmed = call.confirmed /\ c.requested = call.requested
      /\ c.released = call.released /\ ~c.active /\ c.handled = call.handled
      /\ c.continued = call.continued /\ c.pending = call.pending
  BY <1>2 DEF Call
<1> HIDE DEF c
<1>4. /\ events \in Seq(Told)
      /\ ~In(events, Greets) /\ ~In(events, Grants) /\ \A x : ~In(events, About(x))
      /\ In(events, Listens) => broken /\ c.released = "no"
      /\ ~In(events, Cancels)
  <2>1. CASE broken
    <3> DEFINE r == ReleaseEvents(c, TRUE)
    <3>1. /\ r \in Seq(Told)
          /\ ~In(r, Greets) /\ ~In(r, Grants) /\ \A x : ~In(r, About(x))
          /\ In(r, Listens) => c.released = "no"
          /\ In(r, Cancels) => c.released = "no" /\ TRUE /\ c.active
      BY <1>3, ReleaseFacts
    <3>2. events = r
      BY <2>1
    <3> HIDE DEF r, events
    <3> QED BY <1>3, <2>1, <3>1, <3>2
  <2>2. CASE ~broken
    <3>1. events = <<>>
      BY <2>2
    <3> HIDE DEF events
    <3>2. <<>> \in Seq(Told) /\ \A E : ~In(<<>>, E)
      BY DEF In
    <3> QED BY <3>1, <3>2
  <2> QED BY <2>1, <2>2
<1>5. /\ e \in Call /\ e.d = c.d /\ e.status = c.status /\ e.pc = c.pc
      /\ e.confirmed = c.confirmed /\ e.active = c.active
      /\ e.handled = c.handled /\ e.continued = c.continued
      /\ e.pending = c.pending /\ (c.requested => e.requested)
      /\ c.released # "no" => e.released = c.released
      /\ c.released = "no" => e.released = IF broken THEN "broken" ELSE "no"
  <2>1. CASE broken
    BY <1>3, <2>1, ReleasedFacts
  <2>2. CASE ~broken
    BY <1>3, <2>2
  <2> QED BY <2>1, <2>2
<1>6. c.pending \in SUBSET McpCalls
  BY <1>3 DEF Call
<1>7. /\ k \in Told /\ k \notin Greets /\ k \notin Listens /\ k \notin Cancels
      /\ k \notin Grants /\ \A x : k \in About(x) <=> x \in c.pending
  BY <1>5, <1>6, ContinuationFacts
<1> DEFINE n == ContinueMcp(e, c.pending)
<1>8. /\ n \in Call /\ n.d = e.d /\ n.status = e.status /\ n.pc = e.pc
      /\ n.confirmed = e.confirmed /\ n.requested = e.requested
      /\ n.released = e.released /\ n.active = e.active
      /\ n.handled = e.handled /\ n.continued = e.continued \cup c.pending
      /\ n.pending = {}
  BY <1>5, <1>6, ContinueFacts
<1> HIDE DEF e, events, k, n
<1>9. /\ \/ e.released = call.released
         \/ call.released = "no" /\ ~session.playing /\ session.greetings = 1
      /\ In(events, Listens) => e.released # "no"
  BY <1>2, <1>3, <1>4, <1>5
<1>10. CASE c.pending = {} /\ call' = e /\ outbox' = outbox \o events
  <2>1. \A x \in Calls : Spoken(call', x) <=> Spoken(call, x)
    BY <1>3, <1>5, <1>10 DEF Spoken
  <2>2. Once(events, Greets) /\ \A x : Once(events, About(x))
    BY <1>4, NoneOnce
  <2> HIDE DEF broken
  <2>3. Says(events)
    BY <1>2, <1>3, <1>4, <1>5, <1>9, <1>10, <2>1, <2>2 DEF Says
  <2> QED BY <2>3
<1>11. CASE call' = n /\ outbox' = (outbox \o events) \o <<k>>
  <2> DEFINE evs == events \o <<k>>
  <2>2. ASSUME NEW E PROVE /\ <<k>> \in Seq(Told) /\ (In(<<k>>, E) <=> k \in E)
                           /\ Once(<<k>>, E)
    BY <1>7, FewFacts
  <2>1. outbox' = outbox \o evs
    <3>1. <<k>> \in Seq(Told)
      BY <2>2
    <3>2. (outbox \o events) \o <<k>> = outbox \o (events \o <<k>>)
      BY <1>2, <1>4, <3>1, AssocFact
    <3> QED BY <1>11, <3>2
  <2>3. ASSUME NEW E PROVE /\ evs \in Seq(Told)
                           /\ In(evs, E) <=> In(events, E) \/ k \in E
                           /\ Once(events, E) /\ ~In(events, E) => Once(evs, E)
    BY <1>4, <2>2, JoinFacts
  <2> HIDE DEF evs
  <2>4. \A E : ~In(events, E) => Once(evs, E)
    BY <2>3, NoneOnce
  <2>5. /\ evs \in Seq(Told) /\ ~In(evs, Greets) /\ ~In(evs, Grants) /\ ~In(evs, Cancels)
        /\ In(evs, Listens) => In(events, Listens)
        /\ Once(evs, Greets)
        /\ \A x : Once(evs, About(x)) /\ (In(evs, About(x)) <=> x \in c.pending)
    BY <1>4, <1>7, <2>3, <2>4
  <2>6. ASSUME NEW x \in Calls
        PROVE  /\ In(evs, About(x)) => ~Spoken(call, x) /\ Spoken(call', x)
               /\ Spoken(call, x) => Spoken(call', x)
    BY <1>2, <1>3, <1>5, <1>6, <1>8, <1>11, <2>5, RealtimeAssumption DEF Spoken
  <2> HIDE DEF broken
  <2>7. Says(evs)
    BY <1>2, <1>3, <1>5, <1>8, <1>9, <1>11, <2>1, <2>5, <2>6 DEF Says
  <2> QED BY <2>7
<1> QED BY <1>1, <1>10, <1>11 DEF n

\* A request for approval is answered, and the conversation goes on.
LEMMA ApprovalSays ==
  ASSUME IInv, OnApprovalRequest
  PROVE  \E evs : Says(evs)
<1>1. /\ Receives("approval")
      /\ \/ Ignored
         \/ /\ call' = [call EXCEPT !.handled = @ \cup {Id}]
            /\ outbox' = outbox \o <<Event("approval", Id, Head(inbox).ok),
                                     Create({}, TRUE)>>
  BY DEF OnApprovalRequest
<1>2. CASE Ignored
  BY <1>1, <1>2, IgnoredSays
<1>3. CASE /\ call' = [call EXCEPT !.handled = @ \cup {Id}]
           /\ outbox' = outbox \o <<Event("approval", Id, Head(inbox).ok),
                                    Create({}, TRUE)>>
  <2> DEFINE a == Event("approval", Id, Head(inbox).ok)
             c == Create({}, TRUE)
             id == Id
  <2>1. /\ Consumes /\ session' = session /\ call.pc = "attached" /\ id \in McpCalls
        /\ call \in Call /\ call.pending \cap call.continued = {}
        /\ (~call.active => call.pending = {}) /\ Head(inbox).ok \in BOOLEAN
    BY <1>1, HeadFacts DEF IInv, Answers
  <2>2. /\ a \in Told /\ a.kind = "approval"
        /\ c \in Told /\ c.kind = "create" /\ c.id = {}
    BY <2>1, EventFacts
  <2>3. /\ call' = [call EXCEPT !.handled = @ \cup {id}]
        /\ outbox' = outbox \o <<a, c>>
    BY <1>3
  <2> HIDE DEF a, c, id
  <2>4. ASSUME NEW E
        PROVE  /\ <<a, c>> \in Seq(Told) /\ (In(<<a, c>>, E) <=> a \in E \/ c \in E)
               /\ ~(a \in E /\ c \in E) => Once(<<a, c>>, E)
    BY <2>2, FewFacts
  <2>5. /\ a \notin Greets /\ a \notin Listens /\ a \notin Cancels /\ a \notin Grants
        /\ c \notin Greets /\ c \notin Listens /\ c \notin Cancels /\ c \notin Grants
        /\ \A x : a \notin About(x) /\ c \notin About(x)
    BY <2>2, KindFacts
  <2>6. /\ call' \in Call /\ call'.d = call.d /\ call'.status = call.status
        /\ call'.confirmed = call.confirmed /\ call'.requested = call.requested
        /\ call'.released = call.released /\ call'.continued = call.continued
        /\ call'.handled = call.handled \cup {id} /\ call'.pending = call.pending
        /\ call'.active = call.active /\ call'.pc = call.pc
    BY <2>1, <2>3 DEF Call, Calls
  <2>7. \A x \in Calls : Spoken(call, x) => Spoken(call', x)
    BY <2>6 DEF Spoken
  <2>8. Says(<<a, c>>)
    BY <2>1, <2>3, <2>4, <2>5, <2>6, <2>7 DEF Says
  <2> QED BY <2>8
<1> QED BY <1>1, <1>2, <1>3

\* The tools of the memory are only offered to callers that are recognized where others
\* have to enroll.
LEMMA OfferFacts ==
  ASSUME call \in Call, call.status # "none"
  PROVE  /\ Offered \in Tools
         /\ D.api = "live" => Offered \in {"none", "read"}
         /\ Offered = "memory" => Trusted
<1>1. /\ call.d \in Deployments
      /\ call.status \in {"not_found", "recognized", "partial", "unavailable"}
  BY DEF Call, Statuses
<1>2. D.api \in {"live", "realtime"}
  BY <1>1, RealtimeAssumption DEF D
<1>3. MemoryTools \in {"memory", "none"}
  BY DEF MemoryTools
<1>8. /\ call.status = "recognized" => Recognized
      /\ Recognized => call.status # "not_found"
  BY DEF Recognized
<1>4. CASE D.api = "live"
  <2>1. Offered \in {"read", "none"}
    BY <1>4 DEF Offered
  <2> QED BY <2>1 DEF Tools
<1>5. CASE D.api = "realtime" /\ Recognized
  <2>1. Offered = MemoryTools
    BY <1>5, <1>8 DEF Offered
  <2> QED BY <1>3, <1>5, <2>1 DEF Tools, Trusted
<1>6. CASE D.api = "realtime" /\ ~Recognized /\ call.status \in {"partial", "unavailable"}
  <2>1. Offered = "none"
    BY <1>6 DEF Offered
  <2> QED BY <1>6, <2>1 DEF Tools
<1>7. CASE D.api = "realtime" /\ ~Recognized /\ call.status = "not_found"
  <2>1. Offered = IF D.invite THEN "validate"
                  ELSE IF D.graph THEN "none" ELSE MemoryTools
    BY <1>7 DEF Offered
  <2> QED BY <1>3, <1>7, <2>1 DEF Tools, Trusted
<1> QED BY <1>1, <1>2, <1>4, <1>5, <1>6, <1>7, <1>8

\* The sideband is attached, and the session is given its tools.
LEMMA ConnectSays ==
  ASSUME IInv, Connect
  PROVE  \E evs : Says(evs)
<1>1. /\ call.pc = "connecting" /\ session' = session /\ inbox' = inbox
      /\ call' = [call EXCEPT !.pc = "attached", !.deadline = Guarded]
      /\ outbox' = IF D.api = "live" THEN <<>> ELSE <<Update(Offered)>>
  BY DEF Connect
<1>2. /\ call \in Call /\ call.pending \cap call.continued = {}
      /\ (~call.active => call.pending = {}) /\ outbox = <<>>
      /\ call.status # "none"
  BY <1>1 DEF IInv, Answers, Typed, Stages
<1>3. Guarded \in BOOLEAN
  <2>1. call.d \in Deployments
    BY <1>2 DEF Call
  <2>2. D.invite \in BOOLEAN /\ D.resume \in BOOLEAN
    BY <2>1, RealtimeAssumption DEF D
  <2> QED BY <2>2 DEF Guarded
<1>4. /\ call' \in Call /\ call'.d = call.d /\ call'.status = call.status
      /\ call'.confirmed = call.confirmed /\ call'.requested = call.requested
      /\ call'.released = call.released /\ call'.continued = call.continued
      /\ call'.handled = call.handled /\ call'.pending = call.pending
      /\ call'.active = call.active /\ call'.pc = "attached"
  BY <1>1, <1>2, <1>3 DEF Call
<1>5. CASE D.api = "live"
  <2>1. Says(<<>>)
    BY <1>1, <1>2, <1>4, <1>5, QuietSays DEF Consumes
  <2> QED BY <2>1
<1>6. CASE D.api # "live"
  <2> DEFINE u == Update(Offered)
  <2>1. u \in Told /\ u.kind = "update" /\ u.id = Offered
    BY <1>2, OfferFacts, EventFacts
  <2>2. outbox' = <<u>>
    BY <1>1, <1>6
  <2> HIDE DEF u
  <2>3. ASSUME NEW E PROVE /\ <<u>> \in Seq(Told) /\ (In(<<u>>, E) <=> u \in E)
                           /\ Once(<<u>>, E)
    BY <2>1, FewFacts
  <2>4. outbox' = outbox \o <<u>>
    <3>1. <<>> \o <<u>> = <<u>>
      OBVIOUS
    <3> QED BY <1>2, <2>2, <3>1
  <2>5. /\ u \notin Greets /\ u \notin Listens /\ u \notin Cancels
        /\ \A x : u \notin About(x)
        /\ u \in Grants => Offered = "memory"
    BY <2>1, KindFacts
  <2>6. u \in Grants => Trusted'
    <3>1. Trusted => Trusted'
      BY <1>4 DEF Trusted, Recognized, D
    <3> QED BY <1>2, <2>5, <3>1, OfferFacts
  <2>7. \A x \in Calls : Spoken(call', x) <=> Spoken(call, x)
    BY <1>4 DEF Spoken
  <2>8. Consumes
    BY <1>1 DEF Consumes
  <2>9. Says(<<u>>)
    BY <1>1, <1>2, <1>4, <2>3, <2>4, <2>5, <2>6, <2>7, <2>8 DEF Says
  <2> QED BY <2>9
<1> QED BY <1>5, <1>6

\* So every step of the service with a sideband.
LEMMA ServiceSays ==
  ASSUME IInv, Connect \/ OpeningTimeout \/ Sideband
  PROVE  \E evs : Says(evs)
<1>1. CASE OnError
  <2>1. Receives("error") /\ Ignored
    BY <1>1 DEF OnError
  <2> QED BY <2>1, IgnoredSays
<1> QED BY <1>1, ConnectSays, OpeningSays, NotedSays, LocalCallSays,
           CodeSpokenSays, SessionUpdatedSays, ResponseDoneSays, McpResultSays,
           ApprovalSays DEF Sideband

-----------------------------------------------------------------------------
(* The session does no more than that. *)

\* What is reported to a sideband that hears nothing is lost.
LEMMA ReportFacts ==
  ASSUME inbox \in Seq(Heard), NEW events \in Seq(Heard), Reports(events)
  PROVE  \E evs \in Seq(Heard) : /\ inbox' = inbox \o evs
                                 /\ \A E : In(evs, E) => In(events, E)
<1>1. CASE D.api = "realtime"
  BY <1>1 DEF Reports
<1>2. CASE D.api # "realtime"
  <2>1. <<>> \in Seq(Heard) /\ inbox' = inbox \o <<>> /\ \A E : ~In(<<>>, E)
    BY <1>2 DEF Reports, In
  <2> QED BY <2>1
<1> QED BY <1>1, <1>2

\* A step of the session that reports such events.
LEMMA ReportedDoes ==
  ASSUME IInv, NEW events \in Seq(Heard), Reports(events),
         call' = call, call.pc = "attached", session' \in Session,
         outbox' = outbox \/ (outbox # <<>> /\ outbox' = Tail(outbox)),
         \/ /\ session'.greetings = session.greetings
            /\ session'.playing => session.playing
            /\ session'.active = "greeting" => session.active = "greeting"
         \/ Takes(Greets) /\ session'.greetings = 1,
         session'.tools = "memory" => session.tools = "memory" \/ Takes(Grants),
         session'.vad => session.vad \/ Takes(Listens),
         In(events, Stops) => session.playing /\ ~session'.playing,
         In(events, Breaks) => /\ session.active = "greeting"
                               /\ ~session'.playing \/ Takes(Cancels),
         \A x \in session'.answered : x \in session.answered \/ Takes(About(x))
  PROVE  \E evs : Does(evs)
<1>1. PICK evs \in Seq(Heard) : /\ inbox' = inbox \o evs
                                /\ \A E : In(evs, E) => In(events, E)
  BY ReportFacts DEF IInv, Typed
<1>2. Does(evs)
  BY <1>1 DEF Does
<1> QED BY <1>2

\* Reports, of one event or more.
LEMMA HeardFacts ==
  /\ \A id \in {"none", "greeting", "other"}, b \in BOOLEAN :
       \A kind \in {"updated", "error", "speech", "created", "done", "stopped"} :
         LET e == Event(kind, id, b)
         IN  /\ e \in Heard
             /\ e \in Stops <=> kind = "stopped"
             /\ e \in Breaks <=> kind = "done" /\ id = "greeting" /\ ~b
  /\ \A f \in LocalCalls, b \in BOOLEAN :
       LET e == Event("function", f, b)
       IN  e \in Heard /\ e \notin Stops /\ e \notin Breaks
  /\ \A m \in McpCalls, b \in BOOLEAN :
       LET e == Event("mcp", m, b)
           a == Event("approval", m, b)
       IN  /\ e \in Heard /\ e \notin Stops /\ e \notin Breaks
           /\ a \in Heard /\ a \notin Stops /\ a \notin Breaks
BY DEF Event, Heard, Stops, Breaks

\* A response is the greeting or another.
LEMMA OtherFacts ==
  ASSUME NEW id \in {"greeting", "reply", "words"}
  PROVE  /\ Other(id) \in {"none", "greeting", "other"}
         /\ Other(id) = "greeting" <=> id = "greeting"
BY DEF Other

\* A response ends.
LEMMA ResponseEndsDoes ==
  ASSUME IInv, ResponseEnds
  PROVE  \E evs : Does(evs)
<1>1. PICK ok \in BOOLEAN :
        /\ ok \/ session.active = "greeting"
        /\ session' = [session EXCEPT !.active = "none", !.playing = @ /\ ok]
        /\ Reports(<<Event("done", Other(session.active), ok)>>)
  BY DEF ResponseEnds
<1>2. /\ session \in Session /\ call' = call /\ outbox' = outbox
      /\ call.pc = "attached" /\ session.active \in {"greeting", "reply", "words"}
  BY DEF IInv, Typed, ResponseEnds, Attached, Session
<1> DEFINE e == Event("done", Other(session.active), ok)
<1>3. /\ e \in Heard /\ e \notin Stops
      /\ e \in Breaks <=> session.active = "greeting" /\ ~ok
  BY <1>2, OtherFacts, HeardFacts
<1>4. Reports(<<e>>)
  BY <1>1
<1> HIDE DEF e
<1>5. /\ session' \in Session /\ session'.greetings = session.greetings
      /\ session'.active = "none" /\ session'.playing = (session.playing /\ ok)
      /\ session'.tools = session.tools /\ session'.vad = session.vad
      /\ session'.answered = session.answered
  BY <1>1, <1>2 DEF Session
<1>6. ASSUME NEW E PROVE <<e>> \in Seq(Heard) /\ (In(<<e>>, E) <=> e \in E)
  BY <1>3, FewFacts
<1>7. <<e>> \in Seq(Heard) /\ ~In(<<e>>, Stops)
      /\ (In(<<e>>, Breaks) => session.active = "greeting" /\ ~ok)
  BY <1>3, <1>6
<1> QED BY <1>2, <1>4, <1>5, <1>7, ReportedDoes

\* The greeting was played.
LEMMA PlaybackEndsDoes ==
  ASSUME IInv, PlaybackEnds
  PROVE  \E evs : Does(evs)
<1> DEFINE e == Event("stopped", "greeting", TRUE)
<1>1. /\ session \in Session /\ call' = call /\ outbox' = outbox
      /\ call.pc = "attached" /\ session.playing
      /\ session' = [session EXCEPT !.playing = FALSE]
      /\ Reports(<<e>>) \/ Reports(<<>>)
  BY DEF IInv, Typed, PlaybackEnds, Attached
<1>2. e \in Heard /\ e \notin Breaks
  BY HeardFacts
<1> HIDE DEF e
<1>3. /\ session' \in Session /\ session'.greetings = session.greetings
      /\ session'.active = session.active /\ ~session'.playing
      /\ session'.tools = session.tools /\ session'.vad = session.vad
      /\ session'.answered = session.answered
  BY <1>1 DEF Session
<1>4. ASSUME NEW E PROVE /\ <<e>> \in Seq(Heard) /\ (In(<<e>>, E) <=> e \in E)
                         /\ <<>> \in Seq(Heard) /\ ~In(<<>>, E)
  BY <1>2, FewFacts
<1>5. PICK events \in {<<e>>, <<>>} : Reports(events)
  BY <1>1
<1>6. events \in Seq(Heard) /\ ~In(events, Breaks)
  BY <1>2, <1>4
<1> QED BY <1>1, <1>3, <1>5, <1>6, ReportedDoes

\* The model calls a tool of the memory, and the memory answers.
LEMMA MemoryDoes ==
  ASSUME IInv, NEW m \in McpCalls, CallsMemory(m) \/ MemoryAnswers(m)
  PROVE  \E evs : Does(evs)
<1>1. session \in Session /\ call' = call /\ outbox' = outbox /\ call.pc = "attached"
  BY DEF IInv, Typed, CallsMemory, MemoryAnswers, Attached
<1>2. PICK e \in Heard : /\ Reports(<<e, e>>) \/ Reports(<<>>)
                         /\ e \notin Stops /\ e \notin Breaks
  <2>1. /\ \A b \in BOOLEAN : Event("approval", m, b) \in Heard
              /\ Event("approval", m, b) \notin Stops
              /\ Event("approval", m, b) \notin Breaks
        /\ Event("mcp", m, TRUE) \in Heard /\ Event("mcp", m, TRUE) \notin Stops
        /\ Event("mcp", m, TRUE) \notin Breaks
    BY HeardFacts
  <2>2. CASE CallsMemory(m)
    <3>1. \/ \E b \in BOOLEAN : Reports(<<Event("approval", m, b), Event("approval", m, b)>>)
          \/ Reports(<<>>)
      BY <2>2 DEF CallsMemory
    <3> QED BY <2>1, <3>1
  <2>3. CASE MemoryAnswers(m)
    <3>1. Reports(<<Event("mcp", m, TRUE), Event("mcp", m, TRUE)>>)
      BY <2>3 DEF MemoryAnswers
    <3> QED BY <2>1, <3>1
  <2> QED BY <2>2, <2>3
<1>3. /\ session' \in Session /\ session'.greetings = session.greetings
      /\ session'.active = session.active /\ session'.playing = session.playing
      /\ session'.tools = session.tools /\ session'.vad = session.vad
      /\ session'.answered = session.answered
  <2>1. CASE CallsMemory(m)
    <3>1. \/ session' = [session EXCEPT !.made = @ \cup {m}, !.asked = @ \cup {m}]
          \/ session' = [session EXCEPT !.made = @ \cup {m}, !.running = @ \cup {m}]
      BY <2>1 DEF CallsMemory
    <3>2. CASE session' = [session EXCEPT !.made = @ \cup {m}, !.asked = @ \cup {m}]
      BY <1>1, <3>2 DEF Session, Calls
    <3>3. CASE session' = [session EXCEPT !.made = @ \cup {m}, !.running = @ \cup {m}]
      BY <1>1, <3>3 DEF Session, Calls
    <3> QED BY <3>1, <3>2, <3>3
  <2>2. CASE MemoryAnswers(m)
    <3>1. session' = [session EXCEPT !.running = @ \ {m}, !.unspoken = @ \cup {m}]
      BY <2>2 DEF MemoryAnswers
    <3> QED BY <1>1, <3>1 DEF Session
  <2> QED BY <2>1, <2>2
<1>4. ASSUME NEW E PROVE /\ <<e, e>> \in Seq(Heard) /\ (In(<<e, e>>, E) <=> e \in E)
                         /\ <<>> \in Seq(Heard) /\ ~In(<<>>, E)
  BY <1>2, FewFacts
<1>5. PICK events \in {<<e, e>>, <<>>} : Reports(events)
  BY <1>2
<1>6. events \in Seq(Heard) /\ ~In(events, Stops) /\ ~In(events, Breaks)
  BY <1>2, <1>4
<1> QED BY <1>1, <1>3, <1>5, <1>6, ReportedDoes

\* The model calls a function.
LEMMA FunctionDoes ==
  ASSUME IInv, NEW f \in LocalCalls, CallsFunction(f)
  PROVE  \E evs : Does(evs)
<1>0. PICK b \in BOOLEAN :
        LET e == Event("function", f, b)
        IN  inbox' = inbox \o <<e>> \/ inbox' = inbox \o <<e, e>>
  BY DEF CallsFunction
<1> DEFINE e == Event("function", f, b)
<1>1. /\ session \in Session /\ call' = call /\ outbox' = outbox
      /\ call.pc = "attached" /\ session' = [session EXCEPT !.made = @ \cup {f}]
      /\ inbox' = inbox \o <<e>> \/ inbox' = inbox \o <<e, e>>
  BY <1>0 DEF IInv, Typed, CallsFunction, Attached
<1>2. e \in Heard /\ e \notin Stops /\ e \notin Breaks
  BY HeardFacts
<1> HIDE DEF e
<1>3. /\ session' \in Session /\ session'.greetings = session.greetings
      /\ session'.active = session.active /\ session'.playing = session.playing
      /\ session'.tools = session.tools /\ session'.vad = session.vad
      /\ session'.answered = session.answered
  BY <1>1 DEF Session, Calls
<1>4. ASSUME NEW E PROVE /\ <<e>> \in Seq(Heard) /\ (In(<<e>>, E) <=> e \in E)
                         /\ <<e, e>> \in Seq(Heard) /\ (In(<<e, e>>, E) <=> e \in E)
  BY <1>2, FewFacts
<1>5. PICK evs \in {<<e>>, <<e, e>>} : inbox' = inbox \o evs
  BY <1>1
<1>6. evs \in Seq(Heard) /\ ~In(evs, Stops) /\ ~In(evs, Breaks)
  BY <1>2, <1>4
<1>7. Does(evs)
  BY <1>1, <1>3, <1>5, <1>6 DEF Does
<1> QED BY <1>7

\* The caller speaks, and what was said is cut off.
LEMMA CallerSpeaksDoes ==
  ASSUME IInv, CallerSpeaks
  PROVE  \E evs : Does(evs)
<1> DEFINE spoke == Event("speech", "none", TRUE)
           begun == Created("reply")
           speech == <<spoke>>
           done == IF session.active = "none" THEN <<>>
                   ELSE <<Event("done", Other(session.active), FALSE)>>
           stopped == IF session.playing THEN <<Event("stopped", "greeting", TRUE)>>
                      ELSE <<>>
           created == <<begun>>
           events == ((speech \o done) \o stopped) \o created
<1>1. /\ session \in Session /\ call' = call /\ outbox' = outbox /\ call.pc = "attached"
      /\ session.vad /\ Reports(events)
      /\ session' = [Begun(session, "reply") EXCEPT !.turns = @ + 1, !.playing = FALSE]
  BY DEF IInv, Typed, CallerSpeaks, Attached
<1>a. /\ spoke \in Heard /\ spoke \notin Stops /\ spoke \notin Breaks
      /\ begun \in Heard /\ begun \notin Stops /\ begun \notin Breaks
  BY HeardFacts, OtherFacts DEF Created
<1> HIDE DEF spoke, begun
<1>2. ASSUME NEW E
      PROVE  /\ speech \in Seq(Heard) /\ (In(speech, E) <=> spoke \in E)
             /\ created \in Seq(Heard) /\ (In(created, E) <=> begun \in E)
  BY <1>a, FewFacts
<1>3. /\ ~In(speech, Stops) /\ ~In(speech, Breaks)
      /\ ~In(created, Stops) /\ ~In(created, Breaks)
  BY <1>a, <1>2
<1>b. <<>> \in Seq(Heard) /\ \A E : ~In(<<>>, E)
  BY DEF In
<1>4. /\ done \in Seq(Heard) /\ ~In(done, Stops)
      /\ In(done, Breaks) => session.active = "greeting"
  <2>1. CASE session.active = "none"
    <3>1. done = <<>>
      BY <2>1
    <3> HIDE DEF done
    <3> QED BY <1>b, <3>1
  <2>2. CASE session.active # "none"
    <3> DEFINE e == Event("done", Other(session.active), FALSE)
    <3>1. session.active \in {"greeting", "reply", "words"}
      BY <1>1, <2>2 DEF Session
    <3>2. /\ e \in Heard /\ e \notin Stops
          /\ e \in Breaks => session.active = "greeting"
      BY <3>1, OtherFacts, HeardFacts
    <3>3. done = <<e>>
      BY <2>2
    <3> HIDE DEF e, done
    <3>4. ASSUME NEW E PROVE <<e>> \in Seq(Heard) /\ (In(<<e>>, E) <=> e \in E)
      BY <3>2, FewFacts
    <3> QED BY <3>2, <3>3, <3>4
  <2> QED BY <2>1, <2>2
<1>5. /\ stopped \in Seq(Heard) /\ ~In(stopped, Breaks)
      /\ In(stopped, Stops) => session.playing
  <2>1. CASE ~session.playing
    <3>1. stopped = <<>>
      BY <2>1
    <3> HIDE DEF stopped
    <3> QED BY <1>b, <3>1
  <2>2. CASE session.playing
    <3> DEFINE e == Event("stopped", "greeting", TRUE)
    <3>1. e \in Heard /\ e \notin Breaks
      BY HeardFacts
    <3>2. stopped = <<e>>
      BY <2>2
    <3> HIDE DEF e, stopped
    <3>3. ASSUME NEW E PROVE <<e>> \in Seq(Heard) /\ (In(<<e>>, E) <=> e \in E)
      BY <3>1, FewFacts
    <3> QED BY <2>2, <3>1, <3>2, <3>3
  <2> QED BY <2>1, <2>2
<1> HIDE DEF speech, done, stopped, created
<1>6. /\ events \in Seq(Heard)
      /\ In(events, Stops) => session.playing
      /\ In(events, Breaks) => session.active = "greeting"
  <2> DEFINE x == speech \o done
             y == x \o stopped
  <2>1. ASSUME NEW E
        PROVE  x \in Seq(Heard) /\ (In(x, E) <=> In(speech, E) \/ In(done, E))
    BY <1>2, <1>4, JoinFacts
  <2> HIDE DEF x
  <2>2. ASSUME NEW E
        PROVE  y \in Seq(Heard) /\ (In(y, E) <=> In(x, E) \/ In(stopped, E))
    BY <1>5, <2>1, JoinFacts
  <2> HIDE DEF y
  <2>3. ASSUME NEW E
        PROVE  /\ y \o created \in Seq(Heard)
               /\ In(y \o created, E) <=> In(y, E) \/ In(created, E)
    BY <1>2, <2>2, JoinFacts
  <2>4. events = y \o created
    BY DEF x, y
  <2> HIDE DEF events
  <2> QED BY <1>3, <1>4, <1>5, <2>1, <2>2, <2>3, <2>4
<1> HIDE DEF events
<1>7. /\ session' \in Session /\ session'.greetings = session.greetings
      /\ session'.active = "reply" /\ ~session'.playing
      /\ session'.tools = session.tools /\ session'.vad = session.vad
      /\ session'.answered = session.answered
  <2> DEFINE b == Begun(session, "reply")
  <2>1. /\ b \in Session /\ b.greetings = session.greetings /\ b.active = "reply"
        /\ b.tools = session.tools /\ b.vad = session.vad
        /\ b.answered = session.answered
    BY <1>1 DEF Begun, Session
  <2> DEFINE t == b.turns + 1
  <2>2. session' = [b EXCEPT !.turns = t, !.playing = FALSE]
    BY <1>1
  <2> HIDE DEF b
  <2>3. t \in Nat
    BY <2>1 DEF Session
  <2> HIDE DEF t
  <2> QED BY <2>1, <2>2, <2>3 DEF Session
<1> QED BY <1>1, <1>6, <1>7, ReportedDoes

-----------------------------------------------------------------------------
(* The session takes an event. *)

\* Tools are taken, or turn detection is switched on.
LEMMA ObeySettings ==
  ASSUME IInv, Obey, Head(outbox).kind \in {"update", "listen"}
  PROVE  \E evs : Does(evs)
<1> DEFINE e == Head(outbox)
           u == Event("updated", "none", TRUE)
<1>1. /\ session \in Session /\ call' = call /\ outbox # <<>> /\ outbox' = Tail(outbox)
      /\ call.pc = "attached" /\ outbox \in Seq(Told)
      /\ \/ e.kind = "update" /\ session' = [session EXCEPT !.tools = e.id]
         \/ e.kind = "listen" /\ session' = [session EXCEPT !.vad = TRUE]
      /\ Reports(<<u>>)
  BY DEF IInv, Typed, Obey, Attached
<1>2. e \in Told /\ (e.kind = "update" => e.id \in Tools)
  <2>1. e \in Told
    BY <1>1
  <2> HIDE DEF e
  <2> QED BY <2>1 DEF Told
<1>3. /\ u \in Heard /\ u \notin Stops /\ u \notin Breaks
  BY HeardFacts
<1> HIDE DEF e, u
<1>4. /\ session' \in Session /\ session'.greetings = session.greetings
      /\ session'.active = session.active /\ session'.playing = session.playing
      /\ session'.answered = session.answered
      /\ session'.tools = "memory" => \/ session.tools = "memory"
                                      \/ e.kind = "update" /\ e.id = "memory"
      /\ session'.vad => session.vad \/ e.kind = "listen"
  BY <1>1, <1>2 DEF Session
<1>5. /\ e.kind = "update" /\ e.id = "memory" => Takes(Grants)
      /\ e.kind = "listen" => Takes(Listens)
  BY <1>1, <1>2, KindFacts DEF Takes, e
<1>6. ASSUME NEW E PROVE <<u>> \in Seq(Heard) /\ (In(<<u>>, E) <=> u \in E)
  BY <1>3, FewFacts
<1>7. <<u>> \in Seq(Heard) /\ ~In(<<u>>, Stops) /\ ~In(<<u>>, Breaks)
  BY <1>3, <1>6
<1> QED BY <1>1, <1>4, <1>5, <1>7, ReportedDoes

\* A response is begun, or refused while there is another.
LEMMA ObeyResponses ==
  ASSUME IInv, Obey, Head(outbox).kind \in {"greet", "create"}
  PROVE  \E evs : Does(evs)
<1> DEFINE e == Head(outbox)
           error == Event("error", "none", FALSE)
<1>1. /\ session \in Session /\ call' = call /\ outbox # <<>> /\ outbox' = Tail(outbox)
      /\ call.pc = "attached" /\ outbox \in Seq(Told)
      /\ \/ session' = session /\ Reports(<<error>>)
         \/ /\ e.kind = "greet" /\ session.active = "none"
            /\ session' = [Begun(session, "greeting") EXCEPT !.playing = TRUE,
                             !.greetings = @ + 1]
            /\ Reports(<<Created("greeting")>>)
         \/ /\ e.kind = "create" /\ session.active = "none"
            /\ session' = [Begun(session, IF e.ok THEN "reply" ELSE "words")
                             EXCEPT !.answered = @ \cup e.id]
            /\ Reports(<<Created("reply")>>)
  <2>1. /\ session \in Session /\ call' = call /\ outbox # <<>> /\ outbox' = Tail(outbox)
        /\ call.pc = "attached" /\ outbox \in Seq(Told)
    BY DEF IInv, Typed, Obey, Attached
  <2>2. CASE session.active # "none"
    BY <2>1, <2>2 DEF Obey
  <2>3. CASE session.active = "none" /\ e.kind = "greet"
    BY <2>1, <2>3 DEF Obey
  <2>4. CASE session.active = "none" /\ e.kind = "create"
    BY <2>1, <2>4 DEF Obey
  <2> QED BY <2>2, <2>3, <2>4
<1>2. e \in Told /\ (e.kind = "create" => e.id \in SUBSET McpCalls)
  <2>1. e \in Told
    BY <1>1
  <2> HIDE DEF e
  <2> QED BY <2>1 DEF Told
<1> HIDE DEF e
<1>3. \A h \in {error, Created("greeting"), Created("reply")} :
        h \in Heard /\ h \notin Stops /\ h \notin Breaks
  BY HeardFacts, OtherFacts DEF Created
<1>4. ASSUME NEW h \in Heard, h \notin Stops, h \notin Breaks
      PROVE  <<h>> \in Seq(Heard) /\ ~In(<<h>>, Stops) /\ ~In(<<h>>, Breaks)
  <2>1. ASSUME NEW E PROVE <<h>> \in Seq(Heard) /\ (In(<<h>>, E) <=> h \in E)
    BY FewFacts
  <2> QED BY <1>4, <2>1
<1> HIDE DEF error
<1>5. CASE session' = session /\ Reports(<<error>>)
  <2>1. <<error>> \in Seq(Heard) /\ ~In(<<error>>, Stops) /\ ~In(<<error>>, Breaks)
    BY <1>3, <1>4
  <2> QED BY <1>1, <1>5, <2>1, ReportedDoes
<1>6. CASE /\ e.kind = "greet" /\ session.active = "none"
           /\ session' = [Begun(session, "greeting") EXCEPT !.playing = TRUE,
                            !.greetings = @ + 1]
           /\ Reports(<<Created("greeting")>>)
  <2> DEFINE h == Created("greeting")
             b == Begun(session, "greeting")
  <2>1. <<h>> \in Seq(Heard) /\ ~In(<<h>>, Stops) /\ ~In(<<h>>, Breaks)
    BY <1>3, <1>4
  <2>2. e \in Greets
    BY <1>2, <1>6, KindFacts
  <2>3. Takes(Greets)
    BY <1>1, <2>2 DEF Takes, e
  <2>4. In(outbox, Greets)
    <3>1. e \in Greets => In(outbox, Greets)
      BY <1>1, TailFacts DEF e
    <3> QED BY <2>2, <3>1
  <2>5. session.greetings = 0
    BY <2>4 DEF IInv, Greeting
  <2>6. /\ b \in Session /\ b.greetings = session.greetings /\ b.tools = session.tools
        /\ b.vad = session.vad /\ b.answered = session.answered
    BY <1>1 DEF Begun, Session
  <2>7. session' = [b EXCEPT !.playing = TRUE, !.greetings = b.greetings + 1]
    BY <1>6
  <2> HIDE DEF b
  <2>8. session' = [b EXCEPT !.playing = TRUE, !.greetings = 1]
    <3>1. b.greetings + 1 = 1
      BY <2>5, <2>6
    <3> QED BY <2>7, <3>1
  <2>9. /\ session' \in Session /\ session'.greetings = 1
        /\ session'.tools = session.tools /\ session'.vad = session.vad
        /\ session'.answered = session.answered
    <3> DEFINE p == [b EXCEPT !.playing = TRUE]
    <3>1. /\ p \in Session /\ p.tools = b.tools /\ p.vad = b.vad
          /\ p.answered = b.answered
      BY <2>6 DEF Session
    <3>2. session' = [p EXCEPT !.greetings = 1]
      BY <2>8
    <3> HIDE DEF p
    <3>3. 1 \in 0 .. 1
      OBVIOUS
    <3>4. /\ session' \in Session /\ session'.greetings = 1
          /\ session'.tools = p.tools /\ session'.vad = p.vad
          /\ session'.answered = p.answered
      BY <3>1, <3>2, <3>3 DEF Session
    <3> QED BY <2>6, <3>1, <3>4
  <2>10. Reports(<<h>>)
    BY <1>6
  <2> HIDE DEF h
  <2> QED BY <1>1, <2>1, <2>3, <2>9, <2>10, ReportedDoes
<1>7. CASE /\ e.kind = "create" /\ session.active = "none"
           /\ session' = [Begun(session, IF e.ok THEN "reply" ELSE "words")
                            EXCEPT !.answered = @ \cup e.id]
           /\ Reports(<<Created("reply")>>)
  <2> DEFINE h == Created("reply")
             a == IF e.ok THEN "reply" ELSE "words"
             b == Begun(session, a)
  <2>1. <<h>> \in Seq(Heard) /\ ~In(<<h>>, Stops) /\ ~In(<<h>>, Breaks)
    BY <1>3, <1>4
  <2>2. a \in {"reply", "words"}
    OBVIOUS
  <2>3. session' = [b EXCEPT !.answered = @ \cup e.id] /\ Reports(<<h>>)
    BY <1>7
  <2> HIDE DEF a
  <2>4. /\ b \in Session /\ b.greetings = session.greetings /\ b.active = a
        /\ b.tools = session.tools /\ b.playing = session.playing
        /\ b.vad = session.vad /\ b.answered = session.answered
    BY <1>1, <2>2 DEF Begun, Session
  <2> HIDE DEF b
  <2>5. /\ session' \in Session /\ session'.greetings = session.greetings
        /\ session'.active = a /\ session'.playing = session.playing
        /\ session'.tools = session.tools /\ session'.vad = session.vad
        /\ session'.answered = session.answered \cup e.id
    BY <1>2, <1>7, <2>3, <2>4 DEF Session, Calls
  <2>6. \A x \in e.id : Takes(About(x))
    BY <1>1, <1>2, <1>7, KindFacts DEF Takes, e
  <2>7. \A x \in session'.answered : x \in session.answered \/ Takes(About(x))
    BY <2>5, <2>6
  <2> HIDE DEF h
  <2> QED BY <1>1, <2>1, <2>2, <2>3, <2>5, <2>7, ReportedDoes
<1> QED BY <1>1, <1>5, <1>6, <1>7

\* What is spoken is stopped, or what is played.
LEMMA ObeySilence ==
  ASSUME IInv, Obey, Head(outbox).kind \in {"cancel", "clear"}
  PROVE  \E evs : Does(evs)
<1> DEFINE e == Head(outbox)
           error == Event("error", "none", FALSE)
           done == Event("done", "greeting", FALSE)
           stopped == Event("stopped", "greeting", TRUE)
<1>1. /\ session \in Session /\ call' = call /\ outbox # <<>> /\ outbox' = Tail(outbox)
      /\ call.pc = "attached" /\ outbox \in Seq(Told)
  BY DEF IInv, Typed, Obey, Attached
<1>2. \/ session' = session /\ Reports(<<error>>)
      \/ /\ e.kind = "cancel" /\ session.active = "greeting"
         /\ session' = [session EXCEPT !.active = "none"] /\ Reports(<<done>>)
      \/ /\ session' = [session EXCEPT !.playing = FALSE]
         /\ session.playing /\ Reports(<<stopped>>)
      \/ session' = [session EXCEPT !.playing = FALSE] /\ Reports(<<>>)
  <2>1. CASE e.kind = "cancel"
    BY <2>1 DEF Obey
  <2>2. CASE e.kind = "clear"
    BY <2>2 DEF Obey
  <2> QED BY <2>1, <2>2
<1>3. e \in Told
  BY <1>1
<1>4. e.kind = "cancel" => Takes(Cancels)
  BY <1>1, <1>3, KindFacts DEF Takes
<1> HIDE DEF e
<1>5. /\ error \in Heard /\ error \notin Stops /\ error \notin Breaks
      /\ done \in Heard /\ done \notin Stops
      /\ stopped \in Heard /\ stopped \notin Breaks
  BY HeardFacts
<1> HIDE DEF error, done, stopped
<1>6. ASSUME NEW h \in Heard, NEW E
      PROVE  /\ <<h>> \in Seq(Heard) /\ (In(<<h>>, E) <=> h \in E)
             /\ <<>> \in Seq(Heard) /\ ~In(<<>>, E)
  BY FewFacts
<1>7. /\ <<error>> \in Seq(Heard) /\ ~In(<<error>>, Stops) /\ ~In(<<error>>, Breaks)
      /\ <<done>> \in Seq(Heard) /\ ~In(<<done>>, Stops)
      /\ <<stopped>> \in Seq(Heard) /\ ~In(<<stopped>>, Breaks)
      /\ <<>> \in Seq(Heard) /\ ~In(<<>>, Stops) /\ ~In(<<>>, Breaks)
  BY <1>5, <1>6
<1>8. CASE session' = session /\ Reports(<<error>>)
  BY <1>1, <1>7, <1>8, ReportedDoes
<1>9. CASE /\ e.kind = "cancel" /\ session.active = "greeting"
           /\ session' = [session EXCEPT !.active = "none"] /\ Reports(<<done>>)
  <2>1. /\ session' \in Session /\ session'.greetings = session.greetings
        /\ session'.active = "none" /\ session'.playing = session.playing
        /\ session'.tools = session.tools /\ session'.vad = session.vad
        /\ session'.answered = session.answered
    BY <1>1, <1>9 DEF Session
  <2> QED BY <1>1, <1>4, <1>7, <1>9, <2>1, ReportedDoes
<1>10. ASSUME session' = [session EXCEPT !.playing = FALSE]
       PROVE  /\ session' \in Session /\ session'.greetings = session.greetings
              /\ session'.active = session.active /\ ~session'.playing
              /\ session'.tools = session.tools /\ session'.vad = session.vad
              /\ session'.answered = session.answered
  BY <1>1, <1>10 DEF Session
<1>11. CASE /\ session' = [session EXCEPT !.playing = FALSE]
            /\ session.playing /\ Reports(<<stopped>>)
  BY <1>1, <1>7, <1>10, <1>11, ReportedDoes
<1>12. CASE session' = [session EXCEPT !.playing = FALSE] /\ Reports(<<>>)
  BY <1>1, <1>7, <1>10, <1>12, ReportedDoes
<1> QED BY <1>2, <1>8, <1>9, <1>11, <1>12

\* An output or an approval.
LEMMA ObeyAnswers ==
  ASSUME IInv, Obey, Head(outbox).kind \in {"output", "approval"}
  PROVE  \E evs : Does(evs)
<1> DEFINE e == Head(outbox)
<1>1. /\ session \in Session /\ call' = call /\ outbox # <<>> /\ outbox' = Tail(outbox)
      /\ call.pc = "attached" /\ outbox \in Seq(Told) /\ e \in Told
  BY DEF IInv, Typed, Obey, Attached
<1>2. /\ Reports(<<>>)
      /\ \/ /\ e.kind = "output"
            /\ session' = [session EXCEPT !.answered = @ \cup {e.id}]
         \/ /\ e.kind = "approval"
            /\ session' = [session EXCEPT !.asked = @ \ {e.id},
                             !.running = IF e.ok THEN @ \cup {e.id} ELSE @]
  <2>1. CASE e.kind = "output"
    BY <2>1 DEF Obey
  <2>2. CASE e.kind = "approval"
    BY <2>2 DEF Obey
  <2> QED BY <2>1, <2>2
<1>3. e.kind = "output" => Takes(About(e.id))
  BY <1>1, KindFacts DEF Takes
<1> HIDE DEF e
<1>4. /\ e.kind = "output" => e.id \in LocalCalls
      /\ e.kind = "approval" => e.id \in McpCalls
  BY <1>1 DEF Told
<1>5. <<>> \in Seq(Heard) /\ ~In(<<>>, Stops) /\ ~In(<<>>, Breaks)
  BY DEF In
<1>6. CASE e.kind = "output" /\ session' = [session EXCEPT !.answered = @ \cup {e.id}]
  <2>1. /\ session' \in Session /\ session'.greetings = session.greetings
        /\ session'.active = session.active /\ session'.playing = session.playing
        /\ session'.tools = session.tools /\ session'.vad = session.vad
        /\ session'.answered = session.answered \cup {e.id}
    BY <1>1, <1>4, <1>6 DEF Session, Calls
  <2>2. \A x \in session'.answered : x \in session.answered \/ Takes(About(x))
    BY <1>3, <1>6, <2>1
  <2> QED BY <1>1, <1>2, <1>5, <2>1, <2>2, ReportedDoes
<1>7. CASE /\ e.kind = "approval"
           /\ session' = [session EXCEPT !.asked = @ \ {e.id},
                            !.running = IF e.ok THEN @ \cup {e.id} ELSE @]
  <2> DEFINE running == IF e.ok THEN session.running \cup {e.id} ELSE session.running
  <2>1. running \in SUBSET McpCalls
    BY <1>1, <1>4, <1>7 DEF Session
  <2>2. session' = [session EXCEPT !.asked = @ \ {e.id}, !.running = running]
    BY <1>1, <1>7
  <2> HIDE DEF running
  <2>3. /\ session' \in Session /\ session'.greetings = session.greetings
        /\ session'.active = session.active /\ session'.playing = session.playing
        /\ session'.tools = session.tools /\ session'.vad = session.vad
        /\ session'.answered = session.answered
    BY <1>1, <2>1, <2>2 DEF Session
  <2> QED BY <1>1, <1>2, <1>5, <2>3, ReportedDoes
<1> QED BY <1>2, <1>6, <1>7

\* So every step of the session.
LEMMA SessionDoes ==
  ASSUME IInv,
         \/ Obey \/ ResponseEnds \/ PlaybackEnds \/ CallerSpeaks
         \/ \E f \in LocalCalls : CallsFunction(f)
         \/ \E m \in McpCalls : CallsMemory(m) \/ MemoryAnswers(m)
  PROVE  \E evs : Does(evs)
<1>1. CASE Obey
  <2>1. outbox \in Seq(Told) /\ outbox # <<>>
    BY <1>1 DEF IInv, Typed, Obey
  <2>2. Head(outbox).kind \in {"update", "listen", "greet", "cancel", "clear",
                                "output", "create", "approval"}
    <3>1. Head(outbox) \in Told
      BY <2>1
    <3> QED BY <3>1 DEF Told
  <2> QED BY <1>1, <2>2, ObeySettings, ObeyResponses, ObeySilence, ObeyAnswers
<1> QED BY <1>1, ResponseEndsDoes, PlaybackEndsDoes, CallerSpeaksDoes, FunctionDoes,
           MemoryDoes

-----------------------------------------------------------------------------
(* Before the sideband. *)

\* A caller who is resolved or accepted has heard nothing yet.
LEMMA EarlyKeeps ==
  ASSUME IInv, call.pc \in {"incoming", "accepting"},
         inbox' = inbox, outbox' = outbox, call' \in Call, session' \in Session,
         call'.pc \in {"accepting", "connecting", "ended"}, call'.status # "none",
         call'.d = call.d, call'.requested = call.requested,
         call'.released = call.released, call'.handled = call.handled,
         call'.continued = call.continued, call'.pending = call.pending,
         call'.active = call.active, session'.greetings = session.greetings,
         session'.playing = session.playing, session'.active = session.active,
         session'.answered = session.answered, session'.tools # "memory",
         call'.pc = "accepting" => session'.tools = "none",
         call'.pc = "connecting" /\ Guarded => ~session'.vad
  PROVE  IInv'
<1>1. /\ outbox = <<>> /\ session.greetings = 0 /\ call.released = "no"
      /\ ~session.playing
  BY DEF IInv, Stages, Greeting
<1>2. Guarded' = Guarded
  BY DEF Guarded, D
<1>3. ASSUME NEW E PROVE ~In(outbox, E)
  BY <1>1 DEF In
<1>4. ASSUME NEW E PROVE In(outbox', E) <=> In(outbox, E)
  BY DEF In
<1>5. ASSUME NEW E PROVE In(inbox', E) <=> In(inbox, E)
  BY DEF In
<1>6. ASSUME NEW E PROVE Once(outbox', E)
  BY <1>1 DEF Once
<1>7. Typed'
  BY DEF IInv, Typed
<1>8. Stages'
  BY <1>1 DEF Stages
<1>9. Greeting'
  <2>1. ~In(outbox', Greets) /\ Once(outbox', Greets)
    BY <1>3, <1>4, <1>6
  <2>2. session.playing \/ session.active = "greeting" => session.greetings = 1
    BY DEF IInv, Greeting
  <2> QED BY <1>1, <2>1, <2>2 DEF Greeting
<1>10. Opening'
  <2>1. ~In(outbox', Listens) /\ ~In(outbox', Cancels)
    BY <1>3, <1>4
  <2>2. ~In(inbox', Stops) /\ ~In(inbox', Breaks)
    BY <1>1, <1>5 DEF IInv, Opening
  <2> QED BY <1>1, <1>2, <2>1, <2>2 DEF Opening
<1>11. Granted'
  <2>1. ~In(outbox', Grants)
    BY <1>3, <1>4
  <2> QED BY <2>1 DEF Granted
<1>12. Answers'
  <2>1. \A x : Spoken(call', x) <=> Spoken(call, x)
    BY DEF Spoken
  <2>2. ASSUME NEW x \in Calls
        PROVE  /\ Once(outbox', About(x)) /\ ~In(outbox', About(x))
               /\ x \in session'.answered => Spoken(call', x)
    <3>1. Once(outbox', About(x)) /\ ~In(outbox', About(x))
      BY <1>3, <1>4, <1>6
    <3> QED BY <2>1, <3>1 DEF IInv, Answers
  <2>3. /\ ~call'.active => call'.pending = {}
        /\ call'.pending \cap call'.continued = {}
    BY DEF IInv, Answers
  <2> QED BY <2>2, <2>3 DEF Answers
<1> QED BY <1>7, <1>8, <1>9, <1>10, <1>11, <1>12 DEF IInv

\* The caller is resolved.
LEMMA ResolveKeeps == ASSUME IInv, Resolve PROVE IInv'
<1>1. PICK status \in Resolutions :
        call' = [call EXCEPT !.pc = "accepting", !.status = status]
  BY DEF Resolve
<1>2. status \in Statuses /\ status # "none"
  BY DEF Resolutions, Statuses
<1>3. call \in Call /\ session \in Session /\ session.tools = "none"
  BY DEF IInv, Typed, Stages, Resolve
<1>4. /\ call' \in Call /\ call'.pc = "accepting" /\ call'.status = status
      /\ call'.d = call.d /\ call'.requested = call.requested
      /\ call'.released = call.released /\ call'.handled = call.handled
      /\ call'.continued = call.continued /\ call'.pending = call.pending
      /\ call'.active = call.active
  BY <1>1, <1>2, <1>3 DEF Call
<1>5. /\ call.pc = "incoming" /\ session' = session
      /\ inbox' = inbox /\ outbox' = outbox
  BY DEF Resolve
<1> QED BY <1>2, <1>3, <1>4, <1>5, EarlyKeeps

\* The call is refused, or accepted; a live session may be offered tools that read.
LEMMA AcceptKeeps == ASSUME IInv, Accept PROVE IInv'
<1>1. /\ call \in Call /\ session \in Session /\ session.tools = "none"
      /\ call.status # "none" /\ call.pc = "accepting"
      /\ inbox' = inbox /\ outbox' = outbox
  BY DEF IInv, Typed, Stages, Accept
<1>2. PICK pc \in {"connecting", "ended"} : call' = [call EXCEPT !.pc = pc]
  BY DEF Accept
<1>3. /\ call' \in Call /\ call'.pc = pc /\ call'.status = call.status
      /\ call'.d = call.d /\ call'.requested = call.requested
      /\ call'.released = call.released /\ call'.handled = call.handled
      /\ call'.continued = call.continued /\ call'.pending = call.pending
      /\ call'.active = call.active
  BY <1>1, <1>2 DEF Call
<1>4. /\ session' \in Session /\ session'.greetings = session.greetings
      /\ session'.playing = session.playing /\ session'.active = session.active
      /\ session'.answered = session.answered /\ session'.tools # "memory"
      /\ pc = "connecting" /\ Guarded => ~session'.vad
  <2>1. CASE /\ session' = [session EXCEPT !.vad = ~Guarded,
                  !.tools = IF D.api = "live" THEN Offered ELSE "none"]
    <3> DEFINE tools == IF D.api = "live" THEN Offered ELSE "none"
               vad == ~Guarded
    <3>1. tools \in Tools /\ tools # "memory"
      BY <1>1, OfferFacts DEF Tools
    <3>2. session' = [session EXCEPT !.vad = vad, !.tools = tools]
      BY <2>1
    <3>3. vad \in BOOLEAN /\ (Guarded => ~vad)
      OBVIOUS
    <3> HIDE DEF tools, vad
    <3>4. /\ session' \in Session /\ session'.greetings = session.greetings
          /\ session'.playing = session.playing /\ session'.active = session.active
          /\ session'.answered = session.answered /\ session'.tools = tools
          /\ session'.vad = vad
      BY <1>1, <3>1, <3>2, <3>3 DEF Session
    <3> QED BY <3>1, <3>3, <3>4
  <2>2. CASE call' = [call EXCEPT !.pc = "ended"] /\ session' = session
    <3>1. pc = "ended"
      BY <1>3, <2>2, <1>1 DEF Call
    <3> QED BY <1>1, <2>2, <3>1
  <2> QED BY <2>1, <2>2 DEF Accept
<1> QED BY <1>1, <1>3, <1>4, EarlyKeeps

-----------------------------------------------------------------------------
(* The theorems. *)

\* The invariant holds of a call that has just come in.
LEMMA Initially == ASSUME CallInit PROVE IInv
<1>1. PICK d \in Deployments :
         call = [d |-> d, pc |-> "incoming", status |-> "none",
                 requested |-> FALSE, released |-> "no", deadline |-> FALSE,
                 greeting |-> FALSE, active |-> FALSE, handled |-> {},
                 continued |-> {}, pending |-> {}, followups |-> 0,
                 confirmed |-> FALSE]
  BY DEF CallInit
<1>2. /\ session = [vad |-> TRUE, tools |-> "none", active |-> "none",
                    playing |-> FALSE, greetings |-> 0, turns |-> 0, made |-> {},
                    asked |-> {}, running |-> {}, unspoken |-> {}, answered |-> {}]
      /\ inbox = <<>> /\ outbox = <<>>
  BY DEF CallInit
<1>3. 0 \in 0 .. MaxFollowups
  BY DEF MaxFollowups
<1>4. call \in Call
  BY <1>1, <1>3 DEF Call, Statuses
<1>5. session \in Session
  BY <1>2 DEF Session, Tools
<1>6. ASSUME NEW E PROVE ~In(outbox, E) /\ ~In(inbox, E) /\ Once(outbox, E)
  BY <1>2 DEF In, Once
<1>7. Typed
  BY <1>2, <1>4, <1>5 DEF Typed
<1>8. Stages
  BY <1>1, <1>2 DEF Stages
<1>9. Greeting
  BY <1>1, <1>2, <1>6 DEF Greeting
<1>10. Opening
  BY <1>1, <1>2, <1>6 DEF Opening
<1>11. Granted
  BY <1>2, <1>6 DEF Granted
<1>12. Answers
  <2>1. \A x \in Calls : Once(outbox, About(x)) /\ ~In(outbox, About(x))
    BY <1>6
  <2> QED BY <1>1, <1>2, <2>1 DEF Answers
<1> QED BY <1>7, <1>8, <1>9, <1>10, <1>11, <1>12 DEF IInv

\* Every step keeps it.
LEMMA Inductive == ASSUME IInv, [CallNext]_callVars PROVE IInv'
<1>1. CASE Connect \/ OpeningTimeout \/ Sideband
  BY <1>1, ServiceSays, SaysKeeps
<1>2. CASE \/ Obey \/ ResponseEnds \/ PlaybackEnds \/ CallerSpeaks
           \/ \E f \in LocalCalls : CallsFunction(f)
           \/ \E m \in McpCalls : CallsMemory(m) \/ MemoryAnswers(m)
  BY <1>2, SessionDoes, DoesKeeps
<1>3. CASE UNCHANGED callVars
  <2>1. call' = call /\ session' = session /\ inbox' = inbox /\ outbox' = outbox
    BY <1>3 DEF callVars
  <2>2. Typed' /\ Stages' /\ Guarded' = Guarded
    BY <2>1 DEF IInv, Typed, Stages, Guarded, D
  <2>3. ASSUME NEW E
        PROVE  /\ In(outbox', E) <=> In(outbox, E)
               /\ In(inbox', E) <=> In(inbox, E)
               /\ Once(outbox', E) <=> Once(outbox, E)
    BY <2>1
  <2>4. Greeting' /\ Opening'
    BY <2>1, <2>2, <2>3 DEF IInv, Greeting, Opening
  <2>5. Granted'
    BY <2>1, <2>3 DEF IInv, Granted, Trusted, Recognized, D
  <2>6. Answers'
    BY <2>1, <2>3 DEF IInv, Answers
  <2> QED BY <2>2, <2>4, <2>5, <2>6 DEF IInv
<1> QED BY <1>1, <1>2, <1>3, ResolveKeeps, AcceptKeeps, LoseKeeps DEF CallNext

\* Controller and session stay well formed, and each stream carries only events that
\* its other end has a handler for.
THEOREM CallTyped == CallSpec => []Typed
<1>1. IInv => Typed
  BY DEF IInv
<1> QED BY Initially, Inductive, <1>1, PTL DEF CallSpec

\* The caller is greeted at most once, and the session never told to greet twice:
\* only the first confirmed update asks for a greeting.
THEOREM GreetsOnce == CallSpec => []GreetedAtMostOnce
<1>1. IInv => GreetedAtMostOnce
  BY DEF IInv, Typed, Session, GreetedAtMostOnce
<1> QED BY Initially, Inductive, <1>1, PTL DEF CallSpec

\* The greeting is not cut off by noise: turn detection is only switched on again
\* when what could be played has been, or when the time for it is up.
THEOREM OpeningHeard == CallSpec => []OpeningUninterrupted
<1>1. IInv => OpeningUninterrupted
  BY DEF IInv, Opening, OpeningUninterrupted
<1> QED BY Initially, Inductive, <1>1, PTL DEF CallSpec

\* The memory is in the hands of a caller who was recognized or whose code was
\* confirmed, however late the session takes the update that hands it out.
THEOREM MemoryForTrusted == CallSpec => []MemoryOnlyForTrusted
<1>1. IInv => MemoryOnlyForTrusted
  BY DEF IInv, Granted, Trusted, MemoryOnlyForTrusted
<1> QED BY Initially, Inductive, <1>1, PTL DEF CallSpec

\* What is reported twice is answered once: the answer to a call is on its way once,
\* or was taken once, and never both.
THEOREM AnswersOnce == CallSpec => []AnsweredOnce
<1>1. ASSUME IInv PROVE AnsweredOnce
  <2> SUFFICES ASSUME NEW x \in LocalCalls \cup McpCalls
               PROVE  LET about(e) == \/ e.kind = "output" /\ e.id = x
                                      \/ e.kind = "create" /\ x \in e.id
                          coming == {i \in DOMAIN outbox : about(outbox[i])}
                      IN  Cardinality(coming)
                            + Cardinality(session.answered \cap {x}) <= 1
    BY DEF AnsweredOnce
  <2> DEFINE about(e) == \/ e.kind = "output" /\ e.id = x
                         \/ e.kind = "create" /\ x \in e.id
             coming == {i \in DOMAIN outbox : about(outbox[i])}
             taken == session.answered \cap {x}
  <2>1. /\ outbox \in Seq(Told) /\ Once(outbox, About(x))
        /\ In(outbox, About(x)) => x \notin session.answered
    BY <1>1 DEF IInv, Typed, Answers, Calls
  <2>2. \A i \in DOMAIN outbox : outbox[i] \in Told
    BY <2>1
  <2>3. \A i \in coming : outbox[i] \in About(x)
    BY <2>2 DEF About
  <2>4. coming \subseteq DOMAIN outbox
    OBVIOUS
  <2> HIDE DEF coming
  <2>5. /\ \A i, j \in coming : i = j
        /\ coming # {} => x \notin session.answered
    BY <2>1, <2>3, <2>4 DEF Once, In
  <2>6. coming = {} \/ \E i : coming = {i}
    BY <2>5
  <2>7. taken = {} \/ (taken = {x} /\ coming = {})
    BY <2>5
  <2> HIDE DEF taken
  <2>8. /\ Cardinality({}) = 0 /\ \A i : Cardinality({i}) = 1
    BY FS_EmptySet, FS_Singleton
  <2>9. Cardinality(coming) \in {0, 1} /\ (coming = {} => Cardinality(coming) = 0)
    BY <2>6, <2>8
  <2>10. Cardinality(taken) \in {0, 1} /\ (taken = {} => Cardinality(taken) = 0)
    BY <2>7, <2>8
  <2>11. Cardinality(coming) + Cardinality(taken) <= 1
    <3>1. Cardinality(coming) = 0 \/ Cardinality(taken) = 0
      BY <2>7, <2>9, <2>10
    <3> QED BY <2>9, <2>10, <3>1
  <2> QED BY <2>11 DEF coming, taken
<1> QED BY Initially, Inductive, <1>1, PTL DEF CallSpec
=============================================================================
