---------------------------- MODULE LiveCallMerge ---------------------------
(***************************************************************************)
(* Merging two live calls into a conference: the merge requests            *)
(* (propose_, answer_, claim_ and complete_live_call_merge behind the      *)
(* endpoint live-call-merge), the voice bridge that executes them, and the *)
(* sessions of LiveCalls, which all of them and the callbacks change.      *)
(*                                                                         *)
(* Every function locks the request and the sessions it reads, so a call   *)
(* is one action, and any caller may make it at any time.  The bridge is   *)
(* one request handler with many awaits; it may stop between any two of    *)
(* them.  An operation of the provider may fail, or take effect although   *)
(* its answer is an error or is lost.                                      *)
(***************************************************************************)
EXTENDS LiveCalls

CONSTANTS
    Merges,     \* merge requests, named by their idempotency key
    None        \* SQL NULL

\* room_ref is 'merge-' and the id of the request; no other place of a call is
\* named so.
ASSUME RoomAssumption == /\ Rooms = Merges
                         /\ Rooms \cap {"ringing", "up", "missed", "gone"} = {}
ASSUME NoneAssumption == None \notin Calls \cup {"approved", "denied"}

VARIABLES
    merge,      \* rows of live_call_merge_requests
    bridge,     \* bridge[m]: how far the execution of m is
    starts      \* starts[m]: executions the bridge has started for m

mergeVars == <<merge, bridge, starts>>
vars == <<callVars, mergeVars>>

-----------------------------------------------------------------------------
Answered == {"approved", "denied"}
Final == {"denied", "expired", "joined", "failed"}

\* "by" is the call the owner's answer came through.
MergeRow == [status : {"absent", "offered", "approved", "executing"} \cup Final,
             from : Calls \cup {None}, to : Calls \cup {None},
             late : BOOLEAN, answer : Answered \cup {None},
             by : Calls \cup {None}]

Phases == {"idle", "claimed", "ready", "agent", "guest", "owner", "erred", "over",
           "dead"}

Init == /\ CallsInit
        /\ merge = [m \in Merges |-> [status |-> "absent", from |-> None,
                                      to |-> None, late |-> FALSE,
                                      answer |-> None, by |-> None]]
        /\ bridge = [m \in Merges |-> "idle"]
        /\ starts = [m \in Merges |-> 0]

Between(m) == {merge[m].from, merge[m].to}

Live(c) == session[c].status \in {"ringing", "active"}

-----------------------------------------------------------------------------
(* The four functions.  A refused call changes nothing; nor does a repeated *)
(* proposal.                                                                *)

Propose(m, from, to) ==
    /\ merge[m].status = "absent"
    /\ from # to
    /\ Live(from) /\ Live(to)
    /\ merge' = [merge EXCEPT ![m].status = "offered",
                              ![m].from = from, ![m].to = to]
    /\ UNCHANGED <<callVars, bridge, starts>>

\* Mutant: any call may answer.
AnswerFromAnyCall(m, c, answer) ==
    /\ merge[m].status = "offered"
    /\ ~merge[m].late
    /\ \A d \in Between(m) : Live(d)
    /\ merge' = [merge EXCEPT ![m].status = answer, ![m].answer = answer,
                              ![m].by = c]
    /\ UNCHANGED <<callVars, bridge, starts>>

Answer(m, c, answer) ==
    /\ merge[m].status = "offered"
    /\ c = merge[m].from
    /\ IF merge[m].late
       THEN merge' = [merge EXCEPT ![m].status = "expired"]
       ELSE /\ \A d \in Between(m) : Live(d)
            /\ merge' = [merge EXCEPT ![m].status = answer,
                                      ![m].answer = answer, ![m].by = c]
    /\ UNCHANGED <<callVars, bridge, starts>>

\* status = 'merging' for both sessions.
Merging(m) == session' = [c \in Calls |->
                            IF c \in Between(m)
                            THEN [session[c] EXCEPT !.status = "merging"]
                            ELSE session[c]]

\* Bound to the requesting call.  A request that is executing or joined is
\* returned with replayed = true, and the bridge does nothing.
Claim(m) ==
    /\ merge[m].status = "approved"
    /\ IF merge[m].late
       THEN /\ merge' = [merge EXCEPT ![m].status = "expired"]
            /\ UNCHANGED <<session, bridge, starts>>
       ELSE /\ \A c \in Between(m) : Live(c)
            /\ merge' = [merge EXCEPT ![m].status = "executing"]
            /\ Merging(m)
            /\ bridge' = [bridge EXCEPT ![m] = "claimed"]
            /\ starts' = [starts EXCEPT ![m] = @ + 1]
    /\ UNCHANGED <<leg, heard, presence, fetched>>

\* Mutant: the target is forgotten.
ActiveRequester(m) ==
    session' = [c \in Calls |->
                  IF c = merge[m].from /\ session[c].status = "merging"
                  THEN [session[c] EXCEPT !.status = "active"] ELSE session[c]]

Active(m) ==
    session' = [c \in Calls |->
                  IF c \in Between(m) /\ session[c].status = "merging"
                  THEN [session[c] EXCEPT !.status = "active"] ELSE session[c]]

\* complete_live_call_merge_execution.
Complete(m, result) ==
    /\ merge[m].status = "executing"
    /\ merge' = [merge EXCEPT ![m].status = result]
    /\ Active(m)

\* expires_at passes.
Expire(m) == /\ merge[m].status \notin {"absent"} \cup Final
             /\ ~merge[m].late
             /\ merge' = [merge EXCEPT ![m].late = TRUE]
             /\ UNCHANGED <<callVars, bridge, starts>>

-----------------------------------------------------------------------------
(* execute_conference_merge and perform_conference_merge.                   *)

Goes(m, phase) == /\ bridge' = [bridge EXCEPT ![m] = phase]
                  /\ UNCHANGED <<merge, starts, session, heard, presence, fetched>>

\* Both calls are in progress at the provider, or the request fails.
Preflight(m) ==
    /\ bridge[m] = "claimed"
    /\ \/ Goes(m, "ready") /\ \A c \in Between(m) : OnLine(c)
       \/ Goes(m, "erred")
    /\ UNCHANGED leg

\* The leg of the assistant joins the room.
CreateAgent(m) == /\ bridge[m] = "ready"
                  /\ Goes(m, "agent") \/ Goes(m, "erred")
                  /\ UNCHANGED leg

Redirected(m, c) == OnLine(c) /\ leg' = [leg EXCEPT ![c] = m]

Redirect(m, c, before, after) ==
    /\ bridge[m] = before
    /\ \/ Redirected(m, c) /\ Goes(m, after)
       \/ Redirected(m, c) /\ Goes(m, "erred")      \* its answer is lost
       \/ UNCHANGED leg /\ Goes(m, "erred")

\* The report, after which the handler is done; a request that was completed
\* before stays as it is.
Report(m) ==
    /\ bridge[m] \in {"owner", "erred"}
    /\ Complete(m, IF bridge[m] = "owner" THEN "joined" ELSE "failed")
    /\ bridge' = [bridge EXCEPT ![m] = "over"]
    /\ UNCHANGED <<leg, heard, presence, fetched, starts>>

\* The bridge stops, or its report does not arrive.
Crash(m) == /\ bridge[m] \notin {"idle", "over", "dead"}
            /\ Goes(m, "dead")
            /\ UNCHANGED leg

Execute(m) == \/ Preflight(m)
              \/ CreateAgent(m)
              \/ Redirect(m, merge[m].to, "agent", "guest")
              \/ Redirect(m, merge[m].from, "guest", "owner")
              \/ Report(m)

-----------------------------------------------------------------------------
MergeNext == \E m \in Merges :
                \/ \E c, d \in Calls : Propose(m, c, d)
                \/ \E c \in Calls, answer \in Answered : Answer(m, c, answer)
                \/ Claim(m)
                \/ Expire(m)
                \/ Execute(m) \/ Crash(m)

Next == MergeNext \/ (CallsNext /\ UNCHANGED mergeVars)

Spec == Init /\ [][Next]_vars

\* A handler that is not stopped goes on, time passes, and callbacks come.
FairSpec == /\ Spec
            /\ \A m \in Merges : WF_vars(Execute(m)) /\ WF_vars(Expire(m))
            /\ WF_vars(CallsNext /\ UNCHANGED mergeVars)

-----------------------------------------------------------------------------
(* Properties. *)

\* Every row is well formed, a request that was executed had been approved, and
\* the requests that are executing are those the bridge works on or stopped at.
TypeOK ==
    /\ CallsTypeOK
    /\ merge \in [Merges -> MergeRow]
    /\ bridge \in [Merges -> Phases]
    /\ starts \in [Merges -> 0 .. 1]
    /\ \A m \in Merges :
         /\ merge[m].status \in {"executing", "joined", "failed"}
              => merge[m].answer = "approved"
         /\ bridge[m] \notin {"idle", "over"} <=> merge[m].status = "executing"

\* In whatever order they came, once every callback there was reason for has been
\* recorded, and no merge has meddled, the records of a call are right.
QuietCallsAreCurrent ==
    \A c \in Calls :
        /\ \A m \in Merges : c \in Between(m) => starts[m] = 0
        /\ heard[c] # {} /\ AllHeard(c)
        => Current(c)

\* A call is in the room of a merge only if the merge is between it and another,
\* and the owner agreed through the call that asked, whatever callbacks, other
\* merges and repeated requests came in between.
NoMergeWithoutConsent ==
    \A m \in Merges, c \in Calls : leg[c] = m =>
        /\ c \in Between(m)
        /\ merge[m].answer = "approved"
        /\ merge[m].by = merge[m].from

\* No session is left "merging" when the merges it is part of are over; and a request
\* is executing from its one claim, however often it is claimed again, to the one
\* report of the bridge.  If the bridge stops before that ("dead"), it stays so: see
\* MergesAreReconciled.
MergingIsExecuting ==
    /\ \A c \in Calls : session[c].status = "merging" =>
         \E m \in Merges : c \in Between(m) /\ merge[m].status = "executing"
    /\ \A m \in Merges :
         /\ starts[m] <= 1
         /\ bridge[m] \notin {"idle", "over"} <=> merge[m].status = "executing"

\* "Every merge command is idempotent, expires, and is reconciled against Twilio
\* status callbacks." (docs/live-call-orchestration.md:125): one that is executing
\* ends, whatever becomes of the bridge.  It is refuted: nothing but the bridge's own
\* report ends it.
MergesAreReconciled ==
    \A m \in Merges : merge[m].status = "executing" ~> merge[m].status \in Final
=============================================================================
