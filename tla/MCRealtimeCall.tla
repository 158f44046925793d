---------------------------- MODULE MCRealtimeCall --------------------------
(***************************************************************************)
(* A live session; enrolment by code, where callers may return or where    *)
(* memory calls pass a gate; returning callers with the graph and without  *)
(* enrolment; and neither.                                                 *)
(***************************************************************************)
EXTENDS RealtimeCall

Deployment(api, graph, invite, resume, gate) ==
    [api |-> api, graph |-> graph, tools |-> TRUE, invite |-> invite,
     resume |-> resume, gate |-> gate]

MCDeployments ==
    {Deployment("live", FALSE, FALSE, FALSE, FALSE),
     Deployment("realtime", TRUE, TRUE, TRUE, FALSE),
     Deployment("realtime", FALSE, TRUE, FALSE, TRUE),
     Deployment("realtime", TRUE, FALSE, TRUE, FALSE),
     Deployment("realtime", FALSE, FALSE, FALSE, FALSE)}
=============================================================================
