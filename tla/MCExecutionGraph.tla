-------------------------- MODULE MCExecutionGraph --------------------------
(***************************************************************************)
(* Two plans for TLC.  "fetch" must be completed before "book", which the  *)
(* owner must also have approved; "mail" depends on nothing and is handled *)
(* by the second worker only.                                              *)
(***************************************************************************)
EXTENDS ExecutionGraph, FiniteSets

CONSTANTS fetch, book, mail, approval, researcher, mailer, alice, bob, yes, no

MCPrereqs == [s \in Steps |-> IF s = book THEN {fetch} ELSE {}]
MCGatesOf == [s \in Steps |-> IF s = book THEN {approval} ELSE {}]
MCMaxAttempts == [s \in Steps |-> IF s = book THEN 3 ELSE 2]
MCHandles == [w \in Workers |-> IF w = mailer THEN Steps ELSE Steps \ {mail}]
MCOwner == [g \in Gates |-> alice]
MCOptionsOf == [g \in Gates |-> {yes, no}]

\* The published n8n workers: "n8n-complete:<claim>" and "n8n-fail:<claim>".
ClaimKey(kind, n) == <<kind, n>>
ClaimKeys == {ClaimKey(kind, n) : kind \in Kinds, n \in 1 .. 3}
=============================================================================
