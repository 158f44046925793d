----------------------------- MODULE WorkLedger -----------------------------
(***************************************************************************)
(* What the execution graph promises the rest of the system, without       *)
(* leases, tokens, keys and events: a ledger of jobs.  A job is handed out *)
(* to one holder at a time, at most MaxAttempts times and only after its   *)
(* prerequisites are done and its gates decided; it ends once, "done" or,  *)
(* with its budget spent, "dead".  A job has to be promised to be handed   *)
(* out, and is promised only while the ledger accepts work.                *)
(***************************************************************************)
EXTENDS Integers

CONSTANTS Steps, Gates, Prereqs, GatesOf, MaxAttempts

VARIABLES
    job,        \* job[s]: its state and how often it was handed out
    decided,    \* the gates that are decided
    accepting,  \* work is still promised
    promised    \* jobs about to be handed out

ledgerVars == <<job, decided, accepting, promised>>

LedgerInit == /\ job = [s \in Steps |-> [state |-> "open", tries |-> 0]]
              /\ decided = {}
              /\ accepting = TRUE
              /\ promised = {}

Held == {s \in Steps : job[s].state = "held"}

\* The holders of the jobs in lost gave them up or vanished.
Without(lost) ==
    [s \in Steps |->
        IF s \notin lost THEN job[s]
        ELSE [state |-> IF job[s].tries < MaxAttempts[s] THEN "open" ELSE "dead",
              tries |-> job[s].tries]]

Lose(lost) == /\ lost \subseteq Held
              /\ job' = Without(lost)
              /\ UNCHANGED <<decided, accepting, promised>>

Eligible(s) == /\ \A p \in Prereqs[s] : job[p].state = "done"
               /\ GatesOf[s] \subseteq decided
               /\ job[s].tries < MaxAttempts[s]

Promise(s) == /\ accepting
              /\ s \notin promised
              /\ Eligible(s)
              /\ promised' = promised \cup {s}
              /\ UNCHANGED <<job, decided, accepting>>

Withdraw(s) == /\ s \in promised
               /\ promised' = promised \ {s}
               /\ UNCHANGED <<job, decided, accepting>>

\* Hand out s, in the same step in which lost jobs come back.
HandOut(lost, s) ==
    /\ s \in promised
    /\ Eligible(s)
    /\ lost \subseteq Held
    /\ Without(lost)[s].state = "open"
    /\ job' = [Without(lost) EXCEPT
                 ![s] = [state |-> "held", tries |-> job[s].tries + 1]]
    /\ promised' = promised \ {s}
    /\ UNCHANGED <<decided, accepting>>

Finish(s) == /\ s \in Held
             /\ job' = [job EXCEPT ![s] = [state |-> "done",
                                           tries |-> job[s].tries]]
             /\ UNCHANGED <<decided, accepting, promised>>

DecideGate(g) == /\ g \notin decided
                 /\ decided' = decided \cup {g}
                 /\ UNCHANGED <<job, accepting, promised>>

Stop == /\ accepting
        /\ accepting' = FALSE
        /\ UNCHANGED <<job, decided, promised>>

LedgerNext ==
    \/ \E lost \in SUBSET Steps :
         Lose(lost) \/ \E s \in Steps : HandOut(lost, s)
    \/ \E s \in Steps : Promise(s) \/ Withdraw(s) \/ Finish(s)
    \/ \E g \in Gates : DecideGate(g)
    \/ Stop

LedgerSpec == LedgerInit /\ [][LedgerNext]_ledgerVars
=============================================================================
