---------------------------- MODULE MemoryFacade ----------------------------
(***************************************************************************)
(* The memory server (litegraph-memory-facade, app.py and the readers of   *)
(* capture.py): tool calls of the voice agent, several at a time, each a   *)
(* coroutine that awaits a request to the graph store or to PostgreSQL     *)
(* between its steps.                                                      *)
(*                                                                         *)
(* It is deployed in one of two modes.  In "legacy" mode memories are      *)
(* nodes of a LiteGraph whose storage may come back empty, in a tenant and *)
(* a graph the facade creates when it first needs them.  In "capture" mode *)
(* a call captures a passage in the inbox, a worker makes facts of it, and *)
(* searches read the graph and then the inbox.  The worker is reduced to   *)
(* what those readers can tell; CaptureQueue has the rest of it.           *)
(* A graph without an inbox is stored to directly, as in GraphMemory.      *)
(***************************************************************************)
EXTENDS Integers, FiniteSets

CONSTANTS
    Modes,          \* the deployments, of "legacy" and "capture"
    Calls,          \* tool calls in flight
    Memories,       \* memories, each the content its GUID is computed from
    NoMemory,
    Captures,       \* passages a caller may have captured
    Limit,          \* max_results of a search
    MaxCalls,       \* bound: calls begun
    MaxFaults       \* bound: faults

ASSUME FacadeAssumption == /\ Modes \subseteq {"legacy", "capture"}
                           /\ Limit \in Nat \ {0}
                           /\ MaxCalls \in Nat /\ MaxFaults \in Nat

VARIABLES
    mode,       \* the settings
    ready,      \* READY_SCOPES of the process
    store,      \* LiteGraph: the tenant, the graph and the memories in it
    row,        \* the state of each capture's row in the inbox
    facts,      \* captures whose facts are in the graph
    ignored,    \* captures the worker found nothing to keep in
    call,       \* the calls
    begun,      \* calls begun so far
    faults      \* faults so far

vars == <<mode, ready, store, row, facts, ignored, call, begun, faults>>
inbox == <<row, facts, ignored>>

-----------------------------------------------------------------------------
EmptyStore == [tenant |-> FALSE, graph |-> FALSE, nodes |-> {}]

Ended == {"partial", "needs_attention", "complete"}

\* "about" is the memory a save is about, "named" the one a call asked for and did
\* not find, "seen" what a search has found so far.  The rest is a history: of the
\* moment the call began the faults there had been ("since"), whether the scope was
\* taken for ready though it was lost ("stale"), the memories there were ("had") and
\* the passages captured ("before"); and the passages a worker finished between the
\* two readings of a call ("moved").
NoCall == [op |-> "none", pc |-> "idle", about |-> NoMemory, named |-> NoMemory,
           seen |-> {}, more |-> FALSE, answer |-> "none",
           since |-> 0, stale |-> FALSE, had |-> {}, before |-> {}, moved |-> {}]

Init == /\ mode \in Modes
        /\ ready = FALSE
        /\ store = EmptyStore
        /\ row = [c \in Captures |-> "absent"]
        /\ facts = {} /\ ignored = {}
        /\ call = [r \in Calls |-> NoCall]
        /\ begun = 0 /\ faults = 0

At(r, pc) == call[r].pc = pc
Goes(r, pc) == call' = [call EXCEPT ![r].pc = pc]
Answers(r, answer) == call' = [call EXCEPT ![r].pc = "answered",
                                           ![r].answer = answer]

-----------------------------------------------------------------------------
(* mcp: a call begins, and its answer is taken. *)

\* With an inbox, memory_get and memory_capture_status read one record, and are left
\* out.
Ops == IF mode = "legacy" THEN {"search", "get", "store"}
                          ELSE {"search", "capture", "orientation"}

Captured == {c \in Captures : row[c] # "absent"}

\* In legacy mode every handler first ensures the scope, and only then looks at
\* its arguments.
Begin(r, op) ==
    /\ At(r, "idle") /\ op \in Ops /\ begun < MaxCalls
    /\ begun' = begun + 1
    /\ call' = [call EXCEPT ![r] =
                 [NoCall EXCEPT !.op = op, !.since = faults, !.had = store.nodes,
                    !.before = Captured, !.stale = ready /\ ~store.graph,
                    !.pc = IF mode = "capture" THEN "work"
                           ELSE IF ready THEN "work" ELSE "tenant"]]
    /\ UNCHANGED <<mode, ready, store, inbox, faults>>

Return(r) == /\ At(r, "answered")
             /\ call' = [call EXCEPT ![r] = NoCall]
             /\ UNCHANGED <<mode, ready, store, inbox, begun, faults>>

-----------------------------------------------------------------------------
(* ensure_memory_scope.  Another call may create what this one found          *)
(* missing: the conflict is no failure.                                      *)

HeadTenant(r) == /\ At(r, "tenant")
                 /\ Goes(r, IF store.tenant THEN "graph" ELSE "put_tenant")
                 /\ UNCHANGED <<mode, ready, store, inbox, begun, faults>>

PutTenant(r) == /\ At(r, "put_tenant")
                /\ store' = [store EXCEPT !.tenant = TRUE]
                /\ Goes(r, "graph")
                /\ UNCHANGED <<mode, ready, inbox, begun, faults>>

HeadGraph(r) == /\ At(r, "graph")
                /\ ready' = (ready \/ store.graph)
                /\ Goes(r, IF store.graph THEN "work" ELSE "put_graph")
                /\ UNCHANGED <<mode, store, inbox, begun, faults>>

\* Mutant: the conflict of two first calls fails the second.
PutGraphRefused(r) ==
    /\ At(r, "put_graph")
    /\ IF store.tenant /\ ~store.graph
       THEN /\ store' = [store EXCEPT !.graph = TRUE]
            /\ ready' = TRUE
            /\ Goes(r, "work")
       ELSE /\ Answers(r, "unavailable")
            /\ UNCHANGED <<ready, store>>
    /\ UNCHANGED <<mode, inbox, begun, faults>>

PutGraph(r) == /\ At(r, "put_graph")
               /\ IF store.tenant
                  THEN /\ store' = [store EXCEPT !.graph = TRUE]
                       /\ ready' = TRUE
                       /\ Goes(r, "work")
                  ELSE /\ Answers(r, "unavailable")
                       /\ UNCHANGED <<ready, store>>
               /\ UNCHANGED <<mode, inbox, begun, faults>>

-----------------------------------------------------------------------------
(* Legacy memories. *)

\* A memory that is not there is an error of the store like any other, and the caller
\* is told the backend is unavailable (get_memory).
NotFound(r) ==
    \E memory \in Memories \ store.nodes :
        call' = [call EXCEPT ![r].pc = "answered", ![r].answer = "unavailable",
                             ![r].named = memory]

GetMemory(r) ==
    /\ call[r].op = "get" /\ At(r, "work")
    /\ \/ Answers(r, "rejected")
       \/ NotFound(r)
       \/ store.nodes # {} /\ Answers(r, "found")
    /\ UNCHANGED <<mode, ready, store, inbox, begun, faults>>

\* search_memory, of every node the graph lists.
LegacySearch(r) ==
    /\ mode = "legacy" /\ call[r].op = "search" /\ At(r, "work")
    /\ \/ Answers(r, "rejected")
       \/ ~store.graph /\ Answers(r, "unavailable")
       \/ store.graph /\ Answers(r, "found")
    /\ UNCHANGED <<mode, ready, store, inbox, begun, faults>>

\* store_memory: the arguments give the memory its GUID, so that saying it again
\* finds it.  One that is linked to another memory of the same person is named after
\* that, which get_memory reads first.
StoreMemory(r, memory) ==
    /\ call[r].op = "store" /\ At(r, "work")
    /\ call' = [call EXCEPT ![r].pc = "check", ![r].about = memory]
    /\ UNCHANGED <<mode, ready, store, inbox, begun, faults>>

StoreRefused(r) ==
    /\ call[r].op = "store" /\ At(r, "work")
    /\ Answers(r, "rejected") \/ NotFound(r)
    /\ UNCHANGED <<mode, ready, store, inbox, begun, faults>>

\* The node is looked for, then put.  Both fail where there is no graph, and
\* a node that was put in between is a conflict that nobody takes for success.
HeadNode(r) == /\ At(r, "check")
               /\ \/ ~store.graph /\ Answers(r, "unavailable")
                  \/ call[r].about \in store.nodes /\ Answers(r, "duplicate")
                  \/ call[r].about \notin store.nodes /\ Goes(r, "put")
               /\ UNCHANGED <<mode, ready, store, inbox, begun, faults>>

PutNode(r) == /\ At(r, "put")
              /\ IF store.graph /\ call[r].about \notin store.nodes
                 THEN /\ store' = [store EXCEPT !.nodes =
                                     @ \cup {call[r].about}]
                      /\ Answers(r, "stored")
                 ELSE Answers(r, "unavailable") /\ UNCHANGED store
              /\ UNCHANGED <<mode, ready, inbox, begun, faults>>

-----------------------------------------------------------------------------
(* Capture mode: the inbox and its readers. *)

\* capture, with the same idempotency key whenever a passage is sent again: the
\* insert does nothing for a row that is there.
Capture(r, c) ==
    /\ call[r].op = "capture" /\ At(r, "work")
    /\ row' = [row EXCEPT ![c] = IF @ = "absent" THEN "pending" ELSE @]
    /\ Answers(r, "captured")
    /\ UNCHANGED <<mode, ready, store, facts, ignored, begun, faults>>

\* Arguments that do not pass; the reading tools refuse them before they read.
Rejected(r) == /\ mode = "capture" /\ At(r, "work")
               /\ Answers(r, "rejected")
               /\ UNCHANGED <<mode, ready, store, inbox, begun, faults>>

\* What a search returns, the ranking left open.
Cut(all) == {s \in SUBSET all : /\ Cardinality(s) <= Limit
                                /\ s = all \/ Cardinality(s) = Limit}

Took(r, seen, all) == call' = [call EXCEPT ![r].pc = "inbox", ![r].seen = seen,
                                    ![r].more = seen # all]

\* memory_search asks the graph first ...
SearchGraph(r) ==
    /\ mode = "capture" /\ call[r].op = "search" /\ At(r, "work")
    /\ \E seen \in Cut(facts) : Took(r, seen, facts)
    /\ UNCHANGED <<mode, ready, store, inbox, begun, faults>>

\* Mutant: only the passages no worker has taken yet.
UnfinishedPending == {c \in Captures : row[c] = "pending"}

Unfinished == {c \in Captures : row[c] \notin {"absent", "complete"}}

\* ... and then the inbox, for the passages that are not finished.  They are cut
\* by their number and by their length, but one is always returned whole.
SearchPending(r) ==
    /\ call[r].op = "search" /\ At(r, "inbox")
    /\ \E found \in SUBSET Unfinished :
         /\ Cardinality(found) <= Limit
         /\ found = {} => Unfinished = {}
         /\ call' = [call EXCEPT ![r].pc = "answered", ![r].answer = "found",
                                 ![r].seen = @ \cup found,
                                 ![r].more = @ \/ found # Unfinished]
    /\ UNCHANGED <<mode, ready, store, inbox, begun, faults>>

\* memory_orientation lists the graph ...
OrientGraph(r) ==
    /\ call[r].op = "orientation" /\ At(r, "work")
    /\ Took(r, facts, facts)
    /\ UNCHANGED <<mode, ready, store, inbox, begun, faults>>

\* Mutant: the finished ones are not counted.
OrientUnfinished(r) ==
    /\ call[r].op = "orientation" /\ At(r, "inbox")
    /\ Answers(r, IF call[r].seen = {} /\ Unfinished = {}
                  THEN "memory is empty" ELSE "not empty")
    /\ UNCHANGED <<mode, ready, store, inbox, begun, faults>>

\* ... and then counts the rows of every state.
OrientInbox(r) ==
    /\ call[r].op = "orientation" /\ At(r, "inbox")
    /\ Answers(r, IF call[r].seen = {} /\ Captured = {}
                  THEN "memory is empty" ELSE "not empty")
    /\ UNCHANGED <<mode, ready, store, inbox, begun, faults>>

-----------------------------------------------------------------------------
(* The worker: it claims a passage, puts its facts in the graph or finds      *)
(* nothing to keep, and ends with a state that says how far it came, or       *)
(* leaves the passage for another attempt.                                   *)

Claim(c) == /\ row[c] = "pending"
            /\ row' = [row EXCEPT ![c] = "processing"]
            /\ UNCHANGED <<mode, ready, store, facts, ignored, call, begun,
                           faults>>

Commit(c) == /\ row[c] = "processing" /\ c \notin ignored
             /\ facts' = facts \cup {c}
             /\ UNCHANGED <<mode, ready, store, row, ignored, call, begun,
                            faults>>

\* The calls that have read the graph and not the inbox remember that c is finished.
MovedUnder(c) == call' = [r \in Calls |-> IF At(r, "inbox")
                                          THEN [call[r] EXCEPT !.moved = @ \cup {c}]
                                          ELSE call[r]]

Complete(c) == /\ row[c] = "processing" /\ c \in facts \cup ignored
               /\ row' = [row EXCEPT ![c] = "complete"]
               /\ MovedUnder(c)
               /\ UNCHANGED <<mode, ready, store, facts, ignored, begun, faults>>

Ignore(c) == /\ row[c] = "processing" /\ c \notin facts
             /\ row' = [row EXCEPT ![c] = "complete"]
             /\ ignored' = ignored \cup {c}
             /\ MovedUnder(c)
             /\ UNCHANGED <<mode, ready, store, facts, begun, faults>>

GiveUp(c, state) ==
    /\ row[c] = "processing"
    /\ row' = [row EXCEPT ![c] = state]
    /\ UNCHANGED <<mode, ready, store, facts, ignored, call, begun, faults>>

-----------------------------------------------------------------------------
(* Faults. *)

Fault == faults < MaxFaults /\ faults' = faults + 1

\* The facade starts again; the calls it was serving get no answer.
Restart == /\ Fault
           /\ ready' = FALSE
           /\ call' = [r \in Calls |-> NoCall]
           /\ UNCHANGED <<mode, store, inbox, begun>>

\* LiteGraph starts again, with the storage of its container gone.
StorageLost == /\ Fault /\ mode = "legacy" /\ store.tenant
               /\ store' = EmptyStore
               /\ UNCHANGED <<mode, ready, inbox, call, begun>>

\* The worker does not hear that its last checkpoint was written.  It takes the job
\* for failed and writes a state that is not final, or a worse one, over it.
Rewrite(c) == /\ Fault /\ mode = "capture" /\ row[c] \in Ended
              /\ \E state \in {"pending", "needs_attention"} :
                   row' = [row EXCEPT ![c] = state]
              /\ UNCHANGED <<mode, ready, store, facts, ignored, call, begun>>

\* The answer of the graph store or of the inbox does not come in time, whether
\* or not what was asked was done.
TimedOut(r) ==
    /\ Fault
    /\ call[r].pc \notin {"idle", "answered"}
    /\ Answers(r, "unavailable")
    /\ \/ UNCHANGED <<store, row>>
       \/ /\ At(r, "put_tenant")
          /\ store' = [store EXCEPT !.tenant = TRUE] /\ UNCHANGED row
       \/ /\ At(r, "put_graph") /\ store.tenant
          /\ store' = [store EXCEPT !.graph = TRUE] /\ UNCHANGED row
       \/ /\ At(r, "put") /\ store.graph
          /\ store' = [store EXCEPT !.nodes = @ \cup {call[r].about}]
          /\ UNCHANGED row
       \/ /\ call[r].op = "capture" /\ UNCHANGED store
          /\ \E c \in Captures :
               row' = [row EXCEPT ![c] = IF @ = "absent" THEN "pending" ELSE @]
    /\ UNCHANGED <<mode, ready, facts, ignored, begun>>

Steps(r) ==
    \/ \E op \in Ops : Begin(r, op)
    \/ Return(r)
    \/ HeadTenant(r) \/ PutTenant(r) \/ HeadGraph(r) \/ PutGraph(r)
    \/ LegacySearch(r) \/ GetMemory(r) \/ StoreRefused(r) \/ HeadNode(r) \/ PutNode(r)
    \/ \E memory \in Memories : StoreMemory(r, memory)
    \/ Rejected(r) \/ \E c \in Captures : Capture(r, c)
    \/ SearchGraph(r) \/ SearchPending(r)
    \/ OrientGraph(r) \/ OrientInbox(r)

Worker == \E c \in Captures :
    \/ Claim(c) \/ Commit(c) \/ Complete(c) \/ Ignore(c)
    \/ \E s \in {"pending", "partial", "needs_attention"} : GiveUp(c, s)

Next == \/ \E r \in Calls : Steps(r) \/ TimedOut(r)
        \/ Worker \/ \E c \in Captures : Rewrite(c)
        \/ Restart \/ StorageLost

Spec == Init /\ [][Next]_vars

-----------------------------------------------------------------------------
(* Properties. *)

Undisturbed(r) == At(r, "answered") /\ call[r].since = faults

\* Why a call of a caller who did nothing wrong may fail: another call saved the very
\* memory, or the memory it names was not there when it began.
Explained(r) == \/ call[r].about \in store.nodes
                \/ call[r].named \in Memories \ call[r].had

\* A call that nothing disturbed is told the backend failed only for a reason: on the
\* first use of an empty store two calls may both find the tenant and the graph
\* missing, and neither loses its memory for it, nor is a memory that was there ever
\* not found (ensure_memory_scope, get_memory, store_memory).  A process that has
\* the scope for ready when the storage comes back empty is the exception.
FailuresExplained ==
    \A r \in Calls :
        Undisturbed(r) /\ call[r].answer = "unavailable" /\ ~call[r].stale
            => Explained(r)

\* "If ephemeral SQLite starts empty, the facade recreates that fixed tenant and graph
\* automatically" (litegraph-poc/README.md:18): then there is no exception.  It is
\* refuted: a process that has used the scope does not look for it again.
ScopeRecreated ==
    \A r \in Calls :
        Undisturbed(r) /\ call[r].answer = "unavailable" => Explained(r)

\* The worker moves a passage from the inbox to the graph while a search reads
\* first the one and then the other, and may put it back.  A search finds every
\* passage captured before it began, as facts or as the caller's words, or says that
\* there is more, or else the passage was finished between the two readings (mcp and
\* search_pending).
SearchMissesOnlyWhatMoved ==
    \A r \in Calls, c \in Captures :
        /\ At(r, "answered") /\ call[r].op = "search"
        /\ call[r].answer = "found" /\ mode = "capture"
        /\ c \in call[r].before \ ignored
        => c \in call[r].seen \cup call[r].moved \/ call[r].more

\* A caller whose words were captured is never told that the memory is empty,
\* whatever the worker does between the two readings (memory_orientation).
NeverFalselyEmpty ==
    \A r \in Calls :
        call[r].answer = "memory is empty" => call[r].before = {}
=============================================================================
