---------------------------- MODULE MemoryProofs ----------------------------
(***************************************************************************)
(* The two readers of the memory.  The first part is about the facade and  *)
(* what it promises its callers, for any number of calls, captures, faults *)
(* and restarts, with any limit of a search; the second about the resolver *)
(* and what it lets a model propose, for any graph, writers and pages.     *)
(*                                                                         *)
(* A step of the facade changes what is stored, the rows of the inbox or   *)
(* the calls, and seldom two of them.  The invariants say what a call may  *)
(* rely on at each of its steps, whatever others did since the one before. *)
(***************************************************************************)
EXTENDS MemoryFacade, GraphResolver, FiniteSetTheorems, TLAPS

-----------------------------------------------------------------------------
(* Well-formed states. *)

RowState == {"absent", "pending", "processing"} \cup Ended

CallOps == {"none", "search", "get", "store", "capture", "orientation"}

Places == {"idle", "tenant", "put_tenant", "graph", "put_graph", "work",
           "check", "put", "inbox", "answered"}

Results == {"none", "unavailable", "rejected", "found", "duplicate",
            "stored", "captured", "memory is empty", "not empty"}

CallRecord ==
    [op : CallOps, pc : Places, about : Memories \cup {NoMemory},
     named : Memories \cup {NoMemory}, seen : SUBSET Captures, more : BOOLEAN,
     answer : Results, since : Nat, stale : BOOLEAN,
     had : SUBSET (Memories \cup {NoMemory}), before : SUBSET Captures,
     moved : SUBSET Captures]

Stores == [tenant : BOOLEAN, graph : BOOLEAN,
           nodes : SUBSET (Memories \cup {NoMemory})]

CallsOK == call \in [Calls -> CallRecord]

SharedOK == /\ mode \in {"legacy", "capture"}
            /\ ready \in BOOLEAN
            /\ store \in Stores
            /\ row \in [Captures -> RowState]
            /\ facts \in SUBSET Captures /\ ignored \in SUBSET Captures
            /\ begun \in Nat /\ faults \in Nat

TypeOK == CallsOK /\ SharedOK

USE FacadeAssumption DEF FacadeAssumption

\* An idle call and an empty store are well formed.
LEMMA NoCallIsOne == NoCall \in CallRecord /\ EmptyStore \in Stores
  BY DEF NoCall, EmptyStore, CallRecord, Stores, CallOps, Places, Results

\* The facade starts in a well-formed state.
LEMMA TypeInit == Init => TypeOK
<1> SUFFICES ASSUME Init PROVE TypeOK
  OBVIOUS
<1>1. CallsOK
  BY NoCallIsOne DEF Init, CallsOK
<1>2. SharedOK
  BY NoCallIsOne DEF Init, SharedOK, RowState
<1> QED BY <1>1, <1>2 DEF TypeOK

\* What a call looks like that took down something.
LEMMA Recorded ==
  ASSUME CallsOK, NEW r \in Calls, NEW record \in CallRecord,
         call' = [call EXCEPT ![r] = record]
  PROVE  CallsOK'
  BY DEF CallsOK

\* What a call that moves on looks like.
LEMMA Moved ==
  ASSUME CallsOK, NEW r \in Calls, NEW pc \in Places, Goes(r, pc)
  PROVE  CallsOK'
  BY DEF CallsOK, CallRecord, Goes

\* What a call looks like that is answered.
LEMMA Answered ==
  ASSUME CallsOK, NEW r \in Calls, NEW answer \in Results, Answers(r, answer)
  PROVE  CallsOK'
<1> DEFINE record == [call[r] EXCEPT !.pc = "answered", !.answer = answer]
<1>1. call[r] \in CallRecord /\ "answered" \in Places
  BY DEF CallsOK, Places
<1>2. record \in CallRecord
  BY <1>1 DEF CallRecord
<1>3. call' = [call EXCEPT ![r] = record]
  BY DEF Answers, CallsOK
<1> HIDE DEF record
<1> QED BY <1>2, <1>3, Recorded

\* What a call looks like that named a memory that is not there.
LEMMA Missed ==
  ASSUME CallsOK, NEW r \in Calls, NotFound(r)
  PROVE  CallsOK'
<1>1. PICK memory \in Memories :
        call' = [call EXCEPT ![r].pc = "answered", ![r].answer = "unavailable",
                             ![r].named = memory]
  BY DEF NotFound
<1> DEFINE record == [call[r] EXCEPT !.pc = "answered",
                                     !.answer = "unavailable", !.named = memory]
<1>2. "answered" \in Places /\ "unavailable" \in Results
  BY DEF Places, Results
<1>3. call' = [call EXCEPT ![r] = record]
  BY <1>1 DEF CallsOK
<1>4. memory \in Memories /\ call[r] \in CallRecord
  BY <1>1 DEF CallsOK
<1>5. record \in CallRecord
  BY <1>2, <1>4 DEF CallRecord
<1> HIDE DEF record
<1> QED BY <1>5, <1>3, Recorded

\* What the calls look like that remember a passage as finished.
LEMMA Marked ==
  ASSUME CallsOK, NEW c \in Captures, MovedUnder(c)
  PROVE  CallsOK'
<1> SUFFICES ASSUME NEW r \in Calls PROVE call'[r] \in CallRecord
  BY DEF CallsOK, MovedUnder
<1>1. [call[r] EXCEPT !.moved = @ \cup {c}] \in CallRecord
  BY DEF CallsOK, CallRecord
<1>2. call'[r] \in {call[r], [call[r] EXCEPT !.moved = @ \cup {c}]}
  BY DEF MovedUnder
<1>3. call[r] \in CallRecord
  BY DEF CallsOK
<1> QED BY <1>1, <1>2, <1>3

\* No step spoils a call.
LEMMA CallsStep == TypeOK /\ [Next]_vars => CallsOK'
<1> SUFFICES ASSUME TypeOK, [Next]_vars PROVE CallsOK'
  OBVIOUS
<1> CallsOK
  BY DEF TypeOK
<1> {"graph", "put_tenant", "put_graph", "work", "tenant", "check", "put",
     "inbox", "answered"} \subseteq Places
  BY DEF Places
<1> {"unavailable", "rejected", "found", "duplicate"} \subseteq Results
  BY DEF Results
<1> {"stored", "captured", "memory is empty", "not empty"} \subseteq Results
  BY DEF Results
<1>1. ASSUME NEW r \in Calls, Steps(r) PROVE CallsOK'
  <2>1. ASSUME NEW op \in Ops, Begin(r, op) PROVE CallsOK'
    <3>1. op \in CallOps
      BY DEF Ops, CallOps
    <3>2. /\ faults \in Nat
          /\ Captured \in SUBSET Captures
          /\ store.nodes \in SUBSET (Memories \cup {NoMemory})
          /\ (ready /\ ~store.graph) \in BOOLEAN
      BY DEF TypeOK, SharedOK, Stores, Captured
    <3> QED BY <2>1, <3>1, <3>2, NoCallIsOne DEF Begin, CallsOK, CallRecord
  <2>2. CASE Return(r)
    BY <2>2, NoCallIsOne DEF Return, CallsOK
  <2>3. CASE HeadTenant(r) \/ PutTenant(r) \/ HeadGraph(r)
    BY <2>3, Moved DEF HeadTenant, PutTenant, HeadGraph
  <2>4. CASE PutGraph(r)
    BY <2>4, Moved, Answered DEF PutGraph
  <2>5. CASE LegacySearch(r) \/ GetMemory(r) \/ StoreRefused(r) \/ Rejected(r)
    BY <2>5, Answered, Missed DEF LegacySearch, GetMemory, StoreRefused, Rejected
  <2>6. CASE HeadNode(r) \/ PutNode(r)
    BY <2>6, Moved, Answered DEF HeadNode, PutNode
  <2>7. ASSUME NEW memory \in Memories, StoreMemory(r, memory) PROVE CallsOK'
    <3> DEFINE record == [call[r] EXCEPT !.pc = "check", !.about = memory]
    <3>1. record \in CallRecord
      BY DEF CallsOK, CallRecord
    <3>2. call' = [call EXCEPT ![r] = record]
      BY <2>7 DEF StoreMemory, CallsOK
    <3> HIDE DEF record
    <3> QED BY <3>1, <3>2, Recorded
  <2>8. ASSUME NEW c \in Captures, Capture(r, c) PROVE CallsOK'
    BY <2>8, Answered DEF Capture
  <2>9. CASE SearchGraph(r) \/ OrientGraph(r)
    <3>1. PICK seen \in SUBSET Captures : Took(r, seen, facts)
      BY <2>9 DEF SearchGraph, OrientGraph, Cut, TypeOK, SharedOK
    <3> DEFINE record == [call[r] EXCEPT !.pc = "inbox", !.seen = seen,
                                         !.more = seen # facts]
    <3>2. record \in CallRecord
      BY DEF CallsOK, CallRecord
    <3>3. call' = [call EXCEPT ![r] = record]
      BY <3>1 DEF Took, CallsOK
    <3> HIDE DEF record
    <3> QED BY <3>2, <3>3, Recorded
  <2>10. CASE SearchPending(r)
    <3>1. Unfinished \subseteq Captures
      BY DEF Unfinished
    <3>2. PICK found \in SUBSET Unfinished :
            call' = [call EXCEPT ![r].pc = "answered", ![r].answer = "found",
                                 ![r].seen = @ \cup found,
                                 ![r].more = @ \/ found # Unfinished]
      BY <2>10 DEF SearchPending
    <3> DEFINE record == [call[r] EXCEPT !.pc = "answered", !.answer = "found",
                            !.seen = @ \cup found,
                            !.more = @ \/ found # Unfinished]
    <3>3. record \in CallRecord
      BY <3>1 DEF CallsOK, CallRecord
    <3>4. call' = [call EXCEPT ![r] = record]
      BY <3>2 DEF CallsOK
    <3> HIDE DEF record
    <3> QED BY <3>3, <3>4, Recorded
  <2>11. CASE OrientInbox(r)
    BY <2>11, Answered DEF OrientInbox
  <2> QED BY <1>1, <2>1, <2>2, <2>3, <2>4, <2>5, <2>6, <2>7, <2>8, <2>9, <2>10,
             <2>11 DEF Steps
<1>2. ASSUME NEW r \in Calls, TimedOut(r) PROVE CallsOK'
  BY <1>2, Answered DEF TimedOut
<1>3. CASE Restart
  BY <1>3, NoCallIsOne DEF Restart, CallsOK
<1>4. ASSUME NEW c \in Captures, Complete(c) \/ Ignore(c) PROVE CallsOK'
  BY <1>4, Marked DEF Complete, Ignore
<1>5. CASE StorageLost \/ UNCHANGED vars \/ UNCHANGED call
  BY <1>5 DEF StorageLost, vars, CallsOK
<1>6. ASSUME NEW c \in Captures,
             \/ Claim(c) \/ Commit(c) \/ Rewrite(c)
             \/ \E s \in {"pending", "partial", "needs_attention"} : GiveUp(c, s)
      PROVE  UNCHANGED call
  BY <1>6 DEF Claim, Commit, Rewrite, GiveUp
<1> QED BY <1>1, <1>2, <1>3, <1>4, <1>5, <1>6 DEF Next, Worker

\* What the steps do to all that is not a call: the mode is for good, rows of
\* the inbox are never taken back, facts stay, and what is stored is lost by a
\* fault only.
Grows ==
    /\ mode' = mode
    /\ facts \subseteq facts' /\ ignored \subseteq ignored'
    /\ \A c \in Captures : row[c] # "absent" => row'[c] # "absent"
    /\ faults' \in {faults, faults + 1}
    /\ faults' = faults => /\ store.tenant => store'.tenant
                           /\ store.graph => store'.graph
                           /\ store.nodes \subseteq store'.nodes

\* No step spoils the rest of the state.
LEMMA SharedStep == TypeOK /\ [Next]_vars => SharedOK' /\ Grows
<1> SUFFICES ASSUME TypeOK, [Next]_vars PROVE SharedOK' /\ Grows
  OBVIOUS
<1> SharedOK /\ CallsOK
  BY DEF TypeOK
<1> USE DEF SharedOK, Stores, inbox
<1>B. \A state \in Ended \cup {"pending", "processing"} :
        state \in RowState /\ state # "absent"
  BY DEF RowState, Ended
<1>C. {"partial", "needs_attention", "complete"} \subseteq Ended
  BY DEF Ended
<1>A. \A r \in Calls : call[r].about \in Memories \cup {NoMemory}
  BY DEF CallsOK, CallRecord
<1>1. ASSUME NEW r \in Calls, Steps(r) PROVE SharedOK' /\ Grows
  <2>1. ASSUME NEW op \in Ops, Begin(r, op) PROVE SharedOK' /\ Grows
    BY <2>1 DEF Begin, Grows
  <2>2. CASE \/ Return(r) \/ HeadTenant(r) \/ LegacySearch(r) \/ StoreRefused(r)
            \/ GetMemory(r) \/ HeadNode(r) \/ Rejected(r) \/ SearchGraph(r)
            \/ SearchPending(r) \/ OrientGraph(r) \/ OrientInbox(r)
    <3>1. UNCHANGED <<mode, ready, store, inbox, begun, faults>>
      BY <2>2 DEF Return, HeadTenant, LegacySearch, GetMemory, StoreRefused, HeadNode,
                  Rejected, SearchGraph, SearchPending, OrientGraph, OrientInbox
    <3> QED BY <3>1 DEF Grows
  <2>3. CASE PutTenant(r) \/ HeadGraph(r)
    BY <2>3 DEF PutTenant, HeadGraph, Grows
  <2>4. CASE PutGraph(r)
    BY <2>4 DEF PutGraph, Grows
  <2>5. CASE PutNode(r)
    <3>1. CASE UNCHANGED store
      BY <2>5, <3>1 DEF PutNode, Grows
    <3>2. CASE store' = [store EXCEPT !.nodes = @ \cup {call[r].about}]
      BY <1>A, <2>5, <3>2 DEF PutNode, Grows
    <3> QED BY <2>5, <3>1, <3>2 DEF PutNode
  <2>6. ASSUME NEW memory \in Memories, StoreMemory(r, memory)
        PROVE  SharedOK' /\ Grows
    BY <2>6 DEF StoreMemory, Grows
  <2>7. ASSUME NEW c \in Captures, Capture(r, c) PROVE SharedOK' /\ Grows
    BY <2>7, <1>B DEF Capture, Grows
  <2> QED BY <1>1, <2>1, <2>2, <2>3, <2>4, <2>5, <2>6, <2>7 DEF Steps
<1>2. ASSUME NEW r \in Calls, TimedOut(r) PROVE SharedOK' /\ Grows
  <2>1. /\ faults' = faults + 1 /\ begun' \in Nat
        /\ mode' = mode /\ ready' = ready
        /\ facts' = facts /\ ignored' = ignored
    BY <1>2 DEF TimedOut, Fault
  <2>2. /\ row' \in [Captures -> RowState]
        /\ \A c \in Captures : row[c] # "absent" => row'[c] # "absent"
    BY <1>2, <1>B DEF TimedOut
  <2>3. \/ store' = store
        \/ store' = [store EXCEPT !.tenant = TRUE]
        \/ store' = [store EXCEPT !.graph = TRUE]
        \/ store' = [store EXCEPT !.nodes = @ \cup {call[r].about}]
    BY <1>2 DEF TimedOut
  <2>4. store' \in Stores
    BY <2>3, <1>A
  <2>5. faults \in Nat /\ faults + 1 # faults
    OBVIOUS
  <2>6. faults' \in Nat /\ faults' # faults
    BY <2>1, <2>5
  <2> HIDE DEF Stores, SharedOK
  <2>7. SharedOK'
    BY <2>1, <2>2, <2>4, <2>6 DEF SharedOK
  <2>8. Grows
    BY <2>1, <2>2, <2>6 DEF Grows
  <2> QED BY <2>7, <2>8
<1>3. ASSUME NEW c \in Captures,
             \/ Claim(c) \/ Commit(c) \/ Complete(c) \/ Ignore(c)
             \/ \E s \in {"pending", "partial", "needs_attention"} : GiveUp(c, s)
      PROVE  SharedOK' /\ Grows
  <2>1. /\ UNCHANGED <<mode, ready, store, begun, faults>>
        /\ facts' \in {facts, facts \cup {c}}
        /\ ignored' \in {ignored, ignored \cup {c}}
        /\ \/ row' = row
           \/ \E s \in Ended \cup {"pending", "processing"} :
                 row' = [row EXCEPT ![c] = s]
    BY <1>3, <1>C, Zenon DEF Claim, Commit, Complete, Ignore, GiveUp
  <2> QED BY <2>1, <1>B DEF Grows
<1>4. CASE Restart
  <2>1. /\ faults' = faults + 1 /\ ready' \in BOOLEAN
        /\ UNCHANGED <<mode, store, row, facts, ignored, begun>>
    BY <1>4 DEF Restart, Fault
  <2> HIDE DEF Stores
  <2> QED BY <2>1 DEF Grows
<1>5. CASE StorageLost
  <2>1. /\ faults' = faults + 1 /\ store' \in Stores
        /\ UNCHANGED <<mode, ready, row, facts, ignored, begun>>
    BY <1>5, NoCallIsOne DEF StorageLost, Fault
  <2>2. faults + 1 # faults
    OBVIOUS
  <2> HIDE DEF Stores
  <2> QED BY <2>1, <2>2 DEF Grows
<1>6. ASSUME NEW c \in Captures, Rewrite(c) PROVE SharedOK' /\ Grows
  <2>1. /\ UNCHANGED <<mode, ready, store, facts, ignored, begun>>
        /\ faults' = faults + 1
        /\ \E s \in Ended \cup {"pending", "processing"} :
              row' = [row EXCEPT ![c] = s]
    BY <1>6, <1>C, Zenon DEF Rewrite, Fault
  <2>2. faults + 1 # faults
    OBVIOUS
  <2> HIDE DEF Stores
  <2> QED BY <2>1, <2>2, <1>B DEF Grows
<1>7. CASE UNCHANGED vars
  BY <1>7 DEF vars, Grows
<1> QED BY <1>1, <1>2, <1>3, <1>4, <1>5, <1>6, <1>7 DEF Next, Worker

\* Every state of the facade, its store and its inbox is well formed.
THEOREM TypeCorrect == Spec => []TypeOK
<1>1. TypeOK /\ [Next]_vars => TypeOK'
  BY CallsStep, SharedStep DEF TypeOK
<1> QED BY TypeInit, <1>1, PTL DEF Spec

-----------------------------------------------------------------------------
(* What a step does to a call. *)

\* The fields a step of a call may change; but for the memory it named the others
\* stay as they are.
Becomes(r, pc, about, seen, more, answer) ==
    /\ \A q \in Calls \ {r} : call'[q] = call[q]
    /\ call'[r].op = call[r].op
    /\ call'[r].since = call[r].since
    /\ call'[r].stale = call[r].stale
    /\ call'[r].had = call[r].had
    /\ call'[r].before = call[r].before
    /\ call'[r].moved = call[r].moved
    /\ call'[r].pc = pc /\ call'[r].about = about
    /\ call'[r].seen = seen /\ call'[r].more = more
    /\ call'[r].answer = answer

\* The same for each way a step is written in the module.
LEMMA Goings ==
  ASSUME CallsOK, NEW r \in Calls, NEW pc, Goes(r, pc)
  PROVE  Becomes(r, pc, call[r].about, call[r].seen, call[r].more,
                 call[r].answer)
  BY DEF CallsOK, CallRecord, Goes, Becomes

\* The call is answered.
LEMMA Answerings ==
  ASSUME CallsOK, NEW r \in Calls, NEW answer, Answers(r, answer)
  PROVE  Becomes(r, "answered", call[r].about, call[r].seen, call[r].more,
                 answer)
  BY DEF CallsOK, CallRecord, Answers, Becomes

\* The call named a memory that is not there.
LEMMA Missings ==
  ASSUME CallsOK, NEW r \in Calls, NotFound(r)
  PROVE  /\ Becomes(r, "answered", call[r].about, call[r].seen, call[r].more,
                    "unavailable")
         /\ call'[r].named \in Memories \ store.nodes
  BY DEF CallsOK, CallRecord, NotFound, Becomes

\* The call has read the graph.
LEMMA Takings ==
  ASSUME CallsOK, NEW r \in Calls, NEW seen, NEW all, Took(r, seen, all)
  PROVE  Becomes(r, "inbox", call[r].about, seen, seen # all, call[r].answer)
  BY DEF CallsOK, CallRecord, Took, Becomes

\* The call knows which memory it saves.
LEMMA Storings ==
  ASSUME CallsOK, NEW r \in Calls, NEW memory, StoreMemory(r, memory)
  PROVE  Becomes(r, "check", memory, call[r].seen, call[r].more,
                 call[r].answer)
  BY DEF CallsOK, CallRecord, StoreMemory, Becomes

\* The search has read the inbox.
LEMMA Searchings ==
  ASSUME CallsOK, NEW r \in Calls, SearchPending(r)
  PROVE  \E found \in SUBSET Unfinished :
           /\ found = {} => Unfinished = {}
           /\ Becomes(r, "answered", call[r].about, call[r].seen \cup found,
                      call[r].more \/ found # Unfinished, "found")
<1>1. PICK found \in SUBSET Unfinished :
        /\ found = {} => Unfinished = {}
        /\ call' = [call EXCEPT ![r].pc = "answered", ![r].answer = "found",
                                ![r].seen = @ \cup found,
                                ![r].more = @ \/ found # Unfinished]
  BY DEF SearchPending
<1>2. Becomes(r, "answered", call[r].about, call[r].seen \cup found,
              call[r].more \/ found # Unfinished, "found")
  BY <1>1 DEF CallsOK, CallRecord, Becomes
<1> QED BY <1>1, <1>2

\* The steps of a call between its beginning and its answer.
Advances(r) ==
    \/ HeadTenant(r) \/ PutTenant(r) \/ HeadGraph(r) \/ PutGraph(r)
    \/ LegacySearch(r) \/ GetMemory(r) \/ StoreRefused(r) \/ HeadNode(r) \/ PutNode(r)
    \/ \E memory \in Memories : StoreMemory(r, memory)
    \/ Rejected(r) \/ \E c \in Captures : Capture(r, c)
    \/ SearchGraph(r) \/ SearchPending(r)
    \/ OrientGraph(r) \/ OrientInbox(r)
    \/ TimedOut(r)

\* None of them touches another call, or what a call remembers of its beginning.
LEMMA AdvancesOne ==
  ASSUME CallsOK, NEW r \in Calls, Advances(r)
  PROVE  \E pc, about, seen, more, answer :
           Becomes(r, pc, about, seen, more, answer)
<1>1. CASE HeadTenant(r) \/ PutTenant(r) \/ HeadGraph(r)
  BY <1>1, Goings, Zenon DEF HeadTenant, PutTenant, HeadGraph
<1>2. CASE PutGraph(r)
  BY <1>2, Goings, Answerings, Zenon DEF PutGraph
<1>3. CASE LegacySearch(r) \/ GetMemory(r) \/ StoreRefused(r) \/ Rejected(r)
  BY <1>3, Answerings, Missings, Zenon
     DEF LegacySearch, GetMemory, StoreRefused, Rejected
<1>4. CASE HeadNode(r) \/ PutNode(r)
  BY <1>4, Goings, Answerings, Zenon DEF HeadNode, PutNode
<1>5. CASE \E memory \in Memories : StoreMemory(r, memory)
  BY <1>5, Storings, Zenon
<1>6. CASE \/ \E c \in Captures : Capture(r, c)
           \/ OrientInbox(r) \/ TimedOut(r)
  BY <1>6, Answerings, Zenon DEF Capture, OrientInbox, TimedOut
<1>7. CASE SearchGraph(r)
  BY <1>7, Takings DEF SearchGraph
<1>8. CASE OrientGraph(r)
  BY <1>8, Takings DEF OrientGraph
<1>9. CASE SearchPending(r)
  BY <1>9, Searchings, Zenon
<1> QED BY <1>1, <1>2, <1>3, <1>4, <1>5, <1>6, <1>7, <1>8, <1>9 DEF Advances

\* The call is between its readings, and remembers that a passage was finished.
Marks(r) ==
    /\ call[r].pc = "inbox" /\ call'[r].pc = "inbox"
    /\ call'[r].op = call[r].op /\ call'[r].since = call[r].since
    /\ call'[r].answer = call[r].answer
    /\ call'[r].seen = call[r].seen /\ call'[r].more = call[r].more
    /\ call'[r].had = call[r].had /\ call'[r].before = call[r].before
    /\ call[r].moved \subseteq call'[r].moved

\* That is what the end of a job does to the calls there are.
LEMMA Markings ==
  ASSUME CallsOK, NEW r \in Calls, NEW c \in Captures, MovedUnder(c)
  PROVE  /\ call'[r] = call[r] \/ Marks(r)
         /\ call[r].pc = "inbox" => c \in call'[r].moved
<1>1. CASE call[r].pc = "inbox"
  <2>1. call'[r] = [call[r] EXCEPT !.moved = @ \cup {c}]
    BY <1>1 DEF MovedUnder, At
  <2> QED BY <1>1, <2>1 DEF Marks, CallsOK, CallRecord
<1>2. CASE call[r].pc # "inbox"
  BY <1>2 DEF MovedUnder, At
<1> QED BY <1>1, <1>2

\* What a step may do to a call: nothing, or have it remember what a worker did, end
\* it, begin it, or carry it on.
LEMMA CallStep ==
  ASSUME TypeOK, [Next]_vars, NEW r \in Calls
  PROVE  \/ call'[r] = call[r] \/ call'[r] = NoCall \/ Marks(r)
         \/ \E op \in Ops : Begin(r, op)
         \/ Advances(r)
<1> CallsOK
  BY DEF TypeOK
<1>1. ASSUME NEW q \in Calls, Steps(q) \/ TimedOut(q), q # r
      PROVE  call'[r] = call[r]
  <2>1. CASE Return(q) \/ \E op \in Ops : Begin(q, op)
    BY <1>1, <2>1 DEF Return, Begin, CallsOK
  <2>2. CASE Advances(q)
    BY <1>1, <2>2, AdvancesOne DEF Becomes
  <2> QED BY <1>1, <2>1, <2>2, Zenon DEF Steps, Advances
<1>2. CASE Steps(r) \/ TimedOut(r)
  <2>1. Return(r) => call'[r] = NoCall
    BY DEF Return, CallsOK
  <2> QED BY <1>2, <2>1, Zenon DEF Steps, Advances
<1>3. Restart => call'[r] = NoCall
  BY DEF Restart
<1>4. ASSUME NEW c \in Captures, Complete(c) \/ Ignore(c)
      PROVE  call'[r] = call[r] \/ Marks(r)
  BY <1>4, Markings DEF Complete, Ignore
<1>5. ASSUME NEW c \in Captures,
             \/ Claim(c) \/ Commit(c) \/ Rewrite(c)
             \/ \E s \in {"pending", "partial", "needs_attention"} : GiveUp(c, s)
      PROVE  call'[r] = call[r]
  BY <1>5 DEF Claim, Commit, Rewrite, GiveUp
<1>6. StorageLost \/ UNCHANGED vars => call'[r] = call[r]
  BY DEF StorageLost, vars
<1> QED BY <1>1, <1>2, <1>3, <1>4, <1>5, <1>6 DEF Next, Worker

\* What a call looks like that begins.
LEMMA BeginOne ==
  ASSUME CallsOK, NEW r \in Calls, NEW op, Begin(r, op)
  PROVE  /\ call'[r].op = op /\ call'[r].since = faults
         /\ call'[r].before = Captured /\ call'[r].had = store.nodes
         /\ call'[r].stale = (ready /\ ~store.graph)
         /\ call'[r].pc = IF mode = "capture" THEN "work"
                         ELSE IF ready THEN "work" ELSE "tenant"
         /\ call'[r].answer = "none" /\ call'[r].about = NoMemory
         /\ UNCHANGED <<mode, ready, store, inbox, faults>>
  BY DEF Begin, CallsOK, CallRecord, NoCall

-----------------------------------------------------------------------------
(* What a call remembers of the inbox stays true of it. *)

Finished == \A c \in Captures : row[c] = "complete" => c \in facts \cup ignored

Remembers(r) == call[r].before \subseteq Captured

Remembered == Finished /\ \A r \in Calls : Remembers(r)

\* At the start there is nothing to remember.
LEMMA RememberedInit == Init => Remembered
  BY DEF Init, NoCall, Remembered, Finished, Remembers

\* Only the worker finishes a passage, and the calls that it overtakes remember it.
LEMMA FinishedByWorker ==
  ASSUME TypeOK, [Next]_vars, NEW c \in Captures,
         row'[c] = "complete", row[c] # "complete"
  PROVE  /\ c \in facts' \cup ignored'
         /\ MovedUnder(c)
<1> SharedOK
  BY DEF TypeOK
<1>1. ASSUME NEW r \in Calls, TimedOut(r) PROVE FALSE
  BY <1>1 DEF TimedOut, SharedOK
<1>2. ASSUME NEW r \in Calls, NEW d \in Captures, Capture(r, d) PROVE FALSE
  BY <1>2 DEF Capture, SharedOK
<1>3. ASSUME NEW r \in Calls, Steps(r), \A d \in Captures : ~Capture(r, d)
      PROVE  UNCHANGED inbox
  BY <1>3, Zenon DEF Steps, Begin, Return, HeadTenant, PutTenant, HeadGraph,
     PutGraph, LegacySearch, GetMemory, StoreRefused, HeadNode, PutNode,
     StoreMemory, Rejected, SearchGraph, SearchPending, OrientGraph, OrientInbox
<1>4. ASSUME NEW d \in Captures, Complete(d) \/ Ignore(d)
      PROVE  /\ c \in facts' \cup ignored'
             /\ MovedUnder(c)
  <2>1. d = c
    BY <1>4 DEF Complete, Ignore, SharedOK
  <2> QED BY <1>4, <2>1 DEF Complete, Ignore
<1>5. ASSUME NEW d \in Captures,
             \/ Claim(d) \/ Commit(d) \/ Rewrite(d)
             \/ \E s \in {"pending", "partial", "needs_attention"} : GiveUp(d, s)
      PROVE  FALSE
  BY <1>5 DEF Claim, Commit, Rewrite, GiveUp, SharedOK
<1>6. Restart \/ StorageLost \/ UNCHANGED vars => FALSE
  BY DEF Restart, StorageLost, inbox, vars
<1> QED BY <1>1, <1>2, <1>3, <1>4, <1>5, <1>6 DEF Next, Worker, inbox

\* Rows are never taken back, so what a call remembers stays true.
LEMMA RememberedStep == TypeOK /\ Remembered /\ [Next]_vars => Remembered'
<1> SUFFICES ASSUME TypeOK, Remembered, [Next]_vars PROVE Remembered'
  OBVIOUS
<1> CallsOK /\ SharedOK /\ Grows
  BY SharedStep DEF TypeOK
<1>1. Finished'
  BY FinishedByWorker DEF Remembered, Finished, Grows
<1>A. Captured \subseteq Captured'
  BY DEF Captured, Grows
<1>2. ASSUME NEW r \in Calls PROVE Remembers(r)'
  <2>1. CASE call'[r] = call[r]
    BY <1>A, <2>1 DEF Remembered, Remembers
  <2>2. CASE call'[r] = NoCall
    BY <2>2 DEF NoCall, Remembers
  <2>3. ASSUME NEW op \in Ops, Begin(r, op) PROVE Remembers(r)'
    BY <1>A, <2>3, BeginOne DEF Remembers
  <2>4. CASE Advances(r)
    <3>1. call'[r].before = call[r].before
      BY <2>4, AdvancesOne DEF Becomes
    <3> QED BY <1>A, <3>1 DEF Remembered, Remembers
  <2>5. CASE Marks(r)
    BY <1>A, <2>5 DEF Marks, Remembered, Remembers
  <2> QED BY <2>1, <2>2, <2>3, <2>4, <2>5, CallStep
<1> QED BY <1>1, <1>2 DEF Remembered

\* A passage captured before a call began is in the inbox for as long as it runs, and
\* while it is finished its facts are in the graph, unless there was nothing to keep
\* (mcp, and the worker's end of a job).
THEOREM RememberedCorrect == Spec => []Remembered
<1>1. TypeOK /\ Remembered /\ [Next]_vars => Remembered'
  BY RememberedStep
<1> QED BY RememberedInit, TypeCorrect, <1>1, PTL DEF Spec

-----------------------------------------------------------------------------
(* No caller whose words were captured is told that the memory is empty. *)

\* An idle call has no answer.
LEMMA NoAnswer == /\ NoCall.answer = "none" /\ NoCall.pc = "idle"
                  /\ NoCall.op = "none" /\ NoCall.since = 0
                  /\ "none" # "memory is empty"
  BY DEF NoCall

\* Only a call that finds every row absent says that the memory is empty.
LEMMA EmptyStep ==
  ASSUME TypeOK, Remembered, NeverFalselyEmpty, [Next]_vars
  PROVE  NeverFalselyEmpty'
<1> CallsOK
  BY DEF TypeOK
<1> SUFFICES ASSUME NEW r \in Calls, call'[r].answer = "memory is empty"
             PROVE  call'[r].before = {}
  BY DEF NeverFalselyEmpty
<1>1. CASE call'[r] = call[r]
  BY <1>1 DEF NeverFalselyEmpty
<1>2. CASE call'[r] = NoCall \/ \E op \in Ops : Begin(r, op)
  <2>1. call'[r].answer = "none"
    BY <1>2, BeginOne, NoAnswer
  <2> QED BY <2>1, NoAnswer
<1>3. CASE Advances(r)
  <2>1. call'[r].before = call[r].before
    BY <1>3, AdvancesOne DEF Becomes
  <2>2. CASE call[r].answer = "memory is empty"
    BY <2>1, <2>2 DEF NeverFalselyEmpty
  <2>3. CASE call[r].answer # "memory is empty"
    <3>1. OrientInbox(r)
      <4>1. ASSUME NEW pc, Goes(r, pc) PROVE FALSE
        BY <2>3, <4>1, Goings DEF Becomes
      <4>2. ASSUME NEW answer, Answers(r, answer)
            PROVE  answer = "memory is empty"
        <5>1. Becomes(r, "answered", call[r].about, call[r].seen, call[r].more,
                      answer)
          BY <4>2, Answerings
        <5> QED BY <5>1, Zenon DEF Becomes
      <4>3. ASSUME NEW seen, NEW all, Took(r, seen, all) PROVE FALSE
        BY <2>3, <4>3, Takings DEF Becomes
      <4>4. ~SearchPending(r)
        BY Searchings DEF Becomes
      <4>5. ASSUME NEW memory \in Memories, StoreMemory(r, memory) PROVE FALSE
        BY <2>3, <4>5, Storings DEF Becomes
      <4>6. ~(HeadTenant(r) \/ PutTenant(r) \/ HeadGraph(r) \/ PutGraph(r))
        BY <4>1, <4>2 DEF HeadTenant, PutTenant, HeadGraph, PutGraph
      <4>7. ~(LegacySearch(r) \/ HeadNode(r) \/ PutNode(r))
        BY <4>1, <4>2 DEF LegacySearch, HeadNode, PutNode
      <4>10. ~NotFound(r)
        BY Missings DEF Becomes
      <4>11. ~(GetMemory(r) \/ StoreRefused(r))
        BY <4>2, <4>10 DEF GetMemory, StoreRefused
      <4>8. ~(Rejected(r) \/ TimedOut(r) \/ \E c1 \in Captures : Capture(r, c1))
        BY <4>2 DEF Rejected, TimedOut, Capture
      <4>9. ~(SearchGraph(r) \/ OrientGraph(r))
        BY <4>3 DEF SearchGraph, OrientGraph
      <4> QED BY <1>3, <4>4, <4>5, <4>6, <4>7, <4>8, <4>9, <4>11 DEF Advances
    <3>2. Captured = {}
      <4>1. CASE call[r].seen = {} /\ Captured = {}
        BY <4>1
      <4>2. CASE ~(call[r].seen = {} /\ Captured = {})
        <5>1. Answers(r, "not empty")
          BY <3>1, <4>2, Zenon DEF OrientInbox
        <5>2. call'[r].answer = "not empty"
          BY <5>1, Answerings DEF Becomes
        <5> QED BY <5>2
      <4> QED BY <4>1, <4>2
    <3> QED BY <2>1, <3>2 DEF Remembered, Remembers
  <2> QED BY <2>2, <2>3
<1>4. CASE Marks(r)
  BY <1>4 DEF Marks, NeverFalselyEmpty
<1> QED BY <1>1, <1>2, <1>3, <1>4, CallStep

\* memory_orientation reads the graph and then the inbox; with any number of workers
\* and calls between the two, no caller whose words were captured before is told
\* that the memory is empty.
THEOREM NeverEmptyCorrect == Spec => []NeverFalselyEmpty
<1>1. Init => NeverFalselyEmpty
  BY NoAnswer DEF Init, NeverFalselyEmpty
<1>2. TypeOK /\ Remembered /\ NeverFalselyEmpty /\ [Next]_vars
        => NeverFalselyEmpty'
  BY EmptyStep
<1> QED BY <1>1, <1>2, TypeCorrect, RememberedCorrect, PTL DEF Spec

-----------------------------------------------------------------------------
(* A search misses nothing but what moved while it read. *)

\* Between its two readings a search that has neither seen a passage captured before
\* it began nor knows that there is more may still find it in the inbox, unless it was
\* finished since the first of them.
Searches(r) ==
    \A c \in Captures :
        /\ call[r].pc = "inbox" /\ call[r].op = "search" /\ mode = "capture"
        /\ c \in call[r].before \ ignored
        => \/ c \in call[r].seen \cup call[r].moved \/ call[r].more
           \/ c \in Unfinished

Misses(r) ==
    \A c \in Captures :
        /\ call[r].pc = "answered" /\ call[r].op = "search"
        /\ call[r].answer = "found" /\ mode = "capture"
        /\ c \in call[r].before \ ignored
        => c \in call[r].seen \cup call[r].moved \/ call[r].more

\* The property speaks of each call by itself.
LEMMA MissesAll ==
  SearchMissesOnlyWhatMoved <=> \A r \in Calls : Misses(r)
  BY DEF SearchMissesOnlyWhatMoved, Misses, At

\* A call that is elsewhere, or no search of the inbox, promises nothing here.
LEMMA Elsewhere ==
  ASSUME NEW r \in Calls,
         \/ call'[r].pc \notin {"inbox", "answered"}
         \/ call'[r].pc = "answered" /\ call'[r].answer # "found"
         \/ call'[r].op # "search" \/ mode' # "capture"
  PROVE  Searches(r)' /\ Misses(r)'
  BY DEF Searches, Misses

\* A passage that is unfinished stays so, or the search remembers it.
LEMMA UnfinishedStays ==
  ASSUME TypeOK, [Next]_vars, NEW r \in Calls, NEW c \in Captures,
         call[r].pc = "inbox", c \in Unfinished
  PROVE  c \in Unfinished' \/ c \in call'[r].moved
<1> CallsOK /\ Grows
  BY SharedStep DEF TypeOK
<1>1. row'[c] # "absent"
  BY DEF Unfinished, Grows
<1>2. CASE row'[c] = "complete"
  BY <1>2, FinishedByWorker, Markings DEF Unfinished
<1>3. CASE row'[c] # "complete"
  BY <1>1, <1>3 DEF Unfinished
<1> QED BY <1>2, <1>3

\* A finished passage is in the graph when the search reads it, and an unfinished
\* one is in the inbox or has been finished since.
LEMMA SearchStep ==
  ASSUME TypeOK, Remembered, [Next]_vars, NEW r \in Calls,
         Searches(r), Misses(r)
  PROVE  Searches(r)' /\ Misses(r)'
<1> CallsOK /\ SharedOK /\ Grows
  BY SharedStep DEF TypeOK
<1>1. CASE call'[r] = call[r]
  BY <1>1, UnfinishedStays DEF Searches, Misses, Grows
<1>5. CASE Marks(r)
  <2>1. Misses(r)'
    BY <1>5 DEF Marks, Misses
  <2>2. Searches(r)'
    BY <1>5, UnfinishedStays DEF Marks, Searches, Grows
  <2> QED BY <2>1, <2>2
<1>2. CASE call'[r] = NoCall
  BY <1>2, NoAnswer, Elsewhere
<1>3. ASSUME NEW op \in Ops, Begin(r, op)
      PROVE  Searches(r)' /\ Misses(r)'
  <2>1. call'[r].pc \in {"work", "tenant"}
    BY <1>3, BeginOne
  <2> QED BY <2>1, Elsewhere
<1>4. CASE Advances(r)
  <2>1. ASSUME NEW pc \in {"graph", "put_tenant", "put_graph", "work", "put"},
               Goes(r, pc)
        PROVE  Searches(r)' /\ Misses(r)'
    <3>1. call'[r].pc = pc
      BY <2>1, Goings DEF Becomes
    <3> QED BY <3>1, Elsewhere
  <2>2. ASSUME NEW answer, answer # "found", Answers(r, answer)
        PROVE  Searches(r)' /\ Misses(r)'
    <3>1. call'[r].pc = "answered" /\ call'[r].answer = answer
      BY <2>2, Answerings DEF Becomes
    <3> QED BY <2>2, <3>1, Elsewhere
  <2>3. CASE HeadTenant(r) \/ PutTenant(r) \/ HeadGraph(r)
    BY <2>1, <2>3 DEF HeadTenant, PutTenant, HeadGraph
  <2>4. CASE PutGraph(r) \/ HeadNode(r)
    BY <2>1, <2>2, <2>4 DEF PutGraph, HeadNode
  <2>5. CASE LegacySearch(r)
    <3>1. mode' # "capture"
      BY <2>5 DEF LegacySearch
    <3> QED BY <3>1, Elsewhere
  <2>6. CASE PutNode(r) \/ Rejected(r) \/ TimedOut(r)
    BY <2>2, <2>6 DEF PutNode, Rejected, TimedOut
  <2>12. CASE NotFound(r)
    <3>1. call'[r].pc = "answered" /\ call'[r].answer = "unavailable"
      BY <2>12, Missings DEF Becomes
    <3> QED BY <3>1, Elsewhere
  <2>13. CASE StoreRefused(r)
    BY <2>2, <2>12, <2>13 DEF StoreRefused
  <2>14. CASE GetMemory(r)
    <3>1. CASE Answers(r, "found")
      <4>1. call'[r].op # "search"
        BY <2>14, <3>1, Answerings DEF GetMemory, Becomes
      <4> QED BY <4>1, Elsewhere
    <3> QED BY <2>2, <2>12, <2>14, <3>1 DEF GetMemory
  <2>7. CASE OrientInbox(r) \/ \E c \in Captures : Capture(r, c)
    BY <2>2, <2>7 DEF OrientInbox, Capture
  <2>8. CASE \E memory \in Memories : StoreMemory(r, memory)
    <3>1. call'[r].pc = "check"
      BY <2>8, Storings DEF Becomes
    <3> QED BY <3>1, Elsewhere
  <2>9. CASE OrientGraph(r)
    <3>1. Becomes(r, "inbox", call[r].about, facts, facts # facts,
                  call[r].answer)
      BY <2>9, Takings DEF OrientGraph
    <3>2. call'[r].op # "search"
      BY <2>9, <3>1 DEF OrientGraph, Becomes
    <3> QED BY <3>2, Elsewhere
  <2>10. CASE SearchGraph(r)
    <3>1. PICK seen \in Cut(facts) : Took(r, seen, facts)
      BY <2>10 DEF SearchGraph
    <3>2. /\ call'[r].pc = "inbox" /\ call'[r].seen = seen
          /\ call'[r].more = (seen # facts)
          /\ call'[r].before = call[r].before
      BY <3>1, Takings DEF Becomes
    <3>3. /\ call[r].before \subseteq Captured
          /\ \A c \in Captures : row[c] = "complete" => c \in facts \cup ignored
      BY DEF Remembered, Remembers, Finished
    <3>4. UNCHANGED inbox
      BY <2>10 DEF SearchGraph
    <3>5. ASSUME NEW c \in Captures, c \in call[r].before, c \notin ignored'
          PROVE  c \in seen \/ seen # facts \/ c \in Unfinished'
      BY <3>3, <3>4, <3>5 DEF Captured, Unfinished, inbox
    <3> QED BY <3>2, <3>5 DEF Searches, Misses
  <2>11. CASE SearchPending(r)
    <3>1. PICK found \in SUBSET Unfinished :
            Becomes(r, "answered", call[r].about, call[r].seen \cup found,
                    call[r].more \/ found # Unfinished, "found")
      BY <2>11, Searchings
    <3>2. /\ call'[r].pc = "answered" /\ call'[r].op = call[r].op
          /\ call'[r].seen = call[r].seen \cup found
          /\ call'[r].more = (call[r].more \/ found # Unfinished)
          /\ call'[r].before = call[r].before
          /\ call'[r].moved = call[r].moved
      BY <3>1 DEF Becomes
    <3>3. ASSUME NEW c \in Captures, c \in call[r].before, c \notin ignored',
                 mode' = "capture"
          PROVE  \/ c \in call[r].seen \cup found \/ c \in call[r].moved
                 \/ call[r].more \/ found # Unfinished
      BY <2>11, <3>3 DEF SearchPending, At, Searches, Grows
    <3> QED BY <3>2, <3>3 DEF Searches, Misses
  <2> QED BY <1>4, <2>3, <2>4, <2>5, <2>6, <2>7, <2>8, <2>9, <2>10, <2>11, <2>13,
             <2>14 DEF Advances
<1> QED BY <1>1, <1>2, <1>3, <1>4, <1>5, CallStep

SearchInv == \A r \in Calls : Searches(r) /\ Misses(r)

\* memory_search finds what was captured before it began, or says that there is more,
\* or the passage was finished between its two readings: with any limit, any number of
\* passages, workers and calls, and jobs that are written back after they were
\* finished.
THEOREM SearchCorrect == Spec => []SearchMissesOnlyWhatMoved
<1>1. Init => SearchInv
  <2> SUFFICES ASSUME Init, NEW r \in Calls PROVE Searches(r) /\ Misses(r)
    BY DEF SearchInv
  <2>1. call[r].pc = "idle"
    BY NoAnswer DEF Init
  <2> QED BY <2>1 DEF Searches, Misses
<1>2. TypeOK /\ Remembered /\ SearchInv /\ [Next]_vars => SearchInv'
  BY SearchStep DEF SearchInv
<1>3. SearchInv => SearchMissesOnlyWhatMoved
  BY MissesAll DEF SearchInv
<1> QED BY <1>1, <1>2, <1>3, TypeCorrect, RememberedCorrect, PTL DEF Spec

-----------------------------------------------------------------------------
(* A call that nothing disturbed does not fail, unless another saved the very *)
(* memory it was about or it asked for one that was not there.               *)

\* What a call has found or created, and what was there when it began, is there until
\* a fault.
Scoped(r) ==
    /\ call[r].pc \in {"graph", "put_graph"} => store.tenant
    /\ /\ call[r].pc \in {"work", "check", "put"}
       /\ mode = "legacy" /\ ~call[r].stale
       => store.graph
    /\ call[r].pc # "idle" => call[r].had \subseteq store.nodes
    /\ /\ call[r].pc = "answered" /\ call[r].answer = "unavailable"
       /\ ~call[r].stale
       => Explained(r)

\* Which calls are of legacy mode, and when a call began.
Kind(r) ==
    /\ call[r].op \in {"get", "store"} => mode = "legacy"
    /\ call[r].pc \in {"check", "put"} => mode = "legacy"
    /\ call[r].since <= faults

ScopeInv == \A r \in Calls : Kind(r) /\ (call[r].since = faults => Scoped(r))

\* The invariant says what the property does.
LEMMA ScopeMeans == ScopeInv => FailuresExplained
  BY DEF ScopeInv, Scoped, FailuresExplained, Undisturbed, At

\* At the start no call has begun.
LEMMA ScopeInit == Init => ScopeInv
<1> SUFFICES ASSUME Init, NEW r \in Calls
             PROVE  Kind(r) /\ Scoped(r)
  BY DEF ScopeInv
<1>1. call[r].pc = "idle" /\ call[r].op = "none" /\ call[r].since = 0
  BY NoAnswer DEF Init
<1>2. faults = 0
  BY DEF Init
<1> QED BY <1>1, <1>2 DEF Kind, Scoped

\* A call keeps its kind, and began before now.
LEMMA KindStep ==
  ASSUME TypeOK, [Next]_vars, NEW r \in Calls, Kind(r)
  PROVE  Kind(r)'
<1> CallsOK /\ SharedOK /\ Grows
  BY SharedStep DEF TypeOK
<1>1. faults \in Nat /\ faults' \in {faults, faults + 1} /\ mode' = mode
  BY DEF SharedOK, Grows
<1>2. call[r].since \in Nat
  BY DEF CallsOK, CallRecord
<1>3. CASE call'[r] = call[r]
  BY <1>1, <1>2, <1>3 DEF Kind
<1>4. CASE call'[r] = NoCall
  BY <1>1, <1>4, NoAnswer DEF Kind
<1>5. ASSUME NEW op \in Ops, Begin(r, op) PROVE Kind(r)'
  <2>1. op \in {"get", "store"} => mode = "legacy"
    BY DEF Ops
  <2>2. /\ call'[r].op = op /\ call'[r].pc \in {"work", "tenant"}
        /\ call'[r].since = faults /\ faults' = faults
    BY <1>5, BeginOne
  <2> QED BY <1>1, <2>1, <2>2 DEF Kind
<1>7. CASE Marks(r)
  BY <1>1, <1>2, <1>7 DEF Marks, Kind
<1>6. CASE Advances(r)
  <2>1. call'[r].op = call[r].op /\ call'[r].since = call[r].since
    BY <1>6, AdvancesOne DEF Becomes
  <2>2. call'[r].pc \in {"check", "put"} => mode = "legacy"
    <3>1. ASSUME NEW pc, pc \notin {"check", "put"}, Goes(r, pc)
          PROVE  call'[r].pc \notin {"check", "put"}
      BY <3>1, Goings DEF Becomes
    <3>2. ASSUME NEW answer, Answers(r, answer)
          PROVE  call'[r].pc \notin {"check", "put"}
      BY <3>2, Answerings DEF Becomes
    <3>3. CASE HeadTenant(r) \/ PutTenant(r) \/ HeadGraph(r) \/ PutGraph(r)
      BY <3>1, <3>2, <3>3 DEF HeadTenant, PutTenant, HeadGraph, PutGraph
    <3>10. CASE NotFound(r)
      BY <3>10, Missings DEF Becomes
    <3>4. CASE \/ LegacySearch(r) \/ GetMemory(r) \/ StoreRefused(r)
               \/ PutNode(r) \/ Rejected(r)
      BY <3>2, <3>4, <3>10
         DEF LegacySearch, GetMemory, StoreRefused, PutNode, Rejected
    <3>5. CASE \/ OrientInbox(r) \/ TimedOut(r)
               \/ \E c \in Captures : Capture(r, c)
      BY <3>2, <3>5 DEF OrientInbox, TimedOut, Capture
    <3>6. CASE HeadNode(r) \/ \E memory \in Memories : StoreMemory(r, memory)
      BY <3>6 DEF HeadNode, StoreMemory, At, Kind
    <3>7. CASE SearchGraph(r)
      <4>1. PICK seen : Took(r, seen, facts)
        BY <3>7 DEF SearchGraph
      <4> QED BY <4>1, Takings DEF Becomes
    <3>8. CASE OrientGraph(r)
      <4>1. Took(r, facts, facts)
        BY <3>8 DEF OrientGraph
      <4> QED BY <4>1, Takings DEF Becomes
    <3>9. CASE SearchPending(r)
      <4>1. call'[r].pc = "answered"
        BY <3>9, Searchings DEF Becomes
      <4> QED BY <4>1
    <3> QED BY <1>6, <3>3, <3>4, <3>5, <3>6, <3>7, <3>8, <3>9 DEF Advances
  <2> QED BY <1>1, <1>2, <2>1, <2>2 DEF Kind
<1> QED BY <1>3, <1>4, <1>5, <1>6, <1>7, CallStep

\* Only a call that has begun goes on.
LEMMA NoWork ==
  ASSUME NEW r \in Calls, Advances(r)
  PROVE  call[r].pc # "idle"
  BY DEF Advances, At, HeadTenant, PutTenant, HeadGraph, PutGraph, LegacySearch,
         GetMemory, StoreRefused, HeadNode, PutNode, StoreMemory, Rejected, Capture,
         SearchGraph, SearchPending, OrientGraph, OrientInbox, TimedOut

\* Tenant, graph and memories that a call found stay while nothing disturbs it.
LEMMA ScopeStep ==
  ASSUME TypeOK, [Next]_vars, NEW r \in Calls, Kind(r),
         call[r].since = faults => Scoped(r), call'[r].since = faults'
  PROVE  Scoped(r)'
<1> CallsOK /\ SharedOK /\ Grows
  BY SharedStep DEF TypeOK
<1>1. faults \in Nat /\ faults' \in {faults, faults + 1} /\ mode' = mode
  BY DEF SharedOK, Grows
<1>2. ASSUME call'[r].since = call[r].since
      PROVE  /\ faults' = faults /\ Scoped(r)
             /\ store.tenant => store'.tenant
             /\ store.graph => store'.graph
             /\ store.nodes \subseteq store'.nodes
  <2>1. call[r].since \in Nat
    BY DEF CallsOK, CallRecord
  <2>2. faults' = faults /\ call[r].since = faults
    BY <1>1, <1>2, <2>1 DEF Kind
  <2> QED BY <2>2 DEF Grows
<1>3. CASE call'[r] = call[r]
  <2>1. call'[r].since = call[r].since
    BY <1>3
  <2>2. /\ Scoped(r)
        /\ store.tenant => store'.tenant
        /\ store.graph => store'.graph
        /\ store.nodes \subseteq store'.nodes
    BY <1>2, <2>1
  <2> QED BY <1>1, <1>3, <2>2 DEF Scoped, Explained
<1>7. CASE Marks(r)
  <2>1. call'[r].since = call[r].since
    BY <1>7 DEF Marks
  <2>2. Scoped(r) /\ store.nodes \subseteq store'.nodes
    BY <1>2, <2>1
  <2> QED BY <1>7, <2>2 DEF Marks, Scoped
<1>4. CASE call'[r] = NoCall
  BY <1>4, NoAnswer DEF Scoped
<1>5. ASSUME NEW op \in Ops, Begin(r, op) PROVE Scoped(r)'
  BY <1>5, BeginOne DEF Scoped
<1>6. CASE Advances(r)
  <2>1. /\ call'[r].op = call[r].op /\ call'[r].since = call[r].since
        /\ call'[r].stale = call[r].stale /\ call'[r].had = call[r].had
    BY <1>6, AdvancesOne DEF Becomes
  <2>2. /\ faults' = faults /\ Scoped(r)
        /\ store.tenant => store'.tenant
        /\ store.graph => store'.graph
        /\ store.nodes \subseteq store'.nodes
    BY <1>2, <2>1
  <2>A. call[r].pc # "idle"
    BY <1>6, NoWork
  <2>B. call'[r].had \subseteq store'.nodes
    BY <2>1, <2>2, <2>A DEF Scoped
  <2>3. ASSUME NEW answer, answer # "unavailable", Answers(r, answer)
        PROVE  Scoped(r)'
    <3>1. call'[r].pc = "answered" /\ call'[r].answer = answer
      BY <2>3, Answerings DEF Becomes
    <3> QED BY <2>B, <2>3, <3>1 DEF Scoped
  <2>4. ASSUME NEW pc \in {"put_tenant", "put_graph", "graph", "work", "put"},
               Goes(r, pc)
        PROVE  call'[r].pc = pc /\ call'[r].about = call[r].about
    BY <2>4, Goings DEF Becomes
  <2>5. ASSUME NEW answer, Answers(r, answer)
        PROVE  /\ call'[r].pc = "answered" /\ call'[r].answer = answer
               /\ call'[r].about = call[r].about
    BY <2>5, Answerings DEF Becomes
  <2>6. CASE HeadTenant(r)
    <3>1. CASE store.tenant
      <4>1. Goes(r, "graph")
        BY <2>6, <3>1 DEF HeadTenant
      <4> QED BY <2>B, <2>2, <2>4, <3>1, <4>1 DEF Scoped
    <3>2. CASE ~store.tenant
      <4>1. Goes(r, "put_tenant")
        BY <2>6, <3>2 DEF HeadTenant
      <4> QED BY <2>B, <2>4, <4>1 DEF Scoped
    <3> QED BY <3>1, <3>2
  <2>7. CASE PutTenant(r)
    <3>1. store'.tenant
      BY <2>7 DEF PutTenant, SharedOK, Stores
    <3> QED BY <2>B, <2>4, <2>7, <3>1 DEF PutTenant, Scoped
  <2>8. CASE HeadGraph(r)
    <3>1. CASE store.graph
      <4>1. Goes(r, "work")
        BY <2>8, <3>1 DEF HeadGraph
      <4> QED BY <2>B, <2>2, <2>4, <3>1, <4>1 DEF Scoped
    <3>2. CASE ~store.graph
      <4>1. Goes(r, "put_graph")
        BY <2>8, <3>2 DEF HeadGraph
      <4>2. call[r].pc = "graph"
        BY <2>8 DEF HeadGraph, At
      <4> QED BY <2>B, <2>2, <2>4, <4>1, <4>2 DEF Scoped
    <3> QED BY <3>1, <3>2
  <2>9. CASE PutGraph(r)
    <3>1. store.tenant
      BY <2>B, <2>2, <2>9 DEF PutGraph, At, Scoped
    <3>2. Goes(r, "work") /\ store'.graph
      BY <2>9, <3>1 DEF PutGraph, SharedOK, Stores
    <3> QED BY <2>B, <2>4, <3>2 DEF Scoped
  <2>10. CASE LegacySearch(r)
    <3>1. call[r].stale \/ store.graph
      BY <2>B, <2>2, <2>10 DEF LegacySearch, At, Scoped
    <3>2. CASE store.graph
      BY <2>3, <2>10, <3>2 DEF LegacySearch
    <3>3. CASE call[r].stale
      <4>1. call'[r].pc = "answered" /\ call'[r].stale
        BY <2>1, <2>5, <2>10, <3>3 DEF LegacySearch
      <4> QED BY <2>B, <4>1 DEF Scoped
    <3> QED BY <3>1, <3>2, <3>3
  <2>11. CASE HeadNode(r) \/ PutNode(r)
    <3>1. mode = "legacy"
      BY <2>11 DEF HeadNode, PutNode, At, Kind
    <3>2. call[r].stale \/ store.graph
      BY <2>B, <2>2, <2>11, <3>1 DEF HeadNode, PutNode, At, Scoped
    <3>3. CASE call[r].stale
      <4>1. call'[r].stale /\ call'[r].pc \in {"put", "answered"}
        BY <2>1, <2>4, <2>5, <2>11, <3>3 DEF HeadNode, PutNode
      <4> QED BY <2>B, <4>1 DEF Scoped
    <3>4. CASE store.graph /\ HeadNode(r)
      <4>1. CASE Goes(r, "put")
        BY <2>B, <2>2, <2>4, <3>4, <4>1 DEF Scoped
      <4>2. CASE Answers(r, "duplicate")
        BY <2>3, <4>2
      <4> QED BY <3>4, <4>1, <4>2 DEF HeadNode
    <3>5. CASE store.graph /\ PutNode(r)
      <4>1. CASE Answers(r, "stored")
        BY <2>3, <4>1
      <4>2. CASE Answers(r, "unavailable") /\ call[r].about \in store.nodes
        BY <2>B, <2>2, <2>5, <4>2 DEF Scoped, Explained
      <4> QED BY <3>5, <4>1, <4>2 DEF PutNode
    <3> QED BY <2>11, <3>2, <3>3, <3>4, <3>5
  <2>12. CASE \/ StoreRefused(r) \/ Rejected(r) \/ OrientInbox(r)
              \/ GetMemory(r) \/ \E c \in Captures : Capture(r, c)
    <3>1. CASE NotFound(r)
      <4>1. /\ call'[r].pc = "answered" /\ call'[r].named \in Memories
            /\ call'[r].named \notin store.nodes
        BY <3>1, Missings DEF Becomes
      <4>2. call'[r].named \notin call'[r].had
        BY <2>1, <2>2, <2>A, <4>1 DEF Scoped
      <4> QED BY <2>B, <4>1, <4>2 DEF Scoped, Explained
    <3> QED BY <2>3, <2>12, <3>1
            DEF StoreRefused, GetMemory, Rejected, OrientInbox, Capture
  <2>13. ASSUME NEW memory \in Memories, StoreMemory(r, memory)
         PROVE  Scoped(r)'
    <3>1. call'[r].pc = "check" /\ call[r].pc = "work"
      BY <2>13, Storings DEF StoreMemory, At, Becomes
    <3> QED BY <2>B, <1>1, <2>1, <2>2, <3>1 DEF Scoped
  <2>14. CASE SearchGraph(r)
    <3>1. PICK seen : Took(r, seen, facts)
      BY <2>14 DEF SearchGraph
    <3>2. call'[r].pc = "inbox"
      BY <3>1, Takings DEF Becomes
    <3> QED BY <2>B, <3>2 DEF Scoped
  <2>15. CASE OrientGraph(r)
    <3>1. call'[r].pc = "inbox"
      BY <2>15, Takings DEF OrientGraph, Becomes
    <3> QED BY <2>B, <3>1 DEF Scoped
  <2>16. CASE SearchPending(r)
    <3>1. call'[r].pc = "answered" /\ call'[r].answer = "found"
      BY <2>16, Searchings DEF Becomes
    <3> QED BY <2>B, <3>1 DEF Scoped
  <2>17. CASE TimedOut(r)
    BY <1>1, <2>2, <2>17 DEF TimedOut, Fault
  <2> QED BY <1>6, <2>6, <2>7, <2>8, <2>9, <2>10, <2>11, <2>12, <2>13, <2>14,
             <2>15, <2>16, <2>17 DEF Advances
<1> QED BY <1>3, <1>4, <1>5, <1>6, <1>7, CallStep

\* A call that no fault disturbed, of a process whose scope was not lost under it, is
\* told that the backend failed only if the memory it was to save has been saved, or if
\* it asked for one that was not there when it began: however many calls create the
\* tenant and the graph at once (ensure_memory_scope, get_memory, store_memory).
THEOREM FailuresExplainedAlways == Spec => []FailuresExplained
<1>1. TypeOK /\ ScopeInv /\ [Next]_vars => ScopeInv'
  BY KindStep, ScopeStep DEF ScopeInv
<1> QED BY <1>1, ScopeInit, ScopeMeans, TypeCorrect, PTL DEF Spec

-----------------------------------------------------------------------------
(* The resolver: what is in the graph, what was read of it, and what the   *)
(* model has been shown, for any graph, any number of writers and names,   *)
(* pages of any size and a model that may make any number of calls.        *)

HIDE FacadeAssumption DEF FacadeAssumption

Writings == {"no", "checked", "saved", "unsure", "failed"}

ListsLeft == {<<>>, <<"nodes">>, <<"nodes", "edges">>, <<"edges">>}

Scans == [lists : ListsLeft, skip : Nat, overrun : BOOLEAN,
          nodes : SUBSET Nat, edges : SUBSET Nat]

GraphOK == /\ graph \in SUBSET Nat /\ IsFiniteSet(graph)
           /\ now \in Nat
           /\ writing \in [Bundles -> Writings]
           /\ scan \in Scans /\ scan.nodes \subseteq graph

ResolverPlaces == {"thinking", "calling", "reading", "failed", "ended"}

Alarms == {"none", "missing_link", "missing_related"}

\* The fields nothing is said of may have any value.
IsResolver(r) ==
    r \in [pc : ResolverPlaces, steps : Nat, todo : {r.todo}, contexts : {r.contexts},
           shown : SUBSET DOMAIN Facts, searched : {r.searched},
           incomplete : {r.incomplete}, candidates : SUBSET DOMAIN Entities,
           read : {r.read}, known : SUBSET DOMAIN Facts, alarm : Alarms,
           outcome : {r.outcome}]

ResolverOK == IsResolver(resolver)

BeforeOK ==
    /\ before \in [start : SUBSET graph, since : Nat, scan : SUBSET graph,
                   named : SUBSET DOMAIN Entities]
    /\ before.since <= now

\* A record that another refers to is stored before it or with it.
References(f) == {Facts[f].subject, Facts[f].object, Facts[f].prior} \ {None}

Closed(records) == \A f \in records \cap DOMAIN Facts : References(f) \subseteq records

\* A bundle that was checked may be stored at any time.
ClosedInv == /\ Closed(graph)
             /\ \A b \in Bundles :
                  writing[b] = "checked" => Refers(b) \subseteq graph

\* What is still to be listed.
Reading == resolver.pc = "reading"

ToDo == Head(resolver.todo).op

ListsInv ==
    Reading =>
      \/ ToDo = "search" /\ scan.lists \in {<<"nodes">>, <<>>}
      \/ ToDo = "context" /\ scan.lists \in {<<"nodes", "edges">>, <<"edges">>, <<>>}

ListsNodes == scan.lists \in {<<"nodes">>, <<"nodes", "edges">>}

\* Places only grow, so that a record is either listed or still to come.
Ahead(list, r) == Place(list, r) > scan.skip

\* What was there when the nodes were begun.
NodesInv ==
    Reading => \A r \in before.start \cup before.scan :
                 r \in scan.nodes \/ (ListsNodes /\ Ahead(graph, r))

\* The edges of the facts among the nodes.
EdgesInv ==
    Reading /\ ToDo = "context" /\ ~ListsNodes =>
      \A f \in scan.nodes \cap DOMAIN Facts :
        \/ f \in scan.edges
        \/ scan.lists = <<"edges">> /\ Ahead(graph \cap DOMAIN Facts, f)

\* A graph of one page is listed at once.
PageInv ==
    Reading /\ Cardinality(graph) <= PageSize =>
      IF ListsNodes THEN scan.skip = 0 /\ scan.nodes = {} ELSE Closed(scan.nodes)

ScanInv == ListsInv /\ NodesInv /\ EdgesInv /\ PageInv

Superseded == {Facts[f].prior : f \in
    {g \in before.start \cap DOMAIN Facts : Facts[g].from <= before.since}}

\* Nothing is known or about to be delivered that had been corrected at the beginning.
CorrectionsInv ==
    /\ (resolver.known \cup resolver.shown) \cap Superseded = {}
    /\ resolver.steps = 0 => resolver.known = {}
    /\ resolver.pc = "thinking" => resolver.shown = {}

\* Who was there when a name was searched is a candidate, unless matches were cut off.
NamesInv ==
    /\ \A e \in before.named : Entities[e].name \in resolver.searched
    /\ \A n \in resolver.searched \ resolver.incomplete :
         Named(before.named, n) \subseteq resolver.candidates
    /\ resolver.pc # "ended" => resolver.outcome = <<"none">>

ResolverInv == /\ GraphOK /\ ResolverOK /\ BeforeOK
               /\ ClosedInv /\ ScanInv
               /\ CorrectionsInv /\ NamesInv
               /\ NoFalseAlarm /\ NamesakesRead

-----------------------------------------------------------------------------
(* Places in a list. *)

\* A part of a finite set is finite and no larger.
LEMMA PartIsSmaller ==
  ASSUME NEW T, IsFiniteSet(T), NEW S \in SUBSET T
  PROVE  /\ IsFiniteSet(S)
         /\ Cardinality(S) \in Nat /\ Cardinality(T) \in Nat
         /\ Cardinality(S) <= Cardinality(T)
<1>1. IsFiniteSet(S) /\ Cardinality(S) <= Cardinality(T)
  BY FS_Subset
<1>2. Cardinality(S) \in Nat /\ Cardinality(T) \in Nat
  BY <1>1, FS_CardinalityType
<1> QED BY <1>1, <1>2

\* A set with one more element is finite.
LEMMA OneMoreIsFinite ==
  ASSUME NEW S, NEW T, NEW x, IsFiniteSet(S), IsFiniteSet(T)
  PROVE  IsFiniteSet(S \cup T \cup {x})
<1>1. IsFiniteSet(S \cup T)
  BY FS_Union
<1> QED BY <1>1, FS_AddElement

\* What is stored moves the records of a list back, and never forward.
LEMMA PlaceGrows ==
  ASSUME NEW T, IsFiniteSet(T), NEW S \in SUBSET T, NEW r
  PROVE  /\ Place(S, r) \in Nat /\ Place(T, r) \in Nat
         /\ Place(S, r) <= Place(T, r)
<1> DEFINE inS == {x \in S : x <= r}
           inT == {x \in T : x <= r}
<1>1. inT \in SUBSET T /\ inS \in SUBSET inT
  OBVIOUS
<1>2. IsFiniteSet(inT)
  BY <1>1, PartIsSmaller
<1>3. /\ Cardinality(inS) \in Nat /\ Cardinality(inT) \in Nat
      /\ Cardinality(inS) <= Cardinality(inT)
  BY <1>1, <1>2, PartIsSmaller
<1> QED BY <1>3 DEF Place

\* A record of a list has a place in it.
LEMMA PlaceInList ==
  ASSUME NEW S \in SUBSET Nat, IsFiniteSet(S), NEW r \in S
  PROVE  /\ Place(S, r) \in Nat
         /\ 1 <= Place(S, r) /\ Place(S, r) <= Cardinality(S)
<1> DEFINE in == {x \in S : x <= r}
<1>1. in \in SUBSET S /\ {r} \in SUBSET in
  OBVIOUS
<1>2. /\ IsFiniteSet(in) /\ Cardinality(in) \in Nat /\ Cardinality(S) \in Nat
      /\ Cardinality(in) <= Cardinality(S)
  BY <1>1, PartIsSmaller
<1>3. Cardinality({r}) = 1
  BY FS_Singleton
<1>4. Cardinality({r}) <= Cardinality(in)
  BY <1>1, <1>2, PartIsSmaller
<1> QED BY <1>2, <1>3, <1>4 DEF Place

-----------------------------------------------------------------------------
(* Writing. *)

\* What the writers and the clock leave to the reader: whole transactions only, and
\* never less than there was.
Stored == /\ graph \in SUBSET graph' /\ graph' \in SUBSET Nat
          /\ IsFiniteSet(graph')
          /\ now \in Nat /\ now' \in Nat /\ now <= now'
          /\ writing' \in [Bundles -> Writings]
          /\ UNCHANGED scan

\* A bundle that was checked refers to what is stored from then on.
LEMMA CheckStep ==
  ASSUME GraphOK, ClosedInv, NEW b \in Bundles, CheckBundle(b)
  PROVE  Stored /\ ClosedInv'
<1>1. UNCHANGED <<graph, now, scan>>
  BY DEF CheckBundle
<1>2. PICK w \in Writings :
        /\ writing' = [writing EXCEPT ![b] = w]
        /\ w = "checked" => Refers(b) \subseteq graph
  BY DEF CheckBundle, Writings
<1>3. writing' \in [Bundles -> Writings]
  BY <1>2 DEF GraphOK
<1>4. Stored
  BY <1>1, <1>3 DEF Stored, GraphOK
<1>5. \A c \in Bundles : writing'[c] = "checked" => Refers(c) \subseteq graph'
  BY <1>1, <1>2 DEF GraphOK, ClosedInv
<1>6. Closed(graph)'
  BY <1>1 DEF ClosedInv, Closed, References
<1> QED BY <1>4, <1>5, <1>6 DEF ClosedInv, Refers

\* A transaction brings along what its records refer to, unless it is there.
LEMMA TransactStep ==
  ASSUME GraphOK, ClosedInv, NEW b \in Bundles, Transact(b)
  PROVE  Stored /\ ClosedInv'
<1>1. UNCHANGED <<now, scan>> /\ writing[b] = "checked"
  BY DEF Transact
<1>2. PICK w \in {"saved", "unsure"} : writing' = [writing EXCEPT ![b] = w]
  BY DEF Transact
<1>3. writing' \in [Bundles -> Writings]
  BY <1>2 DEF GraphOK, Writings
<1>4. graph' = graph \cup b.new \cup {b.receipt} \/ graph' = graph
  BY DEF Transact
<1>5. /\ b.new \in SUBSET Nat /\ IsFiniteSet(b.new) /\ b.receipt \in Nat
      /\ b.receipt \notin DOMAIN Facts
  BY GraphAssumption DEF GraphAssumption
<1>6. graph \in SUBSET Nat /\ IsFiniteSet(graph) /\ now \in Nat
  BY DEF GraphOK
<1>7. IsFiniteSet(graph')
  <2>1. IsFiniteSet(graph \cup b.new \cup {b.receipt})
    BY <1>5, <1>6, OneMoreIsFinite
  <2> QED BY <2>1, <1>4, <1>6
<1>8. graph \in SUBSET graph' /\ graph' \in SUBSET Nat
  BY <1>4, <1>5, <1>6
<1>9. Stored
  BY <1>1, <1>3, <1>6, <1>7, <1>8 DEF Stored
<1>10. \A c \in Bundles : writing'[c] = "checked" => Refers(c) \subseteq graph
  BY <1>2 DEF GraphOK, ClosedInv
<1>11. Refers(b) \subseteq graph
  BY <1>1 DEF ClosedInv
<1>12. ASSUME NEW f \in b.new \cap DOMAIN Facts, NEW x \in References(f)
       PROVE  x \in graph \cup b.new
  BY <1>11 DEF References, Refers
<1>13. ASSUME NEW f \in graph' \cap DOMAIN Facts, NEW x \in References(f)
       PROVE  x \in graph'
  <2>1. CASE f \in graph
    BY <2>1, <1>8 DEF ClosedInv, Closed
  <2>2. CASE f \notin graph
    <3>1. f \in b.new /\ graph' = graph \cup b.new \cup {b.receipt}
      BY <2>2, <1>4, <1>5
    <3> QED BY <3>1, <1>12
  <2> QED BY <2>1, <2>2
<1>14. Closed(graph)'
  BY <1>13 DEF Closed, References
<1> QED BY <1>8, <1>9, <1>10, <1>14 DEF ClosedInv, Refers

\* An answer that was lost is looked up, and nothing is stored.
LEMMA ConfirmStep ==
  ASSUME GraphOK, ClosedInv, NEW b \in Bundles, Confirm(b)
  PROVE  Stored /\ ClosedInv'
<1>1. UNCHANGED <<graph, now, scan>>
  BY DEF Confirm
<1>2. PICK w \in {"saved", "failed"} : writing' = [writing EXCEPT ![b] = w]
  BY DEF Confirm
<1>3. writing' \in [Bundles -> Writings]
  BY <1>2 DEF GraphOK, Writings
<1>4. Stored
  BY <1>1, <1>3 DEF Stored, GraphOK
<1>5. \A c \in Bundles : writing'[c] = "checked" => Refers(c) \subseteq graph'
  BY <1>1, <1>2 DEF GraphOK, ClosedInv
<1>6. Closed(graph)'
  BY <1>1 DEF ClosedInv, Closed, References
<1> QED BY <1>4, <1>5, <1>6 DEF ClosedInv, Refers

\* A step of a writer or of the clock.
LEMMA WritersStep ==
  ASSUME GraphOK, ClosedInv, GraphNext
  PROVE  Stored /\ ClosedInv'
<1>1. CASE Tick
  <2>1. UNCHANGED <<graph, writing, scan>> /\ now \in Nat /\ now' = now + 1
    BY <1>1 DEF Tick, GraphOK
  <2>2. Stored
    BY <2>1 DEF Stored, GraphOK
  <2>3. ClosedInv'
    BY <2>1 DEF ClosedInv, Closed, References, Refers
  <2> QED BY <2>2, <2>3
<1>2. CASE \E b \in Bundles : CheckBundle(b)
  BY <1>2, CheckStep
<1>3. CASE \E b \in Bundles : Transact(b)
  BY <1>3, TransactStep
<1>4. CASE \E b \in Bundles : Confirm(b)
  BY <1>4, ConfirmStep
<1> QED BY <1>1, <1>2, <1>3, <1>4 DEF GraphNext

\* What was stored since leaves the reader's position as good as it was: whoever was
\* still to come has not moved forward.
LEMMA StoredStep ==
  ASSUME ResolverInv, Stored, ClosedInv',
         UNCHANGED <<resolver, before>>
  PROVE  ResolverInv'
<1> USE DEF ResolverInv
<1>1. /\ graph \in SUBSET graph' /\ IsFiniteSet(graph') /\ graph' \in SUBSET Nat
      /\ scan' = scan /\ resolver' = resolver /\ before' = before
      /\ now \in Nat /\ now' \in Nat /\ now <= now'
  BY DEF Stored
<1>2. GraphOK'
  BY <1>1 DEF GraphOK, Stored
<1>3. ResolverOK'
  BY <1>1 DEF ResolverOK, IsResolver
<1>4. BeforeOK'
  <2>1. /\ before \in [start : SUBSET graph', since : Nat, scan : SUBSET graph',
                        named : SUBSET DOMAIN Entities]
        /\ before.since \in Nat
    BY <1>1 DEF BeforeOK
  <2>2. before.since <= now'
    BY <1>1, <2>1 DEF BeforeOK
  <2> QED BY <1>1, <2>1, <2>2 DEF BeforeOK
<1>5. scan.skip \in Nat /\ PageSize \in Nat
  BY GraphAssumption DEF GraphOK, Scans, GraphAssumption
<1>6. ASSUME NEW r, Ahead(graph, r) PROVE Ahead(graph', r)
  <2>1. /\ Place(graph, r) \in Nat /\ Place(graph', r) \in Nat
        /\ Place(graph, r) <= Place(graph', r)
    BY <1>1, PlaceGrows
  <2> QED BY <2>1, <1>5, <1>6 DEF Ahead
<1>7. ASSUME NEW r, Ahead(graph \cap DOMAIN Facts, r)
      PROVE  Ahead(graph' \cap DOMAIN Facts, r)
  <2>1. /\ graph \cap DOMAIN Facts \in SUBSET (graph' \cap DOMAIN Facts)
        /\ graph' \cap DOMAIN Facts \in SUBSET graph'
    BY <1>1
  <2>2. IsFiniteSet(graph' \cap DOMAIN Facts)
    BY <1>1, <2>1, PartIsSmaller
  <2>3. /\ Place(graph \cap DOMAIN Facts, r) \in Nat
        /\ Place(graph' \cap DOMAIN Facts, r) \in Nat
        /\ Place(graph \cap DOMAIN Facts, r) <= Place(graph' \cap DOMAIN Facts, r)
    BY <2>1, <2>2, PlaceGrows
  <2> QED BY <2>3, <1>5, <1>7 DEF Ahead
<1>8. /\ Cardinality(graph) \in Nat /\ Cardinality(graph') \in Nat
      /\ Cardinality(graph) <= Cardinality(graph')
  BY <1>1, PartIsSmaller
<1>9. ListsInv'
  BY <1>1 DEF ScanInv, ListsInv, Reading, ToDo
<1>10. NodesInv'
  BY <1>1, <1>6 DEF ScanInv, NodesInv, Reading, ListsNodes, Ahead
<1>11. EdgesInv'
  BY <1>1, <1>7 DEF ScanInv, EdgesInv, Reading, ToDo, ListsNodes, Ahead
<1>12. PageInv'
  BY <1>1, <1>5, <1>8 DEF ScanInv, PageInv, Reading, ListsNodes, Closed, References
<1>13. CorrectionsInv'
  BY <1>1 DEF CorrectionsInv, Superseded
<1>14. NamesInv'
  BY <1>1 DEF NamesInv, Named
<1>15. NoFalseAlarm'
  BY <1>1, <1>5, <1>8 DEF NoFalseAlarm
<1>16. NamesakesRead'
  BY <1>1 DEF NamesakesRead, Named
<1> QED BY <1>2, <1>3, <1>4, <1>9, <1>10, <1>11, <1>12, <1>13, <1>14, <1>15, <1>16
       DEF ScanInv

-----------------------------------------------------------------------------
(* Reading. *)

\* The lists are read one after the other.
LEMMA ListOrder ==
  /\ Head(<<"nodes">>) = "nodes" /\ Tail(<<"nodes">>) = <<>>
  /\ Head(<<"nodes", "edges">>) = "nodes" /\ Tail(<<"nodes", "edges">>) = <<"edges">>
  /\ Head(<<"edges">>) = "edges" /\ Tail(<<"edges">>) = <<>>
  OBVIOUS

\* No two of them are the same.
LEMMA ListsDiffer ==
  /\ <<>> # <<"nodes">> /\ <<>> # <<"nodes", "edges">> /\ <<>> # <<"edges">>
  /\ <<"edges">> # <<"nodes">> /\ <<"edges">> # <<"nodes", "edges">>
  /\ <<"nodes">> # <<"nodes", "edges">>
  OBVIOUS

\* What a page takes from the list that is read: all that is left of it, or those up
\* to the next position.
Passed(list) ==
  \/ /\ Cardinality(list) <= scan.skip + PageSize
     /\ scan'.lists = Tail(scan.lists) /\ scan'.skip = 0
  \/ /\ Cardinality(list) > scan.skip + PageSize
     /\ scan'.lists = scan.lists /\ scan'.skip \in {scan.skip, scan.skip + PageSize}

\* A page is added to what was listed, and the position moves on.
LEMMA PageRead ==
  ASSUME ReadPage, NEW on, on = Head(scan.lists),
         NEW list, list = Listing(on),
         NEW s, s = [scan EXCEPT ![on] = @ \cup Page(list, scan.skip)]
  PROVE  /\ UNCHANGED <<graph, now, writing>>
         /\ scan' = IF Cardinality(list) <= scan.skip + PageSize
                    THEN [s EXCEPT !.lists = Tail(@), !.skip = 0]
                    ELSE IF scan.skip + PageSize = MaxPages * PageSize
                    THEN [s EXCEPT !.overrun = TRUE]
                    ELSE [s EXCEPT !.skip = @ + PageSize]
  BY DEF ReadPage

\* A page of nodes.
LEMMA NodesPage ==
  ASSUME GraphOK, ListsNodes, ReadPage
  PROVE  /\ scan' \in Scans /\ UNCHANGED <<graph, now, writing>>
         /\ scan'.nodes = scan.nodes \cup Page(graph, scan.skip)
         /\ scan'.edges = scan.edges /\ Passed(graph)
<1> DEFINE s == [scan EXCEPT !.nodes = @ \cup Page(graph, scan.skip)]
           skip == scan.skip + PageSize
<1>1. Head(scan.lists) = "nodes" /\ Tail(scan.lists) \in ListsLeft
  BY ListOrder DEF ListsNodes, ListsLeft
<1>2. scan \in Scans /\ graph \in SUBSET Nat /\ PageSize \in Nat
  BY GraphAssumption DEF GraphOK, GraphAssumption
<1>3. skip \in Nat /\ 0 \in Nat
  BY <1>2 DEF Scans
<1>4. Page(graph, scan.skip) \in SUBSET Nat
  BY <1>2 DEF Page
<1>5. /\ s \in Scans /\ s.lists = scan.lists /\ s.skip = scan.skip
      /\ s.nodes = scan.nodes \cup Page(graph, scan.skip) /\ s.edges = scan.edges
      /\ s.overrun = scan.overrun
  BY <1>2, <1>4 DEF Scans
<1>6. /\ UNCHANGED <<graph, now, writing>>
      /\ scan' = IF Cardinality(graph) <= skip
                 THEN [s EXCEPT !.lists = Tail(@), !.skip = 0]
                 ELSE IF skip = MaxPages * PageSize
                 THEN [s EXCEPT !.overrun = TRUE]
                 ELSE [s EXCEPT !.skip = @ + PageSize]
  <2>1. graph = Listing("nodes")
    BY DEF Listing
  <2>2. s = [scan EXCEPT !["nodes"] = @ \cup Page(graph, scan.skip)]
    BY <1>2 DEF Scans
  <2> QED BY <2>1, <2>2, <1>1, PageRead
<1> HIDE DEF s
<1>7. Cardinality(graph) \in Nat
  BY PartIsSmaller DEF GraphOK
<1>8. CASE Cardinality(graph) <= skip
  <2>1. scan' = [s EXCEPT !.lists = Tail(scan.lists), !.skip = 0]
    BY <1>5, <1>6, <1>8
  <2>2. /\ scan' \in Scans /\ scan'.nodes = s.nodes /\ scan'.edges = s.edges
        /\ scan'.lists = Tail(scan.lists) /\ scan'.skip = 0
    BY <2>1, <1>1, <1>3, <1>5 DEF Scans
  <2> QED BY <2>2, <1>5, <1>6, <1>8 DEF Passed
<1>9. CASE Cardinality(graph) > skip /\ skip = MaxPages * PageSize
  <2>1. scan' = [s EXCEPT !.overrun = TRUE]
    BY <1>3, <1>6, <1>7, <1>9
  <2>2. /\ scan' \in Scans /\ scan'.nodes = s.nodes /\ scan'.edges = s.edges
        /\ scan'.lists = s.lists /\ scan'.skip = s.skip
    BY <2>1, <1>5 DEF Scans
  <2> QED BY <2>2, <1>5, <1>6, <1>9 DEF Passed
<1>10. CASE Cardinality(graph) > skip /\ skip # MaxPages * PageSize
  <2>1. scan' = [s EXCEPT !.skip = skip]
    BY <1>3, <1>5, <1>6, <1>7, <1>10
  <2>2. /\ scan' \in Scans /\ scan'.nodes = s.nodes /\ scan'.edges = s.edges
        /\ scan'.lists = s.lists /\ scan'.skip = skip
    BY <2>1, <1>3, <1>5 DEF Scans
  <2> QED BY <2>2, <1>5, <1>6, <1>10 DEF Passed
<1> QED BY <1>3, <1>7, <1>8, <1>9, <1>10

\* A page of edges.
LEMMA EdgesPage ==
  ASSUME GraphOK, scan.lists = <<"edges">>, ReadPage
  PROVE  /\ scan' \in Scans /\ UNCHANGED <<graph, now, writing>>
         /\ scan'.edges = scan.edges \cup Page(graph \cap DOMAIN Facts, scan.skip)
         /\ scan'.nodes = scan.nodes /\ Passed(graph \cap DOMAIN Facts)
<1> DEFINE list == graph \cap DOMAIN Facts
           s == [scan EXCEPT !.edges = @ \cup Page(list, scan.skip)]
           skip == scan.skip + PageSize
<1>1. /\ Head(scan.lists) = "edges" /\ Tail(scan.lists) \in ListsLeft
      /\ "edges" # "nodes"
  BY ListOrder DEF ListsLeft
<1>2. scan \in Scans /\ list \in SUBSET Nat /\ PageSize \in Nat
  BY GraphAssumption DEF GraphOK, GraphAssumption
<1>3. skip \in Nat /\ 0 \in Nat
  BY <1>2 DEF Scans
<1>4. Page(list, scan.skip) \in SUBSET Nat
  BY <1>2 DEF Page
<1>5. /\ s \in Scans /\ s.lists = scan.lists /\ s.skip = scan.skip
      /\ s.edges = scan.edges \cup Page(list, scan.skip) /\ s.nodes = scan.nodes
      /\ s.overrun = scan.overrun
  BY <1>2, <1>4 DEF Scans
<1>6. /\ UNCHANGED <<graph, now, writing>>
      /\ scan' = IF Cardinality(list) <= skip
                 THEN [s EXCEPT !.lists = Tail(@), !.skip = 0]
                 ELSE IF skip = MaxPages * PageSize
                 THEN [s EXCEPT !.overrun = TRUE]
                 ELSE [s EXCEPT !.skip = @ + PageSize]
  <2>1. list = Listing("edges")
    BY <1>1 DEF Listing
  <2>2. s = [scan EXCEPT !["edges"] = @ \cup Page(list, scan.skip)]
    BY <1>2 DEF Scans
  <2> HIDE DEF list, s
  <2> QED BY <2>1, <2>2, <1>1, PageRead
<1>7. Cardinality(list) \in Nat
  <2>1. IsFiniteSet(graph) /\ list \in SUBSET graph
    BY DEF GraphOK
  <2> QED BY <2>1, PartIsSmaller
<1> HIDE DEF s
<1>8. CASE Cardinality(list) <= skip
  <2>1. scan' = [s EXCEPT !.lists = Tail(scan.lists), !.skip = 0]
    BY <1>5, <1>6, <1>8
  <2>2. /\ scan' \in Scans /\ scan'.nodes = s.nodes /\ scan'.edges = s.edges
        /\ scan'.lists = Tail(scan.lists) /\ scan'.skip = 0
    BY <2>1, <1>1, <1>3, <1>5 DEF Scans
  <2> QED BY <2>2, <1>5, <1>6, <1>8 DEF Passed
<1>9. CASE Cardinality(list) > skip /\ skip = MaxPages * PageSize
  <2>1. scan' = [s EXCEPT !.overrun = TRUE]
    BY <1>3, <1>6, <1>7, <1>9
  <2>2. /\ scan' \in Scans /\ scan'.nodes = s.nodes /\ scan'.edges = s.edges
        /\ scan'.lists = s.lists /\ scan'.skip = s.skip
    BY <2>1, <1>5 DEF Scans
  <2> QED BY <2>2, <1>5, <1>6, <1>9 DEF Passed
<1>10. CASE Cardinality(list) > skip /\ skip # MaxPages * PageSize
  <2>1. scan' = [s EXCEPT !.skip = skip]
    BY <1>3, <1>5, <1>6, <1>7, <1>10
  <2>2. /\ scan' \in Scans /\ scan'.nodes = s.nodes /\ scan'.edges = s.edges
        /\ scan'.lists = s.lists /\ scan'.skip = skip
    BY <2>1, <1>3, <1>5 DEF Scans
  <2> QED BY <2>2, <1>5, <1>6, <1>10 DEF Passed
<1>11. \/ Cardinality(list) <= skip
       \/ Cardinality(list) > skip /\ skip = MaxPages * PageSize
       \/ Cardinality(list) > skip /\ skip # MaxPages * PageSize
  BY <1>3, <1>7
<1> QED BY <1>8, <1>9, <1>10, <1>11

\* A record of the list is on the page, was on one before, or is still to come.
LEMMA PageTakes ==
  ASSUME scan \in Scans, scan' \in Scans,
         NEW list \in SUBSET Nat, IsFiniteSet(list), Passed(list),
         NEW r \in list, Ahead(list, r)
  PROVE  \/ r \in Page(list, scan.skip)
         \/ /\ Cardinality(list) > scan.skip + PageSize
            /\ scan'.lists = scan.lists /\ Place(list, r) > scan'.skip
<1>1. /\ Place(list, r) \in Nat /\ Cardinality(list) \in Nat
      /\ Place(list, r) <= Cardinality(list)
  BY PlaceInList, PartIsSmaller
<1>2. scan.skip \in Nat /\ PageSize \in Nat
  BY GraphAssumption DEF Scans, GraphAssumption
<1>3. Place(list, r) > scan.skip
  BY DEF Ahead
<1>4. CASE Place(list, r) <= scan.skip + PageSize
  BY <1>1, <1>2, <1>3, <1>4 DEF Page
<1>5. CASE Place(list, r) > scan.skip + PageSize
  BY <1>1, <1>2, <1>3, <1>5 DEF Passed
<1> QED BY <1>1, <1>2, <1>4, <1>5

\* Only the reader moves on: what does not depend on the lists stays.
LEMMA ScanOnly ==
  ASSUME ResolverInv, scan' \in Scans, scan'.nodes \subseteq graph,
         UNCHANGED <<graph, now, writing, resolver, before>>,
         ScanInv'
  PROVE  ResolverInv'
<1> USE DEF ResolverInv
<1>1. GraphOK'
  BY DEF GraphOK
<1>2. ResolverOK' /\ BeforeOK'
  BY DEF ResolverOK, IsResolver, BeforeOK
<1>3. ClosedInv'
  BY DEF ClosedInv, Closed, References, Refers
<1>4. CorrectionsInv' /\ NamesInv'
  BY DEF CorrectionsInv, Superseded, NamesInv, Named
<1>5. NoFalseAlarm' /\ NamesakesRead'
  BY DEF NoFalseAlarm, NamesakesRead, Named
<1> QED BY <1>1, <1>2, <1>3, <1>4, <1>5

\* A page of nodes takes what was expected on it, and all of a graph of one page.
LEMMA NodesStep ==
  ASSUME ResolverInv, Reading, ListsNodes, ReadPage,
         UNCHANGED <<resolver, before>>
  PROVE  ResolverInv'
<1> USE DEF ResolverInv
<1>1. /\ scan' \in Scans /\ UNCHANGED <<graph, now, writing>>
      /\ scan'.nodes = scan.nodes \cup Page(graph, scan.skip)
      /\ scan'.edges = scan.edges /\ Passed(graph)
  BY NodesPage
<1>2. /\ scan \in Scans /\ graph \in SUBSET Nat /\ IsFiniteSet(graph)
      /\ scan.nodes \subseteq graph
  BY DEF GraphOK
<1>3. scan'.nodes \subseteq graph
  BY <1>1, <1>2 DEF Page
<1>4. \/ scan'.lists = scan.lists /\ ListsNodes'
      \/ scan'.lists = <<>> /\ scan.lists = <<"nodes">> /\ ~ListsNodes'
      \/ /\ scan'.lists = <<"edges">> /\ scan.lists = <<"nodes", "edges">>
         /\ ~ListsNodes' /\ scan'.skip = 0
  BY <1>1, ListOrder, ListsDiffer DEF Passed, ListsNodes
<1>5. ListsInv'
  BY <1>1, <1>4, ListsDiffer DEF ScanInv, ListsInv, Reading, ToDo
<1>6. ASSUME NEW r \in graph, Ahead(graph, r)
      PROVE  r \in scan'.nodes \/ (scan'.lists = scan.lists /\ Ahead(graph, r)')
  <2>1. \/ r \in Page(graph, scan.skip)
        \/ scan'.lists = scan.lists /\ Place(graph, r) > scan'.skip
    BY <1>1, <1>2, <1>6, PageTakes
  <2> QED BY <2>1, <1>1 DEF Ahead, Place
<1>7. NodesInv'
  <2>1. ASSUME NEW r \in before.start \cup before.scan
        PROVE  r \in scan'.nodes \/ (ListsNodes' /\ Ahead(graph, r)')
    <3>1. r \in graph
      BY DEF BeforeOK
    <3>2. r \in scan.nodes \/ Ahead(graph, r)
      BY DEF ScanInv, NodesInv
    <3> QED BY <3>1, <3>2, <1>1, <1>4, <1>6
  <2> QED BY <2>1 DEF NodesInv
<1>8. EdgesInv'
  <2>1. CASE scan'.lists = <<"edges">> /\ scan'.skip = 0
    <3>1. /\ graph \cap DOMAIN Facts \in SUBSET Nat
          /\ graph \cap DOMAIN Facts \in SUBSET graph
      BY <1>2
    <3>2. IsFiniteSet(graph \cap DOMAIN Facts)
      BY <1>2, <3>1, PartIsSmaller
    <3>3. ASSUME NEW f \in scan'.nodes \cap DOMAIN Facts
          PROVE  Ahead(graph \cap DOMAIN Facts, f)'
      <4>1. f \in graph \cap DOMAIN Facts
        BY <1>3
      <4>2. /\ Place(graph \cap DOMAIN Facts, f) \in Nat
            /\ 1 <= Place(graph \cap DOMAIN Facts, f)
        BY <3>1, <3>2, <4>1, PlaceInList
      <4> QED BY <1>1, <2>1, <4>2 DEF Ahead, Place
    <3> QED BY <2>1, <3>3 DEF EdgesInv
  <2>2. CASE scan'.lists = <<>> /\ scan.lists = <<"nodes">>
    BY <1>1, <2>2, ListsDiffer DEF EdgesInv, ScanInv, ListsInv, Reading, ToDo
  <2> QED BY <1>4, <2>1, <2>2 DEF EdgesInv
<1>9. PageInv'
  <2>1. CASE Cardinality(graph) <= PageSize
    <3>1. scan.skip = 0 /\ scan.nodes = {}
      BY <2>1 DEF ScanInv, PageInv
    <3>2. /\ PageSize \in Nat \ {0} /\ Cardinality(graph) \in Nat
      BY <1>2, PartIsSmaller, GraphAssumption DEF GraphAssumption
    <3>3. ASSUME NEW r \in graph PROVE r \in Page(graph, scan.skip)
      <4>1. /\ Place(graph, r) \in Nat
            /\ 1 <= Place(graph, r) /\ Place(graph, r) <= Cardinality(graph)
        BY <1>2, PlaceInList
      <4>2. Place(graph, r) \in scan.skip + 1 .. scan.skip + PageSize
        BY <2>1, <3>1, <3>2, <4>1
      <4> QED BY <4>2 DEF Page
    <3>4. scan'.nodes = graph
      BY <1>1, <1>3, <3>3
    <3>5. ~ListsNodes'
      <4>1. Cardinality(graph) <= scan.skip + PageSize
        BY <2>1, <3>1, <3>2
      <4>2. scan'.lists = Tail(scan.lists)
        BY <1>1, <3>1, <3>2, <4>1 DEF Passed
      <4> QED BY <4>2, ListOrder, ListsDiffer DEF ListsNodes
    <3>6. Closed(scan'.nodes)
      BY <3>4 DEF ClosedInv
    <3> QED BY <3>5, <3>6 DEF PageInv, Closed, References
  <2>2. CASE ~(Cardinality(graph) <= PageSize)
    BY <1>1, <2>2 DEF PageInv
  <2> QED BY <2>1, <2>2
<1> QED BY <1>1, <1>3, <1>5, <1>7, <1>8, <1>9, ScanOnly DEF ScanInv

\* A page of edges takes those of the facts that were listed before.
LEMMA EdgesStep ==
  ASSUME ResolverInv, Reading, scan.lists = <<"edges">>,
         ReadPage, UNCHANGED <<resolver, before>>
  PROVE  ResolverInv'
<1> USE DEF ResolverInv
<1> DEFINE list == graph \cap DOMAIN Facts
<1>1. /\ scan' \in Scans /\ UNCHANGED <<graph, now, writing>>
      /\ scan'.edges = scan.edges \cup Page(list, scan.skip)
      /\ scan'.nodes = scan.nodes /\ Passed(list)
  BY EdgesPage
<1>2. /\ scan \in Scans /\ list \in SUBSET Nat /\ list \in SUBSET graph
      /\ IsFiniteSet(graph) /\ scan.nodes \subseteq graph
  BY DEF GraphOK
<1>3. IsFiniteSet(list)
  BY <1>2, PartIsSmaller
<1>4. /\ ~ListsNodes /\ ~ListsNodes' /\ ToDo = "context"
      /\ \/ scan'.lists = <<>>
         \/ scan'.lists = <<"edges">>
  BY <1>1, ListOrder, ListsDiffer
     DEF Passed, ListsNodes, ScanInv, ListsInv, Reading, ToDo
<1>5. ListsInv'
  BY <1>1, <1>4 DEF ListsInv, Reading, ToDo
<1>6. NodesInv'
  BY <1>1, <1>4 DEF ScanInv, NodesInv, Reading
<1>7. EdgesInv'
  <2>1. ASSUME NEW f \in scan'.nodes \cap DOMAIN Facts
        PROVE  f \in scan'.edges \/ (scan'.lists = <<"edges">> /\ Ahead(list, f)')
    <3>1. f \in list
      BY <1>1, <1>2
    <3>2. f \in scan.edges \/ Ahead(list, f)
      BY <1>1, <1>4 DEF ScanInv, EdgesInv
    <3>3. CASE Ahead(list, f)
      <4>1. \/ f \in Page(list, scan.skip)
            \/ scan'.lists = scan.lists /\ Place(list, f) > scan'.skip
        BY <1>1, <1>2, <1>3, <3>1, <3>3, PageTakes
      <4> QED BY <4>1, <1>1 DEF Ahead, Place
    <3> QED BY <3>2, <3>3, <1>1
  <2> QED BY <2>1 DEF EdgesInv
<1>8. PageInv'
  BY <1>1, <1>4 DEF ScanInv, PageInv, Closed, References, Reading
<1> QED BY <1>1, <1>2, <1>5, <1>6, <1>7, <1>8, ScanOnly DEF ScanInv

\* A page of either.
LEMMA ReadPageStep ==
  ASSUME ResolverInv, Reading, ReadPage,
         UNCHANGED <<resolver, before>>
  PROVE  ResolverInv'
<1>1. scan.lists # <<>>
  BY DEF ReadPage
<1>2. ListsNodes \/ scan.lists = <<"edges">>
  BY <1>1 DEF ResolverInv, ScanInv, ListsInv, ListsNodes
<1> QED BY <1>2, NodesStep, EdgesStep

-----------------------------------------------------------------------------
(* Resolving. *)

\* Nothing has been listed yet.
LEMMA IdleIsAScan == Idle \in Scans /\ Idle.nodes = {} /\ Idle.edges = {}
  BY DEF Idle, Scans, ListsLeft

\* A call of a tool that is over.
LEMMA UsedIsOver ==
  ASSUME NEW r, IsResolver(r)
  PROVE  /\ IsResolver(Used(r)) /\ Used(r).pc = "thinking"
         /\ Used(r).steps = r.steps + 1 /\ Used(r).shown = {}
         /\ Used(r).searched = r.searched /\ Used(r).incomplete = r.incomplete
         /\ Used(r).candidates = r.candidates /\ Used(r).read = r.read
         /\ Used(r).known = r.known /\ Used(r).alarm = r.alarm
         /\ Used(r).outcome = r.outcome
<1>1. r.steps + 1 \in Nat /\ "thinking" \in ResolverPlaces /\ {} \in SUBSET DOMAIN Facts
  BY DEF IsResolver, ResolverPlaces
<1> QED BY <1>1 DEF IsResolver, Used

\* The assertion is taken up when no correction of it can have been shown.
LEMMA BegunStep ==
  ASSUME ResolverInv, Begun, resolver.pc = "thinking", UNCHANGED <<graph, now>>
  PROVE  /\ BeforeOK' /\ before'.named = before.named
         /\ (resolver.known \cup resolver.shown) \cap Superseded' = {}
<1>1. /\ before \in [start : SUBSET graph, since : Nat, scan : SUBSET graph,
                     named : SUBSET DOMAIN Entities]
      /\ before.since <= now /\ now \in Nat
  BY DEF ResolverInv, GraphOK, BeforeOK
<1>2. CASE resolver.steps = 0
  <2>1. before' = [before EXCEPT !.start = graph, !.since = now]
    BY <1>2 DEF Begun
  <2>2. /\ before' \in [start : SUBSET graph, since : Nat, scan : SUBSET graph,
                        named : SUBSET DOMAIN Entities]
        /\ before'.since = now /\ before'.named = before.named
    BY <2>1, <1>1
  <2>3. BeforeOK'
    BY <2>2, <1>1 DEF BeforeOK
  <2>4. resolver.known \cup resolver.shown = {}
    BY <1>2 DEF ResolverInv, CorrectionsInv
  <2> QED BY <2>2, <2>3, <2>4
<1>3. CASE resolver.steps # 0
  <2>1. before' = before
    BY <1>3 DEF Begun
  <2>2. BeforeOK'
    BY <2>1, <1>1 DEF BeforeOK
  <2> QED BY <2>1, <2>2 DEF ResolverInv, CorrectionsInv, Superseded
<1> QED BY <1>2, <1>3

\* Between two lists nothing depends on a position.
LEMMA NotReading ==
  ASSUME ResolverInv, UNCHANGED <<graph, now, writing>>,
         scan' = scan \/ scan' = Idle,
         IsResolver(resolver'), resolver'.pc # "reading", BeforeOK',
         CorrectionsInv', NamesInv', NoFalseAlarm', NamesakesRead'
  PROVE  ResolverInv'
<1> USE DEF ResolverInv
<1>1. GraphOK'
  BY IdleIsAScan DEF GraphOK
<1>2. ResolverOK'
  BY DEF ResolverOK
<1>3. ClosedInv'
  BY DEF ClosedInv, Closed, References, Refers
<1>4. ScanInv'
  BY DEF ScanInv, ListsInv, NodesInv, EdgesInv, PageInv, Reading
<1> QED BY <1>1, <1>2, <1>3, <1>4

\* The model asks for a tool.
LEMMA CallToolStep ==
  ASSUME ResolverInv, CallTool
  PROVE  ResolverInv'
<1> USE DEF ResolverInv
<1>1. /\ resolver.pc = "thinking" /\ Begun /\ UNCHANGED <<graph, now, writing, scan>>
      /\ \E todo : resolver' = [resolver EXCEPT !.pc = "calling", !.todo = todo]
  BY DEF CallTool, Thinking, graphVars
<1>2. PICK todo : resolver' = [resolver EXCEPT !.pc = "calling", !.todo = todo]
  BY <1>1
<1>3. /\ IsResolver(resolver') /\ resolver'.pc = "calling"
      /\ resolver'.steps = resolver.steps /\ resolver'.shown = resolver.shown
      /\ resolver'.searched = resolver.searched
      /\ resolver'.incomplete = resolver.incomplete
      /\ resolver'.candidates = resolver.candidates
      /\ resolver'.read = resolver.read /\ resolver'.known = resolver.known
      /\ resolver'.alarm = resolver.alarm /\ resolver'.outcome = resolver.outcome
  BY <1>2 DEF ResolverOK, IsResolver, ResolverPlaces
<1>4. /\ BeforeOK' /\ before'.named = before.named
      /\ (resolver.known \cup resolver.shown) \cap Superseded' = {}
  BY <1>1, BegunStep
<1>5. CorrectionsInv'
  BY <1>3, <1>4 DEF CorrectionsInv
<1>6. NamesInv'
  BY <1>1, <1>3, <1>4 DEF NamesInv, Named
<1>7. NoFalseAlarm'
  BY <1>1, <1>3 DEF NoFalseAlarm
<1>8. NamesakesRead'
  BY <1>3, <1>4 DEF NamesakesRead, Named
<1> QED BY <1>1, <1>3, <1>4, <1>5, <1>6, <1>7, <1>8, NotReading

\* What is left of a call that is refused, or whose entity is not there.
LEMMA UsedUp ==
  ASSUME ResolverInv, resolver.pc # "ended", resolver' = Used(resolver),
         UNCHANGED <<graph, now, writing>>, scan' = scan \/ scan' = Idle,
         BeforeOK', before'.named = before.named,
         resolver.known \cap Superseded' = {}
  PROVE  ResolverInv'
<1> USE DEF ResolverInv
<1> DEFINE u == Used(resolver)
<1>1. /\ IsResolver(u) /\ u.pc = "thinking"
      /\ u.steps = resolver.steps + 1 /\ u.shown = {}
      /\ u.searched = resolver.searched /\ u.incomplete = resolver.incomplete
      /\ u.candidates = resolver.candidates /\ u.read = resolver.read
      /\ u.known = resolver.known /\ u.alarm = resolver.alarm
      /\ u.outcome = resolver.outcome
  BY UsedIsOver DEF ResolverOK
<1>2. resolver.steps \in Nat
  BY DEF ResolverOK, IsResolver
<1> HIDE DEF u
<1>3. resolver' = u
  BY DEF u
<1>4. CorrectionsInv'
  BY <1>1, <1>2, <1>3 DEF CorrectionsInv
<1>5. NamesInv'
  BY <1>1, <1>3 DEF NamesInv, Named
<1>6. NoFalseAlarm'
  BY <1>1, <1>3 DEF NoFalseAlarm
<1>7. NamesakesRead'
  BY <1>1, <1>3 DEF NamesakesRead, Named
<1> QED BY <1>1, <1>3, <1>4, <1>5, <1>6, <1>7, NotReading

\* A call that is refused.
LEMMA RefusedStep ==
  ASSUME ResolverInv, Refused
  PROVE  ResolverInv'
<1>1. /\ resolver.pc = "thinking" /\ Begun /\ UNCHANGED <<graph, now, writing, scan>>
      /\ resolver' = Used(resolver)
  BY DEF Refused, Thinking, graphVars
<1>2. /\ BeforeOK' /\ before'.named = before.named
      /\ (resolver.known \cup resolver.shown) \cap Superseded' = {}
  BY <1>1, BegunStep
<1> QED BY <1>1, <1>2, UsedUp

\* A list is begun with what is there in mind.
LEMMA Listed ==
  ASSUME ResolverInv, UNCHANGED <<graph, now, writing>>,
         resolver' = [resolver EXCEPT !.pc = "reading"],
         BeforeOK', before'.start = before.start, before'.since = before.since,
         before'.named = before.named,
         NEW lists \in {<<"nodes">>, <<"nodes", "edges">>},
         scan' = [Idle EXCEPT !.lists = lists],
         \/ ToDo = "search" /\ lists = <<"nodes">>
         \/ ToDo = "context" /\ lists = <<"nodes", "edges">>,
         resolver.pc = "calling"
  PROVE  ResolverInv'
<1> USE DEF ResolverInv
<1>1. /\ scan' \in Scans /\ scan'.lists = lists /\ scan'.skip = 0 /\ scan'.nodes = {}
      /\ scan'.edges = {}
  BY DEF Idle, Scans, ListsLeft
<1>2. /\ IsResolver(resolver')
      /\ resolver'.pc = "reading" /\ resolver'.todo = resolver.todo
      /\ resolver'.steps = resolver.steps /\ resolver'.shown = resolver.shown
      /\ resolver'.searched = resolver.searched
      /\ resolver'.incomplete = resolver.incomplete
      /\ resolver'.candidates = resolver.candidates
      /\ resolver'.read = resolver.read /\ resolver'.known = resolver.known
      /\ resolver'.alarm = resolver.alarm /\ resolver'.outcome = resolver.outcome
  BY DEF ResolverOK, IsResolver, ResolverPlaces
<1>3. GraphOK'
  BY <1>1 DEF GraphOK
<1>4. ResolverOK'
  BY <1>2 DEF ResolverOK
<1>5. ClosedInv'
  BY DEF ClosedInv, Closed, References, Refers
<1>6. ListsNodes'
  BY <1>1 DEF ListsNodes
<1>7. ListsInv'
  BY <1>1, <1>2 DEF ListsInv, ToDo
<1>8. NodesInv'
  <2>1. ASSUME NEW r \in before'.start \cup before'.scan
        PROVE  Ahead(graph, r)'
    <3>1. r \in graph /\ graph \in SUBSET Nat /\ IsFiniteSet(graph)
      BY DEF BeforeOK, GraphOK
    <3>2. Place(graph, r) \in Nat /\ 1 <= Place(graph, r)
      BY <3>1, PlaceInList
    <3> QED BY <3>2, <1>1 DEF Ahead, Place
  <2> QED BY <2>1, <1>6 DEF NodesInv
<1>9. EdgesInv'
  BY <1>6 DEF EdgesInv
<1>10. PageInv'
  BY <1>1, <1>6 DEF PageInv
<1>11. CorrectionsInv'
  BY <1>2 DEF CorrectionsInv, Superseded
<1>12. NamesInv'
  BY <1>2 DEF NamesInv, Named
<1>13. NoFalseAlarm'
  BY <1>2 DEF NoFalseAlarm
<1>14. NamesakesRead'
  BY <1>2 DEF NamesakesRead, Named
<1> QED BY <1>3, <1>4, <1>5, <1>7, <1>8, <1>9, <1>10, <1>11, <1>12, <1>13, <1>14
       DEF ScanInv

\* A search begins to list the nodes.
LEMMA BeginSearchStep ==
  ASSUME ResolverInv, BeginSearch
  PROVE  ResolverInv'
<1>1. /\ resolver.pc = "calling" /\ ToDo = "search" /\ UNCHANGED <<graph, now, writing>>
      /\ scan' = [Idle EXCEPT !.lists = <<"nodes">>]
      /\ resolver' = [resolver EXCEPT !.pc = "reading"]
      /\ before' = [before EXCEPT !.scan = graph]
  BY DEF BeginSearch, Calling, ToDo
<1>2. /\ before \in [start : SUBSET graph, since : Nat, scan : SUBSET graph,
                     named : SUBSET DOMAIN Entities]
      /\ before.since <= now
  BY DEF ResolverInv, BeforeOK
<1>3. /\ before' \in [start : SUBSET graph, since : Nat, scan : SUBSET graph,
                      named : SUBSET DOMAIN Entities]
      /\ before'.start = before.start /\ before'.since = before.since
      /\ before'.named = before.named
  BY <1>1, <1>2
<1>4. BeforeOK'
  BY <1>1, <1>2, <1>3 DEF BeforeOK
<1> QED BY <1>1, <1>3, <1>4, Listed

\* What is known of an entity begins with the nodes as well.
LEMMA BeginContextStep ==
  ASSUME ResolverInv, BeginContext
  PROVE  ResolverInv'
<1>1. /\ resolver.pc = "calling" /\ ToDo = "context"
      /\ UNCHANGED <<graph, now, writing, before>>
  BY DEF BeginContext, Calling, ToDo
<1>2. BeforeOK'
  BY <1>1 DEF ResolverInv, BeforeOK
<1>3. CASE Of \in graph
  <2>1. /\ scan' = [Idle EXCEPT !.lists = <<"nodes", "edges">>]
        /\ resolver' = [resolver EXCEPT !.pc = "reading"]
    BY <1>3 DEF BeginContext, ContextLists
  <2> QED BY <1>1, <1>2, <2>1, Listed
<1>4. CASE Of \notin graph
  <2>1. scan' = scan /\ resolver' = Used(resolver)
    BY <1>4 DEF BeginContext
  <2>2. resolver.known \cap Superseded' = {}
    BY <1>1 DEF ResolverInv, CorrectionsInv, Superseded
  <2> QED BY <1>1, <1>2, <2>1, <2>2, UsedUp
<1> QED BY <1>3, <1>4

\* A search that ends has listed what there was when it began; if nothing was cut off,
\* every namesake that was there is a candidate now.
LEMMA EndSearchStep ==
  ASSUME ResolverInv, EndSearch
  PROVE  ResolverInv'
<1> USE DEF ResolverInv
<1> DEFINE name == Of
           found == Shown(name) \cap DOMAIN Entities
           there == Named(before.scan, name)
<1>1. /\ resolver.pc = "reading" /\ scan.lists = <<>> /\ scan' = Idle
      /\ UNCHANGED <<graph, now, writing>>
      /\ before' = [before EXCEPT !.named = @ \cup there]
  BY DEF EndSearch, Read
<1>2. PICK todo :
        resolver' = [resolver EXCEPT !.pc = "calling",
                       !.searched = @ \cup {name}, !.incomplete = @ \cup CutOff(name),
                       !.candidates = @ \cup found, !.todo = todo]
  BY DEF EndSearch
<1>3. found \in SUBSET DOMAIN Entities /\ there \in SUBSET DOMAIN Entities
  BY DEF Named
<1>4. there \subseteq found \/ CutOff(name) = {name}
  <2>1. before.scan \subseteq scan.nodes
    BY <1>1, ListsDiffer DEF ScanInv, NodesInv, Reading, ListsNodes
  <2>2. there \subseteq Matches
    BY <2>1 DEF Named, Matches
  <2> QED BY <1>3, <2>2 DEF CutOff
<1>5. \A e \in there : Entities[e].name = name
  BY DEF Named
<1> HIDE DEF found, there, name
<1>6. /\ IsResolver(resolver') /\ resolver'.pc = "calling"
      /\ resolver'.steps = resolver.steps /\ resolver'.shown = resolver.shown
      /\ resolver'.searched = resolver.searched \cup {name}
      /\ resolver'.incomplete = resolver.incomplete \cup CutOff(name)
      /\ resolver'.candidates = resolver.candidates \cup found
      /\ resolver'.read = resolver.read /\ resolver'.known = resolver.known
      /\ resolver'.alarm = resolver.alarm /\ resolver'.outcome = resolver.outcome
  BY <1>2, <1>3 DEF ResolverOK, IsResolver, ResolverPlaces
<1>7. /\ BeforeOK' /\ before'.named = before.named \cup there
      /\ before'.start = before.start /\ before'.since = before.since
  <2>1. /\ before \in [start : SUBSET graph, since : Nat, scan : SUBSET graph,
                       named : SUBSET DOMAIN Entities]
        /\ before.since <= now
    BY DEF BeforeOK
  <2>2. /\ before' \in [start : SUBSET graph, since : Nat, scan : SUBSET graph,
                        named : SUBSET DOMAIN Entities]
        /\ before'.named = before.named \cup there
        /\ before'.start = before.start /\ before'.since = before.since
    BY <1>1, <1>3, <2>1
  <2> QED BY <1>1, <2>1, <2>2 DEF BeforeOK
<1>8. CorrectionsInv'
  BY <1>1, <1>6, <1>7 DEF CorrectionsInv, Superseded
<1>9. NamesInv'
  <2>1. ASSUME NEW e \in before'.named PROVE Entities[e].name \in resolver'.searched
    BY <1>5, <1>6, <1>7 DEF NamesInv
  <2>2. ASSUME NEW n \in resolver'.searched \ resolver'.incomplete,
               NEW e \in Named(before.named \cup there, n)
        PROVE  e \in resolver'.candidates
    <3>1. Entities[e].name = n /\ e \in DOMAIN Entities
      BY DEF Named
    <3>2. CASE e \in before.named
      <4>1. n \in resolver.searched \ resolver.incomplete
        BY <1>6, <3>1, <3>2 DEF NamesInv
      <4>2. e \in Named(before.named, n)
        BY <3>1, <3>2 DEF Named
      <4> QED BY <1>6, <4>1, <4>2 DEF NamesInv
    <3>3. CASE e \in there
      <4>1. n = name
        BY <1>5, <3>1, <3>3
      <4>2. there \subseteq found
        BY <1>4, <1>6, <4>1
      <4> QED BY <1>6, <3>3, <4>2
    <3> QED BY <3>2, <3>3 DEF Named
  <2>3. resolver'.outcome = <<"none">>
    BY <1>1, <1>6 DEF NamesInv
  <2>4. \A n \in resolver'.searched \ resolver'.incomplete :
          Named(before'.named, n) \subseteq resolver'.candidates
    BY <1>7, <2>2
  <2> QED BY <2>1, <2>3, <2>4 DEF NamesInv, Named
<1>10. NoFalseAlarm'
  BY <1>1, <1>6 DEF NoFalseAlarm
<1>11. NamesakesRead'
  <2>1. resolver'.outcome = <<"none">> /\ <<"none">>[1] # "new"
    BY <1>1, <1>6 DEF NamesInv
  <2> QED BY <2>1 DEF NamesakesRead
<1> QED BY <1>1, <1>6, <1>7, <1>8, <1>9, <1>10, <1>11, NotReading

\* What a context says of an entity was listed, with its edges; what had been corrected
\* before is not among it, and in a graph of one page nothing is missing.
LEMMA ContextIsTrue ==
  ASSUME ResolverInv, Reading, ToDo = "context", scan.lists = <<>>,
         NEW e
  PROVE  /\ About(e) \in SUBSET DOMAIN Facts
         /\ About(e) \cap Superseded = {}
         /\ Alarm(e) \in {"none", "missing_related"}
         /\ Alarm(e) = "missing_related" => Cardinality(graph) > PageSize
<1> USE DEF ResolverInv
<1>1. /\ ~ListsNodes /\ before.start \subseteq scan.nodes
      /\ scan.nodes \cap DOMAIN Facts \subseteq scan.edges
  BY ListsDiffer DEF ScanInv, NodesInv, EdgesInv, ListsNodes
<1>2. About(e) \subseteq Current(scan.nodes, now)
  BY DEF About, Outgoing, Incoming
<1>3. Current(scan.nodes, now) \subseteq scan.nodes \cap DOMAIN Facts
  BY DEF Current
<1>4. Current(scan.nodes, now) \cap Superseded = {}
  <2>1. ASSUME NEW g \in before.start \cap DOMAIN Facts, Facts[g].from <= before.since
        PROVE  Facts[g].prior \notin Current(scan.nodes, now)
    <3>1. Facts[g].from \in Nat /\ before.since \in Nat /\ now \in Nat
      BY GraphAssumption DEF GraphAssumption, BeforeOK, GraphOK
    <3>2. before.since <= now
      BY DEF BeforeOK
    <3>3. Facts[g].from <= now /\ g \in scan.nodes \cap DOMAIN Facts
      BY <1>1, <2>1, <3>1, <3>2
    <3> QED BY <3>3 DEF Current
  <2> QED BY <2>1 DEF Superseded
<1>5. About(e) \subseteq scan.edges
  BY <1>1, <1>2, <1>3
<1>6. Alarm(e) = IF RelatedTo(e) \subseteq scan.nodes THEN "none"
                   ELSE "missing_related"
  BY <1>5 DEF Alarm
<1>7. ASSUME ~(Cardinality(graph) > PageSize)
      PROVE  RelatedTo(e) \subseteq scan.nodes
  <2>1. Cardinality(graph) <= PageSize
    <3>1. Cardinality(graph) \in Nat /\ PageSize \in Nat
      BY PartIsSmaller, GraphAssumption DEF GraphOK, GraphAssumption
    <3> QED BY <3>1, <1>7
  <2>2. Closed(scan.nodes)
    BY <1>1, <2>1 DEF ScanInv, PageInv
  <2>3. ASSUME NEW f \in About(e)
        PROVE  {Facts[f].subject, Facts[f].object} \ {None} \subseteq scan.nodes
    BY <1>2, <1>3, <2>2 DEF Closed, References
  <2> QED BY <2>3 DEF RelatedTo
<1> QED BY <1>2, <1>3, <1>4, <1>6, <1>7

\* A context is read.
LEMMA EndContextStep ==
  ASSUME ResolverInv, EndContext
  PROVE  ResolverInv'
<1> USE DEF ResolverInv
<1> DEFINE about == About(Of)
           alarm == Alarm(Of)
<1>1. /\ resolver.pc = "reading" /\ ToDo = "context" /\ scan.lists = <<>>
      /\ scan' = Idle /\ UNCHANGED <<graph, now, writing, before>>
  BY DEF EndContext, Read, ToDo
<1>2. /\ about \in SUBSET DOMAIN Facts /\ about \cap Superseded = {}
      /\ alarm \in {"none", "missing_related"}
      /\ alarm = "missing_related" => Cardinality(graph) > PageSize
  BY <1>1, ContextIsTrue DEF Reading
<1>3. BeforeOK'
  BY <1>1 DEF BeforeOK
<1>4. /\ alarm = "none" =>
           \E todo, contexts :
             resolver' = [resolver EXCEPT !.pc = "calling", !.todo = todo,
                            !.contexts = contexts, !.shown = @ \cup about]
      /\ alarm # "none" =>
           resolver' = [resolver EXCEPT !.pc = "failed", !.alarm = alarm]
  BY DEF EndContext
<1> HIDE DEF about, alarm
<1>5. /\ IsResolver(resolver') /\ resolver'.pc \in {"calling", "failed"}
      /\ resolver'.steps = resolver.steps
      /\ resolver'.shown \in {resolver.shown, resolver.shown \cup about}
      /\ resolver'.searched = resolver.searched
      /\ resolver'.incomplete = resolver.incomplete
      /\ resolver'.candidates = resolver.candidates
      /\ resolver'.read = resolver.read /\ resolver'.known = resolver.known
      /\ resolver'.alarm \in {resolver.alarm, alarm}
      /\ resolver'.outcome = resolver.outcome
  <2>1. CASE alarm = "none"
    <3>1. PICK todo, contexts :
            resolver' = [resolver EXCEPT !.pc = "calling", !.todo = todo,
                           !.contexts = contexts, !.shown = @ \cup about]
      BY <1>4, <2>1
    <3> QED BY <3>1, <1>2 DEF ResolverOK, IsResolver, ResolverPlaces
  <2>2. CASE alarm # "none"
    <3>1. resolver' = [resolver EXCEPT !.pc = "failed", !.alarm = alarm]
      BY <1>4, <2>2
    <3> QED BY <3>1, <1>2 DEF ResolverOK, IsResolver, ResolverPlaces, Alarms
  <2> QED BY <2>1, <2>2
<1>6. CorrectionsInv'
  BY <1>1, <1>2, <1>5 DEF CorrectionsInv, Superseded
<1>7. NamesInv'
  BY <1>1, <1>5 DEF NamesInv, Named
<1>8. NoFalseAlarm'
  BY <1>1, <1>2, <1>5 DEF NoFalseAlarm
<1>9. NamesakesRead'
  BY <1>1, <1>5 DEF NamesakesRead, Named
<1> QED BY <1>1, <1>3, <1>5, <1>6, <1>7, <1>8, <1>9, NotReading

\* What was read reaches the model.
LEMMA DeliverStep ==
  ASSUME ResolverInv, Deliver
  PROVE  ResolverInv'
<1> USE DEF ResolverInv
<1> DEFINE u == Used(resolver)
<1>1. /\ resolver.pc = "calling" /\ UNCHANGED <<graph, now, writing, scan, before>>
      /\ resolver' = [u EXCEPT !.read = @ \cup resolver.contexts,
                               !.known = @ \cup resolver.shown]
  BY DEF Deliver, graphVars
<1>2. /\ IsResolver(u) /\ u.pc = "thinking"
      /\ u.steps = resolver.steps + 1 /\ u.shown = {}
      /\ u.searched = resolver.searched /\ u.incomplete = resolver.incomplete
      /\ u.candidates = resolver.candidates /\ u.read = resolver.read
      /\ u.known = resolver.known /\ u.alarm = resolver.alarm
      /\ u.outcome = resolver.outcome
  BY UsedIsOver DEF ResolverOK
<1> HIDE DEF u
<1>3. resolver.steps \in Nat /\ resolver.shown \in SUBSET DOMAIN Facts
  BY DEF ResolverOK, IsResolver
<1>4. /\ IsResolver(resolver') /\ resolver'.pc = "thinking"
      /\ resolver'.steps = resolver.steps + 1 /\ resolver'.shown = {}
      /\ resolver'.searched = resolver.searched
      /\ resolver'.incomplete = resolver.incomplete
      /\ resolver'.candidates = resolver.candidates
      /\ resolver'.read = resolver.read \cup resolver.contexts
      /\ resolver'.known = resolver.known \cup resolver.shown
      /\ resolver'.alarm = resolver.alarm /\ resolver'.outcome = resolver.outcome
  BY <1>1, <1>2, <1>3 DEF IsResolver
<1>5. BeforeOK'
  BY <1>1 DEF BeforeOK
<1>6. CorrectionsInv'
  BY <1>1, <1>3, <1>4 DEF CorrectionsInv, Superseded
<1>7. NamesInv'
  BY <1>1, <1>4 DEF NamesInv, Named
<1>8. NoFalseAlarm'
  BY <1>1, <1>4 DEF NoFalseAlarm
<1>9. NamesakesRead'
  <2>1. resolver'.outcome = <<"none">> /\ <<"none">>[1] # "new"
    BY <1>1, <1>4 DEF NamesInv
  <2> QED BY <2>1 DEF NamesakesRead
<1> QED BY <1>1, <1>4, <1>5, <1>6, <1>7, <1>8, <1>9, NotReading

\* An attempt fails.
LEMMA FailStep ==
  ASSUME ResolverInv, Fail \/ OverBudget
  PROVE  ResolverInv'
<1> USE DEF ResolverInv
<1>1. /\ resolver.pc # "ended" /\ UNCHANGED <<graph, now, writing, scan, before>>
      /\ resolver' = [resolver EXCEPT !.pc = "failed"]
  BY DEF Fail, OverBudget, graphVars
<1>2. /\ IsResolver(resolver') /\ resolver'.pc = "failed"
      /\ resolver'.steps = resolver.steps /\ resolver'.shown = resolver.shown
      /\ resolver'.searched = resolver.searched
      /\ resolver'.incomplete = resolver.incomplete
      /\ resolver'.candidates = resolver.candidates
      /\ resolver'.read = resolver.read /\ resolver'.known = resolver.known
      /\ resolver'.alarm = resolver.alarm /\ resolver'.outcome = resolver.outcome
  BY <1>1 DEF ResolverOK, IsResolver, ResolverPlaces
<1>3. BeforeOK'
  BY <1>1 DEF BeforeOK
<1>4. CorrectionsInv'
  BY <1>1, <1>2 DEF CorrectionsInv, Superseded
<1>5. NamesInv'
  BY <1>1, <1>2 DEF NamesInv, Named
<1>6. NoFalseAlarm'
  BY <1>1, <1>2 DEF NoFalseAlarm
<1>7. NamesakesRead'
  BY <1>1, <1>2 DEF NamesakesRead, Named
<1> QED BY <1>1, <1>2, <1>3, <1>4, <1>5, <1>6, <1>7, NotReading

\* An attempt ends with a proposal; a new entity is not one whose namesakes are unread.
LEMMA EndsStep ==
  ASSUME ResolverInv, NEW outcome, Ends(outcome),
         outcome[1] = "new" =>
           {e \in Named(before.named, outcome[2]) : Entities[e].family = outcome[3]}
             \subseteq resolver.read
  PROVE  ResolverInv'
<1> USE DEF ResolverInv
<1>1. /\ resolver.pc = "thinking" /\ UNCHANGED <<graph, now, writing, scan, before>>
      /\ resolver' = [resolver EXCEPT !.pc = "ended", !.outcome = outcome]
  BY DEF Ends, Thinking, graphVars
<1>2. /\ IsResolver(resolver') /\ resolver'.pc = "ended"
      /\ resolver'.steps = resolver.steps /\ resolver'.shown = resolver.shown
      /\ resolver'.searched = resolver.searched
      /\ resolver'.incomplete = resolver.incomplete
      /\ resolver'.candidates = resolver.candidates
      /\ resolver'.read = resolver.read /\ resolver'.known = resolver.known
      /\ resolver'.alarm = resolver.alarm /\ resolver'.outcome = outcome
  BY <1>1 DEF ResolverOK, IsResolver, ResolverPlaces
<1>3. BeforeOK'
  BY <1>1 DEF BeforeOK
<1>4. CorrectionsInv'
  BY <1>1, <1>2 DEF CorrectionsInv, Superseded
<1>5. NamesInv'
  BY <1>1, <1>2 DEF NamesInv, Named
<1>6. NoFalseAlarm'
  BY <1>1, <1>2 DEF NoFalseAlarm
<1>7. NamesakesRead'
  BY <1>1, <1>2 DEF NamesakesRead, Named
<1> QED BY <1>1, <1>2, <1>3, <1>4, <1>5, <1>6, <1>7, NotReading

\* A new entity: the search for its name was complete, so that its namesakes are
\* candidates, and those of its family have been read.
LEMMA ProposeNewStep ==
  ASSUME ResolverInv, ProposeNew
  PROVE  ResolverInv'
<1>1. PICK n \in resolver.searched \ resolver.incomplete,
           family \in {Entities[e].family : e \in DOMAIN Entities} :
        /\ {e \in Named(resolver.candidates, n) : Entities[e].family = family}
             \subseteq resolver.read
        /\ Ends(<<"new", n, family>>)
  BY DEF ProposeNew
<1> DEFINE outcome == <<"new", n, family>>
<1>2. outcome[1] = "new" /\ outcome[2] = n /\ outcome[3] = family
  OBVIOUS
<1>3. Named(before.named, n) \subseteq Named(resolver.candidates, n)
  BY DEF ResolverInv, NamesInv, Named
<1>4. {e \in Named(before.named, n) : Entities[e].family = family}
        \subseteq resolver.read
  BY <1>1, <1>3
<1>5. Ends(outcome)
  BY <1>1
<1> HIDE DEF outcome
<1> QED BY <1>2, <1>4, <1>5, EndsStep

\* Every other proposal.
LEMMA ProposeOtherStep ==
  ASSUME ResolverInv, ProposeExisting \/ AlreadyKnown \/ NeedsClarification
  PROVE  ResolverInv'
<1>1. \E outcome : Ends(outcome) /\ outcome[1] \in {"existing", "known", "question"}
  <2>1. CASE ProposeExisting
    <3>1. PICK e, prior : Ends(<<"existing", e, prior>>)
      BY <2>1 DEF ProposeExisting
    <3>2. <<"existing", e, prior>>[1] = "existing"
      OBVIOUS
    <3> QED BY <3>1, <3>2
  <2>2. CASE AlreadyKnown
    <3>1. PICK f : Ends(<<"known", f>>)
      BY <2>2 DEF AlreadyKnown
    <3>2. <<"known", f>>[1] = "known"
      OBVIOUS
    <3> QED BY <3>1, <3>2
  <2>3. CASE NeedsClarification
    <3>1. Ends(<<"question">>)
      BY <2>3 DEF NeedsClarification
    <3>2. <<"question">>[1] = "question"
      OBVIOUS
    <3> QED BY <3>1, <3>2
  <2> QED BY <2>1, <2>2, <2>3
<1>2. PICK outcome : Ends(outcome) /\ outcome[1] \in {"existing", "known", "question"}
  BY <1>1
<1>3. outcome[1] # "new"
  BY <1>2
<1> QED BY <1>2, <1>3, EndsStep

-----------------------------------------------------------------------------
(* What holds of the resolver always. *)

\* An empty graph, and an assertion that has not been taken up.
LEMMA ResolverInitially ==
  ASSUME ResolverInit
  PROVE  ResolverInv
<1>1. /\ graph = {} /\ now = 0 /\ scan = Idle
      /\ writing = [b \in Bundles |-> "no"] /\ resolver = Resolver
      /\ before = [start |-> {}, since |-> 0, scan |-> {}, named |-> {}]
  BY DEF ResolverInit, GraphInit
<1>2. GraphOK
  <2>1. IsFiniteSet({})
    BY FS_EmptySet
  <2> QED BY <1>1, <2>1, IdleIsAScan DEF GraphOK, Writings
<1>3. /\ IsResolver(resolver) /\ resolver.pc = "thinking" /\ resolver.shown = {}
      /\ resolver.known = {} /\ resolver.searched = {} /\ resolver.alarm = "none"
      /\ resolver.outcome = <<"none">>
  BY <1>1 DEF Resolver, IsResolver, ResolverPlaces, Alarms
<1>4. ResolverOK /\ BeforeOK
  BY <1>1, <1>3 DEF ResolverOK, BeforeOK
<1>5. ClosedInv
  BY <1>1 DEF ClosedInv, Closed
<1>6. ScanInv
  BY <1>3 DEF ScanInv, ListsInv, NodesInv, EdgesInv, PageInv, Reading
<1>7. CorrectionsInv /\ NamesInv
  BY <1>1, <1>3 DEF CorrectionsInv, NamesInv
<1>8. NoFalseAlarm
  BY <1>3 DEF NoFalseAlarm
<1>9. NamesakesRead
  <2>1. <<"none">>[1] # "new"
    OBVIOUS
  <2> QED BY <1>3, <2>1 DEF NamesakesRead
<1> QED BY <1>2, <1>4, <1>5, <1>6, <1>7, <1>8, <1>9 DEF ResolverInv

\* Whatever the writers, the reader and the model do next.
LEMMA ResolverInductive ==
  ASSUME ResolverInv, [ResolverNext]_resolverVars
  PROVE  ResolverInv'
<1>1. CASE GraphNext /\ UNCHANGED <<resolver, before>>
  <2>1. Stored /\ ClosedInv'
    BY <1>1, WritersStep DEF ResolverInv
  <2> QED BY <1>1, <2>1, StoredStep
<1>2. CASE resolver.pc = "reading" /\ ReadPage /\ UNCHANGED <<resolver, before>>
  BY <1>2, ReadPageStep DEF Reading
<1>3. CASE CallTool
  BY <1>3, CallToolStep
<1>4. CASE BeginSearch
  BY <1>4, BeginSearchStep
<1>5. CASE EndSearch
  BY <1>5, EndSearchStep
<1>6. CASE BeginContext
  BY <1>6, BeginContextStep
<1>7. CASE EndContext
  BY <1>7, EndContextStep
<1>8. CASE Deliver
  BY <1>8, DeliverStep
<1>9. CASE Fail \/ OverBudget
  BY <1>9, FailStep
<1>10. CASE Refused
  BY <1>10, RefusedStep
<1>11. CASE ProposeNew
  BY <1>11, ProposeNewStep
<1>12. CASE ProposeExisting \/ AlreadyKnown \/ NeedsClarification
  BY <1>12, ProposeOtherStep
<1>13. CASE UNCHANGED resolverVars
  <2>1. UNCHANGED <<graph, now, writing, scan, resolver, before>>
    BY <1>13 DEF resolverVars
  <2>2. Stored
    BY <2>1 DEF Stored, ResolverInv, GraphOK
  <2>3. ClosedInv'
    BY <2>1 DEF ResolverInv, ClosedInv, Closed, References, Refers
  <2> QED BY <2>1, <2>2, <2>3, StoredStep
<1> QED BY <1>1, <1>2, <1>3, <1>4, <1>5, <1>6, <1>7, <1>8, <1>9, <1>10, <1>11, <1>12,
           <1>13 DEF ResolverNext

\* Every state of an attempt, of whatever length, beside whatever writers.
THEOREM ResolverInvariant == ResolverSpec => []ResolverInv
  BY ResolverInitially, ResolverInductive, PTL DEF ResolverSpec

\* What a record refers to is stored: it was checked before the transaction and not in
\* it, and nothing that was stored is ever taken away.
THEOREM ReferencesAreStored == ResolverSpec => []Closed(graph)
<1>1. ResolverInv => Closed(graph)
  BY DEF ResolverInv, ClosedInv
<1> QED BY <1>1, ResolverInvariant, PTL

\* A receipt in the graph stands for a bundle all of which is there.
Whole(b) == \E c \in Bundles : /\ c.receipt = b.receipt
                              /\ c.new \cup {c.receipt} \subseteq graph

ReceiptsInv == \A b \in Bundles :
                 /\ b.receipt \in graph => Whole(b)
                 /\ writing[b] = "saved" => b.receipt \in graph

\* Identifiers of receipts are those of no record, so that one appears with its bundle.
LEMMA ReceiptsStep ==
  ASSUME GraphOK, ReceiptsInv, [ResolverNext]_resolverVars
  PROVE  ReceiptsInv'
<1>1. CASE UNCHANGED <<graph, writing>>
  BY <1>1 DEF ReceiptsInv, Whole
<1>2. ASSUME NEW b \in Bundles, CheckBundle(b) \/ Confirm(b)
      PROVE  ReceiptsInv'
  <2>1. UNCHANGED graph
    BY <1>2 DEF CheckBundle, Confirm
  <2>2. PICK w \in Writings : /\ writing' = [writing EXCEPT ![b] = w]
                              /\ w = "saved" => b.receipt \in graph
    BY <1>2 DEF CheckBundle, Confirm, Writings
  <2>3. \A c \in Bundles : writing'[c] = "saved" => c.receipt \in graph
    BY <2>2 DEF GraphOK, ReceiptsInv
  <2> QED BY <2>1, <2>3 DEF ReceiptsInv, Whole
<1>3. ASSUME NEW b \in Bundles, Transact(b)
      PROVE  ReceiptsInv'
  <2>1. PICK w \in {"saved", "unsure"} :
          /\ writing' = [writing EXCEPT ![b] = w]
          /\ \/ graph' = graph \cup b.new \cup {b.receipt}
             \/ graph' = graph /\ w = "unsure"
    BY <1>3 DEF Transact
  <2>2. graph \subseteq graph'
    BY <2>1
  <2>3. ASSUME NEW c \in Bundles, writing'[c] = "saved"
        PROVE  c.receipt \in graph'
    BY <2>1, <2>3 DEF GraphOK, ReceiptsInv
  <2>4. ASSUME NEW c \in Bundles, c.receipt \in graph'
        PROVE  Whole(c)'
    <3>1. CASE c.receipt \in graph
      BY <2>2, <3>1 DEF ReceiptsInv, Whole
    <3>2. CASE c.receipt \notin graph
      <4>1. c.receipt \notin b.new
        BY GraphAssumption DEF GraphAssumption
      <4>2. c.receipt = b.receipt /\ b.new \cup {b.receipt} \subseteq graph'
        BY <2>1, <2>4, <3>2, <4>1
      <4> QED BY <4>2 DEF Whole
    <3> QED BY <3>1, <3>2
  <2> QED BY <2>3, <2>4 DEF ReceiptsInv
<1>4. \/ GraphNext
      \/ UNCHANGED <<graph, writing>>
  BY DEF ResolverNext, resolverVars, graphVars, ReadPage, CallTool, BeginSearch,
         EndSearch, BeginContext, EndContext, Read, Deliver, Fail, Refused,
         OverBudget, ProposeNew, ProposeExisting, AlreadyKnown,
         NeedsClarification, Ends
<1>5. CASE GraphNext
  BY <1>1, <1>2, <1>3, <1>5 DEF GraphNext, Tick
<1> QED BY <1>1, <1>4, <1>5

\* What a writer is told is saved is in the graph as a whole, although the answer of its
\* transaction may have been lost and the request repeated.
THEOREM SavedIsWhole ==
  ResolverSpec => [](\A b \in Bundles : writing[b] = "saved" => Whole(b))
<1>1. ResolverInit => ReceiptsInv
  BY DEF ResolverInit, GraphInit, ReceiptsInv
<1>2. ResolverInv => GraphOK
  BY DEF ResolverInv
<1>3. ReceiptsInv => \A b \in Bundles : writing[b] = "saved" => Whole(b)
  BY DEF ReceiptsInv
<1> QED BY <1>1, <1>2, <1>3, ReceiptsStep, ResolverInvariant, PTL DEF ResolverSpec

\* A record that was in the graph when a list was begun has been listed when the list
\* ends, although it was read page by page, without a snapshot, while others wrote.
THEOREM ReadsWhatWasThere ==
  ResolverSpec => [](Reading /\ scan.lists = <<>> =>
                        before.start \cup before.scan \subseteq scan.nodes)
<1>1. ASSUME ResolverInv
      PROVE  Reading /\ scan.lists = <<>> =>
               before.start \cup before.scan \subseteq scan.nodes
  BY <1>1, ListsDiffer DEF ResolverInv, ScanInv, NodesInv, ListsNodes
<1> QED BY <1>1, ResolverInvariant, PTL

\* No namesake that was there is unread when a new entity is proposed, for any number
\* of namesakes, pages and names, any limit of the matches and of the steps.
THEOREM NamesakesReadAlways == ResolverSpec => []NamesakesRead
<1>1. ResolverInv => NamesakesRead
  BY DEF ResolverInv
<1> QED BY <1>1, ResolverInvariant, PTL

\* A correction applies to whatever the model is shown from then on.
THEOREM CorrectionsApplyAlways == ResolverSpec => []CorrectionsApply
<1>1. ResolverInv => CorrectionsApply
  BY DEF ResolverInv, CorrectionsInv, Superseded, CorrectionsApply
<1> QED BY <1>1, ResolverInvariant, PTL

\* No edge is ever missing, and no entity from a graph of one page.
THEOREM NoFalseAlarmEver == ResolverSpec => []NoFalseAlarm
<1>1. ResolverInv => NoFalseAlarm
  BY DEF ResolverInv
<1> QED BY <1>1, ResolverInvariant, PTL
=============================================================================
