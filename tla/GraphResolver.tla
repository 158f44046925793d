---------------------------- MODULE GraphResolver ---------------------------
(***************************************************************************)
(* GraphResolver.prepare: a model resolves one assertion with tools that   *)
(* search and read the graph, while others write to it.  The code decides  *)
(* what the model may propose from what it has been shown.  The assertion  *)
(* is about one entity; which one is for the model to say.                 *)
(***************************************************************************)
EXTENDS GraphMemory

CONSTANTS
    Names,          \* names the model may search for
    MatchLimit,     \* matches of a search that are returned (10)
    ContextLimit,   \* candidates of a search whose facts come with it (3)
    MaxSteps        \* calls of tools the model may make (10)

VARIABLES
    resolver,       \* what prepare has in memory
    before          \* not in the code: what was in the graph before its reads

resolverVars == <<graph, now, writing, scan, resolver, before>>

Resolver == [pc |-> "thinking", steps |-> 0, todo |-> <<>>, contexts |-> {},
             shown |-> {}, searched |-> {}, incomplete |-> {}, candidates |-> {},
             read |-> {}, known |-> {}, alarm |-> "none", outcome |-> <<"none">>]

ResolverInit ==
    /\ GraphInit
    /\ resolver = Resolver
    /\ before = [start |-> {}, since |-> 0, scan |-> {}, named |-> {}]

-----------------------------------------------------------------------------
(* Calls of the tools that read. *)

Thinking == resolver.pc = "thinking" /\ resolver.steps < MaxSteps

Task(op, of) == [op |-> op, of |-> of]

\* The first call takes the assertion up.
Begun == before' = IF resolver.steps = 0
                   THEN [before EXCEPT !.start = graph, !.since = now] ELSE before

\* memory_search, for one or two names (up to three), and memory_get.
CallTool ==
    /\ Thinking
    /\ \E todo \in {<<Task("search", n)>> : n \in Names}
                   \cup {<<Task("search", p[1]), Task("search", p[2])>> :
                           p \in {q \in Names \X Names : q[1] # q[2]}}
                   \cup {<<Task("context", e)>> : e \in DOMAIN Entities} :
         resolver' = [resolver EXCEPT !.pc = "calling", !.todo = todo]
    /\ Begun
    /\ UNCHANGED graphVars

Calling(op) ==
    /\ resolver.pc = "calling"
    /\ resolver.todo # <<>>
    /\ Head(resolver.todo).op = op

Of == Head(resolver.todo).of

\* The call is over, and the model is told.
Used(r) == [r EXCEPT !.pc = "thinking", !.steps = @ + 1, !.todo = <<>>,
                     !.contexts = {}, !.shown = {}]

BeginSearch ==
    /\ Calling("search")
    /\ scan = Idle
    /\ scan' = [Idle EXCEPT !.lists = <<"nodes">>]
    /\ resolver' = [resolver EXCEPT !.pc = "reading"]
    /\ before' = [before EXCEPT !.scan = graph]
    /\ UNCHANGED <<graph, now, writing>>

\* An entity that is not there is an error the model is told of.
BeginContext ==
    /\ Calling("context")
    /\ scan = Idle
    /\ IF Of \in graph
       THEN /\ scan' = [Idle EXCEPT !.lists = ContextLists]
            /\ resolver' = [resolver EXCEPT !.pc = "reading"]
       ELSE /\ UNCHANGED scan
            /\ resolver' = Used(resolver)
    /\ UNCHANGED <<graph, now, writing, before>>

Read(op) ==
    /\ resolver.pc = "reading"
    /\ Head(resolver.todo).op = op
    /\ scan.lists = <<>>
    /\ scan' = Idle
    /\ UNCHANGED <<graph, now, writing>>

-----------------------------------------------------------------------------
(* What the reads return. *)

Named(nodes, n) == {e \in nodes \cap DOMAIN Entities : Entities[e].name = n}

\* The first k of some records, in the order of their identifiers.
FirstOf(k, records) == {r \in records : Place(records, r) <= k}

\* A search also finds other names that sound alike, and the facts of what it finds;
\* entities of just this name come first.
Matches == (scan.nodes \cap DOMAIN Entities) \cup Current(scan.nodes, now)

Shown(n) ==
    LET exact == Named(scan.nodes, n)
    IN  FirstOf(MatchLimit, exact)
          \cup FirstOf(MatchLimit - Cardinality(FirstOf(MatchLimit, exact)), Matches \ exact)

\* A name with entities among the matches that were cut off.
CutOff(n) == IF (Matches \ Shown(n)) \cap DOMAIN Entities = {} THEN {} ELSE {n}

SetAsSeq(S) == [i \in 1 .. Cardinality(S) |-> CHOOSE x \in S : Place(S, x) = i]

\* The candidates are remembered and the first of them are read, once per call.
EndSearch ==
    /\ Read("search")
    /\ LET found == Shown(Of) \cap DOMAIN Entities
           reads == FirstOf(ContextLimit, found) \ resolver.contexts
       IN  resolver' = [resolver EXCEPT !.pc = "calling",
                          !.searched = @ \cup {Of}, !.incomplete = @ \cup CutOff(Of),
                          !.candidates = @ \cup found,
                          !.todo = [i \in 1 .. Cardinality(reads) |->
                                      Task("context", SetAsSeq(reads)[i])] \o Tail(@)]
    /\ before' = [before EXCEPT !.named = @ \cup Named(before.scan, Of)]

\* context: broken links are an error that ends the attempt.
EndContext ==
    /\ Read("context")
    /\ resolver' = IF Alarm(Of) = "none"
                   THEN [resolver EXCEPT !.pc = "calling", !.todo = Tail(@),
                           !.contexts = @ \cup {Of}, !.shown = @ \cup About(Of)]
                   ELSE [resolver EXCEPT !.pc = "failed", !.alarm = Alarm(Of)]
    /\ UNCHANGED before

\* Only contexts that were delivered to the model count as read.
Deliver ==
    /\ resolver.pc = "calling"
    /\ resolver.todo = <<>>
    /\ resolver' = [Used(resolver) EXCEPT !.read = @ \cup resolver.contexts,
                                          !.known = @ \cup resolver.shown]
    /\ UNCHANGED <<graphVars, before>>

\* Too many records, an error of the graph or of the model, or a lost lease.
Fail == /\ resolver.pc \in {"thinking", "calling", "reading"}
        /\ resolver' = [resolver EXCEPT !.pc = "failed"]
        /\ UNCHANGED <<graphVars, before>>

-----------------------------------------------------------------------------
(* What the model may propose. *)

Ends(outcome) ==
    /\ Thinking
    /\ resolver' = [resolver EXCEPT !.pc = "ended", !.outcome = outcome]
    /\ UNCHANGED <<graphVars, before>>

\* Mutant: a namesake that was found need not be read.
ProposeNewUnread ==
    \E n \in resolver.searched \ resolver.incomplete :
        \E family \in {Entities[e].family : e \in DOMAIN Entities} :
            Ends(<<"new", n, family>>)

\* A new entity takes a complete search for its name, and every candidate of that
\* name and family must have been read.
ProposeNew ==
    \E n \in resolver.searched \ resolver.incomplete :
        \E family \in {Entities[e].family : e \in DOMAIN Entities} :
            /\ {e \in Named(resolver.candidates, n) : Entities[e].family = family}
                 \subseteq resolver.read
            /\ Ends(<<"new", n, family>>)

\* A fact of an entity that was read, or a correction of a fact of it that is known.
ProposeExisting ==
    \E e \in resolver.read :
        \E prior \in {None} \cup {f \in resolver.known : Facts[f].subject = e} :
            Ends(<<"existing", e, prior>>)

AlreadyKnown == \E f \in resolver.known : Ends(<<"known", f>>)

\* A question to the caller, if a review finds that the source is ambiguous.
NeedsClarification == Ends(<<"question">>)

\* Arguments that are refused, and proposals a review does not find faithful.
Refused == /\ Thinking
           /\ resolver' = Used(resolver)
           /\ Begun
           /\ UNCHANGED graphVars

OverBudget == /\ resolver.pc = "thinking" /\ resolver.steps = MaxSteps
              /\ resolver' = [resolver EXCEPT !.pc = "failed"]
              /\ UNCHANGED <<graphVars, before>>

ResolverNext ==
    \/ GraphNext /\ UNCHANGED <<resolver, before>>
    \/ resolver.pc = "reading" /\ ReadPage /\ UNCHANGED <<resolver, before>>
    \/ CallTool \/ BeginSearch \/ EndSearch \/ BeginContext \/ EndContext
    \/ Deliver \/ Fail \/ Refused \/ OverBudget
    \/ ProposeNew \/ ProposeExisting \/ AlreadyKnown \/ NeedsClarification

ResolverSpec == ResolverInit /\ [][ResolverNext]_resolverVars

-----------------------------------------------------------------------------
(* Properties. *)

\* No namesake is proposed unread: an entity of the name and family proposed that was
\* in the graph when the name was searched has been shown to the model, although the
\* list was read in pages while others wrote and only some matches were returned.
NamesakesRead ==
    resolver.outcome[1] = "new" =>
        {e \in Named(before.named, resolver.outcome[2]) :
           Entities[e].family = resolver.outcome[3]} \subseteq resolver.read

\* A fact that had been corrected before the assertion was taken up is not taken for a
\* current one, also when the correction has run out since, or will.
CorrectionsApply ==
    resolver.known \cap {Facts[f].prior : f \in
        {g \in before.start \cap DOMAIN Facts : Facts[g].from <= before.since}} = {}

\* Reading without a snapshot raises no false alarm about links, and one about an
\* entity only if the nodes take more than a page.
NoFalseAlarm ==
    /\ resolver.alarm # "missing_link"
    /\ resolver.alarm = "missing_related" => Cardinality(graph) > PageSize
=============================================================================
