----------------------------- MODULE GraphMemory ----------------------------
(***************************************************************************)
(* The graph behind the memory facade and how it is read: records are      *)
(* created in transactions and never changed, a correction is a further    *)
(* fact, and a reader lists nodes and edges page by page, without a        *)
(* snapshot, in the order of identifiers that say nothing of age.          *)
(***************************************************************************)
EXTENDS Integers, Sequences, FiniteSets

CONSTANTS
    Entities,   \* entities by identifier, a number: their name and family
    Facts,      \* facts by identifier: subject, object, the fact they correct, from, until
    Bundles,    \* what is stored in one transaction: [new |-> ids, receipt |-> id]
    None,       \* no object, no corrected fact
    PageSize,   \* records of a page (1000)
    MaxPages,   \* pages read at most (10)
    MaxNow      \* bound: the time at which the model's clock stops

ASSUME GraphAssumption ==
    /\ DOMAIN Entities \subseteq Nat /\ DOMAIN Facts \subseteq Nat
    /\ DOMAIN Entities \cap DOMAIN Facts = {}
    /\ \A f \in DOMAIN Facts : Facts[f].from \in Nat
    /\ \A b \in Bundles :
         /\ IsFiniteSet(b.new) /\ b.new \subseteq DOMAIN Entities \cup DOMAIN Facts
         /\ b.receipt \in Nat \ (DOMAIN Entities \cup DOMAIN Facts)
    /\ PageSize \in Nat \ {0} /\ MaxPages \in Nat \ {0} /\ MaxNow \in Nat

VARIABLES
    graph,      \* identifiers of the records that are committed
    now,        \* the clock
    writing,    \* how far the writer of each bundle is
    scan        \* what the reader has listed so far

graphVars == <<graph, now, writing, scan>>

Idle == [lists |-> <<>>, skip |-> 0, overrun |-> FALSE, nodes |-> {}, edges |-> {}]

GraphInit == /\ graph = {} /\ now = 0 /\ scan = Idle
             /\ writing = [b \in Bundles |-> "no"]

-----------------------------------------------------------------------------
(* Writing. *)

\* Records a bundle refers to without creating them.
Refers(b) ==
    (UNION {{Facts[f].subject, Facts[f].object, Facts[f].prior} :
              f \in b.new \cap DOMAIN Facts}) \ (b.new \cup {None})

\* A receipt is the answer to a repeated request; otherwise what the bundle refers
\* to is read and checked, once.
CheckBundle(b) ==
    /\ writing[b] \in {"no", "saved", "failed"}
    /\ \/ /\ b.receipt \in graph
          /\ writing' = [writing EXCEPT ![b] = "saved"]
       \/ /\ b.receipt \notin graph /\ Refers(b) \subseteq graph
          /\ writing' = [writing EXCEPT ![b] = "checked"]
    /\ UNCHANGED <<graph, now, scan>>

\* All records of a bundle are created, or none; the answer may be lost.
Transact(b) ==
    /\ writing[b] = "checked"
    /\ \/ /\ graph' = graph \cup b.new \cup {b.receipt}
          /\ \E answer \in {"saved", "unsure"} :
               writing' = [writing EXCEPT ![b] = answer]
       \/ /\ writing' = [writing EXCEPT ![b] = "unsure"]
          /\ UNCHANGED graph
    /\ UNCHANGED <<now, scan>>

\* Only a receipt proves that a transaction was committed.
Confirm(b) ==
    /\ writing[b] = "unsure"
    /\ writing' = [writing EXCEPT ![b] =
                     IF b.receipt \in graph THEN "saved" ELSE "failed"]
    /\ UNCHANGED <<graph, now, scan>>

Tick == now < MaxNow /\ now' = now + 1 /\ UNCHANGED <<graph, writing, scan>>

GraphNext == Tick \/ \E b \in Bundles : CheckBundle(b) \/ Transact(b) \/ Confirm(b)

-----------------------------------------------------------------------------
(* Reading. *)

\* The edges of a fact are committed with it; one entry stands for all of them.
Listing(on) == IF on = "nodes" THEN graph ELSE graph \cap DOMAIN Facts

Place(list, r) == Cardinality({x \in list : x <= r})

Page(list, skip) == {r \in list : Place(list, r) \in skip + 1 .. skip + PageSize}

\* list_records: the next page of the list that is read. A list that is too long for
\* the pages is an error, and not the end of the list.
ReadPage ==
    /\ scan.lists # <<>> /\ ~scan.overrun
    /\ LET on == Head(scan.lists)
           list == Listing(on)
           s == [scan EXCEPT ![on] = @ \cup Page(list, scan.skip)]
       IN  scan' = IF Cardinality(list) <= scan.skip + PageSize
                   THEN [s EXCEPT !.lists = Tail(@), !.skip = 0]
                   ELSE IF scan.skip + PageSize = MaxPages * PageSize
                   THEN [s EXCEPT !.overrun = TRUE]
                   ELSE [s EXCEPT !.skip = @ + PageSize]
    /\ UNCHANGED <<graph, now, writing>>

\* Mutant: edges are listed before the nodes.
EdgesFirst == <<"edges", "nodes">>

\* A search lists the nodes; what is known of an entity takes the edges as well.
ContextLists == <<"nodes", "edges">>

InForce(f, t) == Facts[f].from <= t /\ (Facts[f].until = None \/ t < Facts[f].until)

\* Mutant: a correction that has run out no longer counts.
CurrentByValid(nodes, t) ==
    LET valid == {f \in nodes \cap DOMAIN Facts : InForce(f, t)}
    IN  valid \ {Facts[f].prior : f \in valid}

\* A fact is corrected from the start of its correction on, and for good.
Current(nodes, t) ==
    LET facts == nodes \cap DOMAIN Facts
        corrected == {Facts[f].prior : f \in {g \in facts : Facts[g].from <= t}}
    IN  {f \in facts \ corrected : InForce(f, t)}

\* The facts of an entity, from both ends, and what is wrong with them.
Outgoing(e) == {f \in Current(scan.nodes, now) : Facts[f].subject = e}
Incoming(e) == {f \in Current(scan.nodes, now) : Facts[f].object = e /\ Facts[f].subject # e}
About(e) == Outgoing(e) \cup Incoming(e)

RelatedTo(e) == (UNION {{Facts[f].subject, Facts[f].object} : f \in About(e)}) \ {e, None}

Alarm(e) == CASE ~(About(e) \subseteq scan.edges) -> "missing_link"
              [] OTHER -> IF RelatedTo(e) \subseteq scan.nodes THEN "none"
                          ELSE "missing_related"
=============================================================================
