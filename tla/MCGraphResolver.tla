--------------------------- MODULE MCGraphResolver --------------------------
(* Three namesakes; facts relate one of them to the others, and one of the *)
(* facts is corrected for a while.                                         *)
EXTENDS GraphResolver, TLC

Entity(name) == [name |-> name, family |-> "person"]
MCEntities == 3 :> Entity("alex") @@ 1 :> Entity("alex") @@ 6 :> Entity("alex")

Fact(subject, object, prior, from, until) ==
    [subject |-> subject, object |-> object, prior |-> prior, from |-> from,
     until |-> until]
MCFacts == 5 :> Fact(3, 6, 0, 0, 0) @@ 7 :> Fact(3, 1, 0, 0, 0)
           @@ 4 :> Fact(3, 0, 5, 1, 2)

Bundle(new, receipt) == [new |-> new, receipt |-> receipt]
MCBundles == {Bundle({3, 5, 6}, 8), Bundle({1, 7}, 10), Bundle({4}, 2)}
=============================================================================
