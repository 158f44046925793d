------------------------------ MODULE MCMemory ------------------------------
(***************************************************************************)
(* The two readers of the memory, the facade and the resolver, each over a *)
(* graph of its own as it can tell it.  They share no state, and a step of *)
(* one changes nothing the other can see: one of them is chosen and runs   *)
(* alone, while the other stays where it begins.                           *)
(***************************************************************************)
EXTENDS MCMemoryFacade, MCGraphResolver

VARIABLE part

MemoryInit == /\ part \in {"facade", "resolver"}
              /\ Init /\ (part = "facade" \/ mode = "capture")
              /\ ResolverInit

MemoryNext == \/ /\ part = "facade" /\ Next
                 /\ UNCHANGED <<part, resolverVars>>
              \/ /\ part = "resolver" /\ ResolverNext
                 /\ UNCHANGED <<part, vars>>

MemorySpec == MemoryInit /\ [][MemoryNext]_<<part, vars, resolverVars>>
=============================================================================
