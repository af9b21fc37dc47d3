-------------------------- MODULE MCExtensionCalls --------------------------
(***************************************************************************)
(* ExtensionCalls, with two natives of one service, and beside it          *)
(* EntityTools, the resources of such an extension, with which it shares   *)
(* no state: a behaviour is a behaviour of one of the two.                 *)
(***************************************************************************)
EXTENDS ExtensionCalls, TLC

CONSTANTS p1, p2, r1, r2, e1, Objects, Numbers, CountLimit, HoldLimit, MaxNesting

OneService == r1 :> e1 @@ r2 :> e1
BothUsed == p1 :> {r1, r2} @@ p2 :> {r2}

\* Entities, their handles and their counters are told from none.
ASSUME EntitiesAssumption ==
    /\ CountLimit \in Nat /\ HoldLimit \in Nat
    /\ None \notin Numbers \cup {"tools", "writes"}
    /\ None \notin [handle : Numbers \cup {None}, made : BOOLEAN, at : {"native", "script"}]

VARIABLES part, lent, object, count, holds, operations
entities == <<lent, object, count, holds, operations>>

Entities == INSTANCE EntityTools WITH stack <- operations

MCInit == part \in {"calls", "entities"} /\ Init /\ Entities!Init
CallsNext == part = "calls" /\ Next /\ UNCHANGED <<part, entities>>
EntitiesNext == part = "entities" /\ Entities!Next /\ UNCHANGED <<part, vars>>
MCNext == CallsNext \/ EntitiesNext
MCSpec == MCInit /\ [][MCNext]_<<part, vars, entities>>

\* A resource is destroyed while its extension is leased, and what it holds at the host
\* goes with it, once (EntityTools).
ResourcesKept == LeaseCovers /\ Entities!HandlesOwned
=============================================================================
