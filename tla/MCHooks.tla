------------------------------ MODULE MCHooks ------------------------------
(***************************************************************************)
(* Hooks, and beside it Authority, with which it shares no state: a        *)
(* behaviour is a behaviour of one of the two.                             *)
(***************************************************************************)
EXTENDS Naturals, TLC

CONSTANTS Plugins, Targets, RegIds, CallIds, Capacity, MaxDepth, MaxNesting, Nothing,  \* Hooks
          Accounts, Seats, GroupFiles, AdminFiles, Within, MaxConnection,              \* Authority
          a1, a2, Console, Absent, Garbage

ASSUME HooksAssumption == {Capacity, MaxDepth, MaxNesting} \subseteq Nat

\* A group has permissions and an immunity, an administrator a group and perhaps an
\* immunity of its own.
ASSUME AuthorityAssumption ==
    /\ MaxConnection \in Nat
    /\ \A groups \in GroupFiles : groups \in [DOMAIN groups -> [permissions : SUBSET STRING, immunity : Nat]]
    /\ \A entries \in AdminFiles :
          entries \in [DOMAIN entries -> [group : STRING, immunity : Nat \cup {Nothing}]]
    /\ Nothing \notin [permissions : SUBSET STRING, root : BOOLEAN, immunity : Nat]

VARIABLES regs, hooks, targets, opened, calls, native, leased, stack, loaded
hooked == <<regs, hooks, targets, opened, calls, native, leased, stack, loaded>>

Dhooks == INSTANCE Hooks WITH Owners <- Plugins, None <- Nothing

VARIABLES part, groupFile, adminFile, admins, player, used, chosen
authority == <<groupFile, adminFile, admins, player, used, chosen>>

\* Two administrators; one file gives the second a group that there is not.
Groups == "root" :> [permissions |-> {}, immunity |-> 0] @@ "kicks" :> [permissions |-> {"kick"}, immunity |-> 1]
Admins(group) == a1 :> [group |-> "root", immunity |-> 2] @@ a2 :> [group |-> group, immunity |-> Nothing]
OneGroups == {Groups}
TwoAdmins == {Admins("kicks"), Admins("lost")}
FirstWithinSecond == {<<a1, a2>>}

Authority == INSTANCE Authority WITH Slots <- Seats, None <- Nothing

MCInit == part \in {"hooks", "authority"} /\ Dhooks!Init /\ Authority!Init
HooksNext == part = "hooks" /\ Dhooks!Next /\ UNCHANGED <<part, authority>>
AuthorityNext == part = "authority" /\ Authority!Next /\ UNCHANGED <<part, hooked>>
MCNext == HooksNext \/ AuthorityNext
MCSpec == MCInit /\ [][MCNext]_<<part, hooked, authority>>

\* What a callback or a call that is under way comes back to is there (Hooks).
HooksStay == Dhooks!HooksStay

\* Who is kicked was meant, and may be (Authority).
AuthorityHolds == [][Authority!RightfulStep]_authority

Symmetry ==
    Permutations(Plugins) \cup Permutations(Targets) \cup Permutations(RegIds) \cup Permutations(Seats)
=============================================================================
