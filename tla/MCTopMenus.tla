----------------------------- MODULE MCTopMenus -----------------------------
(* Instances of TopMenus for TLC: one script in two generations. *)
EXTENDS Naturals, TLC

CONSTANTS Owners, PluginOf, Entries, Guarded, Viewers, PerPage, MaxObjects, MaxSequence, MaxRevision,
          MaxConnection, Root, Nothing,
          g1, g2, players, kick, help

ASSUME TopAssumption == MaxSequence \in Nat

VARIABLES status, granted, player, objects, sequence, revision, tokens, views, shown, draw, frame

Tops == INSTANCE TopMenus WITH Slots <- Viewers, None <- Nothing

TopSpec == Tops!Spec

Generations == {g1, g2}
OnePlugin == (g1 :> g1) @@ (g2 :> g1)
ThreeEntries == {[key |-> players, kind |-> "category", category |-> Root],
                 [key |-> kick, kind |-> "item", category |-> players],
                 [key |-> help, kind |-> "item", category |-> Root]}
OneGuarded == {kick}

\* What the host will call back for, a view or an item, is known (TopMenus).
CalledIsKnown == Tops!CalledIsKnown

\* What is called for a selection is what the player saw in the row it chose, and still
\* may use (TopMenus).
ChosenIsSeen == Tops!ChosenIsSeen
=============================================================================
