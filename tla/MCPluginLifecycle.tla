-------------------------- MODULE MCPluginLifecycle --------------------------
(* Instances of PluginLifecycle for TLC. *)
EXTENDS PluginLifecycle

\* A file of plugin id in a version, depending on the plugins of a function.
File(id, version, needs) ==
    [id |-> id, version |-> version, enabled |-> TRUE,
     needs |-> [p \in Plugins |-> IF p \in DOMAIN needs THEN needs[p] ELSE 0]]

NoNeeds == <<>>

\* Two plugins with one file each: 2 depends on 1.
PairFiles == {File(1, 1, NoNeeds), File(2, 1, 1 :> 1)}

\* Three plugins in a chain, in either direction: 3 may need a later version of 1.
ChainFiles ==
    {File(1, 1, NoNeeds), File(1, 2, 2 :> 1), File(2, 1, NoNeeds), File(2, 1, 3 :> 1),
     File(3, 1, NoNeeds), File(3, 1, 1 :> 2)}
=============================================================================
