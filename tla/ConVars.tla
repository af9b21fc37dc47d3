------------------------------- MODULE ConVars -------------------------------
(***************************************************************************)
(* src/convars.cpp: ConVars of scripts.  A ConVar belongs to one plugin; in*)
(* a reload the current script and its replacement own it together, and the*)
(* last owner releases it.  The release may fail; the owner then keeps the *)
(* ConVar, without its handle, until the cleanup is tried again.           *)
(*                                                                         *)
(* Integer ConVars; a script is the number of one load of a plugin.        *)
(***************************************************************************)
EXTENDS Integers, FiniteSets, FiniteSetsExt

CONSTANTS Plugins, Names,
          Loads,     \* bound: numbers of the loads that exist at a time
          Cells,     \* values scripts write and define
          None

VARIABLES
    script,    \* the loads: plugin, state and ConVars, with and without handle
    current, replacement,
    variable,  \* convars_: definition and owners
    host       \* the ConVars of the server: definition and value
vars == <<script, current, replacement, variable, host>>

Definition == [initial : Cells, minimum : Cells, maximum : Cells]

\* ValidateConVar.
Valid(d) == d.minimum <= d.initial /\ d.initial <= d.maximum

Init ==
    /\ script = [i \in Loads |-> None]
    /\ current = [p \in Plugins |-> None] /\ replacement = [p \in Plugins |-> None]
    /\ variable = [n \in Names |-> None] /\ host = [n \in Names |-> None]

State(i) == script[i].state

-----------------------------------------------------------------------------
(* Natives.                                                                *)

Others(i, n) == \E o \in variable[n].owners : script[o].plugin # script[i].plugin

Owned(i, n) == script' = [script EXCEPT ![i].convars = @ \cup {n}, ![i].handles = @ \cup {n}]

\* CreateConVar: a second owner joins, when the definition is the same.
Join(i, n, d) ==
    /\ variable[n] # None
    /\ ~Others(i, n) /\ variable[n].definition = d
    /\ variable' = [variable EXCEPT ![n].owners = @ \cup {i}]
    /\ Owned(i, n)
    /\ UNCHANGED host

\* The first owner has it created; when the server refuses nothing is left.
Register(i, n, d) ==
    /\ variable[n] = None /\ host[n] = None
    /\ variable' = [variable EXCEPT ![n] = [definition |-> d, owners |-> {i}]]
    /\ host' = [host EXCEPT ![n] = [definition |-> d, value |-> d.initial]]
    /\ Owned(i, n)

CreateConVar(i, n, d) ==
    /\ script[i] # None /\ State(i) \in {"loading", "running"}
    /\ Valid(d) /\ n \notin script[i].convars
    /\ Join(i, n, d) \/ Register(i, n, d)
    /\ UNCHANGED <<current, replacement>>

\* WriteConVar: the value is clamped.
Clamped(d, value) ==
    IF value < d.minimum THEN d.minimum ELSE IF value > d.maximum THEN d.maximum ELSE value
WriteConVar(i, n, value) ==
    /\ script[i] # None /\ State(i) = "running" /\ n \in script[i].handles
    /\ host' = [host EXCEPT ![n].value = Clamped(variable[n].definition, value)]
    /\ UNCHANGED <<script, current, replacement, variable>>

-----------------------------------------------------------------------------
(* CloseConVar, for the ConVars a load gives up, some of which the server  *)
(* does not release.                                                       *)

LastOwner_Always(i, n) == TRUE
LastOwner(i, n) == variable[n].owners = {i}
Releases(i, names) == {n \in names : LastOwner(i, n)}

Closed(i, names) ==
    /\ variable' = [n \in Names |->
          IF n \notin names THEN variable[n]
          ELSE IF variable[n].owners = {i} THEN None
          ELSE [variable[n] EXCEPT !.owners = @ \ {i}]]
    /\ host' = [n \in Names |-> IF n \in Releases(i, names) THEN None ELSE host[n]]

CloseConVar(i, n) ==
    /\ script[i] # None /\ State(i) \in {"loading", "running"} /\ n \in script[i].handles
    /\ Closed(i, {n})
    /\ script' = [script EXCEPT ![i].convars = @ \ {n}, ![i].handles = @ \ {n}]
    /\ UNCHANGED <<current, replacement>>

\* Cleanup, and what becomes of the load: it is gone, or retained without handles.
Cleanup(i, kept) ==
    /\ kept \subseteq Releases(i, script[i].convars)
    /\ Closed(i, script[i].convars \ kept)
    /\ script' = [script EXCEPT ![i] =
          IF kept = {} THEN None
          ELSE [@ EXCEPT !.state = "retiring", !.convars = kept, !.handles = {}]]

-----------------------------------------------------------------------------
(* Loads, reloads and unloads (Foundation).                                *)

Free == {i \in Loads : script[i] = None}
New(i, p) ==
    script' = [script EXCEPT ![i] = [plugin |-> p, state |-> "loading", convars |-> {}, handles |-> {}]]

\* Prepare; OnPluginStart runs while the state is "loading".
Load(p) ==
    /\ current[p] = None /\ Free # {}
    /\ New(Min(Free), p)
    /\ current' = [current EXCEPT ![p] = Min(Free)]
    /\ UNCHANGED <<replacement, variable, host>>

Reload(p) ==
    /\ current[p] # None /\ State(current[p]) # "loading" /\ replacement[p] = None /\ Free # {}
    /\ New(Min(Free), p)
    /\ replacement' = [replacement EXCEPT ![p] = Min(Free)]
    /\ UNCHANGED <<current, variable, host>>

\* OnPluginStart has returned true, in the first load.
Started(p) ==
    /\ current[p] # None /\ State(current[p]) = "loading"
    /\ script' = [script EXCEPT ![current[p]].state = "running"]
    /\ UNCHANGED <<current, replacement, variable, host>>

\* OnPluginStart failed, or Unload gets to the load: the replacement goes first.
Drop(p) ==
    \/ /\ replacement[p] # None
       /\ \E kept \in SUBSET Names :
             /\ Cleanup(replacement[p], kept)
             /\ replacement' = [replacement EXCEPT ![p] = IF kept = {} THEN None ELSE @]
       /\ UNCHANGED current
    \/ /\ replacement[p] = None /\ current[p] # None
       /\ \E kept \in SUBSET Names :
             /\ Cleanup(current[p], kept)
             /\ current' = [current EXCEPT ![p] = IF kept = {} THEN None ELSE @]
       /\ UNCHANGED replacement

\* The replacement is ready: the current script is cleaned up, again and again until
\* that succeeds, and the replacement takes its place.
Replace(p) ==
    /\ replacement[p] # None /\ State(replacement[p]) = "loading"
    /\ \E kept \in SUBSET Names :
          /\ kept \subseteq Releases(current[p], script[current[p]].convars)
          /\ Closed(current[p], script[current[p]].convars \ kept)
          /\ script' = [script EXCEPT
                ![current[p]] = IF kept = {} THEN None
                                ELSE [@ EXCEPT !.state = "retiring", !.convars = kept, !.handles = {}],
                ![replacement[p]].state = IF kept = {} THEN "running" ELSE @]
          /\ current' = IF kept = {} THEN [current EXCEPT ![p] = replacement[p]] ELSE current
          /\ replacement' = IF kept = {} THEN [replacement EXCEPT ![p] = None] ELSE replacement

Next ==
    \/ \E i \in Loads, n \in Names :
          \/ \E d \in Definition : CreateConVar(i, n, d)
          \/ \E value \in Cells : WriteConVar(i, n, value)
          \/ CloseConVar(i, n)
    \/ \E p \in Plugins : Load(p) \/ Reload(p) \/ Started(p) \/ Drop(p) \/ Replace(p)

Spec == Init /\ [][Next]_vars

-----------------------------------------------------------------------------
\* The server has a ConVar exactly while scripts own it, and they are loads of one
\* plugin that still exist: a failed release, of the current script or of a replacement,
\* neither leaks the ConVar nor takes it from the other, and no owner is a script that
\* is gone (convars.cpp:180, the raw pointers of Variable::owners).  Its value stays
\* within the bounds it was defined with.
ConVarsOwned ==
    \A n \in Names :
        /\ variable[n] # None <=> host[n] # None
        /\ variable[n] # None =>
              /\ variable[n].owners = {i \in Loads : script[i] # None /\ n \in script[i].convars}
              /\ variable[n].owners # {}
              /\ \A i, j \in variable[n].owners : script[i].plugin = script[j].plugin
              /\ variable[n].definition = host[n].definition
              /\ host[n].value \in host[n].definition.minimum..host[n].definition.maximum
=============================================================================
