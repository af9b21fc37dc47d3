--------------------------- MODULE PluginLifecycle ---------------------------
(***************************************************************************)
(* src/foundation.cpp: the life of the script plugins.  Every plugin ID    *)
(* has a slot with a current script and, while a reload is not finished,   *)
(* a replacement.  A script is prepared (loaded, bound and started), run,  *)
(* paused, retired and released; plugins depend on each other; the host    *)
(* can refuse to take a registration back, and then the script is kept,    *)
(* with its virtual machine, until a retry succeeds.                       *)
(*                                                                         *)
(* The server thread runs everything.  An action is one management         *)
(* operation, one step of the loops of Refresh and UnloadAll, or one       *)
(* boundary of a script callback: a callback may itself lead to a          *)
(* management operation, so operations happen inside callbacks.            *)
(*                                                                         *)
(* A registration stands for a command, an event, a ConVar, a native       *)
(* provider or a voice override; what the scripts compute, the file        *)
(* formats and the messages are left out.                                  *)
(***************************************************************************)
EXTENDS Naturals, Sequences, FiniteSets, SequencesExt

CONSTANTS N,          \* the plugin IDs are 1..N, in the order of scripts_
          Files,      \* every plugin file an operator may install
          Names,      \* what a script can register at the host
          Commands,   \* the names that belong to one plugin ID at a time
          Services,   \* the names of native providers
          FaultLimit, \* failing callbacks before a script is retired (3)
          MaxDepth,   \* bound: nested callbacks
          Absent, Broken, \* no file, a file that cannot be read
          Damage,     \* bound: which of these happen, a subset of {Absent, Broken}
          None

Plugins == 1..N

\* A file: its plugin, its version, per plugin the least version it needs (0 when
\* it does not depend on it), and whether the manifest enables it.
FileType == [id : Plugins, version : Nat \ {0}, needs : [Plugins -> Nat], enabled : BOOLEAN]

ASSUME LifecycleAssumption ==
    /\ N \in Nat \ {0}
    /\ Files \subseteq FileType
    /\ \A f \in Files : f.needs[f.id] = 0
    /\ Commands \subseteq Names /\ Services \subseteq Names
    /\ FaultLimit \in Nat \ {0} /\ MaxDepth \in Nat
    /\ Files \cap {None, Absent, Broken} = {} /\ Damage \subseteq {Absent, Broken}

VARIABLES
    disk,        \* what plugins/<id> holds: a file, nothing, or one that cannot be read
    current,     \* Slot::current
    replacement, \* Slot::replacement
    preserved,   \* Slot::replacement_state
    loads,       \* Script::load_order: the plugins by the time of their last load
    registered,  \* the names the host has registered
    stack,       \* Script::active: the plugins whose callbacks are running
    op,          \* managing_ and the state of the loop of Refresh or UnloadAll
    intent       \* history: what the operator last asked of the plugin

vars == <<disk, current, replacement, preserved, loads, registered, stack, op, intent>>

Script == [file : Files \cup {None},
           state : {"Loading", "Running", "Retiring", "Disabled", "Failed", "Paused"},
           vm : BOOLEAN,           \* the virtual machine exists
           stopped : BOOLEAN,      \* stop_notified
           held : SUBSET Names,    \* commands, events, convars, providers
           shown : BOOLEAN,        \* a menu of the script is displayed
           faults : 0..FaultLimit]

\* No script is the empty pointer.
ASSUME NoneAssumption == None \notin Script

Idle == [kind |-> "idle"]

\* A script without a virtual machine: its manifest is only shown to the operator.
Shell(state) == [file |-> None, state |-> state, vm |-> FALSE, stopped |-> FALSE,
                 held |-> {}, shown |-> FALSE, faults |-> 0]

Init ==
    /\ disk \in [Plugins -> Files \cup Damage]
    /\ \A p \in Plugins : disk[p] \in Files => disk[p].id = p
    /\ current = [p \in Plugins |-> None]
    /\ replacement = [p \in Plugins |-> None]
    /\ preserved = [p \in Plugins |-> "Running"]
    /\ loads = <<>> /\ registered = {} /\ stack = <<>>
    /\ op = Idle
    /\ intent = [p \in Plugins |-> "run"]

-----------------------------------------------------------------------------
(* Dependencies.                                                           *)

\* The scripts of a plugin that have a virtual machine.
Live(p) == {s \in {current[p], replacement[p]} \ {None} : s.vm}

Requires(s, p) == s.file.needs[p] > 0

\* Dependent: the plugins that use p; the paused ones do not count for Pause.
Dependents(p) == {q \in Plugins \ {p} : \E s \in Live(q) : Requires(s, p)}
ActiveDependents(p) ==
    {q \in Plugins \ {p} : \E s \in Live(q) : Requires(s, p) /\ s.state # "Paused"}

Needed(f) == {q \in Plugins : f.needs[q] > 0}
Edges(p) == UNION {Needed(s.file) : s \in Live(p)}

\* The plugins that can be reached from a set of plugins, itself included.
Reach(from) ==
    {q \in Plugins : \A C \in SUBSET Plugins :
        (from \subseteq C /\ \A p \in C : Edges(p) \subseteq C) => q \in C}

\* CheckDependencies: no loaded script asks for a later version of the plugin...
KeepsPromises_Running(f) ==
    \A q \in Plugins \ {f.id} : \A s \in Live(q) :
        s.state = "Running" => s.file.needs[f.id] <= f.version
KeepsPromises(f) ==
    \A q \in Plugins \ {f.id} : \A s \in Live(q) : s.file.needs[f.id] <= f.version

\* ... every dependency runs in a version that is late enough ...
DependencyRuns(f, q) ==
    /\ current[q] # None /\ current[q].state = "Running"
    /\ current[q].file.version >= f.needs[q]

\* ... and none of them depends on the plugin.
Cyclic(f) == f.id \in Reach(Needed(f))

CheckDependencies(f) ==
    /\ KeepsPromises(f)
    /\ \A q \in Needed(f) : DependencyRuns(f, q)
    /\ ~Cyclic(f)

-----------------------------------------------------------------------------
(* Cleanup.                                                                *)

Slots == Plugins \X {"current", "replacement"}
At(x) == IF x[2] = "current" THEN current[x[1]] ELSE replacement[x[1]]

\* The names held by scripts other than those in a set of slots.
HeldBesides(X) == UNION {At(x).held : x \in {y \in Slots \ X : At(y) # None}}

\* Script::active: a callback of the plugin's current script is running.
Active(p) == p \in ToSet(stack)

\* The names whose release may fail: a provider while it may be called, and
\* whatever the script is the last to hold, when the host refuses.
MayStick(s, others) ==
    {n \in s.held : n \notin others \/ (n \in Services /\ stack # <<>>)}

\* The scripts Cleanup can leave of s: released, or retained for a retry because a
\* menu could not be cleared, or because some names could not be released.
Cleaned(s, others) ==
    LET stopped == [s EXCEPT !.stopped = @ \/ s.vm]
    IN  {Shell(s.state)}
        \cup {t \in {stopped} : s.shown}
        \cup {[stopped EXCEPT !.held = stuck, !.shown = FALSE] :
                  stuck \in (SUBSET MayStick(s, others)) \ {{}}}

\* What the host forgets when s has been cleaned up into t.
Forgotten(s, t, others) == s.held \ (t.held \cup others)

Retire(s) == [s EXCEPT !.state = "Retiring"]

\* Cleanup of a current script: one with an active callback is left as it is.
Cleanup_Active(p, others) == Cleaned(Retire(current[p]), others)
Cleanup(p, others) == IF Active(p) THEN {Retire(current[p])}
                                   ELSE Cleaned(Retire(current[p]), others)

-----------------------------------------------------------------------------
(* Load, Retry, Unload and Reload.                                         *)

\* RegisterCommand, ListenEvent...: the names a script of plugin p can register.
Available(p) ==
    Names \ (Commands \cap UNION {s.held : s \in UNION {Live(q) : q \in Plugins \ {p}}})

\* Prepare, after its checks: OnPluginStart has registered some names and returned
\* true, or the candidate failed and was cleaned up, or it failed and some of its
\* names stick.
Prepared(f) ==
    LET new == [Shell("Loading") EXCEPT !.file = f, !.vm = TRUE]
        failed == [new EXCEPT !.state = "Retiring", !.stopped = TRUE]
        sticky == MayStick([new EXCEPT !.held = Available(f.id)], HeldBesides({}))
    IN  {[new EXCEPT !.held = H] : H \in SUBSET Available(f.id)}
        \cup {Shell("Failed")}
        \cup {[failed EXCEPT !.held = stuck] : stuck \in (SUBSET sticky) \ {{}}}

\* Prepare refuses to prepare a plugin that is loaded, but not its replacement.
Loadable(p) == current[p] # None => current[p].state \in {"Disabled", "Failed"}

\* RecordFailure: remembered, unless there is a script to keep.
RecordFailure(P) ==
    LET kept(p) == (current[p] # None /\ current[p].vm) \/ replacement[p] # None
    IN  current' = [p \in Plugins |-> IF p \in P /\ ~kept(p) THEN Shell("Failed") ELSE current[p]]

Acceptable(p) == disk[p] \in Files /\ Loadable(p) /\ CheckDependencies(disk[p])

\* Script::load_order, as far as it orders the scripts; 0 for one that was never loaded.
LoadOrder(p) == IF p \in ToSet(loads) THEN CHOOSE i \in DOMAIN loads : loads[i] = p ELSE 0
Without(p) == IF p \in ToSet(loads) THEN RemoveAt(loads, LoadOrder(p)) ELSE loads

LoadScript(p) ==
    \/ /\ ~Acceptable(p)
       /\ RecordFailure({p})
       /\ UNCHANGED <<loads, registered, intent>>
    \/ /\ Acceptable(p)
       /\ \E c \in Prepared(disk[p]) :
             /\ registered' = registered \cup c.held
             /\ \/ /\ c.state = "Loading"
                   /\ current' = [current EXCEPT ![p] = [c EXCEPT !.state = "Running"]]
                   /\ loads' = Append(Without(p), p)
                \/ /\ c.state # "Loading"
                   /\ current' = [current EXCEPT ![p] = c]
                   /\ loads' = Without(p)
       /\ intent' = [intent EXCEPT ![p] = "run"]

\* UnloadScript: the replacement is released first; when that fails the current
\* script is not touched.
UnloadScript(p) ==
    LET old == replacement[p]
        besideOld == HeldBesides({<<p, "replacement">>})
        others == HeldBesides({p} \X {"current", "replacement"})
    IN  /\ current[p] # None /\ Dependents(p) = {}
        /\ intent' = [intent EXCEPT ![p] = "run"]
        /\ \/ /\ old # None
              /\ \E r \in Cleaned(Retire(old), besideOld) :
                    /\ r.vm
                    /\ replacement' = [replacement EXCEPT ![p] = r]
                    /\ registered' = registered \ Forgotten(old, r, besideOld)
              /\ UNCHANGED current
           \/ LET gone == IF old = None THEN {} ELSE Forgotten(old, Shell("Retiring"), besideOld)
              IN  \E s \in Cleanup(p, others) :
                    /\ current' = [current EXCEPT ![p] =
                                      IF s.vm THEN s ELSE [s EXCEPT !.state = "Disabled"]]
                    /\ replacement' = [replacement EXCEPT ![p] = None]
                    /\ registered' = (registered \ gone) \ Forgotten(current[p], s, others)

\* ReloadScript, its second half: the current script gives way to c, or is retained
\* with c waiting for the retry.
Activate(p, c, known) ==
    LET others == HeldBesides({p} \X {"current", "replacement"}) \cup c.held
    IN  \E s \in Cleanup(p, others) :
            /\ registered' = known \ Forgotten(current[p], s, others)
            /\ \/ /\ s.vm
                  /\ current' = [current EXCEPT ![p] = s]
                  /\ replacement' = [replacement EXCEPT ![p] = c]
                  /\ UNCHANGED loads
               \/ /\ ~s.vm
                  /\ current' = [current EXCEPT ![p] = [c EXCEPT !.state = preserved'[p]]]
                  /\ replacement' = [replacement EXCEPT ![p] = None]
                  /\ loads' = Append(Without(p), p)

\* The state a replacement will take over.
Inherited_Running(p) == "Running"
Inherited(p) == IF current[p].state = "Paused" THEN "Paused" ELSE "Running"

\* A new candidate: started, failed and discarded, or failed and retained.
ReloadPrepare(p) ==
    /\ replacement[p] = None
    /\ preserved' = [preserved EXCEPT ![p] = Inherited(p)]
    /\ disk[p] \in Files /\ CheckDependencies(disk[p])
    /\ \E c \in Prepared(disk[p]) :
          \/ c.state = "Loading" /\ Activate(p, c, registered \cup c.held)
          \/ c.state = "Failed" /\ UNCHANGED <<current, replacement, loads, registered>>
          \/ /\ c.state = "Retiring"
             /\ replacement' = [replacement EXCEPT ![p] = c]
             /\ registered' = registered \cup c.held
             /\ UNCHANGED <<current, loads>>

\* A candidate that failed earlier is only cleaned up.
ReloadClean(p) ==
    /\ replacement[p] # None /\ replacement[p].state # "Loading"
    /\ LET others == HeldBesides({<<p, "replacement">>})
       IN  \E r \in Cleaned(replacement[p], others) :
               /\ replacement' = [replacement EXCEPT ![p] = IF r.vm THEN r ELSE None]
               /\ registered' = registered \ Forgotten(replacement[p], r, others)
    /\ UNCHANGED <<current, preserved, loads>>

\* A candidate that started earlier is checked again and activated.
ReloadActivate(p) ==
    /\ replacement[p] # None /\ replacement[p].state = "Loading"
    /\ CheckDependencies(replacement[p].file)
    /\ UNCHANGED preserved
    /\ Activate(p, replacement[p], registered)

ReloadScript(p) ==
    /\ current[p] # None /\ ~Active(p)
    /\ ReloadPrepare(p) \/ ReloadClean(p) \/ ReloadActivate(p)
    /\ UNCHANGED intent

-----------------------------------------------------------------------------
(* The operator's commands.                                                *)

Free == op = Idle

\* A management operation that refuses leaves everything as it was, so its guards
\* are those under which it does something.
Load(p) ==
    /\ Free
    /\ LoadScript(p)
    /\ UNCHANGED <<disk, replacement, preserved, stack, op>>

Retry(p) ==
    /\ Free
    /\ current[p] # None /\ current[p].state = "Failed" /\ replacement[p] = None
    /\ LoadScript(p)
    /\ UNCHANGED <<disk, replacement, preserved, stack, op>>

Unload(p) ==
    /\ Free
    /\ UnloadScript(p)
    /\ UNCHANGED <<disk, preserved, loads, stack, op>>

Reload(p) ==
    /\ Free
    /\ ReloadScript(p)
    /\ UNCHANGED <<disk, stack, op>>

\* Pause: a menu that cannot be cleared stays for a later Pause or Resume.
PauseBlockers(p) == ActiveDependents(p)
Pause(p) ==
    /\ Free
    /\ current[p] # None /\ replacement[p] = None
    /\ \/ current[p].state = "Paused"
       \/ current[p].state = "Running" /\ ~Active(p) /\ PauseBlockers(p) = {}
    /\ \E shown \in {FALSE, current[p].shown} :
          current' = [current EXCEPT ![p].state = "Paused", ![p].shown = shown]
    /\ intent' = [intent EXCEPT ![p] = "pause"]
    /\ UNCHANGED <<disk, replacement, preserved, loads, registered, stack, op>>

Resume(p) ==
    /\ Free
    /\ current[p] # None /\ replacement[p] = None
    /\ current[p].state = "Paused" /\ CheckDependencies(current[p].file)
    /\ current' = [current EXCEPT ![p].state = "Running", ![p].shown = FALSE]
    /\ intent' = [intent EXCEPT ![p] = "run"]
    /\ UNCHANGED <<disk, replacement, preserved, loads, registered, stack, op>>

\* The operator installs, breaks or removes a plugin's files.
Edit(p) ==
    /\ Free
    /\ \E f \in {g \in Files : g.id = p} \cup Damage : disk' = [disk EXCEPT ![p] = f]
    /\ UNCHANGED <<current, replacement, preserved, loads, registered, stack, op, intent>>

-----------------------------------------------------------------------------
(* Refresh, Discover and UnloadAll: loops over the plugins.                *)

Loaded == {p \in Plugins : current[p] # None}

\* DiscoverScripts, up to its loop: the loaded plugins whose files changed, and the
\* new ones; a new plugin that is disabled or broken is only remembered.
Changed == {p \in Loaded : /\ current[p].state \in {"Running", "Paused"} /\ replacement[p] = None
                           /\ disk[p] \in Files /\ disk[p] # current[p].file}
New == {p \in Plugins \ Loaded : disk[p] \in Files /\ disk[p].enabled}

DiscoverScripts(refresh) ==
    /\ Free /\ stack = <<>>
    /\ current' = [p \in Plugins |->
          IF p \in Loaded \cup New \/ disk[p] = Absent THEN current[p]
          ELSE IF disk[p] = Broken THEN Shell("Failed") ELSE Shell("Disabled")]
    /\ LET pending == New \cup (IF refresh THEN Changed ELSE {})
       IN  op' = [kind |-> "refresh", at |-> 1, progress |-> FALSE,
                  pending |-> [p \in pending |-> disk[p]]]
    /\ UNCHANGED <<disk, replacement, preserved, loads, registered, stack, intent>>

\* The next plugin of this pass whose dependencies are not pending themselves.
Ready == {p \in DOMAIN op.pending : p >= op.at /\ Needed(op.pending[p]) \cap DOMAIN op.pending = {}}

\* The first of a set of plugins, or of places in the order; none when it is empty.
First(S) == {i \in S : \A j \in S : i <= j}

RefreshNext ==
    /\ op.kind = "refresh"
    /\ \E p \in First(Ready) :
           /\ op' = [op EXCEPT !.at = p + 1, !.progress = TRUE,
                               !.pending = Restrict(@, DOMAIN @ \ {p})]
           /\ \/ current[p] = None /\ LoadScript(p) /\ UNCHANGED <<replacement, preserved>>
              \/ current[p] # None /\ ReloadScript(p)
              \/ current[p] # None /\ ~CheckDependencies(disk[p])
                 /\ UNCHANGED <<current, replacement, preserved, loads, registered, intent>>
    /\ UNCHANGED <<disk, stack>>

\* After a pass: another one if it made progress; else what is left is cyclic.
RefreshPass ==
    /\ op.kind = "refresh" /\ Ready = {}
    /\ \/ /\ op.progress /\ DOMAIN op.pending # {}
          /\ op' = [op EXCEPT !.at = 1, !.progress = FALSE]
          /\ UNCHANGED current
       \/ /\ ~op.progress \/ DOMAIN op.pending = {}
          /\ op' = Idle
          /\ RecordFailure(DOMAIN op.pending \ Loaded)
    /\ UNCHANGED <<disk, replacement, preserved, loads, registered, stack, intent>>

\* UnloadAll: the latest loaded plugin first, then those never loaded.
Later(p, q) == LoadOrder(p) > LoadOrder(q) \/ (LoadOrder(p) = LoadOrder(q) /\ p > q)

UnloadAll ==
    /\ Free /\ stack = <<>>
    /\ \E order \in [1..Cardinality(Loaded) -> Loaded] :
          /\ \A i, j \in DOMAIN order : i < j => Later(order[i], order[j])
          /\ op' = [kind |-> "unloadAll", at |-> 1, progress |-> FALSE, attempted |-> {}, order |-> order]
    /\ UNCHANGED <<disk, current, replacement, preserved, loads, registered, stack, intent>>

Unloadable == {i \in op.at..Len(op.order) :
    Live(op.order[i]) # {} /\ op.order[i] \notin op.attempted /\ Dependents(op.order[i]) = {}}

UnloadAllNext ==
    /\ op.kind = "unloadAll"
    /\ \E i \in First(Unloadable) : LET p == op.order[i] IN
           /\ UnloadScript(p)
           /\ op' = [op EXCEPT !.at = i + 1, !.attempted = @ \cup {p},
                               !.progress = @ \/ current'[p].state = "Disabled"]
    /\ UNCHANGED <<disk, preserved, loads, stack>>

\* The loop of UnloadAll runs again as long as something was unloaded.
AnotherPass_Never == FALSE
AnotherPass == op.progress

UnloadAllPass ==
    /\ op.kind = "unloadAll" /\ Unloadable = {}
    /\ op' = IF AnotherPass THEN [op EXCEPT !.at = 1, !.progress = FALSE] ELSE Idle
    /\ UNCHANGED <<disk, current, replacement, preserved, loads, registered, stack, intent>>

OpStep == RefreshNext \/ RefreshPass \/ UnloadAllNext \/ UnloadAllPass

-----------------------------------------------------------------------------
(* Callbacks.                                                              *)

\* Invoke: only a running script is called, by a command, an event, a timer...
CallBegin(p) ==
    /\ Free /\ Len(stack) < MaxDepth
    /\ current[p] # None /\ current[p].state = "Running"
    /\ stack' = Append(stack, p)
    /\ UNCHANGED <<disk, current, replacement, preserved, loads, registered, op, intent>>

\* Limit: a script that is retiring registers nothing more.
MayRegister(s) == s.state \in {"Loading", "Running"}

\* The script on top of the stack registers a name or displays a menu.
Register(n) ==
    /\ Free /\ stack # <<>>
    /\ LET p == Last(stack)
       IN  /\ MayRegister(current[p]) /\ n \in Available(p) \ current[p].held
           /\ current' = [current EXCEPT ![p].held = @ \cup {n}]
    /\ registered' = registered \cup {n}
    /\ UNCHANGED <<disk, replacement, preserved, loads, stack, op, intent>>

ShowMenu ==
    /\ Free /\ stack # <<>>
    /\ LET p == Last(stack)
       IN  /\ current[p].state = "Running" /\ ~current[p].shown
           /\ current' = [current EXCEPT ![p].shown = TRUE]
    /\ UNCHANGED <<disk, replacement, preserved, loads, registered, stack, op, intent>>

\* Tick: the menu is dismissed or expires.
MenuCloses(p) ==
    /\ Free
    /\ current[p] # None /\ current[p].shown
    /\ current' = [current EXCEPT ![p].shown = FALSE]
    /\ UNCHANGED <<disk, replacement, preserved, loads, registered, stack, op, intent>>

\* Invoke returns; a script that failed too often is retired.
CallEnd(failed) ==
    /\ Free /\ stack # <<>>
    /\ LET p == Last(stack)
           faults == current[p].faults + 1
       IN  IF failed
           THEN current' = [current EXCEPT
                    ![p].faults = IF faults > FaultLimit THEN FaultLimit ELSE faults,
                    ![p].state = IF faults >= FaultLimit THEN "Retiring" ELSE @]
           ELSE UNCHANGED current
    /\ stack' = Front(stack)
    /\ UNCHANGED <<disk, replacement, preserved, loads, registered, op, intent>>

Next ==
    \/ \E p \in Plugins :
          \/ Load(p) \/ Retry(p) \/ Unload(p) \/ Reload(p) \/ Pause(p) \/ Resume(p)
          \/ Edit(p) \/ CallBegin(p) \/ MenuCloses(p)
    \/ \E refresh \in BOOLEAN : DiscoverScripts(refresh)
    \/ UnloadAll
    \/ OpStep
    \/ \E n \in Names : Register(n)
    \/ ShowMenu
    \/ \E failed \in BOOLEAN : CallEnd(failed)

Spec == Init /\ [][Next]_vars

\* The loops run to their end on the server thread.
FairSpec == Spec /\ WF_vars(OpStep)

-----------------------------------------------------------------------------
(* Properties.                                                             *)

OpType ==
    \/ op = Idle
    \/ /\ op.kind = "refresh"
       /\ DOMAIN op.pending \subseteq Plugins /\ \A p \in DOMAIN op.pending : op.pending[p] \in Files
       /\ op.at \in 1..N + 1 /\ op.progress \in BOOLEAN
    \/ /\ op.kind = "unloadAll"
       /\ ToSet(op.order) \subseteq Plugins /\ op.at \in 1..Len(op.order) + 1
       /\ op.progress \in BOOLEAN /\ op.attempted \subseteq Plugins

\* Every variable has its type; a replacement is a script that started and waits, or
\* one that failed and is being released (Slot, ReloadScript).
TypeOK ==
    /\ disk \in [Plugins -> Files \cup Damage]
    /\ current \in [Plugins -> Script \cup {None}]
    /\ replacement \in [Plugins -> {s \in Script : s.vm /\ s.state \in {"Loading", "Retiring"}} \cup {None}]
    /\ preserved \in [Plugins -> {"Running", "Paused"}]
    /\ loads \in Seq(Plugins) /\ registered \subseteq Names
    /\ stack \in Seq(Plugins) /\ Len(stack) <= MaxDepth
    /\ OpType
    /\ intent \in [Plugins -> {"run", "pause"}]

\* What a script with a virtual machine depends on is loaded, in a version that is
\* late enough: no sequence of loads, reloads, unloads and failed cleanups takes it
\* away (CheckDependencies, Dependent).
DependenciesLoaded ==
    \A p, q \in Plugins : \A s \in Live(p) : Requires(s, q) =>
        current[q] # None /\ current[q].vm /\ current[q].file.version >= s.file.needs[q]

\* A running script never sits on a paused dependency: the dependency runs, or is
\* itself being retired.
RunningIsSupported ==
    \A p, q \in Plugins : \A s \in Live(p) :
        s.state \in {"Running", "Loading"} /\ Requires(s, q) => current[q].state \in {"Running", "Retiring"}

\* The dependencies of the loaded scripts, replacements included, have no cycle, so
\* that they can always be unloaded in some order.
NoCycle == \A p \in Plugins : p \notin Reach(Edges(p))

\* What a script may use through its dependencies is there and works, and it can be
\* taken away again.
DependenciesHold == DependenciesLoaded /\ RunningIsSupported /\ NoCycle

\* The host has registered exactly the names that loaded scripts hold, across failed
\* releases, retained candidates and shared names; and a command has one plugin ID.
HostMatches ==
    /\ registered = HeldBesides({})
    /\ \A p, q \in Plugins : p # q =>
          (UNION {s.held : s \in Live(p)}) \cap (UNION {s.held : s \in Live(q)}) \cap Commands = {}

\* A script that was told to stop is never called again: it is retired until it is gone.
StoppedNeverRuns ==
    \A x \in Slots : At(x) # None /\ At(x).stopped => At(x).state = "Retiring"

\* A script without a virtual machine has left nothing behind, and one with an active
\* callback keeps its virtual machine.
GoneIsClean ==
    \A x \in Slots : At(x) # None =>
        /\ At(x).vm <=> At(x).state \notin {"Disabled", "Failed"}
        /\ ~At(x).vm => At(x).held = {} /\ ~At(x).shown /\ ~Active(x[1])

\* Cleanup is complete wherever it ended, and repeated where it could not end.
CleanupIsSound == TypeOK /\ HostMatches /\ StoppedNeverRuns /\ GoneIsClean

\* "reload - Replace a plugin, preserving paused state" (ManagePlugins): a plugin that
\* the operator paused does not run again, through any number of failing reloads,
\* until he resumes, unloads or loads it.
PauseSurvivesReload == \A p \in Plugins : intent[p] = "pause" /\ current[p] # None => current[p].state # "Running"

\* "unload_all - Unload plugins in dependency order": whatever order the plugins were
\* loaded and reloaded in, UnloadAll reaches all of them, dependents first, unless the
\* host kept one of them from being released.
UnloadAllThorough ==
    [][op.kind = "unloadAll" /\ op' = Idle =>
        \/ \E p \in op.attempted : Live(p) # {}
        \/ \A p \in Plugins : Live(p) = {}]_vars

\* The loops of Refresh and UnloadAll end, so management is not locked forever.
ManagementEnds == op.kind # "idle" ~> op.kind = "idle"

\* UnloadAll ends, and has then reached every plugin it could.
UnloadAllReachesAll == UnloadAllThorough /\ ManagementEnds
=============================================================================
