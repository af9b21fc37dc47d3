--------------------------- MODULE LifecycleProofs ---------------------------
(***************************************************************************)
(* Proofs about PluginLifecycle, for any number of plugins and any files:  *)
(* what plugins depend on, what the operator paused, and what the cleanup  *)
(* of a script leaves at the host.                                         *)
(***************************************************************************)
EXTENDS PluginLifecycle, FiniteSetTheorems, TLAPS

-----------------------------------------------------------------------------
(* The inductive invariant.                                                *)

\* A script of plugin p: with a virtual machine it has a file of the plugin, without one
\* it is not in a state in which it would be called or waited for.
Shaped(s, p) ==
    /\ s \in Script
    /\ s.vm => s.file \in Files /\ s.file.id = p /\ s.state \notin {"Disabled", "Failed"}
    /\ ~s.vm => s.state \in {"Disabled", "Failed", "Retiring"}

Shape ==
    /\ disk \in [Plugins -> Files \cup Damage]
    /\ current \in [Plugins -> Script \cup {None}]
    /\ replacement \in [Plugins -> Script \cup {None}]
    /\ preserved \in [Plugins -> {"Running", "Paused"}]
    /\ \A p \in Plugins :
          /\ disk[p] \in Files => disk[p].id = p
          /\ current[p] # None => Shaped(current[p], p)
          /\ replacement[p] # None =>
                /\ Shaped(replacement[p], p) /\ replacement[p].vm
                /\ replacement[p].state \in {"Loading", "Retiring"}

\* No script that uses p runs or is about to.
Runs(s) == s.state \in {"Running", "Loading"}
NoneRuns(p) == \A q \in Plugins \ {p} : \A s \in Live(q) : Requires(s, p) => ~Runs(s)

\* A replacement that waits has a current script that is being retired, and will pause
\* only what nothing runs on.
Waits(p) == replacement[p] # None /\ replacement[p].state = "Loading"
Waiting ==
    \A p \in Plugins : Waits(p) =>
        /\ current[p] # None /\ current[p].state = "Retiring"
        /\ preserved[p] = "Paused" => NoneRuns(p)

IInv == Shape /\ DependenciesHold /\ Waiting

\* Once a plugin is known it stays known; so a plugin whose callback runs has a script.
Stays == \A p \in Plugins : current[p] # None => current'[p] # None
Called == stack \in Seq(Plugins) /\ \A i \in 1..Len(stack) : current[stack[i]] # None

-----------------------------------------------------------------------------
(* What can be reached.                                                    *)

Closed(C) == C \subseteq Plugins /\ \A p \in C : Edges(p) \subseteq C

\* A plugin that a closed set leaves out is not reached from inside the set.
LEMMA Outside ==
    ASSUME NEW from, NEW C, Closed(C), from \subseteq C, NEW q, q \notin C
    PROVE  q \notin Reach(from)
BY DEF Reach, Closed

\* What is reached is closed, and holds what it is reached from.
LEMMA ReachIsClosed ==
    ASSUME Shape, NEW from \in SUBSET Plugins
    PROVE  Closed(Reach(from)) /\ from \subseteq Reach(from)
<1>1. \A p \in Plugins : Edges(p) \subseteq Plugins
  BY DEF Edges, Needed
<1> QED
  BY <1>1 DEF Reach, Closed

\* A file needs plugins.
LEMMA NeedsArePlugins == \A f : Needed(f) \subseteq Plugins
BY DEF Needed

\* So do the scripts of a plugin.
LEMMA EdgesArePlugins == \A p : Edges(p) \subseteq Plugins
BY DEF Edges, Needed

\* A file whose dependencies do not reach its plugin closes no cycle.
LEMMA NoNewCycle ==
    ASSUME Shape, NoCycle, NEW p \in Plugins, NEW needed \in SUBSET Plugins,
           p \notin Reach(needed),
           \A q \in Plugins \ {p} : Edges(q)' = Edges(q),
           Edges(p)' \subseteq Edges(p) \cup needed
    PROVE  NoCycle'
<1>1. PICK R : R = Reach(needed)
  OBVIOUS
<1>2. Closed(R) /\ needed \subseteq R /\ p \notin R
  BY <1>1, ReachIsClosed
<1>3. ASSUME NEW q \in Plugins PROVE q \notin Reach(Edges(q))'
  <2>1. PICK C : C = Reach(Edges(q))
    OBVIOUS
  <2>2. Closed(C) /\ Edges(q) \subseteq C /\ q \notin C
    BY <2>1, ReachIsClosed, EdgesArePlugins DEF NoCycle
  <2>3. CASE p \notin C /\ q # p
    <3>1. C \subseteq Plugins /\ (\A r \in C : Edges(r)' \subseteq C) /\ Edges(q)' \subseteq C
      BY <2>2, <2>3 DEF Closed
    <3> QED
      BY <2>2, <3>1 DEF Reach
  <2>4. CASE p \in C \/ q = p
    <3>1. q \notin R
      <4>1. q \in R => C \subseteq R
        BY <1>2, <2>1 DEF Closed, Reach
      <4> QED
        BY <1>2, <2>4, <4>1
    <3>2. Edges(p)' \subseteq C \cup R
      BY <1>2, <2>2, <2>4 DEF Closed
    <3>3. \A r \in C \cup R : Edges(r)' \subseteq C \cup R
      BY <1>2, <2>2, <3>2 DEF Closed
    <3>4. C \cup R \subseteq Plugins /\ Edges(q)' \subseteq C \cup R /\ q \notin C \cup R
      BY <1>2, <2>2, <3>1, <3>2 DEF Closed
    <3> QED
      BY <3>3, <3>4 DEF Reach
  <2> QED
    BY <2>3, <2>4
<1> QED
  BY <1>3 DEF NoCycle

-----------------------------------------------------------------------------
(* One plugin changes.                                                     *)

\* What is known of a script that has a virtual machine.
LEMMA ScriptFields ==
    ASSUME NEW p \in Plugins, NEW s, Shaped(s, p), s.vm
    PROVE  /\ s.file \in Files /\ s.file.id = p
           /\ s.file.needs \in [Plugins -> Nat] /\ s.file.version \in Nat /\ ~Requires(s, p)
           /\ s.state \notin {"Disabled", "Failed"}
<1>1. s.file \in FileType /\ s.file.needs[s.file.id] = 0
  BY LifecycleAssumption DEF Shaped
<1> QED
  BY <1>1 DEF Shaped, FileType, Requires

\* Of the scripts of a plugin.
LEMMA LiveFields ==
    ASSUME Shape, NEW p \in Plugins, NEW s \in Live(p)
    PROVE  Shaped(s, p) /\ s.vm
BY DEF Live, Shape

\* The same, of the next state.
LEMMA LiveFieldsNext ==
    ASSUME Shape', NEW p \in Plugins, NEW s \in Live(p)'
    PROVE  Shaped(s, p) /\ s.vm
BY DEF Live, Shape

\* A dependency that runs has a virtual machine.
LEMMA RunsLive ==
    ASSUME Shape, NEW q \in Plugins, current[q] # None, current[q].state \in {"Running", "Paused"}
    PROVE  current[q].vm /\ current[q] \in Live(q)
BY DEF Shape, Shaped, Script, Live

\* Plugin p changes.  Its new scripts come from old ones, or from a file that has passed
\* CheckDependencies; and nobody uses it, or it is still what its dependents need.
Derived(s, p) ==
    \E t \in Live(p) : s.file = t.file /\ (s.state = t.state \/ ~Runs(s))
Unused(p) == \A q \in Plugins \ {p} : \A s \in Live(q) : ~Requires(s, p)
Serves(c, p) ==
    /\ c # None /\ c.vm
    /\ \A q \in Plugins \ {p} : \A s \in Live(q) : s.file.needs[p] <= c.file.version
    /\ c.state \in {"Running", "Retiring"} \/ NoneRuns(p)

\* Such a step keeps the invariant, whatever operation it is.
LEMMA OneChanges ==
    ASSUME IInv, Shape', NEW p \in Plugins, NEW f,
           \A q \in Plugins \ {p} : /\ current'[q] = current[q] /\ replacement'[q] = replacement[q]
                                    /\ preserved'[q] = preserved[q],
           current'[p] # None,
           \A s \in Live(p)' : Derived(s, p) \/ (s.file = f /\ f.id = p /\ CheckDependencies(f)),
           Unused(p) \/ Serves(current'[p], p),
           Waits(p)' => /\ current'[p] # None /\ current'[p].state = "Retiring"
                        /\ preserved'[p] = "Paused" => NoneRuns(p)
    PROVE  IInv' /\ Stays
<1>1. \A q \in Plugins \ {p} : Live(q)' = Live(q)
  BY DEF Live
<1>2. ASSUME NEW s \in Live(p)', NEW q \in Plugins, Requires(s, q)
      PROVE  /\ q # p /\ current[q] # None /\ current[q].vm /\ current[q].file.version >= s.file.needs[q]
             /\ Runs(s) => current[q].state \in {"Running", "Retiring"}
  <2>1. q # p
    BY <1>2, LiveFieldsNext, ScriptFields
  <2>2. CASE Derived(s, p)
    <3>1. PICK t \in Live(p) : s.file = t.file /\ (s.state = t.state \/ ~Runs(s))
      BY <2>2 DEF Derived
    <3>2. Requires(t, q)
      BY <1>2, <3>1 DEF Requires
    <3> QED
      BY <2>1, <3>1, <3>2 DEF IInv, DependenciesHold, DependenciesLoaded, RunningIsSupported, Runs
  <2>3. CASE s.file = f /\ CheckDependencies(f)
    <3>1. DependencyRuns(f, q)
      BY <1>2, <2>3 DEF CheckDependencies, Needed, Requires
    <3> QED
      BY <2>1, <2>3, <3>1, RunsLive DEF IInv, DependencyRuns
  <2> QED
    BY <2>2, <2>3
<1>3. DependenciesLoaded'
  <2> SUFFICES ASSUME NEW r \in Plugins, NEW q \in Plugins, NEW s \in Live(r)', Requires(s, q)
               PROVE  current'[q] # None /\ current'[q].vm /\ current'[q].file.version >= s.file.needs[q]
    BY DEF DependenciesLoaded, Requires
  <2>1. CASE r = p
    BY <1>2, <2>1
  <2>2. CASE r # p /\ q = p
    <3>1. s \in Live(r) /\ s.file.needs[p] \in Nat /\ Serves(current'[p], p)
      BY <1>1, <2>2, LiveFields, ScriptFields DEF IInv, Unused
    <3>2. current'[p] # None /\ current'[p].vm /\ s.file.needs[p] <= current'[p].file.version
      BY <2>2, <3>1 DEF Serves
    <3>3. current'[p].file.version \in Nat
      BY <3>2, ScriptFields DEF Shape
    <3> QED
      BY <2>2, <3>1, <3>2, <3>3
  <2>3. CASE r # p /\ q # p
    BY <1>1, <2>3 DEF IInv, DependenciesHold, DependenciesLoaded
  <2> QED
    BY <2>1, <2>2, <2>3
<1>4. RunningIsSupported'
  <2> SUFFICES ASSUME NEW r \in Plugins, NEW q \in Plugins, NEW s \in Live(r)', Requires(s, q), Runs(s)
               PROVE  current'[q].state \in {"Running", "Retiring"}
    BY DEF RunningIsSupported, Requires, Runs
  <2>1. CASE r = p
    BY <1>2, <2>1
  <2>2. CASE r # p /\ q = p
    BY <1>1, <2>2 DEF Unused, Serves, NoneRuns
  <2>3. CASE r # p /\ q # p
    BY <1>1, <2>3 DEF IInv, DependenciesHold, RunningIsSupported, Runs
  <2> QED
    BY <2>1, <2>2, <2>3
<1>5. NoCycle'
  <2>1. \A q \in Plugins \ {p} : Edges(q)' = Edges(q)
    BY <1>1 DEF Edges
  <2>2. CASE \E s \in Live(p)' : s.file = f /\ f.id = p /\ CheckDependencies(f)
    <3>1. p \notin Reach(Needed(f)) /\ Needed(f) \in SUBSET Plugins
      BY <2>2, NeedsArePlugins DEF CheckDependencies, Cyclic
    <3>2. Edges(p)' \subseteq Edges(p) \cup Needed(f)
      BY DEF Edges, Derived
    <3> QED
      BY <2>1, <3>1, <3>2, NoNewCycle DEF IInv, DependenciesHold
  <2>3. CASE \A s \in Live(p)' : Derived(s, p)
    <3>1. Edges(p)' \subseteq Edges(p) \cup {}
      BY <2>3 DEF Edges, Derived
    <3>2. p \notin Reach({})
      <4>1. Closed({})
        BY DEF Closed
      <4> QED
        BY <4>1, Outside
    <3> QED
      BY <2>1, <3>1, <3>2, NoNewCycle DEF IInv, DependenciesHold
  <2> QED
    BY <2>2, <2>3
<1>6. Waiting'
  <2> SUFFICES ASSUME NEW q \in Plugins, Waits(q)'
               PROVE  /\ current'[q] # None /\ current'[q].state = "Retiring"
                      /\ preserved'[q] = "Paused" => NoneRuns(q)'
    BY DEF Waiting
  <2>1. CASE q = p
    BY <1>1, <2>1 DEF NoneRuns
  <2>2. CASE q # p
    <3>1. /\ Waits(q) /\ current'[q] # None /\ current'[q].state = "Retiring"
          /\ preserved'[q] = "Paused" => NoneRuns(q)
      BY <2>2 DEF IInv, Waiting, Waits
    <3>2. ASSUME preserved'[q] = "Paused", NEW s \in Live(p)', Requires(s, q) PROVE ~Runs(s)
      <4>1. CASE Derived(s, p)
        BY <2>2, <3>1, <3>2, <4>1 DEF Derived, NoneRuns, Requires, Runs
      <4>2. CASE s.file = f /\ CheckDependencies(f)
        BY <2>2, <3>1, <3>2, <4>2 DEF CheckDependencies, DependencyRuns, Needed, Requires
      <4> QED
        BY <4>1, <4>2
    <3> QED
      BY <1>1, <2>2, <3>1, <3>2 DEF NoneRuns, Requires, Runs
  <2> QED
    BY <2>1, <2>2
<1> QED
  BY <1>3, <1>4, <1>5, <1>6 DEF IInv, DependenciesHold, Stays

\* Nothing changes but scripts without a virtual machine, which nobody uses and which
\* use nobody.
LEMMA OnlyShells ==
    ASSUME IInv, Shape', UNCHANGED <<replacement, preserved>>,
           \A p \in Plugins :
              \/ current'[p] = current[p]
              \/ /\ (current[p] = None \/ ~current[p].vm) /\ ~Waits(p)
                 /\ current'[p] # None /\ ~current'[p].vm
    PROVE  IInv' /\ Stays
<1>1. \A p \in Plugins : Live(p)' = Live(p)
  BY DEF Live
<1>2. DependenciesLoaded'
  BY <1>1 DEF IInv, DependenciesHold, DependenciesLoaded
<1>3. RunningIsSupported'
  BY <1>1 DEF IInv, DependenciesHold, DependenciesLoaded, RunningIsSupported
<1>4. NoCycle'
  <2>1. \A p \in Plugins : Edges(p)' = Edges(p)
    BY <1>1 DEF Edges
  <2> QED
    BY <2>1 DEF IInv, DependenciesHold, NoCycle, Reach
<1>5. Waiting'
  BY <1>1 DEF IInv, Waiting, Waits, NoneRuns
<1> QED
  BY <1>2, <1>3, <1>4, <1>5 DEF IInv, DependenciesHold, Stays

-----------------------------------------------------------------------------
(* Cleanup and Prepare.                                                    *)

\* What is registered and shown says nothing of the rest of a script.
LEMMA CleanedFields ==
    ASSUME NEW p \in Plugins, NEW s, Shaped(s, p), NEW others, NEW t \in Cleaned(Retire(s), others)
    PROVE  /\ t \in Script /\ t.state = "Retiring"
           /\ t.vm => s.vm /\ t.file = s.file
           /\ Shaped(t, p)
<1>1. Retire(s) \in Script /\ Retire(s).vm = s.vm /\ Retire(s).file = s.file /\ Retire(s).state = "Retiring"
  BY DEF Retire, Shaped, Script
<1>2. PICK r : r = Retire(s)
  OBVIOUS
<1>3. /\ Shell("Retiring") \in Script /\ ~Shell("Retiring").vm
      /\ Shell("Retiring").state = "Retiring"
  BY LifecycleAssumption DEF Shell, Script
<1>4. CASE t = Shell(r.state)
  BY <1>1, <1>2, <1>3, <1>4 DEF Shaped
<1>5. CASE t # Shell(r.state)
  <2>1. t \in Script /\ t.vm = r.vm /\ t.file = r.file /\ t.state = r.state
    <3>1. PICK u : u = [r EXCEPT !.stopped = @ \/ r.vm]
      OBVIOUS
    <3>2. u \in Script /\ u.vm = r.vm /\ u.file = r.file /\ u.state = r.state
      BY <1>1, <1>2, <3>1 DEF Script
    <3>3. t = u \/ \E stuck \in SUBSET MayStick(r, others) : t = [u EXCEPT !.held = stuck, !.shown = FALSE]
      BY <1>2, <1>5, <3>1 DEF Cleaned
    <3>4. MayStick(r, others) \subseteq Names
      BY <1>1, <1>2 DEF MayStick, Script
    <3> QED
      BY <3>2, <3>3, <3>4 DEF Script
  <2> QED
    BY <1>1, <1>2, <2>1 DEF Shaped
<1> QED
  BY <1>4, <1>5

\* A candidate is loading, or failed and is gone, or failed and is retained.
LEMMA PreparedFields ==
    ASSUME NEW f \in Files, f.id \in Plugins, NEW c \in Prepared(f)
    PROVE  /\ Shaped(c, f.id) /\ c # None
           /\ \/ c.vm /\ c.file = f /\ c.state \in {"Loading", "Retiring"}
              \/ ~c.vm /\ c.state = "Failed"
<1>1. /\ Shell("Failed") \in Script /\ ~Shell("Failed").vm /\ Shell("Failed").state = "Failed"
      /\ Shell("Loading") \in Script
  BY LifecycleAssumption DEF Shell, Script
<1>2. CASE c = Shell("Failed")
  BY <1>1, <1>2, NoneAssumption DEF Shaped
<1>3. CASE c # Shell("Failed")
  <2> DEFINE new == [Shell("Loading") EXCEPT !.file = f, !.vm = TRUE]
             failed == [new EXCEPT !.state = "Retiring", !.stopped = TRUE]
  <2>1. /\ new \in Script /\ new.vm /\ new.file = f /\ new.state = "Loading"
        /\ failed \in Script /\ failed.vm /\ failed.file = f /\ failed.state = "Retiring"
    BY <1>1 DEF Script, Shell
  <2>2. Available(f.id) \subseteq Names
    BY DEF Available
  <2>3. [new EXCEPT !.held = Available(f.id)].held = Available(f.id)
    BY <2>1 DEF Script
  <2>4. \/ \E H \in SUBSET Available(f.id) : c = [new EXCEPT !.held = H]
        \/ \E stuck \in SUBSET Available(f.id) : c = [failed EXCEPT !.held = stuck]
    BY <1>3, <2>3 DEF Prepared, MayStick
  <2> HIDE DEF new, failed
  <2>5. c \in Script /\ c.vm /\ c.file = f /\ c.state \in {"Loading", "Retiring"}
    BY <2>1, <2>2, <2>4 DEF Script
  <2> QED
    BY <2>5, NoneAssumption DEF Shaped
<1> QED
  BY <1>2, <1>3

\* What Cleanup leaves of a current script.
LEMMA CleanupFields ==
    ASSUME Shape, NEW p \in Plugins, current[p] # None, NEW others, NEW s \in Cleanup(p, others)
    PROVE  /\ Shaped(s, p) /\ s # None /\ s.state = "Retiring"
           /\ s.vm => current[p].vm /\ s.file = current[p].file
<1>1. Shaped(current[p], p)
  BY DEF Shape
<1>2. CASE s \in Cleaned(Retire(current[p]), others)
  BY <1>1, <1>2, CleanedFields, NoneAssumption DEF Shaped
<1>3. CASE s = Retire(current[p])
  BY <1>1, <1>3, NoneAssumption DEF Retire, Shaped, Script
<1> QED
  BY <1>2, <1>3 DEF Cleanup

-----------------------------------------------------------------------------
(* The operations.  The loops take a plugin from their own state: one that is not among  *)
(* the plugins would change nothing, so what the loops remember need not be known.       *)

\* The next state has the shape it should when one plugin gets scripts that do.
LEMMA ShapeOne ==
    ASSUME Shape, NEW p, NEW x, NEW y,
           current' = [current EXCEPT ![p] = x], replacement' = [replacement EXCEPT ![p] = y],
           disk' = disk, preserved' \in [Plugins -> {"Running", "Paused"}],
           p \in Plugins => /\ x = None \/ Shaped(x, p)
                            /\ y = None \/ (/\ Shaped(y, p) /\ y.vm
                                            /\ y.state \in {"Loading", "Retiring"})
    PROVE  Shape'
<1>1. \A q \in Plugins : /\ current'[q] = IF q = p THEN x ELSE current[q]
                         /\ replacement'[q] = IF q = p THEN y ELSE replacement[q]
  BY DEF Shape
<1>2. /\ current' \in [Plugins -> Script \cup {None}]
      /\ replacement' \in [Plugins -> Script \cup {None}]
  <2>1. p \in Plugins => x \in Script \cup {None} /\ y \in Script \cup {None}
    BY DEF Shaped
  <2>2. \A q \in Plugins : current[q] \in Script \cup {None} /\ replacement[q] \in Script \cup {None}
    BY DEF Shape
  <2>3. /\ current' = [q \in Plugins |-> current'[q]]
        /\ replacement' = [q \in Plugins |-> replacement'[q]]
    BY DEF Shape
  <2> QED
    BY <1>1, <2>1, <2>2, <2>3
<1> QED
  BY <1>1, <1>2 DEF Shape

\* The plugin is none.
LEMMA NoPlugin ==
    ASSUME IInv, UNCHANGED <<disk, current, replacement, preserved>>
    PROVE  IInv' /\ Stays
<1>1. Shape'
  BY DEF IInv, Shape
<1> QED
  BY <1>1, OnlyShells

\* A script without a virtual machine is used by nobody.
LEMMA ShellUnused ==
    ASSUME IInv, NEW p \in Plugins, current[p] = None \/ ~current[p].vm
    PROVE  Unused(p)
BY DEF IInv, DependenciesHold, DependenciesLoaded, Unused

\* As long as its file stays, a script serves those who use it; if it is paused none of
\* them runs.
LEMMA StillServes ==
    ASSUME IInv, NEW p \in Plugins, current[p] # None, NEW x, x # None,
           x.vm = current[p].vm, x.vm => x.file = current[p].file,
           \/ x.state = current[p].state \/ x.state \in {"Running", "Retiring"} \/ NoneRuns(p)
    PROVE  Unused(p) \/ Serves(x, p)
<1> SUFFICES ASSUME ~Unused(p) PROVE Serves(x, p)
  OBVIOUS
<1>1. current[p].vm /\ Shaped(current[p], p)
  BY ShellUnused DEF IInv, Shape
<1>2. current[p].file.version \in Nat
  BY <1>1, ScriptFields
<1>3. ASSUME NEW q \in Plugins \ {p}, NEW s \in Live(q) PROVE s.file.needs[p] <= x.file.version
  <2>1. s.file.needs[p] \in Nat
    BY LiveFields, ScriptFields DEF IInv
  <2>2. CASE Requires(s, p)
    BY <1>1, <1>2, <2>1, <2>2 DEF IInv, DependenciesHold, DependenciesLoaded
  <2>3. CASE ~Requires(s, p)
    BY <1>1, <1>2, <2>1, <2>3 DEF Requires
  <2> QED
    BY <2>2, <2>3
<1>4. x.state \in {"Running", "Retiring"} \/ NoneRuns(p)
  BY DEF IInv, DependenciesHold, RunningIsSupported, NoneRuns, Runs
<1> QED
  BY <1>1, <1>3, <1>4 DEF Serves

\* A script changes in nothing but what it holds and shows, or is to be retired.
LEMMA Touched ==
    ASSUME IInv, NEW p \in Plugins, current[p] # None, NEW x \in Script,
           x.file = current[p].file, x.vm = current[p].vm,
           x.state = current[p].state \/ x.state = "Retiring",
           current' = [current EXCEPT ![p] = x], UNCHANGED <<disk, replacement, preserved>>
    PROVE  IInv' /\ Stays
<1>1. Shaped(x, p) /\ x # None
  BY NoneAssumption DEF IInv, Shape, Shaped
<1>2. replacement' = [replacement EXCEPT ![p] = replacement[p]]
  BY DEF IInv, Shape
<1>3. Shape'
  BY <1>1, <1>2, ShapeOne DEF IInv, Shape
<1>4. current'[p] = x /\ \A q \in Plugins \ {p} : current'[q] = current[q]
  BY DEF IInv, Shape
<1>5. \A s \in Live(p)' : Derived(s, p)
  BY <1>4 DEF Live, Derived, Runs
<1>6. Unused(p) \/ Serves(current'[p], p)
  BY <1>1, <1>4, StillServes
<1>7. Waits(p)' => /\ current'[p].state = "Retiring"
                   /\ preserved'[p] = "Paused" => NoneRuns(p)
  BY <1>4 DEF IInv, Waiting, Waits
<1> QED
  BY <1>1, <1>3, <1>4, <1>5, <1>6, <1>7, OneChanges

-----------------------------------------------------------------------------
(* Load, Unload and Reload.                                                *)

\* A failure that is recorded takes the place of no script that is loaded.
LEMMA RecordFailureKeeps ==
    ASSUME IInv, NEW P, RecordFailure(P), UNCHANGED <<disk, replacement, preserved>>
    PROVE  IInv' /\ Stays
<1>1. /\ Shell("Failed") \in Script /\ ~Shell("Failed").vm /\ Shell("Failed").state = "Failed"
      /\ Shell("Failed") # None
  <2>1. Shell("Failed") \in Script
    BY LifecycleAssumption DEF Shell, Script
  <2> QED
    BY <2>1, NoneAssumption DEF Shell
<1>2. \A p \in Plugins : Shaped(Shell("Failed"), p)
  BY <1>1 DEF Shaped
<1>3. \A p \in Plugins :
          \/ current'[p] = current[p]
          \/ /\ current[p] = None \/ ~current[p].vm
             /\ replacement[p] = None /\ current'[p] = Shell("Failed")
  BY DEF RecordFailure, IInv, Shape, Shaped
<1>4. current' \in [Plugins -> Script \cup {None}]
  BY <1>1 DEF RecordFailure, IInv, Shape, Shaped
<1>5. Shape'
  BY <1>2, <1>3, <1>4 DEF IInv, Shape
<1> QED
  BY <1>1, <1>3, <1>5, OnlyShells DEF Waits

\* The candidate takes the place of no script, or of one without a virtual machine.
LEMMA LoadKeeps ==
    ASSUME IInv, NEW p, LoadScript(p), UNCHANGED <<disk, replacement, preserved>>
    PROVE  IInv' /\ Stays
<1>1. CASE RecordFailure({p})
  BY <1>1, RecordFailureKeeps
<1>2. ASSUME Acceptable(p), NEW c \in Prepared(disk[p]), NEW x,
             current' = [current EXCEPT ![p] = x],
             \/ c.state = "Loading" /\ x = [c EXCEPT !.state = "Running"]
             \/ c.state # "Loading" /\ x = c
      PROVE  IInv' /\ Stays
  <2>1. CASE p \notin Plugins
    BY <1>2, <2>1, NoPlugin DEF IInv, Shape
  <2>2. CASE p \in Plugins
    <3>1. disk[p] \in Files /\ disk[p].id = p /\ CheckDependencies(disk[p]) /\ Loadable(p)
      BY <1>2, <2>2 DEF Acceptable, IInv, Shape
    <3>2. Shaped(c, p) /\ (c.vm => c.file = disk[p] /\ c.state \in {"Loading", "Retiring"})
      BY <1>2, <2>2, <3>1, PreparedFields
    <3>3. Shaped(x, p) /\ x # None /\ (x.vm => x.file = disk[p])
      BY <1>2, <3>2, NoneAssumption DEF Shaped, Script
    <3>4. replacement' = [replacement EXCEPT ![p] = replacement[p]]
      BY DEF IInv, Shape
    <3>5. Shape'
      <4>1. Shape /\ preserved' \in [Plugins -> {"Running", "Paused"}]
        BY DEF IInv, Shape
      <4>2. replacement[p] = None \/ (/\ Shaped(replacement[p], p) /\ replacement[p].vm
                                      /\ replacement[p].state \in {"Loading", "Retiring"})
        BY <2>2 DEF IInv, Shape
      <4> QED
        BY <1>2, <3>3, <3>4, <4>1, <4>2, ShapeOne
    <3>6. current'[p] = x /\ \A q \in Plugins \ {p} : current'[q] = current[q]
      BY <1>2, <2>2 DEF IInv, Shape
    <3>7. \A s \in Live(p)' : Derived(s, p) \/ s.file = disk[p]
      BY <3>3, <3>6 DEF Live, Derived
    <3>8. Unused(p) /\ ~Waits(p)
      BY <2>2, <3>1, ShellUnused DEF Loadable, IInv, Shape, Shaped, Waiting
    <3> QED
      BY <2>2, <3>1, <3>3, <3>5, <3>6, <3>7, <3>8, OneChanges DEF Waits
  <2> QED
    BY <2>1, <2>2
<1> QED
  BY <1>1, <1>2 DEF LoadScript

\* Nobody uses what is unloaded.
LEMMA UnloadKeeps ==
    ASSUME IInv, NEW p, UnloadScript(p), UNCHANGED <<disk, preserved>>
    PROVE  IInv' /\ Stays
<1>1. CASE p \notin Plugins
  <2>1. UNCHANGED <<current, replacement>>
    BY <1>1 DEF UnloadScript, IInv, Shape
  <2> QED
    BY <2>1, NoPlugin
<1>2. CASE p \in Plugins
  <2>1. Unused(p) /\ current[p] # None
    BY DEF UnloadScript, Dependents, Unused
  <2>2. ASSUME NEW r, NEW others, replacement[p] # None, r \in Cleaned(Retire(replacement[p]), others),
               r.vm, replacement' = [replacement EXCEPT ![p] = r], UNCHANGED current
        PROVE  IInv' /\ Stays
    <3>1. Shaped(r, p) /\ r.state = "Retiring" /\ r.file = replacement[p].file /\ replacement[p].vm
      BY <1>2, <2>2, CleanedFields DEF IInv, Shape
    <3>2. current' = [current EXCEPT ![p] = current[p]]
      BY <2>2 DEF IInv, Shape
    <3>3. Shape'
      BY <1>2, <2>2, <3>1, <3>2, ShapeOne DEF IInv, Shape
    <3>4. replacement'[p] = r /\ \A q \in Plugins \ {p} : replacement'[q] = replacement[q]
      BY <1>2, <2>2 DEF IInv, Shape
    <3>5. \A s \in Live(p)' : Derived(s, p)
      BY <2>2, <3>1, <3>4 DEF Live, Derived, Runs
    <3> QED
      BY <1>2, <2>1, <2>2, <3>1, <3>3, <3>4, <3>5, OneChanges DEF Waits
  <2>3. ASSUME NEW others, NEW s \in Cleanup(p, others), NEW x,
               x = (IF s.vm THEN s ELSE [s EXCEPT !.state = "Disabled"]),
               current' = [current EXCEPT ![p] = x], replacement' = [replacement EXCEPT ![p] = None]
        PROVE  IInv' /\ Stays
    <3>1. Shaped(s, p) /\ s # None /\ s.state = "Retiring"
          /\ (s.vm => current[p].vm /\ s.file = current[p].file)
      BY <1>2, <2>1, CleanupFields DEF IInv
    <3>2. Shaped(x, p) /\ x # None /\ (x.vm => x = s)
      BY <2>3, <3>1, NoneAssumption DEF Shaped, Script
    <3>3. Shape'
      BY <1>2, <2>3, <3>2, ShapeOne DEF IInv, Shape
    <3>4. /\ current'[p] = x /\ replacement'[p] = None
          /\ \A q \in Plugins \ {p} : current'[q] = current[q] /\ replacement'[q] = replacement[q]
      BY <1>2, <2>3 DEF IInv, Shape
    <3>5. \A t \in Live(p)' : Derived(t, p)
      BY <2>1, <3>1, <3>2, <3>4 DEF Live, Derived, Runs
    <3> QED
      BY <1>2, <2>1, <3>2, <3>3, <3>4, <3>5, OneChanges DEF Waits
  <2> QED
    BY <2>2, <2>3 DEF UnloadScript
<1> QED
  BY <1>1, <1>2

\* What those who use p need of a later version: KeepsPromises is asked of c, not of them.
LEMMA ActivateKeeps ==
    ASSUME IInv, NEW p \in Plugins, current[p] # None,
           NEW c, Shaped(c, p), c.vm, c # None, c.state = "Loading", CheckDependencies(c.file),
           replacement[p] # None => replacement[p] = c,
           preserved' \in [Plugins -> {"Running", "Paused"}],
           \A q \in Plugins \ {p} : preserved'[q] = preserved[q],
           preserved'[p] = "Paused" => NoneRuns(p),
           NEW known, Activate(p, c, known), disk' = disk
    PROVE  IInv' /\ Stays
<1>1. c.file.id = p /\ c.file \in Files
  BY DEF Shaped
<1>2. PICK others, s :
          /\ s \in Cleanup(p, others)
          /\ \/ /\ s.vm
                /\ current' = [current EXCEPT ![p] = s] /\ replacement' = [replacement EXCEPT ![p] = c]
             \/ /\ ~s.vm
                /\ current' = [current EXCEPT ![p] = [c EXCEPT !.state = preserved'[p]]]
                /\ replacement' = [replacement EXCEPT ![p] = None]
  BY DEF Activate
<1>3. /\ Shaped(s, p) /\ s # None /\ s.state = "Retiring"
      /\ s.vm => current[p].vm /\ s.file = current[p].file
  BY <1>2, CleanupFields DEF IInv
<1>4. CASE /\ s.vm
           /\ current' = [current EXCEPT ![p] = s] /\ replacement' = [replacement EXCEPT ![p] = c]
  <2>1. Shape'
    BY <1>3, <1>4, ShapeOne DEF IInv
  <2>2. /\ current'[p] = s /\ replacement'[p] = c
        /\ \A q \in Plugins \ {p} : current'[q] = current[q] /\ replacement'[q] = replacement[q]
    BY <1>4 DEF IInv, Shape
  <2>3. \A t \in Live(p)' : Derived(t, p) \/ t.file = c.file
    BY <1>3, <1>4, <2>2 DEF Live, Derived, Runs
  <2>4. Unused(p) \/ Serves(current'[p], p)
    BY <1>3, <1>4, <2>2, StillServes
  <2> QED
    BY <1>1, <1>3, <2>1, <2>2, <2>3, <2>4, OneChanges
<1>5. CASE /\ ~s.vm
           /\ current' = [current EXCEPT ![p] = [c EXCEPT !.state = preserved'[p]]]
           /\ replacement' = [replacement EXCEPT ![p] = None]
  <2>1. PICK x : x = [c EXCEPT !.state = preserved'[p]]
    OBVIOUS
  <2>2. x \in Script /\ x.vm /\ x.file = c.file /\ x.state = preserved'[p]
        /\ x.state \in {"Running", "Paused"}
    BY <2>1 DEF Shaped, Script
  <2>3. Shaped(x, p) /\ x # None
    BY <2>2, NoneAssumption DEF Shaped
  <2>4. Shape'
    BY <1>5, <2>1, <2>3, ShapeOne DEF IInv
  <2>5. /\ current'[p] = x /\ replacement'[p] = None
        /\ \A q \in Plugins \ {p} : current'[q] = current[q] /\ replacement'[q] = replacement[q]
    BY <1>5, <2>1 DEF IInv, Shape
  <2>6. \A t \in Live(p)' : t.file = c.file
    BY <2>2, <2>5 DEF Live
  <2>7. Serves(current'[p], p)
    BY <1>1, <2>2, <2>3, <2>5 DEF Serves, CheckDependencies, KeepsPromises
  <2> QED
    BY <1>1, <2>3, <2>4, <2>5, <2>6, <2>7, OneChanges DEF Waits
<1> QED
  BY <1>2, <1>4, <1>5

\* What the operator sees of a paused plugin: nothing runs that uses it.
LEMMA PausedMeansNone ==
    ASSUME IInv, NEW p \in Plugins, current[p] # None, current[p].state = "Paused"
    PROVE  NoneRuns(p)
BY DEF IInv, DependenciesHold, RunningIsSupported, NoneRuns, Runs

\* A reload prepares a candidate: it takes over, waits, fails, or is retained.
LEMMA PrepareKeeps ==
    ASSUME IInv, NEW p \in Plugins, current[p] # None, ReloadPrepare(p), disk' = disk
    PROVE  IInv' /\ Stays
<1>1. /\ disk[p] \in Files /\ disk[p].id = p /\ CheckDependencies(disk[p]) /\ replacement[p] = None
      /\ preserved' = [preserved EXCEPT ![p] = Inherited(p)]
  BY DEF ReloadPrepare, IInv, Shape
<1>2. /\ preserved' \in [Plugins -> {"Running", "Paused"}] /\ preserved'[p] = Inherited(p)
      /\ \A q \in Plugins \ {p} : preserved'[q] = preserved[q]
  BY <1>1 DEF Inherited, IInv, Shape
<1>3. preserved'[p] = "Paused" => NoneRuns(p)
  BY <1>2, PausedMeansNone DEF Inherited
<1>4. PICK c \in Prepared(disk[p]) :
          \/ c.state = "Loading" /\ Activate(p, c, registered \cup c.held)
          \/ c.state = "Failed" /\ UNCHANGED <<current, replacement>>
          \/ /\ c.state = "Retiring"
             /\ replacement' = [replacement EXCEPT ![p] = c] /\ UNCHANGED current
  BY DEF ReloadPrepare
<1>5. /\ Shaped(c, p) /\ c # None
      /\ \/ c.vm /\ c.file = disk[p] /\ c.state \in {"Loading", "Retiring"}
         \/ ~c.vm /\ c.state = "Failed"
  BY <1>1, PreparedFields
<1>6. CASE c.state = "Loading" /\ Activate(p, c, registered \cup c.held)
  BY <1>1, <1>2, <1>3, <1>5, <1>6, ActivateKeeps
<1>7. Unused(p) \/ Serves(current[p], p)
  BY StillServes
<1>8. CASE c.state = "Failed" /\ UNCHANGED <<current, replacement>>
  <2>1. Shape'
    BY <1>2, <1>8 DEF IInv, Shape
  <2>2. \A s \in Live(p)' : Derived(s, p)
    BY <1>8 DEF Live, Derived
  <2>3. ~Waits(p)'
    BY <1>1, <1>8 DEF Waits
  <2> QED
    BY <1>2, <1>7, <1>8, <2>1, <2>2, <2>3, OneChanges
<1>9. CASE /\ c.state = "Retiring"
            /\ replacement' = [replacement EXCEPT ![p] = c] /\ UNCHANGED current
  <2>1. c.vm /\ c.file = disk[p]
    BY <1>5, <1>9
  <2>2. current' = [current EXCEPT ![p] = current[p]]
    BY <1>9 DEF IInv, Shape
  <2>3. Shaped(current[p], p)
    BY DEF IInv, Shape
  <2>4. Shape'
    BY <1>2, <1>5, <1>9, <2>1, <2>2, <2>3, ShapeOne DEF IInv
  <2>5. replacement'[p] = c /\ \A q \in Plugins \ {p} : replacement'[q] = replacement[q]
    BY <1>9 DEF IInv, Shape
  <2>6. \A s \in Live(p)' : Derived(s, p) \/ s.file = disk[p]
    BY <1>9, <2>1, <2>5 DEF Live, Derived
  <2> QED
    BY <1>1, <1>2, <1>7, <1>9, <2>4, <2>5, <2>6, OneChanges DEF Waits
<1> QED
  BY <1>4, <1>6, <1>8, <1>9

\* A candidate that failed earlier uses what it used, or nothing.
LEMMA CleanKeeps ==
    ASSUME IInv, NEW p \in Plugins, current[p] # None, ReloadClean(p), disk' = disk
    PROVE  IInv' /\ Stays
<1>1. PICK others, r : /\ r \in Cleaned(replacement[p], others)
                       /\ replacement' = [replacement EXCEPT ![p] = IF r.vm THEN r ELSE None]
  BY DEF ReloadClean
<1>2. /\ Shaped(replacement[p], p) /\ replacement[p].state = "Retiring" /\ replacement[p].vm
      /\ replacement[p] \in Live(p)
  BY DEF ReloadClean, IInv, Shape, Live
<1>3. Retire(replacement[p]) = replacement[p]
  BY <1>2 DEF Retire, Shaped, Script
<1>4. Shaped(r, p) /\ r.state = "Retiring" /\ (r.vm => r.file = replacement[p].file)
  BY <1>1, <1>2, <1>3, CleanedFields
<1>5. /\ current' = [current EXCEPT ![p] = current[p]] /\ current' = current /\ preserved' = preserved
      /\ preserved' \in [Plugins -> {"Running", "Paused"}] /\ Shaped(current[p], p)
  BY DEF ReloadClean, IInv, Shape
<1>6. Shape'
  BY <1>1, <1>4, <1>5, ShapeOne DEF IInv
<1>7. /\ replacement'[p] = IF r.vm THEN r ELSE None
      /\ \A q \in Plugins \ {p} : replacement'[q] = replacement[q]
  BY <1>1 DEF IInv, Shape
<1>8. \A s \in Live(p)' : Derived(s, p)
  BY <1>2, <1>4, <1>5, <1>7 DEF Live, Derived
<1>9. Unused(p) \/ Serves(current'[p], p)
  BY <1>5, StillServes
<1>10. ~Waits(p)'
  BY <1>4, <1>7 DEF Waits
<1> QED
  BY <1>5, <1>6, <1>7, <1>8, <1>9, <1>10, OneChanges

\* The three ways a reload goes on.
LEMMA ReloadKeeps ==
    ASSUME IInv, NEW p, ReloadScript(p), disk' = disk
    PROVE  IInv' /\ Stays
<1>1. CASE p \notin Plugins
  <2>1. \A x : /\ [current EXCEPT ![p] = x] = current /\ [replacement EXCEPT ![p] = x] = replacement
               /\ [preserved EXCEPT ![p] = x] = preserved
    BY <1>1 DEF IInv, Shape
  <2>2. ASSUME NEW c, NEW known, Activate(p, c, known) PROVE UNCHANGED <<current, replacement>>
    BY <2>1, <2>2 DEF Activate
  <2>3. UNCHANGED <<current, replacement, preserved>>
    <3>1. CASE ReloadPrepare(p)
      BY <2>1, <2>2, <3>1 DEF ReloadPrepare
    <3>2. CASE ReloadClean(p)
      BY <2>1, <3>2 DEF ReloadClean
    <3>3. CASE ReloadActivate(p)
      BY <2>2, <3>3 DEF ReloadActivate
    <3> QED
      BY <3>1, <3>2, <3>3 DEF ReloadScript
  <2> QED
    BY <2>3, NoPlugin
<1>2. CASE p \in Plugins /\ ReloadActivate(p)
  <2>1. /\ current[p] # None /\ Waits(p) /\ CheckDependencies(replacement[p].file)
        /\ Activate(p, replacement[p], registered) /\ preserved' = preserved
    BY <1>2 DEF ReloadScript, ReloadActivate, Waits
  <2>2. /\ Shaped(replacement[p], p) /\ replacement[p].vm /\ replacement[p] # None
        /\ replacement[p].state = "Loading" /\ preserved \in [Plugins -> {"Running", "Paused"}]
    BY <1>2, <2>1 DEF IInv, Shape, Waits
  <2>3. preserved[p] = "Paused" => NoneRuns(p)
    BY <1>2, <2>1 DEF IInv, Waiting
  <2> QED
    BY <1>2, <2>1, <2>2, <2>3, ActivateKeeps
<1>3. CASE p \in Plugins /\ ~ReloadActivate(p)
  BY <1>3, PrepareKeeps, CleanKeeps DEF ReloadScript
<1> QED
  BY <1>1, <1>2, <1>3

-----------------------------------------------------------------------------
(* Pause, Resume, files and callbacks.                                     *)

\* A running script changes between running and paused.
LEMMA Switched ==
    ASSUME IInv, NEW p \in Plugins, current[p] # None, replacement[p] = None,
           current[p].state \in {"Running", "Paused"}, NEW state \in {"Running", "Paused"},
           NEW shown \in BOOLEAN,
           current' = [current EXCEPT ![p] = [current[p] EXCEPT !.state = state, !.shown = shown]],
           state = "Running" => CheckDependencies(current[p].file),
           state = "Paused" => NoneRuns(p),
           UNCHANGED <<disk, replacement, preserved>>
    PROVE  IInv' /\ Stays
<1>1. PICK x : x = [current[p] EXCEPT !.state = state, !.shown = shown]
  OBVIOUS
<1>2. Shaped(current[p], p) /\ current[p].vm
  BY RunsLive DEF IInv, Shape
<1>3. x \in Script /\ x.vm /\ x.file = current[p].file /\ x.state = state
  BY <1>1, <1>2 DEF Shaped, Script
<1>4. Shaped(x, p) /\ x # None
  BY <1>2, <1>3, NoneAssumption DEF Shaped
<1>5. replacement' = [replacement EXCEPT ![p] = replacement[p]]
      /\ preserved' \in [Plugins -> {"Running", "Paused"}]
  BY DEF IInv, Shape
<1>6. Shape'
  BY <1>1, <1>4, <1>5, ShapeOne DEF IInv
<1>7. current'[p] = x /\ \A q \in Plugins \ {p} : current'[q] = current[q]
  BY <1>1 DEF IInv, Shape
<1>8. x \in Live(p)' /\ Live(p)' = {x} /\ current[p] \in Live(p)
  BY <1>2, <1>3, <1>4, <1>7 DEF Live
<1>9. \A s \in Live(p)' : Derived(s, p) \/ (s.file = current[p].file /\ CheckDependencies(current[p].file))
  BY <1>3, <1>8 DEF Derived, Runs
<1>10. Unused(p) \/ Serves(current'[p], p)
  BY <1>2, <1>3, <1>4, <1>7, StillServes
<1>11. current[p].file.id = p
  BY <1>2 DEF Shaped
<1> QED
  BY <1>4, <1>6, <1>7, <1>9, <1>10, <1>11, OneChanges DEF Waits

\* Pause asks that nothing that is not paused uses the plugin.
LEMMA PauseKeeps ==
    ASSUME IInv, NEW p \in Plugins, Pause(p)
    PROVE  IInv' /\ Stays
<1>1. PICK shown \in {FALSE, current[p].shown} :
          current' = [current EXCEPT ![p].state = "Paused", ![p].shown = shown]
  BY DEF Pause
<1>2. /\ current[p] # None /\ replacement[p] = None /\ current[p].state \in {"Running", "Paused"}
      /\ UNCHANGED <<disk, replacement, preserved>>
  BY DEF Pause
<1>3. current[p] \in Script /\ shown \in BOOLEAN
  BY <1>2 DEF IInv, Shape, Shaped, Script
<1>4. current' = [current EXCEPT ![p] = [current[p] EXCEPT !.state = "Paused", !.shown = shown]]
  BY <1>1 DEF IInv, Shape
<1>5. NoneRuns(p)
  <2>1. CASE current[p].state = "Paused"
    BY <1>2, <2>1, PausedMeansNone
  <2>2. CASE current[p].state # "Paused"
    BY <1>2, <2>2 DEF Pause, PauseBlockers, ActiveDependents, NoneRuns, Runs
  <2> QED
    BY <2>1, <2>2
<1> QED
  BY <1>2, <1>3, <1>4, <1>5, Switched

\* Resume asks what Load asks.
LEMMA ResumeKeeps ==
    ASSUME IInv, NEW p \in Plugins, Resume(p)
    PROVE  IInv' /\ Stays
<1>1. current' = [current EXCEPT ![p] = [current[p] EXCEPT !.state = "Running", !.shown = FALSE]]
  BY DEF Resume, IInv, Shape
<1>2. /\ current[p] # None /\ replacement[p] = None /\ current[p].state = "Paused"
      /\ CheckDependencies(current[p].file) /\ UNCHANGED <<disk, replacement, preserved>>
  BY DEF Resume
<1> QED
  BY <1>1, <1>2, Switched

\* An edited file is of the plugin in whose directory it is.
LEMMA EditKeeps ==
    ASSUME IInv, NEW p \in Plugins, Edit(p)
    PROVE  IInv' /\ Stays
<1>1. PICK f \in {g \in Files : g.id = p} \cup Damage : disk' = [disk EXCEPT ![p] = f]
  BY DEF Edit
<1>2. f \in Files \cup Damage /\ (f \in Files => f.id = p)
  BY LifecycleAssumption
<1>3. UNCHANGED <<current, replacement, preserved>>
  BY DEF Edit
<1>4. Shape'
  BY <1>1, <1>2, <1>3 DEF IInv, Shape
<1> QED
  BY <1>3, <1>4, OnlyShells

\* What is discovered is shown, not loaded.
LEMMA DiscoverKeeps ==
    ASSUME IInv, NEW refresh \in BOOLEAN, DiscoverScripts(refresh)
    PROVE  IInv' /\ Stays
<1> DEFINE shells == {Shell("Failed"), Shell("Disabled")}
<1>1. \A s \in shells : s \in Script /\ ~s.vm /\ s.state \in {"Failed", "Disabled"}
  <2>1. ASSUME NEW state \in {"Failed", "Disabled"}
        PROVE  Shell(state) \in Script /\ ~Shell(state).vm /\ Shell(state).state = state
    BY LifecycleAssumption DEF Shell, Script
  <2> QED
    BY <2>1
<1>2. \A s \in shells : s # None /\ \A p \in Plugins : Shaped(s, p)
  BY <1>1, NoneAssumption DEF Shaped
<1> HIDE DEF shells
<1>3. \A p \in Plugins : current'[p] = current[p] \/ (current[p] = None /\ current'[p] \in shells)
  BY DEF DiscoverScripts, Loaded, shells
<1>4. /\ current' = [p \in Plugins |-> current'[p]] /\ UNCHANGED <<disk, replacement, preserved>>
  BY DEF DiscoverScripts
<1>5. Shape'
  <2>1. \A p \in Plugins : current'[p] \in Script \cup {None}
    BY <1>1, <1>3 DEF IInv, Shape
  <2>2. current' \in [Plugins -> Script \cup {None}]
    BY <1>4, <2>1
  <2> QED
    BY <1>2, <1>3, <1>4, <2>2 DEF IInv, Shape
<1>6. \A p \in Plugins : current[p] = None => ~Waits(p)
  BY DEF IInv, Waiting
<1> QED
  BY <1>1, <1>2, <1>3, <1>4, <1>5, <1>6, OnlyShells

\* A callback runs in a plugin that is known.
LEMMA LastCalled ==
    ASSUME Called, stack # <<>>
    PROVE  Last(stack) \in Plugins /\ current[Last(stack)] # None
           /\ Front(stack) \in Seq(Plugins) /\ Len(Front(stack)) = Len(stack) - 1
           /\ \A i \in 1..Len(Front(stack)) : Front(stack)[i] = stack[i]
<1>1. stack \in Seq(Plugins) /\ Len(stack) \in Nat \ {0}
  BY DEF Called
<1>2. Last(stack) = stack[Len(stack)] /\ Len(stack) \in 1..Len(stack)
  BY <1>1 DEF Last
<1>3. Front(stack) = [i \in 1..(Len(stack) - 1) |-> stack[i]]
  BY <1>1 DEF Front
<1> QED
  BY <1>1, <1>2, <1>3 DEF Called

\* As long as no callback begins or ends.
LEMMA CalledStays ==
    ASSUME Called, Stays, UNCHANGED stack
    PROVE  Called'
BY DEF Called, Stays

\* Callbacks register names, show menus, and end, perhaps once too often.
LEMMA RegisterKeeps ==
    ASSUME IInv, Called, NEW n \in Names, Register(n)
    PROVE  IInv' /\ Stays
<1> DEFINE p == Last(stack)
<1>1. p \in Plugins /\ current[p] # None /\ current[p] \in Script
  BY LastCalled DEF Register, IInv, Shape
<1>2. /\ current' = [current EXCEPT ![p] = [current[p] EXCEPT !.held = @ \cup {n}]]
      /\ UNCHANGED <<disk, replacement, preserved>>
  BY DEF Register, IInv, Shape
<1> HIDE DEF p
<1>3. PICK x : x = [current[p] EXCEPT !.held = @ \cup {n}]
  OBVIOUS
<1>4. x \in Script /\ x.file = current[p].file /\ x.vm = current[p].vm /\ x.state = current[p].state
  BY <1>1, <1>3 DEF Script
<1> QED
  BY <1>1, <1>2, <1>3, <1>4, Touched

\* A menu opens or closes.
LEMMA MenuKeeps ==
    ASSUME IInv, NEW p \in Plugins, current[p] # None, NEW shown \in BOOLEAN,
           current' = [current EXCEPT ![p].shown = shown], UNCHANGED <<disk, replacement, preserved>>
    PROVE  IInv' /\ Stays
<1>1. current[p] \in Script /\ current' = [current EXCEPT ![p] = [current[p] EXCEPT !.shown = shown]]
  BY DEF IInv, Shape
<1>2. PICK x : x = [current[p] EXCEPT !.shown = shown]
  OBVIOUS
<1>3. x \in Script /\ x.file = current[p].file /\ x.vm = current[p].vm /\ x.state = current[p].state
  BY <1>1, <1>2 DEF Script
<1> QED
  BY <1>1, <1>2, <1>3, Touched

\* A callback that fails too often retires its script.
LEMMA CallEndKeeps ==
    ASSUME IInv, Called, NEW failed \in BOOLEAN, CallEnd(failed)
    PROVE  IInv' /\ Stays /\ Called'
<1> DEFINE p == Last(stack)
           faults == current[p].faults + 1
           capped == IF faults > FaultLimit THEN FaultLimit ELSE faults
           state == IF faults >= FaultLimit THEN "Retiring" ELSE current[p].state
<1>1. p \in Plugins /\ current[p] # None /\ current[p] \in Script
  BY LastCalled DEF CallEnd, IInv, Shape
<1>2. UNCHANGED <<disk, replacement, preserved>> /\ stack' = Front(stack) /\ stack # <<>>
  BY DEF CallEnd
<1>3. IInv' /\ Stays
  <2>1. CASE failed
    <3>1. current' = [current EXCEPT ![p] = [current[p] EXCEPT !.faults = capped, !.state = state]]
      BY <1>1, <2>1 DEF CallEnd, IInv, Shape
    <3>2. PICK x : x = [current[p] EXCEPT !.faults = capped, !.state = state]
      OBVIOUS
    <3>3. capped \in 0..FaultLimit /\ (state = current[p].state \/ state = "Retiring")
      BY <1>1, LifecycleAssumption DEF Script
    <3>4. x \in Script /\ x.file = current[p].file /\ x.vm = current[p].vm /\ x.state = state
      BY <1>1, <3>2, <3>3 DEF Script
    <3> HIDE DEF p, capped, state
    <3> QED
      BY <1>1, <1>2, <3>1, <3>2, <3>3, <3>4, Touched
  <2>2. CASE ~failed
    BY <1>2, <2>2, NoPlugin DEF CallEnd
  <2> QED
    BY <2>1, <2>2
<1>4. Called'
  <2>1. /\ stack' \in Seq(Plugins) /\ Len(stack') = Len(stack) - 1 /\ Len(stack) \in Nat
        /\ \A i \in 1..Len(stack') : stack'[i] = stack[i] /\ i \in 1..Len(stack) /\ stack[i] \in Plugins
    BY <1>2, LastCalled DEF Called
  <2> QED
    BY <1>3, <2>1 DEF Called, Stays
<1> QED
  BY <1>3, <1>4

\* Only a plugin that is known is called.
LEMMA CallBeginKeeps ==
    ASSUME IInv, Called, NEW p \in Plugins, CallBegin(p)
    PROVE  IInv' /\ Called'
<1>1. IInv'
  BY NoPlugin DEF CallBegin
<1>2. Called'
  BY DEF CallBegin, Called
<1> QED
  BY <1>1, <1>2

-----------------------------------------------------------------------------
(* The theorem.                                                            *)

\* At first nothing is loaded.
LEMMA InitKeeps == Init => IInv /\ Called
<1> SUFFICES ASSUME Init PROVE IInv /\ Called
  OBVIOUS
<1>1. Shape
  BY DEF Init, Shape
<1>2. \A p \in Plugins : Live(p) = {}
  BY DEF Init, Live
<1>3. \A p \in Plugins : Edges(p) = {}
  BY <1>2 DEF Edges
<1>4. DependenciesHold
  <2>1. Closed({})
    BY DEF Closed
  <2>2. NoCycle
    BY <1>3, <2>1, Outside DEF NoCycle
  <2> QED
    BY <1>2, <2>2 DEF DependenciesHold, DependenciesLoaded, RunningIsSupported
<1>5. Waiting /\ Called
  BY DEF Init, Waiting, Waits, Called
<1> QED
  BY <1>1, <1>4, <1>5 DEF IInv

\* One step per operation and callback.
LEMMA StepKeeps == IInv /\ Called /\ [Next]_vars => IInv' /\ Called'
<1> SUFFICES ASSUME IInv, Called, [Next]_vars PROVE IInv' /\ Called'
  OBVIOUS
<1>1. CASE UNCHANGED vars
  BY <1>1, NoPlugin, CalledStays DEF vars
<1>2. ASSUME NEW p \in Plugins, Load(p) \/ Retry(p) PROVE IInv' /\ Called'
  BY <1>2, LoadKeeps, CalledStays DEF Load, Retry
<1>3. ASSUME NEW p \in Plugins, Unload(p) PROVE IInv' /\ Called'
  BY <1>3, UnloadKeeps, CalledStays DEF Unload
<1>4. ASSUME NEW p \in Plugins, Reload(p) PROVE IInv' /\ Called'
  BY <1>4, ReloadKeeps, CalledStays DEF Reload
<1>5. ASSUME NEW p \in Plugins, Pause(p) \/ Resume(p) \/ Edit(p) PROVE IInv' /\ Called'
  BY <1>5, PauseKeeps, ResumeKeeps, EditKeeps, CalledStays DEF Pause, Resume, Edit
<1>6. ASSUME NEW p \in Plugins, CallBegin(p) PROVE IInv' /\ Called'
  BY <1>6, CallBeginKeeps
<1>7. ASSUME NEW p \in Plugins, MenuCloses(p) PROVE IInv' /\ Called'
  BY <1>7, MenuKeeps, CalledStays DEF MenuCloses
<1>8. ASSUME NEW refresh \in BOOLEAN, DiscoverScripts(refresh) PROVE IInv' /\ Called'
  BY <1>8, DiscoverKeeps, CalledStays DEF DiscoverScripts
<1>9. CASE UnloadAll \/ UnloadAllPass
  BY <1>9, NoPlugin, CalledStays DEF UnloadAll, UnloadAllPass
<1>10. CASE RefreshNext
  <2>1. PICK p : \/ current[p] = None /\ LoadScript(p) /\ UNCHANGED <<replacement, preserved>>
                 \/ current[p] # None /\ ReloadScript(p)
                 \/ UNCHANGED <<current, replacement, preserved>>
    BY <1>10 DEF RefreshNext
  <2>2. UNCHANGED <<disk, stack>>
    BY <1>10 DEF RefreshNext
  <2> QED
    BY <2>1, <2>2, LoadKeeps, ReloadKeeps, NoPlugin, CalledStays
<1>11. CASE RefreshPass
  BY <1>11, RecordFailureKeeps, NoPlugin, CalledStays DEF RefreshPass
<1>12. CASE UnloadAllNext
  <2>1. PICK p : UnloadScript(p)
    BY <1>12 DEF UnloadAllNext
  <2> QED
    BY <1>12, <2>1, UnloadKeeps, CalledStays DEF UnloadAllNext
<1>13. ASSUME NEW n \in Names, Register(n) PROVE IInv' /\ Called'
  BY <1>13, RegisterKeeps, CalledStays DEF Register
<1>14. CASE ShowMenu
  <2>1. stack # <<>> /\ UNCHANGED <<disk, replacement, preserved, stack>>
        /\ current' = [current EXCEPT ![Last(stack)].shown = TRUE]
    BY <1>14 DEF ShowMenu
  <2> QED
    BY <2>1, LastCalled, MenuKeeps, CalledStays
<1>15. ASSUME NEW failed \in BOOLEAN, CallEnd(failed) PROVE IInv' /\ Called'
  BY <1>15, CallEndKeeps
<1> QED
  BY <1>1, <1>2, <1>3, <1>4, <1>5, <1>6, <1>7, <1>8, <1>9, <1>10, <1>11, <1>12, <1>13, <1>14, <1>15
     DEF Next, OpStep

\* Whatever is loaded, reloaded, paused and unloaded in whatever order, with files edited
\* in between, cleanups that fail and candidates that are retained: what a loaded script
\* depends on is loaded in a version that is late enough, what a running one depends on
\* runs or is being retired, and the dependencies have no cycle (CheckDependencies,
\* Dependent, ReloadScript).
THEOREM Dependencies == Spec => []DependenciesHold
<1>1. IInv => DependenciesHold
  BY DEF IInv
<1> QED
  BY <1>1, InitKeeps, StepKeeps, PTL DEF Spec

-----------------------------------------------------------------------------
(* What the operator paused.                                               *)

\* A paused script has no callback running, which could still fail and retire it.  A
\* plugin that the operator paused is paused, or is being replaced by a candidate that
\* will be.
Quiet(p) == current[p] # None /\ current[p].state = "Paused" => ~Active(p)
Keeps(p) ==
    intent[p] = "pause" =>
        current[p] # None /\ (current[p].state = "Paused" \/ (Waits(p) /\ preserved[p] = "Paused"))
PInv == intent \in [Plugins -> {"run", "pause"}] /\ \A p \in Plugins : Quiet(p) /\ Keeps(p)

\* A plugin that is to be paused has a virtual machine, or a replacement.
LEMMA PausedIsLive ==
    ASSUME IInv, PInv, NEW p \in Plugins, intent[p] = "pause"
    PROVE  replacement[p] # None \/ (current[p] # None /\ current[p].vm)
BY DEF IInv, Shape, Shaped, PInv, Keeps, Waits

\* One plugin changes, and keeps what was asked of it.
LEMMA PauseOne ==
    ASSUME PInv, NEW p,
           \A q \in Plugins \ {p} : /\ current'[q] = current[q] /\ replacement'[q] = replacement[q]
                                    /\ preserved'[q] = preserved[q] /\ intent'[q] = intent[q],
           intent' \in [Plugins -> {"run", "pause"}], UNCHANGED stack,
           p \in Plugins => Quiet(p)' /\ Keeps(p)'
    PROVE  PInv'
BY DEF PInv, Quiet, Keeps, Waits, Active

\* Nothing that matters changes.
LEMMA PauseStill ==
    ASSUME PInv, UNCHANGED <<current, replacement, preserved, intent, stack>>
    PROVE  PInv'
BY DEF PInv, Quiet, Keeps, Waits, Active

\* A failure is recorded only where there is no script to keep.
LEMMA PauseRecord ==
    ASSUME IInv, PInv, NEW P, RecordFailure(P), UNCHANGED <<replacement, preserved, intent, stack>>
    PROVE  PInv'
<1>1. \A p \in Plugins :
          \/ current'[p] = current[p]
          \/ /\ current[p] = None \/ ~current[p].vm
             /\ replacement[p] = None /\ current'[p] = Shell("Failed")
  BY DEF RecordFailure, IInv, Shape, Shaped
<1>2. Shell("Failed").state = "Failed"
  BY DEF Shell
<1>3. \A p \in Plugins : intent[p] = "pause" => current'[p] = current[p]
  BY <1>1, PausedIsLive
<1> QED
  BY <1>1, <1>2, <1>3 DEF PInv, Quiet, Keeps, Waits, Active

\* What is loaded runs, and is meant to.
LEMMA PauseLoad ==
    ASSUME IInv, PInv, NEW p, LoadScript(p), UNCHANGED <<replacement, preserved, stack>>
    PROVE  PInv'
<1>1. CASE RecordFailure({p}) /\ UNCHANGED intent
  BY <1>1, PauseRecord
<1>2. ASSUME Acceptable(p), NEW c \in Prepared(disk[p]), NEW x,
             current' = [current EXCEPT ![p] = x], intent' = [intent EXCEPT ![p] = "run"],
             \/ c.state = "Loading" /\ x = [c EXCEPT !.state = "Running"]
             \/ c.state # "Loading" /\ x = c
      PROVE  PInv'
  <2>1. \A q \in Plugins \ {p} : current'[q] = current[q] /\ intent'[q] = intent[q]
    BY <1>2 DEF IInv, Shape, PInv
  <2>2. intent' \in [Plugins -> {"run", "pause"}]
    BY <1>2 DEF PInv
  <2>3. ASSUME p \in Plugins PROVE Quiet(p)' /\ Keeps(p)'
    <3>1. disk[p] \in Files /\ disk[p].id = p
      BY <1>2, <2>3 DEF Acceptable, IInv, Shape
    <3>2. Shaped(c, p) /\ c.state \in {"Loading", "Retiring", "Failed"}
      BY <1>2, <2>3, <3>1, PreparedFields
    <3>3. x.state # "Paused"
      BY <1>2, <3>2 DEF Shaped, Script
    <3>4. current'[p] = x /\ intent'[p] = "run"
      BY <1>2, <2>3 DEF IInv, Shape, PInv
    <3> QED
      BY <3>3, <3>4 DEF Quiet, Keeps
  <2> QED
    BY <2>1, <2>2, <2>3, PauseOne
<1> QED
  BY <1>1, <1>2 DEF LoadScript

\* What is unloaded is not meant to stay paused.
LEMMA PauseUnload ==
    ASSUME IInv, PInv, NEW p, UnloadScript(p), UNCHANGED <<preserved, stack>>
    PROVE  PInv'
<1>1. \/ UNCHANGED current /\ \E r : replacement' = [replacement EXCEPT ![p] = r]
      \/ \E others, s, x :
            /\ s \in Cleanup(p, others) /\ x = (IF s.vm THEN s ELSE [s EXCEPT !.state = "Disabled"])
            /\ current' = [current EXCEPT ![p] = x] /\ replacement' = [replacement EXCEPT ![p] = None]
  BY DEF UnloadScript
<1>2. intent' = [intent EXCEPT ![p] = "run"] /\ current[p] # None
  BY DEF UnloadScript
<1>3. /\ intent' \in [Plugins -> {"run", "pause"}]
      /\ \A q \in Plugins \ {p} : /\ intent'[q] = intent[q] /\ current'[q] = current[q]
                                  /\ replacement'[q] = replacement[q]
  <2>1. /\ intent' \in [Plugins -> {"run", "pause"}]
        /\ \A q \in Plugins \ {p} : intent'[q] = intent[q]
    BY <1>2 DEF PInv
  <2>2. current' = current \/ \E x : current' = [current EXCEPT ![p] = x]
    BY <1>1
  <2>3. \E x : replacement' = [replacement EXCEPT ![p] = x]
    BY <1>1
  <2>4. \A q \in Plugins \ {p} : current'[q] = current[q]
    BY <2>2 DEF IInv, Shape
  <2>5. \A q \in Plugins \ {p} : replacement'[q] = replacement[q]
    BY <2>3 DEF IInv, Shape
  <2> QED
    BY <2>1, <2>4, <2>5
<1>4. ASSUME p \in Plugins PROVE Quiet(p)' /\ Keeps(p)'
  <2>1. intent'[p] = "run"
    BY <1>2, <1>4 DEF PInv
  <2>2. CASE UNCHANGED current
    BY <1>4, <2>1, <2>2 DEF PInv, Quiet, Keeps, Active
  <2>3. ASSUME NEW others, NEW s \in Cleanup(p, others), NEW x,
               x = (IF s.vm THEN s ELSE [s EXCEPT !.state = "Disabled"]),
               current' = [current EXCEPT ![p] = x]
        PROVE  Quiet(p)' /\ Keeps(p)'
    <3>1. Shaped(s, p) /\ s.state = "Retiring"
      BY <1>2, <1>4, <2>3, CleanupFields DEF IInv
    <3>2. x.state # "Paused"
      BY <2>3, <3>1 DEF Shaped, Script
    <3>3. current'[p] = x
      BY <1>4, <2>3 DEF IInv, Shape
    <3> QED
      BY <2>1, <3>2, <3>3 DEF Quiet, Keeps
  <2> QED
    BY <1>1, <2>2, <2>3
<1> QED
  BY <1>3, <1>4, PauseOne

\* A candidate that takes over is paused when the plugin is to be.
LEMMA PauseActivate ==
    ASSUME IInv, NEW p \in Plugins, current[p] # None, ~Active(p), UNCHANGED <<intent, stack>>,
           NEW c, Shaped(c, p), c # None, c.state = "Loading",
           preserved' \in [Plugins -> {"Running", "Paused"}],
           intent[p] = "pause" => preserved'[p] = "Paused", NEW known, Activate(p, c, known)
    PROVE  Quiet(p)' /\ Keeps(p)'
<1>1. PICK others, s :
          /\ s \in Cleanup(p, others)
          /\ \/ /\ s.vm
                /\ current' = [current EXCEPT ![p] = s] /\ replacement' = [replacement EXCEPT ![p] = c]
             \/ /\ ~s.vm
                /\ current' = [current EXCEPT ![p] = [c EXCEPT !.state = preserved'[p]]]
                /\ replacement' = [replacement EXCEPT ![p] = None]
  BY DEF Activate
<1>2. Shaped(s, p) /\ s # None /\ s.state = "Retiring"
  BY <1>1, CleanupFields DEF IInv
<1>3. CASE /\ s.vm
           /\ current' = [current EXCEPT ![p] = s] /\ replacement' = [replacement EXCEPT ![p] = c]
  <2>1. current'[p] = s /\ replacement'[p] = c
    BY <1>3 DEF IInv, Shape
  <2> QED
    BY <1>2, <2>1 DEF Quiet, Keeps, Waits
<1>4. CASE current' = [current EXCEPT ![p] = [c EXCEPT !.state = preserved'[p]]]
  <2>1. PICK x : x = [c EXCEPT !.state = preserved'[p]]
    OBVIOUS
  <2>2. x \in Script /\ x.state = preserved'[p]
    BY <2>1 DEF Shaped, Script
  <2>3. current'[p] = x /\ x # None
    BY <1>4, <2>1, <2>2, NoneAssumption DEF IInv, Shape
  <2> QED
    BY <2>2, <2>3 DEF Quiet, Keeps, Active
<1> QED
  BY <1>1, <1>3, <1>4

\* A reload keeps what the operator asked for, in the current script or in preserved.
LEMMA PauseReload ==
    ASSUME IInv, PInv, NEW p, ReloadScript(p), UNCHANGED stack
    PROVE  PInv'
<1>1. current[p] # None /\ ~Active(p) /\ UNCHANGED intent
  BY DEF ReloadScript
<1>2. ASSUME NEW c, NEW known, Activate(p, c, known)
      PROVE  \A q \in Plugins \ {p} : current'[q] = current[q] /\ replacement'[q] = replacement[q]
  BY <1>2 DEF Activate, IInv, Shape
<1>3. /\ \A q \in Plugins \ {p} : /\ current'[q] = current[q] /\ replacement'[q] = replacement[q]
                                  /\ preserved'[q] = preserved[q]
      /\ preserved' \in [Plugins -> {"Running", "Paused"}]
  <2>1. CASE ReloadPrepare(p)
    BY <1>1, <1>2, <2>1 DEF ReloadPrepare, Inherited, IInv, Shape
  <2>2. CASE ReloadClean(p)
    BY <2>2 DEF ReloadClean, IInv, Shape
  <2>3. CASE ReloadActivate(p)
    BY <1>2, <2>3 DEF ReloadActivate, IInv, Shape
  <2> QED
    BY <2>1, <2>2, <2>3 DEF ReloadScript
<1>4. ASSUME p \in Plugins PROVE Quiet(p)' /\ Keeps(p)'
  <2>1. Quiet(p) /\ Keeps(p)
    BY <1>4 DEF PInv
  <2>2. CASE ReloadPrepare(p)
    <3>1. disk[p] \in Files /\ disk[p].id = p /\ ~Waits(p) /\ preserved' = [preserved EXCEPT ![p] = Inherited(p)]
      BY <1>4, <2>2 DEF ReloadPrepare, Waits, IInv, Shape
    <3>2. preserved'[p] = Inherited(p)
      BY <1>4, <3>1 DEF IInv, Shape
    <3>3. intent[p] = "pause" => preserved'[p] = "Paused"
      BY <1>1, <2>1, <3>1, <3>2 DEF Keeps, Inherited
    <3>4. PICK c \in Prepared(disk[p]) :
              (c.state = "Loading" /\ Activate(p, c, registered \cup c.held)) \/ UNCHANGED current
      BY <2>2 DEF ReloadPrepare
    <3>5. Shaped(c, p) /\ c # None
      BY <1>4, <3>1, PreparedFields
    <3>6. CASE UNCHANGED current
      BY <1>1, <2>1, <3>1, <3>6 DEF Quiet, Keeps, Active
    <3>7. CASE c.state = "Loading" /\ Activate(p, c, registered \cup c.held)
      BY <1>1, <1>3, <1>4, <3>3, <3>5, <3>7, PauseActivate
    <3> QED
      BY <3>4, <3>6, <3>7
  <2>3. CASE ReloadClean(p)
    <3>1. ~Waits(p) /\ UNCHANGED <<current, preserved>>
      BY <2>3 DEF ReloadClean, Waits
    <3> QED
      BY <1>1, <2>1, <3>1 DEF Quiet, Keeps, Active
  <2>4. CASE ReloadActivate(p)
    <3>1. Waits(p) /\ preserved' = preserved /\ Activate(p, replacement[p], registered)
      BY <2>4 DEF ReloadActivate, Waits
    <3>2. Shaped(replacement[p], p) /\ replacement[p] # None /\ replacement[p].state = "Loading"
      BY <1>4, <3>1 DEF IInv, Shape, Waits
    <3>3. intent[p] = "pause" => preserved'[p] = "Paused"
      BY <1>4, <2>1, <3>1 DEF Keeps, IInv, Waiting
    <3> QED
      BY <1>1, <1>3, <1>4, <3>1, <3>2, <3>3, PauseActivate
  <2> QED
    BY <2>2, <2>3, <2>4 DEF ReloadScript
<1> QED
  BY <1>1, <1>3, <1>4, PauseOne DEF PInv

\* Only a script without a running callback is paused.
LEMMA PausePause ==
    ASSUME IInv, PInv, NEW p \in Plugins, Pause(p)
    PROVE  PInv'
<1>1. PICK shown : current' = [current EXCEPT ![p].state = "Paused", ![p].shown = shown]
  BY DEF Pause
<1>2. /\ current[p] # None /\ (current[p].state = "Paused" \/ ~Active(p))
      /\ intent' = [intent EXCEPT ![p] = "pause"] /\ UNCHANGED <<replacement, preserved, stack>>
  BY DEF Pause
<1>3. /\ IInv' /\ Stays
  BY PauseKeeps
<1>4. current[p] \in Script /\ \A q \in Plugins \ {p} : current'[q] = current[q]
  BY <1>1, <1>2 DEF IInv, Shape
<1>5. current'[p].state = "Paused" /\ current'[p] # None
  BY <1>1, <1>2, <1>3, <1>4 DEF IInv, Shape, Script, Stays
<1>6. ~Active(p)
  BY <1>2 DEF PInv, Quiet
<1>7. Quiet(p)' /\ Keeps(p)'
  BY <1>2, <1>5, <1>6 DEF Quiet, Keeps, Active
<1>8. intent' \in [Plugins -> {"run", "pause"}] /\ \A q \in Plugins \ {p} : intent'[q] = intent[q]
  BY <1>2 DEF PInv
<1> QED
  BY <1>2, <1>4, <1>7, <1>8, PauseOne

\* Resume ends the pause as asked.
LEMMA PauseResume ==
    ASSUME IInv, PInv, NEW p \in Plugins, Resume(p)
    PROVE  PInv'
<1>1. /\ current' = [current EXCEPT ![p].state = "Running", ![p].shown = FALSE]
      /\ current[p] # None /\ intent' = [intent EXCEPT ![p] = "run"]
      /\ UNCHANGED <<replacement, preserved, stack>>
  BY DEF Resume
<1>2. current[p] \in Script /\ \A q \in Plugins \ {p} : current'[q] = current[q]
  BY <1>1 DEF IInv, Shape
<1>3. current'[p].state = "Running"
  BY <1>1, <1>2 DEF IInv, Shape, Script
<1>4. /\ intent' \in [Plugins -> {"run", "pause"}] /\ intent'[p] = "run"
      /\ \A q \in Plugins \ {p} : intent'[q] = intent[q]
  BY <1>1 DEF PInv
<1>5. Quiet(p)' /\ Keeps(p)'
  BY <1>3, <1>4 DEF Quiet, Keeps
<1> QED
  BY <1>1, <1>2, <1>4, <1>5, PauseOne

\* A plugin that is discovered was not known.
LEMMA PauseDiscover ==
    ASSUME IInv, PInv, NEW refresh \in BOOLEAN, DiscoverScripts(refresh)
    PROVE  PInv'
<1>1. \A p \in Plugins :
          current'[p] = current[p] \/ (current[p] = None /\ current'[p] \in {Shell("Failed"), Shell("Disabled")})
  BY DEF DiscoverScripts, Loaded
<1>2. /\ Shell("Failed").state = "Failed" /\ Shell("Disabled").state = "Disabled"
      /\ UNCHANGED <<replacement, preserved, intent, stack>>
  BY DEF Shell, DiscoverScripts
<1>3. \A p \in Plugins : intent[p] = "pause" => current'[p] = current[p]
  BY <1>1 DEF PInv, Keeps
<1> QED
  BY <1>1, <1>2, <1>3 DEF PInv, Quiet, Keeps, Waits, Active

\* A callback begins in a script that runs, and so in no paused one.
LEMMA PauseCallBegin ==
    ASSUME IInv, PInv, Called, NEW p \in Plugins, CallBegin(p)
    PROVE  PInv'
<1>1. /\ current[p].state = "Running" /\ stack' = Append(stack, p)
      /\ UNCHANGED <<current, replacement, preserved, intent>>
  BY DEF CallBegin
<1>2. ToSet(stack') \subseteq ToSet(stack) \cup {p}
  BY <1>1 DEF Called, ToSet
<1>3. \A q \in Plugins : Quiet(q)'
  BY <1>1, <1>2 DEF PInv, Quiet, Active
<1> QED
  BY <1>1, <1>3 DEF PInv, Keeps, Waits

\* What is registered or shown does not matter here.
LEMMA PauseTouch ==
    ASSUME IInv, PInv, NEW p \in Plugins, current[p] # None, NEW x,
           x # None, x.state = current[p].state,
           current' = [current EXCEPT ![p] = x], UNCHANGED <<replacement, preserved, intent, stack>>
    PROVE  PInv'
<1>1. current'[p] = x /\ \A q \in Plugins \ {p} : current'[q] = current[q]
  BY DEF IInv, Shape
<1>2. Quiet(p)' /\ Keeps(p)'
  BY <1>1 DEF PInv, Quiet, Keeps, Waits, Active
<1> QED
  BY <1>1, <1>2, PauseOne DEF PInv

\* Callbacks register names and show menus.
LEMMA PauseRegister ==
    ASSUME IInv, PInv, Called, NEW n \in Names, Register(n)
    PROVE  PInv'
<1> DEFINE p == Last(stack)
<1>1. p \in Plugins /\ current[p] # None /\ current[p] \in Script
  BY LastCalled DEF Register, IInv, Shape
<1>2. /\ current' = [current EXCEPT ![p] = [current[p] EXCEPT !.held = @ \cup {n}]]
      /\ UNCHANGED <<replacement, preserved, intent, stack>>
  BY DEF Register, IInv, Shape
<1> HIDE DEF p
<1>3. PICK x : x = [current[p] EXCEPT !.held = @ \cup {n}]
  OBVIOUS
<1>4. x \in Script /\ x.state = current[p].state
  BY <1>1, <1>3 DEF Script
<1> QED
  BY <1>1, <1>2, <1>3, <1>4, NoneAssumption, PauseTouch

\* A menu opens or closes.
LEMMA PauseMenu ==
    ASSUME IInv, PInv, NEW p \in Plugins, current[p] # None, NEW shown \in BOOLEAN,
           current' = [current EXCEPT ![p].shown = shown],
           UNCHANGED <<replacement, preserved, intent, stack>>
    PROVE  PInv'
<1>1. current[p] \in Script /\ current' = [current EXCEPT ![p] = [current[p] EXCEPT !.shown = shown]]
  BY DEF IInv, Shape
<1>2. PICK x : x = [current[p] EXCEPT !.shown = shown]
  OBVIOUS
<1>3. x \in Script /\ x.state = current[p].state
  BY <1>1, <1>2 DEF Script
<1> QED
  BY <1>1, <1>2, <1>3, NoneAssumption, PauseTouch

\* A callback that ends runs in a script that is not paused, so that a failure does not
\* retire a paused one.
LEMMA PauseCallEnd ==
    ASSUME IInv, PInv, Called, NEW failed \in BOOLEAN, CallEnd(failed)
    PROVE  PInv'
<1> DEFINE p == Last(stack)
<1>1. p \in Plugins /\ current[p] # None /\ current[p] \in Script
  BY LastCalled DEF CallEnd, IInv, Shape
<1>2. stack # <<>> /\ stack' = Front(stack) /\ UNCHANGED <<replacement, preserved, intent>>
  BY DEF CallEnd
<1>3. ToSet(stack') \subseteq ToSet(stack) /\ p \in ToSet(stack)
  <2>1. /\ stack \in Seq(Plugins) /\ Len(stack) \in 1..Len(stack) /\ p = stack[Len(stack)]
        /\ stack' \in Seq(Plugins) /\ Len(stack') = Len(stack) - 1
        /\ \A i \in 1..Len(stack') : stack'[i] = stack[i]
    BY <1>2, LastCalled DEF Called, Last
  <2> HIDE DEF p
  <2> QED
    BY <2>1 DEF ToSet
<1>4. current[p].state # "Paused"
  BY <1>1, <1>3 DEF PInv, Quiet, Active
<1>5. /\ \A q \in Plugins \ {p} : current'[q] = current[q]
      /\ current'[p].state \in {current[p].state, "Retiring"}
  BY <1>1 DEF CallEnd, IInv, Shape, Script
<1>6. current'[p] # None
  BY <1>1, CallEndKeeps DEF Stays
<1> HIDE DEF p
<1>7. \A q \in Plugins : Quiet(q)'
  BY <1>3, <1>4, <1>5 DEF PInv, Quiet, Active
<1>8. \A q \in Plugins : Keeps(q)'
  BY <1>2, <1>4, <1>5, <1>6 DEF PInv, Keeps, Waits
<1> QED
  BY <1>2, <1>7, <1>8 DEF PInv

\* One step per operation and callback.
LEMMA PauseStep == IInv /\ Called /\ PInv /\ [Next]_vars => PInv'
<1> SUFFICES ASSUME IInv, Called, PInv, [Next]_vars PROVE PInv'
  OBVIOUS
<1>1. CASE UNCHANGED vars \/ UnloadAll \/ UnloadAllPass \/ \E p \in Plugins : Edit(p)
  BY <1>1, PauseStill DEF vars, UnloadAll, UnloadAllPass, Edit
<1>2. ASSUME NEW p \in Plugins, Load(p) \/ Retry(p) PROVE PInv'
  BY <1>2, PauseLoad DEF Load, Retry
<1>3. ASSUME NEW p \in Plugins, Unload(p) PROVE PInv'
  BY <1>3, PauseUnload DEF Unload
<1>4. ASSUME NEW p \in Plugins, Reload(p) PROVE PInv'
  BY <1>4, PauseReload DEF Reload
<1>5. ASSUME NEW p \in Plugins, Pause(p) \/ Resume(p) PROVE PInv'
  BY <1>5, PausePause, PauseResume
<1>6. ASSUME NEW p \in Plugins, CallBegin(p) PROVE PInv'
  BY <1>6, PauseCallBegin
<1>7. ASSUME NEW p \in Plugins, MenuCloses(p) PROVE PInv'
  BY <1>7, PauseMenu DEF MenuCloses
<1>8. ASSUME NEW refresh \in BOOLEAN, DiscoverScripts(refresh) PROVE PInv'
  BY <1>8, PauseDiscover
<1>9. CASE RefreshNext
  <2>1. PICK p : \/ LoadScript(p) /\ UNCHANGED <<replacement, preserved>>
                 \/ ReloadScript(p)
                 \/ UNCHANGED <<current, replacement, preserved, intent>>
    BY <1>9 DEF RefreshNext
  <2>2. UNCHANGED stack
    BY <1>9 DEF RefreshNext
  <2> QED
    BY <2>1, <2>2, PauseLoad, PauseReload, PauseStill
<1>10. CASE RefreshPass
  BY <1>10, PauseRecord, PauseStill DEF RefreshPass
<1>11. CASE UnloadAllNext
  <2>1. PICK p : UnloadScript(p)
    BY <1>11 DEF UnloadAllNext
  <2> QED
    BY <1>11, <2>1, PauseUnload DEF UnloadAllNext
<1>12. ASSUME NEW n \in Names, Register(n) PROVE PInv'
  BY <1>12, PauseRegister
<1>13. CASE ShowMenu
  <2>1. stack # <<>> /\ UNCHANGED <<replacement, preserved, intent, stack>>
        /\ current' = [current EXCEPT ![Last(stack)].shown = TRUE]
    BY <1>13 DEF ShowMenu
  <2> QED
    BY <2>1, LastCalled, PauseMenu
<1>14. ASSUME NEW failed \in BOOLEAN, CallEnd(failed) PROVE PInv'
  BY <1>14, PauseCallEnd
<1> QED
  BY <1>1, <1>2, <1>3, <1>4, <1>5, <1>6, <1>7, <1>8, <1>9, <1>10, <1>11, <1>12, <1>13, <1>14
     DEF Next, OpStep

\* A plugin that the operator paused does not run again through any number of reloads,
\* whether their candidates start, fail or are retained, until he resumes, unloads or
\* loads it (Pause, ReloadScript, Invoke).
THEOREM PauseHolds == Spec => []PauseSurvivesReload
<1>1. Init => PInv
  BY DEF Init, PInv, Quiet, Keeps
<1>2. IInv /\ PInv => PauseSurvivesReload
  BY DEF IInv, Waiting, PInv, Keeps, PauseSurvivesReload
<1> QED
  BY <1>1, <1>2, InitKeeps, StepKeeps, PauseStep, PTL DEF Spec

-----------------------------------------------------------------------------
(* What is registered at the host, and what the cleanup of a script        *)
(* leaves.  The invariant: what each plugin holds, and that its scripts    *)
(* are tidy.                                                               *)

\* What plugins hold, of the host's registrations.
HeldBy(s) == IF s = None THEN {} ELSE s.held
Holds(p) == HeldBy(current[p]) \cup HeldBy(replacement[p])
Others(p) == UNION {Holds(q) : q \in Plugins \ {p}}

\* A script that was told to stop is retired, and one without a virtual machine has left
\* nothing behind.
Tidy(s) == s # None =>
    /\ s.stopped => s.state = "Retiring"
    /\ s.vm <=> s.state \notin {"Disabled", "Failed"}
    /\ ~s.vm => s.held = {} /\ ~s.shown
Clean(p) == Tidy(current[p]) /\ Tidy(replacement[p]) /\ (Active(p) => current[p].vm)

Matched == registered = UNION {Holds(p) : p \in Plugins}
Exclusive == \A p, q \in Plugins : p # q => Holds(p) \cap Holds(q) \cap Commands = {}
CInv == Matched /\ Exclusive /\ \A p \in Plugins : Clean(p)

-----------------------------------------------------------------------------
(* What the operators of the model say of a plugin.                        *)

\* What the scripts in all slots but some hold, plugin by plugin.
LEMMA HeldByPlugin ==
    /\ HeldBesides({}) = UNION {Holds(p) : p \in Plugins}
    /\ \A p \in Plugins :
          /\ HeldBesides({p} \X {"current", "replacement"}) = Others(p)
          /\ HeldBesides({<<p, "replacement">>}) = Others(p) \cup HeldBy(current[p])
<1>1. \A p \in Plugins : /\ <<p, "current">> \in Slots /\ At(<<p, "current">>) = current[p]
                         /\ <<p, "replacement">> \in Slots /\ At(<<p, "replacement">>) = replacement[p]
  BY DEF Slots, At
<1>2. \A x \in Slots : \E p \in Plugins : x = <<p, "current">> \/ x = <<p, "replacement">>
  BY DEF Slots
<1>3. \A p, q \in Plugins : /\ <<p, "current">> # <<q, "replacement">>
                            /\ p # q => <<p, "current">> # <<q, "current">>
                            /\ p # q => <<p, "replacement">> # <<q, "replacement">>
  OBVIOUS
<1>4. ASSUME NEW X, NEW n
      PROVE  n \in HeldBesides(X) <=>
                \E p \in Plugins : \/ <<p, "current">> \notin X /\ n \in HeldBy(current[p])
                                   \/ <<p, "replacement">> \notin X /\ n \in HeldBy(replacement[p])
  <2>1. n \in HeldBesides(X) <=> \E x \in Slots : x \notin X /\ n \in HeldBy(At(x))
    BY DEF HeldBesides, HeldBy
  <2>2. ASSUME NEW x \in Slots, x \notin X, n \in HeldBy(At(x))
        PROVE  \E p \in Plugins : \/ <<p, "current">> \notin X /\ n \in HeldBy(current[p])
                                  \/ <<p, "replacement">> \notin X /\ n \in HeldBy(replacement[p])
    BY <1>1, <1>2, <2>2
  <2> QED
    BY <1>1, <2>1, <2>2
<1>5. HeldBesides({}) = UNION {Holds(p) : p \in Plugins}
  <2>1. \A n : n \in HeldBesides({}) <=> \E p \in Plugins : n \in Holds(p)
    BY <1>4 DEF Holds
  <2> QED
    BY <2>1
<1>6. ASSUME NEW p \in Plugins
      PROVE  HeldBesides({p} \X {"current", "replacement"}) = Others(p)
  <2>1. \A q \in Plugins : /\ <<q, "current">> \in {p} \X {"current", "replacement"} <=> q = p
                           /\ <<q, "replacement">> \in {p} \X {"current", "replacement"} <=> q = p
    OBVIOUS
  <2>2. \A n : n \in HeldBesides({p} \X {"current", "replacement"})
                  <=> \E q \in Plugins \ {p} : n \in Holds(q)
    <3> DEFINE X == {p} \X {"current", "replacement"}
    <3>1. \A q \in Plugins : /\ <<q, "current">> \notin X <=> q \in Plugins \ {p}
                             /\ <<q, "replacement">> \notin X <=> q \in Plugins \ {p}
      BY <2>1
    <3> HIDE DEF X
    <3>2. \A n : n \in HeldBesides(X) <=> \E q \in Plugins \ {p} : n \in Holds(q)
      BY <1>4, <3>1 DEF Holds
    <3> QED
      BY <3>2 DEF X
  <2> QED
    BY <2>2 DEF Others
<1>7. ASSUME NEW p \in Plugins
      PROVE  HeldBesides({<<p, "replacement">>}) = Others(p) \cup HeldBy(current[p])
  <2>1. \A n : n \in HeldBesides({<<p, "replacement">>})
                  <=> n \in HeldBy(current[p]) \/ \E q \in Plugins \ {p} : n \in Holds(q)
    BY <1>3, <1>4 DEF Holds
  <2> QED
    BY <2>1 DEF Others
<1> QED
  BY <1>5, <1>6, <1>7

\* So the host has the names of a plugin, and those of the others.
LEMMA MatchedByPlugin ==
    ASSUME Matched, NEW p \in Plugins
    PROVE  registered = Others(p) \cup Holds(p)
BY DEF Matched, Others

\* No other plugin holds a command that a script of p may register.
LEMMA AvailableIsFree ==
    ASSUME CInv, NEW p \in Plugins, NEW q \in Plugins, p # q
    PROVE  Available(p) \cap Holds(q) \cap Commands = {}
<1>1. ASSUME NEW n \in Holds(q) PROVE \E s \in Live(q) : n \in s.held
  BY <1>1 DEF CInv, Clean, Tidy, Holds, HeldBy, Live
<1>2. \A n \in Holds(q) : n \in Commands => n \notin Available(p)
  BY <1>1 DEF Available
<1> QED
  BY <1>2

-----------------------------------------------------------------------------
(* A step changes one plugin, or nothing that is held.                     *)

\* One plugin changes: it has what it had or could register, and the host knows.
LEMMA OneCleans ==
    ASSUME CInv, NEW p \in Plugins,
           \A q \in Plugins \ {p} : current'[q] = current[q] /\ replacement'[q] = replacement[q],
           \A q \in Plugins \ {p} : Active(q)' => Active(q),
           Clean(p)', Holds(p)' \subseteq Holds(p) \cup Available(p),
           registered' = Others(p) \cup Holds(p)'
    PROVE  CInv'
<1>1. \A q \in Plugins \ {p} : Holds(q)' = Holds(q)
  BY DEF Holds, HeldBy
<1>2. Matched'
  BY <1>1 DEF Matched, Others
<1>3. Exclusive'
  BY <1>1, AvailableIsFree DEF CInv, Exclusive
<1>4. \A q \in Plugins \ {p} : Clean(q)'
  BY DEF CInv, Clean, Tidy
<1> QED
  BY <1>2, <1>3, <1>4 DEF CInv

\* Nothing that is held changes.
LEMMA NoneHolds ==
    ASSUME CInv, \A p \in Plugins : Holds(p)' = Holds(p) /\ Clean(p)', UNCHANGED registered
    PROVE  CInv'
BY DEF CInv, Matched, Exclusive

\* What Cleanup leaves of a script: nothing, or a retired script that has kept some names.
LEMMA CleanedLeaves ==
    ASSUME NEW s \in Script, Tidy(s), NEW others, NEW t \in Cleaned(Retire(s), others)
    PROVE  /\ t # None /\ t.held \subseteq s.held
           /\ \/ t = Shell("Retiring") /\ ~t.vm /\ t.held = {}
              \/ t.vm /\ Tidy(t)
<1>1. PICK r : r = Retire(s)
  OBVIOUS
<1>2. /\ r \in Script /\ r.vm = s.vm /\ r.held = s.held /\ r.shown = s.shown /\ r.state = "Retiring"
      /\ s # None
  BY <1>1, NoneAssumption DEF Retire, Script
<1>3. PICK u : u = [r EXCEPT !.stopped = @ \/ r.vm]
  OBVIOUS
<1>4. u \in Script /\ u.vm = s.vm /\ u.held = s.held /\ u.shown = s.shown /\ u.state = "Retiring"
  BY <1>2, <1>3 DEF Script
<1>5. MayStick(r, others) \subseteq s.held
  BY <1>2 DEF MayStick
<1>6. CASE t = Shell("Retiring")
  <2>1. Shell("Retiring") \in Script
    BY LifecycleAssumption DEF Shell, Script
  <2> QED
    BY <1>6, <2>1, NoneAssumption DEF Shell
<1>7. CASE t = u /\ r.shown
  <2>1. s.vm
    BY <1>2, <1>7 DEF Tidy
  <2> QED
    BY <1>2, <1>4, <1>7, <2>1, NoneAssumption DEF Tidy
<1>8. ASSUME NEW stuck \in (SUBSET MayStick(r, others)) \ {{}},
             t = [u EXCEPT !.held = stuck, !.shown = FALSE]
      PROVE  t.vm /\ Tidy(t) /\ t # None /\ t.held \subseteq s.held
  <2>1. stuck \subseteq s.held /\ stuck # {}
    BY <1>5
  <2>2. s.vm /\ s.held \subseteq Names
    BY <1>2, <2>1 DEF Tidy, Script
  <2>3. t \in Script /\ t.vm = s.vm /\ t.held = stuck /\ t.state = "Retiring"
    BY <1>4, <1>8, <2>1, <2>2 DEF Script
  <2> QED
    BY <2>1, <2>2, <2>3, NoneAssumption DEF Tidy
<1>9. \/ t = Shell("Retiring") \/ (t = u /\ r.shown)
      \/ \E stuck \in (SUBSET MayStick(r, others)) \ {{}} : t = [u EXCEPT !.held = stuck, !.shown = FALSE]
  BY <1>1, <1>2, <1>3 DEF Cleaned
<1> QED
  BY <1>6, <1>7, <1>8, <1>9

\* The same of Cleanup, which leaves a script alone that has a callback running.
LEMMA CleanupLeaves ==
    ASSUME Shape, NEW p \in Plugins, current[p] # None, Clean(p), NEW others, NEW s \in Cleanup(p, others)
    PROVE  /\ s # None /\ s.held \subseteq current[p].held
           /\ \/ s = Shell("Retiring") /\ ~s.vm /\ s.held = {} /\ ~Active(p)
              \/ s.vm /\ Tidy(s)
<1>1. current[p] \in Script /\ Tidy(current[p])
  BY DEF Shape, Clean
<1>2. CASE ~Active(p)
  <2>1. s \in Cleaned(Retire(current[p]), others)
    BY <1>2 DEF Cleanup
  <2> QED
    BY <1>1, <1>2, <2>1, CleanedLeaves
<1>3. CASE Active(p)
  <2>1. s = Retire(current[p]) /\ current[p].vm
    BY <1>3 DEF Cleanup, Clean
  <2>2. s \in Script /\ s.vm /\ s.state = "Retiring" /\ s.held = current[p].held
    BY <1>1, <2>1 DEF Retire, Script
  <2> QED
    BY <2>2, NoneAssumption DEF Tidy
<1> QED
  BY <1>2, <1>3

\* A candidate holds what it could register, and nothing when it is gone.
LEMMA PreparedLeaves ==
    ASSUME NEW f \in Files, f.id \in Plugins, NEW c \in Prepared(f)
    PROVE  /\ Tidy(c) /\ c.held \subseteq Available(f.id)
           /\ c.state = "Loading" => ~c.stopped
           /\ c.state = "Failed" => c.held = {}
<1> DEFINE new == [Shell("Loading") EXCEPT !.file = f, !.vm = TRUE]
           failed == [new EXCEPT !.state = "Retiring", !.stopped = TRUE]
<1>1. /\ Shell("Loading") \in Script /\ Shell("Failed") \in Script
  BY LifecycleAssumption DEF Shell, Script
<1>2. CASE c = Shell("Failed")
  BY <1>2 DEF Shell, Tidy
<1>3. CASE c # Shell("Failed")
  <2>1. /\ new \in Script /\ new.vm /\ ~new.stopped /\ new.state = "Loading"
        /\ failed \in Script /\ failed.vm /\ failed.state = "Retiring"
    BY <1>1 DEF Script, Shell
  <2>2. Available(f.id) \subseteq Names
    BY DEF Available
  <2>3. [new EXCEPT !.held = Available(f.id)].held = Available(f.id)
    BY <2>1 DEF Script
  <2>4. \/ \E H \in SUBSET Available(f.id) : c = [new EXCEPT !.held = H]
        \/ \E stuck \in SUBSET Available(f.id) : c = [failed EXCEPT !.held = stuck]
    BY <1>3, <2>3 DEF Prepared, MayStick
  <2> HIDE DEF new, failed
  <2>5. c.vm /\ c.held \subseteq Available(f.id)
        /\ ((c.state = "Loading" /\ ~c.stopped) \/ c.state = "Retiring")
    BY <2>1, <2>2, <2>4 DEF Script
  <2> QED
    BY <2>5 DEF Tidy
<1> QED
  BY <1>2, <1>3

\* The functions of the state, when one plugin's slot is written.
LEMMA SlotWritten ==
    ASSUME Shape, NEW p \in Plugins, NEW x, NEW y,
           current' = [current EXCEPT ![p] = x], replacement' = [replacement EXCEPT ![p] = y]
    PROVE  /\ current'[p] = x /\ replacement'[p] = y
           /\ \A q \in Plugins \ {p} : current'[q] = current[q] /\ replacement'[q] = replacement[q]
           /\ Holds(p)' = HeldBy(x) \cup HeldBy(y)
BY DEF Shape, Holds, HeldBy

-----------------------------------------------------------------------------
(* The operations.                                                         *)

\* A failure that is recorded takes the place of a script that holds nothing.
LEMMA RecordFailureCleans ==
    ASSUME IInv, Called, CInv, NEW P, RecordFailure(P), UNCHANGED <<replacement, registered, stack>>
    PROVE  CInv'
<1>1. ASSUME NEW p \in Plugins
      PROVE  \/ current'[p] = current[p]
             \/ /\ current[p] = None \/ ~current[p].vm
                /\ replacement[p] = None /\ current'[p] = Shell("Failed")
  BY DEF RecordFailure, IInv, Shape, Shaped
<1>2. /\ Shell("Failed").held = {} /\ Tidy(Shell("Failed")) /\ Shell("Failed") # None
  <2>1. Shell("Failed") \in Script
    BY LifecycleAssumption DEF Shell, Script
  <2> QED
    BY <2>1, NoneAssumption DEF Shell, Tidy
<1>3. ASSUME NEW p \in Plugins PROVE Holds(p)' = Holds(p) /\ Clean(p)'
  <2>1. CASE current'[p] = current[p]
    BY <2>1 DEF CInv, Holds, HeldBy, Clean, Tidy, Active
  <2>2. CASE /\ current[p] = None \/ ~current[p].vm
             /\ current'[p] = Shell("Failed")
    <3>1. ~Active(p)
      BY <2>2 DEF CInv, Clean, Called, Active, ToSet
    <3>2. Holds(p)' = Holds(p)
      BY <1>2, <2>2 DEF CInv, Clean, Tidy, Holds, HeldBy
    <3>3. Tidy(current'[p]) /\ Tidy(replacement'[p])
      BY <1>2, <2>2 DEF CInv, Clean
    <3> QED
      BY <3>1, <3>2, <3>3 DEF Clean, Active, Tidy
  <2> QED
    BY <1>1, <2>1, <2>2
<1> QED
  BY <1>3, NoneHolds

\* The candidate takes the place of a script that holds nothing.
LEMMA LoadCleans ==
    ASSUME IInv, Called, CInv, NEW p \in Plugins, LoadScript(p), UNCHANGED <<replacement, stack>>
    PROVE  CInv'
<1>1. CASE RecordFailure({p}) /\ UNCHANGED registered
  BY <1>1, RecordFailureCleans
<1>2. ASSUME Acceptable(p), NEW c \in Prepared(disk[p]), registered' = registered \cup c.held, NEW x,
             current' = [current EXCEPT ![p] = x],
             \/ c.state = "Loading" /\ x = [c EXCEPT !.state = "Running"]
             \/ c.state # "Loading" /\ x = c
      PROVE  CInv'
  <2>1. disk[p] \in Files /\ disk[p].id = p /\ Loadable(p)
    BY <1>2 DEF Acceptable, IInv, Shape
  <2>2. /\ c \in Script /\ c # None /\ Tidy(c) /\ c.held \subseteq Available(p)
        /\ c.state = "Loading" => ~c.stopped
    BY <1>2, <2>1, PreparedFields, PreparedLeaves DEF Shaped
  <2>3. x # None /\ Tidy(x) /\ x.held = c.held
    BY <1>2, <2>2, NoneAssumption DEF Tidy, Script
  <2>4. (current[p] = None \/ ~current[p].vm) /\ HeldBy(current[p]) = {} /\ ~Active(p)
    BY <2>1 DEF Loadable, CInv, Clean, Tidy, HeldBy, Called, Active, ToSet
  <2>5. replacement' = [replacement EXCEPT ![p] = replacement[p]]
    BY DEF IInv, Shape
  <2>6. /\ current'[p] = x /\ replacement'[p] = replacement[p]
        /\ \A q \in Plugins \ {p} : current'[q] = current[q] /\ replacement'[q] = replacement[q]
        /\ Holds(p)' = HeldBy(x) \cup HeldBy(replacement[p])
    BY <1>2, <2>5, SlotWritten DEF IInv
  <2>7. Holds(p) = HeldBy(replacement[p]) /\ HeldBy(x) = c.held
    BY <2>3, <2>4 DEF Holds, HeldBy
  <2>8. registered' = Others(p) \cup Holds(p)'
    BY <1>2, <2>6, <2>7, MatchedByPlugin DEF CInv
  <2>9. Clean(p)'
    BY <2>3, <2>4, <2>6 DEF CInv, Clean, Tidy, Active
  <2> QED
    BY <2>2, <2>6, <2>7, <2>8, <2>9, OneCleans DEF Active
<1> QED
  BY <1>1, <1>2 DEF LoadScript

\* What was released is forgotten by the host, unless another plugin has it.
LEMMA UnloadCleans ==
    ASSUME IInv, CInv, NEW p \in Plugins, UnloadScript(p), UNCHANGED stack
    PROVE  CInv'
<1> DEFINE old == replacement[p]
           besideOld == HeldBesides({<<p, "replacement">>})
           others == HeldBesides({p} \X {"current", "replacement"})
<1>1. /\ besideOld = Others(p) \cup HeldBy(current[p]) /\ others = Others(p)
      /\ registered = Others(p) \cup HeldBy(current[p]) \cup HeldBy(old)
  BY HeldByPlugin, MatchedByPlugin DEF CInv, Holds
<1>2. /\ current[p] # None /\ current[p] \in Script /\ Clean(p) /\ Shape
      /\ old # None => old \in Script
  BY DEF UnloadScript, IInv, Shape, Shaped, CInv
<1>3. ASSUME old # None, NEW r \in Cleaned(Retire(old), besideOld), r.vm,
             replacement' = [replacement EXCEPT ![p] = r], UNCHANGED current,
             registered' = registered \ Forgotten(old, r, besideOld)
      PROVE  CInv'
  <2>1. r # None /\ r.held \subseteq old.held /\ Tidy(r)
    BY <1>2, <1>3, CleanedLeaves DEF Clean
  <2>2. current' = [current EXCEPT ![p] = current[p]]
    BY <1>3 DEF IInv, Shape
  <2>3. /\ current'[p] = current[p] /\ replacement'[p] = r
        /\ \A q \in Plugins \ {p} : current'[q] = current[q] /\ replacement'[q] = replacement[q]
        /\ Holds(p)' = HeldBy(current[p]) \cup HeldBy(r)
    BY <1>2, <1>3, <2>2, SlotWritten
  <2>4. HeldBy(r) = r.held /\ HeldBy(old) = old.held
    BY <1>3, <2>1 DEF HeldBy
  <2> HIDE DEF old, besideOld, others
  <2>5. registered' = Others(p) \cup Holds(p)'
    BY <1>1, <1>3, <2>1, <2>3, <2>4 DEF Forgotten
  <2>6. Clean(p)'
    BY <1>2, <2>1, <2>3 DEF Clean, Tidy, Active
  <2>7. Holds(p)' \subseteq Holds(p)
    BY <2>1, <2>3, <2>4 DEF Holds, old
  <2> QED
    BY <2>3, <2>5, <2>6, <2>7, OneCleans DEF Active
<1>4. ASSUME NEW gone, NEW s \in Cleanup(p, others), NEW x,
             gone = IF old = None THEN {} ELSE Forgotten(old, Shell("Retiring"), besideOld),
             x = (IF s.vm THEN s ELSE [s EXCEPT !.state = "Disabled"]),
             current' = [current EXCEPT ![p] = x], replacement' = [replacement EXCEPT ![p] = None],
             registered' = (registered \ gone) \ Forgotten(current[p], s, others)
      PROVE  CInv'
  <2>1. /\ s # None /\ s.held \subseteq current[p].held
        /\ \/ s = Shell("Retiring") /\ ~s.vm /\ s.held = {} /\ ~Active(p)
           \/ s.vm /\ Tidy(s)
    BY <1>2, <1>4, CleanupLeaves
  <2>2. /\ x # None /\ Tidy(x) /\ x.held = s.held /\ (Active(p) => x.vm)
    <3>1. CASE s.vm
      BY <1>4, <2>1, <3>1
    <3>2. CASE ~s.vm
      <4>1. x = [Shell("Retiring") EXCEPT !.state = "Disabled"] /\ s = Shell("Retiring")
        BY <1>4, <2>1, <3>2
      <4>2. Shell("Retiring") \in Script
        BY LifecycleAssumption DEF Shell, Script
      <4>3. x \in Script /\ x.held = {} /\ x.state = "Disabled" /\ ~x.vm /\ ~x.shown /\ ~x.stopped
        BY <4>1, <4>2 DEF Shell, Script
      <4> QED
        BY <2>1, <3>2, <4>3, NoneAssumption DEF Tidy
    <3> QED
      BY <3>1, <3>2
  <2>3. /\ current'[p] = x /\ replacement'[p] = None
        /\ \A q \in Plugins \ {p} : current'[q] = current[q] /\ replacement'[q] = replacement[q]
        /\ Holds(p)' = HeldBy(x) \cup HeldBy(None)
    <3>1. Shape
      BY <1>2
    <3>2. current' = [current EXCEPT ![p] = x] /\ replacement' = [replacement EXCEPT ![p] = None]
      BY <1>4
    <3> QED
      BY <3>1, <3>2, SlotWritten
  <2>4. HeldBy(x) = s.held /\ HeldBy(None) = {} /\ HeldBy(current[p]) = current[p].held
    BY <1>2, <2>2 DEF HeldBy
  <2>5. registered \ gone = Others(p) \cup HeldBy(current[p])
    <3>1. Shell("Retiring").held = {}
      BY DEF Shell
    <3>2. old # None => HeldBy(old) = old.held
      BY DEF HeldBy
    <3>3. old = None => HeldBy(old) = {}
      BY DEF HeldBy
    <3> HIDE DEF old, besideOld, others
    <3> QED
      BY <1>1, <1>4, <3>1, <3>2, <3>3 DEF Forgotten
  <2>6. registered' = Others(p) \cup Holds(p)'
    <3> HIDE DEF old, besideOld, others
    <3> QED
      BY <1>1, <1>4, <2>1, <2>3, <2>4, <2>5 DEF Forgotten
  <2>7. Clean(p)'
    BY <2>2, <2>3 DEF Clean, Tidy, Active
  <2>8. Holds(p)' \subseteq Holds(p)
    BY <2>1, <2>3, <2>4 DEF Holds
  <2> QED
    BY <2>3, <2>6, <2>7, <2>8, OneCleans DEF Active
<1> QED
  BY <1>3, <1>4 DEF UnloadScript

\* A candidate takes over, or waits for a script that keeps some of its names.
LEMMA ActivateCleans ==
    ASSUME IInv, CInv, NEW p \in Plugins, current[p] # None, ~Active(p), UNCHANGED stack,
           NEW c \in Script, c.state = "Loading", c.vm, ~c.stopped, c # None,
           HeldBy(replacement[p]) \subseteq c.held, c.held \subseteq Holds(p) \cup Available(p),
           NEW known, known = registered \cup c.held, preserved'[p] \in {"Running", "Paused"},
           Activate(p, c, known)
    PROVE  CInv'
<1>1. HeldBesides({p} \X {"current", "replacement"}) = Others(p)
  BY HeldByPlugin
<1>2. PICK s \in Cleanup(p, Others(p) \cup c.held) :
          /\ registered' = known \ Forgotten(current[p], s, Others(p) \cup c.held)
          /\ \/ /\ s.vm
                /\ current' = [current EXCEPT ![p] = s] /\ replacement' = [replacement EXCEPT ![p] = c]
             \/ /\ ~s.vm
                /\ current' = [current EXCEPT ![p] = [c EXCEPT !.state = preserved'[p]]]
                /\ replacement' = [replacement EXCEPT ![p] = None]
  BY <1>1 DEF Activate
<1>3. /\ s # None /\ s.held \subseteq current[p].held
      /\ (~s.vm /\ s.held = {}) \/ (s.vm /\ Tidy(s))
  BY CleanupLeaves DEF IInv, CInv
<1>4. /\ known = Others(p) \cup current[p].held \cup c.held
      /\ registered' = Others(p) \cup c.held \cup s.held
  <2>1. known = Others(p) \cup current[p].held \cup c.held
    BY MatchedByPlugin DEF CInv, Holds, HeldBy
  <2> QED
    BY <1>2, <1>3, <2>1 DEF Forgotten
<1>5. Tidy(c) /\ HeldBy(c) = c.held /\ HeldBy(None) = {} /\ current[p].held \subseteq Holds(p)
  BY DEF Tidy, HeldBy, Holds
<1>6. CASE /\ s.vm
           /\ current' = [current EXCEPT ![p] = s] /\ replacement' = [replacement EXCEPT ![p] = c]
  <2>1. /\ current'[p] = s /\ replacement'[p] = c
        /\ \A q \in Plugins \ {p} : current'[q] = current[q] /\ replacement'[q] = replacement[q]
        /\ Holds(p)' = HeldBy(s) \cup HeldBy(c)
    BY <1>6, SlotWritten DEF IInv
  <2>2. HeldBy(s) = s.held
    BY <1>3 DEF HeldBy
  <2>3. /\ registered' = Others(p) \cup Holds(p)'
        /\ Holds(p)' \subseteq Holds(p) \cup Available(p)
    BY <1>3, <1>4, <1>5, <2>1, <2>2
  <2>4. Clean(p)'
    BY <1>3, <1>5, <1>6, <2>1 DEF Clean, Tidy
  <2> QED
    BY <2>1, <2>3, <2>4, OneCleans DEF Active
<1>7. CASE /\ ~s.vm
           /\ current' = [current EXCEPT ![p] = [c EXCEPT !.state = preserved'[p]]]
           /\ replacement' = [replacement EXCEPT ![p] = None]
  <2>1. PICK x : x = [c EXCEPT !.state = preserved'[p]]
    OBVIOUS
  <2>2. x \in Script /\ x.held = c.held /\ x.vm /\ ~x.stopped /\ x.state \in {"Running", "Paused"}
    BY <2>1 DEF Script
  <2>3. /\ current'[p] = x /\ replacement'[p] = None
        /\ \A q \in Plugins \ {p} : current'[q] = current[q] /\ replacement'[q] = replacement[q]
        /\ Holds(p)' = HeldBy(x) \cup HeldBy(None)
    BY <1>7, <2>1, SlotWritten DEF IInv
  <2>4. x # None /\ HeldBy(x) = c.held
    BY <2>2, NoneAssumption DEF HeldBy
  <2>5. /\ registered' = Others(p) \cup Holds(p)'
        /\ Holds(p)' \subseteq Holds(p) \cup Available(p)
    BY <1>3, <1>4, <1>5, <1>7, <2>3, <2>4
  <2>6. Clean(p)'
    BY <2>2, <2>3 DEF Clean, Tidy
  <2> QED
    BY <2>3, <2>5, <2>6, OneCleans DEF Active
<1> QED
  BY <1>2, <1>6, <1>7

\* The three ways a reload goes on.
LEMMA ReloadCleans ==
    ASSUME IInv, CInv, NEW p \in Plugins, ReloadScript(p), UNCHANGED <<disk, stack>>
    PROVE  CInv'
<1>1. /\ current[p] # None /\ ~Active(p) /\ Shape /\ Clean(p)
      /\ current = [current EXCEPT ![p] = current[p]]
  BY DEF ReloadScript, IInv, CInv, Shape
<1>2. CASE ReloadPrepare(p)
  <2>1. /\ disk[p] \in Files /\ disk[p].id = p /\ replacement[p] = None
        /\ preserved' = [preserved EXCEPT ![p] = Inherited(p)]
    BY <1>1, <1>2 DEF ReloadPrepare, Shape
  <2>2. preserved'[p] \in {"Running", "Paused"}
    BY <1>1, <2>1 DEF Shape, Inherited
  <2>3. PICK c \in Prepared(disk[p]) :
            \/ c.state = "Loading" /\ Activate(p, c, registered \cup c.held)
            \/ c.state = "Failed" /\ UNCHANGED <<current, replacement, registered>>
            \/ /\ c.state = "Retiring"
               /\ replacement' = [replacement EXCEPT ![p] = c]
               /\ registered' = registered \cup c.held
               /\ UNCHANGED current
    BY <1>2 DEF ReloadPrepare
  <2>4. /\ c \in Script /\ c # None /\ Tidy(c) /\ c.held \subseteq Available(p)
        /\ c.state = "Loading" => c.vm /\ ~c.stopped
    BY <2>1, PreparedFields, PreparedLeaves DEF Shaped
  <2>5. HeldBy(replacement[p]) = {}
    BY <2>1 DEF HeldBy
  <2>6. CASE c.state = "Loading" /\ Activate(p, c, registered \cup c.held)
    BY <1>1, <2>2, <2>4, <2>5, <2>6, ActivateCleans
  <2>7. CASE UNCHANGED <<current, replacement, registered>>
    BY <2>7, NoneHolds DEF CInv, Clean, Tidy, Active, Holds, HeldBy
  <2>8. CASE /\ c.state = "Retiring" /\ replacement' = [replacement EXCEPT ![p] = c]
             /\ registered' = registered \cup c.held /\ UNCHANGED current
    <3>1. /\ current'[p] = current[p] /\ replacement'[p] = c
          /\ \A q \in Plugins \ {p} : current'[q] = current[q] /\ replacement'[q] = replacement[q]
          /\ Holds(p)' = HeldBy(current[p]) \cup HeldBy(c)
      BY <1>1, <2>8, SlotWritten
    <3>2. HeldBy(c) = c.held /\ Holds(p) = HeldBy(current[p])
      BY <2>4, <2>5 DEF HeldBy, Holds
    <3>3. registered' = Others(p) \cup Holds(p)'
      BY <2>8, <3>1, <3>2, MatchedByPlugin DEF CInv
    <3>4. Clean(p)'
      BY <1>1, <2>4, <3>1 DEF Clean, Tidy, Active
    <3> QED
      BY <2>4, <3>1, <3>2, <3>3, <3>4, OneCleans DEF Active
  <2> QED
    BY <2>3, <2>6, <2>7, <2>8
<1>3. CASE ReloadClean(p)
  <2> DEFINE others == HeldBesides({<<p, "replacement">>})
  <2>1. others = Others(p) \cup HeldBy(current[p])
    BY HeldByPlugin
  <2>2. PICK r \in Cleaned(replacement[p], others) :
            /\ replacement' = [replacement EXCEPT ![p] = IF r.vm THEN r ELSE None]
            /\ registered' = registered \ Forgotten(replacement[p], r, others)
    BY <1>3 DEF ReloadClean
  <2>3. /\ replacement[p] # None /\ replacement[p] \in Script /\ replacement[p].state = "Retiring"
        /\ Tidy(replacement[p]) /\ UNCHANGED current
    BY <1>1, <1>3 DEF ReloadClean, Shape, Shaped, Clean
  <2> HIDE DEF others
  <2>4. Retire(replacement[p]) = replacement[p]
    BY <2>3 DEF Retire, Script
  <2>5. /\ r # None /\ r.held \subseteq replacement[p].held
        /\ (~r.vm /\ r.held = {}) \/ (r.vm /\ Tidy(r))
    BY <2>2, <2>3, <2>4, CleanedLeaves
  <2>6. PICK y : y = IF r.vm THEN r ELSE None
    OBVIOUS
  <2>7. Tidy(y) /\ HeldBy(y) = r.held
    BY <2>5, <2>6 DEF Tidy, HeldBy
  <2>8. /\ current'[p] = current[p] /\ replacement'[p] = y
        /\ \A q \in Plugins \ {p} : current'[q] = current[q] /\ replacement'[q] = replacement[q]
        /\ Holds(p)' = HeldBy(current[p]) \cup HeldBy(y)
    <3>1. current' = [current EXCEPT ![p] = current[p]] /\ replacement' = [replacement EXCEPT ![p] = y]
      BY <1>1, <2>2, <2>3, <2>6
    <3> QED
      BY <1>1, <3>1, SlotWritten
  <2>9. HeldBy(replacement[p]) = replacement[p].held
    BY <2>3 DEF HeldBy
  <2>10. registered = Others(p) \cup HeldBy(current[p]) \cup replacement[p].held
    BY <2>9, MatchedByPlugin DEF CInv, Holds
  <2>11. registered' = Others(p) \cup Holds(p)'
    BY <2>1, <2>2, <2>5, <2>7, <2>8, <2>10 DEF Forgotten
  <2>12. Clean(p)' /\ Holds(p)' \subseteq Holds(p)
    BY <1>1, <2>5, <2>7, <2>8, <2>9 DEF Clean, Tidy, Active, Holds
  <2> QED
    BY <2>8, <2>11, <2>12, OneCleans DEF Active
<1>4. CASE ReloadActivate(p)
  <2> DEFINE c == replacement[p]
  <2>1. /\ c # None /\ c.state = "Loading" /\ c.vm /\ c \in Script /\ ~c.stopped
        /\ Activate(p, c, registered) /\ preserved'[p] \in {"Running", "Paused"}
    BY <1>1, <1>4 DEF ReloadActivate, Shape, Shaped, Clean, Tidy
  <2>2. HeldBy(c) = c.held /\ c.held \subseteq Holds(p)
    BY <2>1 DEF HeldBy, Holds
  <2>3. registered = registered \cup c.held
    BY <2>2, MatchedByPlugin DEF CInv
  <2> HIDE DEF c
  <2> QED
    BY <1>1, <2>1, <2>2, <2>3, ActivateCleans DEF c
<1> QED
  BY <1>2, <1>3, <1>4 DEF ReloadScript

\* A script that runs, or is paused, registers and shows, and may be retired.
LEMMA TouchCleans ==
    ASSUME IInv, CInv, NEW p \in Plugins, NEW x, x # None, Tidy(x), x.vm, current[p] # None,
           current[p].held \subseteq x.held, x.held \subseteq current[p].held \cup Available(p),
           current' = [current EXCEPT ![p] = x], UNCHANGED replacement,
           registered' = registered \cup x.held, \A q \in Plugins : Active(q)' => Active(q)
    PROVE  CInv'
<1>1. replacement' = [replacement EXCEPT ![p] = replacement[p]]
  BY DEF IInv, Shape
<1>2. /\ current'[p] = x /\ replacement'[p] = replacement[p]
      /\ \A q \in Plugins \ {p} : current'[q] = current[q] /\ replacement'[q] = replacement[q]
      /\ Holds(p)' = HeldBy(x) \cup HeldBy(replacement[p])
  BY <1>1, SlotWritten DEF IInv
<1>3. Holds(p)' = Holds(p) \cup x.held
  BY <1>2 DEF Holds, HeldBy
<1>4. registered' = Others(p) \cup Holds(p)' /\ Holds(p)' \subseteq Holds(p) \cup Available(p)
  BY <1>3, MatchedByPlugin DEF CInv, Holds, HeldBy
<1>5. Clean(p)'
  BY <1>2 DEF CInv, Clean, Tidy
<1> QED
  BY <1>2, <1>4, <1>5, OneCleans

\* Pause and Resume: a script that runs or is paused was not told to stop.
LEMMA SwitchCleans ==
    ASSUME IInv, CInv, NEW p \in Plugins, current[p] # None, current[p].state \in {"Running", "Paused"},
           NEW state \in {"Running", "Paused"}, NEW shown \in BOOLEAN,
           current' = [current EXCEPT ![p].state = state, ![p].shown = shown],
           UNCHANGED <<replacement, registered, stack>>
    PROVE  CInv'
<1>1. current[p] \in Script /\ current' = [current EXCEPT ![p] = [current[p] EXCEPT !.state = state, !.shown = shown]]
  BY DEF IInv, Shape
<1>2. PICK x : x = [current[p] EXCEPT !.state = state, !.shown = shown]
  OBVIOUS
<1>3. /\ x \in Script /\ x.held = current[p].held /\ x.vm = current[p].vm /\ x.state = state
      /\ x.stopped = current[p].stopped
  BY <1>1, <1>2 DEF Script
<1>4. current[p].vm /\ ~current[p].stopped
  BY DEF CInv, Clean, Tidy
<1>5. x # None /\ Tidy(x)
  BY <1>3, <1>4, NoneAssumption DEF Tidy
<1>6. registered' = registered \cup x.held
  BY <1>3, MatchedByPlugin DEF CInv, Holds, HeldBy
<1> QED
  BY <1>1, <1>2, <1>3, <1>4, <1>5, <1>6, TouchCleans DEF Active

\* Nobody knew a plugin that is discovered, and it holds nothing.
LEMMA DiscoverCleans ==
    ASSUME IInv, Called, CInv, NEW refresh \in BOOLEAN, DiscoverScripts(refresh)
    PROVE  CInv'
<1>1. /\ \A p \in Plugins :
            current'[p] = current[p] \/ (current[p] = None /\ current'[p] \in {Shell("Failed"), Shell("Disabled")})
      /\ UNCHANGED <<replacement, registered, stack>>
  BY DEF DiscoverScripts, Loaded
<1>2. \A s \in {Shell("Failed"), Shell("Disabled")} : HeldBy(s) = {} /\ Tidy(s)
  BY DEF Shell, HeldBy, Tidy
<1>3. ASSUME NEW p \in Plugins PROVE Holds(p)' = Holds(p) /\ Clean(p)'
  <2>1. CASE current'[p] = current[p]
    BY <1>1, <2>1 DEF CInv, Holds, HeldBy, Clean, Tidy, Active
  <2>2. CASE current[p] = None /\ current'[p] \in {Shell("Failed"), Shell("Disabled")}
    <3>1. ~Active(p)
      BY <2>2 DEF Called, Active, ToSet
    <3>2. HeldBy(current'[p]) = {} /\ Tidy(current'[p]) /\ HeldBy(current[p]) = {}
      BY <1>2, <2>2 DEF HeldBy
    <3> QED
      BY <1>1, <3>1, <3>2 DEF CInv, Holds, Clean, Active
  <2> QED
    BY <1>1, <2>1, <2>2
<1> QED
  BY <1>1, <1>3, NoneHolds

\* A callback begins in a script that runs.
LEMMA CallBeginCleans ==
    ASSUME IInv, Called, CInv, NEW p \in Plugins, CallBegin(p)
    PROVE  CInv'
<1>1. /\ current[p] # None /\ current[p].state = "Running" /\ stack' = Append(stack, p)
      /\ UNCHANGED <<current, replacement, registered>>
  BY DEF CallBegin
<1>2. \A q : Active(q)' => Active(q) \/ q = p
  BY <1>1 DEF Called, ToSet, Active
<1>3. current[p].vm
  BY <1>1 DEF CInv, Clean, Tidy
<1>4. \A q \in Plugins : Clean(q)'
  BY <1>1, <1>2, <1>3 DEF CInv, Clean, Tidy
<1> QED
  BY <1>1, <1>4, NoneHolds DEF Holds, HeldBy

\* A callback registers only what is free for its plugin.
LEMMA RegisterCleans ==
    ASSUME IInv, Called, CInv, NEW n \in Names, Register(n)
    PROVE  CInv'
<1> DEFINE p == Last(stack)
<1>1. p \in Plugins /\ current[p] # None /\ current[p] \in Script
  BY LastCalled DEF Register, IInv, Shape
<1>2. /\ current' = [current EXCEPT ![p] = [current[p] EXCEPT !.held = @ \cup {n}]]
      /\ current[p].state \in {"Loading", "Running"} /\ n \in Available(p)
      /\ registered' = registered \cup {n} /\ UNCHANGED <<replacement, stack>>
  BY DEF Register, MayRegister, IInv, Shape
<1> HIDE DEF p
<1>3. PICK x : x = [current[p] EXCEPT !.held = @ \cup {n}]
  OBVIOUS
<1>4. /\ x \in Script /\ x.held = current[p].held \cup {n} /\ x.vm = current[p].vm
      /\ x.state = current[p].state /\ x.stopped = current[p].stopped
  BY <1>1, <1>3 DEF Script
<1>5. current[p].vm /\ ~current[p].stopped
  BY <1>1, <1>2 DEF CInv, Clean, Tidy
<1>6. x # None /\ Tidy(x)
  BY <1>2, <1>4, <1>5, NoneAssumption DEF Tidy
<1>7. registered' = registered \cup x.held
  BY <1>1, <1>2, <1>4, MatchedByPlugin DEF CInv, Holds, HeldBy
<1> QED
  BY <1>1, <1>2, <1>3, <1>4, <1>5, <1>6, <1>7, TouchCleans DEF Active

\* A menu opens or closes.
LEMMA MenuCleans ==
    ASSUME IInv, CInv, NEW p \in Plugins, current[p] # None, NEW shown \in BOOLEAN,
           shown => current[p].state = "Running",
           ~shown => current[p].shown,
           current' = [current EXCEPT ![p].shown = shown], UNCHANGED <<replacement, registered, stack>>
    PROVE  CInv'
<1>1. current[p] \in Script /\ current' = [current EXCEPT ![p] = [current[p] EXCEPT !.shown = shown]]
  BY DEF IInv, Shape
<1>2. PICK x : x = [current[p] EXCEPT !.shown = shown]
  OBVIOUS
<1>3. /\ x \in Script /\ x.held = current[p].held /\ x.vm = current[p].vm /\ x.state = current[p].state
      /\ x.stopped = current[p].stopped
  BY <1>1, <1>2 DEF Script
<1>4. current[p].vm /\ Tidy(current[p])
  BY DEF CInv, Clean, Tidy
<1>5. x # None /\ Tidy(x)
  BY <1>3, <1>4, NoneAssumption DEF Tidy
<1>6. registered' = registered \cup x.held
  BY <1>3, MatchedByPlugin DEF CInv, Holds, HeldBy
<1> QED
  BY <1>1, <1>2, <1>3, <1>4, <1>5, <1>6, TouchCleans DEF Active

\* A callback that ends may retire its script, which has a virtual machine.
LEMMA CallEndCleans ==
    ASSUME IInv, Called, CInv, NEW failed \in BOOLEAN, CallEnd(failed)
    PROVE  CInv'
<1> DEFINE p == Last(stack)
           faults == current[p].faults + 1
           capped == IF faults > FaultLimit THEN FaultLimit ELSE faults
           state == IF faults >= FaultLimit THEN "Retiring" ELSE current[p].state
<1>1. p \in Plugins /\ current[p] # None /\ current[p] \in Script
  BY LastCalled DEF CallEnd, IInv, Shape
<1>2. UNCHANGED <<replacement, registered>> /\ stack' = Front(stack) /\ stack # <<>>
  BY DEF CallEnd
<1>3. /\ \A q : Active(q)' => Active(q)
      /\ Active(p)
  <2>1. /\ stack \in Seq(Plugins) /\ Len(stack) \in 1..Len(stack) /\ p = stack[Len(stack)]
        /\ stack' \in Seq(Plugins) /\ Len(stack') = Len(stack) - 1
        /\ \A i \in 1..Len(stack') : stack'[i] = stack[i]
    BY <1>2, LastCalled DEF Called, Last
  <2> HIDE DEF p
  <2> QED
    BY <2>1 DEF ToSet, Active
<1>4. CASE failed
  <2>1. current' = [current EXCEPT ![p] = [current[p] EXCEPT !.faults = capped, !.state = state]]
    BY <1>1, <1>4 DEF CallEnd, IInv, Shape
  <2>2. PICK x : x = [current[p] EXCEPT !.faults = capped, !.state = state]
    OBVIOUS
  <2>3. capped \in 0..FaultLimit /\ (state = current[p].state \/ state = "Retiring")
    BY <1>1, LifecycleAssumption DEF Script
  <2>4. /\ x \in Script /\ x.held = current[p].held /\ x.vm = current[p].vm /\ x.state = state
        /\ x.stopped = current[p].stopped
    BY <1>1, <2>2, <2>3 DEF Script
  <2> HIDE DEF p, capped, state
  <2>5. current[p].vm /\ Tidy(current[p])
    BY <1>1, <1>3 DEF CInv, Clean
  <2>6. x # None /\ Tidy(x)
    BY <1>1, <2>3, <2>4, <2>5, NoneAssumption DEF Tidy
  <2>7. registered' = registered \cup x.held
    BY <1>1, <1>2, <2>4, MatchedByPlugin DEF CInv, Holds, HeldBy
  <2> QED
    BY <1>1, <1>2, <1>3, <2>1, <2>2, <2>4, <2>5, <2>6, <2>7, TouchCleans
<1>5. CASE ~failed
  <2>1. UNCHANGED current
    BY <1>5 DEF CallEnd
  <2> QED
    BY <1>2, <1>3, <2>1, NoneHolds DEF CInv, Clean, Tidy, Holds, HeldBy
<1> QED
  BY <1>4, <1>5

-----------------------------------------------------------------------------
(* The loops, and the order of the loads.                                  *)

\* What the loops remember, and when plugins were loaded.
RefreshLoop == [kind : {"refresh"}, at : 1..N + 1, progress : BOOLEAN,
                pending : UNION {[P -> Files] : P \in SUBSET Plugins}]
UnloadLoop == [kind : {"unloadAll"}, at : Nat, progress : BOOLEAN, attempted : SUBSET Plugins,
               order : Seq(Plugins)]
Remembered ==
    /\ op = Idle \/ op \in RefreshLoop \/ (op \in UnloadLoop /\ op.at \in 1..Len(op.order) + 1)
    /\ loads \in Seq(Plugins) /\ Len(stack) <= MaxDepth

\* A plugin is taken from its place in the order of the loads, and put at the end.
LEMMA WithoutKeeps ==
    ASSUME loads \in Seq(Plugins), NEW p \in Plugins
    PROVE  Without(p) \in Seq(Plugins) /\ Append(Without(p), p) \in Seq(Plugins)
<1>1. CASE p \notin ToSet(loads)
  BY <1>1 DEF Without
<1>2. CASE p \in ToSet(loads)
  <2>1. PICK i \in DOMAIN loads : loads[i] = p
    BY <1>2 DEF ToSet
  <2>2. PICK j : j = LoadOrder(p)
    OBVIOUS
  <2>3. j \in 1..Len(loads)
    BY <1>2, <2>1, <2>2 DEF LoadOrder
  <2>4. Without(p) = SubSeq(loads, 1, j - 1) \o SubSeq(loads, j + 1, Len(loads))
    BY <1>2, <2>2 DEF Without, RemoveAt
  <2>5. SubSeq(loads, 1, j - 1) \in Seq(Plugins) /\ SubSeq(loads, j + 1, Len(loads)) \in Seq(Plugins)
    BY <2>3
  <2> QED
    BY <2>4, <2>5
<1> QED
  BY <1>1, <1>2

\* Loading, reloading.
LEMMA LoadRemembers ==
    ASSUME loads \in Seq(Plugins), NEW p \in Plugins
    PROVE  LoadScript(p) \/ ReloadScript(p) => loads' \in Seq(Plugins)
<1>1. LoadScript(p) => loads' \in {loads, Without(p), Append(Without(p), p)}
  BY DEF LoadScript
<1>2. ReloadScript(p) => loads' \in {loads, Without(p), Append(Without(p), p)}
  BY DEF ReloadScript, ReloadPrepare, ReloadClean, ReloadActivate, Activate
<1> QED
  BY <1>1, <1>2, WithoutKeeps

\* The loops remember plugins and files.
LEMMA LoopRemembers ==
    ASSUME IInv, Remembered, OpStep
    PROVE  /\ op' = Idle \/ op' \in RefreshLoop \/ (op' \in UnloadLoop /\ op'.at \in 1..Len(op'.order) + 1)
           /\ op.kind = "refresh" => Ready \subseteq Plugins
           /\ op.kind = "unloadAll" => \A i \in Unloadable : op.order[i] \in Plugins
<1>1. N \in Nat
  BY LifecycleAssumption
<1>2. Idle.kind = "idle" /\ (op \in RefreshLoop => op.kind = "refresh") /\ (op \in UnloadLoop => op.kind = "unloadAll")
  BY DEF Idle, RefreshLoop, UnloadLoop
<1>3. ASSUME op.kind = "refresh"
      PROVE  /\ op \in RefreshLoop /\ Ready \subseteq Plugins
             /\ RefreshNext => op' \in RefreshLoop
             /\ RefreshPass => op' = Idle \/ op' \in RefreshLoop
  <2>1. op \in RefreshLoop
    BY <1>2, <1>3 DEF Remembered
  <2>2. PICK P \in SUBSET Plugins : op.pending \in [P -> Files]
    BY <2>1 DEF RefreshLoop
  <2>3. Ready \subseteq P
    BY <2>2 DEF Ready
  <2>4. ASSUME RefreshNext PROVE op' \in RefreshLoop
    <3>1. PICK p \in First(Ready) :
              op' = [op EXCEPT !.at = p + 1, !.progress = TRUE, !.pending = Restrict(@, DOMAIN @ \ {p})]
      BY <2>4 DEF RefreshNext
    <3>2. p \in 1..N /\ p + 1 \in 1..N + 1
      BY <1>1, <2>3, <3>1 DEF First, Plugins
    <3>3. PICK at, rest : at = p + 1 /\ rest = Restrict(op.pending, DOMAIN op.pending \ {p})
      OBVIOUS
    <3>4. rest \in [P \ {p} -> Files] /\ P \ {p} \in SUBSET Plugins
      BY <2>2, <3>3 DEF Restrict
    <3>5. op' = [op EXCEPT !.at = at, !.progress = TRUE, !.pending = rest]
      BY <3>1, <3>3
    <3> QED
      BY <2>1, <3>2, <3>3, <3>4, <3>5 DEF RefreshLoop
  <2>5. ASSUME RefreshPass PROVE op' = Idle \/ op' \in RefreshLoop
    <3>1. 1 \in 1..N + 1
      BY <1>1
    <3> QED
      BY <2>1, <2>5, <3>1 DEF RefreshPass, RefreshLoop
  <2> QED
    BY <2>1, <2>3, <2>4, <2>5
<1>4. ASSUME op.kind = "unloadAll"
      PROVE  /\ \A i \in Unloadable : op.order[i] \in Plugins
             /\ UnloadAllNext => op' \in UnloadLoop /\ op'.at \in 1..Len(op'.order) + 1
             /\ UnloadAllPass => op' = Idle \/ (op' \in UnloadLoop /\ op'.at \in 1..Len(op'.order) + 1)
  <2>1. op \in UnloadLoop /\ op.at \in 1..Len(op.order) + 1 /\ op.order \in Seq(Plugins)
    BY <1>2, <1>4 DEF Remembered, UnloadLoop
  <2>2. \A i \in Unloadable : i \in 1..Len(op.order)
    BY <2>1 DEF Unloadable
  <2>3. \A i \in Unloadable : op.order[i] \in Plugins
    BY <2>1, <2>2
  <2>4. ASSUME UnloadAllNext PROVE op' \in UnloadLoop /\ op'.at \in 1..Len(op'.order) + 1
    <3>1. PICK i \in Unloadable, progress \in BOOLEAN :
              op' = [op EXCEPT !.at = i + 1, !.attempted = @ \cup {op.order[i]}, !.progress = progress]
      <4>1. PICK i \in Unloadable :
                op' = [op EXCEPT !.at = i + 1, !.attempted = @ \cup {op.order[i]},
                                 !.progress = @ \/ current'[op.order[i]].state = "Disabled"]
        BY <2>4 DEF UnloadAllNext, First
      <4>2. PICK progress : progress = (op.progress \/ current'[op.order[i]].state = "Disabled")
        OBVIOUS
      <4>3. progress \in BOOLEAN
        BY <4>2
      <4> QED
        BY <4>1, <4>2, <4>3
    <3>2. PICK at : at = i + 1
      OBVIOUS
    <3>3. at \in 1..Len(op.order) + 1 /\ at \in Nat /\ op.order[i] \in Plugins
      BY <2>1, <2>2, <2>3, <3>2
    <3>4. op' = [op EXCEPT !.at = at, !.attempted = @ \cup {op.order[i]}, !.progress = progress]
      BY <3>1, <3>2
    <3> QED
      BY <2>1, <3>3, <3>4 DEF UnloadLoop
  <2>5. ASSUME UnloadAllPass PROVE op' = Idle \/ (op' \in UnloadLoop /\ op'.at \in 1..Len(op'.order) + 1)
    <3>1. 1 \in 1..Len(op.order) + 1
      BY <2>1
    <3> QED
      BY <2>1, <2>5, <3>1 DEF UnloadAllPass, UnloadLoop
  <2> QED
    BY <2>3, <2>4, <2>5
<1> QED
  BY <1>3, <1>4 DEF OpStep, RefreshNext, RefreshPass, UnloadAllNext, UnloadAllPass

\* The loops begin with what there is.
LEMMA LoopBegins ==
    ASSUME IInv, Remembered
    PROVE  /\ \A refresh \in BOOLEAN : DiscoverScripts(refresh) => op' \in RefreshLoop
           /\ UnloadAll => op' \in UnloadLoop /\ op'.at \in 1..Len(op'.order) + 1
<1>1. N \in Nat /\ 1 \in 1..N + 1
  BY LifecycleAssumption
<1>2. ASSUME NEW refresh \in BOOLEAN, DiscoverScripts(refresh) PROVE op' \in RefreshLoop
  <2>1. PICK P : P = New \cup (IF refresh THEN Changed ELSE {})
    OBVIOUS
  <2>2. P \in SUBSET Plugins /\ \A p \in P : disk[p] \in Files
    BY <2>1 DEF New, Changed, Loaded
  <2>3. PICK pending : pending = [p \in P |-> disk[p]]
    OBVIOUS
  <2>4. pending \in [P -> Files]
    BY <2>2, <2>3
  <2>5. op' = [kind |-> "refresh", at |-> 1, progress |-> FALSE, pending |-> pending]
    BY <1>2, <2>1, <2>3 DEF DiscoverScripts
  <2> QED
    BY <1>1, <2>2, <2>4, <2>5 DEF RefreshLoop
<1>3. ASSUME UnloadAll PROVE op' \in UnloadLoop /\ op'.at \in 1..Len(op'.order) + 1
  <2>1. IsFiniteSet(Loaded)
    <3>1. IsFiniteSet(Plugins)
      BY <1>1, FS_Interval DEF Plugins
    <3> QED
      BY <3>1, FS_Subset DEF Loaded
  <2>2. PICK n : n = Cardinality(Loaded)
    OBVIOUS
  <2>3. n \in Nat
    BY <2>1, <2>2, FS_CardinalityType
  <2>4. PICK order \in [1..n -> Loaded] :
            op' = [kind |-> "unloadAll", at |-> 1, progress |-> FALSE, attempted |-> {}, order |-> order]
    BY <1>3, <2>2 DEF UnloadAll
  <2>5. order \in Seq(Plugins) /\ Len(order) = n
    BY <2>3 DEF Loaded
  <2> QED
    BY <2>3, <2>4, <2>5 DEF UnloadLoop
<1> QED
  BY <1>2, <1>3

-----------------------------------------------------------------------------
(* The theorem.                                                            *)

\* One step per operation and callback.
LEMMA CleanStep == IInv /\ Called /\ CInv /\ Remembered /\ [Next]_vars => CInv' /\ Remembered'
<1> SUFFICES ASSUME IInv, Called, CInv, Remembered, [Next]_vars PROVE CInv' /\ Remembered'
  OBVIOUS
<1> USE DEF Remembered
<1>1. CASE \/ UNCHANGED vars \/ UnloadAllPass \/ UnloadAll \/ \E p \in Plugins : Edit(p)
  <2>1. CInv'
    BY <1>1, NoneHolds DEF vars, UnloadAllPass, UnloadAll, Edit, CInv, Clean, Tidy, Active, Holds, HeldBy
  <2>2. Remembered'
    BY <1>1, LoopBegins, LoopRemembers DEF vars, UnloadAllPass, UnloadAll, Edit, OpStep
  <2> QED
    BY <2>1, <2>2
<1>2. ASSUME NEW p \in Plugins, Load(p) \/ Retry(p) PROVE CInv' /\ Remembered'
  BY <1>2, LoadCleans, LoadRemembers DEF Load, Retry
<1>3. ASSUME NEW p \in Plugins, Unload(p) PROVE CInv' /\ Remembered'
  BY <1>3, UnloadCleans DEF Unload
<1>4. ASSUME NEW p \in Plugins, Reload(p) PROVE CInv' /\ Remembered'
  BY <1>4, ReloadCleans, LoadRemembers DEF Reload
<1>5. ASSUME NEW p \in Plugins, Pause(p) PROVE CInv' /\ Remembered'
  <2>1. PICK shown \in {FALSE, current[p].shown} :
            current' = [current EXCEPT ![p].state = "Paused", ![p].shown = shown]
    BY <1>5 DEF Pause
  <2>2. /\ current[p] # None /\ current[p].state \in {"Running", "Paused"}
        /\ UNCHANGED <<replacement, registered, stack, loads, op>>
    BY <1>5 DEF Pause
  <2>3. shown \in BOOLEAN
    BY <2>2 DEF IInv, Shape, Script
  <2> QED
    BY <2>1, <2>2, <2>3, SwitchCleans
<1>6. ASSUME NEW p \in Plugins, Resume(p) PROVE CInv' /\ Remembered'
  BY <1>6, SwitchCleans DEF Resume
<1>7. ASSUME NEW p \in Plugins, CallBegin(p) PROVE CInv' /\ Remembered'
  <2>1. Len(stack') <= MaxDepth
    BY <1>7, LifecycleAssumption DEF CallBegin, Called
  <2> QED
    BY <1>7, <2>1, CallBeginCleans DEF CallBegin
<1>8. ASSUME NEW p \in Plugins, MenuCloses(p) PROVE CInv' /\ Remembered'
  BY <1>8, MenuCleans DEF MenuCloses
<1>9. ASSUME NEW refresh \in BOOLEAN, DiscoverScripts(refresh) PROVE CInv' /\ Remembered'
  <2>1. op' \in RefreshLoop /\ UNCHANGED <<loads, stack>>
    BY <1>9, LoopBegins DEF DiscoverScripts
  <2> QED
    BY <1>9, <2>1, DiscoverCleans
<1>10. CASE RefreshNext
  <2>1. Ready \subseteq Plugins
    BY <1>10, LoopRemembers DEF OpStep, RefreshNext
  <2>2. PICK p \in Plugins : \/ LoadScript(p) /\ UNCHANGED replacement
                             \/ ReloadScript(p)
                             \/ UNCHANGED <<current, replacement, registered, loads>>
    BY <1>10, <2>1 DEF RefreshNext, First
  <2>3. UNCHANGED <<disk, stack>>
    BY <1>10 DEF RefreshNext
  <2>4. CInv'
    BY <2>2, <2>3, LoadCleans, ReloadCleans, NoneHolds DEF CInv, Clean, Tidy, Active, Holds, HeldBy
  <2>5. loads' \in Seq(Plugins)
    BY <2>2, LoadRemembers
  <2> QED
    BY <1>10, <2>3, <2>4, <2>5, LoopRemembers DEF OpStep
<1>11. CASE RefreshPass
  <2>1. CInv'
    BY <1>11, RecordFailureCleans, NoneHolds DEF RefreshPass, CInv, Clean, Tidy, Active, Holds, HeldBy
  <2> QED
    BY <1>11, <2>1, LoopRemembers DEF OpStep, RefreshPass
<1>12. CASE UnloadAllNext
  <2>1. PICK p \in Plugins : UnloadScript(p)
    BY <1>12, LoopRemembers DEF OpStep, UnloadAllNext, First
  <2> QED
    BY <1>12, <2>1, UnloadCleans, LoopRemembers DEF OpStep, UnloadAllNext
<1>13. ASSUME NEW n \in Names, Register(n) PROVE CInv' /\ Remembered'
  BY <1>13, RegisterCleans DEF Register
<1>14. CASE ShowMenu
  <2>1. /\ stack # <<>> /\ UNCHANGED <<replacement, registered, stack, op, loads>>
        /\ current' = [current EXCEPT ![Last(stack)].shown = TRUE]
        /\ current[Last(stack)].state = "Running"
    BY <1>14 DEF ShowMenu
  <2> QED
    BY <2>1, LastCalled, MenuCleans
<1>15. ASSUME NEW failed \in BOOLEAN, CallEnd(failed) PROVE CInv' /\ Remembered'
  <2>1. Len(stack') <= MaxDepth
    BY <1>15, LastCalled, LifecycleAssumption DEF CallEnd, Called
  <2> QED
    BY <1>15, <2>1, CallEndCleans DEF CallEnd
<1> QED
  BY <1>1, <1>2, <1>3, <1>4, <1>5, <1>6, <1>7, <1>8, <1>9, <1>10, <1>11, <1>12, <1>13, <1>14, <1>15
     DEF Next, OpStep

\* The names that a loaded script holds are at the host and only those; a script that was
\* told to stop is never called again; what is gone has left nothing behind, and what a
\* callback runs in is not gone: through cleanups that fail, candidates that are retained
\* and retries (Cleanup, UnloadScript, ReloadScript, Limit).
THEOREM CleanupHolds == Spec => []CleanupIsSound
<1>1. Init => CInv /\ Remembered
  <2> SUFFICES ASSUME Init PROVE CInv /\ Remembered
    OBVIOUS
  <2>1. \A p \in Plugins : Holds(p) = {} /\ Clean(p)
    BY DEF Init, Holds, HeldBy, Clean, Tidy, Active, ToSet
  <2> QED
    BY <2>1, LifecycleAssumption DEF Init, CInv, Matched, Exclusive, Remembered
<1>2. IInv /\ Called /\ PInv /\ CInv /\ Remembered => CleanupIsSound
  <2> SUFFICES ASSUME IInv, Called, PInv, CInv, Remembered PROVE CleanupIsSound
    OBVIOUS
  <2>1. OpType
    <3>1. CASE op \in RefreshLoop
      BY <3>1 DEF RefreshLoop, OpType
    <3>2. CASE op \in UnloadLoop /\ op.at \in 1..Len(op.order) + 1
      BY <3>2 DEF UnloadLoop, OpType, ToSet
    <3> QED
      BY <3>1, <3>2 DEF Remembered, OpType
  <2>2. registered \subseteq Names
    BY DEF CInv, Matched, Holds, HeldBy, IInv, Shape, Script
  <2>3. TypeOK
    BY <2>1, <2>2 DEF TypeOK, Remembered, IInv, Shape, Called, PInv
  <2>4. HostMatches
    <3>1. registered = HeldBesides({})
      BY HeldByPlugin DEF CInv, Matched
    <3>2. \A p \in Plugins : UNION {s.held : s \in Live(p)} \subseteq Holds(p)
      BY DEF Live, Holds, HeldBy
    <3> QED
      <4>1. ASSUME NEW p \in Plugins, NEW q \in Plugins, p # q
            PROVE  (UNION {s.held : s \in Live(p)}) \cap (UNION {s.held : s \in Live(q)}) \cap Commands = {}
        <5> DEFINE P == UNION {s.held : s \in Live(p)}
                   Q == UNION {s.held : s \in Live(q)}
        <5>1. Holds(p) \cap Holds(q) \cap Commands = {}
          BY <4>1 DEF CInv, Exclusive
        <5>2. P \subseteq Holds(p) /\ Q \subseteq Holds(q)
          BY <3>2
        <5> HIDE DEF P, Q
        <5>3. P \cap Q \cap Commands = {}
          BY <5>1, <5>2
        <5> QED
          BY <5>3 DEF P, Q
      <4> QED
        BY <3>1, <4>1 DEF HostMatches
  <2>5. \A x \in Slots : /\ x[1] \in Plugins /\ Tidy(At(x))
                         /\ At(x) = current[x[1]] \/ (At(x) # None => At(x).vm)
    BY DEF Slots, At, CInv, Clean, IInv, Shape
  <2>6. StoppedNeverRuns
    BY <2>5 DEF StoppedNeverRuns, Tidy
  <2>7. GoneIsClean
    BY <2>5 DEF GoneIsClean, Tidy, CInv, Clean
  <2> QED
    BY <2>3, <2>4, <2>6, <2>7 DEF CleanupIsSound
<1>3. Init => PInv
  BY DEF Init, PInv, Quiet, Keeps
<1> QED
  BY <1>1, <1>2, <1>3, InitKeeps, StepKeeps, PauseStep, CleanStep, PTL DEF Spec
=============================================================================
