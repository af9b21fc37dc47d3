------------------------------ MODULE Dispatch ------------------------------
(***************************************************************************)
(* src/dispatch.cpp, src/players.cpp, src/server.cpp and the timers of     *)
(* src/bindings.cpp: who is called when.  A frame calls due timers, an     *)
(* event its listeners, a command its script; the callbacks create and     *)
(* cancel timers, take handles of players, kick them and ask for a map     *)
(* change, which is executed in a later frame.  Meanwhile players come and *)
(* go, scripts fail, and the host pauses, resumes, reloads and unloads     *)
(* those that are not in a callback.                                       *)
(*                                                                         *)
(* A handle of a player is the connection it was made for.  Menus, voice   *)
(* and the steps of a failing cleanup have modules of their own; here a    *)
(* cleanup releases the handles and may leave the script retiring.  Every  *)
(* script registers its command and its event when it starts.              *)
(***************************************************************************)
EXTENDS Naturals, FiniteSets

CONSTANTS Scripts,
          Slots,         \* of players
          Delays,        \* of timers
          Limit,         \* handles of a script (128)
          MaxFaults,     \* failed callbacks before a script retires (3)
          MaxTime, MaxConnection, MaxOwner, MaxTimer, MaxFailed,  \* bounds
          None

ASSUME DispatchAssumption ==
    /\ IsFiniteSet(Scripts) /\ Delays \subseteq Nat /\ Delays # {} /\ MaxFaults \in Nat \ {0}
    /\ {Limit, MaxTime, MaxConnection, MaxOwner, MaxTimer, MaxFailed} \subseteq Nat

\* delay and age are history: how long the timer was to wait, and how long its script has
\* run since.
Timer == [id : Nat, due : Nat, delay : Nat, age : Nat, target : Nat, across : BOOLEAN]
Runtime == [state : {"running", "paused", "retiring"}, owner : Nat, faults : Nat, suspended : Nat,
            timers : SUBSET Timer, players : SUBSET Nat, kicks : SUBSET Nat]
ASSUME NoneAssumption == None \notin Runtime

VARIABLES
    now,      \* now_
    conn,     \* the connection at every slot, 0 when free
    inst,     \* Slot::current of every script
    cand,     \* Slot::replacement
    pending,  \* pending_map_
    frame,    \* the call of Tick, Event or Dispatch that runs
    used      \* the last connection, owner and timer, and the failed callbacks
vars == <<now, conn, inst, cand, pending, frame, used>>

Script(owner, faults) == [state |-> "running", owner |-> owner, faults |-> faults, suspended |-> 0,
                          timers |-> {}, players |-> {}, kicks |-> {}]
Gone(script) == [script EXCEPT !.state = "retiring", !.suspended = 0, !.timers = {},
                               !.players = {}, !.kicks = {}]

\* The scripts are loaded; callbacks of the last one have failed before.
Init ==
    /\ now = 0 /\ conn = [p \in Slots |-> 0]
    /\ \E owner \in [Scripts -> 1..Cardinality(Scripts)] :
          /\ \A s, t \in Scripts : owner[s] = owner[t] => s = t
          /\ inst = [s \in Scripts |->
                Script(owner[s], IF owner[s] = Cardinality(Scripts) THEN MaxFaults - 1 ELSE 0)]
    /\ cand = [s \in Scripts |-> None]
    /\ pending = None /\ frame = None
    /\ used = [connection |-> 0, owner |-> Cardinality(Scripts), timer |-> 0, failed |-> 0]

Connected == {conn[p] : p \in Slots} \ {0}
Is(s, state) == inst[s] # None /\ inst[s].state = state

\* The host may act between frames, and while a callback runs.
Callback == frame # None /\ frame.running
Outside == frame = None \/ Callback
Active(s) == Callback /\ frame.script = s
Change(s, script) == inst' = [inst EXCEPT ![s] = script]

\* Limit and the handles of a script.
HasRoom(s, n) == Cardinality(inst[s].timers) + Cardinality(inst[s].players) + n <= Limit

\* CancelMap, for an owner.
Canceled_Current(owner) == IF pending # None /\ pending.owner # owner THEN None ELSE pending
Canceled(owner) == IF pending # None /\ pending.owner = owner THEN None ELSE pending

\* Disconnected, for some connections: handles, and the timers that aim at them.
Rid(script, gone) ==
    IF script = None THEN None
    ELSE [script EXCEPT !.players = @ \ gone,
                        !.timers = {t \in @ : t.target \notin gone \cap script.players}]
Without(gone) ==
    /\ inst' = [s \in Scripts |-> Rid(inst[s], gone)]
    /\ cand' = [s \in Scripts |-> Rid(cand[s], gone)]

-----------------------------------------------------------------------------
(* Players come and go; the host does not always say that one went.        *)

Join(p) ==
    /\ Outside /\ conn[p] = 0 /\ used.connection < MaxConnection
    /\ conn' = [conn EXCEPT ![p] = used.connection + 1]
    /\ used' = [used EXCEPT !.connection = @ + 1]
    /\ UNCHANGED <<now, inst, cand, pending, frame>>

Leave(p) ==
    /\ Outside /\ conn[p] # 0
    /\ conn' = [conn EXCEPT ![p] = 0]
    /\ \/ Without({conn[p]})
       \/ UNCHANGED <<inst, cand>>
    /\ UNCHANGED <<now, pending, frame, used>>

\* ReconcilePlayers: the connections of handles that are not there any more.
Stale == UNION {script.players : script \in ({inst[s] : s \in Scripts}
                                             \cup {cand[s] : s \in Scripts}) \ {None}}
             \ Connected

\* MapChanged.
Carried(script) ==
    IF script = None THEN None
    ELSE [script EXCEPT !.timers = {t \in @ : t.across}, !.players = {}, !.kicks = {}]
MapChanged ==
    /\ frame = None
    /\ inst' = [s \in Scripts |-> Carried(inst[s])]
    /\ cand' = [s \in Scripts |-> Carried(cand[s])]
    /\ pending' = None
    /\ UNCHANGED <<now, conn, frame, used>>

-----------------------------------------------------------------------------
(* Tick.                                                                   *)

\* RunPendingMap: the map is changed, and the rest of the frame left out.
Requester(s) == pending # None /\ pending.script = s /\ Is(s, "running")
                /\ inst[s].owner = pending.owner
Aged(script) ==
    IF script # None /\ script.state = "running"
    THEN [script EXCEPT !.timers = {[t EXCEPT !.age = @ + 1] : t \in @}]
    ELSE script
TickMap ==
    /\ frame = None /\ now < MaxTime
    /\ \E s \in Scripts : Requester(s)
    /\ pending' = None
    /\ now' = now + 1 /\ inst' = [s \in Scripts |-> Aged(inst[s])]
    /\ UNCHANGED <<conn, cand, frame, used>>

Tick ==
    /\ frame = None /\ now < MaxTime
    /\ ~\E s \in Scripts : Requester(s)
    /\ now' = now + 1 /\ pending' = None
    /\ inst' = [s \in Scripts |-> Aged(Rid(inst[s], Stale))]
    /\ cand' = [s \in Scripts |-> Rid(cand[s], Stale)]
    /\ frame' = [kind |-> "tick", todo |-> {<<s, 0>> : s \in Scripts}, script |-> None,
                 snapshot |-> {}, running |-> FALSE, player |-> 0]
    /\ UNCHANGED <<conn, used>>

\* The next script, with a copy of its timers.
Enter(s) ==
    /\ frame # None /\ frame.kind = "tick" /\ ~frame.running
    /\ frame.snapshot = {} /\ <<s, 0>> \in frame.todo
    /\ frame' = IF Is(s, "running")
                THEN [frame EXCEPT !.todo = @ \ {<<s, 0>>}, !.snapshot = inst[s].timers,
                                   !.script = IF inst[s].timers = {} THEN None ELSE s]
                ELSE [frame EXCEPT !.todo = @ \ {<<s, 0>>}]
    /\ UNCHANGED <<now, conn, inst, cand, pending, used>>

Registered_Always(s, t) == TRUE
Registered(s, t) == \E other \in inst[s].timers : other.id = t.id
Due(t) == t.due <= now

\* The next timer of the copy: ResolvePlayer finds its target, or finds it gone, or
\* fails.  The timer is removed before it is called.
Examine(t) ==
    /\ frame # None /\ ~frame.running /\ t \in frame.snapshot
    /\ LET s == frame.script
           passed == [frame EXCEPT !.snapshot = @ \ {t},
                                   !.script = IF frame.snapshot = {t} THEN None ELSE s]
           called == [passed EXCEPT !.script = s, !.running = TRUE, !.player = t.target]
           removed == [inst[s] EXCEPT !.timers = {other \in @ : other.id # t.id}]
       IN  IF ~Registered(s, t) \/ ~Due(t)
           THEN frame' = passed /\ UNCHANGED inst
           ELSE \/ /\ t.target \in Connected \cup {0}
                   /\ frame' = called /\ Change(s, removed)
                \/ /\ t.target \notin Connected \cup {0}
                   /\ frame' = passed /\ Change(s, removed)
                \/ /\ t.target # 0
                   /\ frame' = passed /\ UNCHANGED inst
    /\ UNCHANGED <<now, conn, cand, pending, used>>

\* All scripts are done.
Done ==
    /\ frame # None /\ ~frame.running /\ frame.snapshot = {} /\ frame.todo = {}
    /\ frame' = None
    /\ UNCHANGED <<now, conn, inst, cand, pending, used>>

-----------------------------------------------------------------------------
(* Event and Dispatch.                                                     *)

\* Event takes down who listens, replacements too, by name and owner.
Listeners ==
    {<<s, inst[s].owner>> : s \in {t \in Scripts : inst[t] # None}}
    \cup {<<s, cand[s].owner>> : s \in {t \in Scripts : cand[t] # None}}
Event ==
    /\ frame = None /\ Listeners # {}
    /\ frame' = [kind |-> "event", todo |-> Listeners, script |-> None,
                 snapshot |-> {}, running |-> FALSE, player |-> 0]
    /\ UNCHANGED <<now, conn, inst, cand, pending, used>>

SameOwner(s, owner) == inst[s] # None /\ inst[s].owner = owner
Notify(s, owner) ==
    /\ frame # None /\ frame.kind = "event" /\ ~frame.running /\ <<s, owner>> \in frame.todo
    /\ frame' = IF SameOwner(s, owner) /\ Is(s, "running")
                THEN [frame EXCEPT !.todo = @ \ {<<s, owner>>}, !.script = s, !.running = TRUE]
                ELSE [frame EXCEPT !.todo = @ \ {<<s, owner>>}]
    /\ UNCHANGED <<now, conn, inst, cand, pending, used>>

\* Dispatch of a command: PlayerHandle finds or makes a handle of the caller.
Command(s, p) ==
    /\ frame = None /\ conn[p] # 0 /\ Is(s, "running")
    /\ LET script == Rid(inst[s], Stale)
       IN  /\ conn[p] \in script.players
              \/ Cardinality(script.timers) + Cardinality(script.players) < Limit
           /\ inst' = [other \in Scripts |->
                          IF other = s THEN [script EXCEPT !.players = @ \cup {conn[p]}]
                          ELSE Rid(inst[other], Stale)]
    /\ cand' = [other \in Scripts |-> Rid(cand[other], Stale)]
    /\ frame' = [kind |-> "command", todo |-> {}, script |-> s,
                 snapshot |-> {}, running |-> TRUE, player |-> conn[p]]
    /\ UNCHANGED <<now, conn, pending, used>>

\* Invoke, after the callback: a fault cancels the map change of the script, and the
\* last one that is allowed retires it.  Tick leaves a script that is not running.
Faulted(script) ==
    [script EXCEPT !.faults = @ + 1, !.kicks = {},
                   !.state = IF script.faults + 1 >= MaxFaults THEN "retiring" ELSE @]
Return(fault) ==
    /\ Callback /\ (fault => used.failed < MaxFailed)
    /\ used' = IF fault THEN [used EXCEPT !.failed = @ + 1] ELSE used
    /\ LET s == frame.script
           after == IF fault THEN Faulted(inst[s]) ELSE [inst[s] EXCEPT !.kicks = {}]
           passed == [frame EXCEPT !.running = FALSE, !.player = 0]
       IN  /\ Change(s, after)
           /\ pending' = IF fault THEN Canceled(inst[s].owner) ELSE pending
           /\ frame' = IF frame.kind = "tick"
                       THEN IF after.state = "running" /\ frame.snapshot # {} THEN passed
                            ELSE [passed EXCEPT !.snapshot = {}, !.script = None]
                       ELSE IF frame.kind = "event" THEN [passed EXCEPT !.script = None] ELSE None
    /\ UNCHANGED <<now, conn, cand>>

-----------------------------------------------------------------------------
(* The natives of a callback.                                              *)

Self == frame.script
May == Callback /\ Is(Self, "running")

NewTimer(delay, target, across) ==
    [id |-> used.timer + 1, due |-> now + delay, delay |-> delay, age |-> 0,
     target |-> target, across |-> across]
CreateTimer(delay, target, across) ==
    /\ May /\ HasRoom(Self, 1) /\ used.timer < MaxTimer
    /\ target # 0 => target \in inst[Self].players \cap Connected /\ ~across
    /\ Change(Self, [inst[Self] EXCEPT !.timers = @ \cup {NewTimer(delay, target, across)}])
    /\ used' = [used EXCEPT !.timer = @ + 1]
    /\ UNCHANGED <<now, conn, cand, pending, frame>>

CancelTimer(t) ==
    /\ May /\ t \in inst[Self].timers
    /\ Change(Self, [inst[Self] EXCEPT !.timers = @ \ {t}])
    /\ UNCHANGED <<now, conn, cand, pending, frame, used>>

\* GetPlayers: MakePlayerHandles makes all handles, or none.
GetPlayers ==
    /\ May
    /\ LET script == Rid(inst[Self], Stale)
           missing == Connected \ script.players
       IN  /\ missing # {}
           /\ Cardinality(script.timers) + Cardinality(script.players \cup missing) <= Limit
           /\ inst' = [other \in Scripts |->
                          IF other = Self THEN [script EXCEPT !.players = @ \cup missing]
                          ELSE Rid(inst[other], Stale)]
    /\ cand' = [other \in Scripts |-> Rid(cand[other], Stale)]
    /\ UNCHANGED <<now, conn, pending, frame, used>>

\* KickPlayer: of the caller once in a callback.  The host disconnects at once, or later.
MayKick(c) == c = frame.player => c \notin inst[Self].kicks
KickPlayer(p) ==
    /\ May /\ conn[p] # 0 /\ conn[p] \in inst[Self].players /\ MayKick(conn[p])
    /\ LET kicked == IF conn[p] = frame.player
                     THEN [inst EXCEPT ![Self].kicks = @ \cup {conn[p]}] ELSE inst
       IN  \/ inst' = kicked /\ UNCHANGED <<conn, cand>>
           \/ /\ inst' = [s \in Scripts |-> Rid(kicked[s], {conn[p]})]
              /\ cand' = [s \in Scripts |-> Rid(cand[s], {conn[p]})]
              /\ conn' = [conn EXCEPT ![p] = 0]
    /\ UNCHANGED <<now, pending, frame, used>>

ChangeMap ==
    /\ May /\ pending = None
    /\ pending' = [script |-> Self, owner |-> inst[Self].owner, faults |-> inst[Self].faults]
    /\ UNCHANGED <<now, conn, inst, cand, frame, used>>

-----------------------------------------------------------------------------
(* The host manages the scripts that are not in a callback.                *)

\* OnPluginStart may create a timer.
Started(created) ==
    [Script(used.owner + 1, 0) EXCEPT !.timers =
        IF created THEN {NewTimer(CHOOSE d \in Delays : TRUE, 0, TRUE)} ELSE {}]
MayStart(created) ==
    /\ used.owner < MaxOwner
    /\ created => used.timer < MaxTimer
    /\ used' = [used EXCEPT !.owner = @ + 1, !.timer = IF created THEN @ + 1 ELSE @]

Load(s, created) ==
    /\ Outside /\ ~Active(s) /\ inst[s] = None
    /\ MayStart(created)
    /\ Change(s, Started(created))
    /\ UNCHANGED <<now, conn, cand, pending, frame>>

Pause(s) ==
    /\ Outside /\ ~Active(s) /\ Is(s, "running") /\ cand[s] = None
    /\ Change(s, [inst[s] EXCEPT !.state = "paused", !.suspended = now])
    /\ pending' = Canceled(inst[s].owner)
    /\ UNCHANGED <<now, conn, cand, frame, used>>

\* ResumeTimers.  When the script runs, suspended_at is not used; it is 0 here.
Shifted_Anew(script) ==
    [script EXCEPT !.timers = {[t EXCEPT !.due = now + t.delay] : t \in @}, !.suspended = 0]
Shifted(script) ==
    [script EXCEPT !.timers = {[t EXCEPT !.due = @ + (now - script.suspended)] : t \in @},
                   !.suspended = 0]
Resume(s) ==
    /\ Outside /\ ~Active(s) /\ Is(s, "paused") /\ cand[s] = None
    /\ Change(s, [Shifted(inst[s]) EXCEPT !.state = "running"])
    /\ UNCHANGED <<now, conn, cand, pending, frame, used>>

\* Unload: a release that fails leaves the script retiring.
Unload(s) ==
    /\ Outside /\ ~Active(s) /\ inst[s] # None
    /\ \/ Change(s, None)
       \/ Change(s, Gone(inst[s]))
    /\ cand' = [cand EXCEPT ![s] = None]
    /\ pending' = Canceled(inst[s].owner)
    /\ UNCHANGED <<now, conn, frame, used>>

\* Reload: the replacement is prepared, the current script cleaned up; when that fails
\* the replacement waits for the next attempt.
Reload(s, created) ==
    /\ Outside /\ ~Active(s) /\ inst[s] # None /\ cand[s] = None
    /\ MayStart(created)
    /\ cand' = [cand EXCEPT ![s] = [Started(created) EXCEPT !.suspended = now, !.state =
                                       IF Is(s, "paused") THEN "paused" ELSE "running"]]
    /\ Change(s, Gone(inst[s]))
    /\ pending' = Canceled(inst[s].owner)
    /\ UNCHANGED <<now, conn, frame>>

ReloadDone(s) ==
    /\ Outside /\ ~Active(s) /\ cand[s] # None
    /\ Change(s, [Shifted(cand[s]) EXCEPT !.suspended = IF cand[s].state = "paused" THEN now ELSE 0])
    /\ cand' = [cand EXCEPT ![s] = None]
    /\ UNCHANGED <<now, conn, pending, frame, used>>

Next ==
    \/ \E p \in Slots : Join(p) \/ Leave(p) \/ KickPlayer(p)
                        \/ \E s \in Scripts : Command(s, p)
    \/ MapChanged \/ TickMap \/ Tick \/ Done \/ Event
    \/ \E s \in Scripts : Enter(s) \/ Pause(s) \/ Resume(s) \/ Unload(s) \/ ReloadDone(s)
                          \/ \E created \in BOOLEAN : Load(s, created) \/ Reload(s, created)
                          \/ \E owner \in 1..MaxOwner : Notify(s, owner)
    \/ \E fault \in BOOLEAN : Return(fault)
    \/ frame # None /\ \E t \in frame.snapshot : Examine(t)
    \/ \E delay \in Delays, across \in BOOLEAN :
          \E target \in 0..MaxConnection : CreateTimer(delay, target, across)
    \/ Callback /\ \E t \in inst[Self].timers : CancelTimer(t)
    \/ GetPlayers \/ ChangeMap

Spec == Init /\ [][Next]_vars

-----------------------------------------------------------------------------
\* A timer runs on the time its script runs, exactly: neither a pause nor a reload that
\* waits for a cleanup makes it early or late (ResumeTimers, ReloadScript).  A timer
\* with a target holds on to the handle of its target, so no disconnect passes it by.
TimersKeepTime ==
    \A s \in Scripts : \A script \in {inst[s], cand[s]} \ {None} : \A t \in script.timers :
        /\ t.target # 0 => t.target \in script.players
        /\ IF script = inst[s] /\ script.state = "running" THEN t.due + t.age = now + t.delay
           ELSE script.state # "retiring" => t.due + t.age = script.suspended + t.delay

\* What a script asks for lasts no longer than its reason.  A map change that is pending
\* was asked for by a script that is running ever since, without a failed callback, so
\* no other request is executed (CancelMap, RunPendingMap); that the caller was kicked
\* is known to the callback of the caller only (KickPlayer, ShowActivity).
RequestsAreWanted ==
    /\ pending # None =>
          /\ Is(pending.script, "running") /\ inst[pending.script].owner = pending.owner
          /\ inst[pending.script].faults = pending.faults
    /\ \A s \in Scripts : inst[s] # None =>
          inst[s].kicks \subseteq IF Active(s) THEN {frame.player} ELSE {}

\* A callback that starts is due: its script runs, and is the one the event was meant
\* for; its timer is registered, is due, goes with the call, and its target is there.
DueStart ==
    LET s == frame'.script
        fired == inst[s].timers \ inst'[s].timers
    IN  /\ Is(s, "running")
        /\ frame.kind = "event" => <<s, inst[s].owner>> \in frame.todo
        /\ frame.kind = "tick" =>
              \E t \in fired : fired = {t} /\ t.due <= now /\ t.target \in Connected \cup {0}
OnlyDueCallbacks ==
    [][frame # None /\ frame' # None /\ ~frame.running /\ frame'.running => DueStart]_vars
=============================================================================
