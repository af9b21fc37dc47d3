-------------------------------- MODULE Menus --------------------------------
(***************************************************************************)
(* src/dispatch.cpp, src/bindings.cpp and src/native_menus.cpp: the menus  *)
(* on the players' screens.  A player has at most one, shown by a script   *)
(* (displays_) or by a native extension (native_displays_).  Every host    *)
(* call may fail: a menu that cannot be cleared from the screen, or whose  *)
(* provider service cannot be given back, stays for a later attempt.       *)
(*                                                                         *)
(* The callback of a native menu is the extension's code and may do        *)
(* anything, so it begins and returns in two steps; the code after a       *)
(* script's callback only returns.  Times are a flag: the menu is due.     *)
(***************************************************************************)
EXTENDS Naturals, Sequences, FiniteSets, SequencesExt

CONSTANTS Slots,          \* player slots, in the order of the maps
          Scripts,        \* the scripts
          Menus,          \* the menus scripts can create
          OwnerOf,        \* the script of each menu
          Exts,           \* the native extensions, each with a service of its own
          MaxConnections, \* bound: players that join
          MaxSessions,    \* bound: menus that are shown
          None

ASSUME MenusAssumption ==
    /\ Slots \subseteq Nat /\ IsFiniteSet(Slots)
    /\ OwnerOf \in [Menus -> Scripts] /\ IsFiniteSet(Scripts)
    /\ MaxConnections \in Nat /\ MaxSessions \in Nat

VARIABLES
    connection, \* the connection in each slot; 0 is none
    joined,     \* the connections so far
    screen,     \* the session of the menu on each player's screen
    display,    \* displays_
    native,     \* native_displays_
    menus,      \* the menu handles that are live
    running,    \* the scripts in state Running
    users,      \* Provider::users: the scripts bound to each extension
    leased,     \* the services the host has acquired for Source2Root
    stack,      \* the slots of the native callbacks that are running
    next,       \* next_session_
    viewer,     \* history: the slot and connection each session was shown to
    chosen      \* history: per session, the inputs whose callback was called

vars == <<connection, joined, screen, display, native, menus, running, users, leased, stack, next,
          viewer, chosen>>
world == <<connection, joined>>
uses == <<running, users>>

Connections == 1..MaxConnections
Sessions == 1..MaxSessions
Display == [session : Sessions, menu : Menus, conn : Connections, due : BOOLEAN]
NativeDisplay == [session : Sessions, ext : Exts, conn : Connections, due : BOOLEAN,
                  active : BOOLEAN, closing : BOOLEAN, cleared : BOOLEAN]

ASSUME NoneAssumption == None \notin Sessions \cup Display \cup NativeDisplay

Init ==
    /\ connection = [s \in Slots |-> 0] /\ joined = 0
    /\ screen = [s \in Slots |-> None]
    /\ display = [s \in Slots |-> None] /\ native = [s \in Slots |-> None]
    /\ menus = {} /\ running = Scripts
    /\ users = [e \in Exts |-> 0] /\ leased = {}
    /\ stack = <<>> /\ next = 1
    /\ viewer = [k \in Sessions |-> <<>>]
    /\ chosen = [k \in Sessions |-> <<>>]

-----------------------------------------------------------------------------
(* Closing.  What a call that closes menus can do is a set of outcomes: a  *)
(* view of the state it leaves, and whether it succeeded.                  *)

View == [screen |-> screen, display |-> display, native |-> native, menus |-> menus, leased |-> leased]
Become(v) ==
    /\ screen' = v.screen /\ display' = v.display /\ native' = v.native
    /\ menus' = v.menus /\ leased' = v.leased

Done(v) == [ok |-> TRUE, view |-> v]
Refused(v) == [ok |-> FALSE, view |-> v]

\* ServiceUsers: scripts bound to the service and native menus that are displayed.
ServiceUsers(v, e) == users[e] + Cardinality({s \in Slots : v.native[s] # None /\ v.native[s].ext = e})

\* CloseNativeDisplay, its end: the last user gives the service back.
Release(v, s) ==
    LET e == v.native[s].ext
        gone == [v EXCEPT !.native[s] = None]
    IN  IF ServiceUsers(v, e) = 1 THEN {Done([gone EXCEPT !.leased = @ \ {e}]), Refused(v)}
                                  ELSE {Done(gone)}

\* CloseNativeDisplay, its start: the screen is cleared, if it is still this player's.
Wiped(v, s, conn) == IF connection[s] = conn THEN [v EXCEPT !.screen[s] = None] ELSE v

Clear(v, s) ==
    LET closing == [v EXCEPT !.native[s].closing = TRUE]
    IN  IF v.native[s].cleared THEN {Done(closing)}
        ELSE {Refused(closing), Done(Wiped([closing EXCEPT !.native[s].cleared = TRUE], s, v.native[s].conn))}

\* CloseNativeDisplay without a selection.
CloseNative(v, s) ==
    IF v.native[s] = None THEN {Done(v)}
    ELSE IF v.native[s].active THEN {Refused(v)}
    ELSE UNION {IF r.ok THEN Release(r.view, s) ELSE {r} : r \in Clear(v, s)}

\* CloseDisplay, its second half: the script's menu and its handle.
Retired_Left(v, s) == [v EXCEPT !.display[s] = None, !.menus = @ \ {v.display[s].menu}]
Retired(v, s) ==
    [Wiped(v, s, v.display[s].conn) EXCEPT !.display[s] = None, !.menus = @ \ {v.display[s].menu}]

CloseScript(v, s) ==
    IF v.display[s] = None THEN {Done(v)} ELSE {Refused(v), Done(Retired(v, s))}

CloseDisplay(v, s) ==
    UNION {IF r.ok THEN CloseScript(r.view, s) ELSE {r} : r \in CloseNative(v, s)}

Close(s) == \E r \in CloseDisplay(View, s) : Become(r.view)

-----------------------------------------------------------------------------
(* What scripts and extensions do.                                         *)

CreateMenu(m) ==
    /\ OwnerOf[m] \in running /\ m \notin menus
    /\ menus' = menus \cup {m}
    /\ UNCHANGED <<world, screen, display, native, uses, leased, stack, next, viewer, chosen>>

\* ShowMenu and OpenNativeMenu first close whatever the player has.
Vacated(s) == CloseDisplay(View, s)

Shown(m) == \E s \in Slots : display[s] # None /\ display[s].menu = m

\* ShowMenu: rendered, or refused because the old menu or the new one was.
ShowMenu(m, s) ==
    /\ m \in menus /\ OwnerOf[m] \in running /\ ~Shown(m)
    /\ connection[s] # 0 /\ next \in Sessions
    /\ \E r \in Vacated(s) :
          \/ Become(r.view) /\ UNCHANGED <<next, viewer>>
          \/ /\ r.ok
             /\ Become([r.view EXCEPT !.screen[s] = next, !.display[s] =
                    [session |-> next, menu |-> m, conn |-> connection[s], due |-> FALSE]])
             /\ next' = next + 1
             /\ viewer' = [viewer EXCEPT ![next] = <<s, connection[s]>>]
    /\ UNCHANGED <<world, uses, stack, chosen>>

\* CloseMenu: the handle is removed unless its display could not be closed.
Dropped(r, m) == IF r.ok THEN [r.view EXCEPT !.menus = @ \ {m}] ELSE r.view

CloseMenu(m) ==
    /\ m \in menus
    /\ \/ ~Shown(m) /\ Become([View EXCEPT !.menus = @ \ {m}])
       \/ \E s \in Slots : /\ display[s] # None /\ display[s].menu = m
                           /\ \E r \in CloseDisplay(View, s) : Become(Dropped(r, m))
    /\ UNCHANGED <<world, uses, stack, next, viewer, chosen>>

\* OpenNativeMenu: the first user acquires the service; a menu that cannot be rendered
\* is closed at once, and kept when the service cannot be given back.
OpenNativeMenu(e, s) ==
    /\ connection[s] # 0 /\ next \in Sessions
    /\ LET fresh == [session |-> next, ext |-> e, conn |-> connection[s], due |-> FALSE,
                     active |-> FALSE, closing |-> FALSE, cleared |-> FALSE]
           opened(v) == [v EXCEPT !.native[s] = fresh, !.leased = IF ServiceUsers(v, e) = 0 THEN @ \cup {e} ELSE @]
       IN  \E r \in Vacated(s) :
              \/ ~r.ok /\ Become(r.view) /\ UNCHANGED <<next, viewer>>
              \/ r.ok /\ ServiceUsers(r.view, e) = 0 /\ Become(r.view) /\ next' = next + 1 /\ UNCHANGED viewer
              \/ /\ r.ok /\ next' = next + 1
                 /\ viewer' = [viewer EXCEPT ![next] = <<s, connection[s]>>]
                 /\ \/ Become([opened(r.view) EXCEPT !.screen[s] = next])
                    \/ \E q \in CloseNative([opened(r.view) EXCEPT !.native[s].cleared = TRUE], s) : Become(q.view)
    /\ UNCHANGED <<world, uses, stack, chosen>>

CloseNativeMenu(e, k) ==
    /\ \E s \in Slots : /\ native[s] # None /\ native[s].session = k /\ native[s].ext = e
                        /\ \E r \in CloseNative(View, s) : Become(r.view)
    /\ UNCHANGED <<world, uses, stack, next, viewer, chosen>>

\* Bind and Cleanup: a script uses the natives of an extension, or no longer does.
BindProvider(e) ==
    /\ users[e] < Cardinality(Scripts)
    /\ users' = [users EXCEPT ![e] = @ + 1]
    /\ leased' = IF ServiceUsers(View, e) = 0 THEN leased \cup {e} ELSE leased
    /\ UNCHANGED <<world, screen, display, native, menus, running, stack, next, viewer, chosen>>

ReleaseProvider(e) ==
    /\ users[e] > 0
    /\ users' = [users EXCEPT ![e] = @ - 1]
    /\ leased' = IF ServiceUsers(View, e) = 1 THEN leased \ {e} ELSE leased
    /\ UNCHANGED <<world, screen, display, native, menus, running, stack, next, viewer, chosen>>

\* ClearMenus: each menu of the script is closed, or stays.  No native menu is in their
\* slots (OneMenuPerPlayer).
Owned(p) == {s \in Slots : display[s] # None /\ OwnerOf[display[s].menu] = p}
ClearMenus(p, left) ==
    LET closed == Owned(p) \ left
        visible(s) == s \in closed /\ connection[s] = display[s].conn
    IN  /\ display' = [s \in Slots |-> IF s \in closed THEN None ELSE display[s]]
        /\ screen' = [s \in Slots |-> IF visible(s) THEN None ELSE screen[s]]
        /\ UNCHANGED <<native, leased>>

\* Pause stops the script at once, and its menus follow when they can be cleared.
Pause(p) ==
    /\ \E left \in SUBSET Owned(p) :
          /\ ClearMenus(p, left)
          /\ menus' = menus \ {display[s].menu : s \in Owned(p) \ left}
    /\ running' = running \ {p}
    /\ UNCHANGED <<world, users, stack, next, viewer, chosen>>

\* Resume, or a cleanup and a new load: no menu may be left over.
Resume(p) ==
    /\ p \notin running
    /\ ClearMenus(p, {})
    /\ \/ menus' = menus \ {display[s].menu : s \in Owned(p)}
       \/ menus' = {m \in menus : OwnerOf[m] # p}
    /\ running' = running \cup {p}
    /\ UNCHANGED <<world, users, stack, next, viewer, chosen>>

-----------------------------------------------------------------------------
(* What players do.  An input carries the session and the connection it    *)
(* was made for, which may be gone when it is handled.                     *)

\* MenuInput and NativeMenuInput: is the input for this menu?
Addressed_Any(d, k, c) == d.conn = c
Addressed(d, k, c) == d.session = k /\ d.conn = c

\* The outcomes of a selection: the menu is closed first.  A native menu's callback
\* then runs with the display still in place; a script's menu is gone.
SelectNative(s, k) ==
    \/ \E r \in Clear(View, s) :
          IF ~r.ok \/ connection[s] # native[s].conn
          THEN \E q \in (IF r.ok THEN Release(r.view, s) ELSE {r}) :
                  Become(q.view) /\ UNCHANGED <<stack, chosen>>
          ELSE /\ Become([r.view EXCEPT !.native[s].active = TRUE])
               /\ stack' = Append(stack, s)
               /\ chosen' = [chosen EXCEPT ![native[s].session] = Append(@, <<k, s, connection[s]>>)]

NativeInput(s, k, c) ==
    /\ native[s] # None /\ Addressed(native[s], k, c)
    /\ ~native[s].active /\ ~native[s].closing /\ connection[s] # 0
    /\ LET renewed == [View EXCEPT !.native[s].due = FALSE]
       IN  \/ \E r \in CloseNative(View, s) : Become(r.view) /\ UNCHANGED <<stack, chosen>>
           \/ /\ connection[s] = native[s].conn /\ ~native[s].due
              /\ SelectNative(s, k)
           \/ /\ connection[s] = native[s].conn /\ ~native[s].due
              /\ Become(renewed) /\ UNCHANGED <<stack, chosen>>
    /\ UNCHANGED <<world, uses, next, viewer>>

\* The extension's callback returns.
Returned(v, s) == [v EXCEPT !.native[s].active = FALSE]

NativeReturn ==
    /\ stack # <<>>
    /\ LET s == Last(stack)
       IN  \E r \in Release(Returned(View, s), s) : Become(r.view)
    /\ stack' = Front(stack)
    /\ UNCHANGED <<world, uses, next, viewer, chosen>>

\* A script's menu: closed, with the callback called or not; or kept and due later.
ScriptInput(s, k, c) ==
    /\ native[s] = None /\ display[s] # None /\ Addressed(display[s], k, c)
    /\ \/ Close(s) /\ UNCHANGED chosen
       \/ /\ OwnerOf[display[s].menu] \in running /\ ~display[s].due
          /\ connection[s] = display[s].conn
          /\ \/ \E r \in CloseDisplay(View, s) :
                   /\ r.ok /\ Become(r.view)
                   /\ chosen' = [chosen EXCEPT ![display[s].session] = Append(@, <<k, s, connection[s]>>)]
             \/ Become([View EXCEPT !.display[s].due = FALSE]) /\ UNCHANGED chosen
             \/ /\ \E r \in CloseDisplay([View EXCEPT !.display[s].due = TRUE], s) : Become(r.view)
                /\ UNCHANGED chosen
    /\ UNCHANGED <<world, uses, stack, next, viewer>>

Join(s) ==
    /\ connection[s] = 0 /\ joined < MaxConnections
    /\ joined' = joined + 1
    /\ connection' = [connection EXCEPT ![s] = joined']
    /\ screen' = [screen EXCEPT ![s] = None]
    /\ UNCHANGED <<display, native, menus, uses, leased, stack, next, viewer, chosen>>

\* The player is gone before Source2Root notices.
Leave(s) ==
    /\ connection[s] # 0
    /\ connection' = [connection EXCEPT ![s] = 0]
    /\ screen' = [screen EXCEPT ![s] = None]
    /\ UNCHANGED <<joined, display, native, menus, uses, leased, stack, next, viewer, chosen>>

-----------------------------------------------------------------------------
(* What the host tells, and the frame.                                     *)

\* Disconnected: ReconcilePlayers found that the connection is gone.
Disconnected(s, c) ==
    /\ connection[s] # c
    /\ LET mine == native[s] # None /\ native[s].conn = c
           known == IF mine THEN [View EXCEPT !.native[s].cleared = TRUE] ELSE View
       IN  \E r \in (IF mine THEN CloseNative(known, s) ELSE {Done(known)}) :
              Become(IF display[s] # None /\ display[s].conn = c THEN Retired(r.view, s) ELSE r.view)
    /\ UNCHANGED <<world, uses, stack, next, viewer, chosen>>

\* MapChanged: the screens are empty.  Of the native menus that close, the last one
\* of a service may be refused its release.
MapChanged ==
    /\ LET quiet == {s \in Slots : native[s] # None /\ ~native[s].active}
           last(e) == {s \in quiet : native[s].ext = e /\ \A t \in quiet : native[t].ext = e => t <= s}
           alone == {e \in Exts : last(e) # {} /\ ServiceUsers(View, e) = Cardinality({s \in quiet : native[s].ext = e})}
       IN  \E stuck \in SUBSET alone :
              /\ native' = [s \in Slots |->
                    IF native[s] = None THEN None
                    ELSE IF native[s].active THEN [native[s] EXCEPT !.cleared = TRUE]
                    ELSE IF \E e \in stuck : s \in last(e)
                    THEN [native[s] EXCEPT !.closing = TRUE, !.cleared = TRUE] ELSE None]
              /\ leased' = leased \ (alone \ stuck)
    /\ display' = [s \in Slots |-> None] /\ menus' = {}
    /\ screen' = [s \in Slots |-> None]
    /\ UNCHANGED <<world, uses, stack, next, viewer, chosen>>

\* Time passes.
Expire(s) ==
    /\ \/ /\ native[s] # None /\ ~native[s].due
          /\ native' = [native EXCEPT ![s].due = TRUE] /\ UNCHANGED display
       \/ /\ display[s] # None /\ ~display[s].due
          /\ display' = [display EXCEPT ![s].due = TRUE] /\ UNCHANGED native
    /\ UNCHANGED <<world, screen, menus, uses, leased, stack, next, viewer, chosen>>

\* TickNativeMenus for one slot: a menu that is over is closed; another one is drawn
\* again, and closed when that fails or the player may not see it any more.
Over_Due(n) == n.due
Over(n) == n.due \/ n.closing

TickNative(s) ==
    /\ native[s] # None /\ ~native[s].active
    /\ \/ /\ Over(native[s]) \/ connection[s] = native[s].conn
          /\ \E r \in CloseNative(View, s) : Become(r.view)
       \/ /\ ~Over(native[s]) /\ connection[s] # native[s].conn
          /\ \E r \in CloseNative([View EXCEPT !.native[s].cleared = TRUE], s) : Become(r.view)
    /\ UNCHANGED <<world, uses, stack, next, viewer, chosen>>

\* Tick for one slot: the same for a script's menu.
Stale(d) == d.due \/ OwnerOf[d.menu] \notin running

TickDisplay(s) ==
    /\ display[s] # None
    /\ \/ Stale(display[s]) /\ Close(s)
       \/ ~Stale(display[s]) /\ connection[s] # display[s].conn /\ Become(Retired(View, s))
       \/ /\ ~Stale(display[s]) /\ connection[s] = display[s].conn
          /\ \E r \in CloseDisplay([View EXCEPT !.display[s].due = TRUE], s) : Become(r.view)
    /\ UNCHANGED <<world, uses, stack, next, viewer, chosen>>

Next ==
    \/ \E m \in Menus : CreateMenu(m) \/ CloseMenu(m) \/ \E s \in Slots : ShowMenu(m, s)
    \/ \E e \in Exts : \/ BindProvider(e) \/ ReleaseProvider(e)
                       \/ \E s \in Slots : OpenNativeMenu(e, s)
                       \/ \E k \in Sessions : CloseNativeMenu(e, k)
    \/ \E p \in Scripts : Pause(p) \/ Resume(p)
    \/ \E s \in Slots :
          \/ \E k \in Sessions, c \in Connections : NativeInput(s, k, c) \/ ScriptInput(s, k, c)
          \/ \E c \in Connections : Disconnected(s, c)
          \/ Join(s) \/ Leave(s) \/ Expire(s) \/ TickNative(s) \/ TickDisplay(s)
    \/ NativeReturn
    \/ MapChanged

Spec == Init /\ [][Next]_vars

\* Every frame ticks, the callbacks return, and a host call that is tried again and
\* again succeeds in the end.
TickEndsNative(s) == TickNative(s) /\ Over(native[s]) /\ native'[s] = None
TickEndsDisplay(s) == TickDisplay(s) /\ Stale(display[s]) /\ display'[s] = None

FairSpec ==
    /\ Spec
    /\ WF_vars(NativeReturn)
    /\ \A s \in Slots : SF_vars(TickEndsNative(s)) /\ SF_vars(TickEndsDisplay(s))

-----------------------------------------------------------------------------
(* Properties.                                                             *)

\* The maps hold records of their kinds, and the flags of a native menu agree: its
\* callback runs exactly while it is on the stack, once per menu, and only when the
\* menu is closing and its screen was cleared (the state CloseNativeDisplay keeps
\* through the callback at native_menus.cpp:125).
TypeOK ==
    /\ connection \in [Slots -> 0..joined] /\ joined \in 0..MaxConnections
    /\ screen \in [Slots -> Sessions \cup {None}]
    /\ display \in [Slots -> Display \cup {None}]
    /\ native \in [Slots -> NativeDisplay \cup {None}]
    /\ menus \subseteq Menus /\ running \subseteq Scripts
    /\ users \in [Exts -> 0..Cardinality(Scripts)] /\ leased \subseteq Exts
    /\ next \in 1..MaxSessions + 1
    /\ stack \in Seq(Slots)
    /\ Range(stack) = {s \in Slots : native[s] # None /\ native[s].active}
    /\ \A i, j \in 1..Len(stack) : i # j => stack[i] # stack[j]
    /\ \A s \in Slots :
          native[s] # None /\ (native[s].active \/ native[s].cleared) => native[s].closing

\* A player is never shown a script's menu and a native menu at once: ShowMenu and
\* OpenNativeMenu close whatever is there (CloseDisplay) before they add theirs.
OneMenuPerPlayer == \A s \in Slots : display[s] = None \/ native[s] = None

\* The screen of a connected player shows exactly the menu Source2Root has on record
\* for that connection and has not cleared: no menu without a record stays visible
\* after a failed close, and no record is without its menu.
Recorded(s) ==
    {display[t].session : t \in {t \in {s} : display[t] # None /\ display[t].conn = connection[t]}}
    \cup {native[t].session : t \in {t \in {s} : native[t] # None /\ native[t].conn = connection[t]
                                                 /\ ~native[t].cleared}}
ScreenIsRecorded ==
    \A s \in Slots : connection[s] # 0 => {screen[s]} \ {None} = Recorded(s)

\* The callback of a menu is called at most once, however often its closing is refused
\* and tried again (CloseNativeDisplay gives the callback up before it calls it); and
\* only for an input that was made on that very menu, in the slot and by the connection
\* it was shown to: a late input for an earlier menu, or from the player who had the
\* slot before, chooses nothing.
ChosenOnceByViewer ==
    \A k \in Sessions :
        /\ Len(chosen[k]) <= 1
        /\ \A i \in 1..Len(chosen[k]) : chosen[k][i] = <<k>> \o viewer[k]

\* The host holds the service of an extension for Source2Root exactly while a script
\* is bound to it or one of its menus is displayed, so that the extension cannot be
\* unloaded under a callback that can still be called.
LeaseHeld ==
    leased = {e \in Exts : users[e] > 0 \/ \E s \in Slots : native[s] # None /\ native[s].ext = e}

\* The handle of a displayed menu is live: Tick and MenuInput look it up without a
\* check, and an unknown handle throws.
MenuAlive == \A s \in Slots : display[s] # None => display[s].menu \in menus

\* Source2Root's records agree with what the players see and with what has to be
\* there for a menu, in whatever order players, scripts and the host act and fail.
MenusAccounted ==
    TypeOK /\ OneMenuPerPlayer /\ ScreenIsRecorded /\ LeaseHeld /\ MenuAlive

\* A native menu that has begun to close goes away, although clearing the screen or
\* giving the service back may fail many times: TickNativeMenus tries again.
ClosingEnds == \A s \in Slots : []<>(native[s] = None \/ ~native[s].closing)

\* The menu of a script that was paused or stopped goes away, or the script runs again.
StoppedMenusLeave ==
    \A s \in Slots : []<>(display[s] = None \/ OwnerOf[display[s].menu] \in running)

\* Tick clears every menu that has no reason to be shown.
ClosedMenusLeave == ClosingEnds /\ StoppedMenusLeave
=============================================================================
