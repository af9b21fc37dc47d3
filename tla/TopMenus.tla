------------------------------ MODULE TopMenus ------------------------------
(***************************************************************************)
(* extensions/topmenus: menus that several scripts fill with categories    *)
(* and items.  A display of a player (a View) shows one page of the menu,  *)
(* which is drawn by asking the callback of every item whether the player  *)
(* may see it; the page is drawn again when the menu has changed, and a    *)
(* selection is carried out in a later frame.  Every callback is script    *)
(* code that may change the menu, open, refresh and close displays.        *)
(*                                                                         *)
(* One menu and the frames of the game server.  Names, labels, the texts   *)
(* of a page, the timeout and the data of an item are left out; objects    *)
(* are shown in the order in which they were added (catalog.cpp:141 sorts  *)
(* by order, label and key).                                               *)
(***************************************************************************)
EXTENDS Naturals, FiniteSets, FiniteSetsExt, Sequences, SequencesExt

CONSTANTS Owners,       \* generations of scripts
          PluginOf,     \* the script of which an owner is a generation
          Entries,      \* what is registered: [key, kind, category]
          Guarded,      \* keys that need a permission
          Slots,
          PerPage,      \* rows of a page (28)
          MaxObjects,   \* objects of a menu (256)
          MaxSequence,  \* bound: objects ever added
          MaxRevision,  \* bound: changes of the menu
          MaxConnection,\* bound: players that use a slot one after the other
          Root, None    \* the page above the categories; nothing

VARIABLES
    status,    \* of every owner, as ConsumerStatus tells it
    granted,   \* the slots whose player holds the permission of guarded keys
    player,    \* the connection in every slot
    objects,   \* Menu::objects: the live ones, by sequence number
    sequence,  \* Menu::next_sequence
    revision,  \* Menu::revision
    tokens,    \* callbacks_: the objects whose callback is retained
    views,     \* views_, by slot
    shown,     \* the host: the slots whose native menu is open for a view
    draw,      \* Draw that is on the stack (drawing_), or None
    frame      \* OnGameFrame that is on the stack, or None

menu == <<objects, sequence, revision, tokens>>
world == <<status, granted, player>>
vars == <<status, granted, player, objects, sequence, revision, tokens,
          views, shown, draw, frame>>

NoPage == [category |-> Root, page |-> 0, rows |-> <<>>, revision |-> 0]

Init ==
    /\ status = [o \in Owners |-> "running"]
    /\ granted = Slots
    /\ player = [s \in Slots |-> 1]
    /\ objects = <<>> /\ sequence = 1 /\ revision = 1 /\ tokens = {}
    /\ views = <<>> /\ shown = {}
    /\ draw = None /\ frame = None

Put(f, x, y) == [z \in DOMAIN f \cup {x} |-> IF z = x THEN y ELSE f[z]]

-----------------------------------------------------------------------------
(* The catalogue.                                                          *)

\* Active: of the objects of a key, the latest of the running scripts.
Active ==
    {i \in DOMAIN objects :
        /\ status[objects[i].owner] = "running"
        /\ \A j \in DOMAIN objects :
              objects[j].entry.key = objects[i].entry.key
              /\ status[objects[j].owner] = "running" => j <= i}

\* Current (extension.cpp).
Current(i) == i \in Active

\* Allowed: the script that asks runs, and the connection is there and permitted.
Allowed(owner, view, key) ==
    /\ status[owner] = "running"
    /\ player[view.slot] = view.connection
    /\ key \in Guarded => view.slot \in granted

Permitted(i, view) ==
    Current(i) /\ Allowed(objects[i].owner, view, objects[i].entry.key)

\* Object::Close of some objects: each gives its callback back, and is a change.
CloseObjects(closed) ==
    /\ objects' = [i \in DOMAIN objects \ closed |-> objects[i]]
    /\ tokens' = tokens \ closed
    /\ revision' = revision + Cardinality(closed)
    /\ UNCHANGED sequence

\* Script code runs: in a callback of an item, or between the frames.
ScriptsRun ==
    IF draw # None THEN draw.asked # None
    ELSE frame # None => frame.step \in {"asked", "called"}

\* Menu::Add: the other generation of a script may register what the first one has.
Clash(i, o, entry) ==
    /\ objects[i].entry.key = entry.key
    /\ \/ PluginOf[objects[i].owner] # PluginOf[o]
       \/ objects[i].owner = o
       \/ objects[i].entry # entry
MayAdd(o, entry) ==
    /\ Cardinality(DOMAIN objects) < MaxObjects
    /\ \A i \in DOMAIN objects : ~Clash(i, o, entry)

\* AddCategory, AddItem: an item that cannot retain its callback or gets no handle is
\* closed again.
Add(o, entry) ==
    /\ ScriptsRun /\ status[o] = "running"
    /\ sequence <= MaxSequence /\ revision + 1 < MaxRevision
    /\ MayAdd(o, entry)
    /\ sequence' = sequence + 1
    /\ \/ /\ objects' = Put(objects, sequence, [owner |-> o, entry |-> entry])
          /\ tokens' = IF entry.kind = "item" THEN tokens \cup {sequence} ELSE tokens
          /\ revision' = revision + 1
       \/ /\ entry.kind = "item"
          /\ revision' = revision + 2
          /\ UNCHANGED <<objects, tokens>>
    /\ UNCHANGED <<world, views, shown, draw, frame>>

\* TopMenu_Remove: ~Registration closes the object.
CloseObject(i) ==
    /\ ScriptsRun /\ status[objects[i].owner] = "running"
    /\ CloseObjects({i})
    /\ UNCHANGED <<world, views, shown, draw, frame>>

\* SetTitle, SetLabel and SetOrder with another value.
Change(o) ==
    /\ ScriptsRun /\ status[o] = "running"
    /\ revision < MaxRevision
    /\ revision' = revision + 1
    /\ UNCHANGED <<world, objects, sequence, tokens, views, shown, draw, frame>>

-----------------------------------------------------------------------------
(* Displays.  A view is known by its slot: Show closes the earlier one.    *)

\* The views that are kept: those that are live or still have a native menu.
Kept_Live(vs) == {s \in DOMAIN vs : vs[s].live}
Kept(vs) == {s \in DOMAIN vs : vs[s].live \/ vs[s].session}

\* CloseView: the native menu is closed, or was not found, or the host fails.
CloseView(s, view) ==
    \/ views' = Put(views, s, [view EXCEPT !.session = FALSE]) /\ shown' = shown \ {s}
    \/ view.session /\ s \in shown /\ views' = Put(views, s, view) /\ UNCHANGED shown

\* Build begins: the categories are judged at once, for they have no callback.
StartDraw(view, category, page) ==
    [slot |-> view.slot, category |-> category, page |-> page,
     revision |-> revision, active |-> Active,
     open |-> {objects[i].entry.key : i \in {j \in Active :
                    objects[j].entry.kind = "category" /\ Permitted(j, view)}},
     left |-> {i \in Active : objects[i].entry.kind = "item"},
     answers |-> <<>>, asked |-> None]

\* TopMenu_Show: the earlier view of the slot is closed first, and views that have
\* ended are dropped; the frame that walks a copy of views_ finds them ended.
Show(o, s) ==
    /\ ScriptsRun /\ draw = None /\ status[o] = "running"
    /\ LET new == [slot |-> s, connection |-> player[s], owner |-> o, session |-> FALSE,
                   page |-> NoPage, live |-> TRUE, pending |-> None, picked |-> None]
           kept == Kept(views) \ {s}
       IN  /\ views' = [t \in kept \cup {s} |-> IF t = s THEN new ELSE views[t]]
           /\ draw' = StartDraw(new, Root, 0)
           /\ frame' = IF frame = None THEN None
                       ELSE [frame EXCEPT !.left = @ \cap kept,
                                          !.slot = IF @ \in kept THEN @ ELSE None]
    /\ shown' = shown \ {s}
    /\ UNCHANGED <<world, menu>>

\* The host cannot close the earlier view: it has ended, and the call fails.
ShowFails(s) ==
    /\ ScriptsRun /\ draw = None
    /\ s \in shown
    /\ views' = [views EXCEPT ![s].live = FALSE]
    /\ UNCHANGED <<world, menu, shown, draw, frame>>

\* TopMenu_Refresh; Draw refuses to be entered twice, and the view is then closed.
Refresh(s) ==
    /\ ScriptsRun /\ views[s].live /\ status[views[s].owner] = "running"
    /\ IF draw = None
       THEN /\ draw' = StartDraw(views[s], views[s].page.category, views[s].page.page)
            /\ UNCHANGED views
       ELSE /\ views' = [views EXCEPT ![s].live = FALSE]
            /\ UNCHANGED draw
    /\ UNCHANGED <<world, menu, shown, frame>>

\* TopMenu_CloseDisplay: ~DisplayLease; the native menu is closed by the next frame.
CloseDisplay(s) ==
    /\ ScriptsRun /\ views[s].live /\ status[views[s].owner] = "running"
    /\ views' = [views EXCEPT ![s].live = FALSE]
    /\ UNCHANGED <<world, menu, shown, draw, frame>>

\* Selected: the host tells which row the player chose, and closes its menu.
Select(s) ==
    /\ frame = None /\ draw = None
    /\ s \in shown /\ shown' = shown \ {s}
    /\ \E n \in DOMAIN views[s].page.rows :
          views' = IF views[s].live /\ player[s] = views[s].connection
                   THEN [views EXCEPT ![s].pending = n,
                                      ![s].picked = views[s].page.rows[n]]
                   ELSE views
    /\ UNCHANGED <<world, menu, draw, frame>>

-----------------------------------------------------------------------------
(* Draw.                                                                   *)

\* An exception in Show, Refresh or Tick: the view has ended.
Abandon(s) == views' = [views EXCEPT ![s].live = FALSE] /\ draw' = None

\* Item by item: its callback is called, unless its category is not open or the
\* player may not see it.
Ask ==
    /\ draw # None /\ draw.asked = None /\ draw.left # {}
    /\ LET i == Min(draw.left)
           parent == objects[i].entry.category
       IN  draw' = IF parent \in draw.open \cup {Root} /\ Permitted(i, views[draw.slot])
                   THEN [draw EXCEPT !.left = @ \ {i}, !.asked = i]
                   ELSE [draw EXCEPT !.left = @ \ {i}, !.answers = Put(@, i, "hidden")]
    /\ UNCHANGED <<world, menu, views, shown, frame>>

\* Dispatch returns.  An error, or an answer that is no access, closes the object.
\* Build stops when the menu is not the one that it began with.
MenuKept == draw.revision = revision
Answer(result) ==
    /\ draw # None /\ draw.asked # None
    /\ LET i == draw.asked
           failed == result = "failed" /\ i \in DOMAIN objects
       IN  /\ IF failed THEN CloseObjects({i}) ELSE UNCHANGED menu
           /\ IF failed \/ ~MenuKept
              THEN Abandon(draw.slot)
              ELSE /\ draw' = [draw EXCEPT !.asked = None, !.answers =
                          Put(@, i, IF Permitted(i, views[draw.slot]) THEN result ELSE "hidden")]
                   /\ UNCHANGED views
    /\ UNCHANGED <<world, shown, frame>>

\* The page: the items of the category, or the items without one and the categories
\* that have something to show, and the rows that lead elsewhere.
Row(kind, object, enabled, page) ==
    [kind |-> kind, object |-> object, enabled |-> enabled, page |-> page]
Control(condition, kind, enabled, page) ==
    IF condition THEN <<Row(kind, None, enabled, page)>> ELSE <<>>

Built(d) ==
    LET items == DOMAIN d.answers
        listed(key) == {i \in items : d.answers[i] # "hidden" /\ objects[i].entry.category = key}
        categories == {i \in d.active \ items :
                          objects[i].entry.key \in d.open /\ listed(objects[i].entry.key) # {}}
        sorted == SetToSortSeq(listed(d.category) \cup (IF d.category = Root THEN categories ELSE {}), <)
        page == Min({d.page, IF sorted = <<>> THEN 0 ELSE (Len(sorted) - 1) \div PerPage})
        part == SubSeq(sorted, page * PerPage + 1, Min({Len(sorted), (page + 1) * PerPage}))
    IN  [category |-> d.category, page |-> page, revision |-> d.revision,
         rows |-> [n \in DOMAIN part |->
                      Row("object", part[n],
                          part[n] \in items => d.answers[part[n]] = "enabled", 0)]
                  \o Control(sorted = <<>>, "empty", FALSE, 0)
                  \o Control(page > 0, "page", TRUE, page - 1)
                  \o Control((page + 1) * PerPage < Len(sorted), "page", TRUE, page + 1)
                  \o Control(d.category # Root, "back", TRUE, 0)]

\* The old native menu is closed and the new one opened; each may fail, and the
\* category and the viewer must still be there.
Redrawn_KeepsPending(view, page) == [view EXCEPT !.page = page, !.session = TRUE]
Redrawn(view, page) == [view EXCEPT !.page = page, !.session = TRUE,
                                     !.pending = None, !.picked = None]
FinishDraw ==
    /\ draw # None /\ draw.asked = None /\ draw.left = {}
    /\ LET s == draw.slot
           new == Redrawn(views[s], Built(draw))
       IN  IF /\ draw.category \in draw.open \cup {Root}
              /\ views[s].live /\ Allowed(views[s].owner, views[s], None)
           THEN \/ views' = Put(views, s, new) /\ shown' = shown \cup {s} /\ draw' = None
                \/ /\ views' = Put(views, s, [new EXCEPT !.session = FALSE, !.live = FALSE])
                   /\ shown' = shown \ {s} /\ draw' = None
                \/ s \in shown /\ Abandon(s) /\ UNCHANGED shown
           ELSE Abandon(s) /\ UNCHANGED shown
    /\ UNCHANGED <<world, menu, frame>>

-----------------------------------------------------------------------------
(* OnGameFrame.                                                            *)

\* The frame walks a copy of views_.
FrameBegins ==
    /\ frame = None /\ draw = None /\ DOMAIN views # {}
    /\ frame' = [left |-> DOMAIN views, step |-> "next", slot |-> None, object |-> None,
                picked |-> None]
    /\ UNCHANGED <<world, menu, views, shown, draw>>

\* Scope: the category of the page is still there and allowed.
Scope(view) ==
    \/ view.page.category = Root
    \/ \E i \in Active : /\ objects[i].entry.key = view.page.category
                         /\ objects[i].entry.kind = "category"
                         /\ Permitted(i, view)

Proper(view) == view.live /\ Allowed(view.owner, view, None) /\ Scope(view)

Stale(view) ==
    \/ view.page.revision # revision
    \/ \E n \in DOMAIN view.page.rows :
          /\ view.page.rows[n].kind = "object"
          /\ ~Permitted(view.page.rows[n].object, view)

Turn(s) == frame # None /\ frame.step = "next" /\ s \in frame.left
Taken(step, s, object) ==
    frame' = [left |-> frame.left \ {s}, step |-> step, slot |-> s, object |-> object,
              picked |-> views[s].picked]
Passed(s) == frame' = [frame EXCEPT !.left = @ \ {s}]

\* Draw at the end of Tick.
DrawInTick(s, view, category, page) ==
    /\ views' = Put(views, s, view)
    /\ draw' = StartDraw(view, category, page)
    /\ Taken("drawn", s, None)

\* A view that the player may not see any more, or whose native menu is gone.
TickOver(s) ==
    /\ Turn(s)
    /\ LET view == views[s]
       IN  /\ \/ ~Proper(view)
              \/ ~Stale(view) /\ view.pending = None /\ view.session /\ s \notin shown
           /\ CloseView(s, [view EXCEPT !.live = FALSE])
    /\ Passed(s)
    /\ UNCHANGED <<world, menu, draw>>

TickStale(s) ==
    /\ Turn(s) /\ Proper(views[s]) /\ Stale(views[s])
    /\ DrawInTick(s, views[s], views[s].page.category, views[s].page.page)
    /\ UNCHANGED <<world, menu, shown>>

\* Nothing was selected, or the native menu cannot be closed yet.
TickIdle(s) ==
    /\ Turn(s) /\ Proper(views[s]) /\ ~Stale(views[s])
    /\ \/ views[s].pending = None /\ (views[s].session => s \in shown)
       \/ views[s].pending # None /\ s \in shown
    /\ Passed(s)
    /\ UNCHANGED <<world, menu, views, shown, draw>>

\* A selection: a row without effect, another page or a category, or an item, which
\* is asked again before it is chosen.
TickSelected(s) ==
    /\ Turn(s) /\ Proper(views[s]) /\ ~Stale(views[s]) /\ views[s].pending # None
    /\ LET view == [views[s] EXCEPT !.session = FALSE, !.pending = None, !.picked = None]
           row == view.page.rows[views[s].pending]
           entry == objects[row.object].entry
       IN  \/ /\ ~row.enabled
              /\ views' = Put(views, s, [view EXCEPT !.live = FALSE]) /\ Passed(s)
              /\ UNCHANGED draw
           \/ row.kind = "back" /\ DrawInTick(s, view, Root, 0)
           \/ row.kind = "page" /\ DrawInTick(s, view, view.page.category, row.page)
           \/ /\ row.enabled /\ row.kind = "object" /\ entry.kind = "category"
              /\ DrawInTick(s, view, entry.key, 0)
           \/ /\ row.enabled /\ row.kind = "object" /\ entry.kind = "item"
              /\ views' = Put(views, s, view) /\ Taken("asked", s, row.object)
              /\ UNCHANGED draw
    /\ shown' = shown \ {s}
    /\ UNCHANGED <<world, menu>>

\* The view of the frame, unless a callback has replaced it.
Held == frame.slot # None
View == views[frame.slot]

\* The item has answered.  If it still is enabled for the view, and the menu is the
\* one of the page, its callback is called for the selection.
AskAnswers(result) ==
    /\ frame # None /\ frame.step = "asked" /\ draw = None
    /\ LET i == frame.object
           known == i \in DOMAIN objects
       IN  /\ IF result = "failed" /\ known THEN CloseObjects({i}) ELSE UNCHANGED menu
           /\ IF /\ result = "enabled" /\ Held /\ known
                 /\ Permitted(i, View) /\ View.live /\ Scope(View)
              THEN IF View.page.revision # revision
                   THEN DrawInTick(frame.slot, View, View.page.category, View.page.page)
                   ELSE /\ views' = [views EXCEPT ![frame.slot].live = FALSE]
                        /\ frame' = [frame EXCEPT !.step = "called"]
                        /\ UNCHANGED draw
              ELSE /\ views' = IF Held THEN [views EXCEPT ![frame.slot].live = FALSE] ELSE views
                   /\ frame' = [frame EXCEPT !.step = "drawn"]
                   /\ UNCHANGED draw
    /\ UNCHANGED <<world, shown>>

\* The callback of the selection returns.
CallReturns(failed) ==
    /\ frame # None /\ frame.step = "called" /\ draw = None
    /\ IF failed /\ frame.object \in DOMAIN objects
       THEN CloseObjects({frame.object}) ELSE UNCHANGED menu
    /\ frame' = [frame EXCEPT !.step = "drawn"]
    /\ UNCHANGED <<world, views, shown, draw>>

\* After Tick: a view that has ended is closed, or tried again in the next frame.
EndTick ==
    /\ frame # None /\ frame.step = "drawn" /\ draw = None
    /\ IF Held /\ ~View.live THEN CloseView(frame.slot, View) ELSE UNCHANGED <<views, shown>>
    /\ frame' = [frame EXCEPT !.step = "next", !.slot = None, !.object = None,
                              !.picked = None]
    /\ UNCHANGED <<world, menu, draw>>

FrameEnds ==
    /\ frame # None /\ frame.step = "next" /\ frame.left = {}
    /\ views' = [s \in Kept(views) |-> views[s]]
    /\ frame' = None
    /\ UNCHANGED <<world, menu, shown, draw>>

-----------------------------------------------------------------------------
(* The server.                                                             *)

\* A script is paused or resumed.
SetStatus(o) ==
    /\ ScriptsRun
    /\ status[o] # "gone"
    /\ status' = [status EXCEPT ![o] = IF @ = "running" THEN "paused" ELSE "running"]
    /\ UNCHANGED <<granted, player, menu, views, shown, draw, frame>>

\* A script is unloaded or replaced, which needs its calls to have returned: its
\* objects and displays are closed.
Retire(o) ==
    /\ frame = None /\ draw = None /\ status[o] # "gone"
    /\ status' = [status EXCEPT ![o] = "gone"]
    /\ CloseObjects({i \in DOMAIN objects : objects[i].owner = o})
    /\ views' = [s \in DOMAIN views |-> [views[s] EXCEPT !.live = @ /\ views[s].owner # o]]
    /\ UNCHANGED <<granted, player, shown, draw, frame>>

SetPermission(s) ==
    /\ ScriptsRun
    /\ granted' = (granted \cup {s}) \ (granted \cap {s})
    /\ UNCHANGED <<status, player, menu, views, shown, draw, frame>>

\* The player leaves, another one takes the slot, and the host closes the menu.
Reconnect(s) ==
    /\ frame = None /\ draw = None /\ player[s] < MaxConnection
    /\ player' = [player EXCEPT ![s] = @ + 1]
    /\ shown' = shown \ {s}
    /\ UNCHANGED <<status, granted, menu, views, draw, frame>>

\* PrepareExtensionUnload: every view has ended; if a native menu cannot be closed
\* the views are kept, and the extension stays.
PrepareExtensionUnload ==
    /\ frame = None /\ draw = None
    /\ \E closed \in SUBSET DOMAIN views :
          /\ \A s \in DOMAIN views \ closed : views[s].session /\ s \in shown
          /\ shown' = shown \ closed
          /\ views' = IF closed = DOMAIN views THEN <<>>
                      ELSE [s \in DOMAIN views |-> [views[s] EXCEPT !.live = FALSE,
                                !.session = @ /\ s \notin closed]]
    /\ UNCHANGED <<world, menu, draw, frame>>

Results == {"enabled", "disabled", "hidden", "failed"}

Next ==
    \/ \E o \in Owners : \/ \E entry \in Entries : Add(o, entry)
                         \/ Change(o) \/ SetStatus(o) \/ Retire(o)
                         \/ \E s \in Slots : Show(o, s)
    \/ \E i \in DOMAIN objects : CloseObject(i)
    \/ \E s \in DOMAIN views :
          \/ ShowFails(s) \/ Refresh(s) \/ CloseDisplay(s) \/ Select(s)
          \/ TickOver(s) \/ TickStale(s) \/ TickIdle(s) \/ TickSelected(s)
    \/ Ask \/ FinishDraw \/ FrameBegins \/ EndTick \/ FrameEnds
    \/ \E result \in Results : Answer(result) \/ AskAnswers(result)
    \/ \E failed \in BOOLEAN : CallReturns(failed)
    \/ \E s \in Slots : SetPermission(s) \/ Reconnect(s)
    \/ PrepareExtensionUnload

Spec == Init /\ [][Next]_vars

-----------------------------------------------------------------------------
TypeOK ==
    /\ sequence \in 1 .. MaxSequence + 1
    /\ \A i \in DOMAIN objects : i < sequence /\ objects[i].entry \in Entries
    /\ DOMAIN views \subseteq Slots /\ shown \subseteq Slots
    /\ \A s \in DOMAIN views : views[s].pending # None =>
                                   views[s].pending \in DOMAIN views[s].page.rows
    /\ draw # None => draw.slot \in DOMAIN views

\* The host holds a pointer to a view while its menu is open (Selected): such a view
\* is in views_, and knows its session, however the display ended.
SessionsBacked ==
    /\ TypeOK
    /\ \A s \in shown : s \in DOMAIN views /\ views[s].session

\* A callback is retained exactly while its item is registered: it is given back
\* however the item is closed, and not a second time for another item.
TokensMatch ==
    tokens = {i \in DOMAIN objects : objects[i].entry.kind = "item"}

\* What the host will call back for, a view or an item, is known.
CalledIsKnown == SessionsBacked /\ TokensMatch

\* What is called for a selection is the enabled item that the player saw in the row
\* it chose, on a page of the menu as it is now, and still may use; whatever the
\* callbacks did between the choice and the call.  (picked is a history variable: the
\* row as it was on the screen.)
ChosenIsSeen ==
    [][(frame' # None /\ frame'.step = "called") /\ (frame = None \/ frame.step # "called") =>
          LET view == views[frame'.slot]
          IN  /\ frame.picked.object = frame'.object /\ frame.picked.enabled
              /\ player[view.slot] = view.connection
              /\ Permitted(frame'.object, view)
              /\ view.page.revision = revision]_vars
=============================================================================
