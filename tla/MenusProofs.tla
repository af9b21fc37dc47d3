---------------------------- MODULE MenusProofs ----------------------------
(***************************************************************************)
(* Proofs about Menus: the records of the menus agree with the screens,    *)
(* the leases and the handles, and every choice is the viewer's, once; and *)
(* about TopMenus: what the host will call back for is known, and the call *)
(* for a choice is for what was on the screen.                             *)
(*                                                                         *)
(* What closes menus is a set of outcomes, each with a view of the state   *)
(* it leaves; so the invariant is stated of a view, and each operator is   *)
(* shown to lead from good views to good views.                            *)
(***************************************************************************)
EXTENDS Menus, MCTopMenus, FiniteSetTheorems, SequenceTheorems, NaturalsInduction, WellFoundedInduction, TLAPS

\* The menu that the screen of a slot must show.
Expected(v, s) ==
    IF v.display[s] # None /\ v.display[s].conn = connection[s] THEN v.display[s].session
    ELSE IF v.native[s] # None /\ v.native[s].conn = connection[s] /\ ~v.native[s].cleared
         THEN v.native[s].session ELSE None

\* A menu on record was shown to a connection that has joined, as a session that was given
\* out; nothing has been chosen of it unless it is native and closing.
RecordSound(d, s) ==
    /\ d.conn <= joined /\ d.session < next /\ viewer[d.session] = <<s, d.conn>>

SlotSound(v, s) ==
    /\ v.display[s] = None \/ v.native[s] = None
    /\ v.display[s] # None =>
          RecordSound(v.display[s], s) /\ chosen[v.display[s].session] = <<>> /\ v.display[s].menu \in v.menus
    /\ v.native[s] # None =>
          /\ RecordSound(v.native[s], s)
          /\ ~v.native[s].closing => chosen[v.native[s].session] = <<>>
          /\ v.native[s].active => v.native[s].cleared
          /\ v.native[s].cleared => v.native[s].closing
    /\ connection[s] # 0 => v.screen[s] = Expected(v, s)

\* The slots with a menu of an extension, and with a callback that runs.
Of(v, e) == {s \in Slots : v.native[s] # None /\ v.native[s].ext = e}
Calling(v) == {s \in Slots : v.native[s] # None /\ v.native[s].active}

Views == [screen : [Slots -> Sessions \cup {None}], display : [Slots -> Display \cup {None}],
          native : [Slots -> NativeDisplay \cup {None}], menus : SUBSET Menus, leased : SUBSET Exts]

Leases(v) == v.leased = {e \in Exts : users[e] > 0 \/ Of(v, e) # {}}

Good(v) ==
    /\ v \in Views
    /\ \A s \in Slots : SlotSound(v, s)
    /\ \A s, t \in Slots : v.display[s] # None /\ v.display[t] # None /\ v.display[s].menu = v.display[t].menu
                           => s = t
    /\ Leases(v)

\* The variables that no view has.
RestTypes ==
    /\ connection \in [Slots -> 0..joined] /\ joined \in 0..MaxConnections
    /\ running \subseteq Scripts /\ users \in [Exts -> 0..Cardinality(Scripts)]
    /\ next \in 1..MaxSessions + 1 /\ stack \in Seq(Slots)
    /\ \A i, j \in 1..Len(stack) : i # j => stack[i] # stack[j]
    /\ viewer \in [Sessions -> {<<>>} \cup (Slots \X Connections)]

\* A session of which something was chosen was given out, and chosen of once, by its viewer.
ChosenSound ==
    /\ chosen \in [Sessions -> {<<>>} \cup {<<c>> : c \in Sessions \X Slots \X Connections}]
    /\ \A k \in Sessions : chosen[k] # <<>> => k < next /\ chosen[k] = << <<k>> \o viewer[k] >>

MInv == Good(View) /\ RestTypes /\ ChosenSound /\ Range(stack) = Calling(View)

-----------------------------------------------------------------------------
(* Views.                                                                  *)

Elsewhere(v, w, s) ==
    \A t \in Slots \ {s} : w.screen[t] = v.screen[t] /\ w.display[t] = v.display[t] /\ w.native[t] = v.native[t]

LEMMA NotNone == None \notin Sessions /\ None \notin Display /\ None \notin NativeDisplay
BY NoneAssumption

\* A view that differs from a good one at a slot only.
LEMMA ChangedAt ==
    ASSUME NEW v, Good(v), NEW w \in Views, NEW s \in Slots, Elsewhere(v, w, s), SlotSound(w, s), Leases(w),
           \A t \in Slots \ {s} : v.display[t] # None =>
               /\ v.display[t].menu \in w.menus
               /\ w.display[s] # None => w.display[s].menu # v.display[t].menu
    PROVE  Good(w)
<1>1. ASSUME NEW t \in Slots PROVE SlotSound(w, t)
  <2>1. CASE t # s
    <3>1. w.screen[t] = v.screen[t] /\ w.display[t] = v.display[t] /\ w.native[t] = v.native[t]
      BY <2>1 DEF Elsewhere
    <3>2. SlotSound(v, t) /\ (v.display[t] # None => v.display[t].menu \in w.menus)
      BY <2>1 DEF Good
    <3>3. Expected(w, t) = Expected(v, t)
      BY <3>1 DEF Expected
    <3> QED
      BY <3>1, <3>2, <3>3 DEF SlotSound
  <2> QED
    BY <2>1
<1>2. \A t, u \in Slots : w.display[t] # None /\ w.display[u] # None /\ w.display[t].menu = w.display[u].menu
                         => t = u
  BY DEF Good, Elsewhere
<1> QED
  BY <1>1, <1>2 DEF Good

\* A native menu that goes on closing.
LEMMA NativeChanged ==
    ASSUME NEW v, Good(v), NEW w \in Views, NEW s \in Slots, Elsewhere(v, w, s),
           w.display = v.display, w.menus = v.menus, w.leased = v.leased,
           v.native[s] # None, w.native[s] # None,
           w.native[s].session = v.native[s].session, w.native[s].ext = v.native[s].ext,
           w.native[s].conn = v.native[s].conn,
           v.native[s].closing => w.native[s].closing,
           w.native[s].active => w.native[s].cleared, w.native[s].cleared => w.native[s].closing,
           connection[s] # 0 => w.screen[s] = Expected(w, s)
    PROVE  Good(w)
<1>1. SlotSound(w, s)
  BY DEF Good, SlotSound, RecordSound
<1>2. \A e \in Exts : Of(w, e) = Of(v, e)
  BY DEF Of, Elsewhere
<1>3. Leases(w)
  BY <1>2 DEF Good, Leases
<1>4. \A t \in Slots \ {s} : v.display[t] # None =>
         /\ v.display[t].menu \in w.menus
         /\ w.display[s] # None => w.display[s].menu # v.display[t].menu
  BY DEF Good, SlotSound
<1> QED
  BY <1>1, <1>3, <1>4, ChangedAt

LEMMA ClearGood ==
    ASSUME NEW v, Good(v), NEW s \in Slots, v.native[s] # None, NEW r \in Clear(v, s)
    PROVE  /\ Good(r.view) /\ Elsewhere(v, r.view, s) /\ r.ok \in BOOLEAN
           /\ r.view.display = v.display /\ r.view.menus = v.menus /\ r.view.leased = v.leased
           /\ r.view.native[s] # None /\ r.view.native[s].session = v.native[s].session
           /\ r.view.native[s].ext = v.native[s].ext /\ r.view.native[s].conn = v.native[s].conn
           /\ r.view.native[s].active = v.native[s].active /\ r.view.native[s].closing
           /\ r.ok => r.view.native[s].cleared
<1> DEFINE closing == [v EXCEPT !.native[s].closing = TRUE]
           cleared == [closing EXCEPT !.native[s].cleared = TRUE]
           wiped == Wiped(cleared, s, v.native[s].conn)
<1>1. v \in Views /\ v.native[s] \in NativeDisplay /\ SlotSound(v, s) /\ connection[s] = connection[s]
  BY DEF Good, Views
<1>2. /\ closing \in Views /\ Elsewhere(v, closing, s) /\ closing.screen = v.screen
      /\ closing.display = v.display /\ closing.menus = v.menus /\ closing.leased = v.leased
      /\ closing.native[s] = [v.native[s] EXCEPT !.closing = TRUE]
  BY <1>1 DEF Views, NativeDisplay, Elsewhere
<1>3. [v.native[s] EXCEPT !.closing = TRUE] \in NativeDisplay
  BY <1>1 DEF NativeDisplay
<1>4. Good(closing)
  <2>1. /\ closing.native[s] # None /\ closing.native[s].session = v.native[s].session
        /\ closing.native[s].ext = v.native[s].ext /\ closing.native[s].conn = v.native[s].conn
        /\ closing.native[s].active = v.native[s].active /\ closing.native[s].cleared = v.native[s].cleared
        /\ closing.native[s].closing
    BY <1>1, <1>2, <1>3, NotNone DEF NativeDisplay
  <2>2. connection[s] # 0 => closing.screen[s] = Expected(closing, s)
    BY <1>1, <1>2, <2>1 DEF SlotSound, Expected
  <2> HIDE DEF closing
  <2> QED
    BY <1>1, <1>2, <2>1, <2>2, NativeChanged DEF SlotSound
<1>5. /\ cleared \in Views /\ Elsewhere(v, cleared, s) /\ cleared.screen = v.screen
      /\ cleared.display = v.display /\ cleared.menus = v.menus /\ cleared.leased = v.leased
      /\ cleared.native[s] = [v.native[s] EXCEPT !.closing = TRUE, !.cleared = TRUE]
  BY <1>1, <1>2 DEF Views, NativeDisplay, Elsewhere
<1>6. /\ wiped \in Views /\ Elsewhere(v, wiped, s)
      /\ wiped.display = v.display /\ wiped.menus = v.menus /\ wiped.leased = v.leased
      /\ wiped.native = cleared.native
      /\ wiped.screen[s] = IF connection[s] = v.native[s].conn THEN None ELSE v.screen[s]
  <2> HIDE DEF closing, cleared
  <2> QED
    BY <1>5 DEF Views, Elsewhere, Wiped
<1>7. [v.native[s] EXCEPT !.closing = TRUE, !.cleared = TRUE] \in NativeDisplay
  BY <1>1 DEF NativeDisplay
<1>8. /\ wiped.native[s] # None /\ wiped.native[s].session = v.native[s].session
      /\ wiped.native[s].ext = v.native[s].ext /\ wiped.native[s].conn = v.native[s].conn
      /\ wiped.native[s].active = v.native[s].active /\ wiped.native[s].closing /\ wiped.native[s].cleared
  <2>1. wiped.native[s] = [v.native[s] EXCEPT !.closing = TRUE, !.cleared = TRUE]
    BY <1>5, <1>6
  <2> HIDE DEF wiped, cleared, closing
  <2>2. wiped.native[s] # None
    BY <1>7, <2>1, NotNone
  <2> QED
    BY <1>1, <2>1, <2>2 DEF NativeDisplay
<1> HIDE DEF wiped
<1>9. Good(wiped)
  <2>1. connection[s] # 0 => wiped.screen[s] = Expected(wiped, s)
    BY <1>1, <1>6, <1>8 DEF SlotSound, Expected
  <2> QED
    BY <1>1, <1>6, <1>8, <2>1, NativeChanged
<1>10. \/ /\ v.native[s].cleared /\ r = Done(closing)
       \/ r = Refused(closing)
       \/ r = Done(wiped)
  BY DEF Clear, wiped
<1>11. /\ closing.native[s] # None /\ closing.native[s].session = v.native[s].session
       /\ closing.native[s].ext = v.native[s].ext /\ closing.native[s].conn = v.native[s].conn
       /\ closing.native[s].active = v.native[s].active /\ closing.native[s].cleared = v.native[s].cleared
       /\ closing.native[s].closing
  BY <1>1, <1>2, <1>3, NotNone DEF NativeDisplay
<1> HIDE DEF closing
<1>12. CASE v.native[s].cleared /\ r = Done(closing)
  BY <1>2, <1>4, <1>11, <1>12 DEF Done
<1>13. CASE r = Refused(closing)
  BY <1>2, <1>4, <1>11, <1>13 DEF Refused
<1>14. CASE r = Done(wiped)
  BY <1>6, <1>8, <1>9, <1>14 DEF Done
<1> QED
  BY <1>10, <1>12, <1>13, <1>14

\* What the number of a service's users says.
LEMMA UsersOf ==
    ASSUME NEW v, NEW e \in Exts, RestTypes
    PROVE  /\ ServiceUsers(v, e) \in Nat /\ users[e] \in Nat
           /\ ServiceUsers(v, e) = 0 <=> users[e] = 0 /\ Of(v, e) = {}
           /\ \A s \in Of(v, e) : ServiceUsers(v, e) = 1 <=> users[e] = 0 /\ Of(v, e) = {s}
           /\ users[e] > 0 => (ServiceUsers(v, e) = 1 <=> users[e] = 1 /\ Of(v, e) = {})
<1>1. IsFiniteSet(Of(v, e))
  <2>1. Of(v, e) \in SUBSET Slots /\ IsFiniteSet(Slots)
    BY MenusAssumption DEF Of
  <2> QED
    BY <2>1, FS_Subset
<1>2. Cardinality(Of(v, e)) \in Nat /\ (Cardinality(Of(v, e)) = 0 <=> Of(v, e) = {})
  BY <1>1, FS_CardinalityType, FS_EmptySet
<1>3. users[e] \in Nat
  <2>1. Cardinality(Scripts) \in Nat
    BY MenusAssumption, FS_CardinalityType
  <2> QED
    BY <2>1 DEF RestTypes
<1>4. ServiceUsers(v, e) = users[e] + Cardinality(Of(v, e))
  BY DEF ServiceUsers, Of
<1>5. \A s \in Of(v, e) : Cardinality(Of(v, e)) = 1 <=> Of(v, e) = {s}
  BY <1>1, FS_Singleton
<1> HIDE DEF ServiceUsers
<1> QED
  BY <1>2, <1>3, <1>4, <1>5

\* CloseNativeDisplay, its end: whoever else uses the service keeps it.
LEMMA ReleaseShape ==
    ASSUME NEW v \in Views, Leases(v), RestTypes, NEW s \in Slots, v.native[s] # None, NEW r \in Release(v, s)
    PROVE  \/ r.view = v /\ r.ok = FALSE
           \/ /\ r.ok = TRUE /\ r.view \in Views /\ Elsewhere(v, r.view, s) /\ Leases(r.view)
              /\ r.view.native[s] = None /\ r.view.screen = v.screen
              /\ r.view.display = v.display /\ r.view.menus = v.menus
<1> DEFINE e == v.native[s].ext
           gone == [v EXCEPT !.native[s] = None]
           given == [gone EXCEPT !.leased = @ \ {e}]
<1>1. v.native[s] \in NativeDisplay /\ e \in Exts /\ s \in Of(v, e)
  BY DEF Views, NativeDisplay, Of
<1>2. /\ gone \in Views /\ Elsewhere(v, gone, s) /\ gone.native[s] = None /\ gone.screen = v.screen
      /\ gone.display = v.display /\ gone.menus = v.menus /\ gone.leased = v.leased
  BY <1>1 DEF Views, Elsewhere
<1>3. /\ given \in Views /\ Elsewhere(v, given, s) /\ given.native = gone.native /\ given.screen = v.screen
      /\ given.display = v.display /\ given.menus = v.menus /\ given.leased = v.leased \ {e}
  BY <1>1, <1>2 DEF Views, Elsewhere
<1> HIDE DEF gone, given
<1>4. \A f \in Exts : Of(gone, f) = Of(v, f) \ {s} /\ Of(given, f) = Of(v, f) \ {s} /\ (f # e => s \notin Of(v, f))
  BY <1>2, <1>3 DEF Of, Elsewhere
<1>5. CASE ServiceUsers(v, e) = 1
  <2>1. users[e] = 0 /\ Of(v, e) = {s}
    BY <1>1, <1>5, UsersOf
  <2>2. Leases(given)
    BY <1>1, <1>3, <1>4, <2>1 DEF Leases
  <2>3. r = Done(given) \/ r = Refused(v)
    BY <1>5 DEF Release, given, gone
  <2> QED
    BY <1>2, <1>3, <2>2, <2>3 DEF Done, Refused
<1>6. CASE ServiceUsers(v, e) # 1
  <2>1. users[e] > 0 \/ Of(v, e) # {s}
    BY <1>1, <1>6, UsersOf
  <2>2. Leases(gone)
    BY <1>1, <1>2, <1>4, <2>1 DEF Leases
  <2>3. r = Done(gone)
    BY <1>6 DEF Release, gone
  <2> QED
    BY <1>2, <2>2, <2>3 DEF Done
<1> QED
  BY <1>5, <1>6

LEMMA ReleaseGood ==
    ASSUME NEW v, Good(v), RestTypes, NEW s \in Slots, v.native[s] # None, Expected(v, s) = None,
           NEW r \in Release(v, s)
    PROVE  /\ Good(r.view) /\ Elsewhere(v, r.view, s) /\ r.ok \in BOOLEAN
           /\ r.view.display = v.display /\ r.view.menus = v.menus
           /\ r.ok => r.view.native[s] = None
           /\ ~r.ok => r.view = v
<1> DEFINE w == r.view
<1>1. v \in Views /\ SlotSound(v, s) /\ Leases(v)
  BY DEF Good
<1>2. \/ w = v /\ r.ok = FALSE
      \/ /\ r.ok = TRUE /\ w \in Views /\ Elsewhere(v, w, s) /\ Leases(w)
         /\ w.native[s] = None /\ w.screen = v.screen
         /\ w.display = v.display /\ w.menus = v.menus
  BY <1>1, ReleaseShape
<1> HIDE DEF w
<1>3. CASE w = v /\ r.ok = FALSE
  BY <1>3 DEF Elsewhere, w
<1>4. CASE w # v \/ r.ok # FALSE
  <2>1. v.display[s] = None /\ Expected(w, s) = None
    BY <1>1, <1>2, <1>4 DEF SlotSound, Expected
  <2>2. SlotSound(w, s)
    BY <1>1, <1>2, <1>4, <2>1 DEF SlotSound
  <2>3. \A t \in Slots \ {s} : v.display[t] # None =>
           /\ v.display[t].menu \in w.menus
           /\ w.display[s] # None => w.display[s].menu # v.display[t].menu
    BY <1>2, <1>4, <2>1 DEF Good, SlotSound
  <2>4. Good(w)
    BY <1>2, <1>4, <2>2, <2>3, ChangedAt
  <2> QED
    BY <1>2, <1>4, <2>4 DEF w
<1> QED
  BY <1>3, <1>4

\* CloseNativeDisplay: a callback that runs is left alone.
LEMMA CloseNativeGood ==
    ASSUME NEW v, Good(v), RestTypes, NEW s \in Slots, NEW r \in CloseNative(v, s)
    PROVE  /\ Good(r.view) /\ Elsewhere(v, r.view, s) /\ r.ok \in BOOLEAN
           /\ r.view.display = v.display /\ r.view.menus = v.menus
           /\ Calling(r.view) = Calling(v)
           /\ r.ok => r.view.native[s] = None
<1>1. CASE v.native[s] = None
  <2>1. r = Done(v)
    BY <1>1 DEF CloseNative
  <2>2. r.view = v /\ r.ok
    BY <2>1 DEF Done
  <2> QED
    BY <1>1, <2>2 DEF Elsewhere
<1>2. CASE v.native[s] # None /\ v.native[s].active
  <2>1. r = Refused(v)
    BY <1>2 DEF CloseNative
  <2>2. r.view = v /\ ~r.ok /\ r.ok \in BOOLEAN
    BY <2>1 DEF Refused
  <2> QED
    BY <1>2, <2>2 DEF Elsewhere
<1>3. CASE v.native[s] # None /\ ~v.native[s].active
  <2>1. PICK q \in Clear(v, s) : r \in (IF q.ok THEN Release(q.view, s) ELSE {q})
    BY <1>3 DEF CloseNative
  <2>2. /\ Good(q.view) /\ Elsewhere(v, q.view, s) /\ q.ok \in BOOLEAN
        /\ q.view.display = v.display /\ q.view.menus = v.menus
        /\ q.view.native[s] # None /\ ~q.view.native[s].active
        /\ q.ok => q.view.native[s].cleared
    BY <1>3, <2>1, ClearGood
  <2>3. Calling(q.view) = Calling(v)
    BY <1>3, <2>2 DEF Calling, Elsewhere
  <2>4. CASE ~q.ok
    BY <2>1, <2>2, <2>3, <2>4
  <2>5. CASE q.ok
    <3>1. Expected(q.view, s) = None
      BY <2>2, <2>5 DEF Expected, Good, SlotSound
    <3>2. r \in Release(q.view, s)
      BY <2>1, <2>5
    <3>3. /\ Good(r.view) /\ Elsewhere(q.view, r.view, s) /\ r.ok \in BOOLEAN
          /\ r.view.display = v.display /\ r.view.menus = v.menus
          /\ r.ok => r.view.native[s] = None
          /\ ~r.ok => r.view = q.view
      BY <2>2, <3>1, <3>2, ReleaseGood
    <3>4. Calling(r.view) = Calling(q.view)
      BY <2>2, <3>3 DEF Calling, Elsewhere
    <3>5. Elsewhere(v, r.view, s)
      BY <2>2, <3>3 DEF Elsewhere
    <3> QED
      BY <2>3, <3>3, <3>4, <3>5
  <2> QED
    BY <2>2, <2>4, <2>5
<1> QED
  BY <1>1, <1>2, <1>3

\* CloseDisplay, its second half: the handles of the other displayed menus stay live.
LEMMA RetiredGood ==
    ASSUME NEW v, Good(v), NEW s \in Slots, v.display[s] # None
    PROVE  /\ Good(Retired(v, s)) /\ Elsewhere(v, Retired(v, s), s)
           /\ Retired(v, s).display[s] = None /\ Retired(v, s).native = v.native
           /\ Retired(v, s).menus = v.menus \ {v.display[s].menu}
<1> DEFINE conn == v.display[s].conn
           wiped == Wiped(v, s, conn)
           w == Retired(v, s)
<1>1. v \in Views /\ v.display[s] \in Display /\ SlotSound(v, s) /\ Leases(v) /\ v.native[s] = None
  BY DEF Good, Views, SlotSound
<1>2. /\ wiped \in Views /\ wiped.display = v.display /\ wiped.native = v.native /\ wiped.menus = v.menus
      /\ wiped.leased = v.leased /\ wiped.screen[s] = IF connection[s] = conn THEN None ELSE v.screen[s]
      /\ \A t \in Slots \ {s} : wiped.screen[t] = v.screen[t]
  BY <1>1 DEF Views, Wiped
<1>3. w = [wiped EXCEPT !.display[s] = None, !.menus = @ \ {v.display[s].menu}]
  BY DEF Retired
<1> HIDE DEF wiped, w
<1>4. /\ w \in Views /\ w.native = v.native /\ w.screen = wiped.screen /\ w.leased = v.leased
      /\ w.menus = v.menus \ {v.display[s].menu} /\ w.display[s] = None
      /\ \A t \in Slots \ {s} : w.display[t] = v.display[t]
  BY <1>2, <1>3 DEF Views
<1>5. Elsewhere(v, w, s)
  BY <1>2, <1>4 DEF Elsewhere
<1>6. SlotSound(w, s)
  BY <1>1, <1>2, <1>4 DEF SlotSound, Expected
<1>7. Leases(w)
  BY <1>1, <1>4 DEF Leases, Of
<1>8. \A t \in Slots \ {s} : v.display[t] # None => v.display[t].menu \in w.menus
  BY <1>4 DEF Good, SlotSound
<1>9. Good(w)
  BY <1>4, <1>5, <1>6, <1>7, <1>8, ChangedAt
<1> QED
  BY <1>4, <1>5, <1>9 DEF w

\* CloseDisplay: what it closes and what it leaves.
LEMMA CloseDisplayGood ==
    ASSUME NEW v, Good(v), RestTypes, NEW s \in Slots, NEW r \in CloseDisplay(v, s)
    PROVE  /\ Good(r.view) /\ Elsewhere(v, r.view, s) /\ r.ok \in BOOLEAN
           /\ Calling(r.view) = Calling(v)
           /\ r.ok => r.view.display[s] = None /\ r.view.native[s] = None
           /\ \A m \in v.menus : m \in r.view.menus \/ (v.display[s] # None /\ m = v.display[s].menu)
<1>1. PICK q \in CloseNative(v, s) : r \in (IF q.ok THEN CloseScript(q.view, s) ELSE {q})
  BY DEF CloseDisplay
<1>2. /\ Good(q.view) /\ Elsewhere(v, q.view, s) /\ q.ok \in BOOLEAN
      /\ q.view.display = v.display /\ q.view.menus = v.menus
      /\ Calling(q.view) = Calling(v)
      /\ q.ok => q.view.native[s] = None
  BY CloseNativeGood
<1>3. CASE ~q.ok
  BY <1>1, <1>2, <1>3
<1>4. CASE q.ok /\ q.view.display[s] = None
  <2>1. r = Done(q.view)
    BY <1>1, <1>4 DEF CloseScript
  <2>2. r.view = q.view /\ r.ok
    BY <2>1 DEF Done
  <2> QED
    BY <1>2, <1>4, <2>2
<1>5. CASE q.ok /\ q.view.display[s] # None
  <2>1. r = Refused(q.view) \/ r = Done(Retired(q.view, s))
    BY <1>1, <1>5 DEF CloseScript
  <2>2. CASE r = Refused(q.view)
    <3>1. r.view = q.view /\ ~r.ok /\ r.ok \in BOOLEAN
      BY <2>2 DEF Refused
    <3> QED
      BY <1>2, <3>1
  <2>3. CASE r = Done(Retired(q.view, s))
    <3>1. r.view = Retired(q.view, s) /\ r.ok /\ r.ok \in BOOLEAN
      BY <2>3 DEF Done
    <3>2. /\ Good(r.view) /\ Elsewhere(q.view, r.view, s)
          /\ r.view.display[s] = None /\ r.view.native = q.view.native
          /\ r.view.menus = q.view.menus \ {q.view.display[s].menu}
      BY <1>2, <1>5, <3>1, RetiredGood
    <3>3. Elsewhere(v, r.view, s) /\ Calling(r.view) = Calling(v)
      BY <1>2, <3>2 DEF Elsewhere, Calling
    <3> QED
      BY <1>2, <1>5, <3>1, <3>2, <3>3
  <2> QED
    BY <2>1, <2>2, <2>3
<1> QED
  BY <1>2, <1>3, <1>4, <1>5

-----------------------------------------------------------------------------
(* From a view to the next state.                                          *)

LEMMA Viewed ==
    ASSUME NEW v \in Views, Become(v) PROVE View' = v
BY DEF Become, View, Views

\* A view stays good when only what it does not depend on changes.
LEMMA Stays ==
    ASSUME NEW v, Good(v), UNCHANGED <<connection, joined, users, next, viewer, chosen>>
    PROVE  Good(v)'
<1>1. \A d, s : RecordSound(d, s) => RecordSound(d, s)'
  BY DEF RecordSound
<1>2. \A s \in Slots : Expected(v, s)' = Expected(v, s)
  BY DEF Expected
<1>3. \A s \in Slots : SlotSound(v, s)'
  BY <1>1, <1>2 DEF Good, SlotSound
<1>4. Leases(v)'
  BY DEF Good, Leases, Of
<1> QED
  BY <1>3, <1>4 DEF Good

LEMMA Moved ==
    ASSUME NEW v, Good(v)', Become(v), RestTypes', ChosenSound', Range(stack') = Calling(v)
    PROVE  MInv'
<1>1. View' = v
  BY Viewed DEF Good
<1>2. Good(View)'
  BY <1>1 DEF Good, SlotSound, Leases, Of, Expected, RecordSound
<1>3. Calling(View)' = Calling(v)
  BY <1>1 DEF Calling
<1> QED
  BY <1>2, <1>3 DEF MInv

\* An action that closes menus, or marks them, and does nothing else.
LEMMA OnlyViews ==
    ASSUME MInv, NEW v, Good(v), Become(v), Calling(v) = Calling(View),
           UNCHANGED <<connection, joined, users, running, stack, next, viewer, chosen>>
    PROVE  MInv'
<1>1. Good(v)'
  BY Stays
<1>2. RestTypes' /\ ChosenSound' /\ Range(stack') = Calling(v)
  BY DEF MInv, RestTypes, ChosenSound
<1> QED
  BY <1>1, <1>2, Moved

\* OpenNextSession: the menus that are there are older.
LEMMA GivenOut ==
    ASSUME NEW v, Good(v), RestTypes, ChosenSound, next \in Sessions, next' = next + 1,
           \/ viewer' = viewer
           \/ \E s \in Slots : connection[s] # 0 /\ viewer' = [viewer EXCEPT ![next] = <<s, connection[s]>>],
           UNCHANGED <<connection, joined, users, running, stack, chosen>>
    PROVE  Good(v)' /\ RestTypes' /\ ChosenSound'
<1>1. next \in Nat /\ MaxSessions \in Nat /\ MaxConnections \in Nat
  BY MenusAssumption DEF Sessions
<1>2. viewer' \in [Sessions -> {<<>>} \cup (Slots \X Connections)]
  <2>1. \A s \in Slots : connection[s] # 0 => connection[s] \in Connections
    BY <1>1 DEF RestTypes, Connections
  <2> QED
    BY <2>1 DEF RestTypes
<1>3. \A k \in Sessions : k < next => viewer'[k] = viewer[k]
  BY <1>1 DEF RestTypes, Sessions
<1>4. RestTypes'
  BY <1>1, <1>2 DEF RestTypes, Sessions
<1>5. ChosenSound'
  BY <1>1, <1>3 DEF ChosenSound, Sessions
<1>6. \A d \in Display \cup NativeDisplay, s \in Slots : RecordSound(d, s) => RecordSound(d, s)'
  BY <1>1, <1>3 DEF RecordSound, Display, NativeDisplay, Sessions
<1>7. \A s \in Slots : Expected(v, s)' = Expected(v, s)
  BY DEF Expected
<1>8. ASSUME NEW s \in Slots PROVE SlotSound(v, s)'
  <2>1. v.display[s] \in Display \cup {None} /\ v.native[s] \in NativeDisplay \cup {None} /\ SlotSound(v, s)
    BY DEF Good, Views
  <2> QED
    BY <1>6, <1>7, <2>1 DEF SlotSound
<1>9. Leases(v)'
  BY DEF Good, Leases, Of
<1> QED
  BY <1>4, <1>5, <1>8, <1>9 DEF Good

\* A menu that is new in the next state.
LEMMA Added ==
    ASSUME NEW v, Good(v)', NEW w \in Views, NEW s \in Slots, Elsewhere(v, w, s), SlotSound(w, s)', Leases(w)',
           \A t \in Slots \ {s} : v.display[t] # None =>
               /\ v.display[t].menu \in w.menus
               /\ w.display[s] # None => w.display[s].menu # v.display[t].menu
    PROVE  Good(w)'
<1>1. ASSUME NEW t \in Slots PROVE SlotSound(w, t)'
  <2>1. CASE t # s
    <3>1. w.screen[t] = v.screen[t] /\ w.display[t] = v.display[t] /\ w.native[t] = v.native[t]
      BY <2>1 DEF Elsewhere
    <3>2. SlotSound(v, t)' /\ (v.display[t] # None => v.display[t].menu \in w.menus)
      BY <2>1 DEF Good
    <3>3. Expected(w, t)' = Expected(v, t)'
      BY <3>1 DEF Expected
    <3> QED
      BY <3>1, <3>2, <3>3 DEF SlotSound
  <2> QED
    BY <2>1
<1>2. \A t, u \in Slots : w.display[t] # None /\ w.display[u] # None /\ w.display[t].menu = w.display[u].menu
                         => t = u
  BY DEF Good, Elsewhere
<1> QED
  BY <1>1, <1>2 DEF Good

LEMMA Sequel ==
    ASSUME NEW a, NEW b, NEW c
    PROVE  <<a>> \o <<b, c>> = <<a, b, c>> /\ Append(<<>>, a) = <<a>>
<1> DEFINE S == {a, b, c}
           x == <<a>>
           y == <<b, c>>
           z == <<a, b, c>>
<1>1. /\ x \in Seq(S) /\ Len(x) = 1 /\ x[1] = a
      /\ y \in Seq(S) /\ Len(y) = 2 /\ y[1] = b /\ y[2] = c
      /\ z \in Seq(S) /\ Len(z) = 3 /\ z[1] = a /\ z[2] = b /\ z[3] = c
  OBVIOUS
<1>2. <<>> \in Seq(S) /\ Len(<<>>) = 0 /\ a \in S
  OBVIOUS
<1> HIDE DEF S, x, y, z
<1>3. /\ x \o y \in Seq(S) /\ Len(x \o y) = 3
      /\ \A i \in 1..3 : (x \o y)[i] = IF i <= 1 THEN x[i] ELSE y[i - 1]
  <2>1. /\ x \o y \in Seq(S) /\ Len(x \o y) = Len(x) + Len(y)
        /\ \A i \in 1..(Len(x) + Len(y)) : (x \o y)[i] = IF i <= Len(x) THEN x[i] ELSE y[i - Len(x)]
    BY <1>1, ConcatProperties
  <2> QED
    BY <1>1, <2>1
<1>4. \A i \in 1..3 : (x \o y)[i] = z[i]
  BY <1>1, <1>3
<1>5. x \o y = z
  BY <1>1, <1>3, <1>4, SeqEqual
<1>6. Append(<<>>, a) \in Seq(S) /\ Len(Append(<<>>, a)) = 1 /\ Append(<<>>, a)[1] = a
  BY <1>2, AppendProperties
<1>7. Append(<<>>, a) = x
  BY <1>1, <1>6, SeqEqual
<1> QED
  BY <1>5, <1>7 DEF x, y, z

\* A callback is called with the menu already gone, or closing.
LEMMA ChosenAt ==
    ASSUME NEW v, Good(v), RestTypes, ChosenSound, NEW s \in Slots, NEW k \in Sessions, NEW c \in Connections,
           k < next, viewer[k] = <<s, c>>, chosen[k] = <<>>,
           v.display[s] = None, v.native[s] # None => v.native[s].closing,
           chosen' = [chosen EXCEPT ![k] = Append(@, <<k, s, c>>)],
           UNCHANGED <<connection, joined, users, next, viewer>>
    PROVE  Good(v)' /\ ChosenSound'
<1>1. chosen' = [chosen EXCEPT ![k] = << <<k, s, c>> >>] /\ <<k>> \o viewer[k] = <<k, s, c>>
  <2>1. \A x : Append(<<>>, x) = <<x>>
    BY Sequel
  <2>2. <<k>> \o <<s, c>> = <<k, s, c>>
    BY Sequel
  <2>3. Append(chosen[k], <<k, s, c>>) = << <<k, s, c>> >>
    BY <2>1
  <2> QED
    BY <2>2, <2>3
<1>2. ChosenSound'
  <2>1. << <<k, s, c>> >> \in {<<d>> : d \in Sessions \X Slots \X Connections}
    OBVIOUS
  <2>2. chosen' \in [Sessions -> {<<>>} \cup {<<d>> : d \in Sessions \X Slots \X Connections}]
    BY <1>1, <2>1 DEF ChosenSound
  <2>3. chosen'[k] = << <<k, s, c>> >> /\ \A j \in Sessions \ {k} : chosen'[j] = chosen[j]
    BY <1>1 DEF ChosenSound
  <2>4. ASSUME NEW j \in Sessions, chosen'[j] # <<>> PROVE j < next' /\ chosen'[j] = << <<j>> \o viewer'[j] >>
    <3>1. CASE j = k
      BY <1>1, <2>3, <3>1
    <3>2. CASE j # k
      BY <2>3, <2>4, <3>2 DEF ChosenSound
    <3> QED
      BY <3>1, <3>2
  <2> QED
    BY <2>2, <2>4 DEF ChosenSound
<1>3. \A d, t : RecordSound(d, t) => RecordSound(d, t)'
  BY DEF RecordSound
<1>4. \A t \in Slots : Expected(v, t)' = Expected(v, t)
  BY DEF Expected
<1>5. \A j \in Sessions : j # k => chosen'[j] = chosen[j]
  BY <1>1 DEF ChosenSound
<1>6. ASSUME NEW t \in Slots PROVE SlotSound(v, t)'
  <2>1. v.display[t] \in Display \cup {None} /\ v.native[t] \in NativeDisplay \cup {None} /\ SlotSound(v, t)
    BY DEF Good, Views
  <2>2. \A d : RecordSound(d, t) /\ t # s => d.session # k
    BY DEF RecordSound
  <2> QED
    BY <1>3, <1>4, <1>5, <2>1, <2>2 DEF SlotSound, Display, NativeDisplay
<1>7. Leases(v)'
  BY DEF Good, Leases, Of
<1> QED
  BY <1>2, <1>6, <1>7 DEF Good

-----------------------------------------------------------------------------
(* The actions of scripts and extensions.                                  *)

\* Menu handles come and go, those that are displayed excepted.
LEMMA HandlesGood ==
    ASSUME NEW v, Good(v), NEW M \in SUBSET Menus, NEW w, w = [v EXCEPT !.menus = M],
           \A s \in Slots : v.display[s] # None => v.display[s].menu \in M
    PROVE  Good(w) /\ Calling(w) = Calling(v)
<1>1. /\ w \in Views /\ w.screen = v.screen /\ w.display = v.display /\ w.native = v.native
      /\ w.leased = v.leased /\ w.menus = M
  BY DEF Good, Views
<1>2. \A s \in Slots : Expected(w, s) = Expected(v, s)
  BY <1>1 DEF Expected
<1>3. \A s \in Slots : SlotSound(w, s)
  BY <1>1, <1>2 DEF Good, SlotSound
<1>4. Leases(w) /\ Calling(w) = Calling(v)
  BY <1>1 DEF Good, Leases, Of, Calling
<1> QED
  BY <1>1, <1>3, <1>4 DEF Good

LEMMA CreateMenuStep ==
    ASSUME MInv, NEW m \in Menus, CreateMenu(m) PROVE MInv'
<1> DEFINE w == [View EXCEPT !.menus = @ \cup {m}]
<1>1. Good(View) /\ View.menus = menus /\ menus \subseteq Menus
  BY DEF MInv, Good, Views, View
<1>2. Good(w) /\ Calling(w) = Calling(View)
  <2>1. menus \cup {m} \in SUBSET Menus /\ \A s \in Slots : View.display[s] # None => View.display[s].menu \in menus \cup {m}
    BY <1>1 DEF Good, SlotSound
  <2>2. w = [View EXCEPT !.menus = menus \cup {m}]
    BY <1>1
  <2> QED
    BY <1>1, <2>1, <2>2, HandlesGood
<1>3. Become(w)
  BY DEF Become, View, CreateMenu
<1> HIDE DEF w
<1>4. UNCHANGED <<connection, joined, users, running, stack, next, viewer, chosen>>
  BY DEF CreateMenu, world, uses
<1> QED
  BY <1>2, <1>3, <1>4, OnlyViews

LEMMA CloseMenuStep ==
    ASSUME MInv, NEW m \in Menus, CloseMenu(m) PROVE MInv'
<1>1. UNCHANGED <<connection, joined, users, running, stack, next, viewer, chosen>>
  BY DEF CloseMenu, world, uses
<1>2. Good(View) /\ RestTypes
  BY DEF MInv
<1>3. CASE ~Shown(m) /\ Become([View EXCEPT !.menus = @ \ {m}])
  <2>1. PICK w : w = [View EXCEPT !.menus = @ \ {m}]
    OBVIOUS
  <2>2. menus \ {m} \in SUBSET Menus /\ View.menus = menus
    BY <1>2 DEF Good, Views, View
  <2>3. \A s \in Slots : View.display[s] # None => View.display[s].menu \in menus \ {m}
    BY <1>2, <1>3 DEF Good, SlotSound, View, Shown
  <2>4. Good(w) /\ Calling(w) = Calling(View)
    BY <1>2, <2>1, <2>2, <2>3, HandlesGood
  <2> QED
    BY <1>1, <1>3, <2>1, <2>4, OnlyViews
<1>4. ASSUME NEW s \in Slots, display[s] # None, display[s].menu = m,
             NEW r \in CloseDisplay(View, s), Become(Dropped(r, m))
      PROVE  MInv'
  <2>1. /\ Good(r.view) /\ Elsewhere(View, r.view, s) /\ r.ok \in BOOLEAN
        /\ Calling(r.view) = Calling(View)
        /\ r.ok => r.view.display[s] = None /\ r.view.native[s] = None
    BY <1>2, <1>4, CloseDisplayGood
  <2>2. CASE ~r.ok
    <3>1. Become(r.view)
      BY <1>4, <2>2 DEF Dropped
    <3> QED
      BY <1>1, <2>1, <3>1, OnlyViews
  <2>3. CASE r.ok
    <3>1. PICK w : w = [r.view EXCEPT !.menus = @ \ {m}]
      OBVIOUS
    <3>2. Become(w)
      BY <1>4, <2>3, <3>1 DEF Dropped
    <3>3. r.view.menus \ {m} \in SUBSET Menus
      BY <2>1 DEF Good, Views
    <3>4. ASSUME NEW t \in Slots, r.view.display[t] # None PROVE r.view.display[t].menu \in r.view.menus \ {m}
      <4>1. t # s /\ r.view.display[t] = View.display[t] /\ View.display[s] = display[s]
        BY <2>1, <2>3, <3>4 DEF Elsewhere, View
      <4>2. View.display[t].menu # m
        BY <1>2, <1>4, <3>4, <4>1 DEF Good
      <4> QED
        BY <2>1, <3>4, <4>1, <4>2 DEF Good, SlotSound
    <3>5. Good(w) /\ Calling(w) = Calling(r.view)
      BY <2>1, <3>1, <3>3, <3>4, HandlesGood
    <3> QED
      BY <1>1, <2>1, <3>2, <3>5, OnlyViews
  <2> QED
    BY <2>1, <2>2, <2>3
<1> QED
  BY <1>3, <1>4 DEF CloseMenu

\* Nothing has been chosen of the next menu, and who it is for can be a viewer.
LEMMA Unused ==
    ASSUME RestTypes, ChosenSound, next \in Sessions, NEW s \in Slots, connection[s] # 0
    PROVE  chosen[next] = <<>> /\ connection[s] \in Connections /\ connection[s] <= joined /\ next \in Nat
<1>1. next \in Nat /\ ~(next < next)
  BY MenusAssumption DEF Sessions
<1>2. chosen[next] # <<>> => next < next
  BY Zenon DEF ChosenSound
<1>3. connection[s] \in 0..joined /\ joined \in 0..MaxConnections /\ MaxConnections \in Nat
  BY MenusAssumption DEF RestTypes
<1> QED
  BY <1>1, <1>2, <1>3 DEF Connections

LEMMA ShowMenuStep ==
    ASSUME MInv, NEW m \in Menus, NEW s \in Slots, ShowMenu(m, s) PROVE MInv'
<1>1. /\ m \in menus /\ ~Shown(m) /\ connection[s] # 0 /\ next \in Sessions
      /\ UNCHANGED <<connection, joined, users, running, stack, chosen>>
  BY DEF ShowMenu, world, uses
<1>2. Good(View) /\ RestTypes /\ ChosenSound /\ Range(stack) = Calling(View)
  BY DEF MInv
<1>3. PICK r \in CloseDisplay(View, s) :
        \/ Become(r.view) /\ UNCHANGED <<next, viewer>>
        \/ /\ r.ok
           /\ Become([r.view EXCEPT !.screen[s] = next, !.display[s] =
                  [session |-> next, menu |-> m, conn |-> connection[s], due |-> FALSE]])
           /\ next' = next + 1
           /\ viewer' = [viewer EXCEPT ![next] = <<s, connection[s]>>]
  BY DEF ShowMenu, Vacated
<1>4. /\ Good(r.view) /\ Elsewhere(View, r.view, s) /\ r.ok \in BOOLEAN
      /\ Calling(r.view) = Calling(View)
      /\ r.ok => r.view.display[s] = None /\ r.view.native[s] = None
      /\ \A j \in View.menus : j \in r.view.menus \/ (View.display[s] # None /\ j = View.display[s].menu)
  BY <1>2, CloseDisplayGood
<1>5. CASE Become(r.view) /\ UNCHANGED <<next, viewer>>
  BY <1>1, <1>4, <1>5, OnlyViews
<1>6. CASE /\ r.ok
           /\ Become([r.view EXCEPT !.screen[s] = next, !.display[s] =
                  [session |-> next, menu |-> m, conn |-> connection[s], due |-> FALSE]])
           /\ next' = next + 1
           /\ viewer' = [viewer EXCEPT ![next] = <<s, connection[s]>>]
  <2>1. PICK d : d = [session |-> next, menu |-> m, conn |-> connection[s], due |-> FALSE]
    OBVIOUS
  <2>2. PICK w : w = [r.view EXCEPT !.screen[s] = next, !.display[s] = d]
    OBVIOUS
  <2>3. d \in Display /\ d # None /\ connection[s] <= joined /\ next \in Nat /\ MaxConnections \in Nat
    <3>1. connection[s] \in 0..joined /\ joined \in 0..MaxConnections /\ MaxConnections \in Nat /\ MaxSessions \in Nat
      BY <1>2, MenusAssumption DEF RestTypes
    <3>2. connection[s] \in Connections /\ connection[s] <= joined /\ next \in Nat
      BY <1>1, <3>1 DEF Connections, Sessions
    <3>3. d \in Display
      BY <1>1, <2>1, <3>2 DEF Display
    <3> QED
      BY <3>1, <3>2, <3>3, NotNone
  <2>4. /\ w \in Views /\ w.display[s] = d /\ w.screen[s] = next /\ w.native = r.view.native
        /\ w.menus = r.view.menus /\ w.leased = r.view.leased /\ Elsewhere(r.view, w, s)
    BY <1>1, <1>4, <2>2, <2>3 DEF Good, Views, Elsewhere
  <2>5. Become(w)
    BY <1>6, <2>1, <2>2
  <2>6. Good(r.view)' /\ RestTypes' /\ ChosenSound'
    BY <1>1, <1>2, <1>4, <1>6, GivenOut
  <2>7. View.display = display /\ View.menus = menus
    BY DEF View
  <2>8. m \in w.menus
    <3>1. ~(display[s] # None /\ m = display[s].menu)
      BY <1>1 DEF Shown
    <3> QED
      BY <1>1, <1>4, <2>4, <2>7, <3>1
  <2>9. SlotSound(w, s)'
    <3>1. chosen[next] = <<>>
      BY <1>1, <1>2, Unused
    <3>2. viewer'[next] = <<s, connection[s]>>
      BY <1>1, <1>2, <1>6 DEF RestTypes
    <3>3. RecordSound(d, s)'
      BY <1>1, <1>6, <2>1, <2>3, <3>2 DEF RecordSound
    <3>4. Expected(w, s)' = next
      BY <1>1, <2>1, <2>3, <2>4 DEF Expected
    <3> QED
      BY <1>1, <1>4, <1>6, <2>1, <2>3, <2>4, <2>8, <3>1, <3>3, <3>4 DEF SlotSound
  <2>10. Leases(w)'
    BY <1>1, <1>4, <2>4 DEF Good, Leases, Of
  <2>11. ASSUME NEW t \in Slots \ {s}, r.view.display[t] # None
         PROVE  r.view.display[t].menu \in w.menus /\ w.display[s].menu # r.view.display[t].menu
    <3>1. r.view.display[t] = display[t]
      BY <1>4, <2>7 DEF Elsewhere
    <3> QED
      BY <1>1, <1>4, <2>1, <2>4, <2>11, <3>1 DEF Shown, Good, SlotSound
  <2>12. Good(w)'
    BY <2>4, <2>6, <2>9, <2>10, <2>11, Added
  <2>13. Range(stack') = Calling(w)
    BY <1>1, <1>2, <1>4, <2>4 DEF Calling
  <2> QED
    BY <2>5, <2>6, <2>12, <2>13, Moved
<1> QED
  BY <1>3, <1>5, <1>6

LEMMA OpenNativeMenuStep ==
    ASSUME MInv, NEW e \in Exts, NEW s \in Slots, OpenNativeMenu(e, s) PROVE MInv'
<1> DEFINE fresh == [session |-> next, ext |-> e, conn |-> connection[s], due |-> FALSE,
                     active |-> FALSE, closing |-> FALSE, cleared |-> FALSE]
           opened(v) == [v EXCEPT !.native[s] = fresh, !.leased = IF ServiceUsers(v, e) = 0 THEN @ \cup {e} ELSE @]
           refused(v) == [opened(v) EXCEPT !.native[s].cleared = TRUE]
<1>1. connection[s] # 0 /\ next \in Sessions /\ UNCHANGED <<connection, joined, users, running, stack, chosen>>
  BY DEF OpenNativeMenu, world, uses
<1>2. Good(View) /\ RestTypes /\ ChosenSound /\ Range(stack) = Calling(View)
  BY DEF MInv
<1>3. PICK r \in CloseDisplay(View, s) :
        \/ ~r.ok /\ Become(r.view) /\ UNCHANGED <<next, viewer>>
        \/ r.ok /\ ServiceUsers(r.view, e) = 0 /\ Become(r.view) /\ next' = next + 1 /\ UNCHANGED viewer
        \/ /\ r.ok /\ next' = next + 1
           /\ viewer' = [viewer EXCEPT ![next] = <<s, connection[s]>>]
           /\ \/ Become([opened(r.view) EXCEPT !.screen[s] = next])
              \/ \E q \in CloseNative(refused(r.view), s) : Become(q.view)
  BY DEF OpenNativeMenu, Vacated
<1>4. /\ Good(r.view) /\ Elsewhere(View, r.view, s) /\ r.ok \in BOOLEAN
      /\ Calling(r.view) = Calling(View)
      /\ r.ok => r.view.display[s] = None /\ r.view.native[s] = None
  BY <1>2, CloseDisplayGood
<1>5. CASE ~r.ok /\ Become(r.view) /\ UNCHANGED <<next, viewer>>
  BY <1>1, <1>4, <1>5, OnlyViews
<1>6. CASE r.ok /\ ServiceUsers(r.view, e) = 0 /\ Become(r.view) /\ next' = next + 1 /\ UNCHANGED viewer
  <2>1. Good(r.view)' /\ RestTypes' /\ ChosenSound'
    BY <1>1, <1>2, <1>4, <1>6, GivenOut
  <2> QED
    BY <1>1, <1>2, <1>4, <1>6, <2>1, Moved
<1>7. CASE /\ r.ok /\ next' = next + 1
           /\ viewer' = [viewer EXCEPT ![next] = <<s, connection[s]>>]
           /\ \/ Become([opened(r.view) EXCEPT !.screen[s] = next])
              \/ \E q \in CloseNative(refused(r.view), s) : Become(q.view)
  <2>1. chosen[next] = <<>> /\ connection[s] \in Connections /\ connection[s] <= joined /\ next \in Nat
    BY <1>1, <1>2, Unused
  <2>2. fresh \in NativeDisplay /\ fresh # None
    <3>1. fresh \in NativeDisplay
      BY <1>1, <2>1 DEF NativeDisplay
    <3> QED
      BY <3>1, NotNone
  <2>3. PICK f : f = fresh
    OBVIOUS
  <2>4. PICK o : o = opened(r.view)
    OBVIOUS
  <2>5. r.view \in Views /\ Leases(r.view) /\ \A t \in Slots : SlotSound(r.view, t)
    BY <1>4 DEF Good
  <2>6. o.leased = IF ServiceUsers(r.view, e) = 0 THEN r.view.leased \cup {e} ELSE r.view.leased
    BY <2>4, <2>5 DEF Views
  <2>7. /\ o \in Views /\ o.native[s] = f /\ o.screen = r.view.screen /\ o.display = r.view.display
        /\ o.menus = r.view.menus /\ \A t \in Slots \ {s} : o.native[t] = r.view.native[t]
    BY <2>2, <2>3, <2>4, <2>5 DEF Views
  <2>8. o.leased = r.view.leased \cup {e}
    BY <1>2, <2>5, <2>6, UsersOf DEF Leases
  <2>9. Leases(o)
    <3>1. \A x \in Exts : Of(o, x) = IF x = e THEN Of(r.view, x) \cup {s} ELSE Of(r.view, x)
      BY <1>4, <1>7, <2>2, <2>3, <2>7 DEF Of
    <3> QED
      BY <2>5, <2>8, <3>1 DEF Leases
  <2>10. Good(r.view)' /\ RestTypes' /\ ChosenSound'
    BY <1>1, <1>2, <1>4, <1>7, GivenOut
  <2>11. RecordSound(f, s)'
    <3>1. viewer'[next] = <<s, connection[s]>>
      BY <1>1, <1>2, <1>7 DEF RestTypes
    <3> QED
      BY <1>1, <1>7, <2>1, <2>3, <3>1 DEF RecordSound
  <2>12. \A t \in Slots \ {s} : r.view.display[t] # None => r.view.display[t].menu \in r.view.menus
    BY <2>5 DEF SlotSound
  <2> HIDE DEF opened, refused
  <2>13. CASE Become([opened(r.view) EXCEPT !.screen[s] = next])
    <3>1. PICK w : w = [o EXCEPT !.screen[s] = next]
      OBVIOUS
    <3>2. Become(w)
      BY <2>4, <2>13, <3>1
    <3>3. /\ w \in Views /\ w.native = o.native /\ w.screen[s] = next /\ w.display = r.view.display
          /\ w.menus = r.view.menus /\ w.leased = o.leased
          /\ \A t \in Slots \ {s} : w.screen[t] = r.view.screen[t]
      BY <1>1, <2>5, <2>7, <3>1 DEF Views
    <3>4. Elsewhere(r.view, w, s)
      BY <2>7, <3>3 DEF Elsewhere
    <3>5. SlotSound(w, s)'
      <4>1. Expected(w, s)' = next
        BY <1>1, <1>4, <1>7, <2>2, <2>3, <2>7, <3>3 DEF Expected
      <4> QED
        BY <1>1, <1>4, <1>7, <2>1, <2>3, <2>7, <2>11, <3>3, <4>1 DEF SlotSound
    <3>6. Leases(w)'
      BY <1>1, <2>9, <3>3 DEF Leases, Of
    <3>7. Good(w)'
      BY <1>4, <1>7, <2>10, <2>12, <3>3, <3>4, <3>5, <3>6, Added
    <3>8. Calling(w) = Calling(r.view)
      BY <1>4, <1>7, <2>3, <2>7, <3>3 DEF Calling
    <3> QED
      BY <1>1, <1>2, <1>4, <2>10, <3>2, <3>7, <3>8, Moved
  <2>14. ASSUME NEW q \in CloseNative(refused(r.view), s), Become(q.view) PROVE MInv'
    <3>1. PICK w : w = [o EXCEPT !.native[s].cleared = TRUE, !.native[s].closing = TRUE]
      OBVIOUS
    <3>2. [f EXCEPT !.cleared = TRUE, !.closing = TRUE] \in NativeDisplay
      BY <2>2, <2>3 DEF NativeDisplay
    <3>3. /\ w \in Views /\ w.screen = o.screen /\ w.display = r.view.display
          /\ w.menus = r.view.menus /\ w.leased = o.leased
          /\ w.native[s] = [f EXCEPT !.cleared = TRUE, !.closing = TRUE]
          /\ \A t \in Slots \ {s} : w.native[t] = r.view.native[t]
      BY <2>5, <2>7, <3>1, <3>2 DEF Views
    <3>4. /\ w.native[s] # None /\ w.native[s].closing /\ w.native[s].cleared /\ ~w.native[s].active
          /\ w.native[s].ext = f.ext /\ w.native[s].session = f.session /\ w.native[s].conn = f.conn
      BY <2>2, <2>3, <3>2, <3>3, NotNone DEF NativeDisplay
    <3>5. q \in Release(w, s)
      <4>1. PICK c : c = refused(r.view)
        OBVIOUS
      <4>2. c = [o EXCEPT !.native[s].cleared = TRUE]
        BY <2>4, <4>1 DEF refused
      <4>3. c.native[s] = [f EXCEPT !.cleared = TRUE] /\ w = [c EXCEPT !.native[s].closing = TRUE]
        BY <2>7, <3>1, <4>2 DEF Views
      <4>4. [f EXCEPT !.cleared = TRUE] \in NativeDisplay
        BY <2>2, <2>3 DEF NativeDisplay
      <4>5. c.native[s] # None /\ ~c.native[s].active /\ c.native[s].cleared
        BY <2>3, <4>3, <4>4, NotNone
      <4>6. Clear(c, s) = {Done(w)} /\ Done(w).ok /\ Done(w).view = w
        BY <4>3, <4>5 DEF Clear, Done
      <4> QED
        BY <2>14, <4>1, <4>5, <4>6 DEF CloseNative
    <3>6. Leases(w)
      <4>1. o.native[s] # None /\ o.native[s].ext = w.native[s].ext
        BY <2>2, <2>3, <2>7, <3>4
      <4>2. ASSUME NEW x \in Exts, NEW t \in Slots
            PROVE  w.native[t] # None /\ w.native[t].ext = x <=> o.native[t] # None /\ o.native[t].ext = x
        <5>1. CASE t = s
          BY <3>4, <4>1, <5>1
        <5>2. CASE t # s
          <6>1. w.native[t] = r.view.native[t] /\ o.native[t] = r.view.native[t]
            BY <2>7, <3>3, <5>2
          <6> QED
            BY <6>1
        <5> QED
          BY <5>1, <5>2
      <4>3. \A x \in Exts : Of(w, x) = Of(o, x)
        BY <4>2 DEF Of
      <4> QED
        BY <2>9, <3>3, <4>3 DEF Leases
    <3>7. \/ q.view = w
          \/ /\ q.view \in Views /\ Elsewhere(w, q.view, s) /\ Leases(q.view)
             /\ q.view.native[s] = None /\ q.view.screen = w.screen
             /\ q.view.display = w.display /\ q.view.menus = w.menus
      <4>1. RestTypes /\ w \in Views /\ w.native[s] # None
        BY <1>2, <3>3, <3>4
      <4> QED
        BY <3>5, <3>6, <4>1, ReleaseShape
    <3>8. /\ q.view \in Views /\ q.view.screen = r.view.screen /\ q.view.display = r.view.display
          /\ q.view.menus = r.view.menus /\ Leases(q.view)
          /\ q.view.native[s] = None \/ q.view.native[s] = w.native[s]
          /\ \A t \in Slots \ {s} : q.view.native[t] = r.view.native[t]
      BY <2>7, <3>3, <3>6, <3>7 DEF Elsewhere
    <3>9. SlotSound(q.view, s)'
      <4>1. Expected(q.view, s)' = None /\ Expected(r.view, s) = None
        BY <1>4, <1>7, <3>4, <3>8 DEF Expected
      <4>2. RecordSound(w.native[s], s)'
        BY <2>11, <3>4 DEF RecordSound
      <4> QED
        BY <1>1, <1>4, <1>7, <2>5, <3>4, <3>8, <4>1, <4>2 DEF SlotSound
    <3>10. Leases(q.view)' /\ Elsewhere(r.view, q.view, s)
      BY <1>1, <3>8 DEF Leases, Of, Elsewhere
    <3>11. Good(q.view)'
      BY <1>4, <1>7, <2>10, <2>12, <3>8, <3>9, <3>10, Added
    <3>12. Calling(q.view) = Calling(r.view)
      BY <1>4, <1>7, <3>4, <3>8 DEF Calling
    <3> QED
      BY <1>1, <1>2, <1>4, <2>10, <2>14, <3>11, <3>12, Moved
  <2> QED
    BY <1>7, <2>13, <2>14
<1> QED
  BY <1>3, <1>5, <1>6, <1>7

LEMMA CloseNativeMenuStep ==
    ASSUME MInv, NEW e \in Exts, NEW k \in Sessions, CloseNativeMenu(e, k) PROVE MInv'
<1>1. UNCHANGED <<connection, joined, users, running, stack, next, viewer, chosen>>
  BY DEF CloseNativeMenu, world, uses
<1>2. PICK s \in Slots : \E r \in CloseNative(View, s) : Become(r.view)
  BY DEF CloseNativeMenu
<1>3. PICK r \in CloseNative(View, s) : Become(r.view)
  BY <1>2
<1>4. Good(r.view) /\ Calling(r.view) = Calling(View)
  BY CloseNativeGood DEF MInv
<1> QED
  BY <1>1, <1>3, <1>4, OnlyViews

\* Bind and Cleanup: only the number of users and the lease of one service.
LEMMA UsersGood ==
    ASSUME NEW v, Good(v), NEW w \in Views, w.screen = v.screen, w.display = v.display, w.native = v.native,
           w.menus = v.menus, Leases(w)',
           UNCHANGED <<connection, joined, next, viewer, chosen>>
    PROVE  Good(w)' /\ Calling(w) = Calling(v)
<1>1. \A d, s : RecordSound(d, s) => RecordSound(d, s)'
  BY DEF RecordSound
<1>2. \A s \in Slots : Expected(w, s)' = Expected(v, s)
  BY DEF Expected
<1>3. \A s \in Slots : SlotSound(w, s)'
  BY <1>1, <1>2 DEF Good, SlotSound
<1>4. Calling(w) = Calling(v)
  BY DEF Calling
<1> QED
  BY <1>3, <1>4 DEF Good

LEMMA BindProviderStep ==
    ASSUME MInv, NEW e \in Exts, BindProvider(e) PROVE MInv'
<1>1. /\ users[e] < Cardinality(Scripts) /\ users' = [users EXCEPT ![e] = @ + 1]
      /\ leased' = IF ServiceUsers(View, e) = 0 THEN leased \cup {e} ELSE leased
      /\ UNCHANGED <<connection, joined, screen, display, native, menus, running, stack, next, viewer, chosen>>
  BY DEF BindProvider, world
<1>2. Good(View) /\ RestTypes /\ ChosenSound /\ Range(stack) = Calling(View)
  BY DEF MInv
<1>3. PICK w : w = [View EXCEPT !.leased = leased']
  OBVIOUS
<1>4. /\ View \in Views /\ View.leased = leased /\ leased \subseteq Exts
      /\ leased = {x \in Exts : users[x] > 0 \/ Of(View, x) # {}}
  BY <1>2 DEF Good, Views, View, Leases
<1>5. leased' = leased \cup {e}
  BY <1>1, <1>2, <1>4, UsersOf
<1>6. /\ w \in Views /\ w.screen = View.screen /\ w.display = View.display /\ w.native = View.native
      /\ w.menus = View.menus /\ w.leased = leased \cup {e}
  BY <1>3, <1>4, <1>5 DEF Views
<1>7. Become(w)
  BY <1>1, <1>3 DEF Become, View
<1>8. users \in [Exts -> 0..Cardinality(Scripts)] /\ Cardinality(Scripts) \in Nat
  BY <1>2, MenusAssumption, FS_CardinalityType DEF RestTypes
<1>9. users' \in [Exts -> 0..Cardinality(Scripts)] /\ \A x \in Exts : users'[x] > 0 <=> users[x] > 0 \/ x = e
  BY <1>1, <1>8
<1>10. \A x \in Exts : Of(w, x) = Of(View, x)
  BY <1>6 DEF Of
<1>11. Leases(w)'
  <2>1. w.leased = {x \in Exts : users'[x] > 0 \/ Of(w, x) # {}}
    BY <1>4, <1>6, <1>9, <1>10
  <2> QED
    BY <2>1 DEF Leases, Of
<1>12. Good(w)' /\ Calling(w) = Calling(View)
  BY <1>1, <1>2, <1>6, <1>11, UsersGood
<1>13. RestTypes' /\ ChosenSound'
  BY <1>1, <1>2, <1>9 DEF RestTypes, ChosenSound
<1> QED
  BY <1>1, <1>2, <1>7, <1>12, <1>13, Moved

LEMMA ReleaseProviderStep ==
    ASSUME MInv, NEW e \in Exts, ReleaseProvider(e) PROVE MInv'
<1>1. /\ users[e] > 0 /\ users' = [users EXCEPT ![e] = @ - 1]
      /\ leased' = IF ServiceUsers(View, e) = 1 THEN leased \ {e} ELSE leased
      /\ UNCHANGED <<connection, joined, screen, display, native, menus, running, stack, next, viewer, chosen>>
  BY DEF ReleaseProvider, world
<1>2. Good(View) /\ RestTypes /\ ChosenSound /\ Range(stack) = Calling(View)
  BY DEF MInv
<1>3. PICK w : w = [View EXCEPT !.leased = leased']
  OBVIOUS
<1>4. /\ View \in Views /\ View.leased = leased /\ leased \subseteq Exts
      /\ leased = {x \in Exts : users[x] > 0 \/ Of(View, x) # {}}
  BY <1>2 DEF Good, Views, View, Leases
<1>5. leased' = IF users[e] = 1 /\ Of(View, e) = {} THEN leased \ {e} ELSE leased
  BY <1>1, <1>2, UsersOf
<1>6. /\ w \in Views /\ w.screen = View.screen /\ w.display = View.display /\ w.native = View.native
      /\ w.menus = View.menus /\ w.leased = leased'
  BY <1>3, <1>4, <1>5 DEF Views
<1>7. Become(w)
  BY <1>1, <1>3 DEF Become, View
<1>8. users \in [Exts -> 0..Cardinality(Scripts)] /\ Cardinality(Scripts) \in Nat
  BY <1>2, MenusAssumption, FS_CardinalityType DEF RestTypes
<1>9. /\ users' \in [Exts -> 0..Cardinality(Scripts)]
      /\ \A x \in Exts : users'[x] > 0 <=> IF x = e THEN users[e] # 1 ELSE users[x] > 0
  BY <1>1, <1>8
<1>10. \A x \in Exts : Of(w, x) = Of(View, x)
  BY <1>6 DEF Of
<1>11. Leases(w)'
  <2>1. w.leased = {x \in Exts : users'[x] > 0 \/ Of(w, x) # {}}
    BY <1>1, <1>4, <1>5, <1>6, <1>8, <1>9, <1>10
  <2> QED
    BY <2>1 DEF Leases, Of
<1>12. Good(w)' /\ Calling(w) = Calling(View)
  BY <1>1, <1>2, <1>6, <1>11, UsersGood
<1>13. RestTypes' /\ ChosenSound'
  BY <1>1, <1>2, <1>9 DEF RestTypes, ChosenSound
<1> QED
  BY <1>1, <1>2, <1>7, <1>12, <1>13, Moved

\* ClearMenus: the menus of a script, or some of them, go with their handles.
LEMMA MenusCleared ==
    ASSUME MInv, NEW p, NEW left, ClearMenus(p, left), menus' \in SUBSET menus, running' \in SUBSET Scripts,
           \A s \in Slots : display[s] # None /\ s \notin Owned(p) \ left => display[s].menu \in menus',
           UNCHANGED <<connection, joined, users, stack, next, viewer, chosen>>
    PROVE  MInv'
<1> DEFINE closed == Owned(p) \ left
           screens == [s \in Slots |-> IF s \in closed /\ connection[s] = display[s].conn THEN None ELSE screen[s]]
           displays == [s \in Slots |-> IF s \in closed THEN None ELSE display[s]]
<1>1. Good(View) /\ RestTypes /\ ChosenSound /\ Range(stack) = Calling(View)
  BY DEF MInv
<1>2. /\ View \in Views /\ screen \in [Slots -> Sessions \cup {None}] /\ display \in [Slots -> Display \cup {None}]
      /\ menus \subseteq Menus
  BY <1>1 DEF Good, Views, View
<1>3. PICK w : w = [screen |-> screens, display |-> displays, native |-> native, menus |-> menus', leased |-> leased]
  OBVIOUS
<1>4. screen' = screens /\ display' = displays /\ UNCHANGED <<native, leased>>
  BY DEF ClearMenus
<1>5. Become(w)
  BY <1>3, <1>4 DEF Become
<1>6. /\ w \in Views /\ w.native = native /\ w.leased = leased /\ w.menus = menus'
      /\ \A s \in Slots : /\ w.screen[s] = IF s \in closed /\ connection[s] = display[s].conn THEN None ELSE screen[s]
                          /\ w.display[s] = IF s \in closed THEN None ELSE display[s]
  BY <1>2, <1>3 DEF Views, View
<1> HIDE DEF screens, displays
<1>7. ASSUME NEW s \in Slots PROVE SlotSound(w, s)
  <2>1. /\ SlotSound(View, s) /\ View.display = display /\ View.native = native /\ View.screen = screen
        /\ s \in closed => display[s] # None
    BY <1>1 DEF Good, View, Owned
  <2>2. CASE s \in closed
    <3>1. w.display[s] = None /\ w.native[s] = None /\ Expected(w, s) = None
      BY <1>6, <2>1, <2>2 DEF SlotSound, Expected
    <3> QED
      BY <1>6, <2>1, <2>2, <3>1 DEF SlotSound, Expected
  <2>3. CASE s \notin closed
    <3>1. w.display[s] = display[s] /\ w.screen[s] = screen[s] /\ w.native[s] = native[s]
      BY <1>6, <2>3
    <3>2. Expected(w, s) = Expected(View, s)
      BY <2>1, <3>1 DEF Expected
    <3> QED
      BY <1>6, <2>1, <2>3, <3>1, <3>2 DEF SlotSound
  <2> QED
    BY <2>2, <2>3
<1>8. \A s, t \in Slots : w.display[s] # None /\ w.display[t] # None /\ w.display[s].menu = w.display[t].menu
                         => s = t
  BY <1>1, <1>6 DEF Good, View
<1>9. Leases(w) /\ Calling(w) = Calling(View)
  BY <1>1, <1>6 DEF Good, Leases, Of, Calling, View
<1>10. Good(w)
  BY <1>6, <1>7, <1>8, <1>9 DEF Good
<1>11. Good(w)'
  BY <1>10, Stays
<1>12. RestTypes' /\ ChosenSound'
  BY <1>1 DEF RestTypes, ChosenSound
<1> QED
  BY <1>1, <1>5, <1>9, <1>11, <1>12, Moved

LEMMA PauseStep ==
    ASSUME MInv, NEW p \in Scripts, Pause(p) PROVE MInv'
<1>1. PICK left \in SUBSET Owned(p) :
         ClearMenus(p, left) /\ menus' = menus \ {display[s].menu : s \in Owned(p) \ left}
  BY DEF Pause
<1>2. running' = running \ {p} /\ UNCHANGED <<connection, joined, users, stack, next, viewer, chosen>>
  BY DEF Pause, world
<1>3. running' \in SUBSET Scripts /\ menus' \in SUBSET menus
  BY <1>1, <1>2 DEF MInv, RestTypes
<1>4. ASSUME NEW s \in Slots, display[s] # None, s \notin Owned(p) \ left PROVE display[s].menu \in menus'
  <2>1. display[s].menu \in menus
    BY <1>4 DEF MInv, Good, SlotSound, View
  <2>2. \A t \in Owned(p) \ left : display[t].menu # display[s].menu
    BY <1>4 DEF MInv, Good, View, Owned
  <2> QED
    BY <1>1, <2>1, <2>2
<1> QED
  BY <1>1, <1>2, <1>3, <1>4, MenusCleared

LEMMA ResumeStep ==
    ASSUME MInv, NEW p \in Scripts, Resume(p) PROVE MInv'
<1>1. /\ ClearMenus(p, {}) /\ running' = running \cup {p}
      /\ \/ menus' = menus \ {display[s].menu : s \in Owned(p)}
         \/ menus' = {m \in menus : OwnerOf[m] # p}
      /\ UNCHANGED <<connection, joined, users, stack, next, viewer, chosen>>
  BY DEF Resume, world
<1>2. running' \in SUBSET Scripts /\ menus' \in SUBSET menus
  BY <1>1 DEF MInv, RestTypes
<1>3. ASSUME NEW s \in Slots, display[s] # None, s \notin Owned(p) \ {} PROVE display[s].menu \in menus'
  <2>1. display[s].menu \in menus /\ OwnerOf[display[s].menu] # p
    BY <1>3 DEF MInv, Good, SlotSound, View, Owned
  <2>2. \A t \in Owned(p) : display[t].menu # display[s].menu
    BY <1>3 DEF MInv, Good, View, Owned
  <2> QED
    BY <1>1, <2>1, <2>2
<1> QED
  BY <1>1, <1>2, <1>3, MenusCleared

-----------------------------------------------------------------------------
(* The actions of players, of the host and of the frame.                   *)

LEMMA DisplayMarked ==
    ASSUME NEW v, Good(v), NEW s \in Slots, v.display[s] # None, NEW d \in Display,
           d.session = v.display[s].session, d.menu = v.display[s].menu, d.conn = v.display[s].conn,
           NEW w \in Views, w.screen = v.screen, w.native = v.native, w.menus = v.menus, w.leased = v.leased,
           w.display[s] = d, \A t \in Slots \ {s} : w.display[t] = v.display[t]
    PROVE  Good(w) /\ Calling(w) = Calling(v)
<1>1. v \in Views /\ SlotSound(v, s) /\ Leases(v)
  BY DEF Good
<1>2. d # None
  BY NotNone
<1>3. SlotSound(w, s)
  BY <1>1, <1>2 DEF SlotSound, RecordSound, Expected
<1>4. Leases(w) /\ Calling(w) = Calling(v)
  BY <1>1 DEF Leases, Of, Calling
<1>5. Elsewhere(v, w, s)
  BY DEF Elsewhere
<1>6. \A t \in Slots \ {s} : v.display[t] # None =>
         v.display[t].menu \in w.menus /\ w.display[s].menu # v.display[t].menu
  BY DEF Good, SlotSound
<1> QED
  BY <1>3, <1>4, <1>5, <1>6, ChangedAt

LEMMA NativeMarked ==
    ASSUME NEW v, Good(v), NEW s \in Slots, v.native[s] # None, NEW n \in NativeDisplay,
           n.session = v.native[s].session, n.ext = v.native[s].ext, n.conn = v.native[s].conn,
           v.native[s].closing => n.closing, n.active => n.cleared, n.cleared => n.closing,
           (n.cleared <=> v.native[s].cleared) \/ n.conn # connection[s],
           NEW w \in Views, w.screen = v.screen, w.display = v.display, w.menus = v.menus, w.leased = v.leased,
           w.native[s] = n, \A t \in Slots \ {s} : w.native[t] = v.native[t]
    PROVE  /\ Good(w)
           /\ Calling(w) = IF n.active THEN Calling(v) \cup {s} ELSE Calling(v) \ {s}
<1>1. v \in Views /\ SlotSound(v, s) /\ n # None
  BY NotNone DEF Good
<1>2. Elsewhere(v, w, s)
  BY DEF Elsewhere
<1>3. connection[s] # 0 => w.screen[s] = Expected(w, s)
  BY <1>1 DEF SlotSound, Expected
<1>4. Good(w)
  BY <1>1, <1>2, <1>3, NativeChanged
<1>5. Calling(w) = IF n.active THEN Calling(v) \cup {s} ELSE Calling(v) \ {s}
  BY <1>1 DEF Calling
<1> QED
  BY <1>4, <1>5

\* The records of a view that a native menu or a script's menu is taken from.
LEMMA Kinds ==
    ASSUME NEW v, Good(v), NEW s \in Slots
    PROVE  /\ v.display[s] # None => v.display[s] \in Display
           /\ v.native[s] # None => v.native[s] \in NativeDisplay
BY DEF Good, Views

\* The player of a native menu is gone: the menu is closed without the screen.
Unseen(v, s) == [v EXCEPT !.native[s].cleared = TRUE]

LEMMA GoneGood ==
    ASSUME NEW v, Good(v), RestTypes, NEW s \in Slots, v.native[s] # None, connection[s] # v.native[s].conn,
           NEW r \in CloseNative(Unseen(v, s), s)
    PROVE  Good(r.view) /\ Calling(r.view) = Calling(v) /\ r.view.display = v.display
<1>1. v \in Views /\ v.native[s] \in NativeDisplay /\ SlotSound(v, s)
  BY Kinds DEF Good
<1>2. PICK n : n = [v.native[s] EXCEPT !.cleared = TRUE]
  OBVIOUS
<1> DEFINE known == Unseen(v, s)
<1>3. /\ n \in NativeDisplay /\ n.session = v.native[s].session /\ n.ext = v.native[s].ext
      /\ n.conn = v.native[s].conn /\ n.active = v.native[s].active /\ n.closing = v.native[s].closing /\ n.cleared
  BY <1>1, <1>2 DEF NativeDisplay
<1>4. /\ known \in Views /\ known.screen = v.screen /\ known.display = v.display /\ known.menus = v.menus
      /\ known.leased = v.leased /\ known.native[s] = n /\ \A t \in Slots \ {s} : known.native[t] = v.native[t]
  BY <1>1, <1>2, <1>3 DEF Views, Unseen
<1> HIDE DEF known
<1>5. n # None
  BY <1>3, NotNone
<1>6. CASE n.active
  <2>1. n.closing /\ n.cleared = v.native[s].cleared
    BY <1>1, <1>3, <1>6 DEF SlotSound, NativeDisplay
  <2>2. /\ v.native[s].closing => n.closing
        /\ n.active => n.cleared
        /\ n.cleared => n.closing
        /\ (n.cleared <=> v.native[s].cleared) \/ n.conn # connection[s]
    BY <1>3, <2>1
  <2>3. /\ Good(known)
        /\ Calling(known) = IF n.active THEN Calling(v) \cup {s} ELSE Calling(v) \ {s}
    BY <1>3, <1>4, <2>2, NativeMarked
  <2>4. s \in Calling(v)
    BY <1>3, <1>6 DEF Calling
  <2>5. r = Refused(known)
    BY <1>4, <1>5, <1>6 DEF CloseNative, known
  <2>6. r.view = known
    BY <2>5 DEF Refused
  <2> QED
    BY <1>4, <1>6, <2>3, <2>4, <2>6
<1>7. CASE ~n.active
  <2>1. PICK c : c = [n EXCEPT !.closing = TRUE]
    OBVIOUS
  <2>2. /\ c \in NativeDisplay /\ c.session = v.native[s].session /\ c.ext = v.native[s].ext
        /\ c.conn = v.native[s].conn /\ ~c.active /\ c.closing /\ c.cleared
    BY <1>3, <1>7, <2>1 DEF NativeDisplay
  <2>3. PICK w : w = [known EXCEPT !.native[s].closing = TRUE]
    OBVIOUS
  <2>4. /\ w \in Views /\ w.screen = v.screen /\ w.display = v.display /\ w.menus = v.menus
        /\ w.leased = v.leased /\ w.native[s] = c /\ \A t \in Slots \ {s} : w.native[t] = v.native[t]
    BY <1>4, <2>1, <2>2, <2>3 DEF Views
  <2>5. /\ v.native[s].closing => c.closing
        /\ c.active => c.cleared
        /\ c.cleared => c.closing
        /\ (c.cleared <=> v.native[s].cleared) \/ c.conn # connection[s]
    BY <2>2
  <2>6. /\ Good(w)
        /\ Calling(w) = IF c.active THEN Calling(v) \cup {s} ELSE Calling(v) \ {s}
    BY <2>2, <2>4, <2>5, NativeMarked
  <2>7. s \notin Calling(v)
    BY <1>3, <1>7 DEF Calling
  <2>8. known.native[s] # None /\ ~known.native[s].active /\ known.native[s].cleared
    BY <1>3, <1>4, <1>5, <1>7
  <2>9. w.native[s] # None /\ w.native[s].cleared /\ ~w.native[s].active
    BY <2>2, <2>4, NotNone
  <2>10. Clear(known, s) = {Done(w)} /\ Done(w).ok /\ Done(w).view = w
    BY <2>3, <2>8 DEF Clear, Done
  <2>11. r \in Release(w, s)
    BY <2>8, <2>10 DEF CloseNative, known
  <2>12. Expected(w, s) = None
    BY <2>6, <2>9 DEF Good, SlotSound, Expected
  <2>13. /\ Good(r.view) /\ Elsewhere(w, r.view, s) /\ r.ok \in BOOLEAN
         /\ r.view.display = w.display /\ r.view.menus = w.menus
         /\ r.ok => r.view.native[s] = None
         /\ ~r.ok => r.view = w
    BY <2>6, <2>9, <2>11, <2>12, ReleaseGood
  <2>14. Calling(r.view) = Calling(w)
    BY <2>9, <2>13 DEF Calling, Elsewhere
  <2> QED
    BY <2>2, <2>4, <2>6, <2>7, <2>13, <2>14
<1> QED
  BY <1>6, <1>7

LEMMA Pushed ==
    ASSUME NEW q \in Seq(Slots), \A i, j \in 1..Len(q) : i # j => q[i] # q[j], NEW s \in Slots, s \notin Range(q)
    PROVE  /\ Append(q, s) \in Seq(Slots) /\ Range(Append(q, s)) = Range(q) \cup {s}
           /\ \A i, j \in 1..Len(Append(q, s)) : i # j => Append(q, s)[i] # Append(q, s)[j]
<1> DEFINE p == Append(q, s)
<1>1. /\ p \in Seq(Slots) /\ Len(p) = Len(q) + 1 /\ Len(q) \in Nat
      /\ \A i \in 1..Len(q) : p[i] = q[i]
      /\ p[Len(q) + 1] = s
  BY AppendProperties, LenProperties
<1>2. DOMAIN p = 1..Len(p) /\ DOMAIN q = 1..Len(q)
  BY <1>1
<1>3. \A i \in 1..Len(q) : q[i] # s
  BY <1>2 DEF Range
<1> HIDE DEF p
<1>4. Range(p) = Range(q) \cup {s}
  BY <1>1, <1>2 DEF Range
<1>5. \A i, j \in 1..Len(p) : i # j => p[i] # p[j]
  BY <1>1, <1>3
<1> QED
  BY <1>1, <1>4, <1>5 DEF p

LEMMA Popped ==
    ASSUME NEW q \in Seq(Slots), q # <<>>, \A i, j \in 1..Len(q) : i # j => q[i] # q[j]
    PROVE  /\ Last(q) \in Slots /\ Last(q) \in Range(q)
           /\ Front(q) \in Seq(Slots) /\ Range(Front(q)) = Range(q) \ {Last(q)}
           /\ \A i, j \in 1..Len(Front(q)) : i # j => Front(q)[i] # Front(q)[j]
<1>1. Len(q) \in Nat \ {0} /\ DOMAIN q = 1..Len(q) /\ \A i \in 1..Len(q) : q[i] \in Slots
  OBVIOUS
<1> DEFINE p == Front(q)
           n == Len(q) - 1
<1>2. p \in Seq(Slots) /\ Len(p) = n /\ \A i \in 1..n : p[i] = q[i]
  BY <1>1 DEF Front
<1>3. Last(q) = q[Len(q)]
  BY DEF Last
<1>4. DOMAIN p = 1..n
  BY <1>2
<1> HIDE DEF p
<1>5. Range(p) = Range(q) \ {Last(q)}
  BY <1>1, <1>2, <1>3, <1>4 DEF Range
<1>6. \A i, j \in 1..Len(p) : i # j => p[i] # p[j]
  BY <1>1, <1>2
<1> QED
  BY <1>1, <1>2, <1>3, <1>5, <1>6 DEF p, Range

\* A menu that is due, or is not due any more.
LEMMA DueGood ==
    ASSUME NEW v, Good(v), NEW s \in Slots, NEW b \in BOOLEAN
    PROVE  /\ v.native[s] # None =>
                 LET w == [v EXCEPT !.native[s].due = b] IN Good(w) /\ Calling(w) = Calling(v)
           /\ v.display[s] # None =>
                 LET w == [v EXCEPT !.display[s].due = b] IN Good(w) /\ Calling(w) = Calling(v)
<1>1. v \in Views /\ SlotSound(v, s)
  BY DEF Good
<1>2. ASSUME v.native[s] # None
      PROVE  LET w == [v EXCEPT !.native[s].due = b] IN Good(w) /\ Calling(w) = Calling(v)
  <2>1. v.native[s] \in NativeDisplay
    BY <1>2, Kinds
  <2>2. PICK n : n = [v.native[s] EXCEPT !.due = b]
    OBVIOUS
  <2>3. /\ n \in NativeDisplay /\ n.session = v.native[s].session /\ n.ext = v.native[s].ext
        /\ n.conn = v.native[s].conn /\ n.active = v.native[s].active /\ n.closing = v.native[s].closing
        /\ n.cleared = v.native[s].cleared
    BY <2>1, <2>2 DEF NativeDisplay
  <2>4. /\ v.native[s].closing => n.closing
        /\ n.active => n.cleared
        /\ n.cleared => n.closing
        /\ (n.cleared <=> v.native[s].cleared) \/ n.conn # connection[s]
    BY <1>1, <1>2, <2>3 DEF SlotSound
  <2> DEFINE w == [v EXCEPT !.native[s].due = b]
  <2>6. /\ w \in Views /\ w.screen = v.screen /\ w.display = v.display /\ w.menus = v.menus
        /\ w.leased = v.leased /\ w.native[s] = n /\ \A t \in Slots \ {s} : w.native[t] = v.native[t]
    BY <1>1, <2>2, <2>3 DEF Views
  <2> HIDE DEF w
  <2>7. Good(w) /\ Calling(w) = IF n.active THEN Calling(v) \cup {s} ELSE Calling(v) \ {s}
    BY <1>2, <2>3, <2>4, <2>6, NativeMarked
  <2>8. s \in Calling(v) <=> n.active
    BY <1>2, <2>3 DEF Calling
  <2>9. Calling(w) = Calling(v)
    BY <2>7, <2>8
  <2> QED
    BY <2>7, <2>9 DEF w
<1>3. ASSUME v.display[s] # None
      PROVE  LET w == [v EXCEPT !.display[s].due = b] IN Good(w) /\ Calling(w) = Calling(v)
  <2>1. v.display[s] \in Display
    BY <1>3, Kinds
  <2>2. PICK d : d = [v.display[s] EXCEPT !.due = b]
    OBVIOUS
  <2>3. /\ d \in Display /\ d.session = v.display[s].session /\ d.menu = v.display[s].menu
        /\ d.conn = v.display[s].conn
    BY <2>1, <2>2 DEF Display
  <2> DEFINE w == [v EXCEPT !.display[s].due = b]
  <2>5. /\ w \in Views /\ w.screen = v.screen /\ w.native = v.native /\ w.menus = v.menus
        /\ w.leased = v.leased /\ w.display[s] = d /\ \A t \in Slots \ {s} : w.display[t] = v.display[t]
    BY <1>1, <2>2, <2>3 DEF Views
  <2> HIDE DEF w
  <2>6. Good(w) /\ Calling(w) = Calling(v)
    BY <1>3, <2>3, <2>5, DisplayMarked
  <2> QED
    BY <2>6 DEF w
<1> QED
  BY <1>2, <1>3

LEMMA ExpireStep ==
    ASSUME MInv, NEW s \in Slots, Expire(s) PROVE MInv'
<1>1. UNCHANGED <<connection, joined, users, running, stack, next, viewer, chosen>>
  BY DEF Expire, world, uses
<1>2. Good(View) /\ View.native = native /\ View.display = display
  BY DEF MInv, View
<1>3. CASE native[s] # None /\ native' = [native EXCEPT ![s].due = TRUE] /\ UNCHANGED display
  <2>1. PICK w : w = [View EXCEPT !.native[s].due = TRUE]
    OBVIOUS
  <2>2. Become(w)
    BY <1>3, <2>1 DEF Become, View, Expire
  <2>3. Good(w) /\ Calling(w) = Calling(View)
    BY <1>2, <1>3, <2>1, DueGood
  <2> QED
    BY <1>1, <2>2, <2>3, OnlyViews
<1>4. CASE display[s] # None /\ display' = [display EXCEPT ![s].due = TRUE] /\ UNCHANGED native
  <2>1. PICK w : w = [View EXCEPT !.display[s].due = TRUE]
    OBVIOUS
  <2>2. Become(w)
    BY <1>4, <2>1 DEF Become, View, Expire
  <2>3. Good(w) /\ Calling(w) = Calling(View)
    BY <1>2, <1>4, <2>1, DueGood
  <2> QED
    BY <1>1, <2>2, <2>3, OnlyViews
<1> QED
  BY <1>3, <1>4 DEF Expire

LEMMA DisconnectedStep ==
    ASSUME MInv, NEW s \in Slots, NEW c \in Connections, Disconnected(s, c) PROVE MInv'
<1> DEFINE mine == native[s] # None /\ native[s].conn = c
<1>1. connection[s] # c /\ UNCHANGED <<connection, joined, users, running, stack, next, viewer, chosen>>
  BY DEF Disconnected, world, uses
<1>2. Good(View) /\ RestTypes /\ View.native = native /\ View.display = display
  BY DEF MInv, View
<1>3. PICK r \in (IF mine THEN CloseNative(IF mine THEN Unseen(View, s) ELSE View, s)
                  ELSE {Done(IF mine THEN Unseen(View, s) ELSE View)}) :
         Become(IF display[s] # None /\ display[s].conn = c THEN Retired(r.view, s) ELSE r.view)
  BY DEF Disconnected, Unseen
<1>4. Good(r.view) /\ Calling(r.view) = Calling(View) /\ r.view.display = display
  <2>1. CASE mine
    <3>1. r \in CloseNative(Unseen(View, s), s)
      BY <1>3, <2>1
    <3>2. View.native[s] # None /\ connection[s] # View.native[s].conn
      BY <1>1, <1>2, <2>1
    <3> QED
      BY <1>2, <3>1, <3>2, GoneGood
  <2>2. CASE ~mine
    <3>1. r = Done(View)
      BY <1>3, <2>2
    <3>2. r.view = View
      BY <3>1 DEF Done
    <3> QED
      BY <1>2, <3>2
  <2> QED
    BY <2>1, <2>2
<1>5. CASE display[s] # None /\ display[s].conn = c
  <2>1. Good(Retired(r.view, s)) /\ Retired(r.view, s).native = r.view.native
    BY <1>4, <1>5, RetiredGood
  <2>2. Calling(Retired(r.view, s)) = Calling(View)
    BY <1>4, <2>1 DEF Calling
  <2>3. Become(Retired(r.view, s))
    BY <1>3, <1>5
  <2> QED
    BY <1>1, <2>1, <2>2, <2>3, OnlyViews
<1>6. CASE ~(display[s] # None /\ display[s].conn = c)
  <2>1. Become(r.view)
    BY <1>3, <1>6
  <2> QED
    BY <1>1, <1>4, <2>1, OnlyViews
<1> QED
  BY <1>5, <1>6

LEMMA TickNativeStep ==
    ASSUME MInv, NEW s \in Slots, TickNative(s) PROVE MInv'
<1>1. native[s] # None /\ UNCHANGED <<connection, joined, users, running, stack, next, viewer, chosen>>
  BY DEF TickNative, world, uses
<1>2. Good(View) /\ RestTypes /\ View.native = native
  BY DEF MInv, View
<1>3. ASSUME NEW r \in CloseNative(View, s), Become(r.view) PROVE MInv'
  <2>1. Good(r.view) /\ Calling(r.view) = Calling(View)
    BY <1>2, CloseNativeGood
  <2> QED
    BY <1>1, <1>3, <2>1, OnlyViews
<1>4. ASSUME connection[s] # native[s].conn, NEW r \in CloseNative(Unseen(View, s), s), Become(r.view) PROVE MInv'
  <2>1. View.native[s] # None /\ connection[s] # View.native[s].conn
    BY <1>1, <1>2, <1>4
  <2>2. Good(r.view) /\ Calling(r.view) = Calling(View)
    BY <1>2, <1>4, <2>1, GoneGood
  <2> QED
    BY <1>1, <1>4, <2>2, OnlyViews
<1> QED
  BY <1>3, <1>4 DEF TickNative, Unseen

LEMMA TickDisplayStep ==
    ASSUME MInv, NEW s \in Slots, TickDisplay(s) PROVE MInv'
<1>1. display[s] # None /\ UNCHANGED <<connection, joined, users, running, stack, next, viewer, chosen>>
  BY DEF TickDisplay, world, uses
<1>2. Good(View) /\ RestTypes /\ View.display = display
  BY DEF MInv, View
<1>3. CASE Close(s)
  <2>1. PICK r \in CloseDisplay(View, s) : Become(r.view)
    BY <1>3 DEF Close
  <2>2. Good(r.view) /\ Calling(r.view) = Calling(View)
    BY <1>2, CloseDisplayGood
  <2> QED
    BY <1>1, <2>1, <2>2, OnlyViews
<1>4. CASE Become(Retired(View, s))
  <2>1. Good(Retired(View, s)) /\ Retired(View, s).native = View.native
    BY <1>1, <1>2, RetiredGood
  <2>2. Calling(Retired(View, s)) = Calling(View)
    BY <2>1 DEF Calling
  <2> QED
    BY <1>1, <1>4, <2>1, <2>2, OnlyViews
<1>5. ASSUME NEW r \in CloseDisplay([View EXCEPT !.display[s].due = TRUE], s), Become(r.view) PROVE MInv'
  <2> DEFINE w == [View EXCEPT !.display[s].due = TRUE]
  <2>1. Good(w) /\ Calling(w) = Calling(View)
    BY <1>1, <1>2, DueGood
  <2>2. r \in CloseDisplay(w, s)
    BY <1>5
  <2> HIDE DEF w
  <2>3. Good(r.view) /\ Calling(r.view) = Calling(w)
    BY <1>2, <2>1, <2>2, CloseDisplayGood
  <2> QED
    BY <1>1, <1>5, <2>1, <2>3, OnlyViews
<1> QED
  BY <1>3, <1>4, <1>5 DEF TickDisplay

\* A callback begins or returns while its menu is off the screen.
LEMMA ActiveGood ==
    ASSUME NEW v, Good(v), NEW s \in Slots, v.native[s] # None, v.native[s].cleared, NEW b \in BOOLEAN
    PROVE  LET w == [v EXCEPT !.native[s].active = b]
           IN  /\ Good(w) /\ Calling(w) = IF b THEN Calling(v) \cup {s} ELSE Calling(v) \ {s}
               /\ w.display = v.display /\ w.native[s] # None
               /\ w.native[s].closing /\ w.native[s].cleared /\ w.native[s].active = b
<1>1. v \in Views /\ SlotSound(v, s) /\ v.native[s] \in NativeDisplay
  BY Kinds DEF Good
<1>2. PICK n : n = [v.native[s] EXCEPT !.active = b]
  OBVIOUS
<1>3. /\ n \in NativeDisplay /\ n.session = v.native[s].session /\ n.ext = v.native[s].ext
      /\ n.conn = v.native[s].conn
  BY <1>1, <1>2 DEF NativeDisplay
<1>8. n.active = b /\ n.closing = v.native[s].closing /\ n.cleared = v.native[s].cleared
  BY <1>1, <1>2 DEF NativeDisplay
<1>4. /\ v.native[s].closing => n.closing
      /\ n.active => n.cleared
      /\ n.cleared => n.closing
      /\ (n.cleared <=> v.native[s].cleared) \/ n.conn # connection[s]
  BY <1>1, <1>3, <1>8 DEF SlotSound
<1> DEFINE w == [v EXCEPT !.native[s].active = b]
<1>5. /\ w \in Views /\ w.screen = v.screen /\ w.display = v.display /\ w.menus = v.menus
      /\ w.leased = v.leased /\ w.native[s] = n /\ \A t \in Slots \ {s} : w.native[t] = v.native[t]
  BY <1>1, <1>2, <1>3 DEF Views
<1> HIDE DEF w
<1>6. Good(w) /\ Calling(w) = IF n.active THEN Calling(v) \cup {s} ELSE Calling(v) \ {s}
  BY <1>3, <1>4, <1>5, NativeMarked
<1>7. n # None /\ n.closing /\ n.cleared
  BY <1>1, <1>3, <1>8, NotNone DEF SlotSound
<1> QED
  BY <1>3, <1>5, <1>6, <1>7, <1>8 DEF w

\* NativeMenuInput: the callback begins with the menu closing and off the screen.
LEMMA CalledStep ==
    ASSUME MInv, NEW s \in Slots, native[s] # None, ~native[s].active, ~native[s].closing,
           connection[s] # 0, connection[s] = native[s].conn,
           NEW r \in Clear(View, s), r.ok,
           Become([r.view EXCEPT !.native[s].active = TRUE]), stack' = Append(stack, s),
           chosen' = [chosen EXCEPT ![native[s].session] = Append(@, <<native[s].session, s, connection[s]>>)],
           UNCHANGED <<connection, joined, users, running, next, viewer>>
    PROVE  MInv'
<1>1. /\ Good(View) /\ RestTypes /\ ChosenSound /\ Range(stack) = Calling(View)
      /\ View.native = native /\ View.display = display
  BY DEF MInv, View
<1>2. /\ Good(r.view) /\ Elsewhere(View, r.view, s) /\ r.ok \in BOOLEAN
      /\ r.view.display = View.display /\ r.view.menus = View.menus /\ r.view.leased = View.leased
      /\ r.view.native[s] # None /\ r.view.native[s].session = View.native[s].session
      /\ r.view.native[s].ext = View.native[s].ext /\ r.view.native[s].conn = View.native[s].conn
      /\ r.view.native[s].active = View.native[s].active /\ r.view.native[s].closing
      /\ r.ok => r.view.native[s].cleared
  BY <1>1, ClearGood
<1>3. /\ r.view \in Views /\ r.view.native[s] \in NativeDisplay /\ native[s] \in NativeDisplay
      /\ SlotSound(View, s) /\ r.view.native[s].cleared
  BY <1>1, <1>2, Kinds DEF Good
<1> DEFINE w == [r.view EXCEPT !.native[s].active = TRUE]
<1>7. Become(w)
  OBVIOUS
<1>9. /\ Good(w) /\ Calling(w) = IF TRUE THEN Calling(r.view) \cup {s} ELSE Calling(r.view) \ {s}
      /\ w.display = r.view.display /\ w.native[s] # None
      /\ w.native[s].closing /\ w.native[s].cleared /\ w.native[s].active = TRUE
  BY <1>2, <1>3, ActiveGood
<1> HIDE DEF w
<1>10. Calling(r.view) = Calling(View) /\ s \notin Calling(View)
  BY <1>1, <1>2 DEF Calling, Elsewhere
<1>11. PICK k : k = native[s].session
  OBVIOUS
<1>12. PICK c : c = connection[s]
  OBVIOUS
<1>13. /\ k \in Sessions /\ c \in Connections /\ k < next /\ viewer[k] = <<s, c>> /\ chosen[k] = <<>>
       /\ w.display[s] = None /\ w.native[s].closing
  BY <1>1, <1>2, <1>3, <1>9, <1>11, <1>12 DEF SlotSound, RecordSound, NativeDisplay
<1>14. chosen' = [chosen EXCEPT ![k] = Append(@, <<k, s, c>>)]
  BY <1>11, <1>12
<1>15. Good(w)' /\ ChosenSound'
  BY <1>1, <1>9, <1>13, <1>14, ChosenAt
<1>16. stack \in Seq(Slots) /\ \A i, j \in 1..Len(stack) : i # j => stack[i] # stack[j]
  BY <1>1 DEF RestTypes
<1>17. /\ stack' \in Seq(Slots) /\ Range(stack') = Range(stack) \cup {s}
       /\ \A i, j \in 1..Len(stack') : i # j => stack'[i] # stack'[j]
  BY <1>1, <1>10, <1>16, Pushed
<1>18. RestTypes' /\ Range(stack') = Calling(w)
  BY <1>1, <1>9, <1>10, <1>17 DEF RestTypes
<1> QED
  BY <1>7, <1>15, <1>18, Moved

LEMMA NativeInputStep ==
    ASSUME MInv, NEW s \in Slots, NEW k \in Sessions, NEW c \in Connections, NativeInput(s, k, c) PROVE MInv'
<1>1. /\ native[s] # None /\ native[s].session = k /\ ~native[s].active /\ ~native[s].closing /\ connection[s] # 0
      /\ UNCHANGED <<connection, joined, users, running, next, viewer>>
  BY DEF NativeInput, Addressed, world, uses
<1>2. Good(View) /\ RestTypes /\ View.native = native
  BY DEF MInv, View
<1>3. ASSUME NEW r \in CloseNative(View, s), Become(r.view), UNCHANGED <<stack, chosen>> PROVE MInv'
  <2>1. Good(r.view) /\ Calling(r.view) = Calling(View)
    BY <1>2, CloseNativeGood
  <2> QED
    BY <1>1, <1>3, <2>1, OnlyViews
<1>4. CASE Become([View EXCEPT !.native[s].due = FALSE]) /\ UNCHANGED <<stack, chosen>>
  <2> DEFINE w == [View EXCEPT !.native[s].due = FALSE]
  <2>1. Good(w) /\ Calling(w) = Calling(View)
    BY <1>1, <1>2, DueGood
  <2>2. Become(w)
    BY <1>4
  <2> HIDE DEF w
  <2> QED
    BY <1>1, <1>4, <2>1, <2>2, OnlyViews
<1>5. CASE connection[s] = native[s].conn /\ SelectNative(s, k)
  <2>1. PICK r \in Clear(View, s) :
          IF ~r.ok \/ connection[s] # native[s].conn
          THEN \E q \in (IF r.ok THEN Release(r.view, s) ELSE {r}) :
                  Become(q.view) /\ UNCHANGED <<stack, chosen>>
          ELSE /\ Become([r.view EXCEPT !.native[s].active = TRUE])
               /\ stack' = Append(stack, s)
               /\ chosen' = [chosen EXCEPT ![native[s].session] = Append(@, <<k, s, connection[s]>>)]
    BY <1>5 DEF SelectNative
  <2>2. CASE ~r.ok
    <3>1. Become(r.view) /\ UNCHANGED <<stack, chosen>>
      BY <2>1, <2>2
    <3>2. /\ Good(r.view) /\ Elsewhere(View, r.view, s)
          /\ r.view.native[s] # None /\ r.view.native[s].active = View.native[s].active
      BY <1>1, <1>2, <2>1, ClearGood
    <3>3. Calling(r.view) = Calling(View)
      BY <1>1, <1>2, <3>2 DEF Calling, Elsewhere
    <3> QED
      BY <1>1, <3>1, <3>2, <3>3, OnlyViews
  <2>3. CASE r.ok
    <3>1. /\ Become([r.view EXCEPT !.native[s].active = TRUE])
          /\ stack' = Append(stack, s)
          /\ chosen' = [chosen EXCEPT ![native[s].session] = Append(@, <<native[s].session, s, connection[s]>>)]
      BY <1>1, <1>5, <2>1, <2>3
    <3> QED
      BY <1>1, <1>5, <2>1, <2>3, <3>1, CalledStep
  <2> QED
    BY <2>2, <2>3
<1> QED
  BY <1>3, <1>4, <1>5 DEF NativeInput

\* The end of CloseNativeDisplay after the callback.
LEMMA NativeReturnStep == ASSUME MInv, NativeReturn PROVE MInv'
<1> DEFINE s == Last(stack)
           v == Returned(View, s)
<1>1. /\ Good(View) /\ RestTypes /\ ChosenSound /\ Range(stack) = Calling(View)
      /\ View.native = native /\ View \in Views
  BY DEF MInv, View, Good
<1>2. /\ stack # <<>> /\ stack' = Front(stack) /\ \E r \in Release(v, s) : Become(r.view)
      /\ UNCHANGED <<connection, joined, users, running, next, viewer, chosen>>
  BY DEF NativeReturn, world, uses
<1>3. stack \in Seq(Slots) /\ \A i, j \in 1..Len(stack) : i # j => stack[i] # stack[j]
  BY <1>1 DEF RestTypes
<1>4. /\ s \in Slots /\ s \in Range(stack)
      /\ Front(stack) \in Seq(Slots) /\ Range(Front(stack)) = Range(stack) \ {s}
      /\ \A i, j \in 1..Len(Front(stack)) : i # j => Front(stack)[i] # Front(stack)[j]
  BY <1>2, <1>3, Popped
<1> HIDE DEF s
<1>5. /\ View.native[s] # None /\ View.native[s].active /\ View.native[s] \in NativeDisplay
      /\ SlotSound(View, s) /\ View.native[s].cleared /\ View.native[s].closing
  BY <1>1, <1>4, Kinds DEF Calling, Good, SlotSound
<1>10. /\ Good(v) /\ Calling(v) = IF FALSE THEN Calling(View) \cup {s} ELSE Calling(View) \ {s}
       /\ v.display = View.display /\ v.native[s] # None
       /\ v.native[s].closing /\ v.native[s].cleared /\ v.native[s].active = FALSE
  BY <1>1, <1>4, <1>5, ActiveGood DEF Returned
<1> HIDE DEF v
<1>11. PICK r \in Release(v, s) : Become(r.view)
  BY <1>2
<1>12. Expected(v, s) = None
  BY <1>5, <1>10 DEF Expected, SlotSound
<1>13. /\ Good(r.view) /\ Elsewhere(v, r.view, s) /\ r.ok \in BOOLEAN
       /\ r.view.display = v.display /\ r.view.menus = v.menus
       /\ r.ok => r.view.native[s] = None
       /\ ~r.ok => r.view = v
  BY <1>1, <1>4, <1>10, <1>11, <1>12, ReleaseGood
<1>14. Calling(r.view) = Calling(v)
  BY <1>10, <1>13 DEF Calling, Elsewhere
<1>15. Good(r.view)'
  BY <1>2, <1>13, Stays
<1>16. RestTypes' /\ ChosenSound' /\ Range(stack') = Calling(r.view)
  BY <1>1, <1>2, <1>4, <1>10, <1>14 DEF RestTypes, ChosenSound
<1> QED
  BY <1>11, <1>15, <1>16, Moved

LEMMA ScriptInputStep ==
    ASSUME MInv, NEW s \in Slots, NEW k \in Sessions, NEW c \in Connections, ScriptInput(s, k, c) PROVE MInv'
<1>1. /\ native[s] = None /\ display[s] # None /\ display[s].session = k /\ display[s].conn = c
      /\ UNCHANGED <<connection, joined, users, running, stack, next, viewer>>
  BY DEF ScriptInput, Addressed, world, uses
<1>2. /\ Good(View) /\ RestTypes /\ ChosenSound /\ Range(stack) = Calling(View)
      /\ View.native = native /\ View.display = display
  BY DEF MInv, View
<1>3. CASE Close(s) /\ UNCHANGED chosen
  <2>1. PICK r \in CloseDisplay(View, s) : Become(r.view)
    BY <1>3 DEF Close
  <2>2. Good(r.view) /\ Calling(r.view) = Calling(View)
    BY <1>2, CloseDisplayGood
  <2> QED
    BY <1>1, <1>3, <2>1, <2>2, OnlyViews
<1>4. ASSUME connection[s] = display[s].conn, NEW r \in CloseDisplay(View, s), r.ok, Become(r.view),
             chosen' = [chosen EXCEPT ![display[s].session] = Append(@, <<k, s, connection[s]>>)]
      PROVE  MInv'
  <2>1. /\ Good(r.view) /\ Calling(r.view) = Calling(View)
        /\ r.view.display[s] = None /\ r.view.native[s] = None
    BY <1>2, <1>4, CloseDisplayGood
  <2>2. k < next /\ viewer[k] = <<s, c>> /\ chosen[k] = <<>>
    BY <1>1, <1>2 DEF Good, SlotSound, RecordSound
  <2>3. chosen' = [chosen EXCEPT ![k] = Append(@, <<k, s, c>>)]
    BY <1>1, <1>4
  <2>4. Good(r.view)' /\ ChosenSound'
    BY <1>1, <1>2, <2>1, <2>2, <2>3, ChosenAt
  <2>5. RestTypes' /\ Range(stack') = Calling(r.view)
    BY <1>1, <1>2, <2>1 DEF RestTypes
  <2> QED
    BY <1>4, <2>4, <2>5, Moved
<1>5. CASE Become([View EXCEPT !.display[s].due = FALSE]) /\ UNCHANGED chosen
  <2> DEFINE w == [View EXCEPT !.display[s].due = FALSE]
  <2>1. Good(w) /\ Calling(w) = Calling(View)
    BY <1>1, <1>2, DueGood
  <2>2. Become(w)
    BY <1>5
  <2> HIDE DEF w
  <2> QED
    BY <1>1, <1>5, <2>1, <2>2, OnlyViews
<1>6. ASSUME NEW r \in CloseDisplay([View EXCEPT !.display[s].due = TRUE], s), Become(r.view), UNCHANGED chosen
      PROVE  MInv'
  <2> DEFINE w == [View EXCEPT !.display[s].due = TRUE]
  <2>1. Good(w) /\ Calling(w) = Calling(View)
    BY <1>1, <1>2, DueGood
  <2>2. r \in CloseDisplay(w, s)
    BY <1>6
  <2> HIDE DEF w
  <2>3. Good(r.view) /\ Calling(r.view) = Calling(w)
    BY <1>2, <2>1, <2>2, CloseDisplayGood
  <2> QED
    BY <1>1, <1>6, <2>1, <2>3, OnlyViews
<1> QED
  BY <1>3, <1>4, <1>5, <1>6 DEF ScriptInput

\* A player comes or goes: what is on record for the slot is for nobody who is there.
LEMMA PlayerGood ==
    ASSUME MInv, NEW s \in Slots, screen' = [screen EXCEPT ![s] = None],
           connection' \in [Slots -> 0..joined'], joined' \in 0..MaxConnections, joined <= joined',
           \A t \in Slots \ {s} : connection'[t] = connection[t],
           connection'[s] = 0 \/ connection'[s] > joined,
           UNCHANGED <<display, native, menus, running, users, leased, stack, next, viewer, chosen>>
    PROVE  MInv'
<1>1. /\ Good(View) /\ RestTypes /\ ChosenSound /\ Range(stack) = Calling(View)
      /\ View \in Views /\ View.screen = screen /\ View.display = display /\ View.native = native
      /\ View.menus = menus /\ View.leased = leased
  BY DEF MInv, View, Good
<1>2. PICK w : w = [View EXCEPT !.screen[s] = None]
  OBVIOUS
<1>3. /\ w \in Views /\ w.display = display /\ w.native = native /\ w.menus = menus /\ w.leased = leased
      /\ w.screen[s] = None /\ \A t \in Slots \ {s} : w.screen[t] = screen[t]
  BY <1>1, <1>2 DEF Views
<1>4. Become(w)
  BY <1>1, <1>2 DEF Become, View
<1>5. joined \in Nat /\ joined' \in Nat /\ MaxConnections \in Nat
  BY <1>1, MenusAssumption DEF RestTypes
<1>6. ASSUME NEW d \in Display \cup NativeDisplay, NEW t \in Slots, RecordSound(d, t)
      PROVE  RecordSound(d, t)' /\ d.conn <= joined /\ d.conn \in Nat \ {0}
  <2>1. d.conn \in Connections
    BY <1>6 DEF Display, NativeDisplay
  <2> QED
    BY <1>5, <1>6, <2>1 DEF RecordSound, Connections
<1>7. ASSUME NEW t \in Slots PROVE SlotSound(w, t)'
  <2>1. /\ SlotSound(View, t)
        /\ display[t] # None => display[t] \in Display
        /\ native[t] # None => native[t] \in NativeDisplay
    BY <1>1, Kinds DEF Good
  <2>2. CASE t = s
    <3>1. connection'[s] = 0 \/ Expected(w, s)' = None
      <4>1. display[s] # None => display[s].conn # connection'[s] \/ connection'[s] = 0
        BY <1>1, <1>5, <1>6, <2>1, <2>2 DEF SlotSound
      <4>2. native[s] # None => native[s].conn # connection'[s] \/ connection'[s] = 0
        BY <1>1, <1>5, <1>6, <2>1, <2>2 DEF SlotSound
      <4> QED
        BY <1>3, <4>1, <4>2 DEF Expected
    <3> QED
      BY <1>1, <1>3, <1>6, <2>1, <2>2, <3>1 DEF SlotSound
  <2>3. CASE t # s
    <3>1. Expected(w, t)' = Expected(View, t)
      BY <1>1, <1>3, <2>3 DEF Expected
    <3> QED
      BY <1>1, <1>3, <1>6, <2>1, <2>3, <3>1 DEF SlotSound
  <2> QED
    BY <2>2, <2>3
<1>8. Leases(w)' /\ Calling(w) = Calling(View)
  BY <1>1, <1>3 DEF Good, Leases, Of, Calling
<1>9. \A t, u \in Slots : w.display[t] # None /\ w.display[u] # None /\ w.display[t].menu = w.display[u].menu
                         => t = u
  BY <1>1, <1>3 DEF Good
<1>10. Good(w)'
  BY <1>3, <1>7, <1>8, <1>9 DEF Good
<1>11. RestTypes' /\ ChosenSound'
  BY <1>1 DEF RestTypes, ChosenSound
<1> QED
  BY <1>1, <1>4, <1>8, <1>10, <1>11, Moved

LEMMA JoinStep ==
    ASSUME MInv, NEW s \in Slots, Join(s) PROVE MInv'
<1>1. /\ connection \in [Slots -> 0..joined] /\ joined \in 0..MaxConnections /\ MaxConnections \in Nat
  BY MenusAssumption DEF MInv, RestTypes
<1>2. /\ joined < MaxConnections /\ joined' = joined + 1 /\ connection' = [connection EXCEPT ![s] = joined']
      /\ screen' = [screen EXCEPT ![s] = None]
      /\ UNCHANGED <<display, native, menus, running, users, leased, stack, next, viewer, chosen>>
  BY DEF Join, uses
<1>3. /\ connection' \in [Slots -> 0..joined'] /\ joined' \in 0..MaxConnections /\ joined <= joined'
      /\ \A t \in Slots \ {s} : connection'[t] = connection[t]
      /\ connection'[s] = 0 \/ connection'[s] > joined
  BY <1>1, <1>2
<1> QED
  BY <1>2, <1>3, PlayerGood

LEMMA LeaveStep ==
    ASSUME MInv, NEW s \in Slots, Leave(s) PROVE MInv'
<1>1. /\ connection \in [Slots -> 0..joined] /\ joined \in 0..MaxConnections /\ MaxConnections \in Nat
  BY MenusAssumption DEF MInv, RestTypes
<1>2. /\ connection' = [connection EXCEPT ![s] = 0] /\ joined' = joined
      /\ screen' = [screen EXCEPT ![s] = None]
      /\ UNCHANGED <<display, native, menus, running, users, leased, stack, next, viewer, chosen>>
  BY DEF Leave, uses
<1>3. /\ connection' \in [Slots -> 0..joined'] /\ joined' \in 0..MaxConnections /\ joined <= joined'
      /\ \A t \in Slots \ {s} : connection'[t] = connection[t]
      /\ connection'[s] = 0 \/ connection'[s] > joined
  BY <1>1, <1>2
<1> QED
  BY <1>2, <1>3, PlayerGood

\* A finite set of slots has a last one.
LEMMA LastOne ==
    ASSUME NEW Q \in SUBSET Nat, IsFiniteSet(Q), Q # {}
    PROVE  \E x \in Q : \A y \in Q : y <= x
<1> DEFINE R == OpToRel(<, Nat)
           up(x) == {y \in Q : y > x}
           T == {Cardinality(up(x)) : x \in Q}
<1>1. \A x \in Q : up(x) \in SUBSET Q /\ IsFiniteSet(up(x)) /\ Cardinality(up(x)) \in Nat
  <2>1. ASSUME NEW x \in Q PROVE up(x) \in SUBSET Q /\ IsFiniteSet(up(x)) /\ Cardinality(up(x)) \in Nat
    <3>1. up(x) \in SUBSET Q
      OBVIOUS
    <3>2. IsFiniteSet(up(x))
      BY <3>1, FS_Subset
    <3> QED
      BY <3>1, <3>2, FS_CardinalityType
  <2> QED
    BY <2>1
<1>2. IsWellFoundedOn(R, Nat)
  BY NatLessThanWellFounded
<1>3. T \subseteq Nat /\ T # {}
  BY <1>1
<1> HIDE DEF R, T
<1>4. PICK n \in T : \A m \in T : ~(<<m, n>> \in R)
  BY <1>2, <1>3, WFMin
<1>5. PICK x \in Q : n = Cardinality(up(x))
  BY <1>4 DEF T
<1>6. ASSUME NEW y \in Q, ~(y <= x) PROVE FALSE
  <2>1. x \in Nat /\ y \in Nat /\ y > x
    BY <1>6
  <2>2. up(y) \in SUBSET up(x) /\ y \in up(x) /\ y \notin up(y)
    <3>1. \A z \in Q : z > y => z > x
      BY <2>1
    <3>2. ~(y > y)
      BY <2>1
    <3> QED
      BY <1>6, <2>1, <3>1, <3>2
  <2>3. up(y) # up(x)
    BY <2>2
  <2> HIDE DEF up
  <2>4. IsFiniteSet(up(x)) /\ Cardinality(up(x)) \in Nat /\ Cardinality(up(y)) \in Nat
    BY <1>1
  <2>5. Cardinality(up(y)) < Cardinality(up(x))
    BY <2>2, <2>3, <2>4, FS_Subset
  <2>6. Cardinality(up(y)) \in T /\ n \in Nat
    BY <1>3, <1>4 DEF T
  <2>7. <<Cardinality(up(y)), n>> \in R
    BY <1>5, <2>5, <2>6, <2>4 DEF R, OpToRel
  <2> QED
    BY <1>4, <2>6, <2>7
<1> QED
  BY <1>6


\* MapChanged, the services: of an extension whose every user closes, the release succeeds
\* or one menu stays with the lease; any other extension keeps a user.
LEMMA MapChangedStep == ASSUME MInv, MapChanged PROVE MInv'
<1> DEFINE quiet == {s \in Slots : native[s] # None /\ ~native[s].active}
           Q(e) == {s \in quiet : native[s].ext = e}
           last(e) == {s \in quiet : native[s].ext = e /\ \A t \in quiet : native[t].ext = e => t <= s}
           alone == {e \in Exts : last(e) # {} /\ ServiceUsers(View, e) = Cardinality({s \in quiet : native[s].ext = e})}
           left(stuck) == [s \in Slots |->
                    IF native[s] = None THEN None
                    ELSE IF native[s].active THEN [native[s] EXCEPT !.cleared = TRUE]
                    ELSE IF \E e \in stuck : s \in last(e)
                    THEN [native[s] EXCEPT !.closing = TRUE, !.cleared = TRUE] ELSE None]
<1>1. /\ Good(View) /\ RestTypes /\ View \in Views /\ Leases(View) /\ \A s \in Slots : SlotSound(View, s)
      /\ View.native = native /\ View.leased = leased /\ View.display = display
  BY DEF MInv, View, Good
<1>2. PICK stuck \in SUBSET alone : native' = left(stuck) /\ leased' = leased \ (alone \ stuck)
  BY DEF MapChanged
<1>3. /\ display' = [s \in Slots |-> None] /\ menus' = {} /\ screen' = [s \in Slots |-> None]
      /\ UNCHANGED <<connection, joined, users, running, stack, next, viewer, chosen>>
  BY DEF MapChanged, world, uses
<1> DEFINE stays(s) == \E e \in stuck : s \in last(e)
           w == [screen |-> screen', display |-> display', native |-> native', menus |-> menus', leased |-> leased']
<1>4. \A s \in Slots : native[s] # None => native[s] \in NativeDisplay
  BY <1>1, Kinds
<1>5. \A e \in Exts : last(e) \in SUBSET Q(e)
  OBVIOUS
<1>6. DOMAIN native' = Slots /\ native' = [s \in Slots |-> native'[s]]
  BY <1>2
<1>7. ASSUME NEW s \in Slots
      PROVE  /\ native[s] = None => native'[s] = None
             /\ native[s] # None /\ native[s].active => native'[s] = [native[s] EXCEPT !.cleared = TRUE]
             /\ s \in quiet /\ stays(s) => native'[s] = [native[s] EXCEPT !.closing = TRUE, !.cleared = TRUE]
             /\ s \in quiet /\ ~stays(s) => native'[s] = None
  BY <1>2
<1> HIDE DEF left
<1>8. ASSUME NEW s \in Slots
      PROVE  \/ native'[s] = None /\ (native[s] = None \/ (s \in quiet /\ ~stays(s)))
             \/ /\ native[s] # None /\ native'[s] \in NativeDisplay /\ native'[s] # None
                /\ native'[s].session = native[s].session /\ native'[s].ext = native[s].ext
                /\ native'[s].conn = native[s].conn /\ native'[s].active = native[s].active
                /\ native'[s].cleared /\ native'[s].closing
                /\ native[s].active \/ stays(s)
  <2>1. CASE native[s] = None
    BY <1>7, <2>1
  <2>2. CASE s \in quiet /\ ~stays(s)
    BY <1>7, <2>2
  <2>3. CASE native[s] # None /\ native[s].active
    <3>1. native[s] \in NativeDisplay /\ native'[s] = [native[s] EXCEPT !.cleared = TRUE]
      BY <1>4, <1>7, <2>3
    <3>2. native[s].closing
      BY <1>1, <2>3 DEF SlotSound
    <3>3. native'[s] \in NativeDisplay
      BY <3>1 DEF NativeDisplay
    <3> QED
      BY <2>3, <3>1, <3>2, <3>3, NotNone DEF NativeDisplay
  <2>4. CASE s \in quiet /\ stays(s)
    <3>1. native[s] \in NativeDisplay /\ native'[s] = [native[s] EXCEPT !.closing = TRUE, !.cleared = TRUE]
      BY <1>4, <1>7, <2>4
    <3>2. native'[s] \in NativeDisplay
      BY <3>1 DEF NativeDisplay
    <3> HIDE DEF stays
    <3> QED
      BY <2>4, <3>1, <3>2, NotNone DEF NativeDisplay
  <2> HIDE DEF stays
  <2> QED
    BY <2>1, <2>2, <2>3, <2>4
<1> HIDE DEF stays
<1>9. w \in Views
  <2>1. \A s \in Slots : native'[s] \in NativeDisplay \cup {None}
    BY <1>8
  <2>2. native' \in [Slots -> NativeDisplay \cup {None}]
    BY <1>6, <2>1
  <2>3. leased' \in SUBSET Exts
    BY <1>1, <1>2 DEF Views
  <2> QED
    BY <1>3, <2>2, <2>3 DEF Views
<1>10. Become(w)
  BY DEF Become
<1>11. /\ w.native = native' /\ w.leased = leased' /\ w.display = display' /\ w.menus = {} /\ w.screen = screen'
  BY <1>3
<1>12. Calling(w) = Calling(View)
  BY <1>1, <1>8, <1>11 DEF Calling
<1> HIDE DEF w
<1>13. ASSUME NEW s \in Slots PROVE SlotSound(w, s)
  <2>1. w.display[s] = None /\ w.screen[s] = None
    BY <1>3, <1>11
  <2>2. w.native[s] # None => w.native[s].cleared /\ w.native[s].closing /\ RecordSound(w.native[s], s)
    BY <1>1, <1>8, <1>11 DEF SlotSound, RecordSound
  <2> QED
    BY <2>1, <2>2 DEF SlotSound, Expected
<1>14. ASSUME NEW e \in Exts PROVE e \in w.leased <=> users[e] > 0 \/ Of(w, e) # {}
  <2>1. IsFiniteSet(Of(View, e)) /\ Q(e) \in SUBSET Of(View, e) /\ Of(View, e) \in SUBSET Slots
    <3>1. Of(View, e) \in SUBSET Slots /\ IsFiniteSet(Slots) /\ Q(e) \in SUBSET Of(View, e)
      BY <1>1, MenusAssumption DEF Of
    <3> QED
      BY <3>1, FS_Subset
  <2>2. IsFiniteSet(Q(e)) /\ Cardinality(Q(e)) \in Nat /\ Cardinality(Of(View, e)) \in Nat
        /\ Cardinality(Q(e)) <= Cardinality(Of(View, e))
        /\ (Cardinality(Q(e)) = Cardinality(Of(View, e)) => Q(e) = Of(View, e))
    <3> HIDE DEF Q
    <3> QED
      BY <2>1, FS_Subset, FS_CardinalityType
  <2>3. ServiceUsers(View, e) = users[e] + Cardinality(Of(View, e)) /\ users[e] \in Nat
    BY UsersOf, <1>1 DEF ServiceUsers, Of
  <2>4. e \in alone <=> last(e) # {} /\ ServiceUsers(View, e) = Cardinality(Q(e))
    OBVIOUS
  <2>5. e \in leased <=> users[e] > 0 \/ Of(View, e) # {}
    BY <1>1 DEF Leases
  <2>6. Of(w, e) \in SUBSET Of(View, e)
    BY <1>1, <1>8, <1>11 DEF Of
  <2>7. e \in w.leased <=> e \in leased /\ (e \in alone => e \in stuck)
    BY <1>2, <1>11
  <2>8. CASE e \in alone
    <3>1. users[e] = 0 /\ Q(e) = Of(View, e) /\ last(e) # {} /\ e \in leased
      <4>1. last(e) # {} /\ Q(e) # {} /\ ServiceUsers(View, e) = Cardinality(Q(e))
        BY <1>5, <2>4, <2>8
      <4> HIDE DEF Q, last, alone
      <4> QED
        BY <2>1, <2>2, <2>3, <2>5, <4>1
    <3>2. CASE e \in stuck
      <4>1. PICK s \in last(e) : s \in Q(e) /\ s \in Slots
        BY <1>5, <3>1
      <4>2. stays(s)
        BY <3>2, <4>1 DEF stays
      <4>3. s \in Of(w, e)
        BY <1>8, <1>11, <4>1, <4>2 DEF Of
      <4> QED
        BY <2>7, <3>1, <3>2, <4>3
    <3>3. CASE e \notin stuck
      <4>1. ASSUME NEW s \in Of(w, e) PROVE FALSE
        <5>1. s \in Q(e) /\ s \in Slots /\ native'[s] # None
          BY <1>11, <2>6, <3>1, <4>1 DEF Of
        <5>2. stays(s)
          BY <1>8, <5>1
        <5>3. PICK f \in stuck : s \in last(f)
          BY <5>2 DEF stays
        <5> QED
          BY <3>3, <5>1, <5>3
      <4> QED
        BY <2>7, <2>8, <3>1, <3>3, <4>1, <2>3
    <3> QED
      BY <3>2, <3>3
  <2>9. CASE e \notin alone
    <3>1. ASSUME users[e] = 0, Of(View, e) # {}, Of(w, e) = {} PROVE FALSE
      <4>1. Of(View, e) \in SUBSET Q(e)
        <5>1. \A s \in Slots : native[s] # None /\ native[s].ext = e /\ native[s].active => s \in Of(w, e)
          BY <1>8, <1>11 DEF Of
        <5> QED
          BY <1>1, <3>1, <5>1 DEF Of
      <4>2. Q(e) = Of(View, e) /\ Q(e) # {} /\ Q(e) \in SUBSET Nat
        BY <2>1, <3>1, <4>1, MenusAssumption
      <4>3. PICK s \in Q(e) : \A t \in Q(e) : t <= s
        <5> HIDE DEF Q
        <5> QED
          BY <2>2, <4>2, LastOne
      <4>4. s \in last(e)
        BY <4>3
      <4>5. last(e) # {}
        BY <4>4
      <4> HIDE DEF Q, last, alone
      <4> QED
        BY <2>2, <2>3, <2>4, <2>9, <3>1, <4>2, <4>5
    <3>2. e \in w.leased <=> e \in leased
      BY <2>7, <2>9
    <3> HIDE DEF Q, last, alone
    <3> QED
      BY <2>3, <2>5, <2>6, <3>1, <3>2
  <2> QED
    BY <2>8, <2>9
<1>15. Leases(w)
  <2>1. w.leased \in SUBSET Exts
    BY <1>9 DEF Views
  <2> QED
    BY <1>14, <2>1 DEF Leases
<1>16. Good(w)
  <2>1. \A s \in Slots : w.display[s] = None
    BY <1>3, <1>11
  <2> QED
    BY <1>9, <1>13, <1>15, <2>1 DEF Good
<1> QED
  BY <1>3, <1>10, <1>12, <1>16, OnlyViews


-----------------------------------------------------------------------------
(* The theorems.                                                           *)

LEMMA MInvInit == Init => MInv
<1> SUFFICES ASSUME Init PROVE MInv
  OBVIOUS
<1>1. /\ \A s \in Slots : connection[s] = 0 /\ screen[s] = None /\ display[s] = None /\ native[s] = None
      /\ \A e \in Exts : users[e] = 0
      /\ View.display = display /\ View.native = native /\ View.screen = screen
      /\ View.menus = {} /\ View.leased = {}
  BY DEF Init, View
<1>2. View \in Views
  BY DEF Init, View, Views
<1>3. \A s \in Slots : SlotSound(View, s)
  BY <1>1 DEF SlotSound
<1>4. Leases(View)
  BY <1>1 DEF Leases, Of
<1>5. Good(View)
  BY <1>1, <1>2, <1>3, <1>4 DEF Good
<1>6. RestTypes
  <2>1. Cardinality(Scripts) \in Nat
    BY MenusAssumption, FS_CardinalityType
  <2> QED
    BY <2>1, MenusAssumption DEF Init, RestTypes
<1>7. ChosenSound
  BY DEF Init, ChosenSound
<1>8. Range(stack) = {} /\ Calling(View) = {}
  BY <1>1 DEF Init, Range, Calling
<1> QED
  BY <1>5, <1>6, <1>7, <1>8 DEF MInv

LEMMA MInvNext == MInv /\ [Next]_vars => MInv'
<1> SUFFICES ASSUME MInv, [Next]_vars PROVE MInv'
  OBVIOUS
<1>1. CASE UNCHANGED vars
  <2>1. /\ UNCHANGED <<connection, joined, users, running, stack, next, viewer, chosen>>
        /\ Become(View) /\ Good(View)
    BY <1>1 DEF vars, Become, View, MInv
  <2> QED
    BY <2>1, OnlyViews
<1>2. ASSUME NEW m \in Menus, CreateMenu(m) \/ CloseMenu(m) \/ \E s \in Slots : ShowMenu(m, s) PROVE MInv'
  BY <1>2, CreateMenuStep, CloseMenuStep, ShowMenuStep
<1>3. ASSUME NEW e \in Exts,
             \/ BindProvider(e) \/ ReleaseProvider(e)
             \/ \E s \in Slots : OpenNativeMenu(e, s)
             \/ \E k \in Sessions : CloseNativeMenu(e, k)
      PROVE  MInv'
  BY <1>3, BindProviderStep, ReleaseProviderStep, OpenNativeMenuStep, CloseNativeMenuStep
<1>4. ASSUME NEW p \in Scripts, Pause(p) \/ Resume(p) PROVE MInv'
  BY <1>4, PauseStep, ResumeStep
<1>5. ASSUME NEW s \in Slots, NEW k \in Sessions, NEW c \in Connections, NativeInput(s, k, c) \/ ScriptInput(s, k, c)
      PROVE  MInv'
  BY <1>5, NativeInputStep, ScriptInputStep
<1>6. ASSUME NEW s \in Slots, NEW c \in Connections, Disconnected(s, c) PROVE MInv'
  BY <1>6, DisconnectedStep
<1>7. ASSUME NEW s \in Slots, Join(s) \/ Leave(s) \/ Expire(s) \/ TickNative(s) \/ TickDisplay(s) PROVE MInv'
  BY <1>7, JoinStep, LeaveStep, ExpireStep, TickNativeStep, TickDisplayStep
<1>8. CASE NativeReturn
  BY <1>8, NativeReturnStep
<1>9. CASE MapChanged
  BY <1>9, MapChangedStep
<1>10. CASE Next
  BY <1>2, <1>3, <1>4, <1>5, <1>6, <1>7, <1>8, <1>9, <1>10 DEF Next
<1> QED
  BY <1>1, <1>10

\* What the screen must show, as the set the property speaks of.
LEMMA Shows ==
    ASSUME MInv, NEW s \in Slots, connection[s] # 0
    PROVE  {screen[s]} \ {None} = Recorded(s)
<1>1. /\ View.display = display /\ View.native = native /\ View.screen = screen /\ SlotSound(View, s)
      /\ display[s] # None => display[s].session # None
      /\ native[s] # None => native[s].session # None
  <2>1. View.display = display /\ View.native = native /\ View.screen = screen /\ Good(View)
    BY DEF MInv, View
  <2> QED
    BY <2>1, Kinds, NotNone DEF Good, Display, NativeDisplay
<1>2. screen[s] = Expected(View, s)
  BY <1>1 DEF SlotSound
<1>3. CASE display[s] # None /\ display[s].conn = connection[s]
  <2>1. native[s] = None /\ screen[s] = display[s].session
    BY <1>1, <1>2, <1>3 DEF SlotSound, Expected
  <2>2. Recorded(s) = {display[s].session}
    BY <1>3, <2>1 DEF Recorded
  <2> QED
    BY <1>1, <1>3, <2>1, <2>2
<1>4. CASE ~(display[s] # None /\ display[s].conn = connection[s])
           /\ native[s] # None /\ native[s].conn = connection[s] /\ ~native[s].cleared
  <2>1. screen[s] = native[s].session
    BY <1>1, <1>2, <1>4 DEF Expected
  <2>2. Recorded(s) = {native[s].session}
    BY <1>4 DEF Recorded
  <2> QED
    BY <1>1, <1>4, <2>1, <2>2
<1>5. CASE ~(display[s] # None /\ display[s].conn = connection[s])
           /\ ~(native[s] # None /\ native[s].conn = connection[s] /\ ~native[s].cleared)
  <2>1. screen[s] = None
    BY <1>1, <1>2, <1>5 DEF Expected
  <2>2. Recorded(s) = {}
    BY <1>5 DEF Recorded
  <2> QED
    BY <2>1, <2>2
<1> QED
  BY <1>3, <1>4, <1>5

LEMMA Agreed == MInv => MenusAccounted
<1> SUFFICES ASSUME MInv PROVE MenusAccounted
  OBVIOUS
<1>1. /\ View.display = display /\ View.native = native /\ View.screen = screen /\ View.menus = menus
      /\ View.leased = leased /\ View \in Views /\ \A s \in Slots : SlotSound(View, s)
      /\ Leases(View) /\ RestTypes /\ Range(stack) = Calling(View)
  BY DEF MInv, Good, View
<1>2. TypeOK
  <2>1. Range(stack) = {s \in Slots : native[s] # None /\ native[s].active}
    BY <1>1 DEF Calling
  <2>2. \A s \in Slots :
          native[s] # None /\ (native[s].active \/ native[s].cleared) => native[s].closing
    BY <1>1 DEF SlotSound
  <2>3. /\ screen \in [Slots -> Sessions \cup {None}] /\ display \in [Slots -> Display \cup {None}]
        /\ native \in [Slots -> NativeDisplay \cup {None}] /\ menus \subseteq Menus /\ leased \subseteq Exts
    BY <1>1 DEF Views
  <2> QED
    BY <1>1, <2>1, <2>2, <2>3 DEF TypeOK, RestTypes
<1>3. OneMenuPerPlayer
  BY <1>1 DEF OneMenuPerPlayer, SlotSound
<1>4. ScreenIsRecorded
  BY Shows DEF ScreenIsRecorded
<1>5. LeaseHeld
  BY <1>1 DEF LeaseHeld, Leases, Of
<1>6. MenuAlive
  BY <1>1 DEF MenuAlive, SlotSound
<1> QED
  BY <1>2, <1>3, <1>4, <1>5, <1>6 DEF MenusAccounted

LEMMA ChosenByOne == MInv => ChosenOnceByViewer
<1> SUFFICES ASSUME MInv, NEW k \in Sessions
             PROVE  /\ Len(chosen[k]) <= 1
                    /\ \A i \in 1..Len(chosen[k]) : chosen[k][i] = <<k>> \o viewer[k]
  BY DEF ChosenOnceByViewer
<1>1. chosen[k] = <<>> \/ chosen[k] = << <<k>> \o viewer[k] >>
  BY DEF MInv, ChosenSound
<1>2. CASE chosen[k] = <<>>
  BY <1>2
<1>3. CASE chosen[k] = << <<k>> \o viewer[k] >>
  <2>1. PICK x : x = <<k>> \o viewer[k]
    OBVIOUS
  <2>2. chosen[k] = <<x>>
    BY <1>3, <2>1, Zenon
  <2>3. Len(chosen[k]) = 1 /\ chosen[k][1] = x
    BY <2>2
  <2>4. \A i \in 1..Len(chosen[k]) : chosen[k][i] = x
    BY <2>3
  <2> QED
    BY <2>1, <2>3, <2>4
<1> QED
  BY <1>1, <1>2, <1>3

\* The records of the menus agree with the screens, the extensions' leases, the handles and
\* the callbacks that run, whatever host calls of CloseDisplay, CloseNativeDisplay,
\* OpenNativeMenu, MapChanged and Tick fail and in whatever order they come.
THEOREM MenusAgree == Spec => []MenusAccounted
<1>1. Init => MInv
  BY MInvInit
<1>2. MInv /\ [Next]_vars => MInv'
  BY MInvNext
<1>3. MInv => MenusAccounted
  BY Agreed
<1> QED
  BY <1>1, <1>2, <1>3, PTL DEF Spec

\* A menu's callback is called once at most, and for the player it was shown to: what
\* MenuInput, NativeMenuInput and CloseNativeDisplay check of session, connection and closing
\* is enough, also for an input that arrives after the slot was given to another player.
THEOREM ChosenByViewer == Spec => []ChosenOnceByViewer
<1>1. Init => MInv
  BY MInvInit
<1>2. MInv /\ [Next]_vars => MInv'
  BY MInvNext
<1>3. MInv => ChosenOnceByViewer
  BY ChosenByOne
<1> QED
  BY <1>1, <1>2, <1>3, PTL DEF Spec

-----------------------------------------------------------------------------
(* TopMenus: the invariant.                                                *)

\* Views, draws and frames have the fields that are spoken of.
IsView(v) == {"slot", "session", "page", "live", "pending", "picked"} \subseteq DOMAIN v
IsDraw(d) == "slot" \in DOMAIN d
IsFrame(f) == {"left", "step", "slot", "object", "picked"} \subseteq DOMAIN f

\* A choice that is pending is a row of the page, and of the one that was on the screen.
ViewSound(v, s) ==
    /\ IsView(v) /\ v.slot = s
    /\ v.pending # Nothing => v.pending \in DOMAIN v.page.rows /\ v.picked = v.page.rows[v.pending]

Catalogue ==
    /\ sequence \in 1..(MaxSequence + 1)
    /\ \A i \in DOMAIN objects : i \in Nat /\ i < sequence /\ objects[i].entry \in Entries
    /\ tokens = {i \in DOMAIN objects : objects[i].entry.kind = "item"}

\* The host holds a pointer to a view only while the view has its session.
Displayed(vs, sh) ==
    /\ DOMAIN vs \subseteq Viewers /\ \A s \in DOMAIN vs : ViewSound(vs[s], s)
    /\ \A s \in sh : s \in DOMAIN vs /\ vs[s].session

Drawing(vs, d) == d # Nothing => IsDraw(d) /\ d.slot \in DOMAIN vs

\* Between two views of a frame nothing is drawn; and what is asked for a choice is the
\* row that was chosen.
Framing(vs, d, f) ==
    f # Nothing => /\ IsFrame(f)
                   /\ f.step = "next" => d = Nothing
                   /\ f.slot # Nothing => f.slot \in DOMAIN vs
                   /\ f.step = "asked" => f.picked.object = f.object /\ f.picked.enabled

TopInv ==
    Catalogue /\ Displayed(views, shown) /\ Drawing(views, draw) /\ Framing(views, draw, frame)

LEMMA TopBegins == Tops!Init => TopInv
<1> SUFFICES ASSUME Tops!Init PROVE TopInv
  OBVIOUS
<1>1. DOMAIN <<>> = {}
  OBVIOUS
<1>2. sequence \in 1..(MaxSequence + 1)
  BY TopAssumption DEF Tops!Init
<1>3. Catalogue
  BY <1>1, <1>2 DEF Tops!Init, Catalogue
<1> QED
  BY <1>1, <1>3 DEF Tops!Init, TopInv, Displayed, Drawing, Framing

\* Objects are closed, or none is.
LEMMA ObjectsClosed == ASSUME Catalogue, NEW closed, Tops!CloseObjects(closed) PROVE Catalogue'
<1>1. /\ DOMAIN objects' = DOMAIN objects \ closed
      /\ \A i \in DOMAIN objects \ closed : objects'[i] = objects[i]
      /\ tokens' = tokens \ closed /\ sequence' = sequence
  BY DEF Tops!CloseObjects
<1>2. tokens' = {i \in DOMAIN objects' : objects'[i].entry.kind = "item"}
  BY <1>1 DEF Catalogue
<1> QED
  BY <1>1, <1>2 DEF Catalogue

LEMMA ObjectsStay == ASSUME Catalogue, UNCHANGED <<objects, sequence, tokens>> PROVE Catalogue'
BY DEF Catalogue

\* Changes of a view that leave it sound.
LEMMA ViewEdited ==
    ASSUME NEW s, NEW v, ViewSound(v, s), NEW x
    PROVE  /\ ViewSound([v EXCEPT !.live = x], s) /\ [v EXCEPT !.live = x].session = v.session
           /\ ViewSound([v EXCEPT !.session = x], s) /\ [v EXCEPT !.session = x].session = x
           /\ ViewSound([v EXCEPT !.session = x, !.pending = Nothing, !.picked = Nothing], s)
           /\ ViewSound(Tops!Redrawn(v, x), s) /\ Tops!Redrawn(v, x).session
<1>1. /\ {"slot", "session", "page", "live", "pending", "picked"} \subseteq DOMAIN v /\ v.slot = s
      /\ v.pending # Nothing => v.pending \in DOMAIN v.page.rows /\ v.picked = v.page.rows[v.pending]
  BY DEF ViewSound, IsView
<1>2. ViewSound([v EXCEPT !.live = x], s) /\ [v EXCEPT !.live = x].session = v.session
  BY <1>1 DEF ViewSound, IsView
<1>3. ViewSound([v EXCEPT !.session = x], s) /\ [v EXCEPT !.session = x].session = x
  BY <1>1 DEF ViewSound, IsView
<1>4. ViewSound([v EXCEPT !.session = x, !.pending = Nothing, !.picked = Nothing], s)
  BY <1>1 DEF ViewSound, IsView
<1>5. ViewSound(Tops!Redrawn(v, x), s) /\ Tops!Redrawn(v, x).session
  BY <1>1 DEF ViewSound, IsView, Tops!Redrawn
<1> QED
  BY <1>2, <1>3, <1>4, <1>5

\* The view of a slot is replaced, and it is on the screen only if it has its session.
LEMMA ViewReplaced ==
    ASSUME Displayed(views, shown), NEW s \in DOMAIN views, NEW v, ViewSound(v, s),
           NEW sh, sh \subseteq shown \cup {s}, s \in sh => v.session
    PROVE  Displayed(Tops!Put(views, s, v), sh) /\ DOMAIN Tops!Put(views, s, v) = DOMAIN views
<1>1. Tops!Put(views, s, v) = [t \in DOMAIN views |-> IF t = s THEN v ELSE views[t]]
  BY DEF Tops!Put
<1>2. DOMAIN Tops!Put(views, s, v) = DOMAIN views
  BY <1>1
<1>3. \A t \in DOMAIN views : Tops!Put(views, s, v)[t] = IF t = s THEN v ELSE views[t]
  BY <1>1
<1>4. \A t \in DOMAIN views : ViewSound(Tops!Put(views, s, v)[t], t)
  BY <1>3 DEF Displayed
<1>5. \A t \in sh : t \in DOMAIN views /\ Tops!Put(views, s, v)[t].session
  BY <1>3 DEF Displayed
<1> QED
  BY <1>2, <1>4, <1>5 DEF Displayed

LEMMA ViewChanged ==
    ASSUME Displayed(views, shown), NEW s \in DOMAIN views, NEW x
    PROVE  /\ Displayed([views EXCEPT ![s].live = x], shown)
           /\ DOMAIN [views EXCEPT ![s].live = x] = DOMAIN views
<1> DEFINE vs == [views EXCEPT ![s].live = x]
<1>1. /\ DOMAIN vs = DOMAIN views
      /\ \A t \in DOMAIN views : vs[t] = IF t = s THEN [views[s] EXCEPT !.live = x] ELSE views[t]
  OBVIOUS
<1>2. /\ ViewSound([views[s] EXCEPT !.live = x], s)
      /\ [views[s] EXCEPT !.live = x].session = views[s].session
  <2>1. ViewSound(views[s], s)
    BY DEF Displayed
  <2> QED
    BY <2>1 DEF ViewSound, IsView
<1> HIDE DEF vs
<1>3. Displayed(vs, shown)
  BY <1>1, <1>2 DEF Displayed
<1> QED
  BY <1>1, <1>3 DEF vs

\* The views stay where they are.
LEMMA PlacesStay ==
    ASSUME NEW vs, NEW ws, DOMAIN vs = DOMAIN ws
    PROVE  /\ \A d : Drawing(vs, d) => Drawing(ws, d)
           /\ \A d, f : Framing(vs, d, f) => Framing(ws, d, f)
BY DEF Drawing, Framing

LEMMA DrawStarts ==
    ASSUME NEW v, NEW category, NEW page
    PROVE  IsDraw(Tops!StartDraw(v, category, page)) /\ Tops!StartDraw(v, category, page).slot = v.slot
BY DEF Tops!StartDraw, IsDraw

\* While script code runs, no frame is between two views.
LEMMA FrameWaits ==
    ASSUME Framing(views, draw, frame), Tops!ScriptsRun
    PROVE  \A vs, d : DOMAIN vs = DOMAIN views => Framing(vs, d, frame)
BY DEF Framing, Tops!ScriptsRun

-----------------------------------------------------------------------------
(* TopMenus: the steps.                                                    *)

LEMMA AddStep == ASSUME TopInv, NEW o \in Owners, NEW entry \in Entries, Tops!Add(o, entry) PROVE TopInv'
<1>1. /\ sequence \in 1..(MaxSequence + 1) /\ sequence <= MaxSequence /\ sequence' = sequence + 1
      /\ UNCHANGED <<views, shown, draw, frame>> /\ MaxSequence \in Nat
  BY TopAssumption DEF Tops!Add, TopInv, Catalogue
<1>2. Catalogue'
  <2>1. sequence' \in 1..(MaxSequence + 1)
    BY <1>1
  <2>2. CASE /\ objects' = Tops!Put(objects, sequence, [owner |-> o, entry |-> entry])
             /\ tokens' = IF entry.kind = "item" THEN tokens \cup {sequence} ELSE tokens
    <3>1. /\ DOMAIN objects' = DOMAIN objects \cup {sequence}
          /\ objects'[sequence].entry = entry
          /\ \A i \in DOMAIN objects : i # sequence => objects'[i] = objects[i]
      BY <2>2 DEF Tops!Put
    <3>2. \A i \in DOMAIN objects : i \in Nat /\ i < sequence /\ i # sequence /\ objects[i].entry \in Entries
      BY <1>1 DEF TopInv, Catalogue
    <3>3. tokens = {i \in DOMAIN objects : objects[i].entry.kind = "item"}
      BY DEF TopInv, Catalogue
    <3>4. tokens' = {i \in DOMAIN objects' : objects'[i].entry.kind = "item"}
      BY <2>2, <3>1, <3>2, <3>3
    <3>5. \A i \in DOMAIN objects' : i \in Nat /\ i < sequence' /\ objects'[i].entry \in Entries
      BY <1>1, <3>1, <3>2
    <3> QED
      BY <2>1, <3>4, <3>5 DEF Catalogue
  <2>3. CASE UNCHANGED <<objects, tokens>>
    BY <1>1, <2>1, <2>3 DEF TopInv, Catalogue
  <2> QED
    BY <2>2, <2>3 DEF Tops!Add
<1> QED
  BY <1>1, <1>2 DEF TopInv

\* What is done between frames, or by scripts, to the catalogue, the players and the scripts.
LEMMA WorldStep ==
    ASSUME TopInv, Catalogue', UNCHANGED <<views, draw, frame>>, shown' \subseteq shown
    PROVE  TopInv'
BY DEF TopInv, Displayed

LEMMA RetireStep == ASSUME TopInv, NEW o \in Owners, Tops!Retire(o) PROVE TopInv'
<1>1. Catalogue' /\ UNCHANGED shown /\ draw' = Nothing /\ frame' = Nothing
  BY ObjectsClosed DEF Tops!Retire, TopInv
<1>2. DOMAIN views' = DOMAIN views
  BY DEF Tops!Retire
<1>3. ASSUME NEW s \in DOMAIN views PROVE ViewSound(views'[s], s) /\ views'[s].session = views[s].session
  <2>1. PICK x : views'[s] = [views[s] EXCEPT !.live = x]
    BY DEF Tops!Retire
  <2>2. ViewSound(views[s], s)
    BY DEF TopInv, Displayed
  <2> QED
    BY <2>1, <2>2 DEF ViewSound, IsView
<1>4. Displayed(views, shown)'
  BY <1>1, <1>2, <1>3 DEF TopInv, Displayed
<1> QED
  BY <1>1, <1>4 DEF TopInv, Drawing, Framing

LEMMA ShowStep == ASSUME TopInv, NEW o \in Owners, NEW s \in Viewers, Tops!Show(o, s) PROVE TopInv'
<1> DEFINE new == [slot |-> s, connection |-> player[s], owner |-> o, session |-> FALSE,
                   page |-> Tops!NoPage, live |-> TRUE, pending |-> Nothing, picked |-> Nothing]
           kept == Tops!Kept(views) \ {s}
<1>1. /\ Tops!ScriptsRun /\ draw = Nothing
      /\ views' = [t \in kept \cup {s} |-> IF t = s THEN new ELSE views[t]]
      /\ draw' = Tops!StartDraw(new, Root, 0) /\ shown' = shown \ {s}
      /\ frame' = IF frame = Nothing THEN Nothing
                  ELSE [frame EXCEPT !.left = @ \cap kept, !.slot = IF @ \in kept THEN @ ELSE Nothing]
      /\ UNCHANGED <<objects, sequence, revision, tokens>>
  BY DEF Tops!Show, Tops!menu
<1>2. ViewSound(new, s) /\ new.slot = s
  BY DEF ViewSound, IsView
<1>3. kept \subseteq DOMAIN views /\ s \notin kept /\ \A t \in DOMAIN views : views[t].session /\ t # s => t \in kept
  BY DEF Tops!Kept
<1>4. Catalogue'
  BY <1>1, ObjectsStay DEF TopInv
<1> HIDE DEF new, kept
<1>5. /\ DOMAIN views' = kept \cup {s} /\ views'[s] = new
      /\ \A t \in kept : views'[t] = views[t]
  BY <1>1, <1>3
<1>6. Displayed(views, shown)'
  BY <1>1, <1>2, <1>3, <1>5 DEF TopInv, Displayed
<1>7. Drawing(views, draw)'
  BY <1>1, <1>2, <1>5, DrawStarts DEF Drawing
<1>8. Framing(views, draw, frame)'
  <2>1. CASE frame = Nothing
    BY <1>1, <2>1 DEF Framing
  <2>2. CASE frame # Nothing
    <3>1. IsFrame(frame) /\ frame.step # "next"
          /\ (frame.step = "asked" => frame.picked.object = frame.object /\ frame.picked.enabled)
      BY <1>1, <2>2 DEF TopInv, Framing, Tops!ScriptsRun
    <3>2. /\ IsFrame(frame') /\ frame'.step = frame.step /\ frame'.picked = frame.picked
          /\ frame'.object = frame.object /\ (frame'.slot # Nothing => frame'.slot \in kept)
      BY <1>1, <2>2, <3>1 DEF IsFrame
    <3> QED
      BY <1>5, <3>1, <3>2 DEF Framing
  <2> QED
    BY <2>1, <2>2
<1> QED
  BY <1>4, <1>6, <1>7, <1>8 DEF TopInv

\* A view ends, or is drawn again, by the hand of a script.
LEMMA LiveStep ==
    ASSUME TopInv, NEW s \in DOMAIN views, NEW x, views' = [views EXCEPT ![s].live = x],
           UNCHANGED <<shown, draw, frame>>, Catalogue'
    PROVE  TopInv'
BY ViewChanged, PlacesStay DEF TopInv

LEMMA RefreshStep == ASSUME TopInv, NEW s \in DOMAIN views, Tops!Refresh(s) PROVE TopInv'
<1>1. Catalogue' /\ UNCHANGED <<shown, frame>> /\ Tops!ScriptsRun
  BY ObjectsStay DEF Tops!Refresh, Tops!menu, TopInv
<1>2. CASE draw = Nothing
  <2>1. UNCHANGED views /\ IsDraw(draw') /\ draw'.slot = s
    BY <1>2, DrawStarts DEF Tops!Refresh, TopInv, Displayed, ViewSound
  <2>2. Framing(views, draw, frame)'
    BY <1>1, <2>1, FrameWaits DEF TopInv
  <2> QED
    BY <1>1, <2>1, <2>2 DEF TopInv, Drawing, Displayed
<1>3. CASE draw # Nothing
  BY <1>1, <1>3, LiveStep DEF Tops!Refresh
<1> QED
  BY <1>2, <1>3

LEMMA SelectStep == ASSUME TopInv, NEW s \in DOMAIN views, Tops!Select(s) PROVE TopInv'
<1>1. /\ Catalogue' /\ UNCHANGED <<draw, frame>> /\ shown' = shown \ {s} /\ draw = Nothing /\ frame = Nothing
  BY ObjectsStay DEF Tops!Select, Tops!menu, TopInv
<1>2. PICK n \in DOMAIN views[s].page.rows :
         views' = views \/ views' = [views EXCEPT ![s].pending = n, ![s].picked = views[s].page.rows[n]]
  BY DEF Tops!Select
<1>3. CASE views' = views
  BY <1>1, <1>3, WorldStep
<1>4. CASE views' = [views EXCEPT ![s].pending = n, ![s].picked = views[s].page.rows[n]]
  <2> DEFINE v == [views[s] EXCEPT !.pending = n, !.picked = views[s].page.rows[n]]
  <2>1. /\ DOMAIN views' = DOMAIN views /\ views'[s] = v
        /\ \A t \in DOMAIN views : t # s => views'[t] = views[t]
    BY <1>4
  <2>2. ViewSound(views[s], s)
    BY DEF TopInv, Displayed
  <2>3. ViewSound(v, s)
    BY <1>2, <2>2 DEF ViewSound, IsView
  <2> HIDE DEF v
  <2>4. Displayed(views, shown)'
    BY <1>1, <2>1, <2>3 DEF TopInv, Displayed
  <2> QED
    BY <1>1, <2>4 DEF TopInv, Drawing, Framing
<1> QED
  BY <1>2, <1>3, <1>4

LEMMA UnloadStep == ASSUME TopInv, Tops!PrepareExtensionUnload PROVE TopInv'
<1>1. Catalogue' /\ draw' = Nothing /\ frame' = Nothing
  BY ObjectsStay DEF Tops!PrepareExtensionUnload, Tops!menu, TopInv
<1>2. PICK closed \in SUBSET DOMAIN views :
        /\ shown' = shown \ closed
        /\ views' = IF closed = DOMAIN views THEN <<>>
                    ELSE [s \in DOMAIN views |-> [views[s] EXCEPT !.live = FALSE,
                              !.session = @ /\ s \notin closed]]
  BY DEF Tops!PrepareExtensionUnload
<1>3. CASE closed = DOMAIN views
  <2>1. shown' = {} /\ DOMAIN views' = {}
    BY <1>2, <1>3 DEF TopInv, Displayed
  <2> QED
    BY <1>1, <2>1 DEF TopInv, Displayed, Drawing, Framing
<1>4. CASE closed # DOMAIN views
  <2>1. DOMAIN views' = DOMAIN views
    BY <1>2, <1>4
  <2>2. ASSUME NEW s \in DOMAIN views
        PROVE  ViewSound(views'[s], s) /\ (views[s].session /\ s \notin closed => views'[s].session)
    <3>1. views'[s] = [views[s] EXCEPT !.live = FALSE, !.session = @ /\ s \notin closed]
      BY <1>2, <1>4
    <3>2. ViewSound(views[s], s)
      BY DEF TopInv, Displayed
    <3> QED
      BY <3>1, <3>2 DEF ViewSound, IsView
  <2>3. Displayed(views, shown)'
    BY <1>2, <2>1, <2>2 DEF TopInv, Displayed
  <2> QED
    BY <1>1, <2>3 DEF TopInv, Drawing, Framing
<1> QED
  BY <1>3, <1>4

\* A draw goes on or is given up.
LEMMA AskStep == ASSUME TopInv, Tops!Ask PROVE TopInv'
<1>1. Catalogue' /\ UNCHANGED <<views, shown, frame>> /\ draw # Nothing
  BY ObjectsStay DEF Tops!Ask, Tops!menu, TopInv
<1>2. IsDraw(draw') /\ draw'.slot = draw.slot
  BY <1>1 DEF Tops!Ask, TopInv, Drawing, IsDraw
<1>3. frame # Nothing => frame.step # "next"
  BY <1>1 DEF TopInv, Framing
<1> QED
  BY <1>1, <1>2, <1>3 DEF TopInv, Displayed, Drawing, Framing

LEMMA Abandoned ==
    ASSUME TopInv, NEW s \in DOMAIN views, Tops!Abandon(s), UNCHANGED <<shown, frame>>, Catalogue'
    PROVE  TopInv'
<1>1. Displayed(views, shown)' /\ DOMAIN views' = DOMAIN views /\ draw' = Nothing
  BY ViewChanged DEF Tops!Abandon, TopInv
<1> QED
  BY <1>1 DEF TopInv, Drawing, Framing

LEMMA AnswerStep == ASSUME TopInv, NEW result, Tops!Answer(result) PROVE TopInv'
<1> DEFINE i == draw.asked
           failed == result = "failed" /\ i \in DOMAIN objects
<1>1. /\ IF failed THEN Tops!CloseObjects({i}) ELSE UNCHANGED <<objects, sequence, revision, tokens>>
      /\ draw # Nothing /\ UNCHANGED <<shown, frame>>
  BY DEF Tops!Answer, Tops!menu
<1>2. Catalogue'
  BY <1>1, ObjectsClosed, ObjectsStay DEF TopInv
<1>3. CASE Tops!Abandon(draw.slot)
  BY <1>1, <1>2, <1>3, Abandoned DEF TopInv, Drawing
<1>4. CASE UNCHANGED views /\ \E x : draw' = [draw EXCEPT !.asked = Nothing, !.answers = x]
  <2>1. IsDraw(draw') /\ draw'.slot = draw.slot
    BY <1>1, <1>4 DEF TopInv, Drawing, IsDraw
  <2>2. frame # Nothing => frame.step # "next"
    BY <1>1 DEF TopInv, Framing
  <2> QED
    BY <1>1, <1>2, <1>4, <2>1, <2>2 DEF TopInv, Displayed, Drawing, Framing
<1> QED
  BY <1>3, <1>4 DEF Tops!Answer

LEMMA FinishStep == ASSUME TopInv, Tops!FinishDraw PROVE TopInv'
<1> DEFINE s == draw.slot
           new == Tops!Redrawn(views[s], Tops!Built(draw))
           ended == [new EXCEPT !.session = FALSE, !.live = FALSE]
<1>1. /\ draw # Nothing /\ UNCHANGED frame /\ Catalogue'
      /\ \/ views' = Tops!Put(views, s, new) /\ shown' = shown \cup {s} /\ draw' = Nothing
         \/ views' = Tops!Put(views, s, ended) /\ shown' = shown \ {s} /\ draw' = Nothing
         \/ Tops!Abandon(s) /\ UNCHANGED shown
  BY ObjectsStay DEF Tops!FinishDraw, Tops!menu, TopInv
<1>2. s \in DOMAIN views /\ ViewSound(views[s], s)
  BY <1>1 DEF TopInv, Drawing, Displayed
<1>3. ViewSound(new, s) /\ new.session /\ ViewSound(ended, s)
  <2>1. ViewSound(new, s) /\ new.session
    BY <1>2, ViewEdited
  <2> HIDE DEF new
  <2>2. ViewSound(ended, s)
    BY <2>1 DEF ViewSound, IsView
  <2> QED
    BY <2>1, <2>2
<1> HIDE DEF s, new, ended
<1>4. CASE Tops!Abandon(s) /\ UNCHANGED shown
  BY <1>1, <1>2, <1>4, Abandoned
<1>5. CASE ~(Tops!Abandon(s) /\ UNCHANGED shown)
  <2>1. Displayed(views, shown)' /\ DOMAIN views' = DOMAIN views
    <3>1. CASE views' = Tops!Put(views, s, new) /\ shown' = shown \cup {s}
      <4>1. Displayed(Tops!Put(views, s, new), shown \cup {s}) /\ DOMAIN Tops!Put(views, s, new) = DOMAIN views
        BY <1>2, <1>3, ViewReplaced DEF TopInv
      <4> QED
        BY <3>1, <4>1
    <3>2. CASE views' = Tops!Put(views, s, ended) /\ shown' = shown \ {s}
      <4>1. Displayed(Tops!Put(views, s, ended), shown \ {s}) /\ DOMAIN Tops!Put(views, s, ended) = DOMAIN views
        BY <1>2, <1>3, ViewReplaced DEF TopInv
      <4> QED
        BY <3>2, <4>1
    <3> QED
      BY <1>1, <1>5, <3>1, <3>2
  <2>2. draw' = Nothing
    BY <1>1, <1>5
  <2> QED
    BY <1>1, <2>1, <2>2 DEF TopInv, Drawing, Framing
<1> QED
  BY <1>4, <1>5

\* A frame begins, and turns to a view.
LEMMA FrameBeginsStep == ASSUME TopInv, Tops!FrameBegins PROVE TopInv'
<1>1. /\ Catalogue' /\ UNCHANGED <<views, shown, draw>> /\ draw = Nothing
      /\ frame' = [left |-> DOMAIN views, step |-> "next", slot |-> Nothing, object |-> Nothing,
                  picked |-> Nothing]
  BY ObjectsStay DEF Tops!FrameBegins, Tops!menu, TopInv
<1> QED
  BY <1>1 DEF TopInv, Displayed, Drawing, Framing, IsFrame

\* CloseView of a sound view.
LEMMA ViewClosed ==
    ASSUME TopInv, NEW s \in DOMAIN views, NEW v, ViewSound(v, s), v.session = views[s].session,
           Tops!CloseView(s, v)
    PROVE  Displayed(views, shown)' /\ DOMAIN views' = DOMAIN views
<1>1. CASE views' = Tops!Put(views, s, [v EXCEPT !.session = FALSE]) /\ shown' = shown \ {s}
  <2>1. ViewSound([v EXCEPT !.session = FALSE], s)
    BY ViewEdited
  <2>2. /\ Displayed(Tops!Put(views, s, [v EXCEPT !.session = FALSE]), shown \ {s})
        /\ DOMAIN Tops!Put(views, s, [v EXCEPT !.session = FALSE]) = DOMAIN views
    BY <2>1, ViewReplaced DEF TopInv
  <2> QED
    BY <1>1, <2>2
<1>2. CASE v.session /\ views' = Tops!Put(views, s, v) /\ UNCHANGED shown
  <2>1. Displayed(Tops!Put(views, s, v), shown) /\ DOMAIN Tops!Put(views, s, v) = DOMAIN views
    BY <1>2, ViewReplaced DEF TopInv
  <2> QED
    BY <1>2, <2>1
<1> QED
  BY <1>1, <1>2 DEF Tops!CloseView

\* A turn that is over at once, or that begins a draw or a question.
LEMMA TurnPassed ==
    ASSUME TopInv, NEW s, Tops!Turn(s), Tops!Passed(s), UNCHANGED draw, Catalogue',
           Displayed(views, shown)', DOMAIN views' = DOMAIN views
    PROVE  TopInv'
<1>1. /\ frame # Nothing /\ IsFrame(frame) /\ frame.step = "next" /\ draw = Nothing
      /\ frame.slot # Nothing => frame.slot \in DOMAIN views
  BY DEF Tops!Turn, TopInv, Framing
<1>2. IsFrame(frame') /\ frame'.step = "next" /\ frame'.slot = frame.slot
  BY <1>1 DEF Tops!Passed, IsFrame
<1> QED
  BY <1>1, <1>2 DEF TopInv, Drawing, Framing

LEMMA TurnDraws ==
    ASSUME TopInv, NEW s \in DOMAIN views, NEW v, ViewSound(v, s), NEW category, NEW page,
           Tops!DrawInTick(s, v, category, page), Catalogue',
           shown' = shown \ {s} \/ (shown' = shown /\ v = views[s])
    PROVE  TopInv'
<1>1. Displayed(views, shown)' /\ DOMAIN views' = DOMAIN views
  <2>1. views' = Tops!Put(views, s, v) /\ shown' \subseteq shown \cup {s}
    BY DEF Tops!DrawInTick
  <2>2. s \in shown' => v.session
    BY DEF TopInv, Displayed
  <2>3. Displayed(Tops!Put(views, s, v), shown') /\ DOMAIN Tops!Put(views, s, v) = DOMAIN views
    BY <2>1, <2>2, ViewReplaced DEF TopInv
  <2> QED
    BY <2>1, <2>3
<1>2. IsDraw(draw') /\ draw'.slot = s
  BY DrawStarts DEF Tops!DrawInTick, ViewSound
<1>3. IsFrame(frame') /\ frame'.step = "drawn" /\ frame'.slot = s
  BY DEF Tops!DrawInTick, Tops!Taken, IsFrame
<1> QED
  BY <1>1, <1>2, <1>3 DEF TopInv, Drawing, Framing

LEMMA TickStep ==
    ASSUME TopInv, NEW s \in DOMAIN views, Tops!TickOver(s) \/ Tops!TickStale(s) \/ Tops!TickIdle(s)
    PROVE  TopInv'
<1>1. Catalogue' /\ ViewSound(views[s], s) /\ Tops!Turn(s)
  BY ObjectsStay DEF Tops!TickOver, Tops!TickStale, Tops!TickIdle, Tops!menu, TopInv, Displayed
<1>2. CASE Tops!TickOver(s)
  <2> DEFINE v == [views[s] EXCEPT !.live = FALSE]
  <2>1. ViewSound(v, s) /\ v.session = views[s].session
    BY <1>1, ViewEdited DEF ViewSound, IsView
  <2>2. Tops!CloseView(s, v) /\ Tops!Passed(s) /\ UNCHANGED draw
    BY <1>2 DEF Tops!TickOver
  <2> HIDE DEF v
  <2> QED
    BY <1>1, <2>1, <2>2, ViewClosed, TurnPassed
<1>3. CASE Tops!TickStale(s)
  BY <1>1, <1>3, TurnDraws DEF Tops!TickStale
<1>4. CASE Tops!TickIdle(s)
  BY <1>1, <1>4, TurnPassed DEF Tops!TickIdle, TopInv, Displayed
<1> QED
  BY <1>2, <1>3, <1>4

LEMMA SelectedStep == ASSUME TopInv, NEW s \in DOMAIN views, Tops!TickSelected(s) PROVE TopInv'
<1> DEFINE v == [views[s] EXCEPT !.session = FALSE, !.pending = Nothing, !.picked = Nothing]
           ended == [v EXCEPT !.live = FALSE]
           row == v.page.rows[views[s].pending]
           entry == objects[row.object].entry
<1>1. /\ Catalogue' /\ ViewSound(views[s], s) /\ Tops!Turn(s) /\ shown' = shown \ {s}
      /\ views[s].pending # Nothing
  BY ObjectsStay DEF Tops!TickSelected, Tops!menu, TopInv, Displayed
<1>2. ViewSound(v, s) /\ row = views[s].picked
  <2>1. ViewSound(v, s)
    BY <1>1, ViewEdited
  <2>2. v.page = views[s].page
    BY <1>1 DEF ViewSound, IsView
  <2> QED
    BY <1>1, <2>1, <2>2 DEF ViewSound
<1>3. \/ views' = Tops!Put(views, s, ended) /\ Tops!Passed(s) /\ UNCHANGED draw
      \/ \E category, page : Tops!DrawInTick(s, v, category, page)
      \/ row.enabled /\ views' = Tops!Put(views, s, v) /\ Tops!Taken("asked", s, row.object) /\ UNCHANGED draw
  BY DEF Tops!TickSelected
<1> HIDE DEF v, row
<1>4. ViewSound(ended, s)
  BY <1>2, ViewEdited
<1> HIDE DEF ended
<1>5. \A w : ViewSound(w, s) => Displayed(Tops!Put(views, s, w), shown \ {s}) /\ DOMAIN Tops!Put(views, s, w) = DOMAIN views
  BY ViewReplaced DEF TopInv
<1>6. CASE views' = Tops!Put(views, s, ended) /\ Tops!Passed(s) /\ UNCHANGED draw
  <2>1. Displayed(views, shown)' /\ DOMAIN views' = DOMAIN views
    BY <1>1, <1>4, <1>5, <1>6
  <2> QED
    BY <1>1, <1>6, <2>1, TurnPassed
<1>7. CASE \E category, page : Tops!DrawInTick(s, v, category, page)
  <2>1. PICK category, page : Tops!DrawInTick(s, v, category, page)
    BY <1>7
  <2> QED
    BY <1>1, <1>2, <2>1, TurnDraws
<1>8. CASE row.enabled /\ views' = Tops!Put(views, s, v) /\ Tops!Taken("asked", s, row.object) /\ UNCHANGED draw
  <2>1. Displayed(views, shown)' /\ DOMAIN views' = DOMAIN views
    BY <1>1, <1>2, <1>5, <1>8
  <2>2. /\ IsFrame(frame') /\ frame'.step = "asked" /\ frame'.slot = s /\ frame'.object = row.object
        /\ frame'.picked = row
    BY <1>2, <1>8 DEF Tops!Taken, IsFrame
  <2>3. Framing(views, draw, frame)'
    BY <1>8, <2>1, <2>2 DEF Framing
  <2>4. draw = Nothing
    BY <1>1 DEF Tops!Turn, TopInv, Framing
  <2> QED
    BY <1>1, <1>8, <2>1, <2>3, <2>4 DEF TopInv, Drawing
<1> QED
  BY <1>3, <1>6, <1>7, <1>8

\* The item has answered, or its callback for the choice has returned.
LEMMA AskAnswersStep == ASSUME TopInv, NEW result, Tops!AskAnswers(result) PROVE TopInv'
<1> DEFINE i == frame.object
           failed == result = "failed" /\ i \in DOMAIN objects
           s == frame.slot
<1>1. /\ IF failed THEN Tops!CloseObjects({i}) ELSE UNCHANGED <<objects, sequence, revision, tokens>>
      /\ frame # Nothing /\ frame.step = "asked" /\ draw = Nothing /\ UNCHANGED shown
  BY DEF Tops!AskAnswers, Tops!menu
<1>2. Catalogue'
  BY <1>1, ObjectsClosed, ObjectsStay DEF TopInv
<1>3. IsFrame(frame) /\ (s # Nothing => s \in DOMAIN views /\ ViewSound(views[s], s))
  BY <1>1 DEF TopInv, Framing, Displayed
<1>4. \/ s # Nothing /\ Tops!DrawInTick(s, views[s], views[s].page.category, views[s].page.page)
      \/ /\ \/ s # Nothing /\ views' = [views EXCEPT ![s].live = FALSE]
            \/ views' = views
         /\ frame' = [frame EXCEPT !.step = "called"] \/ frame' = [frame EXCEPT !.step = "drawn"]
         /\ UNCHANGED draw
  BY <1>1 DEF Tops!AskAnswers, Tops!Held, Tops!View
<1> HIDE DEF s
<1>5. CASE s # Nothing /\ Tops!DrawInTick(s, views[s], views[s].page.category, views[s].page.page)
  <2>1. shown' = shown
    BY <1>1
  <2> QED
    BY <1>2, <1>3, <1>5, <2>1, TurnDraws
<1>6. CASE /\ \/ s # Nothing /\ views' = [views EXCEPT ![s].live = FALSE]
              \/ views' = views
           /\ frame' = [frame EXCEPT !.step = "called"] \/ frame' = [frame EXCEPT !.step = "drawn"]
           /\ UNCHANGED draw
  <2>1. Displayed(views, shown)' /\ DOMAIN views' = DOMAIN views
    <3>1. CASE s # Nothing /\ views' = [views EXCEPT ![s].live = FALSE]
      <4>1. /\ Displayed([views EXCEPT ![s].live = FALSE], shown)
            /\ DOMAIN [views EXCEPT ![s].live = FALSE] = DOMAIN views
        BY <1>3, <3>1, ViewChanged DEF TopInv
      <4> QED
        BY <1>1, <3>1, <4>1
    <3>2. CASE views' = views
      BY <1>1, <3>2 DEF TopInv, Displayed
    <3> QED
      BY <1>6, <3>1, <3>2
  <2>2. IsFrame(frame') /\ frame'.step \in {"called", "drawn"} /\ frame'.slot = s
    BY <1>3, <1>6 DEF IsFrame, s
  <2>3. Framing(views, draw, frame)'
    BY <1>3, <2>1, <2>2 DEF Framing
  <2> QED
    BY <1>1, <1>2, <1>6, <2>1, <2>3 DEF TopInv, Drawing
<1> QED
  BY <1>4, <1>5, <1>6

LEMMA CallReturnsStep == ASSUME TopInv, NEW broken \in BOOLEAN, Tops!CallReturns(broken) PROVE TopInv'
<1>1. /\ \/ Tops!CloseObjects({frame.object})
         \/ UNCHANGED <<objects, sequence, revision, tokens>>
      /\ frame # Nothing /\ frame' = [frame EXCEPT !.step = "drawn"]
      /\ UNCHANGED <<views, shown, draw>>
  BY DEF Tops!CallReturns, Tops!menu
<1>2. Catalogue'
  BY <1>1, ObjectsClosed, ObjectsStay DEF TopInv
<1>3. IsFrame(frame') /\ frame'.step = "drawn" /\ frame'.slot = frame.slot
  BY <1>1 DEF TopInv, Framing, IsFrame
<1> QED
  BY <1>1, <1>2, <1>3 DEF TopInv, Displayed, Drawing, Framing

LEMMA EndTickStep == ASSUME TopInv, Tops!EndTick PROVE TopInv'
<1>1. /\ Catalogue' /\ frame # Nothing /\ IsFrame(frame) /\ draw = Nothing /\ draw' = Nothing
      /\ frame' = [frame EXCEPT !.step = "next", !.slot = Nothing, !.object = Nothing, !.picked = Nothing]
      /\ \/ frame.slot # Nothing /\ Tops!CloseView(frame.slot, views[frame.slot])
         \/ UNCHANGED <<views, shown>>
  BY ObjectsStay DEF Tops!EndTick, Tops!Held, Tops!View, Tops!menu, TopInv, Framing
<1>2. Displayed(views, shown)' /\ DOMAIN views' = DOMAIN views
  <2>1. CASE frame.slot # Nothing /\ Tops!CloseView(frame.slot, views[frame.slot])
    <3>1. frame.slot \in DOMAIN views /\ ViewSound(views[frame.slot], frame.slot)
      BY <1>1, <2>1 DEF TopInv, Framing, Displayed
    <3> QED
      BY <2>1, <3>1, ViewClosed
  <2>2. CASE UNCHANGED <<views, shown>>
    BY <2>2 DEF TopInv, Displayed
  <2> QED
    BY <1>1, <2>1, <2>2
<1>3. IsFrame(frame') /\ frame'.step = "next" /\ frame'.slot = Nothing
  BY <1>1 DEF IsFrame
<1> QED
  BY <1>1, <1>2, <1>3 DEF TopInv, Drawing, Framing

LEMMA FrameEndsStep == ASSUME TopInv, Tops!FrameEnds PROVE TopInv'
<1>1. /\ Catalogue' /\ frame # Nothing /\ frame.step = "next" /\ frame' = Nothing
      /\ UNCHANGED <<shown, draw>> /\ views' = [s \in Tops!Kept(views) |-> views[s]]
  BY ObjectsStay DEF Tops!FrameEnds, Tops!menu, TopInv
<1>2. Tops!Kept(views) \subseteq DOMAIN views /\ \A s \in DOMAIN views : views[s].session => s \in Tops!Kept(views)
  BY DEF Tops!Kept
<1>3. DOMAIN views' = Tops!Kept(views) /\ \A s \in Tops!Kept(views) : views'[s] = views[s]
  BY <1>1
<1>4. Displayed(views, shown)'
  BY <1>1, <1>2, <1>3 DEF TopInv, Displayed
<1>5. draw' = Nothing
  BY <1>1 DEF TopInv, Framing
<1> QED
  BY <1>1, <1>4, <1>5 DEF TopInv, Drawing, Framing

LEMMA TopStep == TopInv /\ [Tops!Next]_(Tops!vars) => TopInv'
<1> SUFFICES ASSUME TopInv, [Tops!Next]_(Tops!vars) PROVE TopInv'
  OBVIOUS
<1>1. ASSUME NEW o \in Owners, Tops!Change(o) \/ Tops!SetStatus(o) PROVE TopInv'
  BY <1>1, ObjectsStay, WorldStep DEF Tops!Change, Tops!SetStatus, Tops!menu, TopInv
<1>2. ASSUME NEW i \in DOMAIN objects, Tops!CloseObject(i) PROVE TopInv'
  BY <1>2, ObjectsClosed, WorldStep DEF Tops!CloseObject, TopInv
<1>3. ASSUME NEW s \in DOMAIN views, Tops!ShowFails(s) \/ Tops!CloseDisplay(s) PROVE TopInv'
  BY <1>3, ObjectsStay, LiveStep DEF Tops!ShowFails, Tops!CloseDisplay, Tops!menu, TopInv
<1>4. ASSUME NEW s \in Viewers, Tops!SetPermission(s) \/ Tops!Reconnect(s) PROVE TopInv'
  BY <1>4, ObjectsStay, WorldStep DEF Tops!SetPermission, Tops!Reconnect, Tops!menu, TopInv
<1>5. CASE UNCHANGED Tops!vars
  BY <1>5, ObjectsStay, WorldStep DEF Tops!vars, TopInv
<1>6. ASSUME NEW o \in Owners,
             (\E entry \in Entries : Tops!Add(o, entry)) \/ Tops!Retire(o) \/ \E s \in Viewers : Tops!Show(o, s)
      PROVE  TopInv'
  BY <1>6, AddStep, RetireStep, ShowStep
<1>7. ASSUME NEW s \in DOMAIN views,
             \/ Tops!Refresh(s) \/ Tops!Select(s) \/ Tops!TickSelected(s)
             \/ Tops!TickOver(s) \/ Tops!TickStale(s) \/ Tops!TickIdle(s)
      PROVE  TopInv'
  BY <1>7, RefreshStep, SelectStep, SelectedStep, TickStep
<1>8. CASE Tops!Ask \/ Tops!FinishDraw \/ Tops!FrameBegins \/ Tops!EndTick \/ Tops!FrameEnds
  BY <1>8, AskStep, FinishStep, FrameBeginsStep, EndTickStep, FrameEndsStep
<1>9. CASE \E result \in Tops!Results : Tops!Answer(result) \/ Tops!AskAnswers(result)
  BY <1>9, AnswerStep, AskAnswersStep
<1> QED
  BY <1>1, <1>2, <1>3, <1>4, <1>5, <1>6, <1>7, <1>8, <1>9, CallReturnsStep, UnloadStep DEF Tops!Next

\* For any scripts, slots and entries, and any length of the menus: the host holds a
\* pointer only to a view that is kept, and a callback is retained exactly while its item
\* is registered (~Registration, CloseView, OnGameFrame).
THEOREM CallsAreKnown == TopSpec => []CalledIsKnown
<1>1. TopInv => CalledIsKnown
  BY DEF TopInv, Catalogue, Displayed, ViewSound, Drawing, CalledIsKnown, Tops!CalledIsKnown, Tops!SessionsBacked,
         Tops!TypeOK, Tops!TokensMatch
<1> QED
  BY <1>1, TopBegins, TopStep, PTL DEF TopSpec, Tops!Spec

\* Only an answer leads to the call for a choice.
LEMMA CallsFollowAnswers ==
    ASSUME TopInv, Tops!Next, frame' # Nothing, frame'.step = "called", frame = Nothing \/ frame.step # "called"
    PROVE  \E result \in Tops!Results : Tops!AskAnswers(result)
<1>1. frame # Nothing => IsFrame(frame)
  BY DEF TopInv, Framing
<1>2. frame' # frame
  OBVIOUS
<1>3. ASSUME NEW o \in Owners, NEW s \in Viewers, Tops!Show(o, s) PROVE FALSE
  <2>1. frame # Nothing /\ \E x, y : frame' = [frame EXCEPT !.left = x, !.slot = y]
    BY <1>3 DEF Tops!Show
  <2> QED
    BY <1>1, <2>1 DEF IsFrame
<1>4. ASSUME NEW s \in DOMAIN views,
             Tops!TickOver(s) \/ Tops!TickStale(s) \/ Tops!TickIdle(s) \/ Tops!TickSelected(s)
      PROVE  FALSE
  <2>1. frame # Nothing /\ frame.step = "next"
    BY <1>4 DEF Tops!TickOver, Tops!TickStale, Tops!TickIdle, Tops!TickSelected, Tops!Turn
  <2>2. Tops!Passed(s) \/ \E x : Tops!Taken("drawn", s, x) \/ Tops!Taken("asked", s, x)
    BY <1>4 DEF Tops!TickOver, Tops!TickStale, Tops!TickIdle, Tops!TickSelected, Tops!DrawInTick
  <2>3. CASE Tops!Passed(s)
    BY <1>1, <2>1, <2>3 DEF Tops!Passed, IsFrame
  <2>4. CASE \E x : Tops!Taken("drawn", s, x) \/ Tops!Taken("asked", s, x)
    BY <2>4 DEF Tops!Taken
  <2> QED
    BY <2>2, <2>3, <2>4
<1>5. ASSUME Tops!EndTick \/ Tops!FrameEnds \/ Tops!FrameBegins PROVE FALSE
  <2>1. CASE Tops!EndTick
    <3>1. /\ frame # Nothing
          /\ frame' = [frame EXCEPT !.step = "next", !.slot = Nothing, !.object = Nothing, !.picked = Nothing]
      BY <2>1 DEF Tops!EndTick
    <3>2. IsFrame(frame)
      BY <1>1, <3>1
    <3>3. frame'.step = "next"
      BY <3>1, <3>2 DEF IsFrame
    <3> QED
      BY <1>1, <3>3
  <2>2. CASE Tops!FrameEnds
    BY <1>1, <2>2 DEF Tops!FrameEnds
  <2>3. CASE Tops!FrameBegins
    <3>1. frame' = [left |-> DOMAIN views, step |-> "next", slot |-> Nothing, object |-> Nothing, picked |-> Nothing]
      BY <2>3 DEF Tops!FrameBegins
    <3> QED
      BY <1>1, <3>1
  <2> QED
    BY <1>5, <2>1, <2>2, <2>3
<1>6. ASSUME NEW broken \in BOOLEAN, Tops!CallReturns(broken) PROVE FALSE
  BY <1>1, <1>6 DEF Tops!CallReturns, IsFrame
<1>7. ASSUME NEW result \in Tops!Results, Tops!Answer(result) PROVE FALSE
  BY <1>2, <1>7 DEF Tops!Answer
<1>8. ASSUME Tops!Ask \/ Tops!FinishDraw \/ Tops!PrepareExtensionUnload PROVE FALSE
  BY <1>2, <1>8 DEF Tops!Ask, Tops!FinishDraw, Tops!PrepareExtensionUnload
<1>9. ASSUME NEW o \in Owners,
             (\E entry \in Entries : Tops!Add(o, entry)) \/ Tops!Change(o) \/ Tops!SetStatus(o) \/ Tops!Retire(o)
      PROVE  FALSE
  BY <1>2, <1>9 DEF Tops!Add, Tops!Change, Tops!SetStatus, Tops!Retire
<1>10. ASSUME NEW s \in DOMAIN views,
              Tops!ShowFails(s) \/ Tops!Refresh(s) \/ Tops!CloseDisplay(s) \/ Tops!Select(s)
       PROVE  FALSE
  BY <1>2, <1>10 DEF Tops!ShowFails, Tops!Refresh, Tops!CloseDisplay, Tops!Select
<1>11. ASSUME NEW s \in Viewers, Tops!SetPermission(s) \/ Tops!Reconnect(s) PROVE FALSE
  BY <1>2, <1>11 DEF Tops!SetPermission, Tops!Reconnect
<1>12. ASSUME NEW i \in DOMAIN objects, Tops!CloseObject(i) PROVE FALSE
  BY <1>2, <1>12 DEF Tops!CloseObject
<1> QED
  BY <1>3, <1>4, <1>5, <1>6, <1>7, <1>8, <1>9, <1>10, <1>11, <1>12 DEF Tops!Next

\* For the same values: what is called for a choice is the enabled item of the row that
\* the player chose, on a page of the menu as it is now, and the player is still the one
\* who may use it (Tick, after the item was asked again).
THEOREM ChoicesAreSeen == TopSpec => ChosenIsSeen
<1>1. ASSUME TopInv, Tops!Next, frame' # Nothing, frame'.step = "called", frame = Nothing \/ frame.step # "called"
      PROVE  LET view == views[frame'.slot]
             IN  /\ frame.picked.object = frame'.object /\ frame.picked.enabled
                 /\ player[view.slot] = view.connection
                 /\ Tops!Permitted(frame'.object, view)
                 /\ view.page.revision = revision
  <2>1. PICK result \in Tops!Results : Tops!AskAnswers(result)
    BY <1>1, CallsFollowAnswers
  <2>2. /\ frame # Nothing /\ frame.step = "asked" /\ IsFrame(frame)
        /\ frame.picked.object = frame.object /\ frame.picked.enabled
    BY <1>1, <2>1 DEF Tops!AskAnswers, TopInv, Framing
  <2>3. /\ Tops!Permitted(frame.object, views[frame.slot]) /\ views[frame.slot].page.revision = revision
        /\ frame' = [frame EXCEPT !.step = "called"]
    BY <1>1, <2>1, <2>2 DEF Tops!AskAnswers, Tops!DrawInTick, Tops!Taken, Tops!View, IsFrame
  <2>4. frame'.slot = frame.slot /\ frame'.object = frame.object
    BY <2>2, <2>3 DEF IsFrame
  <2>5. player[views[frame.slot].slot] = views[frame.slot].connection
    BY <2>3 DEF Tops!Permitted, Tops!Allowed
  <2> QED
    BY <2>2, <2>3, <2>4, <2>5
<1>2. TopInv /\ [Tops!Next]_(Tops!vars) =>
        [(frame' # Nothing /\ frame'.step = "called") /\ (frame = Nothing \/ frame.step # "called") =>
           LET view == views[frame'.slot]
           IN  /\ frame.picked.object = frame'.object /\ frame.picked.enabled
               /\ player[view.slot] = view.connection
               /\ Tops!Permitted(frame'.object, view)
               /\ view.page.revision = revision]_(Tops!vars)
  BY <1>1
<1> QED
  BY <1>2, TopBegins, TopStep, PTL DEF TopSpec, Tops!Spec, ChosenIsSeen, Tops!ChosenIsSeen
=============================================================================
