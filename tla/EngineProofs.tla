---------------------------- MODULE EngineProofs ----------------------------
(***************************************************************************)
(* Proofs about the components that act on the engine and its players.     *)
(* Voice: what is owed to the game is kept, and a mute holds, for any      *)
(* slots, scripts and number of connections.  Hooks: what a callback or a  *)
(* call comes back to is there, for any scripts, functions, registrations  *)
(* and prepared calls, and any limits on depth.  Authority: who is kicked  *)
(* was meant and may be, for any files, accounts and players.              *)
(***************************************************************************)
EXTENDS Voice, MCHooks, SequenceTheorems, TLAPS

-----------------------------------------------------------------------------
(* Voice: what a call keeps, of its view, at every step on its way.        *)

Typed(v) == v \in [owners : Mutes, pairs : [Keys -> Pair \cup {None}], listening : [Keys -> BOOLEAN]]

\* What the game last asked for is recorded, or the engine has it.
Recorded(v) ==
    \A k \in Keys : Connected(k) =>
        IF IsCurrent(k, v.pairs[k]) THEN v.pairs[k].requested = wanted[k] ELSE v.listening[k] = wanted[k]

\* A pair that is due has a script that answers for it.
IsDue(v, k) == IsCurrent(k, v.pairs[k]) /\ ~Muted(v, k[2], connection[k[2]])
Owed(v) ==
    \A k \in Keys : IsDue(v, k) => v.pairs[k].restore # None /\ script[v.pairs[k].restore] # "gone"

\* A script that is gone mutes nobody.
Silent(m) == \A o \in Owners : script[o] = "gone" => m[o] = NoMutes[o]

\* Pairs are of connections that exist or have ended, so that no later one is taken for
\* theirs.
Past(v) == \A k \in Keys : v.pairs[k] # None => v.pairs[k].rc <= joined /\ v.pairs[k].sc <= joined

Faithful(v) == Typed(v) /\ Recorded(v) /\ Past(v)
Good(v) == Faithful(v) /\ Owed(v) /\ Silent(v.owners)

\* The world that a call finds.
World ==
    /\ connection \in [Slots -> 0..joined] /\ joined \in 0..MaxConnections
    /\ wanted \in [Keys -> BOOLEAN]
    /\ script \in [Owners -> {"running", "retiring", "gone"}]

Asleep == suspended # None =>
    Silent(suspended) /\ owners = NoMutes /\ \A k \in Keys : pairs[k] = None

IInv == World /\ suspended \in Mutes \cup {None} /\ Good(View) /\ Asleep

-----------------------------------------------------------------------------
(* The parts of a call.                                                    *)

\* Keys are pairs of slots.
LEMMA KeysAreSlots ==
    ASSUME NEW k \in Keys
    PROVE  k[1] \in Slots /\ k[2] \in Slots /\ k[2] \in Senders
BY VoiceAssumption DEF Keys

\* A new pair is of the players that are connected.
LEMMA NewPairIsCurrent ==
    ASSUME World, NEW k \in Keys, Connected(k), NEW b \in BOOLEAN
    PROVE  /\ NewPair(k, b) \in Pair /\ NewPair(k, b) # None /\ IsCurrent(k, NewPair(k, b))
           /\ NewPair(k, b).requested = b
           /\ NewPair(k, b).rc <= joined /\ NewPair(k, b).sc <= joined
<1>1. connection[k[1]] \in Connections /\ connection[k[2]] \in Connections
  BY KeysAreSlots, VoiceAssumption DEF World, Connected, Connections
<1>2. NewPair(k, b) \in Pair
  BY <1>1 DEF NewPair, Pair
<1>3. connection[k[1]] \in 0..joined /\ connection[k[2]] \in 0..joined
  BY KeysAreSlots DEF World
<1> QED
  BY <1>2, <1>3, NoneAssumption DEF NewPair, IsCurrent, World

\* Apply, for players who are muted: nothing that was asked for is lost, no mute is
\* touched and nobody is heard who was not.
LEMMA Applied ==
    ASSUME World, NEW v, Good(v), NEW S, NEW sure \in BOOLEAN, NEW r \in Apply(v, S, sure),
           \A s \in S \cap Senders : connection[s] # 0 => Muted(v, s, connection[s])
    PROVE  /\ Good(r.view) /\ r.view.owners = v.owners
           /\ \A k \in Keys : r.view.listening[k] => v.listening[k]
<1>1. PICK recorded \in SUBSET Receivers(S), written \in SUBSET Receivers(S) :
        written \subseteq recorded /\ r = Restriction(v, S, recorded, written)
  BY DEF Apply, Reached, ToWrite
<1>2. /\ r.view.owners = v.owners
      /\ r.view.pairs = [k \in Keys |-> IF k \in recorded /\ ~IsCurrent(k, v.pairs[k])
                                        THEN NewPair(k, v.listening[k]) ELSE v.pairs[k]]
      /\ r.view.listening = [k \in Keys |-> v.listening[k] /\ k \notin written]
      /\ r.view = [owners |-> r.view.owners, pairs |-> r.view.pairs, listening |-> r.view.listening]
  BY <1>1 DEF Good, Faithful, Typed, Restriction
<1>3. \A k \in recorded : /\ k \in Keys /\ Connected(k)
                          /\ Muted(v, k[2], connection[k[2]]) /\ v.listening[k] \in BOOLEAN
  BY <1>1, KeysAreSlots DEF Receivers, Connected, Good, Faithful, Typed
<1>4. r.view.pairs \in [Keys -> Pair \cup {None}]
  BY <1>2, <1>3, NewPairIsCurrent DEF Good, Faithful, Typed
<1>5. Typed(r.view)
  <2>2. r.view.owners \in Mutes /\ r.view.listening \in [Keys -> BOOLEAN]
    BY <1>2 DEF Good, Faithful, Typed
  <2> QED
    BY <1>2, <1>4, <2>2 DEF Typed
<1>6. ASSUME NEW k \in Keys, Connected(k)
      PROVE  IF IsCurrent(k, r.view.pairs[k]) THEN r.view.pairs[k].requested = wanted[k]
                                              ELSE r.view.listening[k] = wanted[k]
  <2>1. CASE k \in recorded /\ ~IsCurrent(k, v.pairs[k])
    BY <1>2, <1>3, <1>6, <2>1, NewPairIsCurrent DEF Good, Faithful, Recorded
  <2>2. CASE IsCurrent(k, v.pairs[k])
    BY <1>2, <1>6, <2>2 DEF Good, Faithful, Recorded
  <2>3. CASE k \notin recorded /\ ~IsCurrent(k, v.pairs[k])
    BY <1>1, <1>2, <1>6, <2>3 DEF Good, Faithful, Recorded, Typed
  <2> QED
    BY <2>1, <2>2, <2>3
<1>7. Owed(r.view)
  BY <1>2, <1>3 DEF Good, Faithful, Owed, IsDue, Muted
<1>8. Past(r.view)
  BY <1>2, <1>3, NewPairIsCurrent DEF Good, Faithful, Past
<1> QED
  BY <1>2, <1>5, <1>6, <1>7, <1>8 DEF Good, Faithful, Recorded

\* Restore: the game gets back what it asked for, at every pair that is given up, and
\* nobody is heard who is muted.  When it succeeds nothing of P is left that is due.
LEMMA Restored ==
    ASSUME World, NEW v, Faithful(v), NEW P, NEW sure \in BOOLEAN, NEW r \in Restore(v, sure, P)
    PROVE  /\ Faithful(r.view) /\ r.view.owners = v.owners
           /\ Good(v) => Good(r.view)
           /\ \A k \in Keys : r.view.pairs[k] \in {v.pairs[k], None}
           /\ \A k \in Keys : r.view.listening[k] /\ ~v.listening[k] => ~Muted(v, k[2], connection[k[2]])
           /\ r.ok => \A k \in Keys \cap P : r.view.pairs[k] # None =>
                          Muted(v, k[2], r.view.pairs[k].sc)
<1> DEFINE due == {k \in Keys : k \in P /\ MayRestore(v, k)}
<1>1. PICK done \in SUBSET due : r = Restoration(v, due, done)
  BY DEF Restore, Reached
<1>2. /\ r.view.owners = v.owners
      /\ r.view.pairs = [k \in Keys |-> IF k \in done THEN None ELSE v.pairs[k]]
      /\ r.view.listening = [k \in Keys |-> IF k \in done /\ IsCurrent(k, v.pairs[k])
                                            THEN v.pairs[k].requested ELSE v.listening[k]]
      /\ r.view = [owners |-> r.view.owners, pairs |-> r.view.pairs, listening |-> r.view.listening]
      /\ r.ok = (done = due)
  BY <1>1 DEF Faithful, Typed, Restoration
<1>3. Typed(r.view)
  <2>2. r.view.owners \in Mutes /\ r.view.pairs \in [Keys -> Pair \cup {None}]
    BY <1>2 DEF Faithful, Typed
  <2>3. \A k \in Keys : IsCurrent(k, v.pairs[k]) => v.pairs[k].requested \in BOOLEAN
    BY DEF Faithful, Typed, Pair, IsCurrent
  <2>4. r.view.listening \in [Keys -> BOOLEAN]
    BY <1>2, <2>3 DEF Faithful, Typed
  <2> QED
    BY <1>2, <2>2, <2>4 DEF Typed
<1>4. Recorded(r.view)
  BY <1>2 DEF Faithful, Recorded, IsCurrent
<1>5. Owed(v) => Owed(r.view)
  BY <1>2 DEF Owed, IsDue, IsCurrent, Muted
<1>6. Past(r.view)
  BY <1>2 DEF Faithful, Past
<1>7. \A k \in Keys : r.view.listening[k] /\ ~v.listening[k] => ~Muted(v, k[2], connection[k[2]])
  BY <1>2 DEF MayRestore, IsCurrent
<1>8. ASSUME r.ok, NEW k \in Keys \cap P, r.view.pairs[k] # None
      PROVE  Muted(v, k[2], r.view.pairs[k].sc)
  BY <1>1, <1>2, <1>8 DEF MayRestore
<1> QED
  BY <1>2, <1>3, <1>4, <1>5, <1>6, <1>7, <1>8 DEF Good, Faithful

\* Refresh: mutes of players who have gone are dropped, no other is, and none begins.
LEMMA RefreshKeeps ==
    ASSUME World, NEW v, Good(v), NEW sure \in BOOLEAN, NEW r \in Refreshed(v, sure)
    PROVE  /\ Good(r.view)
           /\ \A s \in Senders : Muted(r.view, s, connection[s]) <=> Muted(v, s, connection[s])
           /\ \A k \in Keys : r.view.listening[k] /\ ~v.listening[k] => ~Muted(v, k[2], connection[k[2]])
<1>1. PICK unknown \in SUBSET Mutings(v) :
        r \in UNION {Reapplied(q, v, unknown, sure) : q \in Restore(Kept(v, unknown), sure, Keys)}
  BY DEF Refreshed
<1> DEFINE w == Kept(v, unknown)
           muted == {e[2] : e \in InForce(v) \ unknown}
<1>2. PICK q \in Restore(Kept(v, unknown), sure, Keys) : r \in Reapplied(q, v, unknown, sure)
  BY <1>1, ZenonT(30)
<1>3. PICK a \in Apply(q.view, muted, sure) : r = [ok |-> unknown = {} /\ q.ok /\ a.ok, view |-> a.view]
  BY <1>2, Zenon DEF Reapplied
<1>4. r.view = a.view
  BY <1>3
<1> DEFINE left == [o \in Owners |-> [s \in Senders |->
                      IF <<o, s>> \in InForce(v) \cup unknown THEN v.owners[o][s] ELSE 0]]
<1>5. w = [v EXCEPT !.owners = left]
  BY DEF Kept
<1>6. /\ w.owners = left /\ w.pairs = v.pairs /\ w.listening = v.listening
      /\ w = [owners |-> w.owners, pairs |-> w.pairs, listening |-> w.listening]
  <2> HIDE DEF left, w
  <2> QED
    BY <1>5 DEF Good, Faithful, Typed
<1>7. /\ w.owners = [o \in Owners |-> [s \in Senders |->
                         IF <<o, s>> \in InForce(v) \cup unknown THEN v.owners[o][s] ELSE 0]]
      /\ w.pairs = v.pairs /\ w.listening = v.listening
      /\ w = [owners |-> w.owners, pairs |-> w.pairs, listening |-> w.listening]
  BY <1>6
<1>8. \A s \in Senders : Muted(w, s, connection[s]) <=> Muted(v, s, connection[s])
  <2>1. \A o \in Owners, s \in Senders : connection[s] # 0 /\ v.owners[o][s] = connection[s] => <<o, s>> \in InForce(v)
    BY DEF InForce, Mutings
  <2>2. \A o \in Owners, s \in Senders : w.owners[o][s] \in {0, v.owners[o][s]}
    BY <1>7
  <2>3. \A o \in Owners, s \in Senders : <<o, s>> \in InForce(v) => w.owners[o][s] = v.owners[o][s]
    BY <1>7
  <2> QED
    BY <2>1, <2>2, <2>3 DEF Muted
<1>9. Good(w)
  <2>1. w.owners \in Mutes
    BY <1>7, VoiceAssumption DEF Good, Faithful, Typed, Mutes
  <2>2. Typed(w)
    BY <1>7, <2>1 DEF Good, Faithful, Typed
  <2>3. \A o \in Owners : script[o] = "gone" => w.owners[o] = NoMutes[o]
    <3>1. \A o \in Owners : script[o] = "gone" => \A s \in Senders : v.owners[o][s] = 0
      BY DEF Good, Faithful, Silent, NoMutes
    <3>2. \A o \in Owners : script[o] = "gone" => w.owners[o] = [s \in Senders |-> 0]
      BY <1>7, <3>1
    <3> QED
      BY <1>7, <3>2 DEF NoMutes
  <2>4. Owed(w)
    BY <1>7, <1>8, KeysAreSlots DEF Good, Faithful, Owed, IsDue
  <2>5. Recorded(w) /\ Past(w)
    BY <1>7 DEF Good, Faithful, Recorded, Past
  <2> QED
    BY <2>2, <2>3, <2>4, <2>5 DEF Good, Faithful, Silent
<1>10. /\ Good(q.view) /\ q.view.owners = w.owners
      /\ \A k \in Keys : q.view.listening[k] /\ ~w.listening[k] => ~Muted(w, k[2], connection[k[2]])
  BY <1>9, Restored DEF Good
<1>11. \A s \in muted \cap Senders : connection[s] # 0 => Muted(q.view, s, connection[s])
  <2>1. ASSUME NEW s \in muted \cap Senders, connection[s] # 0
        PROVE  Muted(v, s, connection[s])
    BY <2>1 DEF Muted, InForce, Mutings
  <2> QED
    BY <1>8, <1>10, <2>1 DEF Muted
<1>12. /\ Good(a.view) /\ a.view.owners = q.view.owners
      /\ \A k \in Keys : a.view.listening[k] => q.view.listening[k]
  BY <1>10, <1>11, Applied
<1>13. \A s \in Senders : Muted(a.view, s, connection[s]) <=> Muted(w, s, connection[s])
  BY <1>10, <1>12 DEF Muted
<1>14. \A k \in Keys : a.view.listening[k] /\ ~v.listening[k] => ~Muted(v, k[2], connection[k[2]])
  BY <1>7, <1>8, <1>10, <1>12, KeysAreSlots
<1> QED
  BY <1>4, <1>8, <1>12, <1>13, <1>14

\* A mute that ends hands its pairs over to a script that answers for them.
HandedOver(v, w, k) ==
    /\ v.pairs[k] # None
    /\ \E o \in Owners : script[o] # "gone" /\ w.pairs[k] = [v.pairs[k] EXCEPT !.restore = o]

\* A view stays good when what becomes due in it is handed over, and nothing else changes.
LEMMA HandingIsGood ==
    ASSUME World, NEW v, Good(v), NEW w,
           w = [owners |-> w.owners, pairs |-> w.pairs, listening |-> v.listening],
           w.owners \in Mutes, Silent(w.owners), w.pairs = [k \in Keys |-> w.pairs[k]],
           \A k \in Keys : w.pairs[k] = v.pairs[k] \/ HandedOver(v, w, k),
           \A k \in Keys : IsDue(w, k) => IsDue(v, k) \/ HandedOver(v, w, k)
    PROVE  Good(w)
<1>1. ASSUME NEW k \in Keys, HandedOver(v, w, k)
      PROVE  /\ v.pairs[k] \in Pair /\ w.pairs[k] \in Pair
             /\ w.pairs[k].rc = v.pairs[k].rc /\ w.pairs[k].sc = v.pairs[k].sc
             /\ w.pairs[k].requested = v.pairs[k].requested
             /\ w.pairs[k].restore # None /\ script[w.pairs[k].restore] # "gone"
  <2>1. PICK o \in Owners : script[o] # "gone" /\ w.pairs[k] = [v.pairs[k] EXCEPT !.restore = o]
    BY <1>1 DEF HandedOver
  <2>2. v.pairs[k] \in Pair
    BY <1>1 DEF HandedOver, Good, Faithful, Typed
  <2> QED
    BY <2>1, <2>2, VoiceAssumption DEF Pair
<1>2. w.listening = v.listening
  OBVIOUS
<1>3. w.pairs \in [Keys -> Pair \cup {None}]
  BY <1>1 DEF Good, Faithful, Typed
<1>4. Typed(w)
  BY <1>3 DEF Good, Faithful, Typed
<1>5. \A k \in Keys : IsCurrent(k, w.pairs[k]) <=> IsCurrent(k, v.pairs[k])
  BY <1>1, NoneAssumption DEF IsCurrent
<1>6. Recorded(w)
  BY <1>1, <1>2, <1>5 DEF Good, Faithful, Recorded
<1>7. Owed(w)
  BY <1>1 DEF Good, Faithful, Owed
<1>8. Past(w)
  BY <1>1, NoneAssumption DEF Good, Faithful, Past
<1> QED
  BY <1>4, <1>6, <1>7, <1>8 DEF Good, Faithful

\* A call that ends in a good view leaves a good state.  A script that is gone then
\* answers for nothing.
LEMMA BecomesReleased ==
    ASSUME NEW w, Good(w), Become(w), UNCHANGED world,
           \A p \in Owners : script'[p] = "gone" =>
              \/ script[p] = "gone"
              \/ w.owners[p] = NoMutes[p] /\ \A k \in Keys : IsDue(w, k) => w.pairs[k].restore # p
    PROVE  Good(View)'
<1>1. View' = w
  BY DEF View, Become, Good, Faithful, Typed
<1>2. \A k : Connected(k)' = Connected(k) /\ \A x : IsCurrent(k, x)' = IsCurrent(k, x)
  BY DEF Connected, IsCurrent, world
<1>3. Recorded(w)' /\ Past(w)' /\ Typed(w)'
  BY <1>2 DEF Good, Faithful, Recorded, Past, Typed, world
<1>4. Silent(w.owners)'
  BY DEF Good, Silent
<1>5. \A k : IsDue(w, k)' = IsDue(w, k)
  BY DEF IsDue, IsCurrent, Muted, world
<1>6. ASSUME NEW k \in Keys, IsDue(w, k)
      PROVE  w.pairs[k].restore # None /\ script'[w.pairs[k].restore] # "gone"
  <2>1. w.pairs[k] \in Pair
    BY <1>6 DEF IsDue, IsCurrent, Good, Faithful, Typed
  <2>2. w.pairs[k].restore # None /\ script[w.pairs[k].restore] # "gone"
    BY <1>6 DEF Good, Owed
  <2> QED
    BY <1>6, <2>1, <2>2 DEF Pair
<1> QED
  BY <1>1, <1>3, <1>4, <1>5, <1>6 DEF Good, Faithful, Owed

\* The same where no script is released.
LEMMA Becomes ==
    ASSUME NEW w, Good(w), Become(w), UNCHANGED <<world, script>>
    PROVE  Good(View)'
BY BecomesReleased

-----------------------------------------------------------------------------
(* The steps.                                                              *)

\* No receiver begins to hear a player who is muted before and after the step.
Stays(k) == Connected(k) /\ connection'[k[1]] = connection[k[1]] /\ connection'[k[2]] = connection[k[2]]
Unheard ==
    \A k \in Keys : Stays(k) /\ MutedNow(k[2]) /\ MutedNow(k[2])' /\ listening'[k] => listening[k]

\* A restoration makes nobody heard whom the view it starts from mutes.
LEMMA RestoredUnheard ==
    ASSUME World, NEW v, Faithful(v), v.listening = listening, NEW P,
           NEW r \in Restore(v, FALSE, P), Become(r.view), UNCHANGED connection
    PROVE  Unheard
<1>1. /\ r.view.owners = v.owners
      /\ \A k \in Keys : r.view.listening[k] /\ ~v.listening[k] => ~Muted(v, k[2], connection[k[2]])
  BY Restored
<1>2. \A t : MutedNow(t)' <=> Muted(v, t, connection[t])
  BY <1>1 DEF MutedNow, Muted, Become, View
<1> QED
  BY <1>1, <1>2 DEF Unheard, Become

\* Set(..., true) changes no other mute, and every pair of the player is recorded first.
LEMMA MuteKeeps ==
    ASSUME IInv, NEW o \in Owners, NEW s \in Senders, Mute(o, s)
    PROVE  IInv' /\ Unheard
<1> DEFINE v == [View EXCEPT !.owners[o][s] = connection[s]]
           m == [owners EXCEPT ![o][s] = connection[s]]
<1>1. owners \in Mutes /\ s \in Slots /\ connection[s] \in 1..MaxConnections
  BY VoiceAssumption DEF IInv, World, Good, Faithful, Typed, View, Mute
<1>2. v.owners = m /\ v.pairs = pairs /\ v.listening = listening
      /\ v = [owners |-> v.owners, pairs |-> v.pairs, listening |-> View.listening]
  BY DEF View
<1>3. m \in Mutes
  BY <1>1 DEF Mutes
<1>4. \A t, c : Muted(View, t, c) /\ t \in Senders => Muted(v, t, c) \/ (t = s /\ c # connection[s])
  BY <1>1, <1>2 DEF Muted, View, Mutes
<1>5. Silent(m)
  BY <1>1 DEF IInv, Good, Faithful, Silent, View, Mute, Mutes
<1>6. Good(v)
  <2>1. \A k \in Keys : IsDue(v, k) => IsDue(View, k)
    BY <1>2, <1>4, KeysAreSlots DEF IsDue, View
  <2>2. pairs = [k \in Keys |-> pairs[k]]
    BY DEF IInv, Good, Faithful, Typed, View
  <2>3. \A k \in Keys : v.pairs[k] = View.pairs[k]
    BY <1>2 DEF View
  <2> HIDE DEF v, m
  <2> QED
    BY <1>2, <1>3, <1>5, <2>1, <2>2, <2>3, HandingIsGood DEF IInv
<1>7. \A t \in {s} \cap Senders : connection[t] # 0 => Muted(v, t, connection[t])
  <2>1. m[o][s] = connection[s] /\ connection[s] # 0
    BY <1>1 DEF Mutes
  <2> HIDE DEF v, m
  <2> QED
    BY <1>2, <2>1 DEF Muted
<1>8. PICK r \in Apply(v, {s}, FALSE) : Become(r.view)
  BY DEF Mute
<1>9. Good(View)'
  <2>1. UNCHANGED <<world, script>>
    BY DEF Mute
  <2> HIDE DEF v
  <2> QED
    BY <1>6, <1>7, <1>8, <2>1, Applied, Becomes DEF IInv
<1>10. Unheard
  <2> HIDE DEF v
  <2> QED
    BY <1>2, <1>6, <1>7, <1>8, Applied DEF Unheard, Become, IInv
<1> QED
  BY <1>9, <1>10 DEF IInv, World, Asleep, Mute, Awake, world

\* Set(..., false) hands the pairs of the player to o, who is running, unless another
\* script still mutes him.
LEMMA UnmuteKeeps ==
    ASSUME IInv, NEW o \in Owners, NEW s \in Senders, Unmute(o, s)
    PROVE  IInv' /\ Unheard
<1> DEFINE c == connection[s]
           u == [View EXCEPT !.owners[o][s] = 0]
           m == [owners EXCEPT ![o][s] = 0]
           given == [k \in Keys |-> IF k[2] = s /\ pairs[k] # None /\ pairs[k].sc = c
                                    THEN [pairs[k] EXCEPT !.restore = o] ELSE pairs[k]]
           v == Removed(u, o, s, c)
           P == {k \in OwedBy(v, o) : k[2] = s /\ v.pairs[k].sc = c}
<1>1. owners \in Mutes /\ pairs \in [Keys -> Pair \cup {None}] /\ s \in Slots /\ c # 0
  BY VoiceAssumption DEF IInv, World, Good, Faithful, Typed, View, Unmute
<1>2. u = [owners |-> m, pairs |-> pairs, listening |-> listening]
  BY DEF View
<1>3. v = IF Muted(u, s, c) THEN u ELSE [u EXCEPT !.pairs = given]
  BY <1>2 DEF Removed
<1>4. /\ v.owners = m /\ v.listening = listening
      /\ v.pairs = IF Muted(u, s, c) THEN pairs ELSE given
      /\ v = [owners |-> v.owners, pairs |-> v.pairs, listening |-> View.listening]
  <2> HIDE DEF u, v, given, m
  <2> QED
    BY <1>2, <1>3 DEF View
<1>5. m \in Mutes
  BY <1>1, VoiceAssumption DEF Mutes
<1>6. Silent(m)
  BY <1>1 DEF IInv, Good, Faithful, Silent, View, Unmute, Mutes
<1>7. \A t \in Senders : \A d : Muted(View, t, d) => Muted(u, t, d) \/ t = s
  <2>1. \A p \in Owners, t \in Senders : t # s => m[p][t] = owners[p][t]
    BY <1>1 DEF Mutes
  <2> HIDE DEF u, m
  <2> QED
    BY <1>2, <2>1 DEF Muted, View
<1>8. ASSUME NEW k \in Keys
      PROVE  v.pairs[k] = View.pairs[k] \/ HandedOver(View, v, k)
  <2>1. script[o] # "gone" /\ View.pairs = pairs
    BY DEF Unmute, View
  <2> HIDE DEF u, v, m, c
  <2> QED
    BY <1>4, <2>1 DEF HandedOver
<1>9. ASSUME NEW k \in Keys, IsDue(v, k), ~IsDue(View, k)
      PROVE  HandedOver(View, v, k)
  <2>1. v.pairs[k] = View.pairs[k] \/ HandedOver(View, v, k)
    BY <1>8
  <2>2. CASE v.pairs[k] = View.pairs[k]
    <3>1. IsCurrent(k, pairs[k]) /\ Muted(View, k[2], connection[k[2]])
      BY <1>9, <2>2 DEF IsDue, View
    <3>2. ~Muted(u, k[2], connection[k[2]])
      <4>1. v.owners = u.owners
        BY <1>2, <1>4
      <4>2. ~Muted(v, k[2], connection[k[2]])
        BY <1>9 DEF IsDue
      <4> HIDE DEF u, v
      <4> QED
        BY <4>1, <4>2 DEF Muted
    <3>3. k[2] = s
      BY <1>7, <3>1, <3>2, KeysAreSlots
    <3>4. ~Muted(u, s, c) /\ pairs[k] # None /\ pairs[k].sc = c
      BY <3>1, <3>2, <3>3 DEF IsCurrent
    <3>5. v.pairs = given
      BY <1>4, <3>4
    <3>6. v.pairs[k] = [pairs[k] EXCEPT !.restore = o]
      BY <3>3, <3>4, <3>5
    <3>7. script[o] # "gone" /\ View.pairs = pairs
      BY DEF Unmute, View
    <3> HIDE DEF v
    <3> QED
      BY <3>4, <3>6, <3>7 DEF HandedOver
  <2> QED
    BY <2>1, <2>2
<1>10. Good(v)
  <2>1. v.pairs = [k \in Keys |-> v.pairs[k]]
    BY <1>1, <1>4
  <2> HIDE DEF u, v, m
  <2> QED
    BY <1>4, <1>5, <1>6, <1>8, <1>9, <2>1, HandingIsGood DEF IInv
<1>11. PICK r \in Restore(v, FALSE, P) : Become(r.view)
  BY DEF Unmute
<1>12. Good(View)'
  <2>1. UNCHANGED <<world, script>>
    BY DEF Unmute
  <2> HIDE DEF v, P
  <2> QED
    BY <1>10, <1>11, <2>1, Restored, Becomes DEF IInv, Good
<1>13. Unheard
  <2>1. UNCHANGED connection /\ v.listening = listening /\ Faithful(v)
    BY <1>4, <1>10 DEF Unmute, world, View, Good
  <2> HIDE DEF v, P
  <2> QED
    BY <1>11, <2>1, RestoredUnheard DEF IInv
<1> QED
  BY <1>12, <1>13 DEF IInv, World, Asleep, Unmute, Awake, world

\* Release: the mutes of S go, and their pairs to scripts of S that are not gone.
LEMMA ForgottenIsGood ==
    ASSUME World, NEW u, Good(u), NEW S \in SUBSET Owners, NEW v \in Forgotten(u, S)
    PROVE  /\ Good(v) /\ v.listening = u.listening
           /\ v.owners = [o \in Owners |-> IF o \in S THEN NoMutes[o] ELSE u.owners[o]]
           /\ \A k \in Keys : u.pairs[k] = None => v.pairs[k] = None
<1> DEFINE m == [o \in Owners |-> IF o \in S THEN NoMutes[o] ELSE u.owners[o]]
           x == Without(u, S)
<1>1. PICK last \in [Keys -> Owners] :
        /\ \A k \in Keys : Muters(u, S, k) # {} => last[k] \in Muters(u, S, k)
        /\ v = [x EXCEPT !.pairs = Handing(u, S, last)]
  BY DEF Forgotten
<1>2. x = [owners |-> m, pairs |-> u.pairs, listening |-> u.listening]
  BY DEF Without, Good, Faithful, Typed
<1>3. /\ v.owners = m /\ v.pairs = Handing(u, S, last) /\ v.listening = u.listening
      /\ v = [owners |-> v.owners, pairs |-> v.pairs, listening |-> u.listening]
  <2> HIDE DEF x, m
  <2> QED
    BY <1>1, <1>2
<1>4. m \in Mutes /\ Silent(m)
  <2>1. NoMutes \in Mutes
    BY VoiceAssumption DEF NoMutes, Mutes
  <2> QED
    BY <2>1 DEF Good, Faithful, Typed, Mutes, Silent
<1>5. \A k \in Keys : u.pairs[k] \in Pair \cup {None}
  BY DEF Good, Faithful, Typed
<1>6. \A k \in Keys : \A o \in Muters(u, S, k) :
        o \in Owners /\ script[o] # "gone" /\ u.pairs[k] # None
  <2> SUFFICES ASSUME NEW k \in Keys, NEW o \in Muters(u, S, k)
               PROVE  o \in Owners /\ script[o] # "gone" /\ u.pairs[k] # None
    OBVIOUS
  <2>1. o \in Owners /\ u.pairs[k] # None /\ u.owners[o][k[2]] = u.pairs[k].sc
    BY DEF Muters
  <2>2. u.pairs[k].sc # 0
    BY <1>5, <2>1, VoiceAssumption DEF Pair, Connections
  <2>3. NoMutes[o][k[2]] = 0
    BY <2>1, KeysAreSlots DEF NoMutes
  <2> QED
    BY <2>1, <2>2, <2>3 DEF Good, Faithful, Silent
<1>7. ASSUME NEW k \in Keys
      PROVE  v.pairs[k] = IF Muters(u, S, k) # {} /\ ~Muted(x, k[2], u.pairs[k].sc)
                          THEN [u.pairs[k] EXCEPT !.restore = last[k]] ELSE u.pairs[k]
  <2>1. v.pairs[k] = IF Muters(u, S, k) # {} THEN Removed(x, last[k], k[2], u.pairs[k].sc).pairs[k]
                     ELSE u.pairs[k]
    BY <1>3 DEF Handing
  <2>2. ASSUME u.pairs[k] # None
        PROVE  Removed(x, last[k], k[2], u.pairs[k].sc).pairs[k]
                 = IF Muted(x, k[2], u.pairs[k].sc) THEN u.pairs[k]
                   ELSE [u.pairs[k] EXCEPT !.restore = last[k]]
    <3>1. x.pairs = u.pairs
      BY <1>2
    <3>2. Removed(x, last[k], k[2], u.pairs[k].sc)
            = IF Muted(x, k[2], u.pairs[k].sc) THEN x
              ELSE [x EXCEPT !.pairs = [j \in Keys |->
                     IF j[2] = k[2] /\ u.pairs[j] # None /\ u.pairs[j].sc = u.pairs[k].sc
                     THEN [u.pairs[j] EXCEPT !.restore = last[k]] ELSE u.pairs[j]]]
      BY <3>1 DEF Removed
    <3> DEFINE g == [j \in Keys |->
                     IF j[2] = k[2] /\ u.pairs[j] # None /\ u.pairs[j].sc = u.pairs[k].sc
                     THEN [u.pairs[j] EXCEPT !.restore = last[k]] ELSE u.pairs[j]]
    <3>3. g[k] = [u.pairs[k] EXCEPT !.restore = last[k]]
      BY <2>2
    <3>4. [x EXCEPT !.pairs = g].pairs = g
      <4> HIDE DEF g, x, m
      <4> QED
        BY <1>2
    <3> HIDE DEF g, x
    <3> QED
      BY <3>1, <3>2, <3>3, <3>4 DEF g
  <2> HIDE DEF x
  <2> QED
    BY <1>6, <2>1, <2>2
<1>8. ASSUME NEW k \in Keys
      PROVE  v.pairs[k] = u.pairs[k] \/ HandedOver(u, v, k)
  <2> HIDE DEF x
  <2> QED
    BY <1>1, <1>6, <1>7 DEF HandedOver
<1>9. ASSUME NEW k \in Keys, IsDue(v, k)
      PROVE  IsDue(u, k) \/ HandedOver(u, v, k)
  <2>1. CASE v.pairs[k] # u.pairs[k]
    BY <1>8, <2>1
  <2>2. CASE v.pairs[k] = u.pairs[k] /\ ~IsDue(u, k)
    <3>1. IsCurrent(k, u.pairs[k]) /\ Muted(u, k[2], connection[k[2]])
      BY <1>9, <2>2 DEF IsDue
    <3>2. u.pairs[k] # None /\ u.pairs[k].sc = connection[k[2]]
      BY <3>1 DEF IsCurrent
    <3>3. ~Muted(x, k[2], u.pairs[k].sc)
      BY <1>2, <1>3, <1>9, <3>2 DEF IsDue, Muted
    <3>4. Muters(u, S, k) # {}
      BY <1>2, <3>1, <3>2, <3>3 DEF Muted, Muters
    <3>5. v.pairs[k] = [u.pairs[k] EXCEPT !.restore = last[k]]
      <4> HIDE DEF x
      <4> QED
        BY <1>7, <3>3, <3>4
    <3> QED
      BY <1>1, <1>6, <3>2, <3>4, <3>5 DEF HandedOver
  <2> QED
    BY <2>1, <2>2
<1>10. Good(v)
  <2>1. v.pairs = [k \in Keys |-> v.pairs[k]]
    BY <1>3 DEF Handing
  <2> HIDE DEF m, x
  <2> QED
    BY <1>3, <1>4, <1>8, <1>9, <2>1, HandingIsGood
<1> QED
  BY <1>3, <1>8, <1>10 DEF HandedOver

\* A script is gone after its release only when nothing that is due is left for it.
LEMMA ReleaseKeeps ==
    ASSUME IInv, NEW o \in Owners, Release(o)
    PROVE  IInv' /\ Unheard
<1>1. PICK v \in Forgotten(View, {o}) : \E r \in Restore(v, FALSE, OwedBy(v, o)) :
        /\ Become(r.view)
        /\ \/ script' = [script EXCEPT ![o] = "retiring"]
           \/ r.ok /\ script' = [script EXCEPT ![o] = "gone"]
  BY DEF Release
<1>2. PICK r \in Restore(v, FALSE, OwedBy(v, o)) :
        /\ Become(r.view)
        /\ \/ script' = [script EXCEPT ![o] = "retiring"]
           \/ r.ok /\ script' = [script EXCEPT ![o] = "gone"]
  BY <1>1
<1>3. /\ Good(v)
      /\ v.owners = [p \in Owners |-> IF p \in {o} THEN NoMutes[p] ELSE owners[p]]
      /\ \A k \in Keys : pairs[k] = None => v.pairs[k] = None
  BY ForgottenIsGood DEF IInv, View
<1>4. /\ Good(r.view) /\ r.view.owners = v.owners
      /\ \A k \in Keys : r.view.pairs[k] \in {v.pairs[k], None}
      /\ r.ok => \A k \in Keys \cap OwedBy(v, o) : r.view.pairs[k] # None =>
                     Muted(v, k[2], r.view.pairs[k].sc)
  BY <1>3, Restored DEF IInv, Good
<1>5. ASSUME NEW p \in Owners, script'[p] = "gone", script[p] # "gone"
      PROVE  /\ r.view.owners[p] = NoMutes[p]
             /\ \A k \in Keys : IsDue(r.view, k) => r.view.pairs[k].restore # p
  <2>1. p = o /\ r.ok
    BY <1>2, <1>5 DEF IInv, World
  <2>2. ASSUME NEW k \in Keys, IsDue(r.view, k), r.view.pairs[k].restore = o
        PROVE  FALSE
    <3>1. r.view.pairs[k] # None /\ r.view.pairs[k] = v.pairs[k] /\ r.view.pairs[k].sc = connection[k[2]]
      BY <1>4, <2>2 DEF IsDue, IsCurrent
    <3>2. Muted(v, k[2], connection[k[2]])
      BY <1>4, <2>1, <2>2, <3>1 DEF OwedBy
    <3> QED
      BY <1>4, <2>2, <3>2 DEF IsDue, Muted
  <2> QED
    BY <1>3, <1>4, <2>1, <2>2
<1>6. Good(View)'
  <2>1. UNCHANGED world
    BY DEF Release
  <2> QED
    BY <1>2, <1>4, <1>5, <2>1, BecomesReleased
<1>7. World'
  BY <1>2 DEF IInv, World, Release, world
<1>8. suspended' \in Mutes \cup {None}
  <2>1. NoMutes \in Mutes
    BY VoiceAssumption DEF NoMutes, Mutes
  <2> QED
    BY <2>1 DEF IInv, Release, Mutes
<1>9. ASSUME suspended' # None
      PROVE  Silent(suspended)' /\ owners' = NoMutes /\ \A k \in Keys : pairs'[k] = None
  <2>1. /\ suspended # None /\ suspended' = [suspended EXCEPT ![o] = NoMutes[o]]
        /\ suspended \in [Owners -> [Senders -> 0..MaxConnections]]
    BY <1>9 DEF Release, IInv, Mutes
  <2>2. Silent(suspended) /\ owners = NoMutes /\ \A k \in Keys : pairs[k] = None
    BY <2>1 DEF IInv, Asleep
  <2>3. Silent(suspended)'
    BY <1>2, <2>1, <2>2 DEF Silent, IInv, World
  <2>4. v.owners = NoMutes
    BY <1>3, <2>2 DEF NoMutes
  <2>5. r.view.owners = owners' /\ r.view.pairs = pairs'
    BY <1>2 DEF Become
  <2> QED
    BY <1>3, <1>4, <2>2, <2>3, <2>4, <2>5
<1>10. Unheard
  <2>1. UNCHANGED connection /\ v.listening = listening /\ Faithful(v)
    BY <1>3, ForgottenIsGood DEF Release, world, IInv, View, Good
  <2> QED
    BY <1>2, <2>1, RestoredUnheard DEF IInv
<1> QED
  BY <1>6, <1>7, <1>8, <1>9, <1>10 DEF IInv, Asleep

\* After Release(0) nobody is muted, asleep or not.
LEMMA ReleaseAllKeeps ==
    ASSUME IInv, ReleaseAll
    PROVE  IInv' /\ Unheard
<1>1. PICK v \in Forgotten(View, Owners) : \E r \in Restore(v, FALSE, Keys) : Become(r.view)
  BY DEF ReleaseAll
<1>2. PICK r \in Restore(v, FALSE, Keys) : Become(r.view)
  BY <1>1
<1>3. Good(v) /\ v.listening = View.listening
  BY ForgottenIsGood DEF IInv
<1>4. Good(r.view)
  BY <1>3, Restored DEF IInv, Good
<1>5. UNCHANGED <<world, script>> /\ suspended' = None
  BY DEF ReleaseAll
<1>6. Good(View)'
  BY <1>2, <1>4, <1>5, Becomes
<1>7. Unheard
  <2>1. UNCHANGED connection /\ v.listening = listening /\ Faithful(v)
    BY <1>3 DEF ReleaseAll, world, View, Good
  <2> QED
    BY <1>2, <2>1, RestoredUnheard DEF IInv
<1> QED
  BY <1>5, <1>6, <1>7 DEF IInv, World, Asleep, world

\* Refresh keeps what a call keeps, and no player it leaves muted is heard again.
LEMMA RefreshKeepsAll ==
    ASSUME IInv, Refresh(FALSE)
    PROVE  IInv' /\ Unheard
<1>1. PICK r \in Refreshed(View, FALSE) : Become(r.view)
  BY DEF Refresh
<1>2. Good(r.view)
  BY RefreshKeeps DEF IInv
<1>3. UNCHANGED <<world, script, suspended>> /\ suspended = None
  BY DEF Refresh, Awake
<1>4. Good(View)'
  BY <1>1, <1>2, <1>3, Becomes
<1>5. Unheard
  BY <1>1, RefreshKeeps DEF Unheard, Become, IInv, View, MutedNow
<1> QED
  BY <1>3, <1>4, <1>5 DEF IInv, World, Asleep, world

\* Resume finds no mute and no pair, and puts the mutes of the pause back.
LEMMA ResumeKeeps ==
    ASSUME IInv, Resume
    PROVE  IInv' /\ Unheard
<1> DEFINE v == [View EXCEPT !.owners = suspended]
<1>1. PICK r \in Refreshed(v, FALSE) : Become(r.view)
  BY DEF Resume
<1>2. v = [owners |-> suspended, pairs |-> pairs, listening |-> listening]
  BY DEF View
<1>3. /\ suspended \in Mutes /\ Silent(suspended)
      /\ \A k \in Keys : pairs[k] = None
  BY DEF IInv, Asleep, Resume, Awake
<1>4. Good(v)
  <2>1. Faithful(v)
    BY <1>2, <1>3 DEF IInv, Good, Faithful, Typed, Recorded, Past, View
  <2>2. Owed(v)
    BY <1>2, <1>3 DEF Owed, IsDue, IsCurrent
  <2> QED
    BY <1>2, <1>3, <2>1, <2>2 DEF Good
<1>5. Good(r.view)
  BY <1>4, RefreshKeeps DEF IInv
<1>6. UNCHANGED <<world, script>> /\ suspended' = None
  BY DEF Resume
<1>7. Good(View)'
  BY <1>1, <1>5, <1>6, Becomes
<1>8. Unheard
  <2>1. \A s \in Senders : ~MutedNow(s)
    BY DEF IInv, Asleep, Resume, Awake, MutedNow, Muted, View, NoMutes
  <2> QED
    BY <2>1, KeysAreSlots DEF Unheard
<1> QED
  BY <1>6, <1>7, <1>8 DEF IInv, World, Asleep, world

\* Lifting every mute and putting them back leaves what is still recorded as it was.
LEMMA SuspendKeeps ==
    ASSUME IInv, Suspend
    PROVE  IInv'
<1>1. PICK r \in Restore(Lifted, FALSE, Keys) :
        \/ r.ok /\ Become(r.view) /\ suspended' = owners
        \/ /\ ~r.ok
           /\ \E q \in Refreshed([r.view EXCEPT !.owners = owners], FALSE) : Become(q.view)
           /\ UNCHANGED suspended
  BY DEF Suspend
<1>2. /\ Lifted = [owners |-> NoMutes, pairs |-> pairs, listening |-> listening]
      /\ NoMutes \in Mutes
  BY VoiceAssumption DEF Lifted, View, NoMutes, Mutes
<1>3. Faithful(Lifted)
  BY <1>2 DEF IInv, Good, Faithful, Typed, Recorded, Past, View
<1>4. /\ Faithful(r.view) /\ r.view.owners = NoMutes
      /\ \A k \in Keys : r.view.pairs[k] \in {pairs[k], None}
      /\ r.ok => \A k \in Keys : r.view.pairs[k] # None => Muted(Lifted, k[2], r.view.pairs[k].sc)
  <2>1. Lifted.owners = NoMutes /\ Lifted.pairs = pairs
    BY <1>2
  <2>2. /\ Faithful(r.view) /\ r.view.owners = Lifted.owners
        /\ \A k \in Keys : r.view.pairs[k] \in {Lifted.pairs[k], None}
        /\ r.ok => \A k \in Keys \cap Keys : r.view.pairs[k] # None =>
                       Muted(Lifted, k[2], r.view.pairs[k].sc)
    BY <1>3, Restored DEF IInv
  <2> QED
    BY <2>1, <2>2
<1>5. UNCHANGED <<world, script>> /\ suspended = None /\ owners \in Mutes
  BY DEF Suspend, Awake, IInv, Good, Faithful, Typed, View
<1>6. CASE r.ok /\ Become(r.view) /\ suspended' = owners
  <2>1. \A k \in Keys : ~Muted(Lifted, k[2], r.view.pairs[k].sc)
    <3>1. \A o \in Owners, s \in Senders : Lifted.owners[o][s] = 0
      BY <1>2 DEF NoMutes
    <3> QED
      BY <3>1, KeysAreSlots DEF Muted
  <2>2. \A k \in Keys : r.view.pairs[k] = None
    BY <1>4, <1>6, <2>1
  <2>3. Owed(r.view) /\ Silent(r.view.owners)
    BY <1>4, <2>2 DEF Owed, IsDue, IsCurrent, Silent
  <2>4. Good(View)'
    BY <1>4, <1>5, <1>6, <2>3, Becomes DEF Good
  <2>5. Silent(suspended)'
    BY <1>5, <1>6 DEF Silent, IInv, Good, View
  <2>6. owners' = NoMutes /\ \A k \in Keys : pairs'[k] = None
    BY <1>4, <1>6, <2>2 DEF Become
  <2> QED
    BY <1>5, <1>6, <2>4, <2>5, <2>6 DEF IInv, World, Asleep, world
<1>7. CASE ~r.ok /\ UNCHANGED suspended
           /\ \E q \in Refreshed([r.view EXCEPT !.owners = owners], FALSE) : Become(q.view)
  <2> DEFINE v == [r.view EXCEPT !.owners = owners]
  <2>1. v = [owners |-> owners, pairs |-> r.view.pairs, listening |-> r.view.listening]
    BY <1>4 DEF Faithful, Typed
  <2>2. Good(v)
    <3>1. Faithful(v)
      BY <1>4, <1>5, <2>1 DEF Faithful, Typed, Recorded, Past
    <3>2. \A k \in Keys : IsDue(v, k) => IsDue(View, k) /\ v.pairs[k] = View.pairs[k]
      BY <1>4, <2>1 DEF IsDue, IsCurrent, Muted, View
    <3>3. Owed(v) /\ Silent(v.owners)
      BY <2>1, <3>2 DEF IInv, Good, Owed, View
    <3> QED
      BY <3>1, <3>3 DEF Good
  <2>3. PICK q \in Refreshed(v, FALSE) : Become(q.view)
    BY <1>7
  <2>4. Good(q.view)
    BY <2>2, RefreshKeeps DEF IInv
  <2>5. Good(View)'
    BY <1>5, <2>3, <2>4, Becomes
  <2> QED
    BY <1>5, <1>7, <2>5 DEF IInv, World, Asleep, world
<1> QED
  BY <1>1, <1>6, <1>7

\* Filter records what the game asks for wherever the engine does not get it.
LEMMA FilterKeeps ==
    ASSUME IInv, NEW k \in Keys, NEW asked \in BOOLEAN, Filter(k, asked)
    PROVE  IInv' /\ Unheard
<1> DEFINE muted == Muted(View, k[2], connection[k[2]])
           pair == [NewPair(k, asked) EXCEPT
                       !.restore = IF IsCurrent(k, pairs[k]) THEN pairs[k].restore ELSE None]
<1>1. /\ Connected(k) /\ UNCHANGED <<connection, joined, script, owners, suspended>>
      /\ wanted' = [wanted EXCEPT ![k] = asked]
      /\ listening' = [listening EXCEPT ![k] = asked /\ ~muted]
      /\ pairs' = IF muted \/ IsCurrent(k, pairs[k]) THEN [pairs EXCEPT ![k] = pair] ELSE pairs
  BY DEF Filter, Filtered
<1>2. /\ pairs \in [Keys -> Pair \cup {None}] /\ listening \in [Keys -> BOOLEAN]
      /\ wanted \in [Keys -> BOOLEAN] /\ owners \in Mutes
  BY DEF IInv, World, Good, Faithful, Typed, View
<1>3. /\ pair \in Pair /\ pair # None /\ IsCurrent(k, pair) /\ pair.requested = asked
      /\ pair.rc <= joined /\ pair.sc <= joined
      /\ pair.restore = IF IsCurrent(k, pairs[k]) THEN pairs[k].restore ELSE None
  <2>1. /\ NewPair(k, asked) \in Pair /\ IsCurrent(k, NewPair(k, asked))
        /\ NewPair(k, asked).requested = asked
        /\ NewPair(k, asked).rc <= joined /\ NewPair(k, asked).sc <= joined
    BY <1>1, NewPairIsCurrent DEF IInv
  <2>2. IsCurrent(k, pairs[k]) => pairs[k].restore \in Owners \cup {None}
    BY <1>2 DEF IsCurrent, Pair
  <2>3. pair \in Pair
    BY <2>1, <2>2 DEF Pair
  <2>4. pair.rc = NewPair(k, asked).rc /\ pair.sc = NewPair(k, asked).sc
        /\ pair.requested = NewPair(k, asked).requested
        /\ pair.restore = IF IsCurrent(k, pairs[k]) THEN pairs[k].restore ELSE None
    BY <2>1 DEF Pair
  <2> HIDE DEF pair
  <2> QED
    BY <2>1, <2>3, <2>4, NoneAssumption DEF IsCurrent
<1>4. \A j : Connected(j)' = Connected(j) /\ \A x : IsCurrent(j, x)' = IsCurrent(j, x)
  BY <1>1 DEF Connected, IsCurrent
<1>5. \A s, c : Muted(View, s, c)' = Muted(View, s, c)
  BY <1>1 DEF Muted, View
<1> HIDE DEF muted, pair
<1>6. World' /\ Typed(View)'
  BY <1>1, <1>2, <1>3 DEF IInv, World, Typed, View
<1>7. Recorded(View)'
  <2>1. ASSUME NEW j \in Keys, Connected(j)
        PROVE  IF IsCurrent(j, pairs'[j]) THEN pairs'[j].requested = wanted'[j]
                                          ELSE listening'[j] = wanted'[j]
    <3>1. CASE j # k
      BY <1>1, <1>2, <2>1, <3>1 DEF IInv, Good, Faithful, Recorded, View
    <3>2. CASE j = k
      BY <1>1, <1>2, <1>3, <2>1, <3>2
    <3> QED
      BY <3>1, <3>2
  <2> QED
    BY <1>4, <2>1 DEF Recorded, View
<1>8. Past(View)'
  BY <1>1, <1>2, <1>3 DEF IInv, Good, Faithful, Past, View
<1>9. Owed(View)' /\ Silent(View.owners)'
  <2>1. ASSUME NEW j \in Keys, IsDue(View, j)'
        PROVE  IsDue(View, j) /\ pairs'[j].restore = pairs[j].restore
    <3>1. IsCurrent(j, pairs'[j]) /\ ~Muted(View, j[2], connection[j[2]])
      BY <1>1, <1>4, <1>5, <2>1 DEF IsDue, View
    <3>2. CASE j # k
      BY <1>1, <1>2, <3>1, <3>2 DEF IsDue, View
    <3>3. CASE j = k
      <4>1. ~muted
        BY <3>1, <3>3 DEF muted
      <4>2. IsCurrent(k, pairs[k])
        BY <1>1, <3>1, <3>3, <4>1
      <4>3. pairs'[k].restore = pairs[k].restore
        BY <1>1, <1>2, <1>3, <4>2
      <4> QED
        BY <3>1, <3>3, <4>2, <4>3 DEF IsDue, View
    <3> QED
      BY <3>2, <3>3
  <2> QED
    BY <1>1, <2>1 DEF IInv, Good, Owed, Silent, View
<1>10. Asleep'
  <2>1. ASSUME suspended # None PROVE pairs' = pairs
    <3>1. owners = NoMutes /\ pairs[k] = None
      BY <2>1 DEF IInv, Asleep
    <3>2. ~muted
      BY <1>1, <3>1, KeysAreSlots DEF muted, Muted, View, NoMutes, Connected
    <3> QED
      BY <1>1, <3>1, <3>2 DEF IsCurrent
  <2> QED
    BY <1>1, <2>1 DEF IInv, Asleep, Silent
<1>11. Unheard
  BY <1>1, <1>2 DEF Unheard, MutedNow, muted
<1> QED
  BY <1>11, <1>1, <1>6, <1>7, <1>8, <1>9, <1>10 DEF IInv, Good, Faithful

\* What belongs to a connection that ended is not current: nothing of it is owed.
LEMMA DisconnectedKeeps ==
    ASSUME IInv, NEW s \in Slots, NEW c \in Connections, Disconnected(s, c)
    PROVE  IInv' /\ Unheard
<1> DEFINE Spared(m) == [o \in Owners |-> [t \in Senders |-> IF t = s /\ m[o][t] = c THEN 0 ELSE m[o][t]]]
           ended(k) == pairs[k] # None /\ ((k[1] = s /\ pairs[k].rc = c) \/ (k[2] = s /\ pairs[k].sc = c))
<1>1. /\ c # connection[s] /\ UNCHANGED <<connection, joined, wanted, listening, script>>
      /\ owners' = Spared(owners)
      /\ suspended' = IF suspended = None THEN None ELSE Spared(suspended)
      /\ pairs' = [k \in Keys |-> IF ended(k) THEN None ELSE pairs[k]]
  BY DEF Disconnected, world
<1>2. \A m \in Mutes : Spared(m) \in Mutes
  BY VoiceAssumption DEF Mutes
<1>3. \A m \in Mutes : Silent(m) => Silent(Spared(m))
  BY DEF Silent, Mutes, NoMutes
<1>4. /\ owners \in Mutes /\ pairs \in [Keys -> Pair \cup {None}] /\ listening \in [Keys -> BOOLEAN]
      /\ Silent(owners)
  BY DEF IInv, Good, Faithful, Typed, View
<1>5. \A k \in Keys : IsCurrent(k, pairs[k]) => pairs'[k] = pairs[k]
  BY <1>1 DEF IsCurrent
<1>6. \A t \in Senders : Muted(View, t, connection[t]) => Muted(View, t, connection[t])'
  <2>1. \A o \in Owners, t \in Senders :
          owners[o][t] = connection[t] /\ connection[t] # 0 => owners'[o][t] = connection[t]
    BY <1>1
  <2> HIDE DEF Spared
  <2> QED
    BY <1>1, <2>1 DEF Muted, View
<1>7. \A k \in Keys : pairs'[k] \in {pairs[k], None}
  BY <1>1
<1> HIDE DEF Spared, ended
<1>8. World' /\ Typed(View)' /\ Past(View)'
  BY <1>1, <1>2, <1>4, <1>7 DEF IInv, World, Typed, Past, Good, Faithful, View
<1>9. Recorded(View)'
  BY <1>1, <1>5, <1>7 DEF IInv, Good, Faithful, Recorded, IsCurrent, Connected, View
<1>10. Owed(View)' /\ Silent(View.owners)'
  <2>1. \A k \in Keys : IsDue(View, k)' => IsDue(View, k) /\ pairs'[k] = pairs[k]
    BY <1>1, <1>6, <1>7, KeysAreSlots DEF IsDue, IsCurrent, View
  <2>2. Owed(View)'
    BY <1>1, <2>1 DEF IInv, Good, Owed, View
  <2>3. Silent(owners')
    BY <1>1, <1>3, <1>4
  <2> QED
    BY <1>1, <2>2, <2>3 DEF Silent, View
<1>11. suspended' \in Mutes \cup {None} /\ Asleep'
  <2>1. CASE suspended = None
    BY <1>1, <2>1 DEF Asleep
  <2>2. CASE suspended # None
    <3>1. /\ suspended \in Mutes /\ Silent(suspended) /\ owners = NoMutes
          /\ \A k \in Keys : pairs[k] = None
      BY <2>2 DEF IInv, Asleep
    <3>2. Spared(NoMutes) = NoMutes
      BY DEF Spared, NoMutes
    <3>3. suspended' \in Mutes /\ Silent(suspended')
      BY <1>1, <1>2, <1>3, <2>2, <3>1
    <3>4. Silent(suspended)'
      BY <1>1, <3>3 DEF Silent
    <3> QED
      BY <1>1, <1>7, <3>1, <3>2, <3>3, <3>4 DEF Asleep
  <2> QED
    BY <2>1, <2>2
<1>12. Unheard
  BY <1>1 DEF Unheard
<1> QED
  BY <1>12, <1>8, <1>9, <1>10, <1>11 DEF IInv, Good, Faithful

\* A player who joins has a connection that no pair and no mute knows.
LEMMA JoinKeeps ==
    ASSUME IInv, NEW s \in Slots, Join(s)
    PROVE  IInv' /\ Unheard
<1>1. PICK b \in BOOLEAN :
        /\ listening' = [k \in Keys |-> IF Touches(k, s) THEN b ELSE listening[k]]
        /\ wanted' = [k \in Keys |-> IF Touches(k, s) THEN b ELSE wanted[k]]
  BY DEF Join
<1>2. /\ joined < MaxConnections /\ joined' = joined + 1
      /\ connection' = [connection EXCEPT ![s] = joined + 1]
      /\ UNCHANGED <<script, owners, suspended, pairs>>
      /\ connection \in [Slots -> 0..joined] /\ joined \in 0..MaxConnections /\ MaxConnections \in Nat
  BY VoiceAssumption DEF Join, IInv, World
<1>3. /\ pairs \in [Keys -> Pair \cup {None}] /\ listening \in [Keys -> BOOLEAN]
      /\ wanted \in [Keys -> BOOLEAN] /\ owners \in Mutes
  BY DEF IInv, World, Good, Faithful, Typed, View
<1>4. \A k \in Keys : pairs[k] # None =>
        pairs[k].rc \in Nat /\ pairs[k].sc \in Nat /\ pairs[k].rc <= joined /\ pairs[k].sc <= joined
  BY <1>3, VoiceAssumption DEF IInv, Good, Faithful, Past, View, Pair, Connections
<1>5. \A k \in Keys : Touches(k, s) => ~IsCurrent(k, pairs[k])'
  BY <1>2, <1>4, KeysAreSlots DEF Touches, IsCurrent
<1>6. \A k \in Keys : ~Touches(k, s) =>
        /\ connection'[k[1]] = connection[k[1]] /\ connection'[k[2]] = connection[k[2]]
        /\ listening'[k] = listening[k] /\ wanted'[k] = wanted[k]
  BY <1>1, <1>2, KeysAreSlots DEF Touches
<1>7. World'
  <2>1. connection' \in [Slots -> 0..joined'] /\ joined' \in 0..MaxConnections
    BY <1>2
  <2> QED
    BY <1>1, <1>2, <1>3, <2>1 DEF IInv, World
<1>8. Typed(View)' /\ Past(View)'
  <2>1. Typed(View)'
    BY <1>1, <1>2, <1>3 DEF Typed, View
  <2>2. \A k \in Keys : pairs[k] # None => pairs[k].rc <= joined' /\ pairs[k].sc <= joined'
    BY <1>2, <1>4
  <2> QED
    BY <1>2, <2>1, <2>2 DEF Past, View
<1>9. Recorded(View)'
  BY <1>1, <1>2, <1>3, <1>5, <1>6 DEF IInv, Good, Faithful, Recorded, View, Connected, IsCurrent
<1>10. Owed(View)'
  BY <1>2, <1>5, <1>6 DEF IInv, Good, Owed, IsDue, IsCurrent, Muted, View
<1>11. Unheard
  <2>1. \A k \in Keys : Touches(k, s) => ~Stays(k)
    BY <1>2, KeysAreSlots DEF Touches, Stays, Connected, Join
  <2> QED
    BY <1>6, <2>1 DEF Unheard
<1> QED
  BY <1>11, <1>2, <1>7, <1>8, <1>9, <1>10 DEF IInv, Good, Faithful, Silent, Asleep, View

\* Nothing is current of a player who has left.
LEMMA LeaveKeeps ==
    ASSUME IInv, NEW s \in Slots, Leave(s)
    PROVE  IInv' /\ Unheard
<1>1. /\ connection' = [connection EXCEPT ![s] = 0]
      /\ listening' = [k \in Keys |-> Touches(k, s) \/ listening[k]]
      /\ wanted' = [k \in Keys |-> Touches(k, s) \/ wanted[k]]
      /\ UNCHANGED <<joined, script, owners, suspended, pairs>>
  BY DEF Leave
<1>2. /\ pairs \in [Keys -> Pair \cup {None}] /\ listening \in [Keys -> BOOLEAN]
      /\ wanted \in [Keys -> BOOLEAN] /\ owners \in Mutes
      /\ connection \in [Slots -> 0..joined] /\ joined \in 0..MaxConnections
  BY DEF IInv, World, Good, Faithful, Typed, View
<1>3. \A k \in Keys : Touches(k, s) => ~Connected(k)' /\ ~IsCurrent(k, pairs[k])'
  <2>1. \A k \in Keys : pairs[k] # None => pairs[k].rc # 0 /\ pairs[k].sc # 0
    BY <1>2, VoiceAssumption DEF Pair, Connections
  <2> QED
    BY <1>1, <1>2, <2>1, KeysAreSlots DEF Touches, Connected, IsCurrent
<1>4. \A k \in Keys : ~Touches(k, s) =>
        /\ connection'[k[1]] = connection[k[1]] /\ connection'[k[2]] = connection[k[2]]
        /\ listening'[k] = listening[k] /\ wanted'[k] = wanted[k]
  BY <1>1, <1>2, KeysAreSlots DEF Touches
<1>5. World' /\ Typed(View)' /\ Past(View)'
  <2>1. connection' \in [Slots -> 0..joined']
    BY <1>1, <1>2, VoiceAssumption
  <2> QED
    BY <1>1, <1>2, <2>1 DEF IInv, World, Typed, Past, View, Good, Faithful
<1>6. Recorded(View)'
  BY <1>1, <1>3, <1>4 DEF IInv, Good, Faithful, Recorded, View, Connected, IsCurrent
<1>7. Owed(View)'
  BY <1>1, <1>3, <1>4 DEF IInv, Good, Owed, IsDue, IsCurrent, Muted, View
<1>8. Unheard
  BY <1>3, <1>4, KeysAreSlots DEF Unheard, Stays, Connected
<1> QED
  BY <1>8, <1>1, <1>5, <1>6, <1>7 DEF IInv, Good, Faithful, Silent, Asleep, View

-----------------------------------------------------------------------------
(* The specification.                                                      *)

\* Nobody is connected, nobody is muted and nothing is owed.
LEMMA InitKeeps ==
    ASSUME Init
    PROVE  IInv
<1>1. World
  BY VoiceAssumption DEF Init, World, Keys
<1>2. Typed(View) /\ Silent(owners)
  BY VoiceAssumption DEF Init, Typed, View, Mutes, NoMutes, Silent
<1>3. Recorded(View) /\ Past(View) /\ Owed(View)
  BY KeysAreSlots DEF Init, Recorded, Past, Owed, IsDue, IsCurrent, Connected, View
<1> QED
  BY <1>1, <1>2, <1>3 DEF Init, IInv, Good, Faithful, Asleep, View

\* A stuttering step keeps everything.
LEMMA StutterKeeps ==
    ASSUME IInv, UNCHANGED vars
    PROVE  IInv' /\ Unheard
<1>1. View' = View /\ UNCHANGED <<connection, joined, wanted, script, suspended, owners, pairs, listening>>
  BY DEF vars, View
<1>2. Good(View)'
  BY <1>1 DEF IInv, Good, Faithful, Owed, Silent, Typed, Recorded, Past, IsDue, IsCurrent, Muted, Connected
<1> QED
  BY <1>1, <1>2 DEF IInv, World, Asleep, Silent, Unheard

\* Every step keeps the invariant, and only Suspend lets a muted player be heard.
LEMMA StepKeeps ==
    ASSUME IInv, [Next]_vars
    PROVE  IInv' /\ (Unheard \/ Suspend)
<1>1. CASE \E o \in Owners : Release(o) \/ \E s \in Senders : Mute(o, s) \/ Unmute(o, s)
  BY <1>1, ReleaseKeeps, MuteKeeps, UnmuteKeeps
<1>2. CASE ReleaseAll \/ Refresh(FALSE) \/ Suspend \/ Resume
  BY <1>2, ReleaseAllKeeps, RefreshKeepsAll, SuspendKeeps, ResumeKeeps
<1>3. CASE \E k \in Keys, asked \in BOOLEAN : Filter(k, asked)
  BY <1>3, FilterKeeps
<1>4. CASE \E s \in Slots : Join(s) \/ Leave(s) \/ \E c \in Connections : Disconnected(s, c)
  BY <1>4, JoinKeeps, LeaveKeeps, DisconnectedKeeps
<1>5. CASE UNCHANGED vars
  BY <1>5, StutterKeeps
<1> QED
  BY <1>1, <1>2, <1>3, <1>4, <1>5 DEF Next

\* A state of the invariant loses nothing of what is owed.
LEMMA InvariantOwes ==
    ASSUME IInv
    PROVE  RestorationIsOwed
<1>1. TypeOK
  BY DEF TypeOK, IInv, World, Good, Faithful, Typed, Asleep, View
<1>2. RequestKept
  BY DEF RequestKept, IInv, Good, Faithful, Recorded, View
<1>3. AnsweredFor
  BY DEF AnsweredFor, IInv, Good, Owed, IsDue, Silent, MutedNow, View
<1> QED
  BY <1>1, <1>2, <1>3 DEF RestorationIsOwed

\* What the game last asked for is recorded until it is given back, and whoever has to
\* give it back is still there to do so: in every run, of any length, with any number of
\* players and scripts, whichever calls of the host fail.
THEOREM NothingOwedIsLost == Spec => []RestorationIsOwed
<1>1. Init => IInv
  BY InitKeeps
<1>2. IInv /\ [Next]_vars => IInv'
  BY StepKeeps
<1>3. IInv => RestorationIsOwed
  BY InvariantOwes
<1> QED
  BY <1>1, <1>2, <1>3, PTL DEF Spec

\* A muted player who is not heard by a receiver stays unheard while he is muted, by
\* whomever; the exception is a pause that is tried and refused.
THEOREM MutesHold == Spec => MuteHolds
<1>1. Init => IInv
  BY InitKeeps
<1>2. IInv /\ [Next]_vars => IInv'
  BY StepKeeps
<1>3. IInv /\ [Next]_vars =>
        [\A k \in Keys :
          /\ MutedNow(k[2]) /\ MutedNow(k[2])' /\ ~listening[k] /\ listening'[k]
          /\ Connected(k) /\ connection'[k[1]] = connection[k[1]] /\ connection'[k[2]] = connection[k[2]]
          => Suspend]_vars
  BY StepKeeps DEF Unheard, Stays
<1> QED
  BY <1>1, <1>2, <1>3, PTL DEF Spec, MuteHolds

-----------------------------------------------------------------------------
(* Hooks: the invariant.                                                   *)

Registrations == [target : Targets, owner : Plugins, closing : BOOLEAN, enabled : BOOLEAN]
CallStates ==
    [target : Targets, owner : Plugins, open : BOOLEAN, busy : BOOLEAN, ready : BOOLEAN,
     intact : BOOLEAN]

\* What is on the stack: no function ever has other arguments than those it was given.
Phases == {"pre", "original", "post"}
Entry ==
    [kind : {"callback"}, reg : RegIds]
    \cup [kind : {"function"}, target : Targets, phase : Phases, done : SUBSET RegIds,
          call : CallIds \cup {Nothing}, arguments : {Dhooks!OwnArguments}]

IsFunction(e) == e.kind = "function"
IsCallback(e) == e.kind = "callback"
IsCall(e) == IsFunction(e) /\ e.call # Nothing

\* The prepared call of an entry is there, busy, and has the buffers that it passed.
Executed(e, cs) ==
    /\ e.call \in DOMAIN cs
    /\ cs[e.call].busy /\ cs[e.call].intact /\ cs[e.call].target = e.target

\* A callback lies on the function it was called for and has its registration; a function
\* that a prepared call executes has the State, which is executed once at a time.
StackOK(s, rs, cs) ==
    /\ s \in Seq(Entry)
    /\ \A n \in 1..Len(s) :
          IsCallback(s[n]) => n > 1 /\ IsFunction(s[n - 1]) /\ s[n].reg \in DOMAIN rs
    /\ \A n \in 1..Len(s) : IsCall(s[n]) => Executed(s[n], cs)
    /\ \A m, n \in 1..Len(s) : IsCall(s[m]) /\ IsCall(s[n]) /\ s[m].call = s[n].call => m = n

\* The maps hold records of their kinds, and the host has the registrations of the service.
Records ==
    /\ Dhooks!TypeOK
    /\ native = DOMAIN regs /\ \A r \in DOMAIN regs : regs[r] \in Registrations
    /\ \A c \in DOMAIN calls : calls[c] \in CallStates
    /\ opened \subseteq Plugins \X Targets

\* Whatever speaks of a target keeps its lease.
Leases ==
    /\ leased = targets /\ (~loaded => targets = {})
    /\ \A r \in DOMAIN regs : regs[r].target \in targets
    /\ \A c \in DOMAIN calls : calls[c].target \in targets
    /\ \A p \in opened : p[2] \in targets

HInv == Records /\ Leases /\ StackOK(stack, regs, calls)

-----------------------------------------------------------------------------
(* The stack.                                                              *)

\* An entry is a callback or a function, and its fields are what they should be.
LEMMA EntryFields ==
    ASSUME NEW e \in Entry
    PROVE  /\ IsCallback(e) \/ IsFunction(e)
           /\ ~(IsCallback(e) /\ IsFunction(e))
           /\ IsCallback(e) => e.reg \in RegIds /\ e = Dhooks!Callback(e.reg)
           /\ IsFunction(e) => /\ e.target \in Targets /\ e.phase \in Phases
                               /\ e.done \subseteq RegIds /\ e.call \in CallIds \cup {Nothing}
                               /\ e.arguments = Dhooks!OwnArguments
BY DEF Entry, IsCallback, IsFunction, Dhooks!Callback

\* The top of the stack and what is below it.
LEMMA TopOf ==
    ASSUME NEW s \in Seq(Entry), s # <<>>
    PROVE  /\ Len(s) \in Nat \ {0} /\ Len(s) \in 1..Len(s) /\ DOMAIN s = 1..Len(s)
           /\ Dhooks!Last(s) = s[Len(s)] /\ Dhooks!Last(s) \in Entry
           /\ Dhooks!Front(s) \in Seq(Entry) /\ Len(Dhooks!Front(s)) = Len(s) - 1
           /\ \A n \in 1..(Len(s) - 1) : Dhooks!Front(s)[n] = s[n]
<1>1. Len(s) \in Nat \ {0} /\ DOMAIN s = 1..Len(s)
  BY EmptySeq, LenProperties
<1>2. Dhooks!Last(s) = s[Len(s)] /\ Len(s) \in 1..Len(s)
  BY <1>1 DEF Dhooks!Last
<1>3. Dhooks!Last(s) \in Entry
  BY <1>2, ElementOfSeq
<1>4. Dhooks!Front(s) = [n \in 1..(Len(s) - 1) |-> s[n]]
  BY <1>1 DEF Dhooks!Front
<1>5. \A n \in 1..(Len(s) - 1) : s[n] \in Entry
  BY <1>1, ElementOfSeq
<1>6. Dhooks!Front(s) \in Seq(Entry) /\ Len(Dhooks!Front(s)) = Len(s) - 1
  BY <1>1, <1>4, <1>5, SMT
<1> QED
  BY <1>1, <1>2, <1>3, <1>4, <1>6

\* A callback or a function is pushed.
LEMMA PushKeeps ==
    ASSUME NEW s, NEW rs, NEW cs, StackOK(s, rs, cs), NEW e \in Entry,
           IsCallback(e) => s # <<>> /\ IsFunction(Dhooks!Last(s)) /\ e.reg \in DOMAIN rs,
           IsCall(e) => /\ Executed(e, cs)
                        /\ \A n \in 1..Len(s) : IsCall(s[n]) => s[n].call # e.call
    PROVE  StackOK(Append(s, e), rs, cs)
<1> DEFINE t == Append(s, e)
<1>1. s \in Seq(Entry) /\ Len(s) \in Nat
  BY LenProperties DEF StackOK
<1>2. /\ t \in Seq(Entry) /\ Len(t) = Len(s) + 1 /\ t[Len(s) + 1] = e
      /\ \A n \in 1..Len(s) : t[n] = s[n]
  BY <1>1, AppendProperties
<1>3. \A n \in 1..Len(t) : n \in 1..Len(s) \/ n = Len(s) + 1
  BY <1>1, <1>2
<1>4. IsCallback(e) => Len(s) + 1 > 1 /\ IsFunction(t[Len(s)])
  BY <1>1, <1>2, TopOf
<1> HIDE DEF t
<1>5. ASSUME NEW n \in 1..Len(t), IsCallback(t[n])
      PROVE  n > 1 /\ IsFunction(t[n - 1]) /\ t[n].reg \in DOMAIN rs
  <2>1. CASE n \in 1..Len(s)
    <3>1. n > 1 /\ IsFunction(s[n - 1]) /\ s[n].reg \in DOMAIN rs
      BY <1>2, <1>5, <2>1 DEF StackOK
    <3>2. n - 1 \in 1..Len(s)
      BY <1>1, <2>1, <3>1
    <3> QED
      BY <1>2, <2>1, <3>1, <3>2
  <2>2. CASE n = Len(s) + 1
    <3>1. n - 1 = Len(s)
      BY <1>1, <2>2
    <3> QED
      BY <1>2, <1>4, <1>5, <2>2, <3>1
  <2> QED
    BY <1>3, <2>1, <2>2
<1>6. \A n \in 1..Len(t) : IsCall(t[n]) => Executed(t[n], cs)
  BY <1>2, <1>3 DEF StackOK
<1>7. \A m, n \in 1..Len(t) : IsCall(t[m]) /\ IsCall(t[n]) /\ t[m].call = t[n].call => m = n
  BY <1>2, <1>3 DEF StackOK
<1> QED
  BY <1>2, <1>5, <1>6, <1>7 DEF StackOK, t

\* The top of the stack is popped.
LEMMA PopKeeps ==
    ASSUME NEW s, NEW rs, NEW cs, StackOK(s, rs, cs), s # <<>>
    PROVE  StackOK(Dhooks!Front(s), rs, cs)
<1>1. s \in Seq(Entry)
  BY DEF StackOK
<1>2. /\ Len(s) \in Nat \ {0} /\ Dhooks!Front(s) \in Seq(Entry) /\ Len(Dhooks!Front(s)) = Len(s) - 1
      /\ \A n \in 1..(Len(s) - 1) : Dhooks!Front(s)[n] = s[n]
  BY <1>1, TopOf
<1>3. \A n \in 1..Len(Dhooks!Front(s)) : n \in 1..Len(s) /\ Dhooks!Front(s)[n] = s[n]
  BY <1>2
<1>4. ASSUME NEW n \in 1..Len(Dhooks!Front(s)), IsCallback(Dhooks!Front(s)[n])
      PROVE  n > 1 /\ IsFunction(Dhooks!Front(s)[n - 1]) /\ Dhooks!Front(s)[n].reg \in DOMAIN rs
  <2>1. n > 1 /\ IsFunction(s[n - 1]) /\ s[n].reg \in DOMAIN rs
    BY <1>3, <1>4 DEF StackOK
  <2>2. n - 1 \in 1..Len(Dhooks!Front(s))
    BY <1>2, <2>1
  <2> QED
    BY <1>3, <2>1, <2>2
<1> QED
  BY <1>2, <1>3, <1>4 DEF StackOK

\* The function at the top of the stack goes on.
LEMMA ReplaceKeeps ==
    ASSUME NEW s, NEW rs, NEW cs, StackOK(s, rs, cs), s # <<>>, IsFunction(Dhooks!Last(s)),
           NEW e \in Entry, IsFunction(e), e.call = Dhooks!Last(s).call, e.target = Dhooks!Last(s).target
    PROVE  LET t == [s EXCEPT ![Len(s)] = e] IN StackOK(t, rs, cs) /\ t # <<>> /\ Dhooks!Last(t) = e
<1> DEFINE t == [s EXCEPT ![Len(s)] = e]
<1>1. s \in Seq(Entry)
  BY DEF StackOK
<1>2. Len(s) \in Nat \ {0} /\ Len(s) \in 1..Len(s) /\ Dhooks!Last(s) = s[Len(s)]
  BY <1>1, TopOf
<1>3. /\ t \in Seq(Entry) /\ Len(t) = Len(s)
      /\ \A n \in 1..Len(s) : t[n] = IF n = Len(s) THEN e ELSE s[n]
  BY <1>1, <1>2, ExceptSeq
<1> HIDE DEF t
<1>4. \A n \in 1..Len(s) : /\ IsFunction(s[n]) => IsFunction(t[n])
                           /\ IsCallback(t[n]) => t[n] = s[n]
                           /\ IsCall(t[n]) => IsCall(s[n]) /\ t[n].call = s[n].call
                                                           /\ t[n].target = s[n].target
  BY <1>2, <1>3, EntryFields DEF IsCall
<1>5. ASSUME NEW n \in 1..Len(t), IsCallback(t[n])
      PROVE  n > 1 /\ IsFunction(t[n - 1]) /\ t[n].reg \in DOMAIN rs
  <2>1. n > 1 /\ IsFunction(s[n - 1]) /\ t[n].reg \in DOMAIN rs
    BY <1>3, <1>4, <1>5 DEF StackOK
  <2>2. n - 1 \in 1..Len(s)
    BY <1>2, <1>3, <2>1
  <2> QED
    BY <1>4, <2>1, <2>2
<1>6. \A n \in 1..Len(t) : IsCall(t[n]) => Executed(t[n], cs)
  BY <1>3, <1>4 DEF StackOK, Executed
<1>7. \A m, n \in 1..Len(t) : IsCall(t[m]) /\ IsCall(t[n]) /\ t[m].call = t[n].call => m = n
  BY <1>3, <1>4 DEF StackOK
<1>8. StackOK(t, rs, cs)
  BY <1>3, <1>5, <1>6, <1>7 DEF StackOK
<1>9. t # <<>>
  BY <1>2, <1>3, EmptySeq
<1>10. Dhooks!Last(t) = e
  BY <1>2, <1>3, <1>9, TopOf
<1> QED
  BY <1>8, <1>9, <1>10 DEF t

\* Registrations that are on no stack are removed, calls that are not busy change.
LEMMA StackStays ==
    ASSUME NEW s, NEW rs, NEW cs, StackOK(s, rs, cs), NEW rt, NEW ct,
           \A n \in 1..Len(s) : IsCallback(s[n]) /\ s[n].reg \in DOMAIN rs => s[n].reg \in DOMAIN rt,
           \A n \in 1..Len(s) : IsCall(s[n]) /\ Executed(s[n], cs) => Executed(s[n], ct)
    PROVE  StackOK(s, rt, ct)
BY DEF StackOK

-----------------------------------------------------------------------------
(* Collect, by itself and as part of a call.                               *)

\* Collect removes what is on no stack and releases what nothing uses.
LEMMA Collected ==
    ASSUME HInv, NEW c \in Dhooks!Collections
    PROVE  /\ c.gone \subseteq {r \in DOMAIN regs : ~Dhooks!Active(r)}
           /\ \A t \in c.released : ~Dhooks!UsedBy(DOMAIN regs \ c.gone, t)
           /\ DOMAIN Dhooks!After(c).regs = DOMAIN regs \ c.gone
           /\ \A r \in DOMAIN regs \ c.gone : Dhooks!After(c).regs[r] = regs[r]
           /\ Dhooks!After(c).native = DOMAIN Dhooks!After(c).regs
           /\ Dhooks!After(c).targets = targets \ c.released /\ Dhooks!After(c).leased = Dhooks!After(c).targets
           /\ Dhooks!After(c).targets \subseteq targets
           /\ \A r \in DOMAIN Dhooks!After(c).regs : Dhooks!After(c).regs[r].target \in Dhooks!After(c).targets
           /\ \A d \in DOMAIN calls : calls[d].target \in Dhooks!After(c).targets
           /\ \A p \in opened : p[2] \in Dhooks!After(c).targets
           /\ StackOK(stack, Dhooks!After(c).regs, calls)
<1>1. PICK gone \in SUBSET Dhooks!Finished :
        \E released \in SUBSET {t \in targets : ~Dhooks!UsedBy(DOMAIN regs \ gone, t)} :
            c = [gone |-> gone, released |-> released]
  BY DEF Dhooks!Collections
<1>2. PICK released \in SUBSET {t \in targets : ~Dhooks!UsedBy(DOMAIN regs \ gone, t)} :
        c = [gone |-> gone, released |-> released]
  BY <1>1
<1>3. c.gone = gone /\ c.released = released
  BY <1>2
<1>4. c.gone \subseteq {r \in DOMAIN regs : ~Dhooks!Active(r)}
  BY <1>3 DEF Dhooks!Finished
<1>5. \A t \in c.released : ~Dhooks!UsedBy(DOMAIN regs \ c.gone, t)
  BY <1>3
<1>6. /\ DOMAIN Dhooks!After(c).regs = DOMAIN regs \ c.gone
      /\ \A r \in DOMAIN regs \ c.gone : Dhooks!After(c).regs[r] = regs[r]
      /\ Dhooks!After(c).native = native \ c.gone
      /\ Dhooks!After(c).targets = targets \ c.released /\ Dhooks!After(c).leased = leased \ c.released
  BY DEF Dhooks!After, Dhooks!Drop
<1>7. Dhooks!After(c).native = DOMAIN Dhooks!After(c).regs /\ Dhooks!After(c).leased = Dhooks!After(c).targets
  BY <1>6 DEF HInv, Records, Leases
<1>8. \A r \in DOMAIN Dhooks!After(c).regs : Dhooks!After(c).regs[r].target \in Dhooks!After(c).targets
  BY <1>5, <1>6 DEF HInv, Leases, Dhooks!UsedBy
<1>9. \A d \in DOMAIN calls : calls[d].target \in Dhooks!After(c).targets
  BY <1>5, <1>6 DEF HInv, Leases, Dhooks!UsedBy
<1>10. \A p \in opened : p[2] \in Dhooks!After(c).targets
  <2>1. \A p \in opened : p[1] \in Plugins /\ p = <<p[1], p[2]>>
    BY DEF HInv, Records
  <2>2. \A p \in opened : p[2] \notin c.released
    BY <1>5, <2>1 DEF Dhooks!UsedBy
  <2> QED
    BY <1>6, <2>2 DEF HInv, Leases
<1>11. StackOK(stack, Dhooks!After(c).regs, calls)
  <2>1. stack \in Seq(Entry) /\ DOMAIN stack = 1..Len(stack)
    BY LenProperties DEF HInv, StackOK
  <2>2. \A n \in 1..Len(stack) : IsCallback(stack[n]) => Dhooks!Active(stack[n].reg)
    BY <2>1, ElementOfSeq, EntryFields DEF Dhooks!Active
  <2>3. \A n \in 1..Len(stack) :
           IsCallback(stack[n]) /\ stack[n].reg \in DOMAIN regs
               => stack[n].reg \in DOMAIN Dhooks!After(c).regs
    BY <1>4, <1>6, <2>2
  <2> HIDE DEF HInv
  <2>4. StackOK(stack, regs, calls)
    BY DEF HInv
  <2> QED
    BY <2>3, <2>4, StackStays
<1> QED
  BY <1>4, <1>5, <1>6, <1>7, <1>8, <1>9, <1>10, <1>11

\* What the entries of a stack are.
LEMMA StackKinds ==
    ASSUME NEW s, NEW rs, NEW cs, StackOK(s, rs, cs)
    PROVE  \A n \in DOMAIN s : s[n] \in Entry /\ s[n].kind \in {"callback", "function"}
BY LenProperties, ElementOfSeq, EntryFields DEF StackOK, IsCallback, IsFunction

\* A frame, or the question whether the extension can stop, collects.
LEMMA CollectStep == ASSUME HInv, Dhooks!Collect \/ Dhooks!PrepareExtensionUnload PROVE HInv'
<1>1. PICK c \in Dhooks!Collections :
        /\ regs' = Dhooks!After(c).regs /\ native' = Dhooks!After(c).native
        /\ targets' = Dhooks!After(c).targets /\ leased' = Dhooks!After(c).leased
        /\ loaded' \/ targets' = {}
        /\ UNCHANGED <<hooks, opened, calls, stack>>
  <2>1. CASE Dhooks!Collect
    BY <2>1 DEF Dhooks!Collect
  <2>2. CASE Dhooks!PrepareExtensionUnload
    <3>1. PICK c \in Dhooks!Collections :
            /\ regs' = Dhooks!After(c).regs /\ native' = Dhooks!After(c).native
            /\ targets' = Dhooks!After(c).targets /\ leased' = Dhooks!After(c).leased
            /\ loaded' = ~(DOMAIN regs' = {} /\ targets' = {})
      BY <2>2, Zenon DEF Dhooks!PrepareExtensionUnload
    <3>2. loaded' \/ targets' = {}
      BY <3>1
    <3>3. UNCHANGED <<hooks, opened, calls, stack>>
      BY <2>2 DEF Dhooks!PrepareExtensionUnload
    <3> QED
      BY <3>1, <3>2, <3>3, Zenon
  <2> QED
    BY <2>1, <2>2
<1>2. Records'
  <2>1. DOMAIN regs' \subseteq DOMAIN regs /\ \A r \in DOMAIN regs' : regs'[r] = regs[r]
    BY <1>1, Collected
  <2>2. native' = DOMAIN regs' /\ targets' \subseteq targets /\ leased' = targets'
    BY <1>1, Collected
  <2> QED
    BY <1>1, <2>1, <2>2 DEF HInv, Records, Dhooks!TypeOK
<1>3. Leases'
  BY <1>1, Collected DEF Leases
<1>4. StackOK(stack', regs', calls')
  BY <1>1, Collected
<1> QED
  BY <1>2, <1>3, <1>4 DEF HInv

\* DHook_Open collects, and then leases the target for the script.
LEMMA OpenStep ==
    ASSUME HInv, NEW o \in Plugins, NEW t \in Targets, Dhooks!Open(o, t) PROVE HInv'
<1>1. PICK c \in Dhooks!Collections :
        /\ regs' = Dhooks!After(c).regs /\ native' = Dhooks!After(c).native
        /\ targets' = Dhooks!After(c).targets \cup {t} /\ leased' = Dhooks!After(c).leased \cup {t}
  BY DEF Dhooks!Open
<1>2. opened' = opened \cup {<<o, t>>} /\ loaded /\ UNCHANGED <<hooks, calls, stack, loaded>>
  BY DEF Dhooks!Open, Dhooks!ScriptsRun
<1>3. Records'
  <2>1. DOMAIN regs' \subseteq DOMAIN regs /\ \A r \in DOMAIN regs' : regs'[r] = regs[r]
    BY <1>1, Collected
  <2>2. native' = DOMAIN regs' /\ targets' \subseteq targets \cup {t} /\ leased' = targets'
    BY <1>1, Collected
  <2> QED
    BY <1>2, <2>1, <2>2 DEF HInv, Records, Dhooks!TypeOK
<1>4. Leases'
  <2>1. leased' = targets' /\ \A r \in DOMAIN regs' : regs'[r].target \in targets'
    BY <1>1, Collected
  <2>2. \A d \in DOMAIN calls' : calls'[d].target \in targets'
    <3>1. \A d \in DOMAIN calls : calls[d].target \in Dhooks!After(c).targets
      BY Collected
    <3>2. calls' = calls /\ Dhooks!After(c).targets \subseteq targets'
      BY <1>1, <1>2
    <3> QED
      BY <3>1, <3>2
  <2>3. \A p \in opened' : p[2] \in targets'
    <3>1. \A p \in opened : p[2] \in Dhooks!After(c).targets
      BY Collected
    <3>2. <<o, t>>[2] = t
      OBVIOUS
    <3> QED
      BY <1>1, <1>2, <3>1, <3>2
  <2> QED
    BY <1>2, <2>1, <2>2, <2>3 DEF Leases
<1>5. StackOK(stack', regs', calls')
  BY <1>1, <1>2, Collected
<1> QED
  BY <1>3, <1>4, <1>5 DEF HInv

\* DHook_Add collects, and then registers a callback on a target that the script holds.
LEMMA AddStep ==
    ASSUME HInv, NEW o \in Plugins, NEW t \in Targets, NEW r \in RegIds, Dhooks!Add(o, t, r) PROVE HInv'
<1>1. PICK c \in Dhooks!Collections :
        /\ native' = Dhooks!After(c).native \cup {r}
        /\ regs' = Dhooks!Put(Dhooks!After(c).regs, r, Dhooks!Registration(o, t))
        /\ targets' = Dhooks!After(c).targets /\ leased' = Dhooks!After(c).leased
  BY DEF Dhooks!Add
<1>2. /\ <<o, t>> \in opened /\ r \notin DOMAIN regs
      /\ DOMAIN hooks' = DOMAIN hooks \cup {r} /\ UNCHANGED <<opened, calls, stack, loaded>>
  BY DEF Dhooks!Add, Dhooks!Put
<1>3. /\ DOMAIN regs' = DOMAIN Dhooks!After(c).regs \cup {r}
      /\ \A q \in DOMAIN regs' : regs'[q] = IF q = r THEN Dhooks!Registration(o, t) ELSE Dhooks!After(c).regs[q]
  BY <1>1 DEF Dhooks!Put
<1>4. /\ DOMAIN Dhooks!After(c).regs \subseteq DOMAIN regs
      /\ \A q \in DOMAIN Dhooks!After(c).regs : Dhooks!After(c).regs[q] = regs[q]
  BY Collected
<1>5. /\ Dhooks!Registration(o, t) \in Registrations /\ Dhooks!Registration(o, t).target = t
      /\ t \in Dhooks!After(c).targets
  <2>1. <<o, t>>[2] \in Dhooks!After(c).targets
    BY <1>2, Collected
  <2> QED
    BY <2>1 DEF Dhooks!Registration, Registrations
<1>6. Records'
  <2>1. native' = DOMAIN regs'
    BY <1>1, <1>3, Collected
  <2>2. \A q \in DOMAIN regs' : q \in RegIds /\ regs'[q] \in Registrations
    BY <1>3, <1>4, <1>5 DEF HInv, Records, Dhooks!TypeOK
  <2>3. targets' \subseteq targets /\ leased' = targets'
    BY <1>1, Collected
  <2> QED
    BY <1>2, <2>1, <2>2, <2>3 DEF HInv, Records, Dhooks!TypeOK
<1>7. Leases'
  <2>1. leased' = targets' /\ targets' \subseteq targets
    BY <1>1, Collected
  <2>2. \A q \in DOMAIN regs' : regs'[q].target \in targets'
    BY <1>1, <1>3, <1>5, Collected
  <2>3. \A d \in DOMAIN calls' : calls'[d].target \in targets'
    BY <1>1, <1>2, Collected
  <2>4. \A p \in opened' : p[2] \in targets'
    BY <1>1, <1>2, Collected
  <2> QED
    BY <1>2, <2>1, <2>2, <2>3, <2>4 DEF HInv, Leases
<1>8. StackOK(stack', regs', calls')
  <2>1. StackOK(stack, Dhooks!After(c).regs, calls)
    BY Collected
  <2>2. StackOK(stack, regs', calls)
    BY <1>3, <2>1, StackStays
  <2> QED
    BY <1>2, <2>2
<1> QED
  BY <1>6, <1>7, <1>8 DEF HInv

-----------------------------------------------------------------------------
(* What scripts do with their hooks and calls.                             *)

\* Closed registrations stay, for Collect.
LEMMA ClosedStay ==
    ASSUME HInv, NEW X, UNCHANGED <<targets, native, leased, stack, loaded>>,
           regs' = Dhooks!CloseRegs(X), DOMAIN hooks' \subseteq DOMAIN hooks, opened' \subseteq opened,
           DOMAIN calls' \subseteq DOMAIN calls,
           \A c \in DOMAIN calls' : /\ calls'[c] \in CallStates
                                    /\ calls'[c].target = calls[c].target,
           StackOK(stack, regs, calls')
    PROVE  HInv'
<1>1. DOMAIN regs' = DOMAIN regs
  BY DEF Dhooks!CloseRegs
<1>2. \A r \in DOMAIN regs : regs'[r] \in Registrations /\ regs'[r].target = regs[r].target
  BY DEF Dhooks!CloseRegs, HInv, Records, Registrations
<1>3. Records'
  BY <1>1, <1>2 DEF HInv, Records, Dhooks!TypeOK
<1>4. Leases'
  BY <1>1, <1>2 DEF HInv, Leases
<1>5. StackOK(stack', regs', calls')
  BY <1>1, StackStays
<1> QED
  BY <1>3, <1>4, <1>5 DEF HInv

\* DHook_Close.
LEMMA CloseHookStep == ASSUME HInv, NEW r \in RegIds, Dhooks!CloseHook(r) PROVE HInv'
<1>1. DOMAIN hooks' \subseteq DOMAIN hooks
  BY DEF Dhooks!CloseHook, Dhooks!Drop
<1>2. /\ regs' = Dhooks!CloseRegs({r})
      /\ UNCHANGED <<targets, opened, calls, native, leased, stack, loaded>>
  BY DEF Dhooks!CloseHook
<1>3. StackOK(stack, regs, calls') /\ \A c \in DOMAIN calls : calls[c] \in CallStates
  BY <1>2 DEF HInv, Records
<1> QED
  BY <1>1, <1>2, <1>3, ClosedStay

\* DHook_Enable.
LEMMA EnableStep == ASSUME HInv, NEW r \in RegIds, Dhooks!Enable(r) PROVE HInv'
<1>1. /\ regs' = [regs EXCEPT ![r].enabled = ~@]
      /\ UNCHANGED <<hooks, targets, opened, calls, native, leased, stack, loaded>>
  BY DEF Dhooks!Enable
<1>2. DOMAIN regs' = DOMAIN regs
  BY <1>1
<1>3. \A q \in DOMAIN regs : regs'[q] \in Registrations /\ regs'[q].target = regs[q].target
  BY <1>1 DEF HInv, Records, Registrations
<1>4. Records'
  BY <1>1, <1>2, <1>3 DEF HInv, Records, Dhooks!TypeOK
<1>5. Leases'
  BY <1>1, <1>2, <1>3 DEF HInv, Leases
<1>6. StackOK(stack, regs', calls)
  <2>1. StackOK(stack, regs, calls)
    BY DEF HInv
  <2> QED
    BY <1>2, <2>1, StackStays
<1> QED
  BY <1>1, <1>4, <1>5, <1>6 DEF HInv

\* A script gives a target back; the lease is left to Collect.
LEMMA CloseTargetStep ==
    ASSUME HInv, NEW o \in Plugins, NEW t \in Targets, Dhooks!CloseTarget(o, t) PROVE HInv'
<1>1. /\ opened' \subseteq opened
      /\ UNCHANGED <<regs, hooks, targets, calls, native, leased, stack, loaded>>
  BY DEF Dhooks!CloseTarget
<1> QED
  BY <1>1 DEF HInv, Records, Dhooks!TypeOK, Leases

\* Only prepared calls change: those that are executed keep what they passed.
LEMMA CallsChange ==
    ASSUME HInv, UNCHANGED <<regs, hooks, targets, opened, native, leased, loaded>>,
           DOMAIN calls' \subseteq CallIds,
           \A c \in DOMAIN calls' : calls'[c] \in CallStates /\ calls'[c].target \in targets,
           StackOK(stack', regs, calls')
    PROVE  HInv'
<1>1. Records'
  <2>1. \A n \in DOMAIN stack' : stack'[n].kind \in {"callback", "function"}
    BY StackKinds
  <2> QED
    BY <2>1 DEF HInv, Records, Dhooks!TypeOK
<1>2. Leases'
  BY DEF HInv, Leases
<1> QED
  BY <1>1, <1>2 DEF HInv

\* SDKCall_Prepare, for a target that the script holds.
LEMMA PrepareStep ==
    ASSUME HInv, NEW o \in Plugins, NEW t \in Targets, NEW c \in CallIds, Dhooks!Prepare(o, t, c)
    PROVE  HInv'
<1> DEFINE new == [target |-> t, owner |-> o, open |-> TRUE, busy |-> FALSE,
                   ready |-> FALSE, intact |-> FALSE]
<1>1. /\ DOMAIN calls' = DOMAIN calls \cup {c} /\ c \notin DOMAIN calls
      /\ \A d \in DOMAIN calls' : calls'[d] = IF d = c THEN new ELSE calls[d]
      /\ UNCHANGED <<regs, hooks, targets, opened, native, leased, stack, loaded>>
      /\ <<o, t>> \in opened
  BY DEF Dhooks!Prepare, Dhooks!Put
<1>2. new \in CallStates /\ new.target = t
  BY DEF CallStates
<1>3. t \in targets
  <2>1. <<o, t>>[2] \in targets
    BY <1>1 DEF HInv, Leases
  <2> QED
    BY <2>1
<1> HIDE DEF new
<1>4. \A d \in DOMAIN calls' : calls'[d] \in CallStates /\ calls'[d].target \in targets
  BY <1>1, <1>2, <1>3 DEF HInv, Records, Leases
<1>5. StackOK(stack, regs, calls')
  <2>1. StackOK(stack, regs, calls)
    BY DEF HInv
  <2>2. \A n \in 1..Len(stack) : Executed(stack[n], calls) => Executed(stack[n], calls')
    BY <1>1 DEF Executed
  <2> QED
    BY <2>1, <2>2, StackStays
<1> QED
  BY <1>1, <1>4, <1>5, CallsChange DEF HInv, Records, Dhooks!TypeOK

\* A call that is not busy is edited or closed; one that is busy lives on.
LEMMA EditStep ==
    ASSUME HInv, NEW c \in DOMAIN calls, Dhooks!SetBuffer(c) \/ Dhooks!Reset(c) \/ Dhooks!CloseCall(c) PROVE HInv'
<1>1. UNCHANGED <<regs, hooks, targets, opened, native, leased, stack, loaded>>
  BY DEF Dhooks!SetBuffer, Dhooks!Reset, Dhooks!CloseCall
<1>2. /\ DOMAIN calls' \subseteq DOMAIN calls
      /\ \A d \in DOMAIN calls' : /\ calls'[d] \in CallStates /\ calls'[d].target = calls[d].target
      /\ \A d \in DOMAIN calls : calls[d].busy =>
            /\ d \in DOMAIN calls' /\ calls'[d].busy /\ calls'[d].intact = calls[d].intact
  <2>1. \A d \in DOMAIN calls : calls[d] \in CallStates
    BY DEF HInv, Records
  <2>2. CASE \E ready \in BOOLEAN :
               ~calls[c].busy /\ calls' = [calls EXCEPT ![c].ready = ready, ![c].intact = FALSE]
    <3>1. PICK ready \in BOOLEAN :
            ~calls[c].busy /\ calls' = [calls EXCEPT ![c].ready = ready, ![c].intact = FALSE]
      BY <2>2
    <3>2. DOMAIN calls' = DOMAIN calls
      BY <3>1
    <3>3. \A d \in DOMAIN calls : d # c => calls'[d] = calls[d]
      BY <3>1
    <3>4. calls'[c] = [[calls[c] EXCEPT !.ready = ready] EXCEPT !.intact = FALSE]
      BY <3>1
    <3>5. calls'[c] \in CallStates /\ calls'[c].target = calls[c].target
      BY <2>1, <3>4 DEF CallStates
    <3> QED
      BY <2>1, <3>1, <3>2, <3>3, <3>5
  <2>3. CASE calls[c].busy /\ calls' = [calls EXCEPT ![c].open = FALSE]
    BY <2>1, <2>3 DEF CallStates
  <2>4. CASE ~calls[c].busy /\ calls' = Dhooks!Drop(calls, {c})
    BY <2>1, <2>4 DEF Dhooks!Drop
  <2> QED
    BY <2>2, <2>3, <2>4 DEF Dhooks!SetBuffer, Dhooks!Reset, Dhooks!CloseCall, Dhooks!Editable
<1>3. StackOK(stack, regs, calls')
  <2>1. StackOK(stack, regs, calls)
    BY DEF HInv
  <2>2. \A n \in 1..Len(stack) : Executed(stack[n], calls) => Executed(stack[n], calls')
    BY <1>2 DEF Executed
  <2> QED
    BY <2>1, <2>2, StackStays
<1> QED
  BY <1>1, <1>2, <1>3, CallsChange DEF HInv, Records, Dhooks!TypeOK, Leases

\* A script is unloaded: what it held goes, but for a call that is executed.
LEMMA RetireStep == ASSUME HInv, NEW o \in Plugins, Dhooks!Retire(o) PROVE HInv'
<1> DEFINE kept == {d \in DOMAIN calls : calls[d].owner # o \/ calls[d].busy}
<1>1. PICK mine : regs' = Dhooks!CloseRegs(mine) /\ hooks' = Dhooks!Drop(hooks, mine)
  BY DEF Dhooks!Retire
<1>2. /\ opened' = {p \in opened : p[1] # o}
      /\ calls' = [c \in kept |-> [calls[c] EXCEPT !.open = @ /\ calls[c].owner # o]]
      /\ UNCHANGED <<targets, native, leased, stack, loaded>>
  BY DEF Dhooks!Retire
<1>3. opened' \subseteq opened /\ DOMAIN hooks' \subseteq DOMAIN hooks
  BY <1>1, <1>2 DEF Dhooks!Drop
<1>4. \A c \in DOMAIN calls' :
         /\ c \in DOMAIN calls /\ calls'[c] \in CallStates /\ calls'[c].target = calls[c].target
         /\ calls'[c].busy = calls[c].busy /\ calls'[c].intact = calls[c].intact
  <2>1. ASSUME NEW c \in DOMAIN calls'
        PROVE  /\ c \in DOMAIN calls
               /\ calls'[c] = [calls[c] EXCEPT !.open = @ /\ calls[c].owner # o]
    BY <1>2, <2>1
  <2>2. \A c \in DOMAIN calls : calls[c] \in CallStates
    BY DEF HInv, Records
  <2> QED
    BY <2>1, <2>2 DEF CallStates
<1>5. \A c \in DOMAIN calls : calls[c].busy => c \in DOMAIN calls'
  BY <1>2
<1>6. StackOK(stack, regs, calls')
  <2>1. StackOK(stack, regs, calls)
    BY DEF HInv
  <2>2. \A n \in 1..Len(stack) : Executed(stack[n], calls) => Executed(stack[n], calls')
    BY <1>4, <1>5 DEF Executed
  <2> QED
    BY <2>1, <2>2, StackStays
<1> HIDE DEF kept
<1> QED
  BY <1>1, <1>2, <1>3, <1>4, <1>6, ClosedStay

-----------------------------------------------------------------------------
(* Calls of functions and callbacks.                                       *)

\* Only the stack changes.
LEMMA OnlyStack ==
    ASSUME HInv, UNCHANGED <<regs, hooks, targets, opened, calls, native, leased, loaded>>,
           StackOK(stack', regs, calls)
    PROVE  HInv'
<1>1. DOMAIN calls' \subseteq CallIds
  BY DEF HInv, Records, Dhooks!TypeOK
<1>2. \A c \in DOMAIN calls' : calls'[c] \in CallStates /\ calls'[c].target \in targets
  BY DEF HInv, Records, Leases
<1>3. StackOK(stack', regs, calls')
  OBVIOUS
<1> QED
  BY <1>1, <1>2, <1>3, CallsChange

\* A function that is called is an entry of the stack.
LEMMA FunctionIsEntry ==
    ASSUME NEW t \in Targets, NEW phase \in Phases, NEW c \in CallIds \cup {Nothing}
    PROVE  LET e == Dhooks!Function(t, phase, c, Dhooks!OwnArguments)
           IN  e \in Entry /\ IsFunction(e) /\ ~IsCallback(e) /\ e.call = c /\ e.target = t
BY DEF Dhooks!Function, Entry, IsFunction, IsCallback, Phases

\* SDKCall_Execute: the State is busy, and no other entry executes it.
LEMMA ExecuteStep == ASSUME HInv, NEW c \in DOMAIN calls, Dhooks!Execute(c) PROVE HInv'
<1>1. /\ ~calls[c].busy /\ calls' = [calls EXCEPT ![c].busy = TRUE, ![c].intact = TRUE]
      /\ UNCHANGED <<regs, hooks, targets, opened, native, leased, loaded>>
  BY DEF Dhooks!Execute
<1>2. PICK phase \in {"pre", "original"} :
        stack' = Append(stack, Dhooks!Function(calls[c].target, phase, c, Dhooks!OwnArguments))
  BY DEF Dhooks!Execute
<1>3. /\ c \in CallIds /\ calls[c] \in CallStates /\ calls[c].target \in Targets
      /\ StackOK(stack, regs, calls)
  BY DEF HInv, Records, Dhooks!TypeOK, CallStates
<1>4. /\ DOMAIN calls' = DOMAIN calls
      /\ \A d \in DOMAIN calls : d # c => calls'[d] = calls[d]
      /\ calls'[c] = [[calls[c] EXCEPT !.busy = TRUE] EXCEPT !.intact = TRUE]
  BY <1>1
<1>5. /\ calls'[c] \in CallStates /\ calls'[c].target = calls[c].target
      /\ calls'[c].busy /\ calls'[c].intact
  BY <1>3, <1>4 DEF CallStates
<1> DEFINE e == Dhooks!Function(calls[c].target, phase, c, Dhooks!OwnArguments)
<1>6. e \in Entry /\ IsFunction(e) /\ ~IsCallback(e) /\ e.call = c /\ e.target = calls[c].target
  BY <1>3, FunctionIsEntry DEF Phases
<1>7. stack' = Append(stack, e)
  BY <1>2
<1> HIDE DEF e
<1>8. \A n \in 1..Len(stack) : IsCall(stack[n]) => stack[n].call # c
  BY <1>1, <1>3 DEF StackOK, Executed
<1>9. StackOK(stack, regs, calls')
  <2>1. \A n \in 1..Len(stack) :
           IsCall(stack[n]) /\ Executed(stack[n], calls) => Executed(stack[n], calls')
    BY <1>4, <1>8 DEF Executed
  <2> QED
    BY <1>3, <2>1, StackStays
<1>10. Executed(e, calls')
  BY <1>4, <1>5, <1>6 DEF Executed
<1>11. StackOK(stack', regs, calls')
  BY <1>6, <1>7, <1>8, <1>9, <1>10, PushKeeps
<1>12. \A d \in DOMAIN calls' : calls'[d] \in CallStates /\ calls'[d].target \in targets
  BY <1>4, <1>5 DEF HInv, Records, Leases
<1> QED
  BY <1>1, <1>4, <1>11, <1>12, CallsChange DEF HInv, Records, Dhooks!TypeOK

\* The engine calls a hooked function.
LEMMA EngineStep == ASSUME HInv, NEW t \in Targets, Dhooks!Engine(t) PROVE HInv'
<1> DEFINE e == Dhooks!Function(t, "pre", Nothing, Dhooks!OwnArguments)
<1>1. e \in Entry /\ IsFunction(e) /\ ~IsCallback(e) /\ e.call = Nothing
  BY FunctionIsEntry DEF Phases
<1>2. /\ stack' = Append(stack, e)
      /\ UNCHANGED <<regs, hooks, targets, opened, calls, native, leased, loaded>>
  BY DEF Dhooks!Engine
<1> HIDE DEF e
<1>3. StackOK(stack, regs, calls)
  BY DEF HInv
<1>4. StackOK(Append(stack, e), regs, calls)
  BY <1>1, <1>3, PushKeeps DEF IsCall
<1> QED
  BY <1>2, <1>4, OnlyStack

\* The top of the stack is a function: the one that Proceed and Dispatch go on with.
LEMMA TopFunction ==
    ASSUME HInv, Dhooks!TopIs("function")
    PROVE  /\ stack # <<>> /\ Dhooks!Top = Dhooks!Last(stack) /\ Dhooks!Top \in Entry /\ IsFunction(Dhooks!Top)
           /\ StackOK(stack, regs, calls) /\ Len(stack) \in 1..Len(stack)
           /\ Dhooks!Top = stack[Len(stack)]
<1>1. stack \in Seq(Entry) /\ stack # <<>> /\ StackOK(stack, regs, calls)
  BY DEF HInv, StackOK, Dhooks!TopIs
<1> QED
  BY <1>1, TopOf DEF Dhooks!TopIs, Dhooks!Top, IsFunction

\* The host calls the next registration of a function, at any depth.
LEMMA DispatchStep == ASSUME HInv, NEW r \in native, Dhooks!Dispatch(r) PROVE HInv'
<1>1. Dhooks!TopIs("function") /\ UNCHANGED <<regs, hooks, targets, opened, calls, native, leased, loaded>>
  BY DEF Dhooks!Dispatch
<1>2. r \in DOMAIN regs /\ r \in RegIds
  BY DEF HInv, Records, Dhooks!TypeOK
<1> DEFINE e == [Dhooks!Top EXCEPT !.done = @ \cup {r}]
           called == Dhooks!Replaced(e)
<1>3. e \in Entry /\ IsFunction(e) /\ e.call = Dhooks!Top.call /\ e.target = Dhooks!Top.target
  BY <1>1, <1>2, TopFunction DEF Entry, IsFunction
<1>4. stack' = called \/ stack' = Append(called, Dhooks!Callback(r))
  BY DEF Dhooks!Dispatch
<1> HIDE DEF e
<1>5. StackOK(called, regs, calls) /\ called # <<>> /\ Dhooks!Last(called) = e
  BY <1>1, <1>3, TopFunction, ReplaceKeeps DEF Dhooks!Replaced
<1> HIDE DEF called
<1>6. /\ Dhooks!Callback(r) \in Entry /\ IsCallback(Dhooks!Callback(r)) /\ ~IsCall(Dhooks!Callback(r))
      /\ Dhooks!Callback(r).reg = r
  BY <1>2 DEF Dhooks!Callback, Entry, IsCallback, IsCall, IsFunction
<1>7. StackOK(Append(called, Dhooks!Callback(r)), regs, calls)
  BY <1>2, <1>3, <1>5, <1>6, PushKeeps
<1> QED
  BY <1>1, <1>4, <1>5, <1>7, OnlyStack

\* CheckBufferEdits lets a callback change nothing of the arguments of a prepared call
\* that the model tells apart.
LEMMA EditsKeepBuffer ==
    ASSUME Capacity \in Nat,
           NEW after \in Dhooks!Edits(Dhooks!OwnArguments), Dhooks!KeepsBuffer(Dhooks!OwnArguments, after)
    PROVE  after = Dhooks!OwnArguments
<1>1. /\ after \in [buffer : {"own", "native"}, other : {"own", "native"},
                    length : {Capacity, Capacity + 1}]
      /\ Dhooks!OwnArguments.buffer = "own"
  BY DEF Dhooks!Edits, Dhooks!OwnArguments
<1>2. after.other = "native" /\ after.buffer = "own" /\ after.length <= Capacity
  BY <1>1 DEF Dhooks!KeepsBuffer
<1>3. after.length = Capacity
  BY <1>1, <1>2
<1> QED
  BY <1>1, <1>2, <1>3 DEF Dhooks!OwnArguments

\* A callback returns to its function, whose arguments, phase and registrations may change.
LEMMA ReturnStep == ASSUME Capacity \in Nat, HInv, Dhooks!Return PROVE HInv'
<1> DEFINE r == Dhooks!Top.reg
           below == Dhooks!Front(stack)
           function == Dhooks!Last(below)
<1>1. stack \in Seq(Entry) /\ stack # <<>> /\ StackOK(stack, regs, calls)
  BY DEF HInv, StackOK, Dhooks!Return, Dhooks!TopIs
<1>2. UNCHANGED <<hooks, targets, opened, calls, native, leased, loaded>>
  BY DEF Dhooks!Return
<1>3. StackOK(below, regs, calls) /\ below \in Seq(Entry)
  BY <1>1, PopKeeps DEF StackOK
<1>4. below # <<>> /\ IsFunction(function) /\ function \in Entry
  <2>1. /\ Len(stack) \in Nat \ {0} /\ Len(stack) \in 1..Len(stack)
        /\ Dhooks!Last(stack) = stack[Len(stack)] /\ Len(below) = Len(stack) - 1
        /\ \A n \in 1..(Len(stack) - 1) : below[n] = stack[n]
    BY <1>1, TopOf
  <2>2. IsCallback(stack[Len(stack)])
    BY <2>1 DEF Dhooks!Return, Dhooks!TopIs, IsCallback
  <2>3. Len(stack) > 1 /\ IsFunction(stack[Len(stack) - 1])
    BY <1>1, <2>1, <2>2 DEF StackOK
  <2>4. below # <<>>
    BY <1>3, <2>1, <2>3, EmptySeq
  <2>5. Dhooks!Last(below) = below[Len(below)] /\ Dhooks!Last(below) \in Entry
    BY <1>3, <2>4, TopOf
  <2> QED
    BY <2>1, <2>3, <2>4, <2>5
<1>5. \/ regs' = Dhooks!CloseRegs({r}) /\ stack' = below
      \/ UNCHANGED regs /\ stack' = below
      \/ /\ UNCHANGED regs
         /\ \E after \in Dhooks!Edits(function.arguments) :
               /\ Dhooks!KeepsBuffer(function.arguments, after)
               /\ stack' = [below EXCEPT ![Len(below)].arguments = after]
      \/ /\ UNCHANGED regs
         /\ stack' = [below EXCEPT ![Len(below)].phase = "post", ![Len(below)].done = {}]
  BY Zenon DEF Dhooks!Return
<1>6. function.arguments = Dhooks!OwnArguments
  BY <1>4, EntryFields
<1>7. Len(below) \in 1..Len(below) /\ function = below[Len(below)] /\ DOMAIN below = 1..Len(below)
  BY <1>3, <1>4, TopOf
<1> HIDE DEF below
<1>8. CASE regs' = Dhooks!CloseRegs({r}) /\ stack' = below
  <2>1. DOMAIN regs' = DOMAIN regs
    BY <1>8 DEF Dhooks!CloseRegs
  <2>2. \A q \in DOMAIN regs : regs'[q] \in Registrations /\ regs'[q].target = regs[q].target
    BY <1>8 DEF Dhooks!CloseRegs, HInv, Records, Registrations
  <2>3. StackOK(stack', regs', calls')
    <3>1. StackOK(below, regs', calls)
      BY <1>3, <2>1, StackStays
    <3> QED
      BY <1>2, <1>8, <3>1
  <2>4. Records'
    <3>1. \A n \in DOMAIN stack' : stack'[n].kind \in {"callback", "function"}
      BY <2>3, StackKinds
    <3> QED
      BY <1>2, <2>1, <2>2, <3>1 DEF HInv, Records, Dhooks!TypeOK
  <2>5. Leases'
    BY <1>2, <2>1, <2>2 DEF HInv, Leases
  <2> QED
    BY <2>3, <2>4, <2>5 DEF HInv
<1>9. CASE UNCHANGED regs /\ stack' = below
  BY <1>2, <1>3, <1>9, OnlyStack
<1>10. ASSUME UNCHANGED regs, NEW e \in Entry, IsFunction(e),
              e.call = function.call, e.target = function.target,
              stack' = [below EXCEPT ![Len(below)] = e]
       PROVE  HInv'
  <2>1. StackOK(stack', regs, calls)
    BY <1>3, <1>4, <1>10, ReplaceKeeps
  <2> QED
    BY <1>2, <1>10, <2>1, OnlyStack
<1>11. CASE /\ UNCHANGED regs
            /\ \E after \in Dhooks!Edits(function.arguments) :
                  /\ Dhooks!KeepsBuffer(function.arguments, after)
                  /\ stack' = [below EXCEPT ![Len(below)].arguments = after]
  <2>1. stack' = [below EXCEPT ![Len(below)].arguments = Dhooks!OwnArguments]
    BY <1>6, <1>11, EditsKeepBuffer
  <2> DEFINE e == [function EXCEPT !.arguments = Dhooks!OwnArguments]
  <2>2. stack' = [below EXCEPT ![Len(below)] = e]
    BY <1>7, <2>1
  <2>3. e \in Entry /\ IsFunction(e) /\ e.call = function.call /\ e.target = function.target
    BY <1>4 DEF Entry, IsFunction
  <2> HIDE DEF e
  <2> QED
    BY <1>10, <1>11, <2>2, <2>3
<1>12. CASE /\ UNCHANGED regs
            /\ stack' = [below EXCEPT ![Len(below)].phase = "post", ![Len(below)].done = {}]
  <2> DEFINE e == [[function EXCEPT !.phase = "post"] EXCEPT !.done = {}]
  <2>1. stack' = [below EXCEPT ![Len(below)] = e]
    BY <1>7, <1>12
  <2>2. e \in Entry /\ IsFunction(e) /\ e.call = function.call /\ e.target = function.target
    BY <1>4 DEF Entry, IsFunction, Phases
  <2> HIDE DEF e
  <2> QED
    BY <1>10, <1>12, <2>1, <2>2
<1> QED
  BY <1>5, <1>8, <1>9, <1>11, <1>12

\* A function goes on, or returns to its caller, which executed it once.
LEMMA ProceedStep == ASSUME HInv, Dhooks!Proceed PROVE HInv'
<1>1. Dhooks!TopIs("function") /\ UNCHANGED <<regs, hooks, targets, opened, native, leased, loaded>>
  BY DEF Dhooks!Proceed
<1>2. /\ stack # <<>> /\ Dhooks!Top = Dhooks!Last(stack) /\ Dhooks!Top \in Entry /\ IsFunction(Dhooks!Top)
      /\ StackOK(stack, regs, calls) /\ Len(stack) \in 1..Len(stack)
      /\ Dhooks!Top = stack[Len(stack)]
  BY <1>1, TopFunction
<1>3. ASSUME NEW e \in Entry, IsFunction(e), e.call = Dhooks!Top.call, e.target = Dhooks!Top.target,
             stack' = Dhooks!Replaced(e), UNCHANGED calls
      PROVE  HInv'
  <2>1. StackOK(stack', regs, calls)
    BY <1>2, <1>3, ReplaceKeeps DEF Dhooks!Replaced
  <2> QED
    BY <1>1, <1>3, <2>1, OnlyStack
<1>4. CASE stack' = Dhooks!Replaced([Dhooks!Top EXCEPT !.phase = "original"]) /\ UNCHANGED calls
  <2> DEFINE e == [Dhooks!Top EXCEPT !.phase = "original"]
  <2>1. e \in Entry /\ IsFunction(e) /\ e.call = Dhooks!Top.call /\ e.target = Dhooks!Top.target
    BY <1>2 DEF Entry, IsFunction, Phases
  <2> QED
    BY <1>3, <1>4, <2>1
<1>5. CASE stack' = Dhooks!Replaced([Dhooks!Top EXCEPT !.phase = "post", !.done = {}]) /\ UNCHANGED calls
  <2> DEFINE e == [Dhooks!Top EXCEPT !.phase = "post", !.done = {}]
  <2>1. e \in Entry /\ IsFunction(e) /\ e.call = Dhooks!Top.call /\ e.target = Dhooks!Top.target
    BY <1>2 DEF Entry, IsFunction, Phases
  <2> QED
    BY <1>3, <1>5, <2>1
<1>6. CASE /\ stack' = Dhooks!Front(stack)
           /\ calls' = IF Dhooks!Top.call = Nothing THEN calls
                       ELSE IF ~calls[Dhooks!Top.call].open THEN Dhooks!Drop(calls, {Dhooks!Top.call})
                       ELSE [calls EXCEPT ![Dhooks!Top.call].busy = FALSE, ![Dhooks!Top.call].intact = FALSE]
  <2> DEFINE c == Dhooks!Top.call
  <2>1. StackOK(Dhooks!Front(stack), regs, calls)
    BY <1>2, PopKeeps
  <2>2. CASE c = Nothing
    <3>1. UNCHANGED calls
      BY <1>6, <2>2
    <3> QED
      BY <1>1, <1>6, <2>1, <3>1, OnlyStack
  <2>3. CASE c # Nothing
    <3>1. IsCall(Dhooks!Top) /\ c \in DOMAIN calls /\ c \in CallIds
      BY <1>2, <2>3 DEF IsCall, StackOK, Executed, HInv, Records, Dhooks!TypeOK
    <3>2. \A n \in 1..Len(Dhooks!Front(stack)) : IsCall(Dhooks!Front(stack)[n]) => Dhooks!Front(stack)[n].call # c
      <4>1. /\ stack \in Seq(Entry) /\ Len(stack) \in Nat \ {0} /\ Len(Dhooks!Front(stack)) = Len(stack) - 1
            /\ \A n \in 1..(Len(stack) - 1) : Dhooks!Front(stack)[n] = stack[n]
        BY <1>2, TopOf DEF StackOK
      <4>2. \A n \in 1..(Len(stack) - 1) : IsCall(stack[n]) => stack[n].call # c
        BY <1>2, <3>1, <4>1 DEF StackOK
      <4> QED
        BY <4>1, <4>2
    <3>3. /\ DOMAIN calls' \subseteq DOMAIN calls
          /\ \A d \in DOMAIN calls : d # c => d \in DOMAIN calls' /\ calls'[d] = calls[d]
          /\ \A d \in DOMAIN calls' : calls'[d] \in CallStates /\ calls'[d].target = calls[d].target
      <4>1. \A d \in DOMAIN calls : calls[d] \in CallStates
        BY DEF HInv, Records
      <4>2. CASE calls' = Dhooks!Drop(calls, {c})
        BY <4>1, <4>2 DEF Dhooks!Drop
      <4>3. CASE calls' = [calls EXCEPT ![c].busy = FALSE, ![c].intact = FALSE]
        <5>1. DOMAIN calls' = DOMAIN calls /\ \A d \in DOMAIN calls : d # c => calls'[d] = calls[d]
          BY <4>3
        <5>2. calls'[c] = [[calls[c] EXCEPT !.busy = FALSE] EXCEPT !.intact = FALSE]
          BY <3>1, <4>3
        <5>3. calls'[c] \in CallStates /\ calls'[c].target = calls[c].target
          BY <3>1, <4>1, <5>2 DEF CallStates
        <5> QED
          BY <4>1, <5>1, <5>3
      <4> QED
        BY <1>6, <2>3, <4>2, <4>3
    <3>4. StackOK(Dhooks!Front(stack), regs, calls')
      <4>1. \A n \in 1..Len(Dhooks!Front(stack)) :
               IsCall(Dhooks!Front(stack)[n]) /\ Executed(Dhooks!Front(stack)[n], calls)
                   => Executed(Dhooks!Front(stack)[n], calls')
        BY <3>2, <3>3 DEF Executed
      <4> QED
        BY <2>1, <4>1, StackStays
    <3>5. stack' = Dhooks!Front(stack)
      BY <1>6
    <3>6. DOMAIN calls' \subseteq CallIds
      BY <3>3 DEF HInv, Records, Dhooks!TypeOK
    <3>7. \A d \in DOMAIN calls' : calls'[d] \in CallStates /\ calls'[d].target \in targets
      BY <3>3 DEF HInv, Leases
    <3> QED
      BY <1>1, <3>4, <3>5, <3>6, <3>7, CallsChange
  <2> QED
    BY <2>2, <2>3
<1> QED
  BY <1>4, <1>5, <1>6 DEF Dhooks!Proceed

-----------------------------------------------------------------------------
(* The theorem.                                                            *)

\* An extension that was just loaded holds nothing.
LEMMA InitHInv == Dhooks!Init => HInv
<1> SUFFICES ASSUME Dhooks!Init PROVE HInv
  OBVIOUS
<1>1. DOMAIN <<>> = {} /\ <<>> \in Seq(Entry) /\ Len(<<>>) = 0
  BY EmptySeq, LenProperties, SMT
<1>2. 1..Len(<<>>) = {}
  BY <1>1, SMT
<1>3. StackOK(<<>>, regs, calls)
  BY <1>1, <1>2 DEF StackOK
<1>4. Records /\ Leases
  BY <1>1 DEF Dhooks!Init, Records, Dhooks!TypeOK, Leases
<1> QED
  BY <1>3, <1>4 DEF HInv, Dhooks!Init

\* Every operation keeps the invariant, also below the callbacks of others.
LEMMA NextHInv == ASSUME Capacity \in Nat PROVE HInv /\ [Dhooks!Next]_(Dhooks!vars) => HInv'
<1> SUFFICES ASSUME HInv, [Dhooks!Next]_(Dhooks!vars) PROVE HInv'
  OBVIOUS
<1>1. CASE Dhooks!Collect \/ Dhooks!PrepareExtensionUnload
  BY <1>1, CollectStep
<1>2. ASSUME NEW o \in Plugins, Dhooks!Retire(o) PROVE HInv'
  BY <1>2, RetireStep
<1>3. ASSUME NEW o \in Plugins, NEW t \in Targets,
             \/ Dhooks!Open(o, t) \/ Dhooks!CloseTarget(o, t)
             \/ \E r \in RegIds : Dhooks!Add(o, t, r)
             \/ \E c \in CallIds : Dhooks!Prepare(o, t, c)
      PROVE  HInv'
  BY <1>3, OpenStep, CloseTargetStep, AddStep, PrepareStep
<1>4. ASSUME NEW r \in RegIds, Dhooks!CloseHook(r) \/ Dhooks!Enable(r) PROVE HInv'
  BY <1>4, CloseHookStep, EnableStep
<1>5. ASSUME NEW c \in DOMAIN calls, Dhooks!SetBuffer(c) \/ Dhooks!Reset(c) \/ Dhooks!CloseCall(c) \/ Dhooks!Execute(c)
      PROVE  HInv'
  BY <1>5, EditStep, ExecuteStep
<1>6. ASSUME NEW t \in Targets, Dhooks!Engine(t) PROVE HInv'
  BY <1>6, EngineStep
<1>7. ASSUME NEW r \in native, Dhooks!Dispatch(r) PROVE HInv'
  BY <1>7, DispatchStep
<1>8. CASE Dhooks!Return \/ Dhooks!Proceed
  BY <1>8, ReturnStep, ProceedStep
<1>9. CASE UNCHANGED Dhooks!vars
  BY <1>9 DEF Dhooks!vars, HInv, Records, Dhooks!TypeOK, Leases, StackOK, Executed
<1> QED
  BY <1>1, <1>2, <1>3, <1>4, <1>5, <1>6, <1>7, <1>8, <1>9 DEF Dhooks!Next

\* What a callback or a call that is under way comes back to, and what it writes to, is
\* there, whatever the callbacks below it closed and unloaded: the registration, the lease
\* of the function, and the buffers, which the original gets as the script passed them.
THEOREM HooksHold == Dhooks!Spec => []HooksStay
<1>. Capacity \in Nat
  BY HooksAssumption
<1>1. HInv => Dhooks!HooksStay
  <2> SUFFICES ASSUME HInv PROVE Dhooks!HooksStay
    OBVIOUS
  <2>1. stack \in Seq(Entry) /\ DOMAIN stack = 1..Len(stack)
    BY LenProperties DEF HInv, StackOK
  <2>2. \A n \in DOMAIN stack : stack[n] \in Entry
    BY <2>1, ElementOfSeq
  <2>3. Dhooks!RegistrationsStay
    <3>1. ASSUME NEW r \in RegIds, Dhooks!Active(r) PROVE r \in DOMAIN regs
      <4>1. PICK n \in 1..Len(stack) : stack[n] = Dhooks!Callback(r)
        BY <2>1, <3>1 DEF Dhooks!Active
      <4>2. IsCallback(stack[n]) /\ stack[n].reg = r
        BY <4>1 DEF Dhooks!Callback, IsCallback
      <4> QED
        BY <4>2 DEF HInv, StackOK
    <3> QED
      BY <3>1 DEF HInv, Records, Dhooks!RegistrationsStay
  <2>4. Dhooks!BuffersBounded
    BY <2>1, <2>2, EntryFields DEF HInv, StackOK, Executed, IsCall, IsFunction, Dhooks!BuffersBounded
  <2>5. Dhooks!LeasesHeld
    <3>1. \A n \in DOMAIN stack :
             stack[n].kind = "function" /\ stack[n].call # Nothing => stack[n].target \in leased
      BY <2>1 DEF HInv, Leases, StackOK, Executed, IsCall, IsFunction
    <3>2. ~loaded => native = {}
      BY DEF HInv, Leases, Records
    <3> QED
      BY <3>1, <3>2 DEF HInv, Leases, Records, Dhooks!LeasesHeld
  <2> QED
    BY <2>3, <2>4, <2>5 DEF Dhooks!HooksStay
<1>2. HInv /\ [Dhooks!Next]_(Dhooks!vars) => HInv'
  BY NextHInv
<1>3. HInv => HooksStay
  BY <1>1 DEF HooksStay
<1> QED
  BY <1>2, <1>3, InitHInv, PTL DEF Dhooks!Spec
-----------------------------------------------------------------------------
(* Authority: who may act on whom.                                         *)

Person == [connection : Nat, account : Accounts, steam : Accounts, authenticated : BOOLEAN, bot : BOOLEAN]
Right == [permissions : SUBSET STRING, root : BOOLEAN, immunity : Nat]

\* What is authenticated has the name that Steam gave it, and no account is there twice.
Identified(pl) ==
    /\ pl \in [Seats -> Person \cup {Nothing}]
    /\ \A p \in Seats : pl[p] # Nothing =>
          /\ pl[p].connection <= used
          /\ pl[p].authenticated => ~pl[p].bot /\ pl[p].steam = pl[p].account
    /\ \A p, q \in Seats : /\ pl[p] # Nothing /\ pl[p].authenticated
                           /\ pl[q] # Nothing /\ pl[q].authenticated
                           /\ pl[p].account = pl[q].account
                           => p = q

\* A handle is of a connection that there was, and its account is that connection's.
Meant(pl) ==
    \A h \in chosen :
        /\ h.slot \in Seats /\ h.connection \in Nat /\ h.connection <= used
        /\ pl[h.slot] # Nothing /\ pl[h.slot].connection = h.connection => pl[h.slot].account = h.account

FilesKnown ==
    /\ groupFile \in {Absent, Garbage} \cup GroupFiles /\ adminFile \in {Absent, Garbage} \cup AdminFiles
    /\ \A x \in DOMAIN admins : admins[x] \in Right

RInv == used \in Nat /\ Identified(player) /\ Meant(player) /\ FilesKnown

LEMMA AuthorityNames ==
    /\ MaxConnection \in Nat /\ Nothing \notin Right
    /\ \A groups \in GroupFiles : \A x \in DOMAIN groups :
          groups[x] \in [permissions : SUBSET STRING, immunity : Nat]
    /\ \A entries \in AdminFiles : \A x \in DOMAIN entries :
          entries[x] \in [group : STRING, immunity : Nat \cup {Nothing}]
BY AuthorityAssumption DEF Right

\* Reading the files gives records, or leaves those there are.
LEMMA LoadedKnown == ASSUME FilesKnown PROVE \A x \in DOMAIN Authority!Loaded : Authority!Loaded[x] \in Right
<1>1. CASE Authority!Unreadable
  BY <1>1 DEF FilesKnown, Authority!Loaded
<1>2. CASE ~Authority!Unreadable /\ groupFile = Absent
  BY <1>2 DEF Authority!Loaded, Authority!Nobody
<1>3. CASE ~Authority!Unreadable /\ groupFile # Absent
  <2>1. /\ groupFile \in GroupFiles /\ adminFile \in AdminFiles
        /\ \A x \in DOMAIN adminFile : adminFile[x].group \in DOMAIN groupFile
    BY <1>3 DEF FilesKnown, Authority!Unreadable
  <2>2. ASSUME NEW x \in DOMAIN adminFile PROVE Authority!Resolved(groupFile, adminFile)[x] \in Right
    <3>1. adminFile[x] \in [group : STRING, immunity : Nat \cup {Nothing}]
      BY <2>1, <2>2, AuthorityNames
    <3>2. groupFile[adminFile[x].group] \in [permissions : SUBSET STRING, immunity : Nat]
      BY <2>1, <2>2, AuthorityNames
    <3> QED
      BY <3>1, <3>2 DEF Authority!Resolved, Right
  <2>3. DOMAIN Authority!Resolved(groupFile, adminFile) = DOMAIN adminFile
    BY DEF Authority!Resolved
  <2> QED
    BY <1>3, <2>2, <2>3 DEF Authority!Loaded
<1> QED
  BY <1>1, <1>2, <1>3

LEMMA AuthorityBegins == Authority!Init => RInv
BY DEF Authority!Init, Authority!Nobody, RInv, Identified, Meant, FilesKnown

\* Another person sits in a place, or nobody, or the same one and is authenticated.
LEMMA SeatChanged ==
    ASSUME RInv, NEW p \in Seats, NEW x \in Person \cup {Nothing}, player' = [player EXCEPT ![p] = x],
           used' \in Nat, used <= used', UNCHANGED <<groupFile, adminFile, admins, chosen>>,
           x # Nothing => /\ x.connection <= used'
                          /\ x.authenticated => /\ ~x.bot /\ x.steam = x.account
                                                /\ \A q \in Seats \ {p} :
                                                      player[q] # Nothing /\ player[q].account = x.account
                                                      => ~player[q].authenticated
                          /\ \/ x.connection > used
                             \/ /\ player[p] # Nothing
                                /\ x.connection = player[p].connection /\ x.account = player[p].account
    PROVE  RInv'
<1>1. player' \in [Seats -> Person \cup {Nothing}] /\ used \in Nat
  BY DEF RInv, Identified
<1>2. /\ player'[p] = x
      /\ \A q \in Seats \ {p} : player'[q] = player[q]
  BY DEF RInv, Identified
<1>3. \A q \in Seats : player'[q] # Nothing => player'[q].connection \in Nat
  BY <1>1 DEF Person
<1>4. \A q \in Seats : player[q] # Nothing => player[q].connection \in Nat
  BY DEF Person, RInv, Identified
<1>5. Identified(player)'
  <2>1. ASSUME NEW q \in Seats, player'[q] # Nothing
        PROVE  /\ player'[q].connection <= used'
               /\ player'[q].authenticated => ~player'[q].bot /\ player'[q].steam = player'[q].account
    <3>1. CASE q = p
      BY <1>2, <2>1, <3>1
    <3>2. CASE q # p
      <4>1. player'[q] = player[q] /\ player[q].connection <= used
        BY <1>2, <2>1, <3>2 DEF RInv, Identified
      <4>2. player'[q].connection <= used'
        BY <1>1, <1>4, <2>1, <4>1
      <4> QED
        BY <2>1, <4>1, <4>2 DEF RInv, Identified
    <3> QED
      BY <3>1, <3>2
  <2>2. ASSUME NEW q \in Seats, NEW r \in Seats, player'[q] # Nothing, player'[q].authenticated,
               player'[r] # Nothing, player'[r].authenticated, player'[q].account = player'[r].account
        PROVE  q = r
    <3>1. CASE q # p /\ r # p
      BY <1>2, <2>2, <3>1 DEF RInv, Identified
    <3>2. CASE q = p \/ r = p
      BY <1>2, <2>2, <3>2
    <3> QED
      BY <3>1, <3>2
  <2> QED
    BY <1>1, <2>1, <2>2 DEF Identified
<1>6. Meant(player)'
  <2>1. ASSUME NEW h \in chosen
        PROVE  /\ h.slot \in Seats /\ h.connection \in Nat /\ h.connection <= used'
               /\ player'[h.slot] # Nothing /\ player'[h.slot].connection = h.connection
                  => player'[h.slot].account = h.account
    <3>1. /\ h.slot \in Seats /\ h.connection \in Nat /\ h.connection <= used
          /\ player[h.slot] # Nothing /\ player[h.slot].connection = h.connection
             => player[h.slot].account = h.account
      BY DEF RInv, Meant
    <3>2. h.connection <= used'
      BY <1>1, <3>1
    <3>3. CASE h.slot = p
      BY <1>1, <1>2, <1>3, <3>1, <3>2, <3>3
    <3>4. CASE h.slot # p
      BY <1>2, <3>1, <3>2, <3>4
    <3> QED
      BY <3>3, <3>4
  <2> QED
    BY <2>1 DEF Meant
<1> QED
  BY <1>5, <1>6 DEF RInv, FilesKnown

\* A player joins, leaves, is kicked or is authenticated.
LEMMA JoinStep ==
    ASSUME RInv, NEW p \in Seats, NEW account \in Accounts, NEW steam \in Accounts, NEW bot \in BOOLEAN,
           Authority!Join(p, account, steam, bot)
    PROVE  RInv'
<1> DEFINE new == [connection |-> used + 1, account |-> account, steam |-> steam,
                   authenticated |-> FALSE, bot |-> bot]
<1>1. /\ used' = used + 1 /\ used \in Nat /\ player' = [player EXCEPT ![p] = new]
      /\ UNCHANGED <<groupFile, adminFile, admins, chosen>>
  BY DEF Authority!Join, RInv
<1>2. new \in Person /\ new.connection = used + 1 /\ new.authenticated = FALSE
  BY <1>1 DEF Person
<1> HIDE DEF new
<1>3. used' \in Nat /\ used <= used' /\ new.connection > used /\ new.connection <= used'
  BY <1>1, <1>2
<1> QED
  BY <1>1, <1>2, <1>3, SeatChanged

LEMMA LeaveStep ==
    ASSUME RInv, NEW p \in Seats, player' = [player EXCEPT ![p] = Nothing],
           UNCHANGED <<groupFile, adminFile, admins, used, chosen>>
    PROVE  RInv'
<1>1. used' \in Nat /\ used <= used'
  BY DEF RInv
<1> QED
  BY <1>1, SeatChanged

LEMMA AuthenticateStep == ASSUME RInv, NEW p \in Seats, Authority!Authenticate(p) PROVE RInv'
<1> DEFINE old == player[p]
           new == [old EXCEPT !.authenticated = TRUE, !.steam = old.account]
<1>1. /\ old # Nothing /\ old \in Person /\ ~old.bot /\ old.connection <= used
      /\ player \in [Seats -> Person \cup {Nothing}] /\ used \in Nat
      /\ UNCHANGED <<groupFile, adminFile, admins, used, chosen>>
  BY DEF Authority!Authenticate, RInv, Identified
<1>2. /\ new \in Person /\ new.connection = old.connection /\ new.account = old.account
      /\ new.steam = old.account /\ ~new.bot
  BY <1>1 DEF Person
<1>3. player' = [player EXCEPT ![p] = new]
  BY <1>1 DEF Authority!Authenticate
<1>4. \A q \in Seats : player[q] # Nothing /\ player[q].account = old.account => ~player[q].authenticated
  BY DEF Authority!Authenticate, Authority!Online
<1> HIDE DEF new, old
<1>5. used' \in Nat /\ used <= used' /\ new.connection <= used'
  BY <1>1, <1>2
<1> QED
  BY <1>1, <1>2, <1>3, <1>4, <1>5, SeatChanged DEF old

\* The handles that FindTargets gives are of players who are in their places.
LEMMA FindStep ==
    ASSUME RInv, NEW caller, NEW selector, NEW multiple, Authority!FindTargets(caller, selector, multiple)
    PROVE  RInv'
<1> DEFINE found == Authority!Selected(caller, selector)
           handle(p) == [caller |-> IF caller = Console THEN Console ELSE caller.connection,
                         connection |-> p.connection, slot |-> CHOOSE q \in Seats : player[q] = p,
                         account |-> p.account]
<1>1. /\ chosen' = {handle(p) : p \in found}
      /\ UNCHANGED <<groupFile, adminFile, admins, player, used>>
  BY DEF Authority!FindTargets
<1>2. found \subseteq Authority!Online
  BY DEF Authority!Selected, Authority!Exact
<1>3. ASSUME NEW h \in chosen'
      PROVE  /\ h.slot \in Seats /\ h.connection \in Nat /\ h.connection <= used
             /\ player[h.slot].account = h.account
  <2>1. PICK p \in found : h = handle(p)
    BY <1>1
  <2>2. PICK q \in Seats : player[q] = p /\ p # Nothing
    BY <1>2 DEF Authority!Online
  <2> DEFINE s == CHOOSE r \in Seats : player[r] = p
  <2>3. s \in Seats /\ player[s] = p
    BY <2>2
  <2>4. h.slot = s /\ h.connection = p.connection /\ h.account = p.account
    BY <2>1
  <2>5. p \in Person /\ p.connection <= used
    BY <2>2 DEF RInv, Identified
  <2> QED
    BY <2>3, <2>4, <2>5 DEF Person
<1> HIDE DEF handle, found
<1>4. Meant(player)'
  BY <1>1, <1>3 DEF Meant
<1>5. Identified(player)' /\ FilesKnown' /\ used' \in Nat
  BY <1>1 DEF RInv, Identified, FilesKnown
<1> QED
  BY <1>4, <1>5 DEF RInv

LEMMA FilesStep ==
    ASSUME RInv, UNCHANGED <<player, used, chosen>>, FilesKnown'
    PROVE  RInv'
BY DEF RInv, Identified, Meant

LEMMA AuthorityStep == ASSUME RInv, [Authority!Next]_authority PROVE RInv'
<1>1. CASE Authority!EditGroups \/ Authority!EditAdmins
  BY <1>1, FilesStep DEF Authority!EditGroups, Authority!EditAdmins, RInv, FilesKnown
<1>2. ASSUME NEW p \in Seats, Authority!Leave(p) PROVE RInv'
  BY <1>2, LeaveStep DEF Authority!Leave
<1>3. ASSUME NEW caller, Authority!Reload(caller) PROVE RInv'
  <2>1. FilesKnown' /\ UNCHANGED <<player, used, chosen>>
    BY <1>3, LoadedKnown DEF Authority!Reload, RInv, FilesKnown
  <2> QED
    BY <2>1, FilesStep
<1>4. ASSUME NEW h \in chosen, NEW caller, Authority!Kick(caller, h) PROVE RInv'
  <2>1. h.slot \in Seats
    BY DEF RInv, Meant
  <2> QED
    BY <1>4, <2>1, LeaveStep DEF Authority!Kick
<1>5. CASE UNCHANGED authority
  BY <1>5 DEF authority, RInv, Identified, Meant, FilesKnown
<1> QED
  BY <1>1, <1>2, <1>3, <1>4, <1>5, JoinStep, AuthenticateStep, FindStep DEF Authority!Next

\* Who is authenticated has the immunity and the permissions of the account.
LEMMA OfAccount ==
    ASSUME RInv, NEW p \in Authority!Online, Authority!Authenticated(p)
    PROVE  /\ p.steam = p.account /\ Authority!Immunity(p) = Authority!Record(p.account).immunity
           /\ Authority!Immunity(p) = IF p.steam \in DOMAIN admins THEN admins[p.steam].immunity ELSE 0
           /\ Authority!Allows(p, "kick") =>
                 \/ Authority!Record(p.account).root
                 \/ "kick" \in Authority!Record(p.account).permissions
<1>1. p.steam = p.account
  BY DEF RInv, Identified, Authority!Online, Authority!Authenticated
<1>2. CASE p.steam \in DOMAIN admins
  <2>1. admins[p.steam] # Nothing
    BY <1>2, AuthorityNames DEF RInv, FilesKnown
  <2> QED
    BY <1>1, <1>2, <2>1 DEF Authority!Immunity, Authority!Find, Authority!Record, Authority!Allows
<1>3. CASE p.steam \notin DOMAIN admins
  BY <1>1, <1>3 DEF Authority!Immunity, Authority!Find, Authority!Record, Authority!Allows
<1> QED
  BY <1>2, <1>3

LEMMA KicksJustified == RInv => Authority!KicksAreJustified
<1> SUFFICES ASSUME RInv, NEW h \in chosen, NEW caller \in Authority!Caller(h) \ {Console},
                    Authority!MayAct(caller, h, "kick")
             PROVE  LET target == player[h.slot]
                        mine == Authority!Record(caller.account)
                    IN  /\ target.account = h.account
                        /\ mine.root \/ "kick" \in mine.permissions
                        /\ ~Authority!Same(caller, target) /\ ~target.bot =>
                              mine.immunity > Authority!Record(target.account).immunity
  BY DEF Authority!KicksAreJustified
<1> DEFINE target == player[h.slot]
<1>1. /\ caller \in Authority!Online /\ Authority!Authenticated(caller) /\ Authority!Allows(caller, "kick")
      /\ target.bot \/ Authority!Authenticated(target)
      /\ Authority!Same(caller, target) \/ Authority!Immunity(caller) > Authority!Immunity(target)
  BY DEF Authority!Caller, Authority!Callers, Authority!MayAct, Authority!CanTarget
<1>2. target \in Authority!Online /\ target.account = h.account
  BY DEF Authority!MayAct, Authority!Is, Authority!Online, RInv, Meant
<1> HIDE DEF target
<1>3. ASSUME Authority!Authenticated(target)
      PROVE  Authority!Immunity(target) = Authority!Record(target.account).immunity
  BY <1>2, <1>3, OfAccount
<1>4. /\ Authority!Immunity(caller) = Authority!Record(caller.account).immunity
      /\ Authority!Record(caller.account).root \/ "kick" \in Authority!Record(caller.account).permissions
  BY <1>1, OfAccount
<1> QED
  BY <1>1, <1>2, <1>3, <1>4 DEF target

LEMMA OnlineAsOffline == RInv => Authority!OnlineOrNot
<1> SUFFICES ASSUME RInv, NEW caller \in Authority!Online, NEW target \in Authority!Online,
                    Authority!Authenticated(target), ~Authority!Same(caller, target)
             PROVE  Authority!CanTarget(caller, target, "kick")
                    <=> Authority!CanTargetIdentity(caller, target.steam, "kick")
  BY DEF Authority!OnlineOrNot
<1>1. Authority!Immunity(target) = IF target.steam \in DOMAIN admins THEN admins[target.steam].immunity ELSE 0
  BY OfAccount
<1>2. ASSUME Authority!Authenticated(caller) PROVE caller.steam # target.steam
  <2>1. PICK p \in Seats, q \in Seats : caller = player[p] /\ target = player[q]
    BY DEF Authority!Online
  <2>2. p # q
    BY <2>1 DEF Authority!Same
  <2>3. caller.account # target.account
    BY <1>2, <2>1, <2>2 DEF Authority!Online, Authority!Authenticated, RInv, Identified
  <2> QED
    BY <1>2, <2>3, OfAccount
<1> QED
  BY <1>1, <1>2 DEF Authority!CanTarget, Authority!CanTargetIdentity

LEMMA ReloadWhole == [Authority!Next]_authority => Authority!ReloadIsWhole
<1> SUFFICES ASSUME Authority!Next, admins' # admins PROVE ~Authority!Unreadable
  BY DEF authority, Authority!ReloadIsWhole
<1>1. PICK caller : Authority!Reload(caller)
  BY DEF Authority!Next, Authority!EditGroups, Authority!EditAdmins, Authority!Leave, Authority!Authenticate,
         Authority!Join, Authority!FindTargets, Authority!Kick
<1> QED
  BY <1>1 DEF Authority!Reload, Authority!Loaded

\* For any files, accounts, slots and number of connections: who is kicked is the person
\* whom the target selector found, and his true immunity is below that of the caller,
\* whatever was edited, reloaded and authenticated since (Permissions::CanTarget).
THEOREM RightsHold == Authority!Spec => AuthorityHolds
<1>1. RInv /\ [Authority!Next]_(Authority!vars) => RInv'
  BY AuthorityStep DEF authority, Authority!vars
<1>2. RInv /\ RInv' /\ [Authority!Next]_(Authority!vars) => [Authority!RightfulStep]_authority
  <2> SUFFICES ASSUME RInv', [Authority!Next]_authority PROVE Authority!RightfulStep
    BY DEF authority, Authority!vars
  <2>1. Authority!KicksAreJustified' /\ Authority!OnlineOrNot'
    BY KicksJustified, OnlineAsOffline, PTL
  <2> QED
    BY <2>1, ReloadWhole DEF Authority!RightfulStep
<1> QED
  BY <1>1, <1>2, AuthorityBegins, PTL DEF Authority!Spec, AuthorityHolds
=============================================================================
