-------------------------------- MODULE Voice --------------------------------
(***************************************************************************)
(* src/voice.cpp: mutes.  A script mutes a player by making the engine     *)
(* stop every other player listening to him.  Source2Root records what the *)
(* game last asked for, so that it can be given back, and watches the      *)
(* engine's SetClientListening for later requests.                         *)
(*                                                                         *)
(* Every host call may fail, so a mute may be recorded and not be in force *)
(* and a listener may stay deaf after the mute has ended; Refresh, once a  *)
(* second, tries again.  A call of Voice is one step: no player comes or   *)
(* goes while the server thread is inside it.                              *)
(***************************************************************************)
EXTENDS Naturals, FiniteSets

CONSTANTS Slots,          \* player slots
          Senders,        \* the slots of the players that scripts mute
          Owners,         \* the scripts, by Script::owner
          MaxConnections, \* bound: players that join
          None

ASSUME VoiceAssumption ==
    /\ Senders \subseteq Slots /\ IsFiniteSet(Slots) /\ IsFiniteSet(Owners)
    /\ MaxConnections \in Nat /\ None \notin Owners

VARIABLES
    connection, \* the connection in each slot; 0 is none
    joined,     \* the connections so far
    listening,  \* the engine: does a receiver listen to a sender?
    wanted,     \* history: what the game last asked of the engine
    script,     \* per owner: "running", "retiring" or "gone"
    owners,     \* owners_: per script and slot, the connection that is muted; 0 is none
    suspended,  \* suspended_ while suspended is set, None otherwise
    pairs       \* pairs_

vars == <<connection, joined, listening, wanted, script, owners, suspended, pairs>>
world == <<connection, joined, wanted>>

Connections == 1..MaxConnections
Keys == Slots \X Senders
Pair == [rc : Connections, sc : Connections, requested : BOOLEAN, restore : Owners \cup {None}]
Mutes == [Owners -> [Senders -> 0..MaxConnections]]
NoMutes == [o \in Owners |-> [s \in Senders |-> 0]]

\* The empty pair and the empty snapshot are none of these.
ASSUME NoneAssumption == None \notin Pair \cup Mutes

Init ==
    /\ connection = [s \in Slots |-> 0] /\ joined = 0
    /\ listening = [k \in Keys |-> TRUE] /\ wanted = listening
    /\ script = [o \in Owners |-> "running"]
    /\ owners = NoMutes /\ suspended = None
    /\ pairs = [k \in Keys |-> None]

-----------------------------------------------------------------------------
(* A call changes the mutes, the pairs and the engine: its view.           *)

View == [owners |-> owners, pairs |-> pairs, listening |-> listening]
Become(v) == owners' = v.owners /\ pairs' = v.pairs /\ listening' = v.listening

Muted(v, s, c) == c # 0 /\ \E o \in Owners : v.owners[o][s] = c

\* Voice::Current of a pair, and Pair::Same with the players that are connected.
Connected(k) == connection[k[1]] # 0 /\ connection[k[2]] # 0
IsCurrent(k, pair) == pair # None /\ pair.rc = connection[k[1]] /\ pair.sc = connection[k[2]]

NewPair(k, requested) ==
    [rc |-> connection[k[1]], sc |-> connection[k[2]], requested |-> requested, restore |-> None]

\* For which of S the host calls succeed: for all when it does not fail, else for any.
Reached(S, sure) == IF sure THEN {S} ELSE SUBSET S

\* Apply, for every slot of S: the restriction of the player there for every receiver.
\* No two slots share a pair.  At a receiver the host may fail before anything is
\* recorded, or when the engine is written.
Receivers(S) == {k \in Keys : k[2] \in S /\ Connected(k)}
ToWrite_New(v, S) == {k \in Receivers(S) : ~IsCurrent(k, v.pairs[k])}
ToWrite(v, S) == Receivers(S)
Restriction(v, S, recorded, written) ==
    [ok |-> recorded = Receivers(S) /\ written = ToWrite(v, S),
     view |-> [v EXCEPT
         !.pairs = [k \in Keys |-> IF k \in recorded /\ ~IsCurrent(k, v.pairs[k])
                                   THEN NewPair(k, v.listening[k]) ELSE v.pairs[k]],
         !.listening = [k \in Keys |-> v.listening[k] /\ k \notin written]]]
Apply(v, S, sure) ==
    UNION {{Restriction(v, S, recorded, written) :
                written \in {W \in Reached(ToWrite(v, S), sure) : W \subseteq recorded}} :
           recorded \in Reached(Receivers(S), sure)}

\* Removed: the pairs that no mute needs any more are now for o to restore.
Removed(v, o, s, c) ==
    IF Muted(v, s, c) THEN v
    ELSE [v EXCEPT !.pairs = [k \in Keys |->
             IF k[2] = s /\ v.pairs[k] # None /\ v.pairs[k].sc = c
             THEN [v.pairs[k] EXCEPT !.restore = o] ELSE v.pairs[k]]]

\* Restore: the listening that was asked for is given back for the pairs of P.  A pair
\* whose players have gone is dropped; one for which the host fails is kept.
MayRestore_Any(v, k) == v.pairs[k] # None
MayRestore(v, k) == v.pairs[k] # None /\ ~Muted(v, k[2], v.pairs[k].sc)
Restoration(v, due, done) ==
    [ok |-> done = due,
     view |-> [v EXCEPT
         !.pairs = [k \in Keys |-> IF k \in done THEN None ELSE v.pairs[k]],
         !.listening = [k \in Keys |-> IF k \in done /\ IsCurrent(k, v.pairs[k])
                                       THEN v.pairs[k].requested ELSE v.listening[k]]]]
Restore(v, sure, P) ==
    LET due == {k \in Keys : k \in P /\ MayRestore(v, k)}
    IN  {Restoration(v, due, done) : done \in Reached(due, sure)}

\* The pairs script o answers for.
OwedBy(v, o) == {k \in Keys : v.pairs[k] # None /\ v.pairs[k].restore = o}

\* Refresh: the mutes of players who have gone are dropped, what nobody mutes is
\* restored, and the rest is applied again.  A lookup may fail for any mute.
Mutings(v) == {e \in Owners \X Senders : v.owners[e[1]][e[2]] # 0}
InForce(v) == {e \in Mutings(v) : v.owners[e[1]][e[2]] = connection[e[2]]}
Kept(v, unknown) ==
    [v EXCEPT !.owners = [o \in Owners |-> [s \in Senders |->
        IF <<o, s>> \in InForce(v) \cup unknown THEN v.owners[o][s] ELSE 0]]]
Reapplied(r, v, unknown, sure) ==
    {[ok |-> unknown = {} /\ r.ok /\ a.ok, view |-> a.view] :
        a \in Apply(r.view, {e[2] : e \in InForce(v) \ unknown}, sure)}
Refreshed(v, sure) ==
    UNION {UNION {Reapplied(r, v, unknown, sure) : r \in Restore(Kept(v, unknown), sure, Keys)} :
           unknown \in IF sure THEN {{}} ELSE SUBSET Mutings(v)}

-----------------------------------------------------------------------------
(* The calls.  A paused Source2Root runs no script and no frame.           *)

Awake == suspended = None

\* Set(..., true): the host is asked whether it supports voice at all; from there on
\* the mute is recorded even if it cannot be put in force everywhere.
Mute(o, s) ==
    /\ Awake /\ script[o] = "running" /\ connection[s] # 0
    /\ \E r \in Apply([View EXCEPT !.owners[o][s] = connection[s]], {s}, FALSE) : Become(r.view)
    /\ UNCHANGED <<world, script, suspended>>

\* Set(..., false).
Unmute(o, s) ==
    /\ Awake /\ script[o] = "running" /\ connection[s] # 0
    /\ LET c == connection[s]
           v == Removed([View EXCEPT !.owners[o][s] = 0], o, s, c)
       IN  \E r \in Restore(v, FALSE, {k \in OwedBy(v, o) : k[2] = s /\ v.pairs[k].sc = c}) :
              Become(r.view)
    /\ UNCHANGED <<world, script, suspended>>

\* Release: the mutes of the owners in S go, and each answers for what was his.  When
\* several muted one player the last of them does: owners_ is a map.
Muters(v, S, k) == {o \in S : v.pairs[k] # None /\ v.owners[o][k[2]] = v.pairs[k].sc}
Without(v, S) ==
    [v EXCEPT !.owners = [o \in Owners |-> IF o \in S THEN NoMutes[o] ELSE v.owners[o]]]
Handing(v, S, last) ==
    [k \in Keys |-> IF Muters(v, S, k) # {}
                    THEN Removed(Without(v, S), last[k], k[2], v.pairs[k].sc).pairs[k] ELSE v.pairs[k]]
Forgotten(v, S) ==
    {[Without(v, S) EXCEPT !.pairs = Handing(v, S, last)] :
        last \in {f \in [Keys -> Owners] : \A k \in Keys : Muters(v, S, k) # {} => f[k] \in Muters(v, S, k)}}

\* Release(owner), from Cleanup.  The script is gone when this and the rest of its
\* cleanup succeeded, and otherwise it is retained and released again.
Release(o) ==
    /\ script[o] # "gone"
    /\ \E v \in Forgotten(View, {o}) : \E r \in Restore(v, FALSE, OwedBy(v, o)) :
          /\ Become(r.view)
          /\ \/ script' = [script EXCEPT ![o] = "retiring"]
             \/ r.ok /\ script' = [script EXCEPT ![o] = "gone"]
    /\ suspended' = IF suspended = None THEN None ELSE [suspended EXCEPT ![o] = NoMutes[o]]
    /\ UNCHANGED world

\* Release(0), from MapChanged and Shutdown.
ReleaseAll ==
    /\ \E v \in Forgotten(View, Owners) : \E r \in Restore(v, FALSE, Keys) : Become(r.view)
    /\ suspended' = None
    /\ UNCHANGED <<world, script>>

\* Refresh, from Tick.
Refresh(sure) ==
    /\ Awake
    /\ \E r \in Refreshed(View, sure) : Become(r.view)
    /\ UNCHANGED <<world, script, suspended>>

\* Suspend, from PreparePause: every mute is lifted, or the pause is refused and the
\* mutes stand.
Lifted == [View EXCEPT !.owners = NoMutes]
Suspend ==
    /\ Awake
    /\ \E r \in Restore(Lifted, FALSE, Keys) :
          \/ r.ok /\ Become(r.view) /\ suspended' = owners
          \/ /\ ~r.ok
             /\ \E q \in Refreshed([r.view EXCEPT !.owners = owners], FALSE) : Become(q.view)
             /\ UNCHANGED suspended
    /\ UNCHANGED <<world, script>>

\* Resume, from NativeResumed.
Resume ==
    /\ ~Awake
    /\ \E r \in Refreshed([View EXCEPT !.owners = suspended], FALSE) : Become(r.view)
    /\ suspended' = None
    /\ UNCHANGED <<world, script>>

\* Filter: the game asks the engine for listening[k].  When a lookup fails the request is
\* refused, and nothing changes.
Filtered_First(k, asked) ==
    IF Muted(View, k[2], connection[k[2]]) /\ ~IsCurrent(k, pairs[k])
    THEN [pairs EXCEPT ![k] = NewPair(k, asked)] ELSE pairs
Filtered(k, asked) ==
    IF Muted(View, k[2], connection[k[2]]) \/ IsCurrent(k, pairs[k])
    THEN [pairs EXCEPT ![k] = [NewPair(k, asked) EXCEPT
             !.restore = IF IsCurrent(k, pairs[k]) THEN pairs[k].restore ELSE None]]
    ELSE pairs
Filter(k, asked) ==
    /\ Connected(k)
    /\ wanted' = [wanted EXCEPT ![k] = asked]
    /\ listening' = [listening EXCEPT ![k] = asked /\ ~Muted(View, k[2], connection[k[2]])]
    /\ pairs' = Filtered(k, asked)
    /\ UNCHANGED <<connection, joined, script, owners, suspended>>

\* Disconnected: what belongs to a connection that ended is dropped.
Disconnected(s, c) ==
    /\ c # connection[s]
    /\ LET Spared(m) == [o \in Owners |-> [t \in Senders |-> IF t = s /\ m[o][t] = c THEN 0 ELSE m[o][t]]]
       IN  /\ owners' = Spared(owners)
           /\ suspended' = IF suspended = None THEN None ELSE Spared(suspended)
    /\ pairs' = [k \in Keys |->
           IF pairs[k] # None /\ ((k[1] = s /\ pairs[k].rc = c) \/ (k[2] = s /\ pairs[k].sc = c))
           THEN None ELSE pairs[k]]
    /\ UNCHANGED <<world, listening, script>>

\* A player comes, with the listening the game then has for him, or goes.  Source2Root is
\* told of his going later, or not at all while it is paused.
Touches(k, s) == k[1] = s \/ k[2] = s
Join(s) ==
    /\ connection[s] = 0 /\ joined < MaxConnections
    /\ joined' = joined + 1 /\ connection' = [connection EXCEPT ![s] = joined']
    /\ \E b \in BOOLEAN :
          /\ listening' = [k \in Keys |-> IF Touches(k, s) THEN b ELSE listening[k]]
          /\ wanted' = [k \in Keys |-> IF Touches(k, s) THEN b ELSE wanted[k]]
    /\ UNCHANGED <<script, owners, suspended, pairs>>

Leave(s) ==
    /\ connection[s] # 0
    /\ connection' = [connection EXCEPT ![s] = 0]
    /\ listening' = [k \in Keys |-> Touches(k, s) \/ listening[k]]
    /\ wanted' = [k \in Keys |-> Touches(k, s) \/ wanted[k]]
    /\ UNCHANGED <<joined, script, owners, suspended, pairs>>

Next ==
    \/ \E o \in Owners : Release(o) \/ \E s \in Senders : Mute(o, s) \/ Unmute(o, s)
    \/ ReleaseAll \/ Refresh(FALSE) \/ Suspend \/ Resume
    \/ \E k \in Keys, asked \in BOOLEAN : Filter(k, asked)
    \/ \E s \in Slots : Join(s) \/ Leave(s) \/ \E c \in Connections : Disconnected(s, c)

Spec == Init /\ [][Next]_vars

\* Refresh is called every second, and the host does not fail for ever.
FairSpec == Spec /\ SF_vars(Refresh(TRUE))

-----------------------------------------------------------------------------
\* The maps have their types, and while Source2Root is paused it mutes nobody and owes
\* nothing: Suspend lifts every mute or refuses the pause.
TypeOK ==
    /\ connection \in [Slots -> 0..joined] /\ joined \in 0..MaxConnections
    /\ listening \in [Keys -> BOOLEAN] /\ wanted \in [Keys -> BOOLEAN]
    /\ script \in [Owners -> {"running", "retiring", "gone"}]
    /\ owners \in Mutes /\ suspended \in Mutes \cup {None}
    /\ pairs \in [Keys -> Pair \cup {None}]
    /\ suspended # None => owners = NoMutes /\ \A k \in Keys : pairs[k] = None

MutedNow(s) == Muted(View, s, connection[s])

\* What the game last asked for is never forgotten: while a mute hides it, or its
\* restoration is pending, it is recorded; otherwise the engine has it.
RequestKept ==
    \A k \in Keys : Connected(k) =>
        IF IsCurrent(k, pairs[k]) THEN pairs[k].requested = wanted[k] ELSE listening[k] = wanted[k]

\* A pair that waits for its restoration has a script that answers for it and is still
\* loaded, so that unloading the script is refused until the pair is restored; and a
\* script that is gone mutes nobody.
AnsweredFor ==
    /\ \A k \in Keys : IsCurrent(k, pairs[k]) /\ ~MutedNow(k[2]) =>
          pairs[k].restore # None /\ script[pairs[k].restore] # "gone"
    /\ \A o \in Owners : script[o] = "gone" => owners[o] = NoMutes[o]

\* Nothing is lost of what Source2Root has to give back.
RestorationIsOwed == TypeOK /\ RequestKept /\ AnsweredFor

\* Once a muted player is not heard by a receiver he stays unheard, whatever the game
\* asks for and whoever else ends his own mute; only a pause that is tried and refused
\* lets him be heard for a while.
MuteHolds ==
    [][\A k \in Keys :
          /\ MutedNow(k[2]) /\ MutedNow(k[2])' /\ ~listening[k] /\ listening'[k]
          /\ Connected(k) /\ connection'[k[1]] = connection[k[1]] /\ connection'[k[2]] = connection[k[2]]
          => Suspend]_vars

\* However often the host fails, and whatever scripts and the game ask for, again and
\* again every mute is in force and every other player is heard by those the game wants
\* to hear him.
Settled(k) ==
    Connected(k) => IF MutedNow(k[2]) THEN ~listening[k] ELSE listening[k] = wanted[k]
VoiceSettles == []<>(\A k \in Keys : Settled(k))
=============================================================================
