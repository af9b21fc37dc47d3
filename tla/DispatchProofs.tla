--------------------------- MODULE DispatchProofs ---------------------------
(***************************************************************************)
(* Proofs about Dispatch, for any scripts, players, delays and limits: a   *)
(* timer waits exactly while its script runs, what a script asked for is   *)
(* still wanted, and only what is due is called.                           *)
(***************************************************************************)
EXTENDS Dispatch, FiniteSetTheorems, TLAPS

-----------------------------------------------------------------------------
(* The invariant: of one script, of all of them, of the frame.             *)

\* What holds of the timers of a script at any time, whatever its state: their targets
\* are held, none that survives a map change has one, and no two have one id.
Held(script, clock, ids) ==
    /\ script \in Runtime /\ script.suspended <= clock
    /\ \A t \in script.timers :
          (t.target # 0 => t.target \in script.players) /\ (t.across => t.target = 0) /\ t.id <= ids
    /\ \A t, u \in script.timers : t.id = u.id => t = u

\* The timers have waited until the given time.
Punctual(script, time) == \A t \in script.timers : t.due + t.age = time + t.delay

\* The script in a slot, with the players it may have kicked, and its replacement, which
\* waits for the end of a script that is retiring.
Current(script, clock, ids, kicked) == script # None =>
    /\ Held(script, clock, ids) /\ script.kicks \subseteq kicked
    /\ script.state = "running" => Punctual(script, clock)
    /\ script.state = "paused" => Punctual(script, script.suspended)
Waiting(script, clock, ids) == script # None =>
    /\ Held(script, clock, ids) /\ script.kicks = {}
    /\ script.state # "retiring" /\ Punctual(script, script.suspended)

Kicked(s) == IF Active(s) THEN {frame.player} ELSE {}
InTime ==
    \A s \in Scripts :
        /\ Current(inst[s], now, used.timer, Kicked(s)) /\ Waiting(cand[s], now, used.timer)
        /\ cand[s] # None => Is(s, "retiring")

Used == [connection : Nat, owner : Nat, timer : Nat, failed : Nat]
Typed ==
    /\ now \in Nat /\ conn \in [Slots -> Nat]
    /\ inst \in [Scripts -> Runtime \cup {None}] /\ cand \in [Scripts -> Runtime \cup {None}]
    /\ used \in Used

\* A map change is pending for a script that runs since and whose callbacks succeed.
PendingIsWanted == pending # None =>
    /\ Is(pending.script, "running") /\ inst[pending.script].owner = pending.owner
    /\ inst[pending.script].faults = pending.faults /\ pending.script \in Scripts

\* A frame calls a script that runs, and the timers it goes through are the ones the
\* script has, as far as it still has them.
Frame == [kind : {"tick", "event", "command"}, todo : SUBSET (Scripts \X Nat),
          script : Scripts \cup {None}, snapshot : SUBSET Timer, running : BOOLEAN, player : Nat]
Sees(snapshot, script, ids) ==
    \A t \in snapshot : t.id <= ids /\ \A u \in script.timers : t.id = u.id => t = u
FrameRuns == frame # None =>
    /\ frame \in Frame
    /\ frame.running \/ frame.snapshot # {} => frame.script \in Scripts /\ Is(frame.script, "running")
    /\ frame.snapshot # {} => frame.kind = "tick" /\ Sees(frame.snapshot, inst[frame.script], used.timer)

IInv == Typed /\ InTime /\ PendingIsWanted /\ FrameRuns

-----------------------------------------------------------------------------
(* What the model does to a script, and what it keeps of it.               *)

\* r is the script but for its timers and handles.
Alike(r, script) ==
    /\ r.state = script.state /\ r.owner = script.owner /\ r.faults = script.faults
    /\ r.suspended = script.suspended /\ r.kicks = script.kicks

\* A script stays in order when it loses timers, and when it loses only handles that no
\* timer aims at.
LEMMA FewerTimers ==
    ASSUME NEW script, NEW clock, NEW ids, Held(script, clock, ids), NEW r \in Runtime,
           r.suspended <= clock, r.timers \subseteq script.timers,
           \A t \in r.timers : t.target # 0 => t.target \in r.players
    PROVE  Held(r, clock, ids)
BY DEF Held

\* Time passes, and ids are given, and what was in order still is.
LEMMA LaterIsHeld ==
    ASSUME NEW script, NEW clock \in Nat, NEW ids \in Nat, Held(script, clock, ids),
           NEW then \in Nat, clock <= then, NEW more \in Nat, ids <= more
    PROVE  Held(script, then, more)
<1>1. script.suspended \in Nat /\ \A t \in script.timers : t.id \in Nat
  BY DEF Held, Runtime, Timer
<1> QED
  BY <1>1 DEF Held

\* Disconnected takes handles and the timers that aim at them, and nothing else.
LEMMA RidKeeps ==
    ASSUME NEW script \in Runtime, NEW gone
    PROVE  /\ Rid(script, gone) \in Runtime /\ Rid(script, gone) # None
           /\ Alike(Rid(script, gone), script)
           /\ Rid(script, gone).players = script.players \ gone
           /\ Rid(script, gone).timers = {t \in script.timers : t.target \notin gone \cap script.players}
<1> DEFINE r == [script EXCEPT !.players = @ \ gone,
                              !.timers = {t \in @ : t.target \notin gone \cap script.players}]
<1>1. Rid(script, gone) = r
  BY NoneAssumption DEF Rid
<1>2. /\ r \in Runtime /\ Alike(r, script) /\ r.players = script.players \ gone
      /\ r.timers = {t \in script.timers : t.target \notin gone \cap script.players}
  BY DEF Runtime, Alike
<1> HIDE DEF r
<1> QED
  BY <1>1, <1>2, NoneAssumption

\* Nothing is taken from a slot that is empty.
LEMMA RidOfNone == ASSUME NEW gone PROVE Rid(None, gone) = None
BY DEF Rid

\* After Disconnected every timer still holds its target.
LEMMA RidIsHeld ==
    ASSUME NEW script, NEW clock, NEW ids, Held(script, clock, ids), NEW gone
    PROVE  Held(Rid(script, gone), clock, ids)
<1>1. script \in Runtime /\ script.suspended <= clock
  BY DEF Held
<1> DEFINE r == Rid(script, gone)
<1>2. /\ r \in Runtime /\ Alike(r, script) /\ r.players = script.players \ gone
      /\ r.timers = {t \in script.timers : t.target \notin gone \cap script.players}
  BY <1>1, RidKeeps
<1> HIDE DEF r
<1>3. \A t \in r.timers : t.target # 0 => t.target \in r.players
  BY <1>2 DEF Held
<1>4. Held(r, clock, ids)
  BY <1>1, <1>2, <1>3, FewerTimers DEF Alike
<1> QED
  BY <1>4 DEF r

\* The script in a slot and its replacement stay in time.
LEMMA RidInTime ==
    ASSUME NEW script \in Runtime \cup {None}, NEW clock, NEW ids, NEW kicked, NEW gone
    PROVE  /\ Current(script, clock, ids, kicked) => Current(Rid(script, gone), clock, ids, kicked)
           /\ Waiting(script, clock, ids) => Waiting(Rid(script, gone), clock, ids)
<1>1. CASE script = None
  BY <1>1, RidOfNone
<1>2. CASE script # None
  <2> DEFINE r == Rid(script, gone)
  <2>1. r # None /\ Alike(r, script) /\ r.timers \subseteq script.timers
    BY <1>2, RidKeeps
  <2>2. Held(script, clock, ids) => Held(r, clock, ids)
    BY RidIsHeld
  <2> HIDE DEF r
  <2>3. /\ Current(script, clock, ids, kicked) => Current(r, clock, ids, kicked)
        /\ Waiting(script, clock, ids) => Waiting(r, clock, ids)
    BY <1>2, <2>1, <2>2 DEF Current, Waiting, Alike, Punctual
  <2> QED
    BY <2>3 DEF r
<1> QED
  BY <1>1, <1>2

\* A second passes: the timers of a script that runs are a second older.
LEMMA AgedKeeps ==
    ASSUME NEW script \in Runtime
    PROVE  /\ Aged(script) \in Runtime /\ Alike(Aged(script), script)
           /\ Aged(script).players = script.players
           /\ Aged(script).timers = IF script.state = "running"
                                    THEN {[t EXCEPT !.age = @ + 1] : t \in script.timers}
                                    ELSE script.timers
<1> DEFINE older == {[t EXCEPT !.age = @ + 1] : t \in script.timers}
           r == [script EXCEPT !.timers = older]
<1>1. Aged(script) = IF script.state = "running" THEN r ELSE script
  BY NoneAssumption DEF Aged
<1>2. \A t \in Timer : [t EXCEPT !.age = @ + 1] \in Timer
  BY DEF Timer
<1>3. script.timers \subseteq Timer
  BY DEF Runtime
<1>4. older \subseteq Timer
  BY <1>2, <1>3
<1> HIDE DEF older
<1>5. r \in Runtime /\ Alike(r, script) /\ r.players = script.players /\ r.timers = older
  BY <1>4 DEF Runtime, Alike
<1> HIDE DEF r
<1> QED
  BY <1>1, <1>5 DEF older, Alike

\* So the timers of a script that runs stay on time, and no other script is touched.
LEMMA AgedInTime ==
    ASSUME NEW script \in Runtime \cup {None}, NEW clock \in Nat, NEW ids \in Nat, NEW kicked,
           Current(script, clock, ids, kicked)
    PROVE  Current(Aged(script), clock + 1, ids, kicked)
<1>1. CASE script = None
  BY <1>1, NoneAssumption DEF Aged, Current
<1>2. CASE script # None
  <2> DEFINE r == Aged(script)
  <2>1. /\ r \in Runtime /\ Alike(r, script) /\ r.players = script.players
        /\ r.timers = IF script.state = "running"
                       THEN {[t EXCEPT !.age = @ + 1] : t \in script.timers} ELSE script.timers
    BY <1>2, AgedKeeps
  <2>2. Held(script, clock + 1, ids) /\ script.timers \subseteq Timer
    BY <1>2, LaterIsHeld DEF Current, Held, Runtime
  <2>3. CASE script.state = "running"
    <3>1. \A t \in r.timers : \E u \in script.timers :
             /\ t.id = u.id /\ t.due = u.due /\ t.delay = u.delay /\ t.age = u.age + 1
             /\ t.target = u.target /\ t.across = u.across /\ t = [u EXCEPT !.age = @ + 1]
      BY <2>1, <2>2, <2>3 DEF Timer
    <3> HIDE DEF r
    <3>2. Held(r, clock + 1, ids)
      BY <2>1, <2>2, <3>1 DEF Held, Alike
    <3>3. Punctual(r, clock + 1)
      <4>1. \A u \in script.timers : u.due + u.age = clock + u.delay
                                     /\ u.due \in Nat /\ u.age \in Nat /\ u.delay \in Nat
        BY <1>2, <2>2, <2>3 DEF Current, Punctual, Timer
      <4> QED
        BY <3>1, <4>1 DEF Punctual
    <3>4. Current(r, clock + 1, ids, kicked)
      BY <1>2, <2>1, <2>3, <3>2, <3>3 DEF Current, Alike
    <3> QED
      BY <3>4 DEF r
  <2>4. CASE script.state # "running"
    <3>1. r = script
      BY <1>2, <2>4 DEF Aged
    <3> QED
      BY <2>2, <2>4, <3>1 DEF Current
  <2> QED
    BY <2>3, <2>4
<1> QED
  BY <1>1, <1>2

\* A second passes for what is waiting: nothing changes.
LEMMA WaitingLonger ==
    ASSUME NEW script \in Runtime \cup {None}, NEW clock \in Nat, NEW ids \in Nat,
           Waiting(script, clock, ids), NEW then \in Nat, clock <= then, NEW more \in Nat, ids <= more
    PROVE  Waiting(script, then, more)
BY LaterIsHeld DEF Waiting

\* The same for a script in a slot, when no time passes.
LEMMA MoreIds ==
    ASSUME NEW script \in Runtime \cup {None}, NEW clock \in Nat, NEW ids \in Nat, NEW kicked,
           Current(script, clock, ids, kicked), NEW more \in Nat, ids <= more
    PROVE  Current(script, clock, more, kicked)
BY LaterIsHeld DEF Current

\* Cleanup leaves nothing of a script that could be late.
LEMMA GoneKeeps ==
    ASSUME NEW script \in Runtime, NEW clock \in Nat, NEW ids, NEW kicked
    PROVE  /\ Gone(script) \in Runtime /\ Gone(script) # None /\ Gone(script).state = "retiring"
           /\ Current(Gone(script), clock, ids, kicked)
<1>1. /\ Gone(script) \in Runtime /\ Gone(script).state = "retiring" /\ Gone(script).suspended = 0
      /\ Gone(script).timers = {} /\ Gone(script).kicks = {}
  BY DEF Gone, Runtime
<1> QED
  BY <1>1, NoneAssumption DEF Current, Held

\* A change of the map leaves the timers that are to survive it, and those have no target.
LEMMA CarriedKeeps ==
    ASSUME NEW script \in Runtime
    PROVE  /\ Carried(script) \in Runtime /\ Carried(script) # None
           /\ Carried(script).timers = {t \in script.timers : t.across}
           /\ Carried(script).kicks = {} /\ Carried(script).state = script.state
           /\ Carried(script).suspended = script.suspended
<1> DEFINE r == [script EXCEPT !.timers = {t \in @ : t.across}, !.players = {}, !.kicks = {}]
<1>1. Carried(script) = r
  BY NoneAssumption DEF Carried
<1>2. /\ r \in Runtime /\ r.timers = {t \in script.timers : t.across}
      /\ r.kicks = {} /\ r.state = script.state /\ r.suspended = script.suspended
  BY DEF Runtime
<1> HIDE DEF r
<1> QED
  BY <1>1, <1>2, NoneAssumption

\* So every slot stays in time when the map changes.
LEMMA CarriedInTime ==
    ASSUME NEW script \in Runtime \cup {None}, NEW clock, NEW ids, NEW kicked
    PROVE  /\ Current(script, clock, ids, kicked) => Current(Carried(script), clock, ids, kicked)
           /\ Waiting(script, clock, ids) => Waiting(Carried(script), clock, ids)
<1>1. CASE script = None
  BY <1>1 DEF Carried
<1>2. CASE script # None
  <2> DEFINE r == Carried(script)
  <2>1. /\ r \in Runtime /\ r # None /\ r.timers = {t \in script.timers : t.across} /\ r.kicks = {}
        /\ r.state = script.state /\ r.suspended = script.suspended
    BY <1>2, CarriedKeeps
  <2> HIDE DEF r
  <2>2. Held(script, clock, ids) => Held(r, clock, ids)
    BY <2>1 DEF Held
  <2>3. /\ Current(script, clock, ids, kicked) => Current(r, clock, ids, kicked)
        /\ Waiting(script, clock, ids) => Waiting(r, clock, ids)
    BY <1>2, <2>1, <2>2 DEF Current, Waiting, Punctual
  <2> QED
    BY <2>3 DEF r
<1> QED
  BY <1>1, <1>2

\* ResumeTimers: every timer is due later by the time its script did not run.
LEMMA ShiftedKeeps ==
    ASSUME NEW script, NEW ids, now \in Nat, Held(script, now, ids), Punctual(script, script.suspended)
    PROVE  /\ Held(Shifted(script), now, ids) /\ Punctual(Shifted(script), now)
           /\ Shifted(script).state = script.state /\ Shifted(script).kicks = script.kicks
           /\ Shifted(script).suspended = 0
<1> DEFINE later == {[t EXCEPT !.due = @ + (now - script.suspended)] : t \in script.timers}
           r == Shifted(script)
<1>1. script \in Runtime /\ script.suspended \in Nat /\ script.suspended <= now
  BY DEF Held, Runtime
<1>2. PICK d \in Nat : d = now - script.suspended
  BY <1>1
<1>3. \A t \in script.timers : t \in Timer /\ [t EXCEPT !.due = @ + (now - script.suspended)] \in Timer
  <2>1. \A t \in Timer : [t EXCEPT !.due = @ + d] \in Timer
    BY DEF Timer
  <2>2. script.timers \subseteq Timer
    BY <1>1 DEF Runtime
  <2> QED
    BY <1>2, <2>1, <2>2
<1>4. later \subseteq Timer
  BY <1>3
<1>5. \A t \in later : \E u \in script.timers : t = [u EXCEPT !.due = @ + (now - script.suspended)]
  OBVIOUS
<1>6. \A t \in later : \E u \in script.timers :
        /\ t = [u EXCEPT !.due = @ + (now - script.suspended)]
        /\ t.id = u.id /\ t.due = u.due + (now - script.suspended) /\ t.delay = u.delay /\ t.age = u.age
        /\ t.target = u.target /\ t.across = u.across
  BY <1>3, <1>5 DEF Timer
<1> HIDE DEF later
<1>7. /\ r \in Runtime /\ r.timers = later /\ r.suspended = 0 /\ r.players = script.players
      /\ r.state = script.state /\ r.kicks = script.kicks
  BY <1>1, <1>4 DEF Shifted, Runtime, later
<1> HIDE DEF r
<1>8. Held(r, now, ids)
  BY <1>6, <1>7 DEF Held
<1>9. Punctual(r, now)
  <2>1. \A u \in script.timers : u.due + u.age = script.suspended + u.delay
                               /\ u.due \in Nat /\ u.age \in Nat /\ u.delay \in Nat
    BY <1>3 DEF Punctual, Timer
  <2> QED
    BY <1>1, <1>6, <1>7, <2>1 DEF Punctual
<1> QED
  BY <1>7, <1>8, <1>9 DEF r

\* A new timer.
LEMMA NewTimerIsDue ==
    ASSUME now \in Nat, used.timer \in Nat, NEW delay \in Nat, NEW target \in Nat, NEW across \in BOOLEAN
    PROVE  LET t == NewTimer(delay, target, across)
           IN  /\ t \in Timer /\ t.due + t.age = now + t.delay /\ t.id = used.timer + 1
               /\ t.target = target /\ t.across = across
BY DEF NewTimer, Timer

\* A script that has started, with the timer it created.
LEMMA StartedKeeps ==
    ASSUME now \in Nat, used.timer \in Nat, used.owner \in Nat, NEW created \in BOOLEAN, NEW ids \in Nat,
           ids = IF created THEN used.timer + 1 ELSE used.timer
    PROVE  /\ Held(Started(created), now, ids) /\ Punctual(Started(created), now)
           /\ Started(created) \in Runtime
           /\ Started(created).state = "running" /\ Started(created).suspended = 0
           /\ Started(created).kicks = {}
<1> DEFINE d == CHOOSE x \in Delays : TRUE
           t == NewTimer(d, 0, TRUE)
           timers == IF created THEN {t} ELSE {}
           r == Started(created)
<1>1. d \in Nat
  BY DispatchAssumption
<1> HIDE DEF d
<1>2. /\ t \in Timer /\ t.due + t.age = now + t.delay /\ t.id = used.timer + 1
      /\ t.target = 0 /\ t.across = TRUE
  BY <1>1, NewTimerIsDue
<1>3. r = [Script(used.owner + 1, 0) EXCEPT !.timers = timers]
  BY DEF Started, d
<1> HIDE DEF t
<1>4. /\ r \in Runtime /\ r.timers = timers /\ r.suspended = 0 /\ r.state = "running" /\ r.kicks = {}
  BY <1>2, <1>3 DEF Script, Runtime
<1> HIDE DEF r
<1>5. Held(r, now, ids) /\ Punctual(r, now)
  BY <1>2, <1>4 DEF Held, Punctual
<1> QED
  BY <1>4, <1>5 DEF r

-----------------------------------------------------------------------------
(* What a step must keep for the requests and the frame.                   *)

\* A map change stays wanted, or is canceled, while its script runs on without a fault.
LEMMA PendingStays ==
    ASSUME IInv, pending' \in {pending, None},
           pending' # None => LET s == pending.script IN
               Is(s, "running")' /\ inst'[s].owner = inst[s].owner /\ inst'[s].faults = inst[s].faults
    PROVE  PendingIsWanted'
BY DEF IInv, PendingIsWanted, Is

\* A frame goes on while the script it calls runs and gets no timer back.
LEMMA FrameStays ==
    ASSUME IInv, UNCHANGED frame, used'.timer \in Nat, used.timer <= used'.timer,
           frame # None /\ (frame.running \/ frame.snapshot # {}) => LET s == frame.script IN
               /\ Is(s, "running")'
               /\ \A u \in inst'[s].timers : u \in inst[s].timers \/ (u.id \in Nat /\ u.id > used.timer)
    PROVE  FrameRuns'
<1> SUFFICES ASSUME frame # None PROVE FrameRuns'
  BY DEF FrameRuns
<1> DEFINE s == frame.script
<1>1. /\ frame \in Frame
      /\ frame.running \/ frame.snapshot # {} => s \in Scripts /\ Is(s, "running")
      /\ frame.snapshot # {} => frame.kind = "tick" /\ Sees(frame.snapshot, inst[s], used.timer)
  BY DEF IInv, FrameRuns
<1>2. \A t \in frame.snapshot : t.id \in Nat
  BY <1>1 DEF Frame, Timer
<1>3. used.timer \in Nat
  BY DEF IInv, Typed, Used
<1>4. ASSUME frame.snapshot # {} PROVE Sees(frame.snapshot, inst'[s], used'.timer)
  <2>1. /\ Sees(frame.snapshot, inst[s], used.timer)
        /\ \A u \in inst'[s].timers : u \in inst[s].timers \/ (u.id \in Nat /\ u.id > used.timer)
    BY <1>1, <1>4
  <2>2. \A t \in frame.snapshot : t.id <= used'.timer
    BY <1>2, <1>3, <2>1 DEF Sees
  <2>3. \A t \in frame.snapshot : \A u \in inst'[s].timers : t.id = u.id => t = u
    BY <1>2, <1>3, <2>1 DEF Sees
  <2> QED
    BY <2>2, <2>3 DEF Sees
<1> QED
  BY <1>1, <1>4 DEF FrameRuns

\* Ids of timers are numbers, and so are their owners' clocks.
LEMMA TypesOfState ==
    ASSUME IInv
    PROVE  /\ now \in Nat /\ used.timer \in Nat /\ used.owner \in Nat
           /\ \A s \in Scripts : inst[s] \in Runtime \cup {None} /\ cand[s] \in Runtime \cup {None}
           /\ frame # None => frame \in Frame
           /\ Callback => frame.script \in Scripts /\ Is(frame.script, "running")
BY DEF IInv, Typed, Used, FrameRuns, Callback

\* What a step that neither takes time nor moves the frame must leave of every script.
LEMMA StaysInTime ==
    ASSUME UNCHANGED <<now, frame>>,
           \A t \in Scripts :
               /\ Current(inst'[t], now, used'.timer, Kicked(t)) /\ Waiting(cand'[t], now, used'.timer)
               /\ cand'[t] # None => inst'[t] # None /\ inst'[t].state = "retiring"
    PROVE  InTime'
BY DEF InTime, Kicked, Active, Callback, Is

\* New ids disturb no script.
LEMMA SlotKeeps ==
    ASSUME IInv, NEW t \in Scripts, NEW ids \in Nat, used.timer <= ids
    PROVE  /\ Current(inst[t], now, ids, Kicked(t)) /\ Waiting(cand[t], now, ids)
           /\ cand[t] # None => Is(t, "retiring")
<1>1. /\ Current(inst[t], now, used.timer, Kicked(t)) /\ Waiting(cand[t], now, used.timer)
      /\ cand[t] # None => Is(t, "retiring")
  BY DEF IInv, InTime
<1> QED
  BY <1>1, TypesOfState, MoreIds, WaitingLonger

\* The host changes one script that is not in a callback.
LEMMA HostKeeps ==
    ASSUME IInv, NEW s \in Scripts, Outside, ~Active(s),
           NEW x \in Runtime \cup {None}, Change(s, x),
           NEW y \in Runtime \cup {None}, cand' = [cand EXCEPT ![s] = y],
           used' \in Used, used.timer <= used'.timer,
           Current(x, now, used'.timer, {}), Waiting(y, now, used'.timer),
           y # None => x # None /\ x.state = "retiring",
           UNCHANGED <<now, conn, frame>>,
           \/ ~Is(s, "running") /\ UNCHANGED pending
           \/ inst[s] # None /\ pending' = Canceled(inst[s].owner)
    PROVE  IInv'
<1>1. /\ inst' = [inst EXCEPT ![s] = x] /\ now' = now /\ frame' = frame
      /\ used.timer \in Nat /\ used'.timer \in Nat /\ now \in Nat
  BY TypesOfState DEF Change, Used
<1>2. Typed'
  BY <1>1 DEF IInv, Typed
<1>3. InTime'
  <2> SUFFICES ASSUME NEW t \in Scripts
               PROVE  /\ Current(inst'[t], now, used'.timer, Kicked(t)) /\ Waiting(cand'[t], now, used'.timer)
                      /\ cand'[t] # None => inst'[t] # None /\ inst'[t].state = "retiring"
    BY <1>1, StaysInTime
  <2>1. CASE t = s
    <3>1. Kicked(t) = {}
      BY <2>1 DEF Kicked
    <3> QED
      BY <1>1, <2>1, <3>1 DEF IInv, Typed
  <2>2. CASE t # s
    <3>1. inst'[t] = inst[t] /\ cand'[t] = cand[t]
      BY <1>1, <2>2 DEF IInv, Typed
    <3>2. /\ Current(inst[t], now, used'.timer, Kicked(t)) /\ Waiting(cand[t], now, used'.timer)
          /\ cand[t] # None => Is(t, "retiring")
      BY <1>1, SlotKeeps
    <3> QED
      BY <3>1, <3>2 DEF Is
  <2> QED
    BY <2>1, <2>2
<1>4. PendingIsWanted'
  <2>1. pending' \in {pending, None}
    BY DEF Canceled
  <2>2. ASSUME pending' # None
        PROVE  pending.script # s /\ pending.script \in Scripts
    BY <2>1, <2>2 DEF IInv, PendingIsWanted, Canceled
  <2>3. pending' # None => inst'[pending.script] = inst[pending.script]
    BY <1>1, <2>2 DEF IInv, Typed
  <2> QED
    BY <2>1, <2>3, PendingStays DEF IInv, PendingIsWanted, Is
<1>5. FrameRuns'
  <2>1. frame # None => Callback /\ frame.script # s /\ frame.script \in Scripts
    BY TypesOfState DEF Outside, Active
  <2>2. frame # None => inst'[frame.script] = inst[frame.script] /\ Is(frame.script, "running")
    BY <1>1, <2>1, TypesOfState DEF IInv, Typed
  <2> QED
    BY <1>1, <2>2, FrameStays DEF Is
<1> QED
  BY <1>2, <1>3, <1>4, <1>5 DEF IInv

\* A native changes the script that calls it: its timers, or what it has kicked.
LEMMA NativeKeeps ==
    ASSUME IInv, May, NEW x \in Runtime, Change(Self, x),
           x.state = "running" /\ x.owner = inst[Self].owner /\ x.faults = inst[Self].faults,
           used' \in Used, used.timer <= used'.timer,
           Current(x, now, used'.timer, {frame.player}),
           \A u \in x.timers : u \in inst[Self].timers \/ (u.id \in Nat /\ u.id > used.timer),
           UNCHANGED <<now, conn, cand, pending, frame>>
    PROVE  IInv'
<1>1. /\ inst' = [inst EXCEPT ![Self] = x] /\ now' = now /\ frame' = frame /\ cand' = cand
      /\ Self \in Scripts /\ Is(Self, "running") /\ Callback
      /\ used.timer \in Nat /\ used'.timer \in Nat /\ now \in Nat
  BY TypesOfState DEF Change, May, Self, Used
<1>2. Typed'
  BY <1>1 DEF IInv, Typed
<1>3. InTime'
  <2> SUFFICES ASSUME NEW t \in Scripts
               PROVE  /\ Current(inst'[t], now, used'.timer, Kicked(t)) /\ Waiting(cand'[t], now, used'.timer)
                      /\ cand'[t] # None => inst'[t] # None /\ inst'[t].state = "retiring"
    BY <1>1, StaysInTime
  <2>1. /\ Current(inst[t], now, used'.timer, Kicked(t)) /\ Waiting(cand[t], now, used'.timer)
        /\ cand[t] # None => Is(t, "retiring")
    BY <1>1, SlotKeeps
  <2>3. CASE t = Self
    <3>1. Kicked(t) = {frame.player}
      BY <1>1, <2>3 DEF Kicked, Active, Self
    <3>2. cand[t] = None
      BY <1>1, <2>1, <2>3 DEF Is
    <3>3. inst'[t] = x
      BY <1>1, <2>3 DEF IInv, Typed
    <3> QED
      BY <1>1, <2>1, <3>1, <3>2, <3>3
  <2>4. CASE t # Self
    BY <1>1, <2>1, <2>4 DEF IInv, Typed, Is
  <2> QED
    BY <2>3, <2>4
<1>4. \A t \in Scripts : Is(t, "running") => Is(t, "running")' /\ inst'[t].owner = inst[t].owner
                                             /\ inst'[t].faults = inst[t].faults
  BY <1>1, NoneAssumption DEF IInv, Typed, Is
<1>5. PendingIsWanted'
  BY <1>4, PendingStays DEF IInv, PendingIsWanted
<1>6. FrameRuns'
  <2>1. inst'[Self] = x
    BY <1>1 DEF IInv, Typed
  <2> QED
    BY <1>1, <1>4, <2>1, FrameStays DEF Self
<1> QED
  BY <1>2, <1>3, <1>5, <1>6 DEF IInv

-----------------------------------------------------------------------------
(* The steps of the host.                                                  *)

\* Prepare: a started script waits for nothing, and the timer it created has a new id.
LEMMA StartKeeps ==
    ASSUME IInv, NEW created \in BOOLEAN, MayStart(created)
    PROVE  /\ used' \in Used
           /\ used.timer <= used'.timer
           /\ Held(Started(created), now, used'.timer) /\ Punctual(Started(created), now)
           /\ Started(created) \in Runtime
           /\ Started(created).state = "running" /\ Started(created).suspended = 0
           /\ Started(created).kicks = {}
<1>1. /\ used \in Used /\ now \in Nat
      /\ used' = [used EXCEPT !.owner = @ + 1, !.timer = IF created THEN @ + 1 ELSE @]
  BY DEF MayStart, IInv, Typed
<1>2. /\ used' \in Used
      /\ used'.timer = IF created THEN used.timer + 1 ELSE used.timer
      /\ used.timer \in Nat /\ used.owner \in Nat
  <2>1. used \in Used /\ used.timer \in Nat /\ used.owner \in Nat
    BY <1>1 DEF Used
  <2>2. PICK m \in Nat, n \in Nat :
          m = used.owner + 1 /\ n = IF created THEN used.timer + 1 ELSE used.timer
    BY <2>1
  <2>3. used' = [used EXCEPT !.owner = m, !.timer = n]
    BY <1>1, <2>2
  <2>4. used' \in Used /\ used'.timer = n
    BY <2>1, <2>3 DEF Used
  <2> QED
    BY <2>1, <2>2, <2>4
<1> QED
  BY <1>1, <1>2, StartedKeeps

\* LoadScript.
LEMMA LoadKeeps ==
    ASSUME IInv, NEW s \in Scripts, NEW created \in BOOLEAN, Load(s, created)
    PROVE  IInv'
<1> DEFINE x == Started(created)
<1>1. /\ Outside /\ ~Active(s) /\ inst[s] = None /\ MayStart(created) /\ Change(s, x)
      /\ UNCHANGED <<now, conn, cand, pending, frame>>
  BY DEF Load
<1>2. /\ used' \in Used
      /\ used.timer <= used'.timer /\ x \in Runtime
      /\ Held(x, now, used'.timer) /\ Punctual(x, now) /\ x.state = "running" /\ x.kicks = {}
  BY <1>1, StartKeeps
<1> HIDE DEF x
<1>3. Current(x, now, used'.timer, {})
  BY <1>2 DEF Current
<1>4. cand[s] = None /\ cand' = [cand EXCEPT ![s] = None]
  BY <1>1 DEF IInv, InTime, Is, Typed
<1>5. Waiting(None, now, used'.timer) /\ ~Is(s, "running")
  BY <1>1 DEF Waiting, Is
<1> QED
  BY <1>1, <1>2, <1>3, <1>4, <1>5, HostKeeps

\* A script that is paused: its timers are on time as of now.
LEMMA PauseKeeps ==
    ASSUME IInv, NEW s \in Scripts, Pause(s)
    PROVE  IInv'
<1> DEFINE x == [inst[s] EXCEPT !.state = "paused", !.suspended = now]
<1>1. /\ Outside /\ ~Active(s) /\ Is(s, "running") /\ cand[s] = None /\ Change(s, x)
      /\ pending' = Canceled(inst[s].owner) /\ UNCHANGED <<now, conn, cand, frame, used>>
  BY DEF Pause
<1>2. /\ inst[s] \in Runtime /\ inst[s].state = "running" /\ now \in Nat /\ used.timer \in Nat
      /\ Current(inst[s], now, used.timer, Kicked(s)) /\ Kicked(s) = {} /\ inst[s] # None
  BY <1>1, TypesOfState, SlotKeeps DEF Is, Kicked
<1>3. /\ x \in Runtime /\ x.state = "paused" /\ x.suspended = now /\ x.timers = inst[s].timers
      /\ x.players = inst[s].players /\ x.kicks = inst[s].kicks
  BY <1>2 DEF Runtime
<1> HIDE DEF x
<1>4. Current(x, now, used.timer, {})
  BY <1>2, <1>3 DEF Current, Held, Punctual
<1>5. cand' = [cand EXCEPT ![s] = None] /\ Waiting(None, now, used.timer)
  BY <1>1 DEF IInv, Typed, Waiting
<1>6. used' \in Used /\ used.timer <= used'.timer
  BY <1>1, <1>2 DEF IInv, Typed
<1> QED
  BY <1>1, <1>2, <1>3, <1>4, <1>5, <1>6, HostKeeps

\* A script that is resumed: its timers are shifted.
LEMMA ResumeKeeps ==
    ASSUME IInv, NEW s \in Scripts, Resume(s)
    PROVE  IInv'
<1> DEFINE r == Shifted(inst[s])
           x == [r EXCEPT !.state = "running"]
<1>1. /\ Outside /\ ~Active(s) /\ Is(s, "paused") /\ cand[s] = None /\ Change(s, x)
      /\ UNCHANGED <<now, conn, cand, pending, frame, used>>
  BY DEF Resume
<1>2. /\ inst[s] \in Runtime /\ inst[s].state = "paused" /\ now \in Nat /\ used.timer \in Nat
      /\ Current(inst[s], now, used.timer, Kicked(s)) /\ Kicked(s) = {} /\ inst[s] # None
  BY <1>1, TypesOfState, SlotKeeps DEF Is, Kicked
<1>3. Held(r, now, used.timer) /\ Punctual(r, now) /\ r.kicks = inst[s].kicks
  BY <1>2, ShiftedKeeps DEF Current
<1> HIDE DEF r
<1>4. /\ x \in Runtime /\ x.state = "running" /\ x.suspended = r.suspended /\ x.timers = r.timers
      /\ x.players = r.players /\ x.kicks = r.kicks
  BY <1>3 DEF Runtime, Held
<1> HIDE DEF x
<1>5. Current(x, now, used.timer, {})
  BY <1>2, <1>3, <1>4 DEF Current, Held, Punctual
<1>6. cand' = [cand EXCEPT ![s] = None] /\ Waiting(None, now, used.timer) /\ ~Is(s, "running")
  BY <1>1, <1>2 DEF IInv, Typed, Waiting, Is
<1>7. used' \in Used /\ used.timer <= used'.timer
  BY <1>1, <1>2 DEF IInv, Typed
<1> QED
  BY <1>1, <1>4, <1>5, <1>6, <1>7, HostKeeps

\* A script that is unloaded, or retires when its cleanup fails.
LEMMA UnloadKeeps ==
    ASSUME IInv, NEW s \in Scripts, Unload(s)
    PROVE  IInv'
<1>1. /\ Outside /\ ~Active(s) /\ inst[s] # None /\ (Change(s, None) \/ Change(s, Gone(inst[s])))
      /\ cand' = [cand EXCEPT ![s] = None]
      /\ pending' = Canceled(inst[s].owner) /\ UNCHANGED <<now, conn, frame, used>>
  BY DEF Unload
<1>2. /\ inst[s] \in Runtime /\ now \in Nat /\ used.timer \in Nat
      /\ Current(None, now, used.timer, {}) /\ Waiting(None, now, used.timer)
  BY <1>1, TypesOfState DEF Current, Waiting
<1>3. Gone(inst[s]) \in Runtime /\ Current(Gone(inst[s]), now, used.timer, {})
  BY <1>2, GoneKeeps
<1>4. used' \in Used /\ used.timer <= used'.timer
  BY <1>1, <1>2 DEF IInv, Typed
<1>5. CASE Change(s, None)
  BY <1>1, <1>2, <1>4, <1>5, HostKeeps
<1>6. CASE Change(s, Gone(inst[s]))
  BY <1>1, <1>2, <1>3, <1>4, <1>6, HostKeeps
<1> QED
  BY <1>1, <1>5, <1>6

\* ReloadScript: the replacement has its timers from now on, and waits.
LEMMA ReloadKeeps ==
    ASSUME IInv, NEW s \in Scripts, NEW created \in BOOLEAN, Reload(s, created)
    PROVE  IInv'
<1> DEFINE r == Started(created)
           state == IF Is(s, "paused") THEN "paused" ELSE "running"
           y == [r EXCEPT !.suspended = now, !.state = state]
           x == Gone(inst[s])
<1>1. /\ Outside /\ ~Active(s) /\ inst[s] # None /\ cand[s] = None /\ MayStart(created)
      /\ cand' = [cand EXCEPT ![s] = y] /\ Change(s, x)
      /\ pending' = Canceled(inst[s].owner) /\ UNCHANGED <<now, conn, frame>>
  BY DEF Reload
<1>2. /\ used' \in Used
      /\ used.timer <= used'.timer /\ r \in Runtime
      /\ Held(r, now, used'.timer) /\ Punctual(r, now) /\ r.kicks = {}
  BY <1>1, StartKeeps
<1>3. inst[s] \in Runtime /\ now \in Nat /\ used.timer \in Nat
  BY <1>1, TypesOfState
<1>4. x \in Runtime /\ x # None /\ x.state = "retiring" /\ Current(x, now, used'.timer, {})
  BY <1>3, GoneKeeps
<1> HIDE DEF r, x
<1>5. /\ y \in Runtime /\ y.suspended = now /\ y.state # "retiring" /\ y.kicks = {}
      /\ y.timers = r.timers /\ y.players = r.players
  BY <1>2, <1>3 DEF Runtime
<1> HIDE DEF y
<1>6. Waiting(y, now, used'.timer)
  BY <1>2, <1>3, <1>5 DEF Waiting, Held, Punctual
<1> QED
  BY <1>1, <1>2, <1>4, <1>5, <1>6, HostKeeps

\* The replacement takes over when the old script is gone: what it waited is added.
LEMMA ReloadDoneKeeps ==
    ASSUME IInv, NEW s \in Scripts, ReloadDone(s)
    PROVE  IInv'
<1> DEFINE r == Shifted(cand[s])
           x == [r EXCEPT !.suspended = IF cand[s].state = "paused" THEN now ELSE 0]
<1>1. /\ Outside /\ ~Active(s) /\ cand[s] # None /\ Change(s, x)
      /\ cand' = [cand EXCEPT ![s] = None] /\ UNCHANGED <<now, conn, pending, frame, used>>
  BY DEF ReloadDone
<1>2. /\ cand[s] \in Runtime /\ now \in Nat /\ used.timer \in Nat
      /\ Waiting(cand[s], now, used.timer) /\ Is(s, "retiring")
  BY <1>1, TypesOfState, SlotKeeps
<1>3. Held(r, now, used.timer) /\ Punctual(r, now) /\ r.kicks = {} /\ r.state = cand[s].state
  BY <1>1, <1>2, ShiftedKeeps DEF Waiting
<1> HIDE DEF r
<1>4. /\ x \in Runtime /\ x.suspended = (IF cand[s].state = "paused" THEN now ELSE 0)
      /\ x.state = r.state /\ x.timers = r.timers /\ x.players = r.players /\ x.kicks = r.kicks
  BY <1>2, <1>3 DEF Runtime, Held
<1> HIDE DEF x
<1>5. Current(x, now, used.timer, {})
  BY <1>1, <1>2, <1>3, <1>4 DEF Current, Held, Punctual, Waiting
<1>6. Waiting(None, now, used.timer) /\ ~Is(s, "running")
  BY <1>2 DEF Waiting, Is
<1>7. used' \in Used /\ used.timer <= used'.timer
  BY <1>1, <1>2 DEF IInv, Typed
<1> QED
  BY <1>1, <1>4, <1>5, <1>6, <1>7, HostKeeps

-----------------------------------------------------------------------------
(* The steps that change several scripts at once.                          *)

\* i and c may follow what is in the slot of s, when no time passes.
Follows(i, c, s) ==
    /\ i \in Runtime \cup {None} /\ c \in Runtime \cup {None}
    /\ Current(i, now, used.timer, Kicked(s)) /\ Waiting(c, now, used.timer)
    /\ c # None => i # None /\ i.state = "retiring"
    /\ Is(s, "running") =>
          /\ i # None /\ i.state = "running" /\ i.timers \subseteq inst[s].timers
          /\ i.owner = inst[s].owner /\ i.faults = inst[s].faults

\* What is in a slot may stay.
LEMMA SlotFollows ==
    ASSUME IInv, NEW s \in Scripts
    PROVE  Follows(inst[s], cand[s], s)
BY SlotKeeps, TypesOfState DEF Follows, Is

\* What may follow may also be rid of connections.
LEMMA RidOfFollowing ==
    ASSUME NEW s, NEW old, NEW waiting, Follows(old, waiting, s), NEW gone
    PROVE  Follows(Rid(old, gone), Rid(waiting, gone), s)
<1> DEFINE i == Rid(old, gone)
           c == Rid(waiting, gone)
<1>1. /\ old \in Runtime \cup {None} /\ waiting \in Runtime \cup {None}
      /\ Current(old, now, used.timer, Kicked(s)) /\ Waiting(waiting, now, used.timer)
  BY DEF Follows
<1>2. Current(i, now, used.timer, Kicked(s)) /\ Waiting(c, now, used.timer)
  BY <1>1, RidInTime
<1>3. old # None => i \in Runtime /\ i # None /\ Alike(i, old) /\ i.timers \subseteq old.timers
  BY <1>1, RidKeeps
<1>4. old = None => i = None
  BY RidOfNone
<1>5. c \in Runtime \cup {None} /\ (waiting = None => c = None)
  BY <1>1, RidKeeps, RidOfNone
<1> HIDE DEF i, c
<1>6. Follows(i, c, s)
  BY <1>1, <1>2, <1>3, <1>4, <1>5 DEF Follows, Alike
<1> QED
  BY <1>6 DEF i, c

\* So every slot may be rid of connections.
LEMMA RidFollows ==
    ASSUME IInv, NEW s \in Scripts, NEW gone
    PROVE  Follows(Rid(inst[s], gone), Rid(cand[s], gone), s)
BY SlotFollows, RidOfFollowing

\* A step by which every slot is followed, while the frame stays.
LEMMA FollowKeeps ==
    ASSUME IInv, \A s \in Scripts : Follows(inst'[s], cand'[s], s),
           inst' = [s \in Scripts |-> inst'[s]], cand' = [s \in Scripts |-> cand'[s]],
           conn' \in [Slots -> Nat], UNCHANGED <<now, pending, frame, used>>
    PROVE  IInv'
<1>1. Typed'
  BY DEF IInv, Typed, Follows
<1>2. InTime'
  BY StaysInTime DEF Follows
<1>3. \A s \in Scripts : Is(s, "running") => Is(s, "running")'
  BY DEF Follows, Is
<1>4. PendingIsWanted'
  BY <1>3, PendingStays DEF IInv, PendingIsWanted, Follows
<1>5. FrameRuns'
  <2>1. frame # None /\ (frame.running \/ frame.snapshot # {}) =>
          frame.script \in Scripts /\ Is(frame.script, "running")
    BY DEF IInv, FrameRuns
  <2>2. used'.timer \in Nat /\ used.timer <= used'.timer
    BY TypesOfState
  <2>3. \A s \in Scripts : Is(s, "running") => inst'[s].timers \subseteq inst[s].timers
    BY DEF Follows
  <2> QED
    BY <1>3, <2>1, <2>2, <2>3, FrameStays
<1> QED
  BY <1>1, <1>2, <1>4, <1>5 DEF IInv

\* A player who goes takes his handles along, or is forgotten later.
LEMMA LeaveKeeps ==
    ASSUME IInv, NEW p \in Slots, Leave(p)
    PROVE  IInv'
<1>1. conn' \in [Slots -> Nat] /\ UNCHANGED <<now, pending, frame, used>>
  BY DEF Leave, IInv, Typed
<1>2. CASE Without({conn[p]})
  <2>1. /\ inst' = [s \in Scripts |-> Rid(inst[s], {conn[p]})]
        /\ cand' = [s \in Scripts |-> Rid(cand[s], {conn[p]})]
    BY <1>2 DEF Without
  <2>2. \A s \in Scripts : Follows(inst'[s], cand'[s], s)
    BY <2>1, RidFollows
  <2> QED
    BY <1>1, <2>1, <2>2, FollowKeeps
<1>3. CASE UNCHANGED <<inst, cand>>
  <2>1. inst' = [s \in Scripts |-> inst'[s]] /\ cand' = [s \in Scripts |-> cand'[s]]
    BY <1>3 DEF IInv, Typed
  <2>2. \A s \in Scripts : Follows(inst'[s], cand'[s], s)
    BY <1>3, SlotFollows
  <2> QED
    BY <1>1, <2>1, <2>2, FollowKeeps
<1> QED
  BY <1>2, <1>3 DEF Leave

\* A player who comes is nobody's target yet.
LEMMA JoinKeeps ==
    ASSUME IInv, NEW p \in Slots, Join(p)
    PROVE  IInv'
<1>1. /\ UNCHANGED <<now, inst, cand, pending, frame>>
      /\ used \in Used /\ conn \in [Slots -> Nat]
      /\ used' = [used EXCEPT !.connection = @ + 1] /\ conn' = [conn EXCEPT ![p] = used.connection + 1]
  BY DEF Join, IInv, Typed
<1>2. used.connection + 1 \in Nat
  BY <1>1 DEF Used
<1>3. used' \in Used /\ used'.timer = used.timer /\ conn' \in [Slots -> Nat]
  BY <1>1, <1>2 DEF Used
<1> QED
  BY <1>1, <1>3 DEF IInv, Typed, InTime, PendingIsWanted, FrameRuns, Kicked, Active, Callback, Is

\* A native that adds handles first drops the stale ones.
LEMMA GetPlayersKeeps ==
    ASSUME IInv, GetPlayers
    PROVE  IInv'
<1> DEFINE s == Self
           r == Rid(inst[s], Stale)
           x == [r EXCEPT !.players = @ \cup (Connected \ r.players)]
<1>1. /\ s \in Scripts /\ Is(s, "running") /\ Callback
      /\ inst' = [other \in Scripts |-> IF other = s THEN x ELSE Rid(inst[other], Stale)]
      /\ cand' = [other \in Scripts |-> Rid(cand[other], Stale)]
      /\ UNCHANGED <<now, conn, pending, frame, used>>
  BY TypesOfState DEF GetPlayers, May, Self
<1>2. Connected \subseteq Nat
  BY DEF Connected, IInv, Typed
<1>3. /\ Follows(r, Rid(cand[s], Stale), s) /\ r # None /\ r \in Runtime
  BY <1>1, RidFollows DEF Follows
<1> HIDE DEF r
<1>4. /\ x \in Runtime /\ Alike(x, r) /\ x.timers = r.timers /\ x.players = r.players \cup Connected
  BY <1>2, <1>3 DEF Runtime, Alike
<1> HIDE DEF x
<1>5. Held(x, now, used.timer)
  BY <1>3, <1>4 DEF Follows, Current, Held, Alike
<1>6. Current(x, now, used.timer, Kicked(s))
  BY <1>3, <1>4, <1>5 DEF Follows, Current, Alike, Punctual
<1>7. Follows(x, Rid(cand[s], Stale), s)
  BY <1>3, <1>4, <1>6, NoneAssumption DEF Follows, Alike
<1>8. \A t \in Scripts : Follows(inst'[t], cand'[t], t)
  BY <1>1, <1>7, RidFollows
<1>9. inst' = [t \in Scripts |-> inst'[t]] /\ cand' = [t \in Scripts |-> cand'[t]]
  BY <1>1
<1>10. conn' \in [Slots -> Nat]
  BY <1>1 DEF IInv, Typed
<1> QED
  BY <1>1, <1>8, <1>9, <1>10, FollowKeeps

\* The kick is known to the callback of the player who is kicked.
LEMMA KickKeeps ==
    ASSUME IInv, NEW p \in Slots, KickPlayer(p)
    PROVE  IInv'
<1> DEFINE s == Self
           kicked == IF conn[p] = frame.player
                     THEN [inst EXCEPT ![s].kicks = @ \cup {conn[p]}] ELSE inst
<1>1. /\ s \in Scripts /\ Is(s, "running") /\ Callback /\ frame.script = s
      /\ UNCHANGED <<now, pending, frame, used>>
      /\ \/ inst' = kicked /\ UNCHANGED <<conn, cand>>
         \/ /\ inst' = [t \in Scripts |-> Rid(kicked[t], {conn[p]})]
            /\ cand' = [t \in Scripts |-> Rid(cand[t], {conn[p]})]
            /\ conn' = [conn EXCEPT ![p] = 0]
  BY TypesOfState DEF KickPlayer, May, Self
<1>2. conn[p] \in Nat /\ conn' \in [Slots -> Nat] /\ inst \in [Scripts -> Runtime \cup {None}]
  BY <1>1 DEF IInv, Typed
<1>3. Follows(kicked[s], cand[s], s)
  <2>1. Follows(inst[s], cand[s], s) /\ inst[s] \in Runtime /\ inst[s] # None
    BY <1>1, SlotFollows, TypesOfState DEF Is
  <2>2. Kicked(s) = {frame.player}
    BY <1>1 DEF Kicked, Active
  <2> DEFINE x == [inst[s] EXCEPT !.kicks = @ \cup {conn[p]}]
  <2>3. /\ x \in Runtime /\ x.state = inst[s].state /\ x.owner = inst[s].owner
        /\ x.faults = inst[s].faults /\ x.suspended = inst[s].suspended
        /\ x.timers = inst[s].timers /\ x.players = inst[s].players
        /\ x.kicks = inst[s].kicks \cup {conn[p]}
    BY <1>2, <2>1 DEF Runtime
  <2>4. kicked[s] = IF conn[p] = frame.player THEN x ELSE inst[s]
    BY <1>1, <1>2
  <2> HIDE DEF x, kicked
  <2>5. conn[p] = frame.player => Current(x, now, used.timer, Kicked(s))
    BY <2>1, <2>2, <2>3 DEF Follows, Current, Held, Punctual
  <2>6. conn[p] = frame.player => Follows(x, cand[s], s)
    BY <2>1, <2>3, <2>5, NoneAssumption DEF Follows
  <2> QED
    BY <2>1, <2>4, <2>6
<1>4. \A t \in Scripts : t # s => kicked[t] = inst[t]
  BY <1>1, <1>2
<1>5. kicked = [t \in Scripts |-> kicked[t]]
  BY <1>2
<1> HIDE DEF kicked
<1>6. \A t \in Scripts : Follows(kicked[t], cand[t], t)
  BY <1>3, <1>4, SlotFollows
<1>7. \A t \in Scripts : Follows(Rid(kicked[t], {conn[p]}), Rid(cand[t], {conn[p]}), t)
  BY <1>6, RidOfFollowing
<1>8. CASE inst' = kicked /\ UNCHANGED <<conn, cand>>
  <2>1. cand' = [t \in Scripts |-> cand'[t]] /\ \A t \in Scripts : Follows(inst'[t], cand'[t], t)
    BY <1>6, <1>8 DEF IInv, Typed
  <2> QED
    BY <1>1, <1>2, <1>5, <1>8, <2>1, FollowKeeps
<1>9. CASE /\ inst' = [t \in Scripts |-> Rid(kicked[t], {conn[p]})]
           /\ cand' = [t \in Scripts |-> Rid(cand[t], {conn[p]})]
  <2>1. \A t \in Scripts : Follows(inst'[t], cand'[t], t)
    BY <1>7, <1>9
  <2>2. inst' = [t \in Scripts |-> inst'[t]] /\ cand' = [t \in Scripts |-> cand'[t]]
    BY <1>9
  <2> QED
    BY <1>1, <1>2, <2>1, <2>2, FollowKeeps
<1> QED
  BY <1>1, <1>8, <1>9

\* The script that calls a native.
LEMMA Caller ==
    ASSUME IInv, May
    PROVE  /\ Self \in Scripts /\ inst[Self] \in Runtime
           /\ Current(inst[Self], now, used.timer, {frame.player})
           /\ used \in Used /\ used.timer \in Nat /\ now \in Nat
<1>1. /\ Self \in Scripts /\ Is(Self, "running") /\ Callback
      /\ used \in Used /\ used.timer \in Nat /\ now \in Nat
  BY TypesOfState DEF May, Self, IInv, Typed
<1>2. Current(inst[Self], now, used.timer, Kicked(Self))
  BY <1>1, SlotKeeps
<1>3. Kicked(Self) = {frame.player}
  BY <1>1 DEF Kicked, Active, Self
<1> QED
  BY <1>1, <1>2, <1>3, TypesOfState DEF Is

\* A script that creates a timer has a player's handle for its target.
LEMMA CreateTimerKeeps ==
    ASSUME IInv, NEW delay \in Delays, NEW target \in Nat, NEW across \in BOOLEAN,
           CreateTimer(delay, target, across)
    PROVE  IInv'
<1> DEFINE s == Self
           t == NewTimer(delay, target, across)
           x == [inst[s] EXCEPT !.timers = @ \cup {t}]
<1>1. /\ May /\ s \in Scripts /\ Is(s, "running") /\ Callback /\ Change(s, x)
      /\ target # 0 => target \in inst[s].players /\ ~across
      /\ used' = [used EXCEPT !.timer = @ + 1] /\ UNCHANGED <<now, conn, cand, pending, frame>>
      /\ used \in Used /\ delay \in Nat
  BY TypesOfState, DispatchAssumption DEF CreateTimer, May, Self, IInv, Typed
<1>2. /\ used.timer \in Nat /\ now \in Nat /\ inst[s] \in Runtime
      /\ Current(inst[s], now, used.timer, {frame.player})
  BY <1>1, Caller
<1>3. /\ t \in Timer /\ t.due + t.age = now + t.delay /\ t.id = used.timer + 1
      /\ t.target = target /\ t.across = across
  BY <1>1, <1>2, NewTimerIsDue
<1>4. used' \in Used /\ used'.timer = used.timer + 1
  BY <1>1, <1>2 DEF Used
<1> HIDE DEF t
<1>5. /\ x \in Runtime /\ Alike(x, inst[s]) /\ x.players = inst[s].players
      /\ x.timers = inst[s].timers \cup {t}
  BY <1>2, <1>3 DEF Runtime, Alike
<1> HIDE DEF x
<1>6. \A u \in inst[s].timers : u.id \in Nat /\ u.id <= used.timer
  BY <1>1, <1>2 DEF Current, Held, Runtime, Timer, Is
<1>7. Held(x, now, used'.timer)
  <2>1. \A u \in x.timers : (u.target # 0 => u.target \in x.players) /\ (u.across => u.target = 0)
    BY <1>1, <1>2, <1>3, <1>5 DEF Current, Held, Is
  <2>2. \A u \in x.timers : u.id <= used'.timer
    BY <1>2, <1>3, <1>4, <1>5, <1>6
  <2>3. \A u, w \in x.timers : u.id = w.id => u = w
    <3>1. \A u, w \in inst[s].timers : u.id = w.id => u = w
      BY <1>1, <1>2 DEF Current, Held, Is
    <3>2. \A u \in inst[s].timers : u.id # t.id
      BY <1>2, <1>3, <1>6
    <3> QED
      BY <1>5, <3>1, <3>2
  <2>4. x.suspended <= now
    BY <1>1, <1>2, <1>5 DEF Current, Held, Alike, Is
  <2> QED
    BY <1>5, <2>1, <2>2, <2>3, <2>4 DEF Held
<1>8. Current(x, now, used'.timer, {frame.player})
  BY <1>1, <1>2, <1>3, <1>5, <1>7 DEF Current, Alike, Punctual, Is
<1>9. \A u \in x.timers : u \in inst[s].timers \/ (u.id \in Nat /\ u.id > used.timer)
  BY <1>2, <1>3, <1>5
<1>10. x.state = "running" /\ x.owner = inst[s].owner /\ x.faults = inst[s].faults
  BY <1>1, <1>5 DEF Alike, Is
<1>11. used.timer <= used'.timer
  BY <1>2, <1>4
<1> QED
  BY <1>1, <1>4, <1>5, <1>8, <1>9, <1>10, <1>11, NativeKeeps

\* A timer that is canceled is gone.
LEMMA CancelTimerKeeps ==
    ASSUME IInv, NEW t, CancelTimer(t)
    PROVE  IInv'
<1> DEFINE s == Self
           x == [inst[s] EXCEPT !.timers = @ \ {t}]
<1>1. /\ May /\ s \in Scripts /\ Is(s, "running") /\ Callback /\ Change(s, x)
      /\ UNCHANGED <<now, conn, cand, pending, frame, used>>
  BY TypesOfState DEF CancelTimer, May, Self
<1>2. /\ used.timer \in Nat /\ now \in Nat /\ inst[s] \in Runtime
      /\ Current(inst[s], now, used.timer, {frame.player}) /\ used \in Used
  BY <1>1, Caller
<1>3. /\ x \in Runtime /\ Alike(x, inst[s]) /\ x.players = inst[s].players
      /\ x.timers = inst[s].timers \ {t}
  BY <1>2 DEF Runtime, Alike
<1> HIDE DEF x
<1>4. Current(x, now, used.timer, {frame.player})
  BY <1>1, <1>2, <1>3 DEF Current, Alike, Punctual, Held, Is
<1>5. x.state = "running" /\ x.owner = inst[s].owner /\ x.faults = inst[s].faults
  BY <1>1, <1>3 DEF Alike, Is
<1> QED
  BY <1>1, <1>2, <1>3, <1>4, <1>5, NativeKeeps

\* A map change is asked for by the script that runs.
LEMMA ChangeMapKeeps ==
    ASSUME IInv, ChangeMap
    PROVE  IInv'
<1>1. /\ Self \in Scripts /\ Is(Self, "running")
      /\ pending' = [script |-> Self, owner |-> inst[Self].owner, faults |-> inst[Self].faults]
      /\ UNCHANGED <<now, conn, inst, cand, frame, used>>
  BY TypesOfState DEF ChangeMap, May, Self
<1>2. PendingIsWanted'
  BY <1>1 DEF PendingIsWanted, Is
<1> QED
  BY <1>1, <1>2 DEF IInv, Typed, InTime, FrameRuns, Kicked, Active, Callback, Is

-----------------------------------------------------------------------------
(* The steps of a frame.                                                   *)

\* Nothing is kicked at the end of such a step, so that the frame may move.
LEMMA QuietInTime ==
    ASSUME \A t \in Scripts :
               /\ Current(inst'[t], now', used'.timer, {}) /\ Waiting(cand'[t], now', used'.timer)
               /\ cand'[t] # None => inst'[t] # None /\ inst'[t].state = "retiring"
    PROVE  InTime'
BY DEF InTime, Current, Is

\* While no callback runs nobody is known to be kicked.
LEMMA Quiet ==
    ASSUME IInv, NEW s \in Scripts, ~Callback
    PROVE  /\ Kicked(s) = {} /\ Current(inst[s], now, used.timer, {}) /\ Waiting(cand[s], now, used.timer)
           /\ cand[s] # None => inst[s] # None /\ inst[s].state = "retiring"
<1>1. Kicked(s) = {}
  BY DEF Kicked, Active
<1> QED
  BY <1>1 DEF IInv, InTime, Is

\* MapChanged drops players and their timers, between frames.
LEMMA MapChangedKeeps ==
    ASSUME IInv, MapChanged
    PROVE  IInv'
<1>1. /\ frame = None /\ pending' = None /\ UNCHANGED <<now, conn, frame, used>> /\ ~Callback
      /\ inst' = [s \in Scripts |-> Carried(inst[s])] /\ cand' = [s \in Scripts |-> Carried(cand[s])]
  BY DEF MapChanged, Callback
<1>2. ASSUME NEW s \in Scripts
      PROVE  /\ inst'[s] \in Runtime \cup {None} /\ cand'[s] \in Runtime \cup {None}
             /\ Current(inst'[s], now, used.timer, {}) /\ Waiting(cand'[s], now, used.timer)
             /\ cand'[s] # None => inst'[s] # None /\ inst'[s].state = "retiring"
  <2>1. Carried(None) = None
    BY DEF Carried
  <2>2. inst[s] \in Runtime \cup {None} /\ cand[s] \in Runtime \cup {None}
    BY TypesOfState
  <2>3. /\ inst[s] # None => Carried(inst[s]) \in Runtime /\ Carried(inst[s]) # None
                             /\ Carried(inst[s]).state = inst[s].state
        /\ cand[s] # None => Carried(cand[s]) \in Runtime
    BY <2>2, CarriedKeeps
  <2>4. Current(Carried(inst[s]), now, used.timer, {}) /\ Waiting(Carried(cand[s]), now, used.timer)
    BY <1>1, <2>2, Quiet, CarriedInTime
  <2> QED
    BY <1>1, <2>1, <2>2, <2>3, <2>4, Quiet
<1>3. Typed'
  BY <1>1, <1>2 DEF IInv, Typed
<1>4. InTime'
  BY <1>1, <1>2, QuietInTime
<1> QED
  BY <1>1, <1>3, <1>4 DEF IInv, PendingIsWanted, FrameRuns

\* A second for a script of the slot and its replacement, which does not run yet.
LEMMA SecondPasses ==
    ASSUME IInv, NEW i, NEW c, NEW s \in Scripts, ~Callback, Follows(i, c, s)
    PROVE  /\ Aged(i) \in Runtime \cup {None}
           /\ Current(Aged(i), now + 1, used.timer, {}) /\ Waiting(c, now + 1, used.timer)
           /\ c # None => Aged(i) # None /\ Aged(i).state = "retiring"
<1>1. /\ i \in Runtime \cup {None} /\ c \in Runtime \cup {None} /\ Kicked(s) = {}
      /\ Current(i, now, used.timer, {}) /\ Waiting(c, now, used.timer)
      /\ c # None => i # None /\ i.state = "retiring"
  BY Quiet DEF Follows
<1>2. now \in Nat /\ used.timer \in Nat
  BY TypesOfState
<1>3. Current(Aged(i), now + 1, used.timer, {})
  BY <1>1, <1>2, AgedInTime
<1>4. Waiting(c, now + 1, used.timer)
  BY <1>1, <1>2, WaitingLonger
<1>5. i # None => Aged(i) \in Runtime /\ Aged(i).state = i.state
  BY <1>1, AgedKeeps DEF Alike
<1>6. i = None => Aged(i) = None
  BY DEF Aged
<1> QED
  BY <1>1, <1>3, <1>4, <1>5, <1>6, NoneAssumption

\* The map is changed instead of a frame.
LEMMA TickMapKeeps ==
    ASSUME IInv, TickMap
    PROVE  IInv'
<1>1. /\ frame = None /\ pending' = None /\ UNCHANGED <<conn, cand, frame, used>> /\ ~Callback
      /\ inst' = [s \in Scripts |-> Aged(inst[s])] /\ now' = now + 1
  BY DEF TickMap, Callback
<1>2. ASSUME NEW s \in Scripts
      PROVE  /\ inst'[s] \in Runtime \cup {None}
             /\ Current(inst'[s], now', used'.timer, {}) /\ Waiting(cand'[s], now', used'.timer)
             /\ cand'[s] # None => inst'[s] # None /\ inst'[s].state = "retiring"
  BY <1>1, SlotFollows, SecondPasses
<1>3. Typed'
  BY <1>1, <1>2 DEF IInv, Typed
<1>4. InTime'
  BY <1>2, QuietInTime
<1> QED
  BY <1>1, <1>3, <1>4 DEF IInv, PendingIsWanted, FrameRuns

\* A frame begins: stale handles go, and no script has been called.
LEMMA TickKeeps ==
    ASSUME IInv, Tick
    PROVE  IInv'
<1>1. /\ pending' = None /\ UNCHANGED <<conn, used>> /\ ~Callback /\ now' = now + 1
      /\ inst' = [s \in Scripts |-> Aged(Rid(inst[s], Stale))]
      /\ cand' = [s \in Scripts |-> Rid(cand[s], Stale)]
      /\ frame' = [kind |-> "tick", todo |-> {<<s, 0>> : s \in Scripts}, script |-> None,
                   snapshot |-> {}, running |-> FALSE, player |-> 0]
  BY DEF Tick, Callback
<1>2. ASSUME NEW s \in Scripts
      PROVE  /\ inst'[s] \in Runtime \cup {None} /\ cand'[s] \in Runtime \cup {None}
             /\ Current(inst'[s], now', used'.timer, {}) /\ Waiting(cand'[s], now', used'.timer)
             /\ cand'[s] # None => inst'[s] # None /\ inst'[s].state = "retiring"
  <2>1. Follows(Rid(inst[s], Stale), Rid(cand[s], Stale), s)
    BY RidFollows
  <2>2. Rid(cand[s], Stale) \in Runtime \cup {None}
    BY <2>1 DEF Follows
  <2> QED
    BY <1>1, <2>1, <2>2, SecondPasses
<1>3. Typed'
  BY <1>1, <1>2 DEF IInv, Typed
<1>4. InTime'
  BY <1>2, QuietInTime
<1>5. frame' \in Frame /\ frame'.snapshot = {} /\ frame'.running = FALSE
  BY <1>1 DEF Frame
<1> QED
  BY <1>1, <1>3, <1>4, <1>5 DEF IInv, PendingIsWanted, FrameRuns

\* The frame goes to a script, or ends.
LEMMA FrameMoves ==
    ASSUME IInv, ~Callback, UNCHANGED <<now, conn, inst, cand, pending, used>>, FrameRuns'
    PROVE  IInv'
<1>1. InTime'
  BY Quiet, QuietInTime
<1> QED
  BY <1>1 DEF IInv, Typed, PendingIsWanted, Is

\* Tick takes the copy of the timers of a script that runs.
LEMMA EnterKeeps ==
    ASSUME IInv, NEW s \in Scripts, Enter(s)
    PROVE  IInv'
<1>1. /\ frame # None /\ frame \in Frame /\ frame.kind = "tick" /\ ~frame.running /\ frame.snapshot = {}
      /\ UNCHANGED <<now, conn, inst, cand, pending, used>> /\ ~Callback
  BY TypesOfState DEF Enter, Callback
<1> DEFINE left == frame.todo \ {<<s, 0>>}
           script == IF inst[s].timers = {} THEN None ELSE s
<1>2. left \subseteq Scripts \X Nat
  BY <1>1 DEF Frame
<1>3. CASE Is(s, "running")
  <2>1. frame' = [frame EXCEPT !.todo = left, !.snapshot = inst[s].timers, !.script = script]
    BY <1>3 DEF Enter
  <2>2. inst[s] \in Runtime /\ Held(inst[s], now, used.timer) /\ script \in Scripts \cup {None}
    BY <1>1, <1>3, Quiet, TypesOfState DEF Is, Current
  <2>3. inst[s].timers # {} => script = s
    OBVIOUS
  <2> HIDE DEF left, script
  <2>4. /\ frame' \in Frame /\ frame'.kind = "tick" /\ frame'.running = FALSE
        /\ frame'.snapshot = inst[s].timers /\ frame'.script = script
    BY <1>1, <1>2, <2>1, <2>2 DEF Frame, Runtime
  <2>5. Sees(inst[s].timers, inst[s], used.timer)
    BY <2>2 DEF Sees, Held
  <2>6. FrameRuns'
    BY <1>1, <1>3, <2>3, <2>4, <2>5 DEF FrameRuns, Is
  <2> QED
    BY <1>1, <2>6, FrameMoves
<1>4. CASE ~Is(s, "running")
  <2>1. frame' = [frame EXCEPT !.todo = left]
    BY <1>4 DEF Enter
  <2> HIDE DEF left
  <2>2. frame' \in Frame /\ frame'.running = FALSE /\ frame'.snapshot = {}
    BY <1>1, <1>2, <2>1 DEF Frame
  <2>3. FrameRuns'
    BY <2>2 DEF FrameRuns
  <2> QED
    BY <1>1, <2>3, FrameMoves
<1> QED
  BY <1>3, <1>4

\* The frame ends between callbacks.
LEMMA DoneKeeps ==
    ASSUME IInv, Done
    PROVE  IInv'
<1>1. /\ frame # None /\ ~frame.running /\ frame' = None
      /\ UNCHANGED <<now, conn, inst, cand, pending, used>> /\ ~Callback
  BY DEF Done, Callback
<1> QED
  BY <1>1, FrameMoves DEF FrameRuns

\* Event takes down who listens, by name and owner.
LEMMA EventKeeps ==
    ASSUME IInv, Event
    PROVE  IInv'
<1>1. /\ frame = None /\ UNCHANGED <<now, conn, inst, cand, pending, used>> /\ ~Callback
      /\ frame' = [kind |-> "event", todo |-> Listeners, script |-> None,
                   snapshot |-> {}, running |-> FALSE, player |-> 0]
  BY DEF Event, Callback
<1>2. Listeners \subseteq Scripts \X Nat
  <2>1. \A s \in Scripts : /\ inst[s] # None => inst[s].owner \in Nat
                           /\ cand[s] # None => cand[s].owner \in Nat
    BY TypesOfState DEF Runtime
  <2> QED
    BY <2>1 DEF Listeners
<1>3. frame' \in Frame /\ frame'.running = FALSE /\ frame'.snapshot = {}
  BY <1>1, <1>2 DEF Frame
<1> QED
  BY <1>1, <1>3, FrameMoves DEF FrameRuns

\* A listener is called when it still is the script that was taken down.
LEMMA NotifyKeeps ==
    ASSUME IInv, NEW s \in Scripts, NEW owner, Notify(s, owner)
    PROVE  IInv'
<1>1. /\ frame # None /\ frame \in Frame /\ frame.kind = "event" /\ ~frame.running
      /\ UNCHANGED <<now, conn, inst, cand, pending, used>> /\ ~Callback
  BY TypesOfState DEF Notify, Callback
<1>2. frame.snapshot = {}
  BY <1>1 DEF IInv, FrameRuns
<1> DEFINE left == frame.todo \ {<<s, owner>>}
<1>3. left \subseteq Scripts \X Nat
  BY <1>1 DEF Frame
<1>4. CASE SameOwner(s, owner) /\ Is(s, "running")
  <2>1. frame' = [frame EXCEPT !.todo = left, !.script = s, !.running = TRUE]
    BY <1>4 DEF Notify
  <2> HIDE DEF left
  <2>2. frame' \in Frame /\ frame'.script = s /\ frame'.snapshot = {}
    BY <1>1, <1>2, <1>3, <2>1 DEF Frame
  <2>3. FrameRuns'
    BY <1>1, <1>4, <2>2 DEF FrameRuns, Is
  <2> QED
    BY <1>1, <2>3, FrameMoves
<1>5. CASE ~(SameOwner(s, owner) /\ Is(s, "running"))
  <2>1. frame' = [frame EXCEPT !.todo = left]
    BY <1>5 DEF Notify
  <2> HIDE DEF left
  <2>2. frame' \in Frame /\ frame'.running = FALSE /\ frame'.snapshot = {}
    BY <1>1, <1>2, <1>3, <2>1 DEF Frame
  <2> QED
    BY <1>1, <2>2, FrameMoves DEF FrameRuns
<1> QED
  BY <1>4, <1>5

\* A command finds its script, and makes a handle of the caller.
LEMMA CommandKeeps ==
    ASSUME IInv, NEW s \in Scripts, NEW p \in Slots, Command(s, p)
    PROVE  IInv'
<1> DEFINE r == Rid(inst[s], Stale)
           x == [r EXCEPT !.players = @ \cup {conn[p]}]
<1>1. /\ frame = None /\ ~Callback /\ Is(s, "running") /\ UNCHANGED <<now, conn, pending, used>>
      /\ inst' = [other \in Scripts |-> IF other = s THEN x ELSE Rid(inst[other], Stale)]
      /\ cand' = [other \in Scripts |-> Rid(cand[other], Stale)]
      /\ frame' = [kind |-> "command", todo |-> {}, script |-> s,
                   snapshot |-> {}, running |-> TRUE, player |-> conn[p]]
  BY DEF Command, Callback
<1>2. conn[p] \in Nat
  BY DEF IInv, Typed
<1>3. Follows(r, Rid(cand[s], Stale), s) /\ r # None /\ r \in Runtime
  BY <1>1, RidFollows DEF Follows
<1> HIDE DEF r
<1>4. /\ x \in Runtime /\ Alike(x, r) /\ x.timers = r.timers /\ x.players = r.players \cup {conn[p]}
  BY <1>2, <1>3 DEF Runtime, Alike
<1> HIDE DEF x
<1>5. Held(x, now, used.timer)
  BY <1>3, <1>4 DEF Follows, Current, Held, Alike
<1>6. Current(x, now, used.timer, Kicked(s))
  BY <1>3, <1>4, <1>5 DEF Follows, Current, Alike, Punctual
<1>7. Follows(x, Rid(cand[s], Stale), s)
  BY <1>3, <1>4, <1>6, NoneAssumption DEF Follows, Alike
<1>8. \A t \in Scripts : Follows(inst'[t], cand'[t], t)
  BY <1>1, <1>7, RidFollows
<1>9. InTime'
  <2>1. \A t \in Scripts : Kicked(t) = {}
    BY <1>1, Quiet
  <2> QED
    BY <1>1, <1>8, <2>1, QuietInTime DEF Follows
<1>10. Typed'
  <2>1. inst' = [t \in Scripts |-> inst'[t]] /\ cand' = [t \in Scripts |-> cand'[t]]
    BY <1>1
  <2>2. \A t \in Scripts : inst'[t] \in Runtime \cup {None} /\ cand'[t] \in Runtime \cup {None}
    BY <1>8 DEF Follows
  <2> QED
    BY <1>1, <2>1, <2>2 DEF IInv, Typed
<1>11. PendingIsWanted'
  BY <1>1, <1>8, PendingStays DEF IInv, PendingIsWanted, Follows, Is
<1>12. FrameRuns'
  <2>1. frame' \in Frame /\ frame'.script = s /\ frame'.snapshot = {}
    BY <1>1, <1>2 DEF Frame
  <2>2. Is(s, "running")'
    BY <1>1, <1>8 DEF Follows, Is
  <2> QED
    BY <2>1, <2>2 DEF FrameRuns, Is
<1> QED
  BY <1>9, <1>10, <1>11, <1>12 DEF IInv

\* What a frame does with the next timer of its copy.
Passed(t) == [frame EXCEPT !.snapshot = @ \ {t},
                           !.script = IF frame.snapshot = {t} THEN None ELSE frame.script]
Called(t) == [Passed(t) EXCEPT !.script = frame.script, !.running = TRUE, !.player = t.target]
Dropped(t) == [inst[frame.script] EXCEPT !.timers = {other \in @ : other.id # t.id}]

\* A frame that goes through timers is a tick, and the script whose timers they are runs.
LEMMA InTheCopy ==
    ASSUME IInv, frame # None, ~frame.running, NEW t \in frame.snapshot
    PROVE  /\ frame \in Frame /\ frame.kind = "tick" /\ t \in Timer
           /\ frame.script \in Scripts /\ Is(frame.script, "running")
           /\ Sees(frame.snapshot, inst[frame.script], used.timer)
           /\ inst[frame.script] \in Runtime /\ Held(inst[frame.script], now, used.timer)
           /\ Current(inst[frame.script], now, used.timer, {}) /\ cand[frame.script] = None
<1>1. /\ frame \in Frame /\ frame.kind = "tick" /\ frame.script \in Scripts
      /\ Is(frame.script, "running") /\ Sees(frame.snapshot, inst[frame.script], used.timer)
  BY DEF IInv, FrameRuns
<1>2. t \in Timer
  BY <1>1 DEF Frame
<1>3. ~Callback
  BY DEF Callback
<1> QED
  BY <1>1, <1>2, <1>3, Quiet, TypesOfState DEF Is, Current

\* Without a timer that has its id, nothing else changes for the script.
LEMMA DroppedKeeps ==
    ASSUME IInv, frame # None, ~frame.running, NEW t \in frame.snapshot
    PROVE  /\ Dropped(t) \in Runtime /\ Alike(Dropped(t), inst[frame.script])
           /\ Dropped(t).timers = {u \in inst[frame.script].timers : u.id # t.id}
           /\ Current(Dropped(t), now, used.timer, {})
<1> DEFINE i == inst[frame.script]
           x == [i EXCEPT !.timers = {u \in @ : u.id # t.id}]
<1>1. i \in Runtime /\ Is(frame.script, "running") /\ Current(i, now, used.timer, {})
  BY InTheCopy
<1>2. /\ x \in Runtime /\ Alike(x, i) /\ x.players = i.players
      /\ x.timers = {u \in i.timers : u.id # t.id}
  BY <1>1 DEF Runtime, Alike
<1>3. Dropped(t) = x
  BY DEF Dropped
<1> HIDE DEF x
<1>4. Current(x, now, used.timer, {})
  BY <1>1, <1>2 DEF Current, Held, Punctual, Alike, Is
<1> QED
  BY <1>2, <1>3, <1>4

\* The frame after the timer.
LEMMA PassedIsFrame ==
    ASSUME IInv, frame # None, ~frame.running, NEW t \in frame.snapshot
    PROVE  /\ Passed(t) \in Frame /\ Passed(t).kind = "tick" /\ Passed(t).running = FALSE
           /\ Passed(t).snapshot = frame.snapshot \ {t}
           /\ Passed(t).snapshot # {} => Passed(t).script = frame.script
           /\ Called(t) \in Frame /\ Called(t).kind = "tick" /\ Called(t).running = TRUE
           /\ Called(t).snapshot = frame.snapshot \ {t} /\ Called(t).script = frame.script
<1>1. frame \in Frame /\ frame.kind = "tick" /\ t \in Timer /\ frame.script \in Scripts
  BY InTheCopy
<1> DEFINE script == IF frame.snapshot = {t} THEN None ELSE frame.script
<1>2. script \in Scripts \cup {None} /\ (frame.snapshot \ {t} # {} => script = frame.script)
  BY <1>1
<1>3. Passed(t) = [frame EXCEPT !.snapshot = @ \ {t}, !.script = script]
  BY DEF Passed
<1> HIDE DEF script
<1>4. /\ Passed(t) \in Frame /\ Passed(t).kind = "tick" /\ Passed(t).running = frame.running
      /\ Passed(t).snapshot = frame.snapshot \ {t} /\ Passed(t).script = script
  BY <1>1, <1>2, <1>3 DEF Frame
<1>5. t.target \in Nat /\ frame.running = FALSE
  BY <1>1 DEF Timer, Frame
<1>6. /\ Called(t) \in Frame /\ Called(t).kind = "tick" /\ Called(t).running = TRUE
      /\ Called(t).snapshot = frame.snapshot \ {t} /\ Called(t).script = frame.script
  BY <1>1, <1>4, <1>5 DEF Called, Frame
<1> QED
  BY <1>2, <1>4, <1>5, <1>6

\* The choices of Examine.
LEMMA ExamineCases ==
    ASSUME NEW t, Examine(t)
    PROVE  /\ frame # None /\ ~frame.running /\ t \in frame.snapshot
           /\ UNCHANGED <<now, conn, cand, pending, used>>
           /\ \/ frame' = Passed(t) /\ UNCHANGED inst
              \/ frame' = Passed(t) /\ Change(frame.script, Dropped(t))
              \/ /\ frame' = Called(t) /\ Change(frame.script, Dropped(t))
                 /\ Registered(frame.script, t) /\ Due(t) /\ t.target \in Connected \cup {0}
BY DEF Examine, Passed, Called, Dropped

\* The timer is passed over, dropped, or dropped and called.
LEMMA ExamineKeeps ==
    ASSUME IInv, NEW t, Examine(t)
    PROVE  IInv'
<1>1. /\ frame # None /\ ~frame.running /\ t \in frame.snapshot /\ ~Callback
      /\ UNCHANGED <<now, conn, cand, pending, used>>
      /\ frame' \in {Passed(t), Called(t)}
      /\ UNCHANGED inst \/ Change(frame.script, Dropped(t))
  BY ExamineCases DEF Callback
<1> DEFINE s == frame.script
<1>2. /\ s \in Scripts /\ Is(s, "running") /\ Sees(frame.snapshot, inst[s], used.timer)
      /\ cand[s] = None /\ inst[s] \in Runtime /\ Current(inst[s], now, used.timer, {})
  BY <1>1, InTheCopy
<1>3. /\ Dropped(t) \in Runtime /\ Alike(Dropped(t), inst[s])
      /\ Dropped(t).timers \subseteq inst[s].timers
      /\ Current(Dropped(t), now, used.timer, {})
  BY <1>1, DroppedKeeps
<1>4. /\ frame' \in Frame /\ frame'.kind = "tick" /\ frame'.snapshot \subseteq frame.snapshot
      /\ frame'.running \/ frame'.snapshot # {} => frame'.script = s
  BY <1>1, PassedIsFrame
<1>5. inst \in [Scripts -> Runtime \cup {None}] /\ inst' \in [Scripts -> Runtime \cup {None}]
  BY <1>1, <1>2, <1>3 DEF IInv, Typed, Change
<1>6. /\ \A u \in Scripts : u # s => inst'[u] = inst[u]
      /\ inst'[s] \in {inst[s], Dropped(t)}
  BY <1>1, <1>2, <1>5 DEF Change
<1>7. inst'[s] # None /\ inst'[s].state = "running" /\ inst'[s].timers \subseteq inst[s].timers
      /\ inst'[s].owner = inst[s].owner /\ inst'[s].faults = inst[s].faults
  BY <1>2, <1>3, <1>6, NoneAssumption DEF Is, Alike
<1>8. InTime'
  <2>1. ASSUME NEW u \in Scripts
        PROVE  /\ Current(inst'[u], now, used.timer, {}) /\ Waiting(cand[u], now, used.timer)
               /\ cand[u] # None => inst'[u] # None /\ inst'[u].state = "retiring"
    BY <1>1, <1>2, <1>3, <1>6, Quiet
  <2> QED
    BY <1>1, <2>1, QuietInTime
<1>9. Typed'
  BY <1>1, <1>5 DEF IInv, Typed
<1>10. PendingIsWanted'
  <2>1. pending # None => pending.script \in Scripts /\ Is(pending.script, "running")
    BY DEF IInv, PendingIsWanted
  <2>2. pending # None => /\ Is(pending.script, "running")'
                          /\ inst'[pending.script].owner = inst[pending.script].owner
                          /\ inst'[pending.script].faults = inst[pending.script].faults
    BY <1>1, <1>6, <1>7, <2>1 DEF Is
  <2> QED
    BY <1>1, <2>2, PendingStays
<1>11. FrameRuns'
  <2>1. Sees(frame'.snapshot, inst'[s], used.timer)
    BY <1>2, <1>4, <1>7 DEF Sees
  <2> QED
    BY <1>1, <1>2, <1>4, <1>7, <2>1 DEF FrameRuns, Is
<1> QED
  BY <1>8, <1>9, <1>10, <1>11 DEF IInv

\* A callback returns: a fault cancels the map change of its script, and may retire it.
LEMMA ReturnKeeps ==
    ASSUME IInv, NEW fault \in BOOLEAN, Return(fault)
    PROVE  IInv'
<1> DEFINE s == frame.script
           i == inst[s]
           x == IF fault THEN Faulted(i) ELSE [i EXCEPT !.kicks = {}]
           passed == [frame EXCEPT !.running = FALSE, !.player = 0]
<1>1. /\ Callback /\ Change(s, x) /\ UNCHANGED <<now, conn, cand>>
      /\ used' = IF fault THEN [used EXCEPT !.failed = @ + 1] ELSE used
      /\ pending' = IF fault THEN Canceled(i.owner) ELSE pending
      /\ frame' = IF frame.kind = "tick"
                  THEN IF x.state = "running" /\ frame.snapshot # {} THEN passed
                       ELSE [passed EXCEPT !.snapshot = {}, !.script = None]
                  ELSE IF frame.kind = "event" THEN [passed EXCEPT !.script = None] ELSE None
  BY DEF Return
<1>2. /\ frame # None /\ frame \in Frame /\ s \in Scripts /\ Is(s, "running")
      /\ frame.snapshot # {} => frame.kind = "tick" /\ Sees(frame.snapshot, i, used.timer)
      /\ i \in Runtime /\ i # None /\ i.state = "running"
  BY <1>1, TypesOfState DEF Callback, IInv, FrameRuns, Is
<1>3. Current(i, now, used.timer, Kicked(s)) /\ cand[s] = None
  BY <1>2, TypesOfState, SlotKeeps DEF Is
<1>4. /\ x \in Runtime /\ x.timers = i.timers /\ x.players = i.players /\ x.owner = i.owner
      /\ x.suspended = i.suspended /\ x.kicks = {} /\ x.state \in {"running", "retiring"}
      /\ ~fault => x.state = "running" /\ x.faults = i.faults
  <2>1. CASE fault
    <3>1. PICK n \in Nat : n = i.faults + 1
      BY <1>2 DEF Runtime
    <3>2. PICK state \in {"running", "retiring"} : state = IF n >= MaxFaults THEN "retiring" ELSE "running"
      OBVIOUS
    <3>3. x = [i EXCEPT !.faults = n, !.kicks = {}, !.state = state]
      BY <1>2, <2>1, <3>1, <3>2 DEF Faulted
    <3> HIDE DEF x, i
    <3> QED
      BY <1>2, <2>1, <3>2, <3>3 DEF Runtime
  <2>2. CASE ~fault
    <3>1. x = [i EXCEPT !.kicks = {}]
      BY <2>2
    <3> HIDE DEF x, i
    <3> QED
      BY <1>2, <2>2, <3>1 DEF Runtime
  <2> QED
    BY <2>1, <2>2
<1>5. inst \in [Scripts -> Runtime \cup {None}] /\ inst' = [inst EXCEPT ![s] = x]
  BY <1>1 DEF Change, IInv, Typed
<1> HIDE DEF x
<1>6. Current(x, now, used.timer, {})
  BY <1>2, <1>3, <1>4 DEF Current, Held, Punctual
<1>7. used' \in Used /\ used'.timer = used.timer
  <2>1. used \in Used
    BY DEF IInv, Typed
  <2>2. PICK n \in Nat : n = used.failed + 1
    BY <2>1 DEF Used
  <2>3. used' \in {used, [used EXCEPT !.failed = n]}
    BY <1>1, <2>2
  <2> QED
    BY <2>1, <2>3 DEF Used
<1>8. Typed'
  BY <1>1, <1>2, <1>4, <1>5, <1>7 DEF IInv, Typed
<1>9. InTime'
  <2>1. ASSUME NEW t \in Scripts
        PROVE  /\ Current(inst'[t], now, used.timer, {}) /\ Waiting(cand[t], now, used.timer)
               /\ cand[t] # None => inst'[t] # None /\ inst'[t].state = "retiring"
    <3>1. /\ Current(inst[t], now, used.timer, Kicked(t)) /\ Waiting(cand[t], now, used.timer)
          /\ cand[t] # None => Is(t, "retiring")
      BY TypesOfState, SlotKeeps
    <3>2. CASE t = s
      BY <1>2, <1>3, <1>5, <1>6, <3>1, <3>2
    <3>3. CASE t # s
      <4>1. inst'[t] = inst[t] /\ Kicked(t) = {}
        BY <1>5, <3>3 DEF Kicked, Active
      <4> QED
        BY <3>1, <4>1 DEF Is
    <3> QED
      BY <3>2, <3>3
  <2> QED
    BY <1>1, <1>7, <2>1, QuietInTime
<1>10. PendingIsWanted'
  <2>1. pending # None => /\ pending.script \in Scripts /\ Is(pending.script, "running")
                          /\ inst[pending.script].owner = pending.owner
    BY DEF IInv, PendingIsWanted
  <2>2. pending' \in {pending, None}
    BY <1>1 DEF Canceled
  <2>3. ASSUME pending' # None
        PROVE  /\ pending' = pending /\ Is(pending.script, "running")'
               /\ inst'[pending.script].owner = inst[pending.script].owner
               /\ inst'[pending.script].faults = inst[pending.script].faults
    <3>1. pending' = pending /\ pending # None
      BY <2>2, <2>3
    <3>2. CASE pending.script # s
      BY <1>5, <2>1, <3>1, <3>2 DEF Is
    <3>3. CASE pending.script = s
      <4>1. ~fault
        BY <1>1, <2>1, <2>3, <3>1, <3>3 DEF Canceled
      <4> QED
        BY <1>2, <1>4, <1>5, <3>1, <3>3, <4>1, NoneAssumption DEF Is
    <3> QED
      BY <3>2, <3>3
  <2> QED
    BY <2>2, <2>3, PendingStays
<1>11. FrameRuns'
  <2>1. /\ passed \in Frame /\ passed.kind = frame.kind /\ passed.running = FALSE
        /\ passed.snapshot = frame.snapshot /\ passed.script = frame.script
    BY <1>2 DEF Frame
  <2>2. passed.snapshot # {} => frame.kind = "tick"
    BY <1>2, <2>1
  <2> HIDE DEF passed
  <2>3. CASE frame.kind = "tick" /\ x.state = "running" /\ frame.snapshot # {}
    <3>1. frame' = passed
      BY <1>1, <2>3
    <3>2. inst'[s] # None /\ inst'[s].state = "running" /\ inst'[s].timers = i.timers
      BY <1>2, <1>4, <1>5, <2>3, NoneAssumption
    <3>3. frame'.script = s /\ frame'.snapshot = frame.snapshot /\ frame' \in Frame /\ frame'.kind = "tick"
      BY <2>1, <2>3, <3>1
    <3>4. Sees(frame.snapshot, inst'[s], used.timer)
      BY <1>2, <2>3, <3>2 DEF Sees
    <3> QED
      BY <1>2, <1>7, <3>2, <3>3, <3>4 DEF FrameRuns, Is
  <2>4. CASE frame.kind = "tick" /\ ~(x.state = "running" /\ frame.snapshot # {})
    <3>1. frame' = [passed EXCEPT !.snapshot = {}, !.script = None]
      BY <1>1, <2>4
    <3>2. frame' \in Frame /\ frame'.running = FALSE /\ frame'.snapshot = {}
      BY <2>1, <3>1 DEF Frame
    <3> QED
      BY <3>2 DEF FrameRuns
  <2>5. CASE frame.kind = "event"
    <3>1. frame' = [passed EXCEPT !.script = None]
      BY <1>1, <2>5
    <3>2. frame' \in Frame /\ frame'.running = FALSE /\ frame'.snapshot = {}
      BY <2>1, <2>2, <2>5, <3>1 DEF Frame
    <3> QED
      BY <3>2 DEF FrameRuns
  <2>6. CASE frame.kind \notin {"tick", "event"}
    BY <1>1, <2>6 DEF FrameRuns
  <2> QED
    BY <2>3, <2>4, <2>5, <2>6
<1> QED
  BY <1>8, <1>9, <1>10, <1>11 DEF IInv

-----------------------------------------------------------------------------
(* The specification.                                                      *)

\* The scripts are loaded and nothing has been asked for.
LEMMA InitKeeps ==
    ASSUME Init
    PROVE  IInv
<1>1. Cardinality(Scripts) \in Nat
  BY DispatchAssumption, FS_CardinalityType
<1>2. PICK owner \in [Scripts -> 1..Cardinality(Scripts)] :
        inst = [s \in Scripts |->
                  Script(owner[s], IF owner[s] = Cardinality(Scripts) THEN MaxFaults - 1 ELSE 0)]
  BY DEF Init
<1>3. /\ now = 0 /\ conn = [p \in Slots |-> 0] /\ cand = [s \in Scripts |-> None]
      /\ pending = None /\ frame = None
      /\ used = [connection |-> 0, owner |-> Cardinality(Scripts), timer |-> 0, failed |-> 0]
  BY DEF Init
<1>4. ASSUME NEW s \in Scripts
      PROVE  /\ inst[s] \in Runtime /\ inst[s].timers = {} /\ inst[s].kicks = {}
             /\ inst[s].suspended = 0
  <2>1. owner[s] \in Nat
    BY <1>1, <1>2
  <2>2. PICK n \in Nat : n = IF owner[s] = Cardinality(Scripts) THEN MaxFaults - 1 ELSE 0
    BY DispatchAssumption
  <2>3. inst[s] = Script(owner[s], n)
    BY <1>2, <2>2
  <2> QED
    BY <2>1, <2>3 DEF Script, Runtime
<1>5. Typed
  BY <1>1, <1>2, <1>3, <1>4 DEF Typed, Used
<1>6. InTime
  BY <1>3, <1>4 DEF InTime, Current, Waiting, Held, Punctual
<1> QED
  BY <1>3, <1>5, <1>6 DEF IInv, PendingIsWanted, FrameRuns

\* A stuttering step keeps everything.
LEMMA StutterKeeps ==
    ASSUME IInv, UNCHANGED vars
    PROVE  IInv'
BY DEF IInv, vars, Typed, InTime, PendingIsWanted, FrameRuns, Kicked, Active, Callback, Is

\* Every step keeps the invariant.
LEMMA StepKeeps ==
    ASSUME IInv, [Next]_vars
    PROVE  IInv'
<1>1. CASE \E p \in Slots : Join(p) \/ Leave(p) \/ KickPlayer(p)
                            \/ \E s \in Scripts : Command(s, p)
  BY <1>1, JoinKeeps, LeaveKeeps, KickKeeps, CommandKeeps
<1>2. CASE MapChanged \/ TickMap \/ Tick \/ Done \/ Event
  BY <1>2, MapChangedKeeps, TickMapKeeps, TickKeeps, DoneKeeps, EventKeeps
<1>3. CASE \E s \in Scripts : Enter(s) \/ Pause(s) \/ Resume(s) \/ Unload(s) \/ ReloadDone(s)
                              \/ \E created \in BOOLEAN : Load(s, created) \/ Reload(s, created)
                              \/ \E owner \in 1..MaxOwner : Notify(s, owner)
  BY <1>3, EnterKeeps, PauseKeeps, ResumeKeeps, UnloadKeeps, ReloadDoneKeeps, LoadKeeps, ReloadKeeps,
     NotifyKeeps
<1>4. CASE \E fault \in BOOLEAN : Return(fault)
  BY <1>4, ReturnKeeps
<1>5. CASE frame # None /\ \E t \in frame.snapshot : Examine(t)
  BY <1>5, ExamineKeeps
<1>6. CASE \E delay \in Delays, across \in BOOLEAN :
              \E target \in 0..MaxConnection : CreateTimer(delay, target, across)
  BY <1>6, CreateTimerKeeps
<1>7. CASE Callback /\ \E t \in inst[Self].timers : CancelTimer(t)
  BY <1>7, CancelTimerKeeps
<1>8. CASE GetPlayers \/ ChangeMap
  BY <1>8, GetPlayersKeeps, ChangeMapKeeps
<1>9. CASE UNCHANGED vars
  BY <1>9, StutterKeeps
<1> QED
  BY <1>1, <1>2, <1>3, <1>4, <1>5, <1>6, <1>7, <1>8, <1>9 DEF Next

\* The invariant holds in every state.
LEMMA Invariant == Spec => []IInv
<1>1. Init => IInv
  BY InitKeeps
<1>2. IInv /\ [Next]_vars => IInv'
  BY StepKeeps
<1> QED
  BY <1>1, <1>2, PTL DEF Spec

\* ResumeTimers and ReloadScript give every timer back exactly the time its script did not
\* run, and Disconnected leaves no timer without the handle of its target.
THEOREM TimersAreExact == Spec => []TimersKeepTime
<1>1. ASSUME IInv
      PROVE  TimersKeepTime
  <2> SUFFICES ASSUME NEW s \in Scripts, NEW script \in {inst[s], cand[s]} \ {None},
                      NEW t \in script.timers
               PROVE  /\ t.target # 0 => t.target \in script.players
                      /\ IF script = inst[s] /\ script.state = "running" THEN t.due + t.age = now + t.delay
                         ELSE script.state # "retiring" => t.due + t.age = script.suspended + t.delay
    BY DEF TimersKeepTime
  <2>1. /\ Current(inst[s], now, used.timer, Kicked(s)) /\ Waiting(cand[s], now, used.timer)
        /\ cand[s] # None => inst[s].state = "retiring"
        /\ inst[s] \in Runtime \cup {None}
    BY <1>1 DEF IInv, InTime, Is, Typed
  <2>2. CASE script = inst[s]
    BY <2>1, <2>2 DEF Current, Held, Punctual, Runtime
  <2>3. CASE script = cand[s] /\ script # inst[s]
    BY <2>1, <2>3 DEF Waiting, Held, Punctual
  <2> QED
    BY <2>2, <2>3
<1> QED
  BY <1>1, Invariant, PTL

\* A request that is pending, of a map or a kick, is of a script that still runs and still
\* has its reason: CancelMap and Invoke forget every other.
THEOREM RequestsStayWanted == Spec => []RequestsAreWanted
<1>1. IInv => RequestsAreWanted
  BY DEF IInv, InTime, PendingIsWanted, RequestsAreWanted, Current, Kicked
<1> QED
  BY <1>1, Invariant, PTL

\* A callback that starts in a frame is due: the copies that Tick and Event go through
\* never call what was canceled, replaced, retired or paused since.
LEMMA StartIsDue ==
    ASSUME IInv, [Next]_vars, frame # None, frame' # None, ~frame.running, frame'.running
    PROVE  DueStart
<1>1. ~Outside /\ ~Callback /\ ~May /\ frame' # frame
  BY DEF Outside, Callback, May
<1>2. CASE \E s \in Scripts, owner \in 1..MaxOwner : Notify(s, owner)
  <2>1. PICK s \in Scripts, owner \in 1..MaxOwner : Notify(s, owner)
    BY <1>2
  <2>2. /\ frame.kind = "event" /\ <<s, owner>> \in frame.todo /\ frame \in Frame
        /\ frame' = IF SameOwner(s, owner) /\ Is(s, "running")
                    THEN [frame EXCEPT !.todo = @ \ {<<s, owner>>}, !.script = s, !.running = TRUE]
                    ELSE [frame EXCEPT !.todo = @ \ {<<s, owner>>}]
    BY <2>1, TypesOfState DEF Notify
  <2>3. SameOwner(s, owner) /\ Is(s, "running") /\ frame'.script = s
    BY <2>2 DEF Frame
  <2> QED
    BY <2>2, <2>3 DEF DueStart, SameOwner
<1>3. CASE \E t \in frame.snapshot : Examine(t)
  <2>1. PICK t \in frame.snapshot : Examine(t)
    BY <1>3
  <2> DEFINE s == frame.script
  <2>2. /\ frame.kind = "tick" /\ Is(s, "running") /\ s \in Scripts
        /\ Sees(frame.snapshot, inst[s], used.timer) /\ Passed(t).running = FALSE
        /\ Called(t).script = s
    BY InTheCopy, PassedIsFrame
  <2>3. /\ frame' = Called(t) /\ Change(s, Dropped(t))
        /\ Registered(s, t) /\ Due(t) /\ t.target \in Connected \cup {0}
    BY <2>1, <2>2, ExamineCases
  <2>4. inst'[s] = Dropped(t)
    BY <2>2, <2>3 DEF Change, IInv, Typed
  <2>5. inst'[s].timers = {u \in inst[s].timers : u.id # t.id}
    BY <2>4, DroppedKeeps
  <2>6. t \in inst[s].timers /\ \A u \in inst[s].timers : u.id = t.id => u = t
    BY <2>2, <2>3 DEF Registered, Sees
  <2>7. inst[s].timers \ inst'[s].timers = {t}
    BY <2>5, <2>6
  <2>8. frame'.script = s
    BY <2>2, <2>3
  <2> QED
    BY <2>2, <2>3, <2>7, <2>8 DEF DueStart, Due
<1>4. CASE \E s \in Scripts : Enter(s)
  <2>1. frame \in Frame
    BY TypesOfState
  <2>2. frame'.running = FALSE
    BY <1>4, <2>1 DEF Enter, Frame
  <2> QED
    BY <2>2
<1> QED
  BY <1>1, <1>2, <1>3, <1>4 DEF Next, vars, Join, Leave, KickPlayer, Command, MapChanged, TickMap, Tick,
     Done, Event, Pause, Resume, Unload, ReloadDone, Load, Reload, Return, CreateTimer, CancelTimer,
     GetPlayers, ChangeMap

\* Only callbacks that are due start, for scripts that run.
THEOREM CallbacksAreDue == Spec => OnlyDueCallbacks
<1>1. IInv /\ [Next]_vars =>
        [frame # None /\ frame' # None /\ ~frame.running /\ frame'.running => DueStart]_vars
  BY StartIsDue
<1> QED
  BY <1>1, Invariant, PTL DEF Spec, OnlyDueCallbacks

=============================================================================
