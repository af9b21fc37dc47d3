----------------------------- MODULE ClientPrefs -----------------------------
(***************************************************************************)
(* extensions/clientprefs/service.cpp and the waits of extension.cpp:      *)
(* player settings, kept per account in a write-back cache.  The server    *)
(* thread answers scripts from the cache and submits loads and saves to a  *)
(* WorkQueue with one worker, which runs them in the order of submission;  *)
(* their completions are dispatched by Pump, once per frame and when the   *)
(* extension is asked to stop.                                             *)
(*                                                                         *)
(* A value is the number of its write, 0 an unset one, so that the         *)
(* revision of a value, which numbers the writes of one cached account, is *)
(* the value itself.  The cookies are registered and ready.                *)
(***************************************************************************)
EXTENDS Naturals, FiniteSets, Sequences

CONSTANTS N,              \* accounts, ordered as in the map accounts_
          Clients,        \* the accounts whose players may connect; MaxClients is 128
          Cookies,
          Capacity,       \* of the work queue: 256 in the code
          MaxAccounts,    \* of the cache: 256 in the code
          MaxConnections, \* bound: connections of an account
          MaxWrites,      \* bound: values written, by scripts and by other servers
          MaxWaits,       \* bound: waits at a time: 256 in the code
          FaultLimit,     \* bound: failed jobs, snapshots and busy scripts
          None

ASSUME PrefsAssumption ==
    /\ N \in Nat /\ IsFiniteSet(Cookies) /\ Capacity \in Nat \ {0}
    /\ Clients \subseteq 1..N /\ Cardinality(Clients) <= MaxAccounts
    /\ {MaxAccounts, MaxConnections, MaxWrites, MaxWaits, FaultLimit} \subseteq Nat

VARIABLES
    online,   \* the connection of each account; 0 is none
    joined,   \* the connections so far
    players,  \* players_: the last snapshot that was accepted
    accounts, \* accounts_: the cached accounts
    todo,     \* jobs submitted and not yet run
    done,     \* jobs that ran and whose completion was not dispatched
    main,     \* the server thread: "idle", or in the Pump of a "frame" or of a "stop"
    left,     \* completions this Dispatch still takes
    up,       \* service_ exists
    waits,    \* waiting_: the callbacks scripts wait for
    stored,   \* the database
    owed,     \* history: the accepted value that is not committed; 0 is none
    held,     \* history: what the database held since it committed the last accepted value
    writes,   \* values written so far
    faults

vars == <<online, joined, players, accounts, todo, done, main, left, up, waits,
          stored, owed, held, writes, faults>>

Accounts == 1..N
Writes == 0..MaxWrites
Values == [Cookies -> Writes]
Unset == [c \in Cookies |-> 0]
Nobody == [a \in Accounts |-> 0]

Account ==
    [state : {"loading", "ready", "failed"}, values : Values, dirty : Values,
     loading : BOOLEAN, saving : BOOLEAN, writeFailed : BOOLEAN,
     error : BOOLEAN, writeError : BOOLEAN]
ASSUME NoneAssumption == None \notin Account

NewAccount ==
    [state |-> "loading", values |-> Unset, dirty |-> Unset,
     loading |-> FALSE, saving |-> FALSE, writeFailed |-> FALSE,
     error |-> FALSE, writeError |-> FALSE]

Job == [kind : {"load", "save"}, account : Accounts, values : Values]
Result == [kind : {"load", "save"}, account : Accounts, values : Values, failed : BOOLEAN]

\* A wait for the cache or a save of a connected player, or for a save of an identity.
Wait ==
    [kind : {"cache", "save"}, account : Clients, connection : 1..MaxConnections]
    \cup [kind : {"identity"}, account : Accounts, connection : {0}]

Init ==
    /\ online = Nobody /\ joined = Nobody /\ players = Nobody
    /\ accounts = [a \in Accounts |-> None]
    /\ todo = <<>> /\ done = <<>> /\ main = "idle" /\ left = 0 /\ up = FALSE
    /\ waits = {}
    /\ stored = [a \in Accounts |-> Unset]
    /\ owed = [a \in Accounts |-> Unset]
    /\ held = [a \in Accounts |-> [c \in Cookies |-> {0}]]
    /\ writes = 0 /\ faults = 0

-----------------------------------------------------------------------------
(* The service: its operations change the cache and the queue, a view.     *)

View == [accounts |-> accounts, todo |-> todo]
Become(v) == accounts' = v.accounts /\ todo' = v.todo

Cached(v) == {a \in Accounts : v.accounts[a] # None}
Clean(account) == account.dirty = Unset
Present(P) == {a \in Accounts : P[a] # 0}

\* Submit for the accounts of S in order, while the queue has room: those it accepts.
Before(S, a) == Cardinality({b \in S : b < a})
Accepted(v, S) == {a \in S : Len(v.todo) + Len(done) + Before(S, a) < Capacity}
Nth(S, i) == CHOOSE a \in S : Before(S, a) = i - 1
Queue(v, S, job) == v.todo \o [i \in 1..Cardinality(S) |-> job[Nth(S, i)]]

\* Load, for the accounts of S.
Load(v, S) ==
    LET wanted == {a \in S : ~v.accounts[a].loading}
        sent == Accepted(v, wanted)
    IN [accounts |-> [a \in Accounts |->
            IF a \in sent THEN [v.accounts[a] EXCEPT !.loading = TRUE, !.state = "loading"]
            ELSE IF a \in wanted THEN [v.accounts[a] EXCEPT !.state = "failed", !.error = TRUE]
            ELSE v.accounts[a]],
        todo |-> Queue(v, sent, [a \in sent |-> [kind |-> "load", account |-> a, values |-> Unset]])]

\* Save, for the accounts of S.
ToSave(v, S) ==
    {a \in S \cap Cached(v) :
        ~v.accounts[a].saving /\ ~v.accounts[a].writeFailed /\ ~Clean(v.accounts[a])}
Save(v, S) ==
    LET sent == Accepted(v, ToSave(v, S))
    IN [accounts |-> [a \in Accounts |->
            IF a \in sent
            THEN [v.accounts[a] EXCEPT !.saving = TRUE, !.error = FALSE, !.writeError = FALSE]
            ELSE v.accounts[a]],
        todo |-> Queue(v, sent, [a \in sent |->
                     [kind |-> "save", account |-> a, values |-> v.accounts[a].dirty]])]

Evictable(account) == ~account.loading /\ ~account.saving /\ Clean(account)
Evict(v, P) ==
    [v EXCEPT !.accounts = [a \in Accounts |->
        IF a \in Cached(v) \ Present(P) /\ Evictable(v.accounts[a]) THEN None ELSE v.accounts[a]]]

\* Emplace the accounts of S, each with its first load.
Enter(v, S) ==
    Load([v EXCEPT !.accounts = [a \in Accounts |-> IF a \in S THEN NewAccount ELSE @[a]]], S)

\* Service::Sync accepts a snapshot that fits the cache.
Fits(P) == Cardinality(Cached(View) \cup Present(P)) <= MaxAccounts
Sync(P) == Evict(Enter(View, Present(P) \ Cached(View)), P)

Written(account, c, value) ==
    [account EXCEPT !.values[c] = value, !.dirty[c] = value, !.writeFailed = FALSE]
Write(v, a, c, value) == Save([v EXCEPT !.accounts[a] = Written(@, c, value)], {a})

\* The values that were read, under those that are not saved yet.
Overlaid_Not(values, dirty) == values
Overlaid(values, dirty) == [c \in Cookies |-> IF dirty[c] # 0 THEN dirty[c] ELSE values[c]]

\* The completions of Load and of Save.
Loaded(account, result) ==
    [account EXCEPT
        !.loading = FALSE, !.error = result.failed,
        !.state = IF result.failed THEN "failed" ELSE "ready",
        !.values = IF result.failed THEN @ ELSE Overlaid(result.values, account.dirty)]
Saved_All(account, result) ==
    [account EXCEPT
        !.saving = FALSE, !.error = result.failed,
        !.writeFailed = result.failed, !.writeError = result.failed,
        !.dirty = IF result.failed THEN @
                  ELSE [c \in Cookies |-> IF result.values[c] # 0 THEN 0 ELSE @[c]]]
Saved(account, result) ==
    [account EXCEPT
        !.saving = FALSE, !.error = result.failed,
        !.writeFailed = result.failed, !.writeError = result.failed,
        !.dirty = IF result.failed THEN @
                  ELSE [c \in Cookies |-> IF @[c] = result.values[c] THEN 0 ELSE @[c]]]

Persisted(account) == account.state = "ready" /\ ~account.saving /\ Clean(account)
IdentityPersisted(account) == account = None \/ (~account.saving /\ Clean(account))

-----------------------------------------------------------------------------
(* The adapter.  Every native first takes a snapshot of the players, which *)
(* is empty when the host fails, and hands it to Sync.                     *)

Snapshots == {online} \cup (IF faults < FaultLimit THEN {Nobody} ELSE {})
Took(P) == faults' = IF P = online THEN faults ELSE faults + 1

\* Invoke: a native whose snapshot is accepted, and whose effect is v.
Invoked(P, v) ==
    /\ main = "idle" /\ Fits(P) /\ Took(P)
    /\ players' = P /\ up' = TRUE /\ Become(v)
    /\ UNCHANGED <<online, joined, done, main, left, stored, held>>

\* The player that a script names is connected, and the snapshot shows him.
Current(P, a) == online[a] # 0 /\ P[a] = online[a]

\* Natives that read, or that are refused after the snapshot.  (One whose snapshot is
\* refused changes nothing.)
Read ==
    /\ \E P \in Snapshots : Invoked(P, Sync(P))
    /\ UNCHANGED <<waits, owed, writes>>

Accept(a, c) ==
    /\ writes < MaxWrites /\ writes' = writes + 1
    /\ owed' = [owed EXCEPT ![a][c] = writes + 1]
    /\ UNCHANGED waits

Set(a, c) ==
    /\ \E P \in Snapshots :
          LET v == Sync(P) IN
          /\ Current(P, a) /\ v.accounts[a].state = "ready"
          /\ Invoked(P, Write(v, a, c, writes + 1))
    /\ Accept(a, c)

SetIdentity(a, c) ==
    /\ \E P \in Snapshots :
          LET v == Evict(Sync(P), P) IN
          /\ a \in Cached(v) \/ Cardinality(Cached(v)) < MaxAccounts
          /\ Invoked(P, Write(IF a \in Cached(v) THEN v ELSE Enter(v, {a}), a, c, writes + 1))
    /\ Accept(a, c)

Refresh(a) ==
    /\ \E P \in Snapshots :
          LET v == Sync(P) IN
          /\ Current(P, a)
          /\ ~v.accounts[a].loading /\ ~v.accounts[a].saving /\ Clean(v.accounts[a])
          /\ Invoked(P, Load(v, {a}))
    /\ UNCHANGED <<waits, owed, writes>>

\* RetryWrites forgets every failure and saves.
RetryWrites(v) ==
    Save([v EXCEPT !.accounts = [a \in Accounts |->
             IF a \in Cached(v) THEN [@[a] EXCEPT !.writeFailed = FALSE] ELSE None]], Accounts)

Retry ==
    /\ \E P \in Snapshots : Invoked(P, RetryWrites(Sync(P)))
    /\ UNCHANGED <<waits, owed, writes>>
RetryPlayer(a) ==
    /\ \E P \in Snapshots :
          LET v == Sync(P)
              failed == {b \in {a} : v.accounts[b].state = "failed"}
          IN Current(P, a) /\ Invoked(P, RetryWrites(Load(v, failed)))
    /\ UNCHANGED <<waits, owed, writes>>

\* A script asks to be called; a player it names is connected.
WaitFor(w) ==
    /\ Cardinality(waits) < MaxWaits /\ w.connection \in {0, online[w.account]}
    /\ \E P \in Snapshots : Invoked(P, Sync(P))
    /\ waits' = waits \cup {w}
    /\ UNCHANGED <<owed, writes>>

-----------------------------------------------------------------------------
(* A frame, and the question whether the extension can stop, run Pump.     *)

\* A snapshot that is refused leaves no player.
Frame ==
    /\ up /\ main = "idle"
    /\ \E P \in Snapshots :
          LET seen == IF Fits(P) THEN P ELSE Nobody IN
          /\ Took(P) /\ players' = seen /\ Become(Sync(seen))
    /\ main' = "frame" /\ left' = Len(done)
    /\ UNCHANGED <<online, joined, done, up, waits, stored, owed, held, writes>>

PrepareUnload ==
    /\ up /\ main = "idle"
    /\ main' = "stop" /\ left' = Len(done)
    /\ UNCHANGED <<online, joined, players, accounts, todo, done, up, waits,
                   stored, owed, held, writes, faults>>

\* Dispatch calls the completions that were ready when it began.
Complete ==
    /\ left > 0 /\ left' = left - 1 /\ done' = Tail(done)
    /\ LET result == Head(done) IN
       accounts' = [a \in Accounts |->
           IF a # result.account \/ accounts[a] = None THEN accounts[a]
           ELSE IF result.kind = "load" THEN Loaded(accounts[a], result)
           ELSE Saved(accounts[a], result)]
    /\ UNCHANGED <<online, joined, players, todo, main, up, waits, stored, owed, held,
                   writes, faults>>

Pumped_NoSave == Evict(View, players)
Pumped == Evict(Save(View, Accounts), players)

\* Complete of the adapter: the wait is over when what it waits for is true or has failed.
Cancelled(w) == w.kind # "identity" /\ players[w.account] # w.connection
Answerable(v, w) ==
    LET account == v.accounts[w.account] IN
    CASE w.kind = "cache" -> account.state = "ready" \/ account.error
      [] w.kind = "save" -> Persisted(account) \/ account.error
      [] OTHER -> IdentityPersisted(account) \/ account.writeError

EndFrame ==
    /\ main = "frame" /\ left = 0 /\ main' = "idle"
    /\ Become(Pumped)
    /\ LET waiting == {w \in waits : ~Cancelled(w)}
           answered == {w \in waiting : Answerable(Pumped, w)}
       IN \E busy \in IF faults < FaultLimit THEN SUBSET answered ELSE {{}} :
             /\ waits' = waiting \ (answered \ busy)
             /\ faults' = IF busy = {} THEN faults ELSE faults + 1
    /\ UNCHANGED <<online, joined, players, done, left, up, stored, owed, held, writes>>

\* CanStop: no job is unconsumed and no account is dirty.  The extension is then unloaded,
\* unless the host refuses for another reason.
CanStop(v) ==
    v.todo = <<>> /\ done = <<>> /\ \A a \in Cached(v) : Clean(v.accounts[a])
EndStop ==
    /\ main = "stop" /\ left = 0 /\ main' = "idle"
    /\ \/ Become(Pumped) /\ UNCHANGED <<up, players, waits>>
       \/ /\ CanStop(Pumped)
          /\ up' = FALSE /\ accounts' = [a \in Accounts |-> None]
          /\ players' = Nobody /\ waits' = {} /\ UNCHANGED todo
    /\ UNCHANGED <<online, joined, done, left, stored, owed, held, writes, faults>>

-----------------------------------------------------------------------------
(* The worker runs one job at a time against the database, which other     *)
(* servers share.  A save may be committed and its answer be lost.         *)

Ran(job, values, failed) ==
    /\ todo' = Tail(todo)
    /\ done' = Append(done, [kind |-> job.kind, account |-> job.account,
                             values |-> values, failed |-> failed])
    /\ faults' = IF failed THEN faults + 1 ELSE faults
    /\ failed => faults < FaultLimit

\* The database commits the values of a job.
Commit(job) ==
    LET a == job.account
        set == {c \in Cookies : job.values[c] # 0}
    IN /\ stored' = [stored EXCEPT ![a] = [c \in Cookies |-> IF c \in set THEN job.values[c] ELSE @[c]]]
       /\ owed' = [owed EXCEPT ![a] = [c \in Cookies |-> IF @[c] = job.values[c] THEN 0 ELSE @[c]]]
       /\ held' = [held EXCEPT ![a] = [c \in Cookies |->
              IF c \in set THEN IF owed[a][c] = job.values[c] THEN {job.values[c]}
                                ELSE @[c] \cup {job.values[c]}
              ELSE @[c]]]

Work ==
    /\ todo # <<>>
    /\ LET job == Head(todo) IN
       \/ /\ job.kind = "load" /\ Ran(job, stored[job.account], FALSE)
          /\ UNCHANGED <<stored, owed, held>>
       \/ /\ job.kind = "save" /\ Commit(job)
          /\ \E lost \in BOOLEAN : Ran(job, job.values, lost)
       \/ /\ Ran(job, job.values, TRUE)
          /\ UNCHANGED <<stored, owed, held>>
    /\ UNCHANGED <<online, joined, players, accounts, main, left, up, waits, writes>>

\* Another server that shares the database writes a value.
WriteElsewhere(a, c) ==
    /\ writes < MaxWrites /\ writes' = writes + 1
    /\ stored' = [stored EXCEPT ![a][c] = writes + 1]
    /\ held' = [held EXCEPT ![a][c] = @ \cup {writes + 1}]
    /\ UNCHANGED <<online, joined, players, accounts, todo, done, main, left, up, waits,
                   owed, faults>>

Connect(a) ==
    /\ online[a] = 0 /\ joined[a] < MaxConnections /\ main = "idle"
    /\ joined' = [joined EXCEPT ![a] = @ + 1]
    /\ online' = [online EXCEPT ![a] = joined[a] + 1]
    /\ UNCHANGED <<players, accounts, todo, done, main, left, up, waits, stored, owed, held,
                   writes, faults>>
Disconnect(a) ==
    /\ online[a] # 0 /\ main = "idle"
    /\ online' = [online EXCEPT ![a] = 0]
    /\ UNCHANGED <<joined, players, accounts, todo, done, main, left, up, waits, stored, owed,
                   held, writes, faults>>

Next ==
    \/ Read \/ Retry \/ Frame \/ PrepareUnload \/ Complete \/ EndFrame \/ EndStop \/ Work
    \/ \E a \in Clients : Refresh(a) \/ RetryPlayer(a) \/ Connect(a) \/ Disconnect(a)
    \/ \E a \in Clients, c \in Cookies : Set(a, c)
    \/ \E a \in Accounts, c \in Cookies : SetIdentity(a, c) \/ WriteElsewhere(a, c)
    \/ \E w \in Wait : WaitFor(w)

Spec == Init /\ [][Next]_vars

\* The server runs its frames, whatever else it is asked between them, and the worker its jobs.
FairSpec == Spec /\ SF_vars(Frame) /\ WF_vars(Complete \/ EndFrame \/ EndStop) /\ WF_vars(Work)

-----------------------------------------------------------------------------
(* Properties.                                                             *)

\* Type invariant.
TypeOK ==
    /\ {online, joined, players} \subseteq [Accounts -> 0..MaxConnections]
    /\ accounts \in [Accounts -> Account \cup {None}]
    /\ todo \in Seq(Job) /\ done \in Seq(Result) /\ Len(todo) + Len(done) <= Capacity
    /\ main \in {"idle", "frame", "stop"} /\ left \in 0..Len(done) /\ up \in BOOLEAN
    /\ waits \subseteq Wait /\ Cardinality(waits) <= MaxWaits
    /\ {stored, owed} \subseteq [Accounts -> Values]
    /\ held \in [Accounts -> [Cookies -> SUBSET Writes]]
    /\ writes \in Writes /\ faults \in 0..FaultLimit

\* A value that a script was told is accepted stays dirty until the database has it:
\* no load, no completion of an older save, no eviction and no unload loses it, and
\* IsSaved and IsIdentitySaved never say that it is stored before it is.
AcceptedIsKept ==
    /\ TypeOK
    /\ \A a \in Accounts, c \in Cookies :
        owed[a][c] # 0 => a \in Cached(View) /\ accounts[a].dirty[c] = owed[a][c]

\* A cache that scripts may read shows the value that was accepted last, unless the
\* database has taken another one since it committed that value.
CacheShowsAccepted ==
    \A a \in Cached(View), c \in Cookies :
        accounts[a].state = "ready" =>
            \/ accounts[a].values[c] = owed[a][c]
            \/ owed[a][c] = 0 /\ accounts[a].values[c] \in held[a][c]

\* loading and saving say which jobs of an account are under way: at most one of each,
\* and none of an account that was evicted, whose successor it would change.
Concerns(job, kind, a) == job.kind = kind /\ job.account = a
Flag(account, kind) ==
    account # None /\ IF kind = "load" THEN account.loading ELSE account.saving
Matches(accs, jobs) ==
    \A a \in Accounts, kind \in {"load", "save"} :
        /\ Flag(accs[a], kind) <=> \E i \in DOMAIN jobs : Concerns(jobs[i], kind, a)
        /\ \A i, j \in DOMAIN jobs :
              Concerns(jobs[i], kind, a) /\ Concerns(jobs[j], kind, a) => i = j
FlagsMatchJobs == Matches(accounts, done \o todo)

\* What an account says of itself, its values and its jobs, is so.
CacheIsCurrent == CacheShowsAccepted /\ FlagsMatchJobs

\* Every accepted value reaches the database, also that of a player who left and that
\* which found the queue full, or a failure is recorded, which Retry takes up.
ValuesLand ==
    \A a \in Accounts, c \in Cookies :
        []<>(owed[a][c] = 0 \/ (a \in Cached(View) /\ accounts[a].writeFailed))

\* A script that waits for a save of an identity is called, with an error if it failed.
IdentityWaitsEnd == \A w \in Wait : []<>(w.kind = "identity" => w \notin waits)

\* What was accepted is stored, and who waits for that is told.
WritesLand == ValuesLand /\ IdentityWaitsEnd

\* A refresh "marks the cache loading, and completes via WhenCached"
\* (source2root_clientprefs.inc): once the loads of an account have ended, a script that
\* waits for its cache is called, with an error if they failed.
CacheWaitsEnd ==
    \A w \in Wait :
        <>[](w.account \in Cached(View) /\ ~accounts[w.account].loading)
            => []<>(w.kind = "cache" => w \notin waits)
=============================================================================
