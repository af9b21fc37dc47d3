# A TLA+ development of Source2Root

Source2Root runs SourcePawn scripts as administration plugins of a Counter-Strike 2 server, on top
of the KeelS2 plugin host. This directory holds TLA+ models of its core and of its native extensions,
the TLC configurations that check them on small instances, and TLAPS proofs: invariants of nearly every
module, and that the work queue implements its abstract contract. Paths below are relative to the root of the repository's copy, `src/`: the file
`src/src/foundation.cpp` is `src/foundation.cpp` of the project.

Contents: 1 the system, 2 the modules, 3 the runs, 4 fairness and deadlock, 5 the proofs, 6 where
the code and its documentation disagree, 7 what is not modelled, 8 the plan.

## 1. The system

Almost everything runs on the **server thread**, once per frame (`Tick`) or from a host callback
(a command, a game event, a menu key, a player who joins). What makes it hard is not threads but
**reentrancy and failure**: a script calls a native, the native runs extension or host code, which
calls another script, which unloads the first; and nearly every host call (register, release,
clear a screen, mute) can fail and is retried later, possibly after the world has moved on. Real
threads exist in one place, the work queue of the native extensions. Persistence exists in two:
the ban database and the client preferences.

| Component | State | Operations | Talks to |
|---|---|---|---|
| Plugin lifecycle, `src/foundation.cpp` | `scripts_`, each with current script, replacement, preserved state, registrations; load order | Load, Unload, Reload, Pause, Resume, Retry, Refresh, Discover, UnloadAll | runtime (OnPluginStart/Stop), host registrations, handles, menus, voice, ConVars: all are released by `Cleanup` |
| Dispatch, timers, `src/dispatch.cpp`, `src/players.cpp`, `src/server.cpp` | timers and player handles of every script, `pending_map_`, the clock | Tick, Event, Command, Disconnected, MapChanged, RunPendingMap | scripts' callbacks, which manage scripts and timers |
| Permissions and players, `src/permissions.cpp`, `src/players.cpp` | `admins_`, identities of the players | load, reload, Authenticated, FindTargets, CanTarget, KickPlayer | two files, the host's authentication |
| ConVars, `src/convars.cpp` | `variables_` with their owners | create, adopt, set, retire, release | the host's variables; both scripts of a reload |
| Core settings, `src/config.cpp`, `src/module.cpp` | the settings, and the server's variables for them | change, refuse, put back, suspend, resume | the server's command queue |
| Extension calls, `src/extension_calls.cpp`, `src/bindings.cpp` | `providers_`, `callbacks_`, resources, leases, depth counters | register, bind, call native, capture/retain/deliver/invoke/cancel callback, create/close resource | both directions between scripts and extensions, on one call stack |
| Services, `src/module.cpp`, `extension.hpp` | what KeelS2 has published, what every module holds of it | load, publish, register natives, unload, retry | KeelS2, which may refuse each step |
| Handle table, `src/handles.h` | `entries_` with generations | Add, Check, Remove, Retire | everything a script refers to by number |
| Menus, `src/dispatch.cpp`, `src/native_menus.cpp` | `displays_`, `native_displays_`, sessions | show, input, close, expire, retry, map change, disconnect | the host's screen; scripts' and extensions' callbacks; extension leases |
| Voice, `src/voice.cpp` | `owners_`, `pairs_`, `suspended_` | Set, Clear, Refresh, Listening, Suspend, Resume | the engine's listening matrix; pause and cleanup |
| Ban database, `src/bans.cpp` | `bans_`, `ban_contents_`, the file | Load, AddBan, RemoveBan, AtomicWrite | the file system, an administrator's editor |
| Work queue, `include/source2root/work_queue.hpp` | `jobs_`, `waiting_`, `ready_`, worker threads | Submit, Cancel, Dispatch, Stop, Run | database, HTTP and client preferences extensions |
| Client preferences, `extensions/clientprefs/service.cpp` | `accounts_` (values, dirty values, flags), `players_`, the queue's jobs, waits | Set, SetIdentity, Refresh, Retry, Sync, Load, Save, Evict, Pump, CanStop | the database through a work queue with one worker; the players; scripts that wait |
| Database and HTTP, `extensions/database`, `mysql`, `postgresql`, `sqlite`, `http` | requests with ticket, callback and answer; transactions, locks; transfers | request, read, cancel, close, complete; connect, execute, commit; redirect, receive, stop | the work queue, callback tokens, servers |
| Hooks, `extensions/dhooks`, `sdkhooks` | registrations, targets, prepared calls; contexts of calls | hook, close, enable, execute; before, original, after | native functions, scripts' callbacks at any depth |
| Top menus, `extensions/topmenus` | objects, callbacks, views, the draw and the frame that run | add, remove, show, refresh, choose | native menus, callbacks of every item |
| Entities, `extensions/sdktools` | `Entity` objects with handles of the host, counters | create, find, spawn, set, input, teleport, close | host calls that run scripts |

What makes each component correct, and why it is hard:

- **Lifecycle**: a loaded script never loses a plugin it depends on, through files edited between
  reloads, failed cleanups and retained replacements; the host's registrations are exactly the
  ones loaded scripts hold; bulk operations reach every plugin and end.
- **Dispatch**: every loop walks a snapshot while its callbacks change what it was taken of; a callback
  that starts is still due, a timer is neither early nor late over pauses and reloads, and what a script
  asked for is not done for a script that is gone.
- **Permissions**: nobody is kicked whom the caller may not touch, though the account of a target may
  be unknown yet and its slot may have changed hands; half-edited files change nothing.
- **ConVars, settings**: each exists twice, here and in the server, and must come to agree although
  releases and restorations fail or come late.
- **Extension calls**: whatever is on the call stack can be returned to (virtual machine, native,
  lease), however a script was unloaded inside it; a used-up callback never runs again.
- **Services**: nothing points at a module that is gone, and no order of unloading blocks for ever.
- **Handles**: a number a script kept never reaches another value.
- **Menus, top menus**: one menu per player, its callback once and for the right player, and no leftover
  screen after a failed close; a row is what the player saw in it.
- **Voice**: what the game asked for is never forgotten behind a mute, and a mute holds.
- **Bans**: a confirmed ban survives a crash, an edited file is not overwritten.
- **Client preferences**: a value that was accepted is never lost, by a late load, an older save, an
  eviction or an unload; readers see it; it is stored in the end; a script that waits is called.
- **Work queue**: no job lost or duplicated, no closure destroyed under its worker, no lost wakeup,
  bounded storage.
- **Database and HTTP**: every answer is delivered or still owed; a script is told the truth about a
  transaction whose commit was not answered; headers and bodies stay with the origin they were for.
- **Hooks, entities**: a registration, a buffer or an entity is there until the last call has left it,
  and is then released once.

`PROJECT.json` lists every component and, under `hazards`, the line where each of these can bite.

## 2. The modules

Each module names its variables after the fields they model; history variables are marked
`history`. An action is a whole handler, unless something can happen in the middle of it; the
places where it can are steps of their own. Scripts are the environment: where one runs, it may call
any native of the module, in any order.

### The core

**`PluginLifecycle`** (`foundation.cpp`). Per plugin a slot with `current` and `replacement`
script, the file on `disk` (id, version, dependencies, or absent or broken), the paused state a
reload preserves, the load order, the names registered at the host, and the callback stack. `Load`,
`Unload`, `Reload`, `Retry`, `Pause`, `Resume` are one action each, with cleanup, dependency checks
and the outcome of each release at the host; `Refresh` and `UnloadAll` are loops whose iterations
are steps (`OpStep`) because the files may change and management is locked meanwhile. `Register`,
`CallBegin`, `CallEnd`, `ShowMenu` are what running scripts do, nested up to `MaxDepth`.

**`Dispatch`** (`dispatch.cpp`, `players.cpp`, `server.cpp`, the timers of `bindings.cpp`). `frame` is
the call of `Tick`, `Event` or `Dispatch` that runs, with the snapshot it still has to walk; a callback
creates and cancels timers, takes handles, kicks, asks for a map, and manages other scripts, which the
host does between frames too. Time is a small counter. A handle of a player is its connection.

**`Authority`** (`permissions.cpp`, `players.cpp`, `bindings.cpp`). Two files, edited one after the
other, each of which may be absent or broken; `admins`; the players with their true account, what their
client says, and whether the host has authenticated them. `FindTargets` stores handles (`chosen`) that a
script acts on later. The files are read in one step.

**`ConVars`** (`convars.cpp`). The loads of a plugin (`script`), of which a reload has two, own a
variable together; `host` is the server's. Retirement, adoption and every release may fail separately;
the change hook runs inside `Set` and may set again.

**`CoreSettings`** (`config.cpp`, `module.cpp`). The settings and the server's variables for them, with
the queue between: the server tells of a change after it was made, and a refused one is put back behind
the changes that are queued already. While Source2Root is paused nobody tells it.

**`ExtensionCalls`** (`extension_calls.cpp`, `bindings.cpp`, cleanup in `foundation.cpp`). A stack
of frames: OnPluginStart, OnPluginStop, a call, a one-shot callback, a retained callback, a native
of an extension, or a native of Source2Root in which host code runs (`core`). A `Script` is a
`Script` object, so a reload has two. `Unload` and the failing return of a retained callback run
`Cleaned`, which cancels tokens, retires resources and releases bindings in the code's order and
may fail at any of them. `late` records a resource destroyed without its extension's lease.

**`Services`** (`module.cpp`, `extension.hpp`). Source2Root and its extensions as KeelS2 loads and
unloads them: what is published, which tables a module has a pointer to, which names are registered and
which scripts are bound to them. Unloading stops at the first refusal and keeps what it has given back.

**`Handles`** (`handles.h`). A handle is `generation * 4096 + slot`, with the code's limits as
assumptions. Destroying a value is a step after it was detached, because a destructor may use the
table again.

**`Menus`** (`dispatch.cpp`, `native_menus.cpp`, `bindings.cpp`). `screen` is what the player sees,
`display` and `native` are the records. Closing is the code's sequence: clear the screen, give up
the callback and call it (a stack of running native callbacks, which may open and close menus),
release the service, drop the record; each host call may fail and is retried by
`TickNative`/`TickDisplay`. An input carries the session it was made for.

**`Voice`** (`voice.cpp`, `PreparePause` and `NativeResumed`). The engine's matrix `listening`, what
the game last asked for (`wanted`, history), the mutes per script, `suspended_` and `pairs_`. A call
is one step; each write to the engine may fail. While Source2Root is paused none of its code runs
but the engine's own: an assumption about KeelS2.

**`BanStore`** (`bans.cpp`). Memory, the file, and `lasting`, the set of contents a reader may find
after the machine has stopped. `AtomicWrite` is one step per system call (create and write, fsync,
rename, directory fsync), each of which may fail, with crashes and edits in between. The POSIX
branch is modelled. `AddBan` loads the database first when needed; that is the separate `Load` step.
`EditWhileSaving` says whether an administrator may save the file while `SaveBans` runs (section 6).

### The native extensions

**`WorkQueue`** (`work_queue.hpp`). The deques, the flags and closures of each job, the condition
variable as the set `asleep`, one control point per worker and one for the owner thread. One action
per critical section of `mutex_` and per call of user code: `Submit` then `Notify` (the lock is
released in between), `DispatchBegin`/`Take`/`CompletionReturns`/`CompletionThrows`/`Skip`/`End`,
`StopBegin`/`NotifyAll`/`Joined` for the destructor, `WorkerCheck`/`Start`/`Finish`/`Push` for
`Run`, and spurious wakeups. Tickets are cancelled on the owner thread, also from completions, as
all extensions do. Allocation failures inside `Submit` are left out.

**`JobContract`** is the abstract specification: the life of a job as its closures see it, without
threads, deques or locks. `WorkQueue!Contract` maps a job's phase from its place and
`ImplementsContract` is checked as a refinement.

**`Requests`** (`extensions/database`, `extensions/http`). A request of a script with its job, its
callback token and its answer, composed from the contract of the queue and that of the tokens: a
completion that finds its script busy is kept for the next frame, and the script may read, cancel and
close in its own callback, or be unloaded. Native extensions share the HTTP client, with a limit.

**`Queries`** (the `database` worker and the `sqlite`, `mysql` and `postgresql` drivers). What becomes
of a query, which runs as a transaction on a connection of its own: every step may be cancelled, run
late, exceed a limit or lose the connection, and a commit that was sent may land unheard. Scripts use
SQLite on the game thread at the same time; `lock` holds the locks of its one file.

**`Transfers`** (`extensions/http`). The builder of a request, and `Client::Perform`: one transfer per
hop, redirects that change origin and method, one budget of bytes and one deadline for all hops. `trail`
is history: what was sent where.

**`ClientPrefs`** (`extensions/clientprefs/service.cpp`, and Sync, Pump and the waits of
`extension.cpp`). `accounts` is the write-back cache; `todo` and `done` are the two ends of the work
queue, whose single worker runs the jobs in order against `stored`, the database, which other servers
write too. Every native is one step that first takes a snapshot of the players; a frame (or the
question whether the extension can stop) is one step per completion and one for the rest of `Pump`,
while the worker goes on. A value is the number of its write, so that it stands for its revision too.
`owed` and `held` are history: what was accepted and is not committed, and what the database held since
the last accepted value was. What WorkQueue itself guarantees (each job runs once, in order of
submission with one worker, and is consumed by Dispatch) is taken as given here.

**`Hooks`** (`extensions/dhooks`). Registrations with their depth, targets leased from the host, and
prepared calls with their buffers, on one stack of native functions and callbacks. A registration that is
closed inside its own callback leaves when the last call has left it and the host agrees.

**`EntityHooks`** (`extensions/sdkhooks`). A call of a hooked entity function has its context in a list
that is searched by frame address, which can be used again; a callback may destroy entities, close the
hook, or call the function. `pending` is that list as a set: a frame has at most one context in it,
which a new one for the frame replaces.

**`EntityTools`** (`extensions/sdktools`, `native.hpp`). Each object holds one handle of the host, which
may issue a number again. An operation captures handle and identity, then calls the host, which runs
scripts that may close that object. Natives that only read are assumed to run none.

**`TopMenus`** (`extensions/topmenus`). Objects by sequence number, one view per slot, `Draw` and
`OnGameFrame` as frames that ask callbacks and may find anything changed afterwards.

### MC modules, proofs, variants

The `MC*` modules define constants for TLC. Three also **host** modules that share no state: a variable
`part`, chosen at the start, says which of them moves while the others stay where they began, so a
behaviour of the instance is one of one part and nothing is composed that the code does not compose.
`MCParts` hosts nine parts (`Handles`, `BanStore`, `EntityHooks`, `Requests`, `ConVars`, `Services`,
`CoreSettings`, `Queries`, `Transfers`), `MCHooks` `Hooks` and `Authority`, `MCExtensionCalls`
`ExtensionCalls` and `EntityTools`. `MCTopMenus` is one instance of `TopMenus`, under names of its own for the
slots and the empty pointer, so that its proofs can stand beside those of `Menus`. A property of a hosted
module is restated there, for the variables and under the name the run uses.

`WorkQueueProofs`, `LifecycleProofs`, `DispatchProofs`, `ClientPrefsProofs`, `MenusProofs` (`Menus` and
`TopMenus`), `EngineProofs` (`Voice`, `Hooks` and `Authority`), `CallsProofs` (both parts of `MCExtensionCalls`) and `PartsProofs` (all parts of
`MCParts` but `CoreSettings`) hold proofs.
Operators whose name ends in `_` and a word (`Skips_Never`) stand next to the definition they vary: each
is a plausible bug of the code, and some property fails when it takes the definition's place.

## 3. The runs

| Run | Checks | Instance | Distinct states |
|---|---|---|---|
| `queue` | `EachJobInOnePlace`, `ReadyIsSound`, `ClosuresAccounted`, `ImplementsContract`, `NoLostWakeup` | 3 jobs, 2 workers, capacity 2 | 158 k |
| `lifecycle_host` | `CleanupIsSound`, `PauseSurvivesReload` | 2 plugins, one depends on the other; a command and an event; files that break; fault limit 2; callbacks two deep | 3.0 M |
| `lifecycle_chain` | `DependenciesHold`, `UnloadAllReachesAll` | 3 plugins, 6 files: dependencies both ways along a chain, a second version | 311 k |
| `menus` | `MenusAccounted`, `ChosenOnceByViewer`, `ClosedMenusLeave` | 2 slots, 2 connections, 3 sessions, 1 script, 1 extension | 179 k |
| `calls` | `Anchored`, `ResourcesKept`, `SpentNeverRuns` | 2 scripts, 2 natives of 1 extension, 2 tokens, 1 resource, 4 frames; 3 entity objects, 2 handle numbers, nested twice | 1.25 M |
| `voice` | `RestorationIsOwed`, `MuteHolds`, `VoiceSettles` | 1 sender, 2 slots, 2 scripts, 3 connections | 78 k |
| `prefs` | `AcceptedIsKept`, `CacheIsCurrent`, `WritesLand` | 2 accounts, one of a player; 1 cookie, 2 writes, queue of 2, 1 wait, 1 fault | 189 k |
| `prefs_waits` | `CacheWaitsEnd` is violated | 1 account, 1 write | |
| `topmenus` | `CalledIsKnown`, `ChosenIsSeen` | 2 generations of a script, a category and two items, one of them guarded; 1 slot, 2 connections, 1 row per page | 3.5 M |
| `hooks` | `HooksStay`, `AuthorityHolds` | 2 targets, 2 registrations, 1 prepared call, 3 frames; 2 administrators, 2 slots, 3 connections, files that are right, absent or broken | 2.25 M |
| `dispatch` | `TimersKeepTime`, `RequestsAreWanted`, `OnlyDueCallbacks` | 2 scripts, 1 slot, 2 timers, 2 units of time, 3 owners | 4.8 M |
| `parts` | the nine parts, below | | 838 k |

`parts` checks `StaleNeverResolves` and `ValuesAccounted` (handles: 2 slots, 2 generations, 2 owners, 2
types), `BansAreKept` (2 accounts, 2 terms, room for 1 ban), `HooksAreSafe` (2 addresses used twice, 2
nested calls), `AnswersKept` (2 requests, a queue of 1, 2 foreign threads), `ConVarsOwned` (2 plugins, 3
loads, 2 names), `NothingDangles` and `AllLeave` (2 extensions that share a name, 2 scripts, 2 refusals),
`SettingsSettle` (2 settings, 4 values, 3 changes), `TruthIsTold` and, with the next, `RequestsEnd` (2
queries, 1 connection of a script), `TransfersKeep` (2 hosts with and without TLS, 2 redirects).

A property often joins the type invariant of its module with several statements about one hazard; each
conjunct is a definition of its own, with its own comment:

- `EachJobInOnePlace`: places are disjoint, no job is lost.
- `CleanupIsSound`: `HostMatches`, `StoppedNeverRuns`, `GoneIsClean`. `DependenciesHold` includes
  `NoCycle`. `UnloadAllReachesAll` is safety (`UnloadAllThorough`) and liveness (`ManagementEnds`).
- `MenusAccounted`: one menu per player, screens are on record, leases and handles behind every record are
  held. `ClosedMenusLeave`: native menus that close, and menus of stopped scripts, leave.
- `Anchored`: tokens and calls point at what is there. `ResourcesKept`: `LeaseCovers`, and `HandlesOwned`
  of the entities.
- `CacheIsCurrent`: `CacheShowsAccepted` and `FlagsMatchJobs`. `WritesLand`: values land, and scripts that
  wait for an identity are called.
- `CalledIsKnown`: views and tokens the host can call back for are known. `HooksStay`: registrations,
  leases and buffers stay while something is on the stack that needs them.
- `AuthorityHolds`: `KicksAreJustified`, `OnlineOrNot` (an account is as safe online as off) and
  `ReloadIsWhole`. `BansAreKept`: `CrashSafe` and `EditIsKept`.
- `AnswersKept`: an answer is owed, stays until it is read, and foreign transfers are bounded.
  `TruthIsTold` includes `LocksAreOwned`. `TransfersKeep`: `TypeOK`, `StaysWithOrigin` and `LimitsHold`.
  `RequestsEnd`: queries and transfers end.

What the bounds leave in, and why they are enough for what is asked:

- **queue**: with two workers and three jobs, one is refused for lack of room while another waits, a
  third is retained, and both workers compete; a fourth job only repeats one of these roles. One
  notification and one sleeping worker suffice for a lost wakeup.
- **lifecycle_host**: the smallest instance with a dependent and a dependency whose callback is on
  the stack when the other is managed, and with a second fault. A file that breaks is enough here:
  for the operations a missing file differs only in the record it leaves.
- **lifecycle_chain**: three is the least number for which reloads can make load order differ from
  dependency order in a way one pass does not repair, and for which a cycle is not a pair. An edited
  file can turn a dependency around, or ask for a later version, between any two operations.
- **menus**: three sessions let an input be stale twice; two connections per run let a player leave
  and another take the slot. Callbacks nest as deep as there are slots.
- **calls**: four frames are script, native, callback, native: the least in which a script is
  unloaded or fails below itself. Two tokens allow a one-shot and a retained one. Of three objects on two
  handle numbers, one takes the number of another that an operation is still using.
- **prefs**: two accounts with a load and a save each overfill a queue of two jobs; two writes let the
  second overtake the save of the first, or another server's write come between. One fault is one
  failed load, save, lost answer of a commit, snapshot, or busy script. The limit on accounts is not
  reached: it only refuses.
- **voice**: a muted player, a listener, and a third who takes the place of either need three
  connections; two scripts can end their mutes of one player in either order.
- **topmenus**: with one row per page an item moves into the row of one that was removed; the second
  generation of the script adds a key while the first still owns it, and a slot has a second player.
- **hooks**: two registrations on a target and one on another, closed by each other at two depths, with a
  prepared call between. Of three connections on two slots one takes the slot of a target who was chosen.
- **dispatch**: one script manages the other within its callback; the third owner is the reload. Two units
  of time let a timer be suspended, resumed and due again.
- **parts**: slots wear out after two generations, so the table ends, and each value is found by the wrong
  owner, type or generation. One account more than there is room for meets the limit; crashes need no
  counter. An address used again under a pending context needs two calls. A completion that is kept,
  beside a request that is refused by the full queue, needs two requests. A third load of a plugin meets
  what a failed release of the first two left. The services two extensions share are given back by both
  while the host leaves. Three changes let the second come between a refusal and its restoration. Two
  redirects go to another origin and back.

`MaxConnections`, `MaxConnection`, `MaxSessions`, `MaxTokens`, `MaxResources`, `MaxStack`, `MaxNesting`,
`MaxWrites`, `MaxObjects` of the entities, `MaxSequence`, `MaxRevision`, `MaxTime`, `MaxOwner`, `MaxTimer`,
`MaxFailed`, `MaxEpoch`, `MaxPending`, `MaxInputs` and `MaxRefusals` are bounds of the models, not of the
code; so are `FaultLimit` of `ClientPrefs` and `MaxDepth` where the code has no depth of its own.
`MaxWaits`, `MaxAccounts`, `Capacity`, `Quota`, `Depth`, `FaultLimit`, `MaxFaults`, `Limit`, `MaxSlots`,
`MaxGeneration`, `QueueLimit`, `HttpLimit`, `NativeLimit`, `CountLimit`, `HoldLimit`, `BodyLimit`,
`HeaderLimit` and `RedirectLimit` are limits the code has, with smaller values.

## 4. Fairness and deadlock

- **WorkQueue**: weak fairness of the queue's own steps and of every worker. The header says that
  work must have its own finite timeouts and check cancellation, so work ends; threads are
  scheduled. Nothing is assumed of the client: it need not submit, dispatch or destroy.
- **PluginLifecycle**: weak fairness of `OpStep` only; the loops of `Refresh` and `UnloadAll` run on
  the server thread without waiting for anybody.
- **Menus**: weak fairness of `NativeReturn` (callbacks return) and strong fairness of the ticks that
  finish a close: every frame ticks, and a host call that is tried again and again succeeds in the
  end. Strong because a player's own inputs and reconnections keep disabling it. Expiry of a menu is
  not assumed.
- **ClientPrefs**: weak fairness of the worker, whose jobs are bounded by the timeouts of the database,
  and of the steps of `Pump`; strong fairness of `Frame`, because the host may ask the extension to
  stop between any two frames. Retries are not assumed, so `WritesLand` allows a recorded failure.
- **Voice**: strong fairness of `Refresh(TRUE)`: `Tick` calls `Refresh` once per second
  (`src/src/dispatch.cpp:170`), and the host does not fail for ever.
- **Services**: weak fairness of the attempts to unload the host and every extension, once the server is
  being stopped: an operator, or KeelS2 at its end, repeats what was refused. Refusals are bounded by
  `MaxRefusals`.
- **CoreSettings**: weak fairness of `Apply`: the server executes what is in its command queue.
- **Queries**: weak fairness of `Progress`, the steps of the worker and the passing of a deadline, which
  the drivers set for every request. Nothing is assumed of servers, of scripts or of those who hold locks.
- **Transfers**: weak fairness of `Expire` (time passes, for the deadline `Perform` has) and `Stop` (curl
  calls the progress callback, which ends the transfer). Nothing is assumed of the server.

In `MCParts` the fairness of a part is stated for `part = ... /\ ...`, so that it asks nothing in the
behaviours of the others.

Deadlock is checked in every run but four. `queue` ends with the queue destroyed. `parts` ends in most of
its parts: every slot worn out, a file that no start accepts and nobody edits, all modules unloaded, all
requests answered. `hooks` and `dispatch` end when the connections, or the time, of the instance are used
up.

## 5. The proofs

**`WorkQueueProofs`**, for any number of jobs and workers and any capacity. `EachJobInOnePlace` is not
inductive by itself. `IInv` restates it job by job (`OnePlaceEach`, `SomewhereEach`) and adds

- `HeldWhileListed`: the closures that are held are those of the jobs in `jobs_`. So the job of a
  `Submit`, which has no closures yet, is nowhere, and appending it duplicates nothing;
- `OwnerShape`: Dispatch has a job in its hands exactly while it runs or settles one, so the
  destructor finds none, and after it the workers have left;
- `DrainIsCovered`: the snapshot Dispatch counts down never exceeds `ready_`, so it never pops an
  empty deque. It holds because workers and retained completions only append;
- `CalledOnce`: the entries within the snapshot have not been called yet in this Dispatch.

The proof has one lemma per action. `Unmoved` covers the actions that move no job; `ConsumeParts` the
three ends of a completion. The theorems are `TypeCorrect`, `OnePlace`, `Closures` and `Ready`. The
last needs a second invariant, `Bounded` (`Submit` keeps `jobs_` within the capacity), and `NoDupFits`:
a deque without duplicates is no longer than a set it is drawn from. Hence `ready_` fits the storage the
constructor reserved, and the `push_back` in `Run`, which is `noexcept`, does not allocate.

`WorkQueueProofs` ends with `Implementation`: `WorkQueue` implements `JobContract`, with the mapping of `WorkQueue!Contract`. The
mapping reads a job's phase off its closures, `jobs_` and the owner's control point, so `IInv` tells which
arm of it applies (`PhaseValue`). It does not tell what the contract asks of a call: that the work has
ended. `WorkedFirst` adds how far the work is by where the job is: not begun in `waiting_` and in the hands
of a worker that has just taken it; begun, or withdrawn, in `ready_` and in Dispatch's hands. A job that is
withdrawn after its work is still in `ready_`, so this is not a matter of deques alone. There is one lemma
per action: `Submit` is `Accept`, `Cancel` is `Withdraw`, and so on; `Unseen` covers the steps, most of
them, that the contract does not see. The contract states no fairness, so none is needed.

**`LifecycleProofs`**, for any number of plugins, any files, and any limits on faults and depth
(`LifecycleAssumption`; `NoneAssumption` says that no script is the empty pointer). `DependenciesHold` speaks of
all plugins at once; every operation changes one plugin, so the invariants that carry it are per plugin:

- `Shape`: a script with a virtual machine has a file of its own plugin, one without is not in a state in
  which it would be called or waited for, and a replacement is either loading or being retired;
- `Waiting`: a replacement that waits, because the cleanup of the script before it failed, has a current
  script that is being retired, and will be paused only if nothing that runs uses the plugin. The retry that
  publishes it frames later therefore breaks no script that was loaded in between.

That no cycle closes (`NoNewCycle`) is shown with sets that are closed under dependency: a new file is
accepted only if what it reaches leaves its plugin out, so a set that witnessed another plugin's absence,
joined with what is reached, is a witness still. `OneChanges` is the step every lemma of an operation ends
in. What the loops (`Refresh`, `UnloadAll`) have recorded plays no part: their invariants hold whichever
plugin they come to next. For `PauseHolds` a second invariant is needed: `Quiet` (a paused script has no
callback running that could still fail and retire it) and `Keeps` (what the operator
paused is paused, or is being replaced by a candidate that will be).

`CleanupHolds` rests on a third, `CInv`, beside the first (`IInv`). It says plugin by plugin what the property says
of the host: what is registered is what the plugins hold (`Matched`; `Holds` joins both scripts of a plugin),
and no two plugins hold the same command (`Exclusive`: a candidate registers only what is available, and
the only thing it shares is what the script that it replaces already has). So a cleanup that takes back what a
script holds, and keeps what its other half holds, takes nothing from another plugin. `Tidy` says of a single
script that one which was told to stop is retired, and that one without a virtual machine holds and shows
nothing; a script with a callback on the stack has its virtual machine, so that no cleanup, deferred ones
included, frees what is being called. Each way a cleanup may end, finished, failed or put off to a
later frame, is one case of `CleanupLeaves`.

**`EngineProofs`, of `Voice`**, for any slots, senders and scripts and any number of connections (`VoiceAssumption`,
`NoneAssumption`). A call of `Voice` is a chain of steps over a view of its state (`Apply`, `Restore`,
`Without`...), each of which may fail halfway; one lemma says of each what it keeps, whatever part of it the
engine refused, and an action is a chain of lemmas. `RestorationIsOwed` is what the game last asked for; the
step that restores it must know that a pair is not one of an earlier player of the slot (`Past`: no pair is of
a connection still to come, so an id that matches is the same player), and that the script which answers for
a pair is one that can still be asked (`Owed`). `Silent` says that a script that is gone mutes nobody, which
is what the cleanup of a retiring one must establish through failures; `Asleep` that nothing is owed while
Source2Root is paused, when it hears of nobody. `MutesHold` is about steps: `Unheard` says of each link of the
chain that nobody is heard who was not, unless no script mutes him in the view it leaves.

**`EngineProofs`, of `Hooks`** (the instance `Dhooks` of `MCHooks`), for any scripts, functions, registrations and
prepared calls, and any capacity and depth (`HooksAssumption` says only that the limits are numbers). `HooksStay`
speaks of the maps; what a step does to them depends on what lies on the stack of calls below it, because a callback may unload, close or call again while the engine is inside a function. `StackOK`
says that a callback lies on the function it was called for and that its registration is still in the map, closing
or not; and that a function which a prepared call executes has that call, busy and with its buffers, and that no
call is twice on the stack. `Leases` says that whatever speaks of a target, a registration, a prepared call or a
script that opened it, keeps its lease; with `StackOK` it gives the lease of a function that is being executed.
`Entry` allows a function no arguments but its own, which is what `BuffersBounded` says of edits.

**`EngineProofs`, of `Authority`** (the instance of `MCHooks`), for any accounts, slots, containments of names and
contents of the two files (`AuthorityAssumption`: a group has permissions and an immunity, an administrator a group
and perhaps an immunity, and the empty pointer is no record). `AuthorityHolds` compares what the code looks up, the
name of an account that a player has at the moment, with what is true of the account behind the slot. So `RInv` says
that the two agree as soon as a player is authenticated, and that no account is there twice (`Identified`), and that a handle
names a connection there was, whose account, if that connection is still in the slot, is the one the selector
found (`Meant`; connections are numbered, so one that returns has another number); `FilesKnown` says that whatever was
edited, what is loaded are records resolved against groups that exist. `OfAccount` concludes that the immunity the code
compares is that of the account. `RightsHold` also needs that two players with one account are one player: the code
exempts a caller from his own immunity by slot online, and by account offline.

**`DispatchProofs`**, for any scripts, slots, delays and limits, and any number of timers, owners and
connections (`DispatchAssumption`, `NoneAssumption`). A callback may change what its caller walks over, so
`OnlyDueCallbacks` needs to know that a timer in the snapshot that still has its id is the same timer
(`Sees`; ids are given once, `Held`), and that the script on the frame still runs (`FrameRuns`).
`TimersKeepTime` is kept by a script that stops, waits, and goes on elsewhere: `Punctual` states it against
the clock for a script that runs and against the time of suspension for one that does not, and `Waiting` for
a replacement, which keeps the timers of neither while the script before it retires. `RequestsAreWanted` needs
`PendingIsWanted`: the owner and the failures recorded with a map change are those of the script that runs,
so a reload or a failed callback is told apart from the script that asked.

**`ClientPrefsProofs`**, for any number of accounts, any cookies, and any limits on the queue, the cache and
the waits (`PrefsAssumption`; `NoneAssumption` says that no account is the empty pointer). The invariant `PInv` is
about the cache, the jobs and the database together:

- `Kept`, account by account: what is owed is dirty; what is dirty is owed or was committed, its
  completion being still to come; and what a ready account shows is dirty or the database held it;
- `StoredIsSettled`: a value that a save has stored is not owed, so that its completion may clean it, however many
  saves of the account the script has asked for since;
- `ReadsAreGood`: a value that was read is one the database held since it took the last accepted one,
  or there is a dirty value to lie over it, and no completion that comes before the load's cleans that.
  This is why the order of the queue matters: a load that ran before a save, and whose completion comes
  after the write that the save carries, must not show what it read;
- `Matches`, which is `FlagsMatchJobs`, of the jobs that wait and those that ran; and `Numbered`, by which a
  new value is not that of any job under way.

A native is a chain of operations on a view of the cache (`Sync`, `Load`, `Save`, `Evict`, `Write`); one lemma
says of each that it keeps the view sound. `Save` submits one job for each of many accounts, until the queue is full:
`Ranks` and `Places` number the accounts of a set, so that `SubmitKeeps` can tell which of them has which job. What
the database does to a value is one of two things (`Settles`), and `SettledIsSound` says that either keeps the
cache sound: a value that is committed is dirty, and no save stored it before. The theorems are
`ValuesAreKept` and `CacheIsRight`.

**`MenusProofs`, of `Menus`**, for any slots, scripts, menus and extensions, and any number of connections and sessions
(`MenusAssumption`: slots are numbers, slots and scripts are finitely many; `NoneAssumption`: no session and no
display is the empty pointer). A call that closes menus is a set of outcomes, each with the view it leaves, and calls
are chained; so `MInv` is stated of a view (`Good`), and one lemma says of each operator (`ClearGood`, `ReleaseGood`,
`CloseNativeGood`, `RetiredGood`, `CloseDisplayGood`...) that every outcome of it is good when it begins with a good
view. `SlotSound` says slot by slot what `MenusAccounted` says of all, and adds for the record of a menu which session
and connection it is of (`RecordSound`: the session was given out, and shown to that connection in that slot); that
nothing was chosen of a menu unless it is native and closing; and that a menu whose callback runs has been cleared.
So the session a late input is answered with is the one on record, and no second input is.
`ServiceUsers` counts, `Leases` speaks of sets: `UsersOf` says what the counts 0 and 1 mean, and `MapChangedStep`
why a service whose menus all close, but for a last one that stays, has its lease as long as it has a user.

**`MenusProofs`, of `TopMenus`** (the instance `Tops` of `MCTopMenus`), for any scripts, slots and entries, any length of the
pages and any number of revisions and connections (`TopAssumption`: the bound of the objects is a number). Drawing asks
a callback per item, and a callback may do anything, so `TopInv` holds between any two of these steps: `Catalogue`
(objects have numbers that were given out, and the tokens are those of the items), `Displayed` (a view on the screen
has its session, and a choice that is pending is a row of its page, the row that was on the screen),
`Drawing` (what is drawn is a view that is kept) and `Framing` (a frame that is between two views draws nothing, and what it
asks for is the object of the row that was chosen, which was enabled). `CallsFollowAnswers` says that only an answer leads to
the call for a choice; that answer's guards and `Framing` are `ChosenIsSeen`. `CallsAreKnown` and `ChoicesAreSeen` are
the theorems.

**`CallsProofs`, of `ExtensionCalls`**, for any scripts, natives, extensions and uses, and any limits
(`CallsAssumption`; `NamesAssumption`: scripts and natives are finitely many, and no callback and no resource is the
empty pointer). What scripts hold is a view, as in `MenusProofs`, and `CInv` has three parts:

- `Good`, of the view: a token is in the set of exactly the script it was captured for (`TokensMatch`), that
  script is still bound to a native of the extension that has the token or the resource (`TokensBacked`,
  `HandlesBacked`), a service is leased exactly while somebody is bound to it (`Leasing`), and bindings are to
  registered natives (`Binding`). One lemma for each operator (`CancelledView`, `RetiredView`, `UnboundView`,
  `CleanedView`, `ExitedView`) says that it leaves a good view. A cleanup cancels tokens and retires resources
  before it unbinds, so that the last binding of an extension is released when nothing needs it any more;
- `CStack`, of the calls. `Anchored` says of each call what it must find; a step that unloads a script or retires a
  native finds the counters at 0, and must know that then no call is of them. So `Counted` says that each counter is
  the number of its calls, and `PicksCount` that 0 means none. `Nested` says that a native lies on the script that called
  it, whose state it can therefore rely on; `Alone` that a script which is being started or stopped has no other call
  on the stack, so that the end of that call, and the cleanup after a failed start, take nothing from a call below;
- `Tracked`: tokens are given out once, in order, and a spent one is in no map. `SpentStaySpent` follows, since only a
  token that is in the map is entered (`DeliverCallback`, `InvokeCallback`).

`CallsHaveAnchors`, `LeasesCover` and `SpentStaySpent` are its theorems.

**`CallsProofs`, of `EntityTools`** (`EntitiesAssumption`: the limits are numbers and values of different kinds told
apart). `HandlesOwned` counts the holders of a handle; `Lending` says instead that a lent handle is of some object
and of no two. The step that gives the handle of an object being made to its script needs to know which call is
making it: `BeingMade` says that each object without a script is made by one call on the stack, and that a call which
makes an object finds it still there and without a script, whatever was closed, created or released inside the host
meanwhile. `Holding` says of the counters of operations what `Counted` says above. The theorem is `EntitiesOwned`;
`ResourcesAreKept` joins it with `LeasesCover` for the instance in which the two stand beside each other.

**`PartsProofs`** proves each part of `MCParts` by itself, under the assumptions named there (numbers are numbers,
finite sets finite, and values of different kinds told apart):

- *Handles* (`IInv`). That handles are unique is not inductive: the step that adds a value must know that no handle of
  its slot with that generation was issued before. Every issued handle is a slot in use with a generation that slot
  has or had (`IssuedWasSlot`), and an occupied entry's own handle was issued (`OccupiedWasIssued`). From it follow
  `TypeCorrect`, `Unique`, `StaleHandles`, and `Fit` (no handle overflows). `Accounted` restates `ValuesAccounted`
  slot by slot, and gives `Accounting`.
- *Transfers* (`TInv`). The step that sends needs to know that what is about to be sent is right (`NextHop`): as long as
  the request carries a body or headers of the script, all hops went to the address that it goes to now; an
  upload is no GET; a method that changed has lost the headers that describe a body; and where TLS is not used now it
  never was. `WithinLimits` counts hops and bytes, so that the last hop's answer is the one that is returned.
- *Queries* (`QInv`). `Landing` relates what is in the database to the state of the transaction and to what the worker is
  at: effects are there when the transaction is committed, and before that only by a statement that commits by itself;
  COMMIT was sent by a worker that is still waiting, or that told the script so. With it `TruthIsTold` is a matter of one step.
- *ConVars* (`VInv`). `HeldIsOwned` says that what a load holds is registered with it as an owner, and `LoadsExist` that a
  replacement has something to replace; a cleanup may fail at any variable, so the lemmas are about giving up any set.
- *Requests* (`AInv`). `Sound` speaks of one request: its job, its box and its callback; a step for one request leaves the
  others as they are. `ThreadsCounted` says what the counter of foreign transfers counts, refused threads included.
- *Services* (`SInv`). A module gives back what it holds in a fixed order, and may stop anywhere: `Orderly` says what can
  be left, the table of the extension service to the last, and its own publication as long as natives are registered.
- *EntityHooks* (`EInv`). A context that was left by a call which never came back is forgotten before a later call in the
  same frame gets as far as its own (`ContextSound`); and the entities of a call whose callback runs are the ones
  the callback was checked for (`CallSound`), so the original runs with none that was destroyed in it.
- *BanStore* (`BInv`). What is written is flushed before the rename, and until then the file is the one that is in
  memory (`WrittenInOrder`); so whatever the machine has kept when it stops is the old file or the new one.

Everything else is model-checked only. Liveness (`NoLostWakeup`, `ManagementEnds`, `ClosedMenusLeave`,
`VoiceSettles`, `WritesLand`, `AllLeave`, `SettingsSettle`, `RequestsEnd`) stays with TLC, because
fairness is out of the prover's reach. What is left of safety is `UnloadAllThorough`, the half of
`UnloadAllReachesAll` that is about steps: nothing about it is out of reach (section 8).

## 6. Where the code and its documentation disagree

- **`prefs_waits`**: an account has one `error` for its loads and its saves. When a load fails and a save
  succeeds in the same dispatch, the save's completion (`service.cpp:398`) clears the error of the load;
  so does the submission of a save (`service.cpp:411`). The account is `Failed` with nothing to report,
  and `Complete` (`extension.cpp:420`) leaves a script that waits for the cache waiting until somebody
  retries, where `source2root_clientprefs.inc:64` says that a refresh completes via `WhenCached`.

Two more that no run of the project shows:

- `SaveBans` compares the file with memory and replaces it several system calls later. An edit in between
  is overwritten and the change is confirmed, where `tests/ban_store_test.cpp:69` says that an external
  edit cannot be overwritten; the test edits only before the call. `BansAreKept` is checked with
  `EditWhileSaving <- FALSE`, and is violated with `TRUE`.
- `native.h:103` promises that an extension is told `BUSY` of a loading script. A script that is being
  prepared is not in `scripts_` yet, so `NativeConsumerStatus` answers `NOT_FOUND`, which means retired.

Observations that contradict nothing written down:

- In `UnloadAll`, an `UnloadScript` that releases only the replacement, and then fails on the current
  script, does not count as progress; hence the clause of `UnloadAllThorough` for an attempted plugin
  that remains.
- In `ExtensionCalls`, the test of `Provider::active` alone would protect only the calls below extension
  natives; what protects a script called below one of Source2Root's own natives is its own counter.
- When a refused core setting cannot be put back either, two refused values may replace one another for
  ever. `SettingsSettle` excepts such behaviours (`cut`).
- A statement of MySQL that commits implicitly makes the "error" of a later failure untrue, as the include
  file warns; `TruthIsTold` excepts these statements.
- `ReadEntity` (`extensions/sdktools/extension.cpp:573`) uses its entity again after reads of the host.
  The model assumes that natives which only read run no scripts.

## 7. What is not modelled

- **The SourcePawn runtime** appears as the call stack, the KeelS2 plugin entry as calls that may fail.
- **Menu text and controls, text, formatting, key values**: sequential and stateless, covered by the
  tests. So is the syntax of files, of SQL, of URLs, of manifests and of command lines.
- **Game extensions** (cstrike, geoip, regex): single calls of the engine or of a library.
- **Argument marshalling** of natives, callbacks, hooks and engine calls; result sets and parameters.
- **Windows** `AtomicWrite`; JSON, times, reasons.
- **Gags** (communications), a map per script; slap, slay, ServerCommand: single host calls. The ban
  natives, between the check of immunity (`Authority`) and the database (`BanStore`).
- **Second lookups** in `Voice::Set` and `Apply`, which guard against a player replaced inside a host call.
- In **client preferences**: the catalog and the registration of cookies, the settings menu, the two
  stores' SQL, and revisions near 2^64.
- In **Authority**: names stand for accounts, "bots" for all selectors that look at the player only.
- In **EntityTools**: schema fields and the natives that read.
- **Scripts, tools and tests**: plugins that use the natives, packaging.

## 8. The plan

Done: every component whose state survives a call, at the level of section 2; proofs of all parts of `MCParts` but
`CoreSettings` (whose property is liveness), `WorkQueue` with its contract, `Menus`, `Voice`, `Dispatch`, `Hooks`,
`ClientPrefs`, `ExtensionCalls`, `EntityTools`, `Authority`, `TopMenus`, and of the dependencies, pauses and cleanup of `PluginLifecycle`.
What is left, first what says most:

1. A proof of `UnloadAllThorough`.
2. The catalog and registration of cookies in `ClientPrefs`; gags; the ban natives between `Authority` and
   `BanStore`.
