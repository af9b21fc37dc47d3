------------------------------- MODULE MCParts -------------------------------
(***************************************************************************)
(* The parts of the system that share no state with one another, in one    *)
(* instance for TLC: a behaviour is a behaviour of one of them, and the    *)
(* others stay where they began.                                           *)
(***************************************************************************)
EXTENDS Handles, Integers, TLC

CONSTANTS Accounts, Terms, MaxBans, Torn, Garbage, Nothing,    \* BanStore
          Addresses, MaxEpoch, MaxPending, MaxNesting,         \* EntityHooks
          Asked, QueueLimit, HttpLimit, Threads, NativeLimit,  \* Requests
          Plugins, Named, Loads, Cells,                        \* ConVars
          Exts, Scripts, Natives, Stages, Uses, MaxRefusals,   \* Services
          n1, n2, n3, p1, p2, x1, x2,
          Off, Bad, a, b, MaxInputs,                           \* CoreSettings
          Queued, Conns,                                       \* Queries
          Hosts, BodyLimit, HeaderLimit, RedirectLimit         \* Transfers

\* None is nothing else.
ASSUME VariablesAssumption ==
    /\ Loads \subseteq Nat /\ Cells \subseteq Int /\ None \notin Loads
    /\ None \notin [plugin : Plugins, state : {"loading", "running", "retiring"},
                    convars : SUBSET Named, handles : SUBSET Named]
    /\ None \notin [definition : [initial : Cells, minimum : Cells, maximum : Cells],
                    owners : SUBSET Loads]
    /\ None \notin [definition : [initial : Cells, minimum : Cells, maximum : Cells], value : Cells]

ASSUME AnswersAssumption ==
    /\ IsFiniteSet(Threads) /\ NativeLimit \in Nat
    /\ None \notin Asked \cup {"data", "failure"}
    /\ None \notin [kind : {"sql", "http"}, state : {"building", "sent", "complete", "canceled"},
                    ticket : BOOLEAN, callback : BOOLEAN, answer : {None, "data", "failure"}]
    /\ None \notin [kind : {"sql", "http"}, content : {None, "data", "failure", "moved"}]

ASSUME QueriesAssumption == Queued \cap Conns = {} /\ None \notin {"ok", "error", "unknown"}

ASSUME EntitiesAssumption ==
    /\ MaxPending \in Nat
    /\ None \notin [entity : Addresses \X Nat, enabled : BOOLEAN, closing : BOOLEAN]

\* A database, a broken file and no file are told apart.
ASSUME BansAssumption ==
    /\ IsFiniteSet(Accounts) /\ MaxBans \in Nat
    /\ Torn \notin {Garbage, Nothing} /\ Garbage # Nothing
    /\ {Torn, Garbage, Nothing} \cap [Accounts -> Terms \cup {Nothing}] = {}

\* Names, extensions and the four services are told apart.
ASSUME ServicesAssumption ==
    /\ Stages \in [Exts -> Seq(Natives)] /\ Uses \in [Scripts -> SUBSET Natives]
    /\ Natives \cap Exts = {} /\ None \notin Exts
    /\ {"consumer", "callback", "native", "extension"} \cap (Natives \cup Exts) = {}

ASSUME TransfersAssumption ==
    BodyLimit \in Nat \ {0} /\ HeaderLimit \in Nat /\ RedirectLimit \in Nat \ {0}

VARIABLES part,
          file, lasting, loaded, step, content, flushed, acked,
          epoch, last, hook, pending, calls, delivered,
          req, job, box, cb, calling, asker, told, native, thread,
          script, current, replacement, variable, host,
          module, published, providers, ext, holds, apis, bound, leaving, refusals,
          setting, convar, queue, asleep, cut, inputs,
          kind, driver, phase, canceled, late, answer, tx, landed, conn, lock,
          request, progress, address, hop, over, used, response, returned, trail

bans == <<file, lasting, loaded, step, content, flushed, acked>>
entities == <<epoch, last, hook, pending, calls, delivered>>
answers == <<req, job, box, cb, calling, asker, told, native, thread>>
variables == <<script, current, replacement, variable, host>>
services == <<module, published, providers, ext, holds, apis, bound, leaving, refusals>>
settings == <<setting, convar, queue, asleep, cut, inputs>>
queries == <<kind, driver, phase, canceled, late, answer, tx, landed, conn, lock>>
transfers == <<request, progress, address, hop, over, used, response, returned, trail>>
all == <<part, vars, bans, entities, answers, variables, services, settings, queries, transfers>>

Bans == INSTANCE BanStore WITH Limit <- MaxBans, EditWhileSaving <- FALSE
Entities == INSTANCE EntityHooks
Answers == INSTANCE Requests WITH Names <- Asked, script <- asker
Variables == INSTANCE ConVars WITH Names <- Named
Services == INSTANCE Services WITH host <- module, Names <- Natives
\* Two extensions that register one common name, and a script for either.
CommonName == x1 :> <<n1, n2>> @@ x2 :> <<n2, n3>>
OneForEither == p1 :> {n1, n2} @@ p2 :> {n3}
Default == [public |-> a, silent |-> b]
Settings == INSTANCE CoreSettings WITH Values <- {Off, a, b, Bad}, Wrong <- {Bad}
Queries == INSTANCE Queries WITH Requests <- Queued, told <- answer
Transfers == INSTANCE Transfers WITH phase <- progress, answer <- returned

MCInit ==
    /\ part \in {"handles", "bans", "entities", "answers", "variables", "services",
                 "settings", "queries", "transfers"}
    /\ Init /\ Bans!Init /\ Entities!Init /\ Answers!Init /\ Variables!Init
    /\ Services!Init /\ Settings!Init /\ Queries!Init /\ Transfers!Init
    /\ part # "bans" => file = Nothing
    /\ part # "settings" => setting = Default

HandlesNext ==
    /\ part = "handles" /\ Next
    /\ UNCHANGED <<part, bans, entities, answers, variables, services, settings, queries, transfers>>
BansNext ==
    /\ part = "bans" /\ Bans!Next
    /\ UNCHANGED <<part, vars, entities, answers, variables, services, settings, queries, transfers>>
EntitiesNext ==
    /\ part = "entities" /\ Entities!Next
    /\ UNCHANGED <<part, vars, bans, answers, variables, services, settings, queries, transfers>>
AnswersNext ==
    /\ part = "answers" /\ Answers!Next
    /\ UNCHANGED <<part, vars, bans, entities, variables, services, settings, queries, transfers>>
VariablesNext ==
    /\ part = "variables" /\ Variables!Next
    /\ UNCHANGED <<part, vars, bans, entities, answers, services, settings, queries, transfers>>
ServicesNext ==
    /\ part = "services" /\ Services!ServicesNext
    /\ UNCHANGED <<part, vars, bans, entities, answers, variables, settings, queries, transfers>>
SettingsNext ==
    /\ part = "settings" /\ Settings!Next
    /\ UNCHANGED <<part, vars, bans, entities, answers, variables, services, queries, transfers>>
QueriesNext ==
    /\ part = "queries" /\ Queries!Next
    /\ UNCHANGED <<part, vars, bans, entities, answers, variables, services, settings, transfers>>
TransfersNext ==
    /\ part = "transfers" /\ Transfers!Next
    /\ UNCHANGED <<part, vars, bans, entities, answers, variables, services, settings, queries>>

MCNext ==
    \/ HandlesNext \/ BansNext \/ EntitiesNext \/ AnswersNext \/ VariablesNext
    \/ ServicesNext \/ SettingsNext \/ QueriesNext \/ TransfersNext

\* The fairness of the parts that have some.
MCSpec ==
    /\ MCInit /\ [][MCNext]_all
    /\ WF_services(part = "services" /\ Services!HostGoes)
    /\ \A e \in Exts : WF_services(part = "services" /\ Services!ExtGoes(e))
    /\ WF_settings(part = "settings" /\ Settings!Apply)
    /\ WF_queries(part = "queries" /\ Queries!Progress)
    /\ WF_transfers(part = "transfers" /\ Transfers!Expire)
    /\ WF_transfers(part = "transfers" /\ Transfers!Stop)

-----------------------------------------------------------------------------
\* Neither a crash nor a save loses bans (BanStore).
BansAreKept == [][Bans!KeepingStep]_bans

\* No hook is about another call or lets one through with what is gone (EntityHooks).
HooksAreSafe == [][Entities!SafeStep]_entities

\* A script is told of every request it still waits for (Requests).
AnswersKept == Answers!AnswerIsOwed /\ Answers!AnswerStays /\ Answers!TransfersBounded

\* The server has the ConVars that scripts own (ConVars).
ConVarsOwned == Variables!ConVarsOwned

\* Nothing points at a module that is gone, and all of them get out (Services).
NothingDangles == Services!NothingDangles
AllLeave == Services!AllLeave

\* The server's variables and the settings come to agree (CoreSettings).
SettingsSettle == part = "settings" => Settings!SettingsSettle

\* Scripts are told the truth about their queries, and no lock is orphaned (Queries).
TruthIsTold == Queries!TruthIsTold /\ Queries!LocksAreOwned

\* What a script sends stays where it was sent, within the limits (Transfers).
TransfersKeep == Transfers!TransfersKeep

\* Every query and every transfer ends (Queries, Transfers).
RequestsEnd ==
    /\ part = "queries" => Queries!RequestsEnd
    /\ part = "transfers" => Transfers!TransferEnds
=============================================================================
