------------------------------ MODULE Authority ------------------------------
(***************************************************************************)
(* src/permissions.cpp and its callers in src/players.cpp and              *)
(* src/bindings.cpp: who may act on whom.  A script looks for targets, may *)
(* keep their handles for a while (in a menu), asks CanTarget and acts at  *)
(* once.  Meanwhile players come, go and are authenticated, the files are  *)
(* edited one after the other, and the administrators are reloaded.        *)
(*                                                                         *)
(* The syntax of the files is left out: a file is absent, Garbage or a     *)
(* function.  "bots" stands for all selectors of a group that look at the  *)
(* player only (alive, dead, the teams).  A connection has its number for  *)
(* a user ID, and a player the name of the account.  account is the true   *)
(* one, which the host knows after the authentication; before it, steam is *)
(* what the client says.                                                   *)
(***************************************************************************)
EXTENDS Naturals, FiniteSets

CONSTANTS Accounts, Slots,
          GroupFiles,    \* contents of admin_groups.cfg that are well-formed
          AdminFiles,    \* contents of admins.cfg that are well-formed
          Within,        \* the pairs of a name and another that contains it
          MaxConnection,
          Console, Absent, Garbage, None

VARIABLES
    groupFile, adminFile,
    admins,     \* admins_: accounts to their records
    player,     \* by slot
    used,       \* the last connection
    chosen      \* the handles of the last FindTargets, for whom, and whom it meant
vars == <<groupFile, adminFile, admins, player, used, chosen>>

Online == {player[p] : p \in Slots} \ {None}

-----------------------------------------------------------------------------
(* Permissions.                                                            *)

\* The root group has every permission; an administrator has the immunity of the
\* group, or one of its own.
Resolved(groups, entries) ==
    [a \in DOMAIN entries |->
        LET group == groups[entries[a].group]
        IN  [permissions |-> group.permissions, root |-> entries[a].group = "root",
             immunity |-> IF entries[a].immunity = None THEN group.immunity
                          ELSE entries[a].immunity]]

\* Load: admins_ is replaced when everything was read.
Nobody == [a \in {} |-> None]
Unreadable ==
    \/ groupFile = Garbage \/ adminFile = Garbage
    \/ (groupFile = Absent) # (adminFile = Absent)
    \/ /\ groupFile \notin {Absent, Garbage} /\ adminFile \notin {Absent, Garbage}
       /\ \E a \in DOMAIN adminFile : adminFile[a].group \notin DOMAIN groupFile
Loaded ==
    IF Unreadable THEN admins
    ELSE IF groupFile = Absent THEN Nobody ELSE Resolved(groupFile, adminFile)

Authenticated(p) == p.authenticated /\ ~p.bot
Find(p) == IF Authenticated(p) /\ p.steam \in DOMAIN admins THEN admins[p.steam] ELSE None
Immunity(p) == IF Find(p) = None THEN 0 ELSE Find(p).immunity
Allows(p, permission) ==
    permission = "" \/ (Find(p) # None /\ (Find(p).root \/ permission \in Find(p).permissions))

Same(p, q) == p.connection = q.connection
CanTarget_Anyone(caller, target, permission) ==
    caller # Console =>
        /\ Authenticated(caller) /\ Allows(caller, permission)
        /\ Same(caller, target) \/ Immunity(caller) > Immunity(target)
CanTarget(caller, target, permission) ==
    caller # Console =>
        /\ Authenticated(caller) /\ Allows(caller, permission)
        /\ target.bot \/ Authenticated(target)
        /\ Same(caller, target) \/ Immunity(caller) > Immunity(target)
CanTargetIdentity(caller, account, permission) ==
    caller # Console =>
        /\ Authenticated(caller) /\ Allows(caller, permission)
        /\ \/ caller.steam = account
           \/ Immunity(caller) > IF account \in DOMAIN admins THEN admins[account].immunity ELSE 0

-----------------------------------------------------------------------------
Init ==
    /\ groupFile = Absent /\ adminFile = Absent
    /\ admins = Nobody
    /\ player = [p \in Slots |-> None] /\ used = 0
    /\ chosen = {}

EditGroups ==
    /\ groupFile' \in {Absent, Garbage} \cup GroupFiles
    /\ UNCHANGED <<adminFile, admins, player, used, chosen>>
EditAdmins ==
    /\ adminFile' \in {Absent, Garbage} \cup AdminFiles
    /\ UNCHANGED <<groupFile, admins, player, used, chosen>>

\* Bots have no account; the model gives them any.
Bot == CHOOSE account \in Accounts : TRUE
Join(p, account, steam, bot) ==
    /\ player[p] = None /\ used < MaxConnection /\ (bot => account = Bot /\ steam = Bot)
    /\ used' = used + 1
    /\ player' = [player EXCEPT ![p] =
          [connection |-> used + 1, account |-> account, steam |-> steam,
           authenticated |-> FALSE, bot |-> bot]]
    /\ UNCHANGED <<groupFile, adminFile, admins, chosen>>

Leave(p) ==
    /\ player[p] # None
    /\ player' = [player EXCEPT ![p] = None]
    /\ UNCHANGED <<groupFile, adminFile, admins, used, chosen>>

\* Steam knows the account, and lets nobody play twice.
Authenticate(p) ==
    /\ player[p] # None /\ ~player[p].bot /\ ~player[p].authenticated
    /\ \A q \in Online : q.account = player[p].account => ~q.authenticated
    /\ player' = [player EXCEPT ![p].authenticated = TRUE, ![p].steam = player[p].account]
    /\ UNCHANGED <<groupFile, adminFile, admins, used, chosen>>

Callers == {Console} \cup Online
\* Allowed, for any caller.
Allowed(caller, permission) == caller # Console => Allows(caller, permission)

\* ReloadAdmins.
Reload(caller) ==
    /\ Allowed(caller, "reload")
    /\ admins' = Loaded
    /\ UNCHANGED <<groupFile, adminFile, player, used, chosen>>

-----------------------------------------------------------------------------
(* FindTargets.                                                            *)

Selectors ==
    [kind : {"me", "all", "bots"}] \cup [kind : {"user"}, id : 1..MaxConnection]
    \cup [kind : {"steam"}, account : Accounts] \cup [kind : {"text"}, text : Accounts]

Group(selector) == selector.kind \in {"me", "all", "bots"}
Matches(caller, selector, p) ==
    CASE selector.kind = "me" -> Same(p, caller)
      [] selector.kind = "all" -> TRUE
      [] selector.kind = "bots" -> p.bot
      [] selector.kind = "user" -> p.connection = selector.id
      [] selector.kind = "steam" -> Authenticated(p) /\ p.steam = selector.account
      [] selector.kind = "text" -> selector.text = p.account \/ <<selector.text, p.account>> \in Within

\* A player who has exactly the name comes before those whose name contains it.
Exact(selector) == {p \in Online : selector.kind = "text" /\ p.account = selector.text}
Selected(caller, selector) ==
    IF Exact(selector) # {} THEN Exact(selector)
    ELSE {p \in Online : Matches(caller, selector, p)}

FindTargets(caller, selector, multiple) ==
    LET found == Selected(caller, selector)
    IN  /\ Group(selector) => IF selector.kind = "me" THEN caller # Console ELSE multiple
        /\ IF Group(selector) /\ multiple THEN found # {} ELSE Cardinality(found) = 1
        /\ chosen' = {[caller |-> IF caller = Console THEN Console ELSE caller.connection,
                       connection |-> p.connection, slot |-> CHOOSE q \in Slots : player[q] = p,
                       account |-> p.account] : p \in found}
        /\ UNCHANGED <<groupFile, adminFile, admins, player, used>>

\* ResolvePlayer: the player of a handle, if that is still the one in the slot.
Is(p, connection) == p # None /\ p.connection = connection
Caller(handle) == {c \in Callers : IF handle.caller = Console THEN c = Console
                                   ELSE c # Console /\ c.connection = handle.caller}

\* A script resolves both handles, asks CanTarget, and kicks the player.
MayAct(caller, handle, permission) ==
    /\ Is(player[handle.slot], handle.connection)
    /\ Allowed(caller, permission) /\ CanTarget(caller, player[handle.slot], permission)
Kick(caller, handle) ==
    /\ MayAct(caller, handle, "kick")
    /\ player' = [player EXCEPT ![handle.slot] = None]
    /\ UNCHANGED <<groupFile, adminFile, admins, used, chosen>>

Next ==
    \/ EditGroups \/ EditAdmins
    \/ \E p \in Slots : Leave(p) \/ Authenticate(p)
    \/ \E p \in Slots, account \in Accounts, steam \in Accounts, bot \in BOOLEAN :
          Join(p, account, steam, bot)
    \/ \E caller \in Callers :
          \/ Reload(caller)
          \/ \E selector \in Selectors, multiple \in BOOLEAN : FindTargets(caller, selector, multiple)
    \/ \E handle \in chosen : \E caller \in Caller(handle) : Kick(caller, handle)

Spec == Init /\ [][Next]_vars

-----------------------------------------------------------------------------
\* The record of an account, whoever says to be it.
Record(account) ==
    IF account \in DOMAIN admins THEN admins[account]
    ELSE [permissions |-> {}, root |-> FALSE, immunity |-> 0]

\* Whatever changed since the targets were chosen: who is kicked is the person who was
\* meant, for a caller who truly has the permission, and against a person truly of lower
\* immunity, authenticated or not (permissions.cpp:194, players.cpp:224).
KicksAreJustified ==
    \A handle \in chosen : \A caller \in Caller(handle) \ {Console} :
        MayAct(caller, handle, "kick") =>
            LET target == player[handle.slot]
                mine == Record(caller.account)
            IN  /\ target.account = handle.account
                /\ mine.root \/ "kick" \in mine.permissions
                /\ ~Same(caller, target) /\ ~target.bot =>
                      mine.immunity > Record(target.account).immunity

\* An account that is online is as safe as one that is not (CanTarget, CanTargetIdentity).
OnlineOrNot ==
    \A caller, target \in Online :
        Authenticated(target) /\ ~Same(caller, target) =>
            (CanTarget(caller, target, "kick") <=> CanTargetIdentity(caller, target.steam, "kick"))

\* Files that cannot be read whole, one edited and the other not yet, change nobody's
\* authority (permissions.cpp:84).
ReloadIsWhole == admins' # admins => ~Unreadable

\* Authority is what the files say, and is used against those it was meant for.
RightfulStep == KicksAreJustified' /\ OnlineOrNot' /\ ReloadIsWhole
AuthorityHolds == [][RightfulStep]_vars
=============================================================================
