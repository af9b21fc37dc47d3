------------------------------ MODULE Queries ------------------------------
(***************************************************************************)
(* extensions/database, sqlite, mysql and postgresql: what becomes of a    *)
(* query.  The worker of the extension runs the asynchronous requests one  *)
(* after the other, each as a transaction on a connection of its own; at   *)
(* the same time scripts use SQLite connections and statements on the game *)
(* thread.  A request may be cancelled, run out of time, exceed a limit or *)
(* lose its connection at every step, and the server may commit although   *)
(* nobody hears of it.                                                     *)
(*                                                                         *)
(* SQLite (one file, with a rollback journal: one writer, and no commit    *)
(* while others read), the servers and the network are external.  Values   *)
(* and rows are left out.                                                  *)
(***************************************************************************)
EXTENDS Naturals, FiniteSets

CONSTANTS Requests, \* asynchronous requests
          Conns,    \* connections that scripts opened
          None

Drivers == {"sqlite", "mysql", "postgresql"}
\* A statement reads, writes, or controls transactions (in MySQL, commits implicitly).
Kinds == {"read", "write", "control"}

VARIABLES
    kind, driver, \* of each request
    phase,    \* where the worker is with a request
    canceled, \* the ticket was cancelled
    late,     \* the request's deadline has passed
    told,     \* what the script is told: ok, error, or that the outcome is unknown
    tx,       \* the transaction of a request; "sent" when COMMIT is on its way
    landed,   \* the requests whose effects are in the database
    conn,     \* scripts' connections and the statement prepared on each
    lock      \* the locks on the SQLite file

request == <<kind, driver, phase, canceled, late, told, tx, landed>>
vars == <<request, conn, lock>>

Users == Requests \cup Conns
Closed == [open |-> FALSE, handle |-> FALSE, stmt |-> "none", tx |-> FALSE]

Init ==
    /\ kind = [r \in Requests |-> None] /\ driver = [r \in Requests |-> None]
    /\ phase = [r \in Requests |-> "queued"]
    /\ canceled = [r \in Requests |-> FALSE] /\ late = [r \in Requests |-> FALSE]
    /\ told = [r \in Requests |-> None]
    /\ tx = [r \in Requests |-> "none"] /\ landed = {}
    /\ conn = [c \in Conns |-> Closed]
    /\ lock = [u \in Users |-> "none"]

\* A writer needs that nobody else writes, a commit that nobody else reads.
MayWrite(u) == \A v \in Users \ {u} : lock[v] # "reserved"
MayCommit(u) == \A v \in Users \ {u} : lock[v] = "none"

-----------------------------------------------------------------------------
(* Asynchronous requests.                                                  *)

\* A request has ended: the script is told, and its ticket and deadline are dropped.
End(r, answer) ==
    /\ phase' = [phase EXCEPT ![r] = "done"]
    /\ told' = [told EXCEPT ![r] = answer]
    /\ canceled' = [canceled EXCEPT ![r] = FALSE] /\ late' = [late EXCEPT ![r] = FALSE]
    /\ lock' = [lock EXCEPT ![r] = "none"]

Running(r) == phase[r] \in {"connecting", "begun", "executed", "fetched", "committing"}
Idle == \A r \in Requests : ~Running(r)

\* Check: the worker looks at the ticket and at the clock before and after each step.
Checked_Ticket(r) == ~canceled[r]
Checked(r) == ~canceled[r] /\ ~late[r]

Step(r, from, to) ==
    /\ phase[r] = from /\ Checked(r)
    /\ phase' = [phase EXCEPT ![r] = to]

\* The worker takes a request, whatever it is; one that was cancelled in the queue is
\* skipped.
Take(r) ==
    /\ Idle /\ phase[r] = "queued"
    /\ IF canceled[r] THEN phase' = [phase EXCEPT ![r] = "done"] /\ UNCHANGED <<kind, driver>>
       ELSE /\ phase' = [phase EXCEPT ![r] = "connecting"]
            /\ \E k \in Kinds, d \in Drivers : /\ kind' = [kind EXCEPT ![r] = k]
                                             /\ driver' = [driver EXCEPT ![r] = d]
    /\ UNCHANGED <<canceled, late, told, tx, landed, conn, lock>>

\* The connection, and a transaction on it.
Connected(r) ==
    /\ Step(r, "connecting", "begun")
    /\ tx' = [tx EXCEPT ![r] = "open"]
    /\ UNCHANGED <<kind, driver, canceled, late, told, landed, conn, lock>>

\* BEGIN, which takes no lock yet.
OpenSQLite(r) == driver[r] = "sqlite" /\ Connected(r)
\* autocommit is turned off.
ConnectMySQL(r) == driver[r] = "mysql" /\ Connected(r)
\* The nonblocking connection, within a time of its own; then BEGIN.
ConnectPostgreSQL(r) == driver[r] = "postgresql" /\ Connected(r)

\* The statement is executed, all rows have arrived and are within the limits.
\* SQLite's authorizer refuses transaction control.
Authorized(r) == kind[r] # "control"
ExecuteSQLite(r) ==
    /\ driver[r] = "sqlite" /\ Step(r, "begun", "executed")
    /\ Authorized(r)
    /\ kind[r] = "write" => MayWrite(r)
    /\ lock' = [lock EXCEPT ![r] = IF kind[r] = "write" THEN "reserved" ELSE "shared"]
    /\ UNCHANGED <<kind, driver, canceled, late, told, tx, landed, conn>>

\* A statement that commits implicitly has landed.
ExecuteMySQL(r) ==
    /\ driver[r] = "mysql" /\ Step(r, "begun", "executed")
    /\ landed' = IF kind[r] = "control" THEN landed \cup {r} ELSE landed
    /\ UNCHANGED <<kind, driver, canceled, late, told, tx, conn, lock>>

\* ValidateQuery refuses transaction control by its first keyword.
Valid(r) == kind[r] # "control"
ExecutePostgreSQL(r) ==
    /\ driver[r] = "postgresql" /\ Step(r, "begun", "executed")
    /\ Valid(r)
    /\ UNCHANGED <<kind, driver, canceled, late, told, tx, landed, conn, lock>>

\* The last look at the ticket and the clock before the commit.
LastCheck(r) ==
    /\ Step(r, "executed", "fetched")
    /\ UNCHANGED <<kind, driver, canceled, late, told, tx, landed, conn, lock>>

CommitSQLite(r) ==
    /\ phase[r] = "fetched" /\ driver[r] = "sqlite"
    /\ lock[r] = "reserved" => MayCommit(r)
    /\ landed' = landed \cup {r}
    /\ tx' = [tx EXCEPT ![r] = "committed"]
    /\ End(r, "ok")
    /\ UNCHANGED <<kind, driver, conn>>

\* COMMIT is a message to a server.
Commit(r) ==
    /\ Step(r, "fetched", "committing") /\ driver[r] # "sqlite"
    /\ tx' = [tx EXCEPT ![r] = "sent"]
    /\ UNCHANGED <<kind, driver, canceled, late, told, landed, conn, lock>>

\* The server commits when the message reaches it, and its reply may arrive.
ServerCommits(r) ==
    /\ tx[r] = "sent"
    /\ tx' = [tx EXCEPT ![r] = "committed"] /\ landed' = landed \cup {r}
    /\ UNCHANGED <<kind, driver, phase, canceled, late, told, conn, lock>>

Reply(r) ==
    /\ phase[r] = "committing" /\ tx[r] = "committed"
    /\ End(r, "ok")
    /\ UNCHANGED <<kind, driver, tx, landed, conn>>

\* What the script is told when a step fails: once COMMIT may have been sent, that
\* the outcome may be unknown.
Failure_Error(r) == "error"
Failure(r) == IF phase[r] = "committing" THEN "unknown" ELSE "error"

\* A step fails: the ticket, the clock, a limit, the statement, a lock, or the
\* connection.  The session ends with its connection, SQLite's with its transaction.
Fail(r) ==
    /\ Running(r)
    /\ End(r, Failure(r))
    /\ tx' = [tx EXCEPT ![r] = IF driver[r] = "sqlite" /\ @ = "open" THEN "rolled back" ELSE @]
    /\ UNCHANGED <<kind, driver, landed, conn>>

\* A server rolls back when it sees that the connection is closed.
ServerRollsBack(r) ==
    /\ phase[r] = "done" /\ tx[r] \in {"open", "sent"} /\ driver[r] # "sqlite"
    /\ tx' = [tx EXCEPT ![r] = "rolled back"]
    /\ UNCHANGED <<kind, driver, phase, canceled, late, told, landed, conn, lock>>

Cancel(r) ==
    /\ phase[r] # "done" /\ ~canceled[r]
    /\ canceled' = [canceled EXCEPT ![r] = TRUE]
    /\ UNCHANGED <<kind, driver, phase, late, told, tx, landed, conn, lock>>

Expire(r) ==
    /\ Running(r) /\ ~late[r]
    /\ late' = [late EXCEPT ![r] = TRUE]
    /\ UNCHANGED <<kind, driver, phase, canceled, told, tx, landed, conn, lock>>

\* Every wait is bounded: it ends with a step or, when the time is up, with a failure.
GivesUp(r) == Running(r) /\ ~Checked(r) /\ Fail(r)

-----------------------------------------------------------------------------
(* Connections and statements of scripts, on the game thread.              *)

\* The connection lives as long as its handle or a statement: Statement::database_.
Needed(k) == k.handle \/ k.stmt # "none"

\* A connection that nobody needs is closed, and its transaction rolled back; without
\* a transaction the lock is kept by an unfinished read only.
Settle(c, k, held) ==
    LET gone == ~Needed(k)
    IN  /\ conn' = [conn EXCEPT ![c] = IF gone THEN [k EXCEPT !.open = FALSE, !.tx = FALSE]
                                       ELSE k]
        /\ lock' = [lock EXCEPT ![c] = IF gone THEN "none" ELSE IF k.tx THEN held
                                       ELSE IF k.stmt = "row" THEN "shared" ELSE "none"]

Open(c) ==
    /\ ~Needed(conn[c])
    /\ Settle(c, [Closed EXCEPT !.open = TRUE, !.handle = TRUE], "none")

\* SQL_Begin: BEGIN IMMEDIATE.
Begin(c) ==
    /\ conn[c].handle /\ ~conn[c].tx /\ MayWrite(c)
    /\ Settle(c, [conn[c] EXCEPT !.tx = TRUE], "reserved")

Prepare(c) ==
    /\ conn[c].handle /\ conn[c].stmt = "none"
    /\ Settle(c, [conn[c] EXCEPT !.stmt = "ready"], lock[c])

\* SQL_Step: a row of a read, or the end; a write; or an error, which completes the
\* statement and may have rolled back the transaction.
StepStatement(c) ==
    /\ conn[c].stmt \in {"ready", "row"}
    /\ \/ \E s \in {"row", "done"} :
             Settle(c, [conn[c] EXCEPT !.stmt = s],
                    IF lock[c] = "none" THEN "shared" ELSE lock[c])
       \/ /\ conn[c].stmt = "ready" /\ MayWrite(c) /\ (conn[c].tx \/ MayCommit(c))
          /\ Settle(c, [conn[c] EXCEPT !.stmt = "done"], "reserved")
       \/ \E t \in {FALSE, conn[c].tx} :
             Settle(c, [conn[c] EXCEPT !.stmt = "done", !.tx = t], lock[c])

Reset(c) ==
    /\ conn[c].stmt \in {"row", "done"}
    /\ Settle(c, [conn[c] EXCEPT !.stmt = "ready"], lock[c])

Finalize(c) ==
    /\ conn[c].stmt # "none"
    /\ Settle(c, [conn[c] EXCEPT !.stmt = "none"], lock[c])

\* SQL_Commit fails while others read, and the transaction goes on; SQL_Rollback.
EndTransaction(c) ==
    /\ conn[c].handle /\ conn[c].tx
    /\ Settle(c, [conn[c] EXCEPT !.tx = FALSE], "none")

Close(c) ==
    /\ conn[c].handle
    /\ Settle(c, [conn[c] EXCEPT !.handle = FALSE], lock[c])

\* The script is unloaded: its handles are retired.
Retire(c) ==
    /\ Needed(conn[c])
    /\ Settle(c, [conn[c] EXCEPT !.handle = FALSE, !.stmt = "none"], "none")

ScriptStep(c) ==
    /\ \/ Open(c) \/ Begin(c) \/ Prepare(c) \/ StepStatement(c) \/ Reset(c)
       \/ Finalize(c) \/ EndTransaction(c) \/ Close(c) \/ Retire(c)
    /\ UNCHANGED request

WorkerStep(r) ==
    \/ Take(r) \/ OpenSQLite(r) \/ ConnectMySQL(r) \/ ConnectPostgreSQL(r)
    \/ ExecuteSQLite(r) \/ ExecuteMySQL(r) \/ ExecutePostgreSQL(r)
    \/ LastCheck(r) \/ CommitSQLite(r) \/ Commit(r) \/ Reply(r)

Next ==
    \/ \E r \in Requests : \/ WorkerStep(r) \/ Fail(r) \/ Cancel(r) \/ Expire(r)
                           \/ ServerCommits(r) \/ ServerRollsBack(r)
    \/ \E c \in Conns : ScriptStep(c)

\* The worker takes what is queued, time passes, and what is checked in vain fails.
Progress == \E r \in Requests : Take(r) \/ Expire(r) \/ GivesUp(r)

Spec == Init /\ [][Next]_vars /\ WF_vars(Progress)

-----------------------------------------------------------------------------
(* Properties.                                                             *)

\* Whatever is cancelled, late, lost or refused in between: a script that is told of
\* success has its change in the database, and one that is told of an error has not,
\* now or later, but for MySQL's implicit commits, of which the include file warns.
TruthIsTold ==
    \A r \in Requests :
        /\ told[r] = "ok" => r \in landed
        /\ told[r] = "error" /\ kind[r] # "control" => r \notin landed

\* Nobody keeps the SQLite file locked who is gone: a lock belongs to a running request
\* or to a connection that a script can still end, whatever it closed first, and a
\* statement has its connection.
LocksAreOwned ==
    /\ \A r \in Requests : lock[r] # "none" => Running(r)
    /\ \A c \in Conns : /\ lock[c] # "none" => Needed(conn[c])
                        /\ conn[c].stmt # "none" => conn[c].open

\* Every request ends, however slow the server is and whoever holds locks.
RequestsEnd == \A r \in Requests : <>(phase[r] = "done")
=============================================================================
