------------------------------ MODULE Requests ------------------------------
(***************************************************************************)
(* extensions/database and extensions/http: what a script asks of a worker.*)
(* A request is a resource of its script; it holds the ticket of its job   *)
(* and the callback that is to be told.  The completion stores the answer  *)
(* and delivers the callback; when the script is busy (paused, loading)    *)
(* the queue keeps the completion for the next frame, so it is called any  *)
(* number of times.  The script may read, cancel and close requests at any *)
(* time, in their own callback too, and may be unloaded.                   *)
(*                                                                         *)
(* The queue is the contract of WorkQueue; the callbacks of the host are   *)
(* those of ExtensionCalls.  SQL, URLs and the contents of answers are left*)
(* out, but an HTTP answer is moved out of the job, so it is there once.   *)
(***************************************************************************)
EXTENDS Naturals, FiniteSets

CONSTANTS Names,        \* requests
          QueueLimit,   \* jobs of a queue (32)
          HttpLimit,    \* HTTP requests that exist (64)
          Threads,      \* workers of other extensions that use the HTTP client
          NativeLimit,  \* transfers of theirs at once (8)
          None

VARIABLES
    req,     \* the requests
    job,     \* their jobs in the queue
    box,     \* what the worker leaves for the completion
    cb,      \* the host's callbacks
    calling, \* the request whose callback runs, or None
    script,  \* their owner: "running", "busy" or "gone"
    told,    \* history: how often the callback of a request ran
    native,  \* native_calls_
    thread   \* the control points of the threads
vars == <<req, job, box, cb, calling, script, told, native, thread>>

NoJob == [state |-> "none", canceled |-> FALSE]

Init ==
    /\ req = [r \in Names |-> None] /\ job = [r \in Names |-> NoJob]
    /\ box = [r \in Names |-> None] /\ cb = [r \in Names |-> "none"]
    /\ calling = None /\ script = "running" /\ told = [r \in Names |-> 0]
    /\ native = 0 /\ thread = [t \in Threads |-> "idle"]

Kind(r) == req[r].kind
Free(r) == req[r] = None /\ job[r] = NoJob /\ calling # r
Jobs(kind) == {r \in Names : job[r].state # "none" /\ box[r].kind = kind}
Accepts(kind) == Cardinality(Jobs(kind)) < QueueLimit
Workers(kind) == IF kind = "sql" THEN 1 ELSE 2
Runs == script = "running"

-----------------------------------------------------------------------------
(* The natives.                                                            *)

\* SQL_ExecuteAsync and its kind: Submit.  A full queue leaves nothing behind.
Submit(r) ==
    /\ Runs /\ Free(r) /\ Accepts("sql")
    /\ req' = [req EXCEPT ![r] = [kind |-> "sql", state |-> "sent", ticket |-> TRUE,
                                  callback |-> TRUE, answer |-> None]]
    /\ job' = [job EXCEPT ![r] = [state |-> "queued", canceled |-> FALSE]]
    /\ box' = [box EXCEPT ![r] = [kind |-> "sql", content |-> None]]
    /\ cb' = [cb EXCEPT ![r] = "registered"]
    /\ told' = [told EXCEPT ![r] = 0]
    /\ UNCHANGED <<calling, script, native, thread>>

\* HTTP_Create; requests_ forgets the requests that are gone.
Alive == {r \in Names : req[r] # None /\ Kind(r) = "http"}
Create(r) ==
    /\ Runs /\ Free(r) /\ Cardinality(Alive) < HttpLimit
    /\ req' = [req EXCEPT ![r] = [kind |-> "http", state |-> "building", ticket |-> FALSE,
                                  callback |-> FALSE, answer |-> None]]
    /\ cb' = [cb EXCEPT ![r] = "none"]
    /\ told' = [told EXCEPT ![r] = 0]
    /\ UNCHANGED <<job, box, calling, script, native, thread>>

\* Building: what is sent is not changed, and not sent again.
Building(r) == req[r].state = "building"

\* HTTP_Send; when the queue is full the callback is canceled, and the request stays.
Send(r) ==
    /\ Runs /\ req[r] # None /\ Building(r) /\ Accepts("http")
    /\ req' = [req EXCEPT ![r].state = "sent", ![r].ticket = TRUE, ![r].callback = TRUE]
    /\ job' = [job EXCEPT ![r] = [state |-> "queued", canceled |-> FALSE]]
    /\ box' = [box EXCEPT ![r] = [kind |-> "http", content |-> None]]
    /\ cb' = [cb EXCEPT ![r] = "registered"]
    /\ UNCHANGED <<calling, script, told, native, thread>>

\* A ticket that is reset cancels its job; the callback of the host goes with it.
Canceled(r) == IF job[r].state = "none" THEN job[r] ELSE [job[r] EXCEPT !.canceled = TRUE]
Dropped(r) == IF cb[r] = "registered" THEN "spent" ELSE cb[r]

\* HTTP_Cancel: while the callback runs the ticket is not in the request.
Cancel(r) ==
    /\ Runs /\ req[r] # None /\ Kind(r) = "http" /\ req[r].ticket
    /\ req' = [req EXCEPT ![r].state = "canceled", ![r].ticket = FALSE,
                          ![r].callback = FALSE, ![r].answer = None]
    /\ job' = [job EXCEPT ![r] = Canceled(r)]
    /\ cb' = [cb EXCEPT ![r] = IF req[r].callback THEN Dropped(r) ELSE @]
    /\ UNCHANGED <<box, calling, script, told, native, thread>>

\* ~Request, for some requests.
Destroyed(gone) ==
    /\ req' = [r \in Names |-> IF r \in gone THEN None ELSE req[r]]
    /\ job' = [r \in Names |-> IF r \in gone /\ req[r].ticket THEN Canceled(r) ELSE job[r]]
    /\ cb' = [r \in Names |-> IF r \in gone /\ req[r].callback THEN Dropped(r) ELSE cb[r]]

\* SQL_CloseRequest, HTTP_Close.
Close(r) ==
    /\ Runs /\ req[r] # None
    /\ Destroyed({r})
    /\ UNCHANGED <<box, calling, script, told, native, thread>>

-----------------------------------------------------------------------------
(* The workers.                                                            *)

Running(kind) == {r \in Jobs(kind) : job[r].state = "running"}
Start(r) ==
    /\ job[r].state = "queued" /\ Cardinality(Running(box[r].kind)) < Workers(box[r].kind)
    /\ job' = [job EXCEPT ![r].state = "running"]
    /\ UNCHANGED <<req, box, cb, calling, script, told, native, thread>>

Finish(r) ==
    /\ job[r].state = "running"
    /\ job' = [job EXCEPT ![r].state = "ready"]
    /\ \E content \in {"data", "failure"} : box' = [box EXCEPT ![r].content = content]
    /\ UNCHANGED <<req, cb, calling, script, told, native, thread>>

-----------------------------------------------------------------------------
(* A game frame: the completions.                                          *)

\* A canceled job is thrown away.
Discard(r) ==
    /\ calling = None /\ job[r].state = "ready" /\ job[r].canceled
    /\ job' = [job EXCEPT ![r] = NoJob] /\ box' = [box EXCEPT ![r] = None]
    /\ UNCHANGED <<req, cb, calling, script, told, native, thread>>

\* The answer is stored by the first completion; HTTP takes it out of the box.
First(r) == req[r].state = "sent"
Answered(r) == IF First(r) THEN [req[r] EXCEPT !.state = "complete", !.answer = box[r].content]
               ELSE req[r]
TakenFrom(r) == IF First(r) /\ Kind(r) = "http" THEN "moved" ELSE box[r].content

Ready(r) == calling = None /\ job[r].state = "ready" /\ ~job[r].canceled

\* The script is busy: ticket and callback are put back, the queue keeps the job.
Retained_Drops(r) == IF Kind(r) = "http" THEN Canceled(r) ELSE job[r]
Retained(r) == job[r]
Retain(r) ==
    /\ Ready(r) /\ script = "busy"
    /\ req' = [req EXCEPT ![r] = Answered(r)]
    /\ box' = [box EXCEPT ![r].content = TakenFrom(r)]
    /\ job' = [job EXCEPT ![r] = Retained(r)]
    /\ UNCHANGED <<cb, calling, script, told, native, thread>>

\* The callback runs; HTTP has taken ticket and callback out of the request.
Deliver(r) ==
    /\ Ready(r) /\ Runs
    /\ req' = [req EXCEPT ![r] = IF Kind(r) = "sql" THEN Answered(r)
                                 ELSE [Answered(r) EXCEPT !.ticket = FALSE, !.callback = FALSE]]
    /\ job' = [job EXCEPT ![r].state = "calling"]
    /\ cb' = [cb EXCEPT ![r] = "running"]
    /\ calling' = r /\ told' = [told EXCEPT ![r] = @ + 1]
    /\ UNCHANGED <<box, script, native, thread>>

\* The callback returns, or fails.
Returned ==
    /\ calling # None
    /\ job' = [job EXCEPT ![calling] = NoJob] /\ box' = [box EXCEPT ![calling] = None]
    /\ cb' = [cb EXCEPT ![calling] = "spent"]
    /\ calling' = None
    /\ UNCHANGED <<req, script, told, native, thread>>

-----------------------------------------------------------------------------
(* The script and the extension.                                           *)

\* It is paused or reloaded, and runs again.
Busy ==
    /\ calling = None /\ script \in {"running", "busy"}
    /\ script' = IF script = "busy" THEN "running" ELSE "busy"
    /\ UNCHANGED <<req, job, box, cb, calling, told, native, thread>>

\* It is unloaded: its resources are released.
Unload ==
    /\ calling = None /\ script # "gone"
    /\ script' = "gone"
    /\ Destroyed({r \in Names : req[r] # None})
    /\ UNCHANGED <<box, calling, told, native, thread>>

Load ==
    /\ script = "gone" /\ script' = "running"
    /\ UNCHANGED <<req, job, box, cb, calling, told, native, thread>>

-----------------------------------------------------------------------------
(* PerformNative, on the threads of other extensions.                      *)

TooMany(count) == count >= NativeLimit

\* fetch_add, and the count it found.
Enter(t) ==
    /\ thread[t] = "idle"
    /\ native' = native + 1
    /\ thread' = [thread EXCEPT ![t] = IF TooMany(native) THEN "refused" ELSE "transfer"]
    /\ UNCHANGED <<req, job, box, cb, calling, script, told>>

\* fetch_sub, after the transfer or the refusal.
Leave(t) ==
    /\ thread[t] # "idle"
    /\ native' = native - 1
    /\ thread' = [thread EXCEPT ![t] = "idle"]
    /\ UNCHANGED <<req, job, box, cb, calling, script, told>>

Next ==
    \/ \E r \in Names :
          \/ Submit(r) \/ Create(r) \/ Send(r) \/ Cancel(r) \/ Close(r)
          \/ Start(r) \/ Finish(r) \/ Discard(r) \/ Retain(r) \/ Deliver(r)
    \/ Returned \/ Busy \/ Unload \/ Load
    \/ \E t \in Threads : Enter(t) \/ Leave(t)

Spec == Init /\ [][Next]_vars

-----------------------------------------------------------------------------
\* A script is told once of a request, and while it has not been told of a request it
\* sent and did not cancel or close, the job is still there, not canceled, with the
\* callback registered: a completion that found the script busy loses nothing
\* (http/extension.cpp:283, database/extension.cpp:196).  A canceled request is never
\* told of ("Cancel suppresses a pending callback", source2root_http.inc:53).
AnswerIsOwed ==
    \A r \in Names :
        /\ told[r] <= 1
        /\ req[r] # None /\ req[r].state = "canceled" => told[r] = 0
        /\ req[r] # None /\ req[r].state \in {"sent", "complete"} /\ told[r] = 0 =>
              /\ job[r].state # "none" /\ ~job[r].canceled /\ cb[r] = "registered"
              /\ req[r].ticket /\ req[r].callback

\* An answer, once there, is what the worker left, however often the completion was
\* called; only a cancellation takes it away.
AnswerStays ==
    \A r \in Names : req[r] # None =>
        /\ req[r].answer \in {None, "data", "failure"}
        /\ req[r].answer # None <=> req[r].state = "complete"

\* However the threads of other extensions come and go, no more of them transfer at
\* once than the limit allows, and refusals do not use the limit up.
TransfersBounded ==
    /\ Cardinality({t \in Threads : thread[t] = "transfer"}) <= NativeLimit
    /\ native = Cardinality({t \in Threads : thread[t] # "idle"})
=============================================================================
