------------------------------ MODULE WorkQueue ------------------------------
(***************************************************************************)
(* include/source2root/work_queue.hpp: the bounded queue on which the      *)
(* native extensions run their blocking work.  The owner (the server       *)
(* thread that built the queue) submits jobs, cancels them through their   *)
(* tickets, and once per frame dispatches the completions of the jobs      *)
(* whose work has ended.  Worker threads run the work.                     *)
(*                                                                         *)
(* One action is one critical section of mutex_, or one call of user code. *)
(* Tickets are cancelled on the owner thread, outside the queue's own code *)
(* or from inside a completion: this is how every extension uses them.     *)
(***************************************************************************)
EXTENDS Naturals, Sequences, FiniteSets, SequencesExt

CONSTANTS Jobs,      \* the identities of the jobs that are ever submitted
          Workers,   \* the worker threads
          Capacity,  \* capacity_: jobs submitted and not yet consumed
          None       \* no job

ASSUME WorkQueueAssumption ==
    /\ None \notin Jobs
    /\ Workers # {}
    /\ Capacity \in Nat \ {0}

VARIABLES
    jobs,         \* jobs_: every job that was accepted and not yet consumed
    waiting,      \* waiting_: the deque of jobs no worker has taken
    ready,        \* ready_: the jobs whose completion is to be dispatched
    canceled,     \* Job::canceled
    error,        \* Job::error: the exception that left the work
    closures,     \* Job::work and Job::completion: unset, held or released
    stopping,     \* stopping_
    asleep,       \* the workers blocked on wake_
    notifying,    \* the owner pushed a job and has not called notify_one yet
    worker,       \* per worker: its control point and the job in its hands
    owner,        \* the owner's control point
    current,      \* Dispatch: the job taken from ready_
    remaining,    \* Dispatch: the entries of this frame that are left
    called,       \* history: completion calls of each job in this Dispatch
    started       \* history: the jobs whose work was started

queueVars == <<jobs, waiting, ready, canceled, error, closures, stopping>>
wakeVars  == <<asleep, notifying>>
ownerVars == <<owner, current, remaining, called>>
vars == <<queueVars, wakeVars, worker, ownerVars, started>>


WorkerState == {[at |-> "check", job |-> None], [at |-> "left", job |-> None]}
    \cup [at : {"taken", "working", "push"}, job : Jobs]

TypeOK ==
    /\ jobs \subseteq Jobs
    /\ waiting \in Seq(Jobs) /\ ready \in Seq(Jobs)
    /\ canceled \in [Jobs -> BOOLEAN]
    /\ error \in [Jobs -> BOOLEAN]
    /\ closures \in [Jobs -> {"unset", "held", "released"}]
    /\ stopping \in BOOLEAN
    /\ asleep \subseteq Workers /\ notifying \in BOOLEAN
    /\ worker \in [Workers -> WorkerState]
    /\ owner \in {"client", "drain", "completion", "settle", "notifyAll", "join", "destroyed"}
    /\ current \in Jobs \cup {None}
    /\ remaining \in Nat
    /\ called \in [Jobs -> Nat] /\ started \subseteq Jobs

Init ==
    /\ jobs = {} /\ waiting = <<>> /\ ready = <<>>
    /\ canceled = [j \in Jobs |-> FALSE]
    /\ error = [j \in Jobs |-> FALSE]
    /\ closures = [j \in Jobs |-> "unset"]
    /\ stopping = FALSE
    /\ asleep = {} /\ notifying = FALSE
    /\ worker = [w \in Workers |-> [at |-> "check", job |-> None]]
    /\ owner = "client" /\ current = None /\ remaining = 0
    /\ called = [j \in Jobs |-> 0]
    /\ started = {}

-----------------------------------------------------------------------------
(* The owner thread.                                                       *)

\* The owner is executing an extension's code: between two calls of the
\* queue, or inside a completion that Dispatch called.
InClient == owner \in {"client", "completion"} /\ ~notifying

\* Submit's test of the capacity.
NoFreeSlot == Cardinality(jobs) >= Capacity

\* Submit, up to the end of its critical section.  A full queue refuses the
\* job: the ticket is empty and nothing changes, so there is no step.
Submit(j) ==
    /\ InClient /\ ~stopping
    /\ closures[j] = "unset"
    /\ ~NoFreeSlot
    /\ jobs' = jobs \cup {j}
    /\ waiting' = Append(waiting, j)
    /\ closures' = [closures EXCEPT ![j] = "held"]
    /\ notifying' = TRUE
    /\ UNCHANGED <<ready, canceled, error, stopping, asleep, worker, ownerVars, started>>

\* Whom notify_one wakes.
WakeOne == IF asleep = {} THEN UNCHANGED asleep
                          ELSE \E w \in asleep : asleep' = asleep \ {w}

\* Submit: wake_.notify_one(), after the lock is released.
Notify ==
    /\ notifying
    /\ notifying' = FALSE
    /\ WakeOne
    /\ UNCHANGED <<queueVars, worker, ownerVars, started>>

\* Ticket::Cancel, by the call or by the ticket's destructor.  A ticket may
\* outlive the queue.
Cancel(j) ==
    /\ InClient \/ owner = "destroyed"
    /\ closures[j] # "unset" /\ ~canceled[j]
    /\ canceled' = [canceled EXCEPT ![j] = TRUE]
    /\ UNCHANGED <<jobs, waiting, ready, error, closures, stopping, wakeVars, worker, ownerVars, started>>

\* Dispatch: the entries one frame handles.
Frame == Len(ready)

\* Dispatch, up to the snapshot of ready_.size().  From inside a completion it
\* throws without changing anything.
DispatchBegin ==
    /\ owner = "client" /\ ~notifying
    /\ owner' = "drain"
    /\ remaining' = Frame
    /\ called' = [j \in Jobs |-> 0]
    /\ UNCHANGED <<queueVars, wakeVars, worker, current, started>>

\* Dispatch: the front of ready_ is taken; a cancelled job skips its completion.
DispatchTake ==
    /\ owner = "drain" /\ remaining > 0
    /\ remaining' = remaining - 1
    /\ current' = Head(ready)
    /\ ready' = Tail(ready)
    /\ IF canceled[Head(ready)]
       THEN owner' = "settle" /\ UNCHANGED called
       ELSE /\ owner' = "completion"
            /\ called' = [called EXCEPT ![Head(ready)] = @ + 1]
    /\ UNCHANGED <<jobs, waiting, canceled, error, closures, stopping, wakeVars, worker, started>>

\* Dispatch: the closures are released and the job leaves jobs_.
Consume_KeepsJob(j) ==
    /\ closures' = [closures EXCEPT ![j] = "released"]
    /\ UNCHANGED <<jobs, error, ready>>
Consume(j) ==
    /\ closures' = [closures EXCEPT ![j] = "released"]
    /\ error' = [error EXCEPT ![j] = FALSE]
    /\ jobs' = jobs \ {j}
    /\ UNCHANGED ready

\* Dispatch: the completion returned false.
Retain_AtFront(j) == ready' = <<j>> \o ready
Retain(j) == ready' = Append(ready, j)

\* The completion returned: a consumed or cancelled job is released, any other
\* is retained at the back of ready_.
CompletionReturns(consumed) ==
    /\ owner = "completion" /\ ~notifying
    /\ IF consumed \/ canceled[current]
       THEN Consume(current)
       ELSE Retain(current) /\ UNCHANGED <<jobs, closures, error>>
    /\ owner' = "drain" /\ current' = None
    /\ UNCHANGED <<waiting, canceled, stopping, wakeVars, worker, remaining, called, started>>

\* The completion threw: the job is consumed and Dispatch rethrows, leaving the
\* rest of ready_ to the next frame.
CompletionThrows ==
    /\ owner = "completion" /\ ~notifying
    /\ Consume(current)
    /\ owner' = "client" /\ current' = None /\ remaining' = 0
    /\ UNCHANGED <<waiting, canceled, stopping, wakeVars, worker, called, started>>

\* Dispatch: a job found cancelled is released without its completion.
DispatchSkip ==
    /\ owner = "settle"
    /\ Consume(current)
    /\ owner' = "drain" /\ current' = None
    /\ UNCHANGED <<waiting, canceled, stopping, wakeVars, worker, remaining, called, started>>

DispatchEnd ==
    /\ owner = "drain" /\ remaining = 0
    /\ owner' = "client"
    /\ UNCHANGED <<queueVars, wakeVars, worker, current, remaining, called, started>>

\* ~WorkQueue: Stop, its critical section.
StopBegin ==
    /\ owner = "client" /\ ~notifying
    /\ stopping' = TRUE
    /\ canceled' = [j \in Jobs |-> canceled[j] \/ j \in jobs]
    /\ owner' = "notifyAll"
    /\ UNCHANGED <<jobs, waiting, ready, error, closures, wakeVars, worker, current, remaining, called, started>>

WakeAll_One == WakeOne
WakeAll == asleep' = {}

\* Stop: wake_.notify_all().
StopNotifyAll ==
    /\ owner = "notifyAll"
    /\ WakeAll
    /\ owner' = "join"
    /\ UNCHANGED <<queueVars, notifying, worker, current, remaining, called, started>>

\* Stop: worker.join() of every thread, and the jobs it leaves to the owner.
AllJoined_Idle == \A w \in Workers : worker[w].at # "working"
AllJoined == \A w \in Workers : worker[w].at = "left"
Leftover == jobs

\* Stop: every worker has been joined; what is left is released by the owner.
StopJoined ==
    /\ owner = "join"
    /\ AllJoined
    /\ closures' = [j \in Jobs |-> IF j \in Leftover THEN "released" ELSE closures[j]]
    /\ error' = [j \in Jobs |-> error[j] /\ j \notin Leftover]
    /\ waiting' = <<>> /\ ready' = <<>> /\ jobs' = {}
    /\ owner' = "destroyed"
    /\ UNCHANGED <<canceled, stopping, wakeVars, worker, current, remaining, called, started>>

-----------------------------------------------------------------------------
(* A worker thread: Run.                                                   *)

\* The predicate of wake_.wait is evaluated under the lock: the worker goes to
\* sleep, leaves, or takes the oldest waiting job.
WorkerCheck(w) ==
    /\ worker[w].at = "check" /\ w \notin asleep
    /\ \/ /\ waiting = <<>> /\ ~stopping
          /\ asleep' = asleep \cup {w}
          /\ UNCHANGED <<waiting, worker>>
       \/ /\ waiting = <<>> /\ stopping
          /\ worker' = [worker EXCEPT ![w] = [at |-> "left", job |-> None]]
          /\ UNCHANGED <<waiting, asleep>>
       \/ /\ waiting # <<>>
          /\ worker' = [worker EXCEPT ![w] = [at |-> "taken", job |-> Head(waiting)]]
          /\ waiting' = Tail(waiting)
          /\ UNCHANGED asleep
    /\ UNCHANGED <<jobs, ready, canceled, error, closures, stopping, notifying, ownerVars, started>>

\* A spurious wakeup of wake_.wait, which evaluates its predicate again.
SpuriousWake(w) ==
    /\ w \in asleep
    /\ asleep' = asleep \ {w}
    /\ UNCHANGED <<queueVars, notifying, worker, ownerVars, started>>

\* Run: the test before the work.
Skips_Never(j) == FALSE
Skips(j) == canceled[j]

\* The work is started unless the job was cancelled while it waited.
WorkerStart(w) ==
    /\ worker[w].at = "taken"
    /\ IF Skips(worker[w].job)
       THEN worker' = [worker EXCEPT ![w].at = "push"] /\ UNCHANGED started
       ELSE /\ worker' = [worker EXCEPT ![w].at = "working"]
            /\ started' = started \cup {worker[w].job}
    /\ UNCHANGED <<queueVars, wakeVars, ownerVars>>

\* The work ends, by returning or by an exception that is kept for the completion.
WorkerFinish(w) ==
    /\ worker[w].at = "working"
    /\ worker' = [worker EXCEPT ![w].at = "push"]
    /\ \E failed \in BOOLEAN : error' = [error EXCEPT ![worker[w].job] = failed]
    /\ UNCHANGED <<jobs, waiting, ready, canceled, closures, stopping, wakeVars, ownerVars, started>>

\* The worker after its job was moved from.
EmptyHanded(w) == [at |-> "check", job |-> None]

\* The job is moved to ready_; ready_ was reserved, so this must not allocate.
WorkerPush(w) ==
    /\ worker[w].at = "push"
    /\ ready' = Append(ready, worker[w].job)
    /\ worker' = [worker EXCEPT ![w] = EmptyHanded(w)]
    /\ UNCHANGED <<jobs, waiting, canceled, error, closures, stopping, wakeVars, ownerVars, started>>

WorkerStep(w) == WorkerCheck(w) \/ WorkerStart(w) \/ WorkerFinish(w) \/ WorkerPush(w)

\* The steps of the owner inside the queue's own code.
QueueStep ==
    \/ Notify
    \/ DispatchTake \/ DispatchSkip \/ DispatchEnd
    \/ StopNotifyAll \/ StopJoined

Next ==
    \/ \E j \in Jobs : Submit(j) \/ Cancel(j)
    \/ \E consumed \in BOOLEAN : CompletionReturns(consumed)
    \/ CompletionThrows
    \/ DispatchBegin \/ StopBegin
    \/ QueueStep
    \/ \E w \in Workers : WorkerStep(w) \/ SpuriousWake(w)

Spec == Init /\ [][Next]_vars

\* Threads are scheduled, and work ends: "I/O tasks must supply their own finite
\* timeouts and check cooperative cancellation".
FairSpec ==
    /\ Spec
    /\ WF_vars(QueueStep)
    /\ \A w \in Workers : WF_vars(WorkerStep(w))

-----------------------------------------------------------------------------
(* Safety.                                                                 *)

\* The jobs in the hands of a worker, and of any worker.
Held(w) == {worker[w].job} \ {None}
InHand == UNION {Held(w) : w \in Workers}

\* Every variable has its type, and every accepted job is in exactly one place: it waits, one worker holds it, it
\* is ready, or Dispatch holds it.  No job is lost between two critical sections,
\* and no two threads ever touch the same job.
PlacesAreDisjoint ==
    /\ \A i, k \in DOMAIN waiting : waiting[i] = waiting[k] => i = k
    /\ \A i, k \in DOMAIN ready : ready[i] = ready[k] => i = k
    /\ \A w, v \in Workers : w # v => Held(w) \cap Held(v) = {}
    /\ ToSet(waiting) \cap ToSet(ready) = {}
    /\ \A w \in Workers : Held(w) \cap (ToSet(waiting) \cup ToSet(ready) \cup {current}) = {}
    /\ current \notin ToSet(waiting) \cup ToSet(ready)

NoJobLost ==
    jobs = ToSet(waiting) \cup ToSet(ready) \cup InHand \cup ({current} \ {None})

EachJobInOnePlace == TypeOK /\ PlacesAreDisjoint /\ NoJobLost

\* ready_ never outgrows the storage reserved for it: the push_back in Run, which
\* is noexcept, never allocates.  Retained, running and queued jobs share the bound.
ReadyFitsReservation == Len(ready) <= Capacity /\ Cardinality(jobs) <= Capacity

\* Dispatch never takes the front of an empty ready_: the snapshot it counts down
\* stays covered while workers push and completions are retained behind it.
DrainIsCovered == owner \in {"drain", "completion", "settle"} => remaining <= Len(ready)

\* "A retained completion runs at most once per Dispatch."
OncePerDispatch == \A j \in Jobs : called[j] <= 1

\* What Dispatch and Run rely on when they use ready_ in turn.
ReadyIsSound == ReadyFitsReservation /\ DrainIsCovered /\ OncePerDispatch

\* The closures of a job are never destroyed under a worker that may run them.
NoReleaseUnderWorker ==
    \A w \in Workers : \A j \in Held(w) : closures[j] = "held"

\* After the destructor no thread and no queue holds a job, and every closure that
\* was ever accepted has been released.
DestroyedIsClean ==
    owner = "destroyed" =>
        /\ jobs = {} /\ \A w \in Workers : worker[w].at = "left"
        /\ \A j \in Jobs : closures[j] # "held"

\* Every closure is released, never too early and never forgotten.
ClosuresAccounted == NoReleaseUnderWorker /\ DestroyedIsClean

\* What a client may rely on: see JobContract.
Phase(j) ==
    CASE closures[j] = "unset" -> "free"
      [] owner = "completion" /\ current = j -> "calling"
      [] ~(owner = "completion" /\ current = j) /\ j \in jobs -> "pending"
      [] OTHER -> "done"

WorkOf(j) ==
    CASE \E w \in Workers : worker[w] = [at |-> "working", job |-> j] -> "running"
      [] j \notin started -> "no"
      [] OTHER -> "ended"

Contract == INSTANCE JobContract
    WITH phase <- [j \in Jobs |-> Phase(j)],
         work <- [j \in Jobs |-> WorkOf(j)],
         withdrawn <- {j \in Jobs : canceled[j]},
         open <- ~stopping

\* The queue with its threads, deques and condition variable implements the
\* contract: work and completions start once, in this order, never after a
\* cancellation, and never once the destructor has begun.
ImplementsContract == Contract!Spec

-----------------------------------------------------------------------------
(* Liveness.                                                               *)

\* No wakeup is lost: a waiting job is taken by some worker.
WaitingIsTaken == \A j \in Jobs : j \in ToSet(waiting) ~> j \notin ToSet(waiting)

\* The destructor ends: every worker is woken, drains the deque and is joined.
StopEnds == stopping ~> owner = "destroyed"

\* No notification is missed: not that of a job, not that of the destructor.
NoLostWakeup == WaitingIsTaken /\ StopEnds
=============================================================================
