----------------------------- MODULE JobContract -----------------------------
(***************************************************************************)
(* What source2root::WorkQueue promises the extension that owns it, without *)
(* threads, queues or locks: the life of each job as its closures see it.   *)
(***************************************************************************)
EXTENDS Naturals, FiniteSets

CONSTANTS Jobs, Capacity

VARIABLES phase,      \* free, pending, calling (its completion runs) or done
          work,       \* the work function: no, running or ended
          withdrawn,  \* the jobs whose cancellation was requested
          open        \* the destructor has not begun

vars == <<phase, work, withdrawn, open>>

Live == {j \in Jobs : phase[j] \in {"pending", "calling"}}

Init ==
    /\ phase = [j \in Jobs |-> "free"]
    /\ work = [j \in Jobs |-> "no"]
    /\ withdrawn = {}
    /\ open = TRUE

\* A job is accepted while fewer than Capacity are unconsumed.
Accept(j) ==
    /\ open /\ phase[j] = "free" /\ Cardinality(Live) < Capacity
    /\ phase' = [phase EXCEPT ![j] = "pending"]
    /\ UNCHANGED <<work, withdrawn, open>>

Withdraw(j) ==
    /\ phase[j] # "free"
    /\ withdrawn' = withdrawn \cup {j}
    /\ UNCHANGED <<phase, work, open>>

\* The work starts at most once, and never when the job is already withdrawn.
Start(j) ==
    /\ phase[j] = "pending" /\ work[j] = "no" /\ j \notin withdrawn
    /\ work' = [work EXCEPT ![j] = "running"]
    /\ UNCHANGED <<phase, withdrawn, open>>

End(j) ==
    /\ work[j] = "running"
    /\ work' = [work EXCEPT ![j] = "ended"]
    /\ UNCHANGED <<phase, withdrawn, open>>

\* The completion is called one job at a time, after the work has ended.
Call(j) ==
    /\ open /\ phase[j] = "pending" /\ work[j] = "ended" /\ j \notin withdrawn
    /\ \A k \in Jobs : phase[k] # "calling"
    /\ phase' = [phase EXCEPT ![j] = "calling"]
    /\ UNCHANGED <<work, withdrawn, open>>

\* A completion consumes its job or retains it; a withdrawn job is not retained.
Return(j) ==
    /\ phase[j] = "calling"
    /\ \E next \in {"pending", "done"} :
          /\ next = "pending" => j \notin withdrawn
          /\ phase' = [phase EXCEPT ![j] = next]
    /\ UNCHANGED <<work, withdrawn, open>>

\* A withdrawn job ends without its completion, but not under its work.
Drop(j) ==
    /\ phase[j] = "pending" /\ j \in withdrawn /\ work[j] # "running"
    /\ phase' = [phase EXCEPT ![j] = "done"]
    /\ UNCHANGED <<work, withdrawn, open>>

\* Destruction withdraws every live job, outside any completion.
Close ==
    /\ open /\ \A j \in Jobs : phase[j] # "calling"
    /\ open' = FALSE
    /\ withdrawn' = withdrawn \cup Live
    /\ UNCHANGED <<phase, work>>

\* It ends when no work is running, and leaves no job behind.
Closed ==
    /\ ~open /\ \A j \in Jobs : work[j] # "running"
    /\ phase' = [j \in Jobs |-> IF j \in Live THEN "done" ELSE phase[j]]
    /\ UNCHANGED <<work, withdrawn, open>>

Next ==
    \/ \E j \in Jobs : Accept(j) \/ Withdraw(j) \/ Start(j) \/ End(j)
                          \/ Call(j) \/ Return(j) \/ Drop(j)
    \/ Close \/ Closed

Spec == Init /\ [][Next]_vars
=============================================================================
