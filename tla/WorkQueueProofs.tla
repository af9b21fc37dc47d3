-------------------------- MODULE WorkQueueProofs --------------------------
(***************************************************************************)
(* Proofs about WorkQueue, for any number of jobs and workers and any      *)
(* capacity.                                                               *)
(***************************************************************************)
EXTENDS WorkQueue, SequenceTheorems, FiniteSetTheorems, TLAPS

NoDup(s) == \A i, k \in DOMAIN s : s[i] = s[k] => i = k

\* push_back on a deque that does not hold the job yet.
LEMMA AppendSet ==
    ASSUME NEW s \in Seq(Jobs), NEW j \in Jobs
    PROVE  /\ Append(s, j) \in Seq(Jobs) /\ Len(Append(s, j)) = Len(s) + 1
           /\ \A i \in 1..Len(s) : Append(s, j)[i] = s[i]
           /\ ToSet(Append(s, j)) = ToSet(s) \cup {j}
           /\ NoDup(s) /\ j \notin ToSet(s) => NoDup(Append(s, j))
<1> DEFINE t == Append(s, j)
<1>1. /\ t \in Seq(Jobs) /\ Len(t) = Len(s) + 1 /\ t[Len(s) + 1] = j
      /\ \A i \in 1..Len(s) : t[i] = s[i]
  BY AppendProperties
<1>2. Len(s) \in Nat /\ DOMAIN s = 1..Len(s) /\ DOMAIN t = 1..(Len(s) + 1)
  BY <1>1
<1>3. DOMAIN t = DOMAIN s \cup {Len(s) + 1} /\ Len(s) + 1 \notin DOMAIN s
  BY <1>2, SMT
<1> HIDE DEF t
<1>4. \A i \in DOMAIN s : t[i] = s[i]
  BY <1>1, <1>2
<1>5. ToSet(t) = ToSet(s) \cup {j}
  <2>1. ASSUME NEW x \in ToSet(t) PROVE x \in ToSet(s) \cup {j}
    <3>1. PICK i \in DOMAIN t : x = t[i]
      BY <2>1 DEF ToSet
    <3>2. CASE i \in DOMAIN s
      BY <1>4, <3>1, <3>2 DEF ToSet
    <3>3. CASE i = Len(s) + 1
      BY <1>1, <3>1, <3>3
    <3> QED
      BY <1>3, <3>1, <3>2, <3>3
  <2>2. ASSUME NEW x \in ToSet(s) PROVE x \in ToSet(t)
    <3>1. PICK i \in DOMAIN s : x = s[i]
      BY <2>2 DEF ToSet
    <3> QED
      BY <1>3, <1>4, <3>1 DEF ToSet
  <2>3. j \in ToSet(t)
    BY <1>1, <1>3 DEF ToSet
  <2> QED
    BY <2>1, <2>2, <2>3
<1>6. ASSUME NoDup(s), j \notin ToSet(s) PROVE NoDup(t)
  <2>1. \A i \in DOMAIN s : s[i] # j
    BY <1>6 DEF ToSet
  <2> QED
    BY <1>1, <1>3, <1>4, <1>6, <2>1, Zenon DEF NoDup
<1> QED
  BY <1>1, <1>5, <1>6 DEF t

\* front and pop_front.
LEMMA TailSet ==
    ASSUME NEW s \in Seq(Jobs), s # <<>>
    PROVE  /\ Head(s) \in Jobs /\ Head(s) \in ToSet(s)
           /\ Tail(s) \in Seq(Jobs) /\ Len(Tail(s)) = Len(s) - 1
           /\ Head(s) = s[1] /\ \A i \in 1..Len(Tail(s)) : Tail(s)[i] = s[i + 1]
           /\ NoDup(s) => NoDup(Tail(s)) /\ ToSet(Tail(s)) = ToSet(s) \ {Head(s)}
<1> DEFINE t == Tail(s)
<1>1. /\ Head(s) \in Jobs /\ Head(s) = s[1] /\ t \in Seq(Jobs) /\ Len(t) = Len(s) - 1
      /\ \A i \in 1..Len(t) : t[i] = s[i + 1]
  BY HeadTailProperties
<1>2. /\ Len(s) \in Nat /\ Len(s) # 0
      /\ DOMAIN s = 1..Len(s) /\ DOMAIN t = 1..(Len(s) - 1)
  BY <1>1, EmptySeq
<1> HIDE DEF t
<1>3. 1 \in DOMAIN s /\ Head(s) \in ToSet(s)
  BY <1>1, <1>2, SMT DEF ToSet
<1>4. \A i \in DOMAIN t : i + 1 \in DOMAIN s /\ i + 1 # 1 /\ t[i] = s[i + 1]
  BY <1>1, <1>2, SMT
<1>5. \A k \in DOMAIN s : k # 1 => k - 1 \in DOMAIN t /\ t[k - 1] = s[k]
  BY <1>1, <1>2, SMT
<1>6. ASSUME NoDup(s) PROVE NoDup(t) /\ ToSet(t) = ToSet(s) \ {Head(s)}
  <2>1. NoDup(t)
    <3>1. \A i, k \in DOMAIN t : t[i] = t[k] => i + 1 = k + 1
      BY <1>4, <1>6 DEF NoDup
    <3> QED
      BY <1>2, <3>1, SMT DEF NoDup
  <2>2. ASSUME NEW x \in ToSet(t) PROVE x \in ToSet(s) /\ x # Head(s)
    BY <1>1, <1>3, <1>4, <1>6 DEF NoDup, ToSet
  <2>3. ASSUME NEW x \in ToSet(s), x # Head(s) PROVE x \in ToSet(t)
    BY <1>1, <1>5, <2>3 DEF ToSet
  <2> QED
    BY <2>1, <2>2, <2>3
<1> QED
  BY <1>1, <1>3, <1>6 DEF t

LEMMA EmptySet == <<>> \in Seq(Jobs) /\ Len(<<>>) = 0 /\ NoDup(<<>>) /\ ToSet(<<>>) = {}
BY DEF NoDup, ToSet

LEMMA RangeOfJobs == ASSUME NEW s \in Seq(Jobs) PROVE ToSet(s) \subseteq Jobs /\ Len(s) \in Nat
BY ElementOfSeq DEF ToSet

\* A worker has a job in its hands from the moment it takes it until it pushes it.
LEMMA WorkerFields ==
    ASSUME TypeOK, NEW w \in Workers
    PROVE  /\ worker[w] \in WorkerState
           /\ worker[w].at \in {"check", "left"} => worker[w].job = None
           /\ worker[w].at \notin {"check", "left"} => worker[w].job \in Jobs
           /\ worker[w].job \in Jobs \cup {None}
<1>1. worker[w] \in WorkerState
  BY DEF TypeOK
<1> QED
  BY <1>1 DEF WorkerState

-----------------------------------------------------------------------------
(* The inductive invariant.                                                *)

\* EachJobInOnePlace job by job: the sets of its statement are its consequence.
OnePlaceEach ==
    /\ NoDup(waiting) /\ NoDup(ready)
    /\ \A w, v \in Workers : worker[w].job = worker[v].job /\ worker[w].job # None => w = v
    /\ \A w \in Workers : worker[w].job # None =>
           /\ worker[w].job \notin ToSet(waiting)
           /\ worker[w].job \notin ToSet(ready)
           /\ worker[w].job # current
    /\ \A j \in ToSet(waiting) : j \notin ToSet(ready)
    /\ current \notin ToSet(waiting) /\ current \notin ToSet(ready)

\* A job is accounted for exactly as long as it is somewhere.
SomewhereEach ==
    \A j \in Jobs :
        j \in jobs <=> \/ j \in ToSet(waiting)
                       \/ j \in ToSet(ready)
                       \/ \E w \in Workers : worker[w].job = j
                       \/ j = current

\* The closures of the jobs accounted for are the ones that are held: this is why the
\* job of a Submit is nowhere yet.
HeldWhileListed == \A j \in Jobs : closures[j] = "held" <=> j \in jobs

\* What the owner's control point says of its variables.
OwnerShape ==
    /\ current # None <=> owner \in {"completion", "settle"}
    /\ notifying => owner \in {"client", "completion"}
    /\ owner = "destroyed" => jobs = {} /\ \A w \in Workers : worker[w].at = "left"

\* The jobs that this Dispatch has yet to take were not called by it.
CalledOnce ==
    /\ \A j \in Jobs : called[j] <= 1
    /\ owner \in {"drain", "completion", "settle"} =>
          \A i \in 1..remaining : called[ready[i]] = 0

IInv ==
    /\ TypeOK /\ OnePlaceEach /\ SomewhereEach
    /\ HeldWhileListed /\ OwnerShape /\ DrainIsCovered /\ CalledOnce

\* Nothing was submitted.
LEMMA InitIInv == Init => IInv
<1> SUFFICES ASSUME Init PROVE IInv
  OBVIOUS
<1>1. TypeOK
  BY EmptySet DEF Init, TypeOK, WorkerState
<1>2. OnePlaceEach /\ SomewhereEach
  BY EmptySet, WorkQueueAssumption DEF Init, OnePlaceEach, SomewhereEach
<1>3. HeldWhileListed /\ OwnerShape /\ DrainIsCovered /\ CalledOnce
  BY DEF Init, HeldWhileListed, OwnerShape, DrainIsCovered, CalledOnce
<1> QED
  BY <1>1, <1>2, <1>3 DEF IInv

\* Steps that move no job: the deques, jobs_, the closures and Dispatch's own variables
\* are left alone, and every worker keeps the job in its hands.
LEMMA Unmoved ==
    ASSUME IInv, TypeOK',
           UNCHANGED <<jobs, waiting, ready, closures, current, remaining, called>>,
           \A w \in Workers : worker'[w].job = worker[w].job
    PROVE  /\ OnePlaceEach' /\ SomewhereEach' /\ HeldWhileListed'
           /\ owner' = owner => DrainIsCovered' /\ CalledOnce'
<1>1. OnePlaceEach'
  BY DEF IInv, OnePlaceEach, NoDup
<1>2. SomewhereEach'
  BY DEF IInv, SomewhereEach
<1>3. HeldWhileListed'
  BY DEF IInv, HeldWhileListed
<1>4. owner' = owner => DrainIsCovered' /\ CalledOnce'
  BY DEF IInv, DrainIsCovered, CalledOnce
<1> QED
  BY <1>1, <1>2, <1>3, <1>4

\* Submit: the job was nowhere, because its closures were not held.
LEMMA SubmitStep == ASSUME IInv, NEW j \in Jobs, Submit(j) PROVE IInv'
<1> USE DEF IInv, Submit, ownerVars, InClient
<1>1. j \notin jobs /\ j \notin ToSet(waiting) /\ j \notin ToSet(ready) /\ j # current
      /\ \A w \in Workers : worker[w].job # j
  BY DEF HeldWhileListed, SomewhereEach
<1>2. /\ waiting' \in Seq(Jobs) /\ ToSet(waiting') = ToSet(waiting) \cup {j}
      /\ NoDup(waiting')
  BY <1>1, AppendSet DEF TypeOK, OnePlaceEach
<1>3. TypeOK'
  BY <1>2 DEF TypeOK
<1>4. OnePlaceEach'
  BY <1>1, <1>2 DEF OnePlaceEach, NoDup
<1>5. SomewhereEach'
  BY <1>2 DEF SomewhereEach
<1>6. HeldWhileListed'
  BY <1>1 DEF HeldWhileListed, TypeOK
<1>7. OwnerShape'
  BY DEF OwnerShape
<1>8. DrainIsCovered' /\ CalledOnce'
  BY DEF DrainIsCovered, CalledOnce
<1> QED
  BY <1>3, <1>4, <1>5, <1>6, <1>7, <1>8

\* Notifications, wakeups and cancellations move no job.
LEMMA NotifyStep == ASSUME IInv, Notify PROVE IInv'
<1>1. TypeOK'
  BY DEF IInv, Notify, WakeOne, TypeOK, queueVars, ownerVars
<1>2. OwnerShape'
  BY DEF IInv, Notify, OwnerShape, queueVars, ownerVars
<1> QED
  BY <1>1, <1>2, Unmoved DEF IInv, Notify, queueVars, ownerVars

LEMMA SpuriousStep == ASSUME IInv, NEW w \in Workers, SpuriousWake(w) PROVE IInv'
<1>1. TypeOK'
  BY DEF IInv, SpuriousWake, TypeOK, queueVars, ownerVars
<1>2. OwnerShape'
  BY DEF IInv, SpuriousWake, OwnerShape, queueVars, ownerVars
<1> QED
  BY <1>1, <1>2, Unmoved DEF IInv, SpuriousWake, queueVars, ownerVars

LEMMA CancelStep == ASSUME IInv, NEW j \in Jobs, Cancel(j) PROVE IInv'
<1>1. TypeOK'
  BY DEF IInv, Cancel, TypeOK, wakeVars, ownerVars
<1>2. OwnerShape'
  BY DEF IInv, Cancel, OwnerShape, wakeVars, ownerVars
<1> QED
  BY <1>1, <1>2, Unmoved DEF IInv, Cancel, wakeVars, ownerVars

\* Dispatch: the snapshot of ready_.size().
LEMMA DispatchBeginStep == ASSUME IInv, DispatchBegin PROVE IInv'
<1> USE DEF IInv, DispatchBegin, queueVars, wakeVars, Frame
<1>1. ready \in Seq(Jobs) /\ Len(ready) \in Nat /\ \A i \in 1..Len(ready) : ready[i] \in Jobs
  BY RangeOfJobs, ElementOfSeq DEF TypeOK
<1>2. TypeOK'
  BY <1>1 DEF TypeOK
<1>3. OnePlaceEach' /\ SomewhereEach' /\ HeldWhileListed'
  BY DEF OnePlaceEach, SomewhereEach, HeldWhileListed, NoDup
<1>4. OwnerShape'
  BY DEF OwnerShape
<1>5. DrainIsCovered' /\ CalledOnce'
  BY <1>1 DEF DrainIsCovered, CalledOnce
<1> QED
  BY <1>2, <1>3, <1>4, <1>5

\* Dispatch: the front of ready_ exists, and is taken by nobody else.
LEMMA DispatchTakeStep == ASSUME IInv, DispatchTake PROVE IInv'
<1> DEFINE j == Head(ready)
<1> USE DEF IInv, DispatchTake, wakeVars
<1>1. ready \in Seq(Jobs) /\ ready # <<>> /\ remaining \in Nat /\ remaining <= Len(ready)
  BY DEF TypeOK, DrainIsCovered
<1>2. /\ j \in Jobs /\ j \in ToSet(ready) /\ j = ready[1]
      /\ ready' \in Seq(Jobs) /\ Len(ready') = Len(ready) - 1
      /\ \A i \in 1..Len(ready') : ready'[i] = ready[i + 1]
      /\ NoDup(ready') /\ ToSet(ready') = ToSet(ready) \ {j}
  BY <1>1, TailSet DEF OnePlaceEach
<1>3. current' = j /\ j # None /\ current = None
  BY <1>2, WorkQueueAssumption DEF OwnerShape
<1>4. Len(ready) \in Nat /\ \A i \in 1..remaining : i \in DOMAIN ready /\ ready[i] \in Jobs
  BY <1>1, RangeOfJobs, ElementOfSeq
<1>5. \A k \in Jobs : called'[k] = called[k] \/ (k = j /\ called'[k] = called[k] + 1)
  BY DEF TypeOK
<1>6. called' \in [Jobs -> Nat]
  <2>1. CASE called' = called
    BY <2>1 DEF TypeOK
  <2>2. CASE called' = [called EXCEPT ![j] = called[j] + 1]
    BY <1>2, <2>2 DEF TypeOK
  <2> QED
    BY <2>1, <2>2
<1> HIDE DEF j
<1>7. TypeOK'
  BY <1>1, <1>2, <1>3, <1>4, <1>6 DEF TypeOK
<1>8. OnePlaceEach' /\ SomewhereEach'
  <2> USE WorkQueueAssumption
  <2>1. OnePlaceEach'
    BY <1>2, <1>3 DEF OnePlaceEach, NoDup
  <2>2. SomewhereEach'
    BY <1>2, <1>3 DEF SomewhereEach
  <2> QED
    BY <2>1, <2>2
<1>9. HeldWhileListed'
  BY DEF HeldWhileListed
<1>10. OwnerShape'
  BY <1>3 DEF OwnerShape
<1>11. DrainIsCovered'
  BY <1>1, <1>2, <1>4 DEF DrainIsCovered
<1>12. CalledOnce'
  <2>1. \A i \in 1..remaining : called[ready[i]] = 0
    BY DEF CalledOnce
  <2>2. called[j] = 0
    BY <1>1, <1>2, <2>1
  <2>3. \A k \in Jobs : called'[k] <= 1
    BY <1>2, <1>5, <2>2 DEF CalledOnce
  <2>4. ASSUME NEW i \in 1..remaining' PROVE called'[ready'[i]] = 0
    <3>1. i \in 1..Len(ready') /\ i + 1 \in 1..remaining /\ i + 1 # 1 /\ 1 \in 1..remaining
      BY <1>1, <1>2, <1>4, <2>4
    <3>2. ready'[i] = ready[i + 1] /\ ready[i + 1] # j /\ ready[i + 1] \in Jobs
      BY <1>2, <1>4, <3>1 DEF OnePlaceEach, NoDup
    <3> QED
      BY <1>5, <2>1, <3>1, <3>2
  <2> QED
    BY <2>3, <2>4 DEF CalledOnce
<1> QED
  BY <1>7, <1>8, <1>9, <1>10, <1>11, <1>12

\* What Dispatch holds is accounted for and is nowhere else.
LEMMA CurrentIsAlone ==
    ASSUME IInv, current # None
    PROVE  /\ current \in Jobs /\ current \in jobs
           /\ current \notin ToSet(waiting) /\ current \notin ToSet(ready)
           /\ \A w \in Workers : worker[w].job # current
BY DEF IInv, TypeOK, OnePlaceEach, SomewhereEach

\* Dispatch releases the job it holds, and holds nothing any more.
LEMMA ConsumeParts ==
    ASSUME IInv, current # None, Consume(current), current' = None, UNCHANGED <<waiting, worker>>
    PROVE  /\ jobs' \subseteq Jobs /\ error' \in [Jobs -> BOOLEAN]
           /\ closures' \in [Jobs -> {"unset", "held", "released"}]
           /\ OnePlaceEach' /\ SomewhereEach' /\ HeldWhileListed'
<1> USE DEF Consume
<1>1. jobs' \subseteq Jobs /\ error' \in [Jobs -> BOOLEAN]
      /\ closures' \in [Jobs -> {"unset", "held", "released"}]
  BY DEF IInv, TypeOK
<1>2. ToSet(waiting) \subseteq Jobs /\ ToSet(ready) \subseteq Jobs
  BY RangeOfJobs DEF IInv, TypeOK
<1>3. OnePlaceEach'
  BY <1>2, WorkQueueAssumption DEF IInv, OnePlaceEach
<1>4. SomewhereEach'
  BY CurrentIsAlone, WorkQueueAssumption DEF IInv, SomewhereEach
<1>5. HeldWhileListed'
  BY CurrentIsAlone DEF IInv, HeldWhileListed, TypeOK
<1> QED
  BY <1>1, <1>3, <1>4, <1>5

LEMMA CompletionReturnsStep ==
    ASSUME IInv, NEW consumed \in BOOLEAN, CompletionReturns(consumed) PROVE IInv'
<1> USE DEF CompletionReturns, wakeVars
<1>1. current # None /\ remaining \in Nat /\ remaining <= Len(ready) /\ ready \in Seq(Jobs)
  BY DEF IInv, OwnerShape, DrainIsCovered, TypeOK
<1>2. OwnerShape'
  BY DEF IInv, OwnerShape
<1>3. CASE consumed \/ canceled[current]
  <2>1. Consume(current)
    BY <1>3
  <2>2. TypeOK'
    BY <1>1, <2>1, ConsumeParts DEF IInv, TypeOK, Consume
  <2>3. DrainIsCovered' /\ CalledOnce'
    BY <2>1 DEF IInv, DrainIsCovered, CalledOnce, Consume
  <2> QED
    BY <1>1, <1>2, <2>1, <2>2, <2>3, ConsumeParts DEF IInv
\* The job goes behind the entries that this Dispatch has left.
<1>4. CASE ~(consumed \/ canceled[current])
  <2>1. ready' = Append(ready, current) /\ current' = None /\ current \in Jobs
        /\ UNCHANGED <<jobs, waiting, closures, error, worker, remaining, called>>
    BY <1>1, <1>4, CurrentIsAlone DEF Retain
  <2>2. /\ ready' \in Seq(Jobs) /\ Len(ready') = Len(ready) + 1 /\ NoDup(ready')
        /\ ToSet(ready') = ToSet(ready) \cup {current}
        /\ \A i \in 1..Len(ready) : ready'[i] = ready[i]
    BY <1>1, <2>1, AppendSet, CurrentIsAlone DEF IInv, OnePlaceEach
  <2>3. TypeOK'
    BY <2>1, <2>2 DEF IInv, TypeOK
  <2>4. ToSet(waiting) \subseteq Jobs
    BY RangeOfJobs DEF IInv, TypeOK
  <2>5. OnePlaceEach'
    <3>1. current \notin ToSet(waiting) /\ \A w \in Workers : worker[w].job # current
      BY <1>1, CurrentIsAlone
    <3>2. None \notin ToSet(waiting) /\ None \notin ToSet(ready')
      BY <2>2, <2>4, RangeOfJobs, WorkQueueAssumption
    <3>3. \A j \in ToSet(waiting) : j \notin ToSet(ready')
      BY <2>2, <3>1 DEF IInv, OnePlaceEach
    <3>4. \A w \in Workers : worker[w].job # None => worker[w].job \notin ToSet(ready')
      BY <2>2, <3>1 DEF IInv, OnePlaceEach
    <3> HIDE DEF CompletionReturns
    <3> QED
      BY <2>1, <2>2, <3>2, <3>3, <3>4 DEF IInv, OnePlaceEach
  <2>6. SomewhereEach' /\ HeldWhileListed'
    BY <1>1, <2>1, <2>2, WorkQueueAssumption DEF IInv, SomewhereEach, HeldWhileListed
  <2>7. DrainIsCovered' /\ CalledOnce'
    <3>1. Len(ready) \in Nat /\ \A i \in 1..remaining : i \in 1..Len(ready)
      BY <1>1, RangeOfJobs
    <3> QED
      BY <1>1, <2>1, <2>2, <3>1 DEF IInv, DrainIsCovered, CalledOnce
  <2> QED
    BY <1>2, <2>3, <2>5, <2>6, <2>7 DEF IInv
<1> QED
  BY <1>3, <1>4

\* The frame ends at once: nothing is left of the snapshot.
LEMMA CompletionThrowsStep == ASSUME IInv, CompletionThrows PROVE IInv'
<1> USE DEF CompletionThrows, wakeVars
<1>1. current # None /\ Consume(current)
  BY DEF IInv, OwnerShape
<1>2. TypeOK'
  BY <1>1, ConsumeParts DEF IInv, TypeOK, Consume
<1>3. OwnerShape'
  BY DEF IInv, OwnerShape
<1>4. DrainIsCovered' /\ CalledOnce'
  BY DEF IInv, DrainIsCovered, CalledOnce
<1> QED
  BY <1>1, <1>2, <1>3, <1>4, ConsumeParts DEF IInv

LEMMA DispatchSkipStep == ASSUME IInv, DispatchSkip PROVE IInv'
<1> USE DEF DispatchSkip, wakeVars
<1>1. current # None /\ Consume(current)
  BY DEF IInv, OwnerShape
<1>2. TypeOK'
  BY <1>1, ConsumeParts DEF IInv, TypeOK, Consume
<1>3. OwnerShape'
  BY DEF IInv, OwnerShape
<1>4. DrainIsCovered' /\ CalledOnce'
  BY <1>1 DEF IInv, DrainIsCovered, CalledOnce, Consume
<1> QED
  BY <1>1, <1>2, <1>3, <1>4, ConsumeParts DEF IInv

LEMMA DispatchEndStep == ASSUME IInv, DispatchEnd PROVE IInv'
<1>1. TypeOK'
  BY DEF IInv, DispatchEnd, TypeOK, queueVars, wakeVars
<1>2. OwnerShape' /\ DrainIsCovered' /\ CalledOnce'
  BY DEF IInv, DispatchEnd, OwnerShape, DrainIsCovered, CalledOnce, queueVars, wakeVars
<1> QED
  BY <1>1, <1>2, Unmoved DEF IInv, DispatchEnd, queueVars, wakeVars

\* The destructor: no Dispatch is running, and none ever will.
LEMMA StopBeginStep == ASSUME IInv, StopBegin PROVE IInv'
<1>1. TypeOK'
  BY DEF IInv, StopBegin, TypeOK, wakeVars
<1>2. OwnerShape' /\ DrainIsCovered' /\ CalledOnce'
  BY DEF IInv, StopBegin, OwnerShape, DrainIsCovered, CalledOnce, wakeVars
<1> QED
  BY <1>1, <1>2, Unmoved DEF IInv, StopBegin, wakeVars

LEMMA StopNotifyAllStep == ASSUME IInv, StopNotifyAll PROVE IInv'
<1>1. TypeOK'
  BY DEF IInv, StopNotifyAll, WakeAll, TypeOK, queueVars
<1>2. OwnerShape' /\ DrainIsCovered' /\ CalledOnce'
  BY DEF IInv, StopNotifyAll, OwnerShape, DrainIsCovered, CalledOnce, queueVars
<1> QED
  BY <1>1, <1>2, Unmoved DEF IInv, StopNotifyAll, queueVars

\* The workers have left with empty hands.
LEMMA StopJoinedStep == ASSUME IInv, StopJoined PROVE IInv'
<1> USE DEF StopJoined, Leftover, wakeVars, AllJoined
<1>1. current = None /\ \A w \in Workers : worker[w].at = "left" /\ worker[w].job = None
  BY WorkerFields DEF IInv, OwnerShape
<1>2. TypeOK'
  BY EmptySet DEF IInv, TypeOK
<1>3. OnePlaceEach' /\ SomewhereEach'
  BY <1>1, EmptySet, WorkQueueAssumption DEF OnePlaceEach, SomewhereEach
<1>4. HeldWhileListed'
  BY DEF IInv, HeldWhileListed, TypeOK
<1>5. OwnerShape' /\ DrainIsCovered' /\ CalledOnce'
  BY <1>1 DEF IInv, OwnerShape, DrainIsCovered, CalledOnce
<1> QED
  BY <1>2, <1>3, <1>4, <1>5 DEF IInv

-----------------------------------------------------------------------------
(* The workers.                                                            *)

\* A worker that finds work takes the oldest job, which nobody else has.
LEMMA WorkerCheckStep == ASSUME IInv, NEW w \in Workers, WorkerCheck(w) PROVE IInv'
<1> USE DEF WorkerCheck, ownerVars
<1>1. worker[w].job = None /\ worker \in [Workers -> WorkerState]
  BY WorkerFields DEF IInv, TypeOK
<1>2. CASE asleep' = asleep \cup {w} /\ UNCHANGED <<waiting, worker>>
  <2>1. TypeOK'
    BY <1>2 DEF IInv, TypeOK
  <2>2. OwnerShape'
    BY <1>2 DEF IInv, OwnerShape
  <2> QED
    BY <1>2, <2>1, <2>2, Unmoved DEF IInv
<1>3. CASE worker' = [worker EXCEPT ![w] = [at |-> "left", job |-> None]]
           /\ UNCHANGED <<waiting, asleep>>
  <2>1. [at |-> "left", job |-> None] \in WorkerState
    BY DEF WorkerState
  <2>2. worker' \in [Workers -> WorkerState] /\ \A v \in Workers : worker'[v].job = worker[v].job
    BY <1>1, <1>3, <2>1
  <2>3. TypeOK'
    BY <1>3, <2>2 DEF IInv, TypeOK
  <2>4. OwnerShape'
    BY <1>1, <1>3 DEF IInv, OwnerShape
  <2> QED
    BY <1>3, <2>2, <2>3, <2>4, Unmoved DEF IInv
<1>4. CASE /\ waiting # <<>>
           /\ worker' = [worker EXCEPT ![w] = [at |-> "taken", job |-> Head(waiting)]]
           /\ waiting' = Tail(waiting)
           /\ UNCHANGED asleep
  <2> DEFINE j == Head(waiting)
  <2>1. /\ j \in Jobs /\ j \in ToSet(waiting) /\ waiting' \in Seq(Jobs)
        /\ NoDup(waiting') /\ ToSet(waiting') = ToSet(waiting) \ {j}
    BY <1>4, TailSet DEF IInv, TypeOK, OnePlaceEach
  <2>2. [at |-> "taken", job |-> j] \in WorkerState
    BY <2>1 DEF WorkerState
  <2>3. /\ worker' \in [Workers -> WorkerState]
        /\ worker'[w].job = j /\ worker'[w].at = "taken"
        /\ \A v \in Workers : v # w => worker'[v] = worker[v]
    BY <1>1, <1>4, <2>2
  <2> HIDE DEF j
  <2>4. TypeOK'
    BY <1>4, <2>1, <2>3 DEF IInv, TypeOK
  <2>5. j \notin ToSet(ready) /\ j # current /\ \A v \in Workers : worker[v].job # j
    BY <2>1, WorkQueueAssumption DEF IInv, OnePlaceEach
  <2>6. OnePlaceEach'
    BY <1>1, <2>1, <2>3, <2>5 DEF IInv, OnePlaceEach
  <2>7. SomewhereEach'
    BY <1>1, <2>1, <2>3, WorkQueueAssumption DEF IInv, SomewhereEach
  <2>8. HeldWhileListed' /\ DrainIsCovered' /\ CalledOnce'
    BY DEF IInv, HeldWhileListed, DrainIsCovered, CalledOnce
  <2>9. OwnerShape'
    BY <1>4, <2>3 DEF IInv, OwnerShape
  <2> QED
    BY <2>4, <2>6, <2>7, <2>8, <2>9 DEF IInv
<1> QED
  BY <1>2, <1>3, <1>4

\* Starting and ending the work moves no job.
LEMMA WorkerStartStep == ASSUME IInv, NEW w \in Workers, WorkerStart(w) PROVE IInv'
<1> USE DEF WorkerStart, queueVars, wakeVars, ownerVars
<1>1. worker[w] \in WorkerState /\ worker[w].job \in Jobs /\ worker \in [Workers -> WorkerState]
  BY WorkerFields DEF IInv, TypeOK
<1>2. PICK a \in {"push", "working"} : worker' = [worker EXCEPT ![w].at = a]
  OBVIOUS
<1>3. /\ worker' \in [Workers -> WorkerState]
      /\ \A v \in Workers : worker'[v].job = worker[v].job
      /\ \A v \in Workers : worker[v].at = "left" => worker'[v].at = "left"
  BY <1>1, <1>2 DEF WorkerState
<1>4. TypeOK'
  BY <1>1, <1>3 DEF IInv, TypeOK
<1>5. OwnerShape'
  BY <1>3 DEF IInv, OwnerShape
<1> QED
  BY <1>3, <1>4, <1>5, Unmoved DEF IInv

LEMMA WorkerFinishStep == ASSUME IInv, NEW w \in Workers, WorkerFinish(w) PROVE IInv'
<1> USE DEF WorkerFinish, wakeVars, ownerVars
<1>1. worker[w] \in WorkerState /\ worker[w].job \in Jobs /\ worker \in [Workers -> WorkerState]
  BY WorkerFields DEF IInv, TypeOK
<1>2. /\ worker' \in [Workers -> WorkerState]
      /\ \A v \in Workers : worker'[v].job = worker[v].job
      /\ \A v \in Workers : worker[v].at = "left" => worker'[v].at = "left"
  BY <1>1 DEF WorkerState
<1>3. TypeOK'
  BY <1>1, <1>2 DEF IInv, TypeOK
<1>4. OwnerShape'
  BY <1>2 DEF IInv, OwnerShape
<1> QED
  BY <1>2, <1>3, <1>4, Unmoved DEF IInv

\* The job goes to the back of ready_, behind the entries a running Dispatch has left.
LEMMA WorkerPushStep == ASSUME IInv, NEW w \in Workers, WorkerPush(w) PROVE IInv'
<1> DEFINE j == worker[w].job
<1> USE DEF WorkerPush, wakeVars, ownerVars
<1>1. worker \in [Workers -> WorkerState] /\ j \in Jobs /\ j # None /\ ready \in Seq(Jobs)
  BY WorkerFields, WorkQueueAssumption DEF IInv, TypeOK
<1>2. j \notin ToSet(waiting) /\ j \notin ToSet(ready) /\ j # current
      /\ \A v \in Workers : v # w => worker[v].job # j
  BY <1>1 DEF IInv, OnePlaceEach
<1>3. /\ ready' \in Seq(Jobs) /\ Len(ready') = Len(ready) + 1 /\ NoDup(ready')
      /\ ToSet(ready') = ToSet(ready) \cup {j}
      /\ \A i \in 1..Len(ready) : ready'[i] = ready[i]
  BY <1>1, <1>2, AppendSet DEF IInv, OnePlaceEach
<1>4. /\ worker' \in [Workers -> WorkerState]
      /\ worker'[w].job = None
      /\ \A v \in Workers : v # w => worker'[v] = worker[v]
      /\ owner # "destroyed"
  BY <1>1 DEF IInv, OwnerShape, EmptyHanded, WorkerState
<1> HIDE DEF j
<1>5. TypeOK'
  BY <1>3, <1>4 DEF IInv, TypeOK
<1>6. OnePlaceEach'
  BY <1>2, <1>3, <1>4 DEF IInv, OnePlaceEach
<1>7. SomewhereEach'
  <2>1. ASSUME NEW k \in Jobs
        PROVE  (\E v \in Workers : worker[v].job = k)
                   <=> k = j \/ \E v \in Workers : worker'[v].job = k
    BY <1>1, <1>4, WorkQueueAssumption DEF j
  <2> QED
    BY <1>3, <2>1 DEF IInv, SomewhereEach
<1>8. HeldWhileListed'
  BY DEF IInv, HeldWhileListed
<1>9. OwnerShape'
  BY <1>4 DEF IInv, OwnerShape
<1>10. DrainIsCovered' /\ CalledOnce'
  <2>1. /\ remaining \in Nat /\ Len(ready) \in Nat
    BY RangeOfJobs DEF IInv, TypeOK
  <2>2. remaining <= Len(ready) => \A i \in 1..remaining : i \in 1..Len(ready)
    BY <2>1
  <2> QED
    BY <1>3, <2>1, <2>2 DEF IInv, DrainIsCovered, CalledOnce
<1> QED
  BY <1>5, <1>6, <1>7, <1>8, <1>9, <1>10 DEF IInv

-----------------------------------------------------------------------------
(* The theorems.                                                           *)

LEMMA NextIInv == IInv /\ [Next]_vars => IInv'
<1> SUFFICES ASSUME IInv, [Next]_vars PROVE IInv'
  OBVIOUS
<1>1. CASE UNCHANGED vars
  <2>1. TypeOK' /\ OwnerShape'
    BY <1>1 DEF IInv, TypeOK, OwnerShape, vars, queueVars, wakeVars, ownerVars
  <2> QED
    BY <1>1, <2>1, Unmoved DEF IInv, vars, queueVars, wakeVars, ownerVars
<1>2. ASSUME NEW j \in Jobs, Submit(j) \/ Cancel(j) PROVE IInv'
  BY <1>2, SubmitStep, CancelStep
<1>3. ASSUME NEW consumed \in BOOLEAN, CompletionReturns(consumed) PROVE IInv'
  BY <1>3, CompletionReturnsStep
<1>4. CASE CompletionThrows
  BY <1>4, CompletionThrowsStep
<1>5. CASE DispatchBegin
  BY <1>5, DispatchBeginStep
<1>6. CASE StopBegin
  BY <1>6, StopBeginStep
<1>7. CASE Notify
  BY <1>7, NotifyStep
<1>8. CASE DispatchTake
  BY <1>8, DispatchTakeStep
<1>9. CASE DispatchSkip
  BY <1>9, DispatchSkipStep
<1>10. CASE DispatchEnd
  BY <1>10, DispatchEndStep
<1>11. CASE StopNotifyAll
  BY <1>11, StopNotifyAllStep
<1>12. CASE StopJoined
  BY <1>12, StopJoinedStep
<1>13. ASSUME NEW w \in Workers, WorkerStep(w) PROVE IInv'
  BY <1>13, WorkerCheckStep, WorkerStartStep, WorkerFinishStep, WorkerPushStep DEF WorkerStep
<1>14. ASSUME NEW w \in Workers, SpuriousWake(w) PROVE IInv'
  BY <1>14, SpuriousStep
<1> QED
  BY <1>1, <1>2, <1>3, <1>4, <1>5, <1>6, <1>7, <1>8, <1>9, <1>10, <1>11, <1>12, <1>13, <1>14
     DEF Next, QueueStep

THEOREM Invariant == Spec => []IInv
BY InitIInv, NextIInv, PTL DEF Spec

\* Dispatch and Run only ever use what is there: the queue's variables, and the control
\* points and hands of every thread, keep their types.
THEOREM TypeCorrect == Spec => []TypeOK
<1>1. IInv => TypeOK
  BY DEF IInv
<1> QED
  BY <1>1, Invariant, PTL

\* Between any two critical sections of mutex_ every accepted job is in exactly one deque
\* or in the hands of exactly one thread, however many workers there are.
THEOREM OnePlace == Spec => []EachJobInOnePlace
<1>1. ASSUME IInv PROVE PlacesAreDisjoint
  <2>1. \A w, v \in Workers : w # v => Held(w) \cap Held(v) = {}
    BY <1>1 DEF IInv, OnePlaceEach, Held
  <2>2. \A w \in Workers : Held(w) \cap (ToSet(waiting) \cup ToSet(ready) \cup {current}) = {}
    BY <1>1 DEF IInv, OnePlaceEach, Held
  <2> QED
    BY <1>1, <2>1, <2>2 DEF IInv, OnePlaceEach, NoDup, PlacesAreDisjoint
<1>2. ASSUME IInv PROVE NoJobLost
  <2> DEFINE places == ToSet(waiting) \cup ToSet(ready) \cup InHand \cup ({current} \ {None})
  <2>1. ASSUME NEW x
        PROVE  x \in places <=> \/ x \in ToSet(waiting) \cup ToSet(ready)
                                \/ \E w \in Workers : x = worker[w].job /\ x # None
                                \/ x = current /\ x # None
    <3>1. x \in InHand <=> \E w \in Workers : x \in Held(w)
      BY DEF InHand
    <3>2. \A w \in Workers : x \in Held(w) <=> x = worker[w].job /\ x # None
      BY DEF Held
    <3>3. x \in {current} \ {None} <=> x = current /\ x # None
      OBVIOUS
    <3> QED
      BY <3>1, <3>2, <3>3
  <2> HIDE DEF places
  <2>2. ToSet(waiting) \subseteq Jobs /\ ToSet(ready) \subseteq Jobs
    BY <1>2, RangeOfJobs DEF IInv, TypeOK
  <2>3. current \in Jobs \cup {None} /\ \A w \in Workers : worker[w].job \in Jobs \cup {None}
    BY <1>2, WorkerFields DEF IInv, TypeOK
  <2>4. \A x \in places : x \in Jobs
    BY <2>1, <2>2, <2>3
  <2>5. \A x \in Jobs : x \in jobs <=> x \in places
    BY <1>2, <2>1, WorkQueueAssumption DEF IInv, SomewhereEach
  <2>6. jobs = places
    BY <1>2, <2>4, <2>5 DEF IInv, TypeOK
  <2> QED
    BY <2>6 DEF NoJobLost, places
<1>3. IInv => EachJobInOnePlace
  BY <1>1, <1>2 DEF EachJobInOnePlace, IInv
<1> QED
  BY <1>3, Invariant, PTL

\* No closure is destroyed under a worker that may run it, and the destructor forgets
\* none (Dispatch, Stop).
THEOREM Closures == Spec => []ClosuresAccounted
<1>1. ASSUME IInv PROVE NoReleaseUnderWorker
  BY <1>1, WorkerFields DEF IInv, SomewhereEach, HeldWhileListed, NoReleaseUnderWorker, Held
<1>2. ASSUME IInv PROVE DestroyedIsClean
  BY <1>2 DEF IInv, OwnerShape, HeldWhileListed, DestroyedIsClean
<1>3. IInv => ClosuresAccounted
  BY <1>1, <1>2 DEF ClosuresAccounted
<1> QED
  BY <1>3, Invariant, PTL

-----------------------------------------------------------------------------
(* The reservation of ready_.                                              *)

\* The bound on the jobs that Submit enforces.
Bounded == IsFiniteSet(jobs) /\ Cardinality(jobs) <= Capacity

LEMMA BoundedStep == IInv /\ Bounded /\ [Next]_vars => Bounded'
<1> SUFFICES ASSUME IInv, Bounded, [Next]_vars PROVE Bounded'
  OBVIOUS
<1>1. Capacity \in Nat /\ Cardinality(jobs) \in Nat
  BY WorkQueueAssumption, FS_CardinalityType DEF Bounded
<1>2. ASSUME jobs' \subseteq jobs PROVE Bounded'
  <2>1. IsFiniteSet(jobs') /\ Cardinality(jobs') <= Cardinality(jobs)
    BY <1>2, FS_Subset DEF Bounded
  <2>2. Cardinality(jobs') \in Nat
    BY <2>1, FS_CardinalityType
  <2> QED
    BY <1>1, <2>1, <2>2 DEF Bounded
<1>3. ASSUME NEW j \in Jobs, Submit(j) PROVE Bounded'
  <2>1. jobs' = jobs \cup {j} /\ ~(Cardinality(jobs) >= Capacity)
    BY <1>3 DEF Submit, NoFreeSlot
  <2>2. IsFiniteSet(jobs \cup {j}) /\ Cardinality(jobs \cup {j}) <= Cardinality(jobs) + 1
    BY <1>1, FS_AddElement DEF Bounded
  <2>3. Cardinality(jobs \cup {j}) \in Nat
    BY <2>2, FS_CardinalityType
  <2> QED
    BY <1>1, <2>1, <2>2, <2>3 DEF Bounded
<1>4. (\E j \in Jobs : Submit(j)) \/ jobs' \subseteq jobs
  BY DEF Next, Cancel, CompletionReturns, CompletionThrows, Consume, Retain, DispatchBegin,
         StopBegin, QueueStep, Notify, DispatchTake, DispatchSkip, DispatchEnd, StopNotifyAll,
         StopJoined, WorkerStep, WorkerCheck, WorkerStart, WorkerFinish, WorkerPush,
         SpuriousWake, vars, queueVars, wakeVars, ownerVars
<1> QED
  BY <1>2, <1>3, <1>4

\* A sequence without duplicates is no longer than a finite set it is drawn from.
LEMMA NoDupFits ==
    ASSUME NEW S, IsFiniteSet(S), NEW s \in Seq(S), NoDup(s)
    PROVE  Len(s) <= Cardinality(S)
<1>1. Len(s) \in Nat /\ DOMAIN s = 1..Len(s) /\ s \in [1..Len(s) -> S]
  BY SeqDef, LenProperties
<1>2. s \in Injection(1..Len(s), S)
  BY <1>1 DEF NoDup, Injection, IsInjective
<1>3. Cardinality(1..Len(s)) <= Cardinality(S)
  BY <1>2, FS_Injection
<1>4. Cardinality(1..Len(s)) = Len(s)
  BY <1>1, FS_Interval
<1> QED
  BY <1>3, <1>4

\* ready_ never outgrows what the constructor reserved for it, so the push_back of Run,
\* which is noexcept, never allocates; a Dispatch never takes the front of an empty
\* ready_, and calls no completion twice.
THEOREM Ready == Spec => []ReadyIsSound
<1>1. Init => Bounded
  BY WorkQueueAssumption, FS_EmptySet DEF Init, Bounded
<1>2. Spec => []Bounded
  BY <1>1, BoundedStep, Invariant, PTL DEF Spec
<1>3. ASSUME IInv, Bounded PROVE ReadyFitsReservation
  <2>1. ready \in Seq(Jobs) /\ NoDup(ready) /\ jobs \subseteq Jobs
    BY <1>3 DEF IInv, TypeOK, OnePlaceEach
  <2>2. Len(ready) \in Nat /\ \A i \in 1..Len(ready) : ready[i] \in Jobs /\ ready[i] \in ToSet(ready)
    BY <2>1, LenProperties, ElementOfSeq DEF ToSet
  <2>3. \A i \in 1..Len(ready) : ready[i] \in jobs
    BY <1>3, <2>2 DEF IInv, SomewhereEach
  <2>4. ready \in Seq(jobs)
    BY <2>1, <2>2, <2>3, LenProperties, SeqDef
  <2>5. Len(ready) <= Cardinality(jobs) /\ Cardinality(jobs) \in Nat
    BY <1>3, <2>1, <2>4, NoDupFits, FS_CardinalityType DEF Bounded
  <2>6. Capacity \in Nat
    BY WorkQueueAssumption
  <2> QED
    BY <1>3, <2>2, <2>5, <2>6 DEF ReadyFitsReservation, Bounded
<1>4. IInv => DrainIsCovered /\ OncePerDispatch
  BY DEF IInv, CalledOnce, OncePerDispatch
<1>5. IInv /\ Bounded => ReadyIsSound
  BY <1>3, <1>4 DEF ReadyIsSound
<1> QED
  BY <1>2, <1>5, Invariant, PTL

-----------------------------------------------------------------------------
(* WorkQueue, with its threads, deques and locks, implements JobContract:  *)
(* the inductive invariant of the refinement.                              *)

\* How far the work of a job has come, by where the job is; and that the owner's control
\* point tells whether the destructor has begun.
WorkedFirst ==
    /\ \A j \in Jobs : closures[j] = "unset" => j \notin started
    /\ \A j \in ToSet(waiting) : j \notin started
    /\ \A w \in Workers :
          /\ worker[w].at = "taken" => worker[w].job \notin started
          /\ worker[w].at = "working" => worker[w].job \in started
          /\ worker[w].at = "push" => worker[w].job \in started \/ canceled[worker[w].job]
    /\ \A j \in ToSet(ready) : j \in started \/ canceled[j]
    /\ current # None => current \in started \/ canceled[current]
    /\ owner = "settle" => canceled[current]
    /\ stopping <=> owner \in {"notifyAll", "join", "destroyed"}

CInv == IInv /\ Bounded /\ WorkedFirst

\* A new queue has given nobody a job.
LEMMA InitWorked == Init => WorkedFirst
BY EmptySet DEF Init, WorkedFirst

\* Steps that give no job to anybody, and take no cancellation back.
LEMMA Quiet ==
    ASSUME CInv, TypeOK', UNCHANGED <<waiting, ready, started, worker>>,
           current' = current \/ current' = None,
           \A j \in Jobs : /\ canceled[j] => canceled'[j]
                           /\ closures'[j] = "unset" => closures[j] = "unset",
           owner' # "settle",
           stopping' <=> owner' \in {"notifyAll", "join", "destroyed"}
    PROVE  WorkedFirst'
<1>1. /\ ToSet(ready) \subseteq Jobs
      /\ \A w \in Workers : worker[w].at = "push" => worker[w].job \in Jobs
      /\ current \in Jobs \cup {None}
  BY RangeOfJobs, WorkerFields DEF CInv, IInv, TypeOK
<1> QED
  BY <1>1, WorkQueueAssumption DEF CInv, WorkedFirst

\* A job that is submitted was never worked on.
LEMMA SubmitWorked == ASSUME CInv, NEW j \in Jobs, Submit(j) PROVE WorkedFirst'
<1> USE DEF Submit, ownerVars
<1>1. ToSet(waiting') = ToSet(waiting) \cup {j}
  BY AppendSet DEF CInv, IInv, TypeOK
<1>2. j \notin started
  BY DEF CInv, WorkedFirst
<1>3. \A k \in Jobs : closures'[k] = "unset" => closures[k] = "unset"
  BY DEF CInv, IInv, TypeOK
<1> QED
  BY <1>1, <1>2, <1>3 DEF CInv, WorkedFirst

\* What Dispatch takes was worked on, or withdrawn before.
LEMMA TakeWorked == ASSUME CInv, DispatchTake PROVE WorkedFirst'
<1> USE DEF DispatchTake, wakeVars
<1>1. /\ ready \in Seq(Jobs) /\ remaining \in Nat /\ remaining <= Len(ready) /\ remaining > 0
      /\ NoDup(ready)
  BY DEF CInv, IInv, TypeOK, DrainIsCovered, OnePlaceEach
<1>2. ready # <<>>
  BY <1>1, EmptySet
<1>3. Head(ready) \in ToSet(ready) /\ ToSet(ready') \subseteq ToSet(ready)
  BY <1>1, <1>2, TailSet
<1> QED
  BY <1>3 DEF CInv, WorkedFirst

\* The end of a completion, or of a job that was found cancelled.
LEMMA ConsumeWorked ==
    ASSUME CInv, TypeOK', Consume(current), current # None, current' = None,
           owner' \in {"client", "drain"}, owner \in {"completion", "settle"},
           UNCHANGED <<waiting, canceled, stopping, worker, started>>
    PROVE  WorkedFirst'
<1>1. \A j \in Jobs : closures'[j] = "unset" => closures[j] = "unset"
  BY DEF Consume, CInv, IInv, TypeOK
<1>2. ~stopping
  BY DEF CInv, WorkedFirst
<1> QED
  BY <1>1, <1>2, Quiet DEF Consume

\* A completion that asks to be called again goes back to ready_, worked on as it is.
LEMMA RetainWorked ==
    ASSUME CInv, Retain(current), current # None, current' = None,
           owner' = "drain", owner = "completion",
           UNCHANGED <<waiting, canceled, stopping, worker, started, closures>>
    PROVE  WorkedFirst'
<1>1. ToSet(ready') = ToSet(ready) \cup {current}
  BY AppendSet DEF CInv, IInv, TypeOK, Retain
<1> QED
  BY <1>1 DEF CInv, WorkedFirst

\* After the destructor no deque holds a job.
LEMMA JoinedWorked == ASSUME CInv, StopJoined PROVE WorkedFirst'
<1> USE DEF StopJoined, wakeVars, AllJoined
<1>1. ToSet(waiting') = {} /\ ToSet(ready') = {}
  BY EmptySet
<1>2. \A j \in Jobs : closures'[j] = "unset" => closures[j] = "unset"
  BY DEF CInv, IInv, TypeOK
<1>3. current' = None
  BY DEF CInv, IInv, OwnerShape
<1> QED
  BY <1>1, <1>2, <1>3 DEF CInv, WorkedFirst

\* A worker takes the front of waiting_, which nobody has worked on.
LEMMA CheckWorked == ASSUME CInv, NEW w \in Workers, WorkerCheck(w) PROVE WorkedFirst'
<1> USE DEF WorkerCheck, ownerVars
<1>1. worker \in [Workers -> WorkerState] /\ waiting \in Seq(Jobs) /\ NoDup(waiting)
  BY DEF CInv, IInv, TypeOK, OnePlaceEach
<1>2. CASE UNCHANGED <<waiting, worker>>
  BY <1>2 DEF CInv, WorkedFirst
<1>3. CASE worker' = [worker EXCEPT ![w] = [at |-> "left", job |-> None]] /\ UNCHANGED waiting
  BY <1>1, <1>3 DEF CInv, WorkedFirst
<1>4. CASE /\ waiting # <<>> /\ waiting' = Tail(waiting)
           /\ worker' = [worker EXCEPT ![w] = [at |-> "taken", job |-> Head(waiting)]]
  <2>1. Head(waiting) \in ToSet(waiting) /\ ToSet(waiting') \subseteq ToSet(waiting)
    BY <1>1, <1>4, TailSet
  <2>2. Head(waiting) \notin started
    BY <2>1 DEF CInv, WorkedFirst
  <2>3. /\ worker'[w] = [at |-> "taken", job |-> Head(waiting)]
        /\ \A v \in Workers : v # w => worker'[v] = worker[v]
    BY <1>1, <1>4
  <2> QED
    BY <2>1, <2>2, <2>3 DEF CInv, WorkedFirst
<1> QED
  BY <1>2, <1>3, <1>4

\* The worker calls the work, or skips it because the job is withdrawn.
LEMMA StartWorked == ASSUME CInv, NEW w \in Workers, WorkerStart(w) PROVE WorkedFirst'
<1> USE DEF WorkerStart, queueVars, wakeVars, ownerVars
<1> DEFINE j == worker[w].job
<1>1. worker \in [Workers -> WorkerState] /\ worker[w] \in WorkerState /\ j \in Jobs /\ j # None
  BY WorkerFields, WorkQueueAssumption DEF CInv, IInv, TypeOK
<1>2. j \notin ToSet(waiting) /\ closures[j] # "unset"
      /\ \A v \in Workers : v # w => worker[v].job # j
  BY <1>1 DEF CInv, IInv, OnePlaceEach, SomewhereEach, HeldWhileListed
<1>3. PICK a \in {"push", "working"} :
          /\ worker' = [worker EXCEPT ![w].at = a]
          /\ IF a = "working" THEN started' = started \cup {j} ELSE UNCHANGED started /\ canceled[j]
  BY DEF Skips
<1>4. /\ worker'[w].job = j /\ worker'[w].at = a
      /\ \A v \in Workers : v # w => worker'[v] = worker[v]
  BY <1>1, <1>3 DEF WorkerState
<1> HIDE DEF j
<1>5. \A v \in Workers : v # w => worker[v].job # j
  BY <1>2
<1> QED
  BY <1>2, <1>3, <1>4, <1>5 DEF CInv, WorkedFirst

\* The work of the job in the worker's hands was begun.
LEMMA FinishWorked == ASSUME CInv, NEW w \in Workers, WorkerFinish(w) PROVE WorkedFirst'
<1> USE DEF WorkerFinish, wakeVars, ownerVars
<1>1. worker \in [Workers -> WorkerState] /\ worker[w] \in WorkerState
  BY DEF CInv, IInv, TypeOK
<1>2. /\ worker'[w].job = worker[w].job /\ worker'[w].at = "push"
      /\ \A v \in Workers : v # w => worker'[v] = worker[v]
  BY <1>1 DEF WorkerState
<1> QED
  BY <1>2 DEF CInv, WorkedFirst

\* The worker appends its job to ready_.
LEMMA PushWorked == ASSUME CInv, NEW w \in Workers, WorkerPush(w) PROVE WorkedFirst'
<1> USE DEF WorkerPush, wakeVars, ownerVars, EmptyHanded
<1>1. worker \in [Workers -> WorkerState] /\ worker[w].job \in Jobs
  BY WorkerFields DEF CInv, IInv, TypeOK
<1>2. ToSet(ready') = ToSet(ready) \cup {worker[w].job}
  BY <1>1, AppendSet DEF CInv, IInv, TypeOK
<1>3. /\ worker'[w].at = "check" /\ \A v \in Workers : v # w => worker'[v] = worker[v]
  BY <1>1
<1> QED
  BY <1>2, <1>3 DEF CInv, WorkedFirst

\* One step per action of the queue.
LEMMA NextWorked == ASSUME CInv, [Next]_vars PROVE WorkedFirst'
<1>1. TypeOK'
  BY NextIInv DEF CInv, IInv
<1>2. CASE UNCHANGED vars
  BY <1>2 DEF CInv, WorkedFirst, vars, queueVars, wakeVars, ownerVars
<1>3. ASSUME NEW j \in Jobs, Submit(j) PROVE WorkedFirst'
  BY <1>3, SubmitWorked
<1>4. ASSUME NEW j \in Jobs, Cancel(j) PROVE WorkedFirst'
  <2>1. /\ \A k \in Jobs : canceled[k] => canceled'[k]
        /\ UNCHANGED <<waiting, ready, started, worker, current, closures, owner, stopping>>
    BY <1>4 DEF Cancel, wakeVars, ownerVars, CInv, IInv, TypeOK
  <2>2. owner # "settle"
    BY <1>4 DEF Cancel, InClient
  <2> QED
    BY <1>1, <2>1, <2>2, Quiet DEF CInv, WorkedFirst
<1>5. ASSUME NEW consumed \in BOOLEAN, CompletionReturns(consumed) PROVE WorkedFirst'
  <2>1. current # None /\ owner = "completion"
    BY <1>5 DEF CompletionReturns, CInv, IInv, OwnerShape
  <2> QED
    BY <1>1, <1>5, <2>1, ConsumeWorked, RetainWorked DEF CompletionReturns
<1>6. CASE CompletionThrows \/ DispatchSkip
  <2>1. current # None
    BY <1>6 DEF CompletionThrows, DispatchSkip, CInv, IInv, OwnerShape
  <2> QED
    BY <1>1, <1>6, <2>1, ConsumeWorked DEF CompletionThrows, DispatchSkip
<1>7. CASE DispatchBegin \/ DispatchEnd \/ Notify \/ StopNotifyAll
  <2>1. /\ UNCHANGED <<waiting, ready, started, worker, current, closures, canceled, stopping>>
        /\ owner' \in {"client", "drain", "join"} \/ owner' = owner
        /\ owner' # owner => \/ owner = "notifyAll" /\ owner' = "join"
                             \/ owner \in {"client", "drain"} /\ owner' \in {"client", "drain"}
    BY <1>7 DEF DispatchBegin, DispatchEnd, Notify, StopNotifyAll, queueVars, wakeVars, ownerVars
  <2>2. owner' # "settle"
    BY <1>7 DEF DispatchBegin, DispatchEnd, Notify, StopNotifyAll, ownerVars, CInv, IInv, OwnerShape
  <2> QED
    BY <1>1, <2>1, <2>2, Quiet DEF CInv, WorkedFirst
<1>8. CASE StopBegin
  <2>1. \A k \in Jobs : canceled[k] => canceled'[k]
    BY <1>8 DEF StopBegin
  <2> QED
    BY <1>1, <1>8, <2>1, Quiet DEF StopBegin, wakeVars
<1>9. CASE DispatchTake
  BY <1>9, TakeWorked
<1>10. CASE StopJoined
  BY <1>10, JoinedWorked
<1>11. ASSUME NEW w \in Workers, WorkerStep(w) PROVE WorkedFirst'
  BY <1>11, CheckWorked, StartWorked, FinishWorked, PushWorked DEF WorkerStep
<1>12. ASSUME NEW w \in Workers, SpuriousWake(w) PROVE WorkedFirst'
  BY <1>12 DEF SpuriousWake, queueVars, ownerVars, CInv, WorkedFirst
<1> QED
  BY <1>2, <1>3, <1>4, <1>5, <1>6, <1>7, <1>8, <1>9, <1>10, <1>11, <1>12 DEF Next, QueueStep

\* The three parts together.
LEMMA NextCInv == CInv /\ [Next]_vars => CInv'
BY NextIInv, BoundedStep, NextWorked DEF CInv

-----------------------------------------------------------------------------
(* The mapping.                                                            *)

\* The arms of Phase exclude one another: a job that is listed has its closures.
LEMMA PhaseValue ==
    ASSUME IInv, NEW j \in Jobs
    PROVE  Phase(j) = IF closures[j] = "unset" THEN "free"
                      ELSE IF owner = "completion" /\ current = j THEN "calling"
                      ELSE IF j \in jobs THEN "pending" ELSE "done"
BY DEF IInv, HeldWhileListed, SomewhereEach, Phase

\* The same, of the next state.
LEMMA PhaseValueNext ==
    ASSUME IInv', NEW j \in Jobs
    PROVE  Phase(j)' = IF closures'[j] = "unset" THEN "free"
                       ELSE IF owner' = "completion" /\ current' = j THEN "calling"
                       ELSE IF j \in jobs' THEN "pending" ELSE "done"
BY DEF IInv, HeldWhileListed, SomewhereEach, Phase

\* A worker runs the job's work.
Working(j) == \E w \in Workers : worker[w] = [at |-> "working", job |-> j]

\* The work runs, or has ended once it was started.
LEMMA WorkValue ==
    ASSUME CInv, CInv', NEW j \in Jobs
    PROVE  /\ WorkOf(j) = IF Working(j) THEN "running" ELSE IF j \in started THEN "ended" ELSE "no"
           /\ WorkOf(j)' = IF Working(j)' THEN "running" ELSE IF j \in started' THEN "ended" ELSE "no"
           /\ Working(j) => j \in started
BY DEF CInv, WorkedFirst, WorkOf, Working

\* The jobs that the contract calls live are those in jobs_.
LEMMA LiveJobs == ASSUME IInv PROVE Contract!Live = jobs
<1>1. \A j \in Jobs : [k \in Jobs |-> Phase(k)][j] \in {"pending", "calling"} <=> j \in jobs
  BY PhaseValue DEF IInv, HeldWhileListed, SomewhereEach
<1>2. jobs \subseteq Jobs
  BY DEF IInv, TypeOK
<1> QED
  BY <1>1, <1>2 DEF Contract!Live

\* JobContract's copy of Cardinality is the library's.
LEMMA SameCount == \A S : Contract!Cardinality(S) = Cardinality(S)
BY DEF Contract!Cardinality, Cardinality

\* A step that the contract does not see.
LEMMA Stutter ==
    ASSUME \A j \in Jobs : Phase(j)' = Phase(j) /\ WorkOf(j)' = WorkOf(j),
           UNCHANGED <<canceled, stopping>>
    PROVE  UNCHANGED Contract!vars
BY DEF Contract!vars

\* Steps that touch nothing the mapping looks at, but for whom the owner calls.
LEMMA Unseen ==
    ASSUME CInv, CInv', UNCHANGED <<jobs, closures, canceled, stopping, started>>,
           \A j \in Jobs : /\ Working(j)' <=> Working(j)
                           /\ owner' = "completion" /\ current' = j
                                 <=> owner = "completion" /\ current = j
    PROVE  UNCHANGED Contract!vars
<1>1. \A j \in Jobs : Phase(j)' = Phase(j)
  BY PhaseValue, PhaseValueNext DEF CInv
<1>2. \A j \in Jobs : WorkOf(j)' = WorkOf(j)
  BY WorkValue
<1> QED
  BY <1>1, <1>2, Stutter

\* A job in the hands of a worker is listed, and nobody else has it.
LEMMA HandIsAlone ==
    ASSUME CInv, NEW w \in Workers, worker[w].at \in {"taken", "working", "push"}
    PROVE  /\ worker[w].job \in Jobs /\ worker[w].job # current /\ worker[w].job \in jobs
           /\ closures[worker[w].job] = "held"
           /\ \A v \in Workers : v # w => worker[v].job # worker[w].job
<1>1. worker[w].job \in Jobs /\ worker[w].job # None
  BY WorkerFields, WorkQueueAssumption DEF CInv, IInv
<1> QED
  BY <1>1 DEF CInv, IInv, OnePlaceEach, SomewhereEach, HeldWhileListed

\* Submit is the contract's Accept: a free slot means fewer live jobs than Capacity.
LEMMA SubmitAccepts == ASSUME CInv, CInv', NEW j \in Jobs, Submit(j) PROVE Contract!Accept(j)
<1> USE DEF Submit, ownerVars
<1>1. /\ j \notin jobs /\ current # j /\ Phase(j) = "free"
      /\ closures' = [closures EXCEPT ![j] = "held"] /\ closures \in [Jobs -> {"unset", "held", "released"}]
  BY PhaseValue DEF CInv, IInv, HeldWhileListed, SomewhereEach, TypeOK
<1>2. \A k \in Jobs : Phase(k)' = IF k = j THEN "pending" ELSE Phase(k)
  BY <1>1, PhaseValue, PhaseValueNext DEF CInv
<1>3. \A k \in Jobs : WorkOf(k)' = WorkOf(k)
  BY WorkValue DEF Working
<1>4. Cardinality(jobs) < Capacity
  BY WorkQueueAssumption, FS_CardinalityType DEF NoFreeSlot, CInv, Bounded
<1>5. Contract!Cardinality(Contract!Live) < Capacity
  BY <1>4, LiveJobs, SameCount DEF CInv
<1> QED
  BY <1>1, <1>2, <1>3, <1>5 DEF Contract!Accept

\* Cancel is Withdraw.
LEMMA CancelWithdraws == ASSUME CInv, CInv', NEW j \in Jobs, Cancel(j) PROVE Contract!Withdraw(j)
<1> USE DEF Cancel, wakeVars, ownerVars
<1>1. \A k \in Jobs : Phase(k)' = Phase(k) /\ WorkOf(k)' = WorkOf(k)
  BY PhaseValue, PhaseValueNext, WorkValue DEF CInv, Working
<1>2. Phase(j) # "free"
  BY PhaseValue DEF CInv
<1>3. \A k \in Jobs : canceled'[k] <=> canceled[k] \/ k = j
  BY DEF CInv, IInv, TypeOK
<1> QED
  BY <1>1, <1>2, <1>3 DEF Contract!Withdraw

\* Taking a job that is not withdrawn is Call; taking another is not seen.
LEMMA TakeCalls ==
    ASSUME CInv, CInv', DispatchTake
    PROVE  (Contract!Call(Head(ready)) /\ Head(ready) \in Jobs) \/ UNCHANGED Contract!vars
<1> USE DEF DispatchTake, wakeVars
<1> DEFINE j == Head(ready)
<1>1. /\ ready \in Seq(Jobs) /\ remaining \in Nat /\ remaining <= Len(ready) /\ remaining > 0
      /\ current = None
  BY DEF CInv, IInv, TypeOK, DrainIsCovered, OwnerShape
<1>2. ready # <<>>
  BY <1>1, EmptySet
<1>3. j \in Jobs /\ j \in ToSet(ready)
  BY <1>1, <1>2, TailSet
<1>4. j \in jobs /\ closures[j] = "held" /\ ~Working(j)
  <2>1. j \in jobs /\ closures[j] = "held"
    BY <1>3 DEF CInv, IInv, SomewhereEach, HeldWhileListed
  <2>2. \A w \in Workers : worker[w].job # j
    BY <1>3, WorkQueueAssumption DEF CInv, IInv, OnePlaceEach
  <2> QED
    BY <2>1, <2>2 DEF Working
<1>5. current' = j /\ \A k \in Jobs : Working(k)' <=> Working(k)
  BY DEF Working
<1> HIDE DEF j
<1>6. CASE canceled[j]
  BY <1>5, <1>6, Unseen DEF j
<1>7. CASE ~canceled[j]
  <2>1. owner' = "completion" /\ j \in started /\ ~stopping
    BY <1>3, <1>7 DEF j, CInv, WorkedFirst
  <2>2. \A k \in Jobs : Phase(k)' = IF k = j THEN "calling" ELSE Phase(k)
    BY <1>4, <1>5, <2>1, PhaseValue, PhaseValueNext DEF CInv
  <2>3. \A k \in Jobs : WorkOf(k)' = WorkOf(k)
    BY <1>5, WorkValue
  <2>4. Phase(j) = "pending" /\ WorkOf(j) = "ended" /\ \A k \in Jobs : Phase(k) # "calling"
    BY <1>3, <1>4, <2>1, PhaseValue, WorkValue DEF CInv
  <2>5. Contract!Call(j)
    BY <1>3, <1>7, <2>1, <2>2, <2>3, <2>4 DEF Contract!Call
  <2> QED
    BY <1>3, <2>5 DEF j
<1> QED
  BY <1>6, <1>7

\* What Dispatch holds is listed, and no worker has it.
LEMMA CurrentHeld ==
    ASSUME CInv, owner \in {"completion", "settle"}
    PROVE  current \in Jobs /\ current \in jobs /\ closures[current] = "held" /\ ~Working(current)
<1>1. current # None
  BY DEF CInv, IInv, OwnerShape
<1> QED
  BY <1>1, CurrentIsAlone DEF CInv, IInv, HeldWhileListed, Working

\* The job is done when Dispatch has consumed it.
LEMMA ConsumedIsDone ==
    ASSUME CInv, CInv', owner \in {"completion", "settle"}, Consume(current), current' = None,
           owner' \in {"client", "drain"}, UNCHANGED <<worker, started, canceled, stopping>>
    PROVE  /\ \A k \in Jobs : Phase(k)' = IF k = current THEN "done" ELSE Phase(k)
           /\ \A k \in Jobs : WorkOf(k)' = WorkOf(k)
<1>1. /\ closures' = [closures EXCEPT ![current] = "released"] /\ jobs' = jobs \ {current}
      /\ closures \in [Jobs -> {"unset", "held", "released"}]
  BY DEF Consume, CInv, IInv, TypeOK
<1>2. \A k \in Jobs : Phase(k)' = IF k = current THEN "done" ELSE Phase(k)
  BY <1>1, CurrentHeld, PhaseValue, PhaseValueNext DEF CInv
<1>3. \A k \in Jobs : WorkOf(k)' = WorkOf(k)
  BY WorkValue DEF Working
<1> QED
  BY <1>2, <1>3

\* A completion that returns is Return, whether the job is consumed or retained.
LEMMA CompletionReturnsReturns ==
    ASSUME CInv, CInv', NEW consumed \in BOOLEAN, CompletionReturns(consumed)
    PROVE  Contract!Return(current) /\ current \in Jobs
<1> USE DEF CompletionReturns, wakeVars
<1>1. current \in Jobs /\ Phase(current) = "calling"
  BY CurrentHeld, PhaseValue DEF CInv
<1>2. CASE consumed \/ canceled[current]
  <2>1. \A k \in Jobs : Phase(k)' = (IF k = current THEN "done" ELSE Phase(k)) /\ WorkOf(k)' = WorkOf(k)
    BY <1>2, ConsumedIsDone
  <2> QED
    BY <1>1, <2>1 DEF Contract!Return
<1>3. CASE ~(consumed \/ canceled[current])
  <2>1. \A k \in Jobs : Phase(k)' = IF k = current THEN "pending" ELSE Phase(k)
    BY <1>3, CurrentHeld, PhaseValue, PhaseValueNext DEF CInv
  <2>2. \A k \in Jobs : WorkOf(k)' = WorkOf(k)
    BY <1>3, WorkValue DEF Working
  <2> QED
    BY <1>1, <1>3, <2>1, <2>2 DEF Contract!Return
<1> QED
  BY <1>2, <1>3

\* So is one that throws.
LEMMA CompletionThrowsReturns ==
    ASSUME CInv, CInv', CompletionThrows
    PROVE  Contract!Return(current) /\ current \in Jobs
<1>1. current \in Jobs /\ Phase(current) = "calling"
  BY CurrentHeld, PhaseValue DEF CInv, CompletionThrows
<1>2. \A k \in Jobs : Phase(k)' = (IF k = current THEN "done" ELSE Phase(k)) /\ WorkOf(k)' = WorkOf(k)
  BY ConsumedIsDone DEF CompletionThrows, wakeVars
<1> QED
  BY <1>1, <1>2 DEF Contract!Return, CompletionThrows, wakeVars

\* A job that Dispatch finds withdrawn is dropped.
LEMMA SkipDrops ==
    ASSUME CInv, CInv', DispatchSkip
    PROVE  Contract!Drop(current) /\ current \in Jobs
<1>1. /\ current \in Jobs /\ Phase(current) = "pending" /\ canceled[current]
      /\ WorkOf(current) # "running"
  BY CurrentHeld, PhaseValue, WorkValue DEF CInv, WorkedFirst, DispatchSkip
<1>2. \A k \in Jobs : Phase(k)' = (IF k = current THEN "done" ELSE Phase(k)) /\ WorkOf(k)' = WorkOf(k)
  BY ConsumedIsDone DEF DispatchSkip, wakeVars
<1> QED
  BY <1>1, <1>2 DEF Contract!Drop, DispatchSkip, wakeVars

\* The destructor withdraws every job that is live.
LEMMA StopCloses == ASSUME CInv, CInv', StopBegin PROVE Contract!Close
<1> USE DEF StopBegin, wakeVars
<1>1. ~stopping /\ \A k \in Jobs : Phase(k) # "calling"
  BY PhaseValue DEF CInv, WorkedFirst
<1>2. \A k \in Jobs : Phase(k)' = Phase(k) /\ WorkOf(k)' = WorkOf(k)
  BY PhaseValue, PhaseValueNext, WorkValue DEF CInv, Working
<1>3. \A k \in Jobs : canceled'[k] <=> canceled[k] \/ k \in jobs
  OBVIOUS
<1>4. {k \in Jobs : canceled'[k]} = {k \in Jobs : canceled[k]} \cup jobs
  BY <1>3 DEF CInv, IInv, TypeOK
<1> QED
  BY <1>1, <1>2, <1>4, LiveJobs DEF CInv, Contract!Close

\* When all threads have left, what is live is released.
LEMMA JoinedCloses == ASSUME CInv, CInv', StopJoined PROVE Contract!Closed
<1> USE DEF StopJoined, Leftover, wakeVars, AllJoined
<1>1. stopping /\ \A k \in Jobs : ~Working(k) /\ ~Working(k)'
  BY DEF CInv, WorkedFirst, Working
<1>2. \A k \in Jobs : WorkOf(k) # "running" /\ WorkOf(k)' = WorkOf(k)
  BY <1>1, WorkValue
<1>3. \A k \in Jobs : closures'[k] = IF k \in jobs THEN "released" ELSE closures[k]
  OBVIOUS
<1>4. \A k \in Jobs : Phase(k)' = IF k \in jobs THEN "done" ELSE Phase(k)
  BY <1>3, PhaseValue, PhaseValueNext DEF CInv
<1> QED
  BY <1>1, <1>2, <1>4, LiveJobs DEF CInv, Contract!Closed

\* Calling the work is Start; skipping it is not seen.
LEMMA WorkerStarts ==
    ASSUME CInv, CInv', NEW w \in Workers, WorkerStart(w)
    PROVE  (Contract!Start(worker[w].job) /\ worker[w].job \in Jobs) \/ UNCHANGED Contract!vars
<1> USE DEF WorkerStart, queueVars, wakeVars, ownerVars
<1> DEFINE j == worker[w].job
<1>1. /\ j \in Jobs /\ j # current /\ j \in jobs /\ closures[j] = "held"
      /\ \A v \in Workers : v # w => worker[v].job # j
      /\ j \notin started
  BY HandIsAlone DEF CInv, WorkedFirst
<1>2. worker \in [Workers -> WorkerState] /\ worker[w] = [at |-> "taken", job |-> j]
  BY DEF CInv, IInv, TypeOK, WorkerState
<1> HIDE DEF j
<1>3. CASE worker' = [worker EXCEPT ![w].at = "push"] /\ UNCHANGED started
  <2>1. worker'[w].at = "push" /\ \A v \in Workers : v # w => worker'[v] = worker[v]
    BY <1>2, <1>3
  <2>2. \A k \in Jobs : Working(k)' <=> Working(k)
    BY <1>2, <2>1 DEF Working
  <2> QED
    BY <1>3, <2>2, Unseen
<1>4. CASE ~canceled[j] /\ worker' = [worker EXCEPT ![w].at = "working"]
                        /\ started' = started \cup {j}
  <2>1. /\ worker'[w] = [at |-> "working", job |-> j]
        /\ \A v \in Workers : v # w => worker'[v] = worker[v]
    BY <1>2, <1>4
  <2>2. \A k \in Jobs : Working(k)' <=> Working(k) \/ k = j
    BY <1>2, <2>1 DEF Working
  <2>3. ~Working(j)
    BY <1>1, WorkValue
  <2>4. \A k \in Jobs : WorkOf(k)' = IF k = j THEN "running" ELSE WorkOf(k)
    BY <1>4, <2>2, WorkValue
  <2>5. WorkOf(j) = "no" /\ Phase(j) = "pending"
    BY <1>1, <2>3, PhaseValue, WorkValue DEF CInv
  <2>6. \A k \in Jobs : Phase(k)' = Phase(k)
    BY PhaseValue, PhaseValueNext DEF CInv
  <2>7. Contract!Start(j)
    BY <1>1, <1>4, <2>4, <2>5, <2>6 DEF Contract!Start
  <2> QED
    BY <1>1, <2>7 DEF j
<1> QED
  BY <1>3, <1>4 DEF Skips, j

\* The return of the work is End.
LEMMA WorkerEnds ==
    ASSUME CInv, CInv', NEW w \in Workers, WorkerFinish(w)
    PROVE  Contract!End(worker[w].job) /\ worker[w].job \in Jobs
<1> USE DEF WorkerFinish, wakeVars, ownerVars
<1> DEFINE j == worker[w].job
<1>1. j \in Jobs /\ j \in started /\ \A v \in Workers : v # w => worker[v].job # j
  BY HandIsAlone DEF CInv, WorkedFirst
<1>2. worker \in [Workers -> WorkerState] /\ worker[w] = [at |-> "working", job |-> j]
  BY DEF CInv, IInv, TypeOK, WorkerState
<1>3. worker'[w].at = "push" /\ \A v \in Workers : v # w => worker'[v] = worker[v]
  BY <1>2
<1> HIDE DEF j
<1>4. Working(j) /\ \A k \in Jobs : Working(k)' <=> Working(k) /\ k # j
  BY <1>1, <1>2, <1>3 DEF Working
<1>5. \A k \in Jobs : WorkOf(k)' = IF k = j THEN "ended" ELSE WorkOf(k)
  BY <1>1, <1>4, WorkValue
<1>6. WorkOf(j) = "running" /\ \A k \in Jobs : Phase(k)' = Phase(k)
  BY <1>1, <1>4, WorkValue, PhaseValue, PhaseValueNext DEF CInv
<1>7. Contract!End(j)
  BY <1>1, <1>5, <1>6 DEF Contract!End
<1> QED
  BY <1>1, <1>7 DEF j

\* Taking a job and handing it over is the queue's own business.
LEMMA WorkerUnseen ==
    ASSUME CInv, CInv', NEW w \in Workers, WorkerCheck(w) \/ WorkerPush(w)
    PROVE  UNCHANGED Contract!vars
<1> USE DEF WorkerCheck, WorkerPush, EmptyHanded, wakeVars, ownerVars
<1>1. worker \in [Workers -> WorkerState] /\ worker[w].at # "working"
  BY DEF CInv, IInv, TypeOK
<1>2. worker' = worker \/ (/\ worker'[w].at # "working"
                           /\ \A v \in Workers : v # w => worker'[v] = worker[v])
  BY <1>1
<1>3. \A k \in Jobs : Working(k)' <=> Working(k)
  BY <1>1, <1>2 DEF Working
<1> QED
  BY <1>3, Unseen

-----------------------------------------------------------------------------
(* The theorem.                                                            *)

\* One step per action of the queue.
LEMMA StepImplements == ASSUME CInv, CInv', [Next]_vars PROVE [Contract!Next]_(Contract!vars)
<1>1. CASE UNCHANGED vars
  <2>1. \A k \in Jobs : Working(k)' <=> Working(k)
    BY <1>1 DEF Working, vars
  <2> QED
    BY <1>1, <2>1, Unseen DEF vars, queueVars, wakeVars, ownerVars
<1>2. ASSUME NEW j \in Jobs, Submit(j) \/ Cancel(j) PROVE [Contract!Next]_(Contract!vars)
  BY <1>2, SubmitAccepts, CancelWithdraws DEF Contract!Next
<1>3. ASSUME NEW consumed \in BOOLEAN, CompletionReturns(consumed)
      PROVE  [Contract!Next]_(Contract!vars)
  BY <1>3, CompletionReturnsReturns DEF Contract!Next
<1>4. CASE CompletionThrows
  BY <1>4, CompletionThrowsReturns DEF Contract!Next
<1>5. CASE DispatchSkip
  BY <1>5, SkipDrops DEF Contract!Next
<1>6. CASE DispatchTake
  BY <1>6, TakeCalls DEF Contract!Next
<1>7. CASE StopBegin
  BY <1>7, StopCloses DEF Contract!Next
<1>8. CASE StopJoined
  BY <1>8, JoinedCloses DEF Contract!Next
<1>9. CASE \/ DispatchBegin \/ DispatchEnd \/ Notify \/ StopNotifyAll
           \/ \E w \in Workers : SpuriousWake(w)
  <2>1. /\ UNCHANGED <<jobs, closures, canceled, stopping, started, worker, current>>
        /\ owner' = owner \/ (owner # "completion" /\ owner' # "completion")
    BY <1>9 DEF DispatchBegin, DispatchEnd, Notify, StopNotifyAll, SpuriousWake, queueVars,
                wakeVars, ownerVars
  <2>2. \A k \in Jobs : Working(k)' <=> Working(k)
    BY <2>1 DEF Working
  <2> QED
    BY <2>1, <2>2, Unseen
<1>10. ASSUME NEW w \in Workers, WorkerStep(w) PROVE [Contract!Next]_(Contract!vars)
  BY <1>10, WorkerStarts, WorkerEnds, WorkerUnseen DEF WorkerStep, Contract!Next
<1> QED
  BY <1>1, <1>2, <1>3, <1>4, <1>5, <1>6, <1>7, <1>8, <1>9, <1>10 DEF Next, QueueStep

\* A new queue is the contract's: every job is free.
LEMMA InitImplements == ASSUME Init PROVE CInv /\ Contract!Init
<1>1. CInv
  BY InitIInv, InitWorked, WorkQueueAssumption, FS_EmptySet DEF CInv, Init, Bounded
<1>2. \A j \in Jobs : Phase(j) = "free" /\ WorkOf(j) = "no"
  BY <1>1, PhaseValue DEF Init, CInv, WorkOf
<1> QED
  BY <1>1, <1>2 DEF Init, Contract!Init

\* The queue implements its contract: every step of its threads is one of the contract's,
\* or one the contract does not see.  An extension's closures are called as if there were
\* neither threads nor locks: the work at most once and never when the job was withdrawn,
\* then the completion, one at a time, and neither once destruction is over
\* (WorkQueue::Submit, Dispatch, Run, Stop).
THEOREM Implementation == Spec => ImplementsContract
<1>1. Init => CInv /\ Contract!Init
  BY InitImplements
<1>2. CInv /\ [Next]_vars => CInv'
  BY NextCInv
<1>3. CInv /\ CInv' /\ [Next]_vars => [Contract!Next]_(Contract!vars)
  BY StepImplements
<1> QED
  BY <1>1, <1>2, <1>3, PTL DEF Spec, ImplementsContract, Contract!Spec
=============================================================================
