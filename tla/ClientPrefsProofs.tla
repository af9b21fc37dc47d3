-------------------------- MODULE ClientPrefsProofs --------------------------
(***************************************************************************)
(* Proofs about ClientPrefs, for any accounts, cookies and limits.         *)
(***************************************************************************)
EXTENDS ClientPrefs, FunctionTheorems, FiniteSetTheorems, SequenceTheorems, TLAPS

-----------------------------------------------------------------------------
(* The invariant, of the cache accs, the jobs td and dn, the values ow     *)
(* that are owed and those, hd, that the database held.  n is the number   *)
(* of the last write.                                                      *)

\* What is owed is dirty; what is dirty is owed or was committed; and what a ready account
\* shows is dirty, or the database held it.
Kept(account, a, ow, hd, n) ==
    IF account = None THEN \A c \in Cookies : ow[a][c] = 0
    ELSE \A c \in Cookies :
            /\ account.dirty[c] <= n
            /\ ow[a][c] # 0 => account.dirty[c] = ow[a][c]
            /\ account.dirty[c] # 0 => ow[a][c] # 0 \/ account.dirty[c] \in hd[a][c]
            /\ account.state = "ready" =>
                  IF account.dirty[c] # 0 THEN account.values[c] = account.dirty[c]
                  ELSE account.values[c] \in hd[a][c]

\* Saves carry values that were written.
Numbered(jobs, n) ==
    \A i \in DOMAIN jobs, c \in Cookies : jobs[i].kind = "save" => jobs[i].values[c] <= n

\* A value that a save has stored is not owed, so that its completion may clean it.
IsStored(result) == result.kind = "save" /\ ~result.failed
StoredIsSettled(dn, ow) ==
    \A i \in DOMAIN dn, c \in Cookies :
        IsStored(dn[i]) /\ dn[i].values[c] # 0 => ow[dn[i].account][c] # dn[i].values[c]

\* A value that was read is one the database held; or a dirty value will lie over it, which
\* no completion before that of the load cleans.
IsRead(result) == result.kind = "load" /\ ~result.failed
Cleans(result, a, c, value) ==
    IsStored(result) /\ result.account = a /\ result.values[c] = value
ReadIsGood(dn, i, account, hd) ==
    LET a == dn[i].account IN
    \A c \in Cookies :
        \/ dn[i].values[c] \in hd[a][c]
        \/ /\ account.dirty[c] # 0
           /\ \A j \in DOMAIN dn : j < i => ~Cleans(dn[j], a, c, account.dirty[c])
ReadsAreGood(dn, accs, hd) ==
    \A i \in DOMAIN dn : IsRead(dn[i]) => ReadIsGood(dn, i, accs[dn[i].account], hd)

Sound(accs, td, dn, ow, hd, n) ==
    /\ accs \in [Accounts -> Account \cup {None}]
    /\ td \in Seq(Job) /\ dn \in Seq(Result) /\ Len(td) + Len(dn) <= Capacity
    /\ Matches(accs, dn \o td) /\ Numbered(dn \o td, n)
    /\ StoredIsSettled(dn, ow) /\ ReadsAreGood(dn, accs, hd)
    /\ \A a \in Accounts : Kept(accs[a], a, ow, hd, n)

Others ==
    /\ {online, joined, players} \subseteq [Accounts -> 0..MaxConnections]
    /\ main \in {"idle", "frame", "stop"} /\ left \in 0..Len(done) /\ up \in BOOLEAN
    /\ waits \subseteq Wait /\ IsFiniteSet(waits) /\ Cardinality(waits) <= MaxWaits
    /\ faults \in 0..FaultLimit

\* The database: it held what it holds.
Database ==
    /\ {stored, owed} \subseteq [Accounts -> Values]
    /\ held \in [Accounts -> [Cookies -> SUBSET Writes]] /\ writes \in Writes
    /\ \A a \in Accounts, c \in Cookies : stored[a][c] \in held[a][c]

PInv == Others /\ Database /\ Sound(accounts, todo, done, owed, held, writes)

-----------------------------------------------------------------------------
(* The queue.                                                              *)

\* The accounts of a set are counted in their order.
LEMMA Ranks ==
    ASSUME NEW S \in SUBSET Accounts
    PROVE  /\ IsFiniteSet(S) /\ Cardinality(S) \in Nat
           /\ \A a \in S : Before(S, a) \in 0..(Cardinality(S) - 1)
           /\ \A a, b \in S : Before(S, a) = Before(S, b) => a = b
           /\ \A i \in 1..Cardinality(S) : Nth(S, i) \in S /\ Before(S, Nth(S, i)) = i - 1
<1>1. IsFiniteSet(S) /\ Cardinality(S) \in Nat /\ S \subseteq Nat
  <2>1. IsFiniteSet(Accounts) /\ Accounts \subseteq Nat
    <3>1. 1 \in Int /\ N \in Int
      BY PrefsAssumption
    <3>2. IsFiniteSet(1..N)
      BY <3>1, FS_Interval
    <3>3. 1..N \subseteq Nat
      BY <3>1
    <3> QED
      BY <3>2, <3>3 DEF Accounts
  <2> QED
    BY <2>1, FS_Subset, FS_CardinalityType
<1>2. \A T \in SUBSET S : IsFiniteSet(T) /\ Cardinality(T) \in Nat
  BY <1>1, FS_Subset, FS_CardinalityType
<1>3. ASSUME NEW a \in S PROVE Before(S, a) \in 0..(Cardinality(S) - 1)
  <2>1. {b \in S : b < a} \in SUBSET (S \ {a})
    BY <1>1
  <2>2. IsFiniteSet(S \ {a}) /\ Cardinality(S \ {a}) = Cardinality(S) - 1
    BY <1>1, FS_RemoveElement
  <2>3. Cardinality({b \in S : b < a}) <= Cardinality(S) - 1
    BY <2>1, <2>2, FS_Subset
  <2>4. Cardinality({b \in S : b < a}) \in Nat
    BY <1>2
  <2> QED
    BY <1>1, <2>3, <2>4 DEF Before
<1>4. ASSUME NEW a \in S, NEW b \in S, a < b PROVE Before(S, a) < Before(S, b)
  <2>1. {x \in S : x < a} \in SUBSET {x \in S : x < b} /\ {x \in S : x < a} # {x \in S : x < b}
    <3>1. a \in {x \in S : x < b} /\ a \notin {x \in S : x < a}
      BY <1>1, <1>4
    <3>2. \A x \in S : x < a => x < b
      BY <1>1, <1>4
    <3> QED
      BY <3>1, <3>2
  <2>2. Cardinality({x \in S : x < a}) <= Cardinality({x \in S : x < b})
    BY <1>2, <2>1, FS_Subset
  <2>3. Cardinality({x \in S : x < a}) # Cardinality({x \in S : x < b})
    BY <1>2, <2>1, FS_Subset
  <2>4. Cardinality({x \in S : x < a}) \in Nat /\ Cardinality({x \in S : x < b}) \in Nat
    BY <1>2
  <2> QED
    BY <2>2, <2>3, <2>4 DEF Before
<1>5. \A a, b \in S : Before(S, a) = Before(S, b) => a = b
  <2>1. ASSUME NEW a \in S, NEW b \in S, a # b PROVE Before(S, a) # Before(S, b)
    <3>1. a < b \/ b < a
      BY <1>1, <2>1
    <3>2. Before(S, a) \in Int /\ Before(S, b) \in Int
      BY <1>3
    <3> QED
      BY <1>4, <3>1, <3>2
  <2> QED
    BY <2>1
<1>6. ASSUME NEW i \in 1..Cardinality(S) PROVE \E a \in S : Before(S, a) = i - 1
  <2> DEFINE f == [a \in S |-> Before(S, a)]
             R == 0..(Cardinality(S) - 1)
  <2>1. f \in Injection(S, R)
    <3>1. f \in [S -> R]
      BY <1>3
    <3>2. \A a, b \in S : f[a] = f[b] => a = b
      BY <1>5
    <3> QED
      BY <3>1, <3>2, Fun_IsInj
  <2>2. IsFiniteSet(R) /\ Cardinality(R) = Cardinality(S)
    <3>1. 0 \in Int /\ Cardinality(S) - 1 \in Int
      BY <1>1
    <3>2. IsFiniteSet(R) /\ Cardinality(R) = IF 0 > Cardinality(S) - 1 THEN 0 ELSE (Cardinality(S) - 1) - 0 + 1
      BY <3>1, FS_Interval
    <3> QED
      BY <1>1, <3>2
  <2> HIDE DEF f, R
  <2>3. f \in Surjection(S, R)
    BY <2>1, <2>2, FS_Injection
  <2>4. i - 1 \in R
    BY <1>1 DEF R
  <2>5. \E a \in S : f[a] = i - 1
    BY <2>3, <2>4 DEF Surjection
  <2> QED
    BY <2>5 DEF f
<1>7. \A i \in 1..Cardinality(S) : Nth(S, i) \in S /\ Before(S, Nth(S, i)) = i - 1
  BY <1>6 DEF Nth
<1> QED
  BY <1>1, <1>3, <1>5, <1>7

\* The jobs of a set of accounts are appended, one for each.
LEMMA QueueAdds ==
    ASSUME NEW v, v.todo \in Seq(Job), NEW S \in SUBSET Accounts, NEW job,
           \A a \in S : job[a] \in Job
    PROVE  LET q == Queue(v, S, job) IN
           /\ q \in Seq(Job) /\ Len(q) = Len(v.todo) + Cardinality(S)
           /\ \A i \in 1..Len(v.todo) : q[i] = v.todo[i]
           /\ \A i \in 1..Cardinality(S) : q[Len(v.todo) + i] = job[Nth(S, i)]
<1> DEFINE new == [i \in 1..Cardinality(S) |-> job[Nth(S, i)]]
<1>1. Cardinality(S) \in Nat /\ Len(v.todo) \in Nat
  BY Ranks, LenProperties
<1>2. \A i \in 1..Cardinality(S) : job[Nth(S, i)] \in Job
  BY Ranks
<1>3. new \in Seq(Job) /\ Len(new) = Cardinality(S)
  BY <1>1, <1>2, SMT
<1>4. \A i \in 1..Cardinality(S) : new[i] = job[Nth(S, i)]
  OBVIOUS
<1> HIDE DEF new
<1>5. /\ v.todo \o new \in Seq(Job) /\ Len(v.todo \o new) = Len(v.todo) + Len(new)
      /\ \A i \in 1..(Len(v.todo) + Len(new)) :
            (v.todo \o new)[i] = IF i <= Len(v.todo) THEN v.todo[i] ELSE new[i - Len(v.todo)]
  BY <1>3, ConcatProperties
<1>6. \A i \in 1..Len(v.todo) : (v.todo \o new)[i] = v.todo[i]
  BY <1>1, <1>3, <1>5
<1>7. ASSUME NEW i \in 1..Cardinality(S)
      PROVE  (v.todo \o new)[Len(v.todo) + i] = job[Nth(S, i)]
  <2>1. /\ Len(v.todo) + i \in 1..(Len(v.todo) + Len(new)) /\ ~(Len(v.todo) + i <= Len(v.todo))
        /\ (Len(v.todo) + i) - Len(v.todo) = i
    BY <1>1, <1>3
  <2>2. (v.todo \o new)[Len(v.todo) + i] = new[(Len(v.todo) + i) - Len(v.todo)]
    BY <1>5, <2>1
  <2> QED
    BY <1>4, <2>1, <2>2
<1> QED
  BY <1>3, <1>5, <1>6, <1>7 DEF Queue, new

\* No more are accepted than the queue has room for.
LEMMA RoomForAccepted ==
    ASSUME NEW v, NEW S \in SUBSET Accounts, Len(v.todo) \in Nat, Len(done) \in Nat,
           Len(v.todo) + Len(done) <= Capacity
    PROVE  /\ Accepted(v, S) \in SUBSET Accounts /\ Accepted(v, S) \subseteq S
           /\ Cardinality(Accepted(v, S)) \in Nat
           /\ Len(v.todo) + Len(done) + Cardinality(Accepted(v, S)) <= Capacity
<1> DEFINE A == Accepted(v, S)
<1>1. A \in SUBSET Accounts /\ A \subseteq S
  BY DEF Accepted
<1>2. Cardinality(A) \in Nat
  BY <1>1, Ranks
<1>3. CASE Cardinality(A) = 0
  BY <1>1, <1>2, <1>3
<1>4. CASE Cardinality(A) # 0
  <2>1. Cardinality(A) \in 1..Cardinality(A)
    BY <1>2, <1>4
  <2>2. PICK a \in A : Before(A, a) = Cardinality(A) - 1
    BY <1>1, <2>1, Ranks
  <2>3. Len(v.todo) + Len(done) + Before(S, a) < Capacity
    BY <2>2 DEF Accepted
  <2>4. Before(A, a) <= Before(S, a) /\ Before(S, a) \in Nat
    <3>1. {b \in A : b < a} \in SUBSET {b \in S : b < a} /\ IsFiniteSet(S)
      BY <1>1, Ranks
    <3>2. IsFiniteSet({b \in S : b < a})
      BY <3>1, FS_Subset
    <3> QED
      BY <3>1, <3>2, FS_Subset, FS_CardinalityType DEF Before
  <2>5. Capacity \in Nat /\ Before(A, a) = Cardinality(A) - 1
    BY <2>2, PrefsAssumption
  <2> HIDE DEF A
  <2>6. Len(v.todo) + Len(done) + Cardinality(A) <= Capacity
    BY <1>2, <2>3, <2>4, <2>5
  <2> QED
    BY <1>1, <1>2, <2>6 DEF A
<1> QED
  BY <1>1, <1>2, <1>3, <1>4

\* Each account of a set has its place.
LEMMA Places ==
    ASSUME NEW S \in SUBSET Accounts
    PROVE  /\ \A a \in S : \E i \in 1..Cardinality(S) : Nth(S, i) = a
           /\ \A i, j \in 1..Cardinality(S) : Nth(S, i) = Nth(S, j) => i = j
<1>1. ASSUME NEW a \in S PROVE \E i \in 1..Cardinality(S) : Nth(S, i) = a
  <2>1. Before(S, a) + 1 \in 1..Cardinality(S) /\ (Before(S, a) + 1) - 1 = Before(S, a)
    <3>1. Cardinality(S) \in Nat /\ Before(S, a) \in 0..(Cardinality(S) - 1)
      BY Ranks
    <3> QED
      BY <3>1
  <2>2. /\ Nth(S, Before(S, a) + 1) \in S
        /\ Before(S, Nth(S, Before(S, a) + 1)) = (Before(S, a) + 1) - 1
    BY <2>1, Ranks
  <2>3. Nth(S, Before(S, a) + 1) = a
    BY <2>1, <2>2, Ranks
  <2> QED
    BY <2>1, <2>3
<1>2. ASSUME NEW i \in 1..Cardinality(S), NEW j \in 1..Cardinality(S), Nth(S, i) = Nth(S, j)
      PROVE  i = j
  <2>1. i - 1 = j - 1
    BY <1>2, Ranks
  <2> QED
    BY <2>1, Ranks
<1> QED
  BY <1>1, <1>2

\* The jobs under way: those that ran, then those that did not.
LEMMA JobsUnderWay ==
    ASSUME NEW dn \in Seq(Result), NEW td \in Seq(Job)
    PROVE  LET U == dn \o td IN
           /\ Len(dn) \in Nat /\ Len(td) \in Nat /\ Len(U) = Len(dn) + Len(td)
           /\ DOMAIN dn = 1..Len(dn) /\ DOMAIN td = 1..Len(td) /\ DOMAIN U = 1..Len(U)
           /\ \A i \in DOMAIN dn : i \in DOMAIN U /\ U[i] = dn[i]
           /\ \A i \in DOMAIN td : Len(dn) + i \in DOMAIN U /\ U[Len(dn) + i] = td[i]
           /\ \A i \in DOMAIN U : i \in DOMAIN dn \/ i - Len(dn) \in DOMAIN td
           /\ \A i \in DOMAIN U : /\ U[i].kind \in {"load", "save"} /\ U[i].account \in Accounts
                                  /\ U[i].values \in Values
<1> DEFINE U == dn \o td
           I == [kind : {"load", "save"}, account : Accounts, values : Values] \cup Result
<1>1. dn \in Seq(I) /\ td \in Seq(I)
  BY SeqMonotonic DEF Job
<1>2. /\ U \in Seq(I) /\ Len(U) = Len(dn) + Len(td)
      /\ \A i \in 1..(Len(dn) + Len(td)) : U[i] = IF i <= Len(dn) THEN dn[i] ELSE td[i - Len(dn)]
  BY <1>1, ConcatProperties
<1>3. /\ Len(dn) \in Nat /\ Len(td) \in Nat
      /\ DOMAIN dn = 1..Len(dn) /\ DOMAIN td = 1..Len(td) /\ DOMAIN U = 1..Len(U)
  BY <1>1, <1>2, LenProperties
<1>4. \A i \in DOMAIN U : U[i] \in I
  BY <1>2, <1>3, ElementOfSeq
<1>5. \A e \in I : e.kind \in {"load", "save"} /\ e.account \in Accounts /\ e.values \in Values
  BY DEF Result
<1> HIDE DEF U, I
<1>6. \A i \in DOMAIN dn : i \in DOMAIN U /\ U[i] = dn[i]
  BY <1>2, <1>3
<1>7. ASSUME NEW i \in DOMAIN td PROVE Len(dn) + i \in DOMAIN U /\ U[Len(dn) + i] = td[i]
  <2>1. /\ Len(dn) + i \in 1..(Len(dn) + Len(td)) /\ ~(Len(dn) + i <= Len(dn))
        /\ (Len(dn) + i) - Len(dn) = i
    BY <1>3
  <2> QED
    BY <1>2, <1>3, <2>1
<1>8. \A i \in DOMAIN U : i \in DOMAIN dn \/ i - Len(dn) \in DOMAIN td
  BY <1>2, <1>3
<1>9. \A i \in DOMAIN U : /\ U[i].kind \in {"load", "save"} /\ U[i].account \in Accounts
                          /\ U[i].values \in Values
  BY <1>4, <1>5
<1> QED
  BY <1>2, <1>3, <1>6, <1>7, <1>8, <1>9 DEF U

-----------------------------------------------------------------------------
(* What changes flags and states, and no value.                            *)

SoundV(v, ow, n) ==
    /\ v = [accounts |-> v.accounts, todo |-> v.todo]
    /\ Sound(v.accounts, v.todo, done, ow, held, n)

\* Two forms of an account have the same values; the second is ready if the first is.
Alike(x, y) ==
    /\ x = None <=> y = None
    /\ x # None => /\ y.dirty = x.dirty /\ y.values = x.values
                   /\ y.state = "ready" => x.state = "ready"

\* Jobs match accounts of the same flags.
LEMMA SameFlags ==
    ASSUME NEW accs, NEW acct, NEW jobs, Matches(accs, jobs),
           \A a \in Accounts, kind \in {"load", "save"} :
              Flag(acct[a], kind) <=> Flag(accs[a], kind)
    PROVE  Matches(acct, jobs)
BY DEF Matches

\* Alike accounts are as good as one another.
LEMMA AlikeKept ==
    ASSUME NEW x, NEW y, NEW a, NEW ow, NEW hd, NEW n, Kept(x, a, ow, hd, n), Alike(x, y)
    PROVE  Kept(y, a, ow, hd, n)
BY DEF Kept, Alike

\* No read is spoiled when the dirty values of the accounts that are loading stay.
LEMMA ReadsStay ==
    ASSUME NEW accs, NEW acct, NEW dn, NEW hd, ReadsAreGood(dn, accs, hd),
           \A i \in DOMAIN dn :
              IsRead(dn[i]) => acct[dn[i].account].dirty = accs[dn[i].account].dirty
    PROVE  ReadsAreGood(dn, acct, hd)
BY DEF ReadsAreGood, ReadIsGood

\* The account of a job under way is cached, and has its flag.
LEMMA JobFlagged ==
    ASSUME NEW accs, NEW td, NEW dn, NEW ow, NEW hd, NEW n, Sound(accs, td, dn, ow, hd, n)
    PROVE  /\ \A i \in DOMAIN dn : /\ dn[i].account \in Accounts
                                   /\ dn[i].kind \in {"load", "save"}
                                   /\ Flag(accs[dn[i].account], dn[i].kind)
           /\ \A i \in DOMAIN td : /\ td[i].account \in Accounts
                                   /\ td[i].kind \in {"load", "save"}
                                   /\ Flag(accs[td[i].account], td[i].kind)
<1>1. dn \in Seq(Result) /\ td \in Seq(Job) /\ Matches(accs, dn \o td)
  BY DEF Sound
<1>2. \A i \in DOMAIN (dn \o td) :
         /\ (dn \o td)[i].account \in Accounts /\ (dn \o td)[i].kind \in {"load", "save"}
         /\ Flag(accs[(dn \o td)[i].account], (dn \o td)[i].kind)
  BY <1>1, JobsUnderWay DEF Matches, Concerns
<1>3. \A i \in DOMAIN dn : i \in DOMAIN (dn \o td) /\ (dn \o td)[i] = dn[i]
  BY <1>1, JobsUnderWay
<1>4. \A i \in DOMAIN td : Len(dn) + i \in DOMAIN (dn \o td) /\ (dn \o td)[Len(dn) + i] = td[i]
  BY <1>1, JobsUnderWay
<1> QED
  BY <1>2, <1>3, <1>4

\* Load and Save: the accounts whose jobs the queue accepts get their flag.
LEMMA SubmitKeeps ==
    ASSUME NEW v, NEW ow, NEW n, SoundV(v, ow, n),
           NEW kk \in {"load", "save"}, NEW W \in SUBSET Accounts,
           \A a \in W : ~Flag(v.accounts[a], kk),
           NEW job, \A a \in Accepted(v, W) :
              /\ job[a] \in Job /\ job[a].kind = kk /\ job[a].account = a
              /\ \A c \in Cookies : kk = "save" => job[a].values[c] <= n,
           NEW acct \in [Accounts -> Account \cup {None}],
           \A a \in Accounts :
              /\ Alike(v.accounts[a], acct[a])
              /\ Flag(acct[a], kk) <=> Flag(v.accounts[a], kk) \/ a \in Accepted(v, W)
              /\ \A kind \in {"load", "save"} :
                    kind # kk => (Flag(acct[a], kind) <=> Flag(v.accounts[a], kind))
    PROVE  SoundV([accounts |-> acct, todo |-> Queue(v, Accepted(v, W), job)], ow, n)
<1> DEFINE S == Accepted(v, W)
           q == Queue(v, S, job)
           U == done \o v.todo
           Q == done \o q
<1>1. /\ v.todo \in Seq(Job) /\ done \in Seq(Result) /\ Len(v.todo) + Len(done) <= Capacity
      /\ Matches(v.accounts, U) /\ Numbered(U, n)
      /\ Len(v.todo) \in Nat /\ Len(done) \in Nat
  BY LenProperties DEF SoundV, Sound
<1>2. /\ S \in SUBSET Accounts /\ S \subseteq W /\ Cardinality(S) \in Nat
      /\ Len(v.todo) + Len(done) + Cardinality(S) <= Capacity
  BY <1>1, RoomForAccepted
<1>3. /\ q \in Seq(Job) /\ Len(q) = Len(v.todo) + Cardinality(S)
      /\ \A i \in 1..Len(v.todo) : q[i] = v.todo[i]
      /\ \A i \in 1..Cardinality(S) : q[Len(v.todo) + i] = job[Nth(S, i)]
  <2>1. \A a \in S : job[a] \in Job
    OBVIOUS
  <2> HIDE DEF S
  <2> QED
    BY <1>1, <1>2, <2>1, QueueAdds
<1>4. \A i \in 1..Cardinality(S) : Nth(S, i) \in S
  BY <1>2, Ranks
<1>5. \A a \in S : /\ job[a].kind = kk /\ job[a].account = a
                   /\ \A c \in Cookies : kk = "save" => job[a].values[c] <= n
  OBVIOUS
<1> HIDE DEF S, q
<1>6. Len(q) + Len(done) <= Capacity
  BY <1>1, <1>2, <1>3, PrefsAssumption
<1>7. /\ DOMAIN U = 1..Len(U) /\ Len(U) = Len(done) + Len(v.todo)
      /\ \A i \in DOMAIN done : U[i] = done[i] /\ Q[i] = done[i]
      /\ \A i \in 1..Len(v.todo) : U[Len(done) + i] = v.todo[i]
  BY <1>1, <1>3, JobsUnderWay
<1>8. /\ DOMAIN Q = 1..Len(Q) /\ Len(Q) = Len(U) + Cardinality(S)
      /\ \A i \in 1..Len(q) : Q[Len(done) + i] = q[i]
  <2>1. /\ DOMAIN Q = 1..Len(Q) /\ Len(Q) = Len(done) + Len(q) /\ DOMAIN q = 1..Len(q)
        /\ \A i \in DOMAIN q : Q[Len(done) + i] = q[i]
    BY <1>1, <1>3, JobsUnderWay
  <2> HIDE DEF Q, U
  <2>2. Len(Q) = Len(U) + Cardinality(S)
    <3>1. /\ Len(Q) = Len(done) + Len(q) /\ Len(q) = Len(v.todo) + Cardinality(S)
          /\ Len(U) = Len(done) + Len(v.todo)
      BY <1>3, <1>7, <2>1
    <3>2. Len(done) \in Nat /\ Len(v.todo) \in Nat /\ Cardinality(S) \in Nat
      BY <1>1, <1>2
    <3> QED
      BY <3>1, <3>2
  <2> QED
    BY <2>1, <2>2
<1> HIDE DEF U, Q
<1>9. \A i \in DOMAIN U : i \in DOMAIN Q /\ Q[i] = U[i]
  <2>1. ASSUME NEW i \in DOMAIN U PROVE i \in DOMAIN Q /\ Q[i] = U[i]
    <3>1. i \in DOMAIN Q
      BY <1>1, <1>2, <1>7, <1>8
    <3>2. CASE i <= Len(done)
      <4>1. i \in DOMAIN done
        BY <1>1, <1>7, <3>2, LenProperties
      <4> QED
        BY <1>7, <3>1, <4>1
    <3>3. CASE ~(i <= Len(done))
      <4>1. i - Len(done) \in 1..Len(v.todo) /\ i - Len(done) \in 1..Len(q)
            /\ Len(done) + (i - Len(done)) = i
        BY <1>1, <1>2, <1>3, <1>7, <3>3
      <4>2. U[i] = v.todo[i - Len(done)] /\ Q[i] = q[i - Len(done)]
        BY <1>7, <1>8, <4>1
      <4> QED
        BY <1>3, <3>1, <4>1, <4>2
    <3> QED
      BY <3>2, <3>3
  <2> QED
    BY <2>1
<1>10. \A k \in 1..Cardinality(S) : Len(U) + k \in DOMAIN Q /\ Q[Len(U) + k] = job[Nth(S, k)]
  <2>1. ASSUME NEW k \in 1..Cardinality(S)
        PROVE  Len(U) + k \in DOMAIN Q /\ Q[Len(U) + k] = job[Nth(S, k)]
    <3>1. /\ Len(v.todo) + k \in 1..Len(q) /\ Len(done) + (Len(v.todo) + k) = Len(U) + k
          /\ Len(U) + k \in DOMAIN Q
      BY <1>1, <1>2, <1>3, <1>7, <1>8
    <3>2. Q[Len(done) + (Len(v.todo) + k)] = q[Len(v.todo) + k]
      BY <1>8, <3>1
    <3> QED
      BY <1>3, <3>1, <3>2
  <2> QED
    BY <2>1
<1>11. \A i \in DOMAIN Q : i \in DOMAIN U \/ \E k \in 1..Cardinality(S) : i = Len(U) + k
  <2>1. ASSUME NEW i \in DOMAIN Q, i \notin DOMAIN U
        PROVE  \E k \in 1..Cardinality(S) : i = Len(U) + k
    <3>1. i - Len(U) \in 1..Cardinality(S) /\ i = Len(U) + (i - Len(U))
      BY <1>1, <1>2, <1>7, <1>8, <2>1
    <3> QED
      BY <3>1
  <2> QED
    BY <2>1
<1>12. Matches(acct, Q)
  <2> SUFFICES ASSUME NEW a \in Accounts, NEW kind \in {"load", "save"}
               PROVE  /\ Flag(acct[a], kind) <=> \E i \in DOMAIN Q : Concerns(Q[i], kind, a)
                      /\ \A i, j \in DOMAIN Q :
                            Concerns(Q[i], kind, a) /\ Concerns(Q[j], kind, a) => i = j
    BY DEF Matches
  <2>1. /\ Flag(v.accounts[a], kind) <=> \E i \in DOMAIN U : Concerns(U[i], kind, a)
        /\ \A i, j \in DOMAIN U : Concerns(U[i], kind, a) /\ Concerns(U[j], kind, a) => i = j
    BY <1>1 DEF Matches
  <2>2. \A k \in 1..Cardinality(S) :
           Concerns(Q[Len(U) + k], kind, a) <=> kind = kk /\ a = Nth(S, k)
    BY <1>4, <1>5, <1>10 DEF Concerns
  <2>3. kind = kk /\ a \in S => \E k \in 1..Cardinality(S) : a = Nth(S, k)
    BY <1>2, Places
  <2>4. Flag(acct[a], kind) <=> Flag(v.accounts[a], kind) \/ (kind = kk /\ a \in S)
    BY DEF S
  <2>5. Flag(acct[a], kind) => \E i \in DOMAIN Q : Concerns(Q[i], kind, a)
    BY <1>9, <1>10, <2>1, <2>2, <2>3, <2>4
  <2>6. (\E i \in DOMAIN Q : Concerns(Q[i], kind, a)) => Flag(acct[a], kind)
    BY <1>4, <1>9, <1>11, <2>1, <2>2, <2>4
  <2>7. \A i, j \in DOMAIN Q : Concerns(Q[i], kind, a) /\ Concerns(Q[j], kind, a) => i = j
    <3>1. ASSUME NEW i \in DOMAIN U, Concerns(Q[i], kind, a)
          PROVE  ~(kind = kk /\ a \in S)
      BY <1>2, <1>9, <2>1, <3>1
    <3>2. \A i \in DOMAIN Q : Concerns(Q[i], kind, a) =>
             \/ i \in DOMAIN U /\ ~(kind = kk /\ a \in S)
             \/ kind = kk /\ a \in S /\ \E k \in 1..Cardinality(S) : i = Len(U) + k /\ a = Nth(S, k)
      <4>1. ASSUME NEW i \in DOMAIN Q, Concerns(Q[i], kind, a), i \notin DOMAIN U
            PROVE  kind = kk /\ a \in S /\ \E k \in 1..Cardinality(S) : i = Len(U) + k /\ a = Nth(S, k)
        <5>1. PICK k \in 1..Cardinality(S) : i = Len(U) + k
          BY <1>11, <4>1
        <5>2. kind = kk /\ a = Nth(S, k)
          BY <2>2, <4>1, <5>1
        <5> QED
          BY <1>4, <5>1, <5>2
      <4> QED
        BY <3>1, <4>1
    <3>3. \A k, m \in 1..Cardinality(S) : a = Nth(S, k) /\ a = Nth(S, m) => k = m
      <4>1. \A k, m \in 1..Cardinality(S) : Nth(S, k) = Nth(S, m) => k = m
        BY <1>2, Places
      <4> QED
        BY <4>1
    <3> QED
      BY <1>9, <2>1, <3>2, <3>3
  <2> QED
    BY <2>5, <2>6, <2>7
<1>13. Numbered(Q, n)
  <2> SUFFICES ASSUME NEW i \in DOMAIN Q, NEW c \in Cookies, Q[i].kind = "save"
               PROVE  Q[i].values[c] <= n
    BY DEF Numbered
  <2>1. CASE i \in DOMAIN U
    <3>1. U[i].kind = "save" => U[i].values[c] <= n
      BY <1>1, <2>1 DEF Numbered
    <3>2. Q[i] = U[i]
      BY <1>9, <2>1
    <3> QED
      BY <3>1, <3>2
  <2>2. CASE i \notin DOMAIN U
    <3>1. PICK k \in 1..Cardinality(S) : i = Len(U) + k
      BY <1>11, <2>2
    <3>2. Q[i] = job[Nth(S, k)] /\ Nth(S, k) \in S
      BY <1>4, <1>10, <3>1
    <3> QED
      BY <1>5, <3>2
  <2> QED
    BY <2>1, <2>2
<1>14. ReadsAreGood(done, acct, held)
  <2>1. \A i \in DOMAIN done :
           IsRead(done[i]) => acct[done[i].account].dirty = v.accounts[done[i].account].dirty
    BY JobFlagged DEF SoundV, Alike, Flag
  <2> QED
    BY <2>1, ReadsStay DEF SoundV, Sound
<1>15. \A a \in Accounts : Kept(acct[a], a, ow, held, n)
  BY AlikeKept DEF SoundV, Sound
<1> QED
  BY <1>1, <1>3, <1>6, <1>12, <1>13, <1>14, <1>15 DEF SoundV, Sound, S, q, Q

\* A view that is sound, of its parts.
LEMMA ViewParts ==
    ASSUME NEW v, NEW ow, NEW n, SoundV(v, ow, n)
    PROVE  /\ v.accounts \in [Accounts -> Account \cup {None}]
           /\ v.todo \in Seq(Job) /\ done \in Seq(Result) /\ Len(v.todo) \in Nat
           /\ \A a \in Accounts : Kept(v.accounts[a], a, ow, held, n)
           /\ \A a \in Accounts : v.accounts[a] # None => v.accounts[a] \in Account
           /\ Cached(v) = {a \in Accounts : v.accounts[a] # None}
BY LenProperties DEF SoundV, Sound, Cached

\* The numbers of writes.
LEMMA WriteNumbers ==
    /\ Writes \subseteq Nat /\ 0 \in Writes /\ Unset \in Values
    /\ \A w \in Writes : w <= MaxWrites
    /\ NewAccount \in Account /\ NewAccount # None
<1>1. MaxWrites \in Nat
  BY PrefsAssumption
<1>2. Writes \subseteq Nat /\ 0 \in Writes /\ \A w \in Writes : w <= MaxWrites
  BY <1>1 DEF Writes
<1>3. Unset \in Values
  BY <1>2 DEF Unset, Values
<1>4. NewAccount \in Account
  BY <1>3 DEF NewAccount, Account
<1>5. NewAccount # None
  BY <1>4, NoneAssumption
<1> QED
  BY <1>2, <1>3, <1>4, <1>5

\* Load.
LEMMA LoadKeeps ==
    ASSUME NEW v, NEW ow, NEW n, SoundV(v, ow, n),
           NEW S \in SUBSET Accounts, \A a \in S : v.accounts[a] # None
    PROVE  /\ SoundV(Load(v, S), ow, n)
           /\ \A a \in Accounts : Alike(v.accounts[a], Load(v, S).accounts[a])
           /\ Cached(Load(v, S)) = Cached(v)
<1> DEFINE W == {a \in S : ~v.accounts[a].loading}
           sent == Accepted(v, W)
           acct == [a \in Accounts |->
                       IF a \in sent
                       THEN [v.accounts[a] EXCEPT !.loading = TRUE, !.state = "loading"]
                       ELSE IF a \in W
                       THEN [v.accounts[a] EXCEPT !.state = "failed", !.error = TRUE]
                       ELSE v.accounts[a]]
           job == [a \in sent |-> [kind |-> "load", account |-> a, values |-> Unset]]
<1>1. Load(v, S) = [accounts |-> acct, todo |-> Queue(v, sent, job)]
  BY DEF Load
<1>2. W \in SUBSET Accounts /\ sent \subseteq W /\ \A a \in W : ~Flag(v.accounts[a], "load")
  BY DEF Accepted, Flag
<1>3. \A a \in sent : /\ job[a] \in Job /\ job[a].kind = "load" /\ job[a].account = a
  BY <1>2, WriteNumbers DEF Job
<1>4. ASSUME NEW a \in Accounts
      PROVE  /\ acct[a] \in Account \cup {None} /\ Alike(v.accounts[a], acct[a])
             /\ Flag(acct[a], "load") <=> Flag(v.accounts[a], "load") \/ a \in sent
             /\ Flag(acct[a], "save") <=> Flag(v.accounts[a], "save")
  <2>1. CASE a \in W
    <3>1. v.accounts[a] \in Account
      BY <2>1, ViewParts
    <3>2. CASE a \in sent
      <4>1. acct[a] = [v.accounts[a] EXCEPT !.loading = TRUE, !.state = "loading"]
        BY <3>2
      <4>2. /\ acct[a] \in Account /\ acct[a] # None /\ v.accounts[a] # None
        BY <3>1, <4>1, NoneAssumption DEF Account
      <4> QED
        BY <3>1, <3>2, <4>1, <4>2 DEF Alike, Flag, Account
    <3>3. CASE a \notin sent
      <4>1. acct[a] = [v.accounts[a] EXCEPT !.state = "failed", !.error = TRUE]
        BY <2>1, <3>3
      <4>2. /\ acct[a] \in Account /\ acct[a] # None /\ v.accounts[a] # None
        BY <3>1, <4>1, NoneAssumption DEF Account
      <4> QED
        BY <3>1, <3>3, <4>1, <4>2 DEF Alike, Flag, Account
    <3> QED
      BY <3>2, <3>3
  <2>2. CASE a \notin W
    <3>1. acct[a] = v.accounts[a] /\ a \notin sent
      BY <1>2, <2>2
    <3> QED
      BY <3>1, ViewParts DEF Alike
  <2> QED
    BY <2>1, <2>2
<1>5. acct \in [Accounts -> Account \cup {None}]
  BY <1>4
<1>6. \A a \in Accounts :
         /\ Alike(v.accounts[a], acct[a])
         /\ Flag(acct[a], "load") <=> Flag(v.accounts[a], "load") \/ a \in Accepted(v, W)
         /\ \A kind \in {"load", "save"} :
               kind # "load" => (Flag(acct[a], kind) <=> Flag(v.accounts[a], kind))
  BY <1>4
<1>7. \A a \in Accepted(v, W) :
         /\ job[a] \in Job /\ job[a].kind = "load" /\ job[a].account = a
         /\ \A c \in Cookies : "load" = "save" => job[a].values[c] <= n
  BY <1>3
<1> HIDE DEF acct, job, W
<1>8. SoundV([accounts |-> acct, todo |-> Queue(v, Accepted(v, W), job)], ow, n)
  BY <1>2, <1>5, <1>6, <1>7, SubmitKeeps
<1>9. Load(v, S).accounts = acct
  BY <1>1
<1>10. Cached(Load(v, S)) = Cached(v)
  BY <1>6, <1>9 DEF Cached, Alike
<1> QED
  BY <1>1, <1>6, <1>8, <1>9, <1>10

\* Save: a job carries the values that are dirty.
LEMMA SaveKeeps ==
    ASSUME NEW v, NEW ow, NEW n, SoundV(v, ow, n), NEW S \in SUBSET Accounts
    PROVE  /\ SoundV(Save(v, S), ow, n)
           /\ \A a \in Accounts : Alike(v.accounts[a], Save(v, S).accounts[a])
           /\ Cached(Save(v, S)) = Cached(v)
           /\ Len(v.todo) <= Len(Save(v, S).todo)
<1> DEFINE W == ToSave(v, S)
           sent == Accepted(v, W)
           acct == [a \in Accounts |->
                       IF a \in sent
                       THEN [v.accounts[a] EXCEPT !.saving = TRUE, !.error = FALSE,
                                                  !.writeError = FALSE]
                       ELSE v.accounts[a]]
           job == [a \in sent |->
                      [kind |-> "save", account |-> a, values |-> v.accounts[a].dirty]]
<1>1. Save(v, S) = [accounts |-> acct, todo |-> Queue(v, sent, job)]
  BY DEF Save
<1>2. /\ W \in SUBSET Accounts /\ sent \subseteq W
      /\ \A a \in W : v.accounts[a] \in Account /\ v.accounts[a] # None /\ ~v.accounts[a].saving
  BY ViewParts DEF Accepted, ToSave
<1>3. \A a \in W : ~Flag(v.accounts[a], "save")
  BY <1>2 DEF Flag
<1>4. \A a \in sent :
         /\ job[a] \in Job /\ job[a].kind = "save" /\ job[a].account = a
         /\ \A c \in Cookies : job[a].values[c] <= n
  <2>1. ASSUME NEW a \in sent
        PROVE  /\ job[a] \in Job /\ job[a].kind = "save" /\ job[a].account = a
               /\ \A c \in Cookies : job[a].values[c] <= n
    <3>1. a \in Accounts /\ v.accounts[a] \in Account /\ v.accounts[a] # None
      BY <1>2
    <3>2. v.accounts[a].dirty \in Values /\ \A c \in Cookies : v.accounts[a].dirty[c] <= n
      BY <3>1, ViewParts DEF Account, Kept
    <3>3. job[a] = [kind |-> "save", account |-> a, values |-> v.accounts[a].dirty]
      OBVIOUS
    <3> QED
      BY <3>1, <3>2, <3>3 DEF Job
  <2> QED
    BY <2>1
<1>5. ASSUME NEW a \in Accounts
      PROVE  /\ acct[a] \in Account \cup {None} /\ Alike(v.accounts[a], acct[a])
             /\ Flag(acct[a], "save") <=> Flag(v.accounts[a], "save") \/ a \in sent
             /\ Flag(acct[a], "load") <=> Flag(v.accounts[a], "load")
  <2>1. CASE a \in sent
    <3>1. v.accounts[a] \in Account
      BY <1>2, <2>1
    <3>2. acct[a] = [v.accounts[a] EXCEPT !.saving = TRUE, !.error = FALSE, !.writeError = FALSE]
      BY <2>1
    <3>3. acct[a] \in Account /\ acct[a] # None /\ v.accounts[a] # None
      BY <3>1, <3>2, NoneAssumption DEF Account
    <3> QED
      BY <2>1, <3>1, <3>2, <3>3 DEF Alike, Flag, Account
  <2>2. CASE a \notin sent
    <3>1. acct[a] = v.accounts[a]
      BY <2>2
    <3> QED
      BY <2>2, <3>1, ViewParts DEF Alike
  <2> QED
    BY <2>1, <2>2
<1>6. acct \in [Accounts -> Account \cup {None}]
  BY <1>5
<1>7. \A a \in Accounts :
         /\ Alike(v.accounts[a], acct[a])
         /\ Flag(acct[a], "save") <=> Flag(v.accounts[a], "save") \/ a \in Accepted(v, W)
         /\ \A kind \in {"load", "save"} :
               kind # "save" => (Flag(acct[a], kind) <=> Flag(v.accounts[a], kind))
  BY <1>5
<1>8. \A a \in Accepted(v, W) :
         /\ job[a] \in Job /\ job[a].kind = "save" /\ job[a].account = a
         /\ \A c \in Cookies : "save" = "save" => job[a].values[c] <= n
  BY <1>4
<1>9. sent \in SUBSET Accounts
  BY <1>2
<1> HIDE DEF acct, job, W
<1>10. SoundV([accounts |-> acct, todo |-> Queue(v, Accepted(v, W), job)], ow, n)
  BY <1>2, <1>3, <1>6, <1>7, <1>8, SubmitKeeps
<1>11. Save(v, S).accounts = acct /\ Save(v, S).todo = Queue(v, sent, job)
  BY <1>1
<1>12. Cached(Save(v, S)) = Cached(v)
  BY <1>7, <1>11 DEF Cached, Alike
<1>13. Len(v.todo) <= Len(Queue(v, sent, job))
  <2>1. v.todo \in Seq(Job) /\ Len(v.todo) \in Nat
    BY ViewParts
  <2>2. \A a \in sent : job[a] \in Job
    BY <1>8
  <2> HIDE DEF sent
  <2>3. Len(Queue(v, sent, job)) = Len(v.todo) + Cardinality(sent)
    BY <1>9, <2>1, <2>2, QueueAdds
  <2>4. Cardinality(sent) \in Nat
    BY <1>9, Ranks
  <2> QED
    BY <2>1, <2>3, <2>4
<1> QED
  BY <1>1, <1>7, <1>10, <1>11, <1>12, <1>13

\* Only accounts change, none of which has a job or gets a flag.
LEMMA AccountsChange ==
    ASSUME NEW v, NEW ow, NEW n, SoundV(v, ow, n),
           NEW acct \in [Accounts -> Account \cup {None}],
           \A a \in Accounts :
              /\ \A kind \in {"load", "save"} : Flag(acct[a], kind) <=> Flag(v.accounts[a], kind)
              /\ Kept(acct[a], a, ow, held, n)
              /\ Flag(acct[a], "load") => acct[a].dirty = v.accounts[a].dirty
    PROVE  SoundV([v EXCEPT !.accounts = acct], ow, n)
<1>1. [v EXCEPT !.accounts = acct] = [accounts |-> acct, todo |-> v.todo]
  BY DEF SoundV
<1>2. Matches(acct, done \o v.todo)
  BY SameFlags DEF SoundV, Sound
<1>3. ReadsAreGood(done, acct, held)
  <2>1. ASSUME NEW i \in DOMAIN done, IsRead(done[i])
        PROVE  acct[done[i].account].dirty = v.accounts[done[i].account].dirty
    <3>1. done[i].account \in Accounts /\ Flag(v.accounts[done[i].account], "load")
      BY <2>1, JobFlagged DEF SoundV, IsRead
    <3> QED
      BY <3>1
  <2> QED
    BY <2>1, ReadsStay DEF SoundV, Sound
<1> QED
  BY <1>1, <1>2, <1>3 DEF SoundV, Sound

\* Evict drops accounts whose values are stored and which have no job.
LEMMA EvictKeeps ==
    ASSUME NEW v, NEW ow, NEW n, SoundV(v, ow, n), NEW P
    PROVE  /\ SoundV(Evict(v, P), ow, n) /\ Evict(v, P).todo = v.todo
           /\ \A a \in Accounts :
                 \/ Evict(v, P).accounts[a] = v.accounts[a]
                 \/ /\ Evict(v, P).accounts[a] = None /\ P[a] = 0
                    /\ v.accounts[a] # None /\ Clean(v.accounts[a])
<1> DEFINE acct == [a \in Accounts |->
                       IF a \in Cached(v) \ Present(P) /\ Evictable(v.accounts[a]) THEN None
                       ELSE v.accounts[a]]
<1>1. Evict(v, P) = [v EXCEPT !.accounts = acct]
  BY DEF Evict
<1>2. acct \in [Accounts -> Account \cup {None}]
  BY ViewParts
<1>3. \A a \in Accounts :
         \/ acct[a] = v.accounts[a]
         \/ /\ acct[a] = None /\ P[a] = 0 /\ v.accounts[a] # None
            /\ Evictable(v.accounts[a])
  BY ViewParts DEF Present
<1> HIDE DEF acct
<1>4. ASSUME NEW a \in Accounts
      PROVE  /\ \A kind \in {"load", "save"} : Flag(acct[a], kind) <=> Flag(v.accounts[a], kind)
             /\ Kept(acct[a], a, ow, held, n)
             /\ Flag(acct[a], "load") => acct[a].dirty = v.accounts[a].dirty
  <2>1. Kept(v.accounts[a], a, ow, held, n)
    BY ViewParts
  <2>2. CASE acct[a] = v.accounts[a]
    BY <2>1, <2>2
  <2>3. CASE acct[a] = None /\ v.accounts[a] # None /\ Evictable(v.accounts[a])
    <3>1. \A c \in Cookies : v.accounts[a].dirty[c] = 0
      BY <2>3 DEF Evictable, Clean, Unset
    <3>2. \A c \in Cookies : ow[a][c] = 0
      BY <2>1, <2>3, <3>1 DEF Kept
    <3> QED
      BY <2>3, <3>2 DEF Kept, Flag, Evictable
  <2> QED
    BY <1>3, <2>2, <2>3
<1>5. SoundV([v EXCEPT !.accounts = acct], ow, n)
  BY <1>2, <1>4, AccountsChange
<1>6. Evict(v, P).accounts = acct /\ Evict(v, P).todo = v.todo
  BY <1>1 DEF SoundV
<1> QED
  BY <1>1, <1>3, <1>5, <1>6 DEF Evictable

\* Enter: new accounts, each with its first load.
LEMMA EnterKeeps ==
    ASSUME NEW v, NEW ow, NEW n \in Nat, SoundV(v, ow, n),
           NEW S \in SUBSET Accounts, \A a \in S : v.accounts[a] = None
    PROVE  /\ SoundV(Enter(v, S), ow, n)
           /\ Cached(Enter(v, S)) = Cached(v) \cup S
           /\ \A a \in Accounts \ S : Alike(v.accounts[a], Enter(v, S).accounts[a])
<1> DEFINE acct == [a \in Accounts |-> IF a \in S THEN NewAccount ELSE v.accounts[a]]
           u == [v EXCEPT !.accounts = acct]
<1>1. Enter(v, S) = Load(u, S)
  <2>1. [v EXCEPT !.accounts = [a \in Accounts |-> IF a \in S THEN NewAccount ELSE @[a]]] = u
    OBVIOUS
  <2> QED
    BY <2>1 DEF Enter
<1>2. acct \in [Accounts -> Account \cup {None}]
  BY ViewParts, WriteNumbers
<1>3. ASSUME NEW a \in Accounts
      PROVE  /\ \A kind \in {"load", "save"} : Flag(acct[a], kind) <=> Flag(v.accounts[a], kind)
             /\ Kept(acct[a], a, ow, held, n)
             /\ Flag(acct[a], "load") => acct[a].dirty = v.accounts[a].dirty
  <2>1. Kept(v.accounts[a], a, ow, held, n)
    BY ViewParts
  <2>2. CASE a \notin S
    <3>1. acct[a] = v.accounts[a]
      BY <2>2
    <3> QED
      BY <2>1, <3>1
  <2>3. CASE a \in S
    <3>1. acct[a] = NewAccount /\ v.accounts[a] = None
      BY <2>3
    <3>2. \A c \in Cookies : NewAccount.dirty[c] = 0 /\ 0 <= n
      BY DEF NewAccount, Unset
    <3>3. Kept(NewAccount, a, ow, held, n)
      BY <2>1, <3>1, <3>2, WriteNumbers DEF Kept, NewAccount
    <3> QED
      BY <3>1, <3>3, WriteNumbers DEF Flag, NewAccount
  <2> QED
    BY <2>2, <2>3
<1>4. SoundV(u, ow, n)
  BY <1>2, <1>3, AccountsChange
<1>5. u.accounts = acct
  BY DEF SoundV
<1>6. \A a \in S : u.accounts[a] # None
  BY <1>5, WriteNumbers
<1>7. Cached(u) = Cached(v) \cup S
  BY <1>5, WriteNumbers DEF Cached
<1>8. \A a \in Accounts \ S : u.accounts[a] = v.accounts[a]
  BY <1>5
<1> HIDE DEF u
<1>9. /\ SoundV(Load(u, S), ow, n) /\ Cached(Load(u, S)) = Cached(u)
      /\ \A a \in Accounts : Alike(u.accounts[a], Load(u, S).accounts[a])
  BY <1>4, <1>6, LoadKeeps
<1> QED
  BY <1>1, <1>7, <1>8, <1>9

\* Sync: everybody in the snapshot is cached.
LEMMA SyncKeeps ==
    ASSUME SoundV(View, owed, writes), writes \in Nat, NEW P \in [Accounts -> 0..MaxConnections]
    PROVE  /\ SoundV(Sync(P), owed, writes)
           /\ \A a \in Accounts : P[a] # 0 => Sync(P).accounts[a] # None
<1> DEFINE S == Present(P) \ Cached(View)
           e == Enter(View, S)
<1>1. S \in SUBSET Accounts /\ \A a \in S : View.accounts[a] = None
  BY DEF Present, Cached
<1> HIDE DEF S
<1>2. SoundV(e, owed, writes) /\ Cached(e) = Cached(View) \cup S
  BY <1>1, EnterKeeps
<1> HIDE DEF e
<1>3. /\ SoundV(Evict(e, P), owed, writes)
      /\ \A a \in Accounts : P[a] # 0 => Evict(e, P).accounts[a] = e.accounts[a]
  BY <1>2, EvictKeeps
<1>4. \A a \in Accounts : P[a] # 0 => e.accounts[a] # None
  BY <1>2 DEF S, Present, Cached
<1> QED
  BY <1>3, <1>4 DEF Sync, S, e

\* RetryWrites: every failure is forgotten, and what is dirty is saved.
LEMMA RetryKeeps ==
    ASSUME NEW v, NEW ow, NEW n, SoundV(v, ow, n)
    PROVE  SoundV(RetryWrites(v), ow, n)
<1> DEFINE acct == [a \in Accounts |->
                       IF a \in Cached(v) THEN [v.accounts[a] EXCEPT !.writeFailed = FALSE] ELSE None]
           u == [v EXCEPT !.accounts = acct]
<1>1. RetryWrites(v) = Save(u, Accounts)
  <2>1. [v EXCEPT !.accounts = [a \in Accounts |->
            IF a \in Cached(v) THEN [@[a] EXCEPT !.writeFailed = FALSE] ELSE None]] = u
    OBVIOUS
  <2> QED
    BY <2>1 DEF RetryWrites
<1>2. ASSUME NEW a \in Accounts
      PROVE  /\ acct[a] \in Account \cup {None} /\ Alike(v.accounts[a], acct[a])
             /\ \A kind \in {"load", "save"} : Flag(acct[a], kind) <=> Flag(v.accounts[a], kind)
  <2>1. CASE v.accounts[a] = None
    <3>1. acct[a] = None
      BY <2>1, ViewParts
    <3> QED
      BY <2>1, <3>1 DEF Alike, Flag
  <2>2. CASE v.accounts[a] # None
    <3>1. v.accounts[a] \in Account /\ acct[a] = [v.accounts[a] EXCEPT !.writeFailed = FALSE]
      BY <2>2, ViewParts
    <3>2. acct[a] \in Account
      BY <3>1 DEF Account
    <3>3. acct[a] # None
      BY <3>2, NoneAssumption
    <3> QED
      BY <2>2, <3>1, <3>2, <3>3 DEF Alike, Flag, Account
  <2> QED
    BY <2>1, <2>2
<1>3. acct \in [Accounts -> Account \cup {None}]
  BY <1>2
<1> HIDE DEF acct
<1>4. ASSUME NEW a \in Accounts
      PROVE  /\ \A kind \in {"load", "save"} : Flag(acct[a], kind) <=> Flag(v.accounts[a], kind)
             /\ Kept(acct[a], a, ow, held, n)
             /\ Flag(acct[a], "load") => acct[a].dirty = v.accounts[a].dirty
  <2>1. Kept(acct[a], a, ow, held, n)
    BY <1>2, ViewParts, AlikeKept
  <2> QED
    BY <1>2, <2>1 DEF Alike, Flag
<1>5. SoundV(u, ow, n)
  BY <1>3, <1>4, AccountsChange
<1> HIDE DEF u
<1> QED
  BY <1>1, <1>5, SaveKeeps

\* Write: the value of the next write is owed from now on, and dirty.  No job that is under
\* way carries it, so that no completion takes it for stored.
LEMMA WriteKeeps ==
    ASSUME NEW v, SoundV(v, owed, writes), Database, writes < MaxWrites,
           NEW a \in Accounts, NEW c \in Cookies, v.accounts[a] # None
    PROVE  SoundV(Write(v, a, c, writes + 1), [owed EXCEPT ![a][c] = writes + 1], writes + 1)
<1> DEFINE w == writes + 1
           ow == [owed EXCEPT ![a][c] = w]
           x == v.accounts[a]
           y == Written(x, c, w)
           acct == [v.accounts EXCEPT ![a] = y]
           u == [v EXCEPT !.accounts = acct]
<1>1. /\ writes \in Nat /\ w \in Writes /\ w # 0 /\ w \in Nat /\ writes < w
  BY PrefsAssumption DEF Database, Writes
<1>2. /\ x \in Account /\ v.accounts \in [Accounts -> Account \cup {None}]
      /\ \A b \in Accounts : Kept(v.accounts[b], b, owed, held, writes)
  BY ViewParts
<1>3. Write(v, a, c, w) = Save(u, {a})
  <2>1. v = [accounts |-> v.accounts, todo |-> v.todo]
    BY DEF SoundV
  <2>2. [v EXCEPT !.accounts[a] = Written(@, c, w)] = u
    BY <1>2, <2>1
  <2> QED
    BY <2>2 DEF Write
<1>4. /\ y \in Account /\ y.dirty = [x.dirty EXCEPT ![c] = w] /\ y.values = [x.values EXCEPT ![c] = w]
      /\ y.state = x.state /\ y.loading = x.loading /\ y.saving = x.saving
      /\ x.dirty \in Values /\ x.values \in Values
  <2>1. /\ x.dirty \in [Cookies -> Writes] /\ x.values \in [Cookies -> Writes]
        /\ x.state \in {"loading", "ready", "failed"} /\ x.loading \in BOOLEAN
        /\ x.saving \in BOOLEAN /\ x.error \in BOOLEAN /\ x.writeError \in BOOLEAN
        /\ DOMAIN x = {"state", "values", "dirty", "loading", "saving", "writeFailed",
                       "error", "writeError"}
    BY <1>2 DEF Account, Values
  <2>2. [x.dirty EXCEPT ![c] = w] \in Values /\ [x.values EXCEPT ![c] = w] \in Values
    BY <1>1, <2>1 DEF Values
  <2>3. /\ y.dirty = [x.dirty EXCEPT ![c] = w] /\ y.values = [x.values EXCEPT ![c] = w]
        /\ y.state = x.state /\ y.loading = x.loading /\ y.saving = x.saving
        /\ y.writeFailed = FALSE /\ y.error = x.error /\ y.writeError = x.writeError
    BY <2>1 DEF Written
  <2> DEFINE V == [x.values EXCEPT ![c] = w]
             D == [x.dirty EXCEPT ![c] = w]
  <2>4. y = [x EXCEPT !.values = V, !.dirty = D, !.writeFailed = FALSE]
    BY <1>2 DEF Written, Account
  <2>5. y \in Account
    <3> HIDE DEF y, x, V, D
    <3>1. V \in Values /\ D \in Values /\ x \in Account
      BY <1>2, <2>2 DEF V, D, x
    <3> QED
      BY <2>4, <3>1 DEF Account
  <2> QED
    BY <2>1, <2>3, <2>5 DEF Values
<1> HIDE DEF y
<1>5. /\ \A d \in Cookies : /\ y.dirty[d] = IF d = c THEN w ELSE x.dirty[d]
                            /\ y.values[d] = IF d = c THEN w ELSE x.values[d]
      /\ y # None
  BY <1>4, NoneAssumption DEF Values
<1>6. \A b \in Accounts, d \in Cookies : ow[b][d] = IF b = a /\ d = c THEN w ELSE owed[b][d]
  BY DEF Database, Values
<1>7. /\ acct \in [Accounts -> Account \cup {None}] /\ acct[a] = y
      /\ \A b \in Accounts : b # a => acct[b] = v.accounts[b]
  BY <1>2, <1>4
<1>8. /\ v.todo \in Seq(Job) /\ done \in Seq(Result) /\ Len(v.todo) + Len(done) <= Capacity
      /\ Matches(v.accounts, done \o v.todo) /\ Numbered(done \o v.todo, writes)
      /\ StoredIsSettled(done, owed) /\ ReadsAreGood(done, v.accounts, held)
  BY DEF SoundV, Sound
<1> HIDE DEF ow, acct, x, w
<1>9. \A b \in Accounts, kind \in {"load", "save"} :
         Flag(acct[b], kind) <=> Flag(v.accounts[b], kind)
  <2>1. \A kind \in {"load", "save"} : Flag(y, kind) <=> Flag(x, kind)
    BY <1>4, <1>5 DEF Flag, x
  <2> QED
    BY <1>7, <2>1 DEF x
<1>10. Matches(acct, done \o v.todo)
  BY <1>8, <1>9, SameFlags
<1>11. \A i \in DOMAIN (done \o v.todo), d \in Cookies :
          (done \o v.todo)[i].kind = "save" =>
              (done \o v.todo)[i].values[d] <= writes /\ (done \o v.todo)[i].values[d] \in Nat
  <2>1. \A i \in DOMAIN (done \o v.todo) : (done \o v.todo)[i].values \in Values
    BY <1>8, JobsUnderWay
  <2>2. \A i \in DOMAIN (done \o v.todo), d \in Cookies : (done \o v.todo)[i].values[d] \in Nat
    BY <2>1, WriteNumbers DEF Values
  <2> QED
    BY <1>8, <2>2 DEF Numbered
<1>12. Numbered(done \o v.todo, w)
  BY <1>1, <1>11 DEF Numbered
<1>13. \A i \in DOMAIN done, d \in Cookies : done[i].kind = "save" => done[i].values[d] # w
  <2>1. \A i \in DOMAIN done : i \in DOMAIN (done \o v.todo) /\ (done \o v.todo)[i] = done[i]
    BY <1>8, JobsUnderWay
  <2>2. \A i \in DOMAIN done, d \in Cookies :
           done[i].kind = "save" => done[i].values[d] <= writes /\ done[i].values[d] \in Nat
    BY <1>11, <2>1
  <2> QED
    BY <1>1, <2>2
<1>14. StoredIsSettled(done, ow)
  <2>1. \A i \in DOMAIN done : done[i].account \in Accounts
    BY JobFlagged DEF SoundV
  <2> QED
    BY <1>6, <1>8, <1>13, <2>1 DEF StoredIsSettled, IsStored
<1>15. ReadsAreGood(done, acct, held)
  <2>1. ASSUME NEW i \in DOMAIN done, IsRead(done[i])
        PROVE  ReadIsGood(done, i, acct[done[i].account], held)
    <3>1. ReadIsGood(done, i, v.accounts[done[i].account], held) /\ done[i].account \in Accounts
      BY <1>8, <2>1, JobFlagged DEF ReadsAreGood, SoundV
    <3>2. CASE done[i].account # a
      BY <1>7, <3>1, <3>2
    <3>3. CASE done[i].account = a
      <4>1. ReadIsGood(done, i, x, held)
        BY <3>1, <3>3 DEF x
      <4>2. \A j \in DOMAIN done : ~Cleans(done[j], a, c, w)
        BY <1>13 DEF Cleans, IsStored
      <4>3. ReadIsGood(done, i, y, held)
        BY <1>1, <1>5, <3>3, <4>1, <4>2 DEF ReadIsGood
      <4> QED
        BY <1>7, <3>3, <4>3
    <3> QED
      BY <3>2, <3>3
  <2> QED
    BY <2>1 DEF ReadsAreGood
<1>16. ASSUME NEW b \in Accounts PROVE Kept(acct[b], b, ow, held, w)
  <2>1. Kept(v.accounts[b], b, owed, held, writes)
    BY <1>2
  <2>2. \A d \in Cookies :
           v.accounts[b] # None /\ v.accounts[b].dirty[d] <= writes => v.accounts[b].dirty[d] <= w
    <3>1. v.accounts[b] # None => v.accounts[b].dirty \in [Cookies -> Nat]
      BY <1>2, WriteNumbers DEF Account, Values
    <3> QED
      BY <1>1, <3>1
  <2>3. CASE b # a
    <3>1. acct[b] = v.accounts[b] /\ \A d \in Cookies : ow[b][d] = owed[b][d]
      BY <1>6, <1>7, <2>3
    <3> QED
      BY <2>1, <2>2, <3>1 DEF Kept
  <2>4. CASE b = a
    <3>1. Kept(x, a, owed, held, writes) /\ x # None
      BY <2>1, <2>4 DEF x
    <3>2. \A d \in Cookies : x.dirty[d] <= writes => x.dirty[d] <= w
      BY <2>2, <2>4, <3>1 DEF x
    <3>3. w <= w
      BY <1>1
    <3>4. Kept(y, a, ow, held, w)
      BY <1>1, <1>4, <1>5, <1>6, <3>1, <3>2, <3>3 DEF Kept
    <3> QED
      BY <1>7, <2>4, <3>4
  <2> QED
    BY <2>3, <2>4
<1>17. SoundV(u, ow, w)
  <2>1. u = [accounts |-> acct, todo |-> v.todo]
    BY DEF SoundV
  <2> QED
    BY <1>7, <1>8, <1>10, <1>12, <1>14, <1>15, <1>16, <2>1 DEF SoundV, Sound
<1> HIDE DEF u
<1>18. SoundV(Save(u, {a}), ow, w)
  BY <1>17, SaveKeeps
<1> QED
  BY <1>3, <1>18 DEF ow, w

-----------------------------------------------------------------------------
(* Natives.                                                                *)

\* The server thread sees a sound cache.
LEMMA ViewIsSound ==
    ASSUME PInv
    PROVE  /\ SoundV(View, owed, writes) /\ writes \in Nat
           /\ \A P \in Snapshots : P \in [Accounts -> 0..MaxConnections]
<1>1. writes \in Nat
  BY WriteNumbers DEF PInv, Database
<1>2. Nobody \in [Accounts -> 0..MaxConnections]
  BY PrefsAssumption DEF Nobody
<1> QED
  BY <1>1, <1>2 DEF PInv, Others, SoundV, View, Snapshots

\* A native of which the model says what it leaves of the cache, the values and the waits.
LEMMA InvokedKeeps ==
    ASSUME PInv, NEW P \in Snapshots, NEW v, Invoked(P, v), Database',
           SoundV(v, owed', writes'),
           waits' \subseteq Wait, IsFiniteSet(waits'), Cardinality(waits') <= MaxWaits
    PROVE  PInv'
<1>1. /\ players' = P /\ up' = TRUE /\ accounts' = v.accounts /\ todo' = v.todo
      /\ UNCHANGED <<online, joined, done, main, left, stored, held>>
  BY DEF Invoked, Become
<1>2. faults' \in 0..FaultLimit
  BY PrefsAssumption DEF Invoked, Took, Snapshots, PInv, Others
<1>3. Others'
  BY <1>1, <1>2, ViewIsSound DEF PInv, Others
<1>4. Sound(accounts', todo', done', owed', held', writes')
  BY <1>1 DEF SoundV
<1> QED
  BY <1>3, <1>4 DEF PInv

\* Natives that write nothing.
LEMMA ReadStep ==
    ASSUME PInv, NEW P \in Snapshots, NEW v, Invoked(P, v), SoundV(v, owed, writes),
           UNCHANGED <<waits, owed, writes>>
    PROVE  PInv'
<1>1. Database'
  BY DEF PInv, Database, Invoked
<1>2. SoundV(v, owed', writes')
  OBVIOUS
<1>3. waits' \subseteq Wait /\ IsFiniteSet(waits') /\ Cardinality(waits') <= MaxWaits
  BY DEF PInv, Others
<1> QED
  BY <1>1, <1>2, <1>3, InvokedKeeps

\* A value is accepted: it is owed.
LEMMA AcceptStep ==
    ASSUME PInv, NEW P \in Snapshots, NEW v, NEW a \in Accounts, NEW c \in Cookies,
           SoundV(v, owed, writes), v.accounts[a] # None,
           Invoked(P, Write(v, a, c, writes + 1)), Accept(a, c)
    PROVE  PInv'
<1>1. /\ writes < MaxWrites /\ writes' = writes + 1 /\ waits' = waits
      /\ owed' = [owed EXCEPT ![a][c] = writes + 1]
  BY DEF Accept
<1>2. writes' \in Writes
  BY <1>1, ViewIsSound, PrefsAssumption DEF Writes
<1>3. Database'
  <2>1. stored' = stored /\ held' = held
    BY DEF Invoked
  <2>2. owed' \in [Accounts -> Values]
    <3>1. owed \in [Accounts -> [Cookies -> Writes]] /\ writes + 1 \in Writes
      BY <1>1, <1>2 DEF PInv, Database, Values
    <3> QED
      BY <1>1, <3>1 DEF Values
  <2> QED
    BY <1>2, <2>1, <2>2 DEF PInv, Database
<1>4. SoundV(Write(v, a, c, writes + 1), owed', writes')
  BY <1>1, WriteKeeps DEF PInv
<1>5. waits' \subseteq Wait /\ IsFiniteSet(waits') /\ Cardinality(waits') <= MaxWaits
  BY <1>1 DEF PInv, Others
<1> HIDE DEF PInv
<1> QED
  BY <1>3, <1>4, <1>5, InvokedKeeps

\* A player's value is set when his cache is ready.
LEMMA SetStep == ASSUME PInv, NEW a \in Clients, NEW c \in Cookies, Set(a, c) PROVE PInv'
<1>1. PICK P \in Snapshots :
        Current(P, a) /\ Invoked(P, Write(Sync(P), a, c, writes + 1))
  BY DEF Set
<1>2. a \in Accounts
  BY PrefsAssumption DEF Accounts
<1>3. SoundV(Sync(P), owed, writes) /\ Sync(P).accounts[a] # None
  <2>1. P[a] # 0
    BY <1>1 DEF Current
  <2> QED
    BY <1>2, <2>1, SyncKeeps, ViewIsSound
<1>4. Accept(a, c)
  BY DEF Set
<1> QED
  BY <1>1, <1>2, <1>3, <1>4, AcceptStep

\* The value of an identity is set also where nobody is connected.
LEMMA SetIdentityStep ==
    ASSUME PInv, NEW a \in Accounts, NEW c \in Cookies, SetIdentity(a, c) PROVE PInv'
<1>1. PICK P \in Snapshots :
        LET v == Evict(Sync(P), P) IN
        Invoked(P, Write(IF a \in Cached(v) THEN v ELSE Enter(v, {a}), a, c, writes + 1))
  BY DEF SetIdentity
<1> DEFINE v == Evict(Sync(P), P)
           u == IF a \in Cached(v) THEN v ELSE Enter(v, {a})
<1>2. Invoked(P, Write(u, a, c, writes + 1)) /\ Accept(a, c)
  BY <1>1 DEF SetIdentity
<1>3. SoundV(v, owed, writes)
  <2>1. SoundV(Sync(P), owed, writes)
    BY SyncKeeps, ViewIsSound
  <2> QED
    BY <2>1, EvictKeeps
<1> HIDE DEF v
<1>4. SoundV(u, owed, writes) /\ u.accounts[a] # None
  <2>1. CASE a \in Cached(v)
    BY <1>3, <2>1 DEF Cached
  <2>2. CASE a \notin Cached(v)
    <3>1. v.accounts[a] = None /\ {a} \in SUBSET Accounts
      BY <2>2 DEF Cached
    <3>2. SoundV(Enter(v, {a}), owed, writes) /\ a \in Cached(Enter(v, {a}))
      BY <1>3, <3>1, EnterKeeps, ViewIsSound
    <3> QED
      BY <2>2, <3>2 DEF Cached
  <2> QED
    BY <2>1, <2>2
<1> HIDE DEF u
<1> QED
  BY <1>2, <1>4, AcceptStep

\* The other natives, which read, load again, or save again.
LEMMA NativeStep ==
    ASSUME PInv, Read \/ Retry \/ \E a \in Clients : Refresh(a) \/ RetryPlayer(a) PROVE PInv'
<1>1. \A P \in Snapshots : /\ SoundV(Sync(P), owed, writes)
                           /\ \A a \in Accounts : P[a] # 0 => Sync(P).accounts[a] # None
  BY SyncKeeps, ViewIsSound
<1>2. CASE Read
  <2>1. PICK P \in Snapshots : Invoked(P, Sync(P))
    BY <1>2 DEF Read
  <2>2. UNCHANGED <<waits, owed, writes>>
    BY <1>2 DEF Read
  <2> QED
    BY <1>1, <2>1, <2>2, ReadStep
<1>3. CASE Retry
  <2>1. PICK P \in Snapshots : Invoked(P, RetryWrites(Sync(P)))
    BY <1>3 DEF Retry
  <2>2. UNCHANGED <<waits, owed, writes>>
    BY <1>3 DEF Retry
  <2>3. SoundV(RetryWrites(Sync(P)), owed, writes)
    BY <1>1, RetryKeeps
  <2> QED
    BY <2>1, <2>2, <2>3, ReadStep
<1>4. ASSUME NEW a \in Clients, Refresh(a) PROVE PInv'
  <2>1. PICK P \in Snapshots : Current(P, a) /\ Invoked(P, Load(Sync(P), {a}))
    BY <1>4 DEF Refresh
  <2>2. UNCHANGED <<waits, owed, writes>>
    BY <1>4 DEF Refresh
  <2>3. {a} \in SUBSET Accounts /\ Sync(P).accounts[a] # None
    <3>1. a \in Accounts /\ P[a] # 0
      BY <2>1, PrefsAssumption DEF Accounts, Current
    <3> QED
      BY <1>1, <3>1
  <2>4. SoundV(Load(Sync(P), {a}), owed, writes)
    BY <1>1, <2>3, LoadKeeps
  <2> QED
    BY <2>1, <2>2, <2>4, ReadStep
<1>5. ASSUME NEW a \in Clients, RetryPlayer(a) PROVE PInv'
  <2>1. PICK P \in Snapshots :
          LET failed == {b \in {a} : Sync(P).accounts[b].state = "failed"}
          IN Current(P, a) /\ Invoked(P, RetryWrites(Load(Sync(P), failed)))
    BY <1>5 DEF RetryPlayer
  <2> DEFINE failed == {b \in {a} : Sync(P).accounts[b].state = "failed"}
             v == Load(Sync(P), failed)
  <2>2. Current(P, a) /\ Invoked(P, RetryWrites(v)) /\ UNCHANGED <<waits, owed, writes>>
    BY <1>5, <2>1 DEF RetryPlayer
  <2>3. failed \in SUBSET Accounts /\ \A b \in failed : Sync(P).accounts[b] # None
    <3>1. a \in Accounts /\ P[a] # 0
      BY <2>2, PrefsAssumption DEF Accounts, Current
    <3> QED
      BY <1>1, <3>1
  <2> HIDE DEF failed
  <2>4. SoundV(v, owed, writes)
    BY <1>1, <2>3, LoadKeeps
  <2> HIDE DEF v
  <2>5. SoundV(RetryWrites(v), owed, writes)
    BY <2>4, RetryKeeps
  <2> QED
    BY <2>2, <2>5, ReadStep
<1> QED
  BY <1>2, <1>3, <1>4, <1>5

\* A script waits, where there is room.
LEMMA WaitForStep == ASSUME PInv, NEW w \in Wait, WaitFor(w) PROVE PInv'
<1>1. PICK P \in Snapshots : Invoked(P, Sync(P))
  BY DEF WaitFor
<1>2. /\ Cardinality(waits) < MaxWaits /\ waits' = waits \cup {w}
      /\ UNCHANGED <<owed, writes>>
  BY DEF WaitFor
<1>3. waits' \subseteq Wait /\ IsFiniteSet(waits') /\ Cardinality(waits') <= MaxWaits
  <2>1. waits \subseteq Wait /\ IsFiniteSet(waits) /\ Cardinality(waits) \in Nat /\ MaxWaits \in Nat
    BY FS_CardinalityType, PrefsAssumption DEF PInv, Others
  <2>2. IsFiniteSet(waits') /\ Cardinality(waits') <= Cardinality(waits) + 1
    <3>1. /\ IsFiniteSet(waits \cup {w})
          /\ Cardinality(waits \cup {w})
                = IF w \in waits THEN Cardinality(waits) ELSE Cardinality(waits) + 1
      BY <2>1, FS_AddElement
    <3> QED
      BY <1>2, <2>1, <3>1
  <2>3. Cardinality(waits') \in Nat
    BY <2>2, FS_CardinalityType
  <2> QED
    BY <1>2, <2>1, <2>2, <2>3
<1>4. Database'
  BY <1>1, <1>2 DEF PInv, Database, Invoked
<1>5. SoundV(Sync(P), owed', writes')
  BY <1>2, SyncKeeps, ViewIsSound
<1> QED
  BY <1>1, <1>3, <1>4, <1>5, InvokedKeeps

-----------------------------------------------------------------------------
(* The frame, and the question whether the extension can stop.             *)

\* A frame begins with a snapshot, or without one.
LEMMA FrameStep == ASSUME PInv, Frame PROVE PInv'
<1>1. PICK P \in Snapshots :
        LET seen == IF Fits(P) THEN P ELSE Nobody
        IN  Took(P) /\ players' = seen /\ Become(Sync(seen))
  BY DEF Frame
<1> DEFINE seen == IF Fits(P) THEN P ELSE Nobody
<1>2. /\ Took(P) /\ players' = seen /\ Become(Sync(seen))
      /\ main' = "frame" /\ left' = Len(done)
      /\ UNCHANGED <<online, joined, done, up, waits, stored, owed, held, writes>>
  BY <1>1 DEF Frame
<1>3. seen \in [Accounts -> 0..MaxConnections]
  <2>1. Nobody \in [Accounts -> 0..MaxConnections]
    BY PrefsAssumption DEF Nobody
  <2> QED
    BY <2>1, ViewIsSound
<1> HIDE DEF seen
<1>4. SoundV(Sync(seen), owed, writes)
  BY <1>3, SyncKeeps, ViewIsSound
<1>5. Sound(accounts', todo', done', owed', held', writes')
  BY <1>2, <1>4 DEF SoundV, Become
<1>6. faults' \in 0..FaultLimit
  BY <1>2, PrefsAssumption DEF Took, Snapshots, PInv, Others
<1>7. left' \in 0..Len(done')
  <2>1. Len(done) \in Nat
    BY LenProperties DEF PInv, Sound
  <2> QED
    BY <1>2, <2>1
<1>8. Others'
  BY <1>2, <1>3, <1>6, <1>7 DEF PInv, Others
<1> QED
  BY <1>2, <1>5, <1>8 DEF PInv, Database

\* The host asks whether the extension can stop.
LEMMA PrepareUnloadStep == ASSUME PInv, PrepareUnload PROVE PInv'
<1>1. /\ main' = "stop" /\ left' = Len(done)
      /\ UNCHANGED <<online, joined, players, accounts, todo, done, up, waits,
                     stored, owed, held, writes, faults>>
  BY DEF PrepareUnload
<1>2. Len(done) \in Nat
  BY LenProperties DEF PInv, Sound
<1>3. Others'
  BY <1>1, <1>2 DEF PInv, Others
<1> QED
  BY <1>1, <1>3 DEF PInv, Database

\* Pump ends by saving what is dirty and evicting what is not needed.
LEMMA PumpKeeps ==
    ASSUME PInv
    PROVE  /\ SoundV(Pumped, owed, writes) /\ Len(todo) <= Len(Pumped.todo)
           /\ \A a \in Accounts : accounts[a] # None =>
                 \/ Clean(accounts[a])
                 \/ Pumped.accounts[a] # None /\ Pumped.accounts[a].dirty = accounts[a].dirty
<1> DEFINE s == Save(View, Accounts)
<1>1. /\ SoundV(s, owed, writes) /\ Len(todo) <= Len(s.todo)
      /\ \A a \in Accounts : Alike(accounts[a], s.accounts[a])
  <2>1. Accounts \in SUBSET Accounts /\ View.todo = todo /\ View.accounts = accounts
    BY DEF View
  <2> QED
    BY <2>1, ViewIsSound, SaveKeeps
<1> HIDE DEF s
<1>2. /\ SoundV(Evict(s, players), owed, writes) /\ Evict(s, players).todo = s.todo
      /\ \A a \in Accounts :
            \/ Evict(s, players).accounts[a] = s.accounts[a]
            \/ s.accounts[a] # None /\ Clean(s.accounts[a])
  BY <1>1, EvictKeeps
<1>3. Pumped = Evict(s, players)
  BY DEF Pumped, s
<1> HIDE DEF Pumped
<1> QED
  BY <1>1, <1>2, <1>3 DEF Alike, Clean

\* A frame ends: waits that are over are gone.
LEMMA EndFrameStep == ASSUME PInv, EndFrame PROVE PInv'
<1>1. /\ left = 0 /\ main' = "idle" /\ Become(Pumped) /\ waits' \subseteq waits
      /\ faults' = faults \/ (faults < FaultLimit /\ faults' = faults + 1)
      /\ UNCHANGED <<online, joined, players, done, left, up, stored, owed, held, writes>>
  <2>1. PICK busy \in IF faults < FaultLimit
                      THEN SUBSET {w \in waits : ~Cancelled(w) /\ Answerable(Pumped, w)} ELSE {{}} :
           /\ waits' \subseteq waits
           /\ faults' = IF busy = {} THEN faults ELSE faults + 1
    <3>1. PICK busy \in IF faults < FaultLimit
                        THEN SUBSET {w \in {x \in waits : ~Cancelled(x)} : Answerable(Pumped, w)}
                        ELSE {{}} :
             /\ waits' = {w \in waits : ~Cancelled(w)}
                         \ ({w \in {x \in waits : ~Cancelled(x)} : Answerable(Pumped, w)} \ busy)
             /\ faults' = IF busy = {} THEN faults ELSE faults + 1
      BY DEF EndFrame
    <3>2. {w \in {x \in waits : ~Cancelled(x)} : Answerable(Pumped, w)}
             = {w \in waits : ~Cancelled(w) /\ Answerable(Pumped, w)}
      OBVIOUS
    <3> QED
      BY <3>1, <3>2
  <2>2. faults' = faults \/ (faults < FaultLimit /\ faults' = faults + 1)
    BY <2>1
  <2> QED
    BY <2>1, <2>2 DEF EndFrame
<1>2. waits' \subseteq Wait /\ IsFiniteSet(waits') /\ Cardinality(waits') <= MaxWaits
  <2>1. waits \subseteq Wait /\ IsFiniteSet(waits) /\ Cardinality(waits) <= MaxWaits
    BY DEF PInv, Others
  <2>2. IsFiniteSet(waits') /\ Cardinality(waits') <= Cardinality(waits)
    BY <1>1, <2>1, FS_Subset
  <2>3. Cardinality(waits') \in Nat /\ Cardinality(waits) \in Nat /\ MaxWaits \in Nat
    BY <2>1, <2>2, FS_CardinalityType, PrefsAssumption
  <2> QED
    BY <1>1, <2>1, <2>2, <2>3
<1>3. Others'
  BY <1>1, <1>2, PrefsAssumption DEF PInv, Others
<1>4. SoundV(Pumped, owed, writes)
  BY PumpKeeps
<1>5. Sound(accounts', todo', done', owed', held', writes')
  BY <1>1, <1>4 DEF SoundV, Become
<1> QED
  BY <1>1, <1>3, <1>5 DEF PInv, Database

\* The extension stops only when nothing is owed.
LEMMA EndStopStep == ASSUME PInv, EndStop PROVE PInv'
<1>1. /\ left = 0 /\ main' = "idle"
      /\ UNCHANGED <<online, joined, done, left, stored, owed, held, writes, faults>>
  BY DEF EndStop
<1>2. CASE Become(Pumped) /\ UNCHANGED <<up, players, waits>>
  <2>1. SoundV(Pumped, owed, writes)
    BY PumpKeeps
  <2>2. Sound(accounts', todo', done', owed', held', writes')
    BY <1>1, <1>2, <2>1 DEF SoundV, Become
  <2>3. Others'
    BY <1>1, <1>2 DEF PInv, Others
  <2> QED
    BY <1>1, <2>2, <2>3 DEF PInv, Database
<1>3. CASE /\ CanStop(Pumped)
           /\ up' = FALSE /\ accounts' = [a \in Accounts |-> None]
           /\ players' = Nobody /\ waits' = {} /\ UNCHANGED todo
  <2>1. /\ todo \in Seq(Job) /\ done \in Seq(Result) /\ Len(todo) + Len(done) <= Capacity
        /\ Matches(accounts, done \o todo) /\ Numbered(done \o todo, writes)
        /\ \A a \in Accounts : Kept(accounts[a], a, owed, held, writes)
    BY DEF PInv, Sound
  <2>2. done = <<>> /\ todo = <<>>
    <3>1. Len(Pumped.todo) = 0 /\ Len(todo) <= Len(Pumped.todo) /\ Len(todo) \in Nat
      BY <1>3, <2>1, PumpKeeps, EmptySeq, LenProperties DEF CanStop
    <3> QED
      BY <1>3, <2>1, <3>1, EmptySeq DEF CanStop
  <2>3. \A a \in Accounts, c \in Cookies : owed[a][c] = 0
    <3>1. ASSUME NEW a \in Accounts, NEW c \in Cookies PROVE owed[a][c] = 0
      <4>1. Kept(accounts[a], a, owed, held, writes)
        BY <2>1
      <4>2. CASE accounts[a] = None
        BY <4>1, <4>2 DEF Kept
      <4>3. CASE accounts[a] # None
        <5>1. Clean(accounts[a])
          BY <1>3, <4>3, PumpKeeps DEF CanStop, Cached, Clean
        <5>2. accounts[a].dirty[c] = 0
          BY <5>1 DEF Clean, Unset
        <5> QED
          BY <4>1, <4>3, <5>2 DEF Kept
      <4> QED
        BY <4>2, <4>3
    <3> QED
      BY <3>1
  <2>4. DOMAIN done = {} /\ DOMAIN (done \o todo) = {}
    <3>1. /\ DOMAIN done = 1..Len(done) /\ DOMAIN (done \o todo) = 1..Len(done \o todo)
          /\ Len(done \o todo) = Len(done) + Len(todo)
      BY <2>1, JobsUnderWay
    <3>2. Len(done) = 0 /\ Len(todo) = 0
      BY <2>2, EmptySeq
    <3> QED
      BY <3>1, <3>2
  <2>5. Sound(accounts', todo', done', owed', held', writes')
    <3>1. \A a \in Accounts : accounts'[a] = None
      BY <1>3
    <3>2. accounts' \in [Accounts -> Account \cup {None}]
      BY <1>3
    <3>3. Matches(accounts', done \o todo)
      BY <2>4, <3>1 DEF Matches, Flag
    <3>4. StoredIsSettled(done, owed) /\ ReadsAreGood(done, accounts', held)
      BY <2>4 DEF StoredIsSettled, ReadsAreGood
    <3>5. \A a \in Accounts : Kept(accounts'[a], a, owed, held, writes)
      BY <2>3, <3>1 DEF Kept
    <3> QED
      BY <1>1, <1>3, <2>1, <3>2, <3>3, <3>4, <3>5 DEF Sound
  <2>6. Others'
    <3>1. Nobody \in [Accounts -> 0..MaxConnections]
      BY PrefsAssumption DEF Nobody
    <3>2. IsFiniteSet({}) /\ Cardinality({}) <= MaxWaits
      BY FS_EmptySet, PrefsAssumption
    <3> QED
      BY <1>1, <1>3, <3>1, <3>2 DEF PInv, Others
  <2> QED
    BY <1>1, <2>5, <2>6 DEF PInv, Database
<1> QED
  BY <1>2, <1>3 DEF EndStop

\* Players come and go between the frames.
LEMMA PlayersStep ==
    ASSUME PInv, NEW a \in Clients, Connect(a) \/ Disconnect(a) PROVE PInv'
<1>1. UNCHANGED <<players, accounts, todo, done, main, left, up, waits, stored, owed, held,
                  writes, faults>>
  BY DEF Connect, Disconnect
<1>2. a \in Accounts /\ MaxConnections \in Nat
  BY PrefsAssumption DEF Accounts
<1>3. online' \in [Accounts -> 0..MaxConnections] /\ joined' \in [Accounts -> 0..MaxConnections]
  <2>1. online \in [Accounts -> 0..MaxConnections] /\ joined \in [Accounts -> 0..MaxConnections]
    BY DEF PInv, Others
  <2> QED
    BY <1>2, <2>1 DEF Connect, Disconnect
<1>4. Others'
  BY <1>1, <1>3 DEF PInv, Others
<1> QED
  BY <1>1, <1>4 DEF PInv, Database

-----------------------------------------------------------------------------
(* The completions.                                                        *)

\* A completion leaves an account.
LEMMA CompletedIsAccount ==
    ASSUME NEW x \in Account, NEW result \in Result,
           NEW y, y = IF result.kind = "load" THEN Loaded(x, result) ELSE Saved(x, result)
    PROVE  y \in Account /\ y # None
<1>1. /\ result.kind \in {"load", "save"} /\ result.values \in [Cookies -> Writes]
      /\ result.failed \in BOOLEAN
  BY DEF Result, Values
<1>2. x.dirty \in [Cookies -> Writes] /\ x.values \in [Cookies -> Writes]
  BY DEF Account, Values
<1>3. CASE result.kind = "load"
  <2>1. Overlaid(result.values, x.dirty) \in [Cookies -> Writes]
    BY <1>1, <1>2 DEF Overlaid
  <2>2. y \in Account
    BY <1>1, <1>2, <1>3, <2>1 DEF Loaded, Account, Values
  <2> QED
    BY <2>2, NoneAssumption
<1>4. CASE result.kind = "save"
  <2> DEFINE d == [c \in Cookies |-> IF x.dirty[c] = result.values[c] THEN 0 ELSE x.dirty[c]]
  <2>1. d \in [Cookies -> Writes]
    BY <1>2, WriteNumbers
  <2>2. y = [x EXCEPT !.saving = FALSE, !.error = result.failed, !.writeFailed = result.failed,
                      !.writeError = result.failed,
                      !.dirty = IF result.failed THEN x.dirty ELSE d]
    BY <1>4 DEF Saved
  <2> HIDE DEF d
  <2>3. y \in Account
    BY <1>1, <1>2, <2>1, <2>2 DEF Account, Values
  <2> QED
    BY <2>3, NoneAssumption
<1> QED
  BY <1>1, <1>3, <1>4

\* A completion ends one job of its account.
LEMMA CompletedAccount ==
    ASSUME NEW x \in Account, NEW result \in Result, Flag(x, result.kind),
           NEW y, y = IF result.kind = "load" THEN Loaded(x, result) ELSE Saved(x, result)
    PROVE  /\ y \in Account /\ y # None /\ ~Flag(y, result.kind)
           /\ \A kind \in {"load", "save"} :
                 kind # result.kind => (Flag(y, kind) <=> Flag(x, kind))
           /\ \A c \in Cookies :
                 \/ y.dirty[c] = x.dirty[c]
                 \/ y.dirty[c] = 0 /\ Cleans(result, result.account, c, x.dirty[c])
<1>1. /\ result.kind \in {"load", "save"} /\ result.values \in [Cookies -> Writes]
      /\ result.failed \in BOOLEAN
  BY DEF Result, Values
<1>2. /\ x.dirty \in [Cookies -> Writes] /\ x.values \in [Cookies -> Writes]
      /\ x.loading \in BOOLEAN /\ x.saving \in BOOLEAN /\ x.state \in {"loading", "ready", "failed"}
  BY DEF Account, Values
<1>3. x # None
  BY NoneAssumption
<1>4. y \in Account /\ y # None
  BY CompletedIsAccount
<1>5. CASE result.kind = "load"
  <2>1. y.loading = FALSE /\ y.saving = x.saving /\ y.dirty = x.dirty
    BY <1>5 DEF Loaded, Account
  <2> QED
    BY <1>3, <1>4, <1>5, <2>1 DEF Flag
<1>6. CASE result.kind = "save"
  <2>1. /\ y.saving = FALSE /\ y.loading = x.loading
        /\ y.dirty = IF result.failed THEN x.dirty
                     ELSE [c \in Cookies |-> IF x.dirty[c] = result.values[c] THEN 0 ELSE x.dirty[c]]
    BY <1>6 DEF Saved, Account
  <2>2. \A c \in Cookies :
           \/ y.dirty[c] = x.dirty[c]
           \/ y.dirty[c] = 0 /\ Cleans(result, result.account, c, x.dirty[c])
    BY <1>1, <1>6, <2>1 DEF Cleans, IsStored
  <2> QED
    BY <1>3, <1>4, <1>6, <2>1, <2>2 DEF Flag
<1> QED
  BY <1>1, <1>5, <1>6

\* The values of an account are as good as before.
LEMMA CompletedKept ==
    ASSUME NEW x \in Account, NEW result \in Result,
           NEW y, y = IF result.kind = "load" THEN Loaded(x, result) ELSE Saved(x, result),
           NEW a, a = result.account, NEW ow, NEW hd, NEW n, n \in Nat, Kept(x, a, ow, hd, n),
           IsRead(result) => \A c \in Cookies : x.dirty[c] = 0 => result.values[c] \in hd[a][c],
           IsStored(result) =>
              \A c \in Cookies : result.values[c] # 0 => ow[a][c] # result.values[c]
    PROVE  Kept(y, a, ow, hd, n)
<1>1. result.kind \in {"load", "save"} /\ x # None
  BY NoneAssumption DEF Result
<1>2. \A c \in Cookies :
        /\ x.dirty[c] <= n
        /\ ow[a][c] # 0 => x.dirty[c] = ow[a][c]
        /\ x.dirty[c] # 0 => ow[a][c] # 0 \/ x.dirty[c] \in hd[a][c]
        /\ x.state = "ready" =>
              IF x.dirty[c] # 0 THEN x.values[c] = x.dirty[c] ELSE x.values[c] \in hd[a][c]
  BY <1>1 DEF Kept
<1>3. CASE result.kind = "load" /\ result.failed
  <2>1. y.dirty = x.dirty /\ y.state = "failed"
    BY <1>3 DEF Loaded, Account
  <2>2. y # None
    BY CompletedIsAccount
  <2> QED
    BY <1>2, <2>1, <2>2 DEF Kept
<1>4. CASE result.kind = "load" /\ ~result.failed
  <2>1. /\ y.dirty = x.dirty /\ y.values = Overlaid(result.values, x.dirty)
    BY <1>4 DEF Loaded, Account
  <2>2. \A c \in Cookies :
           y.values[c] = IF x.dirty[c] # 0 THEN x.dirty[c] ELSE result.values[c]
    BY <2>1 DEF Overlaid
  <2>3. \A c \in Cookies : x.dirty[c] = 0 => result.values[c] \in hd[a][c]
    BY <1>4 DEF IsRead
  <2>4. Kept(y, a, ow, hd, n) <=>
           \A c \in Cookies :
              /\ y.dirty[c] <= n
              /\ ow[a][c] # 0 => y.dirty[c] = ow[a][c]
              /\ y.dirty[c] # 0 => ow[a][c] # 0 \/ y.dirty[c] \in hd[a][c]
              /\ y.state = "ready" =>
                    IF y.dirty[c] # 0 THEN y.values[c] = y.dirty[c] ELSE y.values[c] \in hd[a][c]
    BY CompletedIsAccount DEF Kept
  <2> QED
    BY <1>2, <2>1, <2>2, <2>3, <2>4
<1>5. CASE result.kind = "save"
  <2>1. /\ y.state = x.state /\ y.values = x.values
        /\ y.dirty = IF result.failed THEN x.dirty
                     ELSE [c \in Cookies |-> IF x.dirty[c] = result.values[c] THEN 0 ELSE x.dirty[c]]
    BY <1>5 DEF Saved, Account
  <2>2. y # None
    BY CompletedIsAccount
  <2> SUFFICES ASSUME NEW c \in Cookies
               PROVE  /\ y.dirty[c] <= n
                      /\ ow[a][c] # 0 => y.dirty[c] = ow[a][c]
                      /\ y.dirty[c] # 0 => ow[a][c] # 0 \/ y.dirty[c] \in hd[a][c]
                      /\ y.state = "ready" =>
                            IF y.dirty[c] # 0 THEN y.values[c] = y.dirty[c]
                            ELSE y.values[c] \in hd[a][c]
    BY <2>2 DEF Kept
  <2>3. CASE y.dirty[c] = x.dirty[c]
    BY <1>2, <2>1, <2>3
  <2>4. CASE y.dirty[c] # x.dirty[c]
    <3>1. ~result.failed /\ x.dirty[c] = result.values[c] /\ y.dirty[c] = 0 /\ x.dirty[c] # 0
      BY <2>1, <2>4
    <3>2. ow[a][c] = 0
      BY <1>2, <1>5, <3>1 DEF IsStored
    <3>3. 0 <= n
      OBVIOUS
    <3> QED
      BY <1>2, <2>1, <3>1, <3>2, <3>3
  <2> QED
    BY <2>3, <2>4
<1> QED
  BY <1>1, <1>3, <1>4, <1>5

\* The queue after its first job is taken.
LEMMA FirstTaken ==
    ASSUME NEW dn \in Seq(Result), NEW td \in Seq(Job), dn # <<>>
    PROVE  LET U == dn \o td
               Q == Tail(dn) \o td
           IN /\ Head(dn) = dn[1] /\ 1 \in DOMAIN dn /\ dn[1] \in Result
              /\ Tail(dn) \in Seq(Result) /\ Len(Tail(dn)) = Len(dn) - 1
              /\ \A i \in DOMAIN Tail(dn) : i + 1 \in DOMAIN dn /\ Tail(dn)[i] = dn[i + 1]
              /\ 1 \in DOMAIN U /\ U[1] = dn[1]
              /\ \A i \in DOMAIN Q : i \in Nat \ {0} /\ i + 1 \in DOMAIN U /\ Q[i] = U[i + 1]
              /\ \A i \in DOMAIN U : i = 1 \/ (i \in Nat /\ i - 1 \in DOMAIN Q)
<1> DEFINE U == dn \o td
           Q == Tail(dn) \o td
<1>1. /\ Head(dn) = dn[1] /\ Tail(dn) \in Seq(Result) /\ Len(Tail(dn)) = Len(dn) - 1
      /\ \A i \in 1..Len(Tail(dn)) : Tail(dn)[i] = dn[i + 1]
      /\ Len(dn) \in Nat /\ Len(dn) # 0
  <2>1. Tail(dn) \in Seq(Result) /\ Len(Tail(dn)) = Len(dn) - 1 /\ Head(dn) = dn[1]
    BY HeadTailProperties
  <2>2. \A i \in 1..Len(Tail(dn)) : Tail(dn)[i] = dn[i + 1]
    BY HeadTailProperties
  <2>3. Len(dn) \in Nat /\ Len(dn) # 0
    BY LenProperties, EmptySeq
  <2> QED
    BY <2>1, <2>2, <2>3
<1>2. /\ Len(td) \in Nat /\ Len(U) = Len(dn) + Len(td)
      /\ DOMAIN dn = 1..Len(dn) /\ DOMAIN td = 1..Len(td) /\ DOMAIN U = 1..Len(U)
      /\ \A i \in DOMAIN dn : i \in DOMAIN U /\ U[i] = dn[i]
      /\ \A i \in DOMAIN td : Len(dn) + i \in DOMAIN U /\ U[Len(dn) + i] = td[i]
  BY JobsUnderWay
<1>3. /\ DOMAIN Tail(dn) = 1..Len(Tail(dn))
      /\ Len(Q) = Len(Tail(dn)) + Len(td) /\ DOMAIN Q = 1..Len(Q)
      /\ \A i \in DOMAIN Tail(dn) : i \in DOMAIN Q /\ Q[i] = Tail(dn)[i]
      /\ \A i \in DOMAIN td : Len(Tail(dn)) + i \in DOMAIN Q /\ Q[Len(Tail(dn)) + i] = td[i]
  BY <1>1, JobsUnderWay
<1>4. 1 \in DOMAIN dn /\ dn[1] \in Result /\ 1 \in DOMAIN U /\ U[1] = dn[1]
  <2>1. 1 \in DOMAIN dn
    BY <1>1, <1>2
  <2>2. dn[1] \in Result
    BY <1>2, <2>1, ElementOfSeq
  <2> QED
    BY <1>2, <2>1, <2>2
<1> HIDE DEF U, Q
<1>5. \A i \in DOMAIN Tail(dn) : i + 1 \in DOMAIN dn /\ Tail(dn)[i] = dn[i + 1]
  BY <1>1, <1>2, <1>3
<1>6. ASSUME NEW i \in DOMAIN Q PROVE i \in Nat \ {0} /\ i + 1 \in DOMAIN U /\ Q[i] = U[i + 1]
  <2>1. i \in Nat \ {0} /\ i + 1 \in DOMAIN U
    BY <1>1, <1>2, <1>3
  <2>2. CASE i <= Len(Tail(dn))
    <3>1. i \in DOMAIN Tail(dn)
      BY <1>3, <2>2
    <3> QED
      BY <1>2, <1>3, <1>5, <2>1, <3>1
  <2>3. CASE ~(i <= Len(Tail(dn)))
    <3>1. /\ i - Len(Tail(dn)) \in DOMAIN td /\ Len(Tail(dn)) + (i - Len(Tail(dn))) = i
          /\ Len(dn) + (i - Len(Tail(dn))) = i + 1
      BY <1>1, <1>2, <1>3, <2>3
    <3> QED
      BY <1>2, <1>3, <2>1, <3>1
  <2> QED
    BY <2>2, <2>3
<1>7. \A i \in DOMAIN U : i = 1 \/ (i \in Nat /\ i - 1 \in DOMAIN Q)
  BY <1>1, <1>2, <1>3
<1> QED
  BY <1>1, <1>4, <1>5, <1>6, <1>7 DEF U, Q

\* Dispatch calls a completion: what it cleans is not owed, and what it shows is dirty or was
\* in the database.
LEMMA CompleteStep == ASSUME PInv, Complete PROVE PInv'
<1> DEFINE result == Head(done)
           a == result.account
           x == accounts[a]
           y == IF result.kind = "load" THEN Loaded(x, result) ELSE Saved(x, result)
           dn == Tail(done)
           U == done \o todo
           Q == dn \o todo
           acct == accounts'
<1>1. /\ accounts \in [Accounts -> Account \cup {None}]
      /\ todo \in Seq(Job) /\ done \in Seq(Result) /\ Len(todo) + Len(done) <= Capacity
      /\ Matches(accounts, U) /\ Numbered(U, writes)
      /\ StoredIsSettled(done, owed) /\ ReadsAreGood(done, accounts, held)
      /\ \A b \in Accounts : Kept(accounts[b], b, owed, held, writes)
  BY DEF PInv, Sound
<1>2. /\ left > 0 /\ left' = left - 1 /\ done' = dn
      /\ UNCHANGED <<online, joined, players, todo, main, up, waits, stored, owed, held,
                     writes, faults>>
  BY DEF Complete
<1>3. left \in 0..Len(done) /\ Len(done) \in Nat /\ Len(todo) \in Nat /\ Capacity \in Nat
  BY <1>1, LenProperties, PrefsAssumption DEF PInv, Others
<1>4. done # <<>>
  BY <1>2, <1>3, EmptySeq
<1>5. /\ result = done[1] /\ 1 \in DOMAIN done /\ result \in Result
      /\ dn \in Seq(Result) /\ Len(dn) = Len(done) - 1
      /\ \A i \in DOMAIN dn : i + 1 \in DOMAIN done /\ dn[i] = done[i + 1]
      /\ 1 \in DOMAIN U /\ U[1] = result
      /\ \A i \in DOMAIN Q : i \in Nat \ {0} /\ i + 1 \in DOMAIN U /\ Q[i] = U[i + 1]
      /\ \A i \in DOMAIN U : i = 1 \/ (i \in Nat /\ i - 1 \in DOMAIN Q)
  BY <1>1, <1>4, FirstTaken
<1>6. a \in Accounts /\ result.kind \in {"load", "save"} /\ Flag(x, result.kind)
  <2>1. Sound(accounts, todo, done, owed, held, writes)
    BY DEF PInv
  <2>2. /\ done[1].account \in Accounts /\ done[1].kind \in {"load", "save"}
        /\ Flag(accounts[done[1].account], done[1].kind)
    BY <1>5, <2>1, JobFlagged
  <2> QED
    BY <1>5, <2>2
<1>7. x \in Account
  BY <1>1, <1>6 DEF Flag
<1>8. acct \in [Accounts -> Account \cup {None}] /\ acct[a] = y
      /\ \A b \in Accounts : b # a => acct[b] = accounts[b]
  <2>1. acct = [b \in Accounts |->
                   IF b # a \/ accounts[b] = None THEN accounts[b]
                   ELSE IF result.kind = "load" THEN Loaded(accounts[b], result)
                   ELSE Saved(accounts[b], result)]
    BY DEF Complete
  <2>2. x # None
    BY <1>7, NoneAssumption
  <2>3. y \in Account
    BY <1>5, <1>7, CompletedIsAccount
  <2> HIDE DEF result
  <2>4. acct[a] = y /\ \A b \in Accounts : b # a => acct[b] = accounts[b]
    BY <1>6, <2>1, <2>2
  <2> HIDE DEF y
  <2>5. \A b \in Accounts : acct[b] \in Account \cup {None}
    BY <1>1, <2>3, <2>4
  <2>6. DOMAIN acct = Accounts /\ acct = [b \in Accounts |-> acct[b]]
    BY <2>1
  <2> QED
    BY <2>4, <2>5, <2>6
<1>9. /\ y # None /\ ~Flag(y, result.kind)
      /\ \A kind \in {"load", "save"} : kind # result.kind => (Flag(y, kind) <=> Flag(x, kind))
      /\ \A c \in Cookies :
            \/ y.dirty[c] = x.dirty[c]
            \/ y.dirty[c] = 0 /\ Cleans(result, a, c, x.dirty[c])
  <2>1. y = IF result.kind = "load" THEN Loaded(x, result) ELSE Saved(x, result)
    OBVIOUS
  <2> HIDE DEF result, x, y
  <2> QED
    BY <1>5, <1>6, <1>7, <2>1, CompletedAccount
<1> HIDE DEF y
<1>10. Matches(acct, Q)
  <2> SUFFICES ASSUME NEW b \in Accounts, NEW kind \in {"load", "save"}
               PROVE  /\ Flag(acct[b], kind) <=> \E i \in DOMAIN Q : Concerns(Q[i], kind, b)
                      /\ \A i, j \in DOMAIN Q :
                            Concerns(Q[i], kind, b) /\ Concerns(Q[j], kind, b) => i = j
    BY DEF Matches
  <2> HIDE DEF result, U, Q, x
  <2>1. /\ Flag(accounts[b], kind) <=> \E i \in DOMAIN U : Concerns(U[i], kind, b)
        /\ \A i, j \in DOMAIN U : Concerns(U[i], kind, b) /\ Concerns(U[j], kind, b) => i = j
    BY <1>1 DEF Matches
  <2>2. \A i, j \in DOMAIN Q : Concerns(Q[i], kind, b) /\ Concerns(Q[j], kind, b) => i = j
    <3> SUFFICES ASSUME NEW i \in DOMAIN Q, NEW j \in DOMAIN Q,
                        Concerns(Q[i], kind, b), Concerns(Q[j], kind, b)
                 PROVE  i = j
      OBVIOUS
    <3>1. i \in Nat /\ j \in Nat /\ i + 1 = j + 1
      BY <1>5, <2>1
    <3> QED
      BY <3>1
  <2>3. Concerns(U[1], kind, b) <=> kind = result.kind /\ b = a
    BY <1>5 DEF Concerns
  <2>4. CASE kind = result.kind /\ b = a
    <3>1. ~Flag(acct[b], kind)
      BY <1>8, <1>9, <2>4
    <3>2. ASSUME NEW i \in DOMAIN Q PROVE ~Concerns(Q[i], kind, b)
      <4>1. i + 1 # 1
        BY <1>5
      <4> QED
        BY <1>5, <2>1, <2>3, <2>4, <4>1
    <3> QED
      BY <2>2, <3>1, <3>2
  <2>5. CASE ~(kind = result.kind /\ b = a)
    <3>1. Flag(acct[b], kind) <=> Flag(accounts[b], kind)
      BY <1>8, <1>9, <2>5 DEF x
    <3>2. (\E i \in DOMAIN U : Concerns(U[i], kind, b)) => \E i \in DOMAIN Q : Concerns(Q[i], kind, b)
      <4>1. ASSUME NEW i \in DOMAIN U, Concerns(U[i], kind, b)
            PROVE  \E k \in DOMAIN Q : Concerns(Q[k], kind, b)
        <5>1. i # 1
          BY <2>3, <2>5, <4>1
        <5>2. i - 1 \in DOMAIN Q /\ i \in Nat /\ (i - 1) + 1 = i
          BY <1>5, <5>1
        <5> QED
          BY <1>5, <4>1, <5>2
      <4> QED
        BY <4>1
    <3>3. (\E i \in DOMAIN Q : Concerns(Q[i], kind, b)) => \E i \in DOMAIN U : Concerns(U[i], kind, b)
      BY <1>5
    <3> QED
      BY <2>1, <2>2, <3>1, <3>2, <3>3
  <2> QED
    BY <2>4, <2>5
<1>11. Numbered(Q, writes)
  BY <1>1, <1>5 DEF Numbered
<1>12. StoredIsSettled(dn, owed)
  BY <1>1, <1>5 DEF StoredIsSettled
<1>13. ReadsAreGood(dn, acct, held)
  <2> SUFFICES ASSUME NEW i \in DOMAIN dn, IsRead(dn[i]), NEW c \in Cookies
               PROVE  \/ dn[i].values[c] \in held[dn[i].account][c]
                      \/ /\ acct[dn[i].account].dirty[c] # 0
                         /\ \A j \in DOMAIN dn : j < i =>
                               ~Cleans(dn[j], dn[i].account, c, acct[dn[i].account].dirty[c])
    BY DEF ReadsAreGood, ReadIsGood
  <2> DEFINE b == dn[i].account
  <2>1. i + 1 \in DOMAIN done /\ dn[i] = done[i + 1] /\ b \in Accounts /\ i \in Nat \ {0}
    <3>1. i + 1 \in DOMAIN done /\ dn[i] = done[i + 1]
      BY <1>5
    <3>2. DOMAIN dn = 1..Len(dn) /\ Len(dn) \in Nat
      BY <1>5, LenProperties
    <3>3. dn[i] \in Result
      BY <1>5, <3>2, ElementOfSeq
    <3> QED
      BY <3>1, <3>2, <3>3 DEF Result
  <2>2. ReadIsGood(done, i + 1, accounts[b], held)
    BY <1>1, <2>1 DEF ReadsAreGood
  <2>3. CASE done[i + 1].values[c] \in held[b][c]
    BY <2>1, <2>3
  <2>4. CASE /\ accounts[b].dirty[c] # 0
             /\ \A j \in DOMAIN done : j < i + 1 => ~Cleans(done[j], b, c, accounts[b].dirty[c])
    <3>1. acct[b].dirty[c] = accounts[b].dirty[c]
      <4>1. CASE b # a
        BY <1>8, <2>1, <4>1
      <4>2. CASE b = a
        <5>1. ~Cleans(result, a, c, x.dirty[c])
          <6>1. 1 < i + 1
            BY <2>1
          <6> QED
            BY <1>5, <2>4, <4>2, <6>1
        <5>2. y.dirty[c] = x.dirty[c]
          BY <1>9, <5>1
        <5>3. acct[b] = y /\ accounts[b] = x
          BY <1>8, <4>2
        <5> QED
          BY <5>2, <5>3
      <4> QED
        BY <4>1, <4>2
    <3>2. ASSUME NEW j \in DOMAIN dn, j < i PROVE ~Cleans(dn[j], b, c, accounts[b].dirty[c])
      <4>1. j + 1 \in DOMAIN done /\ dn[j] = done[j + 1] /\ j + 1 < i + 1
        <5>1. j \in Nat
          BY <1>5, LenProperties
        <5> QED
          BY <1>5, <2>1, <3>2, <5>1
      <4> QED
        BY <2>4, <4>1
    <3> QED
      BY <2>4, <3>1, <3>2
  <2> QED
    BY <2>1, <2>2, <2>3, <2>4 DEF ReadIsGood
<1>14. ASSUME NEW b \in Accounts PROVE Kept(acct[b], b, owed, held, writes)
  <2>1. CASE b # a
    BY <1>1, <1>8, <2>1
  <2>2. CASE b = a
    <3>1. IsRead(result) => \A c \in Cookies : x.dirty[c] = 0 => result.values[c] \in held[a][c]
      <4>1. IsRead(done[1]) => ReadIsGood(done, 1, accounts[done[1].account], held)
        BY <1>1, <1>5 DEF ReadsAreGood
      <4> QED
        BY <1>5, <4>1 DEF ReadIsGood
    <3>2. IsStored(result) =>
             \A c \in Cookies : result.values[c] # 0 => owed[a][c] # result.values[c]
      BY <1>1, <1>5 DEF StoredIsSettled
    <3>3. Kept(x, a, owed, held, writes) /\ writes \in Nat
      BY <1>1, <1>6, ViewIsSound
    <3>4. Kept(y, a, owed, held, writes)
      <4> HIDE DEF result, x
      <4> QED
        BY <1>5, <1>7, <3>1, <3>2, <3>3, CompletedKept DEF y
    <3> QED
      BY <1>8, <2>2, <3>4
  <2> QED
    BY <2>1, <2>2
<1>15. Len(todo) + Len(dn) <= Capacity /\ left' \in 0..Len(dn)
  BY <1>1, <1>2, <1>3, <1>5
<1>16. Sound(accounts', todo', done', owed', held', writes')
  BY <1>1, <1>2, <1>5, <1>8, <1>10, <1>11, <1>12, <1>13, <1>14, <1>15 DEF Sound
<1>17. Others'
  BY <1>2, <1>15 DEF PInv, Others
<1> QED
  BY <1>2, <1>16, <1>17 DEF PInv, Database

-----------------------------------------------------------------------------
(* The worker and the other servers.                                       *)

\* What the database does to a value: it keeps what is owed and adds to what it held, or it
\* takes what is owed, and no longer is.
Settles(ow, hd, ow2, hd2) ==
    \A a \in Accounts, c \in Cookies :
        \/ ow2[a][c] = ow[a][c] /\ hd[a][c] \subseteq hd2[a][c]
        \/ ow[a][c] # 0 /\ ow2[a][c] = 0 /\ ow[a][c] \in hd2[a][c]

\* The cache stays sound: what is owed is dirty, and no save that was stored carries it, so
\* that a value which was read before will not be shown.
LEMMA SettledIsSound ==
    ASSUME NEW accs, NEW td, NEW dn, NEW ow, NEW hd, NEW n \in Nat, NEW n2 \in Nat, n <= n2,
           NEW ow2, NEW hd2, Sound(accs, td, dn, ow, hd, n), Settles(ow, hd, ow2, hd2)
    PROVE  Sound(accs, td, dn, ow2, hd2, n2)
<1>1. /\ accs \in [Accounts -> Account \cup {None}] /\ td \in Seq(Job) /\ dn \in Seq(Result)
      /\ Numbered(dn \o td, n) /\ StoredIsSettled(dn, ow) /\ ReadsAreGood(dn, accs, hd)
      /\ \A a \in Accounts : Kept(accs[a], a, ow, hd, n)
  BY DEF Sound
<1>2. Numbered(dn \o td, n2)
  <2>1. \A i \in DOMAIN (dn \o td), c \in Cookies : (dn \o td)[i].values[c] \in Nat
    <3>1. \A i \in DOMAIN (dn \o td) : (dn \o td)[i].values \in Values
      BY <1>1, JobsUnderWay
    <3> QED
      BY <3>1, WriteNumbers DEF Values
  <2>2. \A v \in Nat : v <= n => v <= n2
    OBVIOUS
  <2> QED
    BY <1>1, <2>1, <2>2 DEF Numbered
<1>3. \A i \in DOMAIN dn : dn[i].account \in Accounts
  BY JobFlagged
<1>4. StoredIsSettled(dn, ow2)
  BY <1>1, <1>3 DEF StoredIsSettled, Settles
<1>5. ReadsAreGood(dn, accs, hd2)
  <2> SUFFICES ASSUME NEW i \in DOMAIN dn, IsRead(dn[i]), NEW c \in Cookies
               PROVE  LET a == dn[i].account IN
                      \/ dn[i].values[c] \in hd2[a][c]
                      \/ /\ accs[a].dirty[c] # 0
                         /\ \A j \in DOMAIN dn : j < i => ~Cleans(dn[j], a, c, accs[a].dirty[c])
    BY DEF ReadsAreGood, ReadIsGood
  <2> DEFINE a == dn[i].account
  <2>1. a \in Accounts /\ accs[a] # None
    BY JobFlagged DEF Flag
  <2>2. \/ dn[i].values[c] \in hd[a][c]
        \/ /\ accs[a].dirty[c] # 0
           /\ \A j \in DOMAIN dn : j < i => ~Cleans(dn[j], a, c, accs[a].dirty[c])
    BY <1>1 DEF ReadsAreGood, ReadIsGood
  <2>3. CASE hd[a][c] \subseteq hd2[a][c]
    BY <2>2, <2>3
  <2>4. CASE ow[a][c] # 0
    <3>1. accs[a].dirty[c] = ow[a][c]
      BY <1>1, <2>1, <2>4 DEF Kept
    <3>2. \A j \in DOMAIN dn : ~Cleans(dn[j], a, c, ow[a][c])
      BY <1>1, <2>4 DEF Cleans, StoredIsSettled
    <3> QED
      BY <2>4, <3>1, <3>2
  <2> QED
    BY <2>1, <2>3, <2>4 DEF Settles
<1>6. ASSUME NEW a \in Accounts PROVE Kept(accs[a], a, ow2, hd2, n2)
  <2>1. Kept(accs[a], a, ow, hd, n)
    BY <1>1
  <2>2. CASE accs[a] = None
    BY <2>1, <2>2 DEF Kept, Settles
  <2>3. CASE accs[a] # None
    <3> SUFFICES ASSUME NEW c \in Cookies
                 PROVE  /\ accs[a].dirty[c] <= n2
                        /\ ow2[a][c] # 0 => accs[a].dirty[c] = ow2[a][c]
                        /\ accs[a].dirty[c] # 0 => ow2[a][c] # 0 \/ accs[a].dirty[c] \in hd2[a][c]
                        /\ accs[a].state = "ready" =>
                              IF accs[a].dirty[c] # 0 THEN accs[a].values[c] = accs[a].dirty[c]
                              ELSE accs[a].values[c] \in hd2[a][c]
      BY <2>3 DEF Kept
    <3>1. accs[a].dirty[c] <= n2
      <4>1. accs[a].dirty[c] \in Nat /\ accs[a].dirty[c] <= n
        BY <1>1, <2>1, <2>3, WriteNumbers DEF Account, Values, Kept
      <4> QED
        BY <4>1
    <3>2. /\ ow[a][c] # 0 => accs[a].dirty[c] = ow[a][c]
          /\ accs[a].dirty[c] # 0 => ow[a][c] # 0 \/ accs[a].dirty[c] \in hd[a][c]
          /\ accs[a].state = "ready" =>
                IF accs[a].dirty[c] # 0 THEN accs[a].values[c] = accs[a].dirty[c]
                ELSE accs[a].values[c] \in hd[a][c]
      BY <2>1, <2>3 DEF Kept
    <3>3. \/ ow2[a][c] = ow[a][c] /\ hd[a][c] \subseteq hd2[a][c]
          \/ ow[a][c] # 0 /\ ow2[a][c] = 0 /\ ow[a][c] \in hd2[a][c]
      BY DEF Settles
    <3> QED
      BY <3>1, <3>2, <3>3
  <2> QED
    BY <2>2, <2>3
<1> QED
  BY <1>2, <1>4, <1>5, <1>6 DEF Sound

\* A job that ran keeps its place among those under way.
LEMMA JobRan ==
    ASSUME NEW dn \in Seq(Result), NEW td \in Seq(Job), td # <<>>, NEW r \in Result
    PROVE  LET U == dn \o td
               dn2 == Append(dn, r)
               Q == dn2 \o Tail(td)
               k == Len(dn) + 1
           IN /\ Head(td) \in Job /\ k \in DOMAIN U /\ U[k] = Head(td)
              /\ dn2 \in Seq(Result) /\ Tail(td) \in Seq(Job)
              /\ Len(Tail(td)) + Len(dn2) = Len(td) + Len(dn)
              /\ \A i \in DOMAIN dn2 : \/ i \in DOMAIN dn /\ dn2[i] = dn[i]
                                       \/ i = k /\ dn2[i] = r
              /\ \A i \in DOMAIN dn : i \in DOMAIN dn2 /\ i < k
              /\ DOMAIN Q = DOMAIN U /\ Q[k] = r
              /\ \A i \in DOMAIN U : i # k => Q[i] = U[i]
<1> DEFINE U == dn \o td
           dn2 == Append(dn, r)
           tl == Tail(td)
           Q == dn2 \o tl
           k == Len(dn) + 1
<1>1. /\ Head(td) = td[1] /\ tl \in Seq(Job) /\ Len(tl) = Len(td) - 1
      /\ \A i \in 1..Len(tl) : tl[i] = td[i + 1]
      /\ Len(td) \in Nat /\ Len(td) # 0
  <2>1. tl \in Seq(Job) /\ Len(tl) = Len(td) - 1 /\ Head(td) = td[1]
    BY HeadTailProperties
  <2>2. \A i \in 1..Len(tl) : tl[i] = td[i + 1]
    BY HeadTailProperties
  <2>3. Len(td) \in Nat /\ Len(td) # 0
    BY LenProperties, EmptySeq
  <2> QED
    BY <2>1, <2>2, <2>3
<1>2. /\ Len(dn) \in Nat /\ Len(U) = Len(dn) + Len(td)
      /\ DOMAIN dn = 1..Len(dn) /\ DOMAIN td = 1..Len(td) /\ DOMAIN U = 1..Len(U)
      /\ \A i \in DOMAIN dn : i \in DOMAIN U /\ U[i] = dn[i]
      /\ \A i \in DOMAIN td : Len(dn) + i \in DOMAIN U /\ U[Len(dn) + i] = td[i]
  BY JobsUnderWay
<1>3. /\ dn2 \in Seq(Result) /\ Len(dn2) = k /\ DOMAIN dn2 = 1..Len(dn2)
      /\ \A i \in 1..Len(dn) : dn2[i] = dn[i]
      /\ dn2[k] = r
  <2>1. /\ dn2 \in Seq(Result) /\ Len(dn2) = k
        /\ \A i \in 1..Len(dn) : dn2[i] = dn[i]
        /\ dn2[k] = r
    BY AppendProperties
  <2> QED
    BY <2>1, LenProperties
<1> HIDE DEF dn2, tl
<1>4. /\ Len(Q) = Len(dn2) + Len(tl) /\ DOMAIN tl = 1..Len(tl) /\ DOMAIN Q = 1..Len(Q)
      /\ \A i \in DOMAIN dn2 : i \in DOMAIN Q /\ Q[i] = dn2[i]
      /\ \A i \in DOMAIN tl : Len(dn2) + i \in DOMAIN Q /\ Q[Len(dn2) + i] = tl[i]
  BY <1>1, <1>3, JobsUnderWay
<1> HIDE DEF U, Q
<1>5. Head(td) \in Job /\ k \in DOMAIN U /\ U[k] = Head(td)
  <2>1. 1 \in DOMAIN td
    BY <1>1, <1>2
  <2>2. td[1] \in Job
    BY <1>2, <2>1, ElementOfSeq
  <2> QED
    BY <1>1, <1>2, <2>1, <2>2
<1>6. Len(tl) + Len(dn2) = Len(td) + Len(dn) /\ DOMAIN Q = DOMAIN U
  BY <1>1, <1>2, <1>3, <1>4
<1>7. \A i \in DOMAIN dn2 : \/ i \in DOMAIN dn /\ dn2[i] = dn[i]
                            \/ i = k /\ dn2[i] = r
  BY <1>2, <1>3
<1>8. \A i \in DOMAIN dn : i \in DOMAIN dn2 /\ i < k
  BY <1>2, <1>3
<1>9. Q[k] = r
  <2>1. k \in DOMAIN dn2
    BY <1>2, <1>3
  <2> QED
    BY <1>3, <1>4, <2>1
<1>10. ASSUME NEW i \in DOMAIN U, i # k PROVE Q[i] = U[i]
  <2>1. CASE i < k
    <3>1. i \in DOMAIN dn /\ i \in 1..Len(dn)
      BY <1>2, <2>1
    <3> QED
      BY <1>2, <1>3, <1>4, <1>8, <3>1
  <2>2. CASE i > k
    <3>1. /\ i - Len(dn) \in DOMAIN td /\ Len(dn) + (i - Len(dn)) = i
          /\ i - k \in 1..Len(tl) /\ (i - k) + 1 = i - Len(dn) /\ Len(dn2) + (i - k) = i
      BY <1>1, <1>2, <1>3, <2>2
    <3>2. U[i] = td[i - Len(dn)] /\ Q[i] = tl[i - k]
      BY <1>2, <1>4, <3>1
    <3> QED
      BY <1>1, <3>1, <3>2
  <2> QED
    BY <1>2, <1>10, <2>1, <2>2
<1> QED
  BY <1>1, <1>3, <1>5, <1>6, <1>7, <1>8, <1>9, <1>10 DEF U, Q, dn2, tl

\* The worker has run a job: the cache is sound, when what it stored is not owed and what it
\* read the database held.
LEMMA RanIsSound ==
    ASSUME NEW accs, NEW td, NEW dn, NEW ow, NEW hd, NEW n, Sound(accs, td, dn, ow, hd, n),
           td # <<>>, NEW r \in Result, r.kind = Head(td).kind, r.account = Head(td).account,
           r.kind = "save" => r.values = Head(td).values,
           IsStored(r) =>
              \A c \in Cookies : r.values[c] # 0 => ow[r.account][c] # r.values[c],
           IsRead(r) => \A c \in Cookies : r.values[c] \in hd[r.account][c]
    PROVE  Sound(accs, Tail(td), Append(dn, r), ow, hd, n)
<1> DEFINE U == dn \o td
           dn2 == Append(dn, r)
           Q == dn2 \o Tail(td)
           k == Len(dn) + 1
<1>1. /\ td \in Seq(Job) /\ dn \in Seq(Result) /\ Len(td) + Len(dn) <= Capacity
      /\ Matches(accs, U) /\ Numbered(U, n)
      /\ StoredIsSettled(dn, ow) /\ ReadsAreGood(dn, accs, hd)
  BY DEF Sound
<1>2. /\ k \in DOMAIN U /\ U[k] = Head(td)
      /\ dn2 \in Seq(Result) /\ Tail(td) \in Seq(Job)
      /\ Len(Tail(td)) + Len(dn2) = Len(td) + Len(dn)
      /\ \A i \in DOMAIN dn2 : \/ i \in DOMAIN dn /\ dn2[i] = dn[i]
                               \/ i = k /\ dn2[i] = r
      /\ \A i \in DOMAIN dn : i \in DOMAIN dn2 /\ i < k
      /\ DOMAIN Q = DOMAIN U /\ Q[k] = r
      /\ \A i \in DOMAIN U : i # k => Q[i] = U[i]
  BY <1>1, JobRan
<1>3. Len(dn) \in Nat /\ \A i \in DOMAIN dn : i \in Nat
  BY <1>1, LenProperties
<1> HIDE DEF U, Q, dn2
<1>4. ASSUME NEW i \in DOMAIN U PROVE Q[i].kind = U[i].kind /\ Q[i].account = U[i].account
  <2>1. CASE i = k
    <3>1. Q[i] = r /\ U[i] = Head(td)
      BY <1>2, <2>1
    <3> QED
      BY <3>1
  <2>2. CASE i # k
    <3>1. Q[i] = U[i]
      BY <1>2, <2>2
    <3> QED
      BY <3>1
  <2> QED
    BY <2>1, <2>2
<1>5. Matches(accs, Q)
  <2>1. DOMAIN Q = DOMAIN U
    BY <1>2
  <2>2. \A i \in DOMAIN U, kind \in {"load", "save"}, a \in Accounts :
           Concerns(Q[i], kind, a) <=> Concerns(U[i], kind, a)
    BY <1>4 DEF Concerns
  <2> QED
    BY <1>1, <2>1, <2>2 DEF Matches
<1>6. Numbered(Q, n)
  <2> SUFFICES ASSUME NEW i \in DOMAIN U, NEW c \in Cookies, Q[i].kind = "save"
               PROVE  Q[i].values[c] <= n
    BY <1>2 DEF Numbered
  <2>1. U[i].kind = "save" /\ U[i].values[c] <= n
    BY <1>1, <1>4 DEF Numbered
  <2>2. Q[i].values = U[i].values
    BY <1>2
  <2> QED
    BY <2>1, <2>2
<1>7. StoredIsSettled(dn2, ow)
  BY <1>1, <1>2 DEF StoredIsSettled
<1>8. ReadsAreGood(dn2, accs, hd)
  <2> SUFFICES ASSUME NEW i \in DOMAIN dn2, IsRead(dn2[i])
               PROVE  ReadIsGood(dn2, i, accs[dn2[i].account], hd)
    BY DEF ReadsAreGood
  <2>1. CASE i = k /\ dn2[i] = r
    BY <2>1 DEF ReadIsGood
  <2>2. CASE i \in DOMAIN dn /\ dn2[i] = dn[i]
    <3>1. ReadIsGood(dn, i, accs[dn[i].account], hd)
      BY <1>1, <2>2 DEF ReadsAreGood
    <3>2. \A j \in DOMAIN dn2 : j < i => j \in DOMAIN dn /\ dn2[j] = dn[j]
      <4>1. i < k /\ i \in Nat
        BY <1>2, <1>3, <2>2
      <4>2. ~(k < i)
        BY <1>3, <4>1
      <4> QED
        BY <1>2, <4>2
    <3> QED
      BY <2>2, <3>1, <3>2 DEF ReadIsGood
  <2> QED
    BY <1>2, <2>1, <2>2
<1>9. Len(Tail(td)) + Len(dn2) <= Capacity
  BY <1>1, <1>2
<1> QED
  BY <1>2, <1>5, <1>6, <1>7, <1>8, <1>9 DEF Sound, Q, dn2

\* What Commit does to the values.
LEMMA CommitSettles ==
    ASSUME PInv, NEW job \in Job, Commit(job)
    PROVE  /\ Settles(owed, held, owed', held')
           /\ \A c \in Cookies : job.values[c] # 0 => owed'[job.account][c] # job.values[c]
           /\ {stored', owed'} \subseteq [Accounts -> Values]
           /\ held' \in [Accounts -> [Cookies -> SUBSET Writes]]
           /\ \A b \in Accounts, c \in Cookies : stored'[b][c] \in held'[b][c]
<1> DEFINE a == job.account
           v == job.values
           s == [c \in Cookies |-> IF v[c] # 0 THEN v[c] ELSE stored[a][c]]
           o == [c \in Cookies |-> IF owed[a][c] = v[c] THEN 0 ELSE owed[a][c]]
           h == [c \in Cookies |-> IF v[c] # 0
                                   THEN IF owed[a][c] = v[c] THEN {v[c]} ELSE held[a][c] \cup {v[c]}
                                   ELSE held[a][c]]
<1>1. a \in Accounts /\ v \in [Cookies -> Writes]
  BY DEF Job, Values
<1>2. /\ stored \in [Accounts -> [Cookies -> Writes]] /\ owed \in [Accounts -> [Cookies -> Writes]]
      /\ held \in [Accounts -> [Cookies -> SUBSET Writes]]
      /\ \A b \in Accounts, c \in Cookies : stored[b][c] \in held[b][c]
  BY DEF PInv, Database, Values
<1>3. stored' = [stored EXCEPT ![a] = s] /\ owed' = [owed EXCEPT ![a] = o]
      /\ held' = [held EXCEPT ![a] = h]
  <2> DEFINE set == {c \in Cookies : v[c] # 0}
  <2>1. \A c \in Cookies : c \in set <=> v[c] # 0
    OBVIOUS
  <2>2. /\ stored' = [stored EXCEPT ![a] = [c \in Cookies |-> IF c \in set THEN v[c] ELSE stored[a][c]]]
        /\ owed' = [owed EXCEPT ![a] = o]
        /\ held' = [held EXCEPT ![a] = [c \in Cookies |->
              IF c \in set THEN IF owed[a][c] = v[c] THEN {v[c]} ELSE held[a][c] \cup {v[c]}
              ELSE held[a][c]]]
    <3> HIDE DEF PInv
    <3> QED
      BY DEF Commit
  <2> HIDE DEF set
  <2>3. s = [c \in Cookies |-> IF c \in set THEN v[c] ELSE stored[a][c]]
    BY <2>1
  <2>4. h = [c \in Cookies |->
              IF c \in set THEN IF owed[a][c] = v[c] THEN {v[c]} ELSE held[a][c] \cup {v[c]}
              ELSE held[a][c]]
    BY <2>1
  <2> HIDE DEF s, o, h
  <2> QED
    BY <2>2, <2>3, <2>4
<1>4. s \in [Cookies -> Writes] /\ o \in [Cookies -> Writes] /\ h \in [Cookies -> SUBSET Writes]
  <2>1. s \in [Cookies -> Writes]
    BY <1>1, <1>2
  <2>2. o \in [Cookies -> Writes]
    BY <1>1, <1>2, WriteNumbers
  <2>3. h \in [Cookies -> SUBSET Writes]
    BY <1>1, <1>2
  <2> QED
    BY <2>1, <2>2, <2>3
<1>5. \A c \in Cookies :
        /\ s[c] = IF v[c] # 0 THEN v[c] ELSE stored[a][c]
        /\ o[c] = IF owed[a][c] = v[c] THEN 0 ELSE owed[a][c]
        /\ h[c] = IF v[c] # 0
                  THEN IF owed[a][c] = v[c] THEN {v[c]} ELSE held[a][c] \cup {v[c]}
                  ELSE held[a][c]
  OBVIOUS
<1> HIDE DEF s, o, h, a, v
<1>6. /\ stored'[a] = s /\ owed'[a] = o /\ held'[a] = h
      /\ \A b \in Accounts : b # a => /\ stored'[b] = stored[b] /\ owed'[b] = owed[b]
                                      /\ held'[b] = held[b]
  BY <1>1, <1>2, <1>3
<1>7. Settles(owed, held, owed', held')
  <2> SUFFICES ASSUME NEW b \in Accounts, NEW c \in Cookies
               PROVE  \/ owed'[b][c] = owed[b][c] /\ held[b][c] \subseteq held'[b][c]
                      \/ owed[b][c] # 0 /\ owed'[b][c] = 0 /\ owed[b][c] \in held'[b][c]
    BY DEF Settles
  <2>1. CASE b # a
    BY <1>6, <2>1
  <2>2. CASE b = a
    BY <1>5, <1>6, <2>2
  <2> QED
    BY <2>1, <2>2
<1>8. \A c \in Cookies : v[c] # 0 => owed'[a][c] # v[c]
  BY <1>5, <1>6
<1>9. {stored', owed'} \subseteq [Accounts -> Values]
      /\ held' \in [Accounts -> [Cookies -> SUBSET Writes]]
  BY <1>1, <1>2, <1>3, <1>4 DEF Values
<1>10. \A b \in Accounts, c \in Cookies : stored'[b][c] \in held'[b][c]
  <2> SUFFICES ASSUME NEW b \in Accounts, NEW c \in Cookies PROVE stored'[b][c] \in held'[b][c]
    OBVIOUS
  <2>1. CASE b # a
    BY <1>2, <1>6, <2>1
  <2>2. CASE b = a
    BY <1>2, <1>5, <1>6, <2>2
  <2> QED
    BY <2>1, <2>2
<1> QED
  BY <1>7, <1>8, <1>9, <1>10 DEF a, v

\* The worker loads or saves, or fails, also after the database took the values.
LEMMA WorkStep == ASSUME PInv, Work PROVE PInv'
<1> DEFINE job == Head(todo)
<1>1. /\ todo # <<>>
      /\ UNCHANGED <<online, joined, players, accounts, main, left, up, waits, writes>>
  BY DEF Work
<1>2. /\ Sound(accounts, todo, done, owed, held, writes) /\ todo \in Seq(Job)
      /\ done \in Seq(Result) /\ writes \in Nat
  BY ViewIsSound DEF PInv, Sound
<1>3. job \in Job
  BY <1>1, <1>2, HeadTailProperties
<1>4. ASSUME NEW values \in Values, NEW failed \in BOOLEAN, Ran(job, values, failed),
             Database', Sound(accounts, todo, done, owed', held', writes),
             job.kind = "save" => values = job.values,
             job.kind = "save" /\ ~failed =>
                \A c \in Cookies : values[c] # 0 => owed'[job.account][c] # values[c],
             job.kind = "load" /\ ~failed =>
                \A c \in Cookies : values[c] \in held'[job.account][c]
      PROVE  PInv'
  <2> DEFINE r == [kind |-> job.kind, account |-> job.account, values |-> values, failed |-> failed]
  <2>1. /\ todo' = Tail(todo) /\ done' = Append(done, r)
        /\ faults' = faults \/ (faults < FaultLimit /\ faults' = faults + 1)
    BY <1>4 DEF Ran
  <2>2. /\ r \in Result /\ r.kind = job.kind /\ r.account = job.account /\ r.values = values
        /\ r.failed = failed
    BY <1>3 DEF Job, Result
  <2> HIDE DEF r, PInv
  <2>3. Sound(accounts, Tail(todo), Append(done, r), owed', held', writes)
    BY <1>1, <1>4, <2>2, RanIsSound DEF IsStored, IsRead
  <2>4. Sound(accounts', todo', done', owed', held', writes')
    BY <1>1, <2>1, <2>3
  <2>5. left' \in 0..Len(done')
    <3>1. Len(done) \in Nat /\ Len(done') = Len(done) + 1 /\ left \in 0..Len(done)
      BY <1>2, <2>1, <2>2, AppendProperties, LenProperties DEF PInv, Others
    <3> QED
      BY <1>1, <3>1
  <2>6. faults' \in 0..FaultLimit
    BY <2>1, PrefsAssumption DEF PInv, Others
  <2>7. Others'
    BY <1>1, <2>5, <2>6 DEF PInv, Others
  <2> QED
    BY <1>4, <2>4, <2>7 DEF PInv
<1>5. job.account \in Accounts /\ job.kind \in {"load", "save"} /\ job.values \in Values
  BY <1>3 DEF Job
<1> HIDE DEF PInv
<1>6. ASSUME UNCHANGED <<stored, owed, held>>
      PROVE  Database' /\ Sound(accounts, todo, done, owed', held', writes)
  BY <1>1, <1>2, <1>6 DEF PInv, Database
<1>7. CASE /\ job.kind = "load" /\ Ran(job, stored[job.account], FALSE)
           /\ UNCHANGED <<stored, owed, held>>
  <2>1. /\ stored[job.account] \in Values
        /\ \A c \in Cookies : stored[job.account][c] \in held[job.account][c]
    BY <1>5 DEF PInv, Database
  <2>2. Database' /\ Sound(accounts, todo, done, owed', held', writes)
    BY <1>6, <1>7
  <2> HIDE DEF job
  <2> QED
    BY <1>4, <1>7, <2>1, <2>2
<1>8. ASSUME job.kind = "save", Commit(job), NEW lost \in BOOLEAN, Ran(job, job.values, lost)
      PROVE  PInv'
  <2>1. /\ Settles(owed, held, owed', held')
        /\ \A c \in Cookies : job.values[c] # 0 => owed'[job.account][c] # job.values[c]
        /\ {stored', owed'} \subseteq [Accounts -> Values]
        /\ held' \in [Accounts -> [Cookies -> SUBSET Writes]]
        /\ \A b \in Accounts, c \in Cookies : stored'[b][c] \in held'[b][c]
    BY <1>3, <1>8, CommitSettles
  <2>2. Database'
    BY <1>1, <2>1 DEF PInv, Database
  <2>3. Sound(accounts, todo, done, owed', held', writes)
    <3>1. writes <= writes
      BY <1>2
    <3> QED
      BY <1>2, <2>1, <3>1, SettledIsSound
  <2> HIDE DEF job
  <2> QED
    BY <1>4, <1>5, <1>8, <2>1, <2>2, <2>3
<1>9. CASE Ran(job, job.values, TRUE) /\ UNCHANGED <<stored, owed, held>>
  <2>1. Database' /\ Sound(accounts, todo, done, owed', held', writes)
    BY <1>6, <1>9
  <2> HIDE DEF job
  <2> QED
    BY <1>4, <1>5, <1>9, <2>1
<1> QED
  BY <1>7, <1>8, <1>9 DEF Work

\* Another server writes: the database has held that value too.
LEMMA WriteElsewhereStep ==
    ASSUME PInv, NEW a \in Accounts, NEW c \in Cookies, WriteElsewhere(a, c) PROVE PInv'
<1>1. /\ writes < MaxWrites /\ writes' = writes + 1
      /\ stored' = [stored EXCEPT ![a][c] = writes + 1]
      /\ held' = [held EXCEPT ![a][c] = @ \cup {writes + 1}]
      /\ UNCHANGED <<online, joined, players, accounts, todo, done, main, left, up, waits,
                     owed, faults>>
  BY DEF WriteElsewhere
<1>2. writes \in Nat /\ Sound(accounts, todo, done, owed, held, writes)
  BY ViewIsSound DEF PInv
<1>3. writes' \in Nat /\ writes <= writes' /\ writes + 1 \in Writes /\ writes' \in Writes
  BY <1>1, <1>2, PrefsAssumption DEF Writes
<1>4. /\ stored \in [Accounts -> [Cookies -> Writes]]
      /\ held \in [Accounts -> [Cookies -> SUBSET Writes]]
      /\ \A b \in Accounts, d \in Cookies : stored[b][d] \in held[b][d]
  BY DEF PInv, Database, Values
<1>5. \A b \in Accounts, d \in Cookies :
        /\ stored'[b][d] = IF b = a /\ d = c THEN writes + 1 ELSE stored[b][d]
        /\ held'[b][d] = IF b = a /\ d = c THEN held[b][d] \cup {writes + 1} ELSE held[b][d]
  BY <1>1, <1>4
<1>6. stored' \in [Accounts -> [Cookies -> Writes]]
  BY <1>1, <1>3, <1>4
<1>7. held' \in [Accounts -> [Cookies -> SUBSET Writes]]
  <2>1. held[a][c] \cup {writes + 1} \in SUBSET Writes
    BY <1>3, <1>4
  <2> QED
    BY <1>1, <1>4, <2>1
<1>8. Database'
  <2>1. owed' \in [Accounts -> Values]
    BY <1>1 DEF PInv, Database
  <2>2. \A b \in Accounts, d \in Cookies : stored'[b][d] \in held'[b][d]
    BY <1>4, <1>5
  <2> QED
    BY <1>3, <1>6, <1>7, <2>1, <2>2 DEF Database, Values
<1>9. Settles(owed, held, owed', held')
  BY <1>1, <1>5 DEF Settles
<1>10. Sound(accounts, todo, done, owed', held', writes')
  BY <1>2, <1>3, <1>9, SettledIsSound
<1>11. Others'
  BY <1>1 DEF PInv, Others
<1> QED
  BY <1>1, <1>8, <1>10, <1>11 DEF PInv

-----------------------------------------------------------------------------
(* The theorems.                                                           *)

\* At first nothing is cached and nothing is owed.
LEMMA InitPInv == Init => PInv
<1> SUFFICES ASSUME Init PROVE PInv
  OBVIOUS
<1>1. /\ online = Nobody /\ joined = Nobody /\ players = Nobody
      /\ accounts = [a \in Accounts |-> None]
      /\ todo = <<>> /\ done = <<>> /\ main = "idle" /\ left = 0 /\ up = FALSE
      /\ waits = {}
      /\ stored = [a \in Accounts |-> Unset] /\ owed = [a \in Accounts |-> Unset]
      /\ held = [a \in Accounts |-> [c \in Cookies |-> {0}]]
      /\ writes = 0 /\ faults = 0
  BY DEF Init
<1>2. /\ {MaxConnections, MaxWaits, FaultLimit, Capacity} \subseteq Nat
  BY PrefsAssumption
<1>3. Nobody \in [Accounts -> 0..MaxConnections]
  BY <1>2 DEF Nobody
<1>4. /\ todo \in Seq(Job) /\ done \in Seq(Result) /\ Len(todo) = 0 /\ Len(done) = 0
  BY <1>1, EmptySeq
<1>5. Others
  <2>1. IsFiniteSet(waits) /\ Cardinality(waits) <= MaxWaits /\ waits \subseteq Wait
    BY <1>1, <1>2, FS_EmptySet
  <2>2. faults \in 0..FaultLimit /\ left \in 0..Len(done)
    BY <1>1, <1>2, <1>4
  <2>3. {online, joined, players} \subseteq [Accounts -> 0..MaxConnections]
    BY <1>1, <1>3
  <2> QED
    BY <1>1, <2>1, <2>2, <2>3 DEF Others
<1>6. Database
  <2>1. Unset \in Values /\ 0 \in Writes
    BY WriteNumbers
  <2>2. \A a \in Accounts, c \in Cookies : stored[a][c] = 0 /\ held[a][c] = {0}
    BY <1>1 DEF Unset
  <2>3. held \in [Accounts -> [Cookies -> SUBSET Writes]]
    BY <1>1, <2>1
  <2> QED
    BY <1>1, <2>1, <2>2, <2>3 DEF Database
<1>7. DOMAIN done = {} /\ DOMAIN (done \o todo) = {}
  <2>1. /\ DOMAIN done = 1..Len(done) /\ DOMAIN (done \o todo) = 1..Len(done \o todo)
        /\ Len(done \o todo) = Len(done) + Len(todo)
    BY <1>4, JobsUnderWay
  <2> QED
    BY <1>4, <2>1
<1>8. Sound(accounts, todo, done, owed, held, writes)
  <2>1. accounts \in [Accounts -> Account \cup {None}] /\ \A a \in Accounts : accounts[a] = None
    BY <1>1
  <2>2. Matches(accounts, done \o todo)
    BY <1>7, <2>1 DEF Matches, Flag
  <2>3. Numbered(done \o todo, writes)
    BY <1>7 DEF Numbered
  <2>4. StoredIsSettled(done, owed) /\ ReadsAreGood(done, accounts, held)
    BY <1>7 DEF StoredIsSettled, ReadsAreGood
  <2>5. \A a \in Accounts : Kept(accounts[a], a, owed, held, writes)
    BY <1>1, <2>1 DEF Kept, Unset
  <2>6. Len(todo) + Len(done) <= Capacity
    BY <1>2, <1>4
  <2> QED
    BY <1>4, <2>1, <2>2, <2>3, <2>4, <2>5, <2>6 DEF Sound
<1> QED
  BY <1>5, <1>6, <1>8 DEF PInv

\* Every step keeps the invariant.
LEMMA NextPInv == PInv /\ [Next]_vars => PInv'
<1> SUFFICES ASSUME PInv, [Next]_vars PROVE PInv'
  OBVIOUS
<1>1. CASE UNCHANGED vars
  BY <1>1 DEF vars, PInv, Others, Database
<1>2. CASE Read \/ Retry
  BY <1>2, NativeStep
<1>3. CASE Frame \/ PrepareUnload \/ EndFrame \/ EndStop
  BY <1>3, FrameStep, PrepareUnloadStep, EndFrameStep, EndStopStep
<1>4. CASE Complete \/ Work
  BY <1>4, CompleteStep, WorkStep
<1>5. CASE \E a \in Clients : Refresh(a) \/ RetryPlayer(a) \/ Connect(a) \/ Disconnect(a)
  <2>1. PICK a \in Clients : Refresh(a) \/ RetryPlayer(a) \/ Connect(a) \/ Disconnect(a)
    BY <1>5
  <2> QED
    BY <2>1, NativeStep, PlayersStep
<1>6. CASE \E a \in Clients, c \in Cookies : Set(a, c)
  BY <1>6, SetStep
<1>7. CASE \E a \in Accounts, c \in Cookies : SetIdentity(a, c) \/ WriteElsewhere(a, c)
  BY <1>7, SetIdentityStep, WriteElsewhereStep
<1>8. CASE \E w \in Wait : WaitFor(w)
  BY <1>8, WaitForStep
<1> QED
  BY <1>1, <1>2, <1>3, <1>4, <1>5, <1>6, <1>7, <1>8 DEF Next

\* The invariant says what the properties say.
LEMMA PInvMeans == PInv => AcceptedIsKept /\ CacheIsCurrent
<1> SUFFICES ASSUME PInv PROVE AcceptedIsKept /\ CacheIsCurrent
  OBVIOUS
<1>1. Others /\ Database /\ Sound(accounts, todo, done, owed, held, writes)
  BY DEF PInv
<1>2. TypeOK
  BY <1>1 DEF TypeOK, Others, Database, Sound
<1>3. \A a \in Accounts : Kept(accounts[a], a, owed, held, writes)
  BY <1>1 DEF Sound
<1>4. Cached(View) = {a \in Accounts : accounts[a] # None}
  BY DEF Cached, View
<1>5. ASSUME NEW a \in Accounts, NEW c \in Cookies, owed[a][c] # 0
      PROVE  a \in Cached(View) /\ accounts[a].dirty[c] = owed[a][c]
  BY <1>3, <1>4, <1>5 DEF Kept
<1>6. ASSUME NEW a \in Cached(View), NEW c \in Cookies, accounts[a].state = "ready"
      PROVE  \/ accounts[a].values[c] = owed[a][c]
             \/ owed[a][c] = 0 /\ accounts[a].values[c] \in held[a][c]
  <2>1. a \in Accounts /\ accounts[a] # None
    BY <1>4
  <2>2. /\ owed[a][c] # 0 => accounts[a].dirty[c] = owed[a][c]
        /\ accounts[a].dirty[c] # 0 => owed[a][c] # 0 \/ accounts[a].dirty[c] \in held[a][c]
        /\ IF accounts[a].dirty[c] # 0 THEN accounts[a].values[c] = accounts[a].dirty[c]
           ELSE accounts[a].values[c] \in held[a][c]
    BY <1>3, <1>6, <2>1 DEF Kept
  <2> QED
    BY <2>2
<1>7. AcceptedIsKept
  BY <1>2, <1>5 DEF AcceptedIsKept
<1>8. CacheShowsAccepted
  BY <1>6 DEF CacheShowsAccepted
<1>9. FlagsMatchJobs
  BY <1>1 DEF Sound, FlagsMatchJobs
<1> QED
  BY <1>7, <1>8, <1>9 DEF CacheIsCurrent

\* Service::Set and SetIdentity answer that a value is accepted: it stays dirty, whatever
\* loads, saves, failures, evictions and unloads follow, until the database has it.
THEOREM ValuesAreKept == Spec => []AcceptedIsKept
<1>1. Init => PInv
  BY InitPInv
<1>2. PInv /\ [Next]_vars => PInv'
  BY NextPInv
<1>3. PInv => AcceptedIsKept
  BY PInvMeans
<1> QED
  BY <1>1, <1>2, <1>3, PTL DEF Spec

\* What Get reads of a ready account is the last accepted value, or one the database took
\* since; and loading and saving tell the jobs of an account, one of each at most.
THEOREM CacheIsRight == Spec => []CacheIsCurrent
<1>1. Init => PInv
  BY InitPInv
<1>2. PInv /\ [Next]_vars => PInv'
  BY NextPInv
<1>3. PInv => CacheIsCurrent
  BY PInvMeans
<1> QED
  BY <1>1, <1>2, <1>3, PTL DEF Spec
=============================================================================
