----------------------------- MODULE PartsProofs -----------------------------
(***************************************************************************)
(* Proofs about the parts of the system that MCParts puts together: each   *)
(* of them is proved by itself, for all values of its constants.           *)
(***************************************************************************)
EXTENDS MCParts, SequenceTheorems, FiniteSetTheorems, WellFoundedInduction, TLAPS

\* The bits of a handle are its slot and its generation.
LEMMA IdFields ==
    ASSUME NEW g \in Nat, NEW s \in 1..(SlotSpace - 1)
    PROVE  Id(g, s) \in Nat /\ SlotOf(Id(g, s)) = s /\ GenerationOf(Id(g, s)) = g
BY SMT DEF SlotSpace, Id, SlotOf, GenerationOf

\* A handle is at most the last of the last slot, which fits.
LEMMA IdBounded ==
    ASSUME NEW g \in 1..MaxGeneration, NEW s \in 1..MaxSlots
    PROVE  Id(g, s) \in 1..MaxCell
<1>1. /\ MaxGeneration \in Nat /\ MaxSlots \in Nat /\ MaxSlots <= 4095
      /\ MaxGeneration * 4096 + 4095 <= 2147483647
  BY HandlesAssumption, SMT DEF Id, SlotSpace, MaxCell
<1>2. s \in Nat /\ s <= 4095 /\ g \in Nat /\ g <= MaxGeneration /\ g >= 1
  BY <1>1, SMT
<1>3. g * 4096 <= MaxGeneration * 4096 /\ g * 4096 \in Nat
  BY <1>1, <1>2, SMT
<1>4. Id(g, s) \in Nat /\ 1 <= Id(g, s) /\ Id(g, s) <= MaxCell
  BY <1>1, <1>2, <1>3, SMT DEF Id, SlotSpace, MaxCell
<1>5. MaxCell \in Nat
  BY SMT DEF MaxCell
<1> QED
  BY <1>4, <1>5, SMT

\* The fields of an entry of the table.
LEMMA EntryFields ==
    ASSUME TypeOK, NEW i \in DOMAIN entries
    PROVE  /\ i \in 1..MaxSlots /\ entries[i] \in Entry
           /\ entries[i].generation \in Nat \ {0} /\ entries[i].generation <= MaxGeneration
           /\ entries[i].value \in Nat \cup {None}
<1>1. MaxSlots \in Nat /\ MaxGeneration \in Nat
  BY HandlesAssumption, SMT DEF SlotSpace
<1>2. i \in 1..Len(entries) /\ Len(entries) \in Nat /\ entries[i] \in Entry
  BY DEF TypeOK
<1>3. i \in 1..MaxSlots
  BY <1>1, <1>2 DEF TypeOK
<1> QED
  BY <1>1, <1>2, <1>3 DEF Entry

\* Every handle that was issued is the number of a slot in use, with a generation the
\* slot has or had.
IssuedWasSlot ==
    \A h \in issued :
        /\ SlotOf(h[1]) \in DOMAIN entries
        /\ GenerationOf(h[1]) \in 1..entries[SlotOf(h[1])].generation
        /\ h[1] = Id(GenerationOf(h[1]), SlotOf(h[1]))

\* An occupied entry was issued: its handle, with the value it holds.
OccupiedWasIssued ==
    \A i \in DOMAIN entries : entries[i].owner # None =>
        <<Id(entries[i].generation, i), entries[i].value>> \in issued

\* The inductive invariant. That handles are unique does not follow from what went
\* before by itself: a new handle is new because a slot's generations only grow.
IInv == TypeOK /\ IssuedWasSlot /\ OccupiedWasIssued /\ HandlesAreUnique

\* Nothing is issued before the first Add.
LEMMA InitIInv == Init => IInv
BY HandlesAssumption DEF Init, IInv, TypeOK, IssuedWasSlot, OccupiedWasIssued, HandlesAreUnique

\* What Reuse and Extend share: the entry of slot i gets a generation it never had.
LEMMA FreshHandle ==
    ASSUME IInv, NEW i \in 1..MaxSlots, NEW g \in 1..MaxGeneration, NEW v,
           \A h \in issued : SlotOf(h[1]) = i => GenerationOf(h[1]) < g
    PROVE  \A h \in issued : h[1] # Id(g, i)
<1> SUFFICES ASSUME NEW h \in issued, h[1] = Id(g, i) PROVE FALSE
  OBVIOUS
<1>1. i \in 1..(SlotSpace - 1) /\ g \in Nat
  BY HandlesAssumption DEF SlotSpace
<1>2. SlotOf(h[1]) = i /\ GenerationOf(h[1]) = g
  BY <1>1, IdFields
<1> QED
  BY <1>1, <1>2

\* Adding a value: the entry i gets the generation g, which no issued handle of the
\* slot has. Stated for Reuse and Extend at once.
LEMMA AddKeepsIInv ==
    ASSUME IInv, NEW owner \in Owners, NEW type \in Types,
           NEW i \in 1..MaxSlots, NEW g \in 1..MaxGeneration,
           entries' \in Seq(Entry), Len(entries') <= MaxSlots,
           DOMAIN entries' = DOMAIN entries \cup {i},
           entries'[i] = Filled(g, owner, type),
           \A j \in DOMAIN entries \ {i} : entries'[j] = entries[j],
           i \in DOMAIN entries => entries[i].generation < g,
           issued' = issued \cup {<<Id(g, i), created + 1>>},
           created' = created + 1, UNCHANGED <<dying, destroyed>>
    PROVE  IInv'
<1> DEFINE new == <<Id(g, i), created + 1>>
<1>1. /\ i \in 1..(SlotSpace - 1) /\ g \in Nat /\ created \in Nat
      /\ new[1] = Id(g, i) /\ new[2] = created + 1
  <2>1. created \in Nat
    BY DEF IInv, TypeOK
  <2>2. i \in 1..(SlotSpace - 1) /\ g \in Nat
    BY HandlesAssumption DEF SlotSpace
  <2> QED
    BY <2>1, <2>2
<1>2. SlotOf(new[1]) = i /\ GenerationOf(new[1]) = g /\ new[1] \in Nat
  BY <1>1, IdFields
<1>3. entries'[i].generation = g /\ entries'[i].owner = owner /\ entries'[i].value = created + 1
  BY DEF Filled
<1>4. \A h \in issued : SlotOf(h[1]) = i => GenerationOf(h[1]) < g
  <2> SUFFICES ASSUME NEW h \in issued, SlotOf(h[1]) = i PROVE GenerationOf(h[1]) < g
    OBVIOUS
  <2>1. i \in DOMAIN entries /\ GenerationOf(h[1]) \in 1..entries[i].generation
    BY DEF IInv, IssuedWasSlot
  <2>2. entries[i].generation \in Nat
    BY <2>1, EntryFields DEF IInv
  <2> QED
    BY <1>1, <2>1, <2>2, SMT
<1>5. TypeOK'
  BY <1>1, <1>2 DEF IInv, TypeOK
<1>6. IssuedWasSlot'
  <2> SUFFICES ASSUME NEW h \in issued'
               PROVE  /\ SlotOf(h[1]) \in DOMAIN entries'
                      /\ GenerationOf(h[1]) \in 1..entries'[SlotOf(h[1])].generation
                      /\ h[1] = Id(GenerationOf(h[1]), SlotOf(h[1]))
    BY DEF IssuedWasSlot
  <2>1. CASE h = new
    BY <2>1, <1>1, <1>2, <1>3, SMT
  <2>2. CASE h \in issued /\ SlotOf(h[1]) # i
    BY <2>2 DEF IInv, IssuedWasSlot
  <2>3. CASE h \in issued /\ SlotOf(h[1]) = i
    <3>1. GenerationOf(h[1]) \in 1..entries[i].generation /\ h[1] = Id(GenerationOf(h[1]), i)
      BY <2>3 DEF IInv, IssuedWasSlot
    <3>2. i \in DOMAIN entries /\ entries[i].generation \in Nat
      BY <2>3, EntryFields DEF IInv, IssuedWasSlot
    <3> QED
      BY <2>3, <3>1, <3>2, <1>1, <1>3, <1>4, SMT
  <2> QED
    BY <2>1, <2>2, <2>3
<1>7. OccupiedWasIssued'
  <2> SUFFICES ASSUME NEW j \in DOMAIN entries', entries'[j].owner # None
               PROVE  <<Id(entries'[j].generation, j), entries'[j].value>> \in issued'
    BY DEF OccupiedWasIssued
  <2>1. CASE j = i
    BY <2>1, <1>3
  <2>2. CASE j # i
    BY <2>2 DEF IInv, OccupiedWasIssued
  <2> QED
    BY <2>1, <2>2
<1>8. HandlesAreUnique'
  <2>1. \A h \in issued : h[1] # new[1]
    BY <1>1, <1>4, FreshHandle
  <2> QED
    BY <2>1 DEF IInv, HandlesAreUnique
<1> QED
  BY <1>5, <1>6, <1>7, <1>8 DEF IInv

\* An entry that is filled is an entry.
LEMMA FilledIsEntry ==
    ASSUME NEW g \in 1..MaxGeneration, NEW owner \in Owners, NEW type \in Types, created \in Nat
    PROVE  Filled(g, owner, type) \in Entry
<1>1. created + 1 \in Nat
  BY SMT
<1> QED
  BY <1>1 DEF Filled, Entry

\* A slot that is used again.
LEMMA ReuseKeepsIInv ==
    ASSUME IInv, NEW owner \in Owners, NEW type \in Types, NEW i \in DOMAIN entries,
           Reuse(i, owner, type), created' = created + 1, UNCHANGED <<dying, destroyed>>
    PROVE  IInv'
<1> DEFINE g == NextGeneration(i)
<1>1. /\ entries \in Seq(Entry) /\ Len(entries) <= MaxSlots /\ created \in Nat
      /\ i \in 1..Len(entries) /\ i \in 1..MaxSlots
  BY EntryFields DEF IInv, TypeOK
<1>2. g \in 1..MaxGeneration /\ entries[i].generation < g
  <2>1. MaxGeneration \in Nat
    BY HandlesAssumption
  <2> QED
    BY <2>1, EntryFields, SMT DEF IInv, Reuse, Reusable, NextGeneration
<1>3. Filled(g, owner, type) \in Entry
  BY <1>1, <1>2, FilledIsEntry
<1>4. entries' = [entries EXCEPT ![i] = Filled(g, owner, type)]
  BY DEF Reuse
<1>5. /\ entries' \in Seq(Entry) /\ Len(entries') = Len(entries)
      /\ \A j \in 1..Len(entries) : entries'[j] = IF j = i THEN Filled(g, owner, type) ELSE entries[j]
  BY <1>1, <1>3, <1>4, ExceptSeq
<1>6. DOMAIN entries' = 1..Len(entries') /\ DOMAIN entries = 1..Len(entries)
  BY <1>1, <1>5
<1>7. issued' = issued \cup {<<Id(g, i), created + 1>>}
  BY DEF Reuse
<1> HIDE DEF g
<1> QED
  BY <1>1, <1>2, <1>5, <1>6, <1>7, AddKeepsIInv

\* A slot that is new.
LEMMA ExtendKeepsIInv ==
    ASSUME IInv, NEW owner \in Owners, NEW type \in Types,
           Extend(owner, type), created' = created + 1, UNCHANGED <<dying, destroyed>>
    PROVE  IInv'
<1> DEFINE i == Len(entries) + 1
<1>1. entries \in Seq(Entry) /\ Len(entries) \in Nat /\ created \in Nat
  BY DEF IInv, TypeOK
<1>2. i \in 1..MaxSlots /\ 1 \in 1..MaxGeneration
  <2>1. MaxSlots \in Nat /\ MaxGeneration \in Nat \ {0}
    BY HandlesAssumption, SMT DEF SlotSpace
  <2> QED
    BY <1>1, <2>1, SMT DEF Extend
<1>3. Filled(1, owner, type) \in Entry
  BY <1>1, <1>2, FilledIsEntry
<1>4. entries' = Append(entries, Filled(1, owner, type))
  BY DEF Extend
<1>5. /\ entries' \in Seq(Entry) /\ Len(entries') = i /\ entries'[i] = Filled(1, owner, type)
      /\ \A j \in 1..Len(entries) : entries'[j] = entries[j]
  BY <1>1, <1>3, <1>4
<1>6. /\ DOMAIN entries' = 1..i /\ DOMAIN entries = 1..Len(entries) /\ i \notin DOMAIN entries
      /\ 1..i = 1..Len(entries) \cup {i}
  BY <1>1, <1>5, SMT
<1>7. issued' = issued \cup {<<Id(1, i), created + 1>>} /\ Len(entries') <= MaxSlots
  BY <1>2, <1>5 DEF Extend
<1> HIDE DEF i
<1>8. \A j \in DOMAIN entries \ {i} : entries'[j] = entries[j]
  BY <1>5, <1>6
<1> QED
  BY <1>2, <1>5, <1>6, <1>7, <1>8, AddKeepsIInv

\* What emptying an entry keeps.
LEMMA EmptiedFields ==
    ASSUME NEW e \in Entry
    PROVE  /\ Emptied(e) \in Entry /\ Emptied(e).generation = e.generation
           /\ Emptied(e).owner = None /\ Emptied(e).value = None
BY DEF Emptied, Entry

\* Emptying entries, one of them (Remove) or many (Retire).
LEMMA EmptyKeepsIInv ==
    ASSUME IInv, NEW S \in SUBSET DOMAIN entries,
           entries' = [i \in DOMAIN entries |-> IF i \in S THEN Emptied(entries[i]) ELSE entries[i]],
           dying' = dying \cup {entries[i].value : i \in S}, None \notin {entries[i].value : i \in S},
           {entries[i].value : i \in S} \subseteq 1..created,
           UNCHANGED <<created, destroyed, issued>>
    PROVE  IInv'
<1>1. entries \in Seq(Entry) /\ Len(entries) \in Nat /\ DOMAIN entries = 1..Len(entries)
  BY DEF IInv, TypeOK
<1>2. \A i \in DOMAIN entries :
          /\ entries'[i] \in Entry /\ entries'[i].generation = entries[i].generation
          /\ entries'[i].owner # None => entries'[i] = entries[i]
  BY EntryFields, EmptiedFields DEF IInv
<1>3. entries' \in Seq(Entry) /\ Len(entries') = Len(entries) /\ DOMAIN entries' = DOMAIN entries
  BY <1>1, <1>2
<1>4. TypeOK'
  BY <1>3 DEF IInv, TypeOK
<1>5. IssuedWasSlot'
  BY <1>2, <1>3 DEF IInv, IssuedWasSlot
<1>6. OccupiedWasIssued'
  BY <1>2, <1>3 DEF IInv, OccupiedWasIssued
<1>7. HandlesAreUnique'
  BY DEF IInv, HandlesAreUnique
<1> QED
  BY <1>4, <1>5, <1>6, <1>7 DEF IInv

\* The value of an occupied entry was created.
LEMMA OccupiedValues ==
    ASSUME IInv, NEW i \in DOMAIN entries, entries[i].owner # None
    PROVE  entries[i].value \in 1..created /\ entries[i].value # None
<1>1. <<Id(entries[i].generation, i), entries[i].value>> \in issued
  BY DEF IInv, OccupiedWasIssued
<1>2. entries[i].value \in 1..created /\ created \in Nat
  BY <1>1 DEF IInv, TypeOK
<1> QED
  BY <1>2, HandlesAssumption

\* Every step keeps the inductive invariant.
LEMMA NextIInv == IInv /\ [Next]_vars => IInv'
<1> SUFFICES ASSUME IInv, [Next]_vars PROVE IInv'
  OBVIOUS
<1>1. ASSUME NEW owner \in Owners, NEW type \in Types, Add(owner, type) PROVE IInv'
  BY <1>1, ReuseKeepsIInv, ExtendKeepsIInv DEF Add
<1>2. ASSUME NEW owner \in Owners, NEW type \in Types, NEW h \in issued,
             Remove(h[1], owner, type)
      PROVE  IInv'
  <2> DEFINE s == SlotOf(h[1])
  <2>1. s \in DOMAIN entries /\ entries[s].owner # None
    BY <1>2, HandlesAssumption DEF IInv, IssuedWasSlot, Remove, Resolves
  <2>2. entries' = [i \in DOMAIN entries |-> IF i \in {s} THEN Emptied(entries[i]) ELSE entries[i]]
    BY <1>2, <2>1 DEF IInv, TypeOK, Remove
  <2>3. /\ dying' = dying \cup {entries[i].value : i \in {s}}
        /\ UNCHANGED <<created, destroyed, issued>>
    BY <1>2 DEF Remove
  <2>4. /\ {s} \in SUBSET DOMAIN entries
        /\ None \notin {entries[i].value : i \in {s}}
        /\ {entries[i].value : i \in {s}} \subseteq 1..created
    BY <2>1, OccupiedValues
  <2> HIDE DEF s
  <2> QED
    BY <2>2, <2>3, <2>4, EmptyKeepsIInv
<1>3. ASSUME NEW owner \in Owners, NEW type \in Types \cup {None}, Retire(owner, type)
      PROVE  IInv'
  <2>1. \A i \in Selected(owner, type) : i \in DOMAIN entries /\ entries[i].owner # None
    BY HandlesAssumption DEF Selected
  <2>2. /\ None \notin {entries[i].value : i \in Selected(owner, type)}
        /\ {entries[i].value : i \in Selected(owner, type)} \subseteq 1..created
    BY <2>1, OccupiedValues
  <2> QED
    BY <1>3, <2>1, <2>2, EmptyKeepsIInv DEF Retire
<1>4. ASSUME NEW v \in dying, Destroy(v) PROVE IInv'
  BY <1>4 DEF Destroy, IInv, TypeOK, IssuedWasSlot, OccupiedWasIssued, HandlesAreUnique
<1>5. CASE UNCHANGED vars
  BY <1>5 DEF vars, IInv, TypeOK, IssuedWasSlot, OccupiedWasIssued, HandlesAreUnique
<1> QED
  BY <1>1, <1>2, <1>3, <1>4, <1>5 DEF Next

\* The table's own invariant holds in every run of it.
THEOREM Invariant == Spec => []IInv
BY InitIInv, NextIInv, PTL DEF Spec

\* The table, its history and the handles it issued keep their types: no slot
\* beyond the limit, no generation beyond the last (Add).
THEOREM TypeCorrect == Spec => []TypeOK
<1>1. IInv => TypeOK
  BY DEF IInv
<1> QED
  BY <1>1, Invariant, PTL

\* Add never issues a handle twice.
THEOREM Unique == Spec => []HandlesAreUnique
<1>1. IInv => HandlesAreUnique
  BY DEF IInv
<1> QED
  BY <1>1, Invariant, PTL

\* A script that kept a handle of a removed value never reaches the value that took
\* its slot (Check).
THEOREM StaleHandles == Spec => []StaleNeverResolves
<1>1. ASSUME IInv, NEW h \in issued, NEW owner \in Owners, NEW type \in Types,
             Resolves(h[1], owner, type)
      PROVE  entries[SlotOf(h[1])].value = h[2]
  <2> DEFINE s == SlotOf(h[1])
  <2>1. s \in DOMAIN entries /\ h[1] = Id(GenerationOf(h[1]), s)
    BY <1>1 DEF IInv, IssuedWasSlot
  <2>2. entries[s].owner # None /\ h[1] = Id(entries[s].generation, s)
    BY <1>1, <2>1, HandlesAssumption DEF Resolves, SameGeneration
  <2>3. <<h[1], entries[s].value>> \in issued
    BY <1>1, <2>1, <2>2 DEF IInv, OccupiedWasIssued
  <2> QED
    BY <1>1, <2>3 DEF IInv, HandlesAreUnique
<1>2. IInv => StaleNeverResolves
  BY <1>1 DEF StaleNeverResolves
<1> QED
  BY <1>2, Invariant, PTL

\* Every handle is positive in a 32-bit cell, the last of the last slot included: no
\* shift overflows (Add).
THEOREM Fit == Spec => []HandlesFit
<1>1. ASSUME IInv, NEW h \in issued PROVE h[1] \in 1..MaxCell
  <2> DEFINE s == SlotOf(h[1])
  <2> DEFINE g == GenerationOf(h[1])
  <2>1. s \in DOMAIN entries /\ g \in 1..entries[s].generation /\ h[1] = Id(g, s)
    BY <1>1 DEF IInv, IssuedWasSlot
  <2>2. /\ s \in 1..MaxSlots /\ entries[s].generation \in Nat
        /\ entries[s].generation <= MaxGeneration
    BY <1>1, <2>1, EntryFields DEF IInv
  <2>3. MaxGeneration \in Nat
    BY HandlesAssumption
  <2> HIDE DEF s, g
  <2>4. g \in 1..MaxGeneration
    BY <2>1, <2>2, <2>3, SMT
  <2> QED
    BY <2>1, <2>2, <2>4, IdBounded
<1>2. IInv => HandlesFit
  BY <1>1 DEF HandlesFit
<1> QED
  BY <1>2, Invariant, PTL

-----------------------------------------------------------------------------
(* Where the values are.                                                   *)

\* ValuesAccounted, slot by slot.
Accounted ==
    /\ \A i \in DOMAIN entries :
          /\ entries[i].value = None <=> entries[i].owner = None
          /\ entries[i].value \notin dying \cup destroyed
          /\ \A j \in DOMAIN entries :
                entries[i].value = entries[j].value /\ entries[i].value # None => i = j
    /\ dying \cap destroyed = {}
    /\ \A v \in 1..created :
          v \in dying \cup destroyed \/ \E i \in DOMAIN entries : entries[i].value = v

\* It says the same.
LEMMA AccountedValues == IInv /\ Accounted => ValuesAccounted
<1> SUFFICES ASSUME IInv, Accounted PROVE ValuesAccounted
  OBVIOUS
<1>1. TypeOK /\ None \notin 1..created
  BY HandlesAssumption DEF IInv, TypeOK
<1>2. Kept \subseteq 1..created
  <2> SUFFICES ASSUME NEW i \in DOMAIN entries, entries[i].value # None
               PROVE  entries[i].value \in 1..created
    BY DEF Kept
  <2> QED
    BY OccupiedValues DEF Accounted
<1>3. Kept \cup dying \cup destroyed = 1..created
  <2>1. 1..created \subseteq Kept \cup dying \cup destroyed
    BY <1>1 DEF Accounted, Kept
  <2> QED
    BY <1>1, <1>2, <2>1 DEF TypeOK
<1>4. Kept \cap (dying \cup destroyed) = {}
  BY DEF Accounted, Kept
<1> QED
  BY <1>1, <1>3, <1>4 DEF Accounted, ValuesAccounted

\* A new value goes to an entry that holds none, or to a new one.
LEMMA AddAccounts ==
    ASSUME IInv, Accounted, NEW owner \in Owners, NEW type \in Types, NEW i, NEW g,
           DOMAIN entries' = DOMAIN entries \cup {i},
           entries'[i] = Filled(g, owner, type),
           \A j \in DOMAIN entries \ {i} : entries'[j] = entries[j],
           i \in DOMAIN entries => entries[i].owner = None,
           created' = created + 1, UNCHANGED <<dying, destroyed>>
    PROVE  Accounted'
<1>1. /\ created \in Nat /\ dying \subseteq 1..created /\ destroyed \subseteq 1..created
      /\ None \notin Owners /\ None \notin Nat
  BY HandlesAssumption DEF IInv, TypeOK
<1>2. entries'[i].owner # None /\ entries'[i].value = created + 1
  BY <1>1 DEF Filled
<1>3. \A j \in DOMAIN entries : entries[j].value \in 1..created \/ entries[j].value = None
  BY OccupiedValues DEF Accounted
<1>4. created + 1 \notin 1..created /\ created + 1 # None /\ 1..created' = 1..created \cup {created + 1}
  BY <1>1
<1>5. ASSUME NEW j \in DOMAIN entries'
      PROVE  /\ entries'[j].value = None <=> entries'[j].owner = None
             /\ entries'[j].value \notin dying' \cup destroyed'
             /\ \A k \in DOMAIN entries' :
                   entries'[j].value = entries'[k].value /\ entries'[j].value # None => j = k
  <2>1. CASE j = i
    BY <1>1, <1>2, <1>3, <1>4, <2>1
  <2>2. CASE j # i
    <3>1. j \in DOMAIN entries /\ entries'[j] = entries[j]
      BY <2>2
    <3> QED
      BY <1>2, <1>3, <1>4, <3>1 DEF Accounted
  <2> QED
    BY <2>1, <2>2
<1>6. ASSUME NEW v \in 1..created'
      PROVE  v \in dying' \cup destroyed' \/ \E j \in DOMAIN entries' : entries'[j].value = v
  <2>1. CASE v = created + 1
    BY <1>2, <2>1
  <2>2. CASE v \in 1..created
    <3>1. i \in DOMAIN entries => entries[i].value = None
      BY DEF Accounted
    <3>2. v # None
      BY <1>1, <2>2
    <3> QED
      BY <2>2, <3>1, <3>2 DEF Accounted
  <2> QED
    BY <1>4, <2>1, <2>2
<1> QED
  BY <1>5, <1>6 DEF Accounted

\* Values that are detached leave the table together.
LEMMA EmptyAccounts ==
    ASSUME IInv, Accounted, NEW S \in SUBSET DOMAIN entries,
           entries' = [i \in DOMAIN entries |-> IF i \in S THEN Emptied(entries[i]) ELSE entries[i]],
           dying' = dying \cup {entries[i].value : i \in S}, None \notin {entries[i].value : i \in S},
           UNCHANGED <<created, destroyed>>
    PROVE  Accounted'
<1>1. None \notin 1..created /\ dying \subseteq 1..created /\ destroyed \subseteq 1..created
  BY HandlesAssumption DEF IInv, TypeOK
<1>2. DOMAIN entries' = DOMAIN entries
  OBVIOUS
<1>3. \A i \in DOMAIN entries :
          IF i \in S THEN entries'[i].value = None /\ entries'[i].owner = None
          ELSE entries'[i] = entries[i]
  BY EntryFields, EmptiedFields DEF IInv
<1>4. ASSUME NEW i \in DOMAIN entries'
      PROVE  /\ entries'[i].value = None <=> entries'[i].owner = None
             /\ entries'[i].value \notin dying' \cup destroyed'
             /\ \A j \in DOMAIN entries' :
                   entries'[i].value = entries'[j].value /\ entries'[i].value # None => i = j
  <2>1. CASE i \in S
    BY <1>1, <1>2, <1>3, <2>1
  <2>2. CASE i \notin S
    BY <1>1, <1>2, <1>3, <2>2 DEF Accounted
  <2> QED
    BY <2>1, <2>2
<1>5. dying' \cap destroyed' = {}
  BY DEF Accounted
<1>6. ASSUME NEW v \in 1..created'
      PROVE  v \in dying' \cup destroyed' \/ \E i \in DOMAIN entries' : entries'[i].value = v
  BY <1>1, <1>2, <1>3 DEF Accounted
<1> QED
  BY <1>4, <1>5, <1>6 DEF Accounted

\* Every step keeps account.
LEMMA NextAccounted == IInv /\ Accounted /\ [Next]_vars => Accounted'
<1> SUFFICES ASSUME IInv, Accounted, [Next]_vars PROVE Accounted'
  OBVIOUS
<1>1. ASSUME NEW owner \in Owners, NEW type \in Types, Add(owner, type) PROVE Accounted'
  <2>0. entries \in Seq(Entry) /\ created' = created + 1 /\ UNCHANGED <<dying, destroyed>>
    BY <1>1 DEF IInv, TypeOK, Add
  <2>1. ASSUME NEW i \in DOMAIN entries, Reuse(i, owner, type) PROVE Accounted'
    <3> DEFINE g == NextGeneration(i)
    <3>1. /\ entries[i].owner = None /\ entries' = [entries EXCEPT ![i] = Filled(g, owner, type)]
      BY <2>1 DEF Reuse, Reusable
    <3>2. /\ DOMAIN entries' = DOMAIN entries \cup {i} /\ entries'[i] = Filled(g, owner, type)
          /\ \A j \in DOMAIN entries \ {i} : entries'[j] = entries[j]
      BY <2>0, <3>1
    <3> HIDE DEF g
    <3> QED
      BY <2>0, <3>1, <3>2, AddAccounts
  <2>2. CASE Extend(owner, type)
    <3> DEFINE i == Len(entries) + 1
    <3>1. entries' = Append(entries, Filled(1, owner, type)) /\ Len(entries) \in Nat
      BY <2>0, <2>2 DEF Extend
    <3>2. /\ DOMAIN entries = 1..Len(entries) /\ DOMAIN entries' = 1..i
          /\ entries'[i] = Filled(1, owner, type)
          /\ \A j \in 1..Len(entries) : entries'[j] = entries[j]
      BY <2>0, <3>1
    <3>3. 1..i = 1..Len(entries) \cup {i} /\ i \notin 1..Len(entries)
      BY <3>1
    <3> HIDE DEF i
    <3> QED
      BY <2>0, <3>2, <3>3, AddAccounts
  <2> QED
    BY <1>1, <2>1, <2>2 DEF Add
<1>2. ASSUME NEW owner \in Owners, NEW type \in Types, NEW h \in issued,
             Remove(h[1], owner, type)
      PROVE  Accounted'
  <2> DEFINE s == SlotOf(h[1])
  <2>1. s \in DOMAIN entries /\ entries[s].owner # None
    BY <1>2, HandlesAssumption DEF IInv, IssuedWasSlot, Remove, Resolves
  <2>2. entries' = [i \in DOMAIN entries |-> IF i \in {s} THEN Emptied(entries[i]) ELSE entries[i]]
    BY <1>2, <2>1 DEF IInv, TypeOK, Remove
  <2>3. dying' = dying \cup {entries[i].value : i \in {s}} /\ UNCHANGED <<created, destroyed>>
    BY <1>2 DEF Remove
  <2>4. {s} \in SUBSET DOMAIN entries /\ None \notin {entries[i].value : i \in {s}}
    BY <2>1, OccupiedValues
  <2> HIDE DEF s
  <2> QED
    BY <2>2, <2>3, <2>4, EmptyAccounts
<1>3. ASSUME NEW owner \in Owners, NEW type \in Types \cup {None}, Retire(owner, type)
      PROVE  Accounted'
  <2>1. \A i \in Selected(owner, type) : i \in DOMAIN entries /\ entries[i].owner # None
    BY HandlesAssumption DEF Selected
  <2>2. None \notin {entries[i].value : i \in Selected(owner, type)}
    BY <2>1, OccupiedValues
  <2> QED
    BY <1>3, <2>1, <2>2, EmptyAccounts DEF Retire
<1>4. ASSUME NEW v \in dying, Destroy(v) PROVE Accounted'
  BY <1>4 DEF Destroy, Accounted
<1>5. CASE UNCHANGED vars
  BY <1>5 DEF vars, Accounted
<1> QED
  BY <1>1, <1>2, <1>3, <1>4, <1>5 DEF Next

\* No value is lost or kept twice, and none that is being destroyed can be reached: a
\* destructor that uses the table again does not meet its own value (Remove, Retire).
THEOREM Accounting == Spec => []ValuesAccounted
<1>1. Init => Accounted
  BY DEF Init, Accounted
<1>2. IInv /\ Accounted /\ [Next]_vars => Accounted'
  BY NextAccounted
<1>3. IInv /\ Accounted => ValuesAccounted
  BY AccountedValues
<1>4. Init => IInv
  BY InitIInv
<1>5. IInv /\ [Next]_vars => IInv'
  BY NextIInv
<1> QED
  BY <1>1, <1>2, <1>3, <1>4, <1>5, PTL DEF Spec
-----------------------------------------------------------------------------
(* Transfers. *)

\* The limits are numbers, and leave room for what a new request has.
TransferLimits == BodyLimit \in Nat \ {0} /\ HeaderLimit \in Nat /\ RedirectLimit \in Nat \ {0}

\* A request that the builder accepts, and that nothing was done for yet: an upload has
\* a method for it, and files are parts of a form.
NothingSent ==
    /\ progress \in {"building", "reading"} =>
          /\ Transfers!Valid(request) /\ (request.file => request.form)
    /\ progress \in {"none", "building", "reading"} =>
          /\ trail = <<>> /\ hop = 0 /\ used = [head |-> 0, body |-> 0]
          /\ returned = None

\* What the next hop would send.  It is still for the origin of all hops, if it says
\* anything; an upload is not a GET; the method changed only together with the headers;
\* and a hop without TLS had none with it before.
NextHop ==
    progress \in {"starting", "receiving"} =>
        /\ Transfers!Carries(request) \/ request.headers # {} =>
              \A k \in 1..Len(trail) : trail[k].to = address
        /\ Transfers!Carries(request) => request.method \in {"post", "put"}
        /\ trail # <<>> /\ request.method # trail[1].method => "content" \notin request.headers
        /\ ~address.secure => \A k \in 1..Len(trail) : ~trail[k].to.secure

\* How far the hops and the bytes have come.
WithinLimits ==
    /\ progress # "none" =>
          used.body <= request.limit /\ Len(trail) <= request.redirects + 1
    /\ progress \in {"starting", "receiving"} =>
          /\ request.size <= BodyLimit /\ hop <= request.redirects
          /\ returned = None
    /\ progress = "starting" => Len(trail) = hop
    /\ progress = "receiving" =>
          /\ Len(trail) = hop + 1
          /\ response.head \cup response.body \subseteq {hop}

\* The inductive invariant.  What was sent stays right because it is not taken back; the
\* step that sends needs to know that what is about to be sent is right.
TInv == Transfers!TransfersKeep /\ NothingSent /\ NextHop /\ WithinLimits

\* Nothing is sent before a request is built.
LEMMA TransfersBegin ==
    ASSUME TransferLimits, Transfers!Init
    PROVE  TInv
<1>1. Transfers!TypeOK
  <2>1. trail \in Seq(Transfers!Sent)
    BY DEF Transfers!Init
  <2>2. /\ used \in [head : Nat, body : Nat]
        /\ response \in [head : SUBSET Nat, body : SUBSET Nat]
    BY DEF Transfers!Init, Transfers!Empty
  <2> QED
    BY <2>1, <2>2 DEF Transfers!Init, Transfers!TypeOK
<1>2. Transfers!StaysWithOrigin
  BY DEF Transfers!Init, Transfers!StaysWithOrigin
<1>3. Transfers!LimitsHold
  BY DEF Transfers!Init, Transfers!LimitsHold, TransferLimits
<1>4. NothingSent /\ NextHop /\ WithinLimits
  BY DEF Transfers!Init, NothingSent, NextHop, WithinLimits
<1> QED
  BY <1>1, <1>2, <1>3, <1>4 DEF TInv, Transfers!TransfersKeep

\* Nothing that the invariant speaks of changes, but for the time.
LEMMA TransferWaits ==
    ASSUME TInv, over' \in BOOLEAN,
           UNCHANGED <<request, progress, address, hop, used, response, returned, trail>>
    PROVE  TInv'
<1>1. Transfers!TypeOK'
  BY DEF TInv, Transfers!TransfersKeep, Transfers!TypeOK
<1>2. Transfers!StaysWithOrigin' /\ Transfers!LimitsHold'
  BY DEF TInv, Transfers!TransfersKeep, Transfers!StaysWithOrigin, Transfers!LimitsHold
<1>3. NothingSent' /\ NextHop' /\ WithinLimits'
  BY DEF TInv, NothingSent, NextHop, WithinLimits, Transfers!Valid, Transfers!Carries
<1> QED
  BY <1>1, <1>2, <1>3 DEF TInv, Transfers!TransfersKeep

\* A transfer ends with an answer that is the last hop's, or with none.
LEMMA TransferEnded ==
    ASSUME TInv, Transfers!Performing, NEW result, Transfers!End(result),
           result = None \/
              /\ result.response.head \cup result.response.body \subseteq {Len(trail) - 1}
              /\ result.status # "final" => request.redirects = 0 \/ ~result.located
    PROVE  TInv'
<1>1. /\ progress' = "ended" /\ returned' = result
      /\ UNCHANGED <<request, address, hop, over, used, response, trail>>
  BY DEF Transfers!End
<1>2. progress # "none"
  BY DEF Transfers!Performing
<1>3. Transfers!TypeOK'
  BY <1>1, <1>2 DEF TInv, Transfers!TransfersKeep, Transfers!TypeOK
<1>4. Transfers!StaysWithOrigin'
  BY <1>1 DEF TInv, Transfers!TransfersKeep, Transfers!StaysWithOrigin
<1>5. Transfers!LimitsHold'
  BY <1>1 DEF TInv, Transfers!TransfersKeep, Transfers!LimitsHold
<1>6. NothingSent' /\ NextHop' /\ WithinLimits'
  BY <1>1, <1>2 DEF TInv, NothingSent, NextHop, WithinLimits
<1> QED
  BY <1>3, <1>4, <1>5, <1>6 DEF TInv, Transfers!TransfersKeep

\* A new request has nothing in it, and what it has is within the limits.
LEMMA CreateStep ==
    ASSUME TransferLimits, TInv, NEW url \in Transfers!Urls, NEW method \in Transfers!Methods, Transfers!Create(url, method)
    PROVE  TInv'
<1>1. /\ progress = "none" /\ progress' = "building" /\ address' = url
      /\ UNCHANGED <<hop, over, used, response, returned, trail>>
  BY DEF Transfers!Create
<1>2. /\ request' \in Transfers!Request
      /\ request'.size = 0 /\ ~request'.form /\ ~request'.file /\ request'.headers = {}
      /\ request'.limit = 1 /\ request'.redirects = 1
  BY DEF Transfers!Create, Transfers!Request
<1>3. /\ trail = <<>> /\ hop = 0 /\ used = [head |-> 0, body |-> 0] /\ returned = None
      /\ used.head = 0 /\ used.body = 0 /\ Len(trail) = 0
  BY <1>1 DEF TInv, NothingSent
<1>4. Transfers!TypeOK'
  BY <1>1, <1>2 DEF TInv, Transfers!TransfersKeep, Transfers!TypeOK
<1>5. Transfers!StaysWithOrigin' /\ Transfers!LimitsHold'
  BY <1>1, <1>2, <1>3 DEF Transfers!StaysWithOrigin, Transfers!LimitsHold, TransferLimits
<1>6. NothingSent'
  <2>1. ~Transfers!Carries(request')
    BY <1>2 DEF Transfers!Carries
  <2>2. Transfers!Valid(request')
    BY <1>2, <2>1 DEF Transfers!Valid, TransferLimits
  <2> QED
    BY <1>1, <1>2, <1>3, <2>2 DEF NothingSent
<1>7. NextHop' /\ WithinLimits'
  BY <1>1, <1>2, <1>3 DEF NextHop, WithinLimits
<1> QED
  BY <1>4, <1>5, <1>6, <1>7 DEF TInv, Transfers!TransfersKeep

\* Every edit the builder offers leaves a request, with files in forms only.
LEMMA Built ==
    ASSUME TransferLimits, TInv, progress = "building", Transfers!Build
    PROVE  \E input \in Transfers!Request : (input.file => input.form) /\ Transfers!Edit(input)
<1>1. request \in Transfers!Request /\ (request.file => request.form)
  BY DEF TInv, Transfers!TransfersKeep, Transfers!TypeOK, NothingSent
<1>2. ASSUME NEW name \in Transfers!HeaderNames, Transfers!SetHeader(name)
      PROVE  \E input \in Transfers!Request : (input.file => input.form) /\ Transfers!Edit(input)
  <2> DEFINE input == [request EXCEPT !.headers = @ \cup {name}]
  <2>1. input \in Transfers!Request /\ input.file = request.file /\ input.form = request.form
    BY <1>1 DEF Transfers!Request
  <2> QED
    BY <1>1, <1>2, <2>1 DEF Transfers!SetHeader
<1>3. ASSUME NEW size \in 0..1, Transfers!SetBody(size)
      PROVE  \E input \in Transfers!Request : (input.file => input.form) /\ Transfers!Edit(input)
  <2> DEFINE input == [request EXCEPT !.size = size]
  <2>1. input \in Transfers!Request /\ input.file = request.file /\ input.form = request.form
    BY <1>1 DEF Transfers!Request
  <2> QED
    BY <1>1, <1>3, <2>1 DEF Transfers!SetBody
<1>4. ASSUME NEW size \in 0..1, Transfers!AppendBytes(size)
      PROVE  \E input \in Transfers!Request : (input.file => input.form) /\ Transfers!Edit(input)
  <2> DEFINE input == [request EXCEPT !.size = @ + size]
  <2>1. input \in Transfers!Request /\ input.file = request.file /\ input.form = request.form
    BY <1>1 DEF Transfers!Request
  <2> QED
    BY <1>1, <1>4, <2>1 DEF Transfers!AppendBytes
<1>5. ASSUME NEW size \in 0..1, Transfers!Form(size)
      PROVE  \E input \in Transfers!Request : (input.file => input.form) /\ Transfers!Edit(input)
  <2> DEFINE input == [request EXCEPT !.size = @ + size, !.form = TRUE]
  <2>1. request.size + size \in Nat
    BY <1>1 DEF Transfers!Request
  <2>2. input \in Transfers!Request /\ input.form
    BY <1>1, <2>1 DEF Transfers!Request
  <2> QED
    BY <1>5, <2>2 DEF Transfers!Form
<1>6. ASSUME Transfers!FormFile
      PROVE  \E input \in Transfers!Request : (input.file => input.form) /\ Transfers!Edit(input)
  <2> DEFINE input == [request EXCEPT !.form = TRUE, !.file = TRUE]
  <2>1. input \in Transfers!Request /\ input.form
    BY <1>1 DEF Transfers!Request
  <2> QED
    BY <1>6, <2>1 DEF Transfers!FormFile
<1>7. ASSUME NEW limit \in 1..BodyLimit, NEW redirects \in 0..RedirectLimit,
             Transfers!Limits(limit, redirects)
      PROVE  \E input \in Transfers!Request : (input.file => input.form) /\ Transfers!Edit(input)
  <2> DEFINE input == [request EXCEPT !.limit = limit, !.redirects = redirects]
  <2>1. limit \in Nat /\ redirects \in Nat
    BY DEF TransferLimits
  <2>2. input \in Transfers!Request /\ input.file = request.file /\ input.form = request.form
    BY <1>1, <2>1 DEF Transfers!Request
  <2> QED
    BY <1>1, <1>7, <2>2 DEF Transfers!Limits
<1> QED
  BY <1>2, <1>3, <1>4, <1>5, <1>6, <1>7 DEF Transfers!Build

\* A request that is being built is valid after every edit, and nothing was sent.
LEMMA BuildStep ==
    ASSUME TransferLimits, TInv, progress = "building", Transfers!Build
    PROVE  TInv'
<1>1. PICK input \in Transfers!Request : (input.file => input.form) /\ Transfers!Edit(input)
  BY Built
<1>2. /\ request' = input /\ Transfers!Valid(input)
      /\ UNCHANGED <<progress, address, hop, over, used, response, returned, trail>>
  BY <1>1 DEF Transfers!Edit
<1>3. /\ trail = <<>> /\ hop = 0 /\ used = [head |-> 0, body |-> 0] /\ returned = None
      /\ used.head = 0 /\ used.body = 0 /\ Len(trail) = 0
  BY DEF TInv, NothingSent
<1>4. input.limit \in Nat /\ input.redirects \in Nat
  BY <1>1 DEF Transfers!Request
<1>5. Transfers!TypeOK'
  BY <1>1, <1>2 DEF TInv, Transfers!TransfersKeep, Transfers!TypeOK
<1>6. Transfers!StaysWithOrigin' /\ Transfers!LimitsHold'
  BY <1>2, <1>3, <1>4 DEF Transfers!StaysWithOrigin, Transfers!LimitsHold, TransferLimits
<1>7. NothingSent' /\ NextHop'
  BY <1>1, <1>2, <1>3 DEF NothingSent, NextHop, Transfers!Valid, Transfers!Carries
<1>8. WithinLimits'
  BY <1>2, <1>3, <1>4 DEF WithinLimits
<1> QED
  BY <1>5, <1>6, <1>7, <1>8 DEF TInv, Transfers!TransfersKeep

\* HTTP_Send takes the request as it is.
LEMMA SendStep ==
    ASSUME TInv, Transfers!Send
    PROVE  TInv'
<1>1. /\ progress = "building" /\ progress' = "reading"
      /\ UNCHANGED <<request, address, hop, over, used, response, returned, trail>>
  BY DEF Transfers!Send
<1>2. Transfers!TypeOK'
  BY <1>1 DEF TInv, Transfers!TransfersKeep, Transfers!TypeOK
<1>3. Transfers!StaysWithOrigin' /\ Transfers!LimitsHold'
  BY <1>1 DEF TInv, Transfers!TransfersKeep, Transfers!StaysWithOrigin, Transfers!LimitsHold
<1>4. NothingSent' /\ NextHop' /\ WithinLimits'
  BY <1>1 DEF TInv, NothingSent, NextHop, WithinLimits, Transfers!Valid, Transfers!Carries
<1> QED
  BY <1>2, <1>3, <1>4 DEF TInv, Transfers!TransfersKeep

\* Files fill what the other parts leave, and only forms have them, which are posted.
LEMMA ReadFilesStep ==
    ASSUME TransferLimits, TInv, Transfers!ReadFiles
    PROVE  TInv'
<1>1. PICK size \in IF request.file THEN 0..(BodyLimit - request.size) ELSE {0} :
          request' = [request EXCEPT !.size = @ + size, !.file = FALSE]
  BY DEF Transfers!ReadFiles
<1>2. /\ progress = "reading" /\ progress' = "starting"
      /\ UNCHANGED <<address, hop, over, used, response, returned, trail>>
  BY DEF Transfers!ReadFiles
<1>3. /\ request \in Transfers!Request /\ Transfers!Valid(request) /\ (request.file => request.form)
      /\ request.size \in Nat /\ request.redirects \in Nat /\ request.limit \in Nat
      /\ trail = <<>> /\ hop = 0 /\ used = [head |-> 0, body |-> 0] /\ returned = None
      /\ used.head = 0 /\ used.body = 0 /\ Len(trail) = 0
  BY <1>2 DEF TInv, Transfers!TransfersKeep, Transfers!TypeOK, NothingSent, Transfers!Request
<1>4. /\ size \in Nat /\ request.size + size \in Nat /\ request.size + size <= BodyLimit
      /\ ~request.file => size = 0
  BY <1>1, <1>3 DEF TransferLimits, Transfers!Valid
<1>5. /\ request' \in Transfers!Request
      /\ request'.size = request.size + size /\ request'.form = request.form
      /\ request'.method = request.method /\ request'.headers = request.headers
      /\ request'.limit = request.limit /\ request'.redirects = request.redirects
  BY <1>1, <1>3, <1>4 DEF Transfers!Request
<1>6. Transfers!TypeOK'
  BY <1>2, <1>5 DEF TInv, Transfers!TransfersKeep, Transfers!TypeOK
<1>7. Transfers!StaysWithOrigin' /\ Transfers!LimitsHold'
  BY <1>2, <1>3, <1>5 DEF Transfers!StaysWithOrigin, Transfers!LimitsHold, TransferLimits
<1>8. NothingSent'
  BY <1>2 DEF NothingSent
<1>9. NextHop'
  <2>1. Transfers!Carries(request') => Transfers!Carries(request)
    BY <1>3, <1>4, <1>5 DEF Transfers!Carries
  <2>2. Transfers!Carries(request) => request.method \in {"post", "put"}
    BY <1>3 DEF Transfers!Valid, Transfers!Request, Transfers!Methods
  <2> QED
    BY <1>2, <1>3, <1>5, <2>1, <2>2 DEF NextHop
<1>10. WithinLimits'
  BY <1>2, <1>3, <1>4, <1>5 DEF WithinLimits
<1> QED
  BY <1>6, <1>7, <1>8, <1>9, <1>10 DEF TInv, Transfers!TransfersKeep

\* What is sent is what the invariant says of it while it is pending.
LEMMA StartStep ==
    ASSUME TransferLimits, TInv, Transfers!Start
    PROVE  TInv'
<1> DEFINE sent == [to |-> address, method |-> request.method, headers |-> request.headers,
                    content |-> Transfers!Carries(request), size |-> request.size]
<1>1. /\ progress = "starting" /\ progress' = "receiving"
      /\ response' = [head |-> {}, body |-> {}] /\ trail' = Append(trail, sent)
      /\ UNCHANGED <<request, address, hop, over, used, returned>>
  BY DEF Transfers!Start, Transfers!Empty
<1>2. /\ request \in Transfers!Request /\ address \in Transfers!Urls /\ trail \in Seq(Transfers!Sent) /\ hop \in Nat
      /\ Len(trail) = hop /\ hop <= request.redirects /\ request.redirects \in Nat
      /\ request.size <= BodyLimit /\ returned = None
  BY <1>1 DEF TInv, Transfers!TransfersKeep, Transfers!TypeOK, WithinLimits, Transfers!Request
<1>3. sent \in Transfers!Sent
  BY <1>2 DEF Transfers!Sent, Transfers!Request, Transfers!Carries
<1>4. /\ trail' \in Seq(Transfers!Sent) /\ Len(trail') = Len(trail) + 1 /\ Len(trail) \in Nat
      /\ trail'[Len(trail) + 1] = sent
      /\ \A k \in 1..Len(trail) : trail'[k] = trail[k]
  BY <1>1, <1>2, <1>3
<1>5. Transfers!TypeOK'
  <2>1. response' \in [head : SUBSET Nat, body : SUBSET Nat]
    BY <1>1
  <2> QED
    BY <1>1, <1>4, <2>1 DEF TInv, Transfers!TransfersKeep, Transfers!TypeOK
<1>6. Transfers!StaysWithOrigin'
  <2> SUFFICES ASSUME NEW n \in 1..Len(trail')
               PROVE  /\ trail'[n].headers # {} \/ trail'[n].content =>
                           \A k \in 1..n : trail'[k].to = trail'[1].to
                      /\ trail'[n].content => trail'[n].method \in {"post", "put"}
                      /\ trail'[n].method # trail'[1].method => "content" \notin trail'[n].headers
                      /\ ~trail'[n].to.secure => \A k \in 1..n : ~trail'[k].to.secure
    BY DEF Transfers!StaysWithOrigin
  <2>1. CASE n \in 1..Len(trail)
    <3>1. 1 \in 1..Len(trail) /\ \A k \in 1..n : k \in 1..Len(trail)
      BY <1>4, <2>1
    <3> QED
      BY <1>4, <2>1, <3>1 DEF TInv, Transfers!TransfersKeep, Transfers!StaysWithOrigin
  <2>2. CASE n = Len(trail) + 1
    <3>1. trail'[n] = sent
      BY <1>4, <2>2
    <3>2. \A k \in 1..n : k = n \/ (k \in 1..Len(trail) /\ trail'[k] = trail[k])
      BY <1>4, <2>2
    <3>3. /\ sent.to = address /\ sent.method = request.method
          /\ sent.headers = request.headers /\ sent.content = Transfers!Carries(request)
      OBVIOUS
    <3>4. /\ Transfers!Carries(request) \/ request.headers # {} =>
                \A k \in 1..Len(trail) : trail[k].to = address
          /\ Transfers!Carries(request) => request.method \in {"post", "put"}
          /\ trail # <<>> /\ request.method # trail[1].method => "content" \notin request.headers
          /\ ~address.secure => \A k \in 1..Len(trail) : ~trail[k].to.secure
      BY <1>1 DEF TInv, NextHop
    <3>5. 1 \in 1..n /\ (n # 1 => trail # <<>>)
      BY <1>4, <2>2
    <3> HIDE DEF sent
    <3>6. trail'[n].headers # {} \/ trail'[n].content =>
              \A k \in 1..n : trail'[k].to = trail'[1].to
      BY <3>1, <3>2, <3>3, <3>4, <3>5
    <3>7. trail'[n].method # trail'[1].method => "content" \notin trail'[n].headers
      BY <3>1, <3>2, <3>3, <3>4, <3>5
    <3> QED
      BY <3>1, <3>2, <3>3, <3>4, <3>6, <3>7
  <2> QED
    BY <1>4, <2>1, <2>2
<1>7. Transfers!LimitsHold'
  <2>1. \A n \in 1..Len(trail') : trail'[n].size <= BodyLimit
    BY <1>2, <1>4 DEF TInv, Transfers!TransfersKeep, Transfers!LimitsHold
  <2>2. Len(trail') <= request'.redirects + 1
    BY <1>1, <1>2, <1>4
  <2> QED
    BY <1>1, <1>2, <2>1, <2>2 DEF TInv, Transfers!TransfersKeep, Transfers!LimitsHold
<1>8. NothingSent'
  BY <1>1 DEF NothingSent
<1>9. NextHop'
  <2>1. \A k \in 1..Len(trail') : trail'[k].to = address \/ k \in 1..Len(trail)
    BY <1>4
  <2>2. \A k \in 1..Len(trail') : trail'[k] = sent \/ trail'[k] = trail[k]
    BY <1>4
  <2>3. trail' # <<>> /\ (trail = <<>> => trail'[1] = sent)
                      /\ (trail # <<>> => trail'[1] = trail[1])
    BY <1>2, <1>4
  <2> QED
    BY <1>1, <1>4, <2>1, <2>2, <2>3 DEF TInv, NextHop, Transfers!Carries
<1>10. WithinLimits'
  BY <1>1, <1>2, <1>4 DEF TInv, WithinLimits
<1> QED
  BY <1>5, <1>6, <1>7, <1>8, <1>9, <1>10 DEF TInv, Transfers!TransfersKeep

\* What is received is counted before it is kept, and belongs to the last hop.
LEMMA ReceiveStep ==
    ASSUME TransferLimits, TInv, NEW piece \in {"head", "body"}, Transfers!Receive(piece)
    PROVE  TInv'
<1>1. progress = "receiving"
  BY DEF Transfers!Receive
<1>2. CASE Transfers!End(None)
  BY <1>1, <1>2, TransferEnded DEF Transfers!Performing
<1>3. CASE /\ used[piece] < Transfers!Allowed(piece)
           /\ used' = [used EXCEPT ![piece] = @ + 1]
           /\ response' = [response EXCEPT ![piece] = @ \cup {hop}]
           /\ UNCHANGED <<request, progress, address, hop, over, returned, trail>>
  <2>1. /\ used \in [head : Nat, body : Nat]
        /\ response \in [head : SUBSET Nat, body : SUBSET Nat] /\ hop \in Nat
        /\ request \in Transfers!Request /\ request.limit \in Nat
    BY <1>1 DEF TInv, Transfers!TransfersKeep, Transfers!TypeOK, Transfers!Request
  <2>2. /\ used' \in [head : Nat, body : Nat]
        /\ piece = "head" => used'.head = used.head + 1 /\ used'.body = used.body
        /\ piece = "body" => used'.body = used.body + 1 /\ used'.head = used.head
    <3>1. CASE piece = "head"
      BY <1>3, <2>1, <3>1
    <3>2. CASE piece = "body"
      BY <1>3, <2>1, <3>2
    <3> QED
      BY <3>1, <3>2
  <2>3. /\ response' \in [head : SUBSET Nat, body : SUBSET Nat]
        /\ response'.head \cup response'.body \subseteq response.head \cup response.body \cup {hop}
    <3>1. CASE piece = "head"
      <4>1. /\ response'.head = response.head \cup {hop} /\ response'.body = response.body
            /\ response' = [head |-> response.head \cup {hop}, body |-> response.body]
        BY <1>3, <2>1, <3>1
      <4> QED
        BY <2>1, <4>1
    <3>2. CASE piece = "body"
      <4>1. /\ response'.body = response.body \cup {hop} /\ response'.head = response.head
            /\ response' = [head |-> response.head, body |-> response.body \cup {hop}]
        BY <1>3, <2>1, <3>2
      <4> QED
        BY <2>1, <4>1
    <3> QED
      BY <3>1, <3>2
  <2>4. /\ used.head <= HeaderLimit /\ used.body <= request.limit
        /\ Len(trail) <= request.redirects + 1
    BY <1>1 DEF TInv, Transfers!TransfersKeep, Transfers!LimitsHold, WithinLimits
  <2>5. used'.head <= HeaderLimit /\ used'.body <= request.limit
    <3>1. CASE piece = "head"
      BY <1>3, <2>1, <2>2, <2>4, <3>1 DEF Transfers!Allowed, TransferLimits
    <3>2. CASE piece = "body"
      BY <1>3, <2>1, <2>2, <2>4, <3>2 DEF Transfers!Allowed, TransferLimits
    <3> QED
      BY <3>1, <3>2
  <2>6. Transfers!TypeOK'
    BY <1>3, <2>2, <2>3 DEF TInv, Transfers!TransfersKeep, Transfers!TypeOK
  <2>7. Transfers!StaysWithOrigin' /\ Transfers!LimitsHold'
    BY <1>3, <2>4, <2>5 DEF TInv, Transfers!TransfersKeep, Transfers!StaysWithOrigin, Transfers!LimitsHold
  <2>8. NothingSent' /\ NextHop'
    BY <1>1, <1>3 DEF TInv, NothingSent, NextHop, Transfers!Carries
  <2>9. WithinLimits'
    BY <1>1, <1>3, <2>3, <2>4, <2>5 DEF TInv, WithinLimits
  <2> QED
    BY <2>6, <2>7, <2>8, <2>9 DEF TInv, Transfers!TransfersKeep
<1> QED
  BY <1>2, <1>3 DEF Transfers!Receive

\* The answer is the last hop's.
LEMMA ReturnStep ==
    ASSUME TInv, Transfers!Return
    PROVE  TInv'
<1>1. progress = "receiving"
  BY DEF Transfers!Return
<1>2. PICK status \in Transfers!Redirects \cup {"final"}, located \in BOOLEAN :
          /\ status = "final" \/ request.redirects = 0 \/ ~located
          /\ Transfers!End([status |-> status, located |-> located, response |-> response, hop |-> hop])
  BY DEF Transfers!Return
<1> DEFINE result == [status |-> status, located |-> located, response |-> response, hop |-> hop]
<1>3. hop = Len(trail) - 1
  BY <1>1 DEF TInv, Transfers!TransfersKeep, Transfers!TypeOK, WithinLimits
<1>4. /\ result.response.head \cup result.response.body \subseteq {Len(trail) - 1}
      /\ result.status # "final" => request.redirects = 0 \/ ~result.located
  BY <1>1, <1>2, <1>3 DEF TInv, WithinLimits
<1>5. Transfers!End(result) /\ Transfers!Performing
  BY <1>1, <1>2 DEF Transfers!Performing
<1> HIDE DEF result
<1> QED
  BY <1>4, <1>5, TransferEnded

\* A request that carries something is forwarded to no other origin, and a header that
\* tells of it is dropped with it.
LEMMA RedirectStep ==
    ASSUME TransferLimits, TInv, NEW status \in Transfers!Redirects, NEW next \in Transfers!Urls, Transfers!Redirect(status, next)
    PROVE  TInv'
<1>1. progress = "receiving"
  BY DEF Transfers!Redirect
<1>2. CASE Transfers!Refused(status, next)
  <2>1. Transfers!End(None)
    BY <1>2 DEF Transfers!Redirect
  <2> QED
    BY <1>1, <2>1, TransferEnded DEF Transfers!Performing
<1>3. CASE ~Transfers!Refused(status, next)
  <2>1. /\ request' = Transfers!Forwarded(Transfers!Repeated(status), next) /\ address' = next
        /\ hop' = hop + 1 /\ progress' = "starting"
        /\ UNCHANGED <<over, used, response, returned, trail>>
    BY <1>3 DEF Transfers!Redirect
  <2>2. /\ request \in Transfers!Request /\ address \in Transfers!Urls /\ hop \in Nat /\ trail \in Seq(Transfers!Sent)
        /\ request.redirects \in Nat /\ request.size \in Nat /\ request.size <= BodyLimit
        /\ Len(trail) = hop + 1 /\ returned = None
    BY <1>1 DEF TInv, Transfers!TransfersKeep, Transfers!TypeOK, WithinLimits, Transfers!Request
  <2>3. /\ hop < request.redirects /\ (address.secure => next.secure)
        /\ next # address => Transfers!Repeated(status).method \in {"get", "head"}
    BY <1>3, <2>2 DEF Transfers!Refused
  <2> DEFINE repeated == Transfers!Repeated(status)
  <2>4. /\ repeated \in Transfers!Request
        /\ repeated.limit = request.limit /\ repeated.redirects = request.redirects
        /\ \/ /\ repeated = request
           \/ /\ repeated.method = "get" /\ repeated.size = 0 /\ ~repeated.form
              /\ repeated.headers = request.headers \ {"content"}
    <3>1. CASE Transfers!BecomesGet(status)
      <4>1. repeated = [request EXCEPT !.method = "get", !.size = 0, !.form = FALSE,
                                       !.headers = @ \ {"content"}]
        BY <3>1 DEF Transfers!Repeated
      <4>2. request.headers \ {"content"} \in SUBSET Transfers!HeaderNames
        BY <2>2 DEF Transfers!Request
      <4>3. repeated \in Transfers!Request
        <5> DEFINE kept == request.headers \ {"content"}
        <5>1. kept \in SUBSET Transfers!HeaderNames /\ "get" \in Transfers!Methods
          BY <4>2 DEF Transfers!Methods
        <5> HIDE DEF kept
        <5>2. [request EXCEPT !.method = "get", !.size = 0, !.form = FALSE, !.headers = kept]
                 \in Transfers!Request
          BY <2>2, <5>1 DEF Transfers!Request
        <5> QED
          BY <4>1, <5>2 DEF kept
      <4>4. /\ repeated.limit = request.limit /\ repeated.redirects = request.redirects
            /\ repeated.method = "get" /\ repeated.size = 0 /\ ~repeated.form
            /\ repeated.headers = request.headers \ {"content"}
        BY <2>2, <4>1 DEF Transfers!Request
      <4> HIDE DEF repeated
      <4> QED
        BY <4>3, <4>4
    <3>2. CASE ~Transfers!BecomesGet(status)
      BY <2>2, <3>2 DEF Transfers!Repeated
    <3> QED
      BY <3>1, <3>2
  <2>5. next # address => repeated.method \in {"get", "head"}
    BY <2>3
  <2> HIDE DEF repeated
  <2>6. /\ request' \in Transfers!Request
        /\ request'.method = repeated.method /\ request'.size = repeated.size
        /\ request'.form = repeated.form
        /\ request'.limit = request.limit /\ request'.redirects = request.redirects
        /\ IF next = address THEN request'.headers = repeated.headers
                             ELSE request'.headers = {}
    <3>1. request' = IF next = address THEN repeated ELSE [repeated EXCEPT !.headers = {}]
      BY <2>1 DEF Transfers!Forwarded, repeated
    <3>2. CASE next = address
      BY <2>4, <3>1, <3>2
    <3>3. CASE next # address
      BY <2>4, <3>1, <3>3 DEF Transfers!Request
    <3> QED
      BY <3>2, <3>3
  <2>7. Transfers!Carries(request') => Transfers!Carries(request) /\ repeated = request
    BY <2>2, <2>4, <2>6 DEF Transfers!Carries
  <2>8. /\ Transfers!Carries(request) \/ request.headers # {} =>
              \A k \in 1..Len(trail) : trail[k].to = address
        /\ Transfers!Carries(request) => request.method \in {"post", "put"}
        /\ trail # <<>> /\ request.method # trail[1].method => "content" \notin request.headers
        /\ ~address.secure => \A k \in 1..Len(trail) : ~trail[k].to.secure
    BY <1>1 DEF TInv, NextHop
  <2>9. Transfers!TypeOK'
    BY <2>1, <2>2, <2>6 DEF TInv, Transfers!TransfersKeep, Transfers!TypeOK
  <2>10. Transfers!StaysWithOrigin'
    BY <2>1 DEF TInv, Transfers!TransfersKeep, Transfers!StaysWithOrigin
  <2>11. Transfers!LimitsHold'
    BY <1>1, <2>1, <2>6 DEF TInv, Transfers!TransfersKeep, Transfers!LimitsHold, WithinLimits
  <2>12. NothingSent'
    BY <2>1 DEF NothingSent
  <2>13. NextHop'
    <3>1. Transfers!Carries(request') => request'.method \in {"post", "put"}
      BY <2>6, <2>7, <2>8
    <3>2. Transfers!Carries(request') \/ request'.headers # {} =>
              \A k \in 1..Len(trail) : trail[k].to = next
      <4>1. Transfers!Carries(request') => next = address
        BY <2>5, <2>6, <3>1
      <4>2. request'.headers # {} => next = address /\ request.headers # {}
        BY <2>4, <2>6
      <4> QED
        BY <2>7, <2>8, <4>1, <4>2
    <3>3. trail # <<>> /\ request'.method # trail[1].method => "content" \notin request'.headers
      BY <2>4, <2>6, <2>8
    <3>4. ~next.secure => \A k \in 1..Len(trail) : ~trail[k].to.secure
      BY <2>3, <2>8
    <3> QED
      BY <2>1, <3>1, <3>2, <3>3, <3>4 DEF NextHop
  <2>14. WithinLimits'
    <3>1. request'.size <= BodyLimit
      BY <2>2, <2>4, <2>6 DEF TransferLimits
    <3> QED
      BY <1>1, <2>1, <2>2, <2>3, <2>6, <3>1 DEF TInv, WithinLimits
  <2> QED
    BY <2>9, <2>10, <2>11, <2>12, <2>13, <2>14 DEF TInv, Transfers!TransfersKeep
<1> QED
  BY <1>2, <1>3

\* Every step of Next keeps the invariant.
LEMMA TransfersStep ==
    ASSUME TransferLimits, TInv, [Transfers!Next]_(Transfers!vars)
    PROVE  TInv'
<1>1. CASE UNCHANGED Transfers!vars
  BY <1>1, TransferWaits DEF Transfers!vars, TInv, Transfers!TransfersKeep, Transfers!TypeOK
<1>2. ASSUME NEW url \in Transfers!Urls, NEW method \in Transfers!Methods, Transfers!Create(url, method) PROVE TInv'
  BY <1>2, CreateStep
<1>3. CASE progress = "building" /\ Transfers!Build
  BY <1>3, BuildStep
<1>4. CASE Transfers!Send
  BY <1>4, SendStep
<1>5. CASE Transfers!ReadFiles
  BY <1>5, ReadFilesStep
<1>6. CASE Transfers!Start
  BY <1>6, StartStep
<1>7. CASE Transfers!Stop \/ Transfers!Fail
  BY <1>7, TransferEnded DEF Transfers!Stop, Transfers!Fail
<1>8. CASE Transfers!Return
  BY <1>8, ReturnStep
<1>9. CASE Transfers!Expire
  BY <1>9, TransferWaits DEF Transfers!Expire
<1>10. ASSUME NEW piece \in {"head", "body"}, Transfers!Receive(piece) PROVE TInv'
  BY <1>10, ReceiveStep
<1>11. ASSUME NEW status \in Transfers!Redirects, NEW next \in Transfers!Urls, Transfers!Redirect(status, next) PROVE TInv'
  BY <1>11, RedirectStep
<1> QED
  BY <1>1, <1>2, <1>3, <1>4, <1>5, <1>6, <1>7, <1>8, <1>9, <1>10, <1>11 DEF Transfers!Next

\* For all hosts and limits, and wherever servers redirect a request, back to where it
\* came from included: what a script sends stays with the origin it was meant for, and
\* within the limits, over all hops together (Client::Perform).
THEOREM Keeping == Transfers!Spec => []TransfersKeep
<1>. TransferLimits
  BY TransfersAssumption DEF TransferLimits
<1>1. Transfers!Init => TInv
  BY TransfersBegin
<1>2. TInv /\ [Transfers!Next]_(Transfers!vars) => TInv'
  BY TransfersStep
<1>3. TInv => TransfersKeep
  BY DEF TInv, TransfersKeep
<1> QED
  BY <1>1, <1>2, <1>3, PTL DEF Transfers!Spec

-----------------------------------------------------------------------------
(* Queries. *)

QueryTypes ==
    /\ kind \in [Queued -> Queries!Kinds \cup {None}]
    /\ driver \in [Queued -> Queries!Drivers \cup {None}]
    /\ phase \in [Queued -> {"queued", "connecting", "begun", "executed", "fetched", "committing", "done"}]
    /\ canceled \in [Queued -> BOOLEAN] /\ late \in [Queued -> BOOLEAN]
    /\ answer \in [Queued -> {None, "ok", "error", "unknown"}]
    /\ tx \in [Queued -> {"none", "open", "sent", "committed", "rolled back"}]
    /\ landed \subseteq Queued
    /\ conn \in [Conns -> [open : BOOLEAN, handle : BOOLEAN, tx : BOOLEAN,
                           stmt : {"none", "ready", "row", "done"}]]
    /\ lock \in [Queued \cup Conns -> {"none", "shared", "reserved"}]

\* What is in the database, against the transaction and what the worker is at: the
\* effects of a request are there when its transaction is committed, and only then but
\* for an implicit commit; COMMIT was sent by a worker that is still waiting, or that
\* told the script so.
Landing ==
    \A r \in Queued :
        /\ tx[r] = "committed" => r \in landed
        /\ r \in landed /\ kind[r] # "control" => tx[r] = "committed"
        /\ tx[r] \in {"sent", "committed"} =>
              phase[r] = "committing" \/ answer[r] \in {"ok", "unknown"}
        /\ answer[r] # None => phase[r] = "done"
        /\ answer[r] = "ok" => r \in landed
        /\ phase[r] = "queued" => r \notin landed

\* A connection that is needed is open.
Connections == \A c \in Conns : Queries!Needed(conn[c]) => conn[c].open

QInv == QueryTypes /\ Landing /\ Connections /\ Queries!LocksAreOwned

\* Nothing was asked yet.
LEMMA QueriesBegin == Queries!Init => QInv
BY QueriesAssumption DEF Queries!Init, QInv, QueryTypes, Landing, Connections, Queries!LocksAreOwned,
   Queries!Needed, Queries!Closed, Queries!Users

\* Every step of a request.
LEMMA RequestSteps ==
    ASSUME QInv, NEW r \in Queued,
           \/ Queries!WorkerStep(r) \/ Queries!Fail(r) \/ Queries!Cancel(r) \/ Queries!Expire(r)
           \/ Queries!ServerCommits(r) \/ Queries!ServerRollsBack(r)
    PROVE  QInv'
<1> USE QueriesAssumption
<1>1. CASE Queries!Take(r)
  <2>1. phase[r] = "queued" /\ UNCHANGED <<canceled, late, answer, tx, landed, conn, lock>>
    BY <1>1, Zenon DEF Queries!Take
  <2>2. \/ phase' = [phase EXCEPT ![r] = "done"] /\ UNCHANGED <<kind, driver>>
        \/ \E k \in Queries!Kinds, d \in Queries!Drivers :
              /\ phase' = [phase EXCEPT ![r] = "connecting"]
              /\ kind' = [kind EXCEPT ![r] = k] /\ driver' = [driver EXCEPT ![r] = d]
    BY <1>1, Zenon DEF Queries!Take
  <2>3. QueryTypes'
    <3>1. CASE phase' = [phase EXCEPT ![r] = "done"] /\ UNCHANGED <<kind, driver>>
      BY <2>1, <3>1 DEF QInv, QueryTypes
    <3>2. ASSUME NEW k \in Queries!Kinds, NEW d \in Queries!Drivers,
                 phase' = [phase EXCEPT ![r] = "connecting"],
                 kind' = [kind EXCEPT ![r] = k], driver' = [driver EXCEPT ![r] = d]
          PROVE  QueryTypes'
      BY <2>1, <3>2 DEF QInv, QueryTypes
    <3> QED
      BY <2>2, <3>1, <3>2
  <2>4. \A q \in Queued \ {r} : phase'[q] = phase[q] /\ kind'[q] = kind[q]
    BY <2>2 DEF QInv, QueryTypes
  <2>5. Landing'
    <3>1. \A q \in Queued \ {r} : Landing!(q)'
      BY <2>1, <2>4 DEF QInv, Landing
    <3>2. r \notin landed /\ answer[r] = None /\ tx[r] \notin {"sent", "committed"}
      BY <2>1 DEF QInv, QueryTypes, Landing
    <3>3. Landing!(r)'
      BY <2>1, <3>2
    <3> QED
      BY <3>1, <3>3 DEF Landing
  <2>6. Connections' /\ Queries!LocksAreOwned'
    <3>1. ~Queries!Running(r)
      BY <2>1 DEF Queries!Running
    <3> QED
      BY <2>1, <2>4, <3>1 DEF QInv, Connections, Queries!LocksAreOwned, Queries!Running, Queries!Needed
  <2> QED
    BY <2>3, <2>5, <2>6 DEF QInv
<1>2. CASE Queries!Connected(r)
  <2>1. QueryTypes'
    BY <1>2 DEF QInv, QueryTypes, Queries!Connected, Queries!Step, Queries!Checked
  <2>2. Landing'
    BY <1>2 DEF QInv, QueryTypes, Landing, Queries!Running, Queries!Connected, Queries!Step, Queries!Checked
  <2>3. Connections' /\ Queries!LocksAreOwned'
    BY <1>2 DEF QInv, QueryTypes, Connections, Queries!LocksAreOwned, Queries!Running, Queries!Needed,
       Queries!Connected, Queries!Step, Queries!Checked
  <2> QED
    BY <2>1, <2>2, <2>3 DEF QInv
<1>3. CASE Queries!ExecuteSQLite(r)
  <2>1. QueryTypes'
    BY <1>3 DEF QInv, QueryTypes, Queries!ExecuteSQLite, Queries!Step, Queries!Checked
  <2>2. Landing'
    BY <1>3 DEF QInv, QueryTypes, Landing, Queries!Running, Queries!ExecuteSQLite, Queries!Step, Queries!Checked
  <2>3. Connections' /\ Queries!LocksAreOwned'
    <3>1. /\ phase' = [phase EXCEPT ![r] = "executed"] /\ UNCHANGED conn
          /\ \A u \in (Queued \cup Conns) \ {r} : lock'[u] = lock[u]
      BY <1>3 DEF QInv, QueryTypes, Queries!ExecuteSQLite, Queries!Step
    <3>2. \A q \in Queued : lock'[q] # "none" => Queries!Running(q)'
      BY <3>1 DEF QInv, QueryTypes, Queries!LocksAreOwned, Queries!Running
    <3> QED
      BY <3>1, <3>2 DEF QInv, Connections, Queries!LocksAreOwned, Queries!Needed
  <2> QED
    BY <2>1, <2>2, <2>3 DEF QInv
<1>4. CASE Queries!ExecuteMySQL(r)
  <2>1. QueryTypes'
    BY <1>4 DEF QInv, QueryTypes, Queries!ExecuteMySQL, Queries!Step, Queries!Checked
  <2>2. Landing'
    BY <1>4 DEF QInv, QueryTypes, Landing, Queries!Running, Queries!ExecuteMySQL, Queries!Step, Queries!Checked
  <2>3. Connections' /\ Queries!LocksAreOwned'
    BY <1>4 DEF QInv, QueryTypes, Connections, Queries!LocksAreOwned, Queries!Running, Queries!Needed,
       Queries!ExecuteMySQL, Queries!Step, Queries!Checked
  <2> QED
    BY <2>1, <2>2, <2>3 DEF QInv
<1>5. CASE Queries!ExecutePostgreSQL(r)
  <2>1. QueryTypes'
    BY <1>5 DEF QInv, QueryTypes, Queries!ExecutePostgreSQL, Queries!Step, Queries!Checked
  <2>2. Landing'
    BY <1>5 DEF QInv, QueryTypes, Landing, Queries!Running, Queries!ExecutePostgreSQL, Queries!Step, Queries!Checked
  <2>3. Connections' /\ Queries!LocksAreOwned'
    BY <1>5 DEF QInv, QueryTypes, Connections, Queries!LocksAreOwned, Queries!Running, Queries!Needed,
       Queries!ExecutePostgreSQL, Queries!Step, Queries!Checked
  <2> QED
    BY <2>1, <2>2, <2>3 DEF QInv
<1>6. CASE Queries!LastCheck(r)
  <2>1. QueryTypes'
    BY <1>6 DEF QInv, QueryTypes, Queries!LastCheck, Queries!Step, Queries!Checked
  <2>2. Landing'
    BY <1>6 DEF QInv, QueryTypes, Landing, Queries!Running, Queries!LastCheck, Queries!Step, Queries!Checked
  <2>3. Connections' /\ Queries!LocksAreOwned'
    BY <1>6 DEF QInv, QueryTypes, Connections, Queries!LocksAreOwned, Queries!Running, Queries!Needed,
       Queries!LastCheck, Queries!Step, Queries!Checked
  <2> QED
    BY <2>1, <2>2, <2>3 DEF QInv
<1>7. CASE Queries!CommitSQLite(r)
  <2>1. QueryTypes'
    BY <1>7 DEF QInv, QueryTypes, Queries!CommitSQLite, Queries!End
  <2>2. Landing'
    BY <1>7 DEF QInv, QueryTypes, Landing, Queries!Running, Queries!CommitSQLite, Queries!End
  <2>3. Connections' /\ Queries!LocksAreOwned'
    BY <1>7 DEF QInv, QueryTypes, Connections, Queries!LocksAreOwned, Queries!Running, Queries!Needed,
       Queries!CommitSQLite, Queries!End
  <2> QED
    BY <2>1, <2>2, <2>3 DEF QInv
<1>8. CASE Queries!Commit(r)
  <2>1. QueryTypes'
    BY <1>8 DEF QInv, QueryTypes, Queries!Commit, Queries!Step, Queries!Checked
  <2>2. Landing'
    BY <1>8 DEF QInv, QueryTypes, Landing, Queries!Running, Queries!Commit, Queries!Step, Queries!Checked
  <2>3. Connections' /\ Queries!LocksAreOwned'
    BY <1>8 DEF QInv, QueryTypes, Connections, Queries!LocksAreOwned, Queries!Running, Queries!Needed,
       Queries!Commit, Queries!Step, Queries!Checked
  <2> QED
    BY <2>1, <2>2, <2>3 DEF QInv
<1>9. CASE Queries!ServerCommits(r)
  <2>1. QueryTypes'
    BY <1>9 DEF QInv, QueryTypes, Queries!ServerCommits
  <2>2. Landing'
    BY <1>9 DEF QInv, QueryTypes, Landing, Queries!Running, Queries!ServerCommits
  <2>3. Connections' /\ Queries!LocksAreOwned'
    BY <1>9 DEF QInv, QueryTypes, Connections, Queries!LocksAreOwned, Queries!Running, Queries!Needed,
       Queries!ServerCommits
  <2> QED
    BY <2>1, <2>2, <2>3 DEF QInv
<1>10. CASE Queries!Reply(r)
  <2>1. QueryTypes'
    BY <1>10 DEF QInv, QueryTypes, Queries!Reply, Queries!End
  <2>2. Landing'
    BY <1>10 DEF QInv, QueryTypes, Landing, Queries!Running, Queries!Reply, Queries!End
  <2>3. Connections' /\ Queries!LocksAreOwned'
    BY <1>10 DEF QInv, QueryTypes, Connections, Queries!LocksAreOwned, Queries!Running, Queries!Needed,
       Queries!Reply, Queries!End
  <2> QED
    BY <2>1, <2>2, <2>3 DEF QInv
<1>11. CASE Queries!Fail(r)
  <2>1. QueryTypes'
    BY <1>11 DEF QInv, QueryTypes, Queries!Fail, Queries!Failure, Queries!End
  <2>2. Landing'
    BY <1>11 DEF QInv, QueryTypes, Landing, Queries!Running, Queries!Fail, Queries!Failure, Queries!End
  <2>3. Connections' /\ Queries!LocksAreOwned'
    BY <1>11 DEF QInv, QueryTypes, Connections, Queries!LocksAreOwned, Queries!Running, Queries!Needed,
       Queries!Fail, Queries!Failure, Queries!End
  <2> QED
    BY <2>1, <2>2, <2>3 DEF QInv
<1>12. CASE Queries!ServerRollsBack(r)
  <2>1. QueryTypes'
    BY <1>12 DEF QInv, QueryTypes, Queries!ServerRollsBack
  <2>2. Landing'
    BY <1>12 DEF QInv, QueryTypes, Landing, Queries!Running, Queries!ServerRollsBack
  <2>3. Connections' /\ Queries!LocksAreOwned'
    BY <1>12 DEF QInv, QueryTypes, Connections, Queries!LocksAreOwned, Queries!Running, Queries!Needed,
       Queries!ServerRollsBack
  <2> QED
    BY <2>1, <2>2, <2>3 DEF QInv
<1>13. CASE Queries!Cancel(r)
  <2>1. QueryTypes'
    BY <1>13 DEF QInv, QueryTypes, Queries!Cancel
  <2>2. Landing'
    BY <1>13 DEF QInv, QueryTypes, Landing, Queries!Running, Queries!Cancel
  <2>3. Connections' /\ Queries!LocksAreOwned'
    BY <1>13 DEF QInv, QueryTypes, Connections, Queries!LocksAreOwned, Queries!Running, Queries!Needed,
       Queries!Cancel
  <2> QED
    BY <2>1, <2>2, <2>3 DEF QInv
<1>14. CASE Queries!Expire(r)
  <2>1. QueryTypes'
    BY <1>14 DEF QInv, QueryTypes, Queries!Expire
  <2>2. Landing'
    BY <1>14 DEF QInv, QueryTypes, Landing, Queries!Running, Queries!Expire
  <2>3. Connections' /\ Queries!LocksAreOwned'
    BY <1>14 DEF QInv, QueryTypes, Connections, Queries!LocksAreOwned, Queries!Running, Queries!Needed,
       Queries!Expire
  <2> QED
    BY <2>1, <2>2, <2>3 DEF QInv
<1> QED
  BY <1>1, <1>2, <1>3, <1>4, <1>5, <1>6, <1>7, <1>8, <1>9, <1>10, <1>11, <1>12, <1>13, <1>14
     DEF Queries!WorkerStep, Queries!OpenSQLite, Queries!ConnectMySQL, Queries!ConnectPostgreSQL

\* Every step of a script: what it leaves open is needed, and what it locks too.
LEMMA SettledStep ==
    ASSUME QInv, NEW c \in Conns, NEW held \in {"none", "shared", "reserved"},
           NEW k \in [open : BOOLEAN, handle : BOOLEAN, tx : BOOLEAN,
                      stmt : {"none", "ready", "row", "done"}],
           Queries!Needed(k) => k.open,
           Queries!Settle(c, k, held), UNCHANGED Queries!request
    PROVE  QInv'
<1> USE QueriesAssumption
<1> DEFINE gone == ~Queries!Needed(k)
           left == IF gone THEN [k EXCEPT !.open = FALSE, !.tx = FALSE] ELSE k
<1>1. /\ UNCHANGED <<kind, driver, phase, canceled, late, answer, tx, landed>>
      /\ conn' = [conn EXCEPT ![c] = left]
      /\ lock' = [lock EXCEPT ![c] = IF gone THEN "none" ELSE IF k.tx THEN held
                                     ELSE IF k.stmt = "row" THEN "shared" ELSE "none"]
  BY DEF Queries!Settle, Queries!request
<1>2. /\ left \in [open : BOOLEAN, handle : BOOLEAN, tx : BOOLEAN,
                   stmt : {"none", "ready", "row", "done"}]
      /\ left.handle = k.handle /\ left.stmt = k.stmt /\ (~gone => left.open)
  OBVIOUS
<1>3. /\ Queries!Needed(left) <=> ~gone
      /\ left.stmt # "none" => left.open
  BY <1>2 DEF Queries!Needed
<1> HIDE DEF gone, left
<1>4. QueryTypes'
  BY <1>1, <1>2 DEF QInv, QueryTypes
<1>5. Landing'
  BY <1>1 DEF QInv, Landing
<1>6. Connections'
  BY <1>1, <1>2, <1>3 DEF QInv, QueryTypes, Connections, Queries!Needed
<1>7. Queries!LocksAreOwned'
  <2>1. \A r \in Queued : lock'[r] = lock[r] /\ (Queries!Running(r)' <=> Queries!Running(r))
    BY <1>1 DEF QInv, QueryTypes, Queries!Running
  <2>2. \A d \in Conns \ {c} : lock'[d] = lock[d] /\ conn'[d] = conn[d]
    BY <1>1 DEF QInv, QueryTypes
  <2>3. /\ lock'[c] # "none" => Queries!Needed(conn'[c])
        /\ conn'[c].stmt # "none" => conn'[c].open
    BY <1>1, <1>3 DEF QInv, QueryTypes
  <2> QED
    BY <2>1, <2>2, <2>3 DEF QInv, Queries!LocksAreOwned, Queries!Needed
<1> QED
  BY <1>4, <1>5, <1>6, <1>7 DEF QInv

LEMMA ScriptSteps ==
    ASSUME QInv, NEW c \in Conns, Queries!ScriptStep(c)
    PROVE  QInv'
<1> DEFINE Shape == [open : BOOLEAN, handle : BOOLEAN, tx : BOOLEAN,
                     stmt : {"none", "ready", "row", "done"}]
<1> USE DEF Queries!Needed
<1>1. /\ UNCHANGED Queries!request /\ conn[c] \in Shape
      /\ lock[c] \in {"none", "shared", "reserved"}
      /\ Queries!Needed(conn[c]) => conn[c].open
  BY DEF Queries!ScriptStep, QInv, QueryTypes, Connections
<1>2. CASE Queries!Open(c)
  BY <1>1, <1>2, SettledStep DEF Queries!Open, Queries!Closed
<1>3. CASE Queries!Begin(c)
  BY <1>1, <1>3, SettledStep DEF Queries!Begin
<1>4. CASE Queries!Prepare(c)
  BY <1>1, <1>4, SettledStep DEF Queries!Prepare
<1>5. CASE Queries!StepStatement(c)
  BY <1>1, <1>5, SettledStep DEF Queries!StepStatement
<1>6. CASE Queries!Reset(c)
  BY <1>1, <1>6, SettledStep DEF Queries!Reset
<1>7. CASE Queries!Finalize(c)
  BY <1>1, <1>7, SettledStep DEF Queries!Finalize
<1>8. CASE Queries!EndTransaction(c)
  BY <1>1, <1>8, SettledStep DEF Queries!EndTransaction
<1>9. CASE Queries!Close(c)
  BY <1>1, <1>9, SettledStep DEF Queries!Close
<1>10. CASE Queries!Retire(c)
  BY <1>1, <1>10, SettledStep DEF Queries!Retire
<1> QED
  BY <1>2, <1>3, <1>4, <1>5, <1>6, <1>7, <1>8, <1>9, <1>10 DEF Queries!ScriptStep

LEMMA QueriesStep == QInv /\ [Queries!Next]_(Queries!vars) => QInv'
<1> SUFFICES ASSUME QInv, [Queries!Next]_(Queries!vars) PROVE QInv'
  OBVIOUS
<1>1. CASE UNCHANGED Queries!vars
  BY <1>1 DEF Queries!vars, Queries!request, QInv, QueryTypes, Landing, Connections,
     Queries!LocksAreOwned, Queries!Needed, Queries!Running
<1>2. CASE Queries!Next
  BY <1>2, RequestSteps, ScriptSteps DEF Queries!Next
<1> QED
  BY <1>1, <1>2

\* For any requests and connections, and whatever is canceled, late, lost or refused: a
\* script is told of success only of what is in the database, of an error only of what is
\* not and will not be, and nobody who is gone keeps the file locked (RunQuery of the
\* three drivers, Statement::database_).
THEOREM Truth == Queries!Spec => []TruthIsTold
<1>1. QInv => TruthIsTold
  BY QueriesAssumption DEF QInv, QueryTypes, Landing, TruthIsTold, Queries!TruthIsTold
<1> QED
  BY <1>1, QueriesBegin, QueriesStep, PTL DEF Queries!Spec


-----------------------------------------------------------------------------
(* ConVars. *)

Load == [plugin : Plugins, state : {"loading", "running", "retiring"},
         convars : SUBSET Named, handles : SUBSET Named]
Variable == [definition : Variables!Definition, owners : SUBSET Loads]
HostVariable == [definition : Variables!Definition, value : Cells]

VariableTypes ==
    /\ script \in [Loads -> Load \cup {None}]
    /\ current \in [Plugins -> Loads \cup {None}] /\ replacement \in [Plugins -> Loads \cup {None}]
    /\ variable \in [Named -> Variable \cup {None}]
    /\ host \in [Named -> HostVariable \cup {None}]

\* The loads of a plugin exist, and a replacement has something to replace.
LoadsExist ==
    \A p \in Plugins :
        /\ current[p] # None => script[current[p]] # None /\ script[current[p]].plugin = p
        /\ replacement[p] # None =>
              /\ script[replacement[p]] # None /\ script[replacement[p]].plugin = p
              /\ current[p] # None /\ replacement[p] # current[p]

\* What a load holds is registered with it as an owner, and what it has a handle of it
\* holds.
HeldIsOwned ==
    \A i \in Loads : script[i] # None =>
        /\ script[i].handles \subseteq script[i].convars
        /\ \A n \in script[i].convars : variable[n] # None

VInv == VariableTypes /\ LoadsExist /\ HeldIsOwned /\ ConVarsOwned

\* None is no record.
LEMMA NoneApart == None \notin Load /\ None \notin Variable /\ None \notin HostVariable
BY VariablesAssumption DEF Load, Variable, HostVariable, Variables!Definition

LEMMA VariablesBegin == Variables!Init => VInv
BY NoneApart DEF Variables!Init, VInv, VariableTypes, LoadsExist, HeldIsOwned, ConVarsOwned, Variables!ConVarsOwned

\* The least number of a set is one of it.
LEMMA Least ==
    ASSUME NEW S \in SUBSET Nat, S # {}
    PROVE  Variables!Min(S) \in S
<1> DEFINE R == OpToRel(<, Nat)
<1>1. IsWellFoundedOn(R, Nat)
  BY NatLessThanWellFounded
<1> HIDE DEF R
<1>2. PICK x \in S : \A y \in S : ~(<<y, x>> \in R)
  BY <1>1, WFMin
<1>3. \A y \in S : x <= y
  <2> SUFFICES ASSUME NEW y \in S PROVE ~(y < x)
    OBVIOUS
  <2>1. y < x => <<y, x>> \in R
    BY DEF R, OpToRel
  <2> QED
    BY <1>2, <2>1
<1> QED
  BY <1>3 DEF Variables!Min


\* A load gives ConVars up, all of them when it goes.
LEMMA ClosedStep ==
    ASSUME VInv, NEW i \in Loads, script[i] # None, NEW names \in SUBSET script[i].convars,
           Variables!Closed(i, names), script' \in [Loads -> Load \cup {None}],
           \A j \in Loads \ {i} : IF script[j] = None THEN script'[j] = None
                                  ELSE /\ script'[j] # None
                                       /\ script'[j].plugin = script[j].plugin
                                       /\ script'[j].convars = script[j].convars
                                       /\ script'[j].handles = script[j].handles,
           IF script'[i] = None THEN names = script[i].convars
           ELSE /\ script'[i].plugin = script[i].plugin
                /\ script'[i].convars = script[i].convars \ names
                /\ script'[i].handles \subseteq script'[i].convars
    PROVE  /\ variable' \in [Named -> Variable \cup {None}] /\ host' \in [Named -> HostVariable \cup {None}]
           /\ HeldIsOwned' /\ ConVarsOwned'
<1> USE NoneApart
<1>1. /\ script \in [Loads -> Load \cup {None}]
      /\ variable \in [Named -> Variable \cup {None}] /\ host \in [Named -> HostVariable \cup {None}]
      /\ script[i].convars \subseteq Named
  BY DEF VInv, VariableTypes, Load
<1>2. ASSUME NEW n \in names PROVE variable[n] # None /\ host[n] # None /\ i \in variable[n].owners
  BY <1>1, <1>2 DEF VInv, HeldIsOwned, ConVarsOwned, Variables!ConVarsOwned
<1>3. \A n \in Named : variable'[n] = IF n \notin names THEN variable[n]
                                      ELSE IF variable[n].owners = {i} THEN None
                                      ELSE [variable[n] EXCEPT !.owners = @ \ {i}]
  BY DEF Variables!Closed
<1>4. \A n \in Named : host'[n] = IF n \in names /\ variable[n].owners = {i} THEN None ELSE host[n]
  BY DEF Variables!Closed, Variables!Releases, Variables!LastOwner
<1>5. variable' \in [Named -> Variable \cup {None}]
  <2>1. ASSUME NEW n \in names PROVE [variable[n] EXCEPT !.owners = @ \ {i}] \in Variable
    BY <1>1, <1>2, <2>1 DEF Variable
  <2> QED
    BY <1>1, <1>3, <2>1 DEF Variables!Closed
<1>6. host' \in [Named -> HostVariable \cup {None}]
  BY <1>1, <1>4 DEF Variables!Closed
<1>7. HeldIsOwned'
  <2> SUFFICES ASSUME NEW j \in Loads, script'[j] # None
               PROVE  /\ script'[j].handles \subseteq script'[j].convars
                      /\ \A n \in script'[j].convars : variable'[n] # None
    BY DEF HeldIsOwned
  <2>1. script'[j].handles \subseteq script'[j].convars
    BY DEF VInv, HeldIsOwned
  <2>2. ASSUME NEW n \in script'[j].convars PROVE variable'[n] # None
    <3>1. n \in Named /\ script[j] # None /\ n \in script[j].convars /\ (j = i => n \notin names)
      BY <1>1, <2>2 DEF Load
    <3>2. variable[n] # None /\ j \in variable[n].owners
      BY <3>1 DEF VInv, HeldIsOwned, ConVarsOwned, Variables!ConVarsOwned
    <3>3. CASE n \notin names
      BY <1>3, <3>1, <3>2, <3>3
    <3>4. CASE n \in names
      <4>1. variable[n].owners # {i} /\ [variable[n] EXCEPT !.owners = @ \ {i}] \in Variable
        BY <1>1, <3>1, <3>2, <3>4 DEF Variable
      <4> QED
        BY <1>3, <3>1, <3>4, <4>1
    <3> QED
      BY <3>3, <3>4
  <2> QED
    BY <2>1, <2>2
<1>8. ConVarsOwned'
  <2> SUFFICES ASSUME NEW n \in Named
               PROVE  /\ variable'[n] # None <=> host'[n] # None
                      /\ variable'[n] # None =>
                            /\ variable'[n].owners = {j \in Loads : script'[j] # None /\ n \in script'[j].convars}
                            /\ variable'[n].owners # {}
                            /\ \A j, k \in variable'[n].owners : script'[j].plugin = script'[k].plugin
                            /\ variable'[n].definition = host'[n].definition
                            /\ host'[n].value \in host'[n].definition.minimum..host'[n].definition.maximum
    BY DEF ConVarsOwned, Variables!ConVarsOwned
  <2>1. /\ variable[n] # None <=> host[n] # None
        /\ variable[n] # None =>
              /\ variable[n].owners = {j \in Loads : script[j] # None /\ n \in script[j].convars}
              /\ variable[n].owners # {}
              /\ \A j, k \in variable[n].owners : script[j].plugin = script[k].plugin
              /\ variable[n].definition = host[n].definition
              /\ host[n].value \in host[n].definition.minimum..host[n].definition.maximum
    BY DEF VInv, ConVarsOwned, Variables!ConVarsOwned
  <2>2. \A j \in Loads : script'[j] # None => script[j] # None /\ script'[j].plugin = script[j].plugin
    OBVIOUS
  <2>3. CASE n \notin names
    <3>1. variable'[n] = variable[n] /\ host'[n] = host[n]
      BY <1>3, <1>4, <2>3
    <3>2. {j \in Loads : script'[j] # None /\ n \in script'[j].convars}
          = {j \in Loads : script[j] # None /\ n \in script[j].convars}
      BY <2>3
    <3> QED
      BY <2>1, <2>2, <3>1, <3>2
  <2>4. CASE n \in names /\ variable[n].owners = {i}
    BY <1>3, <1>4, <2>4
  <2>5. CASE n \in names /\ variable[n].owners # {i}
    <3>1. /\ variable'[n] = [variable[n] EXCEPT !.owners = @ \ {i}] /\ host'[n] = host[n]
          /\ variable[n] \in Variable
      BY <1>1, <1>2, <1>3, <1>4, <2>5
    <3>2. /\ variable'[n].owners = variable[n].owners \ {i}
          /\ variable'[n].definition = variable[n].definition /\ variable'[n] # None
      BY <3>1 DEF Variable
    <3>3. {j \in Loads : script'[j] # None /\ n \in script'[j].convars}
          = {j \in Loads : script[j] # None /\ n \in script[j].convars} \ {i}
      BY <2>5
    <3> QED
      BY <1>2, <2>1, <2>2, <2>5, <3>1, <3>2, <3>3
  <2> QED
    BY <2>3, <2>4, <2>5
<1> QED
  BY <1>5, <1>6, <1>7, <1>8


LEMMA CreateConVarStep ==
    ASSUME VInv, NEW i \in Loads, NEW n \in Named, NEW d \in Variables!Definition,
           Variables!CreateConVar(i, n, d)
    PROVE  VInv'
<1> USE NoneApart
<1>1. /\ script[i] \in Load /\ n \notin script[i].convars /\ script[i] # None
      /\ Variables!Owned(i, n) /\ UNCHANGED <<current, replacement>>
  BY DEF VInv, VariableTypes, Variables!CreateConVar, Variables!Join, Variables!Register
<1>2. DEFINE own == [script[i] EXCEPT !.convars = @ \cup {n}, !.handles = @ \cup {n}]
<1>3. /\ script' = [script EXCEPT ![i] = own] /\ own \in Load
      /\ own.plugin = script[i].plugin /\ own.convars = script[i].convars \cup {n}
      /\ own.handles = script[i].handles \cup {n}
  BY <1>1 DEF Variables!Owned, Load
<1> HIDE DEF own
<1>4. /\ script \in [Loads -> Load \cup {None}] /\ script' \in [Loads -> Load \cup {None}]
      /\ \A j \in Loads \ {i} : script'[j] = script[j]
      /\ script'[i] = own /\ own # None
  BY <1>3 DEF VInv, VariableTypes
<1>5. LoadsExist'
  BY <1>1, <1>3, <1>4 DEF VInv, VariableTypes, LoadsExist
<1>6. /\ variable' \in [Named -> Variable \cup {None}] /\ host' \in [Named -> HostVariable \cup {None}]
      /\ \A m \in Named \ {n} : variable'[m] = variable[m] /\ host'[m] = host[m]
      /\ variable'[n] # None /\ host'[n] # None
      /\ variable'[n].owners = {j \in Loads : script[j] # None /\ n \in script[j].convars} \cup {i}
      /\ \A j \in variable'[n].owners : script[j].plugin = script[i].plugin
      /\ variable'[n].definition = host'[n].definition
      /\ host'[n].value \in host'[n].definition.minimum..host'[n].definition.maximum
  <2>1. /\ variable \in [Named -> Variable \cup {None}] /\ host \in [Named -> HostVariable \cup {None}]
        /\ variable[n] # None =>
              /\ host[n] # None /\ variable[n].definition = host[n].definition
              /\ variable[n].owners = {j \in Loads : script[j] # None /\ n \in script[j].convars}
              /\ host[n].value \in host[n].definition.minimum..host[n].definition.maximum
        /\ variable[n] = None => {j \in Loads : script[j] # None /\ n \in script[j].convars} = {}
    BY DEF VInv, VariableTypes, HeldIsOwned, ConVarsOwned, Variables!ConVarsOwned
  <2>2. CASE Variables!Join(i, n, d)
    <3> DEFINE more == [variable[n] EXCEPT !.owners = @ \cup {i}]
    <3>1. /\ variable[n] # None /\ variable' = [variable EXCEPT ![n] = more] /\ UNCHANGED host
          /\ \A o \in variable[n].owners : script[o].plugin = script[i].plugin
      BY <2>2 DEF Variables!Join, Variables!Others
    <3>2. variable[n] \in Variable
      BY <2>1, <3>1
    <3>3. /\ more \in Variable /\ more.definition = variable[n].definition
          /\ more.owners = variable[n].owners \cup {i}
      BY <3>2 DEF Variable
    <3> HIDE DEF more
    <3> QED
      BY <2>1, <3>1, <3>3
  <2>3. CASE Variables!Register(i, n, d)
    <3> DEFINE new == [definition |-> d, owners |-> {i}]
               made == [definition |-> d, value |-> d.initial]
    <3>1. /\ variable[n] = None /\ variable' = [variable EXCEPT ![n] = new]
          /\ host' = [host EXCEPT ![n] = made]
      BY <2>3 DEF Variables!Register
    <3>2. new \in Variable /\ made \in HostVariable
      BY DEF Variable, HostVariable, Variables!Definition
    <3>3. made.value \in d.minimum..d.maximum
      <4>1. d.minimum \in Int /\ d.initial \in Int /\ d.maximum \in Int
        BY VariablesAssumption DEF Variables!Definition
      <4>2. d.minimum <= d.initial /\ d.initial <= d.maximum
        BY DEF Variables!CreateConVar, Variables!Valid
      <4> QED
        BY <4>1, <4>2
    <3>4. new.owners = {i} /\ new.definition = d /\ made.definition = d
      OBVIOUS
    <3> HIDE DEF new, made
    <3> QED
      BY <2>1, <3>1, <3>2, <3>3, <3>4
  <2> QED
    BY <2>2, <2>3 DEF Variables!CreateConVar
<1>7. HeldIsOwned'
  <2>1. \A j \in Loads : script[j] # None => script[j].convars \subseteq Named
    BY <1>4 DEF Load
  <2>2. ASSUME NEW j \in Loads, script'[j] # None
        PROVE  /\ script'[j].handles \subseteq script'[j].convars
               /\ \A m \in script'[j].convars : variable'[m] # None
    <3>1. CASE j = i
      BY <1>1, <1>3, <1>4, <1>6, <2>1, <3>1 DEF VInv, HeldIsOwned
    <3>2. CASE j # i
      BY <1>4, <1>6, <2>1, <2>2, <3>2 DEF VInv, HeldIsOwned
    <3> QED
      BY <3>1, <3>2
  <2> QED
    BY <2>2 DEF HeldIsOwned
<1>8. ConVarsOwned'
  <2>1. /\ \A j \in Loads : script'[j] # None <=> script[j] # None
        /\ \A j \in Loads : script[j] # None => script'[j].plugin = script[j].plugin
        /\ \A m \in Named \ {n}, j \in Loads :
              script[j] # None => (m \in script'[j].convars <=> m \in script[j].convars)
        /\ \A j \in Loads \ {i} : script'[j] = script[j]
        /\ n \in script'[i].convars
    BY <1>1, <1>3, <1>4
  <2> SUFFICES ASSUME NEW m \in Named
               PROVE  /\ variable'[m] # None <=> host'[m] # None
                      /\ variable'[m] # None =>
                            /\ variable'[m].owners = {j \in Loads : script'[j] # None /\ m \in script'[j].convars}
                            /\ variable'[m].owners # {}
                            /\ \A j, k \in variable'[m].owners : script'[j].plugin = script'[k].plugin
                            /\ variable'[m].definition = host'[m].definition
                            /\ host'[m].value \in host'[m].definition.minimum..host'[m].definition.maximum
    BY DEF ConVarsOwned, Variables!ConVarsOwned
  <2>2. CASE m # n
    <3>1. {j \in Loads : script'[j] # None /\ m \in script'[j].convars}
          = {j \in Loads : script[j] # None /\ m \in script[j].convars}
      BY <2>1, <2>2
    <3>2. variable'[m] = variable[m] /\ host'[m] = host[m]
      BY <1>6, <2>2
    <3> QED
      BY <2>1, <3>1, <3>2 DEF VInv, ConVarsOwned, Variables!ConVarsOwned
  <2>3. CASE m = n
    <3>1. {j \in Loads : script'[j] # None /\ n \in script'[j].convars}
          = {j \in Loads : script[j] # None /\ n \in script[j].convars} \cup {i}
      BY <1>1, <2>1
    <3>2. \A j \in variable'[n].owners : script[j] # None
      BY <1>1, <1>6
    <3> QED
      BY <1>6, <2>1, <2>3, <3>1, <3>2
  <2> QED
    BY <2>2, <2>3
<1> QED
  BY <1>1, <1>4, <1>5, <1>6, <1>7, <1>8 DEF VInv, VariableTypes

LEMMA WriteConVarStep ==
    ASSUME VInv, NEW i \in Loads, NEW n \in Named, NEW value \in Cells,
           Variables!WriteConVar(i, n, value)
    PROVE  VInv'
<1> USE NoneApart
<1> DEFINE d == variable[n].definition
           new == [host[n] EXCEPT !.value = Variables!Clamped(d, value)]
<1>1. /\ script[i] # None /\ n \in script[i].handles /\ UNCHANGED <<script, current, replacement, variable>>
      /\ host' = [host EXCEPT ![n] = new]
  BY DEF Variables!WriteConVar
<1>2. variable[n] # None /\ host[n] # None /\ variable[n].definition = host[n].definition
  BY <1>1 DEF VInv, HeldIsOwned, ConVarsOwned, Variables!ConVarsOwned
<1>3. host[n] \in HostVariable /\ host[n].value \in host[n].definition.minimum..host[n].definition.maximum
  BY <1>2 DEF VInv, VariableTypes, ConVarsOwned, Variables!ConVarsOwned
<1>4. d \in Variables!Definition /\ d.minimum \in Cells /\ d.maximum \in Cells
      /\ d.minimum \in Int /\ d.maximum \in Int /\ d.minimum <= d.maximum
  <2>1. host[n].definition \in Variables!Definition /\ host[n].value \in Cells
    BY <1>3 DEF HostVariable
  <2>2. d.minimum \in Cells /\ d.maximum \in Cells
    BY <1>2, <2>1 DEF Variables!Definition
  <2>3. d.minimum \in Int /\ d.maximum \in Int /\ host[n].value \in Int
    BY <2>1, <2>2, VariablesAssumption
  <2>4. host[n].value \in d.minimum..d.maximum
    BY <1>2, <1>3
  <2> HIDE DEF d
  <2>5. d.minimum <= d.maximum
    BY <2>3, <2>4
  <2> QED
    BY <1>2, <2>1, <2>2, <2>3, <2>5 DEF d
<1>5. Variables!Clamped(d, value) \in Cells /\ Variables!Clamped(d, value) \in d.minimum..d.maximum
  BY <1>4, VariablesAssumption DEF Variables!Clamped
<1>6. new \in HostVariable /\ new.definition = d /\ new.value \in d.minimum..d.maximum
  BY <1>2, <1>3, <1>5 DEF HostVariable
<1> HIDE DEF new
<1>7. VariableTypes' /\ LoadsExist' /\ HeldIsOwned'
  BY <1>1, <1>6 DEF VInv, VariableTypes, LoadsExist, HeldIsOwned
<1>8. ConVarsOwned'
  BY <1>1, <1>2, <1>6 DEF VInv, VariableTypes, ConVarsOwned, Variables!ConVarsOwned
<1> QED
  BY <1>7, <1>8 DEF VInv


LEMMA CloseConVarStep ==
    ASSUME VInv, NEW i \in Loads, NEW n \in Named, Variables!CloseConVar(i, n)
    PROVE  VInv'
<1> USE NoneApart
<1> DEFINE own == [script[i] EXCEPT !.convars = @ \ {n}, !.handles = @ \ {n}]
<1>1. /\ script[i] # None /\ n \in script[i].handles /\ Variables!Closed(i, {n})
      /\ script' = [script EXCEPT ![i] = own] /\ UNCHANGED <<current, replacement>>
  BY DEF Variables!CloseConVar
<1>2. script[i] \in Load /\ n \in script[i].convars /\ script[i].handles \subseteq script[i].convars
  BY <1>1 DEF VInv, VariableTypes, HeldIsOwned
<1>3. /\ own \in Load /\ own.plugin = script[i].plugin /\ own.convars = script[i].convars \ {n}
      /\ own.handles \subseteq own.convars
  BY <1>2 DEF Load
<1> HIDE DEF own
<1>4. /\ script' \in [Loads -> Load \cup {None}] /\ script'[i] = own /\ own # None
      /\ \A j \in Loads \ {i} : script'[j] = script[j]
  BY <1>1, <1>3 DEF VInv, VariableTypes
<1>5. /\ variable' \in [Named -> Variable \cup {None}] /\ host' \in [Named -> HostVariable \cup {None}]
      /\ HeldIsOwned' /\ ConVarsOwned'
  BY <1>1, <1>2, <1>3, <1>4, ClosedStep
<1>6. LoadsExist'
  BY <1>1, <1>3, <1>4 DEF VInv, VariableTypes, LoadsExist
<1> QED
  BY <1>1, <1>4, <1>5, <1>6 DEF VInv, VariableTypes

\* The cleanup of a load, whatever the server does not release.
LEMMA CleanupStep ==
    ASSUME VInv, NEW i \in Loads, script[i] # None, NEW kept \in SUBSET Named,
           Variables!Cleanup(i, kept)
    PROVE  /\ script' \in [Loads -> Load \cup {None}]
           /\ \A j \in Loads \ {i} : script'[j] = script[j]
           /\ IF kept = {} THEN script'[i] = None
                           ELSE script'[i] # None /\ script'[i].plugin = script[i].plugin
           /\ variable' \in [Named -> Variable \cup {None}] /\ host' \in [Named -> HostVariable \cup {None}]
           /\ HeldIsOwned' /\ ConVarsOwned'
<1> USE NoneApart
<1> DEFINE own == [script[i] EXCEPT !.state = "retiring", !.convars = kept, !.handles = {}]
<1>1. /\ kept \subseteq script[i].convars /\ Variables!Closed(i, script[i].convars \ kept)
      /\ script' = [script EXCEPT ![i] = IF kept = {} THEN None ELSE own]
  BY DEF Variables!Cleanup, Variables!Releases
<1>2. script[i] \in Load
  BY DEF VInv, VariableTypes
<1>3. own \in Load /\ own.plugin = script[i].plugin /\ own.convars = kept /\ own.handles = {}
  BY <1>2 DEF Load
<1> HIDE DEF own
<1>4. /\ script' \in [Loads -> Load \cup {None}] /\ own # None
      /\ script'[i] = IF kept = {} THEN None ELSE own
      /\ \A j \in Loads \ {i} : script'[j] = script[j]
  BY <1>1, <1>3 DEF VInv, VariableTypes
<1>5. /\ variable' \in [Named -> Variable \cup {None}] /\ host' \in [Named -> HostVariable \cup {None}]
      /\ HeldIsOwned' /\ ConVarsOwned'
  <2> DEFINE names == script[i].convars \ kept
  <2>1. /\ names \in SUBSET script[i].convars
        /\ IF script'[i] = None THEN names = script[i].convars
           ELSE /\ script'[i].plugin = script[i].plugin
                /\ script'[i].convars = script[i].convars \ names
                /\ script'[i].handles \subseteq script'[i].convars
    BY <1>1, <1>3, <1>4
  <2>2. Variables!Closed(i, names)
    BY <1>1
  <2> HIDE DEF names
  <2> QED
    BY <1>4, <2>1, <2>2, ClosedStep
<1> QED
  BY <1>3, <1>4, <1>5

\* A new load of a plugin.
LEMMA NewLoad ==
    ASSUME VInv, NEW p \in Plugins, Variables!Free # {}, Variables!New(Variables!Min(Variables!Free), p),
           UNCHANGED <<variable, host>>
    PROVE  LET i == Variables!Min(Variables!Free)
           IN  /\ i \in Loads /\ script[i] = None /\ script'[i] # None /\ script'[i].plugin = p
               /\ script' \in [Loads -> Load \cup {None}]
               /\ \A j \in Loads \ {i} : script'[j] = script[j]
               /\ HeldIsOwned' /\ ConVarsOwned'
<1> USE NoneApart
<1> DEFINE i == Variables!Min(Variables!Free)
           new == [plugin |-> p, state |-> "loading", convars |-> {}, handles |-> {}]
<1>1. i \in Variables!Free
  <2>1. Variables!Free \in SUBSET Nat
    BY VariablesAssumption DEF Variables!Free
  <2> QED
    BY <2>1, Least
<1>2. i \in Loads /\ script[i] = None /\ script' = [script EXCEPT ![i] = new]
  BY <1>1 DEF Variables!Free, Variables!New
<1>3. new \in Load /\ new.plugin = p /\ new.convars = {} /\ new.handles = {}
  BY DEF Load
<1> HIDE DEF new, i
<1>4. /\ script' \in [Loads -> Load \cup {None}] /\ script'[i] = new /\ new # None
      /\ \A j \in Loads \ {i} : script'[j] = script[j]
  BY <1>2, <1>3 DEF VInv, VariableTypes
<1>5. HeldIsOwned'
  BY <1>2, <1>3, <1>4 DEF VInv, HeldIsOwned
<1>6. ConVarsOwned'
  <2>1. ASSUME NEW n \in Named
        PROVE  {j \in Loads : script'[j] # None /\ n \in script'[j].convars}
               = {j \in Loads : script[j] # None /\ n \in script[j].convars}
    BY <1>2, <1>3, <1>4
  <2> QED
    BY <1>2, <1>4, <2>1 DEF VInv, ConVarsOwned, Variables!ConVarsOwned
<1> QED
  BY <1>2, <1>3, <1>4, <1>5, <1>6 DEF i


LEMMA LoadStep ==
    ASSUME VInv, NEW p \in Plugins, Variables!Load(p)
    PROVE  VInv'
<1> USE NoneApart, VariablesAssumption
<1> DEFINE i == Variables!Min(Variables!Free)
<1>1. /\ current[p] = None /\ current' = [current EXCEPT ![p] = i]
      /\ UNCHANGED <<replacement, variable, host>>
      /\ Variables!Free # {} /\ Variables!New(i, p)
  BY DEF Variables!Load
<1>2. /\ i \in Loads /\ script[i] = None /\ script'[i] # None /\ script'[i].plugin = p
      /\ script' \in [Loads -> Load \cup {None}]
      /\ \A j \in Loads \ {i} : script'[j] = script[j]
      /\ HeldIsOwned' /\ ConVarsOwned'
  BY <1>1, NewLoad
<1> HIDE DEF i
<1>3. LoadsExist'
  <2> SUFFICES ASSUME NEW q \in Plugins PROVE LoadsExist!(q)'
    BY DEF LoadsExist
  <2>1. /\ current[q] \in Loads \cup {None} /\ replacement[q] \in Loads \cup {None}
       /\ LoadsExist!(q) /\ LoadsExist!(p)
    BY DEF VInv, VariableTypes, LoadsExist
  <2>2. CASE q = p
    BY <1>1, <1>2, <2>1, <2>2 DEF VInv, VariableTypes
  <2>3. CASE q # p
    BY <1>1, <1>2, <2>1, <2>3 DEF VInv, VariableTypes
  <2> QED
    BY <2>2, <2>3
<1> QED
  BY <1>1, <1>2, <1>3 DEF VInv, VariableTypes

LEMMA ReloadStep ==
    ASSUME VInv, NEW p \in Plugins, Variables!Reload(p)
    PROVE  VInv'
<1> USE NoneApart, VariablesAssumption
<1> DEFINE i == Variables!Min(Variables!Free)
<1>1. /\ current[p] # None /\ replacement[p] = None /\ replacement' = [replacement EXCEPT ![p] = i]
      /\ UNCHANGED <<current, variable, host>>
      /\ Variables!Free # {} /\ Variables!New(i, p)
  BY DEF Variables!Reload
<1>2. /\ i \in Loads /\ script[i] = None /\ script'[i] # None /\ script'[i].plugin = p
      /\ script' \in [Loads -> Load \cup {None}]
      /\ \A j \in Loads \ {i} : script'[j] = script[j]
      /\ HeldIsOwned' /\ ConVarsOwned'
  BY <1>1, NewLoad
<1> HIDE DEF i
<1>3. LoadsExist'
  <2> SUFFICES ASSUME NEW q \in Plugins PROVE LoadsExist!(q)'
    BY DEF LoadsExist
  <2>1. /\ current[q] \in Loads \cup {None} /\ replacement[q] \in Loads \cup {None}
       /\ LoadsExist!(q) /\ LoadsExist!(p)
    BY DEF VInv, VariableTypes, LoadsExist
  <2>2. CASE q = p
    BY <1>1, <1>2, <2>1, <2>2 DEF VInv, VariableTypes
  <2>3. CASE q # p
    BY <1>1, <1>2, <2>1, <2>3 DEF VInv, VariableTypes
  <2> QED
    BY <2>2, <2>3
<1> QED
  BY <1>1, <1>2, <1>3 DEF VInv, VariableTypes

LEMMA StartedStep ==
    ASSUME VInv, NEW p \in Plugins, Variables!Started(p)
    PROVE  VInv'
<1> USE NoneApart
<1> DEFINE i == current[p]
           own == [script[i] EXCEPT !.state = "running"]
<1>1. /\ i # None /\ script' = [script EXCEPT ![i] = own]
      /\ UNCHANGED <<current, replacement, variable, host>>
  BY DEF Variables!Started
<1>2. i \in Loads /\ script[i] # None /\ script[i] \in Load
  BY <1>1 DEF VInv, VariableTypes, LoadsExist
<1>3. /\ own \in Load /\ own.plugin = script[i].plugin /\ own.convars = script[i].convars
      /\ own.handles = script[i].handles
  BY <1>2 DEF Load
<1> HIDE DEF own, i
<1>4. /\ script' \in [Loads -> Load \cup {None}] /\ script'[i] = own /\ own # None
      /\ \A j \in Loads \ {i} : script'[j] = script[j]
  BY <1>1, <1>2, <1>3 DEF VInv, VariableTypes
<1>5. LoadsExist' /\ HeldIsOwned'
  BY <1>1, <1>2, <1>3, <1>4 DEF VInv, VariableTypes, LoadsExist, HeldIsOwned
<1>6. ConVarsOwned'
  <2>1. ASSUME NEW n \in Named
        PROVE  {j \in Loads : script'[j] # None /\ n \in script'[j].convars}
               = {j \in Loads : script[j] # None /\ n \in script[j].convars}
    BY <1>2, <1>3, <1>4
  <2>2. \A j \in Loads : script'[j].plugin = script[j].plugin
    BY <1>2, <1>3, <1>4
  <2> QED
    BY <1>1, <2>1, <2>2 DEF VInv, ConVarsOwned, Variables!ConVarsOwned
<1> QED
  BY <1>1, <1>4, <1>5, <1>6 DEF VInv, VariableTypes

LEMMA DropStep ==
    ASSUME VInv, NEW p \in Plugins, Variables!Drop(p)
    PROVE  VInv'
<1> USE NoneApart, VariablesAssumption
<1>1. ASSUME replacement[p] # None, NEW kept \in SUBSET Named, Variables!Cleanup(replacement[p], kept),
             replacement' = [replacement EXCEPT ![p] = IF kept = {} THEN None ELSE @],
             UNCHANGED current
      PROVE  VInv'
  <2> DEFINE i == replacement[p]
  <2>1. i \in Loads /\ script[i] # None
    BY <1>1 DEF VInv, VariableTypes, LoadsExist
  <2>2. /\ script' \in [Loads -> Load \cup {None}]
        /\ \A j \in Loads \ {i} : script'[j] = script[j]
        /\ IF kept = {} THEN script'[i] = None
                        ELSE script'[i] # None /\ script'[i].plugin = script[i].plugin
        /\ variable' \in [Named -> Variable \cup {None}] /\ host' \in [Named -> HostVariable \cup {None}]
        /\ HeldIsOwned' /\ ConVarsOwned'
    BY <1>1, <2>1, CleanupStep
  <2>3. LoadsExist'
    <3> SUFFICES ASSUME NEW q \in Plugins PROVE LoadsExist!(q)'
      BY DEF LoadsExist
    <3>1. /\ current[q] \in Loads \cup {None} /\ replacement[q] \in Loads \cup {None}
         /\ LoadsExist!(q) /\ LoadsExist!(p)
      BY DEF VInv, VariableTypes, LoadsExist
    <3>2. CASE q = p
      BY <1>1, <2>1, <2>2, <3>1, <3>2 DEF VInv, VariableTypes
    <3>3. CASE q # p
      BY <1>1, <2>1, <2>2, <3>1, <3>3 DEF VInv, VariableTypes
    <3> QED
      BY <3>2, <3>3
  <2> QED
    BY <1>1, <2>2, <2>3 DEF VInv, VariableTypes
<1>2. ASSUME replacement[p] = None, current[p] # None, NEW kept \in SUBSET Named,
             Variables!Cleanup(current[p], kept),
             current' = [current EXCEPT ![p] = IF kept = {} THEN None ELSE @],
             UNCHANGED replacement
      PROVE  VInv'
  <2> DEFINE i == current[p]
  <2>1. i \in Loads /\ script[i] # None
    BY <1>2 DEF VInv, VariableTypes, LoadsExist
  <2>2. /\ script' \in [Loads -> Load \cup {None}]
        /\ \A j \in Loads \ {i} : script'[j] = script[j]
        /\ IF kept = {} THEN script'[i] = None
                        ELSE script'[i] # None /\ script'[i].plugin = script[i].plugin
        /\ variable' \in [Named -> Variable \cup {None}] /\ host' \in [Named -> HostVariable \cup {None}]
        /\ HeldIsOwned' /\ ConVarsOwned'
    BY <1>2, <2>1, CleanupStep
  <2>3. LoadsExist'
    <3> SUFFICES ASSUME NEW q \in Plugins PROVE LoadsExist!(q)'
      BY DEF LoadsExist
    <3>1. /\ current[q] \in Loads \cup {None} /\ replacement[q] \in Loads \cup {None}
         /\ LoadsExist!(q) /\ LoadsExist!(p)
      BY DEF VInv, VariableTypes, LoadsExist
    <3>2. CASE q = p
      BY <1>2, <2>1, <2>2, <3>1, <3>2 DEF VInv, VariableTypes
    <3>3. CASE q # p
      BY <1>2, <2>1, <2>2, <3>1, <3>3 DEF VInv, VariableTypes
    <3> QED
      BY <3>2, <3>3
  <2> QED
    BY <1>2, <2>2, <2>3 DEF VInv, VariableTypes
<1> QED
  BY <1>1, <1>2 DEF Variables!Drop

\* The replacement takes the place of what it replaces when that has given up everything.
LEMMA ReplaceStep ==
    ASSUME VInv, NEW p \in Plugins, Variables!Replace(p)
    PROVE  VInv'
<1> USE NoneApart, VariablesAssumption
<1> DEFINE i == current[p]
           r == replacement[p]
<1>1. PICK kept \in SUBSET Named :
         /\ kept \subseteq Variables!Releases(i, script[i].convars)
         /\ Variables!Closed(i, script[i].convars \ kept)
         /\ script' = [script EXCEPT
               ![i] = IF kept = {} THEN None
                      ELSE [@ EXCEPT !.state = "retiring", !.convars = kept, !.handles = {}],
               ![r].state = IF kept = {} THEN "running" ELSE @]
         /\ current' = IF kept = {} THEN [current EXCEPT ![p] = r] ELSE current
         /\ replacement' = IF kept = {} THEN [replacement EXCEPT ![p] = None] ELSE replacement
  BY DEF Variables!Replace
<1>2. /\ i \in Loads /\ script[i] # None /\ r \in Loads /\ script[r] # None /\ r # i
      /\ script[i].plugin = p /\ script[r].plugin = p /\ script[i] \in Load /\ script[r] \in Load
  BY DEF VInv, VariableTypes, LoadsExist, Variables!Replace
<1> DEFINE old == [script[i] EXCEPT !.state = "retiring", !.convars = kept, !.handles = {}]
           new == [script[r] EXCEPT !.state = IF kept = {} THEN "running" ELSE @]
<1>3. kept \subseteq script[i].convars
  BY <1>1 DEF Variables!Releases
<1>4. /\ old \in Load /\ old.plugin = p /\ old.convars = kept /\ old.handles = {}
      /\ new \in Load /\ new.plugin = p /\ new.convars = script[r].convars
      /\ new.handles = script[r].handles
  BY <1>2 DEF Load
<1>5. /\ script'[i] = IF kept = {} THEN None ELSE old
      /\ script'[r] = new /\ \A j \in Loads \ {i, r} : script'[j] = script[j]
      /\ script' \in [Loads -> Load \cup {None}]
  <2>1. script' = [[script EXCEPT ![i] = IF kept = {} THEN None ELSE old] EXCEPT ![r] = new]
    BY <1>1, <1>2
  <2> HIDE DEF old, new
  <2> QED
    BY <1>2, <1>4, <2>1 DEF VInv, VariableTypes
<1> HIDE DEF old, new
<1>6. /\ variable' \in [Named -> Variable \cup {None}] /\ host' \in [Named -> HostVariable \cup {None}]
      /\ HeldIsOwned' /\ ConVarsOwned'
  <2> DEFINE names == script[i].convars \ kept
  <2>1. /\ names \in SUBSET script[i].convars
        /\ IF script'[i] = None THEN names = script[i].convars
           ELSE /\ script'[i].plugin = script[i].plugin
                /\ script'[i].convars = script[i].convars \ names
                /\ script'[i].handles \subseteq script'[i].convars
    BY <1>2, <1>3, <1>4, <1>5
  <2>2. Variables!Closed(i, names)
    BY <1>1
  <2>3. \A j \in Loads \ {i} : IF script[j] = None THEN script'[j] = None
                               ELSE /\ script'[j] # None
                                    /\ script'[j].plugin = script[j].plugin
                                    /\ script'[j].convars = script[j].convars
                                    /\ script'[j].handles = script[j].handles
    BY <1>2, <1>4, <1>5
  <2> HIDE DEF names
  <2> QED
    BY <1>2, <1>5, <2>1, <2>2, <2>3, ClosedStep
<1>7. LoadsExist'
  BY <1>1, <1>2, <1>4, <1>5 DEF VInv, VariableTypes, LoadsExist
<1>8. current' \in [Plugins -> Loads \cup {None}] /\ replacement' \in [Plugins -> Loads \cup {None}]
  BY <1>1, <1>2 DEF VInv, VariableTypes
<1> QED
  BY <1>5, <1>6, <1>7, <1>8 DEF VInv, VariableTypes

LEMMA VariablesStep == VInv /\ [Variables!Next]_(Variables!vars) => VInv'
<1> SUFFICES ASSUME VInv, [Variables!Next]_(Variables!vars) PROVE VInv'
  OBVIOUS
<1>1. CASE UNCHANGED Variables!vars
  BY <1>1 DEF Variables!vars, VInv, VariableTypes, LoadsExist, HeldIsOwned, ConVarsOwned,
     Variables!ConVarsOwned
<1>2. CASE Variables!Next
  BY <1>2, CreateConVarStep, WriteConVarStep, CloseConVarStep, LoadStep, ReloadStep, StartedStep,
     DropStep, ReplaceStep DEF Variables!Next
<1> QED
  BY <1>1, <1>2

\* For any plugins, names and numbers of loads: the server has exactly the ConVars that
\* loads own, the owners exist and are of one plugin, and a value stays within its bounds,
\* through releases that fail, reloads that share a ConVar and cleanups that are repeated
\* (CloseConVar, convars.cpp).
THEOREM VariablesOwned == Variables!Spec => []ConVarsOwned
<1>1. VInv => ConVarsOwned
  BY DEF VInv
<1> QED
  BY <1>1, VariablesBegin, VariablesStep, PTL DEF Variables!Spec


-----------------------------------------------------------------------------
(* Requests. *)

Request == [kind : {"sql", "http"}, state : {"building", "sent", "complete", "canceled"},
            ticket : BOOLEAN, callback : BOOLEAN, answer : {None, "data", "failure"}]
Job == [state : {"none", "queued", "running", "ready", "calling"}, canceled : BOOLEAN]
Box == [kind : {"sql", "http"}, content : {None, "data", "failure", "moved"}]

RequestTypes ==
    /\ req \in [Asked -> Request \cup {None}] /\ job \in [Asked -> Job]
    /\ box \in [Asked -> Box \cup {None}]
    /\ cb \in [Asked -> {"none", "registered", "running", "spent"}]
    /\ calling \in Asked \cup {None} /\ told \in [Asked -> Nat]

\* The job that is to be done belongs to its request, which has been told nothing; and a
\* request that nobody sent has none.
JobIsAsked(r) ==
    /\ req[r] # None /\ req[r].state = "building" =>
          told[r] = 0 /\ job[r].state = "none" /\ ~req[r].ticket /\ ~req[r].callback
    /\ req[r] # None /\ req[r].kind = "http" /\ req[r].ticket => told[r] = 0
    /\ job[r].state \in {"queued", "running", "ready"} /\ ~job[r].canceled =>
          /\ req[r] # None /\ req[r].ticket /\ req[r].state \in {"sent", "complete"}
          /\ told[r] = 0
    /\ calling = r => job[r].state = "calling" /\ (req[r] # None => told[r] = 1)

\* What the worker left is in the box until the request has it.
BoxIsFull(r) ==
    /\ job[r].state # "none" => box[r] # None
    /\ job[r].state = "ready" /\ ~job[r].canceled /\ req[r].state = "sent" =>
          box[r].content \in {"data", "failure"}

\* What is owed for one request (AnswerIsOwed, AnswerStays).
Owed(r) ==
    /\ told[r] <= 1
    /\ req[r] # None /\ req[r].state = "canceled" => told[r] = 0
    /\ req[r] # None /\ req[r].state \in {"sent", "complete"} /\ told[r] = 0 =>
          /\ job[r].state # "none" /\ ~job[r].canceled /\ cb[r] = "registered"
          /\ req[r].ticket /\ req[r].callback
    /\ req[r] # None => (req[r].answer # None <=> req[r].state = "complete")

Sound(r) == JobIsAsked(r) /\ BoxIsFull(r) /\ Owed(r)

AInv == RequestTypes /\ \A r \in Asked : Sound(r)

LEMMA NoRequest == None \notin Request /\ None \notin Box /\ None \notin Asked /\ None \notin {"data", "failure"}
BY AnswersAssumption DEF Request, Box

LEMMA AnswersBegin == Answers!Init => AInv
BY NoRequest DEF Answers!Init, Answers!NoJob, AInv, RequestTypes, Sound, JobIsAsked, BoxIsFull, Owed, Job

\* A request that a step does not touch.
LEMMA Untouched ==
    ASSUME NEW q \in Asked, Sound(q), req'[q] = req[q], job'[q] = job[q], box'[q] = box[q],
           cb'[q] = cb[q], told'[q] = told[q], calling' = q => calling = q
    PROVE  Sound(q)'
BY DEF Sound, JobIsAsked, BoxIsFull, Owed

\* Requests that go: their jobs are canceled.
LEMMA DestroyedStep ==
    ASSUME AInv, NEW gone \in SUBSET {r \in Asked : req[r] # None}, Answers!Destroyed(gone),
           UNCHANGED <<box, calling, told>>
    PROVE  AInv'
<1> USE NoRequest
<1>1. RequestTypes'
  BY DEF AInv, RequestTypes, Answers!Destroyed, Answers!Canceled, Answers!Dropped, Job
<1>2. ASSUME NEW r \in Asked PROVE Sound(r)'
  <2>1. CASE r \notin gone
    <3>1. req'[r] = req[r] /\ job'[r] = job[r] /\ cb'[r] = cb[r]
      BY <2>1 DEF Answers!Destroyed
    <3> QED
      BY <3>1, Untouched DEF AInv
  <2>2. CASE r \in gone
    <3>1. /\ req'[r] = None /\ told'[r] = told[r] /\ box'[r] = box[r]
          /\ job'[r] = IF req[r].ticket THEN Answers!Canceled(r) ELSE job[r]
      BY <2>2 DEF Answers!Destroyed
    <3>2. Sound(r) /\ job[r] \in Job
      BY DEF AInv, RequestTypes
    <3>3. /\ job'[r].state = job[r].state
          /\ job[r].state \in {"queued", "running", "ready"} => job'[r].canceled
      BY <2>2, <3>1, <3>2 DEF Answers!Canceled, Job, Sound, JobIsAsked
    <3> QED
      BY <3>1, <3>2, <3>3 DEF Sound, JobIsAsked, BoxIsFull, Owed
  <2> QED
    BY <2>1, <2>2
<1> QED
  BY <1>1, <1>2 DEF AInv

LEMMA SubmitKept ==
    ASSUME AInv, NEW r \in Asked, Answers!Submit(r)
    PROVE  AInv'
<1> USE NoRequest
<1>1. RequestTypes'
  BY DEF AInv, RequestTypes, Sound, JobIsAsked, BoxIsFull, Request, Job, Box,
     Answers!Submit, Answers!Free, Answers!NoJob
<1>2. Sound(r)'
  <2> DEFINE asked == [kind |-> "sql", state |-> "sent", ticket |-> TRUE, callback |-> TRUE, answer |-> None]
  <2>1. /\ req'[r] = asked /\ job'[r] = [state |-> "queued", canceled |-> FALSE]
        /\ box'[r] = [kind |-> "sql", content |-> None] /\ cb'[r] = "registered" /\ told'[r] = 0
        /\ calling' # r
    BY DEF AInv, RequestTypes, Answers!Submit, Answers!Free
  <2>2. asked # None /\ [kind |-> "sql", content |-> None] # None
    <3>1. asked \in Request /\ [kind |-> "sql", content |-> None] \in Box
      BY DEF Request, Box
    <3> QED
      BY <3>1
  <2>3. /\ req'[r].kind = "sql" /\ req'[r].state = "sent" /\ req'[r].ticket /\ req'[r].callback
        /\ req'[r].answer = None /\ job'[r].state = "queued" /\ ~job'[r].canceled
        /\ box'[r].kind = "sql" /\ box'[r].content = None /\ req'[r] # None /\ box'[r] # None
    BY <2>1, <2>2
  <2>4. JobIsAsked(r)' /\ BoxIsFull(r)'
    BY <2>1, <2>3 DEF JobIsAsked, BoxIsFull
  <2> QED
    BY <2>1, <2>3, <2>4 DEF Sound, Owed
<1>3. ASSUME NEW q \in Asked \ {r} PROVE Sound(q)'
  <2>1. /\ req'[q] = req[q] /\ job'[q] = job[q] /\ box'[q] = box[q] /\ cb'[q] = cb[q]
        /\ told'[q] = told[q] /\ (calling' = q => calling = q)
    BY DEF AInv, RequestTypes, Answers!Submit
  <2> QED
    BY <2>1, Untouched DEF AInv
<1> QED
  BY <1>1, <1>2, <1>3 DEF AInv

LEMMA CreateKept ==
    ASSUME AInv, NEW r \in Asked, Answers!Create(r)
    PROVE  AInv'
<1> USE NoRequest
<1>1. RequestTypes'
  BY DEF AInv, RequestTypes, Sound, JobIsAsked, BoxIsFull, Request, Job, Box,
     Answers!Create, Answers!Free, Answers!NoJob
<1>2. Sound(r)'
  BY DEF AInv, RequestTypes, Sound, JobIsAsked, BoxIsFull, Owed, Request, Job, Box,
     Answers!Create, Answers!Free, Answers!NoJob
<1>3. ASSUME NEW q \in Asked \ {r} PROVE Sound(q)'
  <2>1. /\ req'[q] = req[q] /\ job'[q] = job[q] /\ box'[q] = box[q] /\ cb'[q] = cb[q]
        /\ told'[q] = told[q] /\ (calling' = q => calling = q)
    BY DEF AInv, RequestTypes, Answers!Create
  <2> QED
    BY <2>1, Untouched DEF AInv
<1> QED
  BY <1>1, <1>2, <1>3 DEF AInv

LEMMA SendKept ==
    ASSUME AInv, NEW r \in Asked, Answers!Send(r)
    PROVE  AInv'
<1> USE NoRequest
<1>1. RequestTypes'
  BY DEF AInv, RequestTypes, Sound, JobIsAsked, BoxIsFull, Request, Job, Box,
     Answers!Send, Answers!Building
<1>2. Sound(r)'
  BY DEF AInv, RequestTypes, Sound, JobIsAsked, BoxIsFull, Owed, Request, Job, Box,
     Answers!Send, Answers!Building
<1>3. ASSUME NEW q \in Asked \ {r} PROVE Sound(q)'
  <2>1. /\ req'[q] = req[q] /\ job'[q] = job[q] /\ box'[q] = box[q] /\ cb'[q] = cb[q]
        /\ told'[q] = told[q] /\ (calling' = q => calling = q)
    BY DEF AInv, RequestTypes, Answers!Send
  <2> QED
    BY <2>1, Untouched DEF AInv
<1> QED
  BY <1>1, <1>2, <1>3 DEF AInv

LEMMA CancelKept ==
    ASSUME AInv, NEW r \in Asked, Answers!Cancel(r)
    PROVE  AInv'
<1> USE NoRequest
<1>1. RequestTypes'
  BY DEF AInv, RequestTypes, Sound, JobIsAsked, BoxIsFull, Request, Job, Box,
     Answers!Cancel, Answers!Canceled, Answers!Dropped, Answers!Kind
<1>2. Sound(r)'
  BY DEF AInv, RequestTypes, Sound, JobIsAsked, BoxIsFull, Owed, Request, Job, Box,
     Answers!Cancel, Answers!Canceled, Answers!Dropped, Answers!Kind
<1>3. ASSUME NEW q \in Asked \ {r} PROVE Sound(q)'
  <2>1. /\ req'[q] = req[q] /\ job'[q] = job[q] /\ box'[q] = box[q] /\ cb'[q] = cb[q]
        /\ told'[q] = told[q] /\ (calling' = q => calling = q)
    BY DEF AInv, RequestTypes, Answers!Cancel
  <2> QED
    BY <2>1, Untouched DEF AInv
<1> QED
  BY <1>1, <1>2, <1>3 DEF AInv

LEMMA StartKept ==
    ASSUME AInv, NEW r \in Asked, Answers!Start(r)
    PROVE  AInv'
<1> USE NoRequest
<1>1. RequestTypes'
  BY DEF AInv, RequestTypes, Sound, JobIsAsked, BoxIsFull, Request, Job, Box,
     Answers!Start
<1>2. Sound(r)'
  BY DEF AInv, RequestTypes, Sound, JobIsAsked, BoxIsFull, Owed, Request, Job, Box,
     Answers!Start
<1>3. ASSUME NEW q \in Asked \ {r} PROVE Sound(q)'
  <2>1. /\ req'[q] = req[q] /\ job'[q] = job[q] /\ box'[q] = box[q] /\ cb'[q] = cb[q]
        /\ told'[q] = told[q] /\ (calling' = q => calling = q)
    BY DEF AInv, RequestTypes, Answers!Start
  <2> QED
    BY <2>1, Untouched DEF AInv
<1> QED
  BY <1>1, <1>2, <1>3 DEF AInv

LEMMA FinishKept ==
    ASSUME AInv, NEW r \in Asked, Answers!Finish(r)
    PROVE  AInv'
<1> USE NoRequest
<1>1. RequestTypes'
  BY DEF AInv, RequestTypes, Sound, JobIsAsked, BoxIsFull, Request, Job, Box,
     Answers!Finish
<1>2. Sound(r)'
  BY DEF AInv, RequestTypes, Sound, JobIsAsked, BoxIsFull, Owed, Request, Job, Box,
     Answers!Finish
<1>3. ASSUME NEW q \in Asked \ {r} PROVE Sound(q)'
  <2>1. /\ req'[q] = req[q] /\ job'[q] = job[q] /\ box'[q] = box[q] /\ cb'[q] = cb[q]
        /\ told'[q] = told[q] /\ (calling' = q => calling = q)
    BY DEF AInv, RequestTypes, Answers!Finish
  <2> QED
    BY <2>1, Untouched DEF AInv
<1> QED
  BY <1>1, <1>2, <1>3 DEF AInv

LEMMA DiscardKept ==
    ASSUME AInv, NEW r \in Asked, Answers!Discard(r)
    PROVE  AInv'
<1> USE NoRequest
<1>1. RequestTypes'
  BY DEF AInv, RequestTypes, Sound, JobIsAsked, BoxIsFull, Request, Job, Box,
     Answers!Discard, Answers!NoJob
<1>2. Sound(r)'
  BY DEF AInv, RequestTypes, Sound, JobIsAsked, BoxIsFull, Owed, Request, Job, Box,
     Answers!Discard, Answers!NoJob
<1>3. ASSUME NEW q \in Asked \ {r} PROVE Sound(q)'
  <2>1. /\ req'[q] = req[q] /\ job'[q] = job[q] /\ box'[q] = box[q] /\ cb'[q] = cb[q]
        /\ told'[q] = told[q] /\ (calling' = q => calling = q)
    BY DEF AInv, RequestTypes, Answers!Discard
  <2> QED
    BY <2>1, Untouched DEF AInv
<1> QED
  BY <1>1, <1>2, <1>3 DEF AInv

LEMMA AnsweredNow ==
    ASSUME AInv, NEW r \in Asked, Answers!Ready(r)
    PROVE  /\ req[r] # None /\ req[r] \in Request /\ box[r] \in Box /\ calling = None
           /\ req[r].ticket /\ told[r] = 0 /\ job[r].state = "ready" /\ ~job[r].canceled
           /\ Answers!Answered(r) \in Request
           /\ Answers!Answered(r).state = "complete" /\ Answers!Answered(r).answer # None
           /\ Answers!Answered(r).ticket = req[r].ticket
           /\ Answers!Answered(r).callback = req[r].callback
           /\ Answers!TakenFrom(r) \in {None, "data", "failure", "moved"}
<1> USE NoRequest
<1>1. /\ calling = None /\ job[r].state = "ready" /\ ~job[r].canceled /\ Sound(r)
  BY DEF AInv, Answers!Ready
<1>2. /\ req[r] # None /\ req[r] \in Request /\ box[r] \in Box /\ req[r].ticket /\ told[r] = 0
      /\ req[r].state \in {"sent", "complete"}
      /\ req[r].state = "sent" => box[r].content \in {"data", "failure"}
      /\ req[r].answer # None <=> req[r].state = "complete"
  BY <1>1 DEF AInv, RequestTypes, Sound, JobIsAsked, BoxIsFull, Owed
<1>3. Answers!TakenFrom(r) \in {None, "data", "failure", "moved"}
  BY <1>2 DEF Answers!TakenFrom, Box
<1>4. CASE req[r].state = "sent"
  <2> DEFINE new == [req[r] EXCEPT !.state = "complete", !.answer = box[r].content]
  <2>1. /\ new \in Request /\ new.state = "complete" /\ new.answer = box[r].content
        /\ new.ticket = req[r].ticket /\ new.callback = req[r].callback
    BY <1>2, <1>4 DEF Request
  <2>2. Answers!Answered(r) = new
    BY <1>4 DEF Answers!Answered, Answers!First
  <2> HIDE DEF new
  <2> QED
    BY <1>1, <1>2, <1>3, <1>4, <2>1, <2>2
<1>5. CASE req[r].state = "complete"
  BY <1>1, <1>2, <1>3, <1>5 DEF Answers!Answered, Answers!First
<1> QED
  BY <1>2, <1>4, <1>5

LEMMA RetainKept ==
    ASSUME AInv, NEW r \in Asked, Answers!Retain(r)
    PROVE  AInv'
<1> USE NoRequest
<1> DEFINE left == [box[r] EXCEPT !.content = Answers!TakenFrom(r)]
<1>1. /\ req' = [req EXCEPT ![r] = Answers!Answered(r)] /\ box' = [box EXCEPT ![r] = left]
      /\ job' = job /\ UNCHANGED <<cb, calling, told>> /\ Answers!Ready(r)
  BY DEF Answers!Retain, Answers!Retained, AInv, RequestTypes
<1>2. /\ req[r] # None /\ Answers!Answered(r) \in Request
      /\ Answers!Answered(r).state = "complete" /\ Answers!Answered(r).answer # None
      /\ Answers!Answered(r).ticket = req[r].ticket
      /\ Answers!Answered(r).callback = req[r].callback
      /\ req[r].ticket /\ told[r] = 0 /\ job[r].state = "ready" /\ ~job[r].canceled /\ calling = None
  BY <1>1, AnsweredNow
<1>3. left \in Box /\ left # None
  BY <1>1, AnsweredNow DEF Box
<1> HIDE DEF left
<1>4. RequestTypes'
  BY <1>1, <1>2, <1>3 DEF AInv, RequestTypes
<1>5. Sound(r)'
  <2>1. req'[r] = Answers!Answered(r) /\ box'[r] = left
    BY <1>1 DEF AInv, RequestTypes
  <2>2. req[r].state \in {"sent", "complete"} /\ Sound(r)
    BY <1>2 DEF AInv, Sound, JobIsAsked
  <2> QED
    BY <1>1, <1>2, <1>3, <2>1, <2>2 DEF Sound, JobIsAsked, BoxIsFull, Owed
<1>6. ASSUME NEW q \in Asked \ {r} PROVE Sound(q)'
  <2>1. /\ req'[q] = req[q] /\ job'[q] = job[q] /\ box'[q] = box[q] /\ cb'[q] = cb[q]
        /\ told'[q] = told[q] /\ (calling' = q => calling = q)
    BY <1>1 DEF AInv, RequestTypes
  <2> QED
    BY <2>1, Untouched DEF AInv
<1> QED
  BY <1>4, <1>5, <1>6 DEF AInv

LEMMA DeliverKept ==
    ASSUME AInv, NEW r \in Asked, Answers!Deliver(r)
    PROVE  AInv'
<1> USE NoRequest
<1> DEFINE next_ == IF Answers!Kind(r) = "sql" THEN Answers!Answered(r)
                    ELSE [Answers!Answered(r) EXCEPT !.ticket = FALSE, !.callback = FALSE]
           done == [job[r] EXCEPT !.state = "calling"]
<1>1. /\ req' = [req EXCEPT ![r] = next_] /\ job' = [job EXCEPT ![r] = done]
      /\ cb' = [cb EXCEPT ![r] = "running"] /\ calling' = r /\ told' = [told EXCEPT ![r] = @ + 1]
      /\ box' = box /\ Answers!Ready(r)
  BY DEF Answers!Deliver
<1>2. /\ req[r] # None /\ Answers!Answered(r) \in Request
      /\ Answers!Answered(r).state = "complete" /\ Answers!Answered(r).answer # None
      /\ told[r] = 0 /\ job[r].state = "ready" /\ ~job[r].canceled /\ calling = None
      /\ job[r] \in Job
  BY <1>1, AnsweredNow DEF AInv, RequestTypes
<1>3. /\ next_ \in Request /\ next_.state = "complete" /\ next_.answer # None
      /\ next_.kind = "http" => ~next_.ticket
  <2>1. CASE Answers!Kind(r) = "sql"
    <3>1. next_.kind = "sql"
      BY <2>1 DEF Answers!Kind, Answers!Answered
    <3> QED
      BY <1>2, <2>1, <3>1
  <2>2. CASE Answers!Kind(r) # "sql"
    BY <1>2, <2>2 DEF Request
  <2> QED
    BY <2>1, <2>2
<1>4. done \in Job /\ done.state = "calling"
  BY <1>2 DEF Job
<1> HIDE DEF next_, done
<1>5. RequestTypes'
  BY <1>1, <1>3, <1>4 DEF AInv, RequestTypes
<1>6. Sound(r)'
  <2>1. /\ req'[r] = next_ /\ job'[r] = done /\ told'[r] = 1 /\ box'[r] = box[r]
    BY <1>1, <1>2 DEF AInv, RequestTypes
  <2>2. box[r] # None
    BY <1>2 DEF AInv, Sound, BoxIsFull
  <2> QED
    BY <1>3, <1>4, <2>1, <2>2 DEF Sound, JobIsAsked, BoxIsFull, Owed
<1>7. ASSUME NEW q \in Asked \ {r} PROVE Sound(q)'
  <2>1. /\ req'[q] = req[q] /\ job'[q] = job[q] /\ box'[q] = box[q] /\ cb'[q] = cb[q]
        /\ told'[q] = told[q] /\ (calling' = q => calling = q)
    BY <1>1 DEF AInv, RequestTypes
  <2> QED
    BY <2>1, Untouched DEF AInv
<1> QED
  BY <1>5, <1>6, <1>7 DEF AInv

\* The callback has returned: the job is done, and its request was told of it.
LEMMA ReturnedKept ==
    ASSUME AInv, Answers!Returned
    PROVE  AInv'
<1> USE NoRequest
<1>1. /\ calling \in Asked /\ calling' = None /\ UNCHANGED <<req, told>>
      /\ job' = [job EXCEPT ![calling] = Answers!NoJob] /\ box' = [box EXCEPT ![calling] = None]
      /\ cb' = [cb EXCEPT ![calling] = "spent"]
  BY DEF AInv, RequestTypes, Answers!Returned
<1>2. RequestTypes'
  BY <1>1 DEF AInv, RequestTypes, Answers!NoJob, Job
<1>3. Sound(calling) /\ job[calling].state = "calling" /\ (req[calling] # None => told[calling] = 1)
  BY <1>1 DEF AInv, Sound, JobIsAsked
<1>4. ASSUME NEW q \in Asked PROVE Sound(q)'
  <2>1. CASE q = calling
    <3>1. /\ req'[q] = req[q] /\ told'[q] = told[q] /\ calling' # q
          /\ job'[q].state = "none" /\ box'[q] = None
      BY <1>1, <2>1 DEF AInv, RequestTypes, Answers!NoJob
    <3> QED
      BY <1>3, <2>1, <3>1 DEF Sound, JobIsAsked, BoxIsFull, Owed
  <2>2. CASE q # calling
    <3>1. /\ req'[q] = req[q] /\ job'[q] = job[q] /\ box'[q] = box[q] /\ cb'[q] = cb[q]
          /\ told'[q] = told[q] /\ (calling' = q => calling = q)
      BY <1>1, <2>2 DEF AInv, RequestTypes
    <3> QED
      BY <3>1, Untouched DEF AInv
  <2> QED
    BY <2>1, <2>2
<1> QED
  BY <1>2, <1>4 DEF AInv

LEMMA AnswersStep == AInv /\ [Answers!Next]_(Answers!vars) => AInv'
<1> SUFFICES ASSUME AInv, [Answers!Next]_(Answers!vars) PROVE AInv'
  OBVIOUS
<1>1. ASSUME UNCHANGED <<req, job, box, cb, calling, told>> PROVE AInv'
  BY <1>1, Untouched DEF AInv, RequestTypes
<1>2. ASSUME NEW r \in Asked, Answers!Close(r) PROVE AInv'
  BY <1>2, DestroyedStep DEF Answers!Close
<1>3. CASE Answers!Unload
  BY <1>3, DestroyedStep DEF Answers!Unload
<1>4. CASE Answers!Busy \/ Answers!Load \/ \E t \in Threads : Answers!Enter(t) \/ Answers!Leave(t)
  BY <1>1, <1>4 DEF Answers!Busy, Answers!Load, Answers!Enter, Answers!Leave
<1>5. CASE UNCHANGED Answers!vars
  BY <1>1, <1>5 DEF Answers!vars
<1> QED
  BY <1>2, <1>3, <1>4, <1>5, SubmitKept, CreateKept, SendKept, CancelKept, StartKept, FinishKept,
     DiscardKept, RetainKept, DeliverKept, ReturnedKept DEF Answers!Next

\* The threads that transfer are counted, those that are refused too.
Moving == {t \in Threads : thread[t] = "transfer"}
Within == {t \in Threads : thread[t] # "idle"}
ThreadsCounted ==
    /\ thread \in [Threads -> {"idle", "transfer", "refused"}]
    /\ Cardinality(Moving) <= NativeLimit
    /\ native = Cardinality(Within)

LEMMA ThreadsFinite ==
    ASSUME ThreadsCounted
    PROVE  /\ IsFiniteSet(Moving) /\ IsFiniteSet(Within) /\ Moving \subseteq Within
           /\ Cardinality(Moving) \in Nat /\ Cardinality(Within) \in Nat
           /\ Cardinality(Moving) <= Cardinality(Within) /\ NativeLimit \in Nat
<1>1. Moving \subseteq Within /\ Within \subseteq Threads
  BY DEF Moving, Within
<1>2. IsFiniteSet(Threads) /\ NativeLimit \in Nat
  BY AnswersAssumption
<1>3. IsFiniteSet(Within)
  BY <1>1, <1>2, FS_Subset
<1>4. IsFiniteSet(Moving) /\ Cardinality(Moving) <= Cardinality(Within)
  BY <1>1, <1>3, FS_Subset
<1> QED
  BY <1>1, <1>2, <1>3, <1>4, FS_CardinalityType

LEMMA ThreadsBegin == Answers!Init => ThreadsCounted
<1> SUFFICES ASSUME Answers!Init PROVE ThreadsCounted
  OBVIOUS
<1>1. native = 0 /\ thread \in [Threads -> {"idle", "transfer", "refused"}]
  BY DEF Answers!Init
<1>2. Moving = {} /\ Within = {}
  BY DEF Answers!Init, Moving, Within
<1>3. Cardinality(Moving) = 0 /\ Cardinality(Within) = 0
  BY <1>2, FS_EmptySet
<1> QED
  BY <1>1, <1>3, AnswersAssumption DEF ThreadsCounted

LEMMA ThreadsStep == ThreadsCounted /\ [Answers!Next]_(Answers!vars) => ThreadsCounted'
<1> SUFFICES ASSUME ThreadsCounted, [Answers!Next]_(Answers!vars) PROVE ThreadsCounted'
  OBVIOUS
<1>1. /\ IsFiniteSet(Moving) /\ IsFiniteSet(Within) /\ Moving \subseteq Within
      /\ Cardinality(Moving) \in Nat /\ Cardinality(Within) \in Nat
      /\ Cardinality(Moving) <= Cardinality(Within) /\ NativeLimit \in Nat
  BY ThreadsFinite
<1>2. ASSUME UNCHANGED <<native, thread>> PROVE ThreadsCounted'
  BY <1>2 DEF ThreadsCounted, Moving, Within
<1>3. ASSUME NEW t \in Threads, Answers!Enter(t) PROVE ThreadsCounted'
  <2>1. /\ thread[t] = "idle" /\ native' = native + 1
        /\ thread' = [thread EXCEPT ![t] = IF native >= NativeLimit THEN "refused" ELSE "transfer"]
    BY <1>3 DEF Answers!Enter, Answers!TooMany
  <2>2. thread' \in [Threads -> {"idle", "transfer", "refused"}]
    BY <2>1 DEF ThreadsCounted
  <2>3. Within' = Within \cup {t} /\ t \notin Within /\ t \notin Moving
    BY <2>1 DEF ThreadsCounted, Within, Moving
  <2>4. Moving' = IF native >= NativeLimit THEN Moving ELSE Moving \cup {t}
    BY <2>1 DEF ThreadsCounted, Moving
  <2>5. Cardinality(Within') = Cardinality(Within) + 1
    BY <1>1, <2>3, FS_AddElement
  <2>6. Cardinality(Moving \cup {t}) = Cardinality(Moving) + 1
    BY <1>1, <2>3, FS_AddElement
  <2>7. Cardinality(Moving') <= NativeLimit
    <3>1. CASE native >= NativeLimit
      BY <2>4, <3>1 DEF ThreadsCounted
    <3>2. CASE ~(native >= NativeLimit)
      <4>1. Moving' = Moving \cup {t}
        BY <2>4, <3>2
      <4>2. Cardinality(Moving') = Cardinality(Moving) + 1
        BY <2>6, <4>1
      <4> QED
        BY <1>1, <3>2, <4>2 DEF ThreadsCounted
    <3> QED
      BY <3>1, <3>2
  <2>8. native' = Cardinality(Within')
    BY <2>1, <2>5 DEF ThreadsCounted
  <2> QED
    BY <2>2, <2>7, <2>8 DEF ThreadsCounted
<1>4. ASSUME NEW t \in Threads, Answers!Leave(t) PROVE ThreadsCounted'
  <2>1. /\ thread[t] # "idle" /\ native' = native - 1 /\ thread' = [thread EXCEPT ![t] = "idle"]
    BY <1>4 DEF Answers!Leave
  <2>2. thread' \in [Threads -> {"idle", "transfer", "refused"}]
    BY <2>1 DEF ThreadsCounted
  <2>3. Within' = Within \ {t} /\ t \in Within /\ Moving' \subseteq Moving
    BY <2>1 DEF ThreadsCounted, Within, Moving
  <2>4. Cardinality(Within') = Cardinality(Within) - 1
    BY <1>1, <2>3, FS_RemoveElement
  <2>5. IsFiniteSet(Moving') /\ Cardinality(Moving') <= Cardinality(Moving)
    BY <1>1, <2>3, FS_Subset
  <2>6. Cardinality(Moving') \in Nat
    BY <2>5, FS_CardinalityType
  <2>7. Cardinality(Moving') <= NativeLimit
    BY <1>1, <2>5, <2>6 DEF ThreadsCounted
  <2>8. native' = Cardinality(Within')
    BY <2>1, <2>4 DEF ThreadsCounted
  <2> QED
    BY <2>2, <2>7, <2>8 DEF ThreadsCounted
<1>5. CASE UNCHANGED Answers!vars
  BY <1>2, <1>5 DEF Answers!vars
<1>6. ASSUME NEW r \in Asked,
             \/ Answers!Submit(r) \/ Answers!Create(r) \/ Answers!Send(r) \/ Answers!Cancel(r)
             \/ Answers!Close(r) \/ Answers!Start(r) \/ Answers!Finish(r) \/ Answers!Discard(r)
             \/ Answers!Retain(r) \/ Answers!Deliver(r)
      PROVE  UNCHANGED <<native, thread>>
  BY <1>6 DEF Answers!Submit, Answers!Create, Answers!Send, Answers!Cancel, Answers!Close, Answers!Start,
     Answers!Finish, Answers!Discard, Answers!Retain, Answers!Deliver
<1>7. ASSUME Answers!Returned \/ Answers!Busy \/ Answers!Unload \/ Answers!Load
      PROVE  UNCHANGED <<native, thread>>
  BY <1>7 DEF Answers!Returned, Answers!Busy, Answers!Unload, Answers!Load
<1> QED
  BY <1>2, <1>3, <1>4, <1>5, <1>6, <1>7 DEF Answers!Next

\* For any requests, threads and limits: a script is told exactly once of a request it
\* sent and still wants, however often its completion finds it busy, never of one that it
\* canceled, an answer stays what the worker left, and the threads of other extensions
\* keep to their limit (Complete of the two extensions, PerformNative).
THEOREM AnswersArrive == Answers!Spec => []AnswersKept
<1>1. ASSUME AInv PROVE Answers!AnswerIsOwed
  BY <1>1 DEF AInv, Sound, Owed, Answers!AnswerIsOwed
<1>2. ASSUME AInv PROVE Answers!AnswerStays
  <2>1. ASSUME NEW r \in Asked, req[r] # None
        PROVE  req[r].answer \in {None, "data", "failure"} /\ (req[r].answer # None <=> req[r].state = "complete")
    <3>1. req[r] \in Request /\ Sound(r)
      BY <1>2, <2>1 DEF AInv, RequestTypes
    <3> QED
      BY <2>1, <3>1 DEF Sound, Owed, Request
  <2> QED
    BY <2>1 DEF Answers!AnswerStays
<1>3. ASSUME ThreadsCounted PROVE Answers!TransfersBounded
  <2>1. Cardinality(Moving) <= NativeLimit /\ native = Cardinality(Within)
    BY <1>3 DEF ThreadsCounted
  <2>2. /\ Cardinality({t \in Threads : thread[t] = "transfer"}) <= NativeLimit
        /\ native = Cardinality({t \in Threads : thread[t] # "idle"})
    BY <2>1 DEF Moving, Within
  <2> QED
    \* The instance has a Cardinality of its own, with the same definition.
    BY <2>2, Zenon DEF Answers!TransfersBounded, Answers!Cardinality, Cardinality
<1>4. AInv /\ ThreadsCounted => AnswersKept
  BY <1>1, <1>2, <1>3 DEF AnswersKept
<1> QED
  BY <1>4, AnswersBegin, AnswersStep, ThreadsBegin, ThreadsStep, PTL DEF Answers!Spec

-----------------------------------------------------------------------------
(* Services: what the modules hold of one another.                         *)

FromHost == Services!HostServices

ServiceTypes ==
    /\ module \in {"absent", "loaded"} /\ published \subseteq FromHost \cup Exts
    /\ providers \in [Natives -> Exts \cup {None}]
    /\ ext \in [Exts -> {"absent", "ready", "disabled"}]
    /\ holds \in [Exts -> SUBSET (FromHost \cup Exts \cup Natives)]
    /\ apis \in [Exts -> SUBSET FromHost]
    /\ bound \in [Scripts -> SUBSET Natives]

\* What is left of an extension's holdings at any point of the release: the table of the
\* extension service to the last, and its own publication as long as natives are.
Orderly(e, H) ==
    /\ H \subseteq FromHost \cup {e} \cup Services!Staged(e, Len(Stages[e]))
    /\ H # {} => "extension" \in H
    /\ H \cap Natives # {} => e \in H

\* An extension is there as long as it holds anything, and what it holds of the host is
\* published.
Standing(e) ==
    /\ Orderly(e, holds[e]) /\ holds[e] \cap FromHost \subseteq published
    /\ e \in published <=> e \in holds[e]
    /\ ext[e] = "absent" <=> holds[e] = {}
    /\ apis[e] # {} => holds[e] # {}

SInv ==
    /\ ServiceTypes
    /\ module = "absent" => published \cap FromHost = {}
    /\ \A e \in Exts : Standing(e)
    /\ \A n \in Natives : providers[n] # None => n \in holds[providers[n]]
    /\ \A p \in Scripts : \A n \in bound[p] : providers[n] # None

LEMMA Apart ==
    /\ FromHost = {"consumer", "callback", "native", "extension"}
    /\ FromHost \cap Exts = {} /\ FromHost \cap Natives = {} /\ Natives \cap Exts = {}
    /\ None \notin Exts
BY ServicesAssumption DEF FromHost, Services!HostServices

LEMMA StagedNatives ==
    ASSUME NEW e \in Exts
    PROVE  /\ Stages[e] \in Seq(Natives) /\ Len(Stages[e]) \in Nat
           /\ \A k \in 0..Len(Stages[e]) :
                 /\ Services!Staged(e, k) \subseteq Natives
                 /\ Services!Staged(e, k) \subseteq Services!Staged(e, Len(Stages[e]))
<1>1. Stages[e] \in Seq(Natives)
  BY ServicesAssumption
<1>2. Len(Stages[e]) \in Nat /\ \A i \in 1..Len(Stages[e]) : Stages[e][i] \in Natives
  BY <1>1
<1> QED
  BY <1>1, <1>2 DEF Services!Staged

\* The order of ReleaseResources, place by place.
LEMMA OrderOfRelease ==
    ASSUME NEW e \in Exts
    PROVE  LET order == Services!ReleaseOrder(e)
               staged == Len(Stages[e])
           IN  /\ Len(order) = staged + 5
               /\ \A i \in 1..staged : order[i] = Stages[e][i]
               /\ order[staged + 1] = e /\ order[staged + 2] = "native"
               /\ order[staged + 3] = "callback" /\ order[staged + 4] = "consumer"
               /\ order[staged + 5] = "extension"
<1> DEFINE S == Natives \cup Exts \cup FromHost
           tail == <<"native", "callback", "consumer", "extension">>
           front == Stages[e] \o <<e>>
           order == front \o tail
<1>1. Stages[e] \in Seq(S) /\ <<e>> \in Seq(S) /\ tail \in Seq(S)
  <2>1. Stages[e] \in Seq(Natives)
    BY StagedNatives
  <2> QED
    BY <2>1, Apart
<1>2. /\ front \in Seq(S) /\ Len(front) = Len(Stages[e]) + 1
      /\ \A i \in 1..Len(Stages[e]) : front[i] = Stages[e][i]
      /\ front[Len(Stages[e]) + 1] = e
  BY <1>1
<1> HIDE DEF front
<1>3. Len(order) = Len(front) + 4
  BY <1>1, <1>2
<1>4. \A i \in 1..Len(front) : order[i] = front[i]
  BY <1>1, <1>2
<1>5. /\ order[Len(front) + 1] = "native" /\ order[Len(front) + 2] = "callback"
      /\ order[Len(front) + 3] = "consumer" /\ order[Len(front) + 4] = "extension"
  BY <1>1, <1>2
<1>6. Services!ReleaseOrder(e) = order
  BY DEF Services!ReleaseOrder, front
<1> HIDE DEF order
<1>7. Len(Stages[e]) \in Nat
  BY StagedNatives
<1> QED
  BY <1>2, <1>3, <1>4, <1>5, <1>6, <1>7

\* However far a release gets, nothing in use is given back, and what is left is in order.
LEMMA ReleaseIsOrderly ==
    ASSUME NEW e \in Exts, NEW H, Orderly(e, H),
           NEW k \in Services!Given(Services!ReleaseOrder(e), H, Services!Used)
    PROVE  LET gone == Services!Gone(Services!ReleaseOrder(e), H, k)
           IN  /\ gone \subseteq H /\ gone \cap Services!Used = {}
               /\ k = Len(Services!ReleaseOrder(e)) <=> H \ gone = {}
               /\ Orderly(e, H \ gone)
<1> DEFINE order == Services!ReleaseOrder(e)
           staged == Len(Stages[e])
           gone == Services!Gone(order, H, k)
<1>1. /\ Len(order) = staged + 5 /\ order[staged + 1] = e /\ order[staged + 5] = "extension"
      /\ \A i \in 1..staged : order[i] = Stages[e][i]
      /\ order[staged + 2] = "native" /\ order[staged + 3] = "callback" /\ order[staged + 4] = "consumer"
      /\ staged \in Nat
  BY OrderOfRelease, StagedNatives
<1>2. /\ k \in 0..Len(order) /\ \A i \in 1..k : order[i] \notin H \cap Services!Used
      /\ k < Len(order) => order[k + 1] \in H
  BY DEF Services!Given
<1>3. gone = H \cap {order[i] : i \in 1..k}
  BY DEF Services!Gone
<1>4. /\ Services!Staged(e, staged) = {order[i] : i \in 1..staged}
      /\ Services!Staged(e, staged) \subseteq Natives
  BY <1>1, StagedNatives DEF Services!Staged
<1> HIDE DEF order, staged, gone
<1>5. gone \subseteq H /\ gone \cap Services!Used = {}
  BY <1>2, <1>3
<1>6. ASSUME k = Len(order) PROVE H \ gone = {}
  <2>1. \A x \in H : \E i \in 1..k : x = order[i]
    <3>1. ASSUME NEW x \in Services!Staged(e, staged) PROVE \E i \in 1..k : x = order[i]
      BY <1>1, <1>4, <1>6, <3>1
    <3>2. /\ \E i \in 1..k : e = order[i]
          /\ \A x \in FromHost : \E i \in 1..k : x = order[i]
      BY <1>1, <1>6, Apart
    <3> QED
      BY <3>1, <3>2 DEF Orderly, staged
  <2> QED
    BY <1>3, <2>1
<1>7. ASSUME k # Len(order) PROVE "extension" \in H \ gone
  <2>1. k \in 0..(staged + 4) /\ H # {}
    BY <1>1, <1>2, <1>7
  <2>2. \A i \in 1..k : order[i] # "extension"
    <3>1. ASSUME NEW i \in 1..k PROVE order[i] # "extension"
      <4>1. CASE i \in 1..staged
        BY <1>1, <1>4, <4>1, Apart
      <4>2. CASE i \in {staged + 1, staged + 2, staged + 3, staged + 4}
        BY <1>1, <4>2, Apart
      <4> QED
        BY <1>1, <2>1, <4>1, <4>2
    <3> QED
      BY <3>1
  <2> QED
    BY <1>3, <2>1, <2>2 DEF Orderly
<1>8. ASSUME (H \ gone) \cap Natives # {} PROVE e \in H \ gone
  <2>1. PICK x \in H \cap Natives : x \notin gone
    BY <1>8
  <2>2. x \in Services!Staged(e, staged) /\ e \in H
    BY <2>1, Apart DEF Orderly, staged
  <2>3. PICK j \in 1..staged : x = order[j]
    BY <1>4, <2>2
  <2>4. ~(j <= k)
    BY <1>1, <1>2, <1>3, <2>1, <2>3
  <2>5. k \in 0..(staged - 1)
    BY <1>1, <1>2, <2>3, <2>4
  <2>6. \A i \in 1..k : order[i] \in Natives
    BY <1>1, <1>4, <2>5
  <2> QED
    BY <1>3, <2>2, <2>6, Apart
<1>9. Orderly(e, H \ gone)
  BY <1>6, <1>7, <1>8 DEF Orderly
<1> QED
  BY <1>5, <1>6, <1>7, <1>9 DEF order, gone

LEMMA ReleaseKept ==
    ASSUME SInv, NEW e \in Exts, NEW H, NEW left \in {"ready", "disabled"},
           Orderly(e, H), H \cap FromHost \subseteq published,
           \A n \in Natives : providers[n] = e => n \in H,
           Services!ReleaseResources(e, H, left), UNCHANGED <<module, bound>>
    PROVE  SInv'
<1>1. PICK k \in Services!Given(Services!ReleaseOrder(e), H, Services!Used) :
         LET gone == Services!Gone(Services!ReleaseOrder(e), H, k)
             done == k = Len(Services!ReleaseOrder(e))
         IN  /\ holds' = [holds EXCEPT ![e] = H \ gone]
             /\ providers' = [n \in Natives |-> IF n \in gone THEN None
                                               ELSE IF n \in H THEN e ELSE providers[n]]
             /\ published' = IF e \in H \ gone THEN published \cup {e} ELSE published \ {e}
             /\ ext' = [ext EXCEPT ![e] = IF done THEN "absent" ELSE left]
             /\ apis' = [apis EXCEPT ![e] = IF done THEN {} ELSE @ \cup (H \cap FromHost)]
  BY DEF Services!ReleaseResources, FromHost
<1> DEFINE gone == Services!Gone(Services!ReleaseOrder(e), H, k)
           rest == H \ gone
<1>2. /\ gone \subseteq H /\ gone \cap Services!Used = {}
      /\ k = Len(Services!ReleaseOrder(e)) <=> rest = {}
      /\ Orderly(e, rest)
  BY ReleaseIsOrderly
<1>3. /\ holds' = [holds EXCEPT ![e] = rest]
      /\ providers' = [n \in Natives |-> IF n \in gone THEN None
                                        ELSE IF n \in H THEN e ELSE providers[n]]
      /\ published' = IF e \in rest THEN published \cup {e} ELSE published \ {e}
      /\ ext' = [ext EXCEPT ![e] = IF rest = {} THEN "absent" ELSE left]
      /\ apis' = [apis EXCEPT ![e] = IF rest = {} THEN {} ELSE @ \cup (H \cap FromHost)]
  BY <1>1, <1>2
<1> HIDE DEF gone
<1>4. H \subseteq FromHost \cup Exts \cup Natives
  BY StagedNatives DEF Orderly
<1>5. ServiceTypes'
  BY <1>2, <1>3, <1>4 DEF SInv, ServiceTypes
<1>6. module' = "absent" => published' \cap FromHost = {}
  BY <1>3, Apart DEF SInv
<1>7. ASSUME NEW f \in Exts PROVE Standing(f)'
  <2>1. CASE f = e
    <3>1. /\ holds'[e] = rest /\ ext'[e] = IF rest = {} THEN "absent" ELSE left
          /\ rest = {} => apis'[e] = {}
      BY <1>3 DEF SInv, ServiceTypes
    <3>2. rest \cap FromHost \subseteq published' /\ (e \in published' <=> e \in rest)
      BY <1>2, <1>3, Apart
    <3> QED
      BY <1>2, <2>1, <3>1, <3>2 DEF Standing, Orderly, FromHost, Services!HostServices, Services!Staged
  <2>2. CASE f # e
    <3>1. /\ holds'[f] = holds[f] /\ ext'[f] = ext[f] /\ apis'[f] = apis[f]
          /\ f \in published' <=> f \in published
          /\ published' \cap FromHost = published \cap FromHost
      BY <1>3, <2>2, Apart DEF SInv, ServiceTypes
    <3> QED
      BY <3>1 DEF SInv, Standing, Orderly, FromHost, Services!HostServices, Services!Staged
  <2> QED
    BY <2>1, <2>2
<1>8. ASSUME NEW n \in Natives, providers'[n] # None PROVE n \in holds'[providers'[n]]
  <2>1. CASE n \in H
    BY <1>2, <1>3, <1>8, <2>1 DEF SInv, ServiceTypes
  <2>2. CASE n \notin H
    BY <1>2, <1>3, <1>8, <2>2 DEF SInv, ServiceTypes
  <2> QED
    BY <2>1, <2>2
<1>9. ASSUME NEW p \in Scripts, NEW n \in bound'[p] PROVE providers'[n] # None
  <2>1. n \in bound[p] /\ n \in Natives /\ providers[n] # None
    BY <1>9 DEF SInv, ServiceTypes
  <2>2. n \in Services!Used
    BY <2>1 DEF Services!Used
  <2> QED
    BY <1>2, <1>3, <2>1, <2>2, Apart
<1> QED
  BY <1>5, <1>6, <1>7, <1>8, <1>9 DEF SInv

LEMMA ExtLoadKept ==
    ASSUME SInv, NEW e \in Exts, Services!ExtLoad(e)
    PROVE  SInv'
<1>1. ext[e] = "absent" /\ UNCHANGED <<module, bound>>
  BY DEF Services!ExtLoad
<1>2. PICK H \in Services!Acquired(e) :
         \/ /\ H = Services!Complete(e)
            /\ ext' = [ext EXCEPT ![e] = "ready"] /\ holds' = [holds EXCEPT ![e] = H]
            /\ apis' = [apis EXCEPT ![e] = {"extension", "native"}]
            /\ providers' = [n \in Natives |-> IF n \in H THEN e ELSE providers[n]]
            /\ published' = published \cup {e}
         \/ Services!ReleaseResources(e, H, "disabled")
  BY DEF Services!ExtLoad, Services!SetupFailed
<1>3. Orderly(e, H) /\ H \cap FromHost \subseteq published
  <2>1. H # {} => /\ "extension" \in published /\ H \cap FromHost = {"extension", "native"} \cap published
                  /\ H \subseteq FromHost \cup {e} \cup Services!Staged(e, Len(Stages[e]))
                  /\ H \cap Natives # {} => e \in H
    BY Apart, StagedNatives DEF Services!Acquired, FromHost
  <2> QED
    BY <2>1, Apart DEF Orderly
<1>4. \A n \in Natives : providers[n] # e
  BY <1>1, Apart DEF SInv, Standing
<1>5. CASE Services!ReleaseResources(e, H, "disabled")
  BY <1>1, <1>3, <1>4, <1>5, ReleaseKept
<1>6. CASE /\ H = Services!Complete(e)
           /\ ext' = [ext EXCEPT ![e] = "ready"] /\ holds' = [holds EXCEPT ![e] = H]
           /\ apis' = [apis EXCEPT ![e] = {"extension", "native"}]
           /\ providers' = [n \in Natives |-> IF n \in H THEN e ELSE providers[n]]
           /\ published' = published \cup {e}
  <2>1. e \in H /\ H # {} /\ H \subseteq FromHost \cup Exts \cup Natives
    BY <1>6, StagedNatives, Apart DEF Services!Complete
  <2>2. ServiceTypes'
    BY <1>1, <1>6, <2>1, Apart DEF SInv, ServiceTypes
  <2>3. module' = "absent" => published' \cap FromHost = {}
    BY <1>1, <1>6, Apart DEF SInv
  <2>4. ASSUME NEW f \in Exts PROVE Standing(f)'
    <3>1. CASE f = e
      <4>1. holds'[e] = H /\ ext'[e] = "ready" /\ e \in published' /\ H \cap FromHost \subseteq published'
        BY <1>3, <1>6 DEF SInv, ServiceTypes
      <4> QED
        BY <1>3, <2>1, <3>1, <4>1 DEF Standing, Orderly, FromHost, Services!HostServices, Services!Staged
    <3>2. CASE f # e
      <4>1. /\ holds'[f] = holds[f] /\ ext'[f] = ext[f] /\ apis'[f] = apis[f]
            /\ f \in published' <=> f \in published
            /\ published' \cap FromHost = published \cap FromHost
        BY <1>6, <3>2, Apart DEF SInv, ServiceTypes
      <4> QED
        BY <4>1 DEF SInv, Standing, Orderly, FromHost, Services!HostServices, Services!Staged
    <3> QED
      BY <3>1, <3>2
  <2>5. ASSUME NEW n \in Natives, providers'[n] # None PROVE n \in holds'[providers'[n]]
    BY <1>4, <1>6, <2>5 DEF SInv, ServiceTypes
  <2>6. ASSUME NEW p \in Scripts, NEW n \in bound'[p] PROVE providers'[n] # None
    BY <1>1, <1>6, <2>6, Apart DEF SInv, ServiceTypes
  <2> QED
    BY <2>2, <2>3, <2>4, <2>5, <2>6 DEF SInv
<1> QED
  BY <1>2, <1>5, <1>6

LEMMA ExtUnloadKept ==
    ASSUME SInv, NEW e \in Exts, Services!ExtUnload(e)
    PROVE  SInv'
<1>1. ext[e] \in {"ready", "disabled"} /\ UNCHANGED <<module, bound>>
  BY DEF Services!ExtUnload, Services!MayUnload, SInv, ServiceTypes
<1>2. CASE Services!ReleaseResources(e, holds[e], ext[e])
  <2>1. Orderly(e, holds[e]) /\ holds[e] \cap FromHost \subseteq published
    BY DEF SInv, Standing
  <2>2. \A n \in Natives : providers[n] = e => n \in holds[e]
    BY Apart DEF SInv
  <2> QED
    BY <1>1, <1>2, <2>1, <2>2, ReleaseKept
<1>3. CASE UNCHANGED <<published, providers, ext, holds, apis>>
  BY <1>1, <1>3 DEF SInv, ServiceTypes, Standing, Orderly, FromHost, Services!HostServices, Services!Staged
<1> QED
  BY <1>2, <1>3 DEF Services!ExtUnload

LEMMA ConnectKept ==
    ASSUME SInv, NEW e \in Exts, NEW x \in {"callback", "consumer"}, Services!Connect(e, x)
    PROVE  SInv'
<1>1. /\ ext[e] = "ready" /\ x \in published /\ x \in FromHost /\ x \notin Natives
      /\ holds' = [holds EXCEPT ![e] = @ \cup {x}] /\ apis' = [apis EXCEPT ![e] = @ \cup {x}]
      /\ UNCHANGED <<module, published, providers, ext, bound>>
  BY Apart DEF Services!Connect
<1>2. ServiceTypes'
  BY <1>1 DEF SInv, ServiceTypes
<1>3. ASSUME NEW f \in Exts PROVE Standing(f)'
  <2>1. CASE f = e
    <3>1. holds'[e] = holds[e] \cup {x} /\ holds[e] # {} /\ x # e
      BY <1>1, Apart DEF SInv, ServiceTypes, Standing
    <3>2. Orderly(e, holds[e] \cup {x})
      BY <1>1, <3>1 DEF SInv, Standing, Orderly
    <3> QED
      BY <1>1, <2>1, <3>1, <3>2 DEF SInv, Standing, Orderly, FromHost, Services!HostServices, Services!Staged
  <2>2. CASE f # e
    <3>1. holds'[f] = holds[f] /\ apis'[f] = apis[f]
      BY <1>1, <2>2 DEF SInv, ServiceTypes
    <3> QED
      BY <1>1, <3>1 DEF SInv, Standing, Orderly, FromHost, Services!HostServices, Services!Staged
  <2> QED
    BY <2>1, <2>2
<1>4. ASSUME NEW n \in Natives, providers'[n] # None PROVE n \in holds'[providers'[n]]
  BY <1>1, <1>4 DEF SInv, ServiceTypes
<1> QED
  BY <1>1, <1>2, <1>3, <1>4 DEF SInv, FromHost, Services!HostServices

\* The services go when nobody leases them, and the registry of natives with the last.
LEMMA HostUnloadKept ==
    ASSUME SInv, Services!HostUnload
    PROVE  SInv'
<1>1. PICK stay \in SUBSET {p \in Scripts : bound[p] # {}} :
         /\ bound' = [p \in Scripts |-> IF p \in stay THEN bound[p] ELSE {}]
         /\ \/ UNCHANGED <<module, published, providers>>
            \/ /\ stay = {}
               /\ \E k \in Services!Given(Services!Withdrawn, published, Services!Leased) :
                     /\ published' = published \ Services!Gone(Services!Withdrawn, published, k)
                     /\ IF k = Len(Services!Withdrawn)
                        THEN /\ module' = "absent"
                             /\ providers' = [n \in Natives |-> None]
                        ELSE UNCHANGED <<module, providers>>
  BY DEF Services!HostUnload
<1>2. UNCHANGED <<ext, holds, apis>>
  BY DEF Services!HostUnload
<1>3. bound' \in [Scripts -> SUBSET Natives] /\ \A p \in Scripts : bound'[p] \subseteq bound[p]
  BY <1>1 DEF SInv, ServiceTypes
<1>4. CASE UNCHANGED <<module, published, providers>>
  BY <1>2, <1>3, <1>4 DEF SInv, ServiceTypes, Standing, Orderly, FromHost, Services!HostServices, Services!Staged
<1>5. ASSUME stay = {},
             NEW k \in Services!Given(Services!Withdrawn, published, Services!Leased),
             published' = published \ Services!Gone(Services!Withdrawn, published, k),
             IF k = Len(Services!Withdrawn)
             THEN module' = "absent" /\ providers' = [n \in Natives |-> None]
             ELSE UNCHANGED <<module, providers>>
      PROVE  SInv'
  <2> DEFINE gone == Services!Gone(Services!Withdrawn, published, k)
  <2>1. /\ Services!Withdrawn[1] = "consumer" /\ Services!Withdrawn[2] = "callback"
        /\ Services!Withdrawn[3] = "native" /\ Services!Withdrawn[4] = "extension"
        /\ Len(Services!Withdrawn) = 4
    BY DEF Services!Withdrawn
  <2>2. k \in 0..4 /\ \A i \in 1..k : Services!Withdrawn[i] \notin published \cap Services!Leased
    BY <2>1 DEF Services!Given
  <2>3. /\ gone \subseteq FromHost /\ gone \cap Services!Leased = {}
        /\ k = 4 => gone = published \cap FromHost
    BY <2>1, <2>2, Apart DEF Services!Gone
  <2> HIDE DEF gone
  <2>4. \A e \in Exts : holds[e] \cap FromHost \subseteq Services!Leased
    BY DEF Services!Leased, FromHost
  <2>5. published' = published \ gone
    BY <1>5 DEF gone
  <2>6. \A e \in Exts : /\ holds[e] \cap FromHost \subseteq published'
                        /\ e \in published' <=> e \in published
    BY <2>3, <2>4, <2>5, Apart DEF SInv, Standing
  <2>7. \A e \in Exts : Standing(e)'
    BY <1>2, <2>6 DEF SInv, Standing, Orderly, FromHost, Services!HostServices, Services!Staged
  <2>8. \A p \in Scripts : bound'[p] = {}
    BY <1>1, <1>5
  <2>9. CASE k = 4
    <3>1. module' = "absent" /\ providers' = [n \in Natives |-> None]
      BY <1>5, <2>1, <2>9
    <3>2. published' \cap FromHost = {}
      BY <2>3, <2>5, <2>9
    <3>3. ServiceTypes'
      BY <1>2, <1>3, <2>5, <3>1 DEF SInv, ServiceTypes
    <3> QED
      BY <2>7, <2>8, <3>1, <3>2, <3>3 DEF SInv
  <2>10. CASE k # 4
    <3>1. UNCHANGED <<module, providers>>
      BY <1>5, <2>1, <2>10
    <3>2. ServiceTypes'
      BY <1>2, <1>3, <2>5, <3>1 DEF SInv, ServiceTypes
    <3> QED
      BY <1>2, <2>5, <2>7, <2>8, <3>1, <3>2 DEF SInv
  <2> QED
    BY <2>9, <2>10
<1> QED
  BY <1>1, <1>4, <1>5

LEMMA ServicesStep == SInv /\ [Services!ServicesNext]_(Services!vars) => SInv'
<1> SUFFICES ASSUME SInv, [Services!ServicesNext]_(Services!vars) PROVE SInv'
  OBVIOUS
<1> USE DEF ServiceTypes, Standing, Orderly, FromHost, Services!HostServices, Services!Staged
<1>1. CASE Services!HostLoad
  <2>1. /\ module' = "loaded" /\ published' = published \cup FromHost
        /\ UNCHANGED <<providers, ext, holds, apis, bound>>
    BY <1>1 DEF Services!HostLoad
  <2>2. \A e \in Exts : e \in published' <=> e \in published
    BY <2>1, Apart
  <2> QED
    BY <2>1, <2>2 DEF SInv
<1>2. CASE Services!Stop \/ UNCHANGED Services!vars
  BY <1>2 DEF SInv, Services!Stop, Services!vars
<1>3. ASSUME NEW p \in Scripts, Services!ScriptLoad(p) \/ Services!ScriptUnload(p) PROVE SInv'
  <2>1. UNCHANGED <<module, published, providers, ext, holds, apis>>
    BY <1>3 DEF Services!ScriptLoad, Services!ScriptUnload
  <2>2. /\ bound' \in [Scripts -> SUBSET Natives]
        /\ \A q \in Scripts : \A n \in bound'[q] : providers[n] # None
    <3>1. Uses[p] \in SUBSET Natives
      BY ServicesAssumption
    <3>2. /\ bound \in [Scripts -> SUBSET Natives]
          /\ \A q \in Scripts : \A n \in bound[q] : providers[n] # None
      BY DEF SInv
    <3>3. CASE Services!ScriptLoad(p)
      BY <3>1, <3>2, <3>3 DEF Services!ScriptLoad
    <3>4. CASE Services!ScriptUnload(p)
      BY <3>2, <3>4 DEF Services!ScriptUnload
    <3> QED
      BY <1>3, <3>3, <3>4
  <2> QED
    BY <2>1, <2>2 DEF SInv
<1>4. ASSUME NEW e \in Exts, Services!RetainCallback(e) \/ Services!ConnectConsumers(e) PROVE SInv'
  BY <1>4, ConnectKept DEF Services!RetainCallback, Services!ConnectConsumers
<1> QED
  BY <1>1, <1>2, <1>3, <1>4, HostUnloadKept, ExtLoadKept, ExtUnloadKept DEF Services!ServicesNext

\* For any extensions, scripts and names: whatever was already given back when something
\* refuses to go, an extension that has a table has a loaded host under it, a registered
\* native has its extension and its service, and a bound script its natives
\* (ReleaseResources, PrepareUnload, Bind).
THEOREM NoneDangles == Services!Spec => []NothingDangles
<1>1. Services!Init => SInv
  BY Apart DEF Services!Init, SInv, ServiceTypes, Standing, Orderly
<1>2. ASSUME SInv PROVE Services!NothingDangles
  <2>1. ASSUME NEW e \in Exts, apis[e] # {} PROVE module = "loaded"
    <3>1. "extension" \in holds[e] /\ "extension" \in FromHost
      BY <2>1, <1>2, Apart DEF SInv, Standing, Orderly
    <3>2. "extension" \in published
      BY <1>2, <3>1 DEF SInv, Standing
    <3> QED
      BY <1>2, <3>1, <3>2 DEF SInv, ServiceTypes
  <2>2. ASSUME NEW n \in Natives, providers[n] # None
        PROVE  ext[providers[n]] # "absent" /\ providers[n] \in published
    <3>1. providers[n] \in Exts /\ n \in holds[providers[n]]
      BY <1>2, <2>2 DEF SInv, ServiceTypes
    <3> QED
      BY <1>2, <3>1 DEF SInv, Standing, Orderly
  <2> QED
    BY <1>2, <2>1, <2>2 DEF SInv, Services!NothingDangles
<1> QED
  BY <1>1, <1>2, ServicesStep, PTL DEF Services!Spec, NothingDangles

-----------------------------------------------------------------------------
(* EntityHooks: the hooks of one entity.                                   *)

Ident == Addresses \X Nat
Hook == [entity : Ident, enabled : BOOLEAN, closing : BOOLEAN]
Context == [key : Nat, instance : Addresses, other : Addresses, capture : Ident, stale : BOOLEAN]
NativeCall == [instance : Addresses, other : Addresses, entities : SUBSET Ident,
               step : {"pre", "before", "original", "after", "behind", "returned"},
               context : Context \cup {None}]

EntityTypes ==
    /\ epoch \in [Addresses -> Nat] /\ last \in [Addresses -> Nat]
    /\ hook \in Hook \cup {None} /\ calls \in Seq(NativeCall)
    /\ pending \subseteq Context /\ IsFiniteSet(pending) /\ Cardinality(pending) <= MaxPending
    /\ delivered = TRUE

\* A call that has called another one is in a callback or in the original; a call the hook
\* has not seen yet is on entities that are there, and one whose callback runs is on the
\* entities that the callback was checked for.
CallSound(n) ==
    /\ n # Len(calls) => calls[n].step \in {"before", "behind", "original"}
    /\ calls[n].step = "pre" => calls[n].entities = {Entities!Entity(calls[n].instance),
                                                     Entities!Entity(calls[n].other)}
    /\ calls[n].step \in {"before", "behind"} => hook \in Hook
    /\ calls[n].step = "before" =>
          /\ calls[n].context \in Context
          /\ calls[n].entities = {hook.entity, calls[n].context.capture}

\* Only a hook that is enabled has contexts, and while it listens, a context that is left
\* of an earlier call is forgotten before a later call in the same frame gets that far.
ContextSound(c) ==
    /\ hook \in Hook /\ hook.enabled
    /\ Entities!Listens /\ c.stale /\ c.key \in 1..Len(calls) => calls[c.key].step = "pre"

EInv ==
    /\ EntityTypes
    /\ \A n \in 1..Len(calls) : CallSound(n)
    /\ \A c \in pending : ContextSound(c)

LEMMA NoHook == None \notin Hook
BY EntitiesAssumption DEF Hook, Ident

LEMMA EntitiesBegin == Entities!Init => EInv
<1> SUFFICES ASSUME Entities!Init PROVE EInv
  OBVIOUS
<1>1. IsFiniteSet({}) /\ Cardinality({}) = 0
  BY FS_EmptySet
<1>2. Cardinality({}) <= MaxPending
  BY <1>1, EntitiesAssumption
<1> QED
  BY <1>1, <1>2 DEF Entities!Init, EInv, EntityTypes

\* The call on top of the stack.
LEMMA TopCall ==
    ASSUME EInv, calls # <<>>
    PROVE  /\ Len(calls) \in Nat \ {0} /\ Entities!Top = calls[Len(calls)]
           /\ Entities!Top \in NativeCall /\ CallSound(Len(calls))
<1>1. calls \in Seq(NativeCall)
  BY DEF EInv, EntityTypes
<1>2. Len(calls) \in Nat \ {0} /\ calls[Len(calls)] \in NativeCall
  BY <1>1
<1> QED
  BY <1>2 DEF EInv, Entities!Top, Entities!Last

\* A step that only replaces the call on top.
LEMMA TopReplaced ==
    ASSUME EInv, calls # <<>>, NEW call \in NativeCall, Entities!SetTop(call)
    PROVE  /\ calls' \in Seq(NativeCall) /\ Len(calls') = Len(calls)
           /\ calls'[Len(calls)] = call
           /\ \A n \in 1..Len(calls) : n # Len(calls) => calls'[n] = calls[n]
BY DEF EInv, EntityTypes, Entities!SetTop

\* Contexts that go leave the others as they are.
LEMMA FewerContexts ==
    ASSUME EInv, NEW rest \in SUBSET pending
    PROVE  IsFiniteSet(rest) /\ Cardinality(rest) <= MaxPending /\ Cardinality(rest) \in Nat
<1>1. IsFiniteSet(pending) /\ Cardinality(pending) <= MaxPending /\ MaxPending \in Nat
  BY EntitiesAssumption DEF EInv, EntityTypes
<1>2. IsFiniteSet(rest) /\ Cardinality(rest) <= Cardinality(pending)
  BY <1>1, FS_Subset
<1> QED
  BY <1>1, <1>2, FS_CardinalityType

LEMMA ScriptStep ==
    ASSUME EInv, \/ \E a_ \in Addresses : Entities!Attach(a_)
                 \/ Entities!Close \/ Entities!Enable \/ Entities!Collect
    PROVE  EInv'
<1>1. /\ pending' = {} /\ UNCHANGED <<epoch, last, calls, delivered>>
      /\ hook' \in Hook \cup {None}
  <2>1. \A a_ \in Addresses : Entities!Entity(a_) \in Ident
    BY DEF EInv, EntityTypes, Ident, Entities!Entity
  <2>2. hook \in Hook \cup {None}
    BY DEF EInv, EntityTypes
  <2>3. CASE \E a_ \in Addresses : Entities!Attach(a_)
    BY <2>1, <2>3 DEF Hook, Entities!Attach
  <2>4. CASE Entities!Close
    BY <2>2, <2>4 DEF Hook, Entities!Close
  <2>5. CASE Entities!Enable
    BY <2>2, <2>5 DEF Hook, Entities!Enable
  <2>6. CASE Entities!Collect
    BY <2>2, <2>6 DEF Entities!Collect
  <2> QED
    BY <2>3, <2>4, <2>5, <2>6
<1>2. IsFiniteSet({}) /\ Cardinality({}) <= MaxPending
  BY FewerContexts
<1>3. EntityTypes'
  BY <1>1, <1>2 DEF EInv, EntityTypes
<1>4. ASSUME NEW n \in 1..Len(calls), calls[n].step \in {"before", "behind"}
      PROVE  hook' \in Hook /\ hook'.entity = hook.entity
  <2>1. hook \in Hook
    BY <1>4 DEF EInv, CallSound
  <2>2. ~Entities!Collect
    <3>1. n \in DOMAIN calls
      BY <1>4 DEF EInv, EntityTypes
    <3> QED
      BY <1>4, <3>1 DEF Entities!Collect, Entities!InCallback
  <2> QED
    BY <2>1, <2>2, NoHook DEF Hook, Entities!Attach, Entities!Close, Entities!Enable
<1>5. \A n \in 1..Len(calls') : CallSound(n)'
  BY <1>1, <1>4 DEF EInv, CallSound, Entities!Entity
<1> QED
  BY <1>1, <1>3, <1>5 DEF EInv

\* Entities come and go only under callbacks and originals.
LEMMA EngineStep ==
    ASSUME EInv, NEW a_ \in Addresses, Entities!Destroy(a_) \/ Entities!Create(a_)
    PROVE  EInv'
<1>1. /\ epoch' \in [Addresses -> Nat] /\ last' \in [Addresses -> Nat]
      /\ UNCHANGED <<hook, pending, calls, delivered>> /\ Entities!EngineRuns
  <2>1. epoch \in [Addresses -> Nat] /\ last \in [Addresses -> Nat]
    BY DEF EInv, EntityTypes
  <2>2. CASE Entities!Destroy(a_)
    BY <2>1, <2>2 DEF Entities!Destroy
  <2>3. CASE Entities!Create(a_)
    <3>1. last[a_] + 1 \in Nat
      BY <2>1
    <3> QED
      BY <2>1, <2>3, <3>1 DEF Entities!Create
  <2> QED
    BY <2>2, <2>3
<1>2. \A n \in 1..Len(calls) : calls[n].step # "pre"
  <2>1. ASSUME NEW n \in 1..Len(calls) PROVE calls[n].step # "pre"
    <3>1. calls # <<>>
      BY DEF EInv, EntityTypes
    <3> QED
      BY <1>1, <3>1, TopCall DEF EInv, CallSound, Entities!EngineRuns, Entities!InCallback
  <2> QED
    BY <2>1
<1> QED
  BY <1>1, <1>2 DEF EInv, EntityTypes, CallSound, ContextSound, Entities!Listens

LEMMA CallStep ==
    ASSUME EInv, NEW a_ \in Addresses, NEW other \in Addresses, Entities!Call(a_, other)
    PROVE  EInv'
<1> DEFINE call == [instance |-> a_, other |-> other, step |-> "pre",
                    entities |-> {Entities!Entity(a_), Entities!Entity(other)}, context |-> None]
<1>1. calls' = Append(calls, call) /\ UNCHANGED <<epoch, last, hook, pending, delivered>> /\ Entities!EngineRuns
  BY DEF Entities!Call
<1>2. call \in NativeCall
  BY DEF EInv, EntityTypes, NativeCall, Ident, Entities!Entity
<1>3. call.step = "pre" /\ call.entities = {Entities!Entity(call.instance), Entities!Entity(call.other)}
  OBVIOUS
<1> HIDE DEF call
<1>4. /\ calls' \in Seq(NativeCall) /\ Len(calls') = Len(calls) + 1 /\ Len(calls) \in Nat
      /\ calls'[Len(calls) + 1] = call /\ \A n \in 1..Len(calls) : calls'[n] = calls[n]
  BY <1>1, <1>2 DEF EInv, EntityTypes
<1>5. \A n \in 1..Len(calls) : calls[n].step \in {"before", "behind", "original"}
  <2>1. ASSUME NEW n \in 1..Len(calls) PROVE calls[n].step \in {"before", "behind", "original"}
    <3>1. calls # <<>>
      BY DEF EInv, EntityTypes
    <3> QED
      BY <1>1, <3>1, TopCall DEF EInv, CallSound, Entities!EngineRuns, Entities!InCallback
  <2> QED
    BY <2>1
<1>6. ASSUME NEW n \in 1..Len(calls') PROVE CallSound(n)'
  <2>1. CASE n \in 1..Len(calls)
    BY <1>1, <1>4, <1>5, <2>1 DEF EInv, CallSound, Entities!Entity
  <2>2. CASE n = Len(calls) + 1
    BY <1>1, <1>3, <1>4, <2>2 DEF CallSound, Entities!Entity
  <2> QED
    BY <1>4, <2>1, <2>2
<1>7. ASSUME NEW c \in pending' PROVE ContextSound(c)'
  <2>1. c \in pending /\ c.key \in Nat /\ ContextSound(c)
    BY <1>1, <1>7 DEF EInv, EntityTypes, Context
  <2> QED
    BY <1>1, <1>3, <1>4, <2>1 DEF ContextSound, Entities!Listens
<1>8. EntityTypes'
  BY <1>1, <1>4 DEF EInv, EntityTypes
<1> QED
  BY <1>6, <1>7, <1>8 DEF EInv

\* The call on top goes on, the others stay, and no context is added.
LEMMA TopGoesOn ==
    ASSUME EInv, calls # <<>>, NEW call \in NativeCall, Entities!SetTop(call), UNCHANGED <<epoch, last>>,
           call.step # "pre", delivered' = TRUE,
           pending' \subseteq Context, IsFiniteSet(pending'), Cardinality(pending') <= MaxPending,
           \A c \in pending' \ pending : ~c.stale /\ hook' \in Hook /\ hook'.enabled,
           hook' \in Hook \cup {None}, hook \in Hook => hook' \in Hook /\ hook'.entity = hook.entity
                                                        /\ hook'.enabled = hook.enabled
                                                        /\ (hook.closing => hook'.closing),
           call.step \in {"before", "behind"} => hook' \in Hook,
           call.step = "before" => /\ call.context \in Context
                                   /\ call.entities = {hook'.entity, call.context.capture},
           \/ Entities!Top.step # "pre"
           \/ ~Entities!Listens
           \/ \A c \in pending' : c.stale => c.key # Len(calls)
    PROVE  EInv'
<1>1. /\ calls' \in Seq(NativeCall) /\ Len(calls') = Len(calls) /\ Len(calls) \in Nat \ {0}
      /\ calls'[Len(calls)] = call /\ \A n \in 1..Len(calls) : n # Len(calls) => calls'[n] = calls[n]
      /\ Entities!Top = calls[Len(calls)]
  BY TopReplaced, TopCall
<1>2. EntityTypes'
  BY <1>1 DEF EInv, EntityTypes
<1>3. ASSUME NEW n \in 1..Len(calls') PROVE CallSound(n)'
  <2>1. CASE n = Len(calls)
    BY <1>1, <2>1 DEF CallSound
  <2>2. CASE n # Len(calls)
    <3>1. n \in 1..Len(calls) /\ CallSound(n) /\ calls'[n] = calls[n]
      BY <1>1, <2>2 DEF EInv
    <3> QED
      BY <1>1, <2>2, <3>1 DEF CallSound, Entities!Entity
  <2> QED
    BY <2>1, <2>2
<1>4. ASSUME NEW c \in pending, c \in pending' PROVE ContextSound(c)'
  <2>1. ContextSound(c) /\ hook \in Hook
    BY DEF EInv, ContextSound
  <2>2. Entities!Listens' => Entities!Listens
    BY <2>1, NoHook DEF Entities!Listens
  <2>3. ASSUME Entities!Listens', c.stale, c.key \in 1..Len(calls') PROVE calls'[c.key].step = "pre"
    <3>1. calls[c.key].step = "pre"
      BY <1>1, <2>1, <2>2, <2>3 DEF ContextSound
    <3>2. c.key # Len(calls)
      BY <1>1, <1>4, <2>2, <2>3, <3>1
    <3> QED
      BY <1>1, <2>3, <3>1, <3>2
  <2> QED
    BY <2>1, <2>3 DEF ContextSound
<1>5. ASSUME NEW c \in pending', c \notin pending PROVE ContextSound(c)'
  BY <1>5 DEF ContextSound
<1> QED
  BY <1>2, <1>3, <1>4, <1>5 DEF EInv

LEMMA PreStep == EInv /\ Entities!Pre => EInv'
<1> SUFFICES ASSUME EInv, Entities!Pre PROVE EInv'
  OBVIOUS
<1> DEFINE top == Entities!Top
           rest == Entities!Forget(pending)
           context == [key |-> Entities!Key, instance |-> top.instance, other |-> top.other,
                       capture |-> Entities!Entity(top.other), stale |-> FALSE]
<1>1. /\ calls # <<>> /\ top.step = "pre" /\ top \in NativeCall /\ CallSound(Len(calls))
      /\ top = calls[Len(calls)] /\ Len(calls) \in Nat
  BY TopCall DEF Entities!Pre
<1>2. UNCHANGED <<epoch, last>> /\ delivered' = TRUE
  BY DEF Entities!Pre, EInv, EntityTypes
<1>3. /\ rest \subseteq pending /\ \A c \in rest : c.key # Len(calls)
      /\ IsFiniteSet(rest) /\ Cardinality(rest) <= MaxPending /\ Cardinality(rest) \in Nat
      /\ rest \subseteq Context
  <2>1. rest \subseteq pending /\ \A c \in rest : c.key # Len(calls)
    BY DEF Entities!Forget, Entities!Key
  <2> QED
    BY <2>1, FewerContexts DEF EInv, EntityTypes
<1>4. hook \in Hook \cup {None} /\ (Entities!Listens => hook \in Hook /\ hook.enabled)
  BY DEF EInv, EntityTypes, Entities!Listens
<1>5. /\ [top EXCEPT !.step = "original"] \in NativeCall /\ [top EXCEPT !.step = "original"].step = "original"
      /\ [top EXCEPT !.step = "after"] \in NativeCall /\ [top EXCEPT !.step = "after"].step = "after"
  BY <1>1 DEF NativeCall
<1>6. context \in Context /\ context.key = Len(calls) /\ ~context.stale
      /\ context.capture = Entities!Entity(top.other)
  BY <1>1 DEF Context, NativeCall, Ident, Entities!Entity, Entities!Key, EInv, EntityTypes
<1>7. \/ /\ ~Entities!Listens /\ Entities!SetTop([top EXCEPT !.step = "original"])
         /\ UNCHANGED <<hook, pending>>
      \/ /\ Entities!Listens /\ Entities!SetTop([top EXCEPT !.step = "original"])
         /\ pending' = rest /\ UNCHANGED hook
      \/ /\ Entities!Listens /\ Entities!Matches(top.instance) /\ Cardinality(rest) # MaxPending
         /\ pending' = rest \cup {context} /\ UNCHANGED hook
         /\ Entities!SetTop([top EXCEPT !.step = "before", !.context = context])
      \/ /\ Entities!Listens /\ pending' = rest /\ hook' = [hook EXCEPT !.closing = TRUE]
         /\ Entities!SetTop([top EXCEPT !.step = "after"])
  <2> HIDE DEF context
  <2> QED
    BY Zenon DEF Entities!Pre, Entities!Cardinality, Cardinality, context
<1> HIDE DEF rest, context, top
<1>8. CASE /\ ~Entities!Listens /\ Entities!SetTop([top EXCEPT !.step = "original"])
           /\ UNCHANGED <<hook, pending>>
  <2>1. IsFiniteSet(pending) /\ Cardinality(pending) <= MaxPending /\ pending \subseteq Context
    BY DEF EInv, EntityTypes
  <2> QED
    BY <1>1, <1>2, <1>4, <1>5, <1>8, <2>1, TopGoesOn
<1>9. CASE /\ Entities!Listens /\ Entities!SetTop([top EXCEPT !.step = "original"])
           /\ pending' = rest /\ UNCHANGED hook
  BY <1>1, <1>2, <1>3, <1>4, <1>5, <1>9, TopGoesOn
<1>10. CASE /\ Entities!Listens /\ pending' = rest /\ hook' = [hook EXCEPT !.closing = TRUE]
            /\ Entities!SetTop([top EXCEPT !.step = "after"])
  <2>1. /\ hook' \in Hook /\ hook'.entity = hook.entity /\ hook'.enabled = hook.enabled /\ hook'.closing
    BY <1>4, <1>10 DEF Hook
  <2> QED
    BY <1>1, <1>2, <1>3, <1>5, <1>10, <2>1, TopGoesOn
<1>11. CASE /\ Entities!Listens /\ Entities!Matches(top.instance) /\ Cardinality(rest) # MaxPending
            /\ pending' = rest \cup {context} /\ UNCHANGED hook
            /\ Entities!SetTop([top EXCEPT !.step = "before", !.context = context])
  <2> DEFINE call == [top EXCEPT !.step = "before", !.context = context]
  <2>1. /\ call \in NativeCall /\ call.step = "before" /\ call.context = context
        /\ call.entities = top.entities
    BY <1>1, <1>6 DEF NativeCall
  <2>2. top.entities = {Entities!Entity(top.instance), Entities!Entity(top.other)}
    BY <1>1 DEF CallSound
  <2>3. Entities!Entity(top.instance) = hook.entity
    BY <1>4, <1>11 DEF Entities!Matches, Entities!Valid, Entities!Entity, Hook, Ident
  <2>4. IsFiniteSet(pending') /\ Cardinality(pending') <= MaxPending
    <3>1. context \notin rest
      BY <1>3, <1>6
    <3>2. IsFiniteSet(rest \cup {context}) /\ Cardinality(rest \cup {context}) = Cardinality(rest) + 1
      BY <1>3, <3>1, FS_AddElement
    <3> QED
      BY <1>3, <1>11, <3>2, EntitiesAssumption
  <2>5. pending' \subseteq Context /\ \A c \in pending' \ pending : c = context
    BY <1>3, <1>6, <1>11
  <2>6. call.entities = {hook'.entity, call.context.capture}
    BY <1>6, <1>11, <2>1, <2>2, <2>3
  <2>7. Entities!SetTop(call)
    BY <1>11
  <2> HIDE DEF call
  <2>8. \A c \in pending' \ pending : ~c.stale /\ hook' \in Hook /\ hook'.enabled
    BY <1>4, <1>6, <1>11, <2>5
  <2>9. /\ hook' \in Hook /\ hook' = hook /\ call.context \in Context
    BY <1>4, <1>6, <1>11, <2>1
  <2>10. \A c \in pending' : c.stale => c.key # Len(calls)
    BY <1>3, <1>6, <1>11
  <2> QED
    BY <1>1, <1>2, <2>1, <2>4, <2>5, <2>6, <2>7, <2>8, <2>9, <2>10, TopGoesOn
<1> QED
  BY <1>7, <1>8, <1>9, <1>10, <1>11

LEMMA HookReturnStep == EInv /\ Entities!Return => EInv'
<1> SUFFICES ASSUME EInv, Entities!Return PROVE EInv'
  OBVIOUS
<1> DEFINE top == Entities!Top
<1>1. /\ calls # <<>> /\ top.step \in {"before", "behind"} /\ top \in NativeCall /\ hook \in Hook
  BY TopCall DEF Entities!Return, Entities!Running, Entities!InCallback, CallSound
<1>2. UNCHANGED <<epoch, last, pending>> /\ delivered' = TRUE
  BY DEF Entities!Return, EInv, EntityTypes
<1>3. PICK error \in BOOLEAN, next_ \in {"returned", "after", "original"} :
         /\ hook' = IF error THEN [hook EXCEPT !.closing = TRUE] ELSE hook
         /\ Entities!SetTop([top EXCEPT !.context = None, !.step = next_])
  <2> HIDE DEF top
  <2> QED
    BY Zenon DEF Entities!Return, top
<1> DEFINE call == [top EXCEPT !.context = None, !.step = next_]
<1>4. call \in NativeCall /\ call.step \notin {"pre", "before"}
  BY <1>1, <1>3 DEF NativeCall
<1>5. /\ hook \in Hook \cup {None} /\ IsFiniteSet(pending) /\ Cardinality(pending) <= MaxPending
      /\ pending \subseteq Context
  BY DEF EInv, EntityTypes
<1>6. hook \in Hook => hook' \in Hook /\ hook'.entity = hook.entity /\ hook'.enabled = hook.enabled
                       /\ (hook.closing => hook'.closing)
  BY <1>3 DEF Hook
<1> HIDE DEF call, top
<1>7. Entities!SetTop(call) /\ Entities!Top.step # "pre"
  BY <1>1, <1>3 DEF call, top
<1>8. hook' \in Hook \cup {None}
  BY <1>1, <1>6
<1>9. pending' = pending
  BY <1>2
<1>10. /\ pending' \subseteq Context /\ IsFiniteSet(pending') /\ Cardinality(pending') <= MaxPending
       /\ \A c \in pending' \ pending : ~c.stale /\ hook' \in Hook /\ hook'.enabled
  BY <1>5, <1>9
<1> QED
  BY <1>1, <1>2, <1>4, <1>6, <1>7, <1>8, <1>10, TopGoesOn

LEMMA OriginalStep == EInv /\ Entities!Original => EInv'
<1> SUFFICES ASSUME EInv, Entities!Original PROVE EInv'
  OBVIOUS
<1> DEFINE call == [Entities!Top EXCEPT !.step = "after"]
<1>1. /\ calls # <<>> /\ Entities!Top \in NativeCall /\ Entities!Top.step # "pre"
      /\ Entities!SetTop(call) /\ UNCHANGED <<epoch, last, hook, pending, delivered>>
  BY TopCall DEF Entities!Original
<1>2. call \in NativeCall /\ call.step = "after"
  BY <1>1 DEF NativeCall
<1>3. /\ hook \in Hook \cup {None} /\ IsFiniteSet(pending) /\ Cardinality(pending) <= MaxPending
      /\ pending \subseteq Context /\ delivered = TRUE
  BY DEF EInv, EntityTypes
<1> HIDE DEF call
<1> QED
  BY <1>1, <1>2, <1>3, TopGoesOn

LEMMA PostStep == EInv /\ Entities!Post => EInv'
<1> SUFFICES ASSUME EInv, Entities!Post PROVE EInv'
  OBVIOUS
<1> DEFINE top == Entities!Top
<1>1. /\ calls # <<>> /\ top.step = "after" /\ top \in NativeCall /\ UNCHANGED <<epoch, last, hook>>
      /\ top = calls[Len(calls)] /\ Len(calls) \in Nat \ {0}
  BY TopCall DEF Entities!Post
<1>2. /\ hook \in Hook \cup {None} /\ IsFiniteSet(pending) /\ Cardinality(pending) <= MaxPending
      /\ pending \subseteq Context /\ delivered = TRUE
  BY DEF EInv, EntityTypes
<1>3. /\ [top EXCEPT !.step = "returned"] \in NativeCall /\ [top EXCEPT !.step = "returned"].step = "returned"
  BY <1>1 DEF NativeCall
<1>4. CASE Entities!SetTop([top EXCEPT !.step = "returned"]) /\ UNCHANGED <<pending, delivered>>
  <2> DEFINE call == [top EXCEPT !.step = "returned"]
  <2>1. Entities!SetTop(call) /\ call \in NativeCall /\ call.step = "returned" /\ Entities!Top.step # "pre"
    BY <1>1, <1>3, <1>4
  <2> HIDE DEF call, top
  <2> QED
    BY <1>1, <1>2, <1>4, <2>1, TopGoesOn
<1>5. ASSUME Entities!Listens, NEW context \in Entities!Found, pending' = pending \ {context},
             \/ /\ Entities!SetTop([top EXCEPT !.step = "behind", !.context = context])
                /\ delivered' = ~context.stale
             \/ /\ Entities!SetTop([top EXCEPT !.step = "returned"])
                /\ UNCHANGED delivered
      PROVE  EInv'
  <2>1. context \in pending /\ context \in Context /\ context.key = Len(calls) /\ ContextSound(context)
    BY <1>2 DEF Entities!Found, Entities!Key, EInv
  <2>2. ~context.stale
    BY <1>1, <1>5, <2>1 DEF ContextSound
  <2>3. delivered' = TRUE
    BY <1>2, <1>5, <2>2
  <2>4. IsFiniteSet(pending') /\ Cardinality(pending') <= MaxPending /\ pending' \subseteq pending
    BY <1>5, FewerContexts
  <2>5. PICK call \in NativeCall : Entities!SetTop(call) /\ call.step \notin {"pre", "before"} /\ hook \in Hook
    <3>1. /\ [top EXCEPT !.step = "behind", !.context = context] \in NativeCall
          /\ [top EXCEPT !.step = "behind", !.context = context].step = "behind"
      BY <1>1, <2>1 DEF NativeCall
    <3> QED
      BY <1>3, <1>5, <2>1, <3>1 DEF ContextSound
  <2>6. Entities!Top.step # "pre"
    BY <1>1
  <2> HIDE DEF top
  <2> QED
    BY <1>1, <1>2, <2>3, <2>4, <2>5, <2>6, TopGoesOn
<1> HIDE DEF top
<1>6. \/ Entities!SetTop([top EXCEPT !.step = "returned"]) /\ UNCHANGED <<pending, delivered>>
      \/ /\ Entities!Listens
         /\ \E context \in Entities!Found :
               /\ pending' = pending \ {context}
               /\ \/ /\ Entities!SetTop([top EXCEPT !.step = "behind", !.context = context])
                     /\ delivered' = ~context.stale
                  \/ /\ Entities!SetTop([top EXCEPT !.step = "returned"])
                     /\ UNCHANGED delivered
  BY Zenon DEF Entities!Post, top
<1> QED
  BY <1>4, <1>5, <1>6

\* The beginning of a sequence.
LEMMA Beginning ==
    ASSUME NEW S, NEW s \in Seq(S), NEW n \in 0..Len(s)
    PROVE  /\ SubSeq(s, 1, n) \in Seq(S) /\ Len(SubSeq(s, 1, n)) = n
           /\ \A i \in 1..n : SubSeq(s, 1, n)[i] = s[i]
OBVIOUS

LEMMA OverStep == EInv /\ Entities!Over => EInv'
<1> SUFFICES ASSUME EInv, Entities!Over PROVE EInv'
  OBVIOUS
<1> DEFINE marked(c) == IF c.key = Len(calls) THEN [c EXCEPT !.stale = TRUE] ELSE c
<1>1. /\ calls # <<>> /\ calls' = Entities!Front(calls) /\ UNCHANGED <<epoch, last, hook, delivered>>
      /\ pending' = {marked(c) : c \in pending}
  BY DEF Entities!Over, Entities!Key
<1>2. /\ calls' \in Seq(NativeCall) /\ Len(calls) \in Nat \ {0} /\ Len(calls') = Len(calls) - 1
      /\ \A n \in 1..Len(calls') : calls'[n] = calls[n]
  <2>1. calls \in Seq(NativeCall) /\ Len(calls) \in Nat \ {0}
    BY <1>1, TopCall DEF EInv, EntityTypes
  <2>2. calls' = SubSeq(calls, 1, Len(calls) - 1)
    BY <1>1 DEF Entities!Front
  <2>3. Len(calls) - 1 \in 0..Len(calls)
    BY <2>1
  <2> QED
    BY <2>1, <2>2, <2>3, Beginning
<1>3. /\ IsFiniteSet(pending) /\ Cardinality(pending) <= MaxPending /\ pending \subseteq Context
      /\ MaxPending \in Nat /\ Cardinality(pending) \in Nat
  BY EntitiesAssumption, FS_CardinalityType DEF EInv, EntityTypes
<1>4. \A c \in pending : marked(c) \in Context /\ marked(c).key = c.key
  BY <1>3 DEF Context
<1>5. pending' \subseteq Context
  BY <1>1, <1>4
<1> HIDE DEF marked
<1>6. IsFiniteSet(pending') /\ Cardinality(pending') <= MaxPending
  <2> DEFINE f == [c \in pending |-> marked(c)]
  <2>1. f \in Surjection(pending, pending')
    BY <1>1, Zenon DEF Surjection
  <2>2. IsFiniteSet(pending') /\ Cardinality(pending') <= Cardinality(pending)
    BY <1>3, <2>1, FS_Surjection
  <2>3. Cardinality(pending') \in Nat
    BY <2>2, FS_CardinalityType
  <2> QED
    BY <1>3, <2>2, <2>3
<1>7. EntityTypes'
  BY <1>1, <1>2, <1>5, <1>6 DEF EInv, EntityTypes
<1>8. ASSUME NEW n \in 1..Len(calls') PROVE CallSound(n)'
  <2>1. CallSound(n) /\ calls'[n] = calls[n] /\ n # Len(calls)
    BY <1>2 DEF EInv
  <2> QED
    BY <1>1, <2>1 DEF CallSound, Entities!Entity
<1>9. ASSUME NEW c_ \in pending' PROVE ContextSound(c_)'
  <2>1. PICK c \in pending : c_ = marked(c)
    BY <1>1
  <2>2. ContextSound(c) /\ c_.key = c.key /\ (c.key # Len(calls) => c_ = c)
    BY <1>4, <2>1 DEF EInv, marked
  <2> QED
    BY <1>1, <1>2, <2>2 DEF ContextSound, Entities!Listens
<1> QED
  BY <1>7, <1>8, <1>9 DEF EInv

LEMMA EntitiesStep == EInv /\ [Entities!Next]_(Entities!vars) => EInv'
<1> SUFFICES ASSUME EInv, [Entities!Next]_(Entities!vars) PROVE EInv'
  OBVIOUS
<1>1. CASE UNCHANGED Entities!vars
  BY <1>1 DEF Entities!vars, EInv, EntityTypes, CallSound, ContextSound, Entities!Entity, Entities!Listens
<1> QED
  BY <1>1, ScriptStep, EngineStep, CallStep, PreStep, HookReturnStep, OriginalStep, PostStep, OverStep
     DEF Entities!Next

\* A call gets to the original from its callback only when what it was called on is there.
LEMMA OriginalIsSafe == EInv /\ [Entities!Next]_(Entities!vars) => Entities!OriginalSafe
<1> SUFFICES ASSUME EInv, [Entities!Next]_(Entities!vars),
                    NEW n \in DOMAIN calls \cap DOMAIN calls',
                    calls[n].step = "before", calls'[n].step = "original"
             PROVE  \A e \in calls[n].entities : Entities!Valid(e)
  BY DEF Entities!OriginalSafe
<1>1. n \in 1..Len(calls) /\ CallSound(n) /\ calls \in Seq(NativeCall)
  BY DEF EInv, EntityTypes
<1>2. calls' # calls
  OBVIOUS
<1>3. CASE Entities!Return
  <2>1. calls # <<>> /\ Len(calls) \in Nat \ {0} /\ Entities!Top = calls[Len(calls)]
    BY <1>3, TopCall DEF Entities!Return, Entities!Running
  <2>2. n = Len(calls)
    BY <1>1, <1>3, <2>1 DEF Entities!Return, Entities!SetTop
  <2>3. PICK block \in BOOLEAN :
           Entities!SetTop([Entities!Top EXCEPT !.context = None, !.step =
                IF Entities!Top.step = "behind" THEN "returned"
                ELSE IF block \/ ~Entities!StillThere(Entities!Top.context) THEN "after" ELSE "original"])
    BY <1>3, Zenon DEF Entities!Return
  <2>4. Entities!Top \in NativeCall
    BY <2>1, TopCall
  <2>5. calls'[n] = [Entities!Top EXCEPT !.context = None, !.step =
                IF Entities!Top.step = "behind" THEN "returned"
                ELSE IF block \/ ~Entities!StillThere(Entities!Top.context) THEN "after" ELSE "original"]
    BY <1>1, <2>1, <2>2, <2>3 DEF Entities!SetTop
  <2>6. calls'[n].step = IF Entities!Top.step = "behind" THEN "returned"
                ELSE IF block \/ ~Entities!StillThere(Entities!Top.context) THEN "after" ELSE "original"
    BY <2>4, <2>5 DEF NativeCall
  <2>7. Entities!StillThere(calls[n].context)
    BY <2>1, <2>2, <2>6
  <2> QED
    BY <1>1, <2>7 DEF CallSound, Entities!StillThere, Entities!Matches
<1>4. CASE \E a_, other \in Addresses : Entities!Call(a_, other)
  BY <1>1, <1>4 DEF Entities!Call
<1>5. CASE Entities!Pre \/ Entities!Original \/ Entities!Post
  <2>1. /\ calls # <<>> /\ Len(calls) \in Nat \ {0} /\ Entities!Top = calls[Len(calls)]
        /\ Entities!Top.step # "before"
    BY <1>5, TopCall DEF Entities!Pre, Entities!Original, Entities!Post
  <2>2. \E call : calls' = [calls EXCEPT ![Len(calls)] = call]
    BY <1>5, Zenon DEF Entities!Pre, Entities!Original, Entities!Post, Entities!SetTop
  <2> QED
    BY <1>1, <2>1, <2>2
<1>6. CASE Entities!Over
  BY <1>1, <1>6 DEF Entities!Over, Entities!Front
<1>7. CASE \/ \E a_ \in Addresses : Entities!Attach(a_) \/ Entities!Destroy(a_) \/ Entities!Create(a_)
           \/ Entities!Close \/ Entities!Enable \/ Entities!Collect \/ UNCHANGED Entities!vars
  BY <1>2, <1>7 DEF Entities!Attach, Entities!Destroy, Entities!Create, Entities!Close, Entities!Enable,
     Entities!Collect, Entities!vars
<1> QED
  BY <1>3, <1>4, <1>5, <1>6, <1>7 DEF Entities!Next

\* For any addresses, any number of contexts and calls nested in any depth: a callback after
\* the original is told about its own call, and the original never runs with an entity that
\* was destroyed in the callback before it, or with another one at its address (Dispatch).
THEOREM HooksOfEntities == Entities!Spec => HooksAreSafe
<1>1. EInv => Entities!PostOfOwnCall
  <2> SUFFICES ASSUME EInv PROVE Entities!PostOfOwnCall
    OBVIOUS
  <2>1. delivered = TRUE /\ Cardinality(pending) <= MaxPending
    BY DEF EInv, EntityTypes
  <2> QED
    BY <2>1, Zenon DEF Entities!PostOfOwnCall, Entities!Cardinality, Cardinality
<1>2. EInv' => Entities!PostOfOwnCall'
  BY <1>1, PTL
<1>3. EInv /\ EInv' /\ [Entities!Next]_(Entities!vars) => [Entities!SafeStep]_entities
  BY <1>2, OriginalIsSafe DEF Entities!SafeStep
<1> QED
  BY <1>3, EntitiesBegin, EntitiesStep, PTL DEF Entities!Spec, HooksAreSafe

-----------------------------------------------------------------------------
(* BanStore: the ban database.                                             *)

\* What is written is flushed before the rename, and until then the file is the one that
\* is in memory.
WrittenInOrder ==
    /\ step \in {"rename", "settle"} => flushed
    /\ step \in {"create", "flush", "rename"} => file = loaded
    /\ step = "settle" => file = content

BInv == Bans!TypeOK /\ Bans!CrashSafe /\ WrittenInOrder

\* The databases are told from what is none.
LEMMA Databases ==
    /\ Bans!Database = [Accounts -> Terms \cup {Nothing}]
    /\ Torn \notin Bans!Database /\ Garbage \notin Bans!Database /\ Nothing \notin Bans!Database
    /\ Torn # Garbage /\ Torn # Nothing /\ Garbage # Nothing
BY BansAssumption DEF Bans!Database

\* Fewer bans fit when more of them did.
LEMMA SmallerFits ==
    ASSUME NEW d, NEW e, Bans!Size(d) <= MaxBans,
           {a_ \in Accounts : e[a_] # Nothing} \subseteq {a_ \in Accounts : d[a_] # Nothing}
    PROVE  Bans!Size(e) <= MaxBans
<1> DEFINE D == {a_ \in Accounts : d[a_] # Nothing}
           E == {a_ \in Accounts : e[a_] # Nothing}
<1>1. D \subseteq Accounts /\ E \subseteq D
  OBVIOUS
<1>2. Bans!Size(d) = Cardinality(D) /\ Bans!Size(e) = Cardinality(E)
  BY Zenon DEF Bans!Size, Bans!Cardinality, Cardinality
<1> HIDE DEF D, E
<1>3. IsFiniteSet(D)
  BY <1>1, BansAssumption, FS_Subset
<1>4. IsFiniteSet(E) /\ Cardinality(E) <= Cardinality(D)
  BY <1>1, <1>3, FS_Subset
<1>5. Cardinality(D) \in Nat /\ Cardinality(E) \in Nat
  BY <1>3, <1>4, FS_CardinalityType
<1> QED
  BY <1>2, <1>4, <1>5, BansAssumption

LEMMA EmptyFits == Bans!Empty \in Bans!Database /\ Bans!Size(Bans!Empty) <= MaxBans
<1> DEFINE E == {a_ \in Accounts : Bans!Empty[a_] # Nothing}
<1>1. Bans!Empty \in Bans!Database /\ E = {}
  BY DEF Bans!Database, Bans!Empty
<1>2. Bans!Size(Bans!Empty) = Cardinality(E)
  BY Zenon DEF Bans!Size, Bans!Cardinality, Cardinality
<1>3. Cardinality(E) = 0
  BY <1>1, FS_EmptySet
<1> QED
  BY <1>1, <1>2, <1>3, BansAssumption

LEMMA BansBegin == Bans!Init => BInv
BY Databases DEF Bans!Init, BInv, Bans!TypeOK, Bans!CrashSafe, Bans!ConfirmedSurvives, Bans!NeverTorn,
   WrittenInOrder

LEMMA BansStep == BInv /\ [Bans!Next]_(Bans!vars) => BInv' /\ (step = "rename" /\ step' = "settle" => file = loaded)
<1> SUFFICES ASSUME BInv, [Bans!Next]_(Bans!vars)
             PROVE  BInv' /\ (step = "rename" /\ step' = "settle" => file = loaded)
  OBVIOUS
<1>1. step = "rename" => file = loaded
  BY DEF BInv, WrittenInOrder
<1> USE Databases DEF BInv, Bans!TypeOK, Bans!CrashSafe, Bans!ConfirmedSurvives, Bans!NeverTorn, WrittenInOrder
<1>2. CASE Bans!Load
  BY <1>2, EmptyFits DEF Bans!Load, Bans!Readable
<1>3. ASSUME NEW a_ \in Accounts, Bans!RemoveBan(a_) PROVE BInv'
  <2> DEFINE candidate == [loaded EXCEPT ![a_] = Nothing]
  <2>1. /\ step = "idle" /\ loaded \in Bans!Database /\ Bans!Size(loaded) <= MaxBans
        /\ file = loaded /\ step' = "create" /\ content' = candidate
        /\ UNCHANGED <<file, lasting, loaded, flushed, acked>>
    BY <1>3 DEF Bans!RemoveBan, Bans!SaveBans, Bans!SameFile
  <2>2. candidate \in Bans!Database
    BY <2>1
  <2>3. Bans!Size(candidate) <= MaxBans
    <3>1. {b_ \in Accounts : candidate[b_] # Nothing} \subseteq {b_ \in Accounts : loaded[b_] # Nothing}
      BY <2>1
    <3> HIDE DEF candidate
    <3> QED
      BY <2>1, <3>1, SmallerFits
  <2> HIDE DEF candidate
  <2> QED
    BY <2>1, <2>2, <2>3
<1>4. ASSUME NEW a_ \in Accounts, NEW terms \in Terms, Bans!AddBan(a_, terms) PROVE BInv'
  <2> DEFINE candidate == [loaded EXCEPT ![a_] = terms]
  <2>1. /\ step = "idle" /\ loaded \in Bans!Database /\ Bans!Size(candidate) <= MaxBans
        /\ file = loaded /\ step' = "create" /\ content' = candidate
        /\ UNCHANGED <<file, lasting, loaded, flushed, acked>>
    BY <1>4 DEF Bans!AddBan, Bans!SaveBans, Bans!SameFile, Bans!Fits
  <2>2. candidate \in Bans!Database
    BY <2>1
  <2> HIDE DEF candidate
  <2> QED
    BY <2>1, <2>2
<1>5. CASE Bans!Create
  BY <1>5 DEF Bans!Create, Bans!Refuse
<1>6. CASE Bans!Flush
  BY <1>6 DEF Bans!Flush, Bans!FlushNeeded, Bans!Refuse
<1>7. CASE Bans!Rename
  <2>1. CASE Bans!Refuse
    BY <2>1 DEF Bans!Refuse
  <2>2. CASE ~Bans!Refuse
    <3>1. /\ step = "rename" /\ flushed = TRUE /\ step' = "settle" /\ file' = content
          /\ lasting' = lasting \cup {content} /\ acked' = Nothing
          /\ UNCHANGED <<loaded, content, flushed>>
      BY <1>7, <2>2 DEF Bans!Rename
    <3>2. content \in Bans!Database
      BY <3>1
    <3> QED
      BY <3>1, <3>2
  <2> QED
    BY <2>1, <2>2
<1>8. CASE Bans!Settle
  BY <1>8 DEF Bans!Settle, Bans!Settled, Bans!Refuse
<1>9. CASE Bans!Restart
  BY <1>9 DEF Bans!Restart
<1>10. CASE Bans!PowerLoss
  BY <1>10 DEF Bans!PowerLoss
<1>11. CASE Bans!Edit
  BY <1>11 DEF Bans!Edit
<1>12. CASE UNCHANGED Bans!vars
  BY <1>12 DEF Bans!vars
<1>13. BInv'
  BY <1>2, <1>3, <1>4, <1>5, <1>6, <1>7, <1>8, <1>9, <1>10, <1>11, <1>12 DEF Bans!Next
<1> QED
  BY <1>1, <1>13

\* For any accounts, terms and limit: wherever the process or the machine stops, whichever
\* call of AtomicWrite fails and whenever the file is edited between two saves, what was
\* confirmed is on the disk, no start is locked out by a torn file, and no save replaces an
\* edit that memory does not know (AtomicWrite, SaveBans).
THEOREM BansLast == Bans!Spec => BansAreKept
<1>1. BInv /\ [Bans!Next]_(Bans!vars) => [Bans!KeepingStep]_bans
  <2> SUFFICES ASSUME BInv, [Bans!Next]_(Bans!vars) PROVE Bans!KeepingStep
    OBVIOUS
  <2>1. BInv' /\ (step = "rename" /\ step' = "settle" => file = loaded)
    BY BansStep
  <2> QED
    BY <2>1 DEF BInv, Bans!KeepingStep, Bans!EditIsKept
<1> QED
  BY <1>1, BansBegin, BansStep, PTL DEF Bans!Spec, BansAreKept

=============================================================================
