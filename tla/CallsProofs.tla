---------------------------- MODULE CallsProofs ----------------------------
(***************************************************************************)
(* Proofs about the calls between scripts, extensions and the game: what   *)
(* a call on the stack keeps alive, what the counters count, and what is   *)
(* released once.                                                          *)
(***************************************************************************)
EXTENDS MCExtensionCalls, SequenceTheorems, FiniteSetTheorems, TLAPS

-----------------------------------------------------------------------------
(* Stacks.                                                                 *)

\* The calls on a stack that are of a kind.
Picks(q, S) == {k \in 1..Len(q) : q[k] \in S}

LEMMA PicksCount ==
    ASSUME NEW T, NEW q \in Seq(T), NEW S
    PROVE  /\ IsFiniteSet(Picks(q, S)) /\ Cardinality(Picks(q, S)) \in Nat
           /\ Cardinality(Picks(q, S)) <= Len(q)
           /\ Cardinality(Picks(q, S)) = 0 <=> \A k \in 1..Len(q) : q[k] \notin S
<1>1. Len(q) \in Nat /\ Picks(q, S) \in SUBSET (1..Len(q))
  BY LenProperties DEF Picks
<1>2. IsFiniteSet(1..Len(q)) /\ Cardinality(1..Len(q)) = Len(q)
  <2>1. PICK n \in Nat : n = Len(q)
    BY <1>1
  <2>2. IsFiniteSet(1..n) /\ Cardinality(1..n) = IF 1 > n THEN 0 ELSE n - 1 + 1
    BY FS_Interval
  <2>3. Cardinality(1..n) = n
    BY <2>2
  <2> QED
    BY <2>1, <2>2, <2>3
<1>3. Picks(q, S) = {} <=> \A k \in 1..Len(q) : q[k] \notin S
  BY DEF Picks
<1> HIDE DEF Picks
<1>4. IsFiniteSet(Picks(q, S)) /\ Cardinality(Picks(q, S)) <= Len(q)
  BY <1>1, <1>2, FS_Subset
<1>5. Cardinality(Picks(q, S)) \in Nat
  BY <1>4, FS_CardinalityType
<1> QED
  BY <1>3, <1>4, <1>5, FS_EmptySet

LEMMA Appended ==
    ASSUME NEW T, NEW q \in Seq(T), NEW f \in T
    PROVE  /\ Append(q, f) \in Seq(T) /\ Len(Append(q, f)) = Len(q) + 1 /\ Len(q) \in Nat
           /\ Append(q, f) # <<>> /\ Last(Append(q, f)) = f /\ Append(q, f)[Len(q) + 1] = f
           /\ \A k \in 1..Len(q) : Append(q, f)[k] = q[k] /\ q[k] \in T
           /\ \A S : Cardinality(Picks(Append(q, f), S)) = Cardinality(Picks(q, S)) + (IF f \in S THEN 1 ELSE 0)
<1> DEFINE p == Append(q, f)
<1>1. /\ p \in Seq(T) /\ Len(p) = Len(q) + 1 /\ Len(q) \in Nat
      /\ \A k \in 1..Len(q) : p[k] = q[k] /\ q[k] \in T
      /\ p[Len(q) + 1] = f
  BY AppendProperties, LenProperties
<1>2. p # <<>> /\ Last(p) = f
  BY <1>1 DEF Last
<1> HIDE DEF p
<1>3. ASSUME NEW S PROVE Cardinality(Picks(p, S)) = Cardinality(Picks(q, S)) + (IF f \in S THEN 1 ELSE 0)
  <2>1. IsFiniteSet(Picks(q, S)) /\ Cardinality(Picks(q, S)) \in Nat
    BY PicksCount
  <2>2. Len(q) + 1 \notin Picks(q, S)
    BY <1>1 DEF Picks
  <2>3. CASE f \in S
    <3>1. Picks(p, S) = Picks(q, S) \cup {Len(q) + 1}
      BY <1>1, <2>3 DEF Picks
    <3> QED
      BY <2>1, <2>2, <2>3, <3>1, FS_AddElement
  <2>4. CASE f \notin S
    <3>1. Picks(p, S) = Picks(q, S)
      BY <1>1, <2>4 DEF Picks
    <3> QED
      BY <2>1, <2>4, <3>1
  <2> QED
    BY <2>3, <2>4
<1> QED
  BY <1>1, <1>2, <1>3 DEF p

LEMMA Unwound ==
    ASSUME NEW T, NEW q \in Seq(T), q # <<>>
    PROVE  /\ Len(q) \in Nat \ {0} /\ Last(q) = q[Len(q)] /\ Last(q) \in T
           /\ Front(q) \in Seq(T) /\ Len(Front(q)) = Len(q) - 1
           /\ \A k \in 1..Len(q) - 1 : Front(q)[k] = q[k]
           /\ \A k \in 1..Len(q) : q[k] \in T
           /\ \A S : /\ Cardinality(Picks(Front(q), S)) = Cardinality(Picks(q, S)) - (IF Last(q) \in S THEN 1 ELSE 0)
                     /\ Last(q) \in S => Cardinality(Picks(q, S)) > 0
<1> DEFINE p == Front(q)
<1>1. Len(q) \in Nat \ {0} /\ \A k \in 1..Len(q) : q[k] \in T
  OBVIOUS
<1>2. Last(q) = q[Len(q)]
  BY DEF Last
<1>3. p \in Seq(T) /\ Len(p) = Len(q) - 1 /\ \A k \in 1..Len(q) - 1 : p[k] = q[k]
  <2>1. PICK n \in Nat : n = Len(q) - 1 /\ \A k \in 1..n : q[k] \in T
    BY <1>1
  <2>2. /\ SubSeq(q, 1, n) \in Seq(T) /\ Len(SubSeq(q, 1, n)) = IF 1 <= n THEN n - 1 + 1 ELSE 0
        /\ \A k \in 1..n - 1 + 1 : SubSeq(q, 1, n)[k] = q[1 + k - 1]
    BY <2>1, SubSeqProperties
  <2>3. Len(SubSeq(q, 1, n)) = n /\ \A k \in 1..n : SubSeq(q, 1, n)[k] = q[k]
    BY <2>2
  <2>4. p = SubSeq(q, 1, n)
    BY <2>1 DEF Front
  <2> QED
    BY <2>1, <2>2, <2>3, <2>4
<1> HIDE DEF p
<1>4. ASSUME NEW S
      PROVE  /\ Cardinality(Picks(p, S)) = Cardinality(Picks(q, S)) - (IF Last(q) \in S THEN 1 ELSE 0)
             /\ Last(q) \in S => Cardinality(Picks(q, S)) > 0
  <2>1. IsFiniteSet(Picks(q, S)) /\ Cardinality(Picks(q, S)) \in Nat /\ IsFiniteSet(Picks(p, S))
        /\ Cardinality(Picks(p, S)) \in Nat
    BY <1>3, PicksCount
  <2>2. CASE Last(q) \in S
    <3>1. Picks(q, S) = Picks(p, S) \cup {Len(q)} /\ Len(q) \notin Picks(p, S)
      BY <1>1, <1>2, <1>3, <2>2 DEF Picks
    <3> QED
      BY <2>1, <2>2, <3>1, FS_AddElement
  <2>3. CASE Last(q) \notin S
    <3>1. Picks(p, S) = Picks(q, S)
      BY <1>1, <1>2, <1>3, <2>3 DEF Picks
    <3> QED
      BY <2>1, <2>3, <3>1
  <2> QED
    BY <2>2, <2>3
<1> QED
  BY <1>1, <1>2, <1>3, <1>4 DEF p


-----------------------------------------------------------------------------
(* EntityTools: the entities that scripts own.                             *)

Handled == [handle : Numbers \cup {None}, made : BOOLEAN, at : {"native", "script"}]
Kinds == {"create", "adopt", "release", "key", "spawn", "teleport", "tool", "input", "write"}
Operation == [op : Kinds, object : Objects, left : SUBSET Numbers, stale : SUBSET Numbers,
              hold : Entities!Counters \cup {None}]
Making(f) == f.op \in {"create", "adopt"}
HoldsOf(c) == {f \in Operation : f.hold = c}
Existing(ob) == {o \in Objects : ob[o] # None}

\* A handle that is lent is one object's, and an object that a script has has one.
Lending(le, ob) ==
    /\ le \in [Numbers -> {"free", "pending", "live", "lost"}] /\ ob \in [Objects -> Handled \cup {None}]
    /\ \A n \in Numbers : le[n] # "free" <=> \E o \in Objects : ob[o] # None /\ ob[o].handle = n
    /\ \A o, p \in Objects : ob[o] # None /\ ob[p] # None /\ ob[o].handle \in Numbers /\ ob[o].handle = ob[p].handle
                             => o = p
    /\ \A o \in Objects : ob[o] # None /\ ob[o].at = "script" => ob[o].handle \in Numbers

Counting(ob, n) ==
    IsFiniteSet(Existing(ob)) /\ n = Cardinality(Existing(ob)) /\ n <= CountLimit

Holding(q, h) ==
    /\ q \in Seq(Operation) /\ h \in [Entities!Counters -> 0..HoldLimit]
    /\ \A c \in Entities!Counters : h[c] = Cardinality(Picks(q, HoldsOf(c)))

\* The objects that no script has yet are being made, by one call each.
BeingMade(q, ob) ==
    /\ \A k \in 1..Len(q) : Making(q[k]) => ob[q[k].object] # None /\ ob[q[k].object].at = "native"
    /\ \A k, l \in 1..Len(q) : Making(q[k]) /\ Making(q[l]) /\ q[k].object = q[l].object => k = l
    /\ \A o \in Objects : ob[o] # None /\ ob[o].at = "native" =>
          \E k \in 1..Len(q) : Making(q[k]) /\ q[k].object = o

OInv ==
    Lending(lent, object) /\ Counting(object, count) /\ Holding(operations, holds) /\ BeingMade(operations, object)

\* EntityTools has its own copies of the library's operators.
LEMMA EntityLists ==
    /\ \A q : Entities!Front(q) = Front(q) /\ Entities!Last(q) = Last(q)
    /\ \A S : Entities!Cardinality(S) = Cardinality(S)
<1>1. \A q : Entities!Front(q) = Front(q) /\ Entities!Last(q) = Last(q)
  BY Zenon DEF Entities!Front, Front, Entities!Last, Last
<1>2. \A S : Entities!Cardinality(S) = Cardinality(S)
  BY Zenon DEF Entities!Cardinality, Cardinality
<1> QED
  BY <1>1, <1>2

LEMMA EntityNames ==
    /\ Entities!Counters = {"tools", "writes"} /\ None \notin Entities!Counters /\ None \notin Numbers
    /\ None \notin Handled /\ CountLimit \in Nat /\ HoldLimit \in Nat
BY EntitiesAssumption DEF Entities!Counters, Handled

\* An operation begins, on objects that are there.
LEMMA Begun ==
    ASSUME NEW q, NEW h, Holding(q, h), NEW f \in Operation,
           NEW g, g = IF f.hold = None THEN h ELSE [h EXCEPT ![f.hold] = @ + 1],
           f.hold # None => h[f.hold] < HoldLimit
    PROVE  Holding(Append(q, f), g)
<1>1. /\ q \in Seq(Operation) /\ Append(q, f) \in Seq(Operation)
      /\ \A S : Cardinality(Picks(Append(q, f), S)) = Cardinality(Picks(q, S)) + (IF f \in S THEN 1 ELSE 0)
  BY Appended DEF Holding
<1>2. f.hold \in Entities!Counters \cup {None}
  BY DEF Operation
<1>3. ASSUME NEW c \in Entities!Counters
      PROVE  g[c] \in 0..HoldLimit /\ g[c] = Cardinality(Picks(Append(q, f), HoldsOf(c)))
  <2>1. h[c] \in 0..HoldLimit /\ h[c] = Cardinality(Picks(q, HoldsOf(c))) /\ h[c] \in Nat /\ h \in [Entities!Counters -> 0..HoldLimit]
    BY EntityNames DEF Holding
  <2>2. f \in HoldsOf(c) <=> f.hold = c
    BY DEF HoldsOf
  <2>3. g[c] = IF f.hold = c THEN h[c] + 1 ELSE h[c]
    BY <1>2, <2>1, EntityNames
  <2> QED
    BY <1>1, <2>1, <2>2, <2>3, EntityNames
<1>4. g = [c \in Entities!Counters |-> g[c]]
  BY <1>2, EntityNames DEF Holding
<1> QED
  BY <1>1, <1>3, <1>4 DEF Holding

\* The last operation ends.
LEMMA Ended ==
    ASSUME NEW q, NEW h, Holding(q, h), q # <<>>,
           NEW g, g = IF Last(q).hold = None THEN h ELSE [h EXCEPT ![Last(q).hold] = @ - 1]
    PROVE  Holding(Front(q), g)
<1> DEFINE f == Last(q)
<1>1. /\ q \in Seq(Operation) /\ Front(q) \in Seq(Operation) /\ f \in Operation
      /\ \A S : /\ Cardinality(Picks(Front(q), S)) = Cardinality(Picks(q, S)) - (IF f \in S THEN 1 ELSE 0)
                /\ f \in S => Cardinality(Picks(q, S)) > 0
  <2>1. q \in Seq(Operation)
    BY DEF Holding
  <2> QED
    BY <2>1, Unwound
<1>2. f.hold \in Entities!Counters \cup {None}
  BY <1>1 DEF Operation
<1> HIDE DEF f
<1>3. ASSUME NEW c \in Entities!Counters
      PROVE  g[c] \in 0..HoldLimit /\ g[c] = Cardinality(Picks(Front(q), HoldsOf(c)))
  <2>1. h[c] \in 0..HoldLimit /\ h[c] = Cardinality(Picks(q, HoldsOf(c))) /\ h[c] \in Nat /\ h \in [Entities!Counters -> 0..HoldLimit]
    BY EntityNames DEF Holding
  <2>2. f \in HoldsOf(c) <=> f.hold = c
    BY <1>1 DEF HoldsOf
  <2>3. g[c] = IF f.hold = c THEN h[c] - 1 ELSE h[c]
    BY <1>2, <2>1, EntityNames DEF f
  <2> QED
    BY <1>1, <2>1, <2>2, <2>3, EntityNames
<1>4. g = [c \in Entities!Counters |-> g[c]]
  BY <1>2, EntityNames DEF Holding, f
<1> QED
  BY <1>1, <1>3, <1>4 DEF Holding

\* What operations have captured of a handle that is given up means nothing any more.
Marked(q, n) == [k \in DOMAIN q |-> [q[k] EXCEPT !.stale = @ \cup {n}]]

LEMMA MarkedShape ==
    ASSUME NEW q \in Seq(Operation), NEW n \in Numbers
    PROVE  /\ Marked(q, n) \in Seq(Operation) /\ Len(Marked(q, n)) = Len(q)
           /\ \A k \in 1..Len(q) : Marked(q, n)[k].op = q[k].op /\ Marked(q, n)[k].object = q[k].object
                                   /\ Marked(q, n)[k].hold = q[k].hold
           /\ \A c : Picks(Marked(q, n), HoldsOf(c)) = Picks(q, HoldsOf(c))
<1> DEFINE m == Marked(q, n)
<1>1. DOMAIN q = 1..Len(q) /\ Len(q) \in Nat /\ \A k \in 1..Len(q) : q[k] \in Operation
  OBVIOUS
<1>2. ASSUME NEW k \in 1..Len(q)
      PROVE  /\ m[k] \in Operation /\ m[k].op = q[k].op /\ m[k].object = q[k].object /\ m[k].hold = q[k].hold
  <2>1. m[k] = [q[k] EXCEPT !.stale = @ \cup {n}] /\ q[k] \in Operation
    BY <1>1 DEF Marked
  <2> HIDE DEF m
  <2> QED
    BY <2>1 DEF Operation
<1>3. DOMAIN m = 1..Len(q)
  BY <1>1 DEF Marked
<1>4. m = [k \in 1..Len(q) |-> m[k]]
  BY <1>1 DEF Marked
<1> HIDE DEF m
<1>5. m \in Seq(Operation) /\ Len(m) = Len(q)
  BY <1>1, <1>2, <1>4, IsASeq, LenProperties
<1>6. \A c : Picks(m, HoldsOf(c)) = Picks(q, HoldsOf(c))
  BY <1>1, <1>2, <1>5 DEF Picks, HoldsOf
<1> QED
  BY <1>2, <1>5, <1>6 DEF m

LEMMA MarkedHolds ==
    ASSUME NEW q, NEW h, Holding(q, h), NEW n \in Numbers
    PROVE  Holding(Marked(q, n), h)
BY MarkedShape DEF Holding

LEMMA MarkedMakes ==
    ASSUME NEW q \in Seq(Operation), NEW ob, BeingMade(q, ob), NEW n \in Numbers
    PROVE  BeingMade(Marked(q, n), ob)
BY MarkedShape DEF BeingMade, Making


\* A handle that is lent changes its state.
LEMMA StillLent ==
    ASSUME NEW le, NEW ob, Lending(le, ob), NEW n \in Numbers, le[n] # "free", NEW x \in {"pending", "live", "lost"}
    PROVE  Lending([le EXCEPT ![n] = x], ob)
<1> DEFINE m == [le EXCEPT ![n] = x]
<1>1. /\ m \in [Numbers -> {"free", "pending", "live", "lost"}] /\ m[n] = x
      /\ \A k \in Numbers \ {n} : m[k] = le[k]
  BY DEF Lending
<1> HIDE DEF m
<1>2. \A k \in Numbers : m[k] # "free" <=> le[k] # "free"
  BY <1>1
<1> QED
  BY <1>1, <1>2 DEF Lending, m

\* An object is made, with a handle that was free, or with none yet.
Makes(le, ob, o, d, x, lf, oc) ==
    /\ Lending(le, ob) /\ o \in Objects /\ ob[o] = None
    /\ d \in Handled /\ d.at = "native" /\ x \in {"pending", "live"}
    /\ d.handle # None => le[d.handle] = "free"
    /\ lf \in [Numbers -> {"free", "pending", "live", "lost"}]
    /\ \A n \in Numbers : lf[n] = IF n = d.handle THEN x ELSE le[n]
    /\ oc \in [Objects -> Handled \cup {None}] /\ oc[o] = d /\ \A p \in Objects \ {o} : oc[p] = ob[p]

LEMMA ObjectMade ==
    ASSUME NEW le, NEW ob, NEW o, NEW d, NEW x, NEW lf, NEW oc, Makes(le, ob, o, d, x, lf, oc)
    PROVE  /\ Lending(lf, oc)
           /\ \A n \in Nat : Counting(ob, n) /\ n < CountLimit => Counting(oc, n + 1)
           /\ \A q \in Seq(Operation), f \in Operation :
                 BeingMade(q, ob) /\ Making(f) /\ f.object = o => BeingMade(Append(q, f), oc)
<1> USE DEF Makes
<1>1. /\ oc \in [Objects -> Handled \cup {None}] /\ oc[o] = d /\ d # None
      /\ \A p \in Objects \ {o} : oc[p] = ob[p]
  BY EntityNames
<1>2. d.handle \in Numbers \cup {None}
  BY DEF Handled
<1>3. /\ lf \in [Numbers -> {"free", "pending", "live", "lost"}]
      /\ \A n \in Numbers : lf[n] = IF n = d.handle THEN x ELSE le[n]
  OBVIOUS
<1>4. \A p \in Objects : ob[p] # None /\ ob[p].handle \in Numbers => ob[p].handle # d.handle
  BY <1>2, EntityNames DEF Lending
<1>5. ASSUME NEW n \in Numbers PROVE lf[n] # "free" <=> \E p \in Objects : oc[p] # None /\ oc[p].handle = n
  <2>1. le[n] # "free" <=> \E p \in Objects : ob[p] # None /\ ob[p].handle = n
    BY DEF Lending
  <2>2. CASE n = d.handle
    BY <1>1, <1>3, <2>2
  <2>3. CASE n # d.handle
    BY <1>1, <1>3, <2>1, <2>3
  <2> QED
    BY <2>2, <2>3
<1>6. Lending(lf, oc)
  BY <1>1, <1>3, <1>4, <1>5 DEF Lending
<1>7. ASSUME NEW n \in Nat, Counting(ob, n), n < CountLimit PROVE Counting(oc, n + 1)
  <2>1. Existing(oc) = Existing(ob) \cup {o} /\ o \notin Existing(ob)
    BY <1>1 DEF Existing
  <2>2. IsFiniteSet(Existing(ob)) /\ n = Cardinality(Existing(ob))
    BY <1>7 DEF Counting
  <2>3. IsFiniteSet(Existing(oc)) /\ Cardinality(Existing(oc)) = Cardinality(Existing(ob)) + 1
    <3>1. PICK S : S = Existing(ob) /\ IsFiniteSet(S) /\ o \notin S
      BY <2>1, <2>2
    <3>2. IsFiniteSet(S \cup {o}) /\ Cardinality(S \cup {o}) = Cardinality(S) + 1
      BY <3>1, FS_AddElement
    <3> QED
      BY <2>1, <3>1, <3>2
  <2>4. n + 1 <= CountLimit
    BY <1>7, EntityNames
  <2> QED
    BY <2>2, <2>3, <2>4 DEF Counting
<1>8. ASSUME NEW q \in Seq(Operation), NEW f \in Operation, BeingMade(q, ob), Making(f), f.object = o
      PROVE  BeingMade(Append(q, f), oc)
  <2> DEFINE p == Append(q, f)
  <2>1. /\ Len(p) = Len(q) + 1 /\ Len(q) \in Nat /\ p[Len(q) + 1] = f
        /\ \A k \in 1..Len(q) : p[k] = q[k] /\ q[k] \in Operation
    BY Appended
  <2> HIDE DEF p
  <2>2. \A k \in 1..Len(q) : Making(q[k]) => q[k].object # o /\ q[k].object \in Objects
    BY <1>8, <2>1 DEF BeingMade, Operation
  <2>3. \A k \in 1..Len(p) : Making(p[k]) => oc[p[k].object] # None /\ oc[p[k].object].at = "native"
    BY <1>1, <1>8, <2>1, <2>2 DEF BeingMade
  <2>4. \A k, l \in 1..Len(p) : Making(p[k]) /\ Making(p[l]) /\ p[k].object = p[l].object => k = l
    BY <1>8, <2>1, <2>2 DEF BeingMade
  <2>5. ASSUME NEW a \in Objects, oc[a] # None, oc[a].at = "native"
        PROVE  \E k \in 1..Len(p) : Making(p[k]) /\ p[k].object = a
    <3>1. CASE a = o
      BY <1>8, <2>1, <3>1
    <3>2. CASE a # o
      <4>1. PICK k \in 1..Len(q) : Making(q[k]) /\ q[k].object = a
        BY <1>1, <1>8, <2>5, <3>2 DEF BeingMade
      <4>2. k \in 1..Len(p) /\ p[k] = q[k]
        BY <2>1
      <4> QED
        BY <4>1, <4>2
    <3> QED
      BY <3>1, <3>2
  <2> QED
    BY <2>3, <2>4, <2>5 DEF BeingMade, p
<1> QED
  BY <1>6, <1>7, <1>8

\* The last call is done with an object: a script has it, or it is gone.
LEMMA NoLongerMade ==
    ASSUME NEW q \in Seq(Operation), NEW ob, ob \in [Objects -> Handled \cup {None}], BeingMade(q, ob), q # <<>>,
           Making(Last(q)),
           NEW oc, \A p \in Objects \ {Last(q).object} : oc[p] = ob[p],
           oc[Last(q).object] # None => oc[Last(q).object].at # "native"
    PROVE  BeingMade(Front(q), oc)
<1> DEFINE p == Front(q)
           o == Last(q).object
<1>1. /\ Len(q) \in Nat \ {0} /\ Len(p) = Len(q) - 1 /\ Last(q) = q[Len(q)]
      /\ \A k \in 1..Len(q) - 1 : p[k] = q[k]
      /\ \A k \in 1..Len(q) : q[k] \in Operation
  BY Unwound
<1> HIDE DEF p
<1>2. \A k \in 1..Len(p) : Making(p[k]) => p[k].object # o /\ p[k].object \in Objects
  BY <1>1 DEF BeingMade, Operation
<1>3. ASSUME NEW a \in Objects, oc[a] # None, oc[a].at = "native"
      PROVE  \E k \in 1..Len(p) : Making(p[k]) /\ p[k].object = a
  <2>1. a # o /\ oc[a] = ob[a]
    BY <1>3
  <2>2. PICK k \in 1..Len(q) : Making(q[k]) /\ q[k].object = a
    BY <1>3, <2>1 DEF BeingMade
  <2>3. k # Len(q)
    BY <1>1, <2>1, <2>2
  <2>4. k \in 1..Len(p) /\ p[k] = q[k]
    BY <1>1, <2>2, <2>3
  <2> QED
    BY <2>2, <2>4
<1>4. \A k \in 1..Len(p) : Making(p[k]) => oc[p[k].object] # None /\ oc[p[k].object].at = "native"
  BY <1>1, <1>2 DEF BeingMade
<1>5. \A k, l \in 1..Len(p) : Making(p[k]) /\ Making(p[l]) /\ p[k].object = p[l].object => k = l
  BY <1>1 DEF BeingMade
<1> QED
  BY <1>3, <1>4, <1>5 DEF BeingMade, p

\* Calls that make nothing begin and end.
LEMMA OthersMake ==
    ASSUME NEW q \in Seq(Operation), NEW ob, BeingMade(q, ob)
    PROVE  /\ \A f \in Operation : ~Making(f) => BeingMade(Append(q, f), ob)
           /\ q # <<>> /\ ~Making(Last(q)) => BeingMade(Front(q), ob)
<1>1. ASSUME NEW f \in Operation, ~Making(f) PROVE BeingMade(Append(q, f), ob)
  <2> DEFINE p == Append(q, f)
  <2>1. /\ Len(p) = Len(q) + 1 /\ Len(q) \in Nat /\ p[Len(q) + 1] = f
        /\ \A k \in 1..Len(q) : p[k] = q[k]
    BY Appended
  <2> HIDE DEF p
  <2>2. \A k \in 1..Len(p) : Making(p[k]) => k \in 1..Len(q) /\ p[k] = q[k]
    BY <1>1, <2>1
  <2>3. \A k \in 1..Len(q) : k \in 1..Len(p) /\ p[k] = q[k]
    BY <2>1
  <2> QED
    BY <2>2, <2>3 DEF BeingMade, p
<1>2. ASSUME q # <<>>, ~Making(Last(q)) PROVE BeingMade(Front(q), ob)
  <2> DEFINE p == Front(q)
  <2>1. /\ Len(q) \in Nat \ {0} /\ Len(p) = Len(q) - 1 /\ Last(q) = q[Len(q)]
        /\ \A k \in 1..Len(q) - 1 : p[k] = q[k]
    BY <1>2, Unwound
  <2> HIDE DEF p
  <2>2. \A k \in 1..Len(p) : k \in 1..Len(q) /\ p[k] = q[k]
    BY <2>1
  <2>3. \A k \in 1..Len(q) : Making(q[k]) => k \in 1..Len(p) /\ p[k] = q[k]
    BY <1>2, <2>1
  <2> QED
    BY <2>2, <2>3 DEF BeingMade, p
<1> QED
  BY <1>1, <1>2

\* ~Entity: the object is gone, and its handle with it.
Destroys(le, ob, o, lf, oc) ==
    /\ Lending(le, ob) /\ o \in Objects /\ ob[o] # None
    /\ lf \in [Numbers -> {"free", "pending", "live", "lost"}]
    /\ \A n \in Numbers : lf[n] = IF n = ob[o].handle THEN "free" ELSE le[n]
    /\ oc \in [Objects -> Handled \cup {None}] /\ oc[o] = None /\ \A p \in Objects \ {o} : oc[p] = ob[p]

LEMMA ObjectGone ==
    ASSUME NEW le, NEW ob, NEW o, NEW lf, NEW oc, Destroys(le, ob, o, lf, oc)
    PROVE  /\ Lending(lf, oc)
           /\ \A n : Counting(ob, n) => Counting(oc, n - 1)
           /\ ob[o].at = "script" => \A q \in Seq(Operation) : BeingMade(q, ob) => BeingMade(q, oc)
<1> USE DEF Destroys
<1>1. /\ oc \in [Objects -> Handled \cup {None}] /\ oc[o] = None
      /\ \A p \in Objects \ {o} : oc[p] = ob[p]
      /\ ob[o] \in Handled
  BY DEF Lending
<1>2. ob[o].handle \in Numbers \cup {None}
  BY <1>1 DEF Handled
<1>3. /\ lf \in [Numbers -> {"free", "pending", "live", "lost"}]
      /\ \A n \in Numbers : lf[n] = IF n = ob[o].handle THEN "free" ELSE le[n]
  OBVIOUS
<1>4. ASSUME NEW n \in Numbers PROVE lf[n] # "free" <=> \E p \in Objects : oc[p] # None /\ oc[p].handle = n
  <2>1. le[n] # "free" <=> \E p \in Objects : ob[p] # None /\ ob[p].handle = n
    BY DEF Lending
  <2>2. CASE n = ob[o].handle
    BY <1>1, <1>3, <2>2 DEF Lending
  <2>3. CASE n # ob[o].handle
    BY <1>1, <1>3, <2>1, <2>3
  <2> QED
    BY <2>2, <2>3
<1>5. Lending(lf, oc)
  BY <1>1, <1>3, <1>4 DEF Lending
<1>6. ASSUME NEW n, Counting(ob, n) PROVE Counting(oc, n - 1)
  <2>1. Existing(oc) = Existing(ob) \ {o} /\ o \in Existing(ob)
    BY <1>1 DEF Existing
  <2>2. Cardinality(Existing(ob)) \in Nat
    BY <1>6, FS_CardinalityType DEF Counting
  <2>3. IsFiniteSet(Existing(ob)) /\ n = Cardinality(Existing(ob)) /\ n <= CountLimit
    BY <1>6 DEF Counting
  <2>4. IsFiniteSet(Existing(oc)) /\ Cardinality(Existing(oc)) = Cardinality(Existing(ob)) - 1
    BY <2>1, <2>3, FS_RemoveElement
  <2>5. n - 1 <= CountLimit
    BY <2>2, <2>3, EntityNames
  <2> QED
    BY <2>3, <2>4, <2>5 DEF Counting
<1>7. ASSUME ob[o].at = "script", NEW q \in Seq(Operation), BeingMade(q, ob) PROVE BeingMade(q, oc)
  <2>1. \A k \in 1..Len(q) : Making(q[k]) => q[k].object # o /\ q[k].object \in Objects
    <3>1. \A k \in 1..Len(q) : q[k] \in Operation
      OBVIOUS
    <3> QED
      BY <1>7, <3>1 DEF BeingMade, Operation
  <2> QED
    BY <1>1, <1>7, <2>1 DEF BeingMade
<1> QED
  BY <1>5, <1>6, <1>7


\* A call on the stack that only goes on.
LEMMA GoesOn ==
    ASSUME NEW q \in Seq(Operation), NEW p \in Seq(Operation), Len(p) = Len(q),
           \A k \in 1..Len(q) : p[k].op = q[k].op /\ p[k].object = q[k].object /\ p[k].hold = q[k].hold
    PROVE  /\ \A h : Holding(q, h) => Holding(p, h)
           /\ \A ob : BeingMade(q, ob) => BeingMade(p, ob)
<1>1. \A k \in 1..Len(q) : p[k] \in Operation /\ q[k] \in Operation
  OBVIOUS
<1>2. \A c : Picks(p, HoldsOf(c)) = Picks(q, HoldsOf(c))
  BY <1>1 DEF Picks, HoldsOf
<1> QED
  BY <1>2 DEF Holding, BeingMade, Making

LEMMA CreateStep ==
    ASSUME OInv, NEW o \in Objects, NEW n \in Numbers \cup {None}, Entities!Create(o, n) PROVE OInv'
<1> DEFINE f == [op |-> "create", object |-> o, left |-> {}, stale |-> {}, hold |-> "tools"]
           d == [handle |-> n, made |-> TRUE, at |-> "native"]
<1>1. /\ count < CountLimit /\ holds["tools"] < HoldLimit /\ object[o] = None
      /\ n # None => lent[n] = "free"
      /\ object' = [object EXCEPT ![o] = d]
      /\ lent' = IF n = None THEN lent ELSE [lent EXCEPT ![n] = "pending"]
      /\ count' = count + 1 /\ holds' = [holds EXCEPT !["tools"] = @ + 1]
      /\ operations' = Append(operations, f)
  BY DEF Entities!Create, Entities!Room, Entities!MayHold, Entities!Exists, Entities!Held, Entities!Frame
<1>2. f \in Operation /\ Making(f) /\ f.object = o /\ f.hold = "tools" /\ "tools" # None
  BY EntityNames DEF Operation, Kinds, Making
<1>3. d \in Handled /\ d.handle = n /\ d.at = "native"
  BY DEF Handled
<1> HIDE DEF f, d
<1>4. Lending(lent, object) /\ Counting(object, count) /\ Holding(operations, holds) /\ BeingMade(operations, object)
      /\ operations \in Seq(Operation) /\ count \in Nat
  BY FS_CardinalityType DEF OInv, Holding, Counting
<1>5. Holding(operations', holds')
  BY <1>1, <1>2, <1>4, Begun
<1>6. /\ object' \in [Objects -> Handled \cup {None}] /\ object'[o] = d /\ \A p \in Objects \ {o} : object'[p] = object[p]
      /\ lent' \in [Numbers -> {"free", "pending", "live", "lost"}]
      /\ \A k \in Numbers : lent'[k] = IF k = d.handle THEN "pending" ELSE lent[k]
      /\ d.handle # None => lent[d.handle] = "free"
  BY <1>1, <1>3, <1>4, EntityNames DEF Lending
<1>7. Makes(lent, object, o, d, "pending", lent', object')
  BY <1>1, <1>3, <1>4, <1>6 DEF Makes
<1>8. /\ Lending(lent', object')
      /\ \A k \in Nat : Counting(object, k) /\ k < CountLimit => Counting(object', k + 1)
      /\ \A q \in Seq(Operation), g \in Operation :
            BeingMade(q, object) /\ Making(g) /\ g.object = o => BeingMade(Append(q, g), object')
  BY <1>4, <1>7, ObjectMade
<1>9. Counting(object', count') /\ BeingMade(operations', object')
  BY <1>1, <1>2, <1>4, <1>8
<1> QED
  BY <1>5, <1>8, <1>9 DEF OInv

LEMMA FindStep ==
    ASSUME OInv, NEW o \in Objects, NEW n \in Numbers, Entities!Find(o, n) PROVE OInv'
<1> DEFINE f == [op |-> "adopt", object |-> o, left |-> {}, stale |-> {}, hold |-> None]
           d == [handle |-> n, made |-> FALSE, at |-> "native"]
<1>1. /\ count < CountLimit /\ object[o] = None /\ lent[n] = "free"
      /\ object' = [object EXCEPT ![o] = d]
      /\ lent' = [lent EXCEPT ![n] = "live"]
      /\ count' = count + 1 /\ holds' = holds
      /\ operations' = Append(operations, f)
  BY DEF Entities!Find, Entities!Room, Entities!Exists, Entities!Frame
<1>2. f \in Operation /\ Making(f) /\ f.object = o /\ f.hold = None
  BY DEF Operation, Kinds, Making
<1>3. d \in Handled /\ d.handle = n /\ d.at = "native" /\ n # None
  BY EntityNames DEF Handled
<1> HIDE DEF f, d
<1>4. Lending(lent, object) /\ Counting(object, count) /\ Holding(operations, holds) /\ BeingMade(operations, object)
      /\ operations \in Seq(Operation) /\ count \in Nat
  BY FS_CardinalityType DEF OInv, Holding, Counting
<1>5. Holding(operations', holds')
  BY <1>1, <1>2, <1>4, Begun
<1>6. /\ object' \in [Objects -> Handled \cup {None}] /\ object'[o] = d /\ \A p \in Objects \ {o} : object'[p] = object[p]
      /\ lent' \in [Numbers -> {"free", "pending", "live", "lost"}]
      /\ \A k \in Numbers : lent'[k] = IF k = d.handle THEN "live" ELSE lent[k]
      /\ d.handle # None => lent[d.handle] = "free"
  BY <1>1, <1>3, <1>4, EntityNames DEF Lending
<1>7. Makes(lent, object, o, d, "live", lent', object')
  BY <1>1, <1>3, <1>4, <1>6 DEF Makes
<1>8. /\ Lending(lent', object')
      /\ \A k \in Nat : Counting(object, k) /\ k < CountLimit => Counting(object', k + 1)
      /\ \A q \in Seq(Operation), g \in Operation :
            BeingMade(q, object) /\ Making(g) /\ g.object = o => BeingMade(Append(q, g), object')
  BY <1>4, <1>7, ObjectMade
<1>9. Counting(object', count') /\ BeingMade(operations', object')
  BY <1>1, <1>2, <1>4, <1>8
<1> QED
  BY <1>5, <1>8, <1>9 DEF OInv

\* The call on top, and the object that it makes.
LEMMA TopCall ==
    ASSUME OInv, operations # <<>>
    PROVE  /\ Entities!Top = Last(operations) /\ Last(operations) \in Operation
           /\ Len(operations) \in Nat \ {0} /\ Last(operations) = operations[Len(operations)]
           /\ Last(operations).object \in Objects /\ Last(operations).hold \in Entities!Counters \cup {None}
           /\ Making(Last(operations)) =>
                 /\ object[Last(operations).object] # None /\ object[Last(operations).object] \in Handled
                 /\ object[Last(operations).object].at = "native"
           /\ Holding(Front(operations), Entities!Freed(Last(operations).hold))
<1>1. /\ operations \in Seq(Operation) /\ BeingMade(operations, object) /\ Lending(lent, object)
      /\ Holding(operations, holds)
  BY DEF OInv, Holding
<1>2. Last(operations) \in Operation /\ Len(operations) \in Nat \ {0} /\ Last(operations) = operations[Len(operations)]
  BY <1>1, Unwound
<1>3. Entities!Freed(Last(operations).hold) = IF Last(operations).hold = None THEN holds
                                              ELSE [holds EXCEPT ![Last(operations).hold] = @ - 1]
  BY DEF Entities!Freed
<1>4. Holding(Front(operations), Entities!Freed(Last(operations).hold))
  BY <1>1, <1>3, Ended
<1>5. Last(operations).object \in Objects /\ Last(operations).hold \in Entities!Counters \cup {None}
  BY <1>2 DEF Operation
<1>6. Making(Last(operations)) => object[Last(operations).object] # None /\ object[Last(operations).object].at = "native"
  BY <1>1, <1>2 DEF BeingMade
<1>7. \A p \in Objects : object[p] \in Handled \cup {None}
  BY <1>1 DEF Lending
<1>8. Making(Last(operations)) => object[Last(operations).object] \in Handled
  BY <1>5, <1>6, <1>7
<1>9. Entities!Top = Last(operations)
  BY EntityLists DEF Entities!Top
<1> QED
  BY <1>2, <1>4, <1>5, <1>6, <1>8, <1>9

LEMMA TakeStep == ASSUME OInv, Entities!Take PROVE OInv'
<1> DEFINE f == Last(operations)
           o == f.object
<1>1. operations # <<>>
  BY DEF Entities!Take, Entities!TopIs
<1>2. Making(f)
  BY <1>1, TopCall DEF Entities!Take, Entities!TopIs, Making
<1>3. /\ o \in Objects /\ object[o] # None /\ object[o] \in Handled /\ object[o].at = "native"
      /\ Holding(Front(operations), Entities!Freed(f.hold)) /\ Entities!Top = f
  BY <1>1, <1>2, TopCall
<1>4. /\ object[o].handle # None /\ object' = [object EXCEPT ![o].at = "script"]
      /\ holds' = Entities!Freed(f.hold) /\ operations' = Front(operations) /\ UNCHANGED <<lent, count>>
  BY <1>3, EntityLists DEF Entities!Take, Entities!Consistent
<1>5. Lending(lent, object) /\ Counting(object, count) /\ BeingMade(operations, object) /\ operations \in Seq(Operation)
  BY DEF OInv, Holding
<1>6. Holding(operations', holds')
  BY <1>3, <1>4
<1> HIDE DEF f, o
<1>7. /\ \A p \in Objects \ {o} : object'[p] = object[p]
      /\ object'[o] = [object[o] EXCEPT !.at = "script"] /\ object' \in [Objects -> Handled \cup {None}]
      /\ object'[o].handle = object[o].handle /\ object'[o].at = "script" /\ object'[o] # None /\ object[o].handle \in Numbers
  <2>1. object'[o] = [object[o] EXCEPT !.at = "script"] /\ \A p \in Objects \ {o} : object'[p] = object[p]
    BY <1>3, <1>4, <1>5 DEF Lending
  <2>2. [object[o] EXCEPT !.at = "script"] \in Handled
    BY <1>3 DEF Handled
  <2>3. object' \in [Objects -> Handled \cup {None}]
    BY <1>4, <1>5, <2>2 DEF Lending
  <2>4. object'[o].handle = object[o].handle /\ object'[o].at = "script" /\ object[o].handle \in Numbers
    BY <1>3, <1>4, <2>1 DEF Handled
  <2> QED
    BY <2>1, <2>2, <2>3, <2>4, EntityNames
<1>8. Lending(lent', object')
  BY <1>3, <1>4, <1>5, <1>7 DEF Lending
<1>9. Counting(object', count')
  <2>1. Existing(object') = Existing(object)
    BY <1>3, <1>7 DEF Existing
  <2> QED
    BY <1>4, <1>5, <2>1 DEF Counting
<1>10. BeingMade(operations', object')
  <2>1. object \in [Objects -> Handled \cup {None}]
    BY <1>5 DEF Lending
  <2>2. \A p \in Objects \ {Last(operations).object} : object'[p] = object[p]
    BY <1>7 DEF o, f
  <2>3. object'[Last(operations).object] # None => object'[Last(operations).object].at # "native"
    BY <1>7 DEF o, f
  <2>4. Making(Last(operations)) /\ BeingMade(operations, object) /\ operations \in Seq(Operation)
    BY <1>2, <1>5 DEF f
  <2>5. BeingMade(Front(operations), object')
    BY <1>1, <2>1, <2>2, <2>3, <2>4, NoLongerMade
  <2> QED
    BY <1>4, <2>5
<1> QED
  BY <1>6, <1>8, <1>9, <1>10 DEF OInv

\* The host gives a handle up, and the call that did it goes on the stack.
LEMMA ReleasedBelow ==
    ASSUME NEW q \in Seq(Operation), NEW n \in Numbers, NEW o \in Objects, NEW c \in Entities!Counters \cup {None},
           NEW h, Holding(q, h), NEW g, g = IF c = None THEN h ELSE [h EXCEPT ![c] = @ + 1],
           c # None => h[c] < HoldLimit,
           NEW ob, BeingMade(q, ob),
           NEW f, f = [op |-> "release", object |-> o, left |-> {}, stale |-> {}, hold |-> c],
           Entities!Release(n, Append(q, f))
    PROVE  Holding(operations', g) /\ BeingMade(operations', ob) /\ lent' = [lent EXCEPT ![n] = "free"]
<1>1. lent' = [lent EXCEPT ![n] = "free"] /\ operations' = Marked(Append(q, f), n)
  BY DEF Entities!Release, Marked
<1>2. f \in Operation /\ ~Making(f) /\ f.hold = c
  BY DEF Operation, Kinds, Making
<1>3. Append(q, f) \in Seq(Operation)
  BY <1>2, Appended
<1>4. Holding(Append(q, f), g)
  BY <1>2, Begun
<1>5. BeingMade(Append(q, f), ob)
  BY <1>2, OthersMake
<1> QED
  BY <1>1, <1>3, <1>4, <1>5, MarkedHolds, MarkedMakes

\* A counter that was raised can be lowered and raised again.
LEMMA HeldAgain ==
    ASSUME OInv, operations # <<>>, NEW c, c = Last(operations).hold, c # None
    PROVE  LET h == Entities!Freed(c) IN h[c] < HoldLimit /\ holds = [h EXCEPT ![c] = @ + 1]
<1> DEFINE h == Entities!Freed(c)
<1>1. h = [holds EXCEPT ![c] = @ - 1]
  BY DEF Entities!Freed
<1>2. c \in Entities!Counters /\ holds \in [Entities!Counters -> 0..HoldLimit]
  BY TopCall DEF OInv, Holding
<1>3. holds[c] \in 0..HoldLimit /\ h[c] = holds[c] - 1 /\ h[c] + 1 = holds[c]
  BY <1>1, <1>2, EntityNames
<1>4. holds = [h EXCEPT ![c] = h[c] + 1]
  BY <1>1, <1>2, <1>3
<1> QED
  BY <1>3, <1>4, EntityNames

LEMMA AbandonStep == ASSUME OInv, Entities!Abandon PROVE OInv'
<1> DEFINE f == Last(operations)
           o == f.object
           n == object[o].handle
           r(c) == [op |-> "release", object |-> o, left |-> {}, stale |-> {}, hold |-> c]
<1>1. operations # <<>>
  BY DEF Entities!Abandon, Entities!TopIs
<1>2. Making(f)
  BY <1>1, TopCall DEF Entities!Abandon, Entities!TopIs, Making
<1>3. /\ o \in Objects /\ object[o] # None /\ object[o] \in Handled /\ object[o].at = "native"
      /\ Holding(Front(operations), Entities!Freed(f.hold)) /\ Entities!Top = f
      /\ f.hold \in Entities!Counters \cup {None}
  BY <1>1, <1>2, TopCall
<1>4. PICK c \in {f.hold, None} :
        /\ object' = [object EXCEPT ![o] = None] /\ count' = count - 1
        /\ IF n = None THEN operations' = Front(operations) /\ holds' = Entities!Freed(f.hold) /\ UNCHANGED lent
           ELSE /\ Entities!Release(n, Append(Front(operations), r(c)))
                /\ holds' = IF c = None THEN Entities!Freed(f.hold) ELSE holds
  BY <1>3, EntityLists DEF Entities!Abandon, Entities!Detached, Entities!Frame
<1>5. Lending(lent, object) /\ Counting(object, count) /\ BeingMade(operations, object) /\ operations \in Seq(Operation)
      /\ object \in [Objects -> Handled \cup {None}] /\ Front(operations) \in Seq(Operation)
  BY <1>1, Unwound DEF OInv, Holding, Lending
<1>6. /\ object' \in [Objects -> Handled \cup {None}] /\ object'[o] = None
      /\ \A p \in Objects \ {o} : object'[p] = object[p]
  BY <1>3, <1>4, <1>5
<1>7. BeingMade(Front(operations), object')
  BY <1>1, <1>2, <1>5, <1>6, NoLongerMade
<1>8. n \in Numbers \cup {None}
  BY <1>3 DEF Handled
<1>9. CASE n = None
  <2>1. lent' = lent /\ lent \in [Numbers -> {"free", "pending", "live", "lost"}]
    BY <1>4, <1>5, <1>9 DEF Lending
  <2>2. \A k \in Numbers : lent'[k] = IF k = object[o].handle THEN "free" ELSE lent[k]
    BY <1>9, <2>1, EntityNames
  <2>3. Lending(lent', object') /\ Counting(object', count - 1)
    <3>1. Destroys(lent, object, o, lent', object')
      BY <1>3, <1>5, <1>6, <2>1, <2>2 DEF Destroys
    <3> QED
      BY <1>5, <3>1, ObjectGone
  <2> QED
    BY <1>3, <1>4, <1>7, <1>9, <2>3 DEF OInv
<1>10. CASE n # None
  <2> DEFINE h == Entities!Freed(f.hold)
             g == IF c = None THEN h ELSE [h EXCEPT ![c] = @ + 1]
  <2>1. c # None => h[c] < HoldLimit /\ holds = [h EXCEPT ![c] = @ + 1]
    BY <1>1, <1>4, HeldAgain
  <2>2. holds' = g
    BY <1>4, <1>10, <2>1
  <2>3. c \in Entities!Counters \cup {None} /\ n \in Numbers
    BY <1>3, <1>4, <1>8, <1>10
  <2>4. PICK rel : rel = r(c)
    OBVIOUS
  <2>5. Entities!Release(n, Append(Front(operations), rel))
    BY <1>4, <1>10, <2>4
  <2> HIDE DEF f, o, n, h
  <2>6. rel = [op |-> "release", object |-> o, left |-> {}, stale |-> {}, hold |-> c]
    BY <2>4
  <2> HIDE DEF g, r
  <2>7. g = IF c = None THEN h ELSE [h EXCEPT ![c] = @ + 1]
    BY DEF g
  <2>8. Holding(operations', g) /\ BeingMade(operations', object') /\ lent' = [lent EXCEPT ![n] = "free"]
    <3>1. Holding(Front(operations), h)
      BY <1>3 DEF h
    <3> QED
      BY <1>3, <1>5, <1>7, <2>1, <2>3, <2>5, <2>6, <2>7, <3>1, ReleasedBelow
  <2>9. Lending(lent', object') /\ Counting(object', count - 1)
    <3>1. lent' \in [Numbers -> {"free", "pending", "live", "lost"}]
          /\ \A k \in Numbers : lent'[k] = IF k = n THEN "free" ELSE lent[k]
      BY <1>5, <2>3, <2>8 DEF Lending
    <3>2. n = object[o].handle
      BY DEF n
    <3>3. Destroys(lent, object, o, lent', object')
      BY <1>3, <1>5, <1>6, <3>1, <3>2 DEF Destroys
    <3> QED
      BY <1>5, <3>3, ObjectGone
  <2> QED
    BY <1>4, <2>2, <2>8, <2>9 DEF OInv
<1> QED
  BY <1>9, <1>10

LEMMA CloseStep == ASSUME OInv, NEW o \in Objects, Entities!Close(o) PROVE OInv'
<1> DEFINE n == object[o].handle
           r == [op |-> "release", object |-> o, left |-> {}, stale |-> {}, hold |-> None]
<1>1. /\ object[o] # None /\ object[o].at = "script"
      /\ object' = [object EXCEPT ![o] = None] /\ count' = count - 1 /\ holds' = holds
      /\ Entities!Release(n, Append(operations, r))
  BY DEF Entities!Close, Entities!OwnedByScript, Entities!Exists, Entities!Detached, Entities!Frame
<1>2. /\ Lending(lent, object) /\ Counting(object, count) /\ BeingMade(operations, object) /\ operations \in Seq(Operation)
      /\ object \in [Objects -> Handled \cup {None}] /\ Holding(operations, holds)
  BY DEF OInv, Holding, Lending
<1>3. /\ object' \in [Objects -> Handled \cup {None}] /\ object'[o] = None
      /\ \A p \in Objects \ {o} : object'[p] = object[p]
  BY <1>1, <1>2
<1>4. n \in Numbers
  BY <1>1, <1>2 DEF Lending
<1> HIDE DEF n
<1>5. Holding(operations', holds) /\ BeingMade(operations', object) /\ lent' = [lent EXCEPT ![n] = "free"]
  BY <1>1, <1>2, <1>4, ReleasedBelow
<1>6. /\ lent' \in [Numbers -> {"free", "pending", "live", "lost"}]
      /\ \A k \in Numbers : lent'[k] = IF k = n THEN "free" ELSE lent[k]
  BY <1>2, <1>4, <1>5 DEF Lending
<1>7. Destroys(lent, object, o, lent', object')
  BY <1>1, <1>2, <1>3, <1>6 DEF Destroys, n
<1>8. /\ Lending(lent', object') /\ Counting(object', count - 1)
      /\ \A q \in Seq(Operation) : BeingMade(q, object) => BeingMade(q, object')
  BY <1>1, <1>2, <1>7, ObjectGone
<1>9. operations' \in Seq(Operation)
  BY <1>5 DEF Holding
<1> QED
  BY <1>1, <1>5, <1>8, <1>9 DEF OInv

\* An operation ends that has made nothing.
LEMMA ReleasedStep == ASSUME OInv, Entities!Released \/ Entities!Return PROVE OInv'
<1>1. /\ operations # <<>> /\ Entities!Top.op \notin {"create", "adopt"}
      /\ holds' = Entities!Freed(Entities!Top.hold) /\ operations' = Front(operations)
      /\ UNCHANGED <<lent, object, count>>
  BY EntityLists DEF Entities!Released, Entities!Return, Entities!TopIs, Entities!Operations
<1>2. Entities!Top = Last(operations) /\ Holding(Front(operations), Entities!Freed(Last(operations).hold))
      /\ operations \in Seq(Operation) /\ BeingMade(operations, object)
  BY <1>1, TopCall DEF OInv, Holding
<1>3. BeingMade(operations', object)
  BY <1>1, <1>2, OthersMake DEF Making
<1> QED
  BY <1>1, <1>2, <1>3 DEF OInv

LEMMA StartStep ==
    ASSUME OInv, NEW op \in Entities!Operations, NEW c \in Entities!Counters, NEW o \in Objects, NEW others \in SUBSET Objects,
           Entities!Start(op, c, o, others)
    PROVE  OInv'
<1> DEFINE f == [op |-> op, object |-> o, left |-> {object[p].handle : p \in {o} \cup others}, stale |-> {}, hold |-> c]
<1>1. /\ holds[c] < HoldLimit /\ holds' = [holds EXCEPT ![c] = @ + 1] /\ operations' = Append(operations, f)
      /\ UNCHANGED <<lent, object, count>>
      /\ \A p \in {o} \cup others : object[p] # None /\ object[p].at = "script"
  BY DEF Entities!Start, Entities!MayHold, Entities!Held, Entities!Frame, Entities!OwnedByScript, Entities!Exists
<1>2. \A p \in {o} \cup others : object[p].handle \in Numbers
  BY <1>1 DEF OInv, Lending
<1>3. f \in Operation /\ ~Making(f) /\ f.hold = c /\ c # None
  BY <1>2, EntityNames DEF Operation, Kinds, Making, Entities!Operations
<1> HIDE DEF f
<1>4. Holding(operations, holds) /\ BeingMade(operations, object) /\ operations \in Seq(Operation)
  BY DEF OInv, Holding
<1>5. Holding(operations', holds')
  BY <1>1, <1>3, <1>4, Begun
<1>6. BeingMade(operations', object')
  BY <1>1, <1>3, <1>4, OthersMake
<1> QED
  BY <1>1, <1>5, <1>6 DEF OInv

LEMMA ValidateStep == ASSUME OInv, NEW n \in Numbers, Entities!Validate(n) PROVE OInv'
<1>1. /\ operations # <<>> /\ UNCHANGED <<lent, object, count, holds>>
      /\ operations' = [operations EXCEPT ![Len(operations)].left = @ \ {n}]
  BY DEF Entities!Validate
<1>2. operations \in Seq(Operation) /\ Len(operations) \in Nat \ {0}
  BY <1>1, TopCall DEF OInv, Holding
<1>3. PICK l \in 1..Len(operations) : l = Len(operations) /\ operations[l] \in Operation
  BY <1>2
<1>4. PICK g : g = [operations[l] EXCEPT !.left = @ \ {n}]
  OBVIOUS
<1>5. g \in Operation /\ g.op = operations[l].op /\ g.object = operations[l].object /\ g.hold = operations[l].hold
  BY <1>3, <1>4 DEF Operation
<1>6. operations' = [operations EXCEPT ![l] = g]
  BY <1>1, <1>3, <1>4
<1>7. operations' \in Seq(Operation) /\ Len(operations') = Len(operations)
      /\ operations'[l] = g /\ \A k \in 1..Len(operations) : k # l => operations'[k] = operations[k]
  BY <1>2, <1>3, <1>5, <1>6
<1>8. \A k \in 1..Len(operations) : /\ operations'[k].op = operations[k].op /\ operations'[k].object = operations[k].object
                                    /\ operations'[k].hold = operations[k].hold
  BY <1>5, <1>7
<1>9. Holding(operations', holds) /\ BeingMade(operations', object)
  BY <1>2, <1>7, <1>8, GoesOn DEF OInv
<1> QED
  BY <1>1, <1>9 DEF OInv

\* What the game does with an entity.
LEMMA GameStep == ASSUME OInv, NEW n \in Numbers, Entities!Spawned(n) \/ Entities!Disappear(n) PROVE OInv'
<1>1. PICK x \in {"pending", "live", "lost"} : lent[n] # "free" /\ lent' = [lent EXCEPT ![n] = x]
  BY DEF Entities!Spawned, Entities!Disappear
<1>2. UNCHANGED <<object, count, holds, operations>>
  BY DEF Entities!Spawned, Entities!Disappear
<1>3. Lending(lent', object)
  BY <1>1, StillLent DEF OInv
<1> QED
  BY <1>2, <1>3 DEF OInv

LEMMA EntitiesBegin == Entities!Init => OInv
<1> SUFFICES ASSUME Entities!Init PROVE OInv
  OBVIOUS
<1>1. /\ lent = [n \in Numbers |-> "free"] /\ object = [o \in Objects |-> None]
      /\ count = 0 /\ holds = [c \in Entities!Counters |-> 0] /\ operations = <<>>
  BY DEF Entities!Init
<1>2. Lending(lent, object)
  BY <1>1 DEF Lending
<1>3. Counting(object, count)
  <2>1. Existing(object) = {}
    BY <1>1 DEF Existing
  <2>2. IsFiniteSet(Existing(object)) /\ Cardinality(Existing(object)) = 0
    BY <2>1, FS_EmptySet, Zenon
  <2> QED
    BY <1>1, <2>2, EntityNames DEF Counting
<1>4. Len(operations) = 0 /\ operations \in Seq(Operation)
  BY <1>1
<1>5. Holding(operations, holds)
  <2>1. \A c : Picks(operations, HoldsOf(c)) = {}
    BY <1>4 DEF Picks
  <2>2. \A c : Cardinality(Picks(operations, HoldsOf(c))) = 0
    BY <2>1, FS_EmptySet, Zenon
  <2>3. holds \in [Entities!Counters -> 0..HoldLimit] /\ \A c \in Entities!Counters : holds[c] = 0
    BY <1>1, EntityNames
  <2> QED
    BY <1>4, <2>2, <2>3 DEF Holding
<1>6. BeingMade(operations, object)
  BY <1>1, <1>4 DEF BeingMade
<1> QED
  BY <1>2, <1>3, <1>5, <1>6 DEF OInv

LEMMA EntitiesStep == OInv /\ [Entities!Next]_entities => OInv'
<1> SUFFICES ASSUME OInv, [Entities!Next]_entities PROVE OInv'
  OBVIOUS
<1>1. CASE UNCHANGED entities
  BY <1>1 DEF OInv, entities
<1>2. ASSUME NEW o \in Objects, NEW n \in Numbers \cup {None}, Entities!Create(o, n) PROVE OInv'
  BY <1>2, CreateStep
<1>3. ASSUME NEW o \in Objects, NEW n \in Numbers, Entities!Find(o, n) PROVE OInv'
  BY <1>3, FindStep
<1>4. ASSUME NEW o \in Objects, Entities!Close(o) PROVE OInv'
  BY <1>4, CloseStep
<1>5. ASSUME NEW o \in Objects,
             \/ Entities!SetKey(o) \/ Entities!Spawn(o) \/ Entities!Write(o) \/ Entities!Tool(o)
             \/ \E others \in SUBSET Objects : Entities!Input(o, others)
      PROVE  OInv'
  <2>1. \E op \in Entities!Operations, c \in Entities!Counters, others \in SUBSET Objects :
           Entities!Start(op, c, o, others)
    <3>1. {} \in SUBSET Objects
      OBVIOUS
    <3> QED
      BY <1>5, <3>1, EntityNames DEF Entities!SetKey, Entities!Spawn, Entities!Write, Entities!Tool, Entities!Input,
         Entities!Operations
  <2> QED
    BY <2>1, StartStep
<1>6. ASSUME NEW n \in Numbers, Entities!Validate(n) \/ Entities!Spawned(n) \/ Entities!Disappear(n) PROVE OInv'
  BY <1>6, ValidateStep, GameStep
<1>7. CASE Entities!Take
  BY <1>7, TakeStep
<1>8. CASE Entities!Abandon
  BY <1>8, AbandonStep
<1>9. CASE Entities!Released \/ Entities!Return
  BY <1>9, ReleasedStep
<1> QED
  BY <1>1, <1>2, <1>3, <1>4, <1>5, <1>6, <1>7, <1>8, <1>9 DEF Entities!Next

\* A set with at most one element.
LEMMA OneOrNone ==
    ASSUME NEW S, \A a, b \in S : a = b
    PROVE  IsFiniteSet(S) /\ Cardinality(S) = IF S = {} THEN 0 ELSE 1
<1>1. CASE S = {}
  BY <1>1, FS_EmptySet
<1>2. CASE S # {}
  <2>1. PICK a : S = {a}
    BY <1>2
  <2> QED
    BY <1>2, <2>1, FS_Singleton
<1> QED
  BY <1>1, <1>2

LEMMA EntitiesKept == OInv => Entities!HandlesOwned
<1> SUFFICES ASSUME OInv PROVE Entities!HandlesOwned
  OBVIOUS
<1> DEFINE Holders(n) == {o \in Objects : object[o] # None /\ object[o].handle = n}
<1>1. Lending(lent, object) /\ Counting(object, count) /\ Holding(operations, holds) /\ BeingMade(operations, object)
  BY DEF OInv
<1>2. ASSUME NEW n \in Numbers PROVE Cardinality(Holders(n)) = IF lent[n] = "free" THEN 0 ELSE 1
  <2>1. \A o, p \in Holders(n) : o = p
    BY <1>1 DEF Lending
  <2>2. lent[n] = "free" <=> Holders(n) = {}
    BY <1>1 DEF Lending
  <2> HIDE DEF Holders
  <2> QED
    BY <2>1, <2>2, OneOrNone
<1>3. count = Cardinality({o \in Objects : Entities!Exists(o)}) /\ count <= CountLimit
  BY <1>1 DEF Counting, Existing, Entities!Exists
<1>4. DOMAIN operations = 1..Len(operations) /\ \A k \in 1..Len(operations) : operations[k] \in Operation
  BY <1>1 DEF Holding
<1>5. ASSUME NEW c \in Entities!Counters
      PROVE  holds[c] = Cardinality({k \in DOMAIN operations : operations[k].hold = c}) /\ holds[c] <= HoldLimit
  <2>1. Picks(operations, HoldsOf(c)) = {k \in DOMAIN operations : operations[k].hold = c}
    BY <1>4 DEF Picks, HoldsOf
  <2>2. holds[c] \in 0..HoldLimit /\ holds[c] = Cardinality(Picks(operations, HoldsOf(c)))
    BY <1>1 DEF Holding
  <2>3. holds[c] <= HoldLimit
    BY <2>2, EntityNames
  <2> QED
    BY <2>1, <2>2, <2>3, Zenon
<1>6. ASSUME NEW o \in Objects, object[o] # None, object[o].at = "native"
      PROVE  \E k \in DOMAIN operations : operations[k].object = o /\ operations[k].op \in {"create", "adopt"}
  BY <1>1, <1>4, <1>6 DEF BeingMade, Making
<1> QED
  BY <1>2, <1>3, <1>5, <1>6, EntityLists DEF Entities!HandlesOwned, Entities!Exists

\* For all objects, handles and limits, however scripts nest in the calls of the host:
\* each handle that the host lent is one object's, and the counters count (Entity).
THEOREM EntitiesOwned == Entities!Spec => []Entities!HandlesOwned
<1>1. OInv /\ [Entities!Next]_(Entities!vars) => OInv'
  BY EntitiesStep DEF Entities!vars, entities
<1> QED
  BY <1>1, EntitiesBegin, EntitiesKept, PTL DEF Entities!Spec

-----------------------------------------------------------------------------
(* ExtensionCalls: what the scripts, the tokens and the leases are.        *)

Views == [script : [Scripts -> Script], callbacks : [Tokens -> Callback \cup {None}],
          resources : [Resources -> Resource \cup {None}], leased : SUBSET Exts, late : SUBSET Resources]

\* A script uses the extension of what it holds.
Backed(v, c) == \E r \in v.script[c.script].bound : ExtOf[r] = c.ext

TokensMatch(v) ==
    \A p \in Scripts, t \in Tokens : t \in v.script[p].tokens <=> v.callbacks[t] # None /\ v.callbacks[t].script = p
TokensBacked(v) == \A t \in Tokens : v.callbacks[t] # None => Backed(v, v.callbacks[t])
HandlesBacked(v) == \A h \in Resources : v.resources[h] # None => Backed(v, v.resources[h])
Leasing(v) ==
    \A e \in Exts : e \in v.leased <=> \E p \in Scripts : \E r \in v.script[p].bound : ExtOf[r] = e
Binding(v, reg) ==
    \A p \in Scripts : v.script[p].bound \subseteq reg /\ (v.script[p].state = "Absent" => v.script[p].bound = {})

Good(v, reg) ==
    /\ v \in Views /\ v.late = {}
    /\ TokensMatch(v) /\ TokensBacked(v) /\ HandlesBacked(v) /\ Leasing(v) /\ Binding(v, reg)

LEMMA Limits ==
    /\ ExtOf \in [Natives -> Exts] /\ Uses \in [Scripts -> SUBSET Natives]
    /\ Depth \in Nat /\ FaultLimit \in Nat \ {0} /\ MaxTokens \in Nat /\ MaxResources \in Nat /\ MaxStack \in Nat
    /\ IsFiniteSet(Scripts) /\ IsFiniteSet(Natives) /\ None \notin Callback /\ None \notin Resource
    /\ Gone \in Script
BY CallsAssumption, NamesAssumption DEF Gone, Script

LEMMA ViewFields ==
    ASSUME NEW v \in Views
    PROVE  /\ v.script \in [Scripts -> Script] /\ v.callbacks \in [Tokens -> Callback \cup {None}]
           /\ v.resources \in [Resources -> Resource \cup {None}] /\ v.leased \subseteq Exts /\ v.late \subseteq Resources
           /\ \A p \in Scripts : /\ v.script[p] \in Script /\ v.script[p].bound \subseteq Natives
                                 /\ v.script[p].tokens \subseteq Tokens
           /\ \A t \in Tokens : v.callbacks[t] # None => v.callbacks[t] \in Callback /\ v.callbacks[t].script \in Scripts
                                                         /\ v.callbacks[t].ext \in Exts
           /\ \A h \in Resources : v.resources[h] # None => v.resources[h] \in Resource /\ v.resources[h].script \in Scripts
                                                            /\ v.resources[h].ext \in Exts
<1>1. /\ v.script \in [Scripts -> Script] /\ v.callbacks \in [Tokens -> Callback \cup {None}]
      /\ v.resources \in [Resources -> Resource \cup {None}] /\ v.leased \subseteq Exts /\ v.late \subseteq Resources
  BY DEF Views
<1>2. \A p \in Scripts : /\ v.script[p] \in Script /\ v.script[p].bound \subseteq Natives
                         /\ v.script[p].tokens \subseteq Tokens
  BY <1>1 DEF Script
<1>3. \A t \in Tokens : v.callbacks[t] # None => v.callbacks[t] \in Callback /\ v.callbacks[t].script \in Scripts
                                                 /\ v.callbacks[t].ext \in Exts
  BY <1>1 DEF Callback
<1>4. \A h \in Resources : v.resources[h] # None => v.resources[h] \in Resource /\ v.resources[h].script \in Scripts
                                                    /\ v.resources[h].ext \in Exts
  BY <1>1 DEF Resource
<1> QED
  BY <1>1, <1>2, <1>3, <1>4

\* The views that differ in one script only.
WithScript(v, p, s) == [v EXCEPT !.script = [v.script EXCEPT ![p] = s]]
Sets(v, w, p, s) == v \in Views /\ p \in Scripts /\ s \in Script /\ w = WithScript(v, p, s)
Rewrites(v, w, p, s) ==
    /\ w \in Views /\ w.callbacks = v.callbacks /\ w.resources = v.resources /\ w.leased = v.leased
    /\ w.late = v.late /\ w.script = [v.script EXCEPT ![p] = s]
    /\ w.script[p] = s /\ \A q \in Scripts \ {p} : w.script[q] = v.script[q]

Edited(v, w, p, s) ==
    /\ p \in Scripts /\ w \in Views
    /\ w.callbacks = v.callbacks /\ w.resources = v.resources /\ w.leased = v.leased /\ w.late = v.late
    /\ w.script[p] = s /\ \A q \in Scripts \ {p} : w.script[q] = v.script[q]
    /\ s.bound = v.script[p].bound /\ s.tokens = v.script[p].tokens
    /\ s.state = "Absent" => s.bound = {}

LEMMA ScriptChanged ==
    ASSUME NEW v, NEW reg, Good(v, reg), NEW p, NEW s, NEW w, Edited(v, w, p, s)
    PROVE  Good(w, reg)
<1> USE DEF Edited
<1>1. \A q \in Scripts : w.script[q].bound = v.script[q].bound /\ w.script[q].tokens = v.script[q].tokens
  OBVIOUS
<1>2. TokensMatch(w)
  BY <1>1 DEF Good, TokensMatch
<1>3. TokensBacked(w) /\ HandlesBacked(w)
  BY <1>1, ViewFields DEF Good, TokensBacked, HandlesBacked, Backed
<1>4. Leasing(w) /\ Binding(w, reg)
  BY <1>1 DEF Good, Leasing, Binding
<1> QED
  BY <1>2, <1>3, <1>4 DEF Good

\* Two views differ, besides their tables, in the script p only, which keeps its state
\* and its calls, or is released.
Apart(v, w, p) ==
    /\ \A q \in Scripts \ {p} : w.script[q] = v.script[q]
    /\ w.script[p].active = v.script[p].active /\ w.script[p].state = v.script[p].state

LEMMA CancelledView ==
    ASSUME NEW v, NEW reg, Good(v, reg), NEW p \in Scripts
    PROVE  LET w == Cancelled(v, p)
           IN  /\ Good(w, reg) /\ Apart(v, w, p) /\ w.script[p].tokens = {}
               /\ w.script[p].bound = v.script[p].bound
               /\ \A t \in Tokens : w.callbacks[t] \in {v.callbacks[t], None}
<1>1. v \in Views /\ v.script[p] \in Script /\ {} \in SUBSET Tokens
  BY ViewFields DEF Good
<1>2. PICK s \in Script : /\ s = [v.script[p] EXCEPT !.tokens = {}] /\ s.tokens = {}
                          /\ s.bound = v.script[p].bound /\ s.state = v.script[p].state /\ s.active = v.script[p].active
  <2>1. PICK o : o = [v.script[p] EXCEPT !.tokens = {}]
    OBVIOUS
  <2>2. o \in Script /\ o.tokens = {} /\ o.bound = v.script[p].bound /\ o.state = v.script[p].state
        /\ o.active = v.script[p].active
    BY <1>1, <2>1 DEF Script
  <2> QED
    BY <2>1, <2>2
<1>3. PICK cb : cb = [t \in Tokens |-> IF t \in v.script[p].tokens THEN None ELSE v.callbacks[t]]
  OBVIOUS
<1>4. cb \in [Tokens -> Callback \cup {None}]
  BY <1>1, <1>3, ViewFields
<1>5. PICK w : w = Cancelled(v, p)
  OBVIOUS
<1>6. w = [v EXCEPT !.callbacks = cb, !.script = [v.script EXCEPT ![p] = s]]
  BY <1>1, <1>2, <1>3, <1>5 DEF Cancelled, Views
<1>7. /\ w \in Views /\ w.callbacks = cb /\ w.resources = v.resources /\ w.leased = v.leased /\ w.late = v.late
      /\ w.script[p] = s /\ \A q \in Scripts \ {p} : w.script[q] = v.script[q]
  <2>1. PICK sc \in [Scripts -> Script] : sc = [v.script EXCEPT ![p] = s]
    BY <1>1, <1>2 DEF Views
  <2>2. w \in Views /\ w.callbacks = cb /\ w.resources = v.resources /\ w.leased = v.leased /\ w.late = v.late /\ w.script = sc
    BY <1>1, <1>4, <1>6, <2>1 DEF Views
  <2>3. sc[p] = s /\ \A q \in Scripts \ {p} : sc[q] = v.script[q]
    BY <1>1, <2>1 DEF Views
  <2> QED
    BY <2>2, <2>3
<1>8. \A t \in Tokens : w.callbacks[t] = IF v.callbacks[t] # None /\ v.callbacks[t].script = p THEN None ELSE v.callbacks[t]
  BY <1>3, <1>7 DEF Good, TokensMatch
<1>9. \A q \in Scripts : w.script[q].bound = v.script[q].bound /\ w.script[q].state = v.script[q].state
  BY <1>2, <1>7
<1>10. TokensMatch(w)
  <2>1. ASSUME NEW q \in Scripts, NEW t \in Tokens
        PROVE  t \in w.script[q].tokens <=> w.callbacks[t] # None /\ w.callbacks[t].script = q
    <3>1. t \in v.script[q].tokens <=> v.callbacks[t] # None /\ v.callbacks[t].script = q
      BY DEF Good, TokensMatch
    <3>2. CASE q = p
      BY <1>2, <1>7, <1>8, <3>2
    <3>3. CASE q # p
      BY <1>7, <1>8, <3>1, <3>3
    <3> QED
      BY <3>2, <3>3
  <2> QED
    BY <2>1 DEF TokensMatch
<1>11. TokensBacked(w)
  BY <1>1, <1>8, <1>9, ViewFields DEF Good, TokensBacked, Backed
<1>12. HandlesBacked(w)
  BY <1>1, <1>7, <1>9, ViewFields DEF Good, HandlesBacked, Backed
<1>13. Leasing(w) /\ Binding(w, reg)
  BY <1>7, <1>9 DEF Good, Leasing, Binding
<1>14. Good(w, reg) /\ Apart(v, w, p)
  BY <1>2, <1>7, <1>10, <1>11, <1>12, <1>13 DEF Good, Apart
<1>15. \A t \in Tokens : w.callbacks[t] \in {v.callbacks[t], None}
  BY <1>8
<1>16. w.script[p].tokens = {} /\ w.script[p].bound = v.script[p].bound
  BY <1>2, <1>7
<1> QED
  BY <1>5, <1>14, <1>15, <1>16

\* The destroy functions run while their extensions are leased.
LEMMA RetiredView ==
    ASSUME NEW v, NEW reg, Good(v, reg), NEW p \in Scripts
    PROVE  LET w == Retire(v, p)
           IN  /\ Good(w, reg) /\ w.script = v.script /\ w.callbacks = v.callbacks /\ w.leased = v.leased
               /\ \A h \in Resources : w.resources[h] # None => w.resources[h].script # p
<1>1. v \in Views
  BY DEF Good
<1>2. {h \in Mine(v, p) : v.resources[h].ext \notin v.leased} = {}
  <2>1. ASSUME NEW h \in Resources, v.resources[h] # None PROVE v.resources[h].ext \in v.leased
    <3>1. Backed(v, v.resources[h]) /\ v.resources[h].script \in Scripts /\ v.resources[h].ext \in Exts
      BY <1>1, <2>1, ViewFields DEF Good, HandlesBacked
    <3> QED
      BY <3>1 DEF Good, Leasing, Backed
  <2> QED
    BY <2>1 DEF Mine
<1>3. PICK rs : rs = [h \in Resources |-> IF h \in Mine(v, p) THEN None ELSE v.resources[h]]
  OBVIOUS
<1>4. rs \in [Resources -> Resource \cup {None}]
  BY <1>1, <1>3, ViewFields
<1>5. PICK w : w = Retire(v, p)
  OBVIOUS
<1>6. w = [v EXCEPT !.resources = rs, !.late = v.late \cup {}]
  BY <1>1, <1>2, <1>3, <1>5 DEF Retire, Views
<1>7. /\ w \in Views /\ w.resources = rs /\ w.script = v.script /\ w.callbacks = v.callbacks
      /\ w.leased = v.leased /\ w.late = v.late
  <2>1. v.late \cup {} = v.late
    OBVIOUS
  <2> QED
    BY <1>1, <1>4, <1>6, <2>1 DEF Views
<1>8. \A h \in Resources : w.resources[h] = IF v.resources[h] # None /\ v.resources[h].script = p THEN None ELSE v.resources[h]
  BY <1>3, <1>7 DEF Mine
<1>9. HandlesBacked(w)
  BY <1>7, <1>8 DEF Good, HandlesBacked, Backed
<1>10. TokensMatch(w) /\ TokensBacked(w) /\ Leasing(w) /\ Binding(w, reg)
  BY <1>7 DEF Good, TokensMatch, TokensBacked, Leasing, Binding, Backed
<1>11. Good(w, reg)
  BY <1>7, <1>9, <1>10 DEF Good
<1>12. \A h \in Resources : w.resources[h] # None => w.resources[h].script # p
  BY <1>8
<1> QED
  BY <1>5, <1>7, <1>11, <1>12

\* Nobody uses a service exactly when no script is bound to one of its natives.
LEMMA NoUsers ==
    ASSUME NEW s, NEW r \in Natives
    PROVE  ServiceUsers(s, r) = 0 <=> \A q \in Scripts, x \in Natives : ExtOf[x] = ExtOf[r] => x \notin s[q].bound
<1> DEFINE B == {b \in Scripts \X Natives : ExtOf[b[2]] = ExtOf[r] /\ b[2] \in s[b[1]].bound}
<1>1. IsFiniteSet(Scripts \X Natives)
  BY Limits, FS_Product
<1>2. IsFiniteSet(B)
  BY <1>1, FS_Subset
<1>3. Cardinality(B) = 0 <=> B = {}
  BY <1>2, FS_EmptySet
<1>4. B = {} <=> \A q \in Scripts, x \in Natives : ExtOf[x] = ExtOf[r] => x \notin s[q].bound
  <2>1. ASSUME B = {}, NEW q \in Scripts, NEW x \in Natives, ExtOf[x] = ExtOf[r] PROVE x \notin s[q].bound
    <3>1. <<q, x>> \in Scripts \X Natives /\ <<q, x>>[1] = q /\ <<q, x>>[2] = x
      OBVIOUS
    <3>2. <<q, x>> \notin B
      BY <2>1
    <3> QED
      BY <2>1, <3>1, <3>2
  <2>2. ASSUME \A q \in Scripts, x \in Natives : ExtOf[x] = ExtOf[r] => x \notin s[q].bound
        PROVE  B = {}
    BY <2>2
  <2> QED
    BY <2>1, <2>2
<1> QED
  BY <1>3, <1>4 DEF ServiceUsers

\* The last user of a service gives its lease back, when it holds nothing of it.
LEMMA UnboundView ==
    ASSUME NEW v, NEW reg, Good(v, reg), NEW p \in Scripts, v.script[p].tokens = {},
           \A h \in Resources : v.resources[h] # None => v.resources[h].script # p,
           NEW kept \in SUBSET v.script[p].bound
    PROVE  LET w == Unbound(v, p, kept)
           IN  Good(w, reg) /\ Apart(v, w, p) /\ w.callbacks = v.callbacks /\ w.script[p].bound = kept
               /\ w.script[p].tokens = {}
<1>1. v \in Views /\ v.script[p] \in Script /\ kept \in SUBSET Natives /\ v.script[p].bound \subseteq Natives
  BY ViewFields DEF Good
<1>2. PICK s \in Script : /\ s = [v.script[p] EXCEPT !.bound = kept] /\ s.bound = kept
                          /\ s.tokens = v.script[p].tokens /\ s.state = v.script[p].state /\ s.active = v.script[p].active
  <2>1. PICK o : o = [v.script[p] EXCEPT !.bound = kept]
    OBVIOUS
  <2>2. o \in Script /\ o.bound = kept /\ o.tokens = v.script[p].tokens /\ o.state = v.script[p].state
        /\ o.active = v.script[p].active
    BY <1>1, <2>1 DEF Script
  <2> QED
    BY <2>1, <2>2
<1>3. PICK after \in [Scripts -> Script] : after = [v.script EXCEPT ![p] = s]
  BY <1>1, <1>2 DEF Views
<1>4. after[p] = s /\ \A q \in Scripts \ {p} : after[q] = v.script[q]
  BY <1>1, <1>3 DEF Views
<1>5. PICK gone : gone = {ExtOf[r] : r \in {r \in v.script[p].bound \ kept : ServiceUsers(after, r) = 0}}
  OBVIOUS
<1>6. PICK w : w = Unbound(v, p, kept)
  OBVIOUS
<1>7. w = [v EXCEPT !.script = after, !.leased = v.leased \ gone]
  <2>1. after = [v.script EXCEPT ![p].bound = kept]
    BY <1>1, <1>2, <1>3 DEF Views
  <2> QED
    BY <1>1, <1>5, <1>6, <2>1 DEF Unbound, Views
<1>8. /\ w \in Views /\ w.script = after /\ w.callbacks = v.callbacks /\ w.resources = v.resources
      /\ w.late = v.late /\ w.leased = v.leased \ gone
  BY <1>1, <1>7 DEF Views
<1>9. Leasing(w)
  <2>1. ASSUME NEW e \in w.leased, e \in Exts PROVE \E q \in Scripts : \E r \in after[q].bound : ExtOf[r] = e
    <3>1. PICK q \in Scripts, r \in Natives : r \in v.script[q].bound /\ ExtOf[r] = e
      BY <1>1, <1>8, <2>1, ViewFields DEF Good, Leasing
    <3>2. CASE q # p \/ r \in kept
      BY <1>2, <1>4, <3>1, <3>2
    <3>3. CASE q = p /\ r \notin kept
      <4>1. ServiceUsers(after, r) # 0
        BY <1>1, <1>5, <1>8, <2>1, <3>1, <3>3
      <4>2. PICK x \in Scripts, y \in Natives : ExtOf[y] = ExtOf[r] /\ y \in after[x].bound
        BY <4>1, NoUsers
      <4> QED
        BY <3>1, <4>2
    <3> QED
      BY <3>2, <3>3
  <2>2. ASSUME NEW e \in Exts, NEW q \in Scripts, NEW r, r \in after[q].bound, ExtOf[r] = e PROVE e \in w.leased
    <3>1. r \in v.script[q].bound /\ r \in Natives
      BY <1>1, <1>2, <1>4, <2>2, ViewFields
    <3>2. e \in v.leased
      BY <2>2, <3>1 DEF Good, Leasing
    <3>3. ASSUME NEW y \in v.script[p].bound \ kept, ServiceUsers(after, y) = 0, ExtOf[y] = e PROVE FALSE
      BY <1>1, <2>2, <3>1, <3>3, NoUsers
    <3>4. e \notin gone
      BY <1>5, <3>3
    <3> QED
      BY <1>8, <3>2, <3>4
  <2> QED
    BY <1>8, <2>1, <2>2 DEF Leasing
<1>10. \A q \in Scripts : after[q].tokens = v.script[q].tokens
  BY <1>2, <1>4
<1>11. TokensMatch(w)
  BY <1>8, <1>10 DEF Good, TokensMatch
<1>12. TokensBacked(w)
  <2>1. \A t \in Tokens : v.callbacks[t] # None => v.callbacks[t].script \in Scripts \ {p}
    BY <1>1, ViewFields DEF Good, TokensMatch
  <2> QED
    BY <1>4, <1>8, <2>1 DEF Good, TokensBacked, Backed
<1>13. HandlesBacked(w)
  <2>1. \A h \in Resources : v.resources[h] # None => v.resources[h].script \in Scripts \ {p}
    BY <1>1, ViewFields
  <2> QED
    BY <1>4, <1>8, <2>1 DEF Good, HandlesBacked, Backed
<1>14. Binding(w, reg)
  <2>1. \A q \in Scripts : w.script[q].bound \subseteq v.script[q].bound /\ w.script[q].state = v.script[q].state
    BY <1>2, <1>4, <1>8
  <2> QED
    BY <2>1 DEF Good, Binding
<1> QED
  BY <1>2, <1>4, <1>6, <1>8, <1>9, <1>11, <1>12, <1>13, <1>14 DEF Good, Apart

\* A script that holds and uses nothing is released.
LEMMA GoneView ==
    ASSUME NEW v, NEW reg, Good(v, reg), NEW p \in Scripts, v.script[p].tokens = {}, v.script[p].bound = {}
    PROVE  LET w == [v EXCEPT !.script[p] = Gone]
           IN  /\ Good(w, reg) /\ w.callbacks = v.callbacks /\ w.script[p] = Gone
               /\ \A q \in Scripts \ {p} : w.script[q] = v.script[q]
<1>1. v \in Views
  BY DEF Good
<1>2. PICK w : w = [v EXCEPT !.script[p] = Gone]
  OBVIOUS
<1>3. /\ w \in Views /\ w.callbacks = v.callbacks /\ w.resources = v.resources /\ w.leased = v.leased /\ w.late = v.late
      /\ w.script[p] = Gone /\ \A q \in Scripts \ {p} : w.script[q] = v.script[q]
  <2>1. PICK sc \in [Scripts -> Script] : sc = [v.script EXCEPT ![p] = Gone]
    BY <1>1, Limits DEF Views
  <2>2. sc[p] = Gone /\ \A q \in Scripts \ {p} : sc[q] = v.script[q]
    BY <1>1, <2>1 DEF Views
  <2>3. w = [v EXCEPT !.script = sc]
    BY <1>1, <1>2, <2>1 DEF Views
  <2> QED
    BY <1>1, <2>1, <2>2, <2>3 DEF Views
<1>4. Gone.tokens = {} /\ Gone.bound = {}
  BY DEF Gone
<1>5. Good(w, reg)
  <2>1. Edited(v, w, p, Gone)
    BY <1>3, <1>4 DEF Edited
  <2> QED
    BY <2>1, ScriptChanged
<1> QED
  BY <1>2, <1>3, <1>5

\* Cleanup leaves a good view, and only the script that it cleans up differs.
LEMMA CleanedView ==
    ASSUME NEW v, NEW reg, Good(v, reg), NEW p \in Scripts, v.script[p].active = 0, NEW w \in Cleaned(v, p)
    PROVE  /\ Good(w, reg) /\ w.script[p].active = 0
           /\ \A q \in Scripts \ {p} : w.script[q] = v.script[q]
           /\ w.script[p] = Gone \/ w.script[p].state = v.script[p].state
           /\ \A t \in Tokens : w.callbacks[t] \in {v.callbacks[t], None}
<1>1. PICK c : c = Cancelled(v, p)
  OBVIOUS
<1>2. /\ Good(c, reg) /\ Apart(v, c, p) /\ c.script[p].tokens = {} /\ c.script[p].bound = v.script[p].bound
      /\ \A t \in Tokens : c.callbacks[t] \in {v.callbacks[t], None}
  BY <1>1, CancelledView
<1>3. CASE w = c
  BY <1>2, <1>3 DEF Apart
<1>4. ASSUME NEW x \in Released(c, p), w = IF x.script[p].bound = {} THEN [x EXCEPT !.script[p] = Gone] ELSE x
      PROVE  /\ Good(w, reg) /\ w.script[p].active = 0
             /\ \A q \in Scripts \ {p} : w.script[q] = v.script[q]
             /\ w.script[p] = Gone \/ w.script[p].state = v.script[p].state
             /\ \A t \in Tokens : w.callbacks[t] \in {v.callbacks[t], None}
  <2>1. PICK kept \in SUBSET c.script[p].bound : x = Unbound(Retire(c, p), p, kept)
    BY <1>4 DEF Released, MayKeep
  <2>2. PICK d : d = Retire(c, p)
    OBVIOUS
  <2>3. /\ Good(d, reg) /\ d.script = c.script /\ d.callbacks = c.callbacks
        /\ \A h \in Resources : d.resources[h] # None => d.resources[h].script # p
    BY <1>2, <2>2, RetiredView
  <2>4. Good(x, reg) /\ Apart(d, x, p) /\ x.callbacks = c.callbacks /\ x.script[p].tokens = {}
    BY <1>2, <2>1, <2>2, <2>3, UnboundView
  <2>5. /\ \A q \in Scripts \ {p} : x.script[q] = v.script[q]
        /\ x.script[p].active = 0 /\ x.script[p].state = v.script[p].state
    BY <1>2, <2>3, <2>4 DEF Apart
  <2>6. CASE x.script[p].bound # {}
    BY <1>2, <1>4, <2>4, <2>5, <2>6
  <2>7. CASE x.script[p].bound = {}
    <3>1. w = [x EXCEPT !.script[p] = Gone]
      BY <1>4, <2>7
    <3>2. /\ Good(w, reg) /\ w.callbacks = x.callbacks /\ w.script[p] = Gone
          /\ \A q \in Scripts \ {p} : w.script[q] = x.script[q]
      BY <2>4, <2>7, <3>1, GoneView
    <3> QED
      BY <1>2, <2>4, <2>5, <3>2 DEF Gone
  <2> QED
    BY <2>6, <2>7
<1> QED
  BY <1>1, <1>3, <1>4 DEF Cleaned

-----------------------------------------------------------------------------
(* ExtensionCalls: the stack.                                              *)

Manages(f) == f.kind \in {"start", "stop"}
HasToken(f) == f.kind \in {"once", "token"}

CallsOf(p) == {f \in Frame : IsScript(f) /\ f.script = p}
RunsOf(r) == {f \in Frame : f.kind = "native" /\ f.native = r}
Retained == {f \in Frame : f.kind = "token"}

\* What a call needs when it is returned to.
ReturnsTo(s, f, tk) ==
    /\ s[f.script].state # "Absent"
    /\ f.kind = "native" => f.native \in s[f.script].bound
    /\ f.kind = "start" => s[f.script].state = "Loading"
    /\ f.kind = "stop" => s[f.script].state = "Retiring"
    /\ HasToken(f) => f.token <= tk

Returnable(s, q, tk) == \A i \in 1..Len(q) : ReturnsTo(s, q[i], tk)

\* A native was called by the script below it.
Nested(q) ==
    \A i \in 1..Len(q) : ~IsScript(q[i]) => i > 1 /\ IsScript(q[i - 1]) /\ q[i - 1].script = q[i].script

\* OnPluginStart and OnPluginStop are the only calls into their script.
Alone(q) ==
    \A i, j \in 1..Len(q) : Manages(q[i]) /\ IsScript(q[j]) /\ q[i].script = q[j].script => i = j

Counted(s, q, na, d) ==
    /\ \A p \in Scripts : s[p].active = Cardinality(Picks(q, CallsOf(p)))
    /\ na \in [Natives -> Nat] /\ \A r \in Natives : na[r] = Cardinality(Picks(q, RunsOf(r)))
    /\ d = Cardinality(Picks(q, Retained))

CStack(s, q, na, d, tk) ==
    /\ q \in Seq(Frame) /\ Len(q) <= MaxStack
    /\ Returnable(s, q, tk) /\ Nested(q) /\ Alone(q) /\ Counted(s, q, na, d)

LEMMA FrameFields ==
    ASSUME NEW f \in Frame
    PROVE  /\ f.script \in Scripts
           /\ f.kind \in {"start", "stop", "call", "core", "once", "token", "native"}
           /\ f.kind = "native" => f.native \in Natives
           /\ HasToken(f) => f.token \in Tokens
           /\ Manages(f) \/ HasToken(f) => IsScript(f)
BY DEF Frame, HasToken, Manages, IsScript

\* The scripts change, but for what the calls need.
LEMMA StackStays ==
    ASSUME NEW s, NEW q, NEW na, NEW d, NEW tk, CStack(s, q, na, d, tk), NEW z, NEW tl,
           \A i \in 1..Len(q) : ReturnsTo(z, q[i], tl),
           \A p \in Scripts : z[p].active = s[p].active
    PROVE  CStack(z, q, na, d, tl)
BY DEF CStack, Returnable, Counted

\* A script that is not active is nowhere on the stack.
LEMMA Inactive ==
    ASSUME NEW s, NEW q, NEW na, NEW d, NEW tk, CStack(s, q, na, d, tk), NEW p \in Scripts, s[p].active = 0
    PROVE  \A i \in 1..Len(q) : q[i].script # p
<1>1. q \in Seq(Frame) /\ Len(q) \in Nat /\ \A i \in 1..Len(q) : q[i] \in Frame
  BY DEF CStack
<1>2. Cardinality(Picks(q, CallsOf(p))) = 0
  BY DEF CStack, Counted
<1>3. \A i \in 1..Len(q) : q[i] \notin CallsOf(p)
  BY <1>1, <1>2, PicksCount
<1>4. \A i \in 1..Len(q) : IsScript(q[i]) => q[i].script # p
  BY <1>1, <1>3 DEF CallsOf
<1>5. ASSUME NEW i \in 1..Len(q), ~IsScript(q[i]) PROVE q[i].script # p
  <2>1. i - 1 \in 1..Len(q) /\ IsScript(q[i - 1]) /\ q[i - 1].script = q[i].script
    BY <1>1, <1>5 DEF CStack, Nested
  <2> QED
    BY <1>4, <2>1
<1> QED
  BY <1>4, <1>5

\* When OnPluginStart or OnPluginStop is on top, its script is nowhere below.
LEMMA TopManages ==
    ASSUME NEW q \in Seq(Frame), Nested(q), Alone(q), q # <<>>, Manages(Last(q))
    PROVE  \A i \in 1..Len(Front(q)) : Front(q)[i].script # Last(q).script
<1>1. /\ Len(q) \in Nat \ {0} /\ Last(q) = q[Len(q)] /\ Last(q) \in Frame /\ Len(Front(q)) = Len(q) - 1
      /\ \A i \in 1..Len(q) - 1 : Front(q)[i] = q[i]
      /\ \A i \in 1..Len(q) : q[i] \in Frame
  BY Unwound
<1>2. \A i \in 1..Len(q) - 1 : IsScript(q[i]) => q[i].script # Last(q).script
  BY <1>1 DEF Alone
<1>3. ASSUME NEW i \in 1..Len(q) - 1, ~IsScript(q[i]) PROVE q[i].script # Last(q).script
  <2>1. i - 1 \in 1..Len(q) - 1 /\ IsScript(q[i - 1]) /\ q[i - 1].script = q[i].script
    BY <1>1, <1>3 DEF Nested
  <2> QED
    BY <1>2, <2>1
<1> QED
  BY <1>1, <1>2, <1>3

\* A call into a script begins.
Enters(s, q, d, tk, f, z, e) ==
    /\ Len(q) < MaxStack /\ f \in Frame /\ IsScript(f)
    /\ \A i \in 1..Len(q) : q[i].script = f.script => ~Manages(q[i]) /\ ~Manages(f)
    /\ ReturnsTo(z, f, tk) /\ \A i \in 1..Len(q) : ReturnsTo(z, q[i], tk)
    /\ \A p \in Scripts : z[p].active = s[p].active + (IF p = f.script THEN 1 ELSE 0)
    /\ e = d + (IF f.kind = "token" THEN 1 ELSE 0)

LEMMA ScriptPushed ==
    ASSUME NEW s, NEW q, NEW na, NEW d, NEW tk, CStack(s, q, na, d, tk),
           NEW f, NEW z, NEW e, Enters(s, q, d, tk, f, z, e)
    PROVE  CStack(z, Append(q, f), na, e, tk)
<1> USE DEF Enters
<1>1. PICK y : y = Append(q, f)
  OBVIOUS
<1>2. /\ q \in Seq(Frame) /\ y \in Seq(Frame) /\ Len(y) = Len(q) + 1 /\ Len(q) \in Nat /\ y[Len(q) + 1] = f
      /\ \A k \in 1..Len(q) : y[k] = q[k] /\ q[k] \in Frame
      /\ \A S : Cardinality(Picks(y, S)) = Cardinality(Picks(q, S)) + (IF f \in S THEN 1 ELSE 0)
  BY <1>1, Appended DEF CStack
<1>3. Len(y) <= MaxStack
  BY <1>2, Limits
<1>4. Returnable(z, y, tk)
  BY <1>2 DEF Returnable
<1>5. Nested(y)
  BY <1>2 DEF CStack, Nested
<1>6. Alone(y)
  BY <1>2 DEF CStack, Alone
<1>7. \A p \in Scripts : f \in CallsOf(p) <=> f.script = p
  BY DEF CallsOf
<1>8. \A r \in Natives : f \notin RunsOf(r)
  BY DEF RunsOf, IsScript
<1>9. f \in Retained <=> f.kind = "token"
  BY DEF Retained
<1>10. \A p \in Scripts : z[p].active = Cardinality(Picks(y, CallsOf(p)))
  BY <1>2, <1>7 DEF CStack, Counted
<1>11. na \in [Natives -> Nat] /\ \A r \in Natives : na[r] = Cardinality(Picks(y, RunsOf(r)))
  <2>1. \A r \in Natives : Cardinality(Picks(q, RunsOf(r))) \in Nat
    BY <1>2, PicksCount
  <2> QED
    BY <1>2, <1>8, <2>1 DEF CStack, Counted
<1>12. e = Cardinality(Picks(y, Retained))
  BY <1>2, <1>9 DEF CStack, Counted
<1> QED
  BY <1>1, <1>2, <1>3, <1>4, <1>5, <1>6, <1>10, <1>11, <1>12 DEF CStack, Counted

\* A script calls a native.
LEMMA NativePushed ==
    ASSUME NEW s, NEW q, NEW na, NEW d, NEW tk, CStack(s, q, na, d, tk), Len(q) < MaxStack,
           q # <<>>, IsScript(Last(q)), NEW f \in Frame, ~IsScript(f), f.script = Last(q).script,
           f.kind = "native" => f.native \in s[f.script].bound,
           NEW nb, nb \in [Natives -> Nat],
           \A r \in Natives : nb[r] = na[r] + (IF f.kind = "native" /\ r = f.native THEN 1 ELSE 0)
    PROVE  CStack(s, Append(q, f), nb, d, tk)
<1>1. PICK y : y = Append(q, f)
  OBVIOUS
<1>2. /\ q \in Seq(Frame) /\ y \in Seq(Frame) /\ Len(y) = Len(q) + 1 /\ Len(q) \in Nat /\ y[Len(q) + 1] = f
      /\ \A k \in 1..Len(q) : y[k] = q[k] /\ q[k] \in Frame
      /\ \A S : Cardinality(Picks(y, S)) = Cardinality(Picks(q, S)) + (IF f \in S THEN 1 ELSE 0)
  BY <1>1, Appended DEF CStack
<1>3. Len(q) \in Nat \ {0} /\ Last(q) = q[Len(q)]
  BY <1>2, Unwound
<1>4. Len(y) <= MaxStack
  BY <1>2, Limits
<1>5. ~Manages(f) /\ ~HasToken(f) /\ f.kind # "start" /\ f.kind # "stop" /\ f.kind # "token"
  BY DEF Manages, HasToken, IsScript
<1>6. s[f.script].state # "Absent"
  BY <1>3 DEF CStack, Returnable, ReturnsTo
<1>7. Returnable(s, y, tk)
  <2>1. ReturnsTo(s, f, tk)
    BY <1>5, <1>6 DEF ReturnsTo
  <2> QED
    BY <1>2, <2>1 DEF CStack, Returnable
<1>8. Nested(y)
  BY <1>2, <1>3 DEF CStack, Nested
<1>9. Alone(y)
  BY <1>2, <1>5 DEF CStack, Alone
<1>10. /\ \A p \in Scripts : f \notin CallsOf(p)
       /\ \A r \in Natives : f \in RunsOf(r) <=> f.kind = "native" /\ r = f.native
       /\ f \notin Retained
  BY <1>5 DEF CallsOf, RunsOf, Retained
<1>11. \A S : Cardinality(Picks(q, S)) \in Nat
  BY <1>2, PicksCount
<1>12. \A r \in Natives : nb[r] = Cardinality(Picks(y, RunsOf(r)))
  BY <1>2, <1>10 DEF CStack, Counted
<1>13. \A p \in Scripts : s[p].active = Cardinality(Picks(y, CallsOf(p)))
  BY <1>2, <1>10, <1>11 DEF CStack, Counted
<1>14. d = Cardinality(Picks(y, Retained))
  BY <1>2, <1>10, <1>11 DEF CStack, Counted
<1> QED
  BY <1>1, <1>2, <1>4, <1>7, <1>8, <1>9, <1>12, <1>13, <1>14 DEF CStack, Counted

\* A call into a script ends.
Leaves(s, q, d, z, e, tl) ==
    /\ q # <<>> /\ IsScript(Last(q)) /\ \A i \in 1..Len(Front(q)) : ReturnsTo(z, Front(q)[i], tl)
    /\ \A p \in Scripts : z[p].active = s[p].active - (IF p = Last(q).script THEN 1 ELSE 0)
    /\ e = d - (IF Last(q).kind = "token" THEN 1 ELSE 0)

LEMMA ScriptPopped ==
    ASSUME NEW s, NEW q, NEW na, NEW d, NEW tk, CStack(s, q, na, d, tk),
           NEW z, NEW e, NEW tl, Leaves(s, q, d, z, e, tl)
    PROVE  CStack(z, Front(q), na, e, tl)
<1> USE DEF Leaves
<1>1. PICK y, f : y = Front(q) /\ f = Last(q)
  OBVIOUS
<1>2. /\ Len(q) \in Nat \ {0} /\ f = q[Len(q)] /\ f \in Frame /\ y \in Seq(Frame) /\ Len(y) = Len(q) - 1
      /\ \A k \in 1..Len(q) - 1 : y[k] = q[k]
      /\ \A S : Cardinality(Picks(y, S)) = Cardinality(Picks(q, S)) - (IF f \in S THEN 1 ELSE 0)
      /\ q \in Seq(Frame)
  BY <1>1, Unwound DEF CStack
<1>3. Len(y) <= MaxStack
  BY <1>2, Limits DEF CStack
<1>4. Returnable(z, y, tl)
  BY <1>1 DEF Returnable
<1>5. Nested(y)
  BY <1>2 DEF CStack, Nested
<1>6. Alone(y)
  BY <1>2 DEF CStack, Alone
<1>7. /\ \A p \in Scripts : f \in CallsOf(p) <=> p = f.script
      /\ \A r \in Natives : f \notin RunsOf(r)
      /\ f \in Retained <=> f.kind = "token"
  BY <1>1, <1>2 DEF CallsOf, RunsOf, Retained, IsScript
<1>8. \A S : Cardinality(Picks(q, S)) \in Nat
  BY <1>2, PicksCount
<1>9. \A p \in Scripts : z[p].active = Cardinality(Picks(y, CallsOf(p)))
  BY <1>1, <1>2, <1>7 DEF CStack, Counted
<1>10. na \in [Natives -> Nat] /\ \A r \in Natives : na[r] = Cardinality(Picks(y, RunsOf(r)))
  BY <1>2, <1>7, <1>8 DEF CStack, Counted
<1>11. e = Cardinality(Picks(y, Retained))
  BY <1>1, <1>2, <1>7 DEF CStack, Counted
<1> QED
  BY <1>1, <1>2, <1>3, <1>4, <1>5, <1>6, <1>9, <1>10, <1>11 DEF CStack, Counted

\* A native returns.
LEMMA NativePopped ==
    ASSUME NEW s, NEW q, NEW na, NEW d, NEW tk, CStack(s, q, na, d, tk), q # <<>>, ~IsScript(Last(q)),
           NEW nb, nb = IF Last(q).kind = "core" THEN na ELSE [na EXCEPT ![Last(q).native] = @ - 1]
    PROVE  CStack(s, Front(q), nb, d, tk)
<1>1. PICK y, f : y = Front(q) /\ f = Last(q)
  OBVIOUS
<1>2. /\ Len(q) \in Nat \ {0} /\ f = q[Len(q)] /\ f \in Frame /\ y \in Seq(Frame) /\ Len(y) = Len(q) - 1
      /\ \A k \in 1..Len(q) - 1 : y[k] = q[k]
      /\ \A S : /\ Cardinality(Picks(y, S)) = Cardinality(Picks(q, S)) - (IF f \in S THEN 1 ELSE 0)
                /\ f \in S => Cardinality(Picks(q, S)) > 0
      /\ q \in Seq(Frame)
  BY <1>1, Unwound DEF CStack
<1>3. Len(y) <= MaxStack
  BY <1>2, Limits DEF CStack
<1>4. Returnable(s, y, tk)
  BY <1>2 DEF CStack, Returnable
<1>5. Nested(y)
  BY <1>2 DEF CStack, Nested
<1>6. Alone(y)
  BY <1>2 DEF CStack, Alone
<1>7. f.kind \in {"core", "native"} /\ (f.kind = "native" => f.native \in Natives)
  BY <1>1, <1>2, FrameFields DEF IsScript
<1>8. /\ \A p \in Scripts : f \notin CallsOf(p)
      /\ \A r \in Natives : f \in RunsOf(r) <=> f.kind = "native" /\ r = f.native
      /\ f \notin Retained
  BY <1>2, <1>7 DEF CallsOf, RunsOf, Retained, IsScript
<1>9. \A S : Cardinality(Picks(q, S)) \in Nat
  BY <1>2, PicksCount
<1>10. ASSUME NEW r \in Natives PROVE nb[r] \in Nat /\ nb[r] = Cardinality(Picks(y, RunsOf(r)))
  <2>1. na \in [Natives -> Nat] /\ na[r] = Cardinality(Picks(q, RunsOf(r)))
    BY DEF CStack, Counted
  <2>2. CASE f \in RunsOf(r)
    <3>1. nb[r] = na[r] - 1 /\ na[r] > 0 /\ Cardinality(Picks(y, RunsOf(r))) = na[r] - 1
      BY <1>1, <1>2, <1>7, <1>8, <2>1, <2>2
    <3> QED
      BY <2>1, <3>1
  <2>3. CASE f \notin RunsOf(r)
    <3>1. nb[r] = na[r] /\ Cardinality(Picks(y, RunsOf(r))) = na[r]
      BY <1>1, <1>2, <1>7, <1>8, <1>9, <2>1, <2>3
    <3> QED
      BY <2>1, <3>1
  <2> QED
    BY <2>2, <2>3
<1>11. nb = [r \in Natives |-> nb[r]]
  BY <1>1, <1>7 DEF CStack, Counted
<1>12. \A p \in Scripts : s[p].active = Cardinality(Picks(y, CallsOf(p)))
  BY <1>2, <1>8, <1>9 DEF CStack, Counted
<1>13. d = Cardinality(Picks(y, Retained))
  BY <1>2, <1>8, <1>9 DEF CStack, Counted
<1> QED
  BY <1>1, <1>2, <1>3, <1>4, <1>5, <1>6, <1>10, <1>11, <1>12, <1>13 DEF CStack, Counted

-----------------------------------------------------------------------------
(* ExtensionCalls: what the operations do to a view.                       *)

LEMMA ScriptSet ==
    ASSUME NEW v, NEW w, NEW p, NEW s, Sets(v, w, p, s) PROVE Rewrites(v, w, p, s)
<1>1. v \in Views /\ p \in Scripts /\ s \in Script /\ w = WithScript(v, p, s)
  BY DEF Sets
<1>2. PICK sc \in [Scripts -> Script] : sc = [v.script EXCEPT ![p] = s]
  BY <1>1 DEF Views
<1>3. sc[p] = s /\ \A q \in Scripts \ {p} : sc[q] = v.script[q]
  BY <1>1, <1>2 DEF Views
<1>4. w = [v EXCEPT !.script = sc]
  BY <1>1, <1>2 DEF WithScript
<1>5. /\ w \in Views /\ w.callbacks = v.callbacks /\ w.resources = v.resources /\ w.leased = v.leased
      /\ w.late = v.late /\ w.script = sc
  BY <1>1, <1>2, <1>4 DEF Views
<1> QED
  BY <1>2, <1>3, <1>5 DEF Rewrites

LEMMA ListedView ==
    ASSUME NEW v, NEW reg, Good(v, reg), NEW p \in Scripts
    PROVE  LET w == Listed(v, p)
           IN  Good(w, reg) /\ Apart(v, w, p) /\ w.callbacks = v.callbacks /\ w.resources = v.resources
               /\ w.leased = v.leased /\ w.late = v.late
<1>1. v \in Views /\ v.script[p] \in Script
  BY ViewFields DEF Good
<1>2. CASE v.script[p] = Gone
  BY <1>2 DEF Listed, Apart
<1>3. CASE v.script[p] # Gone
  <2>1. PICK s \in Script : /\ s = [v.script[p] EXCEPT !.listed = TRUE] /\ s.tokens = v.script[p].tokens
                            /\ s.bound = v.script[p].bound /\ s.state = v.script[p].state /\ s.active = v.script[p].active
    <3>1. PICK o : o = [v.script[p] EXCEPT !.listed = TRUE]
      OBVIOUS
    <3>2. o \in Script /\ o.tokens = v.script[p].tokens /\ o.bound = v.script[p].bound
          /\ o.state = v.script[p].state /\ o.active = v.script[p].active
      BY <1>1, <3>1 DEF Script
    <3> QED
      BY <3>1, <3>2
  <2>2. PICK w : w = Listed(v, p)
    OBVIOUS
  <2>3. w = WithScript(v, p, s)
    BY <1>1, <1>3, <2>1, <2>2 DEF Listed, Views, WithScript
  <2>4. /\ w \in Views /\ w.callbacks = v.callbacks /\ w.resources = v.resources /\ w.leased = v.leased
        /\ w.late = v.late /\ w.script[p] = s /\ \A q \in Scripts \ {p} : w.script[q] = v.script[q]
    <3>1. Sets(v, w, p, s)
      BY <1>1, <2>1, <2>3 DEF Sets
    <3>2. Rewrites(v, w, p, s)
      BY <3>1, ScriptSet
    <3> QED
      BY <3>2 DEF Rewrites
  <2>5. Good(w, reg)
    <3>1. s.state = "Absent" => s.bound = {}
      BY <2>1 DEF Good, Binding
    <3>2. Edited(v, w, p, s)
      BY <2>1, <2>4, <3>1 DEF Edited
    <3> QED
      BY <3>2, ScriptChanged
  <2> QED
    BY <2>1, <2>2, <2>4, <2>5 DEF Apart
<1> QED
  BY <1>2, <1>3

\* The script p gets a state, and what its calls and cleanups count.
LEMMA StateSet ==
    ASSUME NEW v, NEW reg, Good(v, reg), NEW w, NEW p, NEW s, Sets(v, w, p, s),
           s.bound = v.script[p].bound, s.tokens = v.script[p].tokens, s.state # "Absent"
    PROVE  Good(w, reg) /\ Rewrites(v, w, p, s)
<1>1. Rewrites(v, w, p, s)
  BY ScriptSet
<1>2. Edited(v, w, p, s)
  BY <1>1 DEF Edited, Sets, Rewrites
<1>3. Good(w, reg)
  BY <1>2, ScriptChanged
<1> QED
  BY <1>1, <1>3

Dies(v, w, p) ==
    /\ w.callbacks = v.callbacks /\ w.resources = v.resources /\ w.leased = v.leased
    /\ w.late = v.late /\ \A q \in Scripts \ {p} : w.script[q] = v.script[q]
    /\ w.script[p].state = "Retiring" /\ w.script[p].active = v.script[p].active

LEMMA DyingView ==
    ASSUME NEW v, NEW reg, Good(v, reg), NEW p \in Scripts
    PROVE  Good(Dying(v, p), reg) /\ Dies(v, Dying(v, p), p)
<1>1. v \in Views /\ v.script[p] \in Script
  BY ViewFields DEF Good
<1>2. PICK s \in Script : /\ s = [v.script[p] EXCEPT !.state = "Retiring", !.stopped = TRUE]
                          /\ s.tokens = v.script[p].tokens
                          /\ s.bound = v.script[p].bound /\ s.state = "Retiring" /\ s.active = v.script[p].active
  <2>1. PICK o : o = [v.script[p] EXCEPT !.state = "Retiring", !.stopped = TRUE]
    OBVIOUS
  <2>2. o \in Script /\ o.tokens = v.script[p].tokens /\ o.bound = v.script[p].bound
        /\ o.state = "Retiring" /\ o.active = v.script[p].active
    BY <1>1, <2>1 DEF Script
  <2> QED
    BY <2>1, <2>2
<1>3. Dying(v, p) = WithScript(v, p, s)
  BY <1>1, <1>2 DEF Dying, Views, WithScript
<1>4. PICK w : w = Dying(v, p)
  OBVIOUS
<1>5. Sets(v, w, p, s)
  BY <1>1, <1>2, <1>3, <1>4 DEF Sets
<1>6. s.state # "Absent"
  BY <1>2
<1>7. Good(w, reg) /\ Rewrites(v, w, p, s)
  BY <1>2, <1>5, <1>6, StateSet
<1> QED
  BY <1>2, <1>4, <1>7 DEF Rewrites, Dies

\* The scripts of two views, but for their tokens and what is counted.
SameCalls(v, w) ==
    \A q \in Scripts : w.script[q].bound = v.script[q].bound /\ w.script[q].state = v.script[q].state
                       /\ w.script[q].active = v.script[q].active

LEMMA CancelView ==
    ASSUME NEW v, NEW reg, Good(v, reg), NEW t \in Tokens
    PROVE  LET w == Cancel(v, t)
           IN  /\ Good(w, reg) /\ SameCalls(v, w) /\ w.callbacks[t] = None
               /\ w.resources = v.resources /\ w.leased = v.leased /\ w.late = v.late
               /\ \A x \in Tokens : w.callbacks[x] \in {v.callbacks[x], None}
<1>1. v \in Views /\ \A p \in Scripts : v.script[p] \in Script
  BY ViewFields DEF Good
<1>2. CASE v.callbacks[t] = None
  BY <1>2 DEF Cancel, SameCalls
<1>3. CASE v.callbacks[t] # None
  <2>1. PICK p \in Scripts : p = v.callbacks[t].script
    BY <1>1, <1>3, ViewFields
  <2>2. PICK s \in Script : /\ s = [v.script[p] EXCEPT !.tokens = v.script[p].tokens \ {t}]
                            /\ s.tokens = v.script[p].tokens \ {t}
                            /\ s.bound = v.script[p].bound /\ s.state = v.script[p].state /\ s.active = v.script[p].active
    <3>1. v.script[p].tokens \ {t} \in SUBSET Tokens /\ v.script[p] \in Script
      BY <1>1, <2>1, ViewFields
    <3>2. PICK o : o = [v.script[p] EXCEPT !.tokens = v.script[p].tokens \ {t}]
      OBVIOUS
    <3>3. o \in Script /\ o.tokens = v.script[p].tokens \ {t} /\ o.bound = v.script[p].bound
          /\ o.state = v.script[p].state /\ o.active = v.script[p].active
      BY <3>1, <3>2 DEF Script
    <3> QED
      BY <3>2, <3>3
  <2>3. PICK cb \in [Tokens -> Callback \cup {None}] : cb = [v.callbacks EXCEPT ![t] = None]
    BY <1>1, ViewFields
  <2>4. PICK u : u = WithScript(v, p, s)
    OBVIOUS
  <2>5. /\ u \in Views /\ u.callbacks = v.callbacks /\ u.resources = v.resources /\ u.leased = v.leased
        /\ u.late = v.late /\ u.script[p] = s /\ \A q \in Scripts \ {p} : u.script[q] = v.script[q]
    <3>1. Sets(v, u, p, s)
      BY <1>1, <2>1, <2>2, <2>4 DEF Sets
    <3>2. Rewrites(v, u, p, s)
      BY <3>1, ScriptSet
    <3> QED
      BY <3>2 DEF Rewrites
  <2>6. PICK w : w = Cancel(v, t)
    OBVIOUS
  <2>7. w = [u EXCEPT !.callbacks = cb]
    BY <1>1, <1>3, <2>1, <2>2, <2>3, <2>4, <2>6 DEF Cancel, Views, WithScript
  <2>8. /\ w \in Views /\ w.callbacks = cb /\ w.resources = v.resources /\ w.leased = v.leased
        /\ w.late = v.late /\ w.script = u.script
    BY <2>3, <2>5, <2>7 DEF Views
  <2>9. cb[t] = None /\ \A x \in Tokens \ {t} : cb[x] = v.callbacks[x]
    BY <1>1, <2>3, ViewFields
  <2>10. SameCalls(v, w)
    BY <2>2, <2>5, <2>8 DEF SameCalls
  <2>11. \A q \in Scripts : w.script[q].tokens = v.script[q].tokens \ (IF q = p THEN {t} ELSE {})
    <3>1. ASSUME NEW q \in Scripts, q # p PROVE w.script[q].tokens = v.script[q].tokens \ {}
      BY <2>5, <2>8, <3>1
    <3>2. w.script[p].tokens = v.script[p].tokens \ {t}
      BY <2>2, <2>5, <2>8
    <3> QED
      BY <3>1, <3>2
  <2>12. TokensMatch(w)
    <3>1. ASSUME NEW q \in Scripts, NEW x \in Tokens
          PROVE  x \in w.script[q].tokens <=> w.callbacks[x] # None /\ w.callbacks[x].script = q
      <4>1. x \in v.script[q].tokens <=> v.callbacks[x] # None /\ v.callbacks[x].script = q
        BY DEF Good, TokensMatch
      <4> QED
        BY <2>1, <2>8, <2>9, <2>11, <4>1
    <3> QED
      BY <3>1 DEF TokensMatch
  <2>13. TokensBacked(w)
    BY <1>1, <2>8, <2>9, <2>10, ViewFields DEF Good, TokensBacked, Backed, SameCalls
  <2>14. HandlesBacked(w)
    BY <1>1, <2>8, <2>10, ViewFields DEF Good, HandlesBacked, Backed, SameCalls
  <2>15. Leasing(w) /\ Binding(w, reg)
    BY <2>8, <2>10 DEF Good, Leasing, Binding, SameCalls
  <2>16. Good(w, reg)
    BY <2>8, <2>12, <2>13, <2>14, <2>15 DEF Good
  <2>17. \A x \in Tokens : w.callbacks[x] \in {v.callbacks[x], None}
    BY <2>8, <2>9
  <2> QED
    BY <2>6, <2>8, <2>9, <2>10, <2>16, <2>17
<1> QED
  BY <1>2, <1>3

\* A call into a script has ended, well or not.
LEMMA ExitedView ==
    ASSUME NEW v, NEW reg, Good(v, reg), NEW f \in Frame, v.script[f.script].state # "Absent",
           v.script[f.script].active > 0, NEW ok \in BOOLEAN
    PROVE  LET w == Exited(v, f, ok)
           IN  /\ Good(w, reg) /\ w.resources = v.resources /\ w.leased = v.leased /\ w.late = v.late
               /\ \A q \in Scripts :
                     /\ w.script[q].bound = v.script[q].bound
                     /\ w.script[q].active = v.script[q].active - (IF q = f.script THEN 1 ELSE 0)
                     /\ w.script[q].state = v.script[q].state \/ (q = f.script /\ w.script[q].state = "Retiring")
               /\ \A t \in Tokens : w.callbacks[t] \in {v.callbacks[t], None}
               /\ f.kind = "token" /\ ~ok => w.callbacks[f.token] = None
<1>1. v \in Views /\ f.script \in Scripts /\ v.script[f.script] \in Script /\ \A q \in Scripts : v.script[q] \in Script
  BY FrameFields, ViewFields DEF Good
<1>2. PICK p \in Scripts : p = f.script
  BY <1>1
<1>3. v.script[p].active \in 1..MaxStack /\ v.script[p].active - 1 \in 0..MaxStack /\ v.script[p].faults \in 0..FaultLimit
  <2>1. v.script[p].active \in 0..MaxStack /\ v.script[p].faults \in 0..FaultLimit
    BY <1>1, <1>2 DEF Script
  <2> QED
    BY <1>2, <2>1, Limits
<1>4. PICK a \in Script : /\ a = [v.script[p] EXCEPT !.active = v.script[p].active - 1]
                          /\ a.active = v.script[p].active - 1 /\ a.tokens = v.script[p].tokens
                          /\ a.bound = v.script[p].bound /\ a.state = v.script[p].state
                          /\ a.faults = v.script[p].faults
  <2>1. PICK o : o = [v.script[p] EXCEPT !.active = v.script[p].active - 1]
    OBVIOUS
  <2>2. v.script[p] \in Script
    BY <1>1, <1>2
  <2>3. /\ o \in Script /\ o.active = v.script[p].active - 1 /\ o.tokens = v.script[p].tokens
        /\ o.bound = v.script[p].bound /\ o.state = v.script[p].state
    BY <1>3, <2>1, <2>2 DEF Script
  <2>4. o.faults = v.script[p].faults
    BY <2>1, <2>2 DEF Script
  <2> QED
    BY <2>1, <2>3, <2>4
<1>5. PICK left : left = WithScript(v, p, a)
  OBVIOUS
<1>6. /\ Good(left, reg) /\ left.callbacks = v.callbacks /\ left.resources = v.resources /\ left.leased = v.leased
      /\ left.late = v.late /\ left.script[p] = a /\ \A q \in Scripts \ {p} : left.script[q] = v.script[q]
      /\ left \in Views
  <2>1. /\ Good(left, reg) /\ left.callbacks = v.callbacks /\ left.resources = v.resources /\ left.leased = v.leased
        /\ left.late = v.late /\ left.script[p] = a /\ \A q \in Scripts \ {p} : left.script[q] = v.script[q]
    <3>1. Sets(v, left, p, a)
      BY <1>1, <1>2, <1>4, <1>5 DEF Sets
    <3>2. a.state # "Absent"
      BY <1>2, <1>4
    <3>3. Good(left, reg) /\ Rewrites(v, left, p, a)
      BY <1>4, <3>1, <3>2, StateSet
    <3> QED
      BY <3>3 DEF Rewrites
  <2> QED
    BY <2>1 DEF Good
<1>7. left = [v EXCEPT !.script[f.script].active = @ - 1]
  BY <1>1, <1>2, <1>4, <1>5 DEF Views, WithScript
<1>8. CASE ok
  <2>1. Exited(v, f, ok) = left
    BY <1>7, <1>8 DEF Exited
  <2>2. \A q \in Scripts :
           /\ left.script[q].bound = v.script[q].bound
           /\ left.script[q].active = v.script[q].active - (IF q = f.script THEN 1 ELSE 0)
           /\ left.script[q].state = v.script[q].state
    <3>1. \A q \in Scripts : v.script[q].active \in Nat
      BY <1>1, Limits DEF Script
    <3>2. ASSUME NEW q \in Scripts, q # p
          PROVE  left.script[q] = v.script[q] /\ v.script[q].active - 0 = v.script[q].active
      BY <1>6, <3>1, <3>2
    <3> QED
      BY <1>2, <1>4, <1>6, <3>2
  <2>3. \A t \in Tokens : left.callbacks[t] \in {v.callbacks[t], None}
    BY <1>6
  <2> QED
    BY <1>6, <1>8, <2>1, <2>2, <2>3
<1>9. CASE ~ok
  <2> DEFINE faults == v.script[p].faults + 1
  <2>1. PICK b \in Script : /\ b = [a EXCEPT !.faults = IF faults > FaultLimit THEN a.faults ELSE faults,
                                             !.state = IF faults >= FaultLimit THEN "Retiring" ELSE a.state]
                            /\ b.active = a.active /\ b.tokens = a.tokens /\ b.bound = a.bound
                            /\ (b.state = a.state \/ b.state = "Retiring")
    <3>1. PICK n \in 0..FaultLimit : n = (IF faults > FaultLimit THEN a.faults ELSE faults)
      BY <1>3, <1>4, Limits
    <3>2. a \in Script /\ a.state \in {"Absent", "Loading", "Running", "Paused", "Retiring"}
      BY <1>4 DEF Script
    <3>3. PICK st \in {"Absent", "Loading", "Running", "Paused", "Retiring"} :
             /\ st = (IF faults >= FaultLimit THEN "Retiring" ELSE a.state)
             /\ st \in {a.state, "Retiring"}
      BY <3>2
    <3>4. PICK o : o = [a EXCEPT !.faults = n, !.state = st]
      OBVIOUS
    <3>5. o \in Script /\ o.active = a.active /\ o.tokens = a.tokens /\ o.bound = a.bound /\ o.state = st
      BY <3>1, <3>2, <3>3, <3>4 DEF Script
    <3>6. o = [a EXCEPT !.faults = IF faults > FaultLimit THEN a.faults ELSE faults,
                        !.state = IF faults >= FaultLimit THEN "Retiring" ELSE a.state]
      BY <3>1, <3>3, <3>4
    <3> QED
      BY <3>3, <3>5, <3>6
  <2>2. PICK counted : counted = WithScript(left, p, b)
    OBVIOUS
  <2>3. /\ Good(counted, reg) /\ counted.callbacks = v.callbacks /\ counted.resources = v.resources
        /\ counted.leased = v.leased /\ counted.late = v.late /\ counted.script[p] = b
        /\ \A q \in Scripts \ {p} : counted.script[q] = v.script[q]
    <3>1. b.state # "Absent" /\ b.bound = left.script[p].bound /\ b.tokens = left.script[p].tokens
      BY <1>2, <1>4, <1>6, <2>1
    <3> QED
      <4>1. Sets(left, counted, p, b)
        BY <1>2, <1>6, <2>1, <2>2 DEF Sets
      <4>2. Good(counted, reg) /\ Rewrites(left, counted, p, b)
        BY <1>6, <3>1, <4>1, StateSet
      <4> QED
        BY <1>6, <4>2 DEF Rewrites
  <2>4. counted = [left EXCEPT !.script[f.script].faults = IF faults > FaultLimit THEN @ ELSE faults,
                               !.script[f.script].state = IF faults >= FaultLimit THEN "Retiring" ELSE @]
    <3>1. PICK n : n = (IF faults > FaultLimit THEN a.faults ELSE faults)
      OBVIOUS
    <3>2. PICK st : st = (IF faults >= FaultLimit THEN "Retiring" ELSE a.state)
      OBVIOUS
    <3>3. b = [a EXCEPT !.faults = n, !.state = st]
      BY <2>1, <3>1, <3>2
    <3> HIDE DEF faults
    <3>4. PICK sc : sc = [left.script EXCEPT ![p].faults = n, ![p].state = st]
      OBVIOUS
    <3>5. left \in Views /\ left.script \in [Scripts -> Script] /\ left.script[p] = a /\ a \in Script
      BY <1>6, ViewFields
    <3>6. sc = [left.script EXCEPT ![p] = b]
      BY <3>3, <3>4, <3>5 DEF Script
    <3>7. PICK x : x = [left EXCEPT !.script[p].faults = n, !.script[p].state = st]
      OBVIOUS
    <3>8. x = [left EXCEPT !.script = sc]
      BY <3>4, <3>5, <3>7 DEF Views
    <3>9. counted = x
      BY <2>2, <3>6, <3>8 DEF WithScript
    <3> QED
      BY <1>2, <3>1, <3>2, <3>5, <3>7, <3>9
  <2>5. Exited(v, f, ok) = IF f.kind = "token" THEN Cancel(counted, f.token) ELSE counted
    BY <1>2, <1>7, <1>9, <2>4 DEF Exited
  <2>6. \A q \in Scripts :
           /\ counted.script[q].bound = v.script[q].bound
           /\ counted.script[q].active = v.script[q].active - (IF q = f.script THEN 1 ELSE 0)
           /\ counted.script[q].state = v.script[q].state \/ (q = f.script /\ counted.script[q].state = "Retiring")
    <3>1. \A q \in Scripts : v.script[q].active \in Nat
      BY <1>1, Limits DEF Script
    <3>2. ASSUME NEW q \in Scripts, q # p
          PROVE  counted.script[q] = v.script[q] /\ v.script[q].active - 0 = v.script[q].active
      BY <2>3, <3>1, <3>2
    <3>3. /\ counted.script[p].bound = v.script[p].bound /\ counted.script[p].active = v.script[p].active - 1
          /\ counted.script[p].state \in {v.script[p].state, "Retiring"}
      BY <1>4, <2>1, <2>3
    <3> QED
      BY <1>2, <3>2, <3>3
  <2>7. CASE f.kind # "token"
    BY <1>9, <2>3, <2>5, <2>6, <2>7
  <2>8. CASE f.kind = "token"
    <3>1. f.token \in Tokens
      BY <2>8, FrameFields DEF HasToken
    <3>2. PICK w : w = Cancel(counted, f.token)
      OBVIOUS
    <3>3. /\ Good(w, reg) /\ SameCalls(counted, w) /\ w.callbacks[f.token] = None
          /\ w.resources = v.resources /\ w.leased = v.leased /\ w.late = v.late
          /\ \A x \in Tokens : w.callbacks[x] \in {v.callbacks[x], None}
      BY <2>3, <3>1, <3>2, CancelView
    <3>4. \A q \in Scripts :
             /\ w.script[q].bound = v.script[q].bound
             /\ w.script[q].active = v.script[q].active - (IF q = f.script THEN 1 ELSE 0)
             /\ w.script[q].state = v.script[q].state \/ (q = f.script /\ w.script[q].state = "Retiring")
      BY <2>6, <3>3 DEF SameCalls
    <3> QED
      BY <2>5, <2>8, <3>2, <3>3, <3>4
  <2> QED
    BY <2>7, <2>8
<1> QED
  BY <1>8, <1>9

-----------------------------------------------------------------------------
(* ExtensionCalls: the invariant, and the steps.                           *)

\* Tokens are numbered, and one that is spent is not in callbacks_ again.
Tracked ==
    /\ registered \subseteq Natives /\ tokens \in 0..MaxTokens /\ handles \in 0..MaxResources /\ spent \subseteq Tokens
    /\ \A t \in Tokens : callbacks[t] # None => t <= tokens
    /\ \A t \in spent : t <= tokens /\ callbacks[t] = None

CInv == Good(View, registered) /\ CStack(script, stack, nactive, depth, tokens) /\ Tracked

LEMMA Seen ==
    /\ View.script = script /\ View.callbacks = callbacks /\ View.resources = resources
    /\ View.leased = leased /\ View.late = late
BY DEF View

LEMMA Becomes ==
    ASSUME NEW w \in Views, script' = w.script, callbacks' = w.callbacks, resources' = w.resources,
           leased' = w.leased, late' = w.late
    PROVE  View' = w
BY DEF View, Views

LEMMA TrackedStays ==
    ASSUME Tracked, UNCHANGED <<registered, tokens, handles, spent>>,
           \A t \in Tokens : callbacks'[t] \in {callbacks[t], None}
    PROVE  Tracked'
BY DEF Tracked

LEMMA StateKnown ==
    ASSUME CInv
    PROVE  /\ script \in [Scripts -> Script] /\ \A p \in Scripts : script[p] \in Script /\ script[p].active \in 0..MaxStack
           /\ callbacks \in [Tokens -> Callback \cup {None}] /\ resources \in [Resources -> Resource \cup {None}]
           /\ \A t \in Tokens : callbacks[t] # None => callbacks[t].script \in Scripts
           /\ stack \in Seq(Frame) /\ Len(stack) \in Nat /\ \A i \in 1..Len(stack) : stack[i] \in Frame
           /\ View \in Views /\ tokens \in Nat
           /\ stack # <<>> => /\ Top = Last(stack) /\ Top \in Frame /\ Top = stack[Len(stack)] /\ Top.script \in Scripts
                              /\ Len(stack) \in 1..Len(stack)
<1>1. View \in Views /\ stack \in Seq(Frame)
  BY DEF CInv, Good, CStack
<1>2. /\ script \in [Scripts -> Script] /\ callbacks \in [Tokens -> Callback \cup {None}]
      /\ resources \in [Resources -> Resource \cup {None}] /\ \A p \in Scripts : script[p] \in Script
      /\ \A t \in Tokens : callbacks[t] # None => callbacks[t].script \in Scripts
  BY <1>1, Seen, ViewFields
<1>3. \A p \in Scripts : script[p].active \in 0..MaxStack
  BY <1>2 DEF Script
<1>4. Len(stack) \in Nat /\ \A i \in 1..Len(stack) : stack[i] \in Frame
  BY <1>1
<1>5. tokens \in Nat
  BY Limits DEF CInv, Tracked
<1>6. stack # <<>> => Top = Last(stack) /\ Top \in Frame /\ Top = stack[Len(stack)] /\ Len(stack) \in 1..Len(stack)
  BY <1>1, Unwound DEF Top
<1> QED
  BY <1>1, <1>2, <1>3, <1>4, <1>5, <1>6, FrameFields

\* The calls of a script are on the stack.
LEMMA ActiveCounts ==
    ASSUME CInv, NEW p \in Scripts
    PROVE  /\ script[p].active <= Len(stack)
           /\ script[p].state = "Absent" => script[p].active = 0
           /\ stack # <<>> /\ IsScript(Top) => script[Top.script].active > 0
<1>1. stack \in Seq(Frame) /\ Len(stack) \in Nat
  BY StateKnown
<1>2. \A q \in Scripts : script[q].active = Cardinality(Picks(stack, CallsOf(q)))
  BY DEF CInv, CStack, Counted
<1>3. script[p].active <= Len(stack)
  BY <1>1, <1>2, PicksCount
<1>4. ASSUME script[p].state = "Absent" PROVE script[p].active = 0
  <2>1. \A i \in 1..Len(stack) : stack[i] \notin CallsOf(p)
    BY <1>4 DEF CInv, CStack, Returnable, ReturnsTo, CallsOf
  <2> QED
    BY <1>1, <1>2, <2>1, PicksCount
<1>5. ASSUME stack # <<>>, IsScript(Top) PROVE script[Top.script].active > 0
  <2>1. Top \in CallsOf(Top.script) /\ Top = Last(stack) /\ Top.script \in Scripts
    BY <1>5, StateKnown DEF CallsOf
  <2>2. Cardinality(Picks(stack, CallsOf(Top.script))) > 0
    BY <1>1, <1>5, <2>1, Unwound
  <2> QED
    BY <1>2, <2>1, <2>2
<1> QED
  BY <1>3, <1>4, <1>5

\* A call into a script begins, on a view that is good.
LEMMA EnterStep ==
    ASSUME CInv, NEW v, Good(v, registered), NEW f \in Frame, IsScript(f), Enter(f, v.script),
           callbacks' = v.callbacks, resources' = v.resources, leased' = v.leased, late' = v.late,
           UNCHANGED <<registered, nactive, tokens>>,
           \A q \in Scripts : v.script[q].active = script[q].active,
           \A i \in 1..Len(stack) : ReturnsTo(v.script, stack[i], tokens),
           ReturnsTo(v.script, f, tokens),
           \A i \in 1..Len(stack) : stack[i].script = f.script => ~Manages(stack[i]) /\ ~Manages(f),
           depth' = depth + (IF f.kind = "token" THEN 1 ELSE 0)
    PROVE  Good(View', registered') /\ CStack(script', stack', nactive', depth', tokens')
<1>1. PICK p \in Scripts : p = f.script
  BY FrameFields
<1>2. v \in Views /\ v.script[p] \in Script
  BY ViewFields DEF Good
<1>3. Len(stack) < MaxStack /\ stack' = Append(stack, f) /\ script' = [v.script EXCEPT ![p].active = @ + 1]
  BY <1>1 DEF Enter, Room
<1>4. v.script[p].active + 1 \in 0..MaxStack
  <2>1. script[p].active \in 0..MaxStack /\ script[p].active <= Len(stack) /\ Len(stack) \in Nat
    BY StateKnown, ActiveCounts
  <2> QED
    BY <1>3, <2>1, Limits
<1>5. PICK s \in Script : /\ s = [v.script[p] EXCEPT !.active = v.script[p].active + 1]
                          /\ s.active = v.script[p].active + 1
                          /\ s.bound = v.script[p].bound /\ s.state = v.script[p].state /\ s.tokens = v.script[p].tokens
  <2>1. PICK o : o = [v.script[p] EXCEPT !.active = v.script[p].active + 1]
    OBVIOUS
  <2>2. o \in Script /\ o.active = v.script[p].active + 1
        /\ o.bound = v.script[p].bound /\ o.state = v.script[p].state /\ o.tokens = v.script[p].tokens
    BY <1>2, <1>4, <2>1 DEF Script
  <2> QED
    BY <2>1, <2>2
<1>6. PICK w : w = WithScript(v, p, s)
  OBVIOUS
<1>7. s.state # "Absent"
  BY <1>1, <1>5 DEF ReturnsTo
<1>8. /\ Good(w, registered) /\ w.callbacks = v.callbacks /\ w.resources = v.resources /\ w.leased = v.leased
      /\ w.late = v.late /\ w.script[p] = s /\ \A q \in Scripts \ {p} : w.script[q] = v.script[q]
      /\ w.script = [v.script EXCEPT ![p] = s]
  <2>1. Sets(v, w, p, s)
    BY <1>1, <1>2, <1>5, <1>6 DEF Sets
  <2>2. Good(w, registered) /\ Rewrites(v, w, p, s)
    BY <1>5, <1>7, <2>1, StateSet
  <2> QED
    BY <2>2 DEF Rewrites
<1>9. script' = w.script
  BY <1>2, <1>3, <1>5, <1>8 DEF Views
<1>10. View' = w
  BY <1>8, <1>9, Becomes DEF Good
<1>11. \A q \in Scripts : /\ script'[q].active = script[q].active + (IF q = f.script THEN 1 ELSE 0)
                          /\ script'[q].bound = v.script[q].bound /\ script'[q].state = v.script[q].state
  <2>1. \A q \in Scripts : script[q].active \in Nat
    BY StateKnown
  <2>2. ASSUME NEW q \in Scripts, q # p
        PROVE  script'[q] = v.script[q] /\ v.script[q].active = script[q].active + 0
    BY <1>8, <1>9, <2>1, <2>2
  <2>3. /\ script'[p].active = script[p].active + 1
        /\ script'[p].bound = v.script[p].bound /\ script'[p].state = v.script[p].state
    BY <1>1, <1>5, <1>8, <1>9
  <2> QED
    BY <1>1, <2>2, <2>3
<1>12. ReturnsTo(script', f, tokens) /\ \A i \in 1..Len(stack) : ReturnsTo(script', stack[i], tokens)
  <2>1. \A i \in 1..Len(stack) : stack[i].script \in Scripts
    BY StateKnown, FrameFields
  <2> QED
    BY <1>1, <1>11, <2>1 DEF ReturnsTo
<1>13. CStack(script, stack, nactive, depth, tokens)
  BY DEF CInv
<1>14. CStack(script', Append(stack, f), nactive, depth', tokens)
  <2>1. Enters(script, stack, depth, tokens, f, script', depth')
    BY <1>3, <1>11, <1>12 DEF Enters
  <2> QED
    BY <1>13, <2>1, ScriptPushed
<1> QED
  BY <1>3, <1>8, <1>10, <1>14

\* A cleanup that is the last thing a step does.
LEMMA CleanEnds ==
    ASSUME NEW v, NEW reg, Good(v, reg), NEW p \in Scripts, v.script[p].active = 0, NEW w \in Cleaned(v, p),
           script' = w.script \/ script' = Listed(w, p).script, Become(w)
    PROVE  /\ Good(View', reg) /\ script'[p].active = 0
           /\ \A q \in Scripts \ {p} : script'[q] = v.script[q]
           /\ \A t \in Tokens : callbacks'[t] \in {v.callbacks[t], None}
<1>1. /\ Good(w, reg) /\ w.script[p].active = 0
      /\ \A q \in Scripts \ {p} : w.script[q] = v.script[q]
      /\ \A t \in Tokens : w.callbacks[t] \in {v.callbacks[t], None}
  BY CleanedView
<1>2. callbacks' = w.callbacks /\ resources' = w.resources /\ leased' = w.leased /\ late' = w.late
  BY DEF Become
<1>3. CASE script' = w.script
  <2>1. View' = w
    BY <1>1, <1>2, <1>3, Becomes DEF Good
  <2> QED
    BY <1>1, <1>2, <1>3, <2>1
<1>4. CASE script' = Listed(w, p).script
  <2>1. PICK x : x = Listed(w, p)
    OBVIOUS
  <2>2. Good(x, reg) /\ Apart(w, x, p) /\ x.callbacks = w.callbacks /\ x.resources = w.resources
        /\ x.leased = w.leased /\ x.late = w.late
    BY <1>1, <2>1, ListedView
  <2>3. View' = x
    BY <1>2, <1>4, <2>1, <2>2, Becomes DEF Good
  <2> QED
    BY <1>1, <1>2, <1>4, <2>1, <2>2, <2>3 DEF Apart
<1> QED
  BY <1>3, <1>4

\* A script that is nowhere on the stack changes.
LEMMA NotOnStack ==
    ASSUME NEW s, NEW q, NEW na, NEW d, NEW tk, CStack(s, q, na, d, tk), NEW p \in Scripts, s[p].active = 0,
           NEW z, z[p].active = 0, \A x \in Scripts \ {p} : z[x] = s[x]
    PROVE  CStack(z, q, na, d, tk) /\ \A i \in 1..Len(q) : ReturnsTo(z, q[i], tk)
<1>1. \A i \in 1..Len(q) : q[i].script # p /\ q[i] \in Frame /\ ReturnsTo(s, q[i], tk)
  <2>1. \A i \in 1..Len(q) : q[i].script # p
    BY Inactive
  <2> QED
    BY <2>1 DEF CStack, Returnable
<1>2. \A i \in 1..Len(q) : ReturnsTo(z, q[i], tk)
  BY <1>1, FrameFields DEF ReturnsTo
<1>3. \A x \in Scripts : z[x].active = s[x].active
  OBVIOUS
<1> QED
  BY <1>2, <1>3, StackStays

LEMMA RegisterStep == ASSUME CInv, NEW r \in Natives, RegisterNative(r) \/ UnregisterNative(r) PROVE CInv'
<1>1. UNCHANGED <<script, leased, nactive, callbacks, resources, depth, stack, tokens, handles, spent, late>>
  BY DEF RegisterNative, UnregisterNative, made, history
<1>2. registered' \subseteq Natives
  BY DEF RegisterNative, UnregisterNative, CInv, Tracked
<1>3. \A p \in Scripts : script[p].bound \subseteq registered'
  <2>1. \A p \in Scripts : script[p].bound \subseteq registered
    BY Seen DEF CInv, Good, Binding
  <2>2. CASE RegisterNative(r)
    BY <2>1, <2>2 DEF RegisterNative
  <2>3. CASE UnregisterNative(r)
    <3>1. Cardinality({p \in Scripts : r \in script[p].bound}) = 0
      BY <2>3 DEF UnregisterNative, Users
    <3>2. IsFiniteSet({p \in Scripts : r \in script[p].bound})
      BY Limits, FS_Subset
    <3>3. {p \in Scripts : r \in script[p].bound} = {}
      BY <3>1, <3>2, FS_EmptySet
    <3> QED
      BY <2>1, <2>3, <3>3 DEF UnregisterNative
  <2> QED
    BY <2>2, <2>3
<1>4. View' = View
  BY <1>1 DEF View
<1>5. Good(View', registered')
  BY <1>3, <1>4, Seen DEF CInv, Good, Binding
<1>6. CStack(script', stack', nactive', depth', tokens')
  BY <1>1 DEF CInv
<1>7. Tracked'
  BY <1>1, <1>2 DEF CInv, Tracked
<1> QED
  BY <1>5, <1>6, <1>7 DEF CInv

\* Prepare binds natives to a script that had none.
Bind(v, p, b) == [v EXCEPT !.script[p] = [Gone EXCEPT !.state = "Loading", !.bound = b],
                           !.leased = @ \cup {ExtOf[r] : r \in b}]
Binds(v, w, p) ==
    /\ w.callbacks = v.callbacks /\ w.script[p].state = "Loading" /\ w.script[p].active = 0
    /\ \A q \in Scripts \ {p} : w.script[q] = v.script[q]

LEMMA BoundView ==
    ASSUME NEW v, NEW reg, Good(v, reg), NEW p \in Scripts, v.script[p].state = "Absent",
           NEW b \in SUBSET Natives, b \subseteq reg
    PROVE  Good(Bind(v, p, b), reg) /\ Binds(v, Bind(v, p, b), p)
<1>1. v \in Views
  BY DEF Good
<1>2. PICK s \in Script : /\ s = [Gone EXCEPT !.state = "Loading", !.bound = b] /\ s.bound = b /\ s.tokens = {}
                          /\ s.state = "Loading" /\ s.active = 0
  <2>1. Gone \in Script /\ Gone.tokens = {} /\ Gone.active = 0
    BY Limits DEF Gone
  <2>2. PICK o : o = [Gone EXCEPT !.state = "Loading", !.bound = b]
    OBVIOUS
  <2>3. o \in Script /\ o.bound = b /\ o.tokens = {} /\ o.state = "Loading" /\ o.active = 0
    BY <2>1, <2>2 DEF Script
  <2> QED
    BY <2>2, <2>3
<1>3. PICK u : u = WithScript(v, p, s)
  OBVIOUS
<1>4. /\ u \in Views /\ u.callbacks = v.callbacks /\ u.resources = v.resources /\ u.leased = v.leased
      /\ u.late = v.late /\ u.script[p] = s /\ \A q \in Scripts \ {p} : u.script[q] = v.script[q]
      /\ u.script = [v.script EXCEPT ![p] = s]
  <2>1. Sets(v, u, p, s)
    BY <1>1, <1>2, <1>3 DEF Sets
  <2>2. Rewrites(v, u, p, s)
    BY <2>1, ScriptSet
  <2> QED
    BY <2>2 DEF Rewrites
<1>5. PICK w : w = Bind(v, p, b)
  OBVIOUS
<1>6. PICK le \in SUBSET Exts : le = v.leased \cup {ExtOf[r] : r \in b}
  <2>1. PICK x : x = v.leased \cup {ExtOf[r] : r \in b}
    OBVIOUS
  <2>2. \A r \in b : ExtOf[r] \in Exts
    BY Limits
  <2>3. v.leased \subseteq Exts
    BY <1>1 DEF Views
  <2>4. x \subseteq Exts
    BY <2>1, <2>2, <2>3
  <2> QED
    BY <2>1, <2>4
<1>7. w = [u EXCEPT !.leased = le]
  BY <1>1, <1>2, <1>3, <1>5, <1>6 DEF Views, WithScript, Bind
<1>8. /\ w \in Views /\ w.callbacks = v.callbacks /\ w.resources = v.resources /\ w.leased = le
      /\ w.late = v.late /\ w.script = u.script
  BY <1>4, <1>6, <1>7 DEF Views
<1>9. v.script[p].bound = {}
  BY DEF Good, Binding
<1>10. \A t \in Tokens : v.callbacks[t] # None => v.callbacks[t].script \in Scripts \ {p}
  BY <1>1, <1>9, ViewFields DEF Good, TokensBacked, Backed
<1>11. \A h \in Resources : v.resources[h] # None => v.resources[h].script \in Scripts \ {p}
  BY <1>1, <1>9, ViewFields DEF Good, HandlesBacked, Backed
<1>12. TokensMatch(w)
  BY <1>2, <1>4, <1>8, <1>10 DEF Good, TokensMatch
<1>13. TokensBacked(w) /\ HandlesBacked(w)
  BY <1>4, <1>8, <1>10, <1>11 DEF Good, TokensBacked, HandlesBacked, Backed
<1>14. Leasing(w)
  <2>1. ASSUME NEW e \in Exts PROVE e \in le <=> \E q \in Scripts : \E r \in w.script[q].bound : ExtOf[r] = e
    <3>1. e \in v.leased <=> \E q \in Scripts : \E r \in v.script[q].bound : ExtOf[r] = e
      BY DEF Good, Leasing
    <3>2. e \in le <=> e \in v.leased \/ \E r \in b : ExtOf[r] = e
      BY <1>6
    <3>3. w.script[p].bound = b /\ \A q \in Scripts \ {p} : w.script[q].bound = v.script[q].bound
      BY <1>2, <1>4, <1>8
    <3>4. ASSUME NEW q \in Scripts, NEW r \in v.script[q].bound, ExtOf[r] = e
          PROVE  r \in w.script[q].bound
      BY <1>9, <3>3, <3>4
    <3>5. ASSUME NEW q \in Scripts, NEW r \in w.script[q].bound, ExtOf[r] = e
          PROVE  r \in b \/ r \in v.script[q].bound
      BY <3>3
    <3> QED
      BY <3>1, <3>2, <3>3, <3>4, <3>5
  <2> QED
    BY <1>8, <2>1 DEF Leasing
<1>15. Binding(w, reg)
  BY <1>2, <1>4, <1>8 DEF Good, Binding
<1> QED
  BY <1>2, <1>4, <1>5, <1>8, <1>12, <1>13, <1>14, <1>15 DEF Good, Binds

LEMMA LoadStep == ASSUME CInv, NEW p \in Scripts, Load(p) PROVE CInv'
<1> DEFINE bind(b) == [View EXCEPT !.script[p] = [Gone EXCEPT !.state = "Loading", !.bound = b],
                                   !.leased = @ \cup {ExtOf[r] : r \in b}]
           declared == Uses[p] \cap registered
<1>1. script[p].state = "Absent" /\ UNCHANGED <<registered, nactive, depth, tokens, handles, spent>>
      /\ ~Managing
  BY DEF Load, made
<1>2. \/ Enter([kind |-> "start", script |-> p], bind(declared).script) /\ Become(bind(declared))
      \/ \E b \in SUBSET declared :
            /\ \E v \in Cleaned(Dying(bind(b), p), p) : Become(v) /\ script' = Listed(v, p).script
            /\ UNCHANGED stack
  BY DEF Load
<1>3. script[p].active = 0 /\ CStack(script, stack, nactive, depth, tokens) /\ Good(View, registered) /\ Tracked
  BY <1>1, ActiveCounts DEF CInv
<1>4. ASSUME NEW b \in SUBSET declared
      PROVE  /\ Good(bind(b), registered) /\ bind(b).callbacks = callbacks
             /\ bind(b).script[p].state = "Loading" /\ bind(b).script[p].active = 0
             /\ \A q \in Scripts \ {p} : bind(b).script[q] = script[q]
  <2>1. b \in SUBSET Natives /\ b \subseteq registered
    BY <1>3 DEF Tracked
  <2> QED
    <3>1. View.script[p].state = "Absent" /\ bind(b) = Bind(View, p, b)
      BY <1>1, Seen DEF Bind
    <3>2. Good(Bind(View, p, b), registered) /\ Binds(View, Bind(View, p, b), p)
      BY <1>3, <2>1, <3>1, BoundView
    <3> HIDE DEF bind
    <3> QED
      BY <3>1, <3>2, Seen DEF Binds
<1>5. ASSUME Enter([kind |-> "start", script |-> p], bind(declared).script), Become(bind(declared)) PROVE CInv'
  <2>1. PICK f : f = [kind |-> "start", script |-> p]
    OBVIOUS
  <2>2. f \in Frame /\ f.script = p /\ f.kind = "start" /\ IsScript(f)
    BY <2>1 DEF Frame, IsScript
  <2>3. PICK v : v = bind(declared)
    OBVIOUS
  <2>4. /\ Good(v, registered) /\ v.callbacks = callbacks /\ v.script[p].state = "Loading" /\ v.script[p].active = 0
        /\ \A q \in Scripts \ {p} : v.script[q] = script[q]
    <3>1. declared \in SUBSET declared
      OBVIOUS
    <3> QED
      BY <1>4, <2>3, <3>1
  <2>5. Enter(f, v.script) /\ callbacks' = v.callbacks /\ resources' = v.resources /\ leased' = v.leased /\ late' = v.late
    BY <1>5, <2>1, <2>3 DEF Become
  <2> HIDE DEF bind
  <2>6. \A i \in 1..Len(stack) : ReturnsTo(v.script, stack[i], tokens)
    BY <1>3, <2>4, NotOnStack
  <2>7. \A i \in 1..Len(stack) : stack[i].script # f.script
    BY <1>3, <2>2, Inactive
  <2>8. ReturnsTo(v.script, f, tokens)
    BY <2>2, <2>4 DEF ReturnsTo, HasToken
  <2>9. \A q \in Scripts : v.script[q].active = script[q].active
    BY <1>3, <2>4
  <2>10. depth' = depth + (IF f.kind = "token" THEN 1 ELSE 0)
    <3>1. depth \in Nat
      BY <1>3, PicksCount DEF CStack, Counted
    <3> QED
      BY <1>1, <2>2, <3>1
  <2>11. Good(View', registered') /\ CStack(script', stack', nactive', depth', tokens')
    BY <1>1, <2>2, <2>4, <2>5, <2>6, <2>7, <2>8, <2>9, <2>10, EnterStep
  <2>12. Tracked'
    BY <1>1, <1>3, <2>4, <2>5, TrackedStays
  <2> QED
    BY <2>11, <2>12 DEF CInv
<1>6. ASSUME NEW b \in SUBSET declared, UNCHANGED stack,
             NEW w \in Cleaned(Dying(bind(b), p), p), Become(w), script' = Listed(w, p).script
      PROVE  CInv'
  <2> HIDE DEF bind
  <2>1. PICK v : v = Dying(bind(b), p)
    OBVIOUS
  <2>2. /\ Good(v, registered) /\ v.callbacks = callbacks /\ v.script[p].active = 0
        /\ \A q \in Scripts \ {p} : v.script[q] = script[q]
    <3>1. PICK u : u = bind(b)
      OBVIOUS
    <3>2. /\ Good(u, registered) /\ u.callbacks = callbacks /\ u.script[p].active = 0
          /\ \A q \in Scripts \ {p} : u.script[q] = script[q]
      BY <1>4, <3>1
    <3>3. Good(v, registered) /\ Dies(u, v, p)
      BY <2>1, <3>1, <3>2, DyingView
    <3> QED
      BY <3>2, <3>3 DEF Dies
  <2>3. /\ Good(View', registered) /\ script'[p].active = 0
        /\ \A q \in Scripts \ {p} : script'[q] = script[q]
        /\ \A t \in Tokens : callbacks'[t] \in {callbacks[t], None}
    BY <1>6, <2>1, <2>2, CleanEnds
  <2>4. CStack(script', stack, nactive, depth, tokens)
    BY <1>3, <2>3, NotOnStack
  <2>5. Tracked'
    BY <1>1, <1>3, <2>3, TrackedStays
  <2> QED
    BY <1>1, <1>6, <2>3, <2>4, <2>5 DEF CInv
<1> QED
  BY <1>2, <1>5, <1>6

\* The state of a script changes between its calls of OnPluginStart and OnPluginStop.
LEMMA StateStep ==
    ASSUME CInv, ~Managing, NEW p \in Scripts, script[p].state # "Absent",
           NEW x \in {"Loading", "Running", "Paused", "Retiring"}, script' = [script EXCEPT ![p].state = x],
           UNCHANGED <<registered, leased, nactive, callbacks, resources, depth, stack, tokens, handles, spent, late>>
    PROVE  CInv'
<1>1. script[p] \in Script /\ Good(View, registered) /\ CStack(script, stack, nactive, depth, tokens) /\ Tracked
      /\ script \in [Scripts -> Script]
  BY StateKnown DEF CInv
<1>2. PICK s \in Script : /\ s = [script[p] EXCEPT !.state = x] /\ s.state = x
                          /\ s.bound = script[p].bound /\ s.tokens = script[p].tokens /\ s.active = script[p].active
  <2>1. PICK o : o = [script[p] EXCEPT !.state = x]
    OBVIOUS
  <2>2. o \in Script /\ o.state = x /\ o.bound = script[p].bound /\ o.tokens = script[p].tokens /\ o.active = script[p].active
    BY <1>1, <2>1 DEF Script
  <2> QED
    BY <2>1, <2>2
<1>3. PICK w : w = WithScript(View, p, s)
  OBVIOUS
<1>4. /\ Good(w, registered) /\ w.callbacks = callbacks /\ w.resources = resources /\ w.leased = leased /\ w.late = late
      /\ w.script[p] = s /\ \A q \in Scripts \ {p} : w.script[q] = script[q]
      /\ w.script = [script EXCEPT ![p] = s]
  <2>1. Sets(View, w, p, s)
    BY <1>1, <1>2, <1>3 DEF Sets, Good
  <2>2. s.bound = View.script[p].bound /\ s.tokens = View.script[p].tokens /\ s.state # "Absent"
    BY <1>2, Seen
  <2>3. Good(w, registered) /\ Rewrites(View, w, p, s)
    BY <1>1, <2>1, <2>2, StateSet
  <2> QED
    BY <2>3, Seen DEF Rewrites
<1>5. View' = w
  <2>1. script' = w.script
    BY <1>1, <1>2, <1>4
  <2> QED
    BY <1>4, <2>1, Becomes DEF Good
<1>6. /\ \A q \in Scripts : script'[q].active = script[q].active /\ script'[q].bound = script[q].bound
      /\ \A q \in Scripts : script'[q].state = script[q].state \/ script'[q].state # "Absent"
  BY <1>1, <1>2
<1>7. ASSUME NEW i \in 1..Len(stack) PROVE ReturnsTo(script', stack[i], tokens)
  <2>1. ReturnsTo(script, stack[i], tokens) /\ stack[i].script \in Scripts
    BY <1>1, StateKnown, FrameFields DEF CStack, Returnable
  <2>2. stack[i].kind \notin {"start", "stop"}
    BY DEF Managing
  <2> QED
    BY <1>6, <2>1, <2>2 DEF ReturnsTo
<1>8. CStack(script', stack, nactive, depth, tokens)
  BY <1>1, <1>6, <1>7, StackStays
<1>9. Tracked'
  BY <1>1 DEF Tracked
<1> QED
  BY <1>4, <1>5, <1>8, <1>9 DEF CInv

LEMMA PauseStep ==
    ASSUME CInv, NEW p \in Scripts, Promote(p) \/ Pause(p) \/ Resume(p) PROVE CInv'
<1>1. /\ ~Managing /\ script[p].state # "Absent"
      /\ \E x \in {"Running", "Paused"} : script' = [script EXCEPT ![p].state = x]
      /\ UNCHANGED <<registered, leased, nactive, callbacks, resources, depth, stack, tokens, handles, spent, late>>
  BY DEF Promote, Pause, Resume, made, history
<1> QED
  BY <1>1, StateStep

LEMMA UnloadStep == ASSUME CInv, NEW p \in Scripts, Unload(p) PROVE CInv'
<1> DEFINE retiring == [View EXCEPT !.script[p].state = "Retiring"]
<1>1. /\ ~Managing /\ script[p].state # "Absent" /\ UNCHANGED <<registered, nactive, depth, tokens, handles, spent>>
      /\ \/ script[p].active > 0 /\ script' = retiring.script /\ Become(retiring) /\ UNCHANGED stack
         \/ /\ ~(script[p].active > 0)
            /\ Enter([kind |-> "stop", script |-> p], Dying(retiring, p).script) /\ Become(retiring)
         \/ /\ ~(script[p].active > 0) /\ UNCHANGED stack
            /\ \E v \in Cleaned(Dying(retiring, p), p) : Become(v) /\ script' = v.script
  BY DEF Unload, made, Busy
<1>2. script[p] \in Script /\ Good(View, registered) /\ CStack(script, stack, nactive, depth, tokens) /\ Tracked
      /\ script \in [Scripts -> Script] /\ View \in Views /\ script[p].active \in Nat
  BY StateKnown, Limits DEF CInv
<1>3. PICK s \in Script : /\ s = [script[p] EXCEPT !.state = "Retiring"] /\ s.state = "Retiring"
                          /\ s.bound = script[p].bound /\ s.tokens = script[p].tokens /\ s.active = script[p].active
  <2>1. PICK o : o = [script[p] EXCEPT !.state = "Retiring"]
    OBVIOUS
  <2>2. o \in Script /\ o.state = "Retiring" /\ o.bound = script[p].bound /\ o.tokens = script[p].tokens /\ o.active = script[p].active
    BY <1>2, <2>1 DEF Script
  <2> QED
    BY <2>1, <2>2
<1>4. PICK v : v = retiring
  OBVIOUS
<1>5. v = WithScript(View, p, s)
  BY <1>2, <1>3, <1>4, Seen DEF Views, WithScript
<1>6. /\ Good(v, registered) /\ v.callbacks = callbacks /\ v.resources = resources /\ v.leased = leased /\ v.late = late
      /\ v.script[p] = s /\ \A q \in Scripts \ {p} : v.script[q] = script[q]
      /\ v.script = [script EXCEPT ![p] = s]
  <2>1. Sets(View, v, p, s)
    BY <1>2, <1>3, <1>5 DEF Sets
  <2>2. s.bound = View.script[p].bound /\ s.tokens = View.script[p].tokens /\ s.state # "Absent"
    BY <1>3, Seen
  <2>3. Good(v, registered) /\ Rewrites(View, v, p, s)
    BY <1>2, <2>1, <2>2, StateSet
  <2> QED
    BY <2>3, Seen DEF Rewrites
<1> HIDE DEF retiring
<1>7. CASE script' = v.script /\ Become(v) /\ UNCHANGED stack
  <2>1. script' = [script EXCEPT ![p].state = "Retiring"]
    BY <1>2, <1>3, <1>6, <1>7
  <2>2. UNCHANGED <<registered, leased, nactive, callbacks, resources, depth, stack, tokens, handles, spent, late>>
    BY <1>1, <1>6, <1>7 DEF Become
  <2> QED
    BY <1>1, <2>1, <2>2, StateStep
<1>8. ASSUME script[p].active = 0 PROVE
        LET d == Dying(v, p)
        IN  /\ Good(d, registered) /\ d.callbacks = callbacks /\ d.script[p].active = 0 /\ d.script[p].state = "Retiring"
            /\ d.resources = resources /\ d.leased = leased /\ d.late = late
            /\ \A q \in Scripts \ {p} : d.script[q] = script[q]
  <2>1. Good(Dying(v, p), registered) /\ Dies(v, Dying(v, p), p)
    BY <1>6, DyingView
  <2>2. v.script[p].active = 0
    BY <1>3, <1>6, <1>8
  <2> QED
    BY <1>6, <2>1, <2>2 DEF Dies
<1>9. CASE script[p].active = 0 /\ Enter([kind |-> "stop", script |-> p], Dying(v, p).script) /\ Become(v)
  <2>1. PICK f : f = [kind |-> "stop", script |-> p]
    OBVIOUS
  <2>2. f \in Frame /\ f.script = p /\ f.kind = "stop" /\ IsScript(f)
    BY <2>1 DEF Frame, IsScript
  <2>3. PICK d : d = Dying(v, p)
    OBVIOUS
  <2>4. /\ Good(d, registered) /\ d.callbacks = callbacks /\ d.script[p].active = 0 /\ d.script[p].state = "Retiring"
        /\ d.resources = resources /\ d.leased = leased /\ d.late = late
        /\ \A q \in Scripts \ {p} : d.script[q] = script[q]
    BY <1>8, <1>9, <2>3
  <2>5. Enter(f, d.script) /\ callbacks' = d.callbacks /\ resources' = d.resources /\ leased' = d.leased /\ late' = d.late
    BY <1>6, <1>9, <2>1, <2>3, <2>4 DEF Become
  <2>6. \A i \in 1..Len(stack) : ReturnsTo(d.script, stack[i], tokens)
    BY <1>2, <1>9, <2>4, NotOnStack
  <2>7. \A i \in 1..Len(stack) : stack[i].script # f.script
    BY <1>2, <1>9, <2>2, Inactive
  <2>8. ReturnsTo(d.script, f, tokens)
    BY <2>2, <2>4 DEF ReturnsTo, HasToken
  <2>9. \A q \in Scripts : d.script[q].active = script[q].active
    BY <1>9, <2>4
  <2>10. depth' = depth + (IF f.kind = "token" THEN 1 ELSE 0)
    <3>1. depth \in Nat
      BY <1>2, PicksCount DEF CStack, Counted
    <3> QED
      BY <1>1, <2>2, <3>1
  <2>11. Good(View', registered') /\ CStack(script', stack', nactive', depth', tokens')
    BY <1>1, <2>2, <2>4, <2>5, <2>6, <2>7, <2>8, <2>9, <2>10, EnterStep
  <2>12. Tracked'
    BY <1>1, <1>2, <2>4, <2>5, TrackedStays
  <2> QED
    BY <2>11, <2>12 DEF CInv
<1>10. ASSUME script[p].active = 0, UNCHANGED stack, NEW w \in Cleaned(Dying(v, p), p), Become(w), script' = w.script
       PROVE  CInv'
  <2>1. PICK d : d = Dying(v, p)
    OBVIOUS
  <2>2. /\ Good(d, registered) /\ d.callbacks = callbacks /\ d.script[p].active = 0
        /\ \A q \in Scripts \ {p} : d.script[q] = script[q]
    BY <1>8, <1>10, <2>1
  <2>3. /\ Good(View', registered) /\ script'[p].active = 0
        /\ \A q \in Scripts \ {p} : script'[q] = script[q]
        /\ \A t \in Tokens : callbacks'[t] \in {callbacks[t], None}
    BY <1>10, <2>1, <2>2, CleanEnds
  <2>4. CStack(script', stack, nactive, depth, tokens)
    BY <1>2, <1>10, <2>3, NotOnStack
  <2>5. Tracked'
    BY <1>1, <1>2, <2>3, TrackedStays
  <2> QED
    BY <1>1, <1>10, <2>3, <2>4, <2>5 DEF CInv
<1>11. ~(script[p].active > 0) => script[p].active = 0
  BY <1>2
<1> QED
  BY <1>1, <1>4, <1>7, <1>9, <1>10, <1>11

\* No two calls that manage scripts nest.
KeepsUses(s, z) == \A q \in Scripts : z[q].bound = s[q].bound /\ z[q].state = s[q].state

LEMMA NotManaging ==
    ASSUME CInv, ~Managing, NEW z, KeepsUses(script, z)
    PROVE  \A i \in 1..Len(stack) : ReturnsTo(z, stack[i], tokens) /\ ~Manages(stack[i])
<1> SUFFICES ASSUME NEW i \in 1..Len(stack) PROVE ReturnsTo(z, stack[i], tokens) /\ ~Manages(stack[i])
  OBVIOUS
<1>1. ReturnsTo(script, stack[i], tokens) /\ stack[i] \in Frame
  BY StateKnown DEF CInv, CStack, Returnable
<1>2. ~Manages(stack[i])
  BY DEF Managing, Manages
<1> QED
  BY <1>1, <1>2, FrameFields DEF ReturnsTo, KeepsUses

LEMMA CallScriptStep == ASSUME CInv, NEW p \in Scripts, CallScript(p) PROVE CInv'
<1>1. /\ script[p].state = "Running" /\ Enter([kind |-> "call", script |-> p], script)
      /\ UNCHANGED <<registered, leased, nactive, callbacks, resources, depth, tokens, handles, spent, late>>
  BY DEF CallScript, made, history
<1>2. PICK f : f = [kind |-> "call", script |-> p]
  OBVIOUS
<1>3. f \in Frame /\ f.script = p /\ f.kind = "call" /\ IsScript(f) /\ ~Manages(f)
  BY <1>2 DEF Frame, IsScript, Manages
<1>4. Good(View, registered) /\ CStack(script, stack, nactive, depth, tokens) /\ Tracked /\ depth \in Nat
  BY PicksCount DEF CInv, CStack, Counted
<1>5. \A i \in 1..Len(stack) : ReturnsTo(script, stack[i], tokens)
  BY <1>4 DEF CStack, Returnable
<1>6. \A i \in 1..Len(stack) : stack[i].script = f.script => ~Manages(stack[i])
  BY <1>1, <1>3, <1>5 DEF ReturnsTo, Manages
<1>7. ReturnsTo(script, f, tokens)
  BY <1>1, <1>3 DEF ReturnsTo, HasToken
<1>8. Good(View', registered') /\ CStack(script', stack', nactive', depth', tokens')
  BY <1>1, <1>2, <1>3, <1>4, <1>5, <1>6, <1>7, Seen, EnterStep
<1>9. Tracked'
  BY <1>1, <1>4, TrackedStays
<1> QED
  BY <1>8, <1>9 DEF CInv

LEMMA CallNativeStep == ASSUME CInv, CallCore \/ \E r \in Natives : CallNative(r) PROVE CInv'
<1>1. /\ stack # <<>> /\ IsScript(Top) /\ Len(stack) < MaxStack
      /\ UNCHANGED <<script, registered, leased, callbacks, resources, depth, tokens, handles, spent, late>>
  BY DEF CallNative, CallCore, Room, made, history
<1>2. /\ Good(View, registered) /\ CStack(script, stack, nactive, depth, tokens) /\ Tracked
      /\ nactive \in [Natives -> Nat] /\ Top = Last(stack) /\ Top.script \in Scripts
  BY <1>1, StateKnown DEF CInv, CStack, Counted
<1>3. PICK f \in Frame : /\ ~IsScript(f) /\ f.script = Top.script /\ stack' = Append(stack, f)
                         /\ f.kind = "native" => f.native \in script[f.script].bound
                         /\ nactive' \in [Natives -> Nat]
                         /\ \A r \in Natives : nactive'[r] = nactive[r] + (IF f.kind = "native" /\ r = f.native THEN 1 ELSE 0)
  <2>1. CASE CallCore
    <3>1. PICK f : f = [kind |-> "core", script |-> Top.script]
      OBVIOUS
    <3>2. f \in Frame /\ f.kind = "core" /\ f.script = Top.script /\ ~IsScript(f)
      BY <1>2, <3>1 DEF Frame, IsScript
    <3>3. stack' = Append(stack, f) /\ nactive' = nactive
      BY <2>1, <3>1 DEF CallCore
    <3> QED
      BY <1>2, <3>2, <3>3
  <2>2. ASSUME NEW r \in Natives, CallNative(r)
        PROVE  \E f \in Frame : /\ ~IsScript(f) /\ f.script = Top.script /\ stack' = Append(stack, f)
                                /\ f.kind = "native" => f.native \in script[f.script].bound
                                /\ nactive' \in [Natives -> Nat]
                                /\ \A x \in Natives : nactive'[x] = nactive[x] + (IF f.kind = "native" /\ x = f.native THEN 1 ELSE 0)
    <3>1. PICK f : f = [kind |-> "native", script |-> Top.script, native |-> r]
      OBVIOUS
    <3>2. f \in Frame /\ f.kind = "native" /\ f.script = Top.script /\ f.native = r /\ ~IsScript(f)
      BY <1>2, <3>1 DEF Frame, IsScript
    <3>3. stack' = Append(stack, f) /\ nactive' = [nactive EXCEPT ![r] = @ + 1] /\ r \in script[Top.script].bound
      BY <2>2, <3>1 DEF CallNative
    <3> QED
      BY <1>2, <3>2, <3>3
  <2> QED
    BY <2>1, <2>2
<1>4. CStack(script, stack', nactive', depth, tokens)
  BY <1>1, <1>2, <1>3, NativePushed
<1>5. Tracked' /\ View' = View
  BY <1>1, <1>2 DEF View, Tracked
<1> QED
  BY <1>1, <1>2, <1>4, <1>5 DEF CInv

LEMMA NativeReturnStep == ASSUME CInv, NativeReturn PROVE CInv'
<1>1. /\ stack # <<>> /\ ~IsScript(Top) /\ stack' = Front(stack)
      /\ nactive' = IF Top.kind = "core" THEN nactive ELSE [nactive EXCEPT ![Top.native] = @ - 1]
      /\ UNCHANGED <<script, registered, leased, callbacks, resources, depth, tokens, handles, spent, late>>
  BY DEF NativeReturn, made, history
<1>2. Good(View, registered) /\ CStack(script, stack, nactive, depth, tokens) /\ Tracked /\ Top = Last(stack)
  BY <1>1, StateKnown DEF CInv
<1>3. CStack(script, stack', nactive', depth, tokens)
  BY <1>1, <1>2, NativePopped
<1>4. Tracked' /\ View' = View
  BY <1>1, <1>2 DEF View, Tracked
<1> QED
  BY <1>1, <1>2, <1>3, <1>4 DEF CInv

\* A script keeps its calls while a token comes or goes.
LEMMA TokensChange ==
    ASSUME CInv, NEW w, Good(w, registered), SameCalls(View, w), NEW tk, tk \in Nat, tokens <= tk
    PROVE  CStack(w.script, stack, nactive, depth, tk)
<1>1. CStack(script, stack, nactive, depth, tokens)
  BY DEF CInv
<1>2. \A q \in Scripts : /\ w.script[q].bound = script[q].bound /\ w.script[q].state = script[q].state
                         /\ w.script[q].active = script[q].active
  BY Seen DEF SameCalls
<1>3. ASSUME NEW i \in 1..Len(stack) PROVE ReturnsTo(w.script, stack[i], tk)
  <2>1. ReturnsTo(script, stack[i], tokens) /\ stack[i] \in Frame /\ tokens \in Nat
    BY <1>1, StateKnown DEF CStack, Returnable
  <2>2. HasToken(stack[i]) => stack[i].token \in Nat
    BY <2>1, FrameFields, Limits DEF Tokens
  <2> QED
    BY <1>2, <2>1, <2>2, FrameFields DEF ReturnsTo
<1> QED
  BY <1>1, <1>2, <1>3, StackStays

\* CancelCallback, and RetainCallback of a script that retires.
LEMMA CancelStep ==
    ASSUME CInv, NEW t \in Tokens, script' = Cancel(View, t).script, callbacks' = Cancel(View, t).callbacks,
           UNCHANGED <<registered, leased, nactive, resources, depth, stack, tokens, handles, spent, late>>
    PROVE  CInv'
<1>1. PICK w : w = Cancel(View, t)
  OBVIOUS
<1>2. Good(View, registered) /\ Tracked /\ tokens \in Nat
  BY StateKnown DEF CInv
<1>3. /\ Good(w, registered) /\ SameCalls(View, w)
      /\ w.resources = resources /\ w.leased = leased /\ w.late = late
      /\ \A x \in Tokens : w.callbacks[x] \in {callbacks[x], None}
  BY <1>1, <1>2, CancelView, Seen
<1>4. View' = w
  BY <1>1, <1>3, Becomes DEF Good
<1>5. CStack(script', stack, nactive, depth, tokens)
  BY <1>1, <1>2, <1>3, TokensChange
<1>6. Tracked'
  BY <1>1, <1>2, <1>3, TrackedStays
<1> QED
  BY <1>3, <1>4, <1>5, <1>6 DEF CInv

LEMMA RetainStep == ASSUME CInv, NEW t \in Tokens, CancelCallback(t) \/ RetainCallback(t) PROVE CInv'
<1>1. /\ callbacks[t] # None
      /\ UNCHANGED <<registered, leased, nactive, resources, depth, stack, tokens, handles, spent, late>>
  BY DEF CancelCallback, RetainCallback, made, history
<1>2. CASE script' = Cancel(View, t).script /\ callbacks' = Cancel(View, t).callbacks
  BY <1>1, <1>2, CancelStep
<1>3. CASE callbacks' = [callbacks EXCEPT ![t].persistent = TRUE] /\ UNCHANGED script
  <2>1. Good(View, registered) /\ Tracked /\ CStack(script, stack, nactive, depth, tokens)
        /\ callbacks \in [Tokens -> Callback \cup {None}] /\ View \in Views
    BY StateKnown DEF CInv
  <2>2. PICK c \in Callback : /\ c = [callbacks[t] EXCEPT !.persistent = TRUE]
                              /\ c.script = callbacks[t].script /\ c.ext = callbacks[t].ext
    <3>1. callbacks[t] \in Callback
      BY <1>1, <2>1
    <3>2. PICK o : o = [callbacks[t] EXCEPT !.persistent = TRUE]
      OBVIOUS
    <3>3. o \in Callback /\ o.script = callbacks[t].script /\ o.ext = callbacks[t].ext
      BY <3>1, <3>2 DEF Callback
    <3> QED
      BY <3>2, <3>3
  <2>3. c # None
    BY Limits
  <2>4. callbacks' \in [Tokens -> Callback \cup {None}] /\ callbacks'[t] = c /\ \A x \in Tokens \ {t} : callbacks'[x] = callbacks[x]
    BY <1>3, <2>1, <2>2
  <2>5. /\ View'.script = script /\ View'.callbacks = callbacks' /\ View'.resources = resources
        /\ View'.leased = leased /\ View'.late = late
    BY <1>1, <1>3 DEF View
  <2>6. View' \in Views
    <3>1. View = [script |-> script, callbacks |-> callbacks, resources |-> resources, leased |-> leased, late |-> late]
          /\ View' = [script |-> script, callbacks |-> callbacks', resources |-> resources, leased |-> leased, late |-> late]
      BY <1>1, <1>3 DEF View
    <3>2. /\ script \in [Scripts -> Script] /\ resources \in [Resources -> Resource \cup {None}]
          /\ leased \in SUBSET Exts /\ late \in SUBSET Resources
      BY <2>1, Seen, ViewFields
    <3> QED
      BY <2>4, <3>1, <3>2 DEF Views
  <2>7. \A x \in Tokens : /\ callbacks'[x] # None <=> callbacks[x] # None
                          /\ callbacks[x] # None => callbacks'[x].script = callbacks[x].script /\ callbacks'[x].ext = callbacks[x].ext
    BY <1>1, <2>2, <2>3, <2>4
  <2>8. TokensMatch(View')
    BY <2>1, <2>5, <2>7, Seen DEF Good, TokensMatch
  <2>9. TokensBacked(View')
    BY <2>1, <2>5, <2>7, Seen DEF Good, TokensBacked, Backed
  <2>10. HandlesBacked(View') /\ Leasing(View') /\ Binding(View', registered) /\ View'.late = {}
    BY <2>1, <2>5, Seen DEF Good, HandlesBacked, Backed, Leasing, Binding
  <2>11. Good(View', registered')
    BY <1>1, <2>6, <2>8, <2>9, <2>10 DEF Good
  <2>12. Tracked'
    <3>1. spent \subseteq Tokens
      BY <2>1 DEF Tracked
    <3> QED
      BY <1>1, <2>1, <2>7, <3>1 DEF Tracked
  <2> QED
    BY <1>1, <1>3, <2>1, <2>11, <2>12 DEF CInv
<1> QED
  BY <1>2, <1>3 DEF CancelCallback, RetainCallback

LEMMA DeliverStep == ASSUME CInv, NEW t \in Tokens, DeliverCallback(t) PROVE CInv'
<1>1. /\ callbacks[t] # None /\ ~Managing /\ script[callbacks[t].script].state = "Running"
      /\ Enter([kind |-> "once", script |-> callbacks[t].script, token |-> t], Cancel(View, t).script)
      /\ callbacks' = Cancel(View, t).callbacks /\ spent' = spent \cup {t}
      /\ UNCHANGED <<registered, leased, nactive, resources, depth, tokens, handles, late>>
  BY DEF DeliverCallback, Consumed, made
<1>2. PICK p \in Scripts : p = callbacks[t].script
  BY <1>1, StateKnown
<1>3. PICK f : f = [kind |-> "once", script |-> p, token |-> t]
  OBVIOUS
<1>4. f \in Frame /\ f.script = p /\ f.kind = "once" /\ f.token = t /\ IsScript(f)
  BY <1>3 DEF Frame, IsScript
<1>5. PICK w : w = Cancel(View, t)
  OBVIOUS
<1>6. Good(View, registered) /\ Tracked /\ CStack(script, stack, nactive, depth, tokens) /\ depth \in Nat /\ tokens \in Nat
  BY PicksCount, StateKnown DEF CInv, CStack, Counted
<1>7. /\ Good(w, registered) /\ SameCalls(View, w) /\ w.callbacks[t] = None
      /\ w.resources = resources /\ w.leased = leased /\ w.late = late
      /\ \A x \in Tokens : w.callbacks[x] \in {callbacks[x], None}
  BY <1>5, <1>6, CancelView, Seen
<1>8. \A q \in Scripts : /\ w.script[q].bound = script[q].bound /\ w.script[q].state = script[q].state
                         /\ w.script[q].active = script[q].active
  BY <1>7, Seen DEF SameCalls
<1>9. \A i \in 1..Len(stack) : ReturnsTo(w.script, stack[i], tokens) /\ ~Manages(stack[i])
  <2>1. KeepsUses(script, w.script)
    BY <1>8 DEF KeepsUses
  <2> QED
    BY <1>1, <2>1, NotManaging
<1>10. t <= tokens
  BY <1>1, <1>6 DEF Tracked
<1>11. ReturnsTo(w.script, f, tokens)
  BY <1>1, <1>2, <1>4, <1>8, <1>10 DEF ReturnsTo
<1>12. /\ Enter(f, w.script) /\ callbacks' = w.callbacks /\ resources' = w.resources /\ leased' = w.leased /\ late' = w.late
       /\ depth' = depth + (IF f.kind = "token" THEN 1 ELSE 0) /\ ~Manages(f)
  BY <1>1, <1>2, <1>3, <1>4, <1>5, <1>6, <1>7 DEF Manages
<1>13. Good(View', registered') /\ CStack(script', stack', nactive', depth', tokens')
  BY <1>1, <1>4, <1>7, <1>8, <1>9, <1>11, <1>12, EnterStep
<1>14. Tracked'
  BY <1>1, <1>6, <1>7, <1>10, <1>12 DEF Tracked
<1> QED
  BY <1>13, <1>14 DEF CInv

LEMMA InvokeStep == ASSUME CInv, NEW t \in Tokens, InvokeCallback(t) PROVE CInv'
<1>1. /\ callbacks[t] # None /\ ~Managing /\ script[callbacks[t].script].state = "Running"
      /\ Enter([kind |-> "token", script |-> callbacks[t].script, token |-> t], script) /\ depth' = depth + 1
      /\ UNCHANGED <<registered, leased, nactive, callbacks, resources, tokens, handles, spent, late>>
  BY DEF InvokeCallback, made, history
<1>2. PICK p \in Scripts : p = callbacks[t].script
  BY <1>1, StateKnown
<1>3. PICK f : f = [kind |-> "token", script |-> p, token |-> t]
  OBVIOUS
<1>4. f \in Frame /\ f.script = p /\ f.kind = "token" /\ f.token = t /\ IsScript(f)
  BY <1>3 DEF Frame, IsScript
<1>5. Good(View, registered) /\ Tracked /\ tokens \in Nat
  BY StateKnown DEF CInv
<1>6. \A i \in 1..Len(stack) : ReturnsTo(script, stack[i], tokens) /\ ~Manages(stack[i])
  <2>1. KeepsUses(script, script)
    BY DEF KeepsUses
  <2> QED
    BY <1>1, <2>1, NotManaging
<1>7. t <= tokens
  BY <1>1, <1>5 DEF Tracked
<1>8. ReturnsTo(script, f, tokens)
  BY <1>1, <1>2, <1>4, <1>7 DEF ReturnsTo
<1>9. Enter(f, script) /\ depth' = depth + (IF f.kind = "token" THEN 1 ELSE 0)
  BY <1>1, <1>2, <1>3, <1>4
<1>10. Good(View', registered') /\ CStack(script', stack', nactive', depth', tokens')
  <2>1. ~Manages(f)
    BY <1>4 DEF Manages
  <2>2. PICK v : v = View
    OBVIOUS
  <2>3. /\ Good(v, registered) /\ Enter(f, v.script)
        /\ callbacks' = v.callbacks /\ resources' = v.resources /\ leased' = v.leased /\ late' = v.late
        /\ \A q \in Scripts : v.script[q].active = script[q].active
        /\ \A i \in 1..Len(stack) : ReturnsTo(v.script, stack[i], tokens)
        /\ ReturnsTo(v.script, f, tokens)
    BY <1>1, <1>5, <1>6, <1>8, <1>9, <2>2, Seen
  <2> QED
    BY <1>1, <1>4, <1>6, <1>9, <2>1, <2>3, EnterStep
<1>11. Tracked'
  BY <1>1, <1>5, TrackedStays
<1> QED
  BY <1>10, <1>11 DEF CInv

\* A native that runs is bound, and its extension leased.
LEMMA RunningNative ==
    ASSUME CInv, InNative
    PROVE  /\ Top \in Frame /\ Top.script \in Scripts /\ Top.native \in Natives /\ ExtOf[Top.native] \in Exts
           /\ Top.native \in script[Top.script].bound /\ script[Top.script].state # "Absent"
           /\ ExtOf[Top.native] \in leased /\ late = {}
           /\ [script |-> Top.script, ext |-> ExtOf[Top.native]] \in Resource
           /\ [script |-> Top.script, ext |-> ExtOf[Top.native], persistent |-> FALSE] \in Callback
<1>1. stack # <<>> /\ Top.kind = "native"
  BY DEF InNative
<1>2. Top \in Frame /\ Top.script \in Scripts /\ Top = stack[Len(stack)] /\ Len(stack) \in 1..Len(stack)
  BY <1>1, StateKnown
<1>3. Top.native \in Natives
  BY <1>1, <1>2, FrameFields
<1>4. ReturnsTo(script, Top, tokens)
  BY <1>2 DEF CInv, CStack, Returnable
<1>5. ExtOf[Top.native] \in Exts
  BY <1>3, Limits
<1>6. Top.native \in script[Top.script].bound /\ script[Top.script].state # "Absent"
  BY <1>1, <1>4 DEF ReturnsTo
<1>7. ExtOf[Top.native] \in leased /\ late = {}
  BY <1>2, <1>5, <1>6, Seen DEF CInv, Good, Leasing
<1> QED
  BY <1>2, <1>3, <1>5, <1>6, <1>7 DEF Resource, Callback

LEMMA CaptureStep == ASSUME CInv, CaptureCallback PROVE CInv'
<1>1. /\ InNative /\ tokens < MaxTokens /\ tokens' = tokens + 1
      /\ script' = [script EXCEPT ![Top.script].tokens = @ \cup {tokens'}]
      /\ callbacks' = [callbacks EXCEPT ![tokens'] =
             [script |-> Top.script, ext |-> ExtOf[Top.native], persistent |-> FALSE]]
      /\ UNCHANGED <<registered, leased, nactive, resources, depth, stack, handles, spent, late>>
  BY DEF CaptureCallback, history
<1>2. /\ Good(View, registered) /\ Tracked /\ CStack(script, stack, nactive, depth, tokens) /\ tokens \in Nat
      /\ View \in Views /\ callbacks \in [Tokens -> Callback \cup {None}] /\ script \in [Scripts -> Script]
  BY StateKnown DEF CInv
<1>3. PICK p \in Scripts : p = Top.script
  BY <1>1, RunningNative
<1>4. PICK t \in Tokens : t = tokens + 1 /\ callbacks[t] = None
  BY <1>1, <1>2, Limits DEF Tokens, Tracked
<1>5. PICK c \in Callback : c = [script |-> p, ext |-> ExtOf[Top.native], persistent |-> FALSE]
                            /\ c.script = p /\ c.ext = ExtOf[Top.native] /\ c # None
  BY <1>1, <1>3, RunningNative, Limits
<1>6. script[p] \in Script /\ script[p].tokens \cup {t} \in SUBSET Tokens
  BY <1>2 DEF Script
<1>7. PICK s \in Script : /\ s = [script[p] EXCEPT !.tokens = script[p].tokens \cup {t}] /\ s.tokens = script[p].tokens \cup {t}
                          /\ s.bound = script[p].bound /\ s.state = script[p].state /\ s.active = script[p].active
  <2>1. PICK o : o = [script[p] EXCEPT !.tokens = script[p].tokens \cup {t}]
    OBVIOUS
  <2>2. o \in Script /\ o.tokens = script[p].tokens \cup {t} /\ o.bound = script[p].bound /\ o.state = script[p].state /\ o.active = script[p].active
    BY <1>6, <2>1 DEF Script
  <2> QED
    BY <2>1, <2>2
<1>8. callbacks' = [callbacks EXCEPT ![t] = c] /\ script' = [script EXCEPT ![p] = s]
  BY <1>1, <1>2, <1>3, <1>4, <1>5, <1>7
<1>9. /\ callbacks' \in [Tokens -> Callback \cup {None}] /\ callbacks'[t] = c
      /\ \A x \in Tokens \ {t} : callbacks'[x] = callbacks[x]
      /\ script' \in [Scripts -> Script] /\ script'[p] = s /\ \A q \in Scripts \ {p} : script'[q] = script[q]
  BY <1>2, <1>8
<1>10. PICK w : w = [script |-> script', callbacks |-> callbacks', resources |-> resources, leased |-> leased, late |-> late]
  OBVIOUS
<1>11. w \in Views
  <2>1. /\ resources \in [Resources -> Resource \cup {None}]
        /\ leased \in SUBSET Exts /\ late \in SUBSET Resources
    BY <1>2, Seen, ViewFields
  <2> QED
    BY <1>9, <1>10, <2>1 DEF Views
<1>12. View' = w /\ w.script = script' /\ w.callbacks = callbacks' /\ w.resources = resources
       /\ w.leased = leased /\ w.late = late
  BY <1>1, <1>10 DEF View
<1>13. SameCalls(View, w)
  BY <1>7, <1>9, <1>12, Seen DEF SameCalls
<1>14. TokensMatch(w)
  <2>1. ASSUME NEW q \in Scripts, NEW x \in Tokens
        PROVE  x \in script'[q].tokens <=> callbacks'[x] # None /\ callbacks'[x].script = q
    <3>1. x \in script[q].tokens <=> callbacks[x] # None /\ callbacks[x].script = q
      BY <1>2, Seen DEF Good, TokensMatch
    <3>2. script'[q].tokens = script[q].tokens \cup (IF q = p THEN {t} ELSE {})
      <4>1. CASE q = p
        BY <1>7, <1>9, <4>1
      <4>2. CASE q # p
        BY <1>9, <4>2
      <4> QED
        BY <4>1, <4>2
    <3>3. CASE x = t
      <4>1. callbacks'[x] # None /\ callbacks'[x].script = p /\ x \notin script[q].tokens
        BY <1>4, <1>5, <1>9, <3>1, <3>3
      <4> QED
        BY <3>2, <3>3, <4>1
    <3>4. CASE x # t
      <4>1. callbacks'[x] = callbacks[x]
        BY <1>9, <3>4
      <4> QED
        BY <3>1, <3>2, <3>4, <4>1
    <3> QED
      BY <3>3, <3>4
  <2> QED
    BY <1>12, <2>1 DEF TokensMatch
<1>15. TokensBacked(w)
  <2>1. ASSUME NEW x \in Tokens, callbacks'[x] # None PROVE Backed(w, callbacks'[x])
    <3>1. CASE x = t
      <4>1. Top.native \in script[p].bound
        BY <1>1, <1>3, RunningNative
      <4>2. w.script[p].bound = script[p].bound
        BY <1>7, <1>9, <1>12
      <4>3. callbacks'[x].script = p /\ callbacks'[x].ext = ExtOf[Top.native]
        BY <1>5, <1>9, <3>1
      <4> QED
        BY <4>1, <4>2, <4>3 DEF Backed
    <3>2. CASE x # t
      <4>1. Backed(View, callbacks[x]) /\ callbacks'[x] = callbacks[x] /\ callbacks[x].script \in Scripts
        BY <1>2, <1>9, <2>1, <3>2, Seen, StateKnown DEF Good, TokensBacked
      <4> QED
        BY <1>13, <4>1 DEF Backed, SameCalls
    <3> QED
      BY <3>1, <3>2
  <2> QED
    BY <1>12, <2>1 DEF TokensBacked
<1>16. HandlesBacked(w)
  BY <1>2, <1>12, <1>13, ViewFields, Seen DEF Good, HandlesBacked, Backed, SameCalls
<1>17. Leasing(w) /\ Binding(w, registered) /\ w.late = {}
  BY <1>2, <1>12, <1>13, Seen DEF Good, Leasing, Binding, SameCalls
<1>18. Good(View', registered')
  BY <1>1, <1>11, <1>12, <1>14, <1>15, <1>16, <1>17 DEF Good
<1>19. CStack(script', stack', nactive', depth', tokens')
  <2>1. Good(w, registered)
    BY <1>11, <1>14, <1>15, <1>16, <1>17 DEF Good
  <2> QED
    BY <1>1, <1>2, <1>4, <1>12, <1>13, <2>1, TokensChange
<1>20. Tracked'
  <2>1. tokens' \in 0..MaxTokens /\ handles' = handles /\ spent' = spent /\ registered' = registered
    BY <1>1, <1>2, Limits
  <2>2. ASSUME NEW x \in Tokens, callbacks'[x] # None PROVE x <= tokens'
    <3>1. x \in Nat /\ t = tokens + 1 /\ tokens' = tokens + 1 /\ tokens \in Nat
      BY <1>1, <1>2, <1>4, Limits DEF Tokens
    <3>2. CASE x = t
      BY <3>1, <3>2
    <3>3. CASE x # t
      <4>1. x <= tokens
        BY <1>2, <1>9, <2>2, <3>3 DEF Tracked
      <4> QED
        BY <3>1, <4>1
    <3> QED
      BY <3>2, <3>3
  <2>3. ASSUME NEW x \in spent PROVE x <= tokens' /\ callbacks'[x] = None
    <3>1. x \in Tokens /\ x <= tokens /\ callbacks[x] = None
      BY <1>2 DEF Tracked
    <3>2. x \in Nat /\ t = tokens + 1 /\ tokens' = tokens + 1 /\ tokens \in Nat
      BY <1>1, <1>2, <1>4, <3>1, Limits DEF Tokens
    <3>3. x # t /\ x <= tokens'
      BY <3>1, <3>2
    <3> QED
      BY <1>9, <3>1, <3>3
  <2> QED
    BY <1>2, <2>1, <2>2, <2>3 DEF Tracked
<1> QED
  BY <1>18, <1>19, <1>20 DEF CInv

\* A native makes a resource of its extension, or closes one.
LEMMA ResourceStep == ASSUME CInv, CreateResource \/ \E h \in Resources : CloseResource(h) PROVE CInv'
<1>1. InNative /\ UNCHANGED <<script, registered, leased, nactive, callbacks, depth, stack, tokens, spent>>
  BY DEF CreateResource, CloseResource, history, made
<1>2. /\ Good(View, registered) /\ Tracked /\ CStack(script, stack, nactive, depth, tokens)
      /\ View \in Views /\ resources \in [Resources -> Resource \cup {None}]
  BY StateKnown DEF CInv
<1>3. PICK c \in Resource : c = [script |-> Top.script, ext |-> ExtOf[Top.native]]
                            /\ c.script = Top.script /\ c.ext = ExtOf[Top.native]
  BY <1>1, RunningNative
<1>4. PICK h \in Resources, x \in {c, None} :
        resources' = [resources EXCEPT ![h] = x] /\ late' = late /\ handles' \in 0..MaxResources
  <2>1. CASE CreateResource
    <3>1. handles' = handles + 1 /\ handles < MaxResources /\ handles \in 0..MaxResources
      BY <1>2, <2>1 DEF CreateResource, Tracked
    <3>2. handles' \in Resources /\ handles' \in 0..MaxResources
      BY <3>1, Limits DEF Resources
    <3> QED
      BY <1>3, <2>1, <3>2 DEF CreateResource, history
  <2>2. ASSUME NEW h \in Resources, CloseResource(h)
        PROVE  resources' = [resources EXCEPT ![h] = None] /\ late' = late /\ handles' \in 0..MaxResources
    BY <1>1, <1>2, <2>2, RunningNative DEF CloseResource, made, Tracked
  <2> QED
    BY <2>1, <2>2
<1>5. /\ resources' \in [Resources -> Resource \cup {None}] /\ resources'[h] = x
      /\ \A y \in Resources \ {h} : resources'[y] = resources[y]
  BY <1>2, <1>4
<1>6. PICK w : w = [script |-> script, callbacks |-> callbacks, resources |-> resources', leased |-> leased, late |-> late]
  OBVIOUS
<1>7. w \in Views
  <2>1. /\ script \in [Scripts -> Script] /\ callbacks \in [Tokens -> Callback \cup {None}]
        /\ leased \in SUBSET Exts /\ late \in SUBSET Resources
    BY <1>2, Seen, ViewFields
  <2> QED
    BY <1>5, <1>6, <2>1 DEF Views
<1>8. View' = w /\ w.script = script /\ w.callbacks = callbacks /\ w.resources = resources'
      /\ w.leased = leased /\ w.late = late
  BY <1>1, <1>4, <1>6 DEF View
<1>9. HandlesBacked(w)
  <2>1. ASSUME NEW y \in Resources, resources'[y] # None PROVE Backed(w, resources'[y])
    <3>1. CASE y = h
      BY <1>1, <1>3, <1>4, <1>5, <1>8, <2>1, <3>1, RunningNative DEF Backed
    <3>2. CASE y # h
      BY <1>2, <1>5, <1>8, <2>1, <3>2, Seen DEF Good, HandlesBacked, Backed
    <3> QED
      BY <3>1, <3>2
  <2> QED
    BY <1>8, <2>1 DEF HandlesBacked
<1>10. TokensMatch(w) /\ TokensBacked(w) /\ Leasing(w) /\ Binding(w, registered) /\ w.late = {}
  BY <1>2, <1>8, Seen DEF Good, TokensMatch, TokensBacked, Backed, Leasing, Binding
<1>11. Good(View', registered')
  BY <1>1, <1>7, <1>8, <1>9, <1>10 DEF Good
<1>12. Tracked'
  BY <1>1, <1>2, <1>4 DEF Tracked
<1> QED
  BY <1>1, <1>2, <1>11, <1>12 DEF CInv

\* A call into a script ends, whichever call it was, and whether it failed.
LEMMA ScriptReturnStep == ASSUME CInv, NEW ok \in BOOLEAN, ScriptReturn(ok) PROVE CInv'
<1>1. PICK f : f = Top
  OBVIOUS
<1>2. PICK v : v = Exited(View, f, ok)
  OBVIOUS
<1>3. PICK p : p = f.script
  OBVIOUS
<1>4. /\ stack # <<>> /\ IsScript(f) /\ stack' = Front(stack) /\ UNCHANGED <<registered, nactive, tokens, handles>>
      /\ depth' = IF f.kind = "token" THEN depth - 1 ELSE depth
      /\ spent' = IF f.kind = "token" /\ ~ok THEN spent \cup {f.token} ELSE spent
  BY <1>1 DEF ScriptReturn, made, DepthAfter
<1>5. (CASE f.kind = "start" ->
              \/ ok /\ (\E s \in {"Running", "Loading"} :
                          script' = [v.script EXCEPT ![p].state = s, ![p].listed = TRUE])
                    /\ Become(v)
              \/ \E w \in Cleaned(Dying(v, p), p) : script' = Listed(w, p).script /\ Become(w)
        [] f.kind = "stop" -> \E w \in Cleaned(v, p) : script' = w.script /\ Become(w)
        [] OTHER -> script' = v.script /\ Become(v))
  BY <1>1, <1>2, <1>3 DEF ScriptReturn
<1>6. /\ Good(View, registered) /\ Tracked /\ CStack(script, stack, nactive, depth, tokens)
      /\ stack \in Seq(Frame) /\ depth \in Nat /\ f \in Frame /\ p \in Scripts /\ f = Last(stack)
      /\ Len(stack) \in 1..Len(stack) /\ f = stack[Len(stack)] /\ \A q \in Scripts : script[q].active \in Nat
  BY <1>1, <1>3, <1>4, StateKnown, PicksCount DEF CInv, CStack, Counted
<1>7. script[p].state # "Absent" /\ script[p].active > 0 /\ ReturnsTo(script, f, tokens)
  BY <1>1, <1>3, <1>4, <1>6, ActiveCounts DEF CStack, Returnable, ReturnsTo
<1>8. /\ Good(v, registered) /\ v.resources = resources /\ v.leased = leased /\ v.late = late
      /\ \A q \in Scripts :
            /\ v.script[q].bound = script[q].bound
            /\ v.script[q].active = script[q].active - (IF q = p THEN 1 ELSE 0)
            /\ v.script[q].state = script[q].state \/ (q = p /\ v.script[q].state = "Retiring")
      /\ \A t \in Tokens : v.callbacks[t] \in {callbacks[t], None}
      /\ f.kind = "token" /\ ~ok => v.callbacks[f.token] = None
  BY <1>2, <1>3, <1>6, <1>7, Seen, ExitedView
<1>9. depth' = depth - (IF f.kind = "token" THEN 1 ELSE 0)
  BY <1>4, <1>6
<1>10. /\ Len(Front(stack)) = Len(stack) - 1 /\ \A i \in 1..Len(stack) - 1 : Front(stack)[i] = stack[i]
       /\ Front(stack) \in Seq(Frame) /\ \A i \in 1..Len(stack) : stack[i] \in Frame
  BY <1>4, <1>6, Unwound
<1>11. ASSUME \A t \in Tokens : callbacks'[t] \in {callbacks[t], None},
              f.kind = "token" /\ ~ok => callbacks'[f.token] = None
       PROVE  Tracked'
  <2>1. f.kind = "token" => f.token \in Tokens /\ f.token <= tokens
    BY <1>6, <1>7, FrameFields DEF ReturnsTo, HasToken
  <2>2. CASE f.kind = "token" /\ ~ok
    BY <1>4, <1>6, <1>11, <2>1, <2>2 DEF Tracked
  <2>3. CASE ~(f.kind = "token" /\ ~ok)
    BY <1>4, <1>6, <1>11, <2>3, TrackedStays
  <2> QED
    BY <2>2, <2>3
<1>12. CASE ~Manages(f)
  <2>1. script' = v.script /\ Become(v)
    BY <1>5, <1>12 DEF Manages
  <2>2. callbacks' = v.callbacks /\ resources' = v.resources /\ leased' = v.leased /\ late' = v.late
    BY <2>1 DEF Become
  <2>3. View' = v
    BY <1>8, <2>1, <2>2, Becomes DEF Good
  <2>4. ASSUME NEW i \in 1..Len(Front(stack)) PROVE ReturnsTo(script', Front(stack)[i], tokens)
    <3>1. i \in 1..Len(stack) /\ Front(stack)[i] = stack[i] /\ stack[i] \in Frame /\ i # Len(stack)
      BY <1>6, <1>10
    <3>2. ReturnsTo(script, stack[i], tokens) /\ stack[i].script \in Scripts
      BY <1>6, <3>1, FrameFields DEF CStack, Returnable
    <3>3. Manages(stack[i]) => stack[i].script # p
      BY <1>3, <1>4, <1>6, <3>1 DEF CStack, Alone
    <3> QED
      BY <1>8, <2>1, <3>1, <3>2, <3>3 DEF ReturnsTo, Manages
  <2>5. CStack(script', Front(stack), nactive, depth', tokens)
    <3>1. \A q \in Scripts : v.script[q].active = script[q].active - (IF q = Last(stack).script THEN 1 ELSE 0)
      BY <1>3, <1>4, <1>6, <1>8
    <3>2. Leaves(script, stack, depth, script', depth', tokens)
      BY <1>4, <1>6, <1>9, <2>1, <2>4, <3>1 DEF Leaves
    <3> QED
      BY <1>6, <3>2, ScriptPopped
  <2>6. Tracked'
    BY <1>8, <1>11, <2>2
  <2> QED
    BY <1>4, <1>8, <2>3, <2>5, <2>6 DEF CInv
<1>13. CASE Manages(f)
  <2>1. \A i \in 1..Len(Front(stack)) : Front(stack)[i].script # p
    BY <1>3, <1>4, <1>6, <1>13, TopManages DEF CStack
  <2>2. f.kind # "token"
    BY <1>13 DEF Manages
  <2>3. v.script[p].active = 0
    <3>1. Cardinality(Picks(Front(stack), CallsOf(p))) = 0
      <4>1. \A i \in 1..Len(Front(stack)) : Front(stack)[i] \notin CallsOf(p)
        BY <2>1 DEF CallsOf
      <4> QED
        BY <1>10, <4>1, PicksCount
    <3>2. f \in CallsOf(p)
      BY <1>3, <1>4, <1>6 DEF CallsOf
    <3>3. Cardinality(Picks(Front(stack), CallsOf(p))) = Cardinality(Picks(stack, CallsOf(p))) - 1
      BY <1>4, <1>6, <3>2, Unwound
    <3> QED
      BY <1>6, <1>8, <3>1, <3>3 DEF CStack, Counted
  <2>4. ASSUME Good(View', registered), script'[p].active = 0, \A q \in Scripts \ {p} : script'[q] = v.script[q],
               \A t \in Tokens : callbacks'[t] \in {callbacks[t], None}
        PROVE  CInv'
    <3>1. \A q \in Scripts : script'[q].active = script[q].active - (IF q = p THEN 1 ELSE 0)
      BY <1>8, <2>3, <2>4
    <3>2. ASSUME NEW i \in 1..Len(Front(stack)) PROVE ReturnsTo(script', Front(stack)[i], tokens)
      <4>1. i \in 1..Len(stack) /\ Front(stack)[i] = stack[i] /\ stack[i] \in Frame
        BY <1>6, <1>10
      <4>2. ReturnsTo(script, stack[i], tokens) /\ stack[i].script \in Scripts \ {p}
        BY <1>6, <2>1, <4>1, FrameFields DEF CStack, Returnable
      <4> QED
        BY <1>8, <2>4, <4>1, <4>2 DEF ReturnsTo
    <3>3. CStack(script', Front(stack), nactive, depth', tokens)
      <4>1. Leaves(script, stack, depth, script', depth', tokens)
        BY <1>3, <1>4, <1>6, <1>9, <3>1, <3>2 DEF Leaves
      <4> QED
        BY <1>6, <4>1, ScriptPopped
    <3>4. Tracked'
      BY <1>11, <2>2, <2>4
    <3> QED
      BY <1>4, <2>4, <3>3, <3>4 DEF CInv
  <2>5. ASSUME ok, NEW s \in {"Running", "Loading"}, script' = [v.script EXCEPT ![p].state = s, ![p].listed = TRUE],
               Become(v)
        PROVE  CInv'
    <3>1. v \in Views /\ v.script[p] \in Script
      BY <1>6, <1>8, ViewFields DEF Good
    <3>2. PICK a \in Script : /\ a = [v.script[p] EXCEPT !.state = s, !.listed = TRUE] /\ a.state = s
                              /\ a.bound = v.script[p].bound /\ a.tokens = v.script[p].tokens
                              /\ a.active = v.script[p].active
      <4>1. PICK o : o = [v.script[p] EXCEPT !.state = s, !.listed = TRUE]
        OBVIOUS
      <4>2. /\ o \in Script /\ o.state = s /\ o.bound = v.script[p].bound /\ o.tokens = v.script[p].tokens
            /\ o.active = v.script[p].active
        BY <3>1, <4>1 DEF Script
      <4> QED
        BY <4>1, <4>2
    <3>3. PICK w : w = WithScript(v, p, a)
      OBVIOUS
    <3>4. /\ Good(w, registered) /\ w.callbacks = v.callbacks /\ w.resources = v.resources /\ w.leased = v.leased
          /\ w.late = v.late /\ w.script[p] = a /\ \A q \in Scripts \ {p} : w.script[q] = v.script[q]
          /\ w.script = [v.script EXCEPT ![p] = a]
      <4>1. Sets(v, w, p, a)
        BY <1>6, <3>1, <3>2, <3>3 DEF Sets
      <4>2. a.bound = v.script[p].bound /\ a.tokens = v.script[p].tokens /\ a.state # "Absent" /\ Good(v, registered)
        BY <1>8, <3>2
      <4>3. Good(w, registered) /\ Rewrites(v, w, p, a)
        BY <4>1, <4>2, StateSet
      <4> QED
        BY <4>3 DEF Rewrites
    <3>5. script' = w.script
      BY <1>6, <2>5, <3>1, <3>2, <3>4 DEF Views
    <3>6. callbacks' = v.callbacks /\ resources' = v.resources /\ leased' = v.leased /\ late' = v.late
      BY <2>5 DEF Become
    <3>7. View' = w
      BY <3>4, <3>5, <3>6, Becomes DEF Good
    <3> QED
      BY <1>8, <2>3, <2>4, <3>2, <3>4, <3>5, <3>6, <3>7
  <2>6. ASSUME NEW w \in Cleaned(Dying(v, p), p), script' = Listed(w, p).script, Become(w) PROVE CInv'
    <3>1. PICK d : d = Dying(v, p)
      OBVIOUS
    <3>2. /\ Good(d, registered) /\ d.callbacks = v.callbacks /\ d.script[p].active = 0
          /\ \A q \in Scripts \ {p} : d.script[q] = v.script[q]
      <4>1. Good(d, registered) /\ Dies(v, d, p)
        BY <1>6, <1>8, <3>1, DyingView
      <4> QED
        BY <2>3, <4>1 DEF Dies
    <3>3. /\ Good(View', registered) /\ script'[p].active = 0
          /\ \A q \in Scripts \ {p} : script'[q] = v.script[q]
          /\ \A t \in Tokens : callbacks'[t] \in {v.callbacks[t], None}
      BY <1>6, <2>6, <3>1, <3>2, CleanEnds
    <3> QED
      BY <1>8, <2>4, <3>3
  <2>7. ASSUME NEW w \in Cleaned(v, p), script' = w.script, Become(w) PROVE CInv'
    <3>1. /\ Good(View', registered) /\ script'[p].active = 0
          /\ \A q \in Scripts \ {p} : script'[q] = v.script[q]
          /\ \A t \in Tokens : callbacks'[t] \in {v.callbacks[t], None}
      BY <1>6, <1>8, <2>3, <2>7, CleanEnds
    <3> QED
      BY <1>8, <2>4, <3>1
  <2> QED
    BY <1>5, <1>13, <2>5, <2>6, <2>7 DEF Manages
<1> QED
  BY <1>12, <1>13


LEMMA CallsBegin == Init => CInv
<1> SUFFICES ASSUME Init PROVE CInv
  OBVIOUS
<1>1. Gone \in Script /\ Gone.bound = {} /\ Gone.tokens = {} /\ Gone.active = 0 /\ Gone.state = "Absent"
  BY Limits DEF Gone, Script
<1>2. /\ script = [p \in Scripts |-> Gone] /\ registered = {} /\ leased = {} /\ nactive = [r \in Natives |-> 0]
      /\ callbacks = [t \in Tokens |-> None] /\ resources = [h \in Resources |-> None]
      /\ depth = 0 /\ stack = <<>> /\ tokens = 0 /\ handles = 0 /\ spent = {} /\ late = {}
  BY DEF Init
<1>3. View \in Views
  BY <1>1, <1>2 DEF View, Views
<1>4. Good(View, registered)
  BY <1>1, <1>2, <1>3, Seen DEF Good, TokensMatch, TokensBacked, HandlesBacked, Leasing, Binding
<1>5. stack \in Seq(Frame) /\ Len(stack) = 0
  BY <1>2, EmptySeq
<1>6. \A S : Cardinality(Picks(stack, S)) = 0
  <2>1. ASSUME NEW S PROVE Cardinality(Picks(stack, S)) = 0
    <3>1. Picks(stack, S) = {}
      BY <1>5 DEF Picks
    <3> QED
      BY <3>1, FS_EmptySet
  <2> QED
    BY <2>1
<1>7. CStack(script, stack, nactive, depth, tokens)
  BY <1>1, <1>2, <1>5, <1>6, Limits DEF CStack, Returnable, Nested, Alone, Counted
<1>8. Tracked
  BY <1>2, Limits DEF Tracked
<1> QED
  BY <1>4, <1>7, <1>8 DEF CInv

LEMMA CallsStep == CInv /\ [Next]_vars => CInv'
<1> SUFFICES ASSUME CInv, [Next]_vars PROVE CInv'
  OBVIOUS
<1>1. CASE UNCHANGED vars
  BY <1>1 DEF CInv, Tracked, View, vars
<1>2. ASSUME NEW r \in Natives, RegisterNative(r) \/ UnregisterNative(r) PROVE CInv'
  BY <1>2, RegisterStep
<1>3. CASE CallCore \/ \E r \in Natives : CallNative(r)
  BY <1>3, CallNativeStep
<1>4. ASSUME NEW p \in Scripts, Load(p) PROVE CInv'
  BY <1>4, LoadStep
<1>5. ASSUME NEW p \in Scripts, Promote(p) \/ Pause(p) \/ Resume(p) PROVE CInv'
  BY <1>5, PauseStep
<1>6. ASSUME NEW p \in Scripts, Unload(p) PROVE CInv'
  BY <1>6, UnloadStep
<1>7. ASSUME NEW p \in Scripts, CallScript(p) PROVE CInv'
  BY <1>7, CallScriptStep
<1>8. CASE NativeReturn
  BY <1>8, NativeReturnStep
<1>9. ASSUME NEW ok \in BOOLEAN, ScriptReturn(ok) PROVE CInv'
  BY <1>9, ScriptReturnStep
<1>10. CASE CaptureCallback
  BY <1>10, CaptureStep
<1>11. CASE CreateResource \/ \E h \in Resources : CloseResource(h)
  BY <1>11, ResourceStep
<1>12. ASSUME NEW t \in Tokens, CancelCallback(t) \/ RetainCallback(t) PROVE CInv'
  BY <1>12, RetainStep
<1>13. ASSUME NEW t \in Tokens, DeliverCallback(t) PROVE CInv'
  BY <1>13, DeliverStep
<1>14. ASSUME NEW t \in Tokens, InvokeCallback(t) PROVE CInv'
  BY <1>14, InvokeStep
<1> QED
  BY <1>1, <1>2, <1>3, <1>4, <1>5, <1>6, <1>7, <1>8, <1>9, <1>10, <1>11, <1>12, <1>13, <1>14 DEF Next

-----------------------------------------------------------------------------
(* ExtensionCalls: the properties.                                         *)

LEMMA AnchoredHolds == CInv => Anchored
<1> SUFFICES ASSUME CInv PROVE Anchored
  OBVIOUS
<1>1. /\ script \in [Scripts -> Script] /\ callbacks \in [Tokens -> Callback \cup {None}]
      /\ resources \in [Resources -> Resource \cup {None}] /\ leased \subseteq Exts
  BY Seen DEF CInv, Good, Views
<1>2. /\ registered \subseteq Natives /\ tokens \in 0..MaxTokens /\ handles \in 0..MaxResources
      /\ stack \in Seq(Frame) /\ Len(stack) <= MaxStack
      /\ Returnable(script, stack, tokens) /\ Counted(script, stack, nactive, depth)
  BY DEF CInv, Tracked, CStack
<1>3. \A i \in 1..Len(stack) : stack[i] \in Frame
  BY <1>2, ElementOfSeq
<1>4. ASSUME NEW p \in Scripts PROVE script[p].active = Frames(LAMBDA f : IsScript(f) /\ f.script = p)
  <2>1. Picks(stack, CallsOf(p)) = {i \in 1..Len(stack) : IsScript(stack[i]) /\ stack[i].script = p}
    BY <1>3 DEF Picks, CallsOf
  <2> QED
    BY <1>2, <2>1 DEF Counted, Frames
<1>5. ASSUME NEW r \in Natives PROVE nactive[r] = Frames(LAMBDA f : f.kind = "native" /\ f.native = r)
  <2>1. Picks(stack, RunsOf(r)) = {i \in 1..Len(stack) : stack[i].kind = "native" /\ stack[i].native = r}
    BY <1>3 DEF Picks, RunsOf
  <2> QED
    BY <1>2, <2>1 DEF Counted, Frames
<1>6. depth = Frames(LAMBDA f : f.kind = "token")
  <2>1. Picks(stack, Retained) = {i \in 1..Len(stack) : stack[i].kind = "token"}
    BY <1>3 DEF Picks, Retained
  <2> QED
    BY <1>2, <2>1 DEF Counted, Frames
<1>7. TypeOK
  BY <1>1, <1>2, <1>4, <1>5, <1>6 DEF TypeOK
<1>8. TokensMatch(View) /\ TokensBacked(View) /\ Leasing(View) /\ Binding(View, registered) /\ View \in Views
  BY DEF CInv, Good
<1>9. TokensAnchored
  <2>1. ASSUME NEW p \in Scripts
        PROVE  script[p].tokens = {t \in Tokens : callbacks[t] # None /\ callbacks[t].script = p}
    <3>1. script[p].tokens \subseteq Tokens
      BY <1>1 DEF Script
    <3> QED
      BY <1>8, <3>1, Seen DEF TokensMatch
  <2>2. ASSUME NEW t \in Tokens, callbacks[t] # None
        PROVE  /\ script[callbacks[t].script].state # "Absent"
               /\ \E r \in script[callbacks[t].script].bound : ExtOf[r] = callbacks[t].ext
    <3>1. callbacks[t].script \in Scripts
      BY <1>8, <2>2, Seen, ViewFields
    <3>2. \E r \in script[callbacks[t].script].bound : ExtOf[r] = callbacks[t].ext
      BY <1>8, <2>2, Seen DEF TokensBacked, Backed
    <3> QED
      BY <1>8, <3>1, <3>2, Seen DEF Binding
  <2> QED
    BY <2>1, <2>2 DEF TokensAnchored
<1>10. CallsAnchored
  <2>1. ASSUME NEW i \in 1..Len(stack)
        PROVE  /\ script[stack[i].script].state # "Absent"
               /\ stack[i].kind = "native" =>
                     /\ stack[i].native \in registered /\ stack[i].native \in script[stack[i].script].bound
                     /\ ExtOf[stack[i].native] \in leased
    <3>1. stack[i].script \in Scripts /\ (stack[i].kind = "native" => stack[i].native \in Natives)
      BY <1>3, FrameFields
    <3>2. ReturnsTo(script, stack[i], tokens)
      BY <1>2 DEF Returnable
    <3>3. \A r \in Natives : ExtOf[r] \in Exts
      BY Limits
    <3> QED
      BY <1>8, <3>1, <3>2, <3>3, Seen DEF ReturnsTo, Binding, Leasing
  <2> QED
    BY <2>1 DEF CallsAnchored
<1> QED
  BY <1>7, <1>9, <1>10 DEF Anchored

LEMMA LeasesHold == CInv => LeaseCovers
<1> SUFFICES ASSUME CInv PROVE LeaseCovers
  OBVIOUS
<1>1. Leasing(View) /\ View \in Views /\ View.late = {}
  BY DEF CInv, Good
<1>2. \A p \in Scripts : script[p].bound \subseteq Natives
  BY <1>1, Seen, ViewFields
<1>3. leased \subseteq Exts /\ \A r \in Natives : ExtOf[r] \in Exts
  BY <1>1, Seen, Limits DEF Views
<1>4. \A e : e \in leased <=> \E p \in Scripts : \E r \in script[p].bound : ExtOf[r] = e
  BY <1>1, <1>2, <1>3, Seen DEF Leasing
<1>5. LeaseMatches
  BY <1>4 DEF LeaseMatches
<1> QED
  BY <1>1, <1>5, Seen DEF LeaseCovers, DestroyedUnderLease

\* What runs when a call is entered.
Entered(q, r) == Len(r) > Len(q) /\ Last(r).kind \in {"once", "token"}

LEMMA OthersEnter ==
    ASSUME NEW q \in Seq(Frame), NEW r, r = q \/ (q # <<>> /\ r = Front(q)) \/ \E f \in Frame : r = Append(q, f) /\ ~HasToken(f)
    PROVE  ~Entered(q, r)
<1>1. Len(q) \in Nat
  BY LenProperties
<1>2. CASE r = q
  BY <1>1, <1>2 DEF Entered
<1>3. CASE q # <<>> /\ r = Front(q)
  BY <1>1, <1>3, Unwound DEF Entered
<1>4. ASSUME NEW f \in Frame, r = Append(q, f), ~HasToken(f) PROVE ~Entered(q, r)
  <2>1. Last(r) = f
    BY <1>4, <1>1, AppendProperties DEF Last
  <2> QED
    BY <1>4, <2>1 DEF Entered, HasToken
<1> QED
  BY <1>2, <1>3, <1>4

LEMMA SpentStep ==
    ASSUME CInv, [Next]_vars, NEW t \in spent
    PROVE  ~(Entered(stack, stack') /\ Last(stack').token = t)
<1>1. stack \in Seq(Frame) /\ callbacks[t] = None /\ Len(stack) \in Nat
  BY LenProperties DEF CInv, CStack, Tracked
<1>2. ASSUME NEW x \in Tokens, DeliverCallback(x) \/ InvokeCallback(x)
      PROVE  ~(Entered(stack, stack') /\ Last(stack').token = t)
  <2>1. PICK f : /\ stack' = Append(stack, f) /\ callbacks[x] # None
                 /\ \/ f = [kind |-> "once", script |-> callbacks[x].script, token |-> x]
                    \/ f = [kind |-> "token", script |-> callbacks[x].script, token |-> x]
    BY <1>2 DEF DeliverCallback, InvokeCallback, Enter
  <2>2. callbacks[x].script \in Scripts
    BY <2>1, Seen, ViewFields DEF CInv, Good
  <2>3. f \in Frame /\ f.token = x
    BY <2>1, <2>2 DEF Frame
  <2>4. Last(stack') = f
    BY <1>1, <2>1, <2>3, AppendProperties DEF Last
  <2> QED
    BY <1>1, <2>1, <2>3, <2>4
<1>3. ASSUME NEW p \in Scripts,
             \/ stack' = Append(stack, [kind |-> "start", script |-> p])
             \/ stack' = Append(stack, [kind |-> "stop", script |-> p])
             \/ stack' = Append(stack, [kind |-> "call", script |-> p])
      PROVE  ~Entered(stack, stack')
  <2>1. PICK f : /\ stack' = Append(stack, f)
                 /\ \/ f = [kind |-> "start", script |-> p]
                    \/ f = [kind |-> "stop", script |-> p]
                    \/ f = [kind |-> "call", script |-> p]
    BY <1>3
  <2>2. f \in Frame /\ ~HasToken(f) /\ stack' = Append(stack, f)
    BY <2>1 DEF Frame, HasToken
  <2> QED
    BY <1>1, <2>2, OthersEnter
<1>4. ASSUME UNCHANGED stack PROVE ~Entered(stack, stack')
  BY <1>1, <1>4, OthersEnter
<1>5. ASSUME stack # <<>>, stack' = Front(stack) PROVE ~Entered(stack, stack')
  BY <1>1, <1>5, OthersEnter
<1>6. ASSUME NEW p \in Scripts, Load(p) PROVE ~Entered(stack, stack')
  <2>1. UNCHANGED stack \/ stack' = Append(stack, [kind |-> "start", script |-> p])
    BY <1>6 DEF Load, Enter
  <2> QED
    BY <1>3, <1>4, <2>1
<1>7. ASSUME NEW p \in Scripts, Unload(p) PROVE ~Entered(stack, stack')
  <2>1. UNCHANGED stack \/ stack' = Append(stack, [kind |-> "stop", script |-> p])
    BY <1>7 DEF Unload, Enter
  <2> QED
    BY <1>3, <1>4, <2>1
<1>8. ASSUME NEW p \in Scripts, CallScript(p) PROVE ~Entered(stack, stack')
  BY <1>3, <1>8 DEF CallScript, Enter
<1>9. CASE CallCore \/ \E r \in Natives : CallNative(r)
  <2>1. stack # <<>> /\ Top \in Frame /\ Top.script \in Scripts
    BY <1>1, <1>9, Unwound, FrameFields DEF CallCore, CallNative, Top
  <2>2. PICK f \in Frame : stack' = Append(stack, f) /\ ~HasToken(f)
    <3>1. [kind |-> "core", script |-> Top.script] \in Frame
      BY <2>1 DEF Frame
    <3>2. \A r \in Natives : [kind |-> "native", script |-> Top.script, native |-> r] \in Frame
      BY <2>1 DEF Frame
    <3> QED
      BY <1>9, <3>1, <3>2 DEF CallCore, CallNative, HasToken
  <2> QED
    BY <1>1, <2>2, OthersEnter
<1>10. ASSUME NEW p \in Scripts, Promote(p) \/ Pause(p) \/ Resume(p) PROVE UNCHANGED stack
  BY <1>10 DEF Promote, Pause, Resume
<1>11. ASSUME NEW r \in Natives, RegisterNative(r) \/ UnregisterNative(r) PROVE UNCHANGED stack
  BY <1>11 DEF RegisterNative, UnregisterNative
<1>12. ASSUME NEW x \in Tokens, CancelCallback(x) \/ RetainCallback(x) PROVE UNCHANGED stack
  BY <1>12 DEF CancelCallback, RetainCallback
<1>13. CASE CaptureCallback \/ CreateResource \/ \E h \in Resources : CloseResource(h)
  BY <1>4, <1>13 DEF CaptureCallback, CreateResource, CloseResource
<1>14. CASE NativeReturn \/ \E ok \in BOOLEAN : ScriptReturn(ok)
  BY <1>5, <1>14 DEF NativeReturn, ScriptReturn
<1>15. UNCHANGED vars => UNCHANGED stack
  BY DEF vars
<1> QED
  BY <1>2, <1>4, <1>6, <1>7, <1>8, <1>9, <1>10, <1>11, <1>12, <1>13, <1>14, <1>15 DEF Next


\* For all scripts, natives and limits, however deep calls of both directions nest:
\* each token is in the set of its script and backed by a binding, and every call on
\* the stack can be returned to (Cleanup, CaptureCallback, InvokeCallback).
THEOREM CallsHaveAnchors == Spec => []Anchored
BY CallsBegin, CallsStep, AnchoredHolds, PTL DEF Spec

\* For the same values: the host holds a service exactly while some script is bound to
\* it, and no resource is destroyed without its extension (AcquireProvider, Cleanup).
THEOREM LeasesCover == Spec => []LeaseCovers
BY CallsBegin, CallsStep, LeasesHold, PTL DEF Spec

\* For the same values: a token that was delivered, or whose call failed, is never
\* entered again (DeliverCallback, InvokeCallback).
THEOREM SpentStaySpent == Spec => SpentNeverRuns
<1>1. CInv /\ [Next]_vars => [\A t \in spent : ~ /\ Len(stack') > Len(stack)
                                                 /\ Last(stack').kind \in {"once", "token"} /\ Last(stack').token = t]_vars
  BY SpentStep DEF Entered
<1> QED
  BY <1>1, CallsBegin, CallsStep, PTL DEF Spec, SpentNeverRuns

-----------------------------------------------------------------------------
(* Both parts, as they are run.                                            *)

PartsInv == CInv /\ OInv

LEMMA PartsKeep ==
    /\ MCInit => PartsInv
    /\ PartsInv /\ [MCNext]_<<part, vars, entities>> => PartsInv' /\ [Next]_vars
<1>1. MCInit => PartsInv
  BY CallsBegin, EntitiesBegin DEF MCInit, PartsInv
<1> SUFFICES ASSUME PartsInv, [MCNext]_<<part, vars, entities>> PROVE PartsInv' /\ [Next]_vars
  BY <1>1
<1>2. CASE CallsNext
  BY <1>2, CallsStep, EntitiesStep DEF CallsNext, PartsInv
<1>3. CASE EntitiesNext
  BY <1>3, CallsStep, EntitiesStep DEF EntitiesNext, PartsInv
<1>4. CASE UNCHANGED <<part, vars, entities>>
  BY <1>4, CallsStep, EntitiesStep DEF PartsInv
<1> QED
  BY <1>2, <1>3, <1>4 DEF MCNext

\* For the two beside each other: resources are destroyed under a lease, and what they
\* hold at the host goes with them, once.
THEOREM ResourcesAreKept == MCSpec => []ResourcesKept
<1>1. PartsInv => ResourcesKept
  BY LeasesHold, EntitiesKept DEF PartsInv, ResourcesKept
<1> QED
  BY <1>1, PartsKeep, PTL DEF MCSpec

\* And calls keep their anchors, and spent tokens stay spent, beside the entities.
THEOREM PartsAnchored == MCSpec => []Anchored /\ SpentNeverRuns
<1>1. PartsInv => Anchored /\ CInv
  BY AnchoredHolds DEF PartsInv
<1>2. CInv /\ [Next]_vars => [\A t \in spent : ~ /\ Len(stack') > Len(stack)
                                                 /\ Last(stack').kind \in {"once", "token"} /\ Last(stack').token = t]_vars
  BY SpentStep DEF Entered
<1> QED
  BY <1>1, <1>2, PartsKeep, PTL DEF MCSpec, SpentNeverRuns

=============================================================================
