------------------------------- MODULE Handles -------------------------------
(***************************************************************************)
(* src/handles.h: the table of the resources scripts refer to by number.   *)
(* A handle is a slot and the generation of the slot; a slot is used again *)
(* with the next generation, and never after its last one.                 *)
(*                                                                         *)
(* Destroying a value may run an extension's code, which may use the table *)
(* again: a value is first detached from the table, and is destroyed by a  *)
(* step of its own.                                                        *)
(***************************************************************************)
EXTENDS Naturals, Sequences, FiniteSets

CONSTANTS Owners,        \* owner numbers (the code's 0 is None)
          Types,         \* resource types (the code's 0 is None)
          MaxSlots,      \* 4095 in the code
          MaxGeneration, \* 2^19 - 1 in the code
          None

\* (generation << 12) | slot in a positive 32-bit cell, and back.
SlotSpace == 4096
MaxCell == 2147483647
Id(generation, slot) == generation * SlotSpace + slot
SlotOf(id) == id % SlotSpace
GenerationOf(id) == id \div SlotSpace

ASSUME HandlesAssumption ==
    /\ None \notin Owners /\ None \notin Types /\ None \notin Nat
    /\ MaxSlots \in 1..(SlotSpace - 1)
    /\ MaxGeneration \in Nat \ {0} /\ Id(MaxGeneration, SlotSpace - 1) <= MaxCell

VARIABLES
    entries,    \* entries_
    created,    \* history: how many values were added; a value is its number
    dying,      \* the values that are detached and not destroyed yet
    destroyed,  \* history: the values that were destroyed
    issued      \* history: the handles Add returned, with their values

vars == <<entries, created, dying, destroyed, issued>>

Entry == [generation : 1..MaxGeneration, type : Types \cup {None}, owner : Owners \cup {None},
          value : Nat \cup {None}]

Init == entries = <<>> /\ created = 0 /\ dying = {} /\ destroyed = {} /\ issued = {}

-----------------------------------------------------------------------------
\* Check: the handle names an entry of this owner, type and generation.
SameGeneration_Any(id) == TRUE
SameGeneration(id) == entries[SlotOf(id)].generation = GenerationOf(id)

Resolves(id, owner, type) ==
    /\ SlotOf(id) \in 1..Len(entries)
    /\ entries[SlotOf(id)].owner = owner /\ entries[SlotOf(id)].type = type
    /\ SameGeneration(id)

\* Add: the first free slot that has a generation left, or a new one.
Reusable(i) == entries[i].owner = None /\ entries[i].generation # MaxGeneration

\* The generation a slot is used again with.
NextGeneration(i) == entries[i].generation + 1

Filled(generation, owner, type) ==
    [generation |-> generation, type |-> type, owner |-> owner, value |-> created + 1]

Reuse(i, owner, type) ==
    /\ Reusable(i) /\ \A j \in 1..(i - 1) : ~Reusable(j)
    /\ entries' = [entries EXCEPT ![i] = Filled(NextGeneration(i), owner, type)]
    /\ issued' = issued \cup {<<Id(NextGeneration(i), i), created + 1>>}

Extend(owner, type) ==
    /\ \A i \in DOMAIN entries : ~Reusable(i)
    /\ Len(entries) < MaxSlots
    /\ entries' = Append(entries, Filled(1, owner, type))
    /\ issued' = issued \cup {<<Id(1, Len(entries) + 1), created + 1>>}

Add(owner, type) ==
    /\ Extend(owner, type) \/ \E i \in DOMAIN entries : Reuse(i, owner, type)
    /\ created' = created + 1
    /\ UNCHANGED <<dying, destroyed>>

\* The entry after its value was moved out.
Emptied_Value(e) == [e EXCEPT !.owner = None, !.type = None]
Emptied(e) == [e EXCEPT !.owner = None, !.type = None, !.value = None]

\* Remove, up to the destruction of the value.
Remove(id, owner, type) ==
    /\ Resolves(id, owner, type)
    /\ dying' = dying \cup {entries[SlotOf(id)].value}
    /\ entries' = [entries EXCEPT ![SlotOf(id)] = Emptied(@)]
    /\ UNCHANGED <<created, destroyed, issued>>

\* Retire: every entry of an owner, of one type or of all (None), is emptied before
\* the first value is destroyed.
Selected(owner, type) ==
    {i \in DOMAIN entries : entries[i].owner = owner /\ type \in {None, entries[i].type}}

Retire(owner, type) ==
    /\ Selected(owner, type) # {}
    /\ dying' = dying \cup {entries[i].value : i \in Selected(owner, type)}
    /\ entries' = [i \in DOMAIN entries |->
                      IF i \in Selected(owner, type) THEN Emptied(entries[i]) ELSE entries[i]]
    /\ UNCHANGED <<created, destroyed, issued>>

\* A detached value is destroyed; its destructor may be followed by any operation.
Destroy(v) ==
    /\ v \in dying
    /\ dying' = dying \ {v} /\ destroyed' = destroyed \cup {v}
    /\ UNCHANGED <<entries, created, issued>>

\* Scripts hold on to handles: they may present any that was ever issued.
Next ==
    \/ \E owner \in Owners, type \in Types :
          Add(owner, type) \/ \E h \in issued : Remove(h[1], owner, type)
    \/ \E owner \in Owners, type \in Types \cup {None} : Retire(owner, type)
    \/ \E v \in dying : Destroy(v)

Spec == Init /\ [][Next]_vars

-----------------------------------------------------------------------------
TypeOK ==
    /\ entries \in Seq(Entry) /\ Len(entries) <= MaxSlots
    /\ created \in Nat
    /\ dying \subseteq 1..created /\ destroyed \subseteq 1..created
    /\ issued \subseteq (Nat \X (1..created))

\* A handle that was ever given to a script resolves to the value it was given for,
\* or not at all: not to a value that took over its slot (Check, Add).
StaleNeverResolves ==
    \A h \in issued : \A owner \in Owners, type \in Types :
        Resolves(h[1], owner, type) => entries[SlotOf(h[1])].value = h[2]

\* Two values never get the same handle, however often a slot is used again.
HandlesAreUnique == \A g, h \in issued : g[1] = h[1] => g = h

\* A handle is a positive 32-bit cell: (2^19 - 1) * 2^12 + 4095 = 2^31 - 1.
HandlesFit == \A h \in issued : h[1] \in 1..MaxCell

\* The values the table holds.
Kept == {entries[i].value : i \in DOMAIN entries} \ {None}

\* A value that is being destroyed, or was, is reached by no handle, so a destructor
\* that uses the table again does not meet itself; and no value is lost: it is in
\* the table, or detached, or destroyed, and in one of them only.
ValuesAccounted ==
    /\ TypeOK
    /\ Kept \cap (dying \cup destroyed) = {} /\ dying \cap destroyed = {}
    /\ Kept \cup dying \cup destroyed = 1..created
    /\ \A i \in DOMAIN entries : entries[i].value = None <=> entries[i].owner = None
    /\ \A i, j \in DOMAIN entries :
          entries[i].value = entries[j].value /\ entries[i].value # None => i = j
=============================================================================
