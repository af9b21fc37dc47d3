---------------------------- MODULE EntityTools ----------------------------
(***************************************************************************)
(* extensions/sdktools: game entities that scripts own.  An Entity object  *)
(* holds one handle of the host from its constructor to its destructor; an *)
(* operation captures the handle and the identity it expects, then calls   *)
(* the host.  Any of these calls may run scripts, which may close the very *)
(* object the operation was called on, start other operations, create      *)
(* entities, or be unloaded.  Closing a creation that was not spawned      *)
(* cancels it, which runs scripts too.                                     *)
(*                                                                         *)
(* The host may issue the number of a released handle again.  What keys,   *)
(* inputs, fields and vectors contain is left out; so are schema fields,   *)
(* and the natives that only read, which are assumed to run no scripts.    *)
(***************************************************************************)
EXTENDS Naturals, Sequences, SequencesExt, FiniteSets

CONSTANTS Objects,      \* Entity objects
          Numbers,      \* handles of the host
          CountLimit,   \* entities of the extension (256)
          HoldLimit,    \* operations, and writes, at a time (8)
          MaxNesting,   \* bound: operations on the stack
          None

VARIABLES
    lent,     \* the host's handles: "free", "pending" (a creation), "live" or "lost"
    object,   \* the objects that exist: [handle, made, at], or None
    count,    \* entity_count_
    holds,    \* active_tools_ and active_writes_
    stack     \* operations that have called the host: [op, object, left, stale, hold]
vars == <<lent, object, count, holds, stack>>

Counters == {"tools", "writes"}
Operations == {"key", "spawn", "teleport", "tool", "input", "write"}
Exists(o) == object[o] # None
OwnedByScript == {o \in Objects : Exists(o) /\ object[o].at = "script"}

Init ==
    /\ lent = [n \in Numbers |-> "free"]
    /\ object = [o \in Objects |-> None]
    /\ count = 0 /\ holds = [c \in Counters |-> 0] /\ stack = <<>>

-----------------------------------------------------------------------------
(* The guards of the natives, which scripts call inside operations too.    *)

MayNest == Len(stack) < MaxNesting
Room == count < CountLimit
MayHold(c) == holds[c] < HoldLimit
Held(c) == [holds EXCEPT ![c] = @ + 1]
Freed(c) == IF c = None THEN holds ELSE [holds EXCEPT ![c] = @ - 1]

Frame(op, o, handles, c) ==
    [op |-> op, object |-> o, left |-> handles, stale |-> {}, hold |-> c]
Top == Last(stack)
TopIs(op) == stack # <<>> /\ Top.op = op

\* ~Entity: the object is gone before the host, and any script, hears of it.
Detached_After(o) == object
Detached(o) == [object EXCEPT ![o] = None]

\* The host gives a handle up; a creation that is pending is cancelled, and scripts
\* run.  What an operation captured means nothing from here on.
Release(n, below) ==
    /\ lent' = [lent EXCEPT ![n] = "free"]
    /\ stack' = [k \in DOMAIN below |-> [below[k] EXCEPT !.stale = @ \cup {n}]]

-----------------------------------------------------------------------------
(* Objects come and go.                                                    *)

\* Entity_Create: the object, and its place in the count, come before the factory.
\* The host may have set the handle when it runs scripts, or fails.
Create(o, n) ==
    /\ MayNest /\ Room /\ MayHold("tools") /\ ~Exists(o)
    /\ n # None => lent[n] = "free"
    /\ object' = [object EXCEPT ![o] = [handle |-> n, made |-> TRUE, at |-> "native"]]
    /\ lent' = IF n = None THEN lent ELSE [lent EXCEPT ![n] = "pending"]
    /\ count' = count + 1 /\ holds' = Held("tools")
    /\ stack' = Append(stack, Frame("create", o, {}, "tools"))

\* Find, FromSource: the host lends a handle, and Adopt asks what it is of.
Find(o, n) ==
    /\ MayNest /\ Room /\ ~Exists(o) /\ lent[n] = "free"
    /\ object' = [object EXCEPT ![o] = [handle |-> n, made |-> FALSE, at |-> "native"]]
    /\ lent' = [lent EXCEPT ![n] = "live"]
    /\ count' = count + 1
    /\ stack' = Append(stack, Frame("adopt", o, {}, None))
    /\ UNCHANGED holds

Consistent(o) ==
    object[o].handle # None /\ lent[object[o].handle] = (IF object[o].made THEN "pending" ELSE "live")

\* The metadata is right and the script takes the entity.
Take ==
    /\ TopIs("create") \/ TopIs("adopt")
    /\ Consistent(Top.object)
    /\ object' = [object EXCEPT ![Top.object].at = "script"]
    /\ holds' = Freed(Top.hold) /\ stack' = Front(stack)
    /\ UNCHANGED <<lent, count>>

\* It ends with an error, or Own refuses (the script has stopped, or has too many
\* resources): the object goes, after the hold in the second case only.
Abandon ==
    /\ TopIs("create") \/ TopIs("adopt")
    /\ LET o == Top.object
           n == object[o].handle
       IN  \E c \in {Top.hold} \cup {x \in {None} : Consistent(o)} :
             /\ object' = Detached(o) /\ count' = count - 1
             /\ IF n = None
                THEN stack' = Front(stack) /\ holds' = Freed(Top.hold) /\ UNCHANGED lent
                ELSE /\ Release(n, Append(Front(stack), Frame("release", o, {}, c)))
                     /\ holds' = IF c = None THEN Freed(Top.hold) ELSE holds

\* Entity_Close, and the cleanup of a script: the resource is removed, then destroyed.
Close(o) ==
    /\ MayNest /\ o \in OwnedByScript
    /\ object' = Detached(o) /\ count' = count - 1
    /\ Release(object[o].handle, Append(stack, Frame("release", o, {}, None)))
    /\ UNCHANGED holds

Released ==
    /\ TopIs("release")
    /\ holds' = Freed(Top.hold) /\ stack' = Front(stack)
    /\ UNCHANGED <<lent, object, count>>

-----------------------------------------------------------------------------
(* Operations.                                                             *)

\* What the operation needs is captured before the host is called.
Start(op, c, o, others) ==
    /\ MayNest /\ MayHold(c) /\ ({o} \cup others) \subseteq OwnedByScript
    /\ holds' = Held(c)
    /\ stack' = Append(stack, Frame(op, o, {object[p].handle : p \in {o} \cup others}, c))
    /\ UNCHANGED <<lent, object, count>>

\* Only for entities that were created here.
SetKey(o) == Exists(o) /\ object[o].made /\ Start("key", "tools", o, {})
Spawn(o) == Exists(o) /\ object[o].made /\ Start("spawn", "tools", o, {})

\* An input has participants: an activator, a caller, an entity as its value.
Input(o, others) == Start("input", "tools", o, others)
Write(o) == Start("write", "writes", o, {})

\* Teleport, SetModel, Remove.
Tool(o) == \E op \in {"teleport", "tool"} : Start(op, "tools", o, {})

\* Describe: the handle is open, has the identity that was captured, and its entity is
\* in the state that the operation is for.
Describes(n) ==
    /\ n \notin Top.stale
    /\ CASE Top.op \in {"key", "spawn"} -> lent[n] = "pending"
         [] Top.op = "teleport" -> lent[n] \in {"pending", "live"}
         [] OTHER -> lent[n] = "live"

Validate(n) ==
    /\ stack # <<>> /\ Top.op \in Operations /\ n \in Top.left /\ Describes(n)
    /\ stack' = [stack EXCEPT ![Len(stack)].left = @ \ {n}]
    /\ UNCHANGED <<lent, object, count, holds>>

\* The host has done it, or any call before that has failed.
Return ==
    /\ stack # <<>> /\ Top.op \in Operations
    /\ holds' = Freed(Top.hold) /\ stack' = Front(stack)
    /\ UNCHANGED <<lent, object, count>>

\* What the game does, in an operation or by itself: it spawns a creation, and
\* entities disappear with the map.
Spawned(n) ==
    /\ TopIs("spawn") /\ Top.left = {} /\ n \notin Top.stale
    /\ Exists(Top.object) /\ object[Top.object].handle = n /\ lent[n] = "pending"
    /\ lent' = [lent EXCEPT ![n] = "live"]
    /\ UNCHANGED <<object, count, holds, stack>>
Disappear(n) ==
    /\ lent[n] \in {"pending", "live"}
    /\ lent' = [lent EXCEPT ![n] = "lost"]
    /\ UNCHANGED <<object, count, holds, stack>>

Next ==
    \/ \E o \in Objects : \E n \in Numbers \cup {None} : Create(o, n)
    \/ \E o \in Objects, n \in Numbers : Find(o, n)
    \/ \E o \in Objects : \/ Close(o) \/ SetKey(o) \/ Spawn(o) \/ Write(o) \/ Tool(o)
                         \/ \E others \in SUBSET Objects : Input(o, others)
    \/ \E n \in Numbers : Validate(n) \/ Spawned(n) \/ Disappear(n)
    \/ Take \/ Abandon \/ Released \/ Return

Spec == Init /\ [][Next]_vars

-----------------------------------------------------------------------------
\* However scripts close, create and nest inside the calls of the host: every handle
\* the host lent belongs to exactly one object, so that it is released once, and a
\* creation that nobody owns is not left pending; no object has a handle that the host
\* has issued anew; the limits on entities and on nesting are counted right, errors and
\* destructors included.
HandlesOwned ==
    LET Holders(n) == {o \in Objects : Exists(o) /\ object[o].handle = n}
    IN  /\ \A n \in Numbers : Cardinality(Holders(n)) = (IF lent[n] = "free" THEN 0 ELSE 1)
        /\ count = Cardinality({o \in Objects : Exists(o)}) /\ count <= CountLimit
        /\ \A c \in Counters :
             /\ holds[c] = Cardinality({k \in DOMAIN stack : stack[k].hold = c})
             /\ holds[c] <= HoldLimit
        /\ \A o \in Objects : Exists(o) /\ object[o].at = "native" =>
             \E k \in DOMAIN stack : stack[k].object = o /\ stack[k].op \in {"create", "adopt"}
=============================================================================
