---------------------------- MODULE EntityHooks ----------------------------
(***************************************************************************)
(* extensions/sdkhooks: hooks of one entity, on top of the native hooks of *)
(* the Hooks module.  A registration listens to a native function before   *)
(* and after the original, for the calls on its entity only.  What it      *)
(* learns before the original (a Pending context) is kept until the call   *)
(* after it, found again by the address of the host's frame, which is that *)
(* of any earlier call at the same depth.  The callback may destroy the    *)
(* entities of the call, close or enable its own hook, and make the engine *)
(* call the function again.                                                *)
(*                                                                         *)
(* One registration with both phases.  An entity is an epoch of an address;*)
(* the damage record, the kinds and the boolean result are left out.       *)
(***************************************************************************)
EXTENDS Naturals, Sequences, SequencesExt, FiniteSets

CONSTANTS Addresses,    \* where entities are
          MaxEpoch,     \* bound: entities at an address, one after the other
          MaxPending,   \* contexts of a registration (8)
          MaxNesting,   \* bound: calls of the native function on the stack
          None

VARIABLES
    epoch,      \* of the entity at every address; 0: no entity
    last,       \* the last epoch of every address
    hook,       \* the registration, or None
    pending,    \* State::pending, at most one context for each frame
    calls,      \* calls of the native function that have not returned
    delivered   \* history: the last callback got the context of its own call
vars == <<epoch, last, hook, pending, calls, delivered>>

\* Identities of entities.
Entity(a) == <<a, epoch[a]>>
Valid(e) == epoch[e[1]] = e[2]

Init ==
    /\ epoch = [a \in Addresses |-> 1] /\ last = [a \in Addresses |-> 1]
    /\ hook = None /\ pending = {} /\ calls = <<>> /\ delivered = TRUE

Top == Last(calls)
InCallback(call) == call.step \in {"before", "behind"}
Running == calls # <<>> /\ InCallback(Top)
ScriptsRun == calls # <<>> => InCallback(Top)
EngineRuns == calls # <<>> => InCallback(Top) \/ Top.step = "original"
SetTop(call) == calls' = [calls EXCEPT ![Len(calls)] = call]

\* Matches: the entity of the registration is there, at the address of the call.
Matches(a) == Valid(hook.entity) /\ hook.entity[1] = a

-----------------------------------------------------------------------------
(* The script.                                                             *)

\* SDKHook_Add: Acquire validates the entity.
Attach(a) ==
    /\ ScriptsRun /\ hook = None /\ epoch[a] # 0
    /\ hook' = [entity |-> Entity(a), enabled |-> TRUE, closing |-> FALSE]
    /\ pending' = {}
    /\ UNCHANGED <<epoch, last, calls, delivered>>

\* SDKHook_Close, SDKHook_Enable: the contexts are forgotten.
Close ==
    /\ ScriptsRun /\ hook # None
    /\ hook' = [hook EXCEPT !.closing = TRUE]
    /\ pending' = {}
    /\ UNCHANGED <<epoch, last, calls, delivered>>

Enable ==
    /\ ScriptsRun /\ hook # None /\ ~hook.closing
    /\ hook' = [hook EXCEPT !.enabled = ~@]
    /\ pending' = {}
    /\ UNCHANGED <<epoch, last, calls, delivered>>

\* Collect: a registration that is closing goes when it is on no stack; at the end of
\* a frame the contexts are forgotten, unless a callback runs.
Collect ==
    /\ ~\E n \in DOMAIN calls : InCallback(calls[n])
    /\ hook' = IF hook # None /\ hook.closing THEN None ELSE hook
    /\ pending' = {}
    /\ UNCHANGED <<epoch, last, calls, delivered>>

\* Entities come and go: in callbacks, in the original, and between the calls.
Destroy(a) ==
    /\ EngineRuns
    /\ epoch[a] # 0
    /\ epoch' = [epoch EXCEPT ![a] = 0]
    /\ UNCHANGED <<last, hook, pending, calls, delivered>>
Create(a) ==
    /\ EngineRuns
    /\ epoch[a] = 0 /\ last[a] < MaxEpoch
    /\ epoch' = [epoch EXCEPT ![a] = last[a] + 1]
    /\ last' = [last EXCEPT ![a] = @ + 1]
    /\ UNCHANGED <<hook, pending, calls, delivered>>

-----------------------------------------------------------------------------
(* A call of the native function on an entity, with another entity.        *)

Call(a, other) ==
    /\ EngineRuns
    /\ Len(calls) < MaxNesting
    /\ epoch[a] # 0 /\ epoch[other] # 0
    /\ calls' = Append(calls, [instance |-> a, other |-> other, step |-> "pre",
                               entities |-> {Entity(a), Entity(other)}, context |-> None])
    /\ UNCHANGED <<epoch, last, hook, pending, delivered>>

\* The transport passes a registration by that is closing or not enabled.
Listens == hook # None /\ hook.enabled /\ ~hook.closing

Key == Len(calls)
Forget_Keeps(contexts) == contexts
Forget(contexts) == {c \in contexts : c.key # Key}
Found == {c \in pending : c.key = Key}

\* Dispatch before the original.  When the other entity cannot be captured, the
\* original is skipped and the hook retired.
Pre ==
    /\ calls # <<>> /\ Top.step = "pre"
    /\ LET context == [key |-> Key, instance |-> Top.instance, other |-> Top.other,
                       capture |-> Entity(Top.other), stale |-> FALSE]
           rest == Forget(pending)
       IN  IF ~Listens THEN SetTop([Top EXCEPT !.step = "original"])
                            /\ UNCHANGED <<hook, pending, delivered>>
           ELSE IF ~Matches(Top.instance) \/ Cardinality(rest) = MaxPending
           THEN /\ SetTop([Top EXCEPT !.step = "original"])
                /\ pending' = rest
                /\ UNCHANGED <<hook, delivered>>
           ELSE \/ /\ pending' = rest \cup {context}
                   /\ SetTop([Top EXCEPT !.step = "before", !.context = context])
                   /\ delivered' = TRUE
                   /\ UNCHANGED hook
                \/ /\ pending' = rest
                   /\ hook' = [hook EXCEPT !.closing = TRUE]
                   /\ SetTop([Top EXCEPT !.step = "after"])
                   /\ UNCHANGED delivered
    /\ UNCHANGED <<epoch, last>>

\* The callback returns.  Before the original both entities must still be there;
\* otherwise, and when the callback blocks, the original is skipped.  An error
\* retires the hook.
StillThere(context) == Matches(context.instance) /\ Valid(context.capture)
Return ==
    /\ Running
    /\ \E error, block \in BOOLEAN :
          /\ hook' = IF error THEN [hook EXCEPT !.closing = TRUE] ELSE hook
          /\ SetTop([Top EXCEPT !.context = None, !.step =
                IF Top.step = "behind" THEN "returned"
                ELSE IF block \/ ~StillThere(Top.context) THEN "after" ELSE "original"])
    /\ UNCHANGED <<epoch, last, pending, delivered>>

\* The original returns.
Original ==
    /\ calls # <<>> /\ Top.step = "original"
    /\ SetTop([Top EXCEPT !.step = "after"])
    /\ UNCHANGED <<epoch, last, hook, pending, delivered>>

\* Dispatch after the original: with the context of the call before it, if everything
\* is as it was then.
Post ==
    /\ calls # <<>> /\ Top.step = "after"
    /\ IF ~Listens \/ Found = {}
       THEN /\ SetTop([Top EXCEPT !.step = "returned"])
            /\ UNCHANGED <<pending, delivered>>
       ELSE \E context \in Found :
               /\ pending' = pending \ {context}
               /\ IF /\ context.instance = Top.instance /\ context.other = Top.other
                     /\ Matches(Top.instance) /\ Valid(context.capture)
                  THEN /\ SetTop([Top EXCEPT !.step = "behind", !.context = context])
                       /\ delivered' = ~context.stale
                  ELSE /\ SetTop([Top EXCEPT !.step = "returned"])
                       /\ UNCHANGED delivered
    /\ UNCHANGED <<epoch, last, hook>>

\* The call is over; the host may have left out what comes after the original.
Over ==
    /\ calls # <<>> /\ Top.step \in {"after", "returned"}
    /\ calls' = Front(calls)
    /\ pending' = {IF c.key = Key THEN [c EXCEPT !.stale = TRUE] ELSE c : c \in pending}
    /\ UNCHANGED <<epoch, last, hook, delivered>>

Next ==
    \/ \E a \in Addresses : Attach(a) \/ Destroy(a) \/ Create(a)
                            \/ \E other \in Addresses : Call(a, other)
    \/ Close \/ Enable \/ Collect
    \/ Pre \/ Return \/ Original \/ Post \/ Over

Spec == Init /\ [][Next]_vars

-----------------------------------------------------------------------------
\* A callback after the original is about the call that the context was made for, not
\* about an earlier one whose frame had the same address and that never came back.
PostOfOwnCall ==
    /\ Cardinality(pending) <= MaxPending
    /\ delivered

\* After a callback the original runs only with entities that were there when it was
\* called: hooks.cpp:453.
OriginalSafe ==
    \A n \in DOMAIN calls \cap DOMAIN calls' :
        calls[n].step = "before" /\ calls'[n].step = "original" =>
            \A e \in calls[n].entities : Valid(e)

\* However callbacks nest, destroy entities and let their addresses be used again: no
\* callback is about another call, and no original runs with what is gone.
SafeStep == PostOfOwnCall' /\ OriginalSafe
HooksAreSafe == [][SafeStep]_vars
=============================================================================
