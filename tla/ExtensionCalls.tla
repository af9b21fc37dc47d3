--------------------------- MODULE ExtensionCalls ---------------------------
(***************************************************************************)
(* src/extension_calls.cpp, src/bindings.cpp and src/foundation.cpp: the   *)
(* calls between scripts and native extensions.  A script calls natives,   *)
(* and a native may keep a token of a script function (a callback) and     *)
(* give the script resources.  An extension delivers a token once, or      *)
(* retains it and calls it many times, also from inside its natives: calls *)
(* in both directions nest on one stack, and loading and cleaning up a     *)
(* script happen in the middle of it.                                      *)
(*                                                                         *)
(* A script here is a Script object, so that a reload has two.  Arguments, *)
(* events, commands, timers and menus are left out; a call by one of them  *)
(* is CallScript.                                                          *)
(***************************************************************************)
EXTENDS Naturals, Sequences, FiniteSets, SequencesExt

CONSTANTS Scripts,
          Natives,    \* what extensions register
          Exts,       \* the extensions, each with one provider service
          ExtOf,      \* the extension of each native
          Uses,       \* the natives each script's bytecode declares
          Quota,      \* handles and callbacks a script may hold (128)
          Depth,      \* SR_CALLBACK_MAX_DEPTH (8)
          FaultLimit, \* failing callbacks before a script is retired (3)
          MaxTokens, MaxResources, MaxStack, \* bounds: ever created; frames
          None

ASSUME CallsAssumption ==
    /\ ExtOf \in [Natives -> Exts]
    /\ Uses \in [Scripts -> SUBSET Natives]
    /\ {Quota, Depth, FaultLimit, MaxTokens, MaxResources, MaxStack} \subseteq Nat \ {0}

VARIABLES
    script,     \* the Script objects
    registered, \* the natives in providers_
    leased,     \* the services the host has acquired
    nactive,    \* Provider::active
    callbacks,  \* callbacks_
    resources,  \* the live handles of type ExtensionType
    depth,      \* callback_depth_
    stack,      \* the calls that are running
    tokens,     \* next_callback_
    handles,    \* resources so far
    spent,      \* history: tokens that were delivered or whose call failed
    late        \* history: resources destroyed when their extension was not leased

vars == <<script, registered, leased, nactive, callbacks, resources, depth, stack, tokens, handles,
          spent, late>>
history == <<spent, late>>
made == <<tokens, handles>>

Tokens == 1..MaxTokens
Resources == 1..MaxResources
Script == [state : {"Absent", "Loading", "Running", "Paused", "Retiring"},
           listed : BOOLEAN,         \* it is in scripts_
           stopped : BOOLEAN,        \* stop_notified
           bound : SUBSET Natives,   \* Script::providers
           tokens : SUBSET Tokens,   \* Script::callbacks
           active : 0..MaxStack,
           faults : 0..FaultLimit]
Callback == [script : Scripts, ext : Exts, persistent : BOOLEAN]
Resource == [script : Scripts, ext : Exts]

\* OnPluginStart, OnPluginStop, an event or command, a one-shot callback, a retained
\* callback; or a native that the script called, of an extension or of Source2Root.
Frame == [kind : {"start", "stop", "call", "core"}, script : Scripts]
         \cup [kind : {"once", "token"}, script : Scripts, token : Tokens]
         \cup [kind : {"native"}, script : Scripts, native : Natives]

\* What is no callback and no resource is told from both.
ASSUME NamesAssumption ==
    /\ IsFiniteSet(Scripts) /\ IsFiniteSet(Natives)
    /\ None \notin Callback \cup Resource

Gone == [state |-> "Absent", listed |-> FALSE, stopped |-> FALSE, bound |-> {}, tokens |-> {},
         active |-> 0, faults |-> 0]

Init ==
    /\ script = [p \in Scripts |-> Gone]
    /\ registered = {} /\ leased = {}
    /\ nactive = [r \in Natives |-> 0]
    /\ callbacks = [t \in Tokens |-> None]
    /\ resources = [h \in Resources |-> None]
    /\ depth = 0 /\ stack = <<>> /\ tokens = 0 /\ handles = 0
    /\ spent = {} /\ late = {}

-----------------------------------------------------------------------------
(* Who may run.                                                            *)

Top == Last(stack)
IsScript(f) == f.kind \notin {"native", "core"}
Outside == stack # <<>> => ~IsScript(Top)   \* extension or host code runs, no script
Managing == \E i \in 1..Len(stack) : stack[i].kind \in {"start", "stop"}
RuntimeIdle == \A i \in 1..Len(stack) : ~IsScript(stack[i])
Room == Len(stack) < MaxStack

Alive(p) == script[p].state \in {"Loading", "Running", "Paused"}

\* Limit: a script that retires gets nothing new.
Limit(p) ==
    /\ script[p].state \in {"Loading", "Running"}
    /\ Cardinality(script[p].tokens) + Cardinality({h \in Resources :
           resources[h] # None /\ resources[h].script = p}) < Quota

Enter(f, s) ==
    /\ Room
    /\ stack' = Append(stack, f)
    /\ script' = [s EXCEPT ![f.script].active = @ + 1]

-----------------------------------------------------------------------------
(* Registrations of natives.                                               *)

Users(s, r) == Cardinality({p \in Scripts : r \in s[p].bound})

RegisterNative(r) ==
    /\ Outside /\ r \notin registered
    /\ registered' = registered \cup {r}
    /\ UNCHANGED <<script, leased, nactive, callbacks, resources, depth, stack, made, history>>

UnregisterNative(r) ==
    /\ Outside /\ r \in registered
    /\ Users(script, r) = 0 /\ nactive[r] = 0
    /\ registered' = registered \ {r}
    /\ UNCHANGED <<script, leased, nactive, callbacks, resources, depth, stack, made, history>>

\* ServiceUsers: the bindings to all natives of the service.
ServiceUsers(s, r) ==
    Cardinality({b \in Scripts \X Natives : ExtOf[b[2]] = ExtOf[r] /\ b[2] \in s[b[1]].bound})

-----------------------------------------------------------------------------
(* Cleanup: what it leaves behind, and whether it succeeded.               *)

View == [script |-> script, callbacks |-> callbacks, resources |-> resources, leased |-> leased, late |-> late]
Become(v) ==
    /\ callbacks' = v.callbacks /\ resources' = v.resources
    /\ leased' = v.leased /\ late' = v.late

\* The callbacks are cancelled first, so that nothing calls into the script.
Cancelled_Tokens(v, p) == [v EXCEPT !.script[p].tokens = {}]
Cancelled(v, p) ==
    [v EXCEPT !.callbacks = [t \in Tokens |-> IF t \in v.script[p].tokens THEN None ELSE v.callbacks[t]],
              !.script[p].tokens = {}]

\* Retire: the extensions' destroy functions run.
Mine(v, p) == {h \in Resources : v.resources[h] # None /\ v.resources[h].script = p}
Retire(v, p) ==
    [v EXCEPT !.resources = [h \in Resources |-> IF h \in Mine(v, p) THEN None ELSE v.resources[h]],
              !.late = @ \cup {h \in Mine(v, p) : v.resources[h].ext \notin v.leased}]

\* The providers that can be given up, one after the other: none that is running, and
\* the last user of a service only when the host takes it back.
Unbound(v, p, kept) ==
    LET freed == v.script[p].bound \ kept
        after == [v.script EXCEPT ![p].bound = kept]
    IN  [v EXCEPT !.script = after,
                  !.leased = @ \ {ExtOf[r] : r \in {r \in freed : ServiceUsers(after, r) = 0}}]

\* The providers that may be left: of a service that the script was the last to use,
\* at most one is refused.
MayKeep(v, p) ==
    {kept \in SUBSET v.script[p].bound :
        /\ \A r \in v.script[p].bound : nactive[r] > 0 => r \in kept
        /\ \A r \in kept : nactive[r] = 0 => ServiceUsers([v.script EXCEPT ![p].bound = kept], r) = 1}

Released(v, p) == {Unbound(Retire(v, p), p, kept) : kept \in MayKeep(v, p)}

\* Cleanup after OnPluginStop.  A menu that cannot be cleared ends it early; a script
\* that was never listed has none.
Cleaned(v, p) ==
    {w \in {Cancelled(v, p)} : w.script[p].listed} \cup
    {IF w.script[p].bound = {} THEN [w EXCEPT !.script[p] = Gone] ELSE w : w \in Released(Cancelled(v, p), p)}

\* A script that is not released is listed, to be cleaned up again.
Listed(v, p) == IF v.script[p] = Gone THEN v ELSE [v EXCEPT !.script[p].listed = TRUE]

\* Prepare, UnloadScript: Retiring, and OnPluginStop is not run again.
Dying(v, p) == [v EXCEPT !.script[p].state = "Retiring", !.script[p].stopped = TRUE]

-----------------------------------------------------------------------------
(* Management.                                                             *)

\* Prepare: the natives are bound, and OnPluginStart begins; or a native is missing or
\* the host refuses a service, and what was bound is cleaned up.
Load(p) ==
    /\ Outside /\ ~Managing /\ script[p].state = "Absent"
    /\ LET declared == Uses[p] \cap registered
           bind(b) == [View EXCEPT !.script[p] = [Gone EXCEPT !.state = "Loading", !.bound = b],
                                   !.leased = @ \cup {ExtOf[r] : r \in b}]
           broken(b) == \/ b = declared /\ declared # Uses[p]
                        \/ \E r \in declared \ b : ServiceUsers(bind(b).script, r) = 0
       IN  \/ /\ declared = Uses[p]
              /\ Enter([kind |-> "start", script |-> p], bind(declared).script)
              /\ Become(bind(declared))
           \/ \E b \in SUBSET declared :
                 /\ broken(b)
                 /\ \E v \in Cleaned(Dying(bind(b), p), p) : Become(v) /\ script' = Listed(v, p).script
                 /\ UNCHANGED stack
    /\ UNCHANGED <<registered, nactive, depth, made, spent>>

\* Reload, after the current script is cleaned up, takes the replacement.
Promote(p) ==
    /\ Outside /\ ~Managing /\ script[p].state = "Loading"
    /\ \E s \in {"Running", "Paused"} : script' = [script EXCEPT ![p].state = s]
    /\ UNCHANGED <<registered, leased, nactive, callbacks, resources, depth, stack, made, history>>

Pause(p) ==
    /\ Outside /\ ~Managing /\ script[p].state = "Running" /\ script[p].active = 0
    /\ script' = [script EXCEPT ![p].state = "Paused"]
    /\ UNCHANGED <<registered, leased, nactive, callbacks, resources, depth, stack, made, history>>

Resume(p) ==
    /\ Outside /\ ~Managing /\ script[p].state = "Paused"
    /\ script' = [script EXCEPT ![p].state = "Running"]
    /\ UNCHANGED <<registered, leased, nactive, callbacks, resources, depth, stack, made, history>>

\* Cleanup waits for the script's calls to end.
Busy(p) == script[p].active > 0

Unload(p) ==
    /\ Outside /\ ~Managing /\ script[p].state # "Absent"
    /\ LET retiring == [View EXCEPT !.script[p].state = "Retiring"]
       IN  \/ Busy(p) /\ script' = retiring.script /\ Become(retiring) /\ UNCHANGED stack
           \/ /\ ~Busy(p) /\ ~script[p].stopped
              /\ Enter([kind |-> "stop", script |-> p], Dying(retiring, p).script)
              /\ Become(retiring)
           \/ /\ ~Busy(p)  \* OnPluginStop has run, or there is none
              /\ \E v \in Cleaned(Dying(retiring, p), p) : Become(v) /\ script' = v.script
              /\ UNCHANGED stack
    /\ UNCHANGED <<registered, nactive, depth, made, spent>>

-----------------------------------------------------------------------------
(* Calls.                                                                  *)

\* Invoke, for a command, an event, a timer or a menu.
CallScript(p) ==
    /\ Outside /\ script[p].state = "Running" /\ script[p].listed
    /\ Enter([kind |-> "call", script |-> p], script)
    /\ UNCHANGED <<registered, leased, nactive, callbacks, resources, depth, made, history>>

\* A bound native is called.
CallNative(r) ==
    /\ stack # <<>> /\ IsScript(Top) /\ Room /\ r \in script[Top.script].bound
    /\ stack' = Append(stack, [kind |-> "native", script |-> Top.script, native |-> r])
    /\ nactive' = [nactive EXCEPT ![r] = @ + 1]
    /\ UNCHANGED <<script, registered, leased, callbacks, resources, depth, made, history>>

\* A native of Source2Root is called; host code may run in it.
CallCore ==
    /\ stack # <<>> /\ IsScript(Top) /\ Room
    /\ stack' = Append(stack, [kind |-> "core", script |-> Top.script])
    /\ UNCHANGED <<script, registered, leased, nactive, callbacks, resources, depth, made, history>>

NativeReturn ==
    /\ stack # <<>> /\ ~IsScript(Top)
    /\ stack' = Front(stack)
    /\ nactive' = IF Top.kind = "core" THEN nactive ELSE [nactive EXCEPT ![Top.native] = @ - 1]
    /\ UNCHANGED <<script, registered, leased, callbacks, resources, depth, made, history>>

\* CancelCallback.
Cancel(v, t) ==
    IF v.callbacks[t] = None THEN v
    ELSE [v EXCEPT !.script[v.callbacks[t].script].tokens = @ \ {t}, !.callbacks[t] = None]

\* Invoke and InvokeCallback, after the script function: a failure counts, and retires
\* the script at the limit; a retained callback that failed is cancelled.
DepthAfter(f, ok) == IF f.kind = "token" THEN depth - 1 ELSE depth

Exited(v, f, ok) ==
    LET left == [v EXCEPT !.script[f.script].active = @ - 1]
        faults == v.script[f.script].faults + 1
        counted == [left EXCEPT !.script[f.script].faults = IF faults > FaultLimit THEN @ ELSE faults,
                                !.script[f.script].state = IF faults >= FaultLimit THEN "Retiring" ELSE @]
    IN  IF ok THEN left ELSE IF f.kind = "token" THEN Cancel(counted, f.token) ELSE counted

ScriptReturn(ok) ==
    /\ stack # <<>> /\ IsScript(Top)
    /\ LET f == Top
           v == Exited(View, f, ok)
           p == f.script
       IN  /\ CASE f.kind = "start" ->
                   \/ /\ ok
                      /\ \E s \in {"Running", "Loading"} :  \* LoadScript, ReloadScript
                            script' = [v.script EXCEPT ![p].state = s, ![p].listed = TRUE]
                      /\ Become(v)
                   \/ \E w \in Cleaned(Dying(v, p), p) :    \* it failed or did not return true
                            script' = Listed(w, p).script /\ Become(w)
                [] f.kind = "stop" -> \E w \in Cleaned(v, p) : script' = w.script /\ Become(w)
                [] OTHER -> script' = v.script /\ Become(v)
           /\ depth' = DepthAfter(f, ok)
           /\ spent' = IF f.kind = "token" /\ ~ok THEN spent \cup {f.token} ELSE spent
    /\ stack' = Front(stack)
    /\ UNCHANGED <<registered, nactive, made>>

-----------------------------------------------------------------------------
(* What an extension does, with a token by the extension that captured it. *)

InNative == stack # <<>> /\ Top.kind = "native"

CaptureCallback ==
    /\ InNative /\ Limit(Top.script) /\ tokens < MaxTokens
    /\ tokens' = tokens + 1
    /\ script' = [script EXCEPT ![Top.script].tokens = @ \cup {tokens'}]
    /\ callbacks' = [callbacks EXCEPT ![tokens'] =
           [script |-> Top.script, ext |-> ExtOf[Top.native], persistent |-> FALSE]]
    /\ UNCHANGED <<registered, leased, nactive, resources, depth, stack, handles, history>>

CancelCallback(t) ==
    /\ Outside /\ callbacks[t] # None
    /\ script' = Cancel(View, t).script /\ callbacks' = Cancel(View, t).callbacks
    /\ UNCHANGED <<registered, leased, nactive, resources, depth, stack, made, history>>

\* RetainCallback, DeliverCallback and InvokeCallback cancel the token of a script
\* that retires.
Stale(t) == ~Alive(callbacks[t].script)

RetainCallback(t) ==
    /\ Outside /\ callbacks[t] # None
    /\ IF Stale(t)
       THEN script' = Cancel(View, t).script /\ callbacks' = Cancel(View, t).callbacks
       ELSE callbacks' = [callbacks EXCEPT ![t].persistent = TRUE] /\ UNCHANGED script
    /\ UNCHANGED <<registered, leased, nactive, resources, depth, stack, made, history>>

\* The token is given up before the script runs.
Consumed_After(t) == View
Consumed(t) == Cancel(View, t)

DeliverCallback(t) ==
    /\ Outside /\ callbacks[t] # None /\ ~callbacks[t].persistent
    /\ ~Managing /\ RuntimeIdle /\ script[callbacks[t].script].state = "Running"
    /\ Enter([kind |-> "once", script |-> callbacks[t].script, token |-> t], Consumed(t).script)
    /\ callbacks' = Consumed(t).callbacks
    /\ spent' = spent \cup {t}
    /\ UNCHANGED <<registered, leased, nactive, resources, depth, made, late>>

InvokeCallback(t) ==
    /\ Outside /\ callbacks[t] # None /\ callbacks[t].persistent
    /\ ~Managing /\ script[callbacks[t].script].state = "Running" /\ depth < Depth
    /\ Enter([kind |-> "token", script |-> callbacks[t].script, token |-> t], script)
    /\ depth' = depth + 1
    /\ UNCHANGED <<registered, leased, nactive, callbacks, resources, made, history>>

CreateResource ==
    /\ InNative /\ Limit(Top.script) /\ handles < MaxResources
    /\ handles' = handles + 1
    /\ resources' = [resources EXCEPT ![handles'] = [script |-> Top.script, ext |-> ExtOf[Top.native]]]
    /\ UNCHANGED <<script, registered, leased, nactive, callbacks, depth, stack, tokens, history>>

CloseResource(h) ==
    /\ InNative
    /\ resources[h] = [script |-> Top.script, ext |-> ExtOf[Top.native]]
    /\ resources' = [resources EXCEPT ![h] = None]
    /\ late' = IF ExtOf[Top.native] \in leased THEN late ELSE late \cup {h}
    /\ UNCHANGED <<script, registered, leased, nactive, callbacks, depth, stack, made, spent>>

Next ==
    \/ \E r \in Natives : RegisterNative(r) \/ UnregisterNative(r) \/ CallNative(r)
    \/ \E p \in Scripts : Load(p) \/ Promote(p) \/ Pause(p) \/ Resume(p) \/ Unload(p) \/ CallScript(p)
    \/ CallCore \/ NativeReturn
    \/ \E ok \in BOOLEAN : ScriptReturn(ok)
    \/ CaptureCallback \/ CreateResource
    \/ \E t \in Tokens : CancelCallback(t) \/ RetainCallback(t) \/ DeliverCallback(t) \/ InvokeCallback(t)
    \/ \E h \in Resources : CloseResource(h)

Spec == Init /\ [][Next]_vars

\* NativeConsumerStatus: what an extension is told of a script that uses it.
ConsumerStatus(e, p) ==
    IF ~script[p].listed THEN "NotFound"
    ELSE IF \A r \in script[p].bound : ExtOf[r] # e THEN "Invalid"
    ELSE CASE script[p].state = "Running" -> "OK"
           [] script[p].state \in {"Paused", "Loading"} -> "Busy"
           [] OTHER -> "NotFound"

-----------------------------------------------------------------------------
(* Properties.                                                             *)

Frames(P(_)) == Cardinality({i \in 1..Len(stack) : P(stack[i])})

\* The state has its types, and the counters of the code (Script::active,
\* Provider::active, callback_depth_) count the calls that are running.
TypeOK ==
    /\ script \in [Scripts -> Script]
    /\ registered \subseteq Natives /\ leased \subseteq Exts
    /\ callbacks \in [Tokens -> Callback \cup {None}]
    /\ resources \in [Resources -> Resource \cup {None}]
    /\ tokens \in 0..MaxTokens /\ handles \in 0..MaxResources
    /\ stack \in Seq(Frame) /\ Len(stack) <= MaxStack
    /\ \A p \in Scripts :
          script[p].active = Frames(LAMBDA f : IsScript(f) /\ f.script = p)
    /\ \A r \in Natives : nactive[r] = Frames(LAMBDA f : f.kind = "native" /\ f.native = r)
    /\ depth = Frames(LAMBDA f : f.kind = "token")

\* A token in callbacks_ is in the set of its script and the other way round, and its
\* script still uses the extension that captured it: a callback never outlives the
\* virtual machine it points into, and every cleanup finds it.
TokensAnchored ==
    /\ \A p \in Scripts : script[p].tokens = {t \in Tokens : callbacks[t] # None /\ callbacks[t].script = p}
    /\ \A t \in Tokens : callbacks[t] # None =>
          LET s == script[callbacks[t].script]
          IN  s.state # "Absent" /\ \E r \in s.bound : ExtOf[r] = callbacks[t].ext

\* Whatever is on the stack can be returned to: the script of a call has its virtual
\* machine, and a native that runs is registered, bound and its service is leased,
\* however the script was unloaded or its callbacks failed in between.
CallsAnchored ==
    \A i \in 1..Len(stack) :
        LET f == stack[i]
        IN  /\ script[f.script].state # "Absent"
            /\ f.kind = "native" =>
                  /\ f.native \in registered /\ f.native \in script[f.script].bound
                  /\ ExtOf[f.native] \in leased

\* Whatever can call, or be returned to, has what it needs.
Anchored == TypeOK /\ TokensAnchored /\ CallsAnchored

\* The host holds the service of an extension exactly while some script is bound to one
\* of its natives (AcquireProvider for the first, ReleaseProvider for the last).
LeaseMatches == leased = {ExtOf[r] : r \in UNION {script[p].bound : p \in Scripts}}

\* The extension's function that destroys a resource runs while the extension is still
\* leased: Cleanup retires the handles before it releases the providers.
DestroyedUnderLease == late = {}

\* An extension's code is under a lease whenever it may be entered.
LeaseCovers == LeaseMatches /\ DestroyedUnderLease

\* A token whose one delivery began, or whose retained call failed, never runs again,
\* although the extension keeps it and the call may be nested in itself.
SpentNeverRuns ==
    [][\A t \in spent : ~ /\ Len(stack') > Len(stack)
                          /\ Last(stack').kind \in {"once", "token"} /\ Last(stack').token = t]_vars

\* The interface says that an extension is told BUSY of a script that is loading.
LoadingIsBusy ==
    InNative /\ script[Top.script].state = "Loading"
        => ConsumerStatus(ExtOf[Top.native], Top.script) = "Busy"
=============================================================================
