------------------------------- MODULE Hooks -------------------------------
(***************************************************************************)
(* extensions/dhooks: scripts put callbacks on native functions (targets), *)
(* and call native functions through prepared calls whose buffers they     *)
(* own.  The engine calls a hooked function at any depth; the host then    *)
(* calls every registration before and after the original.  A callback is  *)
(* script code: it may add, close and enable hooks, its own too, and make  *)
(* the engine call hooked functions again.  The host may fail to remove a  *)
(* registration or to release a target; Collect tries again every frame.   *)
(*                                                                         *)
(* The values of a frame are left out, but for what CheckBufferEdits tells *)
(* apart in a call with a buffer; all calls are made on the game thread.   *)
(***************************************************************************)
EXTENDS Naturals, FiniteSets, Sequences, SequencesExt

CONSTANTS Owners, Targets,
          RegIds,       \* registrations that exist at a time (256)
          CallIds,      \* prepared calls
          Capacity,     \* elements of the buffer of a prepared call
          MaxDepth,     \* callbacks on the stack (8)
          MaxNesting,   \* bound: hooked functions on the stack
          None

VARIABLES
    regs,     \* registrations_
    hooks,    \* the Hook resources of scripts: the target of their registration
    targets,  \* targets_
    opened,   \* the Target resources of scripts
    calls,    \* Call::State: of prepared calls that are open or executed
    native,   \* the host: registrations whose callback it holds
    leased,   \* the host: targets that are leased to the extension
    stack,    \* native functions and callbacks that have not returned
    loaded    \* the extension has not been unloaded

vars == <<regs, hooks, targets, opened, calls, native, leased, stack, loaded>>

Init ==
    /\ regs = <<>> /\ hooks = <<>> /\ targets = {} /\ opened = {} /\ calls = <<>>
    /\ native = {} /\ leased = {}
    /\ stack = <<>> /\ loaded = TRUE

Put(f, x, y) == [z \in DOMAIN f \cup {x} |-> IF z = x THEN y ELSE f[z]]
Drop(f, xs) == [z \in DOMAIN f \ xs |-> f[z]]

\* A callback, or a function of the engine, is on the top of the stack.
Callback(r) == [kind |-> "callback", reg |-> r]
Callbacks == SelectSeq(stack, LAMBDA e : e.kind = "callback")
Active(r) == \E n \in DOMAIN stack : stack[n] = Callback(r)
Functions == SelectSeq(stack, LAMBDA e : e.kind = "function")
TopIs(kind) == stack # <<>> /\ Last(stack).kind = kind

\* Script code runs: in a callback, or outside of all.
ScriptsRun == loaded /\ (stack = <<>> \/ TopIs("callback"))

-----------------------------------------------------------------------------
(* Cleanup.                                                                *)

\* Service::Close: the callback token is given back; the registration stays.
CloseRegs(closed) ==
    [r \in DOMAIN regs |->
        IF r \in closed THEN [regs[r] EXCEPT !.closing = TRUE, !.enabled = FALSE] ELSE regs[r]]

\* Collect: registrations that are closing and on no stack are removed from the host,
\* then targets that nothing uses are released.  Each removal may fail.
Finished_Active == {r \in DOMAIN regs : regs[r].closing}
Finished == {r \in DOMAIN regs : regs[r].closing /\ ~Active(r)}

UsedBy(someRegs, t) ==
    \/ \E o \in Owners : <<o, t>> \in opened
    \/ \E r \in DOMAIN hooks : hooks[r] = t
    \/ \E r \in someRegs : regs[r].target = t
    \/ \E c \in DOMAIN calls : calls[c].target = t

Collections ==
    UNION {{[gone |-> gone, released |-> released] :
                released \in SUBSET {t \in targets : ~UsedBy(DOMAIN regs \ gone, t)}} :
           gone \in SUBSET Finished}

\* A Collect as part of a call.
After(c) ==
    [regs |-> Drop(regs, c.gone), native |-> native \ c.gone,
     targets |-> targets \ c.released, leased |-> leased \ c.released]

\* OnGameFrame.
Collect ==
    /\ loaded /\ stack = <<>>
    /\ \E c \in Collections :
          /\ regs' = After(c).regs /\ native' = After(c).native
          /\ targets' = After(c).targets /\ leased' = After(c).leased
    /\ UNCHANGED <<hooks, opened, calls, stack, loaded>>

\* PrepareExtensionUnload: the extension stays as long as anything is left.
PrepareExtensionUnload ==
    /\ loaded /\ stack = <<>>
    /\ \E c \in Collections :
          /\ regs' = After(c).regs /\ native' = After(c).native
          /\ targets' = After(c).targets /\ leased' = After(c).leased
          /\ loaded' = ~(DOMAIN regs' = {} /\ targets' = {})
    /\ UNCHANGED <<hooks, opened, calls, stack>>

-----------------------------------------------------------------------------
(* Targets and hooks.                                                      *)

\* DHook_Open: aliases of a target share its lease.
Open(o, t) ==
    /\ ScriptsRun /\ <<o, t>> \notin opened
    /\ \E c \in Collections :
          /\ regs' = After(c).regs /\ native' = After(c).native
          /\ targets' = After(c).targets \cup {t}
          /\ leased' = After(c).leased \cup {t}
    /\ opened' = opened \cup {<<o, t>>}
    /\ UNCHANGED <<hooks, calls, stack, loaded>>

CloseTarget(o, t) ==
    /\ ScriptsRun /\ <<o, t>> \in opened
    /\ opened' = opened \ {<<o, t>>}
    /\ UNCHANGED <<regs, hooks, targets, calls, native, leased, stack, loaded>>

\* Service::Attach.  If the host does not add the callback, the new registration is
\* closed, and collected at once.
Registration(o, t) == [target |-> t, owner |-> o, closing |-> FALSE, enabled |-> TRUE]

\* DHook_Add.
Add(o, t, r) ==
    /\ ScriptsRun /\ <<o, t>> \in opened
    /\ r \notin DOMAIN regs \cup DOMAIN hooks
    /\ \E c \in Collections :
          /\ native' = After(c).native \cup {r}
          /\ regs' = Put(After(c).regs, r, Registration(o, t))
          /\ targets' = After(c).targets /\ leased' = After(c).leased
    /\ hooks' = Put(hooks, r, t)
    /\ UNCHANGED <<opened, calls, stack, loaded>>

\* DHook_Close: the resource is destroyed; the registration is left to Collect.
CloseHook(r) ==
    /\ ScriptsRun /\ r \in DOMAIN hooks
    /\ regs' = CloseRegs({r})
    /\ hooks' = Drop(hooks, {r})
    /\ UNCHANGED <<targets, opened, calls, native, leased, stack, loaded>>

\* DHook_Enable; the host may refuse.
Enable(r) ==
    /\ ScriptsRun /\ r \in DOMAIN hooks \cap DOMAIN regs /\ ~regs[r].closing
    /\ regs' = [regs EXCEPT ![r].enabled = ~@]
    /\ UNCHANGED <<hooks, targets, opened, calls, native, leased, stack, loaded>>

-----------------------------------------------------------------------------
(* Prepared calls.  "intact" is history: the State still owns the buffers   *)
(* that it passed when it was executed.                                    *)

\* SDKCall_Prepare.
Prepare(o, t, c) ==
    /\ ScriptsRun /\ <<o, t>> \in opened /\ c \notin DOMAIN calls
    /\ calls' = Put(calls, c, [target |-> t, owner |-> o, open |-> TRUE, busy |-> FALSE,
                               ready |-> FALSE, intact |-> FALSE])
    /\ UNCHANGED <<regs, hooks, targets, opened, native, leased, stack, loaded>>

\* SDKCall_SetString, SetArray, SetVector: a new buffer replaces the old; Reset.
Editable(c) == calls[c].open /\ ~calls[c].busy
SetBuffer(c) ==
    /\ ScriptsRun /\ Editable(c)
    /\ calls' = [calls EXCEPT ![c].ready = TRUE, ![c].intact = FALSE]
    /\ UNCHANGED <<regs, hooks, targets, opened, native, leased, stack, loaded>>
Reset(c) ==
    /\ ScriptsRun /\ Editable(c)
    /\ calls' = [calls EXCEPT ![c].ready = FALSE, ![c].intact = FALSE]
    /\ UNCHANGED <<regs, hooks, targets, opened, native, leased, stack, loaded>>

\* SDKCall_Close: the State lives on while it is executed.
CloseCall(c) ==
    /\ ScriptsRun /\ calls[c].open
    /\ calls' = IF calls[c].busy THEN [calls EXCEPT ![c].open = FALSE] ELSE Drop(calls, {c})
    /\ UNCHANGED <<regs, hooks, targets, opened, native, leased, stack, loaded>>

\* What the original will get: its buffer, another pointer, and the length.
OwnArguments == [buffer |-> "own", other |-> "native", length |-> Capacity]

\* The host calls the registrations of a function that are in place at each phase.
Function(t, phase, c, arguments) ==
    [kind |-> "function", target |-> t, phase |-> phase, done |-> {},
     call |-> c, arguments |-> arguments]

\* SDKCall_Execute, with or without the hooks of the target.
Execute(c) ==
    /\ ScriptsRun /\ calls[c].open /\ ~calls[c].busy /\ calls[c].ready
    /\ Len(Functions) < MaxNesting
    /\ calls' = [calls EXCEPT ![c].busy = TRUE, ![c].intact = TRUE]
    /\ \E phase \in {"pre", "original"} :
          stack' = Append(stack, Function(calls[c].target, phase, c, OwnArguments))
    /\ UNCHANGED <<regs, hooks, targets, opened, native, leased, loaded>>

-----------------------------------------------------------------------------
(* The engine.                                                             *)

\* The engine calls a hooked function: at any time, also below another one.
Engine(t) ==
    /\ \A n \in DOMAIN stack : n = Len(stack) /\ stack[n].kind = "function"
                                   => stack[n].phase = "original"
    /\ Len(Functions) < MaxNesting
    /\ \E r \in native : regs[r].target = t
    /\ stack' = Append(stack, Function(t, "pre", None, OwnArguments))
    /\ UNCHANGED <<regs, hooks, targets, opened, calls, native, leased, loaded>>

Top == Last(stack)
Replaced(top) == [stack EXCEPT ![Len(stack)] = top]

Pending == {r \in native : regs[r].target = Top.target} \ Top.done

\* The host calls the next registration; Dispatch passes it by, or calls the script.
Dispatch(r) ==
    /\ TopIs("function") /\ Top.phase # "original" /\ r \in Pending
    /\ LET called == Replaced([Top EXCEPT !.done = @ \cup {r}])
       IN  stack' = IF regs[r].closing \/ ~regs[r].enabled \/ Len(Callbacks) >= MaxDepth
                    THEN called ELSE Append(called, Callback(r))
    /\ UNCHANGED <<regs, hooks, targets, opened, calls, native, leased, loaded>>

\* CheckBufferEdits: a hook before the original may neither pass the buffer on in
\* another argument nor replace it nor enlarge its length.
KeepsBuffer(before, after) ==
    /\ after.other # "own"
    /\ before.buffer = "own" => after.buffer = "own" /\ after.length <= Capacity

Edits(before) ==
    [buffer : {before.buffer, before.other}, other : {before.buffer, before.other},
     length : {before.length, Capacity + 1}]

\* The callback returns: the hook is closed after an error, or when its script asks
\* for it; changes are committed when they are allowed; the original may be skipped.
Return ==
    /\ TopIs("callback")
    /\ LET r == Top.reg
           below == Front(stack)
           function == Last(below)
       IN  \/ /\ regs' = CloseRegs({r})
              /\ stack' = below
           \/ /\ UNCHANGED regs
              /\ \/ stack' = below
                 \/ /\ function.phase = "pre"
                    /\ \/ /\ function.call # None
                          /\ \E after \in Edits(function.arguments) :
                                /\ KeepsBuffer(function.arguments, after)
                                /\ stack' = [below EXCEPT ![Len(below)].arguments = after]
                       \/ stack' = [below EXCEPT ![Len(below)].phase = "post",
                                                 ![Len(below)].done = {}]
    /\ UNCHANGED <<hooks, targets, opened, calls, native, leased, loaded>>

\* The function goes on: to the original, to the hooks after it, and back to the caller.
Proceed ==
    /\ TopIs("function") /\ (Top.phase # "original" => Pending = {})
    /\ \/ /\ Top.phase = "pre"
          /\ stack' = Replaced([Top EXCEPT !.phase = "original"])
          /\ UNCHANGED calls
       \/ /\ Top.phase = "original"
          /\ stack' = Replaced([Top EXCEPT !.phase = "post", !.done = {}])
          /\ UNCHANGED calls
       \/ /\ Top.phase = "post"
          /\ stack' = Front(stack)
          /\ calls' = IF Top.call = None THEN calls
                      ELSE IF ~calls[Top.call].open THEN Drop(calls, {Top.call})
                      ELSE [calls EXCEPT ![Top.call].busy = FALSE, ![Top.call].intact = FALSE]
    /\ UNCHANGED <<regs, hooks, targets, opened, native, leased, loaded>>

\* A script is unloaded, when no call of it is on the stack: its resources go.
OnStack(o) == \E r \in DOMAIN regs : regs[r].owner = o /\ Active(r)
Retire(o) ==
    /\ ScriptsRun /\ ~OnStack(o)
    /\ LET mine == {r \in DOMAIN hooks \cap DOMAIN regs : regs[r].owner = o}
       IN  /\ regs' = CloseRegs(mine)
           /\ hooks' = Drop(hooks, mine)
    /\ opened' = {p \in opened : p[1] # o}
    /\ calls' = [c \in {d \in DOMAIN calls : calls[d].owner # o \/ calls[d].busy} |->
                    [calls[c] EXCEPT !.open = @ /\ calls[c].owner # o]]
    /\ UNCHANGED <<targets, native, leased, stack, loaded>>

Next ==
    \/ Collect \/ PrepareExtensionUnload
    \/ \E o \in Owners : \/ Retire(o)
                         \/ \E t \in Targets :
                               \/ Open(o, t) \/ CloseTarget(o, t)
                               \/ \E r \in RegIds : Add(o, t, r)
                               \/ \E c \in CallIds : Prepare(o, t, c)
    \/ \E r \in RegIds : CloseHook(r) \/ Enable(r)
    \/ \E c \in DOMAIN calls : SetBuffer(c) \/ Reset(c) \/ CloseCall(c) \/ Execute(c)
    \/ \E t \in Targets : Engine(t)
    \/ \E r \in native : Dispatch(r)
    \/ Return \/ Proceed

Spec == Init /\ [][Next]_vars

-----------------------------------------------------------------------------
TypeOK ==
    /\ DOMAIN regs \subseteq RegIds /\ DOMAIN hooks \subseteq RegIds
    /\ targets \subseteq Targets /\ leased \subseteq Targets
    /\ DOMAIN calls \subseteq CallIds
    /\ \A n \in DOMAIN stack : stack[n].kind \in {"callback", "function"}

\* The host holds a pointer to a registration, and a callback that returns uses its
\* registration again: both find it, however often it was closed in between.
RegistrationsStay ==
    /\ TypeOK
    /\ native \subseteq DOMAIN regs
    /\ \A r \in RegIds : Active(r) => r \in DOMAIN regs

\* A target stays leased while a callback is on it, while it is called, and while a
\* script holds it; no lease is forgotten, not even when the extension is unloaded.
LeasesHeld ==
    /\ leased = targets /\ (~loaded => leased = {} /\ native = {})
    /\ \A r \in native : regs[r].target \in leased
    /\ \A p \in opened : p[2] \in leased
    /\ \A n \in DOMAIN stack :
          stack[n].kind = "function" /\ stack[n].call # None => stack[n].target \in leased

\* While a prepared call is executed, the native function has the buffer that the
\* State still owns, in its own argument only, and with no greater length.
BuffersBounded ==
    \A n \in DOMAIN stack :
        stack[n].kind = "function" /\ stack[n].call # None =>
            /\ stack[n].call \in DOMAIN calls /\ calls[stack[n].call].intact
            /\ stack[n].arguments = OwnArguments

\* What a running callback or call comes back to, and what it writes to, is there.
HooksStay == RegistrationsStay /\ LeasesHeld /\ BuffersBounded
=============================================================================
