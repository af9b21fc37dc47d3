------------------------------ MODULE Services ------------------------------
(***************************************************************************)
(* include/source2root/extension.hpp, src/module.cpp and the registry of   *)
(* src/bindings.cpp: how Source2Root, the native extensions and the        *)
(* scripts hold on to one another, from loading to unloading.              *)
(*                                                                         *)
(* Source2Root publishes four services.  An extension leases them, keeps   *)
(* pointers into their tables, publishes a service of its own and          *)
(* registers natives, and scripts bind those.  All of them may be loaded   *)
(* and unloaded by the operator in any order, what has to be given back is *)
(* given back one by one, and any of it may be refused: the rest is left   *)
(* for the next attempt, while the module goes on running.                 *)
(*                                                                         *)
(* KeelS2 is external: it keeps the registry of services, and withdraws    *)
(* none that is leased.                                                    *)
(***************************************************************************)
EXTENDS Naturals, Sequences

CONSTANTS Exts, Scripts, Names,
          Stages,      \* the names each extension registers, in order
          Uses,        \* the names each script's bytecode declares
          MaxRefusals, \* bound: refusals for no reason of this model
          None

VARIABLES
    host,      \* Source2Root: absent, or loaded
    published, \* the services KeelS2 knows; an extension stands for its own
    providers, \* providers_: the extension that registered a name
    ext,       \* the extensions: absent, ready, or disabled by a failed setup
    holds,     \* registrations, publication_ and the queried_ flags of an extension
    apis,      \* the service tables an extension has a pointer to
    bound,     \* the names a loaded script is bound to
    leaving,   \* the server is being stopped
    refusals   \* refusals so far

vars == <<host, published, providers, ext, holds, apis, bound, leaving, refusals>>

Init ==
    /\ host = "absent" /\ published = {}
    /\ providers = [n \in Names |-> None]
    /\ ext = [e \in Exts |-> "absent"]
    /\ holds = [e \in Exts |-> {}] /\ apis = [e \in Exts |-> {}]
    /\ bound = [p \in Scripts |-> {}]
    /\ leaving = FALSE /\ refusals = 0

\* What the host publishes, in the order in which it is withdrawn.
Withdrawn == <<"consumer", "callback", "native", "extension">>
HostServices == {"consumer", "callback", "native", "extension"}

\* Provider::users, and the leases KeelS2 has given out: what a thing is used by keeps
\* it from being given up.
Leased == UNION {holds[e] \cap HostServices : e \in Exts}
Used_Never == {}
Used == LET natives == UNION {bound[p] : p \in Scripts}
        IN  natives \cup {providers[n] : n \in natives}

-----------------------------------------------------------------------------
(* Giving back, one by one, until all is given back or something is not.   *)

\* How far a holder of H gets through the things it gives back in this order: to the
\* end, or to the first that is in use, or to one that is refused nevertheless.
Given(order, H, used) ==
    {k \in 0..Len(order) :
        /\ \A i \in 1..k : order[i] \notin H \cap used
        /\ k < Len(order) => /\ order[k + 1] \in H
                             /\ order[k + 1] \in used \/ refusals < MaxRefusals}
Gone(order, H, k) == H \cap {order[i] : i \in 1..k}

\* A refusal that has no reason in the model is counted.
Counted(order, used, k) ==
    refusals' = IF k < Len(order) /\ order[k + 1] \notin used THEN refusals + 1 ELSE refusals

\* ReleaseResources: natives first, then the publication, then the leases; the table
\* of the extension service is needed to unregister natives and goes last.
ReleaseOrder(e) == Stages[e] \o <<e>> \o <<"native", "callback", "consumer", "extension">>

\* Release of an extension that holds H, which goes when all of it is given back.
ReleaseResources(e, H, left) ==
    \E k \in Given(ReleaseOrder(e), H, Used) :
        LET gone == Gone(ReleaseOrder(e), H, k)
            done == k = Len(ReleaseOrder(e))
        IN  /\ Counted(ReleaseOrder(e), Used, k)
            /\ holds' = [holds EXCEPT ![e] = H \ gone]
            /\ providers' = [n \in Names |-> IF n \in gone THEN None
                                             ELSE IF n \in H THEN e ELSE providers[n]]
            /\ published' = IF e \in H \ gone THEN published \cup {e} ELSE published \ {e}
            /\ ext' = [ext EXCEPT ![e] = IF done THEN "absent" ELSE left]
            /\ apis' = [apis EXCEPT ![e] = IF done THEN {} ELSE @ \cup (H \cap HostServices)]

-----------------------------------------------------------------------------
(* Source2Root.                                                            *)

\* Source2Root::Load.  When it fails half way KeelS2 drops what was published.
HostLoad ==
    /\ host = "absent" /\ ~leaving
    /\ host' = "loaded"
    /\ published' = published \cup HostServices
    /\ UNCHANGED <<providers, ext, holds, apis, bound, leaving, refusals>>

\* PrepareUnload and Unload: Shutdown unloads the scripts, the four services are
\* withdrawn, and foundation_ goes with the registry of natives.
HostUnload ==
    /\ host = "loaded"
    /\ \E stay \in SUBSET {p \in Scripts : bound[p] # {}} :
          /\ bound' = [p \in Scripts |-> IF p \in stay THEN bound[p] ELSE {}]
          /\ \/ /\ stay # {}
                /\ refusals < MaxRefusals /\ refusals' = refusals + 1
                /\ UNCHANGED <<host, published, providers>>
             \/ /\ stay = {}
                /\ \E k \in Given(Withdrawn, published, Leased) :
                      /\ Counted(Withdrawn, Leased, k)
                      /\ published' = published \ Gone(Withdrawn, published, k)
                      /\ IF k = Len(Withdrawn)
                         THEN /\ host' = "absent"
                              /\ providers' = [n \in Names |-> None]
                         ELSE UNCHANGED <<host, providers>>
    /\ UNCHANGED <<ext, holds, apis, leaving>>

-----------------------------------------------------------------------------
(* The extensions.                                                         *)

\* The first k natives of an extension; RegisterNative of the host refuses a name that
\* is taken.
Staged(e, k) == {Stages[e][i] : i \in 1..k}
Free(e, k) == \A i \in 1..k : providers[Stages[e][i]] = None

\* What Load has acquired when it ends or fails: leases, the publication, then some
\* or all of the natives, up to one that is registered by another extension.
Acquired(e) ==
    LET taken == {"extension", "native"} \cap published
    IN  IF "extension" \notin published THEN {{}}
        ELSE IF "native" \notin published THEN {taken}
        ELSE {taken} \cup {taken \cup {e} \cup Staged(e, k) :
                               k \in {j \in 0..Len(Stages[e]) : Free(e, j)}}

\* ... when it has registered all that OnExtensionStart staged.
Complete(e) == {"extension", "native", e} \cup Staged(e, Len(Stages[e]))

\* SetupFailed gives back what was acquired; an extension that could not stays, with
\* its natives disabled.
SetupFailed(e, H) == H # Complete(e) /\ ReleaseResources(e, H, "disabled")

\* Extension::Load.
ExtLoad(e) ==
    /\ ext[e] = "absent" /\ ~leaving
    /\ \E H \in Acquired(e) :
          \/ /\ H = Complete(e)
             /\ ext' = [ext EXCEPT ![e] = "ready"]
             /\ holds' = [holds EXCEPT ![e] = H]
             /\ apis' = [apis EXCEPT ![e] = {"extension", "native"}]
             /\ providers' = [n \in Names |-> IF n \in H THEN e ELSE providers[n]]
             /\ published' = published \cup {e}
             /\ UNCHANGED refusals
          \/ SetupFailed(e, H)
    /\ UNCHANGED <<host, bound, leaving>>

\* A service that is leased when it is first needed.  Afterwards the pointer is used,
\* and not queried again.
Connect(e, x) ==
    /\ ext[e] = "ready" /\ x \in published /\ x \notin apis[e]
    /\ holds' = [holds EXCEPT ![e] = @ \cup {x}]
    /\ apis' = [apis EXCEPT ![e] = @ \cup {x}]
    /\ UNCHANGED <<host, published, providers, ext, bound, leaving, refusals>>

RetainCallback(e) == Connect(e, "callback")
ConnectConsumers(e) == Connect(e, "consumer")

\* PrepareUnload: PrepareExtensionUnload may refuse; Release is tried again where it
\* ended.  ready_ stays as it is until all is given back.
MayUnload_Ready(e) == ext[e] = "ready"
MayUnload(e) == ext[e] # "absent"
ExtUnload(e) ==
    /\ MayUnload(e)
    /\ \/ ReleaseResources(e, holds[e], ext[e])
       \/ /\ refusals < MaxRefusals /\ refusals' = refusals + 1
          /\ UNCHANGED <<published, providers, ext, holds, apis>>
    /\ UNCHANGED <<host, bound, leaving>>

-----------------------------------------------------------------------------
(* The scripts, and the end.                                               *)

\* Bind: every native is registered, and the provider's service can be leased.
ScriptLoad(p) ==
    /\ host = "loaded" /\ bound[p] = {} /\ ~leaving
    /\ \A n \in Uses[p] : providers[n] # None /\ providers[n] \in published
    /\ bound' = [bound EXCEPT ![p] = Uses[p]]
    /\ UNCHANGED <<host, published, providers, ext, holds, apis, leaving, refusals>>

ScriptUnload(p) ==
    /\ bound[p] # {}
    /\ bound' = [bound EXCEPT ![p] = {}]
    /\ UNCHANGED <<host, published, providers, ext, holds, apis, leaving, refusals>>

\* The operator stops the server: nothing is loaded any more.
Stop ==
    /\ ~leaving /\ leaving' = TRUE
    /\ UNCHANGED <<host, published, providers, ext, holds, apis, bound, refusals>>

ServicesNext ==
    \/ HostLoad \/ HostUnload \/ Stop
    \/ \E e \in Exts : \/ ExtLoad(e) \/ ExtUnload(e)
                        \/ RetainCallback(e) \/ ConnectConsumers(e)
    \/ \E p \in Scripts : ScriptLoad(p) \/ ScriptUnload(p)

\* Once the server is being stopped the operator repeats what was refused.
HostGoes == leaving /\ HostUnload
ExtGoes(e) == leaving /\ ExtUnload(e)

Spec ==
    /\ Init /\ [][ServicesNext]_vars
    /\ WF_vars(HostGoes) /\ \A e \in Exts : WF_vars(ExtGoes(e))

-----------------------------------------------------------------------------
(* Properties.                                                             *)

\* Between attempts to unload, whatever was already given back, nothing points at
\* what is gone: an extension calls into a loaded host, a registered native has its
\* extension and the service that scripts lease, and a bound script has its natives.
NothingDangles ==
    /\ \A e \in Exts : apis[e] # {} => host = "loaded"
    /\ \A n \in Names : providers[n] # None =>
          ext[providers[n]] # "absent" /\ providers[n] \in published
    /\ \A p \in Scripts : \A n \in bound[p] : providers[n] # None

\* No order of unloading leaves modules that hold one another for ever: an operator
\* who repeats what was refused gets all of them out.
AllLeave == leaving ~> host = "absent" /\ \A e \in Exts : ext[e] = "absent"
=============================================================================
