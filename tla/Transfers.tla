------------------------------ MODULE Transfers ------------------------------
(***************************************************************************)
(* extensions/http: a request that a script builds and that a worker       *)
(* performs (Client::Perform).  The worker follows redirects itself, with  *)
(* one curl transfer per hop, and keeps one budget of bytes and one        *)
(* deadline for all of them.  The server answers as it likes.              *)
(*                                                                         *)
(* An address is an origin: whether it is HTTPS, and the host with its     *)
(* port.  "put" stands for PUT, PATCH and DELETE, one header for all       *)
(* custom ones and one for all whose name begins with "content-".  The     *)
(* syntax of addresses, headers, fields and file names is left out; what   *)
(* does not parse fails, as a transfer of curl may at any time.            *)
(***************************************************************************)
EXTENDS Naturals, Sequences

CONSTANTS Hosts,
          BodyLimit,     \* bytes sent, and bytes received at the most (1 MiB)
          HeaderLimit,   \* bytes of headers received (64 KiB)
          RedirectLimit, \* redirects at the most (5)
          None

Urls == [secure : BOOLEAN, host : Hosts]
Methods == {"get", "head", "post", "put"}
HeaderNames == {"custom", "content"}

VARIABLES
    request,  \* the copy that Perform changes; before that, the builder's
    phase,    \* "none", "building", "reading", "starting", "receiving" or "ended"
    address, hop,
    over,     \* the deadline has passed, or the job was canceled
    used,     \* header_bytes and body_bytes
    response, \* of which hops the headers and the body of the response are
    answer,   \* what Perform returned: None when it threw
    trail     \* history: what was sent, by hop
vars == <<request, phase, address, hop, over, used, response, answer, trail>>

Empty == [head |-> {}, body |-> {}]

Init ==
    /\ request = None /\ phase = "none" /\ address = None /\ hop = 0 /\ over = FALSE
    /\ used = [head |-> 0, body |-> 0] /\ response = Empty /\ answer = None /\ trail = <<>>

-----------------------------------------------------------------------------
(* The builder.                                                            *)

Carries(input) == input.size > 0 \/ input.form

\* Request::Validate: form says that there are parts, size counts the bytes of the raw
\* body or of the parts, without those of files.  There is one of the two.
Valid(input) ==
    /\ input.limit \in 1..BodyLimit /\ input.redirects <= RedirectLimit
    /\ input.size <= BodyLimit
    /\ Carries(input) => input.method \notin {"get", "head"}
    /\ input.form => input.method = "post"

\* HTTP_Create.
Create(url, method) ==
    /\ phase = "none"
    /\ request' = [method |-> method, headers |-> {}, size |-> 0, form |-> FALSE, file |-> FALSE,
                   limit |-> 1, redirects |-> 1]
    /\ address' = url /\ phase' = "building"
    /\ UNCHANGED <<hop, over, used, response, answer, trail>>

\* Edit: a copy is edited, and taken when it is valid.
Edit(input) ==
    /\ phase = "building" /\ Valid(input)
    /\ request' = input
    /\ UNCHANGED <<phase, address, hop, over, used, response, answer, trail>>

SetHeader(name) == Edit([request EXCEPT !.headers = @ \cup {name}])
SetBody(size) == ~request.form /\ Edit([request EXCEPT !.size = size])
AppendBytes(size) == ~request.form /\ Edit([request EXCEPT !.size = @ + size])
Raw == request.size > 0 /\ ~request.form
Form(size) == ~Raw /\ Edit([request EXCEPT !.size = @ + size, !.form = TRUE])
FormFile == ~Raw /\ Edit([request EXCEPT !.form = TRUE, !.file = TRUE])
Limits(limit, redirects) == Edit([request EXCEPT !.limit = limit, !.redirects = redirects])

\* HTTP_Send, and the worker that takes the job.
Send ==
    /\ phase = "building" /\ phase' = "reading"
    /\ UNCHANGED <<request, address, hop, over, used, response, answer, trail>>

-----------------------------------------------------------------------------
(* Client::Perform.                                                        *)

Performing == phase \in {"reading", "starting", "receiving"}

End(result) ==
    /\ phase' = "ended" /\ answer' = result
    /\ UNCHANGED <<request, address, hop, over, used, response, trail>>

\* Operation::Check finds that it is canceled or late; curl fails; or what the server
\* or a file contains is refused.
Stop == Performing /\ over /\ End(None)
Fail == Performing /\ ~over /\ End(None)

\* The files of the parts are read, up to what the other parts leave.
ReadFiles ==
    /\ phase = "reading" /\ ~over
    /\ \E size \in IF request.file THEN 0..(BodyLimit - request.size) ELSE {0} :
          request' = [request EXCEPT !.size = @ + size, !.file = FALSE]
    /\ phase' = "starting"
    /\ UNCHANGED <<address, hop, over, used, response, answer, trail>>

\* One hop: a transfer of its own, with an empty response.
Start ==
    /\ phase = "starting" /\ ~over
    /\ phase' = "receiving" /\ response' = Empty
    /\ trail' = Append(trail, [to |-> address, method |-> request.method,
                               headers |-> request.headers, content |-> Carries(request),
                               size |-> request.size])
    /\ UNCHANGED <<request, address, hop, over, used, answer>>

\* Operation::Header and Body: the budget is that of all hops.
Allowed(part) == IF part = "head" THEN HeaderLimit ELSE request.limit
Receive(part) ==
    /\ phase = "receiving" /\ ~over
    /\ IF used[part] < Allowed(part)
       THEN /\ used' = [used EXCEPT ![part] = @ + 1]
            /\ response' = [response EXCEPT ![part] = @ \cup {hop}]
            /\ UNCHANGED <<request, phase, address, hop, over, answer, trail>>
       ELSE End(None)

\* The transfer is done.  "see other" is 303, "moved" 301 and 302, "repeat" 307 and 308.
Redirects == {"see other", "moved", "repeat"}
Return ==
    /\ phase = "receiving" /\ ~over
    /\ \E status \in Redirects \cup {"final"}, located \in BOOLEAN :
          /\ status = "final" \/ request.redirects = 0 \/ ~located
          /\ End([status |-> status, located |-> located, response |-> response, hop |-> hop])

\* The rest of the request after a redirect: GET without what it carried, and to
\* another origin without headers.
BecomesGet(status) ==
    \/ status = "see other" /\ request.method # "head"
    \/ status = "moved" /\ request.method = "post"
Repeated(status) ==
    IF BecomesGet(status)
    THEN [request EXCEPT !.method = "get", !.size = 0, !.form = FALSE,
                         !.headers = @ \ {"content"}]
    ELSE request
Forwarded_First(input, next) ==
    IF trail[1].to.host = next.host THEN input ELSE [input EXCEPT !.headers = {}]
Forwarded(input, next) ==
    IF next = address THEN input ELSE [input EXCEPT !.headers = {}]
Refused(status, next) ==
    \/ hop >= request.redirects
    \/ address.secure /\ ~next.secure
    \/ next # address /\ Repeated(status).method \notin {"get", "head"}

Redirect(status, next) ==
    /\ phase = "receiving" /\ ~over /\ request.redirects # 0
    /\ IF Refused(status, next) THEN End(None)
       ELSE /\ request' = Forwarded(Repeated(status), next)
            /\ address' = next /\ hop' = hop + 1 /\ phase' = "starting"
            /\ UNCHANGED <<over, used, response, answer, trail>>

\* Time passes, or the script cancels.
Expire ==
    /\ Performing /\ ~over /\ over' = TRUE
    /\ UNCHANGED <<request, phase, address, hop, used, response, answer, trail>>

Build ==
    \/ \E name \in HeaderNames : SetHeader(name)
    \/ \E size \in 0..1 : SetBody(size) \/ AppendBytes(size) \/ Form(size)
    \/ FormFile
    \/ \E limit \in 1..BodyLimit, redirects \in 0..RedirectLimit : Limits(limit, redirects)

Next ==
    \/ \E url \in Urls, method \in Methods : Create(url, method)
    \/ phase = "building" /\ Build
    \/ Send \/ ReadFiles \/ Start \/ Stop \/ Fail \/ Return \/ Expire
    \/ \E part \in {"head", "body"} : Receive(part)
    \/ \E status \in Redirects, next \in Urls : Redirect(status, next)

\* Time goes on, and curl_multi_poll comes back after 50 ms.
Spec == Init /\ [][Next]_vars /\ WF_vars(Expire) /\ WF_vars(Stop)

-----------------------------------------------------------------------------
(* Properties.                                                             *)

Request == [method : Methods, headers : SUBSET HeaderNames, size : Nat,
            form : BOOLEAN, file : BOOLEAN, limit : Nat, redirects : Nat]
Sent == [to : Urls, method : Methods, headers : SUBSET HeaderNames, content : BOOLEAN, size : Nat]
TypeOK ==
    /\ phase \in {"none", "building", "reading", "starting", "receiving", "ended"}
    /\ IF phase = "none" THEN request = None ELSE request \in Request /\ address \in Urls
    /\ hop \in Nat /\ over \in BOOLEAN
    /\ used \in [head : Nat, body : Nat]
    /\ response \in [head : SUBSET Nat, body : SUBSET Nat]
    /\ trail \in Seq(Sent)

\* Wherever the redirects lead, back to the first origin included: custom headers and
\* uploads go only to the origin the request was made for, until it is left for the
\* first time; a GET made of an upload does not describe it; and nothing is sent without
\* TLS after something was sent with it (source2root_http.inc:39-41).
StaysWithOrigin ==
    \A n \in 1..Len(trail) :
        /\ trail[n].headers # {} \/ trail[n].content =>
              \A k \in 1..n : trail[k].to = trail[1].to
        /\ trail[n].content => trail[n].method \in {"post", "put"}
        /\ trail[n].method # trail[1].method => "content" \notin trail[n].headers
        /\ ~trail[n].to.secure => \A k \in 1..n : ~trail[k].to.secure

\* The limits hold for all hops together, and what is returned is the last hop's alone:
\* a redirect only when none was to be followed (source2root_http.inc:37-43).
LimitsHold ==
    /\ \A n \in 1..Len(trail) : trail[n].size <= BodyLimit
    /\ used.head <= HeaderLimit /\ (request # None => used.body <= request.limit)
    /\ request # None => Len(trail) <= request.redirects + 1
    /\ answer # None =>
          /\ answer.response.head \cup answer.response.body \subseteq {Len(trail) - 1}
          /\ answer.status # "final" => request.redirects = 0 \/ ~answer.located

\* What a script sends stays where it was sent, within the limits.
TransfersKeep == TypeOK /\ StaysWithOrigin /\ LimitsHold

\* A transfer ends, whatever the server does.
TransferEnds == [](Performing => <>(phase = "ended"))
=============================================================================
