------------------------------ MODULE HttpClient ------------------------------
(***************************************************************************)
(* One call of klhayyent's Client.Do, over net/http's Client, which        *)
(* follows redirects and asks checkRedirect about each.  The call may time *)
(* out, or its context be cancelled, whenever it waits.                    *)
(***************************************************************************)
EXTENDS HttpWire

CONSTANTS
    Paths,         \* the paths that are asked for
    MaxBody,       \* maxResponseBodySize, in chunks
    MaxRedirects   \* defaultMaxRedirects

ASSUME ClientAssumption == MaxBody \in Nat /\ MaxRedirects \in Nat \ {0}

VARIABLE call  \* the call of Do: what it waits for, and what it returned

Bodies == {"none", "json", "text", "reader"}
Policies == {"allow", "refuse", "useLast", "mutate"}

Init_Client == call = [pc |-> "idle"]

Returned(outcome) ==
    [outcome |-> outcome, status |-> 0, code |-> "none", body |-> <<>>, id |-> "none"]
Return(result) ==
    call' = [pc |-> "done", context |-> call.context, requests |-> call.requests,
             result |-> result]

-----------------------------------------------------------------------------
(* The request.                                                            *)

\* encodeRequestBody names a type for what it encodes; a header that an option set
\* stands.
ContentType(body, option) ==
    CASE option # "none" -> option
      [] option = "none" /\ body = "json" -> "json"
      [] option = "none" /\ body = "text" -> "other"
      [] OTHER -> "none"

\* Mutant: an option's X-Request-ID stands, as its Content-Type does.
RequestIDHeader_Option(context, option) == IF option # "none" THEN option ELSE context

\* The id of the caller's context replaces whatever an option set.
RequestIDHeader(context, option) == IF context # "none" THEN context ELSE option

\* validateRequest or newRequest finds fault: nothing is sent.
Invalid ==
    /\ call.pc = "idle"
    /\ call' = [pc |-> "done", context |-> "none", requests |-> 0,
                result |-> Returned("invalid")]
    /\ UNCHANGED wire

\* Do builds the request, with its options, and sends it.
Do ==
    /\ call.pc = "idle"
    /\ \E path \in Paths, method \in Methods, body \in Bodies,
          authorized \in BOOLEAN, typeOption \in {"none", "json"},
          context \in {"none", "context", "malformed"}, idOption \in {"none", "option"} :
          /\ sent' = <<[path |-> path, method |-> method,
                        id |-> RequestIDHeader(context, idOption),
                        contentType |-> ContentType(body, typeOption),
                        authorized |-> authorized, origin |-> "base"]>>
          /\ call' = [pc |-> "wait", context |-> context, requests |-> 1,
                      asked |-> Head(sent')]
    /\ UNCHANGED reply

\* http.Client.Timeout, the context's end, or a transport that fails.
TransportFails ==
    /\ call.pc = "wait"
    /\ Return(Returned("transport"))
    /\ UNCHANGED wire

-----------------------------------------------------------------------------
(* The reply.                                                              *)

Redirects(r) == r.whole /\ r.status = 302 /\ r.location # "none"

\* The origin of the next request when the policy is done with its URL.
After(policy, origin) == IF policy = "mutate" THEN "other" ELSE origin

\* Mutant: what the policy has done to the URL is not looked at.
Allowed_Trusting(r, policy) ==
    call.requests < MaxRedirects /\ r.location = "base" /\ policy \in {"allow", "mutate"}

\* checkRedirect lets the redirect pass.
Allowed(r, policy) ==
    /\ call.requests < MaxRedirects /\ r.location = "base"
    /\ policy \in {"allow", "mutate"} /\ After(policy, r.location) = "base"

\* net/http asks again, with GET or HEAD, the headers of the first request, and no body.
Follow(r) ==
    /\ call.pc = "wait" /\ Redirects(r)
    /\ \E path \in Paths, policy \in Policies :
          /\ Allowed(r, policy)
          /\ LET method == IF call.asked.method = "HEAD" THEN "HEAD" ELSE "GET"
                 next == [call.asked EXCEPT !.path = path, !.method = method,
                             !.contentType = "none", !.origin = After(policy, r.location)]
             IN  /\ sent' = <<next>>
                 /\ call' = [call EXCEPT !.requests = @ + 1, !.asked = next]

\* checkRedirect returns an error, its own or the policy's.
RefuseRedirect(r) ==
    /\ call.pc = "wait" /\ Redirects(r)
    /\ \E policy \in Policies \ {"useLast"} : ~Allowed(r, policy)
    /\ Return(Returned("redirect")) /\ UNCHANGED sent

\* The reply that Do reads: no redirect, or one the policy wants to have itself
\* (http.ErrUseLastResponse).
Final(r) ==
    /\ call.pc = "wait" /\ UNCHANGED sent
    /\ Redirects(r) => call.requests < MaxRedirects /\ r.location = "base"

\* Mutant: the limit is not exceeded by a byte.
Read_ToLimit(r) == SubSeq(r.body, 1, IF Len(r.body) < MaxBody THEN Len(r.body) ELSE MaxBody)

\* io.LimitReader reads one byte more than there may be.
Read(r) == SubSeq(r.body, 1, IF Len(r.body) <= MaxBody THEN Len(r.body) ELSE MaxBody + 1)

TooLarge(r) ==
    /\ Final(r) /\ Len(Read(r)) > MaxBody
    /\ Return(Returned("tooLarge"))

\* The body breaks off.
ReadFails(r) ==
    /\ Final(r) /\ Len(Read(r)) <= MaxBody /\ ~r.whole
    /\ Return(Returned("transport"))

Received(r) == Final(r) /\ Len(Read(r)) <= MaxBody /\ r.whole
Response(r, outcome, code) ==
    [outcome |-> outcome, status |-> r.status, code |-> code, body |-> Read(r), id |-> r.id]

\* The code of the envelope that the body is, or else the status'.
ErrorCode(r) ==
    IF \E c \in Codes : r.body = <<c>> THEN r.body[1] ELSE CodeOf(r.status)

\* newHTTPError.
StatusError(r) ==
    /\ Received(r) /\ ~Success(r.status)
    /\ Return(Response(r, "status", ErrorCode(r)))

\* decodeResponseBody: if the caller wants the body, it may not be JSON, or what it
\* is written to may fail.
DecodeFails(r) ==
    /\ Received(r) /\ Success(r.status) /\ Read(r) # <<>>
    /\ Return(Response(r, "decode", "none"))

Succeed(r) ==
    /\ Received(r) /\ Success(r.status)
    /\ Return(Response(r, "ok", "none"))

Receive ==
    /\ reply # <<>> /\ reply' = <<>>
    /\ LET r == Head(reply)
       IN  \/ Follow(r) \/ RefuseRedirect(r) \/ TooLarge(r) \/ ReadFails(r)
           \/ StatusError(r) \/ DecodeFails(r) \/ Succeed(r)

Next_Client == Invalid \/ Do \/ TransportFails \/ Receive
=============================================================================
