------------------------------- MODULE Exchange -------------------------------
(***************************************************************************)
(* The client and the server together: routes are registered, the server   *)
(* is started, and one call of Client.Do goes through the mux and the      *)
(* middlewares of its route to the handler and back, with the requests its *)
(* redirects ask for.  A call that times out leaves the server at work.    *)
(***************************************************************************)
EXTENDS ServerChain, HttpClient

vars == <<routing, server, call, wire>>

Init ==
    /\ Init_Routing /\ Init_Server /\ Init_Client
    /\ sent = <<>> /\ reply = <<>>

Next ==
    \/ Next_Routing /\ UNCHANGED <<server, call, wire>>
    \/ Next_Server /\ UNCHANGED <<routing, call>>
    \/ phase = "serving" /\ Next_Client /\ UNCHANGED <<routing, server>>

Spec == Init /\ [][Next]_vars

-----------------------------------------------------------------------------
Outcomes == {"invalid", "transport", "redirect", "tooLarge", "status", "decode", "ok"}
Result == call.result
Has(outcomes) == call.pc = "done" /\ Result.outcome \in outcomes
Answered == Has({"status", "decode", "ok"})

\* A request that is served, or was last.
Works ==
    [pc : {"idle", "enter", "handler", "leave"}, request : Requests(Paths),
     route : Paths \cup {0}, depth : Nat, panics : BOOLEAN,
     context : Ids, header : Ids, wrapper : Nat, recorded : Nat, logId : Ids,
     status : Nat, id : Ids, body : Seq(Chunks), location : Origins \cup {"none"},
     verdict : [status : Nat, code : Codes \cup {"none"}],
     spoiled : BOOLEAN, implicit : BOOLEAN]

\* A call that waits.
Waiting ==
    [pc : {"wait"}, context : {"none", "context", "malformed"},
     requests : 1..MaxRedirects, asked : Requests(Paths)]

\* The variables keep their types; there is one request on its way, or one reply.
TypeOK ==
    /\ phase \in {"new", "setup", "serving", "panicked"}
    /\ work = [pc |-> "idle"] \/ work \in Works
    /\ call.pc \in {"idle", "wait", "done"} /\ (call.pc = "wait" => call \in Waiting)
    /\ sent = <<>> \/ (sent = <<sent[1]>> /\ sent[1] \in Requests(Paths))
    /\ reply = <<>> \/ reply = <<reply[1]>>
    /\ sent = <<>> \/ (reply = <<>> /\ work.pc = "idle")
    /\ reply = <<>> \/ work.pc = "idle"

\* The outcome the server decided on is the one that Do reports: success exactly if
\* it was one, the status and, of a refusal, the code of its envelope; a panic with
\* nobody to recover it is never an answer.  Not if the handler had begun its
\* response when it panicked, or sent 103 through Logger: then a 500, or the
\* handler's own refusal, may reach the client as a 200 (recovery.go:156,
\* logger.go:189).
AnswerArrives ==
    Answered /\ ~work.spoiled =>
        LET v == work.verdict
        IN  /\ Result.status = v.status
            /\ (Result.outcome = "status") = ~Success(v.status)
            /\ Result.outcome = "status" =>
                  Result.code = IF v.code = "none" \/ work.body = <<>>
                                THEN CodeOf(v.status) ELSE v.code

\* A body that Do returns is the one the server sent, complete and within the limit;
\* only one above the limit is refused as too large (client.go:583).
BodyIsWhole ==
    /\ Answered => Result.body = work.body /\ Len(work.body) <= MaxBody
    /\ Has({"tooLarge"}) => Len(work.body) > MaxBody

\* One id names the exchange: that of the response is that of the handler's context
\* and, if RequestID is outside Logger, of the log line; and it is the one of the
\* caller's context if that is a valid one (client.go:353, request_id.go:44).
OneRequestID ==
    Answered /\ work.context # "none" =>
        /\ Result.id = work.context /\ ValidRequestID(Result.id)
        /\ call.context = "context" => Result.id = "context"
        /\ log.logged /\ log.id # "none" => log.id = Result.id

\* The handler of a route runs only if everything its groups and its registration
\* asked for, in the order they did and with no other group's, has let the request
\* through: copies keep groups apart (group.go:43, group.go:67).
EveryLayerGuards ==
    work.pc = "handler" =>
        LET asked == routes[work.route].wanted
            Asked(middleware) == \E i \in DOMAIN asked : asked[i] = middleware
        IN  /\ Chain = asked
            /\ Asked("auth") => work.request.authorized \/ Skipped("auth")
            /\ Asked("cors") => work.request.method # "OPTIONS"
            /\ Asked("contentType") =>
                  work.request.method \in {"GET", "HEAD"} \/ work.request.contentType = "json"

\* Whatever redirects the server and the policy come up with, Do asks only the origin
\* of the base URL, and not more than ten times ("cannot bypass the same-origin
\* check", docs/client.md:81).
StaysOnOrigin ==
    /\ \A i \in DOMAIN sent : sent[i].origin = "base"
    /\ call.pc = "wait" => call.requests \in 1..MaxRedirects

\* Logger logs the status that the client is sent, also if Recovery inside it answers
\* too late.  Not after 103; nor if a handler wrote without a status and panicked
\* (logger.go:189 sees no implicit 200); nor if Recovery is outside it, which answers
\* after it has logged, or nothing recovers.
LogTellsTheStatus ==
    log.logged /\ work.pc = "idle" =>
        \/ log.status \in {work.status, 103}
        \/ work.implicit /\ work.spoiled
        \/ \E i, j \in DOMAIN Chain : i < j /\ Chain[i] = "recovery" /\ Chain[j] = "logger"
        \/ work.panics
=============================================================================
