------------------------------ MODULE ServerChain -----------------------------
(***************************************************************************)
(* How serbewr serves a request: the mux finds the route, the middlewares  *)
(* of its chain run outermost first, the handler runs inside them, and as  *)
(* it returns, or panics, they are left in the opposite order.  Timeout is *)
(* not among them (see RequestTimeout).  SecurityHeaders sets headers and  *)
(* calls the next, which no property here could tell.                      *)
(*                                                                         *)
(* One action is what one middleware does before or after the next, or one *)
(* call of the handler.  The handler is any application's; a chain has at  *)
(* most one Logger.                                                        *)
(***************************************************************************)
EXTENDS HttpWire, Routing

CONSTANT MaxChunks  \* bound: how many chunks a handler writes

VARIABLES
    work,   \* the request that is served, or was last
    log     \* what Logger logged of it, if it has

server == <<work, log>>

Refusals == {[status |-> 404, code |-> "none"], [status |-> 422, code |-> "VALIDATION_FAILED"]}
NoVerdict == [status |-> 0, code |-> "none"]

\* For a request: how far the chain has been entered, or is still to be left; the
\* id in the context and in the response headers; the depth of Logger's wrapper, if
\* there is one, the status it has recorded and the id of its context; what the
\* client is sent.  History: the outcome that was decided on, whether something was
\* said before it that cannot be taken back, and whether Write sent the status.
Working(request, route) ==
    [pc |-> "enter", request |-> request, route |-> route, depth |-> 1,
     panics |-> FALSE, context |-> "none", header |-> "none",
     wrapper |-> 0, recorded |-> 0, logId |-> "none",
     status |-> 0, id |-> "none", body |-> <<>>, location |-> "none",
     verdict |-> NoVerdict, spoiled |-> FALSE, implicit |-> FALSE]

Init_Server == work = [pc |-> "idle"] /\ log = [logged |-> FALSE]

Is(pc) == work.pc = pc
Chain == routes[work.route].chain
Skipped(middleware) == middleware \in routes[work.route].skips

-----------------------------------------------------------------------------
(* The ResponseWriter, as operators on the request's record.               *)

\* net/http: the first status of a final response is sent, with the headers.
Send(w, status) ==
    IF w.status # 0 THEN w ELSE [w EXCEPT !.status = status, !.id = w.header]

\* Mutant: Logger's wrapper records every status.
WriteHeader_RecordsLast(w, status) ==
    IF w.wrapper # 0 /\ w.wrapper < w.depth
    THEN Send([w EXCEPT !.recorded = status], status)
    ELSE Send(w, status)

\* loggerResponseWriter.WriteHeader records the first status and drops the others.
WriteHeader(w, status) ==
    IF w.wrapper # 0 /\ w.wrapper < w.depth
    THEN IF w.recorded # 0 THEN w ELSE Send([w EXCEPT !.recorded = status], status)
    ELSE Send(w, status)

\* Write goes past the wrapper; net/http sends 200 if nothing has been sent.
Write(w, chunk) == [Send(w, 200) EXCEPT !.body = Append(@, chunk),
                                        !.implicit = @ \/ w.status = 0]

WriteJSON(w, status, chunk) == Write(WriteHeader(w, status), chunk)

\* What the server has decided on; too late if it has decided before.
Decide(w, status, code) ==
    IF w.verdict # NoVerdict THEN w
    ELSE [w EXCEPT !.verdict = [status |-> status, code |-> code]]

\* The middleware at this depth calls the next, or does not.
Inward(w) == [w EXCEPT !.depth = @ + 1]
Back(w) == [w EXCEPT !.pc = "leave", !.depth = @ - 1]
Refuse(w, status, code) == Back(Decide(WriteJSON(w, status, code), status, code))

-----------------------------------------------------------------------------
(* The mux, and the way in.                                                *)

Matches(route, method) ==
    \/ route.method \in {"ANY", method}
    \/ route.method = "GET" /\ method = "HEAD"

Arrives == phase = "serving" /\ Is("idle") /\ sent # <<>> /\ sent' = <<>>

Known == Head(sent).path \in DOMAIN routes
Found == Known /\ Matches(routes[Head(sent).path], Head(sent).method)

\* ServeMux calls the chain of the route.
Accept ==
    /\ Arrives /\ Found
    /\ work' = Working(Head(sent), Head(sent).path) /\ log' = [logged |-> FALSE]
    /\ UNCHANGED reply

\* Middlewares belong to routes: without one the mux answers, and none of them runs.
Unmatched ==
    /\ Arrives /\ ~Found
    /\ LET status == IF Known THEN 405 ELSE 404
           body == IF Head(sent).method = "HEAD" THEN <<>> ELSE <<"app">>
       IN  /\ reply' = <<Reply(status, "none", body, "none", TRUE)>>
           /\ work' = [Decide(Working(Head(sent), 0), status, "none")
                          EXCEPT !.pc = "idle", !.body = body]
    /\ log' = [logged |-> FALSE]

Enters(middleware) ==
    Is("enter") /\ work.depth \in DOMAIN Chain /\ Chain[work.depth] = middleware

EnterStep(w) == work' = w /\ UNCHANGED <<wire, log>>

\* The id that came, if it is valid, or a new one.
EnterRequestID ==
    /\ Enters("requestID")
    /\ LET given == work.request.id
           id == IF ValidRequestID(given) THEN given ELSE "fresh"
       IN  EnterStep(Inward([work EXCEPT !.context = id, !.header = id]))

EnterLogger ==
    /\ Enters("logger")
    /\ EnterStep(Inward(IF Skipped("logger") THEN work
                        ELSE [work EXCEPT !.wrapper = work.depth, !.recorded = 0,
                                          !.logId = work.context]))

EnterRecovery == Enters("recovery") /\ EnterStep(Inward(work))

\* CORS sets its headers; it answers every OPTIONS itself.
EnterCORS ==
    /\ Enters("cors")
    /\ EnterStep(IF work.request.method = "OPTIONS"
                 THEN Back(Decide(WriteHeader(work, 204), 204, "none"))
                 ELSE Inward(work))

\* The path is skipped, or the credentials or the token are good.
Admitted == Skipped("auth") \/ work.request.authorized

\* BasicAuth or BearerAuth.
EnterAuth ==
    /\ Enters("auth")
    /\ EnterStep(IF Admitted THEN Inward(work) ELSE Refuse(work, 401, "UNAUTHORIZED"))

\* EnforceRequestContentTypeJSON.
EnterContentType ==
    /\ Enters("contentType")
    /\ LET type == work.request.contentType
       IN  EnterStep(
             IF work.request.method \in {"GET", "HEAD"} \/ type = "json" THEN Inward(work)
             ELSE IF type = "none" THEN Refuse(work, 400, "MISSING_CONTENT_TYPE")
             ELSE Refuse(work, 415, "UNSUPPORTED_CONTENT_TYPE"))

EnterHandler ==
    /\ Is("enter") /\ work.depth = Len(Chain) + 1
    /\ EnterStep([work EXCEPT !.pc = "handler"])

Enter ==
    \/ EnterRequestID \/ EnterLogger \/ EnterRecovery \/ EnterCORS \/ EnterAuth
    \/ EnterContentType \/ EnterHandler

-----------------------------------------------------------------------------
(* The handler.                                                            *)

Handles(w) == Is("handler") /\ work' = w /\ UNCHANGED <<wire, log>>

\* An informational status (103), which net/http sends at once.  Logger's wrapper
\* takes it for the status, and drops the one that follows.
Inform ==
    /\ work.pc = "handler" /\ work.status = 0 /\ ~work.spoiled
    /\ Handles(IF work.wrapper # 0 /\ work.recorded = 0
               THEN [work EXCEPT !.recorded = 103, !.spoiled = TRUE] ELSE work)

\* A status and the headers of a success, or of a redirect to a location.
Answer ==
    /\ Is("handler") /\ work.verdict = NoVerdict
    /\ \/ Handles(Decide(WriteHeader(work, 200), 200, "none"))
       \/ \E to \in Origins :
             Handles(Decide(WriteHeader([work EXCEPT !.location = to], 302), 302, "none"))

\* Some of the body.
WriteSome ==
    /\ Is("handler") /\ Len(work.body) < MaxChunks
    /\ Handles(Decide(Write(work, "app"), 200, "none"))

\* The handlers of the repository refuse with WriteJSON, and return.
HandlerRefuses ==
    /\ Is("handler") /\ work.verdict = NoVerdict
    /\ \E r \in Refusals :
          Handles(IF r.code = "none" THEN Back(Decide(WriteHeader(work, r.status), r.status, r.code))
                                     ELSE Refuse(work, r.status, r.code))

HandlerReturns == Handles(Back(Decide(work, 200, "none")))

\* A panic: what has been decided on no longer holds, what has been sent does.
HandlerPanics ==
    Handles([Back(work) EXCEPT !.panics = TRUE, !.verdict = NoVerdict,
                               !.spoiled = work.spoiled \/ work.status # 0])

Handler ==
    Inform \/ Answer \/ WriteSome \/ HandlerRefuses \/ HandlerReturns \/ HandlerPanics

-----------------------------------------------------------------------------
(* The way out.                                                            *)

Leaves == Is("leave") /\ work.depth > 0
Outward(w) == [w EXCEPT !.depth = @ - 1]

\* Logger's deferred function logs, whether the next has returned or panicked.
LeaveLogger ==
    /\ Leaves /\ Chain[work.depth] = "logger" /\ work.wrapper = work.depth
    /\ log' = [logged |-> TRUE, id |-> work.logId,
               status |-> IF work.recorded = 0 THEN 200 ELSE work.recorded]
    /\ work' = Outward([work EXCEPT !.wrapper = 0])
    /\ UNCHANGED wire

\* Mutant: the status is forgotten.
Recover_NoStatus ==
    /\ Leaves /\ Chain[work.depth] = "recovery" /\ work.panics
    /\ work' = Outward(Decide(Write([work EXCEPT !.panics = FALSE], "INTERNAL_SERVER_ERROR"),
                              500, "INTERNAL_SERVER_ERROR"))
    /\ UNCHANGED <<wire, log>>

\* Recovery ends the panic with 500 and an envelope, as far as they still get there.
Recover ==
    /\ Leaves /\ Chain[work.depth] = "recovery" /\ work.panics
    /\ work' = Outward(Decide(WriteJSON([work EXCEPT !.panics = FALSE], 500, "INTERNAL_SERVER_ERROR"),
                              500, "INTERNAL_SERVER_ERROR"))
    /\ UNCHANGED <<wire, log>>

\* The others have nothing to do after the next.
LeaveOther ==
    /\ Leaves
    /\ ~(Chain[work.depth] = "logger" /\ work.wrapper = work.depth)
    /\ ~(Chain[work.depth] = "recovery" /\ work.panics)
    /\ work' = Outward(work) /\ UNCHANGED <<wire, log>>

\* net/http: the response is completed, or breaks off when the panic has got here;
\* a response to HEAD has no body.
Finish ==
    /\ Is("leave") /\ work.depth = 0
    /\ LET done == IF work.panics THEN work ELSE Send(work, 200)
           body == IF done.request.method = "HEAD" THEN <<>> ELSE done.body
       IN  /\ reply' = <<Reply(done.status, done.id, body, done.location, ~work.panics)>>
           /\ work' = [done EXCEPT !.pc = "idle", !.body = body]
    /\ UNCHANGED <<sent, log>>

Leave == LeaveLogger \/ Recover \/ LeaveOther \/ Finish

Next_Server == Accept \/ Unmatched \/ Enter \/ Handler \/ Leave
=============================================================================
