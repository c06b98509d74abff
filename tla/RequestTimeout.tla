--------------------------- MODULE RequestTimeout ---------------------------
(***************************************************************************)
(* One request behind the Timeout middleware (middleware/timeout.go).  The *)
(* request goroutine waits for the handler or for the context, and in the  *)
(* second case answers 504 itself; the handler, in a goroutine of its own, *)
(* may go on using its wrapped writer for as long as it likes.  The chain  *)
(* may hold Recovery (middleware/recovery.go) inside Timeout, around the   *)
(* handler, or outside it.                                                 *)
(*                                                                         *)
(* The http.ResponseWriter below is net/http's, the record wire: what it   *)
(* has sent of the response, and its header map until then.  A write is a  *)
(* chunk named for the goroutine it comes from.  Header names stand for    *)
(* what a part of the chain does to the headers: "outer" was set outside   *)
(* Timeout, "own" is set by the handler, "error" is the content type of an *)
(* error response.                                                         *)
(***************************************************************************)
EXTENDS Naturals, Sequences

CONSTANTS
    RecoveryInside, \* Recovery is between Timeout and the handler
    MaxCalls        \* bound: how often the handler calls its writer

ASSUME TimeoutAssumption == RecoveryInside \in BOOLEAN /\ MaxCalls \in Nat

VARIABLES
    mu,       \* the mutex of the wrapped writer: "free", "handler" or "server"
    written,  \* responseWritten
    timedOut, \* responseTimedOut
    header,   \* the wrapped writer's own header map
    ctxDone,  \* the request's context is done: deadline, or the client has gone
    doneCh,   \* doneCh is closed
    hpc,      \* program counter of the handler's goroutine
    call,     \* the method of the wrapped writer it is in
    calls,    \* how many methods it has called
    frame,    \* whose code runs there: the handler's or Recovery's
    spc,      \* program counter of the request's goroutine
    wire      \* net/http's writer

Handler == <<hpc, call, calls, frame>>
Shared == <<mu, written, timedOut>>
vars == <<Shared, header, ctxDone, doneCh, Handler, spc, wire>>

Methods == {"WriteHeader", "Write", "Flush", "Hijack"}
HeaderNames == {"outer", "own", "error"}
Statuses == {"none", "ok", "error", "timeout"}
Sources == {"none", "handler", "server", "net/http"}
Wires == [map : SUBSET HeaderNames, status : Statuses, by : Sources,
          sent : SUBSET HeaderNames, body : Seq({"handler", "server"}),
          hijacked : BOOLEAN]

Init ==
    /\ mu = "free" /\ written = FALSE /\ timedOut = FALSE
    /\ header = {"outer"}
    /\ ctxDone = FALSE /\ doneCh = FALSE
    /\ hpc = "code" /\ call = "none" /\ calls = 0 /\ frame = "handler"
    /\ spc = "select"
    /\ wire = [map |-> {"outer"}, status |-> "none", by |-> "none", sent |-> {},
               body |-> <<>>, hijacked |-> FALSE]

\* A panic that nothing recovers ends the process.
Running == hpc # "crashed"

-----------------------------------------------------------------------------
(* net/http's writer.  Each operator is a call of w, the writer, by src.   *)

\* WriteHeader: only the first one counts, and it sends the header map.
Commit(w, src, status) ==
    IF w.hijacked \/ w.status # "none" THEN w
    ELSE [w EXCEPT !.status = status, !.by = src, !.sent = w.map]

\* The outcomes of a Write: it is sent, after an implicit 200, or it fails.
Sending(w, src) ==
    LET started == Commit(w, src, "ok")
    IN  {started} \cup
        IF w.hijacked THEN {} ELSE {[started EXCEPT !.body = Append(@, src)]}

-----------------------------------------------------------------------------
(* The handler's goroutine.                                                *)

\* The handler sets a header in the map that Header() returns.
SetHeader ==
    /\ Running /\ hpc = "code" /\ frame = "handler"
    /\ header' = header \cup {"own"}
    /\ UNCHANGED <<Shared, ctxDone, doneCh, Handler, spc, wire>>

DeleteHeader ==
    /\ Running /\ hpc = "code" /\ frame = "handler"
    /\ header' = header \ {"outer"}
    /\ UNCHANGED <<Shared, ctxDone, doneCh, Handler, spc, wire>>

\* A method is called and waits for the mutex.  Recovery calls WriteHeader and
\* then Write.
Call(m) ==
    /\ Running /\ hpc = "code"
    /\ \/ frame = "handler" /\ calls < MaxCalls /\ calls' = calls + 1
       \/ frame = "recovery" /\ m = "WriteHeader" /\ call # m /\ UNCHANGED calls
       \/ frame = "recovery" /\ m = "Write" /\ call = "WriteHeader" /\ UNCHANGED calls
    /\ call' = m
    /\ hpc' = "lock"
    /\ UNCHANGED <<Shared, header, ctxDone, doneCh, frame, spc, wire>>

Lock ==
    /\ Running /\ hpc = "lock" /\ mu = "free"
    /\ mu' = "handler"
    /\ hpc' = "check"
    /\ UNCHANGED <<written, timedOut, header, ctxDone, doneCh, call, calls,
                   frame, spc, wire>>

\* copyHeaders replaces the header map below by the wrapped writer's, and the
\* response counts as written.
CommitOwnHeaders ==
    /\ written' = TRUE
    /\ wire' = [wire EXCEPT !.map = header]

\* Mutant: Flush, Write and Hijack do not look at timedOut.
Check_Late ==
    /\ Running /\ hpc = "check"
    /\ IF call # "WriteHeader" \/ ~(written \/ timedOut)
       THEN /\ IF written \/ call = "Hijack"
               THEN UNCHANGED <<written, wire>>
               ELSE CommitOwnHeaders
            /\ hpc' = "emit"
       ELSE hpc' = "unlock" /\ UNCHANGED <<written, wire>>
    /\ UNCHANGED <<mu, timedOut, header, ctxDone, doneCh, call, calls, frame, spc>>

\* Every method gives up when the response has timed out, and WriteHeader when a
\* response was started too.  The first to go on commits the headers, Hijack not.
Check ==
    /\ Running /\ hpc = "check"
    /\ IF timedOut \/ (call = "WriteHeader" /\ written)
       THEN hpc' = "unlock" /\ UNCHANGED <<written, wire>>
       ELSE /\ IF written \/ call = "Hijack"
               THEN UNCHANGED <<written, wire>>
               ELSE CommitOwnHeaders
            /\ hpc' = "emit"
    /\ UNCHANGED <<mu, timedOut, header, ctxDone, doneCh, call, calls, frame, spc>>

\* Mutant: Hijack counts as a response before it is known to have succeeded.
Emit_AnyHijack ==
    /\ Running /\ hpc = "emit"
    /\ \/ /\ call = "WriteHeader"
          /\ wire' = Commit(wire, "handler", IF frame = "handler" THEN "ok" ELSE "error")
          /\ UNCHANGED written
       \/ call = "Write" /\ wire' \in Sending(wire, "handler") /\ UNCHANGED written
       \/ call = "Flush" /\ wire' = Commit(wire, "handler", "ok") /\ UNCHANGED written
       \/ call = "Hijack" /\ UNCHANGED wire /\ written' = TRUE
       \/ /\ call = "Hijack" /\ ~wire.hijacked
          /\ wire' = [wire EXCEPT !.hijacked = TRUE]
          /\ written' = TRUE
    /\ hpc' = "unlock"
    /\ UNCHANGED <<mu, timedOut, header, ctxDone, doneCh, call, calls, frame, spc>>

\* The call of the writer below.  A hijack that succeeds counts as a response.
Emit ==
    /\ Running /\ hpc = "emit"
    /\ \/ /\ call = "WriteHeader"
          /\ wire' = Commit(wire, "handler", IF frame = "handler" THEN "ok" ELSE "error")
          /\ UNCHANGED written
       \/ call = "Write" /\ wire' \in Sending(wire, "handler") /\ UNCHANGED written
       \/ call = "Flush" /\ wire' = Commit(wire, "handler", "ok") /\ UNCHANGED written
       \/ call = "Hijack" /\ UNCHANGED <<wire, written>>
       \/ /\ call = "Hijack" /\ ~wire.hijacked
          /\ wire' = [wire EXCEPT !.hijacked = TRUE]
          /\ written' = TRUE
    /\ hpc' = "unlock"
    /\ UNCHANGED <<mu, timedOut, header, ctxDone, doneCh, call, calls, frame, spc>>

\* The deferred Unlock; Recovery has nothing to do after its Write.
Unlock ==
    /\ Running /\ hpc = "unlock"
    /\ mu' = "free"
    /\ hpc' = IF frame = "recovery" /\ call = "Write" THEN "return" ELSE "code"
    /\ UNCHANGED <<written, timedOut, header, ctxDone, doneCh, call, calls,
                   frame, spc, wire>>

\* The handler panics.  Recovery inside Timeout catches it and answers with the
\* same wrapped writer; Recovery outside it is in another goroutine.
Panic ==
    /\ Running /\ hpc = "code" /\ frame = "handler"
    /\ IF RecoveryInside
       THEN /\ frame' = "recovery"
            /\ call' = "none"
            /\ header' = header \cup {"error"}
            /\ UNCHANGED hpc
       ELSE hpc' = "crashed" /\ UNCHANGED <<frame, call, header>>
    /\ UNCHANGED <<Shared, ctxDone, doneCh, calls, spc, wire>>

\* The handler returns when it likes.
Finish ==
    /\ Running /\ hpc = "code" /\ frame = "handler"
    /\ hpc' = "return"
    /\ UNCHANGED <<Shared, header, ctxDone, doneCh, call, calls, frame, spc, wire>>

\* The deferred close of doneCh.
Return ==
    /\ Running /\ hpc = "return"
    /\ doneCh' = TRUE
    /\ hpc' = "ended"
    /\ UNCHANGED <<Shared, header, ctxDone, call, calls, frame, spc, wire>>

HandlerStep ==
    \/ SetHeader \/ DeleteHeader \/ \E m \in Methods : Call(m)
    \/ Lock \/ Check \/ Emit \/ Unlock \/ Panic \/ Finish \/ Return

-----------------------------------------------------------------------------
(* The request's goroutine: serveWithTimeout and writeTimeoutResponse.     *)

\* The deadline passes, or the client closes its connection.
ContextDone ==
    /\ Running /\ ~ctxDone
    /\ ctxDone' = TRUE
    /\ UNCHANGED <<Shared, header, doneCh, Handler, spc, wire>>

\* The select: when both channels are ready either case may be taken.
SelectDone ==
    /\ Running /\ spc = "select" /\ doneCh
    /\ spc' = "returned"
    /\ UNCHANGED <<Shared, header, ctxDone, doneCh, Handler, wire>>

SelectTimeout ==
    /\ Running /\ spc = "select" /\ ctxDone
    /\ spc' = "lock"
    /\ UNCHANGED <<Shared, header, ctxDone, doneCh, Handler, wire>>

\* Mutant: writeTimeoutResponse without the mutex.
TimeoutLock_Free ==
    /\ Running /\ spc = "lock"
    /\ timedOut' = TRUE
    /\ spc' = "check"
    /\ UNCHANGED <<mu, written, header, ctxDone, doneCh, Handler, wire>>

TimeoutLock ==
    /\ Running /\ spc = "lock" /\ mu = "free"
    /\ mu' = "server"
    /\ timedOut' = TRUE
    /\ spc' = "check"
    /\ UNCHANGED <<written, header, ctxDone, doneCh, Handler, wire>>

\* Mutant: the middleware returns with the mutex locked when the handler has
\* written.
TimeoutCheck_Locked ==
    /\ Running /\ spc = "check"
    /\ written' = TRUE
    /\ spc' = IF written THEN "returned" ELSE "status"
    /\ UNCHANGED <<mu, timedOut, header, ctxDone, doneCh, Handler, wire>>

\* A response the handler has started is left as it is.
TimeoutCheck ==
    /\ Running /\ spc = "check"
    /\ written' = TRUE
    /\ spc' = IF written THEN "unlock" ELSE "status"
    /\ UNCHANGED <<mu, timedOut, header, ctxDone, doneCh, Handler, wire>>

\* WriteJSON: the content type and the status, then the body.
TimeoutStatus ==
    /\ Running /\ spc = "status"
    /\ wire' = Commit([wire EXCEPT !.map = @ \cup {"error"}], "server", "timeout")
    /\ spc' = "body"
    /\ UNCHANGED <<Shared, header, ctxDone, doneCh, Handler>>

TimeoutBody ==
    /\ Running /\ spc = "body"
    /\ wire' \in Sending(wire, "server")
    /\ spc' = "unlock"
    /\ UNCHANGED <<Shared, header, ctxDone, doneCh, Handler>>

TimeoutUnlock ==
    /\ Running /\ spc = "unlock"
    /\ mu' = "free"
    /\ spc' = "returned"
    /\ UNCHANGED <<written, timedOut, header, ctxDone, doneCh, Handler, wire>>

\* cancel() is deferred, and net/http ends the response: one that nobody started
\* becomes an empty 200 with the header map as it is.
EndRequest ==
    /\ Running /\ spc = "returned"
    /\ ctxDone' = TRUE
    /\ wire' = Commit(wire, "net/http", "ok")
    /\ spc' = "finished"
    /\ UNCHANGED <<Shared, header, doneCh, Handler>>

ServerStep ==
    \/ SelectDone \/ SelectTimeout \/ TimeoutLock \/ TimeoutCheck
    \/ TimeoutStatus \/ TimeoutBody \/ TimeoutUnlock \/ EndRequest

Next == HandlerStep \/ ContextDone \/ ServerStep

Spec == Init /\ [][Next]_vars

(***************************************************************************)
(* Fairness.  The request's goroutine runs when it can, the deadline       *)
(* passes, and a method of the wrapped writer that is under way returns    *)
(* (net/http's write deadline ends a write to a slow client).  Nothing     *)
(* obliges the handler itself to return, or to look at its context.        *)
(***************************************************************************)
Fairness ==
    /\ WF_vars(ServerStep) /\ WF_vars(ContextDone)
    /\ WF_vars(Lock \/ Check \/ Emit \/ Unlock)

FairSpec == Spec /\ Fairness

-----------------------------------------------------------------------------
(* Properties.                                                             *)

\* Every variable keeps its type, and the mutex is held by exactly the goroutine
\* that is between Lock and Unlock.
TypeOK ==
    /\ mu \in {"free", "handler", "server"}
    /\ mu = "handler" <=> hpc \in {"check", "emit", "unlock"}
    /\ mu = "server" <=> spc \in {"check", "status", "body", "unlock"}
    /\ written \in BOOLEAN /\ timedOut \in BOOLEAN
    /\ header \subseteq HeaderNames
    /\ ctxDone \in BOOLEAN /\ doneCh \in BOOLEAN
    /\ hpc \in {"code", "lock", "check", "emit", "unlock", "return", "ended", "crashed"}
    /\ call \in Methods \cup {"none"} /\ calls \in 0..MaxCalls
    /\ frame \in {"handler", "recovery"}
    /\ spc \in {"select", "lock", "check", "status", "body", "unlock",
                "returned", "finished"}
    /\ wire \in Wires

\* The response has one author: what the client reads is the handler's to the
\* last chunk or the middleware's 504 to the last chunk, status and headers
\* included, wherever in a method of the writer the deadline finds the handler
\* ("prevent concurrent writes during timeout", timeout.go:16).
OneAuthor ==
    /\ \A i \in 1..Len(wire.body) : wire.body[i] = wire.by
    /\ wire.status = "timeout" => "own" \notin wire.sent /\ "outer" \in wire.sent

\* Once the middleware has returned, net/http may end the request and reuse the
\* writer: the handler that runs on never touches it again.
QuietAfterReturn ==
    [][(spc \in {"returned", "finished"} /\ wire' # wire) => (spc' # spc)]_vars

\* A request that timed out, or whose panic Recovery caught inside Timeout, is never
\* answered with the empty 200 that net/http makes up: the client reads what the
\* handler had begun, the error or the 504.
FailureIsTold ==
    spc = "finished" /\ (timedOut \/ frame = "recovery") =>
        wire.hijacked \/ wire.by \in {"handler", "server"}

\* The chain implements the abstract answer: past the deadline the handler neither
\* begins nor continues a response nor takes over the connection, before it the
\* server does not, the 504 stands only where the handler had not begun
\* (timeout.go:223), and nothing follows the end.
Answer == INSTANCE TimedAnswer WITH
    author <- wire.by, chunks <- Len(wire.body), taken <- wire.hijacked,
    late <- timedOut, broken <- frame = "recovery", ended <- spc = "finished"

AnswerImplemented == Answer!AnswerSpec

\* Every request ends, also that of a handler that ignores its context for ever
\* ("the timeout cancels the context but can't kill a goroutine that ignores it",
\* docs/middleware.md:139).
RequestEnds == <>(spc = "finished")

\* Every call the handler makes of its writer returns, also long after the request
\* has ended: the middleware leaves the mutex unlocked behind it.
WriterReturns == hpc = "lock" ~> hpc \in {"code", "return"}

\* Nobody waits for ever, neither the client for its answer nor an abandoned handler
\* for the mutex (timeout.go:219).
NobodyWaits == RequestEnds /\ WriterReturns
=============================================================================
