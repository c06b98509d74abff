-------------------------- MODULE ServerLifecycle --------------------------
(***************************************************************************)
(* The life of a serbewr Server (server.go): one goroutine in Start, others *)
(* in Stop, a goroutine per net/http server that serves and one per server *)
(* that shuts it down.  Start defers a Stop of its own, with its context.  *)
(*                                                                         *)
(* An HTTP server and, with TLS, an HTTPS server run side by side.  What   *)
(* net/http does with them is modelled from how this code uses it: Serve   *)
(* closes its listener when it ends and refuses to begin once Shutdown was *)
(* called; Shutdown closes the listener that is being served, waits for    *)
(* Serve to end, and then polls until no request is in flight or its       *)
(* context is done.                                                        *)
(***************************************************************************)
EXTENDS Naturals

CONSTANTS
    TLSEnabled,  \* config.TLSEnabled
    Stoppers,    \* goroutines that call Stop, besides the one in Start
    MaxRequests  \* bound: how many requests arrive

ASSUME LifecycleAssumption ==
    TLSEnabled \in BOOLEAN /\ MaxRequests \in Nat /\ "start" \notin Stoppers

Servers == IF TLSEnabled THEN {"http", "https"} ELSE {"http"}
Callers == Stoppers \cup {"start"}

VARIABLES
    pc,         \* program counter of each caller of Start or Stop
    turn,       \* the server createListeners is at
    listener,   \* the listening socket of each server
    field,      \* the servers whose listener is in its field of Server
    serve,      \* the goroutine that serves
    errCh,      \* the servers whose error channel holds an error
    active,     \* requests in flight
    begun,      \* how many requests have begun
    doneClosed, \* doneCh is closed
    once,       \* stopOnce: "free", "running" or "done"
    owner,      \* the caller that runs the body of Stop
    shut,       \* the goroutine that calls Shutdown
    inShutdown, \* the servers whose Shutdown was called
    errs,       \* the length of shutdownErrors
    seen,       \* the length that an append has read
    cancelled,  \* the context given to Start is cancelled
    expired     \* the shutdown timeout, or the context of a Stop, has run out

starting == <<turn, field>>
serving == <<listener, serve, errCh, active, begun>>
stopping == <<doneClosed, once, owner>>
closing == <<shut, inShutdown, errs, seen>>
clock == <<cancelled, expired>>
lifecycle == <<pc, starting, serving, stopping, closing, clock>>

Init_Lifecycle ==
    /\ pc = [c \in Callers |-> IF c = "start" THEN "setup" ELSE "idle"]
    /\ turn = "http" /\ field = {}
    /\ listener = [s \in Servers |-> "none"]
    /\ serve = [s \in Servers |-> "none"] /\ errCh = {}
    /\ active = [s \in Servers |-> 0] /\ begun = 0
    /\ doneClosed = FALSE /\ once = "free" /\ owner = "none"
    /\ shut = [s \in Servers |-> "none"] /\ inShutdown = {}
    /\ errs = 0 /\ seen = [s \in Servers |-> 0]
    /\ cancelled = FALSE /\ expired = FALSE

goto(c, label) == pc' = [pc EXCEPT ![c] = label]

\* The context given to Shutdown is done: it is derived from the caller's.
ShutdownOver == expired \/ (owner = "start" /\ cancelled)

-----------------------------------------------------------------------------
(* Start.                                                                  *)

\* validateTLSConfig: the certificate or the key is missing.  Stop is not deferred
\* yet.
ConfigInvalid ==
    /\ pc["start"] = "setup" /\ TLSEnabled
    /\ goto("start", "invalid")
    /\ UNCHANGED <<starting, serving, stopping, closing, clock>>

Setup ==
    /\ pc["start"] = "setup"
    /\ goto("start", "listen")
    /\ UNCHANGED <<starting, serving, stopping, closing, clock>>

Listen ==
    /\ pc["start"] = "listen"
    /\ listener' = [listener EXCEPT ![turn] = "open"]
    /\ goto("start", "field")
    /\ UNCHANGED <<starting, serve, errCh, active, begun, stopping, closing, clock>>

\* Mutant: the HTTP listener stays open when the HTTPS one cannot be had.
ListenFails_KeepFirst ==
    /\ pc["start"] = "listen"
    /\ goto("start", "stop")
    /\ UNCHANGED <<starting, serving, stopping, closing, clock>>

\* The address is not to be had; an HTTP listener there is closed.
ListenFails ==
    /\ pc["start"] = "listen"
    /\ listener' = [s \in Servers |->
                       IF listener[s] = "open" THEN "closed" ELSE listener[s]]
    /\ goto("start", "stop")
    /\ UNCHANGED <<starting, serve, errCh, active, begun, stopping, closing, clock>>

\* The listener is stored under listenerMu.
StoreListener ==
    /\ pc["start"] = "field"
    /\ field' = field \cup {turn}
    /\ IF turn = "http" /\ TLSEnabled
       THEN turn' = "https" /\ goto("start", "listen")
       ELSE UNCHANGED turn /\ goto("start", "spawn")
    /\ UNCHANGED <<serving, stopping, closing, clock>>

StartServers ==
    /\ pc["start"] = "spawn"
    /\ serve' = [s \in Servers |-> "spawned"]
    /\ goto("start", "wait")
    /\ UNCHANGED <<starting, listener, errCh, active, begun, stopping, closing, clock>>

\* waitForCompletion: the context, doneCh or an error of a server.  The deferred
\* Stop comes next.
WaitEnds ==
    /\ pc["start"] = "wait"
    /\ \/ (cancelled \/ doneClosed) /\ UNCHANGED errCh
       \/ \E s \in errCh : errCh' = errCh \ {s}
    /\ goto("start", "stop")
    /\ UNCHANGED <<starting, listener, serve, active, begun, stopping, closing, clock>>

StartStep ==
    \/ ConfigInvalid \/ Setup \/ Listen \/ ListenFails \/ StoreListener
    \/ StartServers \/ WaitEnds

-----------------------------------------------------------------------------
(* Stop, run by caller c.                                                  *)

StopCall(c) ==
    /\ pc[c] = "idle"
    /\ goto(c, "stop")
    /\ UNCHANGED <<starting, serving, stopping, closing, clock>>

\* stopOnce.Do: the first caller runs the body, the others wait for its end.
StopEnter(c) ==
    /\ pc[c] = "stop" /\ once # "running"
    /\ IF once = "free"
       THEN once' = "running" /\ owner' = c /\ goto(c, "closeDone")
       ELSE UNCHANGED <<once, owner>> /\ goto(c, "returned")
    /\ UNCHANGED <<starting, serving, doneClosed, closing, clock>>

CloseDone(c) ==
    /\ pc[c] = "closeDone"
    /\ doneClosed' = TRUE
    /\ goto(c, "shutdown")
    /\ UNCHANGED <<starting, serving, once, owner, closing, clock>>

\* One goroutine per server calls its Shutdown.
StartShutdowns(c) ==
    /\ pc[c] = "shutdown"
    /\ shut' = [s \in Servers |-> "close"]
    /\ goto(c, "join")
    /\ UNCHANGED <<starting, serving, stopping, inShutdown, errs, seen, clock>>

\* Mutant: Stop waits for the HTTP server only.
JoinShutdowns_HttpOnly(c) ==
    /\ pc[c] = "join" /\ shut["http"] = "done"
    /\ goto(c, "listeners")
    /\ UNCHANGED <<starting, serving, stopping, closing, clock>>

\* wg.Wait().
JoinShutdowns(c) ==
    /\ pc[c] = "join" /\ \A s \in Servers : shut[s] = "done"
    /\ goto(c, "listeners")
    /\ UNCHANGED <<starting, serving, stopping, closing, clock>>

\* closeListeners, under listenerMu, and the end of the body.
CloseListeners(c) ==
    /\ pc[c] = "listeners"
    /\ listener' = [s \in Servers |-> IF s \in field THEN "closed" ELSE listener[s]]
    /\ once' = "done"
    /\ goto(c, "returned")
    /\ UNCHANGED <<starting, serve, errCh, active, begun, doneClosed, owner,
                   closing, clock>>

StopStep(c) ==
    \/ StopEnter(c) \/ CloseDone(c) \/ StartShutdowns(c) \/ JoinShutdowns(c)
    \/ CloseListeners(c)

-----------------------------------------------------------------------------
(* The goroutine that shuts server s down.                                 *)

sGoto(s, label) == shut' = [shut EXCEPT ![s] = label]

\* net/http closes the listener it serves; Serve then finds it is shutting down.
ShutdownBegins(s) ==
    /\ shut[s] = "close"
    /\ inShutdown' = inShutdown \cup {s}
    /\ listener' = IF serve[s] = "serving" THEN [listener EXCEPT ![s] = "closed"]
                   ELSE listener
    /\ sGoto(s, "poll")
    /\ UNCHANGED <<pc, starting, serve, errCh, active, begun, stopping, errs,
                   seen, clock>>

ShutdownPolls(s) ==
    /\ shut[s] = "poll" /\ serve[s] # "serving"
    /\ sGoto(s, IF active[s] = 0 THEN "done" ELSE "sleep")
    /\ UNCHANGED <<pc, starting, serving, stopping, inShutdown, errs, seen, clock>>

\* The timer fires: poll again.
ShutdownTicks(s) ==
    /\ shut[s] = "sleep"
    /\ sGoto(s, "poll")
    /\ UNCHANGED <<pc, starting, serving, stopping, inShutdown, errs, seen, clock>>

\* Mutant: a Shutdown with the caller's context, which has no timeout.
ShutdownGivesUp_NoTimeout(s) ==
    /\ shut[s] = "sleep" /\ owner = "start" /\ cancelled
    /\ sGoto(s, "failed")
    /\ UNCHANGED <<pc, starting, serving, stopping, inShutdown, errs, seen, clock>>

\* The context is done while requests are in flight: Shutdown fails.
ShutdownGivesUp(s) ==
    /\ shut[s] = "sleep" /\ ShutdownOver
    /\ sGoto(s, "failed")
    /\ UNCHANGED <<pc, starting, serving, stopping, inShutdown, errs, seen, clock>>

\* addError appends without a lock: two goroutines may read the same length, and
\* the later of the two appends wins.
AppendRead(s) ==
    /\ shut[s] = "failed"
    /\ seen' = [seen EXCEPT ![s] = errs]
    /\ sGoto(s, "append")
    /\ UNCHANGED <<pc, starting, serving, stopping, inShutdown, errs, clock>>

\* Mutant: addError keeps its errors to itself.
AppendWrite_Copy(s) ==
    /\ shut[s] = "append"
    /\ sGoto(s, "done")
    /\ UNCHANGED <<pc, starting, serving, stopping, inShutdown, errs, seen, clock>>

AppendWrite(s) ==
    /\ shut[s] = "append"
    /\ errs' = seen[s] + 1
    /\ sGoto(s, "done")
    /\ UNCHANGED <<pc, starting, serving, stopping, inShutdown, seen, clock>>

ShutdownStep(s) ==
    \/ ShutdownBegins(s) \/ ShutdownPolls(s) \/ ShutdownTicks(s)
    \/ ShutdownGivesUp(s) \/ AppendRead(s) \/ AppendWrite(s)

-----------------------------------------------------------------------------
(* The goroutine that serves s, and its requests.                          *)

\* Serve begins, unless Shutdown was called: then it closes the listener and ends.
ServeBegins(s) ==
    /\ serve[s] = "spawned"
    /\ IF s \in inShutdown
       THEN /\ serve' = [serve EXCEPT ![s] = "ended"]
            /\ listener' = [listener EXCEPT ![s] = "closed"]
       ELSE serve' = [serve EXCEPT ![s] = "serving"] /\ UNCHANGED listener
    /\ UNCHANGED <<pc, starting, errCh, active, begun, stopping, closing, clock>>

\* ServeTLS cannot load its certificate: it ends without touching the listener.
ServeRefused(s) ==
    /\ s = "https" /\ serve[s] = "spawned"
    /\ serve' = [serve EXCEPT ![s] = "refused"]
    /\ UNCHANGED <<pc, starting, listener, errCh, active, begun, stopping,
                   closing, clock>>

\* Accept fails.  It ends Serve, with http.ErrServerClosed after a Shutdown.
ServeEnds(s) ==
    /\ serve[s] = "serving"
    /\ serve' = [serve EXCEPT ![s] = IF s \in inShutdown THEN "ended" ELSE "failed"]
    /\ listener' = [listener EXCEPT ![s] = "closed"]
    /\ UNCHANGED <<pc, starting, errCh, active, begun, stopping, closing, clock>>

\* Any other error goes to the buffered error channel.
ServeReports(s) ==
    /\ serve[s] \in {"failed", "refused"} /\ s \notin errCh
    /\ errCh' = errCh \cup {s}
    /\ serve' = [serve EXCEPT ![s] = IF @ = "failed" THEN "ended" ELSE "endedRefused"]
    /\ UNCHANGED <<pc, starting, listener, active, begun, stopping, closing, clock>>

ServeStep(s) ==
    \/ ServeBegins(s) \/ ServeRefused(s) \/ ServeReports(s)
    \/ listener[s] = "closed" /\ ServeEnds(s)

RequestBegins(s) ==
    /\ serve[s] = "serving" /\ listener[s] = "open" /\ begun < MaxRequests
    /\ active' = [active EXCEPT ![s] = @ + 1]
    /\ begun' = begun + 1
    /\ UNCHANGED <<pc, starting, listener, serve, errCh, stopping, closing, clock>>

RequestEnds(s) ==
    /\ active[s] > 0
    /\ active' = [active EXCEPT ![s] = @ - 1]
    /\ UNCHANGED <<pc, starting, listener, serve, errCh, begun, stopping,
                   closing, clock>>

-----------------------------------------------------------------------------
Cancel ==
    /\ ~cancelled
    /\ cancelled' = TRUE
    /\ UNCHANGED <<pc, starting, serving, stopping, closing, expired>>

\* The timeout of the shutdown context begins with the body of Stop.
Expire ==
    /\ once = "running" /\ ~expired
    /\ expired' = TRUE
    /\ UNCHANGED <<pc, starting, serving, stopping, closing, cancelled>>

Next_Lifecycle ==
    \/ StartStep
    \/ \E c \in Stoppers : StopCall(c)
    \/ \E c \in Callers : StopStep(c)
    \/ \E s \in Servers : \/ ShutdownStep(s) \/ ServeStep(s) \/ ServeEnds(s)
                          \/ RequestBegins(s) \/ RequestEnds(s)
    \/ Cancel \/ Expire

Spec_Lifecycle == Init_Lifecycle /\ [][Next_Lifecycle]_lifecycle

(***************************************************************************)
(* Fairness.  A goroutine that can run does run, Serve notices that its    *)
(* listener is closed, and the shutdown timeout runs out.  Shutdown's      *)
(* select, which Go resolves at random, does not pass over a context that  *)
(* is done for ever in favour of its timer.  Nobody has to call Stop or to *)
(* cancel the context, no server has to fail, and no request has to end:   *)
(* its handler may hang.                                                   *)
(***************************************************************************)
Fairness ==
    /\ WF_lifecycle(StartStep)
    /\ \A c \in Callers : WF_lifecycle(StopStep(c))
    /\ \A s \in Servers : WF_lifecycle(ShutdownStep(s)) /\ SF_lifecycle(ShutdownGivesUp(s))
    /\ \A s \in Servers : WF_lifecycle(ServeStep(s))
    /\ WF_lifecycle(Expire)

FairSpec == Spec_Lifecycle /\ Fairness

-----------------------------------------------------------------------------
(* Properties.                                                             *)

InBody(c) == pc[c] \in {"closeDone", "shutdown", "join", "listeners"}

\* Every variable keeps its type, and exactly the owner of a running Once is in
\* the body of Stop.
TypeOK_Lifecycle ==
    /\ pc \in [Callers -> {"setup", "listen", "field", "spawn", "wait", "invalid",
                           "idle", "stop", "closeDone", "shutdown", "join",
                           "listeners", "returned"}]
    /\ turn \in Servers /\ field \subseteq Servers
    /\ listener \in [Servers -> {"none", "open", "closed"}]
    /\ serve \in [Servers -> {"none", "spawned", "serving", "failed", "refused",
                              "ended", "endedRefused"}]
    /\ errCh \subseteq Servers
    /\ active \in [Servers -> 0..MaxRequests] /\ begun \in 0..MaxRequests
    /\ doneClosed \in BOOLEAN
    /\ once \in {"free", "running", "done"}
    /\ owner \in Callers \cup {"none"}
    /\ \A c \in Callers : InBody(c) <=> once = "running" /\ owner = c
    /\ shut \in [Servers -> {"none", "close", "poll", "sleep", "failed", "append",
                             "done"}]
    /\ inShutdown \subseteq Servers
    /\ errs \in 0..2 /\ seen \in [Servers -> 0..2]
    /\ cancelled \in BOOLEAN /\ expired \in BOOLEAN

\* Whoever returns from Stop, and so from a Start that got as far as listening,
\* finds both servers shut down, also when another caller did it.
ReturnMeansStopped ==
    (\E c \in Callers : pc[c] = "returned") =>
        /\ once = "done" /\ doneClosed
        /\ \A s \in Servers : shut[s] = "done" /\ serve[s] # "serving"

\* A Stop that ends without an error has let every request finish ("Stop stops
\* the HTTP server gracefully", server.go:640); the unlocked append may lose one
\* of two errors but never the last one.
CleanStopIsIdle ==
    once = "done" /\ errs = 0 => \A s \in Servers : active[s] = 0

\* Start returns when its context is cancelled, when somebody calls Stop or when a
\* server fails ("blocks until context is cancelled or Stop is called",
\* server.go:489), although a request may hang for ever.
StartReturns ==
    (cancelled \/ doneClosed \/ errCh # {}) ~> pc["start"] \in {"returned", "invalid"}

\* When Start has returned, whatever made it return and whenever Stop came, its
\* servers' goroutines end and no listener stays open.  One case is left out: a
\* Stop that came before the HTTPS listener was made cannot close it, and neither
\* does a ServeTLS that fails to load its certificate.
NothingIsLeft ==
    pc["start"] = "returned" ~>
        \A s \in Servers :
            /\ serve[s] \in {"none", "ended", "endedRefused"}
            /\ listener[s] # "open" \/ (serve[s] = "endedRefused" /\ owner # "start")
=============================================================================
