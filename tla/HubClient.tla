----------------------------- MODULE HubClient -----------------------------
(***************************************************************************)
(* What the hub of wshub takes for granted of a client it runs: of the     *)
(* goroutine of Run, and of Stop, which takes effect at one moment of each *)
(* call, and then only where Run is running.  WsHub has one such client    *)
(* for each call that makes one, and names its actions after these.        *)
(***************************************************************************)
VARIABLES
    run,     \* "spawned", "running", "stopping" (it has seen why) or "leaving"
    stopped, \* the client is stopped
    hubDone, \* the hub is done
    stop     \* the hub's own call of Stop: "none", "called" or "returned"

hubClientVars == <<run, stopped, hubDone, stop>>

HubClientInit == run = "spawned" /\ stopped = FALSE /\ hubDone = FALSE /\ stop = "none"

RunStart ==
    /\ run = "spawned" /\ run' = "running"
    /\ UNCHANGED <<stopped, hubDone, stop>>

\* Run sees nothing but these two reasons to return.
RunAwake ==
    /\ run = "running" /\ (stopped \/ hubDone)
    /\ run' = "stopping"
    /\ UNCHANGED <<stopped, hubDone, stop>>

\* Run never returns with its client unstopped.
RunStop ==
    /\ run = "stopping" /\ run' = "leaving"
    /\ stopped' = TRUE
    /\ UNCHANGED <<hubDone, stop>>

\* Where Stop bails out and where it does not.
ClientStop == stopped' = (stopped \/ run \in {"running", "stopping"})

\* A Stop of anybody's: of Run's own, or of a connection that was the last.
SelfStop == ClientStop /\ UNCHANGED <<run, hubDone, stop>>

HubStops == stop = "none" /\ stop' = "called" /\ UNCHANGED <<run, stopped, hubDone>>

\* It does not return before it has had its effect.
HubStopped ==
    /\ stop = "called" /\ stop' = "returned"
    /\ ClientStop
    /\ UNCHANGED <<run, hubDone>>

HubCloses == hubDone' = TRUE /\ UNCHANGED <<run, stopped, stop>>

HubClientNext ==
    \/ RunStart \/ RunAwake \/ RunStop \/ SelfStop
    \/ HubStops \/ HubStopped \/ HubCloses

HubClientSpec == HubClientInit /\ [][HubClientNext]_hubClientVars
=============================================================================
