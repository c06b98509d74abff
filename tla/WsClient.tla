------------------------------ MODULE WsClient ------------------------------
(***************************************************************************)
(* One client of a wshub hub (client.go): Run, the distribution pump, the  *)
(* callers of Send, the upgrade handlers that call AddConnection, the      *)
(* pumps whose end calls RemoveConnection, and the goroutines that call    *)
(* Stop.  The hub is the environment: it runs Run once, may close, may     *)
(* call Stop.                                                              *)
(*                                                                         *)
(* A connection is what WsMailbox says it is: it takes events until it is  *)
(* stopped, and Connection.Stop returns with it stopped.  WsConnection     *)
(* shows that the code of connection.go is such a mailbox, that its Send   *)
(* and Stop return, and that its two pumps end together; so here Send and  *)
(* Stop of a connection are one step, and its pumps one process.           *)
(*                                                                         *)
(* Events are numbered in the order sendCh takes them.                     *)
(***************************************************************************)
EXTENDS Naturals, Sequences, FiniteSets

CONSTANTS
    Conns,     \* connections that upgrade handlers add to the client
    Senders,   \* goroutines that call Client.Send
    Capacity,  \* capacity of sendCh (ClientConfig.SendBufferSize)
    MaxSends   \* bound: how many times each sender calls Send

ASSUME ClientAssumption ==
    /\ Capacity \in Nat \ {0}
    /\ MaxSends \in Nat
    /\ Conns \cap {"run", "hub"} = {}

\* The goroutines that call Client.Stop: Run itself as it returns, the hub, and
\* one for each connection whose removal left the client empty.
Stoppers == {"run", "hub"} \cup Conns

VARIABLES
    isRunning, isStopped,  \* atomic flags
    ready,       \* readyToStopCh is closed
    doneClosed,  \* doneCh is closed
    sendClosed,  \* sendCh is closed
    queue,       \* the events buffered in sendCh
    once,        \* stopOnce: "free", "running" or "done"
    hubDone,     \* the hub's doneCh is closed
    conns,       \* the connections map
    runPc, distPc, addPc, pumpPc, sendPc, stopPc, \* program counters
    sends,       \* how many sends each sender has started
    event,       \* the event the distribution pump holds
    targets,     \* the connections it has still to give it to
    toStop,      \* the connections Stop has still to stop
    connDone,    \* the connections that are stopped (Connection.isDone)
    got,         \* history: what each connection's sendCh took
    enqueued,    \* history: how many events sendCh took
    early,       \* history: the map when isStopped was set
    timedOut,    \* history: Stop gave up waiting after its five seconds
    crash        \* "none", or the panic that ended the process

flags == <<isRunning, isStopped, ready, doneClosed, once, hubDone>>
channel == <<queue, sendClosed, enqueued>>
sender == <<sendPc, sends>>
pump == <<distPc, event, targets>>
stopper == <<stopPc, toStop, early, timedOut>>
conn == <<conns, connDone, addPc, pumpPc, got>>
vars == <<flags, channel, sender, pump, stopper, conn, runPc, crash>>

StopPCs == {"off", "check", "enter", "setStopped", "closeDone", "closeSend",
            "snapshot", "stopConns", "returned"}

Init ==
    /\ isRunning = FALSE /\ isStopped = FALSE /\ ready = FALSE
    /\ doneClosed = FALSE /\ once = "free" /\ hubDone = FALSE
    /\ queue = <<>> /\ sendClosed = FALSE /\ enqueued = 0
    /\ sendPc = [s \in Senders |-> "idle"] /\ sends = [s \in Senders |-> 0]
    /\ distPc = "off" /\ event = 0 /\ targets = {}
    /\ stopPc = [k \in Stoppers |-> "off"] /\ toStop = {} /\ early = {}
    /\ timedOut = FALSE
    /\ conns = {} /\ connDone = {}
    /\ addPc = [c \in Conns |-> "idle"] /\ pumpPc = [c \in Conns |-> "off"]
    /\ got = [c \in Conns |-> <<>>]
    /\ runPc = "start"
    /\ crash = "none"

Running == crash = "none"

-----------------------------------------------------------------------------
(* Client.Run, in a goroutine of the hub.  AddClient and GetOrCreateClient *)
(* call SetHub before they start it, so the hub is never nil here.         *)

RunStart ==
    /\ Running /\ runPc = "start"
    /\ isRunning' = TRUE
    /\ runPc' = "check"
    /\ UNCHANGED <<isStopped, ready, doneClosed, once, hubDone, channel, sender,
                   pump, stopper, conn, crash>>

\* Mutant: Run returns early, before it is ready, when the hub is closed.
RunCheck_HubClosed ==
    /\ Running /\ runPc = "check"
    /\ runPc' = IF hubDone THEN "leave" ELSE "spawn"
    /\ UNCHANGED <<flags, channel, sender, pump, stopper, conn, crash>>

RunCheck ==
    /\ Running /\ runPc = "check"
    /\ runPc' = IF isStopped THEN "leave" ELSE "spawn"
    /\ UNCHANGED <<flags, channel, sender, pump, stopper, conn, crash>>

\* wg.Go(distributionPump)
RunSpawn ==
    /\ Running /\ runPc = "spawn"
    /\ distPc' = "loop"
    /\ runPc' = "ready"
    /\ UNCHANGED <<flags, channel, sender, event, targets, stopper, conn, crash>>

RunReady ==
    /\ Running /\ runPc = "ready"
    /\ ready' = TRUE
    /\ runPc' = "await"
    /\ UNCHANGED <<isRunning, isStopped, doneClosed, once, hubDone, channel,
                   sender, pump, stopper, conn, crash>>

\* Mutant: Run does not listen to the hub.
RunAwait_Deaf ==
    /\ Running /\ runPc = "await" /\ doneClosed
    /\ runPc' = "stopping"
    /\ stopPc' = [stopPc EXCEPT !["run"] = "check"]
    /\ UNCHANGED <<flags, channel, sender, pump, toStop, early, timedOut, conn,
                   crash>>

\* The select on doneCh and hub.Done(), then the deferred Stop.
RunAwait ==
    /\ Running /\ runPc = "await" /\ (doneClosed \/ hubDone)
    /\ runPc' = "stopping"
    /\ stopPc' = [stopPc EXCEPT !["run"] = "check"]
    /\ UNCHANGED <<flags, channel, sender, pump, toStop, early, timedOut, conn,
                   crash>>

RunLeave ==
    /\ Running
    /\ runPc = "leave" \/ (runPc = "stopping" /\ stopPc["run"] = "returned")
    /\ isRunning' = FALSE
    /\ runPc' = "returned"
    /\ UNCHANGED <<isStopped, ready, doneClosed, once, hubDone, channel, sender,
                   pump, stopper, conn, crash>>

RunStep == RunStart \/ RunCheck \/ RunSpawn \/ RunReady \/ RunAwait \/ RunLeave

-----------------------------------------------------------------------------
(* Client.Stop, run by a stopper k.                                        *)

stopGoto(k, label) == stopPc' = [stopPc EXCEPT ![k] = label]

\* Bail out if Run is not running.
StopCheck(k) ==
    /\ Running /\ stopPc[k] = "check"
    /\ stopGoto(k, IF isRunning THEN "enter" ELSE "returned")
    /\ UNCHANGED <<flags, channel, sender, pump, toStop, early, timedOut, conn,
                   runPc, crash>>

\* Mutant: a flag instead of stopOnce: the callers that come second do not wait.
StopEnter_Flag(k) ==
    /\ Running /\ stopPc[k] = "enter" /\ ready
    /\ once' = IF once = "free" THEN "running" ELSE once
    /\ stopGoto(k, IF once = "free" THEN "setStopped" ELSE "returned")
    /\ UNCHANGED <<isRunning, isStopped, ready, doneClosed, hubDone, channel,
                   sender, pump, toStop, early, timedOut, conn, runPc, crash>>

\* <-readyToStopCh, then stopOnce.Do: one caller runs the body, the others wait
\* for its end.
StopEnter(k) ==
    /\ Running /\ stopPc[k] = "enter" /\ ready /\ once # "running"
    /\ once' = IF once = "free" THEN "running" ELSE once
    /\ stopGoto(k, IF once = "free" THEN "setStopped" ELSE "returned")
    /\ UNCHANGED <<isRunning, isStopped, ready, doneClosed, hubDone, channel,
                   sender, pump, toStop, early, timedOut, conn, runPc, crash>>

StopSetStopped(k) ==
    /\ Running /\ stopPc[k] = "setStopped"
    /\ isStopped' = TRUE
    /\ early' = conns
    /\ stopGoto(k, "closeDone")
    /\ UNCHANGED <<isRunning, ready, doneClosed, once, hubDone, channel, sender,
                   pump, toStop, timedOut, conn, runPc, crash>>

StopCloseDone(k) ==
    /\ Running /\ stopPc[k] = "closeDone"
    /\ doneClosed' = TRUE
    /\ stopGoto(k, "closeSend")
    /\ UNCHANGED <<isRunning, isStopped, ready, once, hubDone, channel, sender,
                   pump, toStop, early, timedOut, conn, runPc, crash>>

StopCloseSend(k) ==
    /\ Running /\ stopPc[k] = "closeSend"
    /\ sendClosed' = TRUE
    /\ stopGoto(k, "snapshot")
    /\ UNCHANGED <<flags, queue, enqueued, sender, pump, toStop, early, timedOut,
                   conn, runPc, crash>>

\* connections.GetAll() copies the map.
StopSnapshot(k) ==
    /\ Running /\ stopPc[k] = "snapshot"
    /\ toStop' = conns
    /\ stopGoto(k, "stopConns")
    /\ UNCHANGED <<flags, channel, sender, pump, early, timedOut, conn, runPc,
                   crash>>

\* One Connection.Stop of the loop over the copy.
StopConn(k) ==
    /\ Running /\ stopPc[k] = "stopConns"
    /\ \E c \in toStop : toStop' = toStop \ {c} /\ connDone' = connDone \cup {c}
    /\ UNCHANGED <<flags, channel, sender, pump, stopPc, early, timedOut, conns,
                   addPc, pumpPc, got, runPc, crash>>

\* Mutant: the distribution pump is started outside the WaitGroup.
GroupIdle_PumpsOnly == \A c \in Conns : pumpPc[c] \in {"off", "ended"}

\* The client's WaitGroup holds the distribution pump and the pumps.
GroupIdle ==
    /\ distPc \in {"off", "ended"}
    /\ \A c \in Conns : pumpPc[c] \in {"off", "ended"}

StopReturn(k) ==
    /\ once' = "done"
    /\ stopGoto(k, "returned")
    /\ UNCHANGED <<isRunning, isStopped, ready, doneClosed, hubDone, channel,
                   sender, pump, toStop, early, conn, runPc, crash>>

StopJoined(k) ==
    /\ Running /\ stopPc[k] = "stopConns" /\ toStop = {} /\ GroupIdle
    /\ StopReturn(k) /\ UNCHANGED timedOut

\* time.After(5s): a pump is still in a handler or a write.
StopTimeout(k) ==
    /\ Running /\ stopPc[k] = "stopConns" /\ toStop = {} /\ ~GroupIdle
    /\ StopReturn(k) /\ timedOut' = TRUE

StopStep(k) ==
    \/ StopCheck(k) \/ StopEnter(k) \/ StopSetStopped(k) \/ StopCloseDone(k)
    \/ StopCloseSend(k) \/ StopSnapshot(k) \/ StopConn(k)
    \/ StopJoined(k) \/ StopTimeout(k)

-----------------------------------------------------------------------------
(* The hub, the client's environment (WsHub models it).                    *)

\* hub.Close closes the hub's doneCh.
HubClose ==
    /\ Running /\ ~hubDone
    /\ hubDone' = TRUE
    /\ UNCHANGED <<isRunning, isStopped, ready, doneClosed, once, channel,
                   sender, pump, stopper, conn, runPc, crash>>

\* hub.RemoveClient, or hub.Close after it, calls Stop.
HubStop ==
    /\ Running /\ stopPc["hub"] = "off"
    /\ stopGoto("hub", "check")
    /\ UNCHANGED <<flags, channel, sender, pump, toStop, early, timedOut, conn,
                   runPc, crash>>

-----------------------------------------------------------------------------
(* Client.AddConnection, in the upgrade handler of connection c.           *)

addGoto(c, label) == addPc' = [addPc EXCEPT ![c] = label]

AddCheck(c) ==
    /\ Running /\ addPc[c] = "idle"
    /\ addGoto(c, IF isStopped THEN "rejected" ELSE "add")
    /\ UNCHANGED <<flags, channel, sender, pump, stopper, conns, connDone,
                   pumpPc, got, runPc, crash>>

\* connections.Add, then wg.Go for both pumps.  They find the connection as it is
\* when they first look at it, so they may as well start with it in the map.
AddToMap(c) ==
    /\ Running /\ addPc[c] = "add"
    /\ conns' = conns \cup {c}
    /\ pumpPc' = [pumpPc EXCEPT ![c] = "run"]
    /\ addGoto(c, "added")
    /\ UNCHANGED <<flags, channel, sender, pump, stopper, connDone, got, runPc,
                   crash>>

AddStep(c) == AddCheck(c) \/ AddToMap(c)

-----------------------------------------------------------------------------
(* The pumps of connection c and Client.RemoveConnection, run at their end.*)

pumpGoto(c, label) == pumpPc' = [pumpPc EXCEPT ![c] = label]

\* The pumps end: the connection was stopped, or the peer or a deadline ended it.
PumpEnd(c) ==
    /\ Running /\ pumpPc[c] = "run"
    /\ pumpGoto(c, "remove")
    /\ UNCHANGED <<flags, channel, sender, pump, stopper, conns, connDone, addPc,
                   got, runPc, crash>>

RemoveCheck(c) ==
    /\ Running /\ pumpPc[c] = "remove"
    /\ pumpGoto(c, IF isStopped THEN "ended" ELSE "unlink")
    /\ UNCHANGED <<flags, channel, sender, pump, stopper, conns, connDone, addPc,
                   got, runPc, crash>>

RemoveUnlink(c) ==
    /\ Running /\ pumpPc[c] = "unlink"
    /\ conns' = conns \ {c}
    /\ pumpGoto(c, "count")
    /\ UNCHANGED <<flags, channel, sender, pump, stopper, connDone, addPc, got,
                   runPc, crash>>

\* Mutant: isStopped is checked after the removal instead of before it.
RemoveCount_LateCheck(c) ==
    /\ Running /\ pumpPc[c] = "count"
    /\ pumpGoto(c, IF isStopped THEN "ended"
                   ELSE IF conns = {} THEN "stopLast" ELSE "stopOne")
    /\ UNCHANGED <<flags, channel, sender, pump, stopper, conns, connDone, addPc,
                   got, runPc, crash>>

\* Mutant: the connections are counted before the removal.
RemoveCount_Before(c) ==
    /\ Running /\ pumpPc[c] = "count"
    /\ pumpGoto(c, IF conns \cup {c} = {} THEN "stopLast" ELSE "stopOne")
    /\ UNCHANGED <<flags, channel, sender, pump, stopper, conns, connDone, addPc,
                   got, runPc, crash>>

\* connections.Count(), a separate access to the map.
RemoveCount(c) ==
    /\ Running /\ pumpPc[c] = "count"
    /\ pumpGoto(c, IF conns = {} THEN "stopLast" ELSE "stopOne")
    /\ UNCHANGED <<flags, channel, sender, pump, stopper, conns, connDone, addPc,
                   got, runPc, crash>>

\* conn.Stop(), and go c.Stop() when the count was zero.
RemoveStop(c) ==
    /\ Running /\ pumpPc[c] \in {"stopLast", "stopOne"}
    /\ connDone' = connDone \cup {c}
    /\ stopPc' = IF pumpPc[c] = "stopLast" THEN [stopPc EXCEPT ![c] = "check"]
                                           ELSE stopPc
    /\ pumpGoto(c, "ended")
    /\ UNCHANGED <<flags, channel, sender, pump, toStop, early, timedOut, conns,
                   addPc, got, runPc, crash>>

RemoveStep(c) ==
    RemoveCheck(c) \/ RemoveUnlink(c) \/ RemoveCount(c) \/ RemoveStop(c)

-----------------------------------------------------------------------------
(* Client.Send, run by a sender s.                                         *)

SendCheck(s) ==
    /\ Running /\ sendPc[s] = "idle" /\ sends[s] < MaxSends
    /\ sends' = [sends EXCEPT ![s] = @ + 1]
    /\ sendPc' = [sendPc EXCEPT ![s] = IF isStopped THEN "idle" ELSE "select"]
    /\ UNCHANGED <<flags, channel, pump, stopper, conn, runPc, crash>>

SendEnqueue(s) ==
    /\ Running /\ sendPc[s] = "select" /\ ~sendClosed /\ Len(queue) < Capacity
    /\ enqueued' = enqueued + 1
    /\ queue' = Append(queue, enqueued + 1)
    /\ sendPc' = [sendPc EXCEPT ![s] = "idle"]
    /\ UNCHANGED <<flags, sendClosed, sends, pump, stopper, conn, runPc, crash>>

\* A closed sendCh makes the send case ready, and choosing it panics.
SendPanic(s) ==
    /\ Running /\ sendPc[s] = "select" /\ sendClosed
    /\ crash' = "send on closed channel"
    /\ UNCHANGED <<flags, channel, sender, pump, stopper, conn, runPc>>

\* The event is dropped: the client stopped, or (default) nothing is ready.
SendDrop(s) ==
    /\ Running /\ sendPc[s] = "select"
    /\ doneClosed \/ (~sendClosed /\ Len(queue) = Capacity)
    /\ sendPc' = [sendPc EXCEPT ![s] = "idle"]
    /\ UNCHANGED <<flags, channel, sends, pump, stopper, conn, runPc, crash>>

SendStep(s) == SendCheck(s) \/ SendEnqueue(s) \/ SendPanic(s) \/ SendDrop(s)

-----------------------------------------------------------------------------
(* The distribution pump.                                                  *)

DistCheck ==
    /\ Running /\ distPc = "loop"
    /\ distPc' = IF isStopped THEN "ended" ELSE "select"
    /\ UNCHANGED <<flags, channel, sender, event, targets, stopper, conn, runPc,
                   crash>>

DistReceive ==
    /\ Running /\ distPc = "select" /\ queue # <<>>
    /\ event' = Head(queue)
    /\ queue' = Tail(queue)
    /\ distPc' = "copy"
    /\ UNCHANGED <<flags, sendClosed, enqueued, sender, targets, stopper, conn,
                   runPc, crash>>

\* doneCh is closed, or sendCh is closed and drained.
DistDone ==
    /\ Running /\ distPc = "select"
    /\ doneClosed \/ (sendClosed /\ queue = <<>>)
    /\ distPc' = "ended"
    /\ UNCHANGED <<flags, channel, sender, event, targets, stopper, conn, runPc,
                   crash>>

\* isStopped is checked again, then GetConnections copies the map.
DistCopy ==
    /\ Running /\ distPc = "copy"
    /\ IF isStopped THEN distPc' = "ended" /\ UNCHANGED targets
                    ELSE distPc' = "next" /\ targets' = conns
    /\ UNCHANGED <<flags, channel, sender, event, stopper, conn, runPc, crash>>

\* The head of the loop over the copy.
DistNext ==
    /\ Running /\ distPc = "next"
    /\ distPc' = IF targets = {} THEN "loop"
                 ELSE IF isStopped THEN "ended" ELSE "send"
    /\ UNCHANGED <<flags, channel, sender, event, targets, stopper, conn, runPc,
                   crash>>

\* Mutant: a stopped connection ends the loop instead of being passed over.
DistSend_Break ==
    /\ Running /\ distPc = "send"
    /\ \E c \in targets :
          IF c \in connDone
          THEN targets' = {} /\ UNCHANGED got
          ELSE /\ targets' = targets \ {c}
               /\ got' = [got EXCEPT ![c] = Append(@, event)]
    /\ distPc' = "next"
    /\ UNCHANGED <<flags, channel, sender, event, stopper, conns, connDone,
                   addPc, pumpPc, runPc, crash>>

\* conn.Send(event): a stopped connection takes nothing.
DistSend ==
    /\ Running /\ distPc = "send"
    /\ \E c \in targets :
          /\ targets' = targets \ {c}
          /\ got' = IF c \in connDone THEN got
                                      ELSE [got EXCEPT ![c] = Append(@, event)]
    /\ distPc' = "next"
    /\ UNCHANGED <<flags, channel, sender, event, stopper, conns, connDone,
                   addPc, pumpPc, runPc, crash>>

DistStep ==
    DistCheck \/ DistReceive \/ DistDone \/ DistCopy \/ DistNext \/ DistSend

-----------------------------------------------------------------------------
Next ==
    \/ RunStep \/ DistStep \/ HubClose \/ HubStop
    \/ \E k \in Stoppers : StopStep(k)
    \/ \E c \in Conns : AddStep(c) \/ PumpEnd(c) \/ RemoveStep(c)
    \/ \E s \in Senders : SendStep(s)

Spec == Init /\ [][Next]_vars

(***************************************************************************)
(* Fairness: the goroutines the package itself starts run; an upgrade      *)
(* handler that began AddConnection finishes it; a stopped connection's    *)
(* pumps end (DeadPumpStopsConnection of WsConnection).  Peers, senders    *)
(* and the hub's user owe nothing.                                         *)
(***************************************************************************)
Fairness ==
    /\ WF_vars(RunStep) /\ WF_vars(DistStep)
    /\ \A k \in Stoppers : WF_vars(StopStep(k))
    /\ \A c \in Conns :
          /\ WF_vars(AddToMap(c))
          /\ WF_vars(c \in connDone /\ PumpEnd(c))
          /\ WF_vars(RemoveStep(c))

FairSpec == Spec /\ Fairness

-----------------------------------------------------------------------------
(* Properties that hold.                                                   *)

FlagTypes ==
    /\ isRunning \in BOOLEAN /\ isStopped \in BOOLEAN /\ ready \in BOOLEAN
    /\ doneClosed \in BOOLEAN /\ hubDone \in BOOLEAN
    /\ sendClosed \in BOOLEAN /\ timedOut \in BOOLEAN

PcTypes ==
    /\ once \in {"free", "running", "done"}
    /\ crash \in {"none", "send on closed channel"}
    /\ runPc \in {"start", "check", "spawn", "ready", "await", "stopping",
                  "leave", "returned"}
    /\ distPc \in {"off", "loop", "select", "copy", "next", "send", "ended"}
    /\ addPc \in [Conns -> {"idle", "add", "added", "rejected"}]
    /\ pumpPc \in [Conns -> {"off", "run", "remove", "unlink", "count",
                             "stopLast", "stopOne", "ended"}]
    /\ sendPc \in [Senders -> {"idle", "select"}]
    /\ stopPc \in [Stoppers -> StopPCs]

DataTypes ==
    /\ queue \in Seq(Nat) /\ Len(queue) <= Capacity /\ enqueued \in Nat
    /\ sends \in [Senders -> 0..MaxSends]
    /\ event \in Nat /\ got \in [Conns -> Seq(Nat)]
    /\ conns \subseteq Conns /\ connDone \subseteq Conns
    /\ targets \subseteq Conns /\ toStop \subseteq Conns /\ early \subseteq Conns

\* Every variable of the client keeps its type, and sendCh its capacity.
TypeOK == FlagTypes /\ PcTypes /\ DataTypes

\* Between two events the distribution pump has given every live connection of
\* the client each event since the first it was given ("Events sent to a client
\* get distributed to all of them", docs/websocket.md:70): a connection that
\* stops or comes meanwhile makes no other miss an event or see one twice.
\* The last event the pump took is the one before the head of the queue.
NoConnectionMisses ==
    LET last == enqueued - Len(queue)
    IN  ~isStopped /\ distPc \in {"loop", "select"} =>
            \A c \in conns \ connDone : \A i \in 1..Len(got[c]) :
                got[c][i] = last - Len(got[c]) + i

\* Stop joins the distribution pump: when it is over without having timed out,
\* the pump has ended and cannot start any more, since Run starts it before it
\* closes readyToStopCh, which Stop waits for.
StopJoinsDistribution == once = "done" /\ ~timedOut => distPc = "ended"

\* How far Run and the hub's call of Stop are, as HubClient tells it.
RunForHub == CASE runPc = "start" -> "spawned"
               [] runPc \in {"stopping", "leave"} -> "stopping"
               [] runPc = "returned" -> "leaving"
               [] OTHER -> "running"

StopForHub == CASE stopPc["hub"] = "off" -> "none"
                [] stopPc["hub"] = "returned" -> "returned"
                [] OTHER -> "called"

\* Towards the hub the client is what HubClient says: Run returns for no reason but a
\* Stop or the end of the hub, and with the client stopped; of the calls of Stop, those
\* that find Run running return only once the client is stopped, whichever of them
\* runs the body of stopOnce, and the others change nothing (client.go:246).
Hub == INSTANCE HubClient WITH
    run <- RunForHub, stopped <- isStopped, hubDone <- hubDone, stop <- StopForHub

HubClientImplemented == Hub!HubClientSpec

\* Every call of Stop returns, also when it comes before Run is ready for it and
\* when several race: again and again none is pending, and no goroutine calls
\* Stop a second time.
StopReturns ==
    []<>(Running => \A k \in Stoppers : stopPc[k] \in {"off", "returned"})

\* Run returns once the client is stopped or the hub is done, wherever that finds it:
\* the hub waits for it (hub.go:89).
RunReturns == (isStopped \/ hubDone) ~> (Running => runPc = "returned")

\* Nobody the hub depends on hangs.
CallsReturn == StopReturns /\ RunReturns

\* Every connection that was in the map when the client began to stop is stopped
\* in the end: by Stop, or by the pump that had already taken it out of the map.
EstablishedConnectionsStop == []<>(Running => early \subseteq connDone)

\* Once Run is ready, a client whose last connection goes stops, unless another
\* connection comes ("If no connections left, trigger client shutdown",
\* client.go:148), however many removals race.
EmptyClientStops ==
    (ready /\ conns = {} /\ \E c \in Conns : pumpPc[c] = "count")
        ~> (Running => isStopped \/ conns # {})

-----------------------------------------------------------------------------
(* What a test states and the code does not have.                          *)

\* A Send that races with Stop or comes after it does not panic ("Should not
\* block or panic when sending to stopped client", client_test.go:212).
SendNeverPanics == crash # "send on closed channel"
=============================================================================
