---------------------------- MODULE WsConnection ----------------------------
(***************************************************************************)
(* One WebSocket connection of wshub (connection.go): the goroutines that  *)
(* call Connection.Send, the write pump, the read pump, and the owner, the *)
(* goroutine that runs Client.Stop and so stops every connection it finds  *)
(* in the client's map.  The pumps end in Client.RemoveConnection, which   *)
(* stops the connection too, so three goroutines may race for              *)
(* Connection.Stop.                                                        *)
(*                                                                         *)
(* One action is one access to a shared object (an atomic flag, a channel, *)
(* the WaitGroup, the Once, the connections map, the socket).  A goroutine *)
(* is blocked when none of its actions is enabled.  A Go panic in any of   *)
(* them ends the process: crash records it and no action is enabled after  *)
(* it.                                                                     *)
(*                                                                         *)
(* The counter of the WaitGroup is represented by the set of the           *)
(* goroutines that have called Add and not yet Done: the counter is its    *)
(* cardinality, and the code only ever asks whether it is zero.            *)
(***************************************************************************)
EXTENDS Naturals, Sequences, FiniteSets

CONSTANTS
    Senders,   \* goroutines that call Connection.Send
    Capacity,  \* capacity of sendCh (ClientConfig.SendBufferSize)
    MaxSends   \* bound: how many times each sender calls Send

ASSUME ConnectionAssumption ==
    /\ Capacity \in Nat \ {0}
    /\ MaxSends \in Nat

\* The goroutines that may call Connection.Stop.
Closers == {"reader", "writer", "owner"}
Pumps == {"reader", "writer"}

\* An event is named by its sender and by which of its sends it is.
Events == Senders \X (1..MaxSends)

VARIABLES
    isDone,        \* atomic.Bool
    doneClosed,    \* doneCh is closed
    queue,         \* the events buffered in sendCh
    sendClosed,    \* sendCh is closed
    inflight,      \* sendWg: goroutines between Add(1) and Done()
    waiting,       \* sendWg: a waiter is registered
    once,          \* stopOnce: "free", "running" or "done"
    sockOpen,      \* conn, the WebSocket, is not closed
    inMap,         \* the client's connections map holds the connection
    clientStopped, \* Client.isStopped
    spc,           \* program counter of each sender
    sends,         \* how many sends each sender has started
    pc,            \* program counter of each closer
    hand,          \* the event the write pump has received and not written
    accepted,      \* history: the events sendCh took, in order
    written,       \* history: the events written to the socket, in order
    crash          \* "none", or the panic that ended the process

flags == <<isDone, doneClosed, once>>
channel == <<queue, sendClosed, accepted>>
group == <<inflight, waiting>>
client == <<inMap, clientStopped>>
sender == <<spc, sends>>
peer == <<hand, written>>
vars == <<flags, channel, group, client, sender, peer, pc, sockOpen, crash>>

SenderPCs == {"idle", "add", "recheck", "select", "finish", "release"}
StopPCs == {"stop", "setDone", "closeDone", "wait", "sleep", "closeSend",
            "closeSock", "stopped"}
CloserPCs == StopPCs \cup {"loop", "poll", "select", "read", "recheck",
                           "handle", "write", "ping", "farewell", "remove",
                           "unlink", "ended", "idle", "snapshot"}
Panics == {"send on closed channel", "close of closed channel",
           "WaitGroup misuse"}

Init ==
    /\ isDone = FALSE /\ doneClosed = FALSE /\ once = "free"
    /\ queue = <<>> /\ sendClosed = FALSE /\ accepted = <<>>
    /\ inflight = {} /\ waiting = FALSE
    /\ inMap = TRUE /\ clientStopped = FALSE
    /\ spc = [s \in Senders |-> "idle"] /\ sends = [s \in Senders |-> 0]
    /\ hand = <<>> /\ written = <<>>
    /\ pc = [c \in Closers |-> IF c = "owner" THEN "idle" ELSE "loop"]
    /\ sockOpen = TRUE
    /\ crash = "none"

Running == crash = "none"

-----------------------------------------------------------------------------
(* Connection.Send, run by a sender s.                                     *)

sGoto(s, label) == spc' = [spc EXCEPT ![s] = label]

\* Mutant: Send without its first check of isDone.
SendCheck_Unchecked(s) ==
    /\ Running /\ spc[s] = "idle" /\ sends[s] < MaxSends
    /\ sends' = [sends EXCEPT ![s] = @ + 1]
    /\ sGoto(s, "add")
    /\ UNCHANGED <<flags, channel, group, client, peer, pc, sockOpen, crash>>

\* The first check of isDone.
SendCheck(s) ==
    /\ Running /\ spc[s] = "idle" /\ sends[s] < MaxSends
    /\ sends' = [sends EXCEPT ![s] = @ + 1]
    /\ sGoto(s, IF isDone THEN "idle" ELSE "add")
    /\ UNCHANGED <<flags, channel, group, client, peer, pc, sockOpen, crash>>

\* sendWg.Add(1).  An Add that leaves zero while a waiter is registered is a
\* misuse the WaitGroup detects.
SendAdd(s) ==
    /\ Running /\ spc[s] = "add"
    /\ inflight' = inflight \cup {s}
    /\ crash' = IF waiting /\ inflight = {} THEN "WaitGroup misuse" ELSE crash
    /\ sGoto(s, "recheck")
    /\ UNCHANGED <<flags, channel, waiting, client, sends, peer, pc, sockOpen>>

\* Mutant: Send without its second check of isDone.
SendRecheck_Unchecked(s) ==
    /\ Running /\ spc[s] = "recheck"
    /\ sGoto(s, "select")
    /\ UNCHANGED <<flags, channel, group, client, sends, peer, pc, sockOpen,
                   crash>>

\* The second check of isDone, now that Stop waits for this goroutine.
SendRecheck(s) ==
    /\ Running /\ spc[s] = "recheck"
    /\ sGoto(s, IF isDone THEN "finish" ELSE "select")
    /\ UNCHANGED <<flags, channel, group, client, sends, peer, pc, sockOpen,
                   crash>>

\* The select's send case.  A send on a closed channel panics.
SendEnqueue(s) ==
    /\ Running /\ spc[s] = "select"
    /\ \/ /\ sendClosed
          /\ crash' = "send on closed channel"
          /\ UNCHANGED <<queue, accepted, spc>>
       \/ /\ ~sendClosed /\ Len(queue) < Capacity
          /\ queue' = Append(queue, <<s, sends[s]>>)
          /\ accepted' = Append(accepted, <<s, sends[s]>>)
          /\ sGoto(s, "finish")
          /\ UNCHANGED crash
    /\ UNCHANGED <<flags, sendClosed, group, client, sends, peer, pc, sockOpen>>

\* The select's other case: the connection was stopped, the event is dropped.
SendAbort(s) ==
    /\ Running /\ spc[s] = "select" /\ doneClosed
    /\ sGoto(s, "finish")
    /\ UNCHANGED <<flags, channel, group, client, sends, peer, pc, sockOpen,
                   crash>>

\* The deferred sendWg.Done(): the last one has a waiter to release.
SendFinish(s) ==
    /\ Running /\ spc[s] = "finish"
    /\ inflight' = inflight \ {s}
    /\ sGoto(s, IF waiting /\ inflight' = {} THEN "release" ELSE "idle")
    /\ UNCHANGED <<flags, channel, waiting, client, sends, peer, pc, sockOpen,
                   crash>>

\* Done() clears the WaitGroup and wakes the waiter, which runs later.
SendRelease(s) ==
    /\ Running /\ spc[s] = "release"
    /\ waiting' = FALSE
    /\ sGoto(s, "idle")
    /\ UNCHANGED <<flags, channel, inflight, client, sends, peer, pc, sockOpen,
                   crash>>

SenderStep(s) ==
    \/ SendCheck(s) \/ SendAdd(s) \/ SendRecheck(s) \/ SendEnqueue(s)
    \/ SendAbort(s) \/ SendFinish(s) \/ SendRelease(s)

-----------------------------------------------------------------------------
(* Connection.Stop, run by a closer c.                                     *)

goto(c, label) == pc' = [pc EXCEPT ![c] = label]

\* Mutant: a flag instead of a Once, so a second caller does not wait.
StopEnter_Flag(c) ==
    /\ Running /\ pc[c] = "stop"
    /\ once' = IF once = "free" THEN "running" ELSE once
    /\ goto(c, IF once = "free" THEN "setDone" ELSE "stopped")
    /\ UNCHANGED <<isDone, doneClosed, channel, group, client, sender, peer,
                   sockOpen, crash>>

\* stopOnce.Do: the first caller runs the body, a caller that finds it running
\* waits for its end, a later one returns at once.
StopEnter(c) ==
    /\ Running /\ pc[c] = "stop" /\ once # "running"
    /\ once' = IF once = "free" THEN "running" ELSE once
    /\ goto(c, IF once = "free" THEN "setDone" ELSE "stopped")
    /\ UNCHANGED <<isDone, doneClosed, channel, group, client, sender, peer,
                   sockOpen, crash>>

StopSetDone(c) ==
    /\ Running /\ pc[c] = "setDone"
    /\ isDone' = TRUE
    /\ goto(c, "closeDone")
    /\ UNCHANGED <<doneClosed, once, channel, group, client, sender, peer,
                   sockOpen, crash>>

StopCloseDone(c) ==
    /\ Running /\ pc[c] = "closeDone"
    /\ doneClosed' = TRUE
    /\ crash' = IF doneClosed THEN "close of closed channel" ELSE crash
    /\ goto(c, "wait")
    /\ UNCHANGED <<isDone, once, channel, group, client, sender, peer, sockOpen>>

\* Mutant: Stop that never closes sendCh.
StopWait_SkipClose(c) ==
    /\ Running /\ pc[c] = "wait" /\ inflight = {}
    /\ goto(c, "closeSock")
    /\ UNCHANGED <<flags, channel, group, client, sender, peer, sockOpen, crash>>

\* sendWg.Wait() returns at once when no send is in flight, else it sleeps.
StopWait(c) ==
    /\ Running /\ pc[c] = "wait"
    /\ waiting' = (inflight # {})
    /\ goto(c, IF inflight = {} THEN "closeSend" ELSE "sleep")
    /\ UNCHANGED <<flags, channel, inflight, client, sender, peer, sockOpen,
                   crash>>

\* The waiter wakes.  It finds the WaitGroup in use again if another send has
\* called Add since it was released, and panics.
StopWake(c) ==
    /\ Running /\ pc[c] = "sleep" /\ ~waiting
    /\ crash' = IF inflight # {} THEN "WaitGroup misuse" ELSE crash
    /\ goto(c, "closeSend")
    /\ UNCHANGED <<flags, channel, group, client, sender, peer, sockOpen>>

StopCloseSend(c) ==
    /\ Running /\ pc[c] = "closeSend"
    /\ sendClosed' = TRUE
    /\ crash' = IF sendClosed THEN "close of closed channel" ELSE crash
    /\ goto(c, "closeSock")
    /\ UNCHANGED <<flags, queue, accepted, group, client, sender, peer, sockOpen>>

\* conn.Close(), the last statement of the body: the Once is done.
StopCloseSock(c) ==
    /\ Running /\ pc[c] = "closeSock"
    /\ sockOpen' = FALSE
    /\ once' = "done"
    /\ goto(c, "stopped")
    /\ UNCHANGED <<isDone, doneClosed, channel, group, client, sender, peer,
                   crash>>

StopStep(c) ==
    \/ StopEnter(c) \/ StopSetDone(c) \/ StopCloseDone(c) \/ StopWait(c)
    \/ StopWake(c) \/ StopCloseSend(c) \/ StopCloseSock(c)

-----------------------------------------------------------------------------
(* Client.RemoveConnection, deferred by both pumps.                        *)

\* A client that is stopping leaves its connections to Client.Stop.
RemoveCheck(p) ==
    /\ Running /\ pc[p] = "remove"
    /\ goto(p, IF clientStopped THEN "ended" ELSE "unlink")
    /\ UNCHANGED <<flags, channel, group, client, sender, peer, sockOpen, crash>>

\* Mutant: RemoveConnection that looks at isStopped only after it has removed the
\* connection from the map.
RemoveUnlink_LateCheck(p) ==
    /\ Running /\ pc[p] = "unlink"
    /\ inMap' = FALSE
    /\ goto(p, IF inMap /\ ~clientStopped THEN "stop" ELSE "ended")
    /\ UNCHANGED <<flags, channel, group, clientStopped, sender, peer, sockOpen,
                   crash>>

\* connections.Remove returns the connection to the first that removes it,
\* which is the one that stops it.
RemoveUnlink(p) ==
    /\ Running /\ pc[p] = "unlink"
    /\ inMap' = FALSE
    /\ goto(p, IF inMap THEN "stop" ELSE "ended")
    /\ UNCHANGED <<flags, channel, group, clientStopped, sender, peer, sockOpen,
                   crash>>

RemoveStep(p) == RemoveCheck(p) \/ RemoveUnlink(p)

-----------------------------------------------------------------------------
(* Client.Stop, as far as one connection sees it.                          *)

OwnerStop ==
    /\ Running /\ pc["owner"] = "idle"
    /\ clientStopped' = TRUE
    /\ goto("owner", "snapshot")
    /\ UNCHANGED <<flags, channel, group, inMap, sender, peer, sockOpen, crash>>

\* connections.GetAll: the connection is stopped if it is still in the map.
OwnerSnapshot ==
    /\ Running /\ pc["owner"] = "snapshot"
    /\ goto("owner", IF inMap THEN "stop" ELSE "ended")
    /\ UNCHANGED <<flags, channel, group, client, sender, peer, sockOpen, crash>>

-----------------------------------------------------------------------------
(* The write pump.                                                         *)

\* A step of the write pump that touches nothing but its program counter.
WriterGoto(label) ==
    /\ goto("writer", label)
    /\ UNCHANGED <<flags, channel, group, client, sender, peer, sockOpen, crash>>

WriterCheck ==
    /\ Running /\ pc["writer"] = "loop"
    /\ WriterGoto(IF isDone THEN "remove" ELSE "select")

\* The select's receive case: a closed channel still yields what it buffers.
WriterReceive ==
    /\ Running /\ pc["writer"] = "select" /\ queue # <<>>
    /\ hand' = <<Head(queue)>>
    /\ queue' = Tail(queue)
    /\ goto("writer", "write")
    /\ UNCHANGED <<flags, sendClosed, accepted, group, client, sender, written,
                   sockOpen, crash>>

\* The channel is closed and drained: a close message is tried, then return.
WriterDrained ==
    /\ Running /\ pc["writer"] = "select" /\ queue = <<>> /\ sendClosed
    /\ WriterGoto("farewell")

WriterTick == Running /\ pc["writer"] = "select" /\ WriterGoto("ping")

WriterDone == Running /\ pc["writer"] = "select" /\ doneClosed /\ WriterGoto("remove")

\* WriteJSON succeeds: only on a socket that is not closed.
WriterWrite ==
    /\ Running /\ pc["writer"] = "write" /\ sockOpen
    /\ written' = written \o hand
    /\ hand' = <<>>
    /\ goto("writer", "loop")
    /\ UNCHANGED <<flags, channel, group, client, sender, sockOpen, crash>>

\* Mutant: a write pump that ends without Client.RemoveConnection.
WriterFail_NoCleanup ==
    /\ Running /\ pc["writer"] = "write"
    /\ hand' = <<>>
    /\ goto("writer", "ended")
    /\ UNCHANGED <<flags, channel, group, client, sender, written, sockOpen,
                   crash>>

\* WriteJSON fails (peer gone, write deadline, socket closed): the event is
\* lost and the pump returns.
WriterFail ==
    /\ Running /\ pc["writer"] = "write"
    /\ hand' = <<>>
    /\ goto("writer", "remove")
    /\ UNCHANGED <<flags, channel, group, client, sender, written, sockOpen,
                   crash>>

\* The ping is written, or fails; the close message is a last effort.
WriterPing ==
    /\ Running /\ pc["writer"] = "ping"
    /\ \/ sockOpen /\ WriterGoto("loop")
       \/ WriterGoto("remove")

WriterFarewell ==
    Running /\ pc["writer"] = "farewell" /\ WriterGoto("remove")

WriterStep ==
    \/ WriterCheck \/ WriterReceive \/ WriterDrained \/ WriterTick \/ WriterDone
    \/ WriterWrite \/ WriterFail \/ WriterPing \/ WriterFarewell

-----------------------------------------------------------------------------
(* The read pump.                                                          *)

ReaderGoto(label) ==
    /\ goto("reader", label)
    /\ UNCHANGED <<flags, channel, group, client, sender, peer, sockOpen, crash>>

ReaderCheck ==
    /\ Running /\ pc["reader"] = "loop"
    /\ ReaderGoto(IF isDone THEN "remove" ELSE "poll")

\* The select with a default on doneCh.
ReaderPoll ==
    /\ Running /\ pc["reader"] = "poll"
    /\ ReaderGoto(IF doneClosed THEN "remove" ELSE "read")

\* ReadJSON yields an event of the peer.
ReaderReceive ==
    Running /\ pc["reader"] = "read" /\ sockOpen /\ ReaderGoto("recheck")

\* ReadJSON fails: peer gone, malformed JSON, read deadline, socket closed.
ReaderFail == Running /\ pc["reader"] = "read" /\ ReaderGoto("remove")

ReaderRecheck ==
    /\ Running /\ pc["reader"] = "recheck"
    /\ ReaderGoto(IF isDone THEN "remove" ELSE "handle")

\* hub.ProcessEvent runs the handler, which returns.
ReaderHandle == Running /\ pc["reader"] = "handle" /\ ReaderGoto("loop")

ReaderStep ==
    \/ ReaderCheck \/ ReaderPoll \/ ReaderReceive \/ ReaderFail
    \/ ReaderRecheck \/ ReaderHandle

-----------------------------------------------------------------------------
Next ==
    \/ \E s \in Senders : SenderStep(s)
    \/ \E c \in Closers : StopStep(c)
    \/ \E p \in Pumps : RemoveStep(p)
    \/ OwnerStop \/ OwnerSnapshot
    \/ WriterStep \/ ReaderStep

Spec == Init /\ [][Next]_vars

(***************************************************************************)
(* Fairness.  A goroutine that can run does run (the Go scheduler).  The   *)
(* socket's deadlines make every read and write return.  A handler is      *)
(* assumed to return.  Among the cases of a select that are ready again    *)
(* and again Go chooses at random, so receiving is not passed over for     *)
(* ever in favour of the ticker.  Nothing obliges a sender to call Send or *)
(* the owner to stop the client.                                           *)
(***************************************************************************)
SendContinues(s) ==
    \/ SendAdd(s) \/ SendRecheck(s) \/ SendEnqueue(s) \/ SendAbort(s)
    \/ SendFinish(s) \/ SendRelease(s)

Fairness ==
    /\ \A s \in Senders : WF_vars(SendContinues(s))
    /\ \A c \in Closers : WF_vars(StopStep(c))
    /\ \A p \in Pumps : WF_vars(RemoveStep(p))
    /\ WF_vars(OwnerSnapshot)
    /\ WF_vars(WriterStep) /\ SF_vars(WriterReceive)
    /\ WF_vars(ReaderStep)

FairSpec == Spec /\ Fairness

-----------------------------------------------------------------------------
(* Properties.                                                             *)

\* Every variable of the connection keeps its type, and sendCh its capacity.
TypeOK ==
    /\ isDone \in BOOLEAN /\ doneClosed \in BOOLEAN
    /\ once \in {"free", "running", "done"}
    /\ queue \in Seq(Events) /\ Len(queue) <= Capacity /\ sendClosed \in BOOLEAN
    /\ accepted \in Seq(Events) /\ written \in Seq(Events)
    /\ hand \in Seq(Events) /\ Len(hand) <= 1
    /\ inflight \subseteq Senders /\ waiting \in BOOLEAN
    /\ inMap \in BOOLEAN /\ clientStopped \in BOOLEAN
    /\ spc \in [Senders -> SenderPCs] /\ sends \in [Senders -> 0..MaxSends]
    /\ pc \in [Closers -> CloserPCs]
    /\ sockOpen \in BOOLEAN
    /\ crash \in Panics \cup {"none"}

\* A sender inside Send has a send to its name, so what it enqueues is an event.
SendsCounted == \A s \in Senders : spc[s] # "idle" => sends[s] >= 1

\* With any number of goroutines in Send and three racing for Stop, no event is
\* ever sent on the closed sendCh and no channel is closed twice ("Now safe to
\* close sendCh - no more sends can happen", connection.go:151).
ChannelsSafe ==
    crash \notin {"send on closed channel", "close of closed channel"}

\* The WaitGroup that tracks in-flight sends is never reused while Stop is still
\* in its Wait ("Stop cleanly shuts down the connection", connection.go:123).
WaitGroupSafe == crash # "WaitGroup misuse"

\* A goroutine whose call of Stop has returned finds the connection stopped, also
\* when another goroutine did the stopping (sync.Once makes it wait): nobody is
\* left in Send's select, both channels are closed and so is the socket.
StopReturnsStopped ==
    Running /\ (\E c \in Closers : pc[c] = "stopped") =>
        /\ isDone /\ doneClosed /\ sendClosed /\ ~sockOpen
        /\ \A s \in Senders : spc[s] # "select"

\* The connection implements the mailbox: it accepts events only until sendCh is
\* closed, and the peer is given what was accepted, in order and without a gap,
\* until the socket is closed, whatever write fails and whenever Stop comes.
Mailbox == INSTANCE WsMailbox WITH
    phase <- IF ~sockOpen THEN "closed" ELSE IF sendClosed THEN "draining" ELSE "open",
    delivered <- written
MailboxImplemented == Mailbox!MailboxSpec

\* While the write pump runs, nothing accepted is lost, doubled or reordered: it
\* was written, is in the pump's hand or waits in sendCh.  A failed write ends
\* the pump, so the peer never sees a gap.
NothingSkipped ==
    pc["writer"] \in {"loop", "select", "write", "ping"} =>
        accepted = written \o hand \o queue

\* Every call of Send returns, however full sendCh is and however the write pump
\* ended: the pump drains it, or its end leads to Stop, which closes doneCh.
SendReturns == \A s \in Senders : spc[s] # "idle" ~> spc[s] = "idle"

Left(p) == pc[p] \in {"ended", "stopped"}

\* Whatever ends the connection ends all of it: once a pump has ended, or Stop
\* has begun, the socket is closed and both pumps end.
DeadPumpStopsConnection ==
    (isDone \/ \E p \in Pumps : Left(p)) ~> (~sockOpen /\ \A p \in Pumps : Left(p))
=============================================================================
