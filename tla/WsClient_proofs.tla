--------------------------- MODULE WsClient_proofs ---------------------------
(***************************************************************************)
(* Theorems about WsClient, for any sets of connections and senders and    *)
(* any capacity of sendCh: Stop joins the distribution pump, no live       *)
(* connection misses an event or sees one twice while others come and go,  *)
(* and the client implements HubClient.                                    *)
(***************************************************************************)
EXTENDS WsClient, SequenceTheorems, TLAPS

\* Run starts the distribution pump once, before it says that it is ready, and Stop
\* gets to its body only after that.
PumpInv ==
    /\ runPc \in {"start", "check", "spawn"} => distPc = "off"
    /\ runPc \in {"ready", "await", "stopping"} => distPc # "off"
    /\ ready => distPc # "off" /\ runPc \notin {"start", "check", "spawn"}
    /\ once # "free" => ready
    /\ \A k \in Stoppers :
           stopPc[k] \notin {"off", "check", "enter", "returned"} => once # "free"

StopInv == PumpInv /\ StopJoinsDistribution

\* How many events have been taken out of sendCh.
Taken == enqueued - Len(queue)

\* The last numbers up to n, one after the other.
EndsAt(s, n) == \A i \in 1..Len(s) : s[i] = n - Len(s) + i

\* sendCh holds the numbers that come next; the pump holds the one before them.
QueueInv ==
    /\ Len(queue) <= enqueued
    /\ \A i \in 1..Len(queue) : queue[i] = Taken + i
    /\ distPc \in {"copy", "next", "send"} => event = Taken /\ Taken >= 1

\* Who was given anything was added, and who was added is not added again.
AddedInv ==
    /\ \A c \in Conns : got[c] # <<>> => addPc[c] = "added"
    /\ conns \cup targets \subseteq {c \in Conns : addPc[c] = "added"}
    /\ distPc = "off" => \A c \in Conns : got[c] = <<>>

\* The pump is still to give its event to connection c.
Waits(c) == distPc = "copy" \/ (distPc \in {"next", "send"} /\ c \in targets)

\* What a live connection was given are the last events up to the newest, or up to
\* the one before it.
GotInv ==
    ~isStopped =>
        \A c \in conns \ connDone :
            EndsAt(got[c], IF Waits(c) THEN Taken - 1 ELSE Taken)

DistInv == QueueInv /\ AddedInv /\ GotInv

\* Stopper k runs the body of stopOnce.
InBody(k) ==
    stopPc[k] \in {"setStopped", "closeDone", "closeSend", "snapshot", "stopConns"}

\* One caller of Stop at most runs the body, and it is over only with the client
\* stopped.
OnceInv ==
    /\ isStopped => once # "free"
    /\ doneClosed \/ once = "done" => isStopped
    /\ \A k \in Stoppers : InBody(k) => once = "running"
    /\ \A k \in Stoppers : InBody(k) /\ stopPc[k] # "setStopped" => isStopped
    /\ \A j, k \in Stoppers : InBody(j) /\ InBody(k) => j = k

\* isRunning is set all the way, and Run leaves after the body is over: a Stop that it
\* has called itself does not bail out.  The early return at the top of Run is never
\* taken, since nobody gets to the body before Run is ready.
RunInv ==
    /\ isRunning <=> runPc \notin {"start", "returned"}
    /\ runPc # "leave"
    /\ runPc = "returned" \/ (runPc = "stopping" /\ stopPc["run"] = "returned")
       => once = "done"

HubInv == OnceInv /\ RunInv

ClientInv == TypeOK /\ StopInv /\ DistInv

USE DEF vars, flags, channel, sender, pump, stopper, conn

\* The initial states satisfy the invariant.
LEMMA ClientInit == Init => ClientInv
  <1> SUFFICES ASSUME Init PROVE ClientInv
    OBVIOUS
  <1> USE ClientAssumption
  <1>1. FlagTypes
    BY DEF Init, FlagTypes
  <1>2. PcTypes
    BY DEF Init, PcTypes, StopPCs
  <1>3. queue = <<>> /\ Len(queue) = 0 /\ enqueued = 0
    BY EmptySeq DEF Init
  <1>4. DataTypes
    <2>1. queue \in Seq(Nat) /\ got \in [Conns -> Seq(Nat)]
      BY EmptySeq DEF Init
    <2>2. sends \in [Senders -> 0..MaxSends] /\ event \in Nat
      BY DEF Init
    <2>3. /\ conns = {} /\ connDone = {} /\ targets = {} /\ toStop = {} /\ early = {}
      BY DEF Init
    <2> QED
      BY <1>3, <2>1, <2>2, <2>3 DEF DataTypes
  <1>5. StopInv
    BY DEF Init, StopInv, PumpInv, StopJoinsDistribution, Stoppers
  <1>6. DistInv
    BY <1>3 DEF Init, DistInv, QueueInv, AddedInv, GotInv
  <1> QED
    BY <1>1, <1>2, <1>4, <1>5, <1>6 DEF ClientInv, TypeOK

-----------------------------------------------------------------------------
(* Types.                                                                  *)

\* A step of Run keeps the types.
LEMMA TypeRun == ASSUME TypeOK, RunStep PROVE TypeOK'
  <1> USE DEF TypeOK, RunStep, RunStart, RunCheck, RunSpawn, RunReady, RunAwait, RunLeave
  <1>1. FlagTypes'
    BY DEF FlagTypes
  <1>2. PcTypes'
    <2>1. stopPc' = [stopPc EXCEPT !["run"] = "check"] \/ UNCHANGED stopPc
      OBVIOUS
    <2>2. UNCHANGED <<once, crash, addPc, pumpPc, sendPc>> /\ distPc' \in {distPc, "loop"}
      OBVIOUS
    <2>3. runPc' \in {"check", "leave", "spawn", "ready", "await", "stopping", "returned"}
      OBVIOUS
    <2> QED
      BY <2>1, <2>2, <2>3 DEF PcTypes, StopPCs
  <1>3. DataTypes'
    BY DEF DataTypes
  <1> QED
    BY <1>1, <1>2, <1>3

\* A step of Stop keeps the types.
LEMMA TypeStop == ASSUME TypeOK, NEW k \in Stoppers, StopStep(k) PROVE TypeOK'
  <1> USE DEF TypeOK, StopStep, StopCheck, StopEnter, StopSetStopped, StopCloseDone,
           StopCloseSend, StopSnapshot, StopConn, StopJoined, StopTimeout, StopReturn,
           stopGoto
  <1>1. FlagTypes'
    BY DEF FlagTypes
  <1>2. PcTypes'
    <2>1. stopPc' \in [Stoppers -> StopPCs]
      <3>1. \E label \in StopPCs : stopPc' = [stopPc EXCEPT ![k] = label] \/ UNCHANGED stopPc
        BY DEF StopPCs
      <3> QED
        BY <3>1 DEF PcTypes
    <2>2. once' \in {once, "running", "done"}
          /\ UNCHANGED <<crash, runPc, distPc, addPc, pumpPc, sendPc>>
      OBVIOUS
    <2> HIDE DEF StopStep
    <2> QED
      BY <2>1, <2>2 DEF PcTypes
  <1>3. DataTypes'
    BY DEF DataTypes
  <1> QED
    BY <1>1, <1>2, <1>3

\* A step of the hub, of an upgrade handler or of a connection's pumps keeps the types.
LEMMA TypeConn ==
  ASSUME TypeOK,
         \/ HubClose \/ HubStop
         \/ \E c \in Conns : AddStep(c) \/ PumpEnd(c) \/ RemoveStep(c)
  PROVE  TypeOK'
  <1> USE DEF TypeOK
  <1>1. CASE HubClose
    <2>1. FlagTypes'
      BY <1>1 DEF HubClose, FlagTypes
    <2>2. PcTypes'
      BY <1>1 DEF HubClose, PcTypes
    <2>3. DataTypes'
      BY <1>1 DEF HubClose, DataTypes
    <2> QED
      BY <2>1, <2>2, <2>3
  <1>2. CASE HubStop
    <2>1. FlagTypes'
      BY <1>2 DEF HubStop, FlagTypes
    <2>2. PcTypes'
      BY <1>2 DEF HubStop, stopGoto, PcTypes, StopPCs
    <2>3. DataTypes'
      BY <1>2 DEF HubStop, DataTypes
    <2> QED
      BY <2>1, <2>2, <2>3
  <1>3. ASSUME NEW c \in Conns, AddStep(c)
        PROVE TypeOK'
    <2>1. FlagTypes'
      BY <1>3 DEF AddStep, AddCheck, AddToMap, FlagTypes
    <2>2. PcTypes'
      BY <1>3 DEF AddStep, AddCheck, AddToMap, addGoto, PcTypes
    <2>3. DataTypes'
      BY <1>3 DEF AddStep, AddCheck, AddToMap, DataTypes
    <2> QED
      BY <2>1, <2>2, <2>3
  <1>4. ASSUME NEW c \in Conns, PumpEnd(c) \/ RemoveStep(c)
        PROVE TypeOK'
    <2> USE <1>4 DEF PumpEnd, RemoveStep, RemoveCheck, RemoveUnlink, RemoveCount, RemoveStop,
                pumpGoto
    <2>1. FlagTypes'
      BY DEF FlagTypes
    <2>2. PcTypes'
      <3>1. stopPc' = [stopPc EXCEPT ![c] = "check"] \/ UNCHANGED stopPc
        OBVIOUS
      <3>2. \E label \in {"remove", "unlink", "count", "stopLast", "stopOne", "ended"} :
                pumpPc' = [pumpPc EXCEPT ![c] = label]
        OBVIOUS
      <3>3. UNCHANGED <<once, crash, runPc, distPc, addPc, sendPc>>
        OBVIOUS
      <3>4. stopPc' \in [Stoppers -> StopPCs]
        BY <3>1 DEF PcTypes, StopPCs
      <3>5. pumpPc' \in [Conns -> {"off", "run", "remove", "unlink", "count",
                                   "stopLast", "stopOne", "ended"}]
        BY <3>2 DEF PcTypes
      <3> HIDE <1>4
      <3> QED
        BY <3>3, <3>4, <3>5 DEF PcTypes
    <2>3. DataTypes'
      BY DEF DataTypes
    <2> QED
      BY <2>1, <2>2, <2>3
  <1> QED
    BY <1>1, <1>2, <1>3, <1>4

\* A step of Send keeps the types.
LEMMA TypeSend == ASSUME TypeOK, NEW s \in Senders, SendStep(s) PROVE TypeOK'
  <1> USE ClientAssumption DEF TypeOK
  <1>1. FlagTypes' /\ PcTypes'
    <2>1. FlagTypes'
      BY DEF FlagTypes, SendStep, SendCheck, SendEnqueue, SendPanic, SendDrop
    <2>2. PcTypes'
      BY DEF PcTypes, SendStep, SendCheck, SendEnqueue, SendPanic, SendDrop
    <2> QED
      BY <2>1, <2>2
  <1>2. CASE SendCheck(s)
    <2>1. sends[s] + 1 \in 0..MaxSends
      BY <1>2 DEF SendCheck, DataTypes
    <2>2. sends' \in [Senders -> 0..MaxSends]
      BY <1>2, <2>1 DEF SendCheck, DataTypes
    <2> QED
      BY <1>1, <1>2, <2>2 DEF SendCheck, DataTypes
  <1>3. CASE SendEnqueue(s)
    <2>1. enqueued + 1 \in Nat /\ Len(queue) \in Nat /\ Len(queue) < Capacity
      BY <1>3, LenProperties DEF SendEnqueue, DataTypes
    <2>2. /\ Append(queue, enqueued + 1) \in Seq(Nat)
          /\ Len(Append(queue, enqueued + 1)) = Len(queue) + 1
      BY <2>1 DEF DataTypes
    <2>3. Len(Append(queue, enqueued + 1)) <= Capacity
      BY <2>1, <2>2
    <2> QED
      BY <1>1, <1>3, <2>1, <2>2, <2>3 DEF SendEnqueue, DataTypes
  <1>4. CASE SendPanic(s) \/ SendDrop(s)
    BY <1>1, <1>4 DEF SendPanic, SendDrop, DataTypes
  <1> QED
    BY <1>2, <1>3, <1>4 DEF SendStep

\* A step of the distribution pump keeps the types.
LEMMA TypeDist == ASSUME TypeOK, DistStep PROVE TypeOK'
  <1> USE DEF TypeOK
  <1>1. FlagTypes' /\ PcTypes'
    <2>1. FlagTypes'
      BY DEF FlagTypes, DistStep, DistCheck, DistReceive, DistDone, DistCopy, DistNext,
             DistSend
    <2>2. PcTypes'
      BY DEF PcTypes, DistStep, DistCheck, DistReceive, DistDone, DistCopy, DistNext,
             DistSend
    <2> QED
      BY <2>1, <2>2
  <1>2. CASE DistCheck \/ DistDone \/ DistNext \/ DistCopy
    BY <1>1, <1>2 DEF DistCheck, DistDone, DistNext, DistCopy, DataTypes
  <1>3. CASE DistReceive
    <2>1. queue \in Seq(Nat) /\ queue # <<>> /\ Len(queue) <= Capacity
      BY <1>3 DEF DistReceive, DataTypes
    <2>2. Head(queue) \in Nat /\ Tail(queue) \in Seq(Nat) /\ Len(Tail(queue)) = Len(queue) - 1
      BY <2>1, HeadTailProperties
    <2>3. Len(Tail(queue)) <= Capacity
      BY <2>1, <2>2, LenProperties, ClientAssumption
    <2> QED
      BY <1>1, <1>3, <2>2, <2>3 DEF DistReceive, DataTypes
  <1>4. CASE DistSend
    <2>1. PICK c \in targets :
              /\ targets' = targets \ {c}
              /\ got' = IF c \in connDone THEN got ELSE [got EXCEPT ![c] = Append(@, event)]
      BY <1>4 DEF DistSend
    <2>2. c \in Conns /\ Append(got[c], event) \in Seq(Nat)
      BY <2>1 DEF DataTypes
    <2>3. got' \in [Conns -> Seq(Nat)] /\ targets' \subseteq Conns
      BY <2>1, <2>2 DEF DataTypes
    <2> QED
      BY <1>1, <1>4, <2>3 DEF DistSend, DataTypes
  <1> QED
    BY <1>2, <1>3, <1>4 DEF DistStep

\* Every step keeps the types.
LEMMA TypeNext == TypeOK /\ [Next]_vars => TypeOK'
  <1> SUFFICES ASSUME TypeOK, [Next]_vars PROVE TypeOK'
    OBVIOUS
  <1>1. CASE UNCHANGED vars
    <2>1. FlagTypes'
      BY <1>1 DEF TypeOK, FlagTypes
    <2>2. PcTypes'
      BY <1>1 DEF TypeOK, PcTypes
    <2>3. DataTypes'
      BY <1>1 DEF TypeOK, DataTypes
    <2> QED
      BY <2>1, <2>2, <2>3 DEF TypeOK
  <1> QED
    BY <1>1, TypeRun, TypeStop, TypeConn, TypeSend, TypeDist DEF Next

-----------------------------------------------------------------------------
(* Stop and the distribution pump.                                         *)

\* A step of Run keeps the pump joined.
LEMMA StopRun == ASSUME ClientInv, RunStep PROVE StopInv'
  <1> USE DEF ClientInv, StopInv, PumpInv, StopJoinsDistribution
  <1>1. UNCHANGED <<once, timedOut>>
    BY DEF RunStep, RunStart, RunCheck, RunSpawn, RunReady, RunAwait, RunLeave
  <1>2. CASE RunSpawn
    BY <1>1, <1>2 DEF RunSpawn
  <1>3. CASE RunAwait
    <2>1. \A k \in Stoppers : stopPc'[k] = stopPc[k] \/ stopPc'[k] = "check"
      BY <1>3 DEF RunAwait, TypeOK, PcTypes
    <2> QED
      BY <1>1, <1>3, <2>1 DEF RunAwait
  <1>4. CASE RunStart \/ RunCheck \/ RunReady \/ RunLeave
    BY <1>1, <1>4 DEF RunStart, RunCheck, RunReady, RunLeave
  <1> QED
    BY <1>2, <1>3, <1>4 DEF RunStep

\* A step of Stop keeps the pump joined: its body runs after the pump was started, and
\* it waits for the pump, or says that it did not.
LEMMA StopStop == ASSUME ClientInv, NEW k \in Stoppers, StopStep(k) PROVE StopInv'
  <1> USE DEF ClientInv, StopInv, PumpInv, StopJoinsDistribution
  <1>1. UNCHANGED <<runPc, distPc, ready>>
    BY DEF StopStep, StopCheck, StopEnter, StopSetStopped, StopCloseDone, StopCloseSend,
           StopSnapshot, StopConn, StopJoined, StopTimeout, StopReturn
  <1>2. \A j \in Stoppers \ {k} : stopPc'[j] = stopPc[j]
    BY DEF StopStep, StopCheck, StopEnter, StopSetStopped, StopCloseDone, StopCloseSend,
           StopSnapshot, StopConn, StopJoined, StopTimeout, StopReturn, stopGoto, TypeOK,
           PcTypes
  <1>3. CASE StopCheck(k)
    <2>1. stopPc'[k] \in {"enter", "returned"} /\ UNCHANGED <<once, timedOut>>
      BY <1>3 DEF StopCheck, stopGoto, TypeOK, PcTypes
    <2> QED
      BY <1>1, <1>2, <2>1
  <1>4. CASE StopEnter(k)
    <2>1. ready /\ once' # "free" /\ UNCHANGED timedOut /\ (once' = "done" => once = "done")
      BY <1>4 DEF StopEnter, TypeOK, PcTypes
    <2> QED
      BY <1>1, <2>1
  <1>5. CASE StopSetStopped(k) \/ StopCloseDone(k) \/ StopCloseSend(k) \/ StopSnapshot(k)
             \/ StopConn(k)
    <2>1. once # "free" /\ UNCHANGED <<once, timedOut>>
      BY <1>5 DEF StopSetStopped, StopCloseDone, StopCloseSend, StopSnapshot, StopConn
    <2> QED
      BY <1>1, <2>1
  <1>6. CASE StopJoined(k) \/ StopTimeout(k)
    <2>1. ready /\ once' = "done" /\ distPc # "off"
      BY <1>6 DEF StopJoined, StopTimeout, StopReturn
    <2>2. timedOut' \/ distPc = "ended"
      BY <1>6, <2>1 DEF StopJoined, StopTimeout, GroupIdle
    <2> QED
      BY <1>1, <2>1, <2>2
  <1> QED
    BY <1>3, <1>4, <1>5, <1>6 DEF StopStep

\* Every step keeps the pump joined.
LEMMA StopNext == ClientInv /\ [Next]_vars => StopInv'
  <1> SUFFICES ASSUME ClientInv, [Next]_vars PROVE StopInv'
    OBVIOUS
  <1> USE DEF ClientInv, StopInv, PumpInv, StopJoinsDistribution
  <1>1. CASE UNCHANGED vars
    BY <1>1
  <1>2. CASE DistStep
    <2>1. distPc \notin {"off", "ended"} /\ distPc' # "off"
          /\ UNCHANGED <<runPc, ready, once, timedOut, stopPc>>
      BY <1>2 DEF DistStep, DistCheck, DistReceive, DistDone, DistCopy, DistNext, DistSend
    <2> QED
      BY <2>1
  <1>3. CASE HubClose \/ HubStop
    <2>1. /\ \A k \in Stoppers : stopPc'[k] = stopPc[k] \/ stopPc'[k] = "check"
          /\ UNCHANGED <<runPc, distPc, ready, once, timedOut>>
      BY <1>3 DEF HubClose, HubStop, stopGoto, TypeOK, PcTypes
    <2> QED
      BY <2>1
  <1>4. ASSUME NEW c \in Conns, AddStep(c) \/ PumpEnd(c) \/ RemoveStep(c)
        PROVE  StopInv'
    <2>1. stopPc' = [stopPc EXCEPT ![c] = "check"] \/ UNCHANGED stopPc
      BY <1>4 DEF AddStep, AddCheck, AddToMap, PumpEnd, RemoveStep, RemoveCheck,
                  RemoveUnlink, RemoveCount, RemoveStop
    <2>2. UNCHANGED <<runPc, distPc, ready, once, timedOut>>
      BY <1>4 DEF AddStep, AddCheck, AddToMap, PumpEnd, RemoveStep, RemoveCheck,
                  RemoveUnlink, RemoveCount, RemoveStop
    <2>3. \A k \in Stoppers : stopPc'[k] = stopPc[k] \/ stopPc'[k] = "check"
      BY <2>1 DEF TypeOK, PcTypes
    <2> QED
      BY <2>2, <2>3
  <1>5. ASSUME NEW s \in Senders, SendStep(s)
        PROVE  StopInv'
    <2>1. UNCHANGED <<runPc, distPc, ready, once, timedOut, stopPc>>
      BY <1>5 DEF SendStep, SendCheck, SendEnqueue, SendPanic, SendDrop
    <2> QED
      BY <2>1
  <1> QED
    BY <1>1, <1>2, <1>3, <1>4, <1>5, StopRun, StopStop DEF Next

-----------------------------------------------------------------------------
(* What the connections are given.                                         *)

\* What was given stays right while the queue, the pump's event and what it still
\* has to give are left alone, whatever becomes of the connections.
LEMMA DistKept ==
  ASSUME ClientInv, UNCHANGED <<queue, enqueued, event, targets, got>>,
         conns' \subseteq conns, connDone \subseteq connDone', isStopped => isStopped',
         \A c \in Conns : addPc[c] = "added" => addPc'[c] = "added",
         distPc' = distPc \/ (distPc = "off" /\ distPc' = "loop")
  PROVE  DistInv'
  <1> USE DEF ClientInv, DistInv, TypeOK, PcTypes, DataTypes
  <1>1. QueueInv'
    BY DEF QueueInv, Taken
  <1>2. AddedInv'
    BY DEF AddedInv
  <1>3. \A c \in Conns : Waits(c)' <=> Waits(c)
    BY DEF Waits
  <1>4. GotInv'
    BY <1>3 DEF GotInv, EndsAt, Taken
  <1> QED
    BY <1>1, <1>2, <1>4

\* An event goes to the end of sendCh: it has the number that comes next there.
LEMMA DistEnqueue ==
  ASSUME ClientInv, NEW s \in Senders, SendEnqueue(s)
  PROVE  DistInv'
  <1> USE DEF ClientInv, DistInv
  <1>0. /\ queue \in Seq(Nat) /\ enqueued \in Nat /\ event \in Nat
        /\ addPc \in [Conns -> {"idle", "add", "added", "rejected"}]
        /\ got \in [Conns -> Seq(Nat)] /\ conns \subseteq Conns /\ targets \subseteq Conns
    BY DEF TypeOK, PcTypes, DataTypes
  <1>1. /\ queue' = Append(queue, enqueued + 1) /\ enqueued' = enqueued + 1
        /\ UNCHANGED <<isStopped, distPc, event, targets, got, conns, connDone, addPc>>
    BY DEF SendEnqueue
  <1>2. /\ Len(queue) \in Nat /\ enqueued \in Nat /\ Len(queue') = Len(queue) + 1
        /\ \A i \in 1..Len(queue) : queue'[i] = queue[i]
        /\ queue'[Len(queue) + 1] = enqueued + 1
    BY <1>0, <1>1
  <1>3. Taken' = Taken /\ Taken \in Int
    BY <1>1, <1>2 DEF Taken
  <1>4. QueueInv'
    <2>1. Len(queue') <= enqueued'
      BY <1>1, <1>2 DEF QueueInv
    <2>2. ASSUME NEW i \in 1..Len(queue') PROVE queue'[i] = Taken' + i
      <3>1. CASE i \in 1..Len(queue)
        BY <1>2, <1>3, <3>1 DEF QueueInv
      <3>2. CASE i = Len(queue) + 1
        BY <1>2, <1>3, <3>2 DEF Taken
      <3> QED
        BY <1>2, <3>1, <3>2
    <2> QED
      BY <1>1, <1>3, <2>1, <2>2 DEF QueueInv
  <1>5. AddedInv'
    BY <1>1 DEF AddedInv
  <1>6. \A c \in Conns : Waits(c)' <=> Waits(c)
    BY <1>1 DEF Waits
  <1>7. GotInv'
    BY <1>0, <1>1, <1>3, <1>6 DEF GotInv, EndsAt
  <1> QED
    BY <1>4, <1>5, <1>7

\* The pump takes the head of sendCh: now everybody waits for it.
LEMMA DistTakes ==
  ASSUME ClientInv, DistReceive
  PROVE  DistInv'
  <1> USE DEF ClientInv, DistInv
  <1>0. /\ queue \in Seq(Nat) /\ enqueued \in Nat /\ event \in Nat
        /\ addPc \in [Conns -> {"idle", "add", "added", "rejected"}]
        /\ got \in [Conns -> Seq(Nat)] /\ conns \subseteq Conns /\ targets \subseteq Conns
    BY DEF TypeOK, PcTypes, DataTypes
  <1>1. /\ distPc = "select" /\ distPc' = "copy" /\ queue # <<>>
        /\ event' = Head(queue) /\ queue' = Tail(queue)
        /\ UNCHANGED <<isStopped, enqueued, targets, got, conns, connDone, addPc>>
    BY DEF DistReceive
  <1>2. /\ Len(queue) \in Nat \ {0} /\ enqueued \in Nat /\ Len(queue') = Len(queue) - 1
        /\ \A i \in 1..Len(queue') : queue'[i] = queue[i + 1]
        /\ event' = queue[1]
    <2>1. Len(queue) \in Nat \ {0}
      BY <1>0, <1>1, EmptySeq
    <2>2. /\ Len(Tail(queue)) = Len(queue) - 1
          /\ \A i \in 1..Len(Tail(queue)) : Tail(queue)[i] = queue[i + 1]
      BY <1>0, <1>1, HeadTailProperties
    <2>3. Head(queue) = queue[1]
      BY <1>0, <1>1
    <2> QED
      BY <1>0, <1>1, <2>1, <2>2, <2>3
  <1>3. Taken' = Taken + 1 /\ Taken \in Nat
    <2>1. Len(queue) <= enqueued
      BY DEF QueueInv
    <2> QED
      BY <1>1, <1>2, <2>1 DEF Taken
  <1>4. QueueInv'
    <2>1. event' = Taken' /\ Taken' >= 1
      BY <1>2, <1>3 DEF QueueInv
    <2>2. ASSUME NEW i \in 1..Len(queue') PROVE queue'[i] = Taken' + i
      <3>1. i + 1 \in 1..Len(queue) /\ queue[i + 1] = Taken + (i + 1)
        BY <1>2 DEF QueueInv
      <3> QED
        BY <1>2, <1>3, <3>1
    <2>3. Len(queue') <= enqueued'
      BY <1>1, <1>2 DEF QueueInv
    <2> QED
      BY <2>1, <2>2, <2>3 DEF QueueInv
  <1>5. AddedInv'
    BY <1>1 DEF AddedInv
  <1>6. \A c \in Conns : ~Waits(c) /\ Waits(c)'
    BY <1>1 DEF Waits
  <1>7. Taken' - 1 = Taken
    BY <1>3
  <1>8. GotInv'
    BY <1>0, <1>1, <1>6, <1>7 DEF GotInv, EndsAt
  <1> QED
    BY <1>4, <1>5, <1>8

\* The pump gives its event to one connection, which waits no longer.
LEMMA DistGives ==
  ASSUME ClientInv, DistSend
  PROVE  DistInv'
  <1> USE DEF ClientInv, DistInv
  <1>0. /\ queue \in Seq(Nat) /\ enqueued \in Nat /\ event \in Nat
        /\ addPc \in [Conns -> {"idle", "add", "added", "rejected"}]
        /\ got \in [Conns -> Seq(Nat)] /\ conns \subseteq Conns /\ targets \subseteq Conns
    BY DEF TypeOK, PcTypes, DataTypes
  <1>1. /\ distPc = "send" /\ distPc' = "next"
        /\ UNCHANGED <<isStopped, queue, enqueued, event, conns, connDone, addPc>>
    BY DEF DistSend
  <1>2. PICK d \in targets :
            /\ targets' = targets \ {d}
            /\ got' = IF d \in connDone THEN got ELSE [got EXCEPT ![d] = Append(@, event)]
    BY DEF DistSend
  <1>3. d \in Conns /\ addPc[d] = "added" /\ event = Taken /\ Taken \in Nat \ {0}
        /\ Taken' = Taken
    <2>1. Len(queue) \in Nat
      BY <1>0
    <2> QED
      BY <1>0, <1>1, <1>2, <2>1 DEF AddedInv, QueueInv, Taken
  <1>4. QueueInv'
    BY <1>1, <1>3 DEF QueueInv
  <1>5. AddedInv'
    BY <1>1, <1>2, <1>3 DEF AddedInv
  <1>6. \A c \in Conns \ {d} : got'[c] = got[c] /\ (Waits(c)' <=> Waits(c))
    BY <1>1, <1>2, <1>3 DEF Waits
  <1>7. Waits(d) /\ ~Waits(d)'
    BY <1>1, <1>2 DEF Waits
  <1>8. ASSUME ~isStopped, d \in conns \ connDone
        PROVE  EndsAt(got'[d], Taken)
    <2> DEFINE s == got[d]
    <2>1. s \in Seq(Nat) /\ EndsAt(s, Taken - 1) /\ got'[d] = Append(s, Taken)
      BY <1>0, <1>2, <1>3, <1>7, <1>8 DEF GotInv
    <2> HIDE DEF s
    <2>2. /\ Len(s) \in Nat /\ Len(Append(s, Taken)) = Len(s) + 1
          /\ \A i \in 1..Len(s) : Append(s, Taken)[i] = s[i]
          /\ Append(s, Taken)[Len(s) + 1] = Taken
      BY <1>3, <2>1
    <2>3. ASSUME NEW i \in 1..(Len(s) + 1)
          PROVE  Append(s, Taken)[i] = Taken - (Len(s) + 1) + i
      <3>1. CASE i \in 1..Len(s)
        <4>1. s[i] = (Taken - 1) - Len(s) + i
          BY <2>1, <3>1 DEF EndsAt
        <4> QED
          BY <1>3, <2>2, <3>1, <4>1
      <3>2. CASE i = Len(s) + 1
        BY <1>3, <2>2, <3>2
      <3> QED
        BY <2>2, <3>1, <3>2
    <2> QED
      BY <2>1, <2>2, <2>3 DEF EndsAt
  <1>9. GotInv'
    <2> SUFFICES ASSUME ~isStopped, NEW c \in conns \ connDone
                 PROVE  EndsAt(got'[c], IF Waits(c)' THEN Taken - 1 ELSE Taken)
      BY <1>1, <1>3 DEF GotInv, EndsAt
    <2>1. CASE c = d
      BY <1>7, <1>8, <2>1
    <2>2. CASE c # d
      BY <1>0, <1>6, <2>2 DEF GotInv
    <2> QED
      BY <2>1, <2>2
  <1> QED
    BY <1>4, <1>5, <1>9

\* The other steps of the pump.
LEMMA DistGoes ==
  ASSUME ClientInv, DistCheck \/ DistDone \/ DistCopy \/ DistNext
  PROVE  DistInv'
  <1> USE DEF ClientInv, DistInv
  <1>0. /\ queue \in Seq(Nat) /\ enqueued \in Nat /\ event \in Nat
        /\ addPc \in [Conns -> {"idle", "add", "added", "rejected"}]
        /\ got \in [Conns -> Seq(Nat)] /\ conns \subseteq Conns /\ targets \subseteq Conns
    BY DEF TypeOK, PcTypes, DataTypes
  <1>1. UNCHANGED <<isStopped, queue, enqueued, event, got, conns, connDone, addPc>>
    BY DEF DistCheck, DistDone, DistCopy, DistNext
  <1>2. /\ distPc # "off" /\ distPc' # "off"
        /\ distPc' \in {"copy", "next", "send"} => distPc \in {"copy", "next", "send"}
        /\ targets' \in {targets, conns}
    BY DEF DistCheck, DistDone, DistCopy, DistNext
  <1>3. QueueInv' /\ AddedInv'
    BY <1>1, <1>2 DEF QueueInv, AddedInv, Taken
  <1>4. ~isStopped => \A c \in conns : Waits(c)' <=> Waits(c)
    BY DEF DistCheck, DistDone, DistCopy, DistNext, Waits
  <1>5. GotInv'
    BY <1>1, <1>4 DEF GotInv, EndsAt, Taken
  <1> QED
    BY <1>3, <1>5

\* A connection that is added was given nothing yet.
LEMMA DistAdds ==
  ASSUME ClientInv, NEW d \in Conns, AddToMap(d)
  PROVE  DistInv'
  <1> USE DEF ClientInv, DistInv
  <1>0. /\ queue \in Seq(Nat) /\ enqueued \in Nat /\ event \in Nat
        /\ addPc \in [Conns -> {"idle", "add", "added", "rejected"}]
        /\ got \in [Conns -> Seq(Nat)] /\ conns \subseteq Conns /\ targets \subseteq Conns
    BY DEF TypeOK, PcTypes, DataTypes
  <1>1. /\ conns' = conns \cup {d} /\ addPc[d] = "add"
        /\ addPc' = [addPc EXCEPT ![d] = "added"]
        /\ UNCHANGED <<isStopped, distPc, queue, enqueued, event, targets, got, connDone>>
    BY DEF AddToMap, addGoto
  <1>2. got[d] = <<>> /\ Len(got[d]) = 0
    BY <1>1, EmptySeq DEF AddedInv
  <1>3. QueueInv' /\ AddedInv'
    <2>1. QueueInv'
      BY <1>1 DEF QueueInv, Taken
    <2>2. \A c \in Conns : addPc'[c] = IF c = d THEN "added" ELSE addPc[c]
      BY <1>0, <1>1
    <2>3. AddedInv'
      BY <1>1, <2>2 DEF AddedInv
    <2> QED
      BY <2>1, <2>3
  <1>4. \A n \in Int : EndsAt(got[d], n)
    BY <1>2 DEF EndsAt
  <1>5. \A c \in Conns : Waits(c)' <=> Waits(c)
    BY <1>1 DEF Waits
  <1>6. GotInv'
    <2>1. Taken' = Taken /\ Taken \in Int
      BY <1>0, <1>1 DEF Taken
    <2> SUFFICES ASSUME ~isStopped, NEW c \in conns' \ connDone
                 PROVE  EndsAt(got[c], IF Waits(c) THEN Taken - 1 ELSE Taken)
      BY <1>0, <1>1, <1>5, <2>1 DEF GotInv, EndsAt
    <2>2. CASE c = d
      BY <1>4, <2>1, <2>2
    <2>3. CASE c # d
      BY <1>1, <2>3 DEF GotInv
    <2> QED
      BY <2>2, <2>3
  <1> QED
    BY <1>3, <1>6

\* Every step keeps what the connections were given right.
LEMMA DistNextStep == ClientInv /\ [Next]_vars => DistInv'
  <1> SUFFICES ASSUME ClientInv, [Next]_vars PROVE DistInv'
    OBVIOUS
  <1> USE DEF ClientInv
  <1>1. CASE UNCHANGED vars
    BY <1>1, DistKept
  <1>2. CASE RunStep
    <2>1. /\ UNCHANGED <<isStopped, queue, enqueued, event, targets, got, conns, connDone, addPc>>
          /\ distPc' = distPc \/ (distPc = "off" /\ distPc' = "loop")
      BY <1>2 DEF RunStep, RunStart, RunCheck, RunSpawn, RunReady, RunAwait, RunLeave,
                  StopInv, PumpInv
    <2> QED
      BY <2>1, DistKept
  <1>3. CASE DistStep
    BY <1>3, DistTakes, DistGives, DistGoes DEF DistStep
  <1>4. CASE HubClose \/ HubStop
    <2>1. UNCHANGED <<isStopped, queue, enqueued, event, targets, got, conns, connDone, addPc,
                      distPc>>
      BY <1>4 DEF HubClose, HubStop
    <2> QED
      BY <2>1, DistKept
  <1>5. ASSUME NEW k \in Stoppers, StopStep(k) PROVE DistInv'
    <2>1. /\ UNCHANGED <<queue, enqueued, event, targets, got, conns, addPc, distPc>>
          /\ connDone \subseteq connDone' /\ (isStopped' = isStopped \/ isStopped' = TRUE)
      BY <1>5 DEF StopStep, StopCheck, StopEnter, StopSetStopped, StopCloseDone,
           StopCloseSend, StopSnapshot, StopConn, StopJoined, StopTimeout, StopReturn
    <2> QED
      BY <2>1, DistKept
  <1>6. ASSUME NEW c \in Conns, AddStep(c) PROVE DistInv'
    <2>1. CASE AddCheck(c)
      BY <2>1, DistKept DEF AddCheck, addGoto
    <2> QED
      BY <1>6, <2>1, DistAdds DEF AddStep
  <1>7. ASSUME NEW c \in Conns, PumpEnd(c) \/ RemoveStep(c) PROVE DistInv'
    <2>1. /\ UNCHANGED <<isStopped, queue, enqueued, event, targets, got, addPc, distPc>>
          /\ connDone \subseteq connDone' /\ conns' \subseteq conns
      BY <1>7 DEF PumpEnd, RemoveStep, RemoveCheck, RemoveUnlink, RemoveCount, RemoveStop
    <2> QED
      BY <2>1, DistKept
  <1>8. ASSUME NEW s \in Senders, SendStep(s) PROVE DistInv'
    <2>1. CASE SendCheck(s) \/ SendPanic(s) \/ SendDrop(s)
      <3>1. UNCHANGED <<isStopped, queue, enqueued, event, targets, got, conns, connDone,
                        addPc, distPc>>
        BY <2>1 DEF SendCheck, SendPanic, SendDrop
      <3> QED
        BY <3>1, DistKept
    <2> QED
      BY <1>8, <2>1, DistEnqueue DEF SendStep
  <1> QED
    BY <1>1, <1>2, <1>3, <1>4, <1>5, <1>6, <1>7, <1>8 DEF Next

-----------------------------------------------------------------------------
(* What the hub sees: the body of stopOnce and Run.                        *)

\* Run and the hub are no connections.
LEMMA StopperNames ==
  /\ "run" \in Stoppers /\ "hub" \in Stoppers /\ Conns \subseteq Stoppers
  /\ \A c \in Conns : c # "run" /\ c # "hub"
  BY ClientAssumption DEF Stoppers

\* The initial states satisfy the invariant.
LEMMA HubStart == Init => HubInv
  BY DEF Init, HubInv, OnceInv, RunInv, InBody

\* A step that at most has one stopper, not in the body, begin its Stop.
LEMMA HubKept ==
  ASSUME ClientInv, HubInv,
         UNCHANGED <<isRunning, isStopped, doneClosed, once, runPc>>,
         \A k \in Stoppers : stopPc'[k] = stopPc[k] \/ stopPc'[k] = "check"
  PROVE  HubInv'
  <1>1. \A k \in Stoppers : InBody(k)' => InBody(k) /\ stopPc'[k] = stopPc[k]
    BY DEF InBody
  <1>2. OnceInv'
    BY <1>1 DEF HubInv, OnceInv
  <1>3. RunInv'
    BY StopperNames DEF HubInv, RunInv
  <1> QED
    BY <1>2, <1>3 DEF HubInv

\* A step of Run: the client is not stopped before Run is ready, and Run leaves only
\* when its own Stop has returned.
LEMMA HubRuns == ASSUME ClientInv, HubInv, RunStep PROVE HubInv'
  <1> USE DEF ClientInv, StopInv, PumpInv, TypeOK, PcTypes
  <1>1. UNCHANGED <<isStopped, doneClosed, once>>
    BY DEF RunStep, RunStart, RunCheck, RunSpawn, RunReady, RunAwait, RunLeave
  <1>2. \A k \in Stoppers : stopPc'[k] = stopPc[k] \/ stopPc'[k] = "check"
    <2>1. stopPc' = [stopPc EXCEPT !["run"] = "check"] \/ UNCHANGED stopPc
      BY DEF RunStep, RunStart, RunCheck, RunSpawn, RunReady, RunAwait, RunLeave
    <2> QED
      BY <2>1
  <1>3. \A k \in Stoppers : InBody(k)' => InBody(k) /\ stopPc'[k] = stopPc[k]
    BY <1>2 DEF InBody
  <1>4. OnceInv'
    BY <1>1, <1>3 DEF HubInv, OnceInv
  <1>5. RunInv'
    <2>1. CASE RunStart \/ RunSpawn \/ RunReady
      BY <1>1, <2>1 DEF RunStart, RunSpawn, RunReady, HubInv, RunInv
    <2>2. CASE RunCheck
      <3>1. ~isStopped
        BY <2>2 DEF RunCheck, HubInv, OnceInv
      <3> QED
        BY <1>1, <2>2, <3>1 DEF RunCheck, HubInv, RunInv
    <2>3. CASE RunAwait
      <3>1. stopPc'["run"] = "check" /\ runPc' = "stopping" /\ UNCHANGED isRunning
            /\ runPc = "await"
        BY <2>3, StopperNames DEF RunAwait
      <3> QED
        BY <1>1, <3>1 DEF HubInv, RunInv
    <2>4. CASE RunLeave
      BY <1>1, <2>4 DEF RunLeave, HubInv, RunInv
    <2> QED
      BY <2>1, <2>2, <2>3, <2>4 DEF RunStep
  <1> QED
    BY <1>4, <1>5 DEF HubInv

\* A step of Stop: who comes second leaves when the body is over.
LEMMA HubStopStep ==
  ASSUME ClientInv, HubInv, NEW k \in Stoppers, StopStep(k)
  PROVE  HubInv'
  <1> USE DEF ClientInv, TypeOK, PcTypes
  <1>1. UNCHANGED <<isRunning, runPc>>
    BY DEF StopStep, StopCheck, StopEnter, StopSetStopped, StopCloseDone, StopCloseSend,
           StopSnapshot, StopConn, StopJoined, StopTimeout, StopReturn
  <1>2. \A j \in Stoppers \ {k} : stopPc'[j] = stopPc[j] /\ (InBody(j)' <=> InBody(j))
    BY DEF StopStep, StopCheck, StopEnter, StopSetStopped, StopCloseDone, StopCloseSend,
           StopSnapshot, StopConn, StopJoined, StopTimeout, StopReturn, stopGoto, InBody
  <1>3. CASE StopCheck(k)
    <2>1. ~InBody(k)' /\ UNCHANGED <<isStopped, doneClosed, once>>
          /\ (stopPc'[k] = "returned" => ~isRunning)
      BY <1>3 DEF StopCheck, stopGoto, InBody
    <2>2. OnceInv'
      BY <1>2, <2>1 DEF HubInv, OnceInv, InBody
    <2>3. RunInv'
      BY <1>1, <1>2, <2>1, StopperNames DEF HubInv, RunInv
    <2> QED
      BY <2>2, <2>3 DEF HubInv
  <1>4. CASE StopEnter(k) /\ once = "free"
    <2>1. stopPc'[k] = "setStopped" /\ once' = "running"
          /\ UNCHANGED <<isStopped, doneClosed>>
      BY <1>4 DEF StopEnter, stopGoto
    <2>2. \A j \in Stoppers : ~InBody(j)
      BY <1>4 DEF HubInv, OnceInv
    <2>3. OnceInv'
      BY <1>2, <1>4, <2>1, <2>2 DEF HubInv, OnceInv
    <2>4. RunInv'
      BY <1>1, <1>2, <1>4, <2>1, StopperNames DEF HubInv, RunInv
    <2> QED
      BY <2>3, <2>4 DEF HubInv
  <1>5. CASE StopEnter(k) /\ once # "free"
    <2>1. stopPc'[k] = "returned" /\ once = "done" /\ ~InBody(k)'
          /\ UNCHANGED <<isStopped, doneClosed, once>>
      BY <1>5 DEF StopEnter, stopGoto, InBody
    <2> QED
      BY <1>1, <1>2, <2>1 DEF HubInv, OnceInv, RunInv
  <1>6. CASE \/ StopSetStopped(k) \/ StopCloseDone(k) \/ StopCloseSend(k)
             \/ StopSnapshot(k) \/ StopConn(k)
    <2>1. InBody(k) /\ InBody(k)' /\ stopPc'[k] # "setStopped" /\ UNCHANGED once
          /\ isStopped' /\ once = "running"
      BY <1>6 DEF StopSetStopped, StopCloseDone, StopCloseSend, StopSnapshot, StopConn,
         stopGoto, InBody, HubInv, OnceInv
    <2>2. OnceInv'
      BY <1>2, <2>1 DEF HubInv, OnceInv
    <2>3. RunInv'
      BY <1>1, <1>2, <2>1, StopperNames DEF HubInv, RunInv, InBody
    <2> QED
      BY <2>2, <2>3 DEF HubInv
  <1>7. CASE StopJoined(k) \/ StopTimeout(k)
    <2>1. InBody(k) /\ stopPc[k] # "setStopped" /\ ~InBody(k)' /\ once' = "done"
          /\ UNCHANGED <<isStopped, doneClosed>>
      BY <1>7 DEF StopJoined, StopTimeout, StopReturn, stopGoto, InBody
    <2>2. \A j \in Stoppers : ~InBody(j)'
      BY <1>2, <2>1 DEF HubInv, OnceInv
    <2>3. OnceInv'
      BY <2>1, <2>2 DEF HubInv, OnceInv
    <2>4. RunInv'
      BY <1>1, <2>1 DEF HubInv, RunInv
    <2> QED
      BY <2>3, <2>4 DEF HubInv
  <1> QED
    BY <1>3, <1>4, <1>5, <1>6, <1>7 DEF StopStep

\* What the other goroutines leave alone.
LEMMA HubAside ==
  ASSUME ClientInv,
         \/ DistStep
         \/ \E c \in Conns : AddStep(c) \/ PumpEnd(c) \/ RemoveStep(c)
         \/ \E s \in Senders : SendStep(s)
  PROVE  /\ UNCHANGED <<isRunning, isStopped, ready, doneClosed, once, hubDone, runPc>>
         /\ \A k \in Stoppers : stopPc'[k] = stopPc[k] \/ stopPc'[k] = "check"
         /\ stopPc'["hub"] = stopPc["hub"]
  <1>1. CASE DistStep
    BY <1>1 DEF DistStep, DistCheck, DistReceive, DistDone, DistCopy, DistNext, DistSend
  <1>2. ASSUME NEW c \in Conns, AddStep(c) \/ PumpEnd(c) \/ RemoveStep(c)
        PROVE  /\ UNCHANGED <<isRunning, isStopped, ready, doneClosed, once, hubDone,
                              runPc>>
               /\ \A k \in Stoppers : stopPc'[k] = stopPc[k] \/ stopPc'[k] = "check"
               /\ stopPc'["hub"] = stopPc["hub"]
    <2>1. stopPc' = [stopPc EXCEPT ![c] = "check"] \/ UNCHANGED stopPc
      BY <1>2 DEF AddStep, AddCheck, AddToMap, PumpEnd, RemoveStep, RemoveCheck,
                  RemoveUnlink, RemoveCount, RemoveStop
    <2>2. UNCHANGED flags /\ UNCHANGED runPc
      BY <1>2 DEF AddStep, AddCheck, AddToMap, PumpEnd, RemoveStep, RemoveCheck,
                  RemoveUnlink, RemoveCount, RemoveStop
    <2>3. c # "hub" /\ "hub" \in Stoppers
      BY StopperNames
    <2> QED
      BY <2>1, <2>2, <2>3 DEF ClientInv, TypeOK, PcTypes
  <1>3. ASSUME NEW s \in Senders, SendStep(s)
        PROVE  UNCHANGED <<flags, runPc, stopPc>>
    BY <1>3 DEF SendStep, SendCheck, SendEnqueue, SendPanic, SendDrop
  <1> QED
    BY <1>1, <1>2, <1>3

\* Every step preserves the invariant.
LEMMA HubNextStep == ClientInv /\ HubInv /\ [Next]_vars => HubInv'
  <1> SUFFICES ASSUME ClientInv, HubInv, [Next]_vars PROVE HubInv'
    OBVIOUS
  <1>1. CASE RunStep
    BY <1>1, HubRuns
  <1>2. CASE \E k \in Stoppers : StopStep(k)
    BY <1>2, HubStopStep
  <1>3. CASE HubClose \/ HubStop
    <2>1. /\ UNCHANGED <<isRunning, isStopped, doneClosed, once, runPc>>
          /\ \A k \in Stoppers : stopPc'[k] = stopPc[k] \/ stopPc'[k] = "check"
      BY <1>3 DEF HubClose, HubStop, stopGoto, ClientInv, TypeOK, PcTypes
    <2> QED
      BY <2>1, HubKept
  <1>4. CASE \/ DistStep
             \/ \E c \in Conns : AddStep(c) \/ PumpEnd(c) \/ RemoveStep(c)
             \/ \E s \in Senders : SendStep(s)
    BY <1>4, HubAside, HubKept
  <1>5. CASE UNCHANGED vars
    BY <1>5, HubKept
  <1> QED
    BY <1>1, <1>2, <1>3, <1>4, <1>5 DEF Next

-----------------------------------------------------------------------------
(* The client implements what the hub takes for granted.                   *)

\* A step the hub can see, or none.
HubStep == [Hub!HubClientNext]_Hub!hubClientVars

\* The initial states of the client are initial states for the hub.
LEMMA ForHubStart == Init => Hub!HubClientInit
  BY StopperNames DEF Init, Hub!HubClientInit, RunForHub, StopForHub

\* A step that leaves alone what the hub sees.
LEMMA ForHubStutter ==
  ASSUME UNCHANGED <<RunForHub, isStopped, hubDone, StopForHub>>
  PROVE  HubStep
  BY DEF HubStep, Hub!hubClientVars

\* Run starts, awakes for a reason, and leaves a client that is stopped.
LEMMA ForHubRun == ASSUME ClientInv, HubInv, RunStep PROVE HubStep
  <1>1. UNCHANGED <<isStopped, hubDone>> /\ stopPc'["hub"] = stopPc["hub"]
    BY StopperNames DEF RunStep, RunStart, RunCheck, RunSpawn, RunReady, RunAwait, RunLeave,
       ClientInv, TypeOK, PcTypes
  <1>2. UNCHANGED StopForHub
    BY <1>1 DEF StopForHub
  <1>3. CASE RunStart
    <2>1. RunForHub = "spawned" /\ RunForHub' = "running"
      BY <1>3 DEF RunStart, RunForHub
    <2> QED
      BY <1>1, <1>2, <2>1 DEF HubStep, Hub!HubClientNext, Hub!RunStart
  <1>4. CASE RunCheck \/ RunSpawn \/ RunReady
    <2>1. ~isStopped \/ ~RunCheck
      BY <1>4 DEF RunCheck, HubInv, OnceInv, ClientInv, StopInv, PumpInv
    <2>2. UNCHANGED RunForHub
      BY <1>4, <2>1 DEF RunCheck, RunSpawn, RunReady, RunForHub
    <2> QED
      BY <1>1, <1>2, <2>2, ForHubStutter
  <1>5. CASE RunAwait
    <2>1. RunForHub = "running" /\ RunForHub' = "stopping"
      BY <1>5 DEF RunAwait, RunForHub
    <2>2. isStopped \/ hubDone
      BY <1>5 DEF RunAwait, HubInv, OnceInv
    <2> QED
      BY <1>1, <1>2, <2>1, <2>2 DEF HubStep, Hub!HubClientNext, Hub!RunAwake
  <1>6. CASE RunLeave
    <2>1. runPc = "stopping" /\ stopPc["run"] = "returned" /\ runPc' = "returned"
      BY <1>6 DEF RunLeave, HubInv, RunInv
    <2>2. RunForHub = "stopping" /\ RunForHub' = "leaving"
      BY <2>1 DEF RunForHub
    <2>3. isStopped = TRUE
      BY <2>1 DEF HubInv, RunInv, OnceInv, ClientInv, TypeOK, FlagTypes
    <2> QED
      BY <1>1, <1>2, <2>2, <2>3 DEF HubStep, Hub!HubClientNext, Hub!RunStop
  <1> QED
    BY <1>3, <1>4, <1>5, <1>6 DEF RunStep

\* Stop has its effect where the body sets isStopped, whoever runs it; what the hub
\* sees of its own call besides is that it returns, and by then it had its effect, or
\* it has bailed out of a Run that was not running.
LEMMA ForHubStop ==
  ASSUME ClientInv, HubInv, NEW k \in Stoppers, StopStep(k)
  PROVE  HubStep
  <1> USE DEF ClientInv, TypeOK, PcTypes, FlagTypes
  <1>1. UNCHANGED <<isRunning, hubDone, runPc, RunForHub>>
    BY DEF StopStep, StopCheck, StopEnter, StopSetStopped, StopCloseDone, StopCloseSend,
           StopSnapshot, StopConn, StopJoined, StopTimeout, StopReturn, RunForHub
  <1>2. CASE StopSetStopped(k)
    <2>1. stopPc[k] = "setStopped" /\ stopPc'[k] = "closeDone" /\ isStopped' = TRUE
          /\ \A j \in Stoppers \ {k} : stopPc'[j] = stopPc[j]
      BY <1>2 DEF StopSetStopped, stopGoto
    <2>2. stopPc'["hub"] = stopPc["hub"] \/ k = "hub"
      BY <2>1, StopperNames
    <2>3. UNCHANGED StopForHub
      BY <2>1, <2>2 DEF StopForHub
    <2>4. once = "running" /\ runPc \notin {"start", "check", "spawn", "leave", "returned"}
      BY <2>1 DEF HubInv, OnceInv, RunInv, InBody, StopInv, PumpInv
    <2>5. RunForHub \in {"running", "stopping"}
      BY <2>4 DEF RunForHub
    <2>6. Hub!SelfStop
      BY <1>1, <2>1, <2>3, <2>5 DEF Hub!SelfStop, Hub!ClientStop
    <2> QED
      BY <2>6 DEF HubStep, Hub!HubClientNext
  <1>3. CASE ~StopSetStopped(k)
    <2>1. UNCHANGED isStopped
      BY <1>3 DEF StopStep, StopCheck, StopEnter, StopCloseDone, StopCloseSend,
         StopSnapshot, StopConn, StopJoined, StopTimeout, StopReturn
    <2>2. \A j \in Stoppers \ {k} : stopPc'[j] = stopPc[j]
      BY DEF StopStep, StopCheck, StopEnter, StopSetStopped, StopCloseDone, StopCloseSend,
         StopSnapshot, StopConn, StopJoined, StopTimeout, StopReturn, stopGoto
    <2>3. stopPc[k] \notin {"off", "returned"}
      BY DEF StopStep, StopCheck, StopEnter, StopSetStopped, StopCloseDone, StopCloseSend,
         StopSnapshot, StopConn, StopJoined, StopTimeout
    <2>4. stopPc'[k] # "off"
      BY <1>3, <2>3 DEF StopStep, StopCheck, StopEnter, StopCloseDone, StopCloseSend,
         StopSnapshot, StopConn, StopJoined, StopTimeout, StopReturn, stopGoto
    <2>5. stopPc'[k] = "returned" => isStopped \/ RunForHub \in {"spawned", "leaving"}
      <3>1. CASE StopCheck(k)
        BY <3>1 DEF StopCheck, stopGoto, HubInv, RunInv, RunForHub
      <3>2. CASE StopEnter(k)
        BY <3>2 DEF StopEnter, stopGoto, HubInv, OnceInv
      <3>3. CASE StopJoined(k) \/ StopTimeout(k)
        BY <3>3 DEF StopJoined, StopTimeout, InBody, HubInv, OnceInv
      <3>4. CASE StopCloseDone(k) \/ StopCloseSend(k) \/ StopSnapshot(k) \/ StopConn(k)
        BY <3>4 DEF StopCloseDone, StopCloseSend, StopSnapshot, StopConn, stopGoto
      <3> QED
        BY <1>3, <3>1, <3>2, <3>3, <3>4 DEF StopStep
    <2>6. CASE k = "hub" /\ stopPc'[k] = "returned"
      <3>1. StopForHub = "called" /\ StopForHub' = "returned"
        BY <2>3, <2>6 DEF StopForHub
      <3>2. Hub!HubStopped
        BY <1>1, <2>1, <2>5, <2>6, <3>1 DEF Hub!HubStopped, Hub!ClientStop
      <3> QED
        BY <3>2 DEF HubStep, Hub!HubClientNext
    <2>7. CASE ~(k = "hub" /\ stopPc'[k] = "returned")
      <3>1. UNCHANGED StopForHub
        BY <2>2, <2>3, <2>4, <2>7, StopperNames DEF StopForHub
      <3> QED
        BY <1>1, <2>1, <3>1, ForHubStutter
    <2> QED
      BY <2>6, <2>7
  <1> QED
    BY <1>2, <1>3

\* Every step of the client is a step the hub knows, or one it does not see.
LEMMA ForHubSimulates ==
  ClientInv /\ HubInv /\ [Next]_vars => [Hub!HubClientNext]_Hub!hubClientVars
  <1> SUFFICES ASSUME ClientInv, HubInv, [Next]_vars PROVE HubStep
    BY DEF HubStep
  <1>1. CASE RunStep
    BY <1>1, ForHubRun
  <1>2. CASE \E k \in Stoppers : StopStep(k)
    BY <1>2, ForHubStop
  <1>3. CASE HubClose
    <2>1. hubDone' = TRUE /\ UNCHANGED <<isStopped, RunForHub, StopForHub>>
      BY <1>3 DEF HubClose, RunForHub, StopForHub
    <2> QED
      BY <2>1 DEF HubStep, Hub!HubClientNext, Hub!HubCloses
  <1>4. CASE HubStop
    <2>1. stopPc["hub"] = "off" /\ stopPc'["hub"] = "check"
      BY <1>4, StopperNames DEF HubStop, stopGoto, ClientInv, TypeOK, PcTypes
    <2>2. StopForHub = "none" /\ StopForHub' = "called"
      BY <2>1 DEF StopForHub
    <2>3. UNCHANGED <<isStopped, hubDone, RunForHub>>
      BY <1>4 DEF HubStop, RunForHub
    <2> QED
      BY <2>2, <2>3 DEF HubStep, Hub!HubClientNext, Hub!HubStops
  <1>5. CASE \/ DistStep
             \/ \E c \in Conns : AddStep(c) \/ PumpEnd(c) \/ RemoveStep(c)
             \/ \E s \in Senders : SendStep(s)
    <2>1. UNCHANGED <<isStopped, hubDone, runPc>> /\ stopPc'["hub"] = stopPc["hub"]
      BY <1>5, HubAside
    <2> QED
      BY <2>1, ForHubStutter DEF RunForHub, StopForHub
  <1>6. CASE UNCHANGED vars
    BY <1>6, ForHubStutter DEF RunForHub, StopForHub
  <1> QED
    BY <1>1, <1>2, <1>3, <1>4, <1>5, <1>6 DEF Next

-----------------------------------------------------------------------------
(* The theorems.                                                           *)

\* The invariant is inductive.
LEMMA ClientInduction == Spec => []ClientInv
  <1>1. ClientInv /\ [Next]_vars => ClientInv'
    BY TypeNext, StopNext, DistNextStep DEF ClientInv
  <1> QED
    BY ClientInit, <1>1, PTL DEF Spec

\* Types, and the capacity of sendCh (ClientConfig.SendBufferSize).
THEOREM TypeCorrect == Spec => []TypeOK
  <1>1. ClientInv => TypeOK
    BY DEF ClientInv
  <1> QED
    BY <1>1, ClientInduction, PTL

\* However many callers of Stop race with Run and with each other, a Stop that did
\* not time out has seen the distribution pump end, and none starts after it.
THEOREM PumpIsJoined == Spec => []StopJoinsDistribution
  <1>1. ClientInv => StopJoinsDistribution
    BY DEF ClientInv, StopInv
  <1> QED
    BY <1>1, ClientInduction, PTL

\* For any number of connections, senders and events: between two events every live
\* connection has the events since its first, each once and in order.
THEOREM NobodyMisses == Spec => []NoConnectionMisses
  <1>1. ASSUME ClientInv PROVE NoConnectionMisses
    <2> USE <1>1 DEF ClientInv, DistInv, TypeOK, DataTypes
    <2> SUFFICES ASSUME ~isStopped, distPc \in {"loop", "select"}, NEW c \in conns \ connDone
                 PROVE  \A i \in 1..Len(got[c]) : got[c][i] = Taken - Len(got[c]) + i
      BY DEF NoConnectionMisses, Taken
    <2>1. ~Waits(c)
      BY DEF Waits
    <2> QED
      BY <2>1 DEF GotInv, EndsAt
  <1> QED
    BY <1>1, ClientInduction, PTL
\* client.go implements what WsHub takes for granted of a client, for any connections,
\* senders and callers of Stop: Run returns for a reason and stopped, and Stop has its
\* effect at one moment of the call.
THEOREM ClientImplementsHubClient == Spec => HubClientImplemented
  <1>1. Spec => []HubInv
    BY HubStart, HubNextStep, ClientInduction, PTL DEF Spec
  <1>2. Init => Hub!HubClientInit
    BY ForHubStart
  <1>3. ClientInv /\ HubInv /\ [Next]_vars => [Hub!HubClientNext]_Hub!hubClientVars
    BY ForHubSimulates
  <1> QED
    BY <1>1, <1>2, <1>3, ClientInduction, PTL
    DEF Spec, HubClientImplemented, Hub!HubClientSpec
=============================================================================
