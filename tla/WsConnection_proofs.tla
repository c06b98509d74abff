------------------------ MODULE WsConnection_proofs ------------------------
(***************************************************************************)
(* Theorems about WsConnection, for any set of senders, any capacity of    *)
(* sendCh and any number of sends: the types, that Stop and any number of  *)
(* sends never misuse the channels, that Stop returns with the connection  *)
(* stopped, that nothing accepted is skipped, and that the connection      *)
(* implements WsMailbox.                                                   *)
(***************************************************************************)
EXTENDS WsConnection, SequenceTheorems, TLAPS

-----------------------------------------------------------------------------
(* Types.                                                                  *)

TypeInv == TypeOK /\ SendsCounted

USE DEF Closers, Pumps

\* The initial state has the types.
LEMMA TypeInit == Init => TypeInv
  <1> SUFFICES ASSUME Init PROVE TypeInv
    OBVIOUS
  <1>1. <<>> \in Seq(Events) /\ Len(<<>>) = 0
    BY EmptySeq
  <1>2. 0 \in 0..MaxSends /\ 0 <= Capacity
    BY ConnectionAssumption
  <1>3. spc \in [Senders -> SenderPCs] /\ sends \in [Senders -> 0..MaxSends]
    BY <1>2 DEF Init, SenderPCs
  <1>4. pc \in [Closers -> CloserPCs]
    BY DEF Init, CloserPCs, StopPCs
  <1>5. SendsCounted
    BY DEF Init, SendsCounted
  <1>6. /\ queue \in Seq(Events) /\ Len(queue) <= Capacity
        /\ accepted \in Seq(Events) /\ written \in Seq(Events)
        /\ hand \in Seq(Events) /\ Len(hand) <= 1
    <2>1. queue = <<>> /\ accepted = <<>> /\ written = <<>> /\ hand = <<>>
      BY DEF Init
    <2> QED
      BY ONLY <1>1, <1>2, <2>1, 0 <= 1
  <1> QED
    BY <1>3, <1>4, <1>5, <1>6 DEF Init, TypeOK, TypeInv

\* A step of Connection.Send keeps the types.
LEMMA TypeSender ==
  ASSUME TypeInv, NEW s \in Senders, SenderStep(s)
  PROVE  TypeInv'
  <1> USE ConnectionAssumption
      DEF TypeInv, TypeOK, SendsCounted, SenderPCs, Panics, sGoto,
          flags, channel, group, client, sender, peer
  <1>1. CASE SendCheck(s)
    <2>1. sends' = [sends EXCEPT ![s] = sends[s] + 1] /\ sends[s] < MaxSends
      BY <1>1 DEF SendCheck
    <2>2. sends[s] \in Nat /\ sends[s] + 1 \in 0..MaxSends /\ sends[s] + 1 >= 1
      <3>1. sends[s] \in 0..MaxSends /\ MaxSends \in Nat
        OBVIOUS
      <3> QED
        BY ONLY <2>1, <3>1
    <2>3. sends' \in [Senders -> 0..MaxSends]
      BY <2>1, <2>2
    <2>4. SendsCounted'
      BY <1>1, <2>1, <2>2 DEF SendCheck
    <2>5. spc' \in [Senders -> SenderPCs]
      BY <1>1 DEF SendCheck
    <2> QED
      BY <1>1, <2>3, <2>4, <2>5 DEF SendCheck
  <1>2. CASE SendAdd(s)
    <2>1. inflight' \subseteq Senders
      BY <1>2 DEF SendAdd
    <2> QED
      BY <1>2, <2>1 DEF SendAdd
  <1>3. CASE SendRecheck(s)
    BY <1>3 DEF SendRecheck
  <1>4. CASE SendEnqueue(s)
    <2>1. <<s, sends[s]>> \in Events
      <3>1. spc[s] = "select"
        BY <1>4 DEF SendEnqueue
      <3>2. sends[s] \in 1..MaxSends
        <4>1. sends[s] >= 1 /\ sends[s] \in 0..MaxSends /\ MaxSends \in Nat
          BY <3>1
        <4> QED
          BY ONLY <4>1
      <3> QED
        BY <3>2 DEF Events
    <2>2. CASE sendClosed
      BY <1>4, <2>2 DEF SendEnqueue
    <2>3. CASE ~sendClosed
      <3>1. /\ queue' = Append(queue, <<s, sends[s]>>)
            /\ accepted' = Append(accepted, <<s, sends[s]>>)
            /\ Len(queue) < Capacity
        BY <1>4, <2>3 DEF SendEnqueue
      <3>2. queue' \in Seq(Events) /\ accepted' \in Seq(Events) /\ Len(queue') <= Capacity
        <4>1. /\ Append(queue, <<s, sends[s]>>) \in Seq(Events)
              /\ Len(Append(queue, <<s, sends[s]>>)) = Len(queue) + 1
              /\ Append(accepted, <<s, sends[s]>>) \in Seq(Events)
          BY ONLY TypeInv, <2>1, AppendProperties DEF TypeInv, TypeOK
        <4>2. Len(queue) \in Nat /\ Capacity \in Nat
          BY LenProperties
        <4> QED
          BY ONLY <3>1, <4>1, <4>2
      <3> QED
        BY <1>4, <2>3, <3>2 DEF SendEnqueue
    <2> QED
      BY <2>2, <2>3
  <1>5. CASE SendAbort(s)
    BY <1>5 DEF SendAbort
  <1>6. CASE SendFinish(s)
    BY <1>6 DEF SendFinish
  <1>7. CASE SendRelease(s)
    BY <1>7 DEF SendRelease
  <1> QED
    BY <1>1, <1>2, <1>3, <1>4, <1>5, <1>6, <1>7 DEF SenderStep

\* A step of Connection.Stop keeps the types.
LEMMA TypeStop ==
  ASSUME TypeInv, NEW c \in Closers, StopStep(c)
  PROVE  TypeInv'
  <1> USE DEF TypeInv, TypeOK, SendsCounted, CloserPCs, StopPCs, Panics, goto,
              flags, channel, group, client, sender, peer
  <1>1. CASE StopEnter(c)
    BY <1>1 DEF StopEnter
  <1>2. CASE StopSetDone(c)
    BY <1>2 DEF StopSetDone
  <1>3. CASE StopCloseDone(c)
    BY <1>3 DEF StopCloseDone
  <1>4. CASE StopWait(c)
    BY <1>4 DEF StopWait
  <1>5. CASE StopWake(c)
    BY <1>5 DEF StopWake
  <1>6. CASE StopCloseSend(c)
    BY <1>6 DEF StopCloseSend
  <1>7. CASE StopCloseSock(c)
    BY <1>7 DEF StopCloseSock
  <1> QED
    BY <1>1, <1>2, <1>3, <1>4, <1>5, <1>6, <1>7 DEF StopStep

\* A step of Client.RemoveConnection keeps the types.
LEMMA TypeRemove ==
  ASSUME TypeInv, NEW p \in Pumps, RemoveStep(p)
  PROVE  TypeInv'
  <1> USE DEF TypeInv, TypeOK, SendsCounted, CloserPCs, StopPCs, goto,
              flags, channel, group, client, sender, peer
  <1>1. CASE RemoveCheck(p)
    BY <1>1 DEF RemoveCheck
  <1>2. CASE RemoveUnlink(p)
    BY <1>2 DEF RemoveUnlink
  <1> QED
    BY <1>1, <1>2 DEF RemoveStep

\* A step of the owner keeps the types.
LEMMA TypeOwner ==
  ASSUME TypeInv, OwnerStop \/ OwnerSnapshot
  PROVE  TypeInv'
  <1> USE DEF TypeInv, TypeOK, SendsCounted, CloserPCs, StopPCs, goto,
              flags, channel, group, client, sender, peer
  <1>1. CASE OwnerStop
    BY <1>1 DEF OwnerStop
  <1>2. CASE OwnerSnapshot
    BY <1>2 DEF OwnerSnapshot
  <1> QED
    BY <1>1, <1>2

\* A pump that only moves its program counter keeps the types.
LEMMA TypeGoto ==
  ASSUME TypeInv, NEW l \in CloserPCs, WriterGoto(l) \/ ReaderGoto(l)
  PROVE  TypeInv'
  <1> USE DEF TypeInv, TypeOK, SendsCounted, goto,
              flags, channel, group, client, sender, peer
  <1>1. CASE WriterGoto(l)
    BY <1>1 DEF WriterGoto
  <1>2. CASE ReaderGoto(l)
    BY <1>2 DEF ReaderGoto
  <1> QED
    BY <1>1, <1>2

\* The steps of the write pump that carry no event are such moves ...
LEMMA WriterMoves ==
  ASSUME WriterCheck \/ WriterDrained \/ WriterTick \/ WriterDone
         \/ WriterPing \/ WriterFarewell
  PROVE  \E l \in CloserPCs : WriterGoto(l)
  BY DEF WriterCheck, WriterDrained, WriterTick, WriterDone, WriterPing,
         WriterFarewell, CloserPCs, StopPCs

\* ... and so are all the steps of the read pump.
LEMMA ReaderMoves ==
  ASSUME ReaderStep
  PROVE  \E l \in CloserPCs : ReaderGoto(l)
  BY DEF ReaderStep, ReaderCheck, ReaderPoll, ReaderReceive, ReaderFail,
         ReaderRecheck, ReaderHandle, CloserPCs, StopPCs

\* A stutter keeps the types.
LEMMA TypeStutter ==
  ASSUME TypeInv, UNCHANGED vars
  PROVE  TypeInv'
  BY DEF TypeInv, TypeOK, SendsCounted, vars, flags, channel, group, client,
         sender, peer

\* The steps of the write pump that carry an event keep the types.
LEMMA TypeCarry ==
  ASSUME TypeInv, WriterReceive \/ WriterWrite \/ WriterFail
  PROVE  TypeInv'
  <1> USE DEF TypeInv, TypeOK, SendsCounted, CloserPCs, StopPCs, goto,
              flags, channel, group, client, sender, peer
  <1>1. CASE WriterReceive
    <2>1. /\ Head(queue) \in Events /\ Tail(queue) \in Seq(Events)
          /\ Len(Tail(queue)) <= Capacity
      BY <1>1, HeadTailProperties, ConnectionAssumption DEF WriterReceive
    <2> QED
      BY <1>1, <2>1 DEF WriterReceive
  <1>2. CASE WriterWrite
    <2>1. written \o hand \in Seq(Events)
      BY ConcatProperties
    <2> QED
      BY <1>2, <2>1 DEF WriterWrite
  <1>3. CASE WriterFail
    BY <1>3 DEF WriterFail
  <1> QED
    BY <1>1, <1>2, <1>3

\* Every step keeps the types.
LEMMA TypeNext == TypeInv /\ [Next]_vars => TypeInv'
  BY TypeSender, TypeStop, TypeRemove, TypeOwner, TypeGoto, WriterMoves, ReaderMoves,
     TypeCarry, TypeStutter DEF Next, WriterStep

\* Every variable keeps its type, and sendCh never holds more than its capacity.
THEOREM TypeCorrect == Spec => []TypeOK
  <1>1. Spec => []TypeInv
    BY TypeInit, TypeNext, PTL DEF Spec
  <1> QED
    BY <1>1, PTL DEF TypeInv

-----------------------------------------------------------------------------
(* Stop and Send.                                                          *)

\* The closers that execute the body of stopOnce.
Inside == {"setDone", "closeDone", "wait", "sleep", "closeSend", "closeSock"}

\* At most one closer is in the body, and only while the Once is running.
OnceInv ==
    /\ \A c \in Closers : pc[c] \in Inside => once = "running"
    /\ \A c, d \in Closers : pc[c] \in Inside /\ pc[d] \in Inside => c = d
    /\ \A c \in Closers : pc[c] = "stopped" => once = "done"

\* How far each closer of the connection has come tells what is closed.
ClosedInv ==
    /\ ~sendClosed => sockOpen
    /\ once = "free" => ~isDone /\ ~doneClosed /\ ~sendClosed /\ sockOpen
    /\ once = "done" => isDone /\ doneClosed /\ sendClosed /\ ~sockOpen
    /\ \A c \in Closers :
          /\ pc[c] = "setDone" => ~isDone /\ ~doneClosed /\ ~sendClosed /\ sockOpen
          /\ pc[c] = "closeDone" => isDone /\ ~doneClosed /\ ~sendClosed /\ sockOpen
          /\ pc[c] \in {"wait", "sleep", "closeSend"} =>
                isDone /\ doneClosed /\ ~sendClosed /\ sockOpen
          /\ pc[c] = "closeSock" => isDone /\ doneClosed /\ sendClosed /\ sockOpen

\* Nobody is about to send once Stop has waited: a sender is counted before it
\* looks at isDone a second time, and isDone is set before the count is awaited.
SendInv ==
    /\ \A s \in Senders : spc[s] \in {"recheck", "select", "finish"} => s \in inflight
    /\ Running /\ (sendClosed \/ \E c \in Closers : pc[c] = "closeSend") =>
          isDone /\ \A s \in Senders : spc[s] # "select"

StopInv == OnceInv /\ ClosedInv /\ SendInv /\ ChannelsSafe

\* The initial state satisfies the invariant.
LEMMA StopInit == Init => StopInv
  <1> SUFFICES ASSUME Init PROVE StopInv
    OBVIOUS
  <1>1. \A c \in Closers : pc[c] \in {"idle", "loop"}
    BY DEF Init
  <1>2. \A s \in Senders : spc[s] = "idle"
    BY DEF Init
  <1>3. OnceInv /\ ClosedInv
    BY <1>1 DEF Init, OnceInv, ClosedInv, Inside
  <1>4. SendInv /\ ChannelsSafe
    BY <1>1, <1>2 DEF Init, SendInv, ChannelsSafe
  <1> QED
    BY <1>3, <1>4 DEF StopInv

\* What the invariant speaks of, besides the closers' program counters.
shared == <<isDone, doneClosed, once, sendClosed, sockOpen, spc, inflight, crash>>

\* A goroutine that moves to a place outside of Stop's body keeps the invariant.
LEMMA StopMove ==
  ASSUME TypeInv, StopInv, NEW c \in Closers, NEW l,
         l \notin Inside \cup {"stopped"}, goto(c, l), UNCHANGED shared
  PROVE  StopInv'
  <1>1. pc \in [Closers -> CloserPCs] /\ pc' = [pc EXCEPT ![c] = l]
    BY DEF TypeInv, TypeOK, goto
  <1>2. OnceInv'
    BY <1>1 DEF OnceInv, StopInv, Inside, shared
  <1>3. ClosedInv'
    BY <1>1 DEF ClosedInv, StopInv, Inside, shared
  <1>4. SendInv' /\ ChannelsSafe'
    BY <1>1 DEF SendInv, ChannelsSafe, StopInv, Inside, shared, Running
  <1> QED
    BY <1>2, <1>3, <1>4 DEF StopInv

\* A step of Connection.Send keeps the invariant.  Only SendRecheck puts a sender
\* into the select, and only while isDone is false.
LEMMA StopSender ==
  ASSUME TypeInv, StopInv, NEW s \in Senders, SenderStep(s)
  PROVE  StopInv'
  <1>1. UNCHANGED <<isDone, doneClosed, once, sendClosed, sockOpen, pc>>
    BY DEF SenderStep, SendCheck, SendAdd, SendRecheck, SendEnqueue, SendAbort,
           SendFinish, SendRelease, flags, channel
  <1>2. OnceInv'
    BY <1>1 DEF OnceInv, StopInv
  <1>3. ClosedInv'
    BY <1>1 DEF ClosedInv, StopInv
  <1>4. spc \in [Senders -> SenderPCs]
    BY DEF TypeInv, TypeOK
  <1>5. SendInv' /\ ChannelsSafe'
    <2> USE <1>1, <1>4 DEF StopInv, SendInv, ChannelsSafe, Running, sGoto
    <2>1. CASE SendCheck(s)
      BY <2>1 DEF SendCheck, group
    <2>2. CASE SendAdd(s)
      BY <2>2 DEF SendAdd, group
    <2>3. CASE SendRecheck(s)
      BY <2>3 DEF SendRecheck, group
    <2>4. CASE SendEnqueue(s)
      <3>1. Running /\ spc[s] = "select" /\ UNCHANGED inflight
        BY <2>4 DEF SendEnqueue, group
      <3>2. ~sendClosed
        BY <3>1
      <3>3. crash' = crash /\ spc' = [spc EXCEPT ![s] = "finish"]
        BY <2>4, <3>2 DEF SendEnqueue
      <3> QED
        BY <3>1, <3>3
    <2>5. CASE SendAbort(s)
      BY <2>5 DEF SendAbort, group
    <2>6. CASE SendFinish(s)
      BY <2>6 DEF SendFinish, group
    <2>7. CASE SendRelease(s)
      BY <2>7 DEF SendRelease, group
    <2> QED
      BY <2>1, <2>2, <2>3, <2>4, <2>5, <2>6, <2>7 DEF SenderStep
  <1> QED
    BY <1>2, <1>3, <1>5 DEF StopInv

\* A step of Connection.Stop keeps the invariant.
LEMMA StopStop ==
  ASSUME TypeInv, StopInv, NEW c \in Closers, StopStep(c)
  PROVE  StopInv'
  <1>1. pc \in [Closers -> CloserPCs] /\ spc' = spc /\ inflight' = inflight
    BY DEF TypeInv, TypeOK, StopStep, StopEnter, StopSetDone, StopCloseDone, StopWait,
           StopWake, StopCloseSend, StopCloseSock, sender, group
  <1> USE <1>1 DEF goto, flags, channel
  <1>2. CASE StopEnter(c)
    <2>1. CASE once = "free"
      BY <1>2, <2>1 DEF StopEnter, StopInv, OnceInv, ClosedInv, SendInv, ChannelsSafe,
                        Inside, Running
    <2>2. CASE once # "free"
      <3>1. goto(c, "stopped") /\ UNCHANGED shared /\ once # "running"
        BY <1>2, <2>2 DEF StopEnter, shared, sender, group
      <3>2. once = "done"
        BY <2>2, <3>1 DEF TypeInv, TypeOK
      <3> QED
        BY <3>1, <3>2 DEF StopInv, OnceInv, ClosedInv, SendInv, ChannelsSafe, Inside,
                          Running, shared
    <2> QED
      BY <2>1, <2>2
  <1>3. CASE StopSetDone(c)
    BY <1>3 DEF StopSetDone, StopInv, OnceInv, ClosedInv, SendInv, ChannelsSafe,
                Inside, Running
  <1>4. CASE StopCloseDone(c)
    BY <1>4 DEF StopCloseDone, StopInv, OnceInv, ClosedInv, SendInv, ChannelsSafe,
                Inside, Running
  <1>5. CASE StopWait(c)
    BY <1>5 DEF StopWait, StopInv, OnceInv, ClosedInv, SendInv, ChannelsSafe,
                Inside, Running
  <1>6. CASE StopWake(c)
    BY <1>6 DEF StopWake, StopInv, OnceInv, ClosedInv, SendInv, ChannelsSafe,
                Inside, Running
  <1>7. CASE StopCloseSend(c)
    BY <1>7 DEF StopCloseSend, StopInv, OnceInv, ClosedInv, SendInv, ChannelsSafe,
                Inside, Running
  <1>8. CASE StopCloseSock(c)
    BY <1>8 DEF StopCloseSock, StopInv, OnceInv, ClosedInv, SendInv, ChannelsSafe,
                Inside, Running
  <1> QED
    BY <1>2, <1>3, <1>4, <1>5, <1>6, <1>7, <1>8 DEF StopStep

\* Every other step, and a stutter, moves a closer to a place outside of the body
\* or none.
LEMMA StopOther ==
  ASSUME \/ \E p \in Pumps : RemoveStep(p)
         \/ OwnerStop \/ OwnerSnapshot \/ WriterStep \/ ReaderStep
  PROVE  /\ UNCHANGED shared
         /\ \E c \in Closers : \E l : l \notin Inside \cup {"stopped"} /\ goto(c, l)
  <1> USE DEF shared, flags, channel, group, sender, client, peer, Inside
  <1>1. ASSUME NEW p \in Pumps, RemoveStep(p)
        PROVE  UNCHANGED shared /\ \E l : l \notin Inside \cup {"stopped"} /\ goto(p, l)
    BY <1>1 DEF RemoveStep, RemoveCheck, RemoveUnlink
  <1>2. CASE OwnerStop \/ OwnerSnapshot
    BY <1>2 DEF OwnerStop, OwnerSnapshot
  <1>3. CASE WriterStep
    BY <1>3 DEF WriterStep, WriterCheck, WriterReceive, WriterDrained, WriterTick,
                WriterDone, WriterWrite, WriterFail, WriterPing, WriterFarewell, WriterGoto
  <1>4. CASE ReaderStep
    BY <1>4 DEF ReaderStep, ReaderCheck, ReaderPoll, ReaderReceive, ReaderFail,
                ReaderRecheck, ReaderHandle, ReaderGoto
  <1> QED
    BY <1>1, <1>2, <1>3, <1>4

\* A stutter keeps the invariant.
LEMMA StopStutter ==
  ASSUME StopInv, UNCHANGED vars
  PROVE  StopInv'
  BY DEF StopInv, OnceInv, ClosedInv, SendInv, ChannelsSafe, Running, vars, flags,
         channel, group, sender

\* Every step keeps the invariant of Stop and Send.
LEMMA StopNext == TypeInv /\ StopInv /\ [Next]_vars => StopInv'
  BY StopSender, StopStop, StopOther, StopMove, StopStutter DEF Next

\* The inductive invariant of Stop and Send.
LEMMA StopInvCorrect == Spec => []StopInv
  <1>1. Spec => []TypeInv
    BY TypeInit, TypeNext, PTL DEF Spec
  <1> QED
    BY <1>1, StopInit, StopNext, PTL DEF Spec

\* No send on the closed sendCh and no second close, for any number of senders.
THEOREM ChannelsAreSafe == Spec => []ChannelsSafe
  BY StopInvCorrect, PTL DEF StopInv

\* Whoever's Stop has returned, the connection is stopped and nobody is sending.
THEOREM StopReturnsWithConnectionStopped == Spec => []StopReturnsStopped
  <1>1. StopInv => StopReturnsStopped
    BY DEF StopInv, OnceInv, ClosedInv, SendInv, StopReturnsStopped
  <1> QED
    BY <1>1, StopInvCorrect, PTL

-----------------------------------------------------------------------------
(* What the write pump does with what sendCh took.                         *)

\* The pump holds an event only between receiving and writing it.
FlowInv ==
    /\ NothingSkipped
    /\ pc["writer"] # "write" => hand = <<>>

\* The initial state satisfies the invariant.
LEMMA FlowInit == Init => FlowInv
  <1> SUFFICES ASSUME Init PROVE FlowInv
    OBVIOUS
  <1>1. accepted = <<>> /\ written = <<>> /\ hand = <<>> /\ queue = <<>>
    BY DEF Init
  <1>2. <<>> \o <<>> \o <<>> = <<>>
    OBVIOUS
  <1> QED
    BY <1>1, <1>2 DEF FlowInv, NothingSkipped

\* What sendCh takes goes to the end of what waits in it.
LEMMA FlowEnqueue ==
  ASSUME TypeInv, StopInv, FlowInv, NEW s \in Senders, SendEnqueue(s)
  PROVE  FlowInv'
  <1> DEFINE e == <<s, sends[s]>>
  <1>1. CASE UNCHANGED <<queue, accepted>>
    BY <1>1 DEF SendEnqueue, FlowInv, NothingSkipped, peer
  <1>2. CASE queue' = Append(queue, e) /\ accepted' = Append(accepted, e)
    <2>1. e \in Events
      <3>1. spc[s] = "select"
        BY DEF SendEnqueue
      <3>2. sends[s] >= 1 /\ sends[s] \in 0..MaxSends /\ MaxSends \in Nat
        BY <3>1, ConnectionAssumption DEF TypeInv, TypeOK, SendsCounted
      <3>3. sends[s] \in 1..MaxSends
        BY ONLY <3>2
      <3> QED
        BY <3>3 DEF Events
    <2>2. /\ written \in Seq(Events) /\ hand \in Seq(Events) /\ queue \in Seq(Events)
          /\ accepted \in Seq(Events)
      BY DEF TypeInv, TypeOK
    <2>3. (written \o hand) \o Append(queue, e) = Append((written \o hand) \o queue, e)
      BY ONLY <2>1, <2>2
    <2> QED
      BY <1>2, <2>3 DEF SendEnqueue, FlowInv, NothingSkipped, peer
  <1> QED
    BY <1>1, <1>2 DEF SendEnqueue

\* The steps of the write pump that carry an event pass it on in order.
LEMMA FlowCarry ==
  ASSUME TypeInv, FlowInv, WriterReceive \/ WriterWrite \/ WriterFail
  PROVE  FlowInv'
  <1>1. /\ written \in Seq(Events) /\ hand \in Seq(Events) /\ queue \in Seq(Events)
        /\ pc \in [Closers -> CloserPCs]
    BY DEF TypeInv, TypeOK
  <1>2. CASE WriterReceive
    <2>1. /\ queue # <<>> /\ hand = <<>> /\ accepted = (written \o hand) \o queue
          /\ hand' = <<Head(queue)>> /\ queue' = Tail(queue)
          /\ UNCHANGED <<written, accepted>>
      BY <1>2 DEF WriterReceive, FlowInv, NothingSkipped
    <2>2. (written \o <<>>) \o queue = (written \o <<Head(queue)>>) \o Tail(queue)
      BY ONLY <1>1, <2>1
    <2>3. pc'["writer"] = "write"
      BY <1>1, <1>2 DEF WriterReceive, goto
    <2> QED
      BY <2>1, <2>2, <2>3 DEF FlowInv, NothingSkipped
  <1>3. CASE WriterWrite
    <2>1. /\ accepted = (written \o hand) \o queue
          /\ hand' = <<>> /\ written' = written \o hand
          /\ UNCHANGED <<accepted, queue>>
      BY <1>3 DEF WriterWrite, FlowInv, NothingSkipped, channel
    <2>2. (written \o hand) \o queue = ((written \o hand) \o <<>>) \o queue
      BY ONLY <1>1
    <2> QED
      BY <2>1, <2>2 DEF FlowInv, NothingSkipped
  <1>4. CASE WriterFail
    <2>1. pc'["writer"] = "remove" /\ hand' = <<>>
      BY <1>1, <1>4 DEF WriterFail, goto
    <2> QED
      BY <2>1 DEF FlowInv, NothingSkipped
  <1> QED
    BY <1>2, <1>3, <1>4

\* Every other step leaves the events where they are, and brings the write pump
\* back into its loop only from inside it.
LEMMA FlowOther ==
  ASSUME TypeInv, FlowInv,
         UNCHANGED <<accepted, written, hand, queue>>,
         \/ pc'["writer"] = pc["writer"]
         \/ /\ pc["writer"] # "write" /\ pc'["writer"] # "write"
            /\ \/ pc["writer"] \in {"loop", "select", "ping"}
               \/ pc'["writer"] \notin {"loop", "select", "ping"}
  PROVE  FlowInv'
  BY DEF FlowInv, NothingSkipped

\* Every step keeps the events in order.
LEMMA FlowNext == TypeInv /\ StopInv /\ FlowInv /\ [Next]_vars => FlowInv'
  <1> SUFFICES ASSUME TypeInv, StopInv, FlowInv, [Next]_vars PROVE FlowInv'
    OBVIOUS
  <1>1. pc \in [Closers -> CloserPCs]
    BY DEF TypeInv, TypeOK
  <1>2. ASSUME NEW s \in Senders, SenderStep(s) PROVE FlowInv'
    <2>1. CASE SendEnqueue(s)
      BY <2>1, FlowEnqueue
    <2>2. CASE ~SendEnqueue(s)
      <3>1. UNCHANGED <<accepted, written, hand, queue, pc>>
        BY <1>2, <2>2 DEF SenderStep, SendCheck, SendAdd, SendRecheck, SendAbort,
           SendFinish, SendRelease, channel, peer
      <3> QED
        BY <3>1, FlowOther
    <2> QED
      BY <2>1, <2>2
  <1>3. ASSUME NEW c \in Closers, StopStep(c) PROVE FlowInv'
    <2>1. UNCHANGED <<accepted, written, hand, queue>>
      BY <1>3 DEF StopStep, StopEnter, StopSetDone, StopCloseDone, StopWait, StopWake,
                  StopCloseSend, StopCloseSock, channel, peer
    <2>2. pc[c] \in StopPCs /\ \E l \in StopPCs : goto(c, l)
      BY <1>3 DEF StopStep, StopEnter, StopSetDone, StopCloseDone, StopWait, StopWake,
                  StopCloseSend, StopCloseSock, StopPCs
    <2> QED
      BY <1>1, <2>1, <2>2, FlowOther DEF goto, StopPCs
  <1>4. ASSUME NEW p \in Pumps, RemoveStep(p) PROVE FlowInv'
    <2>1. UNCHANGED <<accepted, written, hand, queue>>
      BY <1>4 DEF RemoveStep, RemoveCheck, RemoveUnlink, channel, peer
    <2>2. /\ pc[p] \in {"remove", "unlink"}
          /\ \E l \in {"unlink", "ended", "stop"} : goto(p, l)
      BY <1>4 DEF RemoveStep, RemoveCheck, RemoveUnlink
    <2> QED
      BY <1>1, <2>1, <2>2, FlowOther DEF goto
  <1>5. CASE OwnerStop \/ OwnerSnapshot
    <2>1. UNCHANGED <<accepted, written, hand, queue>> /\ \E l : goto("owner", l)
      BY <1>5 DEF OwnerStop, OwnerSnapshot, channel, peer
    <2> QED
      BY <1>1, <2>1, FlowOther DEF goto
  <1>6. CASE WriterStep
    <2>1. CASE WriterReceive \/ WriterWrite \/ WriterFail
      BY <2>1, FlowCarry
    <2>2. CASE ~(WriterReceive \/ WriterWrite \/ WriterFail)
      <3>1. UNCHANGED <<accepted, written, hand, queue>>
        BY <1>6, <2>2 DEF WriterStep, WriterCheck, WriterDrained, WriterTick, WriterDone,
           WriterPing, WriterFarewell, WriterGoto, channel, peer
      <3>2. /\ pc["writer"] \in {"loop", "select", "ping", "farewell"}
            /\ \E l \in {"remove", "select", "farewell", "ping", "loop"} :
                  /\ goto("writer", l)
                  /\ pc["writer"] = "farewell" => l = "remove"
        BY <1>6, <2>2 DEF WriterStep, WriterCheck, WriterDrained, WriterTick, WriterDone,
           WriterPing, WriterFarewell, WriterGoto
      <3> QED
        BY <1>1, <3>1, <3>2, FlowOther DEF goto
    <2> QED
      BY <2>1, <2>2
  <1>7. CASE ReaderStep
    <2>1. UNCHANGED <<accepted, written, hand, queue>> /\ \E l : goto("reader", l)
      BY <1>7 DEF ReaderStep, ReaderCheck, ReaderPoll, ReaderReceive, ReaderFail,
                  ReaderRecheck, ReaderHandle, ReaderGoto, channel, peer
    <2> QED
      BY <1>1, <2>1, FlowOther DEF goto
  <1>8. CASE UNCHANGED vars
    BY <1>8, FlowOther DEF vars, channel, peer
  <1> QED
    BY <1>2, <1>3, <1>4, <1>5, <1>6, <1>7, <1>8 DEF Next

\* The inductive invariant of the write pump.
LEMMA FlowInvCorrect == Spec => []FlowInv
  <1>1. Spec => []TypeInv
    BY TypeInit, TypeNext, PTL DEF Spec
  <1> QED
    BY <1>1, StopInvCorrect, FlowInit, FlowNext, PTL DEF Spec

\* While the write pump runs, no event that sendCh took is skipped, for any
\* capacity and any interleaving with Stop.
THEOREM NothingIsSkipped == Spec => []NothingSkipped
  BY FlowInvCorrect, PTL DEF FlowInv

-----------------------------------------------------------------------------
(* One sender does not misuse the WaitGroup.                               *)

\* Only the client's distribution pump calls Send.
SoleSender == \A s, t \in Senders : s = t

Counted == {"recheck", "select", "finish"}

\* A waiter is registered while the sender is counted or about to release it; from
\* its release until it wakes nobody is in Send, since isDone is set.
GroupInv ==
    /\ WaitGroupSafe
    /\ \A s \in Senders : s \in inflight <=> spc[s] \in Counted
    /\ waiting => \E s \in Senders : spc[s] \in Counted \cup {"release"}
    /\ \A c \in Closers : pc[c] = "sleep" /\ ~waiting =>
          isDone /\ \A s \in Senders : spc[s] = "idle"

\* The initial state satisfies the invariant.
LEMMA GroupInit == Init => GroupInv
  BY DEF Init, GroupInv, WaitGroupSafe, Counted

\* A step of Connection.Send keeps the invariant.
LEMMA GroupSender ==
  ASSUME SoleSender, TypeInv, StopInv, GroupInv, NEW s \in Senders, SenderStep(s)
  PROVE  GroupInv'
  <1>1. /\ spc \in [Senders -> SenderPCs] /\ inflight \subseteq Senders
        /\ \A c \in Closers : pc[c] = "sleep" => isDone
        /\ \A t \in Senders : t = s
    BY DEF TypeInv, TypeOK, StopInv, ClosedInv, SoleSender
  <1>2. UNCHANGED <<isDone, pc>>
    BY DEF SenderStep, SendCheck, SendAdd, SendRecheck, SendEnqueue, SendAbort,
           SendFinish, SendRelease, flags
  <1> USE <1>1, <1>2 DEF GroupInv, WaitGroupSafe, Counted, sGoto, group
  <1>3. CASE SendCheck(s)
    BY <1>3 DEF SendCheck
  <1>4. CASE SendAdd(s)
    BY <1>4 DEF SendAdd
  <1>5. CASE SendRecheck(s)
    BY <1>5 DEF SendRecheck
  <1>6. CASE SendEnqueue(s)
    BY <1>6 DEF SendEnqueue
  <1>7. CASE SendAbort(s)
    BY <1>7 DEF SendAbort
  <1>8. CASE SendFinish(s)
    BY <1>8 DEF SendFinish
  <1>9. CASE SendRelease(s)
    BY <1>9 DEF SendRelease
  <1> QED
    BY <1>3, <1>4, <1>5, <1>6, <1>7, <1>8, <1>9 DEF SenderStep

\* A step of Connection.Stop keeps the invariant: only one closer waits.
LEMMA GroupStop ==
  ASSUME TypeInv, StopInv, GroupInv, NEW c \in Closers, StopStep(c)
  PROVE  GroupInv'
  <1>1. /\ pc \in [Closers -> CloserPCs] /\ UNCHANGED <<spc, inflight>>
        /\ inflight \subseteq Senders
        /\ \A d \in Closers : pc[d] \in Inside /\ pc[c] \in Inside => d = c
    BY DEF TypeInv, TypeOK, StopStep, StopEnter, StopSetDone, StopCloseDone, StopWait,
           StopWake, StopCloseSend, StopCloseSock, sender, group, StopInv, OnceInv
  <1> USE <1>1 DEF GroupInv, WaitGroupSafe, Counted, goto, flags, group, Inside
  <1>2. CASE StopEnter(c)
    BY <1>2 DEF StopEnter
  <1>3. CASE StopSetDone(c)
    BY <1>3 DEF StopSetDone
  <1>4. CASE StopCloseDone(c)
    BY <1>4 DEF StopCloseDone
  <1>5. CASE StopWait(c)
    BY <1>5 DEF StopWait
  <1>6. CASE StopWake(c)
    BY <1>6 DEF StopWake
  <1>7. CASE StopCloseSend(c)
    BY <1>7 DEF StopCloseSend
  <1>8. CASE StopCloseSock(c)
    BY <1>8 DEF StopCloseSock
  <1> QED
    BY <1>2, <1>3, <1>4, <1>5, <1>6, <1>7, <1>8 DEF StopStep

\* So does a move of a goroutine to a place outside of the body.
LEMMA GroupMove ==
  ASSUME TypeInv, GroupInv, NEW c \in Closers, NEW l, l \notin Inside, goto(c, l),
         UNCHANGED <<shared, waiting>>
  PROVE  GroupInv'
  BY DEF GroupInv, WaitGroupSafe, Counted, TypeInv, TypeOK, goto, shared, Inside

\* Every step keeps the invariant of the WaitGroup.
LEMMA GroupNext ==
  ASSUME SoleSender, TypeInv, StopInv, GroupInv, [Next]_vars
  PROVE  GroupInv'
  <1>1. CASE \/ \E p \in Pumps : RemoveStep(p)
             \/ OwnerStop \/ OwnerSnapshot \/ WriterStep \/ ReaderStep
    <2>1. UNCHANGED waiting
      BY <1>1 DEF RemoveStep, RemoveCheck, RemoveUnlink, OwnerStop, OwnerSnapshot,
         WriterStep, WriterCheck, WriterReceive, WriterDrained, WriterTick, WriterDone,
         WriterWrite, WriterFail, WriterPing, WriterFarewell, WriterGoto,
         ReaderStep, ReaderCheck, ReaderPoll, ReaderReceive, ReaderFail,
         ReaderRecheck, ReaderHandle, ReaderGoto, group
    <2> QED
      BY <1>1, <2>1, StopOther, GroupMove
  <1>2. CASE UNCHANGED vars
    BY <1>2 DEF vars, flags, group, sender, GroupInv, WaitGroupSafe, Counted
  <1> QED
    BY <1>1, <1>2, GroupSender, GroupStop DEF Next

\* The WaitGroup is safe in the composition the package builds, where a single
\* goroutine sends to a connection, and for as many sends as it likes.
THEOREM SoleSenderKeepsWaitGroupSafe ==
  ASSUME SoleSender
  PROVE  Spec => []WaitGroupSafe
  <1>1. TypeInv /\ StopInv /\ GroupInv /\ [Next]_vars => GroupInv'
    BY GroupNext
  <1>2. Spec => []TypeInv
    BY TypeInit, TypeNext, PTL DEF Spec
  <1>3. Spec => []GroupInv
    BY <1>1, <1>2, StopInvCorrect, GroupInit, PTL DEF Spec
  <1> QED
    BY <1>3, PTL DEF GroupInv

-----------------------------------------------------------------------------
(* The connection implements the mailbox.                                  *)

\* The initial states of the connection are initial states of the mailbox.
LEMMA MailboxStart == Init => Mailbox!MailboxInit
  BY DEF Init, Mailbox!MailboxInit

\* A step that leaves both histories, sendCh's end and the socket alone is a
\* stutter of the mailbox.
LEMMA MailboxStutter ==
  ASSUME UNCHANGED <<accepted, written, sendClosed, sockOpen>>
  PROVE  UNCHANGED Mailbox!mailboxVars
  BY DEF Mailbox!mailboxVars

\* Taking an event is Accept: while sendCh is open so is the socket.
LEMMA MailboxEnqueue ==
  ASSUME TypeInv, StopInv, NEW s \in Senders, SendEnqueue(s)
  PROVE  [Mailbox!MailboxNext]_Mailbox!mailboxVars
  <1> DEFINE e == <<s, sends[s]>>
  <1>1. CASE sendClosed
    BY <1>1, MailboxStutter DEF SendEnqueue, peer
  <1>2. CASE ~sendClosed
    <2>1. sockOpen
      BY <1>2 DEF StopInv, ClosedInv
    <2>2. e \in Events
      <3>1. spc[s] = "select"
        BY DEF SendEnqueue
      <3>2. sends[s] >= 1 /\ sends[s] \in 0..MaxSends /\ MaxSends \in Nat
        BY <3>1, ConnectionAssumption DEF TypeInv, TypeOK, SendsCounted
      <3>3. sends[s] \in 1..MaxSends
        BY ONLY <3>2
      <3> QED
        BY <3>3 DEF Events
    <2>3. accepted' = Append(accepted, e) /\ UNCHANGED <<written, sendClosed, sockOpen>>
      BY <1>2 DEF SendEnqueue, peer
    <2>4. Mailbox!Accept(e)
      BY <1>2, <2>1, <2>3 DEF Mailbox!Accept
    <2> QED
      BY <2>2, <2>4 DEF Mailbox!MailboxNext
  <1> QED
    BY <1>1, <1>2

\* A successful write is Deliver: what the pump holds is the next event accepted.
LEMMA MailboxWrite ==
  ASSUME TypeInv, FlowInv, WriterWrite
  PROVE  [Mailbox!MailboxNext]_Mailbox!mailboxVars
  <1>1. /\ written \in Seq(Events) /\ hand \in Seq(Events) /\ queue \in Seq(Events)
        /\ accepted \in Seq(Events) /\ Len(hand) <= 1
    BY DEF TypeInv, TypeOK
  <1>2. /\ accepted = (written \o hand) \o queue /\ written' = written \o hand
        /\ sockOpen /\ UNCHANGED <<accepted, sendClosed, sockOpen>>
    BY DEF WriterWrite, FlowInv, NothingSkipped, channel
  <1>3. CASE hand = <<>>
    <2>1. written' = written
      BY ONLY <1>1, <1>2, <1>3
    <2> QED
      BY <1>2, <2>1, MailboxStutter
  <1>4. CASE hand # <<>>
    <2>1. Len(hand) = 1 /\ hand = <<hand[1]>> /\ hand[1] \in Events
      <3>1. Len(hand) = 1
        <4>1. Len(hand) \in Nat /\ Len(hand) # 0
          BY ONLY <1>1, <1>4, EmptySeq
        <4>2. Len(hand) <= 1
          BY ONLY <1>1
        <4> DEFINE n == Len(hand)
        <4> HIDE DEF n
        <4>3. n \in Nat /\ n # 0 /\ n <= 1 => n = 1
          OBVIOUS
        <4> USE DEF n
        <4> QED
          BY ONLY <4>1, <4>2, <4>3
      <3>2. hand[1] \in Events
        <4>1. hand \in [1..1 -> Events]
          BY ONLY <1>1, <3>1, LenProperties
        <4> QED
          BY ONLY <4>1
      <3>3. hand = <<hand[1]>>
        BY ONLY <1>1, <3>1, <3>2, SeqEqual
      <3> QED
        BY <3>1, <3>2, <3>3
    <2>2. Len(written) \in Nat /\ Len(queue) \in Nat
      BY ONLY <1>1
    <2>3. written' = Append(written, hand[1])
      BY ONLY <1>1, <1>2, <2>1, AppendIsConcat
    <2>4. Len(written) < Len(accepted) /\ accepted[Len(written) + 1] = hand[1]
      <3>1. /\ Len(written \o hand) = Len(written) + 1
            /\ (written \o hand) \in Seq(Events)
            /\ (written \o hand)[Len(written) + 1] = hand[1]
        <4> DEFINE w == written
        <4>1. /\ w \o hand \in Seq(Events)
              /\ Len(w \o hand) = Len(w) + Len(hand)
              /\ \A i \in 1 .. Len(w) + Len(hand) : (w \o hand)[i] =
                    IF i <= Len(w) THEN w[i] ELSE hand[i - Len(w)]
          BY ONLY <1>1, ConcatProperties
        <4>2. Len(w) + 1 \in 1 .. Len(w) + 1 /\ ~(Len(w) + 1 <= Len(w))
              /\ Len(w) + 1 - Len(w) = 1
          BY ONLY <2>2
        <4> HIDE DEF w
        <4>3. (w \o hand)[Len(w) + 1] = hand[Len(w) + 1 - Len(w)]
          BY ONLY <2>1, <4>1, <4>2
        <4> USE DEF w
        <4> QED
          BY ONLY <2>1, <4>1, <4>2, <4>3
      <3>2. /\ Len(accepted) = Len(written \o hand) + Len(queue)
            /\ accepted[Len(written) + 1] = (written \o hand)[Len(written) + 1]
        <4> DEFINE f == written \o hand
        <4>1. f \in Seq(Events) /\ Len(f) \in Nat /\ Len(f) = Len(written) + 1
          BY ONLY <2>2, <3>1
        <4>2. Len(written) + 1 \in 1 .. Len(f) + Len(queue) /\ Len(written) + 1 <= Len(f)
          BY ONLY <2>2, <4>1
        <4> HIDE DEF f
        <4>3. /\ Len(f \o queue) = Len(f) + Len(queue)
              /\ \A i \in 1 .. Len(f) + Len(queue) : (f \o queue)[i] =
                    IF i <= Len(f) THEN f[i] ELSE queue[i - Len(f)]
          BY ONLY <1>1, <4>1, ConcatProperties
        <4>4. (f \o queue)[Len(written) + 1] = f[Len(written) + 1]
          BY ONLY <4>2, <4>3
        <4> USE DEF f
        <4> QED
          BY ONLY <1>2, <4>3, <4>4
      <3> QED
        BY ONLY <2>2, <3>1, <3>2
    <2>5. Mailbox!Deliver
      BY <1>2, <2>3, <2>4 DEF Mailbox!Deliver
    <2> QED
      BY <2>5 DEF Mailbox!MailboxNext
  <1> QED
    BY <1>3, <1>4

\* A step of Stop is Drain when it closes sendCh, Close when it closes the socket,
\* and a stutter otherwise.
LEMMA MailboxStop ==
  ASSUME TypeInv, StopInv, NEW c \in Closers, StopStep(c)
  PROVE  [Mailbox!MailboxNext]_Mailbox!mailboxVars
  <1>1. UNCHANGED <<accepted, written>>
    BY DEF StopStep, StopEnter, StopSetDone, StopCloseDone, StopWait, StopWake,
           StopCloseSend, StopCloseSock, channel, peer
  <1>2. CASE StopCloseSend(c)
    <2>1. ~sendClosed /\ sockOpen /\ sendClosed' /\ sockOpen'
      BY <1>2 DEF StopCloseSend, StopInv, ClosedInv
    <2> QED
      BY <1>1, <2>1 DEF Mailbox!MailboxNext, Mailbox!Drain
  <1>3. CASE StopCloseSock(c)
    <2>1. sendClosed /\ sockOpen /\ sendClosed' /\ ~sockOpen'
      BY <1>3 DEF StopCloseSock, StopInv, ClosedInv, channel
    <2> QED
      BY <1>1, <2>1 DEF Mailbox!MailboxNext, Mailbox!Close
  <1>4. CASE ~(StopCloseSend(c) \/ StopCloseSock(c))
    <2>1. UNCHANGED <<sendClosed, sockOpen>>
      BY <1>4 DEF StopStep, StopEnter, StopSetDone, StopCloseDone, StopWait, StopWake,
                  channel
    <2> QED
      BY <1>1, <2>1, MailboxStutter
  <1> QED
    BY <1>2, <1>3, <1>4

\* Every step of the connection is a step of the mailbox or a stutter of it.
LEMMA MailboxSimulates ==
  ASSUME TypeInv, StopInv, FlowInv, [Next]_vars
  PROVE  [Mailbox!MailboxNext]_Mailbox!mailboxVars
  <1>1. ASSUME NEW s \in Senders, SenderStep(s)
        PROVE  [Mailbox!MailboxNext]_Mailbox!mailboxVars
    <2>1. CASE SendEnqueue(s)
      BY <2>1, MailboxEnqueue
    <2>2. CASE ~SendEnqueue(s)
      <3>1. UNCHANGED <<accepted, written, sendClosed, sockOpen>>
        BY <1>1, <2>2 DEF SenderStep, SendCheck, SendAdd, SendRecheck, SendAbort,
           SendFinish, SendRelease, channel, peer
      <3> QED
        BY <3>1, MailboxStutter
    <2> QED
      BY <2>1, <2>2
  <1>2. ASSUME NEW c \in Closers, StopStep(c)
        PROVE  [Mailbox!MailboxNext]_Mailbox!mailboxVars
    BY <1>2, MailboxStop
  <1>3. CASE WriterWrite
    BY <1>3, MailboxWrite
  <1>4. CASE /\ \/ \E p \in Pumps : RemoveStep(p)
                \/ OwnerStop \/ OwnerSnapshot \/ WriterStep \/ ReaderStep
             /\ ~WriterWrite
    <2>1. UNCHANGED <<sendClosed, sockOpen>>
      BY <1>4, StopOther DEF shared
    <2>2. UNCHANGED <<accepted, written>>
      BY <1>4 DEF RemoveStep, RemoveCheck, RemoveUnlink, OwnerStop, OwnerSnapshot,
         WriterStep, WriterCheck, WriterReceive, WriterDrained, WriterTick, WriterDone,
         WriterFail, WriterPing, WriterFarewell, WriterGoto,
         ReaderStep, ReaderCheck, ReaderPoll, ReaderReceive, ReaderFail,
         ReaderRecheck, ReaderHandle, ReaderGoto, channel, peer
    <2> QED
      BY <2>1, <2>2, MailboxStutter
  <1>5. CASE UNCHANGED vars
    BY <1>5, MailboxStutter DEF vars, channel, peer
  <1> QED
    BY <1>1, <1>2, <1>3, <1>4, <1>5 DEF Next

\* The code of connection.go implements the mailbox, for any number of senders and
\* any capacity: it accepts only while open and delivers in order without a gap.
THEOREM ConnectionImplementsMailbox == Spec => MailboxImplemented
  <1>1. Init => Mailbox!MailboxInit
    BY MailboxStart
  <1>2. TypeInv /\ StopInv /\ FlowInv /\ [Next]_vars
           => [Mailbox!MailboxNext]_Mailbox!mailboxVars
    BY MailboxSimulates
  <1>3. Spec => []TypeInv
    BY TypeInit, TypeNext, PTL DEF Spec
  <1> QED
    BY <1>1, <1>2, <1>3, StopInvCorrect, FlowInvCorrect, PTL
    DEF Spec, MailboxImplemented, Mailbox!MailboxSpec
=============================================================================
