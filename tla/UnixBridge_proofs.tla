-------------------------- MODULE UnixBridge_proofs --------------------------
(***************************************************************************)
(* Theorems about UnixBridge, for any set of clients and any number of     *)
(* messages and chunks: the slices of clients match the goroutines that    *)
(* read from them, the WebSocket has one writer at a time, and no client   *)
(* of the writer socket misses a message or gets one twice.                *)
(***************************************************************************)
EXTENDS UnixBridge, SequenceTheorems, TLAPS

\* Before the accepting goroutines are started nobody can have connected.
Early == {"listenWriter", "listenReader", "greet", "spawn", "failed"}
EarlyInv ==
    pc \in Early =>
        /\ \A k \in Socks : apc[k] = "none"
        /\ \A c \in Clients : sock[c] = "none"

\* A client has a socket once it has connected, and only then a goroutine, which
\* closes it before it removes it.
ClientInv ==
    \A c \in Clients :
        /\ kind[c] = "none" <=> sock[c] = "none"
        /\ hpc[c] # "none" => sock[c] # "none"
        /\ hpc[c] \in {"remove", "ended"} => sock[c] = "closed"

\* The client in an accepting goroutine's hand is of its socket and is not read yet.
HandInv ==
    \A k \in Socks : got[k] # NoClient => kind[got[k]] = k /\ hpc[got[k]] = "none"

\* Who writes to the WebSocket holds WriteMu.
MutexInv == \A c \in Clients : hpc[c] = "write" => writeMu = c

Distinct(s) == \A i, j \in 1..Len(s) : s[i] = s[j] => i = j
Consecutive(s) == \A i \in 1..(Len(s) - 1) : s[i + 1] = s[i] + 1

PeopleInv == EarlyInv /\ ClientInv /\ HandInv /\ MutexInv /\ ListMatchesReaders

\* Broadcast is still to write the current message to client c.
Behind(c) == pc = "copy" \/ (pc = "send" /\ \A i \in 1..(next - 1) : snapshot[i] # c)

\* Broadcast goes along a copy without repetitions, of clients that were read then.
SnapshotInv ==
    /\ Distinct(snapshot)
    /\ \A i \in 1..Len(snapshot) : kind[snapshot[i]] = "writer" /\ hpc[snapshot[i]] # "none"
    /\ next \in 1..(Len(snapshot) + 1)
    /\ pc # "send" => next = Len(snapshot) + 1
    /\ pc \in {"copy", "send"} => messages # 0

\* Everybody who is connected and was ever written to has the newest message, or
\* the one before it where the broadcast has yet to come; and the broadcast will
\* come, since such a client is in the copy.
ReceivedInv ==
    \A c \in Clients :
        /\ received[c] # <<>> => kind[c] = "writer" /\ hpc[c] # "none"
        /\ Consecutive(received[c])
        /\ sock[c] = "open" /\ received[c] # <<>> =>
               /\ Last(received[c]) = IF Behind(c) THEN messages - 1 ELSE messages
               /\ pc = "send" => \E i \in 1..Len(snapshot) : snapshot[i] = c

\* Whom the broadcast has passed has been written to.
PassedInv ==
    pc # "copy" =>
        \A i \in 1..(next - 1) :
            sock[snapshot[i]] = "open" => received[snapshot[i]] # <<>>

StreamInv == SnapshotInv /\ ReceivedInv /\ PassedInv

BridgeInv == TypeOK /\ PeopleInv /\ StreamInv

USE DEF vars, bridge, accepting, handling, casting

-----------------------------------------------------------------------------
(* Slices.                                                                 *)

\* Appending a client that is not in the slice keeps it free of repetitions.
LEMMA AppendDistinct ==
  ASSUME NEW S, NEW s \in Seq(S), NEW e \in S, Distinct(s), e \notin ToSet(s)
  PROVE  /\ Append(s, e) \in Seq(S) /\ Distinct(Append(s, e))
         /\ ToSet(Append(s, e)) = ToSet(s) \cup {e}
  <1>1. /\ Append(s, e) \in Seq(S) /\ Len(Append(s, e)) = Len(s) + 1
        /\ \A i \in 1..Len(s) : Append(s, e)[i] = s[i]
        /\ Append(s, e)[Len(s) + 1] = e
        /\ Len(s) \in Nat
    OBVIOUS
  <1>2. \A t \in Seq(S) : ToSet(t) = {t[i] : i \in 1..Len(t)}
    BY DEF ToSet
  <1>3. \A i \in 1..Len(s) : s[i] # e
    BY <1>2
  <1>4. Distinct(Append(s, e))
    BY <1>1, <1>3 DEF Distinct
  <1>5. ToSet(Append(s, e)) = ToSet(s) \cup {e}
    <2> DEFINE t == Append(s, e)
    <2>1. ToSet(t) = {t[i] : i \in 1..(Len(s) + 1)} /\ ToSet(s) = {s[i] : i \in 1..Len(s)}
      BY <1>1, <1>2
    <2>2. \A i \in 1..(Len(s) + 1) : t[i] \in ToSet(s) \cup {e}
      BY <1>1, <2>1
    <2>3. \A i \in 1..Len(s) : s[i] = t[i] /\ i \in 1..(Len(s) + 1)
      BY <1>1
    <2>4. e = t[Len(s) + 1] /\ Len(s) + 1 \in 1..(Len(s) + 1)
      BY <1>1
    <2> HIDE DEF t
    <2>5. ToSet(t) \subseteq ToSet(s) \cup {e}
      BY <2>1, <2>2
    <2>6. ToSet(s) \subseteq ToSet(t)
      BY <2>1, <2>3
    <2>7. e \in ToSet(t)
      BY <2>1, <2>4
    <2> QED
      BY <2>5, <2>6, <2>7 DEF t
  <1> QED
    BY <1>1, <1>4, <1>5

\* Without cuts out that client and nobody else.
LEMMA WithoutDistinct ==
  ASSUME NEW S, NEW s \in Seq(S), NEW e \in S, Distinct(s)
  PROVE  /\ Without(s, e) \in Seq(S) /\ Distinct(Without(s, e))
         /\ ToSet(Without(s, e)) = ToSet(s) \ {e}
  <1>1. \A t \in Seq(S) : ToSet(t) = {t[i] : i \in 1..Len(t)}
    BY DEF ToSet
  <1>2. CASE ~Contains(s, e)
    BY <1>1, <1>2 DEF Without, Contains
  <1>3. CASE Contains(s, e)
    <2> DEFINE at == CHOOSE i \in 1..Len(s) : s[i] = e
               n == Len(s)
               t == Without(s, e)
    <2>1. at \in 1..n /\ s[at] = e /\ n \in Nat
      BY <1>3 DEF Contains
    <2>2. t = SubSeq(s, 1, at - 1) \o SubSeq(s, at + 1, n)
      BY <1>3 DEF Without, RemoveAt
    <2> HIDE DEF at, t
    <2>3. /\ SubSeq(s, 1, at - 1) \in Seq(S) /\ Len(SubSeq(s, 1, at - 1)) = at - 1
          /\ \A i \in 1..(at - 1) : SubSeq(s, 1, at - 1)[i] = s[i]
      BY <2>1, SubSeqProperties
    <2>4. /\ SubSeq(s, at + 1, n) \in Seq(S) /\ Len(SubSeq(s, at + 1, n)) = n - at
          /\ \A i \in 1..(n - at) : SubSeq(s, at + 1, n)[i] = s[at + i]
      BY <2>1, SubSeqProperties
    <2>5. /\ t \in Seq(S) /\ Len(t) = n - 1
          /\ \A i \in 1..(n - 1) : t[i] = IF i < at THEN s[i] ELSE s[i + 1]
      <3>1. /\ t \in Seq(S) /\ Len(t) = (at - 1) + (n - at)
            /\ \A i \in 1..((at - 1) + (n - at)) :
                   t[i] = IF i <= at - 1 THEN SubSeq(s, 1, at - 1)[i]
                          ELSE SubSeq(s, at + 1, n)[i - (at - 1)]
        BY <2>2, <2>3, <2>4, ConcatProperties
      <3>2. ASSUME NEW i \in 1..(n - 1)
            PROVE  t[i] = IF i < at THEN s[i] ELSE s[i + 1]
        <4>1. CASE i < at
          BY <3>1, <2>1, <2>3, <4>1
        <4>2. CASE i >= at
          <5>1. i - (at - 1) \in 1..(n - at) /\ at + (i - (at - 1)) = i + 1
            BY <2>1, <4>2
          <5> QED
            BY <3>1, <2>1, <2>4, <4>2, <5>1
        <4> QED
          BY <4>1, <4>2, <2>1
      <3> QED
        BY <3>1, <3>2, <2>1
    <2>6. Distinct(t)
      BY <2>1, <2>5 DEF Distinct
    <2>7. ASSUME NEW x \in ToSet(t) PROVE x \in ToSet(s) \ {e}
      BY <1>1, <2>1, <2>5 DEF Distinct
    <2>8. ASSUME NEW x \in ToSet(s) \ {e} PROVE x \in ToSet(t)
      <3>1. PICK i \in 1..n : s[i] = x
        BY <1>1
      <3>2. i # at
        BY <3>1, <2>1
      <3>3. CASE i < at
        <4>1. i \in 1..Len(t) /\ t[i] = x
          BY <3>1, <3>3, <2>1, <2>5
        <4> QED
          BY <4>1, <1>1, <2>5
      <3>4. CASE i > at
        <4>1. i - 1 \in 1..Len(t) /\ t[i - 1] = x
          BY <3>1, <3>4, <2>1, <2>5
        <4> QED
          BY <4>1, <1>1, <2>5
      <3> QED
        BY <3>2, <3>3, <3>4, <2>1
    <2> QED
      BY <2>5, <2>6, <2>7, <2>8 DEF t
  <1> QED
    BY <1>2, <1>3

-----------------------------------------------------------------------------
(* The initial states and the types.                                       *)

\* The initial states satisfy the invariant.
LEMMA BridgeInit == Init => BridgeInv
  <1> SUFFICES ASSUME Init PROVE BridgeInv
    OBVIOUS
  <1> USE BridgeAssumption
  <1>1. TypeOK
    <2>1. /\ list \in [Socks -> Seq(Clients)] /\ snapshot \in Seq(Clients)
          /\ received \in [Clients -> Seq(1..MaxMessages)]
      BY EmptySeq DEF Init
    <2>2. /\ listener \in [Socks -> {"none", "open", "closed"}]
          /\ apc \in [Socks -> {"none", "loop", "accept", "append", "ended"}]
          /\ got \in [Socks -> Clients \cup {NoClient}]
          /\ \A k \in Socks : apc[k] = "append" <=> got[k] # NoClient
      BY DEF Init
    <2>3. /\ kind \in [Clients -> Socks \cup {"none"}]
          /\ sock \in [Clients -> {"none", "open", "closed"}]
          /\ hpc \in [Clients -> {"none", "loop", "read", "lock", "write", "close",
                                  "remove", "ended"}]
          /\ chunks \in [Clients -> 0..MaxChunks]
      BY DEF Init
    <2>4. /\ pc = "listenWriter" /\ stored = FALSE /\ cancelled = FALSE
          /\ writeMu = NoClient /\ messages = 0 /\ next = 1
      BY DEF Init
    <2>5. messages \in 0..MaxMessages /\ next \in Nat
      BY <2>4
    <2> QED
      BY <2>1, <2>2, <2>3, <2>4, <2>5, Zenon DEF TypeOK
  <1>2. PeopleInv
    BY DEF Init, PeopleInv, EarlyInv, ClientInv, HandInv, MutexInv, ListMatchesReaders,
           Early, Socks, ToSet
  <1>3. StreamInv
    BY DEF Init, StreamInv, SnapshotInv, ReceivedInv, PassedInv, Distinct, Consecutive
  <1> QED
    BY <1>1, <1>2, <1>3 DEF BridgeInv

\* A step of the bridge goroutine outside Broadcast keeps the types.
LEMMA TypeBridge ==
  ASSUME BridgeInv, SetupStep \/ ReceiveMessage \/ ReceiveFails \/ CleanUpStep
  PROVE  TypeOK'
  <1> USE BridgeAssumption DEF BridgeInv, TypeOK
  <1>1. CASE SetupStep
    <2>1. CASE ListenWriter \/ ListenReader
      BY <2>1 DEF ListenWriter, ListenReader, ListenOn
    <2>2. CASE Greet \/ Store
      BY <2>2 DEF Greet, Store
    <2>3. CASE SpawnAcceptors
      <3>1. \A k \in Socks : got[k] = NoClient
        BY <2>3 DEF SpawnAcceptors, PeopleInv, EarlyInv, Early
      <3> QED
        BY <2>3, <3>1 DEF SpawnAcceptors
    <2> QED
      BY <1>1, <2>1, <2>2, <2>3 DEF SetupStep
  <1>2. CASE ReceiveMessage
    BY <1>2 DEF ReceiveMessage
  <1>3. CASE ReceiveFails
    BY <1>3 DEF ReceiveFails
  <1>4. CASE CleanUpStep
    <2>1. CASE CancelServers \/ Delete
      BY <2>1 DEF CancelServers, Delete
    <2>2. CASE CloseWriters
      BY <2>2 DEF CloseWriters, CloseListed
    <2>3. CASE CloseReaders
      BY <2>3 DEF CloseReaders, CloseListed
    <2>4. CASE CloseListeners
      BY <2>4 DEF CloseListeners
    <2> QED
      BY <1>4, <2>1, <2>2, <2>3, <2>4 DEF CleanUpStep
  <1> QED
    BY <1>1, <1>2, <1>3, <1>4

\* A step of Broadcast keeps the types.
LEMMA TypeCast ==
  ASSUME BridgeInv, CastStep
  PROVE  TypeOK'
  <1> USE BridgeAssumption DEF BridgeInv, TypeOK
  <1>1. CASE CopyClients
    BY <1>1 DEF CopyClients, Socks
  <1>2. CASE SendNext
    <2>1. messages \in 1..MaxMessages
      BY <1>2 DEF SendNext, StreamInv, SnapshotInv
    <2>2. next \in Nat /\ next \in 1..Len(snapshot) /\ snapshot[next] \in Clients
      BY <1>2, ElementOfSeq DEF SendNext, StreamInv, SnapshotInv
    <2>3. \A s \in Seq(1..MaxMessages) : Append(s, messages) \in Seq(1..MaxMessages)
      BY <2>1
    <2>4. received' \in [Clients -> Seq(1..MaxMessages)]
      BY <1>2, <2>2, <2>3 DEF SendNext, Deliver
    <2>5. next' \in Nat /\ UNCHANGED <<pc, bridge, accepting, kind, sock, handling, messages, snapshot>>
      BY <1>2, <2>2 DEF SendNext
    <2> QED
      BY <2>4, <2>5
  <1>3. CASE BroadcastEnds
    BY <1>3 DEF BroadcastEnds
  <1> QED
    BY <1>1, <1>2, <1>3 DEF CastStep

\* A step of an accepting goroutine keeps the types.
LEMMA TypeAccept ==
  ASSUME BridgeInv, NEW k \in Socks, AcceptStep(k) \/ AcceptFails(k)
  PROVE  TypeOK'
  <1> USE BridgeAssumption DEF BridgeInv, TypeOK, aGoto
  <1>1. CASE AcceptCheck(k)
    BY <1>1 DEF AcceptCheck
  <1>2. CASE Accept(k)
    BY <1>2 DEF Accept
  <1>3. CASE AcceptFails(k)
    BY <1>3 DEF AcceptFails
  <1>4. CASE AppendClient(k)
    <2>1. got[k] \in Clients
      BY <1>4 DEF AppendClient
    <2>2. list' \in [Socks -> Seq(Clients)]
      BY <1>4, <2>1 DEF AppendClient
    <2> QED
      BY <1>4, <2>1, <2>2 DEF AppendClient
  <1> QED
    BY <1>1, <1>2, <1>3, <1>4 DEF AcceptStep

\* A step of a client's goroutine keeps the types.
LEMMA TypeHandler ==
  ASSUME BridgeInv, NEW c \in Clients,
         HandlerStep(c) \/ ReadChunk(c) \/ ReadFails(c) \/ WriteReturns(c)
  PROVE  TypeOK'
  <1> USE BridgeAssumption DEF BridgeInv, TypeOK, hGoto
  <1>1. CASE ReadCheck(c)
    BY <1>1 DEF ReadCheck
  <1>2. CASE ReadChunk(c)
    <2>1. chunks' \in [Clients -> 0..MaxChunks]
      <3>1. CASE chunks[c] < MaxChunks /\ chunks' = [chunks EXCEPT ![c] = @ + 1]
        <4>1. chunks[c] + 1 \in 0..MaxChunks
          BY <3>1
        <4> QED
          BY <3>1, <4>1
      <3>2. CASE UNCHANGED chunks
        BY <3>2
      <3> QED
        BY <1>2, <3>1, <3>2 DEF ReadChunk
    <2>2. hpc' = [hpc EXCEPT ![c] = "lock"] \/ hpc' = [hpc EXCEPT ![c] = "loop"]
      BY <1>2 DEF ReadChunk
    <2>3. UNCHANGED <<pc, bridge, accepting, sock, kind, writeMu, casting>>
      BY <1>2 DEF ReadChunk
    <2> QED
      BY <2>1, <2>2, <2>3
  <1>3. CASE ReadFails(c)
    BY <1>3 DEF ReadFails
  <1>4. CASE LockWrite(c)
    BY <1>4 DEF LockWrite
  <1>5. CASE WriteReturns(c)
    BY <1>5 DEF WriteReturns
  <1>6. CASE CloseClient(c)
    BY <1>6 DEF CloseClient
  <1>7. CASE RemoveClient(c)
    <2>1. kind[c] \in Socks /\ Distinct(list[kind[c]])
      BY <1>7 DEF RemoveClient, PeopleInv, ClientInv, ListMatchesReaders, Distinct
    <2>2. list' \in [Socks -> Seq(Clients)]
      BY <1>7, <2>1, WithoutDistinct DEF RemoveClient
    <2> QED
      BY <1>7, <2>2 DEF RemoveClient
  <1> QED
    BY <1>1, <1>2, <1>3, <1>4, <1>5, <1>6, <1>7 DEF HandlerStep

\* Every step keeps the types.
LEMMA TypeNext == BridgeInv /\ [Next]_vars => TypeOK'
  <1> SUFFICES ASSUME BridgeInv, [Next]_vars PROVE TypeOK'
    OBVIOUS
  <1>1. CASE UNCHANGED vars
    BY <1>1 DEF BridgeInv, TypeOK
  <1> QED
    BY <1>1, TypeBridge, TypeCast, TypeAccept, TypeHandler DEF Next

-----------------------------------------------------------------------------
(* The clients, their goroutines and the slices.                           *)

\* The slices match as long as nobody's goroutine begins or ends.
LEMMA SlicesKept ==
  ASSUME BridgeInv, UNCHANGED list,
         \A k \in Socks, c \in Clients :
             (kind'[c] = k /\ hpc'[c] \notin {"none", "ended"})
                 <=> (kind[c] = k /\ hpc[c] \notin {"none", "ended"})
  PROVE  ListMatchesReaders'
  BY DEF BridgeInv, PeopleInv, ListMatchesReaders

\* A step of the bridge goroutine keeps the clients in order.
LEMMA PeopleBridge ==
  ASSUME BridgeInv, SetupStep \/ ReceiveMessage \/ ReceiveFails \/ CastStep \/ CleanUpStep
  PROVE  PeopleInv'
  <1> USE DEF BridgeInv, PeopleInv
  <1>1. UNCHANGED <<got, list, kind, handling>>
    BY DEF SetupStep, ListenWriter, ListenReader, ListenOn, Greet, SpawnAcceptors, Store,
           ReceiveMessage, ReceiveFails, CastStep, CopyClients, SendNext, BroadcastEnds,
           CleanUpStep, CancelServers, CloseWriters, CloseReaders, CloseListeners, Delete
  <1>2. MutexInv' /\ HandInv' /\ ListMatchesReaders'
    BY <1>1, SlicesKept DEF MutexInv, HandInv
  <1>3. CASE CloseWriters \/ CloseReaders
    <2>1. PICK k \in Socks : CloseListed(k)
      BY <1>3 DEF CloseWriters, CloseReaders, Socks
    <2>2. pc' \in {"closeReaders", "closeListeners"}
      BY <1>3 DEF CloseWriters, CloseReaders
    <2>3. \A c \in Clients : Contains(list[k], c) => sock[c] # "none"
      <3>1. \A c \in Clients : Contains(list[k], c) => c \in ToSet(list[k])
        BY DEF TypeOK, Contains, ToSet
      <3> QED
        BY <3>1 DEF ListMatchesReaders, ClientInv
    <2>4. ClientInv'
      BY <1>1, <2>1, <2>3 DEF CloseListed, ClientInv
    <2>5. EarlyInv'
      BY <2>2 DEF EarlyInv, Early
    <2> QED
      BY <1>2, <2>4, <2>5
  <1>4. CASE ~(CloseWriters \/ CloseReaders)
    <2>1. UNCHANGED sock
      BY <1>4 DEF SetupStep, ListenWriter, ListenReader, ListenOn, Greet, SpawnAcceptors,
           Store, ReceiveMessage, ReceiveFails, CastStep, CopyClients, SendNext,
           BroadcastEnds, CleanUpStep, CancelServers, CloseListeners, Delete
    <2>2. pc' \in Early => pc \in Early /\ UNCHANGED apc
      BY <1>4 DEF SetupStep, ListenWriter, ListenReader, ListenOn, Greet, SpawnAcceptors,
           Store, ReceiveMessage, ReceiveFails, CastStep, CopyClients, SendNext,
           BroadcastEnds, CleanUpStep, CancelServers, CloseListeners, Delete, Early
    <2>3. ClientInv' /\ EarlyInv'
      BY <1>1, <2>1, <2>2 DEF ClientInv, EarlyInv
    <2> QED
      BY <1>2, <2>3
  <1> QED
    BY <1>3, <1>4

\* A step of an accepting goroutine keeps the clients in order.
LEMMA PeopleAccept ==
  ASSUME BridgeInv, NEW k \in Socks, AcceptStep(k) \/ AcceptFails(k)
  PROVE  PeopleInv'
  <1> USE BridgeAssumption DEF BridgeInv, PeopleInv, TypeOK, aGoto
  <1>1. pc \notin Early /\ UNCHANGED pc
    BY DEF AcceptStep, AcceptCheck, Accept, AcceptFails, AppendClient, EarlyInv, Early
  <1>2. EarlyInv'
    BY <1>1 DEF EarlyInv
  <1>3. CASE AcceptCheck(k) \/ AcceptFails(k)
    <2>1. UNCHANGED <<got, list, kind, sock, handling>>
      BY <1>3 DEF AcceptCheck, AcceptFails
    <2>2. ListMatchesReaders'
      BY <2>1, SlicesKept
    <2> QED
      BY <1>2, <2>1, <2>2 DEF ClientInv, HandInv, MutexInv
  <1>4. CASE Accept(k)
    <2>1. PICK c \in Clients :
              /\ sock[c] = "none"
              /\ kind' = [kind EXCEPT ![c] = k]
              /\ sock' = [sock EXCEPT ![c] = "open"]
              /\ got' = [got EXCEPT ![k] = c]
      BY <1>4 DEF Accept
    <2>2. UNCHANGED <<list, handling>> /\ kind[c] = "none" /\ hpc[c] = "none"
      BY <1>4, <2>1 DEF Accept, ClientInv
    <2>3. k # "none"
      BY DEF Socks
    <2>4. ClientInv'
      BY <2>1, <2>2, <2>3 DEF ClientInv
    <2>5. HandInv'
      <3>1. \A j \in Socks : got[j] # NoClient => got[j] # c /\ got[j] \in Clients
        BY <2>2 DEF HandInv, Socks
      <3> QED
        BY <2>1, <2>2, <3>1 DEF HandInv
    <2>6. ListMatchesReaders' /\ MutexInv'
      BY <2>1, <2>2, SlicesKept DEF MutexInv
    <2> QED
      BY <1>2, <2>4, <2>5, <2>6
  <1>5. CASE AppendClient(k)
    <2> DEFINE c == got[k]
    <2>1. /\ c \in Clients /\ kind[c] = k /\ hpc[c] = "none"
          /\ list' = [list EXCEPT ![k] = Append(list[k], c)]
          /\ got' = [got EXCEPT ![k] = NoClient]
          /\ hpc' = [hpc EXCEPT ![c] = "loop"]
          /\ UNCHANGED <<kind, sock, writeMu>>
      BY <1>5 DEF AppendClient, HandInv
    <2>2. sock[c] # "none"
      BY <2>1 DEF ClientInv, Socks
    <2>3. ClientInv' /\ MutexInv'
      BY <2>1, <2>2 DEF ClientInv, MutexInv
    <2>4. HandInv'
      BY <2>1 DEF HandInv
    <2>5. ListMatchesReaders'
      <3>1. c \notin ToSet(list[k]) /\ Distinct(list[k])
        BY <2>1 DEF ListMatchesReaders, Distinct
      <3>2. /\ Distinct(Append(list[k], c))
            /\ ToSet(Append(list[k], c)) = ToSet(list[k]) \cup {c}
        BY <2>1, <3>1, AppendDistinct
      <3>3. /\ list'[k] = Append(list[k], c)
            /\ \A j \in Socks \ {k} : list'[j] = list[j]
        BY <2>1
      <3>4. /\ \A j \in Socks : Distinct(list'[j])
            /\ ToSet(list'[k]) = ToSet(list[k]) \cup {c}
            /\ \A j \in Socks \ {k} : ToSet(list'[j]) = ToSet(list[j])
        BY <3>2, <3>3 DEF ListMatchesReaders, Distinct
      <3>5. \A j \in Socks :
                ToSet(list'[j]) = {d \in Clients : kind'[d] = j /\ hpc'[d] \notin {"none", "ended"}}
        BY <2>1, <3>4 DEF ListMatchesReaders
      <3> QED
        BY <3>4, <3>5 DEF ListMatchesReaders, Distinct
    <2> QED
      BY <1>2, <2>3, <2>4, <2>5
  <1> QED
    BY <1>3, <1>4, <1>5 DEF AcceptStep

\* A step of a client's goroutine keeps the clients in order.
LEMMA PeopleHandler ==
  ASSUME BridgeInv, NEW c \in Clients,
         HandlerStep(c) \/ ReadChunk(c) \/ ReadFails(c) \/ WriteReturns(c)
  PROVE  PeopleInv'
  <1> USE DEF BridgeInv, PeopleInv, TypeOK, hGoto
  <1>1. hpc[c] \notin {"none", "ended"} /\ UNCHANGED <<pc, apc, got, kind>>
    BY DEF HandlerStep, ReadCheck, ReadChunk, ReadFails, LockWrite, WriteReturns,
           CloseClient, RemoveClient
  <1>2. sock[c] # "none" /\ kind[c] \in Socks
    BY <1>1 DEF ClientInv
  <1>3. pc \notin Early /\ EarlyInv'
    BY <1>1, <1>2 DEF EarlyInv
  <1>4. CASE ReadCheck(c) \/ ReadChunk(c) \/ ReadFails(c) \/ LockWrite(c) \/ WriteReturns(c)
    <2>1. /\ \E label \in {"close", "read", "lock", "loop", "write"} :
                 hpc' = [hpc EXCEPT ![c] = label]
          /\ UNCHANGED <<list, sock>>
      BY <1>4 DEF ReadCheck, ReadChunk, ReadFails, LockWrite, WriteReturns
    <2>2. ListMatchesReaders' /\ HandInv' /\ ClientInv'
      BY <1>1, <1>2, <2>1, SlicesKept DEF HandInv, ClientInv
    <2>3. MutexInv'
      <3>1. CASE LockWrite(c)
        BY <3>1, BridgeAssumption DEF LockWrite, MutexInv
      <3>2. CASE WriteReturns(c)
        BY <3>2 DEF WriteReturns, MutexInv
      <3>3. CASE ReadCheck(c) \/ ReadChunk(c) \/ ReadFails(c)
        BY <3>3 DEF ReadCheck, ReadChunk, ReadFails, MutexInv
      <3> QED
        BY <1>4, <3>1, <3>2, <3>3
    <2> QED
      BY <1>3, <2>2, <2>3
  <1>5. CASE CloseClient(c)
    <2>1. ListMatchesReaders'
      BY <1>1, <1>5, SlicesKept DEF CloseClient
    <2> QED
      BY <1>1, <1>2, <1>3, <1>5, <2>1 DEF CloseClient, HandInv, ClientInv, MutexInv
  <1>6. CASE RemoveClient(c)
    <2> DEFINE k == kind[c]
    <2>1. /\ list' = [list EXCEPT ![k] = Without(list[k], c)]
          /\ hpc' = [hpc EXCEPT ![c] = "ended"] /\ hpc[c] = "remove"
          /\ UNCHANGED <<sock, writeMu>>
      BY <1>6 DEF RemoveClient
    <2>2. ClientInv' /\ HandInv' /\ MutexInv'
      BY <1>1, <1>2, <2>1 DEF ClientInv, HandInv, MutexInv
    <2>3. ListMatchesReaders'
      <3>1. /\ Distinct(Without(list[k], c))
            /\ ToSet(Without(list[k], c)) = ToSet(list[k]) \ {c}
        <4>1. list[k] \in Seq(Clients) /\ Distinct(list[k])
          BY <1>2 DEF ListMatchesReaders, Distinct
        <4> QED
          BY <4>1, WithoutDistinct
      <3>2. /\ list'[k] = Without(list[k], c)
            /\ \A j \in Socks \ {k} : list'[j] = list[j]
        BY <1>2, <2>1
      <3>3. /\ \A j \in Socks : Distinct(list'[j])
            /\ ToSet(list'[k]) = ToSet(list[k]) \ {c}
            /\ \A j \in Socks \ {k} : ToSet(list'[j]) = ToSet(list[j])
        BY <3>1, <3>2 DEF ListMatchesReaders, Distinct
      <3>4. \A j \in Socks :
                ToSet(list'[j]) = {d \in Clients : kind'[d] = j /\ hpc'[d] \notin {"none", "ended"}}
        BY <1>1, <1>2, <2>1, <3>3 DEF ListMatchesReaders
      <3> QED
        BY <3>3, <3>4 DEF ListMatchesReaders, Distinct
    <2> QED
      BY <1>3, <2>2, <2>3
  <1> QED
    BY <1>4, <1>5, <1>6 DEF HandlerStep

\* Every step keeps the clients in order.
LEMMA PeopleNext == BridgeInv /\ [Next]_vars => PeopleInv'
  <1> SUFFICES ASSUME BridgeInv, [Next]_vars PROVE PeopleInv'
    OBVIOUS
  <1>1. CASE UNCHANGED vars
    BY <1>1, SlicesKept DEF BridgeInv, PeopleInv, EarlyInv, ClientInv, HandInv, MutexInv
  <1> QED
    BY <1>1, PeopleBridge, PeopleAccept, PeopleHandler DEF Next

-----------------------------------------------------------------------------
(* What is written to the clients.                                         *)

\* A message written to a client that is up to the one before it is the newest one.
LEMMA AppendNext ==
  ASSUME NEW s \in Seq(1..MaxMessages), NEW m \in 1..MaxMessages, Consecutive(s),
         s # <<>> => Last(s) = m - 1
  PROVE  /\ Append(s, m) # <<>> /\ Last(Append(s, m)) = m
         /\ Consecutive(Append(s, m))
  <1>1. /\ Len(Append(s, m)) = Len(s) + 1 /\ Append(s, m)[Len(s) + 1] = m
        /\ \A i \in 1..Len(s) : Append(s, m)[i] = s[i]
        /\ Len(s) \in Nat
    OBVIOUS
  <1>2. Append(s, m) # <<>> /\ Last(Append(s, m)) = m
    BY <1>1, EmptySeq DEF Last
  <1>3. \A i \in 1..Len(s) : Append(s, m)[i + 1] = Append(s, m)[i] + 1
    <2> SUFFICES ASSUME NEW i \in 1..Len(s)
                 PROVE  Append(s, m)[i + 1] = Append(s, m)[i] + 1
      OBVIOUS
    <2>1. CASE i = Len(s)
      <3>1. s # <<>> /\ s[Len(s)] = m - 1 /\ m \in Int
        BY <2>1, BridgeAssumption, EmptySeq DEF Last
      <3> QED
        BY <1>1, <2>1, <3>1
    <2>2. CASE i < Len(s)
      <3>1. i \in 1..(Len(s) - 1) /\ i + 1 \in 1..Len(s)
        BY <1>1, <2>2
      <3> QED
        BY <1>1, <3>1 DEF Consecutive
    <2> QED
      BY <1>1, <2>1, <2>2
  <1> QED
    BY <1>1, <1>2, <1>3 DEF Consecutive

\* The stream is whole as long as only goroutines go on, and sockets close or belong
\* to somebody who was not connected.
LEMMA StreamKept ==
  ASSUME BridgeInv, UNCHANGED <<messages, snapshot, next, received>>,
         \A c \in Clients :
             /\ hpc[c] # "none" => hpc'[c] # "none" /\ kind'[c] = kind[c]
             /\ sock'[c] = "open" => sock[c] \in {"open", "none"},
         (pc \notin {"copy", "send"} /\ pc' \notin {"copy", "send"}) \/ UNCHANGED pc
  PROVE  StreamInv'
  <1> USE DEF BridgeInv, StreamInv, TypeOK
  <1>1. \A i \in 1..Len(snapshot) : snapshot[i] \in Clients
    BY ElementOfSeq
  <1>2. SnapshotInv'
    BY <1>1 DEF SnapshotInv, Distinct
  <1>3. \A c \in Clients : received[c] # <<>> /\ sock'[c] = "open" => sock[c] = "open"
    BY DEF ReceivedInv, PeopleInv, ClientInv
  <1>4. \A c \in Clients : Behind(c)' <=> Behind(c)
    BY DEF Behind
  <1>5. ReceivedInv'
    <2> SUFFICES ASSUME NEW c \in Clients
                 PROVE  /\ received[c] # <<>> => kind'[c] = "writer" /\ hpc'[c] # "none"
                        /\ Consecutive(received[c])
                        /\ sock'[c] = "open" /\ received[c] # <<>> =>
                             /\ Last(received[c]) = IF Behind(c)' THEN messages - 1
                                                    ELSE messages
                             /\ pc' = "send" => \E i \in 1..Len(snapshot) : snapshot[i] = c
      BY DEF ReceivedInv, Consecutive, Last
    <2>1. pc' = "send" => pc = "send"
      OBVIOUS
    <2> QED
      BY <1>3, <1>4, <2>1 DEF ReceivedInv
  <1>6. PassedInv'
    <2>1. pc' # "copy" => pc # "copy"
      OBVIOUS
    <2>2. \A i \in 1..(next - 1) : i \in 1..Len(snapshot) /\ snapshot[i] \in Clients
                                   /\ hpc[snapshot[i]] # "none"
      BY <1>1 DEF SnapshotInv
    <2>3. \A i \in 1..(next - 1) : sock'[snapshot[i]] = "open" => sock[snapshot[i]] = "open"
      BY <2>2 DEF PeopleInv, ClientInv
    <2> QED
      BY <2>1, <2>3 DEF PassedInv
  <1> QED
    BY <1>2, <1>5, <1>6

\* A message has come: everybody is behind.
LEMMA StreamReceive ==
  ASSUME BridgeInv, ReceiveMessage
  PROVE  StreamInv'
  <1> USE DEF BridgeInv, StreamInv, TypeOK
  <1>1. /\ pc = "receive" /\ pc' = "copy" /\ messages' = messages + 1
        /\ UNCHANGED <<kind, sock, hpc, snapshot, next, received>>
    BY DEF ReceiveMessage
  <1>2. SnapshotInv' /\ PassedInv'
    BY <1>1 DEF SnapshotInv, PassedInv, Distinct
  <1>3. \A c \in Clients : ~Behind(c) /\ Behind(c)'
    BY <1>1 DEF Behind
  <1>4. messages' - 1 = messages
    BY <1>1, BridgeAssumption
  <1>5. ReceivedInv'
    BY <1>1, <1>3, <1>4 DEF ReceivedInv, Consecutive, Last
  <1> QED
    BY <1>2, <1>5

\* Whoever was ever written to and is connected is in the copy that Broadcast makes.
LEMMA StreamCopy ==
  ASSUME BridgeInv, CopyClients
  PROVE  StreamInv'
  <1> USE DEF BridgeInv, PeopleInv, StreamInv, TypeOK
  <1>1. /\ pc = "copy" /\ pc' = "send" /\ snapshot' = list["writer"] /\ next' = 1
        /\ UNCHANGED <<kind, sock, hpc, messages, received>>
    BY DEF CopyClients
  <1>2. /\ list["writer"] \in Seq(Clients) /\ Distinct(list["writer"])
        /\ ToSet(list["writer"]) =
               {c \in Clients : kind[c] = "writer" /\ hpc[c] \notin {"none", "ended"}}
    BY DEF ListMatchesReaders, Distinct, Socks
  <1>3. \A i \in 1..Len(list["writer"]) : list["writer"][i] \in ToSet(list["writer"])
    BY <1>2 DEF ToSet
  <1>4. SnapshotInv'
    <2>1. Len(snapshot') \in Nat
      BY <1>1, <1>2
    <2>2. next' \in 1..(Len(snapshot') + 1)
      BY <1>1, <2>1
    <2> QED
      BY <1>1, <1>2, <1>3, <2>2 DEF SnapshotInv
  <1>5. \A c \in Clients : Behind(c) /\ Behind(c)'
    BY <1>1 DEF Behind
  <1>6. ASSUME NEW c \in Clients, sock[c] = "open", received[c] # <<>>
        PROVE  \E i \in 1..Len(list["writer"]) : list["writer"][i] = c
    <2>1. c \in ToSet(list["writer"])
      BY <1>2, <1>6 DEF ReceivedInv, ClientInv
    <2> QED
      BY <1>2, <2>1 DEF ToSet
  <1>7. ReceivedInv'
    BY <1>1, <1>5, <1>6 DEF ReceivedInv, Consecutive, Last
  <1>8. PassedInv'
    BY <1>1 DEF PassedInv
  <1> QED
    BY <1>4, <1>7, <1>8

\* The next client is written to.
LEMMA StreamSend ==
  ASSUME BridgeInv, SendNext
  PROVE  StreamInv'
  <1> USE DEF BridgeInv, StreamInv, TypeOK
  <1>0. PICK d \in Clients : d = snapshot[next]
    BY ElementOfSeq DEF SendNext, SnapshotInv
  <1>1. /\ pc = "send" /\ next \in 1..Len(snapshot) /\ next' = next + 1 /\ Deliver(d)
        /\ UNCHANGED <<pc, kind, sock, hpc, messages, snapshot>>
    BY <1>0 DEF SendNext, SnapshotInv
  <1>2. /\ kind[d] = "writer" /\ hpc[d] # "none"
        /\ \A i \in 1..(next - 1) : snapshot[i] # d
    BY <1>0, <1>1 DEF SnapshotInv, Distinct
  <1>3. messages \in 1..MaxMessages
    BY <1>1, BridgeAssumption DEF SnapshotInv
  <1>4. SnapshotInv'
    BY <1>1 DEF SnapshotInv, Distinct
  <1>5. \A c \in Clients \ {d} : received'[c] = received[c] /\ (Behind(c)' <=> Behind(c))
    <2>1. \A c \in Clients \ {d} : received'[c] = received[c]
      BY <1>1, <1>2 DEF Deliver
    <2>2. \A c \in Clients \ {d} : Behind(c)' <=> Behind(c)
      <3>1. 1..(next' - 1) = 1..(next - 1) \cup {next}
        BY <1>1
      <3> QED
        BY <1>0, <1>1, <3>1 DEF Behind
    <2> QED
      BY <2>1, <2>2
  <1>6. Behind(d) /\ ~Behind(d)'
    <2>1. next \in 1..(next' - 1)
      BY <1>1
    <2> QED
      BY <1>0, <1>1, <1>2, <2>1 DEF Behind
  <1>7. /\ Consecutive(received'[d])
        /\ sock[d] = "open" => received'[d] # <<>> /\ Last(received'[d]) = messages
    <2>1. CASE sock[d] = "open"
      <3>1. received'[d] = Append(received[d], messages)
        BY <1>1, <1>2, <2>1 DEF Deliver
      <3>2. Consecutive(received[d]) /\ (received[d] # <<>> => Last(received[d]) = messages - 1)
        BY <1>2, <1>6, <2>1 DEF ReceivedInv
      <3>3. received[d] \in Seq(1..MaxMessages)
        OBVIOUS
      <3>4. /\ Append(received[d], messages) # <<>>
            /\ Last(Append(received[d], messages)) = messages
            /\ Consecutive(Append(received[d], messages))
        BY <1>3, <3>2, <3>3, AppendNext
      <3> QED
        BY <3>1, <3>4
    <2>2. CASE sock[d] # "open"
      BY <1>1, <1>2, <2>2 DEF Deliver, ReceivedInv
    <2> QED
      BY <2>1, <2>2
  <1>8. ReceivedInv'
    <2> SUFFICES ASSUME NEW c \in Clients
                 PROVE  /\ received'[c] # <<>> => kind'[c] = "writer" /\ hpc'[c] # "none"
                        /\ Consecutive(received'[c])
                        /\ sock'[c] = "open" /\ received'[c] # <<>> =>
                             /\ Last(received'[c]) = IF Behind(c)' THEN messages' - 1
                                                     ELSE messages'
                             /\ pc' = "send" => \E i \in 1..Len(snapshot') : snapshot'[i] = c
      BY DEF ReceivedInv, Consecutive, Last
    <2>1. CASE c = d
      BY <1>0, <1>1, <1>2, <1>6, <1>7, <2>1
    <2>2. CASE c # d
      BY <1>1, <1>5, <2>2 DEF ReceivedInv
    <2> QED
      BY <2>1, <2>2
  <1>9. PassedInv'
    <2>1. ASSUME NEW i \in 1..(next' - 1), sock'[snapshot'[i]] = "open"
          PROVE  received'[snapshot'[i]] # <<>>
      <3>1. CASE i = next
        BY <1>0, <1>1, <1>7, <2>1, <3>1
      <3>2. CASE i # next
        <4>1. i \in 1..(next - 1) /\ snapshot[i] \in Clients /\ snapshot[i] # d
          BY <1>1, <1>2, <3>2, ElementOfSeq
        <4> QED
          BY <1>1, <1>5, <2>1, <4>1 DEF PassedInv
      <3> QED
        BY <3>1, <3>2
    <2> QED
      BY <2>1 DEF PassedInv
  <1> QED
    BY <1>4, <1>8, <1>9

\* The broadcast has come to everybody it found.
LEMMA StreamEnds ==
  ASSUME BridgeInv, BroadcastEnds
  PROVE  StreamInv'
  <1> USE DEF BridgeInv, StreamInv, TypeOK
  <1>1. /\ pc = "send" /\ pc' = "receive" /\ next > Len(snapshot)
        /\ UNCHANGED <<kind, sock, hpc, messages, snapshot, next, received>>
    BY DEF BroadcastEnds
  <1>2. next = Len(snapshot) + 1
    <2>1. Len(snapshot) \in Nat /\ next \in 1..(Len(snapshot) + 1)
      BY LenProperties DEF SnapshotInv
    <2> QED
      BY <1>1, <2>1
  <1>3. SnapshotInv' /\ PassedInv'
    BY <1>1, <1>2 DEF SnapshotInv, PassedInv, Distinct
  <1>4. \A c \in Clients : ~Behind(c)'
    BY <1>1 DEF Behind
  <1>5. \A c \in Clients : sock[c] = "open" /\ received[c] # <<>> => ~Behind(c)
    <2>1. Len(snapshot) = next - 1
      BY <1>2
    <2> QED
      BY <1>1, <2>1 DEF ReceivedInv, Behind
  <1>6. ReceivedInv'
    BY <1>1, <1>4, <1>5 DEF ReceivedInv, Consecutive, Last
  <1> QED
    BY <1>3, <1>6

\* Every step keeps the stream whole.
LEMMA StreamNext == BridgeInv /\ [Next]_vars => StreamInv'
  <1> SUFFICES ASSUME BridgeInv, [Next]_vars PROVE StreamInv'
    OBVIOUS
  <1> USE DEF BridgeInv, TypeOK
  <1>1. CASE UNCHANGED vars
    BY <1>1, StreamKept
  <1>2. CASE ReceiveMessage \/ CastStep
    BY <1>2, StreamReceive, StreamCopy, StreamSend, StreamEnds DEF CastStep
  <1>3. CASE SetupStep \/ ReceiveFails \/ CleanUpStep
    <2>1. UNCHANGED <<kind, hpc, messages, snapshot, next, received>>
      BY <1>3 DEF SetupStep, ListenWriter, ListenReader, ListenOn, Greet, SpawnAcceptors,
           Store, ReceiveFails, CleanUpStep, CancelServers, CloseWriters, CloseReaders,
           CloseListeners, Delete
    <2>2. pc \notin {"copy", "send"} /\ pc' \notin {"copy", "send"}
      BY <1>3 DEF SetupStep, ListenWriter, ListenReader, ListenOn, Greet, SpawnAcceptors,
           Store, ReceiveFails, CleanUpStep, CancelServers, CloseWriters, CloseReaders,
           CloseListeners, Delete
    <2>3. \A c \in Clients : sock'[c] = "open" => sock[c] = "open"
      BY <1>3 DEF SetupStep, ListenWriter, ListenReader, ListenOn, Greet, SpawnAcceptors,
           Store, ReceiveFails, CleanUpStep, CancelServers, CloseWriters, CloseReaders,
           CloseListeners, Delete, CloseListed
    <2> QED
      BY <2>1, <2>2, <2>3, StreamKept
  <1>4. ASSUME NEW k \in Socks, AcceptStep(k) \/ AcceptFails(k)
        PROVE  StreamInv'
    <2>1. UNCHANGED <<pc, messages, snapshot, next, received>>
      BY <1>4 DEF AcceptStep, AcceptCheck, Accept, AcceptFails, AppendClient
    <2>2. \A c \in Clients : /\ hpc[c] # "none" => hpc'[c] # "none" /\ kind'[c] = kind[c]
                             /\ sock'[c] = "open" => sock[c] \in {"open", "none"}
      <3>1. CASE AcceptCheck(k) \/ AcceptFails(k)
        BY <3>1 DEF AcceptCheck, AcceptFails
      <3>2. CASE Accept(k)
        BY <3>2 DEF Accept, PeopleInv, ClientInv
      <3>3. CASE AppendClient(k)
        BY <3>3 DEF AppendClient
      <3> QED
        BY <1>4, <3>1, <3>2, <3>3 DEF AcceptStep
    <2> QED
      BY <2>1, <2>2, StreamKept
  <1>5. ASSUME NEW c \in Clients,
               HandlerStep(c) \/ ReadChunk(c) \/ ReadFails(c) \/ WriteReturns(c)
        PROVE  StreamInv'
    <2>1. UNCHANGED <<pc, kind, messages, snapshot, next, received>>
      BY <1>5 DEF HandlerStep, ReadCheck, ReadChunk, ReadFails, LockWrite, WriteReturns,
           CloseClient, RemoveClient
    <2>2. \E label \in {"close", "read", "lock", "loop", "write", "remove", "ended"} :
              hpc' = [hpc EXCEPT ![c] = label]
      BY <1>5 DEF HandlerStep, ReadCheck, ReadChunk, ReadFails, LockWrite, WriteReturns,
           CloseClient, RemoveClient, hGoto
    <2>3. \A d \in Clients : sock'[d] = "open" => sock[d] = "open"
      BY <1>5 DEF HandlerStep, ReadCheck, ReadChunk, ReadFails, LockWrite, WriteReturns,
           CloseClient, RemoveClient
    <2> QED
      BY <2>1, <2>2, <2>3, StreamKept
  <1> QED
    BY <1>1, <1>2, <1>3, <1>4, <1>5 DEF Next

-----------------------------------------------------------------------------
(* The theorems.                                                           *)

\* The invariant is inductive.
LEMMA BridgeInduction == Spec => []BridgeInv
  <1>1. BridgeInv /\ [Next]_vars => BridgeInv'
    BY TypeNext, PeopleNext, StreamNext DEF BridgeInv
  <1> QED
    BY BridgeInit, <1>1, PTL DEF Spec

\* Types, and the client an accepting goroutine has in hand between Accept and the
\* append (acceptWriterUnixSockClients, acceptReaderUnixSockClients).
THEOREM TypeCorrect == Spec => []TypeOK
  <1>1. BridgeInv => TypeOK
    BY DEF BridgeInv
  <1> QED
    BY <1>1, BridgeInduction, PTL

\* However many clients come and go, and whatever the clean-up does meanwhile, each
\* slice of clients has exactly those whose goroutine has begun and not removed them.
THEOREM SlicesMatch == Spec => []ListMatchesReaders
  <1>1. BridgeInv => ListMatchesReaders
    BY DEF BridgeInv, PeopleInv
  <1> QED
    BY <1>1, BridgeInduction, PTL

\* WriteMu, and the order of the greeting and the goroutines, keep the writers of the
\* WebSocket apart, for any number of reader clients.
THEOREM WritersApart == Spec => []OneWebSocketWriter
  <1>1. ASSUME BridgeInv PROVE OneWebSocketWriter
    <2> USE <1>1 DEF BridgeInv, PeopleInv
    <2>1. ASSUME NEW c \in Clients, hpc[c] = "write"
          PROVE  pc # "greet" /\ \A d \in Clients \ {c} : hpc[d] # "write"
      <3>1. pc \notin Early
        BY <2>1 DEF EarlyInv, ClientInv
      <3> QED
        BY <2>1, <3>1 DEF MutexInv, Early
    <2> QED
      BY <2>1 DEF OneWebSocketWriter
  <1> QED
    BY <1>1, BridgeInduction, PTL

\* Broadcast reaches every client it found, and no client of the writer socket misses
\* a message or gets one twice, however long the stream is.
THEOREM StreamsAreWhole == Spec => []StreamIsWhole
  <1>1. ASSUME BridgeInv PROVE StreamIsWhole
    <2> USE <1>1 DEF BridgeInv, TypeOK, StreamInv
    <2>1. \A c \in Clients : \A i \in 1..(Len(received[c]) - 1) :
              received[c][i + 1] = received[c][i] + 1
      BY DEF ReceivedInv, Consecutive
    <2>2. ASSUME pc = "receive", NEW c \in ToSet(snapshot), sock[c] = "open"
          PROVE  received[c] # <<>> /\ Last(received[c]) = messages
      <3>1. PICK i \in 1..Len(snapshot) : snapshot[i] = c
        BY <2>2 DEF ToSet
      <3>2. c \in Clients /\ i \in 1..(next - 1) /\ ~Behind(c)
        BY <2>2, <3>1, ElementOfSeq DEF SnapshotInv, Behind
      <3>3. received[c] # <<>>
        BY <2>2, <3>1, <3>2 DEF PassedInv
      <3> QED
        BY <2>2, <3>2, <3>3 DEF ReceivedInv
    <2> QED
      BY <2>1, <2>2 DEF StreamIsWhole
  <1> QED
    BY <1>1, BridgeInduction, PTL
=============================================================================
