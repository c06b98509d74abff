----------------------------- MODULE UnixBridge -----------------------------
(***************************************************************************)
(* One WebSocket connection bridged to a pair of Unix sockets              *)
(* (wsunixbridge).  What the WebSocket's peer sends is broadcast to the    *)
(* clients of the writer socket; what a client of the reader socket sends  *)
(* goes to the WebSocket.                                                  *)
(*                                                                         *)
(* The bridge goroutine sets the sockets up, reads the WebSocket and, when *)
(* that ends, takes everything down.  Each socket has a goroutine that     *)
(* accepts and each client one that reads from it.  A section under        *)
(* ClientsMux is one step: nothing in it can block.  A Write to a client,  *)
(* to one that does not read, may never return, and the same goes for a    *)
(* WriteMessage to the WebSocket: neither has a deadline.                  *)
(***************************************************************************)
EXTENDS Naturals, Sequences, FiniteSets, SequencesExt

CONSTANTS
    Clients,     \* the clients, each of one socket or the other
    NoClient,    \* not a client
    MaxMessages, \* bound: messages the WebSocket's peer sends
    MaxChunks    \* bound: chunks each reader client sends

ASSUME BridgeAssumption ==
    /\ NoClient \notin Clients
    /\ MaxMessages \in Nat /\ MaxChunks \in Nat

Socks == {"writer", "reader"}

VARIABLES
    pc,        \* program counter of the bridge goroutine
    stored,    \* connectionSockets holds the connection
    cancelled, \* serverCtx is cancelled
    listener,  \* the listener of each socket
    apc,       \* program counter of each socket's accepting goroutine
    got,       \* the client it has accepted and not yet appended
    list,      \* the Clients of each socket
    kind,      \* the socket each client has connected to
    sock,      \* the bridge's end of a client's connection
    hpc,       \* program counter of each client's goroutine
    chunks,    \* how many chunks were read from a reader client
    writeMu,   \* the client whose goroutine holds WriteMu
    messages,  \* how many messages came from the WebSocket
    snapshot,  \* Broadcast's copy of the clients
    next,      \* the index in it that Broadcast has come to
    received   \* history: the messages written to each client, in order

bridge == <<stored, cancelled, listener>>
accepting == <<apc, got, list>>
handling == <<hpc, chunks, writeMu>>
casting == <<messages, snapshot, next, received>>
vars == <<pc, bridge, accepting, kind, sock, handling, casting>>

Init ==
    /\ pc = "listenWriter" /\ stored = FALSE /\ cancelled = FALSE
    /\ listener = [k \in Socks |-> "none"]
    /\ apc = [k \in Socks |-> "none"] /\ got = [k \in Socks |-> NoClient]
    /\ list = [k \in Socks |-> <<>>]
    /\ kind = [c \in Clients |-> "none"] /\ sock = [c \in Clients |-> "none"]
    /\ hpc = [c \in Clients |-> "none"] /\ chunks = [c \in Clients |-> 0]
    /\ writeMu = NoClient
    /\ messages = 0 /\ snapshot = <<>> /\ next = 1
    /\ received = [c \in Clients |-> <<>>]

-----------------------------------------------------------------------------
(* The bridge goroutine: setupConnection.                                  *)

\* The sockets are created one after the other.  A failure ends the setup, and
\* leaves open what was created.
ListenOn(k, after) ==
    /\ \/ listener' = [listener EXCEPT ![k] = "open"] /\ pc' = after
       \/ UNCHANGED listener /\ pc' = "failed"
    /\ UNCHANGED <<stored, cancelled, accepting, sock, kind, handling, casting>>

ListenWriter == pc = "listenWriter" /\ ListenOn("writer", "listenReader")
ListenReader == pc = "listenReader" /\ ListenOn("reader", "greet")

\* The initialization event goes to the peer, or cannot be written.
Greet ==
    /\ pc = "greet"
    /\ pc' \in {"spawn", "failed"}
    /\ UNCHANGED <<bridge, accepting, sock, kind, handling, casting>>

SpawnAcceptors ==
    /\ pc = "spawn"
    /\ apc' = [k \in Socks |-> "loop"]
    /\ pc' = "store"
    /\ UNCHANGED <<bridge, got, list, sock, kind, handling, casting>>

Store ==
    /\ pc = "store"
    /\ stored' = TRUE
    /\ pc' = "receive"
    /\ UNCHANGED <<cancelled, listener, accepting, sock, kind, handling, casting>>

-----------------------------------------------------------------------------
(* The bridge goroutine: handleWebSocketMessages and Broadcast.            *)

ReceiveMessage ==
    /\ pc = "receive" /\ messages < MaxMessages
    /\ messages' = messages + 1
    /\ pc' = "copy"
    /\ UNCHANGED <<bridge, accepting, sock, kind, handling, snapshot, next, received>>

\* ReadMessage fails: the peer has closed, or is gone.
ReceiveFails ==
    /\ pc = "receive"
    /\ pc' = "cancel"
    /\ UNCHANGED <<bridge, accepting, sock, kind, handling, casting>>

\* Broadcast copies the clients under the read lock.
CopyClients ==
    /\ pc = "copy"
    /\ snapshot' = list["writer"] /\ next' = 1
    /\ pc' = "send"
    /\ UNCHANGED <<bridge, accepting, sock, kind, handling, messages, received>>

\* The message is written to client c, unless the bridge's end is closed.
Deliver(c) ==
    received' = IF sock[c] = "open"
                THEN [received EXCEPT ![c] = Append(@, messages)]
                ELSE received

\* Mutant: Broadcast walks along the clients themselves and not along a copy.
SendNext_Live ==
    /\ pc = "send" /\ next <= Len(snapshot)
    /\ IF next <= Len(list["writer"]) THEN Deliver(list["writer"][next])
       ELSE UNCHANGED received
    /\ next' = next + 1
    /\ UNCHANGED <<pc, bridge, accepting, sock, kind, handling, messages, snapshot>>

SendNext ==
    /\ pc = "send" /\ next <= Len(snapshot)
    /\ Deliver(snapshot[next])
    /\ next' = next + 1
    /\ UNCHANGED <<pc, bridge, accepting, sock, kind, handling, messages, snapshot>>

BroadcastEnds ==
    /\ pc = "send" /\ next > Len(snapshot)
    /\ pc' = "receive"
    /\ UNCHANGED <<bridge, accepting, sock, kind, handling, casting>>

-----------------------------------------------------------------------------
(* The bridge goroutine: the deferred clean-up and removeConnection.       *)

CancelServers ==
    /\ pc = "cancel"
    /\ cancelled' = TRUE
    /\ pc' = "closeWriters"
    /\ UNCHANGED <<stored, listener, accepting, sock, kind, handling, casting>>

\* closeAllClients closes every client that is in the list now.
CloseListed(k) ==
    sock' = [c \in Clients |-> IF Contains(list[k], c) THEN "closed" ELSE sock[c]]

CloseWriters ==
    /\ pc = "closeWriters"
    /\ CloseListed("writer")
    /\ pc' = "closeReaders"
    /\ UNCHANGED <<bridge, accepting, kind, handling, casting>>

CloseReaders ==
    /\ pc = "closeReaders"
    /\ CloseListed("reader")
    /\ pc' = "closeListeners"
    /\ UNCHANGED <<bridge, accepting, kind, handling, casting>>

\* closeListeners; closing a Unix listener unlinks its file, which
\* removeSocketFiles then finds gone.
CloseListeners ==
    /\ pc = "closeListeners"
    /\ listener' = [k \in Socks |-> "closed"]
    /\ pc' = "delete"
    /\ UNCHANGED <<stored, cancelled, accepting, sock, kind, handling, casting>>

Delete ==
    /\ pc = "delete"
    /\ stored' = FALSE
    /\ pc' = "ended"
    /\ UNCHANGED <<cancelled, listener, accepting, sock, kind, handling, casting>>

SetupStep == ListenWriter \/ ListenReader \/ Greet \/ SpawnAcceptors \/ Store
CastStep == CopyClients \/ SendNext \/ BroadcastEnds
CleanUpStep ==
    CancelServers \/ CloseWriters \/ CloseReaders \/ CloseListeners \/ Delete

-----------------------------------------------------------------------------
(* The goroutine that accepts the clients of socket k.                     *)

aGoto(k, label) == apc' = [apc EXCEPT ![k] = label]

AcceptCheck(k) ==
    /\ apc[k] = "loop"
    /\ aGoto(k, IF cancelled THEN "ended" ELSE "accept")
    /\ UNCHANGED <<pc, bridge, got, list, sock, kind, handling, casting>>

\* A client has connected.
Accept(k) ==
    /\ apc[k] = "accept" /\ listener[k] = "open"
    /\ \E c \in Clients :
           /\ sock[c] = "none"
           /\ kind' = [kind EXCEPT ![c] = k]
           /\ sock' = [sock EXCEPT ![c] = "open"]
           /\ got' = [got EXCEPT ![k] = c]
    /\ aGoto(k, "append")
    /\ UNCHANGED <<pc, bridge, list, handling, casting>>

\* Accept fails: the listener is closed, or the system is out of descriptors.
AcceptFails(k) ==
    /\ apc[k] = "accept"
    /\ aGoto(k, IF cancelled THEN "ended" ELSE "loop")
    /\ UNCHANGED <<pc, bridge, got, list, sock, kind, handling, casting>>

\* The client is appended to Clients, and a goroutine reads from it.
AppendClient(k) ==
    /\ apc[k] = "append"
    /\ list' = [list EXCEPT ![k] = Append(@, got[k])]
    /\ got' = [got EXCEPT ![k] = NoClient]
    /\ hpc' = [hpc EXCEPT ![got[k]] = "loop"]
    /\ aGoto(k, "loop")
    /\ UNCHANGED <<pc, bridge, sock, kind, chunks, writeMu, casting>>

AcceptStep(k) ==
    \/ AcceptCheck(k) \/ Accept(k) \/ AppendClient(k)
    \/ listener[k] = "closed" /\ AcceptFails(k)

-----------------------------------------------------------------------------
(* The goroutine that reads from client c.                                 *)

hGoto(c, label) == hpc' = [hpc EXCEPT ![c] = label]

\* Mutant: the loop does not look at the context.
ReadCheck_NoContext(c) ==
    /\ hpc[c] = "loop"
    /\ hGoto(c, "read")
    /\ UNCHANGED <<pc, bridge, accepting, sock, kind, chunks, writeMu, casting>>

ReadCheck(c) ==
    /\ hpc[c] = "loop"
    /\ hGoto(c, IF cancelled THEN "close" ELSE "read")
    /\ UNCHANGED <<pc, bridge, accepting, sock, kind, chunks, writeMu, casting>>

\* A reader client's chunk is on its way to the WebSocket; what a client of the
\* writer socket sends is dropped.
ReadChunk(c) ==
    /\ hpc[c] = "read" /\ sock[c] = "open"
    /\ \/ /\ kind[c] = "reader" /\ chunks[c] < MaxChunks
          /\ chunks' = [chunks EXCEPT ![c] = @ + 1]
          /\ hGoto(c, "lock")
       \/ kind[c] = "writer" /\ hGoto(c, "loop") /\ UNCHANGED chunks
    /\ UNCHANGED <<pc, bridge, accepting, sock, kind, writeMu, casting>>

\* Read fails: the client has hung up, or the bridge's end is closed.
ReadFails(c) ==
    /\ hpc[c] = "read"
    /\ hGoto(c, "close")
    /\ UNCHANGED <<pc, bridge, accepting, sock, kind, chunks, writeMu, casting>>

\* Mutant: the WebSocket is written without WriteMu.
LockWrite_Free(c) ==
    /\ hpc[c] = "lock"
    /\ writeMu' = c
    /\ hGoto(c, "write")
    /\ UNCHANGED <<pc, bridge, accepting, sock, kind, chunks, casting>>

LockWrite(c) ==
    /\ hpc[c] = "lock" /\ writeMu = NoClient
    /\ writeMu' = c
    /\ hGoto(c, "write")
    /\ UNCHANGED <<pc, bridge, accepting, sock, kind, chunks, casting>>

\* WriteMessage returns, and with it WriteMu; after an error the client is done.
WriteReturns(c) ==
    /\ hpc[c] = "write"
    /\ writeMu' = NoClient
    /\ hGoto(c, "loop") \/ hGoto(c, "close")
    /\ UNCHANGED <<pc, bridge, accepting, sock, kind, chunks, casting>>

CloseClient(c) ==
    /\ hpc[c] = "close"
    /\ sock' = [sock EXCEPT ![c] = "closed"]
    /\ hGoto(c, "remove")
    /\ UNCHANGED <<pc, bridge, accepting, kind, chunks, writeMu, casting>>

\* Mutant: the client after it is cut out of the slice too.
RemoveClient_Wide(c) ==
    /\ hpc[c] = "remove"
    /\ LET k == kind[c]
           i == CHOOSE i \in 1..Len(list[k]) : list[k][i] = c
       IN  list' = [list EXCEPT ![k] = SubSeq(@, 1, i - 1) \o SubSeq(@, i + 2, Len(@))]
    /\ hGoto(c, "ended")
    /\ UNCHANGED <<pc, bridge, apc, got, sock, kind, chunks, writeMu, casting>>

\* The slice with the client cut out, at its place in it.
Without(slice, c) ==
    IF Contains(slice, c) THEN RemoveAt(slice, CHOOSE i \in 1..Len(slice) : slice[i] = c)
    ELSE slice

\* The client leaves Clients, under ClientsMux.
RemoveClient(c) ==
    /\ hpc[c] = "remove"
    /\ list' = [list EXCEPT ![kind[c]] = Without(@, c)]
    /\ hGoto(c, "ended")
    /\ UNCHANGED <<pc, bridge, apc, got, sock, kind, chunks, writeMu, casting>>

HandlerStep(c) ==
    \/ ReadCheck(c) \/ LockWrite(c) \/ CloseClient(c) \/ RemoveClient(c)
    \/ sock[c] = "closed" /\ ReadFails(c)

-----------------------------------------------------------------------------

Next ==
    \/ SetupStep \/ ReceiveMessage \/ ReceiveFails \/ CastStep \/ CleanUpStep
    \/ \E k \in Socks : AcceptStep(k) \/ AcceptFails(k)
    \/ \E c \in Clients :
           HandlerStep(c) \/ ReadChunk(c) \/ ReadFails(c) \/ WriteReturns(c)

Spec == Init /\ [][Next]_vars

(***************************************************************************)
(* Fairness.  A goroutine that can run does run; a Read or an Accept on a  *)
(* socket that is closed fails.  Nothing obliges a Write to a client or a  *)
(* WriteMessage to return, a client to send or to go, or the peer of the   *)
(* WebSocket to do anything.                                               *)
(***************************************************************************)
Fairness ==
    /\ WF_vars(SetupStep) /\ WF_vars(CleanUpStep)
    /\ \A k \in Socks : WF_vars(AcceptStep(k))
    /\ \A c \in Clients : WF_vars(HandlerStep(c))

FairSpec == Spec /\ Fairness

-----------------------------------------------------------------------------
(* Properties.                                                             *)

\* Every variable keeps its type, and an accepting goroutine has a client in hand
\* exactly between Accept and the append.
TypeOK ==
    /\ pc \in {"listenWriter", "listenReader", "greet", "spawn", "store", "receive",
               "copy", "send", "cancel", "closeWriters", "closeReaders",
               "closeListeners", "delete", "ended", "failed"}
    /\ stored \in BOOLEAN /\ cancelled \in BOOLEAN
    /\ listener \in [Socks -> {"none", "open", "closed"}]
    /\ apc \in [Socks -> {"none", "loop", "accept", "append", "ended"}]
    /\ got \in [Socks -> Clients \cup {NoClient}]
    /\ \A k \in Socks : apc[k] = "append" <=> got[k] # NoClient
    /\ list \in [Socks -> Seq(Clients)]
    /\ kind \in [Clients -> Socks \cup {"none"}]
    /\ sock \in [Clients -> {"none", "open", "closed"}]
    /\ hpc \in [Clients -> {"none", "loop", "read", "lock", "write", "close",
                            "remove", "ended"}]
    /\ chunks \in [Clients -> 0..MaxChunks]
    /\ writeMu \in Clients \cup {NoClient}
    /\ messages \in 0..MaxMessages
    /\ snapshot \in Seq(Clients) /\ next \in Nat
    /\ received \in [Clients -> Seq(1..MaxMessages)]

\* Clients holds each client exactly once from the moment a goroutine reads from
\* it until that goroutine has removed it, so a broadcast and the clean-up reach
\* everybody they must and nobody stays in the slice.
ListMatchesReaders ==
    \A k \in Socks :
        /\ \A i, j \in 1..Len(list[k]) : list[k][i] = list[k][j] => i = j
        /\ ToSet(list[k]) =
               {c \in Clients : kind[c] = k /\ hpc[c] \notin {"none", "ended"}}

\* What is written to a client of the writer socket is a stretch of what the
\* WebSocket sent, without a gap or a repetition, and a broadcast reaches every
\* client it found, however many others come and go while it is under way.
StreamIsWhole ==
    /\ \A c \in Clients : \A i \in 1..(Len(received[c]) - 1) :
           received[c][i + 1] = received[c][i] + 1
    /\ pc = "receive" =>
           \A c \in ToSet(snapshot) : sock[c] = "open" =>
               received[c] # <<>> /\ Last(received[c]) = messages

\* The WebSocket never has two writers at a time, which gorilla/websocket forbids
\* ("Mutex to serialize concurrent WebSocket writes", connection.go:20): neither
\* two clients nor a client and the greeting, which is written without WriteMu.
OneWebSocketWriter ==
    \A c \in Clients : hpc[c] = "write" =>
        pc # "greet" /\ \A d \in Clients \ {c} : hpc[d] # "write"

\* When the WebSocket has ended, both listeners, every client ever accepted and
\* every goroutine go, also a client that is accepted while the clean-up is under
\* way.  Only those wait that are behind a WriteMessage that does not return.
BridgeTearsDown ==
    cancelled ~>
        /\ ~stored /\ \A k \in Socks : listener[k] = "closed" /\ apc[k] = "ended"
        /\ \A c \in Clients : sock[c] # "open"
        /\ \/ \A c \in Clients : hpc[c] \in {"none", "ended"}
           \/ \E c \in Clients : hpc[c] = "write"
=============================================================================
