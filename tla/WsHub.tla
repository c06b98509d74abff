------------------------------- MODULE WsHub -------------------------------
(***************************************************************************)
(* The hub of wshub (hub.go, clients_map.go): Close, AddClient,            *)
(* GetOrCreateClient, RemoveClient, and the goroutine that runs each       *)
(* client and takes it out of the map when Run returns.  The mutex mu is   *)
(* held by Close (for as long as it takes), AddClient and                  *)
(* GetOrCreateClient; RemoveClient and the ends of the Run goroutines do   *)
(* not take it.                                                            *)
(*                                                                         *)
(* A client is what HubClient says, which WsClient implements: Stop does   *)
(* nothing when Run is not running, and takes effect in one step of the    *)
(* call otherwise; Run returns, stopped, once the client is stopped or the *)
(* hub is done.  RunStart, RunAwake, RunStop, SelfStop and ClientStop are  *)
(* HubClient's, for each client.                                           *)
(***************************************************************************)
EXTENDS Naturals, FiniteSets

CONSTANTS
    Ids,        \* client identifiers
    NoClient,   \* what the map yields for an absent identifier
    Closers,    \* goroutines that call Close
    Upgraders,  \* upgrade handlers: each calls GetOrCreateClient or AddClient
    Removers    \* goroutines that call RemoveClient

\* Callers are told apart, and none is called what the mutex calls its absence.
ASSUME HubAssumption ==
    /\ Closers \cap Upgraders = {} /\ Closers \cap Removers = {}
    /\ Upgraders \cap Removers = {}
    /\ NoClient \notin Upgraders
    /\ "free" \notin Closers \cup Upgraders

\* A client object is named by the call that makes it.
Clients == Upgraders

VARIABLES
    mu,        \* the holder of the mutex, or "free"
    once,      \* stopOnce: "free", "running" or "done"
    hubDone,   \* doneCh is closed
    map,       \* clientsMap: identifier -> client
    run,       \* the Run goroutine of each client
    stopped,   \* the clients that are stopped
    stopReq,   \* clients Close has started a Stop goroutine for
    pc,        \* program counters of the closers, upgraders and removers
    want,      \* the identifier an upgrader or remover was called with; the
               \* client an upgrader makes has it as its id
    held,      \* the client a remover took out of the map
    listed     \* the identifiers Close found in the map

hub == <<mu, once, hubDone, listed>>
caller == <<pc, want, held>>
vars == <<hub, caller, map, run, stopped, stopReq>>

Callers == Closers \cup Upgraders \cup Removers

\* The states of a Run goroutine.  "spawned": it exists and isRunning is not yet set; "running" and
\* "stopping": isRunning; "leaving": Run has returned; "ended": wg.Done.
RunPCs == {"off", "spawned", "running", "stopping", "leaving", "ended"}

Init ==
    /\ mu = "free" /\ once = "free" /\ hubDone = FALSE /\ listed = {}
    /\ map = [i \in Ids |-> NoClient]
    /\ run = [c \in Clients |-> "off"]
    /\ stopped = {} /\ stopReq = {}
    /\ pc = [p \in Callers |-> "idle"]
    /\ want \in [Upgraders \cup Removers -> Ids]
    /\ held = [r \in Removers |-> NoClient]

goto(p, label) == pc' = [pc EXCEPT ![p] = label]

\* clientsMap.Remove(i), by identifier.
MapRemove(i) == map' = [map EXCEPT ![i] = NoClient]

\* Client.Stop, called by anybody: it bails out unless Run is running.
ClientStop(c) ==
    stopped' = IF run[c] \in {"running", "stopping"} THEN stopped \cup {c}
                                                     ELSE stopped

Lock(p) == mu = "free" /\ mu' = p
Unlock == mu' = "free"

-----------------------------------------------------------------------------
(* The upgrade handler's GetOrCreateClient or AddClient.                   *)

\* Mutant: GetOrCreateClient without the mutex.
UpgradeLock_None(u) ==
    /\ pc[u] = "idle"
    /\ goto(u, "locked")
    /\ UNCHANGED <<hub, want, held, map, run, stopped, stopReq>>

UpgradeLock(u) ==
    /\ pc[u] = "idle" /\ Lock(u)
    /\ goto(u, "locked")
    /\ UNCHANGED <<once, hubDone, listed, want, held, map, run, stopped, stopReq>>

\* The client exists: it is returned.
UpgradeFound(u) ==
    /\ pc[u] = "locked" /\ map[want[u]] # NoClient
    /\ Unlock /\ goto(u, "returned")
    /\ UNCHANGED <<once, hubDone, listed, want, held, map, run, stopped, stopReq>>

\* The client does not exist.  AddClient comes here too, with the fresh identifier
\* that is generated when the request names none.
UpgradeAbsent(u) ==
    /\ pc[u] = "locked" /\ map[want[u]] = NoClient
    /\ goto(u, "absent")
    /\ UNCHANGED <<hub, want, held, map, run, stopped, stopReq>>

\* SetHub, clients.Add.
UpgradeAdd(u) ==
    /\ pc[u] = "absent"
    /\ map' = [map EXCEPT ![want[u]] = u]
    /\ goto(u, "added")
    /\ UNCHANGED <<hub, want, held, run, stopped, stopReq>>

\* wg.Go(Run), and the mutex is released.
UpgradeSpawn(u) ==
    /\ pc[u] = "added"
    /\ run' = [run EXCEPT ![u] = "spawned"]
    /\ Unlock /\ goto(u, "returned")
    /\ UNCHANGED <<once, hubDone, listed, want, held, map, stopped, stopReq>>

UpgradeStep(u) ==
    \/ UpgradeLock(u) \/ UpgradeFound(u) \/ UpgradeAbsent(u) \/ UpgradeAdd(u)
    \/ UpgradeSpawn(u)

-----------------------------------------------------------------------------
(* The goroutine that runs client c.                                       *)

runGoto(c, label) == run' = [run EXCEPT ![c] = label]

RunStart(c) ==
    /\ run[c] = "spawned" /\ runGoto(c, "running")
    /\ UNCHANGED <<hub, caller, map, stopped, stopReq>>

\* Mutant: Run does not listen to the hub.
RunAwake_Deaf(c) ==
    /\ run[c] = "running" /\ c \in stopped
    /\ runGoto(c, "stopping")
    /\ UNCHANGED <<hub, caller, map, stopped, stopReq>>

\* The select of Run: the client is stopped or the hub is done.
RunAwake(c) ==
    /\ run[c] = "running" /\ (c \in stopped \/ hubDone)
    /\ runGoto(c, "stopping")
    /\ UNCHANGED <<hub, caller, map, stopped, stopReq>>

\* The deferred Stop; then isRunning is reset.
RunStop(c) ==
    /\ run[c] = "stopping"
    /\ ClientStop(c) /\ runGoto(c, "leaving")
    /\ UNCHANGED <<hub, caller, map, stopReq>>

\* Mutant: the goroutine ends without taking its client out of the map.
RunEnd_Keep(c) ==
    /\ run[c] = "leaving" /\ runGoto(c, "ended")
    /\ UNCHANGED <<hub, caller, map, stopped, stopReq>>

\* The deferred clients.Remove(client.id), then wg.Done.
RunEnd(c) ==
    /\ run[c] = "leaving"
    /\ MapRemove(want[c]) /\ runGoto(c, "ended")
    /\ UNCHANGED <<hub, caller, stopped, stopReq>>

RunStep(c) == RunStart(c) \/ RunAwake(c) \/ RunStop(c) \/ RunEnd(c)

\* The client's last connection goes and the client stops itself, also while Run is
\* on its way to its own Stop.
SelfStop(c) ==
    /\ run[c] \in {"running", "stopping"} /\ ClientStop(c)
    /\ UNCHANGED <<hub, caller, map, run, stopReq>>

-----------------------------------------------------------------------------
(* RemoveClient.                                                           *)

RemoveFromMap(r) ==
    /\ pc[r] = "idle"
    /\ held' = [held EXCEPT ![r] = map[want[r]]]
    /\ MapRemove(want[r])
    /\ goto(r, IF map[want[r]] = NoClient THEN "returned" ELSE "stop")
    /\ UNCHANGED <<hub, want, run, stopped, stopReq>>

RemoveStop(r) ==
    /\ pc[r] = "stop"
    /\ ClientStop(held[r]) /\ goto(r, "returned")
    /\ UNCHANGED <<hub, want, held, map, run, stopReq>>

-----------------------------------------------------------------------------
(* Close.                                                                  *)

CloseLock(k) ==
    /\ pc[k] = "idle" /\ Lock(k)
    /\ goto(k, "locked")
    /\ UNCHANGED <<once, hubDone, listed, want, held, map, run, stopped, stopReq>>

\* stopOnce.Do: the hub is closed already.
CloseAgain(k) ==
    /\ pc[k] = "locked" /\ once = "done"
    /\ Unlock /\ goto(k, "returned")
    /\ UNCHANGED <<once, hubDone, listed, want, held, map, run, stopped, stopReq>>

\* Mutant: Close only asks the clients it finds to stop.
CloseDone_NoSignal(k) ==
    /\ pc[k] = "locked" /\ once = "free"
    /\ once' = "running"
    /\ goto(k, "list")
    /\ UNCHANGED <<mu, hubDone, listed, want, held, map, run, stopped, stopReq>>

CloseDone(k) ==
    /\ pc[k] = "locked" /\ once = "free"
    /\ once' = "running" /\ hubDone' = TRUE
    /\ goto(k, "list")
    /\ UNCHANGED <<mu, listed, want, held, map, run, stopped, stopReq>>

\* clients.GetAll(), and go client.Stop() for each.
CloseList(k) ==
    /\ pc[k] = "list"
    /\ listed' = {i \in Ids : map[i] # NoClient}
    /\ stopReq' = {map[i] : i \in listed'}
    /\ goto(k, "wait")
    /\ UNCHANGED <<mu, once, hubDone, want, held, map, run, stopped>>

StopGoroutine(c) ==
    /\ c \in stopReq
    /\ stopReq' = stopReq \ {c}
    /\ ClientStop(c)
    /\ UNCHANGED <<hub, caller, map, run>>

\* wg.Wait(): every Run goroutine has ended.
NothingRuns == \A c \in Clients : run[c] \in {"off", "ended"}

CloseWait(k) ==
    /\ pc[k] = "wait" /\ NothingRuns
    /\ goto(k, "clear")
    /\ UNCHANGED <<hub, want, held, map, run, stopped, stopReq>>

\* The listed clients are removed, if they are still there.
CloseClear(k) ==
    /\ pc[k] = "clear"
    /\ map' = [i \in Ids |-> IF i \in listed THEN NoClient ELSE map[i]]
    /\ once' = "done"
    /\ Unlock /\ goto(k, "returned")
    /\ UNCHANGED <<hubDone, listed, want, held, run, stopped, stopReq>>

CloseStep(k) ==
    \/ CloseLock(k) \/ CloseAgain(k) \/ CloseDone(k) \/ CloseList(k)
    \/ CloseWait(k) \/ CloseClear(k)

-----------------------------------------------------------------------------
Next ==
    \/ \E u \in Upgraders : UpgradeStep(u)
    \/ \E c \in Clients : RunStep(c) \/ SelfStop(c) \/ StopGoroutine(c)
    \/ \E r \in Removers : RemoveFromMap(r) \/ RemoveStop(r)
    \/ \E k \in Closers : CloseStep(k)

Spec == Init /\ [][Next]_vars

(***************************************************************************)
(* Fairness: goroutines that exist run, and a caller inside a method goes  *)
(* on.  A closer is in Close from the start, waiting for the mutex, which  *)
(* sync.Mutex hands over to a waiter after a millisecond, so it gets it.   *)
(* Upgrades and removals may never come.                                   *)
(***************************************************************************)
Fairness ==
    /\ \A c \in Clients : WF_vars(RunStep(c)) /\ WF_vars(StopGoroutine(c))
    /\ \A u \in Upgraders : WF_vars(pc[u] # "idle" /\ UpgradeStep(u))
    /\ \A r \in Removers : WF_vars(RemoveStop(r))
    /\ \A k \in Closers : WF_vars(CloseStep(k)) /\ SF_vars(CloseLock(k))

FairSpec == Spec /\ Fairness

-----------------------------------------------------------------------------
(* Properties that hold.                                                   *)

CriticalPCs == {"locked", "absent", "added", "list", "wait", "clear"}

\* Every variable of the hub keeps its type, and the mutex is held by exactly the
\* goroutine that is between its Lock and its Unlock.
TypeOK ==
    /\ mu \in {"free"} \cup Closers \cup Upgraders
    /\ \A p \in Closers \cup Upgraders : mu = p <=> pc[p] \in CriticalPCs
    /\ once \in {"free", "running", "done"} /\ hubDone \in BOOLEAN
    /\ listed \subseteq Ids
    /\ map \in [Ids -> Clients \cup {NoClient}]
    /\ run \in [Clients -> RunPCs]
    /\ stopped \subseteq Clients /\ stopReq \subseteq Clients
    /\ pc \in [Callers -> CriticalPCs \cup {"idle", "stop", "returned"}]
    /\ want \in [Upgraders \cup Removers -> Ids]
    /\ held \in [Removers -> Clients \cup {NoClient}]

\* A client in the map is there under its own id and has a Run goroutine, or is
\* about to get one, that will take it out again: no entry outlives its client,
\* whoever stops it and whenever.
NoGhosts ==
    \A i \in Ids : map[i] # NoClient =>
        /\ want[map[i]] = i
        /\ \/ run[map[i]] \in {"spawned", "running", "stopping", "leaving"}
           \/ pc[map[i]] = "added"

\* When Close has waited, nothing runs, nobody is half-way through adding a client
\* and the map is empty already ("stops all clients, waits for goroutines",
\* docs/websocket.md:65): what Close still has to clear is nothing.
CloseFindsNothingLeft ==
    (\E k \in Closers : pc[k] = "clear") =>
        /\ NothingRuns
        /\ \A i \in Ids : map[i] = NoClient
        /\ \A u \in Upgraders : pc[u] # "added"

\* A client that runs, or is about to, and that nobody has stopped.
Live(c) == run[c] \in {"spawned", "running"} /\ c \notin stopped /\ ~hubDone

TakenOut == {held[r] : r \in Removers} \ {NoClient}

\* As long as RemoveClient was not called for its id, a live client is the one
\* the map has under its id: broadcasts reach it, and an upgrade with the same id
\* is given it and makes no second client.
LiveClientIsRegistered ==
    \A c \in Clients :
        Live(c) /\ (\A r \in Removers : pc[r] # "idle" => want[r] # want[c])
            => map[want[c]] = c

\* Close returns, for each of those that call it, whatever is added or removed
\* meanwhile and however far the Run goroutines have come.
CloseReturns == \A k \in Closers : <>(pc[k] = "returned")

\* A closed hub ends up empty for good, with the clients that were added to it
\* after Close too.
ClosedHubEmpties ==
    []<>(once = "done" => NothingRuns /\ \A i \in Ids : map[i] = NoClient)
=============================================================================
