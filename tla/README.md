# A TLA+ model of aichteeteapee

aichteeteapee is a Go library for HTTP and WebSocket servers, with an HTTP
client.  Its WebSocket hub, its bridge to Unix sockets, its server with routes,
middlewares, static files and uploads, its proxy and its client are modelled
here, checked with TLC on small instances and proved safe for every instance
with TLAPS.  Paths below are relative to the repository.

## 1. The system

| Component | State | Operations | Talks to |
|---|---|---|---|
| WebSocket connection, `serbewr/dabluvee-es/wshub/connection.go` | `isDone`, `doneCh`, `sendCh`, `sendWg`, `stopOnce`, the socket | `Send`, `Stop`, write pump, read pump | its client (`RemoveConnection`), the hub's handlers |
| WebSocket client, `wshub/client.go`, `connections_map.go` | `isRunning`, `isStopped`, `readyToStopCh`, `doneCh`, `sendCh`, `wg`, the connections | `Run`, `Stop`, `Send`, `AddConnection`, `RemoveConnection`, distribution pump | its connections, the hub |
| WebSocket hub, `wshub/hub.go`, `clients_map.go`, `upgrade_handler.go` | `mu`, `doneCh`, `wg`, `stopOnce`, the clients by id | `AddClient`, `GetOrCreateClient`, `RemoveClient`, `Close`, broadcasts | a goroutine per client |
| Unix socket bridge, `dabluvee-es/wsunixbridge/` | two listeners, their clients, `WriteMu`, the table of connections | set-up, accept, read, `Broadcast`, clean-up | the WebSocket's peer, local processes |
| Server lifecycle, `serbewr/server.go` | listeners, `doneCh`, `stopOnce`, two `http.Server`s | `Start`, `Stop` | net/http |
| Timeout and Recovery, `serbewr/middleware/timeout.go`, `recovery.go` | per request: a mutex, `written`, `timedOut`, the headers | the wrapped writer, the timeout's answer | net/http's writer, the handler |
| Static files and uploads, `serbewr/server.go`, `directory_indexing.go`, `handlers.go` | a cache of what `Stat` found | `get`, `set`, serve, list, upload | the file system |
| Router and groups, `serbewr/group.go`, `router.go`, `server.go` | each group's slice of middlewares, the root group | `Use`, `Group`, `Handle`, `GetRootGroup`, `Start`'s set-up | the mux |
| Middleware, `serbewr/middleware/` | per request: Logger's wrapper, the context's id | enter, leave | the next in the chain |
| Forwarding proxy, `serbewr/prawxxey/` | none of its own; a shared cache | `ForwardRequest` | the cache, the upstream |
| HTTP client, `klhayyent/` | immutable | `Do` | net/http, a server |

What makes each of them correct, and what is hard about it:

* **Connection.**  Senders, two pumps and the owner meet at one channel that is
  closed while others send on it.  No send on a closed channel, no double close,
  no misuse of the WaitGroup; what is accepted is written in order without a
  gap; every `Send` returns; whatever ends one part ends all of it.
* **Client of the hub.**  Flags are read and acted upon later; `Stop` is called
  from `Run`, from the hub and from ending pumps, also before `Run` is ready.  No
  connection misses an event because another comes or goes; every `Stop` returns;
  the connections it knew are stopped; a client without connections stops.
* **Hub.**  `Close` holds the mutex while it waits for goroutines that must not
  need it; clients are removed by id while others with the same id come.
* **Bridge.**  Clients are copied, cut out of slices and closed by different
  goroutines; nothing has a deadline.
* **Server.**  `Stop` may come at any point of `Start`, from several goroutines;
  a listener or a server may fail; a request may hang.
* **Timeout.**  Two goroutines want to answer one request, and the handler's
  outlives it.
* **Static files and uploads.**  A finding is stored after the `Stat` that made it,
  by several requests at once, in a cache with a limit and a TTL, over files that
  uploads and other programs change.  What has settled is answered as it is; a
  fresh entry is not lost to a stale deletion; an upload answered with 200 is whole.
* **Router and groups.**  Groups are built with `append` over slices that could
  share an array; `Start` builds on a root group that may exist already or not.
  A route is guarded by exactly what its groups asked for.
* **Middleware.**  What is told of a request (status, log line, id) is decided in
  one layer and recorded in another, and a panic leaves through all of them.
* **HTTP client.**  It follows redirects the server chooses, reads a body that may
  break off or be too long, and retells the server's verdict: on its own origin,
  whole or not at all, under one id.
* **Proxy.**  The cache is shared by calls with different limits and by other
  programs, and may fail at any access.

Section 7 says what is not modelled and why.

## 2. The modules

| Module | Models | Composes |
|---|---|---|
| `WsMailbox` | the abstract promise of a connection: accept, deliver in order, drain, close | |
| `WsConnection` | `connection.go`, with the part of `Client` its pumps and its owner run | implements `WsMailbox` |
| `HubClient` | the abstract promise of a client to its hub: when `Run` returns, and what `Stop` does in one step | |
| `WsClient` (`MCWsClient`) | `client.go` over connections that are mailboxes | uses what `WsConnection` shows; implements `HubClient` |
| `WsHub` (`MCWsHub`) | `hub.go` over clients that are `HubClient`s | uses what `WsClient` shows |
| `UnixBridge` | `wsunixbridge/` | |
| `ServerLifecycle` | `Start` and `Stop` of `server.go` and what they need of net/http | |
| `TimedAnswer` | the abstract promise of a request behind `Timeout`: the handler answers before the deadline, the server after it | |
| `RequestTimeout` | `timeout.go`, `recovery.go`, `WriteJSON` and net/http's writer | implements `TimedAnswer` |
| `FileServing` (`MCFileServing`) | the static route, `fileCache`, directories, the upload handler, one file system | |
| `HttpWire` | what client and server say to each other: requests, replies, ids, envelope codes | |
| `Routing` | `group.go`, `router.go`, `Chain`, `GetRootGroup` and the set-up in `Start` | |
| `ServerChain` | the mux and the middlewares around one handler, entered and left | `HttpWire`, `Routing` |
| `HttpClient` | `Client.Do` over net/http's redirects | `HttpWire` |
| `Exchange` (`MCExchange`) | set-up, one call, its redirects and back | `ServerChain`, `HttpClient` |
| `ForwardCache` | `ForwardRequest` of `prawxxey/forward.go` and a shared cache | |
| `WsConnection_proofs`, `WsClient_proofs`, `WsHub_proofs`, `UnixBridge_proofs`, `RequestTimeout_proofs`, `Server_proofs`, `Exchange_proofs`, `ForwardCache_proofs` | theorems (section 5) | |

Actions have the names of the methods they are part of.  One action is one
access to something other goroutines see: an atomic flag, a channel, a mutex
section in which nothing can block, a `WaitGroup`, a `Once`, a map, the file
system.  What a goroutine does between two such accesses belongs to the action.
In `ServerChain`, where one goroutine serves one request, an action is what one
middleware does before or after the next, or one call of the handler.  Program
counters (`pc`, `spc`, `runPc`, ...) are variables; a goroutine is blocked when
none of its actions is enabled.  An operator `X_Y` after a comment "Mutant" is a
plausible bug in `X`: with it in the place of `X`, the property it belongs to in
`PROJECT.json` fails.  Nothing else uses it.

Representations:

* A buffered channel is a sequence and a flag that it is closed.  A send on a
  closed channel, a double close and the misuse of a `WaitGroup` set `crash`,
  after which nothing runs, because that is what a panic in such a goroutine does.
* A `WaitGroup` is the set of the goroutines in it, and whether a waiter is
  registered: `Add` after the counter has come to zero and before the waiter has
  run again is the misuse Go detects.  In `WsClient` and `WsHub` it is the set of
  those that have not ended.
* `sync.Once` is "free", "running" or "done"; a second caller waits.
  `rootGroupOnce` runs during set-up, which one goroutine does, and is a flag.
* In `WsClient` a connection's `Send` and `Stop` are one step.
  `MailboxImplemented` is the warrant: what a connection does to its user is what
  the mailbox does; `SendReturns` and `DeadPumpStopsConnection` say that the
  steps left out come to an end.  In the same way a client of
  `WsHub` is a `HubClient`, whose `Stop` is one step and does nothing before `Run`
  set `isRunning`; `HubClientImplemented` is the warrant for its steps, and
  `CallsReturn` for their fairness.
* In `Routing` a Go slice is a length over an array that others may share and that
  `append` may leave room in; a middleware is a name.  Beside its slice a group
  keeps the list it was asked to have, which is what `EveryLayerGuards` holds the
  chain against.
* In `FileServing` time is a bounded clock, a path is absent, a file, a directory
  or one with an `index.html`, and an answer is a kind of response.  `unsettled`
  (when a path last changed or was misjudged) and `kept` (whose 200 a file stands
  for) are histories.
* In `Exchange` there is one call, and one request or reply under way; the handler
  is any application's: it may inform, write, refuse, return or panic.  A body is a
  sequence of chunks and error envelopes.  `verdict`, `spoiled` and `implicit` are
  histories of what was decided and of what can no longer be taken back.
* Events, messages and chunks are numbers or names; bodies in `ForwardCache` are
  lengths; headers in `RequestTimeout` stand for who set them.  Logging and the
  wording of answers are left out, except the fields of Logger's line that a
  property is about.
* What net/http, the cache, the file system and the peers do is modelled from how
  this code uses them, and marked external in `PROJECT.json`.

## 3. The runs

Every run may end with the system stopped, so TLC's deadlock check is off
everywhere: a client whose goroutines have ended, or an answered request, has no
step left.  That nobody is stuck half-way is what the liveness properties say.

| Run | Bounds | Shows |
|---|---|---|
| `WsConnection_owned` | one sender with three sends, capacity 1 | as the package composes a connection (the distribution pump is its only sender): `ChannelsSafe`, `StopReturnsStopped`, `WaitGroupSafe`; it implements `WsMailbox` (`MailboxImplemented`); `SendReturns`; `DeadPumpStopsConnection` |
| `WsClient_safety` | two connections, a sender with two sends, capacity 1 | `NoConnectionMisses`, `StopJoinsDistribution`; it implements `HubClient` (`HubClientImplemented`) |
| `WsClient_live` | two connections, no senders | `CallsReturn` (every `Stop`, and `Run` once it is told to), `EstablishedConnectionsStop`, `EmptyClientStops` |
| `WsClient_panic` | one connection, one send | *violated*: `SendNeverPanics` |
| `WsHub_close` | two ids, two closers, two upgraders, a remover | `NoGhosts`, `CloseFindsNothingLeft`, `LiveClientIsRegistered`, `CloseReturns`, `ClosedHubEmpties` |
| `RequestTimeout_inside` | three calls of the writer | `OneAuthor`, `QuietAfterReturn`; it implements `TimedAnswer` (`AnswerImplemented`); `NobodyWaits` (the request and the handler's writer both come to an end) |
| `ServerLifecycle_stop` | both servers, two callers of Stop besides Start, two requests | `ReturnMeansStopped`, `CleanStopIsIdle`, `StartReturns`, `NothingIsLeft` |
| `UnixBridge_bridge` | two clients, each of either socket, three messages, two chunks each | `ListMatchesReaders`, `StreamIsWhole`, `OneWebSocketWriter`, `BridgeTearsDown` |
| `ForwardCache_shared` | two callers, three calls, two keys, limits 1 and 2, bodies up to 3, one fault | `CacheIsTransparent`, `NobodyElsesAnswer` |
| `FileServing_shared` | two getters, two uploaders, two paths, a cache of one entry, TTL 1, clock to 2, one change by others | `UploadIsWhole`, `SettledAnswer`, `FreshEntriesSurvive` |
| `Exchange_call` | one route in groups over up to four arrays, with room for 0 or 2 more, the lists of `MCExchange`; bodies of up to two chunks (a recovery envelope after them) against a limit of one, two redirects | `AnswerArrives`, `BodyIsWhole`, `OneRequestID`, `EveryLayerGuards`, `StaysOnOrigin`, `LogTellsTheStatus` |
| `Exchange_root` | the same | *violated*: `SetupNeverPanics` |

Type correctness is a theorem about each of the components with proofs, and no run
checks it.

Why the bounds are enough:

* Capacity 1 with two or three sends makes the buffer empty, full and blocking.
  Two of each kind of actor give every pair of them that can race.
* `WsClient_safety` and `FileServing_shared` reduce by symmetry.  The runs that
  check liveness use no symmetry.  `WsClient_live` has no senders because none of
  its three properties depends on what the distribution pump is given: with no
  event it goes straight to its select and ends on `doneCh`.
* In `ServerLifecycle` two requests let each server have one and one server two;
  `errs` needs no bound, there are two appends.
* In `UnixBridge` three messages are needed to see a gap between two others.
* In `ForwardCache` limits 1 and 2 and bodies up to 3 give a body below, at, one
  above and further above each limit.  Three calls are one that stores and two
  that race for what it stored.  `MaxFaults` bounds what others do to the
  entries; expiry and failing accesses are not bounded.
* In `FileServing` a cache of one entry over two paths is full at once, a TTL of 1
  on a clock to 2 lets an entry be fresh, at its limit and expired.  Nothing is
  there at first (`MCInit`): files come from the uploads, and the one change by
  others makes of a path anything.
* In `Exchange` the outer list of a Router holds RequestID, Logger and Recovery in
  both orders, and the inner ones an authentication or CORS with a content type
  check, so every middleware is outside and inside of some other.  Room for two more
  is enough for the longest list to fit and for two groups to collide, if they
  could.  `MaxRedirects` is 10 in the code; with 2 the limit is reached.

The two violations, each a behaviour of the code that its documentation or a test
rules out (`findings` in `PROJECT.json`):

* `SendNeverPanics`: `Client.Send` checks `isStopped` (client.go:185) and selects
  on `sendCh` (209); `Stop` closes `sendCh` in between (269); a select with a send
  on a closed channel may choose it, and panics.
* `SetupNeverPanics`: `GetRootGroup` before `Start` does its `rootGroupOnce`
  (server.go:797) on the router of the constructor.  `Start` replaces the router
  (518); without `GlobalMiddlewares` the new one gets no root group, because the
  once is done, and setting up its routes dereferences nil.

## 4. Fairness

Weak fairness of a goroutine's steps is the Go scheduler: a goroutine that can
run does.  Beyond that:

* `WsConnection`: reads and writes of the socket return (both have deadlines),
  and a handler returns.  Strong fairness of `WriterReceive` is Go's random choice
  among ready select cases: receiving is not passed over for ever for the ticker.
  No sender has to send, and the owner need not stop.
* `WsClient`: a stopped connection's pumps end (shown by `WsConnection`), and an
  `AddConnection` that began goes on.  Peers, senders and the hub owe nothing.
* `WsHub`: strong fairness of `CloseLock`, since `sync.Mutex` hands the lock to a
  waiter that has waited a millisecond.
* `RequestTimeout`: the deadline comes, the request's goroutine runs, and a call
  of the wrapped writer that is under way returns (the server's write timeout).
  The handler's own code has no fairness at all: it may hang.
* `ServerLifecycle`: the shutdown timeout runs out; strong fairness of
  `ShutdownGivesUp` is again the random choice of a select.  Nobody has to call
  `Stop`, no server has to fail, no request has to end.
* `UnixBridge`: only that a read or an accept on a closed socket fails.  Writes to
  clients and to the WebSocket need not return; `BridgeTearsDown` therefore leaves
  out the goroutines queued behind such a `WriteMessage`, and begins where
  `ReadMessage` has failed.

`ForwardCache`, `FileServing` and `Exchange` state safety only.  A forward and a
GET have no loop and wait for nobody but the cache, the upstream or the file
system; a call ends when it does, or with its timeout, and the handler is the
application's.

## 5. What is proved

`WsConnection_proofs`, for any set of senders, any capacity and any number of
sends, from `ConnectionAssumption` (the capacity is a positive natural number):

* `TypeCorrect`.  `TypeOK` is inductive with `SendsCounted`: a sender inside
  `Send` has a send to its name, so what it enqueues is an event (`TypeInv`).
* `ChannelsAreSafe` and `StopReturnsWithConnectionStopped`.  `ChannelsSafe` alone is
  not inductive: that `sendCh` is open when a sender is in its select depends on
  who is in the WaitGroup and how far the one closer inside the `Once` has come.
  `StopInv` says that: exactly one closer is inside while the `Once` runs
  (`OnceInv`), each of its program points determines which of `isDone`, `doneCh`,
  `sendCh` and the socket are closed (`ClosedInv`), and a sender in its select is
  in the WaitGroup, so `sendCh` is open (`SendInv`).
* `NothingIsSkipped`.  `FlowInv` adds that `sendCh` and the pump's hand are what
  `accepted` has and `written` has not, for as long as the pump can write.  (No run
  checks `NothingSkipped` by itself; `MailboxImplemented` rests on it.)
* `SoleSenderKeepsWaitGroupSafe`, under the hypothesis that there is one sender.
  `GroupInv`: while a waiter sleeps and its wake-up is due, no sender is about
  to `Add`.  The hypothesis is needed: with two goroutines in the exported `Send`,
  TLC finds the WaitGroup reused before `Wait` has returned, which panics.
* `ConnectionImplementsMailbox`: the initial state maps to `MailboxInit` and each
  step to a step of the mailbox or a stutter, from the invariants above.

`WsClient_proofs`, for any connections, senders, capacity and number of sends, from
`ClientAssumption`: `TypeCorrect`, `PumpIsJoined`, `NobodyMisses`.  `PumpInv` orders
the pump's start, `readyToStopCh` and the body of `Stop`, so that the pump cannot
start behind a `Stop` that has joined it.  `NoConnectionMisses` speaks of what each
connection was given and is not inductive; `DistInv` says how it comes about:
`sendCh` holds the events after those that were taken, in order (`QueueInv`), only
connections that were added are given any (`AddedInv`), and what a live one was
given are the last events up to the newest, or up to the one before it while the
pump is still to come to it (`GotInv`).

`ClientImplementsHubClient`: the code of `client.go` does towards the hub what
`WsHub` takes for granted.  `Stop` has its effect where the body of `stopOnce` sets
`isStopped`, whoever runs it; every other call is over after that moment, or has
bailed out of a `Run` that was not running.  `HubInv` is what this needs: one caller
at most is in the body, and the body ends, and `doneCh` is closed, only with the
client stopped (`OnceInv`); `isRunning` holds from Run's first step to its last, and
`Run` leaves only after the body is over, because its own `Stop` cannot bail out
(`RunInv`).  `RunInv` also shows that the early return at the top of `Run`
(client.go:321) is never taken.

`WsHub_proofs`, for any sets of ids, closers, upgraders and removers, from
`HubAssumption` (the callers are told apart): `HubTypeCorrect`,
`HubHasNoGhosts`, `CloseLeavesNothing`, `LiveClientsAreRegistered`.  They share
`HubInv`: the types with the mutex, that the goroutine in the critical section is
the only one that may find an id absent (`UpgradeInv`), what a remover holds
(`HeldInv`), that nothing can start once `Close` has waited (`WaitedInv`), and
`LiveClientIsRegistered` made inductive by speaking also of clients that are
ending (`Registered`), because an ending client still removes its id.

`UnixBridge_proofs`, for any clients, messages and chunks, from
`BridgeAssumption`: `TypeCorrect`, `SlicesMatch`, `WritersApart`, `StreamsAreWhole`.
`PeopleInv` makes `ListMatchesReaders` inductive: nobody is connected before the
set-up is over (`EarlyInv`), a client's socket and its goroutine agree
(`ClientInv`, `HandInv`), and who writes holds `WriteMu` (`MutexInv`).  For
`StreamIsWhole`, `StreamInv` follows a broadcast through its copy of the list: the
copy has nobody twice and nobody who was not there (`SnapshotInv`), a client has
every message since its first, or all but the one under way when it is still ahead
in the copy (`ReceivedInv`), and who was passed and is still connected was written to
(`PassedInv`).

`RequestTimeout_proofs`, for any number of calls of the writer and Recovery on
either side of `Timeout`, from `TimeoutAssumption`: `TimeoutTypeCorrect`,
`ResponseHasOneAuthor`, `FailuresAreTold`, `HandlerIsQuietAfterReturn`.  They share
`TimeoutInv`: what `timedOut` and `doneCh` say of where the two goroutines are, and
that a method past its check keeps the deadline out (`OrderInv`); who can have
written so far (`AuthorInv`, `WireInv`); that `responseWritten`, which is set ahead
of the call it announces, is true of the response whenever the mutex is free
(`WrittenInv`); and that Recovery does not return before its `Write` has been
through the mutex (`RecoveryInv`).  `OneAuthor` alone is not inductive: it does not
say that the writer is untouched when the middleware finds `responseWritten` unset.

`TimeoutImplementsAnswer`, from the same invariant: the chain implements
`TimedAnswer`.  The deadline is `timedOut`, which is set under the mutex, not the
context's, so that every step of the answer has one side it belongs to.  The methods
of the handler's writer map to `Begin`, `Continue` and `TakeOver` at their call below,
`writeTimeoutResponse` to `Expire` at its lock and to `Begin` and `Continue` at
`WriteJSON`'s status and body, and `EndRequest` to `End`.  Beyond the properties above
it forbids a take-over of the connection while the 504 is being written, and says that
the handler's part and the server's never alternate.  What a chunk says and which
headers go with the status is left to `OneAuthor`.  (No run checks
`FailureIsTold` by itself: it is what `End` asks, and the proof rests on it.)

`Server_proofs` is about `server.go`.  Of `FileServing`, for any paths, getters, uploaders, cache size, TTL and clock,
from `ServingAssumption`: `TypeCorrect`, `SettledAnswers`, `FreshEntries`,
`UploadsAreWhole`.  `TypeOK` includes that the cache is never above its limit.
`ServingInv` says of every entry that it is true, or was stored no later than its
path became unsettled (`EntryInv`), and the same of what a request carries from the
cache or from `Stat` (`RequestInv`, `ClockInv`); so what is still believed of a path
that has settled is right.  `UploadInv` says that nobody was told 200 yet for a file
that its uploader is still writing (`CopyInv`), and that what an upload wrote is in
a file (`FileInv`), so that `O_EXCL` keeps the others out.

Of `ServerLifecycle`, with TLS or without, for any callers of `Stop` and any number of
requests, from `LifecycleAssumption`: `LifecycleTypes`, `ReturnedIsStopped`,
`CleanStops`.  `LifeInv` says how far the goroutines that shut the servers down are
when the body of `Stop` is at each of its points (`StopInv`), that a server whose
`Shutdown` has polled does not serve again, so that its requests only become fewer
(`ShutInv`), and what the unlocked append may do (`ErrorsInv`): before anybody is
done there is no error, and who is not done adds at most the second.  Neither
property is inductive without them: they speak of the end only.

`Exchange_proofs`, for any lists of middlewares, shapes of groups, routes, bodies
and limits, from `RoutingAssumption` and `ClientAssumption`: `TypeCorrect`,
`LayersGuard`, `OriginKept`, `BodiesAreWhole`, `OneID`, `AnswersArrive`,
`LogIsTrue`.  `HeapInv` is the heart of
`LayersGuard`: no two groups write to the same array, so an `append` in place
cannot change another group's slice, and every slice holds what was asked for;
`RouteInv` hands that to the chains, and `WorkInv` says that what a request has
passed so far has let it through.  `CallInv`, `ReplyInv` and `ResultInv` carry the
origin, the id and the body from the request to the reply and the result; they
need that at most one thing is in flight.

`AnswerArrives` and `LogTellsTheStatus` speak of the end of a way through all layers,
and `OutcomeInv` follows it.  A request is inside of Logger as long as the wrapper is
there (`PlaceInv`).  What the wrapper has recorded, what was sent and what was decided
on agree at every depth (`Records`, `Tells`): with no panic after the first byte and
no 103, a status that was sent is the verdict's, one that was not is still open or an
implicit 200, and the body is the application's or the verdict's envelope.  Once
Logger has logged it is left for good, and only a Recovery outside of it can still
change the status (`LogInv`).  A whole reply tells the verdict (`ReplyTells`), and
`CodeRead` says that Do finds in it the code that the server put there.

`ForwardCache_proofs`, for any forwarders and keys, any sizes and any number of
calls and faults, from `ForwardAssumption`: `ForwardTypeCorrect`,
`ForwardIsTransparent`, `ForwardKeepsAnswersApart`.  `ForwardInv` adds that only
plain requests reach the cache (`StorerInv`), that an answer is whole from when it
was read (`AnswerInv`), and that every entry is whole and under its own key
(`EntryInv`): the properties speak of what is returned, and a hit returns what
another call stored.  Entries written by other programs are assumed whole too,
because nothing in an entry could tell.

Each proof has the facts Init => Inv, Inv /\ [Next]_vars => Inv' and Inv =>
property, one lemma per actor and one case per action.

Only model-checked: all liveness, which the prover cannot do (nor `ENABLED`,
nor induction over data).  No module uses a RECURSIVE operator.

## 6. Known behaviour without a run

WebSocket hub and bridge:

* `Client.Stop` returns at once while `Run` has not set `isRunning`
  (client.go:246).  If the only connection comes and goes before the Run goroutine
  starts, the shutdown it asks for is lost.  `EmptyClientStops` therefore begins
  where `Run` is ready.
* `AddConnection` checks `isStopped` (client.go:81) and adds (100); `Stop` may copy
  the map in between and end without stopping the new connection.
  `EstablishedConnectionsStop` is about the connections it had before.
* The goroutine around `Run` removes its client *by id* (hub.go:126, 189).  After
  `RemoveClient` and a new upgrade with the same id it removes the new client,
  which lives on unregistered, and the next upgrade makes another: two live clients
  of one id, though docs/websocket.md:83 groups them under one.
  `LiveClientIsRegistered` excepts the ids that `RemoveClient` was called for.
* A handler that calls `hub.Close` runs in a read pump, which `Client.Stop` waits
  for: only the five-second timeout ends it (connection.go:422).
* A connection refused by a stopped client is not told so, and its socket is never
  closed (upgrade_handler.go:113).
* `Broadcast` to a client of the bridge that does not read blocks the reading of
  the WebSocket, and with it the clean-up (unixsock.go:40).  A bridge whose set-up
  fails after its first socket leaves that listener open
  (wsunixbridge/connection.go:75), and its clean-up does not close the WebSocket.

Server, routes and middlewares:

* `Timeout` runs the handler in a goroutine of its own (timeout.go:198), out of
  reach of a `Recovery` outside it, which is the order
  `server_integration_test.go:84` builds: a panic ends the process.  The theorems of
  `RequestTimeout` hold in either order.
* A handler behind `Timeout` that returns without writing loses the headers it
  set: they are copied with the first write only (timeout.go:108).
* The `Stop` that `Start` defers gets `Start`'s context (server.go:500).  When that is
  cancelled, `Shutdown`'s context is done before it begins, and requests in flight are
  not waited for, whatever the shutdown timeout (docs/server.md:123).
* `addError` (server.go:665) is not locked; of two errors one may be lost, the last
  one never is (`CleanStopIsIdle`).
* A `ServeTLS` that cannot load its certificate leaves its listener to `Stop`; if
  `Stop` was earlier than the listener, it stays open (`NothingIsLeft` names it).
* Routes registered on the root group before `Start` do not get the Router's
  `GlobalMiddlewares`: they are another group's.
* `NewGroup` keeps the slice it is given (group.go:31).  A caller that spreads one
  slice with room to spare into two groups and calls `Use` on both has one overwrite
  the other's; `EveryLayerGuards` is about slices nobody else keeps.
* A preflight `OPTIONS` for a route with a method gets 405 from the mux before CORS
  is reached, though docs/middleware.md:102 says 204.
* Logger's line can tell another status than the client got (the exceptions of
  `LogTellsTheStatus`): a write without a status before a panic, and an informational
  103, which it also takes for the final status, so that a refusal after it arrives
  as a 200 (logger.go:189).
* A handler that panics after it began its response: Recovery's envelope is appended
  to what was sent, and the whole arrives with the status sent first.

Files and cache:

* What `Stat` found is stored with the time of the store (server.go:426), so a finding
  that was outdated by then lasts a whole TTL; a `Stat` that fails for any reason is
  stored as absence, and the path is a 404 for thirty seconds.  `unsettled` marks both.
* The cache evicts the oldest stored entry, not the least recently used
  (docs/server.md:88), and does so also when the path it stores is in it already.
* An upload that fails leaves a partial file behind, whose name stays taken; a failing
  `Close` is only logged (handlers.go:340), hence "unflushed" in `UploadIsWhole`.
* A slow forward stores an older response over a newer one and gives it a whole TTL
  (forward.go:228).

## 7. What is not modelled

* `event_handlers_map.go`, `event.go`, `event_metadata_map.go`: a map behind a
  mutex with one access per operation, and value objects.
* The hub's broadcasts: loops over `Client.Send`; they change nothing of the hub.
* The HTTP upgrade itself, and the socket when `AddConnection` refuses it.
* `SecurityHeaders`, which sets headers and calls the next; how credentials are
  compared; the options of all middlewares, which are constants once the server runs.
* What a listing looks like and what the health and echo handlers write: pure
  functions of a directory or a request.
* The patterns that groups build out of prefixes, the check that a client's target
  stays below its base URL, the headers the proxy sends and its request hash: pure
  functions of strings, which the repository's tests cover with tables.
* Several calls of the HTTP client at a time: its fields do not change after its
  construction.

## 8. Plan

Done: every part that has state of its own, with its safety proved.  What is left,
in this order:

1. The five-second bail-out of `Client.Stop` in `WsHub`, which now treats `Stop` as
   complete.
2. The upgrade handler's own socket, so that a refused connection is seen to leak.
3. Several calls at a time in `Exchange`, with `Timeout` in the chain.
