---------------------------- MODULE WsHub_proofs ----------------------------
(***************************************************************************)
(* Theorems about WsHub, for any sets of identifiers, closers, upgrade     *)
(* handlers and removers: the mutex is held by exactly one goroutine in    *)
(* its critical section, no entry of the map outlives its client, Close    *)
(* finds nothing left when it has waited, and a client that nobody removed *)
(* by id is the one registered under its id.                               *)
(***************************************************************************)
EXTENDS WsHub, TLAPS

\* A client that is in the hub: its goroutine is about to start, or has not ended.
Present(c) ==
    pc[c] = "added" \/ run[c] \in {"spawned", "running", "stopping", "leaving"}

\* RemoveClient was not called for the id of c.
Untouched(c) == \A r \in Removers : pc[r] # "idle" => want[r] # want[c]

\* An upgrader's client has no goroutine before the upgrader has started it; while
\* it holds the mutex nobody else can make the client it found absent.
UpgradeInv ==
    \A u \in Upgraders :
        /\ pc[u] \in {"idle", "locked", "absent", "added"} => run[u] = "off"
        /\ pc[u] = "absent" => map[want[u]] = NoClient

\* A remover that goes on to stop a client took one out of the map.
HeldInv == \A r \in Removers : pc[r] = "stop" => held[r] \in Clients

\* Once Close has waited, no goroutine can start before it releases the mutex.
WaitedInv == (\E k \in Closers : pc[k] = "clear") => NothingRuns

\* The map and the goroutines agree.  The second part is LiveClientIsRegistered
\* made inductive: also a client that is ending is still registered.
Registered == \A c \in Clients : Present(c) /\ Untouched(c) => map[want[c]] = c

HubInv ==
    /\ TypeOK /\ UpgradeInv /\ HeldInv /\ WaitedInv /\ NoGhosts /\ Registered

USE DEF Clients, Callers

\* The initial states satisfy the invariant.
LEMMA HubInit == Init => HubInv
  <1> SUFFICES ASSUME Init PROVE HubInv
    OBVIOUS
  <1> USE HubAssumption
  <1>1. TypeOK
    BY DEF Init, TypeOK, CriticalPCs, RunPCs
  <1>2. UpgradeInv /\ HeldInv /\ WaitedInv
    BY DEF Init, UpgradeInv, HeldInv, WaitedInv
  <1>3. NoGhosts /\ Registered
    BY DEF Init, NoGhosts, Registered, Present
  <1> QED
    BY <1>1, <1>2, <1>3 DEF HubInv

-----------------------------------------------------------------------------
(* Types and the mutex.                                                    *)

\* A step of an upgrade handler keeps the types.
LEMMA TypeUpgrade ==
  ASSUME HubInv, NEW u \in Upgraders, UpgradeStep(u)
  PROVE  TypeOK'
  <1> USE HubAssumption DEF HubInv, TypeOK, CriticalPCs, RunPCs, Lock, Unlock, goto, hub
  <1>1. CASE UpgradeLock(u)
    BY <1>1 DEF UpgradeLock
  <1>2. CASE UpgradeFound(u)
    BY <1>2 DEF UpgradeFound
  <1>3. CASE UpgradeAbsent(u)
    BY <1>3 DEF UpgradeAbsent
  <1>4. CASE UpgradeAdd(u)
    BY <1>4 DEF UpgradeAdd
  <1>5. CASE UpgradeSpawn(u)
    BY <1>5 DEF UpgradeSpawn
  <1> QED
    BY <1>1, <1>2, <1>3, <1>4, <1>5 DEF UpgradeStep

\* A step of a client's goroutines keeps the types.
LEMMA TypeRun ==
  ASSUME HubInv, NEW c \in Clients, RunStep(c) \/ SelfStop(c) \/ StopGoroutine(c)
  PROVE  TypeOK'
  <1> USE DEF HubInv, TypeOK, RunPCs, runGoto, ClientStop, MapRemove, hub, caller
  <1>1. CASE RunStart(c)
    BY <1>1 DEF RunStart
  <1>2. CASE RunAwake(c)
    BY <1>2 DEF RunAwake
  <1>3. CASE RunStop(c)
    BY <1>3 DEF RunStop
  <1>4. CASE RunEnd(c)
    BY <1>4 DEF RunEnd
  <1>5. CASE SelfStop(c)
    BY <1>5 DEF SelfStop
  <1>6. CASE StopGoroutine(c)
    BY <1>6 DEF StopGoroutine
  <1> QED
    BY <1>1, <1>2, <1>3, <1>4, <1>5, <1>6 DEF RunStep

\* A step of a remover keeps the types.
LEMMA TypeRemove ==
  ASSUME HubInv, NEW r \in Removers, RemoveFromMap(r) \/ RemoveStop(r)
  PROVE  TypeOK'
  <1> USE HubAssumption
      DEF HubInv, TypeOK, CriticalPCs, RunPCs, MapRemove, ClientStop, goto, hub
  <1>1. CASE RemoveFromMap(r)
    BY <1>1 DEF RemoveFromMap
  <1>2. CASE RemoveStop(r)
    BY <1>2 DEF RemoveStop, HeldInv
  <1> QED
    BY <1>1, <1>2

\* A step of Close keeps the types.
LEMMA TypeClose ==
  ASSUME HubInv, NEW k \in Closers, CloseStep(k)
  PROVE  TypeOK'
  <1> USE HubAssumption DEF HubInv, TypeOK, CriticalPCs, RunPCs, Lock, Unlock, goto, hub
  <1>1. CASE CloseLock(k)
    BY <1>1 DEF CloseLock
  <1>2. CASE CloseAgain(k)
    BY <1>2 DEF CloseAgain
  <1>3. CASE CloseDone(k)
    BY <1>3 DEF CloseDone
  <1>4. CASE CloseList(k)
    BY <1>4 DEF CloseList
  <1>5. CASE CloseWait(k)
    BY <1>5 DEF CloseWait
  <1>6. CASE CloseClear(k)
    BY <1>6 DEF CloseClear
  <1> QED
    BY <1>1, <1>2, <1>3, <1>4, <1>5, <1>6 DEF CloseStep

-----------------------------------------------------------------------------
(* The map and the goroutines.                                             *)

\* The parts of the invariant that the steps below have to keep.
Links == UpgradeInv /\ HeldInv /\ WaitedInv /\ NoGhosts /\ Registered

\* A step of an upgrade handler keeps them.  UpgradeAdd replaces nobody, and the
\* handler that starts a client holds the mutex, so Close is not past its wait.
LEMMA LinksUpgrade ==
  ASSUME HubInv, NEW u \in Upgraders, UpgradeStep(u)
  PROVE  Links'
  <1> USE HubAssumption
      DEF HubInv, TypeOK, CriticalPCs, RunPCs, Lock, Unlock, goto, hub, Links
  <1>1. CASE UpgradeLock(u)
    BY <1>1 DEF UpgradeLock, UpgradeInv, HeldInv, WaitedInv, NothingRuns, NoGhosts,
                Registered, Present, Untouched
  <1>2. CASE UpgradeFound(u)
    BY <1>2 DEF UpgradeFound, UpgradeInv, HeldInv, WaitedInv, NothingRuns, NoGhosts,
                Registered, Present, Untouched
  <1>3. CASE UpgradeAbsent(u)
    BY <1>3 DEF UpgradeAbsent, UpgradeInv, HeldInv, WaitedInv, NothingRuns, NoGhosts,
                Registered, Present, Untouched
  <1>4. CASE UpgradeAdd(u)
    <2>1. /\ map' = [map EXCEPT ![want[u]] = u] /\ pc' = [pc EXCEPT ![u] = "added"]
          /\ map[want[u]] = NoClient /\ want[u] \in Ids
          /\ UNCHANGED <<want, held, run>>
      BY <1>4 DEF UpgradeAdd, UpgradeInv
    <2>2. UpgradeInv'
      BY <1>4, <2>1 DEF UpgradeAdd, UpgradeInv
    <2>3. HeldInv' /\ WaitedInv'
      BY <2>1 DEF HeldInv, WaitedInv, NothingRuns
    <2>4. NoGhosts'
      BY <2>1 DEF NoGhosts
    <2>5. Registered'
      BY <2>1 DEF Registered, Present, Untouched
    <2> QED
      BY <2>2, <2>3, <2>4, <2>5
  <1>5. CASE UpgradeSpawn(u)
    <2>1. /\ run' = [run EXCEPT ![u] = "spawned"] /\ pc' = [pc EXCEPT ![u] = "returned"]
          /\ pc[u] = "added" /\ mu = u /\ UNCHANGED <<want, held, map>>
      BY <1>5 DEF UpgradeSpawn
    <2>2. UpgradeInv' /\ HeldInv'
      BY <2>1 DEF UpgradeInv, HeldInv
    <2>3. WaitedInv'
      BY <2>1 DEF WaitedInv
    <2>4. NoGhosts' /\ Registered'
      BY <2>1 DEF NoGhosts, Registered, Present, Untouched
    <2> QED
      BY <2>2, <2>3, <2>4
  <1> QED
    BY <1>1, <1>2, <1>3, <1>4, <1>5 DEF UpgradeStep

\* A step of a client's goroutines keeps them.  RunEnd takes out its own client:
\* NoGhosts and Registered say that it finds no other under its id.
LEMMA LinksRun ==
  ASSUME HubInv, NEW c \in Clients, RunStep(c) \/ SelfStop(c) \/ StopGoroutine(c)
  PROVE  Links'
  <1> USE HubAssumption DEF HubInv, TypeOK, RunPCs, runGoto, hub, caller, Links
  <1>1. CASE RunStart(c) \/ RunAwake(c) \/ RunStop(c)
    <2>1. /\ \E l \in {"running", "stopping", "leaving"} : run' = [run EXCEPT ![c] = l]
          /\ run[c] \in {"spawned", "running", "stopping"}
          /\ UNCHANGED <<pc, want, held, map>>
      BY <1>1 DEF RunStart, RunAwake, RunStop
    <2>2. UpgradeInv' /\ HeldInv' /\ WaitedInv'
      BY <2>1 DEF UpgradeInv, HeldInv, WaitedInv, NothingRuns
    <2>3. NoGhosts'
      BY <2>1 DEF NoGhosts
    <2>4. Registered'
      BY <2>1 DEF Registered, Present, Untouched
    <2> QED
      BY <2>2, <2>3, <2>4
  <1>2. CASE RunEnd(c)
    <2>1. /\ run' = [run EXCEPT ![c] = "ended"] /\ run[c] = "leaving"
          /\ map' = [map EXCEPT ![want[c]] = NoClient] /\ want[c] \in Ids
          /\ UNCHANGED <<pc, want, held>>
      BY <1>2 DEF RunEnd, MapRemove
    <2>2. UpgradeInv' /\ HeldInv' /\ WaitedInv'
      BY <2>1 DEF UpgradeInv, HeldInv, WaitedInv, NothingRuns
    <2>3. NoGhosts'
      BY <2>1 DEF NoGhosts
    <2>4. Registered'
      <3> SUFFICES ASSUME NEW d \in Clients, Present(d)', Untouched(d)'
                   PROVE  map'[want[d]] = d
        BY <2>1 DEF Registered
      <3>1. d # c
        BY <2>1 DEF Present, UpgradeInv
      <3>2. Present(d) /\ Untouched(d)
        BY <2>1, <3>1 DEF Present, Untouched
      <3>3. map[want[d]] = d
        BY <3>2 DEF Registered
      <3>4. want[d] # want[c]
        <4>1. SUFFICES ASSUME want[d] = want[c] PROVE FALSE
          OBVIOUS
        <4>2. Present(c) /\ Untouched(c)
          BY <2>1, <3>2, <4>1 DEF Present, Untouched
        <4>3. map[want[c]] = c
          BY <4>2 DEF Registered
        <4> QED
          BY <3>1, <3>3, <4>1, <4>3
      <3> QED
        BY <2>1, <3>3, <3>4
    <2> QED
      BY <2>2, <2>3, <2>4
  <1>3. CASE SelfStop(c) \/ StopGoroutine(c)
    <2>1. UNCHANGED <<pc, want, held, map, run>>
      BY <1>3 DEF SelfStop, StopGoroutine
    <2> QED
      BY <2>1 DEF UpgradeInv, HeldInv, WaitedInv, NothingRuns, NoGhosts, Registered,
                  Present, Untouched
  <1> QED
    BY <1>1, <1>2, <1>3 DEF RunStep

\* A step of a remover keeps them: the id it was called with is no longer untouched.
LEMMA LinksRemove ==
  ASSUME HubInv, NEW r \in Removers, RemoveFromMap(r) \/ RemoveStop(r)
  PROVE  Links'
  <1> USE HubAssumption DEF HubInv, TypeOK, goto, Links
  <1>1. CASE RemoveFromMap(r)
    <2>1. /\ held' = [held EXCEPT ![r] = map[want[r]]] /\ want[r] \in Ids
          /\ map' = [map EXCEPT ![want[r]] = NoClient]
          /\ pc' = [pc EXCEPT ![r] = IF map[want[r]] = NoClient THEN "returned"
                                                               ELSE "stop"]
          /\ UNCHANGED <<want, run>>
      BY <1>1 DEF RemoveFromMap, MapRemove
    <2>2. UpgradeInv'
      BY <2>1 DEF UpgradeInv
    <2>3. HeldInv' /\ WaitedInv'
      BY <2>1 DEF HeldInv, WaitedInv, NothingRuns
    <2>4. NoGhosts'
      BY <2>1 DEF NoGhosts
    <2>5. Registered'
      BY <2>1 DEF Registered, Present, Untouched
    <2> QED
      BY <2>2, <2>3, <2>4, <2>5
  <1>2. CASE RemoveStop(r)
    BY <1>2 DEF RemoveStop, UpgradeInv, HeldInv, WaitedInv, NothingRuns, NoGhosts,
                Registered, Present, Untouched
  <1> QED
    BY <1>1, <1>2

\* A step of Close keeps them: it clears the map when nothing runs.
LEMMA LinksClose ==
  ASSUME HubInv, NEW k \in Closers, CloseStep(k)
  PROVE  Links'
  <1> USE HubAssumption DEF HubInv, TypeOK, CriticalPCs, Lock, Unlock, goto, hub, Links
  <1>1. CASE CloseLock(k) \/ CloseAgain(k) \/ CloseDone(k) \/ CloseList(k)
    <2>1. /\ \E l \in {"locked", "returned", "list", "wait"} : pc' = [pc EXCEPT ![k] = l]
          /\ UNCHANGED <<want, held, map, run>>
      BY <1>1 DEF CloseLock, CloseAgain, CloseDone, CloseList
    <2>2. UpgradeInv' /\ HeldInv' /\ WaitedInv'
      BY <2>1 DEF UpgradeInv, HeldInv, WaitedInv, NothingRuns
    <2>3. NoGhosts' /\ Registered'
      BY <2>1 DEF NoGhosts, Registered, Present, Untouched
    <2> QED
      BY <2>2, <2>3
  <1>2. CASE CloseWait(k)
    <2>1. /\ pc' = [pc EXCEPT ![k] = "clear"] /\ NothingRuns
          /\ UNCHANGED <<want, held, map, run>>
      BY <1>2 DEF CloseWait
    <2>2. UpgradeInv' /\ HeldInv' /\ WaitedInv'
      BY <2>1 DEF UpgradeInv, HeldInv, WaitedInv, NothingRuns
    <2>3. NoGhosts' /\ Registered'
      BY <2>1 DEF NoGhosts, Registered, Present, Untouched
    <2> QED
      BY <2>2, <2>3
  <1>3. CASE CloseClear(k)
    <2>1. /\ pc' = [pc EXCEPT ![k] = "returned"] /\ pc[k] = "clear" /\ mu = k
          /\ map' = [i \in Ids |-> IF i \in listed THEN NoClient ELSE map[i]]
          /\ UNCHANGED <<want, held, run>>
      BY <1>3 DEF CloseClear
    <2>2. NothingRuns /\ \A u \in Upgraders : pc[u] # "added"
      BY <2>1 DEF WaitedInv
    <2>3. UpgradeInv' /\ HeldInv' /\ WaitedInv'
      BY <2>1 DEF UpgradeInv, HeldInv, WaitedInv, NothingRuns
    <2>4. NoGhosts'
      BY <2>1 DEF NoGhosts
    <2>5. Registered'
      BY <2>1, <2>2 DEF Registered, Present, NothingRuns
    <2> QED
      BY <2>3, <2>4, <2>5
  <1> QED
    BY <1>1, <1>2, <1>3 DEF CloseStep

\* A stutter keeps the invariant.
LEMMA HubStutter ==
  ASSUME HubInv, UNCHANGED vars
  PROVE  HubInv'
  BY DEF HubInv, TypeOK, UpgradeInv, HeldInv, WaitedInv, NothingRuns, NoGhosts,
         Registered, Present, Untouched, vars, hub, caller

\* Every step keeps the invariant.
LEMMA HubNext == HubInv /\ [Next]_vars => HubInv'
  <1> SUFFICES ASSUME HubInv, [Next]_vars PROVE HubInv'
    OBVIOUS
  <1>1. CASE Next
    <2>1. TypeOK'
      BY <1>1, TypeUpgrade, TypeRun, TypeRemove, TypeClose DEF Next
    <2>2. Links'
      BY <1>1, LinksUpgrade, LinksRun, LinksRemove, LinksClose DEF Next
    <2> QED
      BY <2>1, <2>2 DEF HubInv, Links
  <1>2. CASE UNCHANGED vars
    BY <1>2, HubStutter
  <1> QED
    BY <1>1, <1>2

\* The inductive invariant of the hub.
LEMMA HubInvCorrect == Spec => []HubInv
  BY HubInit, HubNext, PTL DEF Spec

-----------------------------------------------------------------------------
(* Theorems.                                                               *)

\* Every variable keeps its type and the mutex excludes.
THEOREM HubTypeCorrect == Spec => []TypeOK
  BY HubInvCorrect, PTL DEF HubInv

\* No entry of the map outlives its client, whoever removes or stops it.
THEOREM HubHasNoGhosts == Spec => []NoGhosts
  BY HubInvCorrect, PTL DEF HubInv

\* When Close has waited, the hub is empty and nobody is adding to it.
THEOREM CloseLeavesNothing == Spec => []CloseFindsNothingLeft
  <1>1. HubInv => CloseFindsNothingLeft
    <2> SUFFICES ASSUME HubInv, NEW k \in Closers, pc[k] = "clear"
                 PROVE  /\ NothingRuns
                        /\ \A i \in Ids : map[i] = NoClient
                        /\ \A u \in Upgraders : pc[u] # "added"
      BY DEF CloseFindsNothingLeft
    <2>1. NothingRuns
      BY DEF HubInv, WaitedInv
    <2>2. \A u \in Upgraders : pc[u] # "added"
      BY HubAssumption DEF HubInv, TypeOK, CriticalPCs
    <2>3. \A i \in Ids : map[i] = NoClient
      BY <2>1, <2>2 DEF HubInv, TypeOK, NoGhosts, NothingRuns
    <2> QED
      BY <2>1, <2>2, <2>3
  <1> QED
    BY <1>1, HubInvCorrect, PTL

\* A live client nobody removed by id is the one the map has under its id.
THEOREM LiveClientsAreRegistered == Spec => []LiveClientIsRegistered
  <1>1. HubInv => LiveClientIsRegistered
    BY DEF HubInv, Registered, Present, Untouched, LiveClientIsRegistered, Live
  <1> QED
    BY <1>1, HubInvCorrect, PTL
=============================================================================
