----------------------------- MODULE Server_proofs -----------------------------
(***************************************************************************)
(* Theorems about server.go: FileServing, for any sets of paths, getters   *)
(* and uploaders, any TTL and size of the cache (the cache stays bounded,  *)
(* a path that was left alone is answered as it is, fresh entries survive, *)
(* and an upload that was answered stays whole), and ServerLifecycle, for  *)
(* any callers of Stop and any number of requests (one of them stops the   *)
(* servers, whoever returns finds them stopped, and a Stop without an      *)
(* error has left no request behind).                                      *)
(***************************************************************************)
EXTENDS FileServing, ServerLifecycle, FiniteSetTheorems, TLAPS

StoredIn(c) == {p \in Paths : c[p].stored}

\* An entry that is wrong was wrong, or made wrong, no earlier than it was stored.
EntryInv ==
    \A p \in Paths : cache[p].stored =>
        /\ cache[p].at <= now
        /\ cache[p].finding # Look(fs[p]) => cache[p].at <= unsettled[p]

\* Of a path left alone since long before a request began, the request knows what
\* the path is, at every place where it relies on what it found.
Live(r) == unsettled[r.path] + TTL < r.since
Good(r) ==
    /\ r.since <= now
    /\ r.pc = "list" => Indexing
    /\ Live(r) => /\ r.pc = "use" => r.finding = Look(fs[r.path])
                  /\ r.pc = "serveIndex" => fs[r.path] = "indexed"
                  /\ r.pc = "list" => fs[r.path] = "dir"

RequestInv == \A g \in Getters : get[g].pc # "idle" => Good(get[g])

\* No path has changed in the future.
ClockInv == \A p \in Paths : unsettled[p] <= now

\* Nobody has been told yet that a file is kept which its uploader still writes.
CopyInv ==
    \A u \in Uploaders :
        up[u].pc = "copy" /\ content[up[u].name].by = u => kept[up[u].name] = "others"

\* What an upload wrote is in a file.
FileInv == \A p \in Paths : content[p].by # "others" => fs[p] = "file"

UploadInv == TypeOK /\ CopyInv /\ FileInv /\ UploadIsWhole

ServingInv == TypeOK /\ EntryInv /\ RequestInv /\ ClockInv

-----------------------------------------------------------------------------
\* What a getter's state is: idle, or a request with a path, a time and a finding.
LEMMA GetShape ==
  ASSUME NEW r \in Gets
  PROVE  /\ r.pc # "idle" => /\ r \in Serving /\ r.path \in Paths /\ r.since \in Nat
                             /\ r.finding \in Findings
  BY DEF Gets, Serving, Answers

\* Requests and answers made by the operators have the type.
LEMMA GetTypes ==
  /\ \A a \in Answers : Answered(a) \in Gets /\ Answered(a).pc = "idle"
  /\ \A label \in {"drop", "stat", "set", "use", "serveIndex", "list"}, p \in Paths,
        t \in Nat, f \in Findings : Request(label, p, t, f) \in Serving
  /\ \A r \in Serving, label \in {"drop", "stat", "set", "use", "serveIndex", "list"} :
        /\ [r EXCEPT !.pc = label] \in Serving
        /\ [r EXCEPT !.pc = label].pc = label
        /\ [r EXCEPT !.pc = label].path = r.path
        /\ [r EXCEPT !.pc = label].since = r.since
        /\ [r EXCEPT !.pc = label].finding = r.finding
  /\ Serving \subseteq Gets
  BY DEF Answered, Gets, Serving, Answers, Request

\* An entry's parts.
LEMMA EntryShape ==
  /\ \A e \in Entries : /\ e.stored \in BOOLEAN
                        /\ e.stored => e.at \in Nat /\ e.finding \in Findings
  /\ None \in Entries /\ ~None.stored
  <1>1. ~None.stored /\ None.stored \in BOOLEAN /\ None \in Entries
    BY DEF None, Entries
  <1>2. \A e \in [stored : {TRUE}, finding : Findings, at : Nat] :
           e.stored = TRUE /\ e.at \in Nat /\ e.finding \in Findings
    OBVIOUS
  <1>3. ASSUME NEW e \in Entries
        PROVE  e.stored \in BOOLEAN /\ (e.stored => e.at \in Nat /\ e.finding \in Findings)
    <2>1. CASE e = None
      BY <1>1, <2>1
    <2>2. CASE e \in [stored : {TRUE}, finding : Findings, at : Nat]
      BY <1>2, <2>2
    <2> QED
      BY <2>1, <2>2 DEF Entries
  <1> QED
    BY <1>1, <1>3

\* What Stat finds is a finding.
LEMMA LookType == \A k \in Kinds : Look(k) \in Findings
  BY DEF Kinds, Look, Findings

\* Eviction makes room for one entry, and drops only one of the oldest.
LEMMA RoomIsMade ==
  ASSUME TypeOK, NEW left \in RoomMade
  PROVE  /\ left \in [Paths -> Entries]
         /\ IsFiniteSet(StoredIn(left)) /\ Cardinality(StoredIn(left)) < MaxSize
         /\ \A p \in Paths : \/ left[p] = cache[p]
                             \/ left[p] = None /\ p \in Oldest /\ Cardinality(Stored) = MaxSize
  <1>1. /\ cache \in [Paths -> Entries] /\ IsFiniteSet(Stored)
        /\ Cardinality(Stored) <= MaxSize /\ Cardinality(Stored) \in Nat
        /\ MaxSize \in Nat /\ None \in Entries /\ ~None.stored
    BY ServingAssumption, EntryShape, FS_CardinalityType DEF TypeOK
  <1>2. CASE Cardinality(Stored) < MaxSize
    <2>1. left = cache
      BY <1>1, <1>2 DEF RoomMade
    <2>2. StoredIn(left) = Stored
      BY <2>1 DEF StoredIn, Stored
    <2> QED
      BY <1>1, <1>2, <2>1, <2>2
  <1>3. CASE Cardinality(Stored) = MaxSize
    <2>1. PICK p \in Oldest : left = [cache EXCEPT ![p] = None]
      BY <1>1, <1>3 DEF RoomMade
    <2>2. p \in Paths /\ p \in Stored
      BY <2>1 DEF Oldest, Stored
    <2>3. StoredIn(left) = Stored \ {p}
      BY <1>1, <2>1, <2>2 DEF StoredIn, Stored
    <2>4. IsFiniteSet(Stored \ {p}) /\ Cardinality(Stored \ {p}) = Cardinality(Stored) - 1
      BY <1>1, <2>2, FS_RemoveElement
    <2>5. /\ left \in [Paths -> Entries]
          /\ \A q \in Paths : left[q] = IF q = p THEN None ELSE cache[q]
      BY <1>1, <2>1, <2>2
    <2>6. Cardinality(StoredIn(left)) < MaxSize
      BY <1>1, <1>3, <2>3, <2>4
    <2> QED
      BY <1>3, <2>1, <2>3, <2>4, <2>5, <2>6
  <1> QED
    BY <1>1, <1>2, <1>3

-----------------------------------------------------------------------------
(* Types.                                                                  *)

\* What a getter becomes is a request or an answer.
LEMMA GetStepType ==
  ASSUME TypeOK, NEW g \in Getters, GetStep(g)
  PROVE  \E r \in Gets : get' = [get EXCEPT ![g] = r]
  <1>1. get[g] \in Gets /\ now \in Nat /\ fs \in [Paths -> Kinds] /\ cache \in [Paths -> Entries]
    BY DEF TypeOK
  <1>2. "absent" \in Findings /\ {"forbidden", "notFound", "content", "listing", "redirect", "failed"} \subseteq Answers
    BY DEF Findings, Answers
  <1>3. \A p \in Paths : Settled(p) \in Nat
    BY <1>1 DEF Settled
  <1>4. get[g].pc # "idle" => get[g] \in Serving
    BY <1>1, GetShape
  <1> USE DEF Become, Goto, Respond, At
  <1>5. CASE Refuse(g)
    BY <1>2, <1>5, GetTypes DEF Refuse
  <1>6. CASE \E p \in Paths : GetHit(g, p)
    BY <1>1, <1>3, <1>6, GetTypes, EntryShape DEF GetHit
  <1>7. CASE \E p \in Paths : GetMiss(g, p)
    <2>1. PICK p \in Paths : GetMiss(g, p)
      BY <1>7
    <2>2. PICK label \in {"drop", "stat"} : get' = [get EXCEPT ![g] = Request(label, p, Settled(p), "absent")]
      BY <2>1 DEF GetMiss
    <2> QED
      BY <1>2, <1>3, <2>2, GetTypes
  <1>8. CASE Drop(g)
    BY <1>4, <1>8, GetTypes DEF Drop
  <1>9. CASE Stat(g)
    <2>1. get[g] \in Serving /\ get[g].path \in Paths /\ get[g].since \in Nat
      BY <1>1, <1>4, <1>9, GetShape DEF Stat
    <2>2. PICK f \in {Look(fs[get[g].path]), "absent"} :
             get' = [get EXCEPT ![g] = Request("set", get[g].path, get[g].since, f)]
      BY <1>9 DEF Stat
    <2>3. f \in Findings
      BY <1>1, <1>2, <2>1, LookType
    <2> QED
      BY <2>1, <2>2, <2>3, GetTypes
  <1>10. CASE Set(g)
    BY <1>4, <1>10, GetTypes DEF Set
  <1>11. CASE NotFound(g)
    BY <1>2, <1>11, GetTypes DEF NotFound
  <1>12. CASE ServeFile(g)
    BY <1>2, <1>12, GetTypes DEF ServeFile
  <1>13. CASE FindIndex(g)
    BY <1>4, <1>13, GetTypes DEF FindIndex
  <1>14. CASE MissIndex(g)
    <2>1. get[g] \in Serving /\ (Goto(g, "list") \/ Respond(g, "forbidden"))
      BY <1>4, <1>14 DEF MissIndex
    <2>2. CASE Goto(g, "list")
      BY <2>1, <2>2, GetTypes
    <2>3. CASE Respond(g, "forbidden")
      BY <1>2, <2>3, GetTypes
    <2> QED
      BY <2>1, <2>2, <2>3
  <1>15. CASE ServeIndex(g)
    BY <1>2, <1>15, GetTypes DEF ServeIndex
  <1>16. CASE List(g)
    BY <1>2, <1>16, GetTypes DEF List
  <1> QED
    BY <1>5, <1>6, <1>7, <1>8, <1>9, <1>10, <1>11, <1>12, <1>13, <1>14, <1>15, <1>16
    DEF GetStep
\* What a step does to the cache: nothing, or it drops an expired entry, or stores
\* a finding in room made for it; a wrong one unsettles its path.
CacheDrop(p) == Expired(p) /\ cache' = [cache EXCEPT ![p] = None]
CacheStore(p, left, f) ==
    /\ cache' = [left EXCEPT ![p] = Entry(f)]
    /\ now' = now /\ fs' = fs
    /\ f = Look(fs[p]) \/ unsettled'[p] = now

LEMMA CacheStep ==
  ASSUME TypeOK, [Next]_vars
  PROVE  \/ cache' = cache
         \/ \E p \in Paths : CacheDrop(p) /\ now' = now /\ fs' = fs /\ unsettled' = unsettled
         \/ \E p \in Paths, left \in RoomMade, f \in Findings : CacheStore(p, left, f)
  <1>1. CASE \E g \in Getters : Drop(g)
    <2>1. PICK g \in Getters : Drop(g)
      BY <1>1
    <2>2. get[g].path \in Paths
      BY <2>1, GetShape DEF TypeOK, Drop, At
    <2>3. now' = now /\ fs' = fs /\ unsettled' = unsettled
      BY <2>1 DEF Drop, disk
    <2> QED
      BY <2>1, <2>2, <2>3 DEF Drop, CacheDrop
  <1>2. CASE \E g \in Getters : Set(g)
    <2>1. PICK g \in Getters : Set(g)
      BY <1>2
    <2>2. get[g].path \in Paths /\ get[g].finding \in Findings
      BY <2>1, GetShape DEF TypeOK, Set, At
    <2>3. PICK left \in RoomMade : cache' = [left EXCEPT ![get[g].path] = Entry(get[g].finding)]
      BY <2>1 DEF Set
    <2>4. /\ now' = now /\ fs' = fs
          /\ get[g].finding = Look(fs[get[g].path]) \/ unsettled'[get[g].path] = now
      BY <2>1, <2>2 DEF Set, TypeOK
    <2> QED
      BY <2>2, <2>3, <2>4 DEF CacheStore
  <1>3. CASE UNCHANGED vars
    BY <1>3 DEF vars
  <1>4. ASSUME NEW g \in Getters, GetStep(g), ~Drop(g), ~Set(g)
        PROVE  cache' = cache
    BY <1>4 DEF GetStep, Refuse, GetHit, GetMiss, Stat, NotFound, ServeFile, FindIndex,
                MissIndex, ServeIndex, List
  <1>5. ASSUME NEW u \in Uploaders, UploadStep(u)
        PROVE  cache' = cache
    BY <1>5 DEF UploadStep, Create, OpenFor, Copy
  <1>6. ASSUME NEW p \in Paths, Change(p)
        PROVE  cache' = cache
    BY <1>6 DEF Change
  <1>7. CASE Tick
    BY <1>7 DEF Tick
  <1> QED
    BY <1>1, <1>2, <1>3, <1>4, <1>5, <1>6, <1>7 DEF Next

\* What a step does to the file system and the clock: a path that changes, or is
\* misjudged, is unsettled from now on, and time does not move meanwhile.
LEMMA DiskStep ==
  ASSUME TypeOK, [Next]_vars
  PROVE  /\ now' \in Nat /\ now <= now'
         /\ fs' \in [Paths -> Kinds] /\ unsettled' \in [Paths -> Nat]
         /\ \A p \in Paths : \/ unsettled'[p] = unsettled[p] /\ fs'[p] = fs[p]
                             \/ unsettled'[p] = now /\ now' = now
  <1>1. now \in Nat /\ fs \in [Paths -> Kinds] /\ unsettled \in [Paths -> Nat]
    BY DEF TypeOK
  <1>2. CASE UNCHANGED <<now, fs, unsettled>>
    BY <1>1, <1>2
  <1>3. ASSUME now' = now, NEW q \in Paths, NEW k \in Kinds,
               fs' = [fs EXCEPT ![q] = k], unsettled' = [unsettled EXCEPT ![q] = now]
        PROVE  /\ fs' \in [Paths -> Kinds] /\ unsettled' \in [Paths -> Nat]
               /\ \A p \in Paths : \/ unsettled'[p] = unsettled[p] /\ fs'[p] = fs[p]
                                   \/ unsettled'[p] = now
    BY <1>1, <1>3
  <1>4. ASSUME NEW q \in Paths
        PROVE  fs[q] \in Kinds /\ fs = [fs EXCEPT ![q] = fs[q]]
    BY <1>1, <1>4
  <1>5. ASSUME NEW g \in Getters, Set(g)
        PROVE  /\ now' = now /\ fs' = fs
               /\ \/ unsettled' = unsettled
                  \/ \E q \in Paths : unsettled' = [unsettled EXCEPT ![q] = now]
    <2>1. get[g].path \in Paths
      BY <1>5, GetShape DEF TypeOK, Set, At
    <2> QED
      BY <1>5, <2>1 DEF Set
  <1>6. ASSUME NEW g \in Getters, MissIndex(g)
        PROVE  /\ now' = now /\ fs' = fs
               /\ \/ unsettled' = unsettled
                  \/ \E q \in Paths : unsettled' = [unsettled EXCEPT ![q] = now]
    <2>1. get[g].path \in Paths
      BY <1>6, GetShape DEF TypeOK, MissIndex, At
    <2> QED
      BY <1>6, <2>1 DEF MissIndex
  <1>7. ASSUME NEW g \in Getters, GetStep(g), ~Set(g), ~MissIndex(g)
        PROVE  UNCHANGED <<now, fs, unsettled>>
    BY <1>7 DEF GetStep, Refuse, GetHit, GetMiss, Drop, Stat, NotFound, ServeFile, FindIndex,
                ServeIndex, List, disk
  <1>8. ASSUME NEW u \in Uploaders, UploadStep(u)
        PROVE  \/ UNCHANGED <<now, fs, unsettled>>
               \/ /\ now' = now
                  /\ \E q \in Paths, k \in Kinds : /\ fs' = [fs EXCEPT ![q] = k]
                                                    /\ unsettled' = [unsettled EXCEPT ![q] = now]
    BY <1>8 DEF UploadStep, Create, OpenFor, Copy, Kinds
  <1>9. ASSUME NEW p \in Paths, Change(p)
        PROVE  /\ now' = now
               /\ \E q \in Paths, k \in Kinds : /\ fs' = [fs EXCEPT ![q] = k]
                                                 /\ unsettled' = [unsettled EXCEPT ![q] = now]
    BY <1>9 DEF Change
  <1>10. CASE Tick
    BY <1>1, <1>10 DEF Tick, disk
  <1>11. CASE UNCHANGED vars
    BY <1>2, <1>11 DEF vars, disk
  <1>12. CASE \E g \in Getters : GetStep(g)
    <2>1. \/ UNCHANGED <<now, fs, unsettled>>
          \/ /\ now' = now
             /\ \E q \in Paths, k \in Kinds : /\ fs' = [fs EXCEPT ![q] = k]
                                               /\ unsettled' = [unsettled EXCEPT ![q] = now]
      BY <1>4, <1>5, <1>6, <1>7, <1>12
    <2> QED
      BY <1>1, <1>2, <1>3, <2>1
  <1> QED
    BY <1>1, <1>2, <1>3, <1>8, <1>9, <1>10, <1>11, <1>12 DEF Next
\* The time of a step that stores an entry is a time an entry may have.
LEMMA CacheTypes ==
  ASSUME TypeOK, [Next]_vars
  PROVE  /\ cache' \in [Paths -> Entries]
         /\ IsFiniteSet(Stored') /\ Cardinality(Stored') <= MaxSize
  <1>1. /\ cache \in [Paths -> Entries] /\ now \in Nat /\ MaxSize \in Nat
        /\ IsFiniteSet(Stored) /\ Cardinality(Stored) <= MaxSize /\ Cardinality(Stored) \in Nat
    BY ServingAssumption, FS_CardinalityType DEF TypeOK
  <1>2. CASE cache' = cache
    <2>1. Stored' = Stored
      BY <1>2 DEF Stored
    <2> QED
      BY <1>1, <1>2, <2>1
  <1>3. ASSUME NEW p \in Paths, CacheDrop(p)
        PROVE  /\ cache' \in [Paths -> Entries]
               /\ IsFiniteSet(Stored') /\ Cardinality(Stored') <= MaxSize
    <2>1. Stored' = Stored \ {p} /\ p \in Stored
      BY <1>1, <1>3, EntryShape DEF Stored, CacheDrop, Expired
    <2>2. IsFiniteSet(Stored') /\ Cardinality(Stored') = Cardinality(Stored) - 1
      BY <1>1, <2>1, FS_RemoveElement
    <2> QED
      BY <1>1, <1>3, <2>2, EntryShape DEF CacheDrop
  <1>4. ASSUME NEW p \in Paths, NEW left \in RoomMade, NEW f \in Findings, CacheStore(p, left, f)
        PROVE  /\ cache' \in [Paths -> Entries]
               /\ IsFiniteSet(Stored') /\ Cardinality(Stored') <= MaxSize
    <2>1. /\ left \in [Paths -> Entries]
          /\ IsFiniteSet(StoredIn(left)) /\ Cardinality(StoredIn(left)) < MaxSize
          /\ Cardinality(StoredIn(left)) \in Nat
      BY RoomIsMade, FS_CardinalityType
    <2>2. Entry(f) \in Entries /\ Entry(f).stored
      BY <1>1 DEF Entry, Entries
    <2>3. cache' \in [Paths -> Entries] /\ Stored' = StoredIn(left) \cup {p}
      BY <1>4, <2>1, <2>2 DEF CacheStore, StoredIn, Stored
    <2>4. /\ IsFiniteSet(StoredIn(left) \cup {p})
          /\ \/ Cardinality(StoredIn(left) \cup {p}) = Cardinality(StoredIn(left))
             \/ Cardinality(StoredIn(left) \cup {p}) = Cardinality(StoredIn(left)) + 1
      BY <2>1, FS_AddElement
    <2> QED
      BY <1>1, <2>1, <2>3, <2>4
  <1> QED
    BY <1>2, <1>3, <1>4, CacheStep

\* Uploads and changes keep the types of the rest.
LEMMA UploadTypes ==
  ASSUME TypeOK, [Next]_vars
  PROVE  /\ content' \in [Paths -> Contents] /\ up' \in [Uploaders -> Ups]
         /\ kept' \in [Paths -> Uploaders \cup {"others"}] /\ changes' \in Nat
  <1>1. /\ content \in [Paths -> Contents] /\ up \in [Uploaders -> Ups]
        /\ kept \in [Paths -> Uploaders \cup {"others"}] /\ changes \in Nat
    BY DEF TypeOK
  <1>2. CASE UNCHANGED <<content, up, kept, changes>>
    BY <1>1, <1>2
  <1>3. ASSUME NEW g \in Getters, GetStep(g)
        PROVE  UNCHANGED <<content, up, kept, changes>>
    BY <1>3 DEF GetStep, Refuse, GetHit, GetMiss, Drop, Stat, Set, NotFound, ServeFile,
                FindIndex, MissIndex, ServeIndex, List, disk
  <1>4. ASSUME NEW u \in Uploaders, NEW p \in Paths, Create(u, p)
        PROVE  /\ content' \in [Paths -> Contents] /\ up' \in [Uploaders -> Ups]
               /\ kept' = kept /\ changes' = changes
    <2>1. [by |-> u, state |-> "torn"] \in Contents /\ [pc |-> "copy", name |-> p] \in Ups
      BY DEF Contents, Ups
    <2> QED
      BY <1>1, <1>4, <2>1 DEF Create, OpenFor, UpBecome
  <1>5. ASSUME NEW u \in Uploaders, Copy(u)
        PROVE  /\ content' \in [Paths -> Contents] /\ up' \in [Uploaders -> Ups]
               /\ kept' \in [Paths -> Uploaders \cup {"others"}] /\ changes' = changes
    <2>1. [pc |-> "idle"] \in Ups
          /\ \A s \in {"whole", "unflushed", "torn"} : [by |-> u, state |-> s] \in Contents
      BY DEF Contents, Ups
    <2>2. up' \in [Uploaders -> Ups] /\ changes' = changes
      BY <1>1, <1>5, <2>1 DEF Copy, UpBecome
    <2>3. content' = content \/ \E p \in {up[u].name}, s \in {"whole", "unflushed", "torn"} :
             content' = [content EXCEPT ![p] = [by |-> u, state |-> s]]
      BY <1>5 DEF Copy
    <2>4. content' \in [Paths -> Contents]
      BY <1>1, <2>1, <2>3
    <2>5. kept' = kept \/ \E p \in {up[u].name} : kept' = [kept EXCEPT ![p] = u]
      BY <1>5 DEF Copy
    <2>6. kept' \in [Paths -> Uploaders \cup {"others"}]
      BY <1>1, <2>5
    <2> QED
      BY <2>2, <2>4, <2>6
  <1>6. ASSUME NEW p \in Paths, Change(p)
        PROVE  /\ content' \in [Paths -> Contents] /\ up' = up
               /\ kept' \in [Paths -> Uploaders \cup {"others"}] /\ changes' \in Nat
    <2>1. Nobody \in Contents
      BY DEF Nobody, Contents
    <2> QED
      BY <1>1, <1>6, <2>1 DEF Change
  <1>7. CASE Tick
    BY <1>2, <1>7 DEF Tick, disk
  <1>8. CASE UNCHANGED vars
    BY <1>2, <1>8 DEF vars, disk
  <1> QED
    BY <1>1, <1>2, <1>3, <1>4, <1>5, <1>6, <1>7, <1>8 DEF Next, UploadStep

\* A step of another than a getter leaves the getters alone.
LEMMA OthersKeepGets ==
  ASSUME [Next]_vars, ~ \E g \in Getters : GetStep(g)
  PROVE  get' = get
  BY DEF Next, UploadStep, Create, OpenFor, Copy, Change, Tick, vars

LEMMA TypeStep ==
  ASSUME TypeOK, [Next]_vars
  PROVE  TypeOK'
  <1>1. get' \in [Getters -> Gets]
    BY GetStepType, OthersKeepGets DEF TypeOK
  <1> QED
    BY <1>1, CacheTypes, UploadTypes, DiskStep DEF TypeOK

LEMMA TypeInit ==
  ASSUME Init
  PROVE  TypeOK
  <1>1. None \in Entries /\ ~None.stored /\ Nobody \in Contents /\ [pc |-> "idle"] \in Ups
    BY EntryShape DEF Nobody, Contents, Ups
  <1>2. Answered("none") \in Gets
    BY GetTypes DEF Answers
  <1>3. Stored = {}
    BY <1>1 DEF Init, Stored
  <1>4. IsFiniteSet(Stored) /\ Cardinality(Stored) <= MaxSize
    BY <1>3, FS_EmptySet, ServingAssumption
  <1> QED
    BY <1>1, <1>2, <1>4 DEF Init, TypeOK

\* The variables keep their types, and the cache its bound (server.go:84).
THEOREM TypeCorrect == Spec => []TypeOK
  BY TypeInit, TypeStep, PTL DEF Spec
-----------------------------------------------------------------------------
(* What the cache and the requests know.                                   *)

\* An entry stays as wrong as it was allowed to be: a path that comes to differ from
\* its entry is unsettled at that moment.
LEMMA EntryStep ==
  ASSUME TypeOK, EntryInv, [Next]_vars
  PROVE  EntryInv'
  <1>1. SUFFICES ASSUME NEW p \in Paths, cache'[p].stored
                 PROVE  /\ cache'[p].at <= now'
                        /\ cache'[p].finding # Look(fs'[p]) => cache'[p].at <= unsettled'[p]
    BY DEF EntryInv
  <1>2. /\ now \in Nat /\ now' \in Nat /\ now <= now'
        /\ \/ unsettled'[p] = unsettled[p] /\ fs'[p] = fs[p]
           \/ unsettled'[p] = now /\ now' = now
    BY DiskStep DEF TypeOK
  <1>3. unsettled[p] \in Nat /\ cache \in [Paths -> Entries] /\ cache[p] \in Entries
    BY DEF TypeOK
  <1>4. CASE cache'[p] = cache[p]
    <2>1. cache[p].at \in Nat /\ cache[p].at <= now
          /\ (cache[p].finding # Look(fs[p]) => cache[p].at <= unsettled[p])
      BY <1>1, <1>3, <1>4, EntryShape DEF EntryInv
    <2>2. cache'[p].at <= now'
      BY <1>2, <1>4, <2>1
    <2>3. ASSUME cache'[p].finding # Look(fs'[p])
          PROVE  cache'[p].at <= unsettled'[p]
      BY <1>2, <1>4, <2>1, <2>3
    <2> QED
      BY <2>2, <2>3
  <1>5. ASSUME NEW q \in Paths, CacheDrop(q)
        PROVE  cache'[p] = cache[p]
    BY <1>1, <1>3, <1>5, EntryShape DEF CacheDrop
  <1>6. ASSUME NEW q \in Paths, NEW left \in RoomMade, NEW f \in Findings, CacheStore(q, left, f)
        PROVE  \/ cache'[p] = cache[p]
               \/ p = q /\ cache'[p] = Entry(f)
    <2>1. left \in [Paths -> Entries] /\ (left[p] = cache[p] \/ left[p] = None)
      BY RoomIsMade
    <2> QED
      BY <1>1, <1>6, <2>1, EntryShape DEF CacheStore
  <1>7. ASSUME NEW left \in RoomMade, NEW f \in Findings, CacheStore(p, left, f), cache'[p] = Entry(f)
        PROVE  /\ cache'[p].at <= now'
               /\ cache'[p].finding # Look(fs'[p]) => cache'[p].at <= unsettled'[p]
    <2>1. cache'[p].at = now /\ cache'[p].finding = f
      BY <1>7 DEF Entry
    <2> QED
      BY <1>2, <1>7, <2>1 DEF CacheStore
  <1> QED
    BY <1>4, <1>5, <1>6, <1>7, CacheStep

LEMMA ClockStep ==
  ASSUME TypeOK, ClockInv, [Next]_vars
  PROVE  ClockInv'
  <1>1. SUFFICES ASSUME NEW p \in Paths
                 PROVE  unsettled'[p] <= now'
    BY DEF ClockInv
  <1>2. now \in Nat /\ now' \in Nat /\ now <= now' /\ unsettled[p] \in Nat /\ unsettled[p] <= now
    BY DiskStep DEF TypeOK, ClockInv
  <1>3. unsettled'[p] = unsettled[p] \/ unsettled'[p] = now
    BY DiskStep
  <1> QED
    BY <1>2, <1>3

\* What a waiting request knows stays true, as long as its path is left alone.
LEMMA GoodKept ==
  ASSUME TypeOK, [Next]_vars, NEW r \in Serving, Good(r)
  PROVE  Good(r)'
  <1>1. r.path \in Paths /\ r.since \in Nat
    BY DEF Serving
  <1>2. /\ now \in Nat /\ now' \in Nat /\ now <= now' /\ TTL \in Nat /\ unsettled[r.path] \in Nat
        /\ \/ unsettled'[r.path] = unsettled[r.path] /\ fs'[r.path] = fs[r.path]
           \/ unsettled'[r.path] = now /\ now' = now
    BY <1>1, DiskStep, ServingAssumption DEF TypeOK
  <1>3. r.since <= now
    BY DEF Good
  <1>4. r.since <= now'
    BY <1>1, <1>2, <1>3
  <1>5. Live(r)' => Live(r) /\ fs'[r.path] = fs[r.path]
    BY <1>1, <1>2, <1>3 DEF Live
  <1> QED
    BY <1>4, <1>5 DEF Good
\* What a getter knows after a step of its own.
LEMMA OwnStep ==
  ASSUME ServingInv, NEW g \in Getters, GetStep(g), [Next]_vars, get'[g].pc # "idle"
  PROVE  Good(get[g])'
  <1>1. /\ now \in Nat /\ TTL \in Nat /\ fs \in [Paths -> Kinds]
        /\ unsettled \in [Paths -> Nat] /\ cache \in [Paths -> Entries]
        /\ get \in [Getters -> Gets] /\ get[g] \in Gets
    BY ServingAssumption DEF ServingInv, TypeOK
  <1>2. \A p \in Paths : Settled(p) \in Nat /\ Settled(p) <= now
    BY <1>1 DEF Settled
  <1>3. get[g].pc # "idle" => get[g] \in Serving /\ Good(get[g]) /\ get[g].path \in Paths
                              /\ get[g].since \in Nat
    BY <1>1, GetShape DEF ServingInv, RequestInv
  <1>4. ASSUME NEW p \in Paths, NEW label \in {"drop", "stat", "set"}, NEW t \in Nat,
               t <= now, NEW f \in Findings, get' = [get EXCEPT ![g] = Request(label, p, t, f)],
               now' = now
        PROVE  Good(get[g])'
    BY <1>1, <1>4 DEF Request, Good
  <1>5. ASSUME NEW p \in Paths, GetHit(g, p)
        PROVE  Good(get[g])'
    <2>1. /\ get'[g] = Request("use", p, Settled(p), cache[p].finding)
          /\ now' = now /\ fs' = fs /\ unsettled' = unsettled
          /\ cache[p].stored /\ now - cache[p].at <= TTL
      BY <1>1, <1>5, EntryShape DEF GetHit, Become, disk, Expired
    <2>2. /\ cache[p].at \in Nat /\ unsettled[p] \in Nat
          /\ cache[p].finding # Look(fs[p]) => cache[p].at <= unsettled[p]
      BY <1>1, <2>1, EntryShape DEF ServingInv, EntryInv
    <2>3. ASSUME unsettled[p] + TTL < Settled(p)
          PROVE  cache[p].finding = Look(fs[p])
      <3>1. unsettled[p] + TTL < now
        BY <1>1, <2>2, <2>3 DEF Settled
      <3> QED
        BY <1>1, <2>1, <2>2, <3>1
    <2> QED
      BY <1>2, <2>1, <2>3 DEF Good, Live, Request
  <1>6. ASSUME NEW p \in Paths, GetMiss(g, p)
        PROVE  Good(get[g])'
    <2>1. now' = now /\ "absent" \in Findings
      BY <1>6 DEF GetMiss, Findings
    <2>2. PICK label \in {"drop", "stat"} : get' = [get EXCEPT ![g] = Request(label, p, Settled(p), "absent")]
      BY <1>6 DEF GetMiss, Become
    <2> QED
      BY <1>2, <1>4, <2>1, <2>2
  <1>7. CASE Drop(g) \/ Stat(g)
    <2>1. /\ get[g] \in Serving /\ Good(get[g]) /\ now' = now
      BY <1>3, <1>7 DEF Drop, Stat, At
    <2>2. CASE Drop(g)
      BY <1>1, <2>1, <2>2, GetTypes DEF Drop, Goto, Become, Good
    <2>3. CASE Stat(g)
      <3>1. PICK f \in {Look(fs[get[g].path]), "absent"} :
               get' = [get EXCEPT ![g] = Request("set", get[g].path, get[g].since, f)]
        BY <2>3 DEF Stat, Become
      <3>2. get'[g].pc = "set" /\ get'[g].since = get[g].since
        BY <1>1, <3>1 DEF Request
      <3> QED
        BY <2>1, <3>2 DEF Good
    <2> QED
      BY <1>7, <2>2, <2>3
  <1>8. CASE Set(g)
    <2>1. /\ get[g] \in Serving /\ Good(get[g]) /\ get[g].path \in Paths /\ get[g].since \in Nat
          /\ now' = now /\ fs' = fs
      BY <1>3, <1>8 DEF Set, At
    <2>2. /\ get'[g].pc = "use" /\ get'[g].path = get[g].path /\ get'[g].since = get[g].since
          /\ get'[g].finding = get[g].finding
      BY <1>1, <1>8, <2>1, GetTypes DEF Set, Goto, Become
    <2>3. get[g].finding = Look(fs[get[g].path]) \/ unsettled'[get[g].path] = now
      BY <1>1, <1>8, <2>1 DEF Set
    <2>4. get[g].since <= now
      BY <2>1 DEF Good
    <2>5. ASSUME unsettled'[get[g].path] + TTL < get[g].since
          PROVE  get[g].finding = Look(fs[get[g].path])
      BY <1>1, <2>1, <2>3, <2>4, <2>5
    <2> QED
      BY <2>1, <2>2, <2>4, <2>5 DEF Good, Live
  <1>9. CASE FindIndex(g)
    <2>1. /\ get[g] \in Serving /\ Good(get[g]) /\ fs[get[g].path] = "indexed"
          /\ now' = now /\ fs' = fs
      BY <1>3, <1>9 DEF FindIndex, At, disk
    <2>2. get'[g].pc = "serveIndex" /\ get'[g].path = get[g].path /\ get'[g].since = get[g].since
      BY <1>1, <1>9, <2>1, GetTypes DEF FindIndex, Goto, Become
    <2> QED
      BY <2>1, <2>2 DEF Good
  <1>10. CASE MissIndex(g)
    <2>1. /\ get[g] \in Serving /\ Good(get[g]) /\ get[g].path \in Paths /\ get[g].since \in Nat
          /\ get[g].pc = "use" /\ get[g].finding = "dir" /\ now' = now /\ fs' = fs
      BY <1>3, <1>10 DEF MissIndex, At
    <2>2. Indexing /\ Goto(g, "list")
      BY <1>1, <1>10 DEF MissIndex, Respond, Become, Answered
    <2>3. get'[g].pc = "list" /\ get'[g].path = get[g].path /\ get'[g].since = get[g].since
      BY <1>1, <2>1, <2>2, GetTypes DEF Goto, Become
    <2>4. /\ fs[get[g].path] \in Kinds /\ unsettled[get[g].path] \in Nat
          /\ IF fs[get[g].path] = "indexed" THEN unsettled'[get[g].path] = now
                                            ELSE unsettled'[get[g].path] = unsettled[get[g].path]
      BY <1>1, <1>10, <2>1 DEF MissIndex
    <2>5. get[g].since <= now
      BY <2>1 DEF Good
    <2>6. ASSUME unsettled'[get[g].path] + TTL < get[g].since
          PROVE  fs[get[g].path] = "dir"
      <3>1. fs[get[g].path] # "indexed"
        BY <1>1, <2>1, <2>4, <2>5, <2>6
      <3>2. Live(get[g])
        BY <2>4, <2>6, <3>1 DEF Live
      <3>3. Look(fs[get[g].path]) = "dir"
        BY <2>1, <3>2 DEF Good
      <3> QED
        BY <3>1, <3>3 DEF Look
    <2> QED
      BY <2>1, <2>2, <2>3, <2>5, <2>6 DEF Good, Live
  <1>11. ASSUME Refuse(g) \/ NotFound(g) \/ ServeFile(g) \/ ServeIndex(g) \/ List(g)
         PROVE  FALSE
    BY <1>1, <1>11 DEF Refuse, NotFound, ServeFile, ServeIndex, List, Respond, Become, Answered
  <1> QED
    BY <1>5, <1>6, <1>7, <1>8, <1>9, <1>10, <1>11 DEF GetStep

LEMMA RequestStep ==
  ASSUME ServingInv, [Next]_vars
  PROVE  RequestInv'
  <1>1. SUFFICES ASSUME NEW h \in Getters, get'[h].pc # "idle"
                 PROVE  Good(get[h])'
    BY DEF RequestInv
  <1>2. TypeOK /\ get \in [Getters -> Gets]
    BY DEF ServingInv, TypeOK
  <1>3. ASSUME get'[h] = get[h]
        PROVE  Good(get[h])'
    <2>1. get[h] \in Serving /\ Good(get[h])
      BY <1>1, <1>2, <1>3, GetShape DEF ServingInv, RequestInv
    <2> DEFINE r == get[h]
    <2>2. r \in Serving /\ Good(r)
      BY <2>1
    <2>3. now' \in Nat
      BY <1>2, DiskStep
    <2> QED
      BY <1>2, <1>3, <2>1, GoodKept DEF Good, Live
  <1>4. ASSUME NEW g \in Getters, GetStep(g)
        PROVE  Good(get[h])'
    <2>1. CASE g = h
      BY <1>1, <1>4, <2>1, OwnStep
    <2>2. CASE g # h
      <3>1. get'[h] = get[h]
        BY <1>2, <1>4, <2>2, GetStepType
      <3> QED
        BY <1>3, <3>1
    <2> QED
      BY <2>1, <2>2
  <1> QED
    BY <1>3, <1>4, OthersKeepGets
LEMMA ServingStep ==
  ASSUME ServingInv, [Next]_vars
  PROVE  ServingInv'
  BY TypeStep, EntryStep, RequestStep, ClockStep DEF ServingInv

LEMMA ServingInit ==
  ASSUME Init
  PROVE  ServingInv
  <1>1. \A p \in Paths : ~cache[p].stored /\ unsettled[p] = 0 /\ now = 0
    BY EntryShape DEF Init
  <1>2. \A g \in Getters : get[g].pc = "idle"
    BY DEF Init, Answered
  <1> QED
    BY <1>1, <1>2, TypeInit DEF ServingInv, EntryInv, RequestInv, ClockInv

-----------------------------------------------------------------------------
(* What follows.                                                           *)

\* A path that was left alone is answered as it is: every place that relies on what
\* was found relies on something that is still true (server.go:393-451).
LEMMA AnswerStep ==
  ASSUME ServingInv, [Next]_vars, NEW g \in Getters,
         get[g].pc # "idle", get'[g].pc = "idle",
         unsettled'[get[g].path] + TTL < get[g].since
  PROVE  get'[g].answer \in Right(get[g].path) \cup {"failed"}
  <1> DEFINE p == get[g].path
  <1>1. /\ now \in Nat /\ TTL \in Nat /\ fs \in [Paths -> Kinds]
        /\ unsettled \in [Paths -> Nat] /\ get \in [Getters -> Gets] /\ get[g] \in Gets
    BY ServingAssumption DEF ServingInv, TypeOK
  <1>2. get[g] \in Serving /\ Good(get[g]) /\ p \in Paths /\ get[g].since \in Nat
        /\ fs[p] \in Kinds
    BY <1>1, GetShape DEF ServingInv, RequestInv
  <1>3. get[g].since <= now
    BY <1>2 DEF Good
  <1>4. unsettled'[p] = unsettled[p] \/ unsettled'[p] = now
    BY <1>2, DiskStep DEF ServingInv
  <1>5. unsettled'[p] = unsettled[p] /\ unsettled'[p] # now
    BY <1>1, <1>2, <1>3, <1>4
  <1>6. Live(get[g])
    BY <1>5 DEF Live
  <1>7. /\ get[g].pc = "use" => get[g].finding = Look(fs[p])
        /\ get[g].pc = "serveIndex" => fs[p] = "indexed"
        /\ get[g].pc = "list" => fs[p] = "dir" /\ Indexing
    BY <1>2, <1>6 DEF Good
  <1>8. \A h \in Getters : GetStep(h) => h = g
    BY <1>1, GetStepType DEF ServingInv
  <1>9. GetStep(g)
    BY <1>8, OthersKeepGets
  <1>10. \A a \in Answers : Respond(g, a) => get'[g].answer = a
    BY <1>1 DEF Respond, Become, Answered
  <1>11. {"notFound", "content", "listing", "redirect", "forbidden", "failed"} \subseteq Answers
    BY DEF Answers
  <1>12. CASE NotFound(g)
    <2>1. get'[g].answer = "notFound" /\ Look(fs[p]) = "absent"
      BY <1>7, <1>10, <1>11, <1>12 DEF NotFound, At
    <2>2. fs[p] = "absent"
      BY <1>2, <2>1 DEF Look
    <2> QED
      BY <2>1, <2>2 DEF Right
  <1>13. CASE ServeFile(g)
    <2>1. Look(fs[p]) = "file"
      BY <1>7, <1>13 DEF ServeFile, At
    <2>2. fs[p] = "file"
      BY <1>2, <2>1 DEF Look
    <2>3. get'[g].answer = "content"
      BY <1>10, <1>11, <1>13, <2>2 DEF ServeFile
    <2> QED
      BY <2>2, <2>3 DEF Right
  <1>14. CASE MissIndex(g)
    <2>1. Look(fs[p]) = "dir" /\ fs[p] # "indexed"
      BY <1>1, <1>2, <1>5, <1>7, <1>14 DEF MissIndex, At
    <2>2. fs[p] = "dir"
      BY <1>2, <2>1 DEF Look
    <2>3. ~Indexing /\ Respond(g, "forbidden")
      BY <1>1, <1>2, <1>14, GetTypes DEF MissIndex, Goto, Become
    <2>4. get'[g].answer = "forbidden"
      BY <1>10, <1>11, <2>3
    <2> QED
      BY <2>2, <2>3, <2>4 DEF Right
  <1>15. CASE ServeIndex(g)
    <2>1. fs[p] = "indexed"
      BY <1>7, <1>15 DEF ServeIndex, At
    <2>2. get'[g].answer = "content"
      BY <1>10, <1>11, <1>15, <2>1 DEF ServeIndex
    <2> QED
      BY <2>1, <2>2 DEF Right
  <1>16. CASE List(g)
    <2>1. fs[p] = "dir" /\ Indexing
      BY <1>7, <1>16 DEF List, At
    <2>2. get'[g].answer \in {"listing", "failed"}
      BY <1>10, <1>11, <1>16 DEF List
    <2> QED
      BY <2>1, <2>2 DEF Right
  <1>17. ASSUME \/ \E q \in Paths : GetHit(g, q) \/ GetMiss(g, q)
                \/ Refuse(g) \/ Drop(g) \/ Stat(g) \/ Set(g) \/ FindIndex(g)
         PROVE  FALSE
    <2>1. ~ \E q \in Paths : GetHit(g, q) \/ GetMiss(g, q)
      BY DEF GetHit, GetMiss, At
    <2>2. ~Refuse(g)
      BY DEF Refuse, At
    <2>3. ~Drop(g) /\ ~Set(g) /\ ~FindIndex(g)
      BY <1>1, <1>2, GetTypes DEF Drop, Set, FindIndex, Goto, Become
    <2>4. ~Stat(g)
      BY <1>1 DEF Stat, Become, Request
    <2> QED
      BY <1>17, <2>1, <2>2, <2>3, <2>4
  <1> QED
    BY <1>9, <1>12, <1>13, <1>14, <1>15, <1>16, <1>17 DEF GetStep

\* Fresh entries go only to newer ones, or to make room (server.go:62-111).
LEMMA FreshStep ==
  ASSUME TypeOK, [Next]_vars, NEW p \in Stored, ~Expired(p), cache'[p] # cache[p]
  PROVE  \/ cache'[p].stored /\ cache'[p].at = now
         \/ /\ Cardinality(Stored) = MaxSize /\ p \in Oldest
            /\ \E q \in Paths \ {p} : cache'[q].stored /\ cache'[q].at = now
  <1>1. cache \in [Paths -> Entries] /\ p \in Paths
    BY DEF TypeOK, Stored
  <1>2. ASSUME NEW q \in Paths, CacheDrop(q)
        PROVE  FALSE
    BY <1>1, <1>2 DEF CacheDrop
  <1>3. ASSUME NEW q \in Paths, NEW left \in RoomMade, NEW f \in Findings, CacheStore(q, left, f)
        PROVE  \/ cache'[p].stored /\ cache'[p].at = now
               \/ /\ Cardinality(Stored) = MaxSize /\ p \in Oldest
                  /\ \E r \in Paths \ {p} : cache'[r].stored /\ cache'[r].at = now
    <2>1. /\ left \in [Paths -> Entries]
          /\ left[p] = cache[p] \/ (p \in Oldest /\ Cardinality(Stored) = MaxSize)
      BY <1>1, RoomIsMade
    <2>2. cache'[q] = Entry(f) /\ cache'[q].stored /\ cache'[q].at = now
      BY <1>3, <2>1 DEF CacheStore, Entry
    <2>3. q # p => cache'[p] = left[p]
      BY <1>1, <1>3, <2>1 DEF CacheStore
    <2> QED
      BY <2>1, <2>2, <2>3
  <1> QED
    BY <1>2, <1>3, CacheStep

\* A path left alone for longer than the TTL is answered as it is (server.go:426).
THEOREM SettledAnswers == Spec => SettledAnswer
  <1>1. ServingInv /\ [Next]_vars =>
          [\A g \in Getters : ~At(g, "idle") /\ get'[g].pc = "idle" =>
             LET p == get[g].path
             IN  unsettled'[p] + TTL < get[g].since =>
                     get'[g].answer \in Right(p) \cup {"failed"}]_vars
    BY AnswerStep DEF At
  <1> QED
    BY <1>1, ServingInit, ServingStep, PTL DEF Spec, SettledAnswer

\* Re-checked under the write lock, a fresh entry is not deleted (server.go:68).
THEOREM FreshEntries == Spec => FreshEntriesSurvive
  <1>1. TypeOK /\ [Next]_vars =>
          [\A p \in Stored : ~Expired(p) /\ cache'[p] # cache[p] =>
             \/ cache'[p].stored /\ cache'[p].at = now
             \/ /\ Cardinality(Stored) = MaxSize /\ p \in Oldest
                /\ \E q \in Paths \ {p} : cache'[q].stored /\ cache'[q].at = now]_vars
    BY FreshStep
  <1> QED
    BY <1>1, TypeInit, TypeStep, PTL DEF Spec, FreshEntriesSurvive
-----------------------------------------------------------------------------
(* Uploads.                                                                *)

\* What an uploader's state is.
LEMMA UpShape ==
  ASSUME TypeOK, NEW u \in Uploaders, up[u].pc = "copy"
  PROVE  up[u].name \in Paths
  BY DEF TypeOK, Ups

LEMMA UploadCreate ==
  ASSUME UploadInv, NEW u \in Uploaders, NEW p \in Paths, Create(u, p)
  PROVE  CopyInv' /\ FileInv' /\ UploadIsWhole'
  <1>1. /\ up \in [Uploaders -> Ups] /\ fs \in [Paths -> Kinds] /\ content \in [Paths -> Contents]
        /\ kept \in [Paths -> Uploaders \cup {"others"}]
    BY DEF UploadInv, TypeOK
  <1>2. /\ fs[p] = "absent" /\ up[u].pc = "idle" /\ kept' = kept
        /\ up' = [up EXCEPT ![u] = [pc |-> "copy", name |-> p]]
        /\ fs' = [fs EXCEPT ![p] = "file"]
        /\ content' = [content EXCEPT ![p] = [by |-> u, state |-> "torn"]]
    BY DEF Create, OpenFor, UpBecome
  <1>3. kept[p] = "others"
    BY <1>2 DEF UploadInv, UploadIsWhole
  <1>4. content'[p].by = u /\ fs'[p] = "file" /\ up'[u].name = p
    BY <1>1, <1>2
  <1>5. \A q \in Paths \ {p} : content'[q] = content[q] /\ fs'[q] = fs[q]
    BY <1>1, <1>2
  <1>6. \A v \in Uploaders \ {u} : up'[v] = up[v]
    BY <1>1, <1>2
  <1>7. FileInv'
    BY <1>4, <1>5 DEF UploadInv, FileInv
  <1>8. UploadIsWhole'
    BY <1>2, <1>3, <1>5 DEF UploadInv, UploadIsWhole
  <1>9. ASSUME NEW v \in Uploaders, up'[v].pc = "copy", content'[up'[v].name].by = v
        PROVE  kept'[up'[v].name] = "others"
    <2>1. CASE v = u
      BY <1>2, <1>3, <1>4, <2>1
    <2>2. CASE v # u
      <3>1. up[v].name \in Paths /\ up'[v] = up[v]
        BY <1>6, <1>9, <2>2, UpShape DEF UploadInv
      <3>2. CASE up[v].name = p
        BY <1>2, <1>3, <3>1, <3>2
      <3>3. CASE up[v].name # p
        BY <1>2, <1>5, <1>9, <3>1, <3>3 DEF UploadInv, CopyInv
      <3> QED
        BY <3>2, <3>3
    <2> QED
      BY <2>1, <2>2
  <1> QED
    BY <1>7, <1>8, <1>9 DEF CopyInv

LEMMA UploadCopy ==
  ASSUME UploadInv, NEW u \in Uploaders, Copy(u)
  PROVE  CopyInv' /\ FileInv' /\ UploadIsWhole'
  <1> DEFINE p == up[u].name
  <1>1. /\ up \in [Uploaders -> Ups] /\ content \in [Paths -> Contents]
        /\ kept \in [Paths -> Uploaders \cup {"others"}] /\ "others" \notin Uploaders
    BY ServingAssumption DEF UploadInv, TypeOK
  <1>2. up[u].pc = "copy" /\ up' = [up EXCEPT ![u] = [pc |-> "idle"]] /\ fs' = fs /\ p \in Paths
    BY UpShape DEF Copy, UpBecome, UploadInv
  <1>3. /\ up'[u].pc = "idle"
        /\ \A v \in Uploaders \ {u} : up'[v] = up[v]
    BY <1>1, <1>2
  <1>4. CASE content[p].by # u
    <2>1. content' = content /\ kept' = kept
      BY <1>4 DEF Copy
    <2> QED
      BY <1>2, <1>3, <2>1 DEF UploadInv, CopyInv, FileInv, UploadIsWhole
  <1>5. CASE content[p].by = u
    <2>1. PICK s \in {"whole", "unflushed", "torn"} :
             /\ content' = [content EXCEPT ![p] = [by |-> u, state |-> s]]
             /\ kept' = kept \/ (s # "torn" /\ kept' = [kept EXCEPT ![p] = u])
      BY <1>5 DEF Copy
    <2>2. kept[p] = "others" /\ fs[p] = "file"
      BY <1>1, <1>2, <1>5 DEF UploadInv, CopyInv, FileInv
    <2>3. /\ content'[p] = [by |-> u, state |-> s]
          /\ \A q \in Paths \ {p} : content'[q] = content[q] /\ kept'[q] = kept[q]
          /\ kept'[p] = "others" \/ (s # "torn" /\ kept'[p] = u)
      BY <1>1, <1>2, <2>1, <2>2
    <2>4. FileInv'
      BY <1>2, <2>2, <2>3 DEF UploadInv, FileInv
    <2>5. UploadIsWhole'
      <3>1. SUFFICES ASSUME NEW q \in Paths, kept'[q] # "others"
                     PROVE  fs'[q] = "file" /\ content'[q] \in [by : {kept'[q]}, state : {"whole", "unflushed"}]
        BY DEF UploadIsWhole
      <3>2. CASE q = p
        BY <1>2, <2>2, <2>3, <3>1, <3>2
      <3>3. CASE q # p
        BY <1>2, <2>3, <3>1, <3>3 DEF UploadInv, UploadIsWhole
      <3> QED
        BY <3>2, <3>3
    <2>6. ASSUME NEW v \in Uploaders, up'[v].pc = "copy", content'[up'[v].name].by = v
          PROVE  kept'[up'[v].name] = "others"
      <3>1. v # u /\ up'[v] = up[v]
        BY <1>3, <2>6
      <3>2. up[v].name \in Paths
        BY <2>6, <3>1, UpShape DEF UploadInv
      <3>3. up[v].name # p
        BY <2>3, <2>6, <3>1
      <3> QED
        BY <2>3, <2>6, <3>1, <3>2, <3>3 DEF UploadInv, CopyInv
    <2> QED
      BY <2>4, <2>5, <2>6 DEF CopyInv
  <1> QED
    BY <1>4, <1>5

LEMMA UploadChange ==
  ASSUME UploadInv, NEW p \in Paths, Change(p)
  PROVE  CopyInv' /\ FileInv' /\ UploadIsWhole'
  <1>1. /\ fs \in [Paths -> Kinds] /\ content \in [Paths -> Contents]
        /\ kept \in [Paths -> Uploaders \cup {"others"}]
    BY DEF UploadInv, TypeOK
  <1>2. up' = up /\ content'[p].by = "others" /\ kept'[p] = "others"
    BY <1>1 DEF Change, Nobody
  <1>3. \A q \in Paths \ {p} : content'[q] = content[q] /\ kept'[q] = kept[q] /\ fs'[q] = fs[q]
    BY <1>1 DEF Change
  <1>4. \A v \in Uploaders : up[v].pc = "copy" => up[v].name \in Paths
    BY UpShape DEF UploadInv
  <1> QED
    BY <1>2, <1>3, <1>4 DEF UploadInv, CopyInv, FileInv, UploadIsWhole

LEMMA UploadStepKeeps ==
  ASSUME UploadInv, [Next]_vars
  PROVE  UploadInv'
  <1>1. TypeOK'
    BY TypeStep DEF UploadInv
  <1>2. CASE UNCHANGED <<fs, content, kept, up>>
    BY <1>1, <1>2 DEF UploadInv, CopyInv, FileInv, UploadIsWhole
  <1>3. ASSUME NEW g \in Getters, GetStep(g)
        PROVE  UNCHANGED <<fs, content, kept, up>>
    BY <1>3 DEF GetStep, Refuse, GetHit, GetMiss, Drop, Stat, Set, NotFound, ServeFile,
                FindIndex, MissIndex, ServeIndex, List, disk
  <1>4. CASE Tick \/ UNCHANGED vars
    BY <1>2, <1>4 DEF Tick, vars, disk
  <1>5. CopyInv' /\ FileInv' /\ UploadIsWhole'
    BY <1>2, <1>3, <1>4, UploadCreate, UploadCopy, UploadChange DEF Next, UploadStep, UploadInv
  <1> QED
    BY <1>1, <1>5 DEF UploadInv

\* No upload writes into another's file (handlers.go, O_EXCL; docs/server.md:82).
THEOREM UploadsAreWhole == Spec => []UploadIsWhole
  <1>1. Init => UploadInv
    BY TypeInit DEF Init, UploadInv, CopyInv, FileInv, UploadIsWhole, Nobody
  <1>2. UploadInv => UploadIsWhole
    BY DEF UploadInv
  <1> QED
    BY <1>1, <1>2, UploadStepKeeps, PTL DEF Spec

-----------------------------------------------------------------------------
(* The life of the server.                                                 *)

\* How far Stop has got tells how far the goroutines have that shut the servers down.
StopInv ==
    /\ \A c \in Callers : pc[c] = "returned" => once = "done"
    /\ once = "free" \/ (\E c \in Callers : pc[c] \in {"closeDone", "shutdown"}) =>
          \A s \in Servers : shut[s] = "none"
    /\ once = "done" \/ (\E c \in Callers : pc[c] = "listeners") =>
          \A s \in Servers : shut[s] = "done"
    /\ once = "done" \/ (\E c \in Callers : pc[c] \in {"shutdown", "join", "listeners"}) =>
          doneClosed

\* A server that is shut down does not serve again; if it ends with requests in
\* flight there is an error.
ShutInv ==
    \A s \in Servers :
        /\ shut[s] \notin {"none", "close"} => s \in inShutdown
        /\ shut[s] \in {"sleep", "failed", "append", "done"} => serve[s] # "serving"
        /\ shut[s] = "done" => errs > 0 \/ active[s] = 0

\* Two appends at most, each by one who is not done before.
ErrorsInv ==
    /\ \A s \in Servers :
          /\ shut[s] # "done" => errs <= 1
          /\ shut[s] = "append" => seen[s] <= 1
          /\ (\A t \in Servers : shut[t] # "done") =>
                errs = 0 /\ (shut[s] = "append" => seen[s] = 0)
    /\ \A s \in Servers : active[s] <= begun

LifeInv == TypeOK_Lifecycle /\ StopInv /\ ShutInv /\ ErrorsInv

-----------------------------------------------------------------------------
\* The callers' labels, inside and outside of the body of Stop.
BodyLabels == {"closeDone", "shutdown", "join", "listeners"}
OtherLabels == {"setup", "listen", "field", "spawn", "wait", "invalid", "idle", "stop"}

\* A caller that moves outside of the body disturbs nothing that is said of Stop.
LEMMA OutsideKeeps ==
  ASSUME LifeInv, NEW c \in Callers, ~InBody(c), NEW l \in OtherLabels, goto(c, l),
         UNCHANGED <<stopping, closing>>
  PROVE  /\ StopInv' /\ \A d \in Callers : InBody(d)' <=> once' = "running" /\ owner' = d
         /\ pc' \in [Callers -> OtherLabels \cup BodyLabels \cup {"returned"}]
  <1>1. pc \in [Callers -> OtherLabels \cup BodyLabels \cup {"returned"}]
        /\ \A d \in Callers : InBody(d) <=> once = "running" /\ owner = d
    BY DEF LifeInv, TypeOK_Lifecycle, OtherLabels, BodyLabels
  <1>2. UNCHANGED <<doneClosed, once, owner, shut>>
    BY DEF stopping, closing
  <1>3. \A d \in Callers : pc'[d] = IF d = c THEN l ELSE pc[d]
    BY <1>1 DEF goto
  <1>4. pc' \in [Callers -> OtherLabels \cup BodyLabels \cup {"returned"}]
    BY <1>1 DEF goto
  <1>5. \A d \in Callers : InBody(d)' <=> InBody(d)
    BY <1>3 DEF InBody, OtherLabels
  <1>6. StopInv'
    BY <1>2, <1>3 DEF LifeInv, StopInv, OtherLabels
  <1> QED
    BY <1>1, <1>2, <1>4, <1>5, <1>6

\* A goroutine of a server moves, and the callers stay.
LEMMA CallersStay ==
  ASSUME LifeInv, UNCHANGED <<pc, stopping>>,
         \A s \in Servers : shut[s] \in {"none", "done"} => shut'[s] = shut[s]
  PROVE  StopInv' /\ \A d \in Callers : InBody(d)' <=> once' = "running" /\ owner' = d
  <1>1. UNCHANGED <<doneClosed, once, owner>>
    BY DEF stopping
  <1>2. \A d \in Callers : InBody(d) <=> once = "running" /\ owner = d
    BY DEF LifeInv, TypeOK_Lifecycle
  <1>3. StopInv'
    BY <1>1 DEF LifeInv, StopInv
  <1> QED
    BY <1>1, <1>2, <1>3 DEF InBody

LEMMA StartStepKeeps ==
  ASSUME LifeInv, StartStep
  PROVE  LifeInv'
  <1>1. "start" \in Callers /\ "http" \in Servers /\ (TLSEnabled => "https" \in Servers)
    BY DEF Callers, Servers
  <1>2. PICK l \in OtherLabels : goto("start", l)
    BY DEF StartStep, ConfigInvalid, Setup, Listen, ListenFails, StoreListener, StartServers,
           WaitEnds, OtherLabels
  <1>3. ~InBody("start") /\ UNCHANGED <<stopping, closing, clock, active, begun>>
    BY DEF StartStep, ConfigInvalid, Setup, Listen, ListenFails, StoreListener, StartServers,
           WaitEnds, InBody, serving
  <1>4. /\ StopInv' /\ \A d \in Callers : InBody(d)' <=> once' = "running" /\ owner' = d
        /\ pc' \in [Callers -> OtherLabels \cup BodyLabels \cup {"returned"}]
    BY <1>1, <1>2, <1>3, OutsideKeeps
  <1>5. /\ turn' \in Servers /\ field' \subseteq Servers
        /\ listener' \in [Servers -> {"none", "open", "closed"}]
        /\ errCh' \subseteq Servers
        /\ serve' \in [Servers -> {"none", "spawned", "serving", "failed", "refused",
                                   "ended", "endedRefused"}]
        /\ \A s \in Servers : serve'[s] = "serving" => serve[s] = "serving"
    <2>1. /\ turn \in Servers /\ field \subseteq Servers
          /\ listener \in [Servers -> {"none", "open", "closed"}]
          /\ errCh \subseteq Servers
          /\ serve \in [Servers -> {"none", "spawned", "serving", "failed", "refused",
                                    "ended", "endedRefused"}]
      BY DEF LifeInv, TypeOK_Lifecycle
    <2>2. CASE ConfigInvalid \/ Setup
      BY <2>1, <2>2 DEF ConfigInvalid, Setup, starting, serving
    <2>3. CASE Listen \/ ListenFails
      BY <2>1, <2>3 DEF Listen, ListenFails, starting
    <2>4. CASE StoreListener
      BY <1>1, <2>1, <2>4 DEF StoreListener, serving
    <2>5. CASE StartServers
      BY <2>1, <2>5 DEF StartServers, starting
    <2>6. CASE WaitEnds
      BY <2>1, <2>6 DEF WaitEnds, starting
    <2> QED
      BY <2>2, <2>3, <2>4, <2>5, <2>6 DEF StartStep
  <1>6. UNCHANGED <<active, begun, doneClosed, once, owner, shut, inShutdown, errs, seen,
                    cancelled, expired>>
    BY <1>3 DEF stopping, closing, clock
  <1>7. TypeOK_Lifecycle'
    BY <1>4, <1>5, <1>6 DEF LifeInv, TypeOK_Lifecycle, OtherLabels, BodyLabels
  <1>8. ShutInv' /\ ErrorsInv'
    BY <1>5, <1>6 DEF LifeInv, ShutInv, ErrorsInv
  <1> QED
    BY <1>4, <1>7, <1>8 DEF LifeInv

LEMMA StopCallKeeps ==
  ASSUME LifeInv, NEW c \in Stoppers, StopCall(c)
  PROVE  LifeInv'
  <1>1. /\ c \in Callers /\ ~InBody(c) /\ "stop" \in OtherLabels /\ goto(c, "stop")
        /\ UNCHANGED <<starting, serving, stopping, closing, clock>>
    BY DEF StopCall, InBody, OtherLabels, Callers
  <1>2. /\ StopInv' /\ \A d \in Callers : InBody(d)' <=> once' = "running" /\ owner' = d
        /\ pc' \in [Callers -> OtherLabels \cup BodyLabels \cup {"returned"}]
    BY <1>1, OutsideKeeps
  <1>3. UNCHANGED <<turn, field, listener, serve, errCh, active, begun, doneClosed, once, owner,
                    shut, inShutdown, errs, seen, cancelled, expired>>
    BY <1>1 DEF starting, serving, stopping, closing, clock
  <1>4. TypeOK_Lifecycle'
    BY <1>2, <1>3 DEF LifeInv, TypeOK_Lifecycle, OtherLabels, BodyLabels
  <1> QED
    BY <1>2, <1>3, <1>4 DEF LifeInv, ShutInv, ErrorsInv

\* The body of Stop has one owner.
LEMMA StopStepKeeps ==
  ASSUME LifeInv, NEW c \in Callers, StopStep(c)
  PROVE  LifeInv'
  <1>1. /\ pc \in [Callers -> OtherLabels \cup BodyLabels \cup {"returned"}]
        /\ \A d \in Callers : InBody(d) <=> once = "running" /\ owner = d
        /\ \A d \in Callers : InBody(d) /\ InBody(c) => d = c
    BY DEF LifeInv, TypeOK_Lifecycle, OtherLabels, BodyLabels
  <1>2. UNCHANGED <<turn, field, serve, errCh, active, begun, inShutdown, errs, seen, cancelled,
                    expired>>
    BY DEF StopStep, StopEnter, CloseDone, StartShutdowns, JoinShutdowns, CloseListeners,
           starting, serving, stopping, closing, clock
  <1>3. PICK l \in BodyLabels \cup {"returned"} : goto(c, l)
    BY DEF StopStep, StopEnter, CloseDone, StartShutdowns, JoinShutdowns, CloseListeners,
           BodyLabels
  <1>4. pc' \in [Callers -> OtherLabels \cup BodyLabels \cup {"returned"}]
        /\ \A d \in Callers : pc'[d] = IF d = c THEN l ELSE pc[d]
    BY <1>1, <1>3 DEF goto
  <1>5. \A d \in Callers : InBody(d) => pc[d] \in BodyLabels
    BY DEF InBody, BodyLabels
  <1>6. CASE StopEnter(c)
    <2>1. UNCHANGED <<listener, doneClosed, shut>> /\ pc[c] = "stop" /\ once # "running"
      BY <1>6 DEF StopEnter, serving, closing
    <2>2. \A d \in Callers : ~InBody(d)
      BY <1>1, <2>1
    <2>3. CASE once = "free"
      <3>1. once' = "running" /\ owner' = c /\ pc'[c] = "closeDone"
        BY <1>1, <1>6, <2>3 DEF StopEnter, goto
      <3>2. \A d \in Callers : InBody(d)' <=> once' = "running" /\ owner' = d
        BY <1>4, <2>2, <3>1 DEF InBody
      <3>3. StopInv'
        BY <1>4, <2>1, <2>2, <2>3, <3>1 DEF LifeInv, StopInv, InBody
      <3>4. TypeOK_Lifecycle'
        BY <1>2, <1>4, <2>1, <3>1, <3>2 DEF LifeInv, TypeOK_Lifecycle, OtherLabels, BodyLabels
      <3> QED
        BY <1>2, <2>1, <3>3, <3>4 DEF LifeInv, ShutInv, ErrorsInv
    <2>4. CASE once # "free"
      <3>1. UNCHANGED <<once, owner>> /\ pc'[c] = "returned" /\ once = "done"
        BY <1>1, <1>6, <2>1, <2>4 DEF StopEnter, goto, LifeInv, TypeOK_Lifecycle
      <3>2. \A d \in Callers : InBody(d)' <=> once' = "running" /\ owner' = d
        BY <1>4, <2>2, <3>1 DEF InBody
      <3>3. StopInv'
        BY <1>4, <2>1, <2>2, <3>1 DEF LifeInv, StopInv, InBody
      <3>4. TypeOK_Lifecycle'
        BY <1>2, <1>4, <2>1, <3>1, <3>2 DEF LifeInv, TypeOK_Lifecycle, OtherLabels, BodyLabels
      <3> QED
        BY <1>2, <2>1, <3>3, <3>4 DEF LifeInv, ShutInv, ErrorsInv
    <2> QED
      BY <2>3, <2>4
  \* The owner goes on: the others are outside.
  <1>7. ASSUME InBody(c), UNCHANGED <<once, owner>>, l \in BodyLabels
        PROVE  \A d \in Callers : InBody(d)' <=> once' = "running" /\ owner' = d
    BY <1>1, <1>4, <1>7 DEF InBody, BodyLabels
  <1>8. ASSUME InBody(c), NEW d \in Callers, pc[d] \in BodyLabels
        PROVE  d = c
    BY <1>1, <1>8 DEF InBody, BodyLabels
  <1>9. CASE CloseDone(c)
    <2>1. /\ UNCHANGED <<listener, once, owner, shut>> /\ InBody(c) /\ pc[c] = "closeDone"
          /\ doneClosed' /\ doneClosed' \in BOOLEAN /\ pc'[c] = "shutdown" /\ l = "shutdown"
      BY <1>1, <1>4, <1>9 DEF CloseDone, serving, closing, InBody, goto
    <2>2. StopInv'
      BY <1>4, <1>8, <2>1 DEF LifeInv, StopInv, BodyLabels
    <2>3. TypeOK_Lifecycle'
      BY <1>2, <1>4, <1>7, <2>1 DEF LifeInv, TypeOK_Lifecycle, OtherLabels, BodyLabels
    <2> QED
      BY <1>2, <2>1, <2>2, <2>3 DEF LifeInv, ShutInv, ErrorsInv
  <1>10. CASE StartShutdowns(c)
    <2>1. /\ UNCHANGED <<listener, once, owner, doneClosed>> /\ InBody(c)
          /\ pc[c] = "shutdown" /\ pc'[c] = "join" /\ l = "join" /\ once = "running"
          /\ shut' = [s \in Servers |-> "close"]
      BY <1>1, <1>4, <1>10 DEF StartShutdowns, serving, stopping, InBody, goto
    <2>2. \A s \in Servers : shut[s] = "none"
      BY <2>1 DEF LifeInv, StopInv
    <2>3. StopInv'
      BY <1>4, <1>8, <2>1 DEF LifeInv, StopInv, BodyLabels
    <2>4. TypeOK_Lifecycle'
      BY <1>2, <1>4, <1>7, <2>1 DEF LifeInv, TypeOK_Lifecycle, OtherLabels, BodyLabels
    <2>5. ShutInv' /\ ErrorsInv'
      BY <1>2, <2>1, <2>2 DEF LifeInv, ShutInv, ErrorsInv
    <2> QED
      BY <2>3, <2>4, <2>5 DEF LifeInv
  <1>11. CASE JoinShutdowns(c)
    <2>1. /\ UNCHANGED <<listener, once, owner, doneClosed, shut>> /\ InBody(c)
          /\ pc[c] = "join" /\ pc'[c] = "listeners" /\ l = "listeners" /\ once = "running"
          /\ \A s \in Servers : shut[s] = "done"
      BY <1>1, <1>4, <1>11 DEF JoinShutdowns, serving, stopping, closing, InBody, goto
    <2>2. StopInv'
      BY <1>4, <1>8, <2>1 DEF LifeInv, StopInv, BodyLabels
    <2>3. TypeOK_Lifecycle'
      BY <1>2, <1>4, <1>7, <2>1 DEF LifeInv, TypeOK_Lifecycle, OtherLabels, BodyLabels
    <2> QED
      BY <1>2, <2>1, <2>2, <2>3 DEF LifeInv, ShutInv, ErrorsInv
  <1>12. CASE CloseListeners(c)
    <2>1. /\ UNCHANGED <<owner, doneClosed, shut>> /\ InBody(c) /\ once' = "done"
          /\ pc[c] = "listeners" /\ pc'[c] = "returned" /\ l = "returned"
          /\ listener' = [s \in Servers |-> IF s \in field THEN "closed" ELSE listener[s]]
      BY <1>1, <1>4, <1>12 DEF CloseListeners, closing, InBody, goto
    <2>2. \A d \in Callers : ~InBody(d)'
      BY <1>1, <1>4, <2>1 DEF InBody
    <2>3. StopInv'
      BY <1>4, <2>1, <2>2 DEF LifeInv, StopInv, InBody
    <2>4. listener' \in [Servers -> {"none", "open", "closed"}]
      BY <2>1 DEF LifeInv, TypeOK_Lifecycle
    <2>5. TypeOK_Lifecycle'
      BY <1>2, <1>4, <2>1, <2>2, <2>4 DEF LifeInv, TypeOK_Lifecycle, OtherLabels, BodyLabels
    <2> QED
      BY <1>2, <2>1, <2>3, <2>5 DEF LifeInv, ShutInv, ErrorsInv
  <1> QED
    BY <1>6, <1>9, <1>10, <1>11, <1>12 DEF StopStep

\* The goroutine that shuts a server down.
LEMMA ShutdownStepKeeps ==
  ASSUME LifeInv, NEW s \in Servers, ShutdownStep(s)
  PROVE  LifeInv'
  <1> DEFINE Labels == {"none", "close", "poll", "sleep", "failed", "append", "done"}
  <1>1. /\ UNCHANGED <<pc, turn, field, serve, errCh, active, begun, doneClosed, once, owner,
                       cancelled, expired, stopping>>
        /\ inShutdown \subseteq inShutdown'
    BY DEF ShutdownStep, ShutdownBegins, ShutdownPolls, ShutdownTicks, ShutdownGivesUp,
           AppendRead, AppendWrite, starting, serving, stopping, clock
  <1>2. /\ shut \in [Servers -> Labels] /\ inShutdown \subseteq Servers
        /\ errs \in 0..2 /\ seen \in [Servers -> 0..2]
        /\ listener \in [Servers -> {"none", "open", "closed"}]
        /\ active \in [Servers -> 0..MaxRequests]
    BY DEF LifeInv, TypeOK_Lifecycle
  <1>3. PICK l \in Labels \ {"none", "close"} :
           /\ shut' = [shut EXCEPT ![s] = l] /\ shut[s] \notin {"none", "done"}
    BY DEF ShutdownStep, ShutdownBegins, ShutdownPolls, ShutdownTicks, ShutdownGivesUp,
           AppendRead, AppendWrite, sGoto
  <1>4. /\ shut' \in [Servers -> Labels]
        /\ \A t \in Servers : shut'[t] = IF t = s THEN l ELSE shut[t]
    BY <1>2, <1>3
  <1>5. StopInv' /\ \A d \in Callers : InBody(d)' <=> once' = "running" /\ owner' = d
    BY <1>1, <1>3, <1>4, CallersStay
  <1>6. SUFFICES /\ listener' \in [Servers -> {"none", "open", "closed"}]
                 /\ inShutdown' \subseteq Servers /\ errs' \in 0..2 /\ seen' \in [Servers -> 0..2]
                 /\ ShutInv' /\ ErrorsInv'
    BY <1>1, <1>4, <1>5 DEF LifeInv, TypeOK_Lifecycle
  <1>7. CASE ShutdownBegins(s)
    <2>1. /\ UNCHANGED <<errs, seen>> /\ shut[s] = "close" /\ l = "poll"
          /\ inShutdown' = inShutdown \cup {s}
          /\ listener' \in [Servers -> {"none", "open", "closed"}]
      BY <1>2, <1>3, <1>4, <1>7 DEF ShutdownBegins, sGoto
    <2> QED
      BY <1>1, <1>2, <1>4, <2>1 DEF LifeInv, ShutInv, ErrorsInv
  <1>8. CASE ShutdownPolls(s)
    <2>1. /\ UNCHANGED <<errs, seen, listener, inShutdown>> /\ shut[s] = "poll"
          /\ serve[s] # "serving" /\ l = IF active[s] = 0 THEN "done" ELSE "sleep"
      BY <1>2, <1>3, <1>4, <1>8 DEF ShutdownPolls, sGoto, serving
    <2>2. s \in inShutdown
      BY <2>1 DEF LifeInv, ShutInv
    <2>3. ShutInv'
      BY <1>1, <1>2, <1>4, <2>1, <2>2 DEF LifeInv, ShutInv
    <2> QED
      BY <1>1, <1>2, <1>4, <2>1, <2>3 DEF LifeInv, ErrorsInv
  <1>9. CASE ShutdownTicks(s) \/ ShutdownGivesUp(s)
    <2>1. /\ UNCHANGED <<errs, seen, listener, inShutdown>> /\ shut[s] = "sleep"
          /\ l \in {"poll", "failed"}
      BY <1>2, <1>3, <1>4, <1>9 DEF ShutdownTicks, ShutdownGivesUp, sGoto, serving
    <2> QED
      BY <1>1, <1>2, <1>4, <2>1 DEF LifeInv, ShutInv, ErrorsInv
  <1>10. CASE AppendRead(s)
    <2>1. /\ UNCHANGED <<errs, listener, inShutdown>> /\ shut[s] = "failed" /\ l = "append"
          /\ seen' = [seen EXCEPT ![s] = errs]
      BY <1>2, <1>3, <1>4, <1>10 DEF AppendRead, sGoto, serving
    <2>2. seen' \in [Servers -> 0..2] /\ \A t \in Servers : seen'[t] = IF t = s THEN errs ELSE seen[t]
      BY <1>2, <2>1
    <2>3. errs <= 1 /\ ((\A t \in Servers : shut[t] # "done") => errs = 0)
      BY <2>1 DEF LifeInv, ErrorsInv
    <2>4. (\A t \in Servers : shut'[t] # "done") => \A t \in Servers : shut[t] # "done"
      BY <1>4, <2>1
    <2>5. ShutInv'
      BY <1>1, <1>4, <2>1 DEF LifeInv, ShutInv
    <2>6. ErrorsInv'
      BY <1>1, <1>2, <1>4, <2>1, <2>2, <2>3, <2>4 DEF LifeInv, ErrorsInv
    <2> QED
      BY <1>2, <2>1, <2>2, <2>5, <2>6
  \* There are two servers: while the other is not done, nobody has been before.
  <1>11. CASE AppendWrite(s)
    <2>1. /\ UNCHANGED <<seen, listener, inShutdown>> /\ shut[s] = "append" /\ l = "done"
          /\ errs' = seen[s] + 1
      BY <1>2, <1>3, <1>4, <1>11 DEF AppendWrite, sGoto, serving
    <2>2. seen[s] <= 1 /\ ((\A t \in Servers : shut[t] # "done") => seen[s] = 0)
      BY <2>1 DEF LifeInv, ErrorsInv
    <2>3. errs' \in 1..2
      BY <1>2, <2>1, <2>2
    <2>4. ASSUME NEW t \in Servers, shut'[t] # "done"
          PROVE  errs' = 1
      <3>1. t # s /\ shut[t] # "done"
        BY <1>4, <2>1, <2>4
      <3>2. \A u \in Servers : u = s \/ u = t
        BY <3>1 DEF Servers
      <3>3. \A u \in Servers : shut[u] # "done"
        BY <2>1, <3>1, <3>2
      <3> QED
        BY <2>1, <2>2, <3>3
    <2>5. ShutInv'
      BY <1>1, <1>4, <2>1, <2>3 DEF LifeInv, ShutInv
    <2>6. ErrorsInv'
      BY <1>1, <1>2, <1>4, <2>1, <2>3, <2>4 DEF LifeInv, ErrorsInv
    <2> QED
      BY <1>2, <2>1, <2>3, <2>5, <2>6
  <1> QED
    BY <1>7, <1>8, <1>9, <1>10, <1>11 DEF ShutdownStep

\* The goroutine that serves, and its requests; a server that is being shut down does
\* not begin to serve.
LEMMA ServeStepKeeps ==
  ASSUME LifeInv, NEW s \in Servers,
         ServeStep(s) \/ ServeEnds(s) \/ RequestBegins(s) \/ RequestEnds(s)
  PROVE  LifeInv'
  <1>1. UNCHANGED <<pc, turn, field, doneClosed, once, owner, shut, inShutdown, errs, seen,
                    cancelled, expired, stopping>>
    BY DEF ServeStep, ServeBegins, ServeRefused, ServeReports, ServeEnds, RequestBegins,
           RequestEnds, starting, stopping, closing, clock
  <1>2. StopInv' /\ \A d \in Callers : InBody(d)' <=> once' = "running" /\ owner' = d
    BY <1>1, CallersStay
  <1>3. /\ listener \in [Servers -> {"none", "open", "closed"}] /\ errCh \subseteq Servers
        /\ serve \in [Servers -> {"none", "spawned", "serving", "failed", "refused",
                                  "ended", "endedRefused"}]
        /\ active \in [Servers -> 0..MaxRequests] /\ begun \in 0..MaxRequests
        /\ \A t \in Servers : active[t] <= begun
        /\ MaxRequests \in Nat
    BY LifecycleAssumption DEF LifeInv, TypeOK_Lifecycle, ErrorsInv
  <1>4. /\ listener' \in [Servers -> {"none", "open", "closed"}] /\ errCh' \subseteq Servers
        /\ serve' \in [Servers -> {"none", "spawned", "serving", "failed", "refused",
                                   "ended", "endedRefused"}]
        /\ \A t \in Servers : serve'[t] = "serving" => serve[t] = "serving" \/ t \notin inShutdown
    <2>1. CASE ServeBegins(s) \/ ServeRefused(s) \/ ServeReports(s) \/ ServeEnds(s)
      BY <1>3, <2>1 DEF ServeBegins, ServeRefused, ServeReports, ServeEnds
    <2>2. CASE RequestBegins(s) \/ RequestEnds(s)
      BY <1>3, <2>2 DEF RequestBegins, RequestEnds
    <2> QED
      BY <2>1, <2>2 DEF ServeStep
  <1>5. /\ active' \in [Servers -> 0..MaxRequests] /\ begun' \in 0..MaxRequests
        /\ \A t \in Servers : active'[t] <= begun'
        /\ \A t \in Servers : serve[t] # "serving" => active'[t] <= active[t]
    <2>1. CASE ServeStep(s) \/ ServeEnds(s)
      <3>1. UNCHANGED <<active, begun>>
        BY <2>1 DEF ServeStep, ServeBegins, ServeRefused, ServeReports, ServeEnds
      <3> QED
        BY <1>3, <3>1
    <2>2. CASE RequestBegins(s)
      <3>1. /\ begun' = begun + 1 /\ begun < MaxRequests /\ serve[s] = "serving"
            /\ active' = [active EXCEPT ![s] = active[s] + 1]
        BY <2>2 DEF RequestBegins
      <3>2. active[s] + 1 \in 0..MaxRequests
        BY <1>3, <3>1
      <3>3. \A t \in Servers : active'[t] = IF t = s THEN active[s] + 1 ELSE active[t]
        BY <1>3, <3>1
      <3> QED
        BY <1>3, <3>1, <3>2, <3>3
    <2>3. CASE RequestEnds(s)
      <3>1. begun' = begun /\ active[s] > 0 /\ active' = [active EXCEPT ![s] = active[s] - 1]
        BY <2>3 DEF RequestEnds
      <3>2. active[s] - 1 \in 0..MaxRequests
        BY <1>3, <3>1
      <3>3. \A t \in Servers : active'[t] = IF t = s THEN active[s] - 1 ELSE active[t]
        BY <1>3, <3>1
      <3> QED
        BY <1>3, <3>1, <3>2, <3>3
    <2> QED
      BY <2>1, <2>2, <2>3
  <1>6. TypeOK_Lifecycle'
    BY <1>1, <1>2, <1>4, <1>5 DEF LifeInv, TypeOK_Lifecycle
  <1>7. ShutInv'
    BY <1>1, <1>3, <1>4, <1>5 DEF LifeInv, ShutInv
  <1>8. ErrorsInv'
    BY <1>1, <1>5 DEF LifeInv, ErrorsInv
  <1> QED
    BY <1>2, <1>6, <1>7, <1>8 DEF LifeInv

LEMMA LifeStep ==
  ASSUME LifeInv, [Next_Lifecycle]_lifecycle
  PROVE  LifeInv'
  <1>1. CASE Cancel \/ Expire \/ UNCHANGED lifecycle
    <2>1. /\ UNCHANGED <<pc, turn, field, listener, serve, errCh, active, begun, doneClosed, once,
                         owner, shut, inShutdown, errs, seen, stopping>>
          /\ cancelled' \in BOOLEAN /\ expired' \in BOOLEAN
      BY <1>1 DEF Cancel, Expire, lifecycle, starting, serving, stopping, closing, clock, LifeInv,
                  TypeOK_Lifecycle
    <2>2. StopInv' /\ \A d \in Callers : InBody(d)' <=> once' = "running" /\ owner' = d
      BY <2>1, CallersStay
    <2>3. TypeOK_Lifecycle'
      BY <2>1, <2>2 DEF LifeInv, TypeOK_Lifecycle
    <2> QED
      BY <2>1, <2>2, <2>3 DEF LifeInv, ShutInv, ErrorsInv
  <1> QED
    BY <1>1, StartStepKeeps, StopCallKeeps, StopStepKeeps, ShutdownStepKeeps, ServeStepKeeps
       DEF Next_Lifecycle

LEMMA LifeInit ==
  ASSUME Init_Lifecycle
  PROVE  LifeInv
  <1>1. "http" \in Servers /\ MaxRequests \in Nat /\ "start" \in Callers
    BY LifecycleAssumption DEF Servers, Callers
  <1>2. \A c \in Callers : pc[c] \in {"setup", "idle"} /\ ~InBody(c)
    BY DEF Init_Lifecycle, InBody
  <1>3. TypeOK_Lifecycle
    <2>1. /\ pc \in [Callers -> {"setup", "listen", "field", "spawn", "wait", "invalid", "idle",
                               "stop", "closeDone", "shutdown", "join", "listeners", "returned"}]
          /\ listener \in [Servers -> {"none", "open", "closed"}]
          /\ serve \in [Servers -> {"none", "spawned", "serving", "failed", "refused", "ended",
                                    "endedRefused"}]
          /\ shut \in [Servers -> {"none", "close", "poll", "sleep", "failed", "append", "done"}]
      BY DEF Init_Lifecycle
    <2>2. active \in [Servers -> 0..MaxRequests] /\ seen \in [Servers -> 0..2]
      BY <1>1 DEF Init_Lifecycle
    <2>3. /\ turn \in Servers /\ field \subseteq Servers /\ errCh \subseteq Servers
          /\ inShutdown \subseteq Servers /\ begun \in 0..MaxRequests /\ errs \in 0..2
      BY <1>1 DEF Init_Lifecycle
    <2>4. /\ once \in {"free", "running", "done"} /\ owner \in Callers \cup {"none"}
          /\ \A c \in Callers : InBody(c) <=> once = "running" /\ owner = c
      BY <1>2 DEF Init_Lifecycle
    <2>5. doneClosed \in BOOLEAN /\ cancelled \in BOOLEAN /\ expired \in BOOLEAN
      BY DEF Init_Lifecycle
    <2> QED
      BY <2>1, <2>2, <2>3, <2>4, <2>5 DEF TypeOK_Lifecycle
  <1>4. StopInv /\ ShutInv /\ ErrorsInv
    BY <1>1, <1>2 DEF Init_Lifecycle, StopInv, ShutInv, ErrorsInv
  <1> QED
    BY <1>3, <1>4 DEF LifeInv

\* One caller is in the body of Stop, and no more is added to shutdownErrors than there
\* are servers (server.go:640-720).
THEOREM LifecycleTypes == Spec_Lifecycle => []TypeOK_Lifecycle
  <1>1. LifeInv => TypeOK_Lifecycle
    BY DEF LifeInv
  <1> QED
    BY <1>1, LifeInit, LifeStep, PTL DEF Spec_Lifecycle

\* Whoever returns from Stop finds the servers stopped, also if another caller has
\* stopped them (server.go:640).
THEOREM ReturnedIsStopped == Spec_Lifecycle => []ReturnMeansStopped
  <1>1. LifeInv => ReturnMeansStopped
    BY DEF LifeInv, StopInv, ShutInv, ReturnMeansStopped
  <1> QED
    BY <1>1, LifeInit, LifeStep, PTL DEF Spec_Lifecycle

\* A Stop without an error has let every request finish, although addError takes no
\* lock.
THEOREM CleanStops == Spec_Lifecycle => []CleanStopIsIdle
  <1>1. LifeInv => CleanStopIsIdle
    BY DEF LifeInv, TypeOK_Lifecycle, StopInv, ShutInv, CleanStopIsIdle
  <1> QED
    BY <1>1, LifeInit, LifeStep, PTL DEF Spec_Lifecycle
=============================================================================
