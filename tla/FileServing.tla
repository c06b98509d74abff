---------------------------- MODULE FileServing ----------------------------
(***************************************************************************)
(* Static files, the cache of what Stat found, and file uploads (server.go,*)
(* directory_indexing.go, handlers.go) over one file system, which other   *)
(* programs change too.  Several requests are served at a time; they share *)
(* the cache, and an upload may go into a directory that is served.        *)
(*                                                                         *)
(* Time is a bounded clock.  A path is absent, a file, a directory, or one *)
(* that has an index.html ("indexed"); an answer is what kind of response  *)
(* the client gets.  One action is one section of the cache's RWMutex or   *)
(* one access to the file system.                                          *)
(***************************************************************************)
EXTENDS Naturals, FiniteSets

CONSTANTS
    Paths,      \* cleaned, joined paths below the served directory
    Getters,    \* goroutines that serve GETs of the static route
    Uploaders,  \* goroutines that serve the upload handler
    Indexing,   \* DirectoryIndexingType is HTML or JSON, not None
    TTL,        \* fileCache.ttl
    MaxSize,    \* fileCache.maxSize
    MaxTime,    \* bound: how far the clock runs
    MaxChanges  \* bound: how often other programs change a path

ASSUME ServingAssumption ==
    /\ Indexing \in BOOLEAN
    /\ TTL \in Nat /\ MaxSize \in Nat \ {0}
    /\ MaxTime \in Nat /\ MaxChanges \in Nat
    /\ "others" \notin Uploaders

VARIABLES
    now,      \* the clock
    fs,       \* what each path is
    content,  \* who wrote each path's file, and how much of it is there
    cache,    \* the entry of each path
    get,      \* the request each getter is serving, or how it answered the last
    up,       \* the name each uploader is copying to, if it is
    changes,  \* how often other programs have changed a path
    unsettled,\* history: when a path last changed or was last misjudged
    kept      \* history: who answered 200 for the file at a path, if it is still it

disk == <<fs, content, unsettled, kept>>
vars == <<now, disk, cache, get, up, changes>>

Kinds == {"absent", "file", "dir", "indexed"}
Findings == {"absent", "file", "dir"}
Answers == {"none", "content", "listing", "redirect", "notFound", "forbidden",
            "failed"}

\* What Stat makes of a path.
Look(k) == IF k = "indexed" THEN "dir" ELSE k

None == [stored |-> FALSE]
Entry(f) == [stored |-> TRUE, finding |-> f, at |-> now]
Entries == {None} \cup [stored : {TRUE}, finding : Findings, at : Nat]
Stored == {p \in Paths : cache[p].stored}

Nobody == [by |-> "others", state |-> "whole"]
Contents == [by : Uploaders \cup {"others"}, state : {"whole", "unflushed", "torn"}]

\* A request being served, since when, and what is known of its path ("absent"
\* before anything is); or none, with the answer to the last one.
Serving == [pc : {"drop", "stat", "set", "use", "serveIndex", "list"}, path : Paths,
            since : Nat, finding : Findings]
Answered(a) == [pc |-> "idle", answer |-> a]
Gets == Serving \cup [pc : {"idle"}, answer : Answers]

Ups == [pc : {"idle"}] \cup [pc : {"copy"}, name : Paths]

Init ==
    /\ now = 0 /\ changes = 0
    /\ fs \in [Paths -> Kinds] /\ content = [p \in Paths |-> Nobody]
    /\ cache = [p \in Paths |-> None]
    /\ get = [g \in Getters |-> Answered("none")]
    /\ up = [u \in Uploaders |-> [pc |-> "idle"]]
    /\ unsettled = [p \in Paths |-> 0] /\ kept = [p \in Paths |-> "others"]

-----------------------------------------------------------------------------
(* A GET of the static route, served by getter g.                          *)

At(g, label) == get[g].pc = label
Become(g, request) == get' = [get EXCEPT ![g] = request]
Goto(g, label) == Become(g, [get[g] EXCEPT !.pc = label])
Respond(g, a) == Become(g, Answered(a))

\* The time, if p has been left alone for longer than the TTL by now, else 0.
Settled(p) == IF unsettled[p] + TTL < now THEN now ELSE 0

\* The request as it goes on at label, with finding f.
Request(label, p, t, f) ==
    [pc |-> label, path |-> p, since |-> t, finding |-> f]

\* validateAndBuildPath does not find the path below the directory.
Refuse(g) ==
    /\ At(g, "idle") /\ Respond(g, "forbidden")
    /\ UNCHANGED <<now, disk, cache, up, changes>>

Expired(p) == cache[p].stored /\ now - cache[p].at > TTL

\* Mutant: a hit renews the entry's time.
GetHit_Renew(g, p) ==
    /\ At(g, "idle") /\ cache[p].stored /\ ~Expired(p)
    /\ Become(g, Request("use", p, Settled(p), cache[p].finding))
    /\ cache' = [cache EXCEPT ![p].at = now]
    /\ UNCHANGED <<now, disk, up, changes>>

\* fileCache.get for a path that is below it, under the read lock.
GetHit(g, p) ==
    /\ At(g, "idle") /\ cache[p].stored /\ ~Expired(p)
    /\ Become(g, Request("use", p, Settled(p), cache[p].finding))
    /\ UNCHANGED <<now, disk, cache, up, changes>>

\* No entry, or one that has expired, which get deletes under a lock of its own.
GetMiss(g, p) ==
    /\ At(g, "idle") /\ (~cache[p].stored \/ Expired(p))
    /\ Become(g, Request(IF cache[p].stored THEN "drop" ELSE "stat", p, Settled(p), "absent"))
    /\ UNCHANGED <<now, disk, cache, up, changes>>

\* Mutant: the entry is deleted without a second look.
Drop_Unchecked(g) ==
    /\ At(g, "drop") /\ Goto(g, "stat")
    /\ cache' = [cache EXCEPT ![get[g].path] = None]
    /\ UNCHANGED <<now, disk, up, changes>>

\* The write-locked part of get: it deletes the entry if it is still expired.
Drop(g) ==
    LET p == get[g].path
    IN  /\ At(g, "drop") /\ Goto(g, "stat")
        /\ cache' = IF Expired(p) THEN [cache EXCEPT ![p] = None] ELSE cache
        /\ UNCHANGED <<now, disk, up, changes>>

\* os.Stat; whatever error it returns counts as absence.
Stat(g) ==
    LET p == get[g].path
    IN  /\ At(g, "stat")
        /\ \E f \in {Look(fs[p]), "absent"} :
              Become(g, Request("set", p, get[g].since, f))
        /\ UNCHANGED <<now, disk, cache, up, changes>>

\* The entries that may be evicted: the oldest ones stored, whoever used them since.
Oldest == {p \in Stored : \A q \in Stored : cache[p].at <= cache[q].at}

\* What is left of the cache when room has been made; also if the path that is to
\* be stored has an entry already.
RoomMade ==
    IF Cardinality(Stored) >= MaxSize THEN {[cache EXCEPT ![p] = None] : p \in Oldest}
                                      ELSE {cache}

\* fileCache.set, after which handleCacheMiss goes on with its own finding.
Set(g) ==
    LET p == get[g].path  f == get[g].finding
    IN  /\ At(g, "set") /\ Goto(g, "use")
        /\ \E left \in RoomMade : cache' = [left EXCEPT ![p] = Entry(f)]
        /\ unsettled' = IF f = Look(fs[p]) THEN unsettled
                                           ELSE [unsettled EXCEPT ![p] = now]
        /\ UNCHANGED <<now, fs, content, kept, up, changes>>

NotFound(g) ==
    /\ At(g, "use") /\ get[g].finding = "absent" /\ Respond(g, "notFound")
    /\ UNCHANGED <<now, disk, cache, up, changes>>

\* http.ServeFile opens what is there by now.  For a directory it redirects to
\* the name with a slash, or serves its index.html or a listing of its own.
ServeFile(g) ==
    LET k == fs[get[g].path]
    IN  /\ At(g, "use") /\ get[g].finding = "file"
        /\ \/ k = "absent" /\ Respond(g, "notFound")
           \/ k \in {"file", "indexed"} /\ Respond(g, "content")
           \/ k = "dir" /\ Respond(g, "listing")
           \/ k \in {"dir", "indexed"} /\ Respond(g, "redirect")
        /\ UNCHANGED <<now, disk, cache, up, changes>>

\* handleDirectoryRequest looks for an index.html.
FindIndex(g) ==
    /\ At(g, "use") /\ get[g].finding = "dir" /\ fs[get[g].path] = "indexed"
    /\ Goto(g, "serveIndex")
    /\ UNCHANGED <<now, disk, cache, up, changes>>

\* There is none, or Stat fails: a listing, or 403 if listings are disabled.
MissIndex(g) ==
    LET p == get[g].path
    IN  /\ At(g, "use") /\ get[g].finding = "dir"
        /\ unsettled' = IF fs[p] = "indexed" THEN [unsettled EXCEPT ![p] = now]
                                             ELSE unsettled
        /\ IF Indexing THEN Goto(g, "list") ELSE Respond(g, "forbidden")
        /\ UNCHANGED <<now, fs, content, kept, cache, up, changes>>

ServeIndex(g) ==
    /\ At(g, "serveIndex")
    /\ Respond(g, IF fs[get[g].path] = "indexed" THEN "content" ELSE "notFound")
    /\ UNCHANGED <<now, disk, cache, up, changes>>

\* generateDirectoryListing: os.ReadDir, which may fail, and the listing.
List(g) ==
    /\ At(g, "list")
    /\ \/ fs[get[g].path] \in {"dir", "indexed"} /\ Respond(g, "listing")
       \/ Respond(g, "failed")
    /\ UNCHANGED <<now, disk, cache, up, changes>>

GetStep(g) ==
    \/ Refuse(g)
    \/ \E p \in Paths : GetHit(g, p) \/ GetMiss(g, p)
    \/ Drop(g) \/ Stat(g) \/ Set(g) \/ NotFound(g) \/ ServeFile(g)
    \/ FindIndex(g) \/ MissIndex(g) \/ ServeIndex(g) \/ List(g)

-----------------------------------------------------------------------------
(* Uploads, served by uploader u.  One that is answered before it has made *)
(* a file (405, 400, or 500 if the name is taken) changes nothing.         *)

UpBecome(u, state) == up' = [up EXCEPT ![u] = state]

\* A file opened for u, with nothing of u in it yet.
OpenFor(u, p) ==
    /\ UpBecome(u, [pc |-> "copy", name |-> p])
    /\ fs' = [fs EXCEPT ![p] = "file"]
    /\ content' = [content EXCEPT ![p] = [by |-> u, state |-> "torn"]]
    /\ unsettled' = [unsettled EXCEPT ![p] = now]
    /\ UNCHANGED <<now, kept, cache, get, changes>>

\* Mutant: without O_EXCL a file that is there is opened and written over.
Create_Overwrite(u, p) ==
    up[u].pc = "idle" /\ fs[p] \in {"absent", "file"} /\ OpenFor(u, p)

\* os.OpenFile with O_CREATE and O_EXCL.  generateUniqueFilename may come to any
\* name: without a prefix the client chooses it, a date is the same for a second.
Create(u, p) == up[u].pc = "idle" /\ fs[p] = "absent" /\ OpenFor(u, p)

\* io.Copy, and the deferred Close, whose error is logged and forgotten; then the
\* postprocessor, if there is one, decides between 200 and 500.  A failed upload
\* leaves its file, and its name taken.  What is written to a file that others have
\* removed is lost with it.
Copy(u) ==
    LET p == up[u].name
    IN  /\ up[u].pc = "copy" /\ UpBecome(u, [pc |-> "idle"])
        /\ \E s \in {"whole", "unflushed", "torn"} :
              IF content[p].by = u
              THEN /\ content' = [content EXCEPT ![p] = [by |-> u, state |-> s]]
                   /\ \/ UNCHANGED kept
                      \/ s # "torn" /\ kept' = [kept EXCEPT ![p] = u]
              ELSE UNCHANGED <<content, kept>>
        /\ UNCHANGED <<now, fs, unsettled, cache, get, changes>>

UploadStep(u) == (\E p \in Paths : Create(u, p)) \/ Copy(u)

-----------------------------------------------------------------------------
(* The environment: other programs, and time.                              *)

Change(p) ==
    /\ changes < MaxChanges /\ changes' = changes + 1
    /\ \E k \in Kinds : fs' = [fs EXCEPT ![p] = k]
    /\ content' = [content EXCEPT ![p] = Nobody]
    /\ unsettled' = [unsettled EXCEPT ![p] = now]
    /\ kept' = [kept EXCEPT ![p] = "others"]
    /\ UNCHANGED <<now, cache, get, up>>

Tick ==
    /\ now < MaxTime /\ now' = now + 1
    /\ UNCHANGED <<disk, cache, get, up, changes>>

Next ==
    \/ \E g \in Getters : GetStep(g)
    \/ \E u \in Uploaders : UploadStep(u)
    \/ \E p \in Paths : Change(p)
    \/ Tick

Spec == Init /\ [][Next]_vars

-----------------------------------------------------------------------------
\* The variables keep their types, and the cache never has more than maxSize
\* entries (server.go:84), however many requests fill it at once.
TypeOK ==
    /\ now \in Nat /\ changes \in Nat
    /\ fs \in [Paths -> Kinds] /\ content \in [Paths -> Contents]
    /\ cache \in [Paths -> Entries]
    /\ IsFiniteSet(Stored) /\ Cardinality(Stored) <= MaxSize
    /\ get \in [Getters -> Gets] /\ up \in [Uploaders -> Ups]
    /\ unsettled \in [Paths -> Nat] /\ kept \in [Paths -> Uploaders \cup {"others"}]

\* What a client should get from a path as it is now.
Right(p) ==
    CASE fs[p] = "absent" -> {"notFound"}
      [] fs[p] \in {"file", "indexed"} -> {"content"}
      [] fs[p] = "dir" -> {IF Indexing THEN "listing" ELSE "forbidden"}

\* A path that had been left alone for longer than the TTL when a request looked
\* into the cache, and until it was answered, is answered as it is, or with 500.
\* Left alone: nobody changed it, and no request stored what was no longer true
\* or what a failing Stat made it believe; such a finding is good for a whole TTL
\* from when it is stored (server.go:426), not from when it was true.
SettledAnswer ==
    [][\A g \in Getters : ~At(g, "idle") /\ get'[g].pc = "idle" =>
          LET p == get[g].path
          IN  unsettled'[p] + TTL < get[g].since =>
                  get'[g].answer \in Right(p) \cup {"failed"}]_vars

\* A fresh entry goes only to be replaced by a newer one, or, when the cache is full
\* and none was stored before it, to make room for one: a request that found an
\* expired entry does not delete the one another has stored meanwhile ("re-check to
\* avoid TOCTOU", server.go:68).
FreshEntriesSurvive ==
    [][\A p \in Stored : ~Expired(p) /\ cache'[p] # cache[p] =>
          \/ cache'[p].stored /\ cache'[p].at = now
          \/ /\ Cardinality(Stored) = MaxSize /\ p \in Oldest
             /\ \E q \in Paths \ {p} : cache'[q].stored /\ cache'[q].at = now]_vars

\* An upload that was answered with 200 is in its file, whole and its own, until
\* another program changes it: no other upload writes into it ("won't overwrite
\* existing files", docs/server.md:82).  A Close that failed is excepted: the
\* handler only logs it (handlers.go:340).
UploadIsWhole ==
    \A p \in Paths : kept[p] # "others" =>
        fs[p] = "file" /\ content[p] \in [by : {kept[p]}, state : {"whole", "unflushed"}]
=============================================================================
