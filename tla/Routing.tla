-------------------------------- MODULE Routing -------------------------------
(***************************************************************************)
(* How routes get their middlewares (group.go, router.go, Chain of         *)
(* middleware.go, and what server.go does before it listens).  A group     *)
(* keeps its middlewares in a Go slice: a length over an array that other  *)
(* slices may share and that may have room left.  The application builds   *)
(* groups below GetRootGroup; Start then builds those of its Router with   *)
(* the same operations, in fewer orders.  A middleware is a name, a        *)
(* handler is left out.                                                    *)
(***************************************************************************)
EXTENDS Naturals, Sequences

CONSTANTS
    Lists,      \* the lists of middlewares a call is given
    Globals,    \* the lists a Router may have as GlobalMiddlewares
    Spares,     \* bound: the room append may leave in an array it makes
    RouteMethods,  \* the methods of routes, "ANY" for none
    SkipSets,   \* for which middlewares a route's path is among the SkipPaths
    MaxArrays, MaxRoutes  \* bounds: how many arrays, and groups, and routes are made

Middlewares == {"requestID", "logger", "recovery", "cors", "auth", "contentType"}

ASSUME RoutingAssumption ==
    /\ Lists \subseteq Seq(Middlewares) /\ Globals \subseteq Seq(Middlewares)
    /\ Spares \subseteq Nat
    /\ SkipSets \subseteq SUBSET Middlewares

VARIABLES
    phase,  \* "new", in "setup", "serving", or the process "panicked"
    once,   \* rootGroupOnce is done
    root,   \* router.rootGroup: a group, or 0 for nil
    arrays, \* what the arrays behind the slices hold
    groups, \* each group's slice, and the middlewares it was asked to have
    routes  \* each route's chain, and what it was asked to be

routing == <<phase, once, root, arrays, groups, routes>>

Init_Routing ==
    /\ phase = "new" /\ once = FALSE /\ root = 0
    /\ arrays = <<>> /\ groups = <<>> /\ routes = <<>>

-----------------------------------------------------------------------------
\* The elements of a group's slice.
Elements(g) == SubSeq(arrays[groups[g].array], 1, groups[g].len)

\* The next array is made for a group that holds ms and wants to.
Slice(ms, wanted) == [array |-> Len(arrays) + 1, len |-> Len(ms), wanted |-> wanted]
Array(ms, spare) == Append(arrays, ms \o [i \in 1..spare |-> "none"])

\* ms written over what an array holds behind its first n elements.
Overwritten(array, n, ms) ==
    [i \in DOMAIN array |-> IF i \in n+1..n+Len(ms) THEN ms[i - n] ELSE array[i]]

\* append(g.middlewares, ms...) in g's array, and the slice it returns.
Appended(g, ms) ==
    [arrays EXCEPT ![groups[g].array] = Overwritten(@, groups[g].len, ms)]
Longer(g, ms) ==
    [array |-> groups[g].array, len |-> groups[g].len + Len(ms),
     wanted |-> groups[g].wanted \o ms]

\* append(g.middlewares, ms...) fits into g's array.
Fits(g, ms) == groups[g].len + Len(ms) <= Len(arrays[groups[g].array])

\* NewGroup without middlewares, whose slice is nil.
NewGroup ==
    /\ arrays' = Array(<<>>, 0)
    /\ groups' = Append(groups, Slice(<<>>, <<>>))

\* GetRootGroup, for the application.
GetRootGroup ==
    /\ phase = "new" /\ ~once /\ once' = TRUE
    /\ NewGroup /\ root' = Len(groups) + 1
    /\ UNCHANGED <<phase, routes>>

\* Bound: g is asked to have no middleware twice.
New(g, ms) == \A i \in DOMAIN ms : \A j \in DOMAIN groups[g].wanted : ms[i] # groups[g].wanted[j]

\* Bound: there may be another group, or another array.
Room == Len(groups) < MaxArrays /\ Len(arrays) < MaxArrays

\* The groups that are worked on: the application's, then those of the Router.
Current == IF phase = "new" THEN DOMAIN groups ELSE {g \in DOMAIN groups : g >= root}
Building == phase \in {"new", "setup"} /\ root # 0

\* g.Use(ms...).
Use(g, ms) ==
    /\ Building /\ ms # <<>> /\ New(g, ms) /\ (Fits(g, ms) \/ Room)
    /\ IF Fits(g, ms)
       THEN arrays' = Appended(g, ms) /\ groups' = [groups EXCEPT ![g] = Longer(g, ms)]
       ELSE \E spare \in Spares :
                /\ arrays' = Array(Elements(g) \o ms, spare)
                /\ groups' = [groups EXCEPT ![g] = Slice(Elements(g) \o ms,
                                                        groups[g].wanted \o ms)]
    /\ UNCHANGED <<phase, once, root, routes>>

\* Mutant: the subgroup's slice is append(g.middlewares, ms...).
SubGroup_InPlace(g, ms) ==
    /\ Building /\ Room /\ New(g, ms)
    /\ IF Fits(g, ms)
       THEN arrays' = Appended(g, ms) /\ groups' = Append(groups, Longer(g, ms))
       ELSE /\ arrays' = Array(Elements(g) \o ms, 0)
            /\ groups' = Append(groups, Slice(Elements(g) \o ms, groups[g].wanted \o ms))
    /\ UNCHANGED <<phase, once, root, routes>>

\* g.Group(prefix, ms...) copies both into an array of just their length.
SubGroup(g, ms) ==
    /\ Building /\ Room /\ New(g, ms)
    /\ arrays' = Array(Elements(g) \o ms, 0)
    /\ groups' = Append(groups, Slice(Elements(g) \o ms, groups[g].wanted \o ms))
    /\ UNCHANGED <<phase, once, root, routes>>

\* g.Handle(method, pattern, handler, ms...): Chain wraps the handler in copies of
\* both, the first outermost.  Paths of the route may be in a SkipPaths.
Handle(g, ms) ==
    /\ Building /\ Len(routes) < MaxRoutes /\ New(g, ms)
    /\ \E m \in RouteMethods, skips \in SkipSets :
          routes' = Append(routes, [method |-> m, skips |-> skips,
                                    chain |-> Elements(g) \o ms,
                                    wanted |-> groups[g].wanted \o ms])
    /\ UNCHANGED <<phase, once, root, arrays, groups>>

\* From now on the chains in the mux are all that is used of the groups.
Listen == phase' = "serving" /\ root' = 0 /\ arrays' = <<>> /\ groups' = <<>>

\* Start without a Router sets nothing up.
StartBare ==
    /\ phase = "new" /\ Listen
    /\ UNCHANGED <<once, routes>>

\* setupRouter with a Router, which has no root group yet.  setupGlobalMiddlewares
\* makes one if there are GlobalMiddlewares; else GetRootGroup does, unless it was
\* called before.
Start(globals) ==
    /\ phase = "new" /\ phase' = "setup" /\ once' = TRUE /\ Room
    /\ IF globals = <<>> /\ once
       THEN root' = 0 /\ UNCHANGED <<arrays, groups>>
       ELSE /\ root' = Len(groups) + 1
            /\ \E spare \in (IF globals = <<>> THEN {0} ELSE Spares) :
                  /\ arrays' = Array(globals, spare)
                  /\ groups' = Append(groups, Slice(globals, globals))
    /\ UNCHANGED routes

\* A group or a static route of the Router is to be set up below a nil root group.
SetupPanics ==
    /\ phase = "setup" /\ root = 0 /\ phase' = "panicked"
    /\ UNCHANGED <<once, root, arrays, groups, routes>>

\* The routes of the Router are set up.
Serve ==
    /\ phase = "setup" /\ Listen
    /\ UNCHANGED <<once, routes>>

Next_Routing ==
    \/ GetRootGroup \/ StartBare \/ SetupPanics \/ Serve
    \/ \E globals \in Globals : Start(globals)
    \/ \E g \in Current, ms \in Lists : Use(g, ms) \/ SubGroup(g, ms) \/ Handle(g, ms)

\* Setting up the routes of a Router, for which "we have a root group to work with"
\* (server.go:212), does not panic, also when the application has used "the root
\* group directly" before (docs/server.md:51).
SetupNeverPanics == phase # "panicked"
=============================================================================
