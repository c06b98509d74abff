---------------------------- MODULE Exchange_proofs ----------------------------
(***************************************************************************)
(* Theorems about an exchange, for any lists of middlewares, any routes    *)
(* and any limits: a handler runs only behind the layers that its route    *)
(* was asked to have, a body arrives whole, one id names the exchange, the *)
(* client stays on the origin of its base URL, what the server decides on  *)
(* is what Do reports, and what Logger logs is what the client was sent.   *)
(***************************************************************************)
EXTENDS Exchange, SequenceTheorems, TLAPS

-----------------------------------------------------------------------------
(* Routing.  Groups never share what they write: however groups are made,  *)
(* extended and copied, and however much room append leaves, each group's  *)
(* slice holds what that group was asked to have, and so does every route. *)


Names == Middlewares \cup {"none"}
Slices == [array : Nat, len : Nat, wanted : Seq(Middlewares)]
Routes == [method : RouteMethods, skips : SkipSets, chain : Seq(Middlewares),
           wanted : Seq(Middlewares)]

\* A group's slice lies in an array and holds, element by element, what it should.
Holds(a, s) ==
    /\ s.array \in 1..Len(a)
    /\ s.len = Len(s.wanted) /\ s.len <= Len(a[s.array])
    /\ \A i \in 1..s.len : a[s.array][i] = s.wanted[i]

\* No two groups write to the same array.
HeapInv ==
    /\ arrays \in Seq(Seq(Names)) /\ groups \in Seq(Slices)
    /\ \A g \in 1..Len(groups) : Holds(arrays, groups[g])
    /\ \A g, h \in 1..Len(groups) : groups[g].array = groups[h].array => g = h

RouteInv ==
    /\ routes \in Seq(Routes)
    /\ \A r \in 1..Len(routes) : routes[r].chain = routes[r].wanted

RoutingInv == HeapInv /\ RouteInv

-----------------------------------------------------------------------------
\* A slice holds what it held if its array is unchanged.
LEMMA HoldsKept ==
  ASSUME NEW a, NEW b, NEW s, Holds(a, s), s.array \in 1..Len(b), b[s.array] = a[s.array]
  PROVE  Holds(b, s)
  BY DEF Holds

\* Writing ms behind the first n elements of an array with room for it.
LEMMA OverwrittenBehind ==
  ASSUME NEW old \in Seq(Names), NEW n \in Nat, NEW ms \in Seq(Middlewares),
         n + Len(ms) <= Len(old)
  PROVE  /\ Overwritten(old, n, ms) \in Seq(Names) /\ Len(Overwritten(old, n, ms)) = Len(old)
         /\ \A i \in 1..n : Overwritten(old, n, ms)[i] = old[i]
         /\ \A i \in n+1..n+Len(ms) : Overwritten(old, n, ms)[i] = ms[i - n]
  <1> DEFINE new == Overwritten(old, n, ms)
  <1>1. /\ Len(old) \in Nat /\ DOMAIN old = 1..Len(old) /\ Len(ms) \in Nat
        /\ \A i \in 1..Len(old) : old[i] \in Names
    BY LenProperties
  <1>2. \A i \in n+1..n+Len(ms) : i - n \in 1..Len(ms)
    BY <1>1
  <1>3. \A i \in 1..Len(ms) : ms[i] \in Names
    BY ElementOfSeq DEF Names
  <1> DEFINE m == Len(old)
             e(i) == IF i \in n+1..n+Len(ms) THEN ms[i - n] ELSE old[i]
  <1>4. new = [i \in 1..m |-> e(i)]
    BY <1>1 DEF Overwritten
  <1>5. \A i \in 1..m : e(i) \in Names
    BY <1>1, <1>2, <1>3
  <1>6. m \in Nat
    BY <1>1
  <1>7. \A i \in 1..m : new[i] = e(i)
    BY <1>4
  <1>8. [i \in 1..m |-> e(i)] \in Seq(Names) /\ Len([i \in 1..m |-> e(i)]) = m
    <2> HIDE DEF m, e
    <2> QED
      BY <1>5, <1>6
  <1>9. \A i \in 1..n : i \in 1..m /\ i \notin n+1..n+Len(ms)
    BY <1>1
  <1>10. \A i \in n+1..n+Len(ms) : i \in 1..m
    BY <1>1
  <1> QED
    BY <1>4, <1>7, <1>8, <1>9, <1>10

\* What append and copy read is what the group was asked to have.
LEMMA ElementsWanted ==
  ASSUME HeapInv, NEW g \in 1..Len(groups)
  PROVE  /\ groups[g].wanted \in Seq(Middlewares)
         /\ Elements(g) = groups[g].wanted
  <1> DEFINE a == arrays[groups[g].array]  n == groups[g].len  w == groups[g].wanted
  <1>1. groups[g] \in Slices
    BY DEF HeapInv
  <1>2. w \in Seq(Middlewares) /\ n \in Nat /\ n = Len(w) /\ n <= Len(a)
        /\ \A i \in 1..n : a[i] = w[i]
    BY <1>1 DEF HeapInv, Holds, Slices
  <1>3. \A i \in 1..n : a[i] \in Middlewares
    BY <1>2, ElementOfSeq
  <1> HIDE DEF a, n, w
  <1>4. /\ SubSeq(a, 1, n) \in Seq(Middlewares)
        /\ Len(SubSeq(a, 1, n)) = n
        /\ \A i \in 1..n : SubSeq(a, 1, n)[i] = a[i]
    <2>1. /\ SubSeq(a, 1, n) \in Seq(Middlewares)
          /\ Len(SubSeq(a, 1, n)) = IF 1 <= n THEN n - 1 + 1 ELSE 0
          /\ \A i \in 1..n - 1 + 1 : SubSeq(a, 1, n)[i] = a[1 + i - 1]
      BY <1>2, <1>3, SubSeqProperties
    <2> QED
      BY <1>2, <2>1
  <1>5. SubSeq(a, 1, n) = w
    BY <1>2, <1>4, SeqEqual
  <1> QED
    BY <1>2, <1>5 DEF Elements, a, n, w

\* An array made for ms begins with ms, and has a place of its own.
LEMMA NewArray ==
  ASSUME arrays \in Seq(Seq(Names)), NEW ms \in Seq(Middlewares), NEW spare \in Nat
  PROVE  /\ Array(ms, spare) \in Seq(Seq(Names))
         /\ Len(Array(ms, spare)) = Len(arrays) + 1
         /\ \A i \in 1..Len(arrays) : Array(ms, spare)[i] = arrays[i]
         /\ Slice(ms, ms) \in Slices /\ Slice(ms, ms).array = Len(arrays) + 1
         /\ Holds(Array(ms, spare), Slice(ms, ms))
  <1> DEFINE rest == [i \in 1..spare |-> "none"]
             new == ms \o rest
  <1>1. ms \in Seq(Names) /\ Len(ms) \in Nat
    BY LenProperties DEF Names
  <1>2. rest \in Seq(Names) /\ Len(rest) = spare
    BY DEF Names
  <1>3. /\ new \in Seq(Names) /\ Len(new) = Len(ms) + spare
        /\ \A i \in 1..Len(ms) : new[i] = ms[i]
    BY <1>1, <1>2, ConcatProperties
  <1>4. Array(ms, spare) = Append(arrays, new)
    BY DEF Array
  <1> HIDE DEF new, rest
  <1>5. /\ Append(arrays, new) \in Seq(Seq(Names))
        /\ Len(Append(arrays, new)) = Len(arrays) + 1
        /\ \A i \in 1..Len(arrays) : Append(arrays, new)[i] = arrays[i]
        /\ Append(arrays, new)[Len(arrays) + 1] = new
    BY <1>3, AppendProperties
  <1>6. /\ Slice(ms, ms).array = Len(arrays) + 1 /\ Slice(ms, ms).len = Len(ms)
        /\ Slice(ms, ms).wanted = ms /\ Slice(ms, ms) \in Slices /\ Len(arrays) \in Nat
    BY <1>1, LenProperties DEF Slice, Slices
  <1>7. Holds(Array(ms, spare), Slice(ms, ms))
    BY <1>1, <1>2, <1>3, <1>4, <1>5, <1>6 DEF Holds
  <1> QED
    BY <1>4, <1>5, <1>6, <1>7
\* Another group, with an array of its own.
LEMMA GroupAdded ==
  ASSUME HeapInv, NEW ms \in Seq(Middlewares), NEW spare \in Nat,
         arrays' = Array(ms, spare), groups' = Append(groups, Slice(ms, ms))
  PROVE  HeapInv'
  <1>1. /\ arrays' \in Seq(Seq(Names)) /\ Len(arrays') = Len(arrays) + 1
        /\ \A i \in 1..Len(arrays) : arrays'[i] = arrays[i]
        /\ Slice(ms, ms) \in Slices /\ Slice(ms, ms).array = Len(arrays) + 1
        /\ Holds(arrays', Slice(ms, ms))
    BY NewArray DEF HeapInv
  <1>2. groups \in Seq(Slices) /\ Len(groups) \in Nat /\ Len(arrays) \in Nat
    BY LenProperties DEF HeapInv
  <1>3. /\ groups' \in Seq(Slices) /\ Len(groups') = Len(groups) + 1
        /\ \A g \in 1..Len(groups) : groups'[g] = groups[g]
        /\ groups'[Len(groups) + 1] = Slice(ms, ms)
    BY <1>1, <1>2, AppendProperties
  <1>4. \A g \in 1..Len(groups) : Holds(arrays, groups[g]) /\ groups[g].array \in 1..Len(arrays)
    BY DEF HeapInv, Holds
  <1>5. ASSUME NEW g \in 1..Len(groups)
        PROVE  Holds(arrays', groups[g])
    <2>1. /\ Holds(arrays, groups[g]) /\ groups[g].array \in 1..Len(arrays')
          /\ arrays'[groups[g].array] = arrays[groups[g].array]
      BY <1>1, <1>2, <1>4
    <2> QED
      BY <2>1, HoldsKept
  <1>6. \A g \in 1..Len(groups') : g \in 1..Len(groups) \/ g = Len(groups) + 1
    BY <1>2, <1>3
  <1>7. \A g \in 1..Len(groups') : Holds(arrays', groups'[g])
    BY <1>1, <1>3, <1>5, <1>6
  <1>8. ASSUME NEW g \in 1..Len(groups'), NEW h \in 1..Len(groups'),
               groups'[g].array = groups'[h].array
        PROVE  g = h
    <2>1. CASE g \in 1..Len(groups) /\ h \in 1..Len(groups)
      BY <1>3, <1>8, <2>1 DEF HeapInv
    <2>2. CASE g = Len(groups) + 1 \/ h = Len(groups) + 1
      BY <1>1, <1>2, <1>3, <1>4, <1>6, <1>8, <2>2
    <2> QED
      BY <1>6, <2>1, <2>2
  <1> QED
    BY <1>1, <1>3, <1>7, <1>8 DEF HeapInv

\* append into an array of its own, when the group's has no room.
LEMMA GroupMoved ==
  ASSUME HeapInv, NEW g \in 1..Len(groups), NEW ms \in Seq(Middlewares), NEW spare \in Nat,
         arrays' = Array(ms, spare), groups' = [groups EXCEPT ![g] = Slice(ms, ms)]
  PROVE  HeapInv'
  <1>1. /\ arrays' \in Seq(Seq(Names)) /\ Len(arrays') = Len(arrays) + 1
        /\ \A i \in 1..Len(arrays) : arrays'[i] = arrays[i]
        /\ Slice(ms, ms) \in Slices /\ Slice(ms, ms).array = Len(arrays) + 1
        /\ Holds(arrays', Slice(ms, ms))
    BY NewArray DEF HeapInv
  <1>2. groups \in Seq(Slices) /\ Len(arrays) \in Nat
    BY LenProperties DEF HeapInv
  <1>3. /\ groups' \in Seq(Slices) /\ Len(groups') = Len(groups)
        /\ \A h \in 1..Len(groups) : groups'[h] = IF h = g THEN Slice(ms, ms) ELSE groups[h]
    BY <1>1, <1>2, ExceptSeq
  <1>4. \A h \in 1..Len(groups) : Holds(arrays, groups[h]) /\ groups[h].array \in 1..Len(arrays)
    BY DEF HeapInv, Holds
  <1>5. ASSUME NEW h \in 1..Len(groups)
        PROVE  Holds(arrays', groups[h])
    <2>1. /\ Holds(arrays, groups[h]) /\ groups[h].array \in 1..Len(arrays')
          /\ arrays'[groups[h].array] = arrays[groups[h].array]
      BY <1>1, <1>2, <1>4
    <2> QED
      BY <2>1, HoldsKept
  <1>6. \A h \in 1..Len(groups') : Holds(arrays', groups'[h])
    BY <1>1, <1>3, <1>5
  <1>7. ASSUME NEW h \in 1..Len(groups), NEW i \in 1..Len(groups),
               groups'[h].array = groups'[i].array
        PROVE  h = i
    <2>1. CASE h # g /\ i # g
      BY <1>3, <1>7, <2>1 DEF HeapInv
    <2>2. CASE (h = g) # (i = g)
      BY <1>1, <1>2, <1>3, <1>4, <1>7, <2>2
    <2> QED
      BY <2>1, <2>2
  <1> QED
    BY <1>1, <1>3, <1>6, <1>7 DEF HeapInv

\* append in place: the group's own array has room behind its slice.
LEMMA GroupExtended ==
  ASSUME HeapInv, NEW g \in 1..Len(groups), NEW ms \in Seq(Middlewares), Fits(g, ms),
         arrays' = Appended(g, ms), groups' = [groups EXCEPT ![g] = Longer(g, ms)]
  PROVE  HeapInv'
  <1> DEFINE a == groups[g].array  n == groups[g].len  w == groups[g].wanted
             old == arrays[a]
             new == Overwritten(old, n, ms)
             slice == Longer(g, ms)
  <1>1. groups \in Seq(Slices) /\ groups[g] \in Slices /\ arrays \in Seq(Seq(Names))
        /\ Holds(arrays, groups[g])
    BY DEF HeapInv
  <1>2. /\ a \in 1..Len(arrays) /\ n \in Nat /\ n = Len(w) /\ w \in Seq(Middlewares)
        /\ old \in Seq(Names) /\ Len(old) \in Nat /\ Len(ms) \in Nat
        /\ n + Len(ms) <= Len(old) /\ \A i \in 1..n : old[i] = w[i]
    BY <1>1, LenProperties DEF Holds, Slices, Fits
  <1>3. /\ new \in Seq(Names) /\ Len(new) = Len(old)
        /\ \A i \in 1..n : new[i] = old[i]
        /\ \A i \in n+1..n+Len(ms) : new[i] = ms[i - n]
    BY <1>2, OverwrittenBehind
  <1>4. /\ w \o ms \in Seq(Middlewares) /\ Len(w \o ms) = n + Len(ms)
        /\ \A i \in 1..n + Len(ms) : (w \o ms)[i] = IF i <= n THEN w[i] ELSE ms[i - n]
    BY <1>2, ConcatProperties
  <1>5. /\ slice \in Slices /\ slice.array = a /\ slice.len = n + Len(ms)
        /\ slice.wanted = w \o ms
    <2>1. w \o ms \in Seq(Middlewares) /\ n + Len(ms) \in Nat /\ a \in Nat
      BY <1>1, <1>2, <1>4 DEF Slices
    <2>2. slice = [array |-> a, len |-> n + Len(ms), wanted |-> w \o ms]
      BY DEF Longer
    <2> DEFINE v == w \o ms  k == n + Len(ms)
    <2>3. v \in Seq(Middlewares) /\ k \in Nat /\ slice = [array |-> a, len |-> k, wanted |-> v]
      BY <2>1, <2>2
    <2> HIDE DEF a, n, w, slice, v, k
    <2>4. slice \in Slices /\ slice.array = a /\ slice.len = k /\ slice.wanted = v
      BY <2>1, <2>3 DEF Slices
    <2> QED
      BY <2>4 DEF v, k
  <1>6. arrays' = [arrays EXCEPT ![a] = new]
    BY DEF Appended
  <1> HIDE DEF a, n, w, old, new, slice
  <1>7. /\ arrays' \in Seq(Seq(Names)) /\ Len(arrays') = Len(arrays)
        /\ arrays'[a] = new
        /\ \A b \in 1..Len(arrays) : b # a => arrays'[b] = arrays[b]
    BY <1>1, <1>2, <1>3, <1>6, ExceptSeq
  <1>8. \A i \in 1..n + Len(ms) : new[i] = (w \o ms)[i]
    <2>1. ASSUME NEW i \in 1..n + Len(ms)
          PROVE  new[i] = (w \o ms)[i]
      <3>1. CASE i <= n
        BY <1>2, <1>3, <1>4, <3>1
      <3>2. CASE i > n
        BY <1>2, <1>3, <1>4, <3>2
      <3> QED
        BY <1>2, <3>1, <3>2
    <2> QED
      BY <2>1
  <1>9. Holds(arrays', slice)
    BY <1>2, <1>3, <1>4, <1>5, <1>7, <1>8 DEF Holds
  <1>10. /\ groups' \in Seq(Slices) /\ Len(groups') = Len(groups)
         /\ \A h \in 1..Len(groups) : groups'[h] = IF h = g THEN slice ELSE groups[h]
    BY <1>1, <1>5, ExceptSeq DEF slice
  <1>11. ASSUME NEW h \in 1..Len(groups), h # g
         PROVE  Holds(arrays', groups[h])
    <2>1. Holds(arrays, groups[h]) /\ groups[h].array # a /\ groups[h].array \in 1..Len(arrays)
      BY <1>11 DEF HeapInv, Holds, a
    <2>2. groups[h].array \in 1..Len(arrays') /\ arrays'[groups[h].array] = arrays[groups[h].array]
      BY <1>7, <2>1
    <2> QED
      BY <2>1, <2>2, HoldsKept
  <1>12. \A h \in 1..Len(groups) : groups'[h].array = groups[h].array
    BY <1>5, <1>10 DEF a
  <1>13. \A h \in 1..Len(groups) : Holds(arrays', groups'[h])
    BY <1>9, <1>10, <1>11
  <1> QED
    BY <1>7, <1>10, <1>12, <1>13 DEF HeapInv
-----------------------------------------------------------------------------
\* What an operation is given, as an extension of the group's slice.
LEMMA Extension ==
  ASSUME HeapInv, NEW g \in 1..Len(groups), NEW ms \in Lists
  PROVE  /\ groups[g].wanted \o ms \in Seq(Middlewares)
         /\ Elements(g) \o ms = groups[g].wanted \o ms
  BY ElementsWanted, ConcatProperties, RoutingAssumption

\* Every operation on groups keeps them apart.
LEMMA HeapStep ==
  ASSUME HeapInv, Next_Routing \/ UNCHANGED routing
  PROVE  HeapInv'
  <1>1. <<>> \in Seq(Middlewares) /\ Lists \subseteq Seq(Middlewares)
        /\ Globals \subseteq Seq(Middlewares) /\ Spares \subseteq Nat
    BY RoutingAssumption, EmptySeq
  <1>2. DOMAIN groups = 1..Len(groups) /\ Current \subseteq 1..Len(groups)
    BY LenProperties DEF HeapInv, Current
  <1>3. CASE GetRootGroup
    BY <1>1, <1>3, GroupAdded DEF GetRootGroup, NewGroup
  <1>4. ASSUME Listen
        PROVE  HeapInv'
    <2>1. arrays' = <<>> /\ groups' = <<>>
      BY <1>4 DEF Listen
    <2> QED
      BY <2>1, EmptySeq DEF HeapInv
  <1>5. CASE StartBare \/ Serve
    BY <1>4, <1>5 DEF StartBare, Serve
  <1>6. CASE SetupPanics \/ UNCHANGED routing
    BY <1>6 DEF SetupPanics, routing, HeapInv
  <1>7. ASSUME NEW globals \in Globals, Start(globals)
        PROVE  HeapInv'
    <2>1. CASE UNCHANGED <<arrays, groups>>
      BY <2>1 DEF HeapInv
    <2>2. CASE \E spare \in Nat : /\ arrays' = Array(globals, spare)
                                  /\ groups' = Append(groups, Slice(globals, globals))
      BY <1>1, <2>2, GroupAdded
    <2>3. \A spare \in (IF globals = <<>> THEN {0} ELSE Spares) : spare \in Nat
      BY <1>1
    <2> QED
      BY <1>7, <2>1, <2>2, <2>3 DEF Start
  <1>8. ASSUME NEW g \in Current, NEW ms \in Lists, Use(g, ms)
        PROVE  HeapInv'
    <2>1. g \in 1..Len(groups) /\ ms \in Seq(Middlewares)
          /\ groups[g].wanted \o ms \in Seq(Middlewares)
          /\ Elements(g) \o ms = groups[g].wanted \o ms
      BY <1>1, <1>2, Extension
    <2>2. CASE Fits(g, ms)
      BY <1>8, <2>1, <2>2, GroupExtended DEF Use
    <2>3. CASE ~Fits(g, ms)
      <3>1. PICK spare \in Spares :
               /\ arrays' = Array(Elements(g) \o ms, spare)
               /\ groups' = [groups EXCEPT ![g] = Slice(Elements(g) \o ms,
                                                        groups[g].wanted \o ms)]
        BY <1>8, <2>3 DEF Use
      <3> QED
        BY <1>1, <2>1, <3>1, GroupMoved
    <2> QED
      BY <2>2, <2>3
  <1>9. ASSUME NEW g \in Current, NEW ms \in Lists, SubGroup(g, ms)
        PROVE  HeapInv'
    <2>1. g \in 1..Len(groups)
          /\ groups[g].wanted \o ms \in Seq(Middlewares)
          /\ Elements(g) \o ms = groups[g].wanted \o ms
      BY <1>2, Extension
    <2> QED
      BY <1>9, <2>1, GroupAdded DEF SubGroup
  <1>10. ASSUME NEW g \in Current, NEW ms \in Lists, Handle(g, ms)
         PROVE  HeapInv'
    BY <1>10 DEF Handle, HeapInv
  <1> QED
    BY <1>3, <1>5, <1>6, <1>7, <1>8, <1>9, <1>10 DEF Next_Routing

\* A route gets what its group and its registration asked for.
LEMMA RouteStep ==
  ASSUME RoutingInv, Next_Routing \/ UNCHANGED routing
  PROVE  RouteInv'
  <1>1. CASE routes' = routes
    BY <1>1 DEF RoutingInv, RouteInv
  <1>2. ASSUME NEW g \in Current, NEW ms \in Lists, Handle(g, ms)
        PROVE  RouteInv'
    <2>1. DOMAIN groups = 1..Len(groups) /\ Current \subseteq 1..Len(groups)
      BY LenProperties DEF RoutingInv, HeapInv, Current
    <2>2. groups[g].wanted \o ms \in Seq(Middlewares)
          /\ Elements(g) \o ms = groups[g].wanted \o ms
      BY <2>1, Extension DEF RoutingInv
    <2>3. PICK m \in RouteMethods, skips \in SkipSets :
             routes' = Append(routes, [method |-> m, skips |-> skips,
                                       chain |-> Elements(g) \o ms,
                                       wanted |-> groups[g].wanted \o ms])
      BY <1>2 DEF Handle
    <2> DEFINE route == [method |-> m, skips |-> skips, chain |-> Elements(g) \o ms,
                         wanted |-> groups[g].wanted \o ms]
    <2>4. route \in Routes /\ route.chain = route.wanted
      BY <2>2 DEF Routes
    <2> HIDE DEF route
    <2>5. /\ routes' \in Seq(Routes) /\ Len(routes') = Len(routes) + 1
          /\ \A r \in 1..Len(routes) : routes'[r] = routes[r]
          /\ routes'[Len(routes) + 1] = route /\ Len(routes) \in Nat
      BY <2>3, <2>4, AppendProperties, LenProperties DEF RoutingInv, RouteInv, route
    <2>6. \A r \in 1..Len(routes') : r \in 1..Len(routes) \/ r = Len(routes) + 1
      BY <2>5
    <2> QED
      BY <2>4, <2>5, <2>6 DEF RoutingInv, RouteInv
  <1>3. ASSUME ~ \E g \in Current, ms \in Lists : Handle(g, ms)
        PROVE  routes' = routes
    BY <1>3 DEF Next_Routing, GetRootGroup, NewGroup, StartBare, Start, SetupPanics, Serve, Use,
                SubGroup, routing
  <1> QED
    BY <1>1, <1>2, <1>3

LEMMA RoutingInit ==
  ASSUME Init_Routing
  PROVE  RoutingInv
  BY EmptySeq DEF Init_Routing, RoutingInv, HeapInv, RouteInv

LEMMA RoutingStep ==
  ASSUME RoutingInv, Next_Routing \/ UNCHANGED routing
  PROVE  RoutingInv'
  BY HeapStep, RouteStep DEF RoutingInv

-----------------------------------------------------------------------------
(* The exchange.                                                           *)


\* The id that RequestID makes of the one that came.
Given(id) == IF ValidRequestID(id) THEN id ELSE "fresh"

\* The response carries the id of the context, and so does the log line.
Named(w) ==
    /\ w.header = w.context /\ (w.status # 0 => w.id = w.header)
    /\ w.context \in {"none", Given(w.request.id)}
    /\ w.logId \in {"none", w.context}

\* The request may go on past this middleware of its route.
Passes(w, middleware) ==
    /\ middleware = "auth" => w.request.authorized \/ middleware \in routes[w.route].skips
    /\ middleware = "cors" => w.request.method # "OPTIONS"
    /\ middleware = "contentType" =>
          w.request.method \in {"GET", "HEAD"} \/ w.request.contentType = "json"

\* Of a request that is served.
WorkInv ==
    work.pc # "idle" =>
        /\ phase = "serving" /\ sent = <<>> /\ reply = <<>> /\ call.pc # "idle"
        /\ work.route \in 1..Len(routes) /\ Named(work)
        /\ call.context = "context" => work.request.id = "context"
        /\ log.logged => work.pc = "leave" /\ log.id \in {"none", work.context}
        /\ work.pc = "enter" => work.status = 0
        /\ work.pc = "handler" => work.depth = Len(Chain) + 1
        /\ work.pc \in {"enter", "handler"} =>
              /\ work.depth \in 1..Len(Chain) + 1
              /\ \A i \in 1..work.depth - 1 : Passes(work, Chain[i])

\* Of the client's side.
CallInv ==
    /\ phase # "serving" => call.pc = "idle"
    /\ call.pc = "idle" => sent = <<>> /\ reply = <<>> /\ work.pc = "idle"
    /\ call.pc = "wait" => /\ call.asked.origin = "base"
                           /\ call.context = "context" => call.asked.id = "context"
    /\ sent # <<>> => /\ sent[1].origin = "base"
                      /\ call.context = "context" => sent[1].id = "context"

\* A reply tells what the server did.
ReplyInv ==
    reply # <<>> =>
        /\ work \in Works /\ reply[1].body = work.body
        /\ reply[1].whole /\ work.context # "none" => reply[1].id = work.context
        /\ work.context \in {"none", Given(work.request.id)}
        /\ call.context = "context" => work.request.id = "context"
        /\ log.logged => log.id \in {"none", work.context}

\* After the answer nothing happens any more, and the result stands.
ResultInv ==
    /\ Has({"status", "decode", "ok", "tooLarge"}) =>
          sent = <<>> /\ reply = <<>> /\ work.pc = "idle"
    /\ BodyIsWhole /\ OneRequestID

ExchangeInv == RoutingInv /\ TypeOK /\ WorkInv /\ CallInv /\ ReplyInv /\ ResultInv

-----------------------------------------------------------------------------
(* The ResponseWriter's operators.                                         *)

\* v is w with something written to the response.
Keeps(w, v) ==
    /\ v \in Works
    /\ v.pc = w.pc /\ v.request = w.request /\ v.route = w.route /\ v.depth = w.depth
    /\ v.context = w.context /\ v.header = w.header /\ v.logId = w.logId
    /\ w.status # 0 => v.status = w.status /\ v.id = w.id
    /\ w.status = 0 /\ v.status # 0 => v.id = w.header

LEMMA KeepsOn ==
  ASSUME NEW w, NEW v, NEW u, Keeps(w, v), Keeps(v, u)
  PROVE  Keeps(w, u)
  BY DEF Keeps

LEMMA SendKeeps ==
  ASSUME NEW w \in Works, NEW s \in Nat
  PROVE  Keeps(w, Send(w, s))
  BY DEF Keeps, Send, Works

LEMMA RecordKeeps ==
  ASSUME NEW w \in Works, NEW s \in Nat
  PROVE  Keeps(w, [w EXCEPT !.recorded = s])
  BY DEF Keeps, Works

LEMMA HeaderKeeps ==
  ASSUME NEW w \in Works, NEW s \in Nat
  PROVE  Keeps(w, WriteHeader(w, s))
  <1>1. [w EXCEPT !.recorded = s] \in Works
    BY DEF Works
  <1>2. Keeps(w, w)
    BY DEF Keeps
  <1> QED
    BY <1>1, <1>2, SendKeeps, RecordKeeps, KeepsOn DEF WriteHeader

LEMMA WriteKeeps ==
  ASSUME NEW w \in Works, NEW c \in Chunks
  PROVE  Keeps(w, Write(w, c))
  <1> DEFINE v == Send(w, 200)
             body == Append(v.body, c)
             implicit == v.implicit \/ w.status = 0
  <1>1. v \in Works /\ Keeps(w, v)
    BY SendKeeps DEF Keeps
  <1>2. Write(w, c) = [v EXCEPT !.body = body, !.implicit = implicit]
    BY DEF Write
  <1>3. body \in Seq(Chunks) /\ implicit \in BOOLEAN
    BY <1>1, AppendProperties DEF Works
  <1> HIDE DEF v, body, implicit
  <1>4. Keeps(v, [v EXCEPT !.body = body, !.implicit = implicit])
    BY <1>1, <1>3 DEF Keeps, Works
  <1> QED
    BY <1>1, <1>2, <1>4, KeepsOn

LEMMA DecideKeeps ==
  ASSUME NEW w \in Works, NEW s \in Nat, NEW c \in Codes \cup {"none"}
  PROVE  Keeps(w, Decide(w, s, c))
  BY DEF Keeps, Decide, Works

LEMMA AnswerKeeps ==
  ASSUME NEW w \in Works, NEW s \in Nat, NEW c \in Codes
  PROVE  /\ Keeps(w, WriteJSON(w, s, c))
         /\ Keeps(w, Decide(WriteJSON(w, s, c), s, c))
  <1>1. Keeps(w, WriteHeader(w, s)) /\ WriteHeader(w, s) \in Works
    BY HeaderKeeps DEF Keeps
  <1>2. c \in Chunks
    BY DEF Chunks
  <1>3. Keeps(w, WriteJSON(w, s, c)) /\ WriteJSON(w, s, c) \in Works
    BY <1>1, <1>2, WriteKeeps, KeepsOn DEF WriteJSON, Keeps
  <1> QED
    BY <1>3, DecideKeeps, KeepsOn
LEMMA NamedKept ==
  ASSUME NEW w, NEW v, Keeps(w, v), Named(w)
  PROVE  Named(v)
  BY DEF Keeps, Named

\* The ways through the chain.
LEMMA Moves ==
  ASSUME NEW w \in Works, w.depth > 0
  PROVE  /\ Back(w) \in Works /\ Outward(w) \in Works /\ Inward(w) \in Works
         /\ Back(w).pc = "leave" /\ Outward(w).pc = w.pc /\ Inward(w).pc = w.pc
         /\ Inward(w).depth = w.depth + 1 /\ Inward(w).status = w.status
         /\ \A v \in {Back(w), Outward(w), Inward(w)} :
               /\ v.request = w.request /\ v.route = w.route /\ v.context = w.context
               /\ Named(w) => Named(v)
  <1>1. w.depth - 1 \in Nat /\ w.depth + 1 \in Nat
    BY DEF Works
  <1>2. Back(w) \in Works /\ Outward(w) \in Works /\ Inward(w) \in Works
    BY <1>1 DEF Works, Back, Outward, Inward
  <1> QED
    BY <1>2 DEF Works, Back, Outward, Inward, Named

-----------------------------------------------------------------------------
(* The server, while it serves a request.                                  *)

ServerOnly == UNCHANGED <<wire, call, routing>>

\* What holds of the rest while the server works.
LEMMA RestKept ==
  ASSUME ExchangeInv, work.pc # "idle", ServerOnly, work' \in Works, work'.pc # "idle"
  PROVE  RoutingInv' /\ TypeOK' /\ CallInv' /\ ReplyInv' /\ ResultInv'
  <1>1. UNCHANGED <<sent, reply, call, phase, once, root, arrays, groups, routes>>
    BY DEF ServerOnly, wire, routing
  <1>2. sent = <<>> /\ reply = <<>> /\ phase = "serving" /\ call.pc # "idle"
    BY DEF ExchangeInv, WorkInv
  <1>3. RoutingInv'
    BY <1>1, RoutingStep DEF ExchangeInv, routing
  <1>4. TypeOK'
    BY <1>1, <1>2 DEF ExchangeInv, TypeOK, Works
  <1>5. CallInv' /\ ReplyInv'
    BY <1>1, <1>2 DEF ExchangeInv, CallInv, ReplyInv
  <1>6. ~Has({"status", "decode", "ok", "tooLarge"})
    BY DEF ExchangeInv, ResultInv
  <1>7. ~Has({"status", "decode", "ok", "tooLarge"})'
    BY <1>1, <1>6 DEF Has, Result
  <1>8. ~Answered' /\ ~Has({"tooLarge"})'
    BY <1>7 DEF Answered, Has
  <1>9. ResultInv'
    BY <1>7, <1>8 DEF ResultInv, BodyIsWhole, OneRequestID
  <1> QED
    BY <1>3, <1>4, <1>5, <1>9

LEMMA LeaveOn ==
  ASSUME ExchangeInv, work.pc # "idle", ServerOnly, work' \in Works, work'.pc = "leave",
         work'.request = work.request, work'.route = work.route,
         work'.context = work.context, Named(work'),
         log' = log \/ log'.id = work.logId
  PROVE  ExchangeInv'
  <1>1. UNCHANGED <<sent, reply, call, phase, routes>>
    BY DEF ServerOnly, wire, routing
  <1>2. log'.logged => log'.id \in {"none", work.context}
    BY DEF ExchangeInv, WorkInv, Named
  <1>3. WorkInv'
    BY <1>1, <1>2 DEF ExchangeInv, WorkInv, Named
  <1> QED
    BY <1>3, RestKept DEF ExchangeInv

LEMMA EnterOn ==
  ASSUME ExchangeInv, work.pc = "enter", ServerOnly, log' = log, work' \in Works,
         work.depth \in DOMAIN Chain, Passes(work, Chain[work.depth]),
         work'.pc = "enter", work'.depth = work.depth + 1, work'.status = work.status,
         work'.request = work.request, work'.route = work.route, Named(work')
  PROVE  ExchangeInv'
  <1>1. UNCHANGED <<sent, reply, call, phase, routes>>
    BY DEF ServerOnly, wire, routing
  <1>2. /\ Chain' = Chain /\ work.route \in 1..Len(routes)
        /\ routes[work.route] \in Routes /\ Chain \in Seq(Middlewares)
    <2>1. work.route \in 1..Len(routes) /\ routes \in Seq(Routes)
      BY DEF ExchangeInv, WorkInv, RoutingInv, RouteInv
    <2>2. routes[work.route] \in Routes
      BY <2>1, ElementOfSeq
    <2>3. Chain \in Seq(Middlewares)
      BY <2>2 DEF Chain, Routes
    <2> QED
      BY <1>1, <2>1, <2>2, <2>3 DEF Chain
  <1>3. DOMAIN Chain = 1..Len(Chain) /\ Len(Chain) \in Nat
    BY <1>2, LenProperties
  <1>4. work.depth \in Nat /\ \A i \in 1..work.depth - 1 : Passes(work, Chain[i])
    BY DEF ExchangeInv, WorkInv, TypeOK, Works
  <1>5. \A m : Passes(work, m) => Passes(work, m)'
    BY <1>1 DEF Passes
  <1>6. ASSUME NEW i \in 1..work'.depth - 1
        PROVE  Passes(work, Chain[i])'
    <2>1. i \in 1..work.depth - 1 \/ i = work.depth
      BY <1>3, <1>4
    <2> QED
      BY <1>2, <1>1, <1>4, <1>5, <2>1 DEF Passes
  <1>7. work'.depth \in 1..Len(Chain) + 1
    BY <1>3
  <1>8. WorkInv'
    BY <1>1, <1>2, <1>6, <1>7 DEF ExchangeInv, WorkInv, Named
  <1> QED
    BY <1>8, RestKept DEF ExchangeInv

\* The handler is reached, or goes on.
LEMMA HandleOn ==
  ASSUME ExchangeInv, work.pc \in {"enter", "handler"}, ServerOnly, log' = log,
         work' \in Works, work'.pc = "handler", work.depth = Len(Chain) + 1,
         work'.depth = work.depth, work'.request = work.request, work'.route = work.route,
         Named(work'), work'.context = work.context
  PROVE  ExchangeInv'
  <1>1. UNCHANGED <<sent, reply, call, phase, routes>>
    BY DEF ServerOnly, wire, routing
  <1>2. Chain' = Chain
    BY <1>1 DEF Chain
  <1>3. \A i \in 1..work'.depth - 1 : Passes(work, Chain[i])'
    BY <1>1, <1>2 DEF ExchangeInv, WorkInv, Passes
  <1>4. WorkInv'
    BY <1>1, <1>2, <1>3 DEF ExchangeInv, WorkInv, Named
  <1> QED
    BY <1>4, RestKept DEF ExchangeInv
LEMMA EnterStepKeeps ==
  ASSUME ExchangeInv, Enter, UNCHANGED <<routing, call>>
  PROVE  ExchangeInv'
  <1>1. work.pc = "enter" /\ work \in Works /\ work.status = 0 /\ Named(work) /\ ServerOnly
        /\ work.depth > 0 /\ log' = log
    BY DEF Enter, EnterRequestID, EnterLogger, EnterRecovery, EnterCORS, EnterAuth,
           EnterContentType, EnterHandler, Enters, Is, EnterStep, ExchangeInv, TypeOK, WorkInv,
           ServerOnly
  <1>2. ASSUME work' = Inward(work), work.depth \in DOMAIN Chain,
               Passes(work, Chain[work.depth])
        PROVE  ExchangeInv'
    BY <1>1, <1>2, Moves, EnterOn
  <1>3. ASSUME NEW v, Keeps(work, v), work' = Back(v)
        PROVE  ExchangeInv'
    <2>1. v \in Works /\ v.depth > 0 /\ v.request = work.request /\ v.route = work.route
          /\ v.context = work.context /\ Named(v)
      BY <1>1, <1>3, NamedKept DEF Keeps
    <2> QED
      BY <1>1, <1>3, <2>1, Moves, LeaveOn
  <1>4. {200, 204, 400, 401, 415} \subseteq Nat /\ "none" \in Codes \cup {"none"}
        /\ {"UNAUTHORIZED", "MISSING_CONTENT_TYPE", "UNSUPPORTED_CONTENT_TYPE"} \subseteq Codes
    BY DEF Codes
  <1>5. \A s \in {400, 401, 415}, c \in Codes : Keeps(work, Decide(WriteJSON(work, s, c), s, c))
    BY <1>1, <1>4, AnswerKeeps
  <1>6. CASE EnterRequestID
    <2> DEFINE id == Given(work.request.id)
               v == [work EXCEPT !.context = id, !.header = id]
    <2>1. work.request \in Requests(Paths) /\ work.request.id \in Ids /\ id \in Ids
      BY <1>1 DEF Works, Requests, Given, Ids
    <2>2. v \in Works /\ v.depth = work.depth /\ v.pc = "enter" /\ v.request = work.request
          /\ v.route = work.route /\ v.status = 0 /\ v.header = id /\ v.context = id
          /\ v.logId = work.logId
      <3> HIDE DEF id
      <3> QED
        BY <1>1, <2>1 DEF Works
    <2>3. Named(v)
      BY <1>1, <2>2 DEF Named
    <2>4. work' = Inward(v) /\ work.depth \in DOMAIN Chain /\ Chain[work.depth] = "requestID"
      BY <1>6 DEF EnterRequestID, EnterStep, Enters, Given
    <2>5. Passes(work, Chain[work.depth])
      BY <2>4 DEF Passes
    <2> HIDE DEF v
    <2> QED
      BY <1>1, <2>2, <2>3, <2>4, <2>5, Moves, EnterOn
  <1>7. CASE EnterLogger
    <2> DEFINE v == [work EXCEPT !.wrapper = work.depth, !.recorded = 0, !.logId = work.context]
    <2>1. v \in Works /\ v.depth = work.depth /\ v.pc = "enter" /\ v.request = work.request
          /\ v.route = work.route /\ v.status = 0 /\ v.context = work.context
          /\ Named(v)
      BY <1>1 DEF Works, Named
    <2>2. (work' = Inward(v) \/ work' = Inward(work)) /\ work.depth \in DOMAIN Chain
          /\ Chain[work.depth] = "logger"
      BY <1>7 DEF EnterLogger, EnterStep, Enters
    <2>3. Passes(work, Chain[work.depth])
      BY <2>2 DEF Passes
    <2> HIDE DEF v
    <2>4. CASE work' = Inward(v)
      BY <1>1, <2>1, <2>2, <2>3, <2>4, Moves, EnterOn
    <2> QED
      BY <1>2, <2>2, <2>3, <2>4
  <1>8. CASE EnterRecovery
    BY <1>2, <1>8 DEF EnterRecovery, EnterStep, Enters, Passes
  <1>9. CASE EnterCORS
    <2>1. CASE work.request.method = "OPTIONS"
      <3>1. Keeps(work, Decide(WriteHeader(work, 204), 204, "none"))
        <4>1. Keeps(work, WriteHeader(work, 204)) /\ WriteHeader(work, 204) \in Works
          BY <1>1, <1>4, HeaderKeeps DEF Keeps
        <4> QED
          BY <1>4, <4>1, DecideKeeps, KeepsOn
      <3> QED
        BY <1>3, <1>9, <2>1, <3>1 DEF EnterCORS, EnterStep
    <2>2. CASE work.request.method # "OPTIONS"
      BY <1>2, <1>9, <2>2 DEF EnterCORS, EnterStep, Enters, Passes
    <2> QED
      BY <2>1, <2>2
  <1>10. CASE EnterAuth
    <2>1. CASE Admitted
      BY <1>2, <1>10, <2>1 DEF EnterAuth, Admitted, EnterStep, Enters, Passes, Skipped
    <2>2. CASE ~Admitted
      BY <1>3, <1>4, <1>5, <1>10, <2>2 DEF EnterAuth, EnterStep, Refuse
    <2> QED
      BY <2>1, <2>2
  <1>11. CASE EnterContentType
    <2>1. CASE work.request.method \in {"GET", "HEAD"} \/ work.request.contentType = "json"
      BY <1>2, <1>11, <2>1 DEF EnterContentType, EnterStep, Enters, Passes
    <2>2. CASE ~(work.request.method \in {"GET", "HEAD"} \/ work.request.contentType = "json")
      <3>1. \/ work' = Refuse(work, 400, "MISSING_CONTENT_TYPE")
            \/ work' = Refuse(work, 415, "UNSUPPORTED_CONTENT_TYPE")
        BY <1>11, <2>2 DEF EnterContentType, EnterStep
      <3> QED
        BY <1>3, <1>4, <1>5, <3>1 DEF Refuse
    <2> QED
      BY <2>1, <2>2
  <1>12. CASE EnterHandler
    <2>1. work' = [work EXCEPT !.pc = "handler"] /\ work.depth = Len(Chain) + 1
      BY <1>12 DEF EnterHandler, EnterStep
    <2>2. work' \in Works /\ work'.pc = "handler" /\ work'.depth = work.depth
          /\ work'.request = work.request /\ work'.route = work.route
          /\ work'.context = work.context /\ Named(work')
      BY <1>1, <2>1 DEF Works, Named
    <2> QED
      BY <1>1, <2>1, <2>2, HandleOn
  <1> QED
    BY <1>6, <1>7, <1>8, <1>9, <1>10, <1>11, <1>12 DEF Enter

LEMMA HandlerStepKeeps ==
  ASSUME ExchangeInv, Handler, UNCHANGED <<routing, call>>
  PROVE  ExchangeInv'
  <1>1. work.pc = "handler" /\ work \in Works /\ Named(work) /\ ServerOnly
        /\ work.depth > 0 /\ log' = log /\ work.depth = Len(Chain) + 1
    <2>1. \E w : Handles(w)
      BY DEF Handler, Inform, Answer, WriteSome, HandlerRefuses, HandlerReturns, HandlerPanics
    <2>2. work.pc = "handler" /\ ServerOnly /\ log' = log
      BY <2>1 DEF Handles, Is, ServerOnly
    <2>3. work \in Works
      BY <2>2 DEF ExchangeInv, TypeOK
    <2>4. Named(work) /\ work.depth \in 1..Len(Chain) + 1 /\ work.depth = Len(Chain) + 1
      BY <2>2 DEF ExchangeInv, WorkInv
    <2>5. work.depth > 0
      BY <2>3, <2>4 DEF Works
    <2> QED
      BY <2>2, <2>3, <2>4, <2>5
  <1>2. ASSUME NEW v, Keeps(work, v), work' = v
        PROVE  ExchangeInv'
    BY <1>1, <1>2, NamedKept, HandleOn DEF Keeps
  <1>3. ASSUME NEW v, Keeps(work, v), work' = Back(v)
        PROVE  ExchangeInv'
    <2>1. v \in Works /\ v.depth > 0 /\ v.request = work.request /\ v.route = work.route
          /\ v.context = work.context /\ Named(v)
      BY <1>1, <1>3, NamedKept DEF Keeps
    <2> QED
      BY <1>1, <1>3, <2>1, Moves, LeaveOn
  <1>4. {200, 302, 404, 422} \subseteq Nat /\ "none" \in Codes \cup {"none"}
        /\ "VALIDATION_FAILED" \in Codes /\ "app" \in Chunks
    BY DEF Codes, Chunks
  <1>5. ASSUME NEW v \in Works, Keeps(work, v), NEW s \in Nat
        PROVE  Keeps(work, Decide(WriteHeader(v, s), s, "none"))
    <2>1. Keeps(work, WriteHeader(v, s)) /\ WriteHeader(v, s) \in Works
      BY <1>5, HeaderKeeps, KeepsOn DEF Keeps
    <2> QED
      BY <1>4, <2>1, DecideKeeps, KeepsOn
  <1>6. Keeps(work, work)
    BY <1>1 DEF Keeps
  <1>7. CASE Inform
    <2> DEFINE v == [work EXCEPT !.recorded = 103, !.spoiled = TRUE]
    <2>1. Keeps(work, v)
      BY <1>1 DEF Keeps, Works
    <2>2. work' = v \/ work' = work
      BY <1>7 DEF Inform, Handles
    <2> QED
      BY <1>2, <1>6, <2>1, <2>2
  <1>8. CASE Answer
    <2> DEFINE Sends(to) == Decide(WriteHeader([work EXCEPT !.location = to], 302), 302, "none")
    <2>1. ASSUME NEW to \in Origins
          PROVE  [work EXCEPT !.location = to] \in Works /\ Keeps(work, [work EXCEPT !.location = to])
      BY <1>1 DEF Keeps, Works
    <2>2. \/ work' = Decide(WriteHeader(work, 200), 200, "none")
          \/ \E to \in Origins : work' = Sends(to)
      BY <1>8 DEF Answer, Handles
    <2>3. CASE work' = Decide(WriteHeader(work, 200), 200, "none")
      BY <1>1, <1>2, <1>4, <1>5, <1>6, <2>3
    <2>4. ASSUME NEW to \in Origins, work' = Sends(to)
          PROVE  ExchangeInv'
      <3> DEFINE v == [work EXCEPT !.location = to]
      <3>1. v \in Works /\ Keeps(work, v) /\ work' = Decide(WriteHeader(v, 302), 302, "none")
        BY <2>1, <2>4
      <3> HIDE DEF v
      <3> QED
        BY <1>2, <1>4, <1>5, <3>1
    <2> HIDE DEF Sends
    <2> QED
      BY <2>2, <2>3, <2>4
  <1>9. CASE WriteSome
    <2>1. Keeps(work, Write(work, "app")) /\ Write(work, "app") \in Works
      BY <1>1, <1>4, WriteKeeps DEF Keeps
    <2>2. Keeps(work, Decide(Write(work, "app"), 200, "none"))
      BY <1>4, <2>1, DecideKeeps, KeepsOn
    <2> QED
      BY <1>2, <1>9, <2>2 DEF WriteSome, Handles
  <1>10. CASE HandlerRefuses
    <2>1. \/ work' = Back(Decide(WriteHeader(work, 404), 404, "none"))
          \/ work' = Back(Decide(WriteJSON(work, 422, "VALIDATION_FAILED"), 422, "VALIDATION_FAILED"))
      BY <1>10 DEF HandlerRefuses, Refusals, Handles, Refuse
    <2> QED
      BY <1>1, <1>3, <1>4, <1>5, <1>6, <2>1, AnswerKeeps
  <1>11. CASE HandlerReturns
    BY <1>1, <1>3, <1>4, <1>11, DecideKeeps DEF HandlerReturns, Handles
  <1>12. CASE HandlerPanics
    <2> DEFINE spoiled == work.spoiled \/ work.status # 0
    <2>1. Back(work) \in Works /\ Back(work).pc = "leave" /\ Back(work).request = work.request
          /\ Back(work).route = work.route /\ Back(work).context = work.context /\ Named(Back(work))
      BY <1>1, Moves
    <2>2. work' = [Back(work) EXCEPT !.panics = TRUE, !.verdict = NoVerdict, !.spoiled = spoiled]
          /\ spoiled \in BOOLEAN /\ NoVerdict \in [status : Nat, code : Codes \cup {"none"}]
      BY <1>1, <1>12 DEF HandlerPanics, Handles, NoVerdict, Works
    <2> HIDE DEF spoiled
    <2>3. work' \in Works /\ work'.pc = "leave" /\ work'.request = work.request
          /\ work'.route = work.route /\ work'.context = work.context
      BY <2>1, <2>2 DEF Works
    <2>4. Named(work')
      BY <2>1, <2>2 DEF Works, Named
    <2> QED
      BY <1>1, <2>3, <2>4, LeaveOn
  <1> QED
    BY <1>7, <1>8, <1>9, <1>10, <1>11, <1>12 DEF Handler
LEMMA LeaveStepKeeps ==
  ASSUME ExchangeInv, LeaveLogger \/ Recover \/ LeaveOther, UNCHANGED <<routing, call>>
  PROVE  ExchangeInv'
  <1>1. work.pc = "leave" /\ work.depth > 0 /\ work \in Works /\ Named(work) /\ ServerOnly
    <2>1. Leaves /\ UNCHANGED wire
      BY DEF LeaveLogger, Recover, LeaveOther
    <2> QED
      BY <2>1 DEF Leaves, Is, ExchangeInv, TypeOK, WorkInv, ServerOnly
  <1>2. ASSUME NEW v, Keeps(work, v), work' = Outward(v), log' = log \/ log'.id = work.logId
        PROVE  ExchangeInv'
    <2>1. v \in Works /\ v.depth > 0 /\ v.pc = "leave" /\ v.request = work.request
          /\ v.route = work.route /\ v.context = work.context /\ Named(v)
      BY <1>1, <1>2, NamedKept DEF Keeps
    <2> QED
      BY <1>1, <1>2, <2>1, Moves, LeaveOn
  <1>3. CASE LeaveLogger
    <2>1. Keeps(work, [work EXCEPT !.wrapper = 0])
      BY <1>1 DEF Keeps, Works
    <2>2. work' = Outward([work EXCEPT !.wrapper = 0]) /\ log'.id = work.logId
      BY <1>3 DEF LeaveLogger
    <2> QED
      BY <1>2, <2>1, <2>2
  <1>4. CASE Recover
    <2> DEFINE v == [work EXCEPT !.panics = FALSE]
    <2>1. v \in Works /\ Keeps(work, v)
      BY <1>1 DEF Keeps, Works
    <2>2. 500 \in Nat /\ "INTERNAL_SERVER_ERROR" \in Codes
      BY DEF Codes
    <2>3. /\ work' = Outward(Decide(WriteJSON(v, 500, "INTERNAL_SERVER_ERROR"), 500,
                                    "INTERNAL_SERVER_ERROR"))
          /\ log' = log
      BY <1>4 DEF Recover
    <2> HIDE DEF v
    <2> QED
      BY <1>2, <2>1, <2>2, <2>3, AnswerKeeps, KeepsOn
  <1>5. CASE LeaveOther
    <2>1. Keeps(work, work)
      BY <1>1 DEF Keeps
    <2> QED
      BY <1>2, <1>5, <2>1 DEF LeaveOther
  <1> QED
    BY <1>3, <1>4, <1>5

-----------------------------------------------------------------------------
(* A request arrives, and its reply goes out.                              *)

LEMMA AcceptKeeps ==
  ASSUME ExchangeInv, Accept, UNCHANGED <<routing, call>>
  PROVE  ExchangeInv'
  <1>1. UNCHANGED <<reply, call, phase, once, root, arrays, groups, routes>> /\ sent' = <<>>
        /\ phase = "serving" /\ sent # <<>> /\ log'.logged = FALSE
    BY DEF Accept, Arrives, routing
  <1>2. /\ sent = <<sent[1]>> /\ sent[1] \in Requests(Paths) /\ reply = <<>>
        /\ call.pc # "idle" /\ (call.context = "context" => sent[1].id = "context")
        /\ work.pc = "idle"
    BY <1>1 DEF ExchangeInv, TypeOK, CallInv
  <1>3. Head(sent) = sent[1]
    BY <1>2
  <1>4. sent[1].path \in Paths /\ sent[1].path \in 1..Len(routes)
    BY <1>2, <1>3, LenProperties DEF Accept, Found, Known, Requests, ExchangeInv, RoutingInv, RouteInv
  <1>5. work' = Working(sent[1], sent[1].path)
    BY <1>3 DEF Accept
  <1>6. /\ work' \in Works /\ work'.pc = "enter" /\ work'.route = sent[1].path
        /\ work'.request = sent[1] /\ work'.status = 0 /\ work'.depth = 1
        /\ work'.context = "none" /\ work'.header = "none" /\ work'.logId = "none"
    <2>1. <<>> \in Seq(Chunks) /\ "none" \in Ids /\ NoVerdict \in [status : Nat, code : Codes \cup {"none"}]
      BY EmptySeq DEF Ids, NoVerdict
    <2> QED
      BY <1>2, <1>4, <1>5, <2>1 DEF Working, Works
  <1>7. RoutingInv'
    BY <1>1, RoutingStep DEF ExchangeInv, routing
  <1>8. TypeOK'
    BY <1>1, <1>2, <1>6 DEF ExchangeInv, TypeOK
  <1>9. /\ work'.route \in 1..Len(routes') /\ Named(work') /\ Len(Chain') \in Nat
    BY <1>1, <1>4, <1>6, <1>7, LenProperties DEF Named, RoutingInv, RouteInv, Chain, Routes
  <1>10. WorkInv'
    <2>1. work'.depth \in 1..Len(Chain') + 1
      BY <1>6, <1>9
    <2>2. \A i \in 1..work'.depth - 1 : FALSE
      BY <1>6
    <2> QED
      BY <1>1, <1>2, <1>6, <1>9, <2>1, <2>2 DEF WorkInv, Named
  <1>11. CallInv' /\ ReplyInv'
    BY <1>1, <1>2 DEF ExchangeInv, CallInv, ReplyInv
  <1>12. ~Has({"status", "decode", "ok", "tooLarge"})'
    BY <1>1, <1>2 DEF ExchangeInv, ResultInv, Has, Result
  <1>13. ResultInv'
    BY <1>12 DEF ResultInv, BodyIsWhole, OneRequestID, Has, Answered
  <1> QED
    BY <1>7, <1>8, <1>10, <1>11, <1>13 DEF ExchangeInv
\* The mux's own answer.
LEMMA UnmatchedKeeps ==
  ASSUME ExchangeInv, Unmatched, UNCHANGED <<routing, call>>
  PROVE  ExchangeInv'
  <1>1. UNCHANGED <<call, phase, once, root, arrays, groups, routes>> /\ sent' = <<>>
        /\ phase = "serving" /\ sent # <<>> /\ log'.logged = FALSE
    BY DEF Unmatched, Arrives, routing
  <1>2. /\ sent = <<sent[1]>> /\ sent[1] \in Requests(Paths) /\ call.pc # "idle"
        /\ (call.context = "context" => sent[1].id = "context")
    BY <1>1 DEF ExchangeInv, TypeOK, CallInv
  <1>3. Head(sent) \in Requests(Paths)
        /\ (call.context = "context" => Head(sent).id = "context")
    BY <1>2
  <1> DEFINE q == Head(sent)
             status == IF Known THEN 405 ELSE 404
             body == IF q.method = "HEAD" THEN <<>> ELSE <<"app">>
  <1>4. /\ reply' = <<Reply(status, "none", body, "none", TRUE)>>
        /\ work' = [Decide(Working(q, 0), status, "none") EXCEPT !.pc = "idle", !.body = body]
    BY DEF Unmatched
  <1>5. body \in Seq(Chunks) /\ status \in Nat
    <2>1. "app" \in Chunks
      BY DEF Chunks
    <2>2. <<>> \in Seq(Chunks) /\ <<"app">> \in Seq(Chunks)
      BY <2>1
    <2> QED
      BY <2>2
  <1> HIDE DEF q, status, body
  <1>6. Decide(Working(q, 0), status, "none") \in Works
        /\ Decide(Working(q, 0), status, "none").context = "none"
        /\ Decide(Working(q, 0), status, "none").request = q
    <2>1. <<>> \in Seq(Chunks) /\ "none" \in Ids /\ "none" \in Codes \cup {"none"}
          /\ NoVerdict \in [status : Nat, code : Codes \cup {"none"}]
      BY EmptySeq DEF Ids, NoVerdict
    <2>2. /\ Working(q, 0) \in Works /\ Working(q, 0).context = "none"
          /\ Working(q, 0).request = q
      BY <1>3, <2>1 DEF q, Working, Works
    <2> QED
      BY <1>5, <2>1, <2>2, DecideKeeps DEF Keeps
  <1>7. /\ work' \in Works /\ work'.pc = "idle" /\ work'.body = body /\ work'.context = "none"
        /\ work'.request = q
    <2> DEFINE v == Decide(Working(q, 0), status, "none")
    <2>1. v \in Works /\ v.context = "none" /\ v.request = q
          /\ work' = [v EXCEPT !.pc = "idle", !.body = body]
      BY <1>4, <1>6
    <2> HIDE DEF v
    <2> QED
      BY <1>5, <2>1 DEF Works
  <1>8. reply' # <<>> /\ reply' = <<reply'[1]>> /\ reply'[1].body = body /\ reply'[1].id = "none"
    BY <1>4 DEF Reply
  <1>9. RoutingInv'
    BY <1>1, RoutingStep DEF ExchangeInv, routing
  <1>10. TypeOK'
    BY <1>1, <1>2, <1>7, <1>8 DEF ExchangeInv, TypeOK
  <1>11. WorkInv' /\ CallInv'
    BY <1>1, <1>2, <1>7, <1>8 DEF ExchangeInv, WorkInv, CallInv
  <1>12. ReplyInv'
    BY <1>1, <1>3, <1>7, <1>8 DEF ReplyInv, q
  <1>13. ~Has({"status", "decode", "ok", "tooLarge"})'
    BY <1>1, <1>2 DEF ExchangeInv, ResultInv, Has, Result
  <1>14. ResultInv'
    BY <1>13 DEF ResultInv, BodyIsWhole, OneRequestID, Has, Answered
  <1> QED
    BY <1>9, <1>10, <1>11, <1>12, <1>14 DEF ExchangeInv

\* The response is complete, or breaks off.
LEMMA FinishKeeps ==
  ASSUME ExchangeInv, Finish, UNCHANGED <<routing, call>>
  PROVE  ExchangeInv'
  <1> DEFINE done == IF work.panics THEN work ELSE Send(work, 200)
             body == IF done.request.method = "HEAD" THEN <<>> ELSE done.body
  <1>1. UNCHANGED <<sent, log, call, phase, once, root, arrays, groups, routes>>
        /\ work.pc = "leave" /\ work \in Works
    BY DEF Finish, Is, routing, ExchangeInv, TypeOK
  <1>2. /\ sent = <<>> /\ call.pc # "idle" /\ phase = "serving" /\ Named(work)
        /\ (call.context = "context" => work.request.id = "context")
        /\ (log.logged => log.id \in {"none", work.context})
    BY <1>1 DEF ExchangeInv, WorkInv
  <1>3. done \in Works /\ Keeps(work, done) /\ Named(done)
    <2>1. Keeps(work, work)
      BY <1>1 DEF Keeps
    <2>2. Keeps(work, done)
      BY <1>1, <2>1, SendKeeps
    <2> QED
      BY <1>2, <2>2, NamedKept DEF Keeps
  <1>4. ~work.panics => done.status # 0
    BY <1>1 DEF Send, Works
  <1>5. body \in Seq(Chunks)
    BY <1>3, EmptySeq DEF Works
  <1>6. /\ reply' = <<Reply(done.status, done.id, body, done.location, ~work.panics)>>
        /\ work' = [done EXCEPT !.pc = "idle", !.body = body]
    BY DEF Finish
  <1>7. /\ done.context = work.context /\ done.request = work.request
        /\ ~work.panics => done.id = done.context
        /\ done.context \in {"none", Given(work.request.id)}
    BY <1>3, <1>4 DEF Keeps, Named
  <1> HIDE DEF done, body
  <1>8. /\ work' \in Works /\ work'.pc = "idle" /\ work'.body = body
        /\ work'.context = work.context /\ work'.request = work.request
    BY <1>3, <1>5, <1>6, <1>7 DEF Works
  <1>9. /\ reply' # <<>> /\ reply' = <<reply'[1]>> /\ reply'[1].body = body
        /\ reply'[1].id = done.id /\ reply'[1].whole = ~work.panics
    BY <1>6 DEF Reply
  <1>10. RoutingInv'
    BY <1>1, RoutingStep DEF ExchangeInv, routing
  <1>11. TypeOK'
    BY <1>1, <1>2, <1>8, <1>9 DEF ExchangeInv, TypeOK
  <1>12. WorkInv' /\ CallInv'
    BY <1>1, <1>2, <1>8, <1>9 DEF ExchangeInv, WorkInv, CallInv
  <1>13. ReplyInv'
    BY <1>1, <1>2, <1>7, <1>8, <1>9 DEF ReplyInv
  <1>14. ~Has({"status", "decode", "ok", "tooLarge"})'
    BY <1>1 DEF ExchangeInv, ResultInv, Has, Result
  <1>15. ResultInv'
    BY <1>14 DEF ResultInv, BodyIsWhole, OneRequestID, Has, Answered
  <1> QED
    BY <1>10, <1>11, <1>12, <1>13, <1>15 DEF ExchangeInv
-----------------------------------------------------------------------------
(* The setup, and the client.                                              *)

\* Nothing is on its way before the server listens.
LEMMA SetupKeeps ==
  ASSUME ExchangeInv, Next_Routing, UNCHANGED <<server, call, wire>>
  PROVE  ExchangeInv'
  <1>1. phase \in {"new", "setup"} /\ phase' \in {"new", "setup", "serving", "panicked"}
    BY DEF Next_Routing, GetRootGroup, NewGroup, StartBare, Listen, SetupPanics, Serve, Start, Use,
           SubGroup, Handle, Building
  <1>2. UNCHANGED <<work, log, call, sent, reply>>
    BY DEF server, wire
  <1>3. call.pc = "idle" /\ sent = <<>> /\ reply = <<>> /\ work.pc = "idle"
    BY <1>1 DEF ExchangeInv, CallInv
  <1>4. RoutingInv'
    BY RoutingStep DEF ExchangeInv
  <1>5. TypeOK'
    BY <1>1, <1>2 DEF ExchangeInv, TypeOK
  <1>6. WorkInv' /\ CallInv' /\ ReplyInv'
    BY <1>2, <1>3 DEF WorkInv, CallInv, ReplyInv
  <1>7. ResultInv'
    BY <1>2, <1>3 DEF ResultInv, BodyIsWhole, OneRequestID, Has, Answered
  <1> QED
    BY <1>4, <1>5, <1>6, <1>7 DEF ExchangeInv

ClientOnly == phase = "serving" /\ UNCHANGED <<routing, server>>

\* The request that Do sends, or redirects.
LEMMA RequestShape ==
  ASSUME NEW q \in Requests(Paths)
  PROVE  q.path \in Paths /\ q.id \in Ids /\ q.origin \in Origins /\ q.method \in Methods
  BY DEF Requests

LEMMA DoKeeps ==
  ASSUME ExchangeInv, Do, ClientOnly
  PROVE  ExchangeInv'
  <1>1. PICK path \in Paths, method \in Methods, body \in Bodies, authorized \in BOOLEAN,
             typeOption \in {"none", "json"}, context \in {"none", "context", "malformed"},
             idOption \in {"none", "option"} :
          /\ sent' = <<[path |-> path, method |-> method,
                        id |-> RequestIDHeader(context, idOption),
                        contentType |-> ContentType(body, typeOption),
                        authorized |-> authorized, origin |-> "base"]>>
          /\ call' = [pc |-> "wait", context |-> context, requests |-> 1, asked |-> Head(sent')]
    BY DEF Do
  <1> DEFINE id == RequestIDHeader(context, idOption)
             type == ContentType(body, typeOption)
             q == [path |-> path, method |-> method, id |-> id, contentType |-> type,
                   authorized |-> authorized, origin |-> "base"]
  <1>2. id \in Ids /\ (context = "context" => id = "context")
    BY DEF RequestIDHeader, Ids
  <1>3. type \in ContentTypes
    BY DEF ContentType, ContentTypes, Bodies
  <1>4. sent' = <<q>>
    BY <1>1
  <1> HIDE DEF id, type
  <1>5. q \in Requests(Paths) /\ q.origin = "base" /\ (context = "context" => q.id = "context")
    BY <1>2, <1>3 DEF Requests, Origins
  <1> HIDE DEF q
  <1>6. /\ sent' # <<>> /\ sent' = <<sent'[1]>> /\ sent'[1] = q
        /\ call'.pc = "wait" /\ call'.context = context /\ call'.asked = q /\ call' \in Waiting
    <2>1. sent' # <<>> /\ sent' = <<sent'[1]>> /\ sent'[1] = q /\ Head(sent') = q
      BY <1>4
    <2>2. call' = [pc |-> "wait", context |-> context, requests |-> 1, asked |-> q]
      BY <1>1, <2>1
    <2>3. 1 \in 1..MaxRedirects
      BY ClientAssumption
    <2> QED
      BY <1>5, <2>1, <2>2, <2>3 DEF Waiting
  <1>7. call.pc = "idle" /\ sent = <<>> /\ reply = <<>> /\ work.pc = "idle" /\ reply' = reply
        /\ UNCHANGED <<work, log, phase>> /\ phase = "serving"
    BY DEF Do, ExchangeInv, CallInv, ClientOnly, server, routing
  <1>8. RoutingInv'
    BY RoutingStep DEF ExchangeInv, ClientOnly
  <1>9. TypeOK'
    BY <1>5, <1>6, <1>7 DEF ExchangeInv, TypeOK
  <1>10. WorkInv' /\ CallInv' /\ ReplyInv'
    BY <1>5, <1>6, <1>7 DEF WorkInv, CallInv, ReplyInv
  <1>11. ResultInv'
    BY <1>6 DEF ResultInv, BodyIsWhole, OneRequestID, Has, Answered
  <1> QED
    BY <1>8, <1>9, <1>10, <1>11 DEF ExchangeInv

\* A redirect that is followed stays on the origin, and keeps the id.
LEMMA FollowKeeps ==
  ASSUME ExchangeInv, reply # <<>>, reply' = <<>>, Follow(Head(reply)), ClientOnly
  PROVE  ExchangeInv'
  <1> DEFINE r == Head(reply)
  <1>1. PICK path \in Paths, policy \in Policies :
          /\ Allowed(r, policy)
          /\ LET method == IF call.asked.method = "HEAD" THEN "HEAD" ELSE "GET"
                 next == [call.asked EXCEPT !.path = path, !.method = method,
                             !.contentType = "none", !.origin = After(policy, r.location)]
             IN  sent' = <<next>> /\ call' = [call EXCEPT !.requests = @ + 1, !.asked = next]
    BY DEF Follow
  <1> DEFINE method == IF call.asked.method = "HEAD" THEN "HEAD" ELSE "GET"
             origin == After(policy, r.location)
             next == [call.asked EXCEPT !.path = path, !.method = method,
                         !.contentType = "none", !.origin = origin]
  <1>2. call.pc = "wait" /\ call \in Waiting
    BY DEF Follow, ExchangeInv, TypeOK
  <1>3. /\ call.asked \in Requests(Paths) /\ call.requests \in 1..MaxRedirects
        /\ call.context \in {"none", "context", "malformed"}
    BY <1>2 DEF Waiting
  <1>4. origin = "base" /\ call.requests < MaxRedirects /\ method \in Methods
        /\ "none" \in ContentTypes /\ "base" \in Origins
    BY <1>1 DEF Allowed, Methods, ContentTypes, Origins
  <1>5. (call.context = "context" => call.asked.id = "context")
    BY <1>2 DEF ExchangeInv, CallInv
  <1>6. sent' = <<next>> /\ call' = [call EXCEPT !.requests = @ + 1, !.asked = next]
    BY <1>1
  <1> HIDE DEF method, origin
  <1>7. next \in Requests(Paths) /\ next.origin = "base"
        /\ (call.context = "context" => next.id = "context")
    BY <1>3, <1>4, <1>5 DEF Requests
  <1> HIDE DEF next
  <1>8. call.requests + 1 \in 1..MaxRedirects
    BY <1>3, <1>4, ClientAssumption
  <1>9. /\ sent' # <<>> /\ sent' = <<sent'[1]>> /\ sent'[1] = next
        /\ call' \in Waiting /\ call'.pc = "wait" /\ call'.context = call.context
        /\ call'.asked = next
    BY <1>2, <1>6, <1>7, <1>8 DEF Waiting
  <1>10. sent = <<>> /\ work.pc = "idle" /\ UNCHANGED <<work, log, phase>> /\ phase = "serving"
    BY DEF ExchangeInv, TypeOK, ClientOnly, server, routing
  <1>11. RoutingInv'
    BY RoutingStep DEF ExchangeInv, ClientOnly
  <1>12. TypeOK'
    BY <1>7, <1>9, <1>10 DEF ExchangeInv, TypeOK
  <1>13. WorkInv' /\ CallInv' /\ ReplyInv'
    BY <1>7, <1>9, <1>10 DEF WorkInv, CallInv, ReplyInv
  <1>14. ResultInv'
    BY <1>9 DEF ResultInv, BodyIsWhole, OneRequestID, Has, Answered
  <1> QED
    BY <1>11, <1>12, <1>13, <1>14 DEF ExchangeInv

\* Do returns without an answer, whatever is still on its way.
LEMMA UnansweredKeeps ==
  ASSUME ExchangeInv, ClientOnly, call.pc \in {"idle", "wait"}, sent' = sent,
         reply' = reply \/ reply' = <<>>,
         call'.pc = "done", call.pc = "wait" => call'.context = call.context,
         call'.result.outcome \in {"invalid", "transport", "redirect"}
  PROVE  ExchangeInv'
  <1>1. UNCHANGED <<work, log, phase, routes>> /\ phase = "serving"
    BY DEF ClientOnly, server, routing
  <1>2. RoutingInv'
    BY RoutingStep DEF ExchangeInv, ClientOnly
  <1>3. TypeOK'
    BY <1>1 DEF ExchangeInv, TypeOK
  <1>4. CallInv' /\ ReplyInv'
    BY <1>1 DEF ExchangeInv, CallInv, ReplyInv
  <1>5. WorkInv'
    <2>1. Chain' = Chain
      BY <1>1 DEF Chain
    <2> QED
      BY <1>1, <2>1 DEF ExchangeInv, CallInv, WorkInv, Named, Passes
  <1>6. ResultInv'
    BY DEF ResultInv, BodyIsWhole, OneRequestID, Has, Answered, Result
  <1> QED
    BY <1>2, <1>3, <1>4, <1>5, <1>6 DEF ExchangeInv
\* What Do reads of a body is all of it, or shows that it is too large.
LEMMA ReadsWhole ==
  ASSUME NEW r, r.body \in Seq(Chunks)
  PROVE  /\ Len(Read(r)) <= MaxBody => Read(r) = r.body /\ Len(r.body) <= MaxBody
         /\ Len(Read(r)) > MaxBody => Len(r.body) > MaxBody
  <1> DEFINE b == r.body
  <1>1. Len(b) \in Nat /\ MaxBody \in Nat /\ \A i \in 1..Len(b) : b[i] \in Chunks
    BY LenProperties, ClientAssumption
  <1>2. SubSeq(b, 1, Len(b)) = b
    BY SubSeqFull
  <1>3. CASE Len(b) <= MaxBody
    BY <1>1, <1>2, <1>3 DEF Read
  <1>4. CASE Len(b) > MaxBody
    <2>1. Read(r) = SubSeq(b, 1, MaxBody + 1)
      BY <1>1, <1>4 DEF Read
    <2>2. \A i \in 1..MaxBody + 1 : b[i] \in Chunks
      BY <1>1, <1>4
    <2> DEFINE k == MaxBody + 1
    <2>3. /\ SubSeq(b, 1, k) \in Seq(Chunks)
          /\ Len(SubSeq(b, 1, k)) = IF 1 <= k THEN k - 1 + 1 ELSE 0
      <3>1. 1 \in Int /\ k \in Int /\ \A i \in 1..k : b[i] \in Chunks
        BY <1>1, <2>2
      <3> HIDE DEF b, k
      <3> QED
        BY <3>1, SubSeqProperties
    <2> QED
      BY <1>1, <1>4, <2>1, <2>3
  <1> QED
    BY <1>1, <1>3, <1>4

\* An answer is what the server said; after it nothing is on its way.
LEMMA ResultKeeps ==
  ASSUME ExchangeInv, ClientOnly, reply # <<>>, reply' = <<>>, sent' = sent,
         call.pc = "wait", call'.pc = "done", call'.context = call.context,
         LET r == Head(reply)
         IN  \/ /\ call'.result.outcome = "tooLarge" /\ Len(Read(r)) > MaxBody
             \/ /\ call'.result.outcome \in {"status", "decode", "ok"}
                /\ call'.result.body = Read(r) /\ call'.result.id = r.id
                /\ Len(Read(r)) <= MaxBody /\ r.whole
  PROVE  ExchangeInv'
  <1> DEFINE r == reply[1]
  <1>1. UNCHANGED <<work, log, phase, routes>> /\ phase = "serving"
    BY DEF ClientOnly, server, routing
  <1>2. Head(reply) = r /\ sent = <<>> /\ work.pc = "idle" /\ work \in Works
    BY DEF ExchangeInv, TypeOK, ReplyInv
  <1>3. /\ r.body = work.body /\ work.body \in Seq(Chunks)
        /\ r.whole /\ work.context # "none" => r.id = work.context
        /\ work.context \in {"none", Given(work.request.id)}
        /\ call.context = "context" => work.request.id = "context"
        /\ log.logged => log.id \in {"none", work.context}
    BY <1>2 DEF ExchangeInv, ReplyInv, Works
  <1>4. RoutingInv' /\ TypeOK' /\ CallInv' /\ ReplyInv' /\ WorkInv'
    <2>1. RoutingInv'
      BY RoutingStep DEF ExchangeInv, ClientOnly
    <2>2. TypeOK'
      BY <1>1, <1>2 DEF ExchangeInv, TypeOK
    <2>3. CallInv' /\ ReplyInv' /\ WorkInv'
      BY <1>1, <1>2 DEF CallInv, ReplyInv, WorkInv
    <2> QED
      BY <2>1, <2>2, <2>3
  <1>5. CASE call'.result.outcome = "tooLarge" /\ Len(Read(r)) > MaxBody
    <2>1. Len(work'.body) > MaxBody /\ ~Answered'
      BY <1>1, <1>3, <1>5, ReadsWhole DEF Answered, Has, Result
    <2>2. ResultInv'
      BY <1>1, <1>2, <2>1 DEF ResultInv, BodyIsWhole, OneRequestID, Has
    <2> QED
      BY <1>4, <2>2 DEF ExchangeInv
  <1>6. CASE /\ call'.result.outcome \in {"status", "decode", "ok"}
             /\ call'.result.body = Read(r) /\ call'.result.id = r.id
             /\ Len(Read(r)) <= MaxBody /\ r.whole
    <2>1. call'.result.body = work.body /\ Len(work.body) <= MaxBody
      BY <1>3, <1>6, ReadsWhole
    <2>2. ~Has({"tooLarge"})'
      BY <1>6 DEF Has, Result
    <2>3. BodyIsWhole'
      BY <1>1, <2>1, <2>2 DEF BodyIsWhole, Result
    <2>4. ValidRequestID(Given(work.request.id)) /\ (work.request.id = "context" =>
             Given(work.request.id) = "context")
      BY DEF ValidRequestID, Given
    <2>5. OneRequestID'
      <3>1. ASSUME work.context # "none"
            PROVE  /\ call'.result.id = work.context /\ ValidRequestID(call'.result.id)
                   /\ call'.context = "context" => call'.result.id = "context"
                   /\ log.logged /\ log.id # "none" => log.id = call'.result.id
        BY <1>3, <1>6, <2>4, <3>1
      <3> QED
        BY <1>1, <3>1 DEF OneRequestID, Result
    <2>6. ResultInv'
      BY <1>1, <1>2, <2>3, <2>5 DEF ResultInv
    <2> QED
      BY <1>4, <2>6 DEF ExchangeInv
  <1> QED
    BY <1>2, <1>5, <1>6

LEMMA ReceiveKeeps ==
  ASSUME ExchangeInv, Receive, ClientOnly
  PROVE  ExchangeInv'
  <1> DEFINE r == Head(reply)
  <1>1. reply # <<>> /\ reply' = <<>>
    BY DEF Receive
  <1>2. CASE Follow(r)
    BY <1>1, <1>2, FollowKeeps
  <1>3. CASE RefuseRedirect(r)
    BY <1>1, <1>3, UnansweredKeeps DEF RefuseRedirect, Return, Returned
  <1>4. CASE ReadFails(r)
    BY <1>1, <1>4, UnansweredKeeps DEF ReadFails, Final, Return, Returned
  <1>5. CASE TooLarge(r)
    BY <1>1, <1>5, ResultKeeps DEF TooLarge, Final, Return, Returned
  <1>6. CASE StatusError(r) \/ DecodeFails(r) \/ Succeed(r)
    <2>1. Received(r) /\ \E outcome, code :
             outcome \in {"status", "decode", "ok"} /\
             call' = [pc |-> "done", context |-> call.context, requests |-> call.requests,
                      result |-> Response(r, outcome, code)]
      BY <1>6 DEF StatusError, DecodeFails, Succeed, Return
    <2>2. PICK outcome, code :
             outcome \in {"status", "decode", "ok"} /\
             call' = [pc |-> "done", context |-> call.context, requests |-> call.requests,
                      result |-> Response(r, outcome, code)]
      BY <2>1
    <2>3. /\ call'.pc = "done" /\ call'.context = call.context
          /\ call'.result.outcome \in {"status", "decode", "ok"}
          /\ call'.result.body = Read(r) /\ call'.result.id = r.id
      BY <2>2 DEF Response
    <2>4. call.pc = "wait" /\ sent' = sent /\ Len(Read(r)) <= MaxBody /\ r.whole
      BY <2>1 DEF Received, Final
    <2> QED
      BY <1>1, <2>3, <2>4, ResultKeeps
  <1> QED
    BY <1>2, <1>3, <1>4, <1>5, <1>6 DEF Receive

LEMMA ClientStepKeeps ==
  ASSUME ExchangeInv, Next_Client, ClientOnly
  PROVE  ExchangeInv'
  <1>1. CASE Invalid
    BY <1>1, UnansweredKeeps DEF Invalid, Returned, wire
  <1>2. CASE TransportFails
    BY <1>2, UnansweredKeeps DEF TransportFails, Return, Returned, wire
  <1> QED
    BY <1>1, <1>2, DoKeeps, ReceiveKeeps DEF Next_Client

LEMMA ExchangeStep ==
  ASSUME ExchangeInv, [Next]_vars
  PROVE  ExchangeInv'
  <1>1. CASE Next_Server /\ UNCHANGED <<routing, call>>
    BY <1>1, AcceptKeeps, UnmatchedKeeps, EnterStepKeeps, HandlerStepKeeps, LeaveStepKeeps,
       FinishKeeps DEF Next_Server, Leave
  <1>2. CASE UNCHANGED vars
    <2>1. UNCHANGED <<routing, work, log, call, sent, reply, phase, routes>>
      BY <1>2 DEF vars, server, wire, routing
    <2>2. RoutingInv'
      BY <2>1, RoutingStep DEF ExchangeInv
    <2>3. Chain' = Chain
      BY <2>1 DEF Chain
    <2>4. WorkInv'
      BY <2>1, <2>3 DEF ExchangeInv, WorkInv, Named, Passes
    <2>5. TypeOK' /\ CallInv' /\ ReplyInv'
      BY <2>1 DEF ExchangeInv, TypeOK, CallInv, ReplyInv
    <2>6. ResultInv'
      BY <2>1 DEF ExchangeInv, ResultInv, BodyIsWhole, OneRequestID, Has, Answered, Result
    <2> QED
      BY <2>2, <2>4, <2>5, <2>6 DEF ExchangeInv
  <1> QED
    BY <1>1, <1>2, SetupKeeps, ClientStepKeeps DEF Next, ClientOnly

LEMMA ExchangeInit ==
  ASSUME Init
  PROVE  ExchangeInv
  <1>1. RoutingInv
    BY RoutingInit DEF Init
  <1> QED
    BY <1>1 DEF Init, Init_Routing, Init_Server, Init_Client, ExchangeInv, TypeOK, WorkInv,
                CallInv, ReplyInv, ResultInv, BodyIsWhole, OneRequestID, Has, Answered

-----------------------------------------------------------------------------
(* The outcome: what the server decides on, sends and logs is one thing.   *)

\* A request is in its chain, or behind it in the handler; Logger's wrapper is there
\* as long as the request is inside of Logger.
Placed(w) ==
    /\ w.depth <= IF w.pc = "leave" THEN Len(Chain) ELSE Len(Chain) + 1
    /\ w.wrapper # 0 =>
          /\ w.wrapper \in 1..Len(Chain) /\ Chain[w.wrapper] = "logger"
          /\ w.wrapper <= w.depth
          /\ w.pc # "leave" => w.wrapper < w.depth
PlaceInv == work.pc # "idle" => Placed(work)

\* The wrapper has recorded the status that was sent, unless it was an implicit one,
\* or 103.
Records(w) ==
    /\ w.implicit => w.status = 200
    /\ w.panics => w.pc = "leave" /\ (w.status # 0 => w.spoiled)
    /\ w.pc = "enter" => w.verdict = NoVerdict /\ w.recorded = 0 /\ w.body = <<>>
    /\ w.pc = "handler" /\ w.verdict = NoVerdict => w.status = 0
    /\ w.wrapper # 0 => IF w.recorded = 0 THEN w.status = 0 \/ w.implicit
                        ELSE w.recorded \in {103, w.status} \/ (w.implicit /\ w.spoiled)

\* The body is the envelope of the verdict, or the application's.
Envelope(w) ==
    IF w.verdict.code = "none" THEN \A i \in 1..Len(w.body) : w.body[i] = "app"
    ELSE w.body = <<w.verdict.code>>

\* What is sent is the verdict, if nothing was said before that cannot be taken back.
Tells(w) ==
    /\ w.status = 0 => w.recorded = 0 /\ w.body = <<>>
    /\ w.panics => w.verdict = NoVerdict
    /\ w.status # 0 => w.verdict.status = w.status
    /\ w.status = 0 => w.verdict \in {NoVerdict, [status |-> 200, code |-> "none"]}
    /\ w.pc = "leave" /\ ~w.panics => w.verdict # NoVerdict
    /\ w.pc # "leave" => w.verdict.code = "none"
    /\ Envelope(w)

\* Logger, once it has logged, is left for good; what it logged is what was sent, or
\* will be.
RecoveryOutside ==
    \E i, j \in DOMAIN Chain : i < j /\ Chain[i] = "recovery" /\ Chain[j] = "logger"
LogInv ==
    /\ log.logged => phase = "serving" /\ log.status # 0
    /\ log.logged /\ work.pc # "idle" =>
          /\ work.pc = "leave" /\ work.wrapper = 0
          /\ \E j \in 1..Len(Chain) : work.depth < j /\ Chain[j] = "logger"
          /\ \/ log.status \in {work.status, 103}
             \/ work.implicit /\ work.spoiled
             \/ work.status = 0 /\ log.status = 200
             \/ RecoveryOutside

\* A whole reply tells the verdict.
ReplyTells ==
    reply # <<>> /\ reply[1].whole /\ ~work.spoiled =>
        reply[1].status = work.verdict.status /\ (work.body = <<>> \/ Envelope(work))

Truthful(w) == Records(w) /\ (~w.spoiled => Tells(w))

OutcomeInv ==
    /\ PlaceInv /\ (work.pc # "idle" => Truthful(work)) /\ LogInv
    /\ ReplyTells /\ AnswerArrives /\ LogTellsTheStatus

-----------------------------------------------------------------------------
\* What the operators of the ResponseWriter do to each field.
Others(w, v) ==
    /\ v \in Works
    /\ v.pc = w.pc /\ v.route = w.route /\ v.depth = w.depth /\ v.panics = w.panics
    /\ v.wrapper = w.wrapper /\ v.spoiled = w.spoiled

\* The status goes through Logger's wrapper.
Wrapped(w) == w.wrapper # 0 /\ w.wrapper < w.depth

LEMMA SendFields ==
  ASSUME NEW w \in Works, NEW s \in Nat
  PROVE  /\ Others(w, Send(w, s)) /\ Send(w, s).recorded = w.recorded
         /\ Send(w, s).status = IF w.status = 0 THEN s ELSE w.status
         /\ Send(w, s).body = w.body /\ Send(w, s).implicit = w.implicit
         /\ Send(w, s).verdict = w.verdict
  BY DEF Others, Send, Works

LEMMA HeaderFields ==
  ASSUME NEW w \in Works, NEW s \in Nat
  PROVE  LET v == WriteHeader(w, s)
         IN  /\ Others(w, v) /\ v.body = w.body /\ v.implicit = w.implicit
             /\ v.verdict = w.verdict
             /\ v.recorded = IF Wrapped(w) /\ w.recorded = 0 THEN s ELSE w.recorded
             /\ v.status = IF w.status # 0 \/ (Wrapped(w) /\ w.recorded # 0) THEN w.status
                           ELSE s
  <1> DEFINE u == [w EXCEPT !.recorded = s]
  <1>1. /\ Others(w, u) /\ u.recorded = s /\ u.status = w.status /\ u.body = w.body
        /\ u.implicit = w.implicit /\ u.verdict = w.verdict
    BY DEF Others, Works
  <1>2. Others(w, w)
    BY DEF Others
  <1> HIDE DEF u
  <1>3. WriteHeader(w, s) = IF Wrapped(w) THEN IF w.recorded # 0 THEN w ELSE Send(u, s)
                            ELSE Send(w, s)
    BY DEF WriteHeader, Wrapped, u
  <1>4. u \in Works
    BY <1>1 DEF Others
  <1>5. Others(w, Send(u, s))
    BY <1>1, <1>4, SendFields DEF Others
  <1> QED
    BY <1>1, <1>2, <1>3, <1>4, <1>5, SendFields

LEMMA WriteFields ==
  ASSUME NEW w \in Works, NEW c \in Chunks
  PROVE  LET v == Write(w, c)
         IN  /\ Others(w, v) /\ v.recorded = w.recorded /\ v.verdict = w.verdict
             /\ v.body = Append(w.body, c) /\ v.implicit = (w.implicit \/ w.status = 0)
             /\ v.status = IF w.status = 0 THEN 200 ELSE w.status
  <1> DEFINE u == Send(w, 200)
             body == Append(u.body, c)
             implicit == u.implicit \/ w.status = 0
  <1>1. /\ u \in Works /\ Others(w, u) /\ u.recorded = w.recorded /\ u.body = w.body
        /\ u.status = (IF w.status = 0 THEN 200 ELSE w.status)
        /\ u.implicit = w.implicit /\ u.verdict = w.verdict
    BY SendFields DEF Others
  <1>2. Write(w, c) = [u EXCEPT !.body = body, !.implicit = implicit]
    BY DEF Write
  <1>3. body \in Seq(Chunks) /\ implicit \in BOOLEAN
    BY <1>1, AppendProperties DEF Works
  <1>4. body = Append(w.body, c) /\ implicit = (w.implicit \/ w.status = 0)
    BY <1>1
  <1> HIDE DEF u, body, implicit
  <1>5. LET v == [u EXCEPT !.body = body, !.implicit = implicit]
        IN  /\ Others(u, v) /\ v.recorded = u.recorded /\ v.status = u.status
            /\ v.verdict = u.verdict /\ v.body = body /\ v.implicit = implicit
    BY <1>1, <1>3 DEF Others, Works
  <1> QED
    BY <1>1, <1>2, <1>4, <1>5 DEF Others

LEMMA DecideFields ==
  ASSUME NEW w \in Works, NEW s \in Nat, NEW c \in Codes \cup {"none"}
  PROVE  LET v == Decide(w, s, c)
         IN  /\ Others(w, v) /\ v.recorded = w.recorded /\ v.status = w.status
             /\ v.body = w.body /\ v.implicit = w.implicit
             /\ v.verdict = IF w.verdict = NoVerdict THEN [status |-> s, code |-> c]
                            ELSE w.verdict
  BY DEF Others, Decide, Works

LEMMA MoveFields ==
  ASSUME NEW w \in Works, w.depth > 0
  PROVE  /\ Back(w).pc = "leave" /\ Back(w).depth = w.depth - 1
         /\ Outward(w).pc = w.pc /\ Outward(w).depth = w.depth - 1
         /\ Inward(w).pc = w.pc /\ Inward(w).depth = w.depth + 1
         /\ \A v \in {Back(w), Outward(w), Inward(w)} :
               /\ v \in Works
               /\ v.panics = w.panics /\ v.wrapper = w.wrapper /\ v.spoiled = w.spoiled
               /\ v.recorded = w.recorded /\ v.status = w.status /\ v.body = w.body
               /\ v.implicit = w.implicit /\ v.verdict = w.verdict /\ v.route = w.route
  <1>1. Back(w) \in Works /\ Outward(w) \in Works /\ Inward(w) \in Works
    BY Moves
  <1> QED
    BY <1>1 DEF Works, Back, Outward, Inward

\* What is said of a request depends on these fields.
Alike(w, v) ==
    /\ v.panics = w.panics /\ v.wrapper = w.wrapper /\ v.spoiled = w.spoiled
    /\ v.recorded = w.recorded /\ v.status = w.status /\ v.body = w.body
    /\ v.implicit = w.implicit /\ v.verdict = w.verdict

LEMMA AlikeTruthful ==
  ASSUME NEW w, NEW v, Alike(w, v), v.pc = w.pc, Truthful(w)
  PROVE  Truthful(v)
  BY DEF Alike, Truthful, Records, Tells, Envelope

\* A response that nothing was decided about before.
Open(w) ==
    /\ w \in Works /\ Truthful(w) /\ w.pc \in {"enter", "handler"}
    /\ w.wrapper # 0 => Wrapped(w)
    /\ w.verdict = NoVerdict /\ w.status = 0

LEMMA HeaderTruthful ==
  ASSUME NEW w, Open(w), NEW s \in Nat \ {0}, NEW v, v.pc \in {"handler", "leave"},
         Alike(Decide(WriteHeader(w, s), s, "none"), v)
  PROVE  Truthful(v)
  <1> DEFINE h == WriteHeader(w, s)
  <1>1. /\ h \in Works /\ Others(w, h) /\ h.body = w.body /\ h.implicit = w.implicit
        /\ h.verdict = NoVerdict
        /\ h.recorded = (IF Wrapped(w) /\ w.recorded = 0 THEN s ELSE w.recorded)
        /\ h.status = (IF Wrapped(w) /\ w.recorded # 0 THEN 0 ELSE s)
    BY HeaderFields DEF Open, Others
  <1>2. /\ v.panics = w.panics /\ v.wrapper = w.wrapper /\ v.spoiled = w.spoiled
        /\ v.recorded = h.recorded /\ v.status = h.status /\ v.body = w.body
        /\ v.implicit = w.implicit /\ v.verdict = [status |-> s, code |-> "none"]
    <2> DEFINE d == Decide(h, s, "none")
    <2> HIDE DEF h
    <2>1. /\ Others(h, d) /\ d.recorded = h.recorded /\ d.status = h.status
          /\ d.body = h.body /\ d.implicit = h.implicit
          /\ d.verdict = [status |-> s, code |-> "none"]
      BY <1>1, DecideFields
    <2>2. Alike(d, v)
      BY DEF h
    <2> HIDE DEF d
    <2> QED
      BY <1>1, <2>1, <2>2 DEF Alike, Others
  <1>3. ~w.panics /\ ~w.implicit
    BY DEF Open, Truthful, Records
  <1>4. v.verdict # NoVerdict /\ v.verdict.status = s /\ v.verdict.code = "none"
    BY <1>2 DEF NoVerdict
  <1> HIDE DEF h
  <1>5. Records(v)
    BY <1>1, <1>2, <1>3, <1>4 DEF Open, Truthful, Records
  <1>6. ASSUME ~v.spoiled
        PROVE  Tells(v)
    <2>1. w.recorded = 0 /\ w.body = <<>>
      BY <1>2, <1>6 DEF Open, Truthful, Tells
    <2>2. v.status = s /\ v.body = <<>>
      BY <1>1, <1>2, <2>1
    <2> QED
      BY <1>2, <1>3, <1>4, <2>2 DEF Tells, Envelope
  <1> QED
    BY <1>5, <1>6 DEF Truthful

\* An envelope, too, of a refusal or of a panic that Recovery ends.
LEMMA JSONTruthful ==
  ASSUME NEW w \in Works, NEW s \in Nat \ {0}, NEW c \in Codes, NEW v,
         v.pc = "leave", Alike(Decide(WriteJSON(w, s, c), s, c), v),
         w.verdict = NoVerdict \/ w.spoiled, ~w.panics,
         w.wrapper # 0 => Wrapped(w), w.implicit => w.status = 200,
         w.status # 0 => w.spoiled,
         ~w.spoiled => w.recorded = 0 /\ w.body = <<>>,
         w.wrapper # 0 => IF w.recorded = 0 THEN w.status = 0 \/ w.implicit
                          ELSE w.recorded \in {103, w.status} \/ (w.implicit /\ w.spoiled)
  PROVE  Truthful(v)
  <1> DEFINE h == WriteHeader(w, s)
             j == Write(h, c)
  <1>1. /\ h \in Works /\ Others(w, h) /\ h.body = w.body /\ h.implicit = w.implicit
        /\ h.verdict = w.verdict
        /\ h.recorded = (IF Wrapped(w) /\ w.recorded = 0 THEN s ELSE w.recorded)
        /\ h.status = (IF w.status # 0 \/ (Wrapped(w) /\ w.recorded # 0) THEN w.status ELSE s)
    BY HeaderFields DEF Others
  <1>2. c \in Chunks /\ c # "none"
    BY DEF Chunks, Codes
  <1> HIDE DEF h
  <1>3. /\ j \in Works /\ Others(h, j) /\ j.recorded = h.recorded /\ j.verdict = h.verdict
        /\ j.body = Append(h.body, c) /\ j.implicit = (h.implicit \/ h.status = 0)
        /\ j.status = IF h.status = 0 THEN 200 ELSE h.status
    BY <1>1, <1>2, WriteFields DEF Others
  <1>4. WriteJSON(w, s, c) = j
    BY DEF WriteJSON, h
  <1> HIDE DEF j
  <1>5. /\ v.panics = w.panics /\ v.wrapper = w.wrapper /\ v.spoiled = w.spoiled
        /\ v.recorded = h.recorded /\ v.status = j.status /\ v.body = Append(w.body, c)
        /\ v.implicit = (w.implicit \/ h.status = 0)
        /\ v.verdict = IF w.verdict = NoVerdict THEN [status |-> s, code |-> c] ELSE w.verdict
    BY <1>1, <1>3, <1>4, DecideFields DEF Alike, Others
  <1>6. Records(v)
    <2>1. w.implicit \in BOOLEAN /\ w.status \in Nat /\ w.recorded \in Nat
      BY DEF Works
    <2>2. v.implicit => v.status = 200
      BY <1>1, <1>3, <1>5, <2>1
    <2>3. v.wrapper # 0 => IF v.recorded = 0 THEN v.status = 0 \/ v.implicit
                           ELSE v.recorded \in {103, v.status} \/ (v.implicit /\ v.spoiled)
      BY <1>1, <1>3, <1>5, <2>1
    <2> QED
      BY <1>5, <2>2, <2>3 DEF Records
  <1>7. ASSUME ~v.spoiled
        PROVE  Tells(v)
    <2>1. w.recorded = 0 /\ w.body = <<>> /\ w.status = 0 /\ w.verdict = NoVerdict
      BY <1>5, <1>7
    <2>2. v.status = s /\ v.body = <<c>> /\ v.verdict = [status |-> s, code |-> c]
      BY <1>1, <1>3, <1>5, <2>1
    <2>3. v.verdict # NoVerdict
      BY <2>2 DEF NoVerdict
    <2> QED
      BY <1>2, <1>5, <2>2, <2>3 DEF Tells, Envelope
  <1> QED
    BY <1>6, <1>7 DEF Truthful

-----------------------------------------------------------------------------
\* While the server works, nothing is said of replies and results.
LEMMA ServingOn ==
  ASSUME ExchangeInv, OutcomeInv, work.pc # "idle", ServerOnly, work'.pc # "idle",
         work'.route = work.route, Placed(work'), Truthful(work'),
         LogInv' \/ (log' = log /\ ~log.logged)
  PROVE  OutcomeInv'
  <1>1. UNCHANGED <<sent, reply, call, phase, routes>> /\ reply = <<>>
    BY DEF ServerOnly, wire, routing, ExchangeInv, WorkInv
  <1>2. Chain' = Chain
    BY <1>1 DEF Chain
  <1>3. PlaceInv'
    BY <1>2 DEF PlaceInv, Placed
  <1>4. Truthful(work)'
    BY DEF Truthful, Records, Tells, Envelope
  <1>5. LogInv'
    BY DEF LogInv
  <1>6. ReplyTells'
    BY <1>1 DEF ReplyTells
  <1>7. ~Answered'
    BY <1>1 DEF ExchangeInv, ResultInv, Answered, Has, Result
  <1> QED
    BY <1>3, <1>4, <1>5, <1>6, <1>7 DEF OutcomeInv, AnswerArrives, LogTellsTheStatus

\* In and before the handler nothing has been logged.
LEMMA InsideOn ==
  ASSUME ExchangeInv, OutcomeInv, work.pc \in {"enter", "handler"}, ServerOnly, log' = log,
         work'.pc # "idle", work'.route = work.route, Placed(work'), Truthful(work')
  PROVE  OutcomeInv'
  <1>1. ~log.logged
    BY DEF ExchangeInv, WorkInv
  <1> QED
    BY <1>1, ServingOn

\* What is known of a request before or in the handler.
LEMMA InsideFacts ==
  ASSUME ExchangeInv, OutcomeInv, work.pc \in {"enter", "handler"}
  PROVE  /\ work \in Works /\ Truthful(work) /\ Placed(work) /\ work.depth > 0
         /\ work.depth \in Nat /\ work.wrapper \in Nat /\ Len(Chain) \in Nat
         /\ work.wrapper # 0 => Wrapped(work)
         /\ work.pc = "enter" \/ work.verdict = NoVerdict => Open(work)
         /\ ~work.panics /\ work.depth \in 1..Len(Chain) + 1
  <1>1. work \in Works /\ Truthful(work) /\ Placed(work) /\ work.depth \in 1..Len(Chain) + 1
    BY DEF ExchangeInv, TypeOK, WorkInv, OutcomeInv, PlaceInv
  <1>2. work.depth \in Nat /\ work.wrapper \in Nat
    BY <1>1 DEF Works
  <1>3. Len(Chain) \in Nat
    <2>1. work.route \in 1..Len(routes) /\ routes \in Seq(Routes)
      BY DEF ExchangeInv, WorkInv, RoutingInv, RouteInv
    <2>2. routes[work.route] \in Routes
      BY <2>1, ElementOfSeq
    <2> QED
      BY <2>2, LenProperties DEF Chain, Routes
  <1>4. work.wrapper # 0 => Wrapped(work)
    BY <1>1 DEF Placed, Wrapped
  <1>5. ~work.panics
    BY <1>1 DEF Truthful, Records
  <1>6. work.pc = "enter" => work.verdict = NoVerdict /\ work.status = 0
    BY <1>1 DEF Truthful, Records, ExchangeInv, WorkInv
  <1>7. work.pc = "handler" /\ work.verdict = NoVerdict => work.status = 0
    BY <1>1 DEF Truthful, Records
  <1>8. work.pc = "enter" \/ work.verdict = NoVerdict => Open(work)
    BY <1>1, <1>4, <1>6, <1>7 DEF Open
  <1> QED
    BY <1>1, <1>2, <1>3, <1>4, <1>5, <1>8

\* The chain is left from here: v is the request, with something decided on.
LEMMA BackPlaced ==
  ASSUME NEW w, NEW v, w \in Works, v \in Works, Placed(w), w.pc \in {"enter", "handler"},
         w.depth > 0, w.depth <= Len(Chain) + 1, Len(Chain) \in Nat,
         v.depth = w.depth, v.wrapper = w.wrapper
  PROVE  /\ Placed(Back(v)) /\ Back(v).pc = "leave" /\ Alike(v, Back(v))
         /\ Back(v).route = v.route
  <1>1. /\ Back(v).pc = "leave" /\ Back(v).depth = w.depth - 1 /\ Alike(v, Back(v))
        /\ Back(v).route = v.route
    BY MoveFields DEF Alike
  <1>2. w.depth \in Nat /\ w.wrapper \in Nat
    BY DEF Works
  <1>3. Back(v).wrapper = w.wrapper
    BY <1>1 DEF Alike
  <1> HIDE DEF Back
  <1>4. Placed(Back(v))
    BY <1>1, <1>2, <1>3 DEF Placed
  <1> QED
    BY <1>1, <1>4

\* An answer is written where the request is.
LEMMA AnswersInPlace ==
  ASSUME NEW w \in Works, NEW s \in Nat, NEW c \in Codes
  PROVE  /\ Others(w, Decide(WriteHeader(w, s), s, "none"))
         /\ Others(w, Decide(WriteJSON(w, s, c), s, c))
  <1> DEFINE h == WriteHeader(w, s)
             j == Write(h, c)
  <1>1. h \in Works /\ Others(w, h)
    BY HeaderFields DEF Others
  <1>2. c \in Chunks
    BY DEF Chunks
  <1>3. j = WriteJSON(w, s, c)
    BY DEF WriteJSON
  <1> HIDE DEF h
  <1>4. j \in Works /\ Others(h, j)
    BY <1>1, <1>2, WriteFields DEF Others
  <1> HIDE DEF j
  <1>5. Others(h, Decide(h, s, "none")) /\ Others(j, Decide(j, s, c))
    BY <1>1, <1>4, DecideFields
  <1>6. Others(w, Decide(h, s, "none")) /\ Others(w, Decide(j, s, c))
    BY <1>1, <1>4, <1>5 DEF Others
  <1> QED
    BY <1>3, <1>6 DEF h

LEMMA EnterStepTells ==
  ASSUME ExchangeInv, OutcomeInv, Enter, UNCHANGED <<routing, call>>
  PROVE  OutcomeInv'
  <1>1. work.pc = "enter" /\ ServerOnly /\ log' = log
    BY DEF Enter, EnterRequestID, EnterLogger, EnterRecovery, EnterCORS, EnterAuth,
           EnterContentType, EnterHandler, Enters, Is, EnterStep, ServerOnly
  <1>2. /\ work \in Works /\ Truthful(work) /\ Placed(work) /\ Open(work) /\ work.depth > 0
        /\ work.depth \in Nat /\ work.wrapper \in Nat /\ Len(Chain) \in Nat
        /\ work.depth <= Len(Chain) + 1 /\ ~work.panics
    BY <1>1, InsideFacts
  <1>3. ASSUME work.depth \in DOMAIN Chain
        PROVE  work.depth <= Len(Chain)
    <2>1. work.route \in 1..Len(routes) /\ routes \in Seq(Routes)
      BY <1>1 DEF ExchangeInv, WorkInv, RoutingInv, RouteInv
    <2>2. routes[work.route] \in Routes
      BY <2>1, ElementOfSeq
    <2>3. Chain \in Seq(Middlewares)
      BY <2>2 DEF Chain, Routes
    <2> QED
      BY <1>3, <2>3, LenProperties
  \* The next is called, with a request that is as truthful.
  <1>4. ASSUME NEW v \in Works, work' = Inward(v), work.depth \in DOMAIN Chain,
               v.pc = "enter", v.route = work.route, v.depth = work.depth, Truthful(v),
               v.wrapper = work.wrapper
                  \/ (v.wrapper = work.depth /\ Chain[work.depth] = "logger")
        PROVE  OutcomeInv'
    <2>1. /\ work'.pc = "enter" /\ work'.depth = work.depth + 1 /\ work'.route = work.route
          /\ work'.wrapper = v.wrapper /\ Alike(v, work')
      BY <1>2, <1>4, MoveFields DEF Alike
    <2>2. Truthful(work')
      BY <1>4, <2>1, AlikeTruthful
    <2>3. Placed(work')
      BY <1>1, <1>2, <1>3, <1>4, <2>1 DEF Placed
    <2> QED
      BY <1>1, <2>1, <2>2, <2>3, InsideOn
  <1>5. ASSUME work' = Inward(work), work.depth \in DOMAIN Chain
        PROVE  OutcomeInv'
    BY <1>1, <1>2, <1>4, <1>5
  \* The request is answered here.
  <1>6. ASSUME NEW s \in {400, 401, 415}, NEW c \in Codes, work' = Refuse(work, s, c)
        PROVE  OutcomeInv'
    <2> DEFINE d == Decide(WriteJSON(work, s, c), s, c)
    <2>1. Others(work, d)
      BY <1>2, AnswersInPlace
    <2>2. d \in Works /\ d.depth = work.depth /\ d.route = work.route /\ d.wrapper = work.wrapper
      BY <2>1 DEF Others
    <2>4. work' = Back(d)
      BY <1>6 DEF Refuse
    <2>5. Alike(d, work') /\ work'.pc = "leave" /\ Placed(work') /\ work'.route = work.route
      <3> HIDE DEF d
      <3> QED
        BY <1>1, <1>2, <2>2, <2>4, BackPlaced
    <2>6. Truthful(work')
      <3>1. work.verdict = NoVerdict /\ work.status = 0 /\ ~work.implicit
            /\ (work.wrapper # 0 => Wrapped(work))
        BY <1>2 DEF Open, Truthful, Records
      <3>2. work.recorded = 0 /\ work.body = <<>>
        BY <1>1, <1>2 DEF Truthful, Records
      <3> QED
        BY <1>2, <2>5, <3>1, <3>2, JSONTruthful
    <2> QED
      BY <1>1, <2>5, <2>6, InsideOn
  <1>7. CASE EnterRequestID
    <2> DEFINE id == Given(work.request.id)
               v == [work EXCEPT !.context = id, !.header = id]
    <2>1. id \in Ids
      BY <1>2 DEF Works, Requests, Given, Ids
    <2>2. v \in Works /\ v.pc = work.pc /\ v.route = work.route /\ v.depth = work.depth
          /\ Alike(work, v) /\ v.wrapper = work.wrapper
      <3> HIDE DEF id
      <3> QED
        BY <1>2, <2>1 DEF Works, Alike
    <2>3. work' = Inward(v) /\ work.depth \in DOMAIN Chain
      BY <1>7 DEF EnterRequestID, EnterStep, Enters, Given
    <2> HIDE DEF v
    <2>4. Truthful(v)
      BY <1>2, <2>2, AlikeTruthful
    <2> QED
      BY <1>1, <1>4, <2>2, <2>3, <2>4
  <1>8. CASE EnterLogger
    <2> DEFINE v == [work EXCEPT !.wrapper = work.depth, !.recorded = 0, !.logId = work.context]
    <2>1. v \in Works /\ v.pc = "enter" /\ v.route = work.route /\ v.depth = work.depth
          /\ v.wrapper = work.depth /\ v.recorded = 0 /\ v.status = work.status
          /\ v.body = work.body /\ v.implicit = work.implicit /\ v.verdict = work.verdict
          /\ v.panics = work.panics /\ v.spoiled = work.spoiled
      BY <1>1, <1>2 DEF Works
    <2>2. (work' = Inward(v) \/ work' = Inward(work)) /\ work.depth \in DOMAIN Chain
          /\ Chain[work.depth] = "logger"
      BY <1>8 DEF EnterLogger, EnterStep, Enters
    <2> HIDE DEF v
    <2>3. Truthful(v)
      BY <1>1, <1>2, <2>1 DEF Open, Truthful, Records, Tells, Envelope
    <2> QED
      BY <1>4, <1>5, <2>1, <2>2, <2>3
  <1>9. CASE EnterRecovery
    BY <1>5, <1>9 DEF EnterRecovery, EnterStep, Enters
  <1>10. CASE EnterCORS
    <2>1. CASE work.request.method = "OPTIONS"
      <3> DEFINE d == Decide(WriteHeader(work, 204), 204, "none")
      <3>1. Others(work, d)
        BY <1>2, AnswersInPlace DEF Codes
      <3>2. d \in Works /\ d.depth = work.depth /\ d.route = work.route /\ d.wrapper = work.wrapper
        BY <3>1 DEF Others
      <3>3. work' = Back(d)
        BY <1>10, <2>1 DEF EnterCORS, EnterStep
      <3>4. Alike(d, work') /\ work'.pc = "leave" /\ Placed(work') /\ work'.route = work.route
        <4> HIDE DEF d
        <4> QED
          BY <1>1, <1>2, <3>2, <3>3, BackPlaced
      <3>5. Truthful(work')
        BY <1>2, <3>4, HeaderTruthful
      <3> QED
        BY <1>1, <3>4, <3>5, InsideOn
    <2>2. CASE work.request.method # "OPTIONS"
      BY <1>5, <1>10, <2>2 DEF EnterCORS, EnterStep, Enters
    <2> QED
      BY <2>1, <2>2
  <1>11. CASE EnterAuth
    <2>1. "UNAUTHORIZED" \in Codes
      BY DEF Codes
    <2>2. CASE Admitted
      BY <1>5, <1>11, <2>2 DEF EnterAuth, EnterStep, Enters
    <2>3. CASE ~Admitted
      BY <1>6, <1>11, <2>1, <2>3 DEF EnterAuth, EnterStep
    <2> QED
      BY <2>2, <2>3
  <1>12. CASE EnterContentType
    <2>1. {"MISSING_CONTENT_TYPE", "UNSUPPORTED_CONTENT_TYPE"} \subseteq Codes
      BY DEF Codes
    <2>2. /\ work.depth \in DOMAIN Chain
          /\ \/ work' = Inward(work)
             \/ work' = Refuse(work, 400, "MISSING_CONTENT_TYPE")
             \/ work' = Refuse(work, 415, "UNSUPPORTED_CONTENT_TYPE")
      BY <1>12 DEF EnterContentType, EnterStep, Enters
    <2> QED
      BY <1>5, <1>6, <2>1, <2>2
  <1>13. CASE EnterHandler
    <2>1. work' = [work EXCEPT !.pc = "handler"] /\ work.depth = Len(Chain) + 1
      BY <1>13 DEF EnterHandler, EnterStep
    <2>2. work'.pc = "handler" /\ work'.depth = work.depth /\ work'.route = work.route
          /\ Alike(work, work')
      BY <1>2, <2>1 DEF Works, Alike
    <2>3. Placed(work')
      BY <1>1, <1>2, <2>2 DEF Placed, Alike
    <2>4. Truthful(work')
      BY <1>1, <1>2, <2>2 DEF Open, Truthful, Records, Tells, Envelope, Alike, NoVerdict
    <2> QED
      BY <1>1, <2>2, <2>3, <2>4, InsideOn
  <1> QED
    BY <1>7, <1>8, <1>9, <1>10, <1>11, <1>12, <1>13 DEF Enter

LEMMA HandlerStepTells ==
  ASSUME ExchangeInv, OutcomeInv, Handler, UNCHANGED <<routing, call>>
  PROVE  OutcomeInv'
  <1>1. work.pc = "handler" /\ ServerOnly /\ log' = log
    <2>1. \E w : Handles(w)
      BY DEF Handler, Inform, Answer, WriteSome, HandlerRefuses, HandlerReturns, HandlerPanics
    <2> QED
      BY <2>1 DEF Handles, Is, ServerOnly
  <1>2. /\ work \in Works /\ Truthful(work) /\ Placed(work) /\ work.depth > 0
        /\ work.depth \in Nat /\ work.wrapper \in Nat /\ Len(Chain) \in Nat
        /\ work.depth <= Len(Chain) + 1 /\ ~work.panics
        /\ (work.wrapper # 0 => Wrapped(work))
        /\ (work.verdict = NoVerdict => Open(work))
    BY <1>1, InsideFacts
  \* The handler goes on, or is back.
  <1>3. ASSUME NEW v, v.pc = work.pc, v.route = work.route, v.depth = work.depth,
               v.wrapper = work.wrapper, work' = v, Truthful(v)
        PROVE  OutcomeInv'
    <2>1. work'.pc = "handler" /\ work'.route = work.route /\ Placed(work')
      BY <1>1, <1>2, <1>3 DEF Placed
    <2> QED
      BY <1>1, <1>3, <2>1, InsideOn
  <1>4. ASSUME NEW v, Others(work, v), work' = Back(v),
               \A u : u.pc = "leave" /\ Alike(v, u) => Truthful(u)
        PROVE  OutcomeInv'
    <2>1. v \in Works /\ v.depth = work.depth /\ v.route = work.route /\ v.wrapper = work.wrapper
      BY <1>4 DEF Others
    <2>2. Alike(v, work') /\ work'.pc = "leave" /\ Placed(work') /\ work'.route = work.route
      BY <1>1, <1>2, <1>4, <2>1, BackPlaced
    <2> QED
      BY <1>1, <1>4, <2>2, InsideOn
  <1>5. {200, 302, 404, 422} \subseteq Nat \ {0} /\ "VALIDATION_FAILED" \in Codes
        /\ "app" \in Chunks /\ "none" \in Codes \cup {"none"}
    BY DEF Codes, Chunks
  <1>6. work.implicit \in BOOLEAN /\ work.status \in Nat /\ work.recorded \in Nat
        /\ work.spoiled \in BOOLEAN
    BY <1>2 DEF Works
  <1>7. CASE Inform
    <2> DEFINE v == [work EXCEPT !.recorded = 103, !.spoiled = TRUE]
    <2>1. work.status = 0 /\ (work' = v \/ work' = work)
      BY <1>7 DEF Inform, Handles
    <2>2. /\ v.pc = work.pc /\ v.route = work.route /\ v.depth = work.depth
          /\ v.wrapper = work.wrapper /\ v.panics = work.panics
          /\ v.recorded = 103 /\ v.spoiled /\ v.status = work.status
          /\ v.implicit = work.implicit /\ v.verdict = work.verdict
      BY <1>2 DEF Works
    <2> HIDE DEF v
    <2>3. Truthful(v)
      BY <1>1, <1>2, <2>1, <2>2 DEF Truthful, Records
    <2> QED
      BY <1>2, <1>3, <2>1, <2>2, <2>3
  <1>8. CASE Answer
    <2> DEFINE Sends(to) == Decide(WriteHeader([work EXCEPT !.location = to], 302), 302, "none")
    <2>1. ASSUME NEW w, Others(work, w), Alike(work, w), NEW s \in {200, 302},
                 work' = Decide(WriteHeader(w, s), s, "none")
          PROVE  OutcomeInv'
      <3> DEFINE d == Decide(WriteHeader(w, s), s, "none")
      <3>1. Open(w)
        <4>1. Open(work)
          BY <1>2, <1>8 DEF Answer
        <4>2. w \in Works /\ w.pc = work.pc /\ w.depth = work.depth
          BY <2>1 DEF Others
        <4> QED
          BY <1>2, <2>1, <4>1, <4>2, AlikeTruthful DEF Open, Alike, Wrapped
      <3>2. Others(w, d)
        BY <1>5, <3>1, AnswersInPlace DEF Open
      <3>3. Others(work, d)
        BY <2>1, <3>2 DEF Others
      <3>4. Truthful(d)
        <4>1. d.pc = "handler" /\ Alike(d, d)
          BY <1>1, <3>3 DEF Others, Alike
        <4> QED
          BY <3>1, <4>1, HeaderTruthful
      <3> HIDE DEF d
      <3>5. work' = d
        BY <2>1 DEF d
      <3> QED
        BY <1>3, <3>3, <3>4, <3>5 DEF Others
    <2>2. CASE work' = Decide(WriteHeader(work, 200), 200, "none")
      <3>1. Others(work, work) /\ Alike(work, work)
        BY <1>2 DEF Others, Alike
      <3> QED
        BY <2>1, <2>2, <3>1
    <2>3. ASSUME NEW to \in Origins, work' = Sends(to)
          PROVE  OutcomeInv'
      <3> DEFINE w == [work EXCEPT !.location = to]
      <3>1. Others(work, w) /\ Alike(work, w)
        BY <1>2 DEF Others, Alike, Works
      <3>2. work' = Decide(WriteHeader(w, 302), 302, "none")
        BY <2>3
      <3> HIDE DEF w
      <3> QED
        BY <2>1, <3>1, <3>2
    <2>4. \/ work' = Decide(WriteHeader(work, 200), 200, "none")
          \/ \E to \in Origins : work' = Sends(to)
      BY <1>8 DEF Answer, Handles
    <2> HIDE DEF Sends
    <2> QED
      BY <2>2, <2>3, <2>4
  <1>9. CASE WriteSome
    <2> DEFINE u == Write(work, "app")
               v == Decide(u, 200, "none")
    <2>1. /\ Others(work, u) /\ u.recorded = work.recorded /\ u.verdict = work.verdict
          /\ u.body = Append(work.body, "app")
          /\ u.implicit = (work.implicit \/ work.status = 0)
          /\ u.status = IF work.status = 0 THEN 200 ELSE work.status
      BY <1>2, <1>5, WriteFields
    <2>2. u \in Works
      BY <2>1 DEF Others
    <2> HIDE DEF u
    <2>3. /\ Others(u, v) /\ v.recorded = u.recorded /\ v.status = u.status
          /\ v.body = u.body /\ v.implicit = u.implicit
          /\ v.verdict = IF u.verdict = NoVerdict THEN [status |-> 200, code |-> "none"]
                         ELSE u.verdict
      BY <1>5, <2>2, DecideFields
    <2>4. work' = v
      BY <1>9 DEF WriteSome, Handles, u
    <2> HIDE DEF v
    <2>5. /\ v.pc = work.pc /\ v.route = work.route /\ v.depth = work.depth
          /\ v.wrapper = work.wrapper /\ v.panics = work.panics /\ v.spoiled = work.spoiled
      BY <2>1, <2>3 DEF Others
    <2>6. v.verdict # NoVerdict
      BY <2>3 DEF NoVerdict
    <2>7. Records(v)
      <3>1. Records(work) /\ v.pc = "handler" /\ ~v.panics
        BY <1>1, <1>2, <2>5 DEF Truthful
      <3>2. /\ v.recorded = work.recorded
            /\ v.implicit = (work.implicit \/ work.status = 0)
            /\ v.status = IF work.status = 0 THEN 200 ELSE work.status
        BY <2>1, <2>3
      <3>3. v.implicit => v.status = 200
        BY <1>6, <3>1, <3>2 DEF Records
      <3>4. v.wrapper # 0 => IF v.recorded = 0 THEN v.status = 0 \/ v.implicit
                             ELSE v.recorded \in {103, v.status} \/ (v.implicit /\ v.spoiled)
        BY <1>6, <2>5, <3>1, <3>2 DEF Records
      <3> QED
        BY <2>6, <3>1, <3>3, <3>4 DEF Records
    <2>8. ASSUME ~v.spoiled
          PROVE  Tells(v)
      <3>1. Tells(work) /\ work.verdict.code = "none"
        BY <1>1, <1>2, <2>5, <2>8 DEF Truthful, Tells
      <3>2. v.verdict.code = "none"
        BY <2>1, <2>3, <3>1
      <3>3. \A i \in 1..Len(v.body) : v.body[i] = "app"
        <4>1. \A i \in 1..Len(work.body) : work.body[i] = "app"
          BY <3>1 DEF Tells, Envelope
        <4>2. work.body \in Seq(Chunks)
          BY <1>2 DEF Works
        <4>3. v.body = Append(work.body, "app")
          BY <2>1, <2>3
        <4> QED
          BY <1>5, <4>1, <4>2, <4>3, AppendProperties, LenProperties
      <3>4. v.status # 0 /\ v.verdict.status = v.status
        BY <1>6, <2>1, <2>3, <3>1 DEF Tells, NoVerdict
      <3> QED
        BY <1>1, <1>2, <2>5, <3>2, <3>3, <3>4 DEF Tells, Envelope
    <2>9. Truthful(v)
      BY <2>7, <2>8 DEF Truthful
    <2> QED
      BY <1>3, <2>4, <2>5, <2>9
  <1>10. CASE HandlerRefuses
    <2>1. Open(work)
      BY <1>2, <1>10 DEF HandlerRefuses
    <2>2. /\ work.verdict = NoVerdict /\ work.status = 0 /\ ~work.implicit
          /\ (~work.spoiled => work.recorded = 0 /\ work.body = <<>>)
          /\ (work.wrapper # 0 /\ work.recorded # 0 => work.recorded = 103)
      BY <2>1 DEF Open, Truthful, Records, Tells
    <2>3. CASE work' = Back(Decide(WriteHeader(work, 404), 404, "none"))
      <3> DEFINE d == Decide(WriteHeader(work, 404), 404, "none")
      <3>1. Others(work, d)
        BY <1>2, <1>5, AnswersInPlace
      <3>2. \A u : u.pc = "leave" /\ Alike(d, u) => Truthful(u)
        BY <1>5, <2>1, HeaderTruthful
      <3>3. work' = Back(d)
        BY <2>3
      <3> HIDE DEF d
      <3> QED
        BY <1>4, <3>1, <3>2, <3>3
    <2>4. CASE work' = Refuse(work, 422, "VALIDATION_FAILED")
      <3> DEFINE c == "VALIDATION_FAILED"
                 d == Decide(WriteJSON(work, 422, c), 422, c)
      <3>1. Others(work, d)
        BY <1>2, <1>5, AnswersInPlace
      <3>2. ASSUME NEW u, u.pc = "leave", Alike(d, u)
            PROVE  Truthful(u)
        BY <1>2, <1>5, <2>2, <3>2, JSONTruthful
      <3>3. work' = Back(d)
        BY <2>4 DEF Refuse
      <3> HIDE DEF d
      <3> QED
        BY <1>4, <3>1, <3>2, <3>3
    <2> QED
      BY <1>10, <2>3, <2>4 DEF HandlerRefuses, Refusals, Handles
  <1>11. CASE HandlerReturns
    <2> DEFINE d == Decide(work, 200, "none")
    <2>1. /\ Others(work, d) /\ d.recorded = work.recorded /\ d.status = work.status
          /\ d.body = work.body /\ d.implicit = work.implicit
          /\ d.verdict = IF work.verdict = NoVerdict THEN [status |-> 200, code |-> "none"]
                         ELSE work.verdict
      BY <1>2, <1>5, DecideFields
    <2>2. work' = Back(d)
      BY <1>11 DEF HandlerReturns, Handles
    <2> HIDE DEF d
    <2>3. d.verdict # NoVerdict
      BY <2>1 DEF NoVerdict
    <2>4. ASSUME NEW u, u.pc = "leave", Alike(d, u)
          PROVE  Truthful(u)
      <3>1. Records(u)
        BY <1>1, <1>2, <2>1, <2>4 DEF Truthful, Records, Alike, Others
      <3>2. ASSUME ~u.spoiled
            PROVE  Tells(u)
        <4>1. Tells(work) /\ ~u.panics
          BY <1>2, <2>1, <2>4, <3>2 DEF Truthful, Alike, Others
        <4>2. CASE work.verdict = NoVerdict
          <5>1. work.status = 0
            BY <1>2, <4>2 DEF Open
          <5>2. /\ u.verdict = [status |-> 200, code |-> "none"] /\ u.status = 0
                /\ u.recorded = 0 /\ u.body = <<>>
            BY <2>1, <2>4, <4>1, <4>2, <5>1 DEF Alike, Tells
          <5> QED
            BY <2>3, <2>4, <4>1, <5>2 DEF Tells, Envelope, NoVerdict
        <4>3. CASE work.verdict # NoVerdict
          <5>1. /\ u.verdict = work.verdict /\ u.status = work.status
                /\ u.recorded = work.recorded /\ u.body = work.body
            BY <2>1, <2>4, <4>3 DEF Alike
          <5> QED
            BY <2>4, <4>1, <4>3, <5>1 DEF Tells, Envelope
        <4> QED
          BY <4>2, <4>3
      <3> QED
        BY <3>1, <3>2 DEF Truthful
    <2> QED
      BY <1>4, <2>1, <2>2, <2>4
  <1>12. CASE HandlerPanics
    <2> DEFINE b == Back(work)
               spoiled == work.spoiled \/ work.status # 0
    <2>1. /\ b \in Works /\ b.pc = "leave" /\ Placed(b) /\ b.route = work.route
          /\ Alike(work, b)
      BY <1>1, <1>2, BackPlaced, Moves
    <2>2. work' = [b EXCEPT !.panics = TRUE, !.verdict = NoVerdict, !.spoiled = spoiled]
      BY <1>12 DEF HandlerPanics, Handles
    <2> HIDE DEF b, spoiled
    <2>3. /\ work'.pc = "leave" /\ work'.depth = b.depth /\ work'.wrapper = b.wrapper
          /\ work'.route = work.route /\ work'.panics /\ work'.verdict = NoVerdict
          /\ work'.spoiled = spoiled /\ work'.recorded = work.recorded
          /\ work'.status = work.status /\ work'.body = work.body
          /\ work'.implicit = work.implicit
      BY <2>1, <2>2 DEF Works, Alike
    <2>4. Placed(work')
      BY <2>1, <2>3 DEF Placed
    <2>5. Records(work')
      BY <1>1, <1>2, <1>6, <2>1, <2>3 DEF Truthful, Records, spoiled, Alike
    <2>6. ASSUME ~work'.spoiled
          PROVE  Tells(work')
      <3>1. ~work.spoiled /\ work.status = 0
        BY <1>6, <2>3, <2>6 DEF spoiled
      <3>2. work.recorded = 0 /\ work.body = <<>>
        BY <1>2, <3>1 DEF Truthful, Tells
      <3> QED
        BY <2>3, <3>1, <3>2 DEF Tells, Envelope, NoVerdict
    <2>7. Truthful(work')
      BY <2>5, <2>6 DEF Truthful
    <2> QED
      BY <1>1, <2>3, <2>4, <2>7, InsideOn
  <1> QED
    BY <1>7, <1>8, <1>9, <1>10, <1>11, <1>12 DEF Handler

LEMMA LeaveStepTells ==
  ASSUME ExchangeInv, OutcomeInv, LeaveLogger \/ Recover \/ LeaveOther,
         UNCHANGED <<routing, call>>
  PROVE  OutcomeInv'
  <1>1. /\ work.pc = "leave" /\ work.depth > 0 /\ work \in Works /\ ServerOnly
        /\ UNCHANGED <<phase, routes>> /\ phase = "serving"
    <2>1. Leaves /\ UNCHANGED wire
      BY DEF LeaveLogger, Recover, LeaveOther
    <2> QED
      BY <2>1 DEF Leaves, Is, ExchangeInv, TypeOK, WorkInv, ServerOnly, routing
  <1>2. /\ Truthful(work) /\ Placed(work) /\ work.depth \in Nat /\ work.wrapper \in Nat
        /\ work.depth \in 1..Len(Chain) /\ Len(Chain) \in Nat
    <2>1. work.route \in 1..Len(routes) /\ routes \in Seq(Routes)
      BY <1>1 DEF ExchangeInv, WorkInv, RoutingInv, RouteInv
    <2>2. routes[work.route] \in Routes
      BY <2>1, ElementOfSeq
    <2>3. Len(Chain) \in Nat
      BY <2>2, LenProperties DEF Chain, Routes
    <2>4. Truthful(work) /\ Placed(work) /\ work.depth \in Nat /\ work.wrapper \in Nat
      BY <1>1 DEF OutcomeInv, PlaceInv, Works
    <2>5. work.depth <= Len(Chain)
      BY <1>1, <2>4 DEF Placed
    <2> QED
      BY <1>1, <2>3, <2>4, <2>5
  \* One middleware is left; v is the request when it is.
  <1>3. ASSUME NEW v \in Works, work' = Outward(v), v.pc = "leave", v.route = work.route,
               v.depth = work.depth, v.wrapper = 0 \/ (v.wrapper = work.wrapper /\
                  work.wrapper # work.depth),
               Truthful(v) \/ \A u : u.pc = "leave" /\ Alike(v, u) => Truthful(u)
        PROVE  /\ work'.pc = "leave" /\ work'.route = work.route /\ Placed(work')
               /\ Alike(v, work') /\ Truthful(work') /\ work'.depth = work.depth - 1
               /\ Chain' = Chain
    <2>1. /\ work'.pc = "leave" /\ work'.depth = work.depth - 1 /\ work'.route = work.route
          /\ Alike(v, work')
      BY <1>1, <1>3, MoveFields DEF Alike
    <2>2. Truthful(work')
      BY <1>3, <2>1, AlikeTruthful
    <2>3. work'.wrapper = v.wrapper
      BY <2>1 DEF Alike
    <2>4. Placed(work')
      BY <1>1, <1>2, <1>3, <2>1, <2>3 DEF Placed
    <2>5. Chain' = Chain
      BY <1>1, <2>1 DEF Chain
    <2> QED
      BY <2>1, <2>2, <2>4, <2>5
  <1>4. CASE LeaveLogger
    <2> DEFINE v == [work EXCEPT !.wrapper = 0]
    <2>1. /\ work' = Outward(v) /\ Chain[work.depth] = "logger" /\ work.wrapper = work.depth
          /\ log'.logged
          /\ log'.status = IF work.recorded = 0 THEN 200 ELSE work.recorded
      BY <1>4 DEF LeaveLogger
    <2>2. /\ v \in Works /\ v.pc = "leave" /\ v.route = work.route /\ v.depth = work.depth
          /\ v.wrapper = 0 /\ v.panics = work.panics /\ v.spoiled = work.spoiled
          /\ v.recorded = work.recorded /\ v.status = work.status /\ v.body = work.body
          /\ v.implicit = work.implicit /\ v.verdict = work.verdict
      BY <1>1 DEF Works
    <2> HIDE DEF v
    <2>3. Truthful(v)
      BY <1>1, <1>2, <2>2 DEF Truthful, Records, Tells, Envelope
    <2>4. /\ work'.pc = "leave" /\ work'.route = work.route /\ Placed(work')
          /\ Alike(v, work') /\ Truthful(work') /\ work'.depth = work.depth - 1
          /\ Chain' = Chain
      BY <1>3, <2>1, <2>2, <2>3
    <2>5. \/ log'.status \in {work'.status, 103}
          \/ work'.implicit /\ work'.spoiled
          \/ work'.status = 0 /\ log'.status = 200
      <3>1. /\ work'.status = work.status /\ work'.implicit = work.implicit
            /\ work'.spoiled = work.spoiled
        BY <2>2, <2>4 DEF Alike
      <3>2. CASE work.recorded = 0
        BY <1>1, <1>2, <2>1, <3>1, <3>2 DEF Truthful, Records
      <3>3. CASE work.recorded # 0
        BY <1>1, <1>2, <2>1, <3>1, <3>3 DEF Truthful, Records
      <3> QED
        BY <3>2, <3>3
    <2>6. work'.wrapper = 0 /\ log'.status # 0
      BY <2>1, <2>2, <2>4 DEF Alike
    <2>7. LogInv'
      BY <1>1, <1>2, <2>1, <2>4, <2>5, <2>6 DEF LogInv
    <2> QED
      BY <1>1, <2>4, <2>7, ServingOn
  <1>5. ASSUME Chain[work.depth] = "recovery", log' = log, log.logged,
               work'.pc = "leave", work'.wrapper = work.wrapper,
               work'.depth = work.depth - 1, Chain' = Chain
        PROVE  LogInv'
    <2>1. PICK j \in 1..Len(Chain) : work.depth < j /\ Chain[j] = "logger"
      BY <1>1, <1>5 DEF OutcomeInv, LogInv
    <2>2. DOMAIN Chain = 1..Len(Chain)
      <3>1. work.route \in 1..Len(routes) /\ routes \in Seq(Routes)
        BY <1>1 DEF ExchangeInv, WorkInv, RoutingInv, RouteInv
      <3>2. routes[work.route] \in Routes
        BY <3>1, ElementOfSeq
      <3> QED
        BY <3>2, LenProperties DEF Chain, Routes
    <2>3. RecoveryOutside'
      BY <1>2, <1>5, <2>1, <2>2 DEF RecoveryOutside
    <2>4. work.wrapper = 0 /\ log.status # 0
      BY <1>1, <1>5 DEF OutcomeInv, LogInv
    <2> QED
      BY <1>1, <1>2, <1>5, <2>1, <2>3, <2>4 DEF LogInv
  <1>6. CASE Recover
    <2> DEFINE c == "INTERNAL_SERVER_ERROR"
               w == [work EXCEPT !.panics = FALSE]
               d == Decide(WriteJSON(w, 500, c), 500, c)
    <2>1. c \in Codes /\ 500 \in Nat \ {0}
      BY DEF Codes
    <2>2. /\ work' = Outward(d) /\ log' = log /\ Chain[work.depth] = "recovery" /\ work.panics
      BY <1>6 DEF Recover
    <2>3. /\ w \in Works /\ w.pc = "leave" /\ w.route = work.route /\ w.depth = work.depth
          /\ w.wrapper = work.wrapper /\ ~w.panics /\ w.spoiled = work.spoiled
          /\ w.recorded = work.recorded /\ w.status = work.status /\ w.body = work.body
          /\ w.implicit = work.implicit /\ w.verdict = work.verdict
      BY <1>1 DEF Works
    <2> HIDE DEF w, c
    <2>4. Others(w, d)
      BY <2>1, <2>3, AnswersInPlace
    <2>5. work.wrapper # work.depth
      BY <1>1, <1>2, <2>2 DEF Placed
    <2>6. w.wrapper # 0 => Wrapped(w)
      BY <1>2, <2>3, <2>5 DEF Placed, Wrapped
    <2>7. /\ w.implicit => w.status = 200
          /\ w.status # 0 => w.spoiled
          /\ w.wrapper # 0 => IF w.recorded = 0 THEN w.status = 0 \/ w.implicit
                              ELSE w.recorded \in {103, w.status} \/ (w.implicit /\ w.spoiled)
      BY <1>2, <2>2, <2>3 DEF Truthful, Records
    <2>8. ~w.spoiled => w.verdict = NoVerdict /\ w.recorded = 0 /\ w.body = <<>>
      BY <1>2, <2>2, <2>3, <2>7 DEF Truthful, Tells
    <2>9. \A u : u.pc = "leave" /\ Alike(d, u) => Truthful(u)
      BY <2>1, <2>3, <2>6, <2>7, <2>8, JSONTruthful
    <2>10. /\ d \in Works /\ d.pc = "leave" /\ d.route = work.route /\ d.depth = work.depth
           /\ d.wrapper = work.wrapper
      BY <2>3, <2>4 DEF Others
    <2> HIDE DEF d
    <2>11. /\ work'.pc = "leave" /\ work'.route = work.route /\ Placed(work')
           /\ Alike(d, work') /\ Truthful(work') /\ work'.depth = work.depth - 1
           /\ Chain' = Chain
      BY <1>3, <2>2, <2>5, <2>9, <2>10
    <2>12. work'.wrapper = work.wrapper
      BY <2>10, <2>11 DEF Alike
    <2>13. log.logged => LogInv'
      BY <1>5, <2>2, <2>11, <2>12
    <2> QED
      BY <1>1, <2>2, <2>11, <2>13, ServingOn
  <1>7. CASE LeaveOther
    <2>1. work' = Outward(work) /\ log' = log
      BY <1>7 DEF LeaveOther
    <2>2. work.wrapper # 0 => work.wrapper # work.depth
      BY <1>2, <1>7 DEF LeaveOther, Placed
    <2>3. /\ work'.pc = "leave" /\ work'.route = work.route /\ Placed(work')
          /\ Alike(work, work') /\ Truthful(work') /\ work'.depth = work.depth - 1
          /\ Chain' = Chain
      BY <1>1, <1>2, <1>3, <2>1, <2>2
    <2>4. log.logged => LogInv'
      BY <1>1, <1>2, <2>1, <2>3 DEF OutcomeInv, LogInv, RecoveryOutside, Alike
    <2> QED
      BY <1>1, <2>1, <2>3, <2>4, ServingOn
  <1> QED
    BY <1>4, <1>6, <1>7

LEMMA AcceptTells ==
  ASSUME ExchangeInv, OutcomeInv, Accept, UNCHANGED <<routing, call>>
  PROVE  OutcomeInv'
  <1>1. ExchangeInv'
    BY AcceptKeeps
  <1>2. work' = Working(Head(sent), Head(sent).path) /\ ~log'.logged /\ reply' = reply
        /\ sent # <<>>
    BY DEF Accept, Arrives
  <1>3. /\ work'.pc = "enter" /\ work'.depth = 1 /\ work'.wrapper = 0 /\ ~work'.panics
        /\ work'.status = 0 /\ work'.recorded = 0 /\ work'.body = <<>> /\ ~work'.implicit
        /\ work'.verdict = NoVerdict
    BY <1>2 DEF Working
  <1>4. Placed(work)' /\ Truthful(work)'
    <2>1. work'.depth <= Len(Chain') + 1
      BY <1>1, <1>3 DEF ExchangeInv, WorkInv
    <2> QED
      BY <1>3, <2>1 DEF Placed, Truthful, Records, Tells, Envelope, NoVerdict
  <1>5. reply' = <<>> /\ ~Answered'
    <2>1. reply' = <<>> /\ call' = call
      BY <1>2 DEF ExchangeInv, TypeOK
    <2>2. ~Answered
      BY <1>2 DEF ExchangeInv, ResultInv, Answered, Has, Result
    <2> QED
      BY <2>1, <2>2 DEF Answered, Has, Result
  <1> QED
    BY <1>2, <1>3, <1>4, <1>5 DEF OutcomeInv, PlaceInv, LogInv, ReplyTells, AnswerArrives,
                                  LogTellsTheStatus

LEMMA UnmatchedTells ==
  ASSUME ExchangeInv, OutcomeInv, Unmatched, UNCHANGED <<routing, call>>
  PROVE  OutcomeInv'
  <1>1. Head(sent) \in Requests(Paths) /\ ~log'.logged /\ sent # <<>>
    BY DEF ExchangeInv, TypeOK, Unmatched, Arrives
  <1> DEFINE q == Head(sent)
             status == IF Known THEN 405 ELSE 404
             body == IF q.method = "HEAD" THEN <<>> ELSE <<"app">>
             w == Working(q, 0)
             v == Decide(w, status, "none")
  <1>2. /\ reply' = <<Reply(status, "none", body, "none", TRUE)>>
        /\ work' = [v EXCEPT !.pc = "idle", !.body = body]
    BY DEF Unmatched
  <1>3. w \in Works /\ w.verdict = NoVerdict
    <2>1. <<>> \in Seq(Chunks) /\ "none" \in Ids
          /\ NoVerdict \in [status : Nat, code : Codes \cup {"none"}]
      BY EmptySeq DEF Ids, NoVerdict
    <2> HIDE DEF q
    <2> QED
      BY <1>1, <2>1 DEF q, Working, Works
  <1>4. status \in Nat /\ "none" \in Codes \cup {"none"}
    OBVIOUS
  <1>5. body = <<>> \/ body = <<"app">>
    OBVIOUS
  <1> HIDE DEF w, status, body, q
  <1>6. v \in Works /\ v.verdict = [status |-> status, code |-> "none"]
    BY <1>3, <1>4, DecideFields DEF Others
  <1> HIDE DEF v
  <1>7. work'.pc = "idle" /\ work'.body = body
        /\ work'.verdict = [status |-> status, code |-> "none"]
    BY <1>2, <1>6 DEF Works
  <1>8. ReplyTells'
    BY <1>2, <1>5, <1>7 DEF ReplyTells, Reply, Envelope
  <1>9. ~Answered'
    <2>1. ~Answered
      BY <1>1 DEF ExchangeInv, ResultInv, Answered, Has, Result
    <2> QED
      BY <2>1 DEF Answered, Has, Result
  <1> QED
    BY <1>1, <1>7, <1>8, <1>9 DEF OutcomeInv, PlaceInv, LogInv, AnswerArrives,
                                  LogTellsTheStatus

LEMMA FinishTells ==
  ASSUME ExchangeInv, OutcomeInv, Finish, UNCHANGED <<routing, call>>
  PROVE  OutcomeInv'
  <1>1. /\ work.pc = "leave" /\ work \in Works /\ UNCHANGED <<log, phase, routes>>
        /\ Truthful(work) /\ LogInv /\ phase = "serving"
    BY DEF Finish, Is, ExchangeInv, TypeOK, WorkInv, OutcomeInv, routing
  <1> DEFINE done == IF work.panics THEN work ELSE Send(work, 200)
             body == IF done.request.method = "HEAD" THEN <<>> ELSE done.body
  <1>2. /\ reply' = <<Reply(done.status, done.id, body, done.location, ~work.panics)>>
        /\ work' = [done EXCEPT !.pc = "idle", !.body = body]
    BY DEF Finish
  <1>3. Others(work, work)
    BY <1>1 DEF Others
  <1>4. Others(work, done) /\ done.verdict = work.verdict /\ done.body = work.body
        /\ done.implicit = work.implicit
        /\ done.status = IF work.panics \/ work.status # 0 THEN work.status ELSE 200
    BY <1>1, <1>3, SendFields
  <1>5. body = <<>> \/ body = done.body
    OBVIOUS
  <1> HIDE DEF done, body
  <1>6. /\ work'.pc = "idle" /\ work'.body = body /\ work'.verdict = work.verdict
        /\ work'.panics = work.panics /\ work'.spoiled = work.spoiled
        /\ work'.implicit = work.implicit /\ work'.route = work.route
        /\ work'.status = IF work.panics \/ work.status # 0 THEN work.status ELSE 200
    BY <1>2, <1>4 DEF Others, Works
  <1>7. reply'[1].whole = ~work.panics /\ reply'[1].status = work'.status
    BY <1>2, <1>4, <1>6 DEF Reply
  <1>8. ReplyTells'
    <2>1. ASSUME ~work.panics, ~work.spoiled
          PROVE  /\ work'.status = work.verdict.status
                 /\ body = <<>> \/ Envelope(work')
      <3>1. Tells(work) /\ work.verdict # NoVerdict
        BY <1>1, <2>1 DEF Truthful, Tells
      <3>2. work'.status = work.verdict.status
        BY <1>6, <2>1, <3>1 DEF Tells
      <3>3. body = <<>> \/ Envelope(work')
        BY <1>4, <1>5, <1>6, <3>1 DEF Tells, Envelope
      <3> QED
        BY <3>2, <3>3
    <2> QED
      BY <1>6, <1>7, <2>1 DEF ReplyTells, Envelope
  <1>9. ~Answered'
    <2>1. ~Answered
      BY <1>1 DEF ExchangeInv, ResultInv, Answered, Has, Result
    <2> QED
      BY <2>1 DEF Answered, Has, Result
  <1>10. LogTellsTheStatus'
    <2>1. Chain' = Chain
      BY <1>1, <1>6 DEF Chain
    <2>2. ASSUME log.logged, ~work.panics
          PROVE  \/ log.status \in {work'.status, 103}
                 \/ work'.implicit /\ work'.spoiled
                 \/ RecoveryOutside
      BY <1>1, <1>6, <2>2 DEF LogInv
    <2> QED
      BY <1>1, <1>6, <2>1, <2>2 DEF LogTellsTheStatus, RecoveryOutside
  <1>11. LogInv'
    BY <1>1, <1>6 DEF LogInv
  <1> QED
    BY <1>6, <1>8, <1>9, <1>10, <1>11 DEF OutcomeInv, PlaceInv, AnswerArrives

-----------------------------------------------------------------------------
\* The client takes what there is.
LEMMA ClientOn ==
  ASSUME OutcomeInv, ClientOnly, reply' = reply \/ reply' = <<>>, AnswerArrives'
  PROVE  OutcomeInv'
  <1>1. UNCHANGED <<work, log, phase, routes>>
    BY DEF ClientOnly, server, routing
  <1>2. Chain' = Chain
    BY <1>1 DEF Chain
  <1>3. PlaceInv' /\ (work'.pc # "idle" => Truthful(work)')
    BY <1>1, <1>2 DEF OutcomeInv, PlaceInv, Placed, Truthful, Records, Tells, Envelope
  <1>4. LogInv' /\ LogTellsTheStatus'
    BY <1>1, <1>2 DEF OutcomeInv, LogInv, LogTellsTheStatus, RecoveryOutside
  <1>5. ReplyTells'
    BY <1>1 DEF OutcomeInv, ReplyTells, Envelope
  <1> QED
    BY <1>3, <1>4, <1>5 DEF OutcomeInv

\* What Do makes of an error body: the code of the envelope that was sent.
LEMMA CodeRead ==
  ASSUME NEW r, NEW w \in Works, r.body = w.body, w.body = <<>> \/ Envelope(w)
  PROVE  ErrorCode(r) = IF w.verdict.code = "none" \/ w.body = <<>> THEN CodeOf(r.status)
                        ELSE w.verdict.code
  <1>1. w.body \in Seq(Chunks) /\ w.verdict.code \in Codes \cup {"none"}
    BY DEF Works
  <1>2. CASE w.body = <<>>
    BY <1>2 DEF ErrorCode
  <1>3. CASE w.verdict.code = "none" /\ w.body # <<>>
    <2>1. ASSUME NEW c \in Codes, w.body = <<c>>
          PROVE  FALSE
      <3>1. Len(w.body) = 1 /\ w.body[1] = c
        BY <2>1
      <3>2. c = "app"
        BY <1>3, <3>1 DEF Envelope
      <3> QED
        BY <3>2 DEF Codes
    <2> QED
      BY <1>3, <2>1 DEF ErrorCode
  <1>4. CASE w.verdict.code # "none" /\ w.body # <<>>
    <2>1. w.body = <<w.verdict.code>> /\ w.verdict.code \in Codes
      BY <1>1, <1>4 DEF Envelope
    <2> QED
      BY <1>4, <2>1 DEF ErrorCode
  <1> QED
    BY <1>2, <1>3, <1>4

LEMMA ClientStepTells ==
  ASSUME ExchangeInv, OutcomeInv, Next_Client, ClientOnly
  PROVE  OutcomeInv'
  <1>1. reply' = reply \/ reply' = <<>>
    BY DEF Next_Client, Invalid, Do, TransportFails, Receive, wire
  <1>2. ASSUME ~Answered'
        PROVE  OutcomeInv'
    BY <1>1, <1>2, ClientOn DEF AnswerArrives
  <1>3. CASE Invalid \/ Do \/ TransportFails
    BY <1>2, <1>3 DEF Invalid, Do, TransportFails, Return, Returned, Answered, Has, Result
  <1>4. CASE Receive
    <2> DEFINE r == Head(reply)
    <2>1. reply # <<>> /\ r = reply[1]
      BY <1>4 DEF Receive, ExchangeInv, TypeOK
    <2>2. CASE Follow(r) \/ RefuseRedirect(r) \/ TooLarge(r) \/ ReadFails(r)
      <3>1. CASE Follow(r)
        <4>1. PICK q : call' = [call EXCEPT !.requests = @ + 1, !.asked = q]
          BY <3>1 DEF Follow
        <4>2. call.pc = "wait" /\ call \in Waiting
          BY <3>1 DEF Follow, ExchangeInv, TypeOK
        <4>3. call'.pc = "wait"
          BY <4>1, <4>2 DEF Waiting
        <4> QED
          BY <1>2, <4>3 DEF Answered, Has
      <3> QED
        BY <1>2, <2>2, <3>1 DEF RefuseRedirect, TooLarge, ReadFails, Return, Returned, Answered,
                                Has, Result
    <2>3. CASE StatusError(r) \/ DecodeFails(r) \/ Succeed(r)
      <3>1. r.whole /\ work \in Works /\ r.body = work.body /\ UNCHANGED work
        BY <2>1, <2>3 DEF StatusError, DecodeFails, Succeed, Received, ExchangeInv, ReplyInv,
                          ClientOnly, server
      <3>2. ~work.spoiled => r.status = work.verdict.status
                             /\ (work.body = <<>> \/ Envelope(work))
        BY <2>1, <3>1 DEF OutcomeInv, ReplyTells
      <3>3. /\ call'.result.status = r.status
            /\ (call'.result.outcome = "status") = ~Success(r.status)
            /\ call'.result.outcome = "status" => call'.result.code = ErrorCode(r)
        BY <2>3 DEF StatusError, DecodeFails, Succeed, Return, Response
      <3>4. ~work.spoiled =>
               ErrorCode(r) = IF work.verdict.code = "none" \/ work.body = <<>>
                              THEN CodeOf(r.status) ELSE work.verdict.code
        BY <3>1, <3>2, CodeRead
      <3>5. AnswerArrives'
        BY <3>1, <3>2, <3>3, <3>4 DEF AnswerArrives, Result
      <3> QED
        BY <1>1, <3>5, ClientOn
    <2> QED
      BY <1>4, <2>2, <2>3 DEF Receive
  <1> QED
    BY <1>3, <1>4 DEF Next_Client

\* Nothing has been served while the routes are being made.
LEMMA SetupTells ==
  ASSUME ExchangeInv, OutcomeInv, Next_Routing, UNCHANGED <<server, call, wire>>
  PROVE  OutcomeInv'
  <1>1. phase \in {"new", "setup"}
    BY DEF Next_Routing, GetRootGroup, NewGroup, StartBare, Listen, SetupPanics, Serve, Start, Use,
           SubGroup, Handle, Building
  <1>2. UNCHANGED <<work, log, call, sent, reply>>
    BY DEF server, wire
  <1>3. call.pc = "idle" /\ reply = <<>> /\ work.pc = "idle" /\ ~log.logged
    BY <1>1 DEF ExchangeInv, CallInv, OutcomeInv, LogInv
  <1> QED
    BY <1>2, <1>3 DEF OutcomeInv, PlaceInv, LogInv, ReplyTells, AnswerArrives,
                      LogTellsTheStatus, Answered, Has

TruthInv == ExchangeInv /\ OutcomeInv

LEMMA TruthStep ==
  ASSUME TruthInv, [Next]_vars
  PROVE  TruthInv'
  <1>1. ExchangeInv /\ OutcomeInv /\ ExchangeInv'
    BY ExchangeStep DEF TruthInv
  <1>2. CASE Next_Server /\ UNCHANGED <<routing, call>>
    BY <1>1, <1>2, AcceptTells, UnmatchedTells, EnterStepTells, HandlerStepTells,
       LeaveStepTells, FinishTells DEF TruthInv, Next_Server, Leave
  <1>3. CASE UNCHANGED vars
    <2>1. UNCHANGED <<work, log, call, reply, phase, routes>>
      BY <1>3 DEF vars, server, wire, routing
    <2>2. Chain' = Chain
      BY <2>1 DEF Chain
    <2>3. PlaceInv' /\ (work'.pc # "idle" => Truthful(work)')
      BY <1>1, <2>1, <2>2 DEF OutcomeInv, PlaceInv, Placed, Truthful, Records, Tells, Envelope
    <2>4. LogInv' /\ LogTellsTheStatus'
      BY <1>1, <2>1, <2>2 DEF OutcomeInv, LogInv, LogTellsTheStatus, RecoveryOutside
    <2>5. ReplyTells' /\ AnswerArrives'
      BY <1>1, <2>1 DEF OutcomeInv, ReplyTells, Envelope, AnswerArrives, Answered, Has, Result
    <2> QED
      BY <1>1, <2>3, <2>4, <2>5 DEF TruthInv, OutcomeInv
  <1> QED
    BY <1>1, <1>2, <1>3, SetupTells, ClientStepTells DEF TruthInv, Next, ClientOnly

LEMMA TruthInit ==
  ASSUME Init
  PROVE  TruthInv
  <1>1. ExchangeInv
    BY ExchangeInit
  <1> QED
    BY <1>1 DEF Init, Init_Routing, Init_Server, Init_Client, TruthInv, OutcomeInv, PlaceInv,
                LogInv, ReplyTells, AnswerArrives, LogTellsTheStatus, Answered, Has

-----------------------------------------------------------------------------
(* What follows.                                                           *)

\* The variables keep their types, and there is one request on its way, or one reply.
THEOREM TypeCorrect == Spec => []TypeOK
  BY ExchangeInit, ExchangeStep, PTL DEF Spec, ExchangeInv

\* A handler runs only behind all that its route was asked to have (group.go:38-78).
THEOREM LayersGuard == Spec => []EveryLayerGuards
  <1>1. ASSUME ExchangeInv
        PROVE  EveryLayerGuards
    <2>1. SUFFICES ASSUME work.pc = "handler"
                   PROVE  LET asked == routes[work.route].wanted
                              Asked(m) == \E i \in DOMAIN asked : asked[i] = m
                          IN  /\ Chain = asked
                              /\ Asked("auth") => work.request.authorized \/ Skipped("auth")
                              /\ Asked("cors") => work.request.method # "OPTIONS"
                              /\ Asked("contentType") =>
                                    \/ work.request.method \in {"GET", "HEAD"}
                                    \/ work.request.contentType = "json"
      BY DEF EveryLayerGuards
    <2>2. /\ work.route \in 1..Len(routes) /\ routes \in Seq(Routes)
          /\ routes[work.route].chain = routes[work.route].wanted
          /\ work.depth = Len(Chain) + 1
          /\ \A i \in 1..work.depth - 1 : Passes(work, Chain[i])
      BY <1>1, <2>1 DEF ExchangeInv, WorkInv, RoutingInv, RouteInv
    <2>3. routes[work.route] \in Routes
      BY <2>2, ElementOfSeq
    <2>4. Chain \in Seq(Middlewares) /\ Chain = routes[work.route].wanted
      BY <2>2, <2>3 DEF Chain, Routes
    <2>5. \A i \in DOMAIN Chain : Passes(work, Chain[i])
      BY <2>2, <2>4, LenProperties
    <2> QED
      BY <2>4, <2>5 DEF Passes, Skipped
  <1> QED
    BY <1>1, ExchangeInit, ExchangeStep, PTL DEF Spec

\* Do asks only the origin of the base URL (client.go:114-147).
THEOREM OriginKept == Spec => []StaysOnOrigin
  <1>1. ASSUME ExchangeInv
        PROVE  StaysOnOrigin
    <2>1. \A i \in DOMAIN sent : sent[i].origin = "base"
      BY <1>1 DEF ExchangeInv, TypeOK, CallInv
    <2>2. call.pc = "wait" => call.requests \in 1..MaxRedirects
      BY <1>1 DEF ExchangeInv, TypeOK, Waiting
    <2> QED
      BY <2>1, <2>2 DEF StaysOnOrigin
  <1> QED
    BY <1>1, ExchangeInit, ExchangeStep, PTL DEF Spec

\* A body that Do returns is complete and within the limit (client.go:574-595).
THEOREM BodiesAreWhole == Spec => []BodyIsWhole
  <1>1. ExchangeInv => BodyIsWhole
    BY DEF ExchangeInv, ResultInv
  <1> QED
    BY <1>1, ExchangeInit, ExchangeStep, PTL DEF Spec

\* One id names the exchange (request_id.go, client.go:353).
THEOREM OneID == Spec => []OneRequestID
  <1>1. ExchangeInv => OneRequestID
    BY DEF ExchangeInv, ResultInv
  <1> QED
    BY <1>1, ExchangeInit, ExchangeStep, PTL DEF Spec

\* What the server decided on is what Do reports: a success as one, a refusal with its
\* status and the code of its envelope (client.go:249, client.go:623, recovery.go:156).
THEOREM AnswersArrive == Spec => []AnswerArrives
  <1>1. TruthInv => AnswerArrives
    BY DEF TruthInv, OutcomeInv
  <1> QED
    BY <1>1, TruthInit, TruthStep, PTL DEF Spec

\* Logger logs the status that the client is sent (logger.go:189).
THEOREM LogIsTrue == Spec => []LogTellsTheStatus
  <1>1. TruthInv => LogTellsTheStatus
    BY DEF TruthInv, OutcomeInv
  <1> QED
    BY <1>1, TruthInit, TruthStep, PTL DEF Spec
=============================================================================
