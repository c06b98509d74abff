---------------------------- MODULE ForwardCache ----------------------------
(***************************************************************************)
(* Forwarding through a shared cache (prawxxey/forward.go).  Goroutines in *)
(* ForwardRequest share one cache, which may be another process: a read or *)
(* a write of it may fail, an entry may go at any time, be damaged, or be  *)
(* of another program.  Each call has a configuration of its own, so what  *)
(* one call stores another may find with a smaller limit.                  *)
(*                                                                         *)
(* Bodies are lengths.  A request is what isCacheableRequest tells apart;  *)
(* that a response is public is all isCacheableResponse asks of its status *)
(* and headers.  A key stands for what cacheKey makes of the payload.      *)
(***************************************************************************)
EXTENDS Naturals

CONSTANTS
    Forwarders, \* goroutines that call ForwardRequest
    Keys,       \* cache keys
    MaxSize,    \* bound: the longest body, and the largest limit plus one
    MaxCalls,   \* bound: how many calls of ForwardRequest there are
    MaxFaults   \* bound: how often an entry is damaged or written by others

ASSUME ForwardAssumption ==
    /\ Keys # {}
    /\ MaxSize \in Nat \ {0, 1} /\ MaxCalls \in Nat /\ MaxFaults \in Nat

VARIABLES
    pc,     \* program counter of each forwarder
    call,   \* its call: the request, its key and the limit of its body
    answer, \* the response it has in hand
    hit,    \* that response is from the cache
    broken, \* the upstream, or the body it sent, has failed this call
    cache,  \* the entry of each key
    calls,  \* how many calls have begun
    faults  \* how often others have touched an entry

forwarding == <<pc, call, answer, hit, broken, calls>>
vars == <<forwarding, cache, faults>>

\* What of the payload and the configuration keeps a request from the cache: a
\* method other than GET and HEAD, a header that bypasses it, a cookie jar, or
\* no cache at all.
Requests == {"plain", "unsafe", "bypass", "jar", "nocache"}
Limits == 1..(MaxSize - 1)
Calls == [request : Requests, key : Keys, limit : Limits]

\* A response: the request it answered (or "foreign" for an entry this code did
\* not store), whether it is public, the length sent and the length read of it.
Responses == [for : Requests \cup {"foreign"}, key : Keys, public : BOOLEAN,
              sent : 0..MaxSize, read : 0..MaxSize]

None == [kind |-> "none"]      \* no entry
Corrupt == [kind |-> "corrupt"] \* an entry that json.Unmarshal rejects
Entry(r) == [kind |-> "entry", response |-> r]
Entries == {None, Corrupt} \cup [kind : {"entry"}, response : Responses]
NoResponse ==
    [for |-> "foreign", key |-> CHOOSE k \in Keys : TRUE, public |-> FALSE,
     sent |-> 0, read |-> 0]
NoCall == [request |-> "plain", key |-> NoResponse.key, limit |-> 1]

Init ==
    /\ pc = [f \in Forwarders |-> "idle"]
    /\ call = [f \in Forwarders |-> NoCall]
    /\ answer = [f \in Forwarders |-> NoResponse]
    /\ hit = [f \in Forwarders |-> FALSE] /\ broken = [f \in Forwarders |-> FALSE]
    /\ cache = [k \in Keys |-> None]
    /\ calls = 0 /\ faults = 0

goto(f, label) == pc' = [pc EXCEPT ![f] = label]

-----------------------------------------------------------------------------
(* ForwardRequest, run by forwarder f.                                     *)

CacheableRequest(r) == r = "plain"

\* The arguments are valid; isCacheableRequest decides on the way to take.
Call(f) ==
    /\ pc[f] \in {"idle", "returned", "failed"} /\ calls < MaxCalls
    /\ calls' = calls + 1
    /\ \E c \in Calls :
           /\ call' = [call EXCEPT ![f] = c]
           /\ goto(f, IF CacheableRequest(c.request) THEN "get" ELSE "fetch")
    /\ answer' = [answer EXCEPT ![f] = NoResponse]
    /\ hit' = [hit EXCEPT ![f] = FALSE] /\ broken' = [broken EXCEPT ![f] = FALSE]
    /\ UNCHANGED <<cache, faults>>

\* Mutant: the body of a cached response is not held against this call's limit.
Usable_AnySize(f, e) == e.kind = "entry" /\ e.response.public

\* tryCache: the entry can be decoded, and this call would have stored it.
Usable(f, e) ==
    e.kind = "entry" /\ e.response.public /\ e.response.read <= call[f].limit

GetHit(f) ==
    /\ pc[f] = "get" /\ Usable(f, cache[call[f].key])
    /\ answer' = [answer EXCEPT ![f] = cache[call[f].key].response]
    /\ hit' = [hit EXCEPT ![f] = TRUE]
    /\ goto(f, "returned")
    /\ UNCHANGED <<call, broken, cache, calls, faults>>

\* The cache cannot be read: on without it.
GetFails(f) ==
    /\ pc[f] = "get"
    /\ goto(f, "fetch")
    /\ UNCHANGED <<call, answer, hit, broken, cache, calls, faults>>

GetMiss(f) ==
    /\ pc[f] = "get" /\ ~Usable(f, cache[call[f].key])
    /\ goto(f, "fetch")
    /\ UNCHANGED <<call, answer, hit, broken, cache, calls, faults>>

\* io.ReadAll of a LimitReader.
ReadLength(limit, sent) == IF sent <= limit + 1 THEN sent ELSE limit + 1

\* The upstream answers and the body is read; one that is too long is an error.
\* Only a call that asked the cache stores what it gets.
Fetch(f) ==
    /\ pc[f] = "fetch"
    /\ \E sent \in 0..MaxSize, public \in BOOLEAN :
           LET c == call[f]
               read == ReadLength(c.limit, sent)
           IN  IF read > c.limit
               THEN /\ broken' = [broken EXCEPT ![f] = TRUE]
                    /\ goto(f, "failed")
                    /\ UNCHANGED answer
               ELSE /\ answer' = [answer EXCEPT ![f] =
                           [for |-> c.request, key |-> c.key, public |-> public,
                            sent |-> sent, read |-> read]]
                    /\ goto(f, IF CacheableRequest(c.request) THEN "store"
                              ELSE "returned")
                    /\ UNCHANGED broken
    /\ UNCHANGED <<call, hit, cache, calls, faults>>

\* The request cannot be built, the upstream cannot be reached, its body breaks
\* off, or the context is done.
FetchFails(f) ==
    /\ pc[f] = "fetch"
    /\ broken' = [broken EXCEPT ![f] = TRUE]
    /\ goto(f, "failed")
    /\ UNCHANGED <<call, answer, hit, cache, calls, faults>>

\* Mutant: storeInCache does not ask whether the response is public.
Store_Any(f) ==
    /\ pc[f] = "store"
    /\ cache' = [cache EXCEPT ![call[f].key] = Entry(answer[f])]
    /\ goto(f, "returned")
    /\ UNCHANGED <<call, answer, hit, broken, calls, faults>>

\* storeInCache: a public response replaces what the cache has now.
Store(f) ==
    /\ pc[f] = "store" /\ answer[f].public
    /\ cache' = [cache EXCEPT ![call[f].key] = Entry(answer[f])]
    /\ goto(f, "returned")
    /\ UNCHANGED <<call, answer, hit, broken, calls, faults>>

\* The response is not public, or the cache cannot be written.
StoreNothing(f) ==
    /\ pc[f] = "store"
    /\ goto(f, "returned")
    /\ UNCHANGED <<call, answer, hit, broken, cache, calls, faults>>

ForwardStep(f) ==
    \/ GetHit(f) \/ GetFails(f) \/ GetMiss(f) \/ Fetch(f) \/ FetchFails(f)
    \/ Store(f) \/ StoreNothing(f)

-----------------------------------------------------------------------------
(* The cache.                                                              *)

\* The entry is past its TTL, evicted or deleted.
Expire(k) ==
    /\ cache[k] # None
    /\ cache' = [cache EXCEPT ![k] = None]
    /\ UNCHANGED <<forwarding, faults>>

\* The entry is damaged, or another program writes it, with a policy of its own.
Overwrite(k) ==
    /\ faults < MaxFaults
    /\ \/ cache' = [cache EXCEPT ![k] = Corrupt]
       \/ \E n \in 0..MaxSize, public \in BOOLEAN :
              cache' = [cache EXCEPT ![k] =
                  Entry([for |-> "foreign", key |-> k, public |-> public,
                         sent |-> n, read |-> n])]
    /\ faults' = faults + 1
    /\ UNCHANGED forwarding

CacheStep == \E k \in Keys : Expire(k) \/ Overwrite(k)

Next == CacheStep \/ \E f \in Forwarders : Call(f) \/ ForwardStep(f)

Spec == Init /\ [][Next]_vars

-----------------------------------------------------------------------------
(* Properties.                                                             *)

\* Every variable keeps its type, and a hit ends its call: it is not stored again,
\* for another TTL.
TypeOK ==
    /\ pc \in [Forwarders -> {"idle", "get", "fetch", "store", "returned", "failed"}]
    /\ call \in [Forwarders -> Calls]
    /\ answer \in [Forwarders -> Responses]
    /\ hit \in [Forwarders -> BOOLEAN] /\ broken \in [Forwarders -> BOOLEAN]
    /\ \A f \in Forwarders : hit[f] => pc[f] = "returned"
    /\ cache \in [Keys -> Entries]
    /\ calls \in 0..MaxCalls /\ faults \in 0..MaxFaults

\* A cache changes nothing of what a call promises: the body it returns is whole
\* and within its own limit ("Limits response body size", docs/proxy.md), and it
\* fails only if its own fetch failed, whatever the cache holds and does.
CacheIsTransparent ==
    \A f \in Forwarders :
        /\ pc[f] = "returned" => /\ answer[f].read = answer[f].sent
                                 /\ answer[f].read <= call[f].limit
        /\ pc[f] = "failed" => broken[f]

\* A call returns the response to its own request, or a public one that a plain
\* request with the same key was given ("Caches public 2xx GET and HEAD responses
\* only", docs/proxy.md): what a request with credentials, a request through a
\* cookie jar or a private response brings goes to no other call, nor into the
\* cache, which other programs may read.
NobodyElsesAnswer ==
    /\ \A f \in Forwarders :
           pc[f] = "returned" /\ hit[f] =>
               /\ call[f].request = "plain"
               /\ answer[f].key = call[f].key /\ answer[f].public
               /\ answer[f].for \in {"plain", "foreign"}
    /\ \A k \in Keys :
           cache[k].kind = "entry" /\ cache[k].response.for # "foreign" =>
               cache[k].response.for = "plain" /\ cache[k].response.public
=============================================================================
