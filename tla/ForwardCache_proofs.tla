------------------------- MODULE ForwardCache_proofs -------------------------
(***************************************************************************)
(* Theorems about ForwardCache, for any sets of forwarders and keys, any   *)
(* sizes and any number of calls and faults: whatever the shared cache     *)
(* holds, forgets or refuses, a call returns a whole body within its own   *)
(* limit, fails only if its fetch did, and gets nobody else's answer.      *)
(***************************************************************************)
EXTENDS ForwardCache, TLAPS

\* A body that was read to its end, and that a call with this limit may return.
Whole(r, limit) == r.read = r.sent /\ r.read <= limit

\* Only a plain request asks the cache and stores; what it is about to store is the
\* answer to itself.
StorerInv ==
    \A f \in Forwarders :
        /\ pc[f] \in {"get", "store"} => call[f].request = "plain"
        /\ pc[f] = "store" => answer[f].for = "plain" /\ answer[f].key = call[f].key

\* An answer is whole from when it was read, and not only when it is returned.
AnswerInv ==
    \A f \in Forwarders :
        pc[f] \in {"store", "returned"} => Whole(answer[f], call[f].limit)

\* An entry is whole and under its own key; one this code stored is public.
EntryInv ==
    \A k \in Keys :
        cache[k].kind = "entry" =>
            LET r == cache[k].response
            IN  /\ r.key = k /\ r.read = r.sent
                /\ r.for = "foreign" \/ (r.for = "plain" /\ r.public)

ForwardInv ==
    /\ TypeOK /\ StorerInv /\ AnswerInv /\ EntryInv
    /\ CacheIsTransparent /\ NobodyElsesAnswer

\* The bounds and the sets the types are made of.
LEMMA Bounds ==
    /\ MaxSize \in Nat /\ MaxSize > 1
    /\ Limits \subseteq 1..MaxSize
    /\ NoResponse \in Responses /\ NoCall \in Calls
  <1>1. MaxSize \in Nat /\ MaxSize > 1 /\ Keys # {}
    BY ForwardAssumption
  <1>2. NoResponse.key \in Keys /\ 0 \in 0..MaxSize
    BY <1>1 DEF NoResponse
  <1> QED
    BY <1>1, <1>2 DEF Limits, NoResponse, NoCall, Responses, Calls, Requests

\* What the cache holds for a key is nothing, damage or an entry with a response.
LEMMA EntryShape ==
  ASSUME NEW e \in Entries
  PROVE  /\ e.kind \in {"none", "corrupt", "entry"}
         /\ e.kind = "entry" => e.response \in Responses
  BY DEF Entries, None, Corrupt

\* The initial states satisfy the invariant.
LEMMA ForwardInit == Init => ForwardInv
  <1> SUFFICES ASSUME Init PROVE ForwardInv
    OBVIOUS
  <1> USE DEF Init
  <1>1. TypeOK
    BY Bounds, ForwardAssumption DEF TypeOK, Entries
  <1>2. \A k \in Keys : cache[k].kind = "none"
    BY DEF None
  <1> QED
    BY <1>1, <1>2 DEF ForwardInv, StorerInv, AnswerInv, EntryInv,
       CacheIsTransparent, NobodyElsesAnswer

-----------------------------------------------------------------------------
(* A step of a call.                                                       *)

\* What one forwarder does leaves the calls of the others as they are.
LEMMA CallStep ==
  ASSUME ForwardInv, NEW f \in Forwarders, Call(f)
  PROVE  ForwardInv'
  <1> USE DEF ForwardInv, Call, goto
  <1>1. PICK c \in Calls :
          /\ call' = [call EXCEPT ![f] = c]
          /\ pc' = [pc EXCEPT ![f] = IF CacheableRequest(c.request) THEN "get" ELSE "fetch"]
    OBVIOUS
  <1>2. TypeOK'
    BY <1>1, Bounds, ForwardAssumption DEF TypeOK
  <1>3. StorerInv' /\ AnswerInv'
    BY <1>1 DEF TypeOK, StorerInv, AnswerInv, CacheableRequest
  <1>4. EntryInv'
    BY DEF EntryInv
  <1>5. CacheIsTransparent' /\ NobodyElsesAnswer'
    BY <1>1 DEF TypeOK, CacheIsTransparent, NobodyElsesAnswer
  <1> QED
    BY <1>2, <1>3, <1>4, <1>5

\* A hit returns a whole public entry of the call's own key.
LEMMA GetHitStep ==
  ASSUME ForwardInv, NEW f \in Forwarders, GetHit(f)
  PROVE  ForwardInv'
  <1> USE DEF ForwardInv, GetHit, goto
  <1> DEFINE k == call[f].key
             r == cache[k].response
  <1>1. k \in Keys /\ cache[k] \in Entries
    BY DEF TypeOK, Calls
  <1>2. r \in Responses /\ r.key = k /\ r.read = r.sent /\ r.public
        /\ r.read <= call[f].limit /\ r.for \in {"plain", "foreign"}
    BY <1>1, EntryShape DEF Usable, EntryInv
  <1>3. TypeOK'
    BY <1>2 DEF TypeOK
  <1>4. StorerInv' /\ EntryInv'
    BY DEF TypeOK, StorerInv, EntryInv
  <1>5. AnswerInv' /\ CacheIsTransparent'
    BY <1>2 DEF TypeOK, AnswerInv, Whole, CacheIsTransparent
  <1>6. NobodyElsesAnswer'
    BY <1>2 DEF TypeOK, StorerInv, NobodyElsesAnswer
  <1> QED
    BY <1>3, <1>4, <1>5, <1>6

\* An answer of the upstream is taken only if it was read to its end.
LEMMA FetchStep ==
  ASSUME ForwardInv, NEW f \in Forwarders, Fetch(f)
  PROVE  ForwardInv'
  <1> USE DEF ForwardInv, Fetch, goto
  <1> DEFINE c == call[f]
  <1>1. PICK sent \in 0..MaxSize, public \in BOOLEAN :
          LET read == ReadLength(c.limit, sent)
          IN  IF read > c.limit
              THEN /\ broken' = [broken EXCEPT ![f] = TRUE]
                   /\ pc' = [pc EXCEPT ![f] = "failed"]
                   /\ UNCHANGED answer
              ELSE /\ answer' = [answer EXCEPT ![f] =
                          [for |-> c.request, key |-> c.key, public |-> public,
                           sent |-> sent, read |-> read]]
                   /\ pc' = [pc EXCEPT ![f] = IF CacheableRequest(c.request)
                                              THEN "store" ELSE "returned"]
                   /\ UNCHANGED broken
    OBVIOUS
  <1>2. c \in Calls /\ c.request \in Requests /\ c.key \in Keys
        /\ c.limit \in Nat /\ c.limit <= MaxSize /\ ~hit[f]
    BY Bounds DEF TypeOK, Calls, Limits
  <1>3. EntryInv'
    BY DEF EntryInv
  <1>4. CASE ReadLength(c.limit, sent) > c.limit
    <2>1. TypeOK'
      BY <1>1, <1>2, <1>4 DEF TypeOK
    <2>2. StorerInv' /\ AnswerInv'
      BY <1>1, <1>4 DEF TypeOK, StorerInv, AnswerInv
    <2>3. CacheIsTransparent' /\ NobodyElsesAnswer'
      BY <1>1, <1>4 DEF TypeOK, CacheIsTransparent, NobodyElsesAnswer
    <2> QED
      BY <1>3, <2>1, <2>2, <2>3
  <1>5. CASE ~(ReadLength(c.limit, sent) > c.limit)
    <2> DEFINE r == [for |-> c.request, key |-> c.key, public |-> public,
                     sent |-> sent, read |-> sent]
    <2>1. ReadLength(c.limit, sent) = sent /\ sent <= c.limit
      BY <1>2, <1>5 DEF ReadLength
    <2>2. answer' = [answer EXCEPT ![f] = r] /\ r \in Responses
          /\ pc' = [pc EXCEPT ![f] = IF CacheableRequest(c.request)
                                     THEN "store" ELSE "returned"]
          /\ UNCHANGED broken
      BY <1>1, <1>2, <1>5, <2>1 DEF Responses
    <2> HIDE DEF r
    <2>3. r.for = c.request /\ r.key = c.key /\ Whole(r, c.limit)
      BY <2>1 DEF r, Whole
    <2>4. TypeOK'
      BY <1>2, <2>2 DEF TypeOK
    <2>5. StorerInv'
      BY <2>2, <2>3 DEF TypeOK, StorerInv, CacheableRequest
    <2>6. AnswerInv' /\ CacheIsTransparent'
      BY <2>2, <2>3 DEF TypeOK, AnswerInv, Whole, CacheIsTransparent
    <2>7. NobodyElsesAnswer'
      BY <1>2, <2>2 DEF TypeOK, NobodyElsesAnswer
    <2> QED
      BY <1>3, <2>4, <2>5, <2>6, <2>7
  <1> QED
    BY <1>4, <1>5

\* What is stored for others is the public answer to a plain request.
LEMMA StoreStep ==
  ASSUME ForwardInv, NEW f \in Forwarders, Store(f)
  PROVE  ForwardInv'
  <1> USE DEF ForwardInv, Store, goto
  <1> DEFINE k == call[f].key
             r == answer[f]
  <1>1. k \in Keys /\ r \in Responses
    BY DEF TypeOK, Calls
  <1>2. r.for = "plain" /\ r.key = k /\ r.public /\ Whole(r, call[f].limit)
    BY DEF StorerInv, AnswerInv
  <1>3. cache' = [cache EXCEPT ![k] = Entry(r)]
        /\ Entry(r) \in Entries /\ Entry(r).kind = "entry" /\ Entry(r).response = r
    BY <1>1 DEF Entry, Entries
  <1>4. TypeOK'
    BY <1>3 DEF TypeOK
  <1>5. StorerInv' /\ AnswerInv'
    BY DEF TypeOK, StorerInv, AnswerInv
  <1>6. EntryInv'
    BY <1>1, <1>2, <1>3 DEF TypeOK, EntryInv, Whole
  <1>7. CacheIsTransparent'
    BY <1>2 DEF TypeOK, Whole, CacheIsTransparent
  <1>8. NobodyElsesAnswer'
    BY <1>1, <1>2, <1>3 DEF TypeOK, NobodyElsesAnswer
  <1> QED
    BY <1>4, <1>5, <1>6, <1>7, <1>8

\* The other ways a step of a call ends change neither its answer nor the cache.
LEMMA PlainStep ==
  ASSUME ForwardInv, NEW f \in Forwarders,
         GetFails(f) \/ GetMiss(f) \/ FetchFails(f) \/ StoreNothing(f)
  PROVE  ForwardInv'
  <1> USE DEF ForwardInv, GetFails, GetMiss, FetchFails, StoreNothing, goto
  <1>1. TypeOK'
    BY DEF TypeOK
  <1>2. StorerInv' /\ AnswerInv' /\ EntryInv'
    BY DEF TypeOK, StorerInv, AnswerInv, EntryInv
  <1>3. CacheIsTransparent'
    BY DEF TypeOK, AnswerInv, Whole, CacheIsTransparent
  <1>4. NobodyElsesAnswer'
    BY DEF TypeOK, NobodyElsesAnswer
  <1> QED
    BY <1>1, <1>2, <1>3, <1>4

-----------------------------------------------------------------------------
(* A step of the cache.                                                    *)

\* An entry that goes, or is damaged, leaves the others as they are.
LEMMA LoseStep ==
  ASSUME ForwardInv, NEW k \in Keys, NEW e \in {None, Corrupt},
         cache' = [cache EXCEPT ![k] = e], faults' \in 0..MaxFaults,
         UNCHANGED forwarding
  PROVE  ForwardInv'
  <1> USE DEF ForwardInv, forwarding
  <1>1. e \in Entries /\ e.kind # "entry"
    BY DEF Entries, None, Corrupt
  <1>2. TypeOK'
    BY <1>1 DEF TypeOK
  <1>3. StorerInv' /\ AnswerInv' /\ CacheIsTransparent'
    BY DEF StorerInv, AnswerInv, CacheIsTransparent
  <1>4. EntryInv' /\ NobodyElsesAnswer'
    BY <1>1 DEF TypeOK, EntryInv, NobodyElsesAnswer
  <1> QED
    BY <1>2, <1>3, <1>4

\* Another program writes an entry.
LEMMA ForeignStep ==
  ASSUME ForwardInv, NEW k \in Keys, NEW n \in 0..MaxSize, NEW public \in BOOLEAN,
         cache' = [cache EXCEPT ![k] =
             Entry([for |-> "foreign", key |-> k, public |-> public,
                    sent |-> n, read |-> n])],
         faults' \in 0..MaxFaults, UNCHANGED forwarding
  PROVE  ForwardInv'
  <1> USE DEF ForwardInv, forwarding
  <1> DEFINE r == [for |-> "foreign", key |-> k, public |-> public,
                   sent |-> n, read |-> n]
  <1>1. r \in Responses /\ r.for = "foreign" /\ r.key = k /\ r.read = r.sent
    BY DEF Responses
  <1> HIDE DEF r
  <1>2. cache' = [cache EXCEPT ![k] = Entry(r)]
    BY DEF r
  <1>3. Entry(r) \in Entries /\ Entry(r).kind = "entry" /\ Entry(r).response = r
    BY <1>1 DEF Entry, Entries
  <1>4. TypeOK'
    BY <1>2, <1>3 DEF TypeOK
  <1>5. StorerInv' /\ AnswerInv' /\ CacheIsTransparent'
    BY DEF StorerInv, AnswerInv, CacheIsTransparent
  <1>6. \A j \in Keys : cache'[j] = IF j = k THEN Entry(r) ELSE cache[j]
    BY <1>2 DEF TypeOK
  <1>7. EntryInv'
    BY <1>1, <1>3, <1>6 DEF EntryInv
  <1>8. NobodyElsesAnswer'
    BY <1>1, <1>3, <1>6 DEF NobodyElsesAnswer
  <1> QED
    BY <1>4, <1>5, <1>7, <1>8

\* Every step preserves the invariant.
LEMMA ForwardNext == ForwardInv /\ [Next]_vars => ForwardInv'
  <1> SUFFICES ASSUME ForwardInv, [Next]_vars PROVE ForwardInv'
    OBVIOUS
  <1>1. ASSUME NEW f \in Forwarders, Call(f) \/ ForwardStep(f) PROVE ForwardInv'
    BY <1>1, CallStep, GetHitStep, FetchStep, StoreStep, PlainStep DEF ForwardStep
  <1>2. ASSUME NEW k \in Keys, Expire(k) PROVE ForwardInv'
    BY <1>2, LoseStep DEF Expire, ForwardInv, TypeOK
  <1>3. ASSUME NEW k \in Keys, Overwrite(k) PROVE ForwardInv'
    <2>1. faults' \in 0..MaxFaults /\ UNCHANGED forwarding
      BY <1>3, ForwardAssumption DEF Overwrite, ForwardInv, TypeOK
    <2> QED
      BY <1>3, <2>1, LoseStep, ForeignStep DEF Overwrite
  <1>4. CASE UNCHANGED vars
    BY <1>4 DEF vars, forwarding, ForwardInv, TypeOK, StorerInv, AnswerInv,
       EntryInv, CacheIsTransparent, NobodyElsesAnswer
  <1> QED
    BY <1>1, <1>2, <1>3, <1>4 DEF Next, CacheStep

-----------------------------------------------------------------------------
(* The theorems.                                                           *)

\* The inductive invariant holds in every state of the specification.
LEMMA ForwardCorrect == Spec => []ForwardInv
  BY ForwardInit, ForwardNext, PTL DEF Spec

\* ForwardRequest and the cache keep their types, and a hit is never stored again.
THEOREM ForwardTypeCorrect == Spec => []TypeOK
  BY ForwardCorrect, PTL DEF ForwardInv

\* A call of ForwardRequest returns a whole body within the limit of its own
\* configuration, and fails only if its own fetch failed, whatever tryCache finds
\* and storeInCache meets.
THEOREM ForwardIsTransparent == Spec => []CacheIsTransparent
  BY ForwardCorrect, PTL DEF ForwardInv

\* A call that tryCache answers gets the public response to a plain request with its
\* own key, and nothing else of this code's ever gets into the cache.
THEOREM ForwardKeepsAnswersApart == Spec => []NobodyElsesAnswer
  BY ForwardCorrect, PTL DEF ForwardInv
=============================================================================
