------------------------ MODULE RequestTimeout_proofs ------------------------
(***************************************************************************)
(* Theorems about RequestTimeout, for a handler that calls its writer any  *)
(* number of times and with Recovery on either side of Timeout: at most    *)
(* one goroutine is inside the wrapped writer, the response has one        *)
(* author, a failure is told, nothing touches the writer below once the    *)
(* middleware has returned, and the chain implements TimedAnswer.          *)
(***************************************************************************)
EXTENDS RequestTimeout, TLAPS

\* The response below was started by this chain, or the connection was taken over.
Started == wire.hijacked \/ wire.by \in {"handler", "server"}

\* A response has an author exactly when it has a status, and no body before that.
WireInv ==
    /\ wire.status = "none" <=> wire.by = "none"
    /\ wire.by = "none" => wire.body = <<>>

\* timedOut and doneCh tell how far the two goroutines are; a method that has passed
\* its check keeps the deadline out until it unlocks.
OrderInv ==
    /\ spc \in {"select", "lock"} => ~timedOut
    /\ spc \in {"check", "status", "body", "unlock"} => timedOut
    /\ spc \in {"returned", "finished"} => timedOut \/ doneCh
    /\ doneCh => hpc = "ended"
    /\ hpc = "emit" => ~timedOut

\* Who may have written so far.
AuthorInv ==
    /\ ~written => wire.map = {"outer"}
    /\ ~written /\ spc # "finished" => ~wire.hijacked /\ wire.by = "none"
    /\ spc \in {"select", "lock"} =>
           wire.by \in {"none", "handler"} /\ wire.status # "timeout"
    /\ spc = "status" => wire.map = {"outer"} /\ ~wire.hijacked /\ wire.by = "none"
    /\ spc = "body" => wire.by = "server"

\* responseWritten is set ahead of the call below that makes it true.
WrittenInv ==
    /\ hpc = "emit" /\ call # "Hijack" => written
    /\ timedOut /\ spc # "check" => written
    /\ written /\ ~(hpc = "emit" /\ call # "Hijack") /\ spc # "status" => Started

\* Recovery does not return before its Write has found the response written, has
\* written it or has found it timed out.
RecoveryInv ==
    /\ frame = "recovery"
    /\ hpc \in {"return", "ended"} \/ (call = "Write" /\ hpc \in {"emit", "unlock"})
    => written \/ timedOut

TimeoutInv ==
    /\ TypeOK /\ WireInv /\ OrderInv /\ AuthorInv /\ WrittenInv /\ RecoveryInv
    /\ OneAuthor /\ FailureIsTold

-----------------------------------------------------------------------------
(* The writer below.                                                       *)

\* WriteHeader changes nothing but the status, its author and the headers sent, and
\* that only for the first one to call it.
LEMMA CommitFacts ==
  ASSUME NEW w \in Wires, NEW src \in Sources, NEW status \in Statuses
  PROVE  LET v == Commit(w, src, status)
         IN  /\ v \in Wires
             /\ v.map = w.map /\ v.body = w.body /\ v.hijacked = w.hijacked
             /\ w.hijacked \/ w.status # "none" => v = w
             /\ ~w.hijacked /\ w.status = "none" =>
                    v.status = status /\ v.by = src /\ v.sent = w.map
  BY DEF Commit, Wires

\* A Write is the implicit WriteHeader, and a chunk of its caller's or none.
LEMMA SendingFacts ==
  ASSUME NEW w \in Wires, NEW src \in {"handler", "server"}, NEW v \in Sending(w, src)
  PROVE  LET u == Commit(w, src, "ok")
         IN  /\ v \in Wires
             /\ v.map = u.map /\ v.status = u.status /\ v.by = u.by
             /\ v.sent = u.sent /\ v.hijacked = u.hijacked
             /\ v.body = u.body \/ (~w.hijacked /\ v.body = Append(u.body, src))
  <1> DEFINE u == Commit(w, src, "ok")
  <1>1. u \in Wires
    BY CommitFacts DEF Sources, Statuses
  <1>2. v = u \/ (~w.hijacked /\ v = [u EXCEPT !.body = Append(@, src)])
    BY DEF Sending
  <1> HIDE DEF u
  <1>3. u.body \in Seq({"handler", "server"})
    BY <1>1 DEF Wires
  <1>4. Append(u.body, src) \in Seq({"handler", "server"})
    BY <1>3
  <1>5. CASE v = u
    BY <1>1, <1>5 DEF u
  <1>6. CASE ~w.hijacked /\ v = [u EXCEPT !.body = Append(@, src)]
    <2>1. v \in Wires /\ v.map = u.map /\ v.status = u.status /\ v.by = u.by
          /\ v.sent = u.sent /\ v.hijacked = u.hijacked /\ v.body = Append(u.body, src)
      BY <1>1, <1>4, <1>6 DEF Wires
    <2> QED
      BY <1>6, <2>1 DEF u
  <1> QED
    BY <1>2, <1>5, <1>6

\* A body of one author's chunks stays one when that author adds another.
LEMMA AppendFacts ==
  ASSUME NEW b \in Seq({"handler", "server"}), NEW src \in {"handler", "server"},
         \A i \in 1..Len(b) : b[i] = src
  PROVE  \A i \in 1..Len(Append(b, src)) : Append(b, src)[i] = src
  OBVIOUS

-----------------------------------------------------------------------------
(* The steps.                                                              *)

\* The initial state satisfies the invariant.
LEMMA TimeoutInit == Init => TimeoutInv
  <1> SUFFICES ASSUME Init PROVE TimeoutInv
    OBVIOUS
  <1> USE DEF Init
  <1>1. wire \in Wires /\ Len(wire.body) = 0
    BY DEF Wires, HeaderNames, Statuses, Sources
  <1>2. calls \in 0..MaxCalls
    BY TimeoutAssumption
  <1>3. TypeOK
    BY <1>1, <1>2 DEF TypeOK, HeaderNames
  <1> QED
    BY <1>1, <1>3 DEF TimeoutInv, WireInv, OrderInv, AuthorInv, WrittenInv, RecoveryInv,
       OneAuthor, FailureIsTold

\* Steps of the handler that leave the writer below and responseWritten alone.
LEMMA HandlerSilent ==
  ASSUME TimeoutInv,
         \/ SetHeader \/ DeleteHeader \/ (\E m \in Methods : Call(m))
         \/ Lock \/ Unlock \/ Panic \/ Finish \/ Return
  PROVE  TimeoutInv'
  <1> USE DEF TimeoutInv, SetHeader, DeleteHeader, Call, Lock, Unlock, Panic, Finish,
         Return, Running, Shared, Handler
  <1>1. calls' \in 0..MaxCalls
    BY TimeoutAssumption DEF TypeOK
  <1>2. TypeOK'
    <2> USE DEF TypeOK
    <2>1. header' \subseteq HeaderNames /\ ctxDone' \in BOOLEAN /\ doneCh' \in BOOLEAN
      BY DEF HeaderNames
    <2>2. call' \in Methods \cup {"none"} /\ frame' \in {"handler", "recovery"}
      OBVIOUS
    <2>3. hpc' \in {"code", "lock", "check", "emit", "unlock", "return", "ended", "crashed"}
      OBVIOUS
    <2>4. /\ mu' \in {"free", "handler", "server"}
          /\ mu' = "handler" <=> hpc' \in {"check", "emit", "unlock"}
          /\ mu' = "server" <=> spc' \in {"check", "status", "body", "unlock"}
      OBVIOUS
    <2>5. /\ written' \in BOOLEAN /\ timedOut' \in BOOLEAN /\ wire' \in Wires
          /\ spc' \in {"select", "lock", "check", "status", "body", "unlock",
                       "returned", "finished"}
      OBVIOUS
    <2> QED
      BY <1>1, <2>1, <2>2, <2>3, <2>4, <2>5
  <1>3. WireInv' /\ AuthorInv' /\ OneAuthor'
    BY DEF WireInv, AuthorInv, OneAuthor
  <1>4. OrderInv'
    BY DEF OrderInv
  <1>5. WrittenInv'
    BY DEF WrittenInv, Started
  <1>6. RecoveryInv'
    BY DEF TypeOK, Methods, RecoveryInv
  <1>7. FailureIsTold'
    BY DEF OrderInv, FailureIsTold
  <1> QED
    BY <1>2, <1>3, <1>4, <1>5, <1>6, <1>7

\* The check of a method: the headers below become the handler's before anything was
\* sent, while the deadline is kept out.
LEMMA CheckStep ==
  ASSUME TimeoutInv, Check
  PROVE  TimeoutInv'
  <1> USE DEF TimeoutInv, Check, CommitOwnHeaders, Running
  <1>1. hpc = "check" /\ mu = "handler" /\ wire \in Wires /\ header \subseteq HeaderNames
        /\ spc \notin {"check", "status", "body", "unlock"}
    BY DEF TypeOK
  <1>2. \/ UNCHANGED wire
        \/ wire' = [wire EXCEPT !.map = header] /\ written' /\ hpc' = "emit"
    OBVIOUS
  <1>3. /\ wire' \in Wires
        /\ wire'.status = wire.status /\ wire'.by = wire.by /\ wire'.sent = wire.sent
        /\ wire'.body = wire.body /\ wire'.hijacked = wire.hijacked
    BY <1>1, <1>2 DEF Wires
  <1>4. TypeOK'
    BY <1>1, <1>3 DEF TypeOK
  <1>5. WireInv' /\ OneAuthor'
    BY <1>3 DEF WireInv, OneAuthor
  <1>6. OrderInv'
    BY <1>1 DEF OrderInv
  <1>7. AuthorInv'
    BY <1>1, <1>2, <1>3 DEF TypeOK, AuthorInv
  <1>8. WrittenInv'
    BY <1>1, <1>3 DEF TypeOK, OrderInv, WrittenInv, Started
  <1>9. RecoveryInv'
    BY <1>1 DEF RecoveryInv
  <1>10. FailureIsTold'
    BY <1>1, <1>3 DEF OrderInv, FailureIsTold
  <1> QED
    BY <1>4, <1>5, <1>6, <1>7, <1>8, <1>9, <1>10

\* What a step of the handler's to the writer below may do: start the response, add
\* to one the handler has started, or take over the connection.
LEMMA EmitFacts ==
  ASSUME TimeoutInv, Emit
  PROVE  /\ spc \in {"select", "lock"} /\ ~timedOut
         /\ wire' \in Wires
         /\ WireInv' /\ OneAuthor'
         /\ wire'.map = wire.map /\ (wire.hijacked => wire'.hijacked)
         /\ wire'.by \in {"none", "handler"} /\ wire'.status # "timeout"
         /\ wire.by = "handler" => wire'.by = "handler"
         /\ call # "Hijack" => written' = written /\ Started'
         /\ call = "Hijack" =>
                \/ UNCHANGED <<wire, written>>
                \/ written' /\ Started'
  <1> USE DEF TimeoutInv, Emit, Running
  <1>1. hpc = "emit" /\ mu = "handler" /\ wire \in Wires /\ call \in Methods
        /\ frame \in {"handler", "recovery"}
    BY DEF TypeOK, Methods
  <1>2. spc \in {"select", "lock"} /\ ~timedOut
    BY <1>1 DEF TypeOK, OrderInv
  <1>3. wire.by \in {"none", "handler"} /\ wire.status # "timeout"
        /\ wire.body \in Seq({"handler", "server"})
    BY <1>1, <1>2 DEF AuthorInv, Wires
  <1>4. CASE call \in {"WriteHeader", "Flush"}
    <2>1. PICK status \in {"ok", "error"} : wire' = Commit(wire, "handler", status)
      BY <1>1, <1>4
    <2>2. /\ wire' \in Wires
          /\ wire'.map = wire.map /\ wire'.body = wire.body
          /\ wire'.hijacked = wire.hijacked
          /\ wire.hijacked \/ wire.status # "none" => wire' = wire
          /\ ~wire.hijacked /\ wire.status = "none" =>
                 wire'.status = status /\ wire'.by = "handler" /\ wire'.sent = wire.map
      BY <1>1, <2>1, CommitFacts DEF Sources, Statuses
    <2>3. WireInv' /\ OneAuthor'
      BY <1>3, <2>2 DEF WireInv, OneAuthor
    <2> QED
      BY <1>2, <1>3, <1>4, <2>2, <2>3 DEF WireInv, Started
  <1>5. CASE call = "Write"
    <2> DEFINE u == Commit(wire, "handler", "ok")
    <2>1. wire' \in Sending(wire, "handler") /\ UNCHANGED written
      BY <1>5
    <2>2. /\ u \in Wires
          /\ u.map = wire.map /\ u.body = wire.body /\ u.hijacked = wire.hijacked
          /\ wire.hijacked \/ wire.status # "none" => u = wire
          /\ ~wire.hijacked /\ wire.status = "none" =>
                 u.status = "ok" /\ u.by = "handler" /\ u.sent = wire.map
      BY <1>1, CommitFacts DEF Sources, Statuses
    <2>3. /\ wire' \in Wires
          /\ wire'.map = u.map /\ wire'.status = u.status /\ wire'.by = u.by
          /\ wire'.sent = u.sent /\ wire'.hijacked = u.hijacked
          /\ wire'.body = u.body \/ (~wire.hijacked /\ wire'.body = Append(u.body, "handler"))
      BY <1>1, <2>1, SendingFacts
    <2> HIDE DEF u
    <2>4. wire.hijacked \/ u.by = "handler"
      BY <1>3, <2>2 DEF WireInv
    <2>5. \A i \in 1..Len(u.body) : u.body[i] = u.by
      BY <1>3, <2>2 DEF WireInv, OneAuthor
    <2>6. WireInv'
      BY <1>3, <2>2, <2>3, <2>4 DEF WireInv
    <2>7. OneAuthor'
      BY <1>3, <2>2, <2>3, <2>4, <2>5, AppendFacts DEF OneAuthor
    <2> QED
      BY <1>2, <1>3, <1>5, <2>1, <2>2, <2>3, <2>4, <2>6, <2>7 DEF Started
  <1>6. CASE call = "Hijack"
    <2>1. \/ UNCHANGED <<wire, written>>
          \/ wire' = [wire EXCEPT !.hijacked = TRUE] /\ written'
      BY <1>6
    <2>2. /\ wire' \in Wires /\ wire'.map = wire.map /\ wire'.status = wire.status
          /\ wire'.by = wire.by /\ wire'.sent = wire.sent /\ wire'.body = wire.body
          /\ UNCHANGED <<wire, written>> \/ (wire'.hijacked /\ written')
      BY <1>1, <2>1 DEF Wires
    <2>3. WireInv' /\ OneAuthor'
      BY <2>2 DEF WireInv, OneAuthor
    <2> QED
      BY <1>2, <1>3, <1>6, <2>2, <2>3 DEF Started
  <1> QED
    BY <1>1, <1>4, <1>5, <1>6 DEF Methods

\* The call below by a method of the wrapped writer.
LEMMA EmitStep ==
  ASSUME TimeoutInv, Emit
  PROVE  TimeoutInv'
  <1>1. hpc = "emit" /\ written \in BOOLEAN /\ mu = "handler"
        /\ (call # "Hijack" => written)
    BY DEF TimeoutInv, TypeOK, WrittenInv, Emit
  <1>2. /\ hpc' = "unlock"
        /\ UNCHANGED <<mu, timedOut, header, ctxDone, doneCh, call, calls, frame, spc>>
    BY DEF Emit
  <1>3. written' \in BOOLEAN
    BY <1>1 DEF Emit
  <1>4. TypeOK'
    BY <1>1, <1>2, <1>3, EmitFacts DEF TimeoutInv, TypeOK
  <1>5. WireInv' /\ OneAuthor'
    BY EmitFacts
  <1>6. OrderInv'
    BY <1>1, <1>2, EmitFacts DEF TimeoutInv, OrderInv
  <1>7. written' \/ UNCHANGED <<wire, written>>
    BY <1>1, EmitFacts
  <1>8. AuthorInv'
    BY <1>2, <1>7, EmitFacts DEF TimeoutInv, AuthorInv
  <1>9. Started' \/ UNCHANGED <<wire, written>>
    BY EmitFacts
  <1>10. written' => Started'
    <2>1. CASE Started'
      BY <2>1
    <2>2. CASE UNCHANGED <<wire, written>> /\ call = "Hijack"
      BY <1>1, <2>2, EmitFacts DEF TimeoutInv, WrittenInv, Started
    <2>3. CASE call # "Hijack"
      BY <2>3, EmitFacts
    <2> QED
      BY <1>9, <2>1, <2>2, <2>3
  <1>11. WrittenInv'
    BY <1>2, <1>10, EmitFacts DEF WrittenInv
  <1>12. RecoveryInv'
    BY <1>1, <1>2, <1>7 DEF TimeoutInv, RecoveryInv
  <1>13. FailureIsTold'
    BY <1>2, EmitFacts DEF FailureIsTold
  <1> QED
    BY <1>4, <1>5, <1>6, <1>8, <1>11, <1>12, <1>13 DEF TimeoutInv

\* Steps of the request's goroutine that leave the response alone.
LEMMA ServerSilent ==
  ASSUME TimeoutInv,
         ContextDone \/ SelectDone \/ SelectTimeout \/ TimeoutLock \/ TimeoutUnlock
  PROVE  TimeoutInv'
  <1> USE DEF TimeoutInv, ContextDone, SelectDone, SelectTimeout, TimeoutLock,
         TimeoutUnlock, Running, Shared, Handler
  <1>1. TypeOK'
    BY DEF TypeOK
  <1>2. WireInv' /\ OneAuthor'
    BY DEF WireInv, OneAuthor
  <1>3. AuthorInv'
    BY DEF AuthorInv
  <1>4. OrderInv'
    BY DEF TypeOK, OrderInv
  <1>5. WrittenInv'
    BY DEF TypeOK, WrittenInv, Started
  <1>6. RecoveryInv' /\ FailureIsTold'
    BY DEF RecoveryInv, FailureIsTold, OrderInv, TypeOK
  <1> QED
    BY <1>1, <1>2, <1>3, <1>4, <1>5, <1>6

\* The middleware finds the response untouched, or leaves it.
LEMMA TimeoutCheckStep ==
  ASSUME TimeoutInv, TimeoutCheck
  PROVE  TimeoutInv'
  <1> USE DEF TimeoutInv, TimeoutCheck, Running, Handler
  <1>1. spc = "check" /\ timedOut /\ hpc \notin {"check", "emit", "unlock"}
    BY DEF TypeOK, OrderInv
  <1>2. TypeOK'
    BY <1>1 DEF TypeOK
  <1>3. WireInv' /\ OneAuthor' /\ FailureIsTold'
    BY DEF WireInv, OneAuthor, FailureIsTold
  <1>4. AuthorInv' /\ OrderInv'
    BY <1>1 DEF AuthorInv, OrderInv
  <1>5. WrittenInv' /\ RecoveryInv'
    BY <1>1 DEF WrittenInv, RecoveryInv, Started
  <1> QED
    BY <1>2, <1>3, <1>4, <1>5

\* The 504 is the first response, and carries none of the handler's headers.
LEMMA TimeoutStatusStep ==
  ASSUME TimeoutInv, TimeoutStatus
  PROVE  TimeoutInv'
  <1> USE DEF TimeoutInv, TimeoutStatus, Running, Handler, Shared
  <1> DEFINE w == [wire EXCEPT !.map = @ \cup {"error"}]
  <1>1. spc = "status" /\ timedOut /\ hpc \notin {"check", "emit", "unlock"}
        /\ wire \in Wires
    BY DEF TypeOK, OrderInv
  <1>2. wire.map = {"outer"} /\ ~wire.hijacked /\ wire.by = "none"
        /\ wire.status = "none" /\ wire.body = <<>>
    BY <1>1 DEF AuthorInv, WireInv
  <1>3. w \in Wires /\ w.map = {"outer", "error"} /\ ~w.hijacked /\ w.status = "none"
        /\ w.body = <<>>
    BY <1>1, <1>2 DEF Wires, HeaderNames
  <1>4. wire' = Commit(w, "server", "timeout") /\ spc' = "body"
        /\ UNCHANGED <<Shared, header, ctxDone, doneCh, Handler>>
    OBVIOUS
  <1> HIDE DEF w, TimeoutStatus
  <1>5. wire' \in Wires /\ wire'.status = "timeout" /\ wire'.by = "server"
        /\ wire'.sent = {"outer", "error"} /\ wire'.body = <<>>
    <2>1. "server" \in Sources /\ "timeout" \in Statuses
      BY DEF Sources, Statuses
    <2> QED
      BY <1>3, <1>4, <2>1, CommitFacts
  <1>6. TypeOK'
    BY <1>1, <1>4, <1>5 DEF TypeOK
  <1>7. WireInv' /\ OneAuthor'
    <2>1. Len(wire'.body) = 0
      BY <1>5
    <2> QED
      BY <1>5, <2>1 DEF WireInv, OneAuthor
  <1>8. AuthorInv' /\ OrderInv'
    BY <1>1, <1>4, <1>5 DEF AuthorInv, OrderInv, WrittenInv
  <1>9. WrittenInv' /\ RecoveryInv' /\ FailureIsTold'
    BY <1>1, <1>4, <1>5 DEF WrittenInv, RecoveryInv, Started, FailureIsTold
  <1> QED
    BY <1>6, <1>7, <1>8, <1>9

\* The body of the 504 follows its status.
LEMMA TimeoutBodyStep ==
  ASSUME TimeoutInv, TimeoutBody
  PROVE  TimeoutInv'
  <1> USE DEF TimeoutInv, TimeoutBody, Running, Handler, Shared
  <1> DEFINE u == Commit(wire, "server", "ok")
  <1>1. spc = "body" /\ timedOut /\ hpc \notin {"check", "emit", "unlock"}
        /\ wire \in Wires /\ wire.body \in Seq({"handler", "server"})
    BY DEF TypeOK, OrderInv, Wires
  <1>2. wire.by = "server" /\ wire.status # "none"
    BY <1>1 DEF AuthorInv, WireInv
  <1>3. u = wire
    BY <1>2 DEF Commit
  <1> HIDE DEF u
  <1>4. /\ wire' \in Wires
        /\ wire'.map = wire.map /\ wire'.status = wire.status /\ wire'.by = "server"
        /\ wire'.sent = wire.sent /\ wire'.hijacked = wire.hijacked
        /\ wire'.body = wire.body \/ wire'.body = Append(wire.body, "server")
    BY <1>1, <1>2, <1>3, SendingFacts DEF u
  <1>5. TypeOK'
    BY <1>1, <1>4 DEF TypeOK
  <1>6. WireInv'
    BY <1>2, <1>4 DEF WireInv
  <1>7. OneAuthor'
    <2>1. \A i \in 1..Len(wire.body) : wire.body[i] = "server"
      BY <1>2 DEF OneAuthor
    <2>2. \A i \in 1..Len(wire'.body) : wire'.body[i] = "server"
      <3>1. CASE wire'.body = wire.body
        BY <2>1, <3>1
      <3>2. CASE wire'.body = Append(wire.body, "server")
        BY <1>1, <2>1, <3>2, AppendFacts
      <3> QED
        BY <1>4, <3>1, <3>2
    <2> QED
      BY <1>4, <2>2 DEF OneAuthor
  <1>8. AuthorInv' /\ OrderInv'
    BY <1>1, <1>4 DEF AuthorInv, OrderInv, WrittenInv
  <1>9. WrittenInv' /\ RecoveryInv' /\ FailureIsTold'
    BY <1>1, <1>4 DEF WrittenInv, RecoveryInv, Started, FailureIsTold
  <1> QED
    BY <1>5, <1>6, <1>7, <1>8, <1>9

\* net/http makes up a response only where there is none, and then nothing had failed.
LEMMA EndRequestStep ==
  ASSUME TimeoutInv, EndRequest
  PROVE  TimeoutInv'
  <1> USE DEF TimeoutInv, EndRequest, Running, Handler, Shared
  <1>1. spc = "returned" /\ wire \in Wires /\ (timedOut \/ hpc = "ended") /\ hpc # "emit"
    BY DEF TypeOK, OrderInv
  <1>2. /\ wire' \in Wires
        /\ wire'.map = wire.map /\ wire'.body = wire.body
        /\ wire'.hijacked = wire.hijacked
        /\ wire.hijacked \/ wire.status # "none" => wire' = wire
        /\ ~wire.hijacked /\ wire.status = "none" =>
               wire'.status = "ok" /\ wire'.by = "net/http" /\ wire'.sent = wire.map
    BY <1>1, CommitFacts DEF Sources, Statuses
  <1>3. Started => Started'
    BY <1>2 DEF WireInv, Started
  <1>4. TypeOK'
    BY <1>1, <1>2 DEF TypeOK
  <1>5. WireInv' /\ OneAuthor'
    BY <1>2 DEF WireInv, OneAuthor
  <1>6. AuthorInv' /\ OrderInv'
    BY <1>1, <1>2 DEF AuthorInv, OrderInv
  <1>7. WrittenInv' /\ RecoveryInv'
    BY <1>1, <1>3 DEF WrittenInv, RecoveryInv
  <1>8. timedOut \/ frame = "recovery" => written
    BY <1>1 DEF WrittenInv, RecoveryInv
  <1>9. FailureIsTold'
    BY <1>1, <1>3, <1>8 DEF WrittenInv, Started, FailureIsTold
  <1> QED
    BY <1>4, <1>5, <1>6, <1>7, <1>9

\* Every step preserves the invariant.
LEMMA TimeoutNext == TimeoutInv /\ [Next]_vars => TimeoutInv'
  <1> SUFFICES ASSUME TimeoutInv, [Next]_vars PROVE TimeoutInv'
    OBVIOUS
  <1>1. CASE HandlerStep
    BY <1>1, HandlerSilent, CheckStep, EmitStep DEF HandlerStep
  <1>2. CASE ContextDone \/ ServerStep
    BY <1>2, ServerSilent, TimeoutCheckStep, TimeoutStatusStep, TimeoutBodyStep,
       EndRequestStep DEF ServerStep
  <1>3. CASE UNCHANGED vars
    BY <1>3 DEF vars, Shared, Handler, TimeoutInv, TypeOK, WireInv, OrderInv, AuthorInv,
       WrittenInv, RecoveryInv, Started, OneAuthor, FailureIsTold
  <1> QED
    BY <1>1, <1>2, <1>3 DEF Next

-----------------------------------------------------------------------------
(* The theorems.                                                           *)

\* The inductive invariant holds in every state of the specification.
LEMMA TimeoutCorrect == Spec => []TimeoutInv
  BY TimeoutInit, TimeoutNext, PTL DEF Spec

\* The mutex of the wrapped writer is held by exactly the goroutine between its Lock
\* and its Unlock, and every field keeps its type.
THEOREM TimeoutTypeCorrect == Spec => []TypeOK
  BY TimeoutCorrect, PTL DEF TimeoutInv

\* Every response is the handler's or writeTimeoutResponse's from its status to its
\* last chunk, however many calls the handler makes of its writer.
THEOREM ResponseHasOneAuthor == Spec => []OneAuthor
  BY TimeoutCorrect, PTL DEF TimeoutInv

\* A request that timed out, and one whose panic Recovery caught inside Timeout, does
\* not end with the empty 200 of net/http.
THEOREM FailuresAreTold == Spec => []FailureIsTold
  BY TimeoutCorrect, PTL DEF TimeoutInv

\* The handler that runs on after serveWithTimeout has returned never reaches the
\* writer below again.
THEOREM HandlerIsQuietAfterReturn == Spec => QuietAfterReturn
  <1>1. TimeoutInv /\ [Next]_vars =>
            [(spc \in {"returned", "finished"} /\ wire' # wire) => (spc' # spc)]_vars
    <2> SUFFICES ASSUME TimeoutInv, Next, spc \in {"returned", "finished"}, wire' # wire
                 PROVE  spc' # spc
      OBVIOUS
    <2>1. timedOut \/ hpc = "ended"
      BY DEF TimeoutInv, OrderInv
    <2>2. hpc # "emit" /\ (hpc = "check" => timedOut)
      BY <2>1 DEF TimeoutInv, OrderInv
    <2>3. ~HandlerStep /\ ~ContextDone
      BY <2>2 DEF HandlerStep, ContextDone, SetHeader, DeleteHeader, Call, Lock, Check,
         Emit, Unlock, Panic, Finish, Return
    <2> QED
      BY <2>3 DEF Next, ServerStep, SelectDone, SelectTimeout, TimeoutLock, TimeoutCheck,
         TimeoutStatus, TimeoutBody, TimeoutUnlock, EndRequest
  <1> QED
    BY TimeoutCorrect, <1>1, PTL DEF Spec, QuietAfterReturn
-----------------------------------------------------------------------------
(* The chain implements the abstract answer.                               *)

\* A step of the abstract answer, or none.
AnswerStep == [Answer!AnswerNext]_Answer!answerVars

\* The initial states of the chain are initial states of the answer.
LEMMA AnswerStart == Init => Answer!AnswerInit
  <1> SUFFICES ASSUME Init PROVE Answer!AnswerInit
    OBVIOUS
  <1>1. wire.by = "none" /\ Len(wire.body) = 0 /\ wire.hijacked = FALSE
    BY DEF Init
  <1> QED
    BY <1>1 DEF Init, Answer!AnswerInit

\* A step that leaves the writer below alone, and neither sets the deadline nor ends
\* the request nor begins a recovery, is no step of the answer.
LEMMA AnswerStutter ==
  ASSUME UNCHANGED <<wire, timedOut, frame>>, (spc' = "finished") = (spc = "finished")
  PROVE  AnswerStep
  BY DEF AnswerStep, Answer!answerVars, Answer!answer

\* The methods of the wrapped writer up to their check, and the handler's own steps:
\* only a panic that Recovery catches is seen, and when the request has ended without
\* a deadline there is no handler left to panic.
LEMMA AnswerSilent ==
  ASSUME TimeoutInv,
         \/ SetHeader \/ DeleteHeader \/ (\E m \in Methods : Call(m))
         \/ Lock \/ Unlock \/ Panic \/ Finish \/ Return
  PROVE  AnswerStep
  <1> USE DEF SetHeader, DeleteHeader, Call, Lock, Unlock, Finish, Return, Shared, Handler
  <1>1. CASE Panic /\ frame' # frame
    <2>1. frame' = "recovery" /\ hpc = "code" /\ UNCHANGED <<wire, timedOut, spc>>
      BY <1>1 DEF Panic, Shared
    <2>2. spc = "finished" => timedOut
      BY <2>1 DEF TimeoutInv, OrderInv
    <2>3. Answer!BreakDown
      BY <2>1, <2>2 DEF Answer!BreakDown, Answer!answer
    <2> QED
      BY <2>3 DEF AnswerStep, Answer!AnswerNext
  <1>2. CASE Panic /\ frame' = frame
    BY <1>2, AnswerStutter DEF Panic
  <1>3. CASE ~Panic
    BY <1>3, AnswerStutter
  <1> QED
    BY <1>1, <1>2, <1>3

\* The headers a check commits are not seen before they are sent.
LEMMA AnswerCheck ==
  ASSUME TimeoutInv, Check
  PROVE  AnswerStep
  <1>1. wire \in Wires /\ UNCHANGED <<timedOut, frame, spc>>
    BY DEF TimeoutInv, TypeOK, Check
  <1>2. UNCHANGED wire \/ wire' = [wire EXCEPT !.map = header]
    BY DEF Check, CommitOwnHeaders
  <1>3. wire'.by = wire.by /\ wire'.body = wire.body /\ wire'.hijacked = wire.hijacked
    BY <1>1, <1>2 DEF Wires
  <1> QED
    BY <1>1, <1>3 DEF AnswerStep, Answer!answerVars, Answer!answer

\* The first WriteHeader begins an answer without a chunk, a later one does nothing.
LEMMA AnswerCommit ==
  ASSUME TimeoutInv, NEW src \in {"handler", "server"}, NEW status \in Statuses,
         NEW STATE w, w \in Wires,
         w.status = wire.status, w.by = wire.by, w.body = wire.body,
         w.hijacked = wire.hijacked,
         wire' = Commit(w, src, status),
         src = (IF timedOut THEN "server" ELSE "handler"), spc # "finished",
         UNCHANGED <<timedOut, frame>>, spc' # "finished"
  PROVE  AnswerStep
  <1>1. /\ wire'.body = wire.body /\ wire'.hijacked = wire.hijacked
        /\ w.hijacked \/ w.status # "none" => wire' = w
        /\ ~w.hijacked /\ w.status = "none" => wire'.by = src
    <2> DEFINE v == Commit(w, src, status)
    <2>1. src \in Sources
      BY DEF Sources
    <2>2. /\ v.body = w.body /\ v.hijacked = w.hijacked
          /\ w.hijacked \/ w.status # "none" => v = w
          /\ ~w.hijacked /\ w.status = "none" => v.by = src
      BY <2>1, CommitFacts
    <2> HIDE DEF v
    <2> QED
      BY <2>2 DEF v
  <1>2. CASE w.hijacked \/ w.status # "none"
    <2>1. wire'.by = wire.by
      BY <1>1, <1>2
    <2> QED
      BY <1>1, <2>1 DEF AnswerStep, Answer!answerVars, Answer!answer
  <1>3. CASE ~w.hijacked /\ w.status = "none"
    <2>1. wire.by = "none" /\ wire.body = <<>>
      BY <1>3 DEF TimeoutInv, WireInv
    <2>2. Len(wire'.body) = 0
      BY <1>1, <2>1
    <2>3. Answer!MayWrite(src)
      BY <1>3 DEF Answer!MayWrite
    <2>4. Answer!Begin(src)
      BY <1>1, <1>3, <2>1, <2>2, <2>3 DEF Answer!Begin
    <2> QED
      BY <2>4 DEF AnswerStep, Answer!AnswerNext
  <1> QED
    BY <1>2, <1>3

\* A Write begins an answer, with a chunk or none, or adds one to the writer's own.
LEMMA AnswerWrite ==
  ASSUME TimeoutInv, NEW src \in {"handler", "server"},
         wire' \in Sending(wire, src), wire.by \in {"none", src},
         src = (IF timedOut THEN "server" ELSE "handler"), spc # "finished",
         UNCHANGED <<timedOut, frame>>, spc' # "finished"
  PROVE  AnswerStep
  <1> DEFINE u == Commit(wire, src, "ok")
  <1>1. wire \in Wires
    BY DEF TimeoutInv, TypeOK
  <1>2. /\ u \in Wires
        /\ u.body = wire.body /\ u.hijacked = wire.hijacked
        /\ wire.hijacked \/ wire.status # "none" => u = wire
        /\ ~wire.hijacked /\ wire.status = "none" => u.by = src
    BY <1>1, CommitFacts DEF Sources, Statuses
  <1>3. /\ wire'.by = u.by /\ wire'.hijacked = u.hijacked
        /\ wire'.body = u.body \/ (~wire.hijacked /\ wire'.body = Append(u.body, src))
    BY <1>1, SendingFacts
  <1> HIDE DEF u
  <1>4. wire.body \in Seq({"handler", "server"})
    BY <1>1 DEF Wires
  <1>5. /\ Len(wire'.body) \in {Len(wire.body), Len(wire.body) + 1}
        /\ wire.hijacked => Len(wire'.body) = Len(wire.body)
    BY <1>2, <1>3, <1>4
  <1>6. wire'.hijacked = wire.hijacked
    BY <1>2, <1>3
  <1>7. CASE wire.hijacked \/ (wire.status # "none" /\ Len(wire'.body) = Len(wire.body))
    <2>1. wire'.by = wire.by /\ Len(wire'.body) = Len(wire.body)
      BY <1>2, <1>3, <1>5, <1>7
    <2> QED
      BY <1>6, <2>1 DEF AnswerStep, Answer!answerVars, Answer!answer
  <1>8. CASE ~wire.hijacked /\ wire.status # "none" /\ Len(wire'.body) = Len(wire.body) + 1
    <2>1. wire.by = src /\ wire'.by = wire.by
      BY <1>2, <1>3, <1>8 DEF TimeoutInv, WireInv
    <2>2. Answer!MayWrite(src)
      BY <1>8 DEF Answer!MayWrite
    <2>3. Answer!Continue(src)
      BY <1>6, <1>8, <2>1, <2>2 DEF Answer!Continue
    <2> QED
      BY <2>3 DEF AnswerStep, Answer!AnswerNext
  <1>9. CASE ~wire.hijacked /\ wire.status = "none"
    <2>1. wire.by = "none" /\ Len(wire.body) = 0
      BY <1>9 DEF TimeoutInv, WireInv
    <2>2. wire'.by = src /\ Len(wire'.body) \in {0, 1}
      BY <1>2, <1>3, <1>5, <1>9, <2>1
    <2>3. Answer!MayWrite(src)
      BY <1>9 DEF Answer!MayWrite
    <2>4. Answer!Begin(src)
      BY <1>6, <2>1, <2>2, <2>3 DEF Answer!Begin
    <2> QED
      BY <2>4 DEF AnswerStep, Answer!AnswerNext
  <1> QED
    BY <1>5, <1>7, <1>8, <1>9

\* What a method past its check does below is the handler's part of the answer, and
\* comes before the deadline.
LEMMA AnswerEmit ==
  ASSUME TimeoutInv, Emit
  PROVE  AnswerStep
  <1>1. wire \in Wires /\ call \in Methods /\ frame \in {"handler", "recovery"}
    BY DEF TimeoutInv, TypeOK, Emit, Methods
  <1>2. /\ spc \in {"select", "lock"} /\ ~timedOut /\ UNCHANGED <<timedOut, frame, spc>>
        /\ wire.by \in {"none", "handler"}
    BY EmitFacts DEF Emit, TimeoutInv, AuthorInv
  <1>3. CASE call \in {"WriteHeader", "Flush"}
    <2>1. PICK status \in Statuses : wire' = Commit(wire, "handler", status)
      BY <1>1, <1>3 DEF Emit, Statuses
    <2> QED
      BY <1>1, <1>2, <2>1, AnswerCommit
  <1>4. CASE call = "Write"
    <2>1. wire' \in Sending(wire, "handler")
      BY <1>4 DEF Emit
    <2> QED
      BY <1>2, <2>1, AnswerWrite
  <1>5. CASE call = "Hijack" /\ UNCHANGED wire
    BY <1>2, <1>5, AnswerStutter
  <1>6. CASE call = "Hijack" /\ ~UNCHANGED wire
    <2>1. ~wire.hijacked /\ wire' = [wire EXCEPT !.hijacked = TRUE]
      BY <1>6 DEF Emit
    <2>2. wire'.hijacked = TRUE /\ wire'.by = wire.by /\ wire'.body = wire.body
      BY <1>1, <2>1 DEF Wires
    <2>3. Answer!TakeOver
      BY <1>2, <2>1, <2>2 DEF Answer!TakeOver, Answer!MayWrite
    <2> QED
      BY <2>3 DEF AnswerStep, Answer!AnswerNext
  <1> QED
    BY <1>1, <1>3, <1>4, <1>5, <1>6 DEF Methods

\* The request's goroutine: the lock of writeTimeoutResponse is the deadline, and
\* what follows is the server's part of the answer.
LEMMA AnswerServer ==
  ASSUME TimeoutInv,
         \/ ContextDone \/ SelectDone \/ SelectTimeout \/ TimeoutLock \/ TimeoutCheck
         \/ TimeoutStatus \/ TimeoutBody \/ TimeoutUnlock
  PROVE  AnswerStep
  <1>1. CASE ContextDone \/ SelectDone \/ SelectTimeout \/ TimeoutCheck \/ TimeoutUnlock
    BY <1>1, AnswerStutter DEF ContextDone, SelectDone, SelectTimeout, TimeoutCheck,
       TimeoutUnlock, Shared, Handler
  <1>2. CASE TimeoutLock
    <2>1. spc = "lock" /\ ~timedOut /\ timedOut' = TRUE /\ spc' = "check"
          /\ UNCHANGED <<wire, frame>>
      BY <1>2 DEF TimeoutLock, TimeoutInv, OrderInv, Handler
    <2>2. Answer!Expire
      BY <2>1 DEF Answer!Expire, Answer!answer
    <2> QED
      BY <2>2 DEF AnswerStep, Answer!AnswerNext
  <1>3. CASE TimeoutStatus
    <2> DEFINE w == [wire EXCEPT !.map = @ \cup {"error"}]
    <2>1. spc = "status" /\ timedOut /\ spc' = "body" /\ UNCHANGED <<timedOut, frame>>
          /\ wire \in Wires /\ wire' = Commit(w, "server", "timeout")
      BY <1>3 DEF TimeoutStatus, TimeoutInv, TypeOK, OrderInv, Handler, Shared
    <2>2. w \in Wires /\ w.status = wire.status /\ w.by = wire.by
          /\ w.body = wire.body /\ w.hijacked = wire.hijacked
      BY <2>1 DEF Wires, HeaderNames
    <2> HIDE DEF w
    <2> QED
      BY <2>1, <2>2, AnswerCommit DEF Statuses
  <1>4. CASE TimeoutBody
    <2>1. spc = "body" /\ timedOut /\ spc' = "unlock" /\ UNCHANGED <<timedOut, frame>>
          /\ wire.by = "server" /\ wire' \in Sending(wire, "server")
      BY <1>4 DEF TimeoutBody, TimeoutInv, OrderInv, AuthorInv, Handler, Shared
    <2> QED
      BY <2>1, AnswerWrite
  <1> QED
    BY <1>1, <1>2, <1>3, <1>4

\* net/http ends the answer, and makes one up only where nothing had failed.
LEMMA AnswerEnd ==
  ASSUME TimeoutInv, EndRequest
  PROVE  AnswerStep
  <1>1. /\ spc = "returned" /\ spc' = "finished" /\ wire \in Wires
        /\ UNCHANGED <<timedOut, frame>> /\ wire' = Commit(wire, "net/http", "ok")
    BY DEF EndRequest, TimeoutInv, TypeOK, Handler, Shared
  <1>2. /\ wire'.body = wire.body /\ wire'.hijacked = wire.hijacked
        /\ wire.hijacked \/ wire.status # "none" => wire' = wire
        /\ ~wire.hijacked /\ wire.status = "none" => wire'.by = "net/http"
    BY <1>1, CommitFacts DEF Sources, Statuses
  <1>3. wire.status = "none" <=> wire.by = "none"
    BY DEF TimeoutInv, WireInv
  <1>4. timedOut \/ frame = "recovery" => wire'.hijacked \/ wire'.by \in {"handler", "server"}
    BY <1>1, EndRequestStep DEF TimeoutInv, FailureIsTold
  <1>5. wire.by = "none" /\ ~wire.hijacked => ~timedOut /\ frame # "recovery"
    BY <1>2, <1>3, <1>4
  <1>6. Answer!End
    <2>1. CASE wire.by = "none" /\ ~wire.hijacked
      BY <1>1, <1>2, <1>3, <1>5, <2>1 DEF Answer!End
    <2>2. CASE ~(wire.by = "none" /\ ~wire.hijacked)
      BY <1>1, <1>2, <1>3, <2>2 DEF Answer!End
    <2> QED
      BY <2>1, <2>2
  <1> QED
    BY <1>6 DEF AnswerStep, Answer!AnswerNext

\* Every step of the chain is a step of the answer or a stutter of it.
LEMMA AnswerSimulates ==
  TimeoutInv /\ [Next]_vars => [Answer!AnswerNext]_Answer!answerVars
  <1> SUFFICES ASSUME TimeoutInv, [Next]_vars PROVE AnswerStep
    BY DEF AnswerStep
  <1>1. CASE HandlerStep
    BY <1>1, AnswerSilent, AnswerCheck, AnswerEmit DEF HandlerStep
  <1>2. CASE ContextDone \/ ServerStep
    BY <1>2, AnswerServer, AnswerEnd DEF ServerStep
  <1>3. CASE UNCHANGED vars
    BY <1>3, AnswerStutter DEF vars, Shared, Handler
  <1> QED
    BY <1>1, <1>2, <1>3 DEF Next

\* Timeout, with Recovery on either side of it and any handler, gives every request
\* the answer TimedAnswer describes.
THEOREM TimeoutImplementsAnswer == Spec => AnswerImplemented
  <1>1. Init => Answer!AnswerInit
    BY AnswerStart
  <1>2. TimeoutInv /\ [Next]_vars => [Answer!AnswerNext]_Answer!answerVars
    BY AnswerSimulates
  <1> QED
    BY <1>1, <1>2, TimeoutCorrect, PTL
    DEF Spec, AnswerImplemented, Answer!AnswerSpec
=============================================================================
