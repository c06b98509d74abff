---------------------------- MODULE TimedAnswer ----------------------------
(***************************************************************************)
(* What a request behind Timeout promises the client that reads its        *)
(* answer, without goroutines, mutexes or header maps.  The handler        *)
(* answers until the deadline, the server after it, and each only where    *)
(* the other has not begun; a handler may take over the connection         *)
(* instead.  What neither has begun by the end is the empty answer that    *)
(* net/http makes up, and there is none of those for a request that was    *)
(* late or whose handler broke down.  Nothing is promised about how long   *)
(* an answer is, nor that one the handler began is finished.               *)
(***************************************************************************)
EXTENDS Naturals

VARIABLES
    author, \* whose the answer is: "none" yet, "handler", "server" or "net/http"
    chunks, \* how many chunks of its body the client was sent
    taken,  \* the handler has the connection to itself
    late,   \* the deadline was held against the handler
    broken, \* the handler's panic was caught
    ended   \* the client has all it will get

answer == <<author, chunks, taken>>
answerVars == <<answer, late, broken, ended>>

AnswerInit ==
    /\ author = "none" /\ chunks = 0 /\ taken = FALSE
    /\ late = FALSE /\ broken = FALSE /\ ended = FALSE

\* The deadline says whose turn it is.
MayWrite(a) == ~ended /\ ~taken /\ a = (IF late THEN "server" ELSE "handler")

\* The status goes out, with the first chunk or without.
Begin(a) ==
    /\ MayWrite(a) /\ author = "none"
    /\ author' = a
    /\ chunks' \in {0, 1}
    /\ UNCHANGED <<taken, late, broken, ended>>

Continue(a) ==
    /\ MayWrite(a) /\ author = a
    /\ chunks' = chunks + 1
    /\ UNCHANGED <<author, taken, late, broken, ended>>

\* Also in the middle of an answer.
TakeOver ==
    /\ MayWrite("handler")
    /\ taken' = TRUE
    /\ UNCHANGED <<author, chunks, late, broken, ended>>

Expire ==
    /\ ~ended /\ ~late
    /\ late' = TRUE
    /\ UNCHANGED <<answer, broken, ended>>

\* A handler the request does not wait for can still break down after its end.
BreakDown ==
    /\ ended => late
    /\ broken' = TRUE
    /\ UNCHANGED <<answer, late, ended>>

End ==
    /\ ~ended /\ ended' = TRUE
    /\ IF author = "none" /\ ~taken
       THEN ~late /\ ~broken /\ author' = "net/http"
       ELSE UNCHANGED author
    /\ UNCHANGED <<chunks, taken, late, broken>>

AnswerNext ==
    \/ \E a \in {"handler", "server"} : Begin(a) \/ Continue(a)
    \/ TakeOver \/ Expire \/ BreakDown \/ End

AnswerSpec == AnswerInit /\ [][AnswerNext]_answerVars
=============================================================================
