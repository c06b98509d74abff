----------------------------- MODULE WsMailbox -----------------------------
(***************************************************************************)
(* What a WebSocket connection of wshub promises to those who use it,      *)
(* without goroutines, locks or channels.  It is a mailbox that accepts    *)
(* events while it is open, hands them to the peer in the order it         *)
(* accepted them and without a gap, and goes through three phases: "open", *)
(* "draining" (nothing more is accepted, what was accepted may still go    *)
(* out) and "closed" (nothing goes out any more).  What was accepted and   *)
(* not delivered when the mailbox closes is lost: the code promises no     *)
(* delivery.                                                               *)
(***************************************************************************)
EXTENDS Naturals, Sequences

CONSTANT Events \* what may be put in the mailbox

VARIABLES
    phase,      \* "open", "draining" or "closed"
    accepted,   \* every event put in the mailbox, in order
    delivered   \* those of them the peer was given, in order

mailboxVars == <<phase, accepted, delivered>>

MailboxInit ==
    /\ phase = "open"
    /\ accepted = <<>>
    /\ delivered = <<>>

Accept(e) ==
    /\ phase = "open"
    /\ accepted' = Append(accepted, e)
    /\ UNCHANGED <<phase, delivered>>

Deliver ==
    /\ phase # "closed"
    /\ Len(delivered) < Len(accepted)
    /\ delivered' = Append(delivered, accepted[Len(delivered) + 1])
    /\ UNCHANGED <<phase, accepted>>

Drain ==
    /\ phase = "open"
    /\ phase' = "draining"
    /\ UNCHANGED <<accepted, delivered>>

Close ==
    /\ phase = "draining"
    /\ phase' = "closed"
    /\ UNCHANGED <<accepted, delivered>>

MailboxNext == (\E e \in Events : Accept(e)) \/ Deliver \/ Drain \/ Close

MailboxSpec == MailboxInit /\ [][MailboxNext]_mailboxVars
=============================================================================
