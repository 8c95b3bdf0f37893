------------------------------- MODULE PeerAsk --------------------------------
(***************************************************************************)
(* A remote ask from end to end: the processes of the sending device       *)
(* (PeerSender), the coordinator, the network and the receiving device     *)
(* (PeerDelivery).  What PeerSender takes as the promise of the other side *)
(* (RemoteDelivery) is here what PeerDelivery does: the two share the row  *)
(* of the message and, through it, the process on the other computer.      *)
(*                                                                         *)
(* A submission on its way and an answer to the sender may be lost, so     *)
(* each side moves on its own; they meet where the coordinator queues a    *)
(* submission and where it answers what a message's status is.             *)
(***************************************************************************)
EXTENDS PeerDelivery

CONSTANTS
  Process,      \* processes of the sending device that share its store
  NoMessage,    \* what an idle process works on
  Faults,       \* bound: what happens to the sending device (see PeerSender)
  MaxCrashes    \* bound: crashes of its processes a run explores

VARIABLES ask, replies, claim, cleanup, sent, posted, caller, crashes

Sender == INSTANCE PeerSender
  WITH status <- [m \in Message |-> queue[m].status],
       run <- [m \in Message |-> RunOf(m)],
       hold <- [m \in Message |-> queue[m].hold],
       proc <- caller

ASSUME AskAssumption == Sender!SenderAssumption

askVars == <<ask, replies, claim, cleanup, sent, posted, caller, crashes>>
allVars == <<vars, askVars>>

AskInit == Init /\ Sender!SenderInit

(***************************************************************************)
(* The sending device on its own, and its submissions on their way.        *)
(***************************************************************************)
AskLocally ==
  /\ UNCHANGED vars
  /\ \/ \E p \in Process :
          \/ Sender!ClaimExecution(p) \/ Sender!Sign(p) \/ Sender!SubmitUnanswered(p)
          \/ Sender!Return(p) \/ Sender!ReadAsk(p) \/ Sender!WriteAsk(p)
          \/ Sender!AppendReply(p) \/ Sender!SettleClaim(p) \/ Sender!Crash(p)
     \/ \E p \in Process, m \in Message : Sender!Ask(p, m)
     \/ \E m \in Message : Sender!Refuse(m)

\* A status request is answered only to a device that is still trusted.
LookUp ==
  /\ UNCHANGED vars
  /\ "sender" \in trusted
  /\ \E p \in Process : Sender!Observe(p) \/ \E m \in Message : Sender!Refresh(p, m)

\* The coordinator's transaction that queues a submission.
Enqueue(m) == Submit(m) /\ Sender!Accept(m)

\* The other side goes on with the messages it has.
DeliverOn ==
  /\ Next
  /\ \A m \in Message : queue[m].status = "absent" => queue'[m].status = "absent"
  /\ UNCHANGED askVars

AskNext == AskLocally \/ LookUp \/ (\E m \in Message : Enqueue(m)) \/ DeliverOn

AskSpec == AskInit /\ [][AskNext]_allVars

-----------------------------------------------------------------------------

\* The sending device is right to rely on RemoteDelivery alone: with the real
\* coordinator, network and runner it does nothing PeerSender does not.
ImplementsPeerSender == Sender!Spec

\* While a chat wake is on its way, queued, lost track of, or may run on the other
\* computer, no other of its Agent is: what the claim in the sender's store is for
\* ("Transport ambiguity retains the claim", service.js:394).
OneWakeEndToEnd == Sender!OneRemoteWake

\* An ask shown as answered, or with a reply, is the answer of a process that ran
\* on the other computer and is over; one shown as expired never ran there; one
\* shown as cancelled runs there no more, unless its cleanup is unconfirmed.
ShownIsOver ==
  \A m \in Message :
    /\ ask[m] = "answered" \/ replies[m] > 0 => EverRan(m) /\ ~MayRun(m)
    /\ ask[m] = "expired" => ~EverRan(m)
    /\ ask[m] = "cancelled" /\ MayRun(m) => queue[m].hold

=============================================================================
