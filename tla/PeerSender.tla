----------------------------- MODULE PeerSender ------------------------------
(***************************************************************************)
(* The sending device: messageRemote, applyRemote, statusOf, cancelAsk and *)
(* refreshRemote of roundtable/service.js, send, status and waitFor of     *)
(* peer/peer-port.js, and the ask rows of roundtable/store.js.             *)
(*                                                                         *)
(* The MCP server of every client and the console are processes that share *)
(* the ask rows in one SQLite file.  A process runs a handler without      *)
(* interruption from one await to the next, but its SQL statements are     *)
(* separate transactions: other processes interleave between them and a    *)
(* crash may fall there.                                                   *)
(*                                                                         *)
(* The coordinator and the receiving device are RemoteDelivery, the        *)
(* specification PeerDelivery implements.  All asks go to one remote Agent.*)
(***************************************************************************)
EXTENDS RemoteDelivery, Naturals

CONSTANTS
  ChatWake,     \* asks made by a chat wake: they claim the Agent's execution
  Process,      \* processes that share the roundtable store
  NoMessage,    \* what an idle process works on
  Faults,       \* bound: "ambiguous" (a submission whose answer is lost), "crash"
  MaxCrashes    \* bound: crashes a run explores

ASSUME SenderAssumption ==
  /\ ChatWake \subseteq Message
  /\ NoMessage \notin Message
  /\ Faults \subseteq {"ambiguous", "crash"}
  /\ MaxCrashes \in Nat

VARIABLES
  ask,      \* ask[m]: status of the ask row
  replies,  \* replies[m]: rows that are the reply to m
  claim,    \* claim[m]: its execution_claim
  cleanup,  \* asks whose cleanup_status is 'unconfirmed'
  sent,     \* messages recorded in `sent` of node.sqlite
  posted,   \* submissions that may still reach the coordinator
  proc,     \* proc[p]: the handler process p is in
  crashes

senderVars == <<ask, replies, claim, cleanup, sent, posted, proc, crashes>>
vars == <<deliveryVars, senderVars>>

Pending == {"sent", "claimed", "running"}      \* REMOTE_PENDING; 'queued' is stored as 'sent'
Terminal == Final \cup {"unknown"}             \* REMOTE_FINAL

PC == {"idle", "claiming", "signing", "submitting", "waiting", "got",
       "writing", "appending", "finishing"}

\* view: the coordinator's answer; read: the ask's status when it was looked at.
View == [status : Status, hold : BOOLEAN]
AskStatus == {"absent"} \cup Pending \cup Terminal
Handler == [pc : PC, m : Message \cup {NoMessage}, view : View, read : AskStatus]
NoView == [status |-> "absent", hold |-> FALSE]
Idle == [pc |-> "idle", m |-> NoMessage, view |-> NoView, read |-> "absent"]

SenderInit ==
  /\ ask = [m \in Message |-> "absent"]
  /\ replies = [m \in Message |-> 0]
  /\ claim = [m \in Message |-> "none"]
  /\ cleanup = {}
  /\ sent = {}
  /\ posted = {}
  /\ proc = [p \in Process |-> Idle]
  /\ crashes = 0

TypeOK ==
  /\ status \in [Message -> Status]
  /\ run \in [Message -> RunState]
  /\ hold \in [Message -> BOOLEAN]
  /\ ask \in [Message -> AskStatus]
  /\ replies \in [Message -> Nat]
  /\ claim \in [Message -> {"none", "active", "finished"}]
  /\ cleanup \in SUBSET Message
  /\ sent \in SUBSET Message
  /\ posted \in SUBSET Message
  /\ proc \in [Process -> Handler]
  /\ crashes \in Nat

At(p, pc) == proc[p].pc = pc
Msg(p) == proc[p].m
Goto(p, pc) == proc' = [proc EXCEPT ![p].pc = pc]
Leave(p) == proc' = [proc EXCEPT ![p] = Idle]
SetAsk(m, s) == ask' = [ask EXCEPT ![m] = s]

\* What a status request to the coordinator answers.
Snapshot(m) == [status |-> status[m], hold |-> hold[m]]

(***************************************************************************)
(* messageRemote: the ask row is written first, then a chat wake claims    *)
(* the Agent; a refused claim ends the ask without sending it.             *)
(***************************************************************************)
Ask(p, m) ==
  /\ At(p, "idle")
  /\ ask[m] = "absent"
  /\ SetAsk(m, "sent")
  /\ proc' = [proc EXCEPT ![p].pc = IF m \in ChatWake THEN "claiming" ELSE "signing", ![p].m = m]
  /\ UNCHANGED <<deliveryVars, replies, claim, cleanup, sent, posted, crashes>>

Blocked(m) == \E n \in Message \ {m} : claim[n] = "active" \/ n \in cleanup

ClaimExecution(p) ==
  /\ At(p, "claiming")
  /\ \/ /\ Blocked(Msg(p))
        /\ SetAsk(Msg(p), "failed")
        /\ Leave(p)
        /\ UNCHANGED claim
     \/ /\ ~Blocked(Msg(p))
        /\ claim' = [claim EXCEPT ![Msg(p)] = "active"]
        /\ Goto(p, "signing")
        /\ UNCHANGED ask
  /\ UNCHANGED <<deliveryVars, replies, cleanup, sent, posted, crashes>>

(***************************************************************************)
(* finishExecution: only an active claim without an unconfirmed cleanup.   *)
(***************************************************************************)
FinishExecution(m) ==
  claim' = [claim EXCEPT ![m] = IF @ = "active" /\ m \notin cleanup THEN "finished" ELSE @]

(***************************************************************************)
(* peer.send: the origin proof is issued, the message is recorded as sent  *)
(* and posted.  An error fails the ask; the claim is given back only when  *)
(* the error is a refusal (4xx).                                           *)
(***************************************************************************)
\* Mutant: every failed submission gives the claim back.
SendFailsReleasing(p, refused) ==
  /\ SetAsk(Msg(p), "failed")
  /\ FinishExecution(Msg(p))
  /\ Leave(p)

SendFails(p, refused) ==
  /\ SetAsk(Msg(p), "failed")
  /\ IF refused /\ Msg(p) \in ChatWake THEN FinishExecution(Msg(p)) ELSE UNCHANGED claim
  /\ Leave(p)

Sign(p) ==
  /\ At(p, "signing")
  /\ \/ /\ sent' = sent \cup {Msg(p)}
        /\ posted' = posted \cup {Msg(p)}
        /\ Goto(p, "submitting")
        /\ UNCHANGED <<ask, claim>>
     \/ /\ "ambiguous" \in Faults
        /\ \E refused \in BOOLEAN : SendFails(p, refused)
        /\ UNCHANGED <<sent, posted>>
  /\ UNCHANGED <<deliveryVars, replies, cleanup, crashes>>

\* The coordinator queues the submission; its answer may find nobody.
Accept(m) ==
  /\ m \in posted
  /\ posted' = posted \ {m}
  /\ status[m] = "absent"
  /\ status' = [status EXCEPT ![m] = "queued"]
  /\ \/ "ambiguous" \in Faults /\ UNCHANGED proc
     \/ \E p \in Process :
          /\ At(p, "submitting") /\ Msg(p) = m
          /\ proc' = [proc EXCEPT ![p].pc = "waiting",
                                  ![p].view = [status |-> "queued", hold |-> FALSE]]
     \/ (\A p \in Process : At(p, "submitting") => Msg(p) # m) /\ UNCHANGED proc
  /\ UNCHANGED <<run, hold, ask, replies, claim, cleanup, sent, crashes>>

\* It refuses the submission, or never sees it.
Refuse(m) ==
  /\ "ambiguous" \in Faults
  /\ m \in posted
  /\ posted' = posted \ {m}
  /\ \/ UNCHANGED <<ask, claim, proc>>
     \/ \E p \in Process : At(p, "submitting") /\ Msg(p) = m /\ SendFails(p, TRUE)
  /\ UNCHANGED <<deliveryVars, replies, cleanup, sent, crashes>>

\* No answer in time, a broken connection, a 5xx or an aborted call.
SubmitUnanswered(p) ==
  /\ "ambiguous" \in Faults
  /\ At(p, "submitting")
  /\ SendFails(p, FALSE)
  /\ UNCHANGED <<deliveryVars, replies, cleanup, sent, posted, crashes>>

(***************************************************************************)
(* waitFor: polls until the answer is terminal, the deadline passes or the *)
(* call is aborted.  A failed poll keeps the last answer.                  *)
(***************************************************************************)
Observe(p) ==
  /\ At(p, "waiting")
  /\ proc[p].view.status \notin Terminal
  /\ proc' = [proc EXCEPT ![p].view = Snapshot(Msg(p))]
  /\ UNCHANGED <<deliveryVars, ask, replies, claim, cleanup, sent, posted, crashes>>

Return(p) ==
  /\ At(p, "waiting")
  /\ Goto(p, "got") \/ Leave(p)
  /\ UNCHANGED <<deliveryVars, ask, replies, claim, cleanup, sent, posted, crashes>>

(***************************************************************************)
(* statusOf, refreshRemote and cancelAsk ask the coordinator about an ask  *)
(* that was sent and is pending.  What a cancellation does to the message  *)
(* is a step of RemoteDelivery.                                            *)
(***************************************************************************)
\* Mutant: an ask shown as running is not looked up again.
RefreshableUntilRunning(m) == m \in sent /\ ask[m] \in {"sent", "claimed"}

Refreshable(m) == m \in sent /\ ask[m] \in Pending

Refresh(p, m) ==
  /\ At(p, "idle")
  /\ Refreshable(m)
  /\ status[m] # "absent"               \* 404 otherwise
  /\ proc' = [proc EXCEPT ![p].pc = "got", ![p].m = m, ![p].view = Snapshot(m)]
  /\ UNCHANGED <<deliveryVars, ask, replies, claim, cleanup, sent, posted, crashes>>

(***************************************************************************)
(* applyRemote: look at the ask, write its status, append the reply,       *)
(* settle the claim.                                                       *)
(***************************************************************************)
ReadAsk(p) ==
  /\ At(p, "got")
  /\ \/ /\ ask[Msg(p)] \in Pending
        /\ proc' = [proc EXCEPT ![p].pc = "writing", ![p].read = ask[Msg(p)]]
     \/ ask[Msg(p)] \notin Pending /\ Leave(p)
  /\ UNCHANGED <<deliveryVars, ask, replies, claim, cleanup, sent, posted, crashes>>

Stored(s) == IF s = "queued" THEN "sent" ELSE s

\* Mutant: the wait's last answer is taken for final.
WriteAskAsFinal(p) ==
  /\ At(p, "writing")
  /\ LET s == Stored(proc[p].view.status) IN
       /\ SetAsk(Msg(p), IF s \in Pending THEN "expired" ELSE s)
       /\ Goto(p, IF s = "answered" THEN "appending" ELSE "finishing")
  /\ UNCHANGED <<deliveryVars, replies, claim, cleanup, sent, posted, crashes>>

WriteAsk(p) ==
  /\ At(p, "writing")
  /\ LET s == Stored(proc[p].view.status) IN
       /\ SetAsk(Msg(p), IF s # proc[p].read THEN s ELSE ask[Msg(p)])
       /\ Goto(p, IF s = "answered" THEN "appending" ELSE "finishing")
  /\ UNCHANGED <<deliveryVars, replies, claim, cleanup, sent, posted, crashes>>

AppendReply(p) ==
  /\ At(p, "appending")
  /\ replies' = [replies EXCEPT ![Msg(p)] = @ + 1]
  /\ Goto(p, "finishing")
  /\ UNCHANGED <<deliveryVars, ask, claim, cleanup, sent, posted, crashes>>

EndsClaim(view) == view.status \in Final /\ ~view.hold

SettleClaim(p) ==
  /\ At(p, "finishing")
  /\ IF EndsClaim(proc[p].view) THEN FinishExecution(Msg(p)) ELSE UNCHANGED claim
  /\ cleanup' = IF proc[p].view.status # "answered" /\ proc[p].view.hold
                THEN cleanup \cup {Msg(p)} ELSE cleanup
  /\ Leave(p)
  /\ UNCHANGED <<deliveryVars, ask, replies, sent, posted, crashes>>

Crash(p) ==
  /\ "crash" \in Faults
  /\ crashes < MaxCrashes
  /\ ~At(p, "idle")
  /\ crashes' = crashes + 1
  /\ Leave(p)
  /\ UNCHANGED <<deliveryVars, ask, replies, claim, cleanup, sent, posted>>

\* The coordinator and the receiving device go on with messages they have.
Remote ==
  /\ status' \in [Message -> Status]
  /\ run' \in [Message -> RunState]
  /\ hold' \in [Message -> BOOLEAN]
  /\ DeliverSome
  /\ \A m \in Message : status[m] = "absent" => status'[m] = "absent"
  /\ UNCHANGED senderVars

Step(p) ==
  \/ ClaimExecution(p) \/ Sign(p) \/ Observe(p) \/ Return(p)
  \/ ReadAsk(p) \/ WriteAsk(p) \/ AppendReply(p) \/ SettleClaim(p)

Next ==
  \/ \E p \in Process : Step(p) \/ SubmitUnanswered(p) \/ Crash(p)
  \/ \E p \in Process, m \in Message : Ask(p, m) \/ Refresh(p, m)
  \/ \E m \in Message : Accept(m) \/ Refuse(m)
  \/ Remote

Init == DeliveryInit /\ SenderInit

Spec == Init /\ [][Next]_vars

(***************************************************************************)
(* Fairness.  A handler runs on: every request has a deadline, a call that *)
(* waits returns at the latest after 900 s.  Somebody looks at the thread  *)
(* again and again (the console polls it, the asker asks for the status),  *)
(* in a process that is restarted when it dies.  Nothing is assumed of the *)
(* coordinator and the receiving device.                                   *)
(***************************************************************************)
FairSpec ==
  /\ Spec
  /\ \A p \in Process : WF_vars(Step(p)) /\ WF_vars(SubmitUnanswered(p)) /\ WF_vars(Return(p))
  /\ \A m \in Message : SF_vars(\E p \in Process : Refresh(p, m)) /\ WF_vars(Accept(m))

-----------------------------------------------------------------------------

\* The remote process of m runs, or may still be started.
MayRun(m) == m \in posted \/ status[m] \in {"queued", "unknown"} \cup Held \/ run[m] = "live"

\* However submissions fail and answers are applied late, and whichever of the
\* device's processes crash, at no time may two chat wakes of one remote Agent
\* run: a claim is given back only when the run is known to be over ("Transport
\* ambiguity retains the claim", service.js:394).
OneRemoteWake == \A m, n \in ChatWake : MayRun(m) /\ MayRun(n) => m = n

\* What an ask shows as answered, cancelled or expired is what the coordinator
\* says of it, in spite of stale answers applied after newer ones; nothing that
\* may still be queued or running is shown as over, except a failed submission.
ShownIsTrue ==
  \A m \in Message :
    /\ ask[m] \in {"answered", "cancelled", "expired"} => status[m] = ask[m]
    /\ replies[m] > 0 => status[m] = "answered"

\* An ask does not stay pending once the coordinator shows it as over: a stale
\* write of another process or a crash is repaired by the next look at it.
OutcomeIsSeen ==
  \A m \in Message : m \in sent /\ status[m] \in Final ~> ask[m] \in Terminal

=============================================================================
