---------------------------- MODULE PeerAsk_proofs ----------------------------
(***************************************************************************)
(* A remote ask from end to end, for any messages, processes, faults and   *)
(* events.  PeerDelivery keeps the promise that PeerSender relies on       *)
(* (Implements), so the whole is a PeerSender whose other side is real,    *)
(* and what was proved of each holds of both.                              *)
(***************************************************************************)
EXTENDS PeerAsk, PeerDelivery_refinement

\* The results of PeerSender_proofs, of this system.
Proven == INSTANCE PeerSender_proofs
  WITH status <- [m \in Message |-> queue[m].status],
       run <- [m \in Message |-> RunOf(m)],
       hold <- [m \in Message |-> queue[m].hold],
       proc <- caller

-----------------------------------------------------------------------------
(***************************************************************************)
(* The other side.                                                         *)
(***************************************************************************)

\* Without the sending device's part, the whole is PeerDelivery.
THEOREM DeliversAsBefore == AskSpec => Spec
<1>1. AskInit => Init BY DEF AskInit
<1>2. [AskNext]_allVars => [Next]_vars
  BY DEF AskNext, allVars, AskLocally, LookUp, Enqueue, DeliverOn, Next
<1> QED BY <1>1, <1>2, PTL DEF AskSpec, Spec

RowsTyped ==
  /\ [m \in Message |-> queue[m].status] \in [Message -> Sender!Status]
  /\ [m \in Message |-> RunOf(m)] \in [Message -> Sender!RunState]
  /\ [m \in Message |-> queue[m].hold] \in [Message -> BOOLEAN]

LEMMA RowTypes == IInv => RowsTyped
<1> SUFFICES ASSUME IInv PROVE RowsTyped OBVIOUS
<1>1. \A m \in Message : queue[m] \in Row BY DEF IInv, RowsOK, GoodRow
<1>2. \A r \in Row : r.status \in Sender!Status /\ r.hold \in BOOLEAN
  BY DEF Row, Sender!Status, Sender!Held, Sender!Final, OpenStatus, TerminalStatus
<1>3. \A m \in Message : RunOf(m) \in Sender!RunState BY DEF RunOf, Sender!RunState
<1> QED BY <1>1, <1>2, <1>3 DEF RowsTyped

\* In a step of the other side each message's row and process move as promised.
LEMMA PromisedMoves ==
  ASSUME IInv, Ended, [Next]_vars
  PROVE  Sender!DeliverSome
<1>1. Delivery!DeliverSome BY StepImplements
<1>2. ASSUME NEW m \in Message, NEW s, NEW r, NEW h, Delivery!May(m, s, r, h)
      PROVE  Sender!May(m, s, r, h)
  BY <1>2 DEF Delivery!May, Delivery!WithoutRun, Delivery!Progress, Delivery!Reported, Delivery!Held,
       Sender!May, Sender!WithoutRun, Sender!Progress, Sender!Reported, Sender!Held
<1> QED BY <1>1, <1>2 DEF Delivery!DeliverSome, Sender!DeliverSome

LEMMA DeliverOnIsRemote ==
  ASSUME IInv, IInv', Ended, DeliverOn
  PROVE  Sender!Remote
<1>1. Sender!DeliverSome BY PromisedMoves DEF DeliverOn
<1>2. RowsTyped' BY RowTypes, PTL
<1>3. UNCHANGED <<ask, replies, claim, cleanup, sent, posted, caller, crashes>> BY DEF DeliverOn, askVars
<1> QED BY <1>1, <1>2, <1>3 DEF DeliverOn, RowsTyped, Sender!Remote, Sender!senderVars

-----------------------------------------------------------------------------
(***************************************************************************)
(* The sending device.                                                     *)
(***************************************************************************)

LEMMA AskInitIsSenders == AskInit => Sender!Init
<1>1. Delivery!DeliveryInit => Sender!DeliveryInit BY DEF Delivery!DeliveryInit, Sender!DeliveryInit
<1> QED BY <1>1, InitImplements DEF AskInit, Sender!Init

LEMMA AskNextIsSenders ==
  ASSUME IInv, IInv', Ended, [AskNext]_allVars
  PROVE  [Sender!Next]_(Sender!vars)
<1>1. CASE AskLocally
  BY <1>1, Zenon DEF AskLocally, Sender!Next, Sender!Step
<1>2. CASE LookUp
  BY <1>2, Zenon DEF LookUp, Sender!Next, Sender!Step
<1>3. CASE \E m \in Message : Enqueue(m)
  BY <1>3, Zenon DEF Enqueue, Sender!Next
<1>4. CASE DeliverOn
  BY <1>4, DeliverOnIsRemote DEF Sender!Next
<1>5. CASE UNCHANGED allVars
  BY <1>5 DEF allVars, vars, askVars, coordinatorVars, runnerVars, RunOf, MayRun, EverRan, Ran,
       Sender!vars, Sender!deliveryVars, Sender!senderVars
<1> QED BY <1>1, <1>2, <1>3, <1>4, <1>5, Zenon DEF AskNext

\* The sending device is right to rely on RemoteDelivery alone: with the real
\* coordinator, network and runner on the other side it does nothing PeerSender
\* does not (service.js, messageRemote and applyRemote; coordinator-service.js).
THEOREM SenderAsBefore == AskSpec => ImplementsPeerSender
<1>1. IInv /\ IInv' /\ Ended /\ [AskNext]_allVars => [Sender!Next]_(Sender!vars) BY AskNextIsSenders
<1> QED BY <1>1, AskInitIsSenders, DeliversAsBefore, Inductive, EndedByReport, PTL
        DEF AskSpec, ImplementsPeerSender, Sender!Spec

\* The two instances of PeerSender say the same of each action.
LEMMA SameSteps ==
  ASSUME NEW p \in Process
  PROVE  /\ Sender!Step(p) => Proven!Step(p)
         /\ Sender!SubmitUnanswered(p) => Proven!SubmitUnanswered(p)
         /\ Sender!Crash(p) => Proven!Crash(p)
<1>1. Sender!ClaimExecution(p) => Proven!ClaimExecution(p)
  BY Zenon DEF Sender!ClaimExecution, Sender!Blocked, Sender!SetAsk, Sender!At,
       Sender!Msg, Sender!Leave, Sender!Goto, Sender!Idle, Sender!NoView, Sender!deliveryVars,
       Proven!ClaimExecution, Proven!Blocked, Proven!SetAsk, Proven!At, Proven!Msg,
       Proven!Leave, Proven!Goto, Proven!Idle, Proven!NoView, Proven!deliveryVars
<1>2. Sender!Sign(p) => Proven!Sign(p)
  BY Zenon DEF Sender!Sign, Sender!At, Sender!Msg, Sender!Goto, Sender!SendFails,
       Sender!SetAsk, Sender!FinishExecution, Sender!Leave, Sender!Idle, Sender!NoView,
       Sender!deliveryVars, Proven!Sign, Proven!At, Proven!Msg, Proven!Goto, Proven!SendFails,
       Proven!SetAsk, Proven!FinishExecution, Proven!Leave, Proven!Idle, Proven!NoView,
       Proven!deliveryVars
<1>3. Sender!Observe(p) => Proven!Observe(p)
  BY Zenon DEF Sender!Observe, Sender!At, Sender!Msg, Sender!Snapshot, Sender!Terminal,
       Sender!Final, Sender!deliveryVars, Proven!Observe, Proven!At, Proven!Msg,
       Proven!Snapshot, Proven!Terminal, Proven!Final, Proven!deliveryVars
<1>4. Sender!Return(p) => Proven!Return(p)
  BY Zenon DEF Sender!Return, Sender!At, Sender!Goto, Sender!Leave, Sender!Idle,
       Sender!NoView, Sender!deliveryVars, Proven!Return, Proven!At, Proven!Goto, Proven!Leave,
       Proven!Idle, Proven!NoView, Proven!deliveryVars
<1>5. Sender!ReadAsk(p) => Proven!ReadAsk(p)
  BY Zenon DEF Sender!ReadAsk, Sender!At, Sender!Msg, Sender!Pending, Sender!Leave,
       Sender!Idle, Sender!NoView, Sender!deliveryVars, Proven!ReadAsk, Proven!At, Proven!Msg,
       Proven!Pending, Proven!Leave, Proven!Idle, Proven!NoView, Proven!deliveryVars
<1>6. Sender!WriteAsk(p) => Proven!WriteAsk(p)
  BY Zenon DEF Sender!WriteAsk, Sender!At, Sender!Msg, Sender!SetAsk, Sender!Goto,
       Sender!Stored, Sender!deliveryVars, Proven!WriteAsk, Proven!At, Proven!Msg,
       Proven!SetAsk, Proven!Goto, Proven!Stored, Proven!deliveryVars
<1>7. Sender!AppendReply(p) => Proven!AppendReply(p)
  BY Zenon DEF Sender!AppendReply, Sender!At, Sender!Msg, Sender!Goto,
       Sender!deliveryVars, Proven!AppendReply, Proven!At, Proven!Msg, Proven!Goto,
       Proven!deliveryVars
<1>8. Sender!SettleClaim(p) => Proven!SettleClaim(p)
  BY Zenon DEF Sender!SettleClaim, Sender!At, Sender!Msg, Sender!EndsClaim, Sender!Final,
       Sender!FinishExecution, Sender!Leave, Sender!Idle, Sender!NoView, Sender!deliveryVars,
       Proven!SettleClaim, Proven!At, Proven!Msg, Proven!EndsClaim, Proven!Final,
       Proven!FinishExecution, Proven!Leave, Proven!Idle, Proven!NoView, Proven!deliveryVars
<1>9. Sender!SubmitUnanswered(p) => Proven!SubmitUnanswered(p)
  BY Zenon DEF Sender!SubmitUnanswered, Sender!At, Sender!Msg, Sender!SendFails,
       Sender!SetAsk, Sender!FinishExecution, Sender!Leave, Sender!Idle, Sender!NoView,
       Sender!deliveryVars, Proven!SubmitUnanswered, Proven!At, Proven!Msg, Proven!SendFails,
       Proven!SetAsk, Proven!FinishExecution, Proven!Leave, Proven!Idle, Proven!NoView,
       Proven!deliveryVars
<1>10. Sender!Crash(p) => Proven!Crash(p)
  BY Zenon DEF Sender!Crash, Sender!At, Sender!Leave, Sender!Idle, Sender!NoView,
       Sender!deliveryVars, Proven!Crash, Proven!At, Proven!Leave, Proven!Idle, Proven!NoView,
       Proven!deliveryVars
<1> QED BY <1>1, <1>2, <1>3, <1>4, <1>5, <1>6, <1>7, <1>8, <1>9, <1>10, Zenon DEF Sender!Step, Proven!Step

LEMMA SameAsks ==
  ASSUME NEW p \in Process, NEW m \in Message
  PROVE  /\ Sender!Ask(p, m) => Proven!Ask(p, m)
         /\ Sender!Refresh(p, m) => Proven!Refresh(p, m)
<1>1. Sender!Ask(p, m) => Proven!Ask(p, m)
  BY Zenon DEF Sender!Ask, Sender!At, Sender!SetAsk, Sender!deliveryVars, Proven!Ask,
       Proven!At, Proven!SetAsk, Proven!deliveryVars
<1>2. Sender!Refresh(p, m) => Proven!Refresh(p, m)
  BY Zenon DEF Sender!Refresh, Sender!At, Sender!Refreshable, Sender!Pending,
       Sender!Snapshot, Sender!deliveryVars, Proven!Refresh, Proven!At, Proven!Refreshable,
       Proven!Pending, Proven!Snapshot, Proven!deliveryVars
<1> QED BY <1>1, <1>2

LEMMA SameSubmissions ==
  ASSUME NEW m \in Message
  PROVE  /\ Sender!Accept(m) => Proven!Accept(m)
         /\ Sender!Refuse(m) => Proven!Refuse(m)
<1>1. Sender!Accept(m) => Proven!Accept(m)
  BY Zenon DEF Sender!Accept, Sender!At, Sender!Msg, Proven!Accept, Proven!At, Proven!Msg
<1>2. Sender!Refuse(m) => Proven!Refuse(m)
  BY Zenon DEF Sender!Refuse, Sender!At, Sender!Msg, Sender!SendFails, Sender!SetAsk,
       Sender!FinishExecution, Sender!Leave, Sender!Idle, Sender!NoView, Sender!deliveryVars,
       Proven!Refuse, Proven!At, Proven!Msg, Proven!SendFails, Proven!SetAsk,
       Proven!FinishExecution, Proven!Leave, Proven!Idle, Proven!NoView, Proven!deliveryVars
<1> QED BY <1>1, <1>2

LEMMA SameRemote == Sender!Remote => Proven!Remote
BY Zenon DEF Sender!Remote, Sender!Status, Sender!Held, Sender!Final, Sender!RunState,
     Sender!DeliverSome, Sender!May, Sender!WithoutRun, Sender!Progress, Sender!Reported,
     Sender!senderVars, Proven!Remote, Proven!Status, Proven!Held, Proven!Final,
     Proven!RunState, Proven!DeliverSome, Proven!May, Proven!WithoutRun, Proven!Progress,
     Proven!Reported, Proven!senderVars

LEMMA SameSpec == Sender!Spec => Proven!Spec
<1>1. Sender!Init => Proven!Init
  BY Zenon DEF Sender!Init, Sender!DeliveryInit, Sender!SenderInit, Sender!Idle,
       Sender!NoView, Proven!Init, Proven!DeliveryInit, Proven!SenderInit, Proven!Idle,
       Proven!NoView
<1>2. [Sender!Next]_(Sender!vars) => [Proven!Next]_(Proven!vars)
  <2>1. ASSUME NEW p \in Process, Sender!Step(p) \/ Sender!SubmitUnanswered(p) \/ Sender!Crash(p)
        PROVE  Proven!Next
    BY <2>1, SameSteps, Zenon DEF Proven!Next
  <2>2. ASSUME NEW p \in Process, NEW m \in Message, Sender!Ask(p, m) \/ Sender!Refresh(p, m)
        PROVE  Proven!Next
    BY <2>2, SameAsks, Zenon DEF Proven!Next
  <2>3. ASSUME NEW m \in Message, Sender!Accept(m) \/ Sender!Refuse(m)
        PROVE  Proven!Next
    BY <2>3, SameSubmissions, Zenon DEF Proven!Next
  <2>4. Sender!Remote => Proven!Next BY SameRemote, Zenon DEF Proven!Next
  <2>5. Sender!Next => Proven!Next BY <2>1, <2>2, <2>3, <2>4, Zenon DEF Sender!Next
  <2>6. UNCHANGED Sender!vars => UNCHANGED Proven!vars
    BY Zenon DEF Sender!vars, Sender!deliveryVars, Sender!senderVars, Proven!vars, Proven!deliveryVars, Proven!senderVars
  <2> QED BY <2>5, <2>6
<1> QED BY <1>1, <1>2, PTL DEF Sender!Spec, Proven!Spec

LEMMA SamePromise == Spec => Proven!Promise
<1>1. Delivery!DeliveryInit => Proven!DeliveryInit
  BY DEF Delivery!DeliveryInit, Proven!DeliveryInit
<1>2. ASSUME NEW m, NEW s, NEW r, NEW h, Delivery!May(m, s, r, h)
      PROVE  Proven!May(m, s, r, h)
  BY <1>2 DEF Delivery!May, Delivery!WithoutRun, Delivery!Progress, Delivery!Reported, Delivery!Held,
       Proven!May, Proven!WithoutRun, Proven!Progress, Proven!Reported, Proven!Held
<1>3. [Delivery!DeliverSome]_(Delivery!deliveryVars) => [Proven!DeliverSome]_(Proven!deliveryVars)
  BY <1>2 DEF Delivery!DeliverSome, Delivery!deliveryVars, Proven!DeliverSome, Proven!deliveryVars
<1> QED BY <1>1, <1>3, Implements, PTL DEF ImplementsRemoteDelivery, Delivery!Promise, Proven!Promise

-----------------------------------------------------------------------------
(***************************************************************************)
(* From end to end.                                                        *)
(***************************************************************************)

\* A final status of the coordinator means that the process on the other device
\* is over, unless the row's cleanup hold says that it may go on
\* (coordinator-service.js, deliveryResult; runner.js, report).
THEOREM FinalMeansStopped ==
  Spec => [](\A m \in Message : queue[m].status \in FinalStatus /\ MayRun(m) => queue[m].hold)
<1>1. Proven!Stopped =>
        \A m \in Message : queue[m].status \in FinalStatus /\ MayRun(m) => queue[m].hold
  BY DEF Proven!Stopped, Proven!Final, FinalStatus, TerminalStatus, RunOf
<1> QED BY <1>1, SamePromise, Proven!FinishedMeansStopped, AskAssumption, PTL

\* While a chat wake is on its way, queued, lost track of, or may run on the other
\* computer, no other of its Agent is, with the real other side: the claim of the
\* sending device outlives lost submissions, late answers and crashes of either
\* (service.js:394).
THEOREM OneWakeAtATime == AskSpec => []OneWakeEndToEnd
<1>1. Proven!OneRemoteWake => OneWakeEndToEnd
  BY DEF OneWakeEndToEnd, Sender!OneRemoteWake, Sender!MayRun, Sender!Held,
         Proven!OneRemoteWake, Proven!MayRun, Proven!Held
<1> QED BY <1>1, SenderAsBefore, SameSpec, Proven!RemoteWakesAreExclusive, AskAssumption, PTL
        DEF ImplementsPeerSender

\* What an ask shows as answered, expired or cancelled is true of the process on
\* the other computer, whatever was lost, late or crashed in between (service.js,
\* applyRemote; coordinator-service.js; runner.js).
THEOREM ShownOutcomesAreTrue == AskSpec => []ShownIsOver
<1>1. Proven!ShownIsTrue /\ Proven!Stopped /\ Proven!Answered /\ Proven!Unstarted => ShownIsOver
  <2> SUFFICES ASSUME Proven!ShownIsTrue, Proven!Stopped, Proven!Answered, Proven!Unstarted, NEW m \in Message
               PROVE  /\ ask[m] = "answered" \/ replies[m] > 0 => EverRan(m) /\ ~MayRun(m)
                      /\ ask[m] = "expired" => ~EverRan(m)
                      /\ ask[m] = "cancelled" /\ MayRun(m) => queue[m].hold
    BY DEF ShownIsOver
  <2>1. /\ ask[m] \in {"answered", "cancelled", "expired"} => queue[m].status = ask[m]
        /\ replies[m] > 0 => queue[m].status = "answered"
    BY DEF Proven!ShownIsTrue
  <2>2. /\ queue[m].status = "answered" => RunOf(m) = "gone"
        /\ queue[m].status = "expired" => RunOf(m) = "never"
        /\ queue[m].status = "cancelled" /\ RunOf(m) = "live" => queue[m].hold
    BY DEF Proven!Stopped, Proven!Answered, Proven!Unstarted, Proven!Final
  <2>3. /\ RunOf(m) = "gone" => EverRan(m) /\ ~MayRun(m)
        /\ RunOf(m) = "never" => ~EverRan(m)
        /\ MayRun(m) => RunOf(m) = "live"
    BY DEF RunOf, EverRan, MayRun, Ran
  <2> QED BY <2>1, <2>2, <2>3
<1> QED BY <1>1, SenderAsBefore, DeliversAsBefore, SameSpec, SamePromise, Proven!AsksShowTheTruth,
           Proven!FinishedMeansStopped, Proven!AnsweredByAProcess, Proven!WaitingHasNotRun,
           AskAssumption, PTL DEF ImplementsPeerSender
=============================================================================
