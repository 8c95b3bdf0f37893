------------------------ MODULE PeerDelivery_proofs ------------------------
(***************************************************************************)
(* PeerDelivery for every set of messages, every number of start attempts  *)
(* and every event: its types, and the safety properties that rest on the  *)
(* acceptance of an attempt.                                               *)
(*                                                                         *)
(* The argument.  The coordinator records the acceptance of the one        *)
(* current attempt and never takes it back (RowOK, KeepsAccepted).  The    *)
(* device goes on only with an attempt whose acceptance it was told of     *)
(* (AssuredOK).  So the device's confirmed attempt is the row's accepted   *)
(* one, of which there is one, and a row with an accepted attempt is       *)
(* neither queued nor expired.  LocalOK relates what the device has        *)
(* written of an attempt to where its handler is.                          *)
(***************************************************************************)
EXTENDS PeerDelivery, FiniteSetTheorems, TLAPS

HandlerState == [pc : PC, verdict : Verdict, stop : StopReason, report : Report]
BoxState == [report : Report, at : Nat, delivered : BOOLEAN]

-----------------------------------------------------------------------------
(***************************************************************************)
(* Types of the runner.                                                    *)
(***************************************************************************)

LEMMA RunnerTypes ==
  RunnerTypeOK <=>
    /\ up \in {"running", "stopping", "down"}
    /\ offered \in BOOLEAN
    /\ state \in [Message -> [Attempt -> AttemptState]]
    /\ handler \in [Message -> [Attempt -> HandlerState]]
    /\ outbox \in [Message -> [Attempt -> BoxState]]
    /\ exec \in [Message -> {"none", "asked", "active", "finished"}]
    /\ held \in SUBSET Message
    /\ proc \in [Message -> [Attempt -> {"none", "live", "gone"}]]
BY Zenon DEF RunnerTypeOK, HandlerState, BoxState

LEMMA ReportTypes ==
  /\ NoReport \in Report
  /\ Idle \in HandlerState
  /\ EmptyBox \in BoxState
  /\ \A outcome \in Outcome : ReportOf(outcome) \in Report /\ ReportOf(outcome).outcome = outcome
<1>1. NoReport \in Report
  BY DEF NoReport, Report, Outcome
<1>2. Idle \in HandlerState
  BY <1>1 DEF Idle, HandlerState, PC, Verdict, StopReason
<1>3. EmptyBox \in BoxState
  BY <1>1 DEF EmptyBox, BoxState
<1>4. \A outcome \in Outcome : ReportOf(outcome) \in Report /\ ReportOf(outcome).outcome = outcome
  BY <1>1 DEF ReportOf, NoReport, Report, Outcome
<1> QED BY <1>1, <1>2, <1>3, <1>4

LEMMA FailReportType ==
  ASSUME NEW outcome \in Outcome, NEW h \in BOOLEAN
  PROVE  /\ [NoReport EXCEPT !.outcome = outcome, !.hold = h] \in Report
         /\ [NoReport EXCEPT !.outcome = outcome, !.hold = h].outcome = outcome
         /\ [NoReport EXCEPT !.outcome = outcome, !.hold = h].hold = h
BY DEF NoReport, Report, Outcome

LEMMA FailureOutcomeType ==
  ASSUME NEW m \in Message, NEW a \in Attempt
  PROVE  FailureOutcome(m, a) \in {"unknown", "cancelled", "failed"}
BY DEF FailureOutcome

\* What each way of moving a handler does to it, and to no other.
Others(m, a) ==
  \A n \in Message, b \in Attempt : n # m \/ b # a => handler'[n][b] = handler[n][b]

LEMMA SetHandler ==
  ASSUME RunnerTypeOK, NEW m \in Message, NEW a \in Attempt, NEW h \in HandlerState,
         handler' = [handler EXCEPT ![m][a] = h]
  PROVE  /\ handler' \in [Message -> [Attempt -> HandlerState]]
         /\ handler'[m][a] = h
         /\ Others(m, a)
BY RunnerTypes DEF Others

LEMMA GotoStep ==
  ASSUME RunnerTypeOK, NEW m \in Message, NEW a \in Attempt, NEW pc \in PC, Goto(m, a, pc)
  PROVE  /\ handler' \in [Message -> [Attempt -> HandlerState]]
         /\ handler'[m][a].pc = pc
         /\ handler'[m][a].verdict = handler[m][a].verdict
         /\ handler'[m][a].stop = handler[m][a].stop
         /\ handler'[m][a].report = handler[m][a].report
         /\ Others(m, a)
<1> DEFINE h == handler[m][a]
           g == [h EXCEPT !.pc = pc]
<1>1. h \in HandlerState
  BY RunnerTypes
<1>2. handler' = [handler EXCEPT ![m][a] = g]
  BY Zenon DEF Goto
<1> HIDE DEF h
<1>3. /\ g \in HandlerState
      /\ g.pc = pc /\ g.verdict = h.verdict /\ g.stop = h.stop /\ g.report = h.report
  BY <1>1 DEF HandlerState
<1> HIDE DEF g
<1> QED BY <1>2, <1>3, SetHandler DEF h

LEMMA SettleStep ==
  ASSUME RunnerTypeOK, NEW m \in Message, NEW a \in Attempt, NEW r \in Report, Settle(m, a, r)
  PROVE  /\ handler' \in [Message -> [Attempt -> HandlerState]]
         /\ handler'[m][a].pc = "settling"
         /\ handler'[m][a].report = r
         /\ Others(m, a)
<1> DEFINE h == handler[m][a]
           g == [h EXCEPT !.pc = "settling", !.report = r]
<1>1. h \in HandlerState
  BY RunnerTypes
<1>2. handler' = [handler EXCEPT ![m][a] = g]
  BY Zenon DEF Settle
<1> HIDE DEF h
<1>3. g \in HandlerState /\ g.pc = "settling" /\ g.report = r
  BY <1>1 DEF HandlerState, PC
<1> HIDE DEF g
<1> QED BY <1>2, <1>3, SetHandler

LEMMA ConcludeStep ==
  ASSUME RunnerTypeOK, NEW m \in Message, NEW a \in Attempt, NEW r \in Report, Conclude(m, a, r)
  PROVE  /\ handler' \in [Message -> [Attempt -> HandlerState]]
         /\ handler'[m][a].pc = "reporting"
         /\ handler'[m][a].report = r
         /\ Others(m, a)
<1> DEFINE h == handler[m][a]
           g == [h EXCEPT !.pc = "reporting", !.report = r]
<1>1. h \in HandlerState
  BY RunnerTypes
<1>2. handler' = [handler EXCEPT ![m][a] = g]
  BY Zenon DEF Conclude
<1> HIDE DEF h
<1>3. g \in HandlerState /\ g.pc = "reporting" /\ g.report = r
  BY <1>1 DEF HandlerState, PC
<1> HIDE DEF g
<1> QED BY <1>2, <1>3, SetHandler

LEMMA AcknowledgeStep ==
  ASSUME RunnerTypeOK, NEW m \in Message, NEW a \in Attempt, NEW v \in Verdict, Acknowledge(m, a, v)
  PROVE  /\ handler' \in [Message -> [Attempt -> HandlerState]]
         /\ handler'[m][a].pc = "acknowledged"
         /\ handler'[m][a].verdict = v
         /\ Others(m, a)
<1> DEFINE h == handler[m][a]
           g == [h EXCEPT !.pc = "acknowledged", !.verdict = v]
<1>1. h \in HandlerState
  BY RunnerTypes
<1>2. handler' = [handler EXCEPT ![m][a] = g]
  BY Zenon DEF Acknowledge
<1> HIDE DEF h
<1>3. g \in HandlerState /\ g.pc = "acknowledged" /\ g.verdict = v
  BY <1>1 DEF HandlerState, PC
<1> HIDE DEF g
<1> QED BY <1>2, <1>3, SetHandler

\* A stop changes the reason only, and never from one reason to none.
OnlyStops(h, g) ==
  /\ g.pc = h.pc
  /\ g.verdict = h.verdict
  /\ g.report = h.report
  /\ g.stop = "none" => h.stop = "none"

LEMMA StoppingType ==
  ASSUME NEW h \in HandlerState, NEW reason \in StopReason
  PROVE  /\ Stopping(h, reason) \in HandlerState
         /\ OnlyStops(h, Stopping(h, reason))
         /\ reason # "none" /\ h.pc \in Supervised => Stopping(h, reason).stop # "none"
<1>1. CASE h.pc \in Supervised /\ h.stop = "none"
  <2> DEFINE g == [h EXCEPT !.stop = reason]
  <2>1. g \in HandlerState /\ g.pc = h.pc /\ g.verdict = h.verdict /\ g.report = h.report /\ g.stop = reason
    BY DEF HandlerState
  <2>2. Stopping(h, reason) = g
    BY <1>1 DEF Stopping
  <2> HIDE DEF g
  <2> QED BY <1>1, <2>1, <2>2 DEF OnlyStops
<1>2. CASE ~(h.pc \in Supervised /\ h.stop = "none")
  BY <1>2 DEF Stopping, OnlyStops
<1> QED BY <1>1, <1>2

LEMMA SetStateStep ==
  ASSUME RunnerTypeOK, NEW m \in Message, NEW a \in Attempt, NEW s \in AttemptState, SetState(m, a, s)
  PROVE  /\ state' \in [Message -> [Attempt -> AttemptState]]
         /\ state'[m][a] = s
         /\ \A n \in Message, b \in Attempt : n # m \/ b # a => state'[n][b] = state[n][b]
BY RunnerTypes DEF SetState

LEMMA FailStep ==
  ASSUME RunnerTypeOK, NEW m \in Message, NEW a \in Attempt, NEW outcome \in Outcome \ {"never_started"},
         NEW h \in BOOLEAN, Fail(m, a, outcome, h)
  PROVE  /\ handler' \in [Message -> [Attempt -> HandlerState]]
         /\ handler'[m][a].pc = "reporting"
         /\ handler'[m][a].report.outcome = outcome
         /\ handler'[m][a].report.hold = h
         /\ Others(m, a)
<1> DEFINE r == [NoReport EXCEPT !.outcome = outcome, !.hold = h]
<1>1. r \in Report /\ r.outcome = outcome /\ r.hold = h
  BY FailReportType
<1>2. Conclude(m, a, r)
  BY Zenon DEF Fail
<1> HIDE DEF r
<1> QED BY <1>1, <1>2, ConcludeStep

LEMMA FinishExecType ==
  ASSUME RunnerTypeOK, NEW m \in Message, FinishExec(m)
  PROVE  exec' \in [Message -> {"none", "asked", "active", "finished"}]
BY DEF RunnerTypeOK, FinishExec

LEMMA FiniteQueued == Cardinality(Queued) \in Nat
<1>1. IsFiniteSet(Attempt)
  BY CoordinatorAssumption, FS_Interval DEF Attempt
<1>2. IsFiniteSet(Message \X Attempt)
  BY <1>1, CoordinatorAssumption, FS_Product
<1>3. IsFiniteSet(Queued)
  BY <1>2, FS_Subset DEF Queued
<1> QED BY <1>3, FS_CardinalityType

LEMMA BoxType ==
  ASSUME NEW old \in BoxState, NEW report \in Report
  PROVE  /\ Box(old, report) \in BoxState
         /\ old.report.outcome # "none" => Box(old, report) = old
         /\ old.report.outcome = "none" => Box(old, report).report = report
BY FiniteQueued DEF Box, BoxState

-----------------------------------------------------------------------------
(***************************************************************************)
(* What the device has written of an attempt, and where its handler is.    *)
(***************************************************************************)

\* What a report says of the process of its attempt.
Truthful(m, a, report) ==
  /\ report.outcome = "never_started" => state[m][a] \notin StartedState \cup {"none"}
  /\ report.outcome = "answered" => proc[m][a] = "gone"
  /\ report.outcome \in {"failed", "cancelled"} /\ proc[m][a] = "live" => report.hold

LocalOK(m, a) ==
  /\ up = "down" => handler[m][a].pc = "none"
  /\ handler[m][a].pc \in {"accepting", "acknowledged"} => state[m][a] = "claimed"
  /\ handler[m][a].pc = "authorizing" => state[m][a] = "accepted"
  /\ handler[m][a].pc \in Supervised => state[m][a] \in {"starting", "running"}
  /\ handler[m][a].pc \in Supervised \ {"watching"} => proc[m][a] = "none"
  /\ handler[m][a].pc \in Supervised /\ handler[m][a].stop = "none" => offered
  /\ handler[m][a].pc = "reporting" => state[m][a] \in {"starting", "running"}
  /\ handler[m][a].pc = "settling" => state[m][a] # "none"
  /\ handler[m][a].pc \in {"reporting", "settling"} => Truthful(m, a, handler[m][a].report)
  /\ outbox[m][a].report.outcome # "none" => handler[m][a].pc = "none" /\ state[m][a] # "none"
  /\ Truthful(m, a, outbox[m][a].report)
  /\ Ran(m, a) => state[m][a] \in StartedState
  /\ handler[m][a].pc = "watching" => Ran(m, a)

\* A report that only an attempt the coordinator confirmed can make.
Vouched(report) == report.outcome \notin {"none", "never_started"}

\* The device was told that attempt a of message m is accepted.
Assured(m, a) ==
  \/ Confirmed(m, a)
  \/ handler[m][a].pc = "acknowledged" /\ Granted(handler[m][a].verdict)
  \/ handler[m][a].pc = "settling" /\ Vouched(handler[m][a].report)
  \/ Vouched(outbox[m][a].report)

\* What a step shows for one attempt: it is assured of nothing that was not
\* recorded, and its report stays queued.
Good(m, a) ==
  /\ LocalOK(m, a)'
  /\ Assured(m, a)' => Assured(m, a) \/ queue'[m].accepted = a
  /\ outbox[m][a].report.outcome # "none" => outbox'[m][a].report.outcome # "none"

\* A step of attempt a of message m leaves the others alone.
Frame(m, a) ==
  /\ up' = up /\ offered' = offered
  /\ \A n \in Message, b \in Attempt : n # m \/ b # a =>
       /\ state'[n][b] = state[n][b]
       /\ handler'[n][b] = handler[n][b]
       /\ outbox'[n][b] = outbox[n][b]
       /\ proc'[n][b] = proc[n][b]

AllGood == \A n \in Message, b \in Attempt : Good(n, b)

LEMMA Untouched ==
  ASSUME NEW n \in Message, NEW b \in Attempt, LocalOK(n, b), up' = up, offered' = offered,
         state'[n][b] = state[n][b], handler'[n][b] = handler[n][b],
         outbox'[n][b] = outbox[n][b], proc'[n][b] = proc[n][b]
  PROVE  Good(n, b)
BY DEF Good, LocalOK, Truthful, Vouched, Assured, Confirmed, Ran

LEMMA FrameGood ==
  ASSUME NEW m \in Message, NEW a \in Attempt, Good(m, a), Frame(m, a),
         \A n \in Message, b \in Attempt : LocalOK(n, b)
  PROVE  AllGood
BY Untouched DEF Frame, AllGood

LEMMA NotNoOutcome == "none" \notin Outcome
BY DEF Outcome

LEMMA HandleStep ==
  ASSUME RunnerTypeOK, \A n \in Message, b \in Attempt : LocalOK(n, b),
         NEW m \in Message, NEW a \in Attempt, Handle(m, a)
  PROVE  RunnerTypeOK' /\ AllGood /\ Frame(m, a)
<1> SUFFICES RunnerTypeOK' /\ Frame(m, a) /\ Good(m, a)
  BY FrameGood
<1>0. /\ LocalOK(m, a)
      /\ handler[m][a] \in HandlerState
      /\ outbox[m][a] \in BoxState
      /\ proc[m][a] \in {"none", "live", "gone"}
  BY RunnerTypes
<1>1. CASE AcceptFailed(m, a)
  <2>1. SetState(m, a, "not_started") /\ Settle(m, a, ReportOf("never_started"))
        /\ handler[m][a].pc \in {"accepting", "acknowledged"}
    BY <1>1 DEF AcceptFailed
  <2>2. /\ state'[m][a] = "not_started" /\ handler'[m][a].pc = "settling"
        /\ handler'[m][a].report.outcome = "never_started"
        /\ state' \in [Message -> [Attempt -> AttemptState]]
        /\ handler' \in [Message -> [Attempt -> HandlerState]]
        /\ Others(m, a) /\ \A n \in Message, b \in Attempt : n # m \/ b # a => state'[n][b] = state[n][b]
    BY <2>1, SetStateStep, SettleStep, ReportTypes DEF AttemptState, Outcome
  <2>3. RunnerTypeOK' /\ Frame(m, a)
    BY <1>1, <2>2, RunnerTypes DEF AcceptFailed, Frame, Others, RunnerTypeOK, HandlerState
  <2>4. Good(m, a)
    BY <1>0, <1>1, <2>1, <2>2
    DEF AcceptFailed, Good, LocalOK, Truthful, Vouched, Assured, Confirmed, Ran, StartedState, ConfirmedPC, Supervised
  <2> QED BY <2>3, <2>4
<1>2. CASE Accepted(m, a)
  <2>1. /\ state'[m][a] = "accepted" /\ handler'[m][a].pc = "authorizing"
        /\ state' \in [Message -> [Attempt -> AttemptState]]
        /\ handler' \in [Message -> [Attempt -> HandlerState]]
        /\ Others(m, a) /\ \A n \in Message, b \in Attempt : n # m \/ b # a => state'[n][b] = state[n][b]
    BY <1>2, SetStateStep, GotoStep DEF Accepted, AttemptState, PC, ConfirmedPC
  <2>2. RunnerTypeOK' /\ Frame(m, a)
    BY <1>2, <2>1, RunnerTypes DEF Accepted, Frame, Others, RunnerTypeOK, HandlerState
  <2>3. Good(m, a)
    BY <1>0, <1>2, <2>1
    DEF Accepted, Good, LocalOK, Truthful, Vouched, Assured, Confirmed, Ran, StartedState, ConfirmedPC, Supervised
  <2> QED BY <2>2, <2>3
<1>3. CASE Authorize(m, a)
  <2>1. ASSUME NEW s \in {"not_started", "rejected"},
               NEW o \in {"cancelled", "failed", "never_started"},
               SetState(m, a, s), Settle(m, a, ReportOf(o)), o = "never_started" => s = "not_started"
        PROVE  RunnerTypeOK' /\ Frame(m, a) /\ Good(m, a)
    <3>1. /\ state'[m][a] = s /\ handler'[m][a].pc = "settling"
          /\ handler'[m][a].report.outcome = o
          /\ state' \in [Message -> [Attempt -> AttemptState]]
          /\ handler' \in [Message -> [Attempt -> HandlerState]]
          /\ Others(m, a) /\ \A n \in Message, b \in Attempt : n # m \/ b # a => state'[n][b] = state[n][b]
      BY <2>1, SetStateStep, SettleStep, ReportTypes DEF AttemptState, Outcome
    <3>2. RunnerTypeOK' /\ Frame(m, a)
      BY <1>3, <3>1, RunnerTypes DEF Authorize, Frame, Others, RunnerTypeOK, HandlerState
    <3>3. Good(m, a)
      BY <1>0, <1>3, <2>1, <3>1 DEF Authorize, Good, LocalOK, Truthful, Vouched, Assured, Confirmed, Ran, StartedState, ConfirmedPC, Supervised
    <3> QED BY <3>2, <3>3
  <2>2. CASE SetState(m, a, "starting") /\ Goto(m, a, "supervising") /\ Authorized(m, a)
    <3>1. /\ state'[m][a] = "starting" /\ handler'[m][a].pc = "supervising"
          /\ handler'[m][a].stop = handler[m][a].stop
          /\ state' \in [Message -> [Attempt -> AttemptState]]
          /\ handler' \in [Message -> [Attempt -> HandlerState]]
          /\ Others(m, a) /\ \A n \in Message, b \in Attempt : n # m \/ b # a => state'[n][b] = state[n][b]
      BY <2>2, SetStateStep, GotoStep DEF AttemptState, PC, ConfirmedPC, Supervised
    <3>2. RunnerTypeOK' /\ Frame(m, a)
      BY <1>3, <3>1, RunnerTypes DEF Authorize, Frame, Others, RunnerTypeOK, HandlerState
    <3>3. Good(m, a)
      BY <1>0, <1>3, <2>2, <3>1 DEF Authorize, Authorized, Good, LocalOK, Truthful, Vouched, Assured, Confirmed, Ran, StartedState, ConfirmedPC, Supervised
    <3> QED BY <3>2, <3>3
  <2> QED BY <1>3, <2>1, <2>2 DEF Authorize
<1>4. ASSUME NEW h \in BOOLEAN, Fail(m, a, FailureOutcome(m, a), h)
      PROVE  /\ handler'[m][a].pc = "reporting"
             /\ handler'[m][a].report.outcome \in {"unknown", "cancelled", "failed"}
             /\ handler'[m][a].report.hold = h
             /\ handler' \in [Message -> [Attempt -> HandlerState]]
             /\ Others(m, a)
  BY <1>4, FailureOutcomeType, FailStep DEF Outcome
<1>5. CASE BeginAnswer(m, a)
  <2>1. exec' \in [Message -> {"none", "asked", "active", "finished"}]
    BY <1>5, RunnerTypes DEF BeginAnswer
  <2>2. CASE Goto(m, a, "waking")
    <3>1. /\ handler'[m][a].pc = "waking" /\ handler'[m][a].stop = handler[m][a].stop
          /\ handler' \in [Message -> [Attempt -> HandlerState]] /\ Others(m, a)
      BY <2>2, GotoStep DEF PC, ConfirmedPC, Supervised
    <3>2. RunnerTypeOK' /\ Frame(m, a)
      BY <1>5, <2>1, <2>2, <3>1, RunnerTypes DEF BeginAnswer, Frame, Others, RunnerTypeOK, HandlerState
    <3>3. Good(m, a)
      BY <1>0, <1>5, <2>2, <3>1 DEF BeginAnswer, Good, LocalOK, Truthful, Vouched, Assured, Confirmed, Ran, StartedState, ConfirmedPC, Supervised
    <3> QED BY <3>2, <3>3
  <2>3. CASE Fail(m, a, FailureOutcome(m, a), FALSE)
    <3>0. PICK h \in BOOLEAN : Fail(m, a, FailureOutcome(m, a), h)
      BY <2>3, Zenon
    <3>1. RunnerTypeOK' /\ Frame(m, a)
      BY <1>4, <1>5, <2>1, <3>0, RunnerTypes DEF BeginAnswer, Frame, Others, RunnerTypeOK, HandlerState
    <3>2. Good(m, a)
      BY <1>0, <1>4, <1>5, <3>0 DEF BeginAnswer, Good, LocalOK, Truthful, Vouched, Assured, Confirmed, Ran, StartedState, ConfirmedPC, Supervised
    <3> QED BY <3>1, <3>2
  <2> QED BY <1>5, <2>2, <2>3 DEF BeginAnswer
<1>6. CASE IssueGrant(m, a)
  <2>1. /\ handler'[m][a].pc = "cleared" /\ handler'[m][a].stop = handler[m][a].stop
        /\ handler' \in [Message -> [Attempt -> HandlerState]] /\ Others(m, a)
    BY <1>6, GotoStep DEF IssueGrant, PC, ConfirmedPC, Supervised
  <2>2. RunnerTypeOK' /\ Frame(m, a)
    BY <1>6, <2>1, RunnerTypes DEF IssueGrant, Frame, Others, RunnerTypeOK, HandlerState
  <2>3. Good(m, a)
    BY <1>0, <1>6, <2>1 DEF IssueGrant, Good, LocalOK, Truthful, Vouched, Assured, Confirmed, Ran, StartedState, ConfirmedPC, Supervised
  <2> QED BY <2>2, <2>3
<1>7. CASE WakeFails(m, a)
  <2>1. exec' \in [Message -> {"none", "asked", "active", "finished"}]
    BY <1>7, FinishExecType DEF WakeFails
  <2>0. PICK h \in BOOLEAN : Fail(m, a, FailureOutcome(m, a), h)
    BY <1>7, Zenon DEF WakeFails
  <2>2. RunnerTypeOK' /\ Frame(m, a)
    BY <1>4, <1>7, <2>0, <2>1, RunnerTypes DEF WakeFails, Frame, Others, RunnerTypeOK, HandlerState
  <2>3. Good(m, a)
    BY <1>0, <1>4, <1>7, <2>0 DEF WakeFails, Good, LocalOK, Truthful, Vouched, Assured, Confirmed, Ran, StartedState, ConfirmedPC, Supervised
  <2> QED BY <2>2, <2>3
<1>8. CASE Spawn(m, a)
  <2>1. /\ handler'[m][a].pc = "watching" /\ handler'[m][a].stop = handler[m][a].stop
        /\ handler' \in [Message -> [Attempt -> HandlerState]] /\ Others(m, a)
    BY <1>8, GotoStep DEF Spawn, PC, ConfirmedPC, Supervised
  <2>2. /\ proc' \in [Message -> [Attempt -> {"none", "live", "gone"}]]
        /\ proc'[m][a] = "live"
        /\ \A n \in Message, b \in Attempt : n # m \/ b # a => proc'[n][b] = proc[n][b]
    BY <1>8, RunnerTypes DEF Spawn
  <2>3. RunnerTypeOK' /\ Frame(m, a)
    BY <1>8, <2>1, <2>2, RunnerTypes DEF Spawn, Frame, Others, RunnerTypeOK, HandlerState
  <2>4. Good(m, a)
    BY <1>0, <1>8, <2>1, <2>2 DEF Spawn, Good, LocalOK, Truthful, Vouched, Assured, Confirmed, Ran, StartedState, ConfirmedPC, Supervised
  <2> QED BY <2>3, <2>4
<1>9. CASE OnSpawn(m, a)
  <2>1. /\ state'[m][a] = "running"
        /\ state' \in [Message -> [Attempt -> AttemptState]]
        /\ \A n \in Message, b \in Attempt : n # m \/ b # a => state'[n][b] = state[n][b]
    BY <1>9, SetStateStep DEF OnSpawn, AttemptState
  <2>2. RunnerTypeOK' /\ Frame(m, a)
    BY <1>9, <2>1, RunnerTypes DEF OnSpawn, Frame, RunnerTypeOK, HandlerState
  <2>3. Good(m, a)
    BY <1>0, <1>9, <2>1 DEF OnSpawn, Good, LocalOK, Truthful, Vouched, Assured, Confirmed, Ran, StartedState, ConfirmedPC, Supervised
  <2> QED BY <2>2, <2>3
<1>10. CASE Exit(m, a)
  <2>1. exec' \in [Message -> {"none", "asked", "active", "finished"}]
    BY <1>10, FinishExecType DEF Exit
  <2>2. /\ proc' \in [Message -> [Attempt -> {"none", "live", "gone"}]]
        /\ proc'[m][a] = "gone"
        /\ \A n \in Message, b \in Attempt : n # m \/ b # a => proc'[n][b] = proc[n][b]
    BY <1>10, RunnerTypes DEF Exit
  <2>3. CASE \E h \in BOOLEAN : Fail(m, a, FailureOutcome(m, a), h)
    <3> PICK h \in BOOLEAN : Fail(m, a, FailureOutcome(m, a), h)
      BY <2>3
    <3>1. RunnerTypeOK' /\ Frame(m, a)
      BY <1>4, <1>10, <2>1, <2>2, RunnerTypes DEF Exit, Frame, Others, RunnerTypeOK, HandlerState
    <3>2. handler[m][a].pc = "watching" /\ up' = up /\ offered' = offered /\ state' = state /\ outbox' = outbox
      BY <1>10 DEF Exit
    <3>3. Good(m, a)
      <4>1. /\ handler'[m][a].pc = "reporting"
            /\ handler'[m][a].report.outcome \in {"unknown", "cancelled", "failed"}
        BY <1>4
      <4> QED BY <1>0, <2>2, <3>2, <4>1 DEF Good, LocalOK, Truthful, Vouched, Assured, Confirmed, Ran, StartedState, ConfirmedPC, Supervised
    <3> QED BY <3>1, <3>3
  <2>4. CASE \E s \in AnswerSizes : Conclude(m, a, [outcome |-> "answered", hold |-> FALSE, size |-> s])
    <3> PICK s \in AnswerSizes : Conclude(m, a, [outcome |-> "answered", hold |-> FALSE, size |-> s])
      BY <2>4
    <3> DEFINE r == [outcome |-> "answered", hold |-> FALSE, size |-> s]
    <3>1. r \in Report /\ r.outcome = "answered"
      BY RunnerAssumption DEF Report, Outcome
    <3>2. Conclude(m, a, r)
      OBVIOUS
    <3> HIDE DEF r
    <3>3. /\ handler'[m][a].pc = "reporting"
          /\ handler'[m][a].report.outcome = "answered"
          /\ handler' \in [Message -> [Attempt -> HandlerState]]
          /\ Others(m, a)
      BY <3>1, <3>2, ConcludeStep
    <3>4. RunnerTypeOK' /\ Frame(m, a)
      BY <1>10, <2>1, <2>2, <3>3, RunnerTypes DEF Exit, Frame, Others, RunnerTypeOK, HandlerState
    <3>5. Good(m, a)
      BY <1>0, <1>10, <2>2, <3>3 DEF Exit, Good, LocalOK, Truthful, Vouched, Assured, Confirmed, Ran, StartedState, ConfirmedPC, Supervised
    <3> QED BY <3>4, <3>5
  <2> QED BY <1>10, <2>3, <2>4, Zenon DEF Exit
<1>11. CASE CleanupUnconfirmed(m, a)
  <2>0. PICK h \in {TRUE} : Fail(m, a, FailureOutcome(m, a), h)
    BY <1>11, Zenon DEF CleanupUnconfirmed
  <2>1. RunnerTypeOK' /\ Frame(m, a)
    BY <1>4, <1>11, <2>0, RunnerTypes DEF CleanupUnconfirmed, Frame, Others, RunnerTypeOK, HandlerState
  <2>2. Good(m, a)
    BY <1>0, <1>4, <1>11, <2>0 DEF CleanupUnconfirmed, Good, LocalOK, Truthful, Vouched, Assured, Confirmed, Ran, StartedState, ConfirmedPC, Supervised
  <2> QED BY <2>1, <2>2
<1>12. CASE QueueReport(m, a)
  <2> DEFINE box == Box(outbox[m][a], handler[m][a].report)
  <2>1. /\ box \in BoxState
        /\ outbox[m][a].report.outcome # "none" => box = outbox[m][a]
        /\ outbox[m][a].report.outcome = "none" => box.report = handler[m][a].report
    BY <1>0, BoxType DEF HandlerState
  <2>2. outbox' = [outbox EXCEPT ![m][a] = box]
    BY <1>12 DEF QueueReport
  <2> HIDE DEF box
  <2>3. /\ outbox' \in [Message -> [Attempt -> BoxState]]
        /\ outbox'[m][a] = box
        /\ \A n \in Message, b \in Attempt : n # m \/ b # a => outbox'[n][b] = outbox[n][b]
    BY <2>1, <2>2, RunnerTypes
  <2>4. /\ handler' \in [Message -> [Attempt -> HandlerState]]
        /\ handler'[m][a] = Idle
        /\ Others(m, a)
    BY <1>12, ReportTypes, SetHandler DEF QueueReport
  <2>5. Idle.pc = "none"
    BY DEF Idle
  <2>6. RunnerTypeOK' /\ Frame(m, a)
    BY <1>12, <2>3, <2>4, RunnerTypes DEF QueueReport, Frame, Others, RunnerTypeOK, HandlerState, BoxState
  <2>7. Good(m, a)
    BY <1>0, <1>12, <2>1, <2>3, <2>4, <2>5 DEF QueueReport, Good, LocalOK, Truthful, Vouched, Assured, Confirmed, Ran, StartedState, ConfirmedPC, Supervised
  <2> QED BY <2>6, <2>7
<1>13. CASE LeaseDeadline(m, a)
  <2> DEFINE g == Stopping(handler[m][a], "lease_lost")
  <2>1. g \in HandlerState /\ OnlyStops(handler[m][a], g)
    BY <1>0, StoppingType DEF StopReason
  <2>2. handler' = [handler EXCEPT ![m][a] = g]
    BY <1>13 DEF LeaseDeadline
  <2> HIDE DEF g
  <2>3. /\ handler' \in [Message -> [Attempt -> HandlerState]]
        /\ handler'[m][a] = g
        /\ Others(m, a)
    BY <2>1, <2>2, SetHandler
  <2>4. RunnerTypeOK' /\ Frame(m, a)
    BY <1>13, <2>3, RunnerTypes DEF LeaseDeadline, Frame, Others, RunnerTypeOK, HandlerState
  <2>5. Good(m, a)
    BY <1>0, <1>13, <2>1, <2>3 DEF LeaseDeadline, OnlyStops, Good, LocalOK, Truthful, Vouched, Assured, Confirmed, Ran, StartedState, ConfirmedPC, Supervised
  <2> QED BY <2>4, <2>5
<1>14. CASE OrphanExits(m, a)
  <2>1. /\ proc' \in [Message -> [Attempt -> {"none", "live", "gone"}]]
        /\ proc'[m][a] = "gone"
        /\ \A n \in Message, b \in Attempt : n # m \/ b # a => proc'[n][b] = proc[n][b]
    BY <1>14, RunnerTypes DEF OrphanExits
  <2>2. RunnerTypeOK' /\ Frame(m, a)
    BY <1>14, <2>1, RunnerTypes DEF OrphanExits, Frame, RunnerTypeOK, HandlerState
  <2>3. Good(m, a)
    BY <1>0, <1>14, <2>1 DEF OrphanExits, Good, LocalOK, Truthful, Vouched, Assured, Confirmed, Ran, StartedState, ConfirmedPC, Supervised
  <2> QED BY <2>2, <2>3
<1>15. CASE RecordFinished(m, a)
  <2>1. /\ state'[m][a] = "finished"
        /\ handler'[m][a].pc = "settling"
        /\ handler'[m][a].report = handler[m][a].report
        /\ state' \in [Message -> [Attempt -> AttemptState]]
        /\ handler' \in [Message -> [Attempt -> HandlerState]]
        /\ Others(m, a) /\ \A n \in Message, b \in Attempt : n # m \/ b # a => state'[n][b] = state[n][b]
    BY <1>15, SetStateStep, GotoStep DEF RecordFinished, AttemptState, PC
  <2>2. RunnerTypeOK' /\ Frame(m, a)
    BY <1>15, <2>1, RunnerTypes DEF RecordFinished, Frame, Others, RunnerTypeOK, HandlerState
  <2>3. Good(m, a)
    BY <1>0, <1>15, <2>1 DEF RecordFinished, Good, LocalOK, Truthful, Vouched, Assured, Confirmed, Ran, StartedState, ConfirmedPC, Supervised
  <2> QED BY <2>2, <2>3
<1> QED BY <1>1, <1>2, <1>3, <1>5, <1>6, <1>7, <1>8, <1>9, <1>10, <1>11, <1>12, <1>13, <1>14, <1>15 DEF Handle

LEMMA TakeClaimStep ==
  ASSUME RunnerTypeOK, \A n \in Message, b \in Attempt : LocalOK(n, b),
         NEW m \in Message, NEW a \in Attempt, TakeClaim(m, a)
  PROVE  RunnerTypeOK' /\ AllGood
<1>0. LocalOK(m, a) /\ outbox[m][a] \in BoxState
  BY RunnerTypes
<1>1. /\ state'[m][a] = "claimed" /\ handler'[m][a].pc = "accepting"
      /\ state' \in [Message -> [Attempt -> AttemptState]]
      /\ handler' \in [Message -> [Attempt -> HandlerState]]
      /\ Others(m, a) /\ \A n \in Message, b \in Attempt : n # m \/ b # a => state'[n][b] = state[n][b]
  BY SetStateStep, GotoStep DEF TakeClaim, AttemptState, PC
<1>2. RunnerTypeOK' /\ Frame(m, a)
  BY <1>1, RunnerTypes DEF TakeClaim, Frame, Others, RunnerTypeOK, HandlerState
<1>3. Good(m, a)
  BY <1>0, <1>1 DEF TakeClaim, Good, LocalOK, Truthful, Vouched, Assured, Confirmed, Ran, StartedState, ConfirmedPC, Supervised
<1> QED BY <1>2, <1>3, FrameGood

\* A stop of one handler, and of all of them.
LEMMA StopOneStep ==
  ASSUME RunnerTypeOK, \A n \in Message, b \in Attempt : LocalOK(n, b),
         NEW m \in Message, NEW a \in Attempt, NEW reason \in StopReason,
         handler' = [handler EXCEPT ![m][a] = Stopping(@, reason)],
         UNCHANGED <<up, offered, state, outbox, exec, held, proc>>
  PROVE  RunnerTypeOK' /\ AllGood
<1> DEFINE g == Stopping(handler[m][a], reason)
<1>0. LocalOK(m, a) /\ handler[m][a] \in HandlerState
  BY RunnerTypes
<1>1. g \in HandlerState /\ OnlyStops(handler[m][a], g)
  BY <1>0, StoppingType
<1>2. handler' = [handler EXCEPT ![m][a] = g]
  OBVIOUS
<1> HIDE DEF g
<1>3. /\ handler' \in [Message -> [Attempt -> HandlerState]]
      /\ handler'[m][a] = g
      /\ Others(m, a)
  BY <1>1, <1>2, SetHandler
<1>4. RunnerTypeOK' /\ Frame(m, a)
  BY <1>3, RunnerTypes DEF Frame, Others, RunnerTypeOK, HandlerState
<1>5. Good(m, a)
  BY <1>0, <1>1, <1>3 DEF OnlyStops, Good, LocalOK, Truthful, Vouched, Assured, Confirmed, Ran, StartedState, ConfirmedPC, Supervised
<1> QED BY <1>4, <1>5, FrameGood

LEMMA StopAllStep ==
  ASSUME RunnerTypeOK, \A n \in Message, b \in Attempt : LocalOK(n, b),
         NEW reason \in StopReason \ {"none"}, StopAll(reason),
         up' # "down" \/ up = "down", up' \in {"running", "stopping", "down"}, offered' \in BOOLEAN,
         UNCHANGED <<state, outbox, exec, held, proc>>
  PROVE  RunnerTypeOK' /\ AllGood
<1>1. ASSUME NEW n \in Message, NEW b \in Attempt
      PROVE  /\ handler'[n][b] \in HandlerState
             /\ OnlyStops(handler[n][b], handler'[n][b])
             /\ handler[n][b].pc \in Supervised => handler'[n][b].stop # "none"
  <2>1. handler[n][b] \in HandlerState
    BY RunnerTypes
  <2>2. handler'[n][b] = Stopping(handler[n][b], reason)
    BY DEF StopAll
  <2> QED BY <2>1, <2>2, StoppingType
<1>2. handler' \in [Message -> [Attempt -> HandlerState]]
  BY <1>1 DEF StopAll
<1>3. RunnerTypeOK'
  BY <1>2, RunnerTypes DEF RunnerTypeOK, HandlerState
<1>4. ASSUME NEW n \in Message, NEW b \in Attempt PROVE Good(n, b)
  <2>1. LocalOK(n, b)
    OBVIOUS
  <2> QED BY <1>1, <2>1 DEF OnlyStops, Good, LocalOK, Truthful, Vouched, Assured, Confirmed, Ran, StartedState, ConfirmedPC, Supervised
<1> QED BY <1>3, <1>4 DEF AllGood

LEMMA OwnStep ==
  ASSUME RunnerTypeOK, \A n \in Message, b \in Attempt : LocalOK(n, b),
         WithdrawShare \/ StopRunner \/ Stopped \/ Restart
  PROVE  RunnerTypeOK' /\ AllGood
<1>1. CASE WithdrawShare
  BY <1>1, StopAllStep, RunnerTypes DEF WithdrawShare, StopReason
<1>2. CASE StopRunner
  BY <1>2, StopAllStep, RunnerTypes DEF StopRunner, StopReason
<1>3. CASE Stopped
  <2>1. RunnerTypeOK'
    BY <1>3 DEF Stopped, RunnerTypeOK
  <2>2. ASSUME NEW n \in Message, NEW b \in Attempt PROVE Good(n, b)
    <3>1. LocalOK(n, b)
      OBVIOUS
    <3> QED BY <1>3, <3>1 DEF Stopped, Good, LocalOK, Truthful, Vouched, Assured, Confirmed, Ran, StartedState, ConfirmedPC, Supervised
  <2> QED BY <2>1, <2>2 DEF AllGood
<1>4. CASE Restart
  <2>1. ASSUME NEW n \in Message, NEW b \in Attempt
        PROVE  /\ outbox'[n][b] \in BoxState
               /\ Good(n, b)
    <3>0. LocalOK(n, b) /\ outbox[n][b] \in BoxState /\ up = "down"
      BY <1>4, RunnerTypes DEF Restart
    <3>1. outbox'[n][b] = Recovered(n, b)
      BY <1>4 DEF Restart
    <3>2. CASE state[n][b] \notin UnfinishedState
      BY <1>4, <3>0, <3>1, <3>2 DEF Restart, Recovered, Good, LocalOK, Truthful, Vouched, Assured, Confirmed, Ran, StartedState, ConfirmedPC, Supervised
    <3>3. CASE state[n][b] \in UnfinishedState
      <4> DEFINE o == IF state[n][b] \in StartedState THEN "unknown" ELSE "never_started"
                 box == Box(outbox[n][b], ReportOf(o))
      <4>1. o \in Outcome /\ (o = "never_started" => state[n][b] \notin StartedState)
        BY DEF Outcome
      <4>2. outbox'[n][b] = box
        BY <3>1, <3>3 DEF Recovered
      <4> HIDE DEF o
      <4>3. ReportOf(o) \in Report /\ ReportOf(o).outcome = o /\ o # "none"
        BY <4>1, ReportTypes, NotNoOutcome
      <4>4. /\ box \in BoxState
            /\ outbox[n][b].report.outcome # "none" => box = outbox[n][b]
            /\ outbox[n][b].report.outcome = "none" => box.report.outcome = o
        BY <3>0, <4>3, BoxType
      <4> HIDE DEF box
      <4>5. /\ handler[n][b].pc = "none" /\ up' = "running"
            /\ UNCHANGED <<offered, state, handler, proc>>
        BY <1>4, <3>0 DEF Restart, LocalOK
      <4>6. CASE outbox[n][b].report.outcome = "none"
        <5>1. box.report.outcome = o /\ o \in {"unknown", "never_started"}
          BY <4>4, <4>6 DEF o
        <5>2. Truthful(n, b, box.report)
          BY <3>3, <4>1, <5>1 DEF Truthful, UnfinishedState
        <5>3. Vouched(box.report) => Confirmed(n, b)
          BY <3>3, <4>1, <5>1 DEF Vouched, Confirmed, o
        <5>4. LocalOK(n, b)'
          BY <3>0, <3>3, <4>2, <4>5, <5>2 DEF LocalOK, Truthful, Ran, UnfinishedState, Supervised
        <5>5. Assured(n, b)' => Assured(n, b)
          BY <4>2, <4>5, <5>3 DEF Assured, Confirmed, Ran
        <5> QED BY <4>2, <4>4, <4>6, <5>4, <5>5 DEF Good
      <4>7. CASE outbox[n][b].report.outcome # "none"
        <5>1. outbox'[n][b] = outbox[n][b]
          BY <4>2, <4>4, <4>7
        <5> QED BY <3>0, <4>5, <5>1 DEF Good, LocalOK, Truthful, Assured, Confirmed, Ran, ConfirmedPC, Supervised
      <4> QED BY <4>2, <4>4, <4>6, <4>7
    <3> QED BY <3>0, <3>1, <3>2, <3>3 DEF Recovered
  <2>2. outbox' \in [Message -> [Attempt -> BoxState]]
    BY <1>4, <2>1 DEF Restart
  <2>3. RunnerTypeOK'
    BY <1>4, <2>2, RunnerTypes DEF Restart, RunnerTypeOK, BoxState
  <2> QED BY <2>1, <2>3 DEF AllGood
<1> QED BY <1>1, <1>2, <1>3, <1>4

LEMMA CrashStep ==
  ASSUME RunnerTypeOK, \A n \in Message, b \in Attempt : LocalOK(n, b), Crash
  PROVE  RunnerTypeOK' /\ AllGood
<1>1. handler' \in [Message -> [Attempt -> HandlerState]]
  BY ReportTypes DEF Crash
<1>2. RunnerTypeOK'
  BY <1>1, RunnerTypes DEF Crash, RunnerTypeOK, HandlerState
<1>3. ASSUME NEW n \in Message, NEW b \in Attempt PROVE Good(n, b)
  <2>1. LocalOK(n, b)
    OBVIOUS
  <2>2. handler'[n][b] = Idle /\ Idle.pc = "none"
    BY DEF Crash, Idle
  <2> QED BY <2>1, <2>2 DEF Crash, Good, LocalOK, Truthful, Vouched, Assured, Confirmed, Ran, StartedState, ConfirmedPC, Supervised
<1> QED BY <1>2, <1>3 DEF AllGood

-----------------------------------------------------------------------------
(***************************************************************************)
(* Rows of the queue: an acceptance is of the current attempt, and no      *)
(* handler takes it back.                                                  *)
(***************************************************************************)
RowOK(row) ==
  /\ row.status = "absent" => row.starts = 0
  /\ row.status = "queued" => row.starts < MaxStartAttempts
  /\ row.status \in {"absent", "queued", "expired"} => row.accepted = NoAttempt
  /\ row.accepted # NoAttempt => row.accepted = row.attempt
  /\ row.status \in {"absent", "queued"} => row.attempt = NoAttempt
  /\ row.status \in HeldStatus => row.attempt # NoAttempt
  /\ row.status \in {"running", "unknown"} => row.accepted # NoAttempt

GoodRow == {row \in Row : RowOK(row)}

Follows(row, new) ==
  /\ new \in GoodRow
  /\ row.accepted # NoAttempt => new.accepted = row.accepted

LEMMA AttemptIsNat == Attempt \subseteq Nat \ {0} /\ NoAttempt = 0 /\ NoAttempt \notin Attempt
BY CoordinatorAssumption DEF Attempt, NoAttempt

LEMMA ReleaseFollows ==
  ASSUME NEW row \in GoodRow, row.accepted = NoAttempt
  PROVE  Follows(row, ReleaseUnstarted(row))
<1> DEFINE s == IF row.cancel THEN "cancelled"
                ELSE IF row.past THEN "expired"
                ELSE IF row.starts >= MaxStartAttempts THEN "failed" ELSE "queued"
           new == [row EXCEPT !.status = s, !.attempt = NoAttempt,
                              !.accepted = NoAttempt, !.lease = "none"]
<1>0. row \in Row /\ RowOK(row)
  BY DEF GoodRow
<1>1. s \in {"cancelled", "expired", "failed", "queued"}
  OBVIOUS
<1>2. s = "queued" => row.starts < MaxStartAttempts
  BY <1>0, CoordinatorAssumption DEF Row
<1>3. new = ReleaseUnstarted(row)
  BY DEF ReleaseUnstarted
<1> HIDE DEF s
<1>4. new \in Row
  BY <1>0, <1>1, AttemptIsNat DEF Row, OpenStatus, TerminalStatus
<1>5. RowOK(new)
  BY <1>0, <1>1, <1>2, AttemptIsNat DEF Row, RowOK, HeldStatus
<1> QED BY <1>3, <1>4, <1>5 DEF GoodRow, Follows

LEMMA LoseTrackFollows ==
  ASSUME NEW row \in GoodRow, row.accepted # NoAttempt
  PROVE  Follows(row, LoseTrack(row))
BY AttemptIsNat DEF Follows, GoodRow, Row, RowOK, LoseTrack, OpenStatus, TerminalStatus, HeldStatus

\* A change of the status of a row that was not accepted, or to a status that
\* an accepted row may have.
LEMMA StatusFollows ==
  ASSUME NEW row \in GoodRow, NEW s \in {"queued", "cancelled", "expired", "failed"},
         s = "queued" => row.status = "absent",
         s = "expired" => row.status = "queued"
  PROVE  Follows(row, [row EXCEPT !.status = s])
BY AttemptIsNat, CoordinatorAssumption DEF Follows, GoodRow, Row, RowOK, OpenStatus, TerminalStatus, HeldStatus

LEMMA SweepFollows ==
  ASSUME NEW row \in GoodRow
  PROVE  Follows(row, SweepRow(row))
<1>0. row \in Row /\ RowOK(row)
  BY DEF GoodRow
<1>1. CASE row.status = "queued" /\ row.past
  BY <1>1, StatusFollows DEF SweepRow
<1>2. CASE row.status \in HeldStatus /\ row.lease = "lapsed" /\ row.accepted # row.attempt
  <2>1. row.accepted = NoAttempt
    BY <1>0, <1>2 DEF RowOK
  <2>2. SweepRow(row) = ReleaseUnstarted(row)
    BY <1>2 DEF SweepRow, HeldStatus
  <2> QED BY <2>1, <2>2, ReleaseFollows
<1>3. CASE row.status \in HeldStatus /\ row.lease = "lapsed" /\ row.accepted = row.attempt
  <2>1. row.accepted # NoAttempt
    BY <1>0, <1>3 DEF RowOK
  <2>2. SweepRow(row) = LoseTrack(row)
    BY <1>3 DEF SweepRow, HeldStatus
  <2> QED BY <2>1, <2>2, LoseTrackFollows
<1>4. CASE ~(row.status = "queued" /\ row.past) /\ ~(row.status \in HeldStatus /\ row.lease = "lapsed")
  BY <1>0, <1>4 DEF SweepRow, Follows, GoodRow
<1> QED BY <1>1, <1>2, <1>3, <1>4

LEMMA CancelFollows ==
  ASSUME NEW row \in GoodRow
  PROVE  Follows(row, CancelRow(row))
<1>0. row \in Row /\ RowOK(row)
  BY DEF GoodRow
<1>1. CASE row.status = "queued"
  BY <1>1, StatusFollows DEF CancelRow
<1>2. CASE row.status # "queued" /\ row.status \in HeldStatus
  <2>1. CancelRow(row) = [row EXCEPT !.cancel = TRUE]
    BY <1>2 DEF CancelRow
  <2>2. [row EXCEPT !.cancel = TRUE] \in Row
    BY <1>0 DEF Row
  <2>3. RowOK([row EXCEPT !.cancel = TRUE])
    BY <1>0 DEF Row, RowOK
  <2>4. [row EXCEPT !.cancel = TRUE].accepted = row.accepted
    BY <1>0 DEF Row
  <2> QED BY <2>1, <2>2, <2>3, <2>4 DEF GoodRow, Follows
<1>3. CASE row.status # "queued" /\ row.status \notin HeldStatus
  BY <1>0, <1>3 DEF CancelRow, Follows, GoodRow
<1> QED BY <1>1, <1>2, <1>3

LEMMA ClaimFollows ==
  ASSUME NEW row \in GoodRow, row.status = "queued"
  PROVE  Follows(row, ClaimRow(row))
<1>0. row \in Row /\ RowOK(row)
  BY DEF GoodRow
<1>1. row.starts + 1 \in 1..MaxStartAttempts /\ row.starts + 1 \in 0..MaxStartAttempts
  BY <1>0, CoordinatorAssumption DEF Row, RowOK
<1>2. ClaimRow(row) \in Row
  BY <1>0, <1>1 DEF Row, ClaimRow, OpenStatus, Attempt
<1>3. row.starts + 1 # NoAttempt /\ row.accepted = NoAttempt
  BY <1>0, <1>1 DEF RowOK, NoAttempt
<1>4. RowOK(ClaimRow(row))
  BY <1>0, <1>3 DEF Row, RowOK, ClaimRow, HeldStatus
<1> QED BY <1>2, <1>3, <1>4 DEF GoodRow, Follows

LEMMA ResultFollows ==
  ASSUME NEW row \in GoodRow, NEW a \in Attempt, NEW outcome \in Outcome, NEW unconfirmed \in BOOLEAN,
         row.attempt = a, outcome # "never_started" => row.accepted = a
  PROVE  Follows(row, ResultRow(row, a, outcome, unconfirmed))
<1>0. row \in Row /\ RowOK(row)
  BY DEF GoodRow
<1>1. CASE row.status \in FinalStatus
  BY <1>0, <1>1 DEF ResultRow, Follows, GoodRow
<1>2. CASE row.status \notin FinalStatus /\ outcome = "never_started" /\ row.accepted = a
  BY <1>2, AttemptIsNat, LoseTrackFollows DEF ResultRow
<1>3. CASE row.status \notin FinalStatus /\ outcome = "never_started" /\ row.accepted # a
  <2>1. row.accepted = NoAttempt
    BY <1>0, <1>3 DEF RowOK
  <2> QED BY <1>3, <2>1, ReleaseFollows DEF ResultRow
<1>4. CASE row.status \notin FinalStatus /\ outcome # "never_started"
  <2> DEFINE hold == row.hold \/ (unconfirmed /\ outcome # "answered")
             new == [row EXCEPT !.status = outcome, !.lease = "none", !.hold = hold]
  <2>1. hold \in BOOLEAN
    OBVIOUS
  <2>2. ResultRow(row, a, outcome, unconfirmed) = new
    BY <1>0, <1>4 DEF ResultRow, Row
  <2> HIDE DEF hold
  <2>3. new \in Row /\ new.accepted = row.accepted
    BY <1>0, <1>4, <2>1 DEF Row, TerminalStatus, Outcome
  <2>4. RowOK(new)
    BY <1>0, <1>4, <2>1, AttemptIsNat DEF Row, RowOK, Outcome, HeldStatus
  <2> QED BY <2>2, <2>3, <2>4 DEF GoodRow, Follows
<1> QED BY <1>1, <1>2, <1>3, <1>4

-----------------------------------------------------------------------------
(***************************************************************************)
(* Handlers of the coordinator.                                            *)
(***************************************************************************)
RowsOK ==
  /\ queue \in [Message -> GoodRow]
  /\ trusted \in SUBSET Device
  /\ shared \in BOOLEAN

\* What a step shows for the queue.
RowsFollow ==
  /\ RowsOK'
  /\ \A n \in Message : Follows(queue[n], queue'[n])

LEMMA SameRows ==
  ASSUME RowsOK, UNCHANGED queue, trusted' \in SUBSET Device, shared' \in BOOLEAN
  PROVE  RowsFollow
BY DEF RowsOK, RowsFollow, Follows

LEMMA OneRow ==
  ASSUME RowsOK, NEW m \in Message, NEW new, Follows(queue[m], new),
         queue' = [queue EXCEPT ![m] = new], UNCHANGED <<trusted, shared>>
  PROVE  RowsFollow
BY DEF RowsOK, RowsFollow, Follows

LEMMA SubmitStep ==
  ASSUME RowsOK, NEW m \in Message, Submit(m)
  PROVE  RowsFollow
<1> DEFINE row == queue[m]
           k == Cardinality(Present) + 1
           new == [row EXCEPT !.status = "queued", !.created = k]
<1>1. row \in GoodRow /\ row.status = "absent"
  BY DEF RowsOK, Submit, CanSubmit
<1>2. k \in Nat
  <2>1. IsFiniteSet(Present)
    BY CoordinatorAssumption, FS_Subset DEF Present
  <2> QED BY <2>1, FS_CardinalityType
<1>3. queue' = [queue EXCEPT ![m] = new]
  BY Zenon DEF Submit, Insert
<1> HIDE DEF k, row
<1>4. row \in Row /\ RowOK(row) /\ row.accepted = NoAttempt /\ row.starts = 0
  BY <1>1 DEF GoodRow, RowOK
<1>5. new \in Row /\ new.accepted = NoAttempt
  BY <1>2, <1>4 DEF Row, OpenStatus
<1>6. RowOK(new)
  BY <1>1, <1>4, <1>5, CoordinatorAssumption DEF Row, RowOK, HeldStatus
<1>7. Follows(row, new)
  BY <1>4, <1>5, <1>6 DEF Follows, GoodRow
<1> QED BY <1>3, <1>7, OneRow DEF Submit, row

LEMMA CoordinateStep ==
  ASSUME RowsOK, RunnerTypeOK, Coordinate
  PROVE  RowsFollow
<1>0. ASSUME NEW n \in Message PROVE queue[n] \in GoodRow /\ queue[n] \in Row /\ RowOK(queue[n])
  BY DEF RowsOK, GoodRow
<1>1. ASSUME NEW m \in Message, Cancel(m) PROVE RowsFollow
  BY <1>0, <1>1, CancelFollows, OneRow DEF Cancel
<1>2. ASSUME NEW m \in Message, LapseLease(m) PROVE RowsFollow
  <2> DEFINE row == queue[m]
             new == [row EXCEPT !.lease = "lapsed"]
  <2>1. row \in GoodRow
    BY <1>0
  <2>2. queue' = [queue EXCEPT ![m] = new]
    BY <1>2, Zenon DEF LapseLease
  <2> HIDE DEF row
  <2>3. Follows(row, new)
    BY <2>1 DEF Follows, GoodRow, Row, RowOK
  <2> QED BY <1>2, <2>2, <2>3, OneRow DEF LapseLease, row
<1>3. ASSUME NEW m \in Message, PassExpiry(m) PROVE RowsFollow
  <2> DEFINE row == queue[m]
             new == [row EXCEPT !.past = TRUE]
  <2>1. row \in GoodRow
    BY <1>0
  <2>2. queue' = [queue EXCEPT ![m] = new]
    BY <1>3, Zenon DEF PassExpiry
  <2> HIDE DEF row
  <2>3. new \in Row /\ new.accepted = row.accepted
    BY <2>1 DEF GoodRow, Row
  <2>4. RowOK(new)
    BY <2>1 DEF GoodRow, Row, RowOK
  <2> QED BY <1>3, <2>2, <2>3, <2>4, OneRow DEF PassExpiry, row, Follows, GoodRow
<1>4. ASSUME NEW m \in Message, ChatChanges(m) PROVE RowsFollow
  <2> DEFINE row == queue[m]
             w == ~row.wake
             new == [row EXCEPT !.wake = w]
  <2>1. row \in GoodRow /\ w \in BOOLEAN
    BY <1>0
  <2>2. queue' = [queue EXCEPT ![m] = new]
    BY <1>4, Zenon DEF ChatChanges
  <2> HIDE DEF row, w
  <2>3. new \in Row /\ new.accepted = row.accepted
    BY <2>1 DEF GoodRow, Row
  <2>4. RowOK(new)
    BY <2>1 DEF GoodRow, Row, RowOK
  <2> QED BY <1>4, <2>2, <2>3, <2>4, OneRow DEF ChatChanges, row, Follows, GoodRow
<1>5. ASSUME NEW d \in Device, Revoke(d) PROVE RowsFollow
  <2>1. \A n \in Message : Follows(queue[n], queue'[n])
    BY <1>0, <1>5, CancelFollows DEF Revoke
  <2>2. queue' \in [Message -> GoodRow]
    BY <1>5, <2>1 DEF Revoke, Follows
  <2> QED BY <1>5, <2>1, <2>2 DEF Revoke, RowsFollow, RowsOK
<1>6. ASSUME NEW d \in Device, Pair(d) PROVE RowsFollow
  BY <1>6, SameRows DEF Pair, RowsOK
<1>7. CASE PublishDirectory(offered)
  BY <1>7, SameRows DEF PublishDirectory, RowsOK, RunnerTypeOK
<1>8. CASE Sweep
  <2>1. \A n \in Message : Follows(queue[n], queue'[n])
    BY <1>0, <1>8, SweepFollows DEF Sweep, Swept
  <2>2. queue' \in [Message -> GoodRow]
    BY <1>8, <2>1 DEF Sweep, Swept, Follows
  <2> QED BY <1>8, <2>1, <2>2 DEF Sweep, RowsFollow, RowsOK
<1> QED BY <1>1, <1>2, <1>3, <1>4, <1>5, <1>6, <1>7, <1>8 DEF Coordinate

LEMMA ClaimStep ==
  ASSUME RowsOK, NEW m \in Message, Claim(m)
  PROVE  RowsFollow
<1>0. queue[m] \in GoodRow
  BY DEF RowsOK
<1>1. CASE RejectWake(m)
  <2>1. queue' = [queue EXCEPT ![m] = [queue[m] EXCEPT !.status = "failed"]]
    BY <1>1, Zenon DEF RejectWake
  <2> QED BY <1>0, <2>1, StatusFollows, OneRow DEF Claim
<1>2. CASE HandOut(m)
  <2>1. queue[m].status = "queued"
    BY <1>2 DEF HandOut, NextQueued, Claimable
  <2> QED BY <1>0, <1>2, <2>1, ClaimFollows, OneRow DEF HandOut, Claim
<1> QED BY <1>1, <1>2 DEF Claim

LEMMA RenewStep ==
  ASSUME RowsOK, NEW m \in Message, NEW a \in Attempt, NEW s \in {"accepted", "starting", "running"},
         queue' = AfterRenew(m, a, s), UNCHANGED <<trusted, shared>>
  PROVE  /\ RowsFollow
         /\ RenewVerdict(m, a, s) \in Verdict
         /\ Granted(RenewVerdict(m, a, s)) => queue'[m].accepted = a
<1>0. queue[m] \in GoodRow /\ queue[m] \in Row /\ RowOK(queue[m])
  BY DEF RowsOK, GoodRow
<1>1. RenewVerdict(m, a, s) \in Verdict
  BY DEF RenewVerdict, Verdict
<1>2. CASE Granted(RenewVerdict(m, a, s))
  <2>1. queue[m].attempt = a /\ queue[m].status \in HeldStatus
    BY <1>2 DEF RenewVerdict, Granted
  <2> DEFINE row == queue[m]
             c == row.cancel \/ WakeRejected(m)
             starts == s = "running" /\ row.status = "claimed"
             st == IF starts THEN "running" ELSE row.status
             ev == IF starts THEN row.started \cup {a} ELSE row.started
             new == [row EXCEPT !.lease = "live", !.cancel = c, !.accepted = a, !.status = st, !.started = ev]
  <2>2. c \in BOOLEAN
    OBVIOUS
  <2>3. st \in HeldStatus /\ ev \in SUBSET Attempt
    BY <1>0, <2>1 DEF HeldStatus, Row
  <2>4. RenewRow(m, a, s) = new
    BY Zenon DEF RenewRow
  <2>5. queue' = [queue EXCEPT ![m] = new]
    BY <1>2, <2>4 DEF AfterRenew
  <2> HIDE DEF c, starts, st, ev
  <2>6. new \in Row /\ new.accepted = a
    BY <1>0, <2>2, <2>3 DEF Row, OpenStatus, HeldStatus
  <2>7. RowOK(new)
    BY <1>0, <2>1, <2>2, <2>3 DEF Row, RowOK, HeldStatus
  <2>8. Follows(row, new)
    BY <1>0, <2>1, <2>6, <2>7 DEF Follows, GoodRow, RowOK
  <2>9. new.accepted = a
    BY <2>6
  <2> HIDE DEF new
  <2>10. queue'[m].accepted = a
    BY <2>5, <2>9 DEF RowsOK
  <2> QED BY <1>1, <2>5, <2>8, <2>10, OneRow
<1>3. CASE ~Granted(RenewVerdict(m, a, s))
  BY <1>1, <1>3, SameRows DEF AfterRenew, RowsOK
<1> QED BY <1>2, <1>3

LEMMA ReportStep ==
  ASSUME RowsOK, NEW m \in Message, NEW a \in Attempt, NEW outcome \in Outcome, NEW unconfirmed \in BOOLEAN,
         outcome # "never_started" => queue[m].accepted = a,
         queue' = AfterResult(m, a, outcome, unconfirmed), UNCHANGED <<trusted, shared>>
  PROVE  RowsFollow
<1>1. CASE ResultVerdict(m, a, outcome) = "ok"
  <2>1. queue[m] \in GoodRow /\ queue[m].attempt = a
    BY <1>1 DEF RowsOK, ResultVerdict
  <2>2. Follows(queue[m], ResultRow(queue[m], a, outcome, unconfirmed))
    BY <2>1, ResultFollows
  <2> QED BY <1>1, <2>2, OneRow DEF AfterResult
<1>2. CASE ResultVerdict(m, a, outcome) # "ok"
  BY <1>2, SameRows DEF AfterResult, RowsOK
<1> QED BY <1>1, <1>2

-----------------------------------------------------------------------------
(***************************************************************************)
(* The inductive invariant, and what a step has to show for it.            *)
(***************************************************************************)
LocalsOK == \A m \in Message, a \in Attempt : LocalOK(m, a)

\* The attempt the device relies on is the one the coordinator recorded.
AssuredOK == \A m \in Message, a \in Attempt : Assured(m, a) => queue[m].accepted = a

\* A report on its way is one in the outbox.
NetOK ==
  /\ net \in SUBSET Packet
  /\ \A m \in Message, a \in Attempt :
       Pack("result", m, a) \in net => outbox[m][a].report.outcome # "none"

IInv == RowsOK /\ RunnerTypeOK /\ LocalsOK /\ AssuredOK /\ NetOK

\* A step sends no report that is not in the outbox.
NetFollows ==
  /\ net' \in SUBSET Packet
  /\ \A m \in Message, a \in Attempt :
       Pack("result", m, a) \in net' =>
         Pack("result", m, a) \in net \/ outbox[m][a].report.outcome # "none"

LEMMA StepKeepsIInv ==
  ASSUME IInv, RowsFollow, RunnerTypeOK', AllGood, NetFollows
  PROVE  IInv'
<1>1. RowsOK'
  BY DEF RowsFollow
<1>2. LocalsOK'
  BY DEF AllGood, Good, LocalsOK
<1>3. AssuredOK'
  <2> SUFFICES ASSUME NEW m \in Message, NEW a \in Attempt, Assured(m, a)'
               PROVE  queue'[m].accepted = a
    BY DEF AssuredOK
  <2>1. CASE Assured(m, a)
    BY <2>1, AttemptIsNat DEF IInv, AssuredOK, RowsFollow, Follows
  <2>2. CASE ~Assured(m, a)
    BY <2>2 DEF AllGood, Good
  <2> QED BY <2>1, <2>2
<1>4. NetOK'
  BY DEF IInv, NetOK, NetFollows, AllGood, Good
<1> QED BY <1>1, <1>2, <1>3, <1>4 DEF IInv

\* A step that leaves the device alone.
LEMMA DeviceAlone ==
  ASSUME IInv, UNCHANGED runnerVars
  PROVE  RunnerTypeOK' /\ AllGood
<1>1. RunnerTypeOK'
  BY DEF IInv, RunnerTypeOK, runnerVars
<1>2. ASSUME NEW n \in Message, NEW b \in Attempt PROVE Good(n, b)
  BY Untouched DEF IInv, LocalsOK, runnerVars
<1> QED BY <1>1, <1>2 DEF AllGood

\* A step that leaves the coordinator alone.
LEMMA CoordinatorAlone ==
  ASSUME IInv, UNCHANGED coordinatorVars
  PROVE  RowsFollow
BY SameRows DEF IInv, RowsOK, coordinatorVars

LEMMA PackIsPacket ==
  ASSUME NEW kind \in {"claimed", "accepted", "starting", "running", "result"},
         NEW m \in Message, NEW a \in Attempt
  PROVE  /\ Pack(kind, m, a) \in Packet
         /\ \A n \in Message, b \in Attempt :
              Pack("result", n, b) = Pack(kind, m, a) => kind = "result" /\ n = m /\ b = a
BY DEF Pack, Packet

\* Requests that are not reports, taken or added.
LEMMA NoNewReport ==
  ASSUME IInv, net' \subseteq net
  PROVE  NetFollows
BY DEF IInv, NetOK, NetFollows

LEMMA OneNewRequest ==
  ASSUME IInv, NEW kind \in {"claimed", "accepted", "starting", "running"},
         NEW m \in Message, NEW a \in Attempt, net' \subseteq net \cup {Pack(kind, m, a)}
  PROVE  NetFollows
<1>1. net' \in SUBSET Packet
  BY PackIsPacket DEF IInv, NetOK
<1>2. ASSUME NEW n \in Message, NEW b \in Attempt, Pack("result", n, b) \in net'
      PROVE  Pack("result", n, b) \in net
  BY <1>2, PackIsPacket
<1> QED BY <1>1, <1>2 DEF NetFollows

-----------------------------------------------------------------------------
(***************************************************************************)
(* The handlers that join the two.                                         *)
(***************************************************************************)
LEMMA SubmitKeeps ==
  ASSUME IInv, NEW m \in Message, Submit(m) PROVE IInv'
<1>1. RowsFollow
  BY SubmitStep DEF IInv
<1>2. UNCHANGED runnerVars /\ net' \subseteq net
  BY DEF Submit
<1> QED BY <1>1, <1>2, DeviceAlone, NoNewReport, StepKeepsIInv

LEMMA CoordinateKeeps ==
  ASSUME IInv, Coordinate PROVE IInv'
<1>1. RowsFollow
  BY CoordinateStep DEF IInv
<1>2. UNCHANGED runnerVars /\ net' \subseteq net
  BY DEF Coordinate
<1> QED BY <1>1, <1>2, DeviceAlone, NoNewReport, StepKeepsIInv

LEMMA ClaimKeeps ==
  ASSUME IInv, NEW m \in Message, Claim(m) PROVE IInv'
<1>1. RowsFollow
  BY ClaimStep DEF IInv
<1>2. UNCHANGED runnerVars
  BY DEF Claim
<1>3. CASE net' = net
  BY <1>1, <1>2, <1>3, DeviceAlone, NoNewReport, StepKeepsIInv
<1>4. CASE HandOut(m) /\ net' = net \cup {Pack("claimed", m, queue[m].starts + 1)}
  <2>1. queue[m].status = "queued" /\ queue[m] \in Row /\ RowOK(queue[m])
    BY <1>4 DEF HandOut, NextQueued, Claimable, IInv, RowsOK, GoodRow
  <2>2. queue[m].starts + 1 \in Attempt
    BY <2>1, CoordinatorAssumption DEF Row, RowOK, Attempt
  <2>3. NetFollows
    BY <1>4, <2>2, OneNewRequest
  <2> QED BY <1>1, <1>2, <2>3, DeviceAlone, StepKeepsIInv
<1> QED BY <1>3, <1>4 DEF Claim

LEMMA ReceiveClaimKeeps ==
  ASSUME IInv, NEW m \in Message, NEW a \in Attempt, ReceiveClaim(m, a) PROVE IInv'
<1>1. RunnerTypeOK' /\ AllGood
  BY TakeClaimStep DEF IInv, LocalsOK, ReceiveClaim
<1>2. RowsFollow
  BY CoordinatorAlone DEF ReceiveClaim
<1>3. net' \subseteq net \cup {Pack("accepted", m, a)}
  BY DEF ReceiveClaim
<1>4. NetFollows
  BY <1>3, OneNewRequest
<1> QED BY <1>1, <1>2, <1>4, StepKeepsIInv

\* What the device is told of an acceptance is what the coordinator recorded.
LEMMA HandleAcceptKeeps ==
  ASSUME IInv, NEW m \in Message, NEW a \in Attempt, HandleAccept(m, a) PROVE IInv'
<1> DEFINE v == RenewVerdict(m, a, "accepted")
<1>1. RowsFollow /\ v \in Verdict /\ (Granted(v) => queue'[m].accepted = a)
  BY RenewStep DEF IInv, HandleAccept
<1>2. NetFollows
  BY NoNewReport DEF HandleAccept
<1>3. CASE UNCHANGED handler
  BY <1>1, <1>2, <1>3, DeviceAlone, StepKeepsIInv DEF HandleAccept, runnerVars
<1>4. CASE handler[m][a].pc = "accepting" /\ Acknowledge(m, a, v)
  <2> HIDE DEF v
  <2>1. /\ handler' \in [Message -> [Attempt -> HandlerState]]
        /\ handler'[m][a].pc = "acknowledged"
        /\ handler'[m][a].verdict = v
        /\ Others(m, a)
    BY <1>1, <1>4, AcknowledgeStep DEF IInv
  <2>2. RunnerTypeOK' /\ Frame(m, a)
    BY <2>1, RunnerTypes DEF IInv, HandleAccept, Frame, Others, RunnerTypeOK, HandlerState
  <2>3. LocalOK(m, a)
    BY DEF IInv, LocalsOK
  <2>4. Good(m, a)
    BY <1>1, <1>4, <2>1, <2>3
    DEF HandleAccept, Good, LocalOK, Truthful, Vouched, Assured, Confirmed, Ran, StartedState, ConfirmedPC, Supervised
  <2>5. AllGood
    BY <2>2, <2>4, FrameGood DEF IInv, LocalsOK
  <2> QED BY <1>1, <1>2, <2>2, <2>5, StepKeepsIInv
<1> QED BY <1>3, <1>4 DEF HandleAccept

LEMMA SendRenewalKeeps ==
  ASSUME IInv, NEW m \in Message, NEW a \in Attempt, SendRenewal(m, a) PROVE IInv'
<1> DEFINE kind == IF state[m][a] = "running" THEN "running" ELSE "starting"
<1>1. kind \in {"claimed", "accepted", "starting", "running"}
  OBVIOUS
<1>2. net' \subseteq net \cup {Pack(kind, m, a)} /\ UNCHANGED <<coordinatorVars, runnerVars>>
  BY DEF SendRenewal
<1> HIDE DEF kind
<1>3. NetFollows
  BY <1>1, <1>2, OneNewRequest
<1> QED BY <1>2, <1>3, CoordinatorAlone, DeviceAlone, StepKeepsIInv

LEMMA HandleRenewalKeeps ==
  ASSUME IInv, NEW m \in Message, NEW a \in Attempt, NEW s \in {"starting", "running"},
         HandleRenewal(m, a, s)
  PROVE  IInv'
<1> DEFINE reason == StopFor(RenewVerdict(m, a, s))
<1>1. RowsFollow
  BY RenewStep DEF IInv, HandleRenewal
<1>2. NetFollows
  BY NoNewReport DEF HandleRenewal
<1>3. reason \in StopReason
  BY DEF StopFor, StopReason
<1>4. CASE UNCHANGED handler
  BY <1>1, <1>2, <1>4, DeviceAlone, StepKeepsIInv DEF HandleRenewal, runnerVars
<1>5. CASE handler' = [handler EXCEPT ![m][a] = Stopping(@, reason)]
  <2> HIDE DEF reason
  <2>1. RunnerTypeOK' /\ AllGood
    BY <1>3, <1>5, StopOneStep DEF IInv, LocalsOK, HandleRenewal
  <2> QED BY <1>1, <1>2, <2>1, StepKeepsIInv
<1> QED BY <1>4, <1>5 DEF HandleRenewal

LEMMA ConfirmWakeKeeps ==
  ASSUME IInv, NEW m \in Message, NEW a \in Attempt, ConfirmWake(m, a) PROVE IInv'
<1> DEFINE v == RenewVerdict(m, a, "starting")
           o == IF v = "cancel" /\ handler[m][a].stop = "none" THEN "cancelled" ELSE FailureOutcome(m, a)
<1>1. RowsFollow
  BY RenewStep DEF IInv, ConfirmWake
<1>2. NetFollows
  BY NoNewReport DEF ConfirmWake
<1>3. LocalOK(m, a) /\ handler[m][a].pc = "waking"
  BY DEF IInv, LocalsOK, ConfirmWake
<1>4. o \in {"unknown", "cancelled", "failed"}
  BY FailureOutcomeType
<1>5. RunnerTypeOK' /\ Frame(m, a) /\ Good(m, a)
  <2>1. CASE Goto(m, a, "cleared") /\ UNCHANGED exec
    <3>1. /\ handler'[m][a].pc = "cleared" /\ handler'[m][a].stop = handler[m][a].stop
          /\ handler' \in [Message -> [Attempt -> HandlerState]] /\ Others(m, a)
      BY <2>1, GotoStep DEF IInv, PC, ConfirmedPC, Supervised
    <3>2. RunnerTypeOK' /\ Frame(m, a)
      BY <2>1, <3>1, RunnerTypes DEF IInv, ConfirmWake, Frame, Others, RunnerTypeOK, HandlerState
    <3>3. Good(m, a)
      BY <1>3, <2>1, <3>1
      DEF ConfirmWake, Good, LocalOK, Truthful, Vouched, Assured, Confirmed, Ran, StartedState, ConfirmedPC, Supervised
    <3> QED BY <3>2, <3>3
  <2>2. CASE FinishExec(m) /\ Fail(m, a, o, FALSE)
    <3>0. PICK h \in BOOLEAN : Fail(m, a, o, h)
      BY <2>2, Zenon
    <3> HIDE DEF o
    <3>1. /\ handler'[m][a].pc = "reporting"
          /\ handler'[m][a].report.outcome \in {"unknown", "cancelled", "failed"}
          /\ handler' \in [Message -> [Attempt -> HandlerState]]
          /\ Others(m, a)
      BY <1>4, <3>0, FailStep DEF IInv, Outcome
    <3>2. exec' \in [Message -> {"none", "asked", "active", "finished"}]
      BY <2>2, FinishExecType DEF IInv
    <3>3. RunnerTypeOK' /\ Frame(m, a)
      BY <3>1, <3>2, RunnerTypes DEF IInv, ConfirmWake, Frame, Others, RunnerTypeOK, HandlerState
    <3>4. Good(m, a)
      BY <1>3, <3>1
      DEF ConfirmWake, Good, LocalOK, Truthful, Vouched, Assured, Confirmed, Ran, StartedState, ConfirmedPC, Supervised
    <3> QED BY <3>3, <3>4
  <2> QED BY <2>1, <2>2, Zenon DEF ConfirmWake
<1>6. AllGood
  BY <1>5, FrameGood DEF IInv, LocalsOK
<1> QED BY <1>1, <1>2, <1>5, <1>6, StepKeepsIInv

LEMMA SendReportKeeps ==
  ASSUME IInv, NEW m \in Message, NEW a \in Attempt, SendReport(m, a) PROVE IInv'
<1>1. /\ net' = net \cup {Pack("result", m, a)}
      /\ UNCHANGED <<coordinatorVars, runnerVars>>
      /\ outbox[m][a].report.outcome # "none"
  BY DEF SendReport, Flushable, Undelivered
<1>2. net' \in SUBSET Packet
  BY <1>1, PackIsPacket DEF IInv, NetOK
<1>3. ASSUME NEW n \in Message, NEW b \in Attempt, Pack("result", n, b) \in net'
      PROVE  Pack("result", n, b) \in net \/ outbox[n][b].report.outcome # "none"
  BY <1>1, <1>3, PackIsPacket
<1>4. NetFollows
  BY <1>2, <1>3 DEF NetFollows
<1> QED BY <1>1, <1>4, CoordinatorAlone, DeviceAlone, StepKeepsIInv

LEMMA HandleReportKeeps ==
  ASSUME IInv, NEW m \in Message, NEW a \in Attempt, HandleReport(m, a) PROVE IInv'
<1> DEFINE box == outbox[m][a]
<1>1. box \in BoxState /\ box.report.outcome # "none" /\ box.report \in Report
  BY RunnerTypes DEF IInv, NetOK, HandleReport, BoxState
<1>2. box.report.outcome \in Outcome /\ box.report.hold \in BOOLEAN
  BY <1>1 DEF Report
<1>3. RowsFollow
  <2>1. box.report.outcome # "never_started" => queue[m].accepted = a
    BY <1>1 DEF IInv, AssuredOK, Assured, Vouched
  <2> QED BY <1>2, <2>1, ReportStep DEF IInv, HandleReport
<1>4. NetFollows
  BY NoNewReport DEF HandleReport
<1>5. CASE UNCHANGED outbox
  BY <1>3, <1>4, <1>5, DeviceAlone, StepKeepsIInv DEF HandleReport, runnerVars
<1>6. CASE MarkDelivered(m, a)
  <2> DEFINE new == [box EXCEPT !.delivered = TRUE]
  <2>1. outbox' = [outbox EXCEPT ![m][a] = new]
    BY <1>6, Zenon DEF MarkDelivered
  <2> HIDE DEF box
  <2>2. new \in BoxState /\ new.report = box.report
    BY <1>1 DEF BoxState
  <2> HIDE DEF new
  <2>3. /\ outbox' \in [Message -> [Attempt -> BoxState]]
        /\ outbox'[m][a] = new
        /\ \A n \in Message, b \in Attempt : n # m \/ b # a => outbox'[n][b] = outbox[n][b]
    BY <2>1, <2>2, RunnerTypes DEF IInv
  <2>4. RunnerTypeOK' /\ Frame(m, a)
    BY <2>3, RunnerTypes DEF IInv, HandleReport, Frame, RunnerTypeOK, HandlerState, BoxState
  <2>5. LocalOK(m, a)
    BY DEF IInv, LocalsOK
  <2>6. outbox'[m][a].report = outbox[m][a].report
    BY <2>2, <2>3 DEF box
  <2>7. Good(m, a)
    BY <2>5, <2>6 DEF HandleReport, Good, LocalOK, Truthful, Vouched, Assured, Confirmed, Ran
  <2>8. AllGood
    BY <2>4, <2>7, FrameGood DEF IInv, LocalsOK
  <2> QED BY <1>3, <1>4, <2>4, <2>8, StepKeepsIInv
<1> QED BY <1>5, <1>6 DEF HandleReport

-----------------------------------------------------------------------------
(***************************************************************************)
(* The invariant of the specification.                                     *)
(***************************************************************************)
LEMMA InitIInv == Init => IInv
<1> SUFFICES ASSUME Init PROVE IInv
  OBVIOUS
<1> USE DEF Init, CoordinatorInit, RunnerInit
<1>1. RowsOK
  <2>1. AbsentRow \in Row
    BY CoordinatorAssumption DEF AbsentRow, Row, NoAttempt
  <2>2. RowOK(AbsentRow)
    BY DEF AbsentRow, RowOK, NoAttempt, HeldStatus
  <2> QED BY <2>1, <2>2 DEF RowsOK, GoodRow
<1>2. RunnerTypeOK
  BY ReportTypes, RunnerTypes DEF AttemptState
<1>3. ASSUME NEW m \in Message, NEW a \in Attempt PROVE LocalOK(m, a) /\ ~Assured(m, a)
  BY DEF LocalOK, Truthful, Vouched, Assured, Confirmed, Ran, Idle, EmptyBox, NoReport, StartedState, ConfirmedPC, Supervised
<1>4. NetOK
  BY DEF NetOK
<1> QED BY <1>1, <1>2, <1>3, <1>4 DEF IInv, LocalsOK, AssuredOK

LEMMA NextKeepsIInv == IInv /\ [Next]_vars => IInv'
<1> SUFFICES ASSUME IInv, [Next]_vars PROVE IInv'
  OBVIOUS
<1>1. ASSUME NEW m \in Message, Submit(m) \/ Claim(m) PROVE IInv'
  BY <1>1, SubmitKeeps, ClaimKeeps
<1>2. CASE Coordinate
  BY <1>2, CoordinateKeeps
<1>3. CASE Own
  BY <1>3, OwnStep, CoordinatorAlone, NoNewReport, StepKeepsIInv DEF Own, IInv, LocalsOK
<1>4. CASE CrashRunner
  BY <1>4, CrashStep, CoordinatorAlone, NoNewReport, StepKeepsIInv DEF CrashRunner, IInv, LocalsOK
<1>5. ASSUME NEW p \in net, Lose(p) PROVE IInv'
  BY <1>5, CoordinatorAlone, DeviceAlone, NoNewReport, StepKeepsIInv DEF Lose
<1>6. ASSUME NEW m \in Message, NEW a \in Attempt,
             \/ ReceiveClaim(m, a) \/ HandleAccept(m, a) \/ SendRenewal(m, a)
             \/ \E s \in {"starting", "running"} : HandleRenewal(m, a, s)
             \/ ConfirmWake(m, a) \/ SendReport(m, a) \/ HandleReport(m, a)
      PROVE IInv'
  BY <1>6, ReceiveClaimKeeps, HandleAcceptKeeps, SendRenewalKeeps, HandleRenewalKeeps,
     ConfirmWakeKeeps, SendReportKeeps, HandleReportKeeps
<1>7. ASSUME NEW m \in Message, NEW a \in Attempt, Work(m, a) PROVE IInv'
  BY <1>7, HandleStep, CoordinatorAlone, NoNewReport, StepKeepsIInv DEF Work, IInv, LocalsOK
<1>8. CASE UNCHANGED vars
  BY <1>8, CoordinatorAlone, DeviceAlone, NoNewReport, StepKeepsIInv DEF vars
<1> QED BY <1>1, <1>2, <1>3, <1>4, <1>5, <1>6, <1>7, <1>8, Zenon DEF Next

\* IInv is an invariant of every behaviour of the specification.
THEOREM Inductive == Spec => []IInv
BY InitIInv, NextKeepsIInv, PTL DEF Spec

LEMMA IInvTypes == IInv => TypeOK
BY DEF IInv, RowsOK, GoodRow, NetOK, TypeOK, CoordinatorTypeOK

LEMMA IInvOneAttempt == IInv => OneAttemptIsConfirmed
BY DEF IInv, AssuredOK, Assured, OneAttemptIsConfirmed

LEMMA IInvTaken == IInv => NeverTakenForUnstarted
<1> SUFFICES ASSUME IInv, NEW m \in Message, NEW a \in Attempt, Ran(m, a)
             PROVE  queue[m].status \in {"claimed", "running", "answered", "failed", "cancelled", "unknown"}
  BY DEF NeverTakenForUnstarted, EverRan
<1>1. queue[m].accepted = a
  BY DEF IInv, AssuredOK, Assured, Confirmed
<1>2. queue[m] \in Row /\ RowOK(queue[m])
  BY DEF IInv, RowsOK, GoodRow
<1>3. queue[m].status \notin {"absent", "queued", "expired"}
  BY <1>1, <1>2, AttemptIsNat DEF RowOK
<1> QED BY <1>2, <1>3 DEF Row, OpenStatus, TerminalStatus

LEMMA IInvUnstarted == IInv => NeverReportedUnstarted
BY DEF IInv, LocalsOK, LocalOK, Truthful, Ran, NeverReportedUnstarted

\* Every variable keeps its type: no handler of the coordinator or the runner,
\* and no lost or late request, takes a row or an attempt out of its states.
THEOREM TypesHold == Spec => []TypeOK
BY Inductive, IInvTypes, PTL

\* At most one attempt of a message is ever confirmed to the device, however
\* many attempts the coordinator hands out (runner.js:10).
THEOREM AtMostOneExecution == Spec => []OneAttemptIsConfirmed
BY Inductive, IInvOneAttempt, PTL

\* A message whose process was started is not queued again, whichever request
\* was lost and whatever the sweep found (coordinator-service.js:245).
THEOREM StartedIsNeverRequeued == Spec => []NeverTakenForUnstarted
BY Inductive, IInvTaken, PTL

\* A report of "never started", sent or recovered after a crash, is true and
\* stays true (node-store.js, runner.js recover()).
THEOREM UnstartedIsTrue == Spec => []NeverReportedUnstarted
BY Inductive, IInvUnstarted, PTL

\* Only Spawn starts a process, and its handler was not told to stop.
LEMMA StartNeedsShare ==
  ASSUME IInv, [Next]_vars, NEW m \in Message, NEW a \in Attempt, ~Ran(m, a), Ran(m, a)'
  PROVE  offered
<1>1. LocalOK(m, a) /\ RunnerTypeOK
  BY DEF IInv, LocalsOK
<1>2. proc'[m][a] # proc[m][a]
  BY DEF Ran
<1>3. ASSUME NEW n \in Message, NEW b \in Attempt, Spawn(n, b) PROVE offered
  <2>1. handler[n][b].pc \in Supervised /\ handler[n][b].stop = "none"
    BY <1>3 DEF Spawn, Supervised
  <2> QED BY <2>1 DEF IInv, LocalsOK, LocalOK
<1>4. ASSUME NEW n \in Message, NEW b \in Attempt, Exit(n, b) \/ OrphanExits(n, b)
      PROVE  FALSE
  <2>1. proc' = [proc EXCEPT ![n][b] = "gone"]
    BY <1>4 DEF Exit, OrphanExits
  <2>2. n = m /\ b = a
    BY <1>1, <1>2, <2>1, RunnerTypes
  <2> QED BY <1>1, <1>4, <2>2 DEF Exit, OrphanExits, LocalOK, Ran
<1>5. proc' # proc
  BY <1>2
<1>6. CASE \E n \in Message, b \in Attempt : Work(n, b)
  <2> PICK n \in Message, b \in Attempt : Handle(n, b)
    BY <1>6 DEF Work
  <2> QED BY <1>3, <1>4, <1>5
    DEF Handle, AcceptFailed, Accepted, Authorize, BeginAnswer, IssueGrant, WakeFails, OnSpawn,
        CleanupUnconfirmed, RecordFinished, QueueReport, LeaseDeadline
<1>7. ASSUME NEW n \in Message, Submit(n) \/ Claim(n) PROVE FALSE
  BY <1>5, <1>7 DEF Submit, Claim, runnerVars
<1>8. Coordinate \/ (\E p \in net : Lose(p)) \/ UNCHANGED vars => FALSE
  BY <1>5 DEF Coordinate, Lose, vars, runnerVars
<1>9. Own \/ CrashRunner => FALSE
  BY <1>5 DEF Own, WithdrawShare, StopRunner, Stopped, Restart, CrashRunner, Crash
<1>10. ASSUME NEW n \in Message, NEW b \in Attempt,
              \/ ReceiveClaim(n, b) \/ HandleAccept(n, b) \/ SendRenewal(n, b)
              \/ \E s \in {"starting", "running"} : HandleRenewal(n, b, s)
       PROVE  FALSE
  BY <1>5, <1>10 DEF ReceiveClaim, TakeClaim, HandleAccept, SendRenewal, runnerVars, HandleRenewal
<1>11. ASSUME NEW n \in Message, NEW b \in Attempt,
              ConfirmWake(n, b) \/ SendReport(n, b) \/ HandleReport(n, b)
       PROVE  FALSE
  BY <1>5, <1>11 DEF ConfirmWake, SendReport, runnerVars, HandleReport
<1> QED BY <1>6, <1>7, <1>8, <1>9, <1>10, <1>11, Zenon DEF Next

\* No process is started for a share its owner has withdrawn, wherever the
\* handler was when the withdrawal stopped it (runner.js, docs line 181).
THEOREM WithdrawalStopsStarts == Spec => NothingStartsUnshared
<1>1. IInv /\ [Next]_vars => [\A m \in Message, a \in Attempt : ~Ran(m, a) /\ Ran(m, a)' => offered]_vars
  BY StartNeedsShare
<1> QED BY <1>1, Inductive, PTL DEF Spec, NothingStartsUnshared

=============================================================================
