----------------------- MODULE PeerDelivery_refinement -----------------------
(***************************************************************************)
(* PeerDelivery implements RemoteDelivery, and keeps one process per Agent *)
(* and one chat wake at a time, for every set of messages, every number of *)
(* start attempts and every event.                                         *)
(*                                                                         *)
(* The argument.  A row changes its status without a report only while its *)
(* attempt was not accepted, or to say that it runs or was lost track of   *)
(* (Moves); by a report it changes as the report says, and IInv says that  *)
(* a report is true of its process and was made by the accepted attempt.   *)
(* A row that is final and had an accepted attempt got its report, so a    *)
(* handler that may still start a process finds its row open (Ended).  The *)
(* execution claim is held while the process may run (Executes).           *)
(***************************************************************************)
EXTENDS PeerDelivery_proofs

-----------------------------------------------------------------------------
(***************************************************************************)
(* Rows: how a handler other than a claim and a report changes one.        *)
(***************************************************************************)
Moves(row, new) ==
  /\ new.hold = row.hold
  /\ new.status \in FinalStatus => new.accepted = row.accepted
  /\ \/ new.status = row.status
     \/ row.accepted = NoAttempt /\ row.status = "absent" /\ new.status = "queued"
     \/ row.accepted = NoAttempt /\ row.status = "queued" /\ new.status \in {"cancelled", "expired", "failed"}
     \/ /\ row.accepted = NoAttempt /\ row.status = "claimed"
        /\ new.status \in {"queued", "cancelled", "expired", "failed"}
     \/ row.status = "claimed" /\ new.status = "running"
     \/ row.status \in HeldStatus /\ new.status = "unknown"

RowsMove == \A n \in Message : Moves(queue[n], queue'[n])

LEMMA SameMoves == ASSUME NEW row PROVE Moves(row, row)
BY DEF Moves

LEMMA ReleaseMoves ==
  ASSUME NEW row \in GoodRow, row.accepted = NoAttempt, row.status \in HeldStatus
  PROVE  Moves(row, ReleaseUnstarted(row))
<1> DEFINE s == IF row.cancel THEN "cancelled"
                ELSE IF row.past THEN "expired"
                ELSE IF row.starts >= MaxStartAttempts THEN "failed" ELSE "queued"
           new == [row EXCEPT !.status = s, !.attempt = NoAttempt,
                              !.accepted = NoAttempt, !.lease = "none"]
<1>1. row \in Row /\ row.status = "claimed"
  BY DEF GoodRow, RowOK, HeldStatus
<1>2. s \in {"queued", "cancelled", "expired", "failed"}
  OBVIOUS
<1>3. new = ReleaseUnstarted(row)
  BY DEF ReleaseUnstarted
<1> HIDE DEF s
<1>4. new.hold = row.hold /\ new.status = s /\ new.accepted = NoAttempt
  BY <1>1 DEF Row
<1> HIDE DEF new
<1> QED BY <1>1, <1>2, <1>3, <1>4 DEF Moves

\* A change of the status alone.
LEMMA StatusMoves ==
  ASSUME NEW row \in GoodRow, NEW s
  PROVE  LET new == [row EXCEPT !.status = s] IN
         new.status = s /\ new.hold = row.hold /\ new.accepted = row.accepted
BY DEF GoodRow, Row

LEMMA SweepMoves ==
  ASSUME NEW row \in GoodRow
  PROVE  Moves(row, SweepRow(row))
<1>0. row \in Row /\ RowOK(row)
  BY DEF GoodRow
<1>1. CASE row.status = "queued" /\ row.past
  BY <1>0, <1>1, StatusMoves DEF SweepRow, Moves, RowOK
<1>2. CASE row.status \in HeldStatus /\ row.lease = "lapsed" /\ row.accepted # row.attempt
  <2>1. row.accepted = NoAttempt
    BY <1>0, <1>2 DEF RowOK
  <2>2. SweepRow(row) = ReleaseUnstarted(row)
    BY <1>2 DEF SweepRow, HeldStatus
  <2> QED BY <1>2, <2>1, <2>2, ReleaseMoves
<1>3. CASE row.status \in HeldStatus /\ row.lease = "lapsed" /\ row.accepted = row.attempt
  <2>1. SweepRow(row) = LoseTrack(row)
    BY <1>3 DEF SweepRow, HeldStatus
  <2>2. LoseTrack(row).status = "unknown" /\ LoseTrack(row).hold = row.hold
    BY <1>0 DEF LoseTrack, Row
  <2> QED BY <1>3, <2>1, <2>2 DEF Moves, FinalStatus
<1>4. CASE ~(row.status = "queued" /\ row.past) /\ ~(row.status \in HeldStatus /\ row.lease = "lapsed")
  BY <1>4, SameMoves DEF SweepRow
<1> QED BY <1>1, <1>2, <1>3, <1>4

LEMMA CancelMoves ==
  ASSUME NEW row \in GoodRow
  PROVE  Moves(row, CancelRow(row))
<1>0. row \in Row /\ RowOK(row)
  BY DEF GoodRow
<1>1. CASE row.status = "queued"
  BY <1>0, <1>1, StatusMoves DEF CancelRow, Moves, RowOK
<1>2. CASE row.status # "queued" /\ row.status \in HeldStatus
  BY <1>0, <1>2 DEF CancelRow, Moves, Row
<1>3. CASE row.status # "queued" /\ row.status \notin HeldStatus
  BY <1>3, SameMoves DEF CancelRow
<1> QED BY <1>1, <1>2, <1>3

-----------------------------------------------------------------------------
(***************************************************************************)
(* Handlers of the coordinator.                                            *)
(***************************************************************************)
LEMMA OneMove ==
  ASSUME RowsOK, NEW m \in Message, NEW new, Moves(queue[m], new),
         queue' = [queue EXCEPT ![m] = new]
  PROVE  RowsMove
BY SameMoves DEF RowsOK, RowsMove

LEMMA NoMove == ASSUME UNCHANGED queue PROVE RowsMove
BY SameMoves DEF RowsMove

LEMMA SubmitMoves ==
  ASSUME RowsOK, NEW m \in Message, Submit(m)
  PROVE  RowsMove
<1> DEFINE row == queue[m]
           k == Cardinality(Present) + 1
           new == [row EXCEPT !.status = "queued", !.created = k]
<1>1. row \in Row /\ RowOK(row) /\ row.status = "absent"
  BY DEF RowsOK, GoodRow, Submit, CanSubmit
<1>2. queue' = [queue EXCEPT ![m] = new]
  BY Zenon DEF Submit, Insert
<1> HIDE DEF k, row
<1>3. new.status = "queued" /\ new.hold = row.hold /\ new.accepted = row.accepted /\ row.accepted = NoAttempt
  BY <1>1 DEF Row, RowOK
<1> HIDE DEF new
<1>4. Moves(row, new)
  BY <1>1, <1>3 DEF Moves
<1> QED BY <1>2, <1>4, OneMove DEF row

LEMMA CoordinateMoves ==
  ASSUME RowsOK, Coordinate
  PROVE  RowsMove
<1>0. ASSUME NEW n \in Message PROVE queue[n] \in GoodRow /\ queue[n] \in Row
  BY DEF RowsOK, GoodRow
<1>1. ASSUME NEW m \in Message, Cancel(m) PROVE RowsMove
  BY <1>0, <1>1, CancelMoves, OneMove DEF Cancel
<1>2. ASSUME NEW m \in Message, LapseLease(m) \/ PassExpiry(m) \/ ChatChanges(m) PROVE RowsMove
  <2> DEFINE row == queue[m]
             w == ~row.wake
  <2>1. row \in Row
    BY <1>0
  <2>2. \E new \in {[row EXCEPT !.lease = "lapsed"], [row EXCEPT !.past = TRUE], [row EXCEPT !.wake = w]} :
          queue' = [queue EXCEPT ![m] = new]
    BY <1>2, Zenon DEF LapseLease, PassExpiry, ChatChanges
  <2> HIDE DEF row, w
  <2>3. \A new \in {[row EXCEPT !.lease = "lapsed"], [row EXCEPT !.past = TRUE], [row EXCEPT !.wake = w]} :
          new.status = row.status /\ new.hold = row.hold /\ new.accepted = row.accepted
    BY <2>1 DEF Row
  <2>4. \A new \in {[row EXCEPT !.lease = "lapsed"], [row EXCEPT !.past = TRUE], [row EXCEPT !.wake = w]} :
          Moves(row, new)
    BY <2>3 DEF Moves
  <2> QED BY <2>2, <2>4, OneMove DEF row
<1>3. ASSUME NEW d \in Device, Revoke(d) PROVE RowsMove
  BY <1>0, <1>3, CancelMoves DEF Revoke, RowsMove
<1>4. CASE Sweep
  BY <1>0, <1>4, SweepMoves DEF Sweep, Swept, RowsMove
<1>5. ASSUME NEW d \in Device, Pair(d) PROVE RowsMove
  BY <1>5, NoMove DEF Pair
<1>6. CASE PublishDirectory(offered)
  BY <1>6, NoMove DEF PublishDirectory
<1> QED BY <1>1, <1>2, <1>3, <1>4, <1>5, <1>6 DEF Coordinate

LEMMA RejectMoves ==
  ASSUME RowsOK, NEW m \in Message, RejectWake(m)
  PROVE  RowsMove
<1>1. queue[m] \in GoodRow /\ RowOK(queue[m]) /\ queue[m].status = "queued"
  BY DEF RowsOK, GoodRow, RejectWake, NextQueued, Claimable
<1>2. Moves(queue[m], [queue[m] EXCEPT !.status = "failed"])
  BY <1>1, StatusMoves DEF Moves, RowOK
<1>3. queue' = [queue EXCEPT ![m] = [queue[m] EXCEPT !.status = "failed"]]
  BY Zenon DEF RejectWake
<1> QED BY <1>2, <1>3, OneMove

LEMMA RenewMoves ==
  ASSUME RowsOK, NEW m \in Message, NEW a \in Attempt, NEW s \in {"accepted", "starting", "running"},
         queue' = AfterRenew(m, a, s)
  PROVE  RowsMove
<1>1. CASE Granted(RenewVerdict(m, a, s))
  <2> DEFINE row == queue[m]
             c == row.cancel \/ WakeRejected(m)
             starts == s = "running" /\ row.status = "claimed"
             st == IF starts THEN "running" ELSE row.status
             ev == IF starts THEN row.started \cup {a} ELSE row.started
             new == [row EXCEPT !.lease = "live", !.cancel = c, !.accepted = a, !.status = st, !.started = ev]
  <2>1. row \in Row /\ row.status \in HeldStatus
    BY <1>1 DEF RowsOK, GoodRow, RenewVerdict, Granted
  <2>2. st = row.status \/ (row.status = "claimed" /\ st = "running")
    OBVIOUS
  <2>3. st \in HeldStatus
    BY <2>1 DEF HeldStatus
  <2>4. RenewRow(m, a, s) = new
    BY Zenon DEF RenewRow
  <2>5. queue' = [queue EXCEPT ![m] = new]
    BY <1>1, <2>4 DEF AfterRenew
  <2> HIDE DEF c, starts, st, ev, row
  <2>6. new.status = st /\ new.hold = row.hold
    BY <2>1 DEF Row
  <2> HIDE DEF new
  <2>7. Moves(row, new)
    BY <2>2, <2>3, <2>6 DEF Moves, HeldStatus, FinalStatus, TerminalStatus
  <2> QED BY <2>5, <2>7, OneMove DEF row
<1>2. CASE ~Granted(RenewVerdict(m, a, s))
  BY <1>2, NoMove DEF AfterRenew
<1> QED BY <1>1, <1>2

\* A claim hands a queued row out; a chat wake only while its Agent is free.
HandedOut(m) ==
  /\ queue[m].status = "queued" /\ queue[m].accepted = NoAttempt
  /\ queue'[m].status = "claimed" /\ queue'[m].hold = queue[m].hold
  /\ m \in ChatWake => ~AgentBusy
  /\ \A n \in Message \ {m} : queue'[n] = queue[n]

LEMMA HandOutRows ==
  ASSUME RowsOK, NEW m \in Message, HandOut(m)
  PROVE  HandedOut(m)
<1>1. queue[m] \in Row /\ RowOK(queue[m]) /\ queue[m].status = "queued" /\ (m \in ChatWake => ~AgentBusy)
  BY DEF RowsOK, GoodRow, HandOut, NextQueued, Claimable
<1>2. ClaimRow(queue[m]).status = "claimed" /\ ClaimRow(queue[m]).hold = queue[m].hold
  BY <1>1 DEF ClaimRow, Row
<1>3. queue'[m] = ClaimRow(queue[m]) /\ \A n \in Message \ {m} : queue'[n] = queue[n]
  BY DEF RowsOK, HandOut
<1> QED BY <1>1, <1>2, <1>3 DEF HandedOut, RowOK

\* A report of an accepted attempt settles the row as it says.
Settled(m, a) ==
  LET report == outbox[m][a].report IN
  /\ report.outcome \in {"answered", "failed", "cancelled", "unknown"}
  /\ queue[m].status \in HeldStatus \cup {"unknown"} /\ queue[m].accepted = a
  /\ queue'[m].status = report.outcome /\ queue'[m].accepted = a
  /\ queue'[m].hold = (queue[m].hold \/ (report.hold /\ report.outcome # "answered"))
  /\ \A n \in Message \ {m} : queue'[n] = queue[n]

LEMMA ReportRows ==
  ASSUME IInv, NEW m \in Message, NEW a \in Attempt, HandleReport(m, a)
  PROVE  RowsMove \/ Settled(m, a)
<1> DEFINE o == outbox[m][a].report.outcome
           h == outbox[m][a].report.hold
           row == queue[m]
           new == ResultRow(row, a, o, h)
<1>1. o \in Outcome /\ h \in BOOLEAN /\ (o # "never_started" => row.accepted = a)
  <2>1. outbox[m][a] \in BoxState /\ o # "none"
    BY RunnerTypes DEF IInv, NetOK, HandleReport
  <2> QED BY <2>1 DEF BoxState, Report, IInv, AssuredOK, Assured, Vouched
<1>2. row \in GoodRow /\ row \in Row /\ RowOK(row) /\ RowsOK
  BY DEF IInv, RowsOK, GoodRow
<1>3. queue' = AfterResult(m, a, o, h)
  BY DEF HandleReport
<1>4. CASE ResultVerdict(m, a, o) # "ok"
  BY <1>3, <1>4, NoMove DEF AfterResult
<1>5. CASE ResultVerdict(m, a, o) = "ok" /\ row.status \in FinalStatus
  <2>1. new = row
    BY <1>5 DEF ResultRow
  <2> QED BY <1>2, <1>3, <1>5, <2>1, SameMoves, OneMove DEF AfterResult
<1>6. CASE ResultVerdict(m, a, o) = "ok" /\ row.status \notin FinalStatus /\ o = "never_started"
  <2>1. row.attempt = a /\ row.status # "running" /\ row.status \in HeldStatus \cup {"unknown"}
    BY <1>2, <1>6, AttemptIsNat DEF ResultVerdict, RowOK, Row, OpenStatus, TerminalStatus, HeldStatus, FinalStatus
  <2>2. CASE row.accepted = a
    <3>1. new = LoseTrack(row)
      BY <1>6, <2>2 DEF ResultRow
    <3>2. LoseTrack(row).status = "unknown" /\ LoseTrack(row).hold = row.hold
      BY <1>2 DEF LoseTrack, Row
    <3>3. Moves(row, new)
      BY <2>1, <3>1, <3>2 DEF Moves, FinalStatus
    <3> QED BY <1>2, <1>3, <1>6, <3>3, OneMove DEF AfterResult
  <2>3. CASE row.accepted # a
    <3>1. row.accepted = NoAttempt /\ row.status \in HeldStatus
      BY <1>2, <2>1, <2>3 DEF RowOK
    <3>2. new = ReleaseUnstarted(row)
      BY <1>6, <2>3 DEF ResultRow
    <3> QED BY <1>2, <1>3, <1>6, <3>1, <3>2, ReleaseMoves, OneMove DEF AfterResult
  <2> QED BY <2>2, <2>3
<1>7. CASE ResultVerdict(m, a, o) = "ok" /\ row.status \notin FinalStatus /\ o # "never_started"
  <2>1. row.accepted = a /\ row.status \in HeldStatus \cup {"unknown"}
    BY <1>1, <1>2, <1>7, AttemptIsNat DEF RowOK, Row, OpenStatus, TerminalStatus, HeldStatus, FinalStatus
  <2>2. new = [row EXCEPT !.status = o, !.lease = "none", !.hold = @ \/ (h /\ o # "answered")]
    BY <1>7 DEF ResultRow
  <2>3. queue' = [queue EXCEPT ![m] = new]
    BY <1>3, <1>7 DEF AfterResult
  <2> DEFINE hold == row.hold \/ (h /\ o # "answered")
  <2>4. new = [row EXCEPT !.status = o, !.lease = "none", !.hold = hold]
    BY <1>2, <2>2 DEF Row
  <2> HIDE DEF o, h, row, new, hold
  <2>5. new.status = o /\ new.hold = hold /\ new.accepted = row.accepted
    BY <1>2, <2>4 DEF Row
  <2>6. queue'[m] = new /\ \A n \in Message \ {m} : queue'[n] = queue[n]
    BY <1>2, <2>3 DEF RowsOK
  <2>7. o \in {"answered", "failed", "cancelled", "unknown"}
    BY <1>1, <1>7 DEF Outcome
  <2> QED BY <2>1, <2>5, <2>6, <2>7 DEF Settled, o, h, row, hold
<1> QED BY <1>4, <1>5, <1>6, <1>7

\* What a step does to the queue.
LEMMA QueueStep ==
  ASSUME IInv, [Next]_vars
  PROVE  \/ RowsMove
         \/ \E m \in Message : HandedOut(m) /\ UNCHANGED proc
         \/ \E m \in Message, a \in Attempt : Settled(m, a) /\ UNCHANGED proc
<1>0. RowsOK
  BY DEF IInv
<1>1. ASSUME NEW m \in Message, Submit(m) PROVE RowsMove
  BY <1>0, <1>1, SubmitMoves
<1>2. ASSUME NEW m \in Message, Claim(m) PROVE RowsMove \/ (HandedOut(m) /\ UNCHANGED proc)
  BY <1>0, <1>2, RejectMoves, HandOutRows DEF Claim, runnerVars
<1>3. ASSUME NEW m \in Message, NEW a \in Attempt, HandleReport(m, a)
      PROVE  RowsMove \/ (Settled(m, a) /\ UNCHANGED proc)
  BY <1>3, ReportRows DEF HandleReport
<1>4. ASSUME NEW m \in Message, NEW a \in Attempt,
             \/ HandleAccept(m, a) \/ ConfirmWake(m, a)
             \/ \E s \in {"starting", "running"} : HandleRenewal(m, a, s)
      PROVE  RowsMove
  <2>1. \E s \in {"accepted", "starting", "running"} : queue' = AfterRenew(m, a, s)
    BY <1>4 DEF HandleAccept, ConfirmWake, HandleRenewal
  <2> QED BY <1>0, <2>1, RenewMoves
<1>5. CASE Coordinate
  BY <1>0, <1>5, CoordinateMoves
<1>6. ASSUME NEW m \in Message, NEW a \in Attempt, ReceiveClaim(m, a) \/ SendRenewal(m, a) \/ SendReport(m, a) \/ Work(m, a)
      PROVE  RowsMove
  BY <1>6, NoMove DEF ReceiveClaim, SendRenewal, SendReport, Work, coordinatorVars
<1>7. CASE Own \/ CrashRunner \/ (\E p \in net : Lose(p)) \/ UNCHANGED vars
  BY <1>7, NoMove DEF Own, CrashRunner, Lose, coordinatorVars, vars
<1> QED BY <1>1, <1>2, <1>3, <1>4, <1>5, <1>6, <1>7, Zenon DEF Next

-----------------------------------------------------------------------------
(***************************************************************************)
(* Processes: three steps of the device start or end one, and the queue    *)
(* stays as it is meanwhile.                                               *)
(***************************************************************************)
LEMMA ProcStep ==
  ASSUME [Next]_vars
  PROVE  \/ UNCHANGED proc
         \/ \E m \in Message, a \in Attempt :
              (Spawn(m, a) \/ Exit(m, a) \/ OrphanExits(m, a)) /\ UNCHANGED queue
<1>1. ASSUME NEW m \in Message, NEW a \in Attempt, Work(m, a)
      PROVE  UNCHANGED proc \/ ((Spawn(m, a) \/ Exit(m, a) \/ OrphanExits(m, a)) /\ UNCHANGED queue)
  BY <1>1 DEF Work, Handle, AcceptFailed, Accepted, Authorize, BeginAnswer, IssueGrant, WakeFails,
              OnSpawn, CleanupUnconfirmed, RecordFinished, QueueReport, LeaseDeadline, coordinatorVars
<1>2. ASSUME NEW m \in Message, Submit(m) \/ Claim(m) PROVE UNCHANGED proc
  BY <1>2 DEF Submit, Claim, runnerVars
<1>3. CASE Coordinate \/ (\E p \in net : Lose(p)) \/ UNCHANGED vars
  BY <1>3 DEF Coordinate, Lose, vars, runnerVars
<1>4. CASE Own \/ CrashRunner
  BY <1>4 DEF Own, WithdrawShare, StopRunner, Stopped, Restart, CrashRunner, Crash
<1>5. ASSUME NEW m \in Message, NEW a \in Attempt,
             \/ ReceiveClaim(m, a) \/ HandleAccept(m, a) \/ SendRenewal(m, a)
             \/ \E s \in {"starting", "running"} : HandleRenewal(m, a, s)
      PROVE  UNCHANGED proc
  BY <1>5 DEF ReceiveClaim, TakeClaim, HandleAccept, SendRenewal, runnerVars, HandleRenewal
<1>6. ASSUME NEW m \in Message, NEW a \in Attempt, ConfirmWake(m, a) \/ SendReport(m, a) \/ HandleReport(m, a)
      PROVE  UNCHANGED proc
  BY <1>6 DEF ConfirmWake, SendReport, runnerVars, HandleReport
<1> QED BY <1>1, <1>2, <1>3, <1>4, <1>5, <1>6, Zenon DEF Next

\* Only the accepted attempt of a message can have run.
LEMMA OnlyAcceptedRan ==
  ASSUME IInv, NEW m \in Message, NEW b \in Attempt, queue[m].accepted # b
  PROVE  proc[m][b] = "none" /\ handler[m][b].pc \notin Supervised
BY DEF IInv, AssuredOK, Assured, Confirmed, ConfirmedPC, Ran

LEMMA RunIs ==
  ASSUME IInv, NEW m \in Message
  PROVE  /\ queue[m].accepted = NoAttempt => RunOf(m) = "never"
         /\ \A a \in Attempt : queue[m].accepted = a =>
              /\ proc[m][a] = "none" => RunOf(m) = "never"
              /\ proc[m][a] = "live" => RunOf(m) = "live"
              /\ proc[m][a] = "gone" => RunOf(m) = "gone"
<1>1. ASSUME queue[m].accepted = NoAttempt PROVE RunOf(m) = "never"
  BY <1>1, OnlyAcceptedRan, AttemptIsNat DEF RunOf, MayRun, EverRan, Ran
<1>2. ASSUME NEW a \in Attempt, queue[m].accepted = a
      PROVE  /\ proc[m][a] = "none" => RunOf(m) = "never"
             /\ proc[m][a] = "live" => RunOf(m) = "live"
             /\ proc[m][a] = "gone" => RunOf(m) = "gone"
  BY <1>2, OnlyAcceptedRan DEF RunOf, MayRun, EverRan, Ran
<1> QED BY <1>1, <1>2

LEMMA SameRuns == ASSUME UNCHANGED proc, NEW m \in Message PROVE RunOf(m)' = RunOf(m)
BY DEF RunOf, MayRun, EverRan, Ran

-----------------------------------------------------------------------------
(***************************************************************************)
(* A row that is final and whose attempt was accepted got its report.      *)
(***************************************************************************)
Ended ==
  \A m \in Message, a \in Attempt :
    queue[m].status \in FinalStatus /\ queue[m].accepted = a => outbox[m][a].report.outcome # "none"

LEMMA BoxesStay ==
  ASSUME IInv, [Next]_vars, NEW m \in Message, NEW a \in Attempt, outbox[m][a].report.outcome # "none"
  PROVE  outbox'[m][a].report.outcome # "none"
<1>1. ASSUME NEW n \in Message, NEW b \in Attempt, Work(n, b) PROVE AllGood
  BY <1>1, HandleStep DEF Work, IInv, LocalsOK
<1>2. ASSUME NEW n \in Message, NEW b \in Attempt, ReceiveClaim(n, b) PROVE UNCHANGED outbox
  BY <1>2 DEF ReceiveClaim, TakeClaim
<1>3. CASE Own \/ CrashRunner
  BY <1>3, OwnStep, CrashStep DEF Own, CrashRunner, IInv, LocalsOK, AllGood, Good
<1>4. ASSUME NEW n \in Message, NEW b \in Attempt, HandleReport(n, b)
      PROVE  outbox'[m][a].report.outcome # "none"
  <2>1. CASE UNCHANGED outbox
    BY <2>1
  <2>2. CASE MarkDelivered(n, b)
    <3> DEFINE box == outbox[n][b]
               new == [box EXCEPT !.delivered = TRUE]
    <3>1. box \in BoxState /\ outbox \in [Message -> [Attempt -> BoxState]]
      BY RunnerTypes DEF IInv
    <3>2. outbox' = [outbox EXCEPT ![n][b] = new]
      BY <2>2, Zenon DEF MarkDelivered
    <3> HIDE DEF box
    <3>3. new.report = box.report
      BY <3>1 DEF BoxState
    <3> HIDE DEF new
    <3> QED BY <3>1, <3>2, <3>3 DEF box
  <2> QED BY <1>4, <2>1, <2>2 DEF HandleReport
<1>5. ASSUME NEW n \in Message, NEW b \in Attempt,
             \/ HandleAccept(n, b) \/ SendRenewal(n, b) \/ SendReport(n, b) \/ ConfirmWake(n, b)
             \/ \E s \in {"starting", "running"} : HandleRenewal(n, b, s)
      PROVE  UNCHANGED outbox
  BY <1>5 DEF HandleAccept, SendRenewal, SendReport, ConfirmWake, HandleRenewal, runnerVars
<1>6. ASSUME NEW n \in Message, Submit(n) \/ Claim(n) PROVE UNCHANGED outbox
  BY <1>6 DEF Submit, Claim, runnerVars
<1>7. CASE Coordinate \/ (\E p \in net : Lose(p)) \/ UNCHANGED vars
  BY <1>7 DEF Coordinate, Lose, vars, runnerVars
<1>8. AllGood => outbox'[m][a].report.outcome # "none"
  BY DEF AllGood, Good
<1> QED BY <1>1, <1>2, <1>3, <1>4, <1>5, <1>6, <1>7, <1>8, Zenon DEF Next

LEMMA EndedKept == IInv /\ Ended /\ [Next]_vars => Ended'
<1> SUFFICES ASSUME IInv, Ended, [Next]_vars, NEW m \in Message, NEW a \in Attempt,
                    queue'[m].status \in FinalStatus, queue'[m].accepted = a
             PROVE  outbox'[m][a].report.outcome # "none"
  BY DEF Ended
<1> SUFFICES outbox[m][a].report.outcome # "none"
  BY BoxesStay
<1>1. CASE RowsMove
  BY <1>1, AttemptIsNat DEF RowsMove, Moves, Ended, FinalStatus, TerminalStatus, HeldStatus
<1>2. ASSUME NEW n \in Message, HandedOut(n) PROVE outbox[m][a].report.outcome # "none"
  BY <1>2 DEF HandedOut, Ended, FinalStatus, TerminalStatus
<1>3. ASSUME NEW n \in Message, NEW b \in Attempt, Settled(n, b) PROVE outbox[m][a].report.outcome # "none"
  BY <1>3 DEF Settled, Ended
<1> QED BY <1>1, <1>2, <1>3, QueueStep

\* A handler that may still start a process finds its row open.
LEMMA OpenWhileHandled ==
  ASSUME IInv, Ended, NEW m \in Message, NEW a \in Attempt, handler[m][a].pc \in Supervised
  PROVE  queue[m].accepted = a /\ queue[m].status \in HeldStatus \cup {"unknown"}
<1>1. queue[m].accepted = a /\ outbox[m][a].report.outcome = "none"
  BY DEF IInv, LocalsOK, LocalOK, AssuredOK, Assured, Confirmed, ConfirmedPC, Supervised
<1>2. queue[m] \in Row /\ RowOK(queue[m])
  BY DEF IInv, RowsOK, GoodRow
<1> QED BY <1>1, <1>2, AttemptIsNat DEF Ended, RowOK, Row, OpenStatus, TerminalStatus, FinalStatus, HeldStatus

-----------------------------------------------------------------------------
(***************************************************************************)
(* The refinement.  Each message makes one of the moves RemoteDelivery     *)
(* allows, or none.                                                        *)
(***************************************************************************)
Rests(m) == queue'[m].status = queue[m].status /\ queue'[m].hold = queue[m].hold /\ RunOf(m)' = RunOf(m)

Allowed(m) == Delivery!May(m, queue'[m].status, RunOf(m)', queue'[m].hold)

LEMMA AllAllowed ==
  ASSUME \A m \in Message : Rests(m) \/ Allowed(m)
  PROVE  Delivery!DeliverSome
BY DEF Rests, Allowed, Delivery!DeliverSome

LEMMA MovesAllowed ==
  ASSUME IInv, UNCHANGED proc, NEW m \in Message, Moves(queue[m], queue'[m])
  PROVE  Rests(m) \/ Allowed(m)
<1>1. RunOf(m)' = RunOf(m) /\ (queue[m].accepted = NoAttempt => RunOf(m) = "never")
  BY SameRuns, RunIs
<1> QED BY <1>1 DEF Moves, Rests, Allowed, HeldStatus,
                    Delivery!May, Delivery!WithoutRun, Delivery!Progress, Delivery!Held

LEMMA HandedOutAllowed ==
  ASSUME IInv, UNCHANGED proc, NEW m \in Message, HandedOut(m)
  PROVE  Allowed(m)
<1>1. RunOf(m)' = RunOf(m) /\ RunOf(m) = "never"
  BY SameRuns, RunIs DEF HandedOut
<1> QED BY <1>1 DEF HandedOut, Allowed, Delivery!May, Delivery!WithoutRun

\* A report tells the truth of its process, so the status may say the same.
LEMMA SettledAllowed ==
  ASSUME IInv, UNCHANGED proc, NEW m \in Message, NEW a \in Attempt, Settled(m, a)
  PROVE  Allowed(m)
<1>1. RunOf(m)' = RunOf(m)
  BY SameRuns
<1>2. Truthful(m, a, outbox[m][a].report) /\ proc[m][a] \in {"none", "live", "gone"} /\ queue[m] \in Row
  BY RunnerTypes DEF IInv, LocalsOK, LocalOK, RowsOK, GoodRow
<1>3. RunOf(m) = "live" => proc[m][a] = "live"
  BY <1>2, RunIs DEF Settled
<1>4. proc[m][a] = "gone" => RunOf(m) = "gone"
  BY RunIs DEF Settled
<1>5. queue[m].hold => queue'[m].hold
  BY DEF Settled
<1>6. Delivery!Reported(m, queue'[m].status, queue'[m].hold)
  BY <1>2, <1>3, <1>4, <1>5 DEF Settled, Truthful, Delivery!Reported, Delivery!Held, HeldStatus
<1> QED BY <1>1, <1>6 DEF Allowed, Delivery!May

LEMMA ProcessAllowed ==
  ASSUME IInv, Ended, NEW m \in Message, NEW a \in Attempt,
         Spawn(m, a) \/ Exit(m, a) \/ OrphanExits(m, a), UNCHANGED queue
  PROVE  \A n \in Message : Rests(n) \/ Allowed(n)
<1>1. /\ queue[m].accepted = a
      /\ \A b \in Attempt \ {a} : proc[m][b] = "none"
      /\ proc \in [Message -> [Attempt -> {"none", "live", "gone"}]]
  <2>1. Confirmed(m, a)
    BY DEF Spawn, Exit, OrphanExits, Confirmed, Ran, ConfirmedPC, Supervised
  <2>2. queue[m].accepted = a
    BY <2>1 DEF IInv, AssuredOK, Assured
  <2> QED BY <2>2, OnlyAcceptedRan, RunnerTypes DEF IInv
<1>2. ASSUME NEW r \in {"live", "gone"}, proc' = [proc EXCEPT ![m][a] = r]
      PROVE  RunOf(m)' = r /\ \A n \in Message \ {m} : RunOf(n)' = RunOf(n)
  BY <1>1, <1>2 DEF RunOf, MayRun, EverRan, Ran
<1>3. CASE Spawn(m, a)
  <2>1. proc[m][a] = "none" /\ queue[m].status \in HeldStatus \cup {"unknown"}
    BY <1>3, OpenWhileHandled DEF Spawn, Supervised, IInv, LocalsOK, LocalOK
  <2>2. RunOf(m) = "never" /\ RunOf(m)' = "live" /\ \A n \in Message \ {m} : RunOf(n)' = RunOf(n)
    BY <1>1, <1>2, <1>3, <2>1, RunIs DEF Spawn
  <2> QED BY <2>1, <2>2 DEF Rests, Allowed, Delivery!May, Delivery!Held, HeldStatus
<1>4. CASE Exit(m, a) \/ OrphanExits(m, a)
  <2>1. proc[m][a] = "live" \/ proc[m][a] = "gone"
    <3>1. handler[m][a].pc = "watching" \/ proc[m][a] = "live"
      BY <1>4 DEF Exit, OrphanExits
    <3>2. proc[m][a] # "none"
      BY <3>1 DEF IInv, LocalsOK, LocalOK, Ran
    <3> QED BY <1>1, <3>2
  <2>2. RunOf(m)' = "gone" /\ \A n \in Message \ {m} : RunOf(n)' = RunOf(n)
    BY <1>2, <1>4 DEF Exit, OrphanExits
  <2>3. RunOf(m) = "live" \/ RunOf(m) = "gone"
    BY <1>1, <2>1, RunIs
  <2> QED BY <2>2, <2>3 DEF Rests, Allowed, Delivery!May
<1> QED BY <1>3, <1>4

LEMMA StepImplements == IInv /\ Ended /\ [Next]_vars => Delivery!DeliverSome
<1> SUFFICES ASSUME IInv, Ended, [Next]_vars PROVE \A n \in Message : Rests(n) \/ Allowed(n)
  BY AllAllowed
<1>1. CASE \E m \in Message, a \in Attempt : (Spawn(m, a) \/ Exit(m, a) \/ OrphanExits(m, a)) /\ UNCHANGED queue
  BY <1>1, ProcessAllowed
<1>2. CASE UNCHANGED proc
  <2>1. CASE RowsMove
    BY <1>2, <2>1, MovesAllowed DEF RowsMove
  <2>2. ASSUME NEW m \in Message, HandedOut(m) \/ \E a \in Attempt : Settled(m, a)
        PROVE  \A n \in Message : Rests(n) \/ Allowed(n)
    <3>1. \A n \in Message \ {m} : Rests(n)
      BY <1>2, <2>2, SameRuns DEF HandedOut, Settled, Rests
    <3> QED BY <1>2, <2>2, <3>1, HandedOutAllowed, SettledAllowed
  <2> QED BY <2>1, <2>2, QueueStep
<1> QED BY <1>1, <1>2, ProcStep

LEMMA InitImplements == Init => Ended /\ Delivery!DeliveryInit
BY DEF Init, CoordinatorInit, RunnerInit, AbsentRow, Ended, FinalStatus, TerminalStatus,
       RunOf, MayRun, EverRan, Ran, Delivery!DeliveryInit

\* A final row of an accepted attempt has its report in the outbox, in every
\* behaviour.
THEOREM EndedByReport == Spec => []Ended
BY InitImplements, EndedKept, Inductive, PTL DEF Spec

\* The status the sender sees is the one RemoteDelivery promises, for every set
\* of messages, whatever happens to requests, devices and the runner
\* (coordinator-service.js, runner.js).
THEOREM Implements == Spec => ImplementsRemoteDelivery
<1>1. IInv /\ Ended /\ [Next]_vars => [Delivery!DeliverSome]_(Delivery!deliveryVars)
  BY StepImplements
<1> QED BY <1>1, InitImplements, EndedByReport, Inductive, PTL DEF Spec, ImplementsRemoteDelivery, Delivery!Promise

-----------------------------------------------------------------------------
(***************************************************************************)
(* The execution claim.  It is held as long as a process of the message    *)
(* may run, and by one message at a time.                                  *)
(***************************************************************************)
Executing(m, a) == proc[m][a] = "live" \/ handler[m][a].pc \in {"waking", "cleared", "watching"}

Executes ==
  /\ \A m \in Message, a \in Attempt : Executing(m, a) => exec[m] = "active"
  /\ \A m, n \in Message : exec[m] = "active" /\ exec[n] = "active" => m = n

\* Steps that start no execution and keep the claims.
Narrows == exec' = exec /\ \A n \in Message, b \in Attempt : Executing(n, b)' => Executing(n, b)

LEMMA NarrowsKeeps == Executes /\ Narrows => Executes'
BY DEF Executes, Narrows

LEMMA SameHandlersKeep ==
  ASSUME Executes, UNCHANGED <<handler, proc, exec>> PROVE Executes'
BY NarrowsKeeps DEF Narrows, Executing

\* Attempt a of message m stops executing, or never did, and the claim of m may end.
LEMMA ReleaseKeeps ==
  ASSUME IInv, Executes, NEW m \in Message, NEW a \in Attempt, Frame(m, a),
         Confirmed(m, a), ~Executing(m, a)', FinishExec(m)
  PROVE  Executes'
<1>1. exec \in [Message -> {"none", "asked", "active", "finished"}]
  BY DEF IInv, RunnerTypeOK
<1>2. \A n \in Message : exec'[n] = exec[n] \/ (n = m /\ exec'[n] = "finished")
  BY <1>1 DEF FinishExec
<1>3. ASSUME NEW n \in Message, NEW b \in Attempt, Executing(n, b)'
      PROVE  Executing(n, b) /\ n # m
  <2>1. n # m \/ b # a
    BY <1>3
  <2>2. Executing(n, b)
    BY <1>3, <2>1 DEF Executing, Frame
  <2>3. CASE n = m
    <3>1. Confirmed(m, b)
      BY <2>2, <2>3 DEF Executing, Confirmed, Ran, ConfirmedPC, Supervised
    <3> QED BY <2>1, <2>3, <3>1 DEF IInv, AssuredOK, Assured
  <2> QED BY <2>2, <2>3
<1> QED BY <1>2, <1>3 DEF Executes

LEMMA HandleExecutes ==
  ASSUME IInv, Executes, NEW m \in Message, NEW a \in Attempt, Handle(m, a)
  PROVE  Executes'
<1>0. /\ Frame(m, a) /\ RunnerTypeOK /\ LocalOK(m, a)
      /\ handler' \in [Message -> [Attempt -> HandlerState]]
      /\ LocalOK(m, a)'
  BY HandleStep, RunnerTypes DEF IInv, LocalsOK, RunnerTypeOK, AllGood, Good, HandlerState
<1>1. ASSUME exec' = exec, Executing(m, a)' => Executing(m, a) PROVE Executes'
  BY <1>0, <1>1, NarrowsKeeps DEF Narrows, Frame, Executing
<1>2. ASSUME NEW pc \in PC, Goto(m, a, pc) PROVE handler'[m][a].pc = pc
  BY <1>0, <1>2, GotoStep
<1>3. ASSUME NEW r, Settle(m, a, r) PROVE handler'[m][a].pc = "settling"
  <2>1. handler' = [handler EXCEPT ![m][a] = [handler[m][a] EXCEPT !.pc = "settling", !.report = r]]
    BY <1>3, Zenon DEF Settle
  <2>2. handler'[m][a] = [handler[m][a] EXCEPT !.pc = "settling", !.report = r]
    BY <1>0, <2>1, RunnerTypes
  <2>3. handler[m][a] \in HandlerState
    BY <1>0, RunnerTypes
  <2> QED BY <2>2, <2>3 DEF HandlerState
<1>12. ASSUME NEW r, Conclude(m, a, r) PROVE handler'[m][a].pc = "reporting"
  <2>1. handler' = [handler EXCEPT ![m][a] = [handler[m][a] EXCEPT !.pc = "reporting", !.report = r]]
    BY <1>12, Zenon DEF Conclude
  <2>2. handler'[m][a] = [handler[m][a] EXCEPT !.pc = "reporting", !.report = r]
    BY <1>0, <2>1, RunnerTypes
  <2>3. handler[m][a] \in HandlerState
    BY <1>0, RunnerTypes
  <2> QED BY <2>2, <2>3 DEF HandlerState
<1>4. CASE AcceptFailed(m, a) \/ Accepted(m, a) \/ Authorize(m, a)
  <2>1. handler'[m][a].pc \in {"settling", "authorizing", "supervising"}
    BY <1>2, <1>3, <1>4 DEF AcceptFailed, Accepted, Authorize, PC, ConfirmedPC, Supervised
  <2>2. UNCHANGED <<exec, proc>>
    BY <1>4 DEF AcceptFailed, Accepted, Authorize
  <2> QED BY <1>1, <2>1, <2>2 DEF Executing
<1>5. CASE BeginAnswer(m, a)
  <2>1. handler[m][a].pc = "supervising" /\ proc[m][a] = "none" /\ UNCHANGED proc
    BY <1>0, <1>5 DEF BeginAnswer, LocalOK, Supervised
  <2>2. CASE exec[m] = "none" /\ ~AgentTaken(m) /\ exec' = [exec EXCEPT ![m] = "active"]
    <3>1. exec'[m] = "active" /\ \A n \in Message \ {m} : exec'[n] = exec[n] /\ exec[n] # "active"
      BY <1>0, <2>2 DEF RunnerTypeOK, AgentTaken
    <3>2. \A n \in Message, b \in Attempt : n # m /\ Executing(n, b)' => Executing(n, b)
      BY <1>0 DEF Executing, Frame
    <3> QED BY <3>1, <3>2 DEF Executes
  <2>3. CASE exec[m] = "none" /\ exec' = [exec EXCEPT ![m] = "asked"] /\ Fail(m, a, FailureOutcome(m, a), FALSE)
    <3>1. exec'[m] = "asked" /\ \A n \in Message \ {m} : exec'[n] = exec[n]
      BY <1>0, <2>3 DEF RunnerTypeOK
    <3>2. handler'[m][a].pc = "reporting"
      BY <1>12, <2>3 DEF Fail
    <3>3. \A n \in Message, b \in Attempt : Executing(n, b)' => Executing(n, b) /\ n # m
      <4> SUFFICES ASSUME NEW n \in Message, NEW b \in Attempt, Executing(n, b)'
                   PROVE  Executing(n, b) /\ n # m
        OBVIOUS
      <4>1. Executing(n, b)
        BY <1>0, <2>1, <3>2 DEF Executing, Frame
      <4> QED BY <2>3, <4>1 DEF Executes
    <3> QED BY <3>1, <3>3 DEF Executes
  <2>4. CASE exec' = exec /\ Fail(m, a, FailureOutcome(m, a), FALSE)
    <3>1. handler'[m][a].pc = "reporting"
      BY <1>12, <2>4 DEF Fail
    <3> QED BY <1>1, <2>1, <2>4, <3>1 DEF Executing
  <2> QED BY <1>5, <2>2, <2>3, <2>4, Zenon DEF BeginAnswer
<1>6. CASE WakeFails(m, a)
  <2>1. handler'[m][a].pc = "reporting"
    BY <1>12, <1>6 DEF WakeFails, Fail
  <2>2. Confirmed(m, a) /\ FinishExec(m) /\ UNCHANGED proc /\ proc[m][a] = "none"
    BY <1>0, <1>6 DEF WakeFails, Confirmed, ConfirmedPC, Supervised, LocalOK
  <2> QED BY <1>0, <2>1, <2>2, ReleaseKeeps DEF Executing
<1>7. CASE IssueGrant(m, a) \/ Spawn(m, a) \/ OnSpawn(m, a) \/ OrphanExits(m, a)
  <2>1. exec' = exec
    BY <1>7 DEF IssueGrant, Spawn, OnSpawn, OrphanExits
  <2>2. CASE IssueGrant(m, a) \/ Spawn(m, a)
    BY <1>1, <2>1, <2>2 DEF IssueGrant, Spawn, Executing
  <2>3. CASE OnSpawn(m, a)
    BY <1>1, <2>1, <2>3 DEF OnSpawn, Executing
  <2>4. CASE OrphanExits(m, a)
    BY <1>1, <2>1, <2>4 DEF OrphanExits, Executing
  <2> QED BY <1>7, <2>2, <2>3, <2>4
<1>8. CASE Exit(m, a)
  <2>1. handler'[m][a].pc = "reporting"
    BY <1>12, <1>8 DEF Exit, Fail
  <2>2. Confirmed(m, a) /\ FinishExec(m)
    BY <1>8 DEF Exit, Confirmed, ConfirmedPC, Supervised
  <2>3. proc'[m][a] = "gone"
    BY <1>0, <1>8, RunnerTypes DEF Exit
  <2> QED BY <1>0, <2>1, <2>2, <2>3, ReleaseKeeps DEF Executing
<1>9. CASE CleanupUnconfirmed(m, a)
  BY <1>1, <1>9 DEF CleanupUnconfirmed, Executing
<1>10. CASE QueueReport(m, a)
  <2>1. handler'[m][a].pc = "none"
    BY <1>0, <1>10, RunnerTypes DEF QueueReport, Idle
  <2> QED BY <1>1, <1>10, <2>1 DEF QueueReport, Executing
<1>11. CASE LeaseDeadline(m, a)
  <2>1. handler'[m][a].pc = handler[m][a].pc
    <3>1. handler'[m][a] = Stopping(handler[m][a], "lease_lost")
      BY <1>0, <1>11, RunnerTypes DEF LeaseDeadline
    <3>2. handler[m][a] \in HandlerState
      BY <1>0, RunnerTypes
    <3> QED BY <3>1, <3>2, StoppingType DEF OnlyStops, StopReason
  <2> QED BY <1>1, <1>11, <2>1 DEF LeaseDeadline, Executing
<1>13. CASE RecordFinished(m, a)
  <2>1. handler'[m][a].pc = "settling"
    BY <1>2, <1>13 DEF RecordFinished, PC
  <2> QED BY <1>1, <1>13, <2>1 DEF RecordFinished, Executing
<1> QED BY <1>4, <1>5, <1>6, <1>7, <1>8, <1>9, <1>10, <1>11, <1>13 DEF Handle

LEMMA OthersExecute == IInv /\ Executes /\ [Next]_vars => Executes'
<1> SUFFICES ASSUME IInv, Executes, [Next]_vars PROVE Executes'
  OBVIOUS
<1>0. RunnerTypeOK /\ handler \in [Message -> [Attempt -> HandlerState]]
  BY RunnerTypes DEF IInv
<1>1. ASSUME NEW m \in Message, NEW a \in Attempt, Work(m, a) PROVE Executes'
  BY <1>1, HandleExecutes DEF Work
<1>2. ASSUME NEW m \in Message, NEW a \in Attempt, ReceiveClaim(m, a) PROVE Executes'
  <2>1. Goto(m, a, "accepting") /\ UNCHANGED <<exec, proc>>
    BY <1>2 DEF ReceiveClaim, TakeClaim
  <2>2. handler'[m][a].pc = "accepting" /\ Others(m, a)
    BY <1>0, <2>1, GotoStep DEF PC
  <2> QED BY <2>1, <2>2, NarrowsKeeps DEF Narrows, Executing, Others
<1>3. ASSUME NEW m \in Message, NEW a \in Attempt, HandleAccept(m, a) PROVE Executes'
  <2>1. UNCHANGED <<exec, proc>>
    BY <1>3 DEF HandleAccept
  <2>2. CASE UNCHANGED handler
    BY <2>1, <2>2, SameHandlersKeep
  <2>3. CASE Acknowledge(m, a, RenewVerdict(m, a, "accepted"))
    <3>1. RenewVerdict(m, a, "accepted") \in Verdict
      BY DEF RenewVerdict, Verdict
    <3>2. handler'[m][a].pc = "acknowledged" /\ Others(m, a)
      BY <1>0, <2>3, <3>1, AcknowledgeStep
    <3> QED BY <2>1, <3>2, NarrowsKeeps DEF Narrows, Executing, Others
  <2> QED BY <1>3, <2>2, <2>3 DEF HandleAccept
<1>4. ASSUME NEW m \in Message, NEW a \in Attempt, NEW s \in {"starting", "running"}, HandleRenewal(m, a, s)
      PROVE  Executes'
  <2> DEFINE reason == StopFor(RenewVerdict(m, a, s))
  <2>1. UNCHANGED <<exec, proc>>
    BY <1>4 DEF HandleRenewal
  <2>2. CASE UNCHANGED handler
    BY <2>1, <2>2, SameHandlersKeep
  <2>3. CASE handler' = [handler EXCEPT ![m][a] = Stopping(@, reason)]
    <3>1. reason \in StopReason
      BY DEF StopFor, StopReason
    <3> HIDE DEF reason
    <3>2. handler'[m][a] = Stopping(handler[m][a], reason) /\ Others(m, a)
      BY <1>0, <2>3 DEF Others
    <3>3. handler'[m][a].pc = handler[m][a].pc
      BY <1>0, <3>1, <3>2, StoppingType DEF OnlyStops
    <3> QED BY <2>1, <3>2, <3>3, NarrowsKeeps DEF Narrows, Executing, Others
  <2> QED BY <1>4, <2>2, <2>3 DEF HandleRenewal
<1>5. ASSUME NEW m \in Message, NEW a \in Attempt, ConfirmWake(m, a) PROVE Executes'
  <2>0. handler[m][a].pc = "waking" /\ Confirmed(m, a) /\ proc[m][a] = "none" /\ UNCHANGED <<up, offered, state, outbox, proc>>
    BY <1>5 DEF ConfirmWake, Confirmed, ConfirmedPC, Supervised, IInv, LocalsOK, LocalOK
  <2>1. CASE Goto(m, a, "cleared") /\ UNCHANGED exec
    <3>1. Others(m, a)
      BY <1>0, <2>1, GotoStep DEF PC, ConfirmedPC, Supervised
    <3> QED BY <2>0, <2>1, <3>1, NarrowsKeeps DEF Narrows, Executing, Others
  <2>2. CASE FinishExec(m) /\ \E o \in {"unknown", "cancelled", "failed"}, h \in BOOLEAN : Fail(m, a, o, h)
    <3>1. PICK o \in {"unknown", "cancelled", "failed"}, h \in BOOLEAN : Fail(m, a, o, h)
      BY <2>2
    <3>2. handler'[m][a].pc = "reporting" /\ Others(m, a)
      <4>1. o \in Outcome \ {"never_started"}
        BY DEF Outcome
      <4> QED BY <1>0, <3>1, <4>1, FailStep
    <3>3. Frame(m, a) /\ ~Executing(m, a)'
      BY <2>0, <3>2 DEF Frame, Others, Executing
    <3> QED BY <2>0, <2>2, <3>3, ReleaseKeeps
  <2>3. FinishExec(m) /\ Fail(m, a, IF RenewVerdict(m, a, "starting") = "cancel" /\ handler[m][a].stop = "none" THEN "cancelled"
                                    ELSE FailureOutcome(m, a), FALSE)
        => \E o \in {"unknown", "cancelled", "failed"}, h \in BOOLEAN : Fail(m, a, o, h)
    BY FailureOutcomeType
  <2> QED BY <1>5, <2>1, <2>2, <2>3, Zenon DEF ConfirmWake
<1>6. CASE Own \/ CrashRunner
  <2>1. UNCHANGED <<exec, proc>>
    BY <1>6 DEF Own, WithdrawShare, StopRunner, Stopped, Restart, CrashRunner, Crash
  <2>2. CASE Stopped \/ Restart
    BY <2>1, <2>2, SameHandlersKeep DEF Stopped, Restart
  <2>3. ASSUME NEW reason \in StopReason, StopAll(reason) PROVE Executes'
    <3>1. ASSUME NEW n \in Message, NEW b \in Attempt PROVE handler'[n][b].pc = handler[n][b].pc
      BY <1>0, <2>3, StoppingType DEF StopAll, OnlyStops
    <3> QED BY <2>1, <3>1, NarrowsKeeps DEF Narrows, Executing
  <2>4. CASE Crash
    BY <2>1, <2>4, NarrowsKeeps DEF Crash, Narrows, Executing, Idle
  <2> QED BY <1>6, <2>2, <2>3, <2>4 DEF Own, WithdrawShare, StopRunner, CrashRunner, StopReason
<1>7. ASSUME NEW m \in Message, NEW a \in Attempt, SendRenewal(m, a) \/ SendReport(m, a) \/ HandleReport(m, a)
      PROVE  Executes'
  BY <1>7, SameHandlersKeep DEF SendRenewal, SendReport, HandleReport, runnerVars
<1>8. ASSUME NEW m \in Message, Submit(m) \/ Claim(m) PROVE Executes'
  BY <1>8, SameHandlersKeep DEF Submit, Claim, runnerVars
<1>9. CASE Coordinate \/ (\E p \in net : Lose(p)) \/ UNCHANGED vars
  BY <1>9, SameHandlersKeep DEF Coordinate, Lose, vars, runnerVars
<1> QED BY <1>1, <1>2, <1>3, <1>4, <1>5, <1>6, <1>7, <1>8, <1>9, Zenon DEF Next

LEMMA InitExecutes == Init => Executes
BY DEF Init, RunnerInit, Executes, Executing, Idle

\* At no time do two processes run for the one Agent, over all messages,
\* attempts, crashes and restarts of the device (roundtable/store.js, the
\* execution claim).
THEOREM OneProcess == Spec => []OneProcessPerAgent
<1>1. Executes => OneProcessPerAgent
  BY DEF Executes, Executing, OneProcessPerAgent, MayRun
<1> QED BY <1>1, InitExecutes, OthersExecute, Inductive, PTL DEF Spec

-----------------------------------------------------------------------------
(***************************************************************************)
(* Chat wakes.                                                             *)
(***************************************************************************)
LEMMA ChatWakesKept == IInv /\ OneChatWakeAtATime /\ [Next]_vars => OneChatWakeAtATime'
<1> SUFFICES ASSUME IInv, OneChatWakeAtATime, [Next]_vars,
                    NEW m \in ChatWake, NEW n \in ChatWake, m # n, queue'[m].status \in HeldStatus
             PROVE  queue'[n].status \notin HeldStatus \cup {"unknown"} /\ ~queue'[n].hold
  BY DEF OneChatWakeAtATime
<1>0. m \in Message /\ n \in Message
  BY CoordinatorAssumption
<1>1. CASE RowsMove
  BY <1>0, <1>1 DEF RowsMove, Moves, OneChatWakeAtATime, HeldStatus
<1>2. ASSUME NEW k \in Message, HandedOut(k)
      PROVE  queue'[n].status \notin HeldStatus \cup {"unknown"} /\ ~queue'[n].hold
  <2>1. CASE k = m
    BY <1>0, <1>2, <2>1 DEF HandedOut, AgentBusy
  <2>2. CASE k # m
    <3>1. queue[m].status \in HeldStatus
      BY <1>0, <1>2, <2>2 DEF HandedOut
    <3>2. k # n
      BY <1>0, <1>2, <3>1 DEF HandedOut, AgentBusy
    <3> QED BY <1>0, <1>2, <3>1, <3>2 DEF HandedOut, OneChatWakeAtATime
  <2> QED BY <2>1, <2>2
<1>3. ASSUME NEW k \in Message, NEW a \in Attempt, Settled(k, a)
      PROVE  queue'[n].status \notin HeldStatus \cup {"unknown"} /\ ~queue'[n].hold
  <2>1. k # m /\ queue[m].status \in HeldStatus
    BY <1>0, <1>3 DEF Settled, HeldStatus
  <2>2. k # n
    BY <1>3, <2>1 DEF Settled, OneChatWakeAtATime
  <2> QED BY <1>0, <1>3, <2>1, <2>2 DEF Settled, OneChatWakeAtATime
<1> QED BY <1>1, <1>2, <1>3, QueueStep

LEMMA InitChatWakes == Init => OneChatWakeAtATime
BY CoordinatorAssumption DEF Init, CoordinatorInit, AbsentRow, OneChatWakeAtATime, HeldStatus

\* While a chat wake is handed out, no other wake of its Agent is executing,
\* lost, or left a process behind (nextQueued of coordinator-service.js).
THEOREM OneChatWake == Spec => []OneChatWakeAtATime
BY InitChatWakes, ChatWakesKept, Inductive, PTL DEF Spec
=============================================================================
