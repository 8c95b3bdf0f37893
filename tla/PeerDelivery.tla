---------------------------- MODULE PeerDelivery -----------------------------
(***************************************************************************)
(* One message queue and one receiving device, joined by HTTPS requests    *)
(* that may be lost, answered into nothing, or handled long after their    *)
(* sender gave up (peer/peer-transport.js, peer/coordinator-http.js).      *)
(* Requests are not duplicated: the client never retries one by itself.    *)
(* The coordinator may be down for any time; its requests are then lost.   *)
(***************************************************************************)
EXTENDS PeerRunner

VARIABLE net    \* requests to the coordinator, and claims on their way back

vars == <<coordinatorVars, runnerVars, net>>

Packet == [kind : {"claimed", "accepted", "starting", "running", "result"},
           m : Message, a : Attempt]

Pack(kind, m, a) == [kind |-> kind, m |-> m, a |-> a]

TypeOK == CoordinatorTypeOK /\ RunnerTypeOK /\ net \in SUBSET Packet

Init == CoordinatorInit /\ RunnerInit /\ net = {}

(***************************************************************************)
(* Requests of the sender and of the owners, and the coordinator's timer.  *)
(***************************************************************************)
Submit(m) ==
  /\ CanSubmit(m)
  /\ Insert(m)
  /\ UNCHANGED <<trusted, shared, runnerVars, net>>

Coordinate ==
  /\ \/ \E m \in Message : Cancel(m) \/ LapseLease(m) \/ PassExpiry(m) \/ ChatChanges(m)
     \/ \E d \in Device : Revoke(d) \/ Pair(d)
     \/ PublishDirectory(offered)
     \/ Sweep
  /\ UNCHANGED <<runnerVars, net>>

(***************************************************************************)
(* The claim poll.  The coordinator answers a poll it believes open; the   *)
(* answer can be lost, and then nobody holds the attempt.                  *)
(***************************************************************************)
Claim(m) ==
  /\ "target" \in trusted
  /\ \/ RejectWake(m) /\ UNCHANGED net
     \/ HandOut(m) /\ net' = net \cup {Pack("claimed", m, queue[m].starts + 1)}
  /\ UNCHANGED <<trusted, shared, runnerVars>>

ReceiveClaim(m, a) ==
  /\ Pack("claimed", m, a) \in net
  /\ TakeClaim(m, a)
  /\ net' = (net \ {Pack("claimed", m, a)}) \cup {Pack("accepted", m, a)}
  /\ UNCHANGED coordinatorVars

(***************************************************************************)
(* The coordinator handles a renewal; its answer reaches the handler that  *)
(* waits for it, or nobody.                                                *)
(***************************************************************************)
Acknowledge(m, a, verdict) ==
  handler' = [handler EXCEPT ![m][a].pc = "acknowledged", ![m][a].verdict = verdict]

HandleAccept(m, a) ==
  /\ Pack("accepted", m, a) \in net
  /\ net' = net \ {Pack("accepted", m, a)}
  /\ queue' = AfterRenew(m, a, "accepted")
  /\ \/ UNCHANGED handler
     \/ /\ handler[m][a].pc = "accepting"
        /\ Acknowledge(m, a, RenewVerdict(m, a, "accepted"))
  /\ UNCHANGED <<trusted, shared, up, offered, state, outbox, exec, held, proc>>

\* Every renewSeconds, and from onSpawn, while the attempt is supervised.
SendRenewal(m, a) ==
  /\ "renew" \in Happens
  /\ handler[m][a].pc \in Supervised
  /\ handler[m][a].stop = "none"
  /\ net' = net \cup {Pack(IF state[m][a] = "running" THEN "running" ELSE "starting", m, a)}
  /\ UNCHANGED <<coordinatorVars, runnerVars>>

StopFor(verdict) ==
  CASE verdict \in {"cancel", "forbidden"} -> "cancelled"
    [] verdict = "refused" -> "lease_lost"
    [] OTHER -> "none"

HandleRenewal(m, a, s) ==
  /\ Pack(s, m, a) \in net
  /\ net' = net \ {Pack(s, m, a)}
  /\ queue' = AfterRenew(m, a, s)
  /\ \/ UNCHANGED handler
     \/ handler' = [handler EXCEPT ![m][a] = Stopping(@, StopFor(RenewVerdict(m, a, s)))]
  /\ UNCHANGED <<trusted, shared, up, offered, state, outbox, exec, held, proc>>

(***************************************************************************)
(* issueGrant of a chat wake: the coordinator must still confirm it right  *)
(* before the grant.  Only the answer is awaited here; a lost one fails.   *)
(***************************************************************************)
ConfirmWake(m, a) ==
  LET verdict == RenewVerdict(m, a, "starting") IN
  /\ handler[m][a].pc = "waking"
  /\ m \in ChatWake
  /\ queue' = AfterRenew(m, a, "starting")
  /\ \/ verdict = "ok" /\ Goto(m, a, "cleared") /\ UNCHANGED exec
     \/ /\ verdict # "ok"
        /\ FinishExec(m)
        /\ Fail(m, a, IF verdict = "cancel" /\ handler[m][a].stop = "none" THEN "cancelled"
                      ELSE FailureOutcome(m, a), FALSE)
  /\ UNCHANGED <<trusted, shared, up, offered, state, outbox, held, proc, net>>

(***************************************************************************)
(* The coordinator handles a report.  Its answer, 404 and 409 included,    *)
(* marks the report delivered; a lost one leaves it to the next flush.     *)
(***************************************************************************)
SendReport(m, a) ==
  /\ Flushable(m, a)
  /\ net' = net \cup {Pack("result", m, a)}
  /\ UNCHANGED <<coordinatorVars, runnerVars>>

HandleReport(m, a) ==
  LET report == outbox[m][a].report
      verdict == ResultVerdict(m, a, report.outcome)
  IN
  /\ Pack("result", m, a) \in net
  /\ net' = net \ {Pack("result", m, a)}
  /\ queue' = AfterResult(m, a, report.outcome, report.hold)
  /\ \/ UNCHANGED outbox
     \/ up # "down" /\ verdict \in {"ok", "refused"} /\ MarkDelivered(m, a)
  /\ UNCHANGED <<trusted, shared, up, offered, state, handler, exec, held, proc>>

Lose(p) ==
  /\ "lose" \in Happens
  /\ net' = net \ {p}
  /\ UNCHANGED <<coordinatorVars, runnerVars>>

(***************************************************************************)
(* The receiving device on its own.                                        *)
(***************************************************************************)
Handle(m, a) ==
  \/ AcceptFailed(m, a) \/ Accepted(m, a) \/ Authorize(m, a)
  \/ BeginAnswer(m, a) \/ IssueGrant(m, a) \/ WakeFails(m, a)
  \/ Spawn(m, a) \/ OnSpawn(m, a) \/ Exit(m, a) \/ CleanupUnconfirmed(m, a)
  \/ RecordFinished(m, a) \/ QueueReport(m, a) \/ LeaseDeadline(m, a) \/ OrphanExits(m, a)

Work(m, a) == Handle(m, a) /\ UNCHANGED <<coordinatorVars, net>>

Own ==
  /\ WithdrawShare \/ StopRunner \/ Stopped \/ Restart
  /\ UNCHANGED <<coordinatorVars, net>>

\* The connection a claim is coming back on dies with the process.
CrashRunner ==
  /\ Crash
  /\ net' = {p \in net : p.kind # "claimed"}
  /\ UNCHANGED coordinatorVars

Next ==
  \/ \E m \in Message : Submit(m) \/ Claim(m)
  \/ Coordinate \/ Own \/ CrashRunner
  \/ \E p \in net : Lose(p)
  \/ \E m \in Message, a \in Attempt :
       \/ ReceiveClaim(m, a) \/ HandleAccept(m, a)
       \/ SendRenewal(m, a) \/ \E s \in {"starting", "running"} : HandleRenewal(m, a, s)
       \/ ConfirmWake(m, a) \/ SendReport(m, a) \/ HandleReport(m, a)
       \/ Work(m, a)

Spec == Init /\ [][Next]_vars

(***************************************************************************)
(* Fairness.  The coordinator's sweep is a timer (SWEEP_MS) and the clock  *)
(* runs, so a message expires and a lease that no handler renews lapses.   *)
(* Every wait of a handler has a deadline: 15 s for a request, the         *)
(* execution time for the process, 5 s for a kill.  A handler therefore    *)
(* always comes to its end unless the device crashes first.  Nothing is    *)
(* assumed of the network here.                                            *)
(***************************************************************************)
Advance(m, a) ==
  \/ /\ \/ AcceptFailed(m, a) \/ Accepted(m, a) \/ Authorize(m, a)
        \/ BeginAnswer(m, a) \/ IssueGrant(m, a) \/ WakeFails(m, a)
        \/ Spawn(m, a) \/ OnSpawn(m, a) \/ Exit(m, a) \/ CleanupUnconfirmed(m, a)
        \/ RecordFinished(m, a) \/ QueueReport(m, a)
     /\ UNCHANGED <<coordinatorVars, net>>
  \/ ConfirmWake(m, a)

Unattended(m) == \A a \in Attempt : queue[m].attempt = a => handler[m][a].pc = "none"

ClockFairness ==
  /\ WF_vars(Sweep /\ UNCHANGED <<runnerVars, net>>)
  /\ \A m \in Message :
       /\ WF_vars(PassExpiry(m) /\ UNCHANGED <<runnerVars, net>>)
       /\ WF_vars(Unattended(m) /\ LapseLease(m) /\ UNCHANGED <<runnerVars, net>>)
       /\ \A a \in Attempt : WF_vars(Advance(m, a))

FairSpec == Spec /\ ClockFairness

(***************************************************************************)
(* The runner is started again after a crash, its loop flushes before      *)
(* every poll, and of reports sent again and again some get through.       *)
(***************************************************************************)
FlushFairness ==
  /\ WF_vars(Restart /\ UNCHANGED <<coordinatorVars, net>>)
  /\ SF_vars(\E m \in Message, a \in Attempt : SendReport(m, a))
  /\ SF_vars(\E m \in Message, a \in Attempt : HandleReport(m, a) /\ outbox' # outbox)

-----------------------------------------------------------------------------

\* A process for attempt a of message m was started at some time.
Ran(m, a) == proc[m][a] # "none"
EverRan(m) == \E a \in Attempt : Ran(m, a)
MayRun(m) == \E a \in Attempt : proc[m][a] = "live"

\* The device was told by the coordinator to go on with attempt a.
Confirmed(m, a) ==
  Ran(m, a) \/ handler[m][a].pc \in ConfirmedPC \/ state[m][a] \in {"accepted"} \cup StartedState

\* However claims, acceptances and reports are lost, delayed or overtaken by
\* the sweep, and whoever crashes, at most one attempt of a message is ever
\* confirmed to the device, so at most one executes it ("nothing runs before
\* the coordinator confirmed the acceptance", runner.js:10).
OneAttemptIsConfirmed ==
  \A m \in Message : \A a, b \in Attempt : Confirmed(m, a) /\ Confirmed(m, b) => a = b

\* A message whose process was started is never queued again or expired
\* (coordinator-service.js:245: a lapsed lease "becomes unknown, never 'not
\* started'").
NeverTakenForUnstarted ==
  \A m \in Message : EverRan(m) =>
    queue[m].status \in {"claimed", "running", "answered", "failed", "cancelled", "unknown"}

\* At no time do two processes run for the one Agent, over all messages,
\* attempts, crashes and restarts of the device: the execution claim.
OneProcessPerAgent ==
  \A m, n \in Message : MayRun(m) /\ MayRun(n) => m = n

\* While a chat wake is handed out, no other wake of its Agent is executing,
\* lost, or left a process behind: "one wake active per Agent".
OneChatWakeAtATime ==
  \A m, n \in ChatWake :
    m # n /\ queue[m].status \in HeldStatus =>
      queue[n].status \notin HeldStatus \cup {"unknown"} /\ ~queue[n].hold

\* What the device reports as never started has not run and does not run later.
NeverReportedUnstarted ==
  \A m \in Message, a \in Attempt :
    outbox[m][a].report.outcome = "never_started" => ~Ran(m, a)

\* Once the owner withdrew the share no process of it is started, wherever a
\* handler was at that moment ("Turning sharing off cancels its active
\* deliveries", docs/agent-roundtable.md:181).
NothingStartsUnshared ==
  [][\A m \in Message, a \in Attempt : ~Ran(m, a) /\ Ran(m, a)' => offered]_vars

\* The status the sender sees is the one RemoteDelivery promises, whatever
\* happens to requests, devices and the runner.
RunOf(m) ==
  IF MayRun(m) THEN "live" ELSE IF EverRan(m) THEN "gone" ELSE "never"

Delivery == INSTANCE RemoteDelivery
  WITH status <- [m \in Message |-> queue[m].status],
       run <- [m \in Message |-> RunOf(m)],
       hold <- [m \in Message |-> queue[m].hold]

ImplementsRemoteDelivery == Delivery!Promise

\* Whatever is lost and whoever crashes, a submitted message does not stay
\* open: it is answered, ends without an answer, or is shown as unknown.
Settles ==
  \A m \in Message : queue[m].status = "queued" ~> queue[m].status \in TerminalStatus

\* If the runner comes back and its requests get through sometime, a verified
\* answer in the outbox that fits a request reaches the coordinator, even after
\* that lost track of the attempt.
AnswersArrive ==
  FlushFairness =>
  \A m \in Message, a \in Attempt :
    outbox[m][a].report.outcome = "answered" /\ outbox[m][a].report.size = "fits"
      ~> queue[m].status = "answered"

=============================================================================
