----------------------------- MODULE PeerRunner ------------------------------
(***************************************************************************)
(* The receiving device: peer/runner.js with its durable attempts and      *)
(* outbox (peer/node-store.js), answerRemote and deliver of                *)
(* roundtable/service.js with the Agent's execution claim                  *)
(* (roundtable/store.js), and the client process it owns                   *)
(* (roundtable/wake.js).                                                   *)
(*                                                                         *)
(* Handlers are asynchronous functions of one Node process: they           *)
(* interleave at every await.  A crash may also fall between two SQL       *)
(* statements of one synchronous run, so the end of an execution, writing  *)
(* the attempt's final state and queueing its report are separate steps.   *)
(***************************************************************************)
EXTENDS PeerCoordinator

CONSTANT AnswerSizes   \* of an answer: "fits" in a request, or is "oversize"
                       \* (over PEER_LIMITS.requestBytes, or over 64,000 characters)

ASSUME RunnerAssumption == AnswerSizes \subseteq {"fits", "oversize"} /\ AnswerSizes # {}

VARIABLES
  up,        \* the runner process: "running", "stopping" or "down"
  offered,   \* the share of the Agent on this device is not revoked
  state,     \* state[m][a]: the attempts row of node.sqlite
  handler,   \* handler[m][a]: handleClaim's progress, lost when the process ends
  outbox,    \* outbox[m][a]: the queued result, with its delivered_at
  exec,      \* exec[m]: the local ask row and its execution_claim
  held,      \* messages whose local ask records an unconfirmed cleanup
  proc       \* proc[m][a]: the client process; it outlives its owner

runnerVars == <<up, offered, state, handler, outbox, exec, held, proc>>

AttemptState == {"none", "claimed", "accepted", "starting", "running",
                 "finished", "not_started", "rejected"}
StartedState == {"starting", "running", "finished"}           \* STARTED_STATES
UnfinishedState == {"claimed", "accepted", "starting", "running"}

(***************************************************************************)
(* pc: where handleClaim and the functions it awaits are.                  *)
(*   accepting    the 'accepted' renewal is out                            *)
(*   acknowledged its answer has arrived and is not yet looked at          *)
(*   authorizing  the state 'accepted' is written                          *)
(*   supervising  answerRemote looks the Agent up                          *)
(*   waking       it owns the execution claim and looks for a client       *)
(*   cleared      the grant is issued, the process may be spawned          *)
(*   watching     the process is spawned                                   *)
(*   reporting    supervise is over, its renewals are awaited              *)
(*   settling     the attempt's last state is written, its report is not   *)
(***************************************************************************)
Supervised == {"supervising", "waking", "cleared", "watching"}
ConfirmedPC == {"authorizing"} \cup Supervised
PC == {"none", "accepting", "acknowledged", "reporting", "settling"} \cup ConfirmedPC
Verdict == {"ok", "cancel", "refused", "forbidden"}
StopReason == {"none", "cancelled", "lease_lost", "stopped"}

Outcome == {"answered", "failed", "cancelled", "unknown", "never_started"}
Report == [outcome : Outcome \cup {"none"}, hold : BOOLEAN, size : {"fits", "oversize"}]
NoReport == [outcome |-> "none", hold |-> FALSE, size |-> "fits"]
ReportOf(outcome) == [NoReport EXCEPT !.outcome = outcome]

Idle == [pc |-> "none", verdict |-> "ok", stop |-> "none", report |-> NoReport]
EmptyBox == [report |-> NoReport, at |-> 0, delivered |-> FALSE]

RunnerInit ==
  /\ up = "running"
  /\ offered = TRUE
  /\ state = [m \in Message |-> [a \in Attempt |-> "none"]]
  /\ handler = [m \in Message |-> [a \in Attempt |-> Idle]]
  /\ outbox = [m \in Message |-> [a \in Attempt |-> EmptyBox]]
  /\ exec = [m \in Message |-> "none"]
  /\ held = {}
  /\ proc = [m \in Message |-> [a \in Attempt |-> "none"]]

RunnerTypeOK ==
  /\ up \in {"running", "stopping", "down"}
  /\ offered \in BOOLEAN
  /\ state \in [Message -> [Attempt -> AttemptState]]
  /\ handler \in [Message -> [Attempt ->
       [pc : PC, verdict : Verdict, stop : StopReason, report : Report]]]
  /\ outbox \in [Message -> [Attempt -> [report : Report, at : Nat, delivered : BOOLEAN]]]
  /\ exec \in [Message -> {"none", "asked", "active", "finished"}]
  /\ held \in SUBSET Message
  /\ proc \in [Message -> [Attempt -> {"none", "live", "gone"}]]

SetState(m, a, s) == state' = [state EXCEPT ![m][a] = s]
Goto(m, a, pc) == handler' = [handler EXCEPT ![m][a].pc = pc]

\* The attempt is over with this report; queueing it is the next step.
Settle(m, a, report) ==
  handler' = [handler EXCEPT ![m][a].pc = "settling", ![m][a].report = report]

Queued == {e \in Message \X Attempt : outbox[e[1]][e[2]].report.outcome # "none"}

\* queueResult: ON CONFLICT DO NOTHING; `at` ranks created_at.
Box(old, report) ==
  IF old.report.outcome # "none" THEN old
  ELSE [report |-> report, at |-> Cardinality(Queued) + 1, delivered |-> FALSE]

(***************************************************************************)
(* handleClaim up to the answer to the acceptance.  recordAttempt inserts  *)
(* once; a runner that is stopping ignores the claim.                      *)
(***************************************************************************)
TakeClaim(m, a) ==
  /\ up = "running"
  /\ state[m][a] = "none"
  /\ SetState(m, a, "claimed")
  /\ Goto(m, a, "accepting")
  /\ UNCHANGED <<up, offered, outbox, exec, held, proc>>

\* The acceptance failed, timed out, or was aborted by stop().
AcceptFailed(m, a) ==
  /\ \/ handler[m][a].pc = "accepting"
     \/ /\ handler[m][a].pc = "acknowledged"
        /\ ~Granted(handler[m][a].verdict) \/ up = "stopping"
  /\ SetState(m, a, "not_started")
  /\ Settle(m, a, ReportOf("never_started"))
  /\ UNCHANGED <<up, offered, outbox, exec, held, proc>>

Accepted(m, a) ==
  /\ handler[m][a].pc = "acknowledged"
  /\ Granted(handler[m][a].verdict)
  /\ up = "running"
  /\ SetState(m, a, "accepted")
  /\ Goto(m, a, "authorizing")
  /\ UNCHANGED <<up, offered, outbox, exec, held, proc>>

(***************************************************************************)
(* authorize: of its checks, those whose answer changes over a message's   *)
(* life are its expiry, the local share, and an earlier attempt of the     *)
(* same message that started here.                                         *)
(***************************************************************************)
\* Mutant: the share is not looked at again when the acceptance arrives.
AuthorizedWithoutShare(m, a) ==
  ~queue[m].past /\ \A b \in Attempt \ {a} : state[m][b] \notin StartedState

Authorized(m, a) ==
  /\ ~queue[m].past
  /\ offered
  /\ \A b \in Attempt \ {a} : state[m][b] \notin StartedState

Authorize(m, a) ==
  /\ handler[m][a].pc = "authorizing"
  /\ \/ /\ handler[m][a].verdict = "cancel"
        /\ SetState(m, a, "not_started")
        /\ Settle(m, a, ReportOf("cancelled"))
     \/ /\ handler[m][a].verdict = "ok"
        /\ ~Authorized(m, a)
        /\ SetState(m, a, "rejected")
        /\ Settle(m, a, ReportOf("failed"))
     \/ /\ handler[m][a].verdict = "ok"
        /\ Authorized(m, a)
        /\ up = "stopping"
        /\ SetState(m, a, "not_started")
        /\ Settle(m, a, ReportOf("never_started"))
     \/ /\ handler[m][a].verdict = "ok"
        /\ Authorized(m, a)
        /\ up = "running"
        /\ SetState(m, a, "starting")
        /\ Goto(m, a, "supervising")
  /\ UNCHANGED <<up, offered, outbox, exec, held, proc>>

(***************************************************************************)
(* How supervise reports an attempt that did not answer.                   *)
(***************************************************************************)
FailureOutcome(m, a) ==
  CASE handler[m][a].stop = "lease_lost" -> "unknown"
    [] handler[m][a].stop \in {"cancelled", "stopped"} -> "cancelled"
    [] OTHER -> "failed"

\* supervise comes to its end with this report; nothing stops it any more.
Conclude(m, a, report) ==
  handler' = [handler EXCEPT ![m][a].pc = "reporting", ![m][a].report = report]

Fail(m, a, outcome, unconfirmed) ==
  Conclude(m, a, [NoReport EXCEPT !.outcome = outcome, !.hold = unconfirmed])

(***************************************************************************)
(* answerRemote: the local ask row is written once per message, then the   *)
(* Agent's execution is claimed unless another ask of it is active or      *)
(* left an unconfirmed cleanup.                                            *)
(***************************************************************************)
AgentTaken(m) == \E n \in Message \ {m} : exec[n] = "active" \/ n \in held

BeginAnswer(m, a) ==
  /\ handler[m][a].pc = "supervising"
  /\ \/ /\ exec[m] = "none"
        /\ ~AgentTaken(m)
        /\ exec' = [exec EXCEPT ![m] = "active"]
        /\ Goto(m, a, "waking")
     \/ /\ exec[m] = "none"
        /\ AgentTaken(m)
        /\ exec' = [exec EXCEPT ![m] = "asked"]
        /\ Fail(m, a, FailureOutcome(m, a), FALSE)
     \/ \* already_delivered, or the Agent or the space is gone
        /\ Fail(m, a, FailureOutcome(m, a), FALSE)
        /\ UNCHANGED exec
  /\ UNCHANGED <<up, offered, state, outbox, held, proc>>

\* finishWake after a process that never ran or was observed to end.
FinishExec(m) == exec' = [exec EXCEPT ![m] = IF @ = "active" /\ m \notin held THEN "finished" ELSE @]

\* No usable client or folder, the grant is refused, or a stop came first.
WakeFails(m, a) ==
  /\ handler[m][a].pc \in {"waking", "cleared"}
  /\ FinishExec(m)
  /\ Fail(m, a, FailureOutcome(m, a), FALSE)
  /\ UNCHANGED <<up, offered, state, outbox, held, proc>>

\* issueGrant; a chat wake asks the coordinator first (PeerDelivery!ConfirmWake).
IssueGrant(m, a) ==
  /\ handler[m][a].pc = "waking"
  /\ m \notin ChatWake
  /\ Goto(m, a, "cleared")
  /\ UNCHANGED <<up, offered, state, outbox, exec, held, proc>>

\* The child exists before its 'spawn' event runs onSpawn.
Spawn(m, a) ==
  /\ handler[m][a].pc = "cleared"
  /\ handler[m][a].stop = "none"
  /\ proc' = [proc EXCEPT ![m][a] = "live"]
  /\ Goto(m, a, "watching")
  /\ UNCHANGED <<up, offered, state, outbox, exec, held>>

OnSpawn(m, a) ==
  /\ handler[m][a].pc = "watching"
  /\ state[m][a] = "starting"
  /\ SetState(m, a, "running")
  /\ UNCHANGED <<up, offered, handler, outbox, exec, held, proc>>

(***************************************************************************)
(* The process closes.  An answer counts only if it is verified and no     *)
(* stop came before it; anything else is a failure.                        *)
(***************************************************************************)
Exit(m, a) ==
  /\ handler[m][a].pc = "watching"
  /\ state[m][a] = "running"
  /\ proc' = [proc EXCEPT ![m][a] = "gone"]
  /\ FinishExec(m)
  /\ \/ Fail(m, a, FailureOutcome(m, a), FALSE)
     \/ /\ handler[m][a].stop = "none"
        /\ \E s \in AnswerSizes : Conclude(m, a, [outcome |-> "answered", hold |-> FALSE, size |-> s])
  /\ UNCHANGED <<up, offered, state, outbox, held>>

\* Mutant: a kill that could not be confirmed is taken for the end of the process.
CleanupIgnored(m, a) ==
  /\ handler[m][a].pc = "watching"
  /\ state[m][a] = "running"
  /\ FinishExec(m)
  /\ Fail(m, a, FailureOutcome(m, a), FALSE)
  /\ UNCHANGED <<up, offered, state, outbox, held, proc>>

\* A kill that could not be confirmed: the process may still be running, the
\* Agent stays claimed and held.
CleanupUnconfirmed(m, a) ==
  /\ handler[m][a].pc = "watching"
  /\ state[m][a] = "running"
  /\ held' = held \cup {m}
  /\ Fail(m, a, FailureOutcome(m, a), TRUE)
  /\ UNCHANGED <<up, offered, state, outbox, exec, proc>>

\* A process nobody watches any more ends by itself.
OrphanExits(m, a) ==
  /\ proc[m][a] = "live"
  /\ handler[m][a].pc # "watching"
  /\ proc' = [proc EXCEPT ![m][a] = "gone"]
  /\ UNCHANGED <<up, offered, state, handler, outbox, exec, held>>

\* A crash before it leaves an attempt that may still be at work (Recovered).
RecordFinished(m, a) ==
  /\ handler[m][a].pc = "reporting"
  /\ SetState(m, a, "finished")
  /\ Goto(m, a, "settling")
  /\ UNCHANGED <<up, offered, outbox, exec, held, proc>>

QueueReport(m, a) ==
  /\ handler[m][a].pc = "settling"
  /\ outbox' = [outbox EXCEPT ![m][a] = Box(@, handler[m][a].report)]
  /\ handler' = [handler EXCEPT ![m][a] = Idle]
  /\ UNCHANGED <<up, offered, state, exec, held, proc>>

(***************************************************************************)
(* Stopping a supervised attempt: the first reason stays.                  *)
(***************************************************************************)
Stopping(h, reason) ==
  IF h.pc \in Supervised /\ h.stop = "none" THEN [h EXCEPT !.stop = reason] ELSE h

StopAll(reason) ==
  handler' = [m \in Message |-> [a \in Attempt |-> Stopping(handler[m][a], reason)]]

\* armDeadline: no renewal was answered for leaseSeconds, by this device's clock.
LeaseDeadline(m, a) ==
  /\ handler[m][a].pc \in Supervised
  /\ handler[m][a].stop = "none"
  /\ handler' = [handler EXCEPT ![m][a] = Stopping(@, "lease_lost")]
  /\ UNCHANGED <<up, offered, state, outbox, exec, held, proc>>

\* setShares, reconcileShares: a share given again later has a new binding.
WithdrawShare ==
  /\ "withdraw" \in Happens
  /\ up = "running"
  /\ offered
  /\ offered' = FALSE
  /\ StopAll("cancelled")
  /\ UNCHANGED <<up, state, outbox, exec, held, proc>>

(***************************************************************************)
(* The runner process: an orderly stop, a crash, and recover() on start.   *)
(***************************************************************************)
StopRunner ==
  /\ "stop" \in Happens
  /\ up = "running"
  /\ up' = "stopping"
  /\ StopAll("stopped")
  /\ UNCHANGED <<offered, state, outbox, exec, held, proc>>

Stopped ==
  /\ up = "stopping"
  /\ \A m \in Message, a \in Attempt : handler[m][a].pc = "none"
  /\ up' = "down"
  /\ UNCHANGED <<offered, state, handler, outbox, exec, held, proc>>

Crash ==
  /\ "crash" \in Happens
  /\ up # "down"
  /\ up' = "down"
  /\ handler' = [m \in Message |-> [a \in Attempt |-> Idle]]
  /\ UNCHANGED <<offered, state, outbox, exec, held, proc>>

\* Mutant: an attempt whose onSpawn was not recorded counts as not started.
RecoveredByRunningOnly(m, a) ==
  IF state[m][a] \in UnfinishedState
  THEN Box(outbox[m][a], ReportOf(IF state[m][a] = "running" THEN "unknown" ELSE "never_started"))
  ELSE outbox[m][a]

Recovered(m, a) ==
  IF state[m][a] \in UnfinishedState
  THEN Box(outbox[m][a], ReportOf(IF state[m][a] \in StartedState THEN "unknown" ELSE "never_started"))
  ELSE outbox[m][a]

Restart ==
  /\ up = "down"
  /\ up' = "running"
  /\ outbox' = [m \in Message |-> [a \in Attempt |-> Recovered(m, a)]]
  /\ UNCHANGED <<offered, state, handler, exec, held, proc>>

(***************************************************************************)
(* flush: reports go out oldest first, and one that is not acknowledged    *)
(* holds back the later ones.  An oversize report is never accepted: the   *)
(* client refuses the body (413) or the coordinator does (400).            *)
(***************************************************************************)
Undelivered(m, a) == outbox[m][a].report.outcome # "none" /\ ~outbox[m][a].delivered

Flushable(m, a) ==
  /\ up # "down"
  /\ Undelivered(m, a)
  /\ outbox[m][a].report.size = "fits"
  /\ \A n \in Message, b \in Attempt :
       Undelivered(n, b) => outbox[n][b].at >= outbox[m][a].at

MarkDelivered(m, a) == outbox' = [outbox EXCEPT ![m][a].delivered = TRUE]

=============================================================================
