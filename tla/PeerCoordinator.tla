--------------------------- MODULE PeerCoordinator ---------------------------
(***************************************************************************)
(* The message queue of the LAN coordinator: the `messages` table of       *)
(* peer/coordinator-store.js and every handler of                          *)
(* peer/coordinator-service.js that changes it.  The coordinator executes  *)
(* nothing: it hands a message to the receiving device under an attempt    *)
(* ID and a lease, and records what that device reports.                   *)
(*                                                                         *)
(* Each handler is one BEGIN IMMEDIATE transaction of a single process, so *)
(* each is one action; its effect on a row is an operator on the row, and  *)
(* PeerDelivery composes those with the network and the receiving runner.  *)
(*                                                                         *)
(* All messages are addressed to one Agent of one receiving device, the    *)
(* case where they compete for the queue and for the Agent.                *)
(***************************************************************************)
EXTENDS Naturals, FiniteSets

CONSTANTS
  Message,            \* messages one device submits (coordinator keys)
  ChatWake,           \* those whose assertion carries a chatWake snapshot
  MaxStartAttempts,   \* PEER_LIMITS.maxStartAttempts
  QueuePerNode,       \* PEER_LIMITS.queuePerNode
  Happens             \* bound: the events from outside that a run explores

Event == {"cancel", "expire", "revoke", "withdraw", "chat", "crash", "stop", "lose", "renew"}

ASSUME CoordinatorAssumption ==
  /\ IsFiniteSet(Message)
  /\ Happens \subseteq Event
  /\ ChatWake \subseteq Message
  /\ MaxStartAttempts \in Nat \ {0}
  /\ QueuePerNode \in Nat \ {0}

VARIABLES
  queue,      \* queue[m]: the row of message m
  trusted,    \* devices whose `nodes` row is active
  shared      \* whether the receiving device's directory lists the Agent

coordinatorVars == <<queue, trusted, shared>>

Device == {"sender", "target"}

(***************************************************************************)
(* An attempt is identified by its message and the value start_attempts    *)
(* had when it was claimed: attempt IDs are fresh UUIDs and every claim    *)
(* increments start_attempts, so the two name the same thing.  0 is NULL.  *)
(***************************************************************************)
Attempt == 1..MaxStartAttempts
NoAttempt == 0

OpenStatus == {"queued", "claimed", "running"}
HeldStatus == {"claimed", "running"}
TerminalStatus == {"answered", "failed", "cancelled", "expired", "unknown"}
FinalStatus == TerminalStatus \ {"unknown"}

Row == [status  : {"absent"} \cup OpenStatus \cup TerminalStatus,
        attempt : {NoAttempt} \cup Attempt,   \* attempt_id
        accepted: {NoAttempt} \cup Attempt,   \* accepted_attempt
        starts  : 0..MaxStartAttempts,        \* start_attempts
        started : SUBSET Attempt,             \* attempts with a 'started' event
        lease   : {"none", "live", "lapsed"}, \* lease_expires_at against the clock
        cancel  : BOOLEAN,                    \* cancel_requested
        past    : BOOLEAN,                    \* expires_at is in the past
        wake    : BOOLEAN,                    \* chat.validateWake would accept it
        hold    : BOOLEAN,                    \* cleanup_status = 'unconfirmed'
        created : Nat]                        \* created_at, as a rank

AbsentRow == [status |-> "absent", attempt |-> NoAttempt, accepted |-> NoAttempt,
              starts |-> 0, started |-> {}, lease |-> "none", cancel |-> FALSE,
              past |-> FALSE, wake |-> TRUE, hold |-> FALSE, created |-> 0]

CoordinatorInit ==
  /\ queue = [m \in Message |-> AbsentRow]
  /\ trusted = Device
  /\ shared = TRUE

CoordinatorTypeOK ==
  /\ queue \in [Message -> Row]
  /\ trusted \in SUBSET Device
  /\ shared \in BOOLEAN

Present == {m \in Message : queue[m].status # "absent"}
OpenFor == {m \in Message : queue[m].status \in OpenStatus}

(***************************************************************************)
(* submit: a repeated message ID returns the stored row unchanged, so a    *)
(* second submission of m does nothing (CanSubmit is then FALSE and the    *)
(* answer is the row's status).                                            *)
(***************************************************************************)
CanSubmit(m) ==
  /\ queue[m].status = "absent"
  /\ trusted = Device                        \* authenticate; target active
  /\ shared                                  \* listed in its directory
  /\ m \in ChatWake => queue[m].wake         \* chat.validateWake (see WakeRejected)
  /\ Cardinality(OpenFor) < QueuePerNode

Insert(m) ==
  queue' = [queue EXCEPT ![m].status = "queued",
                         ![m].created = Cardinality(Present) + 1]

(***************************************************************************)
(* nextQueued: the oldest queued, unexpired, uncancelled message.  A chat  *)
(* wake is passed over while any message to its Agent is executing,        *)
(* unknown, or left an unconfirmed cleanup.                                *)
(***************************************************************************)
\* Mutant: an earlier wake that was lost track of does not block.
AgentBusyIgnoringUnknown ==
  \E n \in Message : queue[n].status \in HeldStatus

AgentBusy ==
  \E n \in Message : queue[n].status \in HeldStatus \cup {"unknown"} \/ queue[n].hold

Claimable ==
  {m \in Message : /\ queue[m].status = "queued"
                   /\ ~queue[m].past
                   /\ ~queue[m].cancel
                   /\ m \in ChatWake => ~AgentBusy}

NextQueued(m) ==
  m \in Claimable /\ \A n \in Claimable : queue[m].created <= queue[n].created

ClaimRow(row) ==
  [row EXCEPT !.status = "claimed",
              !.attempt = row.starts + 1,
              !.accepted = NoAttempt,
              !.starts = row.starts + 1,
              !.lease = "live"]

(***************************************************************************)
(* claim: a chat wake that is no longer valid fails here and nothing is    *)
(* handed out; any other message is handed out under a new attempt.        *)
(***************************************************************************)
WakeRejected(m) == m \in ChatWake /\ ~(queue[m].wake /\ shared /\ trusted = Device)

RejectWake(m) ==
  /\ NextQueued(m)
  /\ WakeRejected(m)
  /\ queue' = [queue EXCEPT ![m].status = "failed"]

HandOut(m) ==
  /\ NextQueued(m)
  /\ ~WakeRejected(m)
  /\ queue' = [queue EXCEPT ![m] = ClaimRow(queue[m])]

(***************************************************************************)
(* renew: what the coordinator answers, and the row it leaves.             *)
(***************************************************************************)
RenewVerdict(m, a, state) ==
  LET row == queue[m] IN
  IF "target" \notin trusted THEN "forbidden"                       \* 403
  ELSE IF \/ row.attempt # a
          \/ row.status \notin HeldStatus
          \/ row.lease # "live"
          \/ row.accepted # a /\ state # "accepted"
       THEN "refused"                                               \* 409
  ELSE IF row.cancel \/ WakeRejected(m) \/ row.past THEN "cancel"
  ELSE "ok"

Granted(verdict) == verdict \in {"ok", "cancel"}

RenewRow(m, a, state) ==
  LET starts == state = "running" /\ queue[m].status = "claimed" IN
  [queue[m] EXCEPT !.lease = "live",
                   !.cancel = @ \/ WakeRejected(m),
                   !.accepted = a,
                   !.status = IF starts THEN "running" ELSE @,
                   !.started = IF starts THEN @ \cup {a} ELSE @]

AfterRenew(m, a, state) ==
  IF Granted(RenewVerdict(m, a, state))
  THEN [queue EXCEPT ![m] = RenewRow(m, a, state)]
  ELSE queue

(***************************************************************************)
(* releaseUnstarted: only for an attempt whose acceptance was never        *)
(* recorded, which is the proof that nothing ran.                          *)
(***************************************************************************)
\* Mutant: no limit on start attempts.
ReleaseWithoutLimit(row) ==
  [row EXCEPT !.status = IF row.cancel THEN "cancelled"
                         ELSE IF row.past THEN "expired" ELSE "queued",
              !.attempt = NoAttempt, !.accepted = NoAttempt, !.lease = "none"]

ReleaseUnstarted(row) ==
  [row EXCEPT !.status = IF row.cancel THEN "cancelled"
                         ELSE IF row.past THEN "expired"
                         ELSE IF row.starts >= MaxStartAttempts THEN "failed"
                         ELSE "queued",
              !.attempt = NoAttempt,
              !.accepted = NoAttempt,
              !.lease = "none"]

LoseTrack(row) == [row EXCEPT !.status = "unknown", !.lease = "none"]

(***************************************************************************)
(* result: refused for an attempt that is not current (404 or 409), no     *)
(* change once the row is final, and otherwise the reported outcome.  An   *)
(* `unknown` row is not final: a late report of the same attempt settles   *)
(* it.                                                                     *)
(***************************************************************************)
\* Mutant: a message that was lost track of takes no late report.
ResultVerdictUnknownIsFinal(m, a, outcome) ==
  IF queue[m].attempt # a \/ queue[m].status \in TerminalStatus THEN "refused" ELSE "ok"

ResultVerdict(m, a, outcome) ==
  LET row == queue[m] IN
  IF "target" \notin trusted THEN "forbidden"
  ELSE IF row.attempt # a THEN "refused"
  ELSE IF row.status \in FinalStatus THEN "ok"
  ELSE IF outcome = "never_started" /\ (row.status = "running" \/ a \in row.started)
       THEN "refused"
  ELSE "ok"

ResultRow(row, a, outcome, unconfirmed) ==
  IF row.status \in FinalStatus THEN row
  ELSE IF outcome = "never_started"
       THEN IF row.accepted = a THEN LoseTrack(row) ELSE ReleaseUnstarted(row)
  ELSE [row EXCEPT !.status = outcome,
                   !.lease = "none",
                   !.hold = @ \/ (unconfirmed /\ outcome # "answered")]

AfterResult(m, a, outcome, unconfirmed) ==
  IF ResultVerdict(m, a, outcome) = "ok"
  THEN [queue EXCEPT ![m] = ResultRow(queue[m], a, outcome, unconfirmed)]
  ELSE queue

(***************************************************************************)
(* cancel, revoke and sweep.                                               *)
(***************************************************************************)
\* Mutant: cancelling settles a message that is already handed out.
CancelRowAtOnce(row) ==
  IF row.status \in OpenStatus THEN [row EXCEPT !.status = "cancelled"] ELSE row

CancelRow(row) ==
  IF row.status = "queued" THEN [row EXCEPT !.status = "cancelled"]
  ELSE IF row.status \in HeldStatus THEN [row EXCEPT !.cancel = TRUE]
  ELSE row

Cancel(m) ==
  /\ "cancel" \in Happens
  /\ "sender" \in trusted
  /\ queue[m].status # "absent"
  /\ queue' = [queue EXCEPT ![m] = CancelRow(queue[m])]
  /\ UNCHANGED <<trusted, shared>>

\* Every open message is to or from the revoked device, so all are withdrawn.
Revoke(d) ==
  /\ "revoke" \in Happens
  /\ d \in trusted
  /\ trusted' = trusted \ {d}
  /\ shared' = (shared /\ d # "target")
  /\ queue' = [m \in Message |-> CancelRow(queue[m])]

\* pair: a revoked device joins again with an empty directory.
Pair(d) ==
  /\ d \notin trusted
  /\ trusted' = trusted \cup {d}
  /\ UNCHANGED <<queue, shared>>

\* publishDirectory: the receiving device lists what its owner shares.
PublishDirectory(offered) ==
  /\ "target" \in trusted
  /\ shared' = offered
  /\ UNCHANGED <<queue, trusted>>

\* Mutant: a lapsed lease is released whether or not it was accepted.
SweepRowReleasingAll(row) ==
  IF row.status = "queued" /\ row.past THEN [row EXCEPT !.status = "expired"]
  ELSE IF row.status \in HeldStatus /\ row.lease = "lapsed" THEN ReleaseUnstarted(row)
  ELSE row

\* Mutant: an accepted attempt is left to its runner.
SweepRowUnacceptedOnly(row) ==
  IF row.status = "queued" /\ row.past THEN [row EXCEPT !.status = "expired"]
  ELSE IF row.status \in HeldStatus /\ row.lease = "lapsed" /\ row.accepted # row.attempt
       THEN ReleaseUnstarted(row)
  ELSE row

SweepRow(row) ==
  IF row.status = "queued" /\ row.past THEN [row EXCEPT !.status = "expired"]
  ELSE IF row.status \in HeldStatus /\ row.lease = "lapsed"
       THEN IF row.accepted # row.attempt THEN ReleaseUnstarted(row) ELSE LoseTrack(row)
  ELSE row

Swept == [m \in Message |-> SweepRow(queue[m])]

Sweep ==
  /\ Swept # queue
  /\ queue' = Swept
  /\ UNCHANGED <<trusted, shared>>

(***************************************************************************)
(* The environment: the clock passes a lease or an unsettled message's     *)
(* expiry, and the chat a wake was made from changes (a member leaves or   *)
(* joins, the snapshot is consumed, the Agent starts or ends a wait).      *)
(***************************************************************************)
LapseLease(m) ==
  /\ queue[m].lease = "live"
  /\ queue' = [queue EXCEPT ![m].lease = "lapsed"]
  /\ UNCHANGED <<trusted, shared>>

PassExpiry(m) ==
  /\ "expire" \in Happens
  /\ queue[m].status \in OpenStatus \cup {"unknown"}
  /\ ~queue[m].past
  /\ queue' = [queue EXCEPT ![m].past = TRUE]
  /\ UNCHANGED <<trusted, shared>>

ChatChanges(m) ==
  /\ "chat" \in Happens
  /\ m \in ChatWake
  /\ queue[m].status \in OpenStatus
  /\ queue' = [queue EXCEPT ![m].wake = ~@]
  /\ UNCHANGED <<trusted, shared>>

=============================================================================
