# Fuli: a TLA+ development

FULI is a local plugin that gives AI clients (Claude Code, Codex, ...) a shared
memory and a team of Agents (FLAs). Of the repository's 3754 files three parts
carry protocols that are hard to get right, and are modelled here:

- the **roundtable** (`packages/roundtable/src`): Agents ask each other
  questions, on one computer and between computers of a local network, and FULI
  starts the client of the asked Agent. A wrong step starts a client twice,
  starts one the owner no longer shares, or loses or misreports an answer;
- **Agent apps** (`src/agent-apps`): several FULI processes run, stop, export and
  remove one app and its data. A wrong step runs two copies, changes data under a
  running tool, or deletes what nobody agreed to delete;
- **permanent deletion of knowledge** (`src/knowledge-hard-delete` and the
  graph's operations). A wrong step reads or stores deleted words again.

Contents: [inventory](#inventory), [modules](#modules), [runs](#runs),
[what is not kept](#what-the-code-does-not-keep), [proofs](#proofs),
[limits](#limits), [plan](#plan).

## Inventory

Paths of the roundtable are below `packages/roundtable/src`, those of the other
two below `src/`. `PROJECT.json` lists every component,
the ones left out too, and the hazards line by line.

### Asks, wakes and the execution claim (`roundtable/service.js`, `store.js`, `wake.js`, `person-conversation.js`)

- **State.** One SQLite file per computer, shared by the console and the MCP
  server of every client: threads and messages. An ask row has a `status`
  (queued, delivering, answered, cancelled), an `execution_claim` (null, active,
  finished) and a `cleanup_status`. Outside the file: the client processes.
- **Operations.** `messageAgent` and the person's posts append an ask;
  `wakeAsk` claims the Agent, tries its clients in order (`deliver`, one grant
  and one process each) or hands the ask to a desktop conversation;
  `replyMessage` answers from the inbox; `cancelAsk` cancels a queued ask;
  `waitUntilIdle` holds back the person's instant asks while the Agent is busy.
- **Hard.** Several processes act on the same rows between each other's awaits
  and SQL statements; a process may end while its client runs on; a kill may not
  be confirmable.
- **Correct when** one client process runs per Agent at any time, a claim is
  given up exactly when its process is over, and no path leaks it.

### LAN coordinator (`peer/coordinator-service.js`, `coordinator-store.js`)

- **State.** A queue of messages (queued, claimed, running, then a final status
  or unknown) with attempt ID, lease, start attempts, expiry and cleanup hold;
  devices, shares, public directories.
- **Operations.** submit, claim (by the receiving device's poll), renew, result,
  cancel, publishDirectory, pair, revoke, and a sweep on a timer. Each is one
  immediate transaction of one process.
- **Hard.** Requests are lost, answered into nothing or handled after their
  sender gave up; the sweep takes back what may already have been accepted.
- **Correct when** at most one attempt of a message executes, a message that may
  have run is never shown as not run, and no message stays open.

### Receiving runner (`peer/runner.js`, `node-store.js`, `answerRemote`)

- **State.** Per attempt: a durable row, a queued report (outbox), a handler in
  memory, a client process; the Agent's execution claim.
- **Operations.** poll and accept, authorize, answer, renew, report, flush,
  withdrawal of the share, stop, crash and `recover`.
- **Hard.** The crash between any two writes, and a process that outlives its
  owner. **Correct when** it reports "never started" only of what never starts.

### Sending side (`messageRemote`, `applyRemote`, `refreshRemote`, `peer/peer-port.js`)

- **State.** The ask row with the coordinator's status, the reply, the claim of a
  chat wake, the `sent` table.
- **Hard.** A submission whose answer is lost, several processes that apply
  answers of different age, a crash between two statements. **Correct when** what
  is shown as answered, cancelled or expired is true, and a chat wake keeps its
  claim as long as the remote run may go on.

### Group discussions (`roundtable/group-discussion.js`, `group-discussion-store.js`)

- **State.** A row per discussion (confirmed, running, concluded, ended; round,
  pending follow-up, heartbeat) and a row per member and round (invited, waiting,
  replied, failed, ended); in memory the runs of each process.
- **Operations.** `start`, rounds in the background, `follow_up`, `stop`,
  `summarize`, `wait`/`status` with `reconcile`, `close`.
- **Hard.** Every operation reads the row, awaits, and writes; the process that
  runs the rounds may end. **Correct when** an answer is posted once and only for
  an open turn, follow-ups run once, every turn ends and stop is final.

### Chat rooms, wakes, waits and notifications (`chat*.js`, `peer/chat-*.js`)

- **State.** Rooms with members, numbered messages, read cursors, delivery marks
  and waits. **Correct when** cursors only grow and never pass undelivered
  messages, a send is idempotent, and an unread message wakes its reader. Not
  modelled yet, except for the claims of chat wakes that leave the computer.

### Agent apps (`agent-apps/`)

- **State.** The registry (SQLite): the app's row with the owner lease and its
  fence, its status, the open deletion ticket, the row of its instance. The data
  directory and the aside directory a deletion moves it to. In each process the
  lease it remembers with its holders, the operation in its lifecycle, the
  instance it hosts, the write gate and a write call.
- **Operations.** Start, stop, seal, export, the decisions of `versions.js` and
  `removal.js`, the two-step deletion of the data, write calls with their file
  operations, takeover of a lease whose owner ended, `close`.
- **Hard.** A process may end between a spawn, a file rename and a row; whether
  another process lives is a probe that may not tell; a seal waits for a tool and
  its caller does not. **Correct when** only the owner works, a tool and a
  decision never run beside each other, what is recorded as ended or deleted is,
  and no failure path keeps the gate.

### Permanent deletion of knowledge (`knowledge-hard-delete/`, `judgment/store.js`, `graph-provider/fuli_graph/knowledge_hard_delete*.py`)

- **State.** In the graph, the operations it decided and the list of what was
  deleted; on this computer the ledger of operations with the watermark (how much
  of that list is erased here), the words in the local stores, and in each
  process the gate that proves that watermark and graph agree.
- **Operations.** `confirm`, `status`, `settle`, `cleanup`, reconciliation and
  adoption of deletions made elsewhere, the watermark; a store's read and write.
- **Hard.** The answer of the graph may be lost or late, the ledger lost, and
  ledger or store restored from a backup. **Correct when** no deleted word is
  read or stored again, and the record says what the graph did.

### The rest

Reply and attention inboxes, desktop inboxes and thread subscriptions are small
stores. Pairing, identities and origin proofs (`peer/peer-runtime.js`,
`control.js`, ...) decide who is trusted. `storage/` migrates the file. The rest
of `src/` (memory, judgment, setup, servers, backup), of `graph-provider/`,
`web/` and `desktop/` are the other subsystems of FULI. They are not modelled.

### How they interact

```
 asker's MCP server / console          coordinator             receiving computer
 messageAgent --> wakeAsk --> claim --> local client   (Asks)
 messageRemote --submit--> queue --claim/renew/result-- runner --> claim --> client
   ^   (PeerSender)           (PeerCoordinator)            (PeerRunner)
   '-- status, refresh --     (PeerDelivery joins the two over lost requests;
                               PeerAsk joins all three)
 discuss: start, rounds --> messageAgent per member        (GroupDiscussion)
```

Agent apps and the permanent deletion share no state with the roundtable. FULI
processes meet in the app registry and directory (`AppRegistry`), and in the
ledger, the stores and the graph (`KnowledgeHardDelete`).

## Modules

| module | models | state and actions |
| --- | --- | --- |
| `PeerCoordinator` | the queue | `queue[m]` is the row; one operator per handler gives its effect on the row (`SweepRow`, `CancelRow`, `ResultRow`, `AfterRenew`, ...) |
| `PeerRunner` | runner, its store, the claim, the client | `state`, `outbox`, `exec`, `held` are durable; `handler[m][a]` is `handleClaim` with the functions it awaits, one `pc` per await; the end of the execution, the attempt's final state and its report are steps of their own; `proc[m][a]` the client |
| `PeerDelivery` | both, joined by requests | `net` holds requests under way. Composes the actions; states the safety and liveness properties |
| `RemoteDelivery` | the abstract promise to the sender | `status`, `run`, `hold` of a message. `PeerDelivery` implements it |
| `PeerSender` | the sending computer | built on `RemoteDelivery` in place of coordinator and receiver; one handler per process |
| `PeerAsk` | a remote ask from end to end | `PeerDelivery` with the handlers of `PeerSender` on its rows and processes in place of `RemoteDelivery`; they meet where a submission is queued (`Enqueue`) and where a status is answered (`LookUp`) |
| `Asks` | wakes of one Agent on one computer | rows plus one handler per call; one `pc` per await or SQL transaction |
| `GroupDiscussion` | one moderated discussion | `disc` and `turns` are the rows; `call` the tool call of each process, `run` the background runs |
| `AppRegistry` | what processes share of an app | rows, lease, data directory, processes of instances |
| `AgentApps` | the processes that run and change it | built on `AppRegistry`: `op` is the lifecycle, `hosted` the instance, `gate` the write gate, `call` a write call; an action per stretch between awaits, cut where a process may end |
| `KnowledgeHardDelete` | console port, graph, ledger, gate, a store | `flow[c]` is a call of the port; an action per transaction or file write |
| `MC...` | small instances | symmetry sets only |
| `PeerDelivery_proofs`, `PeerDelivery_refinement`, `PeerSender_proofs`, `PeerAsk_proofs`, `Asks_proofs`, `GroupDiscussion_proofs`, `AgentApps_proofs`, `KnowledgeHardDelete_proofs` | proofs | see below |

**Granularity.** A step is what a process does between two awaits; where another
process can act between two SQL statements of one such stretch and it matters,
the statements are steps of their own. In `GroupDiscussion` a turn begins in a
step after its invitation, and a process is in one tool call at a time, while
`Stop` and views run beside it.

**What is abstracted.** Bodies, prompts, names, signatures and grants. Times are
events: a lease lapses, a message expires, a heartbeat is stale. Client
selection is a number of deliveries, each of which may fail or answer. Messages
of `PeerDelivery` and asks of `Asks` go to one Agent, the case where they
compete; claims of different Agents never interact.

`AgentApps` has one app, one write call per host and a service with app data
scope. Read calls, tokens, challenges and page tickets are left out; what kind of
decision an operation is, is chosen at its work, and a stop or export with
nothing hosted is a decision that does nothing. Status "activated, unconfirmed"
counts as disabled, a row's "sealing" as stopping. A close stops a process after
thirty seconds also while the seal of its instance still waits for a tool. A
person may edit the files at any time, so also between the digest that confirms a
deletion and the rename. Not modelled: aside directories left behind, and a
restore of deleted data by hand.

`KnowledgeHardDelete` has one store, one space and one Agent process. Time
decides nothing: an operation may be aborted, a proof expire and an answer stay
away at any moment. One step each are: `status`'s question to the graph and its
record, the gate's refresh, a delete request's answer and `settle`'s question,
forgetting and completing, and (except `AdoptEnds`, a crash between) the begin
and the record of an adopted deletion. A deletion between preview and begin is
the same as one just after. There is one ledger backup, taken while FULI is
stopped and with a watermark; the graph itself is not restored. The suggestion
log's own lock and cutoffs and memory snapshots are left out.

**External code.** The client processes and the Provider (grants) are modelled
from how the code uses them: a client ends with a verified answer, without one,
or cannot be killed for certain.

## Runs

`tlc -config <cfg> <module>`; deadlock is not checked because each system may
come to rest: asks are over, the discussion has ended.

| run | module, cfg | what it shows |
| --- | --- | --- |
| `peer_faults` | `MCPeerDelivery`, `PeerDelivery_faults` | One message, two start attempts; crashes, cancellation, expiry, renewals, requests lost or handled late. At most one attempt is confirmed (`OneAttemptIsConfirmed`), a started one is never requeued, expired or reported as never started, and the queue implements `RemoteDelivery`. Liveness: every submitted message reaches a final status or unknown whatever the network does (`Settles`); a verified answer that fits a request reaches the coordinator, also after it gave the attempt up (`AnswersArrive`). |
| `peer_wakes` | ..., `PeerDelivery_wakes` | Two chat wakes of one Agent with crashes and restarts of the device, a withdrawn share and revoked devices: the coordinator hands out one at a time, one process runs per Agent, also when a kill could not be confirmed, and nothing starts once the share is withdrawn. |
| `sender_shown` | `MCPeerSender`, `PeerSender_shown` | One chat wake, two processes, ambiguous submissions, a crash: what is shown as answered, cancelled or expired is true, and an ask the coordinator has settled does not stay pending. |
| `ask_end_to_end` | `MCPeerAsk`, `PeerAsk_wakes` | Sender, coordinator, network and receiver together: two chat wakes of one remote Agent, ambiguous submissions, a chat that changes before the start, a crash of the sender. At most one may be on its way or run (`OneWakeEndToEnd`), and what an ask shows is true of the process on the other computer (`ShownIsOver`). |
| `asks_wakes` | `MCAsks`, `Asks_wakes` | Two asks, two handlers, two deliveries each, with inbox answers, cancellation, desktop hand-off, failed kills, a crash: one client process, finished claims have none, every claim ends. |
| `asks_busy` | ..., `Asks_busy` | **Violation.** See below. |
| `discussion_rounds` | `MCGroupDiscussion`, `GroupDiscussion_rounds` | Two members, two processes, one response round, stop, crash, stalled heartbeat, passed deadlines: answers are posted once and for open turns only, outcomes stay, responders have replied, a process never fails turns it runs itself, every turn ends, a discussion with a chat stops running. |
| `discussion_calls` | ..., `GroupDiscussion_calls` | Starts and follow-ups of two processes, with failing posts, close, expiry and summary: the confirmation and each follow-up run once. |
| `discussion_stop` | ..., `GroupDiscussion_stop` | **Violation.** See below. |
| `apps` | `MCAgentApps`, `AgentApps_apps` | A console that starts the app and a CLI, with processes that end or close at any step, probes that cannot tell, stops and transactions that fail, instances that exit: only the owner works, tools run alone, what is recorded as ended or deleted is, only agreed data is deleted, nobody waits for ever. |
| `knowledge` | `MCKnowledgeHardDelete`, `KnowledgeHardDelete_knowledge` | One item, a page, a console's check and an Agent's process, under every event of `Event`: what the watermark counts is recorded, deleted words are read only where a late answer overtook their record, the record is true, no write commits after the deletion is complete, a closed gate opens again. |
| `knowledge_overtaken` | ..., `KnowledgeHardDelete_overtaken` | **Violation.** See below. |

**Bounds, and why they are enough.** Messages, asks and members only meet in
pairs (a claim compared with another, a queue position, "at least two replied"),
so two of each show every conflict; two start attempts are the smallest number
with a takeover; two processes are the smallest with a race, and a crash leaves
one that goes on. One crash per run is enough for the sender and the asks, whose
durable state does not tell a second crash from the first; `PeerDelivery` has
any number. `Happens` (`Faults`) names the events from outside a run explores;
each property is checked together with the events that could break it. With two
members a response round needs both replies, so the choice of two repliers out
of three is not exercised. `apps` has two hosts (the smallest number with a
takeover), two generations (an instance and its successor) and two contents of
the directory (the agreed one and another), the last two symmetric: 344 thousand
states. `knowledge` has one item, one confirmed and two adopted operations and
one fault; two items with two flows (2.9 million states), and two faults, were
checked once for the safety properties. `ask_end_to_end` has one process of the
sender and one crash of it (1.3 million states); checked once without an error
were the same with cancellation in place of chat changes, also with expiry (4.1 million), with crashes of the receiver (2.7
million), one message with two processes and all of these (2 million), and
that each step is one of `PeerSender` (`ImplementsPeerSender`). In `peer_wakes` both messages are chat wakes
(1.8 million states; with revocation, two ordinary messages are too many for a
run of minutes). The coordinator then keeps the second one away as long as the
first may run, so the device's own refusal of a second claim
(`AgentTaken` in `BeginAnswer`) is not what decides there; for ordinary messages
it is what `OneProcess` proves, and TLC checks the same `claimExecution` in
`asks_wakes`. A report that is too large for a request is in no run, only in the
theorems. The proofs below lift all of these bounds for the safety properties.

**Fairness.** `PeerDelivery!ClockFairness`: the sweep is a timer and clocks run;
every wait of a handler has a deadline (15 s for a request, the execution time
for a client, 5 s for a kill). Nothing is assumed of the network. `AnswersArrive`
alone assumes `FlushFairness`, and says so in the property: the runner is started
again, and of the reports it sends again and again some get through; without it
an answer may stay on a computer that never comes back. `PeerSender`: handlers
have deadlines, and somebody looks at a pending ask from time to time (the
console polls; 2 s deadlines bound each look). `Asks`: handlers go on;
`waitUntilIdle` re-reads the rows every 2 s, so it ends when the Agent stays free
(weak fairness, not strong). `GroupDiscussion`: wakes time out after at most 900
s, and some surviving process looks at the discussion (the moderator waits on it).
`KnowledgeHardDelete`: a call goes on (`Work`); its cleanup waits for SQLite's lock
and gets it sometime (strong fairness); while the gate is closed a console
reconciles (`server.js:274`); an Agent that is refused tries the gate again, at
most every 15 s (`RECHECK_INTERVAL_MS`), and sometime reaches the graph (strong
fairness). `AgentApps` states no liveness: `NobodyWaitsForever` asks that whenever
somebody waits at a write gate, the turn is somebody's and that next step is enabled.

**Mutants.** Beside a definition a likely bug of it is kept (a dropped guard, a
missing reset, an unconditional write), marked `Mutant`. Replacing the
definition by it breaks the property `PROJECT.json` names.

## What the code does not keep

Three runs end in a violation, each of a sentence of the documents or comments:

1. **`asks_busy`, `BusyIsWokenLater`.** `docs/agent-roundtable.md:142`: "A busy
   FLA is woken when its earlier run ends". Waits for one Agent end together; one
   dispatch gets the claim, the others are refused and never try again
   (`person-conversation.js:107`).
2. **`discussion_stop`, `StopIsFinal`.** `group-discussion.js:349`: "no further
   turn starts". `start`, `runRound` and `followUp` check the status, await, and
   write without checking again; a stop in between is overwritten or followed by
   invitations. When nothing was under way a stop is final (`RestIsFinal`, below).
3. **`knowledge_overtaken`, `DeletedIsNotStored`.** `delete-ledger.js:25-27`:
   "words that name a deleted item, or one being deleted, are never stored again,
   even by work that started before the delete". `notDeleted`
   (`console-port.js:85`) updates the record unconditionally, and `status`
   (`:179-188`) uses the record of an operation that deleted nothing again for a
   deletion by another console. Shortest trace, without a fault: a page's delete
   stays without an outcome and is aborted while another console deletes the item;
   a check and the page both ask for the outcome; one concludes "not deleted",
   `status` finds the item deleted and records "deleted"; the other's "not
   deleted" arrives and takes the fence away. The check then skips the record as
   one it resumed just now (`:129`), records the watermark with the deletion
   counted, the gate opens, and a write of the deleted words begins. The next
   reconciliation closes the gap. What stays true is checked and proved:
   `WatermarkIsRecorded`, `OnlyOvertakenWordsAreRead`.

Further interleavings reached while the models were built. They have no run here;
those with a line in `PROJECT.json` are hazards there:

- `flush` (`peer/runner.js:226`) sends reports oldest first and stops at any error
  but 404 and 409. A report that is too large for a request is refused each time
  and stays at the head: verified answers behind it never leave the device.
- `messageRemote` marks an ask failed on every error, also when the coordinator
  queued it and the other computer runs it; `failed` is not looked up again.
- `applyRemote` reads, updates and appends in separate statements: two processes
  that apply one answer append two replies; one that ends between update and
  append leaves an answered ask without a reply. An ask shown as unknown is not
  looked up again, so a late answer is not shown. A process that ends between
  the row and the submission leaves an ask sent for ever.
- A wake that fails puts its ask back to queued although it was answered from the
  inbox or cancelled meanwhile; an inbox answer beside a wake may give two replies.
- An ask whose claim is finished cannot be claimed again, so a failed instant ask
  is not woken by switching the thread to instant again.
- `followUp` takes the members from the row it read before its awaits, so a newer
  follow-up goes to those the older one named; two follow-ups at once share a
  round; `reconcile` judges a heartbeat by a row read before two awaits and may
  fail turns that have just begun; a process that ends between `claim` and
  `attach` leaves a discussion running for ever. A follow-up that waited while the
  discussion was stopped may be launched while the first run, in another process,
  has not noticed the stop and goes on to the same round; `ResponsesFollowReplies`
  is therefore stated for discussions without follow-ups.
- `stopOrphan` takes an instance without a recorded pid for one that never ran
  (`trusted-runner.js:113`): a process whose owner ended between spawn and record
  runs on beside its successor, although `instances.js` calls an instance ended
  only once its process is confirmed stopped. `RecordedIsCurrent` therefore
  speaks of recorded processes.
- When the transaction that records a seal, or the end of an instance, throws,
  `local.sealing` stays set (`instances.js:251` says otherwise): later stops get
  the old promise.
- When a start fails and its process cannot be stopped, the lease is released
  although the process runs (`owner-lease.js:15`).
- An export queued behind a write tool that never ends keeps the lifecycle, so a
  stop is never answered "sealing".
- `data-deletion.js:11` says that `settle` runs at startup; only `reconcile` calls it.
- `removal.js:19-20`: "data that changed after the offer is never deleted on that
  confirmation". Between the awaited `dataDigest` and the rename
  (`data-deletion.js:25-46`) nothing keeps a person's edit out: the deletion is
  committed on the digest of before, and the edit is moved away and removed with
  the rest. `OnlyAgreedDataIsDeleted` therefore says that the digest is the one
  offered and that from it to the move no write, start or other process of FULI
  changes the data.
- A crash between `begin` and the record of an adopted deletion leaves a pending
  operation the graph never saw, which ten minutes later is recorded as not
  deleted; no words appear only because the gate stays closed until it is
  adopted again.

From reading `chat*.js`, not modelled: `run().catch` in `chat-wake.js` drops every
room queued for an address when one wake throws; a retried send that was already
saved wakes nobody; a message between a wait's last read and its release, or a
dispatch between a run's end and `active.delete`, is missed; the read cursor
advances when a page is produced, not when it is received.

## Proofs

`tlapm <module>.tla` checks every leaf of the eight modules named below. The
theorems hold for all values of the constants that satisfy the `ASSUME`s of the
modules, which TLC evaluates. Every safety property that a run checks is a
theorem, except that of `NobodyWaitsForever` the half that says `ENABLED` is only
model-checked. No theorem uses fairness.

`PeerDelivery_proofs` (any messages, start attempts, events):

- `TypesHold`, `AtMostOneExecution` (`OneAttemptIsConfirmed`),
  `StartedIsNeverRequeued` (`NeverTakenForUnstarted`), `UnstartedIsTrue`
  (`NeverReportedUnstarted`), `WithdrawalStopsStarts` (`NothingStartsUnshared`).
- Inductive invariant `IInv = RowsOK /\ RunnerTypeOK /\ LocalsOK /\ AssuredOK /\
  NetOK`. The properties are not inductive: that two attempts are not both
  confirmed depends on what the coordinator has recorded when the device hears
  of it. `RowsOK`: a row's accepted attempt is its current one and the row is
  then neither queued nor expired. `LocalsOK`: what the device has written of an
  attempt against where its handler is, and that a report, in the outbox or about
  to be put there, is true of the process. `AssuredOK`: an attempt the device
  goes on with, or whose report says that it ran, is the row's accepted one.
  `NetOK`: packets carry attempts that exist. No step takes an acceptance back
  (`KeepsAccepted`), so all confirmed attempts are the one accepted attempt.

`PeerDelivery_refinement` (the same constants, from `IInv`):

- `Implements` (`ImplementsRemoteDelivery`): each step of coordinator, runner and
  network maps to a step of `RemoteDelivery` or leaves it alone. A row moves
  without a report only while its attempt was not accepted, or to say that it
  runs or was lost track of (`Moves`); by a report it moves as the report says,
  and `IInv` says that the report is true. What is missing is that nothing starts
  once a row is final. That is `Ended`, invariant by `EndedByReport`: a final row
  with an accepted attempt has the report of that attempt in the outbox, so its
  handler is past every start.
- `OneProcess` (`OneProcessPerAgent`): a message whose process may run, or whose
  handler may still start it, has the active execution claim, and one has
  (`Executes`).
- `OneChatWake` (`OneChatWakeAtATime`): inductive beside `IInv`, because a wake is
  handed out only when no other of its Agent is handed out, unknown or held.

`PeerSender_proofs` (any messages, chat wakes, processes, crashes):

- What follows from the promise of `RemoteDelivery` alone, and so for the sending
  side whoever keeps it. `FinishedMeansStopped`: with a final status the process
  is over unless the status says it may go on. `AnsweredByAProcess`: an answer
  had a process, which is over. `WaitingHasNotRun`: a message that waits or
  expired has not run.
- `TypesHold`, `RemoteWakesAreExclusive` (`OneRemoteWake`), `AsksShowTheTruth`
  (`ShownIsTrue`).
- Inductive invariant `IInv = TypeOK /\ RowOK /\ ClaimsOK /\ HandingOK /\ ProcOK`.
  The property speaks of runs, the code only sees claims: `RowOK` says a chat wake
  that may run holds an active claim, `ClaimsOK` that there is one. A claim ends on
  a refusal, and then the message never reached the queue, because one process has
  it in hand (`HandingOK`); or on an answer of any age, and what that answer called
  over is over for good (`ProcOK`), which follows from `RemoteDelivery` alone.
- `ShownIsTrue` needs what a process was told, not only what it wrote: the second
  invariant `Shown` adds that a final status in a process's hands is still the
  message's (`ToldOK`). A final status stays, so an answer that is written late is
  late but not wrong.
- `OneOutcome`: an ask never shows two outcomes. `applyRemote` may put an answered
  ask back to running (it read the row before another process wrote it), so that
  a final state stays is false; what is true is that whatever the ask shows as an
  outcome later is the outcome it showed first.

`PeerAsk_proofs` (the constants of `PeerDelivery` and `PeerSender`): the two
composed, with no new inductive invariant.

- `DeliversAsBefore`: without the sender's part the whole is `PeerDelivery`.
- `SenderAsBefore`: the whole implements `PeerSender`, the row and the processes
  of a message for its `status`, `run` and `hold`. A step of the other side is one
  that `RemoteDelivery` allows (`PromisedMoves`, from the refinement), a
  submission that is queued is `Accept`, and the rest is the sender's own.
- So what is proved of either holds of both: `OneWakeAtATime` (`OneWakeEndToEnd`),
  `ShownOutcomesAreTrue` (`ShownIsOver`), and `FinalMeansStopped` of `PeerDelivery`:
  with a final status at the coordinator the process on the other computer is
  over, unless the row's cleanup hold says that it may go on.

`Asks_proofs` (any asks, handlers, deliveries, events):

- `TypesHold`, `WakesAreExclusive` (`OneWakePerAgent`), `ClaimsOutliveProcesses`
  (`FinishedMeansStopped`).
- Inductive invariant `IInv = TypeOK /\ LiveOK /\ ClaimsOK /\ OwnersOK /\
  HandlerOK`. `OneWakePerAgent` says nothing of who may start the next process;
  the invariant does: at most one claim is active and it is taken only when none
  is, one handler is inside a wake and owns that claim, a process runs only under
  an active claim, and wherever a wake may end its claim the process is gone, was
  never started, or the failed kill is noted in the handler. Four lemmas (`Away`,
  `Within`, `Ends`, `Takes`) say what a step may do to the claim; each action is
  one of them.

`GroupDiscussion_proofs` (any members, processes, rounds, follow-ups, events):

- The turns: `AnswersArePostedOnce` (`PostedWhenReplied`), `OutcomesStay`
  (`SettledStays`). Every step is either quiet, posting nothing and moving open
  turns to waiting, failed or ended and absent ones to invited or failed, or it
  posts one answer and settles its open turn as replied (`Steps`).
- The row, the calls and the runs: `TypesHold` (`TypeOK`, in particular bounded
  rounds), `FollowUpsRunOnce` (`FollowUpOnce`), `LaunchedOnce` (`RunsOnce`),
  `OwnTurnsStay` (`OwnTurnsLeftAlone`), `StartResponds` and `RespondersReplied`
  (`ResponsesFollowReplies`).
- Inductive invariant `Inv = Types /\ StartOK /\ CallOK /\ NumbersOK /\ RunOK /\
  RoundOK /\ RequestsOK /\ HeldOK`. A follow-up is taken, counted, posted, and
  perhaps given back, by calls that know nothing of each other. `CallOK` and
  `NumbersOK` say that a process about to post has a counted number that no run
  and no other process has, `RequestsOK` the same of the request; `StartOK` that
  one process opens the chat. `RoundOK` ties the round of the row to the start or
  a launched follow-up: the count goes back when a follow-up is given back, the
  round does not, and without it the bound on rounds would not be inductive.
  `HeldOK` says that a run not aborted is the one in its process's map, which is
  what `reconcile` looks at.
- `ResponsesFollowReplies` speaks of the rounds of the start. `StartResponds`
  proves it as long as no follow-up was launched, `RespondersReplied` for
  discussions that can have none; with follow-ups it is false (see above).
- `RestIsFinal`: what the violation of `StopIsFinal` leaves true. Once an ended
  discussion is at rest (`AtRest`: no follow-up waits, no run is active, and no call
  is past its check of the row, or read a running row without a heartbeat), it
  stays ended and at rest, invites nobody and posts nothing more. So a turn after a
  stop is always the work of a run or call that was under way, or of a follow-up
  that was waiting. `StepKinds` gives the three kinds of steps that invite.

`AgentApps_proofs` (any hosts, generations, contents, events):

- `TypeCorrect` (`TypeOK`), `OnlyTheOwnerWorks` (`WorkersOwn`), `ToolsRunAlone`
  (`ToolRunsAlone`), `EndedIsStopped` (`RecordedIsCurrent`), `Erased`
  (`DeletedIsErased`), `OnlyAgreed` (`OnlyAgreedDataIsDeleted`).
- Inductive invariant `Inv = TypeOK /\ Rows /\ Local(h)` for every host, where
  `Local` has six parts. `LeaseRight`: the shares of a lease are those of the
  operation and of one instance, and a remembered share means that the row names
  this host, so nobody else has one. `HostRight`: the instance's share is there
  while it is hosted, or its end could not be recorded before a close.
  `OpRight`, `WorkRight`: where an operation is against the rows it relies on.
  `GateRight`: whoever is inside holds the head of the queue, and one seal waits
  at most. `CallRight`: a running tool holds the gate and its instance is not
  sealed. `Rows`: a process known to run is the row's.
- `NobodyIsForgotten`, `SomebodyHasTheTurn`: the first half of
  `NobodyWaitsForever`. `Inv` says who may be inside, not that those who wait are
  still in the queue. `Queued`, inductive beside it, does: at each host the queue
  of the gate holds the operation and the call exactly while they wait or work
  there, a seal that is asked for, and each of them once. Every step is, at one
  queue, `Quiet`, one party that `Enters`, the head that `Leaves`, or a close that
  clears all (`Queues`), and leaves the other queues alone. So as long as anybody
  waits the head of the queue is one who can move: an operation inside, a call
  that runs, or a seal that still has to be recorded.

`KnowledgeHardDelete_proofs` (any items, flows, operations, faults):

- `TypeCorrect` (`TypeOK`), `WatermarkRecorded` (`WatermarkIsRecorded`),
  `OnlyOvertaken` (`OnlyOvertakenWordsAreRead`), `NotDeleted`
  (`NotDeletedIsTrue`), `NeverStored` (`NeverStoredAgain`): under every event and
  interleaving, the one of `knowledge_overtaken` too.
- Inductive invariant `Inv = TypeOK /\ Truth /\ Named /\ Calls /\ Marks /\ Proven
  /\ Writing`. `Named`: a record that says "deleted" names the deletion, which no
  later state takes from it; the states of a record may go back, and would make
  nothing below inductive. `Marks`: every deletion up to the watermark, and to
  that of the backup, has a record that names it. `Calls`: what a call has taken
  in of the graph's list is recorded before it moves the watermark. `Proven`: an
  open gate's proof is the watermark's. `Writing`: no deletion is complete while
  its words are in an open transaction.

**Only model-checked.** Liveness: `Settles`, `AnswersArrive`, `OutcomeIsSeen`,
`ClaimEnds`, `TurnsEnd`, `Concludes`, `GateReopens` (the prover does not reason
about fairness); and of `NobodyWaitsForever` that the next step of whoever has the
turn is `ENABLED`. The three violations are TLC's.

The second invariant of `GroupDiscussion`, `Ended`, `Executes`, `Shown` and the
invariants of the other modules were checked by TLC on the instances of the runs
before they were proved.

## Limits

- SQLite errors (full disk, busy or moved file) are not modelled in the
  roundtable: a statement succeeds or its process ends. `AgentApps` has
  transactions that fail ("errors").
- `releaseProvenCleanup` has no caller outside the tests, so a hold is for ever.
- TLS, keys, signatures, proofs and grants are taken as working.
- The coordinator does not lose its file; its downtime is lost requests.
- Windows and POSIX process handling is one action: ended, or not confirmed.
- A submitted request is not duplicated by the network: TLS, and no retry.

## Plan

1. Done, with the safety properties proved: `PeerDelivery` and its refinement of
   `RemoteDelivery`, `PeerSender`, their composition `PeerAsk`, `Asks`,
   `GroupDiscussion`, `AgentApps`, `KnowledgeHardDelete`.
2. `ChatRoom`: members, sends by request ID, cursors, delivery marks; then
   `ChatWake` composed with the claim of `Asks`, with the liveness of unread
   messages (dispatch coalesces rooms; a room added while a loop ends).
3. Reply inbox (returned once), pairing and removal with retries, migration of
   the storage format with crashes between its steps.
