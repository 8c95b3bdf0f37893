--------------------------------- MODULE Asks ---------------------------------
(***************************************************************************)
(* Asks to one Agent of this device and the client processes they start:   *)
(* wakeAsk, deliver, handToDesktop, replyMessage and cancelAsk of          *)
(* roundtable/service.js, dispatch of roundtable/person-conversation.js,   *)
(* and the execution claim in the ask rows of roundtable/store.js.         *)
(*                                                                         *)
(* An Agent's ask is made in the MCP server of its client, the person's in *)
(* the console; the Agent answers from its inbox in a process of its own.  *)
(* All share the rows in one SQLite file, so each SQL transaction is a     *)
(* step, and so is what lies between two awaits.  A handler is one call or *)
(* dispatch of some process; when that process ends, the client it started *)
(* goes on.  Other Agents have claims of their own and do not interact.    *)
(***************************************************************************)
EXTENDS Naturals

CONSTANTS
  Ask, NoAsk,
  Instant,      \* asks the person posts where delivery is instant
  Handler,
  MaxAttempts,  \* deliveries one wake tries (targets of deliver)
  Happens       \* which of the optional events may occur

Event == {"crash", "close", "inbox", "cancel", "unconfirmed", "desktop"}

ASSUME AsksAssumption ==
  /\ NoAsk \notin Ask
  /\ Instant \subseteq Ask
  /\ MaxAttempts \in Nat \ {0}
  /\ Happens \subseteq Event

VARIABLES
  status,   \* status[a] of the ask row
  claim,    \* its execution_claim
  hold,     \* asks whose cleanup_status is 'unconfirmed'
  replies,  \* asks that have a reply row
  live,     \* asks whose client process runs
  handler,  \* what each handler is doing
  crashed   \* a process ended in the middle of a handler

rows == <<status, claim, hold, replies>>
vars == <<rows, live, handler, crashed>>

Status == {"absent", "queued", "delivering", "answered", "cancelled"}

\* Where a wake owns the claim of its ask.
Owning == {"targeting", "handing", "handed", "unhanded", "trying", "granting", "running", "holding", "failed", "answered"}
PC == {"idle", "waiting", "looking", "claiming", "requeueing", "marking", "appending",
       "cancelling"} \cup Owning

Idle == [pc |-> "idle", ask |-> NoAsk, tries |-> 0, cleanup |-> FALSE]

Init ==
  /\ status = [a \in Ask |-> "absent"]
  /\ claim = [a \in Ask |-> "none"]
  /\ hold = {}
  /\ replies = {}
  /\ live = {}
  /\ handler = [h \in Handler |-> Idle]
  /\ crashed = FALSE

TypeOK ==
  /\ status \in [Ask -> Status]
  /\ claim \in [Ask -> {"none", "active", "finished"}]
  /\ hold \in SUBSET Ask
  /\ replies \in SUBSET Ask
  /\ live \in SUBSET Ask
  /\ handler \in [Handler -> [pc : PC, ask : Ask \cup {NoAsk}, tries : 0..MaxAttempts,
                              cleanup : BOOLEAN]]
  /\ crashed \in BOOLEAN

At(h, pc) == handler[h].pc = pc
Of(h) == handler[h].ask
Goto(h, pc) == handler' = [handler EXCEPT ![h].pc = pc]
Begin(h, a, pc) == handler' = [handler EXCEPT ![h] = [Idle EXCEPT !.pc = pc, !.ask = a]]
Leave(h) == handler' = [handler EXCEPT ![h] = Idle]
SetStatus(a, s) == status' = [status EXCEPT ![a] = s]

-----------------------------------------------------------------------------
(* Asking.                                                                 *)

\* message_agent that waits goes on to wake the Agent; one that does not, and a
\* post on the board, leave the ask in the inbox.
AskAgent(h, a) ==
  /\ At(h, "idle")
  /\ status[a] = "absent" /\ a \notin Instant
  /\ SetStatus(a, "queued")
  /\ Begin(h, a, "claiming") \/ UNCHANGED handler
  /\ UNCHANGED <<claim, hold, replies, live, crashed>>

\* The person's post, or the switch to instant while an ask is on the board;
\* its dispatch waits until no earlier run is left.
Publish(h, a) ==
  /\ At(h, "idle")
  /\ status[a] \in {"absent", "queued"} /\ a \in Instant
  /\ SetStatus(a, "queued")
  /\ Begin(h, a, "waiting")
  /\ UNCHANGED <<claim, hold, replies, live, crashed>>

\* executionState: what another ask to the Agent leaves behind.
Busy(a) == \E b \in Ask \ {a} : claim[b] = "active"
Held(a) == hold \ {a} # {}

\* waitUntilIdle looks at every ask of the Agent, a hold ends the wait.
WaitUntilIdle(h) ==
  /\ At(h, "waiting")
  /\ \/ hold # {} /\ Goto(h, "requeueing")
     \/ hold = {} /\ (\A b \in Ask : claim[b] # "active") /\ Goto(h, "looking")
  /\ UNCHANGED <<rows, live, crashed>>

\* The console closes: its dispatches are aborted.
AbortWait(h) ==
  /\ "close" \in Happens
  /\ At(h, "waiting")
  /\ Goto(h, "requeueing")
  /\ UNCHANGED <<rows, live, crashed>>

LookAgain(h) ==
  /\ At(h, "looking")
  /\ IF status[Of(h)] = "queued" THEN Goto(h, "claiming") ELSE Leave(h)
  /\ UNCHANGED <<rows, live, crashed>>

-----------------------------------------------------------------------------
(* wakeAsk: the claim, the deliveries, the answer.                         *)

\* Mutant: the claims of other asks are not looked at.
ClaimableUnlessHeld(a) == ~Held(a) /\ claim[a] = "none"
Claimable(a) == ~Held(a) /\ ~Busy(a) /\ claim[a] = "none"

ClaimExecution(h) ==
  /\ At(h, "claiming")
  /\ \/ /\ Claimable(Of(h))
        /\ claim' = [claim EXCEPT ![Of(h)] = "active"]
        /\ Goto(h, "targeting")
     \/ /\ ~Claimable(Of(h))
        /\ Goto(h, "requeueing")
        /\ UNCHANGED claim
  /\ UNCHANGED <<status, hold, replies, live, crashed>>

\* The ask goes back to the queue with the reason, whatever it is by now.
Requeue(h) ==
  /\ At(h, "requeueing")
  /\ SetStatus(Of(h), "queued")
  /\ Leave(h)
  /\ UNCHANGED <<claim, hold, replies, live, crashed>>

\* Mutant: an ask without targets is queued and keeps the claim.
FindTargetsKeeping(h) ==
  /\ At(h, "targeting")
  /\ Goto(h, "trying") \/ Goto(h, "requeueing")
  /\ UNCHANGED <<rows, live, crashed>>

\* targets(): the Agent's clients in order, none, a desktop app, or an error.
FindTargets(h) ==
  /\ At(h, "targeting")
  /\ \/ Goto(h, "trying") \/ Goto(h, "failed")
     \/ "desktop" \in Happens /\ Goto(h, "handing")
  /\ UNCHANGED <<rows, live, crashed>>

\* Mutant: any end of a wake ends the claim.
FinishedAnyway(a, cleanup) == [claim EXCEPT ![a] = IF @ = "active" THEN "finished" ELSE @]

\* finishWake and finishExecution: not while the process may still run.
Finished(a, cleanup) ==
  [claim EXCEPT ![a] = IF @ = "active" /\ ~cleanup /\ a \notin hold THEN "finished" ELSE @]

\* handToDesktop starts no process: the ask is queued for the conversation, which
\* is told of it, or not, and answers from the inbox.
HandToDesktop(h) ==
  /\ At(h, "handing")
  /\ SetStatus(Of(h), "queued")
  /\ Goto(h, "handed") \/ Goto(h, "unhanded")
  /\ UNCHANGED <<claim, hold, replies, live, crashed>>

HandOffFails(h) ==
  /\ At(h, "unhanded")
  /\ SetStatus(Of(h), "queued")
  /\ Goto(h, "handed")
  /\ UNCHANGED <<claim, hold, replies, live, crashed>>

HandedOff(h) ==
  /\ At(h, "handed")
  /\ claim' = Finished(Of(h), FALSE)
  /\ Leave(h)
  /\ UNCHANGED <<status, hold, replies, live, crashed>>

\* One delivery begins; an ask cancelled by now is delivered all the same.
Try(h) ==
  /\ At(h, "trying")
  /\ SetStatus(Of(h), "delivering")
  /\ handler' = [handler EXCEPT ![h].pc = "granting", ![h].tries = @ + 1]
  /\ UNCHANGED <<claim, hold, replies, live, crashed>>

\* Mutant: one delivery more.
NextBeyondLast(h) ==
  \/ handler[h].tries <= MaxAttempts /\ Goto(h, "trying")
  \/ Goto(h, "failed")

\* A failure that allows the next delivery, or ends them.
NextOrFailed(h) ==
  \/ handler[h].tries < MaxAttempts /\ Goto(h, "trying")
  \/ Goto(h, "failed")

\* The grant is issued and the client is spawned, or either fails.
Grant(h) ==
  /\ At(h, "granting")
  /\ \/ live' = live \cup {Of(h)} /\ Goto(h, "running")
     \/ NextOrFailed(h) /\ UNCHANGED live
  /\ UNCHANGED <<rows, crashed>>

\* The client ends by itself or is killed: with a verified answer or without.
ClientEnds(h) ==
  /\ At(h, "running")
  /\ live' = live \ {Of(h)}
  /\ Goto(h, "answered") \/ NextOrFailed(h)
  /\ UNCHANGED <<rows, crashed>>

\* The kill cannot be confirmed: the process may or may not be gone.
CleanupFails(h) ==
  /\ "unconfirmed" \in Happens
  /\ At(h, "running")
  /\ live' \in {live, live \ {Of(h)}}
  /\ handler' = [handler EXCEPT ![h].pc = "holding", ![h].cleanup = TRUE]
  /\ UNCHANGED <<rows, crashed>>

SetCleanup(h) ==
  /\ At(h, "holding")
  /\ hold' = hold \cup {Of(h)}
  /\ Goto(h, "failed")
  /\ UNCHANGED <<status, claim, replies, live, crashed>>

WakeFailed(h) ==
  /\ At(h, "failed")
  /\ claim' = Finished(Of(h), handler[h].cleanup)
  /\ Goto(h, "requeueing")
  /\ UNCHANGED <<status, hold, replies, live, crashed>>

WakeAnswered(h) ==
  /\ At(h, "answered")
  /\ claim' = Finished(Of(h), FALSE)
  /\ Goto(h, "marking")
  /\ UNCHANGED <<status, hold, replies, live, crashed>>

Mark(h) ==
  /\ At(h, "marking")
  /\ SetStatus(Of(h), "answered")
  /\ Goto(h, "appending")
  /\ UNCHANGED <<claim, hold, replies, live, crashed>>

AppendReply(h) ==
  /\ At(h, "appending")
  /\ replies' = replies \cup {Of(h)}
  /\ Leave(h)
  /\ UNCHANGED <<status, claim, hold, live, crashed>>

-----------------------------------------------------------------------------
(* The inbox, cancellation, and processes that end.                        *)

\* replyMessage: any ask that is not answered yet, cancelled ones included.
ReplyFromInbox(h, a) ==
  /\ "inbox" \in Happens
  /\ At(h, "idle")
  /\ status[a] \notin {"absent", "answered"}
  /\ Begin(h, a, "marking")
  /\ UNCHANGED <<rows, live, crashed>>

\* cancelAsk: a queued ask only.
BeginCancel(h, a) ==
  /\ "cancel" \in Happens
  /\ At(h, "idle")
  /\ status[a] = "queued"
  /\ Begin(h, a, "cancelling")
  /\ UNCHANGED <<rows, live, crashed>>

Cancel(h) ==
  /\ At(h, "cancelling")
  /\ SetStatus(Of(h), "cancelled")
  /\ Leave(h)
  /\ UNCHANGED <<claim, hold, replies, live, crashed>>

\* The process of a handler ends; its client goes on.
Crash(h) ==
  /\ "crash" \in Happens
  /\ ~crashed
  /\ ~At(h, "idle")
  /\ crashed' = TRUE
  /\ Leave(h)
  /\ UNCHANGED <<rows, live>>

\* A client nobody waits for ends.
OrphanEnds(a) ==
  /\ a \in live
  /\ \A h \in Handler : ~(At(h, "running") /\ Of(h) = a)
  /\ live' = live \ {a}
  /\ UNCHANGED <<rows, handler, crashed>>

-----------------------------------------------------------------------------
Step(h) ==
  \/ LookAgain(h) \/ ClaimExecution(h) \/ Requeue(h) \/ FindTargets(h)
  \/ HandToDesktop(h) \/ HandOffFails(h) \/ HandedOff(h) \/ Try(h) \/ Grant(h) \/ ClientEnds(h) \/ CleanupFails(h)
  \/ SetCleanup(h) \/ WakeFailed(h) \/ WakeAnswered(h) \/ Mark(h) \/ AppendReply(h)
  \/ Cancel(h)

Next ==
  \/ \E h \in Handler : Step(h) \/ WaitUntilIdle(h) \/ AbortWait(h) \/ Crash(h)
  \/ \E h \in Handler, a \in Ask :
       AskAgent(h, a) \/ Publish(h, a) \/ ReplyFromInbox(h, a) \/ BeginCancel(h, a)
  \/ \E a \in Ask : OrphanEnds(a)

Spec == Init /\ [][Next]_vars

(* A handler goes on: every await in it has a deadline (a wake its timeout, *)
(* a kill five seconds).  waitUntilIdle has none, but it is told of every   *)
(* finished claim and looks again every two seconds, so a wait whose Agent  *)
(* stays free ends.                                                         *)
FairSpec == Spec /\ \A h \in Handler : WF_vars(Step(h)) /\ WF_vars(WaitUntilIdle(h))

-----------------------------------------------------------------------------
(* Properties.                                                             *)

\* At no time do two client processes run for the Agent, whichever processes
\* wake it, however kills fail and whoever ends in the middle ("While an
\* earlier wake of this Agent may still be running, no new one starts",
\* service.js:231).
OneWakePerAgent == \A a, b \in live : a = b

\* A claim is over only when its process was seen to end or never started, not
\* when the ask is answered from the inbox or cancelled (service.js:232).
FinishedMeansStopped == \A a \in Ask : claim[a] = "finished" => a \notin live

\* No way through a wake leaves the Agent claimed: the claim ends, unless a
\* process that may still run holds it or the waking process ended.
ClaimEnds == \A a \in Ask : claim[a] = "active" ~> claim[a] # "active" \/ a \in hold \/ crashed

\* "A busy FLA is woken when its earlier run ends" (docs/agent-roundtable.md:142):
\* the person's instant ask does not stay queued untried.
BusyIsWokenLater == \A a \in Instant : status[a] = "queued" ~> status[a] # "queued" \/ claim[a] # "none"

=============================================================================
