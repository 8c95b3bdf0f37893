---------------------------- MODULE GroupDiscussion ----------------------------
(***************************************************************************)
(* One moderated discussion (@FLG) of group-discussion.js and its store:   *)
(* the person confirms members; a process claims the confirmation, opens   *)
(* the chat and runs the rounds in the background; follow-ups are recorded *)
(* by the person and carried out by a process; stop and summary end it;    *)
(* any process reconciles the turns of a runner that went away.            *)
(*                                                                         *)
(* The store (disc, turns, posts) is shared by every process; a step is    *)
(* what a process does between two awaits, except that a turn begins in a  *)
(* step of its own after its invitation, because other processes write the *)
(* store in between.  One call at a time per process; its runs go on after *)
(* the call.                                                               *)
(***************************************************************************)
EXTENDS Integers, FiniteSets

CONSTANTS Member, Process, NoProcess,
          ResponseRounds,  \* response rounds the start asked for
          FollowUpLimit,   \* FOLLOW_UP_LIMIT
          MaxAsked,        \* bound: follow-ups the person writes
          Happens          \* which of the optional events may occur

Event == {"crash", "close", "stall", "late", "stop", "summary", "unwakeable", "expire"}

ASSUME DiscussionAssumption ==
  /\ IsFiniteSet(Member) /\ Cardinality(Member) >= 2
  /\ ResponseRounds \in 0..2
  /\ FollowUpLimit \in Nat
  /\ MaxAsked \in Nat
  /\ NoProcess \notin Process
  /\ Happens \subseteq Event

VARIABLES
  disc,    \* the group_discussions row; beat abstracts heartbeat_at
  turns,   \* status of each member's turn in each round
  due,     \* rounds whose turn deadline has passed
  posts,   \* how often each turn's answer was posted in the chat
  asked,   \* follow-ups the person wrote so far
  call,    \* the tool call each process is in
  run,     \* background runs: 0 is the start, k the follow-up number k
  held,    \* the run in each process's runs map
  gone     \* processes that closed or crashed

store == <<disc, turns, due, posts, asked>>
vars  == <<store, call, run, held, gone>>

MaxRound == 1 + ResponseRounds + FollowUpLimit
Round    == 1..MaxRound
RunId    == 0..FollowUpLimit
NoRun    == -1
Targets  == {Member} \cup {{m} : m \in Member}
NoRequest == [no |-> 0, to |-> {}]
Request  == {NoRequest} \cup [no : 1..MaxAsked, to : Targets]

Status     == {"none", "confirmed", "running", "concluded", "ended"}
Unsettled  == {"invited", "waiting"}
TurnStatus == {"none", "replied", "failed", "ended"} \cup Unsettled
Active     == {"turns", "reading"}

Row  == [status : Status, attached : BOOLEAN, stopped : BOOLEAN, round : 0..MaxRound,
         followUps : 0..FollowUpLimit, pending : Request, beat : {"none", "fresh", "stale"}]
Call == [at : {"idle", "checking", "creating", "asking", "looking", "gathering", "posting", "summarizing"},
         stale : BOOLEAN, seen : Status, round : 0..MaxRound, to : Targets \cup {{}},
         taken : Request, number : 0..FollowUpLimit]
Run  == [at : {"none", "over"} \cup Active, host : Process \cup {NoProcess}, round : 0..MaxRound, kind : {"start", "follow_up"},
         aborted : BOOLEAN, req : Request, to : SUBSET Member,
         wake : [Member -> {"none", "todo", "awake", "doomed", "done"}]]

Idle  == [at |-> "idle", stale |-> FALSE, seen |-> "none", round |-> 0, to |-> {},
          taken |-> NoRequest, number |-> 0]

Init ==
  /\ disc = [status |-> "none", attached |-> FALSE, stopped |-> FALSE, round |-> 0,
             followUps |-> 0, pending |-> NoRequest, beat |-> "none"]
  /\ turns = [r \in Round |-> [m \in Member |-> "none"]]
  /\ due = {}
  /\ posts = [r \in Round |-> [m \in Member |-> 0]]
  /\ asked = 0
  /\ call = [p \in Process |-> Idle]
  /\ run = [i \in RunId |-> [at |-> "none", host |-> NoProcess, round |-> 0, kind |-> "start",
                              aborted |-> FALSE, req |-> NoRequest, to |-> {},
                              wake |-> [m \in Member |-> "none"]]]
  /\ held = [p \in Process |-> NoRun]
  /\ gone = {}

-----------------------------------------------------------------------------
(* The store's operations.                                                 *)

\* Mutant: settle without the status condition.
SettleAnyway(T, r, m, s) == [T EXCEPT ![r][m] = s]

\* settle: only an unsettled turn changes.
Settle(T, r, m, s) == IF T[r][m] \in Unsettled THEN [T EXCEPT ![r][m] = s] ELSE T

\* Every unsettled turn of the given rounds.
SettleAll(T, R, s) ==
  [r \in Round |-> [m \in Member |-> IF r \in R /\ T[r][m] \in Unsettled THEN s ELSE T[r][m]]]

\* invite: INSERT OR IGNORE; a target that cannot be woken starts as failed.
Invite(T, r, targets, woken) ==
  [T EXCEPT ![r] = [m \in Member |->
     IF m \in targets /\ T[r][m] = "none" THEN IF m \in woken THEN "invited" ELSE "failed" ELSE T[r][m]]]

\* update with a round: a round number only grows.
RoundTo(d, r) == [d EXCEPT !.round = IF r > @ THEN r ELSE @]

Concluded(d) == [d EXCEPT !.status = "concluded"]

-----------------------------------------------------------------------------
(* Processes and their calls.                                              *)

InCall(p, at) == call[p].at = at
Alive(p)      == p \notin gone
Calls(p)      == Alive(p) /\ InCall(p, "idle")
Returns(p)    == call' = [call EXCEPT ![p] = Idle]
ActiveRun(i)  == run[i].at \in Active

\* What the person confirms at task entry is recorded once.
Confirm ==
  /\ disc.status = "none"
  /\ disc' = [disc EXCEPT !.status = "confirmed"]
  /\ UNCHANGED <<turns, due, posts, asked, call, run, held, gone>>

\* A read of a confirmation that nobody started within ten minutes.
Expire ==
  /\ "expire" \in Happens
  /\ disc.status = "confirmed"
  /\ disc' = [disc EXCEPT !.status = "ended"]
  /\ UNCHANGED <<turns, due, posts, asked, call, run, held, gone>>

\* start reads the confirmation, then awaits the moderator and the directory.
BeginStart(p) ==
  /\ Calls(p)
  /\ disc.status = "confirmed"
  /\ call' = [call EXCEPT ![p].at = "checking"]
  /\ UNCHANGED <<store, run, held, gone>>

\* unstartable, or expired by the row read before the await: ended whatever it is now.
RefuseStart(p) ==
  /\ InCall(p, "checking")
  /\ Happens \cap {"unwakeable", "expire"} # {}
  /\ disc' = [disc EXCEPT !.status = "ended"]
  /\ Returns(p)
  /\ UNCHANGED <<turns, due, posts, asked, run, held, gone>>

\* Mutant: any start that was not stopped may claim.
ClaimableUnlessEnded == disc.status # "ended"

\* claim: confirmed -> running, once.
Claimable == disc.status = "confirmed"

ClaimStart(p) ==
  /\ InCall(p, "checking")
  /\ \/ /\ Claimable
        /\ disc' = [disc EXCEPT !.status = "running"]
        /\ call' = [call EXCEPT ![p].at = "creating"]
     \/ /\ ~Claimable
        /\ Returns(p)
        /\ UNCHANGED disc
  /\ UNCHANGED <<turns, due, posts, asked, run, held, gone>>

\* The chat is created and attached; the row attach returns is what launch trusts.
CreateRoom(p) ==
  /\ InCall(p, "creating")
  /\ disc' = [disc EXCEPT !.attached = TRUE]
  /\ call' = [call EXCEPT ![p].at = "asking", ![p].seen = disc.status]
  /\ UNCHANGED <<turns, due, posts, asked, run, held, gone>>

\* unclaim: back to the person's confirmation.
CreateFails(p) ==
  /\ InCall(p, "creating")
  /\ disc' = IF disc.status = "running" /\ ~disc.attached THEN [disc EXCEPT !.status = "confirmed"] ELSE disc
  /\ Returns(p)
  /\ UNCHANGED <<turns, due, posts, asked, run, held, gone>>

\* launch: invites, marks the discussion running, and replaces the run this process held.
Launch(p, i, r, kind, targets, req) ==
  \E woken \in SUBSET targets :
    /\ woken # {}
    /\ "unwakeable" \in Happens \/ woken = targets
    /\ turns' = Invite(turns, r, targets, woken)
    /\ disc' = [RoundTo(disc, r) EXCEPT !.status = "running", !.beat = "fresh"]
    /\ run' = [j \in RunId |->
         IF j = i THEN [at |-> "turns", host |-> p, round |-> r, kind |-> kind, aborted |-> ~Alive(p),
                        req |-> req, to |-> targets,
                        wake |-> [m \in Member |-> IF m \in woken THEN "todo" ELSE "none"]]
         ELSE IF j = held[p] THEN [run[j] EXCEPT !.aborted = TRUE] ELSE run[j]]
    /\ held' = [held EXCEPT ![p] = i]

\* The question is posted, then the rounds start if the row attach returned was running.
AskQuestion(p) ==
  /\ InCall(p, "asking")
  /\ IF call[p].seen = "running"
     THEN Launch(p, 0, 1, "start", Member, NoRequest)
     ELSE UNCHANGED <<disc, turns, run, held>>
  /\ Returns(p)
  /\ UNCHANGED <<due, posts, asked, gone>>

QuestionFails(p) ==
  /\ InCall(p, "asking")
  /\ Returns(p)
  /\ UNCHANGED <<store, run, held, gone>>

-----------------------------------------------------------------------------
(* Reconciling, looking, follow-ups, stop and summary.                     *)

StaleRun == disc.status = "running" /\ disc.beat # "fresh"

\* Mutant: the runs map is not consulted.
ReconcilesAnyway(p) == disc.attached

\* The runner in this process settles its own turns.
Reconciles(p) == disc.attached /\ held[p] = NoRun

\* Mutants: only a lost heartbeat fails turns; the discussion is left as it is.
ReconciledByHeartbeat(p, stale) ==
  IF Reconciles(p) /\ stale THEN SettleAll(turns, Round, "failed") ELSE turns
ReconciledTurnsOnly(p, stale) == disc

\* reconcile: stale is what the row that was read says.
ReconciledTurns(p, stale) ==
  IF Reconciles(p) THEN SettleAll(turns, IF stale THEN Round ELSE due, "failed") ELSE turns
ReconciledDisc(p, stale) ==
  IF Reconciles(p) /\ stale THEN Concluded(disc) ELSE disc

\* A view of the row just read (the person's entry, the end of a call).
View(p) ==
  /\ Alive(p)
  /\ turns' = ReconciledTurns(p, StaleRun)
  /\ disc' = ReconciledDisc(p, StaleRun)
  /\ UNCHANGED <<due, posts, asked, call, run, held, gone>>

\* owned: the row is read, then two awaits check the caller.
Look(p) ==
  /\ Calls(p)
  /\ disc.attached
  /\ call' = [call EXCEPT ![p].at = "looking", ![p].stale = StaleRun]
  /\ UNCHANGED <<store, run, held, gone>>

\* status and wait, and every other call that is refused after its reconcile.
EndLook(p) ==
  /\ InCall(p, "looking")
  /\ turns' = ReconciledTurns(p, call[p].stale)
  /\ disc' = ReconciledDisc(p, call[p].stale)
  /\ Returns(p)
  /\ UNCHANGED <<due, posts, asked, run, held, gone>>

\* The person's `@FLG ...`; a newer one replaces it.
AskFollowUp(to) ==
  /\ asked < MaxAsked
  /\ disc.attached
  /\ disc.status # "ended"
  /\ disc.followUps < FollowUpLimit
  /\ asked' = asked + 1
  /\ disc' = [disc EXCEPT !.pending = [no |-> asked + 1, to |-> to]]
  /\ UNCHANGED <<turns, due, posts, call, run, held, gone>>

\* follow_up decides on the row after its reconcile, then awaits the directory.
BeginFollowUp(p) ==
  LET current == ReconciledDisc(p, call[p].stale) IN
  /\ InCall(p, "looking")
  /\ current.status # "running"
  /\ current.followUps < FollowUpLimit
  /\ current.pending # NoRequest
  /\ turns' = ReconciledTurns(p, call[p].stale)
  /\ disc' = current
  /\ call' = [call EXCEPT ![p] = [Idle EXCEPT !.at = "gathering", !.round = current.round,
                                              !.to = current.pending.to]]
  /\ UNCHANGED <<due, posts, asked, run, held, gone>>

\* takeFollowUp: the follow-up waiting now, at most once.
Takeable == disc.pending # NoRequest /\ disc.followUps < FollowUpLimit

\* Mutant: the follow-up is counted and keeps waiting.
TakenKept(d) == [d EXCEPT !.followUps = @ + 1]
Taken(d) == [d EXCEPT !.pending = NoRequest, !.followUps = @ + 1]

TakeFollowUp(p) ==
  /\ InCall(p, "gathering")
  /\ \/ /\ Takeable
        /\ disc' = Taken(disc)
        /\ call' = [call EXCEPT ![p].at = "posting", ![p].taken = disc.pending,
                                ![p].number = disc.followUps + 1]
     \/ /\ ~Takeable
        /\ Returns(p)
        /\ UNCHANGED disc
  /\ UNCHANGED <<turns, due, posts, asked, run, held, gone>>

\* No member can be woken: refused before anything is taken.
RefuseFollowUp(p) ==
  /\ InCall(p, "gathering")
  /\ "unwakeable" \in Happens
  /\ Returns(p)
  /\ UNCHANGED <<store, run, held, gone>>

PostFollowUp(p) ==
  /\ InCall(p, "posting")
  /\ Launch(p, call[p].number, call[p].round + 1, "follow_up", call[p].to, call[p].taken)
  /\ Returns(p)
  /\ UNCHANGED <<due, posts, asked, gone>>

\* restoreFollowUp: waits again, unless another was written or taken.
Restored(number, req) ==
  IF disc.followUps = number /\ disc.pending = NoRequest
  THEN [disc EXCEPT !.pending = req, !.followUps = @ - 1] ELSE disc

FollowUpFails(p) ==
  /\ InCall(p, "posting")
  /\ disc' = Restored(call[p].number, call[p].taken)
  /\ Returns(p)
  /\ UNCHANGED <<turns, due, posts, asked, run, held, gone>>

\* end: one transaction, then the run this process holds is aborted.
End(p) ==
  /\ disc' = [disc EXCEPT !.status = "ended", !.stopped = TRUE]
  /\ turns' = SettleAll(turns, IF disc.attached THEN Round ELSE {}, "ended")
  /\ run' = [i \in RunId |-> IF i = held[p] /\ disc.attached THEN [run[i] EXCEPT !.aborted = TRUE] ELSE run[i]]

\* The person's `@FLG` stop, from any process and beside its calls, or the moderator's stop.
Stop(p) ==
  /\ "stop" \in Happens
  /\ disc.status # "none"
  /\ Alive(p)
  /\ End(p)
  /\ UNCHANGED <<due, posts, asked, call, held, gone>>

BeginSummary(p) ==
  LET current == ReconciledDisc(p, call[p].stale) IN
  /\ "summary" \in Happens
  /\ InCall(p, "looking")
  /\ current.status # "running"
  /\ turns' = ReconciledTurns(p, call[p].stale)
  /\ disc' = current
  /\ call' = [call EXCEPT ![p] = [Idle EXCEPT !.at = "summarizing"]]
  /\ UNCHANGED <<due, posts, asked, run, held, gone>>

\* The summary is posted, or its post fails.
EndSummary(p) ==
  /\ InCall(p, "summarizing")
  /\ disc' \in {disc, [disc EXCEPT !.status = "ended"]}
  /\ Returns(p)
  /\ UNCHANGED <<turns, due, posts, asked, run, held, gone>>

-----------------------------------------------------------------------------
(* A run in the background.                                                *)

\* The run is over: it leaves the map unless a later run took its place.
Over(i, R) ==
  /\ run' = [R EXCEPT ![i].at = "over"]
  /\ held' = [p \in Process |-> IF held[p] = i THEN NoRun ELSE held[p]]

\* runTurn: the turn is marked waiting and the member woken, unless it was settled.
BeginTurn(i, m) ==
  LET r == run[i].round IN
  /\ run[i].at = "turns"
  /\ run[i].wake[m] = "todo"
  /\ turns' = Settle(turns, r, m, "waiting")
  /\ run' = [run EXCEPT ![i].wake[m] =
       IF turns[r][m] \notin Unsettled THEN "done" ELSE IF run[i].aborted THEN "doomed" ELSE "awake"]
  /\ UNCHANGED <<disc, due, posts, asked, call, held, gone>>

\* Mutant: posted whatever the turn is by now.
PostAnyway(r, m) ==
  /\ turns' = Settle(turns, r, m, "replied")
  /\ posts' = [posts EXCEPT ![r][m] = @ + 1]

\* A verified answer: posted in the transaction that settles the turn, if it is still open.
Post(r, m) ==
  /\ turns' = Settle(turns, r, m, "replied")
  /\ posts' = IF turns[r][m] \in Unsettled THEN [posts EXCEPT ![r][m] = @ + 1] ELSE posts

Answer(i, m) ==
  /\ run[i].at = "turns"
  /\ run[i].wake[m] = "awake"
  /\ Post(run[i].round, m)
  /\ run' = [run EXCEPT ![i].wake[m] = "done"]
  /\ UNCHANGED <<disc, due, asked, call, held, gone>>

\* The wake failed, timed out, was aborted, or its answer could not be posted.
Unanswered(i, m) ==
  /\ run[i].at = "turns"
  /\ run[i].wake[m] \in {"awake", "doomed"}
  /\ turns' = Settle(turns, run[i].round, m, "failed")
  /\ run' = [run EXCEPT ![i].wake[m] = "done"]
  /\ UNCHANGED <<disc, due, posts, asked, call, held, gone>>

TurnsDone(i) == \A m \in Member : run[i].wake[m] \in {"none", "done"}

\* Mutant: whoever's turn is over responds.
SettledIn(r) == {m \in Member : turns[r][m] \notin {"none", "invited", "waiting"}}

Repliers(r) == {m \in Member : turns[r][m] = "replied"}

\* Mutant: the response rounds are not counted.
GoesOnUncounted(i) ==
  /\ ~run[i].aborted
  /\ run[i].kind # "follow_up"
  /\ Cardinality(Repliers(run[i].round)) >= 2

\* Whether those who answered respond to the others.
GoesOn(i) ==
  /\ ~run[i].aborted
  /\ run[i].kind # "follow_up"
  /\ run[i].round < 1 + ResponseRounds
  /\ Cardinality(Repliers(run[i].round)) >= 2

\* After the round's turns: stopped, concluded, or on to the replies.
FinishRound(i) ==
  /\ run[i].at = "turns"
  /\ TurnsDone(i)
  /\ IF disc.status = "running" /\ GoesOn(i)
     THEN /\ run' = [run EXCEPT ![i].at = "reading", ![i].to = Repliers(run[i].round)]
          /\ UNCHANGED <<disc, held>>
     ELSE /\ Over(i, run)
          /\ disc' = IF disc.status = "running" THEN Concluded(disc) ELSE disc
  /\ UNCHANGED <<turns, due, posts, asked, call, gone>>

\* The replies and the directory were read: the next round is invited.
NextRound(i) ==
  LET r == run[i].round + 1 IN
  /\ run[i].at = "reading"
  /\ turns' = Invite(turns, r, run[i].to, run[i].to)
  /\ disc' = RoundTo(disc, r)
  /\ run' = [run EXCEPT ![i].at = "turns", ![i].round = r,
                        ![i].wake = [m \in Member |-> IF m \in run[i].to THEN "todo" ELSE "none"]]
  /\ UNCHANGED <<due, posts, asked, call, held, gone>>

\* abandon: the replies could not be read.
Abandon(i) ==
  /\ run[i].at = "reading"
  /\ turns' = SettleAll(turns, Round, "failed")
  /\ disc' = IF disc.status = "running" THEN Concluded(disc) ELSE disc
  /\ Over(i, run)
  /\ UNCHANGED <<due, posts, asked, call, gone>>

\* The watcher sees a stop from another process.
NoticeEnd(i) ==
  /\ ActiveRun(i)
  /\ disc.status = "ended"
  /\ ~run[i].aborted
  /\ run' = [run EXCEPT ![i].aborted = TRUE]
  /\ UNCHANGED <<store, call, held, gone>>

Beat(i) ==
  /\ ActiveRun(i)
  /\ disc.beat # "fresh"
  /\ disc' = [disc EXCEPT !.beat = "fresh"]
  /\ UNCHANGED <<turns, due, posts, asked, call, run, held, gone>>

-----------------------------------------------------------------------------
(* Time and failures.                                                      *)

\* A minute without a heartbeat: nobody runs, or the runner's host was suspended.
Stale ==
  /\ disc.beat = "fresh"
  /\ "stall" \in Happens \/ \A i \in RunId : ~ActiveRun(i)
  /\ disc' = [disc EXCEPT !.beat = "stale"]
  /\ UNCHANGED <<turns, due, posts, asked, call, run, held, gone>>

\* A round's turn deadline, which is longer than a wake normally takes.
PassDeadline(r) ==
  /\ r \notin due
  /\ \E m \in Member : turns[r][m] # "none"
  /\ "late" \in Happens \/ \A i \in RunId : ~(ActiveRun(i) /\ run[i].round = r)
  /\ due' = due \cup {r}
  /\ UNCHANGED <<disc, turns, posts, asked, call, run, held, gone>>

\* close: the runs of the process are aborted and settle their own turns.
Close(p) ==
  /\ "close" \in Happens
  /\ Alive(p)
  /\ \E q \in Process \ {p} : Alive(q)
  /\ gone' = gone \cup {p}
  /\ run' = [i \in RunId |-> IF ActiveRun(i) /\ run[i].host = p THEN [run[i] EXCEPT !.aborted = TRUE] ELSE run[i]]
  /\ UNCHANGED <<store, call, held>>

\* The process ends: its call and its runs are lost.
Crash(p) ==
  /\ "crash" \in Happens
  /\ \E q \in Process \ {p} : Alive(q)
  /\ \/ Alive(p)
     \/ call[p] # Idle
     \/ \E i \in RunId : ActiveRun(i) /\ run[i].host = p
  /\ gone' = gone \cup {p}
  /\ Returns(p)
  /\ run' = [i \in RunId |-> IF ActiveRun(i) /\ run[i].host = p THEN [run[i] EXCEPT !.at = "over"] ELSE run[i]]
  /\ held' = [held EXCEPT ![p] = NoRun]
  /\ UNCHANGED store

-----------------------------------------------------------------------------
Start(p) == \/ BeginStart(p) \/ RefuseStart(p) \/ ClaimStart(p)
            \/ CreateRoom(p) \/ CreateFails(p) \/ AskQuestion(p) \/ QuestionFails(p)

FollowUp(p) == \/ BeginFollowUp(p) \/ TakeFollowUp(p) \/ RefuseFollowUp(p)
               \/ PostFollowUp(p) \/ FollowUpFails(p)

Settles(i, m) == Answer(i, m) \/ Unanswered(i, m)
GoOn(i)       == NextRound(i) \/ Abandon(i)

Next ==
  \/ Confirm \/ Expire \/ Stale
  \/ \E p \in Process :
       \/ Start(p) \/ View(p) \/ Look(p) \/ EndLook(p) \/ FollowUp(p)
       \/ Stop(p) \/ BeginSummary(p) \/ EndSummary(p) \/ Close(p) \/ Crash(p)
  \/ \E to \in Targets : AskFollowUp(to)
  \/ \E r \in Round : PassDeadline(r)
  \/ \E i \in RunId :
       \/ FinishRound(i) \/ GoOn(i) \/ NoticeEnd(i) \/ Beat(i)
       \/ \E m \in Member : BeginTurn(i, m) \/ Settles(i, m)

Spec == Init /\ [][Next]_vars

(* Wakes time out, runs go on, time passes, and some process looks at the  *)
(* discussion from time to time (the moderator waits until it concludes).  *)
Fairness ==
  /\ \A i \in RunId :
       /\ \A m \in Member : WF_vars(BeginTurn(i, m) \/ Settles(i, m))
       /\ WF_vars(FinishRound(i) \/ GoOn(i))
  /\ WF_vars(Stale)
  /\ \A r \in Round : WF_vars(PassDeadline(r))
  /\ \A p \in Process :
       WF_vars(View(p)) /\ WF_vars(EndLook(p) \/ (Start(p) /\ call[p].at # "idle") \/ FollowUp(p) \/ EndSummary(p))

FairSpec == Spec /\ Fairness

-----------------------------------------------------------------------------
(* Properties.                                                             *)

\* Every variable has its type; in particular no round is invited beyond the
\* response rounds and follow-ups a discussion may have.
TypeOK ==
  /\ disc \in Row
  /\ turns \in [Round -> [Member -> TurnStatus]]
  /\ due \in SUBSET Round
  /\ posts \in [Round -> [Member -> Nat]]
  /\ asked \in 0..MaxAsked
  /\ call \in [Process -> Call]
  /\ run \in [RunId -> Run]
  /\ held \in [Process -> RunId \cup {NoRun}]
  /\ gone \in SUBSET Process

\* The chat holds an answer of a member in a round exactly when its turn is
\* replied, and only once (runTurn posts in the transaction that settles the
\* turn, while another process may stop or fail it).
PostedWhenReplied ==
  \A r \in Round, m \in Member : posts[r][m] = IF turns[r][m] = "replied" THEN 1 ELSE 0

\* A settled turn keeps its outcome, whatever a late wake, a stop or a
\* reconciling process does afterwards.
SettledStays ==
  [][\A r \in Round, m \in Member :
       turns[r][m] \in {"replied", "failed", "ended"} => turns'[r][m] = turns[r][m]]_vars

\* Each follow-up the person wrote is carried out by one run, however many
\* calls try to, also when one of them gives it back because its post failed.
FollowUpOnce ==
  \A i, j \in RunId : i # j /\ run[i].req # NoRequest => run[i].req.no # run[j].req.no

\* The confirmation and each follow-up are launched at most once, by one
\* process, however many calls try to carry them out.
RunsOnce ==
  [][\A i \in RunId : run[i].at # "none" =>
       /\ run'[i].host = run[i].host
       /\ run[i].at = "over" => run'[i].at = "over"]_vars

\* Whoever is invited to respond replied in the round before, and a response
\* round has at least two members; checked where only response rounds follow
\* the first one.
ResponsesFollowReplies ==
  \A r \in Round \ {1} :
    LET invited == {m \in Member : turns[r][m] # "none"} IN
    /\ \A m \in invited : turns[r - 1][m] = "replied"
    /\ invited # {} => Cardinality(invited) >= 2

\* A process that looks at a discussion whose rounds it runs itself never fails
\* the turns it is waiting for, however late its heartbeat or their deadline
\* (reconcile skips the runs map).
OwnTurnsLeftAlone ==
  [][\A p \in Process, i \in RunId, m \in Member :
       LET r == run[i].round IN
       /\ View(p) \/ EndLook(p)
       /\ ActiveRun(i) /\ run[i].host = p /\ ~run[i].aborted
       /\ run[i].wake[m] = "awake"
       => turns'[r][m] = turns[r][m]]_vars

\* Every invited turn ends, whatever becomes of the process that runs it: again
\* and again no turn is open (none opens twice, SettledStays).
TurnsEnd ==
  []<>(\A r \in Round, m \in Member : turns[r][m] \notin Unsettled)

\* A discussion with a chat does not run for ever.
Concludes == disc.status = "running" /\ disc.attached ~> disc.status # "running"

-----------------------------------------------------------------------------
(* What the documents and comments say and the code does not keep.         *)

\* "Ends the discussion: no further turn starts" (group-discussion.js:349):
\* once the person stopped it, a discussion does not run again and invites
\* nobody.
StopIsFinal ==
  [][disc.stopped =>
       /\ disc'.status # "running"
       /\ \A r \in Round, m \in Member : turns[r][m] = "none" => turns'[r][m] = "none"]_vars
=============================================================================
