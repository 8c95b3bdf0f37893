------------------------ MODULE GroupDiscussion_proofs ------------------------
(***************************************************************************)
(* GroupDiscussion for every set of members and processes, any number of   *)
(* rounds and follow-ups and every event.                                  *)
(*                                                                         *)
(* First the turns and the posts: a turn that is settled keeps its         *)
(* outcome, and the chat holds one answer of every turn that is replied,   *)
(* none of the others (IInv).  A step either posts an answer, and then     *)
(* settles that open turn as replied (Answer), or posts nothing and moves  *)
(* turns only as the store lets it: open turns to any other status but     *)
(* replied, absent turns to invited or failed (Quiet).                     *)
(*                                                                         *)
(* Then the row, the calls and the runs (Inv): one process opens the chat; *)
(* a process about to post a follow-up has a counted number no run has and *)
(* a request nobody else has; a run that was not aborted is the one in the *)
(* map of its process.  The count that giving a follow-up back lowers is   *)
(* the highest and was never launched, so the rounds stay in bounds.       *)
(*                                                                         *)
(* Last, what is left of "no further turn starts" after a stop (AtRest).   *)
(***************************************************************************)
EXTENDS GroupDiscussion, TLAPS

Table == [Round -> [Member -> TurnStatus]]

\* The inductive invariant.
IInv ==
  /\ turns \in Table
  /\ posts \in [Round -> [Member -> Nat]]
  /\ PostedWhenReplied

\* Turns T move to U with no answer among them.
Moves(T, U) ==
  /\ U \in Table
  /\ \A r \in Round, m \in Member :
       \/ U[r][m] = T[r][m]
       \/ T[r][m] \in Unsettled /\ U[r][m] \in {"waiting", "failed", "ended"}
       \/ T[r][m] = "none" /\ U[r][m] \in {"invited", "failed"}

Quiet == Moves(turns, turns') /\ posts' = posts

\* The answer of a member in a round is posted, and the open turn becomes replied.
Posted(r, m) ==
  /\ r \in Round /\ m \in Member
  /\ turns[r][m] \in Unsettled
  /\ turns' \in Table
  /\ turns'[r][m] = "replied"
  /\ posts' \in [Round -> [Member -> Nat]]
  /\ posts'[r][m] = posts[r][m] + 1
  /\ \A q \in Round, n \in Member : q # r \/ n # m =>
       turns'[q][n] = turns[q][n] /\ posts'[q][n] = posts[q][n]

-----------------------------------------------------------------------------
(***************************************************************************)
(* What the store's operations do to the turns.                            *)
(***************************************************************************)

LEMMA MovesNothing ==
  ASSUME NEW T \in Table
  PROVE  Moves(T, T)
BY DEF Moves

LEMMA SettleMoves ==
  ASSUME NEW T \in Table, NEW r, NEW m \in Member, NEW s \in {"waiting", "failed", "ended"}
  PROVE  Moves(T, Settle(T, r, m, s))
<1>1. CASE r \notin Round
  BY <1>1 DEF Settle, Moves, Table
<1>2. CASE r \in Round
  BY <1>2 DEF Settle, Moves, Table, TurnStatus, Unsettled
<1> QED BY <1>1, <1>2

LEMMA SettleAllMoves ==
  ASSUME NEW T \in Table, NEW R, NEW s \in {"waiting", "failed", "ended"}
  PROVE  Moves(T, SettleAll(T, R, s))
BY DEF SettleAll, Moves, Table, TurnStatus, Unsettled

LEMMA InviteMoves ==
  ASSUME NEW T \in Table, NEW r, NEW targets, NEW woken
  PROVE  Moves(T, Invite(T, r, targets, woken))
<1>1. CASE r \notin Round
  BY <1>1 DEF Invite, Moves, Table
<1>2. CASE r \in Round
  BY <1>2 DEF Invite, Moves, Table, TurnStatus, Unsettled
<1> QED BY <1>1, <1>2

-----------------------------------------------------------------------------
(***************************************************************************)
(* The steps.                                                              *)
(***************************************************************************)

\* Only an answer that comes in time posts.
LEMMA AnswerStep ==
  ASSUME IInv, NEW i \in RunId, NEW m \in Member, Answer(i, m)
  PROVE  Quiet \/ \E r \in Round : Posted(r, m)
<1> DEFINE r == run[i].round
<1>0. turns \in Table /\ posts \in [Round -> [Member -> Nat]] /\ Post(r, m)
  BY DEF IInv, Answer
<1> HIDE DEF r
<1>1. CASE r \in Round /\ turns[r][m] \in Unsettled
  <2>1. turns' = [turns EXCEPT ![r][m] = "replied"] /\ posts' = [posts EXCEPT ![r][m] = @ + 1]
    BY <1>0, <1>1, Zenon DEF Post, Settle
  <2>2. turns' \in Table /\ turns'[r][m] = "replied"
    BY <1>0, <1>1, <2>1 DEF Table, TurnStatus
  <2>3. posts' \in [Round -> [Member -> Nat]] /\ posts'[r][m] = posts[r][m] + 1
    BY <1>0, <1>1, <2>1
  <2>4. \A q \in Round, n \in Member : q # r \/ n # m =>
          turns'[q][n] = turns[q][n] /\ posts'[q][n] = posts[q][n]
    BY <1>0, <1>1, <2>1 DEF Table
  <2> QED BY <1>1, <2>2, <2>3, <2>4 DEF Posted
<1>2. CASE r \in Round /\ turns[r][m] \notin Unsettled
  BY <1>0, <1>2, MovesNothing DEF Post, Settle, Quiet
<1>3. CASE r \notin Round
  <2>1. turns' = turns
    BY <1>0, <1>3 DEF Post, Settle, Table
  <2>2. [posts EXCEPT ![r][m] = @ + 1] = posts
    BY <1>0, <1>3
  <2>3. posts' = posts
    BY <1>0, <2>2, Zenon DEF Post
  <2> QED BY <1>0, <2>1, <2>3, MovesNothing DEF Quiet
<1> QED BY <1>1, <1>2, <1>3

\* reconcile fails open turns, all of them or those past their deadline.
LEMMA ReconcileMoves ==
  ASSUME IInv, NEW p, NEW stale
  PROVE  Moves(turns, ReconciledTurns(p, stale))
BY MovesNothing, SettleAllMoves DEF IInv, ReconciledTurns

LEMMA CallStep ==
  ASSUME IInv, NEW p \in Process,
         \/ Start(p) \/ View(p) \/ Look(p) \/ EndLook(p) \/ FollowUp(p)
         \/ Stop(p) \/ BeginSummary(p) \/ EndSummary(p) \/ Close(p) \/ Crash(p)
  PROVE  Quiet
<1>0. turns \in Table
  BY DEF IInv
<1>1. CASE UNCHANGED <<turns, posts>>
  BY <1>0, <1>1, MovesNothing DEF Quiet
<1>2. ASSUME NEW i, NEW r, NEW kind, NEW targets, NEW req, Launch(p, i, r, kind, targets, req)
      PROVE  Moves(turns, turns')
  BY <1>0, <1>2, InviteMoves DEF Launch
<1>3. CASE AskQuestion(p)
  BY <1>0, <1>2, <1>3, MovesNothing DEF AskQuestion, Quiet
<1>4. CASE PostFollowUp(p)
  BY <1>2, <1>4 DEF PostFollowUp, Quiet
<1>5. CASE View(p) \/ EndLook(p) \/ BeginFollowUp(p) \/ BeginSummary(p)
  BY <1>5, ReconcileMoves DEF View, EndLook, BeginFollowUp, BeginSummary, Quiet
<1>6. CASE Stop(p)
  BY <1>0, <1>6, SettleAllMoves DEF Stop, End, Quiet
<1>7. CASE BeginStart(p) \/ RefuseStart(p) \/ ClaimStart(p) \/ CreateRoom(p) \/ CreateFails(p) \/ QuestionFails(p)
  BY <1>1, <1>7 DEF BeginStart, RefuseStart, ClaimStart, CreateRoom, CreateFails, QuestionFails, store
<1>8. CASE TakeFollowUp(p) \/ RefuseFollowUp(p) \/ FollowUpFails(p)
  BY <1>1, <1>8 DEF TakeFollowUp, RefuseFollowUp, FollowUpFails, store
<1>9. CASE Look(p) \/ EndSummary(p) \/ Close(p) \/ Crash(p)
  BY <1>1, <1>9 DEF Look, EndSummary, Close, Crash, store
<1> QED BY <1>3, <1>4, <1>5, <1>6, <1>7, <1>8, <1>9 DEF Start, FollowUp

LEMMA RunStep ==
  ASSUME IInv, NEW i \in RunId,
         \/ FinishRound(i) \/ GoOn(i) \/ NoticeEnd(i) \/ Beat(i)
         \/ \E m \in Member : BeginTurn(i, m) \/ Unanswered(i, m)
  PROVE  Quiet
<1>0. turns \in Table
  BY DEF IInv
<1>1. CASE FinishRound(i) \/ NoticeEnd(i) \/ Beat(i)
  BY <1>0, <1>1, MovesNothing DEF FinishRound, NoticeEnd, Beat, store, Quiet
<1>2. CASE NextRound(i)
  BY <1>0, <1>2, InviteMoves DEF NextRound, Quiet
<1>3. CASE Abandon(i)
  BY <1>0, <1>3, SettleAllMoves DEF Abandon, Quiet
<1>4. ASSUME NEW m \in Member, BeginTurn(i, m) \/ Unanswered(i, m)
      PROVE  Quiet
  BY <1>0, <1>4, SettleMoves DEF BeginTurn, Unanswered, Quiet
<1> QED BY <1>1, <1>2, <1>3, <1>4 DEF GoOn

LEMMA Steps ==
  ASSUME IInv, [Next]_vars
  PROVE  Quiet \/ \E r \in Round, m \in Member : Posted(r, m)
<1>0. turns \in Table
  BY DEF IInv
<1>1. CASE UNCHANGED vars
  BY <1>0, <1>1, MovesNothing DEF vars, store, Quiet
<1>2. CASE Confirm \/ Expire \/ Stale
           \/ (\E to \in Targets : AskFollowUp(to)) \/ (\E r \in Round : PassDeadline(r))
  BY <1>0, <1>2, MovesNothing DEF Confirm, Expire, Stale, AskFollowUp, PassDeadline, Quiet
<1>3. CASE \E p \in Process :
             \/ Start(p) \/ View(p) \/ Look(p) \/ EndLook(p) \/ FollowUp(p)
             \/ Stop(p) \/ BeginSummary(p) \/ EndSummary(p) \/ Close(p) \/ Crash(p)
  BY <1>3, CallStep
<1>4. CASE \E i \in RunId :
             \/ FinishRound(i) \/ GoOn(i) \/ NoticeEnd(i) \/ Beat(i)
             \/ \E m \in Member : BeginTurn(i, m) \/ Unanswered(i, m)
  BY <1>4, RunStep
<1>5. CASE \E i \in RunId, m \in Member : Answer(i, m)
  BY <1>5, AnswerStep
<1> QED BY <1>1, <1>2, <1>3, <1>4, <1>5, Zenon DEF Next, Settles

-----------------------------------------------------------------------------
(***************************************************************************)
(* The theorems.                                                           *)
(***************************************************************************)

LEMMA InitHolds ==
  ASSUME Init
  PROVE  IInv
<1>1. turns \in Table /\ posts \in [Round -> [Member -> Nat]]
  BY DEF Init, Table, TurnStatus
<1> QED BY <1>1 DEF Init, IInv, PostedWhenReplied

LEMMA NextHolds ==
  ASSUME IInv, [Next]_vars
  PROVE  IInv'
<1>1. CASE Quiet
  <2>1. turns' \in Table /\ posts' \in [Round -> [Member -> Nat]]
    BY <1>1 DEF Quiet, Moves, IInv
  <2>2. ASSUME NEW r \in Round, NEW m \in Member
        PROVE  turns'[r][m] = "replied" <=> turns[r][m] = "replied"
    BY <1>1 DEF Quiet, Moves, Unsettled
  <2>3. PostedWhenReplied'
    BY <1>1, <2>2 DEF IInv, PostedWhenReplied, Quiet
  <2> QED BY <2>1, <2>3 DEF IInv
<1>2. ASSUME NEW r \in Round, NEW m \in Member, Posted(r, m)
      PROVE  IInv'
  <2>1. posts[r][m] = 0
    BY <1>2 DEF IInv, PostedWhenReplied, Posted, Unsettled
  <2>2. PostedWhenReplied'
    BY <1>2, <2>1 DEF IInv, PostedWhenReplied, Posted
  <2> QED BY <1>2, <2>2 DEF IInv, Posted
<1> QED BY <1>1, <1>2, Steps

\* The turns and posts keep the invariant above.
THEOREM Inductive == Spec => []IInv
<1> QED BY InitHolds, NextHolds, PTL DEF Spec

\* Each turn's answer is in the chat once if the turn is replied, and not at all
\* if it is not, whatever stops, views and late wakes happen between.
THEOREM AnswersArePostedOnce == Spec => []PostedWhenReplied
<1>1. IInv => PostedWhenReplied
  BY DEF IInv
<1> QED BY <1>1, Inductive, PTL

\* No later write changes the outcome of a settled turn.
THEOREM OutcomesStay == Spec => SettledStays
<1>1. ASSUME IInv, [Next]_vars
      PROVE  [\A r \in Round, m \in Member :
                turns[r][m] \in {"replied", "failed", "ended"} => turns'[r][m] = turns[r][m]]_vars
  <2>1. CASE Quiet
    BY <2>1 DEF Quiet, Moves, Unsettled
  <2>2. ASSUME NEW r \in Round, NEW m \in Member, Posted(r, m)
        PROVE  \A q \in Round, n \in Member :
                 turns[q][n] \in {"replied", "failed", "ended"} => turns'[q][n] = turns[q][n]
    BY <2>2 DEF Posted, Unsettled
  <2> QED BY <1>1, <2>1, <2>2, Steps
<1> QED BY <1>1, Inductive, PTL DEF Spec, SettledStays

-----------------------------------------------------------------------------
(***************************************************************************)
(* The second invariant: the row, the calls and the runs.                  *)
(***************************************************************************)

\* The rounds a discussion has without a follow-up.
Responses == 1 + ResponseRounds

Launched(i) == run[i].at # "none"
Opening     == {"creating", "asking"}

Types ==
  /\ disc \in Row
  /\ due \in SUBSET Round
  /\ asked \in 0..MaxAsked
  /\ call \in [Process -> Call]
  /\ run \in [RunId -> Run]
  /\ held \in [Process -> RunId \cup {NoRun}]
  /\ gone \in SUBSET Process

\* One process opens the chat, once.
StartOK ==
  /\ disc.attached => disc.status \notin {"none", "confirmed"}
  /\ \A i \in RunId : Launched(i) => disc.attached
  /\ \A p, q \in Process : call[p].at \in Opening /\ call[q].at \in Opening => p = q

\* What a process has in hand; the follow-up it posts is counted and not launched.
CallOK(p) ==
  /\ call[p].at = "creating" => ~disc.attached /\ disc.status \in {"running", "ended"}
  /\ call[p].at \in Opening => ~Launched(0)
  /\ call[p].at \in {"asking", "looking", "gathering", "posting"} => disc.attached
  /\ call[p].at = "gathering" => call[p].round <= disc.round
  /\ call[p].at = "posting" =>
       /\ call[p].number \in 1..disc.followUps
       /\ ~Launched(call[p].number)
       /\ call[p].round + 1 <= Responses + call[p].number
       /\ call[p].taken.no \in 1..asked
  /\ call[p].at # "posting" => call[p].taken = NoRequest

\* No two processes carry out the same follow-up.
NumbersOK ==
  \A p, q \in Process :
    /\ call[p].at = "posting" /\ call[q].at = "posting"
    /\ call[p].number = call[q].number \/ call[p].taken.no = call[q].taken.no
    => p = q

RunOK(i) ==
  /\ ~Launched(i) \/ i = 0 => run[i].req = NoRequest
  /\ run[i].req.no <= asked
  /\ Launched(i) =>
       /\ run[i].kind = IF i = 0 THEN "start" ELSE "follow_up"
       /\ run[i].host \in Process
       /\ i <= disc.followUps
       /\ 1 <= run[i].round /\ run[i].round <= Responses + i
       /\ i # 0 => run[i].req # NoRequest
  /\ run[i].at = "reading" => i = 0 /\ run[i].round < Responses

\* The rounds come from the start or from a follow-up that was launched.
RoundOK ==
  \/ disc.round <= Responses
  \/ \E i \in RunId : Launched(i) /\ disc.round <= Responses + i

\* A follow-up waits, or a process has it, or a run.
RequestsOK ==
  /\ disc.pending.no <= asked
  /\ FollowUpOnce
  /\ \A p \in Process : call[p].taken # NoRequest => call[p].taken.no # disc.pending.no
  /\ \A i \in RunId : run[i].req # NoRequest =>
       /\ run[i].req.no # disc.pending.no
       /\ \A p \in Process : run[i].req.no # call[p].taken.no

\* A run that was not aborted is the one in the map of its process.
HeldOK == \A i \in RunId : ActiveRun(i) /\ ~run[i].aborted => held[run[i].host] = i

Inv ==
  /\ Types
  /\ StartOK
  /\ \A p \in Process : CallOK(p)
  /\ NumbersOK
  /\ \A i \in RunId : RunOK(i)
  /\ RoundOK
  /\ RequestsOK
  /\ HeldOK

-----------------------------------------------------------------------------
(***************************************************************************)
(* Rows, calls and runs with some fields changed.                          *)
(***************************************************************************)

LEMMA Bounds ==
  /\ FollowUpLimit \in Nat /\ ResponseRounds \in Nat /\ MaxAsked \in Nat
  /\ Responses \in Nat /\ Responses >= 1
  /\ MaxRound \in Nat /\ MaxRound = Responses + FollowUpLimit
  /\ 0 \in RunId /\ NoRun \notin RunId
  /\ \A i : i \in RunId <=> i \in Nat /\ i <= FollowUpLimit
  /\ \A r : r \in Round <=> r \in Nat /\ 1 <= r /\ r <= MaxRound
BY DiscussionAssumption DEF Responses, MaxRound, RunId, Round, NoRun

LEMMA Requests ==
  /\ NoRequest \in Request /\ NoRequest.no = 0
  /\ \A r \in Request : /\ r.no \in 0..MaxAsked /\ r.to \in Targets \cup {{}}
                        /\ r # NoRequest => r.no \in 1..MaxAsked
  /\ \A n \in 1..MaxAsked, to \in Targets : [no |-> n, to |-> to] \in Request
BY Bounds DEF Request, NoRequest

LEMMA RowTypes ==
  ASSUME NEW d \in Row
  PROVE  /\ d.status \in Status /\ d.attached \in BOOLEAN /\ d.stopped \in BOOLEAN
         /\ d.round \in Nat /\ d.round <= MaxRound
         /\ d.followUps \in Nat /\ d.followUps <= FollowUpLimit
         /\ d.pending \in Request
BY Bounds DEF Row

LEMMA WithStatus ==
  ASSUME NEW d \in Row, NEW s \in Status
  PROVE  LET e == [d EXCEPT !.status = s] IN
         /\ e \in Row /\ e.status = s /\ e.attached = d.attached /\ e.round = d.round
         /\ e.followUps = d.followUps /\ e.pending = d.pending
BY DEF Row

LEMMA WithEnd ==
  ASSUME NEW d \in Row
  PROVE  LET e == [d EXCEPT !.status = "ended", !.stopped = TRUE] IN
         /\ e \in Row /\ e.status = "ended" /\ e.attached = d.attached /\ e.round = d.round
         /\ e.followUps = d.followUps /\ e.pending = d.pending
BY DEF Row, Status

LEMMA WithBeat ==
  ASSUME NEW d \in Row, NEW b \in {"none", "fresh", "stale"}
  PROVE  LET e == [d EXCEPT !.beat = b] IN
         /\ e \in Row /\ e.status = d.status /\ e.attached = d.attached /\ e.round = d.round
         /\ e.followUps = d.followUps /\ e.pending = d.pending
BY DEF Row

LEMMA WithRoom ==
  ASSUME NEW d \in Row
  PROVE  LET e == [d EXCEPT !.attached = TRUE] IN
         /\ e \in Row /\ e.status = d.status /\ e.attached /\ e.round = d.round
         /\ e.followUps = d.followUps /\ e.pending = d.pending
BY DEF Row

LEMMA WithPending ==
  ASSUME NEW d \in Row, NEW req \in Request
  PROVE  LET e == [d EXCEPT !.pending = req] IN
         /\ e \in Row /\ e.status = d.status /\ e.attached = d.attached /\ e.round = d.round
         /\ e.followUps = d.followUps /\ e.pending = req
BY DEF Row

LEMMA WithRound ==
  ASSUME NEW d \in Row, NEW r \in Round
  PROVE  LET e == RoundTo(d, r) IN
         /\ e \in Row /\ e.status = d.status /\ e.attached = d.attached
         /\ e.round = IF r > d.round THEN r ELSE d.round
         /\ e.followUps = d.followUps /\ e.pending = d.pending
BY Bounds DEF Row, RoundTo

Counted(d, n, req) ==
  LET e == [d EXCEPT !.pending = req, !.followUps = n] IN
  /\ e \in Row /\ e.status = d.status /\ e.attached = d.attached /\ e.round = d.round
  /\ e.followUps = n /\ e.pending = req

LEMMA CountedRow ==
  ASSUME NEW d \in Row, NEW n \in 0..FollowUpLimit, NEW req \in Request
  PROVE  Counted(d, n, req)
BY DEF Row, Counted

LEMMA WithTaken ==
  ASSUME NEW d \in Row, d.followUps < FollowUpLimit
  PROVE  LET e == Taken(d) IN
         /\ e \in Row /\ e.status = d.status /\ e.attached = d.attached /\ e.round = d.round
         /\ e.followUps = d.followUps + 1 /\ e.pending = NoRequest
<1>1. d.followUps + 1 \in 0..FollowUpLimit /\ NoRequest \in Request
  BY RowTypes, Bounds, Requests
<1>2. \A n \in 0..FollowUpLimit, req \in Request : Counted(d, n, req)
  BY CountedRow
<1>3. Taken(d) = [d EXCEPT !.pending = NoRequest, !.followUps = d.followUps + 1]
  BY DEF Taken
<1>4. Counted(d, d.followUps + 1, NoRequest)
  BY <1>1, <1>2
<1> QED BY <1>3, <1>4 DEF Counted

LEMMA WithCount ==
  ASSUME NEW d \in Row, NEW req \in Request, d.followUps >= 1
  PROVE  LET e == [d EXCEPT !.pending = req, !.followUps = @ - 1] IN
         /\ e \in Row /\ e.status = d.status /\ e.attached = d.attached /\ e.round = d.round
         /\ e.followUps = d.followUps - 1 /\ e.pending = req
<1>1. d.followUps - 1 \in 0..FollowUpLimit
  BY RowTypes, Bounds
<1>2. \A n \in 0..FollowUpLimit : Counted(d, n, req)
  BY CountedRow
<1>3. [d EXCEPT !.pending = req, !.followUps = @ - 1] = [d EXCEPT !.pending = req, !.followUps = d.followUps - 1]
  OBVIOUS
<1> QED BY <1>1, <1>2, <1>3 DEF Counted

LEMMA CallTypes ==
  ASSUME NEW c \in Call
  PROVE  /\ c.seen \in Status /\ c.round \in Nat /\ c.round <= MaxRound
         /\ c.to \in Targets \cup {{}} /\ c.taken \in Request
         /\ c.number \in Nat /\ c.number <= FollowUpLimit
BY Bounds DEF Call

LEMMA IdleCall == Idle \in Call /\ Idle.at = "idle" /\ Idle.taken = NoRequest
BY Bounds, Requests DEF Idle, Call, Status

LEMMA CallAt ==
  ASSUME NEW c \in Call,
         NEW at \in {"idle", "checking", "creating", "asking", "looking", "gathering", "posting", "summarizing"}
  PROVE  LET e == [c EXCEPT !.at = at] IN
         /\ e \in Call /\ e.at = at /\ e.round = c.round /\ e.taken = c.taken
         /\ e.number = c.number /\ e.seen = c.seen /\ e.to = c.to
BY DEF Call

LEMMA RunTypes ==
  ASSUME NEW e \in Run
  PROVE  /\ e.host \in Process \cup {NoProcess} /\ e.round \in Nat /\ e.round <= MaxRound
         /\ e.req \in Request /\ e.to \in SUBSET Member /\ e.aborted \in BOOLEAN
BY Bounds DEF Run

-----------------------------------------------------------------------------
(***************************************************************************)
(* Steps that launch nothing and take no follow-up.                        *)
(***************************************************************************)

\* The row keeps its chat, rounds and follow-ups; the status goes on.
SameRow(e) ==
  /\ e \in Row
  /\ e.attached = disc.attached
  /\ e.round = disc.round
  /\ e.followUps = disc.followUps
  /\ e.pending = disc.pending
  /\ \/ e.status = disc.status
     \/ e.status = "ended"
     \/ e.status = "concluded" /\ disc.attached
     \/ e.status = "confirmed" /\ disc.status = "none"

\* A call that has neither the chat nor a follow-up in hand.
Harmless(c) ==
  /\ c.at \in {"idle", "checking", "looking", "gathering", "summarizing"}
  /\ c.at \in {"looking", "gathering"} => disc'.attached
  /\ c.at = "gathering" => c.round <= disc'.round
  /\ c.taken = NoRequest

CallsKept ==
  /\ call' \in [Process -> Call]
  /\ \A p \in Process : call'[p] = call[p] \/ Harmless(call'[p])

RunsKept ==
  /\ run' \in [RunId -> Run]
  /\ \A i \in RunId :
       /\ run'[i].at = "none" <=> run[i].at = "none"
       /\ run'[i].host = run[i].host /\ run'[i].round = run[i].round
       /\ run'[i].kind = run[i].kind /\ run'[i].req = run[i].req
       /\ run'[i].at = "reading" =>
            run[i].at = "reading" \/ (run[i].kind # "follow_up" /\ run[i].round < Responses)

LEMMA Keeps ==
  ASSUME Inv, SameRow(disc'), CallsKept, RunsKept, HeldOK',
         held' \in [Process -> RunId \cup {NoRun}],
         asked' = asked, due' \in SUBSET Round, gone' \in SUBSET Process
  PROVE  Inv'
<1>0. Types /\ disc \in Row
  BY DEF Inv, Types
<1>1. Types'
  BY <1>0 DEF Types, SameRow, CallsKept, RunsKept
<1>2. \A i \in RunId : Launched(i)' <=> Launched(i)
  BY DEF RunsKept, Launched
<1>3. ASSUME NEW p \in Process PROVE CallOK(p)'
  <2>1. CASE call'[p] = call[p]
    <3>1. CallOK(p) /\ (disc.attached => disc.status \notin {"none", "confirmed"})
      BY DEF Inv, StartOK
    <3>2. call[p].at = "posting" => call[p].number \in RunId
      BY <3>1, <1>0, RowTypes, Bounds DEF CallOK
    <3> QED BY <1>2, <2>1, <3>1, <3>2, Bounds DEF CallOK, SameRow
  <2>2. CASE Harmless(call'[p])
    BY <2>2 DEF CallOK, Harmless, Opening
  <2> QED BY <2>1, <2>2 DEF CallsKept
<1>4. ASSUME NEW p \in Process
      PROVE  /\ call'[p].at \in Opening \cup {"posting"} => call'[p] = call[p]
             /\ call'[p].taken = NoRequest \/ call'[p].taken = call[p].taken
  BY DEF CallsKept, Harmless, Opening
<1>5. StartOK'
  BY <1>2, <1>4 DEF Inv, StartOK, SameRow
<1>6. NumbersOK'
  BY <1>4 DEF Inv, NumbersOK
<1>7. ASSUME NEW i \in RunId PROVE RunOK(i)'
  <2>1. RunOK(i)
    BY DEF Inv
  <2>2. run'[i].at = "reading" => Launched(i)
    BY <1>2 DEF Launched
  <2> QED BY <1>2, <2>1, <2>2 DEF RunOK, RunsKept, SameRow
<1>8. RoundOK'
  BY <1>2 DEF Inv, RoundOK, SameRow
<1>9. RequestsOK'
  <2>1. /\ disc'.pending = disc.pending /\ asked' = asked
        /\ \A i \in RunId : run'[i].req = run[i].req
    BY DEF SameRow, RunsKept
  <2>2. \A i \in RunId : run[i].req # NoRequest => run[i].req.no # 0
    BY <1>0, RunTypes, Requests DEF Types
  <2> QED BY <1>4, <2>1, <2>2, Requests DEF Inv, RequestsOK, FollowUpOnce
<1> QED BY <1>1, <1>3, <1>5, <1>6, <1>7, <1>8, <1>9 DEF Inv

LEMMA SameCalls ==
  ASSUME Types, UNCHANGED call
  PROVE  CallsKept
BY DEF Types, CallsKept

LEMMA CallMoves ==
  ASSUME Types, NEW p \in Process, NEW c \in Call, call' = [call EXCEPT ![p] = c]
  PROVE  /\ call' \in [Process -> Call] /\ call'[p] = c
         /\ \A q \in Process \ {p} : call'[q] = call[q]
BY DEF Types

LEMMA OneCall ==
  ASSUME Types, NEW p \in Process, NEW c \in Call, call' = [call EXCEPT ![p] = c], Harmless(c)
  PROVE  CallsKept
BY CallMoves DEF CallsKept

LEMMA ReturnsKeeps ==
  ASSUME Types, NEW p \in Process, Returns(p)
  PROVE  CallsKept
BY OneCall, IdleCall DEF Returns, Harmless

LEMMA SameRuns ==
  ASSUME Types, HeldOK, UNCHANGED <<run, held>>
  PROVE  RunsKept /\ HeldOK' /\ held' \in [Process -> RunId \cup {NoRun}]
<1>1. run' = run /\ held' = held
  OBVIOUS
<1>2. RunsKept
  BY <1>1 DEF Types, RunsKept
<1>3. HeldOK'
  BY <1>1 DEF HeldOK, ActiveRun
<1> QED BY <1>1, <1>2, <1>3 DEF Types

\* What reconcile makes of the row.
LEMMA ReconcileKeeps ==
  ASSUME Types, NEW p, NEW stale
  PROVE  SameRow(ReconciledDisc(p, stale))
<1>1. disc \in Row /\ "concluded" \in Status
  BY DEF Types, Status
<1>2. SameRow(disc)
  BY <1>1 DEF SameRow
<1>3. disc.attached => SameRow(Concluded(disc))
  BY <1>1, WithStatus DEF SameRow, Concluded
<1> QED BY <1>2, <1>3 DEF ReconciledDisc, Reconciles

LEMMA EndedRow ==
  ASSUME Types
  PROVE  /\ SameRow([disc EXCEPT !.status = "ended"])
         /\ SameRow([disc EXCEPT !.status = "ended", !.stopped = TRUE])
         /\ SameRow(disc)
<1>1. disc \in Row /\ "ended" \in Status
  BY DEF Types, Status
<1>2. SameRow([disc EXCEPT !.status = "ended"])
  BY <1>1, WithStatus DEF SameRow
<1>3. SameRow([disc EXCEPT !.status = "ended", !.stopped = TRUE])
  BY <1>1, WithEnd DEF SameRow
<1> QED BY <1>1, <1>2, <1>3 DEF SameRow

\* The runs are not touched.
LEMMA StoreStep ==
  ASSUME Inv, SameRow(disc'), CallsKept, UNCHANGED <<asked, run, held, gone>>,
         due' \in SUBSET Round
  PROVE  Inv'
<1>1. Types /\ HeldOK
  BY DEF Inv
<1>2. RunsKept /\ HeldOK' /\ held' \in [Process -> RunId \cup {NoRun}]
  BY <1>1, SameRuns
<1> QED BY <1>1, <1>2, Keeps DEF Types

LEMMA PersonStep ==
  ASSUME Inv, Confirm \/ Expire
  PROVE  Inv'
<1>0. Types /\ disc \in Row /\ "confirmed" \in Status /\ due \in SUBSET Round
  BY DEF Inv, Types, Status
<1>1. SameRow(disc')
  <2>1. CASE Confirm
    BY <1>0, <2>1, WithStatus DEF Confirm, SameRow
  <2>2. CASE Expire
    BY <1>0, <2>2, EndedRow DEF Expire
  <2> QED BY <2>1, <2>2
<1>2. CallsKept
  BY <1>0, SameCalls DEF Confirm, Expire
<1> QED BY <1>0, <1>1, <1>2, StoreStep DEF Confirm, Expire

LEMMA TimeStep ==
  ASSUME Inv, Stale \/ (\E r \in Round : PassDeadline(r)) \/ (\E i \in RunId : Beat(i))
  PROVE  Inv'
<1>0. Types /\ disc \in Row /\ due \in SUBSET Round
  BY DEF Inv, Types
<1>1. SameRow(disc')
  <2>1. SameRow([disc EXCEPT !.beat = "fresh"]) /\ SameRow([disc EXCEPT !.beat = "stale"])
    BY <1>0, WithBeat DEF SameRow
  <2> QED BY <1>0, <2>1, EndedRow DEF Stale, PassDeadline, Beat
<1>2. CallsKept
  BY <1>0, SameCalls DEF Stale, PassDeadline, Beat
<1>3. due' \in SUBSET Round /\ UNCHANGED <<asked, run, held, gone>>
  BY <1>0 DEF Stale, PassDeadline, Beat
<1> QED BY <1>1, <1>2, <1>3, StoreStep

\* A call that begins, waits or returns.
LEMMA BeginStartStep ==
  ASSUME Inv, NEW p \in Process, BeginStart(p)
  PROVE  Inv'
<1>0. Types /\ CallOK(p) /\ call[p] \in Call /\ call[p].at = "idle" /\ due \in SUBSET Round
  BY DEF Inv, Types, BeginStart, Calls, InCall
<1> DEFINE c == [call[p] EXCEPT !.at = "checking"]
<1>1. c \in Call /\ c.at = "checking" /\ c.taken = NoRequest
  BY <1>0, CallAt DEF CallOK
<1>2. call' = [call EXCEPT ![p] = c]
  BY Zenon DEF BeginStart
<1> HIDE DEF c
<1>3. CallsKept
  BY <1>0, <1>1, <1>2, OneCall DEF Harmless
<1>4. SameRow(disc')
  BY <1>0, EndedRow DEF BeginStart, store
<1> QED BY <1>0, <1>3, <1>4, StoreStep DEF BeginStart, store

LEMMA LookStep ==
  ASSUME Inv, NEW p \in Process, Look(p)
  PROVE  Inv'
<1>0. Types /\ CallOK(p) /\ call[p] \in Call /\ call[p].at = "idle" /\ due \in SUBSET Round
  BY DEF Inv, Types, Look, Calls, InCall
<1> DEFINE b == [call[p] EXCEPT !.at = "looking"]
           c == [b EXCEPT !.stale = StaleRun]
<1>1. b \in Call /\ b.at = "looking" /\ b.taken = NoRequest
  BY <1>0, CallAt DEF CallOK
<1>2. call' = [call EXCEPT ![p] = c]
  BY <1>0, Zenon DEF Look, Types
<1> HIDE DEF b
<1>3. StaleRun \in BOOLEAN
  BY DEF StaleRun
<1>4. c \in Call /\ c.at = "looking" /\ c.taken = NoRequest
  BY <1>1, <1>3 DEF Call
<1> HIDE DEF c
<1>5. SameRow(disc') /\ disc'.attached
  BY <1>0, EndedRow DEF Look, store
<1>6. CallsKept
  BY <1>0, <1>2, <1>4, <1>5, OneCall DEF Harmless
<1> QED BY <1>0, <1>5, <1>6, StoreStep DEF Look, store

\* Calls that return without a launch, and views.
LEMMA ReturnStep ==
  ASSUME Inv, NEW p \in Process,
         \/ RefuseStart(p) \/ QuestionFails(p) \/ EndLook(p) \/ RefuseFollowUp(p)
         \/ EndSummary(p) \/ View(p)
  PROVE  Inv'
<1>0. Types /\ due \in SUBSET Round
  BY DEF Inv, Types
<1>1. SameRow(disc')
  BY <1>0, EndedRow, ReconcileKeeps
     DEF RefuseStart, QuestionFails, EndLook, RefuseFollowUp, EndSummary, View, store
<1>2. CallsKept
  BY <1>0, ReturnsKeeps, SameCalls
     DEF RefuseStart, QuestionFails, EndLook, RefuseFollowUp, EndSummary, View
<1> QED BY <1>0, <1>1, <1>2, StoreStep
     DEF RefuseStart, QuestionFails, EndLook, RefuseFollowUp, EndSummary, View, store

LEMMA BeginSummaryStep ==
  ASSUME Inv, NEW p \in Process, BeginSummary(p)
  PROVE  Inv'
<1>0. Types /\ due \in SUBSET Round
  BY DEF Inv, Types
<1>1. SameRow(disc')
  BY <1>0, ReconcileKeeps DEF BeginSummary
<1> DEFINE c == [Idle EXCEPT !.at = "summarizing"]
<1>2. c \in Call /\ c.at = "summarizing" /\ c.taken = NoRequest
  BY IdleCall, CallAt
<1>3. call' = [call EXCEPT ![p] = c]
  BY Zenon DEF BeginSummary
<1> HIDE DEF c
<1>4. CallsKept
  BY <1>0, <1>2, <1>3, OneCall DEF Harmless
<1> QED BY <1>0, <1>1, <1>4, StoreStep DEF BeginSummary

LEMMA BeginFollowUpStep ==
  ASSUME Inv, NEW p \in Process, BeginFollowUp(p)
  PROVE  Inv'
<1>0. Types /\ due \in SUBSET Round /\ disc.attached
  BY DEF Inv, Types, CallOK, BeginFollowUp, InCall
<1>1. SameRow(disc') /\ disc' = ReconciledDisc(p, call[p].stale)
  BY <1>0, ReconcileKeeps DEF BeginFollowUp
<1> DEFINE a == [Idle EXCEPT !.at = "gathering"]
           b == [a EXCEPT !.round = disc'.round]
           c == [b EXCEPT !.to = disc'.pending.to]
<1>2. a \in Call /\ a.at = "gathering" /\ a.taken = NoRequest
  BY IdleCall, CallAt
<1>3. disc' \in Row /\ disc'.round \in 0..MaxRound /\ disc'.pending.to \in Targets \cup {{}}
  BY <1>1, RowTypes, Bounds, Requests DEF SameRow
<1>4. call' = [call EXCEPT ![p] = c]
  BY <1>1, Zenon DEF BeginFollowUp
<1> HIDE DEF a
<1>5. b \in Call /\ b.at = "gathering" /\ b.taken = NoRequest /\ b.round = disc'.round
  BY <1>2, <1>3 DEF Call
<1> HIDE DEF b
<1>6. c \in Call /\ c.at = "gathering" /\ c.taken = NoRequest /\ c.round = disc'.round
  BY <1>3, <1>5 DEF Call
<1> HIDE DEF c
<1>7. CallsKept
  <2>1. Harmless(c)
    BY <1>0, <1>1, <1>3, <1>6, RowTypes DEF Harmless, SameRow
  <2> QED BY <1>0, <1>4, <1>6, <2>1, OneCall
<1> QED BY <1>0, <1>1, <1>7, StoreStep DEF BeginFollowUp

-----------------------------------------------------------------------------
(***************************************************************************)
(* Runs that go on: a turn, the end of a round, an abort.                  *)
(***************************************************************************)

\* Run e as f: the same work, no further than before.
Onward(e, f) ==
  /\ f \in Run
  /\ f.at = "none" <=> e.at = "none"
  /\ f.host = e.host /\ f.round = e.round /\ f.kind = e.kind /\ f.req = e.req
  /\ f.at \in Active => e.at \in Active
  /\ e.aborted => f.aborted
  /\ f.at = "reading" =>
       \/ e.at = "reading" /\ f.to = e.to
       \/ /\ e.kind # "follow_up" /\ e.round < Responses
          /\ f.to = Repliers(e.round) /\ Cardinality(f.to) >= 2

RunsOn == run' \in [RunId -> Run] /\ \A i \in RunId : Onward(run[i], run'[i])

LEMMA Unmoved == \A e \in Run : Onward(e, e)
BY DEF Onward

LEMMA Aborts ==
  ASSUME NEW e \in Run
  PROVE  Onward(e, [e EXCEPT !.aborted = TRUE])
BY DEF Run, Onward

LEMMA Ends ==
  ASSUME NEW e \in Run, e.at \in Active
  PROVE  Onward(e, [e EXCEPT !.at = "over"])
BY DEF Run, Onward, Active

LEMMA Wakes ==
  ASSUME NEW e \in Run, NEW w \in [Member -> {"none", "todo", "awake", "doomed", "done"}]
  PROVE  Onward(e, [e EXCEPT !.wake = w])
BY DEF Run, Onward

LEMMA Reads ==
  ASSUME NEW e \in Run, e.at \in Active, e.kind # "follow_up", e.round < Responses,
         NEW to \in SUBSET Member, to = Repliers(e.round), Cardinality(to) >= 2
  PROVE  Onward(e, [e EXCEPT !.at = "reading", !.to = to])
BY DEF Run, Onward, Active

LEMMA OneRun ==
  ASSUME Types, NEW i \in RunId, NEW e, Onward(run[i], e), run' = [run EXCEPT ![i] = e]
  PROVE  RunsOn
<1>1. e \in Run /\ run \in [RunId -> Run]
  BY DEF Types, Onward
<1>2. run' \in [RunId -> Run] /\ run'[i] = e /\ \A j \in RunId \ {i} : run'[j] = run[j]
  BY <1>1
<1> QED BY <1>1, <1>2, Unmoved DEF RunsOn

\* The map keeps what is not over.
LEMMA RunsStep ==
  ASSUME Inv, RunsOn, SameRow(disc'), CallsKept, UNCHANGED <<asked, due>>,
         held' \in [Process -> RunId \cup {NoRun}], gone' \in SUBSET Process,
         \A i \in RunId : run'[i].at \in Active /\ held[run[i].host] = i => held'[run[i].host] = i
  PROVE  Inv'
<1>1. RunsKept
  BY DEF RunsOn, RunsKept, Onward
<1>2. HeldOK'
  <2>1. ASSUME NEW i \in RunId, run'[i].at \in Active, ~run'[i].aborted
        PROVE  held'[run'[i].host] = i
    <3>1. Onward(run[i], run'[i]) /\ HeldOK
      BY DEF RunsOn, Inv
    <3>2. held[run[i].host] = i /\ run'[i].host = run[i].host
      BY <2>1, <3>1 DEF Onward, HeldOK, ActiveRun
    <3> QED BY <2>1, <3>2
  <2> QED BY <2>1 DEF HeldOK, ActiveRun
<1> QED BY <1>1, <1>2, Keeps DEF Inv, Types

\* A turn begins, is answered or not.
LEMMA TurnStep ==
  ASSUME Inv, NEW i \in RunId, NEW m \in Member,
         BeginTurn(i, m) \/ Answer(i, m) \/ Unanswered(i, m)
  PROVE  Inv' /\ RunsOn
<1>0. Types /\ run[i] \in Run /\ run[i].wake \in [Member -> {"none", "todo", "awake", "doomed", "done"}]
  BY DEF Inv, Types, Run
<1>1. PICK x \in {"done", "doomed", "awake"} : run' = [run EXCEPT ![i].wake[m] = x]
  BY Zenon DEF BeginTurn, Answer, Unanswered
<1> DEFINE w == [run[i].wake EXCEPT ![m] = x]
           e == [run[i] EXCEPT !.wake = w]
<1>2. w \in [Member -> {"none", "todo", "awake", "doomed", "done"}]
  BY <1>0
<1>3. run' = [run EXCEPT ![i] = e]
  BY <1>1, Zenon
<1> HIDE DEF w
<1>4. Onward(run[i], e)
  BY <1>0, <1>2, Wakes
<1> HIDE DEF e
<1>5. RunsOn
  BY <1>0, <1>3, <1>4, OneRun
<1>6. UNCHANGED <<disc, asked, due, call, held, gone>>
  BY DEF BeginTurn, Answer, Unanswered
<1>7. SameRow(disc') /\ CallsKept
  BY <1>0, <1>6, EndedRow, SameCalls
<1> QED BY <1>0, <1>5, <1>6, <1>7, RunsStep DEF Types

\* The run leaves the map and is over.
LEMMA OverStep ==
  ASSUME Inv, NEW i \in RunId, ActiveRun(i), Over(i, run), SameRow(disc'), CallsKept,
         UNCHANGED <<asked, due, gone>>
  PROVE  Inv' /\ RunsOn
<1>0. Types /\ run \in [RunId -> Run] /\ run[i] \in Run /\ held \in [Process -> RunId \cup {NoRun}]
  BY DEF Inv, Types
<1> DEFINE e == [run[i] EXCEPT !.at = "over"]
<1>1. run' = [run EXCEPT ![i] = e]
  BY Zenon DEF Over
<1>2. Onward(run[i], e) /\ e.at = "over"
  BY <1>0, Ends DEF ActiveRun, Run
<1> HIDE DEF e
<1>3. RunsOn /\ run'[i].at = "over"
  BY <1>0, <1>1, <1>2, OneRun
<1>4. held' \in [Process -> RunId \cup {NoRun}]
  BY <1>0 DEF Over
<1>5. ASSUME NEW j \in RunId, run'[j].at \in Active, held[run[j].host] = j
      PROVE  held'[run[j].host] = j
  <2>1. j # i
    BY <1>3, <1>5 DEF Active
  <2>2. run[j].host \in Process
    <3>1. RunOK(j) /\ Onward(run[j], run'[j])
      BY <1>3 DEF Inv, RunsOn
    <3> QED BY <1>5, <3>1 DEF RunOK, Onward, Launched, Active
  <2> QED BY <1>5, <2>1, <2>2 DEF Over
<1> QED BY <1>0, <1>3, <1>4, <1>5, RunsStep DEF Types

LEMMA FinishRoundStep ==
  ASSUME Inv, NEW i \in RunId, FinishRound(i)
  PROVE  Inv' /\ RunsOn
<1>0. /\ Types /\ run[i] \in Run /\ run[i].at = "turns" /\ ActiveRun(i)
      /\ UNCHANGED <<asked, due, call, gone>>
  BY DEF Inv, Types, FinishRound, ActiveRun, Active
<1>1. CallsKept
  BY <1>0, SameCalls
<1>2. CASE GoesOn(i) /\ UNCHANGED <<disc, held>>
           /\ run' = [run EXCEPT ![i].at = "reading", ![i].to = Repliers(run[i].round)]
  <2> DEFINE e == [run[i] EXCEPT !.at = "reading", !.to = Repliers(run[i].round)]
  <2>1. Onward(run[i], e)
    <3>1. Repliers(run[i].round) \in SUBSET Member
      BY DEF Repliers
    <3>2. /\ run[i].kind # "follow_up" /\ run[i].round < Responses
          /\ Cardinality(Repliers(run[i].round)) >= 2
      BY <1>2 DEF GoesOn, Responses
    <3> QED BY <1>0, <3>1, <3>2, Reads DEF Active
  <2>2. run' = [run EXCEPT ![i] = e]
    BY <1>0, <1>2, Zenon DEF Types
  <2> HIDE DEF e
  <2>3. RunsOn
    BY <1>0, <2>1, <2>2, OneRun
  <2> QED BY <1>0, <1>1, <1>2, <2>3, EndedRow, RunsStep DEF Types
<1>3. CASE Over(i, run) /\ disc' = IF disc.status = "running" THEN Concluded(disc) ELSE disc
  <2>1. SameRow(disc')
    <3>1. disc.attached /\ disc \in Row /\ "concluded" \in Status
      BY <1>0 DEF Inv, StartOK, Launched, Types, Status
    <3>2. SameRow(Concluded(disc)) /\ SameRow(disc)
      BY <3>1, WithStatus DEF SameRow, Concluded
    <3> QED BY <1>3, <3>2
  <2> QED BY <1>0, <1>1, <1>3, <2>1, OverStep
<1> QED BY <1>2, <1>3 DEF FinishRound

LEMMA AbandonStep ==
  ASSUME Inv, NEW i \in RunId, Abandon(i)
  PROVE  Inv' /\ RunsOn
<1>0. /\ Types /\ run[i].at = "reading" /\ ActiveRun(i)
      /\ UNCHANGED <<asked, due, call, gone>>
  BY DEF Inv, Abandon, ActiveRun, Active
<1>1. SameRow(disc')
  <2>1. disc.attached /\ disc \in Row /\ "concluded" \in Status
    BY <1>0 DEF Inv, StartOK, Launched, Types, Status
  <2>2. SameRow(Concluded(disc)) /\ SameRow(disc)
    BY <2>1, WithStatus DEF SameRow, Concluded
  <2> QED BY <2>2 DEF Abandon
<1> QED BY <1>0, <1>1, SameCalls, OverStep DEF Abandon

\* Runs are aborted or lost: by a stop, the watcher, a close, a crash.
LEMMA NoticeEndStep ==
  ASSUME Inv, NEW i \in RunId, NoticeEnd(i)
  PROVE  Inv' /\ RunsOn
<1>0. Types /\ run[i] \in Run /\ UNCHANGED <<disc, due, asked, call, held, gone>>
  BY DEF Inv, Types, NoticeEnd, store
<1>1. run' = [run EXCEPT ![i] = [run[i] EXCEPT !.aborted = TRUE]]
  BY Zenon DEF NoticeEnd
<1>2. RunsOn
  BY <1>0, <1>1, Aborts, OneRun
<1> QED BY <1>0, <1>2, EndedRow, SameCalls, RunsStep DEF Types

LEMMA StopStep ==
  ASSUME Inv, NEW p \in Process, Stop(p)
  PROVE  Inv' /\ RunsOn
<1>0. Types /\ run \in [RunId -> Run] /\ UNCHANGED <<due, asked, call, held, gone>>
  BY DEF Inv, Types, Stop
<1>1. SameRow(disc')
  BY <1>0, EndedRow DEF Stop, End
<1>2. run' = [i \in RunId |-> IF i = held[p] /\ disc.attached THEN [run[i] EXCEPT !.aborted = TRUE] ELSE run[i]]
  BY Zenon DEF Stop, End
<1>3. \A i \in RunId : Onward(run[i], run'[i])
  BY <1>0, <1>2, Aborts, Unmoved
<1>4. run' \in [RunId -> Run]
  <2>1. \A i \in RunId : run'[i] \in Run
    BY <1>3 DEF Onward
  <2> QED BY <1>2, <2>1
<1> QED BY <1>0, <1>1, <1>3, <1>4, SameCalls, RunsStep DEF Types, RunsOn

LEMMA CloseStep ==
  ASSUME Inv, NEW p \in Process, Close(p)
  PROVE  Inv' /\ RunsOn
<1>0. /\ Types /\ run \in [RunId -> Run] /\ UNCHANGED <<disc, due, asked, call, held>>
      /\ gone' \in SUBSET Process
  BY DEF Inv, Types, Close, store
<1>2. run' = [i \in RunId |-> IF ActiveRun(i) /\ run[i].host = p THEN [run[i] EXCEPT !.aborted = TRUE] ELSE run[i]]
  BY Zenon DEF Close
<1>3. \A i \in RunId : Onward(run[i], run'[i])
  BY <1>0, <1>2, Aborts, Unmoved
<1>4. run' \in [RunId -> Run]
  <2>1. \A i \in RunId : run'[i] \in Run
    BY <1>3 DEF Onward
  <2> QED BY <1>2, <2>1
<1> QED BY <1>0, <1>3, <1>4, EndedRow, SameCalls, RunsStep DEF Types, RunsOn

LEMMA CrashStep ==
  ASSUME Inv, NEW p \in Process, Crash(p)
  PROVE  Inv' /\ RunsOn
<1>0. /\ Types /\ run \in [RunId -> Run] /\ UNCHANGED <<disc, due, asked>> /\ Returns(p)
      /\ gone' \in SUBSET Process
      /\ held' = [held EXCEPT ![p] = NoRun]
  BY DEF Inv, Types, Crash, store
<1>1. run' = [i \in RunId |-> IF ActiveRun(i) /\ run[i].host = p THEN [run[i] EXCEPT !.at = "over"] ELSE run[i]]
  BY Zenon DEF Crash
<1>2. \A i \in RunId : Onward(run[i], run'[i])
  BY <1>0, <1>1, Ends, Unmoved DEF ActiveRun
<1>3. run' \in [RunId -> Run]
  <2>1. \A i \in RunId : run'[i] \in Run
    BY <1>2 DEF Onward
  <2> QED BY <1>1, <2>1
<1>4. held' \in [Process -> RunId \cup {NoRun}]
  BY <1>0 DEF Types
<1>5. ASSUME NEW i \in RunId, run'[i].at \in Active, held[run[i].host] = i
      PROVE  held'[run[i].host] = i
  <2>1. run[i].host # p
    <3>1. [run[i] EXCEPT !.at = "over"].at = "over"
      BY <1>0 DEF Run
    <3>2. ActiveRun(i)
      BY <1>2, <1>5 DEF Onward, ActiveRun
    <3> QED BY <1>1, <1>5, <3>1, <3>2 DEF Active
  <2> QED BY <1>0, <1>5, <2>1 DEF Types
<1> QED BY <1>0, <1>2, <1>3, <1>4, <1>5, EndedRow, ReturnsKeeps, RunsStep DEF RunsOn

-----------------------------------------------------------------------------
(***************************************************************************)
(* Opening the chat.                                                       *)
(***************************************************************************)

\* What a process has in hand stays as it was.
LEMMA CallStays ==
  ASSUME Inv, Types', NEW q \in Process, call'[q] = call[q],
         disc.attached => disc'.attached,
         call[q].at = "creating" => ~disc'.attached /\ disc'.status \in {"running", "ended"},
         call[q].at \in Opening => ~Launched(0)',
         disc.round <= disc'.round,
         call[q].at = "posting" => call[q].number <= disc'.followUps /\ ~Launched(call[q].number)',
         asked <= asked'
  PROVE  CallOK(q)'
<1>1. CallOK(q)
  BY DEF Inv
<1>2. /\ disc.round \in Nat /\ disc'.round \in Nat /\ call[q].round \in Nat /\ call[q].number \in Nat
      /\ asked \in Nat /\ asked' \in Nat /\ call[q].taken.no \in Nat
      /\ disc.followUps \in Nat /\ disc'.followUps \in Nat
  BY RowTypes, CallTypes, Requests, Bounds DEF Inv, Types
<1> QED BY <1>1, <1>2, Bounds DEF CallOK

\* The runs and the follow-ups stay; a process starts or ends its part of the opening.
LEMMA OpeningStep ==
  ASSUME Inv, NEW p \in Process, NEW c \in Call, call' = [call EXCEPT ![p] = c],
         c.taken = NoRequest, c.at \in {"idle", "creating", "asking"},
         disc' \in Row, disc'.round = disc.round, disc'.followUps = disc.followUps,
         disc'.pending = disc.pending, UNCHANGED <<due, asked, run, held, gone>>,
         disc.attached => disc'.attached,
         disc'.attached => disc'.status \notin {"none", "confirmed"},
         c.at # "idle" => \/ call[p].at \in Opening
                          \/ \A q \in Process : call[q].at \notin Opening,
         c.at = "creating" => ~disc'.attached /\ disc'.status \in {"running", "ended"},
         c.at = "asking" => disc'.attached,
         c.at # "idle" => ~Launched(0),
         \A q \in Process \ {p} : call[q].at # "creating"
  PROVE  Inv'
<1>0. Types
  BY DEF Inv
<1>1. /\ call' \in [Process -> Call] /\ call'[p] = c
      /\ \A q \in Process \ {p} : call'[q] = call[q]
  BY <1>0, CallMoves
<1>2. Types'
  BY <1>0, <1>1 DEF Types
<1>3. \A i \in RunId : Launched(i)' <=> Launched(i)
  BY DEF Launched
<1>4. ASSUME NEW q \in Process PROVE CallOK(q)'
  <2>1. CASE q = p
    BY <1>1, <1>3, <2>1, Bounds DEF CallOK, Opening
  <2>2. CASE q # p
    <3>1. CallOK(q) /\ call'[q] = call[q]
      BY <1>1, <2>2 DEF Inv
    <3>2. call[q].at = "posting" => call[q].number \in RunId
      BY <1>0, <3>1, RowTypes, Bounds DEF CallOK, Types
    <3>3. disc.round <= disc'.round /\ asked <= asked'
      BY <1>0, RowTypes, Bounds DEF Types
    <3>4. call[q].at = "posting" => call[q].number <= disc'.followUps
      BY <1>0, <3>1, RowTypes DEF CallOK, Types
    <3> QED BY <1>2, <1>3, <2>2, <3>1, <3>2, <3>3, <3>4, Bounds, CallStays DEF CallOK
  <2> QED BY <2>1, <2>2
<1>5. StartOK'
  BY <1>1, <1>3 DEF Inv, StartOK, Opening
<1>6. NumbersOK'
  BY <1>1 DEF Inv, NumbersOK
<1>7. ASSUME NEW i \in RunId PROVE RunOK(i)'
  BY <1>3 DEF Inv, RunOK
<1>8. RoundOK' /\ HeldOK'
  BY <1>3 DEF Inv, RoundOK, HeldOK, ActiveRun
<1>9. RequestsOK'
  <2>1. \A i \in RunId : run[i].req # NoRequest => run[i].req.no # 0
    BY <1>0, RunTypes, Requests DEF Types
  <2> QED BY <1>1, <2>1, Requests DEF Inv, RequestsOK, FollowUpOnce
<1> QED BY <1>2, <1>4, <1>5, <1>6, <1>7, <1>8, <1>9 DEF Inv

LEMMA ClaimStartStep ==
  ASSUME Inv, NEW p \in Process, ClaimStart(p)
  PROVE  Inv'
<1>0. Types /\ disc \in Row /\ due \in SUBSET Round /\ StartOK /\ CallOK(p) /\ call[p] \in Call
  BY DEF Inv, Types
<1>1. CASE Claimable /\ disc' = [disc EXCEPT !.status = "running"]
           /\ call' = [call EXCEPT ![p].at = "creating"]
  <2> DEFINE c == [call[p] EXCEPT !.at = "creating"]
  <2>1. c \in Call /\ c.at = "creating" /\ c.taken = NoRequest
    BY <1>0, CallAt DEF CallOK, ClaimStart, InCall
  <2>2. call' = [call EXCEPT ![p] = c]
    BY <1>1, Zenon
  <2> HIDE DEF c
  <2>3. /\ disc' \in Row /\ disc'.round = disc.round /\ disc'.followUps = disc.followUps
        /\ disc'.pending = disc.pending /\ disc'.attached = disc.attached /\ disc'.status = "running"
    BY <1>0, <1>1, WithStatus DEF Status
  <2>4. ~disc.attached /\ ~Launched(0)
    BY <1>0, <1>1, Bounds DEF StartOK, Claimable
  <2>5. \A q \in Process : call[q].at \notin Opening
    BY <1>1, <2>4 DEF Inv, CallOK, Claimable, Opening
  <2>6. UNCHANGED <<due, asked, run, held, gone>>
    BY DEF ClaimStart
  <2> QED BY <2>1, <2>2, <2>3, <2>4, <2>5, <2>6, OpeningStep DEF Opening
<1>2. CASE Returns(p) /\ UNCHANGED disc
  BY <1>0, <1>2, EndedRow, ReturnsKeeps, StoreStep DEF ClaimStart
<1> QED BY <1>1, <1>2 DEF ClaimStart

LEMMA CreateRoomStep ==
  ASSUME Inv, NEW p \in Process, CreateRoom(p)
  PROVE  Inv'
<1>0. Types /\ disc \in Row /\ StartOK /\ CallOK(p) /\ call[p] \in Call /\ call[p].at = "creating"
  BY DEF Inv, Types, CreateRoom, InCall
<1> DEFINE b == [call[p] EXCEPT !.at = "asking"]
           c == [b EXCEPT !.seen = disc.status]
<1>1. b \in Call /\ b.at = "asking" /\ b.taken = NoRequest
  BY <1>0, CallAt DEF CallOK
<1>2. call' = [call EXCEPT ![p] = c]
  BY <1>0, Zenon DEF CreateRoom, Types
<1> HIDE DEF b
<1>3. c \in Call /\ c.at = "asking" /\ c.taken = NoRequest
  BY <1>0, <1>1, RowTypes DEF Call
<1> HIDE DEF c
<1>4. /\ disc' \in Row /\ disc'.round = disc.round /\ disc'.followUps = disc.followUps
      /\ disc'.pending = disc.pending /\ disc'.attached /\ disc'.status = disc.status
  BY <1>0, WithRoom DEF CreateRoom
<1>5. disc.status \in {"running", "ended"} /\ ~Launched(0) /\ call[p].at \in Opening
  BY <1>0 DEF CallOK, Opening
<1>6. \A q \in Process \ {p} : call[q].at # "creating"
  BY <1>0, <1>5 DEF StartOK, Opening
<1>7. UNCHANGED <<due, asked, run, held, gone>>
  BY DEF CreateRoom
<1> QED BY <1>2, <1>3, <1>4, <1>5, <1>6, <1>7, OpeningStep

LEMMA CreateFailsStep ==
  ASSUME Inv, NEW p \in Process, CreateFails(p)
  PROVE  Inv'
<1>0. Types /\ disc \in Row /\ StartOK /\ CallOK(p) /\ call[p].at = "creating"
  BY DEF Inv, Types, CreateFails, InCall
<1>1. /\ disc' \in Row /\ disc'.round = disc.round /\ disc'.followUps = disc.followUps
      /\ disc'.pending = disc.pending /\ disc'.attached = disc.attached
  BY <1>0, WithStatus DEF CreateFails, Status
<1>2. ~disc.attached
  BY <1>0 DEF CallOK
<1>3. \A q \in Process \ {p} : call[q].at # "creating"
  BY <1>0 DEF StartOK, Opening
<1>4. call' = [call EXCEPT ![p] = Idle] /\ UNCHANGED <<due, asked, run, held, gone>>
  BY DEF CreateFails, Returns
<1> QED BY <1>1, <1>2, <1>3, <1>4, IdleCall, OpeningStep

-----------------------------------------------------------------------------
(***************************************************************************)
(* Launching a run.                                                        *)
(***************************************************************************)

\* Where a launch takes the row and the runs.
LaunchedAs(p, i, r, kind, req) ==
  /\ disc' \in Row /\ disc'.status = "running" /\ disc'.attached = disc.attached
  /\ disc'.round = IF r > disc.round THEN r ELSE disc.round
  /\ disc'.followUps = disc.followUps /\ disc'.pending = disc.pending
  /\ run' \in [RunId -> Run]
  /\ run'[i].at = "turns" /\ run'[i].host = p /\ run'[i].round = r
  /\ run'[i].kind = kind /\ run'[i].req = req
  /\ \A j \in RunId \ {i} : /\ Onward(run[j], run'[j])
                            /\ j = held[p] => run'[j].aborted
  /\ held' \in [Process -> RunId \cup {NoRun}] /\ held'[p] = i
  /\ \A q \in Process \ {p} : held'[q] = held[q]

LEMMA LaunchEffect ==
  ASSUME Inv, NEW p \in Process, NEW i \in RunId, NEW r \in Round,
         NEW kind \in {"start", "follow_up"}, NEW targets \in SUBSET Member, NEW req \in Request,
         Launch(p, i, r, kind, targets, req)
  PROVE  LaunchedAs(p, i, r, kind, req)
<1>0. /\ Types /\ disc \in Row /\ run \in [RunId -> Run]
      /\ held \in [Process -> RunId \cup {NoRun}]
  BY DEF Inv, Types
<1>1. PICK woken \in SUBSET targets :
        /\ disc' = [RoundTo(disc, r) EXCEPT !.status = "running", !.beat = "fresh"]
        /\ run' = [j \in RunId |->
             IF j = i THEN [at |-> "turns", host |-> p, round |-> r, kind |-> kind, aborted |-> ~Alive(p),
                            req |-> req, to |-> targets,
                            wake |-> [m \in Member |-> IF m \in woken THEN "todo" ELSE "none"]]
             ELSE IF j = held[p] THEN [run[j] EXCEPT !.aborted = TRUE] ELSE run[j]]
  BY Zenon DEF Launch
<1>2. /\ disc' \in Row /\ disc'.status = "running" /\ disc'.attached = disc.attached
      /\ disc'.round = IF r > disc.round THEN r ELSE disc.round
      /\ disc'.followUps = disc.followUps /\ disc'.pending = disc.pending
  <2> DEFINE a == RoundTo(disc, r)
             b == [a EXCEPT !.status = "running"]
  <2>1. /\ a \in Row /\ a.attached = disc.attached
        /\ a.round = IF r > disc.round THEN r ELSE disc.round
        /\ a.followUps = disc.followUps /\ a.pending = disc.pending
    BY <1>0, WithRound
  <2>2. disc' = [b EXCEPT !.beat = "fresh"]
    BY <1>1, Zenon
  <2> HIDE DEF a
  <2>3. /\ b \in Row /\ b.status = "running" /\ b.attached = a.attached /\ b.round = a.round
        /\ b.followUps = a.followUps /\ b.pending = a.pending
    BY <2>1, WithStatus DEF Status
  <2> HIDE DEF b
  <2>4. /\ disc' \in Row /\ disc'.status = b.status /\ disc'.attached = b.attached
        /\ disc'.round = b.round /\ disc'.followUps = b.followUps /\ disc'.pending = b.pending
    BY <2>2, <2>3, WithBeat
  <2> QED BY <2>1, <2>3, <2>4
<1> DEFINE wake == [m \in Member |-> IF m \in woken THEN "todo" ELSE "none"]
           new == [at |-> "turns", host |-> p, round |-> r, kind |-> kind, aborted |-> ~Alive(p),
                   req |-> req, to |-> targets, wake |-> wake]
<1>3. /\ new \in Run /\ new.at = "turns" /\ new.host = p /\ new.round = r
      /\ new.kind = kind /\ new.req = req
  <2>1. wake \in [Member -> {"none", "todo", "awake", "doomed", "done"}]
    OBVIOUS
  <2> HIDE DEF wake
  <2>2. r \in 0..MaxRound /\ "turns" \in {"none", "over"} \cup Active
    BY Bounds DEF Active
  <2>3. PICK ab \in BOOLEAN : ab = ~Alive(p)
    OBVIOUS
  <2> QED BY <2>1, <2>2, <2>3 DEF Run
<1>4. run'[i] = new
  BY <1>1
<1>5. \A j \in RunId \ {i} :
        run'[j] = IF j = held[p] THEN [run[j] EXCEPT !.aborted = TRUE] ELSE run[j]
  BY <1>1
<1> HIDE DEF new
<1>6. \A j \in RunId \ {i} : /\ Onward(run[j], run'[j])
                             /\ j = held[p] => run'[j].aborted
  <2>1. \A j \in RunId : run[j] \in Run /\ [run[j] EXCEPT !.aborted = TRUE].aborted
    BY <1>0 DEF Run
  <2> QED BY <1>5, <2>1, Aborts, Unmoved
<1>7. run' \in [RunId -> Run]
  <2>1. \A j \in RunId : run'[j] \in Run
    BY <1>3, <1>4, <1>6 DEF Onward
  <2> QED BY <1>1, <2>1
<1>8. /\ held' \in [Process -> RunId \cup {NoRun}] /\ held'[p] = i
      /\ \A q \in Process \ {p} : held'[q] = held[q]
  BY <1>0 DEF Launch
<1> QED BY <1>2, <1>3, <1>4, <1>6, <1>7, <1>8 DEF LaunchedAs

\* The process that has a run in hand launches it.
LEMMA LaunchStep ==
  ASSUME Inv, NEW p \in Process, NEW i \in RunId, NEW r \in Round,
         NEW kind \in {"start", "follow_up"}, NEW targets \in SUBSET Member, NEW req \in Request,
         Launch(p, i, r, kind, targets, req), Returns(p), UNCHANGED <<due, asked, gone>>,
         kind = IF i = 0 THEN "start" ELSE "follow_up",
         disc.attached, ~Launched(i), i <= disc.followUps, r <= Responses + i,
         req = call[p].taken,
         i = 0 => call[p].at = "asking",
         i # 0 => call[p].at = "posting" /\ call[p].number = i
  PROVE  Inv'
<1>0. Types /\ StartOK /\ NumbersOK /\ RequestsOK /\ HeldOK /\ CallOK(p)
  BY DEF Inv
<1>a. LaunchedAs(p, i, r, kind, req)
  BY LaunchEffect
<1>1. /\ disc' \in Row /\ disc'.status = "running" /\ disc'.attached = disc.attached
      /\ disc'.round = IF r > disc.round THEN r ELSE disc.round
      /\ disc'.followUps = disc.followUps /\ disc'.pending = disc.pending
  BY <1>a DEF LaunchedAs
<1>2. /\ run' \in [RunId -> Run]
      /\ run'[i].at = "turns" /\ run'[i].host = p /\ run'[i].round = r
      /\ run'[i].kind = kind /\ run'[i].req = req
      /\ \A j \in RunId \ {i} : /\ Onward(run[j], run'[j])
                                /\ j = held[p] => run'[j].aborted
  BY <1>a DEF LaunchedAs
<1>3. /\ held' \in [Process -> RunId \cup {NoRun}] /\ held'[p] = i
      /\ \A q \in Process \ {p} : held'[q] = held[q]
  BY <1>a DEF LaunchedAs
<1>4. /\ call' \in [Process -> Call] /\ call'[p] = Idle
      /\ \A q \in Process \ {p} : call'[q] = call[q]
  BY <1>0, CallMoves, IdleCall DEF Returns
<1>5. Types'
  BY <1>0, <1>1, <1>2, <1>3, <1>4 DEF Types
<1>6. Launched(i)' /\ \A j \in RunId \ {i} : Launched(j)' <=> Launched(j)
  BY <1>2 DEF Launched, Onward
<1>7. disc.round \in Nat /\ r \in Nat /\ disc.round <= disc'.round
  BY <1>0, <1>1, RowTypes, Bounds DEF Types
<1>8. ASSUME NEW q \in Process PROVE CallOK(q)'
  <2>1. CASE q = p
    BY <1>4, <2>1, IdleCall DEF CallOK, Opening
  <2>2. CASE q # p
    <3>1. CallOK(q) /\ call'[q] = call[q]
      BY <1>4, <2>2 DEF Inv
    <3>2. call[q].at = "posting" => call[q].number \in RunId /\ call[q].number # 0
                                    /\ call[q].number <= disc'.followUps
      BY <1>0, <1>1, <3>1, RowTypes, Bounds DEF CallOK, Types
    <3>3. call[q].at = "posting" => ~Launched(call[q].number)'
      <4>1. call[q].at = "posting" => call[q].number # i
        BY <1>0, <2>2, <3>2 DEF NumbersOK
      <4> QED BY <1>6, <3>1, <3>2, <4>1 DEF CallOK
    <3>4. call[q].at \in Opening => ~Launched(0)'
      <4>1. call[q].at \in Opening => i # 0
        BY <1>0, <2>2 DEF StartOK, Opening
      <4> QED BY <1>6, <3>1, <4>1, Bounds DEF CallOK
    <3>5. call[q].at # "creating" /\ asked <= asked'
      BY <1>0, <3>1, Bounds DEF CallOK, Types
    <3> QED BY <1>1, <1>5, <1>7, <3>1, <3>2, <3>3, <3>4, <3>5, CallStays
  <2> QED BY <2>1, <2>2
<1>9. StartOK'
  BY <1>0, <1>1, <1>4, IdleCall DEF StartOK, Opening
<1>10. NumbersOK'
  BY <1>0, <1>4, IdleCall DEF NumbersOK
<1>11. req.no <= asked /\ (i = 0 => req = NoRequest) /\ (i # 0 => req # NoRequest)
  BY <1>0, Requests, Bounds DEF CallOK, Types
<1>12. ASSUME NEW j \in RunId PROVE RunOK(j)'
  <2>1. CASE j = i
    BY <1>1, <1>2, <1>6, <1>11, <2>1, Bounds DEF RunOK
  <2>2. CASE j # i
    <3>1. RunOK(j) /\ Onward(run[j], run'[j])
      BY <1>2, <2>2 DEF Inv
    <3>2. Launched(j)' <=> Launched(j)
      BY <1>6, <2>2
    <3>3. run[j].at = "reading" => Launched(j)
      BY DEF Launched
    <3>4. run'[j].at = "reading" => Launched(j)'
      BY DEF Launched
    <3> QED BY <1>1, <3>1, <3>2, <3>3, <3>4 DEF RunOK, Onward
  <2> QED BY <2>1, <2>2
<1>13. RoundOK'
  BY <1>1, <1>6, <1>7, Bounds DEF Inv, RoundOK
<1>14. HeldOK'
  <2>1. ASSUME NEW j \in RunId, run'[j].at \in Active, ~run'[j].aborted
        PROVE  held'[run'[j].host] = j
    <3>1. CASE j = i
      BY <1>2, <1>3, <3>1
    <3>2. CASE j # i
      <4>1. Onward(run[j], run'[j]) /\ j # held[p] /\ RunOK(j)
        BY <1>2, <2>1, <3>2 DEF Inv
      <4>2. held[run[j].host] = j /\ run'[j].host = run[j].host
        BY <1>0, <2>1, <4>1 DEF Onward, HeldOK, ActiveRun
      <4>3. run[j].host \in Process \ {p}
        BY <2>1, <4>1, <4>2 DEF RunOK, Onward, Launched, Active
      <4> QED BY <1>3, <4>2, <4>3
    <3> QED BY <3>1, <3>2
  <2> QED BY <2>1 DEF HeldOK, ActiveRun
<1>15. RequestsOK'
  <2>1. \A j \in RunId \ {i} : run'[j].req = run[j].req
    BY <1>2 DEF Onward
  <2>2. \A q \in Process \ {p} : call'[q].taken = call[q].taken
    BY <1>4
  <2>3. /\ call'[p].taken = NoRequest
        /\ \A j \in RunId : run[j].req \in Request
        /\ \A q \in Process : call[q].taken \in Request
    BY <1>0, <1>4, IdleCall, RunTypes, CallTypes DEF Types
  <2>4. \A q \in Process \ {p} : call[q].taken # NoRequest /\ req # NoRequest => call[q].taken.no # req.no
    <3>1. \A q \in Process : call[q].taken # NoRequest => call[q].at = "posting"
      BY DEF Inv, CallOK
    <3> QED BY <1>0, <3>1 DEF NumbersOK
  <2>5. \A j \in RunId \ {i} : run[j].req # NoRequest => run[j].req.no # req.no
    BY <1>0 DEF RequestsOK
  <2>6. req # NoRequest => req.no # disc.pending.no
    BY <1>0 DEF RequestsOK
  <2>7. FollowUpOnce'
    BY <1>0, <1>2, <2>1, <2>3, <2>5, Requests DEF RequestsOK, FollowUpOnce
  <2>8. ASSUME NEW j \in RunId, run'[j].req # NoRequest
        PROVE  /\ run'[j].req.no # disc'.pending.no
               /\ \A q \in Process : run'[j].req.no # call'[q].taken.no
    <3>1. run'[j].req.no # 0
      BY <1>2, <2>1, <2>3, <2>8, Requests
    <3>2. CASE j = i
      BY <1>1, <1>2, <2>2, <2>3, <2>4, <2>6, <2>8, <3>1, <3>2, Requests
    <3>3. CASE j # i
      BY <1>0, <1>1, <2>1, <2>2, <2>3, <2>8, <3>1, <3>3, Requests DEF RequestsOK
    <3> QED BY <3>2, <3>3
  <2>9. \A q \in Process : call'[q].taken # NoRequest => call'[q].taken.no # disc'.pending.no
    BY <1>0, <1>1, <2>2, <2>3 DEF RequestsOK
  <2> QED BY <1>0, <1>1, <2>7, <2>8, <2>9 DEF RequestsOK
<1> QED BY <1>5, <1>8, <1>9, <1>10, <1>12, <1>13, <1>14, <1>15 DEF Inv

LEMMA AskQuestionStep ==
  ASSUME Inv, NEW p \in Process, AskQuestion(p)
  PROVE  Inv'
<1>0. Types /\ CallOK(p) /\ call[p].at = "asking" /\ due \in SUBSET Round
  BY DEF Inv, Types, AskQuestion, InCall
<1>1. CASE Launch(p, 0, 1, "start", Member, NoRequest)
  <2>1. disc.attached /\ ~Launched(0) /\ call[p].taken = NoRequest
    BY <1>0 DEF CallOK, Opening
  <2>2. /\ 0 \in RunId /\ 1 \in Round /\ 1 <= Responses + 0 /\ Member \in SUBSET Member
        /\ NoRequest \in Request /\ 0 <= disc.followUps
    BY <1>0, Bounds, Requests, RowTypes DEF Types
  <2>3. Returns(p) /\ UNCHANGED <<due, asked, gone>>
    BY DEF AskQuestion
  <2> QED BY <1>0, <1>1, <2>1, <2>2, <2>3, LaunchStep
<1>2. CASE UNCHANGED <<disc, turns, run, held>>
  BY <1>0, <1>2, EndedRow, ReturnsKeeps, StoreStep DEF AskQuestion
<1> QED BY <1>1, <1>2 DEF AskQuestion

\* The follow-up a process posts is numbered as it was counted.
LEMMA PostedRun ==
  ASSUME Inv, NEW p \in Process, PostFollowUp(p)
  PROVE  LET i == call[p].number
             r == call[p].round + 1
         IN /\ call[p].at = "posting" /\ disc.attached
            /\ i \in RunId /\ i # 0 /\ i <= disc.followUps /\ ~Launched(i)
            /\ r \in Round /\ r <= Responses + i
            /\ call[p].to \in SUBSET Member /\ call[p].taken \in Request
            /\ Launch(p, i, r, "follow_up", call[p].to, call[p].taken)
            /\ LaunchedAs(p, i, r, "follow_up", call[p].taken)
<1>0. Types /\ CallOK(p) /\ call[p] \in Call /\ call[p].at = "posting"
  BY DEF Inv, Types, PostFollowUp, InCall
<1> DEFINE i == call[p].number
           r == call[p].round + 1
<1>1. /\ i \in Nat /\ i >= 1 /\ i <= disc.followUps /\ ~Launched(i)
      /\ r \in Nat /\ r >= 1 /\ r <= Responses + i /\ disc.attached
  BY <1>0, CallTypes, RowTypes, Bounds DEF CallOK, Types
<1>2. i \in RunId /\ r \in Round
  BY <1>0, <1>1, RowTypes, Bounds DEF Types
<1>3. call[p].to \in SUBSET Member /\ call[p].taken \in Request
  BY <1>0, CallTypes DEF Targets
<1>4. Launch(p, i, r, "follow_up", call[p].to, call[p].taken)
  BY Zenon DEF PostFollowUp
<1> HIDE DEF i, r
<1>5. i # 0
  BY <1>1
<1>6. LaunchedAs(p, i, r, "follow_up", call[p].taken)
  BY <1>2, <1>3, <1>4, LaunchEffect
<1> QED BY <1>0, <1>1, <1>2, <1>3, <1>4, <1>5, <1>6 DEF i, r

LEMMA PostFollowUpStep ==
  ASSUME Inv, NEW p \in Process, PostFollowUp(p)
  PROVE  Inv'
<1> DEFINE i == call[p].number
           r == call[p].round + 1
<1>1. /\ call[p].at = "posting" /\ disc.attached
      /\ i \in RunId /\ i # 0 /\ i <= disc.followUps /\ ~Launched(i)
      /\ r \in Round /\ r <= Responses + i
      /\ call[p].to \in SUBSET Member /\ call[p].taken \in Request
      /\ Launch(p, i, r, "follow_up", call[p].to, call[p].taken)
  BY PostedRun
<1>2. Returns(p) /\ UNCHANGED <<due, asked, gone>>
  BY DEF PostFollowUp
<1>3. i = call[p].number
  OBVIOUS
<1> HIDE DEF i, r
<1> QED BY <1>1, <1>2, <1>3, LaunchStep

-----------------------------------------------------------------------------
(***************************************************************************)
(* Follow-ups: written, taken, given back.                                 *)
(***************************************************************************)

\* The runs stay; the follow-up that waits and the count change.
LEMMA PendingStep ==
  ASSUME Inv, NEW p \in Process, disc' \in Row, disc'.round = disc.round,
         disc'.attached = disc.attached, disc'.status = disc.status,
         UNCHANGED <<due, run, held, gone>>, asked' \in 0..MaxAsked, asked <= asked',
         call' \in [Process -> Call], \A q \in Process \ {p} : call'[q] = call[q],
         call'[p] # call[p] => call[p].at # "creating" /\ call'[p].at \notin Opening,
         CallOK(p)', NumbersOK', RequestsOK',
         \A q \in Process \ {p} : call[q].at = "posting" => call[q].number <= disc'.followUps,
         \A i \in RunId : Launched(i) => i <= disc'.followUps
  PROVE  Inv'
<1>0. Types
  BY DEF Inv
<1>1. Types'
  BY <1>0 DEF Types
<1>2. \A i \in RunId : Launched(i)' <=> Launched(i)
  BY DEF Launched
<1>3. ASSUME NEW q \in Process PROVE CallOK(q)'
  <2>1. CASE q = p
    BY <2>1
  <2>2. CASE q # p
    <3>1. CallOK(q) /\ call'[q] = call[q]
      BY <2>2 DEF Inv
    <3>2. call[q].at = "posting" => call[q].number \in RunId
      BY <1>0, <3>1, RowTypes, Bounds DEF CallOK, Types
    <3>3. disc.round <= disc'.round
      BY <1>0, RowTypes DEF Types
    <3> QED BY <1>1, <1>2, <2>2, <3>1, <3>2, <3>3, Bounds, CallStays DEF CallOK
  <2> QED BY <2>1, <2>2
<1>4. StartOK'
  <2>1. \A q \in Process : call'[q].at \in Opening => call[q].at \in Opening
    OBVIOUS
  <2> QED BY <1>2, <2>1 DEF Inv, StartOK
<1>5. ASSUME NEW i \in RunId PROVE RunOK(i)'
  <2>1. RunOK(i) /\ run[i].req.no \in Nat /\ asked \in Nat /\ asked' \in Nat
    BY <1>0, RunTypes, Requests, Bounds DEF Inv, Types
  <2> QED BY <1>2, <2>1 DEF RunOK
<1>6. RoundOK' /\ HeldOK'
  BY <1>2 DEF Inv, RoundOK, HeldOK, ActiveRun
<1> QED BY <1>1, <1>3, <1>4, <1>5, <1>6 DEF Inv

\* The numbers of the follow-ups that wait, are in hand or run.
LEMMA RequestNumbers ==
  ASSUME Inv
  PROVE  /\ asked \in Nat /\ asked <= MaxAsked
         /\ disc.pending \in Request /\ disc.pending.no \in Nat /\ disc.pending.no <= asked
         /\ \A q \in Process : /\ call[q].taken \in Request /\ call[q].taken.no \in Nat
                               /\ call[q].taken.no <= asked
                               /\ call[q].taken # NoRequest => call[q].at = "posting" /\ call[q].taken.no # 0
         /\ \A i \in RunId : /\ run[i].req \in Request /\ run[i].req.no \in Nat
                             /\ run[i].req.no <= asked
                             /\ run[i].req # NoRequest => run[i].req.no # 0
<1>0. Types /\ asked \in Nat /\ asked <= MaxAsked
  BY Bounds DEF Inv, Types
<1>1. disc.pending \in Request /\ disc.pending.no \in Nat /\ disc.pending.no <= asked
  BY <1>0, RowTypes, Requests, Bounds DEF Inv, Types, RequestsOK
<1>2. ASSUME NEW q \in Process
      PROVE  /\ call[q].taken \in Request /\ call[q].taken.no \in Nat
             /\ call[q].taken.no <= asked
             /\ call[q].taken # NoRequest => call[q].at = "posting" /\ call[q].taken.no # 0
  <2>1. call[q].taken \in Request /\ CallOK(q)
    BY <1>0, CallTypes DEF Types, Inv
  <2> QED BY <1>0, <2>1, Requests, Bounds DEF CallOK
<1>3. ASSUME NEW i \in RunId
      PROVE  /\ run[i].req \in Request /\ run[i].req.no \in Nat
             /\ run[i].req.no <= asked
             /\ run[i].req # NoRequest => run[i].req.no # 0
  <2>1. run[i].req \in Request /\ RunOK(i)
    BY <1>0, RunTypes DEF Types, Inv
  <2> QED BY <1>0, <2>1, Requests, Bounds DEF RunOK
<1> QED BY <1>0, <1>1, <1>2, <1>3

LEMMA AskFollowUpStep ==
  ASSUME Inv, NEW to \in Targets, AskFollowUp(to)
  PROVE  Inv'
<1>0. Types /\ disc \in Row /\ RequestsOK /\ NumbersOK
  BY DEF Inv, Types
<1> DEFINE req == [no |-> asked + 1, to |-> to]
<1>1. asked' = asked + 1 /\ asked \in Nat /\ asked' \in 0..MaxAsked /\ asked + 1 \in 1..MaxAsked
  BY <1>0, Bounds, RequestNumbers DEF AskFollowUp
<1>2. req \in Request /\ req.no = asked + 1
  BY <1>1, Requests
<1>3. disc' = [disc EXCEPT !.pending = req]
  BY Zenon DEF AskFollowUp
<1> HIDE DEF req
<1>4. /\ disc' \in Row /\ disc'.status = disc.status /\ disc'.attached = disc.attached
      /\ disc'.round = disc.round /\ disc'.followUps = disc.followUps /\ disc'.pending = req
  BY <1>0, <1>2, <1>3, WithPending
<1>5. UNCHANGED <<due, call, run, held, gone>>
  BY DEF AskFollowUp
<1>6. RequestsOK'
  <2>1. /\ \A q \in Process : call[q].taken.no # req.no
        /\ \A i \in RunId : run[i].req.no # req.no
    BY <1>1, <1>2, RequestNumbers
  <2> QED BY <1>0, <1>1, <1>2, <1>4, <1>5, <2>1 DEF RequestsOK, FollowUpOnce
<1>7. NumbersOK'
  BY <1>0, <1>5 DEF NumbersOK
<1>8. \A q \in Process : call[q].at = "posting" => call[q].number <= disc'.followUps
  BY <1>0, <1>4, RowTypes DEF Inv, CallOK
<1>9. \A i \in RunId : Launched(i) => i <= disc'.followUps
  BY <1>4 DEF Inv, RunOK
<1>10. ASSUME NEW q \in Process PROVE CallOK(q)'
  <2>1. CallOK(q) /\ call' = call /\ run' = run /\ call[q].taken.no \in Nat
    BY <1>5, RequestNumbers DEF Inv
  <2> QED BY <1>1, <1>4, <2>1 DEF CallOK, Launched
<1>11. CASE Process = {}
  <2>1. Types'
    BY <1>0, <1>1, <1>4, <1>5 DEF Types
  <2>2. RoundOK' /\ HeldOK' /\ StartOK'
    BY <1>4, <1>5 DEF Inv, RoundOK, HeldOK, ActiveRun, Launched, StartOK
  <2>3. \A i \in RunId : RunOK(i)'
    BY <1>1, <1>4, <1>5, RequestNumbers DEF Inv, RunOK, Launched
  <2> QED BY <1>6, <1>7, <1>10, <2>1, <2>2, <2>3 DEF Inv
<1>12. ASSUME NEW p \in Process PROVE Inv'
  <2>1. call' \in [Process -> Call] /\ call' = call /\ asked <= asked'
    BY <1>0, <1>1, <1>5 DEF Types
  <2> QED BY <1>1, <1>4, <1>5, <1>6, <1>7, <1>8, <1>9, <1>10, <2>1, PendingStep
<1> QED BY <1>11, <1>12

LEMMA TakeFollowUpStep ==
  ASSUME Inv, NEW p \in Process, TakeFollowUp(p)
  PROVE  Inv'
<1>0. /\ Types /\ disc \in Row /\ RequestsOK /\ NumbersOK /\ CallOK(p) /\ call[p] \in Call
      /\ call[p].at = "gathering" /\ due \in SUBSET Round
  BY DEF Inv, Types, TakeFollowUp, InCall
<1>1. CASE ~Takeable
  BY <1>0, <1>1, EndedRow, ReturnsKeeps, StoreStep DEF TakeFollowUp
<1>2. CASE Takeable
  <2> DEFINE a == [call[p] EXCEPT !.at = "posting"]
             b == [a EXCEPT !.taken = disc.pending]
             c == [b EXCEPT !.number = disc.followUps + 1]
  <2>1. /\ disc' = Taken(disc) /\ disc.pending # NoRequest /\ disc.followUps < FollowUpLimit
        /\ UNCHANGED <<due, asked, run, held, gone>>
    BY <1>2 DEF TakeFollowUp, Takeable
  <2>2. /\ disc' \in Row /\ disc'.status = disc.status /\ disc'.attached = disc.attached
        /\ disc'.round = disc.round
        /\ disc'.followUps = disc.followUps + 1 /\ disc'.pending = NoRequest
    BY <1>0, <2>1, WithTaken
  <2>3. a \in Call /\ a.at = "posting" /\ a.round = call[p].round
    BY <1>0, CallAt
  <2>4. call' = [call EXCEPT ![p] = c]
    BY <1>0, <1>2, Zenon DEF TakeFollowUp, Types
  <2> HIDE DEF a
  <2>5. b \in Call /\ b.at = "posting" /\ b.round = call[p].round /\ b.taken = disc.pending
    BY <2>3, RequestNumbers DEF Call
  <2> HIDE DEF b
  <2>6. disc.followUps + 1 \in 0..FollowUpLimit /\ disc.followUps \in Nat
    BY <1>0, <2>1, RowTypes, Bounds
  <2>7. /\ c \in Call /\ c.at = "posting" /\ c.round = call[p].round /\ c.taken = disc.pending
        /\ c.number = disc.followUps + 1
    BY <2>5, <2>6 DEF Call
  <2> HIDE DEF c
  <2>8. /\ call' \in [Process -> Call] /\ call'[p] = c
        /\ \A q \in Process \ {p} : call'[q] = call[q]
    BY <1>0, <2>4, <2>7, CallMoves
  <2>9. \A i \in RunId : Launched(i) => i <= disc.followUps
    BY DEF Inv, RunOK
  <2>10. \A q \in Process : call[q].at = "posting" => call[q].number \in 1..disc.followUps
    BY DEF Inv, CallOK
  <2>11. CallOK(p)'
    <3>1. disc.round <= Responses + disc.followUps
      BY <1>0, <2>9, RowTypes, Bounds DEF Inv, RoundOK
    <3>2. call[p].round <= disc.round /\ call[p].round \in Nat /\ disc.round \in Nat /\ disc.attached
      BY <1>0, CallTypes, RowTypes DEF CallOK
    <3>3. c.round + 1 <= Responses + c.number
      BY <2>6, <2>7, <3>1, <3>2, Bounds
    <3>4. c.taken.no \in 1..asked'
      BY <2>1, <2>7, RequestNumbers, Requests
    <3>5. run'[c.number].at = "none"
      <4>1. ~Launched(c.number)
        BY <2>6, <2>7, <2>9, Bounds
      <4> QED BY <2>1, <4>1 DEF Launched
    <3>6. c.number \in 1..disc'.followUps
      BY <2>2, <2>6, <2>7
    <3> QED BY <2>2, <2>7, <2>8, <3>2, <3>3, <3>4, <3>5, <3>6 DEF CallOK, Opening, Launched
  <2>12. NumbersOK'
    <3>1. \A q \in Process : call[q].at = "posting" =>
            call[q].number # c.number /\ call[q].taken.no # c.taken.no
      <4>1. \A q \in Process : call[q].at = "posting" => call[q].taken # NoRequest
        BY Requests DEF Inv, CallOK
      <4>2. \A q \in Process : call[q].at = "posting" => call[q].taken.no # disc.pending.no
        BY <1>0, <4>1 DEF RequestsOK
      <4> QED BY <2>6, <2>7, <2>10, <4>2
    <3> QED BY <1>0, <2>8, <3>1 DEF NumbersOK
  <2>13. RequestsOK'
    <3>1. c.taken = disc.pending /\ disc'.pending.no = 0 /\ asked' = asked /\ run' = run
      BY <2>1, <2>2, <2>7, Requests
    <3>2. \A q \in Process : call'[q].taken # NoRequest => call'[q].taken.no # 0
      BY <2>1, <2>7, <2>8, RequestNumbers, Requests
    <3> QED BY <1>0, <2>2, <2>8, <3>1, <3>2, RequestNumbers DEF RequestsOK, FollowUpOnce
  <2>14. \A q \in Process \ {p} : call[q].at = "posting" => call[q].number <= disc'.followUps
    BY <2>2, <2>6, <2>10
  <2>15. \A i \in RunId : Launched(i) => i <= disc'.followUps
    BY <2>2, <2>6, <2>9, Bounds
  <2>16. call[p].at # "creating" /\ call'[p].at \notin Opening
    BY <1>0, <2>7, <2>8 DEF Opening
  <2>17. asked' \in 0..MaxAsked /\ asked <= asked'
    BY <1>0, <2>1, Bounds DEF Types
  <2> QED BY <2>1, <2>2, <2>8, <2>11, <2>12, <2>13, <2>14, <2>15, <2>16, <2>17, PendingStep
<1> QED BY <1>1, <1>2

LEMMA FollowUpFailsStep ==
  ASSUME Inv, NEW p \in Process, FollowUpFails(p)
  PROVE  Inv'
<1>0. /\ Types /\ disc \in Row /\ RequestsOK /\ NumbersOK /\ CallOK(p) /\ call[p] \in Call
      /\ call[p].at = "posting" /\ due \in SUBSET Round
      /\ Returns(p) /\ UNCHANGED <<due, asked, run, held, gone>>
  BY DEF Inv, Types, FollowUpFails, InCall
<1>1. CASE disc' = disc
  BY <1>0, <1>1, EndedRow, ReturnsKeeps, StoreStep
<1>2. CASE /\ disc.followUps = call[p].number
           /\ disc' = [disc EXCEPT !.pending = call[p].taken, !.followUps = @ - 1]
  <2>1. /\ call[p].number \in 1..disc.followUps /\ ~Launched(call[p].number)
        /\ call[p].taken \in Request /\ call[p].taken.no \in 1..asked /\ disc.followUps \in Nat
    BY <1>0, CallTypes, RowTypes DEF CallOK
  <2>2. /\ disc' \in Row /\ disc'.status = disc.status /\ disc'.attached = disc.attached
        /\ disc'.round = disc.round
        /\ disc'.followUps = disc.followUps - 1 /\ disc'.pending = call[p].taken
    <3>1. call[p].taken \in Request /\ disc.followUps >= 1 /\ disc \in Row
      BY <1>0, <2>1
    <3> QED BY <1>2, <3>1, WithCount
  <2>3. /\ call' \in [Process -> Call] /\ call'[p] = Idle
        /\ \A q \in Process \ {p} : call'[q] = call[q]
    BY <1>0, CallMoves, IdleCall DEF Returns
  <2>4. CallOK(p)'
    BY <2>3, IdleCall DEF CallOK, Opening
  <2>5. NumbersOK'
    BY <1>0, <2>3, IdleCall DEF NumbersOK
  <2>6. RequestsOK'
    <3>1. \A q \in Process \ {p} : call[q].taken # NoRequest => call[q].taken.no # call[p].taken.no
      BY <1>0, RequestNumbers DEF NumbersOK
    <3>2. \A i \in RunId : run[i].req # NoRequest => run[i].req.no # call[p].taken.no
      BY <1>0 DEF RequestsOK
    <3>3. call'[p].taken = NoRequest /\ call'[p].taken.no = 0 /\ asked' = asked /\ run' = run
      BY <1>0, <2>3, IdleCall, Requests
    <3> QED BY <1>0, <2>1, <2>2, <2>3, <3>1, <3>2, <3>3, RequestNumbers DEF RequestsOK, FollowUpOnce
  <2>7. ASSUME NEW q \in Process \ {p}, call[q].at = "posting"
        PROVE  call[q].number <= disc'.followUps
    <3>1. call[q].number \in 1..disc.followUps
      BY <2>7 DEF Inv, CallOK
    <3>2. call[q].number # call[p].number
      BY <1>0, <2>7 DEF NumbersOK
    <3> QED BY <1>2, <2>1, <2>2, <3>1, <3>2
  <2>8. ASSUME NEW i \in RunId, Launched(i)
        PROVE  i <= disc'.followUps
    <3>1. i <= disc.followUps
      BY <2>8 DEF Inv, RunOK
    <3>2. i # disc.followUps
      BY <1>2, <2>1, <2>8
    <3> QED BY <2>1, <2>2, <3>1, <3>2, Bounds
  <2>9. call[p].at # "creating" /\ call'[p].at \notin Opening
    BY <1>0, <2>3, IdleCall DEF Opening
  <2>10. asked' \in 0..MaxAsked /\ asked <= asked'
    BY <1>0, Bounds DEF Types
  <2> QED BY <1>0, <2>2, <2>3, <2>4, <2>5, <2>6, <2>7, <2>8, <2>9, <2>10, PendingStep
<1> QED BY <1>1, <1>2 DEF FollowUpFails, Restored

-----------------------------------------------------------------------------
(***************************************************************************)
(* The invariant.                                                          *)
(***************************************************************************)

\* The run of the start goes on to the next round.
LEMMA NextRoundRuns ==
  ASSUME Inv, NEW i \in RunId, NextRound(i)
  PROVE  /\ i = 0 /\ run[i].round < Responses /\ run[i].round \in Nat /\ Launched(0)
         /\ run' \in [RunId -> Run]
         /\ run'[i].at = "turns" /\ run'[i].round = run[i].round + 1
         /\ run'[i].host = run[i].host /\ run'[i].kind = run[i].kind
         /\ run'[i].req = run[i].req /\ run'[i].aborted = run[i].aborted
         /\ \A j \in RunId \ {i} : run'[j] = run[j]
<1>0. /\ Types /\ RunOK(i) /\ run[i] \in Run /\ run \in [RunId -> Run]
      /\ run[i].at = "reading" /\ Launched(i)
  BY DEF Inv, Types, NextRound, Launched
<1>1. i = 0 /\ run[i].round < Responses /\ run[i].round \in Nat
  BY <1>0, RunTypes DEF RunOK
<1> DEFINE r == run[i].round + 1
           w == [m \in Member |-> IF m \in run[i].to THEN "todo" ELSE "none"]
           a == [run[i] EXCEPT !.at = "turns"]
           b == [a EXCEPT !.round = r]
           c == [b EXCEPT !.wake = w]
<1>2. r \in 0..MaxRound
  BY <1>1, Bounds
<1>3. w \in [Member -> {"none", "todo", "awake", "doomed", "done"}]
  OBVIOUS
<1>4. run' = [run EXCEPT ![i] = c]
  BY <1>0, Zenon DEF NextRound
<1> HIDE DEF w, r
<1>5. /\ a \in Run /\ a.at = "turns" /\ a.host = run[i].host /\ a.kind = run[i].kind
      /\ a.req = run[i].req /\ a.aborted = run[i].aborted
  BY <1>0 DEF Run, Active
<1> HIDE DEF a
<1>6. /\ b \in Run /\ b.at = "turns" /\ b.host = a.host /\ b.kind = a.kind
      /\ b.req = a.req /\ b.aborted = a.aborted /\ b.round = r
  BY <1>2, <1>5 DEF Run
<1> HIDE DEF b
<1>7. /\ c \in Run /\ c.at = "turns" /\ c.host = b.host /\ c.kind = b.kind
      /\ c.req = b.req /\ c.aborted = b.aborted /\ c.round = r
  BY <1>3, <1>6 DEF Run
<1> HIDE DEF c
<1>8. run' \in [RunId -> Run] /\ run'[i] = c /\ \A j \in RunId \ {i} : run'[j] = run[j]
  BY <1>0, <1>4, <1>7
<1>9. r = run[i].round + 1
  BY DEF r
<1> QED BY <1>0, <1>1, <1>5, <1>6, <1>7, <1>8, <1>9

LEMMA NextRoundStep ==
  ASSUME Inv, NEW i \in RunId, NextRound(i)
  PROVE  Inv'
<1>0. /\ Types /\ disc \in Row /\ run[i].at = "reading" /\ RunOK(i)
      /\ UNCHANGED <<due, asked, call, held, gone>>
  BY DEF Inv, Types, NextRound
<1>1. /\ i = 0 /\ run[i].round < Responses /\ run[i].round \in Nat /\ Launched(0)
      /\ run' \in [RunId -> Run]
      /\ run'[i].at = "turns" /\ run'[i].round = run[i].round + 1
      /\ run'[i].host = run[i].host /\ run'[i].kind = run[i].kind
      /\ run'[i].req = run[i].req /\ run'[i].aborted = run[i].aborted
      /\ \A j \in RunId \ {i} : run'[j] = run[j]
  BY NextRoundRuns
<1> DEFINE r == run[i].round + 1
<1>2. r \in Round /\ r <= Responses
  BY <1>1, Bounds
<1>3. disc' = RoundTo(disc, r)
  BY Zenon DEF NextRound
<1> HIDE DEF r
<1>4. /\ disc' \in Row /\ disc'.status = disc.status /\ disc'.attached = disc.attached
      /\ disc'.round = (IF r > disc.round THEN r ELSE disc.round)
      /\ disc'.followUps = disc.followUps /\ disc'.pending = disc.pending
  BY <1>0, <1>2, <1>3, WithRound
<1>5. Types'
  BY <1>0, <1>1, <1>4 DEF Types
<1>6. \A j \in RunId : Launched(j)' <=> Launched(j)
  BY <1>0, <1>1 DEF Launched
<1>7. ASSUME NEW q \in Process PROVE CallOK(q)'
  <2>1. CallOK(q) /\ call'[q] = call[q]
    BY <1>0 DEF Inv
  <2>2. call[q].at = "posting" => call[q].number \in RunId /\ call[q].number <= disc'.followUps
    BY <1>0, <1>4, <2>1, RowTypes, Bounds DEF CallOK
  <2>3. disc.round <= disc'.round /\ asked <= asked'
    BY <1>0, <1>2, <1>4, RowTypes, Bounds DEF Types
  <2> QED BY <1>4, <1>5, <1>6, <2>1, <2>2, <2>3, Bounds, CallStays DEF CallOK
<1>8. StartOK' /\ NumbersOK'
  BY <1>0, <1>4, <1>6 DEF Inv, StartOK, NumbersOK
<1>9. ASSUME NEW j \in RunId PROVE RunOK(j)'
  <2>1. CASE j = i
    BY <1>0, <1>1, <1>4, <2>1, Bounds DEF RunOK, Launched
  <2>2. CASE j # i
    <3>1. RunOK(j) /\ run'[j] = run[j]
      BY <1>1, <2>2 DEF Inv
    <3> QED BY <1>0, <1>4, <3>1 DEF RunOK, Launched
  <2> QED BY <2>1, <2>2
<1>10. RoundOK'
  BY <1>2, <1>4, <1>6 DEF Inv, RoundOK
<1>11. RequestsOK'
  <2>1. \A j \in RunId : run'[j].req = run[j].req
    BY <1>1
  <2> QED BY <1>0, <1>4, <2>1 DEF Inv, RequestsOK, FollowUpOnce
<1>12. HeldOK'
  <2>1. ActiveRun(i) /\ \A j \in RunId : run'[j].host = run[j].host /\ run'[j].aborted = run[j].aborted
    BY <1>0, <1>1 DEF ActiveRun, Active
  <2>2. \A j \in RunId : run'[j].at \in Active => run[j].at \in Active
    BY <1>0, <1>1 DEF Active
  <2> QED BY <1>0, <2>1, <2>2 DEF Inv, HeldOK, ActiveRun
<1> QED BY <1>5, <1>7, <1>8, <1>9, <1>10, <1>11, <1>12 DEF Inv

LEMMA InvInit ==
  ASSUME Init
  PROVE  Inv
<1>1. /\ disc = [status |-> "none", attached |-> FALSE, stopped |-> FALSE, round |-> 0,
                 followUps |-> 0, pending |-> NoRequest, beat |-> "none"]
      /\ due = {} /\ asked = 0 /\ gone = {}
      /\ call = [p \in Process |-> Idle] /\ held = [p \in Process |-> NoRun]
  BY DEF Init
<1> DEFINE none == [at |-> "none", host |-> NoProcess, round |-> 0, kind |-> "start",
                    aborted |-> FALSE, req |-> NoRequest, to |-> {},
                    wake |-> [m \in Member |-> "none"]]
<1>2. none \in Run /\ none.at = "none" /\ none.req = NoRequest
  BY Bounds, Requests DEF Run
<1>3. run = [i \in RunId |-> none]
  BY DEF Init
<1> HIDE DEF none
<1>4. disc \in Row
  BY <1>1, Bounds, Requests DEF Row, Status
<1>5. Types
  BY <1>1, <1>2, <1>3, <1>4, Bounds, IdleCall DEF Types
<1>6. StartOK /\ \A p \in Process : CallOK(p)
  BY <1>1, <1>2, <1>3, IdleCall DEF StartOK, CallOK, Launched, Opening
<1>7. NumbersOK
  BY <1>1, IdleCall DEF NumbersOK
<1>8. \A i \in RunId : RunOK(i)
  BY <1>1, <1>2, <1>3, Requests DEF RunOK, Launched
<1>9. RoundOK
  BY <1>1, Bounds DEF RoundOK
<1>10. RequestsOK
  BY <1>1, <1>2, <1>3, IdleCall, Requests DEF RequestsOK, FollowUpOnce
<1>11. HeldOK
  BY <1>2, <1>3 DEF HeldOK, ActiveRun, Active
<1> QED BY <1>5, <1>6, <1>7, <1>8, <1>9, <1>10, <1>11 DEF Inv

LEMMA InvNext ==
  ASSUME Inv, [Next]_vars
  PROVE  Inv'
<1>1. CASE UNCHANGED vars
  <2>1. UNCHANGED <<disc, due, asked, call, run, held, gone>>
    BY <1>1 DEF vars, store
  <2>2. Types /\ due \in SUBSET Round
    BY DEF Inv, Types
  <2> QED BY <2>1, <2>2, EndedRow, SameCalls, StoreStep
<1>2. CASE Confirm \/ Expire \/ Stale
           \/ (\E to \in Targets : AskFollowUp(to)) \/ (\E r \in Round : PassDeadline(r))
  BY <1>2, PersonStep, TimeStep, AskFollowUpStep
<1>3. ASSUME NEW p \in Process, Start(p) \/ FollowUp(p)
      PROVE  Inv'
  <2>1. CASE Start(p)
    BY <2>1, BeginStartStep, ReturnStep, ClaimStartStep, CreateRoomStep, CreateFailsStep,
       AskQuestionStep, Zenon DEF Start
  <2>2. CASE FollowUp(p)
    BY <2>2, BeginFollowUpStep, TakeFollowUpStep, ReturnStep, PostFollowUpStep, FollowUpFailsStep,
       Zenon DEF FollowUp
  <2> QED BY <1>3, <2>1, <2>2
<1>4. ASSUME NEW p \in Process,
             \/ View(p) \/ Look(p) \/ EndLook(p) \/ Stop(p)
             \/ BeginSummary(p) \/ EndSummary(p) \/ Close(p) \/ Crash(p)
      PROVE  Inv'
  BY <1>4, ReturnStep, LookStep, StopStep, BeginSummaryStep, CloseStep, CrashStep, Zenon
<1>5. ASSUME NEW i \in RunId,
             \/ FinishRound(i) \/ GoOn(i) \/ NoticeEnd(i) \/ Beat(i)
             \/ \E m \in Member : BeginTurn(i, m) \/ Settles(i, m)
      PROVE  Inv'
  BY <1>5, FinishRoundStep, NextRoundStep, AbandonStep, NoticeEndStep, TimeStep, TurnStep,
     Zenon DEF GoOn, Settles
<1> QED BY <1>1, <1>2, <1>3, <1>4, <1>5, Zenon DEF Next

-----------------------------------------------------------------------------
(***************************************************************************)
(* Whom the rounds invite.                                                 *)
(***************************************************************************)

\* Nobody is invited.
NoInvite == \A r \in Round, m \in Member : turns'[r][m] = "none" <=> turns[r][m] = "none"

LEMMA SettleInvites ==
  ASSUME IInv, NEW r, NEW m, NEW s \in {"waiting", "replied", "failed", "ended"},
         turns' = Settle(turns, r, m, s)
  PROVE  NoInvite
<1>1. CASE r \in Round /\ m \in Member
  BY <1>1 DEF IInv, Table, Settle, NoInvite, Unsettled
<1>2. CASE r \notin Round
  BY <1>2 DEF IInv, Table, Settle, NoInvite
<1>3. CASE r \in Round /\ m \notin Member
  BY <1>3 DEF IInv, Table, Settle, NoInvite
<1> QED BY <1>1, <1>2, <1>3

LEMMA SettleAllInvites ==
  ASSUME IInv, NEW R, NEW s \in {"waiting", "replied", "failed", "ended"},
         turns' = SettleAll(turns, R, s)
  PROVE  NoInvite
BY DEF IInv, Table, SettleAll, NoInvite, Unsettled

LEMMA SameInvites ==
  ASSUME UNCHANGED turns
  PROVE  NoInvite
BY DEF NoInvite

LEMMA ReconcileInvites ==
  ASSUME IInv, NEW p, NEW stale, turns' = ReconciledTurns(p, stale)
  PROVE  NoInvite
BY SettleAllInvites, SameInvites DEF ReconciledTurns

LEMMA UnmovedRuns ==
  ASSUME Inv, UNCHANGED run
  PROVE  RunsOn
BY Unmoved DEF Inv, Types, RunsOn

\* The steps that invite, and all the others.
Opens(p)   == AskQuestion(p) /\ Launch(p, 0, 1, "start", Member, NoRequest)
Inviting   == NextRound(0) \/ (\E p \in Process : Opens(p) \/ PostFollowUp(p))

LEMMA StepKinds ==
  ASSUME Inv, IInv, [Next]_vars
  PROVE  (RunsOn /\ NoInvite) \/ Inviting
<1>1. CASE UNCHANGED vars
  BY <1>1, UnmovedRuns, SameInvites DEF vars, store
<1>2. CASE Confirm \/ Expire \/ Stale
           \/ (\E to \in Targets : AskFollowUp(to)) \/ (\E r \in Round : PassDeadline(r))
  BY <1>2, UnmovedRuns, SameInvites DEF Confirm, Expire, Stale, AskFollowUp, PassDeadline
<1>3. ASSUME NEW p \in Process, Start(p)
      PROVE  (RunsOn /\ NoInvite) \/ Inviting
  <2>1. CASE BeginStart(p) \/ RefuseStart(p) \/ ClaimStart(p) \/ CreateRoom(p) \/ CreateFails(p) \/ QuestionFails(p)
    BY <2>1, UnmovedRuns, SameInvites
       DEF BeginStart, RefuseStart, ClaimStart, CreateRoom, CreateFails, QuestionFails, store
  <2>2. CASE AskQuestion(p)
    <3>1. Launch(p, 0, 1, "start", Member, NoRequest) \/ UNCHANGED <<disc, turns, run, held>>
      BY <2>2 DEF AskQuestion
    <3> QED BY <2>2, <3>1, UnmovedRuns, SameInvites DEF Inviting, Opens
  <2> QED BY <1>3, <2>1, <2>2 DEF Start
<1>4. ASSUME NEW p \in Process, FollowUp(p)
      PROVE  (RunsOn /\ NoInvite) \/ Inviting
  <2>1. CASE BeginFollowUp(p)
    BY <2>1, UnmovedRuns, ReconcileInvites DEF BeginFollowUp
  <2>2. CASE TakeFollowUp(p) \/ RefuseFollowUp(p) \/ FollowUpFails(p)
    BY <2>2, UnmovedRuns, SameInvites DEF TakeFollowUp, RefuseFollowUp, FollowUpFails, store
  <2> QED BY <1>4, <2>1, <2>2 DEF FollowUp, Inviting
<1>5. ASSUME NEW p \in Process,
             \/ View(p) \/ Look(p) \/ EndLook(p) \/ BeginSummary(p) \/ EndSummary(p)
      PROVE  RunsOn /\ NoInvite
  <2>1. CASE View(p) \/ EndLook(p) \/ BeginSummary(p)
    BY <2>1, UnmovedRuns, ReconcileInvites DEF View, EndLook, BeginSummary
  <2>2. CASE Look(p) \/ EndSummary(p)
    BY <2>2, UnmovedRuns, SameInvites DEF Look, EndSummary, store
  <2> QED BY <1>5, <2>1, <2>2
<1>6. ASSUME NEW p \in Process, Stop(p) \/ Close(p) \/ Crash(p)
      PROVE  RunsOn /\ NoInvite
  <2>1. RunsOn
    BY <1>6, StopStep, CloseStep, CrashStep
  <2>2. NoInvite
    BY <1>6, SettleAllInvites, SameInvites DEF Stop, End, Close, Crash, store
  <2> QED BY <2>1, <2>2
<1>7. ASSUME NEW i \in RunId, NEW m \in Member, BeginTurn(i, m) \/ Settles(i, m)
      PROVE  RunsOn /\ NoInvite
  <2>1. RunsOn
    BY <1>7, TurnStep DEF Settles
  <2>2. NoInvite
    BY <1>7, SettleInvites DEF BeginTurn, Settles, Answer, Post, Unanswered
  <2> QED BY <2>1, <2>2
<1>8. ASSUME NEW i \in RunId, FinishRound(i) \/ GoOn(i) \/ NoticeEnd(i) \/ Beat(i)
      PROVE  (RunsOn /\ NoInvite) \/ Inviting
  <2>1. CASE FinishRound(i) \/ NoticeEnd(i)
    BY <2>1, FinishRoundStep, NoticeEndStep, SameInvites DEF FinishRound, NoticeEnd, store
  <2>2. CASE Abandon(i)
    BY <2>2, AbandonStep, SettleAllInvites DEF Abandon
  <2>3. CASE Beat(i)
    BY <2>3, UnmovedRuns, SameInvites DEF Beat
  <2>4. CASE NextRound(i)
    <3>1. i = 0
      BY <2>4, NextRoundRuns
    <3> QED BY <2>4, <3>1 DEF Inviting
  <2> QED BY <1>8, <2>1, <2>2, <2>3, <2>4 DEF GoOn
<1> QED BY <1>1, <1>2, <1>3, <1>4, <1>5, <1>6, <1>7, <1>8, Zenon DEF Next

\* A run that was launched stays with its process, and over if it is.
Follows(i) ==
  Launched(i) => /\ Launched(i)'
                 /\ run'[i].host = run[i].host
                 /\ run[i].at = "over" => run'[i].at = "over"

LEMMA OnwardFollows ==
  ASSUME NEW i \in RunId, Onward(run[i], run'[i])
  PROVE  Follows(i)
BY DEF Onward, Follows, Launched, Run, Active

LEMMA RunsFollow ==
  ASSUME Inv, IInv, [Next]_vars, NEW i \in RunId
  PROVE  Follows(i)
<1>1. CASE RunsOn
  BY <1>1, OnwardFollows DEF RunsOn
<1>2. CASE NextRound(0)
  <2>1. 0 \in RunId
    BY Bounds
  <2>2. /\ run'[0].at = "turns" /\ run'[0].host = run[0].host /\ run[0].at = "reading"
        /\ \A j \in RunId \ {0} : run'[j] = run[j]
    BY <1>2, <2>1, NextRoundRuns DEF NextRound
  <2> QED BY <2>2 DEF Follows, Launched
<1>3. ASSUME NEW p \in Process, Opens(p) PROVE Follows(i)
  <2>1. ~Launched(0)
    BY <1>3 DEF Inv, CallOK, Opens, AskQuestion, InCall, Opening
  <2>2. LaunchedAs(p, 0, 1, "start", NoRequest)
    BY <1>3, LaunchEffect, Bounds, Requests DEF Opens
  <2>3. \A j \in RunId \ {0} : Onward(run[j], run'[j])
    BY <2>2 DEF LaunchedAs
  <2> QED BY <2>1, <2>3, OnwardFollows DEF Follows
<1>4. ASSUME NEW p \in Process, PostFollowUp(p) PROVE Follows(i)
  <2>1. ~Launched(call[p].number) /\ LaunchedAs(p, call[p].number, call[p].round + 1, "follow_up", call[p].taken)
    BY <1>4, PostedRun
  <2>2. \A j \in RunId \ {call[p].number} : Onward(run[j], run'[j])
    BY <2>1 DEF LaunchedAs
  <2> QED BY <2>1, <2>2, OnwardFollows DEF Follows
<1> QED BY <1>1, <1>2, <1>3, <1>4, StepKinds DEF Inviting

\* As long as no follow-up was launched, only the run of the start invites, and
\* to its next round it invites those who replied.
OnlyStart == \A k \in RunId \ {0} : ~Launched(k)

Responding ==
  OnlyStart =>
    /\ ResponsesFollowReplies
    /\ \A r \in Round, m \in Member : ~Launched(0) \/ r > run[0].round => turns[r][m] = "none"
    /\ run[0].at = "reading" =>
         run[0].to \subseteq Repliers(run[0].round) /\ Cardinality(run[0].to) >= 2

\* A reply stays.
LEMMA RepliesStay ==
  ASSUME IInv, [Next]_vars, NEW r \in Round, NEW m \in Member, turns[r][m] = "replied"
  PROVE  turns'[r][m] = "replied"
<1>1. CASE Quiet
  BY <1>1 DEF Quiet, Moves, Unsettled
<1>2. ASSUME NEW q \in Round, NEW n \in Member, Posted(q, n)
      PROVE  turns'[r][m] = "replied"
  BY <1>2 DEF Posted, Unsettled
<1> QED BY <1>1, <1>2, Steps

\* Whom an invitation reaches.
LEMMA Invited ==
  ASSUME IInv, NEW r \in Round, NEW targets \in SUBSET Member, NEW woken \in SUBSET targets,
         turns' = Invite(turns, r, targets, woken)
  PROVE  /\ \A q \in Round \ {r}, m \in Member : turns'[q][m] = turns[q][m]
         /\ \A m \in Member : turns'[r][m] = "none" <=> turns[r][m] = "none" /\ m \notin targets
BY DEF IInv, Table, Invite

LEMMA RespondingNext ==
  ASSUME Inv, IInv, Responding, [Next]_vars
  PROVE  Responding'
<1> SUFFICES ASSUME OnlyStart'
             PROVE  /\ ResponsesFollowReplies'
                    /\ \A r \in Round, m \in Member :
                         ~Launched(0)' \/ r > run'[0].round => turns'[r][m] = "none"
                    /\ run'[0].at = "reading" =>
                         run'[0].to \subseteq Repliers(run[0].round)' /\ Cardinality(run'[0].to) >= 2
  BY DEF Responding, Launched
<1>0. 0 \in RunId /\ Types /\ run[0] \in Run
  BY Bounds DEF Inv, Types
<1>1. OnlyStart
  <2>1. \A k \in RunId : Launched(k) => Launched(k)'
    BY RunsFollow DEF Follows
  <2> QED BY <2>1 DEF OnlyStart
<1>2. /\ ResponsesFollowReplies
      /\ \A r \in Round, m \in Member : ~Launched(0) \/ r > run[0].round => turns[r][m] = "none"
      /\ run[0].at = "reading" =>
           run[0].to \subseteq Repliers(run[0].round) /\ Cardinality(run[0].to) >= 2
  BY <1>1 DEF Responding
<1>3. \A r \in Round, m \in Member : turns[r][m] = "replied" => turns'[r][m] = "replied"
  BY RepliesStay
<1>4. \A r \in Round \ {1} : r - 1 \in Round
  BY Bounds
\* Nobody is invited to a round other than those in hand.
<1>5. ASSUME NEW r \in Round \ {1}, \A m \in Member : turns'[r][m] = "none" <=> turns[r][m] = "none"
      PROVE  LET invited == {m \in Member : turns'[r][m] # "none"} IN
             /\ \A m \in invited : turns'[r - 1][m] = "replied"
             /\ invited # {} => Cardinality(invited) >= 2
  <2> DEFINE I == {m \in Member : turns[r][m] # "none"}
             J == {m \in Member : turns'[r][m] # "none"}
  <2>1. J = I
    BY <1>5
  <2>2. (\A m \in I : turns[r - 1][m] = "replied") /\ (I # {} => Cardinality(I) >= 2)
    BY <1>2 DEF ResponsesFollowReplies
  <2>3. \A m \in I : m \in Member
    OBVIOUS
  <2> HIDE DEF I, J
  <2>4. \A m \in J : turns'[r - 1][m] = "replied"
    BY <1>3, <1>4, <2>1, <2>2, <2>3
  <2>5. J # {} => Cardinality(J) >= 2
    BY <2>1, <2>2
  <2> QED BY <2>4, <2>5 DEF J
<1>6. CASE RunsOn /\ NoInvite
  <2>1. ResponsesFollowReplies'
    BY <1>5, <1>6 DEF NoInvite, ResponsesFollowReplies
  <2>2. Onward(run[0], run'[0])
    BY <1>0, <1>6 DEF RunsOn
  <2>3. run'[0].round = run[0].round /\ (Launched(0)' <=> Launched(0))
    BY <2>2 DEF Onward, Launched
  <2>4. \A r \in Round, m \in Member : ~Launched(0)' \/ r > run'[0].round => turns'[r][m] = "none"
    BY <1>2, <1>6, <2>3 DEF NoInvite
  <2>5. ASSUME run'[0].at = "reading"
        PROVE  run'[0].to \subseteq Repliers(run[0].round)' /\ Cardinality(run'[0].to) >= 2
    <3>1. run'[0].to \subseteq Repliers(run[0].round) /\ Cardinality(run'[0].to) >= 2
      BY <1>2, <2>2, <2>5 DEF Onward
    <3>2. run[0].round \in Round
      <4>1. RunOK(0) /\ Launched(0)
        BY <1>0, <2>3, <2>5 DEF Inv, Launched
      <4> QED BY <1>0, <4>1, RunTypes, Bounds DEF RunOK
    <3>3. Repliers(run[0].round) \subseteq Repliers(run[0].round)'
      BY <1>3, <2>3, <3>2 DEF Repliers
    <3> QED BY <3>1, <3>3
  <2> QED BY <2>1, <2>4, <2>5
<1>7. CASE NextRound(0)
  <2> DEFINE r == run[0].round + 1
             to == run[0].to
  <2>1. /\ run[0].at = "reading" /\ run[0].round \in Nat /\ run[0].round < Responses /\ Launched(0)
        /\ run'[0].at = "turns" /\ run'[0].round = r
    BY <1>0, <1>7, NextRoundRuns DEF NextRound
  <2>2. r \in Round \ {1} /\ run[0].round = r - 1 /\ r > run[0].round /\ r \in Nat
    <3>1. run[0].round >= 1
      BY <1>0, <2>1 DEF Inv, RunOK
    <3> QED BY <2>1, <3>1, Bounds
  <2>3. to \in SUBSET Member /\ to \subseteq Repliers(r - 1) /\ Cardinality(to) >= 2
    BY <1>0, <1>2, <2>1, <2>2, RunTypes
  <2>4. turns' = Invite(turns, r, to, to)
    BY <1>7, Zenon DEF NextRound
  <2>5. /\ \A q \in Round \ {r}, m \in Member : turns'[q][m] = turns[q][m]
        /\ \A m \in Member : turns'[r][m] = "none" <=> turns[r][m] = "none" /\ m \notin to
    BY <2>2, <2>3, <2>4, Invited
  <2>6. \A m \in Member : turns[r][m] = "none"
    BY <1>2, <2>2
  <2>7. r = run[0].round + 1
    OBVIOUS
  <2> HIDE DEF r, to
  <2>8. ResponsesFollowReplies'
    <3>1. ASSUME NEW q \in Round \ {1}, q # r
          PROVE  LET invited == {m \in Member : turns'[q][m] # "none"} IN
                 /\ \A m \in invited : turns'[q - 1][m] = "replied"
                 /\ invited # {} => Cardinality(invited) >= 2
      BY <1>5, <2>5, <3>1
    <3>2. {m \in Member : turns'[r][m] # "none"} = to
      BY <2>3, <2>5, <2>6
    <3>3. \A m \in to : turns'[r - 1][m] = "replied"
      <4>1. \A m \in to : m \in Member /\ turns[r - 1][m] = "replied"
        BY <2>3 DEF Repliers
      <4> QED BY <1>3, <1>4, <2>2, <4>1
    <3> QED BY <2>2, <2>3, <3>1, <3>2, <3>3 DEF ResponsesFollowReplies
  <2>9. ASSUME NEW q \in Round, NEW m \in Member, ~Launched(0)' \/ q > run'[0].round
        PROVE  turns'[q][m] = "none"
    <3>1. q # r /\ q > run[0].round
      BY <2>1, <2>2, <2>7, <2>9, Bounds DEF Launched
    <3> QED BY <1>2, <2>5, <3>1
  <2> QED BY <2>1, <2>8, <2>9
<1>8. ASSUME NEW p \in Process, Opens(p)
      PROVE  /\ ResponsesFollowReplies'
             /\ \A r \in Round, m \in Member :
                  ~Launched(0)' \/ r > run'[0].round => turns'[r][m] = "none"
             /\ run'[0].at # "reading"
  <2>1. ~Launched(0)
    BY <1>8 DEF Inv, CallOK, Opens, AskQuestion, InCall, Opening
  <2>2. LaunchedAs(p, 0, 1, "start", NoRequest)
    BY <1>8, LaunchEffect, Bounds, Requests DEF Opens
  <2>3. run'[0].at = "turns" /\ run'[0].round = 1
    BY <2>2 DEF LaunchedAs
  <2>4. 1 \in Round
    BY Bounds
  <2>5. \A q \in Round \ {1}, m \in Member : turns'[q][m] = turns[q][m]
    <3>1. PICK woken \in SUBSET Member : turns' = Invite(turns, 1, Member, woken)
      BY <1>8, Zenon DEF Opens, Launch
    <3> QED BY <2>4, <3>1, Invited
  <2>6. ResponsesFollowReplies'
    BY <1>5, <2>5 DEF ResponsesFollowReplies
  <2>7. \A q \in Round, m \in Member :
          ~Launched(0)' \/ q > run'[0].round => turns'[q][m] = "none"
    BY <1>2, <2>1, <2>3, <2>5 DEF Launched
  <2> QED BY <2>3, <2>6, <2>7
<1>9. ASSUME NEW p \in Process, PostFollowUp(p)
      PROVE  FALSE
  <2>1. /\ call[p].number \in RunId \ {0}
        /\ LaunchedAs(p, call[p].number, call[p].round + 1, "follow_up", call[p].taken)
    BY <1>9, PostedRun
  <2>2. run'[call[p].number].at = "turns"
    BY <2>1 DEF LaunchedAs
  <2>3. \A k \in RunId \ {0} : run'[k].at = "none"
    BY DEF OnlyStart, Launched
  <2> QED BY <2>1, <2>2, <2>3
<1> QED BY <1>6, <1>7, <1>8, <1>9, StepKinds DEF Inviting

LEMMA RespondingInit ==
  ASSUME Init
  PROVE  Responding
<1>1. \A r \in Round, m \in Member : turns[r][m] = "none"
  BY DEF Init
<1>2. run[0].at = "none"
  BY Bounds DEF Init
<1>3. ResponsesFollowReplies
  BY <1>1 DEF ResponsesFollowReplies
<1> QED BY <1>1, <1>2, <1>3 DEF Responding

-----------------------------------------------------------------------------
(***************************************************************************)
(* The theorems about the row, the calls and the runs.                     *)
(***************************************************************************)

\* The row, the calls and the runs keep the second invariant.
THEOREM Invariance == Spec => []Inv
<1> QED BY InvInit, InvNext, PTL DEF Spec

\* Every variable keeps its type: no round is invited and no follow-up counted
\* beyond those a discussion may have, also when posts fail and are given back.
THEOREM TypesHold == Spec => []TypeOK
<1>1. Inv /\ IInv => TypeOK
  BY DEF Inv, Types, IInv, Table, TypeOK
<1> QED BY <1>1, Invariance, Inductive, PTL

\* However many calls try to, one run carries out a follow-up.
THEOREM FollowUpsRunOnce == Spec => []FollowUpOnce
<1>1. Inv => FollowUpOnce
  BY DEF Inv, RequestsOK
<1> QED BY <1>1, Invariance, PTL

\* The start and each counted follow-up are launched once, by one process.
THEOREM LaunchedOnce == Spec => RunsOnce
<1>1. ASSUME Inv, IInv, [Next]_vars
      PROVE  [\A i \in RunId : run[i].at # "none" =>
                /\ run'[i].host = run[i].host
                /\ run[i].at = "over" => run'[i].at = "over"]_vars
  BY <1>1, RunsFollow DEF Follows, Launched
<1> QED BY <1>1, Invariance, Inductive, PTL DEF Spec, RunsOnce

\* A process never fails the turns it is waiting for itself.
THEOREM OwnTurnsStay == Spec => OwnTurnsLeftAlone
<1>1. ASSUME Inv, [Next]_vars
      PROVE  [\A p \in Process, i \in RunId, m \in Member :
                LET r == run[i].round IN
                /\ View(p) \/ EndLook(p)
                /\ ActiveRun(i) /\ run[i].host = p /\ ~run[i].aborted
                /\ run[i].wake[m] = "awake"
                => turns'[r][m] = turns[r][m]]_vars
  <2>1. ASSUME NEW p \in Process, NEW i \in RunId, View(p) \/ EndLook(p),
               ActiveRun(i), run[i].host = p, ~run[i].aborted
        PROVE  turns' = turns
    <3>1. held[p] = i
      <4>1. HeldOK
        BY <1>1 DEF Inv
      <4> QED BY <2>1, <4>1 DEF HeldOK
    <3>2. held[p] # NoRun
      BY <3>1, Bounds
    <3> QED BY <2>1, <3>2 DEF View, EndLook, ReconciledTurns, Reconciles
  <2> QED BY <2>1
<1> QED BY <1>1, Invariance, PTL DEF Spec, OwnTurnsLeftAlone

\* As long as no follow-up was launched, whoever is invited to a response round
\* replied in the round before, and the round has at least two members.
THEOREM StartResponds == Spec => [](OnlyStart => ResponsesFollowReplies)
<1>1. Responding => (OnlyStart => ResponsesFollowReplies)
  BY DEF Responding
<1>2. Spec => []Responding
  BY RespondingInit, RespondingNext, Invariance, Inductive, PTL DEF Spec
<1> QED BY <1>1, <1>2, PTL

\* Without follow-ups that is so in every state.
THEOREM RespondersReplied ==
  MaxAsked = 0 \/ FollowUpLimit = 0 => (Spec => []ResponsesFollowReplies)
<1>1. ASSUME Inv, MaxAsked = 0 \/ FollowUpLimit = 0
      PROVE  OnlyStart
  <2> SUFFICES ASSUME NEW k \in RunId \ {0}, Launched(k) PROVE FALSE
    BY DEF OnlyStart
  <2>0. Types /\ RunOK(k)
    BY <1>1 DEF Inv
  <2>1. /\ k \in Nat /\ k # 0 /\ k <= FollowUpLimit
        /\ run[k].req \in Request /\ run[k].req # NoRequest
    BY <2>0, Bounds, RunTypes DEF Types, RunOK
  <2>2. run[k].req.no \in 1..MaxAsked
    BY <2>1, Requests
  <2> QED BY <1>1, <2>1, <2>2, Bounds
<1>2. ASSUME MaxAsked = 0 \/ FollowUpLimit = 0
      PROVE  Spec => []ResponsesFollowReplies
  <2>1. Inv /\ (OnlyStart => ResponsesFollowReplies) => ResponsesFollowReplies
    BY <1>1, <1>2
  <2> QED BY <2>1, Invariance, StartResponds, PTL
<1> QED BY <1>2

-----------------------------------------------------------------------------
(***************************************************************************)
(* What stays of "no further turn starts" (end, group-discussion.js:349).  *)
(***************************************************************************)

\* A discussion that ended, with no follow-up waiting, no run, and no call that
\* is past its check of the row or read a running one that lost its heartbeat.
AtRest ==
  /\ disc.status = "ended"
  /\ disc.pending = NoRequest
  /\ \A i \in RunId : ~ActiveRun(i)
  /\ \A p \in Process :
       \/ call[p].at \in {"idle", "checking", "summarizing"}
       \/ call[p].at = "looking" /\ ~call[p].stale

\* The only steps that invite are of a run or a call that is under way.
LEMMA RestInvitesNobody ==
  ASSUME Inv, IInv, [Next]_vars, AtRest
  PROVE  RunsOn /\ NoInvite
<1>1. ~NextRound(0)
  BY Bounds DEF AtRest, ActiveRun, Active, NextRound
<1>2. \A p \in Process : ~Opens(p) /\ ~PostFollowUp(p)
  BY DEF AtRest, Opens, AskQuestion, PostFollowUp, InCall
<1> QED BY <1>1, <1>2, StepKinds DEF Inviting

LEMMA RestStartsNoRun ==
  ASSUME RunsOn, AtRest
  PROVE  \A i \in RunId : ~ActiveRun(i)'
BY DEF RunsOn, Onward, AtRest, ActiveRun, Active

\* Nobody reconciles: what was read was not a running discussion.
LEMMA RestKeepsRow ==
  ASSUME AtRest, NEW p, NEW stale, ~stale
  PROVE  ReconciledDisc(p, stale) = disc
BY DEF ReconciledDisc

\* Where the calls are, after a step that moves one of them or none.
LEMMA RestingCalls ==
  ASSUME Types, AtRest, NEW p \in Process, NEW c,
         call' = [call EXCEPT ![p] = c],
         c.at \in {"idle", "checking", "summarizing"} \/ (c.at = "looking" /\ ~c.stale)
  PROVE  \A q \in Process :
           \/ call'[q].at \in {"idle", "checking", "summarizing"}
           \/ call'[q].at = "looking" /\ ~call'[q].stale
BY DEF Types, AtRest

LEMMA RestStays ==
  ASSUME Inv, IInv, [Next]_vars, AtRest
  PROVE  AtRest' /\ NoInvite /\ UNCHANGED posts
<1>0. Types /\ NoInvite /\ \A i \in RunId : ~ActiveRun(i) /\ ~ActiveRun(i)'
  BY RestInvitesNobody, RestStartsNoRun DEF Inv, AtRest
<1> DEFINE Still == /\ disc'.status = "ended" /\ disc'.pending = NoRequest
                    /\ UNCHANGED posts
                    /\ \A q \in Process :
                         \/ call'[q].at \in {"idle", "checking", "summarizing"}
                         \/ call'[q].at = "looking" /\ ~call'[q].stale
<1>1. ASSUME UNCHANGED vars PROVE Still
  BY <1>1 DEF vars, store, AtRest
<1>2. ASSUME \/ Confirm \/ Expire \/ Stale
             \/ (\E to \in Targets : AskFollowUp(to)) \/ (\E r \in Round : PassDeadline(r))
      PROVE  Still
  BY <1>0, <1>2 DEF Confirm, Expire, Stale, AskFollowUp, PassDeadline, AtRest, Types, Row
<1>3. ASSUME NEW p \in Process, Start(p) PROVE Still
  <2>1. BeginStart(p) \/ RefuseStart(p) \/ ClaimStart(p)
    BY <1>3 DEF Start, CreateRoom, CreateFails, AskQuestion, QuestionFails, InCall, AtRest
  <2>2. ~BeginStart(p)
    BY DEF BeginStart, AtRest
  <2>3. Returns(p) /\ UNCHANGED posts /\ (disc' = [disc EXCEPT !.status = "ended"] \/ disc' = disc)
    BY <2>1, <2>2 DEF RefuseStart, ClaimStart, Claimable, AtRest
  <2>4. disc'.status = "ended" /\ disc'.pending = NoRequest
    BY <1>0, <2>3 DEF Types, Row, AtRest
  <2> QED BY <1>0, <2>3, <2>4, RestingCalls DEF Returns, Idle
<1>4. ASSUME NEW p \in Process, FollowUp(p) PROVE Still
  <2>1. BeginFollowUp(p)
    BY <1>4 DEF FollowUp, TakeFollowUp, RefuseFollowUp, PostFollowUp, FollowUpFails, InCall, AtRest
  <2>2. ~call[p].stale
    BY <2>1 DEF BeginFollowUp, InCall, AtRest
  <2> QED BY <2>1, <2>2, RestKeepsRow DEF BeginFollowUp, AtRest
<1>5. ASSUME NEW p \in Process, View(p) \/ Look(p) PROVE Still
  <2>1. ~StaleRun
    BY DEF StaleRun, AtRest
  <2>2. CASE View(p)
    BY <2>1, <2>2, RestKeepsRow DEF View, AtRest
  <2>3. CASE Look(p)
    BY <1>0, <2>1, <2>3 DEF Look, store, AtRest, Types, Call
  <2> QED BY <1>5, <2>2, <2>3
<1>6. ASSUME NEW p \in Process, EndLook(p) \/ BeginSummary(p) \/ EndSummary(p) PROVE Still
  <2>1. CASE EndLook(p) \/ BeginSummary(p)
    <3>1. ~call[p].stale
      BY <2>1 DEF EndLook, BeginSummary, InCall, AtRest
    <3>2. disc' = disc /\ UNCHANGED posts
      BY <2>1, <3>1, RestKeepsRow DEF EndLook, BeginSummary
    <3> QED BY <1>0, <2>1, <3>2, RestingCalls DEF EndLook, BeginSummary, Returns, Idle, AtRest
  <2>2. CASE EndSummary(p)
    <3>1. disc'.status = "ended" /\ disc'.pending = NoRequest
      BY <1>0, <2>2 DEF EndSummary, Types, Row, AtRest
    <3> QED BY <1>0, <2>2, <3>1, RestingCalls DEF EndSummary, Returns, Idle
  <2> QED BY <1>6, <2>1, <2>2
<1>7. ASSUME NEW p \in Process, Stop(p) \/ Close(p) \/ Crash(p) PROVE Still
  <2>1. CASE Stop(p)
    BY <1>0, <2>1 DEF Stop, End, AtRest, Types, Row
  <2>2. CASE Close(p)
    BY <2>2 DEF Close, store, AtRest
  <2>3. CASE Crash(p)
    BY <1>0, <2>3, RestingCalls DEF Crash, store, Returns, Idle, AtRest
  <2> QED BY <1>7, <2>1, <2>2, <2>3
<1>8. ASSUME NEW i \in RunId, NEW m \in Member, BeginTurn(i, m) \/ Settles(i, m)
      PROVE  FALSE
  BY <1>0, <1>8 DEF BeginTurn, Settles, Answer, Unanswered, ActiveRun, Active
<1>9. ASSUME NEW i \in RunId, FinishRound(i) \/ GoOn(i) \/ NoticeEnd(i) \/ Beat(i)
      PROVE  FALSE
  BY <1>0, <1>9 DEF FinishRound, GoOn, NextRound, Abandon, NoticeEnd, Beat, ActiveRun, Active
<1>10. Still
  BY <1>1, <1>2, <1>3, <1>4, <1>5, <1>6, <1>7, <1>8, <1>9, Zenon DEF Next
<1> QED BY <1>0, <1>10 DEF AtRest

\* A discussion that ended stays ended and invites nobody, and nothing more is
\* posted in its rounds, once the calls and runs that were under way are over and
\* no follow-up waits: what the violation of StopIsFinal leaves of
\* "no further turn starts" (group-discussion.js:349).
THEOREM RestIsFinal ==
  Spec => /\ [][AtRest => NoInvite /\ UNCHANGED posts]_vars
          /\ [](AtRest => []AtRest)
<1>1. Inv /\ IInv /\ [Next]_vars => [AtRest => NoInvite /\ UNCHANGED posts]_vars
  BY RestStays
<1>2. Inv /\ IInv /\ [Next]_vars /\ AtRest => AtRest'
  BY RestStays
<1> QED BY <1>1, <1>2, Invariance, Inductive, PTL DEF Spec
=============================================================================
