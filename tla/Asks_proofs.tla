------------------------------ MODULE Asks_proofs ------------------------------
(***************************************************************************)
(* Asks for every set of asks and handlers, every number of deliveries and *)
(* every optional event: the types, that one client process at most runs   *)
(* for the Agent, and that a finished claim has no process left.           *)
(*                                                                         *)
(* The argument.  At most one claim is active (ClaimsOK), it is taken only *)
(* when none is, so at most one handler is inside a wake and it owns the   *)
(* active claim (OwnersOK, HandlerOK).  A process runs only under an       *)
(* active claim (LiveOK), and where a handler may end the claim it knows   *)
(* its process to be gone, or never started, or the failed kill is noted   *)
(* in the handler (the last two conjuncts of HandlerOK).                   *)
(***************************************************************************)
EXTENDS Asks, TLAPS

HandlerState == [pc : PC, ask : Ask \cup {NoAsk}, tries : 0..MaxAttempts, cleanup : BOOLEAN]

\* Where no process of the wake is left, or none has started.
Stopped == {"targeting", "handing", "handed", "unhanded", "trying", "granting", "answered"}

\* Where the next delivery is still to be counted.
Uncounted == {"waiting", "looking", "claiming", "targeting", "trying"}

LiveOK == \A a \in live : claim[a] = "active"
ClaimsOK == \A a, b \in Ask : claim[a] = "active" /\ claim[b] = "active" => a = b
OwnersOK == \A h, k \in Handler : handler[h].pc \in Owning /\ handler[k].pc \in Owning => h = k
HandlerOK(h) ==
  /\ handler[h].pc # "idle" => Of(h) \in Ask
  /\ handler[h].pc \in Uncounted => handler[h].tries < MaxAttempts
  /\ handler[h].pc \in Owning => claim[Of(h)] = "active"
  /\ handler[h].pc \in Stopped => Of(h) \notin live
  /\ handler[h].pc = "holding" => handler[h].cleanup
  /\ handler[h].pc = "failed" /\ ~handler[h].cleanup => Of(h) \notin live

\* The inductive invariant.
IInv == TypeOK /\ LiveOK /\ ClaimsOK /\ OwnersOK /\ \A h \in Handler : HandlerOK(h)

-----------------------------------------------------------------------------
(***************************************************************************)
(* How handlers move.                                                      *)
(***************************************************************************)

LEMMA Types ==
  TypeOK <=>
    /\ status \in [Ask -> Status]
    /\ claim \in [Ask -> {"none", "active", "finished"}]
    /\ hold \in SUBSET Ask
    /\ replies \in SUBSET Ask
    /\ live \in SUBSET Ask
    /\ handler \in [Handler -> HandlerState]
    /\ crashed \in BOOLEAN
BY Zenon DEF TypeOK, HandlerState

\* The handler is in state v, the others are where they were.
Moved(h, v) ==
  /\ handler' \in [Handler -> HandlerState]
  /\ handler'[h] = v
  /\ \A k \in Handler \ {h} : handler'[k] = handler[k]

LEMMA SetHandler ==
  ASSUME TypeOK, NEW h \in Handler, NEW v \in HandlerState,
         handler' = [handler EXCEPT ![h] = v]
  PROVE  Moved(h, v)
BY Types DEF Moved

LEMMA IdleState ==
  /\ Idle \in HandlerState
  /\ Idle.pc = "idle"
  /\ Idle.tries = 0
BY AsksAssumption DEF Idle, HandlerState, PC

LEMMA LeaveMoves ==
  ASSUME TypeOK, NEW h \in Handler, Leave(h)
  PROVE  Moved(h, Idle)
BY SetHandler, IdleState DEF Leave

LEMMA BeginMoves ==
  ASSUME TypeOK, NEW h \in Handler, NEW a \in Ask, NEW pc \in PC, Begin(h, a, pc)
  PROVE  \E v \in HandlerState : Moved(h, v) /\ v.pc = pc /\ v.ask = a /\ v.tries = 0
<1> DEFINE u == [Idle EXCEPT !.pc = pc]
           v == [u EXCEPT !.ask = a]
<1>1. u \in HandlerState /\ u.pc = pc /\ u.tries = 0
  BY IdleState DEF HandlerState
<1>2. handler' = [handler EXCEPT ![h] = v]
  BY Zenon DEF Begin
<1> HIDE DEF u
<1>3. v \in HandlerState /\ v.pc = pc /\ v.ask = a /\ v.tries = 0
  BY <1>1 DEF HandlerState
<1> HIDE DEF v
<1> QED BY <1>2, <1>3, SetHandler

LEMMA GotoMoves ==
  ASSUME TypeOK, NEW h \in Handler, NEW pc \in PC, Goto(h, pc)
  PROVE  \E v \in HandlerState :
           /\ Moved(h, v)
           /\ v.pc = pc /\ v.ask = Of(h)
           /\ v.tries = handler[h].tries /\ v.cleanup = handler[h].cleanup
<1> DEFINE v == [handler[h] EXCEPT !.pc = pc]
<1>1. handler[h] \in HandlerState
  BY Types
<1>2. v \in HandlerState /\ v.pc = pc /\ v.ask = handler[h].ask /\ v.tries = handler[h].tries
        /\ v.cleanup = handler[h].cleanup
  BY <1>1 DEF HandlerState
<1>3. handler' = [handler EXCEPT ![h] = v]
  BY Zenon DEF Goto
<1> HIDE DEF v
<1> QED BY <1>2, <1>3, SetHandler DEF Of

LEMMA TypesNext ==
  ASSUME status' \in [Ask -> Status],
         claim' \in [Ask -> {"none", "active", "finished"}],
         hold' \in SUBSET Ask,
         replies' \in SUBSET Ask,
         live' \in SUBSET Ask,
         handler' \in [Handler -> HandlerState],
         crashed' \in BOOLEAN
  PROVE  TypeOK'
BY Zenon DEF TypeOK, HandlerState

LEMMA SetStatusType ==
  ASSUME TypeOK, NEW a \in Ask, NEW s \in Status, SetStatus(a, s)
  PROVE  status' \in [Ask -> Status]
BY Types DEF SetStatus

-----------------------------------------------------------------------------
(***************************************************************************)
(* What a step does to the claim and the processes, whichever it is.       *)
(***************************************************************************)

\* A handler outside of every wake, after the step, leaves claim and processes alone.
LEMMA Away ==
  ASSUME IInv, TypeOK', NEW h \in Handler, NEW v \in HandlerState, Moved(h, v),
         UNCHANGED <<claim, live>>,
         v.pc \notin Owning,
         v.pc # "idle" => v.ask \in Ask,
         v.pc \in Uncounted => v.tries < MaxAttempts
  PROVE  IInv'
<1>1. LiveOK' /\ ClaimsOK'
  BY DEF IInv, LiveOK, ClaimsOK
<1>2. OwnersOK'
  BY DEF IInv, OwnersOK, Moved
<1>3. ASSUME NEW k \in Handler PROVE HandlerOK(k)'
  BY DEF IInv, HandlerOK, Moved, Of, Owning, Stopped
<1> QED BY <1>1, <1>2, <1>3 DEF IInv

\* The handler that owns the active claim goes on with its wake; no other handler
\* is in one.
LEMMA Within ==
  ASSUME IInv, TypeOK', NEW h \in Handler, NEW v \in HandlerState, Moved(h, v),
         UNCHANGED claim,
         live' \subseteq live \cup {Of(h)},
         handler[h].pc \in Owning,
         v.pc \in Owning,
         v.ask = Of(h),
         v.pc \in Uncounted => v.tries < MaxAttempts,
         v.pc \in Stopped => Of(h) \notin live',
         v.pc = "holding" => v.cleanup,
         v.pc = "failed" /\ ~v.cleanup => Of(h) \notin live'
  PROVE  IInv'
<1>1. Of(h) \in Ask /\ claim[Of(h)] = "active"
  BY DEF IInv, HandlerOK, Owning
<1>2. LiveOK' /\ ClaimsOK'
  BY <1>1 DEF IInv, LiveOK, ClaimsOK
<1>3. OwnersOK'
  BY DEF IInv, OwnersOK, Moved
<1>4. HandlerOK(h)'
  BY <1>1 DEF HandlerOK, Moved, Of
<1>5. ASSUME NEW k \in Handler, k # h PROVE HandlerOK(k)'
  <2>1. handler'[k] = handler[k] /\ handler[k].pc \notin Owning
    BY <1>5 DEF IInv, OwnersOK, Moved
  <2> QED BY <2>1 DEF IInv, HandlerOK, Of, Owning, Stopped
<1> QED BY <1>2, <1>3, <1>4, <1>5 DEF IInv

\* The owner leaves its wake, and the claim ends only with the process gone.
LEMMA Ends ==
  ASSUME IInv, TypeOK', NEW h \in Handler, NEW v \in HandlerState, Moved(h, v),
         UNCHANGED live,
         handler[h].pc \in Owning,
         v.pc \notin Owning,
         v.pc \notin Uncounted,
         v.pc # "idle" => v.ask \in Ask,
         NEW cleanup \in BOOLEAN,
         claim' = Finished(Of(h), cleanup),
         ~cleanup => Of(h) \notin live
  PROVE  IInv'
<1>1. Of(h) \in Ask /\ claim \in [Ask -> {"none", "active", "finished"}]
  BY Types DEF IInv, HandlerOK, Owning
<1>2. \A a \in Ask : a # Of(h) => claim'[a] = claim[a]
  BY <1>1 DEF Finished
<1>3. \A a \in Ask : claim'[a] = "active" => claim[a] = "active"
  BY <1>1 DEF Finished
<1>4. Of(h) \in live => claim'[Of(h)] = claim[Of(h)]
  BY <1>1 DEF Finished
<1>5. LiveOK' /\ ClaimsOK'
  <2>1. live \subseteq Ask
    BY Types DEF IInv
  <2> QED BY <1>2, <1>3, <1>4, <2>1 DEF IInv, LiveOK, ClaimsOK
<1>6. OwnersOK'
  BY DEF IInv, OwnersOK, Moved
<1>7. HandlerOK(h)'
  BY DEF HandlerOK, Moved, Of, Owning, Stopped, Uncounted
<1>8. ASSUME NEW k \in Handler, k # h PROVE HandlerOK(k)'
  <2>1. handler'[k] = handler[k] /\ handler[k].pc \notin Owning
    BY <1>8 DEF IInv, OwnersOK, Moved
  <2> QED BY <2>1 DEF IInv, HandlerOK, Of, Owning, Stopped
<1> QED BY <1>5, <1>6, <1>7, <1>8 DEF IInv

\* A claim is taken when no claim is active: no handler is in a wake and no
\* process runs.
LEMMA Takes ==
  ASSUME IInv, TypeOK', NEW h \in Handler, NEW v \in HandlerState, Moved(h, v),
         UNCHANGED live,
         At(h, "claiming"),
         Claimable(Of(h)),
         claim' = [claim EXCEPT ![Of(h)] = "active"],
         v.pc = "targeting", v.ask = Of(h), v.tries < MaxAttempts
  PROVE  IInv'
<1>1. Of(h) \in Ask /\ claim \in [Ask -> {"none", "active", "finished"}] /\ live \subseteq Ask
  BY Types DEF IInv, HandlerOK, At
<1>2. \A a \in Ask : claim[a] # "active"
  BY <1>1 DEF Claimable, Busy
<1>3. live = {}
  BY <1>1, <1>2 DEF IInv, LiveOK
<1>4. \A k \in Handler : handler[k].pc \notin Owning
  BY <1>2 DEF IInv, HandlerOK, Owning
<1>5. claim'[Of(h)] = "active" /\ \A a \in Ask : claim'[a] = "active" => a = Of(h)
  BY <1>1, <1>2
<1>6. LiveOK' /\ ClaimsOK'
  BY <1>3, <1>5 DEF LiveOK, ClaimsOK
<1>7. OwnersOK'
  BY <1>4 DEF OwnersOK, Moved
<1>8. HandlerOK(h)'
  BY <1>1, <1>3, <1>5 DEF HandlerOK, Moved, Of
<1>9. ASSUME NEW k \in Handler, k # h PROVE HandlerOK(k)'
  BY <1>9, <1>4 DEF IInv, HandlerOK, Moved, Of, Owning, Stopped
<1> QED BY <1>6, <1>7, <1>8, <1>9 DEF IInv

-----------------------------------------------------------------------------
(***************************************************************************)
(* The steps.                                                              *)
(***************************************************************************)

LEMMA InitHolds ==
  ASSUME Init
  PROVE  IInv
<1>1. TypeOK
  BY IdleState, Types DEF Init, Status
<1>2. \A h \in Handler : handler[h].pc = "idle"
  BY IdleState DEF Init
<1>3. LiveOK /\ ClaimsOK
  BY DEF Init, LiveOK, ClaimsOK
<1>4. OwnersOK /\ \A h \in Handler : HandlerOK(h)
  BY <1>2 DEF OwnersOK, HandlerOK, Owning, Stopped, Uncounted
<1> QED BY <1>1, <1>3, <1>4 DEF IInv

LEMMA AskAgentStep ==
  ASSUME IInv, NEW h \in Handler, NEW a \in Ask, AskAgent(h, a)
  PROVE  IInv'
<1>0. TypeOK
  BY DEF IInv
<1>1. status' \in [Ask -> Status]
  BY <1>0, SetStatusType DEF AskAgent, Status
<1>2. CASE Begin(h, a, "claiming")
  <2>1. PICK v \in HandlerState : Moved(h, v) /\ v.pc = "claiming" /\ v.ask = a /\ v.tries = 0
    BY <1>0, <1>2, BeginMoves DEF PC
  <2>2. TypeOK'
    BY <1>0, <1>1, <2>1, Types, TypesNext DEF AskAgent, Moved
  <2> QED BY <2>1, <2>2, Away, AsksAssumption DEF AskAgent, Owning
<1>3. CASE UNCHANGED handler
  <2>1. TypeOK'
    BY <1>0, <1>1, <1>3, Types, TypesNext DEF AskAgent
  <2> QED BY <1>3, <2>1 DEF AskAgent, IInv, LiveOK, ClaimsOK, OwnersOK, HandlerOK, Of
<1> QED BY <1>2, <1>3 DEF AskAgent

LEMMA PublishStep ==
  ASSUME IInv, NEW h \in Handler, NEW a \in Ask, Publish(h, a)
  PROVE  IInv'
<1>0. TypeOK
  BY DEF IInv
<1>1. status' \in [Ask -> Status]
  BY <1>0, SetStatusType DEF Publish, Status
<1>2. PICK v \in HandlerState : Moved(h, v) /\ v.pc = "waiting" /\ v.ask = a /\ v.tries = 0
  BY <1>0, BeginMoves DEF Publish, PC
<1>3. TypeOK'
  BY <1>0, <1>1, <1>2, Types, TypesNext DEF Publish, Moved
<1> QED BY <1>2, <1>3, Away, AsksAssumption DEF Publish, Owning

LEMMA ReplyFromInboxStep ==
  ASSUME IInv, NEW h \in Handler, NEW a \in Ask, ReplyFromInbox(h, a)
  PROVE  IInv'
<1>0. TypeOK
  BY DEF IInv
<1>1. PICK v \in HandlerState : Moved(h, v) /\ v.pc = "marking" /\ v.ask = a
  BY <1>0, BeginMoves DEF ReplyFromInbox, PC
<1>2. TypeOK'
  BY <1>0, <1>1, Types, TypesNext DEF ReplyFromInbox, Moved, rows
<1> QED BY <1>1, <1>2, Away DEF ReplyFromInbox, Owning, Uncounted, rows

LEMMA BeginCancelStep ==
  ASSUME IInv, NEW h \in Handler, NEW a \in Ask, BeginCancel(h, a)
  PROVE  IInv'
<1>0. TypeOK
  BY DEF IInv
<1>1. PICK v \in HandlerState : Moved(h, v) /\ v.pc = "cancelling" /\ v.ask = a
  BY <1>0, BeginMoves DEF BeginCancel, PC
<1>2. TypeOK'
  BY <1>0, <1>1, Types, TypesNext DEF BeginCancel, Moved, rows
<1> QED BY <1>1, <1>2, Away DEF BeginCancel, Owning, Uncounted, rows

\* The steps outside of a wake that go on or give up, rows and processes untouched.
LEMMA WaitStep ==
  ASSUME IInv, NEW h \in Handler, WaitUntilIdle(h) \/ AbortWait(h) \/ LookAgain(h) \/ Crash(h)
  PROVE  IInv'
<1>0. TypeOK /\ HandlerOK(h)
  BY DEF IInv
<1>1. CASE Leave(h)
  <2>1. Idle \in HandlerState /\ Idle.pc = "idle" /\ Moved(h, Idle)
    BY <1>0, <1>1, IdleState, LeaveMoves
  <2>2. UNCHANGED <<status, claim, hold, replies, live>> /\ crashed' \in BOOLEAN
    BY <1>0, Types DEF WaitUntilIdle, AbortWait, LookAgain, Crash, rows
  <2>3. TypeOK'
    BY <1>0, <2>1, <2>2, Types, TypesNext DEF Moved
  <2> QED BY <2>1, <2>2, <2>3, Away DEF Owning, Uncounted
<1>2. CASE \E pc \in {"looking", "requeueing", "claiming"} :
             Goto(h, pc) /\ handler[h].pc \in {"waiting", "looking"} /\ UNCHANGED <<rows, live, crashed>>
  <2>1. PICK pc \in {"looking", "requeueing", "claiming"} :
             Goto(h, pc) /\ handler[h].pc \in {"waiting", "looking"} /\ UNCHANGED <<rows, live, crashed>>
    BY <1>2
  <2>2. PICK v \in HandlerState : Moved(h, v) /\ v.pc = pc /\ v.ask = Of(h) /\ v.tries = handler[h].tries
    BY <1>0, <2>1, GotoMoves DEF PC
  <2>3. TypeOK'
    BY <1>0, <2>1, <2>2, Types, TypesNext DEF rows, Moved
  <2>4. Of(h) \in Ask /\ handler[h].tries < MaxAttempts
    BY <1>0, <2>1 DEF HandlerOK, Uncounted
  <2> QED BY <2>1, <2>2, <2>3, <2>4, Away DEF Owning, rows
<1> QED BY <1>1, <1>2 DEF WaitUntilIdle, AbortWait, LookAgain, Crash, At

\* The steps outside of a wake that end with the handler idle and write the ask.
LEMMA WriteStep ==
  ASSUME IInv, NEW h \in Handler, Requeue(h) \/ AppendReply(h) \/ Cancel(h)
  PROVE  IInv'
<1>0. TypeOK /\ Of(h) \in Ask
  BY DEF IInv, HandlerOK, Requeue, AppendReply, Cancel, At
<1>1. Idle \in HandlerState /\ Idle.pc = "idle" /\ Moved(h, Idle)
  BY <1>0, IdleState, LeaveMoves DEF Requeue, AppendReply, Cancel
<1>2. status' \in [Ask -> Status]
  BY <1>0, SetStatusType, Types DEF Requeue, AppendReply, Cancel, Status
<1>3. replies' \in SUBSET Ask /\ UNCHANGED <<claim, hold, live, crashed>>
  BY <1>0, Types DEF Requeue, AppendReply, Cancel
<1>4. TypeOK'
  BY <1>0, <1>1, <1>2, <1>3, Types, TypesNext DEF Moved
<1> QED BY <1>1, <1>3, <1>4, Away DEF Owning, Uncounted

LEMMA MarkStep ==
  ASSUME IInv, NEW h \in Handler, Mark(h)
  PROVE  IInv'
<1>0. TypeOK /\ Of(h) \in Ask
  BY DEF IInv, HandlerOK, Mark, At
<1>1. PICK v \in HandlerState : Moved(h, v) /\ v.pc = "appending" /\ v.ask = Of(h)
  BY <1>0, GotoMoves DEF Mark, PC
<1>2. status' \in [Ask -> Status]
  BY <1>0, SetStatusType DEF Mark, Status
<1>3. TypeOK'
  BY <1>0, <1>1, <1>2, Types, TypesNext DEF Mark, Moved
<1> QED BY <1>0, <1>1, <1>3, Away DEF Mark, Owning, Uncounted

LEMMA ClaimExecutionStep ==
  ASSUME IInv, NEW h \in Handler, ClaimExecution(h)
  PROVE  IInv'
<1>0. TypeOK /\ Of(h) \in Ask /\ handler[h].tries < MaxAttempts
  BY DEF IInv, HandlerOK, ClaimExecution, At, Uncounted
<1>1. CASE Claimable(Of(h)) /\ claim' = [claim EXCEPT ![Of(h)] = "active"] /\ Goto(h, "targeting")
  <2>1. PICK v \in HandlerState : Moved(h, v) /\ v.pc = "targeting" /\ v.ask = Of(h)
                                    /\ v.tries = handler[h].tries
    BY <1>0, <1>1, GotoMoves DEF PC, Owning
  <2>2. claim' \in [Ask -> {"none", "active", "finished"}]
    BY <1>0, <1>1, Types
  <2>3. TypeOK'
    BY <1>0, <2>1, <2>2, Types, TypesNext DEF ClaimExecution, Moved
  <2> QED BY <1>0, <1>1, <2>1, <2>3, Takes DEF ClaimExecution
<1>2. CASE UNCHANGED claim /\ Goto(h, "requeueing")
  <2>1. PICK v \in HandlerState : Moved(h, v) /\ v.pc = "requeueing" /\ v.ask = Of(h)
    BY <1>0, <1>2, GotoMoves DEF PC
  <2>2. TypeOK'
    BY <1>0, <1>2, <2>1, Types, TypesNext DEF ClaimExecution, Moved
  <2> QED BY <1>0, <1>2, <2>1, <2>2, Away DEF ClaimExecution, Owning, Uncounted
<1> QED BY <1>1, <1>2 DEF ClaimExecution

\* The steps of a wake up to its first delivery.
LEMMA TargetStep ==
  ASSUME IInv, NEW h \in Handler, FindTargets(h) \/ HandToDesktop(h) \/ HandOffFails(h)
  PROVE  IInv'
<1>0. /\ TypeOK /\ Of(h) \in Ask /\ Of(h) \notin live
      /\ handler[h].pc \in Owning
      /\ handler[h].pc = "targeting" => handler[h].tries < MaxAttempts
  BY DEF IInv, HandlerOK, FindTargets, HandToDesktop, HandOffFails, At, Owning, Stopped, Uncounted
<1>1. PICK pc \in {"trying", "failed", "handing", "handed", "unhanded"} :
        Goto(h, pc) /\ (pc = "trying" => handler[h].pc = "targeting")
  BY DEF FindTargets, HandToDesktop, HandOffFails, At
<1>2. PICK v \in HandlerState : Moved(h, v) /\ v.pc = pc /\ v.ask = Of(h) /\ v.tries = handler[h].tries
  BY <1>0, <1>1, GotoMoves DEF PC, Owning
<1>3. status' \in [Ask -> Status] /\ UNCHANGED <<claim, hold, replies, live, crashed>>
  BY <1>0, SetStatusType, Types DEF FindTargets, HandToDesktop, HandOffFails, Status, rows
<1>4. TypeOK'
  BY <1>0, <1>2, <1>3, Types, TypesNext DEF Moved
<1> QED BY <1>0, <1>1, <1>2, <1>3, <1>4, Within DEF Owning, Uncounted

LEMMA TryStep ==
  ASSUME IInv, NEW h \in Handler, Try(h)
  PROVE  IInv'
<1>0. TypeOK /\ Of(h) \in Ask /\ Of(h) \notin live /\ handler[h].tries < MaxAttempts
  BY DEF IInv, HandlerOK, Try, At, Stopped, Uncounted
<1> DEFINE v == [handler[h] EXCEPT !.pc = "granting", !.tries = @ + 1]
<1>1. v \in HandlerState /\ v.pc = "granting" /\ v.ask = Of(h)
  <2> DEFINE u == [handler[h] EXCEPT !.pc = "granting"]
             t == [u EXCEPT !.tries = u.tries + 1]
  <2>1. handler[h] \in HandlerState
    BY <1>0, Types
  <2>2. u \in HandlerState /\ u.pc = "granting" /\ u.ask = Of(h) /\ u.tries < MaxAttempts
    BY <1>0, <2>1 DEF HandlerState, PC, Owning, Of
  <2>3. v = t
    BY Zenon
  <2> HIDE DEF u, v
  <2>4. u.tries + 1 \in 0..MaxAttempts
    BY <2>2, AsksAssumption DEF HandlerState
  <2>5. t \in HandlerState /\ t.pc = "granting" /\ t.ask = Of(h)
    BY <2>2, <2>4 DEF HandlerState
  <2> QED BY <2>3, <2>5
<1>2. handler' = [handler EXCEPT ![h] = v]
  BY Zenon DEF Try
<1> HIDE DEF v
<1>3. Moved(h, v)
  BY <1>0, <1>1, <1>2, SetHandler
<1>4. status' \in [Ask -> Status]
  BY <1>0, SetStatusType DEF Try, Status
<1>5. TypeOK'
  BY <1>0, <1>3, <1>4, Types, TypesNext DEF Try, Moved
<1> QED BY <1>0, <1>1, <1>3, <1>5, Within DEF Try, At, Owning, Uncounted

\* A delivery that fails with no process left.
LEMMA NextOrFailedStep ==
  ASSUME IInv, NEW h \in Handler, handler[h].pc \in {"granting", "running"}, NextOrFailed(h),
         UNCHANGED <<rows, crashed>>,
         live' \in SUBSET live, Of(h) \notin live'
  PROVE  IInv'
<1>0. TypeOK /\ Of(h) \in Ask
  BY DEF IInv, HandlerOK
<1>1. PICK pc \in {"trying", "failed"} : Goto(h, pc) /\ (pc = "trying" => handler[h].tries < MaxAttempts)
  BY DEF NextOrFailed
<1>2. PICK v \in HandlerState : Moved(h, v) /\ v.pc = pc /\ v.ask = Of(h) /\ v.tries = handler[h].tries
  BY <1>0, <1>1, GotoMoves DEF PC, Owning
<1>3. TypeOK'
  BY <1>0, <1>2, Types, TypesNext DEF rows, Moved
<1> QED BY <1>1, <1>2, <1>3, Within DEF Owning, Uncounted, rows

LEMMA GrantStep ==
  ASSUME IInv, NEW h \in Handler, Grant(h)
  PROVE  IInv'
<1>0. TypeOK /\ Of(h) \in Ask /\ Of(h) \notin live
  BY DEF IInv, HandlerOK, Grant, At, Stopped
<1>1. CASE live' = live \cup {Of(h)} /\ Goto(h, "running")
  <2>1. PICK v \in HandlerState : Moved(h, v) /\ v.pc = "running" /\ v.ask = Of(h)
    BY <1>0, <1>1, GotoMoves DEF PC, Owning
  <2>2. TypeOK'
    BY <1>0, <1>1, <2>1, Types, TypesNext DEF Grant, Moved, rows
  <2> QED BY <1>1, <2>1, <2>2, Within DEF Grant, At, Owning, Uncounted, Stopped, rows
<1>2. CASE NextOrFailed(h) /\ UNCHANGED live
  BY <1>0, <1>2, NextOrFailedStep DEF Grant, At
<1> QED BY <1>1, <1>2 DEF Grant

LEMMA ClientEndsStep ==
  ASSUME IInv, NEW h \in Handler, ClientEnds(h)
  PROVE  IInv'
<1>0. TypeOK /\ Of(h) \in Ask
  BY DEF IInv, HandlerOK, ClientEnds, At
<1>1. CASE Goto(h, "answered")
  <2>1. PICK v \in HandlerState : Moved(h, v) /\ v.pc = "answered" /\ v.ask = Of(h)
    BY <1>0, <1>1, GotoMoves DEF PC, Owning
  <2>2. TypeOK'
    BY <1>0, <2>1, Types, TypesNext DEF ClientEnds, Moved, rows
  <2> QED BY <2>1, <2>2, Within DEF ClientEnds, At, Owning, Uncounted, rows
<1>2. CASE NextOrFailed(h)
  BY <1>2, NextOrFailedStep DEF ClientEnds, At
<1> QED BY <1>1, <1>2 DEF ClientEnds

LEMMA CleanupFailsStep ==
  ASSUME IInv, NEW h \in Handler, CleanupFails(h)
  PROVE  IInv'
<1>0. TypeOK /\ Of(h) \in Ask
  BY DEF IInv, HandlerOK, CleanupFails, At
<1> DEFINE v == [handler[h] EXCEPT !.pc = "holding", !.cleanup = TRUE]
<1>1. v \in HandlerState /\ v.pc = "holding" /\ v.ask = Of(h) /\ v.cleanup
  <2>1. handler[h] \in HandlerState
    BY <1>0, Types
  <2> QED BY <2>1 DEF HandlerState, PC, Owning, Of
<1>2. handler' = [handler EXCEPT ![h] = v]
  BY Zenon DEF CleanupFails
<1> HIDE DEF v
<1>3. Moved(h, v)
  BY <1>0, <1>1, <1>2, SetHandler
<1>4. live' \subseteq live
  BY DEF CleanupFails
<1>5. TypeOK'
  BY <1>0, <1>3, <1>4, Types, TypesNext DEF CleanupFails, Moved, rows
<1> QED BY <1>1, <1>3, <1>4, <1>5, Within DEF CleanupFails, At, Owning, Uncounted, Stopped, rows

LEMMA SetCleanupStep ==
  ASSUME IInv, NEW h \in Handler, SetCleanup(h)
  PROVE  IInv'
<1>0. TypeOK /\ Of(h) \in Ask /\ handler[h].cleanup
  BY DEF IInv, HandlerOK, SetCleanup, At
<1>1. PICK v \in HandlerState : Moved(h, v) /\ v.pc = "failed" /\ v.ask = Of(h)
                                  /\ v.cleanup = handler[h].cleanup
  BY <1>0, GotoMoves DEF SetCleanup, PC, Owning
<1>2. TypeOK'
  BY <1>0, <1>1, Types, TypesNext DEF SetCleanup, Moved
<1> QED BY <1>0, <1>1, <1>2, Within DEF SetCleanup, At, Owning, Uncounted, Stopped

\* The three ends of a wake.
LEMMA EndStep ==
  ASSUME IInv, NEW h \in Handler, HandedOff(h) \/ WakeFailed(h) \/ WakeAnswered(h)
  PROVE  IInv'
<1>0. TypeOK /\ Of(h) \in Ask /\ handler[h].pc \in Owning
  BY DEF IInv, HandlerOK, HandedOff, WakeFailed, WakeAnswered, At, Owning
<1>1. handler[h].cleanup \in BOOLEAN
  BY <1>0, Types DEF HandlerState
<1>2. PICK cleanup \in BOOLEAN : claim' = Finished(Of(h), cleanup) /\ (~cleanup => Of(h) \notin live)
  BY <1>1, Zenon DEF IInv, HandlerOK, HandedOff, WakeFailed, WakeAnswered, At, Stopped
<1>3. claim' \in [Ask -> {"none", "active", "finished"}]
  BY <1>0, <1>2, Types DEF Finished
<1>4. PICK v \in HandlerState : /\ Moved(h, v)
                                /\ v.pc \in {"idle", "requeueing", "marking"}
                                /\ v.pc # "idle" => v.ask = Of(h)
  BY <1>0, GotoMoves, LeaveMoves, IdleState DEF HandedOff, WakeFailed, WakeAnswered, PC
<1>5. TypeOK' /\ UNCHANGED live
  BY <1>0, <1>3, <1>4, Types, TypesNext DEF HandedOff, WakeFailed, WakeAnswered, Moved
<1> QED BY <1>0, <1>2, <1>4, <1>5, Ends DEF Owning, Uncounted

LEMMA OrphanEndsStep ==
  ASSUME IInv, NEW a \in Ask, OrphanEnds(a)
  PROVE  IInv'
<1>1. TypeOK'
  BY Types, TypesNext DEF IInv, OrphanEnds, rows
<1> QED BY <1>1 DEF OrphanEnds, IInv, LiveOK, ClaimsOK, OwnersOK, HandlerOK, Of, rows

LEMMA NextHolds ==
  ASSUME IInv, [Next]_vars
  PROVE  IInv'
<1>1. CASE Next
  <2>1. ASSUME NEW h \in Handler, Step(h) PROVE IInv'
    BY <2>1, WaitStep, WriteStep, MarkStep, ClaimExecutionStep, TargetStep, TryStep, GrantStep,
       ClientEndsStep, CleanupFailsStep, SetCleanupStep, EndStep, Zenon DEF Step
  <2>2. ASSUME NEW h \in Handler, WaitUntilIdle(h) \/ AbortWait(h) \/ Crash(h) PROVE IInv'
    BY <2>2, WaitStep
  <2>3. ASSUME NEW h \in Handler, NEW a \in Ask,
               AskAgent(h, a) \/ Publish(h, a) \/ ReplyFromInbox(h, a) \/ BeginCancel(h, a)
        PROVE  IInv'
    BY <2>3, AskAgentStep, PublishStep, ReplyFromInboxStep, BeginCancelStep
  <2> QED BY <1>1, <2>1, <2>2, <2>3, OrphanEndsStep, Zenon DEF Next
<1>2. CASE UNCHANGED vars
  <2>1. TypeOK'
    BY <1>2, Types, TypesNext DEF IInv, vars, rows
  <2> QED BY <1>2, <2>1 DEF IInv, vars, rows, LiveOK, ClaimsOK, OwnersOK, HandlerOK, Of
<1> QED BY <1>1, <1>2

-----------------------------------------------------------------------------
(***************************************************************************)
(* The theorems.                                                           *)
(***************************************************************************)

\* Claims, handlers and processes of the Agent keep to the invariant above.
THEOREM Inductive == Spec => []IInv
<1> QED BY InitHolds, NextHolds, PTL DEF Spec

\* Every variable keeps its type.
THEOREM TypesHold == Spec => []TypeOK
<1>1. IInv => TypeOK
  BY DEF IInv
<1> QED BY <1>1, Inductive, PTL

\* Whichever processes wake the Agent, however kills fail and whoever ends in the
\* middle, no two client processes run for it at once (service.js:231).
THEOREM WakesAreExclusive == Spec => []OneWakePerAgent
<1>1. IInv => OneWakePerAgent
  <2>1. TypeOK => live \subseteq Ask
    BY Types
  <2> QED BY <2>1 DEF IInv, LiveOK, ClaimsOK, OneWakePerAgent
<1> QED BY <1>1, Inductive, PTL

\* An execution claim that is over has no client process left (service.js:232).
THEOREM ClaimsOutliveProcesses == Spec => []FinishedMeansStopped
<1>1. IInv => FinishedMeansStopped
  BY DEF IInv, LiveOK, FinishedMeansStopped
<1> QED BY <1>1, Inductive, PTL

=============================================================================
