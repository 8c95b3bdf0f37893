--------------------------- MODULE PeerSender_proofs ---------------------------
(***************************************************************************)
(* PeerSender for every set of messages, chat wakes and processes and any  *)
(* number of crashes: the types, that of the chat wakes of one remote      *)
(* Agent at most one may run, and that what asks show as over is true.     *)
(*                                                                         *)
(* The argument.  A chat wake that may run holds an active claim (RowOK)   *)
(* and two claims are never active (ClaimsOK).  A message is handed over   *)
(* by one process (HandingOK), once, so a refusal tells that it never      *)
(* runs; and what a process was told to be over, however long ago, is over *)
(* for good (ProcOK, Over).  What asks show is a second invariant, Shown.  *)
(***************************************************************************)
EXTENDS PeerSender, TLAPS

-----------------------------------------------------------------------------
(***************************************************************************)
(* What follows from the promise alone, and so holds of every system that  *)
(* implements it: the sending device need not know how the coordinator and *)
(* the receiving device keep it.                                           *)
(***************************************************************************)
PromiseInv == Stopped /\ Answered /\ Unstarted

LEMMA PromiseKeeps == ASSUME PromiseInv, [DeliverSome]_deliveryVars PROVE PromiseInv'
<1>1. CASE UNCHANGED deliveryVars BY <1>1 DEF deliveryVars, PromiseInv, Stopped, Answered, Unstarted
<1>2. CASE DeliverSome
  <2> SUFFICES ASSUME NEW m \in Message
               PROVE  /\ status'[m] \in Final /\ run'[m] = "live" => hold'[m]
                      /\ status'[m] = "answered" => run'[m] = "gone"
                      /\ status'[m] \in {"absent", "queued", "expired"} => run'[m] = "never"
    BY DEF PromiseInv, Stopped, Answered, Unstarted
  <2>1. /\ status[m] \in Final /\ run[m] = "live" => hold[m]
        /\ status[m] = "answered" => run[m] = "gone"
        /\ status[m] \in {"absent", "queued", "expired"} => run[m] = "never"
    BY DEF PromiseInv, Stopped, Answered, Unstarted
  <2>2. CASE status'[m] = status[m] /\ run'[m] = run[m] /\ hold'[m] = hold[m] BY <2>1, <2>2
  <2>3. CASE May(m, status'[m], run'[m], hold'[m])
    <3>1. CASE WithoutRun(m, status'[m]) /\ run'[m] = run[m] BY <3>1 DEF WithoutRun
    <3>2. CASE Progress(m, status'[m]) BY <3>2 DEF Progress, Final
    <3>3. CASE Reported(m, status'[m], hold'[m]) /\ run'[m] = run[m] BY <3>3 DEF Reported, Final
    <3>4. CASE /\ status'[m] = status[m] /\ hold'[m] = hold[m]
               /\ \/ run[m] = "never" /\ run'[m] = "live" /\ status'[m] \in Held \cup {"unknown"}
                  \/ run[m] = "live" /\ run'[m] = "gone"
      BY <2>1, <3>4 DEF Held, Final
    <3> QED BY <2>3, <3>1, <3>2, <3>3, <3>4 DEF May
  <2> QED BY <1>2, <2>2, <2>3 DEF DeliverSome
<1> QED BY <1>1, <1>2

LEMMA PromiseKept == Promise => []PromiseInv
<1>1. DeliveryInit => PromiseInv BY DEF DeliveryInit, PromiseInv, Stopped, Answered, Unstarted, Final
<1>2. PromiseInv /\ [DeliverSome]_deliveryVars => PromiseInv' BY PromiseKeeps
<1> QED BY <1>1, <1>2, PTL DEF Promise

\* A message with a final status has no process, unless its cleanup is
\* unconfirmed (coordinator-service.js, deliveryResult).
THEOREM FinishedMeansStopped == Promise => []Stopped
<1>1. PromiseInv => Stopped BY DEF PromiseInv
<1> QED BY <1>1, PromiseKept, PTL

\* An answer was given by a process that ran and is over (runner.js, supervise).
THEOREM AnsweredByAProcess == Promise => []Answered
<1>1. PromiseInv => Answered BY DEF PromiseInv
<1> QED BY <1>1, PromiseKept, PTL

\* What is shown as waiting or expired has not run (coordinator-service.js,
\* sweep: a lapsed lease is never taken for not started).
THEOREM WaitingHasNotRun == Promise => []Unstarted
<1>1. PromiseInv => Unstarted BY DEF PromiseInv
<1> QED BY <1>1, PromiseKept, PTL

-----------------------------------------------------------------------------
(***************************************************************************)
(* The sending device.                                                     *)
(***************************************************************************)

\* Where a process has the message in hand, and where it has an answer of the
\* coordinator.
Handing == {"claiming", "signing", "submitting"}
Viewing == {"waiting", "got", "writing", "appending", "finishing"}

\* Nothing of m runs, now or later.
Over(m) == status[m] \in Final /\ run[m] # "live" /\ m \notin posted

RowOK(m) ==
  /\ ask[m] = "absent" => m \notin posted /\ status[m] = "absent"
  /\ m \in posted => status[m] = "absent"
  /\ status[m] \in {"absent", "queued"} => run[m] = "never"
  /\ status[m] \in Final /\ run[m] = "live" => hold[m]
  /\ claim[m] = "active" => m \in ChatWake
  /\ m \in ChatWake /\ MayRun(m) => claim[m] = "active"

ProcOK(p) ==
  /\ proc[p].pc # "idle" => Msg(p) \in Message
  /\ proc[p].pc = "claiming" => Msg(p) \in ChatWake
  /\ proc[p].pc \in Handing => ask[Msg(p)] # "absent"
  /\ proc[p].pc \in {"claiming", "signing"} => Msg(p) \notin posted /\ status[Msg(p)] = "absent"
  /\ proc[p].pc = "signing" /\ Msg(p) \in ChatWake => claim[Msg(p)] = "active"
  /\ proc[p].pc \in Viewing =>
       /\ status[Msg(p)] # "absent"
       /\ proc[p].view.status # "absent"
       /\ EndsClaim(proc[p].view) => Over(Msg(p))

ClaimsOK == \A m, n \in Message : claim[m] = "active" /\ claim[n] = "active" => m = n
HandingOK ==
  \A p, q \in Process :
    proc[p].pc \in Handing /\ proc[q].pc \in Handing /\ Msg(p) = Msg(q) => p = q

\* The inductive invariant.
IInv ==
  /\ TypeOK
  /\ \A m \in Message : RowOK(m)
  /\ ClaimsOK
  /\ HandingOK
  /\ \A p \in Process : ProcOK(p)

-----------------------------------------------------------------------------
(***************************************************************************)
(* How processes move.                                                     *)
(***************************************************************************)

\* The process is in state v, the others are where they were.
Moved(p, v) ==
  /\ proc' \in [Process -> Handler]
  /\ proc'[p] = v
  /\ \A q \in Process \ {p} : proc'[q] = proc[q]

LEMMA SetProc ==
  ASSUME TypeOK, NEW p \in Process, NEW v \in Handler, proc' = [proc EXCEPT ![p] = v]
  PROVE  Moved(p, v)
BY DEF TypeOK, Moved

LEMMA ViewTypes ==
  /\ NoView \in View
  /\ \A s \in Status, h \in BOOLEAN : [status |-> s, hold |-> h] \in View
  /\ \A w \in View : w.status \in Status /\ w.hold \in BOOLEAN
BY DEF NoView, View, Status, Held, Final

LEMMA IdleState ==
  /\ Idle \in Handler
  /\ Idle.pc = "idle"
<1>1. NoView \in View
  BY ViewTypes
<1> QED BY <1>1 DEF Idle, Handler, PC, AskStatus

\* A state with one field changed.
LEMMA WithPc ==
  ASSUME NEW v \in Handler, NEW pc \in PC
  PROVE  LET w == [v EXCEPT !.pc = pc] IN
         w \in Handler /\ w.pc = pc /\ w.m = v.m /\ w.view = v.view /\ w.read = v.read
BY DEF Handler

LEMMA WithMsg ==
  ASSUME NEW v \in Handler, NEW m \in Message
  PROVE  LET w == [v EXCEPT !.m = m] IN
         w \in Handler /\ w.pc = v.pc /\ w.m = m /\ w.view = v.view /\ w.read = v.read
BY DEF Handler

LEMMA WithView ==
  ASSUME NEW v \in Handler, NEW view \in View
  PROVE  LET w == [v EXCEPT !.view = view] IN
         w \in Handler /\ w.pc = v.pc /\ w.m = v.m /\ w.view = view /\ w.read = v.read
BY DEF Handler

LEMMA WithRead ==
  ASSUME NEW v \in Handler, NEW s \in AskStatus
  PROVE  LET w == [v EXCEPT !.read = s] IN
         w \in Handler /\ w.pc = v.pc /\ w.m = v.m /\ w.view = v.view /\ w.read = s
BY DEF Handler

LEMMA LeaveMoves ==
  ASSUME TypeOK, NEW p \in Process, Leave(p)
  PROVE  Moved(p, Idle)
BY SetProc, IdleState DEF Leave

LEMMA GotoMoves ==
  ASSUME TypeOK, NEW p \in Process, NEW pc \in PC, Goto(p, pc)
  PROVE  \E v \in Handler : Moved(p, v) /\ v.pc = pc /\ v.m = Msg(p) /\ v.view = proc[p].view
<1> DEFINE v == [proc[p] EXCEPT !.pc = pc]
<1>1. proc[p] \in Handler
  BY DEF TypeOK
<1>2. v \in Handler /\ v.pc = pc /\ v.m = proc[p].m /\ v.view = proc[p].view
  BY <1>1, WithPc
<1>3. proc' = [proc EXCEPT ![p] = v]
  BY Zenon DEF Goto
<1> HIDE DEF v
<1> QED BY <1>2, <1>3, SetProc DEF Msg

\* Ask and Refresh: an idle process takes up a message.
TakesUp(p, pc, m) == proc' = [proc EXCEPT ![p].pc = pc, ![p].m = m]
LooksUp(p, m, view) == proc' = [proc EXCEPT ![p].pc = "got", ![p].m = m, ![p].view = view]

LEMMA TakeMoves ==
  ASSUME TypeOK, NEW p \in Process, NEW pc \in PC, NEW m \in Message,
         TakesUp(p, pc, m)
  PROVE  \E v \in Handler : Moved(p, v) /\ v.pc = pc /\ v.m = m
<1> DEFINE u == [proc[p] EXCEPT !.pc = pc]
           v == [u EXCEPT !.m = m]
<1>1. proc[p] \in Handler
  BY DEF TypeOK
<1>2. u \in Handler /\ u.pc = pc
  BY <1>1, WithPc
<1>3. proc' = [proc EXCEPT ![p] = v]
  BY <1>1, Zenon DEF TypeOK, TakesUp
<1> HIDE DEF u
<1>4. v \in Handler /\ v.pc = pc /\ v.m = m
  BY <1>2, WithMsg
<1> HIDE DEF v
<1> QED BY <1>3, <1>4, SetProc

LEMMA RefreshMoves ==
  ASSUME TypeOK, NEW p \in Process, NEW m \in Message, NEW view \in View,
         LooksUp(p, m, view)
  PROVE  \E v \in Handler : Moved(p, v) /\ v.pc = "got" /\ v.m = m /\ v.view = view
<1> DEFINE u == [proc[p] EXCEPT !.pc = "got"]
           t == [u EXCEPT !.m = m]
           v == [t EXCEPT !.view = view]
<1>1. proc[p] \in Handler
  BY DEF TypeOK
<1>2. u \in Handler /\ u.pc = "got"
  BY <1>1, WithPc DEF PC
<1>3. proc' = [proc EXCEPT ![p] = v]
  BY <1>1, Zenon DEF TypeOK, LooksUp
<1> HIDE DEF u
<1>4. t \in Handler /\ t.pc = "got" /\ t.m = m
  BY <1>2, WithMsg
<1> HIDE DEF t
<1>5. v \in Handler /\ v.pc = "got" /\ v.m = m /\ v.view = view
  BY <1>4, WithView
<1> HIDE DEF v
<1> QED BY <1>3, <1>5, SetProc

\* Accept answered, and Observe: the process is told of the message.
LEMMA ToldMoves ==
  ASSUME TypeOK, NEW p \in Process, NEW view \in View,
         \/ proc' = [proc EXCEPT ![p].pc = "waiting", ![p].view = view]
         \/ proc[p].pc = "waiting" /\ proc' = [proc EXCEPT ![p].view = view]
  PROVE  \E v \in Handler : Moved(p, v) /\ v.pc = "waiting" /\ v.m = Msg(p) /\ v.view = view
<1>1. proc[p] \in Handler
  BY DEF TypeOK
<1>2. CASE proc' = [proc EXCEPT ![p].pc = "waiting", ![p].view = view]
  <2> DEFINE u == [proc[p] EXCEPT !.pc = "waiting"]
             v == [u EXCEPT !.view = view]
  <2>1. u \in Handler /\ u.pc = "waiting" /\ u.m = proc[p].m
    BY <1>1, WithPc DEF PC
  <2>2. proc' = [proc EXCEPT ![p] = v]
    BY <1>1, <1>2, Zenon DEF TypeOK
  <2> HIDE DEF u
  <2>3. v \in Handler /\ v.pc = "waiting" /\ v.m = proc[p].m /\ v.view = view
    BY <2>1, WithView
  <2> HIDE DEF v
  <2> QED BY <2>2, <2>3, SetProc DEF Msg
<1>3. CASE proc[p].pc = "waiting" /\ proc' = [proc EXCEPT ![p].view = view]
  <2> DEFINE v == [proc[p] EXCEPT !.view = view]
  <2>1. v \in Handler /\ v.pc = "waiting" /\ v.m = proc[p].m /\ v.view = view
    BY <1>1, <1>3, WithView
  <2>2. proc' = [proc EXCEPT ![p] = v]
    BY <1>3, Zenon
  <2> HIDE DEF v
  <2> QED BY <2>1, <2>2, SetProc DEF Msg
<1> QED BY <1>2, <1>3

LEMMA ReadMoves ==
  ASSUME TypeOK, NEW p \in Process, NEW s \in AskStatus,
         proc' = [proc EXCEPT ![p].pc = "writing", ![p].read = s]
  PROVE  \E v \in Handler : Moved(p, v) /\ v.pc = "writing" /\ v.m = Msg(p) /\ v.view = proc[p].view
<1> DEFINE u == [proc[p] EXCEPT !.pc = "writing"]
           v == [u EXCEPT !.read = s]
<1>1. proc[p] \in Handler
  BY DEF TypeOK
<1>2. u \in Handler /\ u.pc = "writing" /\ u.m = proc[p].m /\ u.view = proc[p].view
  BY <1>1, WithPc DEF PC
<1>3. proc' = [proc EXCEPT ![p] = v]
  BY <1>1, Zenon DEF TypeOK
<1> HIDE DEF u
<1>4. v \in Handler /\ v.pc = "writing" /\ v.m = proc[p].m /\ v.view = proc[p].view
  BY <1>2, WithRead
<1> HIDE DEF v
<1> QED BY <1>3, <1>4, SetProc DEF Msg

\* No ask row is removed.
AsksStay == \A m \in Message : ask'[m] = "absent" => ask[m] = "absent"

LEMMA SetAskStays ==
  ASSUME TypeOK, NEW m \in Message, NEW s \in AskStatus \ {"absent"}, SetAsk(m, s)
  PROVE  AsksStay /\ ask' \in [Message -> AskStatus] /\ ask'[m] # "absent"
BY DEF TypeOK, SetAsk, AsksStay

-----------------------------------------------------------------------------
(***************************************************************************)
(* What a step does to messages and claims, whichever it is.               *)
(***************************************************************************)

\* A process goes on, with no message in hand; messages and claims stay.
LEMMA GoesOn ==
  ASSUME IInv, TypeOK', NEW p \in Process, NEW v \in Handler, Moved(p, v),
         UNCHANGED <<status, run, hold, claim, posted>>,
         AsksStay,
         v.pc \notin Handing,
         v.pc # "idle" => v.m \in Message,
         v.pc \in Viewing => /\ status[v.m] # "absent"
                             /\ v.view.status # "absent"
                             /\ EndsClaim(v.view) => Over(v.m)
  PROVE  IInv'
<1>1. ASSUME NEW m \in Message PROVE RowOK(m)'
  BY DEF IInv, RowOK, MayRun, AsksStay
<1>2. ClaimsOK'
  BY DEF IInv, ClaimsOK
<1>3. HandingOK'
  BY DEF IInv, HandingOK, Moved, Msg
<1>4. ASSUME NEW q \in Process PROVE ProcOK(q)'
  <2>1. CASE q = p
    <3>1. proc'[p] = v /\ Msg(p)' = v.m
      BY DEF Moved, Msg
    <3>2. v.pc \in Viewing => /\ status'[v.m] # "absent"
                              /\ v.view.status # "absent"
                              /\ EndsClaim(v.view) => Over(v.m)'
      BY DEF Over
    <3>3. v.pc \notin {"claiming", "signing"}
      BY DEF Handing
    <3> QED BY <2>1, <3>1, <3>2, <3>3 DEF ProcOK, EndsClaim
  <2>2. CASE q # p
    <3>1. ProcOK(q) /\ proc'[q] = proc[q]
      BY <2>2 DEF IInv, Moved
    <3> QED BY <3>1 DEF ProcOK, Msg, Handing, EndsClaim, Over, AsksStay
  <2> QED BY <2>1, <2>2
<1> QED BY <1>1, <1>2, <1>3, <1>4 DEF IInv

\* A process gives the claim back and leaves: nothing of the message runs any more.
LEMMA Releases ==
  ASSUME IInv, TypeOK', NEW p \in Process, NEW m \in Message, Moved(p, Idle),
         UNCHANGED <<status, run, hold>>,
         posted' \subseteq posted, m \notin posted',
         posted \ {m} \subseteq posted',
         status[m] \in {"absent"} \cup Final,
         run[m] # "live",
         FinishExecution(m),
         AsksStay,
         \A q \in Process \ {p} : proc[q].pc = "signing" => Msg(q) # m
  PROVE  IInv'
<1>1. /\ \A n \in Message \ {m} : claim'[n] = claim[n]
      /\ claim'[m] = "active" => claim[m] = "active"
  BY DEF IInv, TypeOK, FinishExecution
<1>2. ASSUME NEW n \in Message PROVE RowOK(n)'
  <2>1. CASE n = m
    <3>1. ~MayRun(m)'
      BY DEF MayRun, Held, Final
    <3> QED BY <1>1, <2>1, <3>1 DEF IInv, RowOK, AsksStay
  <2>2. CASE n # m
    BY <1>1, <2>2 DEF IInv, RowOK, MayRun, AsksStay
  <2> QED BY <2>1, <2>2
<1>3. ClaimsOK'
  BY <1>1 DEF IInv, ClaimsOK
<1>4. HandingOK'
  BY IdleState DEF IInv, HandingOK, Moved, Msg, Handing
<1>5. ASSUME NEW q \in Process PROVE ProcOK(q)'
  <2>1. CASE q = p
    BY <2>1, IdleState DEF ProcOK, Moved, Handing, Viewing
  <2>2. CASE q # p
    <3>1. ProcOK(q) /\ proc'[q] = proc[q]
      BY <2>2 DEF IInv, Moved
    <3>2. proc[q].pc = "signing" => Msg(q) # m
      BY <2>2
    <3> QED BY <1>1, <3>1, <3>2 DEF ProcOK, Msg, Handing, EndsClaim, Over, AsksStay
  <2> QED BY <2>1, <2>2
<1> QED BY <1>2, <1>3, <1>4, <1>5 DEF IInv

\* A submission that failed and gave the claim back, or kept it.
LEMMA FailedSubmission ==
  ASSUME IInv, NEW p \in Process, NEW refused \in BOOLEAN, SendFails(p, refused),
         proc[p].pc \in {"signing", "submitting"},
         UNCHANGED <<deliveryVars, replies, cleanup, sent, crashes>>,
         \/ UNCHANGED posted /\ (refused => proc[p].pc = "signing")
         \/ posted' = posted \ {Msg(p)} /\ Msg(p) \in posted /\ proc[p].pc = "submitting" /\ refused
  PROVE  IInv'
<1> DEFINE m == Msg(p)
<1>0. TypeOK /\ m \in Message /\ RowOK(m) /\ ProcOK(p)
  BY DEF IInv, ProcOK
<1>1. Moved(p, Idle)
  BY <1>0, LeaveMoves DEF SendFails
<1>2. AsksStay /\ ask' \in [Message -> AskStatus]
  BY <1>0, SetAskStays DEF SendFails, AskStatus, Terminal, Final
<1>3. claim' \in [Message -> {"none", "active", "finished"}]
  BY <1>0 DEF TypeOK, SendFails, FinishExecution
<1>4. TypeOK'
  BY <1>0, <1>1, <1>2, <1>3 DEF TypeOK, Moved, deliveryVars
<1>5. CASE UNCHANGED <<claim, posted>>
  BY <1>1, <1>2, <1>4, <1>5, GoesOn, IdleState DEF Handing, Viewing, deliveryVars
<1>6. CASE refused /\ FinishExecution(m)
  <2>1. status[m] = "absent" /\ run[m] # "live" /\ m \notin posted'
    BY <1>0, <1>6 DEF RowOK, ProcOK
  <2>2. \A q \in Process \ {p} : proc[q].pc = "signing" => Msg(q) # m
    BY DEF IInv, HandingOK, Handing
  <2>3. posted' \subseteq posted /\ posted \ {m} \subseteq posted'
    OBVIOUS
  <2> HIDE DEF m
  <2> QED BY <1>0, <1>1, <1>2, <1>4, <1>6, <2>1, <2>2, <2>3, Releases DEF deliveryVars
<1>7. CASE refused /\ UNCHANGED claim /\ m \notin ChatWake /\ ~UNCHANGED posted
  <2>1. claim[m] # "active"
    BY <1>0, <1>7 DEF RowOK
  <2>2. FinishExecution(m)
    BY <1>0, <1>7, <2>1 DEF FinishExecution, TypeOK
  <2> QED BY <1>6, <1>7, <2>2
<1> QED BY <1>5, <1>6, <1>7 DEF SendFails

-----------------------------------------------------------------------------
(***************************************************************************)
(* The steps.                                                              *)
(***************************************************************************)

LEMMA AskStep ==
  ASSUME IInv, NEW p \in Process, NEW m \in Message, Ask(p, m)
  PROVE  IInv'
<1>0. TypeOK /\ RowOK(m)
  BY DEF IInv
<1> DEFINE at == IF m \in ChatWake THEN "claiming" ELSE "signing"
<1>a. at \in PC /\ at \in Handing /\ (at = "claiming" => m \in ChatWake)
        /\ (at = "signing" => m \notin ChatWake)
  BY DEF PC, Handing
<1>b. TakesUp(p, at, m)
  BY Zenon DEF Ask, TakesUp
<1> HIDE DEF at
<1>1. PICK v \in Handler : Moved(p, v) /\ v.pc = at /\ v.m = m
  BY <1>0, <1>a, <1>b, TakeMoves
<1>2. AsksStay /\ ask' \in [Message -> AskStatus] /\ ask'[m] # "absent"
  BY <1>0, SetAskStays DEF Ask, AskStatus, Pending
<1>3. TypeOK'
  BY <1>0, <1>1, <1>2 DEF TypeOK, Ask, Moved, deliveryVars
<1>4. UNCHANGED <<status, run, hold, claim, posted>>
  BY DEF Ask, deliveryVars
<1>5. ASSUME NEW n \in Message PROVE RowOK(n)'
  BY <1>2, <1>4 DEF IInv, RowOK, MayRun, AsksStay
<1>6. ClaimsOK'
  BY <1>4 DEF IInv, ClaimsOK
<1>7. \A q \in Process : proc[q].pc \in Handing => Msg(q) # m
  BY DEF IInv, ProcOK, Ask
<1>8. HandingOK'
  BY <1>1, <1>7 DEF IInv, HandingOK, Moved, Msg
<1>9. ASSUME NEW q \in Process PROVE ProcOK(q)'
  <2>1. CASE q = p
    <3>1. m \notin posted /\ status[m] = "absent"
      BY <1>0 DEF RowOK, Ask
    <3> QED BY <1>1, <1>a, <1>2, <1>4, <2>1, <3>1 DEF ProcOK, Moved, Msg, Handing, Viewing
  <2>2. CASE q # p
    <3>1. ProcOK(q) /\ proc'[q] = proc[q]
      BY <1>1, <2>2 DEF IInv, Moved
    <3> QED BY <1>2, <1>4, <3>1 DEF ProcOK, Msg, Handing, EndsClaim, Over, AsksStay
  <2> QED BY <2>1, <2>2
<1> QED BY <1>3, <1>5, <1>6, <1>8, <1>9 DEF IInv

LEMMA ClaimExecutionStep ==
  ASSUME IInv, NEW p \in Process, ClaimExecution(p)
  PROVE  IInv'
<1> DEFINE m == Msg(p)
<1>0. TypeOK /\ m \in Message /\ m \in ChatWake /\ ProcOK(p)
  BY DEF IInv, ProcOK, ClaimExecution, At
<1>1. CASE SetAsk(m, "failed") /\ Leave(p) /\ UNCHANGED claim
  <2>1. AsksStay /\ ask' \in [Message -> AskStatus]
    BY <1>0, <1>1, SetAskStays DEF AskStatus, Terminal, Final
  <2>2. Moved(p, Idle)
    BY <1>0, <1>1, LeaveMoves
  <2>3. TypeOK'
    BY <1>0, <1>1, <2>1, <2>2 DEF TypeOK, ClaimExecution, Moved, deliveryVars
  <2> QED BY <1>1, <2>1, <2>2, <2>3, GoesOn, IdleState DEF ClaimExecution, deliveryVars, Handing, Viewing
<1>2. CASE ~Blocked(m) /\ claim' = [claim EXCEPT ![m] = "active"] /\ Goto(p, "signing") /\ UNCHANGED ask
  <2>1. PICK v \in Handler : Moved(p, v) /\ v.pc = "signing" /\ v.m = m
    BY <1>0, <1>2, GotoMoves DEF PC
  <2>2. UNCHANGED <<status, run, hold, posted, ask>>
    BY <1>2 DEF ClaimExecution, deliveryVars
  <2>3. /\ claim' \in [Message -> {"none", "active", "finished"}]
        /\ claim'[m] = "active"
        /\ \A n \in Message \ {m} : claim'[n] = claim[n] /\ claim[n] # "active"
    BY <1>0, <1>2 DEF TypeOK, Blocked
  <2>4. TypeOK'
    BY <1>0, <2>1, <2>2, <2>3 DEF TypeOK, ClaimExecution, Moved, deliveryVars
  <2>5. ASSUME NEW n \in Message PROVE RowOK(n)'
    BY <1>0, <2>2, <2>3 DEF IInv, RowOK, MayRun
  <2>6. ClaimsOK'
    BY <2>3 DEF ClaimsOK
  <2>7. HandingOK'
    BY <2>1 DEF IInv, HandingOK, Moved, Msg, Handing, ClaimExecution, At
  <2>8. ASSUME NEW q \in Process PROVE ProcOK(q)'
    <3>1. CASE q = p
      BY <1>0, <2>1, <2>2, <2>3, <3>1 DEF ProcOK, Moved, Msg, Viewing, Handing, ClaimExecution, At
    <3>2. CASE q # p
      <4>1. ProcOK(q) /\ proc'[q] = proc[q]
        BY <2>1, <3>2 DEF IInv, Moved
      <4> QED BY <1>0, <2>2, <2>3, <4>1 DEF ProcOK, Msg, Handing, EndsClaim, Over
    <3> QED BY <3>1, <3>2
  <2> QED BY <2>4, <2>5, <2>6, <2>7, <2>8 DEF IInv
<1> QED BY <1>1, <1>2 DEF ClaimExecution

LEMMA SignStep ==
  ASSUME IInv, NEW p \in Process, Sign(p)
  PROVE  IInv'
<1> DEFINE m == Msg(p)
<1>0. TypeOK /\ m \in Message /\ ProcOK(p) /\ RowOK(m) /\ proc[p].pc = "signing"
  BY DEF IInv, ProcOK, Sign, At
<1>1. CASE \E refused \in BOOLEAN : SendFails(p, refused) /\ UNCHANGED <<sent, posted>>
  BY <1>0, <1>1, FailedSubmission DEF Sign
<1>2. CASE /\ sent' = sent \cup {m} /\ posted' = posted \cup {m}
           /\ Goto(p, "submitting") /\ UNCHANGED <<ask, claim>>
  <2>1. PICK v \in Handler : Moved(p, v) /\ v.pc = "submitting" /\ v.m = m
    BY <1>0, <1>2, GotoMoves DEF PC
  <2>2. UNCHANGED <<status, run, hold, ask, claim>>
    BY <1>2 DEF Sign, deliveryVars
  <2>3. TypeOK'
    BY <1>0, <1>2, <2>1, <2>2 DEF TypeOK, Sign, Moved
  <2>4. status[m] = "absent" /\ ask[m] # "absent" /\ (m \in ChatWake => claim[m] = "active")
    BY <1>0 DEF ProcOK, Handing
  <2>5. ASSUME NEW n \in Message PROVE RowOK(n)'
    BY <1>0, <1>2, <2>2, <2>4 DEF IInv, RowOK, MayRun
  <2>6. ClaimsOK'
    BY <2>2 DEF IInv, ClaimsOK
  <2>7. HandingOK'
    BY <1>0, <2>1 DEF IInv, HandingOK, Moved, Msg, Handing
  <2>8. ASSUME NEW q \in Process PROVE ProcOK(q)'
    <3>1. CASE q = p
      BY <1>0, <2>1, <2>2, <2>4, <3>1 DEF ProcOK, Moved, Msg, Viewing
    <3>2. CASE q # p
      <4>1. ProcOK(q) /\ proc'[q] = proc[q]
        BY <2>1, <3>2 DEF IInv, Moved
      <4>2. proc[q].pc \in Handing => Msg(q) # m
        BY <1>0, <3>2 DEF IInv, HandingOK, Handing
      <4>3. Over(Msg(q)) => Msg(q) # m
        BY <2>4 DEF Over, Final
      <4> QED BY <1>2, <2>2, <4>1, <4>2, <4>3 DEF ProcOK, Msg, Handing, EndsClaim, Over
    <3> QED BY <3>1, <3>2
  <2> QED BY <2>3, <2>5, <2>6, <2>7, <2>8 DEF IInv
<1> QED BY <1>1, <1>2 DEF Sign

LEMMA AcceptStep ==
  ASSUME IInv, NEW m \in Message, Accept(m)
  PROVE  IInv'
<1>0. TypeOK /\ RowOK(m) /\ m \in posted /\ status[m] = "absent" /\ posted' = posted \ {m}
  BY DEF IInv, Accept
<1>1. UNCHANGED <<run, hold, ask, claim, cleanup>>
  BY DEF Accept
<1>2. /\ status' \in [Message -> Status]
      /\ status'[m] = "queued"
      /\ \A n \in Message \ {m} : status'[n] = status[n]
  BY <1>0 DEF Accept, TypeOK, Status
<1>3. ASSUME NEW n \in Message PROVE RowOK(n)'
  BY <1>0, <1>1, <1>2 DEF IInv, RowOK, MayRun, Final
<1>4. ClaimsOK'
  BY <1>1 DEF IInv, ClaimsOK
\* What a process that is not answered holds on to.
<1>5. ASSUME NEW q \in Process, proc'[q] = proc[q] PROVE ProcOK(q)'
  <2>1. ProcOK(q)
    BY DEF IInv
  <2>2. Over(Msg(q)) => Msg(q) # m
    BY <1>0 DEF Over
  <2>3. proc[q].pc \in {"claiming", "signing"} => Msg(q) # m
    BY <1>0, <2>1 DEF ProcOK
  <2>4. CASE proc[q].pc = "idle"
    BY <1>5, <2>4 DEF ProcOK, Handing, Viewing
  <2>5. CASE Msg(q) = m
    BY <1>0, <1>1, <1>2, <1>5, <2>1, <2>2, <2>3, <2>5 DEF ProcOK, Msg, EndsClaim
  <2>6. CASE Msg(q) \in Message \ {m}
    <3>1. status'[Msg(q)] = status[Msg(q)]
      BY <1>2, <2>6
    <3> QED BY <1>0, <1>1, <1>5, <2>1, <3>1 DEF ProcOK, Msg, Handing, EndsClaim, Over
  <2> QED BY <2>1, <2>4, <2>5, <2>6 DEF ProcOK
<1>6. CASE UNCHANGED proc
  <2>1. TypeOK'
    BY <1>0, <1>1, <1>2, <1>6 DEF TypeOK, Accept
  <2>2. HandingOK'
    BY <1>6 DEF IInv, HandingOK, Msg
  <2> QED BY <1>3, <1>4, <1>5, <1>6, <2>1, <2>2 DEF IInv
<1>7. ASSUME NEW p \in Process, Msg(p) = m,
             proc' = [proc EXCEPT ![p].pc = "waiting", ![p].view = [status |-> "queued", hold |-> FALSE]]
      PROVE  IInv'
  <2> DEFINE view == [status |-> "queued", hold |-> FALSE]
  <2>1. view \in View /\ view.status = "queued"
    BY ViewTypes DEF Status
  <2>2. proc' = [proc EXCEPT ![p].pc = "waiting", ![p].view = view]
    BY <1>7
  <2> HIDE DEF view
  <2>3. PICK v \in Handler : Moved(p, v) /\ v.pc = "waiting" /\ v.m = m /\ v.view = view
    BY <1>0, <1>7, <2>1, <2>2, ToldMoves
  <2>4. TypeOK'
    BY <1>0, <1>1, <1>2, <2>3 DEF TypeOK, Accept, Moved
  <2>5. HandingOK'
    BY <2>3 DEF IInv, HandingOK, Moved, Msg, Handing
  <2>6. ProcOK(p)'
    BY <1>2, <2>1, <2>3 DEF ProcOK, Moved, Msg, Handing, EndsClaim, Final
  <2> QED BY <1>3, <1>4, <1>5, <2>3, <2>4, <2>5, <2>6 DEF IInv, Moved
<1> QED BY <1>6, <1>7 DEF Accept

LEMMA RefuseStep ==
  ASSUME IInv, NEW m \in Message, Refuse(m)
  PROVE  IInv'
<1>1. CASE UNCHANGED <<ask, claim, proc>>
  <2>1. UNCHANGED <<status, run, hold, ask, claim, proc>> /\ posted' = posted \ {m}
    BY <1>1 DEF Refuse, deliveryVars
  <2>2. TypeOK'
    BY <2>1 DEF IInv, TypeOK, Refuse
  <2>3. ASSUME NEW n \in Message PROVE RowOK(n)'
    BY <2>1 DEF IInv, RowOK, MayRun
  <2>4. ClaimsOK' /\ HandingOK'
    BY <2>1 DEF IInv, ClaimsOK, HandingOK, Msg
  <2>5. ASSUME NEW q \in Process PROVE ProcOK(q)'
    BY <2>1 DEF IInv, ProcOK, Msg, EndsClaim, Over
  <2> QED BY <2>2, <2>3, <2>4, <2>5 DEF IInv
<1>2. ASSUME NEW p \in Process, At(p, "submitting"), Msg(p) = m, SendFails(p, TRUE)
      PROVE  IInv'
  <2>1. \E refused \in BOOLEAN : refused /\ SendFails(p, refused)
    BY <1>2, Zenon
  <2> QED BY <1>2, <2>1, FailedSubmission DEF Refuse, At
<1> QED BY <1>1, <1>2 DEF Refuse

LEMMA SubmitUnansweredStep ==
  ASSUME IInv, NEW p \in Process, SubmitUnanswered(p)
  PROVE  IInv'
<1>1. \E refused \in BOOLEAN : ~refused /\ SendFails(p, refused)
  BY Zenon DEF SubmitUnanswered
<1> QED BY <1>1, FailedSubmission DEF SubmitUnanswered, At

\* An answer about m that ends the claim tells that m is over.
LEMMA SnapshotTells ==
  ASSUME IInv, NEW m \in Message
  PROVE  Snapshot(m) \in View /\ Snapshot(m).status = status[m]
           /\ (EndsClaim(Snapshot(m)) => Over(m))
<1>1. Snapshot(m) \in View /\ Snapshot(m).status = status[m] /\ Snapshot(m).hold = hold[m]
  BY ViewTypes DEF Snapshot, IInv, TypeOK
<1> QED BY <1>1 DEF IInv, RowOK, EndsClaim, Over, Final


LEMMA ObserveStep ==
  ASSUME IInv, NEW p \in Process, Observe(p)
  PROVE  IInv'
<1>0. /\ TypeOK /\ Msg(p) \in Message /\ proc[p].pc = "waiting"
      /\ status[Msg(p)] # "absent"
  BY DEF IInv, ProcOK, Observe, At, Viewing
<1>1. PICK v \in Handler : Moved(p, v) /\ v.pc = "waiting" /\ v.m = Msg(p) /\ v.view = Snapshot(Msg(p))
  BY <1>0, SnapshotTells, ToldMoves DEF Observe
<1>2. TypeOK' /\ AsksStay /\ UNCHANGED <<status, run, hold, claim, posted>>
  BY <1>0, <1>1 DEF TypeOK, Observe, Moved, deliveryVars, AsksStay
<1>3. /\ v.view.status # "absent"
      /\ EndsClaim(v.view) => Over(v.m)
  BY <1>0, <1>1, SnapshotTells
<1> QED BY <1>0, <1>1, <1>2, <1>3, GoesOn DEF Handing

LEMMA RefreshStep ==
  ASSUME IInv, NEW p \in Process, NEW m \in Message, Refresh(p, m)
  PROVE  IInv'
<1>0. TypeOK /\ status[m] # "absent"
  BY DEF IInv, Refresh
<1>1. PICK v \in Handler : Moved(p, v) /\ v.pc = "got" /\ v.m = m /\ v.view = Snapshot(m)
  <2>1. Snapshot(m) \in View
    BY SnapshotTells
  <2>2. LooksUp(p, m, Snapshot(m))
    BY Zenon DEF Refresh, LooksUp
  <2> QED BY <1>0, <2>1, <2>2, RefreshMoves
<1>2. TypeOK' /\ AsksStay /\ UNCHANGED <<status, run, hold, claim, posted>>
  BY <1>0, <1>1 DEF TypeOK, Refresh, Moved, deliveryVars, AsksStay
<1>3. /\ v.view.status # "absent"
      /\ EndsClaim(v.view) => Over(v.m)
  BY <1>0, <1>1, SnapshotTells
<1> QED BY <1>0, <1>1, <1>2, <1>3, GoesOn DEF Handing

\* The steps that hold on to the answer, or leave.
LEMMA ViewStep ==
  ASSUME IInv, NEW p \in Process,
         Return(p) \/ ReadAsk(p) \/ WriteAsk(p) \/ AppendReply(p) \/ Crash(p)
  PROVE  IInv'
<1>0. TypeOK /\ ProcOK(p)
  BY DEF IInv
<1>1. UNCHANGED <<status, run, hold, claim, posted, cleanup, sent>>
  BY DEF Return, ReadAsk, WriteAsk, AppendReply, Crash, deliveryVars
<1>2. AsksStay /\ ask' \in [Message -> AskStatus]
  <2>1. CASE WriteAsk(p)
    <3> DEFINE s == Stored(proc[p].view.status)
               t == IF s # proc[p].read THEN s ELSE ask[Msg(p)]
    <3>1. Msg(p) \in Message /\ proc[p].view.status # "absent" /\ proc[p].view.status \in Status
      <4>1. proc[p].view \in View
        BY <1>0 DEF TypeOK, Handler
      <4> QED BY <1>0, <2>1, <4>1, ViewTypes DEF ProcOK, WriteAsk, At, Viewing
    <3>2. s \in AskStatus \ {"absent"}
      BY <3>1 DEF Stored, Status, AskStatus, Pending, Terminal, Held, Final
    <3> HIDE DEF s
    <3>3. t \in AskStatus
      BY <1>0, <3>1, <3>2 DEF TypeOK
    <3>4. ask' = [ask EXCEPT ![Msg(p)] = t]
      BY <2>1, Zenon DEF WriteAsk, SetAsk, s
    <3>5. t = "absent" => ask[Msg(p)] = "absent"
      BY <3>2
    <3> HIDE DEF t
    <3> QED BY <1>0, <3>1, <3>3, <3>4, <3>5 DEF TypeOK, AsksStay
  <2>2. CASE UNCHANGED ask
    BY <1>0, <2>2 DEF TypeOK, AsksStay
  <2> QED BY <2>1, <2>2 DEF Return, ReadAsk, AppendReply, Crash
<1>3. replies' \in [Message -> Nat] /\ crashes' \in Nat
  BY <1>0 DEF TypeOK, Return, ReadAsk, WriteAsk, AppendReply, Crash
<1>4. CASE Leave(p)
  <2>1. Moved(p, Idle)
    BY <1>0, <1>4, LeaveMoves
  <2>2. TypeOK'
    BY <1>0, <1>1, <1>2, <1>3, <2>1 DEF TypeOK, Moved
  <2> QED BY <1>1, <1>2, <2>1, <2>2, GoesOn, IdleState DEF Handing, Viewing
<1>5. CASE \E v \in Handler : /\ Moved(p, v) /\ v.pc \in Viewing /\ proc[p].pc \in Viewing
                              /\ v.m = Msg(p) /\ v.view = proc[p].view
  <2>1. PICK v \in Handler : /\ Moved(p, v) /\ v.pc \in Viewing /\ proc[p].pc \in Viewing
                             /\ v.m = Msg(p) /\ v.view = proc[p].view
    BY <1>5
  <2>2. TypeOK'
    BY <1>0, <1>1, <1>2, <1>3, <2>1 DEF TypeOK, Moved
  <2>3. v.m \in Message /\ v.pc \notin Handing
    BY <1>0, <2>1 DEF ProcOK, Viewing, Handing
  <2>4. /\ status[v.m] # "absent" /\ v.view.status # "absent"
        /\ EndsClaim(v.view) => Over(v.m)
    BY <1>0, <2>1 DEF ProcOK
  <2> QED BY <1>1, <1>2, <2>1, <2>2, <2>3, <2>4, GoesOn
<1>6. CASE proc[p].pc \in Viewing /\ \E pc \in Viewing : Goto(p, pc)
  <2>1. PICK pc \in Viewing : Goto(p, pc)
    BY <1>6
  <2>2. pc \in PC
    BY DEF Viewing, PC
  <2> QED BY <1>0, <1>5, <1>6, <2>1, <2>2, GotoMoves
<1>7. CASE Return(p)
  BY <1>4, <1>6, <1>7 DEF Return, At, Viewing
<1>8. CASE ReadAsk(p)
  <2>1. CASE ask[Msg(p)] \in Pending /\ proc' = [proc EXCEPT ![p].pc = "writing", ![p].read = ask[Msg(p)]]
    <3>1. ask[Msg(p)] \in AskStatus
      BY <2>1 DEF AskStatus
    <3>2. PICK v \in Handler : Moved(p, v) /\ v.pc = "writing" /\ v.m = Msg(p) /\ v.view = proc[p].view
      BY <1>0, <2>1, <3>1, ReadMoves
    <3> QED BY <1>5, <1>8, <3>2 DEF ReadAsk, At, Viewing
  <2> QED BY <1>4, <1>8, <2>1 DEF ReadAsk
<1>9. CASE WriteAsk(p)
  <2>1. \E pc \in {"appending", "finishing"} : Goto(p, pc)
    BY <1>9, Zenon DEF WriteAsk
  <2> QED BY <1>6, <1>9, <2>1 DEF WriteAsk, At, Viewing
<1>10. CASE AppendReply(p)
  BY <1>6, <1>10 DEF AppendReply, At, Viewing
<1> QED BY <1>4, <1>7, <1>8, <1>9, <1>10 DEF Crash

LEMMA SettleClaimStep ==
  ASSUME IInv, NEW p \in Process, SettleClaim(p)
  PROVE  IInv'
<1> DEFINE m == Msg(p)
<1>0. TypeOK /\ ProcOK(p) /\ m \in Message /\ proc[p].pc = "finishing"
  BY DEF IInv, ProcOK, SettleClaim, At
<1>1. Moved(p, Idle)
  BY <1>0, LeaveMoves DEF SettleClaim
<1>2. UNCHANGED <<status, run, hold, ask, posted>> /\ AsksStay
  BY DEF SettleClaim, deliveryVars, AsksStay
<1>3. claim' \in [Message -> {"none", "active", "finished"}] /\ cleanup' \in SUBSET Message
  BY <1>0 DEF TypeOK, SettleClaim, FinishExecution
<1>4. TypeOK'
  BY <1>0, <1>1, <1>2, <1>3 DEF TypeOK, SettleClaim, Moved
<1>5. CASE UNCHANGED claim
  BY <1>1, <1>2, <1>4, <1>5, GoesOn, IdleState DEF Handing, Viewing
<1>6. CASE EndsClaim(proc[p].view) /\ FinishExecution(m)
  <2>1. Over(m)
    BY <1>0, <1>6 DEF ProcOK, Viewing
  <2>2. \A q \in Process \ {p} : proc[q].pc = "signing" => Msg(q) # m
    BY <2>1 DEF IInv, ProcOK, Over, Final
  <2> HIDE DEF m
  <2> QED BY <1>0, <1>1, <1>2, <1>4, <1>6, <2>1, <2>2, Releases DEF Over
<1> QED BY <1>5, <1>6 DEF SettleClaim

\* What the coordinator and the receiving device may make of a message.
Delivered(m) ==
  /\ status[m] = "absent" <=> status'[m] = "absent"
  /\ status'[m] \in {"absent", "queued"} => run'[m] = "never"
  /\ status'[m] \in Final /\ run'[m] = "live" => hold'[m]
  /\ status[m] \in Final /\ run[m] # "live" => status'[m] \in Final /\ run'[m] # "live"
  /\ status'[m] \in {"queued", "unknown"} \cup Held \/ run'[m] = "live" =>
       status[m] \in {"queued", "unknown"} \cup Held \/ run[m] = "live"

LEMMA RemoteDelivers ==
  ASSUME IInv, Remote, NEW m \in Message
  PROVE  Delivered(m)
<1>1. /\ RowOK(m) /\ status[m] \in Status /\ run[m] \in RunState /\ hold[m] \in BOOLEAN
      /\ status'[m] \in Status /\ run'[m] \in RunState /\ hold'[m] \in BOOLEAN
      /\ status[m] = "absent" => status'[m] = "absent"
  BY DEF IInv, TypeOK, Remote
<1>2. CASE status'[m] = status[m] /\ run'[m] = run[m] /\ hold'[m] = hold[m]
  BY <1>1, <1>2 DEF RowOK, Delivered
<1>3. CASE May(m, status'[m], run'[m], hold'[m])
  BY <1>1, <1>3 DEF RowOK, Delivered, May, WithoutRun, Progress, Reported, Status, Held, Final, RunState
<1> QED BY <1>2, <1>3 DEF Remote, DeliverSome

LEMMA RemoteStep ==
  ASSUME IInv, Remote
  PROVE  IInv'
<1>0. TypeOK /\ UNCHANGED <<ask, replies, claim, cleanup, sent, posted, proc, crashes>>
  BY DEF IInv, Remote, senderVars
<1>1. TypeOK'
  BY <1>0 DEF TypeOK, Remote
<1>2. ASSUME NEW m \in Message PROVE RowOK(m)'
  <2>1. RowOK(m) /\ Delivered(m)
    BY RemoteDelivers DEF IInv
  <2> QED BY <1>0, <2>1 DEF RowOK, Delivered, MayRun
<1>3. ClaimsOK' /\ HandingOK'
  BY <1>0 DEF IInv, ClaimsOK, HandingOK, Msg
<1>4. ASSUME NEW q \in Process PROVE ProcOK(q)'
  <2>1. ProcOK(q) BY DEF IInv
  <2>2. CASE proc[q].pc = "idle"
    BY <1>0, <2>1, <2>2 DEF ProcOK, Handing, Viewing
  <2>3. CASE Msg(q) \in Message
    <3>1. Delivered(Msg(q)) BY <2>3, RemoteDelivers
    <3> QED BY <1>0, <2>1, <3>1 DEF ProcOK, Msg, Handing, EndsClaim, Over, Delivered
  <2> QED BY <2>1, <2>2, <2>3 DEF ProcOK
<1> QED BY <1>1, <1>2, <1>3, <1>4 DEF IInv

LEMMA InitHolds ==
  ASSUME Init
  PROVE  IInv
<1>1. TypeOK
  BY IdleState DEF Init, DeliveryInit, SenderInit, TypeOK, Status, RunState, AskStatus
<1>2. \A p \in Process : proc[p] = Idle
  BY DEF Init, SenderInit
<1>3. \A m \in Message : RowOK(m)
  BY DEF Init, DeliveryInit, SenderInit, RowOK, MayRun, Held, Final
<1>4. ClaimsOK
  BY DEF Init, SenderInit, ClaimsOK
<1>5. HandingOK /\ \A p \in Process : ProcOK(p)
  BY <1>2, IdleState DEF HandingOK, ProcOK, Handing, Viewing
<1> QED BY <1>1, <1>3, <1>4, <1>5 DEF IInv

LEMMA NextHolds ==
  ASSUME IInv, [Next]_vars
  PROVE  IInv'
<1>1. CASE Next
  <2>1. ASSUME NEW p \in Process, Step(p) \/ SubmitUnanswered(p) \/ Crash(p) PROVE IInv'
    BY <2>1, ClaimExecutionStep, SignStep, ObserveStep, ViewStep, SettleClaimStep,
       SubmitUnansweredStep, Zenon DEF Step
  <2>2. ASSUME NEW p \in Process, NEW m \in Message, Ask(p, m) \/ Refresh(p, m) PROVE IInv'
    BY <2>2, AskStep, RefreshStep
  <2>3. ASSUME NEW m \in Message, Accept(m) \/ Refuse(m) PROVE IInv'
    BY <2>3, AcceptStep, RefuseStep
  <2> QED BY <1>1, <2>1, <2>2, <2>3, RemoteStep, Zenon DEF Next
<1>2. CASE UNCHANGED vars
  BY <1>2 DEF vars, deliveryVars, senderVars, IInv, TypeOK, RowOK, MayRun, ClaimsOK, HandingOK,
       ProcOK, Msg, EndsClaim, Over
<1> QED BY <1>1, <1>2

-----------------------------------------------------------------------------
(***************************************************************************)
(* What is shown.  A second invariant, inductive beside the first: a final *)
(* status stays, so what a process was told is still so when it writes it. *)
(***************************************************************************)
Told == {"answered", "cancelled", "expired"}

\* What a process was told of a message that is over holds for good; it appends
\* a reply only of an answer.
ToldOK(p) ==
  proc[p].pc \in Viewing =>
    /\ proc[p].view.status \in Final => status[Msg(p)] = proc[p].view.status
    /\ proc[p].pc = "appending" => proc[p].view.status = "answered"

Shown == ShownIsTrue /\ \A p \in Process : ToldOK(p)

FinalStays == \A m \in Message : status[m] \in Final => status'[m] = status[m]

\* The rows say no more than they did, or than the coordinator says.
RowsTrue ==
  \A m \in Message :
    /\ ask'[m] \in Told => ask[m] = ask'[m] \/ status[m] = ask'[m]
    /\ replies'[m] > 0 => replies[m] > 0 \/ status[m] = "answered"

LEMMA ShownKept ==
  ASSUME Shown, FinalStays, RowsTrue, \A q \in Process : ToldOK(q)'
  PROVE  Shown'
BY DEF Shown, ShownIsTrue, FinalStays, RowsTrue, Told, Final

\* A process that stays where it was.
LEMMA StaysTold ==
  ASSUME IInv, Shown, FinalStays, NEW q \in Process, proc'[q] = proc[q]
  PROVE  ToldOK(q)'
<1>1. ToldOK(q) /\ (proc[q].pc # "idle" => Msg(q) \in Message)
  BY DEF Shown, IInv, ProcOK
<1> QED BY <1>1 DEF ToldOK, Msg, FinalStays, Viewing

\* One process moves, the statuses final by now stay.
LEMMA MovesTold ==
  ASSUME IInv, Shown, FinalStays, RowsTrue, NEW p \in Process, NEW v, Moved(p, v),
         v.pc \in Viewing =>
           /\ v.view.status \in Final => status'[v.m] = v.view.status
           /\ v.pc = "appending" => v.view.status = "answered"
  PROVE  Shown'
<1>1. ASSUME NEW q \in Process PROVE ToldOK(q)'
  <2>1. CASE q = p
    BY <2>1 DEF ToldOK, Moved, Msg
  <2>2. CASE q # p
    BY <2>2, StaysTold DEF Moved
  <2> QED BY <2>1, <2>2
<1> QED BY <1>1, ShownKept

\* Nothing is shown that was not, and no process is told anything.
LEMMA SameShown ==
  ASSUME IInv, Shown, FinalStays, RowsTrue, UNCHANGED proc
  PROVE  Shown'
<1>1. ASSUME NEW q \in Process PROVE ToldOK(q)'
  BY StaysTold
<1> QED BY <1>1, ShownKept

\* An ask set to a status that tells nothing, or the truth.
LEMMA AsksTrue ==
  ASSUME IInv, NEW m \in Message, NEW s, SetAsk(m, s), UNCHANGED replies,
         s \in Told => s = ask[m] \/ status[m] = s
  PROVE  RowsTrue
<1>1. ask' = [ask EXCEPT ![m] = s] /\ ask \in [Message -> AskStatus] /\ replies' = replies
  BY DEF SetAsk, IInv, TypeOK
<1>2. ask'[m] = s /\ \A n \in Message \ {m} : ask'[n] = ask[n]
  BY <1>1
<1>3. ASSUME NEW n \in Message PROVE ask'[n] \in Told => ask[n] = ask'[n] \/ status[n] = ask'[n]
  BY <1>2
<1>4. ASSUME NEW n \in Message PROVE replies'[n] > 0 => replies[n] > 0 \/ status[n] = "answered"
  BY <1>1
<1> QED BY <1>3, <1>4 DEF RowsTrue

LEMMA LeavesShown ==
  ASSUME IInv, Shown, FinalStays, RowsTrue, NEW p \in Process, Leave(p)
  PROVE  Shown'
<1>1. Moved(p, Idle)
  BY LeaveMoves DEF IInv
<1> QED BY <1>1, MovesTold, IdleState DEF Viewing

\* The steps that show nothing new.
LEMMA SubmissionShows ==
  ASSUME IInv, Shown, NEW p \in Process,
         \/ ClaimExecution(p) \/ Sign(p) \/ SubmitUnanswered(p)
         \/ \E m \in Message : Ask(p, m)
         \/ \E m \in Message, refused \in BOOLEAN :
              /\ m = Msg(p) /\ At(p, "submitting") /\ SendFails(p, refused)
              /\ UNCHANGED <<deliveryVars, replies>>
  PROVE  Shown'
<1>0. TypeOK /\ ProcOK(p)
  BY DEF IInv
<1>1. UNCHANGED <<status, replies>> /\ FinalStays
  BY DEF ClaimExecution, Sign, SubmitUnanswered, Ask, deliveryVars, FinalStays
<1>2. ASSUME UNCHANGED ask, NEW pc \in PC \ Viewing, Goto(p, pc)
      PROVE  Shown'
  <2>1. RowsTrue
    BY <1>1, <1>2 DEF RowsTrue
  <2>2. PICK v \in Handler : Moved(p, v) /\ v.pc = pc
    BY <1>0, <1>2, GotoMoves
  <2> QED BY <1>1, <1>2, <2>1, <2>2, MovesTold
<1>3. ASSUME SetAsk(Msg(p), "failed"), Leave(p), Msg(p) \in Message
      PROVE  Shown'
  <2>1. RowsTrue
    BY <1>1, <1>3, AsksTrue DEF Told
  <2> QED BY <1>1, <1>3, <2>1, LeavesShown
<1>4. CASE ClaimExecution(p)
  BY <1>0, <1>2, <1>3, <1>4 DEF ClaimExecution, At, ProcOK, PC, Viewing
<1>5. CASE Sign(p)
  BY <1>0, <1>2, <1>3, <1>5 DEF Sign, At, ProcOK, PC, Viewing, SendFails
<1>6. CASE SubmitUnanswered(p)
  BY <1>0, <1>3, <1>6 DEF SubmitUnanswered, At, ProcOK, SendFails
<1>7. ASSUME NEW m \in Message, Ask(p, m) PROVE Shown'
  <2> DEFINE at == IF m \in ChatWake THEN "claiming" ELSE "signing"
  <2>1. at \in PC /\ at \notin Viewing
    BY DEF PC, Viewing
  <2>2. TakesUp(p, at, m)
    BY <1>7, Zenon DEF Ask, TakesUp
  <2> HIDE DEF at
  <2>3. PICK v \in Handler : Moved(p, v) /\ v.pc = at
    BY <1>0, <2>1, <2>2, TakeMoves
  <2>4. RowsTrue
    BY <1>1, <1>7, AsksTrue DEF Ask, Told
  <2> QED BY <1>1, <2>1, <2>3, <2>4, MovesTold
<1> QED BY <1>0, <1>3, <1>4, <1>5, <1>6, <1>7 DEF SendFails

LEMMA RefuseShows ==
  ASSUME IInv, Shown, NEW m \in Message, Refuse(m)
  PROVE  Shown'
<1>1. CASE UNCHANGED <<ask, claim, proc>>
  <2>1. FinalStays /\ RowsTrue
    BY <1>1 DEF Refuse, deliveryVars, FinalStays, RowsTrue
  <2> QED BY <1>1, <2>1, SameShown
<1>2. ASSUME NEW p \in Process, At(p, "submitting"), Msg(p) = m, SendFails(p, TRUE)
      PROVE  Shown'
  <2>1. \E refused \in BOOLEAN : SendFails(p, refused)
    BY <1>2, Zenon
  <2>2. UNCHANGED <<deliveryVars, replies>>
    BY DEF Refuse
  <2> QED BY <1>2, <2>1, <2>2, SubmissionShows
<1> QED BY <1>1, <1>2 DEF Refuse

LEMMA AcceptShows ==
  ASSUME IInv, Shown, NEW m \in Message, Accept(m)
  PROVE  Shown'
<1>1. FinalStays
  BY DEF Accept, FinalStays, Final, IInv, TypeOK
<1>2. RowsTrue
  BY DEF Accept, RowsTrue
<1>3. CASE UNCHANGED proc
  BY <1>1, <1>2, <1>3, SameShown
<1>4. ASSUME NEW p \in Process,
             proc' = [proc EXCEPT ![p].pc = "waiting", ![p].view = [status |-> "queued", hold |-> FALSE]]
      PROVE  Shown'
  <2> DEFINE view == [status |-> "queued", hold |-> FALSE]
  <2>1. view \in View /\ view.status = "queued"
    BY ViewTypes DEF Status
  <2>2. proc' = [proc EXCEPT ![p].pc = "waiting", ![p].view = view]
    BY <1>4
  <2> HIDE DEF view
  <2>3. PICK v \in Handler : Moved(p, v) /\ v.pc = "waiting" /\ v.view = view
    BY <2>1, <2>2, ToldMoves DEF IInv
  <2> QED BY <1>1, <1>2, <2>1, <2>3, MovesTold DEF Final
<1> QED BY <1>3, <1>4 DEF Accept

\* The coordinator answers what the message is now.
LEMMA LookShows ==
  ASSUME IInv, Shown, NEW p \in Process, Observe(p) \/ \E m \in Message : Refresh(p, m)
  PROVE  Shown'
<1>1. FinalStays /\ RowsTrue /\ UNCHANGED status
  BY DEF Observe, Refresh, deliveryVars, FinalStays, RowsTrue
<1>2. CASE Observe(p)
  <2>1. Msg(p) \in Message
    BY <1>2 DEF IInv, ProcOK, Observe, At
  <2>2. PICK v \in Handler : Moved(p, v) /\ v.pc = "waiting" /\ v.m = Msg(p) /\ v.view = Snapshot(Msg(p))
    BY <1>2, <2>1, SnapshotTells, ToldMoves DEF Observe, At, IInv
  <2> QED BY <1>1, <2>1, <2>2, MovesTold, SnapshotTells
<1>3. ASSUME NEW m \in Message, Refresh(p, m) PROVE Shown'
  <2>1. Snapshot(m) \in View /\ LooksUp(p, m, Snapshot(m))
    BY <1>3, SnapshotTells, Zenon DEF Refresh, LooksUp
  <2>2. PICK v \in Handler : Moved(p, v) /\ v.pc = "got" /\ v.m = m /\ v.view = Snapshot(m)
    BY <2>1, RefreshMoves DEF IInv
  <2> QED BY <1>1, <2>2, MovesTold, SnapshotTells
<1> QED BY <1>2, <1>3

\* What was told is written: it is still so.
LEMMA WriteShows ==
  ASSUME IInv, Shown, NEW p \in Process, WriteAsk(p)
  PROVE  Shown'
<1> DEFINE s == Stored(proc[p].view.status)
           t == IF s # proc[p].read THEN s ELSE ask[Msg(p)]
           pc == IF s = "answered" THEN "appending" ELSE "finishing"
<1>0. TypeOK /\ ProcOK(p) /\ ToldOK(p) /\ proc[p].pc = "writing" /\ Msg(p) \in Message
  BY DEF IInv, Shown, ProcOK, WriteAsk, At
<1>1. UNCHANGED <<status, replies>> /\ FinalStays
  BY DEF WriteAsk, deliveryVars, FinalStays
<1>2. SetAsk(Msg(p), t) /\ Goto(p, pc)
  BY Zenon DEF WriteAsk
<1>3. s \in Told => status[Msg(p)] = s
  BY <1>0 DEF Stored, ToldOK, Told, Final, Viewing
<1>4. pc \in PC /\ (pc = "appending" => proc[p].view.status = "answered")
  BY DEF PC, Stored
<1> HIDE DEF s, pc
<1>5. t \in Told => t = ask[Msg(p)] \/ status[Msg(p)] = t
  BY <1>3
<1> HIDE DEF t
<1>6. RowsTrue
  BY <1>0, <1>1, <1>2, <1>5, AsksTrue
<1>7. PICK v \in Handler : Moved(p, v) /\ v.pc = pc /\ v.m = Msg(p) /\ v.view = proc[p].view
  BY <1>0, <1>2, <1>4, GotoMoves
<1> QED BY <1>0, <1>1, <1>4, <1>6, <1>7, MovesTold DEF ToldOK, Viewing

\* The other steps that hold on to the answer.
LEMMA HoldShows ==
  ASSUME IInv, Shown, NEW p \in Process,
         Return(p) \/ ReadAsk(p) \/ AppendReply(p) \/ SettleClaim(p) \/ Crash(p)
  PROVE  Shown'
<1>0. TypeOK /\ ProcOK(p) /\ ToldOK(p)
  BY DEF IInv, Shown
<1>1. UNCHANGED <<status, ask>> /\ FinalStays
  BY DEF Return, ReadAsk, AppendReply, SettleClaim, Crash, deliveryVars, FinalStays
<1>2. RowsTrue
  <2>1. CASE AppendReply(p)
    <3>1. Msg(p) \in Message /\ status[Msg(p)] = "answered"
      BY <1>0, <2>1 DEF ProcOK, ToldOK, AppendReply, At, Viewing, Final
    <3>2. \A n \in Message \ {Msg(p)} : replies'[n] = replies[n]
      BY <1>0, <2>1 DEF AppendReply, TypeOK
    <3> QED BY <1>1, <3>1, <3>2 DEF RowsTrue
  <2>2. CASE UNCHANGED replies
    BY <1>1, <2>2 DEF RowsTrue
  <2> QED BY <2>1, <2>2 DEF Return, ReadAsk, SettleClaim, Crash
<1>3. CASE Leave(p)
  BY <1>1, <1>2, <1>3, LeavesShown
<1>4. ASSUME NEW pc \in Viewing \ {"appending"}, proc[p].pc \in Viewing,
             NEW v \in Handler, Moved(p, v), v.pc = pc, v.m = Msg(p), v.view = proc[p].view
      PROVE  Shown'
  BY <1>0, <1>1, <1>2, <1>4, MovesTold DEF ToldOK
<1>5. ASSUME NEW pc \in Viewing \ {"appending"}, proc[p].pc \in Viewing, Goto(p, pc)
      PROVE  Shown'
  <2>1. pc \in PC
    BY DEF Viewing, PC
  <2> QED BY <1>0, <1>4, <1>5, <2>1, GotoMoves
<1>6. CASE Return(p)
  BY <1>3, <1>5, <1>6 DEF Return, At, Viewing
<1>7. CASE ReadAsk(p)
  <2>1. CASE ask[Msg(p)] \in Pending /\ proc' = [proc EXCEPT ![p].pc = "writing", ![p].read = ask[Msg(p)]]
    <3>1. ask[Msg(p)] \in AskStatus
      BY <2>1 DEF AskStatus
    <3>2. PICK v \in Handler : Moved(p, v) /\ v.pc = "writing" /\ v.m = Msg(p) /\ v.view = proc[p].view
      BY <1>0, <2>1, <3>1, ReadMoves
    <3> QED BY <1>4, <1>7, <3>2 DEF ReadAsk, At, Viewing
  <2> QED BY <1>3, <1>7, <2>1 DEF ReadAsk
<1>8. CASE AppendReply(p)
  BY <1>5, <1>8 DEF AppendReply, At, Viewing
<1> QED BY <1>3, <1>6, <1>7, <1>8 DEF SettleClaim, Crash

\* A final status is the coordinator's last word.
LEMMA RemoteShows ==
  ASSUME IInv, Shown, Remote
  PROVE  Shown'
<1>1. RowsTrue /\ UNCHANGED proc
  BY DEF Remote, senderVars, RowsTrue
<1>2. FinalStays
  BY DEF Remote, DeliverSome, May, WithoutRun, Progress, Reported, Final, Held, FinalStays
<1> QED BY <1>1, <1>2, SameShown

LEMMA NextShows ==
  ASSUME IInv, Shown, [Next]_vars
  PROVE  Shown'
<1>1. ASSUME NEW p \in Process, Step(p) \/ SubmitUnanswered(p) \/ Crash(p) PROVE Shown'
  BY <1>1, SubmissionShows, LookShows, WriteShows, HoldShows, Zenon DEF Step
<1>2. ASSUME NEW p \in Process, NEW m \in Message, Ask(p, m) \/ Refresh(p, m) PROVE Shown'
  BY <1>2, SubmissionShows, LookShows
<1>3. ASSUME NEW m \in Message, Accept(m) \/ Refuse(m) PROVE Shown'
  BY <1>3, AcceptShows, RefuseShows
<1>4. CASE UNCHANGED vars
  <2>1. FinalStays /\ RowsTrue /\ UNCHANGED proc
    BY <1>4 DEF vars, deliveryVars, senderVars, FinalStays, RowsTrue
  <2> QED BY <2>1, SameShown
<1> QED BY <1>1, <1>2, <1>3, <1>4, RemoteShows, Zenon DEF Next

LEMMA InitShows ==
  ASSUME Init
  PROVE  Shown
<1>1. ShownIsTrue
  <2>1. \A m \in Message : ask[m] = "absent" /\ replies[m] = 0
    BY DEF Init, SenderInit
  <2>2. ~(0 > 0)
    OBVIOUS
  <2> QED BY <2>1, <2>2 DEF ShownIsTrue
<1>2. \A p \in Process : ToldOK(p)
  BY IdleState DEF Init, SenderInit, ToldOK, Viewing
<1> QED BY <1>1, <1>2 DEF Shown

-----------------------------------------------------------------------------
(***************************************************************************)
(* The theorems.                                                           *)
(***************************************************************************)

\* Messages, claims and processes keep the invariant above.
THEOREM Inductive == Spec => []IInv
<1> QED BY InitHolds, NextHolds, PTL DEF Spec

\* Every variable keeps its type.
THEOREM TypesHold == Spec => []TypeOK
<1>1. IInv => TypeOK
  BY DEF IInv
<1> QED BY <1>1, Inductive, PTL

\* However submissions fail, answers arrive late and processes crash, at most one
\* chat wake of the remote Agent may run (service.js:394).
THEOREM RemoteWakesAreExclusive == Spec => []OneRemoteWake
<1>1. IInv => OneRemoteWake
  <2>1. ChatWake \subseteq Message
    BY SenderAssumption
  <2> QED BY <2>1 DEF IInv, RowOK, ClaimsOK, OneRemoteWake
<1> QED BY <1>1, Inductive, PTL

\* An ask that shows its message as answered, cancelled or expired, or holds a
\* reply, agrees with the coordinator, whichever stale answers were applied.
THEOREM AsksShowTheTruth == Spec => []ShownIsTrue
<1>1. Shown => ShownIsTrue
  BY DEF Shown
<1> QED BY <1>1, Inductive, InitShows, NextShows, PTL DEF Spec

\* What a message ended with stays what it ended with.
LEMMA NextFinal == ASSUME IInv, [Next]_vars PROVE FinalStays
<1>1. CASE UNCHANGED status BY <1>1 DEF FinalStays
<1>2. ASSUME NEW m \in Message, Accept(m) PROVE FinalStays
  BY <1>2 DEF Accept, FinalStays, Final, IInv, TypeOK
<1>3. CASE Remote
  BY <1>3 DEF Remote, DeliverSome, May, WithoutRun, Progress, Reported, Final, Held, FinalStays
<1> QED
  BY <1>1, <1>2, <1>3 DEF Next, Step, ClaimExecution, Sign, Observe, Return, ReadAsk, WriteAsk, AppendReply,
     SettleClaim, SubmitUnanswered, Crash, Ask, Refresh, Refuse, vars, deliveryVars

\* An ask never shows two outcomes.  A stale answer may put an answered ask back
\* to running (applyRemote, service.js:404), but whatever is written after it,
\* the ask then shows the outcome it had shown, or none.
THEOREM OneOutcome ==
  ASSUME NEW m \in Message, NEW s \in Told
  PROVE  Spec => [](ask[m] = s => [](ask[m] \in Told => ask[m] = s))
<1> DEFINE Ended == status[m] = s
<1>1. Shown => (ask[m] \in Told => status[m] = ask[m]) BY DEF Shown, ShownIsTrue, Told
<1>2. Shown /\ ask[m] = s => Ended BY <1>1
<1>3. Shown /\ Ended => (ask[m] \in Told => ask[m] = s) BY <1>1
<1>4. IInv /\ Ended /\ [Next]_vars => Ended' BY NextFinal DEF FinalStays, Told, Final
<1>5. Spec => [](IInv /\ Shown) BY Inductive, InitShows, NextShows, PTL DEF Spec
<1> HIDE DEF Ended
<1> QED BY <1>2, <1>3, <1>4, <1>5, PTL DEF Spec
=============================================================================
