------------------------------ MODULE AgentApps -------------------------------
(***************************************************************************)
(* The processes that run and change one Agent app: operations.js,         *)
(* instances.js, removal.js, data-deletion.js, the decisions of            *)
(* versions.js, and the write calls of app-host.js with their data port    *)
(* (app-data-fs.js), over the rows of AppRegistry.                         *)
(*                                                                         *)
(* In each process one operation runs at a time (lifecycles); the write    *)
(* gate is a queue of the operation, the seal of the hosted instance and a *)
(* write call.  A step is what lies between two awaits, cut again where a  *)
(* process may end between two durable effects.                            *)
(***************************************************************************)
EXTENDS AppRegistry, Sequences

VARIABLES
  closing,   \* hosts that close
  op,        \* op[h]: the operation in the lifecycle of h
  hosted,    \* hosted[h]: the instance h hosts, and how far its seal is
  handles,   \* handles[h]: instances whose process h started and has not stopped
  gate,      \* gate[h]: who waits for or holds (the head) the write gate of h
  call       \* call[h]: a write call to h

process == <<closing, op, hosted, handles, gate, call>>
vars == <<registry, process>>

\* A decision is one of versions.js and removal.js; what it is shows at its work.
Kind == {"start", "stop", "export", "decision"}
\* Where an operation is inside the gate, its lease taken.
InGate == {"settle", "work", "prepare", "spawn", "register", "offer", "confirm", "rename", "remove", "finish"}
OpPC == InGate \cup {"idle", "sealing", "acquire", "take", "queued"}
\* Whether the promise of the seal exists, and is answered: sealed comes last
\* and takes the instance away, so answered is told to wait, or rejected.
Sealing == {"no", "asked", "answered"}
CallPC == {"idle", "authorized", "queued", "running", "settled"}

\* seen: the owner in the snapshot of takeLease; same: its fence is still the row's.
NoOp == [kind |-> "stop", pc |-> "idle", seen |-> NoHost, same |-> FALSE, again |-> FALSE, digest |-> "none"]
NotHosted == [gen |-> 0, sealing |-> "no", sealed |-> FALSE]
NoCall == [pc |-> "idle", gen |-> 0, io |-> FALSE]

Init ==
  /\ RegistryInit
  /\ closing = {}
  /\ op = [h \in Host |-> NoOp]
  /\ hosted = [h \in Host |-> NotHosted]
  /\ handles = [h \in Host |-> {}]
  /\ gate = [h \in Host |-> << >>]
  /\ call = [h \in Host |-> NoCall]

Hosts(h) == hosted[h].gen # 0
InLine(h, who) == \E i \in DOMAIN gate[h] : gate[h][i] = who
Holds(h, who) == gate[h] # << >> /\ Head(gate[h]) = who
Goto(h, pc) == op' = [op EXCEPT ![h].pc = pc]
EndOp(h) == op' = [op EXCEPT ![h] = NoOp]
EnterGate(h, who) == gate' = [gate EXCEPT ![h] = Append(@, who)]
LeaveGate(h) == gate' = [gate EXCEPT ![h] = Tail(@)]

\* Mutant: an operation keeps its share of the lease.
LeaveOwning(h) == EndOp(h) /\ LeaveGate(h) /\ UNCHANGED ownership

\* The operation is over, refused or not: it leaves the gate and its lease.
Leave(h) == EndOp(h) /\ LeaveGate(h) /\ ReleaseLease(h)

\* An operation of h at pc that still owns the app (assertOwned).
At(h, pc) == op[h].pc = pc /\ Owns(h)
Working(h, kind) == At(h, "work") /\ op[h].kind = kind

-----------------------------------------------------------------------------
(***************************************************************************)
(* Sealing the hosted instance: seal, sealHosted, finishSeal.              *)
(***************************************************************************)

\* sealHosted: no new call verifies from here on.
AskSeal(h) ==
  /\ hosted[h].sealing = "no" /\ Owns(h)
  /\ hosted' = [hosted EXCEPT ![h].sealing = "asked"]
  /\ inst' = IF hosted[h].sealed THEN inst ELSE [inst EXCEPT !.state = "stopping"]
  /\ EnterGate(h, "seal")

\* What authorizeCall and verifyToken ask of a call by the hosted instance.
Verifies(h) ==
  /\ h \notin closing /\ Hosts(h) /\ app[hosted[h].gen] # "none"
  /\ inst.gen = hosted[h].gen /\ inst.state = "running" /\ Runnable

\* The third call outside the scope of the app seals it, outside the lifecycle.
ViolationsSeal(h) ==
  /\ "violations" \in Happens
  /\ Verifies(h)
  /\ AskSeal(h)
  /\ UNCHANGED <<ownership, appRow, directories, app, closing, op, handles, call>>

\* After ten seconds the one who asked is told to wait; the row says sealing
\* from then on, which nothing tells from stopping.
SealWaits(h) ==
  /\ hosted[h].sealing = "asked"
  /\ hosted' = [hosted EXCEPT ![h].sealing = "answered"]
  /\ UNCHANGED <<registry, closing, op, handles, gate, call>>

Answered(h) == [hosted EXCEPT ![h].sealing = "answered"]

SealInGate(h) ==
  /\ Holds(h, "seal") /\ ~hosted[h].sealed
  /\ \/ /\ Owns(h)
        /\ inst' = [inst EXCEPT !.state = "sealed"]
        /\ hosted' = [hosted EXCEPT ![h].sealed = TRUE]
        /\ UNCHANGED gate
     \/ /\ "errors" \in Happens
        /\ hosted' = Answered(h) /\ LeaveGate(h)
        /\ UNCHANGED inst
  /\ UNCHANGED <<ownership, appRow, directories, app, closing, op, handles, call>>

\* The runner stops the process through its handle; then the instance ends.
StopSealed(h) ==
  /\ Holds(h, "seal") /\ hosted[h].sealed
  /\ LeaveGate(h)
  /\ app' = [app EXCEPT ![hosted[h].gen] = "none"]
  /\ handles' = [handles EXCEPT ![h] = @ \ {hosted[h].gen}]
  /\ \/ /\ Owns(h)
        /\ inst' = NoInstance
        /\ hosted' = [hosted EXCEPT ![h] = NotHosted]
        /\ ReleaseLease(h)
     \/ /\ "errors" \in Happens
        /\ hosted' = Answered(h)
        /\ UNCHANGED <<inst, ownership>>
  /\ UNCHANGED <<appRow, directories, closing, op, call>>

\* A stop that failed leaves the instance hosted and sealed for the next seal.
StopFails(h) ==
  /\ "stuck" \in Happens
  /\ Holds(h, "seal") /\ hosted[h].sealed /\ app[hosted[h].gen] # "none"
  /\ LeaveGate(h)
  /\ hosted' = [hosted EXCEPT ![h].sealing = "no"]
  /\ UNCHANGED <<registry, closing, op, handles, call>>

-----------------------------------------------------------------------------
(***************************************************************************)
(* Operations, from their admission to the gate: operations.run, start and *)
(* stop, the lease (acquireNow, takeLease), reconcile.                     *)
(***************************************************************************)

Admitted(h) == op[h].pc = "idle" /\ h \notin closing
Begin(h, kind, pc) == op' = [op EXCEPT ![h] = [NoOp EXCEPT !.kind = kind, !.pc = pc]]

AskStart(h) ==
  /\ Admitted(h) /\ h \in Runner /\ ~Hosts(h) /\ Runnable
  /\ Begin(h, "start", "acquire")
  /\ UNCHANGED <<registry, closing, hosted, handles, gate, call>>

\* Where nothing is hosted, an export is a decision that does nothing.
AskExport(h) ==
  /\ Admitted(h) /\ Hosts(h)
  /\ Begin(h, "export", "acquire")
  /\ UNCHANGED <<registry, closing, hosted, handles, gate, call>>

\* Every other operation first ends the instance h hosts.
EndHosted(h, kind) ==
  /\ IF Hosts(h) THEN Begin(h, kind, "sealing") ELSE Begin(h, "decision", "acquire")
  /\ IF Hosts(h) /\ hosted[h].sealing = "no"
     THEN AskSeal(h)
     ELSE UNCHANGED <<hosted, inst, gate>>
  /\ UNCHANGED <<ownership, appRow, directories, app, closing, handles, call>>

AskToEnd(h, kind) == Admitted(h) /\ EndHosted(h, kind)

\* exited: the process of the instance hosted here ended by itself.
SeeExit(h) ==
  /\ Admitted(h) /\ Hosts(h) /\ hosted[h].sealing = "no"
  /\ app[hosted[h].gen] = "none"
  /\ EndHosted(h, "stop")

AwaitSeal(h) ==
  /\ op[h].pc = "sealing"
  /\ \/ ~Hosts(h) /\ IF op[h].kind = "stop" THEN EndOp(h) ELSE Goto(h, "acquire")
     \/ Hosts(h) /\ hosted[h].sealing # "asked" /\ EndOp(h)
  /\ UNCHANGED <<registry, closing, hosted, handles, gate, call>>

\* A lease this process holds is shared.
ShareAcquire(h) ==
  /\ At(h, "acquire")
  /\ ShareLease(h)
  /\ Goto(h, "queued") /\ EnterGate(h, "op")
  /\ UNCHANGED <<appRow, inst, directories, app, closing, hosted, handles, call>>

ReadOwner(h) ==
  /\ op[h].pc = "acquire" /\ lease[h].holders = 0
  /\ op' = [op EXCEPT ![h].pc = "take", ![h].seen = owner, ![h].same = TRUE]
  /\ UNCHANGED <<registry, closing, hosted, handles, gate, call>>

\* Mutant: an owner that does not answer the probe counts as ended.
TakeableUnlessAnswering(h) == op[h].seen \in {h, NoHost, Gone} \/ "unknown" \in Happens

\* takeLease once the owner of the snapshot is probed: only a free app, its
\* own, or one whose owner has ended is taken, while the row is as it was.
Takeable(h) == op[h].seen \in {h, NoHost, Gone}
SameOwner(h) == owner = op[h].seen /\ op[h].same

TakeLease(h) ==
  /\ op[h].pc = "take" /\ Takeable(h) /\ SameOwner(h)
  /\ TakeOwner(h)
  /\ op' = [g \in Host |-> IF g = h THEN [NoOp EXCEPT !.kind = op[h].kind, !.pc = "queued"]
                                    ELSE [op[g] EXCEPT !.same = FALSE]]
  /\ EnterGate(h, "op")
  /\ UNCHANGED <<appRow, inst, directories, app, closing, hosted, handles, call>>

OwnerChanged(h) ==
  /\ op[h].pc = "take" /\ Takeable(h) /\ ~SameOwner(h)
  /\ IF op[h].again THEN EndOp(h)
     ELSE op' = [op EXCEPT ![h] = [NoOp EXCEPT !.kind = op[h].kind, !.pc = "acquire", !.again = TRUE]]
  /\ UNCHANGED <<registry, closing, hosted, handles, gate, call>>

\* The probe answers alive, or cannot tell.
RefuseTakeover(h) ==
  /\ op[h].pc = "take"
  /\ \/ ~Takeable(h)
     \/ "unknown" \in Happens /\ op[h].seen = Gone
  /\ EndOp(h)
  /\ UNCHANGED <<registry, closing, hosted, handles, gate, call>>

\* reconcile, stopOrphan: an instance of a host that has ended is ended, once
\* its process is gone or when no process was recorded.
Orphaned(h) == Unfinished /\ inst.owner # h

\* Mutant: the instance of a host that has ended is ended without its process.
ReconcileUnproven(h) ==
  /\ At(h, "queued") /\ Holds(h, "op")
  /\ inst' = IF Orphaned(h) THEN NoInstance ELSE inst
  /\ Goto(h, "settle")
  /\ UNCHANGED <<ownership, appRow, directories, app, closing, hosted, handles, gate, call>>

Reconcile(h) ==
  /\ At(h, "queued") /\ Holds(h, "op")
  /\ Orphaned(h) /\ inst.pid => app[inst.gen] = "none"
  /\ inst' = IF Orphaned(h) THEN NoInstance ELSE inst
  /\ Goto(h, "settle")
  /\ UNCHANGED <<ownership, appRow, directories, app, closing, hosted, handles, gate, call>>

RefuseOrphan(h) ==
  /\ At(h, "queued") /\ Holds(h, "op")
  /\ Orphaned(h) /\ inst.pid
  /\ app[inst.gen] # "none" \/ "unknown" \in Happens
  /\ Leave(h)
  /\ UNCHANGED <<appRow, inst, directories, app, closing, hosted, handles, call>>

SettleDeletion(h) ==
  /\ At(h, "settle")
  /\ Settled
  /\ Goto(h, "work")
  /\ UNCHANGED <<ownership, app, closing, hosted, handles, gate, call>>

\* A transaction or a change of the directories throws: the operation is over.
OpThrows(h) ==
  /\ "errors" \in Happens
  /\ op[h].pc \in (InGate \cup {"queued"}) \ {"prepare", "spawn", "register"} /\ Holds(h, "op")
  /\ Leave(h)
  /\ UNCHANGED <<appRow, inst, directories, app, closing, hosted, handles, call>>

-----------------------------------------------------------------------------
(***************************************************************************)
(* Starting an instance: launch.                                           *)
(***************************************************************************)

\* A bound: a start waits while every generation is still referred to.
NewGeneration ==
  {g \in Generation : app[g] = "none"}
    \ UNION {handles[h] \cup {hosted[h].gen, call[h].gen} : h \in Host}

Launch(h) ==
  /\ Working(h, "start")
  /\ ~Unfinished /\ Runnable
  /\ \E g \in NewGeneration : inst' = [gen |-> g, owner |-> h, state |-> "running", pid |-> FALSE]
  /\ Goto(h, "prepare")
  /\ UNCHANGED <<ownership, appRow, directories, app, closing, hosted, handles, gate, call>>

\* ensureDataDirectory, once the instance is committed.
PrepareData(h) ==
  /\ At(h, "prepare")
  /\ IF data = "absent" THEN data' \in Written ELSE UNCHANGED data
  /\ Goto(h, "spawn")
  /\ UNCHANGED <<ownership, appRow, inst, aside, app, closing, hosted, handles, gate, call>>

RefuseLaunch(h) ==
  /\ Working(h, "start")
  /\ Unfinished \/ ~Runnable
  /\ Leave(h)
  /\ UNCHANGED <<appRow, inst, directories, app, closing, hosted, handles, call>>

Spawn(h) ==
  /\ At(h, "spawn")
  /\ app' = [app EXCEPT ![inst.gen] = "running"]
  /\ handles' = [handles EXCEPT ![h] = @ \cup {inst.gen}]
  /\ Goto(h, "register")
  /\ UNCHANGED <<ownership, appRow, inst, directories, closing, hosted, gate, call>>

SpawnFails(h) ==
  /\ At(h, "prepare") \/ At(h, "spawn")
  /\ inst' = NoInstance \/ ("errors" \in Happens /\ UNCHANGED inst)
  /\ Leave(h)
  /\ UNCHANGED <<appRow, directories, app, closing, hosted, handles, call>>

Register(h) ==
  /\ At(h, "register") /\ h \notin closing
  /\ inst' = [inst EXCEPT !.pid = TRUE]
  /\ app' = [app EXCEPT ![inst.gen] = IF @ = "running" THEN "recorded" ELSE @]
  /\ hosted' = [hosted EXCEPT ![h] = [NotHosted EXCEPT !.gen = inst.gen]]
  /\ EndOp(h) /\ LeaveGate(h)
  /\ UNCHANGED <<ownership, appRow, directories, closing, handles, call>>

\* The host closes, or the pid cannot be recorded: the process is stopped and
\* the instance ends; where the stop fails the handle and the row stay, and
\* where the end cannot be recorded the row does.
AbandonStart(h) ==
  /\ At(h, "register")
  /\ h \in closing \/ "errors" \in Happens
  /\ \/ /\ app' = [app EXCEPT ![inst.gen] = "none"]
        /\ handles' = [handles EXCEPT ![h] = @ \ {inst.gen}]
        /\ inst' = NoInstance \/ ("errors" \in Happens /\ UNCHANGED inst)
     \/ /\ "stuck" \in Happens /\ app[inst.gen] # "none"
        /\ UNCHANGED <<app, handles, inst>>
  /\ Leave(h)
  /\ UNCHANGED <<appRow, directories, closing, hosted, call>>

-----------------------------------------------------------------------------
(***************************************************************************)
(* Decisions: versions.js, removal.js, data-deletion.js.                   *)
(***************************************************************************)

\* stop has nothing left to do; export copies the data, or refuses while an
\* instance has not ended; a decision may be refused: the version does not fit
\* the app, the ticket is missing, wrong or expired.
Nothing(h) ==
  /\ At(h, "work") /\ op[h].kind # "start"
  /\ Leave(h)
  /\ UNCHANGED <<appRow, inst, directories, app, closing, hosted, handles, call>>

Decided(h) ==
  /\ Leave(h)
  /\ UNCHANGED <<inst, directories, app, closing, hosted, handles, call>>

\* approve and rollback, confirmed at a terminal or not.
Approve(h) ==
  /\ Working(h, "decision")
  /\ status \notin {"data_deleting", "deleted"}
  /\ status' \in {"active", "disabled"} /\ offer' = "none"
  /\ Decided(h)

Disable(h) ==
  /\ Working(h, "decision")
  /\ status = "active"
  /\ status' = "disabled" /\ UNCHANGED offer
  /\ Decided(h)

DeleteCode(h) ==
  /\ Working(h, "decision")
  /\ status \notin {"data_deleting", "deleted"}
  /\ status' = "code_deleted" /\ UNCHANGED offer
  /\ Decided(h)

\* dataDigest, for the offer and again for the deletion.
Digest(h, pc) ==
  /\ Working(h, "decision") /\ status = "code_deleted"
  /\ op' = [op EXCEPT ![h].pc = pc, ![h].digest = data]
  /\ UNCHANGED <<registry, closing, hosted, handles, gate, call>>

PrepareDataDeletion(h) == Digest(h, "offer")
DeleteData(h) == offer # "none" /\ Digest(h, "confirm")

StoreOffer(h) ==
  /\ At(h, "offer")
  /\ offer' = op[h].digest
  /\ UNCHANGED status
  /\ Decided(h)

\* The data is not what the ticket is bound to.
DataChanged(h) ==
  /\ At(h, "confirm") /\ op[h].digest # offer
  /\ offer' = "none"
  /\ UNCHANGED status
  /\ Decided(h)

\* A directory an earlier deletion left is reported and never touched again:
\* the model forgets it.
CommitDeleting(h) ==
  /\ At(h, "confirm") /\ op[h].digest = offer
  /\ status' = "data_deleting" /\ offer' = "none"
  /\ aside' = FALSE
  /\ Goto(h, "rename")
  /\ UNCHANGED <<ownership, inst, data, app, closing, hosted, handles, gate, call>>

MoveDataAside(h) ==
  /\ At(h, "rename")
  /\ data' = "absent" /\ aside' = (data # "absent")
  /\ op' = [op EXCEPT ![h] = [NoOp EXCEPT !.kind = "decision", !.pc = "remove"]]
  /\ UNCHANGED <<ownership, appRow, inst, app, closing, hosted, handles, gate, call>>

RemoveData(h) ==
  /\ At(h, "remove")
  /\ aside' = FALSE
  /\ Goto(h, "finish")
  /\ UNCHANGED <<ownership, appRow, inst, data, app, closing, hosted, handles, gate, call>>

FinishDeletion(h) ==
  /\ At(h, "finish")
  /\ status' = "deleted" /\ offer' = "none"
  /\ inst' = NoInstance
  /\ Leave(h)
  /\ UNCHANGED <<directories, app, closing, hosted, handles, call>>

-----------------------------------------------------------------------------
(***************************************************************************)
(* A write call of the app: authorizeCall, runWrite, runWithPort and the   *)
(* operations of its data port.                                            *)
(***************************************************************************)

callOnly == <<registry, closing, op, hosted, handles>>

AuthorizeCall(h) ==
  /\ call[h].pc = "idle" /\ Verifies(h)
  /\ call' = [call EXCEPT ![h] = [NoCall EXCEPT !.pc = "authorized", !.gen = inst.gen]]
  /\ UNCHANGED <<callOnly, gate>>

EnterCall(h) ==
  /\ call[h].pc = "authorized"
  /\ call' = [call EXCEPT ![h].pc = "queued"] /\ EnterGate(h, "call")
  /\ UNCHANGED callOnly

\* Mutant: a call waits for the gate and does not look at the seal again.
CurrentGeneration(h) == inst.gen = call[h].gen

\* current: the instance was not superseded and not sealed meanwhile.
Current(h) == inst.gen = call[h].gen /\ inst.state # "sealed"

RunTool(h) ==
  /\ call[h].pc = "queued" /\ Holds(h, "call")
  /\ Current(h) /\ Owns(h)
  /\ call' = [call EXCEPT ![h].pc = "running"]
  /\ UNCHANGED <<callOnly, gate>>

\* Mutant: a call refused at its turn keeps the gate.
RefuseCallInGate(h) ==
  /\ call[h].pc = "queued" /\ Holds(h, "call")
  /\ ~(Current(h) /\ Owns(h))
  /\ call' = [call EXCEPT ![h] = NoCall] /\ UNCHANGED gate
  /\ UNCHANGED callOnly

RefuseCall(h) ==
  /\ call[h].pc = "queued" /\ Holds(h, "call")
  /\ ~(Current(h) /\ Owns(h))
  /\ call' = [call EXCEPT ![h] = NoCall] /\ LeaveGate(h)
  /\ UNCHANGED callOnly

\* An operation of the port is counted before its path is looked at.
StartIo(h) ==
  /\ call[h].pc = "running" /\ ~call[h].io
  /\ call' = [call EXCEPT ![h].io = TRUE]
  /\ UNCHANGED <<callOnly, gate>>

\* The fence is asked again right before the change; a missing root refuses.
PerformIo(h) ==
  /\ call[h].io
  /\ IF Owns(h) /\ data # "absent" THEN data' \in Written ELSE UNCHANGED data
  /\ call' = [call EXCEPT ![h].io = FALSE]
  /\ UNCHANGED <<ownership, appRow, inst, aside, app, closing, op, hosted, handles, gate>>

\* The tool settles and its port closes, with an operation still on its way.
SettleCall(h) ==
  /\ call[h].pc = "running"
  /\ call' = [call EXCEPT ![h].pc = "settled"]
  /\ UNCHANGED <<callOnly, gate>>

\* Mutant: the call does not wait for the operations of its port.
FinishUndrained(h) ==
  /\ call[h].pc = "settled"
  /\ call' = [call EXCEPT ![h] = [NoCall EXCEPT !.io = call[h].io]] /\ LeaveGate(h)
  /\ UNCHANGED callOnly

\* Drained: the call commits, or is refused, and leaves the gate.
FinishCall(h) ==
  /\ call[h].pc = "settled" /\ ~call[h].io
  /\ call' = [call EXCEPT ![h] = NoCall] /\ LeaveGate(h)
  /\ UNCHANGED callOnly

-----------------------------------------------------------------------------
(***************************************************************************)
(* The end of a process, the person and the app itself.                    *)
(***************************************************************************)

\* close: nothing is admitted any more.
BeginClose(h) ==
  /\ "ends" \in Happens /\ h \in Runner
  /\ closing' = closing \cup {h}
  /\ UNCHANGED <<registry, op, hosted, handles, gate, call>>

\* Once what was in flight is over, or thirty seconds later.
CloseSeal(h) ==
  /\ h \in closing /\ Hosts(h) /\ ~hosted[h].sealed
  /\ AskSeal(h)
  /\ UNCHANGED <<ownership, appRow, directories, app, closing, op, handles, call>>

\* stopHeld, recordLateStop.  After thirty seconds close no longer waits for the
\* seal of its instance, nor for one that could not begin; an operation that
\* waits for it was answered after ten.  A seal still in the gate ends the
\* instance when its turn comes; else the end is recorded, or left to the next
\* owner (also by a close that is asked again).
CloseStop(h) ==
  /\ h \in closing /\ op[h].pc # "sealing"
  /\ \E g \in handles[h] :
       /\ hosted[h].gen = g => hosted[h].sealed \/ hosted[h].sealing # "no" \/ "errors" \in Happens
       /\ app' = [app EXCEPT ![g] = "none"]
       /\ handles' = [handles EXCEPT ![h] = @ \ {g}]
       /\ \/ /\ hosted[h].gen # g \/ InLine(h, "seal")
             /\ UNCHANGED <<inst, ownership, hosted>>
          \/ /\ hosted[h].gen = g /\ ~InLine(h, "seal")
             /\ hosted' = [hosted EXCEPT ![h] = NotHosted]
             /\ \/ hosted[h].sealed /\ Owns(h) /\ inst' = NoInstance /\ ReleaseLease(h)
                \/ UNCHANGED <<inst, ownership>>
  /\ UNCHANGED <<appRow, directories, closing, op, gate, call>>

\* Another process takes the place of the one that ended: killed, crashed,
\* at the end of its close, or a CLI whose command is over.
Renamed(o, h) == IF o = h THEN Gone ELSE o

ProcessEnds(h) ==
  /\ "ends" \in Happens /\ (h \in Runner => h \in closing)
  /\ owner' = Renamed(owner, h)
  /\ inst' = [inst EXCEPT !.owner = Renamed(@, h)]
  /\ lease' = [lease EXCEPT ![h] = NoLease]
  /\ op' = [g \in Host |-> IF g = h THEN NoOp ELSE [op[g] EXCEPT !.seen = Renamed(@, h)]]
  /\ closing' = closing \ {h}
  /\ hosted' = [hosted EXCEPT ![h] = NotHosted]
  /\ handles' = [handles EXCEPT ![h] = {}]
  /\ gate' = [gate EXCEPT ![h] = << >>]
  /\ call' = [call EXCEPT ![h] = NoCall]
  /\ UNCHANGED <<appRow, directories, app>>

Held(g) == \E h \in Host : g \in handles[h]

\* app-launcher.js: an app process ends with the pipe of its host.
OrphanEnds(g) ==
  /\ app[g] # "none" /\ ~Held(g)
  /\ app' = [app EXCEPT ![g] = "none"]
  /\ UNCHANGED <<ownership, appRow, inst, directories, process>>

AppExits(g) ==
  /\ "exit" \in Happens
  /\ app[g] # "none" /\ Held(g)
  /\ app' = [app EXCEPT ![g] = "none"]
  /\ UNCHANGED <<ownership, appRow, inst, directories, process>>

\* A person changes the files: it tells while a deletion is offered, or between
\* a digest and what is done with it, which nothing guards.
EditData ==
  /\ "edit" \in Happens
  /\ data # "absent"
  /\ offer # "none" \/ \E h \in Host : op[h].digest # "none"
  /\ data' \in Written \ {data}
  /\ UNCHANGED <<ownership, appRow, inst, aside, app, process>>

-----------------------------------------------------------------------------

Seals(h) == SealInGate(h) \/ StopSealed(h) \/ StopFails(h)
Acquires(h) ==
  \/ AwaitSeal(h) \/ ShareAcquire(h) \/ ReadOwner(h) \/ TakeLease(h) \/ OwnerChanged(h)
  \/ RefuseTakeover(h) \/ Reconcile(h) \/ RefuseOrphan(h) \/ SettleDeletion(h)
Starts(h) ==
  \/ Launch(h) \/ RefuseLaunch(h) \/ PrepareData(h) \/ Spawn(h) \/ SpawnFails(h) \/ Register(h) \/ AbandonStart(h)
Decides(h) ==
  \/ Nothing(h) \/ Approve(h) \/ Disable(h) \/ DeleteCode(h) \/ PrepareDataDeletion(h) \/ DeleteData(h) \/ StoreOffer(h) \/ DataChanged(h)
  \/ CommitDeleting(h) \/ MoveDataAside(h) \/ RemoveData(h) \/ FinishDeletion(h)
Calls(h) == EnterCall(h) \/ RunTool(h) \/ RefuseCall(h) \/ PerformIo(h) \/ SettleCall(h) \/ FinishCall(h)

\* What a process does by itself once it was asked.
Step(h) == Seals(h) \/ Acquires(h) \/ Starts(h) \/ Decides(h) \/ Calls(h) \/ SeeExit(h)

Asked(h) ==
  \/ AskStart(h) \/ AskExport(h) \/ AskToEnd(h, "stop") \/ AskToEnd(h, "decision")
  \/ ViolationsSeal(h) \/ SealWaits(h) \/ OpThrows(h) \/ AuthorizeCall(h) \/ StartIo(h)
  \/ BeginClose(h) \/ CloseSeal(h) \/ CloseStop(h) \/ ProcessEnds(h)

Next ==
  \/ \E h \in Host : Step(h) \/ Asked(h)
  \/ \E g \in Generation : OrphanEnds(g) \/ AppExits(g)
  \/ EditData

Spec == Init /\ [][Next]_vars

\* The values of all variables; in particular a host shares its lease at most
\* between its instance and one operation (acquire and release of owner-lease.js).
TypeOK ==
  /\ owner \in Owner
  /\ lease \in [Host -> [current: BOOLEAN, holders: 0..2]]
  /\ status \in Status /\ offer \in Content \cup {"none"}
  /\ inst \in Instance
  /\ data \in Content /\ aside \in BOOLEAN
  /\ app \in [Generation -> {"none", "running", "recorded"}]
  /\ closing \subseteq Host
  /\ op \in [Host -> [kind: Kind, pc: OpPC, seen: Owner, same: BOOLEAN, again: BOOLEAN, digest: Content \cup {"none"}]]
  /\ hosted \in [Host -> [gen: Generation \cup {0}, sealing: Sealing, sealed: BOOLEAN]]
  /\ handles \in [Host -> SUBSET Generation]
  /\ gate \in [Host -> Seq({"op", "seal", "call"})]
  /\ call \in [Host -> [pc: CallPC, gen: Generation \cup {0}, io: BOOLEAN]]

\* While a host works inside the gate, hosts an instance or runs a tool, the
\* owner row names it and the fence it remembers is the row's: no two hosts work
\* on the app at once, whoever took the app over and however the probes of their
\* owners answered (assertOwned, takeLease).
WorkersOwn ==
  \A h \in Host : op[h].pc \in InGate \/ Hosts(h) \/ call[h].pc \in {"running", "settled"} => Owns(h)

\* While a write tool runs, and until the operations it started are done, its
\* instance is the current one and not sealed, the app is active, and no host is
\* inside an operation on the app (runWrite, finishSeal, operations.js).
ToolRunsAlone ==
  \A h \in Host : call[h].pc \in {"running", "settled"} =>
    /\ inst.gen = call[h].gen /\ inst.state # "sealed" /\ status = "active"
    /\ \A g \in Host : op[g].pc \notin InGate

\* A process whose pid was recorded and that still runs belongs to the instance
\* of the row: no instance is called ended, and no next one started, beside a
\* process of it (stopHandle, reconcile, stopOrphan).
RecordedIsCurrent ==
  \A g \in Generation : app[g] = "recorded" => inst.gen = g

\* What the person is told is deleted is gone: the moved data directory too, and
\* no instance is left, through every failure and restart between the steps of
\* deleteData (finish and settle of data-deletion.js).
DeletedIsErased ==
  status = "deleted" => ~aside /\ ~Unfinished

\* From the digest that confirms a deletion to the move of the directory,
\* nothing of FULI changes the data: no write that outlived its call, no start
\* and no other process; the deletion is committed on a digest the person was
\* offered, and what moves the data is that deletion, its host still the owner.
\* What a person edits in between is moved away with the rest (deleteData, the
\* drain of runWithPort, assertOwned).
OnlyAgreedDataIsDeleted ==
  [][/\ status # "data_deleting" /\ status' = "data_deleting" =>
          \E h \in Host : At(h, "confirm") /\ op[h].digest = offer
     /\ data # "absent" /\ data' = "absent" => \E h \in Host : At(h, "rename")
     /\ \A h \in Host : op[h].pc \in {"confirm", "rename"} /\ data' # data =>
          EditData \/ (At(h, "rename") /\ data' = "absent")]_vars

Waiting(h) == op[h].pc # "idle" \/ gate[h] # << >>

\* Whose turn it is in host h: the operation's before it is in the gate, and
\* then that of the one at the head of the gate, who is still there to take it.
HasTurn(h) ==
  \/ op[h].pc = "sealing" /\ ~(Hosts(h) /\ hosted[h].sealing = "asked")
  \/ op[h].pc \in {"acquire", "take"}
  \/ Holds(h, "op") /\ op[h].pc \in InGate \cup {"queued"} /\ Owns(h)
  \/ Holds(h, "seal") /\ Hosts(h) /\ Owns(h)
  \/ Holds(h, "call") /\ call[h].pc \in {"queued", "running", "settled"}

\* Whenever an operation is under way or somebody is queued at a write gate,
\* it is somebody's turn there, and that host has a next step of its own: no
\* failure path keeps the gate or the lifecycle (write-gate.js, operations.js,
\* finishSeal).
NobodyWaitsForever ==
  \A h \in Host : Waiting(h) =>
    HasTurn(h) /\ (ENABLED Step(h) \/ (Working(h, "start") /\ NewGeneration = {}))

=============================================================================
