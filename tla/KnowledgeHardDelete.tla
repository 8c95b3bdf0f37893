------------------------- MODULE KnowledgeHardDelete --------------------------
(***************************************************************************)
(* The permanent deletion of a knowledge item from the local console       *)
(* (src/knowledge-hard-delete) and what it promises about the words that   *)
(* FULI keeps of the item on this computer.                                *)
(*                                                                         *)
(* Four parties work on one data directory and one personal space:         *)
(*                                                                         *)
(*   - a flow is one call of the console port (console-port.js): a page's  *)
(*     confirm or status, or a reconciliation by a console or the CLI;     *)
(*   - the graph decides each operation once, under its knowledge lock     *)
(*     (knowledge_hard_delete_operations.py), and lists what was deleted;  *)
(*   - the ledger (delete-ledger.js) records the operations of this data   *)
(*     directory with the watermark: how much of the graph's list is known *)
(*     to be erased here.  It is the fence of every local write;           *)
(*   - an Agent's process reads and writes the words of a store            *)
(*     (judgment/store.js) behind its gate (recovery-gate.js), the proof   *)
(*     that watermark and graph agree.                                     *)
(*                                                                         *)
(* The stores are one store.  Time decides nothing: an operation may be    *)
(* aborted, a proof may expire and an answer may fail to come at any time. *)
(* A record that begins and at once says what it knows is one step, unless *)
(* its process ends in between (AdoptEnds).                                *)
(***************************************************************************)
EXTENDS Integers, Sequences, FiniteSets

CONSTANTS
  Item, NoItem,
  MaxSent,     \* operations that a page confirms
  MaxOps,      \* operations that are ever begun
  Flow,
  Checker,     \* the flows that reconcile: a console's own check, or the CLI; the others are calls of a page
  MaxFaults,   \* crashes, losses, restores and failed calls together
  Happens      \* which of the optional events may occur

Op == 1 .. MaxOps
NoOp == 0
No == -1

Event == {"crash", "lose", "restore", "backup", "unreachable", "busy", "refuse", "elsewhere"}

ASSUME KnowledgeAssumption ==
  /\ NoItem \notin Item
  /\ Checker \subseteq Flow
  /\ MaxSent \in Nat /\ MaxOps \in Nat /\ MaxFaults \in Nat
  /\ Happens \subseteq Event

VARIABLES
  deletions,  \* the items the graph deleted, in order: what is listed, and its watermark by its length
  outcome,    \* outcome[o]: what the graph recorded of operation o
  inflight,   \* inflight[o]: the item that a delete request on its way to the graph names
  ledger,     \* ledger[o]: the record of operation o
  mark,       \* the count of the recorded watermark, No for none
  file,       \* the ledger file exists
  backup,     \* a copy of the ledger file taken earlier
  words,      \* the items whose words the store holds
  tx,         \* the item a local writer is storing words of, inside its transaction
  proof,      \* the count the Agent's gate is open for, No when it is closed
  flow,       \* flow[c]: a call of the console port
  faults

graph == <<deletions, outcome, inflight>>
record == <<ledger, mark, file>>
store == <<words, tx>>
vars == <<graph, record, backup, store, proof, flow, faults>>

State == {"none", "pending", "graph_deleted", "complete", "not_deleted"}
OpenStates == {"pending", "graph_deleted"}
FencedStates == {"pending", "graph_deleted", "complete"}
Outcome == {"unknown", "committed", "refused", "gone", "aborted"}
Place == {"idle", "settle", "clean", "list", "adopt", "mark"}

\* found: the record names the graph's deletion (deletionId), which no later state takes from it.
NoRecord == [state |-> "none", item |-> NoItem, found |-> FALSE]
Entry == {NoRecord} \cup [state : State \ {"none"}, item : Item, found : BOOLEAN]
NoLedger == [o \in Op |-> NoRecord]
NoBackup == [ledger |-> NoLedger, mark |-> No]
Call == [pc : Place, mode : {"page", "reconcile", "adopt"}, op : Op \cup {NoOp},
         opened : [Op -> {"none"} \cup OpenStates], known : Seq(Op \cup {NoOp, No}), at : Nat]
Idle == [pc |-> "idle", mode |-> "page", op |-> NoOp, opened |-> [o \in Op |-> "none"], known |-> <<>>, at |-> 0]

Init ==
  /\ deletions = <<>> /\ outcome = [o \in Op |-> "unknown"] /\ inflight = [o \in Op |-> NoItem]
  /\ ledger = NoLedger /\ mark = No /\ file = FALSE /\ backup = NoBackup
  /\ words = Item /\ tx = NoItem
  /\ proof = No
  /\ flow = [c \in Flow |-> Idle]
  /\ faults = 0

Fault(event) == event \in Happens /\ faults < MaxFaults /\ faults' = faults + 1

-----------------------------------------------------------------------------
(***************************************************************************)
(* The ledger.  Each of its changes is one write of the file under its     *)
(* lock; the new stamp voids the gate's proof and a refresh in progress.   *)
(***************************************************************************)

Deleted(i) == \E k \in DOMAIN deletions : deletions[k] = i

Fenced(i) == \E o \in Op : ledger[o].item = i /\ ledger[o].state \in FencedStates

\* Operation o is in the ledger or may come back to it.
Kept(o) == ledger[o] # NoRecord \/ backup.ledger[o] # NoRecord

\* Operations begin in their order.
Free == {o \in Op : inflight[o] = NoItem /\ outcome[o] = "unknown" /\ \A p \in Op : Kept(p) => p < o}
NewOp(o) == o \in Free /\ \A p \in Free : o <= p

Least(S) == CHOOSE n \in S : \A m \in S : n <= m
Last(S) == IF S = {} THEN NoOp ELSE CHOOSE n \in S : \A m \in S : m <= n

Stamped == file' = TRUE /\ proof' = No

Record(o, i, state) ==
  /\ ledger' = [ledger EXCEPT ![o] = [state |-> state, item |-> i, found |-> @.found \/ state = "graph_deleted"]]
  /\ Stamped
  /\ UNCHANGED mark

Update(o, state) == Record(o, ledger[o].item, state)

-----------------------------------------------------------------------------
(***************************************************************************)
(* The graph.                                                              *)
(***************************************************************************)

\* Mutant: the request of an operation that was aborted or refused still deletes.
DecidesAgain(o) ==
  /\ inflight[o] # NoItem
  /\ inflight' = [inflight EXCEPT ![o] = NoItem]
  /\ \/ /\ Deleted(inflight[o])
        /\ UNCHANGED <<outcome, deletions>>
     \/ /\ ~Deleted(inflight[o])
        /\ outcome' = [outcome EXCEPT ![o] = "committed"]
        /\ deletions' = Append(deletions, inflight[o])
  /\ UNCHANGED <<record, backup, store, proof, flow, faults>>

\* The delete request of o, once it holds the lock: an operation that has an outcome keeps it.
GraphDecides(o) ==
  /\ inflight[o] # NoItem
  /\ inflight' = [inflight EXCEPT ![o] = NoItem]
  /\ \/ /\ outcome[o] # "unknown"
        /\ UNCHANGED <<outcome, deletions>>
     \/ /\ outcome[o] = "unknown" /\ Deleted(inflight[o])
        /\ outcome' = [outcome EXCEPT ![o] = "gone"]
        /\ UNCHANGED deletions
     \/ /\ outcome[o] = "unknown" /\ ~Deleted(inflight[o])
        /\ outcome' = [outcome EXCEPT ![o] = "committed"]
        /\ deletions' = Append(deletions, inflight[o])
     \/ /\ "refuse" \in Happens
        /\ outcome[o] = "unknown" /\ ~Deleted(inflight[o])
        /\ outcome' = [outcome EXCEPT ![o] = "refused"]
        /\ UNCHANGED deletions
  /\ UNCHANGED <<record, backup, store, proof, flow, faults>>

\* A console with another data directory deletes the item.
DeletedElsewhere(i) ==
  /\ "elsewhere" \in Happens
  /\ ~Deleted(i)
  /\ deletions' = Append(deletions, i)
  /\ UNCHANGED <<outcome, inflight, record, backup, store, proof, flow, faults>>

-----------------------------------------------------------------------------
(***************************************************************************)
(* A flow of the console port.  The page's confirm records the operation   *)
(* before it sends it; settle asks the graph what became of it; cleanUp    *)
(* makes the stores forget and completes the record.                       *)
(***************************************************************************)

Turn(f, pc, o) == [f EXCEPT !.pc = pc, !.op = o]
Adopting(f, known, at) == [f EXCEPT !.mode = "adopt", !.known = known, !.at = at]
Reconciling(f, opened) == [f EXCEPT !.mode = "reconcile", !.opened = opened]

Goes(c, f) == flow' = [flow EXCEPT ![c] = f]

Ongoing == <<graph, backup, store, faults>>

\* The next operation a reconciliation found open; after the last one it reads the graph's list.
Onward(f) ==
  LET rest == {o \in Op : o > f.op /\ f.opened[o] # "none"}
  IN IF rest = {} THEN Turn(f, "list", NoOp)
     ELSE Turn(f, IF f.opened[Least(rest)] = "pending" THEN "settle" ELSE "clean", Least(rest))

\* The next deletion of the list that adoptGraphDeletions does not skip.
Advance(f) ==
  LET rest == {k \in DOMAIN f.known : k > f.at /\ f.known[k] # No}
      seen == [k \in DOMAIN f.known |-> IF k <= f.at THEN No ELSE f.known[k]]
  IN IF rest = {} THEN Adopting(Turn(f, "mark", NoOp), seen, 0) ELSE Adopting(Turn(f, "adopt", NoOp), seen, Least(rest))

\* Mutant: a page's call that learns nothing is never answered.
AfterUnanswered(f, completed) ==
  CASE f.mode = "adopt"     -> Advance(f)
    [] f.mode = "reconcile" -> Onward(f)
    [] f.mode = "page"      -> Turn(f, IF completed THEN "list" ELSE "unknown", f.op)

\* What follows the work on one operation: refreshAfterDeletion, the loop of reconcile or the one of adoptGraphDeletions.
After(f, completed) ==
  CASE f.mode = "adopt"     -> Advance(f)
    [] f.mode = "reconcile" -> Onward(f)
    [] f.mode = "page"      -> IF completed THEN Turn(f, "list", f.op) ELSE Idle

\* A deletion between the preview and this step is one right after it.
Confirm(c, i) ==
  /\ c \notin Checker /\ flow[c] = Idle
  /\ ~Deleted(i)
  /\ \E o \in Op :
       /\ NewOp(o) /\ o <= MaxSent
       /\ Record(o, i, "pending")
       /\ inflight' = [inflight EXCEPT ![o] = i]
       /\ Goes(c, Turn(Idle, "settle", o))
  /\ UNCHANGED <<deletions, outcome, backup, store, faults>>

\* The answer to the delete or, when that is lost, late or a failure of the server, the one to settle's question.
\* They say the same, as a decided operation is decided for good.
Conclude(c) ==
  LET f == flow[c] IN
  /\ f.pc = "settle" /\ outcome[f.op] # "unknown"
  /\ \/ /\ outcome[f.op] \in {"committed", "gone"}
        /\ Update(f.op, "graph_deleted")
        /\ Goes(c, Turn(f, "clean", f.op))
     \/ /\ outcome[f.op] \in {"refused", "aborted"}
        /\ Update(f.op, "not_deleted")
        /\ Goes(c, After(f, FALSE))
  /\ UNCHANGED Ongoing

\* Ten minutes without an outcome.
Abort(c) ==
  LET o == flow[c].op IN
  /\ flow[c].pc = "settle" /\ outcome[o] = "unknown"
  /\ outcome' = [outcome EXCEPT ![o] = "aborted"]
  /\ UNCHANGED <<deletions, inflight, record, backup, store, proof, flow, faults>>

\* The outcome is not known yet, or the graph does not answer.
StaysUnknown(c) ==
  /\ flow[c].pc = "settle"
  /\ Goes(c, After(flow[c], FALSE))
  /\ UNCHANGED <<graph, record, backup, store, proof, faults>>

\* Mutant: the store forgets beside a writer's transaction.
CleanUpBeside(c) ==
  LET f == flow[c] IN
  /\ f.pc = "clean"
  /\ words' = words \ {ledger[f.op].item}
  /\ Update(f.op, "complete")
  /\ Goes(c, After(f, TRUE))
  /\ UNCHANGED <<graph, backup, tx, faults>>

\* The store forgets in a transaction of its own, which waits for a writer's to end, and the record says so at once.
CleanUp(c) ==
  LET f == flow[c] IN
  /\ f.pc = "clean" /\ tx = NoItem
  /\ words' = words \ {ledger[f.op].item}
  /\ Update(f.op, "complete")
  /\ Goes(c, After(f, TRUE))
  /\ UNCHANGED <<graph, backup, tx, faults>>

\* A reader still holds the old pages, or the store cannot be opened: the cleanup runs again later.
ForgetFails(c) ==
  /\ flow[c].pc = "clean" /\ Fault("busy")
  /\ Goes(c, After(flow[c], FALSE))
  /\ UNCHANGED <<graph, record, backup, store, proof>>

\* A page that does not know asks where the deletion stands: find and resume.
StatusResumes(c, i) ==
  LET o == Last({p \in Op : ledger[p].item = i}) IN
  /\ c \notin Checker /\ flow[c] = Idle
  /\ o # NoOp /\ ledger[o].state \in OpenStates
  /\ Goes(c, Turn(Idle, IF ledger[o].state = "pending" THEN "settle" ELSE "clean", o))
  /\ UNCHANGED <<graph, record, backup, store, proof, faults>>

\* Deleted by another console, or already complete here: clean up again.  The record of an operation that deleted
\* nothing is used again, also while another call is still to say of it that nothing was deleted.
StatusDeleted(c, i) ==
  LET o == Last({p \in Op : ledger[p].item = i}) IN
  /\ c \notin Checker /\ flow[c] = Idle
  /\ Deleted(i)
  /\ o # NoOp => ledger[o].state \in {"complete", "not_deleted"}
  /\ \E p \in Op :
       /\ IF o = NoOp THEN NewOp(p) ELSE p = o
       /\ Record(p, i, "graph_deleted")
       /\ Goes(c, Turn(Idle, "clean", p))
  /\ UNCHANGED Ongoing

Reconcile(c) ==
  /\ c \in Checker /\ flow[c] = Idle
  /\ Goes(c, Onward(Reconciling(Idle, [o \in Op |-> IF ledger[o].state \in OpenStates THEN ledger[o].state ELSE "none"])))
  /\ UNCHANGED <<graph, record, backup, store, proof, faults>>

\* The graph's list, and for each deletion the operation whose record names it: that one, none, or one resumed just now.
ReadList(c) ==
  LET f == flow[c]
      KnownAs(k) == Last({o \in Op : ledger[o].item = deletions[k] /\ ledger[o].found})
      Resumed(o) == o # NoOp /\ IF f.mode = "page" THEN ledger[o].item = ledger[f.op].item ELSE f.opened[o] # "none"
  IN
  /\ f.pc = "list"
  /\ Goes(c, Advance(Adopting(Idle, [k \in DOMAIN deletions |-> IF Resumed(KnownAs(k)) THEN No ELSE KnownAs(k)], 0)))
  /\ UNCHANGED <<graph, record, backup, store, proof, faults>>

ListFails(c) ==
  /\ flow[c].pc = "list" /\ Fault("unreachable")
  /\ Goes(c, Idle)
  /\ UNCHANGED <<graph, record, backup, store, proof>>

\* A deletion this record lost, or one whose erasure is run again.
Adopt(c) ==
  LET f == flow[c] IN
  /\ f.pc = "adopt"
  /\ \E o \in Op :
       /\ IF f.known[f.at] = NoOp THEN NewOp(o) ELSE o = f.known[f.at]
       /\ Record(o, deletions[f.at], "graph_deleted")
       /\ Goes(c, Turn(f, "clean", o))
  /\ UNCHANGED Ongoing

\* The process ends between beginning the record of such a deletion and saying what it is.
AdoptEnds(c) ==
  LET f == flow[c] IN
  /\ f.pc = "adopt" /\ f.known[f.at] = NoOp
  /\ Fault("crash")
  /\ \E o \in Op : NewOp(o) /\ Record(o, deletions[f.at], "pending")
  /\ Goes(c, Idle)
  /\ UNCHANGED <<graph, backup, store>>

\* Mutant: the watermark counts what the graph lists by now.
MarkLatest(c) ==
  /\ flow[c].pc = "mark"
  /\ mark' = Len(deletions)
  /\ Stamped
  /\ Goes(c, Idle)
  /\ UNCHANGED <<ledger, graph, backup, store, faults>>

\* Mutant: an empty list records no watermark.
MarkIfAny(c) ==
  /\ flow[c].pc = "mark"
  /\ mark' = IF flow[c].known = <<>> THEN mark ELSE Len(flow[c].known)
  /\ Stamped
  /\ Goes(c, Idle)
  /\ UNCHANGED <<ledger, graph, backup, store, faults>>

\* recordWatermark: what the list held, whether or not every store forgot.
Mark(c) ==
  /\ flow[c].pc = "mark"
  /\ mark' = Len(flow[c].known)
  /\ Stamped
  /\ Goes(c, Idle)
  /\ UNCHANGED <<ledger, graph, backup, store, faults>>

Crash(c) ==
  /\ flow[c] # Idle /\ Fault("crash")
  /\ Goes(c, Idle)
  /\ UNCHANGED <<graph, record, backup, store, proof>>

-----------------------------------------------------------------------------
(***************************************************************************)
(* The Agent's process.  A read of words is no step: it may happen in any  *)
(* state in which the gate is open and the item is not fenced.             *)
(***************************************************************************)

\* Mutant: no ledger, nothing to prove.
AgreesWithout(count) ==
  /\ \A o \in Op : ledger[o].state # "graph_deleted"
  /\ file => mark = count

\* evaluate.
Agrees(count) ==
  /\ \A o \in Op : ledger[o].state # "graph_deleted"
  /\ IF file THEN mark = count ELSE count = 0

\* refresh: a ledger that changed while the graph was asked proves nothing, so this is one step.
Refresh ==
  /\ proof = No /\ Agrees(Len(deletions))
  /\ proof' = Len(deletions)
  /\ UNCHANGED <<graph, record, backup, store, flow, faults>>

ProofExpires ==
  /\ proof # No
  /\ proof' = No
  /\ UNCHANGED <<graph, record, backup, store, flow, faults>>

\* record: BEGIN IMMEDIATE, the gate and the fence, and only then the words.
BeginWrite(i) ==
  /\ tx = NoItem
  /\ proof # No /\ ~Fenced(i)
  /\ tx' = i
  /\ UNCHANGED <<graph, record, backup, words, proof, flow, faults>>

CommitWrite ==
  /\ tx # NoItem
  /\ words' = words \cup {tx}
  /\ tx' = NoItem
  /\ UNCHANGED <<graph, record, backup, proof, flow, faults>>

-----------------------------------------------------------------------------
(***************************************************************************)
(* What a person does to the data directory, with FULI stopped.            *)
(***************************************************************************)

Stopped == tx = NoItem /\ \A c \in Flow : flow[c] = Idle

\* One copy, of a ledger that holds a watermark.
BackUp ==
  /\ "backup" \in Happens /\ Stopped
  /\ backup = NoBackup /\ mark # No
  /\ backup' = [ledger |-> ledger, mark |-> mark]
  /\ UNCHANGED <<graph, record, store, proof, flow, faults>>

RestoreLedger ==
  /\ Stopped /\ backup # NoBackup /\ Fault("restore")
  /\ ledger' = backup.ledger /\ mark' = backup.mark
  /\ Stamped
  /\ UNCHANGED <<graph, backup, store, flow>>

\* The damaged ledger is moved out of the data directory.
LoseLedger ==
  /\ Stopped /\ file /\ Fault("lose")
  /\ ledger' = NoLedger /\ mark' = No /\ file' = FALSE
  /\ proof' = No
  /\ UNCHANGED <<graph, backup, store, flow>>

\* The store from before the first deletion.
RestoreStore ==
  /\ Stopped /\ Fault("restore")
  /\ words' = Item
  /\ proof' = No
  /\ UNCHANGED <<graph, record, backup, tx, flow>>

-----------------------------------------------------------------------------
Page(c) == \E i \in Item : Confirm(c, i) \/ StatusResumes(c, i) \/ StatusDeleted(c, i)
Outcomes(c) == Conclude(c) \/ Abort(c) \/ StaysUnknown(c)
Cleaning(c) == CleanUp(c) \/ ForgetFails(c)
TakingIn(c) == ReadList(c) \/ ListFails(c) \/ Adopt(c) \/ AdoptEnds(c) \/ Mark(c)
Agent == Refresh \/ ProofExpires \/ (\E i \in Item : BeginWrite(i)) \/ CommitWrite
Person == BackUp \/ RestoreLedger \/ LoseLedger \/ RestoreStore

Next ==
  \/ \E o \in Op : GraphDecides(o)
  \/ \E i \in Item : DeletedElsewhere(i)
  \/ \E c \in Flow : Page(c) \/ Outcomes(c) \/ Cleaning(c) \/ Reconcile(c) \/ TakingIn(c) \/ Crash(c)
  \/ Agent \/ Person

Spec == Init /\ [][Next]_vars

(***************************************************************************)
(* A call of the port goes on until it ends, and a writer's transaction    *)
(* too.  A request that finds the gate closed starts a reconciliation and  *)
(* a refresh.  Reconciliations start at least 15 seconds apart             *)
(* (RECHECK_INTERVAL_MS), so that a refresh fits between them: it is not   *)
(* disturbed for ever.                                                     *)
(***************************************************************************)
Work(c) ==
  \/ Conclude(c) \/ StaysUnknown(c) \/ CleanUp(c)
  \/ ReadList(c) \/ Adopt(c) \/ Mark(c)

FairSpec ==
  /\ Spec
  /\ \A c \in Flow : WF_vars(Work(c)) /\ SF_vars(CleanUp(c)) /\ WF_vars(proof = No /\ Reconcile(c))
  /\ WF_vars(CommitWrite)
  /\ SF_vars(Refresh)

-----------------------------------------------------------------------------
TypeOK ==
  /\ deletions \in Seq(Item)
  /\ outcome \in [Op -> Outcome]
  /\ inflight \in [Op -> Item \cup {NoItem}]
  /\ ledger \in [Op -> Entry] /\ mark \in Nat \cup {No} /\ file \in BOOLEAN
  /\ backup \in [ledger : [Op -> Entry], mark : Nat \cup {No}]
  /\ words \subseteq Item /\ tx \in Item \cup {NoItem}
  /\ proof \in Nat \cup {No}
  /\ flow \in [Flow -> Call] /\ faults \in Nat

\* Each deletion the watermark counts is one of the graph's, and a record of this data directory names it: also when the
\* flow that records the watermark read the list long ago, when another flow adopts or settles the same deletions, and
\* after the ledger was lost or came back from a backup (recordWatermark, adoptGraphDeletions).
WatermarkIsRecorded ==
  mark # No => /\ mark <= Len(deletions)
               /\ \A k \in 1 .. mark : \E o \in Op : ledger[o].item = deletions[k] /\ ledger[o].found

Readable(i) == proof # No /\ i \in words /\ ~Fenced(i)

\* A record that named the deletion of item i when a late answer said of its own operation that it deleted nothing.
Overtaken(i) == \E o \in Op : ledger[o].item = i /\ ledger[o].found /\ ledger[o].state = "not_deleted"

\* Words of a deleted item that an Agent's process can read belong to a deletion made after its gate was proven, or to
\* one whose record was overtaken, and never to an operation of this data directory that took part in the deletion:
\* nothing lost, restored or interrupted opens the gate to them (createKnowledgeRecoveryGate, deletedKnowledgeBeside).
OnlyOvertakenWordsAreRead ==
  \A k \in DOMAIN deletions : Readable(deletions[k]) =>
    /\ k > proof \/ Overtaken(deletions[k])
    /\ \A o \in Op : ledger[o].item = deletions[k] => outcome[o] \notin {"committed", "gone"}

\* "words that name a deleted item, or one being deleted, are never stored again" (delete-ledger.js:25-27): no local
\* write begins for an item whose deletion the watermark counts.
DeletedIsNotStored ==
  [][\A i \in Item : BeginWrite(i) => \A k \in DOMAIN deletions : deletions[k] = i => k > mark]_vars

\* What the record calls not deleted is an operation that deleted nothing and never will, though its request may still
\* be on its way (abort_operation, settled_operation).
NotDeletedIsTrue == \A o \in Op : ledger[o].state = "not_deleted" => outcome[o] \in {"refused", "aborted"}

\* Words that name an item are not stored again once its deletion is complete, not even by a transaction that began
\* before the deletion did (record, forgetKnowledgeItems).
NeverStoredAgain ==
  [][CommitWrite => \A o \in Op : ledger[o].item = tx => ledger[o].state # "complete"]_vars

\* A gate that closes opens again: no loss, crash or cleanup left half done closes the words for good.
GateReopens == proof = No ~> proof # No
==============================================================================
