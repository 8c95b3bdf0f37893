--------------------------- MODULE AgentApps_proofs ---------------------------
(***************************************************************************)
(* Proofs about AgentApps, for every set of hosts, generations and         *)
(* contents and whichever of the optional events happen.                   *)
(***************************************************************************)
EXTENDS AgentApps, SequenceTheorems, TLAPS

-----------------------------------------------------------------------------
(***************************************************************************)
(* The inductive invariant.  All of it but Rows is about one host: the     *)
(* shares of its lease, its instance, its operation, its gate, its call.   *)
(***************************************************************************)

\* The share of its operation, from the lease's acquisition to the end.
Share(h) == IF op[h].pc \in InGate \cup {"queued"} THEN 1 ELSE 0

\* It holds one more, for the instance it hosts, or for one whose end it could
\* not record before it closes.
Keeps(h) == lease[h].holders = Share(h) + 1

LeaseRight(h) ==
  /\ lease[h].holders \in {Share(h), Share(h) + 1}
  /\ lease[h].current <=> lease[h].holders > 0
  /\ lease[h].current => owner = h

HostRight(h) ==
  /\ Hosts(h) => Keeps(h)
  /\ Keeps(h) => status = "active" /\ (Hosts(h) \/ h \in closing)
  /\ Hosts(h) => /\ inst.gen = hosted[h].gen /\ inst.owner = h /\ inst.pid
                 /\ hosted[h].sealed <=> inst.state = "sealed"
  /\ ~Hosts(h) => hosted[h] = NotHosted
  /\ inst.pid /\ inst.owner = h => Keeps(h)

Started == {"prepare", "spawn", "register"}
Deciding == {"offer", "confirm", "rename", "remove", "finish"}

OpRight(h) ==
  /\ op[h].pc = "take" => lease[h].holders = 0
  /\ op[h].pc = "sealing" => op[h].kind \in {"stop", "decision"} /\ (Keeps(h) => Hosts(h))
  /\ op[h].pc \notin {"idle", "sealing"} => op[h].kind # "stop" /\ (op[h].kind # "export" => ~Keeps(h))
  /\ op[h].pc \in Started => op[h].kind = "start"
  /\ op[h].pc \in Deciding => op[h].kind = "decision"

WorkRight(h) ==
  /\ op[h].pc \in InGate => inst = NoInstance \/ inst.owner = h
  /\ op[h].pc \in Started => /\ inst.owner = h /\ inst.gen # 0 /\ inst.state = "running" /\ ~inst.pid
                             /\ status = "active"
  /\ op[h].pc \in {"rename", "remove", "finish"} => status = "data_deleting"
  /\ op[h].pc = "finish" => ~aside

HasSeal(q) == \E i \in 1 .. Len(q) : q[i] = "seal"
OneSeal(q) == \A i, j \in 1 .. Len(q) : q[i] = "seal" /\ q[j] = "seal" => i = j

GateRight(h) ==
  /\ op[h].pc \in InGate => Holds(h, "op")
  /\ OneSeal(gate[h])
  /\ HasSeal(gate[h]) => Hosts(h) /\ hosted[h].sealing # "no"

CallRight(h) ==
  /\ call[h].gen = inst.gen /\ inst.state # "sealed" => Keeps(h)
  /\ call[h].io => call[h].pc \in {"running", "settled"}
  /\ call[h].pc \in {"running", "settled"} =>
       Holds(h, "call") /\ inst.gen = call[h].gen /\ inst.state # "sealed"

Local(h) == LeaseRight(h) /\ HostRight(h) /\ OpRight(h) /\ WorkRight(h) /\ GateRight(h) /\ CallRight(h)

Rows ==
  /\ inst.gen = 0 => inst = NoInstance
  /\ status = "deleted" => ~aside /\ inst = NoInstance
  /\ \A g \in Generation : app[g] = "recorded" => inst.gen = g /\ inst.pid

Inv == TypeOK /\ Rows /\ \A h \in Host : Local(h)

Who == {"op", "seal", "call"}
Lease == [current: BOOLEAN, holders: 0..2]
OpRow == [kind: Kind, pc: OpPC, seen: Owner, same: BOOLEAN, again: BOOLEAN, digest: Content \cup {"none"}]
Hosting == [gen: Generation \cup {0}, sealing: Sealing, sealed: BOOLEAN]
CallRow == [pc: CallPC, gen: Generation \cup {0}, io: BOOLEAN]

\* What of the state is host x's own and its remembered shares are left alone.
Same(x) ==
  /\ op'[x].pc = op[x].pc /\ op'[x].kind = op[x].kind /\ op'[x].digest = op[x].digest
  /\ hosted'[x] = hosted[x] /\ gate'[x] = gate[x] /\ call'[x] = call[x]
  /\ x \in closing' <=> x \in closing
  /\ lease'[x].holders = lease[x].holders

-----------------------------------------------------------------------------
(***************************************************************************)
(* The write gate.                                                         *)
(***************************************************************************)


LEMMA EnterFacts ==
  ASSUME NEW q \in Seq(Who), NEW w \in Who
  PROVE  /\ Append(q, w) \in Seq(Who) /\ Append(q, w) # << >>
         /\ q # << >> => Head(Append(q, w)) = Head(q)
         /\ w # "seal" => (HasSeal(Append(q, w)) => HasSeal(q)) /\ (OneSeal(q) => OneSeal(Append(q, w)))
         /\ ~HasSeal(q) => OneSeal(Append(q, w))
BY DEF HasSeal, OneSeal, Who

LEMMA LeaveFacts ==
  ASSUME NEW q \in Seq(Who), q # << >>
  PROVE  /\ Tail(q) \in Seq(Who)
         /\ HasSeal(Tail(q)) => HasSeal(q)
         /\ OneSeal(q) => OneSeal(Tail(q))
         /\ OneSeal(q) /\ Head(q) = "seal" => ~HasSeal(Tail(q))
<1>1. Len(q) \in Nat \ {0} /\ Tail(q) \in Seq(Who) /\ Len(Tail(q)) = Len(q) - 1 /\ q[1] = Head(q) OBVIOUS
<1>2. \A i \in 1 .. Len(Tail(q)) : i + 1 \in 1 .. Len(q) /\ Tail(q)[i] = q[i + 1] /\ i + 1 # 1 BY <1>1
<1>3. HasSeal(Tail(q)) => HasSeal(q) BY <1>2 DEF HasSeal
<1>4. OneSeal(q) => OneSeal(Tail(q))
  <2> SUFFICES ASSUME OneSeal(q), NEW i \in 1 .. Len(Tail(q)), NEW j \in 1 .. Len(Tail(q)),
                      Tail(q)[i] = "seal", Tail(q)[j] = "seal"
               PROVE  i = j
    BY DEF OneSeal
  <2>1. i + 1 = j + 1 BY <1>2 DEF OneSeal
  <2> QED BY <2>1
<1>5. OneSeal(q) /\ Head(q) = "seal" => ~HasSeal(Tail(q))
  <2> SUFFICES ASSUME OneSeal(q), Head(q) = "seal", NEW i \in 1 .. Len(Tail(q)), Tail(q)[i] = "seal" PROVE FALSE
    BY DEF HasSeal
  <2>1. 1 \in 1 .. Len(q) /\ q[1] = "seal" BY <1>1
  <2>2. i + 1 = 1 BY <1>2, <2>1 DEF OneSeal
  <2> QED BY <2>2
<1> QED BY <1>1, <1>3, <1>4, <1>5

-----------------------------------------------------------------------------
(***************************************************************************)
(* The lease.                                                              *)
(***************************************************************************)

LEMMA Typed ==
  ASSUME TypeOK, NEW h \in Host
  PROVE  /\ lease[h].holders \in 0 .. 2 /\ lease[h].current \in BOOLEAN
         /\ gate[h] \in Seq(Who) /\ inst.gen \in Generation \cup {0} /\ inst.state \in InstanceState /\ inst.pid \in BOOLEAN
         /\ hosted[h].gen \in Generation \cup {0} /\ call[h].gen \in Generation \cup {0}
         /\ op[h].pc \in OpPC /\ op[h].kind \in Kind
BY DEF TypeOK, Who, Instance

\* Whoever remembers a share owns the app, and nobody else remembers one.
LEMMA OneOwner ==
  ASSUME TypeOK, NEW h \in Host, NEW x \in Host, LeaseRight(h), LeaseRight(x), lease[h].holders > 0
  PROVE  Owns(h) /\ (x # h => lease[x].holders = 0 /\ ~lease[x].current)
<1>1. lease[x].holders \in 0 .. 2 BY Typed
<1> QED BY <1>1 DEF LeaseRight, Owns

LEMMA Sharing ==
  ASSUME TypeOK, NEW h \in Host, LeaseRight(h), op[h].pc \in InGate \cup {"queued"}
  PROVE  lease[h].holders > 0 /\ Share(h) = 1 /\ Owns(h)
<1>1. Share(h) = 1 BY DEF Share
<1>2. lease[h].holders > 0 BY <1>1 DEF LeaseRight
<1> QED BY <1>1, <1>2, OneOwner

LEMMA Keeping ==
  ASSUME TypeOK, NEW h \in Host, LeaseRight(h), Keeps(h)
  PROVE  lease[h].holders > 0 /\ Owns(h)
<1>1. lease[h].holders > 0 BY DEF Keeps, Share
<1> QED BY <1>1, OneOwner

\* release, for a host with a share.
LEMMA Released ==
  ASSUME TypeOK, NEW h \in Host, LeaseRight(h), lease[h].holders > 0, ReleaseLease(h)
  PROVE  /\ lease' \in [Host -> Lease] /\ owner' \in {owner, NoHost}
         /\ lease'[h].holders = lease[h].holders - 1
         /\ lease'[h].current <=> lease'[h].holders > 0
         /\ lease'[h].current => owner' = h
         /\ \A x \in Host \ {h} : lease'[x] = lease[x] /\ (owner = x => owner' = x)
<1>1. lease \in [Host -> Lease] BY DEF TypeOK, Lease
<1>2. Owns(h) BY OneOwner
<1>3. CASE lease[h].holders > 1
  <2>1. lease' = [lease EXCEPT ![h].holders = @ - 1] /\ owner' = owner BY <1>3 DEF ReleaseLease
  <2> QED BY <1>1, <1>2, <1>3, <2>1 DEF LeaseRight, Owns, Lease
<1>4. CASE ~ (lease[h].holders > 1)
  <2>1. lease' = [lease EXCEPT ![h] = NoLease] /\ owner' \in {owner, NoHost} BY <1>4, <1>2 DEF ReleaseLease
  <2>2. lease[h].holders = 1 BY <1>1, <1>4 DEF Lease
  <2>3. owner = h BY <1>2 DEF Owns
  <2> QED BY <1>1, <2>1, <2>2, <2>3 DEF NoLease, Lease
<1> QED BY <1>3, <1>4

-----------------------------------------------------------------------------
(***************************************************************************)
(* What a step of one host leaves right at the others.                     *)
(***************************************************************************)

\* A host without a share is bothered by no change of the rows, unless they
\* come to name it or an instance it has a call for.
LEMMA Sidelined ==
  ASSUME NEW x \in Host, Local(x), Same(x), lease[x].holders = 0, ~lease'[x].current,
         inst'.gen = call[x].gen /\ inst'.state # "sealed" => inst.gen = call[x].gen /\ inst.state # "sealed",
         inst'.pid /\ inst'.owner = x => inst.pid /\ inst.owner = x
  PROVE  Local(x)'
<1>1. Share(x) = 0 /\ ~Keeps(x) /\ ~Hosts(x) BY DEF Local, LeaseRight, HostRight, Keeps, Share
<1>2. op[x].pc \notin InGate BY <1>1 DEF Share
<1>3. Share(x)' = 0 /\ ~Keeps(x)' /\ ~Hosts(x)' BY <1>1 DEF Same, Share, Keeps, Hosts
<1>4. LeaseRight(x)' BY <1>3 DEF Same, LeaseRight
<1>5. HostRight(x)' BY <1>1, <1>3 DEF Same, Local, HostRight
<1>6. OpRight(x)' BY <1>1, <1>3 DEF Same, Local, OpRight
<1>7. WorkRight(x)' BY <1>2 DEF Same, WorkRight, InGate, Started
<1>8. GateRight(x)' BY <1>1, <1>2, <1>3 DEF Same, Local, GateRight
<1>9. CallRight(x)'
  <2>1. call[x].pc \notin {"running", "settled"} BY <1>1 DEF Local, CallRight
  <2>2. ~(inst.gen = call[x].gen /\ inst.state # "sealed") BY <1>1 DEF Local, CallRight
  <2> QED BY <2>1, <2>2 DEF Same, Local, CallRight
<1> QED BY <1>4, <1>5, <1>6, <1>7, <1>8, <1>9 DEF Local

\* Nothing of the rows changes but what names the host that takes the step.
LEMMA Bystander ==
  ASSUME NEW x \in Host, Local(x), Same(x), lease'[x] = lease[x], owner = x => owner' = x,
         status' = status, data' = data, aside' = aside,
         \/ inst' = inst
         \/ /\ inst'.gen = inst.gen /\ inst'.state = inst.state /\ inst'.pid = inst.pid
            /\ inst.owner # x /\ inst'.owner # x /\ inst # NoInstance
  PROVE  Local(x)'
<1>1. Share(x)' = Share(x) /\ (Keeps(x)' <=> Keeps(x)) /\ (Hosts(x)' <=> Hosts(x)) BY DEF Same, Share, Keeps, Hosts
<1>2. LeaseRight(x)' BY <1>1 DEF Local, LeaseRight
<1>3. HostRight(x)' BY <1>1 DEF Same, Local, HostRight
<1>4. OpRight(x)' BY <1>1 DEF Same, Local, OpRight
<1>5. WorkRight(x)' BY DEF Same, Local, WorkRight, InGate, Started
<1>6. GateRight(x)' BY <1>1 DEF Same, Local, GateRight, Holds
<1>7. CallRight(x)' BY <1>1 DEF Same, Local, CallRight, Holds
<1> QED BY <1>2, <1>3, <1>4, <1>5, <1>6, <1>7 DEF Local

\* What an owner does to the row of the instance, where it starts none.
LEMMA OwnerWorks ==
  ASSUME TypeOK, NEW h \in Host, NEW x \in Host \ {h}, Local(h), Local(x), Same(x),
         Owns(h), ~lease'[x].current,
         \/ inst' \in {inst, NoInstance}
         \/ /\ inst'.gen = inst.gen /\ inst'.owner = inst.owner
            /\ inst.state = "sealed" => inst'.state = "sealed"
            /\ inst'.pid => inst.pid \/ inst.owner = h
  PROVE  Local(x)'
<1>1. lease[x].holders = 0 BY OneOwner DEF Owns, Local
<1>2. NoInstance.state = "sealed" /\ ~NoInstance.pid BY DEF NoInstance
<1> QED BY <1>1, <1>2, Sidelined

-----------------------------------------------------------------------------
(***************************************************************************)
(* The operation leaves the gate and its lease.                            *)
(***************************************************************************)

LEMMA Left ==
  ASSUME TypeOK, NEW h \in Host, Local(h), op[h].pc \in InGate \cup {"queued"}, Holds(h, "op"), Leave(h)
  PROVE  /\ Owns(h)
         /\ op' \in [Host -> OpRow]
         /\ gate' \in [Host -> Seq(Who)]
         /\ lease' \in [Host -> Lease] /\ owner' \in {owner, NoHost}
         /\ op'[h] = NoOp /\ gate'[h] = Tail(gate[h])
         /\ lease'[h].holders = lease[h].holders - 1
         /\ lease'[h].current <=> lease'[h].holders > 0
         /\ lease'[h].current => owner' = h
         /\ \A x \in Host \ {h} : op'[x] = op[x] /\ gate'[x] = gate[x] /\ lease'[x] = lease[x] /\ (owner = x => owner' = x)
<1>1. LeaseRight(h) /\ lease[h].holders > 0 /\ Owns(h) BY Sharing DEF Local
<1>2. ReleaseLease(h) /\ op' = [op EXCEPT ![h] = NoOp] /\ gate' = [gate EXCEPT ![h] = Tail(gate[h])] BY DEF Leave, EndOp, LeaveGate
<1>3. gate \in [Host -> Seq(Who)] /\ gate[h] # << >> BY DEF TypeOK, Who, Holds
<1>4. Tail(gate[h]) \in Seq(Who) BY <1>3
<1>5. op \in [Host -> OpRow] BY DEF TypeOK, OpRow
<1>6. NoOp \in OpRow
  BY DEF OpRow, NoOp, Kind, OpPC, Owner, Content
<1>7. op' \in [Host -> OpRow]
  BY <1>2, <1>5, <1>6, Zenon
<1> QED BY <1>1, <1>2, <1>3, <1>4, <1>5, <1>7, Released

LEMMA LeaveLocal ==
  ASSUME TypeOK, \A x \in Host : Local(x), NEW h \in Host,
         op[h].pc \in InGate \cup {"queued"}, Holds(h, "op"), Leave(h),
         UNCHANGED <<closing, hosted, call>>,
         inst' \in {inst, NoInstance}, Hosts(h) => inst' = inst, Keeps(h) => status' = status
  PROVE  \A x \in Host : Local(x)'
<1>1. Local(h) OBVIOUS
<1>2. Owns(h) /\ Share(h) = 1 BY Sharing DEF Local
<1>3. op'[h] = NoOp /\ gate'[h] = Tail(gate[h]) /\ lease'[h].holders = lease[h].holders - 1
      /\ (lease'[h].current <=> lease'[h].holders > 0) /\ (lease'[h].current => owner' = h)
      /\ \A x \in Host \ {h} : op'[x] = op[x] /\ gate'[x] = gate[x] /\ lease'[x] = lease[x]
  BY <1>1, Left
<1>4. ASSUME NEW x \in Host \ {h} PROVE Local(x)'
  <2>1. Local(x) /\ ~lease[x].current BY <1>2, OneOwner DEF Owns, Local
  <2> QED BY <1>1, <1>2, <1>3, <2>1, OwnerWorks DEF Same
<1>5. Local(h)'
  <2>1. op'[h].pc = "idle" BY <1>3 DEF NoOp
  <2>2. Share(h)' = 0 BY <2>1 DEF Share, InGate
  <2>3. Keeps(h)' <=> Keeps(h) BY <1>2, <1>3, <2>2, Typed DEF Keeps
  <2>4. Hosts(h)' <=> Hosts(h) BY DEF Hosts
  <2>5. LeaseRight(h)' BY <1>1, <1>2, <1>3, <2>2, Typed DEF Local, LeaseRight
  <2>6. HostRight(h)' BY <1>1, <2>3, <2>4 DEF Local, HostRight, NoInstance
  <2>7. OpRight(h)' BY <2>1 DEF OpRight, Started, Deciding
  <2>8. WorkRight(h)' BY <2>1 DEF WorkRight, Started, InGate
  <2>9. GateRight(h)'
    <3>1. gate[h] \in Seq(Who) /\ gate[h] # << >> BY Typed DEF Holds
    <3>2. (HasSeal(gate'[h]) => HasSeal(gate[h])) /\ (OneSeal(gate[h]) => OneSeal(gate'[h])) BY <1>3, <3>1, LeaveFacts
    <3> QED BY <1>1, <2>1, <2>4, <3>2 DEF Local, GateRight, InGate
  <2>10. CallRight(h)'
    <3>1. call[h].pc \notin {"running", "settled"} BY <1>1 DEF Local, CallRight, Holds
    <3>2. inst'.state # "sealed" => inst' = inst BY DEF NoInstance
    <3> QED BY <1>1, <2>3, <3>1, <3>2 DEF Local, CallRight
  <2> QED BY <2>5, <2>6, <2>7, <2>8, <2>9, <2>10 DEF Local
<1> QED BY <1>4, <1>5

-----------------------------------------------------------------------------
(***************************************************************************)
(* A step of an operation inside the gate.                                 *)
(***************************************************************************)

LEMMA Went ==
  ASSUME TypeOK, NEW h \in Host, NEW pc \in OpPC, Goto(h, pc)
  PROVE  /\ op' \in [Host -> OpRow]
         /\ op'[h].pc = pc /\ op'[h].kind = op[h].kind /\ op'[h].digest = op[h].digest
         /\ \A x \in Host \ {h} : op'[x] = op[x]
<1>1. op \in [Host -> OpRow] BY DEF TypeOK, OpRow
<1>2. op' = [op EXCEPT ![h].pc = pc] BY DEF Goto
<1> QED BY <1>1, <1>2 DEF OpRow

\* The other hosts are no matter, and neither are the shares and the gate: what
\* is left is what the operation itself is about.
LEMMA GateStep ==
  ASSUME TypeOK, \A x \in Host : Local(x), NEW h \in Host,
         op[h].pc \in InGate \cup {"queued"}, Holds(h, "op"), op'[h].pc \in InGate,
         op'[h].kind = op[h].kind, \A x \in Host \ {h} : op'[x] = op[x],
         UNCHANGED <<ownership, closing, hosted, gate, call>>,
         inst' \in {inst, NoInstance} \/ (~inst'.pid /\ \A x \in Host : call[x].gen # inst'.gen),
         Hosts(h) => inst' = inst, Keeps(h) => status' = status,
         op'[h].pc \in Started => op[h].kind = "start", op'[h].pc \in Deciding => op[h].kind = "decision",
         WorkRight(h)'
  PROVE  \A x \in Host : Local(x)'
<1>1. Local(h) /\ Owns(h) /\ Share(h) = 1 BY Sharing DEF Local
<1>2. lease' = lease /\ owner' = owner BY DEF ownership
<1>3. NoInstance.state = "sealed" /\ ~NoInstance.pid BY DEF NoInstance
<1>4. ASSUME NEW x \in Host \ {h} PROVE Local(x)'
  <2>1. Local(x) /\ lease[x].holders = 0 /\ ~lease[x].current BY <1>1, OneOwner DEF Owns, Local
  <2>2. CASE inst' \in {inst, NoInstance} BY <1>1, <1>2, <2>1, <2>2, OwnerWorks DEF Same
  <2>3. CASE ~inst'.pid /\ \A y \in Host : call[y].gen # inst'.gen BY <1>2, <2>1, <2>3, Sidelined DEF Same
  <2> QED BY <2>2, <2>3
<1>5. Local(h)'
  <2>1. Share(h)' = 1 /\ (Keeps(h)' <=> Keeps(h)) /\ (Hosts(h)' <=> Hosts(h)) BY <1>1, <1>2 DEF Share, Keeps, Hosts
  <2>2. LeaseRight(h)' BY <1>1, <1>2, <2>1 DEF Local, LeaseRight
  <2>3. HostRight(h)' BY <1>1, <1>3, <2>1 DEF Local, HostRight
  <2>4. op[h].pc \notin {"idle", "sealing", "take"} /\ op'[h].pc \notin {"idle", "sealing", "take"} BY DEF InGate
  <2>5. OpRight(h)' BY <1>1, <2>1, <2>4 DEF Local, OpRight
  <2>6. GateRight(h)' BY <1>1, <2>1 DEF Local, GateRight, Holds
  <2>7. CallRight(h)'
    <3>1. call[h].pc \notin {"running", "settled"} BY <1>1 DEF Local, CallRight, Holds
    <3>2. call'[h] = call[h] OBVIOUS
    <3>3. call[h].gen = inst'.gen /\ inst'.state # "sealed" => Keeps(h) BY <1>1, <1>3 DEF Local, CallRight
    <3> QED BY <1>1, <2>1, <3>1, <3>2, <3>3 DEF Local, CallRight
  <2> QED BY <2>2, <2>3, <2>5, <2>6, <2>7 DEF Local
<1> QED BY <1>4, <1>5

-----------------------------------------------------------------------------
(***************************************************************************)
(* The actions of an operation that has its lease: each keeps Inv.         *)
(***************************************************************************)

Typing ==
  /\ owner \in Owner /\ lease \in [Host -> Lease]
  /\ status \in Status /\ offer \in Content \cup {"none"} /\ inst \in Instance
  /\ data \in Content /\ aside \in BOOLEAN /\ app \in [Generation -> {"none", "running", "recorded"}]
  /\ closing \subseteq Host /\ handles \in [Host -> SUBSET Generation]
  /\ op \in [Host -> OpRow] /\ hosted \in [Host -> Hosting] /\ gate \in [Host -> Seq(Who)] /\ call \in [Host -> CallRow]

LEMMA TypingIs == (TypeOK <=> Typing) /\ (TypeOK' <=> Typing')
BY DEF TypeOK, Typing, Lease, OpRow, Hosting, Who, CallRow

LEMMA NoneTyped == NoInstance \in Instance /\ NoInstance.gen = 0 /\ NoInstance.state = "sealed" /\ ~NoInstance.pid
                   /\ NoInstance.owner = NoHost /\ NoHost \in Owner
BY DEF NoInstance, Instance, Owner, InstanceState

LEMMA LeaveKept ==
  ASSUME Inv, NEW h \in Host, op[h].pc \in InGate \cup {"queued"}, Holds(h, "op"), Leave(h),
         UNCHANGED <<closing, hosted, call, directories>>,
         inst' \in {inst, NoInstance}, status' \in Status, offer' \in Content \cup {"none"},
         app' \in [Generation -> {"none", "running", "recorded"}], handles' \in [Host -> SUBSET Generation],
         Hosts(h) => inst' = inst, Keeps(h) => status' = status, Rows'
  PROVE  Inv'
<1>1. TypeOK /\ Typing /\ \A x \in Host : Local(x) BY TypingIs DEF Inv
<1>2. \A x \in Host : Local(x)' BY <1>1, LeaveLocal
<1>3. op' \in [Host -> OpRow] /\ gate' \in [Host -> Seq(Who)] /\ lease' \in [Host -> Lease] /\ owner' \in {owner, NoHost}
  BY <1>1, Left
<1>4. inst' \in Instance BY <1>1, NoneTyped DEF Typing
<1>5. Typing' BY <1>1, <1>3, <1>4, NoneTyped DEF Typing, directories
<1> QED BY <1>2, <1>5, TypingIs DEF Inv

LEMMA GateKept ==
  ASSUME Inv, NEW h \in Host, op[h].pc \in InGate \cup {"queued"}, Holds(h, "op"), op'[h].pc \in InGate,
         op'[h].kind = op[h].kind, \A x \in Host \ {h} : op'[x] = op[x], op' \in [Host -> OpRow],
         UNCHANGED <<ownership, closing, hosted, gate, call>>,
         inst' \in {inst, NoInstance} \/ (~inst'.pid /\ \A x \in Host : call[x].gen # inst'.gen),
         inst' \in Instance, status' \in Status, offer' \in Content \cup {"none"}, data' \in Content, aside' \in BOOLEAN,
         app' \in [Generation -> {"none", "running", "recorded"}], handles' \in [Host -> SUBSET Generation],
         Hosts(h) => inst' = inst, Keeps(h) => status' = status,
         op'[h].pc \in Started => op[h].kind = "start", op'[h].pc \in Deciding => op[h].kind = "decision",
         WorkRight(h)', Rows'
  PROVE  Inv'
<1>1. TypeOK /\ Typing /\ \A x \in Host : Local(x) BY TypingIs DEF Inv
<1>2. \A x \in Host : Local(x)' BY <1>1, GateStep
<1>3. Typing' BY <1>1 DEF Typing, ownership
<1> QED BY <1>2, <1>3, TypingIs DEF Inv

\* An operation in the gate has the row of the instance to itself: no process
\* is recorded in it but one that the host still hosts or could not record.
LEMMA AtGate ==
  ASSUME Inv, NEW h \in Host, op[h].pc \in InGate
  PROVE  /\ Holds(h, "op") /\ Owns(h) /\ op[h].kind # "stop"
         /\ op[h].kind # "export" => ~Keeps(h)
         /\ Keeps(h) => status = "active"
         /\ ~Keeps(h) => inst = NoInstance \/ (inst.owner = h /\ ~inst.pid)
         /\ op[h].pc \in Started \cup Deciding => ~Keeps(h)
<1>1. TypeOK /\ Local(h) BY DEF Inv
<1>2. Owns(h) BY <1>1, Sharing DEF Local
<1>3. op[h].pc \notin {"idle", "sealing"} BY DEF InGate
<1>4. Holds(h, "op") BY <1>1 DEF Local, GateRight
<1>5. op[h].kind # "stop" /\ (op[h].kind # "export" => ~Keeps(h)) BY <1>1, <1>3 DEF Local, OpRight
<1>6. Keeps(h) => status = "active" BY <1>1 DEF Local, HostRight
<1>7. ~Keeps(h) => inst = NoInstance \/ (inst.owner = h /\ ~inst.pid) BY <1>1 DEF Local, HostRight, WorkRight
<1>8. op[h].pc \in Started \cup Deciding => op[h].kind # "export" BY <1>1 DEF Local, OpRight
<1> QED BY <1>2, <1>4, <1>5, <1>6, <1>7, <1>8

\* Where no process is recorded in the row it can be cleared.
LEMMA Unrecorded ==
  ASSUME Rows, ~inst.pid
  PROVE  \A g \in Generation : app[g] # "recorded"
BY DEF Rows

LEMMA ReconcileKept == ASSUME Inv, NEW h \in Host, Reconcile(h) PROVE Inv'
<1>1. TypeOK /\ Typing /\ Rows /\ Local(h) BY TypingIs DEF Inv
<1>2. op[h].pc = "queued" /\ Holds(h, "op") /\ Owns(h) BY DEF Reconcile, At
<1>3. /\ op' \in [Host -> OpRow]
      /\ op'[h].pc = "settle" /\ op'[h].kind = op[h].kind /\ op'[h].digest = op[h].digest
      /\ \A x \in Host \ {h} : op'[x] = op[x]
  <2>1. "settle" \in OpPC BY DEF OpPC, InGate
  <2> QED BY <1>1, <2>1, Went DEF Reconcile
<1>4. inst' = IF Orphaned(h) THEN NoInstance ELSE inst BY DEF Reconcile
<1>5. inst' \in {inst, NoInstance} /\ inst' \in Instance BY <1>1, <1>4, NoneTyped DEF Typing
<1>6. Hosts(h) => inst' = inst BY <1>1, <1>4 DEF Local, HostRight, Orphaned
<1>7. UNCHANGED <<ownership, appRow, directories, app, closing, hosted, handles, gate, call>> BY DEF Reconcile
<1>8. WorkRight(h)'
  <2>1. inst' = NoInstance \/ inst'.owner = h BY <1>4 DEF Orphaned, Unfinished
  <2> QED BY <1>3, <2>1 DEF WorkRight, Started
<1>9. Rows'
  <2>1. Orphaned(h) => \A g \in Generation : app[g] # "recorded" BY <1>1 DEF Reconcile, Rows
  <2> QED BY <1>1, <1>4, <1>7, <2>1, NoneTyped DEF Rows, appRow, directories
<1>10. "settle" \in InGate /\ "settle" \notin Started \cup Deciding BY DEF InGate, Started, Deciding
<1> QED BY <1>1, <1>2, <1>3, <1>5, <1>6, <1>7, <1>8, <1>9, <1>10, GateKept DEF Typing, appRow, directories

LEMMA LeaveOnly ==
  ASSUME Inv, NEW h \in Host, op[h].pc \in InGate \cup {"queued"}, Holds(h, "op"), Leave(h),
         UNCHANGED <<status, inst, app, handles, closing, hosted, call, directories>>, offer' \in Content \cup {"none"}
  PROVE  Inv'
<1>1. Typing /\ Rows BY TypingIs DEF Inv
<1>2. Rows' BY <1>1 DEF Rows, directories
<1> QED BY <1>1, <1>2, LeaveKept DEF Typing

LEMMA RefusalsKept ==
  ASSUME Inv, NEW h \in Host, RefuseOrphan(h) \/ OpThrows(h) \/ RefuseLaunch(h) \/ Nothing(h)
  PROVE  Inv'
<1>1. Leave(h) /\ UNCHANGED <<appRow, inst, directories, app, closing, hosted, handles, call>>
  BY DEF RefuseOrphan, OpThrows, RefuseLaunch, Nothing
<1>2. op[h].pc \in InGate \cup {"queued"} BY DEF RefuseOrphan, OpThrows, RefuseLaunch, Nothing, At, Working, InGate
<1>3. Holds(h, "op")
  <2>1. CASE RefuseOrphan(h) \/ OpThrows(h) BY <2>1 DEF RefuseOrphan, OpThrows
  <2>2. CASE RefuseLaunch(h) \/ Nothing(h)
    <3>1. op[h].pc \in InGate BY <2>2 DEF RefuseLaunch, Nothing, At, Working, InGate
    <3> QED BY <3>1, AtGate
  <2> QED BY <2>1, <2>2
<1>4. offer \in Content \cup {"none"} BY TypingIs DEF Inv, Typing
<1> QED BY <1>1, <1>2, <1>3, <1>4, LeaveOnly DEF appRow

\* A decision in its work: nothing is hosted, and no process is recorded.
LEMMA AtDecision ==
  ASSUME Inv, NEW h \in Host, op[h].pc \in Started \cup Deciding \/ (op[h].pc \in InGate /\ op[h].kind \in {"start", "decision"})
  PROVE  /\ op[h].pc \in InGate /\ Holds(h, "op") /\ Owns(h)
         /\ ~Keeps(h) /\ ~Hosts(h)
         /\ inst = NoInstance \/ (inst.owner = h /\ ~inst.pid)
         /\ \A g \in Generation : app[g] # "recorded"
<1>1. op[h].pc \in InGate BY DEF Started, Deciding, InGate
<1>2. ~Keeps(h) BY <1>1, AtGate
<1>3. Local(h) /\ Rows BY DEF Inv
<1>4. ~Hosts(h) BY <1>2, <1>3 DEF Local, HostRight
<1>5. ~inst.pid BY <1>1, <1>2, AtGate, NoneTyped
<1> QED BY <1>1, <1>2, <1>3, <1>4, <1>5, AtGate, Unrecorded

LEMMA DecisionsKept ==
  ASSUME Inv, NEW h \in Host,
         Approve(h) \/ Disable(h) \/ DeleteCode(h) \/ StoreOffer(h) \/ DataChanged(h)
  PROVE  Inv'
<1>1. Leave(h) /\ UNCHANGED <<inst, directories, app, closing, hosted, handles, call>>
  BY DEF Approve, Disable, DeleteCode, StoreOffer, DataChanged, Decided
<1>2. op[h].pc \in Started \cup Deciding \/ (op[h].pc \in InGate /\ op[h].kind \in {"start", "decision"})
  BY DEF Approve, Disable, DeleteCode, StoreOffer, DataChanged, At, Working, InGate, Deciding
<1>3. Typing /\ Rows /\ op[h].digest \in Content \cup {"none"}
  <2>1. Typing /\ Rows BY TypingIs DEF Inv
  <2> QED BY <2>1 DEF Typing, OpRow
<1>4. status' \in Status /\ offer' \in Content \cup {"none"}
  BY <1>3 DEF Approve, Disable, DeleteCode, StoreOffer, DataChanged, Typing, Status
<1>5. status' = "deleted" => status = "deleted" BY DEF Approve, Disable, DeleteCode, StoreOffer, DataChanged
<1>6. Rows' BY <1>1, <1>3, <1>5 DEF Rows, directories
<1> QED BY <1>1, <1>2, <1>3, <1>4, <1>6, AtDecision, LeaveKept DEF Typing

LEMMA FinishKept == ASSUME Inv, NEW h \in Host, FinishDeletion(h) PROVE Inv'
<1>1. Leave(h) /\ UNCHANGED <<directories, app, closing, hosted, handles, call>>
      /\ status' = "deleted" /\ offer' = "none" /\ inst' = NoInstance /\ op[h].pc = "finish"
  BY DEF FinishDeletion, At
<1>2. Typing /\ ~aside
  <2>1. Typing /\ Local(h) BY TypingIs DEF Inv
  <2> QED BY <1>1, <2>1 DEF Local, WorkRight
<1>3. op[h].pc \in Deciding BY <1>1 DEF Deciding
<1>4. Rows' BY <1>1, <1>2, <1>3, AtDecision DEF Rows, directories
<1>5. "deleted" \in Status BY DEF Status
<1> QED BY <1>1, <1>2, <1>3, <1>4, <1>5, AtDecision, LeaveKept DEF Typing

LEMMA SpawnFailsKept == ASSUME Inv, NEW h \in Host, SpawnFails(h) PROVE Inv'
<1>1. Leave(h) /\ UNCHANGED <<appRow, directories, app, closing, hosted, handles, call>>
      /\ inst' \in {inst, NoInstance} /\ op[h].pc \in {"prepare", "spawn"}
  BY DEF SpawnFails, At
<1>2. Typing /\ Rows BY TypingIs DEF Inv
<1>3. op[h].pc \in Started BY <1>1 DEF Started
<1>4. Rows' BY <1>1, <1>2, <1>3, AtDecision, NoneTyped DEF Rows, directories, appRow
<1> QED BY <1>1, <1>2, <1>3, <1>4, AtDecision, LeaveKept DEF Typing, appRow

LEMMA AbandonStartKept == ASSUME Inv, NEW h \in Host, AbandonStart(h) PROVE Inv'
<1>1. Leave(h) /\ UNCHANGED <<appRow, directories, closing, hosted, call>> /\ inst' \in {inst, NoInstance} /\ op[h].pc = "register"
  BY DEF AbandonStart, At
<1>2. Typing /\ Rows BY TypingIs DEF Inv
<1>3. op[h].pc \in Started BY <1>1 DEF Started
<1>4. app' \in {app, [app EXCEPT ![inst.gen] = "none"]} /\ handles' \in {handles, [handles EXCEPT ![h] = @ \ {inst.gen}]}
  BY DEF AbandonStart
<1>5. app' \in [Generation -> {"none", "running", "recorded"}] /\ \A g \in Generation : app'[g] \in {app[g], "none"}
  <2>1. app \in [Generation -> {"none", "running", "recorded"}] BY <1>2 DEF Typing
  <2>2. CASE app' = app BY <2>1, <2>2
  <2>3. CASE app' = [app EXCEPT ![inst.gen] = "none"] BY <2>1, <2>3
  <2> QED BY <1>4, <2>2, <2>3
<1>6. handles' \in [Host -> SUBSET Generation]
  <2>1. handles \in [Host -> SUBSET Generation] BY <1>2 DEF Typing
  <2>2. CASE handles' = [handles EXCEPT ![h] = @ \ {inst.gen}] BY <2>1, <2>2
  <2> QED BY <1>4, <2>1, <2>2
<1>7. \A g \in Generation : app'[g] # "recorded"
  <2>1. \A g \in Generation : app[g] # "recorded" BY <1>3, AtDecision
  <2> QED BY <1>5, <2>1
<1>8. Rows' BY <1>1, <1>2, <1>7, NoneTyped DEF Rows, directories, appRow
<1> QED BY <1>1, <1>2, <1>3, <1>5, <1>6, <1>8, AtDecision, LeaveKept DEF Typing, appRow

LEMMA SettleKept == ASSUME Inv, NEW h \in Host, SettleDeletion(h) PROVE Inv'
<1>1. Typing /\ TypeOK /\ Rows /\ Local(h) BY TypingIs DEF Inv
<1>2. op[h].pc = "settle" /\ Settled /\ Goto(h, "work") /\ UNCHANGED <<ownership, app, closing, hosted, handles, gate, call>>
  BY DEF SettleDeletion, At
<1>3. op[h].pc \in InGate /\ "work" \in InGate /\ "work" \in OpPC /\ "work" \notin Started \cup Deciding
  BY <1>2 DEF InGate, OpPC, Started, Deciding
<1>4. /\ op' \in [Host -> OpRow] /\ op'[h].pc = "work" /\ op'[h].kind = op[h].kind
      /\ \A x \in Host \ {h} : op'[x] = op[x]
  BY <1>1, <1>2, <1>3, Went
<1>5. Holds(h, "op") /\ (Keeps(h) => status = "active") /\ (~Keeps(h) => ~inst.pid) /\ (Hosts(h) => Keeps(h))
  BY <1>1, <1>3, AtGate, NoneTyped DEF Local, HostRight
<1>6. data' = data /\ aside' \in BOOLEAN /\ status' \in Status /\ offer' \in Content \cup {"none"} /\ inst' \in {inst, NoInstance}
  BY <1>1, <1>2 DEF Settled, Typing, Status, appRow, directories
<1>7. Keeps(h) => inst' = inst /\ status' = status BY <1>2, <1>5 DEF Settled, appRow
<1>8. WorkRight(h)'
  <2>1. inst' = NoInstance \/ inst'.owner = h BY <1>1, <1>3, <1>6 DEF Local, WorkRight
  <2> QED BY <1>4, <2>1 DEF WorkRight, Started
<1>9. Rows'
  <2>1. CASE UNCHANGED <<status, inst>> /\ (aside' => aside) BY <1>1, <1>2, <2>1 DEF Rows
  <2>2. CASE status' = "code_deleted" /\ UNCHANGED <<inst, aside>> BY <1>1, <1>2, <2>2 DEF Rows
  <2>3. CASE status = "data_deleting" /\ inst' = NoInstance /\ aside' = FALSE
    BY <1>1, <1>2, <1>5, <2>3, Unrecorded, NoneTyped DEF Rows
  <2> QED BY <1>2, <2>1, <2>2, <2>3 DEF Settled, appRow, directories
<1> QED BY <1>1, <1>2, <1>3, <1>4, <1>5, <1>6, <1>7, <1>8, <1>9, NoneTyped, GateKept DEF Typing

LEMMA LaunchKept == ASSUME Inv, NEW h \in Host, Launch(h) PROVE Inv'
<1>1. Typing /\ TypeOK /\ Rows /\ Local(h) BY TypingIs DEF Inv
<1>2. /\ op[h].pc = "work" /\ op[h].kind = "start" /\ inst = NoInstance /\ status = "active" /\ Goto(h, "prepare")
      /\ UNCHANGED <<ownership, appRow, directories, app, closing, hosted, handles, gate, call>>
  BY DEF Launch, Working, At, Unfinished, Runnable
<1>3. PICK g \in NewGeneration : inst' = [gen |-> g, owner |-> h, state |-> "running", pid |-> FALSE] BY DEF Launch
<1>4. g \in Generation /\ app[g] = "none" /\ g # 0 /\ \A x \in Host : call[x].gen # g
  BY <1>3, AppRegistryAssumption DEF NewGeneration
<1>5. inst' \in Instance /\ inst'.gen = g /\ inst'.owner = h /\ inst'.state = "running" /\ ~inst'.pid
  BY <1>3, <1>4 DEF Instance, Owner, InstanceState
<1>6. op[h].pc \in InGate /\ "prepare" \in InGate /\ "prepare" \in OpPC /\ "prepare" \notin Deciding BY <1>2 DEF InGate, OpPC, Deciding
<1>7. /\ op' \in [Host -> OpRow] /\ op'[h].pc = "prepare" /\ op'[h].kind = op[h].kind
      /\ \A x \in Host \ {h} : op'[x] = op[x]
  BY <1>1, <1>2, <1>6, Went
<1>8. Holds(h, "op") /\ ~Keeps(h) /\ ~Hosts(h) /\ \A k \in Generation : app[k] # "recorded" BY <1>2, <1>6, AtDecision
<1>9. data' \in Content /\ aside' = aside BY <1>1, <1>2 DEF Typing, directories
<1>10. WorkRight(h)' BY <1>2, <1>4, <1>5, <1>7 DEF WorkRight, appRow
<1>11. Rows' BY <1>1, <1>2, <1>4, <1>5, <1>8 DEF Rows, appRow
<1> QED BY <1>1, <1>2, <1>4, <1>5, <1>6, <1>7, <1>8, <1>9, <1>10, <1>11, GateKept DEF Typing, appRow

LEMMA PrepareKept == ASSUME Inv, NEW h \in Host, PrepareData(h) PROVE Inv'
<1>1. Typing /\ TypeOK /\ Rows /\ Local(h) BY TypingIs DEF Inv
<1>2. /\ op[h].pc = "prepare" /\ Goto(h, "spawn") /\ data' \in Written \cup {data}
      /\ UNCHANGED <<ownership, appRow, inst, aside, app, closing, hosted, handles, gate, call>>
  BY DEF PrepareData, At
<1>3. op[h].pc \in InGate /\ "spawn" \in InGate /\ "spawn" \in OpPC /\ "spawn" \notin Deciding
      /\ op[h].pc \in Started /\ "spawn" \in Started
  BY <1>2 DEF InGate, OpPC, Deciding, Started
<1>4. /\ op' \in [Host -> OpRow] /\ op'[h].pc = "spawn" /\ op'[h].kind = op[h].kind
      /\ \A x \in Host \ {h} : op'[x] = op[x]
  BY <1>1, <1>2, <1>3, Went
<1>5. Holds(h, "op") /\ ~Keeps(h) /\ ~Hosts(h) BY <1>3, AtDecision
<1>6. inst.owner = h /\ inst.gen # 0 /\ inst.state = "running" /\ ~inst.pid /\ status = "active" /\ op[h].kind = "start"
  BY <1>1, <1>3 DEF Local, WorkRight, OpRight
<1>7. data' \in Content BY <1>1, <1>2 DEF Typing, Content
<1>8. WorkRight(h)' BY <1>2, <1>4, <1>6 DEF WorkRight, appRow
<1>9. Rows' BY <1>1, <1>2 DEF Rows, appRow
<1>10. UNCHANGED <<status, offer, inst, aside, app>> BY <1>2 DEF appRow
<1> QED BY <1>1, <1>2, <1>3, <1>4, <1>5, <1>6, <1>7, <1>8, <1>9, <1>10, GateKept DEF Typing

LEMMA SpawnKept == ASSUME Inv, NEW h \in Host, Spawn(h) PROVE Inv'
<1>1. Typing /\ TypeOK /\ Rows /\ Local(h) BY TypingIs DEF Inv
<1>2. /\ op[h].pc = "spawn" /\ Goto(h, "register")
      /\ UNCHANGED <<ownership, appRow, inst, directories, closing, hosted, gate, call>>
      /\ app' = [app EXCEPT ![inst.gen] = "running"] /\ handles' = [handles EXCEPT ![h] = @ \cup {inst.gen}]
  BY DEF Spawn, At
<1>3. op[h].pc \in InGate /\ "register" \in InGate /\ "register" \in OpPC /\ "register" \notin Deciding
      /\ op[h].pc \in Started /\ "register" \in Started
  BY <1>2 DEF InGate, OpPC, Deciding, Started
<1>4. /\ op' \in [Host -> OpRow] /\ op'[h].pc = "register" /\ op'[h].kind = op[h].kind
      /\ \A x \in Host \ {h} : op'[x] = op[x]
  BY <1>1, <1>2, <1>3, Went
<1>5. Holds(h, "op") /\ ~Keeps(h) /\ ~Hosts(h) /\ \A k \in Generation : app[k] # "recorded" BY <1>3, AtDecision
<1>6. inst.owner = h /\ inst.gen # 0 /\ inst.state = "running" /\ ~inst.pid /\ status = "active" /\ op[h].kind = "start"
  BY <1>1, <1>3 DEF Local, WorkRight, OpRight
<1>7. inst.gen \in Generation BY <1>1, <1>6, Typed
<1>8. app' \in [Generation -> {"none", "running", "recorded"}] /\ \A k \in Generation : app'[k] # "recorded"
  BY <1>1, <1>2, <1>5 DEF Typing
<1>9. handles' \in [Host -> SUBSET Generation] BY <1>1, <1>2, <1>7 DEF Typing
<1>10. WorkRight(h)' BY <1>2, <1>4, <1>6 DEF WorkRight, appRow
<1>11. Rows' BY <1>1, <1>2, <1>8 DEF Rows, appRow, directories
<1>12. status' \in Status /\ offer' \in Content \cup {"none"} /\ data' \in Content /\ aside' \in BOOLEAN /\ inst' \in Instance
       /\ inst' = inst /\ status' = status
  BY <1>1, <1>2 DEF Typing, appRow, directories
<1>13. UNCHANGED <<ownership, closing, hosted, gate, call>> BY <1>2
<1> QED BY <1>3, <1>4, <1>5, <1>6, <1>8, <1>9, <1>10, <1>11, <1>12, <1>13, GateKept

\* The steps of a decision that stay in the gate, and touch no instance.
LEMMA DecisionStep ==
  ASSUME Inv, NEW h \in Host, op[h].pc \in Deciding \/ (op[h].pc = "work" /\ op[h].kind = "decision"),
         op' \in [Host -> OpRow], op'[h].pc \in Deciding, op'[h].kind = "decision", \A x \in Host \ {h} : op'[x] = op[x],
         UNCHANGED <<ownership, inst, app, closing, hosted, handles, gate, call>>,
         status' \in Status \ {"deleted"}, offer' \in Content \cup {"none"}, data' \in Content, aside' \in BOOLEAN,
         op'[h].pc \in {"rename", "remove", "finish"} => status' = "data_deleting",
         op'[h].pc = "finish" => ~aside'
  PROVE  Inv'
<1>1. Typing /\ TypeOK /\ Rows /\ Local(h) BY TypingIs DEF Inv
<1>2. op[h].kind = "decision" BY <1>1 DEF Local, OpRight
<1>3. op[h].pc \in InGate /\ op'[h].pc \in InGate BY DEF Deciding, InGate
<1>4. Holds(h, "op") /\ ~Keeps(h) /\ ~Hosts(h) BY <1>2, <1>3, AtDecision
<1>5. op'[h].pc \notin Started BY DEF Deciding, Started
<1>6. WorkRight(h)' BY <1>1, <1>3, <1>5 DEF Local, WorkRight
<1>7. Rows' BY <1>1 DEF Rows
<1> QED BY <1>1, <1>2, <1>3, <1>4, <1>5, <1>6, <1>7, GateKept DEF Typing

LEMMA DigestKept == ASSUME Inv, NEW h \in Host, PrepareDataDeletion(h) \/ DeleteData(h) PROVE Inv'
<1>1. Typing /\ Rows BY TypingIs DEF Inv
<1>2. PICK pc \in {"offer", "confirm"} : Digest(h, pc) BY Zenon DEF PrepareDataDeletion, DeleteData
<1>3. /\ op[h].pc = "work" /\ op[h].kind = "decision" /\ status = "code_deleted"
      /\ op' = [op EXCEPT ![h].pc = pc, ![h].digest = data]
      /\ UNCHANGED <<registry, closing, hosted, handles, gate, call>>
  BY <1>2 DEF Digest, Working, At
<1>4. pc \in OpPC /\ pc \in Deciding /\ pc \notin {"rename", "remove", "finish"} BY <1>2 DEF OpPC, InGate, Deciding
<1>5. op \in [Host -> OpRow] /\ data \in Content BY <1>1 DEF Typing
<1>6. /\ op' \in [Host -> OpRow] /\ op'[h].pc = pc /\ op'[h].kind = "decision"
      /\ \A x \in Host \ {h} : op'[x] = op[x]
  BY <1>3, <1>4, <1>5 DEF OpRow
<1>7. UNCHANGED <<ownership, inst, app, status, offer, data, aside>> BY <1>3 DEF registry, appRow, directories
<1>8. status \in Status \ {"deleted"} BY <1>3 DEF Status
<1> QED BY <1>1, <1>3, <1>4, <1>6, <1>7, <1>8, DecisionStep DEF Typing

LEMMA CommitDeletingKept == ASSUME Inv, NEW h \in Host, CommitDeleting(h) PROVE Inv'
<1>1. Typing /\ TypeOK /\ Local(h) BY TypingIs DEF Inv
<1>2. /\ op[h].pc = "confirm" /\ status' = "data_deleting" /\ offer' = "none" /\ aside' = FALSE /\ Goto(h, "rename")
      /\ UNCHANGED <<ownership, inst, data, app, closing, hosted, handles, gate, call>>
  BY DEF CommitDeleting, At
<1>3. op[h].pc \in Deciding /\ "rename" \in Deciding /\ "rename" \in OpPC BY <1>2 DEF Deciding, OpPC, InGate
<1>4. op[h].kind = "decision" BY <1>1, <1>3 DEF Local, OpRight
<1>5. /\ op' \in [Host -> OpRow] /\ op'[h].pc = "rename" /\ op'[h].kind = op[h].kind
      /\ \A x \in Host \ {h} : op'[x] = op[x]
  BY <1>1, <1>2, <1>3, Went
<1>6. "data_deleting" \in Status \ {"deleted"} BY DEF Status
<1> QED BY <1>1, <1>2, <1>3, <1>4, <1>5, <1>6, DecisionStep DEF Typing

LEMMA MoveAsideKept == ASSUME Inv, NEW h \in Host, MoveDataAside(h) PROVE Inv'
<1>1. Typing /\ TypeOK /\ Local(h) BY TypingIs DEF Inv
<1>2. /\ op[h].pc = "rename" /\ data' = "absent" /\ aside' \in BOOLEAN
      /\ op' = [op EXCEPT ![h] = [NoOp EXCEPT !.kind = "decision", !.pc = "remove"]]
      /\ UNCHANGED <<ownership, appRow, inst, app, closing, hosted, handles, gate, call>>
  BY DEF MoveDataAside, At
<1>3. op[h].pc \in Deciding /\ "remove" \in Deciding BY <1>2 DEF Deciding
<1>4. status = "data_deleting" BY <1>1, <1>2 DEF Local, WorkRight
<1>5. op \in [Host -> OpRow] BY <1>1 DEF Typing
<1>6. [NoOp EXCEPT !.kind = "decision", !.pc = "remove"] \in OpRow
      /\ [NoOp EXCEPT !.kind = "decision", !.pc = "remove"].pc = "remove"
      /\ [NoOp EXCEPT !.kind = "decision", !.pc = "remove"].kind = "decision"
  BY DEF NoOp, OpRow, Kind, OpPC, InGate, Owner
<1>7. /\ op' \in [Host -> OpRow] /\ op'[h].pc = "remove" /\ op'[h].kind = "decision"
      /\ \A x \in Host \ {h} : op'[x] = op[x]
  BY <1>2, <1>5, <1>6
<1>8. "data_deleting" \in Status \ {"deleted"} /\ "absent" \in Content BY DEF Status, Content
<1> QED BY <1>1, <1>2, <1>3, <1>4, <1>7, <1>8, DecisionStep DEF Typing, appRow

LEMMA RemoveKept == ASSUME Inv, NEW h \in Host, RemoveData(h) PROVE Inv'
<1>1. Typing /\ TypeOK /\ Local(h) BY TypingIs DEF Inv
<1>2. /\ op[h].pc = "remove" /\ aside' = FALSE /\ Goto(h, "finish")
      /\ UNCHANGED <<ownership, appRow, inst, data, app, closing, hosted, handles, gate, call>>
  BY DEF RemoveData, At
<1>3. op[h].pc \in Deciding /\ "finish" \in Deciding /\ "finish" \in OpPC BY <1>2 DEF Deciding, OpPC, InGate
<1>4. status = "data_deleting" /\ op[h].kind = "decision" BY <1>1, <1>2, <1>3 DEF Local, WorkRight, OpRight
<1>5. /\ op' \in [Host -> OpRow] /\ op'[h].pc = "finish" /\ op'[h].kind = op[h].kind
      /\ \A x \in Host \ {h} : op'[x] = op[x]
  BY <1>1, <1>2, <1>3, Went
<1>6. "data_deleting" \in Status \ {"deleted"} BY DEF Status
<1> QED BY <1>1, <1>2, <1>3, <1>4, <1>5, <1>6, DecisionStep DEF Typing, appRow

-----------------------------------------------------------------------------
(***************************************************************************)
(* The steps of an operation that has no lease yet.                        *)
(***************************************************************************)

\* A step that leaves the shared rows alone is a matter of the host that takes it.
LEMMA Alone ==
  ASSUME Inv, NEW h \in Host, UNCHANGED registry, \A x \in Host \ {h} : Same(x), Typing', Local(h)'
  PROVE  Inv'
<1>1. TypeOK /\ Rows /\ \A x \in Host : Local(x) BY DEF Inv
<1>2. UNCHANGED <<owner, lease, status, offer, inst, data, aside, app>> BY DEF registry, ownership, appRow, directories
<1>3. ASSUME NEW x \in Host \ {h} PROVE Local(x)' BY <1>1, <1>2, Bystander
<1>4. Rows' BY <1>1, <1>2 DEF Rows
<1> QED BY <1>3, <1>4, TypingIs DEF Inv

LEMMA OpAlone ==
  ASSUME Inv, NEW h \in Host, UNCHANGED <<registry, closing, hosted, handles, gate, call>>,
         op' \in [Host -> OpRow], \A x \in Host \ {h} : op'[x] = op[x],
         op[h].pc \in {"idle", "sealing", "acquire", "take"}, op'[h].pc \in {"idle", "sealing", "acquire", "take"},
         op'[h].pc = "take" => lease[h].holders = 0,
         op'[h].pc = "sealing" => op'[h].kind \in {"stop", "decision"} /\ (Keeps(h) => Hosts(h)),
         op'[h].pc \in {"acquire", "take"} => op'[h].kind # "stop" /\ (op'[h].kind # "export" => ~Keeps(h))
  PROVE  Inv'
<1>1. Typing /\ TypeOK /\ Local(h) BY TypingIs DEF Inv
<1>2. UNCHANGED <<owner, lease, status, offer, inst, data, aside, app>> BY DEF registry, ownership, appRow, directories
<1>3. op[h].pc \notin InGate \cup {"queued"} /\ op'[h].pc \notin InGate \cup {"queued"} BY DEF InGate
<1>4. Share(h) = 0 /\ Share(h)' = 0 BY <1>3 DEF Share
<1>5. (Keeps(h)' <=> Keeps(h)) /\ (Hosts(h)' <=> Hosts(h)) BY <1>2, <1>4 DEF Keeps, Hosts
<1>6. LeaseRight(h)' BY <1>1, <1>2, <1>4 DEF Local, LeaseRight
<1>7. HostRight(h)' BY <1>1, <1>2, <1>5 DEF Local, HostRight
<1>8. OpRight(h)' BY <1>2, <1>5 DEF OpRight, Started, Deciding
<1>9. WorkRight(h)' BY <1>3 DEF WorkRight, Started, InGate
<1>10. GateRight(h)' BY <1>1, <1>3, <1>5 DEF Local, GateRight
<1>11. CallRight(h)' BY <1>1, <1>2, <1>5 DEF Local, CallRight, Holds
<1>12. Local(h)' BY <1>6, <1>7, <1>8, <1>9, <1>10, <1>11 DEF Local
<1>13. \A x \in Host \ {h} : Same(x) BY <1>2 DEF Same
<1>14. Typing' BY <1>1, <1>2 DEF Typing
<1> QED BY <1>12, <1>13, <1>14, Alone

LEMMA BeginIs ==
  ASSUME Inv, NEW h \in Host, NEW kind \in Kind, NEW pc \in OpPC, Begin(h, kind, pc)
  PROVE  /\ op' \in [Host -> OpRow] /\ op'[h].pc = pc /\ op'[h].kind = kind
         /\ \A x \in Host \ {h} : op'[x] = op[x]
<1>1. op \in [Host -> OpRow] BY TypingIs DEF Inv, Typing
<1>2. [NoOp EXCEPT !.kind = kind, !.pc = pc] \in OpRow
      /\ [NoOp EXCEPT !.kind = kind, !.pc = pc].kind = kind /\ [NoOp EXCEPT !.kind = kind, !.pc = pc].pc = pc
  BY DEF NoOp, OpRow, Owner
<1> QED BY <1>1, <1>2 DEF Begin

LEMMA EndIs ==
  ASSUME Inv, NEW h \in Host, EndOp(h)
  PROVE  /\ op' \in [Host -> OpRow] /\ op'[h] = NoOp /\ op'[h].pc = "idle"
         /\ \A x \in Host \ {h} : op'[x] = op[x]
<1>1. op \in [Host -> OpRow] BY TypingIs DEF Inv, Typing
<1>2. NoOp \in OpRow /\ NoOp.pc = "idle" BY DEF NoOp, OpRow, Owner, Kind, OpPC
<1> QED BY <1>1, <1>2 DEF EndOp

LEMMA AskKept == ASSUME Inv, NEW h \in Host, AskStart(h) \/ AskExport(h) PROVE Inv'
<1>1. Local(h) BY DEF Inv
<1>2. PICK kind \in {"start", "export"} :
        /\ Admitted(h) /\ Begin(h, kind, "acquire") /\ UNCHANGED <<registry, closing, hosted, handles, gate, call>>
        /\ kind = "start" => ~Hosts(h)
  BY DEF AskStart, AskExport
<1>3. kind \in Kind /\ kind # "stop" /\ "acquire" \in OpPC BY DEF Kind, OpPC
<1>4. op'[h].pc = "acquire" /\ op'[h].kind = kind /\ op' \in [Host -> OpRow] /\ \A x \in Host \ {h} : op'[x] = op[x]
  BY <1>2, <1>3, BeginIs
<1>5. kind = "start" => ~Keeps(h) BY <1>1, <1>2 DEF Local, HostRight, Admitted
<1> QED BY <1>2, <1>3, <1>4, <1>5, OpAlone DEF Admitted

LEMMA AwaitSealKept == ASSUME Inv, NEW h \in Host, AwaitSeal(h) PROVE Inv'
<1>1. Local(h) /\ TypeOK BY DEF Inv
<1>2. op[h].pc = "sealing" /\ UNCHANGED <<registry, closing, hosted, handles, gate, call>> BY DEF AwaitSeal
<1>3. CASE EndOp(h) BY <1>2, <1>3, EndIs, OpAlone
<1>4. CASE Goto(h, "acquire") /\ ~Hosts(h) /\ op[h].kind # "stop"
  <2>1. "acquire" \in OpPC BY DEF OpPC
  <2>2. op'[h].pc = "acquire" /\ op'[h].kind = op[h].kind /\ op' \in [Host -> OpRow] /\ \A x \in Host \ {h} : op'[x] = op[x]
    BY <1>1, <1>4, <2>1, Went
  <2>3. ~Keeps(h) BY <1>1, <1>2, <1>4 DEF Local, OpRight
  <2> QED BY <1>2, <1>4, <2>2, <2>3, OpAlone
<1> QED BY <1>3, <1>4 DEF AwaitSeal

LEMMA ReadOwnerKept == ASSUME Inv, NEW h \in Host, ReadOwner(h) PROVE Inv'
<1>1. Local(h) /\ Typing BY TypingIs DEF Inv
<1>2. op[h].pc = "acquire" /\ lease[h].holders = 0 /\ UNCHANGED <<registry, closing, hosted, handles, gate, call>> BY DEF ReadOwner
<1>3. op \in [Host -> OpRow] /\ "take" \in OpPC /\ owner \in Owner BY <1>1 DEF Typing, OpPC
<1>4. op'[h].pc = "take" /\ op'[h].kind = op[h].kind /\ op' \in [Host -> OpRow] /\ \A x \in Host \ {h} : op'[x] = op[x]
  BY <1>3 DEF ReadOwner, OpRow
<1>5. op[h].kind # "stop" /\ (op[h].kind # "export" => ~Keeps(h)) BY <1>1, <1>2 DEF Local, OpRight
<1> QED BY <1>2, <1>4, <1>5, OpAlone

LEMMA NotTakenKept == ASSUME Inv, NEW h \in Host, OwnerChanged(h) \/ RefuseTakeover(h) PROVE Inv'
<1>1. Local(h) /\ Typing BY TypingIs DEF Inv
<1>2. op[h].pc = "take" /\ UNCHANGED <<registry, closing, hosted, handles, gate, call>> BY DEF OwnerChanged, RefuseTakeover
<1>3. CASE EndOp(h) BY <1>2, <1>3, EndIs, OpAlone
<1>4. CASE op' = [op EXCEPT ![h] = [NoOp EXCEPT !.kind = op[h].kind, !.pc = "acquire", !.again = TRUE]]
  <2>1. op \in [Host -> OpRow] /\ op[h].kind \in Kind BY <1>1 DEF Typing, OpRow
  <2> DEFINE next == [NoOp EXCEPT !.kind = op[h].kind, !.pc = "acquire", !.again = TRUE]
  <2>2. next \in OpRow /\ next.kind = op[h].kind /\ next.pc = "acquire" BY <2>1 DEF NoOp, OpRow, Owner, OpPC
  <2>3. op' = [op EXCEPT ![h] = next] BY <1>4
  <2> HIDE DEF next
  <2>4. op'[h].pc = "acquire" /\ op'[h].kind = op[h].kind /\ op' \in [Host -> OpRow] /\ \A x \in Host \ {h} : op'[x] = op[x]
    BY <2>1, <2>2, <2>3
  <2>5. op[h].kind # "stop" /\ (op[h].kind # "export" => ~Keeps(h)) BY <1>1, <1>2 DEF Local, OpRight
  <2> QED BY <1>2, <2>4, <2>5, OpAlone
<1> QED BY <1>3, <1>4 DEF OwnerChanged, RefuseTakeover

\* Entering the gate with a share of the lease.
LEMMA QueuedRight ==
  ASSUME Inv, NEW h \in Host, EnterGate(h, "op"), UNCHANGED <<appRow, inst, directories, app, closing, hosted, handles, call>>,
         op[h].pc \in {"acquire", "take"}, op'[h].pc = "queued", op'[h].kind = op[h].kind,
         lease'[h].holders = lease[h].holders + 1, lease'[h].current, owner' = h
  PROVE  Local(h)'
<1>1. Local(h) /\ Typing /\ TypeOK BY TypingIs DEF Inv
<1>2. UNCHANGED <<status, offer, inst, data, aside>> BY DEF appRow, directories
<1>3. Share(h) = 0 /\ Share(h)' = 1 BY DEF Share, InGate
<1>4. lease[h].holders \in 0 .. 2 BY <1>1, Typed
<1>5. (Keeps(h)' <=> Keeps(h)) /\ (Hosts(h)' <=> Hosts(h)) BY <1>3, <1>4 DEF Keeps, Hosts
<1>6. gate'[h] = Append(gate[h], "op") /\ gate[h] \in Seq(Who) BY <1>1 DEF EnterGate, Typing
<1>7. LeaseRight(h)' BY <1>1, <1>3, <1>4 DEF Local, LeaseRight
<1>8. HostRight(h)' BY <1>1, <1>2, <1>5 DEF Local, HostRight
<1>9. OpRight(h)' BY <1>1, <1>5 DEF Local, OpRight, Started, Deciding
<1>10. WorkRight(h)' BY DEF WorkRight, Started, InGate
<1>11. GateRight(h)'
  <2>1. (HasSeal(gate'[h]) => HasSeal(gate[h])) /\ (OneSeal(gate[h]) => OneSeal(gate'[h])) BY <1>6, EnterFacts DEF Who
  <2> QED BY <1>1, <1>5, <2>1 DEF Local, GateRight, InGate
<1>12. CallRight(h)'
  <2>1. Holds(h, "call") => Holds(h, "call")' BY <1>6, EnterFacts DEF Holds, Who
  <2> QED BY <1>1, <1>2, <1>5, <2>1 DEF Local, CallRight
<1> QED BY <1>7, <1>8, <1>9, <1>10, <1>11, <1>12 DEF Local

LEMMA EnterTyped ==
  ASSUME Inv, NEW h \in Host, NEW w \in Who, EnterGate(h, w)
  PROVE  gate' \in [Host -> Seq(Who)] /\ \A x \in Host \ {h} : gate'[x] = gate[x]
<1>1. gate \in [Host -> Seq(Who)] BY TypingIs DEF Inv, Typing
<1>2. Append(gate[h], w) \in Seq(Who) BY <1>1
<1> QED BY <1>1, <1>2 DEF EnterGate

LEMMA ShareKept == ASSUME Inv, NEW h \in Host, ShareAcquire(h) PROVE Inv'
<1>1. Local(h) /\ Typing /\ TypeOK /\ Rows /\ \A x \in Host : Local(x) BY TypingIs DEF Inv
<1>2. /\ op[h].pc = "acquire" /\ Owns(h) /\ Goto(h, "queued") /\ EnterGate(h, "op")
      /\ lease' = [lease EXCEPT ![h].holders = @ + 1] /\ owner' = owner
      /\ UNCHANGED <<appRow, inst, directories, app, closing, hosted, handles, call>>
  BY DEF ShareAcquire, At, ShareLease
<1>3. "queued" \in OpPC /\ "op" \in Who BY DEF OpPC, Who
<1>4. op'[h].pc = "queued" /\ op'[h].kind = op[h].kind /\ op' \in [Host -> OpRow] /\ \A x \in Host \ {h} : op'[x] = op[x]
  BY <1>1, <1>2, <1>3, Went
<1>5. gate' \in [Host -> Seq(Who)] /\ \A x \in Host \ {h} : gate'[x] = gate[x] BY <1>2, <1>3, EnterTyped
<1>6. lease[h].holders \in {0, 1}
  <2>1. Share(h) = 0 BY <1>2 DEF Share, InGate
  <2> QED BY <1>1, <2>1 DEF Local, LeaseRight
<1>7. /\ lease' \in [Host -> Lease] /\ lease'[h].holders = lease[h].holders + 1 /\ lease'[h].current = lease[h].current
      /\ \A x \in Host \ {h} : lease'[x] = lease[x]
  BY <1>1, <1>2, <1>6 DEF Typing, Lease
<1>8. lease'[h].current /\ owner' = h BY <1>2, <1>7 DEF Owns
<1>9. Local(h)' BY <1>2, <1>4, <1>7, <1>8, QueuedRight
<1>10. UNCHANGED <<status, offer, inst, data, aside, app>> BY <1>2 DEF appRow, directories
<1>11. ASSUME NEW x \in Host \ {h} PROVE Local(x)' BY <1>1, <1>2, <1>4, <1>5, <1>7, <1>10, Bystander DEF Same
<1>12. Rows' BY <1>1, <1>10 DEF Rows
<1>13. Typing' BY <1>1, <1>2, <1>4, <1>5, <1>7, <1>10 DEF Typing
<1> QED BY <1>9, <1>11, <1>12, <1>13, TypingIs DEF Inv

\* Nobody remembers a share of what can be taken.
LEMMA Takes ==
  ASSUME Inv, NEW h \in Host, Takeable(h), SameOwner(h), NEW x \in Host \ {h}
  PROVE  lease[x].holders = 0 /\ ~lease[x].current
<1>1. owner # x BY AppRegistryAssumption DEF Takeable, SameOwner
<1>2. LeaseRight(x) /\ lease[x].holders \in 0 .. 2 BY Typed DEF Inv, Local
<1> QED BY <1>1, <1>2 DEF LeaseRight

LEMMA TakeKept == ASSUME Inv, NEW h \in Host, TakeLease(h) PROVE Inv'
<1>1. Local(h) /\ Typing /\ TypeOK /\ Rows /\ \A x \in Host : Local(x) BY TypingIs DEF Inv
<1>2. /\ op[h].pc = "take" /\ Takeable(h) /\ SameOwner(h) /\ TakeOwner(h) /\ EnterGate(h, "op")
      /\ op' = [g \in Host |-> IF g = h THEN [NoOp EXCEPT !.kind = op[h].kind, !.pc = "queued"]
                                        ELSE [op[g] EXCEPT !.same = FALSE]]
      /\ UNCHANGED <<appRow, inst, directories, app, closing, hosted, handles, call>>
  BY DEF TakeLease
<1>3. op \in [Host -> OpRow] /\ op[h].kind \in Kind /\ "op" \in Who BY <1>1 DEF Typing, OpRow, Who
<1>4. /\ op' \in [Host -> OpRow] /\ op'[h].pc = "queued" /\ op'[h].kind = op[h].kind
      /\ \A x \in Host \ {h} : op'[x].pc = op[x].pc /\ op'[x].kind = op[x].kind /\ op'[x].digest = op[x].digest
  <2> DEFINE next == [NoOp EXCEPT !.kind = op[h].kind, !.pc = "queued"]
  <2>1. next \in OpRow /\ next.kind = op[h].kind /\ next.pc = "queued" BY <1>3 DEF NoOp, OpRow, Owner, OpPC
  <2>2. \A o \in OpRow : /\ [o EXCEPT !.same = FALSE] \in OpRow
                         /\ [o EXCEPT !.same = FALSE].pc = o.pc /\ [o EXCEPT !.same = FALSE].kind = o.kind
                         /\ [o EXCEPT !.same = FALSE].digest = o.digest
    BY DEF OpRow
  <2>3. op' = [g \in Host |-> IF g = h THEN next ELSE [op[g] EXCEPT !.same = FALSE]] BY <1>2
  <2> HIDE DEF next
  <2> QED BY <1>3, <2>1, <2>2, <2>3
<1>5. gate' \in [Host -> Seq(Who)] /\ \A x \in Host \ {h} : gate'[x] = gate[x] BY <1>2, <1>3, EnterTyped
<1>6. lease[h].holders = 0 BY <1>1, <1>2 DEF Local, OpRight
<1>7. /\ lease' \in [Host -> Lease] /\ lease'[h].holders = lease[h].holders + 1 /\ lease'[h].current /\ owner' = h
      /\ \A x \in Host \ {h} : lease'[x].holders = lease[x].holders /\ ~lease'[x].current
  <2>1. lease \in [Host -> Lease] BY <1>1 DEF Typing
  <2>2. lease' = [g \in Host |-> IF g = h THEN [current |-> TRUE, holders |-> 1] ELSE [lease[g] EXCEPT !.current = FALSE]] /\ owner' = h
    BY <1>2 DEF TakeOwner
  <2>3. \A l \in Lease : LET v == [l EXCEPT !.current = FALSE] IN v \in Lease /\ v.holders = l.holders /\ ~v.current
    BY DEF Lease
  <2>4. [current |-> TRUE, holders |-> 1] \in Lease BY DEF Lease
  <2>5. lease'[h] = [current |-> TRUE, holders |-> 1] BY <2>2
  <2>6. \A x \in Host \ {h} : lease'[x] = [lease[x] EXCEPT !.current = FALSE] BY <2>2
  <2>7. lease' \in [Host -> Lease] BY <2>1, <2>2, <2>3, <2>4
  <2>8. lease'[h].holders = 1 /\ lease'[h].current BY <2>5
  <2>9. \A x \in Host \ {h} : lease'[x].holders = lease[x].holders /\ ~lease'[x].current BY <2>1, <2>3, <2>6
  <2> QED BY <1>6, <2>2, <2>7, <2>8, <2>9
<1>8. Local(h)' BY <1>2, <1>4, <1>7, QueuedRight
<1>9. UNCHANGED <<status, offer, inst, data, aside, app>> BY <1>2 DEF appRow, directories
<1>10. ASSUME NEW x \in Host \ {h} PROVE Local(x)'
  <2>1. lease[x].holders = 0 BY <1>2, Takes
  <2> QED BY <1>1, <1>2, <1>4, <1>5, <1>7, <1>9, <2>1, Sidelined DEF Same
<1>11. Rows' BY <1>1, <1>9 DEF Rows
<1>12. Typing' BY <1>1, <1>2, <1>4, <1>5, <1>7, <1>9 DEF Typing, Owner
<1> QED BY <1>8, <1>10, <1>11, <1>12, TypingIs DEF Inv

-----------------------------------------------------------------------------
(***************************************************************************)
(* The seal of the hosted instance.                                        *)
(***************************************************************************)

\* The instance a host hosts is its own: the row names it, and nobody else works.
LEMMA AtHosted ==
  ASSUME Inv, NEW h \in Host, Hosts(h)
  PROVE  /\ Owns(h) /\ Keeps(h) /\ status = "active"
         /\ inst.gen = hosted[h].gen /\ inst.gen \in Generation /\ inst.owner = h /\ inst.pid
         /\ hosted[h].sealed <=> inst.state = "sealed"
<1>1. TypeOK /\ Local(h) BY DEF Inv
<1>2. Keeps(h) /\ Owns(h) BY <1>1, Keeping DEF Local, HostRight
<1>3. inst.gen \in Generation BY <1>1, Typed DEF Local, HostRight, Hosts
<1> QED BY <1>1, <1>2, <1>3 DEF Local, HostRight

\* The row is written by the host of the instance; its lease, its call and its
\* operation stay, but for one that ends or waits for the seal.
LEMMA HostedStep ==
  ASSUME Inv, NEW h \in Host, Hosts(h), UNCHANGED <<ownership, appRow, directories, closing, call>>,
         app' \in [Generation -> {"none", "running", "recorded"}], \A g \in Generation : app'[g] \in {app[g], "none"},
         handles' \in [Host -> SUBSET Generation],
         inst' \in Instance, inst'.gen = inst.gen, inst'.owner = inst.owner, inst'.pid,
         inst.state = "sealed" => inst'.state = "sealed",
         call[h].pc \in {"running", "settled"} => inst'.state # "sealed" /\ Holds(h, "call")',
         op' \in [Host -> OpRow], \A x \in Host \ {h} : op'[x] = op[x],
         op'[h] = op[h] \/ (op[h].pc = "idle" /\ op'[h].pc = "sealing" /\ op'[h].kind \in {"stop", "decision"}),
         hosted' \in [Host -> Hosting], \A x \in Host \ {h} : hosted'[x] = hosted[x],
         hosted'[h].gen = hosted[h].gen, hosted'[h].sealed <=> inst'.state = "sealed",
         gate' \in [Host -> Seq(Who)], \A x \in Host \ {h} : gate'[x] = gate[x],
         op[h].pc \in InGate => Holds(h, "op")', OneSeal(gate'[h]), HasSeal(gate'[h]) => hosted'[h].sealing # "no"
  PROVE  Inv'
<1>1. Typing /\ TypeOK /\ Rows /\ \A x \in Host : Local(x) BY TypingIs DEF Inv
<1>2. UNCHANGED <<owner, lease, status, offer, data, aside>> BY DEF ownership, appRow, directories
<1>3. Owns(h) /\ Keeps(h) /\ status = "active" /\ inst.gen = hosted[h].gen /\ inst.gen \in Generation /\ inst.owner = h BY AtHosted
<1>4. ASSUME NEW x \in Host \ {h} PROVE Local(x)'
  <2>1. ~lease[x].current BY <1>1, <1>3, OneOwner DEF Owns, Local
  <2> QED BY <1>1, <1>2, <1>3, <2>1, OwnerWorks DEF Same
<1>5. Share(h)' = Share(h)
  <2>1. CASE op'[h] = op[h] BY <2>1 DEF Share
  <2>2. CASE op[h].pc = "idle" /\ op'[h].pc = "sealing" BY <2>2 DEF Share, InGate
  <2> QED BY <2>1, <2>2
<1>6. Keeps(h)' /\ Hosts(h)' BY <1>2, <1>3, <1>5 DEF Keeps, Hosts
<1>7. LeaseRight(h)' BY <1>1, <1>2, <1>5 DEF Local, LeaseRight
<1>8. HostRight(h)' BY <1>2, <1>3, <1>6 DEF HostRight
<1>9. OpRight(h)' BY <1>1, <1>2, <1>3, <1>6 DEF Local, OpRight, Started, Deciding
<1>10. WorkRight(h)'
  <2>1. op[h].pc \notin Started BY <1>1, <1>3 DEF Local, OpRight, Started
  <2>2. CASE op'[h] = op[h] BY <1>1, <1>2, <1>3, <2>1, <2>2 DEF Local, WorkRight
  <2>3. CASE op'[h].pc = "sealing" BY <2>3 DEF WorkRight, InGate, Started
  <2> QED BY <2>2, <2>3
<1>11. GateRight(h)'
  <2>1. op'[h].pc \in InGate => op[h].pc \in InGate BY DEF InGate
  <2> QED BY <1>6, <2>1 DEF GateRight
<1>12. CallRight(h)' BY <1>1, <1>6 DEF Local, CallRight
<1>13. Rows'
  <2>1. inst'.gen # 0 BY <1>3, AppRegistryAssumption
  <2>2. ASSUME NEW g \in Generation, app'[g] = "recorded" PROVE inst'.gen = g
    <3>1. app[g] = "recorded" BY <2>2
    <3> QED BY <1>1, <3>1 DEF Rows
  <2>3. status' # "deleted" BY <1>2, <1>3
  <2> QED BY <2>1, <2>2, <2>3 DEF Rows
<1>14. Typing' BY <1>1, <1>2 DEF Typing
<1> QED BY <1>4, <1>7, <1>8, <1>9, <1>10, <1>11, <1>12, <1>13, <1>14, TypingIs DEF Inv, Local

LEMMA SealAsked ==
  ASSUME Inv, NEW h \in Host, Hosts(h), AskSeal(h)
  PROVE  /\ inst' \in Instance /\ inst'.gen = inst.gen /\ inst'.owner = inst.owner /\ inst'.pid
         /\ inst.state = "sealed" => inst'.state = "sealed"
         /\ call[h].pc \in {"running", "settled"} => inst'.state # "sealed" /\ Holds(h, "call")'
         /\ hosted' \in [Host -> Hosting] /\ \A x \in Host \ {h} : hosted'[x] = hosted[x]
         /\ hosted'[h].gen = hosted[h].gen /\ (hosted'[h].sealed <=> inst'.state = "sealed")
         /\ gate' \in [Host -> Seq(Who)] /\ \A x \in Host \ {h} : gate'[x] = gate[x]
         /\ op[h].pc \in InGate => Holds(h, "op")'
         /\ OneSeal(gate'[h]) /\ hosted'[h].sealing # "no"
<1>1. Typing /\ TypeOK /\ Rows /\ Local(h) BY TypingIs DEF Inv
<1>2. /\ hosted[h].sealing = "no" /\ EnterGate(h, "seal") /\ hosted' = [hosted EXCEPT ![h].sealing = "asked"]
      /\ inst' = IF hosted[h].sealed THEN inst ELSE [inst EXCEPT !.state = "stopping"]
  BY DEF AskSeal
<1>3. inst.pid /\ inst \in Instance /\ (hosted[h].sealed <=> inst.state = "sealed") BY <1>1, AtHosted DEF Typing
<1>4. inst' \in Instance /\ inst'.gen = inst.gen /\ inst'.owner = inst.owner /\ inst'.pid
      /\ (hosted[h].sealed <=> inst'.state = "sealed")
  <2>1. CASE hosted[h].sealed BY <1>2, <1>3, <2>1
  <2>2. CASE ~hosted[h].sealed
    <3>1. inst' = [inst EXCEPT !.state = "stopping"] BY <1>2, <2>2
    <3>2. \A r \in Instance : LET v == [r EXCEPT !.state = "stopping"]
                             IN  v \in Instance /\ v.gen = r.gen /\ v.owner = r.owner /\ v.pid = r.pid /\ v.state = "stopping"
      BY DEF Instance, InstanceState
    <3> QED BY <1>3, <2>2, <3>1, <3>2
  <2> QED BY <2>1, <2>2
<1>5. /\ hosted' \in [Host -> Hosting] /\ hosted'[h].gen = hosted[h].gen /\ hosted'[h].sealed = hosted[h].sealed
      /\ hosted'[h].sealing = "asked" /\ \A x \in Host \ {h} : hosted'[x] = hosted[x]
  BY <1>1, <1>2 DEF Typing, Hosting, Sealing
<1>6. gate' \in [Host -> Seq(Who)] /\ (\A x \in Host \ {h} : gate'[x] = gate[x]) /\ gate'[h] = Append(gate[h], "seal")
      /\ gate[h] \in Seq(Who)
  <2>1. "seal" \in Who /\ gate \in [Host -> Seq(Who)] BY <1>1 DEF Who, Typing
  <2> QED BY <1>2, <2>1, EnterTyped DEF EnterGate
<1>7. OneSeal(gate'[h]) /\ (\A w : Holds(h, w) => Holds(h, w)')
  <2>1. ~HasSeal(gate[h]) BY <1>1, <1>2 DEF Local, GateRight
  <2>2. "seal" \in Who BY DEF Who
  <2> QED BY <1>6, <2>1, <2>2, EnterFacts DEF Holds
<1>8. call[h].pc \in {"running", "settled"} => inst.state # "sealed" /\ Holds(h, "call") BY <1>1 DEF Local, CallRight
<1>9. op[h].pc \in InGate => Holds(h, "op") BY <1>1 DEF Local, GateRight
<1> QED BY <1>3, <1>4, <1>5, <1>6, <1>7, <1>8, <1>9

LEMMA SealStarted ==
  ASSUME Inv, NEW h \in Host, Hosts(h), AskSeal(h), UNCHANGED <<ownership, appRow, directories, app, closing, handles, call>>,
         op' \in [Host -> OpRow], \A x \in Host \ {h} : op'[x] = op[x],
         op'[h] = op[h] \/ (op[h].pc = "idle" /\ op'[h].pc = "sealing" /\ op'[h].kind \in {"stop", "decision"})
  PROVE  Inv'
<1>1. Typing BY TypingIs DEF Inv
<1>2. app' \in [Generation -> {"none", "running", "recorded"}] /\ (\A g \in Generation : app'[g] \in {app[g], "none"})
      /\ handles' \in [Host -> SUBSET Generation]
  BY <1>1 DEF Typing
<1> QED BY <1>2, SealAsked, HostedStep

LEMMA SealsAskedKept == ASSUME Inv, NEW h \in Host, ViolationsSeal(h) \/ CloseSeal(h) PROVE Inv'
<1>1. Typing BY TypingIs DEF Inv
<1>2. Hosts(h) /\ AskSeal(h) /\ UNCHANGED <<ownership, appRow, directories, app, closing, handles, call>> /\ op' = op
  BY DEF ViolationsSeal, CloseSeal, Verifies
<1>3. op' \in [Host -> OpRow] BY <1>1, <1>2 DEF Typing
<1> QED BY <1>2, <1>3, SealStarted

LEMMA EndHostedKept ==
  ASSUME Inv, NEW h \in Host, NEW kind \in {"stop", "decision"}, Admitted(h), EndHosted(h, kind)
  PROVE  Inv'
<1>1. Typing /\ Local(h) BY TypingIs DEF Inv
<1>2. UNCHANGED <<ownership, appRow, directories, app, closing, handles, call>> /\ op[h].pc = "idle" /\ h \notin closing
  BY DEF EndHosted, Admitted
<1>3. kind \in Kind /\ "decision" \in Kind /\ "sealing" \in OpPC /\ "acquire" \in OpPC BY DEF Kind, OpPC
<1>4. CASE Hosts(h)
  <2>1. Begin(h, kind, "sealing") BY <1>4 DEF EndHosted
  <2>2. op' \in [Host -> OpRow] /\ op'[h].pc = "sealing" /\ op'[h].kind = kind /\ \A x \in Host \ {h} : op'[x] = op[x]
    BY <1>3, <2>1, BeginIs
  <2>3. CASE AskSeal(h) BY <1>2, <1>4, <2>2, <2>3, SealStarted
  <2>4. CASE UNCHANGED <<hosted, inst, gate>> BY <1>2, <1>4, <2>2, <2>4, OpAlone DEF registry
  <2> QED BY <2>3, <2>4 DEF EndHosted
<1>5. CASE ~Hosts(h)
  <2>1. Begin(h, "decision", "acquire") /\ UNCHANGED <<hosted, inst, gate>> BY <1>5 DEF EndHosted
  <2>2. op' \in [Host -> OpRow] /\ op'[h].pc = "acquire" /\ op'[h].kind = "decision" /\ \A x \in Host \ {h} : op'[x] = op[x]
    BY <1>3, <2>1, BeginIs
  <2>3. ~Keeps(h) BY <1>1, <1>2, <1>5 DEF Local, HostRight
  <2> QED BY <1>2, <2>1, <2>2, <2>3, OpAlone DEF registry
<1> QED BY <1>4, <1>5

LEMMA SealWaitsKept == ASSUME Inv, NEW h \in Host, SealWaits(h) PROVE Inv'
<1>1. Typing /\ Local(h) BY TypingIs DEF Inv
<1>2. hosted[h].sealing = "asked" /\ hosted' = [hosted EXCEPT ![h].sealing = "answered"]
      /\ UNCHANGED <<registry, closing, op, handles, gate, call>>
  BY DEF SealWaits
<1>3. Hosts(h) BY <1>1, <1>2 DEF Local, HostRight, NotHosted
<1>4. UNCHANGED <<ownership, appRow, inst, directories, app>> BY <1>2 DEF registry
<1>5. inst.pid /\ (hosted[h].sealed <=> inst.state = "sealed") BY <1>3, AtHosted
<1>6. /\ hosted' \in [Host -> Hosting] /\ hosted'[h].gen = hosted[h].gen /\ hosted'[h].sealed = hosted[h].sealed
      /\ hosted'[h].sealing # "no" /\ \A x \in Host \ {h} : hosted'[x] = hosted[x]
  BY <1>1, <1>2 DEF Typing, Hosting, Sealing
<1>7. /\ call[h].pc \in {"running", "settled"} => inst.state # "sealed" /\ Holds(h, "call")'
      /\ op[h].pc \in InGate => Holds(h, "op")'
      /\ OneSeal(gate'[h])
  BY <1>1, <1>2 DEF Local, CallRight, GateRight, Holds
<1>8. /\ app' \in [Generation -> {"none", "running", "recorded"}] /\ (\A g \in Generation : app'[g] \in {app[g], "none"})
      /\ handles' \in [Host -> SUBSET Generation] /\ op' \in [Host -> OpRow] /\ gate' \in [Host -> Seq(Who)] /\ inst' \in Instance
  BY <1>1, <1>2, <1>4 DEF Typing
<1> QED BY <1>2, <1>3, <1>4, <1>5, <1>6, <1>7, <1>8, HostedStep

\* At the seal's turn: the instance is hosted still, nobody works or calls.
LEMMA AtSeal ==
  ASSUME Inv, NEW h \in Host, Holds(h, "seal")
  PROVE  /\ Hosts(h) /\ op[h].pc \notin InGate /\ call[h].pc \notin {"running", "settled"}
         /\ gate[h] \in Seq(Who) /\ gate[h] # << >> /\ OneSeal(gate[h]) /\ hosted[h].sealing # "no"
         /\ Tail(gate[h]) \in Seq(Who) /\ ~HasSeal(Tail(gate[h])) /\ OneSeal(Tail(gate[h]))
<1>1. Typing /\ Local(h) BY TypingIs DEF Inv
<1>2. gate[h] \in Seq(Who) /\ gate[h] # << >> /\ Head(gate[h]) = "seal" BY <1>1 DEF Typing, Holds
<1>3. HasSeal(gate[h])
  <2>1. 1 \in 1 .. Len(gate[h]) /\ gate[h][1] = "seal" BY <1>2
  <2> QED BY <2>1 DEF HasSeal
<1>4. OneSeal(gate[h]) /\ Hosts(h) /\ hosted[h].sealing # "no" BY <1>1, <1>3 DEF Local, GateRight
<1>5. op[h].pc \notin InGate BY <1>1, <1>2 DEF Local, GateRight, Holds
<1>6. call[h].pc \notin {"running", "settled"} BY <1>1, <1>2 DEF Local, CallRight, Holds
<1> QED BY <1>2, <1>4, <1>5, <1>6, LeaveFacts

LEMMA LeaveTyped ==
  ASSUME Inv, NEW h \in Host, gate[h] # << >>, LeaveGate(h)
  PROVE  gate' \in [Host -> Seq(Who)] /\ gate'[h] = Tail(gate[h]) /\ \A x \in Host \ {h} : gate'[x] = gate[x]
<1>1. gate \in [Host -> Seq(Who)] BY TypingIs DEF Inv, Typing
<1>2. Tail(gate[h]) \in Seq(Who) BY <1>1
<1> QED BY <1>1, <1>2 DEF LeaveGate

LEMMA SealInGateKept == ASSUME Inv, NEW h \in Host, SealInGate(h) PROVE Inv'
<1>1. Typing /\ Local(h) BY TypingIs DEF Inv
<1>2. Holds(h, "seal") /\ ~hosted[h].sealed /\ UNCHANGED <<ownership, appRow, directories, app, closing, op, handles, call>>
  BY DEF SealInGate
<1>3. /\ Hosts(h) /\ op[h].pc \notin InGate /\ call[h].pc \notin {"running", "settled"} /\ hosted[h].sealing # "no"
      /\ gate[h] # << >> /\ OneSeal(gate[h]) /\ ~HasSeal(Tail(gate[h])) /\ OneSeal(Tail(gate[h]))
      /\ inst.pid /\ inst.state # "sealed"
  BY <1>2, AtSeal, AtHosted
<1>4. /\ app' \in [Generation -> {"none", "running", "recorded"}] /\ (\A g \in Generation : app'[g] \in {app[g], "none"})
      /\ handles' \in [Host -> SUBSET Generation] /\ op' \in [Host -> OpRow] /\ op' = op
  BY <1>1, <1>2 DEF Typing
<1>5. CASE inst' = [inst EXCEPT !.state = "sealed"] /\ hosted' = [hosted EXCEPT ![h].sealed = TRUE] /\ gate' = gate
  <2>1. \A r \in Instance : LET v == [r EXCEPT !.state = "sealed"]
                            IN  v \in Instance /\ v.gen = r.gen /\ v.owner = r.owner /\ v.pid = r.pid /\ v.state = "sealed"
    BY DEF Instance, InstanceState
  <2>2. inst' \in Instance /\ inst'.gen = inst.gen /\ inst'.owner = inst.owner /\ inst'.pid /\ inst'.state = "sealed"
    BY <1>1, <1>3, <1>5, <2>1 DEF Typing
  <2>3. /\ hosted' \in [Host -> Hosting] /\ hosted'[h].gen = hosted[h].gen /\ hosted'[h].sealed
        /\ hosted'[h].sealing = hosted[h].sealing /\ \A x \in Host \ {h} : hosted'[x] = hosted[x]
    BY <1>1, <1>5 DEF Typing, Hosting
  <2>4. gate' \in [Host -> Seq(Who)] /\ \A x \in Host \ {h} : gate'[x] = gate[x] BY <1>1, <1>5 DEF Typing
  <2> QED BY <1>2, <1>3, <1>4, <1>5, <2>2, <2>3, <2>4, HostedStep
<1>6. CASE hosted' = Answered(h) /\ LeaveGate(h) /\ inst' = inst
  <2>1. /\ hosted' \in [Host -> Hosting] /\ hosted'[h].gen = hosted[h].gen /\ hosted'[h].sealed = hosted[h].sealed
        /\ hosted'[h].sealing = "answered" /\ \A x \in Host \ {h} : hosted'[x] = hosted[x]
    BY <1>1, <1>6 DEF Typing, Hosting, Answered, Sealing
  <2>2. gate' \in [Host -> Seq(Who)] /\ gate'[h] = Tail(gate[h]) /\ \A x \in Host \ {h} : gate'[x] = gate[x]
    BY <1>3, <1>6, LeaveTyped
  <2>3. inst' \in Instance BY <1>1, <1>6 DEF Typing
  <2> QED BY <1>2, <1>3, <1>4, <1>6, <2>1, <2>2, <2>3, HostedStep
<1> QED BY <1>5, <1>6 DEF SealInGate

LEMMA StopFailsKept == ASSUME Inv, NEW h \in Host, StopFails(h) PROVE Inv'
<1>1. Typing /\ Local(h) BY TypingIs DEF Inv
<1>2. Holds(h, "seal") /\ hosted[h].sealed /\ LeaveGate(h) /\ hosted' = [hosted EXCEPT ![h].sealing = "no"]
      /\ UNCHANGED <<registry, closing, op, handles, call>>
  BY DEF StopFails
<1>3. /\ Hosts(h) /\ op[h].pc \notin InGate /\ call[h].pc \notin {"running", "settled"}
      /\ gate[h] # << >> /\ ~HasSeal(Tail(gate[h])) /\ OneSeal(Tail(gate[h]))
      /\ inst.pid /\ inst.state = "sealed"
  BY <1>2, AtSeal, AtHosted
<1>4. UNCHANGED <<ownership, appRow, inst, directories, app>> BY <1>2 DEF registry
<1>5. /\ app' \in [Generation -> {"none", "running", "recorded"}] /\ (\A g \in Generation : app'[g] \in {app[g], "none"})
      /\ handles' \in [Host -> SUBSET Generation] /\ op' \in [Host -> OpRow] /\ op' = op /\ inst' \in Instance
  BY <1>1, <1>2, <1>4 DEF Typing
<1>6. /\ hosted' \in [Host -> Hosting] /\ hosted'[h].gen = hosted[h].gen /\ hosted'[h].sealed = hosted[h].sealed
      /\ \A x \in Host \ {h} : hosted'[x] = hosted[x]
  BY <1>1, <1>2 DEF Typing, Hosting, Sealing
<1>7. gate' \in [Host -> Seq(Who)] /\ gate'[h] = Tail(gate[h]) /\ \A x \in Host \ {h} : gate'[x] = gate[x]
  BY <1>2, <1>3, LeaveTyped
<1> QED BY <1>2, <1>3, <1>4, <1>5, <1>6, <1>7, HostedStep

\* The instance ends: its host gives the row and the lease back.
LEMMA EndedLocal ==
  ASSUME Inv, NEW h \in Host, Hosts(h), hosted[h].sealed, op[h].pc \in InGate => Holds(h, "op")',
         ReleaseLease(h), inst' = NoInstance, UNCHANGED <<appRow, directories, closing, op, call>>,
         app' \in [Generation -> {"none", "running", "recorded"}], \A g \in Generation : app'[g] \in {app[g], "none"},
         app'[inst.gen] = "none", handles' \in [Host -> SUBSET Generation],
         hosted' = [hosted EXCEPT ![h] = NotHosted],
         gate' \in [Host -> Seq(Who)], \A x \in Host \ {h} : gate'[x] = gate[x], ~HasSeal(gate'[h])
  PROVE  Inv'
<1>1. Typing /\ TypeOK /\ Rows /\ \A x \in Host : Local(x) BY TypingIs DEF Inv
<1>2. UNCHANGED <<status, offer, data, aside>> BY DEF appRow, directories
<1>3. Owns(h) /\ Keeps(h) /\ lease[h].holders > 0 /\ status = "active" BY <1>1, AtHosted, Keeping DEF Local
<1>4. /\ lease' \in [Host -> Lease] /\ owner' \in {owner, NoHost} /\ lease'[h].holders = lease[h].holders - 1
      /\ (lease'[h].current <=> lease'[h].holders > 0) /\ (lease'[h].current => owner' = h)
      /\ \A x \in Host \ {h} : lease'[x] = lease[x]
  BY <1>1, <1>3, Released DEF Local
<1>5. NotHosted \in Hosting /\ NotHosted.gen = 0 BY DEF NotHosted, Hosting, Sealing
<1>6. hosted' \in [Host -> Hosting] /\ hosted'[h] = NotHosted /\ \A x \in Host \ {h} : hosted'[x] = hosted[x]
  BY <1>1, <1>5 DEF Typing
<1>7. ASSUME NEW x \in Host \ {h} PROVE Local(x)'
  <2>1. ~lease[x].current BY <1>1, <1>3, OneOwner DEF Local
  <2> QED BY <1>1, <1>3, <1>4, <1>6, <2>1, OwnerWorks DEF Same
<1>8. Local(h)'
  <2>1. Share(h)' = Share(h) /\ lease'[h].holders = Share(h) /\ ~Keeps(h)' /\ ~Hosts(h)'
    <3>1. Share(h) \in {0, 1} /\ Share(h)' = Share(h) BY DEF Share
    <3>2. lease'[h].holders = Share(h) BY <1>3, <1>4, <3>1 DEF Keeps
    <3>3. ~Keeps(h)' BY <3>1, <3>2 DEF Keeps
    <3> QED BY <1>5, <1>6, <3>1, <3>2, <3>3 DEF Hosts
  <2>2. LeaseRight(h)' BY <1>4, <2>1 DEF LeaseRight
  <2>3. HostRight(h)' BY <1>6, <2>1, NoneTyped DEF HostRight
  <2>4. op[h].pc # "take" BY <1>1, <1>3 DEF Local, OpRight
  <2>5. OpRight(h)' BY <1>1, <2>1, <2>4 DEF Local, OpRight
  <2>6. WorkRight(h)'
    <3>1. op[h].pc \notin Started \cup Deciding BY <1>1, <1>3 DEF Local, OpRight, Started, Deciding
    <3> QED BY <3>1 DEF WorkRight, Started, Deciding
  <2>7. GateRight(h)' BY <2>1 DEF GateRight, HasSeal, OneSeal
  <2>8. CallRight(h)'
    <3>1. inst.state = "sealed" BY AtHosted
    <3> QED BY <1>1, <3>1, NoneTyped DEF Local, CallRight
  <2> QED BY <2>2, <2>3, <2>5, <2>6, <2>7, <2>8 DEF Local
<1>9. Rows'
  <2>1. ASSUME NEW g \in Generation, app'[g] = "recorded" PROVE FALSE
    <3>1. app[g] = "recorded" BY <2>1
    <3> QED BY <1>1, <2>1, <3>1 DEF Rows
  <2> QED BY <1>2, <1>3, <2>1 DEF Rows
<1>10. Typing' BY <1>1, <1>2, <1>4, <1>6, NoneTyped DEF Typing
<1> QED BY <1>7, <1>8, <1>9, <1>10, TypingIs DEF Inv

LEMMA StopSealedKept == ASSUME Inv, NEW h \in Host, StopSealed(h) PROVE Inv'
<1>1. Typing BY TypingIs DEF Inv
<1>2. /\ Holds(h, "seal") /\ hosted[h].sealed /\ LeaveGate(h) /\ app' = [app EXCEPT ![hosted[h].gen] = "none"]
      /\ handles' = [handles EXCEPT ![h] = @ \ {hosted[h].gen}] /\ UNCHANGED <<appRow, directories, closing, op, call>>
  BY DEF StopSealed
<1>3. /\ Hosts(h) /\ op[h].pc \notin InGate /\ call[h].pc \notin {"running", "settled"}
      /\ gate[h] # << >> /\ ~HasSeal(Tail(gate[h])) /\ OneSeal(Tail(gate[h]))
      /\ inst.pid /\ inst.state = "sealed" /\ inst.gen = hosted[h].gen /\ inst.gen \in Generation
  BY <1>2, AtSeal, AtHosted
<1>4. /\ app' \in [Generation -> {"none", "running", "recorded"}] /\ (\A g \in Generation : app'[g] \in {app[g], "none"})
      /\ app'[inst.gen] = "none"
  BY <1>1, <1>2, <1>3 DEF Typing
<1>5. handles' \in [Host -> SUBSET Generation] BY <1>1, <1>2 DEF Typing
<1>6. gate' \in [Host -> Seq(Who)] /\ gate'[h] = Tail(gate[h]) /\ \A x \in Host \ {h} : gate'[x] = gate[x]
  BY <1>2, <1>3, LeaveTyped
<1>7. ~HasSeal(gate'[h]) /\ OneSeal(gate'[h]) BY <1>3, <1>6
<1>8. hosted[h].sealed /\ UNCHANGED <<appRow, directories, closing, op, call>> BY <1>2
<1>9. CASE inst' = NoInstance /\ hosted' = [hosted EXCEPT ![h] = NotHosted] /\ ReleaseLease(h)
  BY <1>3, <1>4, <1>5, <1>6, <1>9, <1>7, <1>8, EndedLocal
<1>10. CASE hosted' = Answered(h) /\ UNCHANGED <<inst, ownership>>
  <2>1. /\ hosted' \in [Host -> Hosting] /\ hosted'[h].gen = hosted[h].gen /\ hosted'[h].sealed = hosted[h].sealed
        /\ hosted'[h].sealing = "answered" /\ \A x \in Host \ {h} : hosted'[x] = hosted[x]
    BY <1>1, <1>10 DEF Typing, Hosting, Answered, Sealing
  <2>2. inst' \in Instance /\ inst' = inst /\ op' \in [Host -> OpRow] /\ op' = op BY <1>1, <1>2, <1>10 DEF Typing
  <2>3. UNCHANGED <<ownership, appRow, directories, closing, call>> BY <1>8, <1>10
  <2>4. hosted'[h].sealed <=> inst'.state = "sealed" BY <1>3, <1>8, <2>1, <2>2
  <2> QED BY <1>3, <1>4, <1>5, <1>6, <1>7, <2>1, <2>2, <2>3, <2>4, HostedStep
<1> QED BY <1>9, <1>10 DEF StopSealed

-----------------------------------------------------------------------------
(***************************************************************************)
(* The instance begins, and its host closes or ends.                       *)
(***************************************************************************)

LEMMA RegisterKept == ASSUME Inv, NEW h \in Host, Register(h) PROVE Inv'
<1>1. Typing /\ TypeOK /\ Rows /\ \A x \in Host : Local(x) BY TypingIs DEF Inv
<1>2. /\ op[h].pc = "register" /\ h \notin closing /\ EndOp(h) /\ LeaveGate(h)
      /\ UNCHANGED <<ownership, appRow, directories, closing, handles, call>>
      /\ inst' = [inst EXCEPT !.pid = TRUE]
      /\ app' = [app EXCEPT ![inst.gen] = IF @ = "running" THEN "recorded" ELSE @]
      /\ hosted' = [hosted EXCEPT ![h] = [NotHosted EXCEPT !.gen = inst.gen]]
  BY DEF Register, At
<1>3. UNCHANGED <<owner, lease, status, offer, data, aside>> BY <1>2 DEF ownership, appRow, directories
<1>4. op[h].pc \in Started BY <1>2 DEF Started
<1>5. /\ Holds(h, "op") /\ Owns(h) /\ ~Keeps(h) /\ ~Hosts(h) /\ (\A g \in Generation : app[g] # "recorded")
      /\ op[h].pc \in InGate
  BY <1>4, AtDecision
<1>6. inst.owner = h /\ inst.gen # 0 /\ inst.state = "running" /\ status = "active" BY <1>1, <1>4 DEF Local, WorkRight
<1>7. inst.gen \in Generation /\ gate[h] # << >> /\ gate[h] \in Seq(Who) BY <1>1, <1>5, <1>6, Typed DEF Holds
<1>8. inst' \in Instance /\ inst'.gen = inst.gen /\ inst'.owner = h /\ inst'.state = "running" /\ inst'.pid
  BY <1>1, <1>2, <1>6 DEF Typing, Instance
<1>9. app' \in [Generation -> {"none", "running", "recorded"}] /\ \A g \in Generation : g # inst.gen => app'[g] # "recorded"
  BY <1>1, <1>2, <1>5, <1>7 DEF Typing
<1>10. /\ hosted' \in [Host -> Hosting] /\ hosted'[h].gen = inst.gen /\ ~hosted'[h].sealed
       /\ \A x \in Host \ {h} : hosted'[x] = hosted[x]
  <2>1. [NotHosted EXCEPT !.gen = inst.gen] \in Hosting /\ [NotHosted EXCEPT !.gen = inst.gen].gen = inst.gen
        /\ ~[NotHosted EXCEPT !.gen = inst.gen].sealed
    BY <1>7 DEF NotHosted, Hosting, Sealing
  <2>2. hosted \in [Host -> Hosting] BY <1>1 DEF Typing
  <2> QED BY <1>2, <2>1, <2>2
<1>11. op' \in [Host -> OpRow] /\ op'[h].pc = "idle" /\ \A x \in Host \ {h} : op'[x] = op[x] BY <1>2, EndIs
<1>12. gate' \in [Host -> Seq(Who)] /\ gate'[h] = Tail(gate[h]) /\ \A x \in Host \ {h} : gate'[x] = gate[x]
  BY <1>2, <1>7, LeaveTyped
<1>13. ASSUME NEW x \in Host \ {h} PROVE Local(x)'
  <2>1. ~lease[x].current BY <1>1, <1>5, OneOwner DEF Local, Owns
  <2>2. Same(x) BY <1>2, <1>3, <1>10, <1>11, <1>12 DEF Same
  <2>3. inst'.gen = inst.gen /\ inst'.owner = inst.owner /\ (inst.state = "sealed" => inst'.state = "sealed")
        /\ (inst'.pid => inst.pid \/ inst.owner = h)
    BY <1>6, <1>8
  <2> QED BY <1>1, <1>3, <1>5, <2>1, <2>2, <2>3, OwnerWorks
<1>14. Local(h)'
  <2>1. Share(h) = 1 /\ Share(h)' = 0 /\ lease[h].holders = 1
    <3>1. Share(h) = 1 /\ Share(h)' = 0 BY <1>5, <1>11 DEF Share, InGate
    <3> QED BY <1>1, <1>5, <3>1 DEF Local, LeaseRight, Keeps
  <2>2. Keeps(h)' /\ Hosts(h)' BY <1>3, <1>6, <1>10, <2>1 DEF Keeps, Hosts
  <2>3. LeaseRight(h)' BY <1>1, <1>3, <2>1 DEF Local, LeaseRight
  <2>4. HostRight(h)' BY <1>3, <1>6, <1>8, <1>10, <2>2 DEF HostRight
  <2>5. OpRight(h)' BY <1>11 DEF OpRight, Started, Deciding
  <2>6. WorkRight(h)' BY <1>11 DEF WorkRight, Started, InGate
  <2>7. ~HasSeal(gate[h]) /\ OneSeal(gate[h]) BY <1>1, <1>5 DEF Local, GateRight
  <2>8. ~HasSeal(gate'[h]) /\ OneSeal(gate'[h]) BY <1>7, <1>12, <2>7, LeaveFacts
  <2>9. GateRight(h)' BY <1>11, <2>8 DEF GateRight, InGate
  <2>10. CallRight(h)'
    <3>1. call[h].pc \notin {"running", "settled"} BY <1>1, <1>5 DEF Local, CallRight, Holds
    <3> QED BY <1>1, <1>2, <2>2, <3>1 DEF Local, CallRight
  <2> QED BY <2>3, <2>4, <2>5, <2>6, <2>9, <2>10 DEF Local
<1>15. Rows' BY <1>3, <1>6, <1>8, <1>9 DEF Rows
<1>16. Typing' BY <1>1, <1>2, <1>3, <1>8, <1>9, <1>10, <1>11, <1>12 DEF Typing
<1> QED BY <1>13, <1>14, <1>15, <1>16, TypingIs DEF Inv

LEMMA BeginCloseKept == ASSUME Inv, NEW h \in Host, BeginClose(h) PROVE Inv'
<1>1. Typing /\ Local(h) BY TypingIs DEF Inv
<1>2. closing' = closing \cup {h} /\ UNCHANGED <<registry, op, hosted, handles, gate, call>> BY DEF BeginClose
<1>3. UNCHANGED <<owner, lease, status, offer, inst, data, aside, app>> BY <1>2 DEF registry, ownership, appRow, directories
<1>4. \A x \in Host \ {h} : Same(x) BY <1>2, <1>3 DEF Same
<1>5. Share(h)' = Share(h) /\ (Keeps(h)' <=> Keeps(h)) /\ (Hosts(h)' <=> Hosts(h)) BY <1>2, <1>3 DEF Share, Keeps, Hosts
<1>6. LeaseRight(h)' BY <1>1, <1>3, <1>5 DEF Local, LeaseRight
<1>7. HostRight(h)' BY <1>1, <1>2, <1>3, <1>5 DEF Local, HostRight
<1>8. OpRight(h)' /\ WorkRight(h)' BY <1>1, <1>2, <1>3, <1>5 DEF Local, OpRight, WorkRight
<1>9. GateRight(h)' /\ CallRight(h)' BY <1>1, <1>2, <1>3, <1>5 DEF Local, GateRight, CallRight, Holds
<1>10. Typing' BY <1>1, <1>2, <1>3 DEF Typing
<1> QED BY <1>2, <1>4, <1>6, <1>7, <1>8, <1>9, <1>10, Alone DEF Local

\* Processes that end leave everything right.
LEMMA AppsEnd ==
  ASSUME Inv, UNCHANGED <<ownership, appRow, inst, directories, closing, op, hosted, gate, call>>,
         app' \in [Generation -> {"none", "running", "recorded"}], \A g \in Generation : app'[g] \in {app[g], "none"},
         handles' \in [Host -> SUBSET Generation]
  PROVE  Inv'
<1>1. Typing /\ Rows /\ \A x \in Host : Local(x) BY TypingIs DEF Inv
<1>2. UNCHANGED <<owner, lease, status, offer, inst, data, aside>> BY DEF ownership, appRow, directories
<1>3. ASSUME NEW x \in Host PROVE Local(x)' BY <1>1, <1>2, Bystander DEF Same
<1>4. Rows'
  <2>1. \A g \in Generation : app'[g] = "recorded" => app[g] = "recorded" OBVIOUS
  <2> QED BY <1>1, <1>2, <2>1 DEF Rows
<1>5. Typing' BY <1>1, <1>2 DEF Typing
<1> QED BY <1>3, <1>4, <1>5, TypingIs DEF Inv

LEMMA ExitsKept == ASSUME Inv, NEW g \in Generation, OrphanEnds(g) \/ AppExits(g) PROVE Inv'
<1>1. Typing BY TypingIs DEF Inv
<1>2. app' = [app EXCEPT ![g] = "none"] /\ UNCHANGED <<ownership, appRow, inst, directories, process>>
  BY DEF OrphanEnds, AppExits
<1>3. app' \in [Generation -> {"none", "running", "recorded"}] /\ \A k \in Generation : app'[k] \in {app[k], "none"}
  BY <1>1, <1>2 DEF Typing
<1>4. handles' \in [Host -> SUBSET Generation] /\ UNCHANGED <<closing, op, hosted, gate, call>> BY <1>1, <1>2 DEF Typing, process
<1> QED BY <1>2, <1>3, <1>4, AppsEnd

LEMMA CloseStopKept == ASSUME Inv, NEW h \in Host, CloseStop(h) PROVE Inv'
<1>1. Typing /\ TypeOK /\ Rows /\ \A x \in Host : Local(x) BY TypingIs DEF Inv
<1>2. h \in closing /\ op[h].pc # "sealing" /\ UNCHANGED <<appRow, directories, closing, op, gate, call>> BY DEF CloseStop
<1>3. PICK g \in handles[h] :
       /\ app' = [app EXCEPT ![g] = "none"]
       /\ handles' = [handles EXCEPT ![h] = @ \ {g}]
       /\ \/ UNCHANGED <<inst, ownership, hosted>>
          \/ /\ hosted[h].gen = g /\ ~InLine(h, "seal") /\ hosted' = [hosted EXCEPT ![h] = NotHosted]
             /\ \/ hosted[h].sealed /\ inst' = NoInstance /\ ReleaseLease(h)
                \/ UNCHANGED <<inst, ownership>>
  BY DEF CloseStop
<1>4. g \in Generation /\ g # 0 BY <1>1, AppRegistryAssumption DEF Typing
<1>5. /\ app' \in [Generation -> {"none", "running", "recorded"}] /\ (\A k \in Generation : app'[k] \in {app[k], "none"})
      /\ app'[g] = "none"
  BY <1>1, <1>3, <1>4 DEF Typing
<1>6. handles' \in [Host -> SUBSET Generation] BY <1>1, <1>3 DEF Typing
<1>7. gate' \in [Host -> Seq(Who)] /\ (~InLine(h, "seal") => ~HasSeal(gate[h]))
  <2>1. gate[h] \in Seq(Who) BY <1>1 DEF Typing
  <2>2. DOMAIN gate[h] = 1 .. Len(gate[h]) BY <2>1
  <2> QED BY <1>1, <1>2, <2>2 DEF HasSeal, InLine, Typing
<1>8. CASE /\ hosted[h].gen = g /\ ~InLine(h, "seal") /\ hosted' = [hosted EXCEPT ![h] = NotHosted]
           /\ hosted[h].sealed /\ inst' = NoInstance /\ ReleaseLease(h)
  <2>1. Hosts(h) /\ inst.gen = g BY <1>4, <1>8, AtHosted DEF Hosts
  <2>2. op[h].pc \in InGate => Holds(h, "op")' BY <1>1, <1>2 DEF Local, GateRight, Holds
  <2>3. gate' = gate BY <1>2
  <2> QED BY <1>2, <1>5, <1>6, <1>7, <1>8, <2>1, <2>2, <2>3, EndedLocal
<1>9. CASE UNCHANGED <<inst, ownership, hosted>> BY <1>2, <1>5, <1>6, <1>9, AppsEnd
<1>10. CASE /\ hosted[h].gen = g /\ ~InLine(h, "seal") /\ hosted' = [hosted EXCEPT ![h] = NotHosted]
            /\ UNCHANGED <<inst, ownership>>
  <2>1. UNCHANGED <<owner, lease, status, offer, inst, data, aside>> BY <1>2, <1>10 DEF ownership, appRow, directories
  <2>2. Hosts(h) /\ Keeps(h) BY <1>4, <1>10, AtHosted DEF Hosts
  <2>3. hosted' \in [Host -> Hosting] /\ hosted'[h] = NotHosted /\ \A x \in Host \ {h} : hosted'[x] = hosted[x]
    <3>1. NotHosted \in Hosting BY DEF NotHosted, Hosting, Sealing
    <3> QED BY <1>1, <1>10, <3>1 DEF Typing
  <2>4. ASSUME NEW x \in Host \ {h} PROVE Local(x)' BY <1>1, <1>2, <2>1, <2>3, Bystander DEF Same
  <2>5. Local(h)'
    <3>1. Share(h)' = Share(h) /\ Keeps(h)' /\ ~Hosts(h)' BY <1>2, <2>1, <2>2, <2>3 DEF Share, Keeps, Hosts, NotHosted
    <3>2. LeaseRight(h)' BY <1>1, <2>1, <3>1 DEF Local, LeaseRight
    <3>3. HostRight(h)' BY <1>1, <1>2, <2>1, <2>2, <2>3, <3>1 DEF Local, HostRight
    <3>4. OpRight(h)' BY <1>1, <1>2, <2>1, <2>2, <3>1 DEF Local, OpRight
    <3>5. WorkRight(h)' BY <1>1, <1>2, <2>1 DEF Local, WorkRight
    <3>6. GateRight(h)' BY <1>1, <1>2, <1>7, <1>10 DEF Local, GateRight, Holds
    <3>7. CallRight(h)' BY <1>1, <1>2, <2>1, <3>1 DEF Local, CallRight, Holds
    <3> QED BY <3>2, <3>3, <3>4, <3>5, <3>6, <3>7 DEF Local
  <2>6. Rows'
    <3>1. \A k \in Generation : app'[k] = "recorded" => app[k] = "recorded" BY <1>5
    <3> QED BY <1>1, <2>1, <3>1 DEF Rows
  <2>7. Typing' BY <1>1, <1>2, <1>5, <1>6, <1>7, <2>1, <2>3 DEF Typing
  <2> QED BY <2>4, <2>5, <2>6, <2>7, TypingIs DEF Inv
<1> QED BY <1>3, <1>8, <1>9, <1>10

LEMMA ProcessEndsKept == ASSUME Inv, NEW h \in Host, ProcessEnds(h) PROVE Inv'
<1>1. Typing /\ TypeOK /\ Rows /\ \A x \in Host : Local(x) BY TypingIs DEF Inv
<1>2. /\ owner' = Renamed(owner, h) /\ inst' = [inst EXCEPT !.owner = Renamed(@, h)]
      /\ lease' = [lease EXCEPT ![h] = NoLease]
      /\ op' = [g \in Host |-> IF g = h THEN NoOp ELSE [op[g] EXCEPT !.seen = Renamed(@, h)]]
      /\ closing' = closing \ {h} /\ hosted' = [hosted EXCEPT ![h] = NotHosted] /\ handles' = [handles EXCEPT ![h] = {}]
      /\ gate' = [gate EXCEPT ![h] = << >>] /\ call' = [call EXCEPT ![h] = NoCall]
      /\ UNCHANGED <<appRow, directories, app>>
  BY DEF ProcessEnds
<1>3. UNCHANGED <<status, offer, data, aside, app>> BY <1>2 DEF appRow, directories
<1>4. (\A o \in Owner : Renamed(o, h) \in Owner) /\ Renamed(owner, h) # h /\ Renamed(inst.owner, h) # h
      /\ (inst.owner # h => Renamed(inst.owner, h) = inst.owner) /\ (owner # h => Renamed(owner, h) = owner)
      /\ (inst.owner = h => Renamed(inst.owner, h) = Gone) /\ NoHost # h /\ Gone \notin Host
  BY AppRegistryAssumption DEF Renamed, Owner
<1>5. inst \in Instance /\ owner \in Owner BY <1>1 DEF Typing
<1>6. /\ inst' \in Instance /\ inst'.gen = inst.gen /\ inst'.state = inst.state /\ inst'.pid = inst.pid
      /\ inst'.owner = Renamed(inst.owner, h) /\ (inst.owner # h => inst' = inst)
  BY <1>2, <1>4, <1>5 DEF Instance
<1>7. lease' \in [Host -> Lease] /\ lease'[h] = NoLease /\ \A x \in Host \ {h} : lease'[x] = lease[x]
  <2>1. lease \in [Host -> Lease] BY <1>1 DEF Typing
  <2>2. NoLease \in Lease BY DEF NoLease, Lease
  <2> QED BY <1>2, <2>1, <2>2
<1>8. /\ op' \in [Host -> OpRow] /\ op'[h] = NoOp
      /\ \A x \in Host \ {h} : op'[x].pc = op[x].pc /\ op'[x].kind = op[x].kind /\ op'[x].digest = op[x].digest
  <2>1. op \in [Host -> OpRow] BY <1>1 DEF Typing
  <2>2. NoOp \in OpRow BY DEF NoOp, OpRow, Owner, Kind, OpPC
  <2>3. \A o \in OpRow : LET v == [o EXCEPT !.seen = Renamed(@, h)]
                         IN  v \in OpRow /\ v.pc = o.pc /\ v.kind = o.kind /\ v.digest = o.digest
    BY <1>4 DEF OpRow
  <2>4. \A x \in Host \ {h} : op'[x] = [op[x] EXCEPT !.seen = Renamed(@, h)] BY <1>2
  <2>5. op'[h] = NoOp BY <1>2
  <2>6. op' \in [Host -> OpRow] BY <1>2, <2>1, <2>2, <2>3
  <2> QED BY <2>1, <2>3, <2>4, <2>5, <2>6
<1>9. hosted' \in [Host -> Hosting] /\ hosted'[h] = NotHosted /\ \A x \in Host \ {h} : hosted'[x] = hosted[x]
  <2>1. NotHosted \in Hosting BY DEF NotHosted, Hosting, Sealing
  <2> QED BY <1>1, <1>2, <2>1 DEF Typing
<1>10. gate' \in [Host -> Seq(Who)] /\ gate'[h] = << >> /\ \A x \in Host \ {h} : gate'[x] = gate[x]
  <2>1. << >> \in Seq(Who) OBVIOUS
  <2> QED BY <1>1, <1>2, <2>1 DEF Typing
<1>11. call' \in [Host -> CallRow] /\ call'[h] = NoCall /\ \A x \in Host \ {h} : call'[x] = call[x]
  <2>1. NoCall \in CallRow BY DEF NoCall, CallRow, CallPC
  <2> QED BY <1>1, <1>2, <2>1 DEF Typing
<1>12. ASSUME NEW x \in Host \ {h} PROVE Local(x)'
  <2>1. Same(x) BY <1>2, <1>7, <1>8, <1>9, <1>10, <1>11 DEF Same
  <2>2. owner = x => owner' = x BY <1>2, <1>4
  <2>3. CASE inst.owner = h
    <3>1. inst # NoInstance BY <1>4, <2>3, NoneTyped
    <3> QED BY <1>1, <1>3, <1>4, <1>6, <1>7, <2>1, <2>2, <2>3, <3>1, Bystander
  <2>4. CASE inst.owner # h BY <1>1, <1>3, <1>6, <1>7, <2>1, <2>2, <2>4, Bystander
  <2> QED BY <2>3, <2>4
<1>13. Local(h)'
  <2>1. op'[h].pc = "idle" /\ lease'[h].holders = 0 /\ ~lease'[h].current BY <1>7, <1>8 DEF NoOp, NoLease
  <2>2. Share(h)' = 0 /\ ~Keeps(h)' /\ ~Hosts(h)' BY <1>9, <2>1 DEF Share, InGate, Keeps, Hosts, NotHosted
  <2>3. LeaseRight(h)' BY <2>1, <2>2 DEF LeaseRight
  <2>4. HostRight(h)' BY <1>4, <1>6, <1>9, <2>2 DEF HostRight
  <2>5. OpRight(h)' BY <2>1 DEF OpRight, Started, Deciding
  <2>6. WorkRight(h)' BY <2>1 DEF WorkRight, Started, InGate
  <2>7. GateRight(h)' BY <1>10, <2>1 DEF GateRight, HasSeal, OneSeal, InGate
  <2>8. CallRight(h)'
    <3>1. call'[h].gen = 0 /\ ~call'[h].io /\ call'[h].pc = "idle" BY <1>11 DEF NoCall
    <3>2. inst'.gen = 0 => inst'.state = "sealed" BY <1>1, <1>6, NoneTyped DEF Rows
    <3> QED BY <3>1, <3>2 DEF CallRight
  <2> QED BY <2>3, <2>4, <2>5, <2>6, <2>7, <2>8 DEF Local
<1>14. Rows'
  <2>1. inst = NoInstance => inst' = inst BY <1>4, <1>6, NoneTyped
  <2> QED BY <1>1, <1>3, <1>6, <2>1 DEF Rows
<1>15. closing' \subseteq Host /\ handles' \in [Host -> SUBSET Generation] BY <1>1, <1>2 DEF Typing
<1>16. owner' \in Owner BY <1>2, <1>4, <1>5
<1>17. Typing' BY <1>1, <1>3, <1>6, <1>7, <1>8, <1>9, <1>10, <1>11, <1>15, <1>16 DEF Typing
<1> QED BY <1>12, <1>13, <1>14, <1>17, TypingIs DEF Inv

\* The person edits the files.
LEMMA EditKept == ASSUME Inv, EditData PROVE Inv'
<1>1. Typing /\ Rows /\ \A x \in Host : Local(x) BY TypingIs DEF Inv
<1>2. data' \in Written /\ UNCHANGED <<ownership, appRow, inst, aside, app, process>>
  BY DEF EditData
<1>3. UNCHANGED <<owner, lease, status, offer, inst, aside, app, closing, op, hosted, handles, gate, call>>
  BY <1>2 DEF ownership, appRow, process
<1>4. ASSUME NEW x \in Host PROVE Local(x)'
  <2>1. Share(x)' = Share(x) /\ (Keeps(x)' <=> Keeps(x)) /\ (Hosts(x)' <=> Hosts(x)) BY <1>3 DEF Share, Keeps, Hosts
  <2>2. LeaseRight(x)' /\ HostRight(x)' BY <1>1, <1>3, <2>1 DEF Local, LeaseRight, HostRight
  <2>3. OpRight(x)' BY <1>1, <1>3, <2>1 DEF Local, OpRight
  <2>4. WorkRight(x)' BY <1>1, <1>2, <1>3 DEF Local, WorkRight
  <2>5. GateRight(x)' /\ CallRight(x)' BY <1>1, <1>3, <2>1 DEF Local, GateRight, CallRight, Holds
  <2> QED BY <2>2, <2>3, <2>4, <2>5 DEF Local
<1>5. Rows' BY <1>1, <1>3 DEF Rows
<1>6. Typing' BY <1>1, <1>2, <1>3 DEF Typing, Content
<1> QED BY <1>4, <1>5, <1>6, TypingIs DEF Inv

-----------------------------------------------------------------------------
(***************************************************************************)
(* The write calls.                                                        *)
(***************************************************************************)

LEMMA CallAlone ==
  ASSUME Inv, NEW h \in Host, UNCHANGED callOnly,
         call' \in [Host -> CallRow], \A x \in Host \ {h} : call'[x] = call[x],
         gate' \in [Host -> Seq(Who)], \A x \in Host \ {h} : gate'[x] = gate[x],
         op[h].pc \in InGate => Holds(h, "op")', OneSeal(gate'[h]), HasSeal(gate'[h]) => HasSeal(gate[h]),
         call'[h].gen \in {call[h].gen, 0} \/ Hosts(h),
         call'[h].io => call'[h].pc \in {"running", "settled"},
         call'[h].pc \in {"running", "settled"} => Holds(h, "call")' /\ inst.gen = call'[h].gen /\ inst.state # "sealed"
  PROVE  Inv'
<1>1. Typing /\ TypeOK /\ Rows /\ \A x \in Host : Local(x) BY TypingIs DEF Inv
<1>2. UNCHANGED <<owner, lease, status, offer, inst, data, aside, app, closing, op, hosted, handles>> /\ UNCHANGED registry
  BY DEF callOnly, registry, ownership, appRow, directories
<1>3. \A x \in Host \ {h} : Same(x) BY <1>2 DEF Same
<1>4. Share(h)' = Share(h) /\ (Keeps(h)' <=> Keeps(h)) /\ (Hosts(h)' <=> Hosts(h)) BY <1>2 DEF Share, Keeps, Hosts
<1>5. LeaseRight(h)' /\ HostRight(h)' BY <1>1, <1>2, <1>4 DEF Local, LeaseRight, HostRight
<1>6. OpRight(h)' BY <1>1, <1>2, <1>4 DEF Local, OpRight
<1>7. WorkRight(h)' BY <1>1, <1>2 DEF Local, WorkRight
<1>8. GateRight(h)' BY <1>1, <1>2, <1>4 DEF Local, GateRight
<1>9. CallRight(h)'
  <2>1. call'[h].gen = inst.gen /\ inst.state # "sealed" => Keeps(h)
    <3>1. CASE Hosts(h) BY <3>1, AtHosted
    <3>2. CASE call'[h].gen = call[h].gen BY <1>1, <3>2 DEF Local, CallRight
    <3>3. CASE call'[h].gen = 0 BY <1>1, <3>3, NoneTyped DEF Rows
    <3> QED BY <3>1, <3>2, <3>3
  <2> QED BY <1>2, <1>4, <2>1 DEF CallRight
<1>10. Local(h)' BY <1>5, <1>6, <1>7, <1>8, <1>9 DEF Local
<1>11. Typing' BY <1>1, <1>2 DEF Typing
<1> QED BY <1>2, <1>3, <1>10, <1>11, Alone

\* The gate stays: authorize, run, start an operation of the port, settle.
LEMMA CallMoves ==
  ASSUME Inv, NEW h \in Host, UNCHANGED <<callOnly, gate>>, NEW c \in CallRow, call' = [call EXCEPT ![h] = c],
         c.gen = call[h].gen \/ Hosts(h), c.io => c.pc \in {"running", "settled"},
         c.pc \in {"running", "settled"} => Holds(h, "call") /\ inst.gen = c.gen /\ inst.state # "sealed"
  PROVE  Inv'
<1>1. Typing /\ Local(h) BY TypingIs DEF Inv
<1>2. call' \in [Host -> CallRow] /\ call'[h] = c /\ \A x \in Host \ {h} : call'[x] = call[x] BY <1>1 DEF Typing
<1>3. gate' = gate /\ UNCHANGED callOnly OBVIOUS
<1>4. op[h].pc \in InGate => Holds(h, "op") BY <1>1 DEF Local, GateRight
<1>5. (Holds(h, "op") => Holds(h, "op")') /\ (Holds(h, "call") => Holds(h, "call")') /\ OneSeal(gate'[h])
  BY <1>1, <1>3 DEF Holds, Local, GateRight
<1>6. gate' \in [Host -> Seq(Who)] /\ (HasSeal(gate'[h]) => HasSeal(gate[h])) BY <1>1, <1>3 DEF Typing
<1> QED BY <1>2, <1>3, <1>4, <1>5, <1>6, CallAlone

\* The call is over, and leaves the gate that it holds.
LEMMA CallLeaves ==
  ASSUME Inv, NEW h \in Host, UNCHANGED callOnly, Holds(h, "call"), LeaveGate(h), call' = [call EXCEPT ![h] = NoCall]
  PROVE  Inv'
<1>1. Typing /\ Local(h) BY TypingIs DEF Inv
<1>2. NoCall \in CallRow /\ NoCall.gen = 0 /\ ~NoCall.io /\ NoCall.pc = "idle" BY DEF NoCall, CallRow, CallPC
<1>3. call' \in [Host -> CallRow] /\ call'[h] = NoCall /\ \A x \in Host \ {h} : call'[x] = call[x] BY <1>1, <1>2 DEF Typing
<1>4. gate[h] \in Seq(Who) /\ gate[h] # << >> BY <1>1 DEF Typing, Holds
<1>5. gate' \in [Host -> Seq(Who)] /\ gate'[h] = Tail(gate[h]) /\ \A x \in Host \ {h} : gate'[x] = gate[x]
  BY <1>4, LeaveTyped
<1>6. OneSeal(gate'[h]) /\ (HasSeal(gate'[h]) => HasSeal(gate[h])) BY <1>1, <1>4, <1>5, LeaveFacts DEF Local, GateRight
<1>7. op[h].pc \notin InGate BY <1>1 DEF Local, GateRight, Holds
<1> QED BY <1>2, <1>3, <1>5, <1>6, <1>7, CallAlone

LEMMA CallPcIs ==
  ASSUME Inv, NEW h \in Host, NEW pc \in CallPC, call' = [call EXCEPT ![h].pc = pc]
  PROVE  \E c \in CallRow : call' = [call EXCEPT ![h] = c] /\ c.pc = pc /\ c.gen = call[h].gen /\ c.io = call[h].io
<1>1. call[h] \in CallRow BY TypingIs DEF Inv, Typing
<1> DEFINE c == [call[h] EXCEPT !.pc = pc]
<1>2. c \in CallRow /\ c.pc = pc /\ c.gen = call[h].gen /\ c.io = call[h].io BY <1>1 DEF CallRow
<1>3. call' = [call EXCEPT ![h] = c] OBVIOUS
<1> HIDE DEF c
<1> QED BY <1>2, <1>3

LEMMA CallIoIs ==
  ASSUME Inv, NEW h \in Host, NEW io \in BOOLEAN, call' = [call EXCEPT ![h].io = io]
  PROVE  \E c \in CallRow : call' = [call EXCEPT ![h] = c] /\ c.pc = call[h].pc /\ c.gen = call[h].gen /\ c.io = io
<1>1. call[h] \in CallRow BY TypingIs DEF Inv, Typing
<1> DEFINE c == [call[h] EXCEPT !.io = io]
<1>2. c \in CallRow /\ c.pc = call[h].pc /\ c.gen = call[h].gen /\ c.io = io BY <1>1 DEF CallRow
<1>3. call' = [call EXCEPT ![h] = c] OBVIOUS
<1> HIDE DEF c
<1> QED BY <1>2, <1>3

LEMMA CallsKept ==
  ASSUME Inv, NEW h \in Host,
         AuthorizeCall(h) \/ EnterCall(h) \/ RunTool(h) \/ RefuseCall(h) \/ StartIo(h) \/ SettleCall(h) \/ FinishCall(h)
  PROVE  Inv'
<1>1. Typing /\ Local(h) BY TypingIs DEF Inv
<1>2. call \in [Host -> CallRow] /\ call[h] \in CallRow BY <1>1 DEF Typing
<1>3. call[h].io => call[h].pc \in {"running", "settled"} BY <1>1 DEF Local, CallRight
<1>4. call[h].pc \in {"running", "settled"} => Holds(h, "call") /\ inst.gen = call[h].gen /\ inst.state # "sealed"
  BY <1>1 DEF Local, CallRight
<1>5. CASE AuthorizeCall(h)
  <2>1. Hosts(h) /\ call' = [call EXCEPT ![h] = [NoCall EXCEPT !.pc = "authorized", !.gen = inst.gen]]
        /\ UNCHANGED <<callOnly, gate>>
    BY <1>5 DEF AuthorizeCall, Verifies
  <2>2. inst.gen \in Generation \cup {0} BY <1>1 DEF Typing, Instance
  <2>3. [NoCall EXCEPT !.pc = "authorized", !.gen = inst.gen] \in CallRow
        /\ ~[NoCall EXCEPT !.pc = "authorized", !.gen = inst.gen].io
        /\ [NoCall EXCEPT !.pc = "authorized", !.gen = inst.gen].pc = "authorized"
    BY <2>2 DEF NoCall, CallRow, CallPC
  <2> QED BY <2>1, <2>3, CallMoves
<1>6. CASE EnterCall(h)
  <2>1. call[h].pc = "authorized" /\ call' = [call EXCEPT ![h].pc = "queued"] /\ EnterGate(h, "call") /\ UNCHANGED callOnly
    BY <1>6 DEF EnterCall
  <2>2. "queued" \in CallPC /\ "call" \in Who BY DEF CallPC, Who
  <2>3. /\ call' \in [Host -> CallRow] /\ call'[h].pc = "queued" /\ call'[h].gen = call[h].gen /\ ~call'[h].io
        /\ \A x \in Host \ {h} : call'[x] = call[x]
    <3>1. PICK c \in CallRow : call' = [call EXCEPT ![h] = c] /\ c.pc = "queued" /\ c.gen = call[h].gen /\ c.io = call[h].io
      BY <2>1, <2>2, CallPcIs
    <3> QED BY <1>2, <1>3, <2>1, <3>1
  <2>4. gate' \in [Host -> Seq(Who)] /\ \A x \in Host \ {h} : gate'[x] = gate[x] BY <2>1, <2>2, EnterTyped
  <2>5. gate[h] \in Seq(Who) /\ gate'[h] = Append(gate[h], "call") BY <1>1, <2>1 DEF Typing, EnterGate
  <2>6. /\ op[h].pc \in InGate => Holds(h, "op")'
        /\ OneSeal(gate'[h])
        /\ HasSeal(gate'[h]) => HasSeal(gate[h])
    BY <1>1, <2>2, <2>5, EnterFacts DEF Holds, Local, GateRight
  <2> QED BY <2>1, <2>3, <2>4, <2>6, CallAlone
<1>7. CASE RunTool(h)
  <2>1. call[h].pc = "queued" /\ Holds(h, "call") /\ Current(h) /\ call' = [call EXCEPT ![h].pc = "running"]
        /\ UNCHANGED <<callOnly, gate>>
    BY <1>7 DEF RunTool
  <2>2. PICK c \in CallRow : call' = [call EXCEPT ![h] = c] /\ c.pc = "running" /\ c.gen = call[h].gen /\ c.io = call[h].io
    <3>1. "running" \in CallPC BY DEF CallPC
    <3> QED BY <2>1, <3>1, CallPcIs
  <2> QED BY <1>3, <2>1, <2>2, CallMoves DEF Current
<1>8. CASE RefuseCall(h) BY <1>8, CallLeaves DEF RefuseCall
<1>9. CASE StartIo(h)
  <2>1. call[h].pc = "running" /\ call' = [call EXCEPT ![h].io = TRUE] /\ UNCHANGED <<callOnly, gate>> BY <1>9 DEF StartIo
  <2>2. PICK c \in CallRow : call' = [call EXCEPT ![h] = c] /\ c.pc = call[h].pc /\ c.gen = call[h].gen
    <3>1. \A io \in BOOLEAN : call' = [call EXCEPT ![h].io = io] =>
            \E c \in CallRow : call' = [call EXCEPT ![h] = c] /\ c.pc = call[h].pc /\ c.gen = call[h].gen
      BY CallIoIs
    <3> QED BY <2>1, <3>1
  <2> QED BY <1>4, <2>1, <2>2, CallMoves
<1>10. CASE SettleCall(h)
  <2>1. call[h].pc = "running" /\ call' = [call EXCEPT ![h].pc = "settled"] /\ UNCHANGED <<callOnly, gate>> BY <1>10 DEF SettleCall
  <2>2. PICK c \in CallRow : call' = [call EXCEPT ![h] = c] /\ c.pc = "settled" /\ c.gen = call[h].gen /\ c.io = call[h].io
    <3>1. "settled" \in CallPC BY DEF CallPC
    <3> QED BY <2>1, <3>1, CallPcIs
  <2> QED BY <1>4, <2>1, <2>2, CallMoves
<1>11. CASE FinishCall(h)
  <2>1. Holds(h, "call") BY <1>4, <1>11 DEF FinishCall
  <2> QED BY <1>11, <2>1, CallLeaves DEF FinishCall
<1> QED BY <1>5, <1>6, <1>7, <1>8, <1>9, <1>10, <1>11

\* A tool that runs is alone.
LEMMA RunsAlone ==
  ASSUME Inv, NEW h \in Host, call[h].pc \in {"running", "settled"}
  PROVE  /\ Owns(h) /\ Keeps(h) /\ status = "active"
         /\ inst.gen = call[h].gen /\ inst.state # "sealed"
         /\ \A x \in Host : op[x].pc \notin InGate
<1>1. TypeOK /\ \A x \in Host : Local(x) BY DEF Inv
<1>2. Holds(h, "call") /\ inst.gen = call[h].gen /\ inst.state # "sealed" /\ Keeps(h) BY <1>1 DEF Local, CallRight
<1>3. Owns(h) /\ status = "active" BY <1>1, <1>2, Keeping DEF Local, HostRight
<1>4. ASSUME NEW x \in Host, op[x].pc \in InGate PROVE FALSE
  <2>1. Holds(x, "op") /\ Owns(x) BY <1>4, AtGate
  <2>2. x = h BY <1>3, <2>1 DEF Owns
  <2> QED BY <1>2, <2>1, <2>2 DEF Holds
<1> QED BY <1>2, <1>3, <1>4

LEMMA PerformIoKept == ASSUME Inv, NEW h \in Host, PerformIo(h) PROVE Inv'
<1>1. Typing /\ Rows /\ \A x \in Host : Local(x) BY TypingIs DEF Inv
<1>2. /\ call[h].io /\ call' = [call EXCEPT ![h].io = FALSE] /\ data' \in Written \cup {data}
      /\ UNCHANGED <<ownership, appRow, inst, aside, app, closing, op, hosted, handles, gate>>
  BY DEF PerformIo
<1>3. UNCHANGED <<owner, lease, status, offer, inst, aside, app>> BY <1>2 DEF ownership, appRow
<1>4. \A x \in Host : op[x].pc \notin InGate
  <2>1. call[h].pc \in {"running", "settled"} BY <1>1, <1>2 DEF Local, CallRight
  <2> QED BY <2>1, RunsAlone
<1>5. /\ call' \in [Host -> CallRow] /\ \A x \in Host : call'[x].pc = call[x].pc /\ call'[x].gen = call[x].gen
                                                      /\ (call'[x].io => call[x].io)
  <2>1. call \in [Host -> CallRow] BY <1>1 DEF Typing
  <2>2. [call[h] EXCEPT !.io = FALSE] \in CallRow /\ ~[call[h] EXCEPT !.io = FALSE].io
        /\ [call[h] EXCEPT !.io = FALSE].pc = call[h].pc /\ [call[h] EXCEPT !.io = FALSE].gen = call[h].gen
    BY <2>1 DEF CallRow
  <2>3. call' = [call EXCEPT ![h] = [call[h] EXCEPT !.io = FALSE]] BY <1>2, <2>1
  <2> QED BY <2>1, <2>2, <2>3
<1>6. ASSUME NEW x \in Host PROVE Local(x)'
  <2>1. Share(x)' = Share(x) /\ (Keeps(x)' <=> Keeps(x)) /\ (Hosts(x)' <=> Hosts(x)) BY <1>2, <1>3 DEF Share, Keeps, Hosts
  <2>2. LeaseRight(x)' /\ HostRight(x)' BY <1>1, <1>2, <1>3, <2>1 DEF Local, LeaseRight, HostRight
  <2>3. OpRight(x)' BY <1>1, <1>2, <1>3, <2>1 DEF Local, OpRight
  <2>4. WorkRight(x)' BY <1>2, <1>4 DEF WorkRight, InGate, Started
  <2>5. GateRight(x)' BY <1>1, <1>2, <2>1 DEF Local, GateRight, Holds
  <2>6. CallRight(x)' BY <1>1, <1>2, <1>3, <1>5, <2>1 DEF Local, CallRight, Holds
  <2> QED BY <2>2, <2>3, <2>4, <2>5, <2>6 DEF Local
<1>7. Rows' BY <1>1, <1>3 DEF Rows
<1>8. data' \in Content BY <1>1, <1>2 DEF Typing, Content
<1>9. Typing' BY <1>1, <1>2, <1>3, <1>5, <1>8 DEF Typing
<1> QED BY <1>6, <1>7, <1>9, TypingIs DEF Inv

-----------------------------------------------------------------------------
(***************************************************************************)
(* The theorems.                                                           *)
(***************************************************************************)

LEMMA InitRight == Init => Inv
<1> SUFFICES ASSUME Init PROVE Inv OBVIOUS
<1>1. /\ owner = NoHost /\ lease = [h \in Host |-> NoLease] /\ status = "active" /\ offer = "none" /\ inst = NoInstance
      /\ data = "absent" /\ aside = FALSE /\ app = [g \in Generation |-> "none"]
      /\ closing = {} /\ op = [h \in Host |-> NoOp] /\ hosted = [h \in Host |-> NotHosted]
      /\ handles = [h \in Host |-> {}] /\ gate = [h \in Host |-> << >>] /\ call = [h \in Host |-> NoCall]
  BY DEF Init, RegistryInit
<1>2. Typing
  <2>1. NoOp \in OpRow BY DEF NoOp, OpRow, Owner, Kind, OpPC
  <2>2. NoLease \in Lease BY DEF NoLease, Lease
  <2>3. NotHosted \in Hosting BY DEF NotHosted, Hosting, Sealing
  <2>4. NoCall \in CallRow BY DEF NoCall, CallRow, CallPC
  <2>5. << >> \in Seq(Who) OBVIOUS
  <2>6. "absent" \in Content /\ "active" \in Status BY DEF Content, Status
  <2> QED BY <1>1, <2>1, <2>2, <2>3, <2>4, <2>5, <2>6, NoneTyped DEF Typing
<1>3. Rows BY <1>1 DEF Rows
<1>4. ASSUME NEW h \in Host PROVE Local(h)
  <2>1. /\ lease[h].holders = 0 /\ ~lease[h].current /\ op[h].pc = "idle" /\ hosted[h] = NotHosted /\ gate[h] = << >>
        /\ call[h].pc = "idle" /\ call[h].gen = 0 /\ ~call[h].io
    BY <1>1 DEF NoLease, NoOp, NoCall
  <2>2. Share(h) = 0 /\ ~Keeps(h) /\ ~Hosts(h) BY <2>1 DEF Share, InGate, Keeps, Hosts, NotHosted
  <2>3. LeaseRight(h) BY <2>1, <2>2 DEF LeaseRight
  <2>4. HostRight(h) BY <1>1, <2>1, <2>2, NoneTyped DEF HostRight
  <2>5. OpRight(h) /\ WorkRight(h) BY <2>1 DEF OpRight, WorkRight, Started, Deciding, InGate
  <2>6. GateRight(h) BY <2>1 DEF GateRight, HasSeal, OneSeal, InGate
  <2>7. CallRight(h) BY <1>1, <2>1, NoneTyped DEF CallRight
  <2> QED BY <2>3, <2>4, <2>5, <2>6, <2>7 DEF Local
<1> QED BY <1>2, <1>3, <1>4, TypingIs DEF Inv

LEMMA StepKept == ASSUME Inv, NEW h \in Host, Step(h) PROVE Inv'
<1>1. CASE Seals(h) BY <1>1, SealInGateKept, StopSealedKept, StopFailsKept DEF Seals
<1>2. CASE Acquires(h)
  BY <1>2, AwaitSealKept, ShareKept, ReadOwnerKept, TakeKept, NotTakenKept, ReconcileKept, RefusalsKept, SettleKept DEF Acquires
<1>3. CASE Starts(h)
  BY <1>3, LaunchKept, RefusalsKept, PrepareKept, SpawnKept, SpawnFailsKept, RegisterKept, AbandonStartKept DEF Starts
<1>4. CASE Decides(h)
  BY <1>4, RefusalsKept, DecisionsKept, DigestKept, CommitDeletingKept, MoveAsideKept, RemoveKept, FinishKept DEF Decides
<1>5. CASE Calls(h) BY <1>5, CallsKept, PerformIoKept DEF Calls
<1>6. CASE SeeExit(h) BY <1>6, EndHostedKept DEF SeeExit
<1> QED BY <1>1, <1>2, <1>3, <1>4, <1>5, <1>6 DEF Step

LEMMA AskedKept == ASSUME Inv, NEW h \in Host, Asked(h) PROVE Inv'
<1>1. CASE AskToEnd(h, "stop") \/ AskToEnd(h, "decision") BY <1>1, EndHostedKept DEF AskToEnd
<1>2. CASE OpThrows(h) BY <1>2, RefusalsKept
<1>3. CASE AuthorizeCall(h) \/ StartIo(h) BY <1>3, CallsKept
<1> QED BY <1>1, <1>2, <1>3, AskKept, SealsAskedKept, SealWaitsKept, BeginCloseKept, CloseStopKept, ProcessEndsKept DEF Asked

LEMMA StutterKept == ASSUME Inv, UNCHANGED vars PROVE Inv'
<1>1. UNCHANGED <<ownership, appRow, inst, directories, closing, op, hosted, gate, call, app, handles>>
  BY DEF vars, registry, process
<1>2. Typing BY TypingIs DEF Inv
<1> QED BY <1>1, <1>2, AppsEnd DEF Typing

LEMMA NextKept == Inv /\ [Next]_vars => Inv'
<1> SUFFICES ASSUME Inv, [Next]_vars PROVE Inv' OBVIOUS
<1>1. CASE UNCHANGED vars BY <1>1, StutterKept
<1>2. ASSUME NEW h \in Host, Step(h) PROVE Inv' BY <1>2, StepKept
<1>3. ASSUME NEW h \in Host, Asked(h) PROVE Inv' BY <1>3, AskedKept
<1>4. ASSUME NEW g \in Generation, OrphanEnds(g) \/ AppExits(g) PROVE Inv' BY <1>4, ExitsKept
<1>5. CASE EditData BY <1>5, EditKept
<1> QED BY <1>1, <1>2, <1>3, <1>4, <1>5 DEF Next

\* Inv holds in every reachable state.
THEOREM Invariance == Spec => []Inv
BY InitRight, NextKept, PTL DEF Spec

\* The variables of an app and its hosts keep their types; in particular a host
\* shares its lease at most twice (owner-lease.js).
THEOREM TypeCorrect == Spec => []TypeOK
<1>1. Inv => TypeOK BY DEF Inv
<1> QED BY <1>1, Invariance, PTL

\* Whoever works on the app, hosts its instance or runs its tool is its owner:
\* no two hosts do at once (takeLease, assertOwned).
THEOREM OnlyTheOwnerWorks == Spec => []WorkersOwn
<1>1. Inv => WorkersOwn
  <2> SUFFICES ASSUME Inv, NEW h \in Host,
                      op[h].pc \in InGate \/ Hosts(h) \/ call[h].pc \in {"running", "settled"}
               PROVE  Owns(h)
    BY DEF WorkersOwn
  <2> QED BY AtGate, AtHosted, RunsAlone
<1> QED BY <1>1, Invariance, PTL

\* A write tool runs for the current instance of an active app, and beside no
\* operation of any host (runWrite, finishSeal).
THEOREM ToolsRunAlone == Spec => []ToolRunsAlone
<1>1. Inv => ToolRunsAlone BY RunsAlone DEF ToolRunsAlone
<1> QED BY <1>1, Invariance, PTL

\* No instance is called ended while its recorded process runs (reconcile, stopOrphan).
THEOREM EndedIsStopped == Spec => []RecordedIsCurrent
<1>1. Inv => RecordedIsCurrent BY DEF Inv, Rows, RecordedIsCurrent
<1> QED BY <1>1, Invariance, PTL

\* A deletion is reported once everything of it is done (finish, settle).
THEOREM Erased == Spec => []DeletedIsErased
<1>1. Inv => DeletedIsErased BY DEF Inv, Rows, DeletedIsErased, Unfinished
<1> QED BY <1>1, Invariance, PTL

\* The status comes to say that data is being deleted by one action only, and
\* the data is gone by one only; besides that move, a start, a write and a
\* person change it.
LEMMA Deletes ==
  ASSUME Typing, [Next]_vars
  PROVE  /\ status # "data_deleting" /\ status' = "data_deleting" => \E h \in Host : CommitDeleting(h)
         /\ data # "absent" /\ data' = "absent" => \E h \in Host : MoveDataAside(h)
         /\ data' # data => EditData \/ \E h \in Host : PrepareData(h) \/ PerformIo(h) \/ MoveDataAside(h)
<1>1. "absent" \notin Written BY AppRegistryAssumption
<1>2. CASE UNCHANGED vars BY <1>2 DEF vars, registry, appRow, directories
<1>3. ASSUME NEW h \in Host, Seals(h) PROVE UNCHANGED <<status, data>>
  BY <1>3 DEF Seals, SealInGate, StopSealed, StopFails, registry, appRow, directories
<1>4. ASSUME NEW h \in Host, Acquires(h) PROVE data' = data /\ (status' = "data_deleting" => status = "data_deleting")
  BY <1>4 DEF Acquires, AwaitSeal, ShareAcquire, ReadOwner, TakeLease, OwnerChanged, RefuseTakeover, Reconcile, RefuseOrphan,
              SettleDeletion, Settled, registry, appRow, directories
<1>5. ASSUME NEW h \in Host, Starts(h)
      PROVE  status' = status /\ (data' = "absent" => data = "absent") /\ (data' # data => PrepareData(h))
  BY <1>1, <1>5 DEF Starts, Launch, RefuseLaunch, PrepareData, Spawn, SpawnFails, Register, AbandonStart, appRow, directories
<1>6. ASSUME NEW h \in Host, Decides(h), ~CommitDeleting(h), ~MoveDataAside(h)
      PROVE  data' = data /\ (status' = "data_deleting" => status = "data_deleting")
  BY <1>6 DEF Decides, Nothing, Approve, Disable, DeleteCode, PrepareDataDeletion, DeleteData, Digest, StoreOffer, DataChanged,
              RemoveData, FinishDeletion, Decided, registry, appRow, directories
<1>7. ASSUME NEW h \in Host, CommitDeleting(h) \/ MoveDataAside(h)
      PROVE  /\ status # "data_deleting" /\ status' = "data_deleting" => CommitDeleting(h)
             /\ data # "absent" /\ data' = "absent" => MoveDataAside(h)
             /\ data' # data => MoveDataAside(h)
  BY <1>7 DEF CommitDeleting, MoveDataAside, appRow
<1>8. ASSUME NEW h \in Host, Calls(h) \/ AuthorizeCall(h) \/ StartIo(h)
      PROVE  status' = status /\ (data' = "absent" => data = "absent") /\ (data' # data => PerformIo(h))
  BY <1>1, <1>8 DEF Calls, EnterCall, RunTool, RefuseCall, PerformIo, SettleCall, FinishCall, AuthorizeCall, StartIo, callOnly,
                    registry, appRow, directories
<1>9. ASSUME NEW h \in Host, \E kind \in {"stop", "decision"} : EndHosted(h, kind) PROVE UNCHANGED <<status, data>>
  BY <1>9 DEF EndHosted, appRow, directories
<1>10. ASSUME NEW h \in Host, Asked(h), ~AuthorizeCall(h), ~StartIo(h) PROVE UNCHANGED <<status, data>>
  BY <1>9, <1>10 DEF Asked, AskStart, AskExport, AskToEnd, ViolationsSeal, SealWaits, OpThrows, BeginClose, CloseSeal, CloseStop,
                     ProcessEnds, registry, appRow, directories
<1>11. ASSUME NEW g \in Generation, OrphanEnds(g) \/ AppExits(g) PROVE UNCHANGED <<status, data>>
  BY <1>11 DEF OrphanEnds, AppExits, appRow, directories
<1>12. CASE EditData BY <1>1, <1>12 DEF EditData, appRow
<1>13. ASSUME NEW h \in Host, SeeExit(h) PROVE UNCHANGED <<status, data>> BY <1>9, <1>13 DEF SeeExit
<1> QED BY <1>2, <1>3, <1>4, <1>5, <1>6, <1>7, <1>8, <1>10, <1>11, <1>12, <1>13 DEF Next, Step

\* Between its digest and its move nobody but a person and the move changes
\* the data: a start and a write need what the deletion holds.
LEMMA Undisturbed ==
  ASSUME Inv, [Next]_vars, NEW h \in Host, op[h].pc \in {"confirm", "rename"}, data' # data
  PROVE  EditData \/ MoveDataAside(h)
<1>1. Typing /\ TypeOK /\ \A x \in Host : Local(x) BY TypingIs DEF Inv
<1>2. op[h].pc \in InGate BY DEF InGate
<1>3. Owns(h) BY <1>2, AtGate
<1>4. ASSUME NEW x \in Host, op[x].pc \in InGate PROVE x = h BY <1>3, <1>4, AtGate DEF Owns
<1>5. ASSUME NEW x \in Host, PrepareData(x) PROVE FALSE
  <2>1. op[x].pc = "prepare" BY <1>5 DEF PrepareData, At
  <2> QED BY <1>4, <2>1 DEF InGate
<1>6. ASSUME NEW x \in Host, PerformIo(x) PROVE FALSE
  <2>1. call[x].pc \in {"running", "settled"} BY <1>1, <1>6 DEF PerformIo, Local, CallRight
  <2> QED BY <1>2, <2>1, RunsAlone
<1>7. ASSUME NEW x \in Host, MoveDataAside(x) PROVE MoveDataAside(h)
  <2>1. op[x].pc \in InGate BY <1>7 DEF MoveDataAside, At, InGate
  <2> QED BY <1>4, <1>7, <2>1
<1> QED BY <1>1, <1>5, <1>6, <1>7, Deletes

\* A deletion is committed on the digest that was offered, and from then on only
\* a person's own edit or the move changes the data (deleteData, runWithPort).
THEOREM OnlyAgreed == Spec => OnlyAgreedDataIsDeleted
<1>1. ASSUME Inv, [Next]_vars
      PROVE  /\ status # "data_deleting" /\ status' = "data_deleting" =>
                   \E h \in Host : At(h, "confirm") /\ op[h].digest = offer
             /\ data # "absent" /\ data' = "absent" => \E h \in Host : At(h, "rename")
             /\ \A h \in Host : op[h].pc \in {"confirm", "rename"} /\ data' # data =>
                  EditData \/ (At(h, "rename") /\ data' = "absent")
  <2>1. Typing BY <1>1, TypingIs DEF Inv
  <2>2. \A h \in Host : CommitDeleting(h) => At(h, "confirm") /\ op[h].digest = offer BY DEF CommitDeleting
  <2>3. \A h \in Host : MoveDataAside(h) => At(h, "rename") /\ data' = "absent" BY DEF MoveDataAside
  <2> QED BY <1>1, <2>1, <2>2, <2>3, Deletes, Undisturbed
<1> QED BY <1>1, Invariance, PTL DEF Spec, OnlyAgreedDataIsDeleted
-----------------------------------------------------------------------------
(***************************************************************************)
(* The queue at the write gate.  It holds one entry for an operation that  *)
(* asked for the gate, one for a call that did and one for a seal that is  *)
(* asked for, and no other: nobody who left is waited for, and nobody who  *)
(* waits was forgotten.                                                    *)
(***************************************************************************)

Has(q, w) == \E i \in 1 .. Len(q) : q[i] = w
Once(q, w) == \A i, j \in 1 .. Len(q) : q[i] = w /\ q[j] = w => i = j

Inside(h) == op[h].pc \in InGate \cup {"queued"}
Calling(h) == call[h].pc \in {"queued", "running", "settled"}
Asking(h) == hosted[h].sealing = "asked"

QueueRight(h) ==
  /\ \A w \in Who : Once(gate[h], w)
  /\ Has(gate[h], "op") <=> Inside(h)
  /\ Has(gate[h], "call") <=> Calling(h)
  /\ Asking(h) => Has(gate[h], "seal")

Queued == \A h \in Host : QueueRight(h)

LEMMA Appended ==
  ASSUME NEW q \in Seq(Who), NEW w \in Who, ~Has(q, w), \A v \in Who : Once(q, v)
  PROVE  /\ \A v \in Who : Once(Append(q, w), v)
         /\ \A v \in Who : Has(Append(q, w), v) <=> Has(q, v) \/ v = w
<1> DEFINE r == Append(q, w)
<1>1. /\ Len(q) \in Nat /\ Len(r) = Len(q) + 1 /\ r[Len(q) + 1] = w
      /\ \A i \in 1 .. Len(q) : r[i] = q[i]
  OBVIOUS
<1> HIDE DEF r
<1>2. \A v \in Who : Once(r, v)
  <2> SUFFICES ASSUME NEW v \in Who, NEW i \in 1 .. Len(r), NEW j \in 1 .. Len(r), r[i] = v, r[j] = v PROVE i = j
    BY DEF Once
  <2>1. CASE v = w BY <1>1, <2>1 DEF Has
  <2>2. CASE v # w
    <3>1. i \in 1 .. Len(q) /\ j \in 1 .. Len(q) BY <1>1, <2>2
    <3> QED BY <1>1, <3>1 DEF Once
  <2> QED BY <2>1, <2>2
<1>3. \A v \in Who : Has(r, v) <=> Has(q, v) \/ v = w
  <2> SUFFICES ASSUME NEW v \in Who PROVE Has(r, v) <=> Has(q, v) \/ v = w OBVIOUS
  <2>1. Has(q, v) => Has(r, v) BY <1>1 DEF Has
  <2>2. v = w => Has(r, v) BY <1>1 DEF Has
  <2>3. ASSUME NEW i \in 1 .. Len(r), r[i] = v, v # w PROVE Has(q, v)
    <3>1. i \in 1 .. Len(q) BY <1>1, <2>3
    <3> QED BY <1>1, <2>3, <3>1 DEF Has
  <2> QED BY <2>1, <2>2, <2>3 DEF Has
<1> QED BY <1>2, <1>3 DEF r

LEMMA HeadLeft ==
  ASSUME NEW q \in Seq(Who), q # << >>, NEW w \in Who, Head(q) = w, \A v \in Who : Once(q, v)
  PROVE  /\ Tail(q) \in Seq(Who)
         /\ \A v \in Who : Once(Tail(q), v)
         /\ \A v \in Who : Has(Tail(q), v) <=> Has(q, v) /\ v # w
<1> DEFINE r == Tail(q)
<1>1. /\ Len(q) \in Nat \ {0} /\ r \in Seq(Who) /\ Len(r) = Len(q) - 1 /\ q[1] = w
      /\ \A i \in 1 .. Len(r) : r[i] = q[i + 1]
  OBVIOUS
<1> HIDE DEF r
<1>2. \A i \in 1 .. Len(r) : i + 1 \in 1 .. Len(q) /\ i + 1 # 1 BY <1>1
<1>3. \A v \in Who : Once(r, v)
  <2> SUFFICES ASSUME NEW v \in Who, NEW i \in 1 .. Len(r), NEW j \in 1 .. Len(r), r[i] = v, r[j] = v PROVE i = j
    BY DEF Once
  <2>1. i + 1 = j + 1 BY <1>1, <1>2 DEF Once
  <2> QED BY <2>1
<1>4. ASSUME NEW v \in Who, Has(r, v) PROVE Has(q, v) /\ v # w
  <2>1. PICK i \in 1 .. Len(r) : r[i] = v BY <1>4 DEF Has
  <2>2. i + 1 \in 1 .. Len(q) /\ q[i + 1] = v /\ i + 1 # 1 /\ 1 \in 1 .. Len(q) BY <1>1, <1>2, <2>1
  <2> QED BY <1>1, <2>2 DEF Has, Once
<1>5. ASSUME NEW v \in Who, Has(q, v), v # w PROVE Has(r, v)
  <2>1. PICK i \in 1 .. Len(q) : q[i] = v BY <1>5 DEF Has
  <2>2. i # 1 BY <1>1, <1>5, <2>1
  <2>3. i - 1 \in 1 .. Len(r) /\ r[i - 1] = v BY <1>1, <2>1, <2>2
  <2> QED BY <2>3 DEF Has
<1> QED BY <1>1, <1>3, <1>4, <1>5 DEF r

\* What a step may do to the queue of host x, and to those who are in it.
Quiet(x) ==
  /\ gate'[x] = gate[x]
  /\ (Inside(x)' <=> Inside(x)) /\ (Calling(x)' <=> Calling(x)) /\ (Asking(x)' => Asking(x))

Enters(x, w) ==
  /\ w \in Who /\ ~Has(gate[x], w) /\ gate'[x] = Append(gate[x], w)
  /\ Inside(x)' <=> Inside(x) \/ w = "op"
  /\ Calling(x)' <=> Calling(x) \/ w = "call"
  /\ Asking(x)' => Asking(x) \/ w = "seal"

Leaves(x, w) ==
  /\ w \in Who /\ Holds(x, w) /\ gate'[x] = Tail(gate[x])
  /\ Inside(x)' <=> Inside(x) /\ w # "op"
  /\ Calling(x)' <=> Calling(x) /\ w # "call"
  /\ Asking(x)' => Asking(x) /\ w # "seal"

Cleared(x) == gate'[x] = << >> /\ ~Inside(x)' /\ ~Calling(x)' /\ ~Asking(x)'

LEMMA QueueKept ==
  ASSUME TypeOK, NEW x \in Host, QueueRight(x),
         Quiet(x) \/ (\E w \in Who : Enters(x, w) \/ Leaves(x, w)) \/ Cleared(x)
  PROVE  QueueRight(x)'
<1>1. gate[x] \in Seq(Who) /\ {"op", "call", "seal"} \subseteq Who BY Typed DEF Who
<1>2. CASE Quiet(x) BY <1>2 DEF Quiet, QueueRight
<1>3. ASSUME NEW w \in Who, Enters(x, w) PROVE QueueRight(x)'
  <2>1. /\ \A v \in Who : Once(gate'[x], v)
        /\ \A v \in Who : Has(gate'[x], v) <=> Has(gate[x], v) \/ v = w
    BY <1>1, <1>3, Appended DEF Enters, QueueRight
  <2>2. /\ Has(gate'[x], "op") <=> Has(gate[x], "op") \/ w = "op"
        /\ Has(gate'[x], "call") <=> Has(gate[x], "call") \/ w = "call"
        /\ Has(gate'[x], "seal") <=> Has(gate[x], "seal") \/ w = "seal"
    BY <1>1, <2>1
  <2> QED BY <1>3, <2>1, <2>2, Zenon DEF Enters, QueueRight
<1>4. ASSUME NEW w \in Who, Leaves(x, w) PROVE QueueRight(x)'
  <2>0. gate[x] # << >> /\ Head(gate[x]) = w BY <1>4 DEF Leaves, Holds
  <2>1. /\ \A v \in Who : Once(gate'[x], v)
        /\ \A v \in Who : Has(gate'[x], v) <=> Has(gate[x], v) /\ v # w
    BY <1>1, <1>4, <2>0, HeadLeft DEF Leaves, QueueRight
  <2>2. /\ Has(gate'[x], "op") <=> Has(gate[x], "op") /\ w # "op"
        /\ Has(gate'[x], "call") <=> Has(gate[x], "call") /\ w # "call"
        /\ Has(gate'[x], "seal") <=> Has(gate[x], "seal") /\ w # "seal"
    BY <1>1, <2>1
  <2> QED BY <1>4, <2>1, <2>2, Zenon DEF Leaves, QueueRight
<1>5. CASE Cleared(x) BY <1>5 DEF Cleared, QueueRight, Once, Has
<1> QED BY <1>2, <1>3, <1>4, <1>5


\* One step of host h: it may do one of these at its own queue, and nothing at
\* that of another.
Queues(h) ==
  /\ \A x \in Host \ {h} : Quiet(x)
  /\ Quiet(h) \/ (\E w \in Who : Enters(h, w) \/ Leaves(h, w)) \/ Cleared(h)

LEMMA QueuesKept ==
  ASSUME TypeOK, Queued, NEW h \in Host, Queues(h)
  PROVE  Queued'
<1> SUFFICES ASSUME NEW x \in Host PROVE QueueRight(x)' BY DEF Queued
<1>1. QueueRight(x) BY DEF Queued
<1>2. CASE x = h BY <1>1, <1>2, QueueKept DEF Queues
<1>3. CASE x # h BY <1>1, <1>3, QueueKept DEF Queues
<1> QED BY <1>2, <1>3

\* Only the operation of h moves, and stays where it is with its gate.
OpMoves(h) ==
  /\ gate' = gate /\ call' = call /\ hosted' = hosted
  /\ \A x \in Host \ {h} : op'[x].pc = op[x].pc
  /\ op'[h].pc \in InGate \cup {"queued"} <=> op[h].pc \in InGate \cup {"queued"}

LEMMA OpQuiet == ASSUME NEW h \in Host, OpMoves(h) PROVE Queues(h)
BY DEF OpMoves, Queues, Quiet, Inside, Calling, Asking

\* Only the operation of h leaves its gate; what it hosts is not asked to seal.
OpLeaves(h) ==
  /\ gate' = [gate EXCEPT ![h] = Tail(@)] /\ call' = call
  /\ \A x \in Host \ {h} : op'[x].pc = op[x].pc /\ hosted'[x] = hosted[x]
  /\ op'[h].pc = "idle"
  /\ hosted'[h].sealing = hosted[h].sealing \/ hosted'[h].sealing = "no"
  /\ Holds(h, "op")

LEMMA OpOut == ASSUME Inv, NEW h \in Host, OpLeaves(h) PROVE Queues(h)
<1>1. gate'[h] = Tail(gate[h]) /\ \A x \in Host \ {h} : gate'[x] = gate[x]
  <2>1. gate \in [Host -> Seq(Who)] BY TypingIs DEF Inv, Typing
  <2> QED BY <2>1 DEF OpLeaves
<1>2. \A x \in Host \ {h} : Quiet(x) BY <1>1 DEF OpLeaves, Quiet, Inside, Calling, Asking
<1>3. Leaves(h, "op") BY <1>1 DEF OpLeaves, Leaves, Inside, Calling, Asking, InGate, Who
<1> QED BY <1>2, <1>3 DEF Queues, Who

LEMMA LeaveOut ==
  ASSUME Inv, NEW h \in Host, Leave(h), op[h].pc \in InGate \/ Holds(h, "op"), UNCHANGED <<hosted, call>>
  PROVE  Queues(h)
<1>1. EndOp(h) /\ gate' = [gate EXCEPT ![h] = Tail(@)] BY DEF Leave, LeaveGate
<1>2. op'[h].pc = "idle" /\ \A x \in Host \ {h} : op'[x] = op[x] BY <1>1, EndIs
<1>3. Holds(h, "op") BY AtGate
<1> QED BY <1>1, <1>2, <1>3, OpOut DEF OpLeaves

\* Somebody comes to the queue of h who is not in it.
LEMMA In ==
  ASSUME Inv, NEW h \in Host, NEW w \in Who, EnterGate(h, w), ~Has(gate[h], w),
         \A x \in Host \ {h} : op'[x].pc = op[x].pc /\ call'[x] = call[x] /\ hosted'[x] = hosted[x],
         Inside(h)' <=> Inside(h) \/ w = "op", Calling(h)' <=> Calling(h) \/ w = "call",
         Asking(h)' => Asking(h) \/ w = "seal"
  PROVE  Queues(h)
<1>1. gate'[h] = Append(gate[h], w) /\ \A x \in Host \ {h} : gate'[x] = gate[x]
  <2>1. gate \in [Host -> Seq(Who)] BY TypingIs DEF Inv, Typing
  <2> QED BY <2>1 DEF EnterGate
<1>2. \A x \in Host \ {h} : Quiet(x) BY <1>1 DEF Quiet, Inside, Calling, Asking
<1>3. Enters(h, w) BY <1>1 DEF Enters
<1> QED BY <1>2, <1>3 DEF Queues

\* The head of the queue of h leaves it, where it is not the operation.
LEMMA Out ==
  ASSUME Inv, NEW h \in Host, NEW w \in Who \ {"op"}, LeaveGate(h), Holds(h, w), op' = op,
         \A x \in Host \ {h} : call'[x] = call[x] /\ hosted'[x] = hosted[x],
         Calling(h)' <=> Calling(h) /\ w # "call", Asking(h)' => Asking(h) /\ w # "seal"
  PROVE  Queues(h)
<1>1. gate'[h] = Tail(gate[h]) /\ \A x \in Host \ {h} : gate'[x] = gate[x] BY LeaveTyped DEF Holds
<1>2. \A x \in Host \ {h} : Quiet(x) BY <1>1 DEF Quiet, Inside, Calling, Asking
<1>3. Leaves(h, w) BY <1>1 DEF Leaves, Inside
<1> QED BY <1>2, <1>3 DEF Queues

\* An operation moves on in the gate, or outside of it.
LEMMA GoneTo ==
  ASSUME Inv, NEW h \in Host, NEW pc \in OpPC, Goto(h, pc), UNCHANGED <<gate, hosted, call>>,
         pc \in InGate \cup {"queued"} <=> op[h].pc \in InGate \cup {"queued"}
  PROVE  Queues(h)
<1>1. op'[h].pc = pc /\ \A x \in Host \ {h} : op'[x] = op[x] BY Went DEF Inv
<1> QED BY <1>1, OpQuiet DEF OpMoves

LEMMA EndedTo ==
  ASSUME Inv, NEW h \in Host, EndOp(h), UNCHANGED <<gate, hosted, call>>, op[h].pc \notin InGate \cup {"queued"}
  PROVE  Queues(h)
<1>1. op'[h].pc = "idle" /\ \A x \in Host \ {h} : op'[x] = op[x] BY EndIs
<1> QED BY <1>1, OpQuiet DEF OpMoves, InGate

LEMMA BegunTo ==
  ASSUME Inv, NEW h \in Host, NEW kind \in Kind, NEW pc \in {"sealing", "acquire"}, Begin(h, kind, pc), Admitted(h),
         UNCHANGED <<gate, hosted, call>>
  PROVE  Queues(h)
<1>1. op'[h].pc = pc /\ \A x \in Host \ {h} : op'[x] = op[x] BY BeginIs DEF OpPC
<1> QED BY <1>1, OpQuiet DEF OpMoves, InGate, Admitted

LEMMA SealsQueue == ASSUME Inv, NEW h \in Host, Seals(h) PROVE Queues(h)
<1>1. "seal" \in Who \ {"op"} BY DEF Who
<1>2. hosted \in [Host -> Hosting] BY TypingIs DEF Inv, Typing
<1>3. ASSUME hosted' = Answered(h) PROVE ~Asking(h)' /\ \A x \in Host \ {h} : hosted'[x] = hosted[x]
  BY <1>2, <1>3 DEF Answered, Asking, Hosting
<1>4. CASE SealInGate(h)
  <2>1. CASE LeaveGate(h) /\ hosted' = Answered(h) BY <1>1, <1>3, <1>4, <2>1, Out DEF SealInGate, Calling
  <2>2. CASE UNCHANGED gate /\ hosted' = [hosted EXCEPT ![h].sealed = TRUE]
    <3>1. hosted'[h].sealing = hosted[h].sealing /\ \A x \in Host \ {h} : hosted'[x] = hosted[x]
      BY <1>2, <2>2 DEF Hosting
    <3>2. op' = op /\ call' = call BY <1>4 DEF SealInGate
    <3> QED BY <2>2, <3>1, <3>2 DEF Queues, Quiet, Inside, Calling, Asking
  <2> QED BY <1>4, <2>1, <2>2 DEF SealInGate
<1>5. CASE StopSealed(h)
  <2>1. ~Asking(h)' /\ \A x \in Host \ {h} : hosted'[x] = hosted[x]
    <3>1. CASE hosted' = Answered(h) BY <1>3, <3>1
    <3>2. CASE hosted' = [hosted EXCEPT ![h] = NotHosted] BY <1>2, <3>2 DEF NotHosted, Asking
    <3> QED BY <1>5, <3>1, <3>2 DEF StopSealed
  <2> QED BY <1>1, <1>5, <2>1, Out DEF StopSealed, Calling
<1>6. CASE StopFails(h)
  <2>1. ~Asking(h)' /\ \A x \in Host \ {h} : hosted'[x] = hosted[x]
    BY <1>2, <1>6 DEF StopFails, Asking, Hosting
  <2> QED BY <1>1, <1>6, <2>1, Out DEF StopFails, Calling
<1> QED BY <1>4, <1>5, <1>6 DEF Seals

LEMMA SealComes ==
  ASSUME Inv, NEW h \in Host, AskSeal(h), call' = call, Inside(h)' <=> Inside(h), \A x \in Host \ {h} : op'[x].pc = op[x].pc
  PROVE  Queues(h)
<1>1. EnterGate(h, "seal") /\ \A x \in Host \ {h} : hosted'[x] = hosted[x]
  <2>1. hosted \in [Host -> Hosting] BY TypingIs DEF Inv, Typing
  <2> QED BY <2>1 DEF AskSeal
<1>2. ~Has(gate[h], "seal") BY DEF Inv, Local, GateRight, AskSeal, HasSeal, Has
<1> QED BY <1>1, <1>2, In DEF Calling, Who

LEMMA EndHostedQueues ==
  ASSUME Inv, NEW h \in Host, NEW kind \in {"stop", "decision"}, Admitted(h), EndHosted(h, kind)
  PROVE  Queues(h)
<1>1. kind \in Kind /\ "decision" \in Kind BY DEF Kind
<1>2. PICK k \in Kind, pc \in {"sealing", "acquire"} : Begin(h, k, pc) BY <1>1 DEF EndHosted
<1>3. CASE UNCHANGED <<hosted, inst, gate>> BY <1>2, <1>3, BegunTo DEF EndHosted
<1>4. CASE AskSeal(h)
  <2>1. op'[h].pc = pc /\ \A x \in Host \ {h} : op'[x] = op[x] BY <1>2, BeginIs DEF OpPC
  <2>2. ~Inside(h) /\ ~Inside(h)' BY <2>1 DEF Inside, Admitted, InGate
  <2> QED BY <1>4, <2>1, <2>2, SealComes DEF EndHosted
<1> QED BY <1>3, <1>4 DEF EndHosted

LEMMA AcquiresQueue == ASSUME Inv, Queued, NEW h \in Host, Acquires(h) PROVE Queues(h)
<1>1. {"acquire", "take", "queued", "settle", "work"} \subseteq OpPC /\ {"settle", "work"} \subseteq InGate
      /\ {"acquire", "take", "sealing", "idle", "queued"} \cap InGate = {}
  BY DEF OpPC, InGate
<1>2. op \in [Host -> OpRow] BY TypingIs DEF Inv, Typing
<1>3. CASE AwaitSeal(h) BY <1>1, <1>3, EndedTo, GoneTo DEF AwaitSeal
<1>4. CASE ReadOwner(h)
  <2>1. op'[h].pc = "take" /\ \A x \in Host \ {h} : op'[x] = op[x] BY <1>2, <1>4 DEF ReadOwner, OpRow
  <2> QED BY <1>1, <1>4, <2>1, OpQuiet DEF ReadOwner, OpMoves
<1>5. CASE OwnerChanged(h) \/ RefuseTakeover(h)
  <2>1. CASE EndOp(h) BY <1>1, <1>5, <2>1, EndedTo DEF OwnerChanged, RefuseTakeover
  <2>2. CASE op' = [op EXCEPT ![h] = [NoOp EXCEPT !.kind = op[h].kind, !.pc = "acquire", !.again = TRUE]]
    <3>1. op'[h].pc = "acquire" /\ \A x \in Host \ {h} : op'[x] = op[x] BY <1>2, <2>2 DEF NoOp
    <3> QED BY <1>1, <1>5, <3>1, OpQuiet DEF OwnerChanged, RefuseTakeover, OpMoves
  <2> QED BY <1>5, <2>1, <2>2 DEF OwnerChanged, RefuseTakeover
<1>6. CASE Reconcile(h) BY <1>1, <1>6, GoneTo DEF Reconcile, At
<1>7. CASE SettleDeletion(h) BY <1>1, <1>7, GoneTo DEF SettleDeletion, At
<1>8. CASE RefuseOrphan(h) BY <1>8, LeaveOut DEF RefuseOrphan
<1>9. CASE ShareAcquire(h) \/ TakeLease(h)
  <2>1. op[h].pc \in {"acquire", "take"} /\ EnterGate(h, "op") /\ UNCHANGED <<hosted, call>>
    BY <1>9 DEF ShareAcquire, TakeLease, At
  <2>2. op'[h].pc = "queued" /\ \A x \in Host \ {h} : op'[x].pc = op[x].pc
    <3>1. CASE ShareAcquire(h) BY <1>1, <3>1, Went DEF ShareAcquire, Inv
    <3>2. CASE TakeLease(h)
      <4>1. op'[h] = [NoOp EXCEPT !.kind = op[h].kind, !.pc = "queued"]
            /\ \A x \in Host \ {h} : op'[x] = [op[x] EXCEPT !.same = FALSE]
        BY <3>2 DEF TakeLease
      <4>2. op'[h].pc = "queued" BY <4>1 DEF NoOp
      <4>3. \A r \in OpRow : [r EXCEPT !.same = FALSE].pc = r.pc BY DEF OpRow
      <4> QED BY <1>2, <4>1, <4>2, <4>3
    <3> QED BY <1>9, <3>1, <3>2
  <2>3. ~Inside(h) /\ Inside(h)' BY <1>1, <2>1, <2>2 DEF Inside
  <2>4. ~Has(gate[h], "op") BY <2>3 DEF Queued, QueueRight
  <2> QED BY <2>1, <2>2, <2>3, <2>4, In DEF Who, Calling, Asking
<1> QED BY <1>3, <1>4, <1>5, <1>6, <1>7, <1>8, <1>9 DEF Acquires

LEMMA StartsQueue == ASSUME Inv, NEW h \in Host, Starts(h) PROVE Queues(h)
<1>1. {"prepare", "spawn", "register", "work"} \subseteq InGate /\ InGate \subseteq OpPC BY DEF OpPC, InGate
<1>2. CASE Launch(h) BY <1>1, <1>2, GoneTo DEF Launch, Working, At
<1>3. CASE PrepareData(h) \/ Spawn(h) BY <1>1, <1>3, GoneTo DEF PrepareData, Spawn, At
<1>4. CASE RefuseLaunch(h) \/ SpawnFails(h) \/ AbandonStart(h)
  BY <1>1, <1>4, LeaveOut DEF RefuseLaunch, SpawnFails, AbandonStart, Working, At
<1>5. CASE Register(h)
  <2>1. hosted \in [Host -> Hosting] BY TypingIs DEF Inv, Typing
  <2>2. hosted'[h].sealing = "no" /\ \A x \in Host \ {h} : hosted'[x] = hosted[x] BY <1>5, <2>1 DEF Register, NotHosted
  <2>3. EndOp(h) /\ gate' = [gate EXCEPT ![h] = Tail(@)] /\ call' = call /\ op[h].pc = "register"
    BY <1>5 DEF Register, At, LeaveGate
  <2>4. op'[h].pc = "idle" /\ \A x \in Host \ {h} : op'[x] = op[x] BY <2>3, EndIs
  <2>5. Holds(h, "op") BY <1>1, <2>3, AtGate
  <2> QED BY <2>2, <2>3, <2>4, <2>5, OpOut DEF OpLeaves
<1> QED BY <1>2, <1>3, <1>4, <1>5 DEF Starts

LEMMA DecidesQueue == ASSUME Inv, NEW h \in Host, Decides(h) PROVE Queues(h)
<1>1. {"work", "offer", "confirm", "rename", "remove", "finish"} \subseteq InGate /\ InGate \subseteq OpPC BY DEF OpPC, InGate
<1>2. op \in [Host -> OpRow] BY TypingIs DEF Inv, Typing
<1>3. CASE Nothing(h) \/ Approve(h) \/ Disable(h) \/ DeleteCode(h) \/ StoreOffer(h) \/ DataChanged(h) \/ FinishDeletion(h)
  <2>1. op[h].pc \in {"work", "offer", "confirm", "finish"} /\ Leave(h) /\ UNCHANGED <<hosted, call>>
    BY <1>3 DEF Nothing, Approve, Disable, DeleteCode, StoreOffer, DataChanged, FinishDeletion, Decided, Working, At
  <2> QED BY <1>1, <2>1, LeaveOut
<1>4. CASE PrepareDataDeletion(h) \/ DeleteData(h)
  <2>1. PICK pc \in {"offer", "confirm"} : Digest(h, pc) BY <1>4 DEF PrepareDataDeletion, DeleteData
  <2>2. op' = [op EXCEPT ![h].pc = pc, ![h].digest = data] /\ op[h].pc = "work" /\ UNCHANGED <<gate, hosted, call>>
    BY <2>1 DEF Digest, Working, At
  <2>3. op'[h].pc = pc /\ \A x \in Host \ {h} : op'[x] = op[x] BY <1>2, <2>2 DEF OpRow
  <2> QED BY <1>1, <2>2, <2>3, OpQuiet DEF OpMoves
<1>5. CASE CommitDeleting(h) BY <1>1, <1>5, GoneTo DEF CommitDeleting, At
<1>6. CASE MoveDataAside(h)
  <2>1. op'[h].pc = "remove" /\ \A x \in Host \ {h} : op'[x] = op[x] BY <1>2, <1>6 DEF MoveDataAside, NoOp
  <2> QED BY <1>1, <1>6, <2>1, OpQuiet DEF MoveDataAside, At, OpMoves
<1>7. CASE RemoveData(h) BY <1>1, <1>7, GoneTo DEF RemoveData, At
<1> QED BY <1>3, <1>4, <1>5, <1>6, <1>7 DEF Decides

\* A call moves, and stays where it is with the gate.
LEMMA CallQuiet ==
  ASSUME NEW h \in Host, UNCHANGED <<op, hosted, gate>>, \A x \in Host \ {h} : call'[x] = call[x],
         Calling(h)' <=> Calling(h)
  PROVE  Queues(h)
BY DEF Queues, Quiet, Inside, Calling, Asking

LEMMA CallsQueue ==
  ASSUME Inv, Queued, NEW h \in Host, Calls(h) \/ AuthorizeCall(h) \/ StartIo(h)
  PROVE  Queues(h)
<1>1. call \in [Host -> CallRow] BY TypingIs DEF Inv, Typing
<1>2. CASE EnterCall(h)
  <2>1. call'[h].pc = "queued" /\ \A x \in Host \ {h} : call'[x] = call[x] BY <1>1, <1>2 DEF EnterCall, CallRow
  <2>2. ~Calling(h) /\ Calling(h)' /\ EnterGate(h, "call") /\ UNCHANGED <<op, hosted>> BY <1>2, <2>1 DEF EnterCall, Calling, callOnly
  <2>3. ~Has(gate[h], "call") BY <2>2 DEF Queued, QueueRight
  <2> QED BY <2>1, <2>2, <2>3, In DEF Who, Inside, Asking
<1>3. CASE RunTool(h) \/ SettleCall(h)
  <2>1. PICK pc \in {"running", "settled"} : call' = [call EXCEPT ![h].pc = pc] BY <1>3 DEF RunTool, SettleCall
  <2>2. call'[h].pc = pc /\ \A x \in Host \ {h} : call'[x] = call[x] BY <1>1, <2>1 DEF CallRow
  <2>3. Calling(h) /\ Calling(h)' /\ UNCHANGED <<op, hosted, gate>> BY <1>3, <2>2 DEF RunTool, SettleCall, Calling, callOnly
  <2> QED BY <2>2, <2>3, CallQuiet
<1>4. CASE RefuseCall(h) \/ FinishCall(h)
  <2>1. call'[h].pc = "idle" /\ \A x \in Host \ {h} : call'[x] = call[x] BY <1>1, <1>4 DEF RefuseCall, FinishCall, NoCall
  <2>2. LeaveGate(h) /\ UNCHANGED <<op, hosted>> /\ ~Calling(h)' /\ call[h].pc \in {"queued", "settled"}
    BY <1>4, <2>1 DEF RefuseCall, FinishCall, Calling, callOnly
  <2>3. Holds(h, "call") BY <1>4 DEF RefuseCall, FinishCall, Inv, Local, CallRight
  <2> QED BY <2>1, <2>2, <2>3, Out DEF Who, Asking
<1>5. CASE PerformIo(h) \/ StartIo(h)
  <2>1. PICK io \in BOOLEAN : call' = [call EXCEPT ![h].io = io] BY <1>5 DEF PerformIo, StartIo
  <2>2. call'[h].pc = call[h].pc /\ \A x \in Host \ {h} : call'[x] = call[x] BY <1>1, <2>1 DEF CallRow
  <2> QED BY <1>5, <2>2, CallQuiet DEF PerformIo, StartIo, Calling, callOnly
<1>6. CASE AuthorizeCall(h)
  <2>1. call' = [call EXCEPT ![h] = [NoCall EXCEPT !.pc = "authorized", !.gen = inst.gen]] /\ call[h].pc = "idle"
    BY <1>6 DEF AuthorizeCall
  <2>2. call'[h].pc = "authorized" /\ \A x \in Host \ {h} : call'[x] = call[x] BY <1>1, <2>1 DEF NoCall
  <2> QED BY <1>6, <2>1, <2>2, CallQuiet DEF AuthorizeCall, Calling, callOnly
<1> QED BY <1>2, <1>3, <1>4, <1>5, <1>6 DEF Calls

LEMMA ClosesQueue == ASSUME Inv, NEW h \in Host, BeginClose(h) \/ CloseStop(h) \/ SealWaits(h) PROVE Queues(h)
<1>1. hosted \in [Host -> Hosting] BY TypingIs DEF Inv, Typing
<1>2. UNCHANGED <<op, gate, call>> BY DEF BeginClose, CloseStop, SealWaits
<1>3. (Asking(h)' => Asking(h)) /\ \A x \in Host \ {h} : hosted'[x] = hosted[x]
  <2>1. CASE hosted' = hosted BY <2>1 DEF Asking
  <2>2. CASE hosted' = [hosted EXCEPT ![h] = NotHosted] BY <1>1, <2>2 DEF Asking, NotHosted
  <2>3. CASE hosted' = [hosted EXCEPT ![h].sealing = "answered"] BY <1>1, <2>3 DEF Asking, Hosting
  <2> QED BY <2>1, <2>2, <2>3 DEF BeginClose, CloseStop, SealWaits
<1> QED BY <1>2, <1>3 DEF Queues, Quiet, Inside, Calling, Asking

LEMMA EndsQueue == ASSUME Inv, NEW h \in Host, ProcessEnds(h) PROVE Queues(h)
<1>1. Typing BY TypingIs DEF Inv
<1>2. gate'[h] = << >> /\ call'[h] = NoCall /\ hosted'[h] = NotHosted
      /\ \A x \in Host \ {h} : gate'[x] = gate[x] /\ call'[x] = call[x] /\ hosted'[x] = hosted[x]
  BY <1>1 DEF ProcessEnds, Typing
<1>3. op'[h] = NoOp /\ \A x \in Host \ {h} : op'[x] = [op[x] EXCEPT !.seen = Renamed(@, h)] BY DEF ProcessEnds
<1>4. \A r \in OpRow : [r EXCEPT !.seen = Renamed(@, h)].pc = r.pc BY DEF OpRow
<1>5. \A x \in Host \ {h} : op'[x].pc = op[x].pc BY <1>1, <1>3, <1>4 DEF Typing
<1>6. Cleared(h) BY <1>2, <1>3 DEF Cleared, Inside, Calling, Asking, NoOp, NoCall, NotHosted, InGate
<1> QED BY <1>2, <1>5, <1>6 DEF Queues, Quiet, Inside, Calling, Asking

LEMMA AskedQueue == ASSUME Inv, Queued, NEW h \in Host, Asked(h) PROVE Queues(h)
<1>1. CASE AskStart(h) \/ AskExport(h)
  <2>1. PICK kind \in Kind : Begin(h, kind, "acquire") BY <1>1 DEF AskStart, AskExport, Kind
  <2> QED BY <1>1, <2>1, BegunTo DEF AskStart, AskExport
<1>2. CASE AskToEnd(h, "stop") \/ AskToEnd(h, "decision") BY <1>2, EndHostedQueues DEF AskToEnd
<1>3. CASE ViolationsSeal(h) \/ CloseSeal(h) BY <1>3, SealComes DEF ViolationsSeal, CloseSeal, Inside
<1>4. CASE OpThrows(h) BY <1>4, LeaveOut DEF OpThrows
<1> QED BY <1>1, <1>2, <1>3, <1>4, CallsQueue, ClosesQueue, EndsQueue DEF Asked

LEMMA StepQueues == ASSUME Inv, Queued, NEW h \in Host, Step(h) PROVE Queues(h)
<1>1. CASE SeeExit(h) BY <1>1, EndHostedQueues DEF SeeExit
<1> QED BY <1>1, SealsQueue, AcquiresQueue, StartsQueue, DecidesQueue, CallsQueue DEF Step

LEMMA InitQueued == Init => Queued
BY DEF Init, Queued, QueueRight, Inside, Calling, Asking, Has, Once, NoOp, NoCall, NotHosted, InGate

LEMMA NextQueued == Inv /\ Queued /\ [Next]_vars => Queued'
<1> SUFFICES ASSUME Inv, Queued, [Next]_vars PROVE Queued' OBVIOUS
<1>0. TypeOK BY DEF Inv
<1>1. ASSUME NEW h \in Host, Step(h) \/ Asked(h) PROVE Queued' BY <1>0, <1>1, StepQueues, AskedQueue, QueuesKept
<1>2. CASE UNCHANGED process
  <2>1. UNCHANGED <<op, hosted, gate, call>> BY <1>2 DEF process
  <2> QED BY <2>1 DEF Queued, QueueRight, Inside, Calling, Asking
<1> QED BY <1>1, <1>2 DEF Next, vars, OrphanEnds, AppExits, EditData

\* In the queue of a write gate stands whoever waits or works behind it, once,
\* and nobody else: an operation or a call that leaves on any path frees the
\* gate, and none is passed over (write-gate.js, operations.js, app-host.js).
THEOREM NobodyIsForgotten == Spec => []Queued
BY Invariance, InitQueued, NextQueued, PTL DEF Spec

\* Whenever an operation is under way or somebody is queued at a write gate, it
\* is somebody's turn there who can take it: the operation before its gate, or
\* the head of the queue, which still owns the app it works on.
THEOREM SomebodyHasTheTurn == Spec => [](\A h \in Host : Waiting(h) => HasTurn(h))
<1>1. Inv /\ Queued => \A h \in Host : Waiting(h) => HasTurn(h)
  <2> SUFFICES ASSUME Inv, Queued, NEW h \in Host, Waiting(h) PROVE HasTurn(h) OBVIOUS
  <2>1. TypeOK /\ Local(h) /\ gate[h] \in Seq(Who) /\ op[h].pc \in OpPC BY Typed DEF Inv
  <2>2. ASSUME gate[h] # << >> PROVE HasTurn(h)
    <3>1. Head(gate[h]) \in Who /\ Has(gate[h], Head(gate[h])) BY <2>1, <2>2 DEF Has
    <3>2. CASE Head(gate[h]) = "op"
      <4>1. op[h].pc \in InGate \cup {"queued"} BY <3>1, <3>2 DEF Queued, QueueRight, Inside
      <4>2. Owns(h) BY <2>1, <4>1, Sharing DEF Local
      <4> QED BY <2>2, <3>2, <4>1, <4>2 DEF HasTurn, Holds
    <3>3. CASE Head(gate[h]) = "seal"
      <4>1. Holds(h, "seal") BY <2>2, <3>3 DEF Holds
      <4> QED BY <4>1, AtSeal, AtHosted DEF HasTurn
    <3>4. CASE Head(gate[h]) = "call"
      <4>1. Calling(h) BY <3>1, <3>4 DEF Queued, QueueRight
      <4> QED BY <2>2, <3>4, <4>1 DEF HasTurn, Holds, Calling
    <3> QED BY <3>1, <3>2, <3>3, <3>4 DEF Who
  <2>3. ASSUME gate[h] = << >> PROVE HasTurn(h)
    <3>1. \A w \in Who : ~Has(gate[h], w) BY <2>3 DEF Has
    <3>2. ~Inside(h) /\ ~Asking(h) BY <3>1 DEF Queued, QueueRight, Who
    <3>3. op[h].pc \in {"sealing", "acquire", "take"} BY <2>1, <2>3, <3>2 DEF Waiting, Inside, OpPC
    <3> QED BY <3>2, <3>3 DEF HasTurn, Asking
  <2> QED BY <2>2, <2>3
<1> QED BY <1>1, Invariance, NobodyIsForgotten, PTL

==============================================================================
