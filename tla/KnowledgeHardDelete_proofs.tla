---------------------- MODULE KnowledgeHardDelete_proofs ----------------------
(***************************************************************************)
(* Proofs about KnowledgeHardDelete, for every set of items and flows and  *)
(* every number of operations and faults.                                  *)
(***************************************************************************)
EXTENDS KnowledgeHardDelete, WellFoundedInduction, TLAPS

-----------------------------------------------------------------------------
(***************************************************************************)
(* Numbers and sequences.                                                  *)
(***************************************************************************)

\* A non-empty set of naturals has a least element (library: < is well-founded).
LEMMA LeastExists ==
  ASSUME NEW S \in SUBSET Nat, S # {}
  PROVE  Least(S) \in S /\ \A n \in S : Least(S) <= n
<1> DEFINE R == OpToRel(<, Nat)
<1>1. IsWellFoundedOn(R, Nat) BY NatLessThanWellFounded
<1>2. \A x, y \in Nat : x < y => <<x, y>> \in R BY DEF OpToRel
<1> HIDE DEF R
<1>3. PICK m \in S : \A n \in S : ~ (<<n, m>> \in R) BY <1>1, WFMin
<1>4. \A n \in S : ~ (n < m) BY <1>2, <1>3
<1>5. \E k \in S : \A n \in S : k <= n BY <1>4, SMT
<1> QED BY <1>5, Zenon DEF Least

\* A bounded one has a greatest element: the complement to the bound has a least one.
LEMMA LastExists ==
  ASSUME NEW b \in Nat, NEW S \in SUBSET (1 .. b), S # {}
  PROVE  Last(S) \in S /\ \A n \in S : n <= Last(S)
<1> DEFINE T == {b - n : n \in S}
<1>1. T \in SUBSET Nat /\ T # {}
  <2>1. \A n \in S : n \in 1 .. b OBVIOUS
  <2>2. \A n \in 1 .. b : b - n \in Nat BY SMT
  <2>3. \A n \in S : b - n \in Nat BY <2>1, <2>2
  <2>4. \A n \in S : b - n \in T OBVIOUS
  <2> QED BY <2>3, <2>4
<1>2. Least(T) \in T /\ \A n \in T : Least(T) <= n
  <2> HIDE DEF T
  <2> QED BY <1>1, LeastExists
<1>3. PICK m \in S : Least(T) = b - m BY <1>2
<1>4. \A n \in S : b - m <= b - n BY <1>2, <1>3
<1>5. \A n \in S : n <= m BY <1>4, SMT
<1> QED BY <1>5, Zenon DEF Last

LEMMA FunctionIsSeq ==
  ASSUME NEW n \in Nat, NEW S, NEW g \in [1 .. n -> S]
  PROVE  g \in Seq(S) /\ Len(g) = n /\ DOMAIN g = 1 .. n
OBVIOUS

LEMMA SeqFacts ==
  ASSUME NEW S, NEW g \in Seq(S)
  PROVE  Len(g) \in Nat /\ DOMAIN g = 1 .. Len(g) /\ \A k \in 1 .. Len(g) : g[k] \in S
OBVIOUS

LEMMA OpFacts == MaxOps \in Nat /\ Op = 1 .. MaxOps /\ NoOp \notin Op /\ No \notin Op /\ No # NoOp
BY KnowledgeAssumption DEF Op, NoOp, No

-----------------------------------------------------------------------------
(***************************************************************************)
(* A call and the operators that move it.                                  *)
(***************************************************************************)

LEMMA IdleFields ==
  /\ Idle \in Call
  /\ Idle.pc = "idle" /\ Idle.mode = "page" /\ Idle.op = NoOp /\ Idle.known = <<>>
  /\ \A o \in Op : Idle.opened[o] = "none"
<1>1. <<>> \in Seq(Op \cup {NoOp, No}) OBVIOUS
<1> QED BY <1>1 DEF Idle, Call, Place

LEMMA TurnFields ==
  ASSUME NEW f \in Call, NEW pc \in Place, NEW o \in Op \cup {NoOp}
  PROVE  /\ Turn(f, pc, o) \in Call
         /\ Turn(f, pc, o).pc = pc /\ Turn(f, pc, o).op = o /\ Turn(f, pc, o).mode = f.mode
         /\ Turn(f, pc, o).opened = f.opened /\ Turn(f, pc, o).known = f.known /\ Turn(f, pc, o).at = f.at
BY DEF Turn, Call

LEMMA AdoptingFields ==
  ASSUME NEW f \in Call, NEW known \in Seq(Op \cup {NoOp, No}), NEW at \in Nat
  PROVE  /\ Adopting(f, known, at) \in Call
         /\ Adopting(f, known, at).pc = f.pc /\ Adopting(f, known, at).op = f.op /\ Adopting(f, known, at).mode = "adopt"
         /\ Adopting(f, known, at).opened = f.opened
         /\ Adopting(f, known, at).known = known /\ Adopting(f, known, at).at = at
BY DEF Adopting, Call

LEMMA AdoptingFromStart ==
  ASSUME NEW f \in Call, NEW known \in Seq(Op \cup {NoOp, No})
  PROVE  /\ Adopting(f, known, 0) \in Call
         /\ Adopting(f, known, 0).pc = f.pc /\ Adopting(f, known, 0).op = f.op /\ Adopting(f, known, 0).mode = "adopt"
         /\ Adopting(f, known, 0).opened = f.opened
         /\ Adopting(f, known, 0).known = known /\ Adopting(f, known, 0).at = 0
BY AdoptingFields

LEMMA ReconcilingFields ==
  ASSUME NEW f \in Call, NEW opened \in [Op -> {"none"} \cup OpenStates]
  PROVE  /\ Reconciling(f, opened) \in Call
         /\ Reconciling(f, opened).pc = f.pc /\ Reconciling(f, opened).op = f.op
         /\ Reconciling(f, opened).mode = "reconcile" /\ Reconciling(f, opened).opened = opened
BY DEF Reconciling, Call

-----------------------------------------------------------------------------
(***************************************************************************)
(* The inductive invariant.  What a call is about to do is right for the   *)
(* ledger L, its copy B, the outcomes and the deletions D of the state.    *)
(***************************************************************************)

\* The record of o names the deletion of its item.
Er(L, o) == L[o].found

Listed(L, i) == \E o \in Op : L[o].item = i /\ Er(L, o)

Backed(L, n, D) == n # No => n <= Len(D) /\ \A k \in 1 .. n : Listed(L, D[k])

\* An operation whose outcome a call awaits is recorded.
Ask(o, L) == L[o] # NoRecord

OpenedRight(f, L) ==
  \A o \in Op : /\ f.opened[o] = "pending" => Ask(o, L)
                /\ f.opened[o] = "graph_deleted" => Er(L, o)

\* What a call has taken in of the list it read.
KnownRight(f, L, D) ==
  /\ Len(f.known) <= Len(D)
  /\ \A k \in 1 .. Len(f.known) : /\ k < f.at \/ f.known[k] = No => Listed(L, D[k])
                                  /\ f.known[k] \in Op => Er(L, f.known[k]) /\ L[f.known[k]].item = D[k]

AdoptRight(f, L, D) ==
  /\ f.pc \in {"adopt", "clean", "mark"}
  /\ KnownRight(f, L, D)
  /\ f.pc \in {"adopt", "clean"} => f.at \in 1 .. Len(f.known)
  /\ f.pc = "adopt" => f.known[f.at] # No
  /\ f.pc = "clean" => L[f.op].item = D[f.at]
  /\ f.pc = "mark" => \A k \in 1 .. Len(f.known) : Listed(L, D[k])

Right(f, L, D) ==
  /\ f.pc = "settle" => f.op \in Op /\ Ask(f.op, L)
  /\ f.pc = "clean" => f.op \in Op /\ Er(L, f.op)
  /\ OpenedRight(f, L)
  /\ f.mode = "adopt" => AdoptRight(f, L, D)
  /\ f.pc \in {"adopt", "mark"} => f.mode = "adopt"

Truth ==
  \A o \in Op : ledger[o].state = "not_deleted" \/ backup.ledger[o].state = "not_deleted" => outcome[o] \in {"refused", "aborted"}

\* A record says that its item was deleted only when it names the deletion.
NamedIn(L) == \A o \in Op : L[o].state \in {"graph_deleted", "complete"} => Er(L, o)

Named == NamedIn(ledger) /\ NamedIn(backup.ledger)

Calls == \A c \in Flow : Right(flow[c], ledger, deletions)

Marks == Backed(ledger, mark, deletions) /\ Backed(backup.ledger, backup.mark, deletions)

Proven == proof # No => IF file THEN mark = proof ELSE proof = 0

Writing == tx # NoItem => \A o \in Op : ledger[o].item = tx => ledger[o].state # "complete"

Inv == TypeOK /\ Truth /\ Named /\ Calls /\ Marks /\ Proven /\ Writing

-----------------------------------------------------------------------------
(***************************************************************************)
(* Calls stay right while the ledger grows.                                *)
(***************************************************************************)

Grows(L, M, D, E) ==
  /\ \A o \in Op : Er(L, o) => Er(M, o) /\ M[o].item = L[o].item
  /\ \A o \in Op : Ask(o, L) => Ask(o, M)
  /\ Len(D) <= Len(E) /\ \A k \in 1 .. Len(D) : E[k] = D[k]

LEMMA ListedStays ==
  ASSUME NEW L, NEW M, NEW i, \A o \in Op : Er(L, o) => Er(M, o) /\ M[o].item = L[o].item, Listed(L, i)
  PROVE  Listed(M, i)
BY DEF Listed

LEMMA RightStays ==
  ASSUME NEW f \in Call, NEW L, NEW M, NEW D \in Seq(Item), NEW E \in Seq(Item),
         Right(f, L, D), Grows(L, M, D, E)
  PROVE  Right(f, M, E)
<1>1. Len(D) \in Nat /\ Len(E) \in Nat /\ Len(f.known) \in Nat /\ f.at \in Nat /\ \A k \in 1 .. Len(f.known) : f.known[k] \in Op \cup {NoOp, No}
  BY SeqFacts DEF Call
<1>2. OpenedRight(f, M)
  BY DEF Right, OpenedRight, Grows
<1>3. ASSUME f.mode = "adopt" PROVE AdoptRight(f, M, E)
  <2>1. AdoptRight(f, L, D) BY <1>3 DEF Right
  <2>2. \A k \in 1 .. Len(f.known) : k \in 1 .. Len(D) /\ E[k] = D[k]
    BY <1>1, <2>1, SMT DEF AdoptRight, KnownRight, Grows
  <2>3. \A k \in 1 .. Len(f.known) : Listed(L, D[k]) => Listed(M, E[k])
    BY <2>2, ListedStays DEF Grows
  <2>4. Len(f.known) <= Len(E)
    BY <1>1, <2>1, SMT DEF AdoptRight, KnownRight, Grows
  <2>5. \A k \in 1 .. Len(f.known) : /\ k < f.at \/ f.known[k] = No => Listed(M, E[k])
                                     /\ f.known[k] \in Op => Er(M, f.known[k]) /\ M[f.known[k]].item = E[k]
    <3> TAKE k \in 1 .. Len(f.known)
    <3>1. /\ k < f.at \/ f.known[k] = No => Listed(L, D[k])
          /\ f.known[k] \in Op => Er(L, f.known[k]) /\ L[f.known[k]].item = D[k]
      <4>1. KnownRight(f, L, D) BY <2>1 DEF AdoptRight
      <4> QED BY <4>1, Zenon DEF KnownRight
    <3>2. E[k] = D[k] /\ (Listed(L, D[k]) => Listed(M, E[k])) BY <2>2, <2>3
    <3>3. f.known[k] \in Op => (Er(L, f.known[k]) => Er(M, f.known[k]) /\ M[f.known[k]].item = L[f.known[k]].item)
      BY DEF Grows
    <3> QED BY <3>1, <3>2, <3>3, Zenon
  <2>6. f.pc = "clean" => M[f.op].item = E[f.at]
    BY <2>1, <2>2 DEF AdoptRight, Right, Grows
  <2> QED BY <2>1, <2>3, <2>4, <2>5, <2>6 DEF AdoptRight, KnownRight
<1> QED BY <1>2, <1>3 DEF Right, Grows

-----------------------------------------------------------------------------
(***************************************************************************)
(* The steps between the work of a call: Onward, Advance and After.        *)
(***************************************************************************)

LEMMA IdleRight ==
  ASSUME NEW L, NEW D
  PROVE  Right(Idle, L, D)
BY IdleFields DEF Right, OpenedRight

LEMMA OnwardRight ==
  ASSUME NEW f \in Call, f.mode = "reconcile", NEW L, NEW D, OpenedRight(f, L)
  PROVE  Onward(f) \in Call /\ Right(Onward(f), L, D)
<1> DEFINE rest == {o \in Op : o > f.op /\ f.opened[o] # "none"}
           o == Least(rest)
           pc == IF f.opened[o] = "pending" THEN "settle" ELSE "clean"
<1>1. CASE rest = {}
  <2>1. Onward(f) = Turn(f, "list", NoOp) BY <1>1 DEF Onward
  <2>2. "list" \in Place /\ NoOp \in Op \cup {NoOp} BY DEF Place
  <2>3. /\ Turn(f, "list", NoOp) \in Call /\ Turn(f, "list", NoOp).pc = "list" /\ Turn(f, "list", NoOp).mode = f.mode
        /\ Turn(f, "list", NoOp).opened = f.opened
    BY <2>2, TurnFields, Zenon
  <2> QED BY <2>1, <2>3 DEF Right, OpenedRight
<1>2. CASE rest # {}
  <2>1. o \in Op /\ f.opened[o] # "none"
    <3>1. rest \in SUBSET Nat BY OpFacts, SMT
    <3>2. o \in rest BY <1>2, <3>1, LeastExists, Zenon
    <3> QED BY <3>2
  <2>2. f.opened[o] \in {"pending", "graph_deleted"} BY <2>1 DEF Call, OpenStates
  <2>3. Onward(f) = Turn(f, pc, o) BY <1>2, Zenon DEF Onward
  <2> HIDE DEF o
  <2>4. pc \in Place /\ o \in Op \cup {NoOp} BY <2>1 DEF Place
  <2>5. pc = "settle" => Ask(o, L) BY <2>1 DEF OpenedRight
  <2>6. pc = "clean" => Er(L, o) BY <2>1, <2>2 DEF OpenedRight
  <2>7. pc \in {"settle", "clean"} OBVIOUS
  <2> HIDE DEF pc
  <2>8. /\ Turn(f, pc, o) \in Call /\ Turn(f, pc, o).pc = pc /\ Turn(f, pc, o).op = o /\ Turn(f, pc, o).mode = f.mode
        /\ Turn(f, pc, o).opened = f.opened
    BY <2>4, TurnFields, Zenon
  <2> QED BY <2>1, <2>3, <2>5, <2>6, <2>7, <2>8 DEF Right, OpenedRight
<1> QED BY <1>1, <1>2

LEMMA AdvanceRight ==
  ASSUME NEW f \in Call, NEW L, NEW D \in Seq(Item),
         OpenedRight(f, L), Len(f.known) <= Len(D),
         \A k \in 1 .. Len(f.known) : k <= f.at \/ f.known[k] = No => Listed(L, D[k]),
         \A k \in 1 .. Len(f.known) : f.known[k] \in Op => Er(L, f.known[k]) /\ L[f.known[k]].item = D[k]
  PROVE  Advance(f) \in Call /\ Right(Advance(f), L, D)
<1> DEFINE n == Len(f.known)
           rest == {k \in DOMAIN f.known : k > f.at /\ f.known[k] # No}
           seen == [k \in DOMAIN f.known |-> IF k <= f.at THEN No ELSE f.known[k]]
           at == Least(rest)
<1>1. f.known \in Seq(Op \cup {NoOp, No}) /\ f.at \in Nat BY DEF Call
<1>2. n \in Nat /\ DOMAIN f.known = 1 .. n /\ \A k \in 1 .. n : f.known[k] \in Op \cup {NoOp, No} BY <1>1, SeqFacts
<1>3. seen \in [1 .. n -> Op \cup {NoOp, No}] BY <1>2
<1>4. seen \in Seq(Op \cup {NoOp, No}) /\ Len(seen) = n BY <1>2, <1>3, FunctionIsSeq
<1>5. \A k \in 1 .. n : seen[k] = IF k <= f.at THEN No ELSE f.known[k] BY <1>2
<1>6. rest \in SUBSET (1 .. n) /\ \A k \in 1 .. n : k \in rest <=> k > f.at /\ f.known[k] # No BY <1>2
<1>7. \A k \in 1 .. n : k \notin rest => Listed(L, D[k]) BY <1>1, <1>6, SMT
<1>8. \A k \in 1 .. n : seen[k] = No => Listed(L, D[k]) BY <1>5
<1>9. \A k \in 1 .. n : seen[k] \in Op => Er(L, seen[k]) /\ L[seen[k]].item = D[k] BY <1>5, OpFacts
<1>10. Advance(f) = IF rest = {} THEN Adopting(Turn(f, "mark", NoOp), seen, 0) ELSE Adopting(Turn(f, "adopt", NoOp), seen, at)
  BY Zenon DEF Advance
<1>11. rest # {} => at \in rest /\ \A k \in rest : at <= k
  <2>1. rest \in SUBSET Nat BY <1>2, <1>6, SMT
  <2> HIDE DEF rest
  <2> QED BY <2>1, LeastExists
<1>12. "mark" \in Place /\ "adopt" \in Place /\ 0 \in Nat /\ NoOp \in Op \cup {NoOp} BY DEF Place
<1> HIDE DEF rest, seen, at
<1>13. CASE rest = {}
  <2>1. Turn(f, "mark", NoOp) \in Call /\ Turn(f, "mark", NoOp).pc = "mark" /\ Turn(f, "mark", NoOp).opened = f.opened
    BY <1>12, TurnFields, Zenon
  <2> DEFINE t == Turn(f, "mark", NoOp)
             g == Adopting(t, seen, 0)
  <2> HIDE DEF t
  <2>2. g \in Call /\ g.pc = t.pc /\ g.mode = "adopt" /\ g.opened = t.opened /\ g.known = seen /\ g.at = 0
    <3>1. t \in Call BY <2>1 DEF t
    <3> QED BY <1>4, <3>1, AdoptingFromStart, Zenon
  <2>3. Advance(f) = g BY <1>10, <1>13 DEF t
  <2> HIDE DEF g
  <2>4. KnownRight(g, L, D) BY <1>4, <1>7, <1>8, <1>9, <1>13, <2>2 DEF KnownRight
  <2>5. AdoptRight(g, L, D) BY <1>4, <1>7, <1>13, <2>1, <2>2, <2>4 DEF AdoptRight, t
  <2>6. OpenedRight(g, L) BY <2>1, <2>2 DEF OpenedRight, t
  <2> QED BY <2>1, <2>2, <2>3, <2>5, <2>6 DEF Right, t
<1>14. CASE rest # {}
  <2>1. Turn(f, "adopt", NoOp) \in Call /\ Turn(f, "adopt", NoOp).pc = "adopt" /\ Turn(f, "adopt", NoOp).opened = f.opened
    BY <1>12, TurnFields, Zenon
  <2> DEFINE t == Turn(f, "adopt", NoOp)
             g == Adopting(t, seen, at)
  <2> HIDE DEF t
  <2>2. at \in 1 .. n /\ at \in Nat /\ at > f.at /\ f.known[at] # No BY <1>2, <1>6, <1>11, <1>14
  <2>3. g \in Call /\ g.pc = t.pc /\ g.mode = "adopt" /\ g.opened = t.opened /\ g.known = seen /\ g.at = at
    BY <2>1, <2>2, <1>4, AdoptingFields, Zenon DEF t
  <2>4. Advance(f) = g BY <1>10, <1>14 DEF t
  <2> HIDE DEF g
  <2>5. seen[at] # No BY <1>1, <1>5, <2>2, SMT
  <2>6. \A k \in 1 .. n : k < at => k \notin rest BY <1>2, <1>6, <1>11, <1>14, <2>2, SMT
  <2>7. KnownRight(g, L, D) BY <1>4, <1>7, <1>8, <1>9, <2>3, <2>6 DEF KnownRight
  <2>8. AdoptRight(g, L, D) BY <1>4, <2>1, <2>2, <2>3, <2>5, <2>7 DEF AdoptRight, t
  <2>9. OpenedRight(g, L) BY <2>1, <2>3 DEF OpenedRight, t
  <2> QED BY <2>1, <2>3, <2>4, <2>8, <2>9 DEF Right, t
<1> QED BY <1>13, <1>14

LEMMA AfterRight ==
  ASSUME NEW f \in Call, f.pc \in {"settle", "clean"}, NEW completed \in BOOLEAN,
         NEW L, NEW D \in Seq(Item), Right(f, L, D)
  PROVE  After(f, completed) \in Call /\ Right(After(f, completed), L, D)
<1>1. OpenedRight(f, L) BY DEF Right
<1>2. f.mode \in {"page", "reconcile", "adopt"} /\ f.at \in Nat /\ f.op \in Op \cup {NoOp} BY DEF Call
<1>3. CASE f.mode = "adopt"
  <2>1. AdoptRight(f, L, D) /\ f.pc = "clean" BY <1>3 DEF Right, AdoptRight
  <2>2. KnownRight(f, L, D) /\ f.at \in 1 .. Len(f.known) /\ L[f.op].item = D[f.at] /\ Er(L, f.op) /\ f.op \in Op
    BY <2>1 DEF AdoptRight, Right
  <2>3. Listed(L, D[f.at]) BY <2>2 DEF Listed
  <2>4. Len(f.known) <= Len(D) BY <2>2 DEF KnownRight
  <2>5. \A k \in 1 .. Len(f.known) : k < f.at \/ f.known[k] = No => Listed(L, D[k]) BY <2>2, Zenon DEF KnownRight
  <2>6. \A k \in 1 .. Len(f.known) : k <= f.at => k < f.at \/ k = f.at BY <1>2, SMT
  <2>7. \A k \in 1 .. Len(f.known) : k <= f.at \/ f.known[k] = No => Listed(L, D[k]) BY <2>3, <2>5, <2>6, Zenon
  <2>8. \A k \in 1 .. Len(f.known) : f.known[k] \in Op => Er(L, f.known[k]) /\ L[f.known[k]].item = D[k]
    BY <2>2, Zenon DEF KnownRight
  <2>9. After(f, completed) = Advance(f) BY <1>3 DEF After
  <2> QED BY <1>1, <2>4, <2>7, <2>8, <2>9, AdvanceRight
<1>4. CASE f.mode = "reconcile"
  <2>1. After(f, completed) = Onward(f) BY <1>4 DEF After
  <2> QED BY <1>1, <1>4, <2>1, OnwardRight
<1>5. CASE f.mode = "page"
  <2>1. After(f, completed) = IF completed THEN Turn(f, "list", f.op) ELSE Idle BY <1>5 DEF After
  <2>2. "list" \in Place BY DEF Place
  <2>3. /\ Turn(f, "list", f.op) \in Call /\ Turn(f, "list", f.op).pc = "list" /\ Turn(f, "list", f.op).mode = f.mode
        /\ Turn(f, "list", f.op).opened = f.opened
    BY <1>2, <2>2, TurnFields, Zenon
  <2>4. Right(Turn(f, "list", f.op), L, D) BY <1>1, <1>5, <2>3 DEF Right, OpenedRight
  <2> QED BY <2>1, <2>3, <2>4, IdleFields, IdleRight
<1> QED BY <1>2, <1>3, <1>4, <1>5

-----------------------------------------------------------------------------
(***************************************************************************)
(* The kinds of steps: the graph decides, only a call moves, a record is   *)
(* written.                                                                *)
(***************************************************************************)

LEMMA LedgerFacts ==
  ASSUME TypeOK, NEW o \in Op
  PROVE  /\ ledger[o] = NoRecord \/ (ledger[o].item \in Item /\ ledger[o].state \in State \ {"none"})
         /\ ledger[o] = NoRecord => ledger[o].item = NoItem /\ ledger[o].state = "none"
BY DEF TypeOK, Entry, NoRecord

LEMMA GraphStep ==
  ASSUME Inv, deletions' \in Seq(Item), Len(deletions) <= Len(deletions'),
         \A k \in 1 .. Len(deletions) : deletions'[k] = deletions[k],
         outcome' \in [Op -> Outcome],
         \A o \in Op : \/ outcome'[o] = outcome[o]
                       \/ outcome[o] = "unknown" /\ outcome'[o] # "unknown",
         inflight' \in [Op -> Item \cup {NoItem}],
         UNCHANGED <<record, backup, store, proof, flow, faults>>
  PROVE  Inv'
<1>1. UNCHANGED <<ledger, mark, file, backup, words, tx, proof, flow, faults>> BY DEF record, store
<1>2. TypeOK' BY <1>1 DEF Inv, TypeOK
<1>3. Truth'
  <2>1. \A o \in Op : outcome[o] \in {"refused", "aborted"} => outcome'[o] = outcome[o] OBVIOUS
  <2> QED BY <1>1, <2>1, Zenon DEF Inv, Truth
<1>4. Named' BY <1>1 DEF Inv, Named
<1>5. Calls'
  <2>2. Grows(ledger, ledger, deletions, deletions') BY DEF Grows
  <2>3. deletions \in Seq(Item) /\ \A c \in Flow : flow[c] \in Call BY DEF Inv, TypeOK
  <2>4. ASSUME NEW c \in Flow PROVE Right(flow[c], ledger, deletions')
    <3>1. Right(flow[c], ledger, deletions) BY DEF Inv, Calls
    <3>2. flow[c] \in Call BY <2>3
    <3> QED BY <2>2, <2>3, <3>1, <3>2, RightStays, Zenon
  <2> QED BY <1>1, <2>4, Zenon DEF Calls
<1>6. Marks'
  <2>1. Len(deletions) \in Nat /\ Len(deletions') \in Nat BY SeqFacts DEF Inv, TypeOK
  <2>2. ASSUME NEW L, NEW n \in Nat \cup {No}, Backed(L, n, deletions) PROVE Backed(L, n, deletions')
    <3> SUFFICES ASSUME n # No PROVE n <= Len(deletions') /\ \A k \in 1 .. n : Listed(L, deletions'[k]) BY DEF Backed
    <3>1. n <= Len(deletions) /\ \A k \in 1 .. n : Listed(L, deletions[k]) BY <2>2 DEF Backed
    <3>2. n <= Len(deletions') /\ \A k \in 1 .. n : k \in 1 .. Len(deletions) BY <2>1, <3>1
    <3> QED BY <3>1, <3>2
  <2>3. mark \in Nat \cup {No} /\ backup.mark \in Nat \cup {No} BY DEF Inv, TypeOK
  <2>4. Backed(ledger, mark, deletions) /\ Backed(backup.ledger, backup.mark, deletions) BY DEF Inv, Marks
  <2>5. Backed(ledger, mark, deletions') BY <2>2, <2>3, <2>4
  <2>6. Backed(backup.ledger, backup.mark, deletions') BY <2>2, <2>3, <2>4
  <2> QED BY <1>1, <2>5, <2>6, Zenon DEF Marks
<1>7. Proven' /\ Writing' BY <1>1 DEF Inv, Proven, Writing
<1> QED BY <1>2, <1>3, <1>4, <1>5, <1>6, <1>7 DEF Inv

LEMMA FlowStep ==
  ASSUME Inv, NEW c \in Flow, NEW g \in Call, Right(g, ledger, deletions), Goes(c, g),
         faults' \in Nat, UNCHANGED <<graph, record, backup, store, proof>>
  PROVE  Inv'
<1>1. UNCHANGED <<deletions, outcome, inflight, ledger, mark, file, backup, words, tx, proof>> BY DEF graph, record, store
<1>2. flow \in [Flow -> Call] BY DEF Inv, TypeOK
<1>3. flow' \in [Flow -> Call] /\ flow'[c] = g /\ \A d \in Flow : d # c => flow'[d] = flow[d] BY <1>2 DEF Goes
<1>4. TypeOK' BY <1>1, <1>3 DEF Inv, TypeOK
<1>5. Calls' BY <1>1, <1>3, Zenon DEF Inv, Calls
<1>6. Truth' /\ Named' /\ Marks' /\ Proven' /\ Writing'
  BY <1>1 DEF Inv, Truth, Named, Marks, Proven, Writing
<1> QED BY <1>4, <1>5, <1>6 DEF Inv

LEMMA RecordGrows ==
  ASSUME NEW L \in [Op -> Entry], NEW o \in Op, NEW i \in Item, NEW state \in State \ {"none"},
         NEW D \in Seq(Item), Er(L, o) => L[o].item = i
  PROVE  LET M == [L EXCEPT ![o] = [state |-> state, item |-> i, found |-> L[o].found \/ state = "graph_deleted"]]
         IN /\ M \in [Op -> Entry] /\ M[o].state = state /\ M[o].item = i /\ M[o] # NoRecord
            /\ state = "graph_deleted" => Er(M, o)
            /\ \A p \in Op : p # o => M[p] = L[p]
            /\ \A p \in Op : Er(L, p) => Er(M, p) /\ M[p].item = L[p].item
            /\ Grows(L, M, D, D)
<1> DEFINE new == [state |-> state, item |-> i, found |-> L[o].found \/ state = "graph_deleted"]
           M == [L EXCEPT ![o] = new]
<1>2. new \in Entry /\ new.state = state /\ new.item = i /\ (L[o].found \/ state = "graph_deleted" => new.found)
  <2> DEFINE found == L[o].found \/ state = "graph_deleted"
  <2>1. found \in BOOLEAN OBVIOUS
  <2>2. new = [state |-> state, item |-> i, found |-> found] OBVIOUS
  <2> HIDE DEF new, found
  <2>3. new \in Entry /\ new.state = state /\ new.item = i /\ new.found = found BY <2>1, <2>2 DEF Entry
  <2> QED BY <2>3 DEF found
<1> HIDE DEF new
<1>3. M \in [Op -> Entry] /\ M[o] = new /\ \A p \in Op : p # o => M[p] = L[p] BY <1>2
<1>4. M[o] # NoRecord BY <1>2, <1>3 DEF NoRecord
<1> HIDE DEF M
<1>5. \A p \in Op : Er(L, p) => Er(M, p) /\ M[p].item = L[p].item BY <1>2, <1>3 DEF Er
<1>6. \A p \in Op : Ask(p, L) => Ask(p, M) BY <1>3, <1>4 DEF Ask
<1>7. Len(D) <= Len(D) BY SeqFacts
<1>8. state = "graph_deleted" => Er(M, o) BY <1>2, <1>3 DEF Er
<1> QED BY <1>2, <1>3, <1>4, <1>5, <1>6, <1>7, <1>8 DEF M, new, Grows

\* What a record of operation o may say.
MayRecord(o, i, state) ==
  /\ Er(ledger, o) => ledger[o].item = i
  /\ state = "not_deleted" => outcome[o] \in {"refused", "aborted"}
  /\ state = "complete" => tx = NoItem /\ Er(ledger, o)

LEMMA RecordFacts ==
  ASSUME Inv, NEW o \in Op, NEW i \in Item, NEW state \in State \ {"none"}, MayRecord(o, i, state), Record(o, i, state)
  PROVE  /\ ledger' \in [Op -> Entry] /\ ledger'[o].state = state /\ ledger'[o].item = i /\ ledger'[o] # NoRecord
         /\ state = "graph_deleted" => Er(ledger', o)
         /\ \A p \in Op : p # o => ledger'[p] = ledger[p]
         /\ \A p \in Op : Er(ledger, p) => Er(ledger', p) /\ ledger'[p].item = ledger[p].item
         /\ Grows(ledger, ledger', deletions, deletions)
<1>1. ledger \in [Op -> Entry] /\ deletions \in Seq(Item) BY DEF Inv, TypeOK
<1> DEFINE M == [ledger EXCEPT ![o] = [state |-> state, item |-> i, found |-> ledger[o].found \/ state = "graph_deleted"]]
<1>2. Er(ledger, o) => ledger[o].item = i BY DEF MayRecord
<1>3. /\ M \in [Op -> Entry] /\ M[o].state = state /\ M[o].item = i /\ M[o] # NoRecord
      /\ state = "graph_deleted" => Er(M, o)
      /\ \A p \in Op : p # o => M[p] = ledger[p]
      /\ \A p \in Op : Er(ledger, p) => Er(M, p) /\ M[p].item = ledger[p].item
      /\ Grows(ledger, M, deletions, deletions)
  BY <1>1, <1>2, RecordGrows, Zenon
<1>4. ledger' = M BY DEF Record
<1> HIDE DEF M
<1> QED BY <1>3, <1>4, Zenon

\* A call stays right while a record is written.
LEMMA RecordKeeps ==
  ASSUME Inv, NEW o \in Op, NEW i \in Item, NEW state \in State \ {"none"}, MayRecord(o, i, state), Record(o, i, state),
         NEW c \in Flow
  PROVE  Right(flow[c], ledger', deletions)
<1>1. Grows(ledger, ledger', deletions, deletions) BY RecordFacts
<1>2. deletions \in Seq(Item) /\ flow[c] \in Call BY DEF Inv, TypeOK
<1>3. Right(flow[c], ledger, deletions) BY DEF Inv, Calls
<1> QED BY <1>1, <1>2, <1>3, RightStays, Zenon

LEMMA RecordStep ==
  ASSUME Inv, NEW o \in Op, NEW i \in Item, NEW state \in State \ {"none"}, MayRecord(o, i, state), Record(o, i, state),
         NEW c \in Flow, NEW g \in Call, Right(g, ledger', deletions), Goes(c, g),
         UNCHANGED <<deletions, outcome, backup, tx>>, words' \subseteq Item, faults' \in Nat,
         inflight' \in [Op -> Item \cup {NoItem}]
  PROVE  Inv'
<1>1. /\ ledger' \in [Op -> Entry] /\ ledger'[o].state = state /\ ledger'[o].item = i
      /\ state = "graph_deleted" => Er(ledger', o)
      /\ \A p \in Op : p # o => ledger'[p] = ledger[p]
      /\ \A p \in Op : Er(ledger, p) => Er(ledger', p) /\ ledger'[p].item = ledger[p].item
  BY RecordFacts
<1>2. mark' = mark /\ file' = TRUE /\ proof' = No BY DEF Record, Stamped
<1>3. flow' \in [Flow -> Call] /\ flow'[c] = g /\ \A d \in Flow : d # c => flow'[d] = flow[d] BY DEF Goes, Inv, TypeOK
<1>4. TypeOK' BY <1>1, <1>2, <1>3 DEF Inv, TypeOK
<1>5. Truth'
  <2>1. ASSUME NEW p \in Op, p # o
        PROVE  ledger'[p].state = "not_deleted" \/ backup.ledger[p].state = "not_deleted" => outcome[p] \in {"refused", "aborted"}
    BY <1>1, <2>1, Zenon DEF Inv, Truth
  <2>2. ledger'[o].state = "not_deleted" \/ backup.ledger[o].state = "not_deleted" => outcome[o] \in {"refused", "aborted"}
    BY <1>1 DEF Inv, Truth, MayRecord
  <2> QED BY <2>1, <2>2, Zenon DEF Truth
<1>6. Named'
  <2>1. ASSUME NEW p \in Op, ledger'[p].state \in {"graph_deleted", "complete"} PROVE Er(ledger', p)
    <3>1. CASE p # o BY <1>1, <2>1, <3>1 DEF Inv, Named, NamedIn
    <3>2. CASE p = o BY <1>1, <2>1, <3>2 DEF MayRecord
    <3> QED BY <3>1, <3>2
  <2> QED BY <2>1 DEF Inv, Named, NamedIn
<1>7. Calls'
  <2>1. ASSUME NEW d \in Flow PROVE Right(flow'[d], ledger', deletions)
    <3>1. Right(flow[d], ledger', deletions) BY RecordKeeps
    <3> QED BY <1>3, <3>1
  <2> QED BY <2>1, Zenon DEF Calls
<1>8. Marks'
  <2>1. \A j : Listed(ledger, j) => Listed(ledger', j) BY <1>1, ListedStays, Zenon
  <2>2. Backed(ledger, mark, deletions) /\ Backed(backup.ledger, backup.mark, deletions) BY DEF Inv, Marks
  <2>3. Backed(ledger', mark, deletions) BY <2>1, <2>2, Zenon DEF Backed
  <2> QED BY <1>2, <2>2, <2>3, Zenon DEF Marks
<1>9. Proven' BY <1>2 DEF Proven
<1>10. Writing'
  <2>1. ASSUME NEW p \in Op, tx # NoItem, ledger'[p].item = tx PROVE ledger'[p].state # "complete"
    <3>1. CASE p # o BY <1>1, <2>1, <3>1 DEF Inv, Writing
    <3>2. CASE p = o BY <1>1, <2>1, <3>2 DEF MayRecord
    <3> QED BY <3>1, <3>2
  <2> QED BY <2>1 DEF Writing
<1> QED BY <1>4, <1>5, <1>6, <1>7, <1>8, <1>9, <1>10 DEF Inv

LEMMA NewOpFacts ==
  ASSUME NEW o, NewOp(o)
  PROVE  /\ o \in Op /\ inflight[o] = NoItem /\ outcome[o] = "unknown"
         /\ ledger[o] = NoRecord
<1>1. o \in Free BY DEF NewOp
<1>2. o \in Op /\ inflight[o] = NoItem /\ outcome[o] = "unknown" /\ \A p \in Op : Kept(p) => p < o BY <1>1 DEF Free
<1>3. ~ (o < o) BY <1>2, OpFacts, SMT
<1> QED BY <1>2, <1>3 DEF Kept

LEMMA NoRecordErases == ASSUME NEW L, NEW o, L[o] = NoRecord PROVE ~Er(L, o)
BY DEF Er, NoRecord

LEMMA LastFacts ==
  ASSUME NEW S \in SUBSET Op, Last(S) # NoOp
  PROVE  Last(S) \in S
<1>1. S # {} BY DEF Last
<1>2. MaxOps \in Nat /\ S \in SUBSET (1 .. MaxOps) BY OpFacts
<1> QED BY <1>1, <1>2, LastExists

\* An operation that is no longer in the ledger, or not yet, may be recorded as begun or as deleted.
LEMMA NewMayRecord ==
  ASSUME NEW o, NewOp(o), NEW i, NEW state \in {"pending", "graph_deleted"}
  PROVE  MayRecord(o, i, state)
BY NewOpFacts, NoRecordErases DEF MayRecord

-----------------------------------------------------------------------------
(***************************************************************************)
(* One lemma for every action.                                             *)
(***************************************************************************)

LEMMA GraphDecidesStep == ASSUME Inv, NEW o \in Op, GraphDecides(o) PROVE Inv'
<1>1. /\ deletions \in Seq(Item) /\ outcome \in [Op -> Outcome] /\ inflight \in [Op -> Item \cup {NoItem}]
      /\ inflight[o] \in Item
  BY DEF GraphDecides, Inv, TypeOK
<1>2. inflight' = [inflight EXCEPT ![o] = NoItem] /\ UNCHANGED <<record, backup, store, proof, flow, faults>>
  BY DEF GraphDecides
<1>3. inflight' \in [Op -> Item \cup {NoItem}] BY <1>1, <1>2
<1>4. deletions' = deletions \/ deletions' = Append(deletions, inflight[o]) BY DEF GraphDecides
<1>5. deletions' \in Seq(Item) /\ Len(deletions) <= Len(deletions') /\ \A k \in 1 .. Len(deletions) : deletions'[k] = deletions[k]
  BY <1>1, <1>4
<1>6. outcome' = outcome
      \/ (outcome[o] = "unknown" /\ \E x \in {"gone", "committed", "refused"} : outcome' = [outcome EXCEPT ![o] = x])
  BY DEF GraphDecides
<1>8. /\ outcome' \in [Op -> Outcome]
      /\ \A p \in Op : \/ outcome'[p] = outcome[p]
                       \/ outcome[p] = "unknown" /\ outcome'[p] # "unknown"
  <2>1. CASE outcome' = outcome BY <1>1, <2>1
  <2>2. CASE outcome[o] = "unknown" /\ \E x \in {"gone", "committed", "refused"} : outcome' = [outcome EXCEPT ![o] = x]
    <3>1. PICK x \in {"gone", "committed", "refused"} : outcome' = [outcome EXCEPT ![o] = x] BY <2>2
    <3>2. x \in Outcome BY DEF Outcome
    <3>3. outcome' \in [Op -> Outcome] /\ outcome'[o] = x /\ \A p \in Op : p # o => outcome'[p] = outcome[p] BY <1>1, <3>1, <3>2
    <3> QED BY <2>2, <3>3
  <2> QED BY <1>6, <2>1, <2>2
<1> QED BY <1>2, <1>3, <1>5, <1>8, GraphStep

LEMMA DeletedElsewhereStep == ASSUME Inv, NEW i \in Item, DeletedElsewhere(i) PROVE Inv'
<1>1. deletions \in Seq(Item) /\ outcome \in [Op -> Outcome] /\ inflight \in [Op -> Item \cup {NoItem}] BY DEF Inv, TypeOK
<1>2. deletions' = Append(deletions, i) /\ UNCHANGED <<outcome, inflight, record, backup, store, proof, flow, faults>>
  BY DEF DeletedElsewhere
<1>3. deletions' \in Seq(Item) /\ Len(deletions) <= Len(deletions') /\ \A k \in 1 .. Len(deletions) : deletions'[k] = deletions[k]
  BY <1>1, <1>2
<1> QED BY <1>1, <1>2, <1>3, GraphStep

LEMMA AbortStep == ASSUME Inv, NEW c \in Flow, Abort(c) PROVE Inv'
<1>1. /\ deletions \in Seq(Item) /\ outcome \in [Op -> Outcome] /\ inflight \in [Op -> Item \cup {NoItem}]
      /\ Right(flow[c], ledger, deletions)
  BY DEF Inv, TypeOK, Calls
<1>2. PICK o : o = flow[c].op OBVIOUS
<1>3. /\ flow[c].pc = "settle" /\ outcome[o] = "unknown" /\ outcome' = [outcome EXCEPT ![o] = "aborted"]
      /\ UNCHANGED <<deletions, inflight, record, backup, store, proof, flow, faults>>
  BY <1>2 DEF Abort
<1>4. o \in Op BY <1>1, <1>2, <1>3 DEF Right
<1>5. "aborted" \in Outcome BY DEF Outcome
<1>6. outcome' \in [Op -> Outcome] /\ outcome'[o] = "aborted" /\ \A p \in Op : p # o => outcome'[p] = outcome[p]
  BY <1>1, <1>3, <1>4, <1>5
<1>7. \A p \in Op : \/ outcome'[p] = outcome[p]
                    \/ outcome[p] = "unknown" /\ outcome'[p] # "unknown"
  BY <1>3, <1>4, <1>6
<1>8. Len(deletions) <= Len(deletions) BY <1>1, SeqFacts
<1> QED BY <1>1, <1>3, <1>6, <1>7, <1>8, GraphStep

LEMMA ConfirmStep == ASSUME Inv, NEW c \in Flow, NEW i \in Item, Confirm(c, i) PROVE Inv'
<1>1. PICK o \in Op : /\ NewOp(o) /\ Record(o, i, "pending")
                      /\ inflight' = [inflight EXCEPT ![o] = i] /\ Goes(c, Turn(Idle, "settle", o))
  BY DEF Confirm
<1>2. UNCHANGED <<deletions, outcome, backup, store, faults>> BY DEF Confirm
<1>3. MayRecord(o, i, "pending") BY <1>1, NewMayRecord
<1>4. "pending" \in State \ {"none"} BY DEF State
<1>5. ledger'[o].state = "pending" /\ ledger'[o] # NoRecord BY <1>1, <1>3, <1>4, RecordFacts, Zenon
<1> DEFINE g == Turn(Idle, "settle", o)
<1>6. "settle" \in Place BY DEF Place
<1>7. g \in Call /\ g.pc = "settle" /\ g.op = o /\ g.mode = "page" /\ g.opened = Idle.opened
  BY <1>6, IdleFields, TurnFields
<1>8. Goes(c, g) BY <1>1
<1> HIDE DEF g
<1>10. Right(g, ledger', deletions)
  BY <1>5, <1>7, IdleFields DEF Right, OpenedRight, Ask, Er
<1>11. inflight' \in [Op -> Item \cup {NoItem}]
  BY <1>1 DEF Inv, TypeOK
<1>12. UNCHANGED <<deletions, outcome, backup, tx>> /\ words' \subseteq Item /\ faults' \in Nat BY <1>2 DEF store, Inv, TypeOK
<1> QED BY <1>1, <1>3, <1>4, <1>7, <1>8, <1>10, <1>11, <1>12, RecordStep

LEMMA ConcludeStep == ASSUME Inv, NEW c \in Flow, Conclude(c) PROVE Inv'
<1>1. PICK f : f = flow[c] OBVIOUS
<1>2. f \in Call /\ Right(f, ledger, deletions) BY <1>1 DEF Inv, TypeOK, Calls
<1>3. f.pc = "settle" /\ outcome[f.op] # "unknown" /\ UNCHANGED Ongoing BY <1>1 DEF Conclude
<1>4. PICK o : o = f.op OBVIOUS
<1>5. o \in Op /\ ledger[o] # NoRecord BY <1>2, <1>3, <1>4 DEF Right, Ask
<1>6. ledger[o].item \in Item BY <1>5, LedgerFacts DEF Inv
<1>7. /\ UNCHANGED <<deletions, outcome, backup, tx>> /\ words' \subseteq Item /\ faults' \in Nat
      /\ inflight' \in [Op -> Item \cup {NoItem}]
  BY <1>3 DEF Ongoing, graph, store, Inv, TypeOK
<1>8. CASE outcome[o] \in {"committed", "gone"} /\ Update(o, "graph_deleted") /\ Goes(c, Turn(f, "clean", o))
  <2>1. Record(o, ledger[o].item, "graph_deleted") BY <1>8 DEF Update
  <2>2. MayRecord(o, ledger[o].item, "graph_deleted") BY <1>5, <1>8 DEF MayRecord
  <2>3. "graph_deleted" \in State \ {"none"} BY DEF State
  <2>4. Right(f, ledger', deletions) BY <1>1, <1>5, <1>6, <2>1, <2>2, <2>3, RecordKeeps
  <2>5. Er(ledger', o) BY <1>5, <1>6, <2>1, <2>2, <2>3, RecordFacts
  <2> DEFINE g == Turn(f, "clean", o)
  <2>6. "clean" \in Place /\ o \in Op \cup {NoOp} BY <1>5 DEF Place
  <2>7. g \in Call /\ g.pc = "clean" /\ g.op = o /\ g.mode = f.mode /\ g.opened = f.opened BY <1>2, <2>6, TurnFields, Zenon
  <2>8. Goes(c, g) BY <1>8
  <2> HIDE DEF g
  <2>9. f.mode # "adopt" BY <1>2, <1>3 DEF Right, AdoptRight
  <2>10. Right(g, ledger', deletions)
    BY <1>5, <2>4, <2>5, <2>7, <2>9 DEF Right, OpenedRight
  <2> QED BY <1>5, <1>6, <1>7, <2>1, <2>2, <2>3, <2>7, <2>8, <2>10, RecordStep
<1>9. CASE outcome[o] \in {"refused", "aborted"} /\ Update(o, "not_deleted") /\ Goes(c, After(f, FALSE))
  <2>1. Record(o, ledger[o].item, "not_deleted") BY <1>9 DEF Update
  <2>2. MayRecord(o, ledger[o].item, "not_deleted")
    <3> QED BY <1>5, <1>9 DEF MayRecord
  <2>3. "not_deleted" \in State \ {"none"} BY DEF State
  <2>4. Right(f, ledger', deletions) BY <1>1, <1>5, <1>6, <2>1, <2>2, <2>3, RecordKeeps
  <2>5. deletions \in Seq(Item) BY DEF Inv, TypeOK
  <2>6. \E no \in BOOLEAN : no = FALSE OBVIOUS
  <2>7. PICK no \in BOOLEAN : no = FALSE BY <2>6
  <2>8. After(f, no) \in Call /\ Right(After(f, no), ledger', deletions)
    BY <1>2, <1>3, <2>4, <2>5, AfterRight
  <2>9. Goes(c, After(f, no)) BY <1>9, <2>7, Zenon
  <2> QED BY <1>5, <1>6, <1>7, <2>1, <2>2, <2>3, <2>8, <2>9, RecordStep
<1> QED BY <1>1, <1>4, <1>8, <1>9 DEF Conclude

LEMMA StaysUnknownStep == ASSUME Inv, NEW c \in Flow, StaysUnknown(c) PROVE Inv'
<1>1. PICK f : f = flow[c] OBVIOUS
<1>2. f \in Call /\ Right(f, ledger, deletions) /\ deletions \in Seq(Item) /\ faults \in Nat
  BY <1>1 DEF Inv, TypeOK, Calls
<1>3. f.pc = "settle" /\ Goes(c, After(f, FALSE)) /\ UNCHANGED <<graph, record, backup, store, proof, faults>>
  BY <1>1 DEF StaysUnknown
<1>4. \E no \in BOOLEAN : no = FALSE OBVIOUS
<1>5. PICK no \in BOOLEAN : no = FALSE BY <1>4
<1>6. After(f, no) \in Call /\ Right(After(f, no), ledger, deletions) BY <1>2, <1>3, AfterRight
<1>7. Goes(c, After(f, no)) BY <1>3, <1>5, Zenon
<1> QED BY <1>2, <1>3, <1>6, <1>7, FlowStep

LEMMA CleanUpStep == ASSUME Inv, NEW c \in Flow, CleanUp(c) PROVE Inv'
<1>1. PICK f : f = flow[c] OBVIOUS
<1>2. f \in Call /\ Right(f, ledger, deletions) BY <1>1 DEF Inv, TypeOK, Calls
<1>3. PICK o : o = f.op OBVIOUS
<1>4. /\ f.pc = "clean" /\ tx = NoItem /\ words' = words \ {ledger[o].item} /\ Update(o, "complete")
      /\ Goes(c, After(f, TRUE)) /\ UNCHANGED <<graph, backup, tx, faults>>
  BY <1>1, <1>3 DEF CleanUp
<1>5. o \in Op /\ Er(ledger, o) BY <1>2, <1>3, <1>4 DEF Right
<1>6. ledger[o].item \in Item BY <1>5, LedgerFacts, NoRecordErases DEF Inv
<1>7. Record(o, ledger[o].item, "complete") BY <1>4 DEF Update
<1>8. "complete" \in State \ {"none"} BY DEF State
<1>9. MayRecord(o, ledger[o].item, "complete") BY <1>4, <1>5 DEF MayRecord
<1>10. /\ UNCHANGED <<deletions, outcome, backup, tx>> /\ words' \subseteq Item /\ faults' \in Nat
       /\ inflight' \in [Op -> Item \cup {NoItem}]
  BY <1>4 DEF graph, Inv, TypeOK
<1>11. Right(f, ledger', deletions) BY <1>1, <1>5, <1>6, <1>7, <1>8, <1>9, RecordKeeps
<1>12. deletions \in Seq(Item) BY DEF Inv, TypeOK
<1>13. \E yes \in BOOLEAN : yes = TRUE OBVIOUS
<1>14. PICK yes \in BOOLEAN : yes = TRUE BY <1>13
<1>15. After(f, yes) \in Call /\ Right(After(f, yes), ledger', deletions)
  BY <1>2, <1>4, <1>11, <1>12, AfterRight
<1>16. Goes(c, After(f, yes)) BY <1>4, <1>14, Zenon
<1> QED BY <1>5, <1>6, <1>7, <1>8, <1>9, <1>10, <1>15, <1>16, RecordStep

LEMMA ForgetFailsStep == ASSUME Inv, NEW c \in Flow, ForgetFails(c) PROVE Inv'
<1>1. PICK f : f = flow[c] OBVIOUS
<1>2. f \in Call /\ Right(f, ledger, deletions) /\ deletions \in Seq(Item) /\ faults \in Nat
  BY <1>1 DEF Inv, TypeOK, Calls
<1>3. f.pc = "clean" /\ Goes(c, After(f, FALSE)) /\ faults' = faults + 1 /\ UNCHANGED <<graph, record, backup, store, proof>>
  BY <1>1 DEF ForgetFails, Fault
<1>4. \E no \in BOOLEAN : no = FALSE OBVIOUS
<1>5. PICK no \in BOOLEAN : no = FALSE BY <1>4
<1>6. After(f, no) \in Call /\ Right(After(f, no), ledger, deletions) BY <1>2, <1>3, AfterRight
<1>7. Goes(c, After(f, no)) BY <1>3, <1>5, Zenon
<1>8. faults' \in Nat BY <1>2, <1>3
<1> QED BY <1>3, <1>6, <1>7, <1>8, FlowStep

\* A call that ends.
LEMMA EndsStep ==
  ASSUME Inv, NEW c \in Flow, Goes(c, Idle), faults' = faults + 1, UNCHANGED <<graph, record, backup, store, proof>>
  PROVE  Inv'
<1>1. faults' \in Nat BY DEF Inv, TypeOK
<1>2. Idle \in Call BY IdleFields
<1>3. Right(Idle, ledger, deletions) BY IdleRight
<1> QED BY <1>1, <1>2, <1>3, FlowStep

LEMMA StatusResumesStep == ASSUME Inv, NEW c \in Flow, NEW i \in Item, StatusResumes(c, i) PROVE Inv'
<1>1. PICK o : o = Last({p \in Op : ledger[p].item = i}) OBVIOUS
<1> DEFINE pc == IF ledger[o].state = "pending" THEN "settle" ELSE "clean"
           g == Turn(Idle, pc, o)
<1>2. o # NoOp /\ ledger[o].state \in OpenStates /\ Goes(c, g) /\ UNCHANGED <<graph, record, backup, store, proof, faults>>
  BY <1>1 DEF StatusResumes
<1>3. o \in Op BY <1>1, <1>2, LastFacts
<1>4. pc \in Place /\ pc \in {"settle", "clean"} /\ o \in Op \cup {NoOp} BY <1>3 DEF Place
<1>5. pc = "clean" => Er(ledger, o) BY <1>2, <1>3 DEF OpenStates, Inv, Named, NamedIn
<1>6. pc = "settle" => Ask(o, ledger)
  <2>1. ledger[o] # NoRecord BY <1>2 DEF OpenStates, NoRecord
  <2> QED BY <2>1 DEF Ask
<1> HIDE DEF pc
<1>7. g \in Call /\ g.pc = pc /\ g.op = o /\ g.mode = "page" /\ g.opened = Idle.opened BY <1>4, IdleFields, TurnFields
<1> HIDE DEF g
<1>8. Right(g, ledger, deletions) BY <1>3, <1>4, <1>5, <1>6, <1>7, IdleFields DEF Right, OpenedRight
<1>9. faults' \in Nat BY <1>2 DEF Inv, TypeOK
<1> QED BY <1>2, <1>7, <1>8, <1>9, FlowStep

LEMMA StatusDeletedStep == ASSUME Inv, NEW c \in Flow, NEW i \in Item, StatusDeleted(c, i) PROVE Inv'
<1>1. PICK o : o = Last({p \in Op : ledger[p].item = i}) OBVIOUS
<1>3. PICK p \in Op : /\ IF o = NoOp THEN NewOp(p) ELSE p = o
                      /\ Record(p, i, "graph_deleted") /\ Goes(c, Turn(Idle, "clean", p))
  BY <1>1 DEF StatusDeleted
<1>4. UNCHANGED Ongoing BY DEF StatusDeleted
<1>5. MayRecord(p, i, "graph_deleted")
  <2>1. CASE o = NoOp BY <1>3, <2>1, NewMayRecord
  <2>2. CASE o # NoOp
    <3>1. p = o /\ ledger[p].item = i BY <1>1, <1>3, <2>2, LastFacts
    <3> QED BY <3>1 DEF MayRecord
  <2> QED BY <2>1, <2>2
<1>6. "graph_deleted" \in State \ {"none"} BY DEF State
<1>7. Er(ledger', p) BY <1>3, <1>5, <1>6, RecordFacts
<1> DEFINE g == Turn(Idle, "clean", p)
<1>8. "clean" \in Place BY DEF Place
<1>9. g \in Call /\ g.pc = "clean" /\ g.op = p /\ g.mode = "page" /\ g.opened = Idle.opened BY <1>8, IdleFields, TurnFields
<1>10. Goes(c, g) BY <1>3
<1> HIDE DEF g
<1>11. Right(g, ledger', deletions) BY <1>7, <1>9, IdleFields DEF Right, OpenedRight
<1>12. /\ UNCHANGED <<deletions, outcome, backup, tx>> /\ words' \subseteq Item /\ faults' \in Nat
       /\ inflight' \in [Op -> Item \cup {NoItem}]
  BY <1>4 DEF Ongoing, graph, store, Inv, TypeOK
<1> QED BY <1>3, <1>5, <1>6, <1>9, <1>10, <1>11, <1>12, RecordStep

LEMMA ReconcileStep == ASSUME Inv, NEW c \in Flow, Reconcile(c) PROVE Inv'
<1> DEFINE opened == [o \in Op |-> IF ledger[o].state \in OpenStates THEN ledger[o].state ELSE "none"]
           f == Reconciling(Idle, opened)
<1>1. Goes(c, Onward(f)) /\ UNCHANGED <<graph, record, backup, store, proof, faults>> BY DEF Reconcile
<1>2. opened \in [Op -> {"none"} \cup OpenStates] OBVIOUS
<1>3. \A o \in Op : opened[o] # "none" => opened[o] = ledger[o].state OBVIOUS
<1> HIDE DEF opened
<1>4. f \in Call /\ f.mode = "reconcile" /\ f.opened = opened BY <1>2, IdleFields, ReconcilingFields, Zenon
<1> HIDE DEF f
<1>5. ASSUME NEW o \in Op
      PROVE  /\ f.opened[o] = "pending" => Ask(o, ledger)
             /\ f.opened[o] = "graph_deleted" => Er(ledger, o)
  <2>1. ledger[o].state = "pending" => ledger[o] # NoRecord BY DEF NoRecord
  <2>2. ledger[o].state = "graph_deleted" => Er(ledger, o) BY DEF Inv, Named, NamedIn
  <2> QED BY <1>3, <1>4, <2>1, <2>2 DEF Ask
<1>6. OpenedRight(f, ledger) BY <1>5 DEF OpenedRight
<1>7. Onward(f) \in Call /\ Right(Onward(f), ledger, deletions) BY <1>4, <1>6, OnwardRight
<1>8. faults' \in Nat BY <1>1 DEF Inv, TypeOK
<1> QED BY <1>1, <1>7, <1>8, FlowStep

LEMMA ReadListStep == ASSUME Inv, NEW c \in Flow, ReadList(c) PROVE Inv'
<1> DEFINE KnownAs(k) == Last({o \in Op : ledger[o].item = deletions[k] /\ ledger[o].found})
           Resumed(o) == o # NoOp /\ IF flow[c].mode = "page" THEN ledger[o].item = ledger[flow[c].op].item
                                     ELSE flow[c].opened[o] # "none"
           known == [k \in DOMAIN deletions |-> IF Resumed(KnownAs(k)) THEN No ELSE KnownAs(k)]
           f == Adopting(Idle, known, 0)
<1>1. Goes(c, Advance(f)) /\ UNCHANGED <<graph, record, backup, store, proof, faults>> BY DEF ReadList
<1>2. deletions \in Seq(Item) BY DEF Inv, TypeOK
<1>3. Len(deletions) \in Nat /\ DOMAIN deletions = 1 .. Len(deletions) BY <1>2, SeqFacts
<1>4. ASSUME NEW k \in 1 .. Len(deletions)
      PROVE  KnownAs(k) # NoOp => KnownAs(k) \in Op /\ Er(ledger, KnownAs(k)) /\ ledger[KnownAs(k)].item = deletions[k]
  <2> DEFINE S == {o \in Op : ledger[o].item = deletions[k] /\ ledger[o].found}
  <2>1. S \in SUBSET Op OBVIOUS
  <2>2. \A o \in S : o \in Op /\ Er(ledger, o) /\ ledger[o].item = deletions[k] BY DEF Er
  <2> HIDE DEF S
  <2>3. Last(S) # NoOp => Last(S) \in S BY <2>1, LastFacts
  <2>4. Last(S) # NoOp => Last(S) \in Op /\ Er(ledger, Last(S)) /\ ledger[Last(S)].item = deletions[k] BY <2>2, <2>3
  <2> QED BY <2>4, Zenon DEF S
<1>5. \A k \in 1 .. Len(deletions) : known[k] = IF Resumed(KnownAs(k)) THEN No ELSE KnownAs(k) BY <1>3
<1>6. \A k \in 1 .. Len(deletions) : Resumed(KnownAs(k)) => KnownAs(k) # NoOp OBVIOUS
<1>7. DOMAIN known = 1 .. Len(deletions) /\ known = [k \in 1 .. Len(deletions) |-> known[k]] BY <1>3
<1> HIDE DEF KnownAs, Resumed, known
<1>8. \A k \in 1 .. Len(deletions) : known[k] \in Op \cup {NoOp, No} BY <1>4, <1>5
<1>9. known \in [1 .. Len(deletions) -> Op \cup {NoOp, No}] BY <1>7, <1>8
<1>10. known \in Seq(Op \cup {NoOp, No}) /\ Len(known) = Len(deletions) BY <1>3, <1>9, FunctionIsSeq
<1>11. 0 \in Nat OBVIOUS
<1>12. f \in Call /\ f.opened = Idle.opened /\ f.known = known /\ f.at = 0
  BY <1>10, <1>11, IdleFields, AdoptingFields, SMT
<1> HIDE DEF f
<1>13. OpenedRight(f, ledger) BY <1>12, IdleFields DEF OpenedRight
<1>14. ASSUME NEW k \in 1 .. Len(f.known), k <= f.at \/ f.known[k] = No PROVE Listed(ledger, deletions[k])
  <2>1. k \in 1 .. Len(deletions) /\ ~(k <= 0) BY <1>3, <1>10, <1>12
  <2>2. known[k] = No BY <1>12, <1>14, <2>1
  <2>3. KnownAs(k) # NoOp BY <1>4, <1>5, <1>6, <2>1, <2>2, OpFacts
  <2> QED BY <1>4, <2>1, <2>3 DEF Listed
<1>15. ASSUME NEW k \in 1 .. Len(f.known), f.known[k] \in Op
       PROVE  Er(ledger, f.known[k]) /\ ledger[f.known[k]].item = deletions[k]
  <2>1. k \in 1 .. Len(deletions) /\ known[k] = f.known[k] BY <1>10, <1>12
  <2>2. known[k] = KnownAs(k) /\ KnownAs(k) # NoOp BY <1>5, <1>15, <2>1, OpFacts
  <2> QED BY <1>4, <2>1, <2>2
<1>16. Len(f.known) <= Len(deletions) BY <1>3, <1>10, <1>12
<1>17. Advance(f) \in Call /\ Right(Advance(f), ledger, deletions)
  BY <1>2, <1>12, <1>13, <1>14, <1>15, <1>16, AdvanceRight
<1>18. faults' \in Nat BY <1>1 DEF Inv, TypeOK
<1> QED BY <1>1, <1>17, <1>18, FlowStep

LEMMA AdoptStep == ASSUME Inv, NEW c \in Flow, Adopt(c) PROVE Inv'
<1>1. PICK f : f = flow[c] OBVIOUS
<1>2. f \in Call /\ Right(f, ledger, deletions) /\ deletions \in Seq(Item)
  BY <1>1 DEF Inv, TypeOK, Calls
<1>3. PICK i : i = deletions[f.at] OBVIOUS
<1>4. PICK o \in Op : /\ IF f.known[f.at] = NoOp THEN NewOp(o) ELSE o = f.known[f.at]
                      /\ Record(o, i, "graph_deleted") /\ Goes(c, Turn(f, "clean", o))
  BY <1>1, <1>3 DEF Adopt
<1>5. f.pc = "adopt" /\ UNCHANGED Ongoing BY <1>1 DEF Adopt
<1>6. AdoptRight(f, ledger, deletions) /\ f.mode = "adopt" BY <1>2, <1>5 DEF Right
<1>7. KnownRight(f, ledger, deletions) /\ f.at \in 1 .. Len(f.known) BY <1>5, <1>6 DEF AdoptRight
<1>8. i \in Item
  <2>1. Len(f.known) <= Len(deletions) BY <1>7 DEF KnownRight
  <2>2. Len(f.known) \in Nat BY <1>2, SeqFacts DEF Call
  <2>3. Len(deletions) \in Nat BY <1>2, SeqFacts
  <2>4. f.at \in 1 .. Len(deletions) BY <1>7, <2>1, <2>2, <2>3
  <2> QED BY <1>2, <1>3, <2>4, SeqFacts
<1>9. MayRecord(o, i, "graph_deleted")
  <2>1. CASE f.known[f.at] = NoOp BY <1>4, <2>1, NewMayRecord
  <2>2. CASE f.known[f.at] # NoOp
    <3>1. o = f.known[f.at] BY <1>4, <2>2
    <3>2. Er(ledger, o) /\ ledger[o].item = i BY <1>3, <1>7, <3>1 DEF KnownRight
    <3> QED BY <3>2 DEF MayRecord
  <2> QED BY <2>1, <2>2
<1>10. "graph_deleted" \in State \ {"none"} BY DEF State
<1>11. Er(ledger', o) /\ ledger'[o].item = i
  <2>1. Record(o, i, "graph_deleted") BY <1>4
  <2> QED BY <1>8, <1>9, <1>10, <2>1, RecordFacts, Zenon
<1>12. Right(f, ledger', deletions) BY <1>1, <1>4, <1>8, <1>9, <1>10, RecordKeeps
<1> DEFINE g == Turn(f, "clean", o)
<1>13. "clean" \in Place /\ o \in Op \cup {NoOp} BY DEF Place
<1>14. /\ g \in Call /\ g.pc = "clean" /\ g.op = o /\ g.mode = f.mode /\ g.opened = f.opened
       /\ g.known = f.known /\ g.at = f.at
  BY <1>2, <1>13, TurnFields, Zenon
<1>15. Goes(c, g) BY <1>4
<1> HIDE DEF g
<1>17. AdoptRight(g, ledger', deletions)
  <2>1. AdoptRight(f, ledger', deletions) BY <1>6, <1>12 DEF Right
  <2>2. KnownRight(f, ledger', deletions) BY <2>1 DEF AdoptRight
  <2>3. KnownRight(g, ledger', deletions) BY <1>14, <2>2 DEF KnownRight
  <2> QED BY <1>3, <1>7, <1>11, <1>14, <2>3 DEF AdoptRight
<1>18. OpenedRight(g, ledger') BY <1>12, <1>14 DEF Right, OpenedRight
<1>19. Right(g, ledger', deletions) BY <1>11, <1>14, <1>17, <1>18 DEF Right
<1>20. /\ UNCHANGED <<deletions, outcome, backup, tx>> /\ words' \subseteq Item /\ faults' \in Nat
       /\ inflight' \in [Op -> Item \cup {NoItem}]
  BY <1>5 DEF Ongoing, graph, store, Inv, TypeOK
<1> QED BY <1>4, <1>8, <1>9, <1>10, <1>14, <1>15, <1>19, <1>20, RecordStep

LEMMA AdoptEndsStep == ASSUME Inv, NEW c \in Flow, AdoptEnds(c) PROVE Inv'
<1>1. PICK f : f = flow[c] OBVIOUS
<1>2. f \in Call /\ Right(f, ledger, deletions) /\ deletions \in Seq(Item)
  BY <1>1 DEF Inv, TypeOK, Calls
<1>3. PICK i : i = deletions[f.at] OBVIOUS
<1>4. PICK o \in Op : NewOp(o) /\ Record(o, i, "pending") BY <1>1, <1>3 DEF AdoptEnds
<1>5. f.pc = "adopt" /\ Goes(c, Idle) /\ faults' = faults + 1 /\ UNCHANGED <<graph, backup, store>>
  BY <1>1 DEF AdoptEnds, Fault
<1>6. i \in Item
  <2>1. Len(f.known) <= Len(deletions) /\ f.at \in 1 .. Len(f.known) BY <1>2, <1>5 DEF Right, AdoptRight, KnownRight
  <2>2. Len(f.known) \in Nat BY <1>2, SeqFacts DEF Call
  <2>3. Len(deletions) \in Nat BY <1>2, SeqFacts
  <2>4. f.at \in 1 .. Len(deletions) BY <2>1, <2>2, <2>3
  <2> QED BY <1>2, <1>3, <2>4, SeqFacts
<1>7. MayRecord(o, i, "pending") BY <1>4, NewMayRecord
<1>8. "pending" \in State \ {"none"} BY DEF State
<1>9. Idle \in Call /\ Right(Idle, ledger', deletions) BY IdleFields, IdleRight
<1>10. /\ UNCHANGED <<deletions, outcome, backup, tx>> /\ words' \subseteq Item /\ faults' \in Nat
       /\ inflight' \in [Op -> Item \cup {NoItem}]
  BY <1>5 DEF graph, store, Inv, TypeOK
<1> QED BY <1>4, <1>5, <1>6, <1>7, <1>8, <1>9, <1>10, RecordStep

LEMMA MarkStep == ASSUME Inv, NEW c \in Flow, Mark(c) PROVE Inv'
<1>1. PICK f : f = flow[c] OBVIOUS
<1>2. f \in Call /\ Right(f, ledger, deletions) BY <1>1 DEF Inv, TypeOK, Calls
<1>3. /\ f.pc = "mark" /\ mark' = Len(f.known) /\ file' = TRUE /\ proof' = No /\ Goes(c, Idle)
      /\ UNCHANGED <<ledger, graph, backup, store, faults>>
  BY <1>1 DEF Mark, Stamped
<1>4. UNCHANGED <<ledger, deletions, outcome, inflight, backup, words, tx, faults>> BY <1>3 DEF graph, store
<1>5. flow \in [Flow -> Call] BY DEF Inv, TypeOK
<1>6. flow' \in [Flow -> Call] /\ flow'[c] = Idle /\ \A d \in Flow : d # c => flow'[d] = flow[d]
  BY <1>3, <1>5, IdleFields DEF Goes
<1>7. mark' \in Nat \cup {No} BY <1>2, <1>3, SeqFacts DEF Call
<1>8. TypeOK' BY <1>3, <1>4, <1>6, <1>7 DEF Inv, TypeOK
<1>9. Calls'
  <2>1. \A d \in Flow : Right(flow'[d], ledger, deletions) BY <1>6, IdleRight DEF Inv, Calls
  <2> QED BY <1>4, <2>1, Zenon DEF Calls
<1>10. Marks'
  <2>1. Len(f.known) <= Len(deletions) /\ \A k \in 1 .. Len(f.known) : Listed(ledger, deletions[k])
    BY <1>2, <1>3 DEF Right, AdoptRight, KnownRight
  <2>2. Backed(ledger, mark', deletions) BY <1>3, <2>1 DEF Backed
  <2>3. Backed(backup.ledger, backup.mark, deletions) BY DEF Inv, Marks
  <2> QED BY <1>4, <2>2, <2>3, Zenon DEF Marks
<1>11. Truth' /\ Named' /\ Proven' /\ Writing' BY <1>3, <1>4 DEF Inv, Truth, Named, Proven, Writing
<1> QED BY <1>8, <1>9, <1>10, <1>11 DEF Inv

LEMMA AgentStep == ASSUME Inv, Agent PROVE Inv'
<1> USE DEF graph, record, store
<1>1. CASE Refresh
  <2>1. TypeOK'
    <3>1. Len(deletions) \in Nat BY SeqFacts DEF Inv, TypeOK
    <3> QED BY <1>1, <3>1 DEF Inv, TypeOK, Refresh
  <2>2. Truth' /\ Named' /\ Calls' /\ Marks' /\ Writing'
    BY <1>1 DEF Refresh, Inv, Truth, Named, Calls, Marks, Writing
  <2>3. Proven' BY <1>1 DEF Refresh, Agrees, Proven
  <2> QED BY <2>1, <2>2, <2>3 DEF Inv
<1>2. CASE ProofExpires
  <2>1. TypeOK' /\ Truth' /\ Named' /\ Calls' /\ Marks' /\ Proven' /\ Writing'
    BY <1>2 DEF ProofExpires, Inv, TypeOK, Truth, Named, Calls, Marks, Proven, Writing
  <2> QED BY <2>1 DEF Inv
<1>3. CASE \E i \in Item : BeginWrite(i)
  <2>1. PICK i \in Item : BeginWrite(i) BY <1>3
  <2>2. TypeOK' /\ Truth' /\ Named' /\ Calls' /\ Marks' /\ Proven'
    BY <2>1 DEF BeginWrite, Inv, TypeOK, Truth, Named, Calls, Marks, Proven
  <2>3. Writing' BY <2>1 DEF BeginWrite, Fenced, FencedStates, Writing
  <2> QED BY <2>2, <2>3 DEF Inv
<1>4. CASE CommitWrite
  <2>1. TypeOK' /\ Truth' /\ Named' /\ Calls' /\ Marks' /\ Proven' /\ Writing'
    BY <1>4 DEF CommitWrite, Inv, TypeOK, Truth, Named, Calls, Marks, Proven, Writing
  <2> QED BY <2>1 DEF Inv
<1> QED BY <1>1, <1>2, <1>3, <1>4 DEF Agent

LEMMA PersonStep == ASSUME Inv, Person PROVE Inv'
<1> USE DEF graph, record, store
<1>1. Stopped BY DEF Person, BackUp, RestoreLedger, LoseLedger, RestoreStore
<1>2. UNCHANGED <<flow, outcome, deletions, inflight, tx>> BY DEF Person, BackUp, RestoreLedger, LoseLedger, RestoreStore
<1>3. Calls'
  <2>1. \A c \in Flow : flow'[c] = Idle BY <1>1, <1>2 DEF Stopped
  <2> QED BY <2>1, IdleRight, Zenon DEF Calls
<1>4. faults' = faults + 1 => faults' \in Nat BY DEF Inv, TypeOK
<1>5. CASE BackUp
  <2>1. backup'.ledger = ledger /\ backup'.mark = mark /\ UNCHANGED <<record, words, proof, faults>> BY <1>5 DEF BackUp
  <2>2. TypeOK' BY <1>2, <1>5, <2>1 DEF BackUp, Inv, TypeOK
  <2>3. Truth' /\ Named' /\ Marks' /\ Proven' /\ Writing'
    BY <1>2, <2>1 DEF Inv, Truth, Named, Marks, Proven, Writing
  <2> QED BY <1>3, <2>2, <2>3 DEF Inv
<1>6. CASE RestoreLedger
  <2>1. /\ ledger' = backup.ledger /\ mark' = backup.mark /\ file' = TRUE /\ proof' = No /\ faults' = faults + 1
        /\ tx = NoItem /\ UNCHANGED <<backup, words>>
    BY <1>1, <1>6 DEF RestoreLedger, Fault, Stamped, Stopped
  <2>2. TypeOK' BY <1>2, <1>4, <2>1 DEF Inv, TypeOK
  <2>3. Truth' /\ Named' /\ Marks' /\ Proven' /\ Writing'
    BY <1>2, <2>1 DEF Inv, Truth, Named, Marks, Proven, Writing
  <2> QED BY <1>3, <2>2, <2>3 DEF Inv
<1>7. CASE LoseLedger
  <2>1. /\ ledger' = NoLedger /\ mark' = No /\ file' = FALSE /\ proof' = No /\ faults' = faults + 1
        /\ tx = NoItem /\ UNCHANGED <<backup, words>>
    BY <1>1, <1>7 DEF LoseLedger, Fault, Stopped
  <2>2. NoLedger \in [Op -> Entry] /\ \A o \in Op : NoLedger[o].state = "none" BY DEF NoLedger, Entry, NoRecord
  <2>3. TypeOK' BY <1>2, <1>4, <2>1, <2>2 DEF Inv, TypeOK
  <2>4. \A o \in Op : ledger'[o].state = "none" BY <2>1, <2>2
  <2>5. Truth' /\ Named' /\ Writing' BY <1>2, <2>1, <2>4 DEF Inv, Truth, Named, NamedIn, Writing
  <2>6. Marks' /\ Proven' BY <1>2, <2>1 DEF Inv, Marks, Backed, Proven
  <2> QED BY <1>3, <2>3, <2>5, <2>6 DEF Inv
<1>8. CASE RestoreStore
  <2>1. words' = Item /\ proof' = No /\ faults' = faults + 1 /\ UNCHANGED <<record, backup>>
    BY <1>8 DEF RestoreStore, Fault
  <2>2. TypeOK' BY <1>2, <1>4, <2>1 DEF Inv, TypeOK
  <2>3. Truth' /\ Named' /\ Marks' /\ Proven' /\ Writing'
    BY <1>2, <2>1 DEF Inv, Truth, Named, Marks, Proven, Writing
  <2> QED BY <1>3, <2>2, <2>3 DEF Inv
<1> QED BY <1>5, <1>6, <1>7, <1>8 DEF Person

-----------------------------------------------------------------------------
LEMMA InitInv == Init => Inv
<1> SUFFICES ASSUME Init PROVE Inv OBVIOUS
<1>1. NoLedger \in [Op -> Entry] /\ \A o \in Op : NoLedger[o].state = "none" BY DEF NoLedger, Entry, NoRecord
<1>2. NoBackup.ledger = NoLedger /\ NoBackup.mark = No BY DEF NoBackup
<1>3. "unknown" \in Outcome /\ <<>> \in Seq(Item) BY DEF Outcome
<1>4. TypeOK
  <2>1. NoBackup \in [ledger : [Op -> Entry], mark : Nat \cup {No}] BY <1>1 DEF NoBackup
  <2> QED BY <1>1, <1>3, <2>1, IdleFields DEF Init, TypeOK
<1>5. Truth /\ Named BY <1>1, <1>2 DEF Init, Truth, Named, NamedIn
<1>6. Calls BY IdleRight DEF Init, Calls
<1>7. Marks /\ Proven BY <1>2 DEF Init, Marks, Backed, Proven
<1>8. Writing BY DEF Init, Writing
<1> QED BY <1>4, <1>5, <1>6, <1>7, <1>8 DEF Inv

LEMMA StepInv == ASSUME Inv, [Next]_vars PROVE Inv'
<1>1. CASE UNCHANGED vars
  BY <1>1 DEF vars, graph, record, store, Inv, TypeOK, Truth, Named, Calls, Marks, Proven, Writing
<1>2. CASE \E o \in Op : GraphDecides(o) BY <1>2, GraphDecidesStep
<1>3. CASE \E i \in Item : DeletedElsewhere(i) BY <1>3, DeletedElsewhereStep
<1>4. ASSUME NEW c \in Flow,
             Page(c) \/ Outcomes(c) \/ Cleaning(c) \/ Reconcile(c) \/ TakingIn(c) \/ Crash(c)
      PROVE  Inv'
  <2>1. CASE Page(c) BY <2>1, ConfirmStep, StatusResumesStep, StatusDeletedStep DEF Page
  <2>2. CASE Outcomes(c) BY <2>2, ConcludeStep, AbortStep, StaysUnknownStep DEF Outcomes
  <2>3. CASE Cleaning(c) BY <2>3, CleanUpStep, ForgetFailsStep DEF Cleaning
  <2>4. CASE Reconcile(c) BY <2>4, ReconcileStep
  <2>5. CASE TakingIn(c)
    <3>1. CASE ListFails(c)
      <4>1. Goes(c, Idle) /\ faults' = faults + 1 /\ UNCHANGED <<graph, record, backup, store, proof>>
        BY <3>1 DEF ListFails, Fault
      <4> QED BY <4>1, EndsStep
    <3> QED BY <2>5, <3>1, ReadListStep, AdoptStep, AdoptEndsStep, MarkStep DEF TakingIn
  <2>6. CASE Crash(c)
    <3>1. Goes(c, Idle) /\ faults' = faults + 1 /\ UNCHANGED <<graph, record, backup, store, proof>>
      BY <2>6 DEF Crash, Fault
    <3> QED BY <3>1, EndsStep
  <2> QED BY <1>4, <2>1, <2>2, <2>3, <2>4, <2>5, <2>6
<1>5. CASE Agent BY <1>5, AgentStep
<1>6. CASE Person BY <1>6, PersonStep
<1> QED BY <1>1, <1>2, <1>3, <1>4, <1>5, <1>6 DEF Next

\* What a call is about to do stays right for the ledger, whatever is lost, restored, interrupted or late.
THEOREM Invariance == Spec => []Inv
<1>1. Inv /\ [Next]_vars => Inv' BY StepInv
<1> QED BY <1>1, InitInv, PTL DEF Spec

-----------------------------------------------------------------------------
(***************************************************************************)
(* What the invariant says of the words, the record and the watermark.     *)
(***************************************************************************)

\* Every variable keeps its type: the graph's list, the ledger and its copy, the store, the gate and the calls.
THEOREM TypeCorrect == Spec => []TypeOK
<1>1. Inv => TypeOK BY DEF Inv
<1> QED BY <1>1, Invariance, PTL

\* What the record calls not deleted never was deleted by that operation and never will be (settled_operation).
THEOREM NotDeleted == Spec => []NotDeletedIsTrue
<1>1. Inv => NotDeletedIsTrue BY DEF Inv, Truth, NotDeletedIsTrue
<1> QED BY <1>1, Invariance, PTL

\* A transaction that began before a deletion is over before that deletion is complete (record, forgetKnowledgeItems).
THEOREM NeverStored == Spec => NeverStoredAgain
<1>1. Inv /\ [Next]_vars => [CommitWrite => \A o \in Op : ledger[o].item = tx => ledger[o].state # "complete"]_vars
  BY DEF Inv, Writing, CommitWrite
<1> QED BY <1>1, Invariance, PTL DEF Spec, NeverStoredAgain

\* No deletion the watermark counts is forgotten: the graph lists it, and a record names it (recordWatermark).
THEOREM WatermarkRecorded == Spec => []WatermarkIsRecorded
<1>1. Inv => WatermarkIsRecorded BY DEF Inv, Marks, Backed, Listed, Er, WatermarkIsRecorded
<1> QED BY <1>1, Invariance, PTL

LEMMA CountedAreListed ==
  ASSUME Inv, NEW k \in DOMAIN deletions, proof # No, ~ (k > proof)
  PROVE  Listed(ledger, deletions[k])
<1>1. deletions \in Seq(Item) /\ proof \in Nat /\ mark \in Nat \cup {No} BY DEF Inv, TypeOK
<1>2. k \in Nat /\ k >= 1 BY <1>1, SeqFacts
<1>3. CASE file
  <2>1. mark = proof BY <1>3 DEF Inv, Proven
  <2>2. mark # No => \A j \in 1 .. mark : Listed(ledger, deletions[j]) BY DEF Inv, Marks, Backed
  <2> QED BY <1>1, <1>2, <2>1, <2>2
<1>4. CASE ~file
  <2>1. proof = 0 BY <1>4 DEF Inv, Proven
  <2> QED BY <1>1, <1>2, <2>1
<1> QED BY <1>3, <1>4

LEMMA ReadableIsUnfenced ==
  ASSUME Inv, NEW k \in DOMAIN deletions, Readable(deletions[k])
  PROVE  /\ proof # No
         /\ \A o \in Op : ledger[o].item = deletions[k] => ledger[o].state = "not_deleted"
<1>1. proof # No /\ \A o \in Op : ledger[o].item = deletions[k] => ledger[o].state \notin FencedStates
  BY DEF Readable, Fenced
<1>2. deletions[k] \in Item BY SeqFacts DEF Inv, TypeOK
<1>3. NoItem \notin Item BY KnowledgeAssumption
<1>4. \A o \in Op : ledger[o].item = deletions[k] => ledger[o].state \in State \ {"none"} BY <1>2, <1>3, LedgerFacts DEF Inv
<1> QED BY <1>1, <1>4 DEF State, FencedStates

\* Words whose deletion the gate's proof counts are read only where the record of the deletion was overtaken by an
\* answer about its own operation: not after a loss, a restored ledger or store, or a crash (evaluate,
\* deletedKnowledgeBeside); and no operation here that deleted the item is overtaken.
THEOREM OnlyOvertaken == Spec => []OnlyOvertakenWordsAreRead
<1>1. Inv => OnlyOvertakenWordsAreRead
  <2> SUFFICES ASSUME Inv, NEW k \in DOMAIN deletions, Readable(deletions[k])
               PROVE  /\ k > proof \/ Overtaken(deletions[k])
                      /\ \A o \in Op : ledger[o].item = deletions[k] => outcome[o] \notin {"committed", "gone"}
    BY DEF OnlyOvertakenWordsAreRead
  <2>1. proof # No /\ \A o \in Op : ledger[o].item = deletions[k] => ledger[o].state = "not_deleted" BY ReadableIsUnfenced
  <2>2. ASSUME ~ (k > proof) PROVE Overtaken(deletions[k])
    <3>1. Listed(ledger, deletions[k]) BY <2>1, <2>2, CountedAreListed
    <3> QED BY <2>1, <3>1 DEF Listed, Er, Overtaken
  <2>3. \A o \in Op : ledger[o].item = deletions[k] => outcome[o] \notin {"committed", "gone"}
    BY <2>1 DEF Inv, Truth
  <2> QED BY <2>2, <2>3
<1> QED BY <1>1, Invariance, PTL
==============================================================================
