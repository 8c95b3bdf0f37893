----------------------------- MODULE AppRegistry ------------------------------
(***************************************************************************)
(* What the FULI processes of one computer share about one Agent app       *)
(* (src/agent-apps): its rows in the registry (store.js), its data         *)
(* directory with the one a confirmed deletion moved it to                 *)
(* (data-directory.js), and the app processes.  Beside them the owner      *)
(* leases that each process remembers (owner-lease.js).                    *)
(*                                                                         *)
(* A host is one FULI process: a console, a standalone runner or a CLI.    *)
(* When it ends another takes its place, so what the rows still name of    *)
(* the ended one is Gone.  The fence of the row only grows and is only     *)
(* compared for equality, so what a process remembers of it is the row's   *)
(* until the app is taken again, and never after that: the model keeps     *)
(* that one bit.  A generation is any that nothing refers to.  The row of  *)
(* an instance that ended tells the code no more than no row at all.       *)
(***************************************************************************)
EXTENDS Naturals, FiniteSets

CONSTANTS
  Host, NoHost,
  Runner,       \* the hosts that start instances: consoles, never a CLI
  Gone,         \* the owner id of a process that has ended
  Generation,   \* of instances
  Written,      \* what the data directory may hold, as far as digests tell it apart
  Happens       \* which of the optional events may occur

Event == {"ends", "exit", "violations", "stuck", "errors", "unknown", "edit"}

ASSUME AppRegistryAssumption ==
  /\ Runner \subseteq Host
  /\ NoHost \notin Host /\ Gone \notin Host /\ NoHost # Gone
  /\ 0 \notin Generation /\ Written \cap {"absent", "none"} = {}
  /\ Happens \subseteq Event

VARIABLES
  owner,    \* who holds the owner lease in the row of the app
  lease,    \* lease[h]: the lease host h remembers: is its fence the row's, and its holders
  status,   \* status of the app; one that was activated unconfirmed runs no more than a disabled one
  offer,    \* the content the open deletion ticket is bound to
  inst,     \* the row of the app's current instance
  data,     \* the content of its data directory
  aside,    \* the directory that the last confirmed deletion moved the data to exists
  app       \* app[g]: the process of instance g, "recorded" once its pid is in the row

ownership == <<owner, lease>>
appRow == <<status, offer>>
directories == <<data, aside>>
registry == <<ownership, appRow, inst, directories, app>>

Owner == Host \cup {NoHost, Gone}
Status == {"active", "disabled", "code_deleted", "data_deleting", "deleted"}
Content == Written \cup {"absent"}
InstanceState == {"running", "stopping", "sealed"}
Instance == [gen: Generation \cup {0}, owner: Owner, state: InstanceState, pid: BOOLEAN]

NoInstance == [gen |-> 0, owner |-> NoHost, state |-> "sealed", pid |-> FALSE]
NoLease == [current |-> FALSE, holders |-> 0]

RegistryInit ==
  /\ owner = NoHost
  /\ lease = [h \in Host |-> NoLease]
  /\ status = "active" /\ offer = "none"
  /\ inst = NoInstance
  /\ data = "absent" /\ aside = FALSE
  /\ app = [g \in Generation |-> "none"]

-----------------------------------------------------------------------------
(***************************************************************************)
(* The owner lease.                                                        *)
(***************************************************************************)

\* owns, of the lease host h remembers.
Owns(h) == lease[h].holders > 0 /\ owner = h /\ lease[h].current

\* takeOwner raises the fence: every lease remembered until now is void.
TakeOwner(h) ==
  /\ owner' = h
  /\ lease' = [g \in Host |-> IF g = h THEN [current |-> TRUE, holders |-> 1]
                                       ELSE [lease[g] EXCEPT !.current = FALSE]]

ShareLease(h) ==
  /\ lease' = [lease EXCEPT ![h].holders = @ + 1]
  /\ UNCHANGED owner

\* release: the last holder clears the row while it is still its own; the
\* transaction that does may fail.
ReleaseLease(h) ==
  IF lease[h].holders > 1
  THEN lease' = [lease EXCEPT ![h].holders = @ - 1] /\ UNCHANGED owner
  ELSE /\ lease' = [lease EXCEPT ![h] = NoLease]
       /\ \/ owner' = IF Owns(h) THEN NoHost ELSE owner
          \/ "errors" \in Happens /\ UNCHANGED owner

-----------------------------------------------------------------------------
(***************************************************************************)
(* The instance row and the data directories.                              *)
(***************************************************************************)

Unfinished == inst # NoInstance

\* What the run gate accepts.
Runnable == status = "active"

\* Mutant: the rows are final before the directory is removed.
SettledBeforeErasing ==
  CASE status = "data_deleting" /\ data # "absent" ->
         status' = "code_deleted" /\ UNCHANGED <<offer, inst, directories>>
    [] status = "data_deleting" /\ data = "absent" ->
         status' = "deleted" /\ offer' = "none" /\ inst' = NoInstance /\ UNCHANGED directories
    [] OTHER -> UNCHANGED <<appRow, inst, directories>>

\* settle, where nothing fails: an interrupted deletion is undone while its
\* data was not moved, and finished otherwise (finish).
Settled ==
  CASE status = "data_deleting" /\ data # "absent" ->
         status' = "code_deleted" /\ UNCHANGED <<offer, inst, directories>>
    [] status = "data_deleting" /\ data = "absent" ->
         status' = "deleted" /\ offer' = "none" /\ inst' = NoInstance /\ aside' = FALSE /\ UNCHANGED data
    [] status = "deleted" -> aside' = FALSE /\ UNCHANGED <<appRow, inst, data>>
    [] OTHER -> UNCHANGED <<appRow, inst, directories>>

==============================================================================
