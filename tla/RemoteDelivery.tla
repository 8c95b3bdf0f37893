--------------------------- MODULE RemoteDelivery ----------------------------
(***************************************************************************)
(* What the sending device is promised about a message it submits: the     *)
(* status the coordinator shows, and how it is related to the one process  *)
(* the message may cause on the other device.  PeerDelivery implements     *)
(* this specification; PeerSender is built on it.                          *)
(*                                                                         *)
(* run[m] is "never" until the process is started, then "live", then       *)
(* "gone".  It never becomes "live" a second time, and it does so only     *)
(* while the message is handed out or lost track of.                       *)
(***************************************************************************)
CONSTANT Message
VARIABLES status, run, hold

deliveryVars == <<status, run, hold>>

Held == {"claimed", "running"}
Final == {"answered", "failed", "cancelled", "expired"}
Status == {"absent", "queued", "unknown"} \cup Held \cup Final
RunState == {"never", "live", "gone"}

DeliveryInit ==
  /\ status = [m \in Message |-> "absent"]
  /\ run = [m \in Message |-> "never"]
  /\ hold = [m \in Message |-> FALSE]

\* Nothing ran and nothing will: the message waits, or ends without a run.
WithoutRun(m, s) ==
  /\ run[m] = "never"
  /\ \/ status[m] = "absent" /\ s = "queued"
     \/ status[m] = "queued" /\ s \in {"claimed", "cancelled", "expired", "failed"}
     \/ status[m] = "claimed" /\ s \in {"queued", "cancelled", "expired", "failed"}

Progress(m, s) ==
  \/ status[m] = "claimed" /\ s = "running"
  \/ status[m] \in Held /\ s = "unknown"

\* The report of the attempt.  A process may outlive it only under a hold.
Reported(m, s, h) ==
  /\ status[m] \in Held \cup {"unknown"}
  /\ hold[m] => h
  /\ \/ s = "answered" /\ run[m] = "gone"
     \/ s \in {"failed", "cancelled"} /\ (run[m] = "live" => h)
     \/ s = "unknown"

\* Message m may go to status s, its process to state r and its hold to h.
May(m, s, r, h) ==
  \/ WithoutRun(m, s) /\ r = run[m] /\ h = hold[m]
  \/ Progress(m, s) /\ r = run[m] /\ h = hold[m]
  \/ Reported(m, s, h) /\ r = run[m]
  \/ /\ s = status[m] /\ h = hold[m]
     /\ \/ run[m] = "never" /\ r = "live" /\ s \in Held \cup {"unknown"}
        \/ run[m] = "live" /\ r = "gone"

\* Several messages may change at once: a sweep, a revoked device.
DeliverSome ==
  \A m \in Message :
    \/ May(m, status'[m], run'[m], hold'[m])
    \/ /\ status'[m] = status[m]
       /\ run'[m] = run[m]
       /\ hold'[m] = hold[m]

Promise == DeliveryInit /\ [][DeliverSome]_deliveryVars

\* A final status says that the process is over, unless it says by its hold
\* that the process may go on.
Stopped == \A m \in Message : status[m] \in Final /\ run[m] = "live" => hold[m]

\* An answer is that of a process, which is over.
Answered == \A m \in Message : status[m] = "answered" => run[m] = "gone"

\* A message that waits, or expired, has not run.
Unstarted == \A m \in Message : status[m] \in {"absent", "queued", "expired"} => run[m] = "never"

=============================================================================
