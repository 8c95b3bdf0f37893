---------------------------- MODULE MCPeerSender -----------------------------
(***************************************************************************)
(* Small instances of PeerSender.  Processes are interchangeable, and so   *)
(* are messages where all of them are chat wakes or none is.               *)
(***************************************************************************)
EXTENDS PeerSender, TLC

ProcessSymmetry == Permutations(Process)
MessageSymmetry == Permutations(Message)

=============================================================================
