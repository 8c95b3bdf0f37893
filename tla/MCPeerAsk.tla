------------------------------ MODULE MCPeerAsk -------------------------------
(***************************************************************************)
(* Small instances of PeerAsk.                                             *)
(***************************************************************************)
EXTENDS PeerAsk, TLC

MessageSymmetry == Permutations(Message)

=============================================================================
