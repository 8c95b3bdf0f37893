--------------------------- MODULE MCPeerDelivery ----------------------------
(***************************************************************************)
(* Small instances of PeerDelivery.  Messages are interchangeable where    *)
(* all of them are chat wakes or none is, so safety runs use symmetry.     *)
(***************************************************************************)
EXTENDS PeerDelivery, TLC

MessageSymmetry == Permutations(Message)

=============================================================================
