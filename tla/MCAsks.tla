-------------------------------- MODULE MCAsks --------------------------------
(***************************************************************************)
(* Small instances of Asks.                                                *)
(***************************************************************************)
EXTENDS Asks, TLC

HandlerSymmetry == Permutations(Handler)

=============================================================================
