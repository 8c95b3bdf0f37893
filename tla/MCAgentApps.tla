----------------------------- MODULE MCAgentApps ------------------------------
(***************************************************************************)
(* A small instance of AgentApps: one console that starts instances and a  *)
(* CLI.  The two are not symmetric; generations are only compared with     *)
(* each other, and so are the contents of the data directory.              *)
(***************************************************************************)
EXTENDS AgentApps, TLC

CONSTANTS h1, h2, g1, g2, first, other

Alike == Permutations(Generation) \cup Permutations(Written)

=============================================================================
