------------------------ MODULE MCKnowledgeHardDelete -------------------------
(***************************************************************************)
(* KnowledgeHardDelete for TLC: one item, a page and a console's check,    *)
(* one confirmed operation and two that adopt what the record lost.        *)
(***************************************************************************)
EXTENDS KnowledgeHardDelete, TLC
==============================================================================
