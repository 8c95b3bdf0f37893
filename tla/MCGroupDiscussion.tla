-------------------------- MODULE MCGroupDiscussion ---------------------------
(***************************************************************************)
(* Small instances of GroupDiscussion.  Members are interchangeable, and   *)
(* so are processes.                                                       *)
(***************************************************************************)
EXTENDS GroupDiscussion, TLC

MemberSymmetry == Permutations(Member) \cup Permutations(Process)

=============================================================================
