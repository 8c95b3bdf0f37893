SPECIFICATION Spec
CONSTANTS
  a = a
  b = b
  p = p
  q = q
  Member = {a, b}
  Process = {p, q}
  NoProcess = NoProcess
  ResponseRounds = 0
  FollowUpLimit = 2
  MaxAsked = 1
  Happens = {"close", "summary", "expire", "unwakeable"}
INVARIANT FollowUpOnce
PROPERTY RunsOnce
SYMMETRY MemberSymmetry
CHECK_DEADLOCK FALSE
