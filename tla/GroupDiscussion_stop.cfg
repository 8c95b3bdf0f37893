SPECIFICATION Spec
CONSTANTS
  a = a
  b = b
  p = p
  q = q
  Member = {a, b}
  Process = {p, q}
  NoProcess = NoProcess
  ResponseRounds = 0
  FollowUpLimit = 1
  MaxAsked = 1
  Happens = {"stop"}
PROPERTY StopIsFinal
SYMMETRY MemberSymmetry
CHECK_DEADLOCK FALSE
