SPECIFICATION Spec
CONSTANTS
  m1 = m1
  m2 = m2
  Message = {m1, m2}
  ChatWake = {m1, m2}
  MaxStartAttempts = 1
  QueuePerNode = 2
  Happens = {"crash", "withdraw", "stop", "revoke"}
  AnswerSizes = {"fits"}
INVARIANT OneProcessPerAgent
INVARIANT OneChatWakeAtATime
PROPERTY NothingStartsUnshared
SYMMETRY MessageSymmetry
CHECK_DEADLOCK FALSE
