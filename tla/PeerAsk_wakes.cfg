SPECIFICATION AskSpec
CONSTANTS
  m1 = m1
  m2 = m2
  p1 = p1
  Message = {m1, m2}
  ChatWake = {m1, m2}
  MaxStartAttempts = 1
  QueuePerNode = 2
  Happens = {"chat"}
  AnswerSizes = {"fits"}
  Process = {p1}
  NoMessage = NoMessage
  Faults = {"ambiguous", "crash"}
  MaxCrashes = 1
INVARIANT OneWakeEndToEnd
INVARIANT ShownIsOver
SYMMETRY MessageSymmetry
CHECK_DEADLOCK FALSE
