SPECIFICATION FairSpec
CONSTANTS
  a = a
  b = b
  p = p
  q = q
  Member = {a, b}
  Process = {p, q}
  NoProcess = NoProcess
  ResponseRounds = 1
  FollowUpLimit = 0
  MaxAsked = 0
  Happens = {"crash", "stop", "stall", "late"}
INVARIANT TypeOK
INVARIANT PostedWhenReplied
INVARIANT ResponsesFollowReplies
PROPERTY SettledStays
PROPERTY OwnTurnsLeftAlone
PROPERTY TurnsEnd
PROPERTY Concludes
CHECK_DEADLOCK FALSE
