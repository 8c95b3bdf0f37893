SPECIFICATION FairSpec
CONSTANTS
  m1 = m1
  p1 = p1
  p2 = p2
  Message = {m1}
  ChatWake = {m1}
  Process = {p1, p2}
  NoMessage = NoMessage
  Faults = {"ambiguous", "crash"}
  MaxCrashes = 1
INVARIANT ShownIsTrue
PROPERTY OutcomeIsSeen
CHECK_DEADLOCK FALSE
