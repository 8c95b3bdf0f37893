SPECIFICATION FairSpec
CONSTANTS
  i1 = i1
  page = page
  check = check
  Item = {i1}
  NoItem = NoItem
  MaxSent = 1
  MaxOps = 3
  Flow = {page, check}
  Checker = {check}
  MaxFaults = 1
  Happens = {"crash", "lose", "restore", "backup", "unreachable", "busy", "refuse", "elsewhere"}
INVARIANT TypeOK
INVARIANT WatermarkIsRecorded
INVARIANT OnlyOvertakenWordsAreRead
INVARIANT NotDeletedIsTrue
PROPERTY NeverStoredAgain
PROPERTY GateReopens
CHECK_DEADLOCK FALSE
