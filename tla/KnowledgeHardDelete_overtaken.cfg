SPECIFICATION FairSpec
CONSTANTS
  i1 = i1
  page = page
  check = check
  Item = {i1}
  NoItem = NoItem
  MaxSent = 1
  MaxOps = 3
  Flow = {page, check}
  Checker = {check}
  MaxFaults = 0
  Happens = {"elsewhere"}
PROPERTY DeletedIsNotStored
CHECK_DEADLOCK FALSE
