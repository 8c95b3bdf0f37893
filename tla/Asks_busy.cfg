SPECIFICATION FairSpec
CONSTANTS
  a1 = a1
  a2 = a2
  h1 = h1
  h2 = h2
  Ask = {a1, a2}
  NoAsk = NoAsk
  Instant = {a1, a2}
  Handler = {h1, h2}
  MaxAttempts = 1
  Happens = {}
PROPERTY BusyIsWokenLater
CHECK_DEADLOCK FALSE
