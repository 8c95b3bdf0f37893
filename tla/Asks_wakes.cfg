SPECIFICATION FairSpec
CONSTANTS
  a1 = a1
  a2 = a2
  h1 = h1
  h2 = h2
  Ask = {a1, a2}
  NoAsk = NoAsk
  Instant = {a1}
  Handler = {h1, h2}
  MaxAttempts = 2
  Happens = {"crash", "close", "inbox", "cancel", "unconfirmed", "desktop"}
INVARIANT TypeOK
INVARIANT OneWakePerAgent
INVARIANT FinishedMeansStopped
PROPERTY ClaimEnds
CHECK_DEADLOCK FALSE
