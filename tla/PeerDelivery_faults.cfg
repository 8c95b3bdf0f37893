SPECIFICATION FairSpec
CONSTANTS
  m1 = m1
  Message = {m1}
  ChatWake = {}
  MaxStartAttempts = 2
  QueuePerNode = 1
  Happens = {"crash", "cancel", "expire", "renew", "lose"}
  AnswerSizes = {"fits"}
INVARIANT TypeOK
INVARIANT OneAttemptIsConfirmed
INVARIANT NeverTakenForUnstarted
INVARIANT NeverReportedUnstarted
PROPERTY ImplementsRemoteDelivery
PROPERTY Settles
PROPERTY AnswersArrive
CHECK_DEADLOCK FALSE
