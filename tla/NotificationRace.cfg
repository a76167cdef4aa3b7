SPECIFICATION ChannelSpec
CONSTANTS
  Key = {k1}
  Dispatcher = {d1, d2}
  Operator = {o1}
  Sweeper = {s1, s2}
  NoRecord = noRecord
  NoKey = noKey
  MaxAttempts = 2
  FirstBackoff = 1
  Retention = 1
  MaxClock = 2
  MaxRaise = 2
  MaxCrash = 1
  Recipient = {r1, r2}
  NoRecipient = noRecipient
  Deployments = {r1, noRecipient}
  Chooser = {c1, c2}
  MaxChoices = 1
INVARIANTS
  DeliveredWasAccepted
  RecipientTakesOver
  AttemptsWereSent
PROPERTIES
  RemovedWasAcknowledged
  NotificationSettles
CHECK_DEADLOCK FALSE
