SPECIFICATION SessionFairSpec
CONSTANTS
  CleanSession = TRUE
  Qos = 0
  InOnConnect = FALSE
  QueueLimit = 2
  Poison = {}
  MaxPublished = 2
  MaxBreaks = 1
PROPERTIES
  Resubscribed
CHECK_DEADLOCK FALSE
