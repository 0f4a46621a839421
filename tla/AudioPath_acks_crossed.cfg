SPECIFICATION Spec
CONSTANTS
  MaxBundle = 2
  AckWindowBatches = 1
  Mtus <- MCMtus
  QueueDepth = 2
  MaxRetries = 2
  MaxSessions = 2
  MaxFrames = 1
INVARIANT AckProvesDelivery
CHECK_DEADLOCK FALSE
