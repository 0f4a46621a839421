SPECIFICATION FairSpec
CONSTANTS
  MaxBundle = 2
  AckWindowBatches = 1
  Mtus <- MCMtus
  QueueDepth = 2
  MaxRetries = 2
  MaxSessions = 1
  MaxFrames = 4
PROPERTIES
  StreamDelivered
  StopCompletes
