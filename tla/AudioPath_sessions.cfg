SPECIFICATION Spec
CONSTANTS
  MaxBundle = 2
  AckWindowBatches = 1
  Mtus <- MCMtus
  QueueDepth = 2
  MaxRetries = 2
  MaxSessions = 2
  MaxFrames = 3
INVARIANTS
  EndClosesCapture
  ResourcesOwned
  AirWithinWindow
  AckedWasHeard
