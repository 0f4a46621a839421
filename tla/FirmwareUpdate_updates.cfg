SPECIFICATION FairSpec
CONSTANTS
  MaxUpdates = 2
  ImageChunks = 3
  ProgressStep = 2
  InFlight = 1
  MaxFaults = 1
INVARIANTS
  BootsSentImage
  SuccessIsInstalled
  HandleOwned
PROPERTIES
  UpdateEnds
CHECK_DEADLOCK FALSE
