SPECIFICATION FairSpec
CONSTANTS
  Devices = {d1, d2}
  InitiallyPaired = {d1}
  SameHardware = {d2}
  Reported <- MCReported
  Releases <- MCReleases
  MaxInputs = 3
  MaxFaults = 1
INVARIANTS
  PromptedOnce
  ShownSettles
PROPERTIES
  ChecksEnd
CHECK_DEADLOCK FALSE
