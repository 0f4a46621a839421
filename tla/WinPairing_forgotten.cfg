SPECIFICATION Spec
CONSTANTS
  Devices = {d1, d2}
  NoDevice = NoDevice
  Slots = {1, 2}
  DiscoveryAttempts = 2
  MaxFaults = 1
  InitiallyPaired = {d1}
  MaxInputs = 1
INVARIANTS
  OnlyPairedServed
CHECK_DEADLOCK FALSE
