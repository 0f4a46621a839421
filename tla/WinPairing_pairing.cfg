SPECIFICATION FairSpec
CONSTANTS
  Devices = {d1, d2}
  NoDevice = NoDevice
  Slots = {1, 2}
  DiscoveryAttempts = 2
  MaxFaults = 1
  InitiallyPaired = {d1}
  MaxInputs = 2
INVARIANTS
  OneConnect
  ListsAgree
  LostIsForgotten
PROPERTIES
  SavedHasAnswered
  Reconnects
CHECK_DEADLOCK FALSE
