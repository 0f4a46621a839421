SPECIFICATION BleFairSpec
CONSTANTS
  MaxBundle = 4
  AckWindowBatches = 2
  Mtus = {128, 129, 183, 184, 238, 239, 247}
  MaxFaults = 2
  MaxSeq = 4
INVARIANTS
  LastRequestHeard
PROPERTIES
  ProfileCarries
  Discoverable
