SPECIFICATION FairSpec
CONSTANTS
  MaxSessions = 3
  MaxChunks = 1
  MaxFaults = 1
INVARIANTS
  AudioOfItsOwn
  FinalIsItsOwn
PROPERTIES
  KeepsPromise
  SessionsEnd
CHECK_DEADLOCK FALSE
