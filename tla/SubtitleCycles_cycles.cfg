SPECIFICATION FairSpec
CONSTANTS
  Devices = {d1,d2}
  Translating={d2}
  MaxInputs = 2
  MaxFrames = 1
  MaxEvents = 1
INVARIANTS
  FedItsOwn
PROPERTIES
  RecordingGoesOn
  DroppedNotShown
  CyclesEnd
CHECK_DEADLOCK FALSE
