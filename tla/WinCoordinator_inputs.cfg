SPECIFICATION FairSpec
CONSTANTS
  Devices = {d1, d2}
  Translating = {d2}
  Texts = {"a"}
  NoDevice = none
  InitialMode = "hold"
  MaxInputs = 2
  MaxFrames = 1
  MaxEvents = 1
INVARIANTS
  UiAgrees
  FedItsOwn
  TypedOnce
PROPERTIES
  DroppedNotTyped
  Settles
CHECK_DEADLOCK FALSE
