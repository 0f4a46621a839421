SPECIFICATION Spec
CONSTANTS
  Devices = {d1}
  Translating={d1}
  MaxInputs = 1
  MaxFrames = 2
  MaxEvents = 1
INVARIANT EndIsLast
CHECK_DEADLOCK FALSE
