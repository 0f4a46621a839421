SPECIFICATION FairSpec
CONSTANTS
  QueueLength = 3
  MaxSessions = 2
  Modes = {"hold_to_talk"}
  UiStates = {"ready", "pending_confirmation"}
  Sources = {"link", "update", "sleep", "side"}
  Exhaustion = FALSE
INVARIANTS
  HeldWhileRecording
  UpdateStopsRecording
  IdleSleeps
  ReleaseAnnounced
PROPERTIES
  ReleaseStops
