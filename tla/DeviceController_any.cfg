SPECIFICATION Spec
CONSTANTS
  QueueLength = 1
  MaxSessions = 2
  Modes = {"hold_to_talk", "click_to_talk"}
  UiStates = {}
  Sources = {"link", "update", "power", "dim", "sleep"}
  Exhaustion = TRUE
INVARIANTS
  ResourcesFollow
