CONSTANTS
  Deciders = {d1}
  MaxAttempts = 3
  MaxVersion = 10
  Faults = {"refused", "lost"}
  Meddling = "never"
SPECIFICATION Spec
CHECK_DEADLOCK FALSE
INVARIANTS
  OpenedShowsTheAttempt
PROPERTIES
  MaintainsADraft
