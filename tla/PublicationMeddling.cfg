CONSTANTS
  Deciders = {d1}
  MaxAttempts = 2
  MaxVersion = 8
  Faults = {"refused", "lost"}
  Meddling = "between"
SPECIFICATION Spec
CHECK_DEADLOCK FALSE
PROPERTIES
  HumanWorkSurvives
  ReadyIsNotRewritten
