SPECIFICATION Spec
CONSTANTS
  Connections = {c1, c2, c3}
  MaxAttempts = 2
  Faults = {"death", "work", "answer", "claim"}
INVARIANTS
  NoDeadlock
  ChecksHold
PROPERTIES
  ClaimantsSettle
SYMMETRY Interchangeable
