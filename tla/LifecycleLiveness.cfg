CONSTANTS
  Requests = {r1, r2}
  Keys = {k1}
  JobSlots = {j1, j2}
  ClientOps = {"generate", "publish", "approve", "revise", "snooze", "decline"}
  MaxAttempts = 1
SPECIFICATION CalmSpec

CHECK_DEADLOCK FALSE
INVARIANT NoLostDecision
PROPERTIES
  GenerationSettles
  PublicationSettles
