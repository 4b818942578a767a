CONSTANTS
  Requests = {r1}
  Keys = {k1}
  JobSlots = {j1}
  ClientOps = {"generate", "publish", "approve", "revise", "snooze", "decline"}
  MaxAttempts = 2
SPECIFICATION CrashySpec

CHECK_DEADLOCK FALSE
PROPERTIES
  PoisonJobsBecomeVisible
