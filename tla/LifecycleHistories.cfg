CONSTANTS
  Requests = {r1}
  Keys = {k1, k2}
  JobSlots = {j1, j2}
  ClientOps = {"generate", "publish", "approve", "revise", "snooze", "decline"}
  MaxAttempts = 2
SPECIFICATION Spec
SYMMETRY Symmetry
CHECK_DEADLOCK FALSE
INVARIANTS
  PublishedIsVerified
  AttemptFollowsMigration
  PublicationFollowsMigration
  WorkerOwnsItsWork
  HistoryIsAChain
PROPERTIES
  MigrationIsVersioned
  StaleJobsAdvanceNothing
