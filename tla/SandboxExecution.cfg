CONSTANTS
  Attempts = {a1, a2}
  Proposals <- Proposable
  Deployments = {"ready", "wrong_url", "no_token"}
  MaxInstances = 1
  Patience = 2
  MaxDuration = 6
  Faults = {"container", "teardown", "worker", "connection"}
  MaxFiles = 2
  MaxEdits = 2
  MaxChecks = 2
  MaxTimeout = 2
  MaxRequest = 4
  MaxBundleFiles = 2
SPECIFICATION FairSpec
CHECK_DEADLOCK FALSE
INVARIANTS
  CreditIsEarned
  FailureIsTheCodes
  RefusalIsExplained
PROPERTIES
  EveryRequestIsAnswered
