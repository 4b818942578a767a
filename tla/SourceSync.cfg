CONSTANTS
  e1 = e1
  e2 = e2
  Documents <- Chain
  Adapter = "openapi"
  Repositories = {repo}
  Keys = {k1, k2, k3}
  Workers = {w1, w2}
  Faults = {"refused"}
SPECIFICATION Spec
SYMMETRY Symmetry
CHECK_DEADLOCK FALSE
INVARIANTS
  MovesAreSeen
  AnalysisIsExclusive
  MigrationHasItsJob
  WorkIsCarried
PROPERTIES
  TerminalSyncStays
