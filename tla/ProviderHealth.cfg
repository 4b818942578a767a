SPECIFICATION Spec
CONSTANTS
  Sources = {s1, s2}
  Workers = {w1, w2}
  Events = {1, 2}
  Adapter = "openapi"
INVARIANTS
  NoDeadlock
  FailuresAreCounted
  ProviderFollowsItsSources
SYMMETRY Interchangeable
