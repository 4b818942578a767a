SPECIFICATION Spec
CONSTANTS
  Polls = {p1, p2}
  MaxVersion = 8
  Tabs = {t1, t2}
  MaxJobs = 3
  MaxRows = 4
  PageSize = 1
INVARIANTS
  TypeOK
  OfferedIsAccepted
  VerdictIsOfTheLastRetry
  PagesListEachOnce
  LiveFailuresStayVisible
PROPERTIES
  DecidedOnWhatWasShown
  PreviewFollowsTheTable
  ActiveWorkIsRefreshed
  PendingRunIsFollowed
CHECK_DEADLOCK FALSE
