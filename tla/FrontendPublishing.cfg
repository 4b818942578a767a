SPECIFICATION Spec
CONSTANTS
  Polls = {p1}
  MaxVersion = 7
  Tabs = {t1}
  MaxJobs = 1
  MaxRows = 1
  PageSize = 1
INVARIANT ActiveWorkIsPolled
CHECK_DEADLOCK FALSE
