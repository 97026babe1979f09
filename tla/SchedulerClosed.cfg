SPECIFICATION FairSpec
CONSTANTS
  a1 = a1
  a2 = a2
  None = None
  Unread = Unread
  Assignments = {a1, a2}
  NewRows <- WithClosed
  Updates <- NoUpdates
  MaxTime = 3
  MaxDelay = 3
  MaxRequests = 1
  MaxRuns = 2
  MaxRestarts = 0
  RegistrationMayFail = FALSE
  Orderly = TRUE
PROPERTIES SwitchedOnTime
CHECK_DEADLOCK FALSE
