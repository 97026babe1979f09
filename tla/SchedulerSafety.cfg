SPECIFICATION Spec
CONSTANTS
  a1 = a1
  a2 = a2
  None = None
  Unread = Unread
  Assignments = {a1, a2}
  NewRows <- Together
  Updates <- MoveStart
  MaxTime = 2
  MaxDelay = 1
  MaxRequests = 1
  MaxRuns = 2
  MaxRestarts = 1
  RegistrationMayFail = TRUE
  Orderly = FALSE
SYMMETRY Symmetry
CONSTRAINT Small
INVARIANTS TypeOK TimersFresh
PROPERTIES NeverEarly
CHECK_DEADLOCK FALSE
