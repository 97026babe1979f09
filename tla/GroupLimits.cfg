SPECIFICATION Spec
CONSTANTS
  s1 = s1
  s2 = s2
  t1 = t1
  g1 = g1
  g2 = g2
  r1 = r1
  r2 = r2
  pw = pw
  None = None
  Clear = Clear
  Participants = {s1, t1}
  Students = {s1}
  GroupIds = {g1}
  Names = {1}
  Passwords = {pw}
  Updates <- CloseOrProtect
  Settings <- FreeNames
  Requests = {r1, r2}
  MaxHandlers = 1
SYMMETRY Symmetry
INVARIANTS OvershootBounded JoinRecorded
