SPECIFICATION FairSpec
CONSTANTS
  s1 = s1
  s2 = s2
  t1 = t1
  g1 = g1
  g2 = g2
  r1 = r1
  r2 = r2
  pw = pw
  None = None
  Clear = Clear
  Participants = {t1}
  Students = {}
  GroupIds = {g1, g2}
  Names = {1, 2}
  Passwords = {}
  Updates <- ReopenOrRename
  Settings <- FreeNames
  Requests = {r1}
  MaxHandlers = 1
PROPERTIES EmptyGroupsClosed
