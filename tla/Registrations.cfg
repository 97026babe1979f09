SPECIFICATION Spec
CONSTANTS
  p1 = p1
  p2 = p2
  g1 = g1
  g2 = g2
  c1 = c1
  c2 = c2
  None = None
  Participants = {p1, p2}
  GroupIds = {g1, g2}
  InitialGroups = {}
  Calls = {c1, c2}
  SizeMin = 2
  Wanted = {"IN_PROGRESS", "CLOSED"}
  MayHappen = {"edit", "remove", "exit"}
SYMMETRY Symmetry
INVARIANTS TypeOK RegistrationIntegrity
PROPERTIES StartsRegisterOnce
