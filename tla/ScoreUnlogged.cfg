SPECIFICATION Spec
CONSTRAINT Small
CONSTANTS
  u1 = u1
  u2 = u2
  a1 = a1
  a2 = a2
  a3 = a3
  k1 = k1
  r1 = r1
  r2 = r2
  p1 = p1
  p2 = p2
  None = None
  Users = {u1, u2}
  Ids = {a1, a2, a3}
  PartialIds = {p1, p2}
  Keys = {k1}
  KeySets <- NoKeys
  Updates <- ScoreOrPartials
  Scores = {1, 2}
  Achievable = 1
  Requests = {r1, r2}
  BulkSize = 2
  Exits = FALSE
SYMMETRY Symmetry
INVARIANT ScoreChangesLogged
