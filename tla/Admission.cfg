SPECIFICATION Spec
CONSTANTS
  s1 = s1
  a1 = a1
  a2 = a2
  None = None
  Absent = Absent
  Students = {s1}
  Assignments = {a1, a2}
  TypeOf <- SameType
  Previous = {}
  Plans <- FiftyAndMore
  Scores = {7, 29}
  RuleSets <- Rulings
  Low <- TooLow
  High <- TooHigh
INVARIANTS StatusExact NotAdmittedByChance NoPreview
PROPERTIES MorePointsNeverHurt
