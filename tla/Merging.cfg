SPECIFICATION MergingSpec
CONSTANTS
  None = None
  Count = 4
  MaxMembers = 3
  MaxStudents = 5
  Sizes <- Ranges
  Records <- SomeRecords
INVARIANTS ActivityContract ActivitySizes ActivityRanking SimpleTogether SimpleRoom
CHECK_DEADLOCK FALSE
