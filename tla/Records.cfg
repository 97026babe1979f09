SPECIFICATION Spec
CONSTANTS
  Parts = {"accounts", "enrolment", "allocations", "mailing", "activity", "notices"}
  Requests = {r1, r2}
  None = None
  Usernames = {n1, n2}
  Initial = {n1}
  MaxId = 2
  TTL = 1
  Latency = 1
  Users = {lecturer, admin}
  Admins = {admin}
  Lecturer = lecturer
  Passwords = {"password"}
  NoPassword = "none"
  Groups = {g1}
  Students = {s1}
  Evaluators = {e1, e2}
  Old = "old"
  New = "new"
  Joined <- SomeTables
  Receivers = {u1, u2}
  Profiles <- SomeProfiles
  MaxChanges = 2
  Visits = {r1, r2, r3}
  MaxDay = 3
  MonthLength = 2
  MaxStored = 3
  Names = {n1}
  Events = {"started", "evaluated"}
INVARIANTS
  BoundedStaleness SettingsComplete ParticipantsBelong OnlyJoinersAnnounced WorkSplit
  OnlyWantedMails EverybodyTold EndsOnlyWhenMissing VisitRecorded
PROPERTIES OneAccount ChangesEntitled StoredOnce NotifiedOnce
SYMMETRY Interchangeable
CHECK_DEADLOCK FALSE
