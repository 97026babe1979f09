--------------------------------- MODULE Activity ---------------------------------
(****************************************************************************)
(* How often a student visits a course (activity/): every request for the   *)
(* course publishes an ActivityEvent, whose handler looks for the latest    *)
(* activity and stores another one if that is not of the same day.          *)
(*                                                                          *)
(* One student and one course; the others do not interfere.  The event has  *)
(* the day of the request, the stored activity that of its insertion.       *)
(****************************************************************************)
EXTENDS Naturals, FiniteSets

CONSTANTS
  Requests,       \* requests whose handlers may work at the same time
  MaxDay,         \* bound: days
  MonthLength,    \* days of a month
  MaxStored,      \* bound: activities stored for a day
  None            \* undefined

VARIABLES
  today,
  stored,         \* the number of activities stored for each day
  handler,        \* the handlers
  known           \* handlers whose day had an activity when they began (for properties)

vars == <<today, stored, handler, known>>

--------------------------------------------------------------------------------

(* What the constants are assumed to be. *)
ConstantsOK == MaxDay \in Nat \ {0} /\ MonthLength \in Nat \ {0}

Days == 1..MaxDay

Idle == [at |-> "idle"]

getDate(day) == (day - 1) % MonthLength

getMonth(day) == (day - 1) \div MonthLength

(* Mutant of isSameDay: the month is forgotten. *)
isSameDay_DateOnly(first, second) == getDate(first) = getDate(second)

isSameDay(first, second) ==
  getDate(first) = getDate(second) /\ getMonth(first) = getMonth(second)

(* Mutant of Latest: ascending order. *)
Latest_Oldest(days) == CHOOSE d \in days : \A e \in days : d <= e

Latest(days) == CHOOSE d \in days : \A e \in days : e <= d

(* getCourseById of the controller, for a student. *)
Visit(r) ==
  /\ handler[r].at = "idle"
  /\ handler' = [handler EXCEPT ![r] = [at |-> "published", date |-> today]]
  /\ known' = IF stored[today] > 0 THEN known \cup {r} ELSE known \ {r}
  /\ UNCHANGED <<today, stored>>

(* _tryGetLatestActivity *)
FindLatest(r) ==
  LET days == {d \in Days : stored[d] > 0}
  IN  /\ handler[r].at = "published"
      /\ handler' = [handler EXCEPT ![r] =
           [at |-> IF days = {} \/ ~isSameDay(handler[r].date, Latest(days))
                   THEN "new" ELSE "same",
            date |-> handler[r].date]]
      /\ UNCHANGED <<today, stored, known>>

(* insert, with the date of today *)
Insert(r) ==
  /\ handler[r].at = "new"
  /\ stored[today] < MaxStored
  /\ stored' = [stored EXCEPT ![today] = @ + 1]
  /\ handler' = [handler EXCEPT ![r].at = "stored"]
  /\ UNCHANGED <<today, known>>

Done(r) ==
  /\ handler[r].at \in {"same", "stored"}
  /\ handler' = [handler EXCEPT ![r] = Idle]
  /\ UNCHANGED <<today, stored, known>>

Midnight ==
  /\ today < MaxDay
  /\ today' = today + 1
  /\ UNCHANGED <<stored, handler, known>>

Init ==
  /\ today = 1
  /\ stored = [d \in Days |-> 0]
  /\ handler = [r \in Requests |-> Idle]
  /\ known = {}

Next ==
  \/ \E r \in Requests : Visit(r) \/ FindLatest(r) \/ Insert(r) \/ Done(r)
  \/ Midnight

Spec == Init /\ [][Next]_vars

--------------------------------------------------------------------------------
(* Properties *)

(* A handler that has done its work leaves an activity of the day of the visit, or of a
   day up to now when the insertion has been late. *)
VisitRecorded ==
  \A r \in Requests :
    handler[r].at \in {"same", "stored"} => \E d \in handler[r].date..today : stored[d] > 0

(* When the day of a visit has an activity already, the handler adds none on that day:
   only handlers that work at the same time store the same day twice. *)
AddsToNewDay ==
  \A r \in known :
    handler[r].at = "new" /\ handler'[r].at = "stored" => today > handler[r].date

StoredOnce == [][AddsToNewDay]_vars
===================================================================================
