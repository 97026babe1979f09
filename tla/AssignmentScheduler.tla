-------------------------- MODULE AssignmentScheduler --------------------------
(****************************************************************************)
(* The automatic starting and stopping of assignments                       *)
(* (task-scheduling/assignment-scheduler.service.ts), together with the     *)
(* part of AssignmentService that it calls and that wakes it up.            *)
(*                                                                          *)
(* The scheduler keeps two timers, for the next start and the next stop of  *)
(* any assignment.  A timer that fires starts a job, which queries the      *)
(* assignments that are due and updates each.  The timers are set again     *)
(* only by a run of scheduleNextStartAndStop, which each Assignment event   *)
(* triggers and nobody awaits.                                              *)
(*                                                                          *)
(* Only the order of the dates matters: they are numbers, and the clock     *)
(* counts how many of them have passed, up to MaxTime.  No query is made in *)
(* the very millisecond of a date, so a date is either due or upcoming.     *)
(****************************************************************************)
EXTENDS Naturals, FiniteSets

CONSTANTS
  Assignments,    \* uuids of assignments
  NewRows,        \* the assignments that staff may create
  Updates,        \* the AssignmentUpdateDtos that staff may send
  MaxTime,        \* bound: the last date
  MaxDelay,       \* the longest delay setTimeout can wait: 2^31 - 1 ms
  MaxRequests,    \* bound: updates requested by staff at the same time
  MaxRuns,        \* bound: runs of scheduleNextStartAndStop in progress
  MaxRestarts,    \* bound: exits of the process
  RegistrationMayFail, \* whether registering the groups may end in an error
  Orderly,        \* whether the server finishes what it has begun before the
                  \* next date passes and before staff sends the next request,
                  \* and staff sets no date that has already passed
  None,           \* null or undefined
  Unread          \* the result of a query that is still running

VARIABLES
  now,            \* the clock: the number of dates that have passed
  rows,           \* table assignments: id -> row, or None
  usedIds,        \* ids that have been given to some assignment
  up,             \* whether the process is running
  updates,        \* calls of updateAssignment in progress
  jobs,           \* startAssignments / stopAssignments about to query
  runs,           \* runs of scheduleNextStartAndStop in progress
  timers,         \* when the two timeouts of the SchedulerRegistry fire, or None
  restarts,       \* how often the process has exited
  stale,          \* history: the jobs for which a run read the table before its
                  \* last change
  missed          \* history: the jobs whose timers were set from such a reading,
                  \* or not at all where they should have been

vars == <<now, rows, usedIds, up, updates, jobs, runs, timers, restarts, stale, missed>>

--------------------------------------------------------------------------------

States == {"INVISIBLE", "CLOSED", "IN_PROGRESS", "IN_REVIEW", "EVALUATED"}

(* The two jobs, which work alike: at startDate INVISIBLE assignments become
   IN_PROGRESS, at endDate IN_PROGRESS ones become IN_REVIEW. *)
Jobs == {"start", "stop"}
From == [start |-> "INVISIBLE", stop |-> "IN_PROGRESS"]
To   == [start |-> "IN_PROGRESS", stop |-> "IN_REVIEW"]

Dates == 1 .. MaxTime

Times == 0 .. MaxTime

(* date.start is the column startDate, date.stop the column endDate. *)
Row == [state : States, date : [Jobs -> Dates \cup {None}]]

UpdateDto == [state : States \cup {None}, date : [Jobs -> Dates \cup {None}]]

(* A call of updateAssignment: the state its caller has seen, and the merged row
   once the repository has read the table.  The scheduler's calls also hold the date
   on which the job found the assignment due.  Calls that are alike in everything
   are one. *)
Update == [by : {"staff", "scheduler"}, id : Assignments, old : States,
           due : Dates \cup {None}, dto : UpdateDto, row : Row \cup {None}]

Slots == 1 .. MaxRuns
Run == [Jobs -> Dates \cup {None, Unread}]
NewRun == [j \in Jobs |-> Unread]

ASSUME ConstantsOK ==
  /\ MaxTime \in Nat /\ MaxDelay \in Nat /\ MaxRequests \in Nat
  /\ MaxRuns \in Nat \ {0} /\ MaxRestarts \in Nat
  /\ Orderly \in BOOLEAN /\ RegistrationMayFail \in BOOLEAN
  /\ None # Unread
  /\ None \notin Times /\ Unread \notin Times
  /\ None \notin States /\ None \notin Row /\ None \notin Run
  /\ NewRows \subseteq Row /\ Updates \subseteq UpdateDto

--------------------------------------------------------------------------------
(* Queries *)

Existing == {a \in Assignments : rows[a] # None}

(* Mutant of Due: the timer is trusted to have fired at the right time. *)
Due_IgnoresDate(j) == {a \in Existing : rows[a].state = From[j]}

(* findAssignmentsThatShouldBeStarted / -Stopped.  NULL is not due. *)
Due(j) == {a \in Existing : /\ rows[a].state = From[j]
                            /\ rows[a].date[j] # None
                            /\ rows[a].date[j] <= now}

(* findNextAssignment: for the next start only INVISIBLE assignments count, for
   the next stop those of any state. *)
Upcoming(j) == {rows[a].date[j] : a \in
                 {b \in Existing : /\ rows[b].date[j] # None
                                   /\ rows[b].date[j] > now
                                   /\ j = "start" => rows[b].state = "INVISIBLE"}}

NextDate(j) == IF Upcoming(j) = {} THEN None
               ELSE CHOOSE d \in Upcoming(j) : \A e \in Upcoming(j) : d <= e

(* Mutant of Updated: a state the dto leaves out is not kept. *)
Updated_NoDefault(row, dto) ==
  [state |-> dto.state,
   date  |-> [j \in Jobs |-> IF dto.date[j] = None THEN row.date[j] ELSE dto.date[j]]]

(* AssignmentRepository.updateAssignment: the row as read, with the dto's fields. *)
Updated(row, dto) ==
  [state |-> IF dto.state = None THEN row.state ELSE dto.state,
   date  |-> [j \in Jobs |-> IF dto.date[j] = None THEN row.date[j] ELSE dto.date[j]]]

(* setTimeout: a delay that does not fit into 32 bits is replaced by one of 1 ms. *)
FireAt(date) == IF date > now + MaxDelay THEN now ELSE date

TimerDue(j) == timers[j] # None /\ timers[j] <= now

(* Nothing is left to do at the present time. *)
Quiet == /\ up
         /\ updates = {} /\ jobs = {}
         /\ \A i \in Slots : runs[i] = None
         /\ \A j \in Jobs : ~TimerDue(j)

MayRequest(date) ==
  /\ up
  /\ Orderly => Quiet /\ \A j \in Jobs : date[j] # None => date[j] > now

NoDate == [j \in Jobs |-> None]

--------------------------------------------------------------------------------
(* scheduleNextStartAndStop *)

(* The saga starts a run for every AssignmentCreated, -Updated and -Removed. *)
TriggerRun ==
  \E i \in Slots :
    /\ runs[i] = None
    /\ \A k \in Slots : runs[k] = None => i <= k
    /\ runs' = [runs EXCEPT ![i] = NewRun]

(* For TimersFresh: what the runs in progress have read is no longer what the table
   holds. *)
Outdate ==
  stale' = [i \in Slots |-> {j \in Jobs : runs[i] # None /\ runs[i][j] # Unread}]

(* The two queries of a run are answered independently ... *)
ReadNext(i, j) ==
  /\ runs[i] # None /\ runs[i][j] = Unread
  /\ runs' = [runs EXCEPT ![i] = [@ EXCEPT ![j] = NextDate(j)]]
  /\ UNCHANGED <<now, rows, usedIds, up, updates, jobs, timers, restarts, stale, missed>>

(* ... and then it replaces both timers, whatever another run has set. *)
SetTimers(i) ==
  /\ runs[i] # None /\ \A j \in Jobs : runs[i][j] # Unread
  /\ timers' = [j \in Jobs |-> IF runs[i][j] = None THEN None ELSE FireAt(runs[i][j])]
  /\ runs' = [runs EXCEPT ![i] = None]
  /\ missed' = stale[i]
  /\ stale' = [stale EXCEPT ![i] = {}]
  /\ UNCHANGED <<now, rows, usedIds, up, updates, jobs, restarts>>

--------------------------------------------------------------------------------
(* startAssignments and stopAssignments *)

(* The event loop runs the callbacks of all timers that are due one after the
   other, before the answer to any query that they send. *)
FireTimers ==
  /\ \E j \in Jobs : TimerDue(j)
  /\ jobs' = jobs \cup {j \in Jobs : TimerDue(j)}
  /\ timers' = [j \in Jobs |-> IF TimerDue(j) THEN None ELSE timers[j]]
  /\ UNCHANGED <<now, rows, usedIds, up, updates, runs, restarts, stale, missed>>

(* The job calls updateAssignment for each assignment that is due, and ends.  When
   it finds none, nobody sets its timer again. *)
RunJob(j) ==
  /\ j \in jobs
  /\ jobs' = jobs \ {j}
  /\ updates' = updates \cup
       {[by |-> "scheduler", id |-> a, old |-> From[j], due |-> rows[a].date[j],
         dto |-> [state |-> To[j], date |-> NoDate],
         row |-> None] : a \in Due(j)}
  /\ missed' = IF Due(j) = {} /\ timers[j] = None THEN missed \cup {j} ELSE missed
  /\ UNCHANGED <<now, rows, usedIds, up, runs, timers, restarts, stale>>

--------------------------------------------------------------------------------
(* AssignmentService *)

(* createAssignment publishes AssignmentCreated before it registers groups. *)
CreateAssignment(row) ==
  /\ MayRequest(row.date)
  /\ \E a \in Assignments \ usedIds :
       /\ rows' = [rows EXCEPT ![a] = row]
       /\ usedIds' = usedIds \cup {a}
  /\ TriggerRun /\ Outdate
  /\ UNCHANGED <<now, up, updates, jobs, timers, restarts, missed>>

DeleteAssignment(a) ==
  /\ MayRequest(NoDate) /\ a \in Existing
  /\ rows' = [rows EXCEPT ![a] = None]
  /\ TriggerRun /\ Outdate
  /\ UNCHANGED <<now, usedIds, up, updates, jobs, timers, restarts, missed>>

(* AssignmentGuard loads the assignment, whose state becomes oldState. *)
RequestUpdate(a, dto) ==
  /\ MayRequest(dto.date) /\ a \in Existing
  /\ Cardinality({u \in updates : u.by = "staff"}) < MaxRequests
  /\ updates' = updates \cup {[by |-> "staff", id |-> a, old |-> rows[a].state,
                               due |-> None, dto |-> dto, row |-> None]}
  /\ UNCHANGED <<now, rows, usedIds, up, jobs, runs, timers, restarts, stale, missed>>

(* AssignmentRepository.updateAssignment reads the row; without one it fails,
   and the scheduler swallows the error ... *)
LoadAssignment(u) ==
  /\ u \in updates /\ u.row = None
  /\ updates' = (updates \ {u}) \cup
                (IF u.id \in Existing
                 THEN {[u EXCEPT !.row = Updated(rows[u.id], u.dto)]} ELSE {})
  /\ UNCHANGED <<now, rows, usedIds, up, jobs, runs, timers, restarts, stale, missed>>

wasStarted(u) == u.row.state = "IN_PROGRESS" /\ u.old # "IN_PROGRESS"

(* Mutant of SaveAssignment: only updates by staff publish AssignmentUpdated. *)
SaveAssignment_Silent(u) ==
  /\ u \in updates /\ u.row # None
  /\ rows' = [rows EXCEPT ![u.id] = u.row]
  /\ updates' = updates \ {u}
  /\ IF u.by = "staff" THEN TriggerRun ELSE UNCHANGED runs
  /\ Outdate
  /\ UNCHANGED <<now, usedIds, up, jobs, timers, restarts, missed>>

(* ... and saves it as a whole, inserting it again if it is gone.  Then the
   groups are registered when the assignment was started; if that fails, the
   update ends here, otherwise AssignmentUpdated is published. *)
SaveAssignment(u) ==
  /\ u \in updates /\ u.row # None
  /\ rows' = [rows EXCEPT ![u.id] = u.row]
  /\ updates' = updates \ {u}
  /\ \/ TriggerRun /\ UNCHANGED missed
     \/ RegistrationMayFail /\ wasStarted(u) /\ missed' = Jobs /\ UNCHANGED runs
  /\ Outdate
  /\ UNCHANGED <<now, usedIds, up, jobs, timers, restarts>>

--------------------------------------------------------------------------------
(* The process and the clock *)

Exit ==
  /\ up /\ restarts < MaxRestarts
  /\ up' = FALSE
  /\ updates' = {} /\ jobs' = {}
  /\ runs' = [i \in Slots |-> None]
  /\ timers' = [j \in Jobs |-> None]
  /\ restarts' = restarts + 1
  /\ stale' = [i \in Slots |-> {}] /\ missed' = {}
  /\ UNCHANGED <<now, rows, usedIds>>

(* Mutant of Boot: only the timers are set, what is overdue is not looked for. *)
Boot_NoCatchUp ==
  /\ ~up
  /\ up' = TRUE
  /\ TriggerRun
  /\ UNCHANGED <<now, rows, usedIds, updates, jobs, timers, restarts, stale, missed>>

(* onInit runs both jobs and sets the timers. *)
Boot ==
  /\ ~up
  /\ up' = TRUE
  /\ jobs' = Jobs
  /\ TriggerRun
  /\ UNCHANGED <<now, rows, usedIds, updates, timers, restarts, stale, missed>>

Tick ==
  /\ now < MaxTime
  /\ Orderly /\ up => Quiet
  /\ now' = now + 1
  /\ UNCHANGED <<rows, usedIds, up, updates, jobs, runs, timers, restarts, stale, missed>>

--------------------------------------------------------------------------------

Init ==
  /\ now = 0
  /\ rows = [a \in Assignments |-> None]
  /\ usedIds = {}
  /\ up = FALSE
  /\ updates = {} /\ jobs = {}
  /\ runs = [i \in Slots |-> None]
  /\ timers = [j \in Jobs |-> None]
  /\ restarts = 0
  /\ stale = [i \in Slots |-> {}] /\ missed = {}

(* What the server does on its own. *)
Work ==
  \/ \E i \in Slots, j \in Jobs : ReadNext(i, j)
  \/ \E i \in Slots : SetTimers(i)
  \/ FireTimers
  \/ \E j \in Jobs : RunJob(j)
  \/ \E u \in updates : LoadAssignment(u) \/ SaveAssignment(u)

Staff ==
  \/ \E row \in NewRows : CreateAssignment(row)
  \/ \E a \in Assignments : DeleteAssignment(a)
  \/ \E a \in Assignments, dto \in Updates : RequestUpdate(a, dto)

Next == Work \/ Staff \/ Tick \/ Boot \/ Exit

Spec == Init /\ [][Next]_vars

(* Queries are answered and timers fire in the end, time passes however often
   staff sends requests, and the process is started again after it has exited. *)
FairSpec == Spec /\ WF_vars(Work) /\ SF_vars(Tick) /\ WF_vars(Boot)

--------------------------------------------------------------------------------
(* Properties *)

(* Every variable has its type, and a process that is down does nothing. *)
TypeOK ==
  /\ now \in Times
  /\ rows \in [Assignments -> Row \cup {None}]
  /\ usedIds \subseteq Assignments
  /\ up \in BOOLEAN
  /\ updates \subseteq Update
  /\ jobs \subseteq Jobs
  /\ runs \in [Slots -> Run \cup {None}]
  /\ timers \in [Jobs -> Times \cup {None}]
  /\ restarts \in 0 .. MaxRestarts
  /\ stale \in [Slots -> SUBSET Jobs]
  /\ missed \subseteq Jobs
  /\ ~up => /\ updates = {} /\ jobs = {}
            /\ \A i \in Slots : runs[i] = None
            /\ \A j \in Jobs : timers[j] = None

(* An update that is about to end because its row is saved. *)
Saves(u) == u \in updates /\ u.row # None /\ up /\ up' /\ u \notin updates'

(* A timer only wakes a job, and the job's query decides: however early a timer
   fires (it is too long for setTimeout, or was set for an assignment that has
   been deleted or moved since), the scheduler switches no assignment before its
   date.  Only a date that staff moves after the job has found the assignment due
   is overlooked. *)
NeverEarly ==
  [][\A u \in updates, j \in Jobs :
       Saves(u) /\ u.by = "scheduler" /\ u.dto.state = To[j] =>
         \/ rows'[u.id].date[j] \in 1 .. now
         \/ rows'[u.id].date[j] # u.due]_vars

(* The timer of j is set for the next date in the table, or for an earlier one. *)
Fresh(j) == NextDate(j) # None => timers[j] # None /\ timers[j] <= NextDate(j)

(* When the server has come to rest, each timer is set for the next date in the table
   or for an earlier one, except where the code loses it in one of three ways: a run
   that was overtaken by a change has set its timers after the run that the change
   triggered; registering groups has failed, so that a changed row triggered no run;
   or a timer fired for a date at which its job found nothing to do.  No other order
   of requests, jobs, runs, restarts and passing dates loses a timer, and the next run
   that reads and sets the timers undisturbed repairs all of them. *)
TimersFresh == Quiet => \A j \in Jobs \ missed : Fresh(j)

(* api-docs/docs/assignments.md: "If start dates and/or end dates are defined, the
   assignment will automatically switch into the IN_PROGRESS and IN_REVIEW state."
   An assignment that waits in the state the job expects for a date to come leaves
   that state, unless staff deletes it or moves the date; also when the process is
   down while the date passes. *)
Waiting(a, j, d) == /\ a \in Existing
                    /\ rows[a].state = From[j]
                    /\ rows[a].date[j] = d

SwitchedOnTime ==
  \A a \in Assignments, j \in Jobs, d \in Dates :
    (Waiting(a, j, d) /\ now < d) ~> ~Waiting(a, j, d)

================================================================================
