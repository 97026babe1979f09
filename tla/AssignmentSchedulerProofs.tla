----------------------- MODULE AssignmentSchedulerProofs -----------------------
(****************************************************************************)
(* Proofs about AssignmentScheduler: its types, that the scheduler          *)
(* switches no assignment before its date, and that its timers are set for  *)
(* the next dates except where the code is known to lose them, for any      *)
(* number of assignments, dates, updates, runs and restarts.                *)
(****************************************************************************)
EXTENDS AssignmentScheduler, FiniteSetTheorems, WellFoundedInduction, TLAPS

--------------------------------------------------------------------------------
(* The next date *)

(* A set of numbers that is not empty has a least one: the intervals that end in its
   members are well-founded under inclusion. *)
LEMMA Minimum ==
  ASSUME NEW S \in SUBSET Nat, S # {}
  PROVE  \E d \in S : \A e \in S : d <= e
<1> DEFINE T == {0 .. d : d \in S}
<1>1. T \subseteq FiniteSubsetsOf(Nat)
  <2> SUFFICES ASSUME NEW d \in S PROVE 0 .. d \in FiniteSubsetsOf(Nat)
    OBVIOUS
  <2>1. IsFiniteSet(0 .. d)
    BY FS_Interval
  <2>2. QED
    BY <2>1 DEF FiniteSubsetsOf
<1>2. IsWellFoundedOn(StrictSubsetOrdering(Nat), FiniteSubsetsOf(Nat))
  BY FS_StrictSubsetOrderingWellFounded
<1>3. T # {}
  OBVIOUS
<1>4. PICK x \in T : \A y \in T : ~ (<<y, x>> \in StrictSubsetOrdering(Nat))
  <2> HIDE DEF T
  <2> QED
    BY <1>1, <1>2, <1>3, WFMin
<1>5. PICK d \in S : x = 0 .. d
  OBVIOUS
<1>6. ASSUME NEW e \in S, e < d PROVE FALSE
  <2>1. 0 .. e \in T /\ 0 .. e \in SUBSET Nat /\ 0 .. d \in SUBSET Nat
    OBVIOUS
  <2>2. 0 .. e \subseteq 0 .. d /\ 0 .. e # 0 .. d
    BY <1>6
  <2>3. <<0 .. e, 0 .. d>> \in StrictSubsetOrdering(Nat)
    <3> HIDE DEF T
    <3> QED BY <2>1, <2>2 DEF StrictSubsetOrdering
  <2>4. QED
    BY <1>4, <1>5, <2>1, <2>3
<1>7. QED
  BY <1>6

(* What findNextAssignment returns lies ahead, and is None only if no date does. *)
LEMMA NextDateFound ==
  ASSUME TypeOK, NEW j \in Jobs
  PROVE  /\ NextDate(j) \in Dates \cup {None}
         /\ Upcoming(j) # {} => /\ NextDate(j) \in Upcoming(j)
                                /\ \A e \in Upcoming(j) : NextDate(j) <= e
<1>1. Upcoming(j) \in SUBSET Dates
  BY DEF Upcoming, Existing, TypeOK, Row
<1>2. CASE Upcoming(j) = {}
  BY <1>2 DEF NextDate
<1>3. CASE Upcoming(j) # {}
  <2>1. Upcoming(j) \in SUBSET Nat
    BY <1>1, ConstantsOK DEF Dates
  <2>2. \E d \in Upcoming(j) : \A e \in Upcoming(j) : d <= e
    BY <1>3, <2>1, Minimum
  <2>3. /\ NextDate(j) \in Upcoming(j)
        /\ \A e \in Upcoming(j) : NextDate(j) <= e
    BY <1>3, <2>2 DEF NextDate
  <2>4. QED
    BY <1>1, <2>3
<1>4. QED
  BY <1>2, <1>3

--------------------------------------------------------------------------------
(* Type correctness *)

(* The merged row is a row. *)
LEMMA UpdatedTyped ==
  ASSUME NEW row \in Row, NEW dto \in UpdateDto
  PROVE  Updated(row, dto) \in Row
BY DEF Updated, Row, UpdateDto

(* A timer is set for a date, or for now. *)
LEMMA FireAtTyped ==
  ASSUME TypeOK, NEW d \in Dates
  PROVE  FireAt(d) \in Times
BY ConstantsOK DEF FireAt, TypeOK, Dates, Times

(* The first free slot takes the new run. *)
LEMMA RunTriggered ==
  ASSUME TypeOK, TriggerRun
  PROVE  runs' \in [Slots -> Run \cup {None}]
BY DEF TriggerRun, TypeOK, NewRun, Run

(* What is outdated are jobs of runs. *)
LEMMA OutdateTyped == ASSUME Outdate PROVE stale' \in [Slots -> SUBSET Jobs]
BY DEF Outdate

(* A call of updateAssignment keeps its type when the row is read. *)
LEMMA LoadedTyped ==
  ASSUME NEW u \in Update, NEW row \in Row
  PROVE  /\ [u EXCEPT !.row = row] \in Update
         /\ [u EXCEPT !.row = row].by = u.by
         /\ [u EXCEPT !.row = row].due = u.due
BY DEF Update

(* What a suspended update, run or job holds is what its next step reads. *)
LEMMA TypeStep ==
  ASSUME TypeOK, [Next]_vars
  PROVE  TypeOK'
<1> USE DEF TypeOK
<1>1. ASSUME NEW i \in Slots, NEW j \in Jobs, ReadNext(i, j) PROVE TypeOK'
  <2>1. NextDate(j) \in Dates \cup {None, Unread}
    BY NextDateFound
  <2>2. runs[i] \in Run
    BY <1>1 DEF ReadNext
  <2>3. [runs[i] EXCEPT ![j] = NextDate(j)] \in Run
    BY <2>1, <2>2 DEF Run
  <2>4. runs' \in [Slots -> Run \cup {None}]
    BY <1>1, <2>3 DEF ReadNext
  <2>5. QED
    BY <1>1, <2>4 DEF ReadNext
<1>2. ASSUME NEW i \in Slots, SetTimers(i) PROVE TypeOK'
  <2>1. runs[i] \in Run /\ \A j \in Jobs : runs[i][j] # Unread
    BY <1>2 DEF SetTimers
  <2>2. \A j \in Jobs : runs[i][j] # None => FireAt(runs[i][j]) \in Times
    BY <2>1, FireAtTyped DEF Run
  <2>3. timers' \in [Jobs -> Times \cup {None}]
    BY <1>2, <2>2 DEF SetTimers
  <2>4. QED
    BY <1>2, <2>3 DEF SetTimers
<1>3. CASE FireTimers
  BY <1>3 DEF FireTimers, TimerDue
<1>4. ASSUME NEW j \in Jobs, RunJob(j) PROVE TypeOK'
  <2>1. ASSUME NEW a \in Due(j)
        PROVE  [by |-> "scheduler", id |-> a, old |-> From[j], due |-> rows[a].date[j],
                dto |-> [state |-> To[j], date |-> NoDate], row |-> None] \in Update
    <3>1. a \in Assignments /\ rows[a] \in Row
      BY DEF Due, Existing
    <3>2. rows[a].date[j] \in Dates \cup {None}
      BY <3>1 DEF Row
    <3>3. From[j] \in States /\ To[j] \in States
      BY DEF Jobs, From, To, States
    <3>4. [state |-> To[j], date |-> NoDate] \in UpdateDto
      BY <3>3 DEF UpdateDto, NoDate
    <3>5. QED
      BY <3>1, <3>2, <3>3, <3>4 DEF Update
  <2>2. updates' \subseteq Update
    BY <1>4, <2>1 DEF RunJob
  <2>3. up
    BY <1>4 DEF RunJob
  <2>4. QED
    BY <1>4, <2>2, <2>3 DEF RunJob
<1>5. ASSUME NEW u \in updates, LoadAssignment(u) PROVE TypeOK'
  <2>1. updates' \subseteq Update
    <3>1. CASE u.id \in Existing
      <4>1. u \in Update /\ rows[u.id] \in Row /\ u.dto \in UpdateDto
        BY <3>1 DEF Existing, Update
      <4>2. [u EXCEPT !.row = Updated(rows[u.id], u.dto)] \in Update
        BY <4>1, UpdatedTyped, LoadedTyped
      <4>3. QED
        BY <1>5, <3>1, <4>2 DEF LoadAssignment
    <3>2. CASE u.id \notin Existing
      BY <1>5, <3>2 DEF LoadAssignment
    <3>3. QED
      BY <3>1, <3>2
  <2>2. QED
    BY <1>5, <2>1 DEF LoadAssignment
<1>6. ASSUME NEW u \in updates, SaveAssignment(u) PROVE TypeOK'
  <2>1. u.id \in Assignments /\ u.row \in Row
    BY <1>6 DEF SaveAssignment, Update
  <2>2. rows' \in [Assignments -> Row \cup {None}]
    BY <1>6, <2>1 DEF SaveAssignment
  <2>3. runs' \in [Slots -> Run \cup {None}]
    BY <1>6, RunTriggered DEF SaveAssignment
  <2>4. stale' \in [Slots -> SUBSET Jobs] /\ missed' \subseteq Jobs
    BY <1>6, OutdateTyped DEF SaveAssignment
  <2>5. QED
    BY <1>6, <2>2, <2>3, <2>4 DEF SaveAssignment
<1>7. ASSUME NEW row \in NewRows, CreateAssignment(row) PROVE TypeOK'
  <2>1. row \in Row
    BY ConstantsOK
  <2>2. /\ rows' \in [Assignments -> Row \cup {None}]
        /\ usedIds' \subseteq Assignments
    BY <1>7, <2>1 DEF CreateAssignment
  <2>3. runs' \in [Slots -> Run \cup {None}] /\ up
    BY <1>7, RunTriggered DEF CreateAssignment, MayRequest
  <2>4. stale' \in [Slots -> SUBSET Jobs]
    BY <1>7, OutdateTyped DEF CreateAssignment
  <2>5. QED
    BY <1>7, <2>2, <2>3, <2>4 DEF CreateAssignment
<1>8. ASSUME NEW a \in Assignments, DeleteAssignment(a) PROVE TypeOK'
  <2>1. runs' \in [Slots -> Run \cup {None}] /\ up
    BY <1>8, RunTriggered DEF DeleteAssignment, MayRequest
  <2>2. stale' \in [Slots -> SUBSET Jobs]
    BY <1>8, OutdateTyped DEF DeleteAssignment
  <2>3. QED
    BY <1>8, <2>1, <2>2 DEF DeleteAssignment
<1>9. ASSUME NEW a \in Assignments, NEW dto \in Updates, RequestUpdate(a, dto)
      PROVE  TypeOK'
  <2>1. rows[a] \in Row /\ dto \in UpdateDto /\ up
    BY <1>9, ConstantsOK DEF RequestUpdate, Existing, MayRequest
  <2>2. [by |-> "staff", id |-> a, old |-> rows[a].state, due |-> None, dto |-> dto,
         row |-> None] \in Update
    BY <2>1 DEF Update, Row
  <2>3. QED
    BY <1>9, <2>1, <2>2 DEF RequestUpdate
<1>10. CASE Tick
  BY <1>10, ConstantsOK DEF Tick, Times
<1>11. CASE Boot
  <2>1. runs' \in [Slots -> Run \cup {None}]
    BY <1>11, RunTriggered DEF Boot
  <2>2. QED
    BY <1>11, <2>1 DEF Boot
<1>12. CASE Exit
  <2>1. /\ runs' \in [Slots -> Run \cup {None}]
        /\ \A i \in Slots : runs'[i] = None
    BY <1>12 DEF Exit
  <2>2. /\ timers' \in [Jobs -> Times \cup {None}]
        /\ \A j \in Jobs : timers'[j] = None
    BY <1>12 DEF Exit
  <2>3. restarts' \in 0 .. MaxRestarts
    BY <1>12, ConstantsOK DEF Exit
  <2>4. QED
    BY <1>12, <2>1, <2>2, <2>3 DEF Exit
<1>13. CASE UNCHANGED vars
  BY <1>13 DEF vars
<1>14. QED
  BY <1>1, <1>2, <1>3, <1>4, <1>5, <1>6, <1>7, <1>8, <1>9, <1>10, <1>11, <1>12, <1>13
     DEF Next, Work, Staff

(* Between two queries the server holds only what it has read with its type, and
   nothing survives the end of the process: for every number of updates and runs. *)
THEOREM TypeCorrect == Spec => []TypeOK
<1>1. Init => TypeOK
  <2> SUFFICES ASSUME Init PROVE TypeOK
    OBVIOUS
  <2>1. now \in Times /\ restarts \in 0 .. MaxRestarts
    BY ConstantsOK DEF Init, Times
  <2>2. /\ rows \in [Assignments -> Row \cup {None}]
        /\ runs \in [Slots -> Run \cup {None}]
        /\ timers \in [Jobs -> Times \cup {None}]
    BY DEF Init
  <2>3. ~up => /\ updates = {} /\ jobs = {}
               /\ \A i \in Slots : runs[i] = None
               /\ \A j \in Jobs : timers[j] = None
    BY DEF Init
  <2>4. QED
    BY <2>1, <2>2, <2>3 DEF Init, TypeOK
<1>2. TypeOK /\ [Next]_vars => TypeOK'
  BY TypeStep
<1>3. QED
  BY <1>1, <1>2, PTL DEF Spec

--------------------------------------------------------------------------------
(* Nothing is switched early *)

(* An update of the scheduler remembers a date that had passed when its job found the
   assignment due, and so has passed ever since. *)
DueHasPassed == \A u \in updates : u.by = "scheduler" => u.due \in 1 .. now

(* The job sees to it, and time does not go back. *)
LEMMA DueStep ==
  ASSUME TypeOK, DueHasPassed, [Next]_vars
  PROVE  DueHasPassed'
<1> USE DEF DueHasPassed
<1>1. now \in Nat
  BY ConstantsOK DEF TypeOK, Times
<1>2. ASSUME now' = now, updates' \subseteq updates PROVE DueHasPassed'
  BY <1>2
<1>3. ASSUME NEW j \in Jobs, RunJob(j) PROVE DueHasPassed'
  <2>1. ASSUME NEW a \in Due(j) PROVE rows[a].date[j] \in 1 .. now
    <3>1. rows[a] \in Row /\ rows[a].date[j] # None /\ rows[a].date[j] <= now
      BY DEF Due, Existing, TypeOK
    <3>2. rows[a].date[j] \in Dates
      BY <3>1 DEF Row
    <3>3. QED
      BY <1>1, <3>1, <3>2, ConstantsOK DEF Dates
  <2>2. QED
    BY <1>3, <2>1 DEF RunJob
<1>4. ASSUME NEW u \in updates, LoadAssignment(u) PROVE DueHasPassed'
  <2>1. ASSUME u.id \in Existing
        PROVE  LET v == [u EXCEPT !.row = Updated(rows[u.id], u.dto)]
               IN  v.by = u.by /\ v.due = u.due
    <3>1. u \in Update /\ rows[u.id] \in Row /\ u.dto \in UpdateDto
      BY <2>1 DEF Existing, Update, TypeOK
    <3>2. QED
      BY <3>1, UpdatedTyped, LoadedTyped
  <2>2. QED
    BY <1>4, <2>1 DEF LoadAssignment
<1>5. ASSUME NEW u \in updates, SaveAssignment(u) PROVE DueHasPassed'
  BY <1>2, <1>5 DEF SaveAssignment
<1>6. ASSUME NEW a \in Assignments, NEW dto \in Updates, RequestUpdate(a, dto)
      PROVE  DueHasPassed'
  BY <1>6 DEF RequestUpdate
<1>7. CASE Tick
  BY <1>1, <1>7 DEF Tick
<1>8. CASE Exit
  BY <1>8 DEF Exit
<1>9. ASSUME NEW i \in Slots, NEW j \in Jobs, ReadNext(i, j) PROVE DueHasPassed'
  BY <1>2, <1>9 DEF ReadNext
<1>10. ASSUME NEW i \in Slots, SetTimers(i) PROVE DueHasPassed'
  BY <1>2, <1>10 DEF SetTimers
<1>11. CASE FireTimers
  BY <1>2, <1>11 DEF FireTimers
<1>12. ASSUME NEW row \in NewRows, CreateAssignment(row) PROVE DueHasPassed'
  BY <1>2, <1>12 DEF CreateAssignment
<1>13. ASSUME NEW a \in Assignments, DeleteAssignment(a) PROVE DueHasPassed'
  BY <1>2, <1>13 DEF DeleteAssignment
<1>14. CASE Boot
  BY <1>2, <1>14 DEF Boot
<1>15. CASE UNCHANGED vars
  BY <1>2, <1>15 DEF vars
<1>16. QED
  BY <1>3, <1>4, <1>5, <1>6, <1>7, <1>8, <1>9, <1>10, <1>11, <1>12, <1>13, <1>14, <1>15
     DEF Next, Work, Staff

(* An update that has read its row ends only by saving it, as long as the process
   runs. *)
LEMMA SavesRow ==
  ASSUME TypeOK, [Next]_vars, NEW u \in updates, Saves(u)
  PROVE  rows'[u.id] = u.row
<1>1. u.id \in Assignments /\ rows \in [Assignments -> Row \cup {None}]
  BY DEF TypeOK, Update
<1>2. ASSUME updates \subseteq updates' PROVE FALSE
  BY <1>2 DEF Saves
<1>3. ASSUME NEW v \in updates, LoadAssignment(v) PROVE FALSE
  BY <1>3 DEF LoadAssignment, Saves
<1>4. ASSUME NEW v \in updates, SaveAssignment(v) PROVE rows'[u.id] = u.row
  BY <1>1, <1>4 DEF SaveAssignment, Saves
<1>5. CASE Exit
  BY <1>5 DEF Exit, Saves
<1>6. ASSUME NEW i \in Slots, NEW j \in Jobs, ReadNext(i, j) PROVE FALSE
  BY <1>2, <1>6 DEF ReadNext
<1>7. ASSUME NEW i \in Slots, SetTimers(i) PROVE FALSE
  BY <1>2, <1>7 DEF SetTimers
<1>8. ASSUME NEW j \in Jobs, RunJob(j) PROVE FALSE
  BY <1>2, <1>8 DEF RunJob
<1>9. ASSUME FireTimers PROVE FALSE
  BY <1>2, <1>9 DEF FireTimers
<1>10. ASSUME NEW row \in NewRows, CreateAssignment(row) PROVE FALSE
  BY <1>2, <1>10 DEF CreateAssignment
<1>11. ASSUME NEW a \in Assignments, DeleteAssignment(a) PROVE FALSE
  BY <1>2, <1>11 DEF DeleteAssignment
<1>12. ASSUME NEW a \in Assignments, NEW dto \in Updates, RequestUpdate(a, dto)
       PROVE  FALSE
  BY <1>2, <1>12 DEF RequestUpdate
<1>13. ASSUME Tick \/ Boot \/ UNCHANGED vars PROVE FALSE
  BY <1>2, <1>13 DEF Tick, Boot, vars
<1>14. QED
  BY <1>3, <1>4, <1>5, <1>6, <1>7, <1>8, <1>9, <1>10, <1>11, <1>12, <1>13
     DEF Next, Work, Staff

(* Whatever timers fire and however updates, runs, restarts and edits by staff
   interleave, the scheduler switches no assignment before its date, unless staff has
   moved it since the job looked. *)
THEOREM SwitchesNotEarly == Spec => NeverEarly
<1>1. Init => DueHasPassed
  BY DEF Init, DueHasPassed
<1>2. TypeOK /\ DueHasPassed /\ [Next]_vars => DueHasPassed'
  BY DueStep
<1>3. TypeOK /\ DueHasPassed /\ [Next]_vars =>
        [\A u \in updates, j \in Jobs :
           Saves(u) /\ u.by = "scheduler" /\ u.dto.state = To[j] =>
             \/ rows'[u.id].date[j] \in 1 .. now
             \/ rows'[u.id].date[j] # u.due]_vars
  BY SavesRow DEF DueHasPassed
<1>4. QED
  BY <1>1, <1>2, <1>3, TypeCorrect, PTL DEF Spec, NeverEarly

--------------------------------------------------------------------------------
(* The timers *)

(* As long as neither the table nor the clock changes, what is due and what comes next
   stay the same. *)
LEMMA SameRows ==
  ASSUME UNCHANGED <<now, rows>>
  PROVE  /\ Existing' = Existing
         /\ \A j \in Jobs : Due(j)' = Due(j) /\ NextDate(j)' = NextDate(j)
BY DEF Existing, Due, Upcoming, NextDate

(* The least member of a set of dates. *)
Least(S) == IF S = {} THEN None ELSE CHOOSE d \in S : \A e \in S : d <= e

LEMMA LeastFound ==
  ASSUME NEW S \in SUBSET Nat, S # {}
  PROVE  Least(S) \in S /\ \A e \in S : Least(S) <= e
BY Minimum DEF Least

(* While only time passes the next date moves ahead. *)
LEMMA NextDateMovesOn ==
  ASSUME TypeOK, TypeOK', Tick, NEW j \in Jobs, NextDate(j)' # None
  PROVE  /\ NextDate(j)' \in Nat
         /\ NextDate(j) # None /\ NextDate(j) \in Nat /\ NextDate(j) <= NextDate(j)'
<1>1. rows' = rows /\ now' = now + 1 /\ now \in Nat
  BY ConstantsOK DEF Tick, TypeOK, Times
<1>2. \A d \in Upcoming(j)' : d \in Nat /\ d > now
  BY <1>1, ConstantsOK DEF Upcoming, Existing, TypeOK, Row, Dates
<1>3. NextDate(j) = Least(Upcoming(j)) /\ NextDate(j)' = Least(Upcoming(j)')
  BY DEF NextDate, Least
<1>4. Upcoming(j)' # {}
  BY <1>3 DEF Least
<1>5. NextDate(j)' \in Upcoming(j)'
  BY <1>2, <1>3, <1>4, LeastFound
<1>6. NextDate(j)' \in Upcoming(j)
  BY <1>1, <1>2, <1>5 DEF Upcoming, Existing
<1>7. Upcoming(j) \subseteq Nat
  BY ConstantsOK DEF Upcoming, Existing, TypeOK, Row, Dates
<1>8. NextDate(j) \in Upcoming(j) /\ NextDate(j) <= NextDate(j)'
  BY <1>3, <1>6, <1>7, LeastFound
<1>9. None \notin Upcoming(j)
  BY DEF Upcoming
<1> QED BY <1>6, <1>7, <1>8, <1>9

(* The parts of the invariant.  Only a run that has read may be outdated; what a run has
   read since the last change is the next date or an earlier one; and a timer that is
   neither lost nor fresh is about to be set. *)
StaleRead == \A i \in Slots, j \in Jobs :
  j \in stale[i] => runs[i] # None /\ runs[i][j] # Unread

Current(i, j) == NextDate(j) # None => runs[i][j] # None /\ runs[i][j] <= NextDate(j)

RunsCurrent == \A i \in Slots, j \in Jobs :
  (runs[i] # None /\ runs[i][j] # Unread /\ j \notin stale[i]) => Current(i, j)

(* A run will set the timer of j from what it has read since the last change. *)
WillSet(j) == \E i \in Slots : runs[i] # None /\ j \notin stale[i]

(* An update will be saved, or its assignment will have been deleted. *)
WillSave == \E u \in updates : u.row # None \/ u.id \in Existing

TimersHandled == up => \A j \in Jobs :
  j \in missed \/ Fresh(j) \/ WillSet(j) \/ WillSave \/ (j \in jobs /\ timers[j] = None)

TimersInv == StaleRead /\ RunsCurrent /\ TimersHandled

(* The first slot that is free takes the run, the others go on as they were. *)
LEMMA Triggered ==
  ASSUME TypeOK, TriggerRun
  PROVE  \E i \in Slots : /\ runs[i] = None
                          /\ \A k \in Slots : runs'[k] = IF k = i THEN NewRun ELSE runs[k]
                          /\ NewRun # None /\ \A j \in Jobs : NewRun[j] = Unread
<1>1. PICK i \in Slots : runs[i] = None /\ runs' = [runs EXCEPT ![i] = NewRun]
  BY DEF TriggerRun
<1>2. NewRun \in Run /\ \A j \in Jobs : NewRun[j] = Unread
  BY DEF NewRun, Run
<1> QED BY <1>1, <1>2, ConstantsOK DEF TypeOK

(* A change of the table outdates what has been read, and the run that it triggers has
   still to read everything. *)
LEMMA ChangeKeeps ==
  ASSUME TypeOK, StaleRead, TriggerRun, Outdate
  PROVE  StaleRead' /\ RunsCurrent' /\ \A j \in Jobs : WillSet(j)'
<1>1. PICK i \in Slots : /\ runs[i] = None
                         /\ \A k \in Slots : runs'[k] = IF k = i THEN NewRun ELSE runs[k]
                         /\ NewRun # None /\ \A j \in Jobs : NewRun[j] = Unread
  BY Triggered
<1>2. \A k \in Slots, j \in Jobs :
        j \in stale'[k] <=> runs[k] # None /\ runs[k][j] # Unread
  BY DEF Outdate
<1>3. \A j \in Jobs : j \notin stale'[i]
  BY <1>1, <1>2 DEF StaleRead
<1> QED BY <1>1, <1>2, <1>3 DEF StaleRead, RunsCurrent, WillSet

(* The steps that leave table, clock and runs alone keep what is said of the runs. *)
LEMMA RunsKept ==
  ASSUME TimersInv, UNCHANGED <<now, rows, runs, stale>>
  PROVE  StaleRead' /\ RunsCurrent' /\ \A j \in Jobs : WillSet(j)' <=> WillSet(j)
BY SameRows DEF TimersInv, StaleRead, RunsCurrent, Current, WillSet

(* A run reads the next date. *)
LEMMA ReadNextKeeps ==
  ASSUME TypeOK, TimersInv, NEW i \in Slots, NEW j \in Jobs, ReadNext(i, j)
  PROVE  TimersInv'
<1> USE DEF TimersInv
<1>1. /\ runs[i] \in Run /\ runs[i] # None /\ runs[i][j] = Unread
      /\ UNCHANGED <<now, rows, up, updates, jobs, timers, stale, missed>>
      /\ runs' = [runs EXCEPT ![i] = [@ EXCEPT ![j] = NextDate(j)]]
  BY DEF ReadNext, TypeOK
<1>2. NextDate(j) \in Dates \cup {None} /\ NextDate(j) # Unread
  BY NextDateFound, ConstantsOK DEF Dates, Times
<1>3. [runs[i] EXCEPT ![j] = NextDate(j)] \in Run
  BY <1>1, <1>2 DEF Run
<1>4. \A k \in Slots : /\ runs'[k] = IF k = i THEN [runs[i] EXCEPT ![j] = NextDate(j)]
                                     ELSE runs[k]
                       /\ runs'[k] # None <=> runs[k] # None
  BY <1>1, <1>3, ConstantsOK DEF TypeOK
<1>5. \A l \in Jobs : runs'[i][l] = IF l = j THEN NextDate(j) ELSE runs[i][l]
  BY <1>1, <1>4 DEF Run
<1>6. StaleRead'
  BY <1>1, <1>2, <1>4, <1>5 DEF StaleRead
<1>7. RunsCurrent'
  <2> SUFFICES ASSUME NEW k \in Slots, NEW l \in Jobs, runs'[k] # None, runs'[k][l] # Unread,
                      l \notin stale'[k], NextDate(l)' # None
               PROVE  runs'[k][l] # None /\ runs'[k][l] <= NextDate(l)'
    BY DEF RunsCurrent, Current
  <2>1. NextDate(l)' = NextDate(l)
    BY <1>1, SameRows
  <2>2. CASE k = i /\ l = j
    BY <1>2, <1>5, <2>1, <2>2, ConstantsOK DEF Dates
  <2>3. CASE ~(k = i /\ l = j)
    BY <1>1, <1>4, <1>5, <2>1, <2>3 DEF RunsCurrent, Current
  <2> QED BY <2>2, <2>3
<1>8. \A l \in Jobs : (Fresh(l) => Fresh(l)') /\ (WillSet(l) => WillSet(l)')
  BY <1>1, <1>4, SameRows DEF Fresh, WillSet
<1>9. TimersHandled'
  BY <1>1, <1>8, SameRows DEF TimersHandled, WillSave
<1> QED BY <1>6, <1>7, <1>9

(* A run sets the timers: an outdated one may lose them, any other makes them fresh. *)
LEMMA SetTimersKeeps ==
  ASSUME TypeOK, TimersInv, NEW i \in Slots, SetTimers(i)
  PROVE  TimersInv'
<1> USE DEF TimersInv
<1>1. /\ runs[i] \in Run /\ runs[i] # None /\ \A j \in Jobs : runs[i][j] # Unread
      /\ timers' = [j \in Jobs |-> IF runs[i][j] = None THEN None ELSE FireAt(runs[i][j])]
      /\ missed' = stale[i] /\ stale[i] \subseteq Jobs
      /\ \A k \in Slots : stale'[k] = IF k = i THEN {} ELSE stale[k]
      /\ UNCHANGED <<now, rows, up, updates, jobs>>
  BY DEF SetTimers, TypeOK
<1>2. \A k \in Slots : runs'[k] = IF k = i THEN None ELSE runs[k]
  BY DEF SetTimers, TypeOK
<1>3. StaleRead'
  BY <1>1, <1>2 DEF StaleRead
<1>4. RunsCurrent'
  BY <1>1, <1>2, SameRows DEF RunsCurrent, Current
<1>5. ASSUME NEW j \in Jobs, j \notin missed' PROVE Fresh(j)'
  <2> SUFFICES ASSUME NextDate(j) # None
               PROVE  timers'[j] # None /\ timers'[j] <= NextDate(j)
    BY <1>1, SameRows DEF Fresh
  <2>1. runs[i][j] # None /\ runs[i][j] <= NextDate(j)
    BY <1>1, <1>5 DEF RunsCurrent, Current
  <2>2. runs[i][j] \in Dates /\ NextDate(j) \in Dates /\ now \in Nat /\ MaxDelay \in Nat
    BY <1>1, <2>1, NextDateFound, ConstantsOK DEF Run, TypeOK, Times
  <2>3. timers'[j] = FireAt(runs[i][j]) /\ FireAt(runs[i][j]) \in Times
    BY <1>1, <2>1, <2>2, FireAtTyped
  <2>4. FireAt(runs[i][j]) <= runs[i][j]
    BY <2>2, ConstantsOK DEF FireAt, Dates
  <2> QED BY <2>1, <2>2, <2>3, <2>4, ConstantsOK DEF Dates, Times
<1> QED BY <1>3, <1>4, <1>5 DEF TimersHandled

(* A timer that fires leaves its job behind. *)
LEMMA FireTimersKeeps ==
  ASSUME TypeOK, TimersInv, FireTimers
  PROVE  TimersInv'
<1>1. /\ UNCHANGED <<now, rows, up, updates, runs, stale, missed>>
      /\ jobs' = jobs \cup {j \in Jobs : TimerDue(j)}
      /\ \A j \in Jobs : timers'[j] = IF TimerDue(j) THEN None ELSE timers[j]
  BY DEF FireTimers
<1>2. TimersHandled'
  BY <1>1, RunsKept, SameRows DEF TimersInv, TimersHandled, Fresh, WillSave
<1> QED BY <1>1, <1>2, RunsKept DEF TimersInv

(* A job finds an assignment that is due, or the loss of its timer is noticed. *)
LEMMA RunJobKeeps ==
  ASSUME TypeOK, TimersInv, NEW j \in Jobs, RunJob(j)
  PROVE  TimersInv'
<1>1. /\ UNCHANGED <<now, rows, up, timers, runs, stale>>
      /\ jobs' = jobs \ {j}
      /\ updates \subseteq updates' /\ missed \subseteq missed'
      /\ Due(j) = {} /\ timers[j] = None => j \in missed'
  BY DEF RunJob
<1>2. ASSUME NEW a \in Due(j) PROVE WillSave'
  <2>1. a \in Existing'
    BY <1>1, SameRows DEF Due
  <2>2. PICK u : u = [by |-> "scheduler", id |-> a, old |-> From[j], due |-> rows[a].date[j],
                      dto |-> [state |-> To[j], date |-> NoDate], row |-> None]
    OBVIOUS
  <2>3. u \in updates' /\ u.id = a
    BY <2>2 DEF RunJob
  <2> QED BY <2>1, <2>3 DEF WillSave
<1>3. WillSave => WillSave'
  BY <1>1, SameRows DEF WillSave
<1>4. TimersHandled'
  BY <1>1, <1>2, <1>3, RunsKept, SameRows DEF TimersInv, TimersHandled, Fresh
<1> QED BY <1>1, <1>4, RunsKept DEF TimersInv

(* An update reads its row; only one that would have failed ends here. *)
LEMMA LoadKeeps ==
  ASSUME TypeOK, TimersInv, NEW u \in updates, LoadAssignment(u)
  PROVE  TimersInv'
<1>1. UNCHANGED <<now, rows, up, jobs, timers, runs, stale, missed>> /\ u.row = None
  BY DEF LoadAssignment
<1>2. ASSUME WillSave PROVE WillSave'
  <2>1. PICK v \in updates : v.row # None \/ v.id \in Existing
    BY <1>2 DEF WillSave
  <2>2. CASE v # u
    BY <1>1, <2>1, <2>2, SameRows DEF WillSave, LoadAssignment
  <2>3. CASE v = u
    <3>1. u.id \in Existing
      BY <1>1, <2>1, <2>3
    <3>2. PICK w : w = [u EXCEPT !.row = Updated(rows[u.id], u.dto)]
      OBVIOUS
    <3>3. w \in updates'
      BY <3>1, <3>2 DEF LoadAssignment
    <3>4. u \in Update /\ rows[u.id] \in Row /\ u.dto \in UpdateDto
      BY <3>1 DEF TypeOK, Existing, Update
    <3>5. w.row \in Row
      BY <3>2, <3>4, UpdatedTyped DEF Update
    <3> QED BY <3>3, <3>5, ConstantsOK DEF WillSave
  <2> QED BY <2>2, <2>3
<1>3. TimersHandled'
  BY <1>1, <1>2, RunsKept, SameRows DEF TimersInv, TimersHandled, Fresh
<1> QED BY <1>1, <1>3, RunsKept DEF TimersInv

(* A row is saved: a run is triggered, unless registering the groups has failed. *)
LEMMA SaveKeeps ==
  ASSUME TypeOK, TimersInv, NEW u \in updates, SaveAssignment(u)
  PROVE  TimersInv'
<1>1. Outdate
  BY DEF SaveAssignment
<1>2. CASE TriggerRun
  BY <1>1, <1>2, ChangeKeeps DEF TimersInv, TimersHandled
<1>3. CASE missed' = Jobs /\ UNCHANGED runs
  <2>1. StaleRead' /\ RunsCurrent'
    BY <1>1, <1>3 DEF TimersInv, StaleRead, RunsCurrent, Outdate
  <2> QED BY <1>3, <2>1 DEF TimersInv, TimersHandled
<1> QED BY <1>2, <1>3 DEF SaveAssignment

(* Time passes, and the next date moves ahead. *)
LEMMA TickKeeps ==
  ASSUME TypeOK, TypeOK', TimersInv, Tick
  PROVE  TimersInv'
<1>1. UNCHANGED <<rows, up, updates, jobs, runs, timers, stale, missed>>
  BY DEF Tick
<1>2. \A j \in Jobs : NextDate(j)' # None =>
        /\ NextDate(j)' \in Nat
        /\ NextDate(j) # None /\ NextDate(j) \in Nat /\ NextDate(j) <= NextDate(j)'
  BY NextDateMovesOn
<1>3. RunsCurrent'
  <2> SUFFICES ASSUME NEW i \in Slots, NEW j \in Jobs, runs[i] # None, runs[i][j] # Unread,
                      j \notin stale[i], NextDate(j)' # None
               PROVE  runs[i][j] # None /\ runs[i][j] <= NextDate(j)'
    BY <1>1 DEF RunsCurrent, Current
  <2>1. runs[i][j] # None /\ runs[i][j] <= NextDate(j)
    BY <1>2 DEF TimersInv, RunsCurrent, Current
  <2>2. runs[i][j] \in Nat
    BY <2>1, ConstantsOK DEF TypeOK, Run, Dates
  <2> QED BY <1>2, <2>1, <2>2
<1>4. \A j \in Jobs : Fresh(j) => Fresh(j)'
  <2> SUFFICES ASSUME NEW j \in Jobs, Fresh(j), NextDate(j)' # None
               PROVE  timers[j] # None /\ timers[j] <= NextDate(j)'
    BY <1>1 DEF Fresh
  <2>1. timers[j] # None /\ timers[j] <= NextDate(j)
    BY <1>2 DEF Fresh
  <2>2. timers[j] \in Nat
    BY <2>1, ConstantsOK DEF TypeOK, Times
  <2> QED BY <1>2, <2>1, <2>2
<1>5. StaleRead' /\ TimersHandled'
  BY <1>1, <1>4 DEF TimersInv, StaleRead, TimersHandled, WillSet, WillSave, Existing
<1> QED BY <1>3, <1>5 DEF TimersInv

(* TimersInv is inductive. *)
LEMMA TimersStep ==
  ASSUME TypeOK, TypeOK', TimersInv, [Next]_vars
  PROVE  TimersInv'
<1>1. ASSUME NEW row \in NewRows, CreateAssignment(row) PROVE TimersInv'
  BY <1>1, ChangeKeeps DEF CreateAssignment, TimersInv, TimersHandled
<1>2. ASSUME NEW a \in Assignments, DeleteAssignment(a) PROVE TimersInv'
  BY <1>2, ChangeKeeps DEF DeleteAssignment, TimersInv, TimersHandled
<1>3. ASSUME NEW a \in Assignments, NEW dto \in Updates, RequestUpdate(a, dto)
      PROVE  TimersInv'
  <2>1. /\ UNCHANGED <<now, rows, up, jobs, timers, runs, stale, missed>>
        /\ updates \subseteq updates'
    BY <1>3 DEF RequestUpdate
  <2>2. TimersHandled'
    BY <2>1, RunsKept, SameRows DEF TimersInv, TimersHandled, Fresh, WillSave
  <2> QED BY <2>1, <2>2, RunsKept DEF TimersInv
<1>4. CASE Boot
  <2>1. /\ UNCHANGED <<now, rows, stale>> /\ TriggerRun
        /\ \A i \in Slots : runs[i] = None
    BY <1>4 DEF Boot, TypeOK
  <2>2. PICK i \in Slots : /\ \A k \in Slots : runs'[k] = IF k = i THEN NewRun ELSE runs[k]
                           /\ NewRun # None /\ \A j \in Jobs : NewRun[j] = Unread
    BY <2>1, Triggered
  <2> QED BY <2>1, <2>2 DEF TimersInv, StaleRead, RunsCurrent, TimersHandled, WillSet
<1>5. CASE Exit
  BY <1>5 DEF Exit, TimersInv, StaleRead, RunsCurrent, TimersHandled
<1>6. CASE UNCHANGED vars
  <2>1. UNCHANGED <<now, rows, up, updates, jobs, runs, timers, stale, missed>>
    BY <1>6 DEF vars
  <2> QED BY <2>1, RunsKept, SameRows DEF TimersInv, TimersHandled, Fresh, WillSave
<1> QED BY <1>1, <1>2, <1>3, <1>4, <1>5, <1>6, ReadNextKeeps, SetTimersKeeps, FireTimersKeeps,
           RunJobKeeps, LoadKeeps, SaveKeeps, TickKeeps
        DEF Next, Work, Staff

(* Whatever dates, updates, runs, jobs, failures and restarts there are, and however far
   away the dates: once the server has come to rest, every timer is set for the next date
   or an earlier one, unless it was set by a run that a change had overtaken, lost by a
   failed registration, or used up by a date at which nothing was to be done. *)
THEOREM TimersAreFresh == Spec => []TimersFresh
<1>1. Init => TimersInv
  BY DEF Init, TimersInv, StaleRead, RunsCurrent, TimersHandled
<1>2. TypeOK /\ TypeOK' /\ TimersInv /\ [Next]_vars => TimersInv'
  BY TimersStep
<1>3. TimersInv => TimersFresh
  BY DEF TimersInv, TimersHandled, TimersFresh, Quiet, WillSet, WillSave
<1> QED BY <1>1, <1>2, <1>3, TypeCorrect, PTL DEF Spec
================================================================================
