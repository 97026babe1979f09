# TLA+ models of the Student Management Service

The student management service is a NestJS backend over PostgreSQL (TypeORM). It
manages courses, groups, assignments, the registration of groups for assignments,
assessments and admission to exams. This directory holds specifications of its core
in TLA+, the TLC configurations that check them on small instances, and proofs of
most of the safety properties for instances of every size.

Paths of the form `course/...` are relative to the repository's `src/` directory,
`api-docs/...` to its root. `PROJECT.json` maps each definition to the lines it models.

## 1. The system

The server is one Node.js process: code between two `await`s runs undisturbed, and at
every `await` any other request, event handler, timer or the exit of the process can
come in. Nearly all operations read, check, and then write in separate queries without
a transaction around them; what protects the data is the database: unique indexes,
foreign keys and cascades. Events (`@nestjs/cqrs`) are published in memory after the
write, are handled concurrently, are not awaited by the request, and are lost when the
process exits. That is where the behaviour is hard to test, and what the models are
about.

| Component | State | Operations | Hard behaviour | What makes it correct |
|---|---|---|---|---|
| Groups of a course (`course/services/group.service.ts`, `course/repositories/group.repository.ts`, `course/commands/join-random-group.handler.ts`) | tables `groups`, `user_group_relations`; `GroupSettings` | create (one, many, on joining), join, join random, update, leave, delete | checks on snapshots, writes without a transaction, errors that are swallowed, `save` that re-inserts a deleted row | one group per participant, unique names, nothing dangles, `sizeMax` |
| Group events (`course/events/group/`) | table `group_event` | record joins and leaves, close a group that became empty | run after the request has ended, reload what they need | every membership is recorded, empty groups end closed |
| Assignments (`course/services/assignment.service.ts`, `course/repositories/assignment.repository.ts`) | table `assignments` | create, update, delete | update loads and saves the whole row; the state is saved before groups are registered | state changes only as somebody asked |
| Assignment scheduler (`task-scheduling/assignment-scheduler.service.ts`) | two timers in memory | set the timers on every assignment event, start and stop what is due, catch up at boot | timers are lost on exit, replaced by concurrent runs, overflow at 24.8 days | never early, never forgotten |
| Assignment registrations (`course/services/assignment-registration.service.ts`, `course/repositories/assignment-registration.repository.ts`) | tables `assignment_registration`, `group_registration_relation` | register all (on start), register or unregister a group, a user, all | groups and members change between the reading and the insert; two starts | nobody is registered twice, only one start registers |
| Group merging (`course/services/group-merge-strategy/`) | none | put the members of small groups together | arithmetic of group sizes | nobody lost, sizes within the limits |
| Participants, courses (`course/services/course-participants.service.ts`, `course/services/course.service.ts`, `course/services/course-config.service.ts`) | tables `participants`, `courses`, settings | join, leave, change role; change settings | swallowed errors of the insert; removal cascades | a user joins once |
| Assessments and allocations (`assessment/`) | tables `assessments`, `partial_assessments`, `assessment_allocations` | create, update, convert a group assessment, release, allocate | update without a lock, old score read before the transaction, events | one score per student, events with the right scores |
| Admission (`admission-status/`) | none | rules over assessments | rounding, division by zero points | monotone, as configured |
| Authentication, users (`auth/`, `user/`) | table `users`, cache of an hour | validate a token, create the user on the first request | stale cache, two first requests | roles take effect, one user per name |
| Activity, notifications, mail, submissions (`activity/`, `notification/`, `mailing/`, `submission/`) | one table each | record, notify, mail | two records per day, data read after the event | minor |
| Export, demo | none | queries, test data | none | not of interest here |

How they interact:

- A group request publishes `UserJoinedGroup` or `UserLeftGroup`; the handlers write
  the history and close empty groups through `GroupRepository` again.
- `AssignmentService` publishes `AssignmentCreated/Updated/Removed`; the scheduler's
  saga answers each by setting its two timers again. A timer that fires calls
  `AssignmentService.updateAssignment`, which publishes the next event. So the
  scheduler lives on a chain of events that must not break.
- `updateAssignment` that moves an assignment to `IN_PROGRESS` calls
  `registerGroupsForAssignment`, which reads the groups of the course (and their
  settings), merges small groups if the course wants that, and inserts registrations.
- Staff releases an assignment by making it `EVALUATED`. From then on students see
  scores, changes of scores are logged (`AssessmentScoreChanged`), and the assignment
  counts for admission.
- `MailingListener` subscribes to the same events as the scheduler and the history; it
  only reads, but an error in it ends the process.
- Registrations, memberships and history refer to groups and participants by foreign
  keys that cascade, so deleting a group or removing a participant reaches into every
  other table.

## 2. The modules

| Module | What it is |
|---|---|
| `GroupRoster` | abstract: which groups exist and who sits where, as any reader of the tables sees it |
| `GroupMembership` | the group service, its repository and its event handlers, step by step |
| `AssignmentScheduler` | the scheduler together with the part of `AssignmentService` it calls and is woken by |
| `AssignmentRegistration` | starting an assignment and registering groups, composed with `GroupRoster` for the changes of groups meanwhile and with `MergeContract` for the merging |
| `MergeContract` | abstract: what merging groups promises to the registration |
| `GroupMerge` | `MergeByActivityStrategy`, loop by loop, against `MergeContract` |
| `SimpleMerge` | `SimpleMergeStrategy`, iteration by iteration |
| `Ordering` | arrays that are sorted, for both strategies |
| `Merging` | both strategies, one of which each behaviour is about |
| `Assessments` | assessments of an assignment, partial assessments, conversion, the log of scores |
| `AdmissionStatus` | the rules for admission, their rounding, and the requests that apply them |
| `Enrolment` | joining a course, roles, leaving, and the course that is closed or deleted meanwhile |
| `Accounts` | authentication with its cache, accounts and their settings |
| `Allocations` | who evaluates whose solution |
| `Mailing` | the handlers of `MailingListener` |
| `Activity` | the record of visits |
| `Notices` | subscribers of a course and the posts to them |
| `Records` | `Accounts`, `Enrolment`, `Allocations`, `Mailing`, `Activity` and `Notices` side by side: each behaviour is about one of them |
| `...Proofs` | theorems about the module they are named after; `RecordsProofs` also has those about `Enrolment` and the smaller parts |
| `MC...` | the instances that TLC checks |

Because `AssignmentRegistration` lets the groups change by any step of `GroupRoster`,
and `GroupMembership` is proved to implement `GroupRoster`, what holds of the
registrations holds with the real group requests in the place of the abstract ones; that
includes a deleted group that comes back under its old id, when a save that has loaded it
is still pending (`revived` notes these groups). In the same way it merges groups by any
result that `MergeContract` allows, and `GroupMerge` is proved to return no other when the sizes are in order.

### GroupMembership

| Model | Code |
|---|---|
| `enrolled`, `groups`, `relations`, `history` | tables `participants`, `groups`, `user_group_relations`, `group_event` |
| `settings` | the course's `GroupSettings`, chosen in `Init` and then fixed |
| `req[r]` | one request being served: the `await` at which it is suspended and what it has read |
| `joinedEvents`, `closers` | handlers in progress: `UserJoinedGroupHandler`, `CloseEmptyGroupsHandler` |
| `Accept...` | guards and checks of a request, up to its first write |
| `InsertGroup`, `AddUser`, `LoadGroup`, `SaveGroup`, `RemoveUser`, `DeleteGroup` | one repository call each |
| `PublishUserJoined`, `PublishUserLeft` | the event, and the end of the request |
| `CreateMultipleGroups`, `RemoveParticipant` | single statements or transactions |
| `Exit` | the process exits and is started again |

Decisions a reader should know of:

- All guards and checks of one request see the same state, although the guards load
  participant and group in separate queries. The staleness that matters, between check
  and write, is there.
- A write contains what the database does: `AddUser` distinguishes a violated unique
  index (the request fails) from every other error, which the repository swallows, so
  that the request goes on and publishes an event for a membership that does not exist.
- `Repository.save` of a row that was deleted since it was read inserts it again.
- `UserJoinedGroupHandler` does not return its insert; if the foreign key makes it
  fail, nobody handles the rejection, which ends a Node process since version 15
  (`docker/Backend/Dockerfile` uses 22). `HandleUserJoined` then is an `Exit`.
- `UserLeftGroupHandler` builds its insert and never executes it
  (`course/events/group/user-left-group.event.ts:38`): leaving is never recorded, and
  there is nothing to model.
- `Course.isNotClosed` cannot refuse anything: the constructor of the model
  (`course/models/course.model.ts:10`) does not assign `isClosed`.
- A request that is refused changes nothing and does not appear. Participants that
  were removed do not come back.

### AssignmentScheduler

`rows` is the table, `updates` the calls of `updateAssignment` in progress (by staff or
by the scheduler), `runs` the calls of `scheduleNextStartAndStop` in progress, `timers`
the two timeouts, `jobs` timers that have fired and whose query is still to come.
`ReadNext` and `SetTimers` are the two halves of a run, `FireTimers` and `RunJob` those
of a job, `LoadAssignment` and `SaveAssignment` those of an update; `Boot` is `onInit`.

Only the order of dates matters, so dates are the numbers `1..MaxTime` and `now` counts
the dates that have passed. The scheduler looks for timers with `>= now` and for jobs
with `<= now`; no query falls into the very millisecond of a date. `setTimeout` replaces
a delay above 2^31-1 ms (24.8 days) by 1 ms; `MaxDelay` stands for that limit. All
timers that are due fire in one step, as Node runs them in one phase of its loop.

`stale` and `missed` are history: for which timers a run has read a table that has
changed since, and which timers were set from such a reading or lost otherwise.

`Orderly = TRUE`, in the runs about switching on time, adds an assumption: the server
finishes what it has begun before the next date passes and before staff sends the next
request, and staff sets no date that has already passed. `RegistrationMayFail` says whether registering groups may fail and
so keep `updateAssignment` from publishing its event.

### AssignmentRegistration

One assignment whose collaboration is `GROUP` (others register nobody). `call[s]` is a
call in progress: `SaveState`, `CheckFirstStart`, `ReadGroups`, `MergeGroups` and
`CreateRegistrations` are the awaited steps of a start, `RequestRegisterAll` enters at
the third, `createAssignment` with `IN_PROGRESS` does so in `Init`. `open`, `seat` are
the variables of `GroupRoster`; `ChangeRoster` is any of its steps with the cascade of
the registrations. Registering and unregistering single users or groups checks and then
writes; as unique indexes repeat the check, these are one step each. `updateAssignment`
loads and saves in `SaveState`; the lost update between the two is the subject of
`AssignmentScheduler`, which keeps them apart.

`MergeResults` says what `mergeByActivity` may return, not how: the groups that are
large enough stay, the members of the others are put together in some of those others,
whoever comes to whom. That is so for `sizeMin <= sizeMax`; see section 6 for the rest.

### GroupMerge, SimpleMerge, Merging

The strategies are pure, so a behaviour is one call, and the inputs are all that `Init`
allows. Groups are numbered in the order in which they are read, and students in that of
their groups; this loses nothing, since no strategy looks at an id but to compare it.

`Rank`, `ChooseSizes`, `Fill`, `NameGroup` and `Finish` are the stages of
`mergeByActivity`: students are sorted by submissions and active weeks, the sizes of the
groups are chosen, and the groups are filled and given the ids of groups that were
dissolved. `bestSum` is a recursive function that builds the table entry by entry: the
code updates later entries when it comes to a sum, the model looks at all earlier ones
when it comes to an entry, in the same order. The set of available ids keeps the order of
insertion, which `InsertedAt` recovers from the ranking.

`SimpleMerge` follows the loops of the other strategy with the indices the code uses,
which count among all groups instead of the small ones. `Ordered` is an array that was
sorted: each element comes at the place that the number of those before it gives.

### Assessments

| Model | Code |
|---|---|
| `score`, `relations`, `partials`, `users` | tables `assessments`, `assessment_user_relations`, `partial_assessments`, users |
| `released` | the assignment is `EVALUATED` |
| `req[r]` | a request suspended before loading (`load`), saving (`save`) and reading again (`reread`), before saving a partial (`put`) or replacing a group assessment (`replace`) |
| `pending` | `AssessmentScoreChanged` events whose insert is under way |
| `told`, `excused` | the score that students were shown or the log ends with; overlapping updates (for properties) |

One assignment, as assessments of different assignments do not meet. A transaction is
one step: it either happens (`SaveUpdate`, `Replace`) or is rolled back (`FailUpdate`,
`FailReplace`). `Saveable` says when TypeORM's `save` of an entity with its partials
goes through: it compares with the rows there are, and a partial that was added since
would lose its assessment, which the column does not permit.

### AdmissionStatus

Points and assignments are read by two queries that run side by side (`ReadStudents`,
`ReadAssignments`), while staff releases, withdraws and corrects. A percentage is a
fraction with a mark for the direction in which the double misses it (`Low` and `High`
list the fractions for which `(a / b) * 100` comes out beside an integer); `floor`,
`ceil`, `roundTo` and the comparisons with `NaN` follow the code.

### Enrolment, Accounts

`Enrolment` has one course. The guards of a route see one state and attach what they
read; each query of the handler is a step of its own. `save` of `updateRole` inserts a
participant that was removed. `entitled` notes which requests were allowed at some
moment (for properties).

`Accounts` has the cache of an hour (`TTL`, in ticks), the answers of the database that
take up to `Latency`, and the requests that act with a copy of the account. `age` notes
how long ago a copy was true.

### Allocations, Mailing, Activity, Notices

In `Allocations` and `Notices` a request finds a row (or none) and saves it later;
`Keeps` and `NameTaken` are the unique indexes, `Keeps` with the foreign keys. Groups,
users and assignments are deleted with their allocations, and may come back. The lists of
work join three tables that other parts of the system fill; a parameter (`Joined`) stands
for what these hold, and `WorkSplit` is said for all of it.

A `Mailing` handler reads whom an event concerns and the participants with their settings
by separate queries. `members` is the row that the event is about: the members of the
group, those registered with it, the users of the assessment or of all assessments. It may
hold anybody or be missing when the event comes, and grows, shrinks, goes and comes back
while the handler works; `past` notes what was true since the event. Settings name
what a user has blacklisted; the listener looks up the names of mails there, while the
settings are declared with those of `Event`. `Activity` has the days of a
calendar with short months, as `isSameDay` compares day and month.

## 3. The runs

| Run | Instance | Shows |
|---|---|---|
| `GroupRosterRun` | 1 student, 2 groups, names 1 and 2, 2 requests, 1 handler at a time; renaming, closing, reopening | types; `RosterIntegrity`; every step refines `GroupRoster` |
| `GroupLimits` | a student and a tutor, 1 group, a password, 2 requests | `OvershootBounded`: `sizeMax` is exceeded by fewer members than there are requests at a time; `JoinRecorded`: no membership goes unrecorded before an exit |
| `GroupClosing` | a tutor, 2 groups, reopening and renaming, 1 request beside 1 handler | `EmptyGroupsClosed`: a group whose last member left ends closed, occupied, deleted, unless its name has been given away between the handler's read and its save |
| `SchedulerSafety` | dates 1 and 2, timers of length 1, failing registrations, a restart; either 1 assignment that starts and stops, with staff moving the start, hiding and deleting it, or 2 assignments that start, with overlapping runs | types; `NeverEarly`: whenever a timer fires, nothing is switched before its date, unless staff moves the date after the job has read it; `TimersFresh`: at rest a timer fits the table, unless it was lost in one of the three ways that the code has |
| `SchedulerOnTime` | 2 assignments with start and end, 3 dates, postponing, deleting, a restart, orderly | `SwitchedOnTime`: what waits for a date is switched, also over a downtime |
| `SchedulerClosed` | an assignment to be stopped and a `CLOSED` one that ends earlier | violation of `SwitchedOnTime`: the timer of the `CLOSED` one is the last |
| `Registrations` | 2 participants, 2 groups that may be deleted and come back, 2 calls, merging or not, single edits, an exit | types; `RegistrationIntegrity`; `StartsRegisterOnce`: no start adds to the groups of another, unless one of the two groups had come back |
| `Assessments` | 2 students, 3 ids, 2 requests, scores 1 and 2 of which 1 can be achieved, exits | types; `GradeIntegrity`: one assessment per student, nothing dangles; `AssessedStay`, `PartialsStay`: nobody loses what no request removes; `ScoreTraced`: after the release, the log leads to the present score |
| `ScoreUnlogged` | 1 student, 1 assessment, 2 updates | violation of `ScoreChangesLogged`: overlapping updates change the score without an event |
| `Merging` | up to 5 students in 4 groups, 7 ranges of sizes, 3 kinds of activity; all open and closed groups for the simple strategy | the strategy by activity meets the contract, finds the best sizes and keeps equals together (of those whose activities were read in order); the simple one keeps groups together and below the maximum |
| `Admission` | 1 student, 2 assignments with 50 and 25 (or no) points, scores 7 and 29, 6 sets of rules with every rounding | `StatusExact` against exact arithmetic, `MorePointsNeverHurt`, `NotAdmittedByChance` for torn reads, `NoPreview` of unreleased points |
| `Records` | six parts in one run: 2 names and 2 requests (`Accounts`), a lecturer and an administrator (`Enrolment`), a group, a student, 2 evaluators and 3 contents of the joined tables (`Allocations`), 2 users, 4 profiles, any tables to begin with and 2 changes (`Mailing`), 3 handlers and 3 days (`Activity`), 1 name and 2 events (`Notices`) | see the table below |

| Property of `Records` | Says |
|---|---|
| `BoundedStaleness` | no request acts with an account that ceased to be true longer ago than the cache keeps it and an answer takes |
| `SettingsComplete`, `OneAccount` | settings exist for accounts only; concurrent first requests create one account |
| `ChangesEntitled` | nobody gets into a course, out of it or into a role but by a request that was allowed at some moment |
| `ParticipantsBelong`, `OnlyJoinersAnnounced` | participants have an account and a course; nobody is announced as having joined who was a participant all the time before the request had saved |
| `WorkSplit` | an allocated target that the joins of the query find is in the list of exactly one evaluator, any other in nobody's |
| `OnlyWantedMails`, `EverybodyTold`, `EndsOnlyWhenMissing` | mails go only to those whom the event concerned at some moment and whose settings allowed the mail at some moment; whom it concerned and who wanted it all the time gets one; and a handler ends the process only when its subject was missing |
| `VisitRecorded`, `StoredOnce` | a visit leaves an activity; only concurrent handlers store a day twice |
| `NotifiedOnce` | one post for each subscriber of the event |

**Bounds.** Two requests (calls) suffice for each race of a check in one with a write in
another; what a third adds to safety is covered by the proofs, which hold for any
number. `MaxRuns = 2` lets a run be overtaken by the next one in `SchedulerSafety`. Its
constraint `Small` (`MCAssignmentScheduler`) keeps apart what multiplies: changes by staff
meet one assignment and one run at a time, overlapping runs meet two assignments that
nobody changes but the scheduler, and the process exits with at most one; the proofs,
which have no such constraint, cover the rest. In the orderly runs, whose liveness no
proof extends, staff waits until the server is at rest, so two runs coexist there only
when two updates of one job or the catch-up at boot trigger them. A further event waits
until a run has ended. Updates in
progress form a set: two calls that are alike in everything count as one.
Two groups are needed for names to clash and for a participant to be between two; one
for limits, where a second would only repeat the first. `sizeMin = sizeMax = 1` makes a
group full and closable with one member, so limits are met at once. `MaxHandlers = 1`
delays the publishing of an event while a handler runs; the handler still interleaves
with every request. `GroupClosing` has only a tutor, who may do all that students may,
so that temporal checking stays small. Three dates are the fewest for two assignments
whose starts and ends interleave; one restart is the fewest for a downtime at any point.
New groups never get an id that was used before, so behaviours end when all are used; a
deleted group comes back only under its own.

`Assessments` is explored under the constraint `Small` (`MCAssessments`): requests and
log entries in progress are about one assessment, two assessments exist at most, updates
run with one student, partials with one student and one assessment. Creations in one
step meet everything through the unique index; the proofs, which need no such
constraint, cover the combinations left out. `Merging` has a range without gaps, ranges
with gaps, one without any number (`4..1`) and no maximum, for both strategies;
`SizesAreBest` looks at the sizes for up to 20 students. The scores 7 and 29 over 25, 50 and 75 points include the
percentages that doubles miss. In `Records`, `MaxId = 2` lets an account be deleted and
created again, `TTL = Latency = 1` separates an entry that is about to expire from one
that is fresh, a month of 2 days lets two days of 3 have the same number, and 3 handlers
store a day three times at most. The tables that the lists of work join hold everything but assessments, everything but
registrations, or registrations only (`SomeTables`); `WorkIsSplit` holds for any. One of
the profiles of `Mailing` blacklists some mails, and all that the declaration of the
settings names, which excludes none. Two changes suffice for a member to leave and come back while a mail handler works.
Requests, students and evaluators are interchangeable
there, so `Records` and `Assessments`, which check no liveness, use symmetry.

**Fairness.** `GroupMembership.FairSpec` has weak fairness of each handler run: the
event loop resumes it when its query has been answered. Nothing else is assumed: no
request need ever be made. `AssignmentScheduler.FairSpec` has weak fairness of `Work`
(queries are answered, timers fire, jobs run) and of `Boot` (the container is restarted),
and strong fairness of `Tick`: time passes even if staff sends requests again and again,
which under `Orderly` disable the tick for a while each. The other modules claim nothing
that must eventually happen: a request that fails or a process that exits is never
resumed by this code.

**Deadlock** is not checked in the scheduler's runs (when the last date has passed and
nothing is left to do, the model rests), in `Merging` (a call that has returned) and in
in `Records` (a mail handler that is done, a calendar that has ended).

### What the violations say

Each of the two is a disagreement between the code and a sentence of its documentation or
comments, quoted in `PROJECT.json` under `findings`: `api-docs/docs/assignments.md` says
that assignments switch automatically; `assessment.service.ts`, that an event is published
if the score changed. Further divergences are in section 6.

`SwitchedOnTime` passes in `SchedulerOnTime` under `Orderly`, which excludes further
ways in which the scheduler misses a date, from reading the code (those that lose a timer
are the exceptions of `TimersFresh`): a date that passes between the query of a run and its
timer, or during the job of another date; an assignment created with a start that has passed;
a downtime over both dates of one assignment (it is started at boot, and its passed end
is not looked for again); two concurrent runs that set timers in the wrong order; a
registration that fails, so that no event sets the timers; a lecturer's update that was
read before the switch and saved after it.

## 4. The proofs

All theorems are of the form `Spec => ...` without a bound on any constant;
they assume at most the module's `ConstantsOK` (in
`Records`, `PartsOK`), which TLC evaluates in every run: types of the constants, that
sets which are counted are finite, that `None` is no value.

`GroupMembershipProofs`:

- `TypeCorrect`: `TypeOK` is inductive. It contains `RequestOK`: a suspended request
  holds what its next step reads.
- `RosterCorrect`: `TypeOK /\ RosterIntegrity` is inductive. Integrity needs its own
  clauses about ids (`IdsOK`): `SaveGroup` may insert a row whose group was deleted, so
  one has to know that the id it holds was used before and cannot be given to a new
  group in the meantime.
- `JoinsRecorded`: inductive relative to `TypeOK`. A membership is inserted by a request
  that then holds it until its event is published; the event holds it until it is in
  the history. Deleting a group removes history and membership in one step.
- `OvershootIsBounded`: inductive relative to `TypeOK`. The clue is to count members and
  requests about to insert one together: passing the check adds one to a sum that was
  below `sizeMax + (number of other requests)`, an insert moves one from the second
  count to the first. The bound holds for groups to which staff added nobody.
- `RosterRefinement`: every step is a step of `GroupRoster` on `Existing` and
  `GroupsOf`, or leaves both as they are. `AddUser` needs the unique index,
  `RemoveParticipant` and `DeleteGroup` the cascades, `SaveGroup` the re-inserted row
  (a `Found`, of a group that then has no members).

`AssignmentRegistrationProofs`:

- `TypeCorrect`, `IntegrityKept`: inductive, given what `Insertable` demands on behalf
  of the database.
- `OneStartRegisters`: `StartsRegisterOnce` is an action property; that there are
  registrations already does not by itself forbid another insert. The strengthening is
  `StartsOrdered`: of the groups that have lasted since they were created (`Lasting`),
  what two calls are about to insert is nested, since one was read before the other; and
  so is what a call is about to insert with what is registered (`Nested`). So a second
  insert that adds such a group to such a group contains a registered one, and violates
  the index on (assignment, group). Groups that were deleted and came back are excepted,
  and must be: a call that read one of them before, and one that read the groups while it
  was gone, may both insert. Merging drops groups from the snapshot and single edits
  leave groups unregistered, which breaks the argument too; the property excludes both.

`AssignmentSchedulerProofs`:

- `TypeCorrect`: inductive, given that the next date of a non-empty set of rows exists
  (`NextDateFound`, by induction over finite sets). `TypeOK` says that nothing survives
  an exit.
- `SwitchesNotEarly`: inductive with `DueHasPassed`: an update of the scheduler carries a
  date that had passed when the job found the assignment, and time does not go back.
  Nothing is assumed of timers: they may fire at any moment.
- `TimersAreFresh`: nothing is assumed of staff, failures or dates. `TimersFresh` speaks
  of a server at rest. In between, `TimersHandled` says of each timer that it fits the
  table, has been lost (`missed`), or that something under way will set it: a run that
  was not overtaken (`WillSet`), an update whose event triggers one (`WillSave`), or a job
  whose timer is spent. What a run has read since the last change is the next date, or an
  earlier one if time has passed (`RunsCurrent`). That every change outdates the readings
  before it and triggers a run of its own is what the proof rests on.

`AssessmentsProofs`:

- `TypeCorrect`, `GradesCorrect`: `GradeIntegrity` needs `HeldOK`, that an update about
  to be saved holds partials with different keys, and that a conversion about to replace
  an assessment holds all students that are in it. The second is so because nobody is
  ever added to an assessment.
- `NobodyLosesAssessment`: from the same invariant; a conversion that goes through gives
  each of those students an assessment of his own, and one that fails is rolled back.
- `NoPartialLost`: an update without a list of partials keeps those it has read, and
  `Saveable` refuses one that has read too few.
- `ScoresTraced`: `ScoreTraced` speaks of assessments at rest; the strengthening `Traced`
  says what is true on the way, of an assessment that is not excused: at most one update
  or log entry of it is under way; until the update is saved, its original is the score
  in the table; a log entry carries that score; and if none is under way, what was told
  is the score in the table or the original that the update is about to compare with.

`AccountsProofs`, `RecordsProofs`: `Records` checks six modules in one run, and so the
theorems that name its properties are those of `Records`. A step of it is a step of one
of the six, so that the invariant `RecordsOK` is the conjunction of theirs
(`RecordsCorrect`). `AccountsProofs` is used as an instance; the lemmas `SameAccounts...`
say that the instances of `Accounts` in `Records` and in its proofs are the same
formulas.

- `CachedAccountsAgeOut`: `AgesOK` bounds the age of a copy by its holder: in an entry of
  the cache by `TTL + Latency` less the time that is left, in a request by the time it
  has waited. An entry is written by a request that has waited `Latency` at most, and
  reading it does not renew it.
- `SettingsStayComplete`: inductive with `IdsOK`: an id belongs to one name, the names of
  accounts and of the updates under way that will write an id included.
- `AccountsAreKept`: from the types.
- `ParticipantsHaveCourse`: inductive with the types.
- `JoinersAnnounced`: inductive with `AbsentOK`: a request that has not saved has been
  noted if the user it adds is no participant now, and one that has saved has been noted.
  The save that fails silently does so because the user or the course is gone, and then,
  by `ParticipantsBelong`, so is the participation; any other failure is a conflict.
- `ParticipationsEntitled`: `EntitledOK` says that whoever has passed the checks has been
  noted as entitled. The gap between a guard and the handler's checks matters: one who
  is not of the staff passes the second check of his own request, at which moment he is
  entitled, and one who was of the staff had been noted when the guard let him through.
- `WorkIsSplit`: the rows keep the unique constraints, whatever a request has found
  before it saves; so a target that is allocated has one evaluator, and his list is the
  only one with it, if the joins find it. What these tables hold is any set of the
  constant `Joined`.
- `MailsAreWanted`, `ConcernedAreTold`, `HandlersSurvive`: the properties speak of a
  handler that is done; `MailOK` adds what is true on the way (`HandlerSound`). What is
  true now has been noticed (`NowNoticed`); whom the handler has found was concerned, or
  is the one who has joined, and has the settings he had, at some moment since the event
  (`FoundWasTrue`); whoever was concerned at every moment has been found by each query so
  far (`TrueWasFound`); and one who has joined is not missing from the members that were
  read unless he had left (`SubjectOK`).
- `VisitsAreRecorded`, `DaysCountOnce`: `ActivityOK`. No activity is later than today, so
  the latest is the one of the day of a visit, or of a later day. `isSameDay` compares
  the number in the month and the month, and is exact for any length of a month
  (`DivisionDetermines`) within one year.
- `SubscribersNotifiedOnce`: names stay unique (`SubscribersOK`), so those who shall be
  notified and the posts correspond one to one.

`AdmissionStatusProofs`:

- The sums over points are folds of the community modules, defined by recursion over
  sets. What they are is proved without induction over predicates: sets of subsets of
  a finite set have a smallest element (`SmallestSubset`), so that of sets for which a
  fact fails there is a smallest one (`SumIs`, `SumTakesAny`, `SumMonotone`,
  `SumZeros`).
- `FailsMonotone`: fewer points never help, for every rounding, wherever the double is
  beside an integer, for `NaN` and `Infinity`. `FailsExact`: where doubles are what they
  should be, each rounding is the inequality that `Enough` states without rounding.
- `PointsNeverHurt`: from these, for rules on single assignments by counting, for those
  on the whole because assignments without an assessment add zero.
- `StatusIsExact`: `RequestOK` says that what a request has read is what is true now,
  as long as nothing has changed; so that its answer is the one of the present moment,
  and `CheckExact` compares that with exact arithmetic.
- `NobodyAdmittedByChance`: the assessments that were read are those of some set of
  assignments, and who would have fulfilled the rules with the assignments that were
  read is among the moments. Assessments of another moment only give fewer points.
- `NothingIsPreviewed`: what was read as EVALUATED still is, unless it was withdrawn.
- Assumed of the constants: there are finitely many assignments, and powers of ten are
  positive numbers, which the provers do not know of an exponent that is not a number.

`MergingProofs`: as in `Records`, the invariant is that of the strategy the behaviour is
about (`StrategyInv`, `SimpleInv`). The provers have no induction over data, but the
library has a theorem that a well-founded relation has minimal elements (`WFMin`); with
it a set of numbers for which a fact fails has a smallest one (`SmallestNumber`), and
that is the induction of all lemmas below. Recursive functions exist for the same reason
(`IterationExists`: the longest of the initial segments is the whole).

- `OrderedIs`: sorting by a strict order puts each element at one place, after those
  before it, because its predecessors are counted. `RankingIs` and `AscendingIs` are this
  for the comparison of the code and for numbers.
- `BestSumIs`, `TableAddsUp`, `TableShortest`: entry `sum` of the table adds up to `sum`,
  and nothing shorter does. Of a shortest sequence one number can be taken away, which
  leaves a shortest one of a smaller sum; the entry of that was compared.
- `SizesAreTheBest`: the sizes when a combination exists (none is shorter, and any
  division into `k` groups is a combination of length `k`), and the fallback of maximum
  sizes and a rest otherwise.
- `MergeIsSafe`: `Filling` says that the filled groups are the first parts of the ranking,
  cut by the sizes (`Divides`), and counts ids against groups (`Named`): available ids and
  filled groups are together as many as small groups and groups without an id. With sizes
  in order there are no more merged groups than small ones, so that no group is left
  without an id at the end: that is what the sentence "This should not happen" in the
  code needs. The contract follows, and with it that `AssignmentRegistration` may use
  `MergeContract` in the place of the strategy.
- `MergedSizesAreBest`: from `Divides` and `SizesAreTheBest`.
- `MergedByActivity`: parts of a ranking are ranked; weeks that are read in order are
  counted as often as they are different (`WeeksCountOnce`).
- `SimpleMergeKeepsTogether`, `SimpleMergeKeepsRoom`: `Placed` says that there is a map
  from given groups to where their members are now, so that groups only move as a whole,
  and that who shares a group with others was small or open and fits. It needs the
  indices to be right: if no group is empty, the small groups are the first ones
  (`SmallOnesFirst`), and the index among all groups is the index among these. The
  hypothesis is needed, see section 6.

Each invariant was checked by TLC on the instance of its run before it was proved:
`TimersInv`, `MailOK`, `RequestOK` and `MergingInv` among them.

**Only model-checked:** `EmptyGroupsClosed` and `SwitchedOnTime` (liveness under
fairness is out of the prover's reach), and the two violations. Every invariant and every
action property of the passing runs is proved.

## 5. Not modelled, and why

- Export, demo data, queries, DTO mapping, OpenAPI: no state.
- What transports do with mails, posts and spreadsheets: other systems.
- The creation of a course (`createCourse` and its template): one transaction of inserts,
  from which the models start. Admission criteria, assignment templates, links and
  configs of assignments: single inserts and updates.
- Admission from previous semesters: a list of names that is read; the model has the
  set of students it yields.
- Matriculation numbers: one column, see section 6.
- `removeAllocation`: it always fails, see section 6.
- Storing a submission: one insert. What it triggers is in `Mailing`, what it counts for
  in `GroupMerge`.
- Changing the group settings while requests run: each behaviour has fixed settings.
- `UserRegistered` and `UserUnregistered` events: nothing handles them but the
  notification, which posts the event as it is.

What the properties leave out of a hazard is in `PROJECT.json` with a note.

## 6. Where the code differs from what it says

Seen while modelling; the models follow the code. The first two are shown by a run.

| Where | What the code does |
|---|---|
| `task-scheduling/assignment-scheduler.service.ts:188` | `SchedulerClosed`: the end of a `CLOSED` assignment uses up the only stop timer |
| `assessment/services/assessment.service.ts:162` | `ScoreUnlogged`: of two overlapping updates one changes the score without an event |
| `task-scheduling/assignment-scheduler.service.ts:31` | runs are not awaited, and one that read the table before a change sets the timers after the run of the change; `TimersFresh` excepts it |
| `assessment/repositories/assessment-allocation.repository.ts:23` | of two first allocations of a target the second fails instead of changing the evaluator |
| `mailing/services/mailing-listener.service.ts:331` | the blacklist is declared with the names of `Event` and asked for those of mails, so that what the settings exclude by name is sent (`mailing-listener.service.spec.ts:354` notes it) |
| `task-scheduling/assignment-scheduler.service.ts:169` | a date more than 24.8 days ahead makes the timer fire at once; it is not set again until another event |
| `course/services/group.service.ts:192` | `hasCapacity` looks at a snapshot: concurrent joins exceed `sizeMax` (by how much is `OvershootBounded`) |
| `course/services/group.service.ts:92` | when the creator cannot join, his group stays behind, open and empty |
| `course/services/assignment.service.ts:67` | the state is saved before groups are registered: a start that fails leaves the assignment `IN_PROGRESS` without registrations |
| `course/repositories/assignment.repository.ts:52`, `course/repositories/group.repository.ts:228` | a partial update loads and saves the whole row, and so undoes what another has saved in between |
| `course/events/group/user-left-group.event.ts:38` | the query that records leaving is built and never executed |
| `course/services/group-merge-strategy/merge-by-activity.strategy.ts:150` | the settings admit `sizeMin > sizeMax`; the sizes then may not add up, and students are in no group, or groups get no id |
| `course/services/group-merge-strategy/simple-merge.strategy.ts:56` | indices of small groups are used among all groups: with empty groups students are lost (no caller uses the strategy) |
| `admission-status/rules/impl/overall-percent.ts:42` | percentages are doubles: 29 of 50 points are 57.99... percent and fail a requirement of 58 percent unless rounding saves them |
| `assessment/repositories/assessment-allocation.repository.ts:102` | `removeAllocation` deletes by the id of a criteria object that has none, which TypeORM refuses |
| `assessment/repositories/assessment-allocation.repository.ts:5` | the repository is declared by `@EntityRepository`, which `@nestjs/typeorm` 10 does not resolve; the model takes it as the code intends |
| `user/controllers/user.controller.ts:222` | `setMatrNr` writes the row of the requester, whatever user the path names |
| `mailing/services/mailing-listener.service.ts:242` | the mail about a member who has left a group goes to members who have excluded mails |
| `activity/activity.event.ts:8` | "at most one event ... per day" does not hold for concurrent requests (`StoredOnce` says when it does) |
| `course/repositories/admission-criteria.repository.ts:77` | updating admission criteria when there are none asks `getCustomRepository` for a repository that is not declared as one, and fails |
| `submission/submission.service.ts:41` | the submission is read after its insert without a check; if it was removed, the request fails though the event is published |

`Repository.save` of a row that was deleted since it was read inserts it again. That
makes participants, accounts (without settings), courses (without a config),
subscribers and allocations come back; the models have it, and `RosterIntegrity`,
`ParticipantsBelong`, `SettingsComplete`, `WorkSplit` and `NotifiedOnce` say what holds
all the same.

## 7. Plan

| # | Module | Content | State |
|---|---|---|---|
| 1 | `GroupRoster`, `GroupMembership` | groups, history; refinement | done, five theorems |
| 2 | `AssignmentScheduler` | timers and jobs; on time, never early | done, three theorems |
| 3 | `AssignmentRegistration` | starts, edits; composed with 1 | done, three theorems |
| 4 | `MergeContract`, `GroupMerge`, `SimpleMerge`, `Merging` | both strategies against the contract | done, five theorems |
| 5 | `Assessments` | updates, partials, conversion, the log | done, five theorems |
| 6 | `AdmissionStatus` | rules, rounding, torn reads | done, five theorems; previous semesters are left |
| 7 | `Enrolment`, `Accounts`, `Allocations` | participants, cache, accounts, evaluators | done, seven theorems |
| 8 | `Mailing`, `Activity`, `Notices` | handlers and subscribers | done, six theorems |
| 9 | a composition of 1 and 3 | `ChangeRoster` replaced by the requests of `GroupMembership`, with one request each | planned |
| 10 | `Assessments` and `Allocations` in one | the work of an evaluator while group assessments are converted | planned |
