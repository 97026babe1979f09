-------------------------------- MODULE Enrolment --------------------------------
(****************************************************************************)
(* Joining a course, the roles of its participants and leaving it           *)
(* (CourseParticipantsService, ParticipantRepository and the guards of the  *)
(* controller), while the course is closed, opened, deleted or gets another *)
(* password (CourseRepository, CourseConfigRepository).                     *)
(*                                                                          *)
(* One course.  A request is served in steps: one for every query that its  *)
(* handler awaits.  save of TypeORM inserts a row that is no longer there.  *)
(****************************************************************************)
EXTENDS Naturals, FiniteSets

CONSTANTS
  Users,
  Admins,         \* users with one of the adminRoles
  Lecturer,       \* the lecturer the course is created with
  Requests,       \* requests that may be served at the same time
  Passwords,      \* passwords for the course
  NoPassword,     \* no password is required, or none is given
  None            \* undefined

VARIABLES
  users,          \* users who have an account
  course,         \* "open", "closed" or "gone"
  password,       \* CourseConfig.password, None without a config
  participation,  \* the row of each user: [id, role], or None
  req,            \* the requests
  entitled,       \* history: requests that were allowed at some moment since
  absent          \* history: requests before whose save the user they add was no
                  \* participant at some moment

vars == <<users, course, password, participation, req, entitled, absent>>

--------------------------------------------------------------------------------

Roles == {"LECTURER", "TUTOR", "STUDENT"}

(* What the constants are assumed to be. *)
ConstantsOK == None \notin Roles

Idle == [at |-> "idle"]

IsAdmin(u) == u \in Admins

RoleOf(u) == IF participation[u] = None THEN None ELSE participation[u].role

Move(r, state) == req' = [req EXCEPT ![r] = state]

(* The request is answered. *)
Answer(r) == Move(r, Idle)

Tables == <<users, course, password, participation>>

(* An id that neither a row nor a request has: ids that nobody remembers may come again,
   nothing compares them. *)
NewId ==
  LET used == {participation[u].id : u \in {v \in Users : participation[v] # None}}
                \cup {req[r].id : r \in {q \in Requests : req[q].at = "found"}}
      ids == 1..(Cardinality(Users) + Cardinality(Requests) + 1)
  IN  CHOOSE i \in ids \ used : \A j \in ids \ used : i <= j

--------------------------------------------------------------------------------
(* addParticipant *)

(* checkIfUserCanAddParticipant: whether it throws, and isAdminOrLecturer. *)
MayAdd(by, u) ==
  IF participation[by] # None
  THEN by # u /\ (IsAdmin(by) \/ RoleOf(by) = "LECTURER")
  ELSE by = u \/ IsAdmin(by)

StartAdd(r, by, u, pw) ==
  /\ req[r].at = "idle" /\ by \in users
  /\ MayAdd(by, u)
  /\ Move(r, [at |-> "checked", kind |-> "add", by |-> by, user |-> u, password |-> pw,
              staff |-> RoleOf(by) = "LECTURER" \/ IsAdmin(by)])
  /\ UNCHANGED Tables

(* The checks of a user who joins. *)
LetsIn(pw) == course # "closed" /\ password \in {NoPassword, pw}

(* getCourseWithConfigAndGroupSettings.  Without a config there is no password to
   look at: a TypeError, unless staff adds the user. *)
ReadCourse(r) ==
  /\ req[r].at = "checked"
  /\ IF course # "gone" /\ (req[r].staff \/ (password # None /\ LetsIn(req[r].password)))
     THEN Move(r, [at |-> "allowed", user |-> req[r].user, config |-> password # None])
     ELSE Answer(r)
  /\ UNCHANGED Tables

(* The foreign keys of a participant. *)
ForeignKeys(u) == u \in users /\ course # "gone"

(* Mutant of Conflict: all errors of save are swallowed. *)
Conflict_Swallowed(u) == FALSE

(* The index on course and user, whose violation becomes a ConflictException. *)
Conflict(u) == ForeignKeys(u) /\ participation[u] # None

(* What save does with the new row. *)
Outcome(u) == CASE ~ForeignKeys(u) -> "failed"
                [] ForeignKeys(u) /\ participation[u] # None -> "conflict"
                [] OTHER -> "inserted"

(* createParticipant saves a STUDENT.  The errors that are no conflict are swallowed, so
   that the query that follows decides. *)
CreateParticipant(r) ==
  LET u == req[r].user
  IN  /\ req[r].at = "allowed"
      /\ participation' = IF Outcome(u) = "inserted"
                          THEN [participation EXCEPT ![u] = [id |-> NewId, role |-> "STUDENT"]]
                          ELSE participation
      /\ IF Conflict(u) THEN Answer(r)
         ELSE Move(r, [at |-> "saved", user |-> u, config |-> req[r].config])
      /\ UNCHANGED <<users, course, password>>

(* getParticipant throws when there is no row, and CourseJoined cannot be made without
   the group settings of a config. *)
Announces(r) == participation[req[r].user] # None /\ req[r].config

(* The end of addParticipant, with or without CourseJoined, which is only pushed to
   subscribers. *)
PublishJoined(r) ==
  /\ req[r].at = "saved"
  /\ Answer(r)
  /\ UNCHANGED Tables

--------------------------------------------------------------------------------
(* updateUserRole and removeUser *)

(* CourseMemberGuard, which makes a lecturer of every admin: the role that the other
   guards see. *)
GuardRole(by) ==
  IF course = "gone" THEN None ELSE IF IsAdmin(by) THEN "LECTURER" ELSE RoleOf(by)

(* Mutant of TeachingStaff: a participant may change what is his own. *)
TeachingStaff_OrSelf(by, u) == GuardRole(by) \in {"LECTURER", "TUTOR"} \/ by = u

(* TeachingStaffGuard *)
TeachingStaff(by, u) == GuardRole(by) \in {"LECTURER", "TUTOR"}

(* ParticipantIdentityGuard *)
OwnerOrStaff(by, u) == GuardRole(by) # None /\ (GuardRole(by) # "STUDENT" \/ by = u)

StartUpdateRole(r, by, u, role) ==
  /\ req[r].at = "idle" /\ by \in users
  /\ TeachingStaff(by, u)
  /\ Move(r, [at |-> "guarded", kind |-> "role", by |-> by, user |-> u, role |-> role])
  /\ UNCHANGED Tables

StartRemove(r, by, u) ==
  /\ req[r].at = "idle" /\ by \in users
  /\ OwnerOrStaff(by, u)
  /\ Move(r, [at |-> "guarded", kind |-> "remove", by |-> by, user |-> u, role |-> None])
  /\ UNCHANGED Tables

(* findOneOrFail *)
FindParticipant(r) ==
  LET u == req[r].user
  IN  /\ req[r].at = "guarded"
      /\ IF participation[u] = None THEN Answer(r)
         ELSE Move(r, [at |-> "found", kind |-> req[r].kind, user |-> u,
                       role |-> req[r].role, id |-> participation[u].id])
      /\ UNCHANGED Tables

(* save of updateRole: it writes the row with the id, or inserts it again. *)
UpdateRole(r) ==
  LET u == req[r].user
      fails == IF participation[u] = None THEN ~ForeignKeys(u)
               ELSE participation[u].id # req[r].id
  IN  /\ req[r].at = "found" /\ req[r].kind = "role"
      /\ participation' = IF fails THEN participation
                          ELSE [participation EXCEPT ![u] =
                                  [id |-> req[r].id, role |-> req[r].role]]
      /\ Answer(r)
      /\ UNCHANGED <<users, course, password>>

(* remove deletes the row with the id. *)
RemoveUser(r) ==
  LET u == req[r].user
  IN  /\ req[r].at = "found" /\ req[r].kind = "remove"
      /\ participation' = IF participation[u] # None /\ participation[u].id = req[r].id
                          THEN [participation EXCEPT ![u] = None] ELSE participation
      /\ Answer(r)
      /\ UNCHANGED <<users, course, password>>

--------------------------------------------------------------------------------
(* The course and its configuration *)

(* The guards of updateCourse, and getCourseById. *)
StartUpdateCourse(r, by, state) ==
  /\ req[r].at = "idle" /\ by \in users
  /\ TeachingStaff(by, None)
  /\ Move(r, [at |-> "course", state |-> state])
  /\ UNCHANGED <<users, course, password, participation>>

(* save: a course that was deleted is inserted again, without its config; that fails
   when the dto leaves a column undefined. *)
UpdateCourse(r) ==
  /\ req[r].at = "course"
  /\ course' \in {req[r].state} \cup (IF course = "gone" THEN {"gone"} ELSE {})
  /\ Answer(r)
  /\ UNCHANGED <<users, password, participation>>

(* updateCourseConfig: one UPDATE. *)
UpdateCourseConfig(by, pw) ==
  /\ by \in users /\ TeachingStaff(by, None)
  /\ password # None /\ password' = pw
  /\ UNCHANGED <<users, course, participation, req>>

(* deleteCourse, with the config and the participants. *)
DeleteCourse ==
  /\ course # "gone"
  /\ course' = "gone" /\ password' = None
  /\ participation' = [u \in Users |-> None]
  /\ UNCHANGED <<users, req>>

(* Mutant of DeleteUser: the participations of the user stay. *)
DeleteUser_NoCascade(u) ==
  /\ users' = users \ {u}
  /\ UNCHANGED <<course, password, participation, req>>

(* deleteUser, with the user's participations. *)
DeleteUser(u) ==
  /\ users' = users \ {u}
  /\ participation' = [participation EXCEPT ![u] = None]
  /\ UNCHANGED <<course, password, req>>

--------------------------------------------------------------------------------

(* Whether a request that has not read all yet is allowed now (for properties). *)
Entitled(r) ==
  LET by == req[r].by
      Staff == IsAdmin(by) \/ RoleOf(by) \in {"LECTURER", "TUTOR"}
  IN  \/ /\ req[r].at = "checked"
         /\ \/ IsAdmin(by) \/ RoleOf(by) = "LECTURER"
            \/ /\ by = req[r].user /\ course = "open"
               /\ password \in {NoPassword, req[r].password}
      \/ /\ req[r].at = "guarded"
         /\ Staff \/ (req[r].kind = "remove" /\ by = req[r].user)

(* Whether the request is about to add a user who is no participant now (for properties). *)
AddsAbsent(r) == req[r].at \in {"checked", "allowed"} /\ participation[req[r].user] = None

Observe ==
  /\ entitled' = {r \in Requests : req'[r] # Idle /\ (r \in entitled \/ Entitled(r)')}
  /\ absent' = {r \in Requests : req'[r] # Idle /\ (r \in absent \/ AddsAbsent(r)')}

Init ==
  /\ users = Users
  /\ course = "open"
  /\ password \in Passwords \cup {NoPassword}
  /\ participation = [u \in Users |->
                        IF u = Lecturer THEN [id |-> 1, role |-> "LECTURER"] ELSE None]
  /\ req = [r \in Requests |-> Idle]
  /\ entitled = {} /\ absent = {}

Operation ==
  \/ \E r \in Requests :
       \/ \E by, u \in Users :
            \/ \E pw \in Passwords \cup {NoPassword} : StartAdd(r, by, u, pw)
            \/ \E role \in Roles : StartUpdateRole(r, by, u, role)
            \/ StartRemove(r, by, u)
       \/ ReadCourse(r) \/ CreateParticipant(r) \/ PublishJoined(r)
       \/ FindParticipant(r) \/ UpdateRole(r) \/ RemoveUser(r)
       \/ \E by \in Users, state \in {"open", "closed"} : StartUpdateCourse(r, by, state)
       \/ UpdateCourse(r)
  \/ \E by \in Users, pw \in Passwords \cup {NoPassword} : UpdateCourseConfig(by, pw)
  \/ DeleteCourse
  \/ \E u \in Users : DeleteUser(u)

Next == Operation /\ Observe

Spec == Init /\ [][Next]_vars

--------------------------------------------------------------------------------
(* Properties *)

(* Nobody gets into a course, out of it or into a role but by a request that was allowed
   at some moment while it was served: by a lecturer's or an administrator's, or his own
   while the course was open and the password right; by a member's of the staff for a
   role.  Only the deletion of the course or of the user does the same.  That holds
   although the guards look at rows that may change before the handler writes. *)
EntitledStep ==
  \A u \in Users :
    participation'[u] # participation[u]
      => \/ course' = "gone" \/ u \notin users'
         \/ \E r \in entitled : req'[r] = Idle \/ req'[r].at = "saved"

ChangesEntitled == [][EntitledStep]_vars

(* Every participant has an account and a course, also when one of them is deleted while
   the user is being added or changed (createParticipant ignores that save has failed,
   updateRole inserts removed participants). *)
ParticipantsBelong == \A u \in Users : participation[u] # None => ForeignKeys(u)

(* Nobody is announced as having joined who was a participant all the time until the
   request had saved: not by the second of two requests that add him, and not by one
   whose insert has failed, although such an error is swallowed and CourseJoined is
   published for whatever row the query then finds.  It fails silently only while the
   user or the course is gone, and then the cascades have removed the row; so somebody
   has added him since. *)
OnlyJoinersAnnounced ==
  \A r \in Requests : req[r].at = "saved" /\ Announces(r) => r \in absent
================================================================================
