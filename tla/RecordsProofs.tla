------------------------------ MODULE RecordsProofs ------------------------------
(****************************************************************************)
(* What the run Records checks of the smaller parts, for every value of the *)
(* constants.  Each part has an inductive invariant of its own; that of the *)
(* composition says that the part of the behaviour keeps its.               *)
(****************************************************************************)
EXTENDS Records, Naturals, Sequences, FiniteSetTheorems, WellFoundedInduction, TLAPS

(****************************************************************************)
(* Accounts is proved on its own: what is proved there holds of the part,   *)
(* because that is an instance of the same module.                          *)
(****************************************************************************)

AccountsProofs == INSTANCE AccountsProofs WITH req <- request

(* Each instance of a module has the sets of the library anew. *)
LEMMA SameAccountsSets ==
  ASSUME NEW S
  PROVE  /\ Accounts!IsFiniteSet(S) <=> AccountsProofs!IsFiniteSet(S)
         /\ Accounts!Cardinality(S) = AccountsProofs!Cardinality(S)
BY DEF Accounts!IsFiniteSet, AccountsProofs!IsFiniteSet, Accounts!Cardinality,
       AccountsProofs!Cardinality

(* What is assumed of the constants, and the first states. *)
LEMMA SameAccountsInit ==
  /\ Accounts!ConstantsOK <=> AccountsProofs!ConstantsOK
  /\ Accounts!Init <=> AccountsProofs!Init
BY SameAccountsSets
   DEF Accounts!ConstantsOK, AccountsProofs!ConstantsOK, Accounts!Init, AccountsProofs!Init,
       Accounts!Copies, AccountsProofs!Copies, Accounts!Roles, AccountsProofs!Roles,
       Accounts!Idle, AccountsProofs!Idle

(* The steps, once all actions are written out. *)
LEMMA SameAccountsNext == Accounts!Next <=> AccountsProofs!Next
BY Zenon
   DEF Accounts!Roles, AccountsProofs!Roles, Accounts!Copies, AccountsProofs!Copies,
       Accounts!Idle, AccountsProofs!Idle, Accounts!Waiting, AccountsProofs!Waiting,
       Accounts!Attach, AccountsProofs!Attach, Accounts!Get, AccountsProofs!Get,
       Accounts!Authenticate, AccountsProofs!Authenticate, Accounts!Remember,
       AccountsProofs!Remember, Accounts!Found, AccountsProofs!Found, Accounts!Reject,
       AccountsProofs!Reject, Accounts!Free, AccountsProofs!Free, Accounts!Create,
       AccountsProofs!Create, Accounts!CreateUser, AccountsProofs!CreateUser,
       Accounts!Done, AccountsProofs!Done, Accounts!IsAdmin, AccountsProofs!IsAdmin,
       Accounts!AdminCreates, AccountsProofs!AdminCreates, Accounts!AdminLoads,
       AccountsProofs!AdminLoads, Accounts!AdminSaves, AccountsProofs!AdminSaves,
       Accounts!AdminSaveFails, AccountsProofs!AdminSaveFails, Accounts!AdminDeletes,
       AccountsProofs!AdminDeletes, Accounts!Restart, AccountsProofs!Restart,
       Accounts!Tick, AccountsProofs!Tick, Accounts!Held, AccountsProofs!Held,
       Accounts!SetAge, AccountsProofs!SetAge, Accounts!Operation,
       AccountsProofs!Operation, Accounts!Next, AccountsProofs!Next

LEMMA SameAccountsVars == Accounts!vars = AccountsProofs!vars
BY DEF Accounts!vars, AccountsProofs!vars

(* What is promised. *)
LEMMA SameAccountsProperties ==
  /\ Accounts!BoundedStaleness <=> AccountsProofs!BoundedStaleness
  /\ Accounts!SettingsComplete <=> AccountsProofs!SettingsComplete
  /\ Accounts!KeepsId <=> AccountsProofs!KeepsId
BY DEF Accounts!BoundedStaleness, AccountsProofs!BoundedStaleness,
       Accounts!SettingsComplete, AccountsProofs!SettingsComplete,
       Accounts!KeepsId, AccountsProofs!KeepsId, Accounts!Copies, AccountsProofs!Copies,
       Accounts!Roles, AccountsProofs!Roles, Accounts!Existing, AccountsProofs!Existing

--------------------------------------------------------------------------------
(****************************************************************************)
(* Enrolment: participants belong to an account and a course, and nobody    *)
(* gets in, out or into a role unless a request was allowed to do that      *)
(****************************************************************************)

(* The rows, and what a request remembers of its checks and will write. *)
EnrolmentTypesOK ==
  /\ participation = [u \in Users |-> participation[u]]
  /\ change = [r \in Requests |-> change[r]]
  /\ \A u \in Users : participation[u] = None \/ participation[u].role \in Enrolment!Roles
  /\ course \in {"open", "closed", "gone"}
  /\ \A r \in Requests :
       /\ change[r].at = "course" => change[r].state \in {"open", "closed"}
       /\ change[r].at \in {"guarded", "found"} /\ change[r].kind = "role" =>
            change[r].role \in Enrolment!Roles
       /\ change[r].at \in {"checked", "allowed"} => change[r].user \in Users

(* Who has passed the checks was entitled to: a request that is read further although
   its user is not of the staff is his own, and whoever is entitled has been noted. *)
EntitledOK ==
  \A r \in Requests :
    /\ Enrolment!Entitled(r) => r \in entitled
    /\ change[r].at \in {"guarded", "allowed", "found"} => r \in entitled
    /\ change[r].at = "checked" =>
         r \in entitled \/ (~change[r].staff /\ change[r].by = change[r].user)

(* Whoever is added by a request that has saved was absent before. *)
AbsentOK ==
  \A r \in Requests :
    Enrolment!AddsAbsent(r) \/ change[r].at = "saved" => r \in absent

EnrolmentOK ==
  EnrolmentTypesOK /\ Enrolment!ParticipantsBelong /\ EntitledOK /\ AbsentOK

--------------------------------------------------------------------------------
(* Every participant has an account and a course *)

(* The rest of the requests is left alone. *)
LEMMA RequestMoved ==
  ASSUME EnrolmentTypesOK, NEW r \in Requests, NEW q, Enrolment!Move(r, q)
  PROVE  /\ change' = [s \in Requests |-> change'[s]]
         /\ change'[r] = q
         /\ \A s \in Requests : s # r => change'[s] = change[s]
BY DEF EnrolmentTypesOK, Enrolment!Move

LEMMA EnrolmentTypesStep ==
  ASSUME EnrolmentTypesOK, Enrolment!ParticipantsBelong, Enrolment!Operation
  PROVE  EnrolmentTypesOK' /\ Enrolment!ParticipantsBelong'
<1> DEFINE Good == EnrolmentTypesOK' /\ Enrolment!ParticipantsBelong'
<1> SUFFICES Good
  OBVIOUS
<1> USE DEF EnrolmentTypesOK, Enrolment!ParticipantsBelong, Enrolment!ForeignKeys
<1>1. ASSUME NEW r \in Requests, NEW by \in Users, NEW u \in Users,
             \/ \E pw \in Passwords \cup {NoPassword} : Enrolment!StartAdd(r, by, u, pw)
             \/ \E role \in Enrolment!Roles : Enrolment!StartUpdateRole(r, by, u, role)
             \/ Enrolment!StartRemove(r, by, u)
      PROVE  Good
  <2>1. CASE \E pw \in Passwords \cup {NoPassword} : Enrolment!StartAdd(r, by, u, pw)
    BY <2>1, RequestMoved DEF Enrolment!StartAdd, Enrolment!Tables
  <2>2. CASE \E role \in Enrolment!Roles : Enrolment!StartUpdateRole(r, by, u, role)
    BY <2>2, RequestMoved DEF Enrolment!StartUpdateRole, Enrolment!Tables
  <2>3. CASE Enrolment!StartRemove(r, by, u)
    BY <2>3, RequestMoved DEF Enrolment!StartRemove, Enrolment!Tables
  <2> QED BY <1>1, <2>1, <2>2, <2>3
<1>2. ASSUME NEW r \in Requests,
             Enrolment!ReadCourse(r) \/ Enrolment!PublishJoined(r) \/ Enrolment!FindParticipant(r)
      PROVE  Good
  BY <1>2, RequestMoved DEF Enrolment!ReadCourse, Enrolment!PublishJoined,
              Enrolment!FindParticipant, Enrolment!Answer, Enrolment!Idle,
              Enrolment!Tables
<1>3. ASSUME NEW r \in Requests, Enrolment!CreateParticipant(r)
      PROVE  Good
  BY <1>3, RequestMoved DEF Enrolment!CreateParticipant, Enrolment!Outcome,
              Enrolment!Conflict, Enrolment!Answer, Enrolment!Idle, Enrolment!Roles
<1>4. ASSUME NEW r \in Requests, Enrolment!UpdateRole(r)
      PROVE  Good
  BY <1>4, RequestMoved DEF Enrolment!UpdateRole, Enrolment!Answer, Enrolment!Idle
<1>5. ASSUME NEW r \in Requests, Enrolment!RemoveUser(r)
      PROVE  Good
  BY <1>5, RequestMoved DEF Enrolment!RemoveUser, Enrolment!Answer, Enrolment!Idle
<1>6. ASSUME NEW r \in Requests, NEW by \in Users, NEW state \in {"open", "closed"},
             Enrolment!StartUpdateCourse(r, by, state)
      PROVE  Good
  BY <1>6, RequestMoved DEF Enrolment!StartUpdateCourse
<1>7. ASSUME NEW r \in Requests, Enrolment!UpdateCourse(r)
      PROVE  Good
  BY <1>7, RequestMoved DEF Enrolment!UpdateCourse, Enrolment!Answer, Enrolment!Idle
<1>8. ASSUME NEW by \in Users, NEW pw \in Passwords \cup {NoPassword},
             Enrolment!UpdateCourseConfig(by, pw)
      PROVE  Good
  BY <1>8 DEF Enrolment!UpdateCourseConfig
<1>9. CASE Enrolment!DeleteCourse
  BY <1>9 DEF Enrolment!DeleteCourse
<1>10. ASSUME NEW u \in Users, Enrolment!DeleteUser(u)
       PROVE  Good
  BY <1>10 DEF Enrolment!DeleteUser
<1> HIDE DEF Good, EnrolmentTypesOK, Enrolment!ParticipantsBelong, Enrolment!ForeignKeys
<1> QED BY <1>1, <1>2, <1>3, <1>4, <1>5, <1>6, <1>7, <1>8, <1>9,
       <1>10 DEF Enrolment!Operation

--------------------------------------------------------------------------------
(* Nobody comes in without being entitled to *)

(* What Observe notes: who is entitled now, and who was noted before. *)
LEMMA EntitledObserved ==
  ASSUME Enrolment!Observe, NEW r \in Requests, change'[r] # Enrolment!Idle
  PROVE  /\ Enrolment!Entitled(r)' => r \in entitled'
         /\ r \in entitled => r \in entitled'
BY DEF Enrolment!Observe

(* Requests that a step does not touch keep what they know. *)
LEMMA OthersKeepEntitled ==
  ASSUME EntitledOK, Enrolment!Observe, NEW s \in Requests, change'[s] = change[s],
         Enrolment!Idle # change[s]
  PROVE  /\ Enrolment!Entitled(s)' => s \in entitled'
         /\ change'[s].at \in {"guarded", "allowed", "found"} => s \in entitled'
         /\ change'[s].at = "checked" =>
              s \in entitled' \/ (~change'[s].staff /\ change'[s].by = change'[s].user)
BY EntitledObserved DEF EntitledOK

(* An idle request knows nothing. *)
LEMMA IdleKnowsNothing ==
  ASSUME NEW s \in Requests, change'[s] = Enrolment!Idle
  PROVE  /\ ~Enrolment!Entitled(s)'
         /\ change'[s].at \notin {"guarded", "allowed", "found", "checked"}
BY DEF Enrolment!Idle, Enrolment!Entitled

LEMMA EntitledKept ==
  ASSUME Enrolment!ConstantsOK, EnrolmentTypesOK, EntitledOK, Enrolment!Operation,
         Enrolment!Observe
  PROVE  EntitledOK'
<1> DEFINE Knows(s) ==
      /\ Enrolment!Entitled(s)' => s \in entitled'
      /\ change'[s].at \in {"guarded", "allowed", "found"} => s \in entitled'
      /\ change'[s].at = "checked" =>
           s \in entitled' \/ (~change'[s].staff /\ change'[s].by = change'[s].user)
<1> SUFFICES \A s \in Requests : Knows(s)
  BY DEF EntitledOK
<1>1. ASSUME NEW s \in Requests, change'[s] = change[s]
      PROVE  Knows(s)
  BY <1>1, OthersKeepEntitled, IdleKnowsNothing
<1>2. ASSUME NEW s \in Requests, change'[s] = Enrolment!Idle
      PROVE  Knows(s)
  BY <1>2, IdleKnowsNothing
<1>3. ASSUME NEW r \in Requests, NEW q, Enrolment!Move(r, q), Knows(r)
      PROVE  \A s \in Requests : Knows(s)
  BY <1>1, <1>3, RequestMoved
<1>4. ASSUME NEW r \in Requests, NEW by \in Users, NEW u \in Users,
             NEW pw \in Passwords \cup {NoPassword}, Enrolment!StartAdd(r, by, u, pw)
      PROVE  \A s \in Requests : Knows(s)
  <2> DEFINE q == [at |-> "checked", kind |-> "add", by |-> by, user |-> u, password |-> pw,
                   staff |-> Enrolment!RoleOf(by) = "LECTURER" \/ Enrolment!IsAdmin(by)]
  <2>1. Enrolment!Move(r, q) /\ change'[r] = q /\ change'[r] # Enrolment!Idle
    BY <1>4, RequestMoved DEF Enrolment!StartAdd, Enrolment!Idle
  <2>2. Enrolment!RoleOf(by)' = Enrolment!RoleOf(by)
    BY <1>4 DEF Enrolment!StartAdd, Enrolment!Tables, Enrolment!RoleOf
  <2>3. ~q.staff => by = u
    BY <1>4 DEF Enrolment!StartAdd, Enrolment!MayAdd
  <2>4. q.staff => Enrolment!Entitled(r)'
    <3>1. q.staff => Enrolment!RoleOf(by)' = "LECTURER" \/ Enrolment!IsAdmin(by)
      BY <2>2
    <3>2. change'[r].at = "checked" /\ change'[r].by = by
      BY <2>1
    <3> HIDE DEF q
    <3> QED BY <3>1, <3>2 DEF Enrolment!Entitled, Enrolment!RoleOf, Enrolment!IsAdmin
  <2>5. Enrolment!Entitled(r)' => r \in entitled'
    BY <2>1, EntitledObserved
  <2>6. Knows(r)
    BY <2>1, <2>3, <2>4, <2>5
  <2> QED BY <1>3, <2>1, <2>6
<1>5. ASSUME NEW r \in Requests, NEW by \in Users, NEW u \in Users,
             NEW role \in Enrolment!Roles, Enrolment!StartUpdateRole(r, by, u, role)
      PROVE  \A s \in Requests : Knows(s)
  <2> DEFINE q == [at |-> "guarded", kind |-> "role", by |-> by, user |-> u, role |-> role]
  <2>1. Enrolment!Move(r, q) /\ change'[r] = q /\ change'[r] # Enrolment!Idle
    BY <1>5, RequestMoved DEF Enrolment!StartUpdateRole, Enrolment!Idle
  <2>2. Enrolment!IsAdmin(by) \/ Enrolment!RoleOf(by)' \in {"LECTURER", "TUTOR"}
    BY <1>5 DEF Enrolment!StartUpdateRole, Enrolment!TeachingStaff, Enrolment!GuardRole,
              Enrolment!Tables, Enrolment!RoleOf, Enrolment!ConstantsOK, Enrolment!Roles
  <2>3. Enrolment!Entitled(r)'
    BY <2>1, <2>2 DEF Enrolment!Entitled
  <2>4. Knows(r)
    BY <2>1, <2>3, EntitledObserved
  <2> QED BY <1>3, <2>1, <2>4
<1>6. ASSUME NEW r \in Requests, NEW by \in Users, NEW u \in Users,
             Enrolment!StartRemove(r, by, u)
      PROVE  \A s \in Requests : Knows(s)
  <2> DEFINE q == [at |-> "guarded", kind |-> "remove", by |-> by, user |-> u, role |-> None]
  <2>1. Enrolment!Move(r, q) /\ change'[r] = q /\ change'[r] # Enrolment!Idle
    BY <1>6, RequestMoved DEF Enrolment!StartRemove, Enrolment!Idle
  <2>2. by = u \/ Enrolment!IsAdmin(by) \/ Enrolment!RoleOf(by)' \in {"LECTURER", "TUTOR"}
    BY <1>6 DEF Enrolment!StartRemove, Enrolment!OwnerOrStaff, Enrolment!GuardRole,
              Enrolment!Tables, Enrolment!RoleOf, EnrolmentTypesOK, Enrolment!Roles
  <2>3. Enrolment!Entitled(r)'
    BY <2>1, <2>2 DEF Enrolment!Entitled
  <2>4. Knows(r)
    BY <2>1, <2>3, EntitledObserved
  <2> QED BY <1>3, <2>1, <2>4
<1>7. ASSUME NEW r \in Requests, Enrolment!ReadCourse(r)
      PROVE  \A s \in Requests : Knows(s)
  <2> DEFINE q == [at |-> "allowed", user |-> change[r].user, config |-> password # None]
  <2>1. CASE /\ Enrolment!Move(r, q) /\ course # "gone"
             /\ change[r].staff \/ Enrolment!LetsIn(change[r].password)
    <3>1. change'[r] = q /\ change'[r] # Enrolment!Idle
      BY <2>1, RequestMoved DEF Enrolment!Idle
    <3>2. r \in entitled
      BY <1>7, <2>1 DEF Enrolment!ReadCourse, EntitledOK, Enrolment!Entitled,
              Enrolment!LetsIn, EnrolmentTypesOK
    <3>3. Knows(r)
      BY <3>1, <3>2, EntitledObserved DEF Enrolment!Entitled
    <3> QED BY <1>3, <2>1, <3>3
  <2>2. CASE Enrolment!Answer(r)
    BY <1>2, <1>3, <2>2, RequestMoved DEF Enrolment!Answer
  <2> QED BY <1>7, <2>1, <2>2 DEF Enrolment!ReadCourse
<1>8. ASSUME NEW r \in Requests, Enrolment!CreateParticipant(r)
      PROVE  \A s \in Requests : Knows(s)
  <2> DEFINE q == [at |-> "saved", user |-> change[r].user, config |-> change[r].config]
  <2>1. CASE Enrolment!Move(r, q)
    <3>1. change'[r] = q
      BY <2>1, RequestMoved
    <3>2. Knows(r)
      BY <3>1 DEF Enrolment!Entitled
    <3> QED BY <1>3, <2>1, <3>2
  <2>2. CASE Enrolment!Answer(r)
    BY <1>2, <1>3, <2>2, RequestMoved DEF Enrolment!Answer
  <2> QED BY <1>8, <2>1, <2>2 DEF Enrolment!CreateParticipant
<1>9. ASSUME NEW r \in Requests, Enrolment!FindParticipant(r)
      PROVE  \A s \in Requests : Knows(s)
  <2> DEFINE q == [at |-> "found", kind |-> change[r].kind, user |-> change[r].user,
                   role |-> change[r].role, id |-> participation[change[r].user].id]
  <2>1. CASE Enrolment!Move(r, q)
    <3>1. change'[r] = q /\ change'[r] # Enrolment!Idle
      BY <2>1, RequestMoved DEF Enrolment!Idle
    <3>2. r \in entitled
      BY <1>9 DEF Enrolment!FindParticipant, EntitledOK
    <3>3. Knows(r)
      BY <3>1, <3>2, EntitledObserved DEF Enrolment!Entitled
    <3> QED BY <1>3, <2>1, <3>3
  <2>2. CASE Enrolment!Answer(r)
    BY <1>2, <1>3, <2>2, RequestMoved DEF Enrolment!Answer
  <2> QED BY <1>9, <2>1, <2>2 DEF Enrolment!FindParticipant
<1>10. ASSUME NEW r \in Requests, NEW by \in Users, NEW state \in {"open", "closed"},
              Enrolment!StartUpdateCourse(r, by, state)
       PROVE  \A s \in Requests : Knows(s)
  <2>1. Enrolment!Move(r, [at |-> "course", state |-> state])
    BY <1>10 DEF Enrolment!StartUpdateCourse
  <2>2. change'[r] = [at |-> "course", state |-> state]
    BY <2>1, RequestMoved
  <2>3. Knows(r)
    BY <2>2 DEF Enrolment!Entitled
  <2> QED BY <1>3, <2>1, <2>3
<1>11. ASSUME NEW r \in Requests,
              \/ Enrolment!PublishJoined(r) \/ Enrolment!UpdateRole(r)
              \/ Enrolment!RemoveUser(r) \/ Enrolment!UpdateCourse(r)
       PROVE  \A s \in Requests : Knows(s)
  <2>1. Enrolment!Answer(r)
    BY <1>11 DEF Enrolment!PublishJoined, Enrolment!UpdateRole, Enrolment!RemoveUser,
              Enrolment!UpdateCourse
  <2> QED BY <1>2, <1>3, <2>1, RequestMoved DEF Enrolment!Answer
<1>12. ASSUME \/ \E by \in Users, pw \in Passwords \cup {NoPassword} :
                   Enrolment!UpdateCourseConfig(by, pw)
              \/ Enrolment!DeleteCourse
              \/ \E u \in Users : Enrolment!DeleteUser(u)
       PROVE  \A s \in Requests : Knows(s)
  <2>1. UNCHANGED change
    BY <1>12 DEF Enrolment!UpdateCourseConfig, Enrolment!DeleteCourse,
              Enrolment!DeleteUser
  <2> QED BY <1>1, <2>1
<1> HIDE DEF Knows
<1> QED BY <1>4, <1>5, <1>6, <1>7, <1>8, <1>9, <1>10, <1>11, <1>12 DEF Enrolment!Operation

--------------------------------------------------------------------------------
(* Only who was absent is announced *)

(* A request that has saved had saved before, or saves in this step. *)
LEMMA SavedBefore ==
  ASSUME EnrolmentTypesOK, Enrolment!Operation, NEW s \in Requests, change'[s].at = "saved",
         ~Enrolment!CreateParticipant(s)
  PROVE  change'[s] = change[s]
<1>1. ASSUME NEW r \in Requests, NEW q, Enrolment!Move(r, q), q.at # "saved"
      PROVE  change'[s] = change[s]
  BY <1>1, RequestMoved
<1>2. ASSUME NEW r \in Requests, Enrolment!Answer(r)
      PROVE  change'[s] = change[s]
  BY <1>1, <1>2 DEF Enrolment!Answer, Enrolment!Idle
<1>3. ASSUME NEW r \in Requests, NEW by \in Users, NEW u \in Users,
             \/ \E pw \in Passwords \cup {NoPassword} : Enrolment!StartAdd(r, by, u, pw)
             \/ \E role \in Enrolment!Roles : Enrolment!StartUpdateRole(r, by, u, role)
             \/ Enrolment!StartRemove(r, by, u)
      PROVE  change'[s] = change[s]
  BY <1>1, <1>3 DEF Enrolment!StartAdd, Enrolment!StartUpdateRole, Enrolment!StartRemove
<1>4. ASSUME NEW r \in Requests,
             \/ Enrolment!ReadCourse(r) \/ Enrolment!FindParticipant(r)
             \/ \E by \in Users, state \in {"open", "closed"} :
                  Enrolment!StartUpdateCourse(r, by, state)
      PROVE  change'[s] = change[s]
  BY <1>1, <1>2, <1>4 DEF Enrolment!ReadCourse, Enrolment!FindParticipant,
                          Enrolment!StartUpdateCourse
<1>5. ASSUME NEW r \in Requests,
             \/ Enrolment!PublishJoined(r) \/ Enrolment!UpdateRole(r)
             \/ Enrolment!RemoveUser(r) \/ Enrolment!UpdateCourse(r)
      PROVE  change'[s] = change[s]
  BY <1>2, <1>5 DEF Enrolment!PublishJoined, Enrolment!UpdateRole, Enrolment!RemoveUser,
                    Enrolment!UpdateCourse
<1>6. ASSUME NEW r \in Requests, Enrolment!CreateParticipant(r)
      PROVE  change'[s] = change[s]
  BY <1>6, RequestMoved DEF Enrolment!CreateParticipant, Enrolment!Answer
<1>7. ASSUME \/ \E by \in Users, pw \in Passwords \cup {NoPassword} :
                  Enrolment!UpdateCourseConfig(by, pw)
             \/ Enrolment!DeleteCourse
             \/ \E u \in Users : Enrolment!DeleteUser(u)
      PROVE  change'[s] = change[s]
  BY <1>7 DEF Enrolment!UpdateCourseConfig, Enrolment!DeleteCourse, Enrolment!DeleteUser
<1> QED BY <1>3, <1>4, <1>5, <1>6, <1>7 DEF Enrolment!Operation

(* createParticipant goes on if it has inserted the row, or could not for want of a user
   or a course: there was no row in either case. *)
LEMMA AbsentKept ==
  ASSUME EnrolmentTypesOK, Enrolment!ParticipantsBelong, AbsentOK, Enrolment!Operation,
         Enrolment!Observe
  PROVE  AbsentOK'
<1> SUFFICES ASSUME NEW s \in Requests,
                    Enrolment!AddsAbsent(s)' \/ change'[s].at = "saved"
             PROVE  s \in absent'
  BY DEF AbsentOK
<1>1. change'[s] # Enrolment!Idle
  BY DEF Enrolment!AddsAbsent, Enrolment!Idle
<1>2. s \in absent \/ Enrolment!AddsAbsent(s)' => s \in absent'
  BY <1>1 DEF Enrolment!Observe
<1>3. ASSUME Enrolment!CreateParticipant(s), change'[s].at = "saved"
      PROVE  s \in absent
  <2>1. change[s].at = "allowed" /\ ~Enrolment!Conflict(change[s].user)
    BY <1>3, RequestMoved DEF Enrolment!CreateParticipant, Enrolment!Answer, Enrolment!Idle
  <2>2. change[s].user \in Users
    BY <2>1 DEF EnrolmentTypesOK
  <2>3. participation[change[s].user] = None
    BY <2>1, <2>2 DEF Enrolment!Conflict, Enrolment!ParticipantsBelong
  <2> QED BY <2>1, <2>3 DEF AbsentOK, Enrolment!AddsAbsent
<1>4. ASSUME ~Enrolment!CreateParticipant(s), change'[s].at = "saved"
      PROVE  s \in absent
  BY <1>4, SavedBefore DEF AbsentOK
<1> QED BY <1>2, <1>3, <1>4

--------------------------------------------------------------------------------

(* EnrolmentOK is inductive. *)
LEMMA EnrolmentInit == Enrolment!Init => EnrolmentOK
BY DEF Enrolment!Init, EnrolmentOK, EnrolmentTypesOK, Enrolment!ParticipantsBelong,
       Enrolment!ForeignKeys, EntitledOK, Enrolment!Entitled, AbsentOK,
       Enrolment!AddsAbsent, Enrolment!Idle, Enrolment!Roles

LEMMA EnrolmentStep ==
  ASSUME Enrolment!ConstantsOK, EnrolmentOK, [Enrolment!Next]_(Enrolment!vars)
  PROVE  EnrolmentOK'
<1>1. CASE Enrolment!Next
  BY <1>1, EnrolmentTypesStep, EntitledKept, AbsentKept DEF EnrolmentOK, Enrolment!Next
<1>2. CASE UNCHANGED Enrolment!vars
  BY <1>2 DEF Enrolment!vars, EnrolmentOK, EnrolmentTypesOK,
              Enrolment!ParticipantsBelong, Enrolment!ForeignKeys, EntitledOK,
              Enrolment!Entitled, Enrolment!RoleOf, Enrolment!IsAdmin, AbsentOK,
              Enrolment!AddsAbsent
<1> QED BY <1>1, <1>2

(* What changes a participation is a request that was entitled to. *)
LEMMA EntitledSteps ==
  ASSUME EnrolmentOK, [Enrolment!Next]_(Enrolment!vars)
  PROVE  Enrolment!EntitledStep
<1> SUFFICES ASSUME NEW u \in Users, participation'[u] # participation[u]
             PROVE  \/ course' = "gone" \/ u \notin users'
                    \/ \E r \in entitled : change'[r] = Enrolment!Idle \/ change'[r].at = "saved"
  BY DEF Enrolment!EntitledStep
<1> DEFINE Allowed == \/ course' = "gone" \/ u \notin users'
                      \/ \E r \in entitled : change'[r] = Enrolment!Idle \/ change'[r].at = "saved"
<1> SUFFICES Allowed
  OBVIOUS
<1>1. ASSUME NEW r \in Requests,
             \/ Enrolment!CreateParticipant(r)
             \/ Enrolment!UpdateRole(r) \/ Enrolment!RemoveUser(r)
      PROVE  Allowed
  <2>1. r \in entitled
    BY <1>1 DEF Enrolment!CreateParticipant, Enrolment!UpdateRole, Enrolment!RemoveUser,
              EnrolmentOK, EntitledOK
  <2>2. change'[r] = Enrolment!Idle \/ change'[r].at = "saved"
    BY <1>1, RequestMoved DEF Enrolment!CreateParticipant, Enrolment!UpdateRole,
              Enrolment!RemoveUser, Enrolment!Answer, EnrolmentOK
  <2> QED BY <2>1, <2>2
<1>2. CASE Enrolment!DeleteCourse
  BY <1>2 DEF Enrolment!DeleteCourse
<1>3. ASSUME NEW v \in Users, Enrolment!DeleteUser(v)
      PROVE  Allowed
  BY <1>3 DEF Enrolment!DeleteUser, EnrolmentOK, EnrolmentTypesOK
<1>4. CASE UNCHANGED participation
  BY <1>4
<1>5. ASSUME NEW r \in Requests, NEW by \in Users, NEW v \in Users,
             \/ \E pw \in Passwords \cup {NoPassword} : Enrolment!StartAdd(r, by, v, pw)
             \/ \E role \in Enrolment!Roles : Enrolment!StartUpdateRole(r, by, v, role)
             \/ Enrolment!StartRemove(r, by, v)
      PROVE  UNCHANGED participation
  BY <1>5 DEF Enrolment!StartAdd, Enrolment!StartUpdateRole, Enrolment!StartRemove,
              Enrolment!Tables
<1>6. ASSUME NEW r \in Requests,
             \/ \E by \in Users, state \in {"open", "closed"} : Enrolment!StartUpdateCourse(r, by, state)
             \/ Enrolment!ReadCourse(r) \/ Enrolment!PublishJoined(r)
             \/ Enrolment!FindParticipant(r) \/ Enrolment!UpdateCourse(r)
      PROVE  UNCHANGED participation
  BY <1>6 DEF Enrolment!StartUpdateCourse, Enrolment!ReadCourse, Enrolment!PublishJoined,
              Enrolment!FindParticipant, Enrolment!UpdateCourse, Enrolment!Tables
<1>7. ASSUME NEW by \in Users, NEW pw \in Passwords \cup {NoPassword},
             Enrolment!UpdateCourseConfig(by, pw)
      PROVE  UNCHANGED participation
  BY <1>7 DEF Enrolment!UpdateCourseConfig
<1>8. UNCHANGED Enrolment!vars => UNCHANGED participation
  BY DEF Enrolment!vars
<1>9. CASE Enrolment!Operation
  BY <1>1, <1>2, <1>3, <1>4, <1>5, <1>6, <1>7, <1>9 DEF Enrolment!Operation
<1> QED BY <1>4, <1>8, <1>9 DEF Enrolment!Next

--------------------------------------------------------------------------------
(****************************************************************************)
(* Allocations: the unique constraints split the work                       *)
(****************************************************************************)

(* The cardinality of the part is that of the library. *)
LEMMA AllocationsCardinality == ASSUME NEW S PROVE Allocations!Cardinality(S) = Cardinality(S)
BY DEF Allocations!Cardinality, Cardinality, Allocations!IsFiniteSet, IsFiniteSet

(* An allocation, whatever its id. *)
IsAllocation(a) ==
  \E i : \E x \in Allocations!Assignments, t \in Allocations!Targets, e \in Evaluators :
    a = [id |-> i, assignment |-> x, target |-> t, evaluator |-> e]

(* A request holds an allocation, or copies of some. *)
HoldsAllocations(q) ==
  \/ q = Allocations!Idle
  \/ \E a : IsAllocation(a) /\ q \in {[at |-> "new", allocation |-> a],
                                      [at |-> "found", allocation |-> a]}
  \/ \E set \in SUBSET [target : Allocations!Targets, evaluator : Evaluators] :
       q = [at |-> "copying", copied |-> set]

(* The rows keep the unique constraints, and a request holds what its next step saves. *)
RowsOK ==
  /\ \A a \in rows : IsAllocation(a)
  /\ Allocations!Keeps(rows)
  /\ allocating \in [Requests -> {allocating[r] : r \in Requests}]
  /\ \A r \in Requests : HoldsAllocations(allocating[r])

--------------------------------------------------------------------------------

(* Two lists share a target only if it has two allocations, and a list has it only if it
   has one. *)
LEMMA RowsSplitWork == RowsOK => Allocations!WorkSplit
<1> SUFFICES ASSUME RowsOK, NEW tables \in Joined, NEW x \in Allocations!Assignments,
                    NEW t \in Allocations!Targets, NEW reviewed \in BOOLEAN
             PROVE  Allocations!Lists(tables, x, t, reviewed) =
                      IF /\ Allocations!Allocated(x, t) /\ Allocations!Listed(tables, x, t)
                         /\ reviewed => ~Allocations!Reviewed(tables, x, t)
                      THEN 1 ELSE 0
  BY DEF Allocations!WorkSplit
<1> DEFINE R == {a \in rows : a.assignment = x /\ a.target = t}
           due == /\ Allocations!Listed(tables, x, t)
                  /\ reviewed => ~Allocations!Reviewed(tables, x, t)
           Having == {e \in Evaluators : t \in Allocations!Work(tables, x, e, reviewed)}
<1>1. /\ Having = IF due THEN {e \in Evaluators : \E a \in R : a.evaluator = e} ELSE {}
      /\ Allocations!Allocated(x, t) <=> R # {}
  BY DEF Allocations!Work, Allocations!Assigned, Allocations!Allocated
<1>2. Allocations!Lists(tables, x, t, reviewed) = Cardinality(Having)
  BY AllocationsCardinality DEF Allocations!Lists
<1>3. ASSUME R = {} \/ ~due
      PROVE  Cardinality(Having) = 0
  <2>1. Having = {}
    BY <1>1, <1>3
  <2> QED BY <2>1, FS_EmptySet
<1>4. ASSUME R # {}, due
      PROVE  Cardinality(Having) = 1
  <2>1. PICK a \in R : TRUE
    BY <1>4
  <2>2. R = {a}
    BY <2>1 DEF RowsOK, Allocations!Keeps
  <2>3. a.evaluator \in Evaluators
    BY <2>1 DEF RowsOK, IsAllocation
  <2>4. Having = {a.evaluator}
    BY <1>1, <1>4, <2>2, <2>3
  <2> QED BY <2>4, FS_Singleton
<1> HIDE DEF R, due, Having
<1>5. Cardinality(Having) = IF Allocations!Allocated(x, t) /\ due THEN 1 ELSE 0
  BY <1>1, <1>3, <1>4
<1> QED BY <1>2, <1>5 DEF due

--------------------------------------------------------------------------------

(* A save keeps the rows as they should be, if what it adds are allocations. *)
LEMMA SaveKeeps ==
  ASSUME RowsOK, NEW set, \A a \in set : IsAllocation(a), Allocations!Save(set),
         UNCHANGED present
  PROVE  (\A a \in rows : IsAllocation(a))' /\ Allocations!Keeps(rows)'
BY DEF RowsOK, Allocations!Save, Allocations!Keeps, Allocations!Refers

(* An allocation remains one when it is given an id. *)
LEMMA AllocationGetsId ==
  ASSUME NEW a, IsAllocation(a), NEW i
  PROVE  IsAllocation([a EXCEPT !.id = i])
<1>1. PICK j : \E x \in Allocations!Assignments, t \in Allocations!Targets, e \in Evaluators :
         a = [id |-> j, assignment |-> x, target |-> t, evaluator |-> e]
  BY DEF IsAllocation
<1>2. PICK x \in Allocations!Assignments, t \in Allocations!Targets, e \in Evaluators :
         a = [id |-> j, assignment |-> x, target |-> t, evaluator |-> e]
  BY <1>1
<1>3. [a EXCEPT !.id = i] = [id |-> i, assignment |-> x, target |-> t, evaluator |-> e]
  BY <1>2
<1> QED BY <1>3 DEF IsAllocation

(* RowsOK is inductive. *)
LEMMA RowsStep == RowsOK /\ [Allocations!Next]_(Allocations!vars) => RowsOK'
<1> SUFFICES ASSUME RowsOK, [Allocations!Next]_(Allocations!vars)
             PROVE  RowsOK'
  OBVIOUS
<1> USE DEF RowsOK
<1>1. ASSUME NEW r \in Requests, NEW q, HoldsAllocations(q), Allocations!Move(r, q)
      PROVE  /\ allocating' \in [Requests -> {allocating'[s] : s \in Requests}]
             /\ \A s \in Requests : HoldsAllocations(allocating'[s])
  BY <1>1 DEF Allocations!Move
<1>2. ASSUME NEW r \in Requests, NEW x \in Allocations!Assignments, NEW t \in Allocations!Targets,
             NEW e \in Evaluators, Allocations!StartAllocate(r, x, t, e)
      PROVE  RowsOK'
  <2> DEFINE wanted == [id |-> None, assignment |-> x, target |-> t, evaluator |-> e]
  <2>0. IsAllocation(wanted)
    BY DEF IsAllocation
  <2>1. \A i : IsAllocation([wanted EXCEPT !.id = i])
    <3> HIDE DEF wanted
    <3> QED BY <2>0, AllocationGetsId
  <2>2. \/ Allocations!Move(r, [at |-> "new", allocation |-> wanted])
        \/ \E a \in rows :
             Allocations!Move(r, [at |-> "found", allocation |-> [wanted EXCEPT !.id = a.id]])
    BY <1>2 DEF Allocations!StartAllocate
  <2>3. /\ HoldsAllocations([at |-> "new", allocation |-> wanted])
        /\ \A i : HoldsAllocations([at |-> "found", allocation |-> [wanted EXCEPT !.id = i]])
    BY <2>0, <2>1 DEF HoldsAllocations
  <2>4. UNCHANGED <<rows, present>>
    BY <1>2 DEF Allocations!StartAllocate
  <2> HIDE DEF wanted
  <2> QED BY <1>1, <2>2, <2>3, <2>4 DEF Allocations!Keeps, Allocations!Refers
<1>3. ASSUME NEW r \in Requests, Allocations!Allocate(r)
      PROVE  RowsOK'
  <2> DEFINE a == allocating[r].allocation
  <2>1. IsAllocation(a)
    BY <1>3 DEF Allocations!Allocate, HoldsAllocations, Allocations!Idle
  <2> DEFINE new == rows \cup {[a EXCEPT !.id = Allocations!FreshId(a.assignment, a.target)]}
             written == {b \in rows : [b EXCEPT !.evaluator = a.evaluator] # a} \cup {a}
  <2>2. IsAllocation([a EXCEPT !.id = Allocations!FreshId(a.assignment, a.target)])
    BY <2>1, AllocationGetsId
  <2>3. \A set \in {new, written} : \A b \in set : IsAllocation(b)
    BY <2>1, <2>2
  <2>5. (Allocations!Save(new) \/ Allocations!Save(written)) /\ UNCHANGED present
    BY <1>3 DEF Allocations!Allocate
  <2>4. Allocations!Move(r, Allocations!Idle) /\ HoldsAllocations(Allocations!Idle)
    BY <1>3 DEF Allocations!Allocate, HoldsAllocations
  <2> HIDE DEF new, written
  <2> QED BY <1>1, <2>3, <2>4, <2>5, SaveKeeps
<1>4. ASSUME NEW r \in Requests, Allocations!StartCopy(r)
      PROVE  RowsOK'
  <2> DEFINE old == {b \in rows : b.assignment = Old}
             set == {[target |-> a.target, evaluator |-> a.evaluator] : a \in old}
  <2>1. set \in SUBSET [target : Allocations!Targets, evaluator : Evaluators]
    BY DEF IsAllocation
  <2>2. HoldsAllocations([at |-> "copying", copied |-> set])
    BY <2>1 DEF HoldsAllocations
  <2>3. Allocations!Move(r, [at |-> "copying", copied |-> set])
        /\ UNCHANGED <<rows, present>>
    BY <1>4 DEF Allocations!StartCopy
  <2> HIDE DEF set
  <2> QED BY <1>1, <2>2, <2>3 DEF Allocations!Keeps, Allocations!Refers
<1>5. ASSUME NEW r \in Requests, Allocations!Copy(r)
      PROVE  RowsOK'
  <2>1. allocating[r].copied \in SUBSET [target : Allocations!Targets, evaluator : Evaluators]
    BY <1>5 DEF Allocations!Copy, HoldsAllocations, Allocations!Idle
  <2>2. \A a \in Allocations!Copies(allocating[r].copied) : IsAllocation(a)
    BY <2>1 DEF Allocations!Copies, IsAllocation, Allocations!Assignments
  <2>3. Allocations!Save(rows \cup Allocations!Copies(allocating[r].copied))
        /\ UNCHANGED present
    BY <1>5 DEF Allocations!Copy, Allocations!createAllocations
  <2>4. Allocations!Move(r, Allocations!Idle) /\ HoldsAllocations(Allocations!Idle)
    BY <1>5 DEF Allocations!Copy, HoldsAllocations
  <2> QED BY <1>1, <2>2, <2>3, <2>4, SaveKeeps
<1>6. ASSUME NEW x \in Allocations!Assignments, Allocations!removeAllAllocationsOfAssignment(x)
      PROVE  RowsOK'
  BY <1>6 DEF Allocations!removeAllAllocationsOfAssignment, Allocations!Keeps,
              Allocations!Refers
<1>7. ASSUME NEW x, Allocations!Delete(x)
      PROVE  RowsOK'
  BY <1>7 DEF Allocations!Delete, Allocations!Keeps, Allocations!Refers
<1>8. ASSUME NEW x, Allocations!Restore(x)
      PROVE  RowsOK'
  BY <1>8 DEF Allocations!Restore, Allocations!Keeps, Allocations!Refers
<1>9. CASE UNCHANGED Allocations!vars
  BY <1>9 DEF Allocations!vars, Allocations!Keeps, Allocations!Refers
<1> QED BY <1>2, <1>3, <1>4, <1>5, <1>6, <1>7, <1>8, <1>9 DEF Allocations!Next

(* There are no allocations at first. *)
LEMMA RowsInit == ASSUME Allocations!Init PROVE RowsOK
BY DEF Allocations!Init, RowsOK, Allocations!Keeps, Allocations!Refers, HoldsAllocations

--------------------------------------------------------------------------------
(****************************************************************************)
(* Mailing: what a handler has read, and what was true when it read it      *)
(****************************************************************************)

SomeReceivers(set) == set = None \/ set \subseteq Receivers

HandlerOK ==
  \/ handler = [at |-> "idle"]
  \/ /\ handler = [at |-> handler.at, event |-> handler.event, subject |-> handler.subject,
                   forGroup |-> handler.forGroup, concerned |-> handler.concerned,
                   people |-> handler.people]
     /\ handler.at \in {"started", "done", "rejected", "logged"}
     /\ handler.event \in Mailing!MailEvents
     /\ handler.forGroup \in BOOLEAN
     /\ handler.event = "SUBMISSION_CREATED" => handler.subject \in Receivers
     /\ SomeReceivers(handler.concerned)
     /\ handler.people # None =>
          /\ handler.people = [u \in DOMAIN handler.people |-> handler.people[u]]
          /\ DOMAIN handler.people \subseteq Receivers

MailTypesOK ==
  /\ profile \in [Receivers -> Profiles]
  /\ participants \subseteq Receivers
  /\ SomeReceivers(members)
  /\ HandlerOK
  /\ mails = [u \in Receivers |-> mails[u]]
  /\ past = [concerned |-> past.concerned, enrolled |-> past.enrolled,
             profiles |-> past.profiles, missing |-> past.missing]
  /\ past.concerned \in [Receivers -> SUBSET BOOLEAN]
  /\ past.enrolled \in [Receivers -> SUBSET BOOLEAN]
  /\ past.profiles \in [Receivers -> SUBSET Profiles]
  /\ past.missing \in BOOLEAN

(* Whoever joins is not told that he does. *)
Joins(u) == handler.event = "PARTICIPANT_JOINED_GROUP" /\ u = handler.subject

(* What is true now has been noticed. *)
NowNoticed ==
  /\ \A u \in Receivers :
       /\ Mailing!Concerned(u) => TRUE \in past.concerned[u]
       /\ ~Mailing!Concerned(u) => FALSE \in past.concerned[u]
       /\ u \in participants => TRUE \in past.enrolled[u]
       /\ u \notin participants => FALSE \in past.enrolled[u]
       /\ profile[u] \in past.profiles[u]
  /\ Mailing!Missing => past.missing

(* Whoever was found in a query was concerned, or a participant with these settings, when
   it was answered. *)
FoundWasTrue ==
  /\ handler.concerned # None =>
       \A u \in handler.concerned : Joins(u) \/ TRUE \in past.concerned[u]
  /\ handler.people # None =>
       \A u \in DOMAIN handler.people :
         TRUE \in past.enrolled[u] /\ handler.people[u] \in past.profiles[u]

(* Whoever was concerned all the time, or a participant, was found. *)
TrueWasFound ==
  \A u \in Receivers :
    /\ FALSE \notin past.concerned[u] /\ handler.concerned # None => u \in handler.concerned
    /\ FALSE \notin past.enrolled[u] /\ handler.people # None => u \in DOMAIN handler.people

(* A new member who was not among the members that were read had left. *)
SubjectOK ==
  handler.event = "PARTICIPANT_JOINED_GROUP" =>
    handler.concerned = None \/ handler.subject \in handler.concerned \/ past.missing

HandlerSound == NowNoticed /\ FoundWasTrue /\ TrueWasFound /\ SubjectOK

MailOK ==
  /\ MailTypesOK
  /\ handler.at # "done" => \A u \in Receivers : mails[u] = <<>>
  /\ handler.at = "started" => HandlerSound
  /\ Mailing!OnlyWantedMails /\ Mailing!EverybodyTold /\ Mailing!EndsOnlyWhenMissing

(* Nobody has mail before the event. *)
LEMMA MailInit == ASSUME Mailing!Init PROVE MailOK
BY DEF Mailing!Init, MailOK, MailTypesOK, HandlerOK, SomeReceivers, Mailing!OnlyWantedMails,
       Mailing!EverybodyTold, Mailing!EndsOnlyWhenMissing

(* What a step that leaves the handler working makes true is noticed. *)
LEMMA Noticed ==
  ASSUME MailTypesOK, Mailing!Observe, handler'.at = "started",
         profile' \in [Receivers -> Profiles]
  PROVE  /\ past' = [concerned |-> past'.concerned, enrolled |-> past'.enrolled,
                     profiles |-> past'.profiles, missing |-> past'.missing]
         /\ past'.concerned \in [Receivers -> SUBSET BOOLEAN]
         /\ past'.enrolled \in [Receivers -> SUBSET BOOLEAN]
         /\ past'.profiles \in [Receivers -> SUBSET Profiles]
         /\ past'.missing \in BOOLEAN
         /\ NowNoticed'
         /\ past.missing => past'.missing
         /\ \A u \in Receivers : /\ past.concerned[u] \subseteq past'.concerned[u]
                                 /\ past.enrolled[u] \subseteq past'.enrolled[u]
                                 /\ past.profiles[u] \subseteq past'.profiles[u]
<1>1. past' = [concerned |-> [u \in Receivers |->
                               past.concerned[u] \cup {Mailing!Concerned(u)'}],
               enrolled |-> [u \in Receivers |-> past.enrolled[u] \cup {Mailing!Enrolled(u)'}],
               profiles |-> [u \in Receivers |-> past.profiles[u] \cup {profile'[u]}],
               missing |-> past.missing \/ Mailing!Missing']
  BY DEF Mailing!Observe
<1>2. ASSUME NEW set \in SUBSET BOOLEAN, NEW now \in BOOLEAN
      PROVE  /\ set \cup {now} \in SUBSET BOOLEAN
             /\ now => TRUE \in set \cup {now}
             /\ ~now => FALSE \in set \cup {now}
  OBVIOUS
<1>3. ASSUME NEW u \in Receivers
      PROVE  /\ past.concerned[u] \cup {Mailing!Concerned(u)'} \in SUBSET BOOLEAN
             /\ past.enrolled[u] \cup {Mailing!Enrolled(u)'} \in SUBSET BOOLEAN
             /\ past.profiles[u] \cup {profile'[u]} \in SUBSET Profiles
             /\ Mailing!Concerned(u)' =>
                  TRUE \in past.concerned[u] \cup {Mailing!Concerned(u)'}
             /\ ~Mailing!Concerned(u)' =>
                  FALSE \in past.concerned[u] \cup {Mailing!Concerned(u)'}
             /\ Mailing!Enrolled(u)' =>
                  TRUE \in past.enrolled[u] \cup {Mailing!Enrolled(u)'}
             /\ ~Mailing!Enrolled(u)' =>
                  FALSE \in past.enrolled[u] \cup {Mailing!Enrolled(u)'}
  <2>1. Mailing!Concerned(u)' \in BOOLEAN /\ (Mailing!Enrolled(u))' \in BOOLEAN
    BY DEF Mailing!Concerned, Mailing!Enrolled
  <2>2. /\ past.concerned[u] \in SUBSET BOOLEAN /\ past.enrolled[u] \in SUBSET BOOLEAN
        /\ past.profiles[u] \in SUBSET Profiles /\ profile'[u] \in Profiles
    BY DEF MailTypesOK
  <2>3. /\ past.concerned[u] \cup {Mailing!Concerned(u)'} \in SUBSET BOOLEAN
        /\ Mailing!Concerned(u)' => TRUE \in past.concerned[u] \cup {Mailing!Concerned(u)'}
        /\ ~Mailing!Concerned(u)' => FALSE \in past.concerned[u] \cup {Mailing!Concerned(u)'}
    BY <1>2, <2>1, <2>2
  <2>4. /\ past.enrolled[u] \cup {Mailing!Enrolled(u)'} \in SUBSET BOOLEAN
        /\ Mailing!Enrolled(u)' => TRUE \in past.enrolled[u] \cup {Mailing!Enrolled(u)'}
        /\ ~Mailing!Enrolled(u)' => FALSE \in past.enrolled[u] \cup {Mailing!Enrolled(u)'}
    BY <1>2, <2>1, <2>2
  <2>5. past.profiles[u] \cup {profile'[u]} \in SUBSET Profiles
    BY <2>2
  <2> QED BY <2>3, <2>4, <2>5
<1>4. /\ past' = [concerned |-> past'.concerned, enrolled |-> past'.enrolled,
                  profiles |-> past'.profiles, missing |-> past'.missing]
      /\ past'.concerned = [u \in Receivers |-> past.concerned[u] \cup {Mailing!Concerned(u)'}]
      /\ past'.enrolled = [u \in Receivers |-> past.enrolled[u] \cup {Mailing!Enrolled(u)'}]
      /\ past'.profiles = [u \in Receivers |-> past.profiles[u] \cup {profile'[u]}]
      /\ past'.missing = (past.missing \/ Mailing!Missing')
  BY <1>1
<1>5. /\ past'.missing \in BOOLEAN
      /\ past.missing => past'.missing
      /\ Mailing!Missing' => past'.missing
  BY <1>4
<1>6. /\ past'.concerned \in [Receivers -> SUBSET BOOLEAN]
      /\ past'.enrolled \in [Receivers -> SUBSET BOOLEAN]
      /\ past'.profiles \in [Receivers -> SUBSET Profiles]
  BY <1>3, <1>4
<1>7. \A u \in Receivers : /\ past.concerned[u] \subseteq past'.concerned[u]
                           /\ past.enrolled[u] \subseteq past'.enrolled[u]
                           /\ past.profiles[u] \subseteq past'.profiles[u]
                           /\ profile'[u] \in past'.profiles[u]
  BY <1>4
<1>8. \A u \in Receivers : /\ Mailing!Concerned(u)' => TRUE \in past'.concerned[u]
                           /\ ~Mailing!Concerned(u)' => FALSE \in past'.concerned[u]
                           /\ Mailing!Enrolled(u)' => TRUE \in past'.enrolled[u]
                           /\ ~Mailing!Enrolled(u)' => FALSE \in past'.enrolled[u]
  BY <1>3, <1>4
<1> QED BY <1>4, <1>5, <1>6, <1>7, <1>8 DEF NowNoticed, Mailing!Enrolled

(* What was true since the event remains so, whatever changes in what the queries read. *)
LEMMA WorldChanges ==
  ASSUME MailOK, Mailing!Observe,
         NEW newProfile \in [Receivers -> Profiles], NEW newParticipants \in SUBSET Receivers,
         NEW newMembers, SomeReceivers(newMembers),
         Mailing!Change(newProfile, newParticipants, newMembers)
  PROVE  MailOK'
<1> USE DEF MailOK
<1>1. /\ handler.at = "started" /\ handler' = handler /\ mails' = mails
      /\ profile' \in [Receivers -> Profiles] /\ participants' \subseteq Receivers
      /\ members' = newMembers
  BY DEF Mailing!Change
<1>2. /\ NowNoticed'
      /\ past.missing => past'.missing
      /\ \A u \in Receivers : /\ past.concerned[u] \subseteq past'.concerned[u]
                              /\ past.enrolled[u] \subseteq past'.enrolled[u]
                              /\ past.profiles[u] \subseteq past'.profiles[u]
  BY <1>1, Noticed
<1>3. MailTypesOK'
  <2>1. HandlerOK'
    BY <1>1 DEF MailTypesOK, HandlerOK, SomeReceivers
  <2>2. SomeReceivers(members)'
    BY <1>1 DEF SomeReceivers
  <2> QED BY <1>1, <2>1, <2>2, Noticed DEF MailTypesOK
<1>4. FoundWasTrue'
  <2>1. /\ handler.concerned # None => handler.concerned \subseteq Receivers
        /\ handler.people # None => DOMAIN handler.people \subseteq Receivers
    BY <1>1 DEF MailTypesOK, HandlerOK, SomeReceivers
  <2> QED BY <1>1, <1>2, <2>1 DEF HandlerSound, FoundWasTrue, Joins
<1>5. TrueWasFound'
  BY <1>1, <1>2 DEF HandlerSound, TrueWasFound
<1>6. SubjectOK'
  BY <1>1, <1>2 DEF HandlerSound, SubjectOK
<1>7. (Mailing!OnlyWantedMails /\ Mailing!EverybodyTold /\ Mailing!EndsOnlyWhenMissing)'
  BY <1>1 DEF Mailing!OnlyWantedMails, Mailing!EverybodyTold, Mailing!EndsOnlyWhenMissing
<1> QED BY <1>1, <1>2, <1>3, <1>4, <1>5, <1>6, <1>7 DEF HandlerSound

(* The changes others make are of that kind. *)
LEMMA MailChanges ==
  ASSUME MailOK, Mailing!Observe,
         \/ Mailing!UpdateSettings \/ Mailing!AddParticipant \/ Mailing!RemoveParticipant
         \/ Mailing!DeleteUser \/ Mailing!JoinGroup \/ Mailing!LeaveGroup \/ Mailing!DeleteRow
         \/ Mailing!InsertAgain \/ Mailing!ChangeAssessments
  PROVE  MailOK'
<1>1. /\ profile \in [Receivers -> Profiles] /\ participants \in SUBSET Receivers
      /\ SomeReceivers(members) /\ SomeReceivers(None)
      /\ \A u : SomeReceivers(Mailing!Without(members, u))
      /\ \A set \in SUBSET Receivers : SomeReceivers(set)
  BY DEF MailOK, MailTypesOK, SomeReceivers, Mailing!Without
<1>2. CASE Mailing!UpdateSettings
  <2>1. PICK u \in Receivers, p \in Profiles :
          Mailing!Change([profile EXCEPT ![u] = p], participants, members)
    BY <1>2 DEF Mailing!UpdateSettings
  <2>2. [profile EXCEPT ![u] = p] \in [Receivers -> Profiles]
    BY <1>1
  <2> QED BY <1>1, <2>1, <2>2, WorldChanges
<1>3. CASE Mailing!AddParticipant
  <2>1. PICK u \in Receivers : Mailing!Change(profile, participants \cup {u}, members)
    BY <1>3 DEF Mailing!AddParticipant
  <2>2. participants \cup {u} \in SUBSET Receivers
    BY <1>1
  <2> QED BY <1>1, <2>1, <2>2, WorldChanges
<1>4. CASE Mailing!RemoveParticipant \/ Mailing!DeleteUser
  <2>1. PICK u \in Receivers :
          \/ Mailing!Change(profile, participants \ {u}, Mailing!Without(members, u))
          \/ Mailing!Change(profile, participants \ {u}, members)
    BY <1>4 DEF Mailing!RemoveParticipant, Mailing!DeleteUser
  <2>2. participants \ {u} \in SUBSET Receivers
    BY <1>1
  <2> QED BY <1>1, <2>1, <2>2, WorldChanges
<1>5. ASSUME NEW set, SomeReceivers(set), Mailing!Change(profile, participants, set)
      PROVE  MailOK'
  BY <1>1, <1>5, WorldChanges
<1>6. CASE Mailing!JoinGroup
  <2>1. PICK u \in participants : Mailing!Change(profile, participants, members \cup {u})
    BY <1>6 DEF Mailing!JoinGroup
  <2>2. members # None
    BY <1>6 DEF Mailing!JoinGroup
  <2>3. SomeReceivers(members \cup {u})
    BY <1>1, <2>2 DEF SomeReceivers
  <2> QED BY <1>5, <2>1, <2>3
<1>7. CASE Mailing!LeaveGroup
  BY <1>1, <1>5, <1>7 DEF Mailing!LeaveGroup
<1>8. CASE Mailing!DeleteRow
  BY <1>1, <1>5, <1>8 DEF Mailing!DeleteRow
<1>9. CASE Mailing!InsertAgain
  <2>1. PICK set \in SUBSET participants : Mailing!Change(profile, participants, set)
    BY <1>9 DEF Mailing!InsertAgain
  <2> QED BY <1>1, <1>5, <2>1
<1>10. CASE Mailing!ChangeAssessments
  <2>1. PICK set \in SUBSET Receivers : Mailing!Change(profile, participants, set)
    BY <1>10 DEF Mailing!ChangeAssessments
  <2> QED BY <1>1, <1>5, <2>1
<1> QED BY <1>2, <1>3, <1>4, <1>6, <1>7, <1>8, <1>9, <1>10

(* An event starts a handler that has read nothing. *)
LEMMA MailStarts ==
  ASSUME MailOK, Mailing!Observe,
         \/ Mailing!AssignmentStateChanged \/ Mailing!AssessmentScoreChanged
         \/ Mailing!UserJoinedGroup \/ Mailing!UserLeftGroup \/ Mailing!SubmissionCreated
  PROVE  MailOK'
<1> USE DEF MailOK
<1>1. PICK e \in Mailing!MailEvents, subject \in Receivers \cup {None}, forGroup \in BOOLEAN :
        /\ Mailing!Start(e, subject, forGroup)
        /\ e = "SUBMISSION_CREATED" => subject \in Receivers
  <2> USE DEF Mailing!MailEvents
  <2>1. CASE Mailing!AssignmentStateChanged
    BY <2>1 DEF Mailing!AssignmentStateChanged
  <2>2. CASE Mailing!AssessmentScoreChanged
    BY <2>2 DEF Mailing!AssessmentScoreChanged
  <2>3. CASE Mailing!UserJoinedGroup
    BY <2>3 DEF Mailing!UserJoinedGroup
  <2>4. CASE Mailing!UserLeftGroup
    BY <2>4 DEF Mailing!UserLeftGroup
  <2>5. CASE Mailing!SubmissionCreated
    BY <2>5 DEF Mailing!SubmissionCreated
  <2> QED BY <2>1, <2>2, <2>3, <2>4, <2>5
<1>2. /\ handler.at = "idle"
      /\ handler' = [at |-> "started", event |-> e, subject |-> subject,
                     forGroup |-> forGroup, concerned |-> None, people |-> None]
      /\ UNCHANGED <<Mailing!world, mails>>
  BY <1>1 DEF Mailing!Start
<1>3. /\ NowNoticed'
      /\ \A u \in Receivers : past.concerned[u] \subseteq past'.concerned[u]
  BY <1>2, Noticed DEF Mailing!world, MailTypesOK
<1>4. HandlerOK'
  BY <1>1, <1>2 DEF HandlerOK, SomeReceivers
<1>5. MailTypesOK'
  BY <1>2, <1>4, Noticed DEF MailTypesOK, Mailing!world, SomeReceivers
<1>6. FoundWasTrue' /\ TrueWasFound'
  BY <1>2 DEF FoundWasTrue, TrueWasFound
<1>7. SubjectOK'
  BY <1>1, <1>2 DEF SubjectOK, Mailing!world
<1>8. (\A u \in Receivers : mails[u] = <<>>)'
  BY <1>2
<1> QED BY <1>2, <1>3, <1>5, <1>6, <1>7, <1>8
      DEF HandlerSound, Mailing!OnlyWantedMails, Mailing!EverybodyTold,
          Mailing!EndsOnlyWhenMissing

(* The query for whom the event is about finds those who are concerned now. *)
LEMMA MailConcerns ==
  ASSUME MailOK, Mailing!Observe, Mailing!ReadConcerned
  PROVE  MailOK'
<1> USE DEF MailOK
<1>1. /\ handler.at = "started" /\ handler.concerned = None
      /\ UNCHANGED <<profile, participants, members, mails>>
      /\ HandlerSound
  BY DEF Mailing!ReadConcerned, Mailing!world
<1>2. \/ Mailing!Reject /\ Mailing!Missing
      \/ Mailing!MissingRegistration
      \/ \E whom \in SUBSET Receivers :
           /\ Mailing!Concern(whom)
           /\ \A u \in Receivers :
                /\ Mailing!Concerned(u) => u \in whom
                /\ u \in whom => Mailing!Concerned(u) \/ Joins(u)
           /\ handler.event = "PARTICIPANT_JOINED_GROUP" => members # None /\ whom = members
  <2> USE DEF Mailing!ReadConcerned, Mailing!Event
  <2>0. HandlerOK /\ SomeReceivers(members)
    BY DEF MailTypesOK
  <2>1. CASE Mailing!Event("ASSIGNMENT_STARTED")
    <3>1. Mailing!Concern(Receivers)
      BY <2>1
    <3> QED BY <2>1, <3>1 DEF Mailing!Concerned
  <2>2. CASE Mailing!Event("ASSIGNMENT_EVALUATED")
    <3>1. Mailing!Concern(IF members = None THEN {} ELSE members)
      BY <2>2
    <3> QED BY <2>0, <2>2, <3>1 DEF Mailing!Concerned, SomeReceivers
  <2>3. CASE Mailing!Event("ASSESSMENT_SCORE_CHANGED")
    <3>1. IF members = None THEN Mailing!Reject ELSE Mailing!Concern(members)
      BY <2>3
    <3> QED BY <2>0, <2>3, <3>1 DEF Mailing!Concerned, SomeReceivers, Mailing!Missing
  <2>4. CASE Mailing!Event("PARTICIPANT_JOINED_GROUP")
    <3>1. IF members = None THEN Mailing!Reject ELSE Mailing!Concern(members)
      BY <2>4
    <3> QED BY <2>0, <2>4, <3>1 DEF Mailing!Concerned, SomeReceivers, Mailing!Missing, Joins,
              Mailing!Grouped, Mailing!OfGroup
  <2>5. CASE Mailing!Event("PARTICIPANT_LEFT_GROUP")
    <3>1. IF members = None \/ handler.subject \notin participants
          THEN Mailing!Reject ELSE Mailing!Concern(members)
      BY <2>5
    <3> QED BY <2>0, <2>5, <3>1 DEF Mailing!Concerned, SomeReceivers, Mailing!Missing,
              Mailing!Grouped, Mailing!OfGroup
  <2>6. CASE Mailing!Event("SUBMISSION_CREATED")
    <3>1. \/ ~handler.forGroup /\ Mailing!Concern({handler.subject})
          \/ /\ handler.forGroup
             /\ IF members = None THEN Mailing!MissingRegistration
                ELSE Mailing!Concern(members)
      BY <2>6
    <3>2. handler.subject \in Receivers
      BY <1>1, <2>0, <2>6 DEF HandlerOK
    <3> QED BY <2>0, <2>6, <3>1, <3>2 DEF Mailing!Concerned, SomeReceivers,
              Mailing!Grouped, Mailing!OfGroup
  <2> QED BY <2>1, <2>2, <2>3, <2>4, <2>5, <2>6
<1>3. ASSUME handler'.at # "started",
             \E at \in {"rejected", "logged"} : handler' = [handler EXCEPT !.at = at],
             handler'.at = "rejected" => past.missing
      PROVE  MailOK'
  <2>1. PICK at \in {"rejected", "logged"} : handler' = [handler EXCEPT !.at = at]
    BY <1>3
  <2>2. past' = past
    BY <1>3 DEF Mailing!Observe
  <2>3. HandlerOK' /\ handler'.at = at
    <3>1. handler.people # None => DOMAIN handler.people \subseteq Receivers
      BY <1>1 DEF MailTypesOK, HandlerOK
    <3> QED BY <1>1, <2>1, <3>1 DEF MailTypesOK, HandlerOK, SomeReceivers
  <2>4. MailTypesOK'
    BY <1>1, <2>2, <2>3 DEF MailTypesOK, SomeReceivers
  <2> QED BY <1>1, <1>3, <2>2, <2>3, <2>4 DEF Mailing!OnlyWantedMails, Mailing!EverybodyTold,
             Mailing!EndsOnlyWhenMissing
<1>4. CASE Mailing!Reject /\ Mailing!Missing
  <2>1. past.missing
    BY <1>1, <1>4 DEF HandlerSound, NowNoticed
  <2>2. handler' = [handler EXCEPT !.at = "rejected"] /\ handler'.at = "rejected"
    BY <1>1, <1>4 DEF Mailing!Reject, MailTypesOK, HandlerOK
  <2> QED BY <1>3, <2>1, <2>2
<1>5. CASE Mailing!MissingRegistration
  <2>1. handler' = [handler EXCEPT !.at = "logged"] /\ handler'.at = "logged"
    BY <1>1, <1>5 DEF Mailing!MissingRegistration, MailTypesOK, HandlerOK
  <2> QED BY <1>3, <2>1
<1>6. ASSUME NEW set \in SUBSET Receivers, Mailing!Concern(set),
             \A u \in Receivers :
                /\ Mailing!Concerned(u) => u \in set
                /\ u \in set => Mailing!Concerned(u) \/ Joins(u),
             handler.event = "PARTICIPANT_JOINED_GROUP" => members # None /\ set = members
      PROVE  MailOK'
  <2>1. /\ handler' = [at |-> "started", event |-> handler.event, subject |-> handler.subject,
                   forGroup |-> handler.forGroup, concerned |-> set,
                   people |-> handler.people]
        /\ handler.people # None => DOMAIN handler.people \subseteq Receivers
    BY <1>1, <1>6 DEF MailTypesOK, HandlerOK, Mailing!Concern
  <2>2. HandlerOK'
    BY <1>1, <2>1 DEF MailTypesOK, HandlerOK, SomeReceivers
  <2>3. /\ NowNoticed'
        /\ past.missing => past'.missing
        /\ \A u \in Receivers : /\ past.concerned[u] \subseteq past'.concerned[u]
                                /\ past.enrolled[u] \subseteq past'.enrolled[u]
                                /\ past.profiles[u] \subseteq past'.profiles[u]
    BY <1>1, <2>1, Noticed DEF MailTypesOK
  <2>4. MailTypesOK'
    BY <1>1, <2>1, <2>2, Noticed DEF MailTypesOK, SomeReceivers
  <2>5. \A u \in Receivers : Mailing!Concerned(u) => TRUE \in past.concerned[u]
    BY <1>1 DEF HandlerSound, NowNoticed
  <2>6. \A u \in Receivers : FALSE \notin past.concerned[u] => Mailing!Concerned(u)
    BY <1>1 DEF HandlerSound, NowNoticed
  <2>7. FoundWasTrue'
    BY <1>1, <1>6, <2>1, <2>3, <2>5 DEF HandlerSound, FoundWasTrue, Joins
  <2>8. TrueWasFound'
    BY <1>1, <1>6, <2>1, <2>3, <2>6 DEF HandlerSound, TrueWasFound
  <2>9. SubjectOK'
    <3>1. handler.event = "PARTICIPANT_JOINED_GROUP" /\ handler.subject \notin set =>
            past.missing
      BY <1>1, <1>6 DEF HandlerSound, NowNoticed, Mailing!Missing, Mailing!Event
    <3> QED BY <1>1, <1>6, <2>1, <2>3, <3>1 DEF HandlerSound, SubjectOK
  <2> QED BY <1>1, <2>1, <2>3, <2>4, <2>7, <2>8, <2>9
        DEF HandlerSound, Mailing!OnlyWantedMails, Mailing!EverybodyTold,
            Mailing!EndsOnlyWhenMissing
<1> QED BY <1>2, <1>4, <1>5, <1>6

(* The query for the participants and their settings. *)
LEMMA MailReads ==
  ASSUME MailOK, Mailing!Observe, Mailing!ReadParticipants
  PROVE  MailOK'
<1> USE DEF MailOK
<1>1. /\ handler.at = "started" /\ handler.people = None
      /\ handler.concerned # None \/ handler.event = "ASSIGNMENT_EVALUATED"
      /\ UNCHANGED <<profile, participants, members, mails>>
      /\ HandlerSound /\ participants \subseteq Receivers
  BY DEF Mailing!ReadParticipants, Mailing!world, Mailing!Event, MailTypesOK
<1>2. PICK people : people = [u \in participants |-> profile[u]]
  OBVIOUS
<1>3. handler' = [at |-> "started", event |-> handler.event, subject |-> handler.subject,
                  forGroup |-> handler.forGroup, concerned |-> handler.concerned,
                  people |-> people]
  BY <1>1, <1>2 DEF MailTypesOK, HandlerOK, Mailing!ReadParticipants
<1>4. HandlerOK'
  BY <1>1, <1>2, <1>3 DEF MailTypesOK, HandlerOK, SomeReceivers
<1>5. /\ NowNoticed'
      /\ past.missing => past'.missing
      /\ \A u \in Receivers : /\ past.concerned[u] \subseteq past'.concerned[u]
                              /\ past.enrolled[u] \subseteq past'.enrolled[u]
                              /\ past.profiles[u] \subseteq past'.profiles[u]
  BY <1>1, <1>3, Noticed DEF MailTypesOK
<1>6. MailTypesOK'
  BY <1>1, <1>3, <1>4, Noticed DEF MailTypesOK, SomeReceivers
<1>7. FoundWasTrue'
  <2>1. \A u \in participants : TRUE \in past.enrolled[u] /\ people[u] \in past.profiles[u]
    BY <1>1, <1>2 DEF HandlerSound, NowNoticed
  <2>2. handler.concerned # None => handler.concerned \subseteq Receivers
    BY <1>1 DEF MailTypesOK, HandlerOK, SomeReceivers
  <2> QED BY <1>1, <1>2, <1>3, <1>5, <2>1, <2>2 DEF HandlerSound, FoundWasTrue, Joins
<1>8. TrueWasFound'
  <2>1. \A u \in Receivers : FALSE \notin past.enrolled[u] => u \in participants
    BY <1>1 DEF HandlerSound, NowNoticed
  <2> QED BY <1>1, <1>2, <1>3, <1>5, <2>1 DEF HandlerSound, TrueWasFound
<1>9. SubjectOK'
  BY <1>1, <1>3, <1>5 DEF HandlerSound, SubjectOK
<1> QED BY <1>1, <1>3, <1>5, <1>6, <1>7, <1>8, <1>9
      DEF HandlerSound, Mailing!OnlyWantedMails, Mailing!EverybodyTold,
          Mailing!EndsOnlyWhenMissing

(* The templates know the language a user prefers. *)
LEMMA MailContent ==
  ASSUME Mailing!ConstantsOK, NEW p \in Profiles, NEW e
  PROVE  Mailing!Content(e, Mailing!Preferred(p)) = Mailing!Preferred(p)
BY DEF Mailing!ConstantsOK, Mailing!Content, Mailing!Preferred, Mailing!StartedContent,
       Mailing!OtherContent, Mailing!Languages

(* The handler sends, or finds that the member it is about was not among the members. *)
LEMMA MailSends ==
  ASSUME Mailing!ConstantsOK, MailOK, Mailing!Observe, Mailing!Send
  PROVE  MailOK'
<1> USE DEF MailOK
<1> DEFINE Recipients == Mailing!Recipients
<1>1. /\ handler.at = "started" /\ handler.concerned # None /\ handler.people # None
      /\ UNCHANGED <<profile, participants, members>>
      /\ HandlerSound
      /\ handler.concerned \subseteq Receivers /\ DOMAIN handler.people \subseteq Receivers
      /\ \A u \in Receivers : mails[u] = <<>>
  BY DEF Mailing!Send, Mailing!world, MailTypesOK, HandlerOK, SomeReceivers
<1>2. ASSUME NEW at \in {"rejected", "done"}, handler' = [handler EXCEPT !.at = at]
      PROVE  /\ handler'.at = at /\ handler'.event = handler.event
             /\ past' = past
             /\ MailTypesOK' \/ mails' # [u \in Receivers |-> mails'[u]]
  <2>1. HandlerOK' /\ handler'.at = at /\ handler'.event = handler.event
    BY <1>1, <1>2 DEF MailTypesOK, HandlerOK, SomeReceivers
  <2>2. past' = past
    BY <2>1 DEF Mailing!Observe
  <2> QED BY <1>1, <2>1, <2>2 DEF MailTypesOK, SomeReceivers
<1>3. CASE /\ handler.event = "PARTICIPANT_JOINED_GROUP" /\ Recipients # {}
           /\ handler.subject \notin handler.concerned
  <2>1. handler' = [handler EXCEPT !.at = "rejected"] /\ mails' = mails
    BY <1>3 DEF Mailing!Send, Mailing!Event, Mailing!Reject
  <2>2. past.missing
    BY <1>1, <1>3 DEF HandlerSound, SubjectOK
  <2> QED BY <1>1, <1>2, <2>1, <2>2 DEF MailTypesOK, Mailing!OnlyWantedMails,
             Mailing!EverybodyTold, Mailing!EndsOnlyWhenMissing
<1>4. CASE ~(/\ handler.event = "PARTICIPANT_JOINED_GROUP" /\ Recipients # {}
             /\ handler.subject \notin handler.concerned)
  <2>1. /\ handler' = [handler EXCEPT !.at = "done"]
        /\ mails' = [u \in Receivers |->
             IF u \in Recipients
             THEN Append(mails[u],
                         Mailing!Content(handler.event, Mailing!Preferred(handler.people[u])))
             ELSE mails[u]]
    BY <1>4 DEF Mailing!Send, Mailing!Event
  <2>2. MailTypesOK' /\ handler'.at = "done" /\ handler'.event = handler.event /\ past' = past
    BY <1>2, <2>1
  <2>3. ASSUME NEW u \in Recipients
        PROVE  /\ u \in Receivers
               /\ mails'[u] = <<Mailing!Preferred(handler.people[u])>>
               /\ handler.people[u] \in past.profiles[u]
               /\ TRUE \in past.concerned[u] /\ TRUE \in past.enrolled[u]
               /\ \/ handler.event = "PARTICIPANT_LEFT_GROUP"
                  \/ Mailing!Receives(handler.people[u], handler.event)
    <3>1. /\ u \in handler.concerned \cap DOMAIN handler.people
          /\ handler.event = "PARTICIPANT_JOINED_GROUP" => u # handler.subject
          /\ handler.event = "PARTICIPANT_LEFT_GROUP" \/ Mailing!Receives(handler.people[u], handler.event)
      BY <2>3 DEF Mailing!Recipients, Mailing!Event
    <3>2. /\ u \in Receivers /\ handler.people[u] \in past.profiles[u]
          /\ TRUE \in past.enrolled[u]
      BY <1>1, <3>1 DEF HandlerSound, FoundWasTrue
    <3>3. ~Joins(u)
      BY <3>1 DEF Joins
    <3>4. TRUE \in past.concerned[u]
      BY <1>1, <3>1, <3>3 DEF HandlerSound, FoundWasTrue
    <3>5. handler.people[u] \in Profiles
      BY <3>2 DEF MailTypesOK
    <3>6. mails'[u] = Append(<<>>, Mailing!Preferred(handler.people[u]))
      BY <1>1, <2>1, <3>2, <3>5, MailContent
    <3>7. Append(<<>>, Mailing!Preferred(handler.people[u])) =
            <<Mailing!Preferred(handler.people[u])>>
      OBVIOUS
    <3> QED BY <3>1, <3>2, <3>4, <3>6, <3>7
  <2>4. Mailing!OnlyWantedMails'
    <3> SUFFICES ASSUME NEW u \in Receivers, mails'[u] # <<>>
                 PROVE  /\ TRUE \in past.concerned[u] /\ TRUE \in past.enrolled[u]
                        /\ \E p \in past.profiles[u] :
                             /\ \/ p.email /\ p.allow /\ handler.event \notin p.blacklist
                                \/ handler.event = "PARTICIPANT_LEFT_GROUP"
                             /\ mails'[u][1] = Mailing!Preferred(p)
      BY <2>2 DEF Mailing!OnlyWantedMails, Mailing!Event, Mailing!Preferred
    <3>1. u \in Recipients
      BY <1>1, <2>1
    <3>2. \A p : <<Mailing!Preferred(p)>>[1] = Mailing!Preferred(p)
      OBVIOUS
    <3>3. mails'[u][1] = Mailing!Preferred(handler.people[u])
      BY <2>3, <3>1, <3>2, Zenon
    <3> QED BY <2>3, <3>1, <3>3 DEF Mailing!Receives
  <2>5. Mailing!EverybodyTold'
    <3> SUFFICES ASSUME NEW u \in Receivers, past.concerned[u] = {TRUE},
                        past.enrolled[u] = {TRUE},
                        \A p \in past.profiles[u] :
                          p.email /\ p.allow /\ handler.event \notin p.blacklist
                 PROVE  Len(mails'[u]) = 1
      BY <2>2 DEF Mailing!EverybodyTold
    <3>1. u \in handler.concerned /\ u \in DOMAIN handler.people
      BY <1>1 DEF HandlerSound, TrueWasFound
    <3>2. handler.event = "PARTICIPANT_JOINED_GROUP" => u # handler.subject
      BY <1>1 DEF HandlerSound, NowNoticed, Mailing!Concerned, Mailing!Event
    <3>3. Mailing!Receives(handler.people[u], handler.event)
      BY <1>1, <3>1 DEF HandlerSound, FoundWasTrue, Mailing!Receives
    <3>4. u \in Recipients
      BY <3>1, <3>2, <3>3 DEF Mailing!Recipients, Mailing!Event
    <3>5. \A p : Len(<<Mailing!Preferred(p)>>) = 1
      OBVIOUS
    <3> QED BY <2>3, <3>4, <3>5
  <2> QED BY <2>2, <2>4, <2>5 DEF Mailing!EndsOnlyWhenMissing
<1> QED BY <1>3, <1>4

(* MailOK is inductive. *)
LEMMA MailStep == ASSUME Mailing!ConstantsOK, MailOK, [Mailing!Next]_(Mailing!vars) PROVE MailOK'
<1>1. CASE UNCHANGED Mailing!vars
  <2> USE <1>1 DEF Mailing!vars, Mailing!world
  <2>1. MailTypesOK' <=> MailTypesOK
    BY DEF MailTypesOK, SomeReceivers, HandlerOK
  <2>2. NowNoticed' <=> NowNoticed
    BY DEF NowNoticed, Mailing!Concerned, Mailing!Missing, Mailing!Event, Mailing!Grouped
  <2>3. (FoundWasTrue /\ TrueWasFound /\ SubjectOK)' <=>
          (FoundWasTrue /\ TrueWasFound /\ SubjectOK)
    BY DEF FoundWasTrue, TrueWasFound, SubjectOK, Joins
  <2>4. Mailing!OnlyWantedMails' <=> Mailing!OnlyWantedMails
    BY DEF Mailing!OnlyWantedMails, Mailing!Event, Mailing!Preferred
  <2>5. (Mailing!EverybodyTold /\ Mailing!EndsOnlyWhenMissing)' <=>
          (Mailing!EverybodyTold /\ Mailing!EndsOnlyWhenMissing)
    BY DEF Mailing!EverybodyTold, Mailing!EndsOnlyWhenMissing
  <2> QED BY <2>1, <2>2, <2>3, <2>4, <2>5 DEF MailOK, HandlerSound
<1>2. CASE Mailing!Next
  BY <1>2, MailStarts, MailConcerns, MailReads, MailSends, MailChanges
     DEF Mailing!Next, Mailing!Operation
<1> QED BY <1>1, <1>2

--------------------------------------------------------------------------------
(****************************************************************************)
(* Activity: days and the activities of them                                *)
(****************************************************************************)

(* A non-empty set of days has a last one. *)
LEMMA LastDay ==
  ASSUME NEW m \in Nat, NEW S \in SUBSET (1..m), S # {}
  PROVE  \E d \in S : \A e \in S : e <= d
<1> DEFINE T == {d..m : d \in S}
<1>1. T \subseteq FiniteSubsetsOf(Nat)
  <2> SUFFICES ASSUME NEW d \in S PROVE d..m \in FiniteSubsetsOf(Nat)
    OBVIOUS
  <2>1. IsFiniteSet(d..m)
    BY FS_Interval
  <2> QED BY <2>1 DEF FiniteSubsetsOf
<1>2. IsWellFoundedOn(StrictSubsetOrdering(Nat), FiniteSubsetsOf(Nat))
  BY FS_StrictSubsetOrderingWellFounded
<1>3. T # {}
  OBVIOUS
<1>4. PICK x \in T : \A y \in T : <<y, x>> \notin StrictSubsetOrdering(Nat)
  <2> HIDE DEF T
  <2> QED BY <1>1, <1>2, <1>3, WFMin
<1>5. PICK d \in S : x = d..m
  OBVIOUS
<1>6. ASSUME NEW e \in S, d < e PROVE FALSE
  <2>1. e..m \in T /\ e..m \in SUBSET Nat /\ d..m \in SUBSET Nat
    OBVIOUS
  <2>2. d \in d..m /\ d \notin e..m /\ e..m \subseteq d..m
    BY <1>6
  <2>3. <<e..m, d..m>> \in StrictSubsetOrdering(Nat)
    <3> HIDE DEF T
    <3> QED BY <2>1, <2>2 DEF StrictSubsetOrdering
  <2> QED BY <1>4, <1>5, <2>1, <2>3
<1> QED BY <1>6

(* Quotient and remainder determine a number. *)
LEMMA DivisionDetermines ==
  ASSUME NEW m \in Nat, NEW n \in Nat, NEW k \in Nat, k > 0,
         m \div k = n \div k, m % k = n % k
  PROVE  m = n
OBVIOUS

(* Month and date together tell the days apart. *)
LEMMA SameDayIsSame ==
  ASSUME Activity!ConstantsOK, NEW d \in Activity!Days, NEW e \in Activity!Days,
         Activity!isSameDay(d, e)
  PROVE  d = e
<1>1. MonthLength \in Nat /\ MonthLength > 0 /\ d - 1 \in Nat /\ e - 1 \in Nat
  BY DEF Activity!Days, Activity!ConstantsOK
<1>2. /\ (d - 1) % MonthLength = (e - 1) % MonthLength
      /\ (d - 1) \div MonthLength = (e - 1) \div MonthLength
  BY DEF Activity!isSameDay, Activity!getDate, Activity!getMonth
<1>3. d - 1 = e - 1
  <2> DEFINE m == d - 1
             n == e - 1
  <2>1. m \in Nat /\ n \in Nat /\ m % MonthLength = n % MonthLength
        /\ m \div MonthLength = n \div MonthLength
    BY <1>1, <1>2
  <2> HIDE DEF m, n
  <2>2. m = n
    BY <1>1, <2>1, DivisionDetermines
  <2> QED BY <2>2 DEF m, n
<1> QED BY <1>3 DEF Activity!Days, Activity!ConstantsOK

(* Activities are of days up to now.  A handler whose day had one looks for another day
   only when the latest is later. *)
VisitOK(r) ==
  \/ visit[r] = [at |-> "idle"]
  \/ /\ visit[r].at \in {"published", "new", "same", "stored"}
     /\ visit[r].date \in 1..today
     /\ visit[r] = [at |-> visit[r].at, date |-> visit[r].date]
     /\ visit[r].at = "same" => stored[visit[r].date] > 0
     /\ visit[r].at = "stored" => \E d \in visit[r].date..today : stored[d] > 0
     /\ r \in known /\ visit[r].at = "published" => stored[visit[r].date] > 0
     /\ r \in known /\ visit[r].at = "new" => visit[r].date < today

ActivityOK ==
  /\ today \in Activity!Days
  /\ stored \in [Activity!Days -> Nat]
  /\ \A d \in Activity!Days : stored[d] > 0 => d <= today
  /\ visit = [r \in Visits |-> visit[r]]
  /\ known \subseteq Visits
  /\ \A r \in Visits : VisitOK(r)

(* There are no activities on the first day. *)
LEMMA ActivityInit == ASSUME Activity!ConstantsOK, Activity!Init PROVE ActivityOK
BY DEF Activity!ConstantsOK, Activity!Init, ActivityOK, VisitOK, Activity!Idle, Activity!Days

(* What the handlers know stays true when the days go by and activities are added. *)
LEMMA OtherVisitsKept ==
  ASSUME Activity!ConstantsOK, ActivityOK, today' \in Activity!Days, today <= today',
         stored' \in [Activity!Days -> Nat],
         \A d \in Activity!Days : stored[d] <= stored'[d],
         NEW s \in Visits, visit'[s] = visit[s], s \in known' => s \in known
  PROVE  VisitOK(s)'
<1>1. /\ VisitOK(s) /\ today \in Activity!Days
      /\ stored \in [Activity!Days -> Nat] /\ MaxDay \in Nat
  BY DEF ActivityOK, Activity!ConstantsOK
<1>2. CASE visit[s] = [at |-> "idle"]
  BY <1>2 DEF VisitOK
<1>3. CASE visit[s] # [at |-> "idle"]
  <2>1. /\ visit[s].date \in 1..today /\ visit[s].date \in Activity!Days
        /\ \A d \in visit[s].date..today : d \in Activity!Days /\ d \in visit[s].date..today'
    BY <1>1, <1>3 DEF VisitOK, Activity!Days
  <2>2. \A d \in Activity!Days : stored[d] > 0 => stored'[d] > 0
    BY <1>1
  <2>3. visit[s].date \in 1..today' /\ today \in Nat /\ today' \in Nat
    BY <1>1, <2>1 DEF Activity!Days
  <2> QED BY <1>1, <1>3, <2>1, <2>2, <2>3 DEF VisitOK
<1> QED BY <1>2, <1>3

(* ActivityOK is inductive. *)
LEMMA ActivityStep ==
  ASSUME Activity!ConstantsOK, ActivityOK, [Activity!Next]_(Activity!vars)
  PROVE  ActivityOK'
<1> USE DEF ActivityOK
<1>0. MaxDay \in Nat /\ today \in Nat
  BY DEF Activity!ConstantsOK, Activity!Days
<1>1. ASSUME NEW r \in Visits, Activity!Visit(r) PROVE ActivityOK'
  <2>1. /\ visit' = [visit EXCEPT ![r] = [at |-> "published", date |-> today]]
        /\ known' = IF stored[today] > 0 THEN known \cup {r} ELSE known \ {r}
        /\ UNCHANGED <<today, stored>>
    BY <1>1 DEF Activity!Visit
  <2>2. VisitOK(r)'
    BY <1>0, <2>1 DEF VisitOK, Activity!Days
  <2>3. ASSUME NEW s \in Visits, s # r PROVE VisitOK(s)'
    BY <2>1, <2>3, OtherVisitsKept DEF Activity!Days
  <2> QED BY <2>1, <2>2, <2>3
<1>2. ASSUME NEW r \in Visits, Activity!FindLatest(r) PROVE ActivityOK'
  <2> DEFINE days == {d \in Activity!Days : stored[d] > 0}
             at == IF days = {} \/ ~Activity!isSameDay(visit[r].date, Activity!Latest(days))
                   THEN "new" ELSE "same"
  <2>1. /\ visit[r].at = "published"
        /\ visit' = [visit EXCEPT ![r] = [at |-> at, date |-> visit[r].date]]
        /\ UNCHANGED <<today, stored, known>>
    BY <1>2 DEF Activity!FindLatest
  <2>2. VisitOK(r) /\ visit[r].date \in 1..today /\ visit[r].date \in Activity!Days
    BY <1>0, <2>1 DEF VisitOK, Activity!Days
  <2>3. ASSUME days # {}
        PROVE  Activity!Latest(days) \in days /\ \A e \in days : e <= Activity!Latest(days)
    <3>1. days \in SUBSET (1..MaxDay)
      BY DEF Activity!Days
    <3> HIDE DEF days
    <3>2. \E d \in days : \A e \in days : e <= d
      BY <1>0, <2>3, <3>1, LastDay
    <3> QED BY <3>2 DEF Activity!Latest
  <2>4. at = "same" => stored[visit[r].date] > 0
    BY <2>2, <2>3, SameDayIsSame
  <2>5. r \in known /\ at = "new" => visit[r].date < today
    <3> SUFFICES ASSUME r \in known, at = "new" PROVE visit[r].date < today
      OBVIOUS
    <3>1. visit[r].date \in days
      BY <2>1, <2>2 DEF VisitOK
    <3>2. Activity!Latest(days) # visit[r].date
      <4>1. Activity!isSameDay(visit[r].date, visit[r].date)
        BY DEF Activity!isSameDay
      <4> QED BY <3>1, <4>1
    <3>3. Activity!Latest(days) \in days /\ visit[r].date <= Activity!Latest(days)
      BY <2>3, <3>1
    <3>4. Activity!Latest(days) <= today /\ Activity!Latest(days) \in 1..MaxDay
      BY <3>3 DEF Activity!Days
    <3> HIDE DEF days
    <3> QED BY <1>0, <2>2, <3>2, <3>3, <3>4
  <2>6. VisitOK(r)'
    <3> HIDE DEF at
    <3>1. at \in {"new", "same"}
      BY DEF at
    <3> QED BY <2>1, <2>2, <2>4, <2>5, <3>1 DEF VisitOK
  <2>7. ASSUME NEW s \in Visits, s # r PROVE VisitOK(s)'
    <3> HIDE DEF at
    <3>1. visit'[s] = visit[s]
      BY <2>1, <2>7
    <3> QED BY <1>0, <2>1, <3>1, OtherVisitsKept DEF Activity!Days
  <2> QED BY <2>1, <2>6, <2>7
<1>3. ASSUME NEW r \in Visits, Activity!Insert(r) PROVE ActivityOK'
  <2>1. /\ visit[r].at = "new"
        /\ stored' = [stored EXCEPT ![today] = @ + 1]
        /\ visit' = [visit EXCEPT ![r].at = "stored"]
        /\ UNCHANGED <<today, known>>
    BY <1>3 DEF Activity!Insert
  <2>2. /\ stored' \in [Activity!Days -> Nat] /\ stored'[today] > 0
        /\ \A d \in Activity!Days : stored[d] <= stored'[d]
        /\ \A d \in Activity!Days : stored'[d] > 0 => d <= today
    BY <1>0, <2>1
  <2>3. visit'[r] = [at |-> "stored", date |-> visit[r].date] /\ visit[r].date \in 1..today
    BY <2>1 DEF VisitOK
  <2>4. VisitOK(r)'
    BY <1>0, <2>1, <2>2, <2>3 DEF VisitOK
  <2>5. ASSUME NEW s \in Visits, s # r PROVE VisitOK(s)'
    BY <1>0, <2>1, <2>2, <2>5, OtherVisitsKept DEF Activity!Days
  <2> QED BY <2>1, <2>2, <2>4, <2>5
<1>4. ASSUME NEW r \in Visits, Activity!Done(r) PROVE ActivityOK'
  <2>1. /\ visit' = [visit EXCEPT ![r] = [at |-> "idle"]]
        /\ UNCHANGED <<today, stored, known>>
    BY <1>4 DEF Activity!Done, Activity!Idle
  <2>2. ASSUME NEW s \in Visits, s # r PROVE VisitOK(s)'
    BY <1>0, <2>1, <2>2, OtherVisitsKept DEF Activity!Days
  <2> QED BY <2>1, <2>2 DEF VisitOK
<1>5. CASE Activity!Midnight
  <2>1. /\ today' = today + 1 /\ today' \in Activity!Days
        /\ UNCHANGED <<stored, visit, known>>
    BY <1>0, <1>5 DEF Activity!Midnight, Activity!Days
  <2>2. ASSUME NEW s \in Visits PROVE VisitOK(s)'
    BY <1>0, <2>1, OtherVisitsKept DEF Activity!Days
  <2> QED BY <1>0, <2>1, <2>2 DEF Activity!Days
<1>6. CASE UNCHANGED Activity!vars
  BY <1>6 DEF Activity!vars, VisitOK
<1> QED BY <1>1, <1>2, <1>3, <1>4, <1>5, <1>6 DEF Activity!Next

(* The invariant is what VisitRecorded needs, and AddsToNewDay before a step. *)
LEMMA VisitsRecorded == ASSUME ActivityOK PROVE Activity!VisitRecorded
BY DEF ActivityOK, VisitOK, Activity!VisitRecorded, Activity!Days

LEMMA ActivitiesAdded ==
  ASSUME ActivityOK, [Activity!Next]_(Activity!vars)
  PROVE  Activity!AddsToNewDay
<1> SUFFICES ASSUME NEW r \in known, visit[r].at = "new" PROVE today > visit[r].date
  BY DEF Activity!AddsToNewDay
<1>1. VisitOK(r)
  BY DEF ActivityOK
<1> QED BY <1>1 DEF VisitOK, ActivityOK, Activity!Days

--------------------------------------------------------------------------------
(****************************************************************************)
(* Notices: names are unique                                                *)
(****************************************************************************)

(* A name subscribes once. *)
SubscribersOK == \A s, t \in subscribers : s.name = t.name => s = t

(* Who saves has looked for rows with his name, other than the one he writes. *)
LEMMA SubscribersStep ==
  ASSUME SubscribersOK, [Notices!Next]_(Notices!vars)
  PROVE  SubscribersOK'
<1>1. ASSUME NEW r \in Requests, Notices!Save(r) PROVE SubscribersOK'
  <2>1. PICK id, others :
          /\ others = {s \in subscribers : ~(s.name = subscribing[r].name /\ s.id = id)}
          /\ subscribers' = IF Notices!NameTaken(others, subscribing[r].name) THEN subscribers
                            ELSE others \cup {[id |-> id, name |-> subscribing[r].name,
                                               events |-> subscribing[r].events]}
    BY <1>1 DEF Notices!Save
  <2> QED BY <2>1 DEF SubscribersOK, Notices!NameTaken
<1>2. ASSUME NEW r \in Requests, Notices!Remove(r) PROVE SubscribersOK'
  BY <1>2 DEF SubscribersOK, Notices!Remove
<1>3. CASE UNCHANGED subscribers
  BY <1>3 DEF SubscribersOK
<1>4. UNCHANGED subscribers \/ \E r \in Requests : Notices!Save(r) \/ Notices!Remove(r)
  BY DEF Notices!Next, Notices!Find, Notices!Publish, Notices!notifySubscribers, Notices!vars
<1> QED BY <1>1, <1>2, <1>3, <1>4

(* The cardinality of the parts is that of the library. *)
LEMMA NoticesCardinality == ASSUME NEW S PROVE Notices!Cardinality(S) = Cardinality(S)
BY DEF Notices!Cardinality, Cardinality, Notices!IsFiniteSet, IsFiniteSet

(* One row of a name makes one post. *)
LEMMA PostedOnce ==
  ASSUME SubscribersOK, [Notices!Next]_(Notices!vars)
  PROVE  Notices!PostsOnce
<1> SUFFICES ASSUME event # None, event' = None, NEW name \in Names
             PROVE  Cardinality({p \in posts' : p.name = name}) =
                      IF \E s \in subscribers : s.name = name /\ s.events \cap {"ALL", event} # {}
                      THEN 1 ELSE 0
  BY NoticesCardinality DEF Notices!PostsOnce
<1> DEFINE posted == {p \in posts' : p.name = name}
           wants(s) == s.name = name /\ s.events \cap {"ALL", event} # {}
<1>1. posts' = {[id |-> s.id, name |-> s.name] :
                  s \in {t \in subscribers : "ALL" \in t.events \/ event \in t.events}}
  BY DEF Notices!Next, Notices!Find, Notices!Save, Notices!Remove, Notices!Publish,
         Notices!notifySubscribers, Notices!vars
<1>2. posted = {[id |-> s.id, name |-> s.name] : s \in {t \in subscribers : wants(t)}}
  BY <1>1
<1>3. CASE \E s \in subscribers : wants(s)
  <2>1. PICK s \in subscribers : wants(s)
    BY <1>3
  <2>2. posted = {[id |-> s.id, name |-> s.name]}
    BY <1>2, <2>1 DEF SubscribersOK
  <2> QED BY <1>3, <2>2, FS_Singleton
<1>4. CASE ~\E s \in subscribers : wants(s)
  <2>1. posted = {}
    BY <1>2, <1>4
  <2> QED BY <1>4, <2>1, FS_EmptySet
<1> QED BY <1>3, <1>4

--------------------------------------------------------------------------------
(****************************************************************************)
(* The parts side by side                                                   *)
(****************************************************************************)

AccountsOK == AccountsProofs!TypesOK /\ AccountsProofs!AgesOK /\ AccountsProofs!IdsOK

(* The invariant of the part that the behaviour is about. *)
RecordsOK ==
  /\ part = "accounts" => AccountsOK
  /\ part = "enrolment" => EnrolmentOK
  /\ part = "allocations" => RowsOK
  /\ part = "mailing" => MailOK
  /\ part = "activity" => ActivityOK
  /\ part = "notices" => SubscribersOK

(* A step is one of the part. *)
LEMMA PartSteps ==
  ASSUME [Next]_recordVars
  PROVE  /\ part' = part
         /\ part = "accounts" => [AccountsProofs!Next]_(AccountsProofs!vars)
         /\ part = "enrolment" => [Enrolment!Next]_(Enrolment!vars)
         /\ part = "allocations" => [Allocations!Next]_(Allocations!vars)
         /\ part = "mailing" => [Mailing!Next]_(Mailing!vars)
         /\ part = "activity" => [Activity!Next]_(Activity!vars)
         /\ part = "notices" => [Notices!Next]_(Notices!vars)
<1>1. CASE Next
  BY <1>1, SameAccountsNext DEF Next
<1>2. CASE UNCHANGED recordVars
  BY <1>2 DEF recordVars, accountVars, enrolmentVars, allocationVars, mailingVars,
     activityVars, noticeVars, AccountsProofs!vars, Enrolment!vars, Allocations!vars,
     Mailing!vars, Mailing!world, Activity!vars, Notices!vars
<1> QED BY <1>1, <1>2

(* The first state of the part has its invariant. *)
LEMMA RecordsInit == Init => RecordsOK
<1> SUFFICES ASSUME Init PROVE RecordsOK
  OBVIOUS
<1>1. ASSUME part = "accounts" PROVE AccountsOK
  <2>1. AccountsProofs!ConstantsOK /\ AccountsProofs!Init
    BY <1>1, PartsOK, SameAccountsInit DEF Init
  <2> QED BY <2>1, AccountsProofs!TypesInit, AccountsProofs!AgesInit, AccountsProofs!IdsInit
        DEF AccountsOK
<1>2. ASSUME part = "enrolment" PROVE EnrolmentOK
  BY <1>2, PartsOK, EnrolmentInit DEF Init
<1>3. ASSUME part = "allocations" PROVE RowsOK
  BY <1>3, RowsInit DEF Init
<1>4. ASSUME part = "mailing" PROVE MailOK
  BY <1>4, MailInit DEF Init
<1>5. ASSUME part = "activity" PROVE ActivityOK
  BY <1>5, PartsOK, ActivityInit DEF Init
<1>6. ASSUME part = "notices" PROVE SubscribersOK
  BY <1>6 DEF Init, Notices!Init, SubscribersOK
<1> QED BY <1>1, <1>2, <1>3, <1>4, <1>5, <1>6 DEF RecordsOK

(* Every step keeps the invariant of the part. *)
LEMMA RecordsStep == RecordsOK /\ [Next]_recordVars => RecordsOK'
<1> SUFFICES ASSUME RecordsOK, [Next]_recordVars PROVE RecordsOK'
  OBVIOUS
<1>1. ASSUME part = "accounts" PROVE AccountsOK'
  <2>1. /\ AccountsProofs!ConstantsOK /\ AccountsOK
        /\ [AccountsProofs!Next]_(AccountsProofs!vars)
    BY <1>1, PartsOK, SameAccountsInit, PartSteps DEF RecordsOK
  <2>2. AccountsProofs!TypesOK'
    BY <2>1, AccountsProofs!TypesStep DEF AccountsOK
  <2>3. AccountsProofs!AgesOK' /\ AccountsProofs!IdsOK'
    BY <2>1, <2>2, AccountsProofs!AgesStep, AccountsProofs!IdsStep DEF AccountsOK
  <2> QED BY <2>2, <2>3 DEF AccountsOK
<1>2. ASSUME part = "enrolment" PROVE EnrolmentOK'
  BY <1>2, PartsOK, PartSteps, EnrolmentStep DEF RecordsOK
<1>3. ASSUME part = "allocations" PROVE RowsOK'
  BY <1>3, PartSteps, RowsStep DEF RecordsOK
<1>4. ASSUME part = "mailing" PROVE MailOK'
  BY <1>4, PartsOK, PartSteps, MailStep DEF RecordsOK
<1>5. ASSUME part = "activity" PROVE ActivityOK'
  BY <1>5, PartsOK, PartSteps, ActivityStep DEF RecordsOK
<1>6. ASSUME part = "notices" PROVE SubscribersOK'
  BY <1>6, PartSteps, SubscribersStep DEF RecordsOK
<1> QED BY <1>1, <1>2, <1>3, <1>4, <1>5, <1>6, PartSteps DEF RecordsOK

(* Whatever the part, its invariant holds. *)
THEOREM RecordsCorrect == Spec => []RecordsOK
BY RecordsInit, RecordsStep, PTL DEF Spec

--------------------------------------------------------------------------------
(* The cache lets nobody in with an account that ceased to be his longer ago than the
   time of an entry and one answer of the database. *)
THEOREM CachedAccountsAgeOut == Spec => []BoundedStaleness
<1>1. RecordsOK => BoundedStaleness
  BY PartsOK, SameAccountsInit, SameAccountsProperties, AccountsProofs!AgesBounded
     DEF RecordsOK, AccountsOK, BoundedStaleness
<1> QED BY <1>1, RecordsCorrect, PTL

(* Settings are those of accounts, and only an account that was inserted again lacks
   them. *)
THEOREM SettingsStayComplete == Spec => []SettingsComplete
<1>1. RecordsOK => SettingsComplete
  BY SameAccountsProperties
     DEF RecordsOK, AccountsOK, AccountsProofs!IdsOK, SettingsComplete
<1> QED BY <1>1, RecordsCorrect, PTL

(* No step exchanges the account of a name for another. *)
THEOREM AccountsAreKept == Spec => OneAccount
<1>1. RecordsOK /\ [Next]_recordVars => (part = "accounts" => Accounts!KeepsId)
  BY SameAccountsProperties, PartSteps, AccountsProofs!AccountsKept DEF RecordsOK, AccountsOK
<1> QED BY <1>1, RecordsCorrect, PTL DEF Spec, OneAccount

(* Participations change only for requests that were entitled to it at some moment. *)
THEOREM ParticipationsEntitled == Spec => ChangesEntitled
<1>1. RecordsOK /\ [Next]_recordVars => (part = "enrolment" => Enrolment!EntitledStep)
  BY PartSteps, EntitledSteps DEF RecordsOK
<1> QED BY <1>1, RecordsCorrect, PTL DEF Spec, ChangesEntitled

(* Participants have an account and a course. *)
THEOREM ParticipantsHaveCourse == Spec => []ParticipantsBelong
<1>1. RecordsOK => ParticipantsBelong
  BY DEF RecordsOK, EnrolmentOK, ParticipantsBelong
<1> QED BY <1>1, RecordsCorrect, PTL

(* CourseJoined is announced of nobody who was a participant all the time until the save
   of the request, for any number of users and of requests that add, change and remove
   them, and although a failed save is swallowed. *)
THEOREM JoinersAnnounced == Spec => []OnlyJoinersAnnounced
<1>1. RecordsOK => OnlyJoinersAnnounced
  BY DEF RecordsOK, EnrolmentOK, AbsentOK, Enrolment!OnlyJoinersAnnounced, OnlyJoinersAnnounced
<1> QED BY <1>1, RecordsCorrect, PTL

(* The unique constraints on the allocations are all that splits the work among the
   evaluators, however long ago a request has looked for an allocation. *)
THEOREM WorkIsSplit == Spec => []WorkSplit
<1>1. RecordsOK => WorkSplit
  BY RowsSplitWork DEF RecordsOK, WorkSplit
<1> QED BY <1>1, RecordsCorrect, PTL

(* Mail goes only to whom the event has concerned and who wanted it, at some moment
   since the event, in the language of such a moment. *)
THEOREM MailsAreWanted == Spec => []OnlyWantedMails
<1>1. RecordsOK => OnlyWantedMails
  BY DEF RecordsOK, MailOK, OnlyWantedMails
<1> QED BY <1>1, RecordsCorrect, PTL

(* Whoever was concerned and wanted mail all the time gets one, for any number of
   users and of changes while the handler works. *)
THEOREM ConcernedAreTold == Spec => []EverybodyTold
<1>1. RecordsOK => EverybodyTold
  BY DEF RecordsOK, MailOK, EverybodyTold
<1> QED BY <1>1, RecordsCorrect, PTL

(* A handler throws only after what its event is about was missing. *)
THEOREM HandlersSurvive == Spec => []EndsOnlyWhenMissing
<1>1. RecordsOK => EndsOnlyWhenMissing
  BY DEF RecordsOK, MailOK, EndsOnlyWhenMissing
<1> QED BY <1>1, RecordsCorrect, PTL

(* A handler leaves an activity of the day of the visit or of a later one, for any
   calendar and any number of handlers at a time. *)
THEOREM VisitsAreRecorded == Spec => []VisitRecorded
<1>1. RecordsOK => VisitRecorded
  BY VisitsRecorded DEF RecordsOK, VisitRecorded
<1> QED BY <1>1, RecordsCorrect, PTL

(* No handler adds an activity on a day that had one when the visit began. *)
THEOREM DaysCountOnce == Spec => StoredOnce
<1>1. RecordsOK /\ [Next]_recordVars => (part = "activity" => Activity!AddsToNewDay)
  BY PartSteps, ActivitiesAdded DEF RecordsOK
<1> QED BY <1>1, RecordsCorrect, PTL DEF Spec, StoredOnce

(* An event is posted once to each of its subscribers, though requests add, change and
   remove them. *)
THEOREM SubscribersNotifiedOnce == Spec => NotifiedOnce
<1>1. RecordsOK /\ [Next]_recordVars => (part = "notices" => Notices!PostsOnce)
  BY PartSteps, PostedOnce DEF RecordsOK
<1> QED BY <1>1, RecordsCorrect, PTL DEF Spec, NotifiedOnce
==================================================================================
