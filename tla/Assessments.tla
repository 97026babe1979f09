------------------------------ MODULE Assessments ------------------------------
(****************************************************************************)
(* The assessments of one assignment (assessment/services/                  *)
(* assessment.service.ts, assessment/repositories/                          *)
(* assessment.repository.ts): the points of students or whole groups, their *)
(* partial assessments, and the log of scores that changed after the        *)
(* assignment was released (assessment/events/).                            *)
(*                                                                          *)
(* Staff creates, updates, converts and deletes assessments.  An update     *)
(* reads the assessment twice before it saves the whole row, and once more  *)
(* afterwards to decide whether the score has changed; a conversion reads   *)
(* the group assessment and later replaces it by one for each student.      *)
(* Nothing is locked meanwhile.  A transaction, and a single save, is one   *)
(* step.                                                                    *)
(*                                                                          *)
(* Of a row the score is kept; creator, draft flag and comment travel with  *)
(* it and are written back in the same way.                                 *)
(****************************************************************************)
EXTENDS Naturals, FiniteSets

CONSTANTS
  Users,          \* students
  Ids,            \* uuids of assessments
  PartialIds,     \* serial ids of partial assessments
  Keys,           \* keys of partial assessments
  KeySets,        \* the sets of keys that an AssessmentCreateDto may list
  Updates,        \* the AssessmentUpdateDtos that staff may send
  Scores,         \* points that staff may give
  Achievable,     \* points and bonus points of the assignment
  Requests,       \* slots for requests that are being served at the same time
  BulkSize,       \* bound: assessments created by one request
  Exits,          \* bound: whether the process may end
  None            \* null or undefined

VARIABLES
  released,       \* the assignment is EVALUATED
  users,          \* table users: the students that exist
  score,          \* table assessments: achievedPoints, None when there is no row
  relations,      \* table assessment_user_relations: pairs <<user, assessment>>
  partials,       \* table partial_assessment: the partials of each assessment
  req,            \* what each request is doing
  pending,        \* inserts into assessment_event that are under way
  told,           \* what students and the log tell of each score (for properties)
  excused         \* assessments whose log may be incomplete: two updates overlapped,
                  \* or the process ended meanwhile (for properties)

tables == <<released, users, score, relations, partials>>
vars == <<tables, req, pending, told, excused>>

--------------------------------------------------------------------------------

Partial == [id : PartialIds, key : Keys]

(* AssessmentUpdateDto: None for what the dto leaves out. *)
UpdateDto == [score : Scores \cup {None}, keys : {None} \cup SUBSET Keys]

Event == [of : Ids, new : Scores]

(* The awaits at which a request can be suspended: an update is about to load the
   row, to save it, or to read it again; a conversion is about to replace the
   assessment; a partial assessment is about to be saved. *)
Request ==
  [at : {"idle"}]
    \cup [at : {"load"}, of : Ids, dto : UpdateDto, original : Scores]
    \cup [at : {"save"}, of : Ids, dto : UpdateDto, original : Scores,
          row : Scores, parts : SUBSET Partial]
    \cup [at : {"reread"}, of : Ids, original : Scores]
    \cup [at : {"replace"}, of : Ids, row : Scores, keys : SUBSET Keys,
          seats : SUBSET Users]
    \cup [at : {"put"}, of : Ids, key : Keys, found : PartialIds \cup {None}]

Idle == [at |-> "idle"]

ASSUME ConstantsOK ==
  /\ Scores \subseteq Nat
  /\ Achievable \in Nat
  /\ KeySets \subseteq SUBSET Keys
  /\ Updates \subseteq UpdateDto
  /\ BulkSize \in Nat
  /\ Exits \in BOOLEAN
  /\ None \notin Scores /\ (\A K \in SUBSET Keys : K # None) /\ None \notin PartialIds

--------------------------------------------------------------------------------
(* Queries *)

Existing == {a \in Ids : score[a] # None}

SeatsOf(a) == {u \in Users : <<u, a>> \in relations}

Assessed(u) == \E e \in relations : e[1] = u

KeysOf(parts) == {p.key : p \in parts}

(* Ids are never given twice; one that nothing refers to any more is as good as a
   new one. *)
FreshIds ==
  {a \in Ids \ Existing : /\ \A r \in Requests : req[r].at # "idle" => req[r].of # a
                          /\ \A e \in pending : e.of # a}

HeldParts(q) ==
  CASE q.at = "save" -> {p.id : p \in q.parts}
    [] q.at = "put"  -> {q.found}
    [] OTHER         -> {}

FreshParts ==
  PartialIds \ (UNION {{p.id : p \in partials[a]} : a \in Ids}
                  \cup UNION {HeldParts(req[r]) : r \in Requests})

(* The rows of partial assessments inserted with these keys. *)
NewParts(keys) ==
  {{[id |-> f[k], key |-> k] : k \in keys} :
     f \in {g \in [keys -> FreshParts] : \A k, l \in keys : g[k] = g[l] => k = l}}

(* An update of a is under way, or the log entry of one. *)
Updating(a) ==
  \/ \E r \in Requests : req[r].at \in {"load", "save", "reread"} /\ req[r].of = a
  \/ \E e \in pending : e.of = a

(* Students see scores while the assignment is EVALUATED. *)
Tell(scores) == told' = IF released THEN scores ELSE [a \in Ids |-> None]

Goto(r, next) == req' = [req EXCEPT ![r] = next]

--------------------------------------------------------------------------------
(* Creating assessments *)

(* Inserting the assessments f: for each new id its students, score and keys. *)
Insert(f, rel, parts) ==
  /\ score' = [a \in Ids |-> IF a \in DOMAIN f THEN f[a].score ELSE score[a]]
  /\ Tell([a \in Ids |-> IF a \in DOMAIN f THEN f[a].score ELSE told[a]])
  /\ relations' = rel \cup {e \in Users \X Ids : /\ e[2] \in DOMAIN f
                                                 /\ e[1] \in f[e[2]].users}
  /\ partials' = [a \in Ids |-> IF a \in DOMAIN f THEN parts[a] ELSE partials[a]]

New == [users : SUBSET Users, score : Scores, keys : KeySets]

(* Mutant of Unassessed: the index IDX_AssignmentId_UserId is missing. *)
Unassessed_NoIndex(f) == \A a \in DOMAIN f : f[a].users \subseteq users

(* What the foreign key and the unique index on (assignment, user) demand. *)
Unassessed(f) ==
  /\ \A a \in DOMAIN f : f[a].users \subseteq users
  /\ \A a \in DOMAIN f : \A u \in f[a].users : ~Assessed(u)
  /\ \A a, b \in DOMAIN f : a # b => f[a].users \cap f[b].users = {}

(* validateAssessment *)
Valid(new) == new.score <= Achievable

(* createAssessment: for one student, or for the registered members of a group,
   whoever they are; without students when all were unregistered. *)
CreateAssessment ==
  \E a \in FreshIds, new \in New :
    LET f == [b \in {a} |-> new]
    IN  /\ Valid(new)
        /\ Unassessed(f)
        /\ \E parts \in NewParts(new.keys) : Insert(f, relations, [b \in {a} |-> parts])
        /\ UNCHANGED <<released, users, req, pending, excused>>

(* createAssessments, of which none or all are inserted.  Points are not
   validated.  (The dtos without partials.) *)
CreateAssessments ==
  \E A \in SUBSET FreshIds :
    \E f \in [A -> {new \in New : new.keys = {}}] :
      /\ A # {} /\ Cardinality(A) <= BulkSize
      /\ Unassessed(f)
      /\ Insert(f, relations, [a \in A |-> {}])
      /\ UNCHANGED <<released, users, req, pending, excused>>

--------------------------------------------------------------------------------
(* updateAssessment *)

(* AssessmentGuard has found the assessment; the service reads the original. *)
RequestUpdate(r, a, dto) ==
  /\ req[r] = Idle /\ a \in Existing
  /\ Goto(r, [at |-> "load", of |-> a, dto |-> dto, original |-> score[a]])
  /\ excused' = IF Updating(a) THEN excused \cup {a} ELSE excused
  /\ UNCHANGED <<tables, pending, told>>

(* Mutant of LoadRow: the points are set although the dto leaves them out. *)
LoadRow_AlwaysSet(r) ==
  LET q == req[r]
  IN  /\ q.at = "load"
      /\ IF q.of \in Existing
         THEN Goto(r, [at |-> "save", of |-> q.of, dto |-> q.dto,
                       original |-> q.original, row |-> q.dto.score,
                       parts |-> partials[q.of]])
         ELSE Goto(r, Idle)
      /\ UNCHANGED <<tables, pending, told, excused>>

(* findOneOrFail, and the fields that the dto contains. *)
LoadRow(r) ==
  LET q == req[r]
  IN  /\ q.at = "load"
      /\ IF q.of \in Existing
         THEN Goto(r, [at |-> "save", of |-> q.of, dto |-> q.dto,
                       original |-> q.original,
                       row |-> IF q.dto.score = None THEN score[q.of] ELSE q.dto.score,
                       parts |-> partials[q.of]])
         ELSE Goto(r, Idle)
      /\ UNCHANGED <<tables, pending, told, excused>>

(* Mutant of Saveable: partials that were added meanwhile are removed. *)
Saveable_DropsNew(q) == TRUE

(* save compares the loaded entity with the database: a partial that was added
   meanwhile would be detached from its assessment, which the not-null column
   forbids.  One that was removed meanwhile is inserted again. *)
Saveable(q) == partials[q.of] \subseteq q.parts

(* The transaction: the row, and the partials if the dto lists them. *)
SaveUpdate(r) ==
  LET q == req[r]
  IN  /\ q.at = "save"
      /\ Saveable(q)
      /\ score' = [score EXCEPT ![q.of] = q.row]
      /\ Tell(IF q.of \in Existing THEN told ELSE [told EXCEPT ![q.of] = q.row])
      /\ \E parts \in IF q.dto.keys = None THEN {q.parts} ELSE NewParts(q.dto.keys) :
           partials' = [partials EXCEPT ![q.of] = parts]
      /\ Goto(r, [at |-> "reread", of |-> q.of, original |-> q.original])
      /\ UNCHANGED <<released, users, relations, pending, excused>>

(* The transaction is rolled back, the request fails. *)
FailUpdate(r) ==
  /\ req[r].at = "save"
  /\ ~Saveable(req[r])
  /\ Goto(r, Idle)
  /\ UNCHANGED <<tables, pending, told, excused>>

(* Mutant of scoreChangedAfterRelease: an improvement is not a change. *)
scoreChangedAfterRelease_Worse(original, updated) ==
  released /\ original > updated

scoreChangedAfterRelease(original, updated) ==
  released /\ original # updated

(* The assessment is read again, with its assignment; if the score has changed,
   AssessmentScoreChanged is published, whose handler starts an insert and does
   not wait for it. *)
Reread(r) ==
  LET q == req[r]
  IN  /\ q.at = "reread"
      /\ IF q.of \in Existing /\ scoreChangedAfterRelease(q.original, score[q.of])
         THEN pending' = pending \cup {[of |-> q.of, new |-> score[q.of]]}
         ELSE UNCHANGED pending
      /\ Goto(r, Idle)
      /\ UNCHANGED <<tables, told, excused>>

(* The process ends and is started again: requests and inserts are gone. *)
Exit ==
  /\ req' = [r \in Requests |-> Idle]
  /\ pending' = {}
  /\ excused' = excused \cup {a \in Ids : Updating(a)}
  /\ UNCHANGED <<tables, told>>

(* AssessmentScoreChangedHandler.  If the assessment is gone, the foreign key makes
   the insert fail; nobody handles the rejection, which ends the process. *)
RecordEvent(e) ==
  /\ e \in pending
  /\ IF e.of \in Existing
     THEN /\ pending' = pending \ {e}
          /\ Tell([told EXCEPT ![e.of] = e.new])
          /\ UNCHANGED <<tables, req, excused>>
     ELSE Exit

--------------------------------------------------------------------------------
(* setPartialAssessment *)

(* The partial with the key is looked up.  A dto without a key gets a random one,
   which is like a key that is not there. *)
RequestPartial(r, a, k) ==
  /\ req[r] = Idle /\ a \in Existing
  /\ LET found == {p.id : p \in {q \in partials[a] : q.key = k}}
     IN  Goto(r, [at |-> "put", of |-> a, key |-> k,
                  found |-> IF found = {} THEN None ELSE CHOOSE i \in found : TRUE])
  /\ UNCHANGED <<tables, pending, told, excused>>

(* The partial that was found is updated, or inserted again with its id when it is
   gone; otherwise a new one is inserted.  The foreign key or the index on
   (assessment, key) may make the insert fail. *)
SavePartial(r) ==
  LET q == req[r]
  IN  /\ q.at = "put"
      /\ IF q.of \in Existing /\ q.key \notin KeysOf(partials[q.of])
         THEN \E i \in IF q.found = None THEN FreshParts ELSE {q.found} :
                partials' = [partials EXCEPT ![q.of] = @ \cup {[id |-> i, key |-> q.key]}]
         ELSE UNCHANGED partials
      /\ Goto(r, Idle)
      /\ UNCHANGED <<released, users, score, relations, pending, told, excused>>

--------------------------------------------------------------------------------
(* Removing and converting assessments *)

(* The row and what cascades: relations, partials, events. *)
Without(a) == {e \in relations : e[2] # a}

DeleteAssessment(a) ==
  /\ a \in Existing
  /\ score' = [score EXCEPT ![a] = None]
  /\ relations' = Without(a)
  /\ partials' = [partials EXCEPT ![a] = {}]
  /\ Tell([told EXCEPT ![a] = None])
  /\ UNCHANGED <<released, users, req, pending, excused>>

(* convertGroupToIndividualAssessment reads the assessment. *)
RequestConvert(r, a) ==
  /\ req[r] = Idle /\ a \in Existing
  /\ Goto(r, [at |-> "replace", of |-> a, row |-> score[a],
              keys |-> KeysOf(partials[a]), seats |-> SeatsOf(a)])
  /\ UNCHANGED <<tables, pending, told, excused>>

(* The copies that one conversion inserts, one for each student. *)
Copies(q) ==
  {f \in UNION {[A -> [users : {{u} : u \in q.seats}, score : {q.row}, keys : {q.keys}]] :
                  A \in SUBSET FreshIds} :
     /\ UNION {f[a].users : a \in DOMAIN f} = q.seats
     /\ \A a, b \in DOMAIN f : a # b => f[a].users # f[b].users}

CopiedParts(f) ==
  {g \in [DOMAIN f -> UNION {NewParts(f[a].keys) : a \in DOMAIN f}] :
     \A a, b \in DOMAIN f : a # b => {p.id : p \in g[a]} \cap {p.id : p \in g[b]} = {}}

(* An assessment without students is not converted; the foreign key and the unique
   index see the relations without those of the converted assessment. *)
Convertible(q) ==
  /\ q.seats # {} /\ q.seats \subseteq users
  /\ \A e \in Without(q.of) : e[1] \notin q.seats

(* The transaction removes the assessment, which may be gone already, and inserts
   the copies. *)
Replace(r) ==
  LET q == req[r]
  IN  /\ q.at = "replace"
      /\ Convertible(q)
      /\ \E f \in Copies(q) : \E parts \in CopiedParts(f) :
           /\ score' = [a \in Ids |-> IF a \in DOMAIN f THEN f[a].score
                                      ELSE IF a = q.of THEN None ELSE score[a]]
           /\ Tell([a \in Ids |-> IF a \in DOMAIN f THEN f[a].score
                                  ELSE IF a = q.of THEN None ELSE told[a]])
           /\ relations' = Without(q.of)
                             \cup {e \in Users \X Ids : /\ e[2] \in DOMAIN f
                                                        /\ e[1] \in f[e[2]].users}
           /\ partials' = [a \in Ids |-> IF a \in DOMAIN f THEN parts[a]
                                         ELSE IF a = q.of THEN {} ELSE partials[a]]
      /\ Goto(r, Idle)
      /\ UNCHANGED <<released, users, pending, excused>>

(* Mutant of FailReplace: the removal is not rolled back. *)
FailReplace_Removes(r) ==
  LET q == req[r]
  IN  /\ q.at = "replace"
      /\ ~Convertible(q)
      /\ score' = [score EXCEPT ![q.of] = None]
      /\ relations' = Without(q.of)
      /\ partials' = [partials EXCEPT ![q.of] = {}]
      /\ Goto(r, Idle)
      /\ UNCHANGED <<released, users, pending, told, excused>>

(* The transaction is rolled back. *)
FailReplace(r) ==
  /\ req[r].at = "replace"
  /\ ~Convertible(req[r])
  /\ Goto(r, Idle)
  /\ UNCHANGED <<tables, pending, told, excused>>

--------------------------------------------------------------------------------
(* What happens around the assessments *)

(* Staff sets the assignment to EVALUATED: students see their scores. *)
Release ==
  /\ ~released
  /\ released' = TRUE
  /\ told' = score
  /\ excused' = {a \in excused : Updating(a)}
  /\ UNCHANGED <<users, score, relations, partials, req, pending>>

Withdraw ==
  /\ released
  /\ released' = FALSE
  /\ told' = [a \in Ids |-> None]
  /\ excused' = {a \in excused : Updating(a)}
  /\ UNCHANGED <<users, score, relations, partials, req, pending>>

(* The user's relations cascade, the assessment stays. *)
DeleteUser(u) ==
  /\ u \in users
  /\ users' = users \ {u}
  /\ relations' = {e \in relations : e[1] # u}
  /\ UNCHANGED <<released, score, partials, req, pending, told, excused>>

--------------------------------------------------------------------------------

Init ==
  /\ released \in BOOLEAN
  /\ users = Users
  /\ score = [a \in Ids |-> None]
  /\ relations = {}
  /\ partials = [a \in Ids |-> {}]
  /\ req = [r \in Requests |-> Idle]
  /\ pending = {}
  /\ told = [a \in Ids |-> None]
  /\ excused = {}

Arrive(r) ==
  \E a \in Ids :
    \/ \E dto \in Updates : RequestUpdate(r, a, dto)
    \/ \E k \in Keys : RequestPartial(r, a, k)
    \/ RequestConvert(r, a)

Proceed(r) ==
  \/ LoadRow(r) \/ SaveUpdate(r) \/ FailUpdate(r) \/ Reread(r)
  \/ SavePartial(r)
  \/ Replace(r) \/ FailReplace(r)

Next ==
  \/ CreateAssessment \/ CreateAssessments
  \/ \E r \in Requests : Arrive(r) \/ Proceed(r)
  \/ \E e \in pending : RecordEvent(e)
  \/ \E a \in Ids : DeleteAssessment(a)
  \/ Release \/ Withdraw
  \/ \E u \in Users : DeleteUser(u)
  \/ Exits /\ Exit

Spec == Init /\ [][Next]_vars

--------------------------------------------------------------------------------
(* Properties *)

(* Every variable has its type. *)
TypeOK ==
  /\ released \in BOOLEAN
  /\ users \subseteq Users
  /\ score \in [Ids -> Scores \cup {None}]
  /\ relations \subseteq Users \X Ids
  /\ partials \in [Ids -> SUBSET Partial]
  /\ req \in [Requests -> Request]
  /\ pending \subseteq Event
  /\ told \in [Ids -> Scores \cup {None}]
  /\ excused \subseteq Ids

(* However creations, stale updates, conversions and deletions interleave, a student
   has at most one assessment for the assignment, nothing refers to an assessment
   or a user that is gone, and a key names one partial of an assessment. *)
GradeIntegrity ==
  /\ \A e \in relations : e[1] \in users /\ e[2] \in Existing
  /\ \A e, f \in relations : e[1] = f[1] => e = f
  /\ \A a \in Ids : partials[a] # {} => a \in Existing
  /\ \A a \in Ids : \A p, q \in partials[a] : p.key = q.key => p = q

(* A student who has an assessment keeps one unless staff deletes it or the user:
   no conversion, update or crash takes it away, although a conversion deletes the
   assessment it replaces and updates may save rows that are gone. *)
AssessedStay ==
  [][\A u \in Users : Assessed(u) /\ ~Assessed(u)' =>
       \/ u \notin users'
       \/ \E a \in Ids : <<u, a>> \in relations /\ DeleteAssessment(a)]_vars

(* A partial assessment is lost only with its assessment, or when an update lists
   all partials: an update that leaves them out does not undo a partial that was
   added between its read and its save. *)
PartialsStay ==
  [][\A a \in Ids : \A k \in KeysOf(partials[a]) \ KeysOf(partials'[a]) :
       \/ score'[a] = None
       \/ \E r \in Requests : /\ req[r].at = "save" /\ req[r].of = a
                              /\ req[r].dto.keys # None /\ SaveUpdate(r)]_vars

(* After the release, the score a student was shown and the log of changes lead to
   the present score, once the updates and log entries under way are done: unless
   two updates of the assessment overlapped, or the process ended in one. *)
ScoreTraced ==
  \A a \in Existing : released /\ ~Updating(a) /\ a \notin excused => told[a] = score[a]

(* "Triggers AssessmentScoreChangedEvent, if the score changed"
   (assessment.service.ts:151): after the release, and while the process runs, the
   present score is the one that students were shown or that the log ends with.
   (Not so when an update that does not set the points saves the row it has read
   before another update of the points.) *)
ScoreChangesLogged ==
  \A a \in Existing : released /\ ~Updating(a) => told[a] = score[a]
================================================================================
