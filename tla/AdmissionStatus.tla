----------------------------- MODULE AdmissionStatus ----------------------------
(****************************************************************************)
(* Who is admitted to the exam (admission-status/): the rules of a course,  *)
(* applied to the points of its students, and the overview of these points. *)
(*                                                                          *)
(* A request reads the students with their assessments and the assignments  *)
(* by separate queries that run side by side; staff may release assignments *)
(* or change points between them.  The assignments' states come with both.  *)
(*                                                                          *)
(* Percentages are doubles: (a / b) * 100 may come out beside an integer    *)
(* that it should be.                                                       *)
(****************************************************************************)
EXTENDS Integers, FiniteSets, Functions

CONSTANTS
  Students,       \* participants of the course with the role STUDENT
  Assignments,    \* the assignments of the course
  TypeOf,         \* the type of each assignment
  Plans,          \* what can be achieved in each assignment: functions, of which the
                  \* course has one
  Scores,         \* achieved points that staff may enter, or null
  Previous,       \* students with admission from the previous semester
  RuleSets,       \* sets of rules that the course may have
  Low, High,      \* pairs <<a, b>> for which (a / b) * 100 is an integer and its
                  \* double is below or above it
  Absent,         \* there is no assessment
  None            \* undefined or null

VARIABLES
  evaluated,      \* the assignments that are EVALUATED
  score,          \* achieved points in the assessments, or Absent
  points,         \* the points that can be achieved in each assignment
  rules,          \* the rules of the course
  req,            \* the request that is being served
  moments,        \* who would have fulfilled the rules at each moment of the request
                  \* (for properties)
  changes         \* what has changed during the request (for properties)

vars == <<evaluated, score, points, rules, req, moments, changes>>

--------------------------------------------------------------------------------

Roundings == {"NONE", "DECIMALS", "DOWN_NEAREST_INTEGER", "UP_NEAREST_INTEGER"}

Rule ==
  [kind : {"INDIVIDUAL_PERCENT_WITH_ALLOWED_FAILURES", "REQUIRED_PERCENT_OVERALL"},
   type : Range(TypeOf), requiredPercent : 0..100, rounding : Roundings,
   decimals : {None} \cup Nat, allowedFailures : Nat]

Score == {Absent, None} \cup Scores

ASSUME ConstantsOK ==
  /\ TypeOf \in [Assignments -> Range(TypeOf)]
  /\ IsFiniteSet(Assignments)
  /\ Plans \subseteq [Assignments -> Nat]
  /\ Previous \subseteq Students
  /\ Scores \subseteq Nat /\ Absent \notin Scores
  /\ \A R \in RuleSets : R \subseteq Rule
  /\ \A R \in RuleSets : \A rule \in R :
       rule.decimals # None => 10 ^ rule.decimals \in Nat \ {0}
  /\ Low \cup High \subseteq Nat \X (Nat \ {0})

--------------------------------------------------------------------------------
(* Percentages (utils/math.ts): fractions of 100, with off telling whether the double
   is below, at or above an integer; NaN for 0 / 0 and Infinity for a / 0. *)

Number(num, den, off) == [is |-> "number", num |-> num, den |-> den, off |-> off]

NaN == [is |-> "NaN"]

Infinity == [is |-> "Infinity"]

(* Mutant of Percent: numerator and denominator are swapped. *)
Percent_Swapped(a, b) == IF a = 0 THEN NaN ELSE Number(100 * b, a, 0)

Percent(a, b) ==
  IF b > 0
  THEN Number(100 * a, b, CASE <<a, b>> \in Low -> -1
                            [] <<a, b>> \in High -> 1
                            [] OTHER -> 0)
  ELSE IF a = 0 THEN NaN ELSE Infinity

IsInteger(v) == v.num % v.den = 0

floor(v) == v.num \div v.den - (IF IsInteger(v) /\ v.off < 0 THEN 1 ELSE 0)

ceil(v) == v.num \div v.den + (IF IsInteger(v) /\ v.off <= 0 THEN 0 ELSE 1)

(* Math.round: halves are rounded up. *)
roundTo(v, scale) ==
  LET twice == [num |-> 2 * v.num * scale + v.den, den |-> 2 * v.den, off |-> v.off]
  IN  floor(twice)

(* RoundingMethod.  Without decimals, Math.pow(10, undefined) is NaN. *)
round(v, rounding, decimals) ==
  IF rounding = "DECIMALS" /\ decimals = None THEN NaN
  ELSE IF v.is # "number" THEN v
  ELSE CASE rounding = "NONE" -> v
         [] rounding = "DECIMALS" -> Number(roundTo(v, 10 ^ decimals), 10 ^ decimals, 0)
         [] rounding = "DOWN_NEAREST_INTEGER" -> Number(floor(v), 1, 0)
         [] rounding = "UP_NEAREST_INTEGER" -> Number(ceil(v), 1, 0)

(* Comparisons with NaN are false. *)
Below(v, required) ==
  /\ v.is = "number"
  /\ \/ v.num < required * v.den
     \/ v.num = required * v.den /\ v.off < 0

AtLeast(v, required) ==
  \/ v.is = "Infinity"
  \/ v.is = "number" /\ ~Below(v, required)

--------------------------------------------------------------------------------
(* The rules (admission-status/rules/impl/).  known gives the points of one student,
   of those assignments that were EVALUATED when the assessments were read. *)

Relevant(rule, E) == {a \in E : TypeOf[a] = rule.type}

PointsIn(known, a) ==
  IF a \in DOMAIN known /\ known[a] \in Scores THEN known[a] ELSE 0

studentFailedAssignment(rule, known, a) ==
  Below(round(Percent(PointsIn(known, a), points[a]), rule.rounding, rule.decimals),
        rule.requiredPercent)

(* Mutant of countFailedAssignments: only assignments with an assessment. *)
countFailedAssignments_Assessed(rule, E, known) ==
  Cardinality({a \in Relevant(rule, E) \cap DOMAIN known :
                 studentFailedAssignment(rule, known, a)})

(* An assignment without an assessment is failed like one with zero points. *)
countFailedAssignments(rule, E, known) ==
  Cardinality({a \in Relevant(rule, E) : studentFailedAssignment(rule, known, a)})

checkIndividual(rule, E, known) ==
  countFailedAssignments(rule, E, known) <= rule.allowedFailures

(* The points that could be achieved are those of the assignments that were read,
   the achieved ones those of the assessments. *)
checkOverall(rule, E, known) ==
  LET overall  == SumFunctionOnSet(points, Relevant(rule, E))
      counted  == Relevant(rule, DOMAIN known)
      achieved == SumFunctionOnSet([a \in counted |-> PointsIn(known, a)], counted)
  IN  \/ overall = 0
      \/ AtLeast(round(Percent(achieved, overall), rule.rounding, rule.decimals),
                 rule.requiredPercent)

check(rule, E, known) ==
  IF rule.kind = "REQUIRED_PERCENT_OVERALL" THEN checkOverall(rule, E, known)
  ELSE checkIndividual(rule, E, known)

FulfilsAll(E, known) == \A rule \in rules : check(rule, E, known)

--------------------------------------------------------------------------------
(* Requests *)

(* getStudentsWithAssessments: the assessments come with the states of their
   assignments. *)
Assessments(s, sc, E) == [a \in {b \in E : sc[s][b] # Absent} |-> sc[s][a]]

AllAssessments(s) ==
  [a \in {b \in Assignments : score[s][b] # Absent} |-> score[s][a]]

FulfilNow(E, sc) == {s \in Students : FulfilsAll(E, Assessments(s, sc, E))}

Idle == [at |-> "idle"]

Kinds == {"status", "overview"}

(* getAdmissionStatusOfParticipants and getPointsOverview, of all or one student. *)
Request(kind) ==
  /\ req.at # "reading"
  /\ req' = [at |-> "reading", kind |-> kind, students |-> None, assignments |-> None]
  /\ moments' = {FulfilNow(evaluated, score)}
  /\ changes' = {}
  /\ UNCHANGED <<evaluated, score, points, rules>>

(* An overview takes all assessments, a status those of EVALUATED assignments. *)
ReadStudents ==
  /\ req.at = "reading" /\ req.students = None
  /\ req' = [req EXCEPT !.students =
               [s \in Students |-> IF req.kind = "overview" THEN AllAssessments(s)
                                   ELSE Assessments(s, score, evaluated)]]
  /\ UNCHANGED <<evaluated, score, points, rules, moments, changes>>

ReadAssignments ==
  /\ req.at = "reading" /\ req.assignments = None
  /\ req' = [req EXCEPT !.assignments = evaluated]
  /\ UNCHANGED <<evaluated, score, points, rules, moments, changes>>

AllRead == req.at = "reading" /\ req.students # None /\ req.assignments # None

(* A course without rules has no status. *)
AnswerStatus ==
  LET fulfil == {s \in Students : FulfilsAll(req.assignments, req.students[s])}
  IN  /\ AllRead /\ req.kind = "status"
      /\ req' = IF rules = {} THEN Idle
                ELSE [at |-> "status", fulfil |-> fulfil, admitted |-> fulfil \cup Previous]
      /\ UNCHANGED <<evaluated, score, points, rules, moments, changes>>

(* Mutant of Shown: the assignments are not filtered. *)
Shown_All(assignments, known) == known

Shown(assignments, known) == [a \in DOMAIN known \cap assignments |-> known[a]]

AnswerOverview ==
  /\ AllRead /\ req.kind = "overview"
  /\ req' = [at |-> "overview",
             results |-> [s \in Students |-> Shown(req.assignments, req.students[s])]]
  /\ UNCHANGED <<evaluated, score, points, rules, moments, changes>>

--------------------------------------------------------------------------------
(* What staff does meanwhile *)

Changed(what, E, sc) ==
  LET reading == req.at = "reading"
  IN  /\ evaluated' = E /\ score' = sc
      /\ changes' = IF reading THEN changes \cup {what} ELSE {}
      /\ moments' = IF reading THEN moments \cup {FulfilNow(E, sc)} ELSE {}
      /\ req' = IF reading THEN req ELSE Idle
      /\ UNCHANGED <<points, rules>>

(* An assignment becomes EVALUATED or is withdrawn. *)
Release(a) == a \notin evaluated /\ Changed("released", evaluated \cup {a}, score)

Withdraw(a) == a \in evaluated /\ Changed("withdrawn", evaluated \ {a}, score)

(* An assessment is created, updated or deleted. *)
Assess(s, a, p) ==
  /\ score[s][a] # p
  /\ Changed("score", evaluated, [score EXCEPT ![s][a] = p])

--------------------------------------------------------------------------------

Init ==
  /\ evaluated = {}
  /\ score = [s \in Students |-> [a \in Assignments |-> Absent]]
  /\ points \in Plans
  /\ rules \in RuleSets
  /\ req = Idle
  /\ moments = {} /\ changes = {}

Next ==
  \/ \E kind \in Kinds : Request(kind)
  \/ ReadStudents \/ ReadAssignments
  \/ AnswerStatus \/ AnswerOverview
  \/ \E a \in Assignments : Release(a) \/ Withdraw(a)
  \/ \E s \in Students, a \in Assignments, p \in Score : Assess(s, a, p)

Spec == Init /\ [][Next]_vars

--------------------------------------------------------------------------------
(* Properties *)

(* Exact arithmetic: the rounded percentage a / b is at least what is required.
   Rounding up, less than one percent may be missing, rounding to decimals half a
   unit of the last place. *)
Enough(rule, a, b) ==
  CASE rule.rounding \in {"NONE", "DOWN_NEAREST_INTEGER"} ->
         100 * a >= rule.requiredPercent * b
    [] rule.rounding = "UP_NEAREST_INTEGER" -> 100 * a > (rule.requiredPercent - 1) * b
    [] rule.rounding = "DECIMALS" ->
         200 * a * 10 ^ rule.decimals >= (2 * rule.requiredPercent * 10 ^ rule.decimals - 1) * b

SumOf(s, A) == SumFunctionOnSet([a \in A |-> PointsIn(score[s], a)], A)

(* Who fulfils a rule, said without rounding: in all EVALUATED assignments of its
   type but allowedFailures, or on the whole. *)
ShouldPass(rule, s) ==
  LET counted == {a \in evaluated : TypeOf[a] = rule.type /\ points[a] > 0}
  IN  IF rule.kind = "REQUIRED_PERCENT_OVERALL"
      THEN \/ counted = {}
           \/ Enough(rule, SumOf(s, {a \in evaluated : TypeOf[a] = rule.type}),
                     SumFunctionOnSet(points, counted))
      ELSE \E failed \in SUBSET counted :
             /\ Cardinality(failed) <= rule.allowedFailures
             /\ \A a \in counted \ failed : Enough(rule, PointsIn(score[s], a), points[a])

(* The doubles involved are where they should be, and DECIMALS has decimals. *)
Regular(rule, s) ==
  LET counted == {a \in evaluated : TypeOf[a] = rule.type}
      off     == Low \cup High
  IN  /\ rule.rounding = "DECIMALS" => rule.decimals # None
      /\ <<SumOf(s, counted), SumFunctionOnSet(points, counted)>> \notin off
      /\ \A a \in counted : <<PointsIn(score[s], a), points[a]>> \notin off

(* A request during which nothing changes, and whose percentages are not among those
   that doubles miss, finds exactly the students who fulfil the rules. *)
StatusExact ==
  req.at = "status" /\ changes = {} =>
    \A s \in Students :
      (\A rule \in rules : Regular(rule, s)) =>
        (s \in req.fulfil <=> \A rule \in rules : ShouldPass(rule, s))

(* More points never cost a student the admission, whatever doubles and the rounding
   do. *)
MorePointsNeverHurt ==
  [][\A s \in Students :
       /\ evaluated' = evaluated
       /\ \A a \in Assignments : PointsIn(score'[s], a) >= PointsIn(score[s], a)
       /\ s \in FulfilNow(evaluated, score)
       => s \in FulfilNow(evaluated', score')]_vars

Individual(R) ==
  \A rule \in R : rule.kind = "INDIVIDUAL_PERCENT_WITH_ALLOWED_FAILURES"

(* A request that reads assessments and assignments at different moments may err, but
   as long as no points change meanwhile, rules on single assignments are not found
   fulfilled by anyone who did not fulfil them at some moment of the request.  (For
   rules on the whole the points of an assignment may count although those that could
   be achieved in it do not.) *)
NotAdmittedByChance ==
  req.at = "status" /\ "score" \notin changes
    /\ Individual(rules) =>
      \A s \in req.fulfil : \E now \in moments : s \in now

(* An overview shows points only of assignments that were EVALUATED when it read
   them: it never gives away points before the release. *)
NoPreview ==
  req.at = "overview" /\ "withdrawn" \notin changes =>
    \A s \in Students : DOMAIN req.results[s] \subseteq evaluated

================================================================================
