------------------------------- MODULE Allocations -------------------------------
(****************************************************************************)
(* Who evaluates whose solution: AssessmentAllocationService and -Repository *)
(* and the two queries that give an evaluator his work.                     *)
(*                                                                          *)
(* A target is a group or a user; allocations without a target are left     *)
(* out, and so is removeAllocation: it calls delete with the id of a        *)
(* criteria object that never has one, which always fails.  What other      *)
(* parts keep in the tables that the queries join is a parameter.           *)
(****************************************************************************)
EXTENDS Naturals, FiniteSets

CONSTANTS
  Groups, Students, Evaluators,
  Old, New,       \* an assignment, and one that may take over its allocations
  Requests,       \* requests that may be served at the same time
  Joined,         \* what the tables that the queries join may hold:
                  \* [registered, populated, enrolled, reviewed], see below
  None            \* undefined

VARIABLES
  rows,           \* the allocations: [id, assignment, target, evaluator]
  present,        \* the groups, users and assignments that have a row
  req             \* the requests

vars == <<rows, present, req>>

--------------------------------------------------------------------------------

Assignments == {Old, New}

Targets == Groups \cup Students

Idle == [at |-> "idle"]

Move(r, state) == req' = [req EXCEPT ![r] = state]

(* An id that no row of the target has and no request: the assignment and the target of
   an allocation never change, so that ids of different targets need not differ. *)
FreshId(assignment, t) ==
  LET used == {a.id : a \in {b \in rows : b.assignment = assignment /\ b.target = t}} \cup
              {req[r].allocation.id : r \in {q \in Requests :
                 /\ req[q].at = "found"
                 /\ req[q].allocation.assignment = assignment
                 /\ req[q].allocation.target = t}}
      ids == 1..(Cardinality(Requests) + 2) \ used
  IN  CHOOSE i \in ids : \A j \in ids : i <= j

(* The foreign keys of an allocation. *)
Refers(a) == {a.assignment, a.target, a.evaluator} \subseteq present

(* Mutant of Keeps: the allocations are not unique. *)
Keeps_NoIndex(set) == \A a \in set : Refers(a)

(* The foreign keys, and the unique constraints: an allocation for each assignment and
   target. *)
Keeps(set) ==
  /\ \A a \in set : Refers(a)
  /\ \A a, b \in set : a.assignment = b.assignment /\ a.target = b.target => a = b

--------------------------------------------------------------------------------

(* getAllocation *)
StartAllocate(r, assignment, target, evaluator) ==
  /\ req[r].at = "idle"
  /\ LET existing == {a \in rows : a.assignment = assignment /\ a.target = target}
         wanted == [id |-> None, assignment |-> assignment, target |-> target,
                    evaluator |-> evaluator]
     IN  IF existing = {} THEN Move(r, [at |-> "new", allocation |-> wanted])
         ELSE \E a \in existing :
                Move(r, [at |-> "found", allocation |-> [wanted EXCEPT !.id = a.id]])
  /\ UNCHANGED <<rows, present>>

Save(set) == rows' = IF Keeps(set) THEN set ELSE rows

(* save inserts, or writes the row with the id; when that is gone it is inserted again. *)
Allocate(r) ==
  LET a == req[r].allocation
  IN  /\ req[r].at \in {"new", "found"}
      /\ IF a.id = None
         THEN Save(rows \cup {[a EXCEPT !.id = FreshId(a.assignment, a.target)]})
         ELSE Save({b \in rows : [b EXCEPT !.evaluator = a.evaluator] # a} \cup {a})
      /\ Move(r, Idle)
      /\ UNCHANGED present

(* addAllocationsFromExistingAssignment reads the allocations of the old assignment. *)
StartCopy(r) ==
  /\ req[r].at = "idle"
  /\ \E a \in rows : a.assignment = Old
  /\ Move(r, [at |-> "copying", copied |-> {[target |-> a.target, evaluator |-> a.evaluator] :
                                           a \in {b \in rows : b.assignment = Old}}])
  /\ UNCHANGED <<rows, present>>

(* The given allocations as rows of the new assignment. *)
Copies(copied) ==
  {[id |-> FreshId(New, c.target), assignment |-> New, target |-> c.target,
    evaluator |-> c.evaluator] : c \in copied}

(* createAllocations: one transaction, which fails when one of them is there already. *)
createAllocations(copied) == Save(rows \cup Copies(copied))

Copy(r) ==
  /\ req[r].at = "copying"
  /\ createAllocations(req[r].copied)
  /\ Move(r, Idle)
  /\ UNCHANGED present

removeAllAllocationsOfAssignment(assignment) ==
  /\ rows' = {a \in rows : a.assignment # assignment}
  /\ UNCHANGED <<present, req>>

(* A group, a user or an assignment is deleted, with the allocations that refer to it. *)
Delete(x) ==
  /\ present' = present \ {x}
  /\ rows' = {a \in rows : x \notin {a.assignment, a.target, a.evaluator}}
  /\ UNCHANGED req

(* A save of what has been deleted meanwhile inserts it again. *)
Restore(x) ==
  /\ present' = present \cup {x}
  /\ UNCHANGED <<rows, req>>

--------------------------------------------------------------------------------

(* What the queries find without asking for an evaluator: a group that is registered for
   the assignment and has a member, a user who participates in the course. *)
Listed(tables, assignment, t) ==
  IF t \in Groups THEN <<assignment, t>> \in tables.registered /\ t \in tables.populated
  ELSE t \in tables.enrolled

(* The condition on the evaluator. *)
Assigned(assignment, t, evaluator) ==
  \E a \in rows : a.assignment = assignment /\ a.target = t /\ a.evaluator = evaluator

(* What has an assessment, the group or the user alone or with his group. *)
Reviewed(tables, assignment, t) == <<assignment, t>> \in tables.reviewed

(* The two queries for what an evaluator has to assess, with excludeAlreadyReviewed. *)
Work(tables, assignment, evaluator, excludeAlreadyReviewed) ==
  {t \in Targets :
     /\ Listed(tables, assignment, t)
     /\ Assigned(assignment, t, evaluator)
     /\ excludeAlreadyReviewed => ~Reviewed(tables, assignment, t)}

Init ==
  /\ rows = {}
  /\ present = Targets \cup Evaluators \cup Assignments
  /\ req = [r \in Requests |-> Idle]

Next ==
  \/ \E r \in Requests :
       \/ \E assignment \in Assignments, t \in Targets, e \in Evaluators :
            StartAllocate(r, assignment, t, e)
       \/ Allocate(r) \/ StartCopy(r) \/ Copy(r)
  \/ \E assignment \in Assignments : removeAllAllocationsOfAssignment(assignment)
  \/ \E x \in Targets \cup Evaluators \cup Assignments : Delete(x) \/ Restore(x)

Spec == Init /\ [][Next]_vars

--------------------------------------------------------------------------------
(* Properties *)

(* How many evaluators have the group or user in their lists. *)
Lists(tables, assignment, t, excludeAlreadyReviewed) ==
  Cardinality({e \in Evaluators : t \in Work(tables, assignment, e, excludeAlreadyReviewed)})

Allocated(assignment, t) == \E a \in rows : a.assignment = assignment /\ a.target = t

(* The work of an assignment is split: whoever is allocated and in the course, with a
   registered group that has members, is in the list of exactly one evaluator, and in
   that of nobody else; once assessed he is in none of those that leave out what is
   done.  Whatever the joined tables hold, nobody else is in a list.  It takes that
   requests that look for an allocation first and save it later, and copies of all
   allocations, never leave two for one target. *)
WorkSplit ==
  \A tables \in Joined, assignment \in Assignments, t \in Targets :
    LET due == Allocated(assignment, t) /\ Listed(tables, assignment, t)
        left == due /\ ~Reviewed(tables, assignment, t)
    IN  /\ Lists(tables, assignment, t, FALSE) = IF due THEN 1 ELSE 0
        /\ Lists(tables, assignment, t, TRUE) = IF left THEN 1 ELSE 0
==================================================================================
