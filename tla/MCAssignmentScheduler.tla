------------------------- MODULE MCAssignmentScheduler -------------------------
(****************************************************************************)
(* AssignmentScheduler on small instances.                                  *)
(****************************************************************************)
EXTENDS AssignmentScheduler, TLC

CONSTANTS a1, a2

Assignment(state, start, stop) ==
  [state |-> state, date |-> [start |-> start, stop |-> stop]]

(* Assignments that staff leaves to the scheduler. *)
Automatic == {Assignment("INVISIBLE", 1, 2), Assignment("INVISIBLE", 2, 3)}

(* One that the scheduler has to stop, and one that is never started. *)
WithClosed == {Assignment("IN_PROGRESS", None, 2), Assignment("CLOSED", None, 1)}

StartAndStop == {Assignment("INVISIBLE", 1, 2)}

NoUpdates == {}

(* Assignments that start one after the other. *)
Starts == {Assignment("INVISIBLE", 1, None), Assignment("INVISIBLE", 2, None)}

(* What SchedulerSafety explores: changes to one assignment that starts and stops, one run
   at a time; or the timers of two assignments that start one after the other, with
   overlapping runs.  The process exits while there is at most one assignment. *)
Together == StartAndStop \cup Starts

Small ==
  LET stops(a) == rows[a].date.stop # None
  IN  \/ /\ restarts = 0 /\ Cardinality(usedIds) <= 1
         /\ Cardinality({i \in Slots : runs[i] # None}) <= 1
         /\ \A a \in Existing : stops(a)
      \/ /\ \A u \in updates : u.by # "staff"
         /\ restarts = 0 \/ Cardinality(usedIds) <= 1
         /\ Existing = usedIds /\ \A a \in Existing : ~stops(a)

(* Staff moves the start, and may hide the assignment again. *)
MoveStart == {[state |-> s, date |-> [start |-> 2, stop |-> None]] :
                s \in {"INVISIBLE", None}}

(* Staff postpones the start or the end. *)
Postpone == {[state |-> None, date |-> [start |-> 2, stop |-> None]],
             [state |-> None, date |-> [start |-> None, stop |-> 3]]}

Symmetry == Permutations(Assignments)
================================================================================
