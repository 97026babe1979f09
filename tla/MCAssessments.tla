----------------------------- MODULE MCAssessments -----------------------------
(****************************************************************************)
(* Assessments on small instances.                                          *)
(****************************************************************************)
EXTENDS Assessments, TLC

CONSTANTS u1, u2, a1, a2, a3, k1, r1, r2, p1, p2

NoKeys == {{}}

(* New points, or all partials anew together with a comment. *)
SetScore(s) == [score |-> s, keys |-> None]
SetPartials(K) == [score |-> None, keys |-> K]

ScoreOrPartials == {SetScore(2), SetPartials({})}

(* Bounds.  Requests that are served at the same time, and log entries under way,
   are about one assessment: what they do to two assessments does not meet, except
   in the unique index on students, which creations meet at any time.  At most two
   assessments exist.  Two students are there while assessments are created and
   converted; updates, which leave the students alone, are explored with one
   student, and partial assessments with one student and one assessment. *)
At(r, steps) == req[r].at \in steps

OneBusy ==
  LET busy == {req[r].of : r \in {q \in Requests : ~At(q, {"idle"})}}
  IN  Cardinality(busy \cup {e.of : e \in pending}) <= 1

NoUpdates ==
  pending = {} /\ \A r \in Requests : ~At(r, {"load", "save", "reread"})

NoPartials ==
  (\A a \in Ids : partials[a] = {}) /\ \A r \in Requests : ~At(r, {"put"})

Small ==
  /\ OneBusy
  /\ Cardinality(pending) <= 1
  /\ Cardinality(Existing) <= 2
  /\ NoUpdates \/ Cardinality(users) <= 1
  /\ NoPartials \/ (Cardinality(users) <= 1 /\ Cardinality(Existing) <= 1)

Symmetry == Permutations(Users) \cup Permutations(Ids) \cup Permutations(Requests)
              \cup Permutations(PartialIds)
================================================================================
