------------------------ MODULE MCAssignmentRegistration ------------------------
(****************************************************************************)
(* AssignmentRegistration on small instances.                               *)
(****************************************************************************)
EXTENDS AssignmentRegistration, TLC

CONSTANTS p1, p2, g1, g2, c1, c2

Symmetry == Permutations(Participants) \cup Permutations(Calls)
              \cup Permutations(GroupIds)
================================================================================
