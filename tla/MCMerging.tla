------------------------------- MODULE MCMerging --------------------------------
(****************************************************************************)
(* The two strategies for small groups on small instances.                  *)
(****************************************************************************)
EXTENDS Merging

(* Ranges that leave gaps (2..2, 3..3, 3..4), ranges that do not, a range without
   any number, and no maximum. *)
Ranges == {<<2, 2>>, <<2, 3>>, <<3, 3>>, <<3, 4>>, <<4, 4>>, <<4, 1>>, <<2, 0>>}

(* A student who submitted twice for one assignment and was active twice in one
   week; one who did so later; one who was active in two weeks. *)
SomeRecords ==
  {[weeks |-> <<1, 1, 1>>, submissions |-> <<1, 1>>],
   [weeks |-> <<1, 2>>, submissions |-> <<2>>],
   [weeks |-> << >>, submissions |-> <<1, 2>>]}
================================================================================
