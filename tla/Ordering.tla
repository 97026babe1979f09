-------------------------------- MODULE Ordering --------------------------------
(****************************************************************************)
(* Arrays that are sorted, as the strategies for small groups need them     *)
(* (Array.prototype.sort and filter).                                       *)
(****************************************************************************)
EXTENDS Integers, FiniteSets

(* The elements of S in the order in which each comes after those before it. *)
Ordered(S, before) ==
  [i \in 1..Cardinality(S) |-> CHOOSE s \in S : Cardinality(before[s]) = i - 1]

(* Numbers in ascending order. *)
Ascending(S) == Ordered(S, [n \in S |-> {m \in S : m < n}])
================================================================================
