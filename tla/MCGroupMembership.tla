--------------------------- MODULE MCGroupMembership ---------------------------
(****************************************************************************)
(* GroupMembership on small instances.                                      *)
(****************************************************************************)
EXTENDS GroupMembership, TLC

CONSTANTS s1, s2, t1, g1, g2, r1, r2, pw

(* One field of a GroupUpdateDto at a time is enough to lose an update. *)
Rename(n) == [name |-> n, password |-> None, closed |-> None]
SetClosed(b) == [name |-> None, password |-> None, closed |-> b]

MCUpdates == {Rename(2), SetClosed(TRUE), SetClosed(FALSE)}
ReopenOrRename == {SetClosed(FALSE), Rename(2)}
CloseOrProtect ==
  {SetClosed(TRUE), [name |-> None, password |-> pw, closed |-> None]}
NoUpdates == {}

(* A group of one is large enough to be closed, and full. *)
SelfManaged(schema) ==
  [allowGroups |-> TRUE, selfmanaged |-> TRUE, nameSchema |-> schema,
   sizeMin |-> 1, sizeMax |-> 1]

FreeNames == {SelfManaged(FALSE)}

Symmetry == Permutations(GroupIds) \cup Permutations(Requests)
              \cup Permutations(Students)
================================================================================
