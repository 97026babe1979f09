----------------------------- MODULE MergeContract -----------------------------
(****************************************************************************)
(* What merging the small groups of a course promises to the registration   *)
(* of an assignment (course/services/group-merge-strategy/).                *)
(****************************************************************************)
EXTENDS Naturals, FiniteSets

CONSTANTS
  Participants,   \* users enrolled in the course
  GroupIds,       \* uuids of groups
  SizeMin         \* the course's minimum group size

(* mergeByActivity: empty groups are dropped, the members of groups below the
   minimum size are put together into some of those groups, none of them empty.
   Who comes to whom depends on the students' activity: any grouping may result.
   (This is what it does for sizeMin <= sizeMax.) *)
IsMerge(f, groups) ==
  LET nonEmpty == {g \in DOMAIN groups : groups[g] # {}}
      small    == {g \in nonEmpty : Cardinality(groups[g]) < SizeMin}
  IN  /\ nonEmpty \ small \subseteq DOMAIN f
      /\ DOMAIN f \subseteq nonEmpty
      /\ \A g \in DOMAIN f : /\ f[g] # {}
                             /\ g \notin small => f[g] = groups[g]
      /\ UNION {f[g] : g \in small \cap DOMAIN f} = UNION {groups[g] : g \in small}
      /\ \A g, h \in small \cap DOMAIN f : g # h => f[g] \cap f[h] = {}

MergeResults(groups) ==
  {f \in UNION {[G -> SUBSET Participants] : G \in SUBSET GroupIds} : IsMerge(f, groups)}
================================================================================
