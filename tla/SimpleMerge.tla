------------------------------- MODULE SimpleMerge ------------------------------
(****************************************************************************)
(* The other strategy for small groups (course/services/                    *)
(* group-merge-strategy/simple-merge.strategy.ts): whole groups are put     *)
(* together, first small ones with each other, then the remaining ones into *)
(* groups that have room.  No caller uses it yet.                           *)
(*                                                                          *)
(* A step is one iteration of one of its loops.                             *)
(****************************************************************************)
EXTENDS Integers, Sequences, FiniteSets, SequencesExt, Ordering

CONSTANTS
  Count,          \* number of groups
  MaxMembers,     \* bound: members of a group
  MaxStudents,    \* bound: students in all groups
  Sizes           \* pairs <<sizeMin, sizeMax>> that staff may have set

VARIABLES
  pc,             \* the next stage
  size,           \* <<sizeMin, sizeMax>>
  given,          \* the groups before: their members, and whether they are open
  groups,         \* the same groups, sorted, with the members they have now
  invalid,        \* small groups (indices of groups, as the following)
  openGroups,     \* other groups that can be joined
  newOpenGroups,  \* small groups that have become large enough and can be joined
  remaining,      \* small groups that have remained too small
  i,              \* the loop counter of tryMergeInvalidGroups
  into,           \* the group of the outer loop, 0 between its iterations
  currentSize     \* its size, as the inner loop counts it

vars == <<pc, size, given, groups, invalid, openGroups, newOpenGroups, remaining,
          i, into, currentSize>>

sizeMin == size[1]
sizeMax == size[2]

--------------------------------------------------------------------------------

SizeOf(g) == Cardinality(groups[g].members)

isJoinable(g) == groups[g].open /\ SizeOf(g) < sizeMax

(* Mutant of Merged: the first group takes over the members of the second. *)
Merged_Replace(first, second) ==
  [g \in DOMAIN groups |->
     IF g = second THEN [groups[g] EXCEPT !.members = {}]
     ELSE IF g = first
     THEN [groups[g] EXCEPT !.members = groups[second].members]
     ELSE groups[g]]

(* members.push(...), then members = []: a group that is merged into itself loses
   its members. *)
Merged(first, second) ==
  [g \in DOMAIN groups |->
     IF g = second THEN [groups[g] EXCEPT !.members = {}]
     ELSE IF g = first
     THEN [groups[g] EXCEPT !.members = @ \cup groups[second].members]
     ELSE groups[g]]

--------------------------------------------------------------------------------

(* The array that was given is sorted in place. *)
Sort ==
  LET GivenSize(g) == Cardinality(given[g].members)
      order == Ordered(DOMAIN given,
                 [g \in DOMAIN given |->
                    {h \in DOMAIN given :
                       \/ GivenSize(h) < GivenSize(g)
                       \/ GivenSize(h) = GivenSize(g) /\ h < g}])
  IN  /\ pc = "sort"
      /\ groups' = [g \in DOMAIN given |-> given[order[g]]]
      /\ pc' = "split"
      /\ UNCHANGED <<size, given, invalid, openGroups, newOpenGroups, remaining,
                     i, into, currentSize>>

(* splitGroups: the first group that is large enough but cannot be joined ends the
   loop, and whatever comes after it is not considered. *)
Split ==
  LET small == {g \in DOMAIN groups : SizeOf(g) > 0 /\ SizeOf(g) < sizeMin}
      other == {g \in DOMAIN groups : SizeOf(g) > 0 /\ SizeOf(g) >= sizeMin}
  IN  /\ pc = "split"
      /\ invalid' = Ascending(small)
      /\ openGroups' = {g \in other : \A h \in other : h <= g => isJoinable(h)}
      /\ pc' = "merge" /\ i' = 1
      /\ UNCHANGED <<size, given, groups, newOpenGroups, remaining, into, currentSize>>

(* Outer loop of tryMergeInvalidGroups. *)
NextInvalid ==
  /\ pc = "merge" /\ into = 0
  /\ i < Len(invalid)
  /\ into' = invalid[i]
  /\ currentSize' = SizeOf(invalid[i])
  /\ UNCHANGED <<pc, size, given, groups, invalid, openGroups, newOpenGroups,
                 remaining, i>>

(* Inner loop: the next group is looked up among all groups, groups[i] (counted from
   zero), which is the next small one only if no group is empty. *)
MergeNext ==
  LET other == i + 1
      total == currentSize + SizeOf(other)
  IN  /\ pc = "merge" /\ into # 0
      /\ i < Len(invalid)
      /\ groups' = IF total <= sizeMax THEN Merged(into, other) ELSE groups
      /\ currentSize' = total
      /\ i' = i + 1
      /\ into' = IF total < sizeMax THEN into ELSE 0
      /\ UNCHANGED <<pc, size, given, invalid, openGroups, newOpenGroups, remaining>>

(* The inner loop has reached the end; so does the outer one. *)
Classify ==
  LET nonEmpty == {g \in ToSet(invalid) : SizeOf(g) > 0}
  IN  /\ pc = "merge"
      /\ i >= Len(invalid)
      /\ newOpenGroups' = {g \in nonEmpty : SizeOf(g) >= sizeMin /\ isJoinable(g)}
      /\ remaining' = {g \in nonEmpty : SizeOf(g) < sizeMin}
      /\ pc' = "join" /\ into' = 0
      /\ UNCHANGED <<size, given, groups, invalid, openGroups, i, currentSize>>

(* Mutant of hasCapacity: a group may become larger than the maximum. *)
hasCapacity_Joinable(g, h) == SizeOf(h) > 0 /\ SizeOf(h) < sizeMax

hasCapacity(g, h) == SizeOf(h) > 0 /\ SizeOf(g) + SizeOf(h) <= sizeMax

(* Merged groups come first. *)
Join ==
  LET g == Min(remaining)
      Fitting(hs) == {h \in hs : hasCapacity(g, h)}
      rooms == IF Fitting(newOpenGroups) # {} THEN Fitting(newOpenGroups)
               ELSE Fitting(openGroups)
  IN  /\ pc = "join" /\ remaining # {}
      /\ groups' = IF rooms = {} THEN groups ELSE Merged(Min(rooms), g)
      /\ remaining' = remaining \ {g}
      /\ UNCHANGED <<pc, size, given, invalid, openGroups, newOpenGroups,
                     i, into, currentSize>>

Finish ==
  LET kept == Ascending({g \in DOMAIN groups : groups[g].members # {}})
  IN  /\ pc = "join" /\ remaining = {}
      /\ groups' = [k \in DOMAIN kept |-> groups[kept[k]]]
      /\ pc' = "done"
      /\ UNCHANGED <<size, given, invalid, openGroups, newOpenGroups, remaining,
                     i, into, currentSize>>

--------------------------------------------------------------------------------

Start ==
  /\ pc = "sort"
  /\ size \in Sizes
  /\ groups = << >> /\ invalid = << >> /\ openGroups = {}
  /\ newOpenGroups = {} /\ remaining = {}
  /\ i = 0 /\ into = 0 /\ currentSize = 0

(* Students are numbered through: upto[g] of them are in the first g groups. *)
Init ==
  /\ Start
  /\ \E upto \in [0..Count -> 0..MaxStudents] :
       /\ upto[0] = 0
       /\ \A g \in 1..Count : upto[g] - upto[g - 1] \in 0..MaxMembers
       /\ \E open \in [1..Count -> BOOLEAN] :
            given = [g \in 1..Count |-> [members |-> (upto[g - 1] + 1)..upto[g],
                                        open |-> open[g]]]

Next ==
  \/ Sort \/ Split
  \/ NextInvalid \/ MergeNext \/ Classify
  \/ Join \/ Finish

Spec == Init /\ [][Next]_vars

--------------------------------------------------------------------------------
(* Properties *)

NoneEmpty == \A g \in DOMAIN given : given[g].members # {}

(* "Groups won't be split up in this strategy!" (simple-merge.strategy.ts:10): if no
   group was empty, every student is in one group afterwards, together with all who
   were in the same group before. *)
KeptTogether ==
  pc = "done" /\ NoneEmpty =>
    /\ \A g, h \in DOMAIN groups : g # h => groups[g].members \cap groups[h].members = {}
    /\ \A g \in DOMAIN given : \E h \in DOMAIN groups :
         given[g].members \subseteq groups[h].members

(* If no group was empty, no group grows beyond the maximum, a group that was large
   enough keeps its members, and a closed one gets no others. *)
RoomKept ==
  pc = "done" /\ NoneEmpty =>
    \A h \in DOMAIN groups : \A g \in DOMAIN given :
      given[g].members \subseteq groups[h].members =>
        \/ groups[h].members = given[g].members
        \/ /\ Cardinality(groups[h].members) <= sizeMax
           /\ Cardinality(given[g].members) < sizeMin \/ given[g].open
================================================================================
