------------------------------- MODULE GroupMerge -------------------------------
(****************************************************************************)
(* The strategy that merges the small groups of a course when an assignment *)
(* starts (course/services/group-merge-strategy/                            *)
(* merge-by-activity.strategy.ts), and the activity and submissions it      *)
(* ranks the students by.                                                   *)
(*                                                                          *)
(* The groups have been read before the strategy reads the activity; the    *)
(* rest is computed without an await.  A step is a stage of mergeByActivity *)
(* or one iteration of the loops in mergeInvalidGroups.                     *)
(*                                                                          *)
(* The sizes of a course's groups are set by staff, each of them at least   *)
(* zero: nothing keeps the minimum below the maximum.                       *)
(****************************************************************************)
EXTENDS Integers, Sequences, FiniteSets, SequencesExt, Ordering

CONSTANTS
  Count,          \* number of groups
  MaxMembers,     \* bound: members of a group
  MaxStudents,    \* bound: students in all groups
  Sizes,          \* pairs <<sizeMin, sizeMax>> that staff may have set
  Records,        \* the activity and submissions that a student may have
  None            \* undefined, and the REQUIRES-ID of a group without an id

VARIABLES
  pc,                \* the next stage
  size,              \* <<sizeMin, sizeMax>>
  groups,            \* the members of the groups that shall be merged
  activity,          \* the records of the students, or None when a member is no STUDENT
  ranked,            \* students of small groups, the most active first
  sizes,             \* sizes of the groups that are to be filled
  firstMemberIndex,  \* who is the first in the next group
  availableIds,      \* ids of small groups that no merged group has got yet
  merged             \* the groups that have been filled

vars == <<pc, size, groups, activity, ranked, sizes, firstMemberIndex, availableIds,
          merged>>

sizeMin == size[1]
sizeMax == size[2]

--------------------------------------------------------------------------------

(* Groups in the order in which they are read, students in that of their groups. *)
GroupIds == 1..Count
Student == 1..MaxStudents

(* weeks: the weeks of the activities in the order in which they are read;
   submissions: the assignments of the submissions. *)
ASSUME ConstantsOK ==
  /\ Count \in Nat /\ MaxMembers \in Nat /\ MaxStudents \in Nat
  /\ Sizes \subseteq Nat \X Nat
  /\ \A r \in Records : r.weeks \in Seq(Nat) /\ r.submissions \in Seq(Nat)
  /\ None \notin GroupIds /\ None \notin Seq(Nat)

--------------------------------------------------------------------------------
(* splitGroupsByValidity, empty groups are dropped *)

Small(g) == groups[g] # {} /\ Cardinality(groups[g]) < sizeMin

Valid(g) == groups[g] # {} /\ Cardinality(groups[g]) >= sizeMin

invalidGroups == {g \in GroupIds : Small(g)}

validGroups == {g \in GroupIds : Valid(g)}

studentsInInvalidGroups == UNION {groups[g] : g \in invalidGroups}

(* groupId, which mergeByActivity sets on every member. *)
groupId(s) == CHOOSE g \in GroupIds : s \in groups[g]

--------------------------------------------------------------------------------
(* Ranking the students *)

(* Mutant of countUniqueWeeks: every activity counts. *)
countUniqueWeeks_All(weeks) == Len(weeks)

(* A week counts again when another one came in between. *)
countUniqueWeeks(weeks) ==
  Cardinality({i \in 1..Len(weeks) : i = 1 \/ weeks[i] # weeks[i - 1]})

countSubmittedAssignment(submissions) == Cardinality(ToSet(submissions))

(* The comparison of sortStudentsByActivity; the sort is stable. *)
Before(act, a, b) ==
  LET work(s)  == countSubmittedAssignment(act[s].submissions)
      weeks(s) == countUniqueWeeks(act[s].weeks)
  IN  \/ work(a) > work(b)
      \/ work(a) = work(b) /\ weeks(a) > weeks(b)
      \/ work(a) = work(b) /\ weeks(a) = weeks(b) /\ a < b

sortStudentsByActivity(students, act) ==
  Ordered(students, [s \in students |-> {t \in students : Before(act, t, s)}])

--------------------------------------------------------------------------------
(* The sizes of the merged groups *)

(* A combination with another number.  (It is kept in descending order, in which the
   code puts the best one at last.) *)
With(combination, num) ==
  LET larger == {i \in 1..Len(combination) : combination[i] > num}
  IN  InsertAt(combination, Cardinality(larger) + 1, num)

(* The next entry of the table: the combinations of smaller sums are tried with each
   of the numbers, those of smaller sums first, and the shortest one stays.  (The code
   does so when it comes to the smaller sum; it does not change the entry of a sum that
   it has come to.) *)
Entry(table, numbers) ==
  LET sum   == Len(table)
      tried == {i \in 0..(sum - 1) : table[i + 1] # None /\ sum - i \in numbers}
      first == CHOOSE i \in tried : \A j \in tried :
                 \/ Len(table[i + 1]) < Len(table[j + 1])
                 \/ Len(table[i + 1]) = Len(table[j + 1]) /\ i <= j
  IN  IF tried = {} THEN None ELSE With(table[first + 1], sum - first)

(* tables[sum] has the entries of the sums from 0 to sum: a shortest combination of
   numbers, or null. *)
bestSum(target, numbers) ==
  LET tables[sum \in 0..target] ==
        IF sum = 0 THEN << << >> >>
        ELSE LET table == tables[sum - 1] IN Append(table, Entry(table, numbers))
  IN  Last(tables[target])

(* Mutant of calculateIdealGroupSizes: the maximum itself is left out. *)
calculateIdealGroupSizes_BelowMax(n, min, max) ==
  LET best   == bestSum(n, min..(max - 1))
      ceil   == (n + max - 1) \div max
  IN  IF n = 0 THEN << >>
      ELSE IF n <= min THEN <<n>>
      ELSE IF best # None THEN best
      ELSE [i \in 1..ceil |-> IF i < ceil THEN max ELSE n % max]

(* Without a combination: groups of the maximum size and one with the rest. *)
calculateIdealGroupSizes(n, min, max) ==
  LET best   == bestSum(n, min..max)
      ceil   == (n + max - 1) \div max
  IN  IF n = 0 THEN << >>
      ELSE IF n <= min THEN <<n>>
      ELSE IF best # None THEN best
      ELSE [i \in 1..ceil |-> IF i < ceil THEN max ELSE n % max]

--------------------------------------------------------------------------------
(* mergeByActivity *)

(* Activity and submissions are read for the STUDENTs of the course.  For a member
   who is none of them the comparison yields NaN, and any order may result. *)
Rank ==
  LET students == studentsInInvalidGroups
  IN  /\ pc = "rank"
      /\ invalidGroups # {}
      /\ \/ \E act \in [students -> Records] :
              /\ activity' = act
              /\ ranked' = sortStudentsByActivity(students, act)
         \/ /\ activity' = None
            /\ ranked' \in SetToSeqs(students)
      /\ pc' = "sizes"
      /\ UNCHANGED <<size, groups, sizes, firstMemberIndex, availableIds, merged>>

(* No group is too small. *)
NothingToMerge ==
  /\ pc = "rank"
  /\ invalidGroups = {}
  /\ pc' = "done"
  /\ UNCHANGED <<size, groups, activity, ranked, sizes, firstMemberIndex, availableIds,
                 merged>>

(* A maximum of zero is no length of an array: the RangeError ends the start of the
   assignment. *)
Fails == sizeMax = 0 /\ Len(ranked) > sizeMin

ChooseSizes ==
  /\ pc = "sizes"
  /\ pc' = IF Fails THEN "failed" ELSE "fill"
  /\ sizes' = IF Fails THEN sizes
              ELSE calculateIdealGroupSizes(Len(ranked), sizeMin, sizeMax)
  /\ availableIds' = {groupId(ranked[i]) : i \in 1..Len(ranked)}
  /\ UNCHANGED <<size, groups, activity, ranked, firstMemberIndex, merged>>

(* Mutant of Fill: an id that was used remains available. *)
Fill_KeepId ==
  LET last    == firstMemberIndex + sizes[Len(merged) + 1] - 1
      named   == {i \in firstMemberIndex..last : groupId(ranked[i]) \in availableIds}
      id      == IF named = {} THEN None ELSE groupId(ranked[Min(named)])
      members == {ranked[i] : i \in firstMemberIndex..last}
  IN  /\ pc = "fill" /\ Len(merged) < Len(sizes)
      /\ merged' = Append(merged, [id |-> id, members |-> members])
      /\ firstMemberIndex' = last + 1
      /\ UNCHANGED <<pc, size, groups, activity, ranked, sizes, availableIds>>

(* The next students, under the first id of their groups that is available. *)
Fill ==
  LET last    == firstMemberIndex + sizes[Len(merged) + 1] - 1
      named   == {i \in firstMemberIndex..last : groupId(ranked[i]) \in availableIds}
      id      == IF named = {} THEN None ELSE groupId(ranked[Min(named)])
      members == {ranked[i] : i \in firstMemberIndex..last}
  IN  /\ pc = "fill" /\ Len(merged) < Len(sizes)
      /\ merged' = Append(merged, [id |-> id, members |-> members])
      /\ availableIds' = availableIds \ {id}
      /\ firstMemberIndex' = last + 1
      /\ UNCHANGED <<pc, size, groups, activity, ranked, sizes>>

Unnamed == {i \in 1..Len(merged) : merged[i].id = None}

(* The set of ids keeps the order of their first students. *)
InsertedAt(id) == Min({i \in 1..Len(ranked) : groupId(ranked[i]) = id})

(* The first group without an id gets the last one that is left. *)
NameGroup ==
  LET id == groupId(ranked[Max({InsertedAt(g) : g \in availableIds})])
  IN  /\ pc = "fill" /\ Len(merged) = Len(sizes)
      /\ Unnamed # {} /\ availableIds # {}
      /\ merged' = [merged EXCEPT ![Min(Unnamed)].id = id]
      /\ availableIds' = availableIds \ {id}
      /\ UNCHANGED <<pc, size, groups, activity, ranked, sizes, firstMemberIndex>>

Finish ==
  /\ pc = "fill" /\ Len(merged) = Len(sizes)
  /\ Unnamed = {} \/ availableIds = {}
  /\ pc' = "done"
  /\ UNCHANGED <<size, groups, activity, ranked, sizes, firstMemberIndex, availableIds,
                 merged>>

--------------------------------------------------------------------------------

(* Students are numbered through: upto[i] of them are in the first i groups. *)
Init ==
  /\ pc = "rank"
  /\ size \in Sizes
  /\ \E upto \in [0..Count -> 0..MaxStudents] :
       /\ upto[0] = 0
       /\ \A i \in GroupIds : upto[i] - upto[i - 1] \in 0..MaxMembers
       /\ groups = [i \in GroupIds |-> (upto[i - 1] + 1)..upto[i]]
  /\ activity = None
  /\ ranked = << >> /\ sizes = << >>
  /\ firstMemberIndex = 1 /\ availableIds = {} /\ merged = << >>

Next ==
  \/ Rank \/ NothingToMerge
  \/ ChooseSizes
  \/ Fill \/ NameGroup \/ Finish

Spec == Init /\ [][Next]_vars

--------------------------------------------------------------------------------
(* Properties *)

(* What is returned: the valid groups, and those that were merged. *)
result ==
  [id \in validGroups \cup {merged[i].id : i \in 1..Len(merged)} |->
     IF id \in validGroups THEN groups[id]
     ELSE UNION {merged[i].members : i \in {j \in 1..Len(merged) : merged[j].id = id}}]

Contract(min) ==
  INSTANCE MergeContract WITH Participants <- Student, SizeMin <- min

(* When the sizes are in order, what the strategy returns is what the registration
   of the assignment counts on: no two merged groups have the same id, every student
   of a small group is in exactly one of them, their ids are those of small groups,
   and the other groups are as they were. *)
MeetsContract ==
  pc = "done" /\ sizeMin <= sizeMax =>
    /\ \A i, j \in 1..Len(merged) : i # j => merged[i].id # merged[j].id
    /\ \A i \in 1..Len(merged) : merged[i].id \in invalidGroups
    /\ Contract(sizeMin)!IsMerge(result, groups)

Total(counts) ==
  LET sum[i \in 0..Len(counts)] == IF i = 0 THEN 0 ELSE sum[i - 1] + counts[i]
  IN  sum[Len(counts)]

(* Groups of these sizes are the best that n students can be divided into: none is
   above the maximum, at most one is below the minimum, and there are as few of them
   as possible; all are in the range when any division of the students is. *)
Best(counts, n) ==
  LET possible == {k \in 1..n : k * sizeMin <= n /\ n <= k * sizeMax}
  IN  /\ Total(counts) = n
      /\ \A i \in 1..Len(counts) : counts[i] \in 1..sizeMax
      /\ \A i, j \in 1..Len(counts) : counts[i] < sizeMin /\ counts[j] < sizeMin => i = j
      /\ possible # {} =>
           /\ \A i \in 1..Len(counts) : counts[i] >= sizeMin
           /\ \A k \in possible : Len(counts) <= k

(* When the sizes are in order, the merged groups have the best sizes; and so they
   would have for any number of students. *)
SizesAreBest ==
  sizeMin <= sizeMax =>
    /\ pc = "done" /\ merged # << >> =>
         Best([i \in 1..Len(merged) |-> Cardinality(merged[i].members)], Len(ranked))
    /\ sizeMax > 0 /\ pc = "rank" /\ UNION {groups[g] : g \in GroupIds} = {} =>
         \A n \in 1..(4 * MaxStudents) :
           Best(calculateIdealGroupSizes(n, sizeMin, sizeMax), n)

(* A week that comes again comes at once. *)
InOrder(weeks) == \A k, l \in 1..Len(weeks) : k <= l => weeks[k] <= weeks[l]

(* Students come together with their equals: whoever is in an earlier merged group
   has submitted for at least as many assignments as one in a later group, and if
   for as many, was active in at least as many weeks of the calendar, provided that
   the activities of both have been read in their order (the query does not ask for
   one). *)
ActiveTogether ==
  pc = "done" /\ activity # None =>
    \A i, j \in 1..Len(merged) : i < j =>
      \A a \in merged[i].members, b \in merged[j].members :
        LET work(s)  == ToSet(activity[s].submissions)
            weeks(s) == ToSet(activity[s].weeks)
        IN  InOrder(activity[a].weeks) /\ InOrder(activity[b].weeks) =>
              \/ Cardinality(work(a)) > Cardinality(work(b))
              \/ /\ Cardinality(work(a)) = Cardinality(work(b))
                 /\ Cardinality(weeks(a)) >= Cardinality(weeks(b))

================================================================================
