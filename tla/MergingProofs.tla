------------------------------ MODULE MergingProofs ------------------------------
(****************************************************************************)
(* Proofs about the strategies for small groups, for any number of groups   *)
(* and students, any sizes and any activity.                                *)
(****************************************************************************)
EXTENDS Merging, FiniteSetTheorems, FunctionTheorems, SequenceTheorems,
        WellFoundedInduction, TLAPS

--------------------------------------------------------------------------------
(* Numbers *)

(* A set of natural numbers has a smallest one. *)
LEMMA SmallestNumber ==
  ASSUME NEW B \in SUBSET Nat, B # {}
  PROVE  \E n \in B : \A m \in B : n <= m
<1>1. PICK n \in B : \A m \in B : <<m, n>> \notin OpToRel(<, Nat)
  BY Zenon, NatLessThanWellFounded, WFMin
<1>2. ASSUME NEW m \in B, m < n PROVE FALSE
  <2>1. /\ <<m, n>> \in Nat \X Nat
        /\ <<m, n>>[1] < <<m, n>>[2]
    BY <1>2
  <2>2. <<m, n>> \in OpToRel(<, Nat)
    BY Zenon, <2>1 DEF OpToRel
  <2> QED BY <1>1, <2>2
<1> QED BY <1>2

LEMMA MinIs ==
  ASSUME NEW B \in SUBSET Nat, B # {}
  PROVE  Min(B) \in B /\ \A m \in B : Min(B) <= m
<1>1. \E n \in B : \A m \in B : n <= m
  BY SmallestNumber
<1> QED BY <1>1 DEF Min

(* So has a set with an upper bound a greatest one. *)
LEMMA MaxIs ==
  ASSUME NEW B \in SUBSET Nat, B # {}, NEW n \in Nat, \A m \in B : m <= n
  PROVE  Max(B) \in B /\ \A m \in B : m <= Max(B)
<1> DEFINE C == {k \in Nat : \A m \in B : m <= k}
<1>1. PICK k \in C : \A l \in C : k <= l
  <2>1. n \in C
    OBVIOUS
  <2> HIDE DEF C
  <2>2. C \in SUBSET Nat
    BY DEF C
  <2> QED BY <2>1, <2>2, SmallestNumber
<1>2. k \in B
  <2> SUFFICES ASSUME k \notin B PROVE FALSE
    OBVIOUS
  <2>1. \A m \in B : m < k
    OBVIOUS
  <2>2. k - 1 \in C /\ k \in Nat
    <3>1. PICK b \in B : b < k
      BY <2>1
    <3> QED BY <2>1, <3>1
  <2> HIDE DEF C
  <2> QED BY <1>1, <2>2
<1>3. \E x \in B : \A y \in B : x >= y
  BY <1>2
<1> QED BY <1>3 DEF Max

(* What a recursion over numbers computes exists. *)
IsIteration(f, V, v, step, n) ==
  f \in [0..n -> V] /\ f[0] = v /\ \A m \in 1..n : f[m] = step[m][f[m - 1]]

LEMMA IterationExists ==
  ASSUME NEW V, NEW v \in V, NEW step \in [Nat -> [V -> V]], NEW n \in Nat
  PROVE  \E f : IsIteration(f, V, v, step, n)
<1> DEFINE Iterates(f, k) == /\ f \in [0..k -> V] /\ f[0] = v
                             /\ \A m \in 1..k : f[m] = step[m][f[m - 1]]
           Bad == {k \in Nat : ~\E f : Iterates(f, k)}
<1>1. ASSUME Bad # {} PROVE FALSE
  <2>1. PICK k \in Bad : \A m \in Bad : k <= m
    <3>1. Bad \in SUBSET Nat
      OBVIOUS
    <3> HIDE DEF Bad
    <3> QED BY <1>1, <3>1, SmallestNumber
  <2>2. k \in Nat /\ ~\E f : Iterates(f, k)
    OBVIOUS
  <2>3. k # 0
    <3>1. Iterates([m \in 0..0 |-> v], 0)
      OBVIOUS
    <3> QED BY <2>2, <3>1
  <2>4. k - 1 \in Nat /\ k - 1 \notin Bad
    <3> HIDE DEF Bad
    <3>1. k - 1 \in Nat /\ ~(k <= k - 1)
      BY <2>2, <2>3
    <3> QED BY <2>1, <3>1
  <2>5. PICK f : Iterates(f, k - 1)
    BY <2>4
  <2> DEFINE g == [m \in 0..k |-> IF m = k THEN step[k][f[k - 1]] ELSE f[m]]
  <2>6. Iterates(g, k)
    <3>1. f[k - 1] \in V /\ step[k][f[k - 1]] \in V
      BY <2>2, <2>3, <2>4, <2>5
    <3>2. g \in [0..k -> V]
      BY <2>2, <2>4, <2>5, <3>1
    <3>3. g[0] = v
      BY <2>2, <2>3, <2>5
    <3>4. \A m \in 1..k : g[m] = step[m][g[m - 1]]
      BY <2>2, <2>5
    <3> QED BY <3>2, <3>3, <3>4
  <2> QED BY <2>2, <2>6
<1>2. n \notin Bad
  <2> HIDE DEF Bad
  <2> QED BY <1>1
<1> QED BY <1>2 DEF IsIteration

--------------------------------------------------------------------------------
(* Counting *)

LEMMA CountTo ==
  ASSUME NEW n \in Nat
  PROVE  IsFiniteSet(1..n) /\ Cardinality(1..n) = n
BY FS_Interval

(* So many numbers are at the places from a to b of an array without repetitions. *)
LEMMA CountPlaces ==
  ASSUME NEW f, NEW a \in Int, NEW b \in Int,
         \A k, j \in a..b : f[k] = f[j] => k = j
  PROVE  /\ IsFiniteSet({f[k] : k \in a..b})
         /\ Cardinality({f[k] : k \in a..b}) = IF a > b THEN 0 ELSE b - a + 1
<1> DEFINE T == {f[k] : k \in a..b}
           F == [k \in a..b |-> f[k]]
<1>1. F \in Bijection(a..b, T)
  <2>1. F \in [a..b -> T]
    OBVIOUS
  <2>2. \A k, j \in a..b : F[k] = F[j] => k = j
    OBVIOUS
  <2>3. \A t \in T : \E k \in a..b : F[k] = t
    OBVIOUS
  <2> HIDE DEF F, T
  <2> QED BY <2>1, <2>2, <2>3, Fun_IsBij
<1>2. ExistsBijection(a..b, T)
  BY <1>1 DEF ExistsBijection
<1> HIDE DEF T
<1>3. IsFiniteSet(T) /\ Cardinality(T) = Cardinality(a..b)
  BY <1>2, FS_Interval, FS_Bijection
<1> QED BY <1>3, FS_Interval DEF T

--------------------------------------------------------------------------------
(* Sorted arrays *)

(* before tells of each element which ones are before it. *)
IsOrder(S, before) ==
  /\ \A s \in S : before[s] \subseteq S /\ s \notin before[s]
  /\ \A s, t \in S : s # t => \/ before[s] \cup {s} \subseteq before[t]
                               \/ before[t] \cup {t} \subseteq before[s]

(* Each element is at one place, after those before it. *)
LEMMA OrderedIs ==
  ASSUME NEW S, IsFiniteSet(S), NEW before, IsOrder(S, before)
  PROVE  LET o == Ordered(S, before)
             n == Cardinality(S)
         IN  /\ n \in Nat
             /\ o \in [1..n -> S]
             /\ \A s \in S : \E k \in 1..n : o[k] = s
             /\ \A k, j \in 1..n : o[k] = o[j] => k = j
             /\ \A k \in 1..n : Cardinality(before[o[k]]) = k - 1
             /\ \A k, j \in 1..n : k < j => o[k] \in before[o[j]]
<1> DEFINE n == Cardinality(S)
           o == Ordered(S, before)
           rank(s) == Cardinality(before[s])
<1>1. n \in Nat
  BY FS_CardinalityType
<1>2. ASSUME NEW s \in S
      PROVE  IsFiniteSet(before[s]) /\ rank(s) \in Nat /\ rank(s) < n
  <2>1. before[s] \in SUBSET S /\ before[s] # S
    BY DEF IsOrder
  <2>2. IsFiniteSet(before[s]) /\ rank(s) \in Nat /\ rank(s) <= n /\ rank(s) # n
    BY <2>1, FS_Subset, FS_CardinalityType
  <2> QED BY <1>1, <2>2
<1>3. ASSUME NEW s \in S, NEW t \in S, before[s] \cup {s} \subseteq before[t]
      PROVE  rank(s) < rank(t)
  <2>1. s \notin before[s]
    BY DEF IsOrder
  <2>2. IsFiniteSet(before[s] \cup {s}) /\ Cardinality(before[s] \cup {s}) = rank(s) + 1
    BY <1>2, <2>1, FS_AddElement
  <2>3. Cardinality(before[s] \cup {s}) <= rank(t)
    BY <1>2, <1>3, FS_Subset
  <2> QED BY <1>2, <2>2, <2>3
<1>4. \A s, t \in S : rank(s) = rank(t) => s = t
  <2> SUFFICES ASSUME NEW s \in S, NEW t \in S, s # t PROVE rank(s) # rank(t)
    OBVIOUS
  <2>1. rank(s) < rank(t) \/ rank(t) < rank(s)
    BY <1>3 DEF IsOrder
  <2>2. rank(s) \in Nat /\ rank(t) \in Nat
    BY <1>2
  <2> QED BY <2>1, <2>2
<1>5. \A k \in 1..n : \E s \in S : rank(s) = k - 1
  <2> DEFINE R == [s \in S |-> rank(s) + 1]
             T == {rank(s) + 1 : s \in S}
  <2>1. R \in [S -> T] /\ T \in SUBSET (1..n)
    BY <1>1, <1>2
  <2>2. \A s, t \in S : R[s] = R[t] => s = t
    BY <1>2, <1>4
  <2>3. \A t \in T : \E s \in S : R[s] = t
    OBVIOUS
  <2>4. R \in Bijection(S, T)
    <3> HIDE DEF R, T
    <3> QED BY <2>1, <2>2, <2>3, Fun_IsBij
  <2>5. Cardinality(T) = n
    <3> HIDE DEF R, T
    <3>1. ExistsBijection(S, T)
      BY <2>4 DEF ExistsBijection
    <3> QED BY <3>1, FS_Bijection
  <2>6. T = 1..n
    <3> HIDE DEF T, n
    <3>1. IsFiniteSet(1..n) /\ Cardinality(1..n) = n
      BY <1>1, CountTo
    <3> QED BY <2>1, <2>5, <3>1, FS_Subset
  <2>7. ASSUME NEW k \in 1..n PROVE \E s \in S : rank(s) = k - 1
    <3>1. PICK s \in S : k = rank(s) + 1
      BY <2>6
    <3> QED BY <1>2, <3>1
  <2> QED BY <2>7
<1>6. ASSUME NEW k \in 1..n PROVE o[k] \in S /\ rank(o[k]) = k - 1
  <2>1. o[k] = CHOOSE s \in S : rank(s) = k - 1
    BY DEF Ordered
  <2> HIDE DEF o, n, rank
  <2> QED BY <1>5, <2>1
<1>7. o \in [1..n -> S]
  <2>1. o = [k \in 1..n |-> o[k]]
    BY DEF Ordered
  <2> HIDE DEF o
  <2> QED BY <1>6, <2>1
<1>8. ASSUME NEW s \in S PROVE \E k \in 1..n : o[k] = s
  <2>1. PICK k \in 1..n : k = rank(s) + 1
    BY <1>1, <1>2
  <2>2. o[k] \in S /\ rank(o[k]) = k - 1
    BY <1>6
  <2>3. rank(o[k]) = rank(s)
    BY <1>2, <2>1, <2>2
  <2> HIDE DEF rank, o
  <2> QED BY <1>4, <2>2, <2>3
<1>9. ASSUME NEW k \in 1..n, NEW j \in 1..n, k < j PROVE o[k] \in before[o[j]]
  <2> HIDE DEF o
  <2>1. /\ o[k] \in S /\ rank(o[k]) = k - 1
        /\ o[j] \in S /\ rank(o[j]) = j - 1
    BY <1>6
  <2>2. ~(rank(o[j]) < rank(o[k])) /\ rank(o[k]) # rank(o[j])
    BY <1>1, <1>9, <2>1
  <2>3. o[k] # o[j]
    BY <2>2
  <2> QED BY <1>3, <2>1, <2>2, <2>3 DEF IsOrder
<1>10. ASSUME NEW k \in 1..n, NEW j \in 1..n, o[k] = o[j] PROVE k = j
  <2> HIDE DEF o
  <2>1. rank(o[k]) = k - 1 /\ rank(o[j]) = j - 1
    BY <1>6
  <2> QED BY <1>1, <1>10, <2>1
<1> QED BY <1>1, <1>6, <1>7, <1>8, <1>9, <1>10

(* Numbers in ascending order. *)
LEMMA AscendingIs ==
  ASSUME NEW S \in SUBSET Int, IsFiniteSet(S)
  PROVE  LET a == Ascending(S)
             n == Cardinality(S)
         IN  /\ n \in Nat
             /\ a \in [1..n -> S]
             /\ \A s \in S : \E k \in 1..n : a[k] = s
             /\ \A k, j \in 1..n : a[k] = a[j] => k = j
             /\ \A k \in 1..n : Cardinality({m \in S : m < a[k]}) = k - 1
             /\ \A k, j \in 1..n : k < j => a[k] < a[j]
<1> DEFINE before == [s \in S |-> {m \in S : m < s}]
           a == Ordered(S, before)
           n == Cardinality(S)
<1>1. IsOrder(S, before)
  <2>1. \A s \in S : before[s] \subseteq S /\ s \notin before[s]
    OBVIOUS
  <2>2. ASSUME NEW s \in S, NEW t \in S, s < t
        PROVE  before[s] \cup {s} \subseteq before[t]
    <3>1. before[s] = {m \in S : m < s} /\ before[t] = {m \in S : m < t}
      OBVIOUS
    <3>2. ASSUME NEW m \in S, m < s \/ m = s PROVE m < t
      BY <2>2, <3>2
    <3> QED BY <3>1, <3>2
  <2>3. \A s, t \in S : s # t => s < t \/ t < s
    OBVIOUS
  <2> HIDE DEF before
  <2> QED BY <2>1, <2>2, <2>3 DEF IsOrder
<1>2. /\ n \in Nat
      /\ a \in [1..n -> S]
      /\ \A s \in S : \E k \in 1..n : a[k] = s
      /\ \A k, j \in 1..n : a[k] = a[j] => k = j
      /\ \A k \in 1..n : Cardinality(before[a[k]]) = k - 1
      /\ \A k, j \in 1..n : k < j => a[k] \in before[a[j]]
  <2> HIDE DEF before
  <2> QED BY <1>1, OrderedIs
<1>3. a = Ascending(S)
  BY Zenon DEF Ascending
<1> HIDE DEF a
<1>4. \A k \in 1..n : before[a[k]] = {m \in S : m < a[k]}
  BY <1>2
<1> QED BY <1>2, <1>3, <1>4

--------------------------------------------------------------------------------
(* Ranking the students *)

(* What an array holds is finite. *)
LEMMA ArrayIsFinite ==
  ASSUME NEW S, NEW s \in Seq(S)
  PROVE  IsFiniteSet(ToSet(s)) /\ Cardinality(ToSet(s)) \in Nat
<1> DEFINE D == 1..Len(s)
           F == [k \in D |-> s[k]]
<1>1. D = DOMAIN s /\ IsFiniteSet(D)
  BY FS_Interval
<1>2. ToSet(s) = {s[k] : k \in D}
  BY <1>1 DEF ToSet
<1>3. F \in [D -> ToSet(s)] /\ \A t \in ToSet(s) : \E k \in D : F[k] = t
  BY <1>2
<1>4. F \in Surjection(D, ToSet(s))
  <2> HIDE DEF F, D
  <2> QED BY <1>3, Fun_IsSurj
<1> HIDE DEF F, D
<1>5. IsFiniteSet(ToSet(s))
  BY <1>1, <1>4, FS_Surjection
<1> QED BY <1>5, FS_CardinalityType

LEMMA RecordsCounted ==
  ASSUME ConstantsOK, NEW r \in Records
  PROVE  /\ countSubmittedAssignment(r.submissions) \in Nat
         /\ countUniqueWeeks(r.weeks) \in Nat
<1>1. r.weeks \in Seq(Nat) /\ r.submissions \in Seq(Nat)
  BY DEF ConstantsOK
<1>2. countSubmittedAssignment(r.submissions) \in Nat
  BY <1>1, ArrayIsFinite DEF countSubmittedAssignment
<1> DEFINE D == 1..Len(r.weeks)
           C == {k \in D : k = 1 \/ r.weeks[k] # r.weeks[k - 1]}
<1>3. IsFiniteSet(D) /\ C \in SUBSET D
  BY <1>1, FS_Interval
<1>4. Cardinality(C) \in Nat
  <2> HIDE DEF C, D
  <2> QED BY <1>3, FS_Subset, FS_CardinalityType
<1> QED BY <1>2, <1>4 DEF countUniqueWeeks

(* The more active ones come first, and no two students are equals: of those with the
   same activity the one who was read first comes first. *)
LEMMA RankingIs ==
  ASSUME ConstantsOK, NEW students \in SUBSET Int, IsFiniteSet(students),
         NEW act \in [students -> Records]
  PROVE  LET r == sortStudentsByActivity(students, act)
             n == Cardinality(students)
         IN  /\ r \in [1..n -> students]
             /\ \A s \in students : \E k \in 1..n : r[k] = s
             /\ \A k, l \in 1..n : r[k] = r[l] => k = l
             /\ \A k, l \in 1..n : k < l => Before(act, r[k], r[l])
<1> DEFINE work(s)  == countSubmittedAssignment(act[s].submissions)
           weeks(s) == countUniqueWeeks(act[s].weeks)
           before == [s \in students |-> {t \in students : Before(act, t, s)}]
           n == Cardinality(students)
           r == Ordered(students, before)
<1>1. \A s \in students : work(s) \in Nat /\ weeks(s) \in Nat
  BY RecordsCounted
<1>2. \A s, t \in students :
        Before(act, s, t) <=> \/ work(s) > work(t)
                              \/ work(s) = work(t) /\ weeks(s) > weeks(t)
                              \/ work(s) = work(t) /\ weeks(s) = weeks(t) /\ s < t
  BY DEF Before
<1> HIDE DEF work, weeks
<1>3. \A s \in students : ~Before(act, s, s)
  BY <1>1, <1>2
<1>4. \A s, t \in students : s # t => Before(act, s, t) \/ Before(act, t, s)
  BY <1>1, <1>2
<1>5. \A s, t, u \in students :
        Before(act, s, t) /\ Before(act, t, u) => Before(act, s, u)
  BY <1>1, <1>2
<1>6. IsOrder(students, before)
  <2>1. \A s \in students : before[s] \subseteq students /\ s \notin before[s]
    BY <1>3
  <2>2. ASSUME NEW s \in students, NEW t \in students, Before(act, s, t)
        PROVE  before[s] \cup {s} \subseteq before[t]
    BY <1>5, <2>2
  <2> HIDE DEF before
  <2> QED BY <1>4, <2>1, <2>2 DEF IsOrder
<1>7. /\ n \in Nat
      /\ r \in [1..n -> students]
      /\ \A s \in students : \E k \in 1..n : r[k] = s
      /\ \A k, l \in 1..n : r[k] = r[l] => k = l
      /\ \A k, l \in 1..n : k < l => r[k] \in before[r[l]]
  <2> HIDE DEF before
  <2> QED BY <1>6, OrderedIs
<1>8. r = sortStudentsByActivity(students, act)
  BY Zenon DEF sortStudentsByActivity
<1> HIDE DEF r
<1>9. \A k, l \in 1..n : k < l => Before(act, r[k], r[l])
  BY <1>7
<1> QED BY <1>7, <1>8, <1>9

(* When the activities are read in their order, every week counts once. *)
LEMMA WeeksCountOnce ==
  ASSUME NEW weeks \in Seq(Nat),
         \A k, l \in 1..Len(weeks) : k <= l => weeks[k] <= weeks[l]
  PROVE  countUniqueWeeks(weeks) = Cardinality(ToSet(weeks))
<1> DEFINE D == 1..Len(weeks)
           C == {k \in D : k = 1 \/ weeks[k] # weeks[k - 1]}
           F == [k \in C |-> weeks[k]]
<1>1. ToSet(weeks) = {weeks[k] : k \in D} /\ \A k \in D : weeks[k] \in Nat
  BY DEF ToSet
<1>2. F \in [C -> ToSet(weeks)]
  BY <1>1
<1>3. ASSUME NEW k \in C, NEW l \in C, k < l PROVE weeks[k] # weeks[l]
  <2>1. l - 1 \in D /\ k <= l - 1 /\ weeks[l] # weeks[l - 1]
    BY <1>3
  <2>2. weeks[k] <= weeks[l - 1] /\ weeks[l - 1] <= weeks[l]
    BY <2>1
  <2>3. weeks[k] \in Nat /\ weeks[l - 1] \in Nat /\ weeks[l] \in Nat
    BY <1>1, <2>1
  <2> QED BY <2>1, <2>2, <2>3
<1>4. \A k, l \in C : F[k] = F[l] => k = l
  <2> SUFFICES ASSUME NEW k \in C, NEW l \in C, k # l PROVE F[k] # F[l]
    OBVIOUS
  <2>1. k < l \/ l < k
    OBVIOUS
  <2> QED BY <1>3, <2>1
<1>5. ASSUME NEW w \in ToSet(weeks) PROVE \E k \in C : F[k] = w
  <2> DEFINE P == {k \in D : weeks[k] = w}
  <2>1. P \in SUBSET Nat /\ P # {}
    BY <1>1
  <2>2. PICK k \in P : \A l \in P : k <= l
    <3> HIDE DEF P
    <3> QED BY <2>1, SmallestNumber
  <2>3. k \in D /\ weeks[k] = w
    OBVIOUS
  <2>4. ASSUME k # 1 PROVE weeks[k - 1] # w
    <3>1. k - 1 \in D /\ ~(k <= k - 1)
      BY <2>3, <2>4
    <3> QED BY <2>2, <3>1
  <2>5. k \in C
    BY <2>3, <2>4
  <2> QED BY <2>3, <2>5
<1>6. F \in Bijection(C, ToSet(weeks))
  <2> HIDE DEF C, F
  <2> QED BY <1>2, <1>4, <1>5, Fun_IsBij
<1>7. IsFiniteSet(C)
  <2>1. IsFiniteSet(D) /\ C \in SUBSET D
    BY FS_Interval
  <2> HIDE DEF C, D
  <2> QED BY <2>1, FS_Subset
<1>8. Cardinality(ToSet(weeks)) = Cardinality(C)
  <2> HIDE DEF C, F
  <2>1. ExistsBijection(C, ToSet(weeks))
    BY <1>6 DEF ExistsBijection
  <2> QED BY <1>7, <2>1, FS_Bijection
<1> QED BY <1>8 DEF countUniqueWeeks

--------------------------------------------------------------------------------
(* Sums of arrays *)

(* upto[k] is the sum of the first k numbers. *)
SumsUp(upto, s) ==
  /\ upto \in [0..Len(s) -> Nat]
  /\ upto[0] = 0
  /\ \A k \in 1..Len(s) : upto[k] = upto[k - 1] + s[k]

AddsUpTo(s, n) == \E upto : SumsUp(upto, s) /\ upto[Len(s)] = n

LEMMA TotalIs ==
  ASSUME NEW s \in Seq(Nat), NEW n, AddsUpTo(s, n)
  PROVE  Total(s) = n
<1> DEFINE L == Len(s)
           Sum(f) == f = [k \in 0..L |-> IF k = 0 THEN 0 ELSE f[k - 1] + s[k]]
           sum == CHOOSE f : Sum(f)
<1>1. PICK upto : SumsUp(upto, s) /\ upto[L] = n
  BY DEF AddsUpTo
<1>2. L \in Nat
  OBVIOUS
<1>3. Sum(upto)
  <2>1. upto = [k \in 0..L |-> upto[k]]
    BY <1>1 DEF SumsUp
  <2>2. \A k \in 0..L : upto[k] = IF k = 0 THEN 0 ELSE upto[k - 1] + s[k]
    BY <1>1, <1>2 DEF SumsUp
  <2> QED BY <2>1, <2>2
<1>4. Sum(sum)
  <2> HIDE DEF Sum
  <2> QED BY <1>3
<1>5. Total(s) = sum[L]
  BY Zenon DEF Total
<1> DEFINE Bad == {k \in 0..L : sum[k] # upto[k]}
<1>6. ASSUME Bad # {} PROVE FALSE
  <2>1. PICK k \in Bad : \A l \in Bad : k <= l
    <3>1. Bad \in SUBSET Nat
      BY <1>2
    <3> HIDE DEF Bad
    <3> QED BY <1>6, <3>1, SmallestNumber
  <2>2. k \in 0..L /\ sum[k] # upto[k]
    OBVIOUS
  <2>3. /\ sum[k] = IF k = 0 THEN 0 ELSE sum[k - 1] + s[k]
        /\ upto[k] = IF k = 0 THEN 0 ELSE upto[k - 1] + s[k]
    <3> HIDE DEF sum, Bad
    <3> QED BY <1>3, <1>4, <2>2
  <2>4. k # 0
    BY <2>2, <2>3
  <2>5. k - 1 \in 0..L /\ k - 1 \notin Bad
    <3> HIDE DEF Bad
    <3>1. k - 1 \in 0..L /\ ~(k <= k - 1)
      BY <1>2, <2>2, <2>4
    <3> QED BY <2>1, <3>1
  <2>6. sum[k - 1] = upto[k - 1]
    BY <2>5
  <2> HIDE DEF sum
  <2> QED BY <2>2, <2>3, <2>4, <2>6
<1>7. L \in 0..L /\ L \notin Bad
  <2> HIDE DEF Bad
  <2> QED BY <1>2, <1>6
<1> HIDE DEF sum
<1>8. sum[L] = upto[L]
  BY <1>7
<1> QED BY <1>1, <1>5, <1>8

LEMMA InsertAtIs ==
  ASSUME NEW S, NEW s \in Seq(S), NEW p \in 1..(Len(s) + 1), NEW e \in S
  PROVE  /\ InsertAt(s, p, e) \in Seq(S)
         /\ Len(InsertAt(s, p, e)) = Len(s) + 1
         /\ \A k \in 1..(Len(s) + 1) :
              InsertAt(s, p, e)[k] = IF k < p THEN s[k] ELSE IF k = p THEN e ELSE s[k - 1]
<1> DEFINE a == SubSeq(s, 1, p - 1)
           b == SubSeq(s, p, Len(s))
           ae == a \o <<e>>
<1>1. /\ a \in Seq(S) /\ Len(a) = p - 1
      /\ \A k \in 1..(p - 1) : a[k] = s[k]
  OBVIOUS
<1>2. /\ b \in Seq(S) /\ Len(b) = Len(s) + 1 - p
      /\ \A k \in 1..(Len(s) + 1 - p) : b[k] = s[p + k - 1]
  OBVIOUS
<1> HIDE DEF a, b
<1>3. /\ ae \in Seq(S) /\ Len(ae) = p
      /\ \A k \in 1..p : ae[k] = IF k < p THEN s[k] ELSE e
  BY <1>1
<1> HIDE DEF ae
<1>4. /\ ae \o b \in Seq(S) /\ Len(ae \o b) = Len(s) + 1
      /\ \A k \in 1..(Len(s) + 1) : (ae \o b)[k] = IF k <= p THEN ae[k] ELSE b[k - p]
  <2>1. Len(ae) + Len(b) = Len(s) + 1
    BY <1>2, <1>3
  <2> QED BY <1>2, <1>3, <2>1, ConcatProperties
<1>5. InsertAt(s, p, e) = ae \o b
  BY DEF InsertAt, a, b, ae
<1>6. ASSUME NEW k \in 1..(Len(s) + 1)
      PROVE  InsertAt(s, p, e)[k] = IF k < p THEN s[k] ELSE IF k = p THEN e ELSE s[k - 1]
  <2>1. CASE k <= p
    BY <1>3, <1>4, <1>5, <2>1
  <2>2. CASE k > p
    <3>1. k - p \in 1..(Len(s) + 1 - p) /\ p + (k - p) - 1 = k - 1
      BY <2>2
    <3> QED BY <1>2, <1>4, <1>5, <2>2, <3>1
  <2> QED BY <2>1, <2>2
<1> QED BY <1>4, <1>5, <1>6

(* With another number the sum is larger by it. *)
LEMMA WithIs ==
  ASSUME NEW N \in SUBSET Nat, NEW s \in Seq(N), NEW n \in N
  PROVE  /\ With(s, n) \in Seq(N)
         /\ Len(With(s, n)) = Len(s) + 1
         /\ \A m : AddsUpTo(s, m) => AddsUpTo(With(s, n), m + n)
<1> DEFINE D == 1..Len(s)
           larger == {k \in D : s[k] > n}
           p == Cardinality(larger) + 1
           w == With(s, n)
<1>1. p \in 1..(Len(s) + 1)
  <2>1. IsFiniteSet(D) /\ Cardinality(D) = Len(s) /\ larger \in SUBSET D
    <3>1. Len(s) \in Nat
      OBVIOUS
    <3>2. IsFiniteSet(D) /\ Cardinality(D) = Len(s)
      BY <3>1, CountTo
    <3> QED BY <3>2
  <2>2. Cardinality(larger) \in Nat /\ Cardinality(larger) <= Len(s)
    <3> HIDE DEF larger, D
    <3> QED BY <2>1, FS_Subset, FS_CardinalityType
  <2> HIDE DEF larger
  <2> QED BY <2>2
<1>2. w = InsertAt(s, p, n)
  BY Zenon DEF With
<1> HIDE DEF p, w
<1>3. /\ w \in Seq(N) /\ Len(w) = Len(s) + 1
      /\ \A k \in 1..(Len(s) + 1) :
           w[k] = IF k < p THEN s[k] ELSE IF k = p THEN n ELSE s[k - 1]
  BY <1>1, <1>2, InsertAtIs
<1>4. ASSUME NEW m, AddsUpTo(s, m) PROVE AddsUpTo(w, m + n)
  <2>1. PICK upto : SumsUp(upto, s) /\ upto[Len(s)] = m
    BY <1>4 DEF AddsUpTo
  <2>2. /\ upto \in [0..Len(s) -> Nat] /\ upto[0] = 0
        /\ \A k \in 1..Len(s) : upto[k] = upto[k - 1] + s[k]
    BY <2>1 DEF SumsUp
  <2> DEFINE new == [k \in 0..Len(w) |-> IF k < p THEN upto[k] ELSE upto[k - 1] + n]
  <2>3. n \in Nat /\ Len(s) \in Nat
    OBVIOUS
  <2>4. new \in [0..Len(w) -> Nat]
    BY <1>1, <1>3, <2>2, <2>3
  <2>5. new[0] = 0
    BY <1>1, <1>3, <2>2, <2>3
  <2>6. ASSUME NEW k \in 1..Len(w) PROVE new[k] = new[k - 1] + w[k]
    <3>1. CASE k < p
      <4>1. k \in 1..Len(s) /\ w[k] = s[k] /\ k \in 0..Len(w) /\ k - 1 \in 0..Len(w)
        BY <1>1, <1>3, <2>3, <3>1
      <4>2. new[k] = upto[k] /\ new[k - 1] = upto[k - 1]
        BY <1>1, <3>1, <4>1
      <4> HIDE DEF new
      <4> QED BY <2>2, <4>1, <4>2
    <3>2. CASE k = p
      <4>1. w[k] = n /\ k \in 0..Len(w) /\ k - 1 \in 0..Len(w)
        BY <1>1, <1>3, <2>3, <3>2
      <4> QED BY <1>1, <3>2, <4>1
    <3>3. CASE k > p
      <4>1. /\ w[k] = s[k - 1] /\ k \in 0..Len(w) /\ k - 1 \in 0..Len(w)
            /\ k - 1 \in 1..Len(s) /\ ~(k - 1 < p) /\ ~(k < p)
        BY <1>1, <1>3, <2>3, <3>3
      <4>2. new[k] = upto[k - 1] + n /\ new[k - 1] = upto[k - 1 - 1] + n
        BY <4>1
      <4>3. upto[k - 1] = upto[k - 1 - 1] + s[k - 1]
        BY <2>2, <4>1
      <4>4. s[k - 1] \in Nat /\ upto[k - 1 - 1] \in Nat
        <5>1. s[k - 1] \in N /\ k - 1 - 1 \in 0..Len(s)
          BY <4>1
        <5> QED BY <2>2, <5>1
      <4>5. upto[k - 1] + n = (upto[k - 1 - 1] + n) + s[k - 1]
        BY <2>3, <4>3, <4>4
      <4> HIDE DEF new
      <4> QED BY <4>1, <4>2, <4>5
    <3> QED BY <1>1, <3>1, <3>2, <3>3
  <2>7. new[Len(w)] = m + n
    BY <1>1, <1>3, <2>1, <2>3
  <2> HIDE DEF new
  <2>8. SumsUp(new, w)
    BY <2>4, <2>5, <2>6 DEF SumsUp
  <2> QED BY <2>7, <2>8 DEF AddsUpTo
<1> QED BY <1>3, <1>4 DEF w

--------------------------------------------------------------------------------
(* The table of combinations *)

Entries == Seq(Nat) \cup {None}

(* Which smaller sums have a combination that leads to this one. *)
Tried(e, sum, numbers) == {k \in 0..(sum - 1) : e[k] # None /\ sum - k \in numbers}

(* What the table has for a sum is made from the shortest combination of those. *)
IsEntry(e, sum, numbers) ==
  \/ Tried(e, sum, numbers) = {} /\ e[sum] = None
  \/ \E k \in Tried(e, sum, numbers) :
       /\ \A l \in Tried(e, sum, numbers) : Len(e[k]) <= Len(e[l])
       /\ e[sum] = With(e[k], sum - k)

LEMMA EntryIs ==
  ASSUME NEW numbers \in SUBSET Nat, NEW table \in Seq(Entries)
  PROVE  LET sum   == Len(table)
             tried == {k \in 0..(sum - 1) : table[k + 1] # None /\ sum - k \in numbers}
         IN  /\ Entry(table, numbers) \in Entries
             /\ tried = {} => Entry(table, numbers) = None
             /\ tried # {} => \E k \in tried :
                  /\ \A l \in tried : Len(table[k + 1]) <= Len(table[l + 1])
                  /\ Entry(table, numbers) = With(table[k + 1], sum - k)
<1> DEFINE sum == Len(table)
           tried == {k \in 0..(sum - 1) : table[k + 1] # None /\ sum - k \in numbers}
           IsFirst(k) == \A j \in tried :
                           \/ Len(table[k + 1]) < Len(table[j + 1])
                           \/ Len(table[k + 1]) = Len(table[j + 1]) /\ k <= j
           first == CHOOSE k \in tried : IsFirst(k)
<1>1. Entry(table, numbers) =
        IF tried = {} THEN None ELSE With(table[first + 1], sum - first)
  BY DEF Entry
<1>2. ASSUME NEW k \in tried
      PROVE  k \in Nat /\ table[k + 1] \in Seq(Nat) /\ Len(table[k + 1]) \in Nat /\ sum - k \in numbers
  <2>1. k + 1 \in 1..Len(table) /\ table[k + 1] # None
    OBVIOUS
  <2>2. table[k + 1] \in Entries
    BY <2>1
  <2> QED BY <2>1, <2>2 DEF Entries
<1>3. ASSUME tried # {} PROVE \E k \in tried : IsFirst(k)
  <2> DEFINE lengths == {Len(table[k + 1]) : k \in tried}
  <2>1. lengths \in SUBSET Nat /\ lengths # {}
    <3> HIDE DEF tried
    <3> QED BY <1>2, <1>3
  <2>2. PICK m \in lengths : \A l \in lengths : m <= l
    <3> HIDE DEF lengths
    <3> QED BY <2>1, SmallestNumber
  <2> DEFINE shortest == {k \in tried : Len(table[k + 1]) = m}
  <2>3. shortest \in SUBSET Nat /\ shortest # {}
    <3> HIDE DEF tried
    <3> QED BY <1>2, <2>2
  <2>4. PICK k \in shortest : \A l \in shortest : k <= l
    <3> HIDE DEF shortest
    <3> QED BY <2>3, SmallestNumber
  <2>5. k \in tried /\ Len(table[k + 1]) = m
    OBVIOUS
  <2>6. ASSUME NEW j \in tried
        PROVE  \/ Len(table[k + 1]) < Len(table[j + 1])
               \/ Len(table[k + 1]) = Len(table[j + 1]) /\ k <= j
    <3>1. m <= Len(table[j + 1]) /\ Len(table[j + 1]) \in Nat
      <4> HIDE DEF tried
      <4> QED BY <1>2, <2>2, <2>6
    <3>2. m \in Nat
      BY <2>1, <2>2
    <3>3. CASE m = Len(table[j + 1])
      <4>1. j \in shortest
        <5> HIDE DEF tried
        <5> QED BY <2>6, <3>3
      <4> HIDE DEF shortest
      <4> QED BY <2>4, <2>5, <3>3, <4>1
    <3>4. CASE m < Len(table[j + 1])
      BY <2>5, <3>4
    <3> QED BY <3>1, <3>2, <3>3, <3>4
  <2> HIDE DEF tried
  <2> QED BY <2>5, <2>6
<1> HIDE DEF tried
<1>4. ASSUME tried # {}
      PROVE  /\ first \in tried
             /\ \A l \in tried : Len(table[first + 1]) <= Len(table[l + 1])
             /\ Entry(table, numbers) = With(table[first + 1], sum - first)
             /\ Entry(table, numbers) \in Seq(Nat)
  <2>1. first \in tried /\ IsFirst(first)
    <3> HIDE DEF IsFirst
    <3> QED BY <1>3, <1>4
  <2> HIDE DEF first
  <2>2. ASSUME NEW l \in tried PROVE Len(table[first + 1]) <= Len(table[l + 1])
    <3>1. Len(table[first + 1]) \in Nat /\ Len(table[l + 1]) \in Nat
      BY <1>2, <2>1, <2>2
    <3>2. \/ Len(table[first + 1]) < Len(table[l + 1])
          \/ Len(table[first + 1]) = Len(table[l + 1])
      BY <2>1, <2>2
    <3> QED BY <3>1, <3>2
  <2>3. With(table[first + 1], sum - first) \in Seq(Nat)
    BY <1>2, <2>1, WithIs
  <2> QED BY <1>1, <1>4, <2>1, <2>2, <2>3
<1> HIDE DEF first
<1>5. Entry(table, numbers) \in Entries
  BY <1>1, <1>4 DEF Entries
<1> QED BY <1>1, <1>4, <1>5 DEF tried

(* bestSum is the last entry of such a table. *)
LEMMA BestSumIs ==
  ASSUME NEW target \in Nat, NEW numbers \in SUBSET Nat
  PROVE  \E e \in [0..target -> Entries] :
           /\ e[0] = << >>
           /\ \A sum \in 1..target : IsEntry(e, sum, numbers)
           /\ bestSum(target, numbers) = e[target]
<1> DEFINE V == Seq(Entries)
           start == << << >> >>
           step == [k \in Nat |-> [table \in V |-> Append(table, Entry(table, numbers))]]
           Tables(f) == f = [sum \in 0..target |->
                               IF sum = 0 THEN << << >> >>
                               ELSE Append(f[sum - 1], Entry(f[sum - 1], numbers))]
           tables == CHOOSE f : Tables(f)
<1>1. \A table \in V : Entry(table, numbers) \in Entries
  BY EntryIs
<1>2. step \in [Nat -> [V -> V]]
  BY <1>1
<1>3. start \in V /\ Len(start) = 1 /\ start[1] = << >>
  <2>1. << >> \in Entries
    BY DEF Entries
  <2> QED BY <2>1
<1>4. PICK f \in [0..target -> V] :
        f[0] = start /\ \A k \in 1..target : f[k] = step[k][f[k - 1]]
  <2>1. PICK f : IsIteration(f, V, start, step, target)
    <3> HIDE DEF V, step, start
    <3> QED BY <1>2, <1>3, IterationExists
  <2> HIDE DEF V, step, start
  <2> QED BY <2>1 DEF IsIteration
<1>5. \A k \in 1..target : f[k] = Append(f[k - 1], Entry(f[k - 1], numbers))
  <2> SUFFICES ASSUME NEW k \in 1..target
               PROVE  f[k] = Append(f[k - 1], Entry(f[k - 1], numbers))
    OBVIOUS
  <2>1. k \in Nat /\ k - 1 \in 0..target
    OBVIOUS
  <2>2. f[k - 1] \in V /\ f[k] = step[k][f[k - 1]]
    <3> HIDE DEF V, step
    <3> QED BY <1>4, <2>1
  <2> HIDE DEF V
  <2>3. step[k] = [table \in V |-> Append(table, Entry(table, numbers))]
    BY <2>1
  <2> HIDE DEF step
  <2> QED BY <2>2, <2>3
<1>6. Tables(f)
  <2>1. f = [k \in 0..target |-> f[k]]
    BY <1>4
  <2>2. \A k \in 0..target : f[k] = IF k = 0 THEN << << >> >>
                                  ELSE Append(f[k - 1], Entry(f[k - 1], numbers))
    <3> SUFFICES ASSUME NEW k \in 0..target
                 PROVE  f[k] = IF k = 0 THEN << << >> >>
                               ELSE Append(f[k - 1], Entry(f[k - 1], numbers))
      OBVIOUS
    <3>1. CASE k = 0
      BY <1>4, <3>1
    <3>2. CASE k # 0
      <4>1. k \in 1..target
        BY <3>2
      <4> QED BY <1>5, <3>2, <4>1
    <3> QED BY <3>1, <3>2
  <2> HIDE DEF V
  <2> QED BY <2>1, <2>2
<1>7. Tables(tables)
  <2> HIDE DEF Tables
  <2> QED BY <1>6
<1>8. bestSum(target, numbers) = Last(tables[target])
  BY Zenon DEF bestSum
<1> HIDE DEF tables
<1> DEFINE Bad == {k \in 0..target : ~(tables[k] \in V /\ Len(tables[k]) = k + 1)}
<1>9. \A k \in 0..target : tables[k] \in V /\ Len(tables[k]) = k + 1
  <2>1. ASSUME Bad # {} PROVE FALSE
    <3>1. PICK k \in Bad : \A l \in Bad : k <= l
      <4>1. Bad \in SUBSET Nat
        OBVIOUS
      <4> HIDE DEF Bad
      <4> QED BY <2>1, <4>1, SmallestNumber
    <3>2. k \in 0..target /\ ~(tables[k] \in V /\ Len(tables[k]) = k + 1)
      OBVIOUS
    <3>3. k # 0
      <4>1. tables[0] = start
        BY <1>7
      <4> HIDE DEF V, start, Bad
      <4> QED BY <1>3, <3>2, <4>1
    <3>4. k - 1 \in 0..target /\ k - 1 \notin Bad
      <4>1. k - 1 \in 0..target /\ ~(k <= k - 1)
        BY <3>2, <3>3
      <4> HIDE DEF Bad
      <4> QED BY <3>1, <4>1
    <3>5. tables[k - 1] \in V /\ Len(tables[k - 1]) = k
      BY <3>2, <3>4
    <3>6. tables[k] = Append(tables[k - 1], Entry(tables[k - 1], numbers))
      BY <1>7, <3>2, <3>3
    <3> QED BY <1>1, <3>2, <3>5, <3>6
  <2> QED BY <2>1
<1> DEFINE e == [k \in 0..target |-> Last(tables[k])]
           Differ == {m \in 0..target : \E k \in 0..m : tables[m][k + 1] # e[k]}
<1>10. \A m \in 0..target : \A k \in 0..m : tables[m][k + 1] = e[k]
  <2>1. ASSUME Differ # {} PROVE FALSE
    <3>1. PICK m \in Differ : \A l \in Differ : m <= l
      <4>1. Differ \in SUBSET Nat
        OBVIOUS
      <4> HIDE DEF Differ
      <4> QED BY <2>1, <4>1, SmallestNumber
    <3>2. m \in 0..target
      OBVIOUS
    <3>3. PICK k \in 0..m : tables[m][k + 1] # e[k]
      OBVIOUS
    <3>4. k # m
      <4>1. e[m] = tables[m][m + 1]
        BY <1>9, <3>2 DEF Last
      <4> QED BY <3>3, <4>1
    <3>5. m # 0 /\ m - 1 \in 0..target /\ m - 1 \notin Differ /\ k \in 0..(m - 1)
      <4>1. m # 0 /\ m - 1 \in 0..target /\ ~(m <= m - 1) /\ k \in 0..(m - 1)
        BY <3>2, <3>4
      <4> HIDE DEF Differ
      <4> QED BY <3>1, <4>1
    <3>6. tables[m - 1][k + 1] = e[k]
      BY <3>5
    <3>7. tables[m] = Append(tables[m - 1], Entry(tables[m - 1], numbers))
      BY <1>7, <3>2, <3>5
    <3>8. tables[m - 1] \in V /\ Len(tables[m - 1]) = m /\ Entry(tables[m - 1], numbers) \in Entries
      BY <1>1, <1>9, <3>5
    <3>9. tables[m][k + 1] = tables[m - 1][k + 1]
      <4>1. k + 1 \in 1..m
        BY <3>5
      <4> HIDE DEF e
      <4> QED BY <3>7, <3>8, <4>1
    <3> QED BY <3>3, <3>6, <3>9
  <2> QED BY <2>1
<1>11. e \in [0..target -> Entries]
  <2> SUFFICES ASSUME NEW k \in 0..target PROVE Last(tables[k]) \in Entries
    OBVIOUS
  <2>1. tables[k] \in V /\ Len(tables[k]) = k + 1
    BY <1>9
  <2> QED BY <2>1 DEF Last
<1>12. e[0] = << >>
  <2>1. tables[0] = start /\ 0 \in 0..target
    BY <1>7
  <2>2. e[0] = tables[0][Len(tables[0])]
    BY <2>1 DEF Last
  <2> HIDE DEF start, e
  <2> QED BY <1>3, <2>1, <2>2
<1>13. ASSUME NEW sum \in 1..target PROVE IsEntry(e, sum, numbers)
  <2> DEFINE table == tables[sum - 1]
             tried == {k \in 0..(sum - 1) : table[k + 1] # None /\ sum - k \in numbers}
  <2>1. sum - 1 \in 0..target /\ sum \in 0..target /\ sum # 0
    OBVIOUS
  <2>2. table \in V /\ Len(table) = sum
    BY <1>9, <2>1
  <2>3. tables[sum] = Append(table, Entry(table, numbers))
    BY <1>7, <2>1
  <2>4. e[sum] = Entry(table, numbers)
    <3>1. e[sum] = Last(Append(table, Entry(table, numbers)))
      BY <2>1, <2>3
    <3> HIDE DEF e, table
    <3>2. Entry(table, numbers) \in Entries
      BY <1>1, <2>2
    <3> QED BY <2>2, <3>1, <3>2 DEF Last
  <2>5. \A k \in 0..(sum - 1) : table[k + 1] = e[k]
    <3> HIDE DEF e
    <3> QED BY <1>10, <2>1
  <2> HIDE DEF e, table
  <2>6. tried = Tried(e, sum, numbers)
    BY <2>5 DEF Tried
  <2>7. /\ tried = {} => Entry(table, numbers) = None
        /\ tried # {} => \E k \in tried :
             /\ \A l \in tried : Len(table[k + 1]) <= Len(table[l + 1])
             /\ Entry(table, numbers) = With(table[k + 1], sum - k)
    BY <2>2, EntryIs
  <2>8. tried \subseteq 0..(sum - 1)
    OBVIOUS
  <2> HIDE DEF tried
  <2> QED BY <2>4, <2>5, <2>6, <2>7, <2>8 DEF IsEntry
<1>14. bestSum(target, numbers) = e[target]
  BY <1>8
<1> HIDE DEF e
<1> QED BY <1>11, <1>12, <1>13, <1>14

(* What the table has for a sum are numbers, none of them zero, that add up to it. *)
LEMMA TableAddsUp ==
  ASSUME ConstantsOK, NEW target \in Nat, NEW numbers \in SUBSET Nat,
         NEW e \in [0..target -> Entries], e[0] = << >>,
         \A sum \in 1..target : IsEntry(e, sum, numbers),
         NEW n \in 0..target, e[n] # None
  PROVE  e[n] \in Seq(numbers \ {0}) /\ AddsUpTo(e[n], n)
<1> DEFINE N == numbers \ {0}
           Bad == {k \in 0..target : e[k] # None /\ ~(e[k] \in Seq(N) /\ AddsUpTo(e[k], k))}
<1>1. ASSUME Bad # {} PROVE FALSE
  <2>1. PICK k \in Bad : \A l \in Bad : k <= l
    <3>1. Bad \in SUBSET Nat
      OBVIOUS
    <3> HIDE DEF Bad
    <3> QED BY <1>1, <3>1, SmallestNumber
  <2>2. k \in 0..target /\ e[k] # None /\ ~(e[k] \in Seq(N) /\ AddsUpTo(e[k], k))
    OBVIOUS
  <2>3. k # 0
    <3>1. << >> \in Seq(N)
      OBVIOUS
    <3>2. AddsUpTo(<< >>, 0)
      <4>1. SumsUp([m \in 0..0 |-> 0], << >>)
        BY DEF SumsUp
      <4> QED BY <4>1 DEF AddsUpTo
    <3> HIDE DEF N
    <3> QED BY <2>2, <3>1, <3>2
  <2>4. PICK l \in Tried(e, k, numbers) : e[k] = With(e[l], k - l)
    BY <2>2, <2>3 DEF IsEntry
  <2>5. l \in 0..target /\ l < k /\ e[l] # None /\ k - l \in N
    BY <2>2, <2>4 DEF Tried
  <2>6. e[l] \in Seq(N) /\ AddsUpTo(e[l], l)
    <3>1. l \notin Bad
      <4>1. ~(k <= l)
        BY <2>2, <2>5
      <4> HIDE DEF Bad
      <4> QED BY <2>1, <4>1
    <3> HIDE DEF N
    <3> QED BY <2>5, <3>1
  <2>7. e[k] \in Seq(N) /\ AddsUpTo(e[k], l + (k - l))
    <3>1. N \in SUBSET Nat
      OBVIOUS
    <3> HIDE DEF N, Bad
    <3> QED BY <2>4, <2>5, <2>6, <3>1, WithIs
  <2>8. l + (k - l) = k
    BY <2>2, <2>5
  <2> HIDE DEF N, Bad
  <2> QED BY <2>2, <2>7, <2>8
<1>2. n \notin Bad
  <2> HIDE DEF Bad
  <2> QED BY <1>1
<1> HIDE DEF N
<1>3. e[n] \in Seq(N) /\ AddsUpTo(e[n], n)
  BY <1>2
<1> QED BY <1>3 DEF N

(* There is a smaller sum for one number less. *)
LEMMA SmallerSum ==
  ASSUME NEW min \in Nat, NEW max \in Nat, min <= max, NEW n \in Nat, n > 0,
         NEW k \in Nat, k * min <= n, n <= k * max
  PROVE  /\ k > 0
         /\ \E m \in 0..(n - 1) : /\ n - m \in min..max
                                  /\ (k - 1) * min <= m /\ m <= (k - 1) * max
<1>1. k > 0
  <2> SUFFICES ASSUME k = 0 PROVE FALSE
    OBVIOUS
  <2> QED OBVIOUS
<1> DEFINE a == (k - 1) * min
           b == (k - 1) * max
<1>2. k * min = a + min /\ k * max = b + max
  OBVIOUS
<1>3. a \in Nat /\ b \in Nat /\ a <= b
  <2>1. k - 1 \in Nat
    BY <1>1
  <2>2. \A p, q, r \in Nat : q <= r => p * q <= p * r /\ p * q \in Nat /\ p * r \in Nat
    OBVIOUS
  <2> HIDE DEF a, b
  <2> QED BY <2>1, <2>2 DEF a, b
<1>4. (min = 0 => a = 0) /\ (max = 0 => b = 0)
  OBVIOUS
<1> HIDE DEF a, b
<1> DEFINE low  == IF a > n - max THEN a ELSE n - max
           high == IF b > n - min THEN n - min ELSE b
           m == IF low < 0 THEN 0 ELSE low
<1>5. m \in 0..(n - 1) /\ n - m \in min..max /\ a <= m /\ m <= b
  BY <1>2, <1>3, <1>4
<1> QED BY <1>1, <1>5 DEF a, b

(* It has the shortest combination of numbers from min to max. *)
LEMMA TableShortest ==
  ASSUME ConstantsOK, NEW target \in Nat, NEW min \in Nat, NEW max \in Nat, min <= max,
         NEW e \in [0..target -> Entries], e[0] = << >>,
         \A sum \in 1..target : IsEntry(e, sum, min..max),
         NEW n \in 0..target, NEW k \in Nat, k * min <= n, n <= k * max
  PROVE  e[n] # None /\ Len(e[n]) <= k
<1> DEFINE Fits(m, l) == l * min <= m /\ m <= l * max
           Short(m, l) == e[m] # None /\ Len(e[m]) <= l
           Bad == {m \in 0..target : \E l \in Nat : Fits(m, l) /\ ~Short(m, l)}
<1>1. \A m \in 0..target : e[m] # None => e[m] \in Seq(Nat) /\ Len(e[m]) \in Nat
  BY DEF Entries
<1>2. ASSUME Bad # {} PROVE FALSE
  <2>1. PICK m \in Bad : \A l \in Bad : m <= l
    <3>1. Bad \in SUBSET Nat
      OBVIOUS
    <3> HIDE DEF Bad
    <3> QED BY <1>2, <3>1, SmallestNumber
  <2>2. m \in 0..target
    OBVIOUS
  <2>3. PICK l \in Nat : Fits(m, l) /\ ~Short(m, l)
    OBVIOUS
  <2>4. m # 0
    <3>1. << >> # None /\ Len(<< >>) = 0
      <4>1. None \notin Seq(Nat)
        BY DEF ConstantsOK
      <4>2. << >> \in Seq(Nat)
        OBVIOUS
      <4> QED BY <4>1, <4>2
    <3> HIDE DEF Fits, Bad
    <3> QED BY <2>3, <3>1
  <2>5. PICK j \in 0..(m - 1) : m - j \in min..max /\ Fits(j, l - 1)
    <3> HIDE DEF Bad
    <3>1. m \in Nat /\ m > 0
      BY <2>2, <2>4
    <3> QED BY <2>3, <3>1, SmallerSum
  <2>6. l - 1 \in Nat
    <3> HIDE DEF Bad
    <3>1. m \in Nat /\ m > 0
      BY <2>2, <2>4
    <3>2. l > 0
      BY <2>3, <3>1, SmallerSum
    <3> QED BY <3>2
  <2>7. j \in 0..target /\ Short(j, l - 1)
    <3>1. j \in 0..target /\ ~(m <= j)
      BY <2>2, <2>5
    <3>2. j \notin Bad
      <4> HIDE DEF Bad
      <4> QED BY <2>1, <3>1
    <3> HIDE DEF Fits, Short
    <3> QED BY <2>5, <2>6, <3>1, <3>2
  <2>8. j \in Tried(e, m, min..max)
    BY <2>5, <2>7 DEF Tried
  <2>9. PICK i0 \in Tried(e, m, min..max) :
          /\ Len(e[i0]) <= Len(e[j])
          /\ e[m] = With(e[i0], m - i0)
    BY <2>2, <2>4, <2>8 DEF IsEntry
  <2>10. i0 \in 0..target /\ e[i0] # None /\ m - i0 \in Nat
    BY <2>2, <2>9 DEF Tried
  <2>11. e[i0] \in Seq(Nat) /\ Len(e[i0]) \in Nat /\ Len(e[j]) \in Nat
    BY <1>1, <2>7, <2>10
  <2>12. e[m] \in Seq(Nat) /\ Len(e[m]) = Len(e[i0]) + 1
    <3> HIDE DEF Bad, Fits, Short
    <3> QED BY <2>9, <2>10, <2>11, WithIs
  <2>13. Len(e[m]) <= l
    BY <2>7, <2>9, <2>11, <2>12
  <2>14. e[m] # None
    BY <2>12 DEF ConstantsOK
  <2> HIDE DEF Bad, Fits
  <2> QED BY <2>3, <2>13, <2>14
<1>3. n \notin Bad
  <2> HIDE DEF Bad
  <2> QED BY <1>2
<1> QED BY <1>3

(* bestSum: a shortest combination of numbers from min to max that adds up to the
   target, if there is any. *)
LEMMA BestSumIsShortest ==
  ASSUME ConstantsOK, NEW target \in Nat, NEW min \in Nat, NEW max \in Nat
  PROVE  LET best == bestSum(target, min..max)
         IN  /\ best # None => /\ best \in Seq((min..max) \ {0})
                               /\ AddsUpTo(best, target)
             /\ \A k \in Nat : min <= max /\ k * min <= target /\ target <= k * max =>
                  best # None /\ Len(best) <= k
<1>1. min..max \in SUBSET Nat
  OBVIOUS
<1>2. PICK e \in [0..target -> Entries] :
        /\ e[0] = << >>
        /\ \A sum \in 1..target : IsEntry(e, sum, min..max)
        /\ bestSum(target, min..max) = e[target]
  BY <1>1, BestSumIs
<1>3. target \in 0..target
  OBVIOUS
<1>4. e[target] # None => /\ e[target] \in Seq((min..max) \ {0})
                          /\ AddsUpTo(e[target], target)
  BY <1>1, <1>2, <1>3, TableAddsUp
<1>5. \A k \in Nat : min <= max /\ k * min <= target /\ target <= k * max =>
        e[target] # None /\ Len(e[target]) <= k
  BY <1>2, <1>3, TableShortest
<1> QED BY <1>2, <1>4, <1>5

--------------------------------------------------------------------------------
(* The sizes of the merged groups *)

(* So many numbers, none of them smaller than that, add up to so much. *)
LEMMA SumAtLeast ==
  ASSUME NEW s \in Seq(Nat), NEW n, AddsUpTo(s, n), NEW low \in Nat,
         \A k \in 1..Len(s) : low <= s[k]
  PROVE  n \in Nat /\ Len(s) * low <= n
<1> DEFINE L == Len(s)
<1>1. L \in Nat
  OBVIOUS
<1>2. PICK upto : SumsUp(upto, s) /\ upto[L] = n
  BY DEF AddsUpTo
<1>3. /\ \A k \in 0..L : upto[k] \in Nat
      /\ upto[0] = 0
      /\ \A k \in 1..L : upto[k] = upto[k - 1] + s[k]
  BY <1>2 DEF SumsUp
<1> DEFINE Bad == {k \in 0..L : ~(k * low <= upto[k])}
<1>4. ASSUME Bad # {} PROVE FALSE
  <2>1. PICK k \in Bad : \A l \in Bad : k <= l
    <3>1. Bad \in SUBSET Nat
      BY <1>1
    <3> HIDE DEF Bad
    <3> QED BY <1>4, <3>1, SmallestNumber
  <2>2. k \in 0..L /\ ~(k * low <= upto[k])
    OBVIOUS
  <2>3. k # 0
    BY <1>3, <2>2
  <2>4. k - 1 \in 0..L /\ k \in 1..L /\ k - 1 \notin Bad
    <3>1. k - 1 \in 0..L /\ k \in 1..L /\ ~(k <= k - 1)
      BY <1>1, <2>2, <2>3
    <3> HIDE DEF Bad
    <3> QED BY <2>1, <3>1
  <2>5. (k - 1) * low <= upto[k - 1]
    BY <2>4
  <2>6. k * low = (k - 1) * low + low
    BY <2>2
  <2>7. /\ upto[k] = upto[k - 1] + s[k] /\ low <= s[k]
        /\ upto[k - 1] \in Nat /\ s[k] \in Nat /\ (k - 1) * low \in Int
    BY <1>3, <2>4
  <2> HIDE DEF Bad
  <2> QED BY <2>2, <2>5, <2>6, <2>7
<1>5. L \notin Bad /\ L \in 0..L
  <2> HIDE DEF Bad
  <2> QED BY <1>1, <1>4
<1> QED BY <1>2, <1>3, <1>5

LEMMA SingleSum ==
  ASSUME NEW n \in Nat
  PROVE  AddsUpTo(<<n>>, n)
<1>1. SumsUp([k \in 0..1 |-> IF k = 0 THEN 0 ELSE n], <<n>>)
  BY DEF SumsUp
<1> QED BY <1>1 DEF AddsUpTo

LEMMA DivisionIs ==
  ASSUME NEW n \in Nat, NEW d \in Nat, n > 0, d > 0
  PROVE  LET ceil == (n + d - 1) \div d
         IN  /\ ceil \in Nat /\ ceil > 0
             /\ n % d \in 0..(d - 1)
             /\ n % d = 0 => n = ceil * d
             /\ n % d # 0 => n = ((ceil - 1) * d) + (n % d)
<1> DEFINE ceil == (n + d - 1) \div d
<1>1. /\ n = (d * (n \div d)) + (n % d)
      /\ n % d \in 0..(d - 1)
      /\ n \div d \in Nat
  OBVIOUS
<1>2. ceil \in Nat /\ ceil > 0
  OBVIOUS
<1>3. /\ n % d = 0 => ceil = n \div d
      /\ n % d # 0 => ceil = (n \div d) + 1
  OBVIOUS
<1> HIDE DEF ceil
<1>4. n % d # 0 => ceil - 1 = n \div d
  BY <1>1, <1>2, <1>3
<1>5. /\ n % d = 0 => n = ceil * d
      /\ n % d # 0 => n = ((ceil - 1) * d) + (n % d)
  BY <1>1, <1>2, <1>3, <1>4
<1> QED BY <1>1, <1>2, <1>5 DEF ceil

(* Groups of the maximum size and one with the rest. *)
LEMMA FallbackIs ==
  ASSUME NEW n \in Nat, NEW max \in Nat, n > 0, max > 0
  PROVE  LET ceil == (n + max - 1) \div max
             c == [k \in 1..ceil |-> IF k < ceil THEN max ELSE n % max]
         IN  /\ c \in Seq(0..max) /\ Len(c) = ceil
             /\ AddsUpTo(c, ((ceil - 1) * max) + (n % max))
<1> DEFINE ceil == (n + max - 1) \div max
           rest == n % max
           c == [k \in 1..ceil |-> IF k < ceil THEN max ELSE rest]
           sum == ((ceil - 1) * max) + rest
           upto == [k \in 0..ceil |-> IF k < ceil THEN k * max ELSE sum]
<1>1. ceil \in Nat /\ ceil > 0 /\ rest \in 0..(max - 1)
  BY DivisionIs
<1> HIDE DEF ceil, rest
<1>2. c \in Seq(0..max) /\ Len(c) = ceil
  BY <1>1
<1>3. \A p \in Nat : p * max \in Nat /\ p * max = ((p - 1) * max) + max
  OBVIOUS
<1>4. (ceil - 1) * max \in Nat /\ sum \in Nat
  <2>1. ceil - 1 \in Nat
    BY <1>1
  <2>2. (ceil - 1) * max \in Nat
    BY <1>3, <2>1
  <2> QED BY <1>1, <2>2
<1>5. upto \in [0..ceil -> Nat] /\ upto[0] = 0
  BY <1>1, <1>3, <1>4
<1>6. ASSUME NEW k \in 1..ceil PROVE upto[k] = upto[k - 1] + c[k]
  <2>1. k - 1 \in 0..ceil /\ k \in 0..ceil /\ k - 1 < ceil /\ k \in Nat
    BY <1>1
  <2>2. upto[k - 1] = (k - 1) * max
    BY <2>1
  <2>3. CASE k < ceil
    BY <1>3, <2>1, <2>2, <2>3
  <2>4. CASE k = ceil
    BY <2>1, <2>2, <2>4
  <2> QED BY <1>1, <2>3, <2>4
<1>7. SumsUp(upto, c)
  <2> HIDE DEF upto, c
  <2> QED BY <1>2, <1>5, <1>6 DEF SumsUp
<1>8. upto[Len(c)] = sum
  BY <1>1, <1>2
<1>9. AddsUpTo(c, sum)
  <2> HIDE DEF upto, c, sum
  <2> QED BY <1>7, <1>8 DEF AddsUpTo
<1> QED BY <1>2, <1>9 DEF ceil, rest

(* As the code computes them. *)
LEMMA SizesCases ==
  ASSUME NEW n \in Nat, NEW min \in Nat, NEW max \in Nat
  PROVE  LET c == calculateIdealGroupSizes(n, min, max)
             best == bestSum(n, min..max)
             ceil == (n + max - 1) \div max
         IN  /\ n = 0 => c = << >>
             /\ n # 0 /\ n <= min => c = <<n>>
             /\ n # 0 /\ n > min /\ best # None => c = best
             /\ n # 0 /\ n > min /\ best = None =>
                  c = [k \in 1..ceil |-> IF k < ceil THEN max ELSE n % max]
BY DEF calculateIdealGroupSizes

(* Whatever the sizes are, they do not add up to more than there are students. *)
LEMMA SizesAddUp ==
  ASSUME ConstantsOK, NEW n \in Nat, NEW min \in Nat, NEW max \in Nat,
         max > 0 \/ n <= min
  PROVE  LET c == calculateIdealGroupSizes(n, min, max)
         IN  c \in Seq(Nat) /\ \E m \in 0..n : AddsUpTo(c, m)
<1> DEFINE c == calculateIdealGroupSizes(n, min, max)
           best == bestSum(n, min..max)
           ceil == (n + max - 1) \div max
<1> SUFFICES c \in Seq(Nat) /\ \E m \in 0..n : AddsUpTo(c, m)
  OBVIOUS
<1>a. /\ n = 0 => c = << >>
      /\ n # 0 /\ n <= min => c = <<n>>
      /\ n # 0 /\ n > min /\ best # None => c = best
      /\ n # 0 /\ n > min /\ best = None =>
           c = [k \in 1..ceil |-> IF k < ceil THEN max ELSE n % max]
  BY SizesCases
<1>b. /\ best # None => best \in Seq((min..max) \ {0}) /\ AddsUpTo(best, n)
      /\ \A k \in Nat : min <= max /\ k * min <= n /\ n <= k * max =>
           best # None /\ Len(best) <= k
  BY BestSumIsShortest
<1>c. n > 0 /\ max > 0 =>
        LET f == [k \in 1..ceil |-> IF k < ceil THEN max ELSE n % max]
        IN  /\ f \in Seq(0..max) /\ Len(f) = ceil
            /\ AddsUpTo(f, ((ceil - 1) * max) + (n % max))
            /\ ceil \in Nat /\ ceil > 0
            /\ n % max \in 0..(max - 1)
            /\ n % max = 0 => n = ceil * max
            /\ n % max # 0 => n = ((ceil - 1) * max) + (n % max)
  BY FallbackIs, DivisionIs
<1> HIDE DEF c, best, ceil
<1>1. CASE n = 0
  <2>1. c = << >>
    BY <1>1, <1>a
  <2>2. SumsUp([m \in 0..0 |-> 0], << >>)
    BY DEF SumsUp
  <2>3. << >> \in Seq(Nat) /\ AddsUpTo(<< >>, 0)
    BY <2>2 DEF AddsUpTo
  <2> QED BY <1>1, <2>1, <2>3
<1>2. CASE n # 0 /\ n <= min
  <2>1. c = <<n>>
    BY <1>2, <1>a
  <2>2. <<n>> \in Seq(Nat) /\ AddsUpTo(<<n>>, n) /\ n \in 0..n
    BY SingleSum
  <2> QED BY <2>1, <2>2
<1>3. CASE n # 0 /\ n > min /\ best # None
  <2>1. c = best
    BY <1>3, <1>a
  <2>2. best \in Seq(Nat) /\ AddsUpTo(best, n) /\ n \in 0..n
    <3>1. best \in Seq((min..max) \ {0}) /\ AddsUpTo(best, n) /\ n \in 0..n
      BY <1>3, <1>b
    <3>2. (min..max) \ {0} \subseteq Nat
      OBVIOUS
    <3> QED BY <3>1, <3>2
  <2> QED BY <2>1, <2>2
<1>4. CASE n # 0 /\ n > min /\ best = None
  <2>1. c = [k \in 1..ceil |-> IF k < ceil THEN max ELSE n % max]
    BY <1>4, <1>a
  <2>2. n > 0 /\ max > 0
    BY <1>4
  <2>3. c \in Seq(0..max) /\ AddsUpTo(c, ((ceil - 1) * max) + (n % max))
    BY <1>c, <2>1, <2>2
  <2>4. /\ ceil \in Nat /\ ceil > 0
        /\ n % max \in 0..(max - 1)
        /\ n % max = 0 => n = ceil * max
        /\ n % max # 0 => n = ((ceil - 1) * max) + (n % max)
    BY <1>c, <2>2
  <2>5. ((ceil - 1) * max) + (n % max) \in 0..n
    <3>1. ceil - 1 \in Nat /\ (ceil - 1) * max \in Nat
      <4>1. ceil - 1 \in Nat /\ \A p \in Nat : p * max \in Nat
        BY <2>4
      <4> QED BY <4>1
    <3>2. CASE n % max = 0
      <4>1. n = ((ceil - 1) * max) + max
        BY <2>4, <3>2
      <4> QED BY <2>2, <3>1, <3>2, <4>1
    <3>3. CASE n % max # 0
      BY <2>4, <3>1, <3>3
    <3> QED BY <3>2, <3>3
  <2> QED BY <2>3, <2>5
<1> QED BY <1>1, <1>2, <1>3, <1>4

(* When the sizes are in order, the groups are the best ones. *)
LEMMA SizesAreTheBest ==
  ASSUME ConstantsOK, NEW n \in Nat, NEW min \in Nat, NEW max \in Nat,
         n > 0, max > 0, min <= max
  PROVE  LET c == calculateIdealGroupSizes(n, min, max)
         IN  /\ c \in Seq(1..max)
             /\ AddsUpTo(c, n)
             /\ \A k, l \in 1..Len(c) : c[k] < min /\ c[l] < min => k = l
             /\ \A j \in 1..n : j * min <= n /\ n <= j * max =>
                  Len(c) <= j /\ \A k \in 1..Len(c) : c[k] >= min
             /\ (Len(c) - 1) * min < n
<1> DEFINE c == calculateIdealGroupSizes(n, min, max)
           best == bestSum(n, min..max)
           ceil == (n + max - 1) \div max
<1> SUFFICES /\ c \in Seq(1..max)
             /\ AddsUpTo(c, n)
             /\ \A k, l \in 1..Len(c) : c[k] < min /\ c[l] < min => k = l
             /\ \A j \in 1..n : j * min <= n /\ n <= j * max =>
                  Len(c) <= j /\ \A k \in 1..Len(c) : c[k] >= min
             /\ (Len(c) - 1) * min < n
  OBVIOUS
<1>a. /\ n = 0 => c = << >>
      /\ n # 0 /\ n <= min => c = <<n>>
      /\ n # 0 /\ n > min /\ best # None => c = best
      /\ n # 0 /\ n > min /\ best = None =>
           c = [k \in 1..ceil |-> IF k < ceil THEN max ELSE n % max]
  BY SizesCases
<1>b. /\ best # None => best \in Seq((min..max) \ {0}) /\ AddsUpTo(best, n)
      /\ \A k \in Nat : min <= max /\ k * min <= n /\ n <= k * max =>
           best # None /\ Len(best) <= k
  BY BestSumIsShortest
<1>c. n > 0 /\ max > 0 =>
        LET f == [k \in 1..ceil |-> IF k < ceil THEN max ELSE n % max]
        IN  /\ f \in Seq(0..max) /\ Len(f) = ceil
            /\ AddsUpTo(f, ((ceil - 1) * max) + (n % max))
            /\ ceil \in Nat /\ ceil > 0
            /\ n % max \in 0..(max - 1)
            /\ n % max = 0 => n = ceil * max
            /\ n % max # 0 => n = ((ceil - 1) * max) + (n % max)
  BY FallbackIs, DivisionIs
<1> HIDE DEF c, best, ceil
<1>1. CASE n <= min
  <2>1. c = <<n>>
    BY <1>1, <1>a
  <2>2. AddsUpTo(<<n>>, n)
    BY SingleSum
  <2>3. c \in Seq(1..max) /\ Len(c) = 1 /\ c[1] = n
    <3>1. n \in 1..max
      BY <1>1
    <3> QED BY <2>1, <3>1
  <2>4. ASSUME NEW j \in 1..n, j * min <= n, n <= j * max
        PROVE  Len(c) <= j /\ \A k \in 1..Len(c) : c[k] >= min
    <3>1. min <= n
      <4>1. (j - 1) * min >= 0 /\ j * min = ((j - 1) * min) + min
        <5>1. j - 1 \in Nat /\ \A p \in Nat : p * min >= 0
          OBVIOUS
        <5> QED BY <5>1
      <4> QED BY <2>4, <4>1
    <3> QED BY <2>3, <3>1
  <2>5. (Len(c) - 1) * min < n
    BY <2>3
  <2> QED BY <2>1, <2>2, <2>3, <2>4, <2>5
<1>2. CASE n > min /\ best # None
  <2>1. c = best
    BY <1>2, <1>a
  <2>2. /\ best \in Seq((min..max) \ {0}) /\ AddsUpTo(best, n)
        /\ \A j \in Nat : j * min <= n /\ n <= j * max => Len(best) <= j
    BY <1>2, <1>b
  <2>3. c \in Seq(1..max) /\ c \in Seq(Nat) /\ \A k \in 1..Len(c) : c[k] >= min
    BY <2>1, <2>2
  <2>4. Len(c) * min <= n
    BY <2>1, <2>2, <2>3, SumAtLeast
  <2>5. (Len(c) - 1) * min < n
    <3>1. Len(c) * min = ((Len(c) - 1) * min) + min
      BY <2>3
    <3>2. (Len(c) - 1) * min \in Int
      BY <2>3
    <3>3. CASE min = 0
      BY <2>3, <3>3
    <3>4. CASE min > 0
      BY <2>4, <3>1, <3>2, <3>4
    <3> QED BY <3>3, <3>4
  <2>6. \A k, l \in 1..Len(c) : c[k] < min /\ c[l] < min => k = l
    <3>1. \A k \in 1..Len(c) : c[k] \in Nat
      BY <2>3
    <3> QED BY <2>3, <3>1
  <2> QED BY <2>1, <2>2, <2>3, <2>5, <2>6
<1>3. CASE n > min /\ best = None
  <2>1. c = [k \in 1..ceil |-> IF k < ceil THEN max ELSE n % max]
    BY <1>3, <1>a
  <2>2. /\ c \in Seq(0..max) /\ Len(c) = ceil
        /\ AddsUpTo(c, ((ceil - 1) * max) + (n % max))
    BY <1>c, <2>1
  <2>3. /\ ceil \in Nat /\ ceil > 0
        /\ n % max \in 0..(max - 1)
        /\ n % max = 0 => n = ceil * max
        /\ n % max # 0 => n = ((ceil - 1) * max) + (n % max)
    BY <1>c
  <2>4. \A j \in Nat : ~(j * min <= n /\ n <= j * max)
    BY <1>3, <1>b
  <2>5. n % max # 0
    <3> SUFFICES ASSUME n = ceil * max PROVE FALSE
      BY <2>3
    <3>1. ceil * min <= ceil * max
      BY <2>3
    <3>2. ~(ceil * min <= n /\ n <= ceil * max)
      BY <2>3, <2>4
    <3>3. ceil * min <= n /\ n <= ceil * max
      BY <2>3, <3>1
    <3> QED BY <3>2, <3>3
  <2>6. \A k \in 1..ceil : c[k] \in 1..max /\ (c[k] < min => k = ceil)
    <3> SUFFICES ASSUME NEW k \in 1..ceil
                 PROVE  c[k] \in 1..max /\ (c[k] < min => k = ceil)
      OBVIOUS
    <3>1. c[k] = IF k < ceil THEN max ELSE n % max
      BY <2>1
    <3> QED BY <2>3, <2>5, <3>1
  <2>7. (ceil - 1) * min < n
    <3>1. ceil - 1 \in Nat
      BY <2>3
    <3>2. (ceil - 1) * min <= (ceil - 1) * max /\ (ceil - 1) * max \in Int /\ (ceil - 1) * min \in Int
      BY <3>1
    <3> QED BY <2>3, <2>5, <3>2
  <2>8. c \in Seq(1..max)
    <3>1. c \in [1..ceil -> 1..max]
      BY <2>1, <2>6
    <3> QED BY <2>3, <3>1
  <2>9. AddsUpTo(c, n)
    BY <2>2, <2>3, <2>5
  <2>10. \A k, l \in 1..Len(c) : c[k] < min /\ c[l] < min => k = l
    BY <2>2, <2>6
  <2>11. \A j \in 1..n : ~(j * min <= n /\ n <= j * max)
    BY <2>4
  <2> QED BY <2>2, <2>7, <2>8, <2>9, <2>10, <2>11
<1> QED BY <1>1, <1>2, <1>3

--------------------------------------------------------------------------------
(* Dividing an array *)

LEMMA CutIsMonotone ==
  ASSUME NEW s \in Seq(Nat), NEW cut, SumsUp(cut, s),
         NEW k \in 0..Len(s), NEW l \in 0..Len(s), k <= l
  PROVE  cut[k] \in Nat /\ cut[l] \in Nat /\ cut[k] <= cut[l]
<1> DEFINE L == Len(s)
           Bad == {m \in k..L : ~(cut[k] <= cut[m])}
<1>1. L \in Nat
  OBVIOUS
<1>2. /\ \A m \in 0..L : cut[m] \in Nat
      /\ \A m \in 1..L : cut[m] = cut[m - 1] + s[m] /\ s[m] \in Nat
  BY DEF SumsUp
<1>3. ASSUME Bad # {} PROVE FALSE
  <2>1. PICK m \in Bad : \A j \in Bad : m <= j
    <3>1. Bad \in SUBSET Nat
      OBVIOUS
    <3> HIDE DEF Bad
    <3> QED BY <1>3, <3>1, SmallestNumber
  <2>2. m \in k..L /\ ~(cut[k] <= cut[m])
    OBVIOUS
  <2>3. m # k
    BY <1>2, <2>2
  <2>4. m - 1 \in k..L /\ m - 1 \notin Bad
    <3>1. m - 1 \in k..L /\ ~(m <= m - 1)
      BY <1>1, <2>2, <2>3
    <3> HIDE DEF Bad
    <3> QED BY <2>1, <3>1
  <2>5. cut[k] <= cut[m - 1]
    BY <2>4
  <2>6. m \in 1..L /\ m - 1 \in 0..L
    BY <1>1, <2>2, <2>3
  <2>7. /\ cut[m] = cut[m - 1] + s[m] /\ s[m] \in Nat
        /\ cut[m - 1] \in Nat /\ cut[k] \in Nat
    BY <1>2, <2>6
  <2> HIDE DEF Bad
  <2> QED BY <2>2, <2>5, <2>7
<1>4. l \in k..L /\ l \notin Bad
  <2> HIDE DEF Bad
  <2> QED BY <1>1, <1>3
<1> QED BY <1>2, <1>4

(* Every place is in one part. *)
LEMMA CutCovers ==
  ASSUME NEW s \in Seq(Nat), NEW cut, SumsUp(cut, s), NEW p \in 1..cut[Len(s)]
  PROVE  \E k \in 1..Len(s) : p \in (cut[k - 1] + 1)..cut[k]
<1> DEFINE L == Len(s)
           Reach == {k \in 0..L : p <= cut[k]}
<1>1. L \in Nat
  OBVIOUS
<1>2. cut[0] = 0 /\ \A m \in 0..L : cut[m] \in Nat
  BY DEF SumsUp
<1>3. p \in Nat /\ p > 0 /\ p <= cut[L]
  BY <1>1, <1>2
<1>4. PICK k \in Reach : \A l \in Reach : k <= l
  <2>1. Reach \in SUBSET Nat /\ Reach # {}
    <3>1. L \in Reach
      BY <1>1, <1>3
    <3> QED BY <3>1
  <2> HIDE DEF Reach
  <2> QED BY <2>1, SmallestNumber
<1>5. k \in 0..L /\ p <= cut[k]
  OBVIOUS
<1>6. k # 0
  BY <1>2, <1>3, <1>5
<1>7. k \in 1..L /\ k - 1 \in 0..L /\ k - 1 \notin Reach
  <2>1. k \in 1..L /\ k - 1 \in 0..L /\ ~(k <= k - 1)
    BY <1>1, <1>5, <1>6
  <2> HIDE DEF Reach
  <2> QED BY <1>4, <2>1
<1>8. ~(p <= cut[k - 1])
  BY <1>7
<1> HIDE DEF Reach
<1>9. p \in (cut[k - 1] + 1)..cut[k]
  BY <1>2, <1>3, <1>5, <1>7, <1>8
<1> QED BY <1>7, <1>9

(* So many small sets have at most so many elements. *)
LEMMA UnionIsBounded ==
  ASSUME NEW c \in Nat, NEW f, NEW I \in SUBSET (1..c), NEW high \in Nat,
         \A g \in I : IsFiniteSet(f[g]) /\ Cardinality(f[g]) <= high
  PROVE  LET U == UNION {f[g] : g \in I}
         IN  IsFiniteSet(U) /\ Cardinality(U) <= Cardinality(I) * high
<1> DEFINE J(k) == {g \in I : g <= k}
           U(k) == UNION {f[g] : g \in J(k)}
           Good(k) == IsFiniteSet(U(k)) /\ Cardinality(U(k)) <= Cardinality(J(k)) * high
           Bad == {k \in 0..c : ~Good(k)}
<1>1. \A g \in I : g \in Nat /\ g > 0 /\ g <= c
  OBVIOUS
<1>2. ASSUME Bad # {} PROVE FALSE
  <2>1. PICK k \in Bad : \A l \in Bad : k <= l
    <3>1. Bad \in SUBSET Nat
      OBVIOUS
    <3> HIDE DEF Bad
    <3> QED BY <1>2, <3>1, SmallestNumber
  <2>2. k \in 0..c /\ ~Good(k)
    OBVIOUS
  <2>3. k # 0
    <3> SUFFICES ASSUME k = 0 PROVE FALSE
      OBVIOUS
    <3>1. J(k) = {}
      <4>1. \A g \in I : ~(g <= k)
        <5> HIDE DEF Bad
        <5> QED BY <1>1
      <4> HIDE DEF Bad
      <4> QED BY <4>1
    <3>2. U(k) = {}
      <4> HIDE DEF J, Bad
      <4> QED BY <3>1
    <3> HIDE DEF J, U, Bad
    <3> QED BY <2>2, <3>1, <3>2, FS_EmptySet
  <2>4. k - 1 \in 0..c /\ k - 1 \notin Bad
    <3>1. k - 1 \in 0..c /\ ~(k <= k - 1)
      BY <2>2, <2>3
    <3> HIDE DEF Bad
    <3> QED BY <2>1, <3>1
  <2>5. Good(k - 1)
    BY <2>4
  <2>6. CASE k \notin I
    <3>1. J(k) = J(k - 1)
      <4>1. \A g \in I : g <= k <=> g <= k - 1
        <5> HIDE DEF Bad
        <5> QED BY <1>1, <2>2, <2>6
      <4> HIDE DEF Bad
      <4> QED BY <4>1
    <3>2. U(k) = U(k - 1)
      <4> HIDE DEF J, Bad
      <4> QED BY <3>1
    <3> HIDE DEF J, U, Bad
    <3> QED BY <2>2, <2>5, <3>1, <3>2
  <2>7. CASE k \in I
    <3>1. J(k) = J(k - 1) \cup {k} /\ k \notin J(k - 1)
      <4>1. \A g \in I : (g <= k <=> g <= k - 1 \/ g = k) /\ k <= k /\ ~(k <= k - 1)
        <5> HIDE DEF Bad
        <5> QED BY <1>1, <2>2, <2>7
      <4> HIDE DEF Bad
      <4> QED BY <2>7, <4>1
    <3>2. U(k) = U(k - 1) \cup f[k]
      <4> HIDE DEF J, Bad
      <4> QED BY <3>1
    <3>3. IsFiniteSet(J(k - 1))
      <4>1. J(k - 1) \in SUBSET (1..c) /\ IsFiniteSet(1..c)
        BY CountTo
      <4> HIDE DEF J
      <4> QED BY <4>1, FS_Subset
    <3> HIDE DEF J, U, Bad
    <3>4. Cardinality(J(k)) = Cardinality(J(k - 1)) + 1 /\ Cardinality(J(k - 1)) \in Nat
      BY <3>1, <3>3, FS_AddElement, FS_CardinalityType
    <3>5. /\ IsFiniteSet(U(k))
          /\ Cardinality(U(k)) <= Cardinality(U(k - 1)) + Cardinality(f[k])
      <4>1. IsFiniteSet(U(k - 1)) /\ IsFiniteSet(f[k])
        BY <2>5, <2>7
      <4>2. /\ IsFiniteSet(U(k - 1) \cup f[k])
            /\ Cardinality(U(k - 1) \cup f[k]) =
                 Cardinality(U(k - 1)) + Cardinality(f[k]) - Cardinality(U(k - 1) \cap f[k])
        BY <4>1, FS_Union
      <4>3. /\ Cardinality(U(k - 1)) \in Nat /\ Cardinality(f[k]) \in Nat
            /\ Cardinality(U(k - 1) \cap f[k]) \in Nat
        BY <4>1, FS_CardinalityType, FS_Intersection
      <4> QED BY <3>2, <4>2, <4>3
    <3>6. Cardinality(U(k - 1)) \in Nat /\ Cardinality(f[k]) \in Nat /\ Cardinality(U(k)) \in Nat
      BY <2>5, <2>7, <3>5, FS_CardinalityType
    <3>7. Cardinality(J(k)) * high = (Cardinality(J(k - 1)) * high) + high
      BY <3>4
    <3>8. Cardinality(U(k - 1)) <= Cardinality(J(k - 1)) * high /\ Cardinality(f[k]) <= high
      BY <2>5, <2>7
    <3>9. Cardinality(J(k - 1)) * high \in Int
      BY <3>4
    <3> QED BY <2>2, <3>5, <3>6, <3>7, <3>8, <3>9
  <2> QED BY <2>6, <2>7
<1>3. Good(c)
  <2>1. c \notin Bad /\ c \in 0..c
    <3> HIDE DEF Bad
    <3> QED BY <1>2
  <2> HIDE DEF Good
  <2> QED BY <2>1
<1>4. J(c) = I
  BY <1>1
<1> HIDE DEF J
<1> QED BY <1>3, <1>4

(* The groups that Init makes. *)
LEMMA NumberedThrough ==
  ASSUME NEW c \in Nat, NEW n \in Nat, NEW upto \in [0..c -> 0..n], upto[0] = 0,
         \A k \in 1..c : upto[k] >= upto[k - 1],
         NEW g \in 1..c, NEW h \in 1..c, g # h
  PROVE  ((upto[g - 1] + 1)..upto[g]) \cap ((upto[h - 1] + 1)..upto[h]) = {}
<1> DEFINE s == [k \in 1..c |-> upto[k] - upto[k - 1]]
<1>1. \A k \in 0..c : upto[k] \in Nat
  OBVIOUS
<1>2. \A k \in 1..c : k \in 0..c /\ k - 1 \in 0..c
  OBVIOUS
<1>3. \A k \in 1..c : s[k] \in Nat /\ upto[k] = upto[k - 1] + s[k]
  BY <1>1, <1>2
<1>4. s \in Seq(Nat) /\ Len(s) = c
  <2>1. s \in [1..c -> Nat]
    BY <1>3
  <2> QED BY <2>1
<1>5. SumsUp(upto, s)
  <2> HIDE DEF s
  <2>1. upto \in [0..c -> Nat]
    BY <1>1
  <2> QED BY <1>3, <1>4, <2>1 DEF SumsUp
<1>6. \A k, l \in 0..c : k <= l => upto[k] <= upto[l]
  <2> HIDE DEF s
  <2> QED BY <1>4, <1>5, CutIsMonotone
<1>7. CASE g < h
  <2>1. upto[g] <= upto[h - 1]
    <3>1. g \in 0..c /\ h - 1 \in 0..c /\ g <= h - 1
      BY <1>7
    <3> QED BY <1>6, <3>1
  <2>2. upto[g] \in Nat /\ upto[h - 1] \in Nat
    BY <1>1, <1>2
  <2> QED BY <1>1, <1>2, <2>1, <2>2
<1>8. CASE h < g
  <2>1. upto[h] <= upto[g - 1]
    <3>1. h \in 0..c /\ g - 1 \in 0..c /\ h <= g - 1
      BY <1>8
    <3> QED BY <1>6, <3>1
  <2>2. upto[h] \in Nat /\ upto[g - 1] \in Nat
    BY <1>1, <1>2
  <2> QED BY <1>1, <1>2, <2>1, <2>2
<1> QED BY <1>7, <1>8

--------------------------------------------------------------------------------
(* The groups that have been filled *)

(* Every student of S has one place in the ranking. *)
Ranks(rk, S) ==
  /\ rk \in [1..Cardinality(S) -> S]
  /\ \A s \in S : \E k \in 1..Cardinality(S) : rk[k] = s
  /\ \A k, l \in 1..Cardinality(S) : rk[k] = rk[l] => k = l

Part(cut, rk, k) == {rk[p] : p \in (cut[k - 1] + 1)..cut[k]}

(* The filled groups have one part of the ranking after the other. *)
Divides(cut, rk, counts, filled) ==
  /\ SumsUp(cut, counts)
  /\ cut[Len(counts)] <= Len(rk)
  /\ Len(filled) <= Len(counts)
  /\ \A k \in 1..Len(filled) : filled[k].members = Part(cut, rk, k)

FilledGroups == Seq([id : GroupIds \cup {None}, members : SUBSET Student])

NoId(filled) == {k \in 1..Len(filled) : filled[k].id = None}

(* An id is available or in use, and no group without an id is one too many. *)
Named(filled, available, small) ==
  /\ available \subseteq small
  /\ \A k \in 1..Len(filled) :
       filled[k].id # None => filled[k].id \in small \ available
  /\ \A k, l \in 1..Len(filled) :
       filled[k].id = filled[l].id => k = l \/ filled[k].id = None
  /\ Cardinality(available) + Len(filled) = Cardinality(small) + Cardinality(NoId(filled))

LEMMA PartsDiffer ==
  ASSUME NEW S, IsFiniteSet(S), NEW rk, Ranks(rk, S), NEW counts \in Seq(Nat), NEW cut,
         SumsUp(cut, counts), cut[Len(counts)] <= Len(rk),
         NEW k \in 1..Len(counts)
  PROVE  /\ (cut[k - 1] + 1)..cut[k] \subseteq 1..Cardinality(S)
         /\ Part(cut, rk, k) \subseteq S
         /\ IsFiniteSet(Part(cut, rk, k))
         /\ Cardinality(Part(cut, rk, k)) = counts[k]
         /\ \A l \in 1..Len(counts) : k < l => cut[k] <= cut[l - 1]
         /\ \A l \in 1..Len(counts) : k # l => Part(cut, rk, k) \cap Part(cut, rk, l) = {}
<1> DEFINE n == Cardinality(S)
           Places(l) == (cut[l - 1] + 1)..cut[l]
<1>1. n \in Nat
  BY FS_CardinalityType
<1>2. Len(rk) = n
  BY <1>1 DEF Ranks
<1> HIDE DEF n
<1>3. \A l, m \in 0..Len(counts) : l <= m => cut[l] \in Nat /\ cut[m] \in Nat /\ cut[l] <= cut[m]
  BY CutIsMonotone
<1>4. Len(counts) \in Nat /\ \A l \in 1..Len(counts) : l \in 0..Len(counts) /\ l - 1 \in 0..Len(counts)
  OBVIOUS
<1>5. \A l \in 1..Len(counts) : /\ cut[l - 1] \in Nat /\ cut[l] \in Nat
                                /\ cut[l] <= cut[Len(counts)]
                                /\ cut[Len(counts)] \in Nat
  <2> SUFFICES ASSUME NEW l \in 1..Len(counts)
               PROVE  /\ cut[l - 1] \in Nat /\ cut[l] \in Nat
                      /\ cut[l] <= cut[Len(counts)]
                      /\ cut[Len(counts)] \in Nat
    OBVIOUS
  <2>1. l <= Len(counts) /\ l - 1 <= l /\ Len(counts) \in 0..Len(counts)
    BY <1>4
  <2> QED BY <1>3, <1>4, <2>1
<1>6. \A l \in 1..Len(counts) : Places(l) \subseteq 1..n
  BY <1>2, <1>5
<1>7. \A l \in 1..Len(counts) : Part(cut, rk, l) = {rk[p] : p \in Places(l)}
  BY DEF Part
<1>8. \A p \in 1..n : rk[p] \in S
  BY DEF Ranks, n
<1>9. \A p, q \in 1..n : rk[p] = rk[q] => p = q
  BY DEF Ranks, n
<1>10. ASSUME NEW l \in 1..Len(counts), NEW m \in 1..Len(counts), l < m
       PROVE  cut[l] <= cut[m - 1] /\ Part(cut, rk, l) \cap Part(cut, rk, m) = {}
  <2>1. cut[l] <= cut[m - 1]
    <3>1. l <= m - 1
      BY <1>10
    <3> QED BY <1>3, <1>4, <3>1
  <2>2. \A p \in Places(l), q \in Places(m) : p # q
    BY <1>5, <2>1
  <2> HIDE DEF Places
  <2> QED BY <1>6, <1>7, <1>9, <2>1, <2>2
<1>11. \A l \in 1..Len(counts) : k # l => Part(cut, rk, k) \cap Part(cut, rk, l) = {}
  <2> SUFFICES ASSUME NEW l \in 1..Len(counts), k # l
               PROVE  Part(cut, rk, k) \cap Part(cut, rk, l) = {}
    OBVIOUS
  <2>1. k < l \/ l < k
    OBVIOUS
  <2>2. k < l => Part(cut, rk, k) \cap Part(cut, rk, l) = {}
    BY <1>10
  <2>3. l < k => Part(cut, rk, l) \cap Part(cut, rk, k) = {}
    BY <1>10
  <2> QED BY <2>1, <2>2, <2>3
<1>12. IsFiniteSet(Part(cut, rk, k)) /\ Cardinality(Part(cut, rk, k)) = counts[k]
  <2>1. cut[k] = cut[k - 1] + counts[k] /\ counts[k] \in Nat
    BY DEF SumsUp
  <2> DEFINE a == cut[k - 1] + 1
             b == cut[k]
  <2>2. a \in Int /\ b \in Int
    BY <1>5
  <2>3. /\ IsFiniteSet({rk[p] : p \in a..b})
        /\ Cardinality({rk[p] : p \in a..b}) = IF a > b THEN 0 ELSE b - a + 1
    <3>1. \A p, q \in a..b : rk[p] = rk[q] => p = q
      <4>1. a..b \subseteq 1..n
        BY <1>6
      <4> HIDE DEF a, b
      <4> QED BY <1>9, <4>1
    <3> HIDE DEF a, b
    <3> QED BY <2>2, <3>1, CountPlaces
  <2>4. (IF cut[k - 1] + 1 > cut[k] THEN 0 ELSE cut[k] - (cut[k - 1] + 1) + 1) = counts[k]
    BY <1>5, <2>1
  <2> QED BY <1>7, <2>3, <2>4
<1>13. Part(cut, rk, k) \subseteq S
  <2> HIDE DEF Places
  <2> QED BY <1>6, <1>7, <1>8
<1> QED BY <1>6, <1>10, <1>11, <1>12, <1>13 DEF n

(* Filling the next group. *)
LEMMA DividesNext ==
  ASSUME NEW S \in SUBSET Student, IsFiniteSet(S), NEW rk, Ranks(rk, S),
         NEW counts \in Seq(Nat), NEW cut, NEW filled \in FilledGroups,
         Divides(cut, rk, counts, filled), Len(filled) < Len(counts),
         NEW id \in GroupIds \cup {None}, NEW first, first = cut[Len(filled)] + 1
  PROVE  LET last == first + counts[Len(filled) + 1] - 1
             new  == Append(filled, [id |-> id, members |-> {rk[p] : p \in first..last}])
         IN  /\ new \in FilledGroups
             /\ Divides(cut, rk, counts, new)
             /\ last + 1 = cut[Len(new)] + 1
             /\ Len(new) = Len(filled) + 1
             /\ \A k \in 1..Len(filled) : new[k] = filled[k]
             /\ new[Len(filled) + 1].id = id
<1> DEFINE last == first + counts[Len(filled) + 1] - 1
           group == [id |-> id, members |-> {rk[p] : p \in first..last}]
           new  == Append(filled, group)
           m == Len(filled) + 1
<1>1. Len(filled) \in Nat /\ m \in 1..Len(counts) /\ m - 1 = Len(filled) /\ Len(filled) \in 0..Len(counts)
  BY DEF FilledGroups
<1>2. SumsUp(cut, counts) /\ cut[Len(counts)] <= Len(rk)
  BY DEF Divides
<1>3. cut[m] = cut[m - 1] + counts[m] /\ cut[m - 1] \in Nat /\ counts[m] \in Nat
  BY <1>1, <1>2 DEF SumsUp
<1>4. first = cut[m - 1] + 1 /\ last = cut[m]
  <2>1. last = first + counts[m] - 1 /\ first = cut[m - 1] + 1
    BY <1>1
  <2> HIDE DEF last, m
  <2>2. \A f, x, y \in Int : f = x + 1 => f + y - 1 = x + y
    OBVIOUS
  <2>3. cut[m - 1] \in Int /\ counts[m] \in Int
    BY <1>3
  <2>4. first \in Int
    BY <2>1, <2>3
  <2>5. first + counts[m] - 1 = cut[m - 1] + counts[m]
    BY <2>1, <2>2, <2>3, <2>4
  <2> QED BY <1>3, <2>1, <2>5
<1> HIDE DEF last
<1>5. group.id = id /\ group.members = Part(cut, rk, m)
  BY <1>4 DEF Part
<1>6. Part(cut, rk, m) \subseteq S
  BY <1>1, <1>2, PartsDiffer
<1>7. group \in [id : GroupIds \cup {None}, members : SUBSET Student]
  BY <1>5, <1>6
<1> HIDE DEF group
<1>8. /\ new \in FilledGroups /\ Len(new) = m
      /\ \A k \in 1..Len(filled) : new[k] = filled[k]
      /\ new[m] = group
  BY <1>1, <1>7 DEF FilledGroups
<1> HIDE DEF new
<1>9. \A k \in 1..Len(new) : new[k].members = Part(cut, rk, k)
  <2>1. \A k \in 1..Len(filled) : filled[k].members = Part(cut, rk, k)
    BY DEF Divides
  <2>2. \A k \in 1..m : k = m \/ k \in 1..Len(filled)
    BY <1>1
  <2> HIDE DEF m
  <2> QED BY <1>5, <1>8, <2>1, <2>2
<1>10. Divides(cut, rk, counts, new)
  BY <1>1, <1>2, <1>8, <1>9 DEF Divides
<1>11. last + 1 = cut[Len(new)] + 1
  BY <1>4, <1>8
<1> QED BY <1>5, <1>8, <1>10, <1>11 DEF last, new, group

LEMMA NoIdIsFinite ==
  ASSUME NEW filled \in FilledGroups
  PROVE  IsFiniteSet(NoId(filled)) /\ Cardinality(NoId(filled)) \in Nat
<1>1. Len(filled) \in Nat
  BY DEF FilledGroups
<1>2. IsFiniteSet(1..Len(filled)) /\ NoId(filled) \in SUBSET (1..Len(filled))
  BY <1>1, CountTo DEF NoId
<1> QED BY <1>2, FS_Subset, FS_CardinalityType

(* It gets an id that is available, or none. *)
LEMMA NamedNext ==
  ASSUME NEW small \in SUBSET GroupIds, IsFiniteSet(small), None \notin GroupIds,
         NEW filled \in FilledGroups, NEW available, Named(filled, available, small),
         NEW new \in FilledGroups, Len(new) = Len(filled) + 1,
         \A k \in 1..Len(filled) : new[k] = filled[k],
         new[Len(filled) + 1].id \in available \cup {None}
  PROVE  Named(new, available \ {new[Len(filled) + 1].id}, small)
<1> DEFINE m == Len(filled) + 1
           id == new[m].id
<1>1. Len(filled) \in Nat /\ Len(new) = m
  BY DEF FilledGroups
<1>2. \A k \in 1..m : k = m \/ (k # m /\ k \in 1..Len(filled) /\ new[k] = filled[k])
  BY <1>1
<1>3. /\ available \subseteq small
      /\ \A k \in 1..Len(filled) :
           filled[k].id # None => filled[k].id \in small \ available
      /\ \A k, l \in 1..Len(filled) :
           filled[k].id = filled[l].id => k = l \/ filled[k].id = None
      /\ Cardinality(available) + Len(filled) = Cardinality(small) + Cardinality(NoId(filled))
  BY DEF Named
<1>4. id \in available \cup {None} /\ None \notin available /\ m \in 1..m /\ m \notin 1..Len(filled)
  BY <1>1, <1>3
<1> HIDE DEF m, id
<1>5. \A k \in 1..m : new[k].id # None => new[k].id \in small \ (available \ {id})
  <2> SUFFICES ASSUME NEW k \in 1..m, new[k].id # None
               PROVE  new[k].id \in small \ (available \ {id})
    OBVIOUS
  <2>1. CASE k = m
    BY <1>3, <1>4, <2>1 DEF id
  <2>2. CASE k # m
    BY <1>2, <1>3, <2>2
  <2> QED BY <2>1, <2>2
<1>6. \A k, l \in 1..m : new[k].id = new[l].id => k = l \/ new[k].id = None
  <2>1. ASSUME NEW k \in 1..Len(filled), filled[k].id = id PROVE id = None
    BY <1>3, <1>4, <2>1
  <2> QED BY <1>2, <1>3, <2>1 DEF id
<1>7. IsFiniteSet(available) /\ Cardinality(available) \in Nat /\ Cardinality(small) \in Nat
  BY <1>3, FS_Subset, FS_CardinalityType
<1>8. /\ IsFiniteSet(NoId(filled)) /\ Cardinality(NoId(filled)) \in Nat
  BY NoIdIsFinite
<1>9. CASE id = None
  <2>1. available \ {id} = available
    BY <1>4, <1>9
  <2>2. NoId(new) = NoId(filled) \cup {m}
    <3>1. \A k : k \in 1..m <=> k \in 1..Len(filled) \/ k = m
      BY <1>2, <1>4, <1>1 DEF m
    <3> QED BY <1>1, <1>2, <1>9, <3>1 DEF NoId, id
  <2>3. m \notin NoId(filled)
    BY <1>4 DEF NoId
  <2>4. Cardinality(NoId(new)) = Cardinality(NoId(filled)) + 1
    BY <1>8, <2>2, <2>3, FS_AddElement
  <2>5. Cardinality(available \ {id}) + Len(new) = Cardinality(small) + Cardinality(NoId(new))
    <3>1. Cardinality(available \ {id}) = Cardinality(available)
      BY <2>1
    <3>2. Len(new) = Len(filled) + 1
      OBVIOUS
    <3> QED BY <1>1, <1>3, <1>7, <1>8, <2>4, <3>1, <3>2
  <2> QED BY <1>1, <1>3, <1>5, <1>6, <2>5 DEF Named, id, m
<1>10. CASE id # None
  <2>1. id \in available
    BY <1>4, <1>10
  <2>2. NoId(new) = NoId(filled)
    <3>1. \A k : k \in 1..m <=> k \in 1..Len(filled) \/ k = m
      BY <1>2, <1>4, <1>1 DEF m
    <3> QED BY <1>1, <1>2, <1>10, <3>1 DEF NoId, id
  <2>3. Cardinality(available \ {id}) = Cardinality(available) - 1
    BY <1>7, <2>1, FS_RemoveElement
  <2>4. Cardinality(available \ {id}) + Len(new) = Cardinality(small) + Cardinality(NoId(new))
    BY <1>1, <1>3, <1>7, <1>8, <2>2, <2>3 DEF m
  <2> QED BY <1>1, <1>3, <1>5, <1>6, <2>4 DEF Named, id, m
<1> QED BY <1>9, <1>10

(* A group without an id gets one that is available. *)
LEMMA NamedLater ==
  ASSUME NEW small \in SUBSET GroupIds, IsFiniteSet(small), None \notin GroupIds,
         NEW filled \in FilledGroups, NEW available, Named(filled, available, small),
         NEW u \in NoId(filled), NEW id \in available
  PROVE  LET new == [filled EXCEPT ![u].id = id]
         IN  /\ new \in FilledGroups
             /\ Len(new) = Len(filled)
             /\ \A k \in 1..Len(filled) : new[k].members = filled[k].members
             /\ Named(new, available \ {id}, small)
<1> DEFINE new == [filled EXCEPT ![u].id = id]
<1>1. Len(filled) \in Nat /\ u \in 1..Len(filled) /\ filled[u].id = None
  BY DEF FilledGroups, NoId
<1>2. /\ available \subseteq small
      /\ \A k \in 1..Len(filled) :
           filled[k].id # None => filled[k].id \in small \ available
      /\ \A k, l \in 1..Len(filled) :
           filled[k].id = filled[l].id => k = l \/ filled[k].id = None
      /\ Cardinality(available) + Len(filled) = Cardinality(small) + Cardinality(NoId(filled))
  BY DEF Named
<1>3. id \in GroupIds /\ id # None
  BY <1>2
<1>4. /\ new \in FilledGroups
      /\ Len(new) = Len(filled)
      /\ \A k \in 1..Len(filled) :
           /\ new[k].members = filled[k].members
           /\ new[k].id = IF k = u THEN id ELSE filled[k].id
  <2> DEFINE G == [id : GroupIds \cup {None}, members : SUBSET Student]
  <2>1. \A k \in 1..Len(filled) : filled[k] \in G
    <3>1. filled \in Seq(G)
      BY DEF FilledGroups
    <3> HIDE DEF G
    <3> QED BY <3>1
  <2>2. new = [k \in 1..Len(filled) |-> IF k = u THEN [filled[u] EXCEPT !.id = id] ELSE filled[k]]
    BY DEF FilledGroups
  <2>3. /\ [filled[u] EXCEPT !.id = id] \in G
        /\ [filled[u] EXCEPT !.id = id].id = id
        /\ [filled[u] EXCEPT !.id = id].members = filled[u].members
    BY <1>1, <1>3, <2>1
  <2> HIDE DEF new, G
  <2>4. new \in [1..Len(filled) -> G]
    BY <2>1, <2>2, <2>3
  <2>5. new \in Seq(G) /\ Len(new) = Len(filled)
    BY <1>1, <2>4
  <2> QED BY <2>2, <2>3, <2>5 DEF FilledGroups, G
<1> HIDE DEF new
<1>5. \A k \in 1..Len(new) : new[k].id # None => new[k].id \in small \ (available \ {id})
  BY <1>2, <1>4
<1>6. \A k, l \in 1..Len(new) : new[k].id = new[l].id => k = l \/ new[k].id = None
  <2>1. \A k \in 1..Len(filled) : filled[k].id # id
    BY <1>2, <1>3
  <2> QED BY <1>2, <1>4, <2>1
<1>7. IsFiniteSet(available) /\ Cardinality(available) \in Nat /\ Cardinality(small) \in Nat
  BY <1>2, FS_Subset, FS_CardinalityType
<1>8. IsFiniteSet(NoId(filled)) /\ Cardinality(NoId(filled)) \in Nat
  BY NoIdIsFinite
<1>9. NoId(new) = NoId(filled) \ {u}
  BY <1>3, <1>4 DEF NoId
<1>10. /\ Cardinality(NoId(new)) = Cardinality(NoId(filled)) - 1
       /\ Cardinality(available \ {id}) = Cardinality(available) - 1
  <2>1. Cardinality(NoId(filled) \ {u}) = Cardinality(NoId(filled)) - 1
    BY <1>8, FS_RemoveElement
  <2>2. Cardinality(available \ {id}) = Cardinality(available) - 1
    BY <1>7, FS_RemoveElement
  <2> QED BY <1>9, <2>1, <2>2
<1>11. Cardinality(available \ {id}) + Len(new) = Cardinality(small) + Cardinality(NoId(new))
  <2>1. Len(new) = Len(filled)
    BY <1>4
  <2>2. Cardinality(available) + Len(filled) = Cardinality(small) + Cardinality(NoId(filled))
    BY <1>2
  <2> QED BY <1>1, <1>7, <1>8, <1>10, <2>1, <2>2
<1>12. Named(new, available \ {id}, small)
  BY <1>2, <1>5, <1>6, <1>11 DEF Named
<1> QED BY <1>4, <1>12 DEF new

--------------------------------------------------------------------------------
(* The inductive invariant of the strategy that merges by activity *)

GroupsAreDisjoint ==
  /\ size \in Sizes
  /\ groups \in [GroupIds -> SUBSET Student]
  /\ \A g, h \in GroupIds : g # h => groups[g] \cap groups[h] = {}

(* Once there is a ranking: *)
Ranking ==
  /\ invalidGroups # {}
  /\ Ranks(ranked, studentsInInvalidGroups)
  /\ activity # None =>
       /\ activity \in [studentsInInvalidGroups -> Records]
       /\ \A k, l \in 1..Len(ranked) : k < l => Before(activity, ranked[k], ranked[l])

(* Once there are sizes: *)
Filling ==
  /\ sizeMax > 0 \/ Len(ranked) <= sizeMin
  /\ sizes = calculateIdealGroupSizes(Len(ranked), sizeMin, sizeMax)
  /\ merged \in FilledGroups
  /\ \E cut : Divides(cut, ranked, sizes, merged) /\ firstMemberIndex = cut[Len(merged)] + 1
  /\ Named(merged, availableIds, invalidGroups)

(* Once all is done: *)
Filled ==
  /\ Ranking /\ Filling
  /\ Len(merged) = Len(sizes)
  /\ NoId(merged) = {} \/ availableIds = {}

StrategyInv ==
  /\ GroupsAreDisjoint
  /\ pc \in {"rank", "sizes", "failed", "fill", "done"}
  /\ pc \in {"rank", "sizes"} => merged = << >> /\ firstMemberIndex = 1
  /\ pc = "sizes" => Ranking
  /\ pc = "fill" => Ranking /\ Filling
  /\ pc = "done" => (invalidGroups = {} /\ merged = << >>) \/ Filled

(* Every student of a small group is in one of them, and each has one. *)
LEMMA SmallGroupsAre ==
  ASSUME ConstantsOK, GroupsAreDisjoint
  PROVE  /\ sizeMin \in Nat /\ sizeMax \in Nat
         /\ invalidGroups \in SUBSET GroupIds /\ IsFiniteSet(invalidGroups)
         /\ studentsInInvalidGroups \in SUBSET Student
         /\ IsFiniteSet(studentsInInvalidGroups)
         /\ \A g \in GroupIds : \A s \in groups[g] : groupId(s) = g
         /\ \A s \in studentsInInvalidGroups :
              groupId(s) \in invalidGroups /\ s \in groups[groupId(s)]
         /\ \A g \in invalidGroups : \E s \in studentsInInvalidGroups : groupId(s) = g
<1>1. sizeMin \in Nat /\ sizeMax \in Nat
  BY DEF ConstantsOK, GroupsAreDisjoint, sizeMin, sizeMax
<1>2. Count \in Nat /\ MaxStudents \in Nat
  BY DEF ConstantsOK
<1>3. IsFiniteSet(GroupIds) /\ IsFiniteSet(Student)
  BY <1>2, CountTo DEF GroupIds, Student
<1>4. invalidGroups \in SUBSET GroupIds
  BY DEF invalidGroups
<1>5. studentsInInvalidGroups \in SUBSET Student
  BY <1>4 DEF studentsInInvalidGroups, GroupsAreDisjoint
<1>6. IsFiniteSet(invalidGroups) /\ IsFiniteSet(studentsInInvalidGroups)
  BY <1>3, <1>4, <1>5, FS_Subset
<1>7. ASSUME NEW g \in GroupIds, NEW s \in groups[g] PROVE groupId(s) = g
  <2>1. \A h \in GroupIds : s \in groups[h] => h = g
    BY <1>7 DEF GroupsAreDisjoint
  <2> QED BY <1>7, <2>1 DEF groupId
<1>8. \A s \in studentsInInvalidGroups : \E g \in invalidGroups : s \in groups[g]
  BY DEF studentsInInvalidGroups
<1>9. ASSUME NEW g \in invalidGroups PROVE \E s \in studentsInInvalidGroups : s \in groups[g]
  <2>1. groups[g] # {}
    BY DEF invalidGroups, Small
  <2> QED BY <2>1 DEF studentsInInvalidGroups
<1> QED BY <1>1, <1>4, <1>5, <1>6, <1>7, <1>8, <1>9

LEMMA GroupsStay ==
  ASSUME UNCHANGED <<size, groups>>
  PROVE  /\ sizeMin' = sizeMin /\ sizeMax' = sizeMax
         /\ invalidGroups' = invalidGroups
         /\ studentsInInvalidGroups' = studentsInInvalidGroups
         /\ GroupsAreDisjoint' <=> GroupsAreDisjoint
<1>1. sizeMin' = sizeMin /\ sizeMax' = sizeMax
  BY DEF sizeMin, sizeMax
<1>2. invalidGroups' = invalidGroups
  BY <1>1 DEF invalidGroups, Small
<1>3. studentsInInvalidGroups' = studentsInInvalidGroups
  BY <1>2 DEF studentsInInvalidGroups
<1> QED BY <1>1, <1>2, <1>3 DEF GroupsAreDisjoint

LEMMA RankingLength ==
  ASSUME ConstantsOK, GroupsAreDisjoint, Ranking
  PROVE  /\ Len(ranked) = Cardinality(studentsInInvalidGroups)
         /\ Len(ranked) \in Nat /\ Len(ranked) > 0
         /\ \A k \in 1..Len(ranked) : ranked[k] \in studentsInInvalidGroups
<1> DEFINE S == studentsInInvalidGroups
<1>1. IsFiniteSet(S) /\ Cardinality(S) \in Nat
  BY SmallGroupsAre, FS_CardinalityType
<1>2. S # {}
  BY SmallGroupsAre DEF Ranking
<1>3. Cardinality(S) # 0
  <2> HIDE DEF S
  <2> QED BY <1>1, <1>2, FS_EmptySet
<1>4. ranked \in [1..Cardinality(S) -> S]
  BY DEF Ranking, Ranks
<1> HIDE DEF S
<1>5. Len(ranked) = Cardinality(S)
  BY <1>1, <1>4
<1> QED BY <1>1, <1>3, <1>4, <1>5 DEF S

LEMMA StrategyInit ==
  ASSUME ConstantsOK, Init
  PROVE  StrategyInv
<1>1. PICK upto \in [0..Count -> 0..MaxStudents] :
        /\ upto[0] = 0
        /\ \A k \in GroupIds : upto[k] - upto[k - 1] \in 0..MaxMembers
        /\ groups = [k \in GroupIds |-> (upto[k - 1] + 1)..upto[k]]
  BY DEF Init
<1>2. Count \in Nat /\ MaxStudents \in Nat /\ MaxMembers \in Nat
  BY DEF ConstantsOK
<1>3. \A k \in 0..Count : upto[k] \in Nat /\ upto[k] <= MaxStudents
  BY <1>1, <1>2
<1>4. \A k \in 1..Count : k \in 0..Count /\ k - 1 \in 0..Count /\ upto[k] >= upto[k - 1]
  <2> SUFFICES ASSUME NEW k \in 1..Count
               PROVE  k \in 0..Count /\ k - 1 \in 0..Count /\ upto[k] >= upto[k - 1]
    OBVIOUS
  <2>1. k \in 0..Count /\ k - 1 \in 0..Count
    BY <1>2
  <2>2. upto[k] - upto[k - 1] \in 0..MaxMembers
    BY <1>1 DEF GroupIds
  <2> QED BY <1>2, <1>3, <2>1, <2>2
<1>5. \A g, h \in 1..Count : g # h =>
        ((upto[g - 1] + 1)..upto[g]) \cap ((upto[h - 1] + 1)..upto[h]) = {}
  BY <1>1, <1>2, <1>4, NumberedThrough
<1>6. \A g \in GroupIds : groups[g] = (upto[g - 1] + 1)..upto[g]
  BY <1>1
<1>7. \A g \in GroupIds : groups[g] \subseteq Student
  <2> SUFFICES ASSUME NEW g \in GroupIds PROVE (upto[g - 1] + 1)..upto[g] \subseteq 1..MaxStudents
    BY <1>6 DEF Student
  <2>1. upto[g - 1] \in Nat /\ upto[g] \in Nat /\ upto[g] <= MaxStudents
    BY <1>3, <1>4 DEF GroupIds
  <2> QED BY <1>2, <2>1
<1>8. groups \in [GroupIds -> SUBSET Student]
  BY <1>1, <1>7
<1>9. \A g, h \in GroupIds : g # h => groups[g] \cap groups[h] = {}
  BY <1>5, <1>6 DEF GroupIds
<1>10. size \in Sizes /\ pc = "rank" /\ merged = << >> /\ firstMemberIndex = 1
  BY DEF Init
<1> QED BY <1>8, <1>9, <1>10 DEF StrategyInv, GroupsAreDisjoint

LEMMA RankStep ==
  ASSUME ConstantsOK, StrategyInv, Rank
  PROVE  StrategyInv'
<1> DEFINE S == studentsInInvalidGroups
           n == Cardinality(S)
<1>1. GroupsAreDisjoint /\ merged = << >> /\ firstMemberIndex = 1
  BY DEF StrategyInv, Rank
<1>2. /\ S \in SUBSET Student /\ IsFiniteSet(S) /\ n \in Nat
  BY <1>1, SmallGroupsAre, FS_CardinalityType
<1>3. S \in SUBSET Int
  BY <1>2 DEF Student
<1>4. \/ /\ activity' \in [S -> Records]
         /\ ranked' = sortStudentsByActivity(S, activity')
      \/ activity' = None /\ ranked' \in SetToSeqs(S)
  BY DEF Rank
<1>5. /\ UNCHANGED <<size, groups>> /\ merged' = merged
      /\ firstMemberIndex' = firstMemberIndex /\ pc' = "sizes" /\ invalidGroups # {}
  BY DEF Rank
<1> HIDE DEF S
<1> DEFINE Ok == /\ Ranks(ranked', S)
                 /\ activity' # None =>
                      /\ activity' \in [S -> Records]
                      /\ \A k, l \in 1..Len(ranked') :
                           k < l => Before(activity', ranked'[k], ranked'[l])
<1>6. Ok
  <2>1. CASE /\ activity' \in [S -> Records]
             /\ ranked' = sortStudentsByActivity(S, activity')
    <3>1. /\ ranked' \in [1..n -> S]
          /\ \A s \in S : \E k \in 1..n : ranked'[k] = s
          /\ \A k, l \in 1..n : ranked'[k] = ranked'[l] => k = l
          /\ \A k, l \in 1..n : k < l => Before(activity', ranked'[k], ranked'[l])
      BY <1>2, <1>3, <2>1, RankingIs
    <3>2. Len(ranked') = n
      BY <1>2, <3>1
    <3> QED BY <2>1, <3>1, <3>2 DEF Ranks
  <2>2. CASE activity' = None /\ ranked' \in SetToSeqs(S)
    <3>1. /\ ranked' \in [1..n -> S]
          /\ \A k, l \in 1..n : k # l => ranked'[k] # ranked'[l]
      BY <2>2 DEF SetToSeqs
    <3>2. \A s \in S : \E k \in 1..n : ranked'[k] = s
      <4>1. ranked' \in Injection(1..n, S)
        BY <3>1, Fun_IsInj
      <4>2. IsFiniteSet(1..n) /\ Cardinality(1..n) = Cardinality(S)
        BY <1>2, CountTo
      <4>3. ranked' \in Surjection(1..n, S)
        BY <1>2, <4>1, <4>2, FS_Injection
      <4> QED BY <4>3 DEF Surjection
    <3> QED BY <2>2, <3>1, <3>2 DEF Ranks
  <2> QED BY <1>4, <2>1, <2>2 DEF S
<1>7. Ranking'
  <2>1. invalidGroups' = invalidGroups /\ studentsInInvalidGroups' = S
    BY <1>5, GroupsStay DEF S
  <2> QED BY <1>5, <1>6, <2>1 DEF Ranking
<1> QED BY <1>1, <1>5, <1>7, GroupsStay DEF StrategyInv

LEMMA ChooseSizesStep ==
  ASSUME ConstantsOK, StrategyInv, ChooseSizes
  PROVE  StrategyInv'
<1> DEFINE n == Len(ranked)
           counts == calculateIdealGroupSizes(n, sizeMin, sizeMax)
<1>1. GroupsAreDisjoint /\ Ranking /\ merged = << >> /\ firstMemberIndex = 1
  BY DEF StrategyInv, ChooseSizes
<1>2. /\ UNCHANGED <<size, groups, activity, ranked, firstMemberIndex, merged>>
      /\ pc' = IF Fails THEN "failed" ELSE "fill"
      /\ ~Fails => sizes' = counts
      /\ availableIds' = {groupId(ranked[k]) : k \in 1..n}
  BY DEF ChooseSizes
<1>3. /\ sizeMin' = sizeMin /\ sizeMax' = sizeMax
      /\ invalidGroups' = invalidGroups
      /\ studentsInInvalidGroups' = studentsInInvalidGroups
      /\ GroupsAreDisjoint'
  BY <1>1, <1>2, GroupsStay
<1>4. CASE Fails
  BY <1>1, <1>2, <1>3, <1>4 DEF StrategyInv
<1>5. CASE ~Fails
  <2>1. n \in Nat /\ sizeMin \in Nat /\ sizeMax \in Nat
    BY <1>1, SmallGroupsAre, RankingLength
  <2>2. sizeMax > 0 \/ n <= sizeMin
    BY <1>5, <2>1 DEF Fails
  <2> HIDE DEF n
  <2>3. counts \in Seq(Nat) /\ \E m \in 0..n : AddsUpTo(counts, m)
    BY <2>1, <2>2, SizesAddUp
  <2> HIDE DEF counts
  <2>4. PICK cut : SumsUp(cut, counts) /\ cut[Len(counts)] \in 0..n
    BY <2>3 DEF AddsUpTo
  <2>5. Divides(cut, ranked, counts, << >>) /\ cut[0] + 1 = 1 /\ Len(<< >>) = 0
    <3>1. cut[Len(counts)] <= Len(ranked)
      BY <2>1, <2>4 DEF n
    <3>2. cut[0] = 0
      BY <2>4 DEF SumsUp
    <3>3. Len(<< >>) <= Len(counts) /\ \A k \in 1..Len(<< >>) : FALSE
      BY <2>3
    <3> QED BY <2>4, <3>1, <3>2, <3>3 DEF Divides
  <2>6. availableIds' = invalidGroups
    <3>1. \A k \in 1..n : ranked[k] \in studentsInInvalidGroups
      BY <1>1, RankingLength DEF n
    <3>2. \A s \in studentsInInvalidGroups : \E k \in 1..n : ranked[k] = s
      BY <1>1, RankingLength DEF Ranking, Ranks, n
    <3>3. /\ \A s \in studentsInInvalidGroups : groupId(s) \in invalidGroups
          /\ \A g \in invalidGroups : \E s \in studentsInInvalidGroups : groupId(s) = g
      BY <1>1, SmallGroupsAre
    <3>4. \A g \in invalidGroups : \E k \in 1..n : groupId(ranked[k]) = g
      BY <3>2, <3>3
    <3>5. \A k \in 1..n : groupId(ranked[k]) \in invalidGroups
      BY <3>1, <3>3
    <3> QED BY <1>2, <3>4, <3>5 DEF n
  <2>7. << >> \in FilledGroups /\ NoId(<< >>) = {}
    BY DEF FilledGroups, NoId
  <2>8. Named(<< >>, invalidGroups, invalidGroups)
    <3>1. Cardinality(invalidGroups) + Len(<< >>) = Cardinality(invalidGroups) + Cardinality({})
      <4>1. Cardinality(invalidGroups) \in Nat
        BY <1>1, SmallGroupsAre, FS_CardinalityType
      <4> QED BY <4>1, FS_EmptySet
    <3>2. \A k \in 1..Len(<< >>) : FALSE
      OBVIOUS
    <3> QED BY <2>7, <3>1, <3>2 DEF Named
  <2>9. Filling'
    <3>1. /\ merged' = << >> /\ ranked' = ranked /\ sizes' = counts
          /\ firstMemberIndex' = 1
      BY <1>1, <1>2, <1>5
    <3>2. \E c : Divides(c, ranked, counts, << >>) /\ 1 = c[Len(<< >>)] + 1
      BY <2>5
    <3> QED BY <1>3, <2>2, <2>6, <2>7, <2>8, <3>1, <3>2 DEF Filling, counts, n
  <2>10. Ranking'
    BY <1>1, <1>2, <1>3 DEF Ranking
  <2>11. pc' = "fill"
    BY <1>2, <1>5
  <2> QED BY <1>3, <2>9, <2>10, <2>11 DEF StrategyInv
<1> QED BY <1>4, <1>5

LEMMA FillStep ==
  ASSUME ConstantsOK, StrategyInv, Fill
  PROVE  StrategyInv'
<1> DEFINE last    == firstMemberIndex + sizes[Len(merged) + 1] - 1
           named   == {k \in firstMemberIndex..last : groupId(ranked[k]) \in availableIds}
           id      == IF named = {} THEN None ELSE groupId(ranked[Min(named)])
           members == {ranked[k] : k \in firstMemberIndex..last}
           S == studentsInInvalidGroups
<1>1. GroupsAreDisjoint /\ Ranking /\ Filling /\ pc = "fill"
  BY DEF StrategyInv, Fill
<1>2. /\ Len(merged) < Len(sizes)
      /\ merged' = Append(merged, [id |-> id, members |-> members])
      /\ availableIds' = availableIds \ {id}
      /\ firstMemberIndex' = last + 1
      /\ UNCHANGED <<pc, size, groups, activity, ranked, sizes>>
  BY DEF Fill
<1>3. PICK cut : Divides(cut, ranked, sizes, merged) /\ firstMemberIndex = cut[Len(merged)] + 1
  BY <1>1 DEF Filling
<1>4. /\ S \in SUBSET Student /\ IsFiniteSet(S) /\ Ranks(ranked, S)
      /\ invalidGroups \in SUBSET GroupIds /\ IsFiniteSet(invalidGroups)
      /\ merged \in FilledGroups
      /\ Named(merged, availableIds, invalidGroups)
      /\ availableIds \subseteq invalidGroups
      /\ None \notin GroupIds
  BY <1>1, SmallGroupsAre DEF Ranking, Filling, Named, ConstantsOK
<1>5. sizes \in Seq(Nat)
  BY <1>1, SizesAddUp, SmallGroupsAre, RankingLength DEF Filling
<1>6. id \in availableIds \cup {None}
  <2> SUFFICES ASSUME named # {} PROVE groupId(ranked[Min(named)]) \in availableIds
    OBVIOUS
  <2>1. Len(merged) \in 0..Len(sizes)
    BY <1>2, <1>4, <1>5 DEF FilledGroups
  <2>2. cut[Len(merged)] \in Nat
    BY <1>3, <2>1 DEF Divides, SumsUp
  <2>3. named \in SUBSET Nat
    BY <1>3, <2>2
  <2>4. Min(named) \in named
    <3> HIDE DEF named
    <3> QED BY <2>3, MinIs
  <2> QED BY <2>4
<1>7. id \in GroupIds \cup {None}
  BY <1>4, <1>6
<1> HIDE DEF id, S
<1>8. /\ merged' \in FilledGroups
      /\ Divides(cut, ranked, sizes, merged')
      /\ last + 1 = cut[Len(merged')] + 1
      /\ Len(merged') = Len(merged) + 1
      /\ \A k \in 1..Len(merged) : merged'[k] = merged[k]
      /\ merged'[Len(merged) + 1].id = id
  <2> DEFINE new == Append(merged, [id |-> id, members |-> members])
  <2>1. /\ new \in FilledGroups
        /\ Divides(cut, ranked, sizes, new)
        /\ last + 1 = cut[Len(new)] + 1
        /\ Len(new) = Len(merged) + 1
        /\ \A k \in 1..Len(merged) : new[k] = merged[k]
        /\ new[Len(merged) + 1].id = id
    <3>1. Len(merged) < Len(sizes)
      BY <1>2
    <3> QED BY <1>3, <1>4, <1>5, <1>7, <3>1, DividesNext
  <2>2. merged' = new
    BY <1>2
  <2> HIDE DEF new
  <2> QED BY <2>1, <2>2
<1>9. Named(merged', availableIds', invalidGroups)
  BY <1>2, <1>4, <1>6, <1>8, NamedNext
<1>10. /\ sizeMin' = sizeMin /\ sizeMax' = sizeMax
       /\ invalidGroups' = invalidGroups
       /\ studentsInInvalidGroups' = studentsInInvalidGroups
       /\ GroupsAreDisjoint'
  BY <1>1, <1>2, GroupsStay
<1>11. Ranking'
  BY <1>1, <1>2, <1>10 DEF Ranking
<1>12. Filling'
  <2>1. \E c : Divides(c, ranked, sizes, merged') /\ firstMemberIndex' = c[Len(merged')] + 1
    BY <1>2, <1>3, <1>8
  <2>2. /\ sizeMax > 0 \/ Len(ranked) <= sizeMin
        /\ sizes = calculateIdealGroupSizes(Len(ranked), sizeMin, sizeMax)
    BY <1>1 DEF Filling
  <2> HIDE DEF last, members
  <2> QED BY <1>2, <1>8, <1>9, <1>10, <2>1, <2>2 DEF Filling
<1> QED BY <1>1, <1>2, <1>10, <1>11, <1>12 DEF StrategyInv

LEMMA NameGroupStep ==
  ASSUME ConstantsOK, StrategyInv, NameGroup
  PROVE  StrategyInv'
<1> DEFINE places == {InsertedAt(g) : g \in availableIds}
           id == groupId(ranked[Max(places)])
           u == Min(Unnamed)
<1>1. GroupsAreDisjoint /\ Ranking /\ Filling /\ pc = "fill"
  BY DEF StrategyInv, NameGroup
<1>2. /\ Unnamed # {} /\ availableIds # {}
      /\ merged' = [merged EXCEPT ![u].id = id]
      /\ availableIds' = availableIds \ {id}
      /\ UNCHANGED <<pc, size, groups, activity, ranked, sizes, firstMemberIndex>>
  BY DEF NameGroup
<1>3. PICK cut : Divides(cut, ranked, sizes, merged) /\ firstMemberIndex = cut[Len(merged)] + 1
  BY <1>1 DEF Filling
<1>4. /\ invalidGroups \in SUBSET GroupIds /\ IsFiniteSet(invalidGroups)
      /\ merged \in FilledGroups
      /\ Named(merged, availableIds, invalidGroups)
      /\ availableIds \subseteq invalidGroups
      /\ None \notin GroupIds
  BY <1>1, SmallGroupsAre DEF Filling, Named, ConstantsOK
<1>5. u \in NoId(merged)
  <2>1. Unnamed = NoId(merged) /\ Unnamed \in SUBSET Nat
    BY DEF Unnamed, NoId
  <2> QED BY <1>2, <2>1, MinIs
<1>6. id \in availableIds
  <2> DEFINE n == Len(ranked)
  <2>1. n \in Nat
    BY <1>1, RankingLength
  <2>2. ASSUME NEW g \in availableIds
        PROVE  InsertedAt(g) \in 1..n /\ groupId(ranked[InsertedAt(g)]) = g
    <3> DEFINE P == {k \in 1..n : groupId(ranked[k]) = g}
    <3>1. PICK s \in studentsInInvalidGroups : groupId(s) = g
      BY <1>1, <1>4, SmallGroupsAre
    <3>2. PICK k \in 1..n : ranked[k] = s
      BY <1>1, RankingLength DEF Ranking, Ranks
    <3>3. k \in P /\ P \in SUBSET Nat
      BY <2>1, <3>1, <3>2
    <3>4. Min(P) \in P
      <4> HIDE DEF P
      <4> QED BY <3>3, MinIs
    <3>5. InsertedAt(g) = Min(P)
      BY Zenon DEF InsertedAt
    <3> QED BY <3>4, <3>5
  <2> HIDE DEF n
  <2>3. places \in SUBSET Nat /\ places # {} /\ \A m \in places : m <= n
    BY <1>2, <2>1, <2>2
  <2>4. Max(places) \in places
    <3> HIDE DEF places
    <3> QED BY <2>1, <2>3, MaxIs
  <2>5. PICK g \in availableIds : Max(places) = InsertedAt(g)
    BY <2>4
  <2> HIDE DEF places
  <2> QED BY <2>2, <2>5
<1> HIDE DEF id, u
<1>7. /\ merged' \in FilledGroups
      /\ Len(merged') = Len(merged)
      /\ \A k \in 1..Len(merged) : merged'[k].members = merged[k].members
      /\ Named(merged', availableIds', invalidGroups)
  <2> DEFINE new == [merged EXCEPT ![u].id = id]
  <2>1. /\ new \in FilledGroups
        /\ Len(new) = Len(merged)
        /\ \A k \in 1..Len(merged) : new[k].members = merged[k].members
        /\ Named(new, availableIds \ {id}, invalidGroups)
    BY <1>4, <1>5, <1>6, NamedLater
  <2>2. merged' = new /\ availableIds' = availableIds \ {id}
    BY <1>2
  <2> HIDE DEF new
  <2> QED BY <2>1, <2>2
<1>8. /\ sizeMin' = sizeMin /\ sizeMax' = sizeMax
      /\ invalidGroups' = invalidGroups
      /\ studentsInInvalidGroups' = studentsInInvalidGroups
      /\ GroupsAreDisjoint'
  BY <1>1, <1>2, GroupsStay
<1>9. Ranking'
  BY <1>1, <1>2, <1>8 DEF Ranking
<1>10. Filling'
  <2>1. Divides(cut, ranked, sizes, merged')
    BY <1>3, <1>7 DEF Divides
  <2>2. \E c : Divides(c, ranked, sizes, merged') /\ firstMemberIndex = c[Len(merged')] + 1
    BY <1>3, <1>7, <2>1
  <2>3. /\ sizeMax > 0 \/ Len(ranked) <= sizeMin
        /\ sizes = calculateIdealGroupSizes(Len(ranked), sizeMin, sizeMax)
    BY <1>1 DEF Filling
  <2> QED BY <1>2, <1>7, <1>8, <2>2, <2>3 DEF Filling
<1> QED BY <1>1, <1>2, <1>8, <1>9, <1>10 DEF StrategyInv

LEMMA StrategyNext ==
  ASSUME ConstantsOK, StrategyInv, Next
  PROVE  StrategyInv'
<1>1. CASE Rank
  BY <1>1, RankStep
<1>2. CASE NothingToMerge
  <2>1. /\ GroupsAreDisjoint /\ merged = << >> /\ invalidGroups = {}
        /\ pc' = "done" /\ merged' = merged /\ UNCHANGED <<size, groups>>
    BY <1>2 DEF StrategyInv, NothingToMerge
  <2> QED BY <2>1, GroupsStay DEF StrategyInv
<1>3. CASE ChooseSizes
  BY <1>3, ChooseSizesStep
<1>4. CASE Fill
  BY <1>4, FillStep
<1>5. CASE NameGroup
  BY <1>5, NameGroupStep
<1>6. CASE Finish
  <2>1. /\ GroupsAreDisjoint /\ Ranking /\ Filling /\ pc' = "done"
        /\ Len(merged) = Len(sizes) /\ (NoId(merged) = {} \/ availableIds = {})
        /\ UNCHANGED <<size, groups, activity, ranked, sizes, firstMemberIndex,
                       availableIds, merged>>
    BY <1>6 DEF StrategyInv, Finish, Unnamed, NoId
  <2>2. /\ sizeMin' = sizeMin /\ sizeMax' = sizeMax
        /\ invalidGroups' = invalidGroups
        /\ studentsInInvalidGroups' = studentsInInvalidGroups
        /\ GroupsAreDisjoint'
    BY <2>1, GroupsStay
  <2>3. Ranking' /\ Filling'
    BY <2>1, <2>2 DEF Ranking, Filling
  <2> QED BY <2>1, <2>2, <2>3 DEF StrategyInv, Filled
<1> QED BY <1>1, <1>2, <1>3, <1>4, <1>5, <1>6 DEF Next

--------------------------------------------------------------------------------
(* What the merged groups are *)

LEMMA FilledIs ==
  ASSUME ConstantsOK, GroupsAreDisjoint, Filled
  PROVE  /\ sizes \in Seq(Nat) /\ merged \in FilledGroups /\ Len(merged) = Len(sizes)
         /\ \E cut : Divides(cut, ranked, sizes, merged)
         /\ \A k \in 1..Len(merged) : /\ merged[k].members \subseteq studentsInInvalidGroups
                                      /\ Cardinality(merged[k].members) = sizes[k]
         /\ \A k, l \in 1..Len(merged) : k # l => merged[k].members \cap merged[l].members = {}
<1> DEFINE S == studentsInInvalidGroups
<1>1. sizes \in Seq(Nat)
  BY SizesAddUp, SmallGroupsAre, RankingLength DEF Filled, Filling
<1>2. merged \in FilledGroups /\ Len(merged) = Len(sizes)
  BY DEF Filled, Filling
<1>3. PICK cut : Divides(cut, ranked, sizes, merged)
  BY DEF Filled, Filling
<1>4. IsFiniteSet(S) /\ Ranks(ranked, S)
  BY SmallGroupsAre DEF Filled, Ranking
<1> HIDE DEF S
<1>5. /\ SumsUp(cut, sizes) /\ cut[Len(sizes)] <= Len(ranked)
      /\ \A k \in 1..Len(sizes) : merged[k].members = Part(cut, ranked, k)
  BY <1>2, <1>3 DEF Divides
<1>6. \A k \in 1..Len(sizes) :
        /\ Part(cut, ranked, k) \subseteq S
        /\ Cardinality(Part(cut, ranked, k)) = sizes[k]
        /\ \A l \in 1..Len(sizes) :
             k # l => Part(cut, ranked, k) \cap Part(cut, ranked, l) = {}
  BY <1>1, <1>4, <1>5, PartsDiffer
<1> QED BY <1>1, <1>2, <1>3, <1>5, <1>6 DEF S

(* When the sizes are in order, everyone has a group, and every group has an id. *)
LEMMA FilledInOrder ==
  ASSUME ConstantsOK, GroupsAreDisjoint, Filled, sizeMin <= sizeMax
  PROVE  /\ sizeMax > 0
         /\ \A k \in 1..Len(sizes) : sizes[k] \in 1..sizeMax
         /\ AddsUpTo(sizes, Len(ranked))
         /\ UNION {merged[k].members : k \in 1..Len(merged)} = studentsInInvalidGroups
         /\ NoId(merged) = {}
<1> DEFINE S == studentsInInvalidGroups
           n == Len(ranked)
           small == Cardinality(invalidGroups)
<1>1. /\ sizeMin \in Nat /\ sizeMax \in Nat /\ n \in Nat /\ n > 0
      /\ n = Cardinality(S)
      /\ sizeMax > 0 \/ n <= sizeMin
      /\ sizes = calculateIdealGroupSizes(n, sizeMin, sizeMax)
  BY SmallGroupsAre, RankingLength DEF Filled, Filling
<1> HIDE DEF S, n
<1>2. sizeMax > 0
  BY <1>1
<1>3. /\ sizes \in Seq(1..sizeMax) /\ AddsUpTo(sizes, n)
      /\ (Len(sizes) - 1) * sizeMin < n
  BY <1>1, <1>2, SizesAreTheBest
<1>4. /\ merged \in FilledGroups /\ Len(merged) = Len(sizes)
      /\ Named(merged, availableIds, invalidGroups)
      /\ NoId(merged) = {} \/ availableIds = {}
  BY DEF Filled, Filling
<1>5. PICK cut : Divides(cut, ranked, sizes, merged)
  BY DEF Filled, Filling
<1>6. cut[Len(sizes)] = n
  <2>1. SumsUp(cut, sizes) /\ AddsUpTo(sizes, cut[Len(sizes)])
    BY <1>5 DEF Divides, AddsUpTo
  <2>2. sizes \in Seq(Nat)
    BY FilledIs
  <2>3. Total(sizes) = n /\ Total(sizes) = cut[Len(sizes)]
    BY <1>3, <2>1, <2>2, TotalIs
  <2> QED BY <2>3
<1>7. UNION {merged[k].members : k \in 1..Len(merged)} = S
  <2>1. \A k \in 1..Len(merged) : merged[k].members \subseteq S
    BY FilledIs DEF S
  <2>2. ASSUME NEW s \in S PROVE \E k \in 1..Len(merged) : s \in merged[k].members
    <3>1. PICK p \in 1..n : ranked[p] = s
      BY <1>1 DEF Filled, Ranking, Ranks, S
    <3>2. PICK k \in 1..Len(sizes) : p \in (cut[k - 1] + 1)..cut[k]
      <4>1. SumsUp(cut, sizes) /\ sizes \in Seq(Nat) /\ p \in 1..cut[Len(sizes)]
        BY FilledIs, <1>5, <1>6 DEF Divides
      <4> QED BY <4>1, CutCovers
    <3>3. s \in Part(cut, ranked, k)
      BY <3>1, <3>2 DEF Part
    <3>4. merged[k].members = Part(cut, ranked, k)
      BY <1>4, <1>5, <3>2 DEF Divides
    <3> QED BY <1>4, <3>2, <3>3, <3>4
  <2> QED BY <2>1, <2>2
<1>8. /\ small \in Nat /\ small > 0 /\ IsFiniteSet(invalidGroups)
      /\ invalidGroups \in SUBSET (1..Count) /\ Count \in Nat
  <2>1. /\ IsFiniteSet(invalidGroups) /\ invalidGroups # {}
        /\ invalidGroups \in SUBSET (1..Count) /\ Count \in Nat
    BY SmallGroupsAre DEF Filled, Ranking, GroupIds, ConstantsOK
  <2> QED BY <2>1, FS_CardinalityType, FS_EmptySet
<1>9. sizeMin > 0 /\ n <= small * (sizeMin - 1)
  <2>1. \A g \in invalidGroups : /\ IsFiniteSet(groups[g]) /\ Cardinality(groups[g]) < sizeMin
                                 /\ Cardinality(groups[g]) \in Nat
    <3> SUFFICES ASSUME NEW g \in invalidGroups
                 PROVE  /\ IsFiniteSet(groups[g]) /\ Cardinality(groups[g]) < sizeMin
                        /\ Cardinality(groups[g]) \in Nat
      OBVIOUS
    <3>1. groups[g] \in SUBSET Student /\ IsFiniteSet(Student)
      BY CountTo DEF GroupsAreDisjoint, invalidGroups, Student, ConstantsOK
    <3>2. IsFiniteSet(groups[g]) /\ Cardinality(groups[g]) \in Nat
      BY <3>1, FS_Subset, FS_CardinalityType
    <3> QED BY <3>2 DEF invalidGroups, Small
  <2>2. PICK g \in invalidGroups : TRUE
    BY DEF Filled, Ranking
  <2>3. sizeMin > 0 /\ sizeMin - 1 \in Nat
    BY <1>1, <2>1, <2>2
  <2>4. \A h \in invalidGroups : IsFiniteSet(groups[h]) /\ Cardinality(groups[h]) <= sizeMin - 1
    BY <1>1, <2>1
  <2>5. Cardinality(UNION {groups[h] : h \in invalidGroups}) <= small * (sizeMin - 1)
    BY <1>8, <2>3, <2>4, UnionIsBounded
  <2> QED BY <1>1, <2>3, <2>5 DEF S, studentsInInvalidGroups
<1>10. Len(sizes) <= small
  <2> SUFFICES ASSUME Len(sizes) - 1 >= small PROVE FALSE
    BY <1>3, <1>8
  <2>1. Len(sizes) \in Nat /\ Len(sizes) - 1 \in Nat
    BY <1>3, <1>8
  <2>2. small * sizeMin <= (Len(sizes) - 1) * sizeMin
    <3>1. \A p, q, r \in Nat : p <= q => p * r <= q * r
      OBVIOUS
    <3> QED BY <1>1, <1>8, <2>1, <3>1
  <2>3. small * (sizeMin - 1) = (small * sizeMin) - small
    BY <1>1, <1>8
  <2>4. small * sizeMin \in Int /\ (Len(sizes) - 1) * sizeMin \in Int
    BY <1>1, <1>8, <2>1
  <2> QED BY <1>1, <1>3, <1>8, <1>9, <2>2, <2>3, <2>4
<1>11. NoId(merged) = {}
  <2> SUFFICES ASSUME availableIds = {} PROVE NoId(merged) = {}
    BY <1>4
  <2>1. Cardinality(availableIds) = 0
    BY FS_EmptySet
  <2>2. Cardinality(availableIds) + Len(merged) = small + Cardinality(NoId(merged))
    BY <1>4 DEF Named
  <2>3. IsFiniteSet(NoId(merged)) /\ Cardinality(NoId(merged)) \in Nat
    BY <1>4, NoIdIsFinite
  <2>4. Len(merged) \in Nat
    BY <1>3, <1>4
  <2>5. Cardinality(NoId(merged)) = 0
    BY <1>4, <1>8, <1>10, <2>1, <2>2, <2>3, <2>4
  <2> QED BY <2>3, <2>5, FS_EmptySet
<1>12. \A k \in 1..Len(sizes) : sizes[k] \in 1..sizeMax
  <2>1. sizes \in Seq(1..sizeMax)
    BY <1>3
  <2> QED BY <1>1, <2>1
<1>13. AddsUpTo(sizes, n)
  BY <1>3
<1> QED BY <1>2, <1>7, <1>11, <1>12, <1>13 DEF S, n

(* The valid groups and the merged ones are all groups of the result. *)
LEMMA ContractCardinality ==
  ASSUME NEW S
  PROVE  Contract(sizeMin)!Cardinality(S) = Cardinality(S)
BY Zenon DEF Contract!Cardinality, Cardinality

LEMMA ContractIs ==
  ASSUME NEW f,
         validGroups \subseteq DOMAIN f,
         \A g \in DOMAIN f : \/ g \in validGroups /\ f[g] = groups[g]
                             \/ g \in invalidGroups /\ f[g] # {},
         UNION {f[g] : g \in invalidGroups \cap DOMAIN f} = studentsInInvalidGroups,
         \A g, h \in invalidGroups \cap DOMAIN f : g # h => f[g] \cap f[h] = {},
         groups \in [GroupIds -> SUBSET Student],
         sizeMin \in Nat, ConstantsOK
  PROVE  Contract(sizeMin)!IsMerge(f, groups)
<1> DEFINE nonEmpty == {g \in DOMAIN groups : groups[g] # {}}
           small    == {g \in nonEmpty : Contract(sizeMin)!Cardinality(groups[g]) < sizeMin}
<1>1. DOMAIN groups = GroupIds
  OBVIOUS
<1>2. small = invalidGroups
  BY <1>1, ContractCardinality DEF invalidGroups, Small
<1>3. \A g \in GroupIds : Cardinality(groups[g]) \in Nat
  <2>1. IsFiniteSet(Student)
    BY CountTo DEF Student, ConstantsOK
  <2> QED BY <2>1, FS_Subset, FS_CardinalityType
<1>4. nonEmpty \ small = validGroups /\ validGroups \cap invalidGroups = {}
  <2>1. \A g \in GroupIds : Cardinality(groups[g]) >= sizeMin <=> ~(Cardinality(groups[g]) < sizeMin)
    BY <1>3
  <2> HIDE DEF small
  <2> QED BY <1>1, <1>2, <2>1 DEF validGroups, Valid, invalidGroups, Small
<1>5. nonEmpty = validGroups \cup invalidGroups
  <2>1. small \subseteq nonEmpty
    OBVIOUS
  <2> HIDE DEF small, nonEmpty
  <2> QED BY <1>2, <1>4, <2>1
<1>6. \A g \in validGroups : groups[g] # {}
  BY DEF validGroups, Valid
<1>7. /\ nonEmpty \ small \subseteq DOMAIN f
      /\ DOMAIN f \subseteq nonEmpty
      /\ \A g \in DOMAIN f : /\ f[g] # {}
                             /\ g \notin small => f[g] = groups[g]
      /\ UNION {f[g] : g \in small \cap DOMAIN f} = UNION {groups[g] : g \in small}
      /\ \A g, h \in small \cap DOMAIN f : g # h => f[g] \cap f[h] = {}
  <2> HIDE DEF small, nonEmpty
  <2> QED BY <1>2, <1>4, <1>5, <1>6 DEF studentsInInvalidGroups
<1> QED BY <1>7 DEF Contract!IsMerge

LEMMA ContractHolds ==
  ASSUME ConstantsOK, StrategyInv
  PROVE  MeetsContract
<1> SUFFICES ASSUME pc = "done", sizeMin <= sizeMax
             PROVE  /\ \A k, l \in 1..Len(merged) : k # l => merged[k].id # merged[l].id
                    /\ \A k \in 1..Len(merged) : merged[k].id \in invalidGroups
                    /\ Contract(sizeMin)!IsMerge(result, groups)
  BY DEF MeetsContract
<1>1. /\ GroupsAreDisjoint
      /\ (invalidGroups = {} /\ merged = << >>) \/ Filled
  BY DEF StrategyInv
<1>2. sizeMin \in Nat /\ groups \in [GroupIds -> SUBSET Student]
  BY <1>1, SmallGroupsAre DEF GroupsAreDisjoint
<1> DEFINE ids == {merged[k].id : k \in 1..Len(merged)}
           WithId(id) == {k \in 1..Len(merged) : merged[k].id = id}
<1>3. /\ DOMAIN result = validGroups \cup ids
      /\ \A id \in validGroups \cup ids :
           result[id] = IF id \in validGroups THEN groups[id]
                        ELSE UNION {merged[k].members : k \in WithId(id)}
  BY DEF result
<1>4. CASE invalidGroups = {} /\ merged = << >>
  <2>1. ids = {} /\ Len(merged) = 0
    BY <1>4
  <2>2. studentsInInvalidGroups = {}
    BY <1>4 DEF studentsInInvalidGroups
  <2>3. /\ validGroups \subseteq DOMAIN result
        /\ \A g \in DOMAIN result : g \in validGroups /\ result[g] = groups[g]
    <3> HIDE DEF ids, WithId
    <3> QED BY <1>3, <2>1
  <2>4. UNION {result[g] : g \in invalidGroups \cap DOMAIN result} = studentsInInvalidGroups
    BY <1>4, <2>2
  <2>5. Contract(sizeMin)!IsMerge(result, groups)
    BY <1>2, <1>4, <2>3, <2>4, ContractIs
  <2> QED BY <2>1, <2>5
<1>5. CASE Filled
  <2>1. /\ merged \in FilledGroups /\ Len(merged) = Len(sizes) /\ Len(merged) \in Nat
        /\ \A k \in 1..Len(merged) : Cardinality(merged[k].members) = sizes[k]
        /\ \A k, l \in 1..Len(merged) : k # l => merged[k].members \cap merged[l].members = {}
    BY <1>1, <1>5, FilledIs
  <2>2. /\ \A k \in 1..Len(sizes) : sizes[k] \in 1..sizeMax
        /\ UNION {merged[k].members : k \in 1..Len(merged)} = studentsInInvalidGroups
        /\ NoId(merged) = {}
    BY <1>1, <1>5, FilledInOrder
  <2>3. Named(merged, availableIds, invalidGroups)
    BY <1>5 DEF Filled, Filling
  <2>4. \A k \in 1..Len(merged) : merged[k].id # None
    BY <2>2 DEF NoId
  <2>5. \A k \in 1..Len(merged) : merged[k].id \in invalidGroups
    BY <2>3, <2>4 DEF Named
  <2>6. \A k, l \in 1..Len(merged) : k # l => merged[k].id # merged[l].id
    BY <2>3, <2>4 DEF Named
  <2>7. validGroups \cap invalidGroups = {}
    <3>1. ASSUME NEW g \in validGroups, g \in invalidGroups PROVE FALSE
      <4>1. groups[g] \in SUBSET Student /\ IsFiniteSet(Student)
        BY <1>2, CountTo DEF Student, ConstantsOK, validGroups
      <4>2. Cardinality(groups[g]) \in Nat
        BY <4>1, FS_Subset, FS_CardinalityType
      <4>3. Cardinality(groups[g]) < sizeMin /\ Cardinality(groups[g]) >= sizeMin
        BY <3>1 DEF validGroups, Valid, invalidGroups, Small
      <4> QED BY <1>2, <4>2, <4>3
    <3> QED BY <3>1
  <2>8. \A k \in 1..Len(merged) : /\ merged[k].id \in ids
                                  /\ result[merged[k].id] = merged[k].members
    <3> SUFFICES ASSUME NEW k \in 1..Len(merged)
                 PROVE  merged[k].id \in ids /\ result[merged[k].id] = merged[k].members
      OBVIOUS
    <3>1. merged[k].id \in ids /\ merged[k].id \notin validGroups
      BY <2>5, <2>7
    <3>2. WithId(merged[k].id) = {k}
      BY <2>6
    <3>3. result[merged[k].id] = UNION {merged[j].members : j \in {k}}
      <4> HIDE DEF ids, WithId
      <4> QED BY <1>3, <3>1, <3>2
    <3> QED BY <3>1, <3>3
  <2>9. \A k \in 1..Len(merged) : merged[k].members # {}
    <3> SUFFICES ASSUME NEW k \in 1..Len(merged), merged[k].members = {} PROVE FALSE
      OBVIOUS
    <3>1. Cardinality(merged[k].members) = 0
      BY FS_EmptySet
    <3>2. sizes[k] \in 1..sizeMax /\ sizes[k] = 0
      BY <2>1, <2>2, <3>1
    <3>3. sizeMax \in Nat
      BY <1>1, SmallGroupsAre
    <3> QED BY <3>2, <3>3
  <2>10. \A g \in invalidGroups \cap DOMAIN result : \E k \in 1..Len(merged) : g = merged[k].id
    <3>1. DOMAIN result = validGroups \cup ids
      BY <1>3
    <3> QED BY <2>7, <3>1
  <2>11. validGroups \subseteq DOMAIN result
    BY <1>3
  <2>12. \A g \in DOMAIN result : \/ g \in validGroups /\ result[g] = groups[g]
                                  \/ g \in invalidGroups /\ result[g] # {}
    <3> SUFFICES ASSUME NEW g \in DOMAIN result
                 PROVE  \/ g \in validGroups /\ result[g] = groups[g]
                        \/ g \in invalidGroups /\ result[g] # {}
      OBVIOUS
    <3>1. CASE g \in validGroups
      <4> HIDE DEF ids, WithId
      <4> QED BY <1>3, <3>1
    <3>2. CASE g \notin validGroups
      <4>1. g \in ids
        <5> HIDE DEF ids, WithId
        <5> QED BY <1>3, <3>2
      <4>2. PICK k \in 1..Len(merged) : g = merged[k].id
        BY <4>1
      <4> QED BY <2>5, <2>8, <2>9, <4>2
    <3> QED BY <3>1, <3>2
  <2>13. \A k \in 1..Len(merged) : merged[k].id \in invalidGroups \cap DOMAIN result
    <3> HIDE DEF ids, WithId
    <3> QED BY <1>3, <2>5, <2>8
  <2> HIDE DEF ids, WithId
  <2>14. UNION {result[g] : g \in invalidGroups \cap DOMAIN result} = studentsInInvalidGroups
    <3>1. ASSUME NEW s PROVE (\E g \in invalidGroups \cap DOMAIN result : s \in result[g])
                              <=> (\E k \in 1..Len(merged) : s \in merged[k].members)
      BY <2>8, <2>10, <2>13
    <3> QED BY <2>2, <3>1
  <2>15. \A g, h \in invalidGroups \cap DOMAIN result : g # h => result[g] \cap result[h] = {}
    <3> SUFFICES ASSUME NEW g \in invalidGroups \cap DOMAIN result,
                        NEW h \in invalidGroups \cap DOMAIN result, g # h
                 PROVE  result[g] \cap result[h] = {}
      OBVIOUS
    <3>1. PICK k \in 1..Len(merged) : g = merged[k].id
      BY <2>10
    <3>2. PICK l \in 1..Len(merged) : h = merged[l].id
      BY <2>10
    <3> QED BY <2>1, <2>8, <3>1, <3>2
  <2>16. Contract(sizeMin)!IsMerge(result, groups)
    BY <1>2, <2>11, <2>12, <2>14, <2>15, ContractIs
  <2> QED BY <2>5, <2>6, <2>16
<1> QED BY <1>1, <1>4, <1>5

LEMMA BestIs ==
  ASSUME ConstantsOK, NEW n \in Nat, n > 0, sizeMin \in Nat, sizeMax \in Nat,
         sizeMax > 0, sizeMin <= sizeMax
  PROVE  Best(calculateIdealGroupSizes(n, sizeMin, sizeMax), n)
<1> DEFINE c == calculateIdealGroupSizes(n, sizeMin, sizeMax)
           possible == {k \in 1..n : k * sizeMin <= n /\ n <= k * sizeMax}
<1>1. /\ c \in Seq(1..sizeMax)
      /\ AddsUpTo(c, n)
      /\ \A k, l \in 1..Len(c) : c[k] < sizeMin /\ c[l] < sizeMin => k = l
      /\ \A j \in 1..n : j * sizeMin <= n /\ n <= j * sizeMax =>
           Len(c) <= j /\ \A k \in 1..Len(c) : c[k] >= sizeMin
  BY SizesAreTheBest
<1> HIDE DEF c
<1>2. c \in Seq(1..sizeMax)
  BY <1>1
<1>3. c \in Seq(Nat) /\ \A k \in 1..Len(c) : c[k] \in 1..sizeMax
  BY <1>2
<1>4. Total(c) = n
  BY <1>1, <1>3, TotalIs
<1>5. \A j \in possible : Len(c) <= j /\ \A k \in 1..Len(c) : c[k] >= sizeMin
  BY <1>1
<1>6. \A k, l \in 1..Len(c) : c[k] < sizeMin /\ c[l] < sizeMin => k = l
  BY <1>1
<1>7. /\ Total(c) = n
      /\ \A k \in 1..Len(c) : c[k] \in 1..sizeMax
      /\ \A k, l \in 1..Len(c) : c[k] < sizeMin /\ c[l] < sizeMin => k = l
      /\ possible # {} =>
           /\ \A k \in 1..Len(c) : c[k] >= sizeMin
           /\ \A k \in possible : Len(c) <= k
  <2> HIDE DEF possible
  <2> QED BY <1>3, <1>4, <1>5, <1>6
<1>8. Best(c, n)
  BY <1>7 DEF Best
<1> QED BY <1>8 DEF c

LEMMA BestHolds ==
  ASSUME ConstantsOK, StrategyInv
  PROVE  SizesAreBest
<1>1. GroupsAreDisjoint /\ sizeMin \in Nat /\ sizeMax \in Nat /\ MaxStudents \in Nat
  BY SmallGroupsAre DEF StrategyInv, ConstantsOK
<1>2. ASSUME sizeMin <= sizeMax, pc = "done", merged # << >>
      PROVE  Best([k \in 1..Len(merged) |-> Cardinality(merged[k].members)], Len(ranked))
  <2>1. Filled
    BY <1>2 DEF StrategyInv
  <2>2. /\ sizes \in Seq(Nat) /\ Len(merged) = Len(sizes)
        /\ \A k \in 1..Len(merged) : Cardinality(merged[k].members) = sizes[k]
    BY <1>1, <2>1, FilledIs
  <2>3. [k \in 1..Len(merged) |-> Cardinality(merged[k].members)] = sizes
    <3>1. [k \in 1..Len(merged) |-> Cardinality(merged[k].members)] =
            [k \in 1..Len(merged) |-> sizes[k]]
      BY <2>2
    <3>2. sizes = [k \in 1..Len(sizes) |-> sizes[k]]
      BY <2>2
    <3> QED BY <2>2, <3>1, <3>2
  <2>4. sizes = calculateIdealGroupSizes(Len(ranked), sizeMin, sizeMax)
    BY <2>1 DEF Filled, Filling
  <2>5. sizeMax > 0
    BY <1>1, <1>2, <2>1, FilledInOrder
  <2>6. Len(ranked) \in Nat /\ Len(ranked) > 0
    BY <1>1, <2>1, RankingLength DEF Filled
  <2>7. Best(sizes, Len(ranked))
    BY <1>1, <1>2, <2>4, <2>5, <2>6, BestIs
  <2> QED BY <2>3, <2>7
<1>3. ASSUME sizeMin <= sizeMax, sizeMax > 0, NEW n \in 1..(4 * MaxStudents)
      PROVE  Best(calculateIdealGroupSizes(n, sizeMin, sizeMax), n)
  <2>1. n \in Nat /\ n > 0
    BY <1>1
  <2> QED BY <1>1, <1>3, <2>1, BestIs
<1> QED BY <1>2, <1>3 DEF SizesAreBest

LEMMA RankingHolds ==
  ASSUME ConstantsOK, StrategyInv
  PROVE  ActiveTogether
<1> SUFFICES ASSUME pc = "done", activity # None,
                    NEW k \in 1..Len(merged), NEW l \in 1..Len(merged), k < l,
                    NEW a \in merged[k].members, NEW b \in merged[l].members,
                    InOrder(activity[a].weeks), InOrder(activity[b].weeks)
             PROVE  LET work(s)  == ToSet(activity[s].submissions)
                        weeks(s) == ToSet(activity[s].weeks)
                    IN  \/ Cardinality(work(a)) > Cardinality(work(b))
                        \/ /\ Cardinality(work(a)) = Cardinality(work(b))
                           /\ Cardinality(weeks(a)) >= Cardinality(weeks(b))
  BY DEF ActiveTogether
<1> DEFINE S == studentsInInvalidGroups
<1>1. GroupsAreDisjoint /\ Filled
  <2>1. merged # << >>
    OBVIOUS
  <2> QED BY <2>1 DEF StrategyInv
<1>2. sizes \in Seq(Nat) /\ Len(merged) = Len(sizes)
  BY <1>1, FilledIs
<1>3. PICK cut : Divides(cut, ranked, sizes, merged)
  BY <1>1, FilledIs
<1>4. /\ IsFiniteSet(S) /\ Ranks(ranked, S)
      /\ Len(ranked) = Cardinality(S) /\ Len(ranked) \in Nat
      /\ \A p \in 1..Len(ranked) : ranked[p] \in S
  BY <1>1, SmallGroupsAre, RankingLength DEF Filled, Ranking
<1>5. /\ activity \in [S -> Records]
      /\ \A p, q \in 1..Len(ranked) : p < q => Before(activity, ranked[p], ranked[q])
  BY <1>1 DEF Filled, Ranking
<1> HIDE DEF S
<1>6. PICK p \in (cut[k - 1] + 1)..cut[k] : a = ranked[p]
  BY <1>2, <1>3 DEF Divides, Part
<1>7. PICK q \in (cut[l - 1] + 1)..cut[l] : b = ranked[q]
  BY <1>2, <1>3 DEF Divides, Part
<1>8. SumsUp(cut, sizes) /\ cut[Len(sizes)] <= Len(ranked)
  BY <1>3 DEF Divides
<1>9. /\ (cut[k - 1] + 1)..cut[k] \subseteq 1..Len(ranked)
      /\ (cut[l - 1] + 1)..cut[l] \subseteq 1..Len(ranked)
      /\ cut[k] <= cut[l - 1]
  BY <1>2, <1>4, <1>8, PartsDiffer
<1>10. cut[k] \in Nat /\ cut[l - 1] \in Nat
  <2>1. Len(sizes) \in Nat /\ k \in 0..Len(sizes) /\ l - 1 \in 0..Len(sizes)
    BY <1>2
  <2>2. cut \in [0..Len(sizes) -> Nat]
    BY <1>8 DEF SumsUp
  <2> QED BY <2>1, <2>2
<1>11. p < q /\ p \in 1..Len(ranked) /\ q \in 1..Len(ranked)
  BY <1>4, <1>6, <1>7, <1>9, <1>10
<1>12. Before(activity, a, b) /\ a \in S /\ b \in S
  BY <1>4, <1>5, <1>6, <1>7, <1>11
<1>13. \A s \in S : /\ activity[s].weeks \in Seq(Nat) /\ activity[s].submissions \in Seq(Nat)
                    /\ countSubmittedAssignment(activity[s].submissions) \in Nat
                    /\ countUniqueWeeks(activity[s].weeks) \in Nat
  BY <1>5, RecordsCounted DEF ConstantsOK
<1>14. \A s \in {a, b} :
         countUniqueWeeks(activity[s].weeks) = Cardinality(ToSet(activity[s].weeks))
  BY <1>12, <1>13, WeeksCountOnce DEF InOrder
<1>15. \A s \in {a, b} :
         countSubmittedAssignment(activity[s].submissions) = Cardinality(ToSet(activity[s].submissions))
  BY DEF countSubmittedAssignment
<1> DEFINE work(s)  == countSubmittedAssignment(activity[s].submissions)
           weeks(s) == countUniqueWeeks(activity[s].weeks)
<1>16. \/ work(a) > work(b)
       \/ work(a) = work(b) /\ weeks(a) > weeks(b)
       \/ work(a) = work(b) /\ weeks(a) = weeks(b) /\ a < b
  BY <1>12 DEF Before
<1>17. work(a) \in Nat /\ work(b) \in Nat /\ weeks(a) \in Nat /\ weeks(b) \in Nat
  BY <1>12, <1>13
<1>18. \/ work(a) > work(b)
       \/ work(a) = work(b) /\ weeks(a) >= weeks(b)
  <2> HIDE DEF work, weeks
  <2> QED BY <1>16, <1>17
<1>19. /\ work(a) = Cardinality(ToSet(activity[a].submissions))
       /\ work(b) = Cardinality(ToSet(activity[b].submissions))
       /\ weeks(a) = Cardinality(ToSet(activity[a].weeks))
       /\ weeks(b) = Cardinality(ToSet(activity[b].weeks))
  BY <1>14, <1>15
<1> HIDE DEF work, weeks
<1> QED BY <1>18, <1>19

--------------------------------------------------------------------------------
(* The other strategy: its operators, which the composition has from there *)

LEMMA SimpleCardinality == ASSUME NEW S PROVE Simple!Cardinality(S) = Cardinality(S)
BY Zenon DEF Simple!Cardinality, Cardinality, Simple!IsFiniteSet, IsFiniteSet

LEMMA SimpleMin == ASSUME NEW S PROVE Simple!Min(S) = Min(S)
BY Zenon DEF Simple!Min, Min

LEMMA SimpleToSet == ASSUME NEW s PROVE Simple!ToSet(s) = ToSet(s)
BY Zenon DEF Simple!ToSet, ToSet

LEMMA SimpleOrdered ==
  ASSUME NEW S, NEW before
  PROVE  Simple!Ordered(S, before) = Ordered(S, before)
BY Zenon DEF Simple!Ordered, Ordered, Simple!Cardinality, Cardinality, Simple!IsFiniteSet,
         IsFiniteSet

LEMMA SimpleAscending == ASSUME NEW S PROVE Simple!Ascending(S) = Ascending(S)
BY Zenon, SimpleOrdered DEF Simple!Ascending, Ascending

--------------------------------------------------------------------------------
(* The inductive invariant of the other strategy *)

SomeGroups == [1..Count -> [members : SUBSET Student, open : BOOLEAN]]

GivenIsOk ==
  /\ size \in Sizes
  /\ given \in SomeGroups
  /\ \A g, h \in 1..Count : g # h => given[g].members \cap given[h].members = {}

IsSmall(g) == Cardinality(given[g].members) < sizeMin
MayGrow(g) == IsSmall(g) \/ given[g].open

(* at[g] is where the members of the given group g are now. *)
Placed(now, at) ==
  /\ now \in SomeGroups
  /\ at \in [1..Count -> 1..Count]
  /\ \A h \in 1..Count :
       now[h].members = UNION {given[g].members : g \in {x \in 1..Count : at[x] = h}}
  /\ \A g \in 1..Count :
       \/ now[at[g]].members = given[g].members
       \/ Cardinality(now[at[g]].members) <= sizeMax /\ MayGrow(g)

(* Only those that may grow have come to a group that others have been put into. *)
Joined(at) ==
  \A g \in 1..Count : /\ at[g] \in 1..Len(invalid) => IsSmall(g)
                      /\ at[g] \in openGroups => MayGrow(g)

(* The small groups are the first ones. *)
SmallOnesFirst ==
  /\ invalid \in Seq(Nat) /\ Len(invalid) <= Count
  /\ \A k \in 1..Len(invalid) : invalid[k] = k
  /\ openGroups \subseteq (Len(invalid) + 1)..Count

Sorted ==
  \E order \in [1..Count -> 1..Count] :
    /\ \A g \in 1..Count : \E k \in 1..Count : order[k] = g
    /\ \A k, l \in 1..Count : order[k] = order[l] => k = l
    /\ groups = [k \in 1..Count |-> given[order[k]]]
    /\ \A k, l \in 1..Count :
         k < l => Cardinality(groups[k].members) <= Cardinality(groups[l].members)

Putting ==
  /\ SmallOnesFirst
  /\ \E at : Placed(groups, at) /\ Joined(at)
  /\ i \in Nat /\ i > 0 /\ into \in 0..i /\ into <= Len(invalid)
  /\ into # 0 => currentSize = Cardinality(groups[into].members)

Joining ==
  /\ SmallOnesFirst
  /\ \E at : Placed(groups, at) /\ Joined(at)
  /\ remaining \subseteq 1..Len(invalid)
  /\ newOpenGroups \subseteq 1..Len(invalid)
  /\ remaining \cap newOpenGroups = {}

SimpleInv ==
  /\ GivenIsOk
  /\ pc \in {"sort", "split", "merge", "join", "done"}
  /\ pc \in {"sort", "split"} => into = 0
  /\ Simple!NoneEmpty =>
       /\ pc = "split" => Sorted
       /\ pc = "merge" => Putting
       /\ pc = "join" => Joining
       /\ pc = "done" => Simple!KeptTogether /\ Simple!RoomKept

LEMMA GivenIs ==
  ASSUME ConstantsOK, GivenIsOk
  PROVE  /\ sizeMin \in Nat /\ sizeMax \in Nat /\ Count \in Nat
         /\ DOMAIN given = 1..Count
         /\ \A g \in 1..Count : /\ IsFiniteSet(given[g].members)
                                /\ Cardinality(given[g].members) \in Nat
         /\ \A now \in SomeGroups, g \in 1..Count :
              IsFiniteSet(now[g].members) /\ Cardinality(now[g].members) \in Nat
<1>1. sizeMin \in Nat /\ sizeMax \in Nat /\ Count \in Nat
  BY DEF ConstantsOK, GivenIsOk, sizeMin, sizeMax
<1>2. IsFiniteSet(Student)
  BY CountTo DEF Student, ConstantsOK
<1>3. ASSUME NEW now \in SomeGroups, NEW g \in 1..Count
      PROVE  IsFiniteSet(now[g].members) /\ Cardinality(now[g].members) \in Nat
  <2>1. now[g].members \in SUBSET Student
    BY DEF SomeGroups
  <2> QED BY <1>2, <2>1, FS_Subset, FS_CardinalityType
<1>4. given \in SomeGroups
  BY DEF GivenIsOk
<1>5. DOMAIN given = 1..Count
  BY <1>4 DEF SomeGroups
<1> QED BY <1>1, <1>3, <1>4, <1>5

(* Who is in a group has come with a given one. *)
LEMMA PlacedIs ==
  ASSUME NEW now, NEW at, Placed(now, at)
  PROVE  \A h \in 1..Count : \A s :
           s \in now[h].members <=> \E g \in 1..Count : at[g] = h /\ s \in given[g].members
BY DEF Placed

(* The members of a given group have stayed together, and no one is in two groups. *)
LEMMA PlacedTogether ==
  ASSUME GivenIsOk, NEW now, NEW at, Placed(now, at)
  PROVE  /\ \A g \in 1..Count : given[g].members \subseteq now[at[g]].members
         /\ \A g, h \in 1..Count : g # h => now[g].members \cap now[h].members = {}
         /\ \A g, h \in 1..Count :
              given[g].members # {} /\ given[g].members \subseteq now[h].members => at[g] = h
<1>1. \A g \in 1..Count : at[g] \in 1..Count
  BY DEF Placed
<1>2. \A h \in 1..Count : \A s :
        s \in now[h].members <=> \E g \in 1..Count : at[g] = h /\ s \in given[g].members
  BY PlacedIs
<1>3. \A g, h \in 1..Count : g # h => given[g].members \cap given[h].members = {}
  BY DEF GivenIsOk
<1>4. \A g \in 1..Count : given[g].members \subseteq now[at[g]].members
  BY <1>1, <1>2
<1>5. \A g, h \in 1..Count : g # h => now[g].members \cap now[h].members = {}
  BY <1>2, <1>3
<1>6. \A g, h \in 1..Count :
        given[g].members # {} /\ given[g].members \subseteq now[h].members => at[g] = h
  BY <1>2, <1>3
<1> QED BY <1>4, <1>5, <1>6

(* A small group is put into another one. *)
LEMMA MergedIs ==
  ASSUME ConstantsOK, GivenIsOk, NEW at, Placed(groups, at), Joined(at), SmallOnesFirst,
         NEW first \in (1..Len(invalid)) \cup openGroups,
         NEW second \in 1..Len(invalid), first # second,
         Cardinality(groups[first].members) + Cardinality(groups[second].members) <= sizeMax
  PROVE  LET new == Simple!Merged(first, second)
         IN  /\ \E to : Placed(new, to) /\ Joined(to)
             /\ Cardinality(new[first].members) =
                  Cardinality(groups[first].members) + Cardinality(groups[second].members)
<1> DEFINE new == Simple!Merged(first, second)
           to == [g \in 1..Count |-> IF at[g] = second THEN first ELSE at[g]]
<1>1. Count \in Nat /\ Len(invalid) \in Nat /\ first \in 1..Count /\ second \in 1..Count
  <2>1. Count \in Nat /\ Len(invalid) \in Nat /\ Len(invalid) <= Count
    BY GivenIs DEF SmallOnesFirst
  <2> QED BY <2>1 DEF SmallOnesFirst
<1>2. groups \in SomeGroups /\ DOMAIN groups = 1..Count
  BY DEF Placed, SomeGroups
<1>3. \A h \in 1..Count :
        new[h] = IF h = second THEN [groups[h] EXCEPT !.members = {}]
                 ELSE IF h = first
                 THEN [groups[h] EXCEPT !.members = groups[first].members \cup groups[second].members]
                 ELSE groups[h]
  BY <1>2 DEF Simple!Merged
<1>4. new = [h \in 1..Count |-> new[h]]
  BY <1>2 DEF Simple!Merged
<1> HIDE DEF new
<1>5. \A k \in 1..Count : \A s :
         s \in groups[k].members <=> \E g \in 1..Count : at[g] = k /\ s \in given[g].members
  BY PlacedIs
<1>6. \A h \in 1..Count :
        /\ groups[h] \in [members : SUBSET Student, open : BOOLEAN]
        /\ new[h] \in [members : SUBSET Student, open : BOOLEAN]
        /\ new[h].members = IF h = second THEN {}
                            ELSE IF h = first THEN groups[first].members \cup groups[second].members
                            ELSE groups[h].members
  <2>1. \A h \in 1..Count : groups[h] \in [members : SUBSET Student, open : BOOLEAN]
    BY <1>2 DEF SomeGroups
  <2> SUFFICES ASSUME NEW h \in 1..Count
               PROVE  /\ new[h] \in [members : SUBSET Student, open : BOOLEAN]
                      /\ new[h].members = IF h = second THEN {}
                            ELSE IF h = first THEN groups[first].members \cup groups[second].members
                            ELSE groups[h].members
    BY <2>1
  <2>2. CASE h = second
    <3>1. new[h] = [groups[h] EXCEPT !.members = {}]
      BY <1>3, <2>2
    <3> QED BY <2>1, <2>2, <3>1
  <2>3. CASE h # second /\ h = first
    <3>1. new[h] = [groups[h] EXCEPT !.members = groups[first].members \cup groups[second].members]
      BY <1>3, <2>3
    <3>2. groups[first].members \cup groups[second].members \in SUBSET Student
      BY <1>1, <2>1
    <3> QED BY <2>1, <2>3, <3>1, <3>2
  <2>4. CASE h # second /\ h # first
    <3>1. new[h] = groups[h]
      BY <1>3, <2>4
    <3> QED BY <2>1, <2>4, <3>1
  <2> QED BY <2>2, <2>3, <2>4
<1>7. new \in SomeGroups
  BY <1>4, <1>6 DEF SomeGroups
<1>8. at \in [1..Count -> 1..Count]
  BY DEF Placed
<1>9. /\ to \in [1..Count -> 1..Count]
      /\ \A g \in 1..Count : to[g] = IF at[g] = second THEN first ELSE at[g]
  BY <1>1, <1>8
<1> HIDE DEF to
<1>10. \A h \in 1..Count :
        new[h].members = UNION {given[g].members : g \in {x \in 1..Count : to[x] = h}}
  <2> SUFFICES ASSUME NEW h \in 1..Count, NEW s
               PROVE  s \in new[h].members <=>
                        \E g \in 1..Count : to[g] = h /\ s \in given[g].members
    OBVIOUS
  <2>1. \A k \in 1..Count :
          s \in groups[k].members <=> \E g \in 1..Count : at[g] = k /\ s \in given[g].members
    BY <1>5
  <2>2. CASE h = second
    BY <1>6, <1>9, <2>2
  <2>3. CASE h # second /\ h = first
    <3>1. s \in new[h].members <=> s \in groups[first].members \/ s \in groups[second].members
      BY <1>6, <2>3
    <3>2. \A g \in 1..Count : to[g] = h <=> at[g] = first \/ at[g] = second
      BY <1>9, <2>3
    <3> QED BY <1>1, <2>1, <3>1, <3>2
  <2>4. CASE h # second /\ h # first
    <3>1. new[h].members = groups[h].members
      BY <1>6, <2>4
    <3>2. \A g \in 1..Count : to[g] = h <=> at[g] = h
      BY <1>9, <2>4
    <3> QED BY <2>1, <3>1, <3>2
  <2> QED BY <2>2, <2>3, <2>4
<1>11. /\ new[first].members = groups[first].members \cup groups[second].members
       /\ groups[first].members \cap groups[second].members = {}
  BY <1>1, <1>6, PlacedTogether
<1>12. Cardinality(new[first].members) =
         Cardinality(groups[first].members) + Cardinality(groups[second].members)
  <2> DEFINE A == groups[first].members
             B == groups[second].members
  <2>1. /\ IsFiniteSet(A) /\ IsFiniteSet(B)
        /\ Cardinality(A) \in Nat /\ Cardinality(B) \in Nat
    BY <1>1, <1>2, GivenIs
  <2>2. new[first].members = A \cup B /\ A \cap B = {}
    BY <1>11
  <2> HIDE DEF A, B
  <2>3. Cardinality(A \cup B) = Cardinality(A) + Cardinality(B) - Cardinality(A \cap B)
    BY <2>1, FS_Union
  <2>4. Cardinality(A \cap B) = 0
    BY <2>2, FS_EmptySet
  <2>5. Cardinality(new[first].members) = Cardinality(A) + Cardinality(B)
    BY <2>1, <2>2, <2>3, <2>4
  <2> QED BY <2>5 DEF A, B
<1>13. \A g \in 1..Count : at[g] \in {first, second} => MayGrow(g)
  BY DEF Joined, MayGrow
<1>14. \A g \in 1..Count :
         \/ new[to[g]].members = given[g].members
         \/ Cardinality(new[to[g]].members) <= sizeMax /\ MayGrow(g)
  <2> SUFFICES ASSUME NEW g \in 1..Count
               PROVE  \/ new[to[g]].members = given[g].members
                      \/ Cardinality(new[to[g]].members) <= sizeMax /\ MayGrow(g)
    OBVIOUS
  <2>1. CASE at[g] \in {first, second}
    <3>1. to[g] = first
      BY <1>9, <2>1
    <3> QED BY <1>12, <1>13, <2>1, <3>1
  <2>2. CASE at[g] \notin {first, second}
    <3>1. to[g] = at[g] /\ new[at[g]].members = groups[at[g]].members
      BY <1>6, <1>8, <1>9, <2>2
    <3>2. \/ groups[at[g]].members = given[g].members
          \/ Cardinality(groups[at[g]].members) <= sizeMax /\ MayGrow(g)
      BY DEF Placed
    <3> QED BY <3>1, <3>2
  <2> QED BY <2>1, <2>2
<1>15. Placed(new, to)
  BY <1>7, <1>9, <1>10, <1>14 DEF Placed
<1>16. Joined(to)
  <2>1. \A g \in 1..Count : at[g] = second => IsSmall(g) /\ MayGrow(g)
    BY DEF Joined, MayGrow
  <2> QED BY <1>9, <2>1 DEF Joined
<1> QED BY <1>12, <1>15, <1>16 DEF new

LEMMA SimpleInit ==
  ASSUME ConstantsOK, Simple!Init
  PROVE  SimpleInv
<1>1. PICK upto \in [0..Count -> 0..MaxStudents], open \in [1..Count -> BOOLEAN] :
        /\ upto[0] = 0
        /\ \A k \in 1..Count : upto[k] - upto[k - 1] \in 0..MaxMembers
        /\ given = [k \in 1..Count |-> [members |-> (upto[k - 1] + 1)..upto[k],
                                        open |-> open[k]]]
  BY DEF Simple!Init
<1>2. Count \in Nat /\ MaxStudents \in Nat /\ MaxMembers \in Nat
  BY DEF ConstantsOK
<1>3. \A k \in 0..Count : upto[k] \in Nat /\ upto[k] <= MaxStudents
  BY <1>1, <1>2
<1>4. \A k \in 1..Count : k \in 0..Count /\ k - 1 \in 0..Count /\ upto[k] >= upto[k - 1]
  <2> SUFFICES ASSUME NEW k \in 1..Count
               PROVE  k \in 0..Count /\ k - 1 \in 0..Count /\ upto[k] >= upto[k - 1]
    OBVIOUS
  <2>1. k \in 0..Count /\ k - 1 \in 0..Count
    BY <1>2
  <2>2. upto[k] - upto[k - 1] \in 0..MaxMembers
    BY <1>1
  <2> QED BY <1>2, <1>3, <2>1, <2>2
<1>5. \A g \in 1..Count : given[g].members = (upto[g - 1] + 1)..upto[g]
  BY <1>1
<1>6. \A g, h \in 1..Count : g # h => given[g].members \cap given[h].members = {}
  <2> SUFFICES ASSUME NEW g \in 1..Count, NEW h \in 1..Count, g # h
               PROVE  ((upto[g - 1] + 1)..upto[g]) \cap ((upto[h - 1] + 1)..upto[h]) = {}
    BY <1>5
  <2> QED BY <1>1, <1>2, <1>4, NumberedThrough
<1>7. given \in SomeGroups
  <2>1. \A k \in 1..Count : (upto[k - 1] + 1)..upto[k] \in SUBSET Student
    <3> SUFFICES ASSUME NEW k \in 1..Count
                 PROVE  (upto[k - 1] + 1)..upto[k] \in SUBSET (1..MaxStudents)
      BY DEF Student
    <3>1. /\ upto[k - 1] \in Nat /\ upto[k] \in Nat /\ upto[k] <= MaxStudents
      BY <1>3, <1>4
    <3> QED BY <1>2, <3>1
  <2>2. \A k \in 1..Count : [members |-> (upto[k - 1] + 1)..upto[k], open |-> open[k]]
                              \in [members : SUBSET Student, open : BOOLEAN]
    BY <2>1
  <2> QED BY <1>1, <2>2 DEF SomeGroups
<1>8. GivenIsOk
  BY <1>6, <1>7 DEF GivenIsOk, Simple!Init, Simple!Start
<1> QED BY <1>8 DEF SimpleInv, Simple!Init, Simple!Start

LEMMA GivenStays ==
  ASSUME GivenIsOk, size' = size, given' = given
  PROVE  /\ GivenIsOk' /\ sizeMin' = sizeMin /\ sizeMax' = sizeMax
         /\ \A g : (IsSmall(g)' <=> IsSmall(g)) /\ (MayGrow(g)' <=> MayGrow(g))
         /\ Simple!NoneEmpty' <=> Simple!NoneEmpty
BY DEF GivenIsOk, sizeMin, sizeMax, IsSmall, MayGrow, Simple!NoneEmpty

LEMMA PlacedNext ==
  ASSUME GivenIsOk, size' = size, given' = given, NEW at, Placed(groups', at)
  PROVE  Placed(groups, at)'
BY GivenStays DEF Placed

LEMMA JoinedNext ==
  ASSUME GivenIsOk, size' = size, given' = given, invalid' = invalid,
         openGroups' = openGroups, NEW at, Joined(at)
  PROVE  Joined(at)'
BY GivenStays DEF Joined

(* The groups are those that were given, in the order of their sizes. *)
LEMMA SortStep ==
  ASSUME ConstantsOK, SimpleInv, Simple!Sort
  PROVE  SimpleInv'
<1> DEFINE GivenSize(g) == Cardinality(given[g].members)
           before == [g \in 1..Count |->
                        {h \in 1..Count : \/ GivenSize(h) < GivenSize(g)
                                          \/ GivenSize(h) = GivenSize(g) /\ h < g}]
           order == Ordered(1..Count, before)
<1>1. GivenIsOk /\ size' = size /\ given' = given /\ pc' = "split" /\ into' = 0
  BY DEF SimpleInv, Simple!Sort
<1>2. /\ Count \in Nat /\ DOMAIN given = 1..Count
      /\ \A g \in 1..Count : GivenSize(g) \in Nat
  BY <1>1, GivenIs
<1>3. groups' = [k \in 1..Count |-> given[order[k]]]
  <2>1. \A g : Simple!Cardinality(given[g].members) = GivenSize(g)
    BY SimpleCardinality
  <2>2. groups' = [k \in 1..Count |-> given[Simple!Ordered(1..Count, before)[k]]]
    BY Zenon, <1>2, <2>1 DEF Simple!Sort
  <2> QED BY Zenon, <2>2, SimpleOrdered
<1>4. IsOrder(1..Count, before)
  <2> HIDE DEF GivenSize
  <2>1. \A g \in 1..Count : before[g] = {h \in 1..Count :
            \/ GivenSize(h) < GivenSize(g)
            \/ GivenSize(h) = GivenSize(g) /\ h < g}
    OBVIOUS
  <2> HIDE DEF before
  <2>2. \A g \in 1..Count : before[g] \subseteq 1..Count /\ g \notin before[g]
    BY <1>2, <2>1
  <2>3. ASSUME NEW s \in 1..Count, NEW t \in 1..Count, s # t
        PROVE  \/ before[s] \cup {s} \subseteq before[t]
               \/ before[t] \cup {t} \subseteq before[s]
    <3>1. ASSUME NEW a \in 1..Count, NEW b \in 1..Count,
                 GivenSize(a) < GivenSize(b) \/ (GivenSize(a) = GivenSize(b) /\ a < b)
          PROVE  before[a] \cup {a} \subseteq before[b]
      <4>1. a \in before[b]
        BY <2>1, <3>1
      <4>2. ASSUME NEW h \in before[a] PROVE h \in before[b]
        BY <1>2, <2>1, <3>1, <4>2
      <4> QED BY <4>1, <4>2
    <3>2. \/ GivenSize(s) < GivenSize(t) \/ (GivenSize(s) = GivenSize(t) /\ s < t)
          \/ GivenSize(t) < GivenSize(s) \/ (GivenSize(t) = GivenSize(s) /\ t < s)
      BY <1>2, <2>3
    <3> QED BY <3>1, <3>2
  <2> QED BY <2>2, <2>3 DEF IsOrder
<1>5. Cardinality(1..Count) = Count /\ IsFiniteSet(1..Count)
  BY <1>2, CountTo
<1>6. /\ order \in [1..Count -> 1..Count]
      /\ \A g \in 1..Count : \E k \in 1..Count : order[k] = g
      /\ \A k, l \in 1..Count : order[k] = order[l] => k = l
      /\ \A k, l \in 1..Count : k < l => order[k] \in before[order[l]]
  <2> HIDE DEF before, order
  <2>1. LET o == Ordered(1..Count, before)
            n == Cardinality(1..Count)
        IN  /\ o \in [1..n -> 1..Count]
            /\ \A s \in 1..Count : \E k \in 1..n : o[k] = s
            /\ \A k, j \in 1..n : o[k] = o[j] => k = j
            /\ \A k, j \in 1..n : k < j => o[k] \in before[o[j]]
    BY <1>4, <1>5, OrderedIs
  <2> QED BY <1>5, <2>1 DEF order
<1>7. \A k, l \in 1..Count : k < l => GivenSize(order[k]) <= GivenSize(order[l])
  <2> HIDE DEF GivenSize, order
  <2>1. \A g \in 1..Count : \A h \in before[g] : GivenSize(h) <= GivenSize(g)
    BY <1>2
  <2> HIDE DEF before
  <2> QED BY <1>6, <2>1
<1> HIDE DEF order
<1>8. Sorted'
  <2>1. \A k \in 1..Count : groups'[k] = given[order[k]]
    BY <1>3
  <2>2. \A k, l \in 1..Count :
          k < l => Cardinality(groups'[k].members) <= Cardinality(groups'[l].members)
    BY <1>7, <2>1
  <2> QED BY <1>1, <1>3, <1>6, <2>2 DEF Sorted
<1> QED BY <1>1, <1>8, GivenStays DEF SimpleInv

(* Numbers that have no gaps are in the array at their own places. *)
LEMMA FirstOnesAscending ==
  ASSUME NEW c \in Nat, NEW S \in SUBSET (1..c),
         \A k \in S : \A m \in 1..c : m < k => m \in S
  PROVE  LET a == Ascending(S)
         IN  /\ a \in Seq(Nat) /\ Len(a) <= c
             /\ \A k \in 1..Len(a) : a[k] = k
             /\ \A k \in 1..c : k \in S <=> k <= Len(a)
<1> DEFINE a == Ascending(S)
           n == Cardinality(S)
<1>1. IsFiniteSet(S) /\ n \in Nat /\ n <= c /\ S \in SUBSET Int
  <2>1. IsFiniteSet(1..c) /\ Cardinality(1..c) = c
    BY CountTo
  <2>2. IsFiniteSet(S) /\ Cardinality(S) <= Cardinality(1..c)
    BY <2>1, FS_Subset
  <2> QED BY <2>1, <2>2, FS_CardinalityType
<1>2. /\ a \in [1..n -> S]
      /\ \A s \in S : \E k \in 1..n : a[k] = s
      /\ \A k \in 1..n : Cardinality({m \in S : m < a[k]}) = k - 1
  BY <1>1, AscendingIs
<1> HIDE DEF a, n
<1>3. S \subseteq 1..c /\ S \subseteq Nat
  OBVIOUS
<1>4. ASSUME NEW k \in 1..n PROVE a[k] = k
  <2>1. a[k] \in S
    BY <1>2, <1>4
  <2>2. a[k] \in 1..c
    BY <1>3, <2>1
  <2>3. a[k] \in S /\ a[k] \in 1..c /\ a[k] - 1 \in Nat
    BY <2>1, <2>2
  <2>4. {m \in S : m < a[k]} = 1..(a[k] - 1)
    <3>1. ASSUME NEW m \in 1..(a[k] - 1) PROVE m \in S
      <4>1. m \in 1..c /\ m < a[k]
        BY <2>3
      <4> QED BY <2>3, <4>1
    <3>2. \A m \in S : m < a[k] => m \in 1..(a[k] - 1)
      BY <1>3, <2>3
    <3>3. \A m \in 1..(a[k] - 1) : m < a[k]
      BY <2>3
    <3> QED BY <3>1, <3>2, <3>3
  <2>5. Cardinality(1..(a[k] - 1)) = a[k] - 1
    BY <2>3, CountTo
  <2>6. a[k] - 1 = k - 1
    BY <1>2, <2>4, <2>5
  <2> QED BY <1>1, <2>3, <2>6
<1>5. a \in Seq(Nat) /\ Len(a) = n
  <2>1. a \in [1..n -> Nat]
    BY <1>2, <1>3
  <2> QED BY <1>1, <2>1
<1>6. \A k \in 1..c : k \in S <=> k <= n
  <2>1. \A k \in 1..c : k <= n => k \in S
    BY <1>1, <1>2, <1>4
  <2>2. \A k \in S : k <= n
    BY <1>1, <1>2, <1>4
  <2> QED BY <2>1, <2>2
<1>7. /\ a \in Seq(Nat) /\ Len(a) <= c
      /\ \A k \in 1..Len(a) : a[k] = k
      /\ \A k \in 1..c : k \in S <=> k <= Len(a)
  BY <1>1, <1>4, <1>5, <1>6
<1> QED BY <1>7 DEF a

(* Sorting has only put the groups elsewhere. *)
LEMMA SortedIs ==
  ASSUME ConstantsOK, GivenIsOk, Sorted
  PROVE  \E at : Placed(groups, at) /\ \A g \in 1..Count : groups[at[g]] = given[g]
<1>1. PICK order \in [1..Count -> 1..Count] :
        /\ \A g \in 1..Count : \E k \in 1..Count : order[k] = g
        /\ \A k, l \in 1..Count : order[k] = order[l] => k = l
        /\ groups = [k \in 1..Count |-> given[order[k]]]
  BY DEF Sorted
<1> DEFINE at == [g \in 1..Count |-> CHOOSE k \in 1..Count : order[k] = g]
<1>2. /\ at \in [1..Count -> 1..Count]
      /\ \A g \in 1..Count : order[at[g]] = g
  BY <1>1
<1> HIDE DEF at
<1>3. \A g \in 1..Count : groups[at[g]] = given[g]
  BY <1>1, <1>2
<1>4. groups \in SomeGroups
  BY <1>1 DEF SomeGroups, GivenIsOk
<1>5. \A h \in 1..Count :
        groups[h].members = UNION {given[g].members : g \in {x \in 1..Count : at[x] = h}}
  <2> SUFFICES ASSUME NEW h \in 1..Count
               PROVE  groups[h].members =
                        UNION {given[g].members : g \in {x \in 1..Count : at[x] = h}}
    OBVIOUS
  <2>1. {x \in 1..Count : at[x] = h} = {order[h]} /\ groups[h] = given[order[h]]
    BY <1>1, <1>2
  <2> QED BY <2>1
<1>6. Placed(groups, at)
  BY <1>2, <1>3, <1>4, <1>5 DEF Placed
<1> QED BY <1>3, <1>6

(* The small groups are told apart, and those that can be joined. *)
LEMMA SplitStep ==
  ASSUME ConstantsOK, SimpleInv, Simple!Split
  PROVE  SimpleInv'
<1>1. /\ GivenIsOk /\ size' = size /\ given' = given /\ groups' = groups
      /\ pc' = "merge" /\ i' = 1 /\ into' = 0
      /\ Simple!NoneEmpty => Sorted
  BY DEF SimpleInv, Simple!Split
<1>2. SUFFICES ASSUME Simple!NoneEmpty PROVE Putting'
  BY <1>1, GivenStays DEF SimpleInv
<1> DEFINE SizeOf(g) == Cardinality(groups[g].members)
           small == {g \in 1..Count : SizeOf(g) > 0 /\ SizeOf(g) < sizeMin}
<1>3. /\ Count \in Nat /\ sizeMin \in Nat /\ DOMAIN given = 1..Count
  BY <1>1, GivenIs
<1>4. PICK at : Placed(groups, at) /\ \A g \in 1..Count : groups[at[g]] = given[g]
  BY <1>1, <1>2, SortedIs
<1>5. /\ groups \in SomeGroups /\ DOMAIN groups = 1..Count
      /\ at \in [1..Count -> 1..Count]
  BY <1>4 DEF Placed, SomeGroups
<1>6. \A g \in 1..Count : SizeOf(g) \in Nat /\ SizeOf(g) > 0
  <2> SUFFICES ASSUME NEW g \in 1..Count PROVE SizeOf(g) \in Nat /\ SizeOf(g) > 0
    OBVIOUS
  <2>1. PICK order \in [1..Count -> 1..Count] :
          groups = [k \in 1..Count |-> given[order[k]]]
    BY <1>1, <1>2 DEF Sorted
  <2>2. PICK h \in 1..Count : groups[g] = given[h]
    BY <2>1
  <2>3. given[h].members # {} /\ IsFiniteSet(given[h].members) /\ SizeOf(g) \in Nat
    BY <1>1, <1>2, <1>3, <2>2, GivenIs DEF Simple!NoneEmpty
  <2>4. SizeOf(g) # 0
    BY <2>2, <2>3, FS_EmptySet
  <2> QED BY <2>3, <2>4
<1>7. \A k, l \in 1..Count : k < l => SizeOf(k) <= SizeOf(l)
  BY <1>1, <1>2 DEF Sorted
<1>8. \A g : Simple!SizeOf(g) = SizeOf(g)
  BY SimpleCardinality DEF Simple!SizeOf
<1>9. invalid' = Ascending(small)
  <2>1. invalid' = Simple!Ascending(small)
    BY <1>5, <1>8 DEF Simple!Split, Simple!sizeMin, sizeMin
  <2> QED BY Zenon, <2>1, SimpleAscending
<1>10. \A g \in openGroups' :
         g \in 1..Count /\ SizeOf(g) >= sizeMin /\ groups[g].open
  <2> DEFINE other == {g \in 1..Count : Simple!SizeOf(g) > 0 /\ Simple!SizeOf(g) >= sizeMin}
  <2>1. openGroups' = {g \in other : \A h \in other : h <= g => Simple!isJoinable(h)}
    BY <1>5 DEF Simple!Split, Simple!sizeMin, sizeMin
  <2>2. \A g \in 1..Count : g <= g
    BY <1>3
  <2>3. \A g \in openGroups' : g \in other /\ Simple!isJoinable(g)
    BY <2>1, <2>2
  <2> QED BY <1>8, <2>3 DEF Simple!isJoinable
<1> HIDE DEF SizeOf
<1>11. \A k \in small : \A m \in 1..Count : m < k => m \in small
  BY <1>3, <1>6, <1>7
<1>12. /\ invalid' \in Seq(Nat) /\ Len(invalid') <= Count
       /\ \A k \in 1..Len(invalid') : invalid'[k] = k
       /\ \A k \in 1..Count : k \in small <=> k <= Len(invalid')
  <2> HIDE DEF small
  <2>1. small \in SUBSET (1..Count)
    BY DEF small
  <2> QED BY <1>3, <1>9, <1>11, <2>1, FirstOnesAscending
<1>13. \A k \in 1..Len(invalid') : SizeOf(k) < sizeMin
  BY <1>3, <1>12
<1>14. SmallOnesFirst'
  <2>1. \A g \in openGroups' : g \notin small
    BY <1>3, <1>6, <1>10
  <2>2. Len(invalid') \in Nat
    BY <1>12
  <2>3. openGroups' \subseteq (Len(invalid') + 1)..Count
    BY <1>3, <1>10, <1>12, <2>1, <2>2
  <2> QED BY <1>12, <2>3 DEF SmallOnesFirst
<1>15. Joined(at)'
  <2>1. \A g \in 1..Count : at[g] \in 1..Len(invalid') => IsSmall(g)
    BY <1>4, <1>13 DEF IsSmall, SizeOf
  <2>2. \A g \in 1..Count : at[g] \in openGroups' => MayGrow(g)
    BY <1>4, <1>10 DEF MayGrow
  <2> QED BY <1>1, <2>1, <2>2, GivenStays DEF Joined
<1>16. Placed(groups, at)'
  BY <1>1, <1>4, PlacedNext
<1>17. Len(invalid') \in Nat
  BY <1>12
<1> QED BY <1>1, <1>14, <1>15, <1>16, <1>17 DEF Putting

(* The next small group is the one that the others are put into. *)
LEMMA NextInvalidStep ==
  ASSUME ConstantsOK, SimpleInv, Simple!NextInvalid
  PROVE  SimpleInv'
<1>1. /\ GivenIsOk /\ size' = size /\ given' = given /\ groups' = groups
      /\ pc' = "merge" /\ i' = i /\ invalid' = invalid /\ openGroups' = openGroups
      /\ into' = invalid[i] /\ currentSize' = Simple!SizeOf(invalid[i])
      /\ i < Len(invalid)
      /\ Simple!NoneEmpty => Putting
  BY DEF SimpleInv, Simple!NextInvalid
<1>2. SUFFICES ASSUME Simple!NoneEmpty PROVE Putting'
  BY <1>1, GivenStays DEF SimpleInv
<1>3. PICK at : Placed(groups, at) /\ Joined(at)
  BY <1>1, <1>2 DEF Putting
<1>4. Placed(groups, at)' /\ Joined(at)'
  BY <1>1, <1>3, PlacedNext, JoinedNext
<1>5. SmallOnesFirst /\ i \in Nat /\ i > 0 /\ Len(invalid) \in Nat
  BY <1>1, <1>2 DEF Putting, SmallOnesFirst
<1>6. into' = i
  BY <1>1, <1>5 DEF SmallOnesFirst
<1>7. currentSize' = Cardinality(groups'[into'].members)
  BY <1>1, SimpleCardinality DEF Simple!SizeOf
<1>8. SmallOnesFirst'
  BY <1>1, <1>5, GivenStays DEF SmallOnesFirst
<1> QED BY <1>1, <1>4, <1>5, <1>6, <1>7, <1>8 DEF Putting

(* The small group that comes next is put into it if there is room. *)
LEMMA MergeNextStep ==
  ASSUME ConstantsOK, SimpleInv, Simple!MergeNext
  PROVE  SimpleInv'
<1> DEFINE other == i + 1
           total == currentSize + Simple!SizeOf(other)
<1>1. /\ GivenIsOk /\ size' = size /\ given' = given /\ pc = "merge"
      /\ pc' = "merge" /\ invalid' = invalid /\ openGroups' = openGroups
      /\ into # 0 /\ i < Len(invalid) /\ i' = i + 1
      /\ groups' = IF total <= sizeMax THEN Simple!Merged(into, other) ELSE groups
      /\ currentSize' = total
      /\ into' = IF total < sizeMax THEN into ELSE 0
      /\ Simple!NoneEmpty => Putting
  BY DEF SimpleInv, Simple!MergeNext, Simple!sizeMax, sizeMax
<1>2. SUFFICES ASSUME Simple!NoneEmpty PROVE Putting'
  BY <1>1, GivenStays DEF SimpleInv
<1>3. PICK at : Placed(groups, at) /\ Joined(at)
  BY <1>1, <1>2 DEF Putting
<1>4. /\ SmallOnesFirst /\ i \in Nat /\ i > 0 /\ Len(invalid) \in Nat
      /\ into \in 0..i /\ into <= Len(invalid)
      /\ currentSize = Cardinality(groups[into].members)
  BY <1>1, <1>2 DEF Putting, SmallOnesFirst
<1>5. total = Cardinality(groups[into].members) + Cardinality(groups[other].members)
  BY <1>4, SimpleCardinality DEF Simple!SizeOf
<1>6. /\ into \in 1..Len(invalid) /\ other \in 1..Len(invalid) /\ into # other
      /\ into \in 1..Count /\ other \in 1..Count
  <2>1. Len(invalid) <= Count /\ Count \in Nat
    BY <1>1, <1>4, GivenIs DEF SmallOnesFirst
  <2> QED BY <1>1, <1>4, <2>1
<1>7. total \in Nat /\ sizeMax \in Nat
  <2>1. groups \in SomeGroups
    BY <1>3 DEF Placed
  <2>2. /\ Cardinality(groups[into].members) \in Nat
        /\ Cardinality(groups[other].members) \in Nat
        /\ sizeMax \in Nat
    BY <1>1, <1>6, <2>1, GivenIs
  <2> QED BY <1>5, <2>2
<1> HIDE DEF total
<1>8. SmallOnesFirst'
  BY <1>1, <1>4, GivenStays DEF SmallOnesFirst
<1>9. CASE total <= sizeMax
  <2> DEFINE new == Simple!Merged(into, other)
  <2>1. /\ \E to : Placed(new, to) /\ Joined(to)
        /\ Cardinality(new[into].members) =
             Cardinality(groups[into].members) + Cardinality(groups[other].members)
    BY <1>1, <1>3, <1>4, <1>5, <1>6, <1>9, MergedIs
  <2>2. groups' = new
    BY <1>1, <1>9
  <2> HIDE DEF new
  <2>3. PICK to : Placed(new, to) /\ Joined(to)
    BY <2>1
  <2>4. Placed(groups', to)
    BY <2>2, <2>3
  <2>5. Placed(groups, to)' /\ Joined(to)'
    BY <1>1, <2>3, <2>4, PlacedNext, JoinedNext
  <2>6. total = Cardinality(groups'[into].members)
    BY <1>5, <2>1, <2>2
  <2>7. into' # 0 => currentSize' = Cardinality(groups'[into'].members)
    BY <1>1, <2>6
  <2>8. i' \in Nat /\ i' > 0 /\ into' \in 0..i' /\ into' <= Len(invalid')
    BY <1>1, <1>4
  <2> QED BY <1>8, <2>5, <2>7, <2>8 DEF Putting
<1>10. CASE ~ (total <= sizeMax)
  <2>1. groups' = groups /\ into' = 0
    BY <1>1, <1>7, <1>10
  <2>2. Placed(groups, at)' /\ Joined(at)'
    BY <1>1, <1>3, <2>1, PlacedNext, JoinedNext
  <2>3. i' \in Nat /\ i' > 0 /\ into' \in 0..i' /\ into' <= Len(invalid')
    BY <1>1, <1>4, <2>1
  <2> QED BY <1>8, <2>1, <2>2, <2>3 DEF Putting
<1> QED BY <1>9, <1>10

(* Those that have become large enough are told apart from those that have not. *)
LEMMA ClassifyStep ==
  ASSUME ConstantsOK, SimpleInv, Simple!Classify
  PROVE  SimpleInv'
<1> DEFINE nonEmpty == {g \in Simple!ToSet(invalid) : Simple!SizeOf(g) > 0}
<1>1. /\ GivenIsOk /\ size' = size /\ given' = given /\ groups' = groups
      /\ pc' = "join" /\ invalid' = invalid /\ openGroups' = openGroups
      /\ newOpenGroups' = {g \in nonEmpty :
                             Simple!SizeOf(g) >= sizeMin /\ Simple!isJoinable(g)}
      /\ remaining' = {g \in nonEmpty : Simple!SizeOf(g) < sizeMin}
      /\ Simple!NoneEmpty => Putting
  BY DEF SimpleInv, Simple!Classify, Simple!sizeMin, sizeMin
<1>2. SUFFICES ASSUME Simple!NoneEmpty PROVE Joining'
  BY <1>1, GivenStays DEF SimpleInv
<1>3. PICK at : Placed(groups, at) /\ Joined(at)
  BY <1>1, <1>2 DEF Putting
<1>4. Placed(groups, at)' /\ Joined(at)'
  BY <1>1, <1>3, PlacedNext, JoinedNext
<1>5. SmallOnesFirst /\ sizeMin \in Nat /\ Count \in Nat /\ Len(invalid) \in Nat
      /\ Len(invalid) <= Count
  BY <1>1, <1>2, GivenIs DEF Putting, SmallOnesFirst
<1>6. nonEmpty \subseteq 1..Len(invalid)
  <2>1. Simple!ToSet(invalid) = {invalid[k] : k \in 1..Len(invalid)}
    BY SimpleToSet, <1>5 DEF ToSet, SmallOnesFirst
  <2> QED BY <1>5, <2>1 DEF SmallOnesFirst
<1>7. \A g \in nonEmpty : Simple!SizeOf(g) \in Nat
  <2> SUFFICES ASSUME NEW g \in 1..Len(invalid) PROVE Simple!SizeOf(g) \in Nat
    BY <1>6
  <2>1. groups \in SomeGroups /\ g \in 1..Count
    BY <1>3, <1>5 DEF Placed
  <2>2. Cardinality(groups[g].members) \in Nat
    BY <1>1, <2>1, GivenIs
  <2> QED BY <2>2, SimpleCardinality DEF Simple!SizeOf
<1> HIDE DEF nonEmpty
<1>8. remaining' \cap newOpenGroups' = {}
  BY <1>1, <1>5, <1>7
<1>9. SmallOnesFirst'
  BY <1>1, <1>5, GivenStays DEF SmallOnesFirst
<1> QED BY <1>1, <1>4, <1>6, <1>8, <1>9 DEF Joining

(* A group that has remained too small is put into one that has room. *)
LEMMA JoinStep ==
  ASSUME ConstantsOK, SimpleInv, Simple!Join
  PROVE  SimpleInv'
<1> DEFINE g == Simple!Min(remaining)
           Fitting(hs) == {h \in hs : Simple!hasCapacity(g, h)}
           rooms == IF Fitting(newOpenGroups) # {} THEN Fitting(newOpenGroups)
                    ELSE Fitting(openGroups)
           h == Simple!Min(rooms)
<1>1. /\ GivenIsOk /\ size' = size /\ given' = given /\ pc' = "join"
      /\ invalid' = invalid /\ openGroups' = openGroups /\ newOpenGroups' = newOpenGroups
      /\ remaining # {} /\ remaining' = remaining \ {g}
      /\ groups' = IF rooms = {} THEN groups ELSE Simple!Merged(h, g)
      /\ Simple!NoneEmpty => Joining
  BY DEF SimpleInv, Simple!Join
<1>2. SUFFICES ASSUME Simple!NoneEmpty PROVE Joining'
  BY <1>1, GivenStays DEF SimpleInv
<1>3. PICK at : Placed(groups, at) /\ Joined(at)
  BY <1>1, <1>2 DEF Joining
<1>4. /\ SmallOnesFirst /\ Len(invalid) \in Nat
      /\ remaining \subseteq 1..Len(invalid) /\ newOpenGroups \subseteq 1..Len(invalid)
      /\ remaining \cap newOpenGroups = {}
      /\ openGroups \subseteq (Len(invalid) + 1)..Count
      /\ Count \in Nat
  BY <1>1, <1>2, GivenIs DEF Joining, SmallOnesFirst
<1>5. g \in remaining
  <2>1. remaining \in SUBSET Nat
    BY <1>4
  <2> QED BY <1>1, <2>1, SimpleMin, MinIs
<1>6. ASSUME rooms # {}
      PROVE  /\ h \in newOpenGroups \cup openGroups
             /\ Simple!hasCapacity(g, h)
  <2> HIDE DEF g
  <2>1. \A r \in rooms : r \in newOpenGroups \cup openGroups /\ Simple!hasCapacity(g, r)
    OBVIOUS
  <2> HIDE DEF rooms
  <2>2. /\ \A r \in newOpenGroups : r \in Nat
        /\ \A r \in openGroups : r \in Nat
    BY <1>4
  <2>3. \A r \in rooms : r \in Nat
    BY <2>1, <2>2
  <2>4. rooms \in SUBSET Nat
    BY <2>3
  <2>5. Min(rooms) \in rooms
    BY <1>6, <2>4, MinIs
  <2>6. h \in rooms
    BY <2>5, SimpleMin
  <2> QED BY <2>1, <2>6
<1> HIDE DEF g, rooms, h
<1>7. /\ SmallOnesFirst'
      /\ remaining' \subseteq 1..Len(invalid')
      /\ newOpenGroups' \subseteq 1..Len(invalid')
      /\ remaining' \cap newOpenGroups' = {}
  <2>1. SmallOnesFirst'
    BY <1>1, <1>4, GivenStays DEF SmallOnesFirst
  <2> QED BY <1>1, <1>4, <2>1
<1>8. CASE rooms = {}
  <2>1. Placed(groups, at)' /\ Joined(at)'
    BY <1>1, <1>3, <1>8, PlacedNext, JoinedNext
  <2> QED BY <1>7, <2>1 DEF Joining
<1>9. CASE rooms # {}
  <2> DEFINE new == Simple!Merged(h, g)
  <2>1. /\ h \in (1..Len(invalid)) \cup openGroups /\ g \in 1..Len(invalid) /\ h # g
        /\ h \in 1..Count /\ g \in 1..Count
    <3>1. h \in newOpenGroups \cup openGroups
      BY <1>6, <1>9
    <3>2. h # g
      BY <1>4, <1>5, <3>1
    <3>3. h \in 1..Count /\ g \in 1..Count
      BY <1>4, <1>5, <3>1 DEF SmallOnesFirst
    <3> QED BY <1>4, <1>5, <3>1, <3>2, <3>3
  <2>2. Cardinality(groups[h].members) + Cardinality(groups[g].members) <= sizeMax
    <3>1. groups \in SomeGroups
      BY <1>3 DEF Placed
    <3>2. /\ Cardinality(groups[h].members) \in Nat
          /\ Cardinality(groups[g].members) \in Nat
      BY <1>1, <2>1, <3>1, GivenIs
    <3>3. Cardinality(groups[g].members) + Cardinality(groups[h].members) <= sizeMax
      BY <1>6, <1>9, SimpleCardinality
         DEF Simple!hasCapacity, Simple!SizeOf, Simple!sizeMax, sizeMax
    <3> QED BY <3>2, <3>3
  <2>3. \E to : Placed(new, to) /\ Joined(to)
    BY <1>1, <1>3, <1>4, <2>1, <2>2, MergedIs
  <2>4. groups' = new
    BY <1>1, <1>9
  <2> HIDE DEF new
  <2>5. PICK to : Placed(new, to) /\ Joined(to)
    BY <2>3
  <2>6. Placed(groups', to)
    BY <2>4, <2>5
  <2>7. Placed(groups, to)' /\ Joined(to)'
    BY <1>1, <2>5, <2>6, PlacedNext, JoinedNext
  <2> QED BY <1>7, <2>7 DEF Joining
<1> QED BY <1>8, <1>9

(* Empty groups are dropped. *)
LEMMA SimpleFinishStep ==
  ASSUME ConstantsOK, SimpleInv, Simple!Finish
  PROVE  SimpleInv'
<1> DEFINE full == {g \in 1..Count : groups[g].members # {}}
           kept == Ascending(full)
<1>1. /\ GivenIsOk /\ size' = size /\ given' = given /\ pc' = "done"
      /\ Simple!NoneEmpty => Joining
  BY DEF SimpleInv, Simple!Finish
<1>2. SUFFICES ASSUME Simple!NoneEmpty PROVE Simple!KeptTogether' /\ Simple!RoomKept'
  BY <1>1, GivenStays DEF SimpleInv
<1>3. PICK at : Placed(groups, at) /\ Joined(at)
  BY <1>1, <1>2 DEF Joining
<1>4. /\ groups \in SomeGroups /\ DOMAIN groups = 1..Count
      /\ at \in [1..Count -> 1..Count]
      /\ Count \in Nat /\ DOMAIN given = 1..Count
  BY <1>1, <1>3, GivenIs DEF Placed, SomeGroups
<1>5. groups' = [k \in DOMAIN kept |-> groups[kept[k]]]
  <2>1. groups' = [k \in DOMAIN Simple!Ascending(full) |-> groups[Simple!Ascending(full)[k]]]
    BY <1>4 DEF Simple!Finish
  <2> QED BY Zenon, <2>1, SimpleAscending
<1>6. /\ \A k \in DOMAIN kept : kept[k] \in 1..Count
      /\ \A g \in full : \E k \in DOMAIN kept : kept[k] = g
      /\ \A k, l \in DOMAIN kept : k # l => kept[k] # kept[l]
  <2> DEFINE n == Cardinality(full)
  <2>1. IsFiniteSet(full) /\ full \in SUBSET Int
    <3>1. full \subseteq 1..Count
      OBVIOUS
    <3>2. IsFiniteSet(1..Count) /\ 1..Count \subseteq Int
      BY <1>4, CountTo
    <3> HIDE DEF full
    <3>3. IsFiniteSet(full)
      BY <3>1, <3>2, FS_Subset
    <3> QED BY <3>1, <3>2, <3>3
  <2>2. full \subseteq 1..Count
    OBVIOUS
  <2> HIDE DEF full
  <2>3. /\ kept \in [1..n -> full]
        /\ \A s \in full : \E k \in 1..n : kept[k] = s
        /\ \A k, j \in 1..n : kept[k] = kept[j] => k = j
    BY <2>1, AscendingIs
  <2> HIDE DEF kept, n
  <2> QED BY <2>2, <2>3
<1> HIDE DEF kept
<1>7. /\ \A g \in 1..Count : given[g].members \subseteq groups[at[g]].members
      /\ \A g, h \in 1..Count : g # h => groups[g].members \cap groups[h].members = {}
      /\ \A g, h \in 1..Count :
           given[g].members # {} /\ given[g].members \subseteq groups[h].members => at[g] = h
  BY <1>1, <1>3, PlacedTogether
<1>8. \A g \in 1..Count : given[g].members # {}
  BY <1>2, <1>4 DEF Simple!NoneEmpty
<1>9. DOMAIN groups' = DOMAIN kept /\ \A k \in DOMAIN kept : groups'[k] = groups[kept[k]]
  BY <1>5
<1>10. Simple!KeptTogether'
  <2>1. \A g, h \in DOMAIN kept : g # h =>
          groups[kept[g]].members \cap groups[kept[h]].members = {}
    BY <1>6, <1>7
  <2>2. ASSUME NEW g \in 1..Count
        PROVE  \E k \in DOMAIN kept : given[g].members \subseteq groups[kept[k]].members
    <3>1. at[g] \in full /\ given[g].members \subseteq groups[at[g]].members
      BY <1>4, <1>7, <1>8
    <3> QED BY <1>6, <3>1
  <2>3. \A g, h \in DOMAIN groups' : g # h => groups'[g].members \cap groups'[h].members = {}
    BY <1>9, <2>1
  <2>4. \A g \in DOMAIN given' : \E k \in DOMAIN groups' :
          given'[g].members \subseteq groups'[k].members
    <3> SUFFICES ASSUME NEW g \in 1..Count
                 PROVE  \E k \in DOMAIN groups' : given[g].members \subseteq groups'[k].members
      BY <1>1, <1>4
    <3>1. PICK k \in DOMAIN kept : given[g].members \subseteq groups[kept[k]].members
      BY <2>2
    <3> QED BY <1>9, <3>1
  <2> QED BY <2>3, <2>4 DEF Simple!KeptTogether
<1>11. Simple!RoomKept'
  <2>1. ASSUME NEW k \in DOMAIN kept, NEW g \in 1..Count,
               given[g].members \subseteq groups[kept[k]].members
        PROVE  \/ groups[kept[k]].members = given[g].members
               \/ /\ Cardinality(groups[kept[k]].members) <= sizeMax
                  /\ Cardinality(given[g].members) < sizeMin \/ given[g].open
    <3>1. at[g] = kept[k]
      BY <1>6, <1>7, <1>8, <2>1
    <3> QED BY <1>3, <3>1 DEF Placed, MayGrow, IsSmall
  <2>2. \A k \in DOMAIN groups', g \in DOMAIN given' :
          given'[g].members \subseteq groups'[k].members =>
            \/ groups'[k].members = given'[g].members
            \/ /\ Simple!Cardinality(groups'[k].members) <= size'[2]
               /\ Simple!Cardinality(given'[g].members) < size'[1] \/ given'[g].open
    <3> SUFFICES ASSUME NEW k \in DOMAIN groups', NEW g \in DOMAIN given',
                        given'[g].members \subseteq groups'[k].members
                 PROVE  \/ groups'[k].members = given'[g].members
                        \/ /\ Simple!Cardinality(groups'[k].members) <= size'[2]
                           /\ \/ Simple!Cardinality(given'[g].members) < size'[1]
                              \/ given'[g].open
      OBVIOUS
    <3>1. /\ k \in DOMAIN kept /\ g \in 1..Count
          /\ groups'[k].members = groups[kept[k]].members /\ given'[g] = given[g]
      BY <1>1, <1>4, <1>9
    <3>2. \/ groups[kept[k]].members = given[g].members
          \/ /\ Cardinality(groups[kept[k]].members) <= sizeMax
             /\ Cardinality(given[g].members) < sizeMin \/ given[g].open
      BY <2>1, <3>1
    <3> QED BY <1>1, <3>1, <3>2, SimpleCardinality DEF sizeMin, sizeMax
  <2> QED BY <2>2 DEF Simple!RoomKept, Simple!sizeMin, Simple!sizeMax
<1> QED BY <1>10, <1>11

(* At the end, the invariant of the other strategy is what it promises. *)
LEMMA SimpleHolds ==
  ASSUME SimpleInv
  PROVE  Simple!KeptTogether /\ Simple!RoomKept
<1>1. CASE pc = "done" /\ Simple!NoneEmpty
  BY <1>1 DEF SimpleInv
<1>2. CASE ~ (pc = "done" /\ Simple!NoneEmpty)
  BY <1>2 DEF Simple!KeptTogether, Simple!RoomKept
<1> QED BY <1>1, <1>2

LEMMA SimpleNext ==
  ASSUME ConstantsOK, SimpleInv, Simple!Next
  PROVE  SimpleInv'
<1>1. CASE Simple!Sort
  BY <1>1, SortStep
<1>2. CASE Simple!Split
  BY <1>2, SplitStep
<1>3. CASE Simple!NextInvalid
  BY <1>3, NextInvalidStep
<1>4. CASE Simple!MergeNext
  BY <1>4, MergeNextStep
<1>5. CASE Simple!Classify
  BY <1>5, ClassifyStep
<1>6. CASE Simple!Join
  BY <1>6, JoinStep
<1>7. CASE Simple!Finish
  BY <1>7, SimpleFinishStep
<1> QED BY <1>1, <1>2, <1>3, <1>4, <1>5, <1>6, <1>7 DEF Simple!Next

--------------------------------------------------------------------------------
(* The theorems *)

MergingInv ==
  /\ strategy = "activity" => StrategyInv
  /\ strategy = "simple" => SimpleInv

LEMMA MergingStutter ==
  ASSUME MergingInv, UNCHANGED mergingVars
  PROVE  MergingInv'
<1>1. /\ UNCHANGED <<pc, size, groups, activity, ranked, sizes, firstMemberIndex,
                     availableIds, merged>>
      /\ UNCHANGED <<strategy, given, invalid, openGroups, newOpenGroups, remaining, i,
                     into, currentSize>>
  BY DEF mergingVars, vars, onlySimple
<1>2. ASSUME StrategyInv PROVE StrategyInv'
  <2>1. /\ sizeMin' = sizeMin /\ sizeMax' = sizeMax
        /\ invalidGroups' = invalidGroups
        /\ studentsInInvalidGroups' = studentsInInvalidGroups
        /\ GroupsAreDisjoint' <=> GroupsAreDisjoint
    BY <1>1, GroupsStay
  <2>2. (Ranking' <=> Ranking) /\ (Filling' <=> Filling)
    BY <1>1, <2>1 DEF Ranking, Filling
  <2>3. Filled' <=> Filled
    BY <1>1, <2>2 DEF Filled
  <2> QED BY <1>1, <1>2, <2>1, <2>2, <2>3 DEF StrategyInv
<1>3. ASSUME SimpleInv PROVE SimpleInv'
  <2>1. (Simple!NoneEmpty' <=> Simple!NoneEmpty) /\ GivenIsOk'
    BY <1>1, <1>3, GivenStays DEF SimpleInv
  <2>2. \A g : (IsSmall(g)' <=> IsSmall(g)) /\ (MayGrow(g)' <=> MayGrow(g))
    BY <1>1, <1>3, GivenStays DEF SimpleInv
  <2>3. \A at : Placed(groups, at) => Placed(groups, at)'
    BY <1>1, <1>3, PlacedNext DEF SimpleInv
  <2>4. \A at : Joined(at) => Joined(at)'
    BY <1>1, <1>3, JoinedNext DEF SimpleInv
  <2>5. SmallOnesFirst' <=> SmallOnesFirst
    BY <1>1 DEF SmallOnesFirst
  <2>6. Sorted => Sorted'
    BY <1>1 DEF Sorted
  <2>7. (Putting => Putting') /\ (Joining => Joining')
    BY <1>1, <2>3, <2>4, <2>5 DEF Putting, Joining
  <2>8. (Simple!KeptTogether => Simple!KeptTogether') /\ (Simple!RoomKept => Simple!RoomKept')
    BY <1>1 DEF Simple!KeptTogether, Simple!RoomKept, Simple!NoneEmpty, Simple!sizeMin,
                Simple!sizeMax
  <2> QED BY <1>1, <1>3, <2>1, <2>6, <2>7, <2>8 DEF SimpleInv
<1> QED BY <1>1, <1>2, <1>3 DEF MergingInv

LEMMA MergingInvariant == MergingSpec => []MergingInv
<1>1. MergingInit => MergingInv
  BY ConstantsOK, StrategyInit, SimpleInit DEF MergingInit, MergingInv
<1>2. MergingInv /\ [MergingNext]_mergingVars => MergingInv'
  <2>1. ASSUME MergingInv, MergingNext PROVE MergingInv'
    BY <2>1, ConstantsOK, StrategyNext, SimpleNext DEF MergingNext, MergingInv
  <2> QED BY <2>1, MergingStutter
<1> QED BY <1>1, <1>2, PTL DEF MergingSpec

(* When the sizes are in order, what mergeByActivity returns is what the registration of
   an assignment counts on (ActivityContract): no two merged groups have the same id,
   their ids are those of small groups, every student of a small group is in exactly one
   of them, and the other groups are as they were. *)
THEOREM MergeIsSafe == MergingSpec => []ActivityContract
<1>1. MergingInv => ActivityContract
  BY ConstantsOK, ContractHolds DEF MergingInv, ActivityContract
<1> QED BY <1>1, MergingInvariant, PTL

(* When the sizes are in order, the merged groups are the best that their students can be
   divided into (ActivitySizes): none is above the maximum, at most one is below the
   minimum, none if the students can be divided so, and then there are as few groups as
   possible (calculateIdealGroupSizes, with bestSum). *)
THEOREM MergedSizesAreBest == MergingSpec => []ActivitySizes
<1>1. MergingInv => ActivitySizes
  BY ConstantsOK, BestHolds DEF MergingInv, ActivitySizes
<1> QED BY <1>1, MergingInvariant, PTL

(* Whoever is in an earlier merged group has submitted for at least as many assignments
   as one in a later group, and if for as many, was active in at least as many weeks,
   provided that the activities of both were read in order (ActivityRanking,
   sortStudentsByActivity). *)
THEOREM MergedByActivity == MergingSpec => []ActivityRanking
<1>1. MergingInv => ActivityRanking
  BY ConstantsOK, RankingHolds DEF MergingInv, ActivityRanking
<1> QED BY <1>1, MergingInvariant, PTL

(* If no group was empty, the other strategy keeps all who were in a group together, and
   puts no one into two groups (SimpleTogether, SimpleMergeStrategy). *)
THEOREM SimpleMergeKeepsTogether == MergingSpec => []SimpleTogether
<1>1. MergingInv => SimpleTogether
  BY SimpleHolds DEF MergingInv, SimpleTogether
<1> QED BY <1>1, MergingInvariant, PTL

(* If no group was empty, no group grows beyond the maximum under the other strategy, a
   group that was large enough keeps its members, and a closed one gets no others
   (SimpleRoom, tryMergeInvalidGroups and what follows it). *)
THEOREM SimpleMergeKeepsRoom == MergingSpec => []SimpleRoom
<1>1. MergingInv => SimpleRoom
  BY SimpleHolds DEF MergingInv, SimpleRoom
<1> QED BY <1>1, MergingInvariant, PTL

================================================================================
