-------------------------- MODULE AdmissionStatusProofs -------------------------
(****************************************************************************)
(* Proofs about AdmissionStatus, for all courses, rules, points and misses  *)
(* of doubles: sums over sets, rounding, the rules, and then the requests.  *)
(*                                                                          *)
(* The sums of Functions are defined by recursion over sets.  What they are *)
(* is proved without induction over predicates: among sets for which a fact *)
(* fails there would be a smallest one.                                     *)
(****************************************************************************)
EXTENDS AdmissionStatus, FiniteSetTheorems, WellFoundedInduction, TLAPS

--------------------------------------------------------------------------------
(* Sums over finite sets *)

(* Among sets of subsets of a finite set there is a smallest one. *)
LEMMA SmallestSubset ==
  ASSUME NEW S, IsFiniteSet(S), NEW C \in SUBSET (SUBSET S), C # {}
  PROVE  \E s \in C : \A t \in C : t \subseteq s => t = s
<1>1. C \subseteq FiniteSubsetsOf(S)
  BY FS_Subset DEF FiniteSubsetsOf
<1>2. IsWellFoundedOn(StrictSubsetOrdering(S), FiniteSubsetsOf(S))
  BY FS_StrictSubsetOrderingWellFounded
<1>3. PICK s \in C : \A t \in C : <<t, s>> \notin StrictSubsetOrdering(S)
  BY <1>1, <1>2, WFMin
<1>4. ASSUME NEW t \in C, t \subseteq s, t # s PROVE FALSE
  <2>1. <<t, s>> \in StrictSubsetOrdering(S)
    BY <1>4 DEF StrictSubsetOrdering
  <2> QED BY <1>3, <2>1
<1> QED BY <1>4

(* The element that CHOOSE takes first. *)
Chosen(s) == CHOOSE x \in s : TRUE

(* The sums over all subsets of S, each with the element that is taken first. *)
IsSum(h, f, S) ==
  h = [s \in SUBSET S |-> IF s = {} THEN 0 ELSE f[Chosen(s)] + h[s \ {Chosen(s)}]]

(* Without that element a set is smaller by one. *)
LEMMA SmallerSets ==
  ASSUME NEW s, IsFiniteSet(s), s # {}
  PROVE  /\ Chosen(s) \in s
         /\ Cardinality(s) \in Nat /\ Cardinality(s) > 0
         /\ IsFiniteSet(s \ {Chosen(s)})
         /\ Cardinality(s \ {Chosen(s)}) = Cardinality(s) - 1
<1>1. Chosen(s) \in s
  BY DEF Chosen
<1>2. Cardinality(s) \in Nat /\ Cardinality(s) # 0
  BY FS_CardinalityType, FS_EmptySet
<1> QED BY <1>1, <1>2, FS_RemoveElement

(* So has a set of numbers. *)
LEMMA SmallestNumber ==
  ASSUME NEW B \in SUBSET Nat, B # {}
  PROVE  \E n \in B : \A m \in B : n <= m
<1>1. PICK n \in B : \A m \in B : <<m, n>> \notin OpToRel(<, Nat)
  BY Zenon, NatLessThanWellFounded, WFMin
<1>2. ASSUME NEW m \in B, m < n PROVE FALSE
  <2>1. /\ <<m, n>> \in Nat \X Nat
        /\ <<m, n>>[1] < <<m, n>>[2]
    BY <1>2
  <2>2. <<m, n>> \in OpToRel(<, Nat)
    BY Zenon, <2>1 DEF OpToRel
  <2> QED BY <1>1, <2>2
<1> QED BY <1>2

(* The sums exist: first those of the empty set, then those of sets with one more. *)
LEMMA SumExists ==
  ASSUME NEW f, NEW S, IsFiniteSet(S)
  PROVE  \E h : IsSum(h, f, S)
<1> DEFINE Upto(n) == {s \in SUBSET S : Cardinality(s) <= n}
           Sums(h, n) == h = [s \in Upto(n) |->
                                IF s = {} THEN 0 ELSE f[Chosen(s)] + h[s \ {Chosen(s)}]]
           N == Cardinality(S)
           Bad == {n \in Nat : ~\E h : Sums(h, n)}
<1>1. /\ N \in Nat
      /\ \A s \in SUBSET S : IsFiniteSet(s) /\ Cardinality(s) \in Nat /\ Cardinality(s) <= N
  BY FS_Subset, FS_CardinalityType
<1>2. ASSUME NEW s \in SUBSET S, s # {}
      PROVE  /\ s \ {Chosen(s)} \in SUBSET S
             /\ Cardinality(s \ {Chosen(s)}) = Cardinality(s) - 1
             /\ Cardinality(s) > 0
  BY <1>1, <1>2, SmallerSets
<1>3. ASSUME Bad # {} PROVE FALSE
  <2>1. Bad \in SUBSET Nat
    OBVIOUS
  <2>2. PICK n \in Bad : \A m \in Bad : n <= m
    <3> HIDE DEF Bad
    <3> QED BY <1>3, <2>1, SmallestNumber
  <2>3. n \in Nat /\ ~\E h : Sums(h, n)
    OBVIOUS
  <2>4. CASE n = 0
    <3>1. \A s \in Upto(n) : s = {}
      <4>1. ASSUME NEW s \in Upto(n), s # {} PROVE FALSE
        <5>1. s \in SUBSET S /\ Cardinality(s) <= 0
          BY <2>4
        <5>2. Cardinality(s) > 0 /\ Cardinality(s) \in Nat
          <6> HIDE DEF Upto
          <6> QED BY <1>1, <1>2, <4>1, <5>1
        <5> QED BY <5>1, <5>2
      <4> QED BY <4>1
    <3>2. Sums([s \in Upto(n) |-> 0], n)
      BY <3>1
    <3> QED BY <2>3, <3>2
  <2>5. CASE n # 0
    <3>1. n - 1 \in Nat /\ n - 1 \notin Bad
      <4> HIDE DEF Bad
      <4>1. n - 1 \in Nat /\ ~(n <= n - 1)
        BY <2>3, <2>5
      <4> QED BY <2>2, <4>1
    <3>2. PICK h : Sums(h, n - 1)
      BY <3>1
    <3> DEFINE g == [s \in Upto(n) |-> IF s = {} THEN 0 ELSE f[Chosen(s)] + h[s \ {Chosen(s)}]]
    <3>3. ASSUME NEW s \in Upto(n), s # {}
          PROVE  g[s \ {Chosen(s)}] = h[s \ {Chosen(s)}]
      <4> DEFINE t == s \ {Chosen(s)}
      <4>1. t \in Upto(n - 1) /\ t \in Upto(n)
        BY <1>1, <1>2, <2>3, <3>3
      <4>2. h[t] = IF t = {} THEN 0 ELSE f[Chosen(t)] + h[t \ {Chosen(t)}]
        <5> HIDE DEF t
        <5> QED BY <3>2, <4>1
      <4> HIDE DEF t, Upto
      <4>3. g[t] = h[t]
        BY <4>1, <4>2
      <4> QED BY <4>3 DEF t
    <3>4. Sums(g, n)
      <4> HIDE DEF Upto
      <4> QED BY <3>3
    <3> QED BY <2>3, <3>4
  <2> QED BY <2>4, <2>5
<1>4. PICK h : Sums(h, N)
  <2>1. N \notin Bad
    <3> HIDE DEF Bad
    <3> QED BY <1>3
  <2> QED BY <1>1, <2>1
<1>5. Upto(N) = SUBSET S
  BY <1>1
<1> QED BY <1>4, <1>5 DEF IsSum

(* So that the sum over S is the last of them. *)
LEMMA SumIs ==
  ASSUME NEW f, NEW S, IsFiniteSet(S)
  PROVE  \E h : IsSum(h, f, S) /\ SumFunctionOnSet(f, S) = h[S]
<1> DEFINE h == CHOOSE g : IsSum(g, f, S)
<1>1. IsSum(h, f, S)
  BY SumExists
<1>2. SumFunctionOnSet(f, S) = h[S]
  BY Zenon DEF SumFunctionOnSet, FoldFunctionOnSet, MapThenFoldSet, IsSum, Chosen
<1> QED BY <1>1, <1>2

(* Sums do not depend on the set or function that they were computed from. *)
LEMMA SumsAgree ==
  ASSUME NEW S, IsFiniteSet(S), NEW T \in SUBSET S,
         NEW f, NEW g, NEW h, NEW k, IsSum(h, f, S), IsSum(k, g, T),
         \A x \in T : f[x] = g[x]
  PROVE  h[T] = k[T]
<1> DEFINE C == {s \in SUBSET T : h[s] # k[s]}
<1>1. IsFiniteSet(T) /\ C \in SUBSET (SUBSET T)
  BY FS_Subset
<1>2. ASSUME C # {} PROVE FALSE
  <2>1. PICK s \in C : \A t \in C : t \subseteq s => t = s
    <3> HIDE DEF C
    <3> QED BY <1>1, <1>2, SmallestSubset
  <2>2. s \in SUBSET T /\ s \in SUBSET S /\ h[s] # k[s]
    OBVIOUS
  <2>3. /\ h[s] = IF s = {} THEN 0 ELSE f[Chosen(s)] + h[s \ {Chosen(s)}]
        /\ k[s] = IF s = {} THEN 0 ELSE g[Chosen(s)] + k[s \ {Chosen(s)}]
    BY <2>2 DEF IsSum
  <2>4. s # {}
    BY <2>2, <2>3
  <2> DEFINE c == Chosen(s)
             t == s \ {c}
  <2>5. c \in s
    BY <2>4 DEF Chosen
  <2>6. t \in SUBSET T /\ t \subseteq s /\ t # s
    BY <2>2, <2>5
  <2>7. h[t] = k[t]
    <3>1. t \notin C
      <4> HIDE DEF t, C
      <4> QED BY <2>1, <2>6
    <3> QED BY <2>6, <3>1
  <2>8. f[c] = g[c]
    BY <2>2, <2>5
  <2> QED BY <2>2, <2>3, <2>4, <2>7, <2>8
<1> QED BY <1>2

(* The definition of sums. *)
LEMMA SumStep ==
  ASSUME NEW f, NEW S, IsFiniteSet(S)
  PROVE  SumFunctionOnSet(f, S) =
           IF S = {} THEN 0
           ELSE f[Chosen(S)] + SumFunctionOnSet(f, S \ {Chosen(S)})
<1>1. PICK h : IsSum(h, f, S) /\ SumFunctionOnSet(f, S) = h[S]
  BY SumIs
<1>2. h[S] = IF S = {} THEN 0 ELSE f[Chosen(S)] + h[S \ {Chosen(S)}]
  BY <1>1 DEF IsSum
<1> DEFINE T == S \ {Chosen(S)}
<1>3. T \in SUBSET S /\ IsFiniteSet(T)
  BY FS_Subset
<1>4. PICK k : IsSum(k, f, T) /\ SumFunctionOnSet(f, T) = k[T]
  <2> HIDE DEF T
  <2> QED BY <1>3, SumIs
<1>5. h[T] = k[T]
  <2> HIDE DEF T
  <2> QED BY <1>1, <1>3, <1>4, SumsAgree
<1> QED BY <1>1, <1>2, <1>4, <1>5

(* Functions with the same values have the same sum. *)
LEMMA SumSame ==
  ASSUME NEW f, NEW g, NEW S, IsFiniteSet(S), \A x \in S : f[x] = g[x]
  PROVE  SumFunctionOnSet(f, S) = SumFunctionOnSet(g, S)
<1>1. PICK h : IsSum(h, f, S) /\ SumFunctionOnSet(f, S) = h[S]
  BY SumIs
<1>2. PICK k : IsSum(k, g, S) /\ SumFunctionOnSet(g, S) = k[S]
  BY SumIs
<1> QED BY <1>1, <1>2, SumsAgree

(* Induction over the subsets of a finite set. *)
LEMMA BySubsets ==
  ASSUME NEW S, IsFiniteSet(S), NEW G,
         \A s \in SUBSET S : (\A t \in SUBSET s : t # s => t \in G) => s \in G
  PROVE  S \in G
<1> DEFINE C == {s \in SUBSET S : s \notin G}
<1>1. C \in SUBSET (SUBSET S)
  OBVIOUS
<1>2. ASSUME C # {} PROVE FALSE
  <2>1. PICK s \in C : \A t \in C : t \subseteq s => t = s
    <3> HIDE DEF C
    <3> QED BY <1>1, <1>2, SmallestSubset
  <2>2. ASSUME NEW t \in SUBSET s, t # s PROVE t \in G
    BY <2>1, <2>2
  <2> QED BY <2>1, <2>2
<1> QED BY <1>2

(* It does not matter which element is taken first. *)
LEMMA SumTakesAny ==
  ASSUME NEW f, NEW S, IsFiniteSet(S), \A x \in S : f[x] \in Int
  PROVE  /\ SumFunctionOnSet(f, S) \in Int
         /\ \A x \in S : SumFunctionOnSet(f, S) = f[x] + SumFunctionOnSet(f, S \ {x})
<1> DEFINE sum(s) == SumFunctionOnSet(f, s)
           G == {s \in SUBSET S : sum(s) \in Int /\ \A x \in s : sum(s) = f[x] + sum(s \ {x})}
<1>1. ASSUME NEW s \in SUBSET S, \A t \in SUBSET s : t # s => t \in G
      PROVE  s \in G
  <2>1. IsFiniteSet(s)
    BY FS_Subset
  <2>2. sum(s) = IF s = {} THEN 0 ELSE f[Chosen(s)] + sum(s \ {Chosen(s)})
    BY <2>1, SumStep
  <2>3. CASE s = {}
    <3> HIDE DEF sum
    <3> QED BY <2>2, <2>3
  <2>4. CASE s # {}
    <3> DEFINE c == Chosen(s)
    <3>1. c \in s /\ c \in S
      BY <2>4 DEF Chosen
    <3>2. sum(s) = f[c] + sum(s \ {c})
      BY <2>2, <2>4
    <3> HIDE DEF c, sum
    <3>3. /\ sum(s \ {c}) \in Int
          /\ \A x \in s \ {c} : sum(s \ {c}) = f[x] + sum((s \ {c}) \ {x})
      BY <1>1, <3>1
    <3>4. ASSUME NEW x \in s, x # c PROVE sum(s) = f[x] + sum(s \ {x})
      <4>1. /\ sum(s \ {x}) \in Int
            /\ sum(s \ {x}) = f[c] + sum((s \ {x}) \ {c})
        BY <1>1, <3>1, <3>4
      <4>2. sum(s \ {c}) = f[x] + sum((s \ {c}) \ {x})
        BY <3>3, <3>4
      <4>3. (s \ {c}) \ {x} = (s \ {x}) \ {c}
        OBVIOUS
      <4>4. (s \ {x}) \ {c} \in SUBSET s /\ (s \ {x}) \ {c} # s
        BY <3>1
      <4>5. sum((s \ {x}) \ {c}) \in Int
        BY <1>1, <4>4
      <4>6. f[x] \in Int /\ f[c] \in Int
        BY <3>1, <3>4
      <4>7. sum((s \ {c}) \ {x}) = sum((s \ {x}) \ {c})
        BY Zenon, <4>3
      <4> QED BY <3>2, <4>1, <4>2, <4>5, <4>6, <4>7
    <3> QED BY <3>1, <3>2, <3>3, <3>4
  <2> QED BY <2>3, <2>4
<1>2. S \in G
  <2> HIDE DEF G
  <2> QED BY <1>1, BySubsets
<1> QED BY <1>2

(* Sums of natural numbers are natural numbers. *)
LEMMA SumNat ==
  ASSUME NEW f, NEW S, IsFiniteSet(S), \A x \in S : f[x] \in Nat
  PROVE  SumFunctionOnSet(f, S) \in Nat
<1> DEFINE sum(s) == SumFunctionOnSet(f, s)
           G == {s \in SUBSET S : sum(s) \in Nat}
<1>1. ASSUME NEW s \in SUBSET S, \A t \in SUBSET s : t # s => t \in G
      PROVE  s \in G
  <2>1. IsFiniteSet(s)
    BY FS_Subset
  <2>2. sum(s) = IF s = {} THEN 0 ELSE f[Chosen(s)] + sum(s \ {Chosen(s)})
    BY <2>1, SumStep
  <2> DEFINE c == Chosen(s)
  <2>3. ASSUME s # {} PROVE c \in s /\ f[c] \in Nat /\ sum(s \ {c}) \in Nat
    <3>1. c \in s /\ c \in S
      BY <2>3 DEF Chosen
    <3>2. s \ {c} \in SUBSET s /\ s \ {c} # s
      BY <3>1
    <3>3. s \ {c} \in G
      <4> HIDE DEF c, G
      <4> QED BY <1>1, <3>2
    <3> QED BY <3>1, <3>3
  <2> HIDE DEF sum
  <2> QED BY <2>2, <2>3
<1>2. S \in G
  <2> HIDE DEF G
  <2> QED BY <1>1, BySubsets
<1> QED BY <1>2

(* More points in everything are more points on the whole. *)
LEMMA SumMonotone ==
  ASSUME NEW f, NEW g, NEW S, IsFiniteSet(S),
         \A x \in S : f[x] \in Int /\ g[x] \in Int /\ f[x] <= g[x]
  PROVE  SumFunctionOnSet(f, S) <= SumFunctionOnSet(g, S)
<1> DEFINE G == {s \in SUBSET S : SumFunctionOnSet(f, s) <= SumFunctionOnSet(g, s)}
<1>1. ASSUME NEW s \in SUBSET S, \A t \in SUBSET s : t # s => t \in G
      PROVE  s \in G
  <2> DEFINE c == Chosen(s)
             F == SumFunctionOnSet(f, s)
             K == SumFunctionOnSet(g, s)
             F1 == SumFunctionOnSet(f, s \ {c})
             K1 == SumFunctionOnSet(g, s \ {c})
  <2>1. IsFiniteSet(s) /\ IsFiniteSet(s \ {c})
    BY FS_Subset
  <2>2. /\ F = IF s = {} THEN 0 ELSE f[c] + F1
        /\ K = IF s = {} THEN 0 ELSE g[c] + K1
    BY <2>1, SumStep
  <2>3. F1 \in Int /\ K1 \in Int
    BY <2>1, SumTakesAny
  <2>4. ASSUME s # {} PROVE F1 <= K1 /\ f[c] \in Int /\ g[c] \in Int /\ f[c] <= g[c]
    <3>1. c \in s /\ c \in S
      BY <2>4 DEF Chosen
    <3>2. s \ {c} \in SUBSET s /\ s \ {c} # s
      BY <3>1
    <3>3. s \ {c} \in G
      <4> HIDE DEF c, G
      <4> QED BY <1>1, <3>2
    <3> QED BY <3>1, <3>3
  <2>5. F <= K
    <3> HIDE DEF F, K, F1, K1, c
    <3> QED BY <2>2, <2>3, <2>4
  <2> QED BY <2>5
<1>2. S \in G
  <2> HIDE DEF G
  <2> QED BY <1>1, BySubsets
<1> QED BY <1>2

(* What is zero does not count. *)
LEMMA SumZeros ==
  ASSUME NEW f, NEW S, IsFiniteSet(S), NEW T \in SUBSET S,
         \A x \in S : f[x] \in Int, \A x \in S \ T : f[x] = 0
  PROVE  SumFunctionOnSet(f, S) = SumFunctionOnSet(f, T)
<1> DEFINE sum(s) == SumFunctionOnSet(f, s)
           G == {s \in SUBSET S : T \subseteq s => sum(s) = sum(T)}
<1>1. ASSUME NEW s \in SUBSET S, \A t \in SUBSET s : t # s => t \in G
      PROVE  s \in G
  <2>1. SUFFICES ASSUME T \subseteq s, s # T PROVE sum(s) = sum(T)
    OBVIOUS
  <2>2. PICK x \in s : x \notin T
    BY <2>1
  <2>3. s \ {x} \in SUBSET s /\ s \ {x} # s /\ T \subseteq s \ {x}
    BY <2>1, <2>2
  <2>4. IsFiniteSet(s) /\ IsFiniteSet(s \ {x})
    BY FS_Subset
  <2>5. sum(s) = f[x] + sum(s \ {x}) /\ sum(s \ {x}) \in Int
    BY <2>2, <2>4, SumTakesAny
  <2>6. f[x] = 0
    BY <2>2
  <2>7. sum(s \ {x}) = sum(T)
    BY <1>1, <2>3
  <2> HIDE DEF sum
  <2> QED BY <2>5, <2>6, <2>7
<1>2. S \in G
  <2> HIDE DEF G
  <2> QED BY <1>1, BySubsets
<1> QED BY <1>2

(* One positive number makes the sum positive. *)
LEMMA SumPositive ==
  ASSUME NEW f, NEW S, IsFiniteSet(S), \A x \in S : f[x] \in Nat,
         NEW y \in S, f[y] > 0
  PROVE  SumFunctionOnSet(f, S) > 0
<1>1. IsFiniteSet(S \ {y})
  BY FS_Subset
<1>2. SumFunctionOnSet(f, S \ {y}) \in Nat
  BY <1>1, SumNat
<1>3. SumFunctionOnSet(f, S) = f[y] + SumFunctionOnSet(f, S \ {y})
  BY SumTakesAny
<1> QED BY <1>2, <1>3

--------------------------------------------------------------------------------
(* Division *)

(* Quotient and remainder. *)
LEMMA DivMod ==
  ASSUME NEW n \in Nat, NEW d \in Nat \ {0}
  PROVE  /\ n \div d \in Nat /\ n % d \in 0..(d - 1)
         /\ n = d * (n \div d) + (n % d)
OBVIOUS

(* Multiplication keeps the order. *)
LEMMA MultMonotone ==
  ASSUME NEW d \in Nat \ {0}, NEW p \in Int, NEW q \in Int, p <= q
  PROVE  d * p <= d * q
OBVIOUS

(* Which multiples of d are above n. *)
LEMMA DivLess ==
  ASSUME NEW n \in Nat, NEW d \in Nat \ {0}, NEW k \in Int
  PROVE  /\ n \div d < k <=> n < d * k
         /\ n % d = 0 => (n \div d <= k <=> n <= d * k)
         /\ n % d # 0 => (n \div d < k <=> n <= d * k)
<1> DEFINE q == n \div d
           r == n % d
<1>1. q \in Nat /\ r \in 0..(d - 1) /\ n = d * q + r
  BY DivMod
<1> HIDE DEF q, r
<1>2. ASSUME q < k PROVE d * q + d <= d * k
  <2>1. d * (q + 1) <= d * k
    BY <1>1, <1>2, MultMonotone
  <2>2. d * (q + 1) = d * q + d
    BY <1>1
  <2> QED BY <2>1, <2>2
<1>3. ASSUME ~(q < k) PROVE d * k <= d * q
  BY <1>1, <1>3, MultMonotone
<1>4. ASSUME q > k PROVE d * k + d <= d * q
  <2>1. d * (k + 1) <= d * q
    BY <1>1, <1>4, MultMonotone
  <2>2. d * (k + 1) = d * k + d
    OBVIOUS
  <2> QED BY <2>1, <2>2
<1>5. d * k \in Int /\ d * q \in Int
  BY <1>1
<1>6. q < k <=> n < d * k
  BY <1>1, <1>2, <1>3, <1>5
<1>7. r = 0 => (q <= k <=> n <= d * k)
  <2>1. ASSUME r = 0, q <= k PROVE n <= d * k
    BY <1>1, <1>5, <2>1, MultMonotone
  <2>2. ASSUME r = 0, ~(q <= k) PROVE ~(n <= d * k)
    BY <1>1, <1>4, <1>5, <2>2
  <2> QED BY <2>1, <2>2
<1>8. r # 0 => (q < k <=> n <= d * k)
  <2>1. ASSUME r # 0, ~(q < k) PROVE ~(n <= d * k)
    BY <1>1, <1>3, <1>5, <2>1
  <2> QED BY <1>6, <1>5, <1>1, <2>1
<1> QED BY <1>6, <1>7, <1>8 DEF q, r

(* A larger number has no smaller quotient. *)
LEMMA DivMonotone ==
  ASSUME NEW n \in Nat, NEW m \in Nat, n < m, NEW d \in Nat \ {0}
  PROVE  /\ n \div d <= m \div d
         /\ m % d = 0 => n \div d + 1 <= m \div d
<1>1. /\ n \div d \in Nat /\ n % d \in 0..(d - 1) /\ n = d * (n \div d) + (n % d)
      /\ m \div d \in Nat /\ m % d \in 0..(d - 1) /\ m = d * (m \div d) + (m % d)
  BY DivMod
<1>2. ~(m \div d < n \div d)
  BY <1>1, DivLess
<1>3. ASSUME m % d = 0 PROVE n \div d < m \div d
  <2>1. m = d * (m \div d)
    BY <1>1, <1>3
  <2> QED BY <1>1, <2>1, DivLess
<1> QED BY <1>1, <1>2, <1>3

--------------------------------------------------------------------------------
(* Percentages and rounding *)

(* The failure of a / b, and that it is enough, as the rules find them. *)
Fails(rule, a, b) ==
  Below(round(Percent(a, b), rule.rounding, rule.decimals), rule.requiredPercent)

Reaches(rule, a, b) ==
  AtLeast(round(Percent(a, b), rule.rounding, rule.decimals), rule.requiredPercent)

(* Where the double of (a / b) * 100 is. *)
Off(a, b) == CASE <<a, b>> \in Low -> -1 [] <<a, b>> \in High -> 1 [] OTHER -> 0

(* The power of ten that decimals stand for is a number. *)
Tenths(rule) == rule.decimals # None => 10 ^ rule.decimals \in Nat \ {0}

(* Doubles are beside the integer only in Low and High. *)
LEMMA OffIs ==
  ASSUME NEW a, NEW b
  PROVE  /\ Off(a, b) \in {-1, 0, 1}
         /\ <<a, b>> \notin Low \cup High => Off(a, b) = 0
BY DEF Off

(* Without points to achieve nothing is failed. *)
LEMMA NothingToAchieve ==
  ASSUME NEW rule, NEW a \in Nat
  PROVE  /\ ~Fails(rule, a, 0)
         /\ Reaches(rule, a, 0) => a # 0
<1>1. Percent(a, 0) = NaN \/ Percent(a, 0) = Infinity
  BY DEF Percent
<1>2. Percent(a, 0) = Infinity => a # 0
  BY DEF Percent, NaN, Infinity
<1>3. NaN.is = "NaN" /\ Infinity.is = "Infinity"
  BY DEF NaN, Infinity
<1>4. \/ round(Percent(a, 0), rule.rounding, rule.decimals) = NaN
      \/ round(Percent(a, 0), rule.rounding, rule.decimals) = Percent(a, 0)
  BY <1>1, <1>3 DEF round
<1> QED BY <1>1, <1>2, <1>3, <1>4 DEF Fails, Reaches, Below, AtLeast

(* Rounding to undefined decimals gives NaN, which is neither below nor above. *)
LEMMA NoDecimals ==
  ASSUME NEW rule, rule.rounding = "DECIMALS", rule.decimals = None, NEW a, NEW b
  PROVE  ~Fails(rule, a, b) /\ ~Reaches(rule, a, b)
BY DEF Fails, Reaches, round, NaN, Below, AtLeast

(* What the comparison comes down to. *)
LEMMA FailsIf ==
  ASSUME NEW rule \in Rule, Tenths(rule), rule.rounding = "DECIMALS" => rule.decimals # None,
         NEW a \in Nat, NEW b \in Nat \ {0}
  PROVE  LET v == Number(100 * a, b, Off(a, b))
             r == rule.requiredPercent
         IN  /\ rule.rounding = "NONE" =>
                  (Fails(rule, a, b) <=> \/ 100 * a < r * b
                                         \/ 100 * a = r * b /\ Off(a, b) < 0)
             /\ rule.rounding = "DOWN_NEAREST_INTEGER" => (Fails(rule, a, b) <=> floor(v) < r)
             /\ rule.rounding = "UP_NEAREST_INTEGER" => (Fails(rule, a, b) <=> ceil(v) < r)
             /\ rule.rounding = "DECIMALS" =>
                  (Fails(rule, a, b) <=> roundTo(v, 10 ^ rule.decimals) < r * 10 ^ rule.decimals)
             /\ Reaches(rule, a, b) <=> ~Fails(rule, a, b)
<1> DEFINE v == Number(100 * a, b, Off(a, b))
           r == rule.requiredPercent
           w == round(v, rule.rounding, rule.decimals)
<1>1. Percent(a, b) = v
  BY DEF Percent, Off
<1>2. /\ v.is = "number" /\ v.num = 100 * a /\ v.den = b /\ v.off = Off(a, b)
  BY DEF Number
<1>3. r \in 0..100 /\ rule.rounding \in Roundings
  BY DEF Rule
<1> HIDE DEF v
<1>4. CASE rule.rounding = "NONE"
  <2>1. w = v
    BY <1>2, <1>4 DEF round
  <2> QED BY <1>1, <1>2, <1>4, <2>1 DEF Fails, Reaches, Below, AtLeast, v
<1>5. CASE rule.rounding = "DOWN_NEAREST_INTEGER"
  <2>1. w = Number(floor(v), 1, 0)
    BY <1>2, <1>5 DEF round
  <2>2. w.is = "number" /\ w.num = floor(v) /\ w.den = 1 /\ w.off = 0
    BY <2>1 DEF Number
  <2>3. Below(w, r) <=> floor(v) < r
    BY <1>3, <2>2 DEF Below
  <2> QED BY <1>1, <1>5, <2>2, <2>3 DEF Fails, Reaches, AtLeast, v
<1>6. CASE rule.rounding = "UP_NEAREST_INTEGER"
  <2>1. w = Number(ceil(v), 1, 0)
    BY <1>2, <1>6 DEF round
  <2>2. w.is = "number" /\ w.num = ceil(v) /\ w.den = 1 /\ w.off = 0
    BY <2>1 DEF Number
  <2>3. Below(w, r) <=> ceil(v) < r
    BY <1>3, <2>2 DEF Below
  <2> QED BY <1>1, <1>6, <2>2, <2>3 DEF Fails, Reaches, AtLeast, v
<1>7. CASE rule.rounding = "DECIMALS"
  <2> DEFINE D == 10 ^ rule.decimals
  <2>1. w = Number(roundTo(v, D), D, 0)
    BY <1>2, <1>7 DEF round
  <2>2. w.is = "number" /\ w.num = roundTo(v, D) /\ w.den = D /\ w.off = 0
    BY <2>1 DEF Number
  <2>3. Below(w, r) <=> roundTo(v, D) < r * D
    BY <1>3, <2>2 DEF Below
  <2> QED BY <1>1, <1>7, <2>2, <2>3 DEF Fails, Reaches, AtLeast, v
<1> QED BY <1>3, <1>4, <1>5, <1>6, <1>7 DEF Roundings, v

(* From a quotient and its remainder. *)
FloorOf(q, i, o) == q - (IF i = 0 /\ o < 0 THEN 1 ELSE 0)

CeilOf(q, i, o) == q + (IF i = 0 /\ o <= 0 THEN 0 ELSE 1)

(* floor and ceil in terms of quotient and remainder. *)
LEMMA FloorIs ==
  ASSUME NEW v, v.num \in Nat, v.den \in Nat \ {0}, v.off \in {-1, 0, 1}
  PROVE  /\ floor(v) = FloorOf(v.num \div v.den, v.num % v.den, v.off)
         /\ ceil(v) = CeilOf(v.num \div v.den, v.num % v.den, v.off)
         /\ floor(v) \in Int /\ ceil(v) \in Int
<1> DEFINE q == v.num \div v.den
           i == v.num % v.den
<1>1. q \in Nat
  BY DivMod
<1>2. /\ floor(v) = FloorOf(q, i, v.off)
      /\ ceil(v) = CeilOf(q, i, v.off)
  BY Zenon DEF floor, ceil, IsInteger, FloorOf, CeilOf
<1>3. floor(v) \in Int /\ ceil(v) \in Int
  <2> HIDE DEF q, i
  <2> QED BY <1>1, <1>2 DEF FloorOf, CeilOf
<1> QED BY <1>2, <1>3

(* A larger number has no smaller floor or ceil, wherever the doubles are. *)
LEMMA FloorMonotone ==
  ASSUME NEW v, v.num \in Nat, v.den \in Nat \ {0}, v.off \in {-1, 0, 1},
         NEW w, w.num \in Nat, w.den = v.den, w.off \in {-1, 0, 1},
         v.num < w.num
  PROVE  floor(v) <= floor(w) /\ ceil(v) <= ceil(w)
<1> DEFINE q == v.num \div v.den
           i == v.num % v.den
           s == w.num \div w.den
           j == w.num % w.den
<1>1. q <= s /\ (j = 0 => q + 1 <= s)
  BY DivMonotone
<1>2. q \in Nat /\ s \in Nat
  BY DivMod
<1>3. floor(v) = FloorOf(q, i, v.off) /\ ceil(v) = CeilOf(q, i, v.off)
  BY Zenon, FloorIs
<1>4. floor(w) = FloorOf(s, j, w.off) /\ ceil(w) = CeilOf(s, j, w.off)
  BY Zenon, FloorIs
<1> HIDE DEF q, i, s, j
<1> QED BY <1>1, <1>2, <1>3, <1>4 DEF FloorOf, CeilOf

(* Multiplication keeps the strict order. *)
LEMMA Products ==
  ASSUME NEW p \in Nat, NEW q \in Nat, p < q, NEW d \in Nat \ {0}
  PROVE  p * d < q * d
OBVIOUS

(* What roundTo divides grows with the points. *)
LEMMA TwiceMonotone ==
  ASSUME NEW a \in Nat, NEW c \in Nat, a < c, NEW b \in Nat \ {0}, NEW D \in Nat \ {0}
  PROVE  /\ 2 * (100 * a) * D + b \in Nat /\ 2 * (100 * c) * D + b \in Nat
         /\ 2 * b \in Nat \ {0}
         /\ 2 * (100 * a) * D + b < 2 * (100 * c) * D + b
<1>1. 2 * (100 * a) * D < 2 * (100 * c) * D
  <2>1. 2 * (100 * a) \in Nat /\ 2 * (100 * c) \in Nat /\ 2 * (100 * a) < 2 * (100 * c)
    OBVIOUS
  <2> QED BY <2>1, Products
<1>2. 2 * (100 * a) * D \in Nat /\ 2 * (100 * c) * D \in Nat
  OBVIOUS
<1> QED BY <1>1, <1>2

(* Who fails with more points fails with fewer, wherever the doubles are. *)
LEMMA FailsMonotone ==
  ASSUME NEW rule \in Rule, Tenths(rule),
         NEW a \in Nat, NEW c \in Nat, a <= c, NEW b \in Nat
  PROVE  /\ Fails(rule, c, b) => Fails(rule, a, b)
         /\ Reaches(rule, a, b) => Reaches(rule, c, b)
<1>1. CASE a = c
  BY <1>1
<1>2. CASE a < c /\ b # 0 /\ (rule.rounding = "DECIMALS" => rule.decimals # None)
  <2> DEFINE v == Number(100 * a, b, Off(a, b))
             w == Number(100 * c, b, Off(c, b))
             r == rule.requiredPercent
             D == 10 ^ rule.decimals
  <2>1. /\ rule.rounding = "NONE" =>
             (Fails(rule, a, b) <=> \/ 100 * a < r * b
                                    \/ 100 * a = r * b /\ Off(a, b) < 0)
        /\ rule.rounding = "DOWN_NEAREST_INTEGER" => (Fails(rule, a, b) <=> floor(v) < r)
        /\ rule.rounding = "UP_NEAREST_INTEGER" => (Fails(rule, a, b) <=> ceil(v) < r)
        /\ rule.rounding = "DECIMALS" => (Fails(rule, a, b) <=> roundTo(v, D) < r * D)
        /\ Reaches(rule, a, b) <=> ~Fails(rule, a, b)
    BY <1>2, FailsIf
  <2>2. /\ rule.rounding = "NONE" =>
             (Fails(rule, c, b) <=> \/ 100 * c < r * b
                                    \/ 100 * c = r * b /\ Off(c, b) < 0)
        /\ rule.rounding = "DOWN_NEAREST_INTEGER" => (Fails(rule, c, b) <=> floor(w) < r)
        /\ rule.rounding = "UP_NEAREST_INTEGER" => (Fails(rule, c, b) <=> ceil(w) < r)
        /\ rule.rounding = "DECIMALS" => (Fails(rule, c, b) <=> roundTo(w, D) < r * D)
        /\ Reaches(rule, c, b) <=> ~Fails(rule, c, b)
    BY <1>2, FailsIf
  <2>3. /\ v.num = 100 * a /\ v.den = b /\ v.off = Off(a, b)
        /\ w.num = 100 * c /\ w.den = b /\ w.off = Off(c, b)
    BY DEF Number
  <2>4. Off(a, b) \in {-1, 0, 1} /\ Off(c, b) \in {-1, 0, 1}
    BY OffIs
  <2>5. 100 * a \in Nat /\ 100 * c \in Nat /\ 100 * a < 100 * c /\ b \in Nat \ {0} /\ r \in Nat
    BY <1>2 DEF Rule
  <2> HIDE DEF v, w, r
  <2>6. floor(v) <= floor(w) /\ ceil(v) <= ceil(w)
    BY <2>3, <2>4, <2>5, FloorMonotone
  <2>7. /\ floor(v) \in Int /\ floor(w) \in Int
        /\ ceil(v) \in Int /\ ceil(w) \in Int
    BY <2>3, <2>4, <2>5, FloorIs
  <2>8. CASE rule.rounding = "NONE"
    <3>1. r * b \in Int
      BY <2>5
    <3> HIDE DEF Off
    <3> QED BY <2>1, <2>2, <2>4, <2>5, <2>8, <3>1
  <2>9. CASE rule.rounding = "DOWN_NEAREST_INTEGER"
    BY <2>1, <2>2, <2>5, <2>6, <2>7, <2>9
  <2>10. CASE rule.rounding = "UP_NEAREST_INTEGER"
    BY <2>1, <2>2, <2>5, <2>6, <2>7, <2>10
  <2>11. CASE rule.rounding = "DECIMALS"
    <3>1. D \in Nat \ {0}
      BY <1>2, <2>11 DEF Tenths
    <3> HIDE DEF D
    <3> DEFINE x == [num |-> 2 * v.num * D + v.den, den |-> 2 * v.den, off |-> v.off]
               y == [num |-> 2 * w.num * D + w.den, den |-> 2 * w.den, off |-> w.off]
               n == 2 * (100 * a) * D + b
               m == 2 * (100 * c) * D + b
    <3>2. /\ x.num = n /\ x.den = 2 * b /\ x.off = Off(a, b)
          /\ y.num = m /\ y.den = 2 * b /\ y.off = Off(c, b)
      BY <2>3
    <3>3. n \in Nat /\ m \in Nat /\ 2 * b \in Nat \ {0} /\ n < m
      BY <1>2, <2>5, <3>1, TwiceMonotone
    <3>4. roundTo(v, D) = floor(x) /\ roundTo(w, D) = floor(y)
      BY DEF roundTo
    <3> HIDE DEF x, y, n, m
    <3>5. floor(x) <= floor(y)
      BY <2>4, <3>2, <3>3, FloorMonotone
    <3>6. floor(x) \in Int /\ floor(y) \in Int
      BY <2>4, <3>2, <3>3, FloorIs
    <3>7. r * D \in Int
      BY <2>5, <3>1
    <3> QED BY <2>1, <2>2, <2>11, <3>4, <3>5, <3>6, <3>7 DEF D
  <2> QED BY <2>8, <2>9, <2>10, <2>11 DEF Rule, Roundings
<1>3. CASE rule.rounding = "DECIMALS" /\ rule.decimals = None
  BY <1>3, NoDecimals
<1>4. CASE a < c /\ b = 0
  <2>1. c # 0 /\ ~Fails(rule, c, 0)
    BY <1>4, NothingToAchieve
  <2>2. Reaches(rule, a, 0) => Reaches(rule, c, 0)
    <3>1. Reaches(rule, a, 0) => ~(rule.rounding = "DECIMALS" /\ rule.decimals = None)
      BY NoDecimals
    <3>2. Percent(c, 0) = Infinity
      BY <2>1 DEF Percent
    <3>3. ~(rule.rounding = "DECIMALS" /\ rule.decimals = None) => Reaches(rule, c, 0)
      BY <3>2 DEF Reaches, round, Infinity, AtLeast
    <3> QED BY <3>1, <3>3
  <2> QED BY <1>4, <2>1, <2>2
<1> QED BY <1>1, <1>2, <1>3, <1>4

(* Where the doubles are what they should be, floor and ceil compare as numbers do. *)
LEMMA FloorLess ==
  ASSUME NEW v, v.num \in Nat, v.den \in Nat \ {0}, v.off = 0, NEW k \in Int
  PROVE  /\ floor(v) < k <=> v.num < v.den * k
         /\ ceil(v) < k <=> v.num <= v.den * (k - 1)
<1> DEFINE q == v.num \div v.den
           i == v.num % v.den
<1>1. q \in Nat
  BY DivMod
<1>2. v.off \in {-1, 0, 1}
  OBVIOUS
<1>3. floor(v) = FloorOf(q, i, v.off) /\ ceil(v) = CeilOf(q, i, v.off)
  BY Zenon, <1>2, FloorIs
<1>4. q < k <=> v.num < v.den * k
  BY Zenon, DivLess
<1>5. k - 1 \in Int
  OBVIOUS
<1>6. /\ i = 0 => (q <= k - 1 <=> v.num <= v.den * (k - 1))
      /\ i # 0 => (q < k - 1 <=> v.num <= v.den * (k - 1))
  BY Zenon, <1>5, DivLess
<1> DEFINE m == v.den * (k - 1)
<1> HIDE DEF q, i, m
<1>7. floor(v) = q /\ ceil(v) = q + (IF i = 0 THEN 0 ELSE 1)
  BY <1>1, <1>3 DEF FloorOf, CeilOf
<1>8. ceil(v) < k <=> v.num <= m
  BY <1>1, <1>6, <1>7 DEF m
<1> QED BY <1>4, <1>7, <1>8 DEF m

(* Where the doubles are what they should be, the rules are exact. *)
LEMMA FailsExact ==
  ASSUME NEW rule \in Rule, Tenths(rule), rule.rounding = "DECIMALS" => rule.decimals # None,
         NEW a \in Nat, NEW b \in Nat \ {0}, <<a, b>> \notin Low \cup High
  PROVE  /\ Fails(rule, a, b) <=> ~Enough(rule, a, b)
         /\ Reaches(rule, a, b) <=> Enough(rule, a, b)
<1> DEFINE v == Number(100 * a, b, 0)
           r == rule.requiredPercent
           D == 10 ^ rule.decimals
           n == 100 * a
<1>1. Off(a, b) = 0
  BY OffIs
<1>2. /\ rule.rounding = "NONE" => (Fails(rule, a, b) <=> n < r * b)
      /\ rule.rounding = "DOWN_NEAREST_INTEGER" => (Fails(rule, a, b) <=> floor(v) < r)
      /\ rule.rounding = "UP_NEAREST_INTEGER" => (Fails(rule, a, b) <=> ceil(v) < r)
      /\ rule.rounding = "DECIMALS" => (Fails(rule, a, b) <=> roundTo(v, D) < r * D)
      /\ Reaches(rule, a, b) <=> ~Fails(rule, a, b)
  BY <1>1, FailsIf
<1>3. v.num = n /\ v.den = b /\ v.off = 0
  BY DEF Number
<1>4. n \in Nat /\ r \in Nat /\ r * b \in Nat /\ (r - 1) * b \in Int
  BY DEF Rule
<1> HIDE DEF v, n, r, D
<1>5. CASE rule.rounding = "NONE"
  <2>1. Enough(rule, a, b) <=> n >= r * b
    BY <1>5 DEF Enough, n, r
  <2> QED BY <1>2, <1>4, <1>5, <2>1
<1>6. CASE rule.rounding = "DOWN_NEAREST_INTEGER"
  <2>1. Enough(rule, a, b) <=> n >= r * b
    BY <1>6 DEF Enough, n, r
  <2>2. floor(v) < r <=> n < b * r
    BY <1>3, <1>4, FloorLess
  <2>3. b * r = r * b
    BY <1>4
  <2> QED BY <1>2, <1>4, <1>6, <2>1, <2>2, <2>3
<1>7. CASE rule.rounding = "UP_NEAREST_INTEGER"
  <2>1. Enough(rule, a, b) <=> n > (r - 1) * b
    BY <1>7 DEF Enough, n, r
  <2>2. ceil(v) < r <=> n <= b * (r - 1)
    BY <1>3, <1>4, FloorLess
  <2>3. b * (r - 1) = (r - 1) * b
    BY <1>4
  <2> QED BY <1>2, <1>4, <1>7, <2>1, <2>2, <2>3
<1>8. CASE rule.rounding = "DECIMALS"
  <2>1. D \in Nat \ {0}
    BY <1>8 DEF Tenths, D
  <2>2. Enough(rule, a, b) <=> 200 * a * D >= (2 * r * D - 1) * b
    BY <1>8 DEF Enough, D, r
  <2> DEFINE x == [num |-> 2 * v.num * D + v.den, den |-> 2 * v.den, off |-> v.off]
             m == 2 * n * D + b
  <2>3. x.num = m /\ x.den = 2 * b /\ x.off = 0
    BY <1>3
  <2>4. m \in Nat /\ 2 * b \in Nat \ {0} /\ r * D \in Nat
    BY <1>4, <2>1
  <2>5. roundTo(v, D) = floor(x)
    BY DEF roundTo
  <2> HIDE DEF x, m
  <2>7. floor(x) < r * D <=> m < (2 * b) * (r * D)
    BY <2>3, <2>4, FloorLess
  <2>8. m < (2 * b) * (r * D) <=> 200 * a * D < (2 * r * D - 1) * b
    <3>1. m = 200 * a * D + b
      BY <2>1 DEF m, n
    <3>2. (2 * r * D - 1) * b = (2 * b) * (r * D) - b
      BY <1>4, <2>1
    <3>3. 200 * a * D \in Nat /\ (2 * b) * (r * D) \in Nat
      BY <1>4, <2>1
    <3> QED BY <3>1, <3>2, <3>3
  <2>9. 200 * a * D \in Nat /\ (2 * r * D - 1) * b \in Int
    BY <1>4, <2>1
  <2> QED BY <1>2, <1>8, <2>2, <2>5, <2>7, <2>8, <2>9
<1> QED BY <1>5, <1>6, <1>7, <1>8 DEF Rule, Roundings

--------------------------------------------------------------------------------
(* The rules *)

(* The course as the requests find it. *)
TypesOK ==
  /\ evaluated \in SUBSET Assignments
  /\ score \in [Students -> [Assignments -> Score]]
  /\ points \in [Assignments -> Nat]
  /\ rules \in RuleSets

(* The rules of a course are among those it may have. *)
LEMMA RulesAre ==
  ASSUME TypesOK
  PROVE  \A rule \in rules : rule \in Rule /\ Tenths(rule)
BY ConstantsOK DEF TypesOK, Tenths

(* Points are natural numbers. *)
LEMMA PointsNat ==
  ASSUME NEW known, NEW a
  PROVE  PointsIn(known, a) \in Nat
BY ConstantsOK DEF PointsIn

(* A rule looks at finitely many assignments. *)
LEMMA RelevantFinite ==
  ASSUME NEW rule, NEW E \in SUBSET Assignments
  PROVE  /\ Relevant(rule, E) \in SUBSET Assignments
         /\ \A A \in SUBSET Relevant(rule, E) : IsFiniteSet(A)
<1>1. Relevant(rule, E) \in SUBSET Assignments
  BY DEF Relevant
<1> QED BY <1>1, ConstantsOK, FS_Subset

(* What the assessments of some assignments say. *)
LEMMA PointsKnown ==
  ASSUME NEW sc \in [Students -> [Assignments -> Score]], NEW s \in Students,
         NEW E \in SUBSET Assignments, NEW a \in Assignments
  PROVE  /\ DOMAIN Assessments(s, sc, E) \subseteq E
         /\ PointsIn(Assessments(s, sc, E), a) = IF a \in E THEN PointsIn(sc[s], a) ELSE 0
         /\ a \in E /\ a \notin DOMAIN Assessments(s, sc, E) => PointsIn(sc[s], a) = 0
<1> DEFINE known == Assessments(s, sc, E)
<1>1. DOMAIN known = {b \in E : sc[s][b] # Absent}
  BY DEF Assessments
<1>2. \A b \in DOMAIN known : known[b] = sc[s][b]
  BY DEF Assessments
<1>3. DOMAIN sc[s] = Assignments /\ Absent \notin Scores
  BY ConstantsOK
<1> HIDE DEF known
<1> QED BY <1>1, <1>2, <1>3 DEF PointsIn, known

(* A rule on single assignments that fewer points fulfil is fulfilled by more. *)
LEMMA IndividualMonotone ==
  ASSUME NEW rule \in Rule, Tenths(rule), points \in [Assignments -> Nat],
         NEW E \in SUBSET Assignments, NEW known, NEW better,
         \A a \in E : PointsIn(known, a) <= PointsIn(better, a),
         checkIndividual(rule, E, known)
  PROVE  checkIndividual(rule, E, better)
<1> DEFINE R == Relevant(rule, E)
           F(k) == {a \in R : studentFailedAssignment(rule, k, a)}
<1>1. F(better) \subseteq F(known)
  <2>1. SUFFICES ASSUME NEW a \in R, studentFailedAssignment(rule, better, a)
                 PROVE  studentFailedAssignment(rule, known, a)
    OBVIOUS
  <2>2. a \in E /\ a \in Assignments /\ points[a] \in Nat
    BY DEF Relevant
  <2>3. /\ PointsIn(known, a) \in Nat /\ PointsIn(better, a) \in Nat
        /\ PointsIn(known, a) <= PointsIn(better, a)
    BY <2>2, PointsNat
  <2>4. Fails(rule, PointsIn(better, a), points[a])
    BY <2>1 DEF studentFailedAssignment, Fails
  <2>5. Fails(rule, PointsIn(known, a), points[a])
    BY <2>2, <2>3, <2>4, FailsMonotone
  <2> QED BY <2>5 DEF studentFailedAssignment, Fails
<1>2. IsFiniteSet(F(known))
  BY RelevantFinite
<1>3. /\ Cardinality(F(better)) \in Nat /\ Cardinality(F(known)) \in Nat
      /\ Cardinality(F(better)) <= Cardinality(F(known))
  BY <1>1, <1>2, FS_Subset, FS_CardinalityType
<1>4. Cardinality(F(known)) <= rule.allowedFailures /\ rule.allowedFailures \in Nat
  BY DEF checkIndividual, countFailedAssignments, Rule
<1>5. Cardinality(F(better)) <= rule.allowedFailures
  <2> HIDE DEF F
  <2> QED BY <1>3, <1>4
<1> QED BY <1>5 DEF checkIndividual, countFailedAssignments

(* What a student has achieved in some assignments. *)
PointsOf(sc, s, A) == SumFunctionOnSet([a \in A |-> PointsIn(sc[s], a)], A)

(* What is achieved is a natural number. *)
LEMMA PointsOfNat ==
  ASSUME NEW sc, NEW s, NEW A \in SUBSET Assignments
  PROVE  PointsOf(sc, s, A) \in Nat
<1> DEFINE f == [a \in A |-> PointsIn(sc[s], a)]
<1>1. \A a \in A : f[a] \in Nat
  BY PointsNat
<1>2. IsFiniteSet(A)
  BY ConstantsOK, FS_Subset
<1> HIDE DEF f
<1>3. SumFunctionOnSet(f, A) \in Nat
  BY <1>1, <1>2, SumNat
<1> QED BY <1>3 DEF PointsOf, f

(* So is what can be achieved. *)
LEMMA AchievableNat ==
  ASSUME points \in [Assignments -> Nat], NEW A \in SUBSET Assignments
  PROVE  SumFunctionOnSet(points, A) \in Nat
<1>1. IsFiniteSet(A)
  BY ConstantsOK, FS_Subset
<1>2. \A a \in A : points[a] \in Nat
  OBVIOUS
<1> QED BY <1>1, <1>2, SumNat

(* Assignments without assessment are not summed up, but would add nothing. *)
LEMMA OverallIs ==
  ASSUME NEW rule, points \in [Assignments -> Nat],
         NEW sc \in [Students -> [Assignments -> Score]], NEW s \in Students,
         NEW E \in SUBSET Assignments
  PROVE  checkOverall(rule, E, Assessments(s, sc, E)) <=>
           LET R == Relevant(rule, E)
           IN  \/ SumFunctionOnSet(points, R) = 0
               \/ Reaches(rule, PointsOf(sc, s, R), SumFunctionOnSet(points, R))
<1> DEFINE known == Assessments(s, sc, E)
           R == Relevant(rule, E)
           C == Relevant(rule, DOMAIN known)
           f == [a \in R |-> PointsIn(sc[s], a)]
           g == [a \in C |-> PointsIn(known, a)]
<1>1. DOMAIN known \subseteq E
  BY PointsKnown DEF Assessments
<1>2. C \in SUBSET R /\ R \in SUBSET Assignments /\ R \subseteq E /\ C = R \cap DOMAIN known
  BY <1>1 DEF Relevant
<1>3. IsFiniteSet(R) /\ IsFiniteSet(C)
  BY <1>2, ConstantsOK, FS_Subset
<1>4. ASSUME NEW a \in R
      PROVE  /\ f[a] \in Int
             /\ a \in C => f[a] = g[a]
             /\ a \notin C => f[a] = 0
  <2>1. a \in Assignments /\ a \in E /\ f[a] = PointsIn(sc[s], a)
    BY <1>2
  <2>2. PointsIn(known, a) = PointsIn(sc[s], a)
    BY <2>1, PointsKnown
  <2>3. f[a] \in Int
    BY <2>1, PointsNat
  <2>4. a \notin DOMAIN known => PointsIn(sc[s], a) = 0
    BY <2>1, PointsKnown
  <2> HIDE DEF known, R
  <2> QED BY <1>2, <2>1, <2>2, <2>3, <2>4
<1> HIDE DEF f, g, C, R
<1>5. SumFunctionOnSet(f, R) = SumFunctionOnSet(f, C)
  BY <1>2, <1>3, <1>4, SumZeros
<1>6. SumFunctionOnSet(f, C) = SumFunctionOnSet(g, C)
  BY <1>2, <1>3, <1>4, SumSame
<1>7. SumFunctionOnSet(g, C) = PointsOf(sc, s, R)
  BY <1>5, <1>6 DEF PointsOf, f
<1>8. checkOverall(rule, E, known) <=>
        \/ SumFunctionOnSet(points, R) = 0
        \/ Reaches(rule, SumFunctionOnSet(g, C), SumFunctionOnSet(points, R))
  BY Zenon DEF checkOverall, Reaches, C, R, g
<1> QED BY <1>7, <1>8 DEF R

(* More points fulfil what fewer points fulfilled. *)
LEMMA CheckMonotone ==
  ASSUME NEW rule \in Rule, Tenths(rule), points \in [Assignments -> Nat],
         NEW sc \in [Students -> [Assignments -> Score]],
         NEW better \in [Students -> [Assignments -> Score]],
         NEW s \in Students, NEW E \in SUBSET Assignments,
         \A a \in Assignments : PointsIn(sc[s], a) <= PointsIn(better[s], a),
         check(rule, E, Assessments(s, sc, E))
  PROVE  check(rule, E, Assessments(s, better, E))
<1>1. CASE rule.kind # "REQUIRED_PERCENT_OVERALL"
  <2>1. \A a \in E : PointsIn(Assessments(s, sc, E), a) <= PointsIn(Assessments(s, better, E), a)
    BY PointsKnown
  <2>2. checkIndividual(rule, E, Assessments(s, sc, E))
    BY <1>1 DEF check
  <2>3. checkIndividual(rule, E, Assessments(s, better, E))
    BY <2>1, <2>2, IndividualMonotone
  <2> QED BY <1>1, <2>3 DEF check
<1>2. CASE rule.kind = "REQUIRED_PERCENT_OVERALL"
  <2> DEFINE R == Relevant(rule, E)
             all == SumFunctionOnSet(points, R)
             f == [a \in R |-> PointsIn(sc[s], a)]
             g == [a \in R |-> PointsIn(better[s], a)]
  <2>1. R \in SUBSET Assignments /\ IsFiniteSet(R)
    BY RelevantFinite
  <2>2. \A a \in R : f[a] \in Int /\ g[a] \in Int /\ f[a] <= g[a]
    BY <2>1, PointsNat
  <2>3. PointsOf(sc, s, R) <= PointsOf(better, s, R)
    <3> HIDE DEF f, g, R
    <3>1. SumFunctionOnSet(f, R) <= SumFunctionOnSet(g, R)
      BY <2>1, <2>2, SumMonotone
    <3> QED BY <3>1 DEF PointsOf, f, g
  <2>4. PointsOf(sc, s, R) \in Nat /\ PointsOf(better, s, R) \in Nat /\ all \in Nat
    BY <2>1, PointsOfNat, AchievableNat
  <2>5. all = 0 \/ Reaches(rule, PointsOf(sc, s, R), all)
    BY <1>2, OverallIs DEF check
  <2>6. all = 0 \/ Reaches(rule, PointsOf(better, s, R), all)
    <3> HIDE DEF R, all
    <3> QED BY <2>3, <2>4, <2>5, FailsMonotone
  <2>7. checkOverall(rule, E, Assessments(s, better, E))
    BY <2>6, OverallIs
  <2> QED BY <1>2, <2>7 DEF check
<1> QED BY <1>1, <1>2

(* Where doubles are what they should be, a request that finds the course as it is
   finds who fulfils a rule. *)
LEMMA CheckExact ==
  ASSUME TypesOK, NEW rule \in rules, NEW s \in Students, Regular(rule, s)
  PROVE  check(rule, evaluated, Assessments(s, score, evaluated)) <=> ShouldPass(rule, s)
<1> DEFINE R == Relevant(rule, evaluated)
           known == Assessments(s, score, evaluated)
           counted == {a \in evaluated : TypeOf[a] = rule.type /\ points[a] > 0}
           off == Low \cup High
<1>1. rule \in Rule /\ Tenths(rule) /\ (rule.rounding = "DECIMALS" => rule.decimals # None)
  BY RulesAre DEF Regular
<1>2. /\ evaluated \in SUBSET Assignments /\ points \in [Assignments -> Nat]
      /\ score \in [Students -> [Assignments -> Score]]
  BY DEF TypesOK
<1>3. R = {a \in evaluated : TypeOf[a] = rule.type}
  BY DEF Relevant
<1>4. /\ <<SumOf(s, R), SumFunctionOnSet(points, R)>> \notin off
      /\ \A a \in R : <<PointsIn(score[s], a), points[a]>> \notin off
  BY <1>3 DEF Regular
<1>5. /\ R \in SUBSET Assignments /\ counted \in SUBSET R
      /\ IsFiniteSet(R) /\ IsFiniteSet(counted)
  BY <1>2, <1>3, RelevantFinite
<1>6. \A a \in R : points[a] \in Nat /\ (a \in counted <=> points[a] > 0)
  BY <1>2, <1>3, <1>5
<1> HIDE DEF R, counted, off
<1>7. CASE rule.kind = "REQUIRED_PERCENT_OVERALL"
  <2> DEFINE all == SumFunctionOnSet(points, R)
             got == SumOf(s, R)
  <2>1. all = SumFunctionOnSet(points, counted)
    <3>1. \A a \in R : points[a] \in Int /\ (a \in R \ counted => points[a] = 0)
      BY <1>6
    <3> QED BY <1>5, <3>1, SumZeros
  <2>2. all = 0 <=> counted = {}
    <3>1. CASE counted = {}
      <4>1. SumFunctionOnSet(points, {}) = 0
        BY FS_EmptySet, SumStep
      <4> QED BY <2>1, <3>1, <4>1
    <3>2. CASE counted # {}
      <4>1. PICK a \in counted : TRUE
        BY <3>2
      <4>2. points[a] > 0 /\ a \in R
        BY <1>5, <1>6
      <4>3. SumFunctionOnSet(points, R) > 0
        BY <1>5, <1>6, <4>2, SumPositive
      <4> QED BY <3>2, <4>3
    <3> QED BY <3>1, <3>2
  <2>3. all \in Nat
    BY <1>2, <1>5, AchievableNat
  <2>4. got = PointsOf(score, s, R) /\ got \in Nat
    BY <1>5, PointsOfNat DEF SumOf, PointsOf
  <2>5. check(rule, evaluated, known) <=> all = 0 \/ Reaches(rule, got, all)
    BY <1>2, <1>7, <2>4, OverallIs DEF check, R
  <2>6. ShouldPass(rule, s) <=> counted = {} \/ Enough(rule, got, all)
    <3>1. ShouldPass(rule, s) <=>
            counted = {} \/ Enough(rule, got, SumFunctionOnSet(points, counted))
      BY <1>3, <1>7 DEF ShouldPass, counted
    <3> QED BY Zenon, <2>1, <3>1
  <2>7. all # 0 => (Reaches(rule, got, all) <=> Enough(rule, got, all))
    <3> HIDE DEF got, all
    <3> SUFFICES ASSUME all # 0 PROVE Reaches(rule, got, all) <=> Enough(rule, got, all)
      OBVIOUS
    <3>1. all \in Nat \ {0} /\ <<got, all>> \notin Low \cup High
      BY <1>4, <2>3 DEF got, all, off
    <3> QED BY <1>1, <2>4, <3>1, FailsExact
  <2> QED BY <2>2, <2>5, <2>6, <2>7
<1>8. CASE rule.kind # "REQUIRED_PERCENT_OVERALL"
  <2> DEFINE F == {a \in R : studentFailedAssignment(rule, known, a)}
  <2>1. ASSUME NEW a \in R
        PROVE  a \in F <=> a \in counted /\ ~Enough(rule, PointsIn(score[s], a), points[a])
    <3> DEFINE p == PointsIn(score[s], a)
    <3>1. a \in Assignments /\ a \in evaluated
      BY <1>3, <1>5
    <3>2. PointsIn(known, a) = p /\ p \in Nat
      BY <1>2, <3>1, PointsKnown, PointsNat
    <3>3. a \in F <=> Fails(rule, p, points[a])
      <4>1. studentFailedAssignment(rule, known, a) <=> Fails(rule, PointsIn(known, a), points[a])
        BY Zenon DEF studentFailedAssignment, Fails
      <4> QED BY <3>2, <4>1
    <3>4. CASE points[a] = 0
      BY <1>6, <3>2, <3>3, <3>4, NothingToAchieve
    <3>5. CASE points[a] # 0
      <4>1. points[a] \in Nat \ {0} /\ a \in counted
        BY <1>6, <3>5
      <4>2. <<p, points[a]>> \notin Low \cup High
        BY <1>4 DEF off
      <4> HIDE DEF p, F
      <4>3. Fails(rule, p, points[a]) <=> ~Enough(rule, p, points[a])
        BY <1>1, <3>2, <4>1, <4>2, FailsExact
      <4> QED BY <3>3, <4>1, <4>3 DEF p
    <3> QED BY <3>4, <3>5
  <2>2. F \in SUBSET counted
    BY <2>1
  <2>3. check(rule, evaluated, known) <=> Cardinality(F) <= rule.allowedFailures
    BY <1>8 DEF check, checkIndividual, countFailedAssignments, R
  <2>4. ShouldPass(rule, s) <=>
          \E failed \in SUBSET counted :
            /\ Cardinality(failed) <= rule.allowedFailures
            /\ \A a \in counted \ failed : Enough(rule, PointsIn(score[s], a), points[a])
    BY <1>8 DEF ShouldPass, counted
  <2>5. ASSUME NEW failed \in SUBSET counted,
               \A a \in counted \ failed : Enough(rule, PointsIn(score[s], a), points[a]),
               Cardinality(failed) <= rule.allowedFailures
        PROVE  Cardinality(F) <= rule.allowedFailures
    <3>1. F \subseteq failed
      <4> SUFFICES ASSUME NEW a \in F, a \notin failed PROVE FALSE
        OBVIOUS
      <4>1. a \in R /\ a \in counted
        BY <2>2
      <4>2. ~Enough(rule, PointsIn(score[s], a), points[a])
        BY <2>1, <4>1
      <4> QED BY <2>5, <4>1, <4>2
    <3>2. IsFiniteSet(failed)
      BY <1>5, FS_Subset
    <3> HIDE DEF F
    <3>3. /\ Cardinality(F) \in Nat /\ Cardinality(failed) \in Nat
          /\ Cardinality(F) <= Cardinality(failed)
      BY <3>1, <3>2, FS_Subset, FS_CardinalityType
    <3>4. rule.allowedFailures \in Nat
      BY <1>1 DEF Rule
    <3> QED BY <2>5, <3>3, <3>4
  <2>6. \A a \in counted \ F : Enough(rule, PointsIn(score[s], a), points[a])
    BY <1>5, <2>1
  <2> HIDE DEF F
  <2> QED BY <2>2, <2>3, <2>4, <2>5, <2>6
<1> QED BY <1>7, <1>8

(* Whoever fulfils the rules at a moment, does so with more points. *)
LEMMA MoreFulfil ==
  ASSUME TypesOK, NEW E \in SUBSET Assignments, NEW s \in Students,
         NEW better \in [Students -> [Assignments -> Score]],
         \A a \in Assignments : PointsIn(score[s], a) <= PointsIn(better[s], a),
         s \in FulfilNow(E, score)
  PROVE  s \in FulfilNow(E, better)
<1>1. ASSUME NEW rule \in rules
      PROVE  check(rule, E, Assessments(s, better, E))
  <2>1. check(rule, E, Assessments(s, score, E))
    BY DEF FulfilNow, FulfilsAll
  <2> QED BY <2>1, RulesAre, CheckMonotone DEF TypesOK
<1> QED BY <1>1 DEF FulfilNow, FulfilsAll

--------------------------------------------------------------------------------
(* Requests *)

(* All assessments, at one moment. *)
ReadAt(sc, E) == [s \in Students |-> Assessments(s, sc, E)]

(* What a request has read, as long as nothing that matters has changed since. *)
StudentsRead ==
  req.students # None /\ req.kind = "status" /\ "score" \notin changes =>
    \E E \in SUBSET Assignments :
      /\ req.students = ReadAt(score, E)
      /\ changes = {} => E = evaluated

(* The assignments that were read were EVALUATED at a moment of the request. *)
AssignmentsRead ==
  req.assignments # None =>
    /\ req.assignments \in SUBSET Assignments
    /\ "withdrawn" \notin changes => req.assignments \subseteq evaluated
    /\ "score" \notin changes => FulfilNow(req.assignments, score) \in moments
    /\ changes = {} => req.assignments = evaluated

(* While a request is reading, the present moment is one of its moments. *)
ReadingOK ==
  req.at = "reading" =>
    /\ req = [at |-> "reading", kind |-> req.kind, students |-> req.students,
              assignments |-> req.assignments]
    /\ FulfilNow(evaluated, score) \in moments
    /\ StudentsRead
    /\ AssignmentsRead

(* An answer without changes meanwhile is that of the present moment. *)
AnswerOK ==
  req.at = "status" /\ changes = {} => req.fulfil = FulfilNow(evaluated, score)

(* The inductive invariant. *)
RequestOK ==
  TypesOK /\ ReadingOK /\ AnswerOK /\ NotAdmittedByChance /\ NoPreview

--------------------------------------------------------------------------------

(* Who fulfils the rules depends on nothing that changes but its arguments. *)
LEMMA SameMoment ==
  ASSUME points' = points, rules' = rules
  PROVE  \A E, sc : FulfilNow(E, sc)' = FulfilNow(E, sc)
BY DEF FulfilNow, FulfilsAll, check, checkOverall, checkIndividual,
       countFailedAssignments, studentFailedAssignment, Relevant

(* The course is typed at first. *)
LEMMA TypesInit == ASSUME Init PROVE TypesOK
BY ConstantsOK DEF Init, TypesOK, Score

(* It stays so, and neither its rules nor what can be achieved change. *)
LEMMA TypesNext ==
  ASSUME TypesOK, [Next]_vars
  PROVE  TypesOK' /\ points' = points /\ rules' = rules
<1>1. points' = points /\ rules' = rules
  BY DEF Next, vars, Request, ReadStudents, ReadAssignments, AnswerStatus, AnswerOverview,
         Release, Withdraw, Assess, Changed
<1>2. CASE UNCHANGED <<evaluated, score>>
  BY <1>1, <1>2 DEF TypesOK
<1>3. CASE \E a \in Assignments : Release(a) \/ Withdraw(a)
  BY <1>1, <1>3 DEF TypesOK, Release, Withdraw, Changed
<1>4. CASE \E s \in Students, a \in Assignments, p \in Score : Assess(s, a, p)
  <2>1. PICK s \in Students, a \in Assignments, p \in Score : Assess(s, a, p)
    BY <1>4
  <2>2. evaluated' = evaluated /\ score' = [score EXCEPT ![s][a] = p]
    BY <2>1 DEF Assess, Changed
  <2> QED BY <1>1, <2>2 DEF TypesOK
<1>5. \/ UNCHANGED <<evaluated, score>>
      \/ \E a \in Assignments : Release(a) \/ Withdraw(a)
      \/ \E s \in Students, a \in Assignments, p \in Score : Assess(s, a, p)
  BY DEF Next, vars, Request, ReadStudents, ReadAssignments, AnswerStatus, AnswerOverview
<1> QED BY <1>1, <1>2, <1>3, <1>4, <1>5

(* There is no request at first. *)
LEMMA RequestInit == ASSUME Init PROVE RequestOK
<1>1. req.at = "idle"
  BY DEF Init, Idle
<1> QED BY <1>1, TypesInit DEF RequestOK, ReadingOK, AnswerOK, NotAdmittedByChance, NoPreview

(* A new request has read nothing yet. *)
LEMMA RequestKeeps ==
  ASSUME RequestOK, TypesOK', points' = points, rules' = rules,
         NEW kind \in Kinds, Request(kind)
  PROVE  RequestOK'
<1>1. req' = [at |-> "reading", kind |-> kind, students |-> None, assignments |-> None]
  BY DEF Request
<1>2. /\ moments' = {FulfilNow(evaluated, score)}
      /\ evaluated' = evaluated /\ score' = score
  BY DEF Request
<1>3. FulfilNow(evaluated, score)' = FulfilNow(evaluated, score)
  BY <1>2, SameMoment
<1>4. ReadingOK'
  BY <1>1, <1>2, <1>3 DEF ReadingOK, StudentsRead, AssignmentsRead
<1>5. req'.at = "reading"
  BY <1>1
<1> QED BY <1>4, <1>5 DEF RequestOK, AnswerOK, NotAdmittedByChance, NoPreview

(* What is read is as it is at present. *)
LEMMA ReadKeeps ==
  ASSUME RequestOK, TypesOK', points' = points, rules' = rules,
         ReadStudents \/ ReadAssignments
  PROVE  RequestOK'
<1>1. /\ req.at = "reading"
      /\ evaluated' = evaluated /\ score' = score /\ moments' = moments /\ changes' = changes
  BY DEF ReadStudents, ReadAssignments
<1>2. /\ req = [at |-> "reading", kind |-> req.kind, students |-> req.students,
                assignments |-> req.assignments]
      /\ FulfilNow(evaluated, score) \in moments
      /\ StudentsRead /\ AssignmentsRead /\ TypesOK
  BY <1>1 DEF RequestOK, ReadingOK
<1>3. \A E : FulfilNow(E, score)' = FulfilNow(E, score)
  BY <1>1, SameMoment
<1>4. CASE ReadStudents
  <2> DEFINE found == [s \in Students |-> IF req.kind = "overview" THEN AllAssessments(s)
                                          ELSE Assessments(s, score, evaluated)]
  <2>1. req' = [req EXCEPT !.students = found]
    BY <1>4 DEF ReadStudents
  <2> HIDE DEF found
  <2>2. req' = [at |-> "reading", kind |-> req.kind, students |-> found,
                assignments |-> req.assignments]
    BY <1>2, <2>1
  <2>3. req.kind = "status" => found = ReadAt(score, evaluated)
    BY DEF found, ReadAt
  <2>4. StudentsRead'
    <3> SUFFICES ASSUME req.kind = "status"
                 PROVE  \E E \in SUBSET Assignments :
                          /\ found = ReadAt(score, E)
                          /\ changes = {} => E = evaluated
      BY <1>1, <2>2 DEF StudentsRead
    <3>1. evaluated \in SUBSET Assignments
      BY <1>2 DEF TypesOK
    <3> QED BY <2>3, <3>1
  <2>5. FulfilNow(req.assignments, score)' = FulfilNow(req.assignments, score)
    BY <1>3, <2>2
  <2>6. AssignmentsRead'
    BY <1>1, <1>2, <2>2, <2>5 DEF AssignmentsRead
  <2>7. FulfilNow(evaluated, score)' = FulfilNow(evaluated, score)
    BY <1>1, <1>3
  <2>8. ReadingOK'
    BY <1>1, <1>2, <2>2, <2>4, <2>6, <2>7 DEF ReadingOK
  <2>9. req'.at = "reading"
    BY <2>2
  <2> QED BY <2>8, <2>9 DEF RequestOK, AnswerOK, NotAdmittedByChance, NoPreview
<1>5. CASE ReadAssignments
  <2>1. req' = [req EXCEPT !.assignments = evaluated]
    BY <1>5 DEF ReadAssignments
  <2>2. req' = [at |-> "reading", kind |-> req.kind, students |-> req.students,
                assignments |-> evaluated]
    BY <1>2, <2>1
  <2>3. StudentsRead'
    BY <1>1, <1>2, <2>2 DEF StudentsRead
  <2>4. FulfilNow(req.assignments, score)' = FulfilNow(evaluated, score)
    BY <1>3, <2>2
  <2>5. AssignmentsRead'
    BY <1>1, <1>2, <2>2, <2>4 DEF AssignmentsRead, TypesOK
  <2>6. FulfilNow(evaluated, score)' = FulfilNow(evaluated, score)
    BY <1>1, <1>3
  <2>7. ReadingOK'
    BY <1>1, <1>2, <2>2, <2>3, <2>5, <2>6 DEF ReadingOK
  <2>8. req'.at = "reading"
    BY <2>2
  <2> QED BY <2>7, <2>8 DEF RequestOK, AnswerOK, NotAdmittedByChance, NoPreview
<1> QED BY <1>4, <1>5

(* Whoever is found with assessments of one moment and assignments of another, was to
   be found with both of the latter. *)
LEMMA FoundTogether ==
  ASSUME TypesOK, Individual(rules), NEW E \in SUBSET Assignments,
         NEW D \in SUBSET Assignments, NEW s \in Students,
         FulfilsAll(D, Assessments(s, score, E))
  PROVE  s \in FulfilNow(D, score)
<1>1. ASSUME NEW rule \in rules
      PROVE  check(rule, D, Assessments(s, score, D))
  <2>1. rule \in Rule /\ Tenths(rule) /\ rule.kind # "REQUIRED_PERCENT_OVERALL"
    BY RulesAre DEF Individual
  <2>2. checkIndividual(rule, D, Assessments(s, score, E))
    BY <2>1 DEF FulfilsAll, check
  <2>3. ASSUME NEW a \in D
        PROVE  PointsIn(Assessments(s, score, E), a) <= PointsIn(Assessments(s, score, D), a)
    <3>1. PointsIn(Assessments(s, score, D), a) = PointsIn(score[s], a)
      BY PointsKnown DEF TypesOK
    <3>2. PointsIn(Assessments(s, score, E), a) = IF a \in E THEN PointsIn(score[s], a) ELSE 0
      BY PointsKnown DEF TypesOK
    <3>3. PointsIn(score[s], a) \in Nat
      BY PointsNat
    <3> QED BY <3>1, <3>2, <3>3
  <2>4. checkIndividual(rule, D, Assessments(s, score, D))
    BY <2>1, <2>2, <2>3, IndividualMonotone DEF TypesOK
  <2> QED BY <2>1, <2>4 DEF check
<1> QED BY <1>1 DEF FulfilNow, FulfilsAll

(* Answers: the students of one moment are joined with the assignments of another. *)
LEMMA AnswerKeeps ==
  ASSUME RequestOK, TypesOK', points' = points, rules' = rules,
         AnswerStatus \/ AnswerOverview
  PROVE  RequestOK'
<1>1. /\ AllRead
      /\ evaluated' = evaluated /\ score' = score /\ moments' = moments /\ changes' = changes
  BY DEF AnswerStatus, AnswerOverview
<1>2. /\ req.at = "reading" /\ req.students # None /\ req.assignments # None
      /\ StudentsRead /\ AssignmentsRead /\ TypesOK
  BY <1>1 DEF RequestOK, ReadingOK, AllRead
<1>3. CASE AnswerStatus
  <2> DEFINE fulfil == {s \in Students : FulfilsAll(req.assignments, req.students[s])}
  <2>1. \/ req' = Idle
        \/ req' = [at |-> "status", fulfil |-> fulfil, admitted |-> fulfil \cup Previous]
    BY <1>3 DEF AnswerStatus
  <2>2. CASE req' = Idle
    <3>1. req'.at = "idle"
      BY <2>2 DEF Idle
    <3> QED BY <3>1 DEF RequestOK, ReadingOK, AnswerOK, NotAdmittedByChance, NoPreview
  <2>3. CASE req' = [at |-> "status", fulfil |-> fulfil, admitted |-> fulfil \cup Previous]
    <3>1. req'.at = "status" /\ req'.fulfil = fulfil
      BY <2>3
    <3>2. req.kind = "status"
      BY <1>3 DEF AnswerStatus
    <3>3. ASSUME "score" \notin changes
          PROVE  \E E \in SUBSET Assignments :
                   /\ \A s \in Students : req.students[s] = Assessments(s, score, E)
                   /\ changes = {} => E = evaluated
      <4>1. PICK E \in SUBSET Assignments :
                  /\ req.students = ReadAt(score, E)
                  /\ changes = {} => E = evaluated
        BY <1>2, <3>2, <3>3 DEF StudentsRead
      <4> QED BY <4>1 DEF ReadAt
    <3>4. AnswerOK'
      <4> SUFFICES ASSUME changes = {} PROVE fulfil = FulfilNow(evaluated, score)'
        BY <1>1, <3>1 DEF AnswerOK
      <4>1. \A s \in Students : req.students[s] = Assessments(s, score, evaluated)
        BY <3>3
      <4>2. req.assignments = evaluated
        BY <1>2 DEF AssignmentsRead
      <4>3. fulfil = FulfilNow(evaluated, score)
        BY <4>1, <4>2 DEF FulfilNow
      <4> QED BY <1>1, <4>3, SameMoment
    <3>5. NotAdmittedByChance'
      <4> SUFFICES ASSUME "score" \notin changes, Individual(rules), NEW s \in fulfil
                   PROVE  \E now \in moments : s \in now
        BY <1>1, <3>1 DEF NotAdmittedByChance, Individual
      <4>1. PICK E \in SUBSET Assignments : req.students[s] = Assessments(s, score, E)
        BY <3>3
      <4>2. req.assignments \in SUBSET Assignments /\ FulfilNow(req.assignments, score) \in moments
        BY <1>2 DEF AssignmentsRead
      <4>3. FulfilsAll(req.assignments, Assessments(s, score, E))
        BY <4>1
      <4>4. s \in FulfilNow(req.assignments, score)
        BY <1>2, <4>2, <4>3, FoundTogether
      <4> QED BY <4>2, <4>4
    <3>6. ReadingOK' /\ NoPreview'
      BY <3>1 DEF ReadingOK, NoPreview
    <3> QED BY <3>4, <3>5, <3>6 DEF RequestOK
  <2> QED BY <2>1, <2>2, <2>3
<1>4. CASE AnswerOverview
  <2> DEFINE shown == [s \in Students |-> Shown(req.assignments, req.students[s])]
  <2>1. req' = [at |-> "overview", results |-> shown]
    BY <1>4 DEF AnswerOverview
  <2>2. req'.at = "overview" /\ req'.results = shown
    BY <2>1
  <2>3. \A s \in Students : DOMAIN shown[s] \subseteq req.assignments
    BY DEF Shown
  <2>4. "withdrawn" \notin changes => req.assignments \subseteq evaluated
    BY <1>2 DEF AssignmentsRead
  <2> HIDE DEF shown
  <2>5. NoPreview'
    BY <1>1, <2>2, <2>3, <2>4 DEF NoPreview
  <2> QED BY <2>2, <2>5 DEF RequestOK, ReadingOK, AnswerOK, NotAdmittedByChance
<1> QED BY <1>3, <1>4

(* What staff changes during a request is among changes, and adds a moment. *)
LEMMA ChangedKeeps ==
  ASSUME RequestOK, TypesOK', points' = points, rules' = rules,
         NEW what, NEW E, NEW sc, Changed(what, E, sc),
         what # "score" => sc = score,
         what # "withdrawn" => evaluated \subseteq E
  PROVE  RequestOK'
<1>1. evaluated' = E /\ score' = sc
  BY DEF Changed
<1>2. CASE req.at = "reading"
  <2>1. changes' = changes \cup {what} /\ moments' = moments \cup {FulfilNow(E, sc)} /\ req' = req
    BY <1>2 DEF Changed
  <2>2. /\ req = [at |-> "reading", kind |-> req.kind, students |-> req.students,
                  assignments |-> req.assignments]
        /\ StudentsRead /\ AssignmentsRead
    BY <1>2 DEF RequestOK, ReadingOK
  <2>3. FulfilNow(evaluated, score)' = FulfilNow(E, sc)
    BY <1>1, SameMoment
  <2>4. StudentsRead'
    <3> SUFFICES ASSUME req.students # None, req.kind = "status", "score" \notin changes'
                 PROVE  \E D \in SUBSET Assignments :
                          req.students = ReadAt(sc, D)
      BY <1>1, <2>1 DEF StudentsRead
    <3>1. "score" \notin changes /\ sc = score
      BY <2>1
    <3> QED BY <2>2, <3>1 DEF StudentsRead
  <2>5. AssignmentsRead'
    <3> SUFFICES ASSUME req.assignments # None
                 PROVE  /\ req.assignments \in SUBSET Assignments
                        /\ "withdrawn" \notin changes' => req.assignments \subseteq E
                        /\ "score" \notin changes' =>
                             FulfilNow(req.assignments, score)' \in moments'
      BY <1>1, <2>1 DEF AssignmentsRead
    <3>1. FulfilNow(req.assignments, score)' = FulfilNow(req.assignments, sc)
      BY <1>1, <2>1, SameMoment
    <3>2. "withdrawn" \notin changes' => "withdrawn" \notin changes /\ evaluated \subseteq E
      BY <2>1
    <3>3. "score" \notin changes' => "score" \notin changes /\ sc = score
      BY <2>1
    <3> QED BY <2>1, <2>2, <3>1, <3>2, <3>3 DEF AssignmentsRead
  <2>6. ReadingOK'
    BY <1>1, <2>1, <2>2, <2>3, <2>4, <2>5 DEF ReadingOK
  <2> QED BY <1>2, <2>1, <2>6 DEF RequestOK, AnswerOK, NotAdmittedByChance, NoPreview
<1>3. CASE req.at # "reading"
  <2>1. req'.at = "idle"
    BY <1>3 DEF Changed, Idle
  <2> QED BY <2>1 DEF RequestOK, ReadingOK, AnswerOK, NotAdmittedByChance, NoPreview
<1> QED BY <1>2, <1>3

(* Every step keeps the invariant. *)
LEMMA RequestNext == ASSUME RequestOK, [Next]_vars PROVE RequestOK'
<1>1. TypesOK' /\ points' = points /\ rules' = rules
  BY TypesNext DEF RequestOK
<1>2. CASE \E kind \in Kinds : Request(kind)
  BY <1>1, <1>2, RequestKeeps
<1>3. CASE ReadStudents \/ ReadAssignments
  BY <1>1, <1>3, ReadKeeps
<1>4. CASE AnswerStatus \/ AnswerOverview
  BY <1>1, <1>4, AnswerKeeps
<1>5. CASE \E a \in Assignments : Release(a)
  <2>1. PICK a \in Assignments : Changed("released", evaluated \cup {a}, score)
    BY <1>5 DEF Release
  <2> QED BY <1>1, <2>1, ChangedKeeps
<1>6. CASE \E a \in Assignments : Withdraw(a)
  <2>1. PICK a \in Assignments : Changed("withdrawn", evaluated \ {a}, score)
    BY <1>6 DEF Withdraw
  <2> QED BY <1>1, <2>1, ChangedKeeps
<1>7. CASE \E s \in Students, a \in Assignments, p \in Score : Assess(s, a, p)
  <2>1. PICK s \in Students, a \in Assignments, p \in Score :
               Changed("score", evaluated, [score EXCEPT ![s][a] = p])
    BY <1>7 DEF Assess
  <2> DEFINE sc == [score EXCEPT ![s][a] = p]
  <2>2. Changed("score", evaluated, sc)
    BY <2>1
  <2> HIDE DEF sc
  <2> QED BY <1>1, <2>2, ChangedKeeps
<1>8. CASE UNCHANGED vars
  <2>1. /\ req' = req /\ evaluated' = evaluated /\ score' = score
        /\ moments' = moments /\ changes' = changes
    BY <1>8 DEF vars
  <2>2. \A E, sc : FulfilNow(E, sc)' = FulfilNow(E, sc)
    BY <1>1, SameMoment
  <2>3. FulfilNow(evaluated, score)' = FulfilNow(evaluated, score)
    BY <2>1, <2>2
  <2>4. FulfilNow(req.assignments, score)' = FulfilNow(req.assignments, score)
    BY <2>1, <2>2
  <2>5. StudentsRead => StudentsRead'
    BY <2>1 DEF StudentsRead
  <2>6. AssignmentsRead => AssignmentsRead'
    BY <2>1, <2>4 DEF AssignmentsRead
  <2>7. ReadingOK' /\ AnswerOK'
    BY <2>1, <2>3, <2>5, <2>6 DEF RequestOK, ReadingOK, AnswerOK
  <2>8. NotAdmittedByChance' /\ NoPreview'
    BY <1>1, <2>1 DEF RequestOK, NotAdmittedByChance, NoPreview, Individual
  <2> QED BY <1>1, <2>7, <2>8 DEF RequestOK
<1> QED BY <1>2, <1>3, <1>4, <1>5, <1>6, <1>7, <1>8 DEF Next

(* The inductive invariant holds: what a request has read so far stays related to
   the moments of the request and to the changes since. *)
THEOREM RequestsCorrect == Spec => []RequestOK
<1>1. Init => RequestOK
  BY RequestInit
<1>2. RequestOK /\ [Next]_vars => RequestOK'
  BY RequestNext
<1> QED BY <1>1, <1>2, PTL DEF Spec

(* getAdmissionStatusOfParticipants joins assessments and assignments of different
   moments; while no points change, nobody is found to fulfil rules on single
   assignments who never did during the request. *)
THEOREM NobodyAdmittedByChance == Spec => []NotAdmittedByChance
<1>1. RequestOK => NotAdmittedByChance
  BY DEF RequestOK
<1> QED BY <1>1, RequestsCorrect, PTL

(* getPointsOverview takes all assessments, but shows only points of assignments
   that were EVALUATED: nothing is given away before the release. *)
THEOREM NothingIsPreviewed == Spec => []NoPreview
<1>1. RequestOK => NoPreview
  BY DEF RequestOK
<1> QED BY <1>1, RequestsCorrect, PTL

(* A status found without changes meanwhile is exactly what the rules say, for
   every rounding and every number of assignments, unless a double misses. *)
THEOREM StatusIsExact == Spec => []StatusExact
<1>1. RequestOK => StatusExact
  <2> SUFFICES ASSUME RequestOK, req.at = "status", changes = {}, NEW s \in Students,
                      \A rule \in rules : Regular(rule, s)
               PROVE  s \in req.fulfil <=> \A rule \in rules : ShouldPass(rule, s)
    BY DEF StatusExact
  <2>1. req.fulfil = FulfilNow(evaluated, score)
    BY DEF RequestOK, AnswerOK
  <2>2. \A rule \in rules :
          check(rule, evaluated, Assessments(s, score, evaluated)) <=> ShouldPass(rule, s)
    BY CheckExact DEF RequestOK
  <2> QED BY <2>1, <2>2 DEF FulfilNow, FulfilsAll
<1> QED BY <1>1, RequestsCorrect, PTL

(* A student who fulfils the rules still does with more points, for all ways in
   which doubles may miss and all roundings. *)
THEOREM PointsNeverHurt == Spec => MorePointsNeverHurt
<1> DEFINE Hurtless ==
      \A s \in Students :
        /\ evaluated' = evaluated
        /\ \A a \in Assignments : PointsIn(score'[s], a) >= PointsIn(score[s], a)
        /\ s \in FulfilNow(evaluated, score)
        => s \in FulfilNow(evaluated', score')
<1>1. TypesOK /\ [Next]_vars => TypesOK'
  BY TypesNext
<1>2. TypesOK /\ [Next]_vars => [Hurtless]_vars
  <2> SUFFICES ASSUME TypesOK, [Next]_vars, NEW s \in Students, evaluated' = evaluated,
                      \A a \in Assignments : PointsIn(score'[s], a) >= PointsIn(score[s], a),
                      s \in FulfilNow(evaluated, score)
               PROVE  s \in FulfilNow(evaluated', score')
    OBVIOUS
  <2>1. score' \in [Students -> [Assignments -> Score]] /\ evaluated \in SUBSET Assignments
    BY TypesNext DEF TypesOK
  <2>2. \A a \in Assignments : PointsIn(score[s], a) <= PointsIn(score'[s], a)
    BY PointsNat
  <2>3. s \in FulfilNow(evaluated, score')
    BY <2>1, <2>2, MoreFulfil
  <2> QED BY <2>3
<1>3. Init => TypesOK
  BY TypesInit
<1> QED BY <1>1, <1>2, <1>3, PTL DEF Spec, MorePointsNeverHurt

================================================================================
