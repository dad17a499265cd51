----------------------------- MODULE SumProofs -----------------------------
(***************************************************************************)
(* Sums: what folding + over a function comes to, for any function of      *)
(* natural numbers on a finite set.  Report adds up the counters of        *)
(* nonwarnings this way (sysc/report.cpp, summary).                        *)
(*                                                                         *)
(* FoldFunctionOnSet is a recursive function on the subsets of its set: an *)
(* element is picked, the sum of the others is taken.  That there is such  *)
(* a function, and what its values are, is shown by induction over the     *)
(* size of the subsets.  Induction is stated for a set of numbers, or of   *)
(* subsets, instead of a predicate.                                        *)
(***************************************************************************)
EXTENDS Integers, FiniteSets, Functions, FiniteSetTheorems,
        WellFoundedInduction, TLAPS

SumOver(f, D) == FoldFunctionOnSet(LAMBDA a, b : a + b, 0, f, D)

\* The element that the fold takes out of a set.
Pick(s) == CHOOSE x \in s : TRUE
Others(s) == s \ {Pick(s)}

\* The sum of the subset s, if sum is that of the smaller ones.
PlusOne(sum, f, s) == IF s = {} THEN 0 ELSE f[Pick(s)] + sum[Others(s)]

\* sum is the recursive function, on all subsets of D or on those of at most n
\* elements.
IsSum(sum, f, D) == sum = [s \in SUBSET D |-> PlusOne(sum, f, s)]

Small(D, n) == {s \in SUBSET D : Cardinality(s) <= n}

IsSmallSum(sum, f, D, n) == sum = [s \in Small(D, n) |-> PlusOne(sum, f, s)]

----------------------------------------------------------------------------
(* Induction.                                                              *)

\* A set that contains 0 and the successors of its elements contains every
\* natural number.
LEMMA SetInduction ==
  ASSUME NEW T, 0 \in T, \A n \in Nat : n \in T => n + 1 \in T
  PROVE  Nat \subseteq T
<1> DEFINE R == {pair \in Nat \X Nat : pair[1] < pair[2]}
           Bad == Nat \ T
<1>1. IsWellFoundedOn(R, Nat)
  BY NatLessThanWellFounded DEF OpToRel
<1> HIDE DEF R
<1> SUFFICES ASSUME Bad # {}
             PROVE  FALSE
  OBVIOUS
<1>2. PICK n \in Bad : \A m \in Bad : <<m, n>> \notin R
  <2>1. Bad \subseteq Nat
    OBVIOUS
  <2> HIDE DEF Bad
  <2> QED
    BY <1>1, <2>1, WFMin
<1>3. n - 1 \in Nat /\ n - 1 < n
  BY <1>2
<1>4. n - 1 \notin Bad
  BY <1>2, <1>3 DEF R
<1>5. n \in T
  BY <1>3, <1>4
<1> QED
  BY <1>2, <1>5

\* Taking an element out of a finite set.
LEMMA OthersFacts ==
  ASSUME NEW D, IsFiniteSet(D), NEW s \in SUBSET D
  PROVE  /\ IsFiniteSet(s) /\ Cardinality(s) \in Nat
         /\ Others(s) \in SUBSET D
         /\ s = {} <=> Cardinality(s) = 0
         /\ s # {} => /\ Pick(s) \in s
                      /\ IsFiniteSet(Others(s))
                      /\ Cardinality(Others(s)) = Cardinality(s) - 1
<1>1. IsFiniteSet(s) /\ Cardinality(s) \in Nat
  BY FS_Subset, FS_CardinalityType
<1>2. s = {} <=> Cardinality(s) = 0
  BY <1>1, FS_EmptySet
<1>3. s # {} => Pick(s) \in s
  BY DEF Pick
<1>4. s # {} => /\ IsFiniteSet(Others(s))
                /\ Cardinality(Others(s)) = Cardinality(s) - 1
  BY <1>1, <1>3, FS_RemoveElement DEF Others
<1> QED
  BY <1>1, <1>2, <1>3, <1>4 DEF Others

\* A set that contains the empty set, and every subset of D of which it contains
\* the others, contains every subset of D.
LEMMA SubsetInduction ==
  ASSUME NEW D, IsFiniteSet(D), NEW Good, {} \in Good,
         \A s \in SUBSET D : s # {} /\ Others(s) \in Good => s \in Good
  PROVE  \A s \in SUBSET D : s \in Good
<1> DEFINE T == {n \in Nat : \A s \in Small(D, n) : s \in Good}
<1>1. 0 \in T
  <2>1. \A s \in Small(D, 0) : s = {}
    BY OthersFacts DEF Small
  <2> QED
    BY <2>1
<1>2. ASSUME NEW n \in Nat, n \in T
      PROVE  n + 1 \in T
  <2> SUFFICES ASSUME NEW s \in Small(D, n + 1)
               PROVE  s \in Good
    OBVIOUS
  <2>1. CASE s = {}
    BY <2>1
  <2>2. CASE s # {}
    <3>1. Others(s) \in Small(D, n)
      BY <2>2, OthersFacts DEF Small
    <3> QED
      BY <1>2, <2>2, <3>1 DEF Small
  <2> QED
    BY <2>1, <2>2
<1>3. Nat \subseteq T
  <2> HIDE DEF T
  <2> QED
    BY <1>1, <1>2, SetInduction
<1>4. ASSUME NEW s \in SUBSET D
      PROVE  s \in Good
  <2>1. Cardinality(s) \in T
    BY <1>3, OthersFacts
  <2> QED
    BY <2>1, OthersFacts DEF Small
<1> QED
  BY <1>4

----------------------------------------------------------------------------
(* The recursive function.                                                 *)

\* Folding + is summing: there is a function that satisfies the recursion, and
\* the fold is its value.
LEMMA FoldIsSum ==
  ASSUME NEW f, NEW D, IsFiniteSet(D)
  PROVE  \E sum : IsSum(sum, f, D) /\ SumOver(f, D) = sum[D]
<1> DEFINE T == {n \in Nat : \E sum : IsSmallSum(sum, f, D, n)}
<1>1. 0 \in T
  <2> DEFINE zero == [s \in Small(D, 0) |-> 0]
  <2>1. \A s \in Small(D, 0) : s = {}
    BY OthersFacts DEF Small
  <2>2. IsSmallSum(zero, f, D, 0)
    BY <2>1 DEF IsSmallSum, PlusOne
  <2> QED
    BY <2>2
<1>2. ASSUME NEW n \in Nat, n \in T
      PROVE  n + 1 \in T
  <2>1. PICK sum : IsSmallSum(sum, f, D, n)
    BY <1>2
  <2> DEFINE next == [s \in Small(D, n + 1) |-> PlusOne(sum, f, s)]
  <2>2. ASSUME NEW s \in Small(D, n + 1), s # {}
        PROVE  next[Others(s)] = sum[Others(s)]
    <3>1. Others(s) \in Small(D, n) /\ Others(s) \in Small(D, n + 1)
      BY <2>2, OthersFacts DEF Small
    <3>2. sum[Others(s)] = PlusOne(sum, f, Others(s))
      BY <2>1, <3>1 DEF IsSmallSum
    <3> QED
      BY <3>1, <3>2
  <2>3. \A s \in Small(D, n + 1) : next[s] = PlusOne(next, f, s)
    BY <2>2 DEF PlusOne
  <2>4. IsSmallSum(next, f, D, n + 1)
    BY <2>3 DEF IsSmallSum
  <2> QED
    BY <2>4
<1>3. Nat \subseteq T
  <2> HIDE DEF T
  <2> QED
    BY <1>1, <1>2, SetInduction
<1>4. Small(D, Cardinality(D)) = SUBSET D
  BY FS_Subset DEF Small
<1>5. \E sum : IsSum(sum, f, D)
  <2>1. Cardinality(D) \in T
    BY <1>3, FS_CardinalityType
  <2> QED
    BY <1>4, <2>1 DEF IsSmallSum, IsSum
<1>6. SumOver(f, D) = (CHOOSE sum : IsSum(sum, f, D))[D]
  BY DEF SumOver, FoldFunctionOnSet, MapThenFoldSet, IsSum, PlusOne, Pick, Others
<1> QED
  BY <1>5, <1>6

----------------------------------------------------------------------------
(* What sums are.                                                          *)

\* The sum of nothing.
LEMMA SumOfNone ==
  ASSUME NEW f, NEW D, NEW sum, IsSum(sum, f, D)
  PROVE  sum[{}] = 0
BY DEF IsSum, PlusOne

\* One step of the recursion.
LEMMA SumStep ==
  ASSUME NEW f, NEW D, NEW sum, IsSum(sum, f, D), NEW s \in SUBSET D, s # {}
  PROVE  sum[s] = f[Pick(s)] + sum[Others(s)]
BY DEF IsSum, PlusOne

\* A sum of natural numbers is one, and none of them exceeds it.
LEMMA SumBounds ==
  ASSUME NEW D, IsFiniteSet(D), NEW f \in [D -> Nat]
  PROVE  /\ SumOver(f, D) \in Nat
         /\ \A x \in D : f[x] <= SumOver(f, D)
<1>1. PICK sum : IsSum(sum, f, D) /\ SumOver(f, D) = sum[D]
  BY FoldIsSum
<1> DEFINE Good == {s \in SUBSET D : /\ sum[s] \in Nat
                                    /\ \A x \in s : f[x] <= sum[s]}
<1>2. {} \in Good
  <2>1. sum[{}] = 0
    BY <1>1, SumOfNone
  <2> QED
    BY <2>1
<1>3. ASSUME NEW s \in SUBSET D, s # {}, Others(s) \in Good
      PROVE  s \in Good
  <2>1. sum[s] = f[Pick(s)] + sum[Others(s)] /\ Pick(s) \in s
    BY <1>1, <1>3, SumStep, OthersFacts
  <2>2. f[Pick(s)] \in Nat /\ sum[Others(s)] \in Nat
    BY <1>3, <2>1
  <2>3. ASSUME NEW x \in s
        PROVE  f[x] <= sum[s]
    <3>1. CASE x = Pick(s)
      BY <2>1, <2>2, <3>1
    <3>2. CASE x # Pick(s)
      <4>1. x \in Others(s) /\ f[x] \in Nat
        BY <3>2 DEF Others
      <4>2. f[x] <= sum[Others(s)]
        BY <1>3, <4>1
      <4> QED
        BY <2>1, <2>2, <4>1, <4>2
    <3> QED
      BY <3>1, <3>2
  <2> QED
    BY <2>1, <2>2, <2>3
<1>4. \A s \in SUBSET D : s \in Good
  <2> HIDE DEF Good
  <2> QED
    BY <1>2, <1>3, SubsetInduction
<1> QED
  BY <1>1, <1>4

\* A sum of zeros is zero.
LEMMA SumOfZeros ==
  ASSUME NEW D, IsFiniteSet(D)
  PROVE  SumOver([x \in D |-> 0], D) = 0
<1> DEFINE f == [x \in D |-> 0]
<1>1. PICK sum : IsSum(sum, f, D) /\ SumOver(f, D) = sum[D]
  BY FoldIsSum
<1> DEFINE Good == {s \in SUBSET D : sum[s] = 0}
<1>2. {} \in Good
  BY <1>1, SumOfNone
<1>3. ASSUME NEW s \in SUBSET D, s # {}, Others(s) \in Good
      PROVE  s \in Good
  <2>1. Pick(s) \in D /\ sum[Others(s)] = 0
    BY <1>3, OthersFacts
  <2>2. f[Pick(s)] = 0
    BY <2>1
  <2> HIDE DEF f
  <2>3. sum[s] = f[Pick(s)] + sum[Others(s)]
    BY <1>1, <1>3, SumStep
  <2> QED
    BY <2>1, <2>2, <2>3
<1>4. \A s \in SUBSET D : s \in Good
  <2> HIDE DEF Good
  <2> QED
    BY <1>2, <1>3, SubsetInduction
<1> QED
  BY <1>1, <1>4

\* The sum over one element.
LEMMA SumOfOne ==
  ASSUME NEW x, NEW f, f[x] \in Nat
  PROVE  SumOver(f, {x}) = f[x]
<1>1. PICK sum : IsSum(sum, f, {x}) /\ SumOver(f, {x}) = sum[{x}]
  BY FoldIsSum, FS_Singleton
<1>2. Pick({x}) = x /\ Others({x}) = {}
  BY DEF Pick, Others
<1>3. sum[{}] = 0
  BY <1>1, SumOfNone
<1> DEFINE D == {x}
<1>4. D \in SUBSET D /\ D # {}
  OBVIOUS
<1>5. sum[D] = f[Pick(D)] + sum[Others(D)]
  <2> HIDE DEF D
  <2>1. IsSum(sum, f, D)
    BY <1>1 DEF D
  <2> QED
    BY <1>4, <2>1, SumStep
<1> QED
  BY <1>1, <1>2, <1>3, <1>5

\* An increment of one value is one of the sum.
LEMMA SumIncrement ==
  ASSUME NEW D, IsFiniteSet(D), NEW f \in [D -> Nat], NEW m \in D
  PROVE  SumOver([f EXCEPT ![m] = f[m] + 1], D) = SumOver(f, D) + 1
<1> DEFINE g == [f EXCEPT ![m] = f[m] + 1]
<1>0. \A x \in D : f[x] \in Nat /\ g[x] = IF x = m THEN f[x] + 1 ELSE f[x]
  OBVIOUS
<1> HIDE DEF g
<1>1. PICK sumf : IsSum(sumf, f, D) /\ SumOver(f, D) = sumf[D]
  BY FoldIsSum
<1>2. PICK sumg : IsSum(sumg, g, D) /\ SumOver(g, D) = sumg[D]
  BY FoldIsSum
<1> DEFINE Good ==
      {s \in SUBSET D :
         /\ sumf[s] \in Nat
         /\ sumg[s] = IF m \in s THEN sumf[s] + 1 ELSE sumf[s]}
<1>3. {} \in Good
  BY <1>1, <1>2, SumOfNone
<1>4. ASSUME NEW s \in SUBSET D, s # {}, Others(s) \in Good
      PROVE  s \in Good
  <2>1. Pick(s) \in s /\ Pick(s) \in D
    BY <1>4, OthersFacts
  <2>2. /\ sumf[s] = f[Pick(s)] + sumf[Others(s)]
        /\ sumg[s] = g[Pick(s)] + sumg[Others(s)]
    BY <1>1, <1>2, <1>4, SumStep
  <2>3. /\ f[Pick(s)] \in Nat
        /\ g[Pick(s)] = IF Pick(s) = m THEN f[Pick(s)] + 1 ELSE f[Pick(s)]
    BY <1>0, <2>1
  <2>4. /\ sumf[Others(s)] \in Nat
        /\ sumg[Others(s)] = IF m \in Others(s) THEN sumf[Others(s)] + 1
                                               ELSE sumf[Others(s)]
    BY <1>4
  <2>5. m \in s <=> (m = Pick(s) \/ m \in Others(s))
    BY <2>1 DEF Others
  <2>6. m = Pick(s) => m \notin Others(s)
    BY DEF Others
  <2>7. sumf[s] \in Nat
    BY <2>2, <2>3, <2>4
  <2>8. sumg[s] = IF m \in s THEN sumf[s] + 1 ELSE sumf[s]
    BY <2>2, <2>3, <2>4, <2>5, <2>6
  <2> QED
    BY <2>7, <2>8
<1>5. \A s \in SUBSET D : s \in Good
  <2> HIDE DEF Good
  <2> QED
    BY <1>3, <1>4, SubsetInduction
<1> QED
  BY <1>1, <1>2, <1>5 DEF g
=============================================================================
