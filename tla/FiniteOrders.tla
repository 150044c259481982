---------------------------- MODULE FiniteOrders ----------------------------
(***************************************************************************)
(* Facts about orders of finite sets.  Where the code looks for a best     *)
(* element there is one: the worst of the failures of a walk (Streaming),  *)
(* the new id with most votes (MergePipeline).  And where it orders rows,  *)
(* each has a place of its own (Browsing).                                 *)
(***************************************************************************)
EXTENDS FiniteSetTheorems, FunctionTheorems, WellFoundedInduction, TLAPS

\* A strict order on a finite set has a maximal element.
LEMMA MaximalElement ==
  ASSUME NEW S, IsFiniteSet(S), S # {}, NEW R,
         \A x \in S : <<x, x>> \notin R,
         \A x, y, z \in S : <<x, y>> \in R /\ <<y, z>> \in R => <<x, z>> \in R
  PROVE  \E x \in S : \A y \in S : <<x, y>> \notin R
  <1> DEFINE Above(x) == {y \in S : <<x, y>> \in R}
             T == {Above(x) : x \in S}
             O == StrictSubsetOrdering(S)
  <1>1. T \subseteq FiniteSubsetsOf(S) /\ T # {}
    <2>1. \A x \in S : Above(x) \in SUBSET S /\ IsFiniteSet(Above(x))
      BY FS_Subset
    <2>2. \A x \in S : Above(x) \in FiniteSubsetsOf(S)
      BY <2>1 DEF FiniteSubsetsOf
    <2> HIDE DEF Above
    <2> QED
      BY <2>2
  <1>2. IsWellFoundedOn(O, FiniteSubsetsOf(S))
    BY FS_StrictSubsetOrderingWellFounded
  <1>3. PICK a \in T : \A b \in T : <<b, a>> \notin O
    BY <1>1, <1>2, WFMin
  <1>4. PICK x \in S : a = Above(x)
    BY <1>3
  <1>5. ASSUME NEW y \in S, <<x, y>> \in R
        PROVE  FALSE
    <2>1. Above(y) \subseteq Above(x)
      BY <1>5
    <2>2. y \in Above(x) /\ y \notin Above(y)
      BY <1>5
    <2>3. <<Above(y), Above(x)>> \in O
      BY <2>1, <2>2 DEF StrictSubsetOrdering
    <2> QED
      BY <1>3, <1>4, <2>3
  <1> QED
    BY <1>5

\* A finite set with a strict total order has an element for each number of
\* elements below it, and one that is lower has fewer.
LEMMA Ranks ==
  ASSUME NEW S, IsFiniteSet(S), NEW R,
         \A x \in S : <<x, x>> \notin R,
         \A x, y, z \in S : <<x, y>> \in R /\ <<y, z>> \in R => <<x, z>> \in R,
         \A x, y \in S : x # y => <<x, y>> \in R \/ <<y, x>> \in R
  PROVE  LET Rank(x) == Cardinality({y \in S : <<y, x>> \in R})
         IN  /\ \A x, y \in S : <<x, y>> \in R => Rank(x) < Rank(y)
             /\ \A x, y \in S : Rank(x) = Rank(y) => x = y
             /\ \A i \in 1 .. Cardinality(S) : \E x \in S : Rank(x) = i - 1
             /\ \A x \in S : Rank(x) \in 0 .. Cardinality(S) - 1
  <1> DEFINE Below(x) == {y \in S : <<y, x>> \in R}
             Rank(x) == Cardinality(Below(x))
             n == Cardinality(S)
             f == [x \in S |-> Rank(x)]
  <1>1. \A x \in S : Below(x) \in SUBSET S /\ x \in S /\ x \notin Below(x)
    OBVIOUS
  <1>2. n \in Nat
    BY FS_CardinalityType
  <1>3. \A x \in S : IsFiniteSet(Below(x)) /\ Rank(x) \in Nat
    BY <1>1, FS_Subset, FS_CardinalityType
  <1>4. ASSUME NEW x \in S PROVE Rank(x) <= n - 1
    <2>1. Rank(x) <= n /\ (n = Rank(x) => S = Below(x))
      BY <1>1, FS_Subset
    <2> HIDE DEF n, Rank, Below
    <2>2. Rank(x) # n
      BY <1>1, <2>1
    <2>3. Rank(x) \in Nat
      BY <1>3
    <2> QED
      BY <1>2, <2>1, <2>2, <2>3
  <1>5. ASSUME NEW x \in S, NEW y \in S, <<x, y>> \in R PROVE Rank(x) < Rank(y)
    <2>1. Below(x) \in SUBSET Below(y) /\ x \in Below(y) /\ x \notin Below(x)
      BY <1>5
    <2>2. Rank(x) <= Rank(y) /\ (Rank(y) = Rank(x) => Below(y) = Below(x))
      BY <1>3, <2>1, FS_Subset
    <2>3. Rank(x) \in Nat /\ Rank(y) \in Nat
      BY <1>3
    <2> HIDE DEF Rank, Below
    <2>4. Rank(x) # Rank(y)
      BY <2>1, <2>2
    <2> QED
      BY <2>2, <2>3, <2>4
  <1> HIDE DEF Rank, n, Below
  <1>6. ASSUME NEW x \in S, NEW y \in S, Rank(x) = Rank(y) PROVE x = y
    <2>1. Rank(x) \in Nat
      BY <1>3
    <2>2. <<x, y>> \notin R /\ <<y, x>> \notin R
      BY <1>5, <1>6, <2>1
    <2> QED
      BY <2>2
  <1>7. f \in Injection(S, 0 .. n - 1)
    <2>1. \A x \in S : Rank(x) \in 0 .. n - 1
      BY <1>2, <1>3, <1>4
    <2>2. f \in [S -> 0 .. n - 1]
      BY <2>1
    <2>3. \A x, y \in S : f[x] = f[y] => x = y
      BY <1>6
    <2> QED
      BY <2>2, <2>3, Fun_IsInj
  <1>8. IsFiniteSet(0 .. n - 1) /\ Cardinality(0 .. n - 1) = n
    <2>1. 0 \in Int /\ n - 1 \in Int /\ (0 > n - 1 => n = 0) /\ (n - 1) - 0 + 1 = n
      BY <1>2
    <2> QED
      BY <2>1, FS_Interval
  <1>9. f \in Surjection(S, 0 .. n - 1)
    BY <1>7, <1>8, FS_Injection DEF n
  <1>10. ASSUME NEW i \in 1 .. n PROVE \E x \in S : Rank(x) = i - 1
    <2>1. i - 1 \in 0 .. n - 1
      BY <1>2
    <2>2. PICK x \in S : f[x] = i - 1
      <3> HIDE DEF f
      <3> QED
        BY <1>9, <2>1 DEF Surjection
    <2> QED
      BY <2>2
  <1>11. \A x \in S : Rank(x) \in 0 .. n - 1
    BY <1>2, <1>3, <1>4
  <1> QED
    BY <1>5, <1>6, <1>10, <1>11 DEF Rank, Below, n
=============================================================================
