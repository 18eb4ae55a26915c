----------------------------- MODULE FiniteFacts -----------------------------
(***************************************************************************)
(* Facts about finite sets of numbers that the proofs of several           *)
(* components need: extrema, images, and the page of a feed that is cut    *)
(* after a number of rows.                                                 *)
(***************************************************************************)
EXTENDS Naturals, FiniteSets, FiniteSetsExt, FiniteSetTheorems, TLAPS

\* A finite, nonempty set has a member at which f is greatest: one for which
\* the set of members above it is least.
LEMMA GreatestExists ==
  ASSUME NEW T, IsFiniteSet(T), T # {}, NEW f, \A i \in T : f[i] \in Nat
  PROVE  \E i \in T : \A j \in T : f[j] <= f[i]
<1> DEFINE Above(i) == {j \in T : f[j] > f[i]}
           A == {Above(i) : i \in T}
<1>1. A \subseteq FiniteSubsetsOf(T) /\ A # {}
  <2>1. \A i \in T : Above(i) \in SUBSET T /\ IsFiniteSet(Above(i))
    BY FS_Subset
  <2>. QED
    BY <2>1 DEF FiniteSubsetsOf
<1>2. PICK X \in A : \A Y \in A : ~(<<Y, X>> \in StrictSubsetOrdering(T))
  <2> HIDE DEF A
  <2>. QED
    BY <1>1, FS_StrictSubsetOrderingWellFounded, WFMin
<1>3. PICK i \in T : X = Above(i)
  OBVIOUS
<1>4. SUFFICES ASSUME NEW j \in T, f[j] > f[i] PROVE FALSE
  BY <1>3
<1>5. Above(j) \subseteq Above(i) /\ j \in Above(i) /\ j \notin Above(j)
  BY <1>4
<1>6. <<Above(j), X>> \in StrictSubsetOrdering(T)
  BY <1>3, <1>5 DEF StrictSubsetOrdering
<1>. QED
  BY <1>2, <1>6

\* Max picks the greatest member when there is one.
LEMMA MaxIsGreatest ==
  ASSUME NEW S, S \subseteq Nat, NEW m \in S, \A x \in S : x <= m
  PROVE  Max(S) = m
<1>1. \A x \in S : m >= x
  OBVIOUS
<1>2. \A x \in S : x >= m => x = m
  OBVIOUS
<1>. QED
  BY <1>1, <1>2 DEF Max

\* A finite, nonempty set of numbers has the maximum that Max names.
LEMMA MaxOfFinite ==
  ASSUME NEW S, S \subseteq Nat, IsFiniteSet(S), S # {}
  PROVE  Max(S) \in S /\ \A x \in S : x <= Max(S)
<1> DEFINE f == [x \in S |-> x]
<1>1. \A x \in S : f[x] = x /\ f[x] \in Nat
  OBVIOUS
<1>2. PICK m \in S : \A x \in S : f[x] <= f[m]
  <2> HIDE DEF f
  <2>. QED
    BY <1>1, GreatestExists
<1>3. \A x \in S : x <= m
  BY <1>1, <1>2
<1>. QED
  BY <1>3, MaxIsGreatest

\* The same for the minimum; the queue of a sync is worked off by it.
LEMMA MinOfFinite ==
  ASSUME NEW S, S \subseteq Nat, IsFiniteSet(S), S # {}
  PROVE  Min(S) \in S /\ \A x \in S : Min(S) <= x
<1>1. PICK top \in S : \A x \in S : x <= top
  BY MaxOfFinite
<1> DEFINE f == [x \in S |-> top - x]
<1>2. \A x \in S : f[x] = top - x /\ f[x] \in Nat
  BY <1>1
<1>3. PICK m \in S : \A x \in S : f[x] <= f[m]
  <2> HIDE DEF f
  <2>. QED
    BY <1>2, GreatestExists
<1>4. \A x \in S : m <= x
  BY <1>2, <1>3
<1>5. \A y \in S : (\A x \in S : y <= x) => y = m
  BY <1>4
<1>. QED
  BY <1>4, <1>5 DEF Min

(***************************************************************************)
(* Induction as a fact about a set of numbers: what holds of 0, and with a *)
(* number of the next, holds of every number up to n. A number it did not  *)
(* hold of would have a least one. With it a recursive function is shown   *)
(* to satisfy its equation, and its values to be what they should.         *)
(***************************************************************************)
LEMMA StepByStep ==
  ASSUME NEW n \in Nat, NEW T, 0 \in T, \A k \in Nat : k < n /\ k \in T => k + 1 \in T
  PROVE  \A k \in 0 .. n : k \in T
<1> DEFINE Gap == (0 .. n) \ T
<1>1. SUFFICES ASSUME Gap # {} PROVE FALSE
  OBVIOUS
<1>2. IsFiniteSet(Gap) /\ Gap \subseteq Nat
  <2>1. IsFiniteSet(0 .. n) /\ Gap \subseteq 0 .. n
    BY FS_Interval
  <2>. QED
    BY <2>1, FS_Subset
<1>3. PICK m \in Gap : \A x \in Gap : m <= x
  <2> HIDE DEF Gap
  <2>. QED
    BY <1>1, <1>2, MinOfFinite
<1>4. m # 0 /\ m \in Nat /\ m - 1 \in Nat /\ m - 1 < n /\ m - 1 \notin Gap
  BY <1>3
<1>5. m - 1 \in T /\ (m - 1) + 1 = m
  BY <1>4
<1>. QED
  BY <1>3, <1>4, <1>5

\* The image of a finite set under a function is no larger.
LEMMA ImageBound ==
  ASSUME NEW S, IsFiniteSet(S), NEW f
  PROVE  /\ IsFiniteSet({f[x] : x \in S})
         /\ Cardinality({f[x] : x \in S}) <= Cardinality(S)
<1> DEFINE T == {f[x] : x \in S}
           g == [x \in S |-> f[x]]
<1>1. g \in Surjection(S, T)
  BY DEF Surjection
<1>2. IsFiniteSet(T) /\ Cardinality(T) <= Cardinality(S)
  <2> HIDE DEF T, g
  <2>. QED
    BY <1>1, FS_Surjection
<1>. QED
  BY <1>2

(***************************************************************************)
(* A page: of the rows A, those that come among the first n by f, where    *)
(* B[i] is what comes up to row i. It holds every row up to its last one,  *)
(* and all of A when A is no larger than n.                                *)
(***************************************************************************)
IsPage(P, A, f, B, n) ==
  /\ IsFiniteSet(A) /\ n \in Nat /\ P \in SUBSET A
  /\ \A i \in A : f[i] \in Nat
  /\ \A i \in A : B[i] \in SUBSET A /\ \A j \in A : j \in B[i] <=> f[j] <= f[i]
  /\ \A i \in A : i \in P <=> Cardinality(B[i]) <= n

LEMMA PageIsPrefix ==
  ASSUME NEW P, NEW A, NEW f, NEW B, NEW n, IsPage(P, A, f, B, n)
  PROVE  /\ P # {} => \E j \in P : /\ \A i \in P : f[i] <= f[j]
                                   /\ \A i \in A : f[i] <= f[j] => i \in P
         /\ ~(Cardinality(A) > n) => P = A
<1> USE DEF IsPage
<1>1. \A k \in A : /\ IsFiniteSet(B[k]) /\ Cardinality(B[k]) \in Nat
                   /\ Cardinality(B[k]) <= Cardinality(A)
  BY FS_Subset, FS_CardinalityType
<1>2. IsFiniteSet(P)
  BY FS_Subset
<1>3. ASSUME ~(Cardinality(A) > n) PROVE P = A
  BY <1>1, <1>3, FS_CardinalityType
<1>4. ASSUME P # {}
      PROVE  \E j \in P : /\ \A i \in P : f[i] <= f[j]
                          /\ \A i \in A : f[i] <= f[j] => i \in P
  <2>1. PICK j \in P : \A i \in P : f[i] <= f[j]
    BY <1>2, <1>4, GreatestExists
  <2>2. ASSUME NEW i \in A, f[i] <= f[j] PROVE i \in P
    <3>1. B[i] \subseteq B[j] /\ j \in A
      BY <2>2
    <3>2. Cardinality(B[i]) <= Cardinality(B[j])
      BY <1>1, <3>1, FS_Subset
    <3>. QED
      BY <1>1, <3>1, <3>2
  <2>. QED
    BY <2>1, <2>2
<1>. QED
  BY <1>3, <1>4
=============================================================================
