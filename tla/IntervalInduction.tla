-------------------------- MODULE IntervalInduction --------------------------
(***************************************************************************)
(* Induction over the numbers 0 .. N, as a statement about a set of them:  *)
(* a set that has 0, and with each number but N the next one, is all of    *)
(* 0 .. N.  It rests on the theorems about finite sets.  With it come the  *)
(* least and greatest elements of sets of numbers, which the folds of the  *)
(* models go by.                                                           *)
(***************************************************************************)
EXTENDS Integers, FiniteSetsExt, FiniteSetTheorems, TLAPS

\* A set of natural numbers has a least one: of the intervals from 0 to its
\* elements one is contained in all others.
LEMMA LeastNatural ==
  ASSUME NEW S \in SUBSET Nat, S # {}
  PROVE  \E n \in S : \A m \in S : n <= m
<1> DEFINE intervals == {0 .. n : n \in S}
<1>1. intervals \subseteq FiniteSubsetsOf(Nat)
  <2> SUFFICES ASSUME NEW n \in S  PROVE 0 .. n \in FiniteSubsetsOf(Nat)
    OBVIOUS
  <2>1. IsFiniteSet(0 .. n) /\ 0 .. n \subseteq Nat
    BY FS_Interval
  <2> QED  BY <2>1 DEF FiniteSubsetsOf
<1>2. intervals # {}
  OBVIOUS
<1>3. IsWellFoundedOn(StrictSubsetOrdering(Nat), FiniteSubsetsOf(Nat))
  BY FS_StrictSubsetOrderingWellFounded
<1> HIDE DEF intervals
<1>4. PICK X \in intervals :
        \A Y \in intervals : ~ (<<Y, X>> \in StrictSubsetOrdering(Nat))
  BY <1>1, <1>2, <1>3, WFMin
<1>5. PICK n \in S : X = 0 .. n
  BY DEF intervals
<1>6. ASSUME NEW m \in S, m < n  PROVE FALSE
  <2>1. 0 .. m \in intervals
    BY DEF intervals
  <2>2. 0 .. m \subseteq 0 .. n /\ n \in 0 .. n /\ n \notin 0 .. m
    BY <1>6
  <2>3. <<0 .. m, 0 .. n>> \in StrictSubsetOrdering(Nat)
    BY <2>2 DEF StrictSubsetOrdering
  <2> QED  BY <2>1, <2>3, <1>4, <1>5
<1> QED  BY <1>6

LEMMA Induction ==
  ASSUME NEW N \in Nat, NEW good \in SUBSET (0 .. N), 0 \in good,
         \A n \in 0 .. N - 1 : n \in good => n + 1 \in good
  PROVE  good = 0 .. N
<1> DEFINE bad == (0 .. N) \ good
<1> SUFFICES ASSUME bad # {}  PROVE FALSE
  OBVIOUS
<1>1. bad \in SUBSET Nat
  OBVIOUS
<1>2. PICK n \in bad : \A m \in bad : n <= m
  BY <1>1, LeastNatural
<1>3. n - 1 \in 0 .. N - 1 /\ n - 1 \notin bad
  BY <1>2
<1> QED  BY <1>3

\* Min and Max of a set, if its least or greatest element is known.
LEMMA MinIs ==
  ASSUME NEW S \in SUBSET Int, NEW m \in S, \A n \in S : m <= n
  PROVE  Min(S) = m
<1>1. Min(S) \in S /\ \A n \in S : Min(S) <= n
  BY DEF Min
<1>2. Min(S) \in Int /\ m \in Int /\ Min(S) <= m /\ m <= Min(S)
  BY <1>1
<1> QED  BY <1>2

LEMMA MaxIs ==
  ASSUME NEW S \in SUBSET Int, NEW m \in S, \A n \in S : n <= m
  PROVE  Max(S) = m
<1>1. Max(S) \in S /\ \A n \in S : n <= Max(S)
  BY DEF Max
<1>2. Max(S) \in Int /\ m \in Int /\ Max(S) <= m /\ m <= Max(S)
  BY <1>1
<1> QED  BY <1>2

LEMMA LastOf ==
  ASSUME NEW n \in Nat \ {0}
  PROVE  Max(1 .. n) = n /\ (1 .. n) \ {n} = 1 .. n - 1 /\ 1 .. n # {}
<1>1. 1 .. n \in SUBSET Int /\ n \in 1 .. n /\ \A m \in 1 .. n : m <= n
  OBVIOUS
<1>2. Max(1 .. n) = n
  BY <1>1, MaxIs
<1>3. \A m \in Int : m \in (1 .. n) \ {n} <=> m \in 1 .. n - 1
  OBVIOUS
<1>4. (1 .. n) \ {n} \in SUBSET Int /\ 1 .. n - 1 \in SUBSET Int
  OBVIOUS
<1>5. (1 .. n) \ {n} = 1 .. n - 1
  BY <1>3, <1>4, Zenon
<1> QED  BY <1>1, <1>2, <1>5

LEMMA MinOf ==
  ASSUME NEW S \in SUBSET Nat, S # {}
  PROVE  Min(S) \in S /\ \A n \in S : Min(S) <= n
BY LeastNatural DEF Min

\* A non-empty set of numbers up to N has a greatest one: the one that is the
\* least number below N.
LEMMA MaxOf ==
  ASSUME NEW N \in Nat, NEW S \in SUBSET (1 .. N), S # {}
  PROVE  Max(S) \in S
<1> DEFINE below == {N - n : n \in S}
<1>1. below \in SUBSET Nat /\ below # {}
  <2>1. \A n \in S : N - n \in Nat
    OBVIOUS
  <2>2. below # {}
    OBVIOUS
  <2> QED  BY <2>1, <2>2
<1>2. PICK d \in below : \A e \in below : d <= e
  BY <1>1, LeastNatural
<1>3. PICK m \in S : d = N - m
  BY <1>2
<1>4. \A n \in S : n <= m
  BY <1>2, <1>3
<1> QED  BY <1>4 DEF Max
=============================================================================
