----------------------------- MODULE Inductions ------------------------------
(***************************************************************************)
(* Induction over the natural numbers, for sets: the library's theorems of *)
(* induction are about operators.  It comes from the one on finite sets    *)
(* that is about relations.                                                *)
(***************************************************************************)
EXTENDS Integers, FiniteSetTheorems, FunctionTheorems, WellFoundedInduction, TLAPS

LEMMA LeastMember ==
  ASSUME NEW T, T \subseteq Nat, T # {}
  PROVE  \E n \in T : \A m \in T : n <= m
<1> DEFINE R == StrictSubsetOrdering(Nat)
           F == FiniteSubsetsOf(Nat)
           C == {1..n : n \in T}
<1>1. IsWellFoundedOn(R, F)
  BY FS_StrictSubsetOrderingWellFounded
<1>2. C \subseteq F /\ C # {}
  <2>1. ASSUME NEW n \in T PROVE 1..n \in F
    <3>1. IsFiniteSet(1..n)
      BY FS_Interval
    <3> QED BY <3>1 DEF FiniteSubsetsOf
  <2> QED BY <2>1
<1>3. \A A, B \in SUBSET Nat : A \subseteq B /\ A # B => <<A, B>> \in R
  BY DEF StrictSubsetOrdering
<1>4. \A n \in T : 1..n \in SUBSET Nat
  OBVIOUS
<1> HIDE DEF R, F
<1>5. PICK s \in C : \A t \in C : ~(<<t, s>> \in R)
  <2> HIDE DEF C
  <2> QED BY <1>1, <1>2, WFMin
<1>6. PICK n \in T : s = 1..n
  OBVIOUS
<1>7. ASSUME NEW m \in T PROVE n <= m
  <2>1. SUFFICES ASSUME m < n PROVE FALSE
    OBVIOUS
  <2>2. 1..m \subseteq 1..n
    BY <2>1
  <2>3. n \in 1..n /\ n \notin 1..m
    BY <2>1
  <2>4. <<1..m, 1..n>> \in R
    BY <1>3, <1>4, <2>2, <2>3
  <2> QED BY <1>5, <1>6, <2>4
<1> QED BY <1>7

LEMMA Induction ==
  ASSUME NEW S, 0 \in S, \A n \in Nat : n \in S => n + 1 \in S
  PROVE  Nat \subseteq S
<1> DEFINE T == Nat \ S
<1>1. SUFFICES ASSUME T # {} PROVE FALSE
  OBVIOUS
<1>2. PICK n \in T : \A m \in T : n <= m
  BY <1>1, LeastMember
<1>3. n # 0 /\ n - 1 \in Nat
  OBVIOUS
<1>4. n - 1 \in S
  BY <1>2, <1>3
<1>5. n - 1 + 1 \in S
  BY <1>3, <1>4
<1> QED BY <1>3, <1>5

(* What is defined step by step, each from the one before it, exists.       *)
\* From S to S, at each of m steps.
MapsInto(G, m, S) == \A i \in 1..m : \A x \in S : G[i][x] \in S

LEMMA Recursion ==
  ASSUME NEW m \in Nat, NEW S, NEW start \in S, NEW G, MapsInto(G, m, S)
  PROVE  \E F \in [0..m -> S] : F[0] = start /\ \A i \in 1..m : F[i] = G[i][F[i - 1]]
<1> USE DEF MapsInto
<1> DEFINE Stage(F, i) == IF i = 0 THEN start ELSE G[i][F[i - 1]]
           T == {n \in Nat : n <= m => \E F \in [0..n -> S] : \A i \in 0..n : F[i] = Stage(F, i)}
<1>1. 0 \in T
  <2> DEFINE F == [i \in 0..0 |-> start]
  <2>1. F \in [0..0 -> S] /\ \A i \in 0..0 : F[i] = Stage(F, i)
    OBVIOUS
  <2> HIDE DEF F, Stage
  <2> QED BY <2>1
<1>2. ASSUME NEW n \in Nat, n \in T PROVE n + 1 \in T
  <2>1. SUFFICES ASSUME n + 1 <= m
                 PROVE  \E F \in [0..(n + 1) -> S] : \A i \in 0..(n + 1) : F[i] = Stage(F, i)
    OBVIOUS
  <2>2. n <= m /\ n + 1 \in 1..m
    BY <2>1
  <2>3. PICK F \in [0..n -> S] : \A i \in 0..n : F[i] = Stage(F, i)
    BY <1>2, <2>2
  <2> DEFINE H == [i \in 0..(n + 1) |-> IF i = n + 1 THEN G[n + 1][F[n]] ELSE F[i]]
  <2>4. H \in [0..(n + 1) -> S]
    <3>1. G[n + 1][F[n]] \in S
      BY <2>2, <2>3
    <3> QED BY <2>3, <3>1
  <2>5. ASSUME NEW i \in 0..(n + 1) PROVE H[i] = Stage(H, i)
    <3>1. CASE i = n + 1
      <4>1. H[i] = G[n + 1][F[n]]
        BY <3>1
      <4>2. n \in 0..(n + 1) /\ n # n + 1 /\ i - 1 = n /\ i # 0
        BY <3>1
      <4>3. H[n] = F[n]
        BY <4>2
      <4> HIDE DEF H
      <4> QED BY <3>1, <4>1, <4>2, <4>3
    <3>2. CASE i # n + 1
      <4>1. i \in 0..n /\ (i # 0 => i - 1 \in 0..(n + 1) /\ i - 1 # n + 1)
        BY <3>2
      <4>2. H[i] = F[i] /\ (i # 0 => H[i - 1] = F[i - 1])
        BY <3>2, <4>1
      <4>3. F[i] = Stage(F, i)
        BY <2>3, <4>1
      <4> HIDE DEF H
      <4> QED BY <4>2, <4>3
    <3> QED BY <3>1, <3>2
  <2> HIDE DEF H, Stage
  <2> QED BY <2>4, <2>5
<1>3. PICK F \in [0..m -> S] : \A i \in 0..m : F[i] = Stage(F, i)
  <2> HIDE DEF T
  <2>1. Nat \subseteq T
    BY <1>1, <1>2, Induction
  <2>2. m \in T /\ m <= m
    BY <2>1
  <2> HIDE DEF Stage
  <2> QED BY <2>2 DEF T
<1>4. 0 \in 0..m /\ \A i \in 1..m : i \in 0..m /\ i # 0
  OBVIOUS
<1> QED BY <1>3, <1>4

(* As many numbers, wherever they are.                                     *)
LEMMA MovedSet ==
  ASSUME NEW a \in Int, NEW b \in Int, NEW T, T \subseteq a..b, NEW d \in Int
  PROVE  /\ IsFiniteSet(T) /\ IsFiniteSet({k + d : k \in T})
         /\ Cardinality({k + d : k \in T}) = Cardinality(T)
<1> DEFINE U == {k + d : k \in T}
           f == [k \in T |-> k + d]
<1>1. IsFiniteSet(T)
  BY FS_Interval, FS_Subset
<1>2. f \in Bijection(T, U)
  <2>1. f \in [T -> U]
    OBVIOUS
  <2>2. \A j, k \in T : f[j] = f[k] => j = k
    OBVIOUS
  <2>3. \A u \in U : \E k \in T : f[k] = u
    OBVIOUS
  <2> QED BY <2>1, <2>2, <2>3, Fun_IsBij
<1>3. ExistsBijection(T, U)
  BY <1>2 DEF ExistsBijection
<1> QED BY <1>1, <1>3, FS_Bijection

(* Those that are in one of two sets that share nothing.                   *)
LEMMA UnionOfTwo ==
  ASSUME NEW S, NEW T, IsFiniteSet(S), IsFiniteSet(T), S \cap T = {}
  PROVE  IsFiniteSet(S \cup T) /\ Cardinality(S \cup T) = Cardinality(S) + Cardinality(T)
<1>1. Cardinality(S \cap T) = 0
  BY FS_EmptySet
<1>2. Cardinality(S) \in Nat /\ Cardinality(T) \in Nat
  BY FS_CardinalityType
<1>3. /\ IsFiniteSet(S \cup T)
      /\ Cardinality(S \cup T) = Cardinality(S) + Cardinality(T) - Cardinality(S \cap T)
  BY FS_Union
<1> QED BY <1>1, <1>2, <1>3
=============================================================================
