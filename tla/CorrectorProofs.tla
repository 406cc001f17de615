--------------------------- MODULE CorrectorProofs ----------------------------
(***************************************************************************)
(* The code of RDS blocks: what a block that is said to be valid or        *)
(* corrected holds, for all information bits and all bursts of errors.     *)
(*                                                                         *)
(* Words are polynomials over the integers modulo 2: Sum adds them, Up     *)
(* multiplies them by a power of x, and Modulo is the remainder after the  *)
(* division by the generator.  It is additive, and to multiply a word by x *)
(* is one Step of its remainder, which no other remainder becomes.  So a   *)
(* burst of no more bits than the remainder has is never divisible, and of *)
(* two short bursts the sum is not, unless they are the same.              *)
(***************************************************************************)
EXTENDS RdsCorrector, Inductions

-----------------------------------------------------------------------------
(* Sums.                                                                   *)
Up(w, k) == {i + k : i \in w}
Rests == SUBSET (0..(ParityBits - 1))
InfoWords == SUBSET (0..(InfoBits - 1))

LEMMA SumIs == \A a, b, x : x \in Sum(a, b) <=> ~(x \in a <=> x \in b)
BY DEF Sum, Ext!SymDiff

LEMMA Sums ==
  ASSUME NEW a, NEW b, NEW c
  PROVE  /\ Sum(a, b) = Sum(b, a) /\ Sum(a, Sum(b, c)) = Sum(Sum(a, b), c)
         /\ Sum(a, a) = {} /\ Sum(a, {}) = a /\ Sum({}, a) = a
         /\ Sum(a, b) = {} => a = b
         /\ Sum(Sum(a, b), b) = a
<1>1. Sum(a, b) = Sum(b, a)
  <2>1. \A x : x \in Sum(a, b) <=> x \in Sum(b, a)
    BY SumIs
  <2> QED BY <2>1
<1>2. Sum(a, Sum(b, c)) = Sum(Sum(a, b), c)
  <2>1. \A x : x \in Sum(a, Sum(b, c)) <=> x \in Sum(Sum(a, b), c)
    <3> TAKE x
    <3>1. /\ x \in Sum(a, Sum(b, c)) <=> ~(x \in a <=> x \in Sum(b, c))
          /\ x \in Sum(Sum(a, b), c) <=> ~(x \in Sum(a, b) <=> x \in c)
          /\ x \in Sum(a, b) <=> ~(x \in a <=> x \in b)
          /\ x \in Sum(b, c) <=> ~(x \in b <=> x \in c)
      BY SumIs
    <3> QED BY <3>1
  <2> QED BY <2>1
<1>3. Sum(a, a) = {} /\ Sum(a, {}) = a /\ Sum({}, a) = a
  BY SumIs
<1>4. Sum(a, b) = {} => a = b
  BY SumIs
<1>5. Sum(Sum(a, b), b) = a
  BY SumIs
<1> QED BY <1>1, <1>2, <1>3, <1>4, <1>5

LEMMA SumSelf == \A a : Sum(a, a) = {} /\ Sum(a, {}) = a /\ Sum({}, a) = a
BY Sums

LEMMA SumTwo == \A a, b : Sum(a, b) = Sum(b, a) /\ (Sum(a, b) = {} => a = b) /\ Sum(Sum(a, b), b) = a
BY Sums

LEMMA SumIn ==
  ASSUME NEW S, NEW a \in SUBSET S, NEW b \in SUBSET S
  PROVE  Sum(a, b) \in SUBSET S
BY SumIs

\* In the n + 1 bits from the bit lo on.
Span(w, lo, n) == w \in SUBSET (lo..(lo + n))

LEMMA Moving ==
  ASSUME NEW w, NEW lo \in Int, NEW n \in Int, Span(w, lo, n), NEW k \in Int
  PROVE  /\ Span(Up(w, k), lo + k, n)
         /\ Up(w, k) = {} <=> w = {}
         /\ \A j \in Int : Up(Up(w, k), j) = Up(w, k + j)
         /\ Up(w, 0) = w
<1>1. \A x \in w : x \in Int /\ lo <= x /\ x <= lo + n
  BY DEF Span
<1>2. Span(Up(w, k), lo + k, n)
  <2>1. ASSUME NEW x \in Up(w, k) PROVE x \in (lo + k)..((lo + k) + n)
    <3>1. PICK y \in w : x = y + k
      BY DEF Up
    <3> QED BY <1>1, <3>1
  <2> QED BY <2>1 DEF Span
<1>3. Up(w, k) = {} <=> w = {}
  BY DEF Up
<1>4. ASSUME NEW j \in Int PROVE Up(Up(w, k), j) = Up(w, k + j)
  <2>1. \A y \in w : (y + k) + j = y + (k + j)
    BY <1>1
  <2>2. \A x : x \in Up(Up(w, k), j) <=> \E y \in w : x = (y + k) + j
    BY DEF Up
  <2>3. \A x : x \in Up(w, k + j) <=> \E y \in w : x = y + (k + j)
    BY DEF Up
  <2>4. \A x : x \in Up(Up(w, k), j) <=> x \in Up(w, k + j)
    BY <2>1, <2>2, <2>3
  <2> QED BY <2>4
<1>5. Up(w, 0) = w
  <2>1. \A y \in w : y + 0 = y
    BY <1>1
  <2>2. \A x : x \in Up(w, 0) <=> \E y \in w : x = y + 0
    BY DEF Up
  <2>3. \A x : x \in Up(w, 0) <=> x \in w
    BY <2>1, <2>2
  <2> QED BY <2>3
<1> QED BY <1>2, <1>3, <1>4, <1>5

-----------------------------------------------------------------------------
(* One step of the division.                                               *)
LEMMA StepIs ==
  ASSUME NEW r \in Rests, NEW t \in SUBSET (0..ParityBits)
  PROVE  /\ Step(r, t) \in Rests
         /\ \A x \in Int : x \in Step(r, t) <=>
              ~(~(x - 1 \in r <=> x \in t) <=> (x \in Generator /\ ~(9 \in r <=> 10 \in t)))
<1> DEFINE u == {i + 1 : i \in r}
           sum == Sum(u, t)
<1>1. u \subseteq 1..10 /\ \A x \in Int : x \in u <=> x - 1 \in r
  BY DEF Rests, ParityBits
<1>2. \A x : x \in sum <=> ~(x \in u <=> x \in t)
  BY SumIs
<1>3. sum \subseteq 0..10 /\ \A x \in Int : x \in sum <=> ~(x - 1 \in r <=> x \in t)
  <2> HIDE DEF u, sum
  <2>1. ASSUME NEW x \in sum PROVE x \in 0..10
    <3>1. x \in u \/ x \in t
      BY <1>2, <2>1
    <3>2. CASE x \in u
      <4>1. x \in 1..10
        BY <1>1, <3>2
      <4> QED BY <4>1
    <3>3. CASE x \in t
      BY <3>3 DEF ParityBits
    <3> QED BY <3>1, <3>2, <3>3
  <2>2. \A x \in Int : x \in sum <=> ~(x - 1 \in r <=> x \in t)
    BY <1>1, <1>2
  <2> QED BY <2>1, <2>2
<1>4. Step(r, t) = IF 10 \in sum THEN Sum(sum, Generator) ELSE sum
  BY DEF Step, ParityBits
<1> HIDE DEF sum
<1>5. 10 \in sum <=> ~(9 \in r <=> 10 \in t)
  <2>1. 10 - 1 = 9
    OBVIOUS
  <2> QED BY <1>3, <2>1
<1>6. 10 \in Generator /\ Generator \subseteq 0..10
  BY DEF Generator
<1>7. \A x : x \in Step(r, t) <=> ~(x \in sum <=> (x \in Generator /\ 10 \in sum))
  <2>1. CASE 10 \in sum
    BY <1>4, <2>1, SumIs
  <2>2. CASE 10 \notin sum
    BY <1>4, <2>2
  <2> QED BY <2>1, <2>2
<1>8. Step(r, t) \subseteq 0..9
  <2> SUFFICES ASSUME NEW x \in Step(r, t) PROVE x \in 0..9
    OBVIOUS
  <2>1. x # 10
    BY <1>6, <1>7
  <2>2. x \in 0..10
    BY <1>3, <1>6, <1>7
  <2> QED BY <2>1, <2>2
<1>9. Step(r, t) \in Rests
  BY <1>8 DEF Rests, ParityBits
<1>10. \A x \in Int : x \in Step(r, t) <=>
         ~(~(x - 1 \in r <=> x \in t) <=> (x \in Generator /\ ~(9 \in r <=> 10 \in t)))
  BY <1>3, <1>5, <1>7
<1> QED BY <1>9, <1>10

LEMMA StepSum ==
  ASSUME NEW r \in Rests, NEW t \in SUBSET (0..ParityBits), NEW q \in Rests, NEW u \in SUBSET (0..ParityBits)
  PROVE  Step(Sum(r, q), Sum(t, u)) = Sum(Step(r, t), Step(q, u))
<1>1. Sum(r, q) \in Rests /\ Sum(t, u) \in SUBSET (0..ParityBits)
  BY SumIn DEF Rests
<1>0. Rests \subseteq SUBSET Int
  BY DEF Rests
<1>2. Step(Sum(r, q), Sum(t, u)) \in SUBSET Int /\ Sum(Step(r, t), Step(q, u)) \in SUBSET Int
  <2>1. Step(Sum(r, q), Sum(t, u)) \in Rests /\ Step(r, t) \in Rests /\ Step(q, u) \in Rests
    BY <1>1, StepIs
  <2>2. Step(Sum(r, q), Sum(t, u)) \in SUBSET Int /\ Step(r, t) \in SUBSET Int /\ Step(q, u) \in SUBSET Int
    BY <1>0, <2>1
  <2> QED BY <2>2, SumIn
<1>3. ASSUME NEW x \in Int
      PROVE  x \in Step(Sum(r, q), Sum(t, u)) <=> x \in Sum(Step(r, t), Step(q, u))
  <2>1. x \in Step(Sum(r, q), Sum(t, u)) <=>
          ~(~(x - 1 \in Sum(r, q) <=> x \in Sum(t, u)) <=> (x \in Generator /\ ~(9 \in Sum(r, q) <=> 10 \in Sum(t, u))))
    BY <1>1, StepIs
  <2>2. x \in Step(r, t) <=> ~(~(x - 1 \in r <=> x \in t) <=> (x \in Generator /\ ~(9 \in r <=> 10 \in t)))
    BY StepIs
  <2>3. x \in Step(q, u) <=> ~(~(x - 1 \in q <=> x \in u) <=> (x \in Generator /\ ~(9 \in q <=> 10 \in u)))
    BY StepIs
  <2> QED BY <2>1, <2>2, <2>3, SumIs
<1>4. \A x : x \in Step(Sum(r, q), Sum(t, u)) <=> x \in Sum(Step(r, t), Step(q, u))
  BY <1>2, <1>3
<1> QED BY <1>4

(* A remainder goes round; no other becomes nothing.                       *)
LEMMA Turning ==
  ASSUME NEW r \in Rests
  PROVE  /\ Step(r, {}) \in Rests
         /\ \A x \in Int : x \in Step(r, {}) <=> ~(x - 1 \in r <=> (x \in Generator /\ 9 \in r))
         /\ Step(r, {}) = {} => r = {}
<1>1. {} \in SUBSET (0..ParityBits)
  OBVIOUS
<1>2. Step(r, {}) \in Rests
      /\ \A x \in Int : x \in Step(r, {}) <=> ~(x - 1 \in r <=> (x \in Generator /\ 9 \in r))
  BY <1>1, StepIs
<1>3. ASSUME Step(r, {}) = {} PROVE r = {}
  <2>1. \A x \in Int : x - 1 \in r <=> (x \in Generator /\ 9 \in r)
    BY <1>2, <1>3
  <2>2. 9 \notin r
    <3>1. 0 - 1 \notin r /\ 0 \in Generator
      BY DEF Rests, ParityBits, Generator
    <3> QED BY <2>1, <3>1
  <2>3. \A i \in r : i \in Int /\ i + 1 \in Int /\ (i + 1) - 1 = i
    BY DEF Rests, ParityBits
  <2> QED BY <2>1, <2>2, <2>3
<1> QED BY <1>2, <1>3

-----------------------------------------------------------------------------
(* Many steps.                                                             *)
Turn(r) == Step(r, {})

Turned(r) ==
  LET turned[i \in 0..CodeBits] == IF i = 0 THEN r ELSE Turn(turned[i - 1])
  IN turned

LEMMA TurnSum ==
  ASSUME NEW r \in Rests, NEW q \in Rests
  PROVE  Turn(r) \in Rests /\ Turn(Sum(r, q)) = Sum(Turn(r), Turn(q))
<1>1. Sum({}, {}) = {} /\ {} \in SUBSET (0..ParityBits)
  BY Sums
<1>2. Step(Sum(r, q), Sum({}, {})) = Sum(Step(r, {}), Step(q, {}))
  BY <1>1, StepSum
<1>3. Step(r, {}) \in Rests
  BY Turning
<1> QED BY <1>1, <1>2, <1>3 DEF Turn

LEMMA StepTurns ==
  ASSUME NEW r \in Rests, NEW t \in Rests
  PROVE  Step(r, t) = Sum(Turn(r), t)
<1>1. t \in SUBSET (0..ParityBits) /\ 10 \notin t /\ t \in SUBSET Int
  BY DEF Rests, ParityBits
<1>2. Step(r, t) \in Rests /\ Turn(r) \in Rests
  BY <1>1, StepIs, TurnSum
<1>3. \A x \in Int : x \in Step(r, t) <=> ~(~(x - 1 \in r <=> x \in t) <=> (x \in Generator /\ ~(9 \in r <=> 10 \in t)))
  BY <1>1, StepIs
<1>4. \A x \in Int : x \in Turn(r) <=> ~(x - 1 \in r <=> (x \in Generator /\ 9 \in r))
  BY Turning DEF Turn
<1>5. \A x \in Int : x \in Step(r, t) <=> x \in Sum(Turn(r), t)
  BY <1>1, <1>3, <1>4, SumIs
<1>6. Step(r, t) \in SUBSET Int /\ Turn(r) \in SUBSET Int
  BY <1>2 DEF Rests
<1>7. Sum(Turn(r), t) \in SUBSET Int
  BY <1>1, <1>6, SumIn
<1>8. \A x : x \in Step(r, t) <=> x \in Sum(Turn(r), t)
  BY <1>5, <1>6, <1>7
<1> QED BY <1>8

LEMMA TurnedSteps ==
  ASSUME NEW r \in Rests
  PROVE  /\ Turned(r)[0] = r
         /\ \A i \in 1..CodeBits : Turned(r)[i] = Turn(Turned(r)[i - 1])
         /\ \A i \in 0..CodeBits : Turned(r)[i] \in Rests
<1> DEFINE G == [i \in 1..CodeBits |-> [q \in Rests |-> Turn(q)]]
           S == Rests
<1>0. CodeBits \in Nat
  BY DEF CodeBits, InfoBits, ParityBits
<1>1. \A i \in 1..CodeBits, q \in S : G[i][q] = Turn(q) /\ G[i][q] \in S
  BY TurnSum
<1>2. r \in S
  OBVIOUS
<1> HIDE DEF G, S
<1>3. PICK F \in [0..CodeBits -> S] :
        F[0] = r /\ \A i \in 1..CodeBits : F[i] = G[i][F[i - 1]]
  <2>1. MapsInto(G, CodeBits, S)
    BY <1>1 DEF MapsInto
  <2> QED BY <1>0, <1>2, <2>1, Recursion
<1>4. F = [i \in 0..CodeBits |-> IF i = 0 THEN r ELSE Turn(F[i - 1])]
  <2> DEFINE D(i) == IF i = 0 THEN r ELSE Turn(F[i - 1])
  <2>1. ASSUME NEW i \in 0..CodeBits PROVE F[i] = D(i)
    <3>1. CASE i = 0
      BY <1>3, <3>1
    <3>2. CASE i # 0
      <4>1. i \in 1..CodeBits /\ i - 1 \in 0..CodeBits
        BY <1>0, <3>2
      <4> QED BY <1>1, <1>3, <3>2, <4>1
    <3> QED BY <3>1, <3>2
  <2>2. F = [i \in 0..CodeBits |-> F[i]]
    BY <1>3
  <2> HIDE DEF D
  <2>3. F = [i \in 0..CodeBits |-> D(i)]
    BY <2>1, <2>2
  <2> QED BY <2>3 DEF D
<1>5. Turned(r) = CHOOSE f : f = [i \in 0..CodeBits |-> IF i = 0 THEN r ELSE Turn(f[i - 1])]
  BY DEF Turned
<1>6. Turned(r) = [i \in 0..CodeBits |-> IF i = 0 THEN r ELSE Turn(Turned(r)[i - 1])]
  BY <1>4, <1>5
<1>7. \A i \in 1..CodeBits : i \in 0..CodeBits /\ i # 0 /\ 0 \in 0..CodeBits
  BY <1>0
<1>8. Turned(r)[0] = r /\ \A i \in 1..CodeBits : Turned(r)[i] = Turn(Turned(r)[i - 1])
  BY <1>0, <1>6, <1>7
<1>9. \A i \in 0..CodeBits : Turned(r)[i] \in S
  <2> DEFINE U == {n \in Nat : n <= CodeBits => Turned(r)[n] \in S}
  <2>1. 0 \in U
    BY <1>2, <1>8
  <2>2. ASSUME NEW n \in Nat, n \in U PROVE n + 1 \in U
    <3>1. SUFFICES ASSUME n + 1 <= CodeBits PROVE Turned(r)[n + 1] \in S
      OBVIOUS
    <3>2. n + 1 \in 1..CodeBits /\ n <= CodeBits /\ (n + 1) - 1 = n
      BY <1>0, <3>1
    <3>3. Turned(r)[n] \in S
      BY <2>2, <3>2
    <3>4. Turned(r)[n + 1] = Turn(Turned(r)[n])
      BY <1>8, <3>2
    <3> QED BY <3>3, <3>4, TurnSum DEF S
  <2> HIDE DEF U
  <2>3. Nat \subseteq U
    BY <2>1, <2>2, Induction
  <2> QED BY <1>0, <2>3 DEF U
<1> QED BY <1>8, <1>9 DEF S

LEMMA TurnedZero ==
  ASSUME NEW r \in Rests, NEW k \in 0..CodeBits
  PROVE  Turned(r)[k] = {} <=> r = {}
<1> DEFINE S == {n \in Nat : n <= CodeBits => (Turned(r)[n] = {} <=> r = {})}
<1>0. CodeBits \in Nat
  BY DEF CodeBits, InfoBits, ParityBits
<1>2. 0 \in S
  BY TurnedSteps
<1>3. ASSUME NEW n \in Nat, n \in S PROVE n + 1 \in S
  <2>1. SUFFICES ASSUME n + 1 <= CodeBits PROVE Turned(r)[n + 1] = {} <=> r = {}
    OBVIOUS
  <2>2. n + 1 \in 1..CodeBits /\ n \in 0..CodeBits /\ (n + 1) - 1 = n
    BY <1>0, <2>1
  <2>3. Turned(r)[n + 1] = Turn(Turned(r)[n]) /\ Turned(r)[n] \in Rests
    BY <2>2, TurnedSteps
  <2>4. Turn({}) = {}
    <3>1. {} \in Rests
      BY DEF Rests
    <3>2. Turn({}) \in Rests /\ \A x \in Int : x \notin Turn({})
      BY <3>1, Turning DEF Turn
    <3> QED BY <3>2 DEF Rests
  <2>5. Turn(Turned(r)[n]) = {} <=> Turned(r)[n] = {}
    BY <2>3, <2>4, Turning DEF Turn
  <2> QED BY <1>3, <2>2, <2>3, <2>5
<1> HIDE DEF S
<1>4. Nat \subseteq S
  BY <1>2, <1>3, Induction
<1> QED BY <1>0, <1>4 DEF S

-----------------------------------------------------------------------------
(* The division, bit by bit.                                               *)
BitTerm(w, bits, t, i) == IF bits - i \in w THEN t ELSE {}

LEMMA DivisionSteps ==
  ASSUME NEW w, NEW bits \in Nat, NEW t \in SUBSET (0..ParityBits)
  PROVE  /\ Division(w, bits, t)[0] = {}
         /\ \A i \in 1..bits : Division(w, bits, t)[i] =
              Step(Division(w, bits, t)[i - 1], BitTerm(w, bits, t, i))
         /\ \A i \in 0..bits : Division(w, bits, t)[i] \in Rests
<1> DEFINE Term(i) == BitTerm(w, bits, t, i)
           G == [i \in 1..bits |-> [q \in Rests |-> Step(q, Term(i))]]
           S == Rests
<1>0. {} \in S /\ \A i : Term(i) \in SUBSET (0..ParityBits)
  BY DEF Rests, BitTerm
<1> HIDE DEF Term
<1>1. \A i \in 1..bits, q \in S : G[i][q] = Step(q, Term(i)) /\ G[i][q] \in S
  BY <1>0, StepIs
<1> HIDE DEF G, S
<1>3. PICK F \in [0..bits -> S] :
        F[0] = {} /\ \A i \in 1..bits : F[i] = G[i][F[i - 1]]
  <2>1. MapsInto(G, bits, S)
    BY <1>1 DEF MapsInto
  <2> QED BY <1>0, <2>1, Recursion
<1>4. F = [i \in 0..bits |-> IF i = 0 THEN {} ELSE Step(F[i - 1], Term(i))]
  <2> DEFINE D(i) == IF i = 0 THEN {} ELSE Step(F[i - 1], Term(i))
  <2>1. ASSUME NEW i \in 0..bits PROVE F[i] = D(i)
    <3>1. CASE i = 0
      BY <1>3, <3>1
    <3>2. CASE i # 0
      <4>1. i \in 1..bits /\ i - 1 \in 0..bits
        BY <3>2
      <4> QED BY <1>1, <1>3, <3>2, <4>1
    <3> QED BY <3>1, <3>2
  <2>2. F = [i \in 0..bits |-> F[i]]
    BY <1>3
  <2> HIDE DEF D
  <2>3. F = [i \in 0..bits |-> D(i)]
    BY <2>1, <2>2
  <2> QED BY <2>3 DEF D
<1>5. Division(w, bits, t) = CHOOSE f : f = [i \in 0..bits |-> IF i = 0 THEN {} ELSE Step(f[i - 1], Term(i))]
  BY DEF Division, BitTerm, Term
<1>6. Division(w, bits, t) = [i \in 0..bits |-> IF i = 0 THEN {} ELSE Step(Division(w, bits, t)[i - 1], Term(i))]
  BY <1>4, <1>5
<1>7. 0 \in 0..bits /\ \A i \in 1..bits : i \in 0..bits /\ i # 0
  OBVIOUS
<1>8. Division(w, bits, t)[0] = {}
      /\ \A i \in 1..bits : Division(w, bits, t)[i] = Step(Division(w, bits, t)[i - 1], Term(i))
  <2> DEFINE D == Division(w, bits, t)
             Stage(i) == IF i = 0 THEN {} ELSE Step(D[i - 1], Term(i))
  <2>1. D = [i \in 0..bits |-> Stage(i)]
    BY <1>6
  <2> HIDE DEF D, Stage
  <2>2. \A i \in 0..bits : D[i] = Stage(i)
    BY <2>1
  <2> QED BY <1>7, <2>2 DEF Stage, D
<1>9. \A i \in 0..bits : Division(w, bits, t)[i] \in S
  <2> DEFINE U == {n \in Nat : n <= bits => Division(w, bits, t)[n] \in S}
  <2>1. 0 \in U
    BY <1>0, <1>8
  <2>2. ASSUME NEW n \in Nat, n \in U PROVE n + 1 \in U
    <3>1. SUFFICES ASSUME n + 1 <= bits PROVE Division(w, bits, t)[n + 1] \in S
      OBVIOUS
    <3>2. n + 1 \in 1..bits /\ n <= bits /\ (n + 1) - 1 = n
      BY <3>1
    <3>3. Division(w, bits, t)[n] \in S
      BY <2>2, <3>2
    <3>4. Division(w, bits, t)[n + 1] = Step(Division(w, bits, t)[n], Term(n + 1))
      BY <1>8, <3>2
    <3> QED BY <1>0, <3>3, <3>4, StepIs DEF S
  <2> HIDE DEF U
  <2>3. Nat \subseteq U
    BY <2>1, <2>2, Induction
  <2> QED BY <2>3 DEF U
<1> QED BY <1>8, <1>9 DEF S, Term

(* It is additive.                                                         *)
LEMMA DivisionSum ==
  ASSUME NEW w, NEW v, NEW bits \in Nat, NEW t \in SUBSET (0..ParityBits)
  PROVE  \A i \in 0..bits : Division(Sum(w, v), bits, t)[i] = Sum(Division(w, bits, t)[i], Division(v, bits, t)[i])
<1> DEFINE Both(i) == Division(Sum(w, v), bits, t)[i]
           Of(i) == Division(w, bits, t)[i]
           And(i) == Division(v, bits, t)[i]
           Term(x, i) == BitTerm(x, bits, t, i)
           S == {n \in Nat : n <= bits => Both(n) = Sum(Of(n), And(n))}
<1>1. Both(0) = {} /\ Of(0) = {} /\ And(0) = {}
  BY DivisionSteps
<1>2. \A i \in 1..bits : /\ Both(i) = Step(Both(i - 1), Term(Sum(w, v), i))
                         /\ Of(i) = Step(Of(i - 1), Term(w, i)) /\ And(i) = Step(And(i - 1), Term(v, i))
  BY DivisionSteps
<1>3. \A i \in 0..bits : Of(i) \in Rests /\ And(i) \in Rests
  BY DivisionSteps
<1>4. \A i : /\ Term(w, i) \in SUBSET (0..ParityBits) /\ Term(v, i) \in SUBSET (0..ParityBits)
             /\ Term(Sum(w, v), i) = Sum(Term(w, i), Term(v, i))
  <2> TAKE i
  <2>1. bits - i \in Sum(w, v) <=> ~(bits - i \in w <=> bits - i \in v)
    BY SumIs
  <2>2. Sum(t, t) = {} /\ Sum(t, {}) = t /\ Sum({}, t) = t /\ Sum({}, {}) = {}
    BY Sums
  <2> QED BY <2>1, <2>2 DEF BitTerm
<1> HIDE DEF Both, Of, And, Term
<1>5. 0 \in S
  <2>1. Sum({}, {}) = {}
    BY Sums
  <2> QED BY <1>1, <2>1
<1>6. ASSUME NEW n \in Nat, n \in S PROVE n + 1 \in S
  <2>1. SUFFICES ASSUME n + 1 <= bits PROVE Both(n + 1) = Sum(Of(n + 1), And(n + 1))
    OBVIOUS
  <2>2. n + 1 \in 1..bits /\ n \in 0..bits /\ n <= bits /\ (n + 1) - 1 = n
    BY <2>1
  <2>3. Both(n) = Sum(Of(n), And(n))
    BY <1>6, <2>2
  <2>4. Of(n) \in Rests /\ And(n) \in Rests
    BY <1>3, <2>2
  <2>5. /\ Both(n + 1) = Step(Both(n), Term(Sum(w, v), n + 1))
        /\ Of(n + 1) = Step(Of(n), Term(w, n + 1)) /\ And(n + 1) = Step(And(n), Term(v, n + 1))
    BY <1>2, <2>2
  <2>6. Step(Sum(Of(n), And(n)), Sum(Term(w, n + 1), Term(v, n + 1))) = Sum(Of(n + 1), And(n + 1))
    BY <1>4, <2>4, <2>5, StepSum
  <2> QED BY <1>4, <2>3, <2>5, <2>6
<1> HIDE DEF S
<1>7. Nat \subseteq S
  BY <1>5, <1>6, Induction
<1> QED BY <1>7 DEF S, Both, Of, And

(* A term that is turned turns what is left.                               *)
LEMMA DivisionTurn ==
  ASSUME NEW w, NEW bits \in Nat, NEW t \in Rests
  PROVE  \A i \in 0..bits : Division(w, bits, Turn(t))[i] = Turn(Division(w, bits, t)[i])
<1> DEFINE Before(i) == Division(w, bits, t)[i]
           Then(i) == Division(w, bits, Turn(t))[i]
           Term(x, i) == BitTerm(w, bits, x, i)
           S == {n \in Nat : n <= bits => Then(n) = Turn(Before(n))}
<1>0. /\ t \in SUBSET (0..ParityBits) /\ Turn(t) \in Rests /\ Turn(t) \in SUBSET (0..ParityBits)
      /\ {} \in Rests
  <2>1. \A q \in Rests : q \in SUBSET (0..ParityBits)
    BY DEF Rests, ParityBits
  <2>2. {} \in Rests
    BY DEF Rests
  <2> QED BY <2>1, <2>2, TurnSum
<1>1. Before(0) = {} /\ Then(0) = {}
  BY <1>0, DivisionSteps
<1>2. \A i \in 1..bits : /\ Before(i) = Step(Before(i - 1), Term(t, i))
                         /\ Then(i) = Step(Then(i - 1), Term(Turn(t), i))
  BY <1>0, DivisionSteps
<1>3. \A i \in 0..bits : Before(i) \in Rests
  BY <1>0, DivisionSteps
<1>4. Turn({}) = {}
  <2>1. Sum({}, {}) = {}
    BY Sums
  <2>2. Turn({}) = Sum(Turn({}), Turn({}))
    BY <1>0, <2>1, TurnSum
  <2>3. Sum(Turn({}), Turn({})) = {}
    BY Sums
  <2> QED BY <2>2, <2>3
<1>5. \A i : Term(t, i) \in Rests /\ Term(Turn(t), i) \in Rests /\ Term(Turn(t), i) = Turn(Term(t, i))
  BY <1>0, <1>4 DEF BitTerm
<1> HIDE DEF Before, Then, Term
<1>6. 0 \in S
  BY <1>1, <1>4
<1>7. ASSUME NEW n \in Nat, n \in S PROVE n + 1 \in S
  <2>1. SUFFICES ASSUME n + 1 <= bits PROVE Then(n + 1) = Turn(Before(n + 1))
    OBVIOUS
  <2>2. n + 1 \in 1..bits /\ n \in 0..bits /\ n <= bits /\ (n + 1) - 1 = n
    BY <2>1
  <2>3. Then(n) = Turn(Before(n)) /\ Before(n) \in Rests /\ Turn(Before(n)) \in Rests
    BY <1>3, <1>7, <2>2, TurnSum
  <2>4. Before(n + 1) = Sum(Turn(Before(n)), Term(t, n + 1))
    BY <1>2, <1>5, <2>2, <2>3, StepTurns
  <2>5. Then(n + 1) = Sum(Turn(Turn(Before(n))), Turn(Term(t, n + 1)))
    BY <1>2, <1>5, <2>2, <2>3, StepTurns
  <2>6. Turn(Sum(Turn(Before(n)), Term(t, n + 1))) = Sum(Turn(Turn(Before(n))), Turn(Term(t, n + 1)))
    BY <1>5, <2>3, TurnSum
  <2> QED BY <2>4, <2>5, <2>6
<1> HIDE DEF S
<1>8. Nat \subseteq S
  BY <1>6, <1>7, Induction
<1> QED BY <1>8 DEF S, Before, Then

LEMMA DivisionTurned ==
  ASSUME NEW w, NEW bits \in Nat, NEW t \in Rests
  PROVE  \A k \in 0..CodeBits :
           Division(w, bits, Turned(t)[k])[bits] = Turned(Division(w, bits, t)[bits])[k]
<1> DEFINE S == {n \in Nat : n <= CodeBits =>
                   Division(w, bits, Turned(t)[n])[bits] = Turned(Division(w, bits, t)[bits])[n]}
<1>0. CodeBits \in Nat /\ bits \in 0..bits
  BY DEF CodeBits, InfoBits, ParityBits
<1>1. \A q \in Rests : Division(w, bits, q)[bits] \in Rests
  <2>1. \A q \in Rests : q \in SUBSET (0..ParityBits)
    BY DEF Rests, ParityBits
  <2> QED BY <1>0, <2>1, DivisionSteps
<1>2. 0 \in S
  <2>1. Turned(t)[0] = t /\ Turned(Division(w, bits, t)[bits])[0] = Division(w, bits, t)[bits]
    BY <1>1, TurnedSteps
  <2> QED BY <2>1
<1>3. ASSUME NEW n \in Nat, n \in S PROVE n + 1 \in S
  <2>1. SUFFICES ASSUME n + 1 <= CodeBits
                 PROVE  Division(w, bits, Turned(t)[n + 1])[bits] = Turned(Division(w, bits, t)[bits])[n + 1]
    OBVIOUS
  <2>2. n + 1 \in 1..CodeBits /\ n \in 0..CodeBits /\ n <= CodeBits /\ (n + 1) - 1 = n
    BY <1>0, <2>1
  <2>3. Division(w, bits, Turned(t)[n])[bits] = Turned(Division(w, bits, t)[bits])[n]
    BY <1>3, <2>2
  <2>4. Turned(t)[n] \in Rests /\ Turned(t)[n + 1] = Turn(Turned(t)[n])
    BY <2>2, TurnedSteps
  <2>5. Division(w, bits, Turned(t)[n + 1])[bits] = Turn(Division(w, bits, Turned(t)[n])[bits])
    BY <1>0, <2>4, DivisionTurn
  <2>6. Turned(Division(w, bits, t)[bits])[n + 1] = Turn(Turned(Division(w, bits, t)[bits])[n])
    BY <1>1, <2>2, TurnedSteps
  <2> QED BY <2>3, <2>5, <2>6
<1> HIDE DEF S
<1>4. Nat \subseteq S
  BY <1>2, <1>3, Induction
<1> QED BY <1>0, <1>4 DEF S

-----------------------------------------------------------------------------
(* Remainders in turn.                                                     *)
LEMMA TurnOf ==
  ASSUME NEW r \in Rests, NEW s \in Rests,
         \A x \in 0..9 : x \in s <=> ~(x - 1 \in r <=> (x \in Generator /\ 9 \in r))
  PROVE  Turn(r) = s
<1>1. Turn(r) \in Rests
  BY TurnSum
<1>2. \A x \in Int : x \in Turn(r) <=> ~(x - 1 \in r <=> (x \in Generator /\ 9 \in r))
  BY Turning DEF Turn
<1>3. \A x \in 0..9 : x \in Turn(r) <=> x \in s
  BY <1>2
<1>4. Turn(r) \subseteq 0..9 /\ s \subseteq 0..9
  BY <1>1 DEF Rests, ParityBits
<1> QED BY <1>3, <1>4

(* Poly is what x to the power of -16 leaves.                              *)
LEMMA PolyTurns == Turned({0, 1, 3, 4, 8, 9})[16] = {0}
<1> DEFINE t(i) == Turned({0, 1, 3, 4, 8, 9})[i]
<1>0. {0, 1, 3, 4, 8, 9} \in Rests
  BY DEF Rests, ParityBits
<1>1. t(0) = {0, 1, 3, 4, 8, 9} /\ \A i \in 0..15 : t(i + 1) = Turn(t(i))
  <2>1. \A i \in 0..15 : i + 1 \in 1..CodeBits /\ (i + 1) - 1 = i
    BY DEF CodeBits, InfoBits, ParityBits
  <2> QED BY <1>0, <2>1, TurnedSteps
<1> HIDE DEF t
<1>2. t(1) = {0, 1, 2, 3, 7, 8, 9}
  <2>1. {0, 1, 3, 4, 8, 9} \in Rests /\ {0, 1, 2, 3, 7, 8, 9} \in Rests
    BY DEF Rests, ParityBits
  <2>2. Turn({0, 1, 3, 4, 8, 9}) = {0, 1, 2, 3, 7, 8, 9}
    BY <2>1, TurnOf DEF Generator
  <2>3. 0 + 1 = 1
    OBVIOUS
  <2> QED BY <1>1, <2>2
<1>3. t(2) = {0, 1, 2, 5, 7, 9}
  <2>1. {0, 1, 2, 3, 7, 8, 9} \in Rests /\ {0, 1, 2, 5, 7, 9} \in Rests
    BY DEF Rests, ParityBits
  <2>2. Turn({0, 1, 2, 3, 7, 8, 9}) = {0, 1, 2, 5, 7, 9}
    BY <2>1, TurnOf DEF Generator
  <2> QED BY <1>1, <1>2, <2>2
<1>4. t(3) = {0, 1, 2, 4, 5, 6, 7}
  <2>1. {0, 1, 2, 5, 7, 9} \in Rests /\ {0, 1, 2, 4, 5, 6, 7} \in Rests
    BY DEF Rests, ParityBits
  <2>2. Turn({0, 1, 2, 5, 7, 9}) = {0, 1, 2, 4, 5, 6, 7}
    BY <2>1, TurnOf DEF Generator
  <2> QED BY <1>1, <1>3, <2>2
<1>5. t(4) = {1, 2, 3, 5, 6, 7, 8}
  <2>1. {0, 1, 2, 4, 5, 6, 7} \in Rests /\ {1, 2, 3, 5, 6, 7, 8} \in Rests
    BY DEF Rests, ParityBits
  <2>2. Turn({0, 1, 2, 4, 5, 6, 7}) = {1, 2, 3, 5, 6, 7, 8}
    BY <2>1, TurnOf DEF Generator
  <2> QED BY <1>1, <1>4, <2>2
<1>6. t(5) = {2, 3, 4, 6, 7, 8, 9}
  <2>1. {1, 2, 3, 5, 6, 7, 8} \in Rests /\ {2, 3, 4, 6, 7, 8, 9} \in Rests
    BY DEF Rests, ParityBits
  <2>2. Turn({1, 2, 3, 5, 6, 7, 8}) = {2, 3, 4, 6, 7, 8, 9}
    BY <2>1, TurnOf DEF Generator
  <2> QED BY <1>1, <1>5, <2>2
<1>7. t(6) = {0, 9}
  <2>1. {2, 3, 4, 6, 7, 8, 9} \in Rests /\ {0, 9} \in Rests
    BY DEF Rests, ParityBits
  <2>2. Turn({2, 3, 4, 6, 7, 8, 9}) = {0, 9}
    BY <2>1, TurnOf DEF Generator
  <2> QED BY <1>1, <1>6, <2>2
<1>8. t(7) = {0, 1, 3, 4, 5, 7, 8}
  <2>1. {0, 9} \in Rests /\ {0, 1, 3, 4, 5, 7, 8} \in Rests
    BY DEF Rests, ParityBits
  <2>2. Turn({0, 9}) = {0, 1, 3, 4, 5, 7, 8}
    BY <2>1, TurnOf DEF Generator
  <2> QED BY <1>1, <1>7, <2>2
<1>9. t(8) = {1, 2, 4, 5, 6, 8, 9}
  <2>1. {0, 1, 3, 4, 5, 7, 8} \in Rests /\ {1, 2, 4, 5, 6, 8, 9} \in Rests
    BY DEF Rests, ParityBits
  <2>2. Turn({0, 1, 3, 4, 5, 7, 8}) = {1, 2, 4, 5, 6, 8, 9}
    BY <2>1, TurnOf DEF Generator
  <2> QED BY <1>1, <1>8, <2>2
<1>10. t(9) = {0, 2, 4, 6, 8, 9}
  <2>1. {1, 2, 4, 5, 6, 8, 9} \in Rests /\ {0, 2, 4, 6, 8, 9} \in Rests
    BY DEF Rests, ParityBits
  <2>2. Turn({1, 2, 4, 5, 6, 8, 9}) = {0, 2, 4, 6, 8, 9}
    BY <2>1, TurnOf DEF Generator
  <2> QED BY <1>1, <1>9, <2>2
<1>11. t(10) = {0, 1, 4, 8, 9}
  <2>1. {0, 2, 4, 6, 8, 9} \in Rests /\ {0, 1, 4, 8, 9} \in Rests
    BY DEF Rests, ParityBits
  <2>2. Turn({0, 2, 4, 6, 8, 9}) = {0, 1, 4, 8, 9}
    BY <2>1, TurnOf DEF Generator
  <2> QED BY <1>1, <1>10, <2>2
<1>12. t(11) = {0, 1, 2, 3, 4, 7, 8, 9}
  <2>1. {0, 1, 4, 8, 9} \in Rests /\ {0, 1, 2, 3, 4, 7, 8, 9} \in Rests
    BY DEF Rests, ParityBits
  <2>2. Turn({0, 1, 4, 8, 9}) = {0, 1, 2, 3, 4, 7, 8, 9}
    BY <2>1, TurnOf DEF Generator
  <2> QED BY <1>1, <1>11, <2>2
<1>13. t(12) = {0, 1, 2, 7, 9}
  <2>1. {0, 1, 2, 3, 4, 7, 8, 9} \in Rests /\ {0, 1, 2, 7, 9} \in Rests
    BY DEF Rests, ParityBits
  <2>2. Turn({0, 1, 2, 3, 4, 7, 8, 9}) = {0, 1, 2, 7, 9}
    BY <2>1, TurnOf DEF Generator
  <2> QED BY <1>1, <1>12, <2>2
<1>14. t(13) = {0, 1, 2, 4, 5, 7}
  <2>1. {0, 1, 2, 7, 9} \in Rests /\ {0, 1, 2, 4, 5, 7} \in Rests
    BY DEF Rests, ParityBits
  <2>2. Turn({0, 1, 2, 7, 9}) = {0, 1, 2, 4, 5, 7}
    BY <2>1, TurnOf DEF Generator
  <2> QED BY <1>1, <1>13, <2>2
<1>15. t(14) = {1, 2, 3, 5, 6, 8}
  <2>1. {0, 1, 2, 4, 5, 7} \in Rests /\ {1, 2, 3, 5, 6, 8} \in Rests
    BY DEF Rests, ParityBits
  <2>2. Turn({0, 1, 2, 4, 5, 7}) = {1, 2, 3, 5, 6, 8}
    BY <2>1, TurnOf DEF Generator
  <2> QED BY <1>1, <1>14, <2>2
<1>16. t(15) = {2, 3, 4, 6, 7, 9}
  <2>1. {1, 2, 3, 5, 6, 8} \in Rests /\ {2, 3, 4, 6, 7, 9} \in Rests
    BY DEF Rests, ParityBits
  <2>2. Turn({1, 2, 3, 5, 6, 8}) = {2, 3, 4, 6, 7, 9}
    BY <2>1, TurnOf DEF Generator
  <2> QED BY <1>1, <1>15, <2>2
<1>17. t(16) = {0}
  <2>1. {2, 3, 4, 6, 7, 9} \in Rests /\ {0} \in Rests
    BY DEF Rests, ParityBits
  <2>2. Turn({2, 3, 4, 6, 7, 9}) = {0}
    BY <2>1, TurnOf DEF Generator
  <2> QED BY <1>1, <1>16, <2>2
<1> QED BY <1>17 DEF t

(* What x to the power of 10 leaves.                                       *)
LEMMA OneTurns == Turned({0})[10] = {0, 3, 4, 5, 7, 8}
<1> DEFINE t(i) == Turned({0})[i]
<1>0. {0} \in Rests
  BY DEF Rests, ParityBits
<1>1. t(0) = {0} /\ \A i \in 0..9 : t(i + 1) = Turn(t(i))
  <2>1. \A i \in 0..9 : i + 1 \in 1..CodeBits /\ (i + 1) - 1 = i
    BY DEF CodeBits, InfoBits, ParityBits
  <2> QED BY <1>0, <2>1, TurnedSteps
<1> HIDE DEF t
<1>2. t(1) = {1}
  <2>1. {0} \in Rests /\ {1} \in Rests
    BY DEF Rests, ParityBits
  <2>2. Turn({0}) = {1}
    BY <2>1, TurnOf DEF Generator
  <2>3. 0 + 1 = 1
    OBVIOUS
  <2> QED BY <1>1, <2>2
<1>3. t(2) = {2}
  <2>1. {1} \in Rests /\ {2} \in Rests
    BY DEF Rests, ParityBits
  <2>2. Turn({1}) = {2}
    BY <2>1, TurnOf DEF Generator
  <2> QED BY <1>1, <1>2, <2>2
<1>4. t(3) = {3}
  <2>1. {2} \in Rests /\ {3} \in Rests
    BY DEF Rests, ParityBits
  <2>2. Turn({2}) = {3}
    BY <2>1, TurnOf DEF Generator
  <2> QED BY <1>1, <1>3, <2>2
<1>5. t(4) = {4}
  <2>1. {3} \in Rests /\ {4} \in Rests
    BY DEF Rests, ParityBits
  <2>2. Turn({3}) = {4}
    BY <2>1, TurnOf DEF Generator
  <2> QED BY <1>1, <1>4, <2>2
<1>6. t(5) = {5}
  <2>1. {4} \in Rests /\ {5} \in Rests
    BY DEF Rests, ParityBits
  <2>2. Turn({4}) = {5}
    BY <2>1, TurnOf DEF Generator
  <2> QED BY <1>1, <1>5, <2>2
<1>7. t(6) = {6}
  <2>1. {5} \in Rests /\ {6} \in Rests
    BY DEF Rests, ParityBits
  <2>2. Turn({5}) = {6}
    BY <2>1, TurnOf DEF Generator
  <2> QED BY <1>1, <1>6, <2>2
<1>8. t(7) = {7}
  <2>1. {6} \in Rests /\ {7} \in Rests
    BY DEF Rests, ParityBits
  <2>2. Turn({6}) = {7}
    BY <2>1, TurnOf DEF Generator
  <2> QED BY <1>1, <1>7, <2>2
<1>9. t(8) = {8}
  <2>1. {7} \in Rests /\ {8} \in Rests
    BY DEF Rests, ParityBits
  <2>2. Turn({7}) = {8}
    BY <2>1, TurnOf DEF Generator
  <2> QED BY <1>1, <1>8, <2>2
<1>10. t(9) = {9}
  <2>1. {8} \in Rests /\ {9} \in Rests
    BY DEF Rests, ParityBits
  <2>2. Turn({8}) = {9}
    BY <2>1, TurnOf DEF Generator
  <2> QED BY <1>1, <1>9, <2>2
<1>11. t(10) = {0, 3, 4, 5, 7, 8}
  <2>1. {9} \in Rests /\ {0, 3, 4, 5, 7, 8} \in Rests
    BY DEF Rests, ParityBits
  <2>2. Turn({9}) = {0, 3, 4, 5, 7, 8}
    BY <2>1, TurnOf DEF Generator
  <2> QED BY <1>1, <1>10, <2>2
<1> QED BY <1>11 DEF t

(* The one short burst that makes a version of the third block the other.  *)
LEMMA VersionsTurn == Turned({3, 6, 7})[17] = {3, 4, 5, 9}
<1> DEFINE t(i) == Turned({3, 6, 7})[i]
<1>0. {3, 6, 7} \in Rests
  BY DEF Rests, ParityBits
<1>1. t(0) = {3, 6, 7} /\ \A i \in 0..16 : t(i + 1) = Turn(t(i))
  <2>1. \A i \in 0..16 : i + 1 \in 1..CodeBits /\ (i + 1) - 1 = i
    BY DEF CodeBits, InfoBits, ParityBits
  <2> QED BY <1>0, <2>1, TurnedSteps
<1> HIDE DEF t
<1>2. t(1) = {4, 7, 8}
  <2>1. {3, 6, 7} \in Rests /\ {4, 7, 8} \in Rests
    BY DEF Rests, ParityBits
  <2>2. Turn({3, 6, 7}) = {4, 7, 8}
    BY <2>1, TurnOf DEF Generator
  <2>3. 0 + 1 = 1
    OBVIOUS
  <2> QED BY <1>1, <2>2
<1>3. t(2) = {5, 8, 9}
  <2>1. {4, 7, 8} \in Rests /\ {5, 8, 9} \in Rests
    BY DEF Rests, ParityBits
  <2>2. Turn({4, 7, 8}) = {5, 8, 9}
    BY <2>1, TurnOf DEF Generator
  <2> QED BY <1>1, <1>2, <2>2
<1>4. t(3) = {0, 3, 4, 5, 6, 7, 8, 9}
  <2>1. {5, 8, 9} \in Rests /\ {0, 3, 4, 5, 6, 7, 8, 9} \in Rests
    BY DEF Rests, ParityBits
  <2>2. Turn({5, 8, 9}) = {0, 3, 4, 5, 6, 7, 8, 9}
    BY <2>1, TurnOf DEF Generator
  <2> QED BY <1>1, <1>3, <2>2
<1>5. t(4) = {0, 1, 3, 6, 9}
  <2>1. {0, 3, 4, 5, 6, 7, 8, 9} \in Rests /\ {0, 1, 3, 6, 9} \in Rests
    BY DEF Rests, ParityBits
  <2>2. Turn({0, 3, 4, 5, 6, 7, 8, 9}) = {0, 1, 3, 6, 9}
    BY <2>1, TurnOf DEF Generator
  <2> QED BY <1>1, <1>4, <2>2
<1>6. t(5) = {0, 1, 2, 3, 5, 8}
  <2>1. {0, 1, 3, 6, 9} \in Rests /\ {0, 1, 2, 3, 5, 8} \in Rests
    BY DEF Rests, ParityBits
  <2>2. Turn({0, 1, 3, 6, 9}) = {0, 1, 2, 3, 5, 8}
    BY <2>1, TurnOf DEF Generator
  <2> QED BY <1>1, <1>5, <2>2
<1>7. t(6) = {1, 2, 3, 4, 6, 9}
  <2>1. {0, 1, 2, 3, 5, 8} \in Rests /\ {1, 2, 3, 4, 6, 9} \in Rests
    BY DEF Rests, ParityBits
  <2>2. Turn({0, 1, 2, 3, 5, 8}) = {1, 2, 3, 4, 6, 9}
    BY <2>1, TurnOf DEF Generator
  <2> QED BY <1>1, <1>6, <2>2
<1>8. t(7) = {0, 2, 8}
  <2>1. {1, 2, 3, 4, 6, 9} \in Rests /\ {0, 2, 8} \in Rests
    BY DEF Rests, ParityBits
  <2>2. Turn({1, 2, 3, 4, 6, 9}) = {0, 2, 8}
    BY <2>1, TurnOf DEF Generator
  <2> QED BY <1>1, <1>7, <2>2
<1>9. t(8) = {1, 3, 9}
  <2>1. {0, 2, 8} \in Rests /\ {1, 3, 9} \in Rests
    BY DEF Rests, ParityBits
  <2>2. Turn({0, 2, 8}) = {1, 3, 9}
    BY <2>1, TurnOf DEF Generator
  <2> QED BY <1>1, <1>8, <2>2
<1>10. t(9) = {0, 2, 3, 5, 7, 8}
  <2>1. {1, 3, 9} \in Rests /\ {0, 2, 3, 5, 7, 8} \in Rests
    BY DEF Rests, ParityBits
  <2>2. Turn({1, 3, 9}) = {0, 2, 3, 5, 7, 8}
    BY <2>1, TurnOf DEF Generator
  <2> QED BY <1>1, <1>9, <2>2
<1>11. t(10) = {1, 3, 4, 6, 8, 9}
  <2>1. {0, 2, 3, 5, 7, 8} \in Rests /\ {1, 3, 4, 6, 8, 9} \in Rests
    BY DEF Rests, ParityBits
  <2>2. Turn({0, 2, 3, 5, 7, 8}) = {1, 3, 4, 6, 8, 9}
    BY <2>1, TurnOf DEF Generator
  <2> QED BY <1>1, <1>10, <2>2
<1>12. t(11) = {0, 2, 3, 8, 9}
  <2>1. {1, 3, 4, 6, 8, 9} \in Rests /\ {0, 2, 3, 8, 9} \in Rests
    BY DEF Rests, ParityBits
  <2>2. Turn({1, 3, 4, 6, 8, 9}) = {0, 2, 3, 8, 9}
    BY <2>1, TurnOf DEF Generator
  <2> QED BY <1>1, <1>11, <2>2
<1>13. t(12) = {0, 1, 5, 7, 8, 9}
  <2>1. {0, 2, 3, 8, 9} \in Rests /\ {0, 1, 5, 7, 8, 9} \in Rests
    BY DEF Rests, ParityBits
  <2>2. Turn({0, 2, 3, 8, 9}) = {0, 1, 5, 7, 8, 9}
    BY <2>1, TurnOf DEF Generator
  <2> QED BY <1>1, <1>12, <2>2
<1>14. t(13) = {0, 1, 2, 3, 4, 5, 6, 7, 9}
  <2>1. {0, 1, 5, 7, 8, 9} \in Rests /\ {0, 1, 2, 3, 4, 5, 6, 7, 9} \in Rests
    BY DEF Rests, ParityBits
  <2>2. Turn({0, 1, 5, 7, 8, 9}) = {0, 1, 2, 3, 4, 5, 6, 7, 9}
    BY <2>1, TurnOf DEF Generator
  <2> QED BY <1>1, <1>13, <2>2
<1>15. t(14) = {0, 1, 2, 6}
  <2>1. {0, 1, 2, 3, 4, 5, 6, 7, 9} \in Rests /\ {0, 1, 2, 6} \in Rests
    BY DEF Rests, ParityBits
  <2>2. Turn({0, 1, 2, 3, 4, 5, 6, 7, 9}) = {0, 1, 2, 6}
    BY <2>1, TurnOf DEF Generator
  <2> QED BY <1>1, <1>14, <2>2
<1>16. t(15) = {1, 2, 3, 7}
  <2>1. {0, 1, 2, 6} \in Rests /\ {1, 2, 3, 7} \in Rests
    BY DEF Rests, ParityBits
  <2>2. Turn({0, 1, 2, 6}) = {1, 2, 3, 7}
    BY <2>1, TurnOf DEF Generator
  <2> QED BY <1>1, <1>15, <2>2
<1>17. t(16) = {2, 3, 4, 8}
  <2>1. {1, 2, 3, 7} \in Rests /\ {2, 3, 4, 8} \in Rests
    BY DEF Rests, ParityBits
  <2>2. Turn({1, 2, 3, 7}) = {2, 3, 4, 8}
    BY <2>1, TurnOf DEF Generator
  <2> QED BY <1>1, <1>16, <2>2
<1>18. t(17) = {3, 4, 5, 9}
  <2>1. {2, 3, 4, 8} \in Rests /\ {3, 4, 5, 9} \in Rests
    BY DEF Rests, ParityBits
  <2>2. Turn({2, 3, 4, 8}) = {3, 4, 5, 9}
    BY <2>1, TurnOf DEF Generator
  <2> QED BY <1>1, <1>17, <2>2
<1> QED BY <1>18 DEF t

-----------------------------------------------------------------------------
(* The code: a word with its parity is divisible.                          *)
Units == {0}
Modulo(w) == Division(w, CodeBits, Units)[CodeBits]

LEMMA Widths == InfoBits = 16 /\ ParityBits = 10 /\ CodeBits = 26
BY DEF InfoBits, ParityBits, CodeBits

LEMMA One == Units \in Rests /\ Units \in SUBSET (0..ParityBits)
BY DEF Units, Rests, ParityBits

LEMMA ModuloSum ==
  ASSUME NEW w, NEW v
  PROVE  Modulo(w) \in Rests /\ Modulo(Sum(w, v)) = Sum(Modulo(w), Modulo(v))
<1>1. CodeBits \in Nat /\ CodeBits \in 0..CodeBits
  BY Widths
<1>2. Division(w, CodeBits, Units)[CodeBits] \in Rests
  BY <1>1, One, DivisionSteps
<1>3. \A i \in 0..CodeBits : Division(Sum(w, v), CodeBits, Units)[i]
                            = Sum(Division(w, CodeBits, Units)[i], Division(v, CodeBits, Units)[i])
  BY <1>1, One, DivisionSum
<1> QED BY <1>1, <1>2, <1>3 DEF Modulo

LEMMA SyndromeZero ==
  ASSUME NEW w
  PROVE  Syndrome(w) \in Rests /\ (Syndrome(w) = {} <=> Modulo(w) = {})
<1>1. CodeBits \in Nat /\ CodeBits \in 0..CodeBits /\ 16 \in 0..CodeBits
  BY Widths
<1>2. Poly \in Rests /\ Poly \in SUBSET (0..ParityBits)
  BY DEF Poly, Rests, ParityBits
<1>3. Syndrome(w) = Division(w, CodeBits, Poly)[CodeBits]
  BY DEF Syndrome, Remainder
<1>4. Syndrome(w) \in Rests
  BY <1>1, <1>2, <1>3, DivisionSteps
<1>5. Turned(Poly)[16] = Units
  BY PolyTurns DEF Poly, Units
<1>6. Modulo(w) = Turned(Syndrome(w))[16]
  <2>1. Division(w, CodeBits, Turned(Poly)[16])[CodeBits] = Turned(Division(w, CodeBits, Poly)[CodeBits])[16]
    BY <1>1, <1>2, DivisionTurned
  <2> QED BY <1>3, <1>5, <2>1 DEF Modulo
<1> QED BY <1>1, <1>4, <1>6, TurnedZero

(* What encodeRdsBlock adds is what is left of the word that is moved up.  *)
LEMMA ParityTurned ==
  ASSUME NEW info
  PROVE  Parity(info) = Turned(Division(info, InfoBits, Units)[InfoBits])[10]
<1> DEFINE high == {10}
           ten == {0, 3, 4, 5, 7, 8}
           Of(i) == Division(info, InfoBits, high)[i]
           As(i) == Division(info, InfoBits, ten)[i]
           S == {n \in Nat : n <= 16 => Of(n) = As(n)}
<1>1. /\ ten \in Rests /\ ten \in SUBSET (0..ParityBits) /\ high \in SUBSET (0..ParityBits)
      /\ {} \in SUBSET (0..ParityBits) /\ {} \in Rests
  BY DEF Rests, ParityBits
<1>2. Step({}, high) = ten
  <2>1. Step({}, high) \in Rests
    BY <1>1, StepIs
  <2>2. \A x \in Int : x \in Step({}, high) <=> ~(~(x \in {}  <=> x \in high) <=> (x \in Generator /\ ~(9 \in {} <=> 10 \in high)))
    BY <1>1, StepIs
  <2>3. \A x \in 0..9 : x \in Step({}, high) <=> x \in ten
    BY <2>2 DEF Generator
  <2>4. Step({}, high) \subseteq 0..9 /\ ten \subseteq 0..9
    BY <2>1 DEF Rests, ParityBits
  <2> QED BY <2>3, <2>4
<1>3. \A r \in Rests : Step(r, high) = Step(r, ten)
  <2> SUFFICES ASSUME NEW r \in Rests PROVE Step(r, high) = Step(r, ten)
    OBVIOUS
  <2>1. Sum(r, {}) = r /\ Sum({}, high) = high
    BY Sums
  <2>2. Step(Sum(r, {}), Sum({}, high)) = Sum(Step(r, {}), Step({}, high))
    BY <1>1, StepSum
  <2>3. Step(r, ten) = Sum(Turn(r), ten)
    BY <1>1, StepTurns
  <2> HIDE DEF ten, high
  <2> QED BY <1>2, <2>1, <2>2, <2>3 DEF Turn
<1>4. Of(0) = {} /\ As(0) = {}
  BY <1>1, Widths, DivisionSteps
<1>5. \A i \in 1..16 : Of(i) = Step(Of(i - 1), BitTerm(info, 16, high, i)) /\ As(i) = Step(As(i - 1), BitTerm(info, 16, ten, i))
  <2> HIDE DEF ten, high
  <2>1. InfoBits = 16 /\ InfoBits \in Nat
    BY Widths
  <2>2. \A i \in 1..InfoBits : Of(i) = Step(Of(i - 1), BitTerm(info, InfoBits, high, i))
    BY <1>1, <2>1, DivisionSteps
  <2>3. \A i \in 1..InfoBits : As(i) = Step(As(i - 1), BitTerm(info, InfoBits, ten, i))
    BY <1>1, <2>1, DivisionSteps
  <2> HIDE DEF Of, As
  <2> QED BY <2>1, <2>2, <2>3
<1>6. \A i \in 0..16 : Of(i) \in Rests
  BY <1>1, Widths, DivisionSteps
<1>7. \A i, r : r \in Rests => Step(r, BitTerm(info, 16, high, i)) = Step(r, BitTerm(info, 16, ten, i))
  <2> HIDE DEF ten, high
  <2> QED BY <1>3 DEF BitTerm
<1> HIDE DEF Of, As, ten, high
<1>8. 0 \in S
  BY <1>4
<1>9. ASSUME NEW n \in Nat, n \in S PROVE n + 1 \in S
  <2>1. SUFFICES ASSUME n + 1 <= 16 PROVE Of(n + 1) = As(n + 1)
    OBVIOUS
  <2>2. n + 1 \in 1..16 /\ n \in 0..16 /\ (n + 1) - 1 = n
    BY <2>1
  <2>3. Of(n) = As(n) /\ Of(n) \in Rests
    BY <1>6, <1>9, <2>2
  <2>4. Of(n + 1) = Step(Of(n), BitTerm(info, 16, high, n + 1)) /\ As(n + 1) = Step(As(n), BitTerm(info, 16, ten, n + 1))
    BY <1>5, <2>2
  <2> QED BY <1>7, <2>3, <2>4
<1> HIDE DEF S
<1>10. Of(16) = As(16)
  <2>1. Nat \subseteq S
    BY <1>8, <1>9, Induction
  <2>2. 16 \in S
    BY <2>1
  <2> QED BY <2>2 DEF S
<1>11. ten = Turned(Units)[10]
  BY OneTurns DEF ten, Units
<1>12. As(16) = Turned(Division(info, InfoBits, Units)[InfoBits])[10]
  BY <1>11, One, Widths, DivisionTurned DEF As
<1>13. Parity(info) = Of(16)
  BY Widths DEF Parity, Remainder, Of, high
<1> QED BY <1>10, <1>12, <1>13

LEMMA ParityIn ==
  ASSUME NEW info
  PROVE  Parity(info) \in Rests
<1>1. 10 \in 0..CodeBits /\ InfoBits \in Nat /\ InfoBits \in 0..InfoBits
  BY Widths
<1>2. Division(info, InfoBits, Units)[InfoBits] \in Rests
  BY <1>1, One, DivisionSteps
<1> QED BY <1>1, <1>2, ParityTurned, TurnedSteps

(* A word that is moved up leaves the next remainder.                      *)
LEMMA DivisionOne ==
  ASSUME NEW w, NEW bits \in 0..CodeBits
  PROVE  /\ Division(w, bits, Units)[0] = {}
         /\ \A i \in 1..bits : Division(w, bits, Units)[i] =
              Step(Division(w, bits, Units)[i - 1], BitTerm(w, bits, Units, i))
         /\ \A i \in 0..bits : Division(w, bits, Units)[i] \in Rests
<1>1. bits \in Nat
  BY Widths
<1> QED BY <1>1, One, DivisionSteps

LEMMA NothingTurns == Turn({}) = {} /\ Step({}, {}) = {} /\ {} \in Rests
<1>1. {} \in Rests
  BY DEF Rests
<1>2. \A x \in 0..9 : x \in {} <=> ~(x - 1 \in {} <=> (x \in Generator /\ 9 \in {}))
  OBVIOUS
<1>3. Turn({}) = {}
  BY <1>1, <1>2, TurnOf
<1> QED BY <1>1, <1>3 DEF Turn

LEMMA ModuloUp ==
  ASSUME NEW w \in SUBSET (0..24)
  PROVE  Modulo(Up(w, 1)) = Turn(Modulo(w))
<1> DEFINE Moved(i) == Division(Up(w, 1), CodeBits, Units)[i]
           Of(i) == Division(w, CodeBits, Units)[i]
           S == {n \in Nat : n <= 25 => Moved(n) = Of(n + 1)}
<1>1. CodeBits = 26 /\ CodeBits \in 0..CodeBits
  BY Widths
<1>2. Moved(0) = {} /\ \A i \in 1..CodeBits : Moved(i) = Step(Moved(i - 1), BitTerm(Up(w, 1), CodeBits, Units, i))
  BY <1>1, DivisionOne
<1>3. Of(0) = {} /\ \A i \in 1..CodeBits : Of(i) = Step(Of(i - 1), BitTerm(w, CodeBits, Units, i))
  BY <1>1, DivisionOne
<1>4. \A i \in 1..25 : BitTerm(Up(w, 1), CodeBits, Units, i) = BitTerm(w, CodeBits, Units, i + 1)
  <2> TAKE i \in 1..25
  <2>1. w \subseteq Int /\ 26 - i \in Int /\ (26 - i) - 1 = 26 - (i + 1)
    OBVIOUS
  <2>2. 26 - i \in Up(w, 1) <=> 26 - (i + 1) \in w
    BY <2>1 DEF Up
  <2> QED BY <1>1, <2>2 DEF BitTerm
<1>5. BitTerm(Up(w, 1), CodeBits, Units, 26) = {}
  <2>1. w \subseteq Int /\ 0 - 1 \notin w
    OBVIOUS
  <2>2. 0 \notin Up(w, 1)
    BY <2>1 DEF Up
  <2>3. 26 - 26 = 0
    OBVIOUS
  <2> QED BY <1>1, <2>2, <2>3 DEF BitTerm
<1>6. BitTerm(w, CodeBits, Units, 1) = {}
  BY <1>1 DEF BitTerm
<1>7. Modulo(Up(w, 1)) = Moved(26) /\ Modulo(w) = Of(26)
  BY <1>1 DEF Modulo
<1> HIDE DEF Moved, Of
<1>8. 0 \in S
  <2>1. 1 \in 1..CodeBits /\ 1 - 1 = 0 /\ 0 + 1 = 1
    BY <1>1
  <2>2. Of(1) = Step(Of(0), BitTerm(w, CodeBits, Units, 1))
    BY <1>3, <2>1
  <2> QED BY <1>2, <1>3, <1>6, <2>1, <2>2, NothingTurns
<1>9. ASSUME NEW n \in Nat, n \in S PROVE n + 1 \in S
  <2>1. SUFFICES ASSUME n + 1 <= 25 PROVE Moved(n + 1) = Of((n + 1) + 1)
    OBVIOUS
  <2>2. /\ n + 1 \in 1..25 /\ n + 1 \in 1..CodeBits /\ (n + 1) + 1 \in 1..CodeBits /\ n <= 25
        /\ (n + 1) - 1 = n /\ ((n + 1) + 1) - 1 = n + 1
    BY <1>1, <2>1
  <2>3. Moved(n + 1) = Step(Moved(n), BitTerm(Up(w, 1), CodeBits, Units, n + 1))
    BY <1>2, <2>2
  <2>4. Of((n + 1) + 1) = Step(Of(n + 1), BitTerm(w, CodeBits, Units, (n + 1) + 1))
    BY <1>3, <2>2
  <2> QED BY <1>4, <1>9, <2>2, <2>3, <2>4
<1> HIDE DEF S
<1>10. Moved(25) = Of(26)
  <2>1. Nat \subseteq S
    BY <1>8, <1>9, Induction
  <2>2. 25 \in S /\ 25 + 1 = 26
    BY <2>1
  <2> QED BY <2>2 DEF S
<1>11. Moved(26) = Step(Moved(25), BitTerm(Up(w, 1), CodeBits, Units, 26))
  <2>1. 26 \in 1..CodeBits /\ 26 - 1 = 25
    BY <1>1
  <2> QED BY <1>2, <2>1
<1> QED BY <1>5, <1>7, <1>10, <1>11 DEF Turn

(* A short word is what it leaves.                                         *)
LEMMA ModuloLow ==
  ASSUME NEW w \in Rests
  PROVE  Modulo(w) = w
<1> DEFINE Of(i) == Division(w, CodeBits, Units)[i]
           S == {n \in Nat : n <= 26 => \A x \in 0..9 : x \in Of(n) <=> x + 26 - n \in w}
<1>0. w \subseteq 0..9
  BY DEF Rests, ParityBits
<1>1. CodeBits = 26 /\ CodeBits \in 0..CodeBits
  BY Widths
<1>3. /\ Of(0) = {} /\ \A i \in 1..CodeBits : Of(i) = Step(Of(i - 1), BitTerm(w, CodeBits, Units, i))
      /\ \A i \in 0..CodeBits : Of(i) \in Rests
  BY <1>1, DivisionOne
<1>4. Modulo(w) = Of(26)
  BY <1>1 DEF Modulo
<1>5. \A i : /\ BitTerm(w, CodeBits, Units, i) \in SUBSET (0..ParityBits)
             /\ \A x \in Int : x \in BitTerm(w, CodeBits, Units, i) <=> x = 0 /\ 26 - i \in w
  <2>1. {} \in SUBSET (0..ParityBits)
    OBVIOUS
  <2>2. \A x \in Int : x \in Units <=> x = 0
    BY DEF Units
  <2> QED BY <1>1, <2>1, <2>2, One DEF BitTerm
<1> HIDE DEF Of
<1>6. 0 \in S
  <2>1. \A x \in 0..9 : x + 26 - 0 \notin w
    BY <1>0
  <2> QED BY <1>3, <2>1
<1>7. ASSUME NEW n \in Nat, n \in S PROVE n + 1 \in S
  <2>1. SUFFICES ASSUME n + 1 <= 26, NEW x \in 0..9
                 PROVE  x \in Of(n + 1) <=> x + 26 - (n + 1) \in w
    OBVIOUS
  <2>2. n + 1 \in 1..CodeBits /\ n \in 0..CodeBits /\ n <= 26 /\ (n + 1) - 1 = n
    BY <1>1, <2>1
  <2>3. \A y \in 0..9 : y \in Of(n) <=> y + 26 - n \in w
    BY <1>7, <2>2
  <2>4. Of(n) \in Rests /\ Of(n) \subseteq 0..9
    BY <1>3, <2>2 DEF Rests, ParityBits
  <2> DEFINE bit == BitTerm(w, CodeBits, Units, n + 1)
  <2>5. bit \in SUBSET (0..ParityBits) /\ \A y \in Int : y \in bit <=> y = 0 /\ 26 - (n + 1) \in w
    BY <1>5
  <2>6. Of(n + 1) = Step(Of(n), bit)
    BY <1>3, <2>2
  <2> HIDE DEF bit
  <2>7. x \in Of(n + 1) <=> ~(~(x - 1 \in Of(n) <=> x \in bit) <=> (x \in Generator /\ ~(9 \in Of(n) <=> 10 \in bit)))
    BY <2>4, <2>5, <2>6, StepIs
  <2>8. 9 \notin Of(n) /\ 10 \notin bit
    <3>1. 9 + 26 - n \notin w
      BY <1>0, <2>1
    <3> QED BY <2>3, <2>5, <3>1
  <2>9. x \in Of(n + 1) <=> ~(x - 1 \in Of(n) <=> x \in bit)
    BY <2>7, <2>8
  <2>10. CASE x = 0
    <3>1. x - 1 \notin Of(n) /\ x + 26 - (n + 1) = 26 - (n + 1)
      BY <2>4, <2>10
    <3> QED BY <2>5, <2>9, <2>10, <3>1
  <2>11. CASE x # 0
    <3>1. x - 1 \in 0..9 /\ (x - 1) + 26 - n = x + 26 - (n + 1)
      BY <2>11
    <3>2. x \notin bit
      BY <2>5, <2>11
    <3>3. x - 1 \in Of(n) <=> (x - 1) + 26 - n \in w
      BY <2>3, <3>1
    <3> QED BY <2>9, <3>1, <3>2, <3>3
  <2> QED BY <2>10, <2>11
<1> HIDE DEF S
<1>8. \A x \in 0..9 : x \in Of(26) <=> x \in w
  <2>1. Nat \subseteq S
    BY <1>6, <1>7, Induction
  <2>2. 26 \in S
    BY <2>1
  <2>3. \A x \in 0..9 : x + 26 - 26 = x
    OBVIOUS
  <2> QED BY <2>2, <2>3 DEF S
<1>9. Of(26) \subseteq 0..9
  BY <1>1, <1>3 DEF Rests, ParityBits
<1> QED BY <1>0, <1>4, <1>8, <1>9

(* The parity is what the information leaves, moved up.                    *)
LEMMA ModuloInfo ==
  ASSUME NEW info \in InfoWords
  PROVE  Modulo(Up(info, 10)) = Parity(info)
<1>0. info \in SUBSET (0..15)
  BY DEF InfoWords, InfoBits
<1> DEFINE Moved(i) == Division(Up(info, 10), CodeBits, Units)[i]
           Of(i) == Division(info, InfoBits, Units)[i]
           S == {n \in Nat : n <= 16 => Moved(n) = Of(n)}
           T == {k \in Nat : k <= 10 => Moved(16 + k) = Turned(Of(16))[k]}
<1>1. CodeBits = 26 /\ CodeBits \in 0..CodeBits /\ InfoBits = 16 /\ InfoBits \in 0..CodeBits
  BY Widths
<1>2. Moved(0) = {} /\ \A i \in 1..CodeBits : Moved(i) = Step(Moved(i - 1), BitTerm(Up(info, 10), CodeBits, Units, i))
  BY <1>1, DivisionOne
<1>3. /\ Of(0) = {} /\ \A i \in 1..InfoBits : Of(i) = Step(Of(i - 1), BitTerm(info, InfoBits, Units, i))
      /\ \A i \in 0..InfoBits : Of(i) \in Rests
  BY <1>1, DivisionOne
<1>a. \A i \in Int : 26 - i \in Up(info, 10) <=> 16 - i \in info
  <2> TAKE i \in Int
  <2>1. info \subseteq Int /\ 26 - i \in Int /\ (26 - i) - 10 = 16 - i
    BY <1>0
  <2> QED BY <2>1 DEF Up
<1>4. \A i \in 1..16 : BitTerm(Up(info, 10), CodeBits, Units, i) = BitTerm(info, InfoBits, Units, i)
  BY <1>1, <1>a DEF BitTerm
<1>5. \A i \in 17..26 : BitTerm(Up(info, 10), CodeBits, Units, i) = {}
  <2> TAKE i \in 17..26
  <2>1. 16 - i \notin info
    BY <1>0
  <2> QED BY <1>1, <1>a, <2>1 DEF BitTerm
<1>6. Modulo(Up(info, 10)) = Moved(26) /\ Parity(info) = Turned(Of(16))[10]
  BY <1>1, ParityTurned DEF Modulo
<1> HIDE DEF Moved, Of
<1>7. 0 \in S
  BY <1>2, <1>3
<1>8. ASSUME NEW n \in Nat, n \in S PROVE n + 1 \in S
  <2>1. SUFFICES ASSUME n + 1 <= 16 PROVE Moved(n + 1) = Of(n + 1)
    OBVIOUS
  <2>2. n + 1 \in 1..16 /\ n + 1 \in 1..CodeBits /\ n + 1 \in 1..InfoBits /\ n <= 16 /\ (n + 1) - 1 = n
    BY <1>1, <2>1
  <2>3. Moved(n + 1) = Step(Moved(n), BitTerm(Up(info, 10), CodeBits, Units, n + 1))
    BY <1>2, <2>2
  <2>4. Of(n + 1) = Step(Of(n), BitTerm(info, InfoBits, Units, n + 1))
    BY <1>3, <2>2
  <2> QED BY <1>4, <1>8, <2>2, <2>3, <2>4
<1> HIDE DEF S
<1>9. Moved(16) = Of(16) /\ Of(16) \in Rests
  <2>1. Nat \subseteq S
    BY <1>7, <1>8, Induction
  <2>2. 16 \in S
    BY <2>1
  <2> QED BY <1>1, <1>3, <2>2 DEF S
<1>10. 0 \in T
  <2>1. 16 + 0 = 16
    OBVIOUS
  <2> QED BY <1>9, <2>1, TurnedSteps
<1>11. ASSUME NEW k \in Nat, k \in T PROVE k + 1 \in T
  <2>1. SUFFICES ASSUME k + 1 <= 10 PROVE Moved(16 + (k + 1)) = Turned(Of(16))[k + 1]
    OBVIOUS
  <2>2. /\ 16 + (k + 1) \in 17..26 /\ 16 + (k + 1) \in 1..CodeBits /\ k <= 10 /\ k + 1 \in 1..CodeBits
        /\ (16 + (k + 1)) - 1 = 16 + k /\ (k + 1) - 1 = k
    BY <1>1, <2>1
  <2>3. Moved(16 + (k + 1)) = Step(Moved(16 + k), {})
    BY <1>2, <1>5, <2>2
  <2>4. Turned(Of(16))[k + 1] = Turn(Turned(Of(16))[k])
    BY <1>9, <2>2, TurnedSteps
  <2> QED BY <1>11, <2>2, <2>3, <2>4 DEF Turn
<1> HIDE DEF T
<1>12. Moved(26) = Turned(Of(16))[10]
  <2>1. Nat \subseteq T
    BY <1>10, <1>11, Induction
  <2>2. 10 \in T /\ 16 + 10 = 26
    BY <2>1
  <2> QED BY <2>2 DEF T
<1> QED BY <1>6, <1>12

-----------------------------------------------------------------------------
(* Short bursts.                                                           *)
LEMMA TurnBits ==
  ASSUME NEW r \in Rests
  PROVE  /\ Turn(r) \in Rests
         /\ 0 \in Turn(r) <=> 9 \in r
         /\ 1 \in Turn(r) <=> 0 \in r
         /\ 2 \in Turn(r) <=> 1 \in r
         /\ 3 \in Turn(r) <=> ~(2 \in r <=> 9 \in r)
         /\ 4 \in Turn(r) <=> ~(3 \in r <=> 9 \in r)
         /\ 5 \in Turn(r) <=> ~(4 \in r <=> 9 \in r)
         /\ 6 \in Turn(r) <=> 5 \in r
         /\ 7 \in Turn(r) <=> ~(6 \in r <=> 9 \in r)
         /\ 8 \in Turn(r) <=> ~(7 \in r <=> 9 \in r)
         /\ 9 \in Turn(r) <=> 8 \in r
<1>1. Turn(r) \in Rests
  BY TurnSum
<1>2. \A x \in Int : x \in Turn(r) <=> ~(x - 1 \in r <=> (x \in Generator /\ 9 \in r))
  BY Turning DEF Turn
<1>3. 0 - 1 \notin r
  BY DEF Rests, ParityBits
<1>4. 0 \in Turn(r) <=> 9 \in r
  BY <1>2, <1>3 DEF Generator
<1>5. 1 \in Turn(r) <=> 0 \in r
  <2>1. 1 - 1 = 0 /\ 1 \notin Generator
    BY DEF Generator
  <2> QED BY <1>2, <2>1
<1>6. 2 \in Turn(r) <=> 1 \in r
  <2>1. 2 - 1 = 1 /\ 2 \notin Generator
    BY DEF Generator
  <2> QED BY <1>2, <2>1
<1>7. 3 \in Turn(r) <=> ~(2 \in r <=> 9 \in r)
  <2>1. 3 - 1 = 2 /\ 3 \in Generator
    BY DEF Generator
  <2> QED BY <1>2, <2>1
<1>8. 4 \in Turn(r) <=> ~(3 \in r <=> 9 \in r)
  <2>1. 4 - 1 = 3 /\ 4 \in Generator
    BY DEF Generator
  <2> QED BY <1>2, <2>1
<1>9. 5 \in Turn(r) <=> ~(4 \in r <=> 9 \in r)
  <2>1. 5 - 1 = 4 /\ 5 \in Generator
    BY DEF Generator
  <2> QED BY <1>2, <2>1
<1>10. 6 \in Turn(r) <=> 5 \in r
  <2>1. 6 - 1 = 5 /\ 6 \notin Generator
    BY DEF Generator
  <2> QED BY <1>2, <2>1
<1>11. 7 \in Turn(r) <=> ~(6 \in r <=> 9 \in r)
  <2>1. 7 - 1 = 6 /\ 7 \in Generator
    BY DEF Generator
  <2> QED BY <1>2, <2>1
<1>12. 8 \in Turn(r) <=> ~(7 \in r <=> 9 \in r)
  <2>1. 8 - 1 = 7 /\ 8 \in Generator
    BY DEF Generator
  <2> QED BY <1>2, <2>1
<1>13. 9 \in Turn(r) <=> 8 \in r
  <2>1. 9 - 1 = 8 /\ 9 \notin Generator
    BY DEF Generator
  <2> QED BY <1>2, <2>1
<1> QED BY <1>1, <1>4, <1>5, <1>6, <1>7, <1>8, <1>9, <1>10, <1>11, <1>12, <1>13

(* A word of the five highest bits does not turn into one of the others.   *)
LEMMA HighTurns ==
  ASSUME NEW r \in SUBSET (5..9), NEW j \in 1..16, Turned(r)[j] \cap (5..9) = {}
  PROVE  r = {}
<1> DEFINE t(i) == Turned(r)[i]
<1>1. r \in Rests
  BY DEF Rests, ParityBits
<1>2. \A i \in 0..16 : t(i) \in Rests
  BY <1>1, Widths, TurnedSteps
<1>3. t(0) = r /\ \A i \in 0..15 : t(i + 1) = Turn(t(i))
  <2>1. \A i \in 0..15 : i + 1 \in 1..CodeBits /\ (i + 1) - 1 = i
    BY Widths
  <2> QED BY <1>1, <2>1, TurnedSteps
<1>4. t(j) \cap (5..9) = {}
  OBVIOUS
<1>5. r = {} <=> 5 \notin r /\ 6 \notin r /\ 7 \notin r /\ 8 \notin r /\ 9 \notin r
  OBVIOUS
<1> HIDE DEF t
<1>10. /\ 0 \in t(0) <=> (FALSE)
       /\ 1 \in t(0) <=> (FALSE)
       /\ 2 \in t(0) <=> (FALSE)
       /\ 3 \in t(0) <=> (FALSE)
       /\ 4 \in t(0) <=> (FALSE)
       /\ 5 \in t(0) <=> (5 \in r)
       /\ 6 \in t(0) <=> (6 \in r)
       /\ 7 \in t(0) <=> (7 \in r)
       /\ 8 \in t(0) <=> (8 \in r)
       /\ 9 \in t(0) <=> (9 \in r)
  <2>1. 0 \notin r /\ 1 \notin r /\ 2 \notin r /\ 3 \notin r /\ 4 \notin r
    OBVIOUS
  <2> QED BY <1>3, <2>1
<1>11. /\ 0 \in t(1) <=> (9 \in r)
       /\ 1 \in t(1) <=> (FALSE)
       /\ 2 \in t(1) <=> (FALSE)
       /\ 3 \in t(1) <=> (9 \in r)
       /\ 4 \in t(1) <=> (9 \in r)
       /\ 5 \in t(1) <=> (9 \in r)
       /\ 6 \in t(1) <=> (5 \in r)
       /\ 7 \in t(1) <=> (~(6 \in r <=> 9 \in r))
       /\ 8 \in t(1) <=> (~(7 \in r <=> 9 \in r))
       /\ 9 \in t(1) <=> (8 \in r)
  <2>1. t(1) = Turn(t(0)) /\ t(0) \in Rests
    <3>1. 0 \in 0..15 /\ 0 \in 0..16 /\ 0 + 1 = 1
      OBVIOUS
    <3> QED BY <1>2, <1>3, <3>1
  <2>2. (0 \in t(1) <=> 9 \in t(0)) /\ (1 \in t(1) <=> 0 \in t(0)) /\ (2 \in t(1) <=> 1 \in t(0)) /\ (3 \in t(1) <=> ~(2 \in t(0) <=> 9 \in t(0))) /\ (4 \in t(1) <=> ~(3 \in t(0) <=> 9 \in t(0)))
       /\ (5 \in t(1) <=> ~(4 \in t(0) <=> 9 \in t(0))) /\ (6 \in t(1) <=> 5 \in t(0)) /\ (7 \in t(1) <=> ~(6 \in t(0) <=> 9 \in t(0))) /\ (8 \in t(1) <=> ~(7 \in t(0) <=> 9 \in t(0))) /\ (9 \in t(1) <=> 8 \in t(0))
    BY <2>1, TurnBits
  <2> QED BY <1>10, <2>2
<1>11a. ASSUME j = 1 PROVE r = {}
  <2>1. 5 \notin t(1) /\ 6 \notin t(1) /\ 7 \notin t(1) /\ 8 \notin t(1) /\ 9 \notin t(1)
    BY <1>4, <1>11a
  <2> QED BY <1>5, <1>11, <2>1
<1>12. /\ 0 \in t(2) <=> (8 \in r)
       /\ 1 \in t(2) <=> (9 \in r)
       /\ 2 \in t(2) <=> (FALSE)
       /\ 3 \in t(2) <=> (8 \in r)
       /\ 4 \in t(2) <=> (~(8 \in r <=> 9 \in r))
       /\ 5 \in t(2) <=> (~(8 \in r <=> 9 \in r))
       /\ 6 \in t(2) <=> (9 \in r)
       /\ 7 \in t(2) <=> (~(5 \in r <=> 8 \in r))
       /\ 8 \in t(2) <=> (~(~(6 \in r <=> 8 \in r) <=> 9 \in r))
       /\ 9 \in t(2) <=> (~(7 \in r <=> 9 \in r))
  <2>1. t(2) = Turn(t(1)) /\ t(1) \in Rests
    <3>1. 1 \in 0..15 /\ 1 \in 0..16 /\ 1 + 1 = 2
      OBVIOUS
    <3> QED BY <1>2, <1>3, <3>1
  <2>2. (0 \in t(2) <=> 9 \in t(1)) /\ (1 \in t(2) <=> 0 \in t(1)) /\ (2 \in t(2) <=> 1 \in t(1)) /\ (3 \in t(2) <=> ~(2 \in t(1) <=> 9 \in t(1))) /\ (4 \in t(2) <=> ~(3 \in t(1) <=> 9 \in t(1)))
       /\ (5 \in t(2) <=> ~(4 \in t(1) <=> 9 \in t(1))) /\ (6 \in t(2) <=> 5 \in t(1)) /\ (7 \in t(2) <=> ~(6 \in t(1) <=> 9 \in t(1))) /\ (8 \in t(2) <=> ~(7 \in t(1) <=> 9 \in t(1))) /\ (9 \in t(2) <=> 8 \in t(1))
    BY <2>1, TurnBits
  <2> QED BY <1>11, <2>2
<1>12a. ASSUME j = 2 PROVE r = {}
  <2>1. 5 \notin t(2) /\ 6 \notin t(2) /\ 7 \notin t(2) /\ 8 \notin t(2) /\ 9 \notin t(2)
    BY <1>4, <1>12a
  <2> QED BY <1>5, <1>12, <2>1
<1>13. /\ 0 \in t(3) <=> (~(7 \in r <=> 9 \in r))
       /\ 1 \in t(3) <=> (8 \in r)
       /\ 2 \in t(3) <=> (9 \in r)
       /\ 3 \in t(3) <=> (~(7 \in r <=> 9 \in r))
       /\ 4 \in t(3) <=> (~(~(7 \in r <=> 8 \in r) <=> 9 \in r))
       /\ 5 \in t(3) <=> (~(7 \in r <=> 8 \in r))
       /\ 6 \in t(3) <=> (~(8 \in r <=> 9 \in r))
       /\ 7 \in t(3) <=> (7 \in r)
       /\ 8 \in t(3) <=> (~(~(~(5 \in r <=> 7 \in r) <=> 8 \in r) <=> 9 \in r))
       /\ 9 \in t(3) <=> (~(~(6 \in r <=> 8 \in r) <=> 9 \in r))
  <2>1. t(3) = Turn(t(2)) /\ t(2) \in Rests
    <3>1. 2 \in 0..15 /\ 2 \in 0..16 /\ 2 + 1 = 3
      OBVIOUS
    <3> QED BY <1>2, <1>3, <3>1
  <2>2. (0 \in t(3) <=> 9 \in t(2)) /\ (1 \in t(3) <=> 0 \in t(2)) /\ (2 \in t(3) <=> 1 \in t(2)) /\ (3 \in t(3) <=> ~(2 \in t(2) <=> 9 \in t(2))) /\ (4 \in t(3) <=> ~(3 \in t(2) <=> 9 \in t(2)))
       /\ (5 \in t(3) <=> ~(4 \in t(2) <=> 9 \in t(2))) /\ (6 \in t(3) <=> 5 \in t(2)) /\ (7 \in t(3) <=> ~(6 \in t(2) <=> 9 \in t(2))) /\ (8 \in t(3) <=> ~(7 \in t(2) <=> 9 \in t(2))) /\ (9 \in t(3) <=> 8 \in t(2))
    BY <2>1, TurnBits
  <2> QED BY <1>12, <2>2
<1>13a. ASSUME j = 3 PROVE r = {}
  <2>1. 5 \notin t(3) /\ 6 \notin t(3) /\ 7 \notin t(3) /\ 8 \notin t(3) /\ 9 \notin t(3)
    BY <1>4, <1>13a
  <2> QED BY <1>5, <1>13, <2>1
<1>14. /\ 0 \in t(4) <=> (~(~(6 \in r <=> 8 \in r) <=> 9 \in r))
       /\ 1 \in t(4) <=> (~(7 \in r <=> 9 \in r))
       /\ 2 \in t(4) <=> (8 \in r)
       /\ 3 \in t(4) <=> (~(6 \in r <=> 8 \in r))
       /\ 4 \in t(4) <=> (~(~(6 \in r <=> 7 \in r) <=> 8 \in r))
       /\ 5 \in t(4) <=> (~(6 \in r <=> 7 \in r))
       /\ 6 \in t(4) <=> (~(7 \in r <=> 8 \in r))
       /\ 7 \in t(4) <=> (6 \in r)
       /\ 8 \in t(4) <=> (~(~(~(6 \in r <=> 7 \in r) <=> 8 \in r) <=> 9 \in r))
       /\ 9 \in t(4) <=> (~(~(~(5 \in r <=> 7 \in r) <=> 8 \in r) <=> 9 \in r))
  <2>1. t(4) = Turn(t(3)) /\ t(3) \in Rests
    <3>1. 3 \in 0..15 /\ 3 \in 0..16 /\ 3 + 1 = 4
      OBVIOUS
    <3> QED BY <1>2, <1>3, <3>1
  <2>2. (0 \in t(4) <=> 9 \in t(3)) /\ (1 \in t(4) <=> 0 \in t(3)) /\ (2 \in t(4) <=> 1 \in t(3)) /\ (3 \in t(4) <=> ~(2 \in t(3) <=> 9 \in t(3))) /\ (4 \in t(4) <=> ~(3 \in t(3) <=> 9 \in t(3)))
       /\ (5 \in t(4) <=> ~(4 \in t(3) <=> 9 \in t(3))) /\ (6 \in t(4) <=> 5 \in t(3)) /\ (7 \in t(4) <=> ~(6 \in t(3) <=> 9 \in t(3))) /\ (8 \in t(4) <=> ~(7 \in t(3) <=> 9 \in t(3))) /\ (9 \in t(4) <=> 8 \in t(3))
    BY <2>1, TurnBits
  <2> QED BY <1>13, <2>2
<1>14a. ASSUME j = 4 PROVE r = {}
  <2>1. 5 \notin t(4) /\ 6 \notin t(4) /\ 7 \notin t(4) /\ 8 \notin t(4) /\ 9 \notin t(4)
    BY <1>4, <1>14a
  <2> QED BY <1>5, <1>14, <2>1
<1>15. /\ 0 \in t(5) <=> (~(~(~(5 \in r <=> 7 \in r) <=> 8 \in r) <=> 9 \in r))
       /\ 1 \in t(5) <=> (~(~(6 \in r <=> 8 \in r) <=> 9 \in r))
       /\ 2 \in t(5) <=> (~(7 \in r <=> 9 \in r))
       /\ 3 \in t(5) <=> (~(~(5 \in r <=> 7 \in r) <=> 9 \in r))
       /\ 4 \in t(5) <=> (~(~(~(5 \in r <=> 6 \in r) <=> 7 \in r) <=> 9 \in r))
       /\ 5 \in t(5) <=> (~(~(5 \in r <=> 6 \in r) <=> 9 \in r))
       /\ 6 \in t(5) <=> (~(6 \in r <=> 7 \in r))
       /\ 7 \in t(5) <=> (~(5 \in r <=> 9 \in r))
       /\ 8 \in t(5) <=> (~(~(~(~(5 \in r <=> 6 \in r) <=> 7 \in r) <=> 8 \in r) <=> 9 \in r))
       /\ 9 \in t(5) <=> (~(~(~(6 \in r <=> 7 \in r) <=> 8 \in r) <=> 9 \in r))
  <2>1. t(5) = Turn(t(4)) /\ t(4) \in Rests
    <3>1. 4 \in 0..15 /\ 4 \in 0..16 /\ 4 + 1 = 5
      OBVIOUS
    <3> QED BY <1>2, <1>3, <3>1
  <2>2. (0 \in t(5) <=> 9 \in t(4)) /\ (1 \in t(5) <=> 0 \in t(4)) /\ (2 \in t(5) <=> 1 \in t(4)) /\ (3 \in t(5) <=> ~(2 \in t(4) <=> 9 \in t(4))) /\ (4 \in t(5) <=> ~(3 \in t(4) <=> 9 \in t(4)))
       /\ (5 \in t(5) <=> ~(4 \in t(4) <=> 9 \in t(4))) /\ (6 \in t(5) <=> 5 \in t(4)) /\ (7 \in t(5) <=> ~(6 \in t(4) <=> 9 \in t(4))) /\ (8 \in t(5) <=> ~(7 \in t(4) <=> 9 \in t(4))) /\ (9 \in t(5) <=> 8 \in t(4))
    BY <2>1, TurnBits
  <2> QED BY <1>14, <2>2
<1>15a. ASSUME j = 5 PROVE r = {}
  <2>1. 5 \notin t(5) /\ 6 \notin t(5) /\ 7 \notin t(5) /\ 8 \notin t(5) /\ 9 \notin t(5)
    BY <1>4, <1>15a
  <2> QED BY <1>5, <1>15, <2>1
<1>16. /\ 0 \in t(6) <=> (~(~(~(6 \in r <=> 7 \in r) <=> 8 \in r) <=> 9 \in r))
       /\ 1 \in t(6) <=> (~(~(~(5 \in r <=> 7 \in r) <=> 8 \in r) <=> 9 \in r))
       /\ 2 \in t(6) <=> (~(~(6 \in r <=> 8 \in r) <=> 9 \in r))
       /\ 3 \in t(6) <=> (~(6 \in r <=> 8 \in r))
       /\ 4 \in t(6) <=> (~(~(5 \in r <=> 6 \in r) <=> 8 \in r))
       /\ 5 \in t(6) <=> (~(5 \in r <=> 8 \in r))
       /\ 6 \in t(6) <=> (~(~(5 \in r <=> 6 \in r) <=> 9 \in r))
       /\ 7 \in t(6) <=> (~(8 \in r <=> 9 \in r))
       /\ 8 \in t(6) <=> (~(~(~(5 \in r <=> 6 \in r) <=> 7 \in r) <=> 8 \in r))
       /\ 9 \in t(6) <=> (~(~(~(~(5 \in r <=> 6 \in r) <=> 7 \in r) <=> 8 \in r) <=> 9 \in r))
  <2>1. t(6) = Turn(t(5)) /\ t(5) \in Rests
    <3>1. 5 \in 0..15 /\ 5 \in 0..16 /\ 5 + 1 = 6
      OBVIOUS
    <3> QED BY <1>2, <1>3, <3>1
  <2>2. (0 \in t(6) <=> 9 \in t(5)) /\ (1 \in t(6) <=> 0 \in t(5)) /\ (2 \in t(6) <=> 1 \in t(5)) /\ (3 \in t(6) <=> ~(2 \in t(5) <=> 9 \in t(5))) /\ (4 \in t(6) <=> ~(3 \in t(5) <=> 9 \in t(5)))
       /\ (5 \in t(6) <=> ~(4 \in t(5) <=> 9 \in t(5))) /\ (6 \in t(6) <=> 5 \in t(5)) /\ (7 \in t(6) <=> ~(6 \in t(5) <=> 9 \in t(5))) /\ (8 \in t(6) <=> ~(7 \in t(5) <=> 9 \in t(5))) /\ (9 \in t(6) <=> 8 \in t(5))
    BY <2>1, TurnBits
  <2> QED BY <1>15, <2>2
<1>16a. ASSUME j = 6 PROVE r = {}
  <2>1. 5 \notin t(6) /\ 6 \notin t(6) /\ 7 \notin t(6) /\ 8 \notin t(6) /\ 9 \notin t(6)
    BY <1>4, <1>16a
  <2> QED BY <1>5, <1>16, <2>1
<1>17. /\ 0 \in t(7) <=> (~(~(~(~(5 \in r <=> 6 \in r) <=> 7 \in r) <=> 8 \in r) <=> 9 \in r))
       /\ 1 \in t(7) <=> (~(~(~(6 \in r <=> 7 \in r) <=> 8 \in r) <=> 9 \in r))
       /\ 2 \in t(7) <=> (~(~(~(5 \in r <=> 7 \in r) <=> 8 \in r) <=> 9 \in r))
       /\ 3 \in t(7) <=> (~(5 \in r <=> 7 \in r))
       /\ 4 \in t(7) <=> (~(~(5 \in r <=> 7 \in r) <=> 9 \in r))
       /\ 5 \in t(7) <=> (~(7 \in r <=> 9 \in r))
       /\ 6 \in t(7) <=> (~(5 \in r <=> 8 \in r))
       /\ 7 \in t(7) <=> (~(7 \in r <=> 8 \in r))
       /\ 8 \in t(7) <=> (~(~(5 \in r <=> 6 \in r) <=> 7 \in r))
       /\ 9 \in t(7) <=> (~(~(~(5 \in r <=> 6 \in r) <=> 7 \in r) <=> 8 \in r))
  <2>1. t(7) = Turn(t(6)) /\ t(6) \in Rests
    <3>1. 6 \in 0..15 /\ 6 \in 0..16 /\ 6 + 1 = 7
      OBVIOUS
    <3> QED BY <1>2, <1>3, <3>1
  <2>2. (0 \in t(7) <=> 9 \in t(6)) /\ (1 \in t(7) <=> 0 \in t(6)) /\ (2 \in t(7) <=> 1 \in t(6)) /\ (3 \in t(7) <=> ~(2 \in t(6) <=> 9 \in t(6))) /\ (4 \in t(7) <=> ~(3 \in t(6) <=> 9 \in t(6)))
       /\ (5 \in t(7) <=> ~(4 \in t(6) <=> 9 \in t(6))) /\ (6 \in t(7) <=> 5 \in t(6)) /\ (7 \in t(7) <=> ~(6 \in t(6) <=> 9 \in t(6))) /\ (8 \in t(7) <=> ~(7 \in t(6) <=> 9 \in t(6))) /\ (9 \in t(7) <=> 8 \in t(6))
    BY <2>1, TurnBits
  <2> QED BY <1>16, <2>2
<1>17a. ASSUME j = 7 PROVE r = {}
  <2>1. 5 \notin t(7) /\ 6 \notin t(7) /\ 7 \notin t(7) /\ 8 \notin t(7) /\ 9 \notin t(7)
    BY <1>4, <1>17a
  <2> QED BY <1>5, <1>17, <2>1
<1>18. /\ 0 \in t(8) <=> (~(~(~(5 \in r <=> 6 \in r) <=> 7 \in r) <=> 8 \in r))
       /\ 1 \in t(8) <=> (~(~(~(~(5 \in r <=> 6 \in r) <=> 7 \in r) <=> 8 \in r) <=> 9 \in r))
       /\ 2 \in t(8) <=> (~(~(~(6 \in r <=> 7 \in r) <=> 8 \in r) <=> 9 \in r))
       /\ 3 \in t(8) <=> (~(6 \in r <=> 9 \in r))
       /\ 4 \in t(8) <=> (~(6 \in r <=> 8 \in r))
       /\ 5 \in t(8) <=> (~(~(6 \in r <=> 8 \in r) <=> 9 \in r))
       /\ 6 \in t(8) <=> (~(7 \in r <=> 9 \in r))
       /\ 7 \in t(8) <=> (~(6 \in r <=> 7 \in r))
       /\ 8 \in t(8) <=> (~(5 \in r <=> 6 \in r))
       /\ 9 \in t(8) <=> (~(~(5 \in r <=> 6 \in r) <=> 7 \in r))
  <2>1. t(8) = Turn(t(7)) /\ t(7) \in Rests
    <3>1. 7 \in 0..15 /\ 7 \in 0..16 /\ 7 + 1 = 8
      OBVIOUS
    <3> QED BY <1>2, <1>3, <3>1
  <2>2. (0 \in t(8) <=> 9 \in t(7)) /\ (1 \in t(8) <=> 0 \in t(7)) /\ (2 \in t(8) <=> 1 \in t(7)) /\ (3 \in t(8) <=> ~(2 \in t(7) <=> 9 \in t(7))) /\ (4 \in t(8) <=> ~(3 \in t(7) <=> 9 \in t(7)))
       /\ (5 \in t(8) <=> ~(4 \in t(7) <=> 9 \in t(7))) /\ (6 \in t(8) <=> 5 \in t(7)) /\ (7 \in t(8) <=> ~(6 \in t(7) <=> 9 \in t(7))) /\ (8 \in t(8) <=> ~(7 \in t(7) <=> 9 \in t(7))) /\ (9 \in t(8) <=> 8 \in t(7))
    BY <2>1, TurnBits
  <2> QED BY <1>17, <2>2
<1>18a. ASSUME j = 8 PROVE r = {}
  <2>1. 5 \notin t(8) /\ 6 \notin t(8) /\ 7 \notin t(8) /\ 8 \notin t(8) /\ 9 \notin t(8)
    BY <1>4, <1>18a
  <2> QED BY <1>5, <1>18, <2>1
<1>19. /\ 0 \in t(9) <=> (~(~(5 \in r <=> 6 \in r) <=> 7 \in r))
       /\ 1 \in t(9) <=> (~(~(~(5 \in r <=> 6 \in r) <=> 7 \in r) <=> 8 \in r))
       /\ 2 \in t(9) <=> (~(~(~(~(5 \in r <=> 6 \in r) <=> 7 \in r) <=> 8 \in r) <=> 9 \in r))
       /\ 3 \in t(9) <=> (~(~(5 \in r <=> 8 \in r) <=> 9 \in r))
       /\ 4 \in t(9) <=> (~(~(5 \in r <=> 7 \in r) <=> 9 \in r))
       /\ 5 \in t(9) <=> (~(~(5 \in r <=> 7 \in r) <=> 8 \in r))
       /\ 6 \in t(9) <=> (~(~(6 \in r <=> 8 \in r) <=> 9 \in r))
       /\ 7 \in t(9) <=> (~(~(5 \in r <=> 6 \in r) <=> 9 \in r))
       /\ 8 \in t(9) <=> (5 \in r)
       /\ 9 \in t(9) <=> (~(5 \in r <=> 6 \in r))
  <2>1. t(9) = Turn(t(8)) /\ t(8) \in Rests
    <3>1. 8 \in 0..15 /\ 8 \in 0..16 /\ 8 + 1 = 9
      OBVIOUS
    <3> QED BY <1>2, <1>3, <3>1
  <2>2. (0 \in t(9) <=> 9 \in t(8)) /\ (1 \in t(9) <=> 0 \in t(8)) /\ (2 \in t(9) <=> 1 \in t(8)) /\ (3 \in t(9) <=> ~(2 \in t(8) <=> 9 \in t(8))) /\ (4 \in t(9) <=> ~(3 \in t(8) <=> 9 \in t(8)))
       /\ (5 \in t(9) <=> ~(4 \in t(8) <=> 9 \in t(8))) /\ (6 \in t(9) <=> 5 \in t(8)) /\ (7 \in t(9) <=> ~(6 \in t(8) <=> 9 \in t(8))) /\ (8 \in t(9) <=> ~(7 \in t(8) <=> 9 \in t(8))) /\ (9 \in t(9) <=> 8 \in t(8))
    BY <2>1, TurnBits
  <2> QED BY <1>18, <2>2
<1>19a. ASSUME j = 9 PROVE r = {}
  <2>1. 5 \notin t(9) /\ 6 \notin t(9) /\ 7 \notin t(9) /\ 8 \notin t(9) /\ 9 \notin t(9)
    BY <1>4, <1>19a
  <2> QED BY <1>5, <1>19, <2>1
<1>20. /\ 0 \in t(10) <=> (~(5 \in r <=> 6 \in r))
       /\ 1 \in t(10) <=> (~(~(5 \in r <=> 6 \in r) <=> 7 \in r))
       /\ 2 \in t(10) <=> (~(~(~(5 \in r <=> 6 \in r) <=> 7 \in r) <=> 8 \in r))
       /\ 3 \in t(10) <=> (~(~(7 \in r <=> 8 \in r) <=> 9 \in r))
       /\ 4 \in t(10) <=> (~(~(6 \in r <=> 8 \in r) <=> 9 \in r))
       /\ 5 \in t(10) <=> (~(~(6 \in r <=> 7 \in r) <=> 9 \in r))
       /\ 6 \in t(10) <=> (~(~(5 \in r <=> 7 \in r) <=> 8 \in r))
       /\ 7 \in t(10) <=> (~(~(5 \in r <=> 8 \in r) <=> 9 \in r))
       /\ 8 \in t(10) <=> (9 \in r)
       /\ 9 \in t(10) <=> (5 \in r)
  <2>1. t(10) = Turn(t(9)) /\ t(9) \in Rests
    <3>1. 9 \in 0..15 /\ 9 \in 0..16 /\ 9 + 1 = 10
      OBVIOUS
    <3> QED BY <1>2, <1>3, <3>1
  <2>2. (0 \in t(10) <=> 9 \in t(9)) /\ (1 \in t(10) <=> 0 \in t(9)) /\ (2 \in t(10) <=> 1 \in t(9)) /\ (3 \in t(10) <=> ~(2 \in t(9) <=> 9 \in t(9))) /\ (4 \in t(10) <=> ~(3 \in t(9) <=> 9 \in t(9)))
       /\ (5 \in t(10) <=> ~(4 \in t(9) <=> 9 \in t(9))) /\ (6 \in t(10) <=> 5 \in t(9)) /\ (7 \in t(10) <=> ~(6 \in t(9) <=> 9 \in t(9))) /\ (8 \in t(10) <=> ~(7 \in t(9) <=> 9 \in t(9))) /\ (9 \in t(10) <=> 8 \in t(9))
    BY <2>1, TurnBits
  <2> QED BY <1>19, <2>2
<1>20a. ASSUME j = 10 PROVE r = {}
  <2>1. 5 \notin t(10) /\ 6 \notin t(10) /\ 7 \notin t(10) /\ 8 \notin t(10) /\ 9 \notin t(10)
    BY <1>4, <1>20a
  <2> QED BY <1>5, <1>20, <2>1
<1>21. /\ 0 \in t(11) <=> (5 \in r)
       /\ 1 \in t(11) <=> (~(5 \in r <=> 6 \in r))
       /\ 2 \in t(11) <=> (~(~(5 \in r <=> 6 \in r) <=> 7 \in r))
       /\ 3 \in t(11) <=> (~(~(6 \in r <=> 7 \in r) <=> 8 \in r))
       /\ 4 \in t(11) <=> (~(~(~(5 \in r <=> 7 \in r) <=> 8 \in r) <=> 9 \in r))
       /\ 5 \in t(11) <=> (~(~(~(5 \in r <=> 6 \in r) <=> 8 \in r) <=> 9 \in r))
       /\ 6 \in t(11) <=> (~(~(6 \in r <=> 7 \in r) <=> 9 \in r))
       /\ 7 \in t(11) <=> (~(7 \in r <=> 8 \in r))
       /\ 8 \in t(11) <=> (~(8 \in r <=> 9 \in r))
       /\ 9 \in t(11) <=> (9 \in r)
  <2>1. t(11) = Turn(t(10)) /\ t(10) \in Rests
    <3>1. 10 \in 0..15 /\ 10 \in 0..16 /\ 10 + 1 = 11
      OBVIOUS
    <3> QED BY <1>2, <1>3, <3>1
  <2>2. (0 \in t(11) <=> 9 \in t(10)) /\ (1 \in t(11) <=> 0 \in t(10)) /\ (2 \in t(11) <=> 1 \in t(10)) /\ (3 \in t(11) <=> ~(2 \in t(10) <=> 9 \in t(10))) /\ (4 \in t(11) <=> ~(3 \in t(10) <=> 9 \in t(10)))
       /\ (5 \in t(11) <=> ~(4 \in t(10) <=> 9 \in t(10))) /\ (6 \in t(11) <=> 5 \in t(10)) /\ (7 \in t(11) <=> ~(6 \in t(10) <=> 9 \in t(10))) /\ (8 \in t(11) <=> ~(7 \in t(10) <=> 9 \in t(10))) /\ (9 \in t(11) <=> 8 \in t(10))
    BY <2>1, TurnBits
  <2> QED BY <1>20, <2>2
<1>21a. ASSUME j = 11 PROVE r = {}
  <2>1. 5 \notin t(11) /\ 6 \notin t(11) /\ 7 \notin t(11) /\ 8 \notin t(11) /\ 9 \notin t(11)
    BY <1>4, <1>21a
  <2> QED BY <1>5, <1>21, <2>1
<1>22. /\ 0 \in t(12) <=> (9 \in r)
       /\ 1 \in t(12) <=> (5 \in r)
       /\ 2 \in t(12) <=> (~(5 \in r <=> 6 \in r))
       /\ 3 \in t(12) <=> (~(~(~(5 \in r <=> 6 \in r) <=> 7 \in r) <=> 9 \in r))
       /\ 4 \in t(12) <=> (~(~(~(6 \in r <=> 7 \in r) <=> 8 \in r) <=> 9 \in r))
       /\ 5 \in t(12) <=> (~(~(5 \in r <=> 7 \in r) <=> 8 \in r))
       /\ 6 \in t(12) <=> (~(~(~(5 \in r <=> 6 \in r) <=> 8 \in r) <=> 9 \in r))
       /\ 7 \in t(12) <=> (~(6 \in r <=> 7 \in r))
       /\ 8 \in t(12) <=> (~(~(7 \in r <=> 8 \in r) <=> 9 \in r))
       /\ 9 \in t(12) <=> (~(8 \in r <=> 9 \in r))
  <2>1. t(12) = Turn(t(11)) /\ t(11) \in Rests
    <3>1. 11 \in 0..15 /\ 11 \in 0..16 /\ 11 + 1 = 12
      OBVIOUS
    <3> QED BY <1>2, <1>3, <3>1
  <2>2. (0 \in t(12) <=> 9 \in t(11)) /\ (1 \in t(12) <=> 0 \in t(11)) /\ (2 \in t(12) <=> 1 \in t(11)) /\ (3 \in t(12) <=> ~(2 \in t(11) <=> 9 \in t(11))) /\ (4 \in t(12) <=> ~(3 \in t(11) <=> 9 \in t(11)))
       /\ (5 \in t(12) <=> ~(4 \in t(11) <=> 9 \in t(11))) /\ (6 \in t(12) <=> 5 \in t(11)) /\ (7 \in t(12) <=> ~(6 \in t(11) <=> 9 \in t(11))) /\ (8 \in t(12) <=> ~(7 \in t(11) <=> 9 \in t(11))) /\ (9 \in t(12) <=> 8 \in t(11))
    BY <2>1, TurnBits
  <2> QED BY <1>21, <2>2
<1>22a. ASSUME j = 12 PROVE r = {}
  <2>1. 5 \notin t(12) /\ 6 \notin t(12) /\ 7 \notin t(12) /\ 8 \notin t(12) /\ 9 \notin t(12)
    BY <1>4, <1>22a
  <2> QED BY <1>5, <1>22, <2>1
<1>23. /\ 0 \in t(13) <=> (~(8 \in r <=> 9 \in r))
       /\ 1 \in t(13) <=> (9 \in r)
       /\ 2 \in t(13) <=> (5 \in r)
       /\ 3 \in t(13) <=> (~(~(~(5 \in r <=> 6 \in r) <=> 8 \in r) <=> 9 \in r))
       /\ 4 \in t(13) <=> (~(~(~(5 \in r <=> 6 \in r) <=> 7 \in r) <=> 8 \in r))
       /\ 5 \in t(13) <=> (~(6 \in r <=> 7 \in r))
       /\ 6 \in t(13) <=> (~(~(5 \in r <=> 7 \in r) <=> 8 \in r))
       /\ 7 \in t(13) <=> (~(5 \in r <=> 6 \in r))
       /\ 8 \in t(13) <=> (~(~(~(6 \in r <=> 7 \in r) <=> 8 \in r) <=> 9 \in r))
       /\ 9 \in t(13) <=> (~(~(7 \in r <=> 8 \in r) <=> 9 \in r))
  <2>1. t(13) = Turn(t(12)) /\ t(12) \in Rests
    <3>1. 12 \in 0..15 /\ 12 \in 0..16 /\ 12 + 1 = 13
      OBVIOUS
    <3> QED BY <1>2, <1>3, <3>1
  <2>2. (0 \in t(13) <=> 9 \in t(12)) /\ (1 \in t(13) <=> 0 \in t(12)) /\ (2 \in t(13) <=> 1 \in t(12)) /\ (3 \in t(13) <=> ~(2 \in t(12) <=> 9 \in t(12))) /\ (4 \in t(13) <=> ~(3 \in t(12) <=> 9 \in t(12)))
       /\ (5 \in t(13) <=> ~(4 \in t(12) <=> 9 \in t(12))) /\ (6 \in t(13) <=> 5 \in t(12)) /\ (7 \in t(13) <=> ~(6 \in t(12) <=> 9 \in t(12))) /\ (8 \in t(13) <=> ~(7 \in t(12) <=> 9 \in t(12))) /\ (9 \in t(13) <=> 8 \in t(12))
    BY <2>1, TurnBits
  <2> QED BY <1>22, <2>2
<1>23a. ASSUME j = 13 PROVE r = {}
  <2>1. 5 \notin t(13) /\ 6 \notin t(13) /\ 7 \notin t(13) /\ 8 \notin t(13) /\ 9 \notin t(13)
    BY <1>4, <1>23a
  <2> QED BY <1>5, <1>23, <2>1
<1>24. /\ 0 \in t(14) <=> (~(~(7 \in r <=> 8 \in r) <=> 9 \in r))
       /\ 1 \in t(14) <=> (~(8 \in r <=> 9 \in r))
       /\ 2 \in t(14) <=> (9 \in r)
       /\ 3 \in t(14) <=> (~(~(~(5 \in r <=> 7 \in r) <=> 8 \in r) <=> 9 \in r))
       /\ 4 \in t(14) <=> (~(~(5 \in r <=> 6 \in r) <=> 7 \in r))
       /\ 5 \in t(14) <=> (~(~(5 \in r <=> 6 \in r) <=> 9 \in r))
       /\ 6 \in t(14) <=> (~(6 \in r <=> 7 \in r))
       /\ 7 \in t(14) <=> (~(5 \in r <=> 9 \in r))
       /\ 8 \in t(14) <=> (~(~(~(~(5 \in r <=> 6 \in r) <=> 7 \in r) <=> 8 \in r) <=> 9 \in r))
       /\ 9 \in t(14) <=> (~(~(~(6 \in r <=> 7 \in r) <=> 8 \in r) <=> 9 \in r))
  <2>1. t(14) = Turn(t(13)) /\ t(13) \in Rests
    <3>1. 13 \in 0..15 /\ 13 \in 0..16 /\ 13 + 1 = 14
      OBVIOUS
    <3> QED BY <1>2, <1>3, <3>1
  <2>2. (0 \in t(14) <=> 9 \in t(13)) /\ (1 \in t(14) <=> 0 \in t(13)) /\ (2 \in t(14) <=> 1 \in t(13)) /\ (3 \in t(14) <=> ~(2 \in t(13) <=> 9 \in t(13))) /\ (4 \in t(14) <=> ~(3 \in t(13) <=> 9 \in t(13)))
       /\ (5 \in t(14) <=> ~(4 \in t(13) <=> 9 \in t(13))) /\ (6 \in t(14) <=> 5 \in t(13)) /\ (7 \in t(14) <=> ~(6 \in t(13) <=> 9 \in t(13))) /\ (8 \in t(14) <=> ~(7 \in t(13) <=> 9 \in t(13))) /\ (9 \in t(14) <=> 8 \in t(13))
    BY <2>1, TurnBits
  <2> QED BY <1>23, <2>2
<1>24a. ASSUME j = 14 PROVE r = {}
  <2>1. 5 \notin t(14) /\ 6 \notin t(14) /\ 7 \notin t(14) /\ 8 \notin t(14) /\ 9 \notin t(14)
    BY <1>4, <1>24a
  <2> QED BY <1>5, <1>24, <2>1
<1>25. /\ 0 \in t(15) <=> (~(~(~(6 \in r <=> 7 \in r) <=> 8 \in r) <=> 9 \in r))
       /\ 1 \in t(15) <=> (~(~(7 \in r <=> 8 \in r) <=> 9 \in r))
       /\ 2 \in t(15) <=> (~(8 \in r <=> 9 \in r))
       /\ 3 \in t(15) <=> (~(~(6 \in r <=> 7 \in r) <=> 8 \in r))
       /\ 4 \in t(15) <=> (~(5 \in r <=> 6 \in r))
       /\ 5 \in t(15) <=> (~(~(5 \in r <=> 8 \in r) <=> 9 \in r))
       /\ 6 \in t(15) <=> (~(~(5 \in r <=> 6 \in r) <=> 9 \in r))
       /\ 7 \in t(15) <=> (~(8 \in r <=> 9 \in r))
       /\ 8 \in t(15) <=> (~(~(~(5 \in r <=> 6 \in r) <=> 7 \in r) <=> 8 \in r))
       /\ 9 \in t(15) <=> (~(~(~(~(5 \in r <=> 6 \in r) <=> 7 \in r) <=> 8 \in r) <=> 9 \in r))
  <2>1. t(15) = Turn(t(14)) /\ t(14) \in Rests
    <3>1. 14 \in 0..15 /\ 14 \in 0..16 /\ 14 + 1 = 15
      OBVIOUS
    <3> QED BY <1>2, <1>3, <3>1
  <2>2. (0 \in t(15) <=> 9 \in t(14)) /\ (1 \in t(15) <=> 0 \in t(14)) /\ (2 \in t(15) <=> 1 \in t(14)) /\ (3 \in t(15) <=> ~(2 \in t(14) <=> 9 \in t(14))) /\ (4 \in t(15) <=> ~(3 \in t(14) <=> 9 \in t(14)))
       /\ (5 \in t(15) <=> ~(4 \in t(14) <=> 9 \in t(14))) /\ (6 \in t(15) <=> 5 \in t(14)) /\ (7 \in t(15) <=> ~(6 \in t(14) <=> 9 \in t(14))) /\ (8 \in t(15) <=> ~(7 \in t(14) <=> 9 \in t(14))) /\ (9 \in t(15) <=> 8 \in t(14))
    BY <2>1, TurnBits
  <2> QED BY <1>24, <2>2
<1>25a. ASSUME j = 15 PROVE r = {}
  <2>1. 5 \notin t(15) /\ 6 \notin t(15) /\ 7 \notin t(15) /\ 8 \notin t(15) /\ 9 \notin t(15)
    BY <1>4, <1>25a
  <2> QED BY <1>5, <1>25, <2>1
<1>26. /\ 0 \in t(16) <=> (~(~(~(~(5 \in r <=> 6 \in r) <=> 7 \in r) <=> 8 \in r) <=> 9 \in r))
       /\ 1 \in t(16) <=> (~(~(~(6 \in r <=> 7 \in r) <=> 8 \in r) <=> 9 \in r))
       /\ 2 \in t(16) <=> (~(~(7 \in r <=> 8 \in r) <=> 9 \in r))
       /\ 3 \in t(16) <=> (~(~(5 \in r <=> 6 \in r) <=> 7 \in r))
       /\ 4 \in t(16) <=> (~(5 \in r <=> 9 \in r))
       /\ 5 \in t(16) <=> (~(~(7 \in r <=> 8 \in r) <=> 9 \in r))
       /\ 6 \in t(16) <=> (~(~(5 \in r <=> 8 \in r) <=> 9 \in r))
       /\ 7 \in t(16) <=> (~(7 \in r <=> 8 \in r))
       /\ 8 \in t(16) <=> (~(~(5 \in r <=> 6 \in r) <=> 7 \in r))
       /\ 9 \in t(16) <=> (~(~(~(5 \in r <=> 6 \in r) <=> 7 \in r) <=> 8 \in r))
  <2>1. t(16) = Turn(t(15)) /\ t(15) \in Rests
    <3>1. 15 \in 0..15 /\ 15 \in 0..16 /\ 15 + 1 = 16
      OBVIOUS
    <3> QED BY <1>2, <1>3, <3>1
  <2>2. (0 \in t(16) <=> 9 \in t(15)) /\ (1 \in t(16) <=> 0 \in t(15)) /\ (2 \in t(16) <=> 1 \in t(15)) /\ (3 \in t(16) <=> ~(2 \in t(15) <=> 9 \in t(15))) /\ (4 \in t(16) <=> ~(3 \in t(15) <=> 9 \in t(15)))
       /\ (5 \in t(16) <=> ~(4 \in t(15) <=> 9 \in t(15))) /\ (6 \in t(16) <=> 5 \in t(15)) /\ (7 \in t(16) <=> ~(6 \in t(15) <=> 9 \in t(15))) /\ (8 \in t(16) <=> ~(7 \in t(15) <=> 9 \in t(15))) /\ (9 \in t(16) <=> 8 \in t(15))
    BY <2>1, TurnBits
  <2> QED BY <1>25, <2>2
<1>26a. ASSUME j = 16 PROVE r = {}
  <2>1. 5 \notin t(16) /\ 6 \notin t(16) /\ 7 \notin t(16) /\ 8 \notin t(16) /\ 9 \notin t(16)
    BY <1>4, <1>26a
  <2> QED BY <1>5, <1>26, <2>1
<1> QED BY <1>11a, <1>12a, <1>13a, <1>14a, <1>15a, <1>16a, <1>17a, <1>18a, <1>19a, <1>20a, <1>21a, <1>22a, <1>23a, <1>24a, <1>25a, <1>26a

(* A burst of no more bits than the remainder has is not divisible.        *)
LEMMA UpOne ==
  ASSUME NEW w, NEW m \in 0..24, NEW n \in 0..24, m + n <= 24, Span(w, m, n)
  PROVE  Modulo(Up(w, 1)) = Turn(Modulo(w)) /\ Modulo(w) \in Rests
<1>1. w \in SUBSET (0..24)
  BY DEF Span
<1> QED BY <1>1, ModuloUp, ModuloSum

LEMMA Down ==
  ASSUME NEW w, NEW lo \in Int, NEW n \in Int, Span(w, lo, n), NEW k \in Int
  PROVE  \E v : Span(v, lo - k, n) /\ Up(v, k) = w
<1>1. PICK m \in Int : m = -k
  OBVIOUS
<1>2. lo + m = lo - k /\ m + k = 0
  BY <1>1
<1>3. /\ Span(Up(w, m), lo + m, n) /\ \A j \in Int : Up(Up(w, m), j) = Up(w, m + j)
      /\ Up(w, 0) = w
  <2>1. Span(Up(w, m), lo + m, n)
    BY Moving
  <2>2. \A j \in Int : Up(Up(w, m), j) = Up(w, m + j)
    BY Moving
  <2>3. Up(w, 0) = w
    BY Moving
  <2> QED BY <2>1, <2>2, <2>3
<1>4. Up(Up(w, m), k) = w
  <2>1. Up(Up(w, m), k) = Up(w, m + k)
    BY <1>3
  <2> QED BY <1>2, <1>3, <2>1
<1> QED BY <1>2, <1>3, <1>4

LEMMA DownOne ==
  ASSUME NEW w, NEW lo \in Int, NEW n \in Int, Span(w, lo + 1, n)
  PROVE  \E v : Span(v, lo, n) /\ Up(v, 1) = w
<1>1. PICK k \in Int : k = 1
  OBVIOUS
<1>2. PICK b \in Int : b = lo + 1
  OBVIOUS
<1>3. \A j \in Int : \E v : Span(v, b - j, n) /\ Up(v, j) = w
  <2> TAKE j \in Int
  <2>1. Span(w, b, n)
    BY <1>2
  <2>2. \A x \in Int : \E v : Span(v, b - x, n) /\ Up(v, x) = w
    BY <2>1, Down
  <2> QED BY <2>2
<1>4. \E v : Span(v, b - k, n) /\ Up(v, k) = w
  BY <1>3
<1>5. b - k = lo
  BY <1>1, <1>2
<1> QED BY <1>1, <1>4, <1>5

LEMMA Low ==
  ASSUME NEW w, NEW m \in 0..9, NEW n \in 0..9, m + n <= 9, Span(w, m, n)
  PROVE  w \in Rests /\ Modulo(w) = w
<1>1. w \in Rests
  BY DEF Span, Rests, ParityBits
<1> QED BY <1>1, ModuloLow

LEMMA ShortBurst ==
  ASSUME NEW m \in 0..16, NEW w, Span(w, m, 9), Modulo(w) = {}
  PROVE  w = {}
<1> DEFINE S == {n \in Nat : n <= 16 => \A v : Span(v, n, 9) /\ Modulo(v) = {} => v = {}}
<1>1. 0 \in S
  BY Low
<1>2. ASSUME NEW n \in Nat, n \in S PROVE n + 1 \in S
  <2>1. SUFFICES ASSUME n + 1 <= 16, NEW v, Span(v, n + 1, 9), Modulo(v) = {} PROVE v = {}
    OBVIOUS
  <2>2. n + 1 \in Int /\ 9 \in Int /\ 1 \in Int /\ (n + 1) - 1 = n /\ n \in 0..24 /\ n + 9 <= 24 /\ 9 \in 0..24
    BY <2>1
  <2>3. PICK u : Span(u, n, 9) /\ Up(u, 1) = v
    BY <2>1, <2>2, DownOne
  <2>4. Span(u, n, 9)
    BY <2>2, <2>3
  <2>5. Turn(Modulo(u)) = {} /\ Modulo(u) \in Rests
    BY <2>1, <2>2, <2>3, <2>4, UpOne
  <2>6. Modulo(u) = {}
    BY <2>5, Turning DEF Turn
  <2>7. u = {}
    BY <1>2, <2>1, <2>4, <2>6
  <2>8. Up(u, 1) = {}
    BY <2>7 DEF Up
  <2> QED BY <2>3, <2>8
<1> HIDE DEF S
<1>3. m \in S
  <2>1. Nat \subseteq S
    BY <1>1, <1>2, Induction
  <2> QED BY <2>1
<1> QED BY <1>3 DEF S

(* Of two bursts of at most five bits that leave the same one is the other. *)
LEMMA UpMany ==
  ASSUME NEW w, NEW m \in 0..24, NEW n \in 0..24, Span(w, m, n), NEW k \in Nat, m + n + k <= 25
  PROVE  Modulo(Up(w, k)) = Turned(Modulo(w))[k]
<1> DEFINE S == {i \in Nat : i <= k => Modulo(Up(w, i)) = Turned(Modulo(w))[i]}
<1>1. Modulo(w) \in Rests
  BY ModuloSum
<1>2. 0 \in S
  <2>1. Up(w, 0) = w
    BY Moving
  <2> QED BY <1>1, <2>1, TurnedSteps
<1>3. ASSUME NEW i \in Nat, i \in S PROVE i + 1 \in S
  <2>1. SUFFICES ASSUME i + 1 <= k PROVE Modulo(Up(w, i + 1)) = Turned(Modulo(w))[i + 1]
    OBVIOUS
  <2>2. /\ i <= k /\ i + 1 \in 1..CodeBits /\ (i + 1) - 1 = i /\ i \in Int /\ m \in Int /\ n \in Int
        /\ m + i \in 0..24 /\ (m + i) + n <= 24
    BY <2>1, Widths
  <2>3. Span(Up(w, i), m + i, n) /\ Up(Up(w, i), 1) = Up(w, i + 1)
    <3>1. Span(Up(w, i), m + i, n)
      BY <2>2, Moving
    <3>2. \A j \in Int : Up(Up(w, i), j) = Up(w, i + j)
      BY <2>2, Moving
    <3> QED BY <3>1, <3>2
  <2>4. Modulo(Up(Up(w, i), 1)) = Turn(Modulo(Up(w, i)))
    BY <2>2, <2>3, UpOne
  <2>5. Turned(Modulo(w))[i + 1] = Turn(Turned(Modulo(w))[i])
    BY <1>1, <2>2, TurnedSteps
  <2> QED BY <1>3, <2>2, <2>3, <2>4, <2>5
<1> HIDE DEF S
<1>4. k \in S
  <2>1. Nat \subseteq S
    BY <1>2, <1>3, Induction
  <2> QED BY <2>1
<1> QED BY <1>4 DEF S

LEMMA UpTurns ==
  ASSUME NEW c, Span(c, 0, 4), NEW j \in 0..16
  PROVE  Modulo(Up(c, 5 + j)) = Turned(Up(c, 5))[j]
<1>1. Span(Up(c, 5), 0 + 5, 4) /\ Up(Up(c, 5), j) = Up(c, 5 + j)
  BY Moving
<1>2. Span(Up(c, 5), 5, 4)
  BY <1>1
<1>3. Modulo(Up(c, 5)) = Up(c, 5)
  BY <1>2, Low
<1>4. 5 \in 0..24 /\ 4 \in 0..24 /\ j \in Nat /\ 5 + 4 + j <= 25
  OBVIOUS
<1>5. Modulo(Up(Up(c, 5), j)) = Turned(Modulo(Up(c, 5)))[j]
  BY <1>2, <1>4, UpMany
<1> QED BY <1>1, <1>3, <1>5

LEMMA LowBurst ==
  ASSUME NEW a, Span(a, 0, 4), NEW c, Span(c, 0, 4), NEW k \in 0..21, Modulo(a) = Modulo(Up(c, k))
  PROVE  a = Up(c, k)
<1>1. a \in SUBSET (0..4) /\ Modulo(a) = a
  <2>1. a \in SUBSET (0..4)
    BY DEF Span
  <2>2. 0 \in 0..9 /\ 4 \in 0..9 /\ 0 + 4 <= 9
    OBVIOUS
  <2> QED BY <2>1, <2>2, Low
<1>0. k \in Int /\ 0 + k = k /\ 4 \in Int
  OBVIOUS
<1>a. Span(Up(c, k), 0 + k, 4) /\ (Up(c, k) = {} <=> c = {})
  <2>1. 0 \in Int
    OBVIOUS
  <2>2. Span(Up(c, k), 0 + k, 4)
    BY <1>0, <2>1, Moving
  <2>3. Up(c, k) = {} <=> c = {}
    BY <1>0, <2>1, Moving
  <2> QED BY <2>2, <2>3
<1>b. Span(Up(c, k), k, 4)
  BY <1>0, <1>a
<1>2. CASE k <= 5
  <2>1. k \in 0..9 /\ k + 4 <= 9 /\ 4 \in 0..9
    BY <1>2
  <2>2. Modulo(Up(c, k)) = Up(c, k)
    BY <1>b, <2>1, Low
  <2> QED BY <1>1, <2>2
<1>3. CASE k > 5
  <2>1. k - 5 \in 1..16 /\ k - 5 \in 0..16 /\ 5 + (k - 5) = k
    BY <1>3
  <2>2. Modulo(Up(c, k)) = Turned(Up(c, 5))[k - 5]
    BY <2>1, UpTurns
  <2>3. Up(c, 5) \in SUBSET (5..9) /\ (Up(c, 5) = {} <=> c = {})
    <3>1. 0 \in Int /\ 4 \in Int /\ 5 \in Int /\ 0 + 5 = 5 /\ 5 + 4 = 9
      OBVIOUS
    <3>2. Span(Up(c, 5), 0 + 5, 4)
      BY <3>1, Moving
    <3>3. Up(c, 5) = {} <=> c = {}
      BY <3>1, Moving
    <3>4. Span(Up(c, 5), 5, 4)
      BY <3>1, <3>2
    <3>5. Up(c, 5) \in SUBSET (5..9)
      BY <3>1, <3>4 DEF Span
    <3> QED BY <3>3, <3>5
  <2>4. Turned(Up(c, 5))[k - 5] \cap (5..9) = {}
    <3>1. Turned(Up(c, 5))[k - 5] = a
      BY <1>1, <2>2
    <3> QED BY <1>1, <3>1
  <2>5. Up(c, 5) = {}
    BY <2>1, <2>3, <2>4, HighTurns
  <2>6. Up(c, k) = {} /\ {} \in Rests
    BY <1>a, <2>3, <2>5, NothingTurns
  <2> QED BY <1>1, <2>6, ModuloLow
<1> QED BY <1>2, <1>3

LEMMA OrderedBursts ==
  ASSUME NEW i \in 0..21, NEW j \in i..21, NEW a, Span(a, i, 4), NEW b, Span(b, j, 4),
         Modulo(a) = Modulo(b)
  PROVE  a = b
<1> DEFINE S == {n \in Nat : n <= 21 => \A k \in n..21 : \A u, v :
                   Span(u, n, 4) /\ Span(v, k, 4) /\ Modulo(u) = Modulo(v) => u = v}
<1>1. 0 \in S
  <2>1. SUFFICES ASSUME NEW k \in 0..21, NEW u, NEW v, Span(u, 0, 4), Span(v, k, 4), Modulo(u) = Modulo(v)
                 PROVE  u = v
    OBVIOUS
  <2>2. k \in Int /\ 4 \in Int /\ k - k = 0
    OBVIOUS
  <2>3. PICK c : Span(c, k - k, 4) /\ Up(c, k) = v
    BY <2>1, <2>2, Down
  <2>4. Span(c, 0, 4)
    BY <2>2, <2>3
  <2> QED BY <2>1, <2>3, <2>4, LowBurst
<1>2. ASSUME NEW n \in Nat, n \in S PROVE n + 1 \in S
  <2>1. SUFFICES ASSUME n + 1 <= 21, NEW k \in (n + 1)..21, NEW u, NEW v,
                        Span(u, n + 1, 4), Span(v, k, 4), Modulo(u) = Modulo(v)
                 PROVE  u = v
    OBVIOUS
  <2>2. /\ n + 1 \in Int /\ k \in Int /\ 4 \in Int /\ 1 \in Int /\ (n + 1) - 1 = n /\ k - 1 \in n..21
        /\ n \in 0..24 /\ n + 4 <= 24 /\ k - 1 \in 0..24 /\ (k - 1) + 4 <= 24 /\ 4 \in 0..24 /\ n <= 21
    BY <2>1
  <2>3. PICK x : Span(x, n, 4) /\ Up(x, 1) = u
    BY <2>1, <2>2, DownOne
  <2>4. PICK y : Span(y, k - 1, 4) /\ Up(y, 1) = v
    <3>1. k - 1 \in Int /\ (k - 1) + 1 = k
      BY <2>2
    <3> QED BY <2>1, <2>2, <3>1, DownOne
  <2>5. Span(x, n, 4)
    BY <2>2, <2>3
  <2>6. Modulo(u) = Turn(Modulo(x)) /\ Modulo(x) \in Rests
    BY <2>2, <2>3, <2>5, UpOne
  <2>7. Modulo(v) = Turn(Modulo(y)) /\ Modulo(y) \in Rests
    BY <2>2, <2>4, UpOne
  <2>8. Modulo(x) = Modulo(y)
    <3>1. Sum(Modulo(x), Modulo(y)) \in Rests
      BY <2>6, <2>7, SumIn DEF Rests
    <3>2. Turn(Sum(Modulo(x), Modulo(y))) = Sum(Turn(Modulo(x)), Turn(Modulo(y)))
      BY <2>6, <2>7, TurnSum
    <3>3. Turn(Sum(Modulo(x), Modulo(y))) = {}
      BY <2>1, <2>6, <2>7, <3>2, SumSelf
    <3>4. Sum(Modulo(x), Modulo(y)) = {}
      BY <3>1, <3>3, Turning DEF Turn
    <3> QED BY <3>4, SumTwo
  <2>9. x = y
    BY <1>2, <2>2, <2>4, <2>5, <2>8
  <2> QED BY <2>3, <2>4, <2>9
<1> HIDE DEF S
<1>3. i \in S
  <2>1. Nat \subseteq S
    BY <1>1, <1>2, Induction
  <2> QED BY <2>1
<1> QED BY <1>3 DEF S

LEMMA TwoBursts ==
  ASSUME NEW i \in 0..21, NEW j \in 0..21, NEW a, Span(a, i, 4), NEW b, Span(b, j, 4),
         Modulo(a) = Modulo(b)
  PROVE  a = b
<1>1. CASE i <= j
  <2>1. j \in i..21
    BY <1>1
  <2> QED BY <2>1, OrderedBursts
<1>2. CASE j <= i
  <2>1. i \in j..21
    BY <1>2
  <2> QED BY <2>1, OrderedBursts
<1> QED BY <1>1, <1>2

-----------------------------------------------------------------------------
(* What encodeRdsBlock sends.                                              *)
Word(info) == Sum(Up(info, 10), Parity(info))

LEMMA Encoded ==
  ASSUME NEW info \in InfoWords, NEW offset \in Rests
  PROVE  /\ Sum(Encode(info, offset), offset) = Word(info)
         /\ InfoOf(Word(info)) = info /\ Modulo(Word(info)) = {}
<1>0. info \in SUBSET (0..15)
  BY DEF InfoWords, InfoBits
<1>1. Parity(info) \in Rests /\ Parity(info) \subseteq 0..9
  <2>1. Parity(info) \in Rests
    BY ParityIn
  <2> QED BY <2>1 DEF Rests, ParityBits
<1>2. Sum(Parity(info), offset) \in Rests
  BY <1>1, SumIn DEF Rests
<1>3. Sum(Parity(info), offset) \subseteq 0..9
  BY <1>2 DEF Rests, ParityBits
<1>4. \A x \in Up(info, 10) : x \in 10..25
  <2> TAKE x \in Up(info, 10)
  <2>1. PICK i \in info : x = i + 10
    BY DEF Up
  <2>2. i \in 0..15
    BY <1>0
  <2> QED BY <2>1, <2>2
<1>5. Encode(info, offset) = Sum(Up(info, 10), Sum(Parity(info), offset))
  <2>1. Encode(info, offset) = Up(info, 10) \cup Sum(Parity(info), offset)
    BY Widths DEF Encode, Up
  <2>2. \A x : ~(x \in Up(info, 10) /\ x \in Sum(Parity(info), offset))
    BY <1>3, <1>4
  <2>3. \A x : x \in Sum(Up(info, 10), Sum(Parity(info), offset)) <=>
              ~(x \in Up(info, 10) <=> x \in Sum(Parity(info), offset))
    BY SumIs
  <2>4. \A x : x \in Encode(info, offset) <=> x \in Sum(Up(info, 10), Sum(Parity(info), offset))
    BY <2>1, <2>2, <2>3
  <2> QED BY <2>4
<1>6. Sum(Encode(info, offset), offset) = Word(info)
  <2>1. Sum(Up(info, 10), Sum(Parity(info), offset)) = Sum(Sum(Up(info, 10), Parity(info)), offset)
    BY Sums
  <2>2. Sum(Sum(Sum(Up(info, 10), Parity(info)), offset), offset) = Sum(Up(info, 10), Parity(info))
    BY SumTwo
  <2> QED BY <1>5, <2>1, <2>2 DEF Word
<1>7. InfoOf(Word(info)) = info
  <2>1. \A x : x \in Word(info) <=> ~(x \in Up(info, 10) <=> x \in Parity(info))
    BY SumIs DEF Word
  <2>2. \A x : x \in Word(info) /\ x >= 10 <=> x \in Up(info, 10)
    <3> SUFFICES ASSUME NEW x PROVE x \in Word(info) /\ x >= 10 <=> x \in Up(info, 10)
      OBVIOUS
    <3>1. x \in Parity(info) => x \in 0..9
      BY <1>1
    <3>2. x \in Up(info, 10) => x \in 10..25
      BY <1>4
    <3> QED BY <2>1, <3>1, <3>2
  <2>3. InfoOf(Word(info)) = {i - 10 : i \in {j \in Word(info) : j >= 10}}
    BY Widths DEF InfoOf
  <2>4. \A j : j \in {j_1 \in Word(info) : j_1 >= 10} <=> j \in Up(info, 10)
    BY <2>2
  <2>5. InfoOf(Word(info)) = {i - 10 : i \in Up(info, 10)}
    BY <2>3, <2>4
  <2>6. \A i \in info : (i + 10) - 10 = i
    BY <1>0
  <2>7. \A x : x \in InfoOf(Word(info)) <=> \E i \in Up(info, 10) : x = i - 10
    BY <2>5
  <2>8. \A i : i \in Up(info, 10) <=> \E b \in info : i = b + 10
    BY DEF Up
  <2>9. ASSUME NEW x \in InfoOf(Word(info)) PROVE x \in info
    <3>1. PICK i \in Up(info, 10) : x = i - 10
      BY <2>7
    <3>2. PICK b \in info : i = b + 10
      BY <2>8
    <3> QED BY <2>6, <3>1, <3>2
  <2>10. ASSUME NEW x \in info PROVE x \in InfoOf(Word(info))
    <3>1. x + 10 \in Up(info, 10) /\ x = (x + 10) - 10
      BY <2>6, <2>8
    <3> QED BY <2>7, <3>1
  <2> QED BY <2>9, <2>10
<1>8. Modulo(Word(info)) = {}
  <2>1. Modulo(Word(info)) = Sum(Modulo(Up(info, 10)), Modulo(Parity(info)))
    BY ModuloSum DEF Word
  <2>2. Modulo(Up(info, 10)) = Parity(info)
    BY ModuloInfo
  <2>3. Modulo(Parity(info)) = Parity(info)
    BY <1>1, ModuloLow
  <2> QED BY <2>1, <2>2, <2>3, SumSelf
<1> QED BY <1>6, <1>7, <1>8

-----------------------------------------------------------------------------
(* The errors that decodeRdsBlock traps.                                   *)
LEMMA RotationSteps ==
  ASSUME NEW syndrome \in Rests
  PROVE  /\ Rotation(syndrome)[0] = [times |-> 0, rest |-> syndrome]
         /\ \A i \in 1..CodeBits : Rotation(syndrome)[i] = Rotate(Rotation(syndrome)[i - 1], i)
<1> DEFINE S == [times : 0..CodeBits, rest : Rests]
           start == [times |-> 0, rest |-> syndrome]
           G == [i \in 1..CodeBits |-> [w \in S |-> Rotate(w, i)]]
<1>0. CodeBits \in Nat
  BY Widths
<1>1. ASSUME NEW i \in 1..CodeBits, NEW w \in S PROVE G[i][w] = Rotate(w, i) /\ G[i][w] \in S
  <2>1. Step(w.rest, {}) \in Rests
    BY TurnSum DEF Turn
  <2>2. Rotate(w, i) \in S
    BY <1>0, <2>1 DEF Rotate
  <2> HIDE DEF S
  <2> QED BY <2>2
<1>2. start \in S
  BY <1>0
<1> HIDE DEF G, S, start
<1>3. PICK F \in [0..CodeBits -> S] :
        F[0] = start /\ \A i \in 1..CodeBits : F[i] = G[i][F[i - 1]]
  <2>1. MapsInto(G, CodeBits, S)
    BY <1>1 DEF MapsInto
  <2> QED BY <1>0, <1>2, <2>1, Recursion
<1> DEFINE Stage(f, i) == IF i = 0 THEN start ELSE Rotate(f[i - 1], i)
<1>4. F = [i \in 0..CodeBits |-> Stage(F, i)]
  <2>1. ASSUME NEW i \in 0..CodeBits PROVE F[i] = Stage(F, i)
    <3>1. CASE i = 0
      BY <1>3, <3>1
    <3>2. CASE i # 0
      <4>1. i \in 1..CodeBits /\ i - 1 \in 0..CodeBits
        BY <1>0, <3>2
      <4> QED BY <1>1, <1>3, <3>2, <4>1
    <3> QED BY <3>1, <3>2
  <2>2. F = [i \in 0..CodeBits |-> F[i]]
    BY <1>3
  <2> HIDE DEF Stage
  <2> QED BY <2>1, <2>2
<1>5. Rotation(syndrome) = CHOOSE f : f = [i \in 0..CodeBits |-> Stage(f, i)]
  BY DEF Rotation, start
<1>6. Rotation(syndrome) = [i \in 0..CodeBits |-> Stage(Rotation(syndrome), i)]
  <2> HIDE DEF Stage
  <2> QED BY <1>4, <1>5
<1>7. 0 \in 0..CodeBits /\ \A i \in 1..CodeBits : i \in 0..CodeBits /\ i # 0
  BY <1>0
<1> DEFINE R == Rotation(syndrome)
<1>8. \A i \in 0..CodeBits : R[i] = Stage(R, i)
  <2>1. R = [i \in 0..CodeBits |-> Stage(R, i)]
    BY <1>6
  <2> HIDE DEF R, Stage
  <2> QED BY <2>1
<1> HIDE DEF R
<1>9. R[0] = start /\ \A i \in 1..CodeBits : R[i] = Rotate(R[i - 1], i)
  BY <1>7, <1>8
<1> QED BY <1>9 DEF R, start

LEMMA RotationTraps ==
  ASSUME NEW syndrome \in Rests
  PROVE  LET word == Rotation(syndrome)[CodeBits]
         IN word.times \in 0..26 /\ word.rest \in Rests /\ (word.times # 26 => word.rest \subseteq 5..9)
<1> DEFINE R == Rotation(syndrome)
           S == {n \in Nat : n <= 26 => /\ R[n].times \in 0..n /\ R[n].rest \in Rests
                                        /\ R[n].times < n => R[n].rest \cap Trap = {}}
<1>1. CodeBits = 26
  BY Widths
<1>2. R[0] = [times |-> 0, rest |-> syndrome] /\ \A i \in 1..26 : R[i] = Rotate(R[i - 1], i)
  BY <1>1, RotationSteps
<1> HIDE DEF R
<1>3. 0 \in S
  BY <1>2
<1>4. ASSUME NEW n \in Nat, n \in S PROVE n + 1 \in S
  <2>1. SUFFICES ASSUME n + 1 <= 26
                 PROVE  /\ R[n + 1].times \in 0..(n + 1) /\ R[n + 1].rest \in Rests
                        /\ R[n + 1].times < n + 1 => R[n + 1].rest \cap Trap = {}
    OBVIOUS
  <2>2. n + 1 \in 1..26 /\ n <= 26 /\ (n + 1) - 1 = n
    BY <2>1
  <2>3. R[n + 1] = Rotate(R[n], n + 1)
    BY <1>2, <2>2
  <2>4. R[n].times \in 0..n /\ R[n].rest \in Rests
    BY <1>4, <2>2
  <2>5. CASE R[n].rest \cap Trap = {}
    <3>1. R[n + 1] = R[n]
      BY <2>3, <2>5 DEF Rotate
    <3> QED BY <2>4, <2>5, <3>1
  <2>6. CASE R[n].rest \cap Trap # {}
    <3>1. R[n + 1] = [times |-> n + 1, rest |-> Step(R[n].rest, {})]
      BY <2>3, <2>6 DEF Rotate
    <3>2. Step(R[n].rest, {}) \in Rests
      BY <2>4, TurnSum DEF Turn
    <3> QED BY <3>1, <3>2
  <2> QED BY <2>5, <2>6
<1> HIDE DEF S
<1>5. 26 \in S
  <2>1. Nat \subseteq S
    BY <1>3, <1>4, Induction
  <2> QED BY <2>1
<1>6. R[26].times \in 0..26 /\ R[26].rest \in Rests /\ (R[26].times < 26 => R[26].rest \cap Trap = {})
  BY <1>5 DEF S
<1>7. ASSUME R[26].times # 26 PROVE R[26].rest \subseteq 5..9
  <2>1. R[26].rest \cap Trap = {} /\ R[26].rest \subseteq 0..9
    BY <1>6, <1>7 DEF Rests, ParityBits
  <2> HIDE DEF S
  <2> QED BY <2>1 DEF Trap
<1> QED BY <1>1, <1>6, <1>7 DEF R

LEMMA Wraps == \A x \in -4..25 : x % 26 = IF x < 0 THEN x + 26 ELSE x
OBVIOUS

LEMMA TrappedSpan ==
  ASSUME NEW syndrome \in Rests, Trapped(syndrome) \cap 0..9 = {}
  PROVE  \E m \in 0..21 : Span(Trapped(syndrome), m, 4)
<1> DEFINE word == Rotation(syndrome)[CodeBits]
           times == word.times
           rest == word.rest
           errors == Trapped(syndrome)
<1>1. times \in 0..26 /\ (times # 26 => rest \subseteq 5..9)
  BY RotationTraps
<1>2. errors = IF times = 26 THEN {} ELSE {(b + 16 - times) % 26 : b \in rest}
  BY Widths DEF Trapped
<1>3. errors \cap 0..9 = {}
  OBVIOUS
<1>4. SUFFICES \E m \in 0..21 : errors \subseteq m..(m + 4)
  BY DEF Span
<1> HIDE DEF word, times, rest, errors
<1>5. CASE times = 26
  BY <1>2, <1>5
<1>6. CASE times < 26 /\ times <= 21
  <2>1. ASSUME NEW x \in errors PROVE x \in (21 - times)..((21 - times) + 4)
    <3>1. PICK b \in rest : x = (b + 16 - times) % 26
      BY <1>2, <1>6
    <3>2. b \in 5..9 /\ b + 16 - times \in 0..25 /\ b + 16 - times \in (21 - times)..((21 - times) + 4)
      BY <1>1, <1>6
    <3>3. x = b + 16 - times
      BY <3>1, <3>2, Wraps
    <3> QED BY <3>2, <3>3
  <2>2. 21 - times \in 0..21
    BY <1>1, <1>6
  <2> QED BY <2>1, <2>2
<1>7. CASE times < 26 /\ times > 21
  <2>1. ASSUME NEW x \in errors PROVE x \in 21..(21 + 4)
    <3>1. PICK b \in rest : x = (b + 16 - times) % 26
      BY <1>2, <1>7
    <3>2. b \in 5..9 /\ b + 16 - times \in -4..3
      BY <1>1, <1>7
    <3>3. x = IF b + 16 - times < 0 THEN b + 16 - times + 26 ELSE b + 16 - times
      BY <3>1, <3>2, Wraps
    <3>4. x \notin 0..9
      BY <1>3
    <3> QED BY <3>2, <3>3, <3>4
  <2> QED BY <2>1
<1> QED BY <1>1, <1>5, <1>6, <1>7

-----------------------------------------------------------------------------
(* A block with errors.  It is decoded as if it had the offset p.          *)
LEMMA BlockIs ==
  ASSUME NEW info \in InfoWords, NEW o \in Rests, NEW p, NEW e
  PROVE  Sum(Sum(Encode(info, o), e), p) = Sum(Word(info), Sum(e, Sum(o, p)))
<1>1. Sum(Encode(info, o), o) = Word(info)
  BY Encoded
<1>2. \A x : x \in Sum(Sum(Encode(info, o), e), p) <=> x \in Sum(Word(info), Sum(e, Sum(o, p)))
  <2> TAKE x
  <2>1. /\ x \in Sum(Sum(Encode(info, o), e), p) <=> ~(x \in Sum(Encode(info, o), e) <=> x \in p)
        /\ x \in Sum(Encode(info, o), e) <=> ~(x \in Encode(info, o) <=> x \in e)
        /\ x \in Word(info) <=> ~(x \in Encode(info, o) <=> x \in o)
        /\ x \in Sum(Word(info), Sum(e, Sum(o, p))) <=> ~(x \in Word(info) <=> x \in Sum(e, Sum(o, p)))
        /\ x \in Sum(e, Sum(o, p)) <=> ~(x \in e <=> x \in Sum(o, p))
        /\ x \in Sum(o, p) <=> ~(x \in o <=> x \in p)
    BY <1>1, SumIs
  <2> QED BY <2>1
<1> QED BY <1>2

LEMMA DecodedAs ==
  ASSUME NEW info \in InfoWords, NEW o \in Rests, NEW p, NEW e
  PROVE  LET d == DecodeBlock(Sum(Encode(info, o), e), p)
         IN /\ d.status \in {Uncorrectable, Corrected, Valid}
            /\ d.status = Valid <=> Modulo(Sum(e, Sum(o, p))) = {}
            /\ d.status = Valid => d.data = InfoOf(Sum(Word(info), Sum(e, Sum(o, p))))
<1> DEFINE received == Sum(Encode(info, o), e)
           block == Sum(received, p)
           d == DecodeBlock(received, p)
<1>1. block = Sum(Word(info), Sum(e, Sum(o, p)))
  BY BlockIs
<1>2. Syndrome(block) = {} <=> Modulo(Sum(e, Sum(o, p))) = {}
  <2>1. Modulo(block) = Sum(Modulo(Word(info)), Modulo(Sum(e, Sum(o, p))))
    BY <1>1, ModuloSum
  <2>2. Modulo(Word(info)) = {}
    BY Encoded
  <2>3. Modulo(block) = Modulo(Sum(e, Sum(o, p)))
    BY <2>1, <2>2, SumSelf
  <2> QED BY <2>3, SyndromeZero
<1>3. CASE Syndrome(block) = {}
  <2>1. d = [status |-> Valid, data |-> InfoOf(block)]
    BY <1>3 DEF DecodeBlock
  <2> QED BY <1>1, <1>2, <1>3, <2>1 DEF Valid
<1>4. CASE Syndrome(block) # {}
  <2>1. d.status \in {Uncorrectable, Corrected}
    BY <1>4 DEF DecodeBlock, Unknown
  <2> QED BY <1>2, <1>4, <2>1 DEF Valid, Corrected, Uncorrectable
<1> QED BY <1>3, <1>4

LEMMA DecodeShape ==
  ASSUME NEW received, NEW offset
  PROVE  LET d == DecodeBlock(received, offset) IN d = [status |-> d.status, data |-> d.data]
BY DEF DecodeBlock, Unknown

LEMMA DecodedRight ==
  ASSUME NEW info \in InfoWords, NEW o \in Rests, NEW e
  PROVE  LET d == DecodeBlock(Sum(Encode(info, o), e), o)
         IN /\ d.status \in {Uncorrectable, Corrected, Valid}
            /\ d.status = Valid /\ (\E m \in 0..16 : Span(e, m, 9)) => d.data = info
            /\ d.status = Corrected /\ (\E m \in 0..21 : Span(e, m, 4)) => d.data = info
<1> DEFINE received == Sum(Encode(info, o), e)
           block == Sum(received, o)
           d == DecodeBlock(received, o)
<1>1. Sum(e, Sum(o, o)) = e
  BY SumSelf
<1>2. block = Sum(Word(info), e)
  BY <1>1, BlockIs
<1>3. d.status \in {Uncorrectable, Corrected, Valid} /\ (d.status = Valid <=> Modulo(e) = {})
      /\ (d.status = Valid => d.data = InfoOf(block))
  BY <1>1, <1>2, DecodedAs
<1>4. InfoOf(Word(info)) = info /\ Modulo(Word(info)) = {}
  BY Encoded
<1>6. ASSUME d.status = Valid, NEW m \in 0..16, Span(e, m, 9) PROVE d.data = info
  <2>1. e = {}
    BY <1>3, <1>6, ShortBurst
  <2>2. block = Word(info)
    BY <1>2, <2>1, SumSelf
  <2> QED BY <1>3, <1>4, <1>6, <2>2
<1>7. ASSUME d.status = Corrected, NEW m \in 0..21, Span(e, m, 4) PROVE d.data = info
  <2> DEFINE syndrome == Syndrome(block)
             errors == Trapped(syndrome)
             corrected == Sum(block, errors)
  <2>1. syndrome # {} /\ Syndrome(corrected) = {} /\ errors \cap 0..9 = {} /\ d.data = InfoOf(corrected)
    <3>1. d = IF syndrome = {}
              THEN [status |-> Valid, data |-> InfoOf(block)]
              ELSE IF errors = {} \/ Syndrome(corrected) # {} \/ errors \cap 0..(ParityBits - 1) # {}
                   THEN Unknown
                   ELSE [status |-> Corrected, data |-> InfoOf(corrected)]
      BY DEF DecodeBlock
    <3>2. ParityBits - 1 = 9
      BY Widths
    <3>3. d.status = Corrected
      BY <1>7
    <3> HIDE DEF d, syndrome, errors, corrected
    <3> QED BY <3>1, <3>2, <3>3 DEF Valid, Corrected, Uncorrectable, Unknown
  <2>2. syndrome \in Rests
    BY SyndromeZero
  <2>3. PICK k \in 0..21 : Span(errors, k, 4)
    BY <2>1, <2>2, TrappedSpan
  <2>4. corrected = Sum(Word(info), Sum(e, errors))
    BY <1>2, Sums
  <2>5. Modulo(Sum(e, errors)) = {}
    <3>1. Modulo(corrected) = Sum(Modulo(Word(info)), Modulo(Sum(e, errors)))
      BY <2>4, ModuloSum
    <3>2. Modulo(corrected) = {}
      BY <2>1, SyndromeZero
    <3> QED BY <1>4, <3>1, <3>2, SumSelf
  <2>6. Modulo(e) = Modulo(errors)
    <3>1. Sum(Modulo(e), Modulo(errors)) = {}
      BY <2>5, ModuloSum
    <3> QED BY <3>1, SumTwo
  <2> HIDE DEF errors
  <2>7. e = errors
    BY <1>7, <2>3, <2>6, TwoBursts
  <2>8. corrected = Word(info)
    BY <2>4, <2>7, SumSelf
  <2> QED BY <1>4, <2>1, <2>8
<1> HIDE DEF d
<1>8. d.status = Valid /\ (\E m \in 0..16 : Span(e, m, 9)) => d.data = info
  BY <1>6
<1>9. d.status = Corrected /\ (\E m \in 0..21 : Span(e, m, 4)) => d.data = info
  BY <1>7
<1> QED BY <1>3, <1>8, <1>9 DEF d

-----------------------------------------------------------------------------
(* Where a burst hits the blocks.                                          *)
LEMMA BlockOf == \A q \in Nat, b \in 0..3 : q \div 26 = b <=> 26 * b <= q /\ q <= 26 * b + 25
OBVIOUS

LEMMA Hits ==
  ASSUME NEW b \in 0..3, NEW start \in 0..103, NEW burst \in SUBSET Nat
  PROVE  \A x \in Hit(b, start, burst) : \E d \in burst : x = 25 - (start + d - 26 * b) /\ x \in 0..25
<1> TAKE x \in Hit(b, start, burst)
<1>1. Hit(b, start, burst) = {26 - 1 - (p - 26 * b) : p \in {q \in {start + d : d \in burst} : q \div 26 = b}}
  BY Widths DEF Hit
<1>2. PICK q \in {start + d : d \in burst} : q \div 26 = b /\ x = 26 - 1 - (q - 26 * b)
  BY <1>1
<1>3. PICK d \in burst : q = start + d
  BY <1>2
<1>4. q \in Nat /\ d \in Nat
  <2>1. d \in Nat
    OBVIOUS
  <2>2. start \in Nat
    OBVIOUS
  <2> QED BY <1>3, <2>1, <2>2
<1>5. 26 * b <= q /\ q <= 26 * b + 25
  BY <1>2, <1>4, BlockOf
<1>6. x = 25 - (start + d - 26 * b) /\ x \in 0..25
  BY <1>2, <1>3, <1>4, <1>5
<1> QED BY <1>6

LEMMA HitSpan ==
  ASSUME NEW b \in 0..3, NEW start \in 0..103, NEW n \in 0..25, NEW burst \in SUBSET (0..n)
  PROVE  \E m \in 0..(25 - n) : Span(Hit(b, start, burst), m, n)
<1> DEFINE hit == Hit(b, start, burst)
<1>1. burst \in SUBSET Nat /\ \A d \in burst : d \in 0..n
  OBVIOUS
<1>2. \A x \in hit : \E d \in burst : x = 25 - (start + d - 26 * b) /\ x \in 0..25
  BY <1>1, Hits
<1>3. SUFFICES \E m \in 0..(25 - n) : \A x \in hit : x \in m..(m + n)
  BY DEF Span
<1> HIDE DEF hit
<1>4. \A x \in hit : /\ x \in 0..25 /\ 25 - (start - 26 * b) - n <= x /\ x <= 25 - (start - 26 * b)
  BY <1>1, <1>2
<1>5. CASE start - 26 * b < 0
  <2>1. 25 - n \in 0..(25 - n) /\ \A x \in hit : x \in (25 - n)..((25 - n) + n)
    BY <1>4, <1>5
  <2> QED BY <2>1
<1>6. CASE start - 26 * b \in 0..(25 - n)
  <2> DEFINE m == 25 - (start - 26 * b) - n
  <2>1. m \in 0..(25 - n) /\ \A x \in hit : x \in m..(m + n)
    BY <1>4, <1>6
  <2> QED BY <2>1
<1>7. CASE start - 26 * b > 25 - n
  <2>1. 0 \in 0..(25 - n) /\ \A x \in hit : x \in 0..(0 + n)
    BY <1>4, <1>7
  <2> QED BY <2>1
<1>8. start - 26 * b \in Int
  OBVIOUS
<1> QED BY <1>5, <1>6, <1>7, <1>8

(* A burst that goes far into the second block ends early in the third.    *)
LEMMA HitNext ==
  ASSUME NEW start \in 0..103, NEW burst \in SUBSET (0..9), ~Span(Hit(1, start, burst), 0, 4)
  PROVE  \A y \in Hit(2, start, burst) : y \in 22..25
<1>1. burst \in SUBSET Nat /\ \A d \in burst : d \in 0..9
  OBVIOUS
<1>2. \A x \in Hit(1, start, burst) : \E d \in burst : x = 25 - (start + d - 26 * 1) /\ x \in 0..25
  BY <1>1, Hits
<1>3. \A x \in Hit(2, start, burst) : \E d \in burst : x = 25 - (start + d - 26 * 2) /\ x \in 0..25
  BY <1>1, Hits
<1>4. PICK x \in Hit(1, start, burst) : x \notin 0..4
  BY DEF Span
<1>5. PICK d \in burst : x = 25 - (start + d - 26) /\ x \in 0..25
  BY <1>2
<1>6. start <= 46
  BY <1>1, <1>4, <1>5
<1>7. ASSUME NEW y \in Hit(2, start, burst) PROVE y \in 22..25
  <2>1. PICK f \in burst : y = 25 - (start + f - 52) /\ y \in 0..25
    BY <1>3
  <2> QED BY <1>1, <1>6, <2>1
<1> QED BY <1>7

-----------------------------------------------------------------------------
(* The versions of the third block.                                        *)
Versions == {3, 4, 5, 9}

LEMMA OffsetsIn ==
  /\ \A b \in 1..4 : Offsets[b] \in Rests
  /\ OffsetVersionB \in Rests
  /\ Sum(Offsets[3], OffsetVersionB) = Versions /\ Sum(OffsetVersionB, Offsets[3]) = Versions
<1>1. Offsets[1] \in Rests /\ Offsets[2] \in Rests /\ Offsets[3] \in Rests /\ Offsets[4] \in Rests
  BY DEF Offsets, Rests, ParityBits
<1>2. OffsetVersionB \in Rests
  BY DEF OffsetVersionB, Rests, ParityBits
<1>3. Sum(Offsets[3], OffsetVersionB) = Versions
  <2>1. Offsets[3] = {3, 5, 6, 8}
    BY DEF Offsets
  <2>2. \A x : x \in Sum(Offsets[3], OffsetVersionB) <=> ~(x \in {3, 5, 6, 8} <=> x \in {4, 6, 8, 9})
    BY <2>1, SumIs DEF OffsetVersionB
  <2>3. \A x : x \in Sum(Offsets[3], OffsetVersionB) <=> x \in Versions
    BY <2>2 DEF Versions
  <2> QED BY <2>3
<1>4. Sum(OffsetVersionB, Offsets[3]) = Versions
  BY <1>3, SumTwo
<1>5. \A b \in 1..4 : b = 1 \/ b = 2 \/ b = 3 \/ b = 4
  OBVIOUS
<1> QED BY <1>1, <1>2, <1>3, <1>4, <1>5

(* A burst that makes one version the other hits the bit 20.               *)
LEMMA Confused ==
  ASSUME NEW e, Modulo(Sum(e, Versions)) = {}, \A x \in e : x \in 22..25
  PROVE  FALSE
<1> DEFINE w == {3, 6, 7}
           v == Up(w, 17)
<1>1. Versions \in Rests /\ Modulo(Versions) = Versions
  <2>1. Versions \in Rests
    BY DEF Versions, Rests, ParityBits
  <2> QED BY <2>1, ModuloLow
<1>2. Modulo(e) = Versions
  <2>1. Sum(Modulo(e), Modulo(Versions)) = {}
    BY ModuloSum
  <2> QED BY <1>1, <2>1, SumTwo
<1>3. Modulo(v) = Versions
  <2>1. Span(w, 3, 4)
    BY DEF Span
  <2>2. w \in Rests
    BY DEF Rests, ParityBits
  <2>3. 3 \in 0..24 /\ 4 \in 0..24 /\ 17 \in Nat /\ 3 + 4 + 17 <= 25
    OBVIOUS
  <2>4. Turned(w)[17] = Versions
    BY VersionsTurn DEF Versions
  <2> HIDE DEF w
  <2>5. Modulo(Up(w, 17)) = Turned(Modulo(w))[17]
    BY <2>1, <2>3, UpMany
  <2> QED BY <2>2, <2>4, <2>5, ModuloLow
<1>4. \A x : x \in v <=> x \in {20, 23, 24}
  <2>1. \A x : x \in v <=> \E i \in w : x = i + 17
    BY DEF Up
  <2> HIDE DEF v
  <2> QED BY <2>1
<1> HIDE DEF v
<1>5. Span(Sum(e, v), 16, 9) /\ 20 \in Sum(e, v)
  <2>1. \A x : x \in Sum(e, v) <=> ~(x \in e <=> x \in v)
    BY SumIs
  <2>2. 20 \notin e /\ \A x \in e : x \in 16..25
    OBVIOUS
  <2>3. 20 \in Sum(e, v)
    BY <1>4, <2>1, <2>2
  <2>4. \A x \in Sum(e, v) : x \in 16..25
    BY <1>4, <2>1, <2>2
  <2> QED BY <2>3, <2>4 DEF Span
<1>6. Modulo(Sum(e, v)) = {}
  BY <1>2, <1>3, ModuloSum, SumSelf
<1>7. 16 \in 0..16
  OBVIOUS
<1>8. Sum(e, v) = {}
  BY <1>5, <1>6, <1>7, ShortBurst
<1> QED BY <1>5, <1>8

(* The third block is not taken for the other version, unless the second   *)
(* one is not decoded.                                                     *)
LEMMA OtherVersion ==
  ASSUME NEW info \in InfoWords, NEW o \in Rests, NEW p, Sum(o, p) = Versions, NEW e,
         \A x \in e : x \in 22..25
  PROVE  DecodeBlock(Sum(Encode(info, o), e), p).status # Valid
<1>1. DecodeBlock(Sum(Encode(info, o), e), p).status = Valid => Modulo(Sum(e, Versions)) = {}
  BY DecodedAs
<1> QED BY <1>1, Confused

-----------------------------------------------------------------------------
(* A group.                                                                *)
Statuses == {Uncorrectable, Corrected, Valid}

\* The block is what was sent, as far as it is said to be.
Fine(d, info, burst) ==
  \/ d.data = info
  \/ d.status = Uncorrectable
  \/ d.status = Corrected /\ ~(burst \subseteq 0..4)

LEMMA AnyStatus ==
  ASSUME NEW received, NEW offset
  PROVE  DecodeBlock(received, offset).status \in Statuses
BY DEF DecodeBlock, Unknown, Statuses

LEMMA GroupStatus ==
  ASSUME NEW received
  PROVE  \A b \in 1..4 : Extracted(received).group[b].status \in Statuses
<1> DEFINE first == DecodeBlock(received[0], Offsets[1])
           second == DecodeBlock(received[1], Offsets[2])
           versionA == DecodeBlock(received[2], Offsets[3])
           versionB == DecodeBlock(received[2], OffsetVersionB)
           isB == versionB.status >= versionA.status
           third == IF isB THEN versionB ELSE versionA
           fourth == DecodeBlock(received[3], Offsets[4])
           doubt == /\ third.status # Uncorrectable /\ second.status # Uncorrectable
                    /\ (VersionBit \in second.data) # isB
           secondLoses == doubt /\ second.status <= third.status
           rest == IF doubt /\ ~secondLoses THEN Uncorrectable ELSE third.status
           group == Extracted(received).group
<1>1. group = <<first, IF secondLoses THEN [second EXCEPT !.status = Uncorrectable] ELSE second,
                [third EXCEPT !.status = rest], fourth>>
  BY DEF Extracted
<1>2. /\ first.status \in Statuses /\ second.status \in Statuses /\ fourth.status \in Statuses
      /\ versionA.status \in Statuses /\ versionB.status \in Statuses
  BY AnyStatus
<1>3. /\ second = [status |-> second.status, data |-> second.data]
      /\ versionA = [status |-> versionA.status, data |-> versionA.data]
      /\ versionB = [status |-> versionB.status, data |-> versionB.data]
  BY DecodeShape
<1>4. third = versionA \/ third = versionB
  OBVIOUS
<1>5. Uncorrectable \in Statuses
  BY DEF Statuses
<1> HIDE DEF first, second, versionA, versionB, isB, third, fourth, secondLoses, group
<1>6. third.status \in Statuses /\ third = [status |-> third.status, data |-> third.data]
  BY <1>2, <1>3, <1>4
<1>7. rest \in Statuses
  BY <1>5, <1>6
<1> HIDE DEF rest
<1>8. group[1].status \in Statuses /\ group[4].status \in Statuses
  BY <1>1, <1>2
<1>9. group[2].status \in Statuses
  <2>1. group[2] = IF secondLoses THEN [second EXCEPT !.status = Uncorrectable] ELSE second
    BY <1>1
  <2>2. [second EXCEPT !.status = Uncorrectable].status = Uncorrectable
    BY <1>3
  <2> QED BY <1>2, <1>5, <2>1, <2>2
<1>10. group[3].status \in Statuses
  <2>1. group[3] = [third EXCEPT !.status = rest]
    BY <1>1
  <2>2. [third EXCEPT !.status = rest].status = rest
    BY <1>6
  <2> QED BY <1>7, <2>1, <2>2
<1>11. \A b \in 1..4 : b = 1 \/ b = 2 \/ b = 3 \/ b = 4
  OBVIOUS
<1>12. \A b \in 1..4 : group[b].status \in Statuses
  BY <1>8, <1>9, <1>10, <1>11
<1> QED BY <1>12 DEF group

LEMMA BlockReceived ==
  ASSUME NEW info \in InfoWords, NEW o \in Rests, NEW b \in 0..3,
         NEW start \in 0..103, NEW burst \in Rests
  PROVE  LET d == DecodeBlock(Sum(Encode(info, o), Hit(b, start, burst)), o)
         IN /\ d.status \in Statuses /\ Fine(d, info, burst)
            /\ d.data # info /\ d.status # Uncorrectable => ~Span(Hit(b, start, burst), 0, 4)
<1> DEFINE hit == Hit(b, start, burst)
           d == DecodeBlock(Sum(Encode(info, o), hit), o)
<1>0. burst \in SUBSET (0..9)
  BY DEF Rests, ParityBits
<1>1. /\ d.status \in {Uncorrectable, Corrected, Valid}
      /\ d.status = Valid /\ (\E m \in 0..16 : Span(hit, m, 9)) => d.data = info
      /\ d.status = Corrected /\ (\E m \in 0..21 : Span(hit, m, 4)) => d.data = info
  BY DecodedRight
<1>2. \E m \in 0..16 : Span(hit, m, 9)
  <2>1. 9 \in 0..25 /\ 25 - 9 = 16
    OBVIOUS
  <2>2. \E m \in 0..(25 - 9) : Span(hit, m, 9)
    BY <1>0, <2>1, HitSpan
  <2> HIDE DEF hit
  <2> QED BY <2>1, <2>2
<1>3. burst \subseteq 0..4 => \E m \in 0..21 : Span(hit, m, 4)
  <2>1. SUFFICES ASSUME burst \in SUBSET (0..4) PROVE \E m \in 0..21 : Span(hit, m, 4)
    OBVIOUS
  <2>2. 4 \in 0..25 /\ 25 - 4 = 21
    OBVIOUS
  <2>3. \E m \in 0..(25 - 4) : Span(hit, m, 4)
    BY <2>1, <2>2, HitSpan
  <2> HIDE DEF hit
  <2> QED BY <2>2, <2>3
<1>4. 0 \in 0..21
  OBVIOUS
<1> HIDE DEF hit, d
<1>5. \/ d.data = info \/ d.status = Uncorrectable
      \/ d.status = Corrected /\ ~(burst \subseteq 0..4) /\ ~Span(hit, 0, 4)
  BY <1>1, <1>2, <1>3, <1>4
<1> QED BY <1>1, <1>2, <1>4, <1>5 DEF hit, d, Fine, Statuses

LEMMA GroupReceived ==
  ASSUME NEW info, \A b \in 0..3 : info[b] \in InfoWords, NEW start \in 0..103, NEW burst \in Rests
  PROVE  LET group == Extracted(Received(info, start, burst)).group
         IN \A b \in 1..4 : Fine(group[b], info[b - 1], burst) \/ (b = 3 /\ group[2].status = Uncorrectable)
<1> DEFINE received == Received(info, start, burst)
           group == Extracted(received).group
           hit(b) == Hit(b, start, burst)
           right == VersionBit \in info[1]
           first == DecodeBlock(received[0], Offsets[1])
           second == DecodeBlock(received[1], Offsets[2])
           versionA == DecodeBlock(received[2], Offsets[3])
           versionB == DecodeBlock(received[2], OffsetVersionB)
           isB == versionB.status >= versionA.status
           third == IF isB THEN versionB ELSE versionA
           fourth == DecodeBlock(received[3], Offsets[4])
           doubt == /\ third.status # Uncorrectable /\ second.status # Uncorrectable
                    /\ (VersionBit \in second.data) # isB
           secondLoses == doubt /\ second.status <= third.status
           rest == IF doubt /\ ~secondLoses THEN Uncorrectable ELSE third.status
<1>1. group = <<first, IF secondLoses THEN [second EXCEPT !.status = Uncorrectable] ELSE second,
                [third EXCEPT !.status = rest], fourth>>
  BY DEF Extracted
<1>2. 0 \in 0..3 /\ 1 \in 0..3 /\ 2 \in 0..3 /\ 3 \in 0..3
  OBVIOUS
<1>3. /\ received[0] = Sum(Encode(info[0], Offsets[1]), hit(0))
      /\ received[1] = Sum(Encode(info[1], Offsets[2]), hit(1))
      /\ received[2] = Sum(Encode(info[2], IF right THEN OffsetVersionB ELSE Offsets[3]), hit(2))
      /\ received[3] = Sum(Encode(info[3], Offsets[4]), hit(3))
  BY DEF Received, SentBlock
<1>4. Offsets[1] \in Rests /\ Offsets[2] \in Rests /\ Offsets[3] \in Rests /\ Offsets[4] \in Rests
  BY OffsetsIn
<1> DEFINE As(b, o) == DecodeBlock(Sum(Encode(info[b], o), hit(b)), o)
<1>5. \A b \in 0..3, o \in Rests : /\ As(b, o).status \in Statuses /\ Fine(As(b, o), info[b], burst)
                                   /\ As(b, o).data # info[b] /\ As(b, o).status # Uncorrectable => ~Span(hit(b), 0, 4)
  <2> TAKE b \in 0..3, o \in Rests
  <2>1. info[b] \in InfoWords
    OBVIOUS
  <2> QED BY <2>1, BlockReceived
<1>6. first = As(0, Offsets[1]) /\ second = As(1, Offsets[2]) /\ fourth = As(3, Offsets[4])
  BY <1>3
<1> HIDE DEF As
<1>7. /\ Fine(first, info[0], burst) /\ Fine(second, info[1], burst) /\ Fine(fourth, info[3], burst)
      /\ second.data # info[1] /\ second.status # Uncorrectable => ~Span(hit(1), 0, 4)
  <2> HIDE DEF first, second, fourth, hit
  <2> QED BY <1>2, <1>4, <1>5, <1>6
<1>8. /\ second = [status |-> second.status, data |-> second.data]
      /\ third = [status |-> third.status, data |-> third.data]
  <2>1. /\ second = [status |-> second.status, data |-> second.data]
        /\ versionA = [status |-> versionA.status, data |-> versionA.data]
        /\ versionB = [status |-> versionB.status, data |-> versionB.data]
    BY DecodeShape
  <2>2. third = versionA \/ third = versionB
    OBVIOUS
  <2> HIDE DEF second, third, versionA, versionB
  <2> QED BY <2>1, <2>2
<1>9. \A x \in hit(2) : x \in 22..25 \/ Span(hit(1), 0, 4)
  <2>1. burst \in SUBSET (0..9)
    BY DEF Rests, ParityBits
  <2> QED BY <2>1, HitNext
<1>10. third.status \in Statuses
       /\ (~(isB <=> right) /\ ~Span(hit(1), 0, 4) => third.status # Valid)
       /\ ((isB <=> right) => Fine(third, info[2], burst))
  <2> DEFINE mine == IF right THEN OffsetVersionB ELSE Offsets[3]
             other == IF right THEN Offsets[3] ELSE OffsetVersionB
             wrong == DecodeBlock(Sum(Encode(info[2], mine), hit(2)), other)
  <2>1. mine \in Rests /\ other \in Rests /\ Sum(mine, other) = Versions
    BY <1>4, OffsetsIn
  <2>2. received[2] = Sum(Encode(info[2], mine), hit(2)) /\ info[2] \in InfoWords
    BY <1>2, <1>3
  <2>3. As(2, mine) = DecodeBlock(received[2], mine) /\ wrong = DecodeBlock(received[2], other)
    BY <2>2 DEF As
  <2> HIDE DEF hit
  <2>4. ~Span(hit(1), 0, 4) => wrong.status # Valid
    <3> HIDE DEF mine, other
    <3> QED BY <1>9, <2>1, <2>2, OtherVersion
  <2>5. wrong.status \in Statuses
    <3> HIDE DEF mine, other
    <3> QED BY <2>1, <2>2, DecodedAs DEF Statuses
  <2>6. As(2, mine).status \in Statuses /\ Fine(As(2, mine), info[2], burst)
    <3> HIDE DEF mine, other
    <3> QED BY <1>2, <1>5, <2>1
  <2>7. (isB <=> right) => third = As(2, mine)
    BY <2>3
  <2>8. ~(isB <=> right) => third = wrong
    BY <2>3
  <2> HIDE DEF third, isB, right, wrong, mine
  <2>9. CASE isB <=> right
    BY <2>6, <2>7, <2>9
  <2>10. CASE ~(isB <=> right)
    BY <2>4, <2>5, <2>8, <2>10
  <2> QED BY <2>9, <2>10
<1>11. /\ group[1] = first /\ group[4] = fourth
       /\ group[2] = IF secondLoses THEN [second EXCEPT !.status = Uncorrectable] ELSE second
       /\ group[3] = [third EXCEPT !.status = rest]
  <2> HIDE DEF group, first, second, third, fourth, secondLoses, rest
  <2> QED BY <1>1
<1>12. group[3] = [status |-> rest, data |-> third.data]
  <2> HIDE DEF group, third, rest
  <2> QED BY <1>8, <1>11
<1>13. group[2] = [status |-> IF secondLoses THEN Uncorrectable ELSE second.status, data |-> second.data]
  <2> HIDE DEF group, second, secondLoses
  <2> QED BY <1>8, <1>11
<1>14. (VersionBit \in second.data) # isB <=> ~(VersionBit \in second.data <=> isB)
  <2> HIDE DEF second
  <2> QED OBVIOUS
<1>15. second.data = info[1] => (VersionBit \in second.data <=> right)
  <2> HIDE DEF second
  <2> QED OBVIOUS
<1> HIDE DEF group, first, second, third, fourth, isB, right, hit
<1>16. Fine(group[2], info[1], burst)
  <2> HIDE DEF secondLoses
  <2> QED BY <1>7, <1>13 DEF Fine
<1>17. Fine(group[3], info[2], burst) \/ group[2].status = Uncorrectable
  <2> SUFFICES ASSUME group[3].status # Uncorrectable, group[2].status # Uncorrectable
               PROVE  Fine(group[3], info[2], burst)
    BY DEF Fine
  <2>1. ~secondLoses /\ second.status # Uncorrectable
    <3> HIDE DEF secondLoses
    <3> QED BY <1>13
  <2>2. ~doubt /\ rest = third.status /\ third.status # Uncorrectable
    <3>1. rest # Uncorrectable
      <4> HIDE DEF rest
      <4> QED BY <1>12
    <3> HIDE DEF doubt, secondLoses
    <3> QED BY <2>1, <3>1
  <2>3. VersionBit \in second.data <=> isB
    BY <1>14, <2>1, <2>2
  <2>4. Fine(third, info[2], burst)
    <3>1. CASE isB <=> right
      BY <1>10, <3>1
    <3>2. CASE ~(isB <=> right)
      <4>1. second.data # info[1]
        BY <1>15, <2>3, <3>2
      <4>2. second.status = Corrected /\ ~(burst \subseteq 0..4) /\ ~Span(hit(1), 0, 4)
        BY <1>7, <2>1, <4>1 DEF Fine
      <4>3. third.status = Corrected
        BY <1>10, <2>2, <3>2, <4>2 DEF Statuses
      <4> QED BY <4>2, <4>3 DEF Fine
    <3> QED BY <3>1, <3>2
  <2> HIDE DEF rest
  <2>5. group[3].status = third.status /\ group[3].data = third.data
    BY <1>12, <2>2
  <2> QED BY <2>4, <2>5 DEF Fine
<1>18. ASSUME NEW b \in 1..4
       PROVE  Fine(group[b], info[b - 1], burst) \/ (b = 3 /\ group[2].status = Uncorrectable)
  <2>1. b = 1 \/ b = 2 \/ b = 3 \/ b = 4
    OBVIOUS
  <2>2. 1 - 1 = 0 /\ 2 - 1 = 1 /\ 3 - 1 = 2 /\ 4 - 1 = 3
    OBVIOUS
  <2> HIDE DEF secondLoses, rest
  <2> QED BY <1>7, <1>11, <1>16, <1>17, <2>1, <2>2
<1> QED BY <1>18 DEF group

(* What RdsGroupsDecoder makes of a group after one burst of errors: a     *)
(* block that is said to be Valid is what was sent, unless the burst is of *)
(* more than ten bits; one that is said to be Corrected is, unless it is   *)
(* of more than five; and the third block is not when the second one,      *)
(* which says of what version it is, is not believed.                      *)
THEOREM GroupAsSent ==
  ASSUME NEW info, \A b \in 0..3 : info[b] \in InfoWords, NEW start \in 0..(4 * CodeBits - 1), NEW burst
  PROVE  LET group == Extracted(Received(info, start, burst)).group
         IN \A b \in 1..4 :
              \/ group[b].data = info[b - 1]
              \/ group[b].status = Uncorrectable
              \/ group[b].status = Valid /\ ~(burst \subseteq 0..(ParityBits - 1))
              \/ group[b].status = Corrected /\ ~(burst \subseteq 0..4)
              \/ b = 3 /\ group[2].status = Uncorrectable
<1> DEFINE group == Extracted(Received(info, start, burst)).group
<1>1. start \in 0..103
  BY DEF CodeBits, InfoBits, ParityBits
<1>2. CASE burst \in Rests
  <2>1. \A b \in 1..4 : Fine(group[b], info[b - 1], burst) \/ (b = 3 /\ group[2].status = Uncorrectable)
    BY <1>1, <1>2, GroupReceived
  <2> QED BY <2>1 DEF Fine
<1>3. CASE burst \notin Rests
  <2>1. ~(burst \subseteq 0..(ParityBits - 1)) /\ ~(burst \subseteq 0..4)
    BY <1>3 DEF Rests, ParityBits
  <2>2. \A b \in 1..4 : group[b].status \in Statuses
    BY GroupStatus
  <2> HIDE DEF group
  <2>3. \A b \in 1..4 : group[b].status = Uncorrectable \/ group[b].status = Valid \/ group[b].status = Corrected
    BY <2>2 DEF Statuses
  <2> QED BY <2>1, <2>3 DEF group
<1> QED BY <1>2, <1>3
=============================================================================
