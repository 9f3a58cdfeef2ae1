---------------------------- MODULE RecursionFacts ----------------------------
(***************************************************************************)
(* Induction and recursion in the form in which the proofs of this project *)
(* cite them.  The library's induction theorems have an operator as a      *)
(* parameter; here the induction hypothesis is a set, and a step of a      *)
(* recursion is a function.  The last parts are about sums and remainders. *)
(***************************************************************************)
EXTENDS Integers, FiniteSetsExt, FiniteSetTheorems, TLAPS

-----------------------------------------------------------------------------
(* Induction.                                                              *)

\* A set of naturals that is not empty has a least element.
LEMMA LeastElement ==
  ASSUME NEW T, T \subseteq Nat, T # {}
  PROVE  \E n \in T : \A m \in T : n <= m
<1> DEFINE R == OpToRel(<, Nat)
<1>1. IsWellFoundedOn(R, Nat)
  BY NatLessThanWellFounded
<1> HIDE DEF R
<1>2. PICK n \in T : \A m \in T : ~(<<m, n>> \in R)
  BY <1>1, WFMin
<1>3. \A m \in T : m < n => <<m, n>> \in R
  BY DEF R, OpToRel
<1>4. \A m \in T : ~(m < n)
  BY <1>2, <1>3, Zenon
<1> QED
  BY <1>4

\* Induction, for the numbers that have a property.
LEMMA Induction ==
  ASSUME NEW S, 0 \in S, \A n \in Nat : n \in S => n + 1 \in S
  PROVE  Nat \subseteq S
<1>1. SUFFICES ASSUME Nat \ S # {} PROVE FALSE
  OBVIOUS
<1>2. PICK n \in Nat \ S : \A m \in Nat \ S : n <= m
  BY <1>1, LeastElement
<1>3. n # 0 /\ n - 1 \in Nat /\ n - 1 \notin Nat \ S
  BY <1>2
<1> QED
  BY <1>2, <1>3

\* Induction up to a bound.
LEMMA BoundedInduction ==
  ASSUME NEW N \in Nat, NEW S, 0 \in S, \A n \in 0 .. N - 1 : n \in S => n + 1 \in S
  PROVE  0 .. N \subseteq S
<1> DEFINE T == {n \in Nat : n <= N => n \in S}
<1>1. 0 \in T
  OBVIOUS
<1>2. \A n \in Nat : n \in T => n + 1 \in T
  OBVIOUS
<1> HIDE DEF T
<1>3. Nat \subseteq T
  BY <1>1, <1>2, Induction
<1> QED
  BY <1>3 DEF T

-----------------------------------------------------------------------------
(* Recursion.                                                              *)

\* The largest number of a finite set of positive numbers.
LEMMA MaxFact ==
  ASSUME NEW n \in Nat, NEW s \in SUBSET (1 .. n), s # {}
  PROVE  /\ Max(s) \in s
         /\ \A x \in s : x <= Max(s)
<1> DEFINE T == {n - x : x \in s}
<1>1. T \subseteq Nat /\ T # {}
  <2>1. \A x \in s : n - x \in Nat
    OBVIOUS
  <2>2. PICK x \in s : TRUE
    OBVIOUS
  <2>3. n - x \in T
    OBVIOUS
  <2> QED
    BY <2>1, <2>3
<1> HIDE DEF T
<1>2. PICK m \in T : \A y \in T : m <= y
  BY <1>1, LeastElement
<1>3. PICK x \in s : m = n - x
  BY <1>2 DEF T
<1>4. \A y \in s : x >= y
  <2> SUFFICES ASSUME NEW y \in s PROVE x >= y
    OBVIOUS
  <2>1. n - y \in T
    BY DEF T
  <2>2. n - x <= n - y
    BY <2>1, <1>2, <1>3
  <2> QED
    BY <2>2
<1>5. \E z \in s : \A y \in s : z >= y
  BY <1>4
<1>6. Max(s) \in s /\ \A y \in s : Max(s) >= y
  BY <1>5, Zenon DEF Max
<1> QED
  BY <1>6

\* The largest number of a set that contains the upper bound.
LEMMA MaxIs ==
  ASSUME NEW n \in Nat, NEW s \in SUBSET (1 .. n), n \in s
  PROVE  Max(s) = n
<1>1. Max(s) \in s /\ \A x \in s : x <= Max(s)
  BY MaxFact
<1>2. Max(s) \in 1 .. n
  BY <1>1
<1>3. n <= Max(s)
  BY <1>1
<1> QED
  BY <1>2, <1>3

\* The largest number of an initial segment is its end.
LEMMA MaxOfSegment ==
  ASSUME NEW n \in Nat, n # 0
  PROVE  /\ Max(1 .. n) = n
         /\ (1 .. n) \ {Max(1 .. n)} = 1 .. n - 1
<1> DEFINE s == 1 .. n
<1>0. s \in SUBSET (1 .. n) /\ s # {}
  OBVIOUS
<1>1. Max(s) \in s /\ \A x \in s : x <= Max(s)
  <2> HIDE DEF s
  <2> QED
    BY <1>0, MaxFact
<1>2. n \in 1 .. n
  OBVIOUS
<1> QED
  BY <1>1, <1>2

\* A function of the sets of positions of a sequence: each set is folded from
\* its first position to its last.
IsFold(f, n, base, G) ==
  \A s \in SUBSET (1 .. n) :
    f[s] = IF s = {} THEN base ELSE G[Max(s)][f[s \ {Max(s)}]]

\* A function of the numbers up to n, each value from the one before.
IsIteration(h, n, base, G) ==
  h[0] = base /\ \A i \in 1 .. n : h[i] = G[i][h[i - 1]]

\* The function behind a fold over a sequence of N elements is well defined:
\* every set of positions is folded from its first element to its last.
LEMMA FoldDefined ==
  ASSUME NEW N \in Nat, NEW D, NEW base \in D, NEW G \in [1 .. N -> [D -> D]]
  PROVE  \E f \in [SUBSET (1 .. N) -> D] : IsFold(f, N, base, G)
<1> DEFINE Folds(f, k) ==
             \A s \in SUBSET (1 .. k) :
               f[s] = IF s = {} THEN base ELSE G[Max(s)][f[s \ {Max(s)}]]
           Good == {k \in Nat : \E f \in [SUBSET (1 .. k) -> D] : Folds(f, k)}
<1>1. 0 \in Good
  <2> DEFINE f == [s \in SUBSET (1 .. 0) |-> base]
  <2>1. SUBSET (1 .. 0) = {{}}
    OBVIOUS
  <2>2. f \in [SUBSET (1 .. 0) -> D] /\ Folds(f, 0)
    BY <2>1
  <2> QED
    BY <2>2
<1>2. \A k \in 0 .. N - 1 : k \in Good => k + 1 \in Good
  <2> SUFFICES ASSUME NEW k \in 0 .. N - 1, k \in Good
               PROVE  k + 1 \in Good
    OBVIOUS
  <2>0. PICK f \in [SUBSET (1 .. k) -> D] : Folds(f, k)
    OBVIOUS
  <2> DEFINE g == [s \in SUBSET (1 .. k + 1) |->
                     IF k + 1 \in s THEN G[k + 1][f[s \ {k + 1}]] ELSE f[s]]
  <2>1. \A s \in SUBSET (1 .. k + 1) : k + 1 \notin s => s \in SUBSET (1 .. k)
    OBVIOUS
  <2>2. \A s \in SUBSET (1 .. k + 1) : s \ {k + 1} \in SUBSET (1 .. k)
    OBVIOUS
  <2>3. k + 1 \in 1 .. N
    OBVIOUS
  <2>4. \A s \in SUBSET (1 .. k + 1) : g[s] \in D
    BY <2>1, <2>2, <2>3
  <2>5. ASSUME NEW s \in SUBSET (1 .. k + 1)
        PROVE  g[s] = IF s = {} THEN base ELSE G[Max(s)][g[s \ {Max(s)}]]
    <3>1. CASE k + 1 \in s
      <4>1. Max(s) = k + 1
        BY <3>1, MaxIs, k + 1 \in Nat
      <4>2. g[s \ {k + 1}] = f[s \ {k + 1}]
        OBVIOUS
      <4> QED
        BY <3>1, <4>1, <4>2
    <3>2. CASE k + 1 \notin s
      <4>1. s \in SUBSET (1 .. k)
        BY <3>2
      <4>2. \A x : s \ {x} \in SUBSET (1 .. k) /\ k + 1 \notin s \ {x}
        BY <4>1, <3>2
      <4>3. \A x : g[s \ {x}] = f[s \ {x}]
        BY <4>2
      <4>4. g[s] = f[s]
        BY <3>2
      <4>5. f[s] = IF s = {} THEN base ELSE G[Max(s)][f[s \ {Max(s)}]]
        BY <4>1, <2>0
      <4> HIDE DEF g, Folds
      <4> QED
        BY <4>3, <4>4, <4>5
    <3> QED
      BY <3>1, <3>2
  <2>6. g \in [SUBSET (1 .. k + 1) -> D]
    BY <2>4
  <2>7. Folds(g, k + 1)
    BY <2>5
  <2> HIDE DEF g, Folds
  <2> QED
    BY <2>6, <2>7
<1> HIDE DEF Good
<1>3. 0 .. N \subseteq Good
  BY <1>1, <1>2, BoundedInduction
<1>4. N \in Good
  BY <1>3
<1>5. PICK f \in [SUBSET (1 .. N) -> D] : Folds(f, N)
  BY <1>4 DEF Good
<1> QED
  BY <1>5 DEF IsFold

\* A function of the positions of a sequence, each from the one before.
LEMMA Iteration ==
  ASSUME NEW N \in Nat, NEW D, NEW base \in D, NEW G \in [1 .. N -> [D -> D]]
  PROVE  \E h \in [0 .. N -> D] : IsIteration(h, N, base, G)
<1>1. PICK f \in [SUBSET (1 .. N) -> D] : IsFold(f, N, base, G)
  BY FoldDefined
<1> DEFINE h == [i \in 0 .. N |-> f[1 .. i]]
<1>2. h \in [0 .. N -> D]
  OBVIOUS
<1>3. h[0] = base
  <2>1. 1 .. 0 = {} /\ {} \in SUBSET (1 .. N)
    OBVIOUS
  <2>2. h[0] = f[1 .. 0]
    OBVIOUS
  <2>3. f[{}] = base
    BY <1>1, <2>1 DEF IsFold
  <2> QED
    BY <2>1, <2>2, <2>3
<1>4. ASSUME NEW i \in 1 .. N
      PROVE  h[i] = G[i][h[i - 1]]
  <2>1. Max(1 .. i) = i /\ (1 .. i) \ {Max(1 .. i)} = 1 .. i - 1
    BY MaxOfSegment
  <2>2. 1 .. i \in SUBSET (1 .. N) /\ 1 .. i # {}
    <3>1. \A x \in 1 .. i : x \in 1 .. N
      OBVIOUS
    <3>2. i \in 1 .. i
      OBVIOUS
    <3> QED
      BY <3>1, <3>2
  <2>3. f[1 .. i] = G[i][f[1 .. i - 1]]
    BY <1>1, <2>1, <2>2 DEF IsFold
  <2> QED
    BY <2>3
<1> QED
  BY <1>2, <1>3, <1>4 DEF IsIteration

-----------------------------------------------------------------------------
(* Sums over the elements of a set, in the order in which a fold takes     *)
(* them.                                                                   *)

\* The element that a sum over a set takes first.
AnyOf(s) == CHOOSE x \in s : TRUE

\* F has the sums of f over the sets of numbers up to n.
IsSum(F, f, n) ==
  \A s \in SUBSET (1 .. n) : F[s] = IF s = {} THEN 0 ELSE f[AnyOf(s)] + F[s \ {AnyOf(s)}]

\* A fold that adds, which takes the greatest element first.
AddsFromMax(g, f, n) ==
  \A s \in SUBSET (1 .. n) : g[s] = IF s = {} THEN 0 ELSE f[Max(s)] + g[s \ {Max(s)}]

\* Any element can come first.
LEMMA SumOrder ==
  ASSUME NEW n \in Nat, NEW f \in [1 .. n -> Int], NEW g \in [SUBSET (1 .. n) -> Int],
         AddsFromMax(g, f, n)
  PROVE  \A s \in SUBSET (1 .. n) : \A x \in s : g[s] = f[x] + g[s \ {x}]
<1> DEFINE T == {k \in 0 .. n : \A s \in SUBSET (1 .. k) : \A x \in s : g[s] = f[x] + g[s \ {x}]}
<1>1. 0 \in T
  OBVIOUS
<1>2. ASSUME NEW i \in 0 .. n - 1, i \in T
      PROVE  i + 1 \in T
  <2> DEFINE k == i + 1
  <2>1. k \in 1 .. n /\ k \in 0 .. n /\ k - 1 = i /\ 1 .. k \subseteq 1 .. n
    OBVIOUS
  <2>2. \A s \in SUBSET (1 .. i) : \A x \in s : g[s] = f[x] + g[s \ {x}]
    BY <1>2
  <2>3. \A s \in SUBSET (1 .. k) : s \ {k} \in SUBSET (1 .. i)
    BY <2>1
  <2>4. \A s \in SUBSET (1 .. k) : k \in s => g[s] = f[k] + g[s \ {k}]
    <3> SUFFICES ASSUME NEW s \in SUBSET (1 .. k), k \in s PROVE g[s] = f[k] + g[s \ {k}]
      OBVIOUS
    <3>1. Max(s) = k
      BY <2>1, MaxIs
    <3>2. s \in SUBSET (1 .. n) /\ s # {}
      BY <2>1
    <3> HIDE DEF k
    <3> QED
      BY <3>1, <3>2 DEF AddsFromMax
  <2> SUFFICES ASSUME NEW s \in SUBSET (1 .. k), NEW x \in s
               PROVE  g[s] = f[x] + g[s \ {x}]
    BY <2>1
  <2> HIDE DEF k, T
  <2>5. CASE x = k
    BY <2>4, <2>5
  <2>6. CASE x # k /\ k \in s
    <3> DEFINE r == s \ {k}  t == s \ {x}  u == r \ {x}
    <3>1. r \in SUBSET (1 .. i) /\ x \in r
      BY <2>3, <2>6
    <3>2. t \in SUBSET (1 .. k) /\ k \in t /\ t \ {k} = u
      BY <2>6
    <3>3. u \in SUBSET (1 .. n) /\ x \in 1 .. n
      BY <2>1
    <3> HIDE DEF r, t, u
    <3>4. g[s] = f[k] + g[r]
      BY <2>4, <2>6 DEF r
    <3>5. g[r] = f[x] + g[u]
      BY <2>2, <3>1 DEF u
    <3>6. g[t] = f[k] + g[u]
      BY <2>4, <3>2
    <3>7. f[k] \in Int /\ f[x] \in Int /\ g[u] \in Int
      BY <2>1, <3>3
    <3>8. g[s] = f[x] + g[t]
      BY <3>4, <3>5, <3>6, <3>7
    <3> QED
      BY <3>8 DEF t
  <2>7. CASE k \notin s
    <3>1. s \in SUBSET (1 .. i)
      BY <2>3, <2>7
    <3> QED
      BY <2>2, <3>1
  <2> QED
    BY <2>5, <2>6, <2>7
<1> HIDE DEF T
<1>3. 0 .. n \subseteq T
  BY <1>1, <1>2, BoundedInduction
<1>4. n \in T
  BY <1>3
<1> QED
  BY <1>4 DEF T

\* Such sums are defined; over a segment they are added up from left to right.
LEMMA SumDefined ==
  ASSUME NEW n \in Nat, NEW f \in [1 .. n -> Int]
  PROVE  \E g \in [SUBSET (1 .. n) -> Int], h \in [0 .. n -> Int] :
           /\ IsSum(g, f, n)
           /\ h[0] = 0 /\ (\A i \in 1 .. n : h[i] = h[i - 1] + f[i]) /\ g[1 .. n] = h[n]
<1> DEFINE G == [i \in 1 .. n |-> [x \in Int |-> f[i] + x]]
<1>1. G \in [1 .. n -> [Int -> Int]] /\ 0 \in Int
  OBVIOUS
<1>2. \A i \in 1 .. n, x \in Int : G[i][x] = f[i] + x
  OBVIOUS
<1> HIDE DEF G
<1>3. PICK g \in [SUBSET (1 .. n) -> Int] : IsFold(g, n, 0, G)
  BY <1>1, FoldDefined
<1>4. \A s \in SUBSET (1 .. n) : g[s] = IF s = {} THEN 0 ELSE f[Max(s)] + g[s \ {Max(s)}]
  <2> SUFFICES ASSUME NEW s \in SUBSET (1 .. n)
               PROVE  g[s] = IF s = {} THEN 0 ELSE f[Max(s)] + g[s \ {Max(s)}]
    OBVIOUS
  <2>1. g[s] = IF s = {} THEN 0 ELSE G[Max(s)][g[s \ {Max(s)}]]
    BY <1>3 DEF IsFold
  <2>2. CASE s # {}
    <3>1. Max(s) \in 1 .. n /\ s \ {Max(s)} \in SUBSET (1 .. n)
      BY <2>2, MaxFact
    <3>2. g[s \ {Max(s)}] \in Int
      BY <3>1
    <3> QED
      BY <1>2, <2>1, <3>1, <3>2
  <2> QED
    BY <2>1, <2>2
<1>5. \A s \in SUBSET (1 .. n) : \A x \in s : g[s] = f[x] + g[s \ {x}]
  <2>1. AddsFromMax(g, f, n)
    BY <1>4 DEF AddsFromMax
  <2> QED
    BY <2>1, SumOrder
<1>6. IsSum(g, f, n)
  <2> SUFFICES ASSUME NEW s \in SUBSET (1 .. n)
               PROVE  g[s] = IF s = {} THEN 0 ELSE f[AnyOf(s)] + g[s \ {AnyOf(s)}]
    BY DEF IsSum
  <2>1. CASE s = {}
    BY <1>4, <2>1
  <2>2. CASE s # {}
    <3>1. AnyOf(s) \in s
      BY <2>2 DEF AnyOf
    <3> QED
      BY <1>5, <2>2, <3>1
  <2> QED
    BY <2>1, <2>2
<1> DEFINE h == [i \in 0 .. n |-> g[1 .. i]]
<1>7. \A i \in 0 .. n : 1 .. i \in SUBSET (1 .. n) /\ h[i] = g[1 .. i]
  OBVIOUS
<1>8. h \in [0 .. n -> Int]
  BY <1>7
<1>9. h[0] = 0
  <2>1. 1 .. 0 = {} /\ 0 \in 0 .. n
    OBVIOUS
  <2> HIDE DEF h
  <2> QED
    BY <1>4, <1>7, <2>1
<1>10. ASSUME NEW i \in 1 .. n
       PROVE  h[i] = h[i - 1] + f[i]
  <2>1. i \in 0 .. n /\ i - 1 \in 0 .. n /\ i \in 1 .. i /\ (1 .. i) \ {i} = 1 .. i - 1
    OBVIOUS
  <2>2. g[1 .. i] = f[i] + g[1 .. i - 1]
    BY <1>5, <1>7, <2>1
  <2>3. h[i - 1] \in Int /\ f[i] \in Int
    BY <1>8, <2>1
  <2> HIDE DEF h
  <2> QED
    BY <1>7, <2>1, <2>2, <2>3
<1>11. g[1 .. n] = h[n]
  OBVIOUS
<1> HIDE DEF h
<1> QED
  BY <1>6, <1>8, <1>9, <1>10, <1>11

\* There is one such function.
LEMMA SumUnique ==
  ASSUME NEW n \in Nat, NEW f, NEW F, NEW g, IsSum(F, f, n), IsSum(g, f, n)
  PROVE  F[1 .. n] = g[1 .. n]
<1> DEFINE S == SUBSET (1 .. n)
           T == {k \in Nat : \A s \in S : Cardinality(s) = k => F[s] = g[s]}
<1>1. \A s \in S : IsFiniteSet(s) /\ Cardinality(s) \in Nat
  <2>1. IsFiniteSet(1 .. n)
    BY FS_Interval
  <2> QED
    BY <2>1, FS_Subset, FS_CardinalityType
<1>2. 0 \in T
  <2> SUFFICES ASSUME NEW s \in S, Cardinality(s) = 0 PROVE F[s] = g[s]
    OBVIOUS
  <2>1. s = {}
    BY <1>1, FS_EmptySet
  <2> QED
    BY <2>1 DEF IsSum
<1>3. ASSUME NEW k \in Nat, k \in T
      PROVE  k + 1 \in T
  <2> SUFFICES ASSUME NEW s \in S, Cardinality(s) = k + 1 PROVE F[s] = g[s]
    OBVIOUS
  <2>1. s # {}
    <3>1. Cardinality({}) = 0
      BY FS_EmptySet
    <3> QED
      BY <3>1
  <2> DEFINE x == AnyOf(s)  r == s \ {x}
  <2>2. x \in s
    BY <2>1 DEF AnyOf
  <2> HIDE DEF x
  <2>3. r \in S /\ Cardinality(r) = k
    <3>1. IsFiniteSet(s)
      BY <1>1
    <3>2. Cardinality(s \ {x}) = IF x \in s THEN Cardinality(s) - 1 ELSE Cardinality(s)
      BY <3>1, FS_RemoveElement
    <3>3. r \in S
      OBVIOUS
    <3>4. Cardinality(r) = Cardinality(s) - 1
      BY <2>2, <3>2
    <3> HIDE DEF r, S
    <3> QED
      BY <3>3, <3>4
  <2>4. F[r] = g[r]
    BY <1>3, <2>3
  <2> HIDE DEF r
  <2>5. F[s] = f[x] + F[r] /\ g[s] = f[x] + g[r]
    BY <2>1 DEF IsSum, x, r
  <2> QED
    BY <2>4, <2>5
<1> HIDE DEF T
<1>4. Nat \subseteq T
  BY <1>2, <1>3, Induction
<1>5. 1 .. n \in S
  OBVIOUS
<1>6. Cardinality(1 .. n) \in T
  BY <1>1, <1>4, <1>5
<1> QED
  BY <1>5, <1>6 DEF T

-----------------------------------------------------------------------------
(* Remainders.                                                             *)

\* Division with a remainder.
LEMMA DivMod ==
  ASSUME NEW W \in Nat \ {0}, NEW a \in Int
  PROVE  /\ a \div W \in Int /\ a % W \in Int /\ 0 <= a % W /\ a % W < W
         /\ a = W * (a \div W) + (a % W)
<1>1. W \in Nat /\ W >= 1
  OBVIOUS
<1> DEFINE q == a \div W  r == a % W
<1>2. a = W * q + r /\ q \in Int /\ r \in Int /\ 0 <= r /\ r < W
  BY <1>1
<1> QED
  BY <1>2

\* A remainder does not change with multiples of the divisor.
LEMMA ModUnique ==
  ASSUME NEW W \in Nat \ {0}, NEW a \in Int, NEW b \in Int, NEW k \in Int, a - b = W * k
  PROVE  a % W = b % W
<1> DEFINE q == a \div W  r == a % W  p == b \div W  s == b % W
<1>0. W \in Int /\ W >= 1
  OBVIOUS
<1>1. a = W * q + r /\ q \in Int /\ r \in Int /\ 0 <= r /\ r < W
  BY DivMod
<1>2. b = W * p + s /\ p \in Int /\ s \in Int /\ 0 <= s /\ s < W
  BY DivMod
<1> HIDE DEF q, r, p, s
<1> DEFINE d == k - q + p
<1>3. d \in Int /\ r - s = W * d
  <2>1. W * d = W * k - W * q + W * p
    BY <1>0, <1>1, <1>2
  <2> QED
    BY <1>0, <1>1, <1>2, <2>1
<1> HIDE DEF d
<1>4. CASE d >= 1
  <2>1. W * d >= W
    BY <1>0, <1>3, <1>4
  <2> QED
    BY <1>0, <1>1, <1>2, <1>3, <2>1
<1>5. CASE d <= -1
  <2>1. W * d <= -W
    BY <1>0, <1>3, <1>5
  <2> QED
    BY <1>0, <1>1, <1>2, <1>3, <2>1
<1>6. CASE d = 0
  <2>1. r = s
    BY <1>0, <1>1, <1>2, <1>3, <1>6
  <2> QED
    BY <2>1 DEF r, s
<1> QED
  BY <1>3, <1>4, <1>5, <1>6

\* A step of the recursion that adds up the elements of f.
AddStep(f, n, F) ==
  [x \in SUBSET (1 .. n) |-> IF x = {} THEN 0 ELSE f[AnyOf(x)] + F[x \ {AnyOf(x)}]]

\* The sum of numbers exists, and is a number.
LEMMA SumExists ==
  ASSUME NEW n \in Nat, NEW f \in [1 .. n -> Int]
  PROVE  \E g : g = AddStep(f, n, g)
<1>1. PICK g \in [SUBSET (1 .. n) -> Int] : IsSum(g, f, n)
  BY SumDefined
<1>2. \A x \in SUBSET (1 .. n) : g[x] = AddStep(f, n, g)[x]
  BY <1>1 DEF IsSum, AddStep
<1>3. DOMAIN AddStep(f, n, g) = SUBSET (1 .. n)
      /\ AddStep(f, n, g) = [x \in SUBSET (1 .. n) |-> AddStep(f, n, g)[x]]
  BY DEF AddStep
<1>4. g = AddStep(f, n, g)
  BY <1>2, <1>3
<1> QED
  BY <1>4

\* Whatever satisfies the recursion is that number.
LEMMA SumNumber ==
  ASSUME NEW n \in Nat, NEW f \in [1 .. n -> Int], NEW F, F = AddStep(f, n, F)
  PROVE  F[1 .. n] \in Int
<1>1. PICK g \in [SUBSET (1 .. n) -> Int] : IsSum(g, f, n)
  BY SumDefined
<1>2. IsSum(F, f, n)
  <2> SUFFICES ASSUME NEW x \in SUBSET (1 .. n)
               PROVE  F[x] = IF x = {} THEN 0 ELSE f[AnyOf(x)] + F[x \ {AnyOf(x)}]
    BY DEF IsSum
  <2>1. AddStep(f, n, F)[x] = IF x = {} THEN 0 ELSE f[AnyOf(x)] + F[x \ {AnyOf(x)}]
    BY DEF AddStep
  <2> QED
    BY <2>1
<1>3. F[1 .. n] = g[1 .. n]
  BY <1>1, <1>2, SumUnique
<1>4. g[1 .. n] \in Int
  OBVIOUS
<1> QED
  BY <1>3, <1>4

=============================================================================
