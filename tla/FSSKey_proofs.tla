---------------------------- MODULE FSSKey_proofs ----------------------------
(***************************************************************************)
(* Proofs about the keys: for every depth, generator, group, point and     *)
(* payload, the two servers' shares add up to the function's value; and    *)
(* evaluation on a window writes every element, for its own index.         *)
(***************************************************************************)
EXTENDS FSSWindow, RecursionFacts, SequenceTheorems, TLAPS

-----------------------------------------------------------------------------
(* Arithmetic in the group.                                                *)

\* a is zero in the group.
Mult(a) == \E k \in Int : a = k * Modulus

\* The remainder differs from the number by a multiple of the modulus.
LEMMA MultMod ==
  ASSUME NEW a \in Int
  PROVE  a % Modulus \in Int /\ Mult(a - (a % Modulus))
<1>1. Modulus \in Nat \ {0}
  BY GroupAssumption
<1>2. a = Modulus * (a \div Modulus) + (a % Modulus) /\ a \div Modulus \in Int /\ a % Modulus \in Int
  BY <1>1
<1> QED
  BY <1>1, <1>2 DEF Mult

\* Multiples of the modulus are closed under sums.
LEMMA MultAdd ==
  ASSUME NEW a \in Int, NEW b \in Int, Mult(a), Mult(b)
  PROVE  Mult(a + b)
<1>1. Modulus \in Nat
  BY GroupAssumption
<1>2. PICK k \in Int : a = k * Modulus
  BY DEF Mult
<1>3. PICK l \in Int : b = l * Modulus
  BY DEF Mult
<1>4. a + b = (k + l) * Modulus /\ k + l \in Int
  BY <1>1, <1>2, <1>3
<1> QED
  BY <1>4 DEF Mult

\* ... and under a change of sign.
LEMMA MultNeg ==
  ASSUME NEW a \in Int, Mult(a)
  PROVE  Mult(-a)
<1>1. Modulus \in Nat
  BY GroupAssumption
<1>2. PICK k \in Int : a = k * Modulus
  BY DEF Mult
<1>3. -a = (-k) * Modulus /\ -k \in Int
  BY <1>1, <1>2
<1> QED
  BY <1>3 DEF Mult

\* Zero is a multiple.
LEMMA MultZero == Mult(0)
<1>1. 0 = 0 * Modulus
  BY GroupAssumption
<1> QED
  BY <1>1 DEF Mult

\* The multiples of the modulus are the numbers without a remainder.
LEMMA MultRemainder ==
  ASSUME NEW a \in Int
  PROVE  Mult(a) <=> a % Modulus = 0
<1> DEFINE r == a % Modulus
           q == a \div Modulus
<1>1. Modulus \in Nat /\ Modulus >= 1
  BY GroupAssumption
<1>2. a = Modulus * q + r /\ q \in Int /\ r \in Int /\ 0 <= r /\ r < Modulus
  BY <1>1
<1>3. ASSUME r = 0
      PROVE  Mult(a)
  BY <1>1, <1>2, <1>3 DEF Mult
<1>4. ASSUME Mult(a)
      PROVE  r = 0
  <2>1. PICK k \in Int : a = k * Modulus
    BY <1>4 DEF Mult
  <2> DEFINE d == k - q
  <2>2. d \in Int /\ r = d * Modulus
    BY <1>1, <1>2, <2>1
  <2>3. CASE d = 0
    BY <1>1, <2>2, <2>3
  <2>4. CASE d >= 1
    <3>1. d * Modulus >= Modulus
      BY <1>1, <2>2, <2>4
    <3> QED
      BY <1>1, <1>2, <2>2, <3>1
  <2>5. CASE d <= -1
    <3>1. d * Modulus < 0
      BY <1>1, <2>2, <2>5
    <3> QED
      BY <1>2, <2>2, <3>1
  <2> QED
    BY <2>2, <2>3, <2>4, <2>5
<1> QED
  BY <1>3, <1>4

\* Equality in the group, by multiples.
LEMMA CongMult ==
  ASSUME NEW a \in Int, NEW b \in Int
  PROVE  Cong(a, b) <=> Mult(a - b)
BY MultRemainder, a - b \in Int DEF Cong

\* Numbers that are equal in the group have the same remainder.
LEMMA CongSame ==
  ASSUME NEW a \in Int, NEW b \in Int, Cong(a, b)
  PROVE  a % Modulus = b % Modulus
<1> DEFINE r == a % Modulus
           s == b % Modulus
<1>1. Modulus \in Nat /\ Modulus >= 1
  BY GroupAssumption
<1>2. r \in Int /\ 0 <= r /\ r < Modulus /\ s \in Int /\ 0 <= s /\ s < Modulus
  BY <1>1
<1>3. Mult(a - b) /\ Mult(a - r) /\ Mult(b - s)
  BY CongMult, MultMod
<1>4. Mult(-(a - r)) /\ a - r \in Int
  BY <1>2, <1>3, MultNeg
<1>5. Mult((a - b) + (-(a - r)))
  BY <1>2, <1>3, <1>4, MultAdd
<1>6. (a - b) + (-(a - r)) = r - b /\ r - b \in Int
  BY <1>2
<1>7. Mult((r - b) + (b - s))
  BY <1>2, <1>3, <1>5, <1>6, MultAdd
<1>8. (r - b) + (b - s) = r - s
  BY <1>2
<1>9. Mult(r - s)
  BY <1>7, <1>8
<1>10. PICK k \in Int : r - s = k * Modulus
  BY <1>9 DEF Mult
<1>11. CASE k = 0
  <2>1. r - s = 0
    BY <1>1, <1>10, <1>11
  <2> QED
    BY <1>2, <2>1
<1>12. CASE k >= 1
  <2>1. k * Modulus >= Modulus
    BY <1>1, <1>12
  <2> QED
    BY <1>1, <1>2, <1>10, <2>1
<1>13. CASE k <= -1
  <2>1. k * Modulus <= -Modulus
    BY <1>1, <1>13
  <2> QED
    BY <1>1, <1>2, <1>10, <2>1
<1> QED
  BY <1>11, <1>12, <1>13

\* A number may be replaced by its remainder under a sum.
LEMMA CongModSum ==
  ASSUME NEW a \in Int, NEW b \in Int, NEW c \in Int, Cong(a + b, c)
  PROVE  Cong((a % Modulus) + (b % Modulus), c)
<1> DEFINE r == a % Modulus
           s == b % Modulus
<1>1. r \in Int /\ s \in Int /\ Mult(a - r) /\ Mult(b - s)
  BY MultMod
<1>2. Mult((a + b) - c)
  BY CongMult
<1>3. Mult((a - r) + (b - s))
  BY <1>1, MultAdd
<1>4. Mult(-((a - r) + (b - s)))
  BY <1>1, <1>3, MultNeg
<1>5. Mult(((a + b) - c) + (-((a - r) + (b - s))))
  BY <1>1, <1>2, <1>4, MultAdd
<1>6. ((a + b) - c) + (-((a - r) + (b - s))) = (r + s) - c
  BY <1>1
<1>7. Mult((r + s) - c) /\ r + s \in Int
  BY <1>1, <1>5, <1>6
<1> HIDE DEF r, s
<1>8. Cong(r + s, c)
  BY <1>7, CongMult
<1> QED
  BY <1>8 DEF r, s

\* Equality in the group may be taken modulo it on the right.
LEMMA CongModRight ==
  ASSUME NEW a \in Int, NEW c \in Int, Cong(a, c)
  PROVE  Cong(a, c % Modulus)
<1> DEFINE r == c % Modulus
<1>1. r \in Int /\ Mult(c - r)
  BY MultMod
<1>2. Mult(a - c)
  BY CongMult
<1>3. Mult((a - c) + (c - r))
  BY <1>1, <1>2, MultAdd
<1>4. (a - c) + (c - r) = a - r
  BY <1>1
<1> HIDE DEF r
<1>5. Mult(a - r)
  BY <1>3, <1>4
<1>6. Cong(a, r)
  BY <1>1, <1>5, CongMult
<1> QED
  BY <1>6 DEF r

-----------------------------------------------------------------------------
(* One level of the tree.                                                  *)

\* A child is a node.
LEMMA ChildType ==
  ASSUME NEW n \in Node, NEW c \in Correct, NEW b \in Bit
  PROVE  Child(n, c, b) \in Node
<1>1. Expand[n.seed][b] \in Node
  BY GeneratorAssumption DEF Node
<1> QED
  BY <1>1 DEF Child, Node, Correct, Xor, Flip, Seed, Bit

\* A correction is made of a seed and two bits.
LEMMA CorrectionType ==
  ASSUME NEW s \in [Party -> Node], NEW keep \in Bit
  PROVE  Correction(s, keep) \in Correct
<1>1. \A p \in Party, b \in Bit : Expand[s[p].seed][b] \in Node
  BY GeneratorAssumption DEF Node
<1>2. Expand[s[0].seed][1 - keep].seed \in Seed /\ Expand[s[1].seed][1 - keep].seed \in Seed
  BY <1>1 DEF Node, Bit, Party
<1> QED
  BY <1>2 DEF Correction, Correct, Xor, Flip, Seed, Bit

\* The servers' control bits stay opposite in the child that is kept.
LEMMA KeptOpposite ==
  ASSUME NEW s \in [Party -> Node], NEW keep \in Bit, s[0].t # s[1].t
  PROVE  Child(s[0], Correction(s, keep), keep).t # Child(s[1], Correction(s, keep), keep).t
<1>1. s[0].t \in Bit /\ s[1].t \in Bit
  BY DEF Node, Party
<1>2. Expand[s[0].seed][keep].t \in Bit /\ Expand[s[1].seed][keep].t \in Bit
  BY GeneratorAssumption DEF Node, Party
<1> QED
  BY <1>1, <1>2 DEF Child, Correction, Flip, Bit

\* The servers' nodes become the same in the child that is left out.
LEMMA LostSame ==
  ASSUME NEW s \in [Party -> Node], NEW keep \in Bit, s[0].t # s[1].t
  PROVE  Child(s[0], Correction(s, keep), 1 - keep) = Child(s[1], Correction(s, keep), 1 - keep)
<1> DEFINE b == 1 - keep
           e == Expand[s[0].seed][b]
           f == Expand[s[1].seed][b]
<1>1. b \in Bit /\ b # keep /\ s[0] \in Node /\ s[1] \in Node
  BY DEF Bit, Party
<1>2. s[0].t \in {0, 1} /\ s[1].t \in {0, 1} /\ s[0].seed \in Seed /\ s[1].seed \in Seed
  BY <1>1 DEF Node, Bit
<1>3. e \in [seed : Seed, t : Bit] /\ f \in [seed : Seed, t : Bit]
  BY <1>1, <1>2, GeneratorAssumption DEF Node
<1>4. e.t \in {0, 1} /\ f.t \in {0, 1} /\ e = [seed |-> e.seed, t |-> e.t] /\ f = [seed |-> f.seed, t |-> f.t]
  BY <1>3 DEF Bit
<1> DEFINE c == Correction(s, keep)
<1>5. c.seed = Xor(e.seed, f.seed) /\ c.t[b] = Flip(e.t, f.t)
  BY <1>1 DEF Correction
<1>6. Xor(e.seed, Xor(e.seed, f.seed)) = f.seed /\ Xor(f.seed, Xor(e.seed, f.seed)) = e.seed
  BY DEF Xor
<1>7. Flip(e.t, Flip(e.t, f.t)) = f.t /\ Flip(f.t, Flip(e.t, f.t)) = e.t
  BY <1>4 DEF Flip
<1> HIDE DEF b, c, e, f
<1>8. CASE s[0].t = 0 /\ s[1].t = 1
  <2>1. Child(s[0], c, b) = e
    BY <1>8 DEF Child, e
  <2>2. Child(s[1], c, b) = [seed |-> Xor(f.seed, c.seed), t |-> Flip(f.t, c.t[b])]
    BY <1>8 DEF Child, f
  <2> QED
    BY <2>1, <2>2, <1>4, <1>5, <1>6, <1>7 DEF b, c
<1>9. CASE s[0].t = 1 /\ s[1].t = 0
  <2>1. Child(s[1], c, b) = f
    BY <1>9 DEF Child, f
  <2>2. Child(s[0], c, b) = [seed |-> Xor(e.seed, c.seed), t |-> Flip(e.t, c.t[b])]
    BY <1>9 DEF Child, e
  <2> QED
    BY <2>1, <2>2, <1>4, <1>5, <1>6, <1>7 DEF b, c
<1> QED
  BY <1>2, <1>8, <1>9

-----------------------------------------------------------------------------
(* What the servers add on one level.                                      *)

\* The share of server p after a step with value a, control bit t, word w.
Step(p, a, v, t, w) == a + (RoleSign(p) * (v + (t * w)))

\* Words and sums are numbers.
LEMMA ValueType ==
  ASSUME NEW n \in Node, NEW b \in Bit
  PROVE  Value(n.seed, b) \in Int /\ Convert[n.seed] \in Int
BY GeneratorAssumption DEF Value, Node

LEMMA DifferenceType ==
  ASSUME NEW s \in [Party -> Node], NEW b \in Bit
  PROVE  Difference(s, b) \in Int
BY ValueType, s[0] \in Node, s[1] \in Node DEF Difference, Party

LEMMA LostType ==
  ASSUME payload \in Payloads, NEW keep
  PROVE  Lost(keep) \in Int
BY GroupAssumption DEF Lost

\* With opposite control bits, a word enters the sum once, with a sign.
LEMMA StepSum ==
  ASSUME NEW m \in Node, NEW n \in Node, m.t # n.t,
         NEW a \in Int, NEW b \in Int, NEW v0 \in Int, NEW v1 \in Int, NEW w \in Int
  PROVE  /\ Step(0, a, v0, m.t, w) \in Int /\ Step(1, b, v1, n.t, w) \in Int
         /\ Step(0, a, v0, m.t, w) + Step(1, b, v1, n.t, w)
              = (a + b) + (v0 - v1) + (IF n.t = 1 THEN -w ELSE w)
<1>1. m.t \in {0, 1} /\ n.t \in {0, 1}
  BY DEF Node, Bit
<1>2. CASE m.t = 0 /\ n.t = 1
  BY <1>2 DEF Step, RoleSign
<1>3. CASE m.t = 1 /\ n.t = 0
  BY <1>3 DEF Step, RoleSign
<1> QED
  BY <1>1, <1>2, <1>3

\* With the same node both add the same, and it cancels out.
LEMMA StepSame ==
  ASSUME NEW n \in Node, NEW a \in Int, NEW b \in Int, NEW v \in Int, NEW w \in Int
  PROVE  /\ Step(0, a, v, n.t, w) \in Int /\ Step(1, b, v, n.t, w) \in Int
         /\ Step(0, a, v, n.t, w) + Step(1, b, v, n.t, w) = a + b
<1>1. n.t \in {0, 1}
  BY DEF Node, Bit
<1>2. CASE n.t = 0
  BY <1>2 DEF Step, RoleSign
<1>3. CASE n.t = 1
  BY <1>3 DEF Step, RoleSign
<1> QED
  BY <1>1, <1>2, <1>3

\* A sign times a remainder is, in the group, the number it was made from.
LEMMA SignedRemainder ==
  ASSUME NEW s, NEW a \in Int
  PROVE  Cong(Sign(s) * ((Sign(s) * a) % Modulus), a)
<1> DEFINE g == Sign(s)
           r == (g * a) % Modulus
<1>1. g = 1 \/ g = -1
  BY DEF Sign
<1>2. g \in Int /\ g * a \in Int
  BY <1>1
<1>3. r \in Int /\ Mult((g * a) - r)
  BY <1>2, MultMod
<1> HIDE DEF r
<1>4. Mult(-((g * a) - r))
  BY <1>2, <1>3, MultNeg
<1>5. CASE g = 1
  <2>1. -((g * a) - r) = (g * r) - a
    BY <1>3, <1>5
  <2> QED
    BY <1>2, <1>3, <1>4, <2>1, CongMult DEF r
<1>6. CASE g = -1
  <2>1. (g * a) - r = (g * r) - a
    BY <1>3, <1>6
  <2> QED
    BY <1>2, <1>3, <2>1, CongMult DEF r
<1> QED
  BY <1>1, <1>5, <1>6

\* What a level's word stands for.
LEMMA WordMeans ==
  ASSUME NEW s \in [Party -> Node], NEW keep \in Bit, NEW v \in Int,
         payload \in Payloads, kind = "dpf" => v = 0
  PROVE  /\ LevelWord(s, v, keep) \in Int
         /\ Cong(Sign(s) * LevelWord(s, v, keep),
                 Difference(s, 1 - keep) - v + Lost(keep))
<1> DEFINE a == Difference(s, 1 - keep) - v + Lost(keep)
<1>1. a \in Int
  BY DifferenceType, LostType, 1 - keep \in Bit DEF Bit
<1>2. CASE kind = "dpf"
  <2>1. Difference(s, 1 - keep) = 0
    BY <1>2 DEF Difference, Value
  <2>2. Lost(keep) = 0
    BY <1>2 DEF Lost
  <2>3. LevelWord(s, v, keep) = 0 /\ a = 0 /\ Sign(s) * 0 = 0
    BY <1>2, <2>1, <2>2 DEF LevelWord, Sign
  <2>4. Cong(0, 0)
    BY MultZero, CongMult
  <2> QED
    BY <2>3, <2>4
<1>3. CASE kind # "dpf"
  <2>1. LevelWord(s, v, keep) = (Sign(s) * a) % Modulus
    BY <1>3 DEF LevelWord
  <2>2. Sign(s) * a \in Int
    BY <1>1 DEF Sign
  <2> HIDE DEF a
  <2>3. (Sign(s) * a) % Modulus \in Int
    BY <2>2, MultMod
  <2>4. Cong(Sign(s) * ((Sign(s) * a) % Modulus), a)
    BY <1>1, SignedRemainder
  <2> QED
    BY <2>1, <2>3, <2>4 DEF a
<1> QED
  BY <1>2, <1>3

\* On the way to alpha the sum of the shares becomes the client's NextValue.
LEMMA LevelKept ==
  ASSUME NEW m \in Node, NEW n \in Node, m.t # n.t, NEW v \in Int, NEW w \in Int,
         NEW v0 \in Int, NEW v1 \in Int,
         NEW a \in Int, NEW b \in Int, Cong(a + b, v)
  PROVE  Cong((Step(0, a, v0, m.t, w) % Modulus) + (Step(1, b, v1, n.t, w) % Modulus),
              (v - (v1 - v0) + (IF n.t = 1 THEN -w ELSE w)) % Modulus)
<1>1. PICK g \in Int : g = IF n.t = 1 THEN -w ELSE w
  BY ONLY w \in Int
<1>2. PICK x0 \in Int, x1 \in Int :
        /\ x0 = Step(0, a, v0, m.t, w) /\ x1 = Step(1, b, v1, n.t, w)
        /\ x0 + x1 = (a + b) + (v0 - v1) + g
  <2>1. /\ Step(0, a, v0, m.t, w) \in Int /\ Step(1, b, v1, n.t, w) \in Int
        /\ Step(0, a, v0, m.t, w) + Step(1, b, v1, n.t, w)
             = (a + b) + (v0 - v1) + (IF n.t = 1 THEN -w ELSE w)
    BY ONLY StepSum, m \in Node, n \in Node, m.t # n.t, a \in Int, b \in Int,
            v0 \in Int, v1 \in Int, w \in Int
  <2> QED
    BY ONLY <1>1, <2>1
<1>3. PICK sum \in Int : sum = v - (v1 - v0) + g
  BY <1>1
<1>4. (x0 + x1) - sum = (a + b) - v /\ a + b \in Int /\ x0 + x1 \in Int
  BY <1>1, <1>2, <1>3
<1>5. Mult((a + b) - v)
  BY <1>4, CongMult
<1>6. Cong(x0 + x1, sum)
  BY <1>3, <1>4, <1>5, CongMult
<1>7. Cong((x0 % Modulus) + (x1 % Modulus), sum)
  BY <1>2, <1>3, <1>6, CongModSum
<1>8. (x0 % Modulus) + (x1 % Modulus) \in Int
  BY <1>2, MultMod
<1>9. Cong((x0 % Modulus) + (x1 % Modulus), sum % Modulus)
  BY <1>3, <1>7, <1>8, CongModRight
<1> QED
  BY <1>1, <1>2, <1>3, <1>9

\* Where x leaves the way to alpha it becomes what that side is worth.
LEMMA LevelLost ==
  ASSUME NEW m \in Node, NEW n \in Node, m.t # n.t, NEW v \in Int, NEW w \in Int,
         NEW v0 \in Int, NEW v1 \in Int, NEW lost \in Int,
         Cong(IF n.t = 1 THEN -w ELSE w, (v1 - v0) - v + lost),
         NEW a \in Int, NEW b \in Int, Cong(a + b, v)
  PROVE  Cong((Step(0, a, v0, m.t, w) % Modulus) + (Step(1, b, v1, n.t, w) % Modulus),
              lost)
<1>1. PICK g \in Int : g = IF n.t = 1 THEN -w ELSE w
  BY ONLY w \in Int
<1>2. PICK x0 \in Int, x1 \in Int :
        /\ x0 = Step(0, a, v0, m.t, w) /\ x1 = Step(1, b, v1, n.t, w)
        /\ x0 + x1 = (a + b) + (v0 - v1) + g
  <2>1. /\ Step(0, a, v0, m.t, w) \in Int /\ Step(1, b, v1, n.t, w) \in Int
        /\ Step(0, a, v0, m.t, w) + Step(1, b, v1, n.t, w)
             = (a + b) + (v0 - v1) + (IF n.t = 1 THEN -w ELSE w)
    BY ONLY StepSum, m \in Node, n \in Node, m.t # n.t, a \in Int, b \in Int,
            v0 \in Int, v1 \in Int, w \in Int
  <2> QED
    BY ONLY <1>1, <2>1
<1>3. PICK d \in Int : d = (v1 - v0) - v + lost
  OBVIOUS
<1>4. /\ a + b \in Int /\ (a + b) - v \in Int /\ g - d \in Int /\ x0 + x1 \in Int
      /\ (x0 + x1) - lost = ((a + b) - v) + (g - d)
  BY <1>1, <1>2, <1>3
<1>5. Mult((a + b) - v)
  BY <1>4, CongMult
<1>6. Cong(g, d)
  BY <1>1, <1>3
<1>7. Mult(g - d)
  BY <1>6, CongMult
<1>8. Mult((x0 + x1) - lost)
  BY <1>4, <1>5, <1>7, MultAdd
<1>9. Cong(x0 + x1, lost)
  BY <1>4, <1>8, CongMult
<1>10. Cong((x0 % Modulus) + (x1 % Modulus), lost)
  BY <1>2, <1>9, CongModSum
<1> QED
  BY <1>2, <1>10

\* From equal nodes on the sum stays what it is.
LEMMA LevelSame ==
  ASSUME NEW n \in Node, NEW v \in Int, NEW w \in Int,
         NEW a \in Int, NEW b \in Int, NEW c \in Int, Cong(a + b, c)
  PROVE  Cong((Step(0, a, v, n.t, w) % Modulus) + (Step(1, b, v, n.t, w) % Modulus), c)
<1>1. PICK x0 \in Int, x1 \in Int :
        /\ x0 = Step(0, a, v, n.t, w) /\ x1 = Step(1, b, v, n.t, w)
        /\ x0 + x1 = a + b
  <2>1. /\ Step(0, a, v, n.t, w) \in Int /\ Step(1, b, v, n.t, w) \in Int
        /\ Step(0, a, v, n.t, w) + Step(1, b, v, n.t, w) = a + b
    BY ONLY StepSame, n \in Node, v \in Int, w \in Int, a \in Int, b \in Int
  <2> QED
    BY ONLY <2>1
<1>2. Cong(x0 + x1, c)
  BY <1>1
<1>3. Cong((x0 % Modulus) + (x1 % Modulus), c)
  BY <1>1, <1>2, CongModSum
<1> QED
  BY <1>1, <1>3

-----------------------------------------------------------------------------
(* What the value at x is.                                                 *)

\* A point on the way to the end is alpha itself.
LEMMA LeafTarget ==
  ASSUME TypeOK, On(Depth)
  PROVE  Target = IF kind = "dpf" THEN payload ELSE 0
<1>1. x \in [1 .. Depth -> {0, 1}] /\ alpha \in [1 .. Depth -> {0, 1}]
  BY DEF TypeOK, Point, Bit
<1>2. x = alpha
  <2>1. x = [i \in 1 .. Depth |-> x[i]] /\ alpha = [i \in 1 .. Depth |-> alpha[i]]
    BY <1>1
  <2>2. \A i \in 1 .. Depth : x[i] = alpha[i]
    BY DEF On
  <2> QED
    BY <2>1, <2>2, Zenon
<1>3. \A i \in 1 .. Depth : ~(x[i] < x[i])
  BY <1>1, \A i \in 1 .. Depth : x[i] \in {0, 1}
<1>4. ~Less(x, x)
  BY <1>3 DEF Less
<1> QED
  BY <1>2, <1>4 DEF Target

\* The level where x leaves the way to alpha decides.
LEMMA LeaveTarget ==
  ASSUME TypeOK, NEW j \in 1 .. Depth, On(j - 1), x[j] # alpha[j]
  PROVE  Target = Lost(alpha[j])
<1>1. j \in Nat /\ Depth \in Nat /\ \A h \in 1 .. j - 1 : x[h] = alpha[h]
  BY DepthAssumption DEF On
<1>2. x[j] \in {0, 1} /\ alpha[j] \in {0, 1} /\ \A i \in 1 .. Depth : x[i] \in {0, 1} /\ alpha[i] \in {0, 1}
  BY DEF TypeOK, Point, Bit
<1>3. x # alpha
  OBVIOUS
<1>4. ASSUME NEW i \in 1 .. Depth, \A h \in 1 .. i - 1 : x[h] = alpha[h], x[i] # alpha[i]
      PROVE  i = j
  <2>1. ~(i < j)
    BY <1>1, <1>4
  <2>2. ~(j < i)
    BY <1>1, <1>4, j \in 1 .. i - 1 \/ ~(j < i)
  <2> QED
    BY <1>1, <2>1, <2>2
<1>5. Less(x, alpha) <=> x[j] < alpha[j]
  <2>1. ASSUME x[j] < alpha[j]
        PROVE  Less(x, alpha)
    BY <1>1, <2>1 DEF Less
  <2>2. ASSUME Less(x, alpha)
        PROVE  x[j] < alpha[j]
    <3>1. PICK i \in 1 .. Depth : x[i] < alpha[i] /\ \A h \in 1 .. i - 1 : x[h] = alpha[h]
      BY <2>2 DEF Less
    <3>2. x[i] # alpha[i]
      BY <1>2, <3>1
    <3> QED
      BY <1>4, <3>1, <3>2
  <2> QED
    BY <2>1, <2>2
<1>6. Less(alpha, x) <=> alpha[j] < x[j]
  <2>1. ASSUME alpha[j] < x[j]
        PROVE  Less(alpha, x)
    BY <1>1, <2>1 DEF Less
  <2>2. ASSUME Less(alpha, x)
        PROVE  alpha[j] < x[j]
    <3>1. PICK i \in 1 .. Depth : alpha[i] < x[i] /\ \A h \in 1 .. i - 1 : alpha[h] = x[h]
      BY <2>2 DEF Less
    <3>2. x[i] # alpha[i]
      BY <1>2, <3>1
    <3> QED
      BY <1>4, <3>1, <3>2
  <2> QED
    BY <2>1, <2>2
<1>7. (x[j] < alpha[j] <=> alpha[j] = 1) /\ (alpha[j] < x[j] <=> alpha[j] = 0)
  BY <1>2
<1> QED
  BY <1>3, <1>5, <1>6, <1>7 DEF Target, Lost

-----------------------------------------------------------------------------
(* One level of the servers' descent.                                      *)

NewPath(p, j) == Child(path[p][j - 1], cw[j], x[j])
NewShare(p, j) == (share[p][j - 1] + Added(p, j)) % Modulus

\* If the shares balance at a level, what both servers compute for the next
\* one balances there.
LEMMA BalanceStep ==
  ASSUME TypeOK, Generated, Plain, level = Depth, NEW j \in 1 .. Depth, Balanced(j - 1),
         On(j - 1) => \A p \in Party : path[p][j - 1] = trail[j - 1][p]
  PROVE  IF On(j) THEN Cong(NewShare(0, j) + NewShare(1, j), vAlpha[j])
         ELSE NewPath(0, j) = NewPath(1, j) /\ Cong(NewShare(0, j) + NewShare(1, j), Target)
<1> DEFINE m == path[0][j - 1]
           n == path[1][j - 1]
           a == share[0][j - 1]
           b == share[1][j - 1]
           v == vAlpha[j - 1]
           w == word[j]
           s == trail[j - 1]
           keep == alpha[j]
<1>1. j - 1 \in 0 .. Depth /\ j - 1 \in 0 .. level /\ j \in 1 .. level /\ j \in 1 .. Depth + 1 /\ j \in 0 .. Depth
  BY DepthAssumption
<1>2. /\ m \in Node /\ n \in Node /\ a \in Int /\ b \in Int /\ v \in Int /\ w \in Int
      /\ s \in [Party -> Node] /\ keep \in Bit /\ x[j] \in Bit
      /\ payload \in Payloads /\ Target \in Int
  <2>1. payload \in Payloads /\ Target \in Int
    BY GroupAssumption DEF TypeOK, Target
  <2> QED
    BY <1>1, <2>1 DEF TypeOK, Party, Point
<1>3. /\ NewShare(0, j) = Step(0, a, Value(m.seed, x[j]), m.t, w) % Modulus
      /\ NewShare(1, j) = Step(1, b, Value(n.seed, x[j]), n.t, w) % Modulus
  BY DEF NewShare, Added, Step
<1>4. s[0].t # s[1].t
  BY <1>1 DEF Generated
<1>5. On(j) <=> On(j - 1) /\ x[j] = keep
  BY <1>1, 1 .. j = (1 .. j - 1) \cup {j} DEF On
<1>6. CASE On(j - 1)
  <2>1. m = s[0] /\ n = s[1] /\ Cong(a + b, v)
    BY <1>6 DEF Balanced, Party
  <2>2. Sign(s) * w = IF n.t = 1 THEN -w ELSE w
    BY <1>2, <2>1 DEF Sign
  <2>3. CASE x[j] = keep
    <3> DEFINE v0 == Value(m.seed, keep)
               v1 == Value(n.seed, keep)
    <3>1. v0 \in Int /\ v1 \in Int
      BY <1>2, ValueType
    <3>2. vAlpha[j] = NextValue(s, v, keep, w)
      BY <1>1 DEF Generated
    <3>3. vAlpha[j] = (v - (v1 - v0) + (IF n.t = 1 THEN -w ELSE w)) % Modulus
      BY <2>1, <2>2, <3>2 DEF NextValue, Difference
    <3>4. m.t # n.t
      BY <1>4, <2>1
    <3> HIDE DEF m, n, a, b, v, w, s, keep, v0, v1
    <3>5. Cong((Step(0, a, v0, m.t, w) % Modulus) + (Step(1, b, v1, n.t, w) % Modulus),
               (v - (v1 - v0) + (IF n.t = 1 THEN -w ELSE w)) % Modulus)
      BY <1>2, <2>1, <3>1, <3>4, LevelKept
    <3> QED
      BY <1>3, <1>5, <1>6, <2>3, <3>3, <3>5 DEF v0, v1
  <2>4. CASE x[j] # keep
    <3> DEFINE v0 == Value(m.seed, 1 - keep)
               v1 == Value(n.seed, 1 - keep)
               lost == Lost(keep)
    <3>1. x[j] = 1 - keep /\ 1 - keep \in Bit
      BY <1>2, <2>4 DEF Bit
    <3>2. v0 \in Int /\ v1 \in Int /\ lost \in Int
      BY <1>2, <3>1, ValueType, LostType
    <3>3. kind = "dpf" => v = 0
      BY <1>1 DEF Plain
    <3>4. w = LevelWord(s, v, keep) /\ cw[j] = Correction(s, keep)
      BY <1>1 DEF Generated
    <3>5. Cong(Sign(s) * w, Difference(s, 1 - keep) - v + lost)
      BY <1>2, <3>3, <3>4, WordMeans
    <3>6. Difference(s, 1 - keep) = v1 - v0
      BY <2>1 DEF Difference
    <3>7. NewPath(0, j) = NewPath(1, j)
      <4>1. Child(s[0], Correction(s, keep), 1 - keep) = Child(s[1], Correction(s, keep), 1 - keep)
        BY <1>2, <1>4, LostSame
      <4> QED
        BY <2>1, <3>1, <3>4, <4>1 DEF NewPath
    <3>8. Target = lost
      BY <1>6, <2>4, LeaveTarget
    <3>9. m.t # n.t
      BY <1>4, <2>1
    <3> HIDE DEF m, n, a, b, v, w, s, keep, v0, v1, lost
    <3>10. Cong(IF n.t = 1 THEN -w ELSE w, (v1 - v0) - v + lost)
      BY <2>2, <3>5, <3>6
    <3>11. Cong((Step(0, a, v0, m.t, w) % Modulus) + (Step(1, b, v1, n.t, w) % Modulus), lost)
      BY <1>2, <2>1, <3>2, <3>9, <3>10, LevelLost
    <3> QED
      BY <1>3, <1>5, <2>4, <3>1, <3>7, <3>8, <3>11 DEF v0, v1
  <2> QED
    BY <2>3, <2>4
<1>7. CASE ~On(j - 1)
  <2>1. m = n /\ Cong(a + b, Target)
    BY <1>7 DEF Balanced
  <2>2. NewPath(0, j) = NewPath(1, j)
    BY <2>1 DEF NewPath
  <2> DEFINE u == Value(n.seed, x[j])
             goal == Target
  <2>3. u \in Int
    BY <1>2, ValueType
  <2> HIDE DEF m, n, a, b, v, w, u, goal
  <2>4. Cong((Step(0, a, u, n.t, w) % Modulus) + (Step(1, b, u, n.t, w) % Modulus), goal)
    BY <1>2, <2>1, <2>3, LevelSame DEF goal
  <2> QED
    BY <1>3, <1>5, <1>7, <2>1, <2>2, <2>4 DEF u, goal
<1> QED
  BY <1>6, <1>7

-----------------------------------------------------------------------------
(* The invariant.                                                          *)

LEMMA InitType == Init => TypeOK
<1> SUFFICES ASSUME Init PROVE TypeOK
  OBVIOUS
<1>1. Depth \in Nat
  BY DepthAssumption
<1>2. PICK root \in Roots :
        /\ trail = [j \in 0 .. Depth |-> root]
        /\ path = [p \in Party |-> [j \in 0 .. Depth |-> root[p]]]
  BY DEF Init
<1>3. root \in [Party -> Node]
  BY DEF Roots
<1>4. trail \in [0 .. Depth -> [Party -> Node]] /\ path \in [Party -> [0 .. Depth -> Node]]
  BY <1>2, <1>3
<1>5. cw \in [1 .. Depth -> Correct]
  BY DEF Init, Correct, Seed, Bit
<1>6. kind \in Kinds /\ alpha \in Point /\ payload \in Payloads /\ x \in Point
  BY DEF Init
<1>7. level \in 0 .. Depth /\ ready \in BOOLEAN /\ depth \in [Party -> 0 .. Depth]
  <2>1. level = 0 /\ ready = FALSE /\ depth = [p \in Party |-> 0]
    BY DEF Init
  <2>2. ready \in BOOLEAN
    BY <2>1, Zenon
  <2>3. level \in 0 .. Depth /\ depth \in [Party -> 0 .. Depth]
    BY ONLY <1>1, <2>1
  <2> QED
    BY <2>2, <2>3, Zenon
<1>8. /\ vAlpha \in [0 .. Depth -> Int] /\ word \in [1 .. Depth + 1 -> Int]
      /\ share \in [Party -> [0 .. Depth -> Int]]
  BY DEF Init
<1>9. result \in [Party -> Int \cup {NoResult}]
  BY DEF Init
<1> QED
  BY <1>4, <1>5, <1>6, <1>7, <1>8, <1>9 DEF TypeOK

\* The type of what the two parties compute.
LEMMA WordType ==
  ASSUME TypeOK, NEW s \in [Party -> Node], NEW v \in Int, NEW keep \in Bit
  PROVE  /\ LevelWord(s, v, keep) \in Int
         /\ \A w \in Int : NextValue(s, v, keep, w) \in Int
         /\ LastWord(s, v) \in Int
<1>1. payload \in Int /\ payload \in Payloads
  BY GroupAssumption DEF TypeOK
<1>2. Sign(s) \in {1, -1}
  BY DEF Sign
<1>3. \A b \in Bit : Difference(s, b) \in Int
  BY DifferenceType
<1>4. s[0] \in Node /\ s[1] \in Node /\ 1 - keep \in Bit
  BY DEF Party, Bit
<1>5. Convert[s[0].seed] \in Int /\ Convert[s[1].seed] \in Int
  BY <1>4, GeneratorAssumption DEF Node
<1>6. Lost(keep) \in Int
  BY <1>1, LostType
<1>7. \A n \in Int : n % Modulus \in Int
  BY MultMod
<1>8. LevelWord(s, v, keep) \in Int
  <2>1. Sign(s) * (Difference(s, 1 - keep) - v + Lost(keep)) \in Int
    BY <1>2, <1>3, <1>4, <1>6
  <2> QED
    BY <1>7, <2>1 DEF LevelWord
<1>9. \A w \in Int : NextValue(s, v, keep, w) \in Int
  <2>1. \A w \in Int : v - Difference(s, keep) + (Sign(s) * w) \in Int
    BY <1>2, <1>3
  <2> QED
    BY <1>7, <2>1 DEF NextValue
<1>10. LastWord(s, v) \in Int
  <2>1. Sign(s) * ((IF kind = "dpf" THEN payload ELSE 0)
                     + Convert[s[1].seed] - Convert[s[0].seed] - v) \in Int
    BY <1>1, <1>2, <1>5
  <2> QED
    BY <1>7, <2>1 DEF LastWord
<1> QED
  BY <1>8, <1>9, <1>10

\* Until the keys are dealt no server has moved.
LEMMA Waiting ==
  ASSUME KeyInv, ~ready
  PROVE  \A p \in Party : depth[p] = 0 /\ result[p] = NoResult
<1> TAKE p \in Party
<1>1. depth[p] \in 0 .. Depth /\ Depth \in Nat
  BY DepthAssumption DEF KeyInv, TypeOK
<1>2. (depth[p] > 0 => ready) /\ (result[p] # NoResult => ready)
  BY DEF KeyInv, Followed
<1> QED
  BY <1>1, <1>2

\* No server has moved.
AtRoots ==
  /\ \A p \in Party : /\ depth[p] = 0 /\ result[p] = NoResult
                      /\ path[p][0] = trail[0][p] /\ share[p][0] = 0
  /\ vAlpha[0] = 0

\* Then what the invariant says of the servers is what it says of their roots.
LEMMA RootsBalanced == AtRoots => Followed /\ SharesBalanced
<1> SUFFICES ASSUME AtRoots PROVE Followed /\ SharesBalanced
  OBVIOUS
<1> USE DEF AtRoots
<1>0. Depth \in Nat
  BY DepthAssumption
<1>1. Followed
  <2> SUFFICES ASSUME NEW p \in Party
               PROVE  /\ depth[p] > 0 => ready
                      /\ path[p][0] = trail[0][p] /\ share[p][0] = 0
                      /\ \A j \in 1 .. depth[p] :
                           /\ path[p][j] = Child(path[p][j - 1], cw[j], x[j])
                           /\ share[p][j] = (share[p][j - 1] + Added(p, j)) % Modulus
                      /\ \A j \in 0 .. depth[p] : On(j) => path[p][j] = trail[j][p]
                      /\ result[p] # NoResult =>
                           /\ ready
                           /\ depth[p] = Depth
                           /\ result[p] = (share[p][Depth] + AddedLast(p)) % Modulus
    BY DEF Followed
  <2>1. depth[p] = 0 /\ share[p][0] = 0 /\ path[p][0] = trail[0][p] /\ result[p] = NoResult
    OBVIOUS
  <2>2. ~(depth[p] > 0) /\ (\A j \in 1 .. depth[p] : FALSE) /\ (\A j \in 0 .. depth[p] : j = 0)
    BY <2>1
  <2> QED
    BY <2>1, <2>2
<1>2. SharesBalanced
  <2>1. \A j \in 0 .. Depth : j <= depth[0] => j = 0
    BY <1>0 DEF Party
  <2>2. On(0)
    BY DEF On
  <2>3. share[0][0] + share[1][0] = 0
    BY DEF Party
  <2>4. Cong(0, 0)
    BY MultZero, CongMult
  <2>5. Balanced(0)
    BY <2>2, <2>3, <2>4 DEF Balanced
  <2> QED
    BY <2>1, <2>5 DEF SharesBalanced
<1> QED
  BY <1>1, <1>2

LEMMA InitInv == Init => KeyInv
<1> SUFFICES ASSUME Init PROVE KeyInv
  OBVIOUS
<1>1. TypeOK
  BY InitType
<1>2. Depth \in Nat /\ Depth # 0 /\ 0 \in 0 .. Depth
  BY DepthAssumption
<1>3. PICK root \in Roots :
        /\ trail = [j \in 0 .. Depth |-> root]
        /\ path = [p \in Party |-> [j \in 0 .. Depth |-> root[p]]]
  BY DEF Init
<1>4. root[0].t # root[1].t
  <2>1. root \in [Party -> Node] /\ root[0].t = 1 - root[1].t
    BY DEF Roots
  <2>2. root[1].t \in {0, 1}
    BY <2>1 DEF Party, Node, Bit
  <2> QED
    BY <2>1, <2>2
<1>5. level = 0 /\ ready = FALSE /\ vAlpha[0] = 0
  BY <1>2 DEF Init
<1>6. \A j \in 0 .. level : j = 0
  BY <1>5
<1>7. \A j \in 1 .. level : FALSE
  BY <1>5
<1>8. Generated
  BY <1>2, <1>3, <1>4, <1>5, <1>6, <1>7 DEF Generated
<1>9. Plain
  BY <1>5, <1>6 DEF Plain
<1>10. \A p \in Party : depth[p] = 0 /\ share[p][0] = 0 /\ path[p][0] = trail[0][p] /\ result[p] = NoResult
  BY <1>2, <1>3 DEF Init, Party
<1>11. Followed /\ SharesBalanced
  BY <1>5, <1>10, RootsBalanced DEF AtRoots
<1> QED
  BY <1>1, <1>8, <1>9, <1>11 DEF KeyInv

\* The client's next level.
LEMMA GenLevelInv == KeyInv /\ GenLevel => KeyInv'
<1> SUFFICES ASSUME KeyInv, GenLevel PROVE KeyInv'
  OBVIOUS
<1> DEFINE j == level + 1
           s == trail[level]
           keep == alpha[j]
           c == Correction(s, keep)
           v == vAlpha[level]
           w == LevelWord(s, v, keep)
<1>1. TypeOK /\ Generated /\ Plain /\ Followed
  BY DEF KeyInv
<1>2. /\ level < Depth /\ level' = j
      /\ cw' = [cw EXCEPT ![j] = c]
      /\ word' = [word EXCEPT ![j] = w]
      /\ trail' = [trail EXCEPT ![j] = [p \in Party |-> Child(s[p], c, keep)]]
      /\ vAlpha' = [vAlpha EXCEPT ![j] = NextValue(s, v, keep, w)]
  BY DEF GenLevel
<1>3. UNCHANGED <<kind, alpha, payload, ready, x, depth, path, share, result>>
  BY DEF GenLevel, evaluation
<1>4. Depth \in Nat /\ level \in Nat /\ j \in 1 .. Depth /\ level \in 0 .. Depth /\ j \in 0 .. Depth /\ j \in 1 .. Depth + 1
  BY <1>1, <1>2, DepthAssumption DEF TypeOK
<1>5. ~ready
  BY <1>1, <1>2, <1>4 DEF Generated
<1>6. s \in [Party -> Node] /\ v \in Int /\ keep \in Bit
  BY <1>1, <1>4 DEF TypeOK, Point
<1>7. c \in Correct /\ w \in Int /\ NextValue(s, v, keep, w) \in Int
  BY <1>1, <1>6, CorrectionType, WordType
<1>8. [p \in Party |-> Child(s[p], c, keep)] \in [Party -> Node]
  BY <1>6, <1>7, ChildType
<1>9. TypeOK'
  <2>1. cw' \in [1 .. Depth -> Correct]
    BY <1>1, <1>2, <1>4, <1>7 DEF TypeOK
  <2>2. word' \in [1 .. Depth + 1 -> Int] /\ vAlpha' \in [0 .. Depth -> Int]
    BY <1>1, <1>2, <1>4, <1>7 DEF TypeOK
  <2>3. trail' \in [0 .. Depth -> [Party -> Node]]
    BY <1>1, <1>2, <1>4, <1>8 DEF TypeOK
  <2>4. level' \in 0 .. Depth
    BY <1>2, <1>4
  <2> QED
    BY <1>1, <1>3, <2>1, <2>2, <2>3, <2>4 DEF TypeOK, Point
<1>10. \A i \in 0 .. level : trail'[i] = trail[i] /\ vAlpha'[i] = vAlpha[i]
  BY <1>1, <1>2, <1>4 DEF TypeOK
<1>11. \A i \in 1 .. level : cw'[i] = cw[i] /\ word'[i] = word[i]
  BY <1>1, <1>2, <1>4 DEF TypeOK
<1>12. /\ trail'[j] = [p \in Party |-> Child(s[p], c, keep)]
       /\ vAlpha'[j] = NextValue(s, v, keep, w)
       /\ cw'[j] = c /\ word'[j] = w
  BY <1>1, <1>2, <1>4 DEF TypeOK
<1>13. Generated'
  <2>1. vAlpha'[0] = 0
    BY <1>1, <1>4, <1>10 DEF Generated
  <2>2. ASSUME NEW i \in 0 .. level'
        PROVE  (trail'[i])[0].t # (trail'[i])[1].t
    <3>1. CASE i = j
      <4>1. s[0].t # s[1].t
        BY <1>1, <1>4 DEF Generated
      <4>2. Child(s[0], c, keep).t # Child(s[1], c, keep).t
        BY <1>6, <4>1, KeptOpposite
      <4> QED
        BY <1>12, <3>1, <4>2 DEF Party
    <3>2. CASE i # j
      BY <1>1, <1>2, <1>4, <1>10, <3>2 DEF Generated
    <3> QED
      BY <3>1, <3>2
  <2>3. ASSUME NEW i \in 1 .. level'
        PROVE  (/\ cw[i] = Correction(trail[i - 1], alpha[i])
                /\ word[i] = LevelWord(trail[i - 1], vAlpha[i - 1], alpha[i])
                /\ \A p \in Party : trail[i][p] = Child(trail[i - 1][p], cw[i], alpha[i])
                /\ vAlpha[i] = NextValue(trail[i - 1], vAlpha[i - 1], alpha[i], word[i]))'
    <3>1. i - 1 \in 0 .. level /\ trail'[i - 1] = trail[i - 1] /\ vAlpha'[i - 1] = vAlpha[i - 1]
      BY SMTT(40), <1>2, <1>4, <1>10
    <3>2. CASE i = j
      <4>1. i - 1 = level
        BY SMTT(40), <1>4, <3>2
      <4> QED
        BY SMTT(30), <1>3, <1>12, <3>1, <3>2, <4>1
          DEF LevelWord, NextValue, Difference, Value, Lost, Sign
    <3>3. CASE i # j
      <4>1. i \in 1 .. level /\ i \in 0 .. level
        BY <1>2, <1>4, <3>3
      <4>2. cw'[i] = cw[i] /\ word'[i] = word[i] /\ trail'[i] = trail[i] /\ vAlpha'[i] = vAlpha[i]
        BY <1>10, <1>11, <4>1
      <4>3. /\ cw[i] = Correction(trail[i - 1], alpha[i])
            /\ word[i] = LevelWord(trail[i - 1], vAlpha[i - 1], alpha[i])
            /\ \A p \in Party : trail[i][p] = Child(trail[i - 1][p], cw[i], alpha[i])
            /\ vAlpha[i] = NextValue(trail[i - 1], vAlpha[i - 1], alpha[i], word[i])
        BY <1>1, <4>1 DEF Generated
      <4> QED
        BY ZenonT(60), <1>3, <3>1, <4>2, <4>3
          DEF LevelWord, NextValue, Difference, Value, Lost, Sign
    <3> QED
      BY <3>2, <3>3
  <2> QED
    BY <1>3, <1>5, <2>1, <2>2, <2>3 DEF Generated
<1>14. Plain'
  <2> SUFFICES ASSUME kind = "dpf", NEW i \in 0 .. level'
               PROVE  vAlpha'[i] = 0
    BY <1>3 DEF Plain
  <2>1. CASE i = j
    <3>1. v = 0 /\ w = 0 /\ Difference(s, keep) = 0
      BY <1>1, <1>4 DEF Plain, LevelWord, Difference, Value
    <3>2. v - Difference(s, keep) + (Sign(s) * w) = 0
      BY <3>1 DEF Sign
    <3>3. 0 % Modulus = 0
      BY MultZero, MultRemainder
    <3> QED
      BY <1>12, <2>1, <3>2, <3>3 DEF NextValue
  <2>2. CASE i # j
    BY <1>1, <1>2, <1>4, <1>10, <2>2 DEF Plain
  <2> QED
    BY <2>1, <2>2
<1>15. Followed' /\ SharesBalanced'
  <2>1. \A p \in Party : depth[p] = 0 /\ result[p] = NoResult
    BY <1>5, Waiting
  <2>2. \A p \in Party : path[p][0] = trail[0][p] /\ share[p][0] = 0
    BY <1>1 DEF Followed
  <2>3. (\A p \in Party : /\ depth[p] = 0 /\ result[p] = NoResult
                        /\ path[p][0] = trail[0][p] /\ share[p][0] = 0)'
    BY <1>3, <1>4, <1>10, <2>1, <2>2
  <2>4. AtRoots'
    BY <1>13, <2>3 DEF Generated, AtRoots
  <2> QED
    BY <2>4, RootsBalanced, PTL
<1> QED
  BY <1>9, <1>13, <1>14, <1>15 DEF KeyInv

\* The client's last correction.
LEMMA GenLastInv == KeyInv /\ GenLast => KeyInv'
<1> SUFFICES ASSUME KeyInv, GenLast PROVE KeyInv'
  OBVIOUS
<1> DEFINE w == LastWord(trail[Depth], vAlpha[Depth])
<1>1. TypeOK /\ Generated /\ Plain /\ Followed
  BY DEF KeyInv
<1>2. level = Depth /\ ~ready /\ ready' = TRUE /\ word' = [word EXCEPT ![Depth + 1] = w]
  BY DEF GenLast
<1>3. UNCHANGED <<kind, alpha, payload, level, trail, vAlpha, cw, x, depth, path, share, result>>
  BY DEF GenLast, evaluation
<1>4. Depth \in Nat /\ Depth \in 0 .. Depth /\ Depth + 1 \in 1 .. Depth + 1 /\ 0 \in 0 .. level
  BY <1>2, DepthAssumption
<1>5. w \in Int
  <2>1. trail[Depth] \in [Party -> Node] /\ vAlpha[Depth] \in Int /\ 0 \in Bit
    BY <1>1, <1>4 DEF TypeOK, Bit
  <2> QED
    BY <1>1, <2>1, WordType
<1>6. TypeOK'
  <2>1. word' \in [1 .. Depth + 1 -> Int]
    BY <1>1, <1>2, <1>4, <1>5 DEF TypeOK
  <2>2. ready' \in BOOLEAN
    BY <1>2, Zenon
  <2> QED
    BY <1>1, <1>3, <2>1, <2>2 DEF TypeOK, Point
<1>7. Generated'
  <2>1. \A i \in 1 .. level : word'[i] = word[i]
    BY <1>1, <1>2, <1>4 DEF TypeOK
  <2>2. word'[Depth + 1] = w
    BY <1>1, <1>2, <1>4 DEF TypeOK
  <2>3. (word[Depth + 1] = LastWord(trail[Depth], vAlpha[Depth]))'
    BY SMTT(40), <1>3, <2>2 DEF LastWord, Sign
  <2>4. ASSUME NEW i \in 1 .. level
        PROVE  (/\ cw[i] = Correction(trail[i - 1], alpha[i])
                /\ word[i] = LevelWord(trail[i - 1], vAlpha[i - 1], alpha[i])
                /\ \A p \in Party : trail[i][p] = Child(trail[i - 1][p], cw[i], alpha[i])
                /\ vAlpha[i] = NextValue(trail[i - 1], vAlpha[i - 1], alpha[i], word[i]))'
    <3>1. /\ cw[i] = Correction(trail[i - 1], alpha[i])
          /\ word[i] = LevelWord(trail[i - 1], vAlpha[i - 1], alpha[i])
          /\ \A p \in Party : trail[i][p] = Child(trail[i - 1][p], cw[i], alpha[i])
          /\ vAlpha[i] = NextValue(trail[i - 1], vAlpha[i - 1], alpha[i], word[i])
      BY <1>1 DEF Generated
    <3> QED
      BY ZenonT(60), <1>3, <2>1, <3>1 DEF LevelWord, NextValue, Difference, Value, Lost, Sign
  <2> QED
    BY <1>1, <1>2, <1>3, <2>3, <2>4 DEF Generated
<1>8. Plain'
  BY <1>1, <1>3 DEF Plain
<1>9. Followed' /\ SharesBalanced'
  <2>1. \A p \in Party : depth[p] = 0 /\ result[p] = NoResult
    BY <1>2, Waiting
  <2>2. AtRoots
    BY <1>1, <2>1 DEF Followed, Generated, AtRoots
  <2>3. AtRoots'
    BY <1>3, <2>2 DEF AtRoots
  <2> QED
    BY <2>3, RootsBalanced, PTL
<1> QED
  BY <1>6, <1>7, <1>8, <1>9 DEF KeyInv

\* Nothing about the key changes while the servers evaluate it.
LEMMA KeyStays ==
  ASSUME Generated, Plain, UNCHANGED <<keys, x>>
  PROVE  Generated' /\ Plain' /\ \A j : On(j)' <=> On(j)
<1>1. UNCHANGED <<kind, alpha, payload, level, trail, vAlpha, cw, word, ready, x>>
  BY DEF keys
<1>2. Generated'
  BY SMTT(30), <1>1 DEF Generated, LevelWord, NextValue, LastWord, Difference, Value, Lost, Sign
<1>3. Plain'
  BY <1>1 DEF Plain
<1> QED
  BY <1>1, <1>2, <1>3 DEF On

\* One server goes one level down.
LEMMA DescendInv == \A p \in Party : KeyInv /\ Descend(p) => KeyInv'
<1> SUFFICES ASSUME NEW p \in Party, KeyInv, Descend(p) PROVE KeyInv'
  OBVIOUS
<1> DEFINE i == depth[p] + 1
           n == path[p][depth[p]]
<1>1. TypeOK /\ Generated /\ Plain /\ Followed /\ SharesBalanced
  BY DEF KeyInv
<1>2. /\ ready /\ depth[p] < Depth
      /\ depth' = [depth EXCEPT ![p] = i]
      /\ path' = [path EXCEPT ![p][i] = NewPath(p, i)]
      /\ share' = [share EXCEPT ![p][i] = NewShare(p, i)]
      /\ UNCHANGED <<keys, x, result>>
  <2>1. depth[p] \in Int
    BY <1>1 DEF TypeOK
  <2>2. i - 1 = depth[p]
    BY <2>1
  <2> QED
    BY <2>2 DEF Descend, NewPath, NewShare, Added
<1>3. /\ Depth \in Nat /\ depth[p] \in 0 .. Depth /\ i \in 1 .. Depth /\ i \in 0 .. Depth
      /\ i - 1 = depth[p] /\ i \in 1 .. Depth + 1
  <2>1. depth[p] \in 0 .. Depth
    BY <1>1 DEF TypeOK
  <2>2. depth[p] < Depth
    BY <1>2
  <2> QED
    BY <2>1, <2>2, DepthAssumption
<1>4. level = Depth
  BY <1>1, <1>2 DEF Generated
<1>5. /\ UNCHANGED <<kind, alpha, payload, level, trail, vAlpha, cw, word, ready, x, result>>
      /\ Generated' /\ Plain' /\ \A j : On(j)' <=> On(j)
  BY <1>1, <1>2, KeyStays DEF keys
<1>6. NewPath(p, i) \in Node /\ NewShare(p, i) \in Int
  <2>1. n \in Node /\ cw[i] \in Correct /\ x[i] \in Bit /\ word[i] \in Int /\ share[p][depth[p]] \in Int
    BY SMTT(30), <1>1, <1>3 DEF TypeOK, Point
  <2>2. NewPath(p, i) \in Node
    BY <1>3, <2>1, ChildType DEF NewPath
  <2>3. Value(n.seed, x[i]) \in Int /\ n.t \in {0, 1}
    BY <2>1, ValueType DEF Node, Bit
  <2>4. share[p][depth[p]] + Added(p, i) \in Int
    BY <1>3, <2>1, <2>3 DEF Added, RoleSign
  <2> QED
    BY <1>3, <2>2, <2>4, MultMod DEF NewShare
<1>7. TypeOK'
  <2>1. depth' \in [Party -> 0 .. Depth]
    BY <1>1, <1>2, <1>3 DEF TypeOK
  <2>2. path' \in [Party -> [0 .. Depth -> Node]] /\ share' \in [Party -> [0 .. Depth -> Int]]
    BY <1>1, <1>2, <1>3, <1>6 DEF TypeOK
  <2> QED
    BY <1>1, <1>5, <2>1, <2>2 DEF TypeOK, Point
<1>8. \A q \in Party : \A j \in 0 .. Depth :
        j <= depth[q] => path'[q][j] = path[q][j] /\ share'[q][j] = share[q][j]
  <2> TAKE q \in Party
  <2> TAKE j \in 0 .. Depth
  <2>1. CASE q = p
    <3>1. /\ path[p] \in [0 .. Depth -> Node] /\ share[p] \in [0 .. Depth -> Int]
          /\ path \in [Party -> [0 .. Depth -> Node]] /\ share \in [Party -> [0 .. Depth -> Int]]
      BY <1>1 DEF TypeOK
    <3>2. path'[p] = [path[p] EXCEPT ![i] = NewPath(p, i)] /\ share'[p] = [share[p] EXCEPT ![i] = NewShare(p, i)]
      BY <1>2, <3>1
    <3>3. j <= depth[p] => j # i
      BY <1>3
    <3> QED
      BY <2>1, <3>1, <3>2, <3>3
  <2>2. CASE q # p
    BY <1>1, <1>2, <2>2 DEF TypeOK
  <2> QED
    BY <2>1, <2>2
<1>9. /\ depth'[p] = i /\ path'[p][i] = NewPath(p, i) /\ share'[p][i] = NewShare(p, i)
      /\ \A q \in Party : q # p => /\ depth'[q] = depth[q] /\ path'[q] = path[q]
                                    /\ share'[q] = share[q]
  BY <1>1, <1>2, <1>3 DEF TypeOK
<1>10. \A q \in Party : depth[q] \in 0 .. Depth
  BY <1>1 DEF TypeOK
<1>11. result[p] = NoResult
  <2>1. result[p] # NoResult => depth[p] = Depth
    BY <1>1 DEF Followed
  <2>2. depth[p] # Depth
    BY <1>3
  <2> QED
    BY <2>1, <2>2
<1>12. Followed'
  <2> SUFFICES ASSUME NEW q \in Party
               PROVE  /\ depth'[q] > 0 => ready
                      /\ path'[q][0] = trail[0][q] /\ share'[q][0] = 0
                      /\ \A j \in 1 .. depth'[q] :
                           /\ path'[q][j] = Child(path'[q][j - 1], cw[j], x[j])
                           /\ share'[q][j] = (share'[q][j - 1] + Added(q, j)') % Modulus
                      /\ \A j \in 0 .. depth'[q] : On(j) => path'[q][j] = trail[j][q]
                      /\ result[q] # NoResult =>
                           /\ ready
                           /\ depth'[q] = Depth
                           /\ result[q] = (share'[q][Depth] + AddedLast(q)') % Modulus
    BY <1>5 DEF Followed
  <2>1. path'[q][0] = trail[0][q] /\ share'[q][0] = 0
    <3>1. path[q][0] = trail[0][q] /\ share[q][0] = 0 /\ 0 \in 0 .. Depth /\ 0 <= depth[q]
      BY <1>1, <1>3, <1>10 DEF Followed
    <3> QED
      BY <1>8, <3>1
  <2>2. ASSUME NEW j \in 1 .. depth'[q]
        PROVE  /\ path'[q][j] = Child(path'[q][j - 1], cw[j], x[j])
               /\ share'[q][j] = (share'[q][j - 1] + Added(q, j)') % Modulus
    <3>1. CASE j \in 1 .. depth[q]
      <4>1. j \in 0 .. Depth /\ j <= depth[q] /\ j - 1 \in 0 .. Depth /\ j - 1 <= depth[q]
        <5>1. depth[q] \in 0 .. Depth
          BY <1>10
        <5> QED
          BY ONLY <1>3, <3>1, <5>1
      <4>2. /\ path'[q][j] = path[q][j] /\ share'[q][j] = share[q][j]
            /\ path'[q][j - 1] = path[q][j - 1] /\ share'[q][j - 1] = share[q][j - 1]
        BY <1>8, <4>1
      <4>3. Added(q, j)' = Added(q, j)
        BY <1>5, <4>2 DEF Added, Value
      <4>4. /\ path[q][j] = Child(path[q][j - 1], cw[j], x[j])
            /\ share[q][j] = (share[q][j - 1] + Added(q, j)) % Modulus
        BY <1>1, <3>1 DEF Followed
      <4> QED
        BY <4>2, <4>3, <4>4
    <3>2. CASE j \notin 1 .. depth[q]
      <4>1. q = p /\ j = i
        <5>1. q = p
          BY <1>9, <3>2
        <5>2. j \in 1 .. i
          BY <1>9, <5>1
        <5> QED
          BY <1>3, <3>2, <5>1, <5>2
      <4>2. path'[p][i - 1] = path[p][i - 1] /\ share'[p][i - 1] = share[p][i - 1]
        BY <1>3, <1>8
      <4>3. Added(p, j)' = Added(p, j)
        BY <1>5, <4>1, <4>2 DEF Added, Value
      <4>4. NewPath(p, j) = Child(path[p][j - 1], cw[j], x[j]) /\ NewShare(p, j) = (share[p][j - 1] + Added(p, j)) % Modulus
        BY DEF NewPath, NewShare
      <4>5. path'[p][j] = NewPath(p, j) /\ share'[p][j] = NewShare(p, j)
        BY <1>9, <4>1
      <4>6. path'[p][j - 1] = path[p][j - 1] /\ share'[p][j - 1] = share[p][j - 1] /\ q = p
        BY <4>1, <4>2
      <4> HIDE DEF i
      <4> QED
        BY ONLY <4>3, <4>4, <4>5, <4>6
    <3> QED
      BY <3>1, <3>2
  <2>3. ASSUME NEW j \in 0 .. depth'[q], On(j)
        PROVE  path'[q][j] = trail[j][q]
    <3>1. CASE j <= depth[q]
      <4>1. j \in 0 .. Depth /\ j \in 0 .. depth[q]
        <5>1. depth'[q] \in Int /\ j \in Int /\ 0 <= j
          BY <1>7 DEF TypeOK
        <5>2. depth[q] \in 0 .. Depth
          BY <1>10
        <5> QED
          BY ONLY <1>3, <3>1, <5>1, <5>2
      <4> QED
        BY <1>1, <1>8, <2>3, <3>1, <4>1 DEF Followed
    <3>2. CASE ~(j <= depth[q])
      <4>1. q = p /\ j = i
        <5>1. q = p
          BY <1>9, <1>10, <3>2
        <5>2. j \in 0 .. i
          BY <1>9, <5>1
        <5> QED
          BY <1>3, <3>2, <5>1, <5>2
      <4>2. On(i - 1) /\ x[i] = alpha[i]
        BY <1>3, <2>3, <4>1 DEF On
      <4>3. path[p][i - 1] = trail[i - 1][p]
        BY <1>1, <1>3, <4>2 DEF Followed
      <4>4. trail[i][p] = Child(trail[i - 1][p], cw[i], alpha[i])
        BY <1>1, <1>3, <1>4 DEF Generated
      <4> QED
        BY <1>9, <4>1, <4>2, <4>3, <4>4 DEF NewPath
    <3> QED
      BY <3>1, <3>2
  <2>4. (depth'[q] > 0 => ready) /\ (result[q] # NoResult =>
          /\ ready
          /\ depth'[q] = Depth
          /\ result[q] = (share'[q][Depth] + AddedLast(q)') % Modulus)
    <3>1. CASE q = p
      BY <1>2, <1>11, <3>1
    <3>2. CASE q # p
      <4>1. AddedLast(q)' = AddedLast(q)
        BY <1>5, <1>9, <3>2 DEF AddedLast
      <4> QED
        BY <1>1, <1>2, <1>9, <3>2, <4>1 DEF Followed
    <3> QED
      BY <3>1, <3>2
  <2> QED
    BY <2>1, <2>2, <2>3, <2>4
<1>13. SharesBalanced'
  <2> SUFFICES ASSUME NEW j \in 0 .. Depth, j <= depth'[0], j <= depth'[1]
               PROVE  Balanced(j)'
    BY DEF SharesBalanced
  <2>1. Target' = Target
    BY <1>5 DEF Target, Less
  <2>2. CASE j <= depth[0] /\ j <= depth[1]
    <3>1. Balanced(j)
      BY <1>1, <2>2 DEF SharesBalanced
    <3>2. /\ path'[0][j] = path[0][j] /\ share'[0][j] = share[0][j]
          /\ path'[1][j] = path[1][j] /\ share'[1][j] = share[1][j]
      BY <1>8, <2>2 DEF Party
    <3> QED
      BY <1>5, <2>1, <3>1, <3>2 DEF Balanced
  <2>3. CASE ~(j <= depth[0] /\ j <= depth[1])
    <3> DEFINE q == 1 - p
    <3>1. q \in Party /\ q # p /\ depth'[q] = depth[q] /\ {p, q} = {0, 1}
      BY <1>9 DEF Party
    <3>2. j = i /\ i <= depth[q]
      BY <1>3, <1>9, <1>10, <2>3, <3>1 DEF Party
    <3>3. Balanced(i - 1)
      BY <1>1, <1>3, <1>10, <3>1, <3>2 DEF SharesBalanced
    <3>4. \A r \in Party : path'[r][i] = NewPath(r, i) /\ share'[r][i] = NewShare(r, i)
      <4>1. i \in 1 .. depth[q]
        BY <1>3, <1>10, <3>1, <3>2
      <4>2. path[q][i] = NewPath(q, i) /\ share[q][i] = NewShare(q, i)
        BY <1>1, <3>1, <4>1 DEF Followed, NewPath, NewShare
      <4> QED
        BY <1>9, <3>1, <4>2 DEF Party
    <3>5. On(i - 1) => \A r \in Party : path[r][i - 1] = trail[i - 1][r]
      <4>1. \A r \in Party : i - 1 \in 0 .. depth[r]
        BY <1>3, <1>10, <3>1, <3>2 DEF Party
      <4> QED
        BY <1>1, <4>1 DEF Followed
    <3>6. IF On(i) THEN Cong(NewShare(0, i) + NewShare(1, i), vAlpha[i])
          ELSE NewPath(0, i) = NewPath(1, i) /\ Cong(NewShare(0, i) + NewShare(1, i), Target)
      BY <1>1, <1>3, <1>4, <3>3, <3>5, BalanceStep
    <3>7. IF On(i) THEN Cong(share'[0][i] + share'[1][i], vAlpha[i])
          ELSE path'[0][i] = path'[1][i] /\ Cong(share'[0][i] + share'[1][i], Target)
      BY <3>4, <3>6 DEF Party
    <3> QED
      BY <1>5, <2>1, <3>2, <3>7 DEF Balanced
  <2> QED
    BY <2>2, <2>3
<1> QED
  BY <1>5, <1>7, <1>12, <1>13 DEF KeyInv

\* One server adds what its leaf is worth.
LEMMA FinishInv == \A p \in Party : KeyInv /\ Finish(p) => KeyInv'
<1> SUFFICES ASSUME NEW p \in Party, KeyInv, Finish(p) PROVE KeyInv'
  OBVIOUS
<1> DEFINE r == (share[p][Depth] + AddedLast(p)) % Modulus
<1>1. TypeOK /\ Generated /\ Plain /\ Followed /\ SharesBalanced
  BY DEF KeyInv
<1>2. /\ depth[p] = Depth /\ result' = [result EXCEPT ![p] = r]
      /\ UNCHANGED <<keys, x, depth, path, share>>
  BY DEF Finish, AddedLast
<1>3. /\ UNCHANGED <<kind, alpha, payload, level, trail, vAlpha, cw, word, ready, x, depth, path, share>>
      /\ Generated' /\ Plain' /\ \A j : On(j)' <=> On(j)
  BY <1>1, <1>2, KeyStays DEF keys
<1>4. Depth \in Nat /\ Depth # 0 /\ Depth \in 0 .. Depth /\ Depth + 1 \in 1 .. Depth + 1
  BY DepthAssumption
<1>5. r \in Int
  <2>1. path[p][Depth] \in Node /\ word[Depth + 1] \in Int /\ share[p][Depth] \in Int
    BY <1>1, <1>4 DEF TypeOK
  <2>2. Convert[path[p][Depth].seed] \in Int /\ path[p][Depth].t \in {0, 1}
    BY <2>1, GeneratorAssumption DEF Node, Bit
  <2>3. share[p][Depth] + AddedLast(p) \in Int
    BY <2>1, <2>2 DEF AddedLast, RoleSign
  <2> QED
    BY <2>3, MultMod
<1>6. TypeOK'
  <2>1. result' \in [Party -> Int \cup {NoResult}]
    BY <1>1, <1>2, <1>5 DEF TypeOK
  <2> QED
    BY <1>1, <1>3, <2>1 DEF TypeOK, Point
<1>7. ready
  <2>1. depth[p] > 0
    BY <1>2, <1>4
  <2> QED
    BY <1>1, <2>1 DEF Followed
<1>8. Followed'
  <2> SUFFICES ASSUME NEW q \in Party
               PROVE  /\ depth[q] > 0 => ready
                      /\ path[q][0] = trail[0][q] /\ share[q][0] = 0
                      /\ \A j \in 1 .. depth[q] :
                           /\ path[q][j] = Child(path[q][j - 1], cw[j], x[j])
                           /\ share[q][j] = (share[q][j - 1] + Added(q, j)) % Modulus
                      /\ \A j \in 0 .. depth[q] : On(j) => path[q][j] = trail[j][q]
                      /\ result'[q] # NoResult =>
                           /\ ready
                           /\ depth[q] = Depth
                           /\ result'[q] = (share[q][Depth] + AddedLast(q)) % Modulus
    BY <1>3 DEF Followed, Added, AddedLast, Value
  <2>1. result'[q] # NoResult =>
          /\ ready
          /\ depth[q] = Depth
          /\ result'[q] = (share[q][Depth] + AddedLast(q)) % Modulus
    <3>1. CASE q = p
      BY <1>1, <1>2, <1>7, <3>1 DEF TypeOK
    <3>2. CASE q # p
      <4>1. result'[q] = result[q]
        BY <1>1, <1>2, <3>2 DEF TypeOK
      <4> QED
        BY <1>1, <4>1 DEF Followed
    <3> QED
      BY <3>1, <3>2
  <2> QED
    BY <1>1, <2>1 DEF Followed
<1>9. SharesBalanced'
  BY <1>1, <1>3 DEF SharesBalanced, Balanced, Target, Less
<1> QED
  BY <1>3, <1>6, <1>8, <1>9 DEF KeyInv

\* Nothing changes.
LEMMA StutterInv == KeyInv /\ UNCHANGED vars => KeyInv'
<1> SUFFICES ASSUME KeyInv, UNCHANGED vars PROVE KeyInv'
  OBVIOUS
<1>1. TypeOK /\ Generated /\ Plain /\ Followed /\ SharesBalanced
  BY DEF KeyInv
<1>2. UNCHANGED <<keys, x>> /\ UNCHANGED <<depth, path, share, result>>
  BY DEF vars, evaluation
<1>3. /\ UNCHANGED <<kind, alpha, payload, level, trail, vAlpha, cw, word, ready, x, depth, path, share, result>>
      /\ Generated' /\ Plain' /\ \A j : On(j)' <=> On(j)
  BY <1>1, <1>2, KeyStays DEF keys
<1>4. TypeOK'
  BY <1>1, <1>3 DEF TypeOK, Point
<1>5. Followed'
  BY <1>1, <1>3 DEF Followed, Added, AddedLast, Value
<1>6. SharesBalanced'
  BY <1>1, <1>3 DEF SharesBalanced, Balanced, Target, Less
<1> QED
  BY <1>3, <1>4, <1>5, <1>6 DEF KeyInv

LEMMA NextInv == KeyInv /\ [Next]_vars => KeyInv'
<1> SUFFICES ASSUME KeyInv, [Next]_vars PROVE KeyInv'
  OBVIOUS
<1>1. CASE GenLevel
  BY <1>1, GenLevelInv
<1>2. CASE GenLast
  BY <1>2, GenLastInv
<1>3. ASSUME NEW p \in Party, Descend(p) PROVE KeyInv'
  BY <1>3, DescendInv
<1>4. ASSUME NEW p \in Party, Finish(p) PROVE KeyInv'
  BY <1>4, FinishInv
<1>5. CASE Done \/ UNCHANGED vars
  BY <1>5, StutterInv DEF Done
<1> QED
  BY <1>1, <1>2, <1>3, <1>4, <1>5 DEF Next

\* The inductive invariant holds of every pair of keys and every evaluation.
THEOREM KeyInvCorrect == Spec => []KeyInv
BY InitInv, NextInv, PTL DEF Spec

\* Seeds, bits, words and shares stay what they are meant to be.
THEOREM TypeCorrect == Spec => []TypeOK
<1>1. KeyInv => TypeOK
  BY DEF KeyInv
<1> QED
  BY <1>1, KeyInvCorrect, PTL

\* Once both servers are at the leaves, their results meet in the group.
LEMMA ResultsMeet == KeyInv => SharesExact
<1> SUFFICES ASSUME KeyInv, Evaluated
             PROVE  (result[0] + result[1]) % Modulus = Target % Modulus
  BY DEF SharesExact
<1>1. TypeOK /\ Generated /\ Followed /\ SharesBalanced /\ Depth \in Nat /\ Depth \in 0 .. Depth
  BY DepthAssumption DEF KeyInv
<1>2. ready /\ \A p \in Party : /\ depth[p] = Depth
                                /\ result[p] = (share[p][Depth] + AddedLast(p)) % Modulus
  BY <1>1 DEF Evaluated, Followed, Party
<1>3. Balanced(Depth) /\ level = Depth /\ word[Depth + 1] = LastWord(trail[Depth], vAlpha[Depth])
  BY <1>1, <1>2 DEF SharesBalanced, Generated, Party
<1> DEFINE m == path[0][Depth]
           n == path[1][Depth]
           a == share[0][Depth]
           b == share[1][Depth]
           v == vAlpha[Depth]
           s == trail[Depth]
           w == word[Depth + 1]
           c0 == Convert[m.seed]
           c1 == Convert[n.seed]
           goal == Target
<1>4. /\ m \in Node /\ n \in Node /\ a \in Int /\ b \in Int /\ v \in Int
      /\ s \in [Party -> Node] /\ payload \in Int
  BY <1>1, GroupAssumption DEF TypeOK, Party
<1>5. w \in Int
  BY <1>1 DEF TypeOK
<1>6. c0 \in Int /\ c1 \in Int /\ goal \in Int
  BY <1>4, GeneratorAssumption DEF Node, Target
<1>7. /\ result[0] = Step(0, a, c0, m.t, w) % Modulus
      /\ result[1] = Step(1, b, c1, n.t, w) % Modulus
  BY <1>2 DEF AddedLast, Step, Party
<1>8. Cong(result[0] + result[1], goal)
  <2>1. CASE On(Depth)
    <3>1. m = s[0] /\ n = s[1] /\ s[0].t # s[1].t /\ Cong(a + b, v)
      BY <1>1, <1>2, <1>3, <2>1 DEF Followed, Generated, Balanced, Party
    <3>2. goal = IF kind = "dpf" THEN payload ELSE 0
      BY <1>1, <2>1, LeafTarget
    <3> DEFINE d == goal + c1 - c0 - v
    <3>3. d \in Int
      BY <1>4, <1>6
    <3>4. w = (Sign(s) * d) % Modulus
      BY <1>3, <3>1, <3>2 DEF LastWord
    <3>5. Cong(Sign(s) * w, d)
      BY <3>3, <3>4, SignedRemainder
    <3>6. Sign(s) * w = IF n.t = 1 THEN -w ELSE w
      BY <1>5, <3>1 DEF Sign
    <3>7. d = (c1 - c0) - v + goal
      BY <1>4, <1>6
    <3>8. m.t # n.t
      BY <3>1
    <3> HIDE DEF m, n, a, b, v, s, w, c0, c1, goal, d
    <3>9. Cong(IF n.t = 1 THEN -w ELSE w, (c1 - c0) - v + goal)
      BY <3>5, <3>6, <3>7
    <3>10. Cong((Step(0, a, c0, m.t, w) % Modulus) + (Step(1, b, c1, n.t, w) % Modulus), goal)
      BY <1>4, <1>5, <1>6, <3>1, <3>8, <3>9, LevelLost
    <3> QED
      BY <1>7, <3>10
  <2>2. CASE ~On(Depth)
    <3>1. m = n /\ Cong(a + b, goal)
      BY <1>3, <2>2 DEF Balanced
    <3>2. c0 = c1
      BY <3>1
    <3> HIDE DEF m, n, a, b, v, s, w, c0, c1, goal
    <3>3. Cong((Step(0, a, c1, n.t, w) % Modulus) + (Step(1, b, c1, n.t, w) % Modulus), goal)
      BY <1>4, <1>5, <1>6, <3>1, LevelSame
    <3> QED
      BY <1>7, <3>1, <3>2, <3>3
  <2> QED
    BY <2>1, <2>2
<1>9. result[0] \in Int /\ result[1] \in Int
  BY <1>1 DEF TypeOK, Evaluated, Party
<1> HIDE DEF goal
<1>10. result[0] + result[1] \in Int
  BY <1>9
<1> QED
  BY <1>6, <1>8, <1>10, CongSame DEF goal

\* The servers' results add up to the function's value at x, for every depth,
\* generator, modulus, kind, payload, alpha, x and pair of roots.
THEOREM SharesCorrect == Spec => []SharesExact
BY ResultsMeet, KeyInvCorrect, PTL

\* The control bits are opposite on the way to alpha, and the nodes the same
\* off it.
THEOREM OppositeOrSameCorrect == Spec => []OppositeOrSame
<1>1. KeyInv => OppositeOrSame
  <2> SUFFICES ASSUME KeyInv, NEW j \in 0 .. Depth, j <= depth[0], j <= depth[1]
               PROVE  IF On(j) THEN path[0][j].t # path[1][j].t ELSE path[0][j] = path[1][j]
    BY DEF OppositeOrSame
  <2>1. TypeOK /\ Generated /\ Followed /\ SharesBalanced /\ Depth \in Nat
    BY DepthAssumption DEF KeyInv
  <2>2. Balanced(j)
    BY <2>1 DEF SharesBalanced
  <2>3. CASE ~On(j)
    BY <2>2, <2>3 DEF Balanced
  <2>4. CASE On(j)
    <3>1. j \in 0 .. depth[0] /\ j \in 0 .. depth[1]
      BY <2>1 DEF TypeOK, Party
    <3>2. path[0][j] = trail[j][0] /\ path[1][j] = trail[j][1]
      BY <2>1, <2>4, <3>1 DEF Followed, Party
    <3>3. j \in 0 .. level
      <4>1. level \in 0 .. Depth /\ depth[0] \in 0 .. Depth
        BY <2>1 DEF TypeOK, Party
      <4>2. CASE depth[0] > 0
        BY <2>1, <4>1, <4>2 DEF Followed, Generated, Party
      <4>3. CASE ~(depth[0] > 0)
        BY <4>1, <4>3, <3>1
      <4> QED
        BY <4>2, <4>3
    <3> QED
      BY <2>1, <2>4, <3>2, <3>3 DEF Generated
  <2> QED
    BY <2>3, <2>4
<1> QED
  BY <1>1, KeyInvCorrect, PTL

-----------------------------------------------------------------------------
(* Numbers and their bits.                                                 *)

\* Shifts of 1.
LEMMA Shifts ==
  /\ \A k \in 0 .. Depth : TwoTo[k] \in Nat /\ TwoTo[k] # 0
  /\ TwoTo[0] = 1
  /\ \A k \in 1 .. Depth : TwoTo[k] = 2 * TwoTo[k - 1]
<1> DEFINE D == Nat \ {0}
           G == [i \in 1 .. Depth |-> [m \in D |-> 2 * m]]
           Doubled(g) == [k \in 0 .. Depth |-> IF k = 0 THEN 1 ELSE 2 * g[k - 1]]
<1>0. Depth \in Nat
  BY DepthAssumption
<1>1. G \in [1 .. Depth -> [D -> D]] /\ 1 \in D
  OBVIOUS
<1>2. \A i \in 1 .. Depth, m \in D : G[i][m] = 2 * m
  OBVIOUS
<1> HIDE DEF G, D
<1>3. PICK h \in [0 .. Depth -> D] : IsIteration(h, Depth, 1, G)
  BY <1>0, <1>1, Iteration
<1>4. h[0] = 1 /\ \A k \in 1 .. Depth : h[k] = 2 * h[k - 1]
  <2>1. \A k \in 1 .. Depth : h[k - 1] \in D
    BY <1>0
  <2> QED
    BY <1>2, <1>3, <2>1 DEF IsIteration
<1>5. h = Doubled(h)
  <2>1. \A k \in 0 .. Depth : h[k] = IF k = 0 THEN 1 ELSE 2 * h[k - 1]
    BY <1>0, <1>4
  <2> QED
    BY <2>1
<1>6. TwoTo = Doubled(TwoTo)
  <2> HIDE DEF Doubled
  <2>1. (CHOOSE g : g = Doubled(g)) = Doubled(CHOOSE g : g = Doubled(g))
    BY <1>5
  <2> QED
    BY <2>1 DEF TwoTo, Doubled
<1>7. \A k \in 0 .. Depth : TwoTo[k] = IF k = 0 THEN 1 ELSE 2 * TwoTo[k - 1]
  BY <1>6
<1> DEFINE S == {k \in 0 .. Depth : TwoTo[k] = h[k]}
<1>8. 0 .. Depth \subseteq S
  <2>1. 0 \in S
    BY <1>0, <1>4, <1>7
  <2>2. \A k \in 0 .. Depth - 1 : k \in S => k + 1 \in S
    <3> SUFFICES ASSUME NEW k \in 0 .. Depth - 1, TwoTo[k] = h[k] PROVE k + 1 \in S
      OBVIOUS
    <3> DEFINE m == k + 1
    <3>1. m \in 0 .. Depth /\ m \in 1 .. Depth /\ m # 0 /\ m - 1 = k
      BY <1>0
    <3> HIDE DEF m
    <3>2. TwoTo[m] = 2 * TwoTo[m - 1] /\ h[m] = 2 * h[m - 1]
      BY <1>4, <1>7, <3>1
    <3>3. TwoTo[m] = h[m]
      BY <3>1, <3>2
    <3> QED
      BY <3>1, <3>3 DEF m
  <2> HIDE DEF S
  <2> QED
    BY <1>0, <2>1, <2>2, BoundedInduction
<1>9. \A k \in 0 .. Depth : TwoTo[k] \in D
  BY <1>8
<1> QED
  BY <1>7, <1>9, <1>0 DEF D

\* A shift divides a greater one.
LEMMA ShiftDivides ==
  ASSUME NEW e \in 0 .. Depth, NEW f \in 0 .. Depth, e <= f
  PROVE  \E c \in Nat \ {0} : TwoTo[f] = TwoTo[e] * c
<1> DEFINE N == f - e
           S == {m \in 0 .. N : \E c \in Nat \ {0} : TwoTo[e + m] = TwoTo[e] * c}
<1>0. Depth \in Nat /\ N \in Nat /\ e \in Nat /\ f \in Nat
  BY DepthAssumption
<1>1. 0 \in S
  <2>1. TwoTo[e + 0] = TwoTo[e] * 1
    BY Shifts
  <2> QED
    BY <1>0, <2>1
<1>2. \A m \in 0 .. N - 1 : m \in S => m + 1 \in S
  <2> SUFFICES ASSUME NEW m \in 0 .. N - 1, m \in S PROVE m + 1 \in S
    OBVIOUS
  <2>1. PICK c \in Nat \ {0} : TwoTo[e + m] = TwoTo[e] * c
    OBVIOUS
  <2> DEFINE k == e + (m + 1)
  <2>2. k \in 1 .. Depth /\ k - 1 = e + m /\ m + 1 \in 0 .. N
    BY <1>0
  <2> HIDE DEF k, N
  <2>3. TwoTo[k] = 2 * TwoTo[k - 1]
    BY <2>2, Shifts
  <2>4. TwoTo[e] \in Nat
    BY Shifts
  <2>5. TwoTo[k] = TwoTo[e] * (2 * c) /\ 2 * c \in Nat \ {0}
    BY <2>1, <2>2, <2>3, <2>4
  <2>6. TwoTo[e + (m + 1)] = TwoTo[e] * (2 * c)
    BY <2>5 DEF k
  <2> QED
    BY <2>2, <2>5, <2>6
<1>3. 0 .. N \subseteq S
  <2> HIDE DEF S, N
  <2> QED
    BY <1>0, <1>1, <1>2, BoundedInduction
<1>4. N \in S /\ e + N = f
  BY <1>0, <1>3
<1> QED
  BY <1>4

\* The quotient of a division.
LEMMA QuotientIs ==
  ASSUME NEW W \in Nat \ {0}, NEW a \in Int, NEW q \in Int, NEW r \in 0 .. W - 1, a = W * q + r
  PROVE  a \div W = q /\ a % W = r
<1> DEFINE p == a \div W
           s == a % W
<1>1. /\ p \in Int /\ s \in Int /\ 0 <= s /\ s < W /\ a = W * p + s
  BY DivMod
<1> HIDE DEF p, s
<1> DEFINE d == p - q
<1>2. d \in Int /\ W * d = r - s
  BY <1>1
<1> HIDE DEF d
<1>3. CASE d >= 1
  <2>1. W * d >= W
    BY <1>2, <1>3
  <2> QED
    BY <1>1, <1>2, <2>1
<1>4. CASE d <= -1
  <2>1. W * d <= -W
    BY <1>2, <1>4
  <2> QED
    BY <1>1, <1>2, <2>1
<1>5. CASE d = 0
  BY <1>1, <1>2, <1>5 DEF d, p, s
<1> QED
  BY <1>2, <1>3, <1>4, <1>5

\* What lies below a multiple of a divisor does not change a quotient.
LEMMA QuotientKept ==
  ASSUME NEW u \in Nat \ {0}, NEW c \in Nat \ {0}, NEW m \in Nat, NEW o \in 0 .. u - 1
  PROVE  (u * m + o) \div (u * c) = m \div c
<1> DEFINE q == m \div c
           r == m % c
<1>1. q \in Int /\ r \in Int /\ 0 <= r /\ r < c /\ m = c * q + r
  BY DivMod
<1> HIDE DEF q, r
<1> DEFINE w == u * c
           t == u * r + o
<1>2. w \in Nat \ {0}
  BY DEF w
<1>3. u * m = w * q + u * r
  BY <1>1
<1>4. t \in Int /\ 0 <= t
  BY <1>1
<1>5. t < w
  <2>1. r + 1 <= c
    BY <1>1
  <2>2. u * (r + 1) <= u * c
    BY <1>1, <2>1
  <2>3. u * (r + 1) = u * r + u
    BY <1>1
  <2> QED
    BY <2>2, <2>3, <1>1
<1>6. u * m + o = w * q + t /\ u * m + o \in Int
  BY <1>1, <1>3, <1>4
<1> HIDE DEF w, t
<1>7. t \in 0 .. w - 1
  BY <1>2, <1>4, <1>5
<1>8. (u * m + o) \div w = q
  BY <1>1, <1>2, <1>6, <1>7, QuotientIs
<1> QED
  BY <1>8 DEF w, q

\* The first l bits of a number, as a number.
Top(i, l) == i \div TwoTo[Depth - l]

\* Bits, one after the other, make up a number.
LEMMA TopFacts ==
  ASSUME NEW i \in Nat
  PROVE  /\ \A j \in 1 .. Depth : BitAt(i, j) \in Bit
         /\ \A l \in 0 .. Depth : Top(i, l) \in Int
         /\ \A l \in 1 .. Depth : Top(i, l) = 2 * Top(i, l - 1) + BitAt(i, l)
         /\ Top(i, Depth) = i
         /\ i \in Domain => Top(i, 0) = 0
<1>0. Depth \in Nat
  BY DepthAssumption
<1>1. ASSUME NEW l \in 0 .. Depth
      PROVE  /\ Depth - l \in 0 .. Depth /\ TwoTo[Depth - l] \in Nat \ {0}
             /\ Top(i, l) \in Int /\ Top(i, l) >= 0
  <2>1. Depth - l \in 0 .. Depth
    BY <1>0
  <2>2. TwoTo[Depth - l] \in Nat \ {0}
    BY <2>1, Shifts
  <2> DEFINE e == TwoTo[Depth - l]
  <2>6. e \in Nat \ {0} /\ i \in Int
    BY <2>2
  <2> DEFINE q == i \div e
             r == i % e
  <2> HIDE DEF e
  <2>3. q \in Int /\ r \in Int /\ 0 <= r /\ r < e /\ i = e * q + r
    BY <2>6, DivMod
  <2>4. e \in Nat \ {0} /\ q = Top(i, l)
    BY <2>2 DEF Top, e
  <2> HIDE DEF q, r
  <2>5. q >= 0
    <3>1. ASSUME q <= -1 PROVE FALSE
      <4>1. e * q <= -e
        BY <2>3, <2>4, <3>1
      <4> QED
        BY <2>3, <2>4, <4>1
    <3> QED
      BY <2>3, <3>1
  <2> QED
    BY <2>1, <2>2, <2>3, <2>4, <2>5
<1>2. ASSUME NEW j \in 1 .. Depth
      PROVE  BitAt(i, j) \in Bit
  <2>1. j \in 0 .. Depth
    OBVIOUS
  <2>2. Top(i, j) \in Int
    BY <1>1, <2>1
  <2>3. BitAt(i, j) = Top(i, j) % 2
    BY DEF BitAt, Top
  <2> QED
    BY <2>2, <2>3 DEF Bit
<1>3. ASSUME NEW l \in 1 .. Depth
      PROVE  Top(i, l) = 2 * Top(i, l - 1) + BitAt(i, l)
  <2> DEFINE e == TwoTo[Depth - l]
             t == i \div e
             o == i % e
             k == Depth - l + 1
  <2>1. l \in 0 .. Depth /\ k \in 1 .. Depth /\ k - 1 = Depth - l /\ Depth - (l - 1) = k
    BY <1>0
  <2>2. e \in Nat \ {0} /\ t = Top(i, l)
    BY <1>1, <2>1 DEF Top
  <2>3. TwoTo[k] = e * 2
    <3>1. TwoTo[k] = 2 * TwoTo[k - 1]
      BY <2>1, Shifts
    <3> HIDE DEF k
    <3> QED
      BY <2>1, <2>2, <3>1
  <2> HIDE DEF k, e
  <2>4. t \in Int /\ o \in Int /\ 0 <= o /\ o < e /\ i = e * t + o
    BY <2>2, DivMod
  <2>5. t \in Nat
    BY <1>1, <2>1, <2>2, <2>4
  <2>6. o \in 0 .. e - 1
    BY <2>2, <2>4
  <2>7. 2 \in Nat \ {0}
    OBVIOUS
  <2> HIDE DEF t, o
  <2>8. (e * t + o) \div (e * 2) = t \div 2
    BY <2>2, <2>5, <2>6, <2>7, QuotientKept
  <2>9. Top(i, l - 1) = t \div 2
    <3>1. Top(i, l - 1) = i \div TwoTo[k]
      BY <2>1, Zenon DEF Top
    <3> QED
      BY <2>3, <2>4, <2>8, <3>1
  <2>10. BitAt(i, l) = t % 2
    BY <2>2 DEF BitAt, Top
  <2>11. t = 2 * (t \div 2) + (t % 2)
    BY <2>5
  <2> QED
    BY <2>2, <2>9, <2>10, <2>11
<1>4. Top(i, Depth) = i
  <2>1. TwoTo[Depth - Depth] = 1
    BY <1>0, Shifts
  <2> QED
    BY <2>1 DEF Top
<1>5. ASSUME i \in Domain
      PROVE  Top(i, 0) = 0
  <2> DEFINE w == TwoTo[Depth]
  <2>1. w \in Nat \ {0} /\ Depth - 0 = Depth
    BY <1>0, Shifts, Depth \in 0 .. Depth
  <2>2. i \in 0 .. w - 1
    BY <1>5 DEF Domain
  <2> HIDE DEF w
  <2>3. i = w * 0 + i
    BY <2>1
  <2>4. i \div w = 0
    BY <2>1, <2>2, <2>3, QuotientIs, 0 \in Int
  <2> QED
    BY <2>1, <2>4 DEF Top, w
<1> QED
  BY <1>1, <1>2, <1>3, <1>4, <1>5

\* Numbers with the same first bits.
LEMMA SameTop ==
  ASSUME NEW i \in Domain, NEW j \in Domain, NEW n \in 0 .. Depth,
         \A h \in 1 .. n : BitAt(i, h) = BitAt(j, h)
  PROVE  Top(i, n) = Top(j, n)
<1> DEFINE S == {m \in 0 .. n : Top(i, m) = Top(j, m)}
<1>0. Depth \in Nat /\ i \in Nat /\ j \in Nat /\ n \in Nat
  <2>1. TwoTo[Depth] \in Nat
    BY DepthAssumption, Shifts
  <2> QED
    BY <2>1, DepthAssumption DEF Domain
<1>1. 0 \in S
  BY <1>0, TopFacts
<1>2. \A m \in 0 .. n - 1 : m \in S => m + 1 \in S
  <2> SUFFICES ASSUME NEW m \in 0 .. n - 1, Top(i, m) = Top(j, m) PROVE m + 1 \in S
    OBVIOUS
  <2> DEFINE h == m + 1
  <2>1. h \in 1 .. n /\ h \in 1 .. Depth /\ h - 1 = m /\ h \in 0 .. n
    BY <1>0
  <2> HIDE DEF h
  <2>2. Top(i, h) = 2 * Top(i, h - 1) + BitAt(i, h)
    BY <1>0, <2>1, TopFacts
  <2>3. Top(j, h) = 2 * Top(j, h - 1) + BitAt(j, h)
    BY <1>0, <2>1, TopFacts
  <2>4. BitAt(i, h) = BitAt(j, h)
    BY <2>1
  <2>5. Top(i, h) = Top(j, h)
    BY <2>1, <2>2, <2>3, <2>4
  <2> QED
    BY <2>1, <2>5 DEF h
<1>3. 0 .. n \subseteq S
  <2> HIDE DEF S
  <2> QED
    BY <1>0, <1>1, <1>2, BoundedInduction
<1> QED
  BY <1>0, <1>3

\* The order of points, in terms of bits.
LEMMA LessMeans ==
  ASSUME NEW i, NEW j
  PROVE  Less(Bits(i), Bits(j)) <=>
           \E p \in 1 .. Depth : /\ BitAt(i, p) < BitAt(j, p)
                               /\ \A h \in 1 .. p - 1 : BitAt(i, h) = BitAt(j, h)
<1>1. \A h \in 1 .. Depth : Bits(i)[h] = BitAt(i, h) /\ Bits(j)[h] = BitAt(j, h)
  BY DEF Bits
<1>2. \A p \in 1 .. Depth : \A h \in 1 .. p - 1 : h \in 1 .. Depth
  BY DepthAssumption
<1> DEFINE a == Bits(i)  b == Bits(j)
<1> HIDE DEF a, b
<1>3. \A h \in 1 .. Depth : a[h] = BitAt(i, h) /\ b[h] = BitAt(j, h)
  BY <1>1 DEF a, b
<1>4. Less(a, b) <=>
        \E p \in 1 .. Depth : /\ BitAt(i, p) < BitAt(j, p)
                            /\ \A h \in 1 .. p - 1 : BitAt(i, h) = BitAt(j, h)
  BY <1>2, <1>3 DEF Less
<1> QED
  BY <1>4 DEF a, b

\* The first bit that differs decides.
LEMMA LessBits ==
  ASSUME NEW i \in Domain, NEW j \in Domain, Less(Bits(i), Bits(j))
  PROVE  i < j
<1>0. Depth \in Nat /\ i \in Nat /\ j \in Nat
  <2>1. TwoTo[Depth] \in Nat
    BY DepthAssumption, Shifts
  <2> QED
    BY <2>1, DepthAssumption DEF Domain
<1>1. PICK p \in 1 .. Depth : /\ BitAt(i, p) < BitAt(j, p)
                              /\ \A h \in 1 .. p - 1 : BitAt(i, h) = BitAt(j, h)
  BY LessMeans
<1> DEFINE S == {m \in 0 .. Depth - p : Top(i, p + m) < Top(j, p + m)}
<1>2. 0 \in S
  <2>1. p - 1 \in 0 .. Depth /\ p \in 0 .. Depth /\ p + 0 = p /\ 0 \in 0 .. Depth - p
    BY <1>0
  <2>2. Top(i, p - 1) = Top(j, p - 1)
    BY <1>1, <2>1, SameTop
  <2>3. /\ Top(i, p) = 2 * Top(i, p - 1) + BitAt(i, p)
        /\ Top(i, p - 1) \in Int /\ BitAt(i, p) \in Bit
    BY <1>0, <2>1, TopFacts
  <2>4. /\ Top(j, p) = 2 * Top(j, p - 1) + BitAt(j, p)
        /\ Top(j, p - 1) \in Int /\ BitAt(j, p) \in Bit
    BY <1>0, <2>1, TopFacts
  <2>5. Top(i, p) < Top(j, p)
    BY <1>1, <2>2, <2>3, <2>4 DEF Bit
  <2> QED
    BY <2>1, <2>5
<1>3. \A m \in 0 .. (Depth - p) - 1 : m \in S => m + 1 \in S
  <2> SUFFICES ASSUME NEW m \in 0 .. (Depth - p) - 1, m \in S PROVE m + 1 \in S
    OBVIOUS
  <2> DEFINE h == p + (m + 1)
  <2>1. h \in 1 .. Depth /\ h - 1 = p + m /\ h - 1 \in 0 .. Depth /\ m + 1 \in 0 .. Depth - p
    BY <1>0
  <2>2. Top(i, h - 1) < Top(j, h - 1)
    BY <2>1
  <2> HIDE DEF h, S
  <2>3. /\ Top(i, h) = 2 * Top(i, h - 1) + BitAt(i, h)
        /\ Top(i, h - 1) \in Int /\ BitAt(i, h) \in Bit
    BY <1>0, <2>1, TopFacts
  <2>4. /\ Top(j, h) = 2 * Top(j, h - 1) + BitAt(j, h)
        /\ Top(j, h - 1) \in Int /\ BitAt(j, h) \in Bit
    BY <1>0, <2>1, TopFacts
  <2>5. Top(i, h) < Top(j, h)
    BY <2>2, <2>3, <2>4 DEF Bit
  <2> QED
    BY <2>1, <2>5 DEF h, S
<1>4. 0 .. Depth - p \subseteq S
  <2>1. Depth - p \in Nat
    BY <1>0
  <2> HIDE DEF S
  <2> QED
    BY <1>2, <1>3, <2>1, BoundedInduction
<1>5. Top(i, Depth) < Top(j, Depth)
  <2>1. Depth - p \in S /\ p + (Depth - p) = Depth
    BY <1>0, <1>4
  <2> QED
    BY <2>1
<1> QED
  BY <1>0, <1>5, TopFacts

\* The order of points is that of their numbers.
LEMMA BitsOrder ==
  ASSUME NEW i \in Domain, NEW j \in Domain
  PROVE  /\ Less(Bits(i), Bits(j)) <=> i < j
         /\ Bits(i) = Bits(j) <=> i = j
<1>0. Depth \in Nat /\ i \in Nat /\ j \in Nat /\ Depth \in 0 .. Depth
  <2>1. TwoTo[Depth] \in Nat
    BY DepthAssumption, Shifts
  <2> QED
    BY <2>1, DepthAssumption DEF Domain
<1>1. ASSUME Bits(i) = Bits(j)
      PROVE  i = j
  <2>1. \A h \in 1 .. Depth : BitAt(i, h) = BitAt(j, h)
    BY <1>1 DEF Bits
  <2>2. Top(i, Depth) = Top(j, Depth)
    BY <1>0, <2>1, SameTop
  <2> QED
    BY <1>0, <2>2, TopFacts
<1>2. ASSUME i < j
      PROVE  Less(Bits(i), Bits(j))
  <2> DEFINE T == {h \in 1 .. Depth : BitAt(i, h) # BitAt(j, h)}
  <2>1. T \subseteq Nat /\ T # {}
    <3>1. ASSUME \A h \in 1 .. Depth : BitAt(i, h) = BitAt(j, h)
          PROVE  FALSE
      <4>1. Top(i, Depth) = Top(j, Depth)
        BY <1>0, <3>1, SameTop
      <4> QED
        BY <1>0, <1>2, <4>1, TopFacts
    <3> QED
      BY <3>1
  <2>2. PICK p \in T : \A h \in T : p <= h
    <3> HIDE DEF T
    <3> QED
      BY <2>1, LeastElement
  <2>3. p \in 1 .. Depth /\ BitAt(i, p) # BitAt(j, p)
        /\ \A h \in 1 .. p - 1 : BitAt(i, h) = BitAt(j, h)
    BY <1>0, <2>2
  <2> HIDE DEF T
  <2>4. BitAt(i, p) \in Bit /\ BitAt(j, p) \in Bit
    BY <1>0, <2>3, TopFacts
  <2>5. CASE BitAt(i, p) < BitAt(j, p)
    BY <2>3, <2>5, LessMeans
  <2>6. CASE BitAt(j, p) < BitAt(i, p)
    <3>1. Less(Bits(j), Bits(i))
      <4>1. \A h \in 1 .. p - 1 : BitAt(j, h) = BitAt(i, h)
        BY <2>3
      <4> QED
        BY <2>3, <2>6, <4>1, LessMeans
    <3>2. j < i
      BY <3>1, LessBits
    <3> QED
      BY <1>0, <1>2, <3>2
  <2> QED
    BY <2>3, <2>4, <2>5, <2>6 DEF Bit
<1> QED
  BY <1>1, <1>2, LessBits

-----------------------------------------------------------------------------
(* The calls that evaluate a window.                                       *)

\* What lies below a multiple of a shift does not change the bits above it.
LEMMA BitsSame ==
  ASSUME NEW e \in 0 .. Depth, NEW m \in Nat, NEW o \in 0 .. TwoTo[e] - 1,
         NEW j \in 1 .. Depth, e <= Depth - j
  PROVE  BitAt(TwoTo[e] * m + o, j) = BitAt(TwoTo[e] * m, j)
<1> DEFINE u == TwoTo[e]
<1>1. u \in Nat \ {0} /\ Depth - j \in 0 .. Depth
  BY Shifts, DepthAssumption
<1>2. PICK c \in Nat \ {0} : TwoTo[Depth - j] = u * c
  BY <1>1, ShiftDivides
<1> HIDE DEF u
<1>3. o \in 0 .. u - 1 /\ 0 \in 0 .. u - 1
  BY <1>1 DEF u
<1>4. (u * m + o) \div (u * c) = m \div c
  BY <1>1, <1>3, QuotientKept
<1>5. (u * m + 0) \div (u * c) = m \div c
  BY <1>1, <1>3, QuotientKept
<1>6. u * m + 0 = u * m
  BY <1>1
<1>7. (u * m + o) \div (u * c) = (u * m) \div (u * c)
  BY <1>4, <1>5, <1>6
<1> QED
  BY <1>2, <1>7 DEF BitAt, u

\* The first bits of a number.
Prefix(i, d) == [j \in 1 .. d |-> BitAt(i, j)]

LEMMA PrefixGrows ==
  ASSUME NEW i, NEW d \in Nat
  PROVE  /\ Prefix(i, d) \in Seq({BitAt(i, j) : j \in Nat})
         /\ Len(Prefix(i, d)) = d
         /\ Append(Prefix(i, d), BitAt(i, Len(Prefix(i, d)) + 1)) = Prefix(i, d + 1)
<1> DEFINE S == {BitAt(i, j) : j \in Nat}
           s == Prefix(i, d)
           v == BitAt(i, d + 1)
           t == Append(s, v)
<1>1. s \in [1 .. d -> S]
  BY DEF Prefix
<1>2. s \in Seq(S) /\ Len(s) = d
  BY <1>1, SeqDef, LenProperties
<1>3. v \in S
  OBVIOUS
<1>4. /\ t \in Seq(S) /\ Len(t) = d + 1
      /\ \A j \in 1 .. d : t[j] = s[j]
      /\ t[d + 1] = v
  <2> HIDE DEF S, s, v
  <2> QED
    BY <1>2, <1>3, AppendProperties
<1>5. \A j \in 1 .. d + 1 : t[j] = BitAt(i, j)
  <2>1. \A j \in 1 .. d : s[j] = BitAt(i, j)
    BY DEF Prefix
  <2>2. \A j \in 1 .. d + 1 : j \in 1 .. d \/ j = d + 1
    OBVIOUS
  <2> HIDE DEF s, t
  <2> QED
    BY <1>4, <2>1, <2>2
<1>6. t = [j \in 1 .. d + 1 |-> t[j]]
  <2> HIDE DEF t, S
  <2> QED
    BY <1>4, LenProperties, Zenon
<1>7. t = Prefix(i, d + 1)
  <2> HIDE DEF t
  <2> QED
    BY <1>5, <1>6, Zenon DEF Prefix
<1> QED
  BY <1>2, <1>7

\* The size of the pieces into which level d divides a window of 2 ^ k.
Unit(k, d) == IF d <= k THEN TwoTo[k - d] ELSE 1

\* The elements at which they begin.
Places(k, d) == {Unit(k, d) * c : c \in 0 .. TwoTo[IF d <= k THEN d ELSE k] - 1}

\* The call for the piece at a.
Frame(from, k, d, a) ==
  [at |-> a, start |-> from + a, range |-> IF d <= k THEN TwoTo[k - d] ELSE 0,
   bits |-> Prefix(from + a, d - 1)]

Frames(from, k, d) == {Frame(from, k, d, a) : a \in Places(k, d)}

\* A call that has followed the bit of its level.
LEMMA FollowFrame ==
  ASSUME NEW from \in Nat, NEW k \in 0 .. Depth, NEW d \in Nat \ {0}, NEW a \in Nat
  PROVE  Follow(Frame(from, k, d, a)) =
           [at |-> a, start |-> from + a, range |-> IF d <= k THEN TwoTo[k - d] ELSE 0,
            bits |-> Prefix(from + a, d)]
<1> DEFINE i == from + a
           c == d - 1
           r == IF d <= k THEN TwoTo[k - d] ELSE 0
<1>1. c \in Nat /\ c + 1 = d
  OBVIOUS
<1> DEFINE s == Prefix(i, c)
           t == Append(s, BitAt(i, Len(s) + 1))
<1>2. t = Prefix(i, d)
  <2> HIDE DEF c, i
  <2> QED
    BY <1>1, PrefixGrows
<1>3. Frame(from, k, d, a) = [at |-> a, start |-> i, range |-> r, bits |-> s]
  BY DEF Frame
<1>4. Follow(Frame(from, k, d, a)) = [at |-> a, start |-> i, range |-> r, bits |-> t]
  <2> DEFINE f == Frame(from, k, d, a)
  <2>1. f.bits = s /\ f.start = i
    BY <1>3
  <2>2. Follow(f) = [f EXCEPT !.bits = t]
    BY <2>1, Zenon DEF Follow
  <2> HIDE DEF t, s, i, r
  <2>3. [[at |-> a, start |-> i, range |-> r, bits |-> s] EXCEPT !.bits = t]
          = [at |-> a, start |-> i, range |-> r, bits |-> t]
    OBVIOUS
  <2> QED
    BY <1>3, <2>2, <2>3, Zenon
<1> QED
  BY <1>2, <1>4, Zenon

\* A window begins at a multiple of its size.
IsWindow(from, k) == from \in Nat /\ k \in 0 .. Depth /\ \E w \in Nat : from = TwoTo[k] * w

LEMMA PlaceFacts ==
  ASSUME NEW from, NEW k, IsWindow(from, k), NEW d \in 1 .. Depth, NEW a \in Places(k, d)
  PROVE  /\ a \in Nat
         /\ from + a \in Nat
         /\ d <= k => \E m \in Nat : from + a = TwoTo[k - d] * m
<1>0. Depth \in Nat /\ k \in Nat /\ d \in Nat /\ from \in Nat
  BY DepthAssumption DEF IsWindow
<1>1. PICK w \in Nat : from = TwoTo[k] * w
  BY DEF IsWindow
<1> DEFINE e == IF d <= k THEN d ELSE k
<1>2. PICK c \in 0 .. TwoTo[e] - 1 : a = Unit(k, d) * c
  BY DEF Places
<1>3. c \in Nat
  OBVIOUS
<1>4. Unit(k, d) \in Nat
  <2>1. CASE d <= k
    <3>1. k - d \in 0 .. Depth
      BY <1>0, <2>1 DEF IsWindow
    <3> QED
      BY <2>1, <3>1, Shifts DEF Unit
  <2>2. CASE ~(d <= k)
    BY <2>2 DEF Unit
  <2> QED
    BY <2>1, <2>2
<1>5. a \in Nat
  BY <1>2, <1>3, <1>4
<1>6. ASSUME d <= k PROVE \E m \in Nat : from + a = TwoTo[k - d] * m
  <2> DEFINE u == TwoTo[k - d]
             f == k - d
  <2>1. f \in 0 .. Depth /\ k \in 0 .. Depth /\ f <= k
    BY <1>0, <1>6 DEF IsWindow
  <2>2. PICK g \in Nat \ {0} : TwoTo[k] = TwoTo[f] * g
    <3> HIDE DEF f
    <3> QED
      BY <2>1, ShiftDivides
  <2>3. u \in Nat
    BY <2>1, Shifts
  <2>4. a = u * c
    BY <1>2, <1>6 DEF Unit
  <2>5. TwoTo[k] = u * g
    BY <2>2
  <2> HIDE DEF u, f
  <2>6. from + a = u * (g * w + c)
    BY <1>1, <1>3, <2>3, <2>4, <2>5
  <2>7. g * w + c \in Nat
    BY <1>3
  <2> QED
    BY <2>6, <2>7 DEF u
<1> QED
  BY <1>0, <1>5, <1>6

\* A call calls the ones for the two halves of its piece, down to single
\* elements, and then goes on alone.
LEMMA ChildrenOfFrame ==
  ASSUME NEW from, NEW k, IsWindow(from, k), NEW d \in 1 .. Depth - 1, NEW a \in Places(k, d)
  PROVE  Children(Follow(Frame(from, k, d, a))) =
           {Frame(from, k, d + 1, a)}
             \cup IF d < k THEN {Frame(from, k, d + 1, a + TwoTo[k - d - 1])} ELSE {}
<1>0. Depth \in Nat /\ k \in Nat /\ d \in Nat /\ from \in Nat /\ k <= Depth /\ d \in 1 .. Depth
  BY DepthAssumption DEF IsWindow
<1>1. a \in Nat /\ from + a \in Nat
  BY <1>0, PlaceFacts
<1> DEFINE i == from + a
           s == Prefix(i, d)
           r == IF d <= k THEN TwoTo[k - d] ELSE 0
           f == Follow(Frame(from, k, d, a))
           left(h) == [at |-> a, start |-> i, range |-> h, bits |-> s]
<1>2. f = [at |-> a, start |-> i, range |-> r, bits |-> s]
  BY <1>0, <1>1, FollowFrame
<1>3. f.range = r /\ f.at = a /\ f.start = i /\ f.bits = s
  <2> HIDE DEF f, r, i, s
  <2> QED
    BY <1>2
<1>4. ASSUME NEW h PROVE [f EXCEPT !.range = h] = left(h)
  <2> HIDE DEF f, r, i, s
  <2> QED
    BY <1>2
<1>5. CASE d < k
  <2> DEFINE m == k - d
             u == TwoTo[m - 1]
  <2>1. m \in 1 .. Depth /\ m - 1 \in 0 .. Depth /\ m \in 0 .. Depth /\ d <= k
        /\ k - (d + 1) = m - 1 /\ k - d - 1 = m - 1 /\ d + 1 <= k /\ (d + 1) - 1 = d
    BY <1>0, <1>5
  <2>2. TwoTo[m] = 2 * u /\ u \in Nat \ {0}
    <3> HIDE DEF m
    <3> QED
      BY <2>1, Shifts
  <2>3. r = 2 * u
    BY <2>1, <2>2
  <2> HIDE DEF u, r
  <2>4. r \div 2 = u /\ r > 1
    BY <2>2, <2>3
  <2>5. Children(f) = {left(u)} \cup {[left(u) EXCEPT !.at = a + u, !.start = i + u]}
    <3> DEFINE l == [f EXCEPT !.range = u]
    <3>1. Children(f) = {l} \cup {[l EXCEPT !.at = f.at + u, !.start = f.start + u]}
      BY <1>3, <2>4 DEF Children
    <3>2. l = left(u)
      BY <1>4
    <3> HIDE DEF l, left, f, i, s
    <3> QED
      BY <1>3, <3>1, <3>2
  <2>6. [left(u) EXCEPT !.at = a + u, !.start = i + u]
          = [at |-> a + u, start |-> i + u, range |-> u, bits |-> s]
    <3> SUFFICES ASSUME NEW b, NEW t, NEW v
                 PROVE  [[at |-> a, start |-> v, range |-> u, bits |-> s] EXCEPT !.at = b, !.start = t]
                          = [at |-> b, start |-> t, range |-> u, bits |-> s]
      OBVIOUS
    <3> HIDE DEF s
    <3> DEFINE g == [at |-> a, start |-> v, range |-> u, bits |-> s]
               h == [at |-> b, start |-> v, range |-> u, bits |-> s]
    <3>1. [g EXCEPT !.at = b, !.start = t] = [[g EXCEPT !.at = b] EXCEPT !.start = t]
      <4> HIDE DEF g
      <4> QED
        BY Zenon
    <3>2. [g EXCEPT !.at = b] = h
      OBVIOUS
    <3>3. [h EXCEPT !.start = t] = [at |-> b, start |-> t, range |-> u, bits |-> s]
      OBVIOUS
    <3> QED
      BY <3>1, <3>2, <3>3, Zenon
  <2>7. Frame(from, k, d + 1, a) = left(u)
    <3>1. TwoTo[k - (d + 1)] = u
      BY <2>1 DEF u
    <3> QED
      BY <2>1, <3>1 DEF Frame
  <2>8. Prefix(i + u, d) = s
    <3>1. PICK p \in Nat : i = TwoTo[m] * p
      BY <1>0, <2>1, PlaceFacts
    <3>2. u \in 0 .. TwoTo[m] - 1
      BY <2>2
    <3>3. ASSUME NEW j \in 1 .. d PROVE BitAt(i + u, j) = BitAt(i, j)
      <4>1. j \in 1 .. Depth /\ m <= Depth - j
        BY <1>0
      <4> HIDE DEF m
      <4>2. BitAt(TwoTo[m] * p + u, j) = BitAt(TwoTo[m] * p, j)
        BY <2>1, <3>2, <4>1, BitsSame
      <4> QED
        BY <3>1, <4>2
    <3> HIDE DEF i
    <3> QED
      BY <3>3 DEF Prefix
  <2>9. Frame(from, k, d + 1, a + u) = [at |-> a + u, start |-> i + u, range |-> u, bits |-> s]
    <3>1. TwoTo[k - (d + 1)] = u /\ from + (a + u) = i + u
      <4>1. u \in Int
        BY <2>2
      <4>2. from + (a + u) = i + u
        BY <1>0, <1>1, <4>1
      <4> QED
        BY <2>1, <4>2 DEF u
    <3>2. Prefix(from + (a + u), (d + 1) - 1) = s
      BY <2>1, <2>8, <3>1
    <3> HIDE DEF i, s
    <3> QED
      BY <2>1, <3>1, <3>2 DEF Frame
  <2>10. TwoTo[k - d - 1] = u
    BY <2>1 DEF u
  <2> HIDE DEF left, m, s, i
  <2> QED
    BY <1>5, <2>5, <2>6, <2>7, <2>9, <2>10
<1>6. CASE ~(d < k)
  <2>1. r \in {0, 1}
    <3>1. CASE d = k
      <4>1. k - d = 0 /\ d <= k
        BY <1>0, <3>1
      <4> QED
        BY <4>1, Shifts
    <3>2. CASE d # k
      <4>1. ~(d <= k)
        BY <1>0, <1>6, <3>2
      <4> QED
        BY <4>1
    <3> QED
      BY <3>1, <3>2
  <2> HIDE DEF r
  <2>2. r \div 2 = 0 /\ ~(r > 1)
    BY <2>1
  <2>3. Children(f) = {left(0)}
    <3> DEFINE l == [f EXCEPT !.range = 0]
    <3>1. Children(f) = {l}
      BY <1>3, <2>2 DEF Children
    <3>2. l = left(0)
      BY <1>4
    <3> QED
      BY <3>1, <3>2
  <2>4. Frame(from, k, d + 1, a) = left(0)
    <3>1. ~(d + 1 <= k) /\ (d + 1) - 1 = d
      BY <1>0, <1>6
    <3> QED
      BY <3>1 DEF Frame
  <2> HIDE DEF left
  <2> QED
    BY <1>6, <2>3, <2>4
<1> QED
  BY <1>5, <1>6

\* The next level begins pieces where this one does, and in the middles of
\* its pieces.
LEMMA PlacesGrow ==
  ASSUME NEW from, NEW k, IsWindow(from, k), NEW d \in 1 .. Depth - 1
  PROVE  Places(k, d + 1) =
           Places(k, d) \cup IF d < k THEN {a + TwoTo[k - d - 1] : a \in Places(k, d)} ELSE {}
<1>0. Depth \in Nat /\ k \in Nat /\ d \in Nat /\ k <= Depth /\ k \in 0 .. Depth
  BY DepthAssumption DEF IsWindow
<1>1. CASE d < k
  <2> DEFINE m == k - d
             u == TwoTo[m - 1]
             e == d + 1
             M == TwoTo[d]
  <2>1. m \in 1 .. Depth /\ m - 1 \in 0 .. Depth /\ m \in 0 .. Depth /\ d <= k
        /\ k - (d + 1) = m - 1 /\ k - d - 1 = m - 1 /\ d + 1 <= k
        /\ e \in 1 .. Depth /\ e - 1 = d /\ d \in 0 .. Depth
    BY <1>0, <1>1
  <2>2. TwoTo[m] = 2 * u /\ u \in Nat \ {0} /\ M \in Nat \ {0}
    <3> HIDE DEF m
    <3> QED
      BY <2>1, Shifts
  <2>3. TwoTo[e] = 2 * M
    <3> HIDE DEF e
    <3> QED
      BY <2>1, Shifts
  <2>4. Places(k, d) = {(2 * u) * c : c \in 0 .. M - 1}
    BY <2>1, <2>2 DEF Places, Unit
  <2>5. Places(k, d + 1) = {u * c : c \in 0 .. 2 * M - 1}
    BY <2>1, <2>3 DEF Places, Unit
  <2>6. TwoTo[k - d - 1] = u
    BY <2>1
  <2> HIDE DEF m, u, e, M
  <2>7. ASSUME NEW a \in Places(k, d) PROVE a \in Places(k, d + 1) /\ a + u \in Places(k, d + 1)
    <3>1. PICK c \in 0 .. M - 1 : a = (2 * u) * c
      BY <2>4
    <3>2. a = u * (2 * c) /\ a + u = u * (2 * c + 1)
      BY <2>2, <3>1
    <3>3. 2 * c \in 0 .. 2 * M - 1 /\ 2 * c + 1 \in 0 .. 2 * M - 1
      BY <2>2
    <3> QED
      BY <2>5, <3>2, <3>3
  <2>8. ASSUME NEW b \in Places(k, d + 1)
        PROVE  b \in Places(k, d) \/ \E a \in Places(k, d) : b = a + u
    <3>1. PICK c \in 0 .. 2 * M - 1 : b = u * c
      BY <2>5
    <3>2. PICK g \in 0 .. M - 1 : c = 2 * g \/ c = 2 * g + 1
      <4>1. c \div 2 \in 0 .. M - 1 /\ (c = 2 * (c \div 2) \/ c = 2 * (c \div 2) + 1)
        BY <2>2
      <4> QED
        BY <4>1
    <3>3. b = (2 * u) * g \/ b = (2 * u) * g + u
      <4>1. CASE c = 2 * g
        BY <2>2, <3>1, <4>1
      <4>2. CASE c = 2 * g + 1
        BY <2>2, <3>1, <4>2
      <4> QED
        BY <3>2, <4>1, <4>2
    <3>4. (2 * u) * g \in Places(k, d)
      BY <2>4
    <3> QED
      BY <3>3, <3>4
  <2> HIDE DEF Places
  <2> QED
    BY <1>1, <2>6, <2>7, <2>8
<1>2. CASE ~(d < k)
  <2>1. Unit(k, d) = 1 /\ Unit(k, d + 1) = 1
    <3>1. CASE d = k
      BY <1>0, <3>1, Shifts DEF Unit
    <3>2. CASE d # k
      BY <1>0, <1>2, <3>2 DEF Unit
    <3> QED
      BY <3>1, <3>2
  <2>2. (IF d <= k THEN d ELSE k) = k /\ (IF d + 1 <= k THEN d + 1 ELSE k) = k
    BY <1>0, <1>2
  <2> QED
    BY <1>2, <2>1, <2>2 DEF Places
<1> QED
  BY <1>1, <1>2

\* The two calls that begin the recursion.
LEMMA FirstFrames ==
  ASSUME NEW from, NEW k, IsWindow(from, k)
  PROVE  LET half == TwoTo[k] \div 2
             first(at) == [at |-> at, start |-> from + at, range |-> half, bits |-> <<>>]
         IN  {first(0), first(half)} = Frames(from, k, 1)
<1>0. Depth \in Nat \ {0} /\ k \in Nat /\ k <= Depth /\ k \in 0 .. Depth /\ from \in Nat
  BY DepthAssumption DEF IsWindow
<1> DEFINE half == TwoTo[k] \div 2
           first(at) == [at |-> at, start |-> from + at, range |-> half, bits |-> <<>>]
<1>1. ASSUME NEW a PROVE Prefix(from + a, 1 - 1) = <<>>
  <2>1. 1 .. 1 - 1 = {}
    OBVIOUS
  <2> QED
    BY <2>1 DEF Prefix
<1>2. half = IF 1 <= k THEN TwoTo[k - 1] ELSE 0
  <2>1. CASE 1 <= k
    <3>1. k \in 1 .. Depth /\ k - 1 \in 0 .. Depth
      BY <1>0, <2>1
    <3>2. TwoTo[k] = 2 * TwoTo[k - 1] /\ TwoTo[k - 1] \in Nat
      BY <3>1, Shifts
    <3> QED
      BY <2>1, <3>2
  <2>2. CASE ~(1 <= k)
    <3>1. k = 0
      BY <1>0, <2>2
    <3> QED
      BY <2>2, <3>1, Shifts
  <2> QED
    BY <2>1, <2>2
<1>3. ASSUME NEW a PROVE first(a) = Frame(from, k, 1, a)
  BY <1>1, <1>2 DEF Frame
<1>4. Places(k, 1) = {0, half}
  <2>1. CASE 1 <= k
    <3>1. 1 \in 1 .. Depth /\ 1 - 1 = 0 /\ k - 1 \in 0 .. Depth
      BY <1>0, <2>1
    <3>2. TwoTo[1] = 2
      BY <3>1, Shifts
    <3>3. Unit(k, 1) = half /\ half \in Nat
      BY <1>2, <2>1, <3>1, Shifts DEF Unit
    <3>4. Places(k, 1) = {half * c : c \in 0 .. 2 - 1}
      BY <2>1, <3>2, <3>3 DEF Places
    <3> HIDE DEF half
    <3>5. half * 0 = 0 /\ half * 1 = half /\ 0 .. 2 - 1 = {0, 1}
      BY <3>3
    <3> QED
      BY <3>4, <3>5
  <2>2. CASE ~(1 <= k)
    <3>1. k = 0 /\ TwoTo[k] = 1 /\ Unit(k, 1) = 1
      BY <1>0, <2>2, Shifts DEF Unit
    <3>2. Places(k, 1) = {1 * c : c \in 0 .. 0}
      BY <2>2, <3>1 DEF Places
    <3>3. half = 0
      BY <1>2, <2>2
    <3>4. 0 .. 0 = {0} /\ 1 * 0 = 0
      OBVIOUS
    <3> HIDE DEF half
    <3> QED
      BY <3>2, <3>3, <3>4
  <2> QED
    BY <2>1, <2>2
<1>5. {first(0), first(half)} = Frames(from, k, 1)
  <2>1. Frames(from, k, 1) = {Frame(from, k, 1, 0), Frame(from, k, 1, half)}
    <3> HIDE DEF half
    <3> QED
      BY <1>4 DEF Frames
  <2>2. first(0) = Frame(from, k, 1, 0) /\ first(half) = Frame(from, k, 1, half)
    BY <1>3
  <2> HIDE DEF first, half
  <2> QED
    BY <2>1, <2>2, Zenon
<1> QED
  BY <1>5

\* The calls of the next level.
LEMMA NextFrames ==
  ASSUME NEW from, NEW k, IsWindow(from, k), NEW d \in 1 .. Depth - 1
  PROVE  UNION {Children(Follow(f)) : f \in Frames(from, k, d)} = Frames(from, k, d + 1)
<1> DEFINE P == Places(k, d)
           A(a) == {Frame(from, k, d + 1, a)}
           B(a) == IF d < k THEN {Frame(from, k, d + 1, a + TwoTo[k - d - 1])} ELSE {}
           C(a) == Children(Follow(Frame(from, k, d, a)))
<1>1. \A a \in P : C(a) = A(a) \cup B(a)
  BY ChildrenOfFrame
<1>2. UNION {Children(Follow(f)) : f \in Frames(from, k, d)} = UNION {C(a) : a \in P}
  BY Zenon DEF Frames
<1>3. Places(k, d + 1) = P \cup IF d < k THEN {a + TwoTo[k - d - 1] : a \in P} ELSE {}
  BY PlacesGrow
<1>4. Frames(from, k, d + 1) = UNION {A(a) \cup B(a) : a \in P}
  <2> HIDE DEF P
  <2>1. CASE d < k
    BY <1>3, <2>1 DEF Frames
  <2>2. CASE ~(d < k)
    BY <1>3, <2>2 DEF Frames
  <2> QED
    BY <2>1, <2>2
<1>5. UNION {C(a) : a \in P} = UNION {A(a) \cup B(a) : a \in P}
  <2> HIDE DEF C, A, B, P
  <2> QED
    BY <1>1
<1> QED
  BY <1>2, <1>4, <1>5

\* The calls of every level.
LEMMA CallsAre ==
  ASSUME NEW from, NEW k, IsWindow(from, k), NEW d \in 1 .. Depth
  PROVE  Calls(from, TwoTo[k])[d] = Frames(from, k, d)
<1> DEFINE half == TwoTo[k] \div 2
           first(at) == [at |-> at, start |-> from + at, range |-> half, bits |-> <<>>]
           Two == {first(0), first(half)}
           Below(S) == UNION {Children(Follow(f)) : f \in S}
           Level(c) == [e \in 1 .. Depth |-> IF e = 1 THEN Two ELSE Below(c[e - 1])]
           F == CHOOSE c : c = Level(c)
           h == [e \in 1 .. Depth |-> Frames(from, k, e)]
<1>0. Depth \in Nat \ {0}
  BY DepthAssumption
<1>1. Calls(from, TwoTo[k]) = F
  BY DEF Calls
<1>2. Two = Frames(from, k, 1)
  BY FirstFrames
<1>3. ASSUME NEW e \in 1 .. Depth - 1 PROVE Below(Frames(from, k, e)) = Frames(from, k, e + 1)
  BY NextFrames
<1> HIDE DEF Two, Below
<1>4. h = Level(h)
  <2>1. ASSUME NEW e \in 1 .. Depth
        PROVE  Frames(from, k, e) = IF e = 1 THEN Two ELSE Below(h[e - 1])
    <3>1. CASE e = 1
      BY <1>2, <3>1
    <3>2. CASE e # 1
      <4> DEFINE g == e - 1
      <4>1. g \in 1 .. Depth - 1 /\ g + 1 = e /\ g \in 1 .. Depth
        BY <1>0, <3>2
      <4>2. h[g] = Frames(from, k, g)
        BY <4>1
      <4> HIDE DEF g, h
      <4>3. Below(Frames(from, k, g)) = Frames(from, k, e)
        BY <1>3, <4>1
      <4> QED
        BY <3>2, <4>2, <4>3 DEF g
    <3> QED
      BY <3>1, <3>2
  <2>2. Level(h) = [e \in 1 .. Depth |-> Frames(from, k, e)]
    <3> HIDE DEF h
    <3> QED
      BY <2>1, Zenon
  <2> QED
    BY <2>2
<1>5. F = Level(F)
  <2> HIDE DEF Level, h
  <2> QED
    BY <1>4
<1> HIDE DEF F
<1>6. \A e \in 1 .. Depth : F[e] = IF e = 1 THEN Two ELSE Below(F[e - 1])
  BY <1>5
<1> DEFINE U == {e \in 0 .. Depth : e = 0 \/ F[e] = Frames(from, k, e)}
<1>7. \A e \in 0 .. Depth - 1 : e \in U => e + 1 \in U
  <2> SUFFICES ASSUME NEW e \in 0 .. Depth - 1, e \in U PROVE e + 1 \in U
    OBVIOUS
  <2> DEFINE g == e + 1
  <2>1. g \in 1 .. Depth /\ g \in 0 .. Depth /\ g - 1 = e
    BY <1>0
  <2> HIDE DEF g
  <2>2. CASE e = 0
    <3>1. g = 1
      BY <2>2 DEF g
    <3>2. F[g] = Two
      BY <1>6, <2>1, <3>1
    <3>3. F[g] = Frames(from, k, g)
      BY <1>2, <3>1, <3>2
    <3>4. g \in U
      BY <2>1, <3>3
    <3> QED
      BY <3>4 DEF g
  <2>3. CASE e # 0
    <3>1. e \in 1 .. Depth - 1 /\ g # 1
      BY <1>0, <2>3 DEF g
    <3>2. F[g] = Below(F[g - 1])
      BY <1>6, <2>1, <3>1
    <3>3. F[e] = Frames(from, k, e)
      BY <2>3
    <3>4. F[g] = Below(Frames(from, k, e))
      BY <2>1, <3>2, <3>3
    <3>5. Below(Frames(from, k, e)) = Frames(from, k, g)
      BY <1>3, <3>1 DEF g
    <3>6. g \in U
      BY <2>1, <3>4, <3>5
    <3> QED
      BY <3>6 DEF g
  <2> QED
    BY <2>2, <2>3
<1>8. 0 .. Depth \subseteq U
  <2>1. 0 \in U
    BY <1>0
  <2> HIDE DEF U
  <2> QED
    BY <1>0, <1>7, <2>1, BoundedInduction
<1>9. d \in U /\ d # 0
  BY <1>8
<1> QED
  BY <1>1, <1>9

-----------------------------------------------------------------------------
(* The theorems about windows.                                             *)

\* The last calls write every element, each with its own index.
LEMMA ResultsAre ==
  ASSUME NEW from, NEW k, IsWindow(from, k)
  PROVE  Results(from, TwoTo[k]) = {<<a, Bits(from + a)>> : a \in 0 .. TwoTo[k] - 1}
<1>0. Depth \in Nat \ {0} /\ Depth \in 1 .. Depth /\ k \in Nat /\ k <= Depth /\ k \in 0 .. Depth
      /\ from \in Nat
  BY DepthAssumption DEF IsWindow
<1> DEFINE n == TwoTo[k]
           F(a) == Frame(from, k, Depth, a)
<1>1. n \in Nat
  BY <1>0, Shifts
<1>2. Places(k, Depth) = 0 .. n - 1
  <2>1. Unit(k, Depth) = 1
    <3>1. CASE Depth <= k
      <4>1. k - Depth = 0
        BY <1>0, <3>1
      <4> QED
        BY <3>1, <4>1, Shifts DEF Unit
    <3>2. CASE ~(Depth <= k)
      BY <3>2 DEF Unit
    <3> QED
      BY <3>1, <3>2
  <2>2. (IF Depth <= k THEN Depth ELSE k) = k
    BY <1>0
  <2>3. Places(k, Depth) = {1 * c : c \in 0 .. n - 1}
    BY <2>1, <2>2 DEF Places
  <2>4. \A c \in 0 .. n - 1 : 1 * c = c
    BY <1>1
  <2> HIDE DEF n
  <2> QED
    BY <2>3, <2>4
<1>3. Calls(from, n)[Depth] = Frames(from, k, Depth)
  BY <1>0, CallsAre
<1>4. Results(from, n) = {<<F(a).at, Follow(F(a)).bits>> : a \in 0 .. n - 1}
  <2> HIDE DEF n
  <2>1. Frames(from, k, Depth) = {F(a) : a \in 0 .. n - 1}
    BY <1>2 DEF Frames
  <2> HIDE DEF F
  <2> QED
    BY <1>3, <2>1 DEF Results
<1>5. ASSUME NEW a \in 0 .. n - 1 PROVE F(a).at = a /\ Follow(F(a)).bits = Bits(from + a)
  <2>1. a \in Nat
    BY <1>1
  <2>2. F(a).at = a
    BY DEF Frame
  <2> DEFINE r == IF Depth <= k THEN TwoTo[k - Depth] ELSE 0
             i == from + a
             s == Prefix(i, Depth)
  <2>3. Follow(F(a)) = [at |-> a, start |-> i, range |-> r, bits |-> s]
    BY <1>0, <2>1, FollowFrame
  <2>4. s = Bits(i)
    BY DEF Bits, Prefix
  <2> HIDE DEF r, s, i, F
  <2>5. Follow(F(a)).bits = s
    BY <2>3
  <2> QED
    BY <2>2, <2>4, <2>5 DEF i
<1> HIDE DEF F, n
<1>6. {<<F(a).at, Follow(F(a)).bits>> : a \in 0 .. n - 1} = {<<a, Bits(from + a)>> : a \in 0 .. n - 1}
  BY <1>5
<1> QED
  BY <1>4, <1>6 DEF n

\* What stays true of a window: it lies in the domain, and the point at which
\* the keys are evaluated is the index of the element that is followed.
InWindow ==
  /\ \E k \in 0 .. Depth : size = TwoTo[k] /\ IsWindow(start, k)
  /\ start + slot \in Domain
  /\ index \in Domain
  /\ x = Bits(start + slot)
  /\ alpha = Bits(index)

LEMMA WindowInitInv == WindowInit => KeyInv /\ InWindow
<1> SUFFICES ASSUME WindowInit PROVE KeyInv /\ InWindow
  OBVIOUS
<1>1. KeyInv
  BY InitInv DEF WindowInit
<1>2. PICK k \in 0 .. Depth : size = TwoTo[k]
  BY DEF WindowInit
<1>3. Depth \in Nat /\ Depth \in 0 .. Depth /\ k <= Depth
  BY DepthAssumption
<1>4. size \in Nat \ {0} /\ TwoTo[Depth] \in Nat \ {0}
  BY <1>2, <1>3, Shifts
<1>5. start \in Nat /\ start < TwoTo[Depth] /\ start % size = 0 /\ index \in Domain
      /\ slot \in 0 .. size - 1 /\ alpha = Bits(index) /\ <<slot, x>> \in Results(start, size)
  BY <1>4 DEF WindowInit, Domain
<1> DEFINE w == start \div size
<1>6. w \in Int /\ start = size * w
  <2> DEFINE r == start % size
  <2>1. w \in Int /\ start = size * w + r
    BY <1>4, <1>5, DivMod
  <2>2. r = 0
    BY <1>5
  <2> HIDE DEF w, r
  <2> QED
    BY <1>4, <2>1, <2>2
<1> HIDE DEF w
<1>7. w \in Nat
  <2>1. ASSUME w <= -1 PROVE FALSE
    <3>1. size * w <= -size
      BY <1>4, <1>6, <2>1
    <3> QED
      BY <1>4, <1>5, <1>6, <3>1
  <2> QED
    BY <1>6, <2>1
<1>8. IsWindow(start, k)
  BY <1>2, <1>5, <1>6, <1>7 DEF IsWindow
<1>9. start + slot \in Domain
  <2>1. PICK c \in Nat \ {0} : TwoTo[Depth] = size * c
    BY <1>2, <1>3, ShiftDivides
  <2>2. w < c
    <3>1. ASSUME w >= c PROVE FALSE
      <4>1. size * w >= size * c
        BY <1>4, <1>7, <3>1
      <4> QED
        BY <1>4, <1>5, <1>6, <2>1, <4>1
    <3> QED
      BY <1>7, <3>1
  <2>3. size * (w + 1) <= size * c
    BY <1>4, <1>7, <2>2
  <2>4. size * (w + 1) = start + size
    BY <1>4, <1>6, <1>7
  <2> QED
    BY <1>4, <1>5, <2>1, <2>3, <2>4 DEF Domain
<1>10. x = Bits(start + slot)
  <2>1. Results(start, size) = {<<a, Bits(start + a)>> : a \in 0 .. size - 1}
    BY <1>2, <1>8, ResultsAre
  <2>2. PICK a \in 0 .. size - 1 : <<slot, x>> = <<a, Bits(start + a)>>
    BY <1>5, <2>1
  <2>3. slot = a /\ x = Bits(start + a)
    BY <2>2, Zenon
  <2> QED
    BY <2>3
<1> QED
  BY <1>1, <1>2, <1>5, <1>8, <1>9, <1>10 DEF InWindow

LEMMA WindowNextInv == KeyInv /\ InWindow /\ [WindowNext]_<<vars, windowVars>> => KeyInv' /\ InWindow'
<1> SUFFICES ASSUME KeyInv, InWindow, [WindowNext]_<<vars, windowVars>> PROVE KeyInv' /\ InWindow'
  OBVIOUS
<1>1. [Next]_vars /\ UNCHANGED windowVars
  BY DEF WindowNext
<1>2. KeyInv'
  BY <1>1, NextInv
<1>3. UNCHANGED <<x, alpha>>
  BY <1>1 DEF Next, GenLevel, GenLast, Descend, Finish, Done, vars, keys, evaluation
<1>4. InWindow'
  BY <1>1, <1>3 DEF InWindow, windowVars, IsWindow
<1> QED
  BY <1>2, <1>4

LEMMA WindowInvariant == WindowSpec => [](KeyInv /\ InWindow)
BY WindowInitInv, WindowNextInv, PTL DEF WindowSpec

\* Every element of the array that a window's evaluation fills holds a share
\* of the value at the element's own index, for every depth, window, slot,
\* kind of key, alpha and generator: the recursion's array indices and the
\* bits that it follows stay together, and bits are ordered as numbers are.
THEOREM SlotCorrect == WindowSpec => []SlotExact
<1>1. KeyInv /\ InWindow => SlotExact
  <2> SUFFICES ASSUME KeyInv, InWindow, Evaluated
               PROVE  (result[0] + result[1]) % Modulus
                        = (IF Holds(start + slot) THEN payload ELSE 0) % Modulus
    BY DEF SlotExact
  <2>1. (result[0] + result[1]) % Modulus = Target % Modulus
    BY ResultsMeet DEF SharesExact
  <2>2. start + slot \in Domain /\ index \in Domain /\ x = Bits(start + slot) /\ alpha = Bits(index)
    BY DEF InWindow
  <2>3. kind \in {"dpf", "lt", "gt"}
    BY GroupAssumption DEF KeyInv, TypeOK
  <2>4. x = alpha <=> start + slot = index
    BY <2>2, BitsOrder
  <2>5. Less(x, alpha) <=> start + slot < index
    BY <2>2, BitsOrder
  <2>6. Less(alpha, x) <=> index < start + slot
    BY <2>2, BitsOrder
  <2>7. start + slot \in Int /\ index \in Int
    BY <2>2 DEF Domain
  <2>8. Holds(start + slot) <=> \/ kind = "dpf" /\ x = alpha
                                \/ kind = "lt" /\ Less(x, alpha)
                                \/ kind = "gt" /\ Less(alpha, x)
    BY <2>3, <2>4, <2>5, <2>6, <2>7 DEF Holds
  <2>9. Target = IF Holds(start + slot) THEN payload ELSE 0
    <3> HIDE DEF Less, Holds
    <3> QED
      BY <2>8, Zenon DEF Target
  <2> QED
    BY <2>1, <2>9
<1> QED
  BY <1>1, WindowInvariant, PTL

\* No element of a window is missed, and none is written twice, for every
\* depth and every aligned window of a power of two.
THEOREM WindowFilledCorrect == WindowSpec => []WindowFilled
<1>1. InWindow => WindowFilled
  <2> SUFFICES ASSUME InWindow
               PROVE  /\ {w[1] : w \in Results(start, size)} = 0 .. size - 1
                      /\ Cardinality(Results(start, size)) = size
    BY DEF WindowFilled
  <2>1. PICK k \in 0 .. Depth : size = TwoTo[k] /\ IsWindow(start, k)
    BY DEF InWindow
  <2>2. size \in Nat
    BY <2>1, Shifts
  <2> DEFINE P == 0 .. size - 1
             G == [a \in P |-> <<a, Bits(start + a)>>]
             R == Results(start, size)
  <2>3. R = {<<a, Bits(start + a)>> : a \in P}
    BY <2>1, ResultsAre
  <2>4. {w[1] : w \in R} = P
    <3>1. \A a \in P : <<a, Bits(start + a)>>[1] = a
      OBVIOUS
    <3>2. \A a \in P : \E w \in R : w[1] = a
      BY <2>3, <3>1, Zenon
    <3>3. \A w \in R : w[1] \in P
      BY <2>3, <3>1, Zenon
    <3> HIDE DEF P, R
    <3> QED
      BY <3>2, <3>3
  <2>5. IsFiniteSet(P) /\ Cardinality(P) = size
    <3>1. CASE size = 0
      <4>1. P = {}
        BY <3>1
      <4> QED
        BY <3>1, <4>1, FS_EmptySet
    <3>2. CASE size # 0
      <4>1. size - 1 \in Int /\ 0 <= size - 1
        BY <2>2, <3>2
      <4> QED
        BY <2>2, <4>1, FS_Interval
    <3> QED
      BY <3>1, <3>2
  <2>6. G \in Bijection(P, R)
    <3>1. G \in [P -> R]
      BY <2>3
    <3>2. \A a \in P, b \in P : G[a] = G[b] => a = b
      OBVIOUS
    <3>3. \A t \in R : \E a \in P : G[a] = t
      BY <2>3
    <3> HIDE DEF G, P, R
    <3> QED
      BY <3>1, <3>2, <3>3 DEF Bijection, Injection, Surjection, IsInjective
  <2>7. ExistsBijection(P, R)
    BY <2>6 DEF ExistsBijection
  <2>8. Cardinality(R) = size
    <3> HIDE DEF P, R
    <3> QED
      BY <2>5, <2>7, FS_Bijection
  <2> QED
    BY <2>4, <2>8
<1> QED
  BY <1>1, WindowInvariant, PTL

=============================================================================
