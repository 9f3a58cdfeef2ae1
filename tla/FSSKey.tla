-------------------------------- MODULE FSSKey --------------------------------
(***************************************************************************)
(* Function secret sharing keys.  The client generates a pair of keys for  *)
(* a secret point alpha of a binary tree of Depth levels; two servers      *)
(* evaluate one key each at a point x, and their results add up to         *)
(*                                                                         *)
(*   "dpf"   payload if x = alpha, else 0      DPFClient, DPFServer        *)
(*   "lt"    payload if x < alpha, else 0      DCFClient, DCFServer        *)
(*   "gt"    payload if x > alpha, else 0      the same, greaterThan set   *)
(*                                                                         *)
(* modulo group_mod, which divides the 2^128 that the code's integers wrap *)
(* at.  A node of a server's tree is a seed and a control bit t.  Its two  *)
(* children come from a pseudo-random generator, and are corrected by the  *)
(* level's correction word, the same in both keys, if t is 1.  A block of  *)
(* the code holds the seed (bits 2 to 127) and t (bit 0).  The generator   *)
(* (fixed-key AES) is a constant: whatever it is, the shares must add up.  *)
(* Seeds are sets of bits, so that XOR is symmetric difference; points are *)
(* the sequences of their bits, from the root.                             *)
(***************************************************************************)
EXTENDS Integers

CONSTANTS
  Depth,     \* levels of the tree
  SeedBits,  \* bit positions of a seed
  RootSeeds, \* pairs of seeds that the client's PRNG may draw
  Expand,    \* Expand[seed][b]: child b before correction (aes0, aes1)
  ValueOf,   \* ValueOf[seed][b]: the level's word towards child b (aes2, aes3)
  Convert,   \* Convert[seed]: a seed as a number
  Modulus,   \* group_mod
  Kinds,     \* kinds of keys that are generated
  Payloads,
  NoResult

Bit   == {0, 1}
Party == {0, 1}
Seed  == SUBSET SeedBits
Node  == [seed : Seed, t : Bit]
Point == [1 .. Depth -> Bit]

ASSUME DepthAssumption == Depth \in Nat \ {0}
ASSUME GeneratorAssumption ==
  /\ Expand \in [Seed -> [Bit -> Node]]
  /\ ValueOf \in [Seed -> [Bit -> Int]]
  /\ Convert \in [Seed -> Int]
ASSUME GroupAssumption ==
  /\ Modulus \in Nat \ {0}
  /\ Payloads \subseteq Int
  /\ Kinds \subseteq {"dpf", "lt", "gt"}
  /\ NoResult \notin Int

Xor(a, b) == (a \ b) \cup (b \ a)
\* Mutant of Flip: the bits are added, not XORed.
FlipAdds(a, b) == a + b

Flip(a, b) == IF a = b THEN 0 ELSE 1

VARIABLES
  kind, alpha, payload,  \* what the keys are for
  level,     \* levels that have been generated
  trail,     \* trail[j][p]: the node of key p on the way to alpha, at level j
  vAlpha,    \* vAlpha[j]: what the shares add up to so far at that node
  cw,        \* cw[j]: seed and bit corrections of level j (k[j])
  word,      \* word[j]: value correction of level j (v[j - 1], or g)
  ready,     \* the last correction has been made and the keys dealt
  x,         \* point at which the servers evaluate
  depth,     \* depth[p]: levels that server p has descended
  path,      \* path[p][j]: its node at level j
  share,     \* share[p][j]: v_share at level j
  result     \* result[p]: its share of the value at x

keys == <<kind, alpha, payload, level, trail, vAlpha, cw, word, ready>>
evaluation == <<depth, path, share, result>>
vars == <<keys, x, evaluation>>

-----------------------------------------------------------------------------
(* One level.                                                              *)

\* Mutant of Child: the control bit is not corrected.
ChildKeepsBit(n, c, b) ==
  LET e == Expand[n.seed][b]
  IN  IF n.t = 0 THEN e ELSE [seed |-> Xor(e.seed, c.seed), t |-> e.t]

\* traverseOneDPF, and the generator's own step.
Child(n, c, b) ==
  LET e == Expand[n.seed][b]
  IN  IF n.t = 0 THEN e ELSE [seed |-> Xor(e.seed, c.seed), t |-> Flip(e.t, c.t[b])]

\* Mutant of Correction: the bit of the child that is kept is not flipped.
CorrectionPlain(s, keep) ==
  LET e(p, b) == Expand[s[p].seed][b]
  IN  [seed |-> Xor(e(0, 1 - keep).seed, e(1, 1 - keep).seed),
       t |-> [b \in Bit |-> Flip(e(0, b).t, e(1, b).t)]]

\* The seeds of the child that is left out become equal and its bits too; the
\* bits of the child that is kept become different.
Correction(s, keep) ==
  LET e(p, b) == Expand[s[p].seed][b]
      differ(b) == Flip(e(0, b).t, e(1, b).t)
  IN  [seed |-> Xor(e(0, 1 - keep).seed, e(1, 1 - keep).seed),
       t |-> [b \in Bit |-> IF b = keep THEN 1 - differ(b) ELSE differ(b)]]

\* -1 if the second server's bit is set.
Sign(s) == IF s[1].t = 1 THEN -1 ELSE 1

\* A DPF has no words but the last.
Value(seed, b) == IF kind = "dpf" THEN 0 ELSE ValueOf[seed][b]

Difference(s, b) == Value(s[1].seed, b) - Value(s[0].seed, b)

\* Mutant of Lost: the two comparisons are swapped.
LostSwapped(keep) == IF (kind = "lt" /\ keep = 0) \/ (kind = "gt" /\ keep = 1) THEN payload ELSE 0

\* What all points below the child that is left out evaluate to.
Lost(keep) == IF (kind = "lt" /\ keep = 1) \/ (kind = "gt" /\ keep = 0) THEN payload ELSE 0

LevelWord(s, v, keep) ==
  IF kind = "dpf" THEN 0
  ELSE (Sign(s) * (Difference(s, 1 - keep) - v + Lost(keep))) % Modulus

NextValue(s, v, keep, w) ==
  (v - Difference(s, keep) + (Sign(s) * w)) % Modulus

\* The last correction: a DPF gets its payload here.
LastWord(s, v) ==
  (Sign(s) * ((IF kind = "dpf" THEN payload ELSE 0)
                + Convert[s[1].seed] - Convert[s[0].seed] - v)) % Modulus

-----------------------------------------------------------------------------
(* The client: keyGenDPF, keyGenDCFMAC.                                    *)

\* Two random seeds; the bit of the first is the opposite of the second's.
Roots ==
  {s \in [Party -> Node] : s[0].t = 1 - s[1].t /\ <<s[0].seed, s[1].seed>> \in RootSeeds}

Init ==
  /\ kind \in Kinds /\ alpha \in Point /\ payload \in Payloads
  /\ level = 0 /\ ready = FALSE
  /\ \E root \in Roots :
       /\ trail = [j \in 0 .. Depth |-> root]
       /\ path = [p \in Party |-> [j \in 0 .. Depth |-> root[p]]]
  /\ vAlpha = [j \in 0 .. Depth |-> 0]
  /\ cw = [j \in 1 .. Depth |-> [seed |-> {}, t |-> [b \in Bit |-> 0]]]
  /\ word = [j \in 1 .. Depth + 1 |-> 0]
  /\ x \in Point
  /\ depth = [p \in Party |-> 0]
  /\ share = [p \in Party |-> [j \in 0 .. Depth |-> 0]]
  /\ result = [p \in Party |-> NoResult]

GenLevel ==
  /\ level < Depth
  /\ LET j == level + 1
         s == trail[level]
         keep == alpha[j]
         c == Correction(s, keep)
         w == LevelWord(s, vAlpha[level], keep)
     IN  /\ level' = j
         /\ cw' = [cw EXCEPT ![j] = c]
         /\ word' = [word EXCEPT ![j] = w]
         /\ trail' = [trail EXCEPT ![j] = [p \in Party |-> Child(s[p], c, keep)]]
         /\ vAlpha' = [vAlpha EXCEPT ![j] = NextValue(s, vAlpha[level], keep, w)]
  /\ UNCHANGED <<kind, alpha, payload, ready, x, evaluation>>

GenLast ==
  /\ level = Depth
  /\ ~ready
  /\ word' = [word EXCEPT ![Depth + 1] = LastWord(trail[Depth], vAlpha[Depth])]
  /\ ready' = TRUE
  /\ UNCHANGED <<kind, alpha, payload, level, trail, vAlpha, cw, x, evaluation>>

-----------------------------------------------------------------------------
(* A server: traversePathDPF, traversePathDCFMAC with party_id p.          *)

RoleSign(p) == IF p = 1 THEN -1 ELSE 1

\* Mutant of Descend: the word is added whatever the control bit is.
DescendAlways(p) ==
  /\ ready
  /\ depth[p] < Depth
  /\ LET j == depth[p] + 1
         n == path[p][depth[p]]
     IN  /\ depth' = [depth EXCEPT ![p] = j]
         /\ path' = [path EXCEPT ![p][j] = Child(n, cw[j], x[j])]
         /\ share' = [share EXCEPT ![p][j] =
              (share[p][depth[p]] + (RoleSign(p) * (Value(n.seed, x[j]) + word[j]))) % Modulus]
  /\ UNCHANGED <<keys, x, result>>

\* traverseOneDPF and traverseOneDCFMAC, one level down.
Descend(p) ==
  /\ ready
  /\ depth[p] < Depth
  /\ LET j == depth[p] + 1
         n == path[p][depth[p]]
     IN  /\ depth' = [depth EXCEPT ![p] = j]
         /\ path' = [path EXCEPT ![p][j] = Child(n, cw[j], x[j])]
         /\ share' = [share EXCEPT ![p][j] =
              (share[p][depth[p]] + (RoleSign(p) * (Value(n.seed, x[j]) + (n.t * word[j])))) % Modulus]
  /\ UNCHANGED <<keys, x, result>>

Finish(p) ==
  /\ depth[p] = Depth
  /\ result[p] = NoResult
  /\ LET n == path[p][Depth]
     IN  result' = [result EXCEPT ![p] =
           (share[p][Depth] + (RoleSign(p) * (Convert[n.seed] + (n.t * word[Depth + 1])))) % Modulus]
  /\ UNCHANGED <<keys, x, depth, path, share>>

Evaluated == \A p \in Party : result[p] # NoResult

Done == Evaluated /\ UNCHANGED vars

Next == GenLevel \/ GenLast \/ (\E p \in Party : Descend(p) \/ Finish(p)) \/ Done

Spec == Init /\ [][Next]_vars

-----------------------------------------------------------------------------
(* Properties.                                                             *)

Correct == [seed : Seed, t : [Bit -> Bit]]

TypeOK ==
  /\ kind \in Kinds /\ alpha \in Point /\ payload \in Payloads
  /\ level \in 0 .. Depth
  /\ ready \in BOOLEAN
  /\ trail \in [0 .. Depth -> [Party -> Node]]
  /\ vAlpha \in [0 .. Depth -> Int]
  /\ cw \in [1 .. Depth -> Correct]
  /\ word \in [1 .. Depth + 1 -> Int]
  /\ x \in Point
  /\ depth \in [Party -> 0 .. Depth]
  /\ path \in [Party -> [0 .. Depth -> Node]]
  /\ share \in [Party -> [0 .. Depth -> Int]]
  /\ result \in [Party -> Int \cup {NoResult}]

\* x and alpha have their first j bits in common.
On(j) == \A i \in 1 .. j : x[i] = alpha[i]

\* The first bit that differs decides.
Less(a, b) ==
  \E i \in 1 .. Depth : a[i] < b[i] /\ \A h \in 1 .. i - 1 : a[h] = b[h]

Target ==
  IF \/ kind = "dpf" /\ x = alpha
     \/ kind = "lt" /\ Less(x, alpha)
     \/ kind = "gt" /\ Less(alpha, x)
  THEN payload ELSE 0

\* The two servers' results add up to the function's value at x, though each
\* descends alone, with a key in which nothing but random words can be seen:
\* levels, signs and carries of keyGen* and traverse* fit together.
SharesExact == Evaluated => (result[0] + result[1]) % Modulus = Target % Modulus

\* On the way to alpha the servers' control bits are opposite, so that exactly
\* one of them applies each correction; from the level where x leaves it on
\* their nodes are the same, so that nothing they add survives.
OppositeOrSame ==
  \A j \in 0 .. Depth : j <= depth[0] /\ j <= depth[1] =>
    IF On(j) THEN path[0][j].t # path[1][j].t ELSE path[0][j] = path[1][j]

=============================================================================
