------------------------------ MODULE FSSKeyInv ------------------------------
(***************************************************************************)
(* The inductive invariant behind the keys: what the client has recorded   *)
(* in a key, how far each server has followed it, and what the two         *)
(* servers' shares add up to at every level that both have reached.        *)
(***************************************************************************)
EXTENDS FSSKey

\* Equal in the group.
Cong(a, b) == (a - b) % Modulus = 0

\* Every level of the key was made from the two nodes above it, and the
\* control bits on the way to alpha are opposite.
Generated ==
  /\ ready => level = Depth
  /\ vAlpha[0] = 0
  /\ \A j \in 0 .. level : trail[j][0].t # trail[j][1].t
  /\ \A j \in 1 .. level :
       /\ cw[j] = Correction(trail[j - 1], alpha[j])
       /\ word[j] = LevelWord(trail[j - 1], vAlpha[j - 1], alpha[j])
       /\ \A p \in Party : trail[j][p] = Child(trail[j - 1][p], cw[j], alpha[j])
       /\ vAlpha[j] = NextValue(trail[j - 1], vAlpha[j - 1], alpha[j], word[j])
  /\ ready => word[Depth + 1] = LastWord(trail[Depth], vAlpha[Depth])

\* A DPF key has no value corrections above the leaves.
Plain == kind = "dpf" => \A j \in 0 .. level : vAlpha[j] = 0

\* What server p adds to its share on the way from level j - 1 to level j,
\* and at the leaf.
Added(p, j) ==
  RoleSign(p) * (Value(path[p][j - 1].seed, x[j]) + (path[p][j - 1].t * word[j]))
AddedLast(p) ==
  RoleSign(p) * (Convert[path[p][Depth].seed] + (path[p][Depth].t * word[Depth + 1]))

\* Each server's descent follows its key, and the client's own way to alpha
\* as long as x does.
Followed ==
  \A p \in Party :
    /\ depth[p] > 0 => ready
    /\ path[p][0] = trail[0][p] /\ share[p][0] = 0
    /\ \A j \in 1 .. depth[p] :
         /\ path[p][j] = Child(path[p][j - 1], cw[j], x[j])
         /\ share[p][j] = (share[p][j - 1] + Added(p, j)) % Modulus
    /\ \A j \in 0 .. depth[p] : On(j) => path[p][j] = trail[j][p]
    /\ result[p] # NoResult =>
         /\ ready
         /\ depth[p] = Depth
         /\ result[p] = (share[p][Depth] + AddedLast(p)) % Modulus

\* What the shares add up to at level j.
Balanced(j) ==
  IF On(j) THEN Cong(share[0][j] + share[1][j], vAlpha[j])
  ELSE path[0][j] = path[1][j] /\ Cong(share[0][j] + share[1][j], Target)

SharesBalanced == \A j \in 0 .. Depth : j <= depth[0] /\ j <= depth[1] => Balanced(j)

\* At every level that both servers have reached, their shares add up to the
\* key's own account of them (vAlpha) while x is on the way to alpha, and
\* after that to the value at x: the induction hypothesis of the proof that
\* keyGenDPF, keyGenDCFMAC and the traversals fit together.
KeyInv == TypeOK /\ Generated /\ Plain /\ Followed /\ SharesBalanced

=============================================================================
