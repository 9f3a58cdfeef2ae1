----------------------------- MODULE RangeLeaves -----------------------------
(***************************************************************************)
(* How the client breaks a predicate on a column of NumBuckets buckets up  *)
(* into leaves that the servers can evaluate.  Buckets are laid out in     *)
(* BlockNum blocks of BlockSize buckets.  A leaf selects a bucket by its   *)
(* block and its offset; the servers add up or OR the leaves of a          *)
(* predicate, which is right only if no bucket is in two of them.          *)
(*                                                                         *)
(*   "vb"     one query vector over all buckets                            *)
(*   "vbfss"  vector keys: block by vDPF or vDCF, offsets by the payload   *)
(*   "bo"     query vectors for blocks and for offsets                     *)
(*   "bofss"  vDPF or vDCF keys for blocks and for offsets                 *)
(***************************************************************************)
EXTENDS Integers

CONSTANTS BlockNum, BlockSize

ASSUME LayoutAssumption == BlockNum \in Nat \ {0} /\ BlockSize \in Nat \ {0}

NumBuckets == BlockNum * BlockSize
Last       == NumBuckets - 1
Bucket     == 0 .. Last
BlockIndex == 0 .. BlockNum - 1
OffsetIndex == 0 .. BlockSize - 1

BlockOf(x)  == x \div BlockSize
OffsetOf(x) == x % BlockSize

\* part names the statement that emits the leaf.  size is the size of the
\* blocks that the leaf speaks of.
BlockLeaf(part, blocks, offsets) ==
  [part |-> part, size |-> BlockSize, blocks |-> blocks, offsets |-> offsets]

\* The vector of VB is a single block of all the buckets.
FlatLeaf(buckets) ==
  [part |-> "flat", size |-> NumBuckets, blocks |-> {0}, offsets |-> buckets]

Covers(leaf, x) == x \div leaf.size \in leaf.blocks /\ x % leaf.size \in leaf.offsets

-----------------------------------------------------------------------------
(* Comparison keys (vDCF): makePlan turns a comparison into a constant, or  *)
(* into a key for "below idx" or "above idx".                              *)

Never(domain)     == {}
Always(domain)    == 0 .. domain - 1
Below(domain, idx) == {x \in 0 .. domain - 1 : x < idx}
Above(domain, idx) == {x \in 0 .. domain - 1 : x > idx}

\* Mutant of Compare: LE is turned into "below t".
CompareShort(domain, op, t) ==
  LET last == domain - 1 IN
  CASE op = "LT" -> IF t = 0 THEN Never(domain)
                    ELSE IF t >= domain THEN Always(domain) ELSE Below(domain, t)
    [] op = "LE" -> IF t >= last THEN Always(domain) ELSE Below(domain, t)
    [] op = "GT" -> IF t >= last THEN Never(domain) ELSE Above(domain, t)
    [] op = "GE" -> IF t = 0 THEN Always(domain)
                    ELSE IF t >= domain THEN Never(domain) ELSE Above(domain, t - 1)

\* The points of the domain at which a comparison key evaluates to its payload.
Compare(domain, op, t) ==
  LET last == domain - 1 IN
  CASE op = "LT" -> IF t = 0 THEN Never(domain)
                    ELSE IF t >= domain THEN Always(domain) ELSE Below(domain, t)
    [] op = "LE" -> IF t >= last THEN Always(domain) ELSE Below(domain, t + 1)
    [] op = "GT" -> IF t >= last THEN Never(domain) ELSE Above(domain, t)
    [] op = "GE" -> IF t = 0 THEN Always(domain)
                    ELSE IF t >= domain THEN Never(domain) ELSE Above(domain, t - 1)

-----------------------------------------------------------------------------
(* The leaves of one predicate left <= x <= right.                         *)

PointLeaves(kind, x) ==
  IF kind = "vb" THEN {FlatLeaf({x})}
  ELSE {BlockLeaf("point", {BlockOf(x)}, {OffsetOf(x)})}

\* VBAggQuery: one of the two boundaries is an end of the column.
VBLeaves(left, right) ==
  IF left = 0 THEN {FlatLeaf(0 .. right)} ELSE {FlatLeaf(left .. NumBuckets - 1)}

\* GenerateCombinedVBFSSFilter: full blocks by comparison, and the boundary
\* block with the offsets in the payload.
VBFSSLeaves(left, right) ==
  IF left = 0
  THEN {BlockLeaf("full", Compare(BlockNum, "LT", BlockOf(right)), OffsetIndex),
        BlockLeaf("boundary", {BlockOf(right)}, 0 .. OffsetOf(right))}
  ELSE {BlockLeaf("full", Compare(BlockNum, "GT", BlockOf(left)), OffsetIndex),
        BlockLeaf("boundary", {BlockOf(left)}, OffsetOf(left) .. BlockSize - 1)}

\* GenerateCombinedBOFSSFilter: the same, with comparison keys for offsets.
BOFSSLeaves(left, right) ==
  IF left = 0
  THEN {BlockLeaf("full", Compare(BlockNum, "LT", BlockOf(right)),
                  Compare(BlockSize, "GE", 0)),
        BlockLeaf("boundary", {BlockOf(right)}, Compare(BlockSize, "LE", OffsetOf(right)))}
  ELSE {BlockLeaf("full", Compare(BlockNum, "GT", BlockOf(left)),
                  Compare(BlockSize, "GE", 0)),
        BlockLeaf("boundary", {BlockOf(left)}, Compare(BlockSize, "GE", OffsetOf(left)))}

\* A leaf that is emitted under a condition.
When(cond, leaf) == IF cond THEN {leaf} ELSE {}

\* Mutant of BOInterval: the middle part starts in the lower boundary block.
BOIntervalWide(left, right) ==
  LET bL == BlockOf(left)   oL == OffsetOf(left)
      bR == BlockOf(right)  oR == OffsetOf(right)
      midR == bR - (IF oR + 1 < BlockSize THEN 1 ELSE 0)
  IN  IF bL = bR THEN {BlockLeaf("inside", {bL}, oL .. oR)}
      ELSE When(oL > 0, BlockLeaf("low", {bL}, oL .. BlockSize - 1))
             \cup When(oR + 1 < BlockSize, BlockLeaf("high", {bR}, 0 .. oR))
             \cup When(bL <= midR, BlockLeaf("middle", bL .. midR, OffsetIndex))

\* GenerateCombinedBOFilter, general interval: the partly covered blocks at
\* both ends and the full blocks between them.
BOInterval(left, right) ==
  LET bL == BlockOf(left)   oL == OffsetOf(left)
      bR == BlockOf(right)  oR == OffsetOf(right)
      midL == bL + (IF oL > 0 THEN 1 ELSE 0)
      midR == bR - (IF oR + 1 < BlockSize THEN 1 ELSE 0)
  IN  IF bL = bR THEN {BlockLeaf("inside", {bL}, oL .. oR)}
      ELSE When(oL > 0, BlockLeaf("low", {bL}, oL .. BlockSize - 1))
             \cup When(oR + 1 < BlockSize, BlockLeaf("high", {bR}, 0 .. oR))
             \cup When(midL <= midR, BlockLeaf("middle", midL .. midR, OffsetIndex))

\* Mutant of BOLeaves: no test for an empty run of full blocks.
BOLeavesUnguarded(left, right) ==
  IF left = 0 /\ right < Last
  THEN {BlockLeaf("full", 0 .. BlockOf(right) - 1, OffsetIndex),
        BlockLeaf("boundary", {BlockOf(right)}, 0 .. OffsetOf(right))}
  ELSE BOInterval(left, right)

\* GenerateCombinedBOFilter.
BOLeaves(left, right) ==
  IF left = 0 /\ right < Last
  THEN When(BlockOf(right) > 0, BlockLeaf("full", 0 .. BlockOf(right) - 1, OffsetIndex))
         \cup {BlockLeaf("boundary", {BlockOf(right)}, 0 .. OffsetOf(right))}
  ELSE IF right = Last /\ left > 0
  THEN When(BlockOf(left) + 1 < BlockNum,
            BlockLeaf("full", BlockOf(left) + 1 .. BlockNum - 1, OffsetIndex))
         \cup {BlockLeaf("boundary", {BlockOf(left)}, OffsetOf(left) .. BlockSize - 1)}
  ELSE BOInterval(left, right)

RangeLeaves(kind, left, right) ==
  CASE kind = "vb"    -> VBLeaves(left, right)
    [] kind = "vbfss" -> VBFSSLeaves(left, right)
    [] kind = "bo"    -> BOLeaves(left, right)
    [] kind = "bofss" -> BOFSSLeaves(left, right)

Leaves(kind, isPoint, left, right) ==
  IF isPoint THEN PointLeaves(kind, left) ELSE RangeLeaves(kind, left, right)

-----------------------------------------------------------------------------
(* What the leaves of a predicate must be.                                 *)

\* No bucket is in two of them.
Disjoint(ls) ==
  \A a, b \in ls : \A x \in Bucket : Covers(a, x) /\ Covers(b, x) => a = b

\* Together they select the buckets from left to right.
Selects(ls, left, right) ==
  \A x \in Bucket :
    (\E leaf \in ls : Covers(leaf, x)) <=> left <= x /\ x <= right

\* Blocks and offsets of a leaf exist.
Inside(leaf) ==
  /\ leaf.offsets \subseteq 0 .. leaf.size - 1
  /\ leaf.blocks \subseteq IF leaf.size = BlockSize THEN BlockIndex ELSE {0}

=============================================================================
