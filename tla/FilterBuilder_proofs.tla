------------------------- MODULE FilterBuilder_proofs -------------------------
(***************************************************************************)
(* Every kind of query breaks a predicate up into leaves that exclude each *)
(* other and together select exactly its buckets, for any number and size  *)
(* of blocks.  All of it rests on one fact: the order of buckets is the    *)
(* lexicographic order of their blocks and offsets.                        *)
(***************************************************************************)
EXTENDS FilterBuilder, TLAPS

\* Division with remainder, from the definition of both operators.
LEMMA DivMod ==
  ASSUME NEW x \in Nat, NEW n \in Nat \ {0}
  PROVE  /\ x \div n \in Nat
         /\ x % n \in 0 .. n - 1
         /\ x = n * (x \div n) + (x % n)
  BY SMT

\* Multiples of n that differ are at least n apart.
LEMMA Apart ==
  ASSUME NEW n \in Nat, NEW a \in Nat, NEW b \in Nat, a < b
  PROVE  n * a + n <= n * b
<1>1. PICK d \in Nat : b = a + 1 + d
  <2>1. b - a - 1 \in Nat /\ b = a + 1 + (b - a - 1)
    OBVIOUS
  <2> QED
    BY <2>1
<1>2. n * b = n * a + n + n * d
  BY <1>1
<1>3. n * d \in Nat
  BY <1>1
<1>4. n * a \in Nat /\ n * b \in Nat
  OBVIOUS
<1> QED
  BY <1>2, <1>3, <1>4

\* A bucket's block and offset exist.
LEMMA BucketLayout ==
  ASSUME NEW x \in Bucket
  PROVE  /\ BlockOf(x) \in BlockIndex
         /\ OffsetOf(x) \in OffsetIndex
         /\ x = BlockSize * BlockOf(x) + OffsetOf(x)
<1>1. /\ BlockSize \in Nat \ {0} /\ BlockNum \in Nat \ {0}
      /\ BlockSize * BlockNum \in Nat /\ NumBuckets = BlockSize * BlockNum
  BY LayoutAssumption DEF NumBuckets
<1>2. x \in Nat /\ x < BlockSize * BlockNum
  BY <1>1 DEF Bucket, Last
<1>3. /\ BlockOf(x) \in Nat
      /\ OffsetOf(x) \in 0 .. BlockSize - 1
      /\ x = BlockSize * BlockOf(x) + OffsetOf(x)
  BY <1>1, <1>2, DivMod DEF BlockOf, OffsetOf
<1>4. BlockSize * BlockOf(x) \in Nat
  BY <1>1, <1>3
<1>5. BlockOf(x) < BlockNum
  <2>1. SUFFICES ASSUME BlockNum <= BlockOf(x)
                 PROVE  FALSE
    BY <1>1, <1>3
  <2>2. BlockSize * BlockNum <= BlockSize * BlockOf(x)
    <3>1. CASE BlockNum = BlockOf(x)
      BY <3>1, <1>4
    <3>2. CASE BlockNum < BlockOf(x)
      BY <3>2, <1>1, <1>3, <1>4, Apart
    <3> QED
      BY <2>1, <1>1, <1>3, <3>1, <3>2
  <2> QED
    BY <2>2, <1>1, <1>2, <1>3, <1>4
<1> QED
  BY <1>1, <1>3, <1>5 DEF BlockIndex, OffsetIndex

\* The order of buckets is the lexicographic order of block and offset.
LEMMA Lexicographic ==
  ASSUME NEW x \in Bucket, NEW y \in Bucket
  PROVE  x <= y <=> \/ BlockOf(x) < BlockOf(y)
                    \/ BlockOf(x) = BlockOf(y) /\ OffsetOf(x) <= OffsetOf(y)
<1>1. /\ BlockOf(x) \in Nat /\ BlockOf(y) \in Nat
      /\ OffsetOf(x) \in 0 .. BlockSize - 1 /\ OffsetOf(y) \in 0 .. BlockSize - 1
      /\ x = BlockSize * BlockOf(x) + OffsetOf(x)
      /\ y = BlockSize * BlockOf(y) + OffsetOf(y)
      /\ x \in Int /\ y \in Int
  BY BucketLayout, LayoutAssumption DEF BlockIndex, OffsetIndex, Bucket, Last, NumBuckets
<1>2. /\ BlockSize \in Nat
      /\ BlockSize * BlockOf(x) \in Nat /\ BlockSize * BlockOf(y) \in Nat
  BY <1>1, LayoutAssumption
<1>3. CASE BlockOf(x) < BlockOf(y)
  <2>1. BlockSize * BlockOf(x) + BlockSize <= BlockSize * BlockOf(y)
    BY <1>1, <1>2, <1>3, Apart
  <2> QED
    BY <1>1, <1>2, <1>3, <2>1
<1>4. CASE BlockOf(y) < BlockOf(x)
  <2>1. BlockSize * BlockOf(y) + BlockSize <= BlockSize * BlockOf(x)
    BY <1>1, <1>2, <1>4, Apart
  <2> QED
    BY <1>1, <1>2, <1>4, <2>1
<1>5. CASE BlockOf(x) = BlockOf(y)
  BY <1>1, <1>2, <1>5
<1> QED
  BY <1>1, <1>3, <1>4, <1>5

-----------------------------------------------------------------------------
(* Which buckets a leaf covers.                                            *)

LEMMA BlockLeafCovers ==
  ASSUME NEW part, NEW blocks, NEW offsets, NEW x
  PROVE  Covers(BlockLeaf(part, blocks, offsets), x)
           <=> BlockOf(x) \in blocks /\ OffsetOf(x) \in offsets
  BY DEF Covers, BlockLeaf, BlockOf, OffsetOf

\* The single block of a flat leaf contains every bucket at its own offset.
LEMMA FlatLeafCovers ==
  ASSUME NEW buckets, NEW x \in Bucket
  PROVE  Covers(FlatLeaf(buckets), x) <=> x \in buckets
<1>1. NumBuckets \in Nat /\ x \in Nat /\ x < NumBuckets /\ NumBuckets \in Nat \ {0}
  BY LayoutAssumption DEF NumBuckets, Bucket, Last
<1>2. x \div NumBuckets \in Nat /\ x = NumBuckets * (x \div NumBuckets) + (x % NumBuckets)
      /\ x % NumBuckets \in 0 .. NumBuckets - 1
  BY <1>1, DivMod
<1>3. x \div NumBuckets = 0
  <2>1. SUFFICES ASSUME 0 < x \div NumBuckets
                 PROVE  FALSE
    BY <1>2
  <2>2. NumBuckets * 0 + NumBuckets <= NumBuckets * (x \div NumBuckets)
    BY <1>1, <1>2, <2>1, Apart
  <2>3. NumBuckets * (x \div NumBuckets) \in Nat
    BY <1>1, <1>2
  <2> QED
    BY <1>1, <1>2, <2>2, <2>3
<1>4. x % NumBuckets = x
  BY <1>1, <1>2, <1>3
<1> QED
  BY <1>3, <1>4 DEF Covers, FlatLeaf

\* A comparison key selects the points that satisfy the comparison.
LEMMA CompareCorrect ==
  ASSUME NEW n \in Nat \ {0}, NEW t \in Nat, NEW x \in 0 .. n - 1
  PROVE  /\ x \in Compare(n, "LT", t) <=> x < t
         /\ x \in Compare(n, "LE", t) <=> x <= t
         /\ x \in Compare(n, "GT", t) <=> x > t
         /\ x \in Compare(n, "GE", t) <=> x >= t
  BY DEF Compare, Never, Always, Below, Above

LEMMA CompareInside ==
  ASSUME NEW n \in Nat \ {0}, NEW t \in Nat, NEW op \in {"LT", "LE", "GT", "GE"}
  PROVE  Compare(n, op, t) \subseteq 0 .. n - 1
  BY DEF Compare, Never, Always, Below, Above

-----------------------------------------------------------------------------
(* The leaves of a predicate, kind by kind.                                *)

\* A point is one leaf that covers one bucket.
LEMMA PointLeavesCorrect ==
  ASSUME NEW kind, NEW point \in Bucket
  PROVE  /\ Disjoint(PointLeaves(kind, point))
         /\ Selects(PointLeaves(kind, point), point, point)
<1>1. ASSUME NEW x \in Bucket
      PROVE  x = point <=> BlockOf(x) = BlockOf(point) /\ OffsetOf(x) = OffsetOf(point)
  BY BucketLayout
<1>2. ASSUME NEW x \in Bucket
      PROVE  x = point <=> point <= x /\ x <= point
  BY LayoutAssumption DEF Bucket, Last, NumBuckets
<1>3. CASE kind = "vb"
  BY <1>2, <1>3, FlatLeafCovers DEF PointLeaves, Disjoint, Selects
<1>4. CASE kind # "vb"
  BY <1>1, <1>2, <1>4, BlockLeafCovers DEF PointLeaves, Disjoint, Selects
<1> QED
  BY <1>3, <1>4

\* What to show of a single leaf, and of two.
LEMMA OneLeaf ==
  ASSUME NEW a, NEW left, NEW right,
         \A x \in Bucket : Covers(a, x) <=> left <= x /\ x <= right
  PROVE  Disjoint({a}) /\ Selects({a}, left, right)
  BY DEF Disjoint, Selects

LEMMA TwoLeaves ==
  ASSUME NEW a, NEW b, NEW left, NEW right,
         \A x \in Bucket : ~(Covers(a, x) /\ Covers(b, x)),
         \A x \in Bucket : Covers(a, x) \/ Covers(b, x) <=> left <= x /\ x <= right
  PROVE  Disjoint({a, b}) /\ Selects({a, b}, left, right)
  BY DEF Disjoint, Selects

\* Facts about numbers that every case below needs.
LEMMA Numbers ==
  ASSUME NEW x \in Bucket
  PROVE  /\ x \in Nat /\ x <= Last /\ Last = NumBuckets - 1 /\ NumBuckets \in Nat \ {0}
         /\ BlockOf(x) \in Nat /\ BlockOf(x) \in 0 .. BlockNum - 1
         /\ OffsetOf(x) \in Nat /\ OffsetOf(x) \in 0 .. BlockSize - 1
         /\ BlockNum \in Nat \ {0} /\ BlockSize \in Nat \ {0}
  BY BucketLayout, LayoutAssumption DEF Bucket, Last, NumBuckets, BlockIndex, OffsetIndex

LEMMA EndsOfColumn == 0 \in Bucket /\ Last \in Bucket
  BY LayoutAssumption DEF Bucket, Last, NumBuckets

\* A single vector covers the buckets up to or from a boundary.
LEMMA VBLeavesCorrect ==
  ASSUME NEW left \in Bucket, NEW right \in Bucket, left = 0 \/ right = Last
  PROVE  /\ Disjoint(VBLeaves(left, right))
         /\ Selects(VBLeaves(left, right), left, right)
<1>1. CASE left = 0
  <2>1. ASSUME NEW x \in Bucket
        PROVE  Covers(FlatLeaf(0 .. right), x) <=> left <= x /\ x <= right
    <3>1. Covers(FlatLeaf(0 .. right), x) <=> x \in 0 .. right
      BY FlatLeafCovers
    <3> QED
      BY <1>1, <3>1, Numbers
  <2> QED
    BY <1>1, <2>1, OneLeaf DEF VBLeaves
<1>2. CASE left # 0
  <2>1. \A x \in Bucket : Covers(FlatLeaf(left .. NumBuckets - 1), x)
                            <=> left <= x /\ x <= right
    BY SMTT(30), <1>2, FlatLeafCovers, Numbers
  <2> QED
    BY <1>2, <2>1, OneLeaf DEF VBLeaves
<1> QED
  BY <1>1, <1>2

\* The leaves at the ends of an interval, and one of whole blocks.
LEMMA LowEnd ==
  ASSUME NEW left \in Bucket, NEW part
  PROVE  \A x \in Bucket :
           Covers(BlockLeaf(part, {BlockOf(left)}, OffsetOf(left) .. BlockSize - 1), x)
             <=> BlockOf(x) = BlockOf(left) /\ OffsetOf(x) >= OffsetOf(left)
  BY BlockLeafCovers, Numbers

LEMMA HighEnd ==
  ASSUME NEW right \in Bucket, NEW part
  PROVE  \A x \in Bucket :
           Covers(BlockLeaf(part, {BlockOf(right)}, 0 .. OffsetOf(right)), x)
             <=> BlockOf(x) = BlockOf(right) /\ OffsetOf(x) <= OffsetOf(right)
  BY BlockLeafCovers, Numbers

LEMMA WholeBlocks ==
  ASSUME NEW part, NEW first \in Int, NEW last \in Int, NEW x \in Bucket
  PROVE  Covers(BlockLeaf(part, first .. last, OffsetIndex), x)
           <=> first <= BlockOf(x) /\ BlockOf(x) <= last
<1>1. Covers(BlockLeaf(part, first .. last, OffsetIndex), x)
        <=> BlockOf(x) \in first .. last /\ OffsetOf(x) \in OffsetIndex
  BY BlockLeafCovers
<1> QED
  BY <1>1, Numbers DEF OffsetIndex


\* A lower part of the column is the blocks below the boundary's, and the
\* boundary's block up to its offset.
LEMMA UpTo ==
  ASSUME NEW right \in Bucket, NEW full, NEW boundary,
         \A x \in Bucket : Covers(full, x) <=> BlockOf(x) < BlockOf(right),
         \A x \in Bucket : Covers(boundary, x)
            <=> BlockOf(x) = BlockOf(right) /\ OffsetOf(x) <= OffsetOf(right)
  PROVE  /\ Disjoint({full, boundary}) /\ Selects({full, boundary}, 0, right)
<1>1. \A x \in Bucket : ~(Covers(full, x) /\ Covers(boundary, x))
  BY Numbers
<1>2. \A x \in Bucket : Covers(full, x) \/ Covers(boundary, x) <=> 0 <= x /\ x <= right
  BY Lexicographic, Numbers
<1> QED
  BY <1>1, <1>2, TwoLeaves

\* An upper part is the boundary's block from its offset, and those above.
LEMMA From ==
  ASSUME NEW left \in Bucket, NEW full, NEW boundary,
         \A x \in Bucket : Covers(full, x) <=> BlockOf(x) > BlockOf(left),
         \A x \in Bucket : Covers(boundary, x)
            <=> BlockOf(x) = BlockOf(left) /\ OffsetOf(x) >= OffsetOf(left)
  PROVE  /\ Disjoint({full, boundary}) /\ Selects({full, boundary}, left, Last)
<1>1. \A x \in Bucket : ~(Covers(full, x) /\ Covers(boundary, x))
  BY Numbers
<1>2. \A x \in Bucket : Covers(full, x) \/ Covers(boundary, x) <=> left <= x /\ x <= Last
  <2>1. SUFFICES ASSUME NEW x \in Bucket
                 PROVE  Covers(full, x) \/ Covers(boundary, x) <=> left <= x
    BY Numbers
  <2>2. left <= x <=> \/ BlockOf(left) < BlockOf(x)
                      \/ BlockOf(left) = BlockOf(x) /\ OffsetOf(left) <= OffsetOf(x)
    BY Lexicographic
  <2> QED
    BY <2>2, Numbers
<1> QED
  BY <1>1, <1>2, TwoLeaves

\* Comparison keys for full blocks and a payload for the boundary block.
LEMMA VBFSSLeavesCorrect ==
  ASSUME NEW left \in Bucket, NEW right \in Bucket, left = 0 \/ right = Last
  PROVE  /\ Disjoint(VBFSSLeaves(left, right))
         /\ Selects(VBFSSLeaves(left, right), left, right)
<1>1. CASE left = 0
  <2> DEFINE full     == BlockLeaf("full", Compare(BlockNum, "LT", BlockOf(right)), OffsetIndex)
             boundary == BlockLeaf("boundary", {BlockOf(right)}, 0 .. OffsetOf(right))
  <2>1. \A x \in Bucket : Covers(full, x) <=> BlockOf(x) < BlockOf(right)
    BY SMTT(30), BlockLeafCovers, CompareCorrect, Numbers DEF OffsetIndex
  <2>2. \A x \in Bucket : Covers(boundary, x)
          <=> BlockOf(x) = BlockOf(right) /\ OffsetOf(x) <= OffsetOf(right)
    BY HighEnd
  <2> HIDE DEF full, boundary
  <2>3. Disjoint({full, boundary}) /\ Selects({full, boundary}, 0, right)
    BY <2>1, <2>2, UpTo
  <2> QED
    BY <1>1, <2>3 DEF VBFSSLeaves, full, boundary
<1>2. CASE left # 0
  <2> DEFINE full     == BlockLeaf("full", Compare(BlockNum, "GT", BlockOf(left)), OffsetIndex)
             boundary == BlockLeaf("boundary", {BlockOf(left)}, OffsetOf(left) .. BlockSize - 1)
  <2>1. \A x \in Bucket : Covers(full, x) <=> BlockOf(x) > BlockOf(left)
    BY SMTT(30), BlockLeafCovers, CompareCorrect, Numbers DEF OffsetIndex
  <2>2. \A x \in Bucket : Covers(boundary, x)
          <=> BlockOf(x) = BlockOf(left) /\ OffsetOf(x) >= OffsetOf(left)
    BY LowEnd
  <2> HIDE DEF full, boundary
  <2>3. Disjoint({full, boundary}) /\ Selects({full, boundary}, left, Last)
    BY <2>1, <2>2, From
  <2> QED
    BY <1>2, <2>3 DEF VBFSSLeaves, full, boundary
<1> QED
  BY <1>1, <1>2

\* The same with comparison keys for the offsets too.
LEMMA BOFSSLeavesCorrect ==
  ASSUME NEW left \in Bucket, NEW right \in Bucket, left = 0 \/ right = Last
  PROVE  /\ Disjoint(BOFSSLeaves(left, right))
         /\ Selects(BOFSSLeaves(left, right), left, right)
<1>1. \A x \in Bucket : OffsetOf(x) \in Compare(BlockSize, "GE", 0)
  BY CompareCorrect, Numbers
<1>2. CASE left = 0
  <2> DEFINE full     == BlockLeaf("full", Compare(BlockNum, "LT", BlockOf(right)),
                                   Compare(BlockSize, "GE", 0))
             boundary == BlockLeaf("boundary", {BlockOf(right)},
                                   Compare(BlockSize, "LE", OffsetOf(right)))
  <2>1. \A x \in Bucket : Covers(full, x) <=> BlockOf(x) < BlockOf(right)
    BY <1>1, BlockLeafCovers, CompareCorrect, Numbers
  <2>2. \A x \in Bucket : Covers(boundary, x)
          <=> BlockOf(x) = BlockOf(right) /\ OffsetOf(x) <= OffsetOf(right)
    BY BlockLeafCovers, CompareCorrect, Numbers
  <2> HIDE DEF full, boundary
  <2>3. Disjoint({full, boundary}) /\ Selects({full, boundary}, 0, right)
    BY <2>1, <2>2, UpTo
  <2> QED
    BY <1>2, <2>3 DEF BOFSSLeaves, full, boundary
<1>3. CASE left # 0
  <2> DEFINE full     == BlockLeaf("full", Compare(BlockNum, "GT", BlockOf(left)),
                                   Compare(BlockSize, "GE", 0))
             boundary == BlockLeaf("boundary", {BlockOf(left)},
                                   Compare(BlockSize, "GE", OffsetOf(left)))
  <2>1. \A x \in Bucket : Covers(full, x) <=> BlockOf(x) > BlockOf(left)
    BY <1>1, BlockLeafCovers, CompareCorrect, Numbers
  <2>2. \A x \in Bucket : Covers(boundary, x)
          <=> BlockOf(x) = BlockOf(left) /\ OffsetOf(x) >= OffsetOf(left)
    BY BlockLeafCovers, CompareCorrect, Numbers
  <2> HIDE DEF full, boundary
  <2>3. Disjoint({full, boundary}) /\ Selects({full, boundary}, left, Last)
    BY <2>1, <2>2, From
  <2> QED
    BY <1>3, <2>3 DEF BOFSSLeaves, full, boundary
<1> QED
  BY <1>2, <1>3

\* What to show of leaves that are emitted under conditions.
LEMMA OptionalLeaves ==
  ASSUME NEW a, NEW b, NEW c, NEW p \in BOOLEAN, NEW q \in BOOLEAN, NEW r \in BOOLEAN,
         NEW left, NEW right,
         \A x \in Bucket : /\ ~(p /\ q /\ Covers(a, x) /\ Covers(b, x))
                           /\ ~(p /\ r /\ Covers(a, x) /\ Covers(c, x))
                           /\ ~(q /\ r /\ Covers(b, x) /\ Covers(c, x)),
         \A x \in Bucket :
            (p /\ Covers(a, x)) \/ (q /\ Covers(b, x)) \/ (r /\ Covers(c, x))
              <=> left <= x /\ x <= right
  PROVE  /\ Disjoint(When(p, a) \cup When(q, b) \cup When(r, c))
         /\ Selects(When(p, a) \cup When(q, b) \cup When(r, c), left, right)
<1> DEFINE ls == When(p, a) \cup When(q, b) \cup When(r, c)
<1>1. \A leaf : leaf \in ls <=> \/ p /\ leaf = a
                                \/ q /\ leaf = b
                                \/ r /\ leaf = c
  BY DEF When
<1> HIDE DEF ls
<1>2. Disjoint(ls)
  BY <1>1 DEF Disjoint
<1>3. Selects(ls, left, right)
  BY <1>1 DEF Selects
<1> QED
  BY <1>2, <1>3 DEF ls

\* The general interval: at most two partly covered blocks and the full ones
\* between them.
LEMMA BOIntervalCorrect ==
  ASSUME NEW left \in Bucket, NEW right \in Bucket, left <= right
  PROVE  /\ Disjoint(BOInterval(left, right))
         /\ Selects(BOInterval(left, right), left, right)
<1> DEFINE bL == BlockOf(left)   oL == OffsetOf(left)
           bR == BlockOf(right)  oR == OffsetOf(right)
<1>1. ASSUME NEW x \in Bucket
      PROVE  /\ left <= x <=> bL < BlockOf(x) \/ (bL = BlockOf(x) /\ oL <= OffsetOf(x))
             /\ x <= right <=> BlockOf(x) < bR \/ (BlockOf(x) = bR /\ OffsetOf(x) <= oR)
  BY Lexicographic
<1>2. bL < bR \/ (bL = bR /\ oL <= oR)
  BY Lexicographic
<1>3. CASE bL = bR
  <2>1. ASSUME NEW x \in Bucket
        PROVE  Covers(BlockLeaf("inside", {bL}, oL .. oR), x) <=> left <= x /\ x <= right
    BY SMTT(30), <1>1, <1>3, BlockLeafCovers, Numbers
  <2> QED
    BY <1>3, <2>1, OneLeaf DEF BOInterval
<1>4. CASE bL # bR
  <2> DEFINE midL   == bL + (IF oL > 0 THEN 1 ELSE 0)
             midR   == bR - (IF oR + 1 < BlockSize THEN 1 ELSE 0)
             low    == BlockLeaf("low", {bL}, oL .. BlockSize - 1)
             high   == BlockLeaf("high", {bR}, 0 .. oR)
             middle == BlockLeaf("middle", midL .. midR, OffsetIndex)
             hasLow  == oL > 0
             hasHigh == oR + 1 < BlockSize
             hasMid  == midL <= midR
  <2>1. \A x \in Bucket : Covers(low, x) <=> BlockOf(x) = bL /\ OffsetOf(x) >= oL
    BY LowEnd
  <2>2. \A x \in Bucket : Covers(high, x) <=> BlockOf(x) = bR /\ OffsetOf(x) <= oR
    BY HighEnd
  <2>3. ASSUME NEW x \in Bucket
        PROVE  Covers(middle, x) <=> midL <= BlockOf(x) /\ BlockOf(x) <= midR
    <3>1. midL \in Int /\ midR \in Int
      BY Numbers
    <3> HIDE DEF midL, midR
    <3> QED
      BY <3>1, WholeBlocks
  <2>4. bL < bR
    BY <1>2, <1>4
  <2> HIDE DEF low, high, middle
  <2>5. ASSUME NEW x \in Bucket
        PROVE  /\ ~(hasLow /\ hasHigh /\ Covers(low, x) /\ Covers(high, x))
               /\ ~(hasLow /\ hasMid /\ Covers(low, x) /\ Covers(middle, x))
               /\ ~(hasHigh /\ hasMid /\ Covers(high, x) /\ Covers(middle, x))
    BY <2>1, <2>2, <2>3, <2>4, Numbers
  <2>6. ASSUME NEW x \in Bucket
        PROVE  \/ hasLow /\ Covers(low, x)
               \/ hasHigh /\ Covers(high, x)
               \/ hasMid /\ Covers(middle, x)
               <=> left <= x /\ x <= right
    BY <1>1, <2>1, <2>2, <2>3, <2>4, Numbers
  <2>7. hasLow \in BOOLEAN /\ hasHigh \in BOOLEAN /\ hasMid \in BOOLEAN
    OBVIOUS
  <2>8. BOInterval(left, right) = When(hasLow, low) \cup When(hasHigh, high) \cup When(hasMid, middle)
    BY <1>4 DEF BOInterval, low, high, middle
  <2> HIDE DEF hasLow, hasHigh, hasMid
  <2>9. /\ Disjoint(When(hasLow, low) \cup When(hasHigh, high) \cup When(hasMid, middle))
        /\ Selects(When(hasLow, low) \cup When(hasHigh, high) \cup When(hasMid, middle), left, right)
    BY <2>5, <2>6, <2>7, OptionalLeaves
  <2> QED
    BY <2>8, <2>9
<1> QED
  BY <1>3, <1>4

\* Query vectors for blocks and offsets: the ends of the column are special
\* cases that leave out an empty run of full blocks.
LEMMA BOLeavesCorrect ==
  ASSUME NEW left \in Bucket, NEW right \in Bucket, left <= right
  PROVE  /\ Disjoint(BOLeaves(left, right))
         /\ Selects(BOLeaves(left, right), left, right)
<1>1. CASE left = 0 /\ right < Last
  <2> DEFINE full     == BlockLeaf("full", 0 .. BlockOf(right) - 1, OffsetIndex)
             boundary == BlockLeaf("boundary", {BlockOf(right)}, 0 .. OffsetOf(right))
  <2>1. \A x \in Bucket : Covers(full, x) <=> BlockOf(x) < BlockOf(right)
    <3>1. BlockOf(right) - 1 \in Int
      BY Numbers
    <3>2. \A x \in Bucket : Covers(full, x) <=> 0 <= BlockOf(x) /\ BlockOf(x) <= BlockOf(right) - 1
      BY <3>1, WholeBlocks
    <3> QED
      BY <3>2, Numbers
  <2>2. \A x \in Bucket : Covers(boundary, x)
          <=> BlockOf(x) = BlockOf(right) /\ OffsetOf(x) <= OffsetOf(right)
    BY HighEnd
  <2>3. BOLeaves(left, right) = When(BlockOf(right) > 0, full) \cup {boundary}
    BY <1>1 DEF BOLeaves
  <2> HIDE DEF full, boundary
  <2>4. Disjoint({full, boundary}) /\ Selects({full, boundary}, 0, right)
    BY <2>1, <2>2, UpTo
  <2>5. CASE BlockOf(right) > 0
    <3>1. BOLeaves(left, right) = {full, boundary}
      BY <2>3, <2>5 DEF When
    <3> QED
      BY <1>1, <2>4, <3>1
  <2>6. CASE ~(BlockOf(right) > 0)
    <3>1. BOLeaves(left, right) = {boundary}
      BY <2>3, <2>6 DEF When
    <3>2. \A x \in Bucket : ~Covers(full, x)
      BY <2>1, <2>6, Numbers
    <3>3. \A x \in Bucket : Covers(boundary, x) <=> 0 <= x /\ x <= right
      BY <2>4, <3>2 DEF Selects
    <3> QED
      BY <1>1, <3>1, <3>3, OneLeaf
  <2> QED
    BY <2>5, <2>6
<1>2. CASE right = Last /\ left > 0
  <2> DEFINE full     == BlockLeaf("full", BlockOf(left) + 1 .. BlockNum - 1, OffsetIndex)
             boundary == BlockLeaf("boundary", {BlockOf(left)}, OffsetOf(left) .. BlockSize - 1)
  <2>1. \A x \in Bucket : Covers(full, x) <=> BlockOf(x) > BlockOf(left)
    <3>1. BlockOf(left) + 1 \in Int /\ BlockNum - 1 \in Int
      BY Numbers
    <3>2. \A x \in Bucket : Covers(full, x)
                              <=> BlockOf(left) + 1 <= BlockOf(x) /\ BlockOf(x) <= BlockNum - 1
      BY <3>1, WholeBlocks
    <3> QED
      BY SMTT(30), <3>2, Numbers
  <2>2. \A x \in Bucket : Covers(boundary, x)
          <=> BlockOf(x) = BlockOf(left) /\ OffsetOf(x) >= OffsetOf(left)
    BY LowEnd
  <2>3. BOLeaves(left, right) = When(BlockOf(left) + 1 < BlockNum, full) \cup {boundary}
    <3>1. ~(left = 0 /\ right < Last)
      BY <1>2, Numbers
    <3> QED
      BY <1>2, <3>1 DEF BOLeaves
  <2> HIDE DEF full, boundary
  <2>4. Disjoint({full, boundary}) /\ Selects({full, boundary}, left, Last)
    BY <2>1, <2>2, From
  <2>5. CASE BlockOf(left) + 1 < BlockNum
    <3>1. BOLeaves(left, right) = {full, boundary}
      BY <2>3, <2>5 DEF When
    <3> QED
      BY <1>2, <2>4, <3>1
  <2>6. CASE ~(BlockOf(left) + 1 < BlockNum)
    <3>1. BOLeaves(left, right) = {boundary}
      BY <2>3, <2>6 DEF When
    <3>2. \A x \in Bucket : ~Covers(full, x)
      BY <2>1, <2>6, Numbers
    <3>3. \A x \in Bucket : Covers(boundary, x) <=> left <= x /\ x <= Last
      BY <2>4, <3>2 DEF Selects
    <3> QED
      BY <1>2, <3>1, <3>3, OneLeaf
  <2> QED
    BY <2>5, <2>6
<1>3. CASE ~(left = 0 /\ right < Last) /\ ~(right = Last /\ left > 0)
  BY <1>3, BOIntervalCorrect DEF BOLeaves
<1> QED
  BY <1>1, <1>2, <1>3

\* Whatever predicate the client accepts, of any kind.
LEMMA LeavesCorrect ==
  ASSUME NEW kind \in Kind, NEW isPoint \in BOOLEAN,
         NEW left \in Bucket, NEW right \in Bucket,
         isPoint => left = right,
         ~isPoint /\ kind # "bo" => left = 0 \/ right = Last,
         ~isPoint /\ kind = "bo" => left <= right
  PROVE  /\ Disjoint(Leaves(kind, isPoint, left, right))
         /\ Selects(Leaves(kind, isPoint, left, right), left, right)
<1>1. CASE isPoint
  BY <1>1, PointLeavesCorrect DEF Leaves
<1>2. CASE ~isPoint /\ kind = "vb"
  BY <1>2, VBLeavesCorrect DEF Leaves, RangeLeaves
<1>3. CASE ~isPoint /\ kind = "vbfss"
  BY <1>3, VBFSSLeavesCorrect DEF Leaves, RangeLeaves
<1>4. CASE ~isPoint /\ kind = "bo"
  BY <1>4, BOLeavesCorrect DEF Leaves, RangeLeaves
<1>5. CASE ~isPoint /\ kind = "bofss"
  BY <1>5, BOFSSLeavesCorrect DEF Leaves, RangeLeaves
<1> QED
  BY <1>1, <1>2, <1>3, <1>4, <1>5 DEF Kind

-----------------------------------------------------------------------------
(* Every entry that the client writes exists.                              *)

NonEmpty(leaf) == leaf.blocks # {} /\ leaf.offsets # {}

LEMMA InsideBlockLeaf ==
  ASSUME NEW part, NEW blocks, NEW offsets,
         \A b \in blocks : b \in BlockIndex,
         \A o \in offsets : o \in OffsetIndex
  PROVE  Inside(BlockLeaf(part, blocks, offsets))
  BY DEF Inside, BlockLeaf, OffsetIndex

LEMMA InsideFlatLeaf ==
  ASSUME NEW first \in Nat, NEW last \in Nat, last <= NumBuckets - 1
  PROVE  Inside(FlatLeaf(first .. last))
<1>1. NumBuckets \in Nat \ {0} /\ BlockNum \in Nat \ {0}
  BY LayoutAssumption DEF NumBuckets
<1>2. first .. last \subseteq 0 .. NumBuckets - 1
  BY <1>1
<1>3. {0} \subseteq BlockIndex
  BY <1>1 DEF BlockIndex
<1> QED
  BY <1>2, <1>3 DEF Inside, FlatLeaf

\* The part of a block that an interval covers.
LEMMA InsidePart ==
  ASSUME NEW part, NEW b \in BlockIndex, NEW first \in Nat, NEW last \in Nat,
         last <= BlockSize - 1
  PROVE  /\ Inside(BlockLeaf(part, {b}, first .. last))
         /\ first <= last => NonEmpty(BlockLeaf(part, {b}, first .. last))
<1>1. \A o \in first .. last : o \in OffsetIndex
  BY LayoutAssumption DEF OffsetIndex
<1>2. Inside(BlockLeaf(part, {b}, first .. last))
  BY <1>1, InsideBlockLeaf
<1>3. first <= last => first \in first .. last
  OBVIOUS
<1> QED
  BY <1>2, <1>3 DEF NonEmpty, BlockLeaf

\* A run of whole blocks.
LEMMA InsideRun ==
  ASSUME NEW part, NEW first \in Nat, NEW last \in Int, last <= BlockNum - 1
  PROVE  /\ Inside(BlockLeaf(part, first .. last, OffsetIndex))
         /\ first <= last => NonEmpty(BlockLeaf(part, first .. last, OffsetIndex))
<1>1. \A b \in first .. last : b \in BlockIndex
  BY LayoutAssumption DEF BlockIndex
<1>2. Inside(BlockLeaf(part, first .. last, OffsetIndex))
  BY <1>1, InsideBlockLeaf
<1>3. first <= last => first \in first .. last
  OBVIOUS
<1>4. 0 \in OffsetIndex
  BY LayoutAssumption DEF OffsetIndex
<1> QED
  BY <1>2, <1>3, <1>4 DEF NonEmpty, BlockLeaf

LEMMA InsideCompare ==
  ASSUME NEW part, NEW op \in {"LT", "GT"}, NEW t \in Nat, NEW offsets,
         offsets \subseteq OffsetIndex
  PROVE  Inside(BlockLeaf(part, Compare(BlockNum, op, t), offsets))
<1>1. \A b \in Compare(BlockNum, op, t) : b \in BlockIndex
  BY CompareInside, LayoutAssumption DEF BlockIndex
<1> QED
  BY <1>1, InsideBlockLeaf

LEMMA BOIntervalInside ==
  ASSUME NEW left \in Bucket, NEW right \in Bucket, left <= right
  PROVE  \A leaf \in BOInterval(left, right) : Inside(leaf) /\ NonEmpty(leaf)
<1> DEFINE bL == BlockOf(left)   oL == OffsetOf(left)
           bR == BlockOf(right)  oR == OffsetOf(right)
           midL == bL + (IF oL > 0 THEN 1 ELSE 0)
           midR == bR - (IF oR + 1 < BlockSize THEN 1 ELSE 0)
<1>1. /\ bL \in BlockIndex /\ bR \in BlockIndex
      /\ oL \in Nat /\ oR \in Nat /\ oL <= BlockSize - 1 /\ oR <= BlockSize - 1
      /\ BlockSize - 1 \in Nat /\ 0 \in Nat
      /\ midL \in Nat /\ midR \in Int /\ midR <= BlockNum - 1
      /\ 0 <= oR
  BY Numbers DEF BlockIndex
<1>2. bL = bR => oL <= oR
  BY Lexicographic, Numbers
<1>3. /\ bL = bR => /\ Inside(BlockLeaf("inside", {bL}, oL .. oR))
                    /\ NonEmpty(BlockLeaf("inside", {bL}, oL .. oR))
      /\ Inside(BlockLeaf("low", {bL}, oL .. BlockSize - 1))
      /\ NonEmpty(BlockLeaf("low", {bL}, oL .. BlockSize - 1))
      /\ Inside(BlockLeaf("high", {bR}, 0 .. oR))
      /\ NonEmpty(BlockLeaf("high", {bR}, 0 .. oR))
  <2> HIDE DEF bL, oL, bR, oR
  <2> QED
    BY <1>1, <1>2, InsidePart
<1>4. midL <= midR => /\ Inside(BlockLeaf("middle", midL .. midR, OffsetIndex))
                      /\ NonEmpty(BlockLeaf("middle", midL .. midR, OffsetIndex))
  <2> HIDE DEF midL, midR
  <2> QED
    BY <1>1, InsideRun
<1>5. CASE bL = bR
  BY <1>3, <1>5 DEF BOInterval
<1>6. CASE bL # bR
  BY <1>3, <1>4, <1>6 DEF BOInterval, When
<1> QED
  BY <1>5, <1>6

LEMMA BOLeavesInside ==
  ASSUME NEW left \in Bucket, NEW right \in Bucket, left <= right
  PROVE  \A leaf \in BOLeaves(left, right) : Inside(leaf) /\ NonEmpty(leaf)
<1> DEFINE bL == BlockOf(left)   oL == OffsetOf(left)
           bR == BlockOf(right)  oR == OffsetOf(right)
<1>1. /\ bL \in BlockIndex /\ bR \in BlockIndex
      /\ oL \in Nat /\ oR \in Nat /\ oL <= BlockSize - 1 /\ oR <= BlockSize - 1
      /\ BlockSize - 1 \in Nat /\ 0 \in Nat /\ 0 <= oR
      /\ bL + 1 \in Nat /\ bR - 1 \in Int /\ bR - 1 <= BlockNum - 1
      /\ BlockNum - 1 \in Int /\ BlockNum - 1 <= BlockNum - 1
      /\ bR > 0 => 0 <= bR - 1
      /\ bL + 1 < BlockNum => bL + 1 <= BlockNum - 1
  BY Numbers DEF BlockIndex
<1>2. /\ Inside(BlockLeaf("boundary", {bL}, oL .. BlockSize - 1))
      /\ NonEmpty(BlockLeaf("boundary", {bL}, oL .. BlockSize - 1))
      /\ Inside(BlockLeaf("boundary", {bR}, 0 .. oR))
      /\ NonEmpty(BlockLeaf("boundary", {bR}, 0 .. oR))
  <2> HIDE DEF bL, oL, bR, oR
  <2> QED
    BY <1>1, InsidePart
<1>3. /\ bR > 0 => /\ Inside(BlockLeaf("full", 0 .. bR - 1, OffsetIndex))
                   /\ NonEmpty(BlockLeaf("full", 0 .. bR - 1, OffsetIndex))
      /\ bL + 1 < BlockNum =>
           /\ Inside(BlockLeaf("full", bL + 1 .. BlockNum - 1, OffsetIndex))
           /\ NonEmpty(BlockLeaf("full", bL + 1 .. BlockNum - 1, OffsetIndex))
  <2> HIDE DEF bL, oL, bR, oR
  <2> QED
    BY <1>1, InsideRun
<1>4. CASE left = 0 /\ right < Last
  BY <1>2, <1>3, <1>4 DEF BOLeaves, When
<1>5. CASE ~(left = 0 /\ right < Last) /\ right = Last /\ left > 0
  BY <1>2, <1>3, <1>5 DEF BOLeaves, When
<1>6. CASE ~(left = 0 /\ right < Last) /\ ~(right = Last /\ left > 0)
  BY <1>6, BOIntervalInside DEF BOLeaves
<1> QED
  BY <1>4, <1>5, <1>6

LEMMA VBFSSLeavesInside ==
  ASSUME NEW left \in Bucket, NEW right \in Bucket
  PROVE  \A leaf \in VBFSSLeaves(left, right) \cup BOFSSLeaves(left, right) : Inside(leaf)
<1> DEFINE bL == BlockOf(left)   oL == OffsetOf(left)
           bR == BlockOf(right)  oR == OffsetOf(right)
<1>1. /\ bL \in BlockIndex /\ bR \in BlockIndex /\ bL \in Nat /\ bR \in Nat
      /\ oL \in Nat /\ oR \in Nat /\ oL <= BlockSize - 1 /\ oR <= BlockSize - 1
      /\ BlockSize - 1 \in Nat /\ 0 \in Nat /\ BlockSize \in Nat \ {0}
      /\ OffsetIndex = 0 .. BlockSize - 1
  BY Numbers DEF BlockIndex, OffsetIndex
<1>2. /\ Compare(BlockSize, "GE", 0) \subseteq OffsetIndex
      /\ Compare(BlockSize, "GE", oL) \subseteq OffsetIndex
      /\ Compare(BlockSize, "LE", oR) \subseteq OffsetIndex
  BY <1>1, CompareInside
<1> HIDE DEF bL, oL, bR, oR
<1>3. /\ Inside(BlockLeaf("boundary", {bL}, oL .. BlockSize - 1))
      /\ Inside(BlockLeaf("boundary", {bR}, 0 .. oR))
  BY <1>1, InsidePart
<1>4. /\ Inside(BlockLeaf("boundary", {bL}, Compare(BlockSize, "GE", oL)))
      /\ Inside(BlockLeaf("boundary", {bR}, Compare(BlockSize, "LE", oR)))
  BY <1>1, <1>2, InsideBlockLeaf
<1>5. /\ Inside(BlockLeaf("full", Compare(BlockNum, "LT", bR), OffsetIndex))
      /\ Inside(BlockLeaf("full", Compare(BlockNum, "GT", bL), OffsetIndex))
      /\ Inside(BlockLeaf("full", Compare(BlockNum, "LT", bR), Compare(BlockSize, "GE", 0)))
      /\ Inside(BlockLeaf("full", Compare(BlockNum, "GT", bL), Compare(BlockSize, "GE", 0)))
  BY <1>1, <1>2, InsideCompare
<1> QED
  BY <1>3, <1>4, <1>5 DEF VBFSSLeaves, BOFSSLeaves, bL, oL, bR, oR

LEMMA PointAndVBInside ==
  ASSUME NEW kind, NEW left \in Bucket, NEW right \in Bucket
  PROVE  /\ \A leaf \in VBLeaves(left, right) : Inside(leaf)
         /\ \A leaf \in PointLeaves(kind, left) : /\ Inside(leaf)
                                                  /\ kind = "bo" => NonEmpty(leaf)
<1>1. /\ left \in Nat /\ right \in Nat /\ left <= NumBuckets - 1 /\ right <= NumBuckets - 1
      /\ NumBuckets - 1 \in Nat /\ 0 \in Nat /\ NumBuckets - 1 <= NumBuckets - 1
  BY Numbers
<1>2a. Inside(FlatLeaf(0 .. right))
  BY <1>1, InsideFlatLeaf
<1>2b. Inside(FlatLeaf(left .. NumBuckets - 1))
  BY <1>1, InsideFlatLeaf
<1>2. Inside(FlatLeaf(left .. left))
  BY <1>1, InsideFlatLeaf
<1>3. left .. left = {left}
  BY <1>1
<1>4. OffsetOf(left) .. OffsetOf(left) = {OffsetOf(left)}
  BY Numbers
<1>5. /\ BlockOf(left) \in BlockIndex /\ OffsetOf(left) \in Nat
      /\ OffsetOf(left) <= BlockSize - 1 /\ OffsetOf(left) <= OffsetOf(left)
  BY Numbers DEF BlockIndex
<1>6. /\ Inside(BlockLeaf("point", {BlockOf(left)}, OffsetOf(left) .. OffsetOf(left)))
      /\ NonEmpty(BlockLeaf("point", {BlockOf(left)}, OffsetOf(left) .. OffsetOf(left)))
  BY <1>5, InsidePart
<1> QED
  BY <1>2, <1>2a, <1>2b, <1>3, <1>4, <1>6 DEF VBLeaves, PointLeaves

LEMMA LeavesInside ==
  ASSUME NEW kind \in Kind, NEW isPoint \in BOOLEAN,
         NEW left \in Bucket, NEW right \in Bucket,
         ~isPoint /\ kind = "bo" => left <= right
  PROVE  \A leaf \in Leaves(kind, isPoint, left, right) :
           Inside(leaf) /\ (kind = "bo" => NonEmpty(leaf))
<1>1. CASE isPoint
  BY <1>1, PointAndVBInside DEF Leaves
<1>2. CASE ~isPoint /\ kind = "vb"
  BY <1>2, PointAndVBInside DEF Leaves, RangeLeaves
<1>3. CASE ~isPoint /\ kind \in {"vbfss", "bofss"}
  BY <1>3, VBFSSLeavesInside DEF Leaves, RangeLeaves
<1>4. CASE ~isPoint /\ kind = "bo"
  BY <1>4, BOLeavesInside DEF Leaves, RangeLeaves
<1> QED
  BY <1>1, <1>2, <1>3, <1>4 DEF Kind

-----------------------------------------------------------------------------
(* The client's loop over the predicates.                                  *)

\* Inductive as it stands: each predicate is broken up on its own.
BuilderInv == TypeOK /\ LeavesDisjoint /\ LeavesExact /\ WritesInside

LEMMA InitBuilder == Init => BuilderInv
  BY RequestsAssumption DEF Init, BuilderInv, TypeOK, LeavesDisjoint, LeavesExact, WritesInside, Request, Status

LEMMA NextBuilder == BuilderInv /\ [Next]_vars => BuilderInv'
<1> SUFFICES ASSUME BuilderInv, [Next]_vars
             PROVE  BuilderInv'
  OBVIOUS
<1> USE DEF BuilderInv
<1>1. CASE Emit
  <2>1. /\ request \in Request /\ request' = request /\ status' = status
        /\ leaves \in Seq(LeafSet)
        /\ Predicate = Len(leaves) + 1 /\ Predicate \in DOMAIN request.bounds
    BY <1>1, RequestsAssumption DEF Emit, Building, Predicate, TypeOK, Request
  <2>2. /\ request.kind \in Kind /\ request.isPoint \in BOOLEAN
        /\ request.bounds[Predicate] \in Nat \X Nat
    BY <2>1 DEF Request
  <2>3. /\ Left \in Bucket /\ Right \in Bucket
        /\ request.isPoint => Left = Right
        /\ ~request.isPoint /\ request.kind # "bo" => Left = 0 \/ Right = Last
        /\ ~request.isPoint /\ request.kind = "bo" => Left <= Right
    <3>1. request.isPoint => Left = Right
      BY <2>1, RequestsAssumption DEF TypeOK, Left, Right
    <3>2. Left \in Nat /\ Right \in Nat
      BY <2>2 DEF Left, Right
    <3>3. NumBuckets \in Nat
      BY LayoutAssumption DEF NumBuckets
    <3> QED
      BY <1>1, <2>2, <3>1, <3>2, <3>3 DEF Emit, Supported, Bucket, Last, Kind
  <2> DEFINE new == Leaves(request.kind, request.isPoint, Left, Right)
  <2>4. /\ new \in LeafSet /\ Disjoint(new) /\ Selects(new, Left, Right)
        /\ \A leaf \in new : Inside(leaf) /\ (request.kind = "bo" => NonEmpty(leaf))
    BY <2>2, <2>3, LeavesCorrect, LeavesInside DEF LeafSet
  <2>5. leaves' = Append(leaves, new)
    BY <1>1 DEF Emit
  <2> HIDE DEF new
  <2>6. /\ leaves' \in Seq(LeafSet)
        /\ Len(leaves') = Len(leaves) + 1
        /\ \A p \in DOMAIN leaves' :
             \/ p \in DOMAIN leaves /\ leaves'[p] = leaves[p]
             \/ p = Predicate /\ leaves'[p] = new
    BY <2>1, <2>4, <2>5
  <2>7. TypeOK'
    BY <1>1, <2>1, <2>6 DEF TypeOK, Emit, Building
  <2>8. LeavesDisjoint'
    BY <2>4, <2>6 DEF LeavesDisjoint
  <2>9. LeavesExact'
    BY <2>1, <2>4, <2>6 DEF LeavesExact, Left, Right
  <2>10. WritesInside'
    BY <2>1, <2>4, <2>6 DEF WritesInside, NonEmpty
  <2> QED
    BY <2>7, <2>8, <2>9, <2>10
<1>2. CASE Throw
  BY <1>2 DEF Throw, TypeOK, Status, LeavesDisjoint, LeavesExact, WritesInside
<1>3. CASE Send
  BY <1>3 DEF Send, TypeOK, Status, LeavesDisjoint, LeavesExact, WritesInside
<1>4. CASE Ended
  BY <1>4 DEF Ended, vars, TypeOK, LeavesDisjoint, LeavesExact, WritesInside
<1>5. CASE UNCHANGED vars
  BY <1>5 DEF vars, TypeOK, LeavesDisjoint, LeavesExact, WritesInside
<1> QED
  BY <1>1, <1>2, <1>3, <1>4, <1>5 DEF Next

\* The leaves of every predicate of every query exclude each other, for any
\* layout of the column.
THEOREM AlwaysDisjoint == Spec => []LeavesDisjoint
<1>1. BuilderInv => LeavesDisjoint
  BY DEF BuilderInv
<1> QED
  BY <1>1, InitBuilder, NextBuilder, PTL DEF Spec

\* And they select exactly the buckets between the predicate's boundaries.
THEOREM AlwaysExact == Spec => []LeavesExact
<1>1. BuilderInv => LeavesExact
  BY DEF BuilderInv
<1> QED
  BY <1>1, InitBuilder, NextBuilder, PTL DEF Spec

\* No vector is written outside of its bounds, and no loop over the entries
\* runs from an index to a smaller one.
THEOREM AlwaysInside == Spec => []WritesInside
<1>1. BuilderInv => WritesInside
  BY DEF BuilderInv
<1> QED
  BY <1>1, InitBuilder, NextBuilder, PTL DEF Spec

\* The builder's types, and: a query that is sent has all its predicates.
THEOREM BuilderTyped == Spec => []TypeOK
<1>1. BuilderInv => TypeOK
  BY DEF BuilderInv
<1> QED
  BY <1>1, InitBuilder, NextBuilder, PTL DEF Spec

=============================================================================
