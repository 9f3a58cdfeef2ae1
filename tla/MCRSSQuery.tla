------------------------------ MODULE MCRSSQuery ------------------------------
(***************************************************************************)
(* Instances of a query for TLC.  Words have 3 bits and the group 2, so    *)
(* that sums of shares wrap in both.  A request is a shape (how many       *)
(* predicates, with which truth values of their leaves at the row) and the *)
(* seed of the client's randomness; the pseudo-random functions are small  *)
(* polynomials without symmetry between servers, pairs and buckets.        *)
(***************************************************************************)
EXTENDS RSSQuery

Part(name) ==
  CASE name = "value" -> 1 [] name = "onehot" -> 2
    [] name = "block" -> 3 [] name = "offset" -> 5

MCRand(seed, tag) ==
  LET at(i) == IF i <= Len(tag) THEN tag[i] ELSE 0
      code == Part(tag[1]) + 5 * at(2) + 7 * at(3) + 11 * at(4) + 2 * at(5)
  IN  (seed * (code + 3) * (code + 3) + (code \div 3) + code) % Word

MCPrf(key, input) == (key * key * 3 + 5 * input + key * input * (input + 1) + 1) % Word

Bits == {0, 1}

\* Predicates are conditions of one vector, or the leaves of RangeLeaves on a
\* column of four blocks of two buckets, as they evaluate at some bucket.
Layout == INSTANCE RangeLeaves WITH BlockNum <- 4, BlockSize <- 2

Bit(cond) == IF cond THEN 1 ELSE 0

AtBucket(kind, leaf, x) ==
  IF kind = "vbfss" THEN <<Bit(Layout!Covers(leaf, x))>>
  ELSE <<Bit(Layout!BlockOf(x) \in leaf.blocks), Bit(Layout!OffsetOf(x) \in leaf.offsets)>>

Conditions == {<<<<b>>>> : b \in Bits}
Point(kind) ==
  {<<AtBucket(kind, leaf, x)>> : leaf \in Layout!PointLeaves(kind, 3), x \in Layout!Bucket}
Interval(kind, left, right) ==
  LET ls == SetToSeq(Layout!RangeLeaves(kind, left, right))
  IN  {[l \in DOMAIN ls |-> AtBucket(kind, ls[l], x)] : x \in Layout!Bucket}

Holds(pred) == \E l \in DOMAIN pred : \A i \in DOMAIN pred[l] : pred[l][i] = 1

\* The second half of each pair is generated later than the first.
SameSecond == [j \in 0 .. 2 |-> 1]

\* Servers of one build have equal PRF keys, since nothing seeds the rand() that
\* the first seed comes from.  The coefficients of the MAC check are right only
\* then; otherwise the keys are different, as they are meant to be.
Request(kind, isAnd, preds, seed, clock, row) ==
  [kind |-> kind, isAnd |-> isAnd, preds |-> preds, value |-> 3, seed |-> seed,
   clock |-> clock, row |-> row, prfKey |-> [s \in 0 .. 2 |-> s + seed], alpha |-> 0]

WithMACs(requests) ==
  {[r EXCEPT !.alpha = 3, !.row = row, !.prfKey = [s \in 0 .. 2 |-> 2]] :
     r \in requests, row \in {0, 3}}

Tuples(S, n) == [1 .. n -> S]

Ask(kind, isAnd, predSets) ==
  {Request(kind, isAnd, preds, 1, SameSecond, 0) : preds \in predSets}

\* AggQuery repeats one condition.
Repeated(n) == {[i \in 1 .. n |-> c] : c \in Conditions}

\* OR is asked for predicates that exclude each other.
AtMostOne(predSets) ==
  {preds \in predSets : Cardinality({p \in DOMAIN preds : Holds(preds[p])}) <= 1}

\* x <= 4 and x >= 3; blocks and offsets also have 1 <= x <= 6, of three leaves.
Pairs(kind) == {<<a, b>> : a \in Interval(kind, 0, 4), b \in Interval(kind, 3, 7)}
Three == Tuples(Interval("bo", 1, 6), 1)

MCRequests ==
  Ask("vb", TRUE, Tuples(Conditions, 1) \cup Tuples(Conditions, 2) \cup Tuples(Conditions, 3))
    \cup Ask("filter", TRUE, Repeated(1) \cup Repeated(3))
    \cup UNION {Ask(kind, TRUE, Tuples(Point(kind), 1) \cup Pairs(kind)) :
                  kind \in {"vbfss", "bo", "bofss"}}
    \cup UNION {Ask(kind, FALSE, AtMostOne(Pairs(kind))) : kind \in {"vbfss", "bo", "bofss"}}
    \cup Ask("bo", TRUE, Three)
    \cup WithMACs(Ask("filter", TRUE, Repeated(1) \cup Repeated(3))
                    \cup Ask("filter", FALSE, AtMostOne(Repeated(2))))

\* Two predicates that both select the row, combined with OR.
MCOverlapRequests ==
  {Request("filter", FALSE, <<<<<<1>>>>, <<<<1>>>>>>, 1, SameSecond, 0)}

\* One condition; the time changes before the last pair of keys is generated.
MCTickRequests ==
  {Request("vbfss", TRUE, <<c>>, 1, [SameSecond EXCEPT ![2] = 2], 0) : c \in Conditions}

\* The queries of the exact run are those that the theorems about exact
\* results speak of; those of the other runs are not.
ASSUME RequestsAnswerable ==
  /\ \A q \in MCRequests : Answerable(q)
  /\ \A q \in MCOverlapRequests \cup MCTickRequests : ~Answerable(q)

\* All of them are requests that the theorem about types speaks of.
ASSUME RequestsTyped ==
  \A q \in MCRequests \cup MCOverlapRequests \cup MCTickRequests :
    /\ q.alpha # 0 => q.kind = "filter"
    /\ \A s \in 0 .. 2, input \in 0 .. 200 : MCPrf(q.prfKey[s], input) \in Words

=============================================================================
