------------------------------ MODULE QueryPlans ------------------------------
(***************************************************************************)
(* What each query handler of a server computes after the dot products, as *)
(* a straight-line program over shared vectors.  The five handlers         *)
(*                                                                         *)
(*   "filter"  EvalFilter        DPF and DCF filters (AggFilterQuery)      *)
(*   "vb"      VBEvalFilter      one-hot query vectors                     *)
(*   "vbfss"   VBFSSAggFilterQuery, vector DPF and DCF keys                *)
(*   "bo"      BOEvalFilter      block and offset query vectors            *)
(*   "bofss"   BOFSSEvalFilter   block and offset DPF and DCF keys         *)
(*                                                                         *)
(* differ in which vectors they reshare together, where they fill rows of  *)
(* zero shares, which rows they use, and how they combine leaves and       *)
(* predicates.  A query is described by the number of leaves of each of    *)
(* its predicates.                                                         *)
(***************************************************************************)
EXTENDS Integers, SequencesExt

\* The vectors of a handler, named <<name, predicate, leaf>>.
Block(p, l)  == <<"block", p, l>>
Offset(p, l) == <<"offset", p, l>>
Leaf(p, l)   == <<"leaf", p, l>>
Pred(p)      == <<"pred", p, 1>>

\* RSSReshare: one exchange for all the vectors in regs.
Reshare(regs) == [op |-> "reshare", regs |-> regs]

\* rows rows of zero shares; the first has index first in the PRF numbering.
\* The PRF counter then moves by rows rows.
Fill(first, rows) == [op |-> "fill", first |-> first, rows |-> rows]

\* AndFilters or OrFilters: one exchange, masked by row of the last Fill.
Combine(op, x, y, dst, row) ==
  [op |-> op, x |-> x, y |-> y, dst |-> dst, row |-> row]

Exchanges == {"reshare", "and", "or"}

\* The first vector accumulates the others, one combination after the other.
Accumulate(op, regs, row) ==
  [i \in 1 .. Len(regs) - 1 |->
     Combine(op, regs[1], regs[i + 1], regs[1], row + i - 1)]

Operator(isAnd) == IF isAnd THEN "and" ELSE "or"

\* VBEvalFilter and VBFSSAggFilterQuery leave out row 0, which the first
\* predicate would have; EvalFilter fills it and does not use it.
VBPlan(preds, op) ==
  LET n == Len(preds) IN
  <<Reshare(preds)>>
    \o IF n = 1 THEN <<>> ELSE <<Fill(1, n - 1)>> \o Accumulate(op, preds, 1)

EvalFilterPlan(preds, op) ==
  <<Reshare(preds), Fill(0, Len(preds))>> \o Accumulate(op, preds, 1)

\* BOEvalFilter and BOFSSEvalFilter number the rows of each Fill from 0.
Union(op, regs) ==
  IF Len(regs) = 1 THEN <<>>
  ELSE <<Fill(0, Len(regs) - 1)>> \o Accumulate(op, regs, 0)

\* Every leaf of leaves is the conjunction of its block and its offset.
BOLeaves(leaves) ==
  LET n == Len(leaves) IN
  <<Reshare([i \in 1 .. 2 * n |-> IF i <= n THEN Block(leaves[i][1], leaves[i][2])
                                  ELSE Offset(leaves[i - n][1], leaves[i - n][2])]),
    Fill(0, n)>>
    \o [i \in 1 .. n |->
          LET p == leaves[i][1]  l == leaves[i][2]
          IN  Combine("and", Block(p, l), Offset(p, l), Leaf(p, l), i - 1)]

LeavesOf(p, leafCount) == [l \in 1 .. leafCount[p] |-> <<p, l>>]
PredUnion(p, leafCount) ==
  Union("or", [l \in 1 .. leafCount[p] |-> Leaf(p, l)])

\* A predicate's vector is its first leaf, into which the others went.
BOPlan(leafCount, op) ==
  LET n == Len(leafCount) IN
  BOLeaves(FlattenSeq([p \in 1 .. n |-> LeavesOf(p, leafCount)]))
    \o FlattenSeq([p \in 1 .. n |-> PredUnion(p, leafCount)])
    \o Union(op, [p \in 1 .. n |-> Leaf(p, 1)])

\* The same, but one predicate after the other.
BOFSSPlan(leafCount, op) ==
  LET n == Len(leafCount) IN
  FlattenSeq([p \in 1 .. n |->
                BOLeaves(LeavesOf(p, leafCount)) \o PredUnion(p, leafCount)])
    \o Union(op, [p \in 1 .. n |-> Leaf(p, 1)])

Plan(kind, leafCount, isAnd) ==
  LET op    == Operator(isAnd)
      preds == [p \in DOMAIN leafCount |-> Pred(p)]
  IN  CASE kind = "filter"         -> EvalFilterPlan(preds, op)
        [] kind \in {"vb", "vbfss"} -> VBPlan(preds, op)
        [] kind = "bo"             -> BOPlan(leafCount, op)
        [] kind = "bofss"          -> BOFSSPlan(leafCount, op)

\* *filter_0 and *filter_1 at the end.
FilterReg(kind) == IF kind \in {"bo", "bofss"} THEN Leaf(1, 1) ELSE Pred(1)

=============================================================================
