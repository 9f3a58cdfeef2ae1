--------------------------- MODULE PrivateAggregate ---------------------------
(***************************************************************************)
(* What a client gets for an aggregate query, whatever its handler and     *)
(* however many share exchanges lie behind it: the value of a row if the   *)
(* predicates select the row and nothing otherwise.  The answer of a query *)
(* is the sum over the rows, and the rows do not influence each other, so  *)
(* one row is enough.  RSSQuery implements this.                           *)
(***************************************************************************)
EXTENDS Integers, Sequences

CONSTANT NoResult

VARIABLES query, result

\* A leaf is the sequence of conditions that must all hold: one, or a block
\* and an offset.  A predicate holds where one of its leaves does.
LeafHolds(leaf) == \A i \in DOMAIN leaf : leaf[i] = 1
PredHolds(leaves) == \E l \in DOMAIN leaves : LeafHolds(leaves[l])

Selected(q) ==
  IF q.isAnd THEN \A p \in DOMAIN q.preds : PredHolds(q.preds[p])
             ELSE \E p \in DOMAIN q.preds : PredHolds(q.preds[p])

Exact(q) == IF Selected(q) THEN q.value ELSE 0

\* Any query; it is an input.
Init == result = NoResult

Answer == result = NoResult /\ result' = Exact(query) /\ UNCHANGED query

Spec == Init /\ [][Answer]_<<query, result>> /\ WF_<<query, result>>(Answer)

=============================================================================
