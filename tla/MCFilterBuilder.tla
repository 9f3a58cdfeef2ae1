--------------------------- MODULE MCFilterBuilder ---------------------------
(***************************************************************************)
(* Every query of two predicates on a column of four blocks of four        *)
(* buckets, boundaries outside of the column included.                     *)
(***************************************************************************)
EXTENDS FilterBuilder

Bound == 0 .. NumBuckets

\* First predicates that tell the kinds of intervals apart: a full column, a
\* lower and an upper end inside a block, and three blocks.
FirstRanges == {<<0, Last>>, <<0, 5>>, <<6, Last>>, <<3, 12>>}

MCRequests ==
  [kind : Kind, isPoint : {FALSE}, bounds : FirstRanges \X (Bound \X Bound)]
    \cup [kind : Kind, isPoint : {TRUE}, bounds : {<<<<x, x>>, <<y, y>>>> : x \in {5}, y \in Bound}]

=============================================================================
