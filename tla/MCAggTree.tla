------------------------------ MODULE MCAggTree ------------------------------
(***************************************************************************)
(* Trees of eight leaves that are filled and rolled up several times.      *)
(* Entries come with increasing indices, as in RollUpUnitTest, or with the *)
(* largest index there is, as the benchmark appends them.                  *)
(***************************************************************************)
EXTENDS AggTreeInv

MaxIdx == 1000

MCRand(n, i, j) == (7 * n * n + 5 * i + 11 * j * (n + i) + 3) % Word

MCEntries ==
  [n \in 1 .. 13 |->
     {[idx |-> idx, val |-> n] :
        idx \in IF n \in {4, 8, 9, 10, 12} THEN {n, MaxIdx} ELSE {n}}]

\* Both bounds used in the tests, equal ones, and bounds inside the tree; all
\* keys of a query are generated within a second.
SameSecond == [k \in 0 .. 2 |-> 1]
MCQueries == {[l |-> 8, r |-> 8, clock |-> SameSecond],
              [l |-> 2, r |-> 4, clock |-> SameSecond]}

=============================================================================
