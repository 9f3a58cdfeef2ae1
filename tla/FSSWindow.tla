------------------------------ MODULE FSSWindow ------------------------------
(***************************************************************************)
(* Evaluation of a key on a window of the domain, and the numbers behind   *)
(* points.  FSSKey evaluates at a point, a sequence of bits; the servers   *)
(* evaluate a table's key on contiguous windows (contigEvalOneDPFLarge,    *)
(* contigEvalOneDCFLarge), the whole domain or, in trees of depth 14 and   *)
(* more, one window per thread.  The recursion walks through an array of   *)
(* results and the bits of an index at the same time.                      *)
(***************************************************************************)
EXTENDS FSSKeyInv, FiniteSets, Sequences

VARIABLES
  start, size,  \* the window; size is a power of two and divides start
  slot,         \* an element of the array of results
  index         \* the number of alpha

windowVars == <<start, size, slot, index>>

\* 1 << k
TwoTo[k \in 0 .. Depth] == IF k = 0 THEN 1 ELSE 2 * TwoTo[k - 1]

Domain == 0 .. TwoTo[Depth] - 1

\* (idx >> (Depth - j)) & 1
BitAt(i, j) == (i \div TwoTo[Depth - j]) % 2

\* kIdx as it is used: only its lowest Depth bits count.
Bits(i) == [j \in 1 .. Depth |-> BitAt(i, j)]

\* Mutant of Children: the right half starts one element too far to the left.
ChildrenShifted(f) ==
  LET half == f.range \div 2
      left == [f EXCEPT !.range = half]
  IN  {left} \cup IF f.range > 1
                  THEN {[left EXCEPT !.at = f.at + half - 1, !.start = f.start + half]}
                  ELSE {}

\* Mutant of Children: the last pair of a window loses its right half.
ChildrenShort(f) ==
  LET half == f.range \div 2
      left == [f EXCEPT !.range = half]
  IN  {left} \cup IF f.range > 2
                  THEN {[left EXCEPT !.at = f.at + half, !.start = f.start + half]}
                  ELSE {}

\* The recursive calls of one call: the left half, and the right half if any.
Children(f) ==
  LET half == f.range \div 2
      left == [f EXCEPT !.range = half]
  IN  {left} \cup IF f.range > 1
                  THEN {[left EXCEPT !.at = f.at + half, !.start = f.start + half]}
                  ELSE {}

\* A call goes down one level by the bit of its own index.
Follow(f) == [f EXCEPT !.bits = Append(f.bits, BitAt(f.start, Len(f.bits) + 1))]

\* The calls of contigEvalOne*Large at each level, for the window of n indices
\* from from.  ContigDomainDPFLargeOutOptimized makes two at level 1.
Calls(from, n) ==
  LET half == n \div 2
      first(at) == [at |-> at, start |-> from + at, range |-> half, bits |-> <<>>]
      calls[d \in 1 .. Depth] ==
        IF d = 1 THEN {first(0), first(half)}
        ELSE UNION {Children(Follow(f)) : f \in calls[d - 1]}
  IN  calls

\* What those of the last level write: pairs of an element and the point whose
\* bits were followed to it.
Results(from, n) == {<<f.at, Follow(f).bits>> : f \in Calls(from, n)[Depth]}

WindowInit ==
  /\ Init
  /\ \E k \in 0 .. Depth : size = TwoTo[k]
  /\ start \in {i \in Domain : i % size = 0}
  /\ slot \in 0 .. size - 1
  /\ index \in Domain
  /\ alpha = Bits(index)
  /\ <<slot, x>> \in Results(start, size)

WindowNext == Next /\ UNCHANGED windowVars

WindowSpec == WindowInit /\ [][WindowNext]_<<vars, windowVars>>

Holds(i) ==
  CASE kind = "dpf" -> i = index
    [] kind = "lt" -> i < index
    [] kind = "gt" -> i > index

\* The array that a window's evaluation fills holds, at every element, a share
\* of the value at the element's own index: no element is missed, written for
\* another index or written with two different values.
SlotExact ==
  Evaluated =>
    (result[0] + result[1]) % Modulus = (IF Holds(start + slot) THEN payload ELSE 0) % Modulus

\* Every element of the window is written, once.
WindowFilled ==
  Evaluated =>
    LET r == Results(start, size)
    IN  {w[1] : w \in r} = 0 .. size - 1 /\ Cardinality(r) = size

=============================================================================
