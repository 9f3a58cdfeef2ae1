---------------------------- MODULE FilterBuilder ----------------------------
(***************************************************************************)
(* The client builds the filters of a query, one predicate after the       *)
(* other (VBAggQuery and GenerateCombined{VBFSS,BO,BOFSS}Filter), and      *)
(* throws at the first predicate that it does not support; nothing has     *)
(* been sent by then.  The leaves are those of RangeLeaves.                *)
(***************************************************************************)
EXTENDS RangeLeaves, Sequences

CONSTANT Requests   \* the queries that may be asked

VARIABLES
  request,  \* [kind, isPoint, bounds]: bounds[p] is <<left, right>>
  leaves,   \* leaves[p]: the leaves of predicate p
  status

vars == <<request, leaves, status>>

Kind   == {"vb", "vbfss", "bo", "bofss"}
Status == {"building", "sent", "thrown"}

\* Boundaries are uint32_t; a point is its own left and right boundary.
Request == [kind : Kind, isPoint : BOOLEAN, bounds : Seq(Nat \X Nat)]

ASSUME RequestsAssumption ==
  /\ Requests \subseteq Request
  /\ \A q \in Requests : q.isPoint => \A p \in DOMAIN q.bounds :
                                         q.bounds[p][1] = q.bounds[p][2]

\* domainDepth accepts powers of two only.
FSSDomain(n) == \E depth \in 0 .. n - 1 : n = 2^depth

Init ==
  /\ request \in Requests
  /\ leaves = <<>>
  /\ status = "building"

Predicate == Len(leaves) + 1
Left  == request.bounds[Predicate][1]
Right == request.bounds[Predicate][2]

Building == status = "building" /\ Predicate <= Len(request.bounds)

\* The checks of one predicate.
Supported ==
  /\ Left < NumBuckets /\ Right < NumBuckets
  /\ request.kind \in {"vb", "vbfss", "bofss"} =>
       request.isPoint \/ Left = 0 \/ Right = Last
  /\ request.kind = "bo" => Left <= Right
  /\ request.kind \in {"vbfss", "bofss"} => FSSDomain(BlockNum)
  /\ request.kind = "bofss" => FSSDomain(BlockSize)

Emit ==
  /\ Building
  /\ Supported
  /\ leaves' = Append(leaves, Leaves(request.kind, request.isPoint, Left, Right))
  /\ UNCHANGED <<request, status>>

Throw ==
  /\ Building
  /\ ~Supported
  /\ status' = "thrown"
  /\ UNCHANGED <<request, leaves>>

\* Mutant of Send: a filter is sent with the predicates that it has.
SendEarly ==
  /\ status = "building"
  /\ leaves # <<>>
  /\ status' = "sent"
  /\ UNCHANGED <<request, leaves>>

Send ==
  /\ status = "building"
  /\ Len(leaves) = Len(request.bounds)
  /\ status' = "sent"
  /\ UNCHANGED <<request, leaves>>

Ended == status # "building" /\ UNCHANGED vars

Next == Emit \/ Throw \/ Send \/ Ended

Spec == Init /\ [][Next]_vars

-----------------------------------------------------------------------------
\* Everything that a predicate may be broken up into.
LeafSet ==
  {Leaves(kind, isPoint, left, right) :
     kind \in Kind, isPoint \in BOOLEAN, left \in Bucket, right \in Bucket}

\* A query that is sent has all its predicates.
TypeOK ==
  /\ request \in Requests
  /\ leaves \in Seq(LeafSet)
  /\ Len(leaves) <= Len(request.bounds)
  /\ status \in Status
  /\ status = "sent" => Len(leaves) = Len(request.bounds)

\* No bucket is in two leaves of a predicate: the servers' sum of the leaves,
\* and their OR without the product, count a row at most once.
LeavesDisjoint == \A p \in DOMAIN leaves : Disjoint(leaves[p])

\* The leaves of a predicate select exactly the buckets between its
\* boundaries, for every kind of query and at every edge of a block.
LeavesExact ==
  \A p \in DOMAIN leaves :
    Selects(leaves[p], request.bounds[p][1], request.bounds[p][2])

\* Every entry of a vector that the client writes exists, and no loop over
\* entries runs from an index to a smaller one: that is a bR - 1 that wrapped
\* around at 0, or boundaries in the wrong order.
WritesInside ==
  \A p \in DOMAIN leaves : \A leaf \in leaves[p] :
    /\ Inside(leaf)
    /\ request.kind = "bo" => leaf.blocks # {} /\ leaf.offsets # {}

=============================================================================
