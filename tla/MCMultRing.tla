----------------------------- MODULE MCMultRing -----------------------------
(***************************************************************************)
(* Instances of the share exchange for TLC: three servers, as in the       *)
(* program (NUM_SERVERS), and the mixes of RSSReshare and Multiply rounds   *)
(* of a query.                                                             *)
(***************************************************************************)
EXTENDS MultRingInv

\* A BO-FSS query of two predicates: reshare, multiplications, reshare, ...
MCReshares == {r \in {1, 4} : r <= Rounds}

=============================================================================
