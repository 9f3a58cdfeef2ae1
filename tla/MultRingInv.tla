----------------------------- MODULE MultRingInv -----------------------------
(***************************************************************************)
(* The inductive invariant of the share exchange of one query whose calls  *)
(* do not fail.  It says where the vectors between a server s and its      *)
(* predecessor are, from two counters: how many of the predecessor's       *)
(* vectors have reached the mailbox of s, and how many s has used.         *)
(***************************************************************************)
EXTENDS MultRingRefinement

\* Vectors of s that have been put in its successor's mailbox: those of the
\* rounds whose call is over.
Deposited(s, q) ==
  IF pc[s][q] \in {"compute", "calling"} THEN round[s][q] - 1 ELSE round[s][q]

\* Vectors that s has taken from its mailbox.
Used(s, q) == IF pc[s][q] = "done" THEN round[s][q] ELSE round[s][q] - 1

\* The mailbox of s holds the one vector that was deposited and not used yet.
Mailbox(s, q) ==
  LET d == Deposited(Pred(s), q)
      u == Used(s, q)
  IN  \/ d = u     /\ slot[s] = NoMsg
      \/ d = u + 1 /\ slot[s] = [query |-> q, round |-> d]

\* A predecessor blocked in SendMult has its vector on the wire or with the CQ
\* thread of s; otherwise neither holds anything.
InFlight(s, q) ==
  LET p == Pred(s)
  IN  IF pc[p][q] = "calling"
      THEN \/ wire[p] = {Outgoing(p, q)} /\ cqMsg[s] = NoMsg
           \/ wire[p] = {}               /\ cqMsg[s] = Outgoing(p, q)
      ELSE wire[p] = {} /\ cqMsg[s] = NoMsg

\* What the CQ thread and the worker of s sleep on and wake up for.
Sleepers(s, q) ==
  /\ cqState[s] = "idle" <=> cqMsg[s] = NoMsg
  /\ cqState[s] = "asleep" => slot[s] # NoMsg
  /\ cqState[s] = "woken" => slot[s] = NoMsg
  /\ pc[s][q] = "asleep" => slot[s] = NoMsg
  /\ pc[s][q] = "done" => round[s][q] = Rounds

\* In each round it has finished, s used the vector of the same round.
History(s, q) ==
  \A r \in Round :
    got[s][q][r] = IF r <= Used(s, q) THEN [query |-> q, round |-> r] ELSE NoMsg

\* The inductive invariant of one query at a time: it locates every vector
\* between two neighbours of the ring (RSSReshare, Multiply, FinishMultiply).
IInv ==
  \A s \in Server, q \in Queries :
    /\ Mailbox(s, q)
    /\ InFlight(s, q)
    /\ Sleepers(s, q)
    /\ History(s, q)

=============================================================================
