---------------------------- MODULE RoundExchange ----------------------------
(***************************************************************************)
(* What the share exchange of one query promises, without threads, calls   *)
(* or mailboxes: in every round each server publishes one vector and then  *)
(* uses the vector that its predecessor published in the same round.       *)
(* MultRing implements this (MultRingRefinement).                          *)
(***************************************************************************)
EXTENDS Integers

CONSTANTS
  NumServers,  \* length of the ring
  Rounds       \* exchanges of the query

Server == 0 .. NumServers - 1
Round  == 1 .. Rounds
Pred(s) == IF s = 0 THEN NumServers - 1 ELSE s - 1

VARIABLES
  published,   \* published[s]: rounds in which s has published its vector
  finished,    \* finished[s]: rounds s has completed
  used         \* used[s][r]: predecessor's round that s used in its round r

vars == <<published, finished, used>>

Init ==
  /\ published = [s \in Server |-> 0]
  /\ finished = [s \in Server |-> 0]
  /\ used = [s \in Server |-> [r \in Round |-> 0]]

Publish(s) ==
  /\ published[s] = finished[s]
  /\ published[s] < Rounds
  /\ published' = [published EXCEPT ![s] = @ + 1]
  /\ UNCHANGED <<finished, used>>

\* Server s completes a round with the vector published in that round.
Finish(s) ==
  /\ finished[s] < published[s]
  /\ finished[s] < published[Pred(s)]
  /\ used' = [used EXCEPT ![s][finished[s] + 1] = finished[s] + 1]
  /\ finished' = [finished EXCEPT ![s] = @ + 1]
  /\ UNCHANGED published

Next == \E s \in Server : Publish(s) \/ Finish(s)

Spec == Init /\ [][Next]_vars

FairSpec == Spec /\ \A s \in Server : WF_vars(Publish(s)) /\ WF_vars(Finish(s))

=============================================================================
