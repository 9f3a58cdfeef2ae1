-------------------------- MODULE MultRingRefinement --------------------------
(***************************************************************************)
(* One query whose calls do not fail: the mailbox ring implements the      *)
(* round-by-round exchange of RoundExchange.                               *)
(***************************************************************************)
EXTENDS MultRing

TheQuery == CHOOSE q \in Queries : TRUE

\* A vector is published when SendMult is called with it.
publishedBar ==
  [s \in Server |-> IF pc[s][TheQuery] = "compute" THEN round[s][TheQuery] - 1
                                                   ELSE round[s][TheQuery]]

\* A round is finished when the mailbox is emptied into the worker's buffers.
finishedBar ==
  [s \in Server |-> IF pc[s][TheQuery] = "done" THEN round[s][TheQuery]
                                                ELSE round[s][TheQuery] - 1]

usedBar ==
  [s \in Server |-> [r \in Round |->
     IF got[s][TheQuery][r] = NoMsg THEN 0 ELSE got[s][TheQuery][r].round]]

Abstract == INSTANCE RoundExchange
              WITH published <- publishedBar, finished <- finishedBar, used <- usedBar

\* The threads, mailboxes and calls of the ring implement the abstract
\* exchange, progress included: every round a server publishes is eventually
\* finished, with its predecessor's vector of the same round.
ImplementsExchange == Abstract!FairSpec

\* Safety part alone.
ImplementsExchangeSafety == Abstract!Spec

=============================================================================
