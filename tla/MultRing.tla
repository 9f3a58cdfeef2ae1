------------------------------ MODULE MultRing ------------------------------
(***************************************************************************)
(* The share exchange of the query servers.  The servers form a ring:      *)
(* every round of a query, each of them sends one vector of shares to its  *)
(* successor (Aggregate.SendMult) and uses the vector that its predecessor *)
(* sent.  Three kinds of threads meet here:                                *)
(*                                                                         *)
(*   - the worker of a query at a server (a gRPC handler thread), which    *)
(*     runs RSSReshare and Multiply round after round;                     *)
(*   - the completion-queue (CQ) thread of a server, which accepts the     *)
(*     predecessor's calls one at a time (CallData::Proceed) and hands     *)
(*     each vector over in FinishMultiply;                                 *)
(*   - the transport between two servers.                                  *)
(*                                                                         *)
(* Worker and CQ thread share one mailbox, multReceivedShares, guarded by  *)
(* multLock; the worker sleeps on multCV while it is empty and the CQ      *)
(* thread sleeps on orderCV while it is full.  A vector carries neither a  *)
(* query nor a round number: Msg records them so that properties can talk  *)
(* about which vector was used, and no action reads them to decide.        *)
(*                                                                         *)
(* Each step between two acquisitions of multLock is one action.  The      *)
(* answer to a SendMult call, given just after multLock is released, is    *)
(* part of the step that fills the mailbox: it only lets the caller go on. *)
(***************************************************************************)
EXTENDS Integers, FiniteSets

CONSTANTS
  NumServers,  \* length of the ring (NUM_SERVERS is 3 in the program)
  Queries,     \* queries that are in progress at the same time
  Rounds,      \* share exchanges that one query makes
  Reshares,    \* the rounds made by RSSReshare; Multiply makes the others
  MaxFailures, \* bound on SendMult calls that end with an error status
  NoMsg        \* multReceivedShares == NULL

ASSUME RingAssumption    == NumServers \in Nat /\ NumServers >= 2
ASSUME RoundsAssumption  == Rounds \in Nat \ {0} /\ Reshares \subseteq 1..Rounds
ASSUME FailureAssumption == MaxFailures \in Nat

Server == 0 .. NumServers - 1
Round  == 1 .. Rounds
Msg    == [query : Queries, round : Round]

ASSUME NoMsgAssumption == NoMsg \notin Msg

\* The server whose successor, (serverID + 1) % NUM_SERVERS, is s.
Pred(s) == IF s = 0 THEN NumServers - 1 ELSE s - 1

VARIABLES
  pc,        \* pc[s][q]: where query q's worker is at server s
  round,     \* round[s][q]: the exchange that worker is in
  wire,      \* wire[s]: calls of s that its successor has not accepted yet
  posted,    \* posted[s]: RequestSendMult registrations waiting for a call
  cqState,   \* cqState[s]: what the CQ thread of s is doing
  cqMsg,     \* cqMsg[s]: the vector FinishMultiply was called with
  slot,      \* slot[s]: multReceivedShares
  got,       \* got[s][q][r]: the vector used in round r (history)
  failures   \* calls that have failed so far

vars == <<pc, round, wire, posted, cqState, cqMsg, slot, got, failures>>

\* "compute": computing the vector to send.  "calling": blocked in SendMult.
\* "returned": the call is over, multLock not yet taken.  "asleep": in
\* multCV.wait.  "woken": notified, multLock not yet retaken.
WorkerState == {"compute", "calling", "returned", "asleep", "woken", "done"}

\* "fresh": Proceed is running for a new call.  "asleep": in orderCV.wait.
\* "woken": notified, multLock not yet retaken.
CQState == {"idle", "fresh", "asleep", "woken"}

TypeOK ==
  /\ pc \in [Server -> [Queries -> WorkerState]]
  /\ round \in [Server -> [Queries -> Round]]
  /\ wire \in [Server -> SUBSET Msg]
  /\ posted \in [Server -> Nat]
  /\ cqState \in [Server -> CQState]
  /\ cqMsg \in [Server -> Msg \cup {NoMsg}]
  /\ slot \in [Server -> Msg \cup {NoMsg}]
  /\ got \in [Server -> [Queries -> [Round -> Msg \cup {NoMsg}]]]
  /\ failures \in 0 .. MaxFailures

\* One registration is made before the CQ thread enters its loop.
Init ==
  /\ pc = [s \in Server |-> [q \in Queries |-> "compute"]]
  /\ round = [s \in Server |-> [q \in Queries |-> 1]]
  /\ wire = [s \in Server |-> {}]
  /\ posted = [s \in Server |-> 1]
  /\ cqState = [s \in Server |-> "idle"]
  /\ cqMsg = [s \in Server |-> NoMsg]
  /\ slot = [s \in Server |-> NoMsg]
  /\ got = [s \in Server |-> [q \in Queries |-> [r \in Round |-> NoMsg]]]
  /\ failures = 0

-----------------------------------------------------------------------------
(* The worker of query q at server s.  A mutant is the action with one      *)
(* mistake; no specification uses it.                                      *)

\* The vector the worker is sending in its current round.
Outgoing(s, q) == [query |-> q, round |-> round[s][q]]

\* Mutant of Send: the worker does not wait for the call to be answered.
SendAndGoOn(s, q) ==
  /\ pc[s][q] = "compute"
  /\ pc' = [pc EXCEPT ![s][q] = "returned"]
  /\ wire' = [wire EXCEPT ![s] = @ \cup {Outgoing(s, q)}]
  /\ UNCHANGED <<round, posted, cqState, cqMsg, slot, got, failures>>

\* Mutant of Send: the last exchange is started and not waited for.
SendAndFinish(s, q) ==
  /\ pc[s][q] = "compute"
  /\ pc' = [pc EXCEPT ![s][q] = IF round[s][q] = Rounds THEN "done" ELSE "calling"]
  /\ wire' = [wire EXCEPT ![s] = @ \cup {Outgoing(s, q)}]
  /\ UNCHANGED <<round, posted, cqState, cqMsg, slot, got, failures>>

\* The vector is computed and SendMult is called; the call blocks.
Send(s, q) ==
  /\ pc[s][q] = "compute"
  /\ pc' = [pc EXCEPT ![s][q] = "calling"]
  /\ wire' = [wire EXCEPT ![s] = @ \cup {Outgoing(s, q)}]
  /\ UNCHANGED <<round, posted, cqState, cqMsg, slot, got, failures>>

\* SendMult ends with an error; its Status is ignored and the worker goes on.
\* The vector may have been lost on the way, or still be delivered.
CallFails(s, q) ==
  /\ pc[s][q] = "calling"
  /\ failures < MaxFailures
  /\ failures' = failures + 1
  /\ pc' = [pc EXCEPT ![s][q] = "returned"]
  /\ \E lost \in SUBSET {Outgoing(s, q)} : wire' = [wire EXCEPT ![s] = @ \ lost]
  /\ UNCHANGED <<round, posted, cqState, cqMsg, slot, got>>

\* The mailbox is empty: wait on multCV.  RSSReshare, unlike Multiply, first
\* registers one more CallData; the while loop does not do so again.
Sleep(s, q) ==
  /\ pc[s][q] \in {"returned", "woken"}
  /\ slot[s] = NoMsg
  /\ pc' = [pc EXCEPT ![s][q] = "asleep"]
  /\ posted' = IF pc[s][q] = "returned" /\ round[s][q] \in Reshares
               THEN [posted EXCEPT ![s] = @ + 1]
               ELSE posted
  /\ UNCHANGED <<round, wire, cqState, cqMsg, slot, got, failures>>

\* Mutant of NotifyOrderCV: the mailbox is emptied without a notification.
NotifyNobody(s) == cqState

\* orderCV.notify_one: the only thread that ever waits there is the CQ thread.
NotifyOrderCV(s) ==
  IF cqState[s] = "asleep" THEN [cqState EXCEPT ![s] = "woken"] ELSE cqState

\* Mutant of Take: multReceivedShares is not set back to NULL.
TakeAndKeep(s, q) ==
  /\ pc[s][q] \in {"returned", "woken"}
  /\ slot[s] # NoMsg
  /\ got' = [got EXCEPT ![s][q][round[s][q]] = slot[s]]
  /\ cqState' = NotifyOrderCV(s)
  /\ IF round[s][q] = Rounds
     THEN pc' = [pc EXCEPT ![s][q] = "done"] /\ UNCHANGED round
     ELSE /\ pc' = [pc EXCEPT ![s][q] = "compute"]
          /\ round' = [round EXCEPT ![s][q] = @ + 1]
  /\ UNCHANGED <<wire, posted, cqMsg, slot, failures>>

\* Mutant of Take: one exchange too many.
TakeOneMore(s, q) ==
  /\ pc[s][q] \in {"returned", "woken"}
  /\ slot[s] # NoMsg
  /\ got' = [got EXCEPT ![s][q][round[s][q]] = slot[s]]
  /\ slot' = [slot EXCEPT ![s] = NoMsg]
  /\ cqState' = NotifyOrderCV(s)
  /\ IF round[s][q] > Rounds
     THEN pc' = [pc EXCEPT ![s][q] = "done"] /\ UNCHANGED round
     ELSE /\ pc' = [pc EXCEPT ![s][q] = "compute"]
          /\ round' = [round EXCEPT ![s][q] = @ + 1]
  /\ UNCHANGED <<wire, posted, cqMsg, failures>>

\* The mailbox is full: copy the vector out, empty the mailbox, notify the CQ
\* thread and start the next round, or finish the query after the last one.
Take(s, q) ==
  /\ pc[s][q] \in {"returned", "woken"}
  /\ slot[s] # NoMsg
  /\ got' = [got EXCEPT ![s][q][round[s][q]] = slot[s]]
  /\ slot' = [slot EXCEPT ![s] = NoMsg]
  /\ cqState' = NotifyOrderCV(s)
  /\ IF round[s][q] = Rounds
     THEN pc' = [pc EXCEPT ![s][q] = "done"] /\ UNCHANGED round
     ELSE /\ pc' = [pc EXCEPT ![s][q] = "compute"]
          /\ round' = [round EXCEPT ![s][q] = @ + 1]
  /\ UNCHANGED <<wire, posted, cqMsg, failures>>

-----------------------------------------------------------------------------
(* The CQ thread of server s.                                              *)

\* cq->Next returns the tag of a registration that a call was matched with.
\* Calls of concurrent workers are matched in any order.
Accept(s) ==
  /\ cqState[s] = "idle"
  /\ posted[s] > 0
  /\ \E m \in wire[Pred(s)] :
       /\ wire' = [wire EXCEPT ![Pred(s)] = @ \ {m}]
       /\ cqMsg' = [cqMsg EXCEPT ![s] = m]
  /\ posted' = [posted EXCEPT ![s] = @ - 1]
  /\ cqState' = [cqState EXCEPT ![s] = "fresh"]
  /\ UNCHANGED <<pc, round, slot, got, failures>>

\* Mutant of NotifyMultCV: the mailbox is filled without a notification.
WakeNobody(s) == {{}}

\* The sets of workers that one multCV.notify_one may wake at server s.
NotifyMultCV(s) ==
  LET sleeping == {q \in Queries : pc[s][q] = "asleep"}
  IN  IF sleeping = {} THEN {{}} ELSE {{q} : q \in sleeping}

\* The worker whose SendMult call brought m to server s, if it still waits.
Callers(s, m) ==
  {q \in Queries : /\ q = m.query
                   /\ pc[Pred(s)][q] = "calling"
                   /\ round[Pred(s)][q] = m.round}

\* Mutant of HandOver: the vector is stored whatever the mailbox holds.
HandOverAnyway(s) ==
  /\ cqState[s] \in {"fresh", "woken"}
  /\ slot' = [slot EXCEPT ![s] = cqMsg[s]]
  /\ cqMsg' = [cqMsg EXCEPT ![s] = NoMsg]
  /\ \E woken \in NotifyMultCV(s) :
       pc' = [t \in Server |-> [q \in Queries |->
                IF t = Pred(s) /\ q \in Callers(s, cqMsg[s]) THEN "returned"
                ELSE IF t = s /\ q \in woken THEN "woken"
                ELSE pc[t][q]]]
  /\ posted' = IF cqState[s] = "fresh" THEN [posted EXCEPT ![s] = @ + 1] ELSE posted
  /\ cqState' = [cqState EXCEPT ![s] = "idle"]
  /\ UNCHANGED <<round, wire, got, failures>>

\* Mutant of HandOver: Proceed does not register the next CallData.
HandOverOnce(s) ==
  /\ cqState[s] \in {"fresh", "woken"}
  /\ slot[s] = NoMsg
  /\ slot' = [slot EXCEPT ![s] = cqMsg[s]]
  /\ cqMsg' = [cqMsg EXCEPT ![s] = NoMsg]
  /\ \E woken \in NotifyMultCV(s) :
       pc' = [t \in Server |-> [q \in Queries |->
                IF t = Pred(s) /\ q \in Callers(s, cqMsg[s]) THEN "returned"
                ELSE IF t = s /\ q \in woken THEN "woken"
                ELSE pc[t][q]]]
  /\ cqState' = [cqState EXCEPT ![s] = "idle"]
  /\ UNCHANGED <<round, wire, posted, got, failures>>

\* Proceed registers the next CallData (unless this is the second entry, after
\* a wait), FinishMultiply finds the mailbox empty, fills it, notifies multCV,
\* and responderMult.Finish ends the sender's call.
HandOver(s) ==
  /\ cqState[s] \in {"fresh", "woken"}
  /\ slot[s] = NoMsg
  /\ slot' = [slot EXCEPT ![s] = cqMsg[s]]
  /\ cqMsg' = [cqMsg EXCEPT ![s] = NoMsg]
  /\ \E woken \in NotifyMultCV(s) :
       pc' = [t \in Server |-> [q \in Queries |->
                IF t = Pred(s) /\ q \in Callers(s, cqMsg[s]) THEN "returned"
                ELSE IF t = s /\ q \in woken THEN "woken"
                ELSE pc[t][q]]]
  /\ posted' = IF cqState[s] = "fresh" THEN [posted EXCEPT ![s] = @ + 1] ELSE posted
  /\ cqState' = [cqState EXCEPT ![s] = "idle"]
  /\ UNCHANGED <<round, wire, got, failures>>

\* Proceed registers the next CallData, FinishMultiply finds the mailbox full,
\* registers one more and waits on orderCV; the server accepts no call meanwhile.
Block(s) ==
  /\ cqState[s] = "fresh"
  /\ slot[s] # NoMsg
  /\ cqState' = [cqState EXCEPT ![s] = "asleep"]
  /\ posted' = [posted EXCEPT ![s] = @ + 2]
  /\ UNCHANGED <<pc, round, wire, cqMsg, slot, got, failures>>

-----------------------------------------------------------------------------
AllDone == \A s \in Server, q \in Queries : pc[s][q] = "done"

\* The queries are answered; the servers stay up.
Answered == AllDone /\ UNCHANGED vars

Worker(s, q) == Send(s, q) \/ Sleep(s, q) \/ Take(s, q)
CQThread(s)  == Accept(s) \/ HandOver(s) \/ Block(s)

Next ==
  \/ \E s \in Server : (\E q \in Queries : Worker(s, q)) \/ CQThread(s)
  \/ Answered

Spec == Init /\ [][Next]_vars

\* The exchange with share calls that fail.
FaultyNext == Next \/ \E s \in Server, q \in Queries : CallFails(s, q)

FaultySpec == Init /\ [][FaultyNext]_vars

\* Threads are scheduled and the transport delivers.
Fairness ==
  \A s \in Server :
    /\ WF_vars(CQThread(s))
    /\ \A q \in Queries : WF_vars(Worker(s, q))

FairSpec == Spec /\ Fairness

-----------------------------------------------------------------------------
(* Properties of the exchange, for any number of queries and failures.     *)

\* Where a vector that server s received or will receive can be: in flight,
\* with the CQ thread, in the mailbox, or used in round r by query q's worker.
Places(s, m) ==
  {<<"wire">> : x \in wire[Pred(s)] \cap {m}}
    \cup {<<"cq">> : x \in {cqMsg[s]} \cap {m}}
    \cup {<<"slot">> : x \in {slot[s]} \cap {m}}
    \cup {<<"used", x[1], x[2]>> :
            x \in {y \in Queries \X Round : got[s][y[1]][y[2]] = m}}

\* No vector is ever used twice or kept in two places: FinishMultiply waits
\* for the mailbox to be empty and the worker empties it before anyone else
\* can read it, whatever calls fail and however many workers compete for it.
NoDuplicate ==
  \A s \in Server, m \in Msg : Cardinality(Places(s, m)) <= 1

\* While no call has failed, every vector that was sent and only those is in
\* exactly one place: nothing is overwritten in the mailbox or invented.
Conservation ==
  failures = 0 =>
    \A s \in Server, m \in Msg :
      (Places(s, m) # {}) <=>
        \/ m.round < round[Pred(s)][m.query]
        \/ /\ m.round = round[Pred(s)][m.query]
           /\ pc[Pred(s)][m.query] # "compute"

\* No thread sleeps on a condition that already holds with nobody on the way
\* to see it: notify_one on each condition variable reaches whoever is needed,
\* also when calls have failed and vectors come late.
NoLostWakeup ==
  \A s \in Server :
    /\ slot[s] # NoMsg /\ (\E q \in Queries : pc[s][q] = "asleep") =>
         \E q \in Queries : pc[s][q] \in {"returned", "woken"}
    /\ cqState[s] = "asleep" => slot[s] # NoMsg

\* Every query is eventually finished at every server: no cycle of workers
\* blocked in SendMult, workers asleep and CQ threads asleep can form.
Termination == <>AllDone

-----------------------------------------------------------------------------
(* Properties of one query at a time.                                      *)

\* Vectors carry no round number, and still the vector a worker uses in a
\* round is the one its predecessor sent in the same round.
RoundMatch ==
  \A s \in Server, q \in Queries, r \in Round :
    got[s][q][r] # NoMsg => got[s][q][r] = [query |-> q, round |-> r]

\* Neighbours are never more than one exchange apart: the mailbox holds one
\* vector and the sender is released only when its vector is in it.
NeighbourSkew ==
  \A s \in Server, q \in Queries :
    /\ round[s][q] <= round[Pred(s)][q] + 1
    /\ round[Pred(s)][q] <= round[s][q] + 1

\* A finished query leaves nothing behind that the next one could take.
CleanWhenDone ==
  AllDone => \A s \in Server : /\ wire[s] = {}
                               /\ slot[s] = NoMsg
                               /\ cqState[s] = "idle"

=============================================================================
